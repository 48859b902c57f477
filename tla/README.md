# Verification of the cloud agent

TLA+ modules, TLC runs and TLAPS proofs for the Innate cloud agent (`src/`): the
server a robot connects to over a websocket, which looks at the robot's images
with a vision model and answers with what to observe, say and do. Line numbers
below are those of the repository; `brain.py` stands for `src/brain.py` in it.

## 1. Inventory

One process serves all connections on one asyncio event loop. Each connection has
a `Brain`; a history summarizer is the only code that runs in a thread of its own.

| part | state | operations | talks to |
|---|---|---|---|
| **Connection** `agent_connection.py` | websocket, brain, brain task | authenticate, receive loop, send, shutdown | `enqueue_message`; token cache; debug registry |
| **Brain** `brain.py` | `BrainState` (tracked primitive, activation flag, slow-agent flag, ids, directive...), `message_queue` | main loop, one handler per message type, reset | everything below |
| **Image handling** `image_handler.py`, `parallel_agents.py` | none | extract, call the model, validate, convert the next task | vision service, navigation handler, history |
| **Chat** `chat_handler.py`, `fast_answer_agent.py` | none | commands, fast and slow agent in parallel | Brain (flag, answer), memory states |
| **Primitive lifecycle** `primitive_handler.py` | none (reads the tracked primitive) | completed, failed, interrupted, feedback, activated | Brain, history |
| **Navigation conversion** `navigation_handler.py` and primitives | the primitives' current variables | turn a local primitive into a `navigate_to_position` or into nothing | pose graph, models |
| **Continuous navigation** `nav_insight_continuous.py` | active, id, objective, iteration count | activate, one hop per image, deactivate | Brain, navigation handler |
| **History** `history.py`, `summarizer.py` | entries, `is_summarizing`, lock | add, reset, summarize in a thread, render, save | Brain, summary model |
| **Pose graph** `navigate_through_memory.py`, `pose_graph_handler.py` | a graph and image files per user, one singleton | add with eviction, find, reset, save, load | Brain, disk |
| **Memory states** `memory_state_manager.py` | directories | save, load | history, pose graph, disk |
| **Authentication** `token_auth.py` | cache with expiry | validate a key, compare versions | auth service |
| **Debug panel** `debug_panel.py` | registry of brains | register, unregister, show | Connection |
| **Vision agent** `native_gemini_*`, `vision_service.py` | none | build the schema, call with retries, convert the answer | model |

### What is hard

* *Two kinds of coroutine on one state.* `enqueue_message` puts everything but a
  `chat_in` in a queue that one loop serves in order; a `chat_in` becomes a task
  at once (brain.py:185-201) and runs beside whatever the loop is waiting for.
  Between a model call and its answer the state the call was made with is stale.
* *The image loop has no timer.* The robot sends an image when, and only when, it
  gets `ready_for_image`. An answer with a task holds the next request back; the
  activation of the task, or a terminal of a task that never activated, gives it
  (brain.py:517-532). A path that forgets it stops the agent silently, one that
  gives it twice has two images under way. An image whose handling raises is
  forgotten in just that way: `process_message` logs the error and goes on (brain.py:261-264).
* *Ids are reused.* Every hop of a continuous navigation is sent under one id, so
  the reports on one hop are indistinguishable from those on another.
* *Reports are late.* A primitive is replaced by the next answer while its own
  activation or terminal is still in the queue.
* *The history is shared with a thread* whose lock the event loop never takes.
* *Files are written in several steps*: the pose graph and its images, and the
  memory states, with no atomic replacement.
* *Shutdown races what is under way*: the brain's task may have been woken for a
  message, or be inside a handler, when it is stopped and cancelled.
* *Two agents answer one chat*, and either may fail while the other works.

### What makes the parts correct

* Brain: one task at a time between being sent and acknowledged; what the robot
  does is what the brain tracks; the flag belongs to the tracked primitive; a
  report on another primitive changes nothing; the image loop never stalls, unless
  the handling of an image or of a chat's answer raises.
* Continuous navigation: bounded, and it always hands the images back.
* Agents: an answer reaches the client unless it was told something else; no agent
  outlives its call; retries are bounded; what an image is answered with can be done.
* History: one summarizer at a time; a summary replaces exactly what it is of;
  nothing else is lost; summarizing ends; a reset forgets.
* What the agents are shown of it: the newest of everything, the latest images in
  their places, and one text for both agents.
* Pose graph: bounded; eviction costs no coverage while it need not; a location
  found is where the picture was taken; pictures and nodes match as long as
  nothing failed. To its users, each operation is one step; a failure damages
  nothing but what was being written.
* Connection: opened only for a key granted lately; shut down as a whole, always;
  a stopped brain takes nothing more; no dead brain is listed.

## 2. Plan

| module | models | extends or composes |
|---|---|---|
| `Robot` | the client and the wire (external) | |
| `ImageLoop` | what the brain promises about images (abstract) | |
| `Brain`, `MCBrain` | the brain of one connection | `Robot`; implements `ImageLoop` |
| `BrainProofs`, `BrainPlainProofs` | every session; the plain session | the second extends the first |
| `Agents`, `AgentsProofs` | one call of the agents, which `Brain` takes as one step | |
| `History`, `MCHistory`, `HistoryProofs` | entries and summarizer threads | |
| `Transcript`, `MCTranscript`, `TranscriptProofs` | what the agents are shown of the history | |
| `MemoryStore` | what the pose memory promises its users (abstract) | |
| `PoseMemory`, `MCPoseMemory` | graphs, pictures and saved states, file by file | implements `MemoryStore` |
| `PoseMemoryProofs`, `PoseStoreProofs` | each graph and frame; the stores as a whole and the refinement | the second extends the first |
| `TokenAuth` | versions, warnings, keys and the cache | |
| `Connection`, `MCConnection`, `ConnectionProofs` | overlapping connections of one process | `TokenAuth` |

All of it is done. What could follow is a composition of `Brain` with `PoseMemory` through the `"memory"` conversion, which
has no state in common with the rest beyond the outcome that `Brain` already leaves open.

## 3. The modules

### Robot

The client is not in this repository; `Robot` is what the brain's code and the
protocol in the repository's README (lines 85-185) rely on: one image per `ready_for_image`
(`grants` counts the requests not answered yet), every task sent is started
(`activated`) or refused (a terminal `failed` and no activation, the never-started
path of brain.py:46-51), and a started task ends with one terminal. Each may be
as late as the robot likes, and messages arrive in the order sent. A task is a
`primitive_id`; its reports carry the fields that the handlers read, while an
image it sends may be rejected or make its handling raise. A *job* is `<<id, hop>>`, because continuous navigation sends an id
several times: the robot reports the id only, which is all the brain can see.

### Brain

A step is what one coroutine does between two suspension points at which state
written afterwards can be affected by others:

* `main`: the loop of `Brain.run`. `"vlm"`: awaiting the vision model
  (image_handler.py:165), holding the `primitive_in_execution` it was called with.
  `"activated"`: awaiting the `ready_for_image` in
  `PrimitiveHandler.handle_primitive_activated`, after which
  `handle_primitive_activated` (brain.py:580-593) writes back what it had read.
  `"terminal"`: awaiting the one in `_finish_terminal_lifecycle`, after which
  failed and interrupted deactivate the continuous navigation.
* `chat[c]`: the task of one `chat_in`. `"agents"`: awaiting the agents;
  `"raised"`: the conversion raised and was logged (brain.py:203-214).
* `faults` counts the resets, the images that are rejected and those whose handling raises.
* `primitive_in_execution`, `primitive_activation_seen`, `slow_agent_running` and
  `primitive_ids_map` are the fields of `BrainState` with those names; `nav` is the
  `NavInsightContinuous` instance (`_is_active`, `_primitive_id`, `_iteration_count`).

Sends after which nothing is written are part of the step before them. The answer
of a model is any answer: with or without a stop, with no task or with a task of
any kind in `Kinds`. What the code does with it is `AllowsTask` (the discrepancy
check of `validate_vision_output`, on the snapshot) and `Conversions`: for each
kind, what is sent, what is remembered and what becomes of the continuous
navigation. The kinds: `"remote"` is a primitive the robot offers, `"turn"`,
`"in_sight"`, `"memory"` and `"continuous"` the local ones. `"check"` is
`check_distance_and_orientation`, which the conversion knows but no list of local
primitives has: such a task is always cancelled, and the primitive's own file is
unreachable. Two of the outcomes are worth a reader's attention. A *phantom* is a
task that was cleared on the answer but not on the copy for the history, from
which `_send_vision_output` takes what it tracks: `navigate_in_sight` leaves one when
its target is unsafe or close enough (navigation_handler.py:161-208), a continuous navigation
when it ends at its first image. And an unsafe first move of a continuous navigation
cancels the task but leaves the navigation active.

An unusable image ends in one of two ways. Where the code notices, it sends an error and the next
request (`RejectImage`). Where it does not, the handling raises, `process_message`
only logs that, and nothing is sent: for a depth payload that cannot be decoded or a second camera without its fields
(`RaiseImage`; image_handler.py:129, :230-275), for a conversion that cannot use the
message's fields or map (`RaiseVision`, and `ChatRaises` for a chat's answer), for a
hop whose map decodes and cannot be used (`RaiseHop`, by when the hop is counted). A continuous navigation may be active
by the time its conversion raises. The other conversions do not raise: a `"turn"`'s inputs have
the types of the reply's schema, `"memory"` catches its errors, `"remote"` converts nothing;
and the map drawn for an image (image_processor.py:189-324) and `history.save` catch theirs.

Messages that no decision above reads are left out: `pose_image` (see `PoseMemory`),
registration (see `Agents`), feedback, the user's words, the directive and the variant. Ids are fresh
(`FreshTasks`), as uuid4's are; when the ids of an instance run out the model
answers without tasks. The queue has no bound in the code and none in the model;
it stays short because each message answers something.

### ImageLoop

The protocol of the repository's README as one variable with five stages. The fifth, `"broken"`, has
nothing outstanding; only an image whose handling raises leads there (`Break`), and nothing leads
out. `Brain` maps to it by `LoopStage`; the run `brain_plain` checks that the plain session implements it
with its fairness, and `BrainPlainProofs` proves it without: each image is asked for, sent, looked at and answered, never
two at a time and, until one raises, never none.

### History

`entries` is the list, an entry the set of the additions it stands for, so that what
a summary or a lost update does to each addition can be said. The event loop's
operations are steps; a thread's steps are the return of the model call, the slice and
the swap of the critical section (between which the event loop, which takes no
lock, may add), the branch for a shrunk history, and the finally clause.
`non_summarized_entries` is written only and left out.

### Agents

What `Brain` takes as one step, "the model answers", is many: `runner` is the
coroutine that made the call (`run_agents_in_parallel` for a chat,
`process_image_message` for an image), `fast` and `slow` the tasks of the two agents, and an
action is the code of one of them up to its next await. The order in which the
event loop runs them matters and is modelled: the fast task, created first, runs first, and a
fast task that raises before its request wakes the runner ahead of any reply. The
errors of a request are typed, or told apart by the words in their text
(native_gemini_vision_agent.py:592-627), and each attempt may fail with any. An answer names a
task that was *offered*: a local primitive only if the robot had registered
`navigate_to_position` when the call was made. The fast agent's reply has no schema: a
response that is not a text is `"unusable"` and raises where it is sliced for the log
(parallel_agents.py:132), before anything is sent. Registrations come at any time but
wait behind an image, as any message of the main loop does.

The branch of the image path that would run a fast agent beside the image
(image_handler.py:145-176, 444-485) is dead code, since `latest_user_message` is never
set, and left out; so is the sleep before an attempt but for its being an await.

### Transcript

The functions of `history.py` that turn entries into what the agents read: the
window of the last `MULTIMODAL_HISTORY_COUNT` entries, up to four lines for a vision
output, deduplication of lines of a kind by their last text, the choice of the latest
images, and the two renderings (`get_as_string`, `get_as_multimodal_list`). Each is an operator; the
state is the history, which grows, is summarized and is reset. The properties are
stated over what comes out, against definitions that know nothing of how it is made.
A message is one of a few words, in two spellings where letter case matters. Passes are written as
recursive functions and with one helper, `At`, for the elements at some indices, so that they can be
reasoned about for any length.

### MemoryStore and PoseMemory

`PoseMemory` is `navigate_through_memory.py`, `pose_graph_handler.py` and
`memory_state_manager.py`. `graphs` is `_user_graphs`; `graphFile`, `files` and `saved` are
what is on the disk. A graph is a sequence of nodes in the order of their ids,
a node a pose and its picture; a picture carries the pose it was taken at, so that a mix-up
can be seen. Operations have no await inside, so `job` is the only one under way; its
`at` names the next file operation, and each is a step that succeeds, fails as the code
handles it, or is the last one before a `Crash`. An open graph file is `Torn` until
it is written. Which cells of the grid a pose sees is a constant; the coverage arithmetic,
the threshold and the eviction score are computed as the code does, but for the recency
weight `exp(-0.01 * age)`: it is positive, or 0.0 as a float for the `faded` oldest nodes, and the order of
the scores is what matters.

`MemoryStore` is what the brains that use it may count on: a map per user, the copy a
restart reads, and named states. `PoseMemory` maps to it by what can be told of memory
and disk between operations; during one the store shows what it showed before. A failure is the
store's `Damage`: it may cost the acting user what was being written, and nobody
else anything but what had not been kept.

### TokenAuth and Connection

`TokenAuth` is `token_auth.py`: the version check and its spoken warning with the table
that keeps it from being repeated, the key's check at the service (a blocking request that
takes up to `Delay`), and the cache of good answers. `granted` and `spoken` are history
variables for the properties. `Connection` is `agent_connection.py`: the handshake, the
receive loop and its finally block, with the main loop of the brain it starts and
stops. `loop` says whether `Brain.run` waits in `get`, has been woken by a put but has not run,
handles a message, or has ended; `cancel` that it was cancelled, which takes effect at its next
await. `registry` is the debug panel's, keyed by user, so that two connections of one robot meet in
it. What happens inside a handler is `Brain`'s; here it takes as long as it likes.

## 4. The runs

| run | instance | what it shows |
|---|---|---|
| `brain_plain` | 3 tasks, no chat, no reset, 1 bad image, 1 that raises; all kinds but continuous | `OneUnacknowledgedTask`, `LiveTaskTracked`, `ConfirmedMeansStarted`; the refinement of `ImageLoop` with its fairness |
| `brain_races` | 2 tasks, 2 chats, 1 raise, continuous navigation of one hop | `LoopStallsOnlyByRaise`, `ConfirmedMeansStarted` |
| `brain_hops` | 1 task of 2 hops, 1 chat, 1 reset, 1 bad image, 1 that raises | `TypeOK`, `LoopStallsOnlyByRaise`, `LoopProgress` |
| `brain_chat_pair` | 2 tasks, 1 chat | violation of `OneUnacknowledgedTask` |
| `brain_stale_report` | 2 tasks, 1 chat, continuous navigation | violation of `StaleTerminalTouchesNothing` |
| `brain_phantom` | 2 tasks, no chat, `navigate_in_sight` | violation of `TrackedTaskWasSent` |
| `agents` | 2 primitives of the robot, 1 local, 10 attempts | `NothingLost`, `NobodyLeftBehind`, `RetriesBounded`, `TasksRegistered`, `CallEnds` |
| `history_threads` | `NUM_HISTORY_TO_SUMMARIZE` 1, 7 additions, 1 reset, 2 threads | `SummarizersBounded`, `BatchStillThere`, `SwapLosesOnlyLateAdds`, `SummarizingEnds` |
| `history_reset` | the same with 5 additions | violation of `ResetForgets` |
| `transcript` | a window of 4, 5 entries, 1 and 2 images | `NewestShown`, `LatestImagesShown`, `SameText` |
| `pose_memory` | 2 users, 4 poses, graphs of 3 nodes, 1 saved state, 1 failure | `Bounded`, `ImagesMatch`, `FoundWhereSeen`, `EvictsRedundantFirst`, the refinement of `MemoryStore` |
| `connection` | 2 connections of one robot, a cache of 2 ticks, 1 message each | `RegistryListsLive`, `OpensRecentlyGranted`, `WarningsApart`, `StoppedBrainsTakeNothing`, `DroppedIsClosed` |

*Bounds.* Three tasks let one be replaced while the one before it still has
reports under way and the next is sent; the guards compare ids and look no further
back. Two chats are needed for one to lower the other's flag, and with the main
loop they make three writers of the tracked primitive. Two hops let a report on the
first be handled after the second was sent, and the limit be reached. One reset
is enough for everything that outlives it, and one image that raises for the state
it leaves: after it only a chat or a reset asks for another image. In `History`, 7 additions with a
summary of 2 or more let two batches be taken and a third start while additions
are lost; with R resets there can be R + 1 summarizers (which is what
`SummarizersBounded` says), so 2 threads are all there can be. `Agents` runs with the
code's own 10 attempts. In `Transcript`, one entry more than the window shows where
it begins, and one image kind has more images than are shown. In `PoseMemory`, poses on a line that see
four cells each, two apart, make a middle node redundant between its neighbours, and
a fourth pose finds a graph of 3 full; one user explores all of them and the other,
whose robot stays at one, is there to be disturbed. `Takes` bounds the pictures of a pose at a time, `MaxFaults` the
failures and crashes: one at any step, and operations after it on what it left. In `Connection`,
`MaxTime` stops the clock one tick after the cache's lifetime, a request may take a
tick of it, and a table of warnings that is full with one entry purges at each.

*Deadlock* is checked in `brain_chat_pair`, `brain_phantom`, `transcript`,
`pose_memory` and `connection`. The other
runs of `Brain` turn it off because the system can really stop: an image whose handling raised,
or a chat whose conversion did after the loop's image was skipped, leaves nothing outstanding, which is
what `LoopStallsOnlyByRaise` and the stage `"broken"` are precise about. In `History` the bounded additions
run out; in `Agents` the client may hang up.

*Symmetry* in ids, chats and threads is used in the runs that check no liveness property.

*Fairness.* `FairSpec` of `Brain`: the event loop runs what can run (`MainNext`,
each chat), the model calls return, and the robot answers a request with an image and
each task with an activation or a
refusal. Nothing makes a chat start, a reset come, or a running task end. Weak
fairness is enough: each of these steps stays enabled until it is taken. In
`History`, the interpreter runs the threads and the model call returns; additions,
resets and the start of a summarizer are not fair. In `Agents` a call's steps are fair, which
assumes that each request gets a reply or an error: no timeout of the code's own bounds it
(native_gemini_vision_agent.py:626 announces one that is not there). In `Connection` the steps of the
receive loop, of shutdown and of a task that is woken or cancelled are fair; that a handler
ends is *not* assumed, so that `DroppedIsClosed` says shutdown does not wait for it.

*What the violation runs show* is in `PROJECT.json`, "findings": a chat and an image each send a
task, and neither looks at whether the other's is acknowledged yet; a failure report on
another primitive ends the continuous navigation; a primitive tracked that was
never sent; a summary of forgotten entries after a reset.

Three more disagreements have no run of their own. The README's step 4 of the execution flow ("The server responds with
`ready_for_image` to continue the cycle", README.md:183) describes a request after
every terminal, while the code gives one only to a primitive that never activated,
which tests/test_primitive_liveness.py pins. An image whose handling raises ends the image loop, though
brain.py:269 says of `_process_image` "Handles both success and failure cases cleanly": that is the stage
`"broken"`. And a fast response that is not a text costs the answer of a vision agent that has
just ended, though fast_answer_agent.py:96 says "On any error, defers to the vision agent": that is
what `NothingLost` exempts.

## 5. What is proved

Every theorem holds for every value of the constants: any number of tasks, chats, hops,
resets, threads, additions, users, poses, connections, keys, attempts and failures, and a
history, a window and texts of any length.

| module | theorem | states |
|---|---|---|
| `BrainProofs` | `TypeCorrect` | `Spec => []TypeOK` of `Brain` |
| | `ConfirmedStarted` | `Spec => []ConfirmedMeansStarted` |
| | `LoopNeverStalls` | `Spec => LoopStallsOnlyByRaise`, an action property |
| `BrainPlainProofs` | `OneTaskAtATime` | `PlainSession /\ Spec => []OneUnacknowledgedTask` |
| | `LiveIsTracked` | `PlainSession /\ Spec => []LiveTaskTracked` |
| | `ImplementsLoop` | `PlainSession /\ Spec => Loop!Spec` |
| `AgentsProofs` | `NoAgentLeft`, `BoundedRetries` | the invariants `NobodyLeftBehind`, `RetriesBounded` |
| | `NoAnswerLost`, `RegisteredTasks` | the action properties `NothingLost`, `TasksRegistered` |
| `HistoryProofs` | `BoundedSummarizers` | `Spec => []SummarizersBounded` |
| | `BatchReplaced` | `Spec => []BatchStillThere` |
| | `OnlyLateAddsLost` | `Spec => SwapLosesOnlyLateAdds` |
| `TranscriptProofs` | `NothingNewLost`, `LatestImages`, `ReadersAgree` | the invariants `NewestShown`, `LatestImagesShown`, `SameText` |
| `PoseMemoryProofs` | `GraphsAreBounded`, `LocationsAreRight`, `RedundantFirst` | the invariants `Bounded`, `FoundWhereSeen`, `EvictsRedundantFirst` |
| `PoseStoreProofs` | `PicturesMatch` | `Spec => []ImagesMatch` |
| | `ImplementsTheStore` | `Spec => ImplementsStore`, that is `Store!Spec` |
| `ConnectionProofs` | `ListedLive` | `Spec => []RegistryListsLive` |
| | `StoppedBrains`, `RecentlyGranted`, `WarningsAreApart` | the action properties `StoppedBrainsTakeNothing`, `OpensRecentlyGranted`, `WarningsApart` |

Assumptions are the named ASSUMEs of the modules: values such as `NoTask`, `None` and
`NoImage` are not among the values they stand beside, the kinds are those of the code, counts and
bounds are naturals, positive where the code's are, `Threads` is finite, there is at
least one user and one name of a saved state, and what is `Absent` is no graph,
directory, saved state or map (`AbsentAssumption`). `ContentsAssumption` says what a history's
entries are. `TextsAssumption` is about what people and models say: no text is blank, and
none has the placeholder of an image in it. The code relies on both: a blank text that is the
first of its kind counts as repeated, and a line with `[Image data]` in it is skipped as an
image's wherever it comes from (history.py:235-241, :501-507). TLC
evaluates the assumptions in every run.

*ConfirmedMeansStarted is not inductive.* The activation being handled carries an id
and a snapshot of the tracked primitive, and writes the snapshot back after others
have run. `SafeInv` adds: activations in the queue are those of started tasks
(`ActivationsStarted`); while one is handled, a flag that is up belongs to the
primitive that will be written back (`HandledStarted`: any output in between
lowers the flag); the robot only knows remembered ids (`JobsKnown`, so a fresh id
has no jobs); and an active navigation has not sent the hops it has not counted
(`NavAhead`, which also bounds the count, so `TypeOK` needs it). The proof reduces the vision
answer, the hop and the chat's answer to one lemma about `Output`.

*LoopStallsOnlyByRaise* says of every step that it leaves something outstanding if something was, unless it
raises; so it also speaks of the states after a raise, where another chat may bring the loop back.
It needs two more facts (`LoopInv`): a raised `slow_agent_running` means some
chat's agents are running (`FlagMeansAgents`: lowering it too early, as two chats
do, is harmless here; leaving it up would not be), and an activation being handled has its
image on the way (`ActivationAsked`), because writing the snapshot back may
replace a tracked primitive that was the only thing awaited.

*The plain session* has no chats, no resets and no continuous navigation
(`PlainSession`, a condition on the constants); with a chat both invariants fail, as `brain_chat_pair`
shows for one. `PlainInv` says that one thing at a time keeps the loop turning
(`OneTurn`): a request, a message whose handling asks for an image or starts the model
(`Turning`: an image, an activation, the refusal of a task), the model, or a task without an answer; after a raise, none of them. That a resting loop is alive
exactly if there is something of the kind to wait for (`StageIsPlain`) makes `LoopStage` a matter of these. That a terminal
re-arms the loop only for a refused task is the hard part: `ConfirmedInTime` says a
tracked task that was started has its activation handled, or in the queue before
any terminal of its own, and `Reports` and `Unconfirmed` relate what is in the queue to what
the robot did. Each action's lemma gives the next `PlainInv` and, in the same breath, the step of
`ImageLoop` that it is, so the refinement follows from the invariant.

*Agents*: the order of events (`Order`) is the invariant: what the runner has seen
bounds where the two agents can be. `Handed` is what `NothingLost` needs of the two ways a finished
vision output is dropped: behind a fast agent that raised before its request, the vision agent can only have
failed before its own, so that a notice of failure is all that is passed over; behind a response
that is not a text it may have answered, which the property exempts by name.

*History*: `OneAtATime` (no reset yet: at most one summarizer, and the flag up)
makes the batch stable, since only a swap removes from the front; the bound on
summarizers follows by counting: a start raises the flag, a reset lowers it and adds one to the bound,
and a finally clause ends one thread for the flag it lowers. For what a swap loses,
`Distinct` (no addition is in two entries) and `RestStillThere` (what the slice read still
stands behind the batch) split the history into batch, rest and late additions.

*Transcript*: there is little to say of a state but that its entries are of the kinds that are
added (`EntriesTyped`); the work is in the passes over them. Each is a recursive function or a
concatenation, and has lemmas that say what it does to a sequence with one element more
(`FlattenAppend`, `AtAppend`, `DeduplicateSteps`, `AllItemsImage`, `AllItemsLine`, `MergeAppend`), proved
from the definitions; what a pass yields is then proved by induction on the length, which
`SeqInduction` and `InductionTo` give for sets, from the well-foundedness of `<`. What makes the
inductions go through: deduplication keeps in `last` the text both of the last line kept and
of the last one recorded (`NewestKept`); the block and the list read together are the items so far
(`MergedTexts`); images are never left out, having no deduplicated type (`OthersKept`), so the
images in the list are the selected ones in order (`ImagesMerged`, `SelectedLines`); and the place of
an index from the end counts the later ones of its type (`Counted`), so the slice `[-n:]` has those
that fewer than n come after.

*PoseMemory*: `StoresOK` types the stores by graphs that are within the bound and whose
pictures are their own; `JobOK` says for each point of each operation what it still finds,
above all that a node is appended only where there is room. `Chosen` adds that the node
to be removed is one that may be.

*The stores as a whole* (`PoseStoreProofs`). `MatchInv` is for `ImagesMatch`: while nothing has
failed, a graph in memory is whole (each node has a picture that no other has, and those are what is kept), each user's
directory and file are those of the user's graph (`Kept`), each saved state is as consistent
(`KeptState`), and for the user and the state an operation works on, `JobMatch` says at each of
its steps what is already changed and what is not.

The refinement needs an invariant of another kind, because a failure may strike anywhere:
`Track` compares memory and disk with `job.was`, what could be told when the operation began. Users
other than the acting one are as they were (`OthersTrack`); `TrackAdd`, `TrackReset`,
`TrackSave` and `TrackLoad` say, for each step of each operation, which of the store's
outcomes are still open: that a graph file is `Torn` only while it is being written, say, or that a load
that has emptied the graph still finds the state it is loading. From these follow two things. Wherever
an operation breaks off, what it leaves is `Loose`, within what the store's `Damage` allows for
the acting user and one state; and one that ends without a fault leaves exactly what `Remember`, `Forget`, `Shelve` or
`Unshelve` says. Every step before the end is a stutter of the store, since `Told` does
not change. A reset that falls back on emptying the graph after a failed load is the case
that makes `TrackReset` look at a state's name. Each action has one lemma that gives the next `Track` and the
step of `MemoryStore` together, and the theorem is of any number of users, states, places and failures,
where the run has two users, one state and one failure.

*Connection*: `AuthInv` (`Trust`: a cached key was granted less than its lifetime before
it expires; `Heard`: who was spoken to within the interval is still in the table) and
`ConnInv`, among it `Woken` (a woken loop has a message), `Stopped` (a connection
past its shutdown has a cancelled loop) and `Listed`.

Only model-checked: liveness (`LoopProgress`, `SummarizingEnds`, `DroppedIsClosed`,
`CallEnds` and the fairness part of `ImageLoop`), which is out of the prover's reach. Every other
property of a passing run is a theorem; those of the plain session have `PlainSession` as a
hypothesis. It cannot be weakened much: without chats a reset is enough for two unacknowledged
tasks, and so are two hops of a continuous navigation (as TLC shows when `brain_plain` is given one or
the other).

## 6. What is not modelled

*Arithmetic on images and maps*: projection, safety radii, angles and occupancy
(navigation_handler.py, `visualization_utils.py`, the primitives' geometry), image decoding and
drawing. It is floating-point; in `Brain` each outcome that the handlers have for it, and the raises that
§3 names, may happen at any time. An error anywhere else, in a message without the fields that its handler reads
or in what only draws or logs, is not modelled; and `PoseMemory` takes nearness and visible cells as constants.

*What nothing reads*: metrics and logging, the HTML pages of the debug panel, `save` of the
history and the history file of a memory state, which loading promises (memory_state_manager.py:160,
brain.py:609) but never reads (a TODO at :240); `get_brief_summary`, whose caller is
unreachable; `check_distance_and_orientation.py`.

*Wording*: prompts, the layout of lines, what a handler only adds to the history
(feedback, the directive, which also resets it, and the variant command).

*The model service*: its answers are any the schema allows, its errors any the code
tells apart. An image that does not decode is an error of the vision agent's call
and raises in the fast agent's.

*How long a model call takes.* A request without an answer is excluded by fairness, and the calls that
are made synchronously (navigate_through_memory.py:540, nav_insight_continuous.py) block the
whole event loop while they last: what is said of `Connection` holds once such a call returns.

Some behaviour the modules contain but no property speaks of, because the code
promises nothing about it: a chat whose conversion raises after the loop's image was skipped ends the loop; an
activation that is written back after a chat has sent its task makes the brain forget that task; the answer to a chat may name a
primitive that was unregistered meanwhile; a node whose recency weight has vanished is evicted whatever it alone can see; a chat without a picture whose fast agent defers gets no answer; when the
fast agent answers, the vision output of that chat is dropped with its task;
loading a state saved before there was a graph file says it was loaded and changes nothing;
chat tasks outlive their connection; when the older of two connections of a
robot closes, the newer brain is no longer listed; a recorded task is never shown, because the
renderer and the summarizer read `next_primitive` and the record has `next_task`.

PROJECT.json lists every part with its state, and every hazard with the properties
that cover it or why none does.
