------------------------------- MODULE Brain -------------------------------
(***************************************************************************)
(* The brain of one connection (src/brain.py with its image, chat,         *)
(* primitive and navigation handlers).                                     *)
(*                                                                         *)
(* One event loop runs two kinds of coroutine: the main loop, which takes  *)
(* one message at a time from message_queue, and one task per chat_in,     *)
(* created as the message arrives and never waited for.  A step below is   *)
(* what a coroutine does between two suspension points that matter: the    *)
(* model calls and the websocket sends after which state is written.  What *)
(* a coroutine read before it was suspended it keeps as a snapshot.        *)
(*                                                                         *)
(* Messages that touch nothing kept here (pose_image, feedback,            *)
(* registration) are left out; history and pose graph are not here either. *)
(***************************************************************************)
EXTENDS Robot

CONSTANTS
  Chats,           \* the chat_in messages of the session
  Kinds            \* the kinds of primitive the vision model picks from

ASSUME KindsAssumption ==
  Kinds \subseteq {"remote", "turn", "in_sight", "memory", "continuous", "check"}

VARIABLES
  main,                       \* the main loop: where it is and what it holds
  chat,                       \* each chat task: where it is and what it holds
  primitive_in_execution,
  primitive_activation_seen,
  slow_agent_running,
  primitive_ids_map,          \* the ids of the primitives remembered so far
  nav                         \* the NavInsightContinuous instance

stateVars == <<primitive_in_execution, primitive_activation_seen>>
vars == <<robotVars, main, chat, stateVars, slow_agent_running,
          primitive_ids_map, nav>>

\* "vlm": suspended in the vision model call of an image; "activated" and
\* "terminal": suspended in the ready_for_image those handlers send.
MainState ==
  [at : {"idle", "vlm", "activated", "terminal"}, held : TaskOrNone, id : TaskOrNone]
Idle == [at |-> "idle", held |-> NoTask, id |-> NoTask]

ChatState == [at : {"new", "agents", "done", "raised"}, held : TaskOrNone]

NavState == [active : BOOLEAN, id : TaskOrNone, count : 0 .. MaxIterations + 1]

TypeOK ==
  /\ RobotTypeOK
  /\ main \in MainState
  /\ chat \in [Chats -> ChatState]
  /\ primitive_in_execution \in TaskOrNone
  /\ primitive_activation_seen \in BOOLEAN
  /\ slow_agent_running \in BOOLEAN
  /\ primitive_ids_map \subseteq Tasks
  /\ nav \in NavState

Init ==
  /\ RobotInit
  /\ main = Idle
  /\ chat = [c \in Chats |-> [at |-> "new", held |-> NoTask]]
  /\ primitive_in_execution = NoTask
  /\ primitive_activation_seen = FALSE
  /\ slow_agent_running = FALSE
  /\ primitive_ids_map = {}
  /\ nav = [active |-> FALSE, id |-> NoTask, count |-> 0]

----------------------------------------------------------------------------
(* The answer of the vision model *)

\* deactivate() leaves the iteration count alone.
Deactivated == [nav EXCEPT !.active = FALSE, !.id = NoTask]

\* A fresh uuid4.
FreshTasks == Tasks \ (primitive_ids_map \cup {nav.id})

\* Mutation: the discrepancy check of validate_vision_output is missing.
AllowsTaskAlways(stop, held) == TRUE

\* A next_task is dropped when a task ran as the agent was called and the
\* answer does not stop it.  held is what was tracked at the call.
AllowsTask(stop, held) == stop \/ held = NoTask

(* How a next_task leaves the navigation conversion.  jobs: what goes to the *)
(* robot, nothing or one job; kept: the id remembered as the primitive in    *)
(* execution; stop: the answer's stop_current_task by then; nav: the state   *)
(* of the continuous navigation.                                             *)
Outcome(stop, sent, kept, newNav) ==
  [stop |-> stop, sent |-> sent, kept |-> kept, nav |-> newNav]

Converted(stop, t) == Outcome(stop, {<<t, 0>>}, t, nav)

\* Unsafe or unreachable, or no such primitive: the copy kept for the history is
\* replaced as well.
Canceled(stop) == Outcome(stop, {}, NoTask, nav)

\* The answer has no task any more, but has_canceled is FALSE and the copy kept
\* for the history still has one.
Phantom(stop, t) == Outcome(stop, {}, t, nav)

\* Reachable; failed; unsafe or close enough already.
InSightOutcomes(stop, t) == {Converted(stop, t), Canceled(TRUE), Phantom(TRUE, t)}

\* The continuous navigation of t after n iterations.
Walking(t, n) == [active |-> TRUE, id |-> t, count |-> n]

\* execute() activates the primitive before anything else; without a map it
\* waits for the next image, with one it takes the first step at once.
ContinuousOutcomes(stop, t) ==
  LET ended == [active |-> FALSE, id |-> NoTask, count |-> 1]
  IN  {Outcome(stop, {<<t, 1>>}, t, Walking(t, 1)),   \* the first move
       Outcome(TRUE, {}, NoTask, Walking(t, 1)),      \* the first move is unsafe
       Outcome(TRUE, {}, t, Walking(t, 0)),           \* no map yet
       Outcome(TRUE, {}, t, ended)}                   \* nothing to walk to

\* check_distance_and_orientation is in no list of local primitives: a robot may
\* offer a primitive of that name, and its conversion never finds the local one.
Conversions(kind, stop, t) ==
  CASE kind \in {"remote", "turn"} -> {Converted(stop, t)}
    [] kind = "in_sight"           -> InSightOutcomes(stop, t)
    [] kind = "memory"             -> {Converted(stop, t), Canceled(TRUE)}
    [] kind = "continuous"         -> ContinuousOutcomes(stop, t)
    [] kind = "check"              -> {Canceled(stop)}

\* Mutation: a new task keeps the activation flag of the one before it.
RememberKeepsFlag(kept) ==
  IF kept = NoTask
  THEN UNCHANGED <<stateVars, primitive_ids_map>>
  ELSE /\ primitive_in_execution' = kept
       /\ primitive_ids_map' = primitive_ids_map \cup {kept}
       /\ UNCHANGED primitive_activation_seen

\* The part of _send_vision_output that tracks the task.
Remember(kept) ==
  IF kept = NoTask
  THEN UNCHANGED <<stateVars, primitive_ids_map>>
  ELSE /\ primitive_in_execution' = kept
       /\ primitive_activation_seen' = FALSE
       /\ primitive_ids_map' = primitive_ids_map \cup {kept}

\* Mutation: the next image is asked for whatever the answer is.
SendVisionOutputAndGrant(stop, sent, kept) ==
  /\ Remember(kept)
  /\ jobs' = AfterOutput(stop, sent)
  /\ grants' = grants + 1

\* The next image is asked for only with an answer that carries no task.
SendVisionOutput(stop, sent, kept) ==
  /\ Remember(kept)
  /\ jobs' = AfterOutput(stop, sent)
  /\ grants' = IF sent = {} THEN grants + 1 ELSE grants

\* The two ways a model call ends that started with `held` tracked.  A next_task
\* that is dropped leaves an answer without one.
AnswerWithoutTask ==
  /\ \E stop \in BOOLEAN : SendVisionOutput(stop, {}, NoTask)
  /\ UNCHANGED nav

AnswerWithTask(held) ==
  \E stop \in BOOLEAN, t \in FreshTasks, kind \in Kinds :
    /\ AllowsTask(stop, held)
    /\ \E o \in Conversions(kind, stop, t) :
         /\ SendVisionOutput(o.stop, o.sent, o.kept)
         /\ nav' = o.nav

\* The conversion of a next_task raises: it reads the field of view, the pose or
\* the map of the message, and one of them is missing or cannot be used.  Nothing
\* is sent or remembered; a continuous navigation may be active already.
ConversionRaises ==
  \/ Kinds \cap {"in_sight", "continuous"} # {} /\ UNCHANGED nav
  \/ "continuous" \in Kinds /\ \E t \in FreshTasks : nav' = Walking(t, 1)

----------------------------------------------------------------------------
(* The main loop: images *)

\* run and process_message: the head of the queue, once the loop is free.
Takes(type) ==
  /\ main.at = "idle"
  /\ message_queue # << >>
  /\ Head(message_queue).type = type
  /\ message_queue' = Tail(message_queue)

SkipImage ==
  /\ Takes("image")
  /\ slow_agent_running
  /\ UNCHANGED <<grants, jobs, faults, main, chat, stateVars,
                 slow_agent_running, primitive_ids_map, nav>>

\* An error and the next request; continuous navigation falls through to it.
RejectImage ==
  /\ Takes("image")
  /\ ~slow_agent_running
  /\ faults.bad < MaxBadImages
  /\ faults' = [faults EXCEPT !.bad = @ + 1]
  /\ grants' = grants + 1
  /\ UNCHANGED <<jobs, main, chat, stateVars, slow_agent_running,
                 primitive_ids_map, nav>>

\* The handling of an image raises, and process_message only logs that.
ImageRaises ==
  /\ faults.raised < MaxRaises
  /\ faults' = [faults EXCEPT !.raised = @ + 1]
  /\ UNCHANGED <<grants, jobs, chat, stateVars, slow_agent_running, primitive_ids_map>>

\* A depth payload that cannot be decoded, or a malformed second camera.
RaiseImage ==
  /\ Takes("image")
  /\ ~slow_agent_running
  /\ ImageRaises
  /\ UNCHANGED <<main, nav>>

StartVision ==
  /\ Takes("image")
  /\ ~slow_agent_running
  /\ ~nav.active
  /\ main' = [at |-> "vlm", held |-> primitive_in_execution, id |-> NoTask]
  /\ UNCHANGED <<grants, jobs, faults, chat, stateVars, slow_agent_running,
                 primitive_ids_map, nav>>

FinishVision ==
  /\ main.at = "vlm"
  /\ AnswerWithoutTask \/ AnswerWithTask(main.held)
  /\ main' = Idle
  /\ UNCHANGED <<message_queue, faults, chat, slow_agent_running>>

RaiseVision ==
  /\ main.at = "vlm"
  /\ ConversionRaises
  /\ ImageRaises
  /\ main' = Idle
  /\ UNCHANGED message_queue

\* Mutation: no limit on the iterations of a continuous navigation.
HopUnlimited ==
  /\ Takes("image")
  /\ ~slow_agent_running
  /\ nav.active
  /\ nav' = [nav EXCEPT !.count = @ + 1]
  /\ SendVisionOutput(FALSE, {<<nav.id, nav.count + 1>>}, nav.id)
  /\ UNCHANGED <<faults, main, chat, slow_agent_running>>

\* An image of a continuous navigation never reaches the vision model: it is
\* another hop under the same id...
Hop ==
  /\ Takes("image")
  /\ ~slow_agent_running
  /\ nav.active
  /\ nav.count < MaxIterations
  /\ nav' = [nav EXCEPT !.count = @ + 1]
  /\ SendVisionOutput(FALSE, {<<nav.id, nav.count + 1>>}, nav.id)
  /\ UNCHANGED <<faults, main, chat, slow_agent_running>>

\* The hop is counted before its map is used; out of iterations nothing raises.
RaiseHop ==
  /\ Takes("image")
  /\ ~slow_agent_running
  /\ nav.active
  /\ nav.count < MaxIterations
  /\ nav' = [nav EXCEPT !.count = @ + 1]
  /\ ImageRaises
  /\ UNCHANGED main

\* Mutation: the end of a continuous navigation asks for no image.
EndHopsSilently ==
  /\ Takes("image")
  /\ ~slow_agent_running
  /\ nav.active
  /\ nav' = [Deactivated EXCEPT !.count = nav.count + 1]
  /\ primitive_in_execution' = NoTask
  /\ UNCHANGED <<grants, jobs, faults, main, chat, primitive_activation_seen,
                 slow_agent_running, primitive_ids_map>>

\* ...or the end of it: arrived, blocked, no map, or out of iterations.
EndHops ==
  /\ Takes("image")
  /\ ~slow_agent_running
  /\ nav.active
  /\ nav' = [Deactivated EXCEPT !.count = nav.count + 1]
  /\ primitive_in_execution' = NoTask
  /\ grants' = grants + 1
  /\ UNCHANGED <<jobs, faults, main, chat, primitive_activation_seen,
                 slow_agent_running, primitive_ids_map>>

----------------------------------------------------------------------------
(* The main loop: reports from the robot *)

\* Mutation: terminals never re-arm the image loop.
RearmsNever == FALSE

\* A terminal re-arms the image loop if the activation never did.
Rearms == ~primitive_activation_seen

\* A terminal resolves the tracked primitive, and no other.
Resolves(tracked, id) == tracked # NoTask /\ tracked = id

\* completed, failed, interrupted: only the tracked primitive is resolved, but a
\* failure or an interruption of any primitive ends a continuous navigation.
\* It does so after the ready_for_image of _finish_terminal_lifecycle, if any.
HandleTerminal(type) ==
  LET m == Head(message_queue)
      cleared == Resolves(primitive_in_execution, m.id)
      suspends == cleared /\ Rearms /\ type # "completed"
  IN  /\ Takes(type)
      /\ primitive_in_execution' = IF cleared THEN NoTask ELSE primitive_in_execution
      /\ primitive_activation_seen' = (primitive_activation_seen /\ ~cleared)
      /\ grants' = IF cleared /\ Rearms THEN grants + 1 ELSE grants
      /\ main' = IF suspends THEN [Idle EXCEPT !.at = "terminal"] ELSE main
      /\ nav' = IF type = "completed" \/ suspends THEN nav ELSE Deactivated
      /\ UNCHANGED <<jobs, faults, chat, slow_agent_running, primitive_ids_map>>

FinishTerminal ==
  /\ main.at = "terminal"
  /\ nav' = Deactivated
  /\ main' = Idle
  /\ UNCHANGED <<robotVars, chat, stateVars, slow_agent_running, primitive_ids_map>>

\* Every activation asks for an image; the tracked primitive is read before that
\* request is sent and written back after it.
HandleActivated ==
  /\ Takes("activated")
  /\ main' = [at |-> "activated", held |-> primitive_in_execution,
              id |-> Head(message_queue).id]
  /\ grants' = grants + 1
  /\ UNCHANGED <<jobs, faults, chat, stateVars, slow_agent_running,
                 primitive_ids_map, nav>>

\* Mutation: any activation confirms the tracked primitive.
ConfirmsAny(tracked, id) == tracked # NoTask

Confirms(tracked, id) == tracked # NoTask /\ tracked = id

FinishActivated ==
  /\ main.at = "activated"
  /\ primitive_in_execution' = main.held
  /\ primitive_activation_seen' =
       (Confirms(main.held, main.id) \/ primitive_activation_seen)
  /\ main' = Idle
  /\ UNCHANGED <<robotVars, chat, slow_agent_running, primitive_ids_map, nav>>

\* The continuous navigation, the ids and the running chats survive a reset.
HandleReset ==
  /\ Takes("reset")
  /\ primitive_in_execution' = NoTask
  /\ primitive_activation_seen' = FALSE
  /\ slow_agent_running' = FALSE
  /\ grants' = grants + 1
  /\ UNCHANGED <<jobs, faults, main, chat, primitive_ids_map, nav>>

----------------------------------------------------------------------------
(* The chat tasks *)

StartChat(c) ==
  /\ chat[c].at = "new"
  /\ chat' = [chat EXCEPT ![c].at = "agents", ![c].held = primitive_in_execution]
  /\ slow_agent_running' = TRUE
  /\ UNCHANGED <<robotVars, main, stateVars, primitive_ids_map, nav>>

\* Mutation: the finally clause that lowers slow_agent_running is missing.
AgentsDoneFlagUp(c, at) ==
  /\ chat[c].at = "agents"
  /\ chat' = [chat EXCEPT ![c] = [at |-> at, held |-> NoTask]]
  /\ UNCHANGED <<slow_agent_running, message_queue, faults, main>>

\* The agents are back: the flag goes down, whoever else still runs.
AgentsDone(c, at) ==
  /\ chat[c].at = "agents"
  /\ chat' = [chat EXCEPT ![c] = [at |-> at, held |-> NoTask]]
  /\ slow_agent_running' = FALSE
  /\ UNCHANGED <<message_queue, faults, main>>

\* A command, the fast agent's answer, or no image to show the vision model.
ChatAnswered(c) ==
  /\ AgentsDone(c, "done")
  /\ grants' = grants + 1
  /\ UNCHANGED <<jobs, stateVars, primitive_ids_map, nav>>

ChatSeen(c) ==
  /\ AgentsDone(c, "done")
  /\ AnswerWithoutTask \/ AnswerWithTask(chat[c].held)

\* A chat_in need not carry the camera_info the conversion reads, and
\* _process_chat_immediately only logs what it raises.
ChatRaises(c) ==
  /\ AgentsDone(c, "raised")
  /\ ConversionRaises
  /\ UNCHANGED <<grants, jobs, stateVars, primitive_ids_map>>

----------------------------------------------------------------------------

MainNext ==
  \/ SkipImage \/ RejectImage \/ StartVision \/ FinishVision
  \/ Hop \/ EndHops
  \/ RaiseImage \/ RaiseVision \/ RaiseHop
  \/ \E type \in Terminals : HandleTerminal(type)
  \/ FinishTerminal \/ HandleActivated \/ FinishActivated \/ HandleReset

ChatEnds(c) == ChatAnswered(c) \/ ChatSeen(c) \/ ChatRaises(c)

ChatNext(c) == StartChat(c) \/ ChatEnds(c)

RobotStep ==
  /\ RobotNext
  /\ UNCHANGED <<main, chat, stateVars, slow_agent_running, primitive_ids_map, nav>>

Next == RobotStep \/ MainNext \/ \E c \in Chats : ChatNext(c)

Spec == Init /\ [][Next]_vars

\* The event loop runs whatever can run, the models answer in the end, and the
\* robot answers requests and takes a stand on the tasks it is sent.  Chats,
\* resets and the end of a task are up to the user and the world.
FairSpec ==
  /\ Spec
  /\ WF_vars(MainNext)
  /\ \A c \in Chats : WF_vars(ChatEnds(c))
  /\ WF_vars(RobotStep /\ SendImage)
  /\ \A j \in Job : WF_vars(RobotStep /\ (StartJob(j) \/ RefuseJob(j)))

----------------------------------------------------------------------------
(* Properties *)

InQueue(types) == {i \in DOMAIN message_queue : message_queue[i].type \in types}

\* The tracked primitive's activation or never-started terminal is still to be
\* handled, and will re-arm the image loop.
Awaited ==
  /\ primitive_in_execution # NoTask
  /\ ~primitive_activation_seen
  /\ \/ \E h \in 0 .. MaxIterations : jobs[<<primitive_in_execution, h>>] = "sent"
     \/ \E i \in InQueue(Terminals) : message_queue[i].id = primitive_in_execution

\* Something outstanding will lead to another image: a request, an image or a
\* reset or an activation on its way, an agent at work, or the tracked task.
ImageLoopAlive ==
  \/ grants > 0
  \/ InQueue({"image", "reset", "activated"}) # {}
  \/ main.at = "vlm"
  \/ \E c \in Chats : chat[c].at = "agents"
  \/ Awaited

\* The handling of an image, or of a chat's answer, raises.
Raises ==
  RaiseImage \/ RaiseVision \/ RaiseHop \/ \E c \in Chats : ChatRaises(c)

\* No step but one that raises takes the last thing outstanding away.
KeepsAlive == ImageLoopAlive => ImageLoopAlive' \/ Raises
LoopStallsOnlyByRaise == [][KeepsAlive]_vars

Started(t) ==
  \E h \in 0 .. MaxIterations : jobs[<<t, h>>] \in {"running", "stopping", "done"}

\* A primitive that counts as confirmed was really started by the robot.
ConfirmedMeansStarted ==
  primitive_activation_seen /\ primitive_in_execution # NoTask =>
    Started(primitive_in_execution)

\* A primitive the brain counts as in execution is one the robot was sent.
TrackedTaskWasSent ==
  primitive_in_execution # NoTask =>
    \E h \in 0 .. MaxIterations : jobs[<<primitive_in_execution, h>>] # "none"

\* Every task the robot still has to do, or is doing unless told to stop, is the
\* one the brain tracks.
LiveTaskTracked == \A j \in Job : Live(j) => j[1] = primitive_in_execution

\* No task is sent while another has been neither started nor refused.
OneUnacknowledgedTask ==
  \A i, j \in Job : jobs[i] = "sent" /\ jobs[j] = "sent" => i = j

\* A report on a primitive that is not the tracked one changes nothing.
StaleTerminalTouchesNothing ==
  [][\A type \in Terminals :
       HandleTerminal(type) /\ Head(message_queue).id # primitive_in_execution
         => UNCHANGED <<stateVars, nav, grants>>]_vars

\* Images keep being looked at, unless something raised.
LoopProgress ==
  \/ []<>(main.at = "vlm")
  \/ <>(faults.raised > 0)
  \/ <>(\E c \in Chats : chat[c].at = "raised")

\* The stage of the image loop of ImageLoop.
LoopStage ==
  IF grants > 0 THEN "granted"
  ELSE IF InQueue({"image"}) # {} THEN "queued"
  ELSE IF main.at = "vlm" THEN "thinking"
  ELSE IF ImageLoopAlive THEN "awaiting"
  ELSE "broken"

Loop == INSTANCE ImageLoop WITH loop <- LoopStage
ImplementsImageLoop == Loop!FairSpec
============================================================================
