------------------------------- MODULE Agents -------------------------------
(***************************************************************************)
(* One call of the agents: for an image the vision agent alone, for a      *)
(* chat_in the fast agent and, if a picture came with it, the vision agent *)
(* beside it (brain_utils/parallel_agents.py, chat_handler.py,             *)
(* image_handler.py), down to the retries of the request to Gemini         *)
(* (agents/native_gemini_vision_agent.py) and the answers that stand in    *)
(* for its failures (brain_utils/vision_service.py).                       *)
(*                                                                         *)
(* What module Brain takes as one step, "the model answers", is this.      *)
(* An action is the code of one task from one await to the next.           *)
(***************************************************************************)
EXTENDS Integers, FiniteSets

CONSTANTS
  Skills,      \* names of primitives a client may register
  Locals,      \* the brain's own primitives: each ends in a Navigate task
  Navigate,    \* navigate_to_position
  MaxRetries,  \* max_retries: 10
  NoTask       \* next_task = None

ASSUME AgentsAssumption ==
  /\ Navigate \in Skills
  /\ Locals \cap Skills = {}
  /\ NoTask \notin Skills \cup Locals
  /\ MaxRetries \in Nat \ {0}

VARIABLES
  registered,  \* the names in state.primitives_list
  client,      \* the client is still connected
  kind,        \* what the call is for: an "image" or a "chat"
  offered,     \* primitives_list as it was passed to the model
  runner,      \* run_agents_in_parallel, or process_image_message
  fast,        \* fast_task, and what fast_answer decided
  slow,        \* slow_task, and which attempt it is at
  output,      \* the vision output of slow_task
  told,        \* the fast agent's answer was sent
  result       \* the vision output that the call hands to the brain

callVars == <<runner, fast, slow, output, told, result>>
vars == <<registered, client, kind, offered, callVars>>

\* A response that is not a text is "unusable": nothing checks its type before
\* it is sliced for the log.
Decisions == {"answer", "silent", "defer", "unusable"}

\* Gemini answered; it failed MaxRetries times, or with an error nobody
\* expects; or the call failed before a request was made.  Each but the first
\* is turned into an output that stops the current task and has no next one.
Ends == {"answer", "retries", "unforeseen", "failed"}

Output == [end : Ends, next : Skills \cup Locals \cup {NoTask}]
None   == [end |-> "none", next |-> NoTask]
Fallback(end) == [end |-> end, next |-> NoTask]

TypeOK ==
  /\ registered \subseteq Skills
  /\ client \in BOOLEAN
  /\ kind \in {"image", "chat"}
  /\ offered \subseteq Skills \cup Locals
  /\ runner \in {"idle", "fast", "sending", "slow", "done"}
  /\ fast \in {"none", "starting", "asking", "raised"} \cup Decisions
  /\ slow \in [at : {"none", "starting", "asking", "napping", "done"}, attempt : 0..MaxRetries]
  /\ output \in Output \cup {None}
  /\ told \in BOOLEAN
  /\ result \in Output \cup {None}

Init == /\ registered = {}
        /\ client = TRUE
        /\ kind = "image" /\ offered = {}
        /\ runner = "idle" /\ fast = "none"
        /\ slow = [at |-> "none", attempt |-> 0]
        /\ output = None /\ told = FALSE /\ result = None

-----------------------------------------------------------------------------
\* The errors of a request: typed ones (TimeoutError, ValueError and its
\* JSONDecodeError), and others, told apart by the words in their text.
Words  == {"timeout", "ssl", "503", "429", "500", "quota"}
Errors == [typed : BOOLEAN, words : SUBSET Words]

Retried(e) == e.typed \/ e.words # {}

\* A plausible bug: the attempts are counted from 0 when they are compared.
GivesUpLate(attempt) == attempt > MaxRetries
GivesUp(attempt) == attempt = MaxRetries

\* A plausible bug: the recursive call forgets attempt + 1, whose default is 1.
NextAttemptForgotten(attempt) == 1
NextAttempt(attempt) == attempt + 1

\* A plausible bug: the brain's own primitives are always offered.
OfferedAlways(names) == names \cup Locals

\* The primitives that the model may choose from.
Offered(names) == IF Navigate \in names THEN names \cup Locals ELSE names

-----------------------------------------------------------------------------
(* The client and the brain *)

\* register_primitives_and_directive replaces the list.  It waits its turn
\* behind an image, but not behind a chat.
Register(names) ==
  /\ kind = "image" => runner \in {"idle", "done"}
  /\ registered' = names \ Locals
  /\ UNCHANGED <<client, kind, offered, callVars>>

HangUp == /\ client
          /\ client' = FALSE
          /\ UNCHANGED <<registered, kind, offered, callVars>>

\* A call starts.  Without a picture a chat has no vision agent.
Ask(k, picture) ==
  /\ client /\ runner \in {"idle", "done"}
  /\ k = "image" => picture
  /\ kind' = k
  /\ offered' = Offered(registered)
  /\ runner' = IF k = "image" THEN "slow" ELSE "fast"
  /\ fast' = IF k = "image" THEN "none" ELSE "starting"
  /\ slow' = [at |-> IF picture THEN "starting" ELSE "none", attempt |-> 0]
  /\ output' = None /\ told' = FALSE /\ result' = None
  /\ UNCHANGED <<registered, client>>

-----------------------------------------------------------------------------
(* The fast agent *)

\* fast_answer up to the request: only a picture that does not decode raises,
\* before the try block.
FastPrepares ==
  /\ fast = "starting"
  /\ fast' \in {"asking"} \cup (IF slow.at = "none" THEN {} ELSE {"raised"})
  /\ UNCHANGED <<registered, client, kind, offered, runner, slow, output, told, result>>

\* Any error of the request, or of reading its reply, defers.  The reply comes
\* from another thread, and finds slow_task begun.
FastEnds(decision) ==
  /\ fast = "asking" /\ slow.at # "starting"
  /\ fast' = decision
  /\ UNCHANGED <<registered, client, kind, offered, runner, slow, output, told, result>>

-----------------------------------------------------------------------------
(* The vision agent *)

\* fast_task was created first, so it runs first.  slow_task then runs up to
\* its request, or fails before it.
SlowPrepares ==
  /\ slow.at = "starting" /\ fast # "starting"
  /\ \/ slow' = [at |-> "asking", attempt |-> 1] /\ UNCHANGED output
     \/ slow' = [slow EXCEPT !.at = "done"] /\ output' = Fallback("failed")
  /\ UNCHANGED <<registered, client, kind, offered, runner, fast, told, result>>

\* A reply comes from another thread.  The runner, woken by the end of a
\* fast_task that raised at once, is ahead of it.
Replies == slow.at = "asking" /\ ~(fast = "raised" /\ runner = "fast")

EndSlow(out) == slow' = [slow EXCEPT !.at = "done"] /\ output' = out

\* The schema of the reply names the primitives that were offered.
SlowAnswers(next) ==
  /\ Replies
  /\ next \in offered \cup {NoTask}
  /\ EndSlow([end |-> "answer", next |-> next])
  /\ UNCHANGED <<registered, client, kind, offered, runner, fast, told, result>>

\* The request fails, or its reply does not parse.
SlowFails(e) ==
  /\ Replies
  /\ \/ /\ Retried(e) /\ ~GivesUp(slow.attempt)
        /\ slow' = [slow EXCEPT !.at = "napping"]
        /\ UNCHANGED output
     \/ Retried(e) /\ GivesUp(slow.attempt) /\ EndSlow(Fallback("retries"))
     \/ ~Retried(e) /\ EndSlow(Fallback("unforeseen"))
  /\ UNCHANGED <<registered, client, kind, offered, runner, fast, told, result>>

\* recall(), after a sleep of 1 to 3 seconds.
Recall ==
  /\ slow.at = "napping"
  /\ slow' = [at |-> "asking", attempt |-> NextAttempt(slow.attempt)]
  /\ UNCHANGED <<registered, client, kind, offered, runner, fast, output, told, result>>

-----------------------------------------------------------------------------
(* Between the two *)

\* The call is over; what the vision agent says is left out after the fast
\* agent's answer.
Return(out) ==
  /\ runner' = "done"
  /\ result' = IF told' THEN None ELSE out

AwaitSlow == runner' = "slow" /\ UNCHANGED result

\* A plausible bug: the except clause only logs.
RecoverLogging == Return(None)

\* The except clause: the vision agent is awaited only if it is not done.
Recover == IF slow.at \in {"none", "done"} THEN Return(None) ELSE AwaitSlow

\* The try block goes on, behind the fast agent.
Continue == IF slow.at = "none" THEN Return(None) ELSE AwaitSlow

\* The runner is woken behind slow_task's first step.  An unusable response
\* raises here, with the client told nothing.
FastDone ==
  /\ runner = "fast" /\ slow.at # "starting"
  /\ UNCHANGED told
  /\ \/ fast = "answer" /\ runner' = "sending" /\ UNCHANGED result
     \/ fast \in {"silent", "defer"} /\ Continue
     \/ fast \in {"raised", "unusable"} /\ Recover
  /\ UNCHANGED <<registered, client, kind, offered, fast, slow, output>>

\* A chat_out over a closed connection raises.
SendChatOut ==
  /\ runner = "sending"
  /\ \/ client /\ told' = TRUE /\ Continue
     \/ ~client /\ UNCHANGED told /\ Recover
  /\ UNCHANGED <<registered, client, kind, offered, fast, slow, output>>

SlowDone ==
  /\ runner = "slow" /\ slow.at = "done"
  /\ UNCHANGED told
  /\ Return(output)
  /\ UNCHANGED <<registered, client, kind, offered, fast, slow, output>>

-----------------------------------------------------------------------------
CallNext ==
  \/ FastPrepares \/ (\E decision \in Decisions : FastEnds(decision))
  \/ SlowPrepares \/ Recall
  \/ \E next \in Skills \cup Locals \cup {NoTask} : SlowAnswers(next)
  \/ \E e \in Errors : SlowFails(e)
  \/ FastDone \/ SendChatOut \/ SlowDone

Next ==
  \/ \E names \in SUBSET (Skills \cup Locals) : Register(names)
  \/ HangUp
  \/ \E k \in {"image", "chat"}, picture \in BOOLEAN : Ask(k, picture)
  \/ CallNext

Spec == Init /\ [][Next]_vars

\* The event loop runs what is ready.  That Gemini replies at all is assumed:
\* no timeout bounds a request.
FairSpec == Spec /\ WF_vars(CallNext)

-----------------------------------------------------------------------------
\* A call that a client still waits for, told nothing else, ends with what the
\* vision agent says or with the notice of its failure: also when the fast agent
\* raises beside it, and when it is the first to end.  What may be lost is the
\* notice of a call that failed before its first request, and what the vision
\* agent had ended with when the fast agent's response proves unusable.
NothingLost ==
  [][(runner # "done" /\ runner' = "done" /\ client' /\ ~told' /\ slow'.at # "none" /\ output'.end # "failed")
       => \/ output' # None /\ result' = output'
          \/ runner = "fast" /\ fast = "unusable" /\ slow.at = "done"]_vars

\* A call is not over before both its agents are: no vision agent of an earlier
\* chat runs beside the next one.
NobodyLeftBehind ==
  runner = "done" => slow.at \in {"none", "done"} /\ fast \notin {"starting", "asking"}

\* A request is tried at most MaxRetries times, and given up for the number of
\* tries only after all of them.
RetriesBounded ==
  /\ slow.attempt <= MaxRetries
  /\ output.end = "retries" => slow.attempt = MaxRetries

\* "They can only be exposed to the VLM if the client has registered
\* navigate_to_position" (constants.py): when an image is answered, a task the
\* client must carry out as navigate_to_position finds it registered, and any
\* other one is registered itself.
TasksRegistered ==
  [][(kind = "image" /\ runner # "done" /\ runner' = "done") =>
       /\ result'.next \in Locals => Navigate \in registered
       /\ result'.next \in Skills => result'.next \in registered]_vars

\* Every call ends, whatever fails in it.
CallEnds == (runner \notin {"idle", "done"}) ~> (runner = "done")
=============================================================================
