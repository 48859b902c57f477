---------------------------- MODULE AgentsProofs ----------------------------
(***************************************************************************)
(* Theorems about a call of the agents, for any number of attempts, any    *)
(* primitives and any registrations meanwhile.  The argument is the order  *)
(* of events: what each side can have done when the other is where it is.  *)
(***************************************************************************)
EXTENDS Agents, TLAPS

\* Where the runner is tells what the fast agent has done; the vision agent
\* has only begun when the fast agent has run up to its request.
Order ==
  /\ runner \in {"idle", "sending", "slow", "done"} => fast \notin {"starting", "asking"}
  /\ runner = "idle" => slow.at = "none"
  /\ runner = "slow" => slow.at # "none"
  /\ runner = "done" => slow.at \in {"none", "done"}
  /\ fast = "starting" => slow.at \in {"none", "starting"}
  /\ kind = "image" => runner \notin {"fast", "sending"}

\* An attempt that is followed by another is not the last.
Tries ==
  /\ slow.at = "napping" => slow.attempt < MaxRetries
  /\ output.end # "none" => slow.at = "done"
  /\ output.end = "retries" => slow.attempt = MaxRetries

\* The runner finds a vision agent that is done behind a fast agent that raised
\* at once only if it never made a request.
Handed ==
  /\ (fast = "raised" /\ runner = "fast" /\ slow.at = "done") => output.end = "failed"
  /\ slow.at = "done" => output.end # "none"

\* What was chosen was offered, and for an image it is offered still.
Choice ==
  /\ output.next \in offered \cup {NoTask}
  /\ (kind = "image" /\ runner \notin {"idle", "done"}) => offered = Offered(registered)

IInv == TypeOK /\ Order /\ Tries /\ Handed /\ Choice

LEMMA InitIInv == Init => IInv
<1> SUFFICES ASSUME Init PROVE IInv
  OBVIOUS
<1>1. slow \in [at : {"none"}, attempt : 0..MaxRetries]
  BY AgentsAssumption DEF Init
<1>2. TypeOK
  BY <1>1 DEF Init, TypeOK
<1>3. Order /\ Tries /\ Handed /\ Choice
  BY <1>1 DEF Init, Order, Tries, Handed, Choice, None
<1> QED
  BY <1>2, <1>3 DEF IInv

-----------------------------------------------------------------------------
(* What surrounds a call *)

LEMMA RegisterKeeps ==
  ASSUME IInv, NEW names \in SUBSET (Skills \cup Locals), Register(names)
  PROVE  IInv'
  BY AgentsAssumption
  DEF IInv, TypeOK, Order, Tries, Handed, Choice, Register, callVars

LEMMA HangUpKeeps == ASSUME IInv, HangUp PROVE IInv'
<1>1. TypeOK' /\ Order' /\ Tries' /\ Choice'
  BY DEF IInv, TypeOK, Order, Tries, Choice, HangUp, callVars
<1>2. ~client'
  BY DEF HangUp
<1>3. Handed'
  BY <1>2 DEF IInv, Handed, HangUp, callVars
<1> QED
  BY <1>1, <1>3 DEF IInv

LEMMA AskKeeps ==
  ASSUME IInv, NEW k \in {"image", "chat"}, NEW picture \in BOOLEAN, Ask(k, picture)
  PROVE  IInv'
<1>1. slow' \in [at : {"none", "starting"}, attempt : {0}]
  BY DEF Ask
<1>2. offered' \subseteq Skills \cup Locals
  BY DEF Ask, Offered, IInv, TypeOK
<1>3. TypeOK'
  <2>1. slow' \in [at : {"none", "starting", "asking", "napping", "done"}, attempt : 0..MaxRetries]
    BY <1>1, AgentsAssumption
  <2>2. kind' \in {"image", "chat"} /\ runner' \in {"fast", "slow"} /\ fast' \in {"none", "starting"}
    BY DEF Ask
  <2>3. output' = None /\ told' = FALSE /\ result' = None /\ UNCHANGED <<registered, client>>
    BY DEF Ask
  <2> QED
    BY <2>1, <2>2, <2>3, <1>2 DEF IInv, TypeOK
<1>4. Order' /\ Tries' /\ Handed'
  BY <1>1 DEF Ask, Order, Tries, Handed, None
<1>5. Choice'
  BY DEF Ask, Choice, None
<1> QED
  BY <1>3, <1>4, <1>5 DEF IInv

-----------------------------------------------------------------------------
(* The two agents *)

LEMMA FastPreparesKeeps == ASSUME IInv, FastPrepares PROVE IInv'
<1>1. fast' \in {"asking", "raised"}
  BY DEF FastPrepares
<1>2. runner = "fast" /\ slow.at # "done"
  BY DEF FastPrepares, IInv, TypeOK, Order
<1> QED
  BY <1>1, <1>2
  DEF FastPrepares, IInv, TypeOK, Order, Tries, Handed, Choice

LEMMA FastEndsKeeps ==
  ASSUME IInv, NEW decision \in Decisions, FastEnds(decision)
  PROVE  IInv'
  BY DEF FastEnds, IInv, TypeOK, Order, Tries, Handed, Choice, Decisions

LEMMA SlowPreparesKeeps == ASSUME IInv, SlowPrepares PROVE IInv'
<1>1. slow.at = "starting" /\ runner # "done" /\ runner # "idle"
  BY DEF SlowPrepares, IInv, Order, TypeOK
<1>2. CASE slow' = [at |-> "asking", attempt |-> 1] /\ UNCHANGED output
  BY <1>1, <1>2, AgentsAssumption
  DEF SlowPrepares, IInv, TypeOK, Order, Tries, Handed, Choice
<1>3. CASE slow' = [slow EXCEPT !.at = "done"] /\ output' = Fallback("failed")
  <2>1. slow' \in [at : {"done"}, attempt : 0..MaxRetries] /\ output' \in Output
    BY <1>3 DEF IInv, TypeOK, Fallback, Output, Ends
  <2> QED
    BY <1>1, <1>3, <2>1
    DEF SlowPrepares, IInv, TypeOK, Order, Tries, Handed, Choice, Fallback
<1> QED
  BY <1>2, <1>3 DEF SlowPrepares

\* A vision agent that ends with any output it may end with.
LEMMA EndKeeps ==
  ASSUME IInv, Replies, NEW out \in Output, EndSlow(out),
         out.next \in offered \cup {NoTask},
         out.end = "retries" => slow.attempt = MaxRetries,
         UNCHANGED <<registered, client, kind, offered, runner, fast, told, result>>
  PROVE  IInv'
<1>1. /\ slow' \in [at : {"done"}, attempt : 0..MaxRetries] /\ slow'.attempt = slow.attempt
      /\ out.end # "none"
  BY DEF EndSlow, IInv, TypeOK, Output, Ends
<1>2. runner # "done" /\ runner # "idle" /\ fast # "starting"
  BY DEF Replies, IInv, Order, TypeOK
<1>3. output' = out
  BY DEF EndSlow
<1> QED
  BY <1>1, <1>2, <1>3
  DEF Replies, IInv, TypeOK, Order, Tries, Handed, Choice

LEMMA SlowAnswersKeeps ==
  ASSUME IInv, NEW next \in Skills \cup Locals \cup {NoTask}, SlowAnswers(next)
  PROVE  IInv'
<1> DEFINE out == [end |-> "answer", next |-> next]
<1>1. out \in Output /\ out.end # "retries" /\ out.next = next
  BY DEF Output, Ends
<1> QED
  BY <1>1, EndKeeps DEF SlowAnswers

LEMMA SlowFailsKeeps ==
  ASSUME IInv, NEW e \in Errors, SlowFails(e)
  PROVE  IInv'
<1>1. CASE /\ Retried(e) /\ ~GivesUp(slow.attempt)
           /\ slow' = [slow EXCEPT !.at = "napping"] /\ UNCHANGED output
  <2>1. /\ slow' \in [at : {"napping"}, attempt : 0..MaxRetries]
        /\ slow'.attempt = slow.attempt /\ slow.attempt < MaxRetries
    BY <1>1, AgentsAssumption DEF IInv, TypeOK, GivesUp
  <2>2. runner # "done" /\ runner # "idle" /\ fast # "starting" /\ slow.at = "asking"
    BY DEF SlowFails, Replies, IInv, Order, TypeOK
  <2> QED
    BY <1>1, <2>1, <2>2
    DEF SlowFails, Replies, IInv, TypeOK, Order, Tries, Handed, Choice
<1>2. CASE GivesUp(slow.attempt) /\ EndSlow(Fallback("retries"))
  <2>1. Fallback("retries") \in Output /\ Fallback("retries").next = NoTask
    BY DEF Fallback, Output, Ends
  <2> QED
    BY <1>2, <2>1, EndKeeps DEF SlowFails, GivesUp
<1>3. CASE EndSlow(Fallback("unforeseen"))
  <2>1. /\ Fallback("unforeseen") \in Output /\ Fallback("unforeseen").next = NoTask
        /\ Fallback("unforeseen").end # "retries"
    BY DEF Fallback, Output, Ends
  <2> QED
    BY <1>3, <2>1, EndKeeps DEF SlowFails
<1> QED
  BY <1>1, <1>2, <1>3 DEF SlowFails

LEMMA RecallKeeps == ASSUME IInv, Recall PROVE IInv'
<1>1. slow' \in [at : {"asking"}, attempt : 0..MaxRetries]
  BY AgentsAssumption DEF Recall, NextAttempt, IInv, TypeOK, Tries
<1>2. runner # "done" /\ runner # "idle" /\ fast # "starting" /\ slow.at = "napping"
  BY DEF Recall, IInv, Order, TypeOK
<1> QED
  BY <1>1, <1>2
  DEF Recall, IInv, TypeOK, Order, Tries, Handed, Choice

-----------------------------------------------------------------------------
(* Between the two *)

LEMMA FastDoneKeeps == ASSUME IInv, FastDone PROVE IInv'
<1>1. kind = "chat" /\ runner' \in {"sending", "slow", "done"} /\ result' \in Output \cup {None}
  BY DEF FastDone, IInv, TypeOK, Order, Continue, Recover, Return, AwaitSlow, None
<1>2. fast \notin {"starting", "asking"}
  BY DEF FastDone
<1>3. /\ runner' = "slow" => slow.at # "none"
      /\ runner' = "done" => slow.at \in {"none", "done"}
  BY DEF FastDone, Continue, Recover, Return, AwaitSlow
<1> QED
  BY <1>1, <1>2, <1>3
  DEF FastDone, IInv, TypeOK, Order, Tries, Handed, Choice

LEMMA SendChatOutKeeps == ASSUME IInv, SendChatOut PROVE IInv'
<1>1. kind = "chat" /\ runner' \in {"slow", "done"} /\ result' \in Output \cup {None} /\ told' \in BOOLEAN
  BY DEF SendChatOut, IInv, TypeOK, Order, Continue, Recover, Return, AwaitSlow, None
<1>2. /\ runner' = "slow" => slow.at # "none"
      /\ runner' = "done" => \/ slow.at = "none"
                             \/ slow.at = "done" /\ ~client
  BY DEF SendChatOut, Continue, Recover, Return, AwaitSlow
<1> QED
  BY <1>1, <1>2
  DEF SendChatOut, IInv, TypeOK, Order, Tries, Handed, Choice

LEMMA SlowDoneKeeps == ASSUME IInv, SlowDone PROVE IInv'
<1>1. runner' = "done" /\ result' \in Output \cup {None} /\ (~told' => result' = output)
  BY DEF SlowDone, Return, IInv, TypeOK, None
<1> QED
  BY <1>1 DEF SlowDone, IInv, TypeOK, Order, Tries, Handed, Choice

-----------------------------------------------------------------------------
LEMMA NextIInv == ASSUME IInv, [Next]_vars PROVE IInv'
<1>1. CASE UNCHANGED vars
  BY <1>1 DEF vars, callVars, IInv, TypeOK, Order, Tries, Handed, Choice
<1>2. CASE CallNext
  BY <1>2, FastPreparesKeeps, FastEndsKeeps, SlowPreparesKeeps, RecallKeeps, SlowAnswersKeeps,
     SlowFailsKeeps, FastDoneKeeps, SendChatOutKeeps, SlowDoneKeeps
  DEF CallNext
<1> QED
  BY <1>1, <1>2, RegisterKeeps, HangUpKeeps, AskKeeps DEF Next

\* In every state of a call the two agents and their runner are in the order that
\* IInv describes: the inductive invariant behind the theorems below.
THEOREM Invariance == Spec => []IInv
  BY InitIInv, NextIInv, PTL DEF Spec

\* Type correctness of a call.
THEOREM TypeCorrect == Spec => []TypeOK
  BY Invariance, PTL DEF IInv

\* Nothing the vision agent says, and no notice of its failure, is lost to a
\* client that was told nothing else, but to an unusable fast answer that is found
\* behind a vision agent that has ended.
THEOREM NoAnswerLost == Spec => NothingLost
<1> DEFINE Lost == \/ output' # None /\ result' = output'
                   \/ runner = "fast" /\ fast = "unusable" /\ slow.at = "done"
           A == (runner # "done" /\ runner' = "done" /\ client' /\ ~told' /\ slow'.at # "none"
                   /\ output'.end # "failed") => Lost
<1>1. ASSUME IInv, [Next]_vars PROVE A
  <2> SUFFICES ASSUME runner # "done", runner' = "done", client', ~told',
                      slow'.at # "none", output'.end # "failed"
               PROVE  Lost
    OBVIOUS
  <2>1. FastDone \/ SendChatOut \/ SlowDone
    <3>1. runner' # runner
      OBVIOUS
    <3> QED
      BY <1>1, <3>1
      DEF Next, CallNext, vars, callVars, Register, HangUp, Ask, FastPrepares, FastEnds, SlowPrepares,
          SlowAnswers, SlowFails, Recall
  <2>2. UNCHANGED <<client, slow, output>>
    BY <2>1 DEF FastDone, SendChatOut, SlowDone
  <2>3. CASE FastDone
    \* Of an agent that raised at once, only a notice of failure is passed over.
    <3>1. slow.at = "done" /\ fast \in {"raised", "unusable"} /\ runner = "fast"
      BY <2>2, <2>3 DEF FastDone, Continue, Recover, Return, AwaitSlow
    <3>2. fast # "raised"
      BY <1>1, <2>2, <3>1 DEF IInv, Handed
    <3> QED
      BY <3>1, <3>2
  <2>4. CASE SendChatOut
    BY <2>2, <2>4 DEF SendChatOut, Continue, Recover, Return, AwaitSlow
  <2>5. CASE SlowDone
    BY <1>1, <2>2, <2>5 DEF SlowDone, Return, IInv, Handed, None
  <2> QED
    BY <2>1, <2>3, <2>4, <2>5
<1>2. Spec => [][A]_vars
  BY <1>1, Invariance, PTL DEF Spec
<1> QED
  BY <1>2 DEF NothingLost

\* When a call ends no agent of it is still at work.
THEOREM NoAgentLeft == Spec => []NobodyLeftBehind
<1>1. IInv => NobodyLeftBehind
  BY DEF IInv, Order, NobodyLeftBehind
<1> QED
  BY <1>1, Invariance, PTL

\* A request is made at most MaxRetries times, and given up after exactly that.
THEOREM BoundedRetries == Spec => []RetriesBounded
<1>1. IInv => RetriesBounded
  BY AgentsAssumption DEF IInv, TypeOK, Tries, RetriesBounded
<1> QED
  BY <1>1, Invariance, PTL

\* The task an image is answered with is one the client registered, or one of
\* the brain's own while navigate_to_position is registered.
THEOREM RegisteredTasks == Spec => TasksRegistered
<1> DEFINE A == (kind = "image" /\ runner # "done" /\ runner' = "done") =>
                  /\ result'.next \in Locals => Navigate \in registered
                  /\ result'.next \in Skills => result'.next \in registered
<1>1. ASSUME IInv, [Next]_vars PROVE A
  <2>1. SUFFICES ASSUME kind = "image", runner # "done", runner' = "done"
                 PROVE  /\ result'.next \in Locals => Navigate \in registered
                        /\ result'.next \in Skills => result'.next \in registered
    OBVIOUS
  <2>2. SlowDone
    <3>1. runner' # runner
      BY <2>1
    <3> QED
      BY <1>1, <2>1, <3>1
      DEF Next, CallNext, vars, callVars, Register, HangUp, Ask, FastPrepares, FastEnds, SlowPrepares,
          SlowAnswers, SlowFails, Recall, FastDone, SendChatOut, IInv, Order
  <2>3. result' = output \/ result' = None
    BY <2>2 DEF SlowDone, Return
  <2>4. result'.next \in Offered(registered) \cup {NoTask}
    BY <1>1, <2>1, <2>2, <2>3 DEF SlowDone, IInv, Choice, None
  <2> QED
    BY <1>1, <2>4, AgentsAssumption DEF Offered, IInv, TypeOK
<1>2. Spec => [][A]_vars
  BY <1>1, Invariance, PTL DEF Spec
<1> QED
  BY <1>2 DEF TasksRegistered
=============================================================================
