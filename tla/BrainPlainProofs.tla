-------------------------- MODULE BrainPlainProofs --------------------------
(***************************************************************************)
(* Proofs about the plain session of Brain, without chats, resets and      *)
(* continuous navigation, for any number of tasks, of unusable images and  *)
(* of images whose handling raises: the robot has one task at a time to    *)
(* answer to, does what the brain tracks, and sees the image loop that     *)
(* ImageLoop describes, its break included.                                *)
(***************************************************************************)
EXTENDS BrainProofs

PlainSession == Chats = {} /\ MaxResets = 0 /\ "continuous" \notin Kinds

----------------------------------------------------------------------------
(* The inductive invariant *)

\* The messages whose handling asks for an image, or starts the vision model.
Turning == {i \in DOMAIN message_queue :
              \/ message_queue[i].type \in {"image", "activated"}
              \/ message_queue[i].type = "failed" /\ jobs[<<message_queue[i].id, 0>>] = "refused"}

\* One thing at a time keeps the image loop turning: a request, one of these
\* messages, the vision model, or a task the robot has not answered to.
OneTurn ==
  /\ grants \in {0, 1}
  /\ \A i, k \in Turning : i = k
  /\ OneUnacknowledgedTask
  /\ grants = 1 => Turning = {} /\ main.at # "vlm"
  /\ Turning # {} => main.at # "vlm"
  /\ \A j \in Job : jobs[j] = "sent" =>
       grants = 0 /\ Turning = {} /\ main.at \notin {"vlm", "activated"}

\* What a plain session never has.
Plain == /\ ~nav.active /\ ~slow_agent_running
         /\ \A j \in Job : jobs[j] # "none" => j[2] = 0

\* A report in the queue is on a task that has got there.
Reports ==
  \A i \in DOMAIN message_queue :
    LET m == message_queue[i] IN
    /\ m.type # "reset"
    /\ m.type \in Terminals =>
         /\ m.id \in Tasks /\ jobs[<<m.id, 0>>] \in {"refused", "done"}
         /\ m.type # "failed" => jobs[<<m.id, 0>>] = "done"
    /\ m.type = "activated" =>
         m.id \in Tasks /\ jobs[<<m.id, 0>>] \in {"running", "stopping", "done"}

\* A task without an answer, or refused, is the tracked one and not confirmed.
Unconfirmed ==
  /\ \A j \in Job : jobs[j] = "sent" => ~primitive_activation_seen
  /\ \A i \in Turning : message_queue[i].type = "failed" =>
       message_queue[i].id = primitive_in_execution /\ ~primitive_activation_seen

\* Nobody changes the tracked primitive behind the back of the main loop.
Snapshot == main.at \in {"vlm", "activated"} => main.held = primitive_in_execution

\* A tracked primitive that was started is confirmed before its end is seen.
ConfirmedInTime ==
  (/\ primitive_in_execution # NoTask /\ ~primitive_activation_seen
   /\ jobs[<<primitive_in_execution, 0>>] \in {"running", "stopping", "done"})
  => \/ main.at = "activated" /\ main.id = primitive_in_execution
     \/ \E k \in DOMAIN message_queue :
          /\ message_queue[k].type = "activated" /\ message_queue[k].id = primitive_in_execution
          /\ \A i \in 1..k : message_queue[i].type \in Terminals =>
               message_queue[i].id # primitive_in_execution

PlainParts == /\ OneTurn /\ Plain /\ Reports /\ Unconfirmed /\ Snapshot
              /\ ConfirmedInTime /\ LiveTaskTracked

PlainInv == PlainSession /\ SafeInv /\ LoopInv /\ PlainParts

\* In a plain session a resting loop waits for one of these, or for nothing.
Acting == Turning # {} \/ \E j \in Job : jobs[j] = "sent"

PlainStage ==
  IF grants > 0 THEN "granted"
  ELSE IF InQueue({"image"}) # {} THEN "queued"
  ELSE IF main.at = "vlm" THEN "thinking"
  ELSE IF Acting THEN "awaiting"
  ELSE "broken"

P == INSTANCE ImageLoop WITH loop <- PlainStage

\* The step is one of the image loop, or leaves it where it is.
Turns == P!Next \/ PlainStage' = PlainStage

----------------------------------------------------------------------------
(* The queue *)

LEMMA QueueType == ASSUME PlainInv
                   PROVE  /\ message_queue \in Seq(Message) /\ Len(message_queue) \in Nat
                          /\ DOMAIN message_queue = 1..Len(message_queue)
                          /\ \A i \in DOMAIN message_queue : message_queue[i] \in Message
  BY DEF PlainInv, SafeInv, TypeOK, RobotTypeOK

LEMMA TakenShape ==
  ASSUME PlainInv, NEW type, Takes(type)
  PROVE  /\ 1 \in DOMAIN message_queue /\ Head(message_queue) = message_queue[1]
         /\ message_queue[1].type = type
         /\ \A i \in DOMAIN message_queue' : i \in Nat /\ i >= 1 /\ i + 1 \in DOMAIN message_queue
                                             /\ message_queue'[i] = message_queue[i + 1]
         /\ \A i \in DOMAIN message_queue : i = 1 \/
              (i - 1 \in DOMAIN message_queue' /\ message_queue'[i - 1] = message_queue[i])
  BY QueueType DEF Takes

\* Where the next message goes, and what the queue is with it.
End == Len(message_queue) + 1

Added(type, id) ==
  /\ End \in Nat /\ End \in DOMAIN message_queue' /\ End \notin DOMAIN message_queue
  /\ message_queue'[End] = [type |-> type, id |-> id]
  /\ message_queue'[End].type = type /\ message_queue'[End].id = id
  /\ \A i \in DOMAIN message_queue' :
       i = End \/ (i \in DOMAIN message_queue /\ message_queue'[i] = message_queue[i])
  /\ \A i \in DOMAIN message_queue : i < End /\ i \in DOMAIN message_queue'
                                     /\ message_queue'[i] = message_queue[i]

LEMMA PutShape ==
  ASSUME PlainInv, NEW type, NEW id, Enqueue(type, id)
  PROVE  Added(type, id)
  BY QueueType DEF Enqueue, Added, End

LEMMA TakenKeeps ==
  ASSUME PlainInv, NEW type, Takes(type), jobs' = jobs
  PROVE  /\ Reports'
         /\ \A i \in Turning' : i + 1 \in Turning /\ message_queue'[i] = message_queue[i + 1]
         /\ 1 \in Turning => Turning' = {}
         /\ Turning = {} => Turning' = {}
         /\ 1 \notin Turning /\ Turning # {} => Turning' # {}
         /\ \A i, k \in Turning' : i = k
<1>1. Reports'
  BY TakenShape DEF PlainInv, PlainParts, Reports
<1>2. \A i \in Turning' : i \in Nat /\ i >= 1 /\ i + 1 \in Turning /\ message_queue'[i] = message_queue[i + 1]
  BY TakenShape DEF Turning
<1>3. \A i, k \in Turning : i = k
  BY DEF PlainInv, PlainParts, OneTurn
<1>4. \A i, k \in Turning' : i = k
  <2> TAKE i, k \in Turning'
  <2>1. i \in Nat /\ k \in Nat /\ i + 1 = k + 1
    BY <1>2, <1>3
  <2> QED
    BY <2>1
<1>5. 1 \in Turning => Turning' = {}
  <2> SUFFICES ASSUME 1 \in Turning, NEW i \in Turning' PROVE FALSE
    OBVIOUS
  <2>1. i \in Nat /\ i >= 1 /\ i + 1 = 1
    BY <1>2, <1>3
  <2> QED
    BY <2>1
<1>6. 1 \notin Turning /\ Turning # {} => Turning' # {}
  <2> SUFFICES ASSUME 1 \notin Turning, NEW i \in Turning PROVE i - 1 \in Turning'
    OBVIOUS
  <2>1. i - 1 \in DOMAIN message_queue' /\ message_queue'[i - 1] = message_queue[i]
    BY TakenShape DEF Turning
  <2> QED
    BY <2>1 DEF Turning
<1> QED
  BY <1>1, <1>2, <1>4, <1>5, <1>6

\* The tracked primitive is still to be confirmed by a message behind the head.
LEMMA TakenStillConfirmed ==
  ASSUME PlainInv, NEW type, Takes(type), jobs' = jobs, UNCHANGED stateVars,
         type # "activated"
  PROVE  ConfirmedInTime'
<1> SUFFICES ASSUME primitive_in_execution # NoTask, ~primitive_activation_seen,
                    jobs[<<primitive_in_execution, 0>>] \in {"running", "stopping", "done"}
             PROVE  \E k \in DOMAIN message_queue' :
                      /\ message_queue'[k].type = "activated"
                      /\ message_queue'[k].id = primitive_in_execution
                      /\ \A i \in 1..k : message_queue'[i].type \in Terminals =>
                           message_queue'[i].id # primitive_in_execution
  BY DEF ConfirmedInTime, stateVars
<1>1. main.at = "idle"
  BY DEF Takes
<1>2. PICK k \in DOMAIN message_queue :
        /\ message_queue[k].type = "activated" /\ message_queue[k].id = primitive_in_execution
        /\ \A i \in 1..k : message_queue[i].type \in Terminals =>
             message_queue[i].id # primitive_in_execution
  BY <1>1 DEF PlainInv, PlainParts, ConfirmedInTime
<1>3. k # 1
  BY <1>2, TakenShape
<1>4. k - 1 \in DOMAIN message_queue' /\ message_queue'[k - 1] = message_queue[k]
  BY <1>3, TakenShape
<1>5. \A i \in 1..(k - 1) : i \in DOMAIN message_queue' /\ i + 1 \in 1..k
  BY <1>4, QueueType DEF Takes
<1>6. \A i \in 1..(k - 1) : message_queue'[i].type \in Terminals =>
         message_queue'[i].id # primitive_in_execution
  BY <1>2, <1>5, TakenShape
<1> QED
  BY <1>2, <1>4, <1>6

----------------------------------------------------------------------------
(* The robot's steps *)

BrainUnchanged ==
  UNCHANGED <<main, chat, stateVars, slow_agent_running, primitive_ids_map, nav>>

\* What waits to confirm the tracked primitive still does with a new message.
LEMMA PutStillConfirmed ==
  ASSUME PlainInv, NEW type, NEW id, Enqueue(type, id), UNCHANGED <<main, stateVars>>,
         jobs'[<<primitive_in_execution, 0>>] \in {"running", "stopping", "done"} =>
           jobs[<<primitive_in_execution, 0>>] \in {"running", "stopping", "done"}
  PROVE  ConfirmedInTime'
<1> SUFFICES ASSUME primitive_in_execution # NoTask, ~primitive_activation_seen,
                    jobs[<<primitive_in_execution, 0>>] \in {"running", "stopping", "done"},
                    ~(main.at = "activated" /\ main.id = primitive_in_execution)
             PROVE  \E k \in DOMAIN message_queue' :
                      /\ message_queue'[k].type = "activated"
                      /\ message_queue'[k].id = primitive_in_execution
                      /\ \A i \in 1..k : message_queue'[i].type \in Terminals =>
                           message_queue'[i].id # primitive_in_execution
  BY DEF ConfirmedInTime, stateVars
<1>1. PICK k \in DOMAIN message_queue :
        /\ message_queue[k].type = "activated" /\ message_queue[k].id = primitive_in_execution
        /\ \A i \in 1..k : message_queue[i].type \in Terminals =>
             message_queue[i].id # primitive_in_execution
  BY DEF PlainInv, PlainParts, ConfirmedInTime
<1>2. Added(type, id)
  BY PutShape
<1>3. \A i \in 1..k : i \in DOMAIN message_queue
  BY QueueType
<1> QED
  BY <1>1, <1>2, <1>3 DEF Added

LEMMA SendImageKeeps ==
  ASSUME PlainInv, SendImage, BrainUnchanged
  PROVE  PlainParts' /\ Turns
<1>1. /\ grants = 1 /\ grants' = 0 /\ jobs' = jobs /\ Turning = {} /\ main.at # "vlm"
      /\ \A j \in Job : jobs[j] # "sent"
  BY DEF PlainInv, PlainParts, OneTurn, SendImage
<1>2. /\ Enqueue("image", NoTask) /\ UNCHANGED <<main, stateVars>> /\ UNCHANGED stateVars
      /\ UNCHANGED <<main, chat, primitive_in_execution, primitive_activation_seen,
                     slow_agent_running, nav>>
  BY DEF SendImage, BrainUnchanged, stateVars
<1>3. Added("image", NoTask)
  BY <1>2, PutShape
<1>4. \A i \in Turning' : i = End
  BY <1>1, <1>3 DEF Turning, Added
<1>5. OneTurn'
  BY <1>1, <1>2, <1>4 DEF OneTurn, OneUnacknowledgedTask
<1>6. Reports'
  BY <1>1, <1>3 DEF PlainInv, PlainParts, Reports, Terminals, Added
<1>7. Unconfirmed'
  BY <1>1, <1>3, <1>4 DEF Unconfirmed, Added
<1>8. ConfirmedInTime'
  BY <1>1, <1>2, PutStillConfirmed
<1>9. Plain' /\ Snapshot' /\ LiveTaskTracked'
  BY <1>1, <1>2 DEF PlainInv, PlainParts, Plain, Snapshot, LiveTaskTracked, Live
<1>10. Turns
  <2>1. PlainStage = "granted"
    BY <1>1 DEF PlainStage
  <2>2. PlainStage' = "queued"
    BY <1>1, <1>3 DEF PlainStage, InQueue, Added
  <2> QED
    BY <2>1, <2>2 DEF Turns, P!Next, P!SendImage, P!Move
<1> QED
  BY <1>5, <1>6, <1>7, <1>8, <1>9, <1>10 DEF PlainParts

\* While a task waits for its answer the loop stands at "awaiting".
LEMMA AwaitingStage ==
  ASSUME PlainInv, NEW j \in Job, jobs[j] = "sent"
  PROVE  /\ grants = 0 /\ Turning = {} /\ main.at \notin {"vlm", "activated"}
         /\ PlainStage = "awaiting" /\ j = <<primitive_in_execution, 0>>
         /\ ~primitive_activation_seen
<1>1. grants = 0 /\ Turning = {} /\ main.at \notin {"vlm", "activated"}
  BY DEF PlainInv, PlainParts, OneTurn
<1>2. InQueue({"image"}) = {}
  BY <1>1 DEF InQueue, Turning
<1>3. j = <<primitive_in_execution, 0>>
  BY DEF PlainInv, PlainParts, Plain, LiveTaskTracked, Live, Job
<1>4. ~primitive_activation_seen
  BY DEF PlainInv, PlainParts, Unconfirmed
<1> QED
  BY <1>1, <1>2, <1>3, <1>4 DEF PlainStage, Acting

LEMMA StartJobKeeps ==
  ASSUME PlainInv, NEW j \in Job, StartJob(j), BrainUnchanged
  PROVE  PlainParts' /\ Turns
<1>1. /\ grants = 0 /\ Turning = {} /\ main.at \notin {"vlm", "activated"}
      /\ PlainStage = "awaiting" /\ j = <<primitive_in_execution, 0>>
      /\ ~primitive_activation_seen
  BY AwaitingStage DEF StartJob
<1>2. /\ Enqueue("activated", j[1])
      /\ UNCHANGED <<grants, main, chat, primitive_in_execution, primitive_activation_seen,
                     slow_agent_running, nav>>
  BY DEF StartJob, BrainUnchanged, stateVars
<1>3. /\ jobs[j] = "sent" /\ jobs'[j] = "running" /\ jobs \in [Job -> Status]
      /\ \A i \in Job : i # j => jobs'[i] = jobs[i]
  BY DEF StartJob, PlainInv, SafeInv, TypeOK, RobotTypeOK
<1>4. Added("activated", primitive_in_execution) /\ primitive_in_execution \in Tasks
  <2>1. j[1] = primitive_in_execution /\ primitive_in_execution \in Tasks
    BY <1>1 DEF Job
  <2> QED
    BY <1>2, <2>1, PutShape
<1>5. \A i \in DOMAIN message_queue :
        message_queue[i].type \in {"activated"} \cup Terminals => message_queue[i].id # primitive_in_execution
  BY <1>1, <1>3 DEF PlainInv, PlainParts, Reports
<1>6. \A i \in DOMAIN message_queue :
        message_queue[i].type \in {"activated"} \cup Terminals =>
          jobs'[<<message_queue[i].id, 0>>] = jobs[<<message_queue[i].id, 0>>]
  <2> SUFFICES ASSUME NEW i \in DOMAIN message_queue,
                      message_queue[i].type \in {"activated"} \cup Terminals
               PROVE  jobs'[<<message_queue[i].id, 0>>] = jobs[<<message_queue[i].id, 0>>]
    OBVIOUS
  <2>1. message_queue[i].id \in Tasks
    BY DEF PlainInv, PlainParts, Reports
  <2>2. <<message_queue[i].id, 0>> \in Job
    BY <2>1, MaxIterationsAssumption DEF Job
  <2>3. <<message_queue[i].id, 0>> # j
    BY <1>1, <1>5
  <2> QED
    BY <1>3, <2>2, <2>3
<1>7. \A i \in Turning' : i = End
  <2> SUFFICES ASSUME NEW i \in Turning', i # End PROVE FALSE
    OBVIOUS
  <2>1. i \in DOMAIN message_queue /\ message_queue'[i] = message_queue[i]
    BY <1>4 DEF Turning, Added
  <2>2. message_queue[i].type \in {"image"} \/ message_queue[i].type \in {"activated"} \cup Terminals
    BY <2>1 DEF Turning, Terminals
  <2>3. i \in Turning
    BY <1>6, <2>1, <2>2 DEF Turning, Terminals
  <2> QED
    BY <1>1, <2>3
<1>8. \A i \in Job : jobs'[i] # "sent"
  BY <1>3 DEF PlainInv, PlainParts, OneTurn, OneUnacknowledgedTask
<1>9. OneTurn'
  BY <1>1, <1>2, <1>7, <1>8 DEF OneTurn, OneUnacknowledgedTask
<1>10. Reports'
  <2>1. jobs'[<<primitive_in_execution, 0>>] = "running"
    BY <1>1, <1>3
  <2> SUFFICES ASSUME NEW i \in DOMAIN message_queue'
               PROVE  LET m == message_queue'[i] IN
                      /\ m.type # "reset"
                      /\ m.type \in Terminals =>
                           /\ m.id \in Tasks /\ jobs'[<<m.id, 0>>] \in {"refused", "done"}
                           /\ m.type # "failed" => jobs'[<<m.id, 0>>] = "done"
                      /\ m.type = "activated" =>
                           m.id \in Tasks /\ jobs'[<<m.id, 0>>] \in {"running", "stopping", "done"}
    BY DEF Reports
  <2>2. CASE i = End
    BY <2>1, <2>2, <1>4 DEF Terminals, Added
  <2>3. CASE i \in DOMAIN message_queue
    <3>1. message_queue'[i] = message_queue[i]
      BY <1>4, <2>3 DEF Added
    <3> QED
      BY <1>6, <2>3, <3>1 DEF PlainInv, PlainParts, Reports
  <2> QED
    BY <1>4, <2>2, <2>3 DEF Added
<1>11. Unconfirmed'
  BY <1>4, <1>7, <1>8 DEF Unconfirmed, Added
<1>12. ConfirmedInTime'
  <2>1. \A i \in 1..End : message_queue'[i].type \in Terminals =>
           message_queue'[i].id # primitive_in_execution
    <3> SUFFICES ASSUME NEW i \in 1..End, message_queue'[i].type \in Terminals
                 PROVE  message_queue'[i].id # primitive_in_execution
      OBVIOUS
    <3>1. i # End
      BY <1>4 DEF Terminals, Added
    <3>2. i \in DOMAIN message_queue
      BY <3>1, QueueType DEF End
    <3> QED
      BY <1>4, <1>5, <3>2 DEF Added
  <2> QED
    BY <1>2, <1>4, <2>1 DEF ConfirmedInTime, Added
<1>13. Plain' /\ Snapshot'
  BY <1>1, <1>2, <1>3 DEF PlainInv, PlainParts, Plain, Snapshot
<1>14. LiveTaskTracked'
  BY <1>1, <1>2, <1>3 DEF PlainInv, PlainParts, LiveTaskTracked, Live
<1>15. Turns
  <2>1. InQueue({"image"})' = {}
    BY <1>4, <1>7 DEF InQueue, Turning, Added
  <2>2. End \in Turning'
    BY <1>4 DEF Turning, Added
  <2> QED
    BY <1>1, <1>2, <2>1, <2>2 DEF Turns, PlainStage, Acting
<1> QED
  BY <1>9, <1>10, <1>11, <1>12, <1>13, <1>14, <1>15 DEF PlainParts

\* A step of the robot on job j changes nothing for the reports on others.
LEMMA OthersUnchanged ==
  ASSUME PlainInv, NEW j \in Job, NEW status, jobs' = [jobs EXCEPT ![j] = status],
         NEW i \in DOMAIN message_queue, message_queue[i].type \in {"activated"} \cup Terminals,
         j # <<message_queue[i].id, 0>>
  PROVE  jobs'[<<message_queue[i].id, 0>>] = jobs[<<message_queue[i].id, 0>>]
<1>1. message_queue[i].id \in Tasks
  BY DEF PlainInv, PlainParts, Reports
<1>2. <<message_queue[i].id, 0>> \in Job
  BY <1>1, MaxIterationsAssumption DEF Job
<1>3. jobs \in [Job -> Status]
  BY DEF PlainInv, SafeInv, TypeOK, RobotTypeOK
<1> QED
  BY <1>2, <1>3

LEMMA RefuseJobKeeps ==
  ASSUME PlainInv, NEW j \in Job, RefuseJob(j), BrainUnchanged
  PROVE  PlainParts' /\ Turns
<1>1. /\ grants = 0 /\ Turning = {} /\ main.at \notin {"vlm", "activated"}
      /\ PlainStage = "awaiting" /\ j = <<primitive_in_execution, 0>>
      /\ ~primitive_activation_seen
  BY AwaitingStage DEF RefuseJob
<1>2. /\ Enqueue("failed", j[1])
      /\ UNCHANGED <<grants, main, chat, primitive_in_execution, primitive_activation_seen,
                     slow_agent_running, nav>>
  BY DEF RefuseJob, BrainUnchanged, stateVars
<1>3. /\ jobs[j] = "sent" /\ jobs'[j] = "refused" /\ jobs' = [jobs EXCEPT ![j] = "refused"]
      /\ \A i \in Job : i # j => jobs'[i] = jobs[i]
  BY DEF RefuseJob, PlainInv, SafeInv, TypeOK, RobotTypeOK
<1>4. Added("failed", primitive_in_execution) /\ primitive_in_execution \in Tasks
  <2>1. j[1] = primitive_in_execution /\ primitive_in_execution \in Tasks
    BY <1>1 DEF Job
  <2> QED
    BY <1>2, <2>1, PutShape
<1>5. \A i \in DOMAIN message_queue :
        message_queue[i].type \in {"activated"} \cup Terminals =>
          jobs'[<<message_queue[i].id, 0>>] = jobs[<<message_queue[i].id, 0>>]
  <2>1. \A i \in DOMAIN message_queue : message_queue[i].type \in {"activated"} \cup Terminals =>
          message_queue[i].id # primitive_in_execution
    BY <1>1, <1>3 DEF PlainInv, PlainParts, Reports
  <2> QED
    BY <1>1, <1>3, <2>1, OthersUnchanged
<1>6. \A i \in Turning' : i = End
  <2> SUFFICES ASSUME NEW i \in Turning', i # End PROVE FALSE
    OBVIOUS
  <2>1. i \in DOMAIN message_queue /\ message_queue'[i] = message_queue[i]
    BY <1>4 DEF Turning, Added
  <2>2. i \in Turning
    BY <1>5, <2>1 DEF Turning, Terminals
  <2> QED
    BY <1>1, <2>2
<1>7. \A i \in Job : jobs'[i] # "sent"
  BY <1>3 DEF PlainInv, PlainParts, OneTurn, OneUnacknowledgedTask
<1>8. OneTurn'
  BY <1>1, <1>2, <1>6, <1>7 DEF OneTurn, OneUnacknowledgedTask
<1>9. Reports'
  <2>1. jobs'[<<primitive_in_execution, 0>>] = "refused"
    BY <1>1, <1>3
  <2> SUFFICES ASSUME NEW i \in DOMAIN message_queue'
               PROVE  LET m == message_queue'[i] IN
                      /\ m.type # "reset"
                      /\ m.type \in Terminals =>
                           /\ m.id \in Tasks /\ jobs'[<<m.id, 0>>] \in {"refused", "done"}
                           /\ m.type # "failed" => jobs'[<<m.id, 0>>] = "done"
                      /\ m.type = "activated" =>
                           m.id \in Tasks /\ jobs'[<<m.id, 0>>] \in {"running", "stopping", "done"}
    BY DEF Reports
  <2>2. CASE i = End
    BY <2>1, <2>2, <1>4 DEF Added
  <2>3. CASE i \in DOMAIN message_queue /\ message_queue'[i] = message_queue[i]
    BY <1>5, <2>3 DEF PlainInv, PlainParts, Reports
  <2> QED
    BY <1>4, <2>2, <2>3 DEF Added
<1>10. Unconfirmed'
  BY <1>1, <1>2, <1>4, <1>6, <1>7 DEF Unconfirmed, Added
<1>11. ConfirmedInTime'
  BY <1>1, <1>2, <1>3 DEF ConfirmedInTime
<1>12. Plain' /\ Snapshot'
  BY <1>1, <1>2, <1>3 DEF PlainInv, PlainParts, Plain, Snapshot
<1>13. LiveTaskTracked'
  BY <1>1, <1>2, <1>3 DEF PlainInv, PlainParts, LiveTaskTracked, Live
<1>14. Turns
  <2>1. InQueue({"image"})' = {}
    BY <1>4, <1>6 DEF InQueue, Turning, Added
  <2>2. End \in Turning'
    BY <1>1, <1>3, <1>4 DEF Turning, Added
  <2> QED
    BY <1>1, <1>2, <2>1, <2>2 DEF Turns, PlainStage, Acting
<1> QED
  BY <1>8, <1>9, <1>10, <1>11, <1>12, <1>13, <1>14 DEF PlainParts

LEMMA EndJobKeeps ==
  ASSUME PlainInv, NEW j \in Job, NEW how \in Terminals, EndJob(j, how), BrainUnchanged
  PROVE  PlainParts' /\ Turns
<1>1. /\ jobs[j] \in {"running", "stopping"} /\ jobs'[j] = "done"
      /\ jobs' = [jobs EXCEPT ![j] = "done"]
      /\ \A i \in Job : i # j => jobs'[i] = jobs[i]
  BY DEF EndJob, PlainInv, SafeInv, TypeOK, RobotTypeOK
<1>2. /\ Enqueue(how, j[1]) /\ UNCHANGED <<main, stateVars>>
      /\ UNCHANGED <<grants, main, chat, primitive_in_execution, primitive_activation_seen,
                     slow_agent_running, nav>>
  BY DEF EndJob, BrainUnchanged, stateVars
<1>3. j[1] \in Tasks /\ j = <<j[1], 0>>
  BY <1>1 DEF PlainInv, PlainParts, Plain, Job
<1>4. Added(how, j[1])
  BY <1>2, PutShape
<1>5. \A i \in DOMAIN message_queue :
        /\ message_queue[i].type \in Terminals =>
             jobs'[<<message_queue[i].id, 0>>] = jobs[<<message_queue[i].id, 0>>]
        /\ message_queue[i].type = "activated" =>
             jobs'[<<message_queue[i].id, 0>>] \in {"running", "stopping", "done"}
  <2> TAKE i \in DOMAIN message_queue
  <2>1. ASSUME message_queue[i].type \in Terminals
        PROVE  jobs'[<<message_queue[i].id, 0>>] = jobs[<<message_queue[i].id, 0>>]
    <3>1. j # <<message_queue[i].id, 0>>
      BY <1>1, <2>1 DEF PlainInv, PlainParts, Reports
    <3> QED
      BY <1>1, <2>1, <3>1, OthersUnchanged
  <2>2. ASSUME message_queue[i].type = "activated"
        PROVE  jobs'[<<message_queue[i].id, 0>>] \in {"running", "stopping", "done"}
    <3>1. CASE j = <<message_queue[i].id, 0>>
      BY <1>1, <3>1
    <3>2. CASE j # <<message_queue[i].id, 0>>
      BY <1>1, <2>2, <3>2, OthersUnchanged DEF PlainInv, PlainParts, Reports
    <3> QED
      BY <3>1, <3>2
  <2> QED
    BY <2>1, <2>2
<1>6. Turning' = Turning /\ \A i \in Turning : message_queue'[i] = message_queue[i]
  <2>1. End \notin Turning'
    <3>1. jobs'[<<j[1], 0>>] = "done"
      BY <1>1, <1>3
    <3> QED
      BY <1>4, <3>1 DEF Turning, Added, Terminals
  <2>2. ASSUME NEW i \in DOMAIN message_queue
        PROVE  i \in Turning' <=> i \in Turning
    BY <1>4, <1>5 DEF Turning, Added, Terminals
  <2>3. \A i \in Turning' : i \in DOMAIN message_queue
    BY <1>4, <2>1 DEF Turning, Added
  <2>4. \A i \in Turning : i \in DOMAIN message_queue
    BY DEF Turning
  <2> QED
    BY <1>4, <2>2, <2>3, <2>4 DEF Added
<1>7. \A i \in Job : jobs'[i] = "sent" <=> jobs[i] = "sent"
  BY <1>1
<1>8. OneTurn'
  BY <1>2, <1>6, <1>7 DEF PlainInv, PlainParts, OneTurn, OneUnacknowledgedTask
<1>9. Reports'
  <2>1. jobs'[<<j[1], 0>>] = "done"
    BY <1>1, <1>3
  <2> SUFFICES ASSUME NEW i \in DOMAIN message_queue'
               PROVE  LET m == message_queue'[i] IN
                      /\ m.type # "reset"
                      /\ m.type \in Terminals =>
                           /\ m.id \in Tasks /\ jobs'[<<m.id, 0>>] \in {"refused", "done"}
                           /\ m.type # "failed" => jobs'[<<m.id, 0>>] = "done"
                      /\ m.type = "activated" =>
                           m.id \in Tasks /\ jobs'[<<m.id, 0>>] \in {"running", "stopping", "done"}
    BY DEF Reports
  <2>2. CASE i = End
    BY <2>1, <2>2, <1>3, <1>4 DEF Added, Terminals
  <2>3. CASE i \in DOMAIN message_queue /\ message_queue'[i] = message_queue[i]
    BY <1>5, <2>3 DEF PlainInv, PlainParts, Reports
  <2> QED
    BY <1>4, <2>2, <2>3 DEF Added
<1>10. Unconfirmed'
  BY <1>2, <1>6, <1>7 DEF PlainInv, PlainParts, Unconfirmed
<1>11. ConfirmedInTime'
  <2>1. jobs'[<<primitive_in_execution, 0>>] \in {"running", "stopping", "done"} =>
          jobs[<<primitive_in_execution, 0>>] \in {"running", "stopping", "done"}
    BY <1>1
  <2> QED
    BY <1>2, <2>1, PutStillConfirmed
<1>12. Plain' /\ Snapshot'
  BY <1>1, <1>2, <1>3 DEF PlainInv, PlainParts, Plain, Snapshot
<1>13. LiveTaskTracked'
  BY <1>1, <1>2 DEF PlainInv, PlainParts, LiveTaskTracked, Live
<1>14. Turns
  <2>1. (InQueue({"image"}) = {})' <=> InQueue({"image"}) = {}
    BY <1>4 DEF InQueue, Added, Terminals
  <2>2. Acting' <=> Acting
    BY <1>6, <1>7 DEF Acting
  <2> QED
    BY <1>2, <2>1, <2>2 DEF Turns, PlainStage
<1> QED
  BY <1>8, <1>9, <1>10, <1>11, <1>12, <1>13, <1>14 DEF PlainParts

LEMMA RobotStepKeeps == ASSUME PlainInv, RobotStep PROVE PlainParts' /\ Turns
<1>1. RobotNext /\ BrainUnchanged
  BY DEF RobotStep, BrainUnchanged
<1>2. ~AskReset
  BY DEF AskReset, PlainInv, PlainSession, SafeInv, TypeOK, RobotTypeOK, Faults
<1> QED
  BY <1>1, <1>2, SendImageKeeps, StartJobKeeps, RefuseJobKeeps, EndJobKeeps DEF RobotNext

----------------------------------------------------------------------------
(* The main loop: images *)

\* An image in the queue is what keeps the loop turning.
LEMMA ImageTaken ==
  ASSUME PlainInv, Takes("image")
  PROVE  /\ main.at = "idle" /\ grants = 0 /\ 1 \in Turning
         /\ \A j \in Job : jobs[j] # "sent"
         /\ PlainStage = "queued"
<1>1. 1 \in DOMAIN message_queue /\ message_queue[1].type = "image" /\ 1 \in Turning
  BY TakenShape DEF Turning
<1>2. main.at = "idle"
  BY DEF Takes
<1>3. grants = 0 /\ \A j \in Job : jobs[j] # "sent"
  BY <1>1 DEF PlainInv, PlainParts, OneTurn
<1>4. PlainStage = "queued"
  BY <1>1, <1>3 DEF PlainStage, InQueue
<1> QED
  BY <1>1, <1>2, <1>3, <1>4

LEMMA RejectImageKeeps == ASSUME PlainInv, RejectImage PROVE PlainParts' /\ Turns
<1>1. /\ Takes("image") /\ jobs' = jobs /\ UNCHANGED stateVars /\ grants' = grants + 1
      /\ UNCHANGED <<main, chat, primitive_in_execution, primitive_activation_seen,
                     slow_agent_running, nav>>
  BY DEF RejectImage, stateVars
<1>2. /\ main.at = "idle" /\ grants = 0 /\ 1 \in Turning /\ PlainStage = "queued"
      /\ \A j \in Job : jobs[j] # "sent"
  BY <1>1, ImageTaken
<1>3. Reports' /\ Turning' = {}
  BY <1>1, <1>2, TakenKeeps
<1>4. ConfirmedInTime'
  BY <1>1, TakenStillConfirmed
<1>5. OneTurn'
  BY <1>1, <1>2, <1>3 DEF OneTurn, OneUnacknowledgedTask
<1>6. Unconfirmed'
  BY <1>1, <1>2, <1>3 DEF Unconfirmed
<1>7. Plain' /\ Snapshot' /\ LiveTaskTracked'
  BY <1>1 DEF PlainInv, PlainParts, Plain, Snapshot, LiveTaskTracked, Live
<1>8. Turns
  <2>1. PlainStage' = "granted"
    BY <1>1, <1>2 DEF PlainStage
  <2> QED
    BY <1>2, <2>1 DEF Turns, P!Next, P!RejectImage, P!Move
<1> QED
  BY <1>3, <1>4, <1>5, <1>6, <1>7, <1>8 DEF PlainParts

LEMMA StartVisionKeeps == ASSUME PlainInv, StartVision PROVE PlainParts' /\ Turns
<1>1. /\ Takes("image") /\ jobs' = jobs /\ UNCHANGED stateVars /\ grants' = grants
      /\ main' = [at |-> "vlm", held |-> primitive_in_execution, id |-> NoTask]
      /\ UNCHANGED <<chat, primitive_in_execution, primitive_activation_seen,
                     slow_agent_running, nav>>
  BY DEF StartVision, stateVars
<1>2. /\ main.at = "idle" /\ grants = 0 /\ 1 \in Turning /\ PlainStage = "queued"
      /\ \A j \in Job : jobs[j] # "sent"
  BY <1>1, ImageTaken
<1>3. Reports' /\ Turning' = {}
  BY <1>1, <1>2, TakenKeeps
<1>4. ConfirmedInTime'
  BY <1>1, TakenStillConfirmed
<1>5. OneTurn'
  BY <1>1, <1>2, <1>3 DEF OneTurn, OneUnacknowledgedTask
<1>6. Unconfirmed'
  BY <1>1, <1>2, <1>3 DEF Unconfirmed
<1>7. Plain' /\ Snapshot' /\ LiveTaskTracked'
  BY <1>1 DEF PlainInv, PlainParts, Plain, Snapshot, LiveTaskTracked, Live
<1>8. Turns
  <2>1. InQueue({"image"})' = {}
    BY <1>3 DEF InQueue, Turning
  <2>2. PlainStage' = "thinking"
    BY <1>1, <1>2, <2>1 DEF PlainStage
  <2> QED
    BY <1>2, <2>2 DEF Turns, P!Next, P!Think, P!Move
<1> QED
  BY <1>3, <1>4, <1>5, <1>6, <1>7, <1>8 DEF PlainParts

\* An answer of the vision model that tracks a fresh task, or none, and sends it
\* or nothing; a task that is tracked replaces none that is live.
LEMMA PlainOutput ==
  ASSUME PlainInv, main.at = "vlm", main' = Idle, nav' = nav,
         UNCHANGED <<message_queue, slow_agent_running>>,
         NEW stop \in BOOLEAN, NEW kept \in TaskOrNone, NEW sent \in SUBSET {<<kept, 0>>},
         SendVisionOutput(stop, sent, kept),
         kept = NoTask => sent = {},
         kept # NoTask => kept \in FreshTasks /\ (stop \/ primitive_in_execution = NoTask)
  PROVE  PlainParts' /\ Turns
<1>1. /\ grants = 0 /\ Turning = {} /\ (\A j \in Job : jobs[j] # "sent")
      /\ InQueue({"image"}) = {} /\ PlainStage = "thinking"
  <2>1. grants = 0 /\ Turning = {} /\ (\A j \in Job : jobs[j] # "sent")
    BY DEF PlainInv, PlainParts, OneTurn
  <2>2. InQueue({"image"}) = {}
    BY <2>1 DEF InQueue, Turning
  <2> QED
    BY <2>1, <2>2 DEF PlainStage
<1>2. /\ grants' = (IF sent = {} THEN grants + 1 ELSE grants)
      /\ jobs' = AfterOutput(stop, sent) /\ Remember(kept)
  BY DEF SendVisionOutput
<1>3. /\ kept = NoTask => UNCHANGED <<primitive_in_execution, primitive_activation_seen>>
      /\ kept # NoTask => primitive_in_execution' = kept /\ primitive_activation_seen' = FALSE
  BY <1>2 DEF Remember, stateVars
<1>4. \A j \in Job :
        /\ j \in sent => jobs'[j] = "sent"
        /\ j \notin sent /\ stop /\ jobs[j] = "running" => jobs'[j] = "stopping"
        /\ j \notin sent /\ ~(stop /\ jobs[j] = "running") => jobs'[j] = jobs[j]
  BY <1>2 DEF AfterOutput
<1>5. kept # NoTask => kept \in Tasks /\ <<kept, 0>> \in Job /\ jobs[<<kept, 0>>] = "none"
  BY FreshJobs, MaxIterationsAssumption DEF PlainInv, SafeInv, FreshTasks, Job
<1>6. \A i \in DOMAIN message_queue :
        message_queue[i].type \in {"activated"} \cup Terminals =>
          LET j == <<message_queue[i].id, 0>>
          IN  /\ j \in Job /\ j \notin sent
              /\ jobs[j] \in {"refused", "done"} => jobs'[j] = jobs[j]
              /\ jobs[j] \in {"running", "stopping", "done"} => jobs'[j] \in {"running", "stopping", "done"}
  <2> SUFFICES ASSUME NEW i \in DOMAIN message_queue,
                      message_queue[i].type \in {"activated"} \cup Terminals
               PROVE  LET j == <<message_queue[i].id, 0>>
                      IN  /\ j \in Job /\ j \notin sent
                          /\ jobs[j] \in {"refused", "done"} => jobs'[j] = jobs[j]
                          /\ jobs[j] \in {"running", "stopping", "done"} =>
                               jobs'[j] \in {"running", "stopping", "done"}
    OBVIOUS
  <2> DEFINE j == <<message_queue[i].id, 0>>
  <2>1. message_queue[i].id \in Tasks /\ jobs[j] \in {"running", "stopping", "done", "refused"}
    BY DEF PlainInv, PlainParts, Reports
  <2>2. j \in Job
    BY <2>1, MaxIterationsAssumption DEF Job
  <2>3. j \notin sent
    BY <1>5, <2>1
  <2> QED
    BY <1>4, <2>1, <2>2, <2>3
<1>7. Reports'
  BY <1>6 DEF PlainInv, PlainParts, Reports
<1>8. Turning' = {}
  BY <1>1, <1>6 DEF Turning, Terminals, PlainInv, PlainParts, Reports
<1>9. \A j \in Job : jobs'[j] = "sent" => j \in sent
  BY <1>1, <1>4
<1>10. OneTurn'
  BY <1>1, <1>2, <1>8, <1>9 DEF OneTurn, OneUnacknowledgedTask, Idle
<1>11. Unconfirmed'
  BY <1>3, <1>8, <1>9 DEF Unconfirmed
<1>12. Plain' /\ Snapshot'
  BY <1>4 DEF PlainInv, PlainParts, Plain, Snapshot, Idle
<1>13. LiveTaskTracked'
  <2> SUFFICES ASSUME NEW j \in Job, jobs'[j] \in {"sent", "running"}
               PROVE  j[1] = primitive_in_execution'
    BY DEF LiveTaskTracked, Live
  <2>1. CASE j \in sent
    BY <1>3, <2>1
  <2>2. CASE j \notin sent
    <3>1. jobs[j] = "running" /\ ~stop
      BY <1>1, <1>4, <2>2
    <3>2. j[1] = primitive_in_execution /\ j[1] # NoTask
      BY <3>1, NoTaskAssumption DEF PlainInv, PlainParts, LiveTaskTracked, Live, Job
    <3> QED
      BY <1>3, <3>1, <3>2
  <2> QED
    BY <2>1, <2>2
<1>14. ConfirmedInTime'
  <2>1. CASE kept # NoTask
    <3>1. jobs'[<<kept, 0>>] \in {"none", "sent"}
      BY <1>4, <1>5, <2>1
    <3> QED
      BY <1>3, <2>1, <3>1 DEF ConfirmedInTime
  <2>2. CASE kept = NoTask
    <3> SUFFICES ASSUME primitive_in_execution # NoTask, ~primitive_activation_seen,
                        jobs'[<<primitive_in_execution, 0>>] \in {"running", "stopping", "done"}
                 PROVE  ConfirmedInTime'
      BY <1>3, <2>2 DEF ConfirmedInTime
    <3>1. <<primitive_in_execution, 0>> \in Job
      BY MaxIterationsAssumption DEF PlainInv, SafeInv, TypeOK, TaskOrNone, Job
    <3>2. jobs[<<primitive_in_execution, 0>>] \in {"running", "stopping", "done"}
      BY <1>4, <2>2, <3>1
    <3> QED
      BY <1>3, <2>2, <3>2 DEF PlainInv, PlainParts, ConfirmedInTime
  <2> QED
    BY <2>1, <2>2
<1>15. Turns
  <2>1. CASE sent = {}
    <3>1. PlainStage' = "granted"
      BY <1>1, <1>2, <2>1 DEF PlainStage
    <3> QED
      BY <1>1, <3>1 DEF Turns, P!Next, P!Observe, P!Move
  <2>2. CASE sent # {}
    <3>1. InQueue({"image"})' = {}
      BY <1>1 DEF InQueue
    <3>2. \E j \in Job : jobs'[j] = "sent"
      BY <1>4, <1>5, <2>2
    <3>3. PlainStage' = "awaiting"
      BY <1>1, <1>2, <2>2, <3>1, <3>2 DEF PlainStage, Acting, Idle
    <3> QED
      BY <1>1, <3>3 DEF Turns, P!Next, P!Command, P!Move
  <2> QED
    BY <2>1, <2>2
<1> QED
  BY <1>7, <1>10, <1>11, <1>12, <1>13, <1>14, <1>15 DEF PlainParts

\* How a task may leave the conversion in a plain session.
PlainShape(o, stop, t) ==
  /\ o.nav = nav /\ o.kept \in {t, NoTask} /\ o.stop \in BOOLEAN
  /\ o.sent = {} \/ (o.sent = {<<t, 0>>} /\ o.kept = t)
  /\ stop => o.stop

LEMMA PlainConversion ==
  ASSUME PlainSession, NEW kind \in Kinds, NEW stop \in BOOLEAN, NEW t \in Tasks,
         NEW o \in Conversions(kind, stop, t)
  PROVE  PlainShape(o, stop, t)
<1>1. kind \in {"remote", "turn", "in_sight", "memory", "check"}
  BY KindsAssumption DEF PlainSession
<1>2. PlainShape(Converted(stop, t), stop, t)
  BY DEF PlainShape, Converted, Outcome
<1>3. PlainShape(Canceled(stop), stop, t) /\ PlainShape(Canceled(TRUE), stop, t)
  BY DEF PlainShape, Canceled, Outcome
<1>4. PlainShape(Phantom(TRUE, t), stop, t)
  BY DEF PlainShape, Phantom, Outcome
<1>5. o \in {Converted(stop, t), Canceled(stop), Canceled(TRUE), Phantom(TRUE, t)}
  <2>1. CASE kind \in {"remote", "turn"}
    BY <2>1 DEF Conversions
  <2>2. CASE kind = "in_sight"
    BY <2>2 DEF Conversions, InSightOutcomes
  <2>3. CASE kind = "memory"
    BY <2>3 DEF Conversions
  <2>4. CASE kind = "check"
    BY <2>4 DEF Conversions
  <2> QED
    BY <1>1, <2>1, <2>2, <2>3, <2>4
<1> QED
  BY <1>2, <1>3, <1>4, <1>5

LEMMA FinishVisionKeeps == ASSUME PlainInv, FinishVision PROVE PlainParts' /\ Turns
<1>1. /\ main.at = "vlm" /\ main' = Idle /\ UNCHANGED <<message_queue, slow_agent_running>>
      /\ main.held = primitive_in_execution
  BY DEF FinishVision, PlainInv, PlainParts, Snapshot
<1>2. CASE AnswerWithoutTask
  <2>1. PICK stop \in BOOLEAN : SendVisionOutput(stop, {}, NoTask)
    BY <1>2 DEF AnswerWithoutTask
  <2>2. nav' = nav /\ NoTask \in TaskOrNone /\ {} \in SUBSET {<<NoTask, 0>>}
    BY <1>2 DEF AnswerWithoutTask, TaskOrNone
  <2> QED
    BY <1>1, <2>1, <2>2, PlainOutput
<1>3. CASE AnswerWithTask(main.held)
  <2>1. PICK stop \in BOOLEAN, t \in FreshTasks, kind \in Kinds :
          /\ AllowsTask(stop, main.held)
          /\ \E o \in Conversions(kind, stop, t) :
               SendVisionOutput(o.stop, o.sent, o.kept) /\ nav' = o.nav
    BY <1>3 DEF AnswerWithTask
  <2>2. PICK o \in Conversions(kind, stop, t) :
          SendVisionOutput(o.stop, o.sent, o.kept) /\ nav' = o.nav
    BY <2>1
  <2>3. t \in Tasks /\ t # NoTask
    BY NoTaskAssumption DEF FreshTasks
  <2>4. /\ o.nav = nav /\ o.kept \in {t, NoTask} /\ o.stop \in BOOLEAN
        /\ o.sent = {} \/ (o.sent = {<<t, 0>>} /\ o.kept = t)
        /\ stop => o.stop
    BY <2>3, PlainConversion DEF PlainInv, PlainShape
  <2>5. stop \/ primitive_in_execution = NoTask
    BY <1>1, <2>1 DEF AllowsTask
  <2>6. o.kept \in TaskOrNone /\ o.sent \in SUBSET {<<o.kept, 0>>}
    BY <2>3, <2>4 DEF TaskOrNone
  <2>7. /\ o.kept = NoTask => o.sent = {}
        /\ o.kept # NoTask => o.kept \in FreshTasks /\ (o.stop \/ primitive_in_execution = NoTask)
    BY <2>3, <2>4, <2>5
  <2> QED
    BY <1>1, <2>2, <2>4, <2>6, <2>7, PlainOutput
<1> QED
  BY <1>2, <1>3 DEF FinishVision

LEMMA RaiseImageKeeps == ASSUME PlainInv, RaiseImage PROVE PlainParts' /\ Turns
<1>1. /\ Takes("image") /\ jobs' = jobs /\ UNCHANGED stateVars
      /\ UNCHANGED <<grants, main, chat, primitive_in_execution,
                     primitive_activation_seen, slow_agent_running, nav>>
  BY DEF RaiseImage, ImageRaises, stateVars
<1>2. /\ main.at = "idle" /\ grants = 0 /\ 1 \in Turning /\ PlainStage = "queued"
      /\ \A j \in Job : jobs[j] # "sent"
  BY <1>1, ImageTaken
<1>3. Reports' /\ Turning' = {}
  BY <1>1, <1>2, TakenKeeps
<1>4. ConfirmedInTime'
  BY <1>1, TakenStillConfirmed
<1>5. OneTurn'
  BY <1>1, <1>2, <1>3 DEF OneTurn, OneUnacknowledgedTask
<1>6. Unconfirmed'
  BY <1>1, <1>2, <1>3 DEF Unconfirmed
<1>7. Plain' /\ Snapshot' /\ LiveTaskTracked'
  BY <1>1 DEF PlainInv, PlainParts, Plain, Snapshot, LiveTaskTracked, Live
<1>8. Turns
  <2>1. InQueue({"image"})' = {}
    BY <1>3 DEF InQueue, Turning
  <2>2. PlainStage' = "broken"
    BY <1>1, <1>2, <1>3, <2>1 DEF PlainStage, Acting
  <2> QED
    BY <1>2, <2>2 DEF Turns, P!Next, P!Break
<1> QED
  BY <1>3, <1>4, <1>5, <1>6, <1>7, <1>8 DEF PlainParts

LEMMA RaiseVisionKeeps == ASSUME PlainInv, RaiseVision PROVE PlainParts' /\ Turns
<1>1. /\ main.at = "vlm" /\ main'.at = "idle"
      /\ UNCHANGED <<grants, jobs, message_queue, primitive_in_execution,
                     primitive_activation_seen, slow_agent_running, nav>>
  BY DEF RaiseVision, ImageRaises, ConversionRaises, Idle, stateVars, PlainInv, PlainSession
<1>2. Turning' = Turning /\ InQueue({"image"})' = InQueue({"image"})
  BY <1>1 DEF Turning, InQueue
<1>3. grants = 0 /\ Turning = {} /\ \A j \in Job : jobs[j] # "sent"
  BY <1>1 DEF PlainInv, PlainParts, OneTurn
<1>4. OneTurn'
  BY <1>1, <1>2, <1>3 DEF OneTurn, OneUnacknowledgedTask
<1>5. Plain' /\ Reports' /\ Snapshot' /\ LiveTaskTracked'
  BY <1>1 DEF PlainInv, PlainParts, Plain, Reports, Snapshot, LiveTaskTracked, Live
<1>6. Unconfirmed'
  BY <1>1, <1>2, <1>3 DEF Unconfirmed
<1>7. ConfirmedInTime'
  BY <1>1 DEF PlainInv, PlainParts, ConfirmedInTime
<1>8. Turns
  <2>1. InQueue({"image"}) = {}
    BY <1>3 DEF InQueue, Turning
  <2>2. PlainStage = "thinking" /\ PlainStage' = "broken"
    BY <1>1, <1>2, <1>3, <2>1 DEF PlainStage, Acting
  <2> QED
    BY <2>2 DEF Turns, P!Next, P!Break
<1> QED
  BY <1>4, <1>5, <1>6, <1>7, <1>8 DEF PlainParts

----------------------------------------------------------------------------
(* The main loop: reports *)

\* The queue's images are those behind a report that was taken.
LEMMA ReportTaken ==
  ASSUME PlainInv, NEW type, type # "image", Takes(type)
  PROVE  (InQueue({"image"}) = {})' <=> InQueue({"image"}) = {}
<1>1. \A i \in InQueue({"image"}) : i - 1 \in InQueue({"image"})'
  BY TakenShape DEF InQueue
<1>2. \A i \in InQueue({"image"})' : i + 1 \in InQueue({"image"})
  BY TakenShape DEF InQueue
<1> QED
  BY <1>1, <1>2

\* The end of a task, other than a refusal, is only seen once it is confirmed.
LEMMA EndSeenConfirmed ==
  ASSUME PlainInv, NEW type \in Terminals, Takes(type), 1 \notin Turning,
         message_queue[1].id = primitive_in_execution
  PROVE  primitive_activation_seen /\ (\A j \in Job : ~Live(j))
<1>1. message_queue[1].type = type /\ main.at = "idle" /\ 1 \in DOMAIN message_queue
  BY TakenShape DEF Takes
<1>2. jobs[<<primitive_in_execution, 0>>] = "done" /\ primitive_in_execution \in Tasks
  BY <1>1 DEF PlainInv, PlainParts, Reports, Turning
<1>3. primitive_activation_seen
  <2> SUFFICES ASSUME ~primitive_activation_seen PROVE FALSE
    OBVIOUS
  <2>1. primitive_in_execution # NoTask
    BY <1>2, NoTaskAssumption
  <2>2. PICK k \in DOMAIN message_queue :
          \A i \in 1..k : message_queue[i].type \in Terminals =>
            message_queue[i].id # primitive_in_execution
    BY <1>1, <1>2, <2>1 DEF PlainInv, PlainParts, ConfirmedInTime
  <2>3. 1 \in 1..k
    BY QueueType
  <2> QED
    BY <1>1, <2>2, <2>3
<1>4. \A j \in Job : ~Live(j)
  <2> SUFFICES ASSUME NEW j \in Job, Live(j) PROVE FALSE
    OBVIOUS
  <2>1. j = <<primitive_in_execution, 0>>
    BY DEF PlainInv, PlainParts, LiveTaskTracked, Live, Plain, Job
  <2> QED
    BY <1>2, <2>1 DEF Live
<1> QED
  BY <1>3, <1>4

LEMMA HandleTerminalKeeps ==
  ASSUME PlainInv, NEW type \in Terminals, HandleTerminal(type)
  PROVE  PlainParts' /\ Turns
<1> DEFINE cleared == Resolves(primitive_in_execution, message_queue[1].id)
<1>1. /\ Takes(type) /\ type # "image" /\ type # "activated"
      /\ Head(message_queue) = message_queue[1] /\ message_queue[1].type = type
      /\ 1 \in DOMAIN message_queue /\ main.at = "idle" /\ jobs' = jobs
  BY TakenShape DEF HandleTerminal, Takes, Terminals
<1>2. /\ primitive_in_execution' = IF cleared THEN NoTask ELSE primitive_in_execution
      /\ primitive_activation_seen' = (primitive_activation_seen /\ ~cleared)
      /\ grants' = IF cleared /\ Rearms THEN grants + 1 ELSE grants
      /\ UNCHANGED <<chat, slow_agent_running>>
      /\ main' \in {[Idle EXCEPT !.at = "terminal"], main}
      /\ nav' \in {nav, Deactivated}
  BY <1>1 DEF HandleTerminal
<1>3. main'.at \notin {"vlm", "activated"} /\ ~nav'.active
  <2>1. nav \in NavState /\ ~nav.active
    BY DEF PlainInv, PlainParts, Plain, SafeInv, TypeOK
  <2> QED
    BY <1>1, <1>2, <2>1 DEF Idle, Deactivated, NavState
<1>4. /\ Reports' /\ (1 \in Turning => Turning' = {})
      /\ 1 \notin Turning => (Turning' = {} <=> Turning = {})
      /\ \A i \in Turning' : i + 1 \in Turning /\ message_queue'[i] = message_queue[i + 1]
      /\ \A i, k \in Turning' : i = k
  BY <1>1, TakenKeeps
<1>5. message_queue[1].id \in Tasks /\ message_queue[1].id # NoTask
  BY <1>1, NoTaskAssumption DEF PlainInv, PlainParts, Reports
<1>6. Snapshot' /\ Plain'
  BY <1>1, <1>2, <1>3 DEF PlainInv, PlainParts, Plain, Snapshot
<1>7. (InQueue({"image"}) = {})' <=> InQueue({"image"}) = {}
  BY <1>1, ReportTaken
<1>8. CASE 1 \in Turning
  <2>1. /\ type = "failed" /\ message_queue[1].id = primitive_in_execution
        /\ ~primitive_activation_seen /\ jobs[<<primitive_in_execution, 0>>] = "refused"
    BY <1>1, <1>8 DEF Turning, Terminals, PlainInv, PlainParts, Unconfirmed
  <2>2. cleared /\ Rearms
    BY <1>5, <2>1 DEF Resolves, Rearms
  <2>3. grants = 0 /\ grants' = 1 /\ \A j \in Job : jobs[j] # "sent"
    BY <1>2, <1>8, <2>2 DEF PlainInv, PlainParts, OneTurn
  <2>4. primitive_in_execution' = NoTask /\ ~primitive_activation_seen'
    BY <1>2, <2>2, Zenon
  <2>5. \A j \in Job : ~Live(j)
    <3> SUFFICES ASSUME NEW j \in Job, Live(j) PROVE FALSE
      OBVIOUS
    <3>1. j = <<primitive_in_execution, 0>>
      BY DEF PlainInv, PlainParts, LiveTaskTracked, Live, Plain, Job
    <3> QED
      BY <2>1, <3>1 DEF Live
  <2>6. OneTurn'
    BY <1>1, <1>3, <1>4, <1>8, <2>3 DEF OneTurn, OneUnacknowledgedTask
  <2>7. Unconfirmed'
    BY <1>1, <1>4, <1>8, <2>3 DEF Unconfirmed
  <2>8. LiveTaskTracked' /\ ConfirmedInTime'
    BY <1>1, <2>4, <2>5 DEF LiveTaskTracked, Live, ConfirmedInTime
  <2>9. Turns
    <3>1. InQueue({"image"}) = {}
      BY <1>1, <1>8, <2>1 DEF InQueue, Turning, PlainInv, PlainParts, OneTurn
    <3>2. PlainStage = "awaiting" /\ PlainStage' = "granted"
      BY <1>1, <1>8, <2>3, <3>1 DEF PlainStage, Acting
    <3> QED
      BY <3>2 DEF Turns, P!Next, P!Acknowledge, P!Move
  <2> QED
    BY <1>4, <1>6, <2>6, <2>7, <2>8, <2>9 DEF PlainParts
<1>9. CASE 1 \notin Turning /\ cleared
  <2>1. message_queue[1].id = primitive_in_execution
    BY <1>9 DEF Resolves
  <2>2. primitive_activation_seen /\ (\A j \in Job : ~Live(j))
    BY <1>1, <1>9, <2>1, EndSeenConfirmed
  <2>3. grants' = grants /\ \A j \in Job : jobs[j] # "sent"
    BY <1>2, <2>2 DEF Rearms, Live
  <2>4. primitive_in_execution' = NoTask
    BY <1>2, <1>9
  <2>5. OneTurn'
    BY <1>1, <1>3, <1>4, <2>3 DEF OneTurn, OneUnacknowledgedTask, PlainInv, PlainParts
  <2>6. Unconfirmed'
    <3>1. \A i \in Turning : message_queue[i].type # "failed"
      BY <2>2 DEF PlainInv, PlainParts, Unconfirmed
    <3> QED
      BY <1>1, <1>4, <2>3, <3>1 DEF Unconfirmed
  <2>7. LiveTaskTracked' /\ ConfirmedInTime'
    BY <1>1, <2>2, <2>4 DEF LiveTaskTracked, Live, ConfirmedInTime
  <2>8. Turns
    BY <1>1, <1>3, <1>4, <1>7, <1>9, <2>3 DEF Turns, PlainStage, Acting
  <2> QED
    BY <1>4, <1>6, <2>5, <2>6, <2>7, <2>8 DEF PlainParts
<1>10. CASE 1 \notin Turning /\ ~cleared
  <2>1. grants' = grants /\ primitive_in_execution' = primitive_in_execution
    BY <1>2, <1>10
  <2>2. primitive_activation_seen' = primitive_activation_seen
    <3>1. primitive_activation_seen \in BOOLEAN
      BY DEF PlainInv, SafeInv, TypeOK
    <3> QED
      BY <1>2, <1>10, <3>1
  <2>3. OneTurn'
    BY <1>1, <1>3, <1>4, <2>1 DEF OneTurn, OneUnacknowledgedTask, PlainInv, PlainParts
  <2>4. Unconfirmed'
    BY <1>1, <1>4, <2>1, <2>2 DEF Unconfirmed, PlainInv, PlainParts
  <2>5. LiveTaskTracked'
    BY <1>1, <2>1 DEF LiveTaskTracked, Live, PlainInv, PlainParts
  <2>6. ConfirmedInTime'
    <3>1. UNCHANGED stateVars
      BY <2>1, <2>2 DEF stateVars
    <3> QED
      BY <1>1, <3>1, TakenStillConfirmed
  <2>7. Turns
    BY <1>1, <1>3, <1>4, <1>7, <1>10, <2>1 DEF Turns, PlainStage, Acting
  <2> QED
    BY <1>4, <1>6, <2>3, <2>4, <2>5, <2>6, <2>7 DEF PlainParts
<1> QED
  BY <1>8, <1>9, <1>10

LEMMA FinishTerminalKeeps == ASSUME PlainInv, FinishTerminal PROVE PlainParts' /\ Turns
<1>1. /\ main.at = "terminal" /\ main'.at = "idle"
      /\ UNCHANGED <<grants, jobs, message_queue, primitive_in_execution,
                     primitive_activation_seen, slow_agent_running>>
  BY DEF FinishTerminal, Idle, robotVars, stateVars
<1>2. ~nav'.active
  BY DEF FinishTerminal, Deactivated, PlainInv, SafeInv, TypeOK, NavState
<1>3. Turning' = Turning /\ InQueue({"image"})' = InQueue({"image"})
  BY <1>1 DEF Turning, InQueue
<1>4. OneTurn'
  BY <1>1, <1>3 DEF PlainInv, PlainParts, OneTurn, OneUnacknowledgedTask
<1>5. Plain' /\ Snapshot' /\ LiveTaskTracked'
  BY <1>1, <1>2 DEF PlainInv, PlainParts, Plain, Snapshot, LiveTaskTracked, Live
<1>6. Reports'
  BY <1>1 DEF PlainInv, PlainParts, Reports
<1>7. Unconfirmed'
  BY <1>1, <1>3 DEF PlainInv, PlainParts, Unconfirmed
<1>8. ConfirmedInTime'
  BY <1>1 DEF PlainInv, PlainParts, ConfirmedInTime
<1>9. Turns
  BY <1>1, <1>3 DEF Turns, PlainStage, Acting
<1> QED
  BY <1>4, <1>5, <1>6, <1>7, <1>8, <1>9 DEF PlainParts

LEMMA HandleActivatedKeeps == ASSUME PlainInv, HandleActivated PROVE PlainParts' /\ Turns
<1>1. /\ Takes("activated") /\ jobs' = jobs /\ grants' = grants + 1
      /\ main' = [at |-> "activated", held |-> primitive_in_execution, id |-> message_queue[1].id]
      /\ UNCHANGED <<primitive_in_execution, primitive_activation_seen,
                     slow_agent_running, nav>>
  BY TakenShape DEF HandleActivated, stateVars
<1>2. /\ main.at = "idle" /\ 1 \in DOMAIN message_queue
      /\ message_queue[1].type = "activated" /\ 1 \in Turning
  BY <1>1, TakenShape DEF Takes, Turning
<1>3. /\ grants = 0 /\ (\A j \in Job : jobs[j] # "sent")
      /\ \A i \in Turning : i = 1
  BY <1>2 DEF PlainInv, PlainParts, OneTurn
<1>4. Reports' /\ Turning' = {}
  BY <1>1, <1>2, TakenKeeps
<1>5. OneTurn'
  BY <1>1, <1>3, <1>4 DEF OneTurn, OneUnacknowledgedTask
<1>6. Unconfirmed'
  BY <1>1, <1>3, <1>4 DEF Unconfirmed
<1>7. Plain' /\ Snapshot' /\ LiveTaskTracked'
  BY <1>1 DEF PlainInv, PlainParts, Plain, Snapshot, LiveTaskTracked, Live
<1>8. ConfirmedInTime'
  <2> SUFFICES ASSUME primitive_in_execution # NoTask, ~primitive_activation_seen,
                      jobs[<<primitive_in_execution, 0>>] \in {"running", "stopping", "done"},
                      message_queue[1].id # primitive_in_execution
               PROVE  FALSE
    BY <1>1 DEF ConfirmedInTime
  <2>1. PICK k \in DOMAIN message_queue :
          message_queue[k].type = "activated" /\ message_queue[k].id = primitive_in_execution
    BY <1>2 DEF PlainInv, PlainParts, ConfirmedInTime
  <2>2. k \in Turning
    BY <2>1 DEF Turning
  <2> QED
    BY <1>3, <2>1, <2>2
<1>9. Turns
  <2>1. InQueue({"image"}) = {}
    BY <1>2, <1>3 DEF InQueue, Turning
  <2>2. PlainStage = "awaiting" /\ PlainStage' = "granted"
    BY <1>1, <1>2, <1>3, <2>1 DEF PlainStage, Acting
  <2> QED
    BY <2>2 DEF Turns, P!Next, P!Acknowledge, P!Move
<1> QED
  BY <1>4, <1>5, <1>6, <1>7, <1>8, <1>9 DEF PlainParts

LEMMA FinishActivatedKeeps == ASSUME PlainInv, FinishActivated PROVE PlainParts' /\ Turns
<1>1. /\ main.at = "activated" /\ main'.at = "idle" /\ main.held = primitive_in_execution
      /\ primitive_in_execution' = primitive_in_execution
      /\ primitive_activation_seen' =
           (Confirms(primitive_in_execution, main.id) \/ primitive_activation_seen)
      /\ UNCHANGED <<grants, jobs, message_queue, slow_agent_running, nav>>
  BY DEF FinishActivated, Idle, robotVars, PlainInv, PlainParts, Snapshot
<1>2. Turning' = Turning /\ InQueue({"image"})' = InQueue({"image"})
  BY <1>1 DEF Turning, InQueue
<1>3. \A j \in Job : jobs[j] # "sent"
  BY <1>1 DEF PlainInv, PlainParts, OneTurn
<1>4. jobs[<<main.id, 0>>] \in {"running", "stopping", "done"}
  <2>1. PICK h \in 0 .. MaxIterations : jobs[<<main.id, h>>] \in {"running", "stopping", "done"}
    BY <1>1 DEF PlainInv, SafeInv, HandledStarted, Started
  <2>2. <<main.id, h>> \in Job
    BY <1>1 DEF PlainInv, SafeInv, HandledStarted, Job
  <2>3. h = 0
    BY <2>1, <2>2 DEF PlainInv, PlainParts, Plain
  <2> QED
    BY <2>1, <2>3
<1>5. OneTurn'
  BY <1>1, <1>2 DEF PlainInv, PlainParts, OneTurn, OneUnacknowledgedTask
<1>6. Unconfirmed'
  <2>1. \A i \in Turning : message_queue[i].type = "failed" =>
          message_queue[i].id = primitive_in_execution /\ main.id # primitive_in_execution
                                                       /\ ~primitive_activation_seen
    BY <1>4 DEF PlainInv, PlainParts, Unconfirmed, Turning
  <2> QED
    BY <1>1, <1>2, <1>3, <2>1 DEF Unconfirmed, Confirms
<1>7. ConfirmedInTime'
  <2> SUFFICES ASSUME primitive_in_execution # NoTask, ~primitive_activation_seen',
                      jobs[<<primitive_in_execution, 0>>] \in {"running", "stopping", "done"}
               PROVE  \E k \in DOMAIN message_queue :
                        /\ message_queue[k].type = "activated"
                        /\ message_queue[k].id = primitive_in_execution
                        /\ \A i \in 1..k : message_queue[i].type \in Terminals =>
                             message_queue[i].id # primitive_in_execution
    BY <1>1 DEF ConfirmedInTime
  <2>1. main.id # primitive_in_execution /\ ~primitive_activation_seen
    BY <1>1 DEF Confirms
  <2> QED
    BY <2>1 DEF PlainInv, PlainParts, ConfirmedInTime
<1>8. Reports' /\ Plain' /\ Snapshot' /\ LiveTaskTracked'
  BY <1>1 DEF PlainInv, PlainParts, Reports, Plain, Snapshot, LiveTaskTracked, Live
<1>9. Turns
  BY <1>1, <1>2 DEF Turns, PlainStage, Acting
<1> QED
  BY <1>5, <1>6, <1>7, <1>8, <1>9 DEF PlainParts

\* There is no reset in the queue, no chat at work and no navigation on its way.
LEMMA NeverTaken ==
  ASSUME PlainInv
  PROVE  ~HandleReset /\ ~SkipImage /\ ~Hop /\ ~EndHops /\ ~RaiseHop
<1>1. ~HandleReset
  <2> SUFFICES ASSUME Takes("reset") PROVE FALSE
    BY DEF HandleReset
  <2> QED
    BY TakenShape DEF PlainInv, PlainParts, Reports
<1> QED
  BY <1>1 DEF SkipImage, Hop, EndHops, RaiseHop, PlainInv, PlainParts, Plain

LEMMA MainStepKeeps == ASSUME PlainInv, MainNext PROVE PlainParts' /\ Turns
  BY NeverTaken, RejectImageKeeps, StartVisionKeeps, FinishVisionKeeps, HandleTerminalKeeps,
     FinishTerminalKeeps, HandleActivatedKeeps, FinishActivatedKeeps, RaiseImageKeeps,
     RaiseVisionKeeps DEF MainNext

----------------------------------------------------------------------------
(* The invariant *)

LEMMA PlainInit == PlainSession /\ Init => PlainInv /\ Loop!Init
<1> SUFFICES ASSUME PlainSession, Init PROVE PlainInv /\ Loop!Init
  OBVIOUS
<1> USE DEF Init, RobotInit
<1>1. Turning = {} /\ DOMAIN message_queue = {}
  BY DEF Turning
<1>2. OneTurn
  BY <1>1 DEF OneTurn, OneUnacknowledgedTask, Idle
<1>3. Plain /\ Reports /\ Unconfirmed /\ LiveTaskTracked
  BY <1>1 DEF Plain, Reports, Unconfirmed, LiveTaskTracked, Live
<1>4. Snapshot /\ ConfirmedInTime
  BY DEF Snapshot, ConfirmedInTime, Idle
<1>5. Loop!Init
  BY DEF Loop!Init, LoopStage
<1> QED
  BY <1>2, <1>3, <1>4, <1>5, SafeInit, LoopInit DEF PlainInv, PlainParts

LEMMA StutterKeeps == ASSUME PlainInv, UNCHANGED vars PROVE PlainParts' /\ Turns
<1>1. UNCHANGED <<grants, jobs, message_queue, main, primitive_in_execution,
                  primitive_activation_seen, slow_agent_running, nav>>
  BY DEF vars, robotVars, stateVars
<1>2. Turning' = Turning /\ PlainStage' = PlainStage
  <2>1. Turning' = Turning /\ InQueue({"image"})' = InQueue({"image"})
    BY <1>1 DEF Turning, InQueue
  <2> QED
    BY <1>1, <2>1 DEF PlainStage, Acting
<1>3. OneTurn' /\ Unconfirmed'
  BY <1>1, <1>2 DEF PlainInv, PlainParts, OneTurn, OneUnacknowledgedTask, Unconfirmed
<1>4. Plain' /\ Reports' /\ Snapshot' /\ ConfirmedInTime' /\ LiveTaskTracked'
  BY <1>1 DEF PlainInv, PlainParts, Plain, Reports, Snapshot, ConfirmedInTime,
              LiveTaskTracked, Live
<1> QED
  BY <1>2, <1>3, <1>4 DEF PlainParts, Turns

\* A resting loop is alive just if there is something it waits for.
LEMMA StageIsPlain == PlainInv => LoopStage = PlainStage
<1> SUFFICES ASSUME PlainInv PROVE LoopStage = PlainStage
  OBVIOUS
<1>0. grants \in {0, 1}
  BY DEF PlainInv, PlainParts, OneTurn
<1> SUFFICES ASSUME grants = 0, InQueue({"image"}) = {}, main.at # "vlm"
             PROVE  ImageLoopAlive <=> Acting
  BY <1>0 DEF LoopStage, PlainStage
<1>1. main.at # "activated"
  BY DEF PlainInv, LoopInv, ActivationAsked
<1>2. ASSUME Acting PROVE ImageLoopAlive
  <2>1. ASSUME NEW j \in Job, jobs[j] = "sent" PROVE Awaited
    <3>1. j = <<primitive_in_execution, j[2]>> /\ j[2] \in 0 .. MaxIterations
          /\ primitive_in_execution \in Tasks
      BY <2>1 DEF PlainInv, PlainParts, LiveTaskTracked, Live, Job
    <3>2. ~primitive_activation_seen
      BY <2>1 DEF PlainInv, PlainParts, Unconfirmed
    <3> QED
      BY <2>1, <3>1, <3>2, NoTaskAssumption DEF Awaited
  <2>2. ASSUME NEW i \in Turning, message_queue[i].type = "failed" PROVE Awaited
    <3>1. /\ message_queue[i].id = primitive_in_execution /\ ~primitive_activation_seen
          /\ i \in InQueue(Terminals)
      BY <2>2 DEF PlainInv, PlainParts, Unconfirmed, Turning, InQueue, Terminals
    <3>2. primitive_in_execution # NoTask
      BY <2>2, <3>1, NoTaskAssumption DEF PlainInv, PlainParts, Reports, Turning, Terminals
    <3> QED
      BY <3>1, <3>2 DEF Awaited
  <2>3. ASSUME NEW i \in Turning, message_queue[i].type # "failed" PROVE ImageLoopAlive
    <3>1. i \in InQueue({"image", "reset", "activated"})
      BY <2>3 DEF Turning, InQueue
    <3> QED
      BY <3>1 DEF ImageLoopAlive
  <2> QED
    BY <1>2, <2>1, <2>2, <2>3 DEF Acting, ImageLoopAlive
<1>3. ASSUME ImageLoopAlive PROVE Acting
  <2>1. CASE InQueue({"image", "reset", "activated"}) # {}
    <3>1. PICK i \in DOMAIN message_queue : message_queue[i].type \in {"image", "reset", "activated"}
      BY <2>1 DEF InQueue
    <3>2. message_queue[i].type # "reset"
      BY DEF PlainInv, PlainParts, Reports
    <3> QED
      BY <3>1, <3>2 DEF Acting, Turning
  <2>2. CASE Awaited
    <3>1. primitive_in_execution # NoTask /\ ~primitive_activation_seen
          /\ primitive_in_execution \in Tasks
      BY <2>2 DEF Awaited, PlainInv, SafeInv, TypeOK, TaskOrNone
    <3>2. ASSUME NEW hop \in 0 .. MaxIterations,
                 jobs[<<primitive_in_execution, hop>>] = "sent"
          PROVE  Acting
      <4>1. <<primitive_in_execution, hop>> \in Job
        BY <3>1 DEF Job
      <4> QED
        BY <3>2, <4>1 DEF Acting
    <3>3. ASSUME NEW i \in InQueue(Terminals),
                 message_queue[i].id = primitive_in_execution
          PROVE  Acting
      <4>1. i \in DOMAIN message_queue /\ message_queue[i].type \in Terminals
        BY DEF InQueue
      <4>2. /\ jobs[<<primitive_in_execution, 0>>] \in {"refused", "done"}
            /\ message_queue[i].type # "failed" => jobs[<<primitive_in_execution, 0>>] = "done"
        BY <3>3, <4>1 DEF PlainInv, PlainParts, Reports
      <4>3. CASE jobs[<<primitive_in_execution, 0>>] = "done"
        <5>1. PICK k \in DOMAIN message_queue : message_queue[k].type = "activated"
          BY <1>1, <3>1, <4>3 DEF PlainInv, PlainParts, ConfirmedInTime
        <5> QED
          BY <5>1 DEF Acting, Turning
      <4>4. CASE jobs[<<primitive_in_execution, 0>>] = "refused"
        BY <3>3, <4>1, <4>2, <4>4 DEF Acting, Turning
      <4> QED
        BY <4>2, <4>3, <4>4
    <3> QED
      BY <2>2, <3>2, <3>3 DEF Awaited
  <2>3. ~\E c \in Chats : chat[c].at = "agents"
    BY DEF PlainInv, PlainSession
  <2> QED
    BY <1>3, <2>1, <2>2, <2>3 DEF ImageLoopAlive
<1> QED
  BY <1>2, <1>3

LEMMA PlainStep == PlainInv /\ [Next]_vars => PlainInv' /\ [Loop!Next]_LoopStage
<1> SUFFICES ASSUME PlainInv, [Next]_vars PROVE PlainInv' /\ [Loop!Next]_LoopStage
  OBVIOUS
<1>1. SafeInv' /\ LoopInv'
  BY SafeStep, LoopStep DEF PlainInv
<1>2. PlainParts' /\ Turns
  <2>1. CASE RobotStep
    BY <2>1, RobotStepKeeps
  <2>2. CASE MainNext
    BY <2>2, MainStepKeeps
  <2>3. CASE UNCHANGED vars
    BY <2>3, StutterKeeps
  <2>4. ~\E c \in Chats : ChatNext(c)
    BY DEF PlainInv, PlainSession
  <2> QED
    BY <2>1, <2>2, <2>3, <2>4 DEF Next
<1>3. PlainInv'
  BY <1>1, <1>2 DEF PlainInv, PlainSession
<1>4. LoopStage = PlainStage /\ (LoopStage = PlainStage)'
  BY <1>3, StageIsPlain, PTL
<1>5. [Loop!Next]_LoopStage
  BY <1>2, <1>4
  DEF Turns, P!Next, P!SendImage, P!RejectImage, P!Think, P!Observe, P!Command,
      P!Acknowledge, P!Break, P!Move, Loop!Next, Loop!SendImage, Loop!RejectImage,
      Loop!Think, Loop!Observe, Loop!Command, Loop!Acknowledge, Loop!Break, Loop!Move
<1> QED
  BY <1>3, <1>5

\* PlainInv says: the inductive invariant behind the three theorems below.
THEOREM PlainInvariant == PlainSession /\ Spec => []PlainInv
  BY PlainInit, PlainStep, PTL DEF Spec

\* Without chats, resets and continuous navigation the brain never sends a task
\* while another has been neither started nor refused, however many tasks and
\* unusable images there are: _send_vision_output asks for an image, or sends a task.
THEOREM OneTaskAtATime == PlainSession /\ Spec => []OneUnacknowledgedTask
<1>1. PlainInv => OneUnacknowledgedTask
  BY DEF PlainInv, PlainParts, OneTurn
<1> QED
  BY <1>1, PlainInvariant, PTL

\* In such a session what the robot still has to do, or does unless told to stop,
\* is the primitive_in_execution of the brain.
THEOREM LiveIsTracked == PlainSession /\ Spec => []LiveTaskTracked
<1>1. PlainInv => LiveTaskTracked
  BY DEF PlainInv, PlainParts
<1> QED
  BY <1>1, PlainInvariant, PTL

\* In such a session the brain and its robot implement the image loop: the initial
\* state maps to "granted", and every step of theirs to one of the loop or to none.
\* The loop breaks only where the handling of an image raises.
THEOREM ImplementsLoop == PlainSession /\ Spec => Loop!Spec
  BY PlainInit, PlainStep, PlainInvariant, PTL DEF Spec, Loop!Spec
============================================================================
