---------------------------- MODULE BrainProofs ----------------------------
(***************************************************************************)
(* Proofs about Brain, for any number of tasks and chats, any kinds of     *)
(* primitive, any length of a continuous navigation and any number of      *)
(* resets, unusable images and images whose handling raises: its types,    *)
(* what a raised activation flag means, and that its image loop only       *)
(* stands still where a handler raises.                                    *)
(***************************************************************************)
EXTENDS Brain, TLAPS

----------------------------------------------------------------------------
(* The inductive invariant *)

\* The robot only knows tasks the brain remembers having sent.
JobsKnown == \A j \in Job : jobs[j] # "none" => j[1] \in primitive_ids_map

\* A continuous navigation has a task, has iterations left to count, and has not
\* sent the hops it has not counted yet.
NavAhead ==
  nav.active =>
    /\ nav.id \in Tasks
    /\ nav.count <= MaxIterations
    /\ \A j \in Job : j[1] = nav.id /\ j[2] > nav.count => jobs[j] = "none"

\* An activation on its way is that of a task the robot has started.
ActivationsStarted ==
  \A i \in DOMAIN message_queue : message_queue[i].type = "activated" =>
    message_queue[i].id \in Tasks /\ Started(message_queue[i].id)

\* So is the activation being handled; and while it is, a flag that is up still
\* belongs to the primitive that will be written back.
HandledStarted ==
  main.at = "activated" =>
    /\ main.id \in Tasks /\ Started(main.id)
    /\ primitive_activation_seen => primitive_in_execution = main.held

SafeInv ==
  /\ TypeOK
  /\ JobsKnown
  /\ NavAhead
  /\ ActivationsStarted
  /\ HandledStarted
  /\ ConfirmedMeansStarted

----------------------------------------------------------------------------
(* What an answer of the vision model, or a hop, does *)

\* The facts about the primed state that any vision_agent_output establishes:
\* what it sends was never sent before and is tracked from then on.
Output ==
  \E stop \in BOOLEAN, sent \in SUBSET Job, kept \in TaskOrNone :
    /\ SendVisionOutput(stop, sent, kept)
    /\ sent # {} => kept \in Tasks
    /\ \A j \in sent : jobs[j] = "none" /\ j[1] = kept
    /\ nav' \in NavState
    /\ nav'.active =>
         /\ nav'.id \in Tasks
         /\ nav'.count <= MaxIterations
         /\ \A j \in Job : j[1] = nav'.id /\ j[2] > nav'.count =>
              jobs[j] = "none" /\ j \notin sent

\* A fresh task has no jobs yet.
LEMMA FreshJobs ==
  ASSUME JobsKnown, NEW t \in FreshTasks, NEW j \in Job, j[1] = t
  PROVE  jobs[j] = "none"
BY DEF JobsKnown, FreshTasks

\* Each conversion of a fresh task sends at most its first job, keeps its id when
\* it does, and leaves the continuous navigation alone or starts it afresh.
ConversionShape(o, t) ==
  /\ o.stop \in BOOLEAN
  /\ o.kept \in {t, NoTask}
  /\ \/ o.sent = {} /\ o.nav = nav
     \/ o.sent = {<<t, 0>>} /\ o.kept = t /\ o.nav = nav
     \/ o.sent = {<<t, 1>>} /\ o.kept = t /\ o.nav = Walking(t, 1)
     \/ o.sent = {} /\ o.nav = Walking(t, 0)
     \/ o.sent = {} /\ o.nav = Walking(t, 1)
     \/ o.sent = {} /\ o.nav = [active |-> FALSE, id |-> NoTask, count |-> 1]

LEMMA ConversionFacts ==
  ASSUME NEW kind \in Kinds, NEW stop \in BOOLEAN, NEW t \in Tasks,
         NEW o \in Conversions(kind, stop, t)
  PROVE  ConversionShape(o, t)
<1> USE DEF Outcome, ConversionShape
<1>1. ConversionShape(Converted(stop, t), t)
  BY DEF Converted
<1>2. ConversionShape(Canceled(stop), t) /\ ConversionShape(Canceled(TRUE), t)
  BY DEF Canceled
<1>2a. ConversionShape(Phantom(stop, t), t) /\ ConversionShape(Phantom(TRUE, t), t)
  BY DEF Phantom
<1>3. CASE kind \in {"remote", "turn"}
  BY <1>1, <1>3 DEF Conversions
<1>4. CASE kind = "in_sight"
  <2>1. o \in InSightOutcomes(stop, t)
    BY <1>4 DEF Conversions
  <2>2. QED
    BY <1>1, <1>2, <1>2a, <2>1 DEF InSightOutcomes
<1>5. CASE kind = "memory"
  BY <1>1, <1>2, <1>5 DEF Conversions
<1>6. CASE kind = "continuous"
  <2>1. o \in ContinuousOutcomes(stop, t)
    BY <1>6 DEF Conversions
  <2>2. /\ ConversionShape(Outcome(stop, {<<t, 1>>}, t, Walking(t, 1)), t)
        /\ ConversionShape(Outcome(TRUE, {}, NoTask, Walking(t, 1)), t)
        /\ ConversionShape(Outcome(TRUE, {}, t, Walking(t, 0)), t)
    OBVIOUS
  <2>3. ConversionShape(
          Outcome(TRUE, {}, t, [active |-> FALSE, id |-> NoTask, count |-> 1]), t)
    OBVIOUS
  <2>4. QED
    BY <2>1, <2>2, <2>3, Zenon DEF ContinuousOutcomes, Walking
<1>7. CASE kind = "check"
  BY <1>2, <1>7 DEF Conversions
<1>8. QED
  BY <1>3, <1>4, <1>5, <1>6, <1>7, KindsAssumption

LEMMA AnswerWithoutTaskOutput ==
  ASSUME TypeOK, NavAhead, AnswerWithoutTask
  PROVE  Output
<1>1. PICK stop \in BOOLEAN : SendVisionOutput(stop, {}, NoTask)
  BY DEF AnswerWithoutTask
<1>2. nav' = nav
  BY DEF AnswerWithoutTask
<1>3. NoTask \in TaskOrNone
  BY DEF TaskOrNone
<1>4. QED
  BY <1>1, <1>2, <1>3 DEF Output, TypeOK, NavAhead

LEMMA AnswerWithTaskOutput ==
  ASSUME TypeOK, JobsKnown, NavAhead, NEW held, AnswerWithTask(held)
  PROVE  Output
<1>1. PICK stop \in BOOLEAN, t \in FreshTasks, kind \in Kinds :
        \E o \in Conversions(kind, stop, t) :
          SendVisionOutput(o.stop, o.sent, o.kept) /\ nav' = o.nav
  BY DEF AnswerWithTask
<1>2. PICK o \in Conversions(kind, stop, t) :
        SendVisionOutput(o.stop, o.sent, o.kept) /\ nav' = o.nav
  BY <1>1
<1>3. t \in Tasks /\ t # nav.id
  BY DEF FreshTasks
<1>4. ConversionShape(o, t)
  BY <1>2, <1>3, ConversionFacts
<1>5. \A j \in Job : j[1] = t => jobs[j] = "none"
  BY FreshJobs
<1>6. <<t, 0>> \in Job /\ <<t, 1>> \in Job
  BY <1>3, MaxIterationsAssumption DEF Job
<1>7. o.sent \in SUBSET Job /\ o.kept \in TaskOrNone
  BY <1>3, <1>4, <1>6 DEF ConversionShape, TaskOrNone
<1>8. o.sent # {} => o.kept \in Tasks
  BY <1>3, <1>4 DEF ConversionShape
<1>9. \A j \in o.sent : jobs[j] = "none" /\ j[1] = o.kept
  BY <1>4, <1>5, <1>6 DEF ConversionShape
<1>10. nav' \in NavState
  <2>1. 0 \in 0 .. MaxIterations + 1 /\ 1 \in 0 .. MaxIterations + 1
    BY MaxIterationsAssumption
  <2>2. t \in TaskOrNone /\ NoTask \in TaskOrNone
    BY <1>3 DEF TaskOrNone
  <2>3. Walking(t, 0) \in NavState /\ Walking(t, 1) \in NavState
    BY <2>1, <2>2 DEF Walking, NavState
  <2>4. [active |-> FALSE, id |-> NoTask, count |-> 1] \in NavState
    BY <2>1, <2>2 DEF NavState
  <2>5. QED
    BY <1>2, <1>4, <2>3, <2>4 DEF ConversionShape, TypeOK
<1>11. ASSUME nav'.active
       PROVE  /\ nav'.id \in Tasks
              /\ nav'.count <= MaxIterations
              /\ \A j \in Job : j[1] = nav'.id /\ j[2] > nav'.count =>
                   jobs[j] = "none" /\ j \notin o.sent
  <2>1. CASE nav' = nav /\ (o.sent = {} \/ o.sent = {<<t, 0>>})
    BY <1>3, <1>11, <2>1 DEF NavAhead
  <2>2. CASE nav' = Walking(t, 0) /\ o.sent = {}
    BY <1>3, <1>5, <2>2, MaxIterationsAssumption DEF Walking
  <2>3. CASE nav' = Walking(t, 1) /\ (o.sent = {} \/ o.sent = {<<t, 1>>})
    BY <1>3, <1>5, <2>3, MaxIterationsAssumption DEF Walking, Job
  <2>4. QED
    BY <1>2, <1>4, <1>11, <2>1, <2>2, <2>3 DEF ConversionShape
<1>12. o.stop \in BOOLEAN
  BY <1>4 DEF ConversionShape
<1>13. QED
  BY <1>2, <1>7, <1>8, <1>9, <1>10, <1>11, <1>12 DEF Output

LEMMA HopOutput ==
  ASSUME TypeOK, NavAhead, Hop
  PROVE  Output
<1>1. /\ nav.active /\ nav.count < MaxIterations
      /\ nav' = [nav EXCEPT !.count = @ + 1]
  BY DEF Hop
<1>2. nav.id \in Tasks /\ nav.count \in Nat /\ MaxIterations \in Nat
  BY <1>1, MaxIterationsAssumption DEF NavAhead, TypeOK, NavState
<1>3. <<nav.id, nav.count + 1>> \in Job
  BY <1>1, <1>2 DEF Job
<1>4. jobs[<<nav.id, nav.count + 1>>] = "none"
  BY <1>1, <1>2, <1>3 DEF NavAhead
<1>5. nav' \in NavState /\ nav'.id = nav.id /\ nav'.count = nav.count + 1
  BY <1>1, <1>2 DEF TypeOK, NavState
<1>6. \A j \in Job : j[1] = nav'.id /\ j[2] > nav'.count =>
        jobs[j] = "none" /\ j \notin {<<nav.id, nav.count + 1>>}
  <2> SUFFICES ASSUME NEW j \in Job, j[1] = nav.id, j[2] > nav.count + 1
               PROVE  jobs[j] = "none" /\ j # <<nav.id, nav.count + 1>>
    BY <1>5
  <2>1. j[2] \in Nat /\ j[2] > nav.count
    BY <1>2 DEF Job
  <2>2. QED
    BY <1>1, <1>2, <2>1 DEF NavAhead
<1>7. SendVisionOutput(FALSE, {<<nav.id, nav.count + 1>>}, nav.id)
  BY DEF Hop
<1>8. nav.id \in TaskOrNone /\ {<<nav.id, nav.count + 1>>} \in SUBSET Job
  BY <1>2, <1>3 DEF TaskOrNone
<1>9. nav'.count <= MaxIterations
  BY <1>1, <1>2, <1>5
<1>10. \A j \in {<<nav.id, nav.count + 1>>} : jobs[j] = "none" /\ j[1] = nav.id
  BY <1>4
<1>11. QED
  BY <1>2, <1>5, <1>6, <1>7, <1>8, <1>9, <1>10 DEF Output

\* What stays of the invariant through an output: everything that does not speak
\* of the queue or of where the main loop is.
OutputKeeps ==
  /\ grants' \in Nat
  /\ jobs' \in [Job -> Status]
  /\ primitive_in_execution' \in TaskOrNone
  /\ primitive_activation_seen' \in BOOLEAN
  /\ primitive_ids_map' \subseteq Tasks
  /\ nav' \in NavState
  /\ JobsKnown'
  /\ NavAhead'
  /\ ConfirmedMeansStarted'
  /\ \A t \in Tasks : Started(t) => Started(t)'
  /\ primitive_activation_seen' =>
       primitive_activation_seen /\ primitive_in_execution' = primitive_in_execution

LEMMA OutputSafe ==
  ASSUME SafeInv, Output
  PROVE  OutputKeeps
<1>1. PICK stop \in BOOLEAN, sent \in SUBSET Job, kept \in TaskOrNone :
        /\ SendVisionOutput(stop, sent, kept)
        /\ sent # {} => kept \in Tasks
        /\ \A j \in sent : jobs[j] = "none" /\ j[1] = kept
        /\ nav' \in NavState
        /\ nav'.active =>
             /\ nav'.id \in Tasks
             /\ nav'.count <= MaxIterations
             /\ \A j \in Job : j[1] = nav'.id /\ j[2] > nav'.count =>
                  jobs[j] = "none" /\ j \notin sent
  BY DEF Output
<1>2. jobs \in [Job -> Status] /\ grants \in Nat
  BY DEF SafeInv, TypeOK, RobotTypeOK
<1>3. jobs' = AfterOutput(stop, sent) /\ grants' \in {grants, grants + 1}
  BY <1>1 DEF SendVisionOutput
<1>4. jobs' \in [Job -> Status]
  BY <1>2, <1>3 DEF AfterOutput, Status
<1>5. \A j \in Job :
        \/ j \in sent /\ jobs[j] = "none" /\ jobs'[j] = "sent"
        \/ j \notin sent /\ jobs'[j] = jobs[j]
        \/ j \notin sent /\ jobs[j] = "running" /\ jobs'[j] = "stopping"
  BY <1>1, <1>3 DEF AfterOutput
<1>6. \/ /\ kept = NoTask /\ sent = {}
         /\ UNCHANGED <<stateVars, primitive_ids_map>>
      \/ /\ kept \in Tasks
         /\ primitive_in_execution' = kept
         /\ primitive_activation_seen' = FALSE
         /\ primitive_ids_map' = primitive_ids_map \cup {kept}
  BY <1>1, NoTaskAssumption DEF SendVisionOutput, Remember, TaskOrNone
<1>7. /\ primitive_in_execution' \in TaskOrNone
      /\ primitive_activation_seen' \in BOOLEAN
      /\ primitive_ids_map' \subseteq Tasks
      /\ primitive_activation_seen' =>
           primitive_activation_seen /\ primitive_in_execution' = primitive_in_execution
  <2>1. /\ primitive_in_execution \in TaskOrNone
        /\ primitive_activation_seen \in BOOLEAN
        /\ primitive_ids_map \subseteq Tasks
    BY DEF SafeInv, TypeOK
  <2>2. CASE kept = NoTask /\ UNCHANGED <<stateVars, primitive_ids_map>>
    BY <2>1, <2>2 DEF stateVars
  <2>3. CASE /\ kept \in Tasks
             /\ primitive_in_execution' = kept
             /\ primitive_activation_seen' = FALSE
             /\ primitive_ids_map' = primitive_ids_map \cup {kept}
    BY <2>1, <2>3 DEF TaskOrNone
  <2>4. QED
    BY <1>6, <2>2, <2>3
<1>8. JobsKnown'
  <2> SUFFICES ASSUME NEW j \in Job, jobs'[j] # "none"
               PROVE  j[1] \in primitive_ids_map'
    BY DEF JobsKnown, Job
  <2>1. CASE j \in sent
    BY <1>1, <1>6, <2>1
  <2>2. CASE j \notin sent
    BY <1>5, <1>6, <2>2 DEF SafeInv, JobsKnown, stateVars
  <2>3. QED
    BY <2>1, <2>2
<1>9. NavAhead'
  BY <1>1, <1>5 DEF NavAhead, Job
<1>10. ASSUME NEW t \in Tasks, Started(t) PROVE Started(t)'
  <2>1. PICK h \in 0 .. MaxIterations : jobs[<<t, h>>] \in {"running", "stopping", "done"}
    BY <1>10 DEF Started
  <2>2. <<t, h>> \in Job
    BY DEF Job
  <2>3. jobs'[<<t, h>>] \in {"running", "stopping", "done"}
    BY <1>5, <2>1, <2>2
  <2>4. QED
    BY <2>3 DEF Started
<1>11. ConfirmedMeansStarted'
  <2> SUFFICES ASSUME primitive_activation_seen', primitive_in_execution' # NoTask
               PROVE  Started(primitive_in_execution)'
    BY DEF ConfirmedMeansStarted
  <2>1. primitive_activation_seen /\ primitive_in_execution' = primitive_in_execution
    BY <1>7
  <2>2. primitive_in_execution \in Tasks /\ Started(primitive_in_execution)
    BY <2>1 DEF SafeInv, TypeOK, TaskOrNone, ConfirmedMeansStarted
  <2>3. Started(primitive_in_execution)' <=>
          \E h \in 0 .. MaxIterations :
            jobs'[<<primitive_in_execution, h>>] \in {"running", "stopping", "done"}
    BY <2>1 DEF Started
  <2>4. QED
    BY <1>10, <2>2, <2>3 DEF Started
<1>12. QED
  BY <1>1, <1>2, <1>3, <1>4, <1>7, <1>8, <1>9, <1>10, <1>11 DEF OutputKeeps

----------------------------------------------------------------------------
(* The queue *)

LEMMA EnqueueFacts ==
  ASSUME RobotTypeOK, NEW type, NEW id, [type |-> type, id |-> id] \in Message,
         Enqueue(type, id)
  PROVE  /\ message_queue' \in Seq(Message)
         /\ \A i \in DOMAIN message_queue' :
              \/ i \in DOMAIN message_queue /\ message_queue'[i] = message_queue[i]
              \/ message_queue'[i] = [type |-> type, id |-> id]
BY DEF RobotTypeOK, Enqueue

LEMMA TakeFacts ==
  ASSUME RobotTypeOK, NEW type, Takes(type)
  PROVE  /\ message_queue' \in Seq(Message)
         /\ 1 \in DOMAIN message_queue
         /\ Head(message_queue) = message_queue[1]
         /\ Head(message_queue) \in Message
         /\ Head(message_queue).type = type
         /\ \A i \in DOMAIN message_queue' :
              i + 1 \in DOMAIN message_queue /\ message_queue'[i] = message_queue[i + 1]
BY DEF RobotTypeOK, Takes

\* Taking a message leaves the activations behind it those of started tasks.
LEMMA TakeKeepsActivations ==
  ASSUME RobotTypeOK, ActivationsStarted, NEW type, Takes(type),
         \A t \in Tasks : Started(t) => Started(t)'
  PROVE  ActivationsStarted'
<1> SUFFICES ASSUME NEW i \in DOMAIN message_queue',
                    message_queue'[i].type = "activated"
             PROVE  (message_queue[i].id \in Tasks /\ Started(message_queue[i].id))'
  BY DEF ActivationsStarted
<1>1. i + 1 \in DOMAIN message_queue /\ message_queue'[i] = message_queue[i + 1]
  BY TakeFacts
<1>2. PICK t \in Tasks : message_queue[i + 1].id = t /\ Started(t)
  BY <1>1 DEF ActivationsStarted
<1>3. Started(t)'
  BY <1>2
<1>4. QED
  BY <1>1, <1>2, <1>3 DEF Started

\* A message put in the queue keeps them so, if it is one of a started task.
LEMMA EnqueueKeepsActivations ==
  ASSUME RobotTypeOK, ActivationsStarted, NEW type, NEW id,
         [type |-> type, id |-> id] \in Message, Enqueue(type, id),
         \A t \in Tasks : Started(t) => Started(t)',
         type = "activated" => id \in Tasks /\ Started(id)'
  PROVE  ActivationsStarted'
<1> SUFFICES ASSUME NEW i \in DOMAIN message_queue',
                    message_queue'[i].type = "activated"
             PROVE  (message_queue[i].id \in Tasks /\ Started(message_queue[i].id))'
  BY DEF ActivationsStarted
<1>1. CASE i \in DOMAIN message_queue /\ message_queue'[i] = message_queue[i]
  <2>1. PICK t \in Tasks : message_queue[i].id = t /\ Started(t)
    BY <1>1 DEF ActivationsStarted
  <2>2. Started(t)'
    BY <2>1
  <2>3. QED
    BY <1>1, <2>1, <2>2 DEF Started
<1>2. CASE message_queue'[i] = [type |-> type, id |-> id]
  <2>1. message_queue'[i].id = id /\ type = "activated"
    BY <1>2
  <2>2. id \in Tasks /\ Started(id)'
    BY <2>1
  <2>3. QED
    BY <2>1, <2>2 DEF Started
<1>3. QED
  BY <1>1, <1>2, EnqueueFacts

----------------------------------------------------------------------------
(* The robot *)

\* What stays of the invariant when the main loop's own variables do not change.
LEMMA QuietKeeps ==
  ASSUME SafeInv, UNCHANGED <<main, stateVars>>,
         \A t \in Tasks : Started(t) => Started(t)'
  PROVE  HandledStarted' /\ ConfirmedMeansStarted'
<1>1. HandledStarted'
  <2> SUFFICES ASSUME main.at = "activated"
               PROVE  /\ main.id \in Tasks /\ Started(main.id)'
                      /\ primitive_activation_seen => primitive_in_execution = main.held
    BY DEF HandledStarted, stateVars, Started
  <2>1. main.id \in Tasks /\ Started(main.id)
    BY DEF SafeInv, HandledStarted
  <2>2. primitive_activation_seen => primitive_in_execution = main.held
    BY DEF SafeInv, HandledStarted
  <2>3. QED
    BY <2>1, <2>2
<1>2. ConfirmedMeansStarted'
  <2> SUFFICES ASSUME primitive_activation_seen, primitive_in_execution # NoTask
               PROVE  Started(primitive_in_execution)'
    BY DEF ConfirmedMeansStarted, stateVars
  <2>1. primitive_in_execution \in Tasks /\ Started(primitive_in_execution)
    BY DEF SafeInv, TypeOK, TaskOrNone, ConfirmedMeansStarted
  <2>2. Started(primitive_in_execution)' <=>
          \E h \in 0 .. MaxIterations :
            jobs'[<<primitive_in_execution, h>>] \in {"running", "stopping", "done"}
    BY DEF Started, stateVars
  <2>3. QED
    BY <2>1, <2>2 DEF Started
<1>3. QED
  BY <1>1, <1>2

\* A job that was sent moves on: started tasks stay started, no other job appears.
LEMMA JobMoves ==
  ASSUME SafeInv, NEW j \in Job, NEW s \in {"running", "refused", "done"},
         jobs[j] \in {"sent", "running", "stopping"},
         s = "refused" => jobs[j] = "sent",
         jobs' = [jobs EXCEPT ![j] = s],
         UNCHANGED <<nav, primitive_ids_map>>
  PROVE  /\ jobs' \in [Job -> Status]
         /\ JobsKnown'
         /\ NavAhead'
         /\ \A t \in Tasks : Started(t) => Started(t)'
<1>1. jobs \in [Job -> Status]
  BY DEF SafeInv, TypeOK, RobotTypeOK
<1>2. jobs' \in [Job -> Status]
  BY <1>1 DEF Status
<1>3. jobs'[j] = s /\ \A k \in Job \ {j} : jobs'[k] = jobs[k]
  BY <1>1
<1>4. JobsKnown'
  BY <1>3 DEF SafeInv, JobsKnown, Job
<1>5. NavAhead'
  BY <1>3 DEF SafeInv, NavAhead, Job
<1>6. ASSUME NEW t \in Tasks, Started(t) PROVE Started(t)'
  <2>1. PICK h \in 0 .. MaxIterations : jobs[<<t, h>>] \in {"running", "stopping", "done"}
    BY <1>6 DEF Started
  <2>2. <<t, h>> \in Job
    BY DEF Job
  <2>3. jobs'[<<t, h>>] \in {"running", "stopping", "done"}
    BY <1>3, <2>1, <2>2
  <2>4. QED
    BY <2>3 DEF Started
<1>7. QED
  BY <1>2, <1>4, <1>5, <1>6

LEMMA RobotStepSafe ==
  ASSUME SafeInv, RobotStep
  PROVE  SafeInv'
<1>1. RobotTypeOK /\ TypeOK /\ JobsKnown /\ NavAhead /\ ActivationsStarted
  BY DEF SafeInv, TypeOK
<1>2. UNCHANGED <<main, chat, stateVars, slow_agent_running, primitive_ids_map, nav>>
  BY DEF RobotStep
<1> DEFINE Moved ==
      /\ grants' \in Nat
      /\ jobs' \in [Job -> Status]
      /\ faults' \in Faults
      /\ message_queue' \in Seq(Message)
      /\ JobsKnown' /\ NavAhead' /\ ActivationsStarted'
      /\ \A t \in Tasks : Started(t) => Started(t)'
<1>3. UNCHANGED jobs => /\ jobs' \in [Job -> Status]
                        /\ JobsKnown' /\ NavAhead'
                        /\ \A t \in Tasks : Started(t) => Started(t)'
  BY <1>1, <1>2 DEF RobotTypeOK, JobsKnown, NavAhead, Started
<1>4. ASSUME SendImage PROVE Moved
  <2>1. grants' \in Nat /\ UNCHANGED <<jobs, faults>> /\ Enqueue("image", NoTask)
    BY <1>1, <1>4 DEF SendImage, RobotTypeOK
  <2>2. [type |-> "image", id |-> NoTask] \in Message
    BY DEF Message, TaskOrNone
  <2>3. message_queue' \in Seq(Message)
    BY <1>1, <2>1, <2>2, EnqueueFacts
  <2>4. ActivationsStarted'
    BY <1>1, <1>3, <2>1, <2>2, EnqueueKeepsActivations
  <2>5. QED
    BY <1>1, <1>3, <2>1, <2>3, <2>4 DEF RobotTypeOK
<1>5. ASSUME AskReset PROVE Moved
  <2>1. UNCHANGED <<jobs, grants>> /\ Enqueue("reset", NoTask)
    BY <1>5 DEF AskReset
  <2>2. [type |-> "reset", id |-> NoTask] \in Message
    BY DEF Message, TaskOrNone
  <2>3. message_queue' \in Seq(Message)
    BY <1>1, <2>1, <2>2, EnqueueFacts
  <2>4. ActivationsStarted'
    BY <1>1, <1>3, <2>1, <2>2, EnqueueKeepsActivations
  <2>5. faults' \in Faults
    BY <1>1, <1>5, BoundsAssumption DEF AskReset, RobotTypeOK, Faults
  <2>6. QED
    BY <1>1, <1>3, <2>1, <2>3, <2>4, <2>5 DEF RobotTypeOK
<1>6. ASSUME NEW j \in Job, StartJob(j) PROVE Moved
  <2>1. /\ jobs[j] = "sent" /\ jobs' = [jobs EXCEPT ![j] = "running"]
        /\ UNCHANGED <<grants, faults>> /\ Enqueue("activated", j[1])
    BY <1>6 DEF StartJob
  <2>2. /\ jobs' \in [Job -> Status] /\ JobsKnown' /\ NavAhead'
        /\ \A t \in Tasks : Started(t) => Started(t)'
    BY <1>2, <2>1, JobMoves
  <2>3. [type |-> "activated", id |-> j[1]] \in Message /\ j[1] \in Tasks
    BY DEF Message, TaskOrNone, Job
  <2>4. Started(j[1])'
    <3>1. jobs'[<<j[1], j[2]>>] = "running" /\ j[2] \in 0 .. MaxIterations
      BY <1>1, <2>1 DEF RobotTypeOK, Job
    <3>2. QED
      BY <3>1 DEF Started
  <2>5. message_queue' \in Seq(Message)
    BY <1>1, <2>1, <2>3, EnqueueFacts
  <2>6. ActivationsStarted'
    BY <1>1, <2>1, <2>2, <2>3, <2>4, EnqueueKeepsActivations
  <2>7. QED
    BY <1>1, <2>1, <2>2, <2>5, <2>6 DEF RobotTypeOK
<1>7. ASSUME NEW j \in Job, RefuseJob(j) PROVE Moved
  <2>1. /\ jobs[j] = "sent" /\ jobs' = [jobs EXCEPT ![j] = "refused"]
        /\ UNCHANGED <<grants, faults>> /\ Enqueue("failed", j[1])
    BY <1>7 DEF RefuseJob
  <2>2. /\ jobs' \in [Job -> Status] /\ JobsKnown' /\ NavAhead'
        /\ \A t \in Tasks : Started(t) => Started(t)'
    BY <1>2, <2>1, JobMoves
  <2>3. [type |-> "failed", id |-> j[1]] \in Message
    BY DEF Message, TaskOrNone, Job, Terminals
  <2>4. message_queue' \in Seq(Message)
    BY <1>1, <2>1, <2>3, EnqueueFacts
  <2>5. ActivationsStarted'
    BY <1>1, <2>1, <2>2, <2>3, EnqueueKeepsActivations
  <2>6. QED
    BY <1>1, <2>1, <2>2, <2>4, <2>5 DEF RobotTypeOK
<1>8. ASSUME NEW j \in Job, NEW how \in Terminals, EndJob(j, how) PROVE Moved
  <2>1. /\ jobs[j] \in {"running", "stopping"} /\ jobs' = [jobs EXCEPT ![j] = "done"]
        /\ UNCHANGED <<grants, faults>> /\ Enqueue(how, j[1])
    BY <1>8 DEF EndJob
  <2>2. /\ jobs' \in [Job -> Status] /\ JobsKnown' /\ NavAhead'
        /\ \A t \in Tasks : Started(t) => Started(t)'
    BY <1>2, <2>1, JobMoves
  <2>3. [type |-> how, id |-> j[1]] \in Message /\ how # "activated"
    BY DEF Message, TaskOrNone, Job, Terminals
  <2>4. message_queue' \in Seq(Message)
    BY <1>1, <2>1, <2>3, EnqueueFacts
  <2>5. ActivationsStarted'
    BY <1>1, <2>1, <2>2, <2>3, EnqueueKeepsActivations
  <2>6. QED
    BY <1>1, <2>1, <2>2, <2>4, <2>5 DEF RobotTypeOK
<1>9. Moved
  BY <1>4, <1>5, <1>6, <1>7, <1>8 DEF RobotStep, RobotNext
<1>10. HandledStarted' /\ ConfirmedMeansStarted'
  BY <1>2, <1>9, QuietKeeps
<1>11. TypeOK'
  BY <1>1, <1>2, <1>9 DEF TypeOK, RobotTypeOK, stateVars
<1>12. QED
  BY <1>9, <1>10, <1>11 DEF SafeInv

----------------------------------------------------------------------------
(* The main loop *)

\* A step of the main loop that leaves the robot's jobs alone leaves what is said
\* of them alone, and takes at most a message from the queue.
LEMMA JobsUntouched ==
  ASSUME SafeInv, UNCHANGED <<jobs, primitive_ids_map>>,
         nav' = nav \/ nav'.active = FALSE \/ NavAhead',
         UNCHANGED message_queue \/ (\E type : Takes(type))
  PROVE  /\ jobs' \in [Job -> Status]
         /\ message_queue' \in Seq(Message)
         /\ JobsKnown' /\ NavAhead' /\ ActivationsStarted'
         /\ \A t \in Tasks : Started(t) => Started(t)'
<1>1. RobotTypeOK /\ JobsKnown /\ NavAhead /\ ActivationsStarted
  BY DEF SafeInv, TypeOK
<1>2. jobs' \in [Job -> Status] /\ JobsKnown' /\ NavAhead'
  BY <1>1 DEF RobotTypeOK, JobsKnown, NavAhead
<1>3. \A t \in Tasks : Started(t) => Started(t)'
  BY DEF Started
<1>4. CASE UNCHANGED message_queue
  <2>1. ActivationsStarted'
    BY <1>1, <1>4 DEF ActivationsStarted, Started
  <2>2. QED
    BY <1>1, <1>2, <1>3, <1>4, <2>1 DEF RobotTypeOK
<1>5. ASSUME NEW type, Takes(type)
      PROVE  message_queue' \in Seq(Message) /\ ActivationsStarted'
  BY <1>1, <1>3, <1>5, TakeFacts, TakeKeepsActivations
<1>6. QED
  BY <1>2, <1>3, <1>4, <1>5

\* If moreover the tracked primitive is kept or given up, and no activation is
\* being handled afterwards, the whole of the invariant stays.
LEMMA LoopStepSafe ==
  ASSUME SafeInv, UNCHANGED <<jobs, primitive_ids_map>>,
         nav' = nav \/ nav'.active = FALSE \/ NavAhead',
         UNCHANGED message_queue \/ (\E type : Takes(type)),
         TypeOK',
         main'.at # "activated",
         primitive_in_execution' \in {primitive_in_execution, NoTask},
         primitive_activation_seen' => primitive_activation_seen
  PROVE  SafeInv'
<1>1. /\ JobsKnown' /\ NavAhead' /\ ActivationsStarted'
      /\ \A t \in Tasks : Started(t) => Started(t)'
  BY JobsUntouched
<1>2. HandledStarted'
  BY DEF HandledStarted
<1>3. ConfirmedMeansStarted'
  <2> SUFFICES ASSUME primitive_activation_seen', primitive_in_execution' # NoTask
               PROVE  Started(primitive_in_execution)'
    BY DEF ConfirmedMeansStarted
  <2>1. primitive_activation_seen /\ primitive_in_execution' = primitive_in_execution
    OBVIOUS
  <2>2. Started(primitive_in_execution)
    BY <2>1 DEF SafeInv, ConfirmedMeansStarted
  <2>3. QED
    BY <2>1, <2>2 DEF Started
<1>4. QED
  BY <1>1, <1>2, <1>3 DEF SafeInv

\* What a conversion that raises leaves of the continuous navigation is as good as
\* new: its task has no jobs yet.
LEMMA ConversionRaisesSafe ==
  ASSUME TypeOK, JobsKnown, NavAhead, ConversionRaises, UNCHANGED jobs
  PROVE  nav' \in NavState /\ NavAhead'
<1>1. CASE UNCHANGED nav
  BY <1>1 DEF TypeOK, NavAhead
<1>2. ASSUME NEW t \in FreshTasks, nav' = Walking(t, 1)
      PROVE  nav' \in NavState /\ NavAhead'
  <2>1. t \in Tasks
    BY DEF FreshTasks
  <2>2. 1 \in 0 .. MaxIterations + 1 /\ 1 <= MaxIterations
    BY MaxIterationsAssumption
  <2>3. \A j \in Job : j[1] = t => jobs[j] = "none"
    BY FreshJobs
  <2>4. nav' \in NavState
    BY <1>2, <2>1, <2>2 DEF Walking, NavState, TaskOrNone
  <2>5. NavAhead'
    BY <1>2, <2>1, <2>2, <2>3 DEF Walking, NavAhead
  <2>6. QED
    BY <2>4, <2>5
<1>3. QED
  BY <1>1, <1>2 DEF ConversionRaises

LEMMA IdleType == Idle \in MainState
BY DEF Idle, MainState, TaskOrNone

LEMMA DeactivatedType ==
  ASSUME TypeOK
  PROVE  Deactivated \in NavState /\ Deactivated.active = FALSE
BY DEF TypeOK, Deactivated, NavState, TaskOrNone

LEMMA ImageStepsSafe ==
  ASSUME SafeInv, SkipImage \/ RejectImage \/ StartVision \/ EndHops
  PROVE  SafeInv'
<1>1. TypeOK /\ RobotTypeOK /\ NavAhead
  BY DEF SafeInv, TypeOK
<1>2. Takes("image") /\ UNCHANGED <<jobs, chat, slow_agent_running, primitive_ids_map>>
  BY DEF SkipImage, RejectImage, StartVision, EndHops
<1>3. message_queue' \in Seq(Message)
  BY <1>1, <1>2, TakeFacts
<1>4. main.at = "idle"
  BY <1>2 DEF Takes
<1>5. CASE SkipImage
  <2>1. TypeOK'
    BY <1>1, <1>2, <1>3, <1>5 DEF SkipImage, TypeOK, RobotTypeOK, stateVars
  <2>2. QED
    BY <1>2, <1>4, <1>5, <2>1, LoopStepSafe DEF SkipImage, stateVars
<1>6. CASE RejectImage
  <2>1. faults' \in Faults
    BY <1>1, <1>6, BoundsAssumption DEF RejectImage, RobotTypeOK, Faults
  <2>2. TypeOK'
    BY <1>1, <1>2, <1>3, <1>6, <2>1 DEF RejectImage, TypeOK, RobotTypeOK, stateVars
  <2>3. QED
    BY <1>2, <1>4, <1>6, <2>2, LoopStepSafe DEF RejectImage, stateVars
<1>7. CASE StartVision
  <2>1. main' \in MainState /\ main'.at = "vlm"
    BY <1>1, <1>7 DEF StartVision, MainState, TypeOK, TaskOrNone
  <2>2. TypeOK'
    BY <1>1, <1>2, <1>3, <1>7, <2>1 DEF StartVision, TypeOK, RobotTypeOK, stateVars
  <2>3. QED
    BY <1>2, <1>7, <2>1, <2>2, LoopStepSafe DEF StartVision, stateVars
<1>8. CASE EndHops
  <2>1. nav.active /\ nav \in NavState /\ nav.count <= MaxIterations
    BY <1>1, <1>8 DEF EndHops, TypeOK, NavAhead
  <2>2. nav.count + 1 \in 0 .. MaxIterations + 1
    BY <2>1, MaxIterationsAssumption DEF NavState
  <2>3. nav' = [Deactivated EXCEPT !.count = nav.count + 1]
    BY <1>8 DEF EndHops
  <2>4. nav' \in NavState /\ nav'.active = FALSE
    BY <1>1, <2>2, <2>3, DeactivatedType DEF NavState
  <2>5. primitive_in_execution' = NoTask /\ NoTask \in TaskOrNone
    BY <1>8 DEF EndHops, TaskOrNone
  <2>6. TypeOK'
    BY <1>1, <1>2, <1>3, <1>8, <2>4, <2>5 DEF EndHops, TypeOK, RobotTypeOK
  <2>7. main' = main /\ UNCHANGED primitive_activation_seen
    BY <1>8 DEF EndHops
  <2>8. QED
    BY <1>2, <1>4, <2>4, <2>5, <2>6, <2>7, LoopStepSafe
<1>9. QED
  BY <1>5, <1>6, <1>7, <1>8

\* A handler that raises has tracked and sent nothing.
LEMMA RaisesSafe ==
  ASSUME SafeInv, RaiseImage \/ RaiseVision \/ RaiseHop
  PROVE  SafeInv'
<1>1. TypeOK /\ RobotTypeOK /\ JobsKnown /\ NavAhead
  BY DEF SafeInv, TypeOK
<1>2. /\ faults.raised < MaxRaises /\ faults' = [faults EXCEPT !.raised = @ + 1]
      /\ UNCHANGED <<grants, jobs, chat, stateVars, slow_agent_running,
                     primitive_ids_map>>
  BY DEF RaiseImage, RaiseVision, RaiseHop, ImageRaises
<1>3. faults' \in Faults
  BY <1>1, <1>2, BoundsAssumption DEF RobotTypeOK, Faults
<1>4. UNCHANGED message_queue \/ Takes("image")
  BY DEF RaiseImage, RaiseVision, RaiseHop
<1>5. message_queue' \in Seq(Message)
  BY <1>1, <1>4, TakeFacts DEF RobotTypeOK
<1>6. main' \in MainState /\ main'.at # "activated"
  BY <1>1, IdleType DEF RaiseImage, RaiseVision, RaiseHop, Takes, Idle, TypeOK
<1>7. nav' \in NavState /\ NavAhead'
  <2>1. CASE RaiseImage
    BY <1>1, <1>2, <2>1 DEF RaiseImage, TypeOK, NavAhead
  <2>2. CASE RaiseVision
    BY <1>1, <1>2, <2>2, ConversionRaisesSafe DEF RaiseVision
  <2>3. CASE RaiseHop
    <3>1. /\ nav.active /\ nav.count < MaxIterations /\ nav \in NavState
          /\ nav' = [nav EXCEPT !.count = @ + 1]
      BY <1>1, <2>3 DEF RaiseHop, TypeOK
    <3>2. nav' \in NavState /\ nav'.id = nav.id /\ nav'.count = nav.count + 1
      BY <3>1, MaxIterationsAssumption DEF NavState
    <3>3. \A j \in Job : j[2] \in Nat
      BY MaxIterationsAssumption DEF Job
    <3>4. NavAhead'
      BY <1>1, <1>2, <3>1, <3>2, <3>3, MaxIterationsAssumption DEF NavAhead, NavState
    <3>5. QED
      BY <3>2, <3>4
  <2>4. QED
    BY <2>1, <2>2, <2>3
<1>8. TypeOK'
  BY <1>1, <1>2, <1>3, <1>5, <1>6, <1>7 DEF TypeOK, RobotTypeOK, stateVars
<1>9. QED
  BY <1>2, <1>4, <1>6, <1>7, <1>8, LoopStepSafe DEF stateVars

LEMMA TerminalStepsSafe ==
  ASSUME SafeInv, (\E type \in Terminals : HandleTerminal(type)) \/ FinishTerminal
  PROVE  SafeInv'
<1>1. TypeOK /\ RobotTypeOK
  BY DEF SafeInv, TypeOK
<1>2. NoTask \in TaskOrNone
  BY DEF TaskOrNone
<1>3. ASSUME NEW type \in Terminals, HandleTerminal(type) PROVE SafeInv'
  <2> DEFINE cleared == primitive_in_execution # NoTask
                        /\ primitive_in_execution = Head(message_queue).id
  <2>1. /\ Takes(type)
        /\ UNCHANGED <<jobs, faults, chat, slow_agent_running, primitive_ids_map>>
        /\ primitive_in_execution' \in {primitive_in_execution, NoTask}
        /\ primitive_activation_seen' = (primitive_activation_seen /\ ~cleared)
    BY <1>3 DEF HandleTerminal, Resolves
  <2>2. grants' \in {grants, grants + 1}
    BY <1>3 DEF HandleTerminal, Resolves
  <2>3. nav' \in {nav, Deactivated}
    BY <1>3 DEF HandleTerminal, Resolves
  <2>4. main' \in {main, [Idle EXCEPT !.at = "terminal"]}
    BY <1>3 DEF HandleTerminal, Resolves
  <2>5. main.at = "idle"
    BY <2>1 DEF Takes
  <2>6. main' \in MainState /\ main'.at # "activated"
    BY <1>1, <2>4, <2>5, IdleType DEF TypeOK, MainState
  <2>7. nav' \in NavState /\ (nav' = nav \/ nav'.active = FALSE)
    BY <1>1, <2>3, DeactivatedType DEF TypeOK
  <2>8. primitive_activation_seen' \in BOOLEAN
        /\ (primitive_activation_seen' => primitive_activation_seen)
    BY <2>1
  <2>9. message_queue' \in Seq(Message)
    BY <1>1, <2>1, TakeFacts
  <2>10. TypeOK'
    BY <1>1, <1>2, <2>1, <2>2, <2>6, <2>7, <2>8, <2>9 DEF TypeOK, RobotTypeOK
  <2>11. QED
    BY <2>1, <2>6, <2>7, <2>8, <2>10, LoopStepSafe
<1>4. CASE FinishTerminal
  <2>1. UNCHANGED <<jobs, grants, message_queue, faults, chat, stateVars,
                    slow_agent_running, primitive_ids_map>>
    BY <1>4 DEF FinishTerminal, robotVars
  <2>2. nav' = Deactivated /\ main' = Idle
    BY <1>4 DEF FinishTerminal
  <2>3. nav' \in NavState /\ nav'.active = FALSE
    BY <1>1, <2>2, DeactivatedType
  <2>4. main' \in MainState /\ main'.at # "activated"
    BY <2>2, IdleType DEF Idle
  <2>5. TypeOK'
    BY <1>1, <2>1, <2>3, <2>4 DEF TypeOK, RobotTypeOK, stateVars
  <2>6. QED
    BY <2>1, <2>3, <2>4, <2>5, LoopStepSafe DEF stateVars
<1>5. QED
  BY <1>3, <1>4

LEMMA HandleActivatedSafe ==
  ASSUME SafeInv, HandleActivated
  PROVE  SafeInv'
<1>1. TypeOK /\ RobotTypeOK /\ ActivationsStarted
  BY DEF SafeInv, TypeOK
<1>2. /\ Takes("activated") /\ grants' = grants + 1
      /\ UNCHANGED <<jobs, faults, chat, stateVars, slow_agent_running,
                     primitive_ids_map, nav>>
      /\ main' = [at |-> "activated", held |-> primitive_in_execution,
                  id |-> Head(message_queue).id]
  BY DEF HandleActivated
<1>3. /\ message_queue' \in Seq(Message)
      /\ Head(message_queue) \in Message
      /\ Head(message_queue).id \in Tasks
      /\ Started(Head(message_queue).id)
  BY <1>1, <1>2, TakeFacts DEF ActivationsStarted
<1>4. /\ JobsKnown' /\ NavAhead' /\ ActivationsStarted'
      /\ \A t \in Tasks : Started(t) => Started(t)'
  BY <1>2, JobsUntouched
<1>5. main' \in MainState
  BY <1>1, <1>2, <1>3 DEF MainState, TypeOK, TaskOrNone
<1>6. TypeOK'
  BY <1>1, <1>2, <1>3, <1>5 DEF TypeOK, RobotTypeOK, stateVars
<1>7. HandledStarted'
  <2>1. Started(main'.id) /\ main'.id \in Tasks /\ main'.held = primitive_in_execution'
    BY <1>2, <1>3 DEF stateVars
  <2>2. (main.id \in Tasks /\ Started(main.id))'
    BY <1>2, <2>1 DEF Started
  <2>3. QED
    BY <2>1, <2>2 DEF HandledStarted
<1>8. ConfirmedMeansStarted'
  BY <1>2 DEF SafeInv, ConfirmedMeansStarted, Started, stateVars
<1>9. QED
  BY <1>4, <1>6, <1>7, <1>8 DEF SafeInv

LEMMA FinishActivatedSafe ==
  ASSUME SafeInv, FinishActivated
  PROVE  SafeInv'
<1>1. TypeOK /\ RobotTypeOK /\ HandledStarted
  BY DEF SafeInv, TypeOK
<1>2. /\ main.at = "activated" /\ main' = Idle
      /\ primitive_in_execution' = main.held
      /\ UNCHANGED <<jobs, grants, message_queue, faults, chat, slow_agent_running,
                     primitive_ids_map, nav>>
  BY DEF FinishActivated, robotVars
<1>3. primitive_activation_seen' =
        (Confirms(main.held, main.id) \/ primitive_activation_seen)
  BY DEF FinishActivated
<1>4. main.held \in TaskOrNone /\ main.id \in Tasks /\ Started(main.id)
  BY <1>1, <1>2 DEF TypeOK, MainState, HandledStarted
<1>5. primitive_activation_seen' \in BOOLEAN
  BY <1>1, <1>3 DEF TypeOK, Confirms
<1>6. TypeOK'
  BY <1>1, <1>2, <1>4, <1>5, IdleType DEF TypeOK, RobotTypeOK
<1>7. JobsKnown' /\ NavAhead' /\ ActivationsStarted'
  BY <1>2, JobsUntouched
<1>8. HandledStarted'
  BY <1>2 DEF HandledStarted, Idle
<1>9. ConfirmedMeansStarted'
  <2> SUFFICES ASSUME primitive_activation_seen', main.held # NoTask
               PROVE  Started(main.held)
    BY <1>2 DEF ConfirmedMeansStarted, Started
  <2>1. CASE Confirms(main.held, main.id)
    BY <1>4, <2>1 DEF Confirms
  <2>2. CASE primitive_activation_seen
    BY <1>1, <1>2, <2>2 DEF HandledStarted, SafeInv, ConfirmedMeansStarted
  <2>3. QED
    BY <1>3, <2>1, <2>2
<1>10. QED
  BY <1>6, <1>7, <1>8, <1>9 DEF SafeInv

LEMMA HandleResetSafe ==
  ASSUME SafeInv, HandleReset
  PROVE  SafeInv'
<1>1. TypeOK /\ RobotTypeOK
  BY DEF SafeInv, TypeOK
<1>2. /\ Takes("reset") /\ grants' = grants + 1
      /\ primitive_in_execution' = NoTask
      /\ primitive_activation_seen' = FALSE
      /\ slow_agent_running' = FALSE
      /\ UNCHANGED <<jobs, faults, main, chat, primitive_ids_map, nav>>
  BY DEF HandleReset
<1>3. message_queue' \in Seq(Message)
  BY <1>1, <1>2, TakeFacts
<1>4. TypeOK'
  <2>1. RobotTypeOK'
    BY <1>1, <1>2, <1>3 DEF RobotTypeOK
  <2>2. primitive_in_execution' \in TaskOrNone
    BY <1>2 DEF TaskOrNone
  <2>3. QED
    BY <1>1, <1>2, <2>1, <2>2 DEF TypeOK
<1>5. main.at = "idle"
  BY <1>2 DEF Takes
<1>6. QED
  BY <1>2, <1>4, <1>5, LoopStepSafe

LEMMA FinishVisionSafe ==
  ASSUME SafeInv, FinishVision
  PROVE  SafeInv'
<1>1. TypeOK /\ RobotTypeOK /\ JobsKnown /\ NavAhead /\ ActivationsStarted
  BY DEF SafeInv, TypeOK
<1>2. Output
  BY <1>1, AnswerWithoutTaskOutput, AnswerWithTaskOutput DEF FinishVision
<1>3. OutputKeeps
  BY <1>2, OutputSafe
<1>4. main' = Idle /\ UNCHANGED <<message_queue, faults, chat, slow_agent_running>>
  BY DEF FinishVision
<1>5. TypeOK'
  BY <1>1, <1>3, <1>4, IdleType DEF TypeOK, RobotTypeOK, OutputKeeps
<1>6. HandledStarted'
  BY <1>4 DEF HandledStarted, Idle
<1>7. ActivationsStarted'
  BY <1>1, <1>3, <1>4 DEF ActivationsStarted, OutputKeeps, Started
<1>8. QED
  BY <1>3, <1>5, <1>6, <1>7 DEF SafeInv, OutputKeeps

LEMMA HopSafe ==
  ASSUME SafeInv, Hop
  PROVE  SafeInv'
<1>1. TypeOK /\ RobotTypeOK /\ NavAhead /\ ActivationsStarted
  BY DEF SafeInv, TypeOK
<1>2. OutputKeeps
  BY <1>1, HopOutput, OutputSafe
<1>3. Takes("image") /\ UNCHANGED <<faults, main, chat, slow_agent_running>>
  BY DEF Hop
<1>4. message_queue' \in Seq(Message)
  BY <1>1, <1>3, TakeFacts
<1>5. TypeOK'
  BY <1>1, <1>2, <1>3, <1>4 DEF TypeOK, RobotTypeOK, OutputKeeps
<1>6. HandledStarted'
  BY <1>3 DEF HandledStarted, Takes
<1>7. ActivationsStarted'
  BY <1>1, <1>2, <1>3, TakeKeepsActivations DEF OutputKeeps
<1>8. QED
  BY <1>2, <1>5, <1>6, <1>7 DEF SafeInv, OutputKeeps

----------------------------------------------------------------------------
(* The chat tasks *)

LEMMA ChatStepSafe ==
  ASSUME SafeInv, NEW c \in Chats, ChatNext(c)
  PROVE  SafeInv'
<1>1. TypeOK /\ RobotTypeOK /\ JobsKnown /\ NavAhead /\ ActivationsStarted
  BY DEF SafeInv, TypeOK
<1>2. NoTask \in TaskOrNone
  BY DEF TaskOrNone
<1>3. ASSUME chat' \in [Chats -> ChatState], slow_agent_running' \in BOOLEAN,
             grants' \in Nat, nav' \in NavState, NavAhead',
             UNCHANGED <<jobs, message_queue, faults, main, stateVars, primitive_ids_map>>
      PROVE  SafeInv'
  <2>1. TypeOK'
    BY <1>1, <1>3 DEF TypeOK, RobotTypeOK, stateVars
  <2>2. /\ JobsKnown' /\ NavAhead' /\ ActivationsStarted'
        /\ \A t \in Tasks : Started(t) => Started(t)'
    BY <1>3, JobsUntouched
  <2>3. HandledStarted' /\ ConfirmedMeansStarted'
    BY <1>3, <2>2, QuietKeeps
  <2>4. QED
    BY <2>1, <2>2, <2>3 DEF SafeInv
<1>4. CASE StartChat(c)
  <2>1. chat' = [chat EXCEPT ![c].at = "agents", ![c].held = primitive_in_execution]
    BY <1>4 DEF StartChat
  <2>2. chat' \in [Chats -> ChatState]
    BY <1>1, <2>1 DEF TypeOK, ChatState
  <2>3. /\ slow_agent_running' = TRUE
        /\ UNCHANGED <<grants, jobs, message_queue, faults, main, stateVars,
                       primitive_ids_map, nav>>
    BY <1>4 DEF StartChat, robotVars
  <2>4. nav' \in NavState /\ NavAhead'
    BY <1>1, <2>3 DEF TypeOK, NavAhead
  <2>5. QED
    BY <1>1, <1>3, <2>2, <2>3, <2>4 DEF RobotTypeOK
<1>5. ASSUME NEW at \in {"done", "raised"}, AgentsDone(c, at)
      PROVE  /\ chat' \in [Chats -> ChatState]
             /\ slow_agent_running' \in BOOLEAN
             /\ UNCHANGED <<message_queue, faults, main>>
  BY <1>1, <1>2, <1>5 DEF AgentsDone, TypeOK, ChatState
<1>6. CASE ChatAnswered(c)
  <2>1. /\ AgentsDone(c, "done") /\ grants' = grants + 1
        /\ UNCHANGED <<jobs, stateVars, primitive_ids_map, nav>>
    BY <1>6 DEF ChatAnswered
  <2>2. nav' \in NavState /\ NavAhead'
    BY <1>1, <2>1 DEF TypeOK, NavAhead
  <2>3. QED
    BY <1>1, <1>3, <1>5, <2>1, <2>2 DEF RobotTypeOK
<1>7. CASE ChatRaises(c)
  <2>1. /\ AgentsDone(c, "raised") /\ ConversionRaises
        /\ UNCHANGED <<grants, jobs, stateVars, primitive_ids_map>>
    BY <1>7 DEF ChatRaises
  <2>2. nav' \in NavState /\ NavAhead'
    BY <1>1, <2>1, ConversionRaisesSafe
  <2>3. QED
    BY <1>1, <1>3, <1>5, <2>1, <2>2 DEF RobotTypeOK
<1>8. ASSUME Output, chat' \in [Chats -> ChatState], slow_agent_running' \in BOOLEAN,
             UNCHANGED <<message_queue, faults, main>>
      PROVE  SafeInv'
  <2>1. /\ chat' \in [Chats -> ChatState] /\ slow_agent_running' \in BOOLEAN
        /\ UNCHANGED <<message_queue, faults, main>>
    BY <1>8
  <2>3. OutputKeeps
    BY <1>8, OutputSafe
  <2>4. TypeOK'
    BY <1>1, <2>1, <2>3 DEF TypeOK, RobotTypeOK, OutputKeeps
  <2>5. HandledStarted'
    <3> SUFFICES ASSUME main.at = "activated"
                 PROVE  /\ main.id \in Tasks /\ Started(main.id)'
                        /\ primitive_activation_seen' => primitive_in_execution' = main.held
      BY <2>1 DEF HandledStarted, Started
    <3>1. /\ main.id \in Tasks /\ Started(main.id)
          /\ primitive_activation_seen => primitive_in_execution = main.held
      BY DEF SafeInv, HandledStarted
    <3>2. Started(main.id)'
      <4>1. PICK t \in Tasks : main.id = t /\ Started(t)
        BY <3>1
      <4>2. Started(t)'
        BY <2>3, <4>1 DEF OutputKeeps
      <4>3. QED
        BY <2>1, <4>1, <4>2 DEF Started
    <3>3. ASSUME primitive_activation_seen' PROVE primitive_in_execution' = main.held
      <4>1. primitive_activation_seen /\ primitive_in_execution' = primitive_in_execution
        BY <2>3, <3>3, Zenon DEF OutputKeeps
      <4>2. QED
        BY <3>1, <4>1
    <3>4. QED
      BY <3>1, <3>2, <3>3
  <2>6. ActivationsStarted'
    BY <1>1, <2>1, <2>3 DEF ActivationsStarted, OutputKeeps, Started
  <2>7. QED
    BY <2>3, <2>4, <2>5, <2>6 DEF SafeInv, OutputKeeps
<1>9. CASE ChatSeen(c)
  BY <1>1, <1>5, <1>8, <1>9, AnswerWithoutTaskOutput, AnswerWithTaskOutput DEF ChatSeen
<1>10. QED
  BY <1>4, <1>6, <1>7, <1>9 DEF ChatNext, ChatEnds

----------------------------------------------------------------------------
(* The theorems *)

LEMMA SafeInit == Init => SafeInv
<1> SUFFICES ASSUME Init PROVE SafeInv
  OBVIOUS
<1>1. NoTask \in TaskOrNone
  BY DEF TaskOrNone
<1>2. RobotTypeOK
  BY BoundsAssumption DEF Init, RobotInit, RobotTypeOK, Faults, Status
<1>3. nav \in NavState
  BY <1>1, MaxIterationsAssumption DEF Init, NavState
<1>4. TypeOK
  BY <1>1, <1>2, <1>3, IdleType DEF Init, TypeOK, ChatState
<1>5. JobsKnown /\ NavAhead /\ ActivationsStarted /\ HandledStarted
  BY DEF Init, RobotInit, JobsKnown, NavAhead, ActivationsStarted, HandledStarted, Idle
<1>6. ConfirmedMeansStarted
  BY DEF Init, ConfirmedMeansStarted
<1>7. QED
  BY <1>4, <1>5, <1>6 DEF SafeInv

LEMMA SafeStep == SafeInv /\ [Next]_vars => SafeInv'
<1> SUFFICES ASSUME SafeInv, [Next]_vars PROVE SafeInv'
  OBVIOUS
<1>1. CASE RobotStep
  BY <1>1, RobotStepSafe
<1>2. CASE MainNext
  BY <1>2, ImageStepsSafe, TerminalStepsSafe, HandleActivatedSafe, FinishActivatedSafe,
     HandleResetSafe, FinishVisionSafe, HopSafe, RaisesSafe DEF MainNext
<1>3. ASSUME NEW c \in Chats, ChatNext(c) PROVE SafeInv'
  BY <1>3, ChatStepSafe
<1>4. CASE UNCHANGED vars
  BY <1>4 DEF SafeInv, vars, robotVars, stateVars, TypeOK, RobotTypeOK, JobsKnown,
     NavAhead, ActivationsStarted, HandledStarted, ConfirmedMeansStarted, Started
<1>5. QED
  BY <1>1, <1>2, <1>3, <1>4 DEF Next

\* Throughout every session the tracked state of the brain, the tasks the robot
\* was sent, the continuous navigation and the activations in the queue agree as
\* SafeInv says: the inductive invariant behind the two theorems below.
THEOREM SafeInvariant == Spec => []SafeInv
  BY SafeInit, SafeStep, PTL DEF Spec

\* Every variable of the brain and the robot keeps its type; in particular the
\* hops of a continuous navigation never pass max_iterations (processing in
\* nav_insight_continuous.py).
THEOREM TypeCorrect == Spec => []TypeOK
<1>1. SafeInv => TypeOK
  BY DEF SafeInv
<1>2. QED
  BY <1>1, SafeInvariant, PTL

\* Whatever chats, resets and late reports do in between, the activation flag is
\* only ever up for a primitive the robot really started (brain.py,
\* handle_primitive_activated and _send_vision_output).
THEOREM ConfirmedStarted == Spec => []ConfirmedMeansStarted
<1>1. SafeInv => ConfirmedMeansStarted
  BY DEF SafeInv
<1>2. QED
  BY <1>1, SafeInvariant, PTL

----------------------------------------------------------------------------
(* The image loop *)

\* slow_agent_running is only up while some chat's agents run, whose answer will
\* ask for another image.
FlagMeansAgents ==
  slow_agent_running => \E c \in Chats : chat[c].at = "agents"

\* While an activation is being handled the image it asked for is on its way.
ActivationAsked ==
  main.at = "activated" => grants > 0 \/ InQueue({"image"}) # {}

LoopInv == FlagMeansAgents /\ ActivationAsked

----------------------------------------------------------------------------
(* The queue *)

LEMMA EnqueueShape ==
  ASSUME RobotTypeOK, NEW type, NEW id, [type |-> type, id |-> id] \in Message,
         Enqueue(type, id)
  PROVE  /\ \A i \in DOMAIN message_queue :
              i \in DOMAIN message_queue' /\ message_queue'[i] = message_queue[i]
         /\ \E i \in DOMAIN message_queue' :
              message_queue'[i] = [type |-> type, id |-> id]
<1>1. /\ message_queue \in Seq(Message)
      /\ message_queue' = Append(message_queue, [type |-> type, id |-> id])
  BY DEF RobotTypeOK, Enqueue
<1>2. /\ Len(message_queue) + 1 \in DOMAIN message_queue'
      /\ message_queue'[Len(message_queue) + 1] = [type |-> type, id |-> id]
  BY <1>1
<1>3. \A i \in DOMAIN message_queue :
        i \in DOMAIN message_queue' /\ message_queue'[i] = message_queue[i]
  BY <1>1
<1>4. QED
  BY <1>2, <1>3

LEMMA TakeShape ==
  ASSUME RobotTypeOK, NEW type, Takes(type), NEW i \in DOMAIN message_queue, i # 1
  PROVE  i - 1 \in DOMAIN message_queue' /\ message_queue'[i - 1] = message_queue[i]
BY DEF RobotTypeOK, Takes

\* What waits in the queue still waits after a message was added...
LEMMA EnqueueKeepsWaiting ==
  ASSUME RobotTypeOK, NEW type, NEW id, [type |-> type, id |-> id] \in Message,
         Enqueue(type, id), NEW types, InQueue(types) # {}
  PROVE  InQueue(types)' # {}
<1>1. PICK i \in DOMAIN message_queue : message_queue[i].type \in types
  BY DEF InQueue
<1>2. i \in DOMAIN message_queue' /\ message_queue'[i].type \in types
  BY <1>1, EnqueueShape
<1>3. QED
  BY <1>2 DEF InQueue

\* ...and after a message of another type was taken.
LEMMA TakeKeepsWaiting ==
  ASSUME RobotTypeOK, NEW type, Takes(type), NEW types, type \notin types,
         InQueue(types) # {}
  PROVE  InQueue(types)' # {}
<1>1. PICK i \in DOMAIN message_queue : message_queue[i].type \in types
  BY DEF InQueue
<1>2. i # 1
  BY <1>1, TakeFacts
<1>3. i - 1 \in DOMAIN message_queue' /\ message_queue'[i - 1].type \in types
  BY <1>1, <1>2, TakeShape
<1>4. QED
  BY <1>3 DEF InQueue

\* A message just added is in the queue.
LEMMA EnqueueWaits ==
  ASSUME RobotTypeOK, NEW type, NEW id, [type |-> type, id |-> id] \in Message,
         Enqueue(type, id), NEW types, type \in types
  PROVE  InQueue(types)' # {}
<1>1. PICK i \in DOMAIN message_queue' :
        message_queue'[i] = [type |-> type, id |-> id]
  BY EnqueueShape
<1>2. message_queue'[i].type \in types
  BY <1>1
<1>3. QED
  BY <1>1, <1>2 DEF InQueue

----------------------------------------------------------------------------
(* Outputs *)

\* An output asks for an image, or sends a task that will.
LEMMA OutputAlive ==
  ASSUME SafeInv, Output
  PROVE  grants' > 0 \/ Awaited'
<1>1. PICK stop \in BOOLEAN, sent \in SUBSET Job, kept \in TaskOrNone :
        /\ SendVisionOutput(stop, sent, kept)
        /\ sent # {} => kept \in Tasks
        /\ \A j \in sent : jobs[j] = "none" /\ j[1] = kept
  BY DEF Output
<1>2. CASE sent = {}
  BY <1>1, <1>2 DEF SendVisionOutput, SafeInv, TypeOK, RobotTypeOK
<1>3. CASE sent # {}
  <2>1. PICK j \in sent : TRUE
    BY <1>3
  <2>2. kept # NoTask
    BY <1>1, <1>3, NoTaskAssumption
  <2>3. primitive_in_execution' = kept /\ primitive_activation_seen' = FALSE
    BY <1>1, <2>2 DEF SendVisionOutput, Remember
  <2>4. jobs'[j] = "sent" /\ j[1] = kept
    BY <1>1, <2>1 DEF SendVisionOutput, AfterOutput
  <2>5. j = <<kept, j[2]>> /\ j[2] \in 0 .. MaxIterations
    BY <2>1, <2>4 DEF Job
  <2>6. jobs'[<<primitive_in_execution', j[2]>>] = "sent"
    BY <2>3, <2>4, <2>5
  <2>7. QED
    BY <2>2, <2>3, <2>5, <2>6 DEF Awaited
<1>4. QED
  BY <1>2, <1>3

----------------------------------------------------------------------------
(* Nothing stalls: the robot *)

\* What the robot does with a request, a task or a report turns it into the next
\* thing that is outstanding.
LEMMA RobotStepLoop ==
  ASSUME SafeInv, LoopInv, RobotStep
  PROVE  LoopInv' /\ KeepsAlive
<1>1. RobotTypeOK /\ jobs \in [Job -> Status] /\ grants \in Nat
  BY DEF SafeInv, TypeOK, RobotTypeOK
<1>2. UNCHANGED <<main, chat, primitive_in_execution, primitive_activation_seen,
                  slow_agent_running>>
  BY DEF RobotStep, stateVars
<1>3. FlagMeansAgents'
  BY <1>2 DEF LoopInv, FlagMeansAgents
<1> DEFINE News == {"image", "reset", "activated"}
<1>4. ASSUME SendImage PROVE InQueue({"image"})' # {} /\ InQueue(News)' # {}
  <2>1. Enqueue("image", NoTask) /\ [type |-> "image", id |-> NoTask] \in Message
    BY <1>4 DEF SendImage, Message, TaskOrNone
  <2>2. QED
    BY <1>1, <2>1, EnqueueWaits
<1>5. ASSUME ~SendImage
      PROVE  /\ grants' = grants
             /\ \A types : InQueue(types) # {} => InQueue(types)' # {}
  <2>1. /\ grants' = grants
        /\ \E type \in Terminals \cup {"activated", "reset"}, id \in TaskOrNone :
             Enqueue(type, id)
    BY <1>5 DEF RobotStep, RobotNext, StartJob, RefuseJob, EndJob, AskReset, Job,
                TaskOrNone, Terminals
  <2>2. PICK type \in Terminals \cup {"activated", "reset"}, id \in TaskOrNone :
          Enqueue(type, id)
    BY <2>1
  <2>3. [type |-> type, id |-> id] \in Message
    BY DEF Message
  <2>4. QED
    BY <1>1, <2>1, <2>2, <2>3, EnqueueKeepsWaiting
<1>6. ActivationAsked'
  BY <1>2, <1>4, <1>5 DEF LoopInv, ActivationAsked
<1>7. ASSUME Awaited PROVE Awaited' \/ InQueue(News)' # {}
  <2> DEFINE pie == primitive_in_execution
  <2>1. pie # NoTask /\ ~primitive_activation_seen /\ pie \in Tasks
    BY <1>7 DEF Awaited, SafeInv, TypeOK, TaskOrNone
  <2>2. ASSUME NEW i \in DOMAIN message_queue', message_queue'[i].type \in Terminals,
               message_queue'[i].id = pie
        PROVE  Awaited'
    BY <1>2, <2>1, <2>2 DEF Awaited, InQueue
  <2>3. ASSUME NEW i \in InQueue(Terminals), message_queue[i].id = pie PROVE Awaited'
    <3>1. PICK type, id : Enqueue(type, id) /\ [type |-> type, id |-> id] \in Message
      BY DEF RobotStep, RobotNext, SendImage, StartJob, RefuseJob, EndJob, AskReset, Job,
             TaskOrNone, Terminals, Message
    <3>2. i \in DOMAIN message_queue' /\ message_queue'[i] = message_queue[i]
      BY <1>1, <2>3, <3>1, EnqueueShape DEF InQueue
    <3>3. QED
      BY <2>2, <2>3, <3>2 DEF InQueue
  <2>4. ASSUME NEW h \in 0 .. MaxIterations, jobs[<<pie, h>>] = "sent",
               jobs'[<<pie, h>>] = "sent"
        PROVE  Awaited'
    BY <1>2, <2>1, <2>4 DEF Awaited
  <2>5. ASSUME NEW h \in 0 .. MaxIterations, jobs[<<pie, h>>] = "sent",
               jobs'[<<pie, h>>] # "sent"
        PROVE  Awaited' \/ InQueue(News)' # {}
    <3>1. <<pie, h>> \in Job
      BY <2>1 DEF Job
    <3>2. StartJob(<<pie, h>>) \/ RefuseJob(<<pie, h>>)
      BY <1>1, <2>5, <3>1 DEF RobotStep, RobotNext, SendImage, StartJob, RefuseJob,
                              EndJob, AskReset
    <3>3. CASE StartJob(<<pie, h>>)
      <4>1. Enqueue("activated", pie) /\ [type |-> "activated", id |-> pie] \in Message
        BY <2>1, <3>3 DEF StartJob, Message, TaskOrNone
      <4>2. QED
        BY <1>1, <4>1, EnqueueWaits
    <3>4. CASE RefuseJob(<<pie, h>>)
      <4>1. Enqueue("failed", pie) /\ [type |-> "failed", id |-> pie] \in Message
        BY <2>1, <3>4 DEF RefuseJob, Message, TaskOrNone, Terminals
      <4>2. PICK i \in DOMAIN message_queue' :
              message_queue'[i] = [type |-> "failed", id |-> pie]
        BY <1>1, <4>1, EnqueueShape
      <4>3. QED
        BY <2>2, <4>2 DEF Terminals
    <3>5. QED
      BY <3>2, <3>3, <3>4
  <2>6. QED
    BY <1>7, <2>3, <2>4, <2>5 DEF Awaited
<1>8. KeepsAlive
  <2>1. CASE SendImage
    BY <1>4, <2>1 DEF KeepsAlive, ImageLoopAlive
  <2>2. CASE ~SendImage
    BY <1>2, <1>5, <1>7, <2>2 DEF KeepsAlive, ImageLoopAlive
  <2>3. QED
    BY <2>1, <2>2
<1>9. QED
  BY <1>3, <1>6, <1>8 DEF LoopInv

----------------------------------------------------------------------------
(* Nothing stalls: the main loop *)

\* A step that asks for an image keeps the loop going.
LEMMA AskingLoop ==
  ASSUME SafeInv, FlagMeansAgents', grants' > 0
  PROVE  LoopInv' /\ KeepsAlive
BY DEF LoopInv, KeepsAlive, ImageLoopAlive, ActivationAsked

LEMMA ImageStepsLoop ==
  ASSUME SafeInv, LoopInv, SkipImage \/ RejectImage \/ StartVision \/ EndHops \/ Hop
  PROVE  LoopInv' /\ KeepsAlive
<1>1. /\ grants \in Nat
      /\ UNCHANGED <<chat, slow_agent_running>>
      /\ main.at = "idle"
  BY DEF SafeInv, TypeOK, RobotTypeOK, SkipImage, RejectImage, StartVision, EndHops, Hop,
         Takes
<1>2. FlagMeansAgents'
  BY <1>1 DEF LoopInv, FlagMeansAgents
<1>3. CASE RejectImage \/ EndHops
  <2>1. grants' = grants + 1
    BY <1>3 DEF RejectImage, EndHops
  <2>2. QED
    BY <1>1, <1>2, <2>1, AskingLoop
<1>4. CASE SkipImage
  <2>1. slow_agent_running /\ main' = main
    BY <1>4 DEF SkipImage
  <2>2. \E c \in Chats : chat'[c].at = "agents"
    BY <1>1, <2>1 DEF LoopInv, FlagMeansAgents
  <2>3. ImageLoopAlive' /\ ActivationAsked'
    BY <1>1, <2>1, <2>2 DEF ImageLoopAlive, ActivationAsked
  <2>4. QED
    BY <1>2, <2>3 DEF LoopInv, KeepsAlive
<1>5. CASE StartVision
  <2>1. main'.at = "vlm"
    BY <1>5 DEF StartVision
  <2>2. QED
    BY <1>2, <2>1 DEF LoopInv, KeepsAlive, ImageLoopAlive, ActivationAsked
<1>6. CASE Hop
  <2>1. TypeOK /\ NavAhead /\ main' = main
    BY <1>6 DEF SafeInv, Hop
  <2>2. grants' > 0 \/ Awaited'
    BY <1>6, <2>1, HopOutput, OutputAlive
  <2>3. QED
    BY <1>1, <1>2, <2>1, <2>2
    DEF LoopInv, KeepsAlive, ImageLoopAlive, ActivationAsked
<1>7. QED
  BY <1>3, <1>4, <1>5, <1>6

LEMMA RaisesLoop ==
  ASSUME SafeInv, LoopInv, RaiseImage \/ RaiseVision \/ RaiseHop
  PROVE  LoopInv' /\ KeepsAlive
<1>1. UNCHANGED <<chat, slow_agent_running>> /\ main'.at # "activated"
  BY DEF RaiseImage, RaiseVision, RaiseHop, ImageRaises, Takes, Idle
<1>2. LoopInv'
  BY <1>1 DEF LoopInv, FlagMeansAgents, ActivationAsked
<1>3. QED
  BY <1>2 DEF KeepsAlive, Raises

LEMMA FinishVisionLoop ==
  ASSUME SafeInv, LoopInv, FinishVision
  PROVE  LoopInv' /\ KeepsAlive
<1>1. /\ TypeOK /\ JobsKnown /\ NavAhead
      /\ UNCHANGED <<chat, slow_agent_running>>
      /\ main'.at = "idle"
  BY DEF SafeInv, FinishVision, Idle
<1>2. FlagMeansAgents'
  BY <1>1 DEF LoopInv, FlagMeansAgents
<1>3. grants' > 0 \/ Awaited'
  BY <1>1, AnswerWithoutTaskOutput, AnswerWithTaskOutput, OutputAlive DEF FinishVision
<1>4. QED
  BY <1>1, <1>2, <1>3
  DEF LoopInv, KeepsAlive, ImageLoopAlive, ActivationAsked

\* A terminal of the awaited primitive re-arms the loop, any other leaves it be.
LEMMA TerminalLoop ==
  ASSUME SafeInv, LoopInv, NEW type \in Terminals, HandleTerminal(type)
  PROVE  LoopInv' /\ KeepsAlive
<1> DEFINE cleared == primitive_in_execution # NoTask
                      /\ primitive_in_execution = Head(message_queue).id
<1>1. RobotTypeOK /\ grants \in Nat
  BY DEF SafeInv, TypeOK, RobotTypeOK
<1>2. /\ Takes(type) /\ main.at = "idle"
      /\ UNCHANGED <<jobs, chat, slow_agent_running>>
  BY DEF HandleTerminal, Takes
<1>3. FlagMeansAgents'
  BY <1>2 DEF LoopInv, FlagMeansAgents
<1>4. main'.at # "activated"
  BY <1>2 DEF HandleTerminal, Idle
<1>5. grants' \in {grants, grants + 1}
  BY DEF HandleTerminal, Resolves
<1>6. CASE cleared /\ ~primitive_activation_seen
  <2>1. grants' = grants + 1
    BY <1>6 DEF HandleTerminal, Rearms, Resolves
  <2>2. QED
    BY <1>1, <1>3, <2>1, AskingLoop
<1>7. CASE ~(cleared /\ ~primitive_activation_seen)
  <2>1. InQueue({"image", "reset", "activated"}) # {}
          => InQueue({"image", "reset", "activated"})' # {}
    <3>1. type \notin {"image", "reset", "activated"}
      BY DEF Terminals
    <3>2. QED
      BY <1>1, <1>2, <3>1, TakeKeepsWaiting
  <2>2. ASSUME Awaited PROVE Awaited'
    <3>1. ~cleared
      BY <1>7, <2>2 DEF Awaited
    <3>2. UNCHANGED primitive_in_execution
      BY <3>1 DEF HandleTerminal, Resolves
    <3>3. ~primitive_activation_seen'
      BY <2>2 DEF HandleTerminal, Resolves, Awaited
    <3>4. CASE \E h \in 0 .. MaxIterations : jobs[<<primitive_in_execution, h>>] = "sent"
      BY <1>2, <2>2, <3>2, <3>3, <3>4 DEF Awaited
    <3>5. ASSUME NEW i \in InQueue(Terminals),
                 message_queue[i].id = primitive_in_execution
          PROVE  Awaited'
      <4>1. i \in DOMAIN message_queue /\ message_queue[i].type \in Terminals
        BY <3>5 DEF InQueue
      <4>2. i # 1
        BY <1>1, <1>2, <2>2, <3>1, <3>5, TakeFacts DEF Awaited
      <4>3. i - 1 \in DOMAIN message_queue' /\ message_queue'[i - 1] = message_queue[i]
        BY <1>1, <1>2, <4>1, <4>2, TakeShape
      <4>4. i - 1 \in InQueue(Terminals)'
        BY <4>1, <4>3 DEF InQueue
      <4>5. QED
        BY <2>2, <3>2, <3>3, <3>5, <4>3, <4>4 DEF Awaited
    <3>6. QED
      BY <2>2, <3>4, <3>5 DEF Awaited
  <2>3. KeepsAlive
    BY <1>1, <1>2, <1>5, <2>1, <2>2 DEF KeepsAlive, ImageLoopAlive
  <2>4. QED
    BY <1>3, <1>4, <2>3 DEF LoopInv, ActivationAsked
<1>8. QED
  BY <1>6, <1>7

LEMMA ReportStepsLoop ==
  ASSUME SafeInv, LoopInv,
         FinishTerminal \/ HandleActivated \/ FinishActivated \/ HandleReset
  PROVE  LoopInv' /\ KeepsAlive
<1>1. grants \in Nat
  BY DEF SafeInv, TypeOK, RobotTypeOK
<1>2. FlagMeansAgents'
  BY DEF LoopInv, FlagMeansAgents, FinishTerminal, HandleActivated, FinishActivated,
         HandleReset
<1>3. CASE HandleActivated \/ HandleReset
  <2>1. grants' = grants + 1
    BY <1>3 DEF HandleActivated, HandleReset
  <2>2. QED
    BY <1>1, <1>2, <2>1, AskingLoop
<1>4. CASE FinishActivated
  <2>1. main.at = "activated" /\ main'.at = "idle" /\ UNCHANGED <<grants, message_queue>>
    BY <1>4 DEF FinishActivated, robotVars, Idle
  <2>2. grants' > 0 \/ InQueue({"image"})' # {}
    BY <2>1 DEF LoopInv, ActivationAsked, InQueue
  <2>3. ImageLoopAlive'
    BY <2>2 DEF ImageLoopAlive, InQueue
  <2>4. QED
    BY <1>2, <2>1, <2>3 DEF LoopInv, KeepsAlive, ActivationAsked
<1>5. CASE FinishTerminal
  <2>1. /\ main.at = "terminal" /\ main'.at = "idle"
        /\ UNCHANGED <<grants, jobs, message_queue, chat, primitive_in_execution,
                       primitive_activation_seen>>
    BY <1>5 DEF FinishTerminal, robotVars, stateVars, Idle
  <2>2. KeepsAlive
    BY <2>1 DEF KeepsAlive, ImageLoopAlive, Awaited, InQueue
  <2>3. QED
    BY <1>2, <2>1, <2>2 DEF LoopInv, ActivationAsked
<1>6. QED
  BY <1>3, <1>4, <1>5

----------------------------------------------------------------------------
(* Nothing stalls: the chat tasks *)

LEMMA ChatStepLoop ==
  ASSUME SafeInv, LoopInv, NEW c \in Chats, ChatNext(c)
  PROVE  LoopInv' /\ KeepsAlive
<1>1. /\ TypeOK /\ JobsKnown /\ NavAhead /\ grants \in Nat
      /\ chat \in [Chats -> ChatState]
  BY DEF SafeInv, TypeOK, RobotTypeOK
<1>2. CASE StartChat(c)
  <2>1. /\ chat' = [chat EXCEPT ![c].at = "agents", ![c].held = primitive_in_execution]
        /\ UNCHANGED <<grants, message_queue, main>>
    BY <1>2 DEF StartChat, robotVars
  <2>2. \E d \in Chats : chat'[d].at = "agents"
    BY <1>1, <2>1 DEF ChatState
  <2>3. ActivationAsked'
    BY <2>1 DEF LoopInv, ActivationAsked, InQueue
  <2>4. QED
    BY <2>2, <2>3 DEF LoopInv, FlagMeansAgents, KeepsAlive, ImageLoopAlive
<1>3. ASSUME NEW at, AgentsDone(c, at)
      PROVE  /\ FlagMeansAgents'
             /\ UNCHANGED <<message_queue, main>>
             /\ chat'[c].at = at
  <2>1. chat' = [chat EXCEPT ![c] = [at |-> at, held |-> NoTask]]
    BY <1>3 DEF AgentsDone
  <2>2. QED
    BY <1>1, <1>3, <2>1 DEF AgentsDone, FlagMeansAgents
<1>4. CASE ChatAnswered(c)
  <2>1. grants' = grants + 1 /\ AgentsDone(c, "done")
    BY <1>4 DEF ChatAnswered
  <2>2. QED
    BY <1>1, <1>3, <2>1, AskingLoop
<1>5. CASE ChatSeen(c)
  <2>1. AgentsDone(c, "done") /\ (AnswerWithoutTask \/ AnswerWithTask(chat[c].held))
    BY <1>5 DEF ChatSeen
  <2>2. Output
    BY <1>1, <2>1, AnswerWithoutTaskOutput, AnswerWithTaskOutput
  <2>3. grants' > 0 \/ Awaited'
    BY <2>2, OutputAlive
  <2>4. grants' \in {grants, grants + 1}
    BY <2>2 DEF Output, SendVisionOutput
  <2>5. ActivationAsked'
    BY <1>1, <1>3, <2>1, <2>4 DEF LoopInv, ActivationAsked, InQueue
  <2>6. QED
    BY <1>3, <2>1, <2>3, <2>5 DEF LoopInv, KeepsAlive, ImageLoopAlive
<1>6. CASE ChatRaises(c)
  <2>1. AgentsDone(c, "raised") /\ UNCHANGED grants
    BY <1>6 DEF ChatRaises
  <2>2. ActivationAsked'
    BY <1>3, <2>1 DEF LoopInv, ActivationAsked, InQueue
  <2>3. QED
    BY <1>3, <1>6, <2>1, <2>2 DEF LoopInv, KeepsAlive, Raises
<1>7. QED
  BY <1>2, <1>4, <1>5, <1>6 DEF ChatNext, ChatEnds

----------------------------------------------------------------------------
(* The theorem *)

LEMMA LoopInit == Init => LoopInv
BY DEF Init, RobotInit, LoopInv, FlagMeansAgents, ActivationAsked, Idle

LEMMA LoopStep == SafeInv /\ LoopInv /\ [Next]_vars => LoopInv' /\ [KeepsAlive]_vars
<1> SUFFICES ASSUME SafeInv, LoopInv, [Next]_vars
             PROVE  LoopInv' /\ (KeepsAlive \/ UNCHANGED vars)
  OBVIOUS
<1>1. CASE RobotStep
  BY <1>1, RobotStepLoop
<1>2. CASE MainNext
  BY <1>2, ImageStepsLoop, FinishVisionLoop, TerminalLoop, ReportStepsLoop, RaisesLoop
  DEF MainNext
<1>3. ASSUME NEW c \in Chats, ChatNext(c) PROVE LoopInv' /\ KeepsAlive
  BY <1>3, ChatStepLoop
<1>4. CASE UNCHANGED vars
  BY <1>4 DEF LoopInv, vars, robotVars, stateVars, InQueue, FlagMeansAgents,
     ActivationAsked
<1>5. QED
  BY <1>1, <1>2, <1>3, <1>4 DEF Next

LEMMA LoopInvariant == Spec => []LoopInv
  BY LoopInit, LoopStep, SafeInvariant, PTL DEF Spec

\* However chats, activations, terminals, hops, resets and unusable images
\* interleave, no step leaves nothing outstanding that leads to another image,
\* unless it is one where the handling of an image or of a chat's answer raises
\* (brain.py, process_message, _process_image, _finish_terminal_lifecycle,
\* handle_primitive_activated and _process_chat_immediately).
THEOREM LoopNeverStalls == Spec => LoopStallsOnlyByRaise
  BY LoopStep, LoopInvariant, SafeInvariant, PTL DEF Spec, LoopStallsOnlyByRaise
============================================================================
