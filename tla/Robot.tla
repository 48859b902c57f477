------------------------------- MODULE Robot -------------------------------
(***************************************************************************)
(* The robot at the other end of the websocket, and the wire to the brain. *)
(*                                                                         *)
(* The robot is not part of this repository.  What it does is read off the *)
(* way the brain uses it (README.md "Image Exchange and Command Flow" and  *)
(* "Primitive Execution Flow", brain.py's comments on the image loop): it  *)
(* sends one image per ready_for_image, starts or refuses every task it is *)
(* sent, and reports exactly one terminal event per task.  It is free to   *)
(* do each of these as late as it likes.  Its reports carry the fields the *)
(* handlers read; an image it sends may be of no use.                      *)
(*                                                                         *)
(* A task may be sent more than once under one primitive_id: continuous    *)
(* navigation sends one navigate_to_position per hop and reuses the id.    *)
(* The robot therefore works on jobs <<id, hop>>, and reports only the id. *)
(***************************************************************************)
EXTENDS Integers, Sequences

CONSTANTS
  Tasks,          \* the primitive ids the brain can hand out
  NoTask,         \* Python's None in place of a primitive
  MaxIterations,  \* max_iterations of one continuous navigation
  MaxResets,      \* bound: reset messages in a session
  MaxBadImages,   \* bound: images that are answered with an error
  MaxRaises       \* bound: images whose handling raises

ASSUME NoTaskAssumption == NoTask \notin Tasks
ASSUME MaxIterationsAssumption == MaxIterations \in Nat \ {0}
ASSUME BoundsAssumption == MaxResets \in Nat /\ MaxBadImages \in Nat /\ MaxRaises \in Nat

VARIABLES
  grants,         \* ready_for_image messages the robot has not answered
  jobs,           \* the robot's progress on each job
  message_queue,  \* the robot's messages the brain's loop has not taken yet
  faults          \* how many resets, errors and raises there have been

robotVars == <<grants, jobs, message_queue, faults>>

TaskOrNone == Tasks \cup {NoTask}

\* Hop 0 is a task sent once; hops 1.. are the moves of a continuous navigation.
Job == Tasks \X (0 .. MaxIterations)

Terminals == {"completed", "failed", "interrupted"}

Message ==
  [type : {"image", "reset", "activated"} \cup Terminals, id : TaskOrNone]

\* "refused" is a job reported failed without ever having been started.
Status == {"none", "sent", "running", "stopping", "refused", "done"}

Faults ==
  [resets : 0 .. MaxResets, bad : 0 .. MaxBadImages, raised : 0 .. MaxRaises]

RobotTypeOK ==
  /\ grants \in Nat
  /\ jobs \in [Job -> Status]
  /\ message_queue \in Seq(Message)
  /\ faults \in Faults

\* The connection sends the first ready_for_image before any message is read.
RobotInit ==
  /\ grants = 1
  /\ jobs = [j \in Job |-> "none"]
  /\ message_queue = << >>
  /\ faults = [resets |-> 0, bad |-> 0, raised |-> 0]

----------------------------------------------------------------------------
(* What the robot does *)

\* enqueue_message: everything but a chat_in waits its turn in the queue.
Enqueue(type, id) ==
  message_queue' = Append(message_queue, [type |-> type, id |-> id])

\* One image for one ready_for_image.
SendImage ==
  /\ grants > 0
  /\ grants' = grants - 1
  /\ Enqueue("image", NoTask)
  /\ UNCHANGED <<jobs, faults>>

StartJob(j) ==
  /\ jobs[j] = "sent"
  /\ jobs' = [jobs EXCEPT ![j] = "running"]
  /\ Enqueue("activated", j[1])
  /\ UNCHANGED <<grants, faults>>

\* The never-started path: a terminal "failed" with no activation before it.
RefuseJob(j) ==
  /\ jobs[j] = "sent"
  /\ jobs' = [jobs EXCEPT ![j] = "refused"]
  /\ Enqueue("failed", j[1])
  /\ UNCHANGED <<grants, faults>>

EndJob(j, how) ==
  /\ jobs[j] \in {"running", "stopping"}
  /\ jobs' = [jobs EXCEPT ![j] = "done"]
  /\ Enqueue(how, j[1])
  /\ UNCHANGED <<grants, faults>>

AskReset ==
  /\ faults.resets < MaxResets
  /\ faults' = [faults EXCEPT !.resets = @ + 1]
  /\ Enqueue("reset", NoTask)
  /\ UNCHANGED <<grants, jobs>>

RobotNext ==
  \/ SendImage
  \/ \E j \in Job : StartJob(j) \/ RefuseJob(j)
  \/ \E j \in Job, how \in Terminals : EndJob(j, how)
  \/ AskReset

----------------------------------------------------------------------------
(* What the robot is sent *)

Live(j) == jobs[j] \in {"sent", "running"}

\* The jobs after a vision_agent_output: the running ones are stopped if it
\* says so, and the next task, if there is one, is on its way.
AfterOutput(stop, next) ==
  [j \in Job |-> IF j \in next THEN "sent"
                 ELSE IF stop /\ jobs[j] = "running" THEN "stopping"
                 ELSE jobs[j]]
============================================================================
