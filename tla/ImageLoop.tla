----------------------------- MODULE ImageLoop -----------------------------
(***************************************************************************)
(* What the brain promises the robot about images (README.md, "Image       *)
(* Exchange and Command Flow", and the comments on the image loop in       *)
(* brain.py): one image at a time is asked for, sent, looked at and        *)
(* answered, and an answer that carries a task holds the next request back *)
(* until the robot has started or refused that task.  There are never two  *)
(* images under way, and the loop stands still only once the handling of   *)
(* an image has raised: process_message logs that and asks for nothing.    *)
(***************************************************************************)

VARIABLE loop

Stages == {"granted", "queued", "thinking", "awaiting", "broken"}

Init == loop = "granted"

Move(from, to) == loop = from /\ loop' = to

SendImage    == Move("granted", "queued")
RejectImage  == Move("queued", "granted")     \* an unusable payload
Think        == Move("queued", "thinking")
Observe      == Move("thinking", "granted")   \* an answer without a task
Command      == Move("thinking", "awaiting")  \* an answer with a task
Acknowledge  == Move("awaiting", "granted")   \* the task started, or never will

\* The handling of the image raised: nothing is answered, nothing asked for.
Break == loop \in {"queued", "thinking"} /\ loop' = "broken"

Next ==
  \/ SendImage \/ RejectImage \/ Think
  \/ Observe \/ Command \/ Acknowledge
  \/ Break

Spec == Init /\ [][Next]_loop

\* The loop keeps turning until it breaks, and images are not rejected for ever.
FairSpec == Spec /\ WF_loop(Next) /\ SF_loop(Think)
============================================================================
