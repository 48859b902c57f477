---------------------------- MODULE MCPoseMemory ----------------------------
(***************************************************************************)
(* Instances of PoseMemory for TLC.  Poses lie on a line, looking the same *)
(* way, and see the next four cells.                                       *)
(***************************************************************************)
EXTENDS PoseMemory

CONSTANT Explorer   \* the one user whose robot goes everywhere

MCSees   == [p \in Places |-> p..(p + 3)]
MCNear   == {pq \in Places \X Places : pq[1] - pq[2] \in -1..1}
MCVisits == [u \in Users |-> IF u = Explorer THEN Places ELSE {1}]
=============================================================================
