---------------------------- MODULE MCConnection ----------------------------
(* Connection, set up for TLC: one key per user. *)
EXTENDS Connection

MCOwner == [k \in Keys |-> k]
=============================================================================
