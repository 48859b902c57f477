------------------------------ MODULE MCBrain ------------------------------
(* Brain, set up for TLC. *)
EXTENDS Brain, TLC

\* Ids and chats are interchangeable (for the runs that check safety alone).
Symmetry == Permutations(Tasks) \cup Permutations(Chats)
============================================================================
