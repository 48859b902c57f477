----------------------------- MODULE MCHistory -----------------------------
(* History, set up for TLC: one more thread than there can be resets. *)
EXTENDS History, TLC

Symmetry == Permutations(Threads)
=============================================================================
