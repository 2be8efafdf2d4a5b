--------------------------- MODULE MCContinuation ---------------------------
(* Instances of Continuation for TLC. *)
EXTENDS Continuation, TLC

CONSTANTS w1, w2, c1, c2, i1, i2

FullSymmetry == Permutations(Workers) \cup Permutations(Contracts) \cup Permutations(Ids)
=============================================================================
