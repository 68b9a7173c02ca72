--------------------------- MODULE MC_TypedQueue ---------------------------
(* TypedQueue on small instances: keys k, timer goroutines t. *)
EXTENDS TypedQueue, TLC

CONSTANTS k1, k2, t1, t2

MCSymmetry == Permutations({k1, k2}) \cup Permutations({t1, t2})
=============================================================================
