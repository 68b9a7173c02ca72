-------------------------- MODULE MC_FortLifecycle --------------------------
(* FortLifecycle on small instances. *)
EXTENDS FortLifecycle, TLC

CONSTANTS f1, f2, c1, c2, w1, w2

MCSymmetry == Permutations({f1, f2}) \cup Permutations({c1, c2}) \cup Permutations({w1, w2})
=============================================================================
