--------------------------- MODULE MC_FortTracker ---------------------------
(* FortTracker on small instances. *)
EXTENDS FortTracker, TLC

CONSTANTS f1, f2, c1, c2

MCSymmetry == Permutations({f1, f2}) \cup Permutations({c1, c2})
-----------------------------------------------------------------------------
(* A statement of the sources that the code does not live up to. *)

\* decoder/fort_tracker.go:213: "Remove when cell.lastSeen - fort.lastSeen >
\* staleThreshold".  A fort that was seen just the threshold ago is not given up.
StalePastThreshold ==
    [][\A f \in condemned' \ condemned :
          cells'[forts[f].cell].seen - sighted[f] > StaleThreshold]_vars
=============================================================================
