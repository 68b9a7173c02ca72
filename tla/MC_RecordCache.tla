--------------------------- MODULE MC_RecordCache ---------------------------
(* RecordCache on small instances: goroutines w, instances i. *)
EXTENDS RecordCache

CONSTANTS w1, w2, w3, i1, i2
=============================================================================
