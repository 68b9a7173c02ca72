-------------------------- MODULE WriteBehindStore --------------------------
(***************************************************************************)
(* What a write-behind queue promises to those who save entities through   *)
(* it, without goroutines, maps, batches or timers.  Snapshots of a key    *)
(* are numbered in the order in which they were saved.  The store holds    *)
(* some snapshots of each key; it may forget one only for the sake of a    *)
(* newer one it holds; it writes held snapshots, several keys at a time,   *)
(* each at most once; and it gives a snapshot up only by failing to write. *)
(* It does NOT promise that the snapshots of a key are written in order.   *)
(***************************************************************************)
EXTENDS Integers

CONSTANTS Keys, MaxWrites

VARIABLES saved, held, row, landed, failed
vars == <<saved, held, row, landed, failed>>

Init ==
    /\ saved = [k \in Keys |-> 0]
    /\ held = [k \in Keys |-> {}]
    /\ row = [k \in Keys |-> 0]
    /\ landed = [k \in Keys |-> 0]
    /\ failed = [k \in Keys |-> 0]

\* A new snapshot replaces at most one older snapshot.
Save(k) ==
    /\ saved[k] < MaxWrites
    /\ saved' = [saved EXCEPT ![k] = @ + 1]
    /\ \E old \in {{}} \cup {{v} : v \in held[k]} :
          held' = [held EXCEPT ![k] = (@ \ old) \cup {saved[k] + 1}]
    /\ UNCHANGED <<row, landed, failed>>

\* A snapshot is dropped because a newer one is held.
Merge(k) ==
    /\ \E old \in held[k] :
          /\ \E new \in held[k] : old < new
          /\ held' = [held EXCEPT ![k] = @ \ {old}]
    /\ UNCHANGED <<saved, row, landed, failed>>

\* b picks one held snapshot of each key it is not 0 for.
Batch(b) == \A k \in Keys : b[k] # 0 => b[k] \in held[k]

Without(b) == [k \in Keys |-> held[k] \ {b[k]}]

Newest(a, b) == IF a > b THEN a ELSE b

Write(b) ==
    /\ Batch(b)
    /\ held' = Without(b)
    /\ row' = [k \in Keys |-> IF b[k] # 0 THEN b[k] ELSE row[k]]
    /\ landed' = [k \in Keys |-> Newest(landed[k], b[k])]
    /\ UNCHANGED <<saved, failed>>

Fail(b) ==
    /\ Batch(b)
    /\ held' = Without(b)
    /\ failed' = [k \in Keys |-> Newest(failed[k], b[k])]
    /\ UNCHANGED <<saved, row, landed>>

Next ==
    \/ \E k \in Keys : Save(k) \/ Merge(k)
    \/ \E b \in [Keys -> 0 .. MaxWrites] : Write(b) \/ Fail(b)

Spec == Init /\ [][Next]_vars
-----------------------------------------------------------------------------
\* The promise: the newest snapshot of every key is held, written or given up,
\* and what is in the database was saved.
Promise ==
    \A k \in Keys :
        /\ saved[k] \in held[k] \cup {0, landed[k], failed[k]}
        /\ row[k] <= landed[k] /\ landed[k] <= saved[k]
=============================================================================
