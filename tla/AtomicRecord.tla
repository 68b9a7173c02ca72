---------------------------- MODULE AtomicRecord ----------------------------
(***************************************************************************)
(* What the record cache promises to the goroutines that change an entity: *)
(* the entity is one value, and every change is made to the value that the *)
(* change before it left.  The value is the set of the changes made to it; *)
(* 0 stands for what the database held at the start.  Writes are not       *)
(* certain: once that of the last value has gone wrong, the entity may     *)
(* fall back to an earlier one.                                            *)
(***************************************************************************)
EXTENDS Integers

CONSTANT MaxUpdates \* bound: changes

VARIABLES
    made,    \* changes made to the entity
    value,   \* the entity
    spoiled  \* the write of its last value has gone wrong

Init == value \in {{}, {0}} /\ made = 0 /\ spoiled = FALSE

\* A change, which is to be written.
Update ==
    /\ made < MaxUpdates
    /\ made' = made + 1
    /\ value' = value \cup {made + 1}
    /\ spoiled' = FALSE

Spoil ==
    /\ spoiled' = TRUE
    /\ UNCHANGED <<made, value>>

FallBack ==
    /\ spoiled
    /\ value' \in SUBSET value
    /\ spoiled' = FALSE
    /\ UNCHANGED made

Next == Update \/ Spoil \/ FallBack

Spec == Init /\ [][Next]_<<made, value, spoiled>>
=============================================================================
