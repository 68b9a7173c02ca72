------------------------------ MODULE FortTree ------------------------------
(***************************************************************************)
(* One fort in the index that area searches use, where forts are kept in   *)
(* memory: a tree of places, and a lookup of what is filtered by           *)
(* (decoder/fortRtree.go, and the calls of it in pokestop_state.go,        *)
(* gym_state.go, main.go and preload.go).                                  *)
(*                                                                         *)
(* A gym and a pokestop of one id have records, caches and rows of their   *)
(* own and share one entry here.  Handlers update it with one of the       *)
(* records locked; a goroutine that the cache starts removes a record that *)
(* has expired, which locks nothing and may come late.  "raced" notes that *)
(* it was still to come when the fort was got again: after that, and once  *)
(* the fort has had records of both kinds, the index may be wrong.         *)
(***************************************************************************)
EXTENDS Integers

(* Operators named Slip_... are plausible slips in the definition that      *)
(* follows them; nothing uses them, and each breaks a property below.      *)

CONSTANTS
    Places,     \* where the fort may be said to be
    MaxEntries  \* bound: entries of the fort at one place

None == "none"
Kinds == {"gym", "pokestop"}

VARIABLES
    cached,    \* of each kind, the record in its cache, or NoRecord
    row,       \* of each kind, the row, or NoRecord
    tree,      \* how many entries fortTree has for the fort at each place
    lookup,    \* the entry in fortLookupCache, or NoLookup
    evicting,  \* the places of expired records whose callback is to come
    raced      \* it was got again while a callback was to come (history)

vars == <<cached, row, tree, lookup, evicting, raced>>

NoRecord == [place |-> None, deleted |-> FALSE]
NoLookup == [kind |-> None, place |-> None]

Init ==
    /\ cached = [kind \in Kinds |-> NoRecord]
    /\ row = [kind \in Kinds |-> NoRecord]
    /\ tree = [place \in Places |-> 0]
    /\ lookup = NoLookup
    /\ evicting = {}
    /\ raced = FALSE
-----------------------------------------------------------------------------
(* The index, as [tree, lookup].                                           *)

Index == [tree |-> tree, lookup |-> lookup]

\* The tree accepts an entry that it has already.
Add(i, place) == [i EXCEPT !.tree[place] = @ + 1]

Remove(i, place) ==
    [i EXCEPT !.tree[place] = IF @ > 0 THEN @ - 1 ELSE @]

\* Leaves a moved fort where it was, too.
Slip_Moved(i, place) == Add(i, place)

Moved(i, place) == Add(Remove(i, i.lookup.place), place)

GenericUpdateFort(i, r) ==
    CASE r.deleted /\ i.lookup = NoLookup -> i
      [] r.deleted /\ i.lookup # NoLookup -> Remove([i EXCEPT !.lookup = NoLookup], i.lookup.place)
      [] ~r.deleted /\ i.lookup = NoLookup -> Add(i, r.place)
      [] ~r.deleted /\ i.lookup.place \notin {None, r.place} -> Moved(i, r.place)
      [] OTHER -> i

UpdateLookup(i, kind, r) == [i EXCEPT !.lookup = [kind |-> kind, place |-> r.place]]

OnSave(i, kind, r) ==
    LET updated == GenericUpdateFort(i, r)
    IN IF r.deleted THEN updated ELSE UpdateLookup(updated, kind, r)

\* A fort that is deleted is added as well.
OnGet(i, kind, r) ==
    IF i.lookup = NoLookup THEN UpdateLookup(Add(i, r.place), kind, r) ELSE i

Evict(i, place) == Remove([i EXCEPT !.lookup = NoLookup], place)

SetIndex(i) ==
    /\ \A place \in Places : i.tree[place] <= MaxEntries
    /\ tree' = i.tree
    /\ lookup' = i.lookup
-----------------------------------------------------------------------------
(* The records.                                                            *)

\* A record that was not in its cache is loaded.
Load(kind) ==
    /\ cached[kind] = NoRecord
    /\ row[kind] # NoRecord
    /\ cached' = [cached EXCEPT ![kind] = row[kind]]
    /\ SetIndex(OnGet(Index, kind, row[kind]))
    /\ raced' = (raced \/ evicting # {})
    /\ UNCHANGED <<row, evicting>>

\* A record, got, loaded or new, is saved as r.  Its row is written long before
\* the entry of the cache can expire.
Save(kind, r) ==
    /\ cached[kind] = NoRecord => row[kind] = NoRecord
    /\ cached' = [cached EXCEPT ![kind] = r]
    /\ row' = [row EXCEPT ![kind] = r]
    /\ SetIndex(OnSave(Index, kind, r))
    /\ raced' = (raced \/ evicting # {})
    /\ UNCHANGED evicting

\* The fort is shown, at a place: it is new, moved, un-deleted or the same.
Shown(kind) == \E place \in Places : Save(kind, [place |-> place, deleted |-> FALSE])

\* The fort is marked as deleted.
Marked(kind) == cached[kind] # NoRecord /\ Save(kind, [cached[kind] EXCEPT !.deleted = TRUE])

\* The entry expires, and the cache starts the callback.
Expire(kind) ==
    /\ cached[kind] # NoRecord
    /\ evicting = {}
    /\ cached' = [cached EXCEPT ![kind] = NoRecord]
    /\ evicting' = {cached[kind].place}
    /\ UNCHANGED <<row, tree, lookup, raced>>

\* The callback.
Evicted ==
    /\ \E place \in evicting : SetIndex(Evict(Index, place))
    /\ evicting' = {}
    /\ UNCHANGED <<cached, row, raced>>

\* The program starts again, and loads what is not deleted.
Restart ==
    LET empty == [tree |-> [place \in Places |-> 0], lookup |-> NoLookup]
        live == [kind \in Kinds |-> IF row[kind].deleted THEN NoRecord ELSE row[kind]]
        loaded(i, kind) == IF live[kind] = NoRecord THEN i ELSE OnSave(i, kind, live[kind])
    IN /\ cached' = live
       /\ SetIndex(loaded(loaded(empty, "gym"), "pokestop"))
       /\ evicting' = {}
       /\ raced' = FALSE
       /\ UNCHANGED row

Next ==
    \/ \E kind \in Kinds : Load(kind)
    \/ \E kind \in Kinds : Shown(kind)
    \/ \E kind \in Kinds : Marked(kind)
    \/ \E kind \in Kinds : Expire(kind)
    \/ Evicted
    \/ Restart

Spec == Init /\ [][Next]_vars
-----------------------------------------------------------------------------
(* Correctness.                                                            *)

\* A fort that never changed its kind is found where its record says it is,
\* through any sequence of moves, deletions, un-deletions, expiries, reloads and
\* restarts: "rtree stays populated" (decoder/main.go:95); once, at one
\* place; and it is not found when it is not cached.
FortIsFound ==
    ~raced /\ evicting = {} /\ (\E kind \in Kinds : row[kind] = NoRecord) =>
        /\ \A place \in Places : tree[place] = IF lookup.place = place THEN 1 ELSE 0
        /\ \A kind \in Kinds :
             cached[kind] # NoRecord /\ ~cached[kind].deleted =>
               lookup = [kind |-> kind, place |-> cached[kind].place]
        /\ (\A kind \in Kinds : cached[kind] = NoRecord) => lookup = NoLookup
=============================================================================
