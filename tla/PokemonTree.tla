---------------------------- MODULE PokemonTree ----------------------------
(***************************************************************************)
(* One pokemon in the index that area searches use: a tree of places, a    *)
(* lookup of what is filtered by, and a count of the pokemon of each form  *)
(* (decoder/pokemonRtree.go, and the calls of it in pokemon_state.go).     *)
(*                                                                         *)
(* The index has no owner.  Handlers update it while they have the record  *)
(* locked; the cache tells a goroutine of its own to remove a pokemon that *)
(* has expired, which locks nothing and may come late.  The handler's      *)
(* steps are taken together here: "raced" notes that the goroutine was     *)
(* still to come when the pokemon was got again, after which the index     *)
(* may be wrong, and nothing is claimed of it.                             *)
(***************************************************************************)
EXTENDS Integers

(* Operators named Slip_... are plausible slips in the definition that      *)
(* follows them; nothing uses them, and each breaks a property below.      *)

CONSTANTS
    Places,     \* where the pokemon may be said to be
    Forms,      \* what it may be said to be; a ditto has a form of its own
    MaxEntries  \* bound: entries of one pokemon at one place

None == "none"

VARIABLES
    cached,    \* the record in the cache, or NoRecord
    saved,     \* the record as it was saved last, or NoRecord
    row,       \* its row, which is written late, or NoRecord
    tree,      \* how many entries pokemonTree has for it at each place
    lookup,    \* its form in pokemonLookupCache, or None
    count,     \* pokemonFormCount: of this pokemon only
    evicting,  \* the places of the expired records whose callback is to come
    raced      \* it was got again while a callback was to come (history)

vars == <<cached, saved, row, tree, lookup, count, evicting, raced>>

NoRecord == [new |-> FALSE, place |-> None, form |-> None]

\* A new record is nowhere yet: its coordinates are zero.
Stub == [new |-> TRUE, place |-> None, form |-> None]

Init ==
    /\ cached = NoRecord
    /\ saved = NoRecord
    /\ row = NoRecord
    /\ tree = [place \in Places |-> 0]
    /\ lookup = None
    /\ count = [form \in Forms |-> 0]
    /\ evicting = {}
    /\ raced = FALSE
-----------------------------------------------------------------------------
(* The index, as [tree, lookup, count].                                    *)

Index == [tree |-> tree, lookup |-> lookup, count |-> count]

\* The tree accepts an entry that it has already.
Add(i, place) == [i EXCEPT !.tree[place] = @ + 1]

\* A count that reaches zero is deleted, and none is below.
Adjusted(counts, form, delta) ==
    IF form = None THEN counts
    ELSE [counts EXCEPT ![form] = IF delta > 0 THEN @ + 1 ELSE IF @ > 0 THEN @ - 1 ELSE 0]

\* Forgets to take the pokemon out of its form's count.
Slip_Remove(i, place) ==
    [i EXCEPT !.tree = [q \in Places |-> IF q = place /\ @[q] > 0 THEN @[q] - 1 ELSE @[q]],
              !.lookup = None]

Remove(i, place) ==
    [i EXCEPT !.tree = [q \in Places |-> IF q = place /\ @[q] > 0 THEN @[q] - 1 ELSE @[q]],
              !.lookup = None,
              !.count = Adjusted(@, i.lookup, -1)]

UpdateLookup(i, form) ==
    IF i.lookup = form THEN i
    ELSE [i EXCEPT !.lookup = form,
                   !.count = Adjusted(Adjusted(@, i.lookup, -1), form, 1)]

OnGet(i, r) == IF i.lookup = None THEN UpdateLookup(Add(i, r.place), r.form) ELSE i

\* old is where the record was before this handler.
OnSave(i, old, r) ==
    LET placed == CASE old.new -> Add(i, r.place)
                    [] ~old.new /\ r.place # old.place -> Add(Remove(i, old.place), r.place)
                    [] OTHER -> i
    IN UpdateLookup(placed, r.form)

SetIndex(i) ==
    /\ \A q \in Places : i.tree[q] <= MaxEntries
    /\ tree' = i.tree
    /\ lookup' = i.lookup
    /\ count' = i.count
-----------------------------------------------------------------------------
(* The record.                                                             *)

\* The row is loaded into the cache, for a reader or into the stub of a creator.
Load ==
    /\ cached = NoRecord \/ cached = Stub
    /\ row # NoRecord
    /\ cached' = row
    /\ SetIndex(OnGet(Index, row))
    /\ raced' = (raced \/ evicting # {})
    /\ UNCHANGED <<saved, row, evicting>>

\* A creator puts a stub into the cache, and may fail to load it.
Create ==
    /\ cached = NoRecord
    /\ cached' = Stub
    /\ raced' = (raced \/ evicting # {})
    /\ UNCHANGED <<saved, row, tree, lookup, count, evicting>>

\* A handler has changed the record; a stub only if there is no row to load.
Save ==
    \E place \in Places, form \in Forms :
        LET r == [new |-> FALSE, place |-> place, form |-> form]
        IN /\ cached # NoRecord
           /\ cached = Stub => row = NoRecord
           /\ SetIndex(OnSave(Index, cached, r))
           /\ cached' = r
           /\ saved' = r
           /\ raced' = (raced \/ evicting # {})
           /\ UNCHANGED <<row, evicting>>

\* The write-behind queue writes what was saved last; never if pokemon are
\* kept in memory only.
Write ==
    /\ saved # NoRecord
    /\ row' = saved
    /\ UNCHANGED <<cached, saved, tree, lookup, count, evicting, raced>>

\* The archiver deletes the row.
Archive ==
    /\ row # NoRecord
    /\ row' = NoRecord
    /\ UNCHANGED <<cached, saved, tree, lookup, count, evicting, raced>>

\* The entry expires, and the cache starts the callback.
Expire ==
    /\ cached # NoRecord /\ evicting = {}
    /\ cached' = NoRecord
    /\ evicting' = {cached.place}
    /\ UNCHANGED <<saved, row, tree, lookup, count, raced>>

\* The callback.
Evicted ==
    /\ \E place \in evicting : SetIndex(Remove(Index, place))
    /\ evicting' = {}
    /\ UNCHANGED <<cached, saved, row, raced>>

Next ==
    \/ Load
    \/ Create
    \/ Save
    \/ Write
    \/ Archive
    \/ Expire
    \/ Evicted

Spec == Init /\ [][Next]_vars
-----------------------------------------------------------------------------
(* Correctness.                                                            *)

\* Through any sequence of sightings that move a pokemon or change its form, of
\* expiries, reloads of rows that are behind, and archiving, the three parts of
\* the index agree with the cache: a pokemon is in the tree once, at its place,
\* under its form, and counted there; one that is not cached has left no trace.
IndexAgrees ==
    ~raced /\ evicting = {} =>
        LET here == cached \notin {NoRecord, Stub}
        IN /\ \A q \in Places : tree[q] = IF here /\ cached.place = q THEN 1 ELSE 0
           /\ lookup = IF here THEN cached.form ELSE None
           /\ \A f \in Forms : count[f] = IF here /\ cached.form = f THEN 1 ELSE 0
=============================================================================
