----------------------------- MODULE LockOrder -----------------------------
(***************************************************************************)
(* Which locks a goroutine takes while it holds others.  A handler locks   *)
(* its record (decoder/tracked_mutex.go), and on the way to its save some  *)
(* code locks another record for a moment; below the records come the      *)
(* locks of the caches' shards, under which a loaded record is entered     *)
(* into a tree, and the mutexes of the trees, the fort tracker, the        *)
(* queues, the statistics and the webhooks, which are held for a moment.   *)
(*                                                                         *)
(* Each place in the code that locks one record under another is an        *)
(* action.  What the records hold is in the other modules.                 *)
(***************************************************************************)
EXTENDS Naturals, Sequences

(* Operators named Slip_... are plausible slips in the definition that      *)
(* follows them; nothing uses them, and each breaks a property below.      *)

CONSTANTS
    Workers,  \* goroutines
    Ids       \* of records, and of the shards and mutexes

Outer == {"pokemon", "incident", "tappable"}

\* A route is locked like a station, with nothing above it.
Inner == {"pokestop", "gym", "spawnpoint", "weather", "station"}
Kinds == Outer \cup Inner \cup {"shard", "mutex"}

Lock(kind, id) == [kind |-> kind, id |-> id]
Locks == [kind : Kinds, id : Ids]
NoLock == [kind |-> "none"]

VARIABLES
    todo,   \* the records that the handler still has to lock, one after another
    held,   \* the locks that each goroutine holds
    wants   \* the lock that it waits for, or NoLock

vars == <<todo, held, wants>>

Init ==
    /\ todo = [w \in Workers |-> <<>>]
    /\ held = [w \in Workers |-> {}]
    /\ wants = [w \in Workers |-> NoLock]
-----------------------------------------------------------------------------
Free(l) == \A w \in Workers : l \notin held[w]

Holds(w, kind) == \E l \in held[w] : l.kind = kind

Runs(w) == wants[w] = NoLock

Ask(w, l) == wants' = [wants EXCEPT ![w] = l]

\* A handler of one record: it locks, changes and saves it.
Handle(w) ==
    \E kind \in Outer \cup Inner, id \in Ids :
        /\ Runs(w) /\ held[w] = {} /\ todo[w] = <<>>
        /\ todo' = [todo EXCEPT ![w] = <<Lock(kind, id)>>]
        /\ UNCHANGED <<held, wants>>

\* UpdateFortBatch with a fort that is new as what it is shown as: the fields
\* that it shares with the record of the other kind are copied.
ConvertFort(w) ==
    \E kind \in {"pokestop", "gym"}, id \in Ids :
        LET other == IF kind = "gym" THEN "pokestop" ELSE "gym"
        IN /\ Runs(w) /\ held[w] = {} /\ todo[w] = <<>>
           /\ todo' = [todo EXCEPT ![w] = <<Lock(kind, id), Lock(other, id), Lock(kind, id)>>]
           /\ UNCHANGED <<held, wants>>

\* Copies the fields while both records are locked.
Slip_MayLockNext(w) == Runs(w) /\ ~Holds(w, "shard") /\ ~Holds(w, "mutex")

\* "To avoid deadlock, we do this after releasing the pokestop lock."
MayLockNext(w) == Runs(w) /\ held[w] = {}

LockNext(w) ==
    /\ MayLockNext(w) /\ todo[w] # <<>>
    /\ Ask(w, Head(todo[w]))
    /\ todo' = [todo EXCEPT ![w] = Tail(@)]
    /\ UNCHANGED held

\* The goroutine holds just one lock, a record of this kind.
HoldsOnly(w, kind) == Runs(w) /\ \E id \in Ids : held[w] = {Lock(kind, id)}

\* setExpireTimestampFromSpawnpoint, for a pokemon.
SpawnpointOfPokemon(w) ==
    /\ HoldsOnly(w, "pokemon")
    /\ \E id \in Ids : Ask(w, Lock("spawnpoint", id))
    /\ UNCHANGED <<todo, held>>

\* updateFromMap, updateFromNearby and createPokemonWebhooks.
PokestopOfPokemon(w) ==
    /\ HoldsOnly(w, "pokemon")
    /\ \E id \in Ids : Ask(w, Lock("pokestop", id))
    /\ UNCHANGED <<todo, held>>

\* addEncounterPokemon and recomputeCpIfNeeded.
WeatherOfPokemon(w) ==
    /\ HoldsOnly(w, "pokemon")
    /\ \E id \in Ids : Ask(w, Lock("weather", id))
    /\ UNCHANGED <<todo, held>>

\* createIncidentWebhooks and saveIncidentRecord, in turn.
PokestopOfIncident(w) ==
    /\ HoldsOnly(w, "incident")
    /\ \E id \in Ids : Ask(w, Lock("pokestop", id))
    /\ UNCHANGED <<todo, held>>

\* setExpireTimestamp, for a tappable.
SpawnpointOfTappable(w) ==
    /\ HoldsOnly(w, "tappable")
    /\ \E id \in Ids : Ask(w, Lock("spawnpoint", id))
    /\ UNCHANGED <<todo, held>>

\* Any code looks into a cache: GetOrSetFunc holds the shard.
UseCache(w) ==
    /\ Runs(w) /\ ~Holds(w, "shard") /\ ~Holds(w, "mutex")
    /\ held[w] # {}
    /\ \E id \in Ids : Ask(w, Lock("shard", id))
    /\ UNCHANGED <<todo, held>>

\* ... and a tree, the tracker, a queue, the statistics or the webhooks; in a
\* shard a loaded record goes into its tree.
UseMutex(w) ==
    /\ Runs(w) /\ ~Holds(w, "mutex")
    /\ held[w] # {}
    /\ \E id \in Ids : Ask(w, Lock("mutex", id))
    /\ UNCHANGED <<todo, held>>

Acquire(w) ==
    /\ ~Runs(w) /\ Free(wants[w])
    /\ held' = [held EXCEPT ![w] = @ \cup {wants[w]}]
    /\ Ask(w, NoLock)
    /\ UNCHANGED todo

Rank(l) ==
    IF l.kind \in Outer THEN 0
    ELSE IF l.kind \in Inner THEN 1
    ELSE IF l.kind = "shard" THEN 2 ELSE 3

\* The lock that was taken last is released first.
Release(w) ==
    \E l \in held[w] :
        /\ Runs(w) /\ \A k \in held[w] \ {l} : Rank(k) < Rank(l)
        /\ held' = [held EXCEPT ![w] = @ \ {l}]
        /\ UNCHANGED <<todo, wants>>

Next ==
    \E w \in Workers :
        \/ Handle(w)
        \/ ConvertFort(w)
        \/ LockNext(w)
        \/ SpawnpointOfPokemon(w)
        \/ PokestopOfPokemon(w)
        \/ WeatherOfPokemon(w)
        \/ PokestopOfIncident(w)
        \/ SpawnpointOfTappable(w)
        \/ UseCache(w)
        \/ UseMutex(w)
        \/ Acquire(w)
        \/ Release(w)

Spec == Init /\ [][Next]_vars
-----------------------------------------------------------------------------
(* Correctness.                                                            *)

\* Every variable holds a value of its type.
TypeOK ==
    /\ todo \in [Workers -> Seq(Locks)]
    /\ held \in [Workers -> SUBSET Locks]
    /\ wants \in [Workers -> Locks \cup {NoLock}]

\* A goroutine waits only for locks that rank above all that it holds.
WaitsUpward ==
    \A w \in Workers : wants[w] # NoLock => \A l \in held[w] : Rank(l) < Rank(wants[w])

\* No goroutines wait for each other, whichever handlers run at the same time:
\* a pokemon's stop, weather and spawnpoint, an incident's stop, a fort of two
\* kinds, and what lies below ("To avoid deadlock", gmo_decode.go:37 and :91).
NoWaitCycle ==
    ~ \E S \in SUBSET Workers :
        /\ S # {}
        /\ \A w \in S : wants[w] # NoLock /\ \E v \in S : wants[w] \in held[v]
=============================================================================
