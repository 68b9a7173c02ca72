---------------------------- MODULE RecordCache ----------------------------
(***************************************************************************)
(* One entity in its record cache: a pokestop (decoder/pokestop_state.go); *)
(* gyms, stations and spawnpoints follow the same scheme, and so do        *)
(* incidents, routes and tappables, which are only ever got by             *)
(* getOrCreate...Record.                                                   *)
(*                                                                         *)
(* The cache maps the entity's id to an instance, a struct with a mutex.   *)
(* getOrCreate...Record puts an empty instance into the cache first, locks *)
(* it and then loads it from the database; get...RecordReadOnly and        *)
(* ...ForUpdate take the instance that is in the cache, and only when      *)
(* there is none do they load one and put it there, already filled.        *)
(* save...Record hands a snapshot to the write-behind queue.  Of the queue *)
(* this module has what WriteBehindStore promises and no more: it writes   *)
(* what it holds later and in any order, drops a snapshot for a newer one, *)
(* and gives one up if the database fails.                                 *)
(*                                                                         *)
(* The contents of an instance, a snapshot or a row are the set of the     *)
(* changes made to them, as in AtomicRecord.                               *)
(***************************************************************************)
EXTENDS Integers, FiniteSets

(* Operators named Slip_... are plausible slips in the definition that      *)
(* follows them; nothing uses them, and each breaks a property below.      *)

CONSTANTS
    Creators,   \* goroutines that call getOrCreate...Record
    Loaders,    \* goroutines that call get...RecordReadOnly or ...ForUpdate
    Instances,  \* bound: structs alive at a time
    MayFail,    \* whether queries and writes may fail
    MaxUpdates  \* bound: changes

Workers == Creators \cup Loaders

None == "none"
NoData == {-1} \* no row, no snapshot

ASSUME ConstantsAssumption ==
    /\ MaxUpdates \in Nat
    /\ MayFail \in BOOLEAN
    /\ None \notin Instances \cup Workers

NoInstance == [data |-> {}, new |-> FALSE]

VARIABLES
    cached,  \* the instance in the cache, or None
    inst,    \* inst[i]: contents and newRecord of an instance
    holder,  \* holder[i]: the worker that has locked it, or None
    pc,      \* pc[w]: where w is
    ref,     \* ref[w]: the instance that w works on, or None
    copy,    \* copy[w]: what w has loaded outside of the cache
    queue,   \* the snapshots in the write-behind queue, in no order
    row,     \* the row in the database, or NoData
    made,    \* changes made so far (history)
    newest,  \* what the last save left, or the row once the entry has
             \* expired (history)
    spoiled, \* the write of that was given up or overtaken (history)
    stubbed  \* ReadOnly or ForUpdate has locked a record that was not loaded,
             \* and its entry has not expired since (history)

vars == <<cached, inst, holder, pc, ref, copy, queue, row, made, newest, spoiled, stubbed>>
history == <<made, newest, spoiled>>

Contents == SUBSET (0 .. MaxUpdates)

\* The contents that an entity with row r has.
Of(r) == IF r = NoData THEN {} ELSE r

Init ==
    /\ cached = None
    /\ inst = [i \in Instances |-> NoInstance]
    /\ holder = [i \in Instances |-> None]
    /\ pc = [w \in Workers |-> "idle"]
    /\ ref = [w \in Workers |-> None]
    /\ copy = [w \in Workers |-> {}]
    /\ queue = {}
    /\ row \in {NoData, {0}}
    /\ made = 0
    /\ newest = Of(row)
    /\ spoiled = FALSE
    /\ stubbed = FALSE

Goto(w, l) == pc' = [pc EXCEPT ![w] = l]
Take(w, i) == ref' = [ref EXCEPT ![w] = i]

\* An instance that is garbage may be made anew.
Garbage(i) == i # cached /\ \A w \in Workers : ref[w] # i

\* A fresh instance, with contents d, becomes the cache's and w's.
SetNew(w, d, isNew) ==
    \E i \in Instances :
        /\ Garbage(i)
        /\ inst' = [inst EXCEPT ![i] = [data |-> d, new |-> isNew]]
        /\ cached' = i
        /\ Take(w, i)

\* Sets its own instance, whatever the cache holds.
Slip_JustSet(w, d, isNew) == SetNew(w, d, isNew)

\* GetOrSetFunc: the instance in the cache, or else a fresh one.
GetOrSet(w, d, isNew) ==
    \/ cached # None /\ Take(w, cached) /\ UNCHANGED <<cached, inst>>
    \/ cached = None /\ SetNew(w, d, isNew)

Release(w) == holder' = [holder EXCEPT ![ref[w]] = None]

Return(w) == Goto(w, "idle") /\ Take(w, None)
-----------------------------------------------------------------------------
(* getOrCreate...Record.                                                   *)

Create(w) ==
    /\ pc[w] = "idle"
    /\ GetOrSet(w, {}, TRUE)
    /\ Goto(w, "lock new")
    /\ UNCHANGED <<holder, copy, queue, row, stubbed, history>>

LockNew(w) ==
    /\ pc[w] = "lock new"
    /\ holder[ref[w]] = None
    /\ holder' = [holder EXCEPT ![ref[w]] = w]
    /\ Goto(w, IF inst[ref[w]].new THEN "fill" ELSE "hold")
    /\ UNCHANGED <<cached, inst, ref, copy, queue, row, stubbed, history>>

Loaded(i) ==
    IF row = NoData THEN inst
    ELSE [inst EXCEPT ![i] = [data |-> row, new |-> FALSE]]

\* The load of the new record, made under its lock.
Fill(w) ==
    /\ pc[w] = "fill"
    /\ inst' = Loaded(ref[w])
    /\ Goto(w, "hold")
    /\ UNCHANGED <<cached, holder, ref, copy, queue, row, stubbed, history>>

\* Forgets the unlock when it returns the error.
Slip_KeepLock(w) == holder' = holder

UnlockOnError(w) == Release(w)

\* The instance stays in the cache.
FillFails(w) ==
    /\ MayFail
    /\ pc[w] = "fill"
    /\ UnlockOnError(w)
    /\ Return(w)
    /\ UNCHANGED <<cached, inst, copy, queue, row, stubbed, history>>
-----------------------------------------------------------------------------
(* get...RecordReadOnly and get...RecordForUpdate.                         *)

Get(w) ==
    /\ pc[w] = "idle"
    /\ IF cached # None THEN Take(w, cached) /\ Goto(w, "lock")
       ELSE Goto(w, "query") /\ UNCHANGED ref
    /\ UNCHANGED <<cached, inst, holder, copy, queue, row, stubbed, history>>

Query(w) ==
    /\ pc[w] = "query"
    /\ \/ row # NoData /\ copy' = [copy EXCEPT ![w] = row] /\ Goto(w, "publish") /\ UNCHANGED ref
       \/ (row = NoData \/ MayFail) /\ Return(w) /\ UNCHANGED copy
    /\ UNCHANGED <<cached, inst, holder, queue, row, stubbed, history>>

Publish(w) ==
    /\ pc[w] = "publish"
    /\ GetOrSet(w, copy[w], FALSE)
    /\ copy' = [copy EXCEPT ![w] = {}]
    /\ Goto(w, "lock")
    /\ UNCHANGED <<holder, queue, row, stubbed, history>>

Lock(w) ==
    /\ pc[w] = "lock"
    /\ holder[ref[w]] = None
    /\ holder' = [holder EXCEPT ![ref[w]] = w]
    /\ stubbed' = (stubbed \/ inst[ref[w]].new)
    /\ Goto(w, "hold")
    /\ UNCHANGED <<cached, inst, ref, copy, queue, row, history>>
-----------------------------------------------------------------------------
(* With the lock held.                                                     *)

Snapshot(w) == inst'[ref[w]].data

\* The record is changed and saved: the snapshot is queued...
Save(w) ==
    /\ pc[w] = "hold"
    /\ made < MaxUpdates
    /\ made' = made + 1
    /\ inst' = [inst EXCEPT ![ref[w]] = [data |-> @.data \cup {made + 1}, new |-> @.new]]
    /\ queue' = queue \cup {Snapshot(w)}
    /\ newest' = Snapshot(w)
    /\ spoiled' = FALSE
    /\ Goto(w, "saved")
    /\ UNCHANGED <<cached, holder, ref, copy, row, stubbed>>

\* Leaves the record new, to be loaded again.
Slip_StillNew(w) == inst' = inst

NotNew(w) == inst' = [inst EXCEPT ![ref[w]] = [data |-> @.data, new |-> FALSE]]

\* ... a new record is set in the cache, and the lock is released.
Finish(w) ==
    /\ pc[w] = "saved"
    /\ cached' = IF inst[ref[w]].new THEN ref[w] ELSE cached
    /\ NotNew(w)
    /\ Release(w)
    /\ Return(w)
    /\ UNCHANGED <<copy, queue, row, stubbed, history>>

\* The record is only read, or does not change.
Leave(w) ==
    /\ pc[w] = "hold"
    /\ Release(w)
    /\ Return(w)
    /\ UNCHANGED <<cached, inst, copy, queue, row, stubbed, history>>
-----------------------------------------------------------------------------
(* The write-behind queue, and the cache's clock.                          *)

\* Keeps the older of two snapshots that meet.
Slip_KeepOlder(old, new) == new \subseteq old /\ new # old

\* A save adds to what was saved before it.
Older(old, new) == old \subseteq new /\ old # new

\* A snapshot meets a newer one in the queue, which replaces it.
Merge(old) ==
    /\ \E new \in queue : Older(old, new)
    /\ queue' = queue \ {old}
    /\ UNCHANGED <<cached, inst, holder, pc, ref, copy, row, stubbed, history>>

\* A write of s overtakes the newest snapshot if that has left the queue.
WriteRow(s) ==
    /\ row' = s
    /\ queue' = queue \ {s}
    /\ spoiled' = (spoiled \/ (s # newest /\ newest \notin queue))
    /\ UNCHANGED <<cached, inst, holder, pc, ref, copy, made, newest, stubbed>>

GiveUp(s) ==
    /\ MayFail
    /\ queue' = queue \ {s}
    /\ spoiled' = (spoiled \/ s = newest)
    /\ UNCHANGED <<cached, inst, holder, pc, ref, copy, row, made, newest, stubbed>>

\* Nobody has touched the entry for its time to live, an hour or more: nobody
\* is working on it, and the queue is done with it long ago.
Untouched == queue = {} /\ \A w \in Workers : pc[w] = "idle"

Expire ==
    /\ cached # None
    /\ Untouched
    /\ cached' = None
    /\ newest' = Of(row)
    /\ spoiled' = FALSE
    /\ stubbed' = FALSE
    /\ UNCHANGED <<inst, holder, pc, ref, copy, queue, row, made>>

CreatorStep(w) == Create(w) \/ LockNew(w) \/ Fill(w) \/ FillFails(w)
LoaderStep(w) == Get(w) \/ Query(w) \/ Publish(w) \/ Lock(w)
HolderStep(w) == Save(w) \/ Finish(w) \/ Leave(w)

Next ==
    \/ \E w \in Creators : CreatorStep(w)
    \/ \E w \in Loaders : LoaderStep(w)
    \/ \E w \in Workers : HolderStep(w)
    \/ \E s \in queue : Merge(s) \/ WriteRow(s) \/ GiveUp(s)
    \/ Expire

Spec == Init /\ [][Next]_vars

\* A goroutine that has been called runs on, and a query ends.  A mutex is not
\* withheld from one goroutine for ever: after a millisecond it is handed over
\* in the order of the calls.
Fairness ==
    \A w \in Workers :
        /\ WF_vars(Fill(w) \/ FillFails(w) \/ Query(w) \/ Publish(w) \/ Finish(w) \/ Leave(w))
        /\ SF_vars(LockNew(w) \/ Lock(w))

FairSpec == Spec /\ Fairness
-----------------------------------------------------------------------------
(* Correctness.                                                            *)

\* Every variable holds a value of its type.
TypeOK ==
    /\ cached \in Instances \cup {None}
    /\ inst \in [Instances -> [data : Contents, new : BOOLEAN]]
    /\ holder \in [Instances -> Workers \cup {None}]
    /\ pc \in [Workers -> {"idle", "lock new", "fill", "query", "publish", "lock", "hold", "saved"}]
    /\ ref \in [Workers -> Instances \cup {None}]
    /\ copy \in [Workers -> Contents]
    /\ queue \subseteq Contents
    /\ row \in Contents \cup {NoData}
    /\ made \in 0 .. MaxUpdates
    /\ newest \in Contents
    /\ spoiled \in BOOLEAN
    /\ stubbed \in BOOLEAN

\* Saved changes are not undone: each is made to the value that the one before
\* it left, though instances come and go, loads fail, goroutines race for the
\* cache's entry and the queue is late.  The entity falls back to an earlier
\* value only if the write of the last one failed or was overtaken, and then not
\* before its entry expires.  What is done to a stub that was locked before it
\* was loaded (pokestop_state.go:128) is left out, until its entry expires.
Atomic == INSTANCE AtomicRecord WITH value <- newest
IsAtomic == Atomic!Init /\ [][stubbed \/ Atomic!Next]_history

\* "ensuring same mutex" (pokestop_state.go:98): goroutines that work on the
\* entity at the same time all have the same instance, though loads fail, race
\* for the cache's entry and the entry expires in between.
SameMutex == \A v, w \in Workers : ref[v] # None /\ ref[w] # None => ref[v] = ref[w]

\* Every call returns, whether its queries fail or not.
CallsReturn == \A w \in Workers : pc[w] # "idle" ~> pc[w] = "idle"

\* get...RecordReadOnly "will cause a backing database lookup"
\* (pokestop_state.go:76): who has got and locked the record has in it what the
\* last save left, or the row if nothing was saved since the entry expired.
LooksUp == \A w \in Workers : pc[w] = "hold" => inst[ref[w]].data = newest

\* A goroutine that has got and locked the record reads the entity as the last
\* change left it, whether the row has been written yet, never or out of order,
\* unless the record that it or another one got was a stub.
ReadsNewest == ~stubbed => LooksUp
=============================================================================
