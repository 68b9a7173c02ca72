------------------------- MODULE RecordCache_proofs -------------------------
(***************************************************************************)
(* Proofs about RecordCache, for every value of its constants: any number  *)
(* of goroutines that get the record in either way, any number of changes. *)
(***************************************************************************)
EXTENDS RecordCache, TLAPS

USE DEF history

Working == {"lock new", "fill", "lock", "hold", "saved"}
Locked == {"fill", "hold", "saved"}

\* Who works on an instance works on the one in the cache.
Placed ==
    \A w \in Workers :
        IF pc[w] \in Working THEN ref[w] = cached /\ cached # None
        ELSE ref[w] = None

Shape == TypeOK /\ Placed

\* Who is past the lock has it.
Held == \A w \in Workers : pc[w] \in Locked => holder[cached] = w

\* The queue is done with an entity that is not in the cache.
Clean == cached = None => queue = {} /\ newest = Of(row)

\* Only new records are loaded under the lock.
FillsNew == \A w \in Workers : pc[w] = "fill" => inst[cached].new

\* A record in the cache is new and blank until it is loaded or saved; then
\* it is current, unless it was used as a stub.
Blank ==
    cached # None /\ inst[cached].new /\ (\A w \in Workers : pc[w] # "saved")
        => inst[cached].data = {} /\ queue = {} /\ newest = Of(row)
Settled == ~stubbed /\ cached # None /\ ~inst[cached].new => inst[cached].data = newest
Reads == ~stubbed => \A w \in Workers : pc[w] \in {"hold", "saved"} => inst[cached].data = newest

\* What has been loaded is current for as long as nobody else has loaded it.
Published == \A w \in Workers : pc[w] = "publish" /\ cached = None => copy[w] = row

\* The snapshots in the queue are no newer than the record and the newest save.
Grown == cached # None => \A s \in queue : s \subseteq inst[cached].data
Behind == \A s \in queue : s \subseteq newest

\* The newest save is on its way to the row or there, if it was not spoiled.
Landed == spoiled \/ newest \in queue \/ newest = Of(row)

\* The row is no newer than it.
RowBehind == ~stubbed => Of(row) \subseteq newest

Inv == /\ Shape
       /\ Held
       /\ Clean
       /\ FillsNew
       /\ Blank
       /\ Settled
       /\ Reads
       /\ Published
       /\ Grown
       /\ Behind
       /\ Landed
       /\ RowBehind
-----------------------------------------------------------------------------
(* The shape of the state.                                                 *)

LEMMA NotData == NoData \notin Contents
  BY DEF NoData, Contents

LEMMA ShapeInit == Init => Shape
  <1> SUFFICES ASSUME Init PROVE Shape
    OBVIOUS
  <1>1. TypeOK
    <2>1. {0} \in Contents /\ {} \in Contents
      BY ConstantsAssumption DEF Contents
    <2>2. row \in Contents \cup {NoData} /\ newest \in Contents
      BY <2>1 DEF Init, Of
    <2>3. queue \subseteq Contents /\ made \in 0 .. MaxUpdates /\ spoiled \in BOOLEAN /\ stubbed \in BOOLEAN
      <3>1. made = 0 /\ queue = {} /\ spoiled = FALSE /\ stubbed = FALSE
        BY DEF Init
      <3>2. 0 \in 0 .. MaxUpdates
        BY ConstantsAssumption
      <3> QED
        BY <3>1, <3>2
    <2>4. inst \in [Instances -> [data : Contents, new : BOOLEAN]] /\ copy \in [Workers -> Contents]
      BY <2>1 DEF Init, NoInstance
    <2>5. /\ cached \in Instances \cup {None} /\ holder \in [Instances -> Workers \cup {None}]
          /\ ref \in [Workers -> Instances \cup {None}] /\ \A w \in Workers : pc[w] = "idle"
          /\ pc \in [Workers -> {"idle"}]
      BY DEF Init
    <2>6. pc \in [Workers -> {"idle", "lock new", "fill", "query", "publish", "lock", "hold", "saved"}]
      BY <2>5
    <2> QED
      BY <2>2, <2>3, <2>4, <2>5, <2>6 DEF TypeOK
  <1>2. Placed
    BY DEF Init, Placed, Working
  <1> QED
    BY <1>1, <1>2 DEF Shape

\* What an instance that is put into the cache does to types and places.
LEMMA NewShape ==
  ASSUME Shape, cached = None, NEW w \in Workers, NEW d \in Contents, NEW b \in BOOLEAN,
         SetNew(w, d, b)
  PROVE  /\ cached' \in Instances
         /\ cached' # None
         /\ inst' \in [Instances -> [data : Contents, new : BOOLEAN]]
         /\ inst'[cached'].data = d /\ inst'[cached'].new = b
         /\ ref' = [ref EXCEPT ![w] = cached']
         /\ \A v \in Workers : pc[v] \notin Working
  <1>1. PICK i \in Instances :
          /\ inst' = [inst EXCEPT ![i] = [data |-> d, new |-> b]]
          /\ cached' = i
          /\ Take(w, i)
    BY DEF SetNew
  <1> DEFINE r == [data |-> d, new |-> b]
  <1>2. r \in [data : Contents, new : BOOLEAN] /\ r.data = d /\ r.new = b
    OBVIOUS
  <1>3. inst' = [inst EXCEPT ![i] = r]
    BY <1>1
  <1> HIDE DEF r
  <1>4. inst'[i] = r /\ inst' \in [Instances -> [data : Contents, new : BOOLEAN]]
    BY <1>2, <1>3 DEF Shape, TypeOK
  <1>5. ref' = [ref EXCEPT ![w] = cached']
    BY <1>1 DEF Take
  <1>6. cached' \in Instances /\ cached' # None
    BY <1>1, ConstantsAssumption
  <1>7. \A v \in Workers : pc[v] \notin Working
    BY DEF Shape, Placed
  <1> QED
    BY <1>1, <1>2, <1>4, <1>5, <1>6, <1>7

\* What a save does.
LEMMA SaveIs ==
  ASSUME Shape, NEW w \in Workers, Save(w)
  PROVE  /\ pc[w] = "hold" /\ pc' = [pc EXCEPT ![w] = "saved"]
         /\ ref[w] = cached /\ cached \in Instances
         /\ made < MaxUpdates /\ made' = made + 1 /\ made' \in 0 .. MaxUpdates
         /\ inst' = [inst EXCEPT ![cached] = [data |-> @.data \cup {made + 1}, new |-> @.new]]
         /\ inst'[cached].data = newest'
         /\ inst'[cached].new = inst[cached].new
         /\ newest' = inst[cached].data \cup {made + 1}
         /\ newest' \in Contents
         /\ queue' = queue \cup {newest'}
         /\ spoiled' = FALSE
         /\ inst' \in [Instances -> [data : Contents, new : BOOLEAN]]
         /\ UNCHANGED <<cached, holder, ref, copy, row, stubbed>>
  <1>1. /\ pc[w] = "hold" /\ pc' = [pc EXCEPT ![w] = "saved"]
        /\ made < MaxUpdates /\ made' = made + 1
        /\ UNCHANGED <<cached, holder, ref, copy, row, stubbed>>
        /\ spoiled' = FALSE /\ queue' = queue \cup {newest'}
    BY DEF Save, Goto
  <1>2. ref[w] = cached /\ cached \in Instances
    BY <1>1 DEF Shape, Placed, Working, TypeOK
  <1>3. made \in Nat /\ MaxUpdates \in Nat
    <2>1. made \in 0 .. MaxUpdates
      BY DEF Shape, TypeOK
    <2> QED
      BY <2>1, ConstantsAssumption
  <1>4. made + 1 \in 0 .. MaxUpdates
    BY <1>1, <1>3
  <1>5. inst' = [inst EXCEPT ![cached] = [data |-> @.data \cup {made + 1}, new |-> @.new]]
    BY <1>2 DEF Save
  <1>6. inst[cached] \in [data : Contents, new : BOOLEAN]
    BY <1>2 DEF Shape, TypeOK
  <1>7. /\ inst'[cached].data = inst[cached].data \cup {made + 1}
        /\ inst'[cached].new = inst[cached].new
    BY <1>2, <1>5, <1>6 DEF Shape, TypeOK
  <1>8. newest' = inst'[cached].data
    BY <1>2 DEF Save, Snapshot
  <1>9. inst[cached].data \cup {made + 1} \in Contents
    BY <1>4, <1>6 DEF Contents
  <1>10. inst' \in [Instances -> [data : Contents, new : BOOLEAN]]
    <2>1. inst \in [Instances -> [data : Contents, new : BOOLEAN]]
      BY DEF Shape, TypeOK
    <2> DEFINE r == [data |-> inst[cached].data \cup {made + 1}, new |-> inst[cached].new]
    <2>2. r \in [data : Contents, new : BOOLEAN]
      BY <1>6, <1>9
    <2>3. inst' = [inst EXCEPT ![cached] = r]
      BY <1>5
    <2> HIDE DEF r
    <2> QED
      BY <1>2, <2>1, <2>2, <2>3
  <1> QED
    BY <1>1, <1>2, <1>4, <1>5, <1>7, <1>8, <1>9, <1>10

LEMMA ShapeStep == ASSUME Shape, [Next]_vars PROVE Shape'
  <1> USE ConstantsAssumption DEF Shape, TypeOK, Placed, Working, Goto, Take
  <1>1. ASSUME NEW w \in Creators, Create(w) PROVE Shape'
    <2>1. w \in Workers /\ {} \in Contents
      BY DEF Workers, Contents
    <2>2. CASE cached # None
      BY <1>1, <2>1, <2>2 DEF Create, GetOrSet
    <2>3. CASE cached = None
      <3>1. SetNew(w, {}, TRUE)
        BY <1>1, <2>3 DEF Create, GetOrSet
      <3>2. /\ cached' \in Instances /\ cached' # None
            /\ inst' \in [Instances -> [data : Contents, new : BOOLEAN]]
            /\ ref' = [ref EXCEPT ![w] = cached']
            /\ \A v \in Workers : pc[v] \notin Working
        BY <2>1, <2>3, <3>1, NewShape
      <3>3. /\ pc' = [pc EXCEPT ![w] = "lock new"] /\ UNCHANGED <<holder, queue, row, stubbed, history>>
            /\ UNCHANGED copy
        BY <1>1 DEF Create
      <3> QED
        BY <2>1, <3>2, <3>3
    <2> QED
      BY <2>2, <2>3
  <1>2. ASSUME NEW w \in Creators, LockNew(w) PROVE Shape'
    BY <1>2 DEF LockNew, Workers
  <1>3. ASSUME NEW w \in Creators, Fill(w) PROVE Shape'
    BY <1>3 DEF Fill, Loaded, Workers
  <1>4. ASSUME NEW w \in Creators, FillFails(w) PROVE Shape'
    BY <1>4 DEF FillFails, UnlockOnError, Release, Return, Workers
  <1>5. ASSUME NEW w \in Loaders, Get(w) PROVE Shape'
    <2>1. w \in Workers
      BY DEF Workers
    <2>2. CASE cached # None
      <3>1. ref' = [ref EXCEPT ![w] = cached] /\ pc' = [pc EXCEPT ![w] = "lock"]
        BY <1>5, <2>2 DEF Get
      <3>2. UNCHANGED <<cached, inst, holder, copy, queue, row, stubbed, history>>
        BY <1>5 DEF Get
      <3> QED
        BY <2>1, <2>2, <3>1, <3>2
    <2>3. CASE cached = None
      BY <1>5, <2>1, <2>3 DEF Get
    <2> QED
      BY <2>2, <2>3
  <1>6. ASSUME NEW w \in Loaders, Query(w) PROVE Shape'
    <2>1. w \in Workers
      BY DEF Workers
    <2>2. CASE row # NoData /\ copy' = [copy EXCEPT ![w] = row] /\ Goto(w, "publish") /\ UNCHANGED ref
      BY <1>6, <2>1, <2>2 DEF Query
    <2>3. CASE Return(w) /\ UNCHANGED copy
      BY <1>6, <2>1, <2>3 DEF Query, Return
    <2> QED
      BY <1>6, <2>2, <2>3 DEF Query
  <1>7. ASSUME NEW w \in Loaders, Publish(w) PROVE Shape'
    <2>1. w \in Workers /\ {} \in Contents /\ copy[w] \in Contents
      BY DEF Workers, Contents
    <2>2. CASE cached # None
      BY <1>7, <2>1, <2>2 DEF Publish, GetOrSet
    <2>3. CASE cached = None
      <3>1. SetNew(w, copy[w], FALSE)
        BY <1>7, <2>3 DEF Publish, GetOrSet
      <3>2. /\ cached' \in Instances /\ cached' # None
            /\ inst' \in [Instances -> [data : Contents, new : BOOLEAN]]
            /\ ref' = [ref EXCEPT ![w] = cached']
            /\ \A v \in Workers : pc[v] \notin Working
        BY <2>1, <2>3, <3>1, NewShape
      <3>3. /\ pc' = [pc EXCEPT ![w] = "lock"] /\ UNCHANGED <<holder, queue, row, stubbed, history>>
            /\ copy' = [copy EXCEPT ![w] = {}]
        BY <1>7 DEF Publish
      <3> QED
        BY <2>1, <3>2, <3>3
    <2> QED
      BY <2>2, <2>3
  <1>8. ASSUME NEW w \in Loaders, Lock(w) PROVE Shape'
    <2>1. stubbed' \in BOOLEAN
      BY <1>8, Zenon DEF Lock
    <2> QED
      BY <1>8, <2>1 DEF Lock, Workers
  <1>9. ASSUME NEW w \in Workers, Save(w) PROVE Shape'
    <2>1. inst' \in [Instances -> [data : Contents, new : BOOLEAN]]
      BY <1>9, SaveIs
    <2>2. TypeOK'
      BY <1>9, <2>1, SaveIs
    <2> QED
      BY <1>9, <2>2, SaveIs
  <1>10. ASSUME NEW w \in Workers, Finish(w) PROVE Shape'
    BY <1>10 DEF Finish, NotNew, Release, Return
  <1>11. ASSUME NEW w \in Workers, Leave(w) PROVE Shape'
    BY <1>11 DEF Leave, Release, Return
  <1>12. ASSUME NEW s \in queue, Merge(s) \/ WriteRow(s) \/ GiveUp(s) PROVE Shape'
    <2>1. spoiled' \in BOOLEAN
      BY <1>12, Zenon DEF Merge, WriteRow, GiveUp
    <2> QED
      BY <1>12, <2>1 DEF Merge, WriteRow, GiveUp
  <1>13. Expire => Shape'
    BY DEF Expire, Untouched, Of, Contents
  <1>14. UNCHANGED vars => Shape'
    BY DEF vars
  <1> QED
    BY <1>1, <1>2, <1>3, <1>4, <1>5, <1>6, <1>7, <1>8, <1>9, <1>10, <1>11, <1>12, <1>13, <1>14
       DEF Next, CreatorStep, LoaderStep, HolderStep
-----------------------------------------------------------------------------
(* What is in the cache is current.                                        *)

\* A worker past the lock works on the instance in the cache.
LEMMA LockedIsPlaced ==
  ASSUME Shape, NEW w \in Workers, pc[w] \in Working
  PROVE  ref[w] = cached /\ cached # None /\ cached \in Instances
  BY DEF Shape, Placed, TypeOK

\* Only one worker is past the lock.
LEMMA Alone ==
  ASSUME Held, NEW v \in Workers, NEW w \in Workers, pc[v] \in Locked, pc[w] \in Locked
  PROVE  v = w
  BY DEF Held

\* Without workers there is nothing to keep them apart.
LEMMA NobodyWorks ==
  ASSUME Shape, cached = None
  PROVE  \A w \in Workers : pc[w] \notin Working
  BY DEF Shape, Placed

LEMMA InvInit == Init => Inv
  <1> SUFFICES ASSUME Init PROVE Inv
    OBVIOUS
  <1>1. /\ cached = None /\ queue = {} /\ newest = Of(row)
        /\ \A w \in Workers : pc[w] = "idle"
    BY DEF Init
  <1>2. Shape
    BY ShapeInit
  <1>3. Held /\ Clean /\ FillsNew /\ Blank /\ Settled /\ Reads
    BY <1>1 DEF Held, Clean, FillsNew, Blank, Settled, Reads, Locked
  <1>4. Published /\ Grown /\ Behind /\ Landed /\ RowBehind
    BY <1>1 DEF Published, Grown, Behind, Landed, RowBehind
  <1> QED
    BY <1>2, <1>3, <1>4 DEF Inv

\* What the queue, the row and the history say of each other stays as it is.
LEMMA StoreSame ==
  ASSUME Inv, UNCHANGED <<queue, row, newest, spoiled>>, stubbed' = stubbed \/ stubbed'
  PROVE  Behind' /\ Landed' /\ RowBehind'
  BY DEF Inv, Behind, Landed, RowBehind

\* A step that changes neither contents nor who is past the lock.
LEMMA InvIdle ==
  ASSUME Inv, Shape', UNCHANGED <<cached, inst, holder, queue, row, stubbed, newest, spoiled>>,
         \A w \in Workers : pc'[w] = pc[w] \/ pc'[w] \notin Locked \cup {"publish"},
         \A w \in Workers : pc[w] = "saved" => pc'[w] = "saved",
         \A w \in Workers : pc'[w] = "publish" => copy'[w] = copy[w]
  PROVE  Inv'
  <1>1. Held' /\ Clean' /\ FillsNew' /\ Grown'
    BY DEF Inv, Held, Clean, FillsNew, Grown, Locked
  <1>2. Behind' /\ Landed' /\ RowBehind'
    BY StoreSame
  <1>3. Blank'
    BY DEF Inv, Blank
  <1>4. Settled' /\ Reads' /\ Published'
    BY DEF Inv, Settled, Reads, Published, Locked
  <1> QED
    BY <1>1, <1>2, <1>3, <1>4 DEF Inv

\* A step that releases the lock of a current or blank record.
LEMMA InvRelease ==
  ASSUME Inv, Shape', NEW w \in Workers, pc[w] \in {"fill", "hold"},
         pc' = [pc EXCEPT ![w] = "idle"], holder' = [holder EXCEPT ![ref[w]] = None],
         UNCHANGED <<cached, inst, copy, queue, row, stubbed, newest, spoiled>>
  PROVE  Inv'
  <1>1. ref[w] = cached /\ cached \in Instances
    BY LockedIsPlaced DEF Inv, Working
  <1>2. \A v \in Workers : v # w => pc[v] \notin Locked
    BY Alone DEF Inv, Locked
  <1>3. \A v \in Workers : pc'[v] = IF v = w THEN "idle" ELSE pc[v]
    BY DEF Inv, Shape, TypeOK
  <1>4. Held' /\ Clean' /\ FillsNew' /\ Grown'
    BY <1>2, <1>3 DEF Inv, Held, Clean, FillsNew, Grown, Locked
  <1>5. Behind' /\ Landed' /\ RowBehind'
    BY StoreSame
  <1>6. Blank'
    BY <1>3 DEF Inv, Blank
  <1>7. Settled' /\ Reads' /\ Published'
    BY <1>3 DEF Inv, Settled, Reads, Published, Locked
  <1> QED
    BY <1>4, <1>5, <1>6, <1>7 DEF Inv

\* A step that puts a fresh instance into the empty cache.
LEMMA InvNew ==
  ASSUME Inv, Shape', cached = None, NEW w \in Workers, NEW d \in Contents, NEW b \in BOOLEAN,
         SetNew(w, d, b), IF b THEN d = {} ELSE d = row,
         \A v \in Workers : pc'[v] = pc[v] \/ pc'[v] \in {"lock new", "lock"},
         UNCHANGED <<holder, queue, row, stubbed, newest, spoiled>>
  PROVE  Inv'
  <1>1. /\ cached' # None /\ cached' \in Instances
        /\ inst'[cached'].data = d /\ inst'[cached'].new = b
        /\ \A v \in Workers : pc[v] \notin Working
    BY NewShape DEF Inv
  <1>2. \A v \in Workers : pc'[v] \notin Locked
    BY <1>1 DEF Working, Locked
  <1>3. queue = {} /\ newest = Of(row)
    BY DEF Inv, Clean
  <1>4. Held' /\ Clean' /\ FillsNew' /\ Reads' /\ Published' /\ Grown'
    BY <1>1, <1>2, <1>3 DEF Held, Clean, FillsNew, Reads, Published, Grown, Locked
  <1>5. Behind' /\ Landed' /\ RowBehind'
    BY StoreSame
  <1>6. Of(row)' = Of(row)
    BY DEF Of
  <1>7. Blank'
    <2>1. CASE b
      BY <1>1, <1>3, <1>6, <2>1 DEF Blank
    <2>2. CASE ~b
      BY <1>1, <2>2 DEF Blank
    <2> QED
      BY <2>1, <2>2
  <1>8. Settled'
    <2>1. CASE b
      BY <1>1, <2>1 DEF Settled
    <2>2. CASE ~b
      <3>1. d = row /\ row # NoData
        BY <2>2, NotData
      <3> QED
        BY <1>1, <1>3, <3>1 DEF Settled, Of
    <2> QED
      BY <2>1, <2>2
  <1> QED
    BY <1>4, <1>5, <1>7, <1>8 DEF Inv

\* The actions.
LEMMA InvCreate ==
  ASSUME Inv, Shape', NEW w \in Creators, Create(w)
  PROVE  Inv'
  <1>1. w \in Workers /\ {} \in Contents
    BY DEF Workers, Contents
  <1>2. \A v \in Workers : pc'[v] = IF v = w THEN "lock new" ELSE pc[v]
    BY DEF Create, Goto, Inv, Shape, TypeOK
  <1>3. pc[w] = "idle" /\ UNCHANGED <<holder, copy, queue, row, stubbed, newest, spoiled>>
    BY DEF Create
  <1>4. CASE cached # None
    <2>1. UNCHANGED <<cached, inst>>
      BY <1>4 DEF Create, GetOrSet
    <2> QED
      BY <1>2, <1>3, <2>1, InvIdle DEF Locked
  <1>5. CASE cached = None
    <2>1. SetNew(w, {}, TRUE)
      BY <1>5 DEF Create, GetOrSet
    <2> QED
      BY <1>1, <1>2, <1>3, <1>5, <2>1, InvNew
  <1> QED
    BY <1>4, <1>5

LEMMA InvPublish ==
  ASSUME Inv, Shape', NEW w \in Loaders, Publish(w)
  PROVE  Inv'
  <1>1. w \in Workers /\ copy[w] \in Contents
    BY DEF Workers, Inv, Shape, TypeOK
  <1>2. \A v \in Workers : pc'[v] = IF v = w THEN "lock" ELSE pc[v]
    BY DEF Publish, Goto, Inv, Shape, TypeOK
  <1>3. /\ pc[w] = "publish" /\ UNCHANGED <<holder, queue, row, stubbed, newest, spoiled>>
        /\ \A v \in Workers : v # w => copy'[v] = copy[v]
    BY DEF Publish, Inv, Shape, TypeOK
  <1>4. CASE cached # None
    <2>1. UNCHANGED <<cached, inst>>
      BY <1>4 DEF Publish, GetOrSet
    <2> QED
      BY <1>2, <1>3, <2>1, InvIdle DEF Locked
  <1>5. CASE cached = None
    <2>1. SetNew(w, copy[w], FALSE)
      BY <1>5 DEF Publish, GetOrSet
    <2>2. copy[w] = row
      BY <1>1, <1>3, <1>5 DEF Inv, Published
    <2> QED
      BY <1>1, <1>2, <1>3, <1>5, <2>1, <2>2, InvNew
  <1> QED
    BY <1>4, <1>5

\* The lock is taken: of a new record to load it, of another one to use it; or
\* of a stub, and then nothing is said of what is in it.
LEMMA InvLock ==
  ASSUME Inv, Shape', NEW w \in Workers, NEW l \in {"fill", "hold"},
         pc[w] \in {"lock new", "lock"}, holder[ref[w]] = None,
         holder' = [holder EXCEPT ![ref[w]] = w], pc' = [pc EXCEPT ![w] = l],
         l = "fill" => inst[cached].new, l = "hold" /\ ~stubbed' => ~inst[cached].new,
         stubbed => stubbed',
         UNCHANGED <<cached, inst, ref, copy, queue, row, newest, spoiled>>
  PROVE  Inv'
  <1>1. ref[w] = cached /\ cached # None /\ cached \in Instances
    BY LockedIsPlaced DEF Inv, Working
  <1>2. \A v \in Workers : pc[v] \notin Locked
    <2> SUFFICES ASSUME NEW v \in Workers, pc[v] \in Locked PROVE FALSE
      OBVIOUS
    <2>1. holder[cached] = v
      BY DEF Inv, Held
    <2> QED
      BY <1>1, <2>1, ConstantsAssumption
  <1>3. \A v \in Workers : pc'[v] = IF v = w THEN l ELSE pc[v]
    BY DEF Inv, Shape, TypeOK
  <1>4. holder'[cached] = w
    BY <1>1 DEF Inv, Shape, TypeOK
  <1>5. Held' /\ Clean' /\ Grown'
    BY <1>2, <1>3, <1>4 DEF Inv, Held, Clean, Grown, Locked
  <1>6. FillsNew'
    BY <1>2, <1>3 DEF FillsNew, Locked
  <1>7. Behind' /\ Landed' /\ RowBehind'
    BY DEF Inv, Behind, Landed, RowBehind
  <1>8. Blank'
    BY <1>2, <1>3 DEF Inv, Blank, Locked
  <1>9. Settled' /\ Published'
    BY <1>3 DEF Inv, Settled, Published
  <1>10. Reads'
    BY <1>1, <1>2, <1>3 DEF Inv, Settled, Reads, Locked
  <1> QED
    BY <1>5, <1>6, <1>7, <1>8, <1>9, <1>10 DEF Inv

LEMMA InvFill ==
  ASSUME Inv, Shape', NEW w \in Workers, Fill(w), w \in Creators
  PROVE  Inv'
  <1>1. ref[w] = cached /\ cached # None /\ cached \in Instances /\ pc[w] = "fill"
    BY LockedIsPlaced DEF Inv, Working, Fill
  <1>2. \A v \in Workers : v # w => pc[v] \notin Locked
    BY <1>1, Alone DEF Inv, Locked
  <1>3. \A v \in Workers : pc'[v] = IF v = w THEN "hold" ELSE pc[v]
    BY DEF Fill, Goto, Inv, Shape, TypeOK
  <1>4. UNCHANGED <<cached, holder, copy, queue, row, stubbed, newest, spoiled>>
    BY DEF Fill
  <1>5. inst[cached].new /\ inst[cached].data = {} /\ queue = {} /\ newest = Of(row)
    BY <1>1, <1>2 DEF Inv, FillsNew, Blank, Locked
  <1>6. Held' /\ Clean' /\ FillsNew' /\ Published' /\ Grown'
    BY <1>1, <1>2, <1>3, <1>4, <1>5 DEF Inv, Held, Clean, FillsNew, Published, Grown, Locked
  <1>7. Behind' /\ Landed' /\ RowBehind'
    BY <1>4, StoreSame
  <1>8. CASE row = NoData
    <2>1. UNCHANGED inst
      BY <1>8 DEF Fill, Loaded
    <2>2. newest = {}
      BY <1>5, <1>8 DEF Of
    <2> QED
      BY <1>1, <1>4, <1>5, <1>6, <1>7, <2>1, <2>2 DEF Inv, Blank, Settled, Reads
  <1>9. CASE row # NoData
    <2>1. inst' = [inst EXCEPT ![cached] = [data |-> row, new |-> FALSE]]
      BY <1>1, <1>9 DEF Fill, Loaded
    <2>2. inst'[cached].data = row /\ ~inst'[cached].new
      BY <1>1, <2>1 DEF Inv, Shape, TypeOK
    <2>3. newest = row
      BY <1>5, <1>9 DEF Of
    <2> QED
      BY <1>4, <1>6, <1>7, <2>2, <2>3 DEF Inv, Blank, Settled, Reads
  <1> QED
    BY <1>8, <1>9

LEMMA InvQuery ==
  ASSUME Inv, Shape', NEW w \in Loaders, Query(w)
  PROVE  Inv'
  <1>1. w \in Workers
    BY DEF Workers
  <1>2. pc[w] = "query" /\ UNCHANGED <<cached, inst, holder, queue, row, stubbed, newest, spoiled>>
    BY DEF Query
  <1>3. CASE Return(w) /\ UNCHANGED copy
    <2>1. \A v \in Workers : pc'[v] = IF v = w THEN "idle" ELSE pc[v]
      BY <1>3 DEF Return, Goto, Inv, Shape, TypeOK
    <2> QED
      BY <1>2, <1>3, <2>1, InvIdle DEF Locked
  <1>4. CASE copy' = [copy EXCEPT ![w] = row] /\ Goto(w, "publish")
    <2>1. \A v \in Workers : pc'[v] = IF v = w THEN "publish" ELSE pc[v]
      BY <1>4 DEF Goto, Inv, Shape, TypeOK
    <2>2. \A v \in Workers : copy'[v] = IF v = w THEN row ELSE copy[v]
      BY <1>4 DEF Inv, Shape, TypeOK
    <2>3. Held' /\ Clean' /\ FillsNew' /\ Grown'
      BY <1>2, <2>1 DEF Inv, Held, Clean, FillsNew, Grown, Locked
    <2>4. Blank' /\ Behind' /\ Landed' /\ RowBehind'
      BY <1>2, <2>1, StoreSame DEF Inv, Blank
    <2>5. Settled' /\ Reads' /\ Published'
      BY <1>2, <2>1, <2>2 DEF Inv, Settled, Reads, Published
    <2> QED
      BY <2>3, <2>4, <2>5 DEF Inv
  <1> QED
    BY <1>3, <1>4 DEF Query

LEMMA InvSave ==
  ASSUME Inv, Shape', NEW w \in Workers, Save(w)
  PROVE  Inv' /\ (~stubbed => newest' = newest \cup {made + 1})
  <1>1. /\ pc[w] = "hold" /\ ref[w] = cached /\ cached \in Instances
        /\ inst'[cached].data = newest' /\ inst'[cached].new = inst[cached].new
        /\ newest' = inst[cached].data \cup {made + 1} /\ newest' \in Contents
        /\ queue' = queue \cup {newest'} /\ ~spoiled'
        /\ UNCHANGED <<cached, holder, ref, copy, row, stubbed>>
    BY SaveIs DEF Inv
  <1>2. \A v \in Workers : pc'[v] = IF v = w THEN "saved" ELSE pc[v]
    BY DEF Save, Goto, Inv, Shape, TypeOK
  <1>3. cached # None
    BY <1>1, ConstantsAssumption
  <1>4. ~stubbed => newest = inst[cached].data
    BY <1>1 DEF Inv, Reads
  <1>5. Held' /\ Clean' /\ FillsNew' /\ Published'
    BY <1>1, <1>2, <1>3 DEF Inv, Held, Clean, FillsNew, Published, Locked
  <1>6. Blank'
    BY <1>2 DEF Blank
  <1>7. Settled' /\ Reads'
    BY <1>1 DEF Settled, Reads
  <1>8. \A s \in queue' : s \subseteq newest'
    BY <1>1, <1>3 DEF Inv, Grown
  <1>9. Grown' /\ Behind'
    BY <1>1, <1>8 DEF Grown, Behind
  <1>10. Landed' /\ RowBehind'
    <2>1. Of(row)' = Of(row)
      BY <1>1 DEF Of
    <2> QED
      BY <1>1, <1>4, <2>1 DEF Inv, Landed, RowBehind
  <1> QED
    BY <1>1, <1>4, <1>5, <1>6, <1>7, <1>9, <1>10 DEF Inv

LEMMA InvFinish ==
  ASSUME Inv, Shape', NEW w \in Workers, Finish(w)
  PROVE  Inv'
  <1>1. ref[w] = cached /\ cached # None /\ cached \in Instances /\ pc[w] = "saved"
    BY LockedIsPlaced DEF Inv, Working, Finish
  <1>2. \A v \in Workers : v # w => pc[v] \notin Locked
    BY <1>1, Alone DEF Inv, Locked
  <1>3. \A v \in Workers : pc'[v] = IF v = w THEN "idle" ELSE pc[v]
    BY DEF Finish, Return, Goto, Inv, Shape, TypeOK
  <1>4. UNCHANGED <<cached, copy, queue, row, stubbed, newest, spoiled>>
    BY <1>1 DEF Finish
  <1>5. inst' = [inst EXCEPT ![cached] = [data |-> inst[cached].data, new |-> FALSE]]
    BY <1>1 DEF Finish, NotNew
  <1>6. inst'[cached].data = inst[cached].data /\ ~inst'[cached].new
    BY <1>1, <1>5 DEF Inv, Shape, TypeOK
  <1>7. Held' /\ Clean' /\ FillsNew' /\ Published' /\ Reads' /\ Grown'
    BY <1>2, <1>3, <1>4, <1>6 DEF Inv, Held, Clean, FillsNew, Published, Reads, Grown, Locked
  <1>8. Behind' /\ Landed' /\ RowBehind'
    BY <1>4, StoreSame
  <1>9. Blank' /\ Settled'
    BY <1>1, <1>4, <1>6 DEF Inv, Blank, Settled, Reads
  <1> QED
    BY <1>7, <1>8, <1>9 DEF Inv

\* The queue lets go of a snapshot: it is written, given up or merged.
LEMMA InvQueue ==
  ASSUME Inv, Shape', NEW s \in queue, Merge(s) \/ WriteRow(s) \/ GiveUp(s)
  PROVE  Inv'
  <1>1. /\ queue' = queue \ {s}
        /\ UNCHANGED <<cached, inst, holder, pc, ref, copy, newest, stubbed>>
    BY DEF Merge, WriteRow, GiveUp
  <1>2. cached # None /\ s \subseteq newest /\ s \in Contents /\ newest \in Contents
    BY DEF Inv, Shape, TypeOK, Clean, Behind
  <1>3. ~(inst[cached].new /\ \A w \in Workers : pc[w] # "saved")
    BY <1>2 DEF Inv, Blank
  <1>4. Held' /\ Clean' /\ FillsNew' /\ Blank' /\ Settled' /\ Reads'
    BY <1>1, <1>2, <1>3 DEF Inv, Held, Clean, FillsNew, Blank, Settled, Reads
  <1>5. Published' /\ Grown' /\ Behind'
    BY <1>1, <1>2 DEF Inv, Published, Grown, Behind
  <1>6. Landed' /\ RowBehind'
    <2>1. CASE Merge(s)
      <3>1. PICK new \in queue : Older(s, new)
        BY <2>1 DEF Merge
      <3>2. s # newest
        BY <3>1 DEF Older, Inv, Behind
      <3> QED
        BY <1>1, <2>1, <3>2 DEF Merge, Inv, Landed, RowBehind
    <2>2. CASE WriteRow(s)
      <3>1. row' = s /\ Of(s) = s
        BY <1>2, <2>2, NotData DEF WriteRow, Of
      <3>2. RowBehind'
        BY <1>1, <1>2, <3>1 DEF RowBehind
      <3>3. ASSUME s = newest PROVE Landed'
        BY <1>1, <3>1, <3>3 DEF Landed
      <3>4. ASSUME s # newest, newest \in queue PROVE Landed'
        BY <1>1, <3>4 DEF Landed
      <3>5. ASSUME s # newest, newest \notin queue PROVE Landed'
        BY <2>2, <3>5 DEF WriteRow, Landed
      <3> QED
        BY <3>2, <3>3, <3>4, <3>5
    <2>3. CASE GiveUp(s)
      <3>1. /\ Of(row)' = Of(row)
            /\ spoiled => spoiled'
            /\ s = newest => spoiled'
        BY <2>3 DEF GiveUp, Of
      <3> QED
        BY <1>1, <3>1 DEF Inv, Landed, RowBehind
    <2> QED
      BY <2>1, <2>2, <2>3
  <1> QED
    BY <1>4, <1>5, <1>6 DEF Inv

LEMMA InvExpire ==
  ASSUME Inv, Shape', Expire
  PROVE  Inv'
  <1>1. /\ queue = {} /\ cached' = None /\ newest' = Of(row)
        /\ \A w \in Workers : pc[w] = "idle"
        /\ UNCHANGED <<inst, holder, pc, ref, copy, queue, row>>
    BY DEF Expire, Untouched
  <1>2. Of(row)' = Of(row)
    BY <1>1 DEF Of
  <1>3. Held' /\ Clean' /\ FillsNew' /\ Blank' /\ Settled' /\ Reads'
    BY <1>1, <1>2 DEF Held, Clean, FillsNew, Blank, Settled, Reads, Locked
  <1>4. Published' /\ Grown' /\ Behind' /\ Landed' /\ RowBehind'
    BY <1>1, <1>2 DEF Published, Grown, Behind, Landed, RowBehind
  <1> QED
    BY <1>3, <1>4 DEF Inv

\* The entry expires: the entity stays what it is, or falls back if the write
\* of its last value has gone wrong.
LEMMA ExpireFallsBack ==
  ASSUME Inv, Expire, ~stubbed
  PROVE  [Atomic!Next]_history
  <1>1. queue = {} /\ newest' = Of(row) /\ ~spoiled' /\ UNCHANGED made
    BY DEF Expire, Untouched
  <1>2. spoiled' = FALSE
    BY <1>1 DEF Expire
  <1>3. CASE spoiled
    <2>1. newest' \in SUBSET newest
      BY <1>1 DEF Inv, RowBehind
    <2> QED
      BY <1>1, <1>2, <1>3, <2>1 DEF Atomic!Next, Atomic!FallBack
  <1>4. CASE ~spoiled
    <2>1. newest' = newest
      BY <1>1, <1>4 DEF Inv, Landed
    <2>2. spoiled' = spoiled
      BY <1>2, <1>4 DEF Inv, Shape, TypeOK
    <2> QED
      BY <1>1, <2>1, <2>2
  <1> QED
    BY <1>3, <1>4

\* A step keeps the invariant, and is a step of the atomic record.
LEMMA InvStep ==
  ASSUME Inv, [Next]_vars
  PROVE  /\ Inv'
         /\ [stubbed \/ Atomic!Next]_history
  <1>1. Shape'
    BY ShapeStep DEF Inv
  <1> DEFINE Step == Inv' /\ [stubbed \/ Atomic!Next]_history
  <1>2. ASSUME Inv', UNCHANGED <<newest, spoiled, made>> PROVE Step
    BY <1>2
  <1>3. ASSUME NEW w \in Creators, Create(w) PROVE Step
    BY <1>1, <1>2, <1>3, InvCreate DEF Create
  <1>4. ASSUME NEW w \in Creators, LockNew(w) PROVE Step
    <2>1. w \in Workers /\ pc[w] = "lock new" /\ holder[ref[w]] = None
      BY <1>4 DEF LockNew, Workers
    <2>2. ref[w] = cached /\ cached \in Instances
      BY <2>1, LockedIsPlaced DEF Inv, Working
    <2>3. /\ holder' = [holder EXCEPT ![ref[w]] = w]
          /\ UNCHANGED <<cached, inst, ref, copy, queue, row, stubbed, history>>
      BY <1>4 DEF LockNew
    <2>4. CASE inst[cached].new
      <3>1. pc' = [pc EXCEPT ![w] = "fill"]
        BY <1>4, <2>2, <2>4 DEF LockNew, Goto
      <3> QED
        BY <1>1, <1>2, <2>1, <2>3, <2>4, <3>1, InvLock
    <2>5. CASE ~inst[cached].new
      <3>1. pc' = [pc EXCEPT ![w] = "hold"]
        BY <1>4, <2>2, <2>5 DEF LockNew, Goto
      <3> QED
        BY <1>1, <1>2, <2>1, <2>3, <2>5, <3>1, InvLock
    <2> QED
      BY <2>4, <2>5
  <1>5. ASSUME NEW w \in Creators, Fill(w) PROVE Step
    BY <1>1, <1>2, <1>5, InvFill DEF Fill, Workers
  <1>6. ASSUME NEW w \in Creators, FillFails(w) PROVE Step
    BY <1>1, <1>2, <1>6, InvRelease DEF FillFails, UnlockOnError, Release, Return, Goto, Workers
  <1>7. ASSUME NEW w \in Loaders, Get(w) PROVE Step
    <2>1. /\ w \in Workers /\ pc[w] = "idle"
          /\ UNCHANGED <<cached, inst, holder, copy, queue, row, stubbed, history>>
      BY <1>7 DEF Get, Workers
    <2>2. PICK l \in {"lock", "query"} : pc' = [pc EXCEPT ![w] = l]
      BY <1>7 DEF Get, Goto
    <2>3. \A v \in Workers : pc'[v] = IF v = w THEN l ELSE pc[v]
      BY <2>2 DEF Inv, Shape, TypeOK
    <2>4. Inv'
      BY <1>1, <2>1, <2>3, InvIdle DEF Locked
    <2> QED
      BY <1>2, <2>1, <2>4
  <1>8. ASSUME NEW w \in Loaders, Query(w) PROVE Step
    BY <1>1, <1>2, <1>8, InvQuery DEF Query
  <1>9. ASSUME NEW w \in Loaders, Publish(w) PROVE Step
    BY <1>1, <1>2, <1>9, InvPublish DEF Publish
  <1>10. ASSUME NEW w \in Loaders, Lock(w) PROVE Step
    <2>1. w \in Workers /\ pc[w] = "lock" /\ holder[ref[w]] = None
      BY <1>10 DEF Lock, Workers
    <2>2. ref[w] = cached /\ cached \in Instances
      BY <2>1, LockedIsPlaced DEF Inv, Working
    <2>3. /\ holder' = [holder EXCEPT ![ref[w]] = w]
          /\ pc' = [pc EXCEPT ![w] = "hold"]
          /\ UNCHANGED <<cached, inst, ref, copy, queue, row, history>>
      BY <1>10 DEF Lock, Goto
    <2>4. (stubbed => stubbed') /\ (~stubbed' => ~inst[cached].new)
      BY <1>10, <2>2 DEF Lock
    <2>5. Inv'
      BY <1>1, <2>1, <2>3, <2>4, InvLock
    <2> QED
      BY <1>2, <2>3, <2>5
  <1>11. ASSUME NEW w \in Workers, Save(w) PROVE Step
    <2>1. Inv' /\ (~stubbed => newest' = newest \cup {made + 1})
      BY <1>1, <1>11, InvSave
    <2>2. made < MaxUpdates /\ made' = made + 1 /\ spoiled' = FALSE
      BY <1>11 DEF Save
    <2> QED
      BY <2>1, <2>2 DEF Atomic!Next, Atomic!Update
  <1>12. ASSUME NEW w \in Workers, Finish(w) PROVE Step
    BY <1>1, <1>2, <1>12, InvFinish DEF Finish
  <1>13. ASSUME NEW w \in Workers, Leave(w) PROVE Step
    BY <1>1, <1>2, <1>13, InvRelease DEF Leave, Release, Return, Goto
  <1>14. ASSUME NEW s \in queue, Merge(s) \/ WriteRow(s) \/ GiveUp(s) PROVE Step
    <2>1. Inv'
      BY <1>1, <1>14, InvQueue
    <2>2. UNCHANGED <<made, newest>>
      BY <1>14 DEF Merge, WriteRow, GiveUp
    <2>3. spoiled' = spoiled \/ spoiled' = TRUE
      <3>1. CASE Merge(s)
        BY <3>1 DEF Merge
      <3>2. spoiled' \in BOOLEAN
        BY <1>1 DEF Shape, TypeOK
      <3>3. CASE WriteRow(s) \/ GiveUp(s)
        <4>1. spoiled => spoiled'
          BY <3>3, Zenon DEF WriteRow, GiveUp
        <4>2. spoiled \in BOOLEAN
          BY DEF Inv, Shape, TypeOK
        <4> QED
          BY <3>2, <4>1, <4>2
      <3> QED
        BY <1>14, <3>1, <3>3
    <2> QED
      BY <2>1, <2>2, <2>3 DEF Atomic!Next, Atomic!Spoil
  <1>15. ASSUME Expire PROVE Step
    BY <1>1, <1>15, InvExpire, ExpireFallsBack
  <1>16. ASSUME UNCHANGED vars PROVE Step
    <2>1. UNCHANGED <<cached, inst, holder, pc, ref, copy, queue, row, stubbed, history>>
      BY <1>16 DEF vars
    <2>2. Inv'
      BY <1>1, <2>1, InvIdle
    <2> QED
      BY <1>2, <2>1, <2>2
  <1> QED
    BY <1>3, <1>4, <1>5, <1>6, <1>7, <1>8, <1>9, <1>10, <1>11, <1>12, <1>13, <1>14, <1>15, <1>16
       DEF Next, CreatorStep, LoaderStep, HolderStep
-----------------------------------------------------------------------------
(* The theorems.                                                           *)

\* The variables keep their types and every worker works on
\* the instance in the cache, whichever way it got it.
THEOREM ShapeHolds == Spec => []Shape
<1>1. Init => Shape
  BY ShapeInit
<1>2. Shape /\ [Next]_vars => Shape'
  BY ShapeStep
<1> QED
  BY <1>1, <1>2, PTL DEF Spec

\* The types alone (the cache and the callers of getOrCreate...Record).
THEOREM TypeCorrect == Spec => []TypeOK
<1>1. Shape => TypeOK
  BY DEF Shape
<1> QED
  BY <1>1, ShapeHolds, PTL

\* GetOrSetFunc gives all workers of an entity the same instance, and so the same
\* mutex, at all times.
THEOREM MutexIsShared == Spec => []SameMutex
<1>1. Shape => SameMutex
  BY DEF Shape, Placed, SameMutex
<1> QED
  BY <1>1, ShapeHolds, PTL

\* The invariant on the contents.
THEOREM InvHolds == Spec => []Inv
<1>1. Init => Inv
  BY InvInit
<1>2. Inv /\ [Next]_vars => Inv'
  BY InvStep
<1> QED
  BY <1>1, <1>2, PTL DEF Spec

\* Who has locked a record reads what the last save left, whether the
\* write-behind queue writes it late, out of order or not at all, unless somebody
\* has locked it as a stub.
THEOREM ReadersSeeTheNewest == Spec => []ReadsNewest
<1>1. Inv => ReadsNewest
  <2> SUFFICES ASSUME Inv, ~stubbed, NEW w \in Workers, pc[w] = "hold"
               PROVE  inst[ref[w]].data = newest
    BY DEF ReadsNewest, LooksUp
  <2>1. ref[w] = cached
    BY LockedIsPlaced DEF Inv, Working
  <2> QED
    BY <2>1 DEF Inv, Reads
<1> QED
  BY <1>1, InvHolds, PTL

\* The cache, the goroutines, the queue and the row implement one atomic record,
\* which falls back only after a write that was given up or overtaken; steps from
\* a state in which a stub was locked are exempt.
THEOREM CacheIsAtomic == Spec => IsAtomic
<1>1. Init => Atomic!Init
  BY DEF Init, Atomic!Init, Of
<1>2. Inv /\ [Next]_vars => [stubbed \/ Atomic!Next]_history
  BY InvStep
<1> QED
  BY <1>1, <1>2, InvHolds, PTL DEF Spec, IsAtomic
=============================================================================
