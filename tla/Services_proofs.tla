-------------------------- MODULE Services_proofs --------------------------
(***************************************************************************)
(* Proofs about what all handlers use (MC_Services), for any number of     *)
(* goroutines, records, messages, receivers and places.                    *)
(*                                                                         *)
(* LockOrder: no goroutines wait for each other.  The inductive invariant  *)
(* is that a goroutine waits only for a lock that ranks above all that it  *)
(* holds.  In a cycle the lock waited for would then rank above itself: as *)
(* there are four ranks, nobody in a cycle waits for a lock of rank 3,     *)
(* hence nobody for one of rank 2, ...                                     *)
(*                                                                         *)
(* WebhookSender and FortTree: the invariants that their own proofs show   *)
(* hold of the composed specification too, whose steps are theirs or leave *)
(* their variables alone.                                                  *)
(***************************************************************************)
EXTENDS MC_Services, SequenceTheorems, TLAPS

\* The invariant: the types, and the order of the locks.
IInv == TypeOK /\ WaitsUpward

\* A lock that is waited for is none that is not there.
LEMMA NoLockIsNone == NoLock \notin Locks
BY DEF NoLock, Locks, Kinds, Outer, Inner

LEMMA LockIsLock ==
    ASSUME NEW kind \in Kinds, NEW id \in Ids
    PROVE  Lock(kind, id) \in Locks /\ Lock(kind, id).kind = kind
BY DEF Lock, Locks

\* Ranks are 0, 1, 2 and 3, and follow from the kind.
LEMMA Ranks ==
    ASSUME NEW l \in Locks
    PROVE  /\ Rank(l) \in 0 .. 3
           /\ l.kind \in Outer => Rank(l) = 0
           /\ l.kind \in Inner => Rank(l) = 1
           /\ l.kind = "shard" => Rank(l) = 2
           /\ l.kind = "mutex" => Rank(l) = 3
           /\ l.kind \notin {"shard", "mutex"} => Rank(l) < 2
           /\ l.kind # "mutex" => Rank(l) < 3
BY DEF Rank, Locks, Kinds, Outer, Inner

\* Asking for a lock above all that are held keeps the invariant.
LEMMA AskKeeps ==
    ASSUME IInv, NEW w \in Workers, NEW l \in Locks,
           Ask(w, l), UNCHANGED held,
           todo' \in [Workers -> Seq(Locks)],
           \A k \in held[w] : Rank(k) < Rank(l)
    PROVE  IInv'
<1>1. TypeOK'
  BY DEF IInv, TypeOK, Ask
<1>2. WaitsUpward'
  BY DEF IInv, TypeOK, WaitsUpward, Ask
<1> QED
  BY <1>1, <1>2 DEF IInv

\* A record of an outer kind is held alone, so that one of an inner kind
\* ranks above.
LEMMA InnerKeeps ==
    ASSUME IInv, NEW w \in Workers, NEW outer \in Outer, NEW inner \in Inner, NEW id \in Ids,
           HoldsOnly(w, outer), Ask(w, Lock(inner, id)), UNCHANGED <<todo, held>>
    PROVE  IInv'
<1>1. PICK i \in Ids : held[w] = {Lock(outer, i)}
  BY DEF HoldsOnly
<1>2. outer \in Kinds /\ inner \in Kinds
  BY DEF Kinds
<1>3. /\ Lock(outer, i) \in Locks /\ Lock(outer, i).kind = outer
      /\ Lock(inner, id) \in Locks /\ Lock(inner, id).kind = inner
  BY <1>2, LockIsLock
<1>4. Rank(Lock(outer, i)) = 0 /\ Rank(Lock(inner, id)) = 1
  BY <1>3, Ranks
<1>5. \A k \in held[w] : Rank(k) < Rank(Lock(inner, id))
  BY <1>1, <1>4
<1> QED
  BY <1>3, <1>5, AskKeeps DEF IInv, TypeOK

LEMMA InitIInv == Init => IInv
<1> SUFFICES ASSUME Init PROVE IInv
  OBVIOUS
<1>1. <<>> \in Seq(Locks)
  BY EmptySeq
<1> QED
  BY <1>1 DEF Init, IInv, TypeOK, WaitsUpward

LEMMA NextIInv == IInv /\ [Next]_vars => IInv'
<1> SUFFICES ASSUME IInv, [Next]_vars PROVE IInv'
  OBVIOUS
<1>1. CASE UNCHANGED vars
  BY <1>1 DEF vars, IInv, TypeOK, WaitsUpward
<1>2. ASSUME NEW w \in Workers, Handle(w) PROVE IInv'
  <2>1. PICK kind \in Outer \cup Inner, id \in Ids :
          todo' = [todo EXCEPT ![w] = <<Lock(kind, id)>>] /\ UNCHANGED <<held, wants>>
    BY <1>2 DEF Handle
  <2>2. kind \in Kinds
    BY DEF Kinds
  <2>3. <<Lock(kind, id)>> \in Seq(Locks)
    BY <2>2, LockIsLock
  <2> QED
    BY <2>1, <2>3 DEF IInv, TypeOK, WaitsUpward
<1>3. ASSUME NEW w \in Workers, ConvertFort(w) PROVE IInv'
  <2>1. PICK kind \in {"pokestop", "gym"}, id \in Ids :
          /\ todo' = [todo EXCEPT ![w] = <<Lock(kind, id),
                        Lock(IF kind = "gym" THEN "pokestop" ELSE "gym", id), Lock(kind, id)>>]
          /\ UNCHANGED <<held, wants>>
    BY <1>3 DEF ConvertFort
  <2>2. kind \in Kinds /\ (IF kind = "gym" THEN "pokestop" ELSE "gym") \in Kinds
    BY DEF Kinds, Inner
  <2>3. Lock(kind, id) \in Locks
        /\ Lock(IF kind = "gym" THEN "pokestop" ELSE "gym", id) \in Locks
    BY <2>2, LockIsLock
  <2>4. todo' \in [Workers -> Seq(Locks)]
    BY <2>1, <2>3 DEF IInv, TypeOK
  <2> QED
    BY <2>1, <2>4 DEF IInv, TypeOK, WaitsUpward
<1>4. ASSUME NEW w \in Workers, LockNext(w) PROVE IInv'
  <2>1. held[w] = {} /\ todo[w] # <<>> /\ Ask(w, Head(todo[w])) /\ UNCHANGED held
        /\ todo' = [todo EXCEPT ![w] = Tail(@)]
    BY <1>4 DEF LockNext, MayLockNext
  <2>2. todo[w] \in Seq(Locks)
    BY DEF IInv, TypeOK
  <2>3. Head(todo[w]) \in Locks /\ Tail(todo[w]) \in Seq(Locks)
    BY <2>1, <2>2, HeadTailProperties
  <2>4. todo' \in [Workers -> Seq(Locks)]
    BY <2>1, <2>3 DEF IInv, TypeOK
  <2> QED
    BY <2>1, <2>3, <2>4, AskKeeps
<1>5. ASSUME NEW w \in Workers, SpawnpointOfPokemon(w) PROVE IInv'
  BY <1>5, InnerKeeps DEF SpawnpointOfPokemon, Outer, Inner
<1>6. ASSUME NEW w \in Workers, PokestopOfPokemon(w) PROVE IInv'
  BY <1>6, InnerKeeps DEF PokestopOfPokemon, Outer, Inner
<1>7. ASSUME NEW w \in Workers, WeatherOfPokemon(w) PROVE IInv'
  BY <1>7, InnerKeeps DEF WeatherOfPokemon, Outer, Inner
<1>8. ASSUME NEW w \in Workers, PokestopOfIncident(w) PROVE IInv'
  BY <1>8, InnerKeeps DEF PokestopOfIncident, Outer, Inner
<1>9. ASSUME NEW w \in Workers, SpawnpointOfTappable(w) PROVE IInv'
  BY <1>9, InnerKeeps DEF SpawnpointOfTappable, Outer, Inner
<1>10. ASSUME NEW w \in Workers, UseCache(w) PROVE IInv'
  <2>1. PICK id \in Ids : Ask(w, Lock("shard", id)) /\ UNCHANGED <<todo, held>>
    BY <1>10 DEF UseCache
  <2>2. Lock("shard", id) \in Locks /\ Lock("shard", id).kind = "shard"
    BY LockIsLock DEF Kinds
  <2>3. \A k \in held[w] : k \in Locks /\ k.kind \notin {"shard", "mutex"}
    BY <1>10 DEF UseCache, Holds, IInv, TypeOK
  <2>4. \A k \in held[w] : Rank(k) < Rank(Lock("shard", id))
    BY <2>2, <2>3, Ranks
  <2> QED
    BY <2>1, <2>2, <2>4, AskKeeps DEF IInv, TypeOK
<1>11. ASSUME NEW w \in Workers, UseMutex(w) PROVE IInv'
  <2>1. PICK id \in Ids : Ask(w, Lock("mutex", id)) /\ UNCHANGED <<todo, held>>
    BY <1>11 DEF UseMutex
  <2>2. Lock("mutex", id) \in Locks /\ Lock("mutex", id).kind = "mutex"
    BY LockIsLock DEF Kinds
  <2>3. \A k \in held[w] : k \in Locks /\ k.kind # "mutex"
    BY <1>11 DEF UseMutex, Holds, IInv, TypeOK
  <2>4. \A k \in held[w] : Rank(k) < Rank(Lock("mutex", id))
    BY <2>2, <2>3, Ranks
  <2> QED
    BY <2>1, <2>2, <2>4, AskKeeps DEF IInv, TypeOK
<1>12. ASSUME NEW w \in Workers, Acquire(w) PROVE IInv'
  <2>1. wants[w] \in Locks
    BY <1>12 DEF Acquire, Runs, IInv, TypeOK
  <2>2. TypeOK'
    BY <1>12, <2>1 DEF Acquire, Ask, IInv, TypeOK
  <2>3. WaitsUpward'
    BY <1>12 DEF Acquire, Ask, IInv, TypeOK, WaitsUpward
  <2> QED
    BY <2>2, <2>3 DEF IInv
<1>13. ASSUME NEW w \in Workers, Release(w) PROVE IInv'
  <2>1. PICK l \in held[w] :
          held' = [held EXCEPT ![w] = @ \ {l}] /\ UNCHANGED <<todo, wants>>
    BY <1>13 DEF Release
  <2>2. TypeOK'
    BY <2>1 DEF IInv, TypeOK
  <2>3. WaitsUpward'
    BY <2>1 DEF IInv, TypeOK, WaitsUpward
  <2> QED
    BY <2>2, <2>3 DEF IInv
<1> QED
  BY <1>1, <1>2, <1>3, <1>4, <1>5, <1>6, <1>7, <1>8, <1>9, <1>10, <1>11, <1>12,
     <1>13 DEF Next

\* Nobody waits in a circle where everybody waits upward.
LEMMA NoCycle == IInv => NoWaitCycle
<1> SUFFICES ASSUME IInv, NEW S \in SUBSET Workers,
                    \A w \in S : wants[w] # NoLock /\ \E v \in S : wants[w] \in held[v]
             PROVE  S = {}
  BY DEF NoWaitCycle
<1> DEFINE R(w) == Rank(wants[w])
<1>1. \A w \in S : wants[w] \in Locks /\ R(w) \in 0 .. 3
  BY Ranks DEF IInv, TypeOK
<1>2. \A w \in S : \E v \in S : R(w) < R(v)
  <2> TAKE w \in S
  <2>1. PICK v \in S : wants[w] \in held[v]
    OBVIOUS
  <2>2. wants[v] # NoLock
    OBVIOUS
  <2> QED
    BY <2>1, <2>2 DEF IInv, WaitsUpward
<1> HIDE DEF R
<1>3. \A w \in S : R(w) # 3
  BY <1>1, <1>2
<1>4. \A w \in S : R(w) # 2
  BY <1>1, <1>2, <1>3
<1>5. \A w \in S : R(w) # 1
  BY <1>1, <1>2, <1>3, <1>4
<1>6. \A w \in S : R(w) # 0
  BY <1>1, <1>2, <1>3, <1>4, <1>5
<1> QED
  BY <1>1, <1>3, <1>4, <1>5, <1>6

\* In every behaviour the values have their types.
THEOREM SpecTypeOK == Spec => []TypeOK
<1>1. IInv => TypeOK
  BY DEF IInv
<1> QED
  BY InitIInv, NextIInv, <1>1, PTL DEF Spec

\* A goroutine waits only for locks that rank above all that it holds.
THEOREM SpecWaitsUpward == Spec => []WaitsUpward
<1>1. IInv => WaitsUpward
  BY DEF IInv
<1> QED
  BY InitIInv, NextIInv, <1>1, PTL DEF Spec

\* Handlers never deadlock on the locks of records, caches and below.
THEOREM SpecNoWaitCycle == Spec => []NoWaitCycle
BY InitIInv, NextIInv, NoCycle, PTL DEF Spec
-----------------------------------------------------------------------------
(* The webhooks and the index of forts, in the composed specification.     *)

Posted == INSTANCE WebhookSender_proofs
Found == INSTANCE FortTree_proofs

\* The two instances of WebhookSender are one.
LEMMA SameWebhooks ==
    ASSUME NEW m, NEW f, NEW r
    PROVE  /\ Webhooks!Flushes = Posted!Flushes
           /\ Webhooks!Init <=> Posted!Init
           /\ Webhooks!Conserved <=> Posted!Conserved
           /\ Webhooks!AddMessage(m) <=> Posted!AddMessage(m)
           /\ Webhooks!Tick(f) <=> Posted!Tick(f)
           /\ Webhooks!RunReturns <=> Posted!RunReturns
           /\ Webhooks!FinalFlush <=> Posted!FinalFlush
           /\ Webhooks!GetCurrentCollection(f) <=> Posted!GetCurrentCollection(f)
           /\ Webhooks!Send(f, r) <=> Posted!Send(f, r)
           /\ Webhooks!Answer(f, r) <=> Posted!Answer(f, r)
           /\ Webhooks!FlushReturns(f) <=> Posted!FlushReturns(f)
           /\ Webhooks!End <=> Posted!End
<1>1. /\ Webhooks!Flushes = Posted!Flushes /\ Webhooks!Idle = Posted!Idle
      /\ Webhooks!Alive <=> Posted!Alive
      /\ Webhooks!MaySend(f, r) <=> Posted!MaySend(f, r)
      /\ Webhooks!Payload(f, r) = Posted!Payload(f, r)
      /\ Webhooks!Sent(f) <=> Posted!Sent(f)
      /\ Webhooks!Sent(Final) <=> Posted!Sent(Final)
      /\ Webhooks!Rest(collection) = Posted!Rest(collection)
  BY Zenon DEF Webhooks!Flushes, Posted!Flushes, Webhooks!Idle, Posted!Idle,
     Webhooks!Alive, Posted!Alive, Webhooks!MaySend, Posted!MaySend,
     Webhooks!Payload, Posted!Payload, Webhooks!Sent, Posted!Sent,
     Webhooks!Rest, Posted!Rest
<1>2. Webhooks!Init <=> Posted!Init
  BY <1>1, Zenon DEF Webhooks!Init, Posted!Init
<1>3. Webhooks!Conserved <=> Posted!Conserved
  BY <1>1, Zenon DEF Webhooks!Conserved, Posted!Conserved, Webhooks!Waits, Posted!Waits
<1>4. Webhooks!AddMessage(m) <=> Posted!AddMessage(m)
  BY <1>1, Zenon DEF Webhooks!AddMessage, Posted!AddMessage
<1>5. Webhooks!Tick(f) <=> Posted!Tick(f)
  BY <1>1, Zenon DEF Webhooks!Tick, Posted!Tick
<1>6. Webhooks!RunReturns <=> Posted!RunReturns
  BY <1>1, Zenon DEF Webhooks!RunReturns, Posted!RunReturns
<1>7. Webhooks!FinalFlush <=> Posted!FinalFlush
  BY <1>1, Zenon DEF Webhooks!FinalFlush, Posted!FinalFlush
<1>8. Webhooks!GetCurrentCollection(f) <=> Posted!GetCurrentCollection(f)
  BY <1>1, Zenon DEF Webhooks!GetCurrentCollection, Posted!GetCurrentCollection
<1>9. Webhooks!Send(f, r) <=> Posted!Send(f, r)
  BY <1>1, Zenon DEF Webhooks!Send, Posted!Send
<1>10. Webhooks!Answer(f, r) <=> Posted!Answer(f, r)
  BY <1>1, Zenon DEF Webhooks!Answer, Posted!Answer
<1>11. Webhooks!FlushReturns(f) <=> Posted!FlushReturns(f)
  BY <1>1, Zenon DEF Webhooks!FlushReturns, Posted!FlushReturns
<1>12. Webhooks!End <=> Posted!End
  BY <1>1, Zenon DEF Webhooks!End, Posted!End
<1> QED
  BY <1>1, <1>2, <1>3, <1>4, <1>5, <1>6, <1>7, <1>8, <1>9, <1>10, <1>11, <1>12

LEMMA WebhooksStep ==
    ASSUME Final \notin Ticks, Posted!IInv, [PartNext]_partVars
    PROVE  Posted!IInv'
<1>1. CASE UNCHANGED webhookVars
  <2>1. UNCHANGED Posted!vars
    BY <1>1 DEF webhookVars, Posted!vars
  <2> QED
    BY <2>1, Posted!NextKeeps
<1>2. CASE ~UNCHANGED webhookVars
  <2>1. Posted!Next
    BY <1>2, SameWebhooks, Zenon DEF PartNext, partVars, TheLocks, TheForts, Posted!Next
  <2> QED
    BY <2>1, Posted!NextKeeps
<1> QED
  BY <1>1, <1>2

\* The two instances of FortTree are one.
LEMMA SameForts ==
    ASSUME NEW kind
    PROVE  /\ Forts!Kinds = Found!Kinds /\ Forts!None = Found!None
           /\ Forts!Init <=> Found!Init
           /\ Forts!FortIsFound <=> Found!FortIsFound
           /\ Forts!Load(kind) <=> Found!Load(kind)
           /\ Forts!Shown(kind) <=> Found!Shown(kind)
           /\ Forts!Marked(kind) <=> Found!Marked(kind)
           /\ Forts!Expire(kind) <=> Found!Expire(kind)
           /\ Forts!Evicted <=> Found!Evicted
           /\ Forts!Restart <=> Found!Restart
<1>1. /\ Forts!Kinds = Found!Kinds /\ Forts!None = Found!None
      /\ Forts!NoRecord = Found!NoRecord /\ Forts!NoLookup = Found!NoLookup
      /\ Forts!Index = Found!Index
  BY DEF Forts!Kinds, Found!Kinds, Forts!None, Found!None, Forts!NoRecord,
     Found!NoRecord, Forts!NoLookup, Found!NoLookup, Forts!Index, Found!Index
<1>2. ASSUME NEW i, NEW p, NEW k, NEW r
      PROVE  /\ Forts!Add(i, p) = Found!Add(i, p) /\ Forts!Remove(i, p) = Found!Remove(i, p)
             /\ Forts!UpdateLookup(i, k, r) = Found!UpdateLookup(i, k, r)
             /\ Forts!SetIndex(i) <=> Found!SetIndex(i)
  BY Zenon DEF Forts!Add, Found!Add, Forts!Remove, Found!Remove, Forts!UpdateLookup,
     Found!UpdateLookup, Forts!SetIndex, Found!SetIndex
<1>3. ASSUME NEW i, NEW p, NEW k, NEW r
      PROVE  /\ Forts!OnSave(i, k, r) = Found!OnSave(i, k, r)
             /\ Forts!OnGet(i, k, r) = Found!OnGet(i, k, r)
             /\ Forts!Evict(i, p) = Found!Evict(i, p)
  <2>1. Forts!Moved(i, r.place) = Found!Moved(i, r.place)
    BY <1>2, Zenon DEF Forts!Moved, Found!Moved
  <2>2. Forts!GenericUpdateFort(i, r) = Found!GenericUpdateFort(i, r)
    BY <1>1, <1>2, <2>1 DEF Forts!GenericUpdateFort, Found!GenericUpdateFort
  <2>3. Forts!OnSave(i, k, r) = Found!OnSave(i, k, r)
    BY <1>2, <2>2, Zenon DEF Forts!OnSave, Found!OnSave
  <2>4. Forts!OnGet(i, k, r) = Found!OnGet(i, k, r)
    BY <1>1, <1>2, Zenon DEF Forts!OnGet, Found!OnGet
  <2>5. Forts!Evict(i, p) = Found!Evict(i, p)
    BY <1>1, <1>2, Zenon DEF Forts!Evict, Found!Evict
  <2> QED
    BY <2>3, <2>4, <2>5
<1>4. ASSUME NEW k, NEW r PROVE Forts!Save(k, r) <=> Found!Save(k, r)
  BY <1>1, <1>3, <1>2, Zenon DEF Forts!Save, Found!Save
<1>5. Forts!Init <=> Found!Init
  BY <1>1, Zenon DEF Forts!Init, Found!Init
<1>6. Forts!FortIsFound <=> Found!FortIsFound
  BY <1>1, Zenon DEF Forts!FortIsFound, Found!FortIsFound
<1>7. Forts!Load(kind) <=> Found!Load(kind)
  BY <1>1, <1>2, <1>3, <1>4, Zenon DEF Forts!Load, Found!Load
<1>8. Forts!Shown(kind) <=> Found!Shown(kind)
  BY <1>1, <1>2, <1>3, <1>4, Zenon DEF Forts!Shown, Found!Shown
<1>9. Forts!Marked(kind) <=> Found!Marked(kind)
  BY <1>1, <1>2, <1>3, <1>4, Zenon DEF Forts!Marked, Found!Marked
<1>10. Forts!Expire(kind) <=> Found!Expire(kind)
  BY <1>1, <1>2, <1>3, <1>4, Zenon DEF Forts!Expire, Found!Expire
<1>11. Forts!Evicted <=> Found!Evicted
  BY <1>1, <1>2, <1>3, <1>4, Zenon DEF Forts!Evicted, Found!Evicted
<1>12. Forts!Restart <=> Found!Restart
  <2> DEFINE empty == [tree |-> [place \in Places |-> 0], lookup |-> Found!NoLookup]
             live == [k \in Found!Kinds |-> IF row[k].deleted THEN Found!NoRecord ELSE row[k]]
             stopped(i, k) == IF live[k] = Found!NoRecord THEN i ELSE Forts!OnSave(i, k, live[k])
             found(i, k) == IF live[k] = Found!NoRecord THEN i ELSE Found!OnSave(i, k, live[k])
             s == stopped(stopped(empty, "gym"), "pokestop")
             t == found(found(empty, "gym"), "pokestop")
             Rest(i) == /\ cached' = live /\ evicting' = {} /\ raced' = FALSE /\ UNCHANGED row
  <2>1. \A i, k : stopped(i, k) = found(i, k)
    BY <1>3
  <2>2. s = t
    BY <2>1
  <2>3. Forts!Restart <=> (Rest(s) /\ Forts!SetIndex(s))
    BY <1>1, Zenon DEF Forts!Restart
  <2>4. Found!Restart <=> (Rest(t) /\ Found!SetIndex(t))
    BY Zenon DEF Found!Restart
  <2>5. Forts!SetIndex(s) <=> Found!SetIndex(s)
    BY <1>2
  <2> QED
    BY <2>2, <2>3, <2>4, <2>5, Zenon
<1> QED
  BY <1>1, <1>5, <1>6, <1>7, <1>8, <1>9, <1>10, <1>11, <1>12

LEMMA FortsStep ==
    ASSUME Forts!None \notin Places, Found!IInv, [PartNext]_partVars
    PROVE  Found!IInv'
<1>1. CASE UNCHANGED treeVars
  <2>1. UNCHANGED Found!vars
    BY <1>1 DEF treeVars, Found!vars
  <2> QED
    BY <2>1, SameForts, Found!NextIInv
<1>2. CASE ~UNCHANGED treeVars
  <2>1. Found!Next
    BY <1>2, SameForts, Zenon DEF PartNext, partVars, TheLocks, TheWebhooks, Found!Next
  <2> QED
    BY <2>1, SameForts, Found!NextIInv
<1> QED
  BY <1>1, <1>2

\* Whichever flushes overlap, each message is for each receiver that wants it
\* in the collection, with one flush or in the one attempt to post it (getCurrentCollection, Flush).
THEOREM SpecConserved == ASSUME Final \notin Ticks PROVE PartSpec => []Conserved
<1>1. PartInit => Posted!IInv
  BY SameWebhooks, Posted!InitIInv DEF PartInit
<1>2. Posted!IInv /\ [PartNext]_partVars => Posted!IInv'
  BY WebhooksStep
<1>3. Posted!IInv => Conserved
  BY SameWebhooks DEF Conserved, Posted!IInv
<1> QED
  BY <1>1, <1>2, <1>3, PTL DEF PartSpec

\* A fort that keeps its kind is found once, where its record says it is, for
\* every set of places and every bound on their entries (fortRtree.go).
THEOREM SpecFortIsFound == ASSUME Forts!None \notin Places PROVE PartSpec => []FortIsFound
<1>1. PartInit => Found!IInv
  BY SameForts, Found!InitIInv DEF PartInit
<1>2. Found!IInv /\ [PartNext]_partVars => Found!IInv'
  BY FortsStep
<1>3. Found!IInv => FortIsFound
  BY SameForts, Found!IInvIsFound DEF FortIsFound
<1> QED
  BY <1>1, <1>2, <1>3, PTL DEF PartSpec
=============================================================================
