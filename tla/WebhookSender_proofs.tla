------------------------ MODULE WebhookSender_proofs ------------------------
(***************************************************************************)
(* No webhook message is forgotten or posted twice, for every number of    *)
(* messages, receivers and flushes that overlap: proof about WebhookSender.*)
(*                                                                         *)
(* Conserved alone is not inductive: a flush must start with nothing left  *)
(* to post (Started), main's flush must not be under way before main       *)
(* starts it (FinalIdle), and a message that was not added must be nowhere *)
(* (NotYet).                                                               *)
(***************************************************************************)
EXTENDS WebhookSender, TLAPS

\* Only a flush that has taken a collection posts something.
Started == \A f \in Flushes : flush[f].at # "sends" => flush[f].todo = {}

FinalIdle == main = "runs" => flush[Final] = Idle

\* A message that was not added yet is nowhere.
NotYet ==
    \A m \in Messages \ added :
        /\ m \notin collection
        /\ \A f \in Flushes : m \notin flush[f].took
        /\ \A r \in Receivers : tries[r][m] = 0

IInv == TypeOK /\ Conserved /\ Started /\ FinalIdle /\ NotYet

LEMMA InitIInv == Init => IInv
<1> SUFFICES ASSUME Init PROVE IInv
  OBVIOUS
<1>1. TypeOK
  BY DEF Init, TypeOK, Idle
<1>2. Conserved /\ Started /\ FinalIdle /\ NotYet
  BY DEF Init, Conserved, Started, FinalIdle, NotYet, Idle, Flushes
<1> QED
  BY <1>1, <1>2 DEF IInv

\* Where a message waits depends on what the flushes took and have to post.
LEMMA WaitsSame ==
    ASSUME NEW m, NEW r,
           \A f \in Flushes : (r \in flush'[f].todo /\ m \in flush'[f].took)
                                <=> (r \in flush[f].todo /\ m \in flush[f].took)
    PROVE  Waits(m, r)' = Waits(m, r)
BY DEF Waits

LEMMA AddMessageKeeps ==
    ASSUME IInv, NEW a \in Messages, AddMessage(a)
    PROVE  IInv'
<1>1. /\ a \notin added /\ collection' = collection \cup {a} /\ added' = added \cup {a}
      /\ UNCHANGED <<flush, tries, run, main>>
  BY DEF AddMessage
<1>2. TypeOK'
  BY <1>1 DEF IInv, TypeOK
<1>3. Started' /\ FinalIdle' /\ NotYet'
  BY <1>1 DEF IInv, Started, FinalIdle, NotYet
<1>4. ASSUME NEW r \in Receivers, NEW m \in added' \cap Wants[r]
      PROVE  \/ m \in collection' /\ Waits(m, r)' = {} /\ tries'[r][m] = 0
             \/ m \notin collection' /\ tries'[r][m] = 0 /\ \E f \in Flushes : Waits(m, r)' = {f}
             \/ m \notin collection' /\ tries'[r][m] = 1 /\ Waits(m, r)' = {}
  <2>1. Waits(m, r)' = Waits(m, r)
    BY <1>1, WaitsSame
  <2>2. CASE m = a
    <3>1. Waits(m, r) = {} /\ tries[r][m] = 0
      BY <1>1, <2>2 DEF IInv, NotYet, Waits
    <3> QED
      BY <1>1, <2>1, <2>2, <3>1
  <2>3. CASE m # a
    <3>1. m \in added \cap Wants[r] /\ (m \in collection' <=> m \in collection)
      BY <1>1, <2>3
    <3> QED
      BY <1>1, <2>1, <3>1 DEF IInv, Conserved
  <2> QED
    BY <2>2, <2>3
<1>5. Conserved'
  BY <1>4 DEF Conserved
<1> QED
  BY <1>2, <1>3, <1>5 DEF IInv

\* Steps that change neither the messages nor what is still to be posted.
LEMMA AsideKeeps ==
    ASSUME IInv, TypeOK', FinalIdle', UNCHANGED <<collection, tries, added>>,
           \A f \in Flushes :
               \/ flush'[f].todo = flush[f].todo /\ flush'[f].took = flush[f].took
                  /\ (flush'[f].at = flush[f].at \/ flush'[f].todo = {})
               \/ flush[f].todo = {} /\ flush'[f].todo = {} /\ flush'[f].took = {}
    PROVE  IInv'
<1>1. Started' /\ NotYet'
  BY DEF IInv, Started, NotYet
<1>2. \A r \in Receivers, m \in Messages : Waits(m, r)' = Waits(m, r)
  BY WaitsSame
<1>3. added \subseteq Messages
  BY DEF IInv, TypeOK
<1>4. Conserved'
  BY <1>2, <1>3 DEF IInv, Conserved
<1> QED
  BY <1>1, <1>4 DEF IInv

LEMMA TickKeeps ==
    ASSUME Final \notin Ticks, IInv, NEW f \in Ticks, Tick(f)
    PROVE  IInv'
<1>1. /\ flush[f] = Idle /\ flush' = [flush EXCEPT ![f].at = "started"]
      /\ UNCHANGED <<collection, tries, added, run, main>>
  BY DEF Tick
<1>2. f \in Flushes /\ Final \in Flushes /\ f # Final
  BY DEF Flushes
<1>3. TypeOK'
  BY <1>1, <1>2 DEF IInv, TypeOK
<1>4. FinalIdle'
  BY <1>1, <1>2 DEF IInv, TypeOK, FinalIdle
<1>5. \A g \in Flushes : /\ flush'[g].todo = flush[g].todo /\ flush'[g].took = flush[g].took
                         /\ flush'[g].at = flush[g].at \/ flush'[g].todo = {}
  <2>1. flush[f].todo = {}
    BY <1>1, <1>2 DEF Idle
  <2>2. flush'[f] = [flush[f] EXCEPT !.at = "started"]
    BY <1>1, <1>2 DEF IInv, TypeOK
  <2>3. \A g \in Flushes \ {f} : flush'[g] = flush[g]
    BY <1>1, <1>2 DEF IInv, TypeOK
  <2>4. flush'[f].todo = flush[f].todo /\ flush'[f].took = flush[f].took
    BY <1>1, <1>2, <2>2 DEF IInv, TypeOK
  <2> QED
    BY <2>1, <2>3, <2>4
<1> QED
  BY <1>1, <1>3, <1>4, <1>5, AsideKeeps

LEMMA FinalFlushKeeps ==
    ASSUME IInv, FinalFlush
    PROVE  IInv'
<1>1. /\ main = "runs" /\ main' = "flushes"
      /\ flush' = [flush EXCEPT ![Final].at = "started"]
      /\ UNCHANGED <<collection, tries, added, run>>
  BY DEF FinalFlush
<1>2. Final \in Flushes /\ flush[Final] = Idle
  BY <1>1 DEF IInv, FinalIdle, Flushes
<1>3. TypeOK'
  BY <1>1, <1>2 DEF IInv, TypeOK
<1>4. FinalIdle'
  BY <1>1 DEF FinalIdle
<1>5. \A g \in Flushes : /\ flush'[g].todo = flush[g].todo /\ flush'[g].took = flush[g].took
                         /\ flush'[g].at = flush[g].at \/ flush'[g].todo = {}
  <2>1. flush[Final].todo = {}
    BY <1>1, <1>2 DEF Idle
  <2>2. flush'[Final] = [flush[Final] EXCEPT !.at = "started"]
    BY <1>1, <1>2 DEF IInv, TypeOK
  <2>3. \A g \in Flushes \ {Final} : flush'[g] = flush[g]
    BY <1>1, <1>2 DEF IInv, TypeOK
  <2>4. flush'[Final].todo = flush[Final].todo /\ flush'[Final].took = flush[Final].took
    BY <1>1, <1>2, <2>2 DEF IInv, TypeOK
  <2> QED
    BY <2>1, <2>3, <2>4
<1> QED
  BY <1>1, <1>3, <1>4, <1>5, AsideKeeps

LEMMA GetCurrentCollectionKeeps ==
    ASSUME IInv, NEW f \in Flushes, GetCurrentCollection(f)
    PROVE  IInv'
<1>1. /\ flush[f].at = "started"
      /\ flush' = [flush EXCEPT ![f] = [at |-> "sends", took |-> collection,
                                        todo |-> Receivers, awaited |-> {}]]
      /\ collection' = {}
      /\ UNCHANGED <<tries, added, run, main>>
  BY DEF GetCurrentCollection, Rest
<1>2. flush[f].todo = {} /\ flush[f] # Idle
  BY <1>1 DEF IInv, Started, Idle
<1>3. /\ flush'[f].took = collection /\ flush'[f].todo = Receivers /\ flush'[f].at = "sends"
      /\ \A g \in Flushes \ {f} : flush'[g] = flush[g]
  BY <1>1 DEF IInv, TypeOK
<1>4. TypeOK'
  BY <1>1 DEF IInv, TypeOK
<1>5. Started'
  BY <1>3 DEF IInv, Started
<1>6. FinalIdle'
  BY <1>1, <1>2, <1>3 DEF IInv, FinalIdle, Flushes
<1>7. NotYet'
  BY <1>1, <1>3 DEF IInv, NotYet
<1>8. ASSUME NEW r \in Receivers, NEW m \in added \cap Wants[r]
      PROVE  \/ m \in collection' /\ Waits(m, r)' = {} /\ tries'[r][m] = 0
             \/ m \notin collection' /\ tries'[r][m] = 0 /\ \E g \in Flushes : Waits(m, r)' = {g}
             \/ m \notin collection' /\ tries'[r][m] = 1 /\ Waits(m, r)' = {}
  <2>1. m \notin collection' /\ tries'[r][m] = tries[r][m]
    BY <1>1
  <2>2. CASE m \in collection
    <3>1. Waits(m, r) = {} /\ tries[r][m] = 0
      BY <2>2 DEF IInv, Conserved
    <3>2. Waits(m, r)' = {f}
      BY <1>3, <2>2, <3>1 DEF Waits
    <3> QED
      BY <2>1, <3>1, <3>2
  <2>3. CASE m \notin collection
    <3>1. Waits(m, r)' = Waits(m, r)
      BY <1>2, <1>3, <2>3 DEF Waits
    <3> QED
      BY <2>1, <2>3, <3>1 DEF IInv, Conserved
  <2> QED
    BY <2>2, <2>3
<1>9. Conserved'
  BY <1>1, <1>8 DEF Conserved
<1> QED
  BY <1>4, <1>5, <1>6, <1>7, <1>9 DEF IInv

LEMMA SendKeeps ==
    ASSUME IInv, NEW f \in Flushes, NEW q \in Receivers, Send(f, q)
    PROVE  IInv'
<1>0. PICK posts \in IF Payload(f, q) = {} THEN {{}} ELSE {{q}, {}} :
        flush' = [flush EXCEPT ![f].todo = @ \ {q}, ![f].awaited = @ \cup posts]
  BY DEF Send
<1>1. /\ q \in flush[f].todo
      /\ flush' = [flush EXCEPT ![f].todo = @ \ {q}, ![f].awaited = @ \cup posts]
      /\ tries' = [tries EXCEPT ![q] =
                     [m \in Messages |-> @[m] + (IF m \in Payload(f, q) THEN 1 ELSE 0)]]
      /\ UNCHANGED <<collection, added, run, main>>
  BY <1>0 DEF Send, MaySend
<1>2. /\ flush'[f].took = flush[f].took /\ flush'[f].todo = flush[f].todo \ {q}
      /\ flush'[f].at = flush[f].at
      /\ \A g \in Flushes \ {f} : flush'[g] = flush[g]
  BY <1>1 DEF IInv, TypeOK
<1>3. /\ \A m \in Messages : tries'[q][m] = tries[q][m] + (IF m \in Payload(f, q) THEN 1 ELSE 0)
      /\ \A r \in Receivers \ {q} : tries'[r] = tries[r]
  BY <1>1 DEF IInv, TypeOK
<1>4. TypeOK'
  <2>1. flush' \in [Flushes -> [at : {"idle", "started", "sends"}, took : SUBSET Messages,
                                todo : SUBSET Receivers, awaited : SUBSET Receivers]]
    <3>1. flush[f].awaited \cup posts \in SUBSET Receivers
      <4>1. posts \in SUBSET Receivers
        BY <1>0
      <4> QED
        BY <4>1 DEF IInv, TypeOK
    <3> QED
      BY <1>1, <3>1 DEF IInv, TypeOK
  <2>2. tries' \in [Receivers -> [Messages -> Nat]]
    <3>1. [m \in Messages |-> tries[q][m] + (IF m \in Payload(f, q) THEN 1 ELSE 0)]
            \in [Messages -> Nat]
      BY DEF IInv, TypeOK
    <3> QED
      BY <1>1, <3>1 DEF IInv, TypeOK
  <2> QED
    BY <1>1, <2>1, <2>2 DEF IInv, TypeOK
<1>5. Started'
  BY <1>2 DEF IInv, Started
<1>6. FinalIdle'
  <2>1. main = "runs" => f # Final
    BY <1>1 DEF IInv, FinalIdle, Idle
  <2> QED
    BY <1>1, <1>2, <2>1 DEF IInv, FinalIdle, Flushes
<1>7. NotYet'
  BY <1>1, <1>2, <1>3 DEF IInv, NotYet, Payload, TypeOK
<1>8. ASSUME NEW r \in Receivers, NEW m \in added \cap Wants[r]
      PROVE  \/ m \in collection' /\ Waits(m, r)' = {} /\ tries'[r][m] = 0
             \/ m \notin collection' /\ tries'[r][m] = 0 /\ \E g \in Flushes : Waits(m, r)' = {g}
             \/ m \notin collection' /\ tries'[r][m] = 1 /\ Waits(m, r)' = {}
  <2>0. m \in Messages /\ collection' = collection
    BY <1>1 DEF IInv, TypeOK
  <2>1. CASE r = q /\ m \in flush[f].took
    <3>1. f \in Waits(m, r) /\ m \in Payload(f, q)
      BY <1>1, <2>1 DEF Waits, Payload
    <3>2. m \notin collection /\ tries[r][m] = 0 /\ \E g \in Flushes : Waits(m, r) = {g}
      BY <3>1 DEF IInv, Conserved
    <3>3. Waits(m, r) = {f}
      BY <3>1, <3>2
    <3>4. Waits(m, r)' = {}
      BY <1>2, <2>1, <3>3 DEF Waits
    <3>5. tries'[r][m] = 1
      BY <1>3, <2>0, <2>1, <3>1, <3>2
    <3> QED
      BY <2>0, <3>2, <3>4, <3>5
  <2>2. CASE ~(r = q /\ m \in flush[f].took)
    <3>1. Waits(m, r)' = Waits(m, r)
      BY <1>2, <2>2 DEF Waits
    <3>2. tries'[r][m] = tries[r][m]
      <4>1. CASE r # q
        BY <1>3, <4>1
      <4>2. CASE r = q
        <5>1. m \notin Payload(f, q) /\ tries[r][m] \in Nat
          BY <2>0, <2>2, <4>2 DEF Payload, IInv, TypeOK
        <5> QED
          BY <1>3, <2>0, <4>2, <5>1
      <4> QED
        BY <4>1, <4>2
    <3> QED
      BY <2>0, <3>1, <3>2 DEF IInv, Conserved
  <2> QED
    BY <2>1, <2>2
<1>9. Conserved'
  BY <1>1, <1>8 DEF Conserved
<1> QED
  BY <1>4, <1>5, <1>6, <1>7, <1>9 DEF IInv

LEMMA AnswerKeeps ==
    ASSUME IInv, NEW f \in Flushes, NEW r \in Receivers, Answer(f, r)
    PROVE  IInv'
<1>1. /\ r \in flush[f].awaited
      /\ flush' = [flush EXCEPT ![f].awaited = @ \ {r}]
      /\ UNCHANGED <<collection, tries, added, run, main>>
  BY DEF Answer
<1>2. TypeOK'
  BY <1>1 DEF IInv, TypeOK
<1>3. \A g \in Flushes : flush'[g].todo = flush[g].todo /\ flush'[g].took = flush[g].took
                         /\ flush'[g].at = flush[g].at
  BY <1>1 DEF IInv, TypeOK
<1>4. FinalIdle'
  <2>1. main = "runs" => f # Final
    BY <1>1 DEF IInv, FinalIdle, Idle
  <2> QED
    BY <1>1, <2>1 DEF IInv, TypeOK, FinalIdle, Flushes
<1> QED
  BY <1>1, <1>2, <1>3, <1>4, AsideKeeps

LEMMA FlushReturnsKeeps ==
    ASSUME Final \notin Ticks, IInv, NEW f \in Ticks, FlushReturns(f)
    PROVE  IInv'
<1>1. /\ flush[f].todo = {} /\ flush' = [flush EXCEPT ![f] = Idle]
      /\ UNCHANGED <<collection, tries, added, run, main>>
  BY DEF FlushReturns, Sent
<1>2. f \in Flushes /\ Final \in Flushes /\ f # Final
  BY DEF Flushes
<1>3. flush'[f] = Idle /\ \A g \in Flushes \ {f} : flush'[g] = flush[g]
  BY <1>1, <1>2 DEF IInv, TypeOK
<1>4. TypeOK'
  BY <1>1, <1>2 DEF IInv, TypeOK, Idle
<1>5. FinalIdle'
  BY <1>1, <1>2, <1>3 DEF IInv, FinalIdle
<1>6. \A g \in Flushes :
          \/ flush'[g].todo = flush[g].todo /\ flush'[g].took = flush[g].took
             /\ (flush'[g].at = flush[g].at \/ flush'[g].todo = {})
          \/ flush[g].todo = {} /\ flush'[g].todo = {} /\ flush'[g].took = {}
  BY <1>1, <1>3 DEF Idle
<1> QED
  BY <1>1, <1>4, <1>5, <1>6, AsideKeeps

LEMMA NextKeeps ==
    ASSUME Final \notin Ticks, IInv, [Next]_vars
    PROVE  IInv'
<1>1. CASE RunReturns \/ End \/ UNCHANGED vars
  <2>1. UNCHANGED <<collection, flush, tries, added>>
    BY <1>1 DEF RunReturns, End, vars
  <2>2. TypeOK' /\ FinalIdle'
    BY <1>1 DEF IInv, TypeOK, FinalIdle, RunReturns, End, vars
  <2> QED
    BY <2>1, <2>2, AsideKeeps
<1> QED
  BY <1>1, AddMessageKeeps, TickKeeps, FinalFlushKeeps, GetCurrentCollectionKeeps,
     SendKeeps, AnswerKeeps, FlushReturnsKeeps DEF Next
-----------------------------------------------------------------------------
\* Every variable keeps its type, if main's flush is none of the ticker's.
THEOREM SpecTypeOK == ASSUME Final \notin Ticks PROVE Spec => []TypeOK
<1>1. IInv /\ [Next]_vars => IInv'
  BY NextKeeps
<1>2. IInv => TypeOK
  BY DEF IInv
<1> QED
  BY <1>1, <1>2, InitIInv, PTL DEF Spec

\* Whichever flushes overlap, each message is for each receiver that wants it
\* in the collection, with one flush or in the one attempt to post it (getCurrentCollection, Flush).
THEOREM SpecConserved == ASSUME Final \notin Ticks PROVE Spec => []Conserved
<1>1. IInv /\ [Next]_vars => IInv'
  BY NextKeeps
<1>2. IInv => Conserved
  BY DEF IInv
<1> QED
  BY <1>1, <1>2, InitIInv, PTL DEF Spec
=============================================================================
