---------------------- MODULE WeatherConsensus_proofs ----------------------
(***************************************************************************)
(* Proofs about WeatherConsensus, for any accounts, conditions and hours:  *)
(* the counts are those of the votes, the majority is published, a tie     *)
(* changes nothing, the record, the row and the last reported change show  *)
(* what is published, and the row never goes back in time.                 *)
(*                                                                         *)
(* Which condition the counts elect is computed by a fold.  NatInductive   *)
(* is induction for a set of numbers, from the least-number principle;     *)
(* with it the fold is unrolled over the prefixes of the order in which    *)
(* the map is read (BestOfPrefixes), and what it has seen so far is        *)
(* followed from one prefix to the next (BestStep, Elects).                *)
(***************************************************************************)
EXTENDS WeatherConsensus, FiniteSetTheorems, TLAPS

VotersIn(votes, c) == {a \in DOMAIN votes : votes[a] = c}

\* A bag of conditions, each there at least once.
CountsOK(counts) == counts \in [DOMAIN counts -> Nat \ {0}]

\* The counts of s are those of its votes.
VotesCounted(s) ==
    /\ s = [hour |-> s.hour, published |-> s.published, condition |-> s.condition,
            votes |-> s.votes, counts |-> s.counts, observed |-> s.observed]
    /\ IsFiniteSet(DOMAIN s.votes)
    /\ \A a \in DOMAIN s.votes : s.votes[a] \in Conditions
    /\ CountsOK(s.counts) /\ IsFiniteSet(DOMAIN s.counts)
    /\ \A c \in Conditions : CountOf(c, s.counts) = Cardinality(VotersIn(s.votes, c))
    /\ DOMAIN s.counts \subseteq s.observed

LEMMA AddCounts ==
    ASSUME NEW B, CountsOK(B), NEW x
    PROVE  /\ CountsOK(Counts!BagAdd(B, x))
           /\ DOMAIN Counts!BagAdd(B, x) = DOMAIN B \cup {x}
           /\ \A c : CountOf(c, Counts!BagAdd(B, x)) = CountOf(c, B) + IF c = x THEN 1 ELSE 0
  BY DEF CountsOK, CountOf, Counts!BagAdd, BagIn, BagToSet

LEMMA RemoveCounts ==
    ASSUME NEW B, CountsOK(B), NEW x, CountOf(x, B) > 0
    PROVE  /\ CountsOK(Counts!BagRemove(B, x))
           /\ DOMAIN Counts!BagRemove(B, x) \subseteq DOMAIN B
           /\ \A c : CountOf(c, Counts!BagRemove(B, x)) = CountOf(c, B) - IF c = x THEN 1 ELSE 0
<1>1. x \in DOMAIN B
  BY DEF CountOf, BagIn, BagToSet
<1>2. CASE B[x] = 1
  BY <1>1, <1>2 DEF CountsOK, CountOf, Counts!BagRemove, BagIn, BagToSet
<1>3. CASE B[x] # 1
  BY <1>1, <1>3 DEF CountsOK, CountOf, Counts!BagRemove, BagIn, BagToSet
<1> QED
  BY <1>2, <1>3

LEMMA CountIsNat ==
    ASSUME NEW B, CountsOK(B), NEW c
    PROVE  CountOf(c, B) \in Nat
  BY DEF CountsOK, CountOf, BagIn, BagToSet

\* Who votes for x after a has voted for c.
LEMMA VotersMove ==
    ASSUME NEW votes, IsFiniteSet(DOMAIN votes), NEW a, NEW c, NEW x
    PROVE  Cardinality(VotersIn(WithVote(votes, a, c), x)) =
              Cardinality(VotersIn(votes, x))
                - (IF a \in DOMAIN votes /\ votes[a] = x THEN 1 ELSE 0)
                + (IF c = x THEN 1 ELSE 0)
<1> DEFINE V == VotersIn(votes, x)
<1>1. IsFiniteSet(V) /\ Cardinality(V) \in Nat
  BY FS_Subset, FS_CardinalityType DEF VotersIn
<1>2. IsFiniteSet(V \ {a})
      /\ Cardinality(V \ {a}) = IF a \in V THEN Cardinality(V) - 1 ELSE Cardinality(V)
  BY <1>1, FS_RemoveElement
<1>3. a \in V <=> a \in DOMAIN votes /\ votes[a] = x
  BY DEF VotersIn
<1>4. CASE c = x
  <2>1. VotersIn(WithVote(votes, a, c), x) = (V \ {a}) \cup {a}
    BY <1>4 DEF VotersIn, WithVote
  <2>2. Cardinality((V \ {a}) \cup {a}) = Cardinality(V \ {a}) + 1
    BY <1>2, FS_AddElement
  <2> QED
    BY <1>1, <1>2, <1>3, <1>4, <2>1, <2>2
<1>5. CASE c # x
  <2>1. VotersIn(WithVote(votes, a, c), x) = V \ {a}
    BY <1>5 DEF VotersIn, WithVote
  <2> QED
    BY <1>1, <1>2, <1>3, <1>5, <2>1
<1> QED
  BY <1>4, <1>5

\* However an account changes its mind, each condition is counted as often as
\* it is voted for.
LEMMA VoteIsCounted ==
    ASSUME NEW s, VotesCounted(s), NEW a, NEW c \in Conditions
    PROVE  VotesCounted(Vote(s, a, c))
<1> DEFINE old == IF a \in DOMAIN s.votes THEN Counts!BagRemove(s.counts, s.votes[a]) ELSE s.counts
           v == Vote(s, a, c)
<1>1. v = [hour |-> s.hour, published |-> s.published, condition |-> s.condition,
           votes |-> WithVote(s.votes, a, c), counts |-> Counts!BagAdd(old, c),
           observed |-> s.observed \cup {c}]
  <2>1. s = [hour |-> s.hour, published |-> s.published, condition |-> s.condition,
             votes |-> s.votes, counts |-> s.counts, observed |-> s.observed]
    BY DEF VotesCounted
  <2>2. v = [s EXCEPT !.votes = WithVote(s.votes, a, c), !.counts = Counts!BagAdd(old, c),
                      !.observed = s.observed \cup {c}]
    BY DEF Vote
  <2> QED
    BY <2>1, <2>2
<1>2. IsFiniteSet(DOMAIN v.votes) /\ \A b \in DOMAIN v.votes : v.votes[b] \in Conditions
  <2>1. DOMAIN v.votes = DOMAIN s.votes \cup {a}
    BY <1>1 DEF WithVote
  <2>2. IsFiniteSet(DOMAIN s.votes \cup {a})
    BY FS_AddElement DEF VotesCounted
  <2> QED
    BY <1>1, <2>1, <2>2 DEF WithVote, VotesCounted
<1>3. /\ CountsOK(old) /\ DOMAIN old \subseteq DOMAIN s.counts
      /\ \A x : CountOf(x, old) = CountOf(x, s.counts)
                   - IF a \in DOMAIN s.votes /\ s.votes[a] = x THEN 1 ELSE 0
  <2>1. CASE a \notin DOMAIN s.votes
    BY <2>1, CountIsNat DEF VotesCounted
  <2>2. CASE a \in DOMAIN s.votes
    <3>1. PICK d \in Conditions : d = s.votes[a]
      BY <2>2 DEF VotesCounted
    <3>2. Cardinality(VotersIn(s.votes, d)) \in Nat \ {0}
      <4>1. IsFiniteSet(VotersIn(s.votes, d)) /\ a \in VotersIn(s.votes, d)
        BY <2>2, <3>1, FS_Subset DEF VotersIn, VotesCounted
      <4> QED
        BY <4>1, FS_EmptySet, FS_CardinalityType
    <3>3. CountOf(d, s.counts) > 0
      BY <3>2 DEF VotesCounted
    <3> QED
      BY <2>2, <3>1, <3>3, RemoveCounts DEF VotesCounted
  <2> QED
    BY <2>1, <2>2
<1> HIDE DEF old, v
<1>4. /\ CountsOK(v.counts) /\ DOMAIN v.counts = DOMAIN old \cup {c}
      /\ \A x : CountOf(x, v.counts) = CountOf(x, old) + IF c = x THEN 1 ELSE 0
  BY <1>1, <1>3, AddCounts
<1>5. ASSUME NEW x \in Conditions
      PROVE  CountOf(x, v.counts) = Cardinality(VotersIn(v.votes, x))
  <2>1. CountOf(x, s.counts) = Cardinality(VotersIn(s.votes, x))
    BY DEF VotesCounted
  <2>2. CountOf(x, s.counts) \in Nat
    BY CountIsNat DEF VotesCounted
  <2>3. Cardinality(VotersIn(v.votes, x)) = Cardinality(VotersIn(s.votes, x))
                - (IF a \in DOMAIN s.votes /\ s.votes[a] = x THEN 1 ELSE 0)
                + (IF c = x THEN 1 ELSE 0)
    BY <1>1, VotersMove DEF VotesCounted
  <2> QED
    BY <1>3, <1>4, <2>1, <2>2, <2>3
<1>6. DOMAIN v.counts \subseteq v.observed
  BY <1>1, <1>3, <1>4 DEF VotesCounted
<1>7. IsFiniteSet(DOMAIN v.counts)
  <2>1. IsFiniteSet(DOMAIN old)
    BY <1>3, FS_Subset DEF VotesCounted
  <2> QED
    BY <1>4, <2>1, FS_AddElement
<1>8. VotesCounted(v)
  BY <1>1, <1>2, <1>4, <1>5, <1>6, <1>7 DEF VotesCounted
<1> QED
  BY <1>8 DEF v

\* Neither the hour ...
LEMMA HourIsFree ==
    ASSUME NEW s, VotesCounted(s), NEW d
    PROVE  VotesCounted([s EXCEPT !.hour = d])
<1>0. PICK u : u = [s EXCEPT !.hour = d]
  OBVIOUS
<1>1. s = [hour |-> s.hour, published |-> s.published, condition |-> s.condition,
           votes |-> s.votes, counts |-> s.counts, observed |-> s.observed]
  BY DEF VotesCounted
<1>2. u = [hour |-> d, published |-> s.published, condition |-> s.condition,
           votes |-> s.votes, counts |-> s.counts, observed |-> s.observed]
  BY <1>0, <1>1
<1>3. /\ u = [hour |-> u.hour, published |-> u.published, condition |-> u.condition,
              votes |-> u.votes, counts |-> u.counts, observed |-> u.observed]
      /\ u.votes = s.votes /\ u.counts = s.counts /\ u.observed = s.observed
  BY <1>2
<1>4. VotesCounted(u)
  BY <1>3 DEF VotesCounted
<1> QED
  BY <1>0, <1>4

\* ... nor what is published changes what is counted.
LEMMA ConditionIsFree ==
    ASSUME NEW s, VotesCounted(s), NEW p, NEW d
    PROVE  VotesCounted([s EXCEPT !.published = p, !.condition = d])
<1>0. PICK u : u = [s EXCEPT !.published = p, !.condition = d]
  OBVIOUS
<1>1. s = [hour |-> s.hour, published |-> s.published, condition |-> s.condition,
           votes |-> s.votes, counts |-> s.counts, observed |-> s.observed]
  BY DEF VotesCounted
<1>2. u = [hour |-> s.hour, published |-> p, condition |-> d,
           votes |-> s.votes, counts |-> s.counts, observed |-> s.observed]
  BY <1>0, <1>1
<1>3. /\ u = [hour |-> u.hour, published |-> u.published, condition |-> u.condition,
              votes |-> u.votes, counts |-> u.counts, observed |-> u.observed]
      /\ u.votes = s.votes /\ u.counts = s.counts /\ u.observed = s.observed
  BY <1>2
<1>4. VotesCounted(u)
  BY <1>3 DEF VotesCounted
<1> QED
  BY <1>0, <1>4

LEMMA EmptyIsCounted ==
    ASSUME NEW hour
    PROVE  VotesCounted(Reset(hour)) /\ VotesCounted(NoState)
<1>1. DOMAIN EmptyBag = {}
  BY DEF EmptyBag, SetToBag
<1>2. \A c : CountOf(c, EmptyBag) = 0 /\ VotersIn(<<>>, c) = {} /\ DOMAIN <<>> = {}
  BY <1>1 DEF CountOf, BagIn, BagToSet, VotersIn
<1>3. PICK s : s = NoState
  OBVIOUS
<1>4. /\ s = [hour |-> s.hour, published |-> s.published, condition |-> s.condition,
              votes |-> s.votes, counts |-> s.counts, observed |-> s.observed]
      /\ s.votes = <<>> /\ s.counts = EmptyBag
  BY <1>3 DEF NoState
<1>5. VotesCounted(s)
  <2>1. DOMAIN s.votes = {} /\ IsFiniteSet(DOMAIN s.votes)
    BY <1>2, <1>4, FS_EmptySet
  <2>2. \A c \in Conditions : CountOf(c, s.counts) = Cardinality(VotersIn(s.votes, c))
    BY <1>2, <1>4, FS_EmptySet
  <2>3. CountsOK(s.counts) /\ DOMAIN s.counts \subseteq s.observed
        /\ IsFiniteSet(DOMAIN s.counts)
    BY <1>1, <1>4, FS_EmptySet DEF CountsOK
  <2> QED
    BY <1>4, <2>1, <2>2, <2>3 DEF VotesCounted
<1> QED
  BY <1>3, <1>5, HourIsFree DEF Reset

\* Whatever the fold elects, applyObservation keeps the counts.
LEMMA AppliedIsCounted ==
    ASSUME NEW s, VotesCounted(s), NEW hour, NEW a, NEW c \in Conditions, NEW order
    PROVE  VotesCounted(Applied(s, hour, a, c, order).state)
<1> DEFINE voted == Vote(s, a, c)
           b == BestCounts(voted.counts, order)
           announced == [voted EXCEPT !.published = TRUE, !.condition = b.condition]
           after == Applied(s, hour, a, c, order)
<1>1. VotesCounted(voted)
  BY VoteIsCounted
<1>2. \/ after = [state |-> s, publish |-> None]
      \/ after = [state |-> announced, publish |-> b.condition]
      \/ after = [state |-> voted, publish |-> None]
  BY Zenon DEF Applied
<1> HIDE DEF voted, b
<1>3. VotesCounted(announced)
  BY <1>1, ConditionIsFree
<1> HIDE DEF announced, after
<1>4. VotesCounted(after.state)
  BY <1>1, <1>2, <1>3
<1> QED
  BY <1>4 DEF after

\* The invariant.
Tallied == VotesCounted(state)

LEMMA NextIsCounted ==
    Tallied /\ [Next]_vars => Tallied'
<1> SUFFICES ASSUME Tallied, [Next]_vars PROVE Tallied'
  OBVIOUS
<1>1. ASSUME NEW t, NEW a \in Accounts, NEW c \in Conditions, Observe(a, c, t)
      PROVE  Tallied'
  <2>1. VotesCounted(StateOf(HourKey(t)))
    BY EmptyIsCounted DEF StateOf, Tallied
  <2>2. PICK order : state' = Applied(StateOf(HourKey(t)), HourKey(t), a, c, order).state
    BY <1>1 DEF Observe
  <2> QED
    BY <2>1, <2>2, AppliedIsCounted DEF Tallied
<1>2. ASSUME ExpireState \/ Restart PROVE Tallied'
  BY <1>2, EmptyIsCounted DEF ExpireState, Restart, Tallied
<1>3. ASSUME NEW t, Ignore(t) \/ LoadFails \/ ExpireRecord \/ Tick \/ UNCHANGED vars
      PROVE  state' = state
  BY <1>3 DEF Ignore, LoadFails, ExpireRecord, Tick, vars
<1> QED
  BY <1>1, <1>2, <1>3 DEF Next, Report, Tallied

\* The two maps of a weather cell agree, for any number of accounts that change
\* their minds any number of times: a condition is counted once for each
\* account whose last report it is, and all that is counted has been observed.
THEOREM VotesAreCounted == Spec => []CountsAreVotes
<1>1. Init => Tallied
  BY EmptyIsCounted DEF Init, Tallied
<1>2. Tallied => CountsAreVotes
  BY DEF Tallied, VotesCounted, CountsAreVotes, VotersIn, Voters, BagToSet
<1> QED
  BY <1>1, <1>2, NextIsCounted, PTL DEF Spec
-----------------------------------------------------------------------------
(* The record and its row.                                                 *)

\* Halves are rounded up: seconds are at most half a second ahead of their ticks,
\* and ticks are in no earlier second than what is at most half a second ahead.
LEMMA SecondsRound ==
    ASSUME NEW t \in Nat
    PROVE  /\ InSeconds(t) \in Nat
           /\ InSeconds(t) * Second <= t + Second \div 2
           /\ \A n \in Nat : n * Second <= t + Second \div 2 => n <= InSeconds(t)
<1> DEFINE m == t + Second \div 2
           q == m \div Second
<1>1. Second \in Nat /\ Second > 0 /\ m \in Nat
  BY ConstantsAssumption
<1> HIDE DEF m
<1>2. q \in Nat /\ q * Second <= m /\ m < q * Second + Second
  BY <1>1, SMTT(60)
<1>3. ASSUME NEW n \in Nat, n * Second <= m PROVE n <= q
  <2> HIDE DEF q
  <2>1. SUFFICES ASSUME n >= q + 1 PROVE FALSE
    BY <1>2
  <2>2. n * Second >= (q + 1) * Second
    BY <1>1, <1>2, <2>1, SMTT(60)
  <2>3. (q + 1) * Second = q * Second + Second
    BY <1>1, <1>2, SMTT(60)
  <2>4. n * Second \in Nat /\ q * Second \in Nat
    BY <1>1, <1>2
  <2> QED
    BY <1>1, <1>2, <1>3, <2>2, <2>3, <2>4
<1>4. InSeconds(t) = q /\ t + Second \div 2 = m
  BY DEF InSeconds, m
<1> QED
  BY <1>2, <1>3, <1>4

\* A record that has been loaded or saved is at most half a second behind its row.
Timed ==
    /\ now \in Nat /\ row.updated \in Nat /\ record.updated \in Nat
    /\ record = [condition |-> record.condition, updated |-> record.updated,
                 new |-> record.new, dirty |-> record.dirty]
    /\ record.new \in BOOLEAN
    /\ ~record.new => row.updated * Second <= record.updated + Second \div 2

LEMMA LoadedIsTimed ==
    ASSUME Timed
    PROVE  LET r == Loaded IN
           /\ r = [condition |-> r.condition, updated |-> r.updated, new |-> r.new,
                   dirty |-> r.dirty]
           /\ r.updated \in Nat /\ r.new \in BOOLEAN
           /\ r.new => row.updated = 0
           /\ ~r.new => row.updated * Second <= r.updated + Second \div 2
<1>1. CASE record.new /\ row # NoRow
  <2>1. Loaded = [condition |-> row.condition, updated |-> row.updated * Second,
                  new |-> FALSE, dirty |-> FALSE]
    BY <1>1 DEF Loaded
  <2>2. row.updated * Second \in Nat /\ Second \div 2 \in Nat
    BY ConstantsAssumption DEF Timed
  <2> QED
    BY <2>1, <2>2
<1>2. CASE ~(record.new /\ row # NoRow)
  <2>1. Loaded = record
    BY <1>2 DEF Loaded
  <2>2. record.new => row.updated = 0
    BY <1>2 DEF NoRow
  <2> QED
    BY <2>1, <2>2 DEF Timed
<1> QED
  BY <1>1, <1>2

LEMMA ObserveIsTimed ==
    ASSUME Timed, NEW t \in Nat, NEW a, NEW c, Observe(a, c, t)
    PROVE  Timed' /\ row'.updated >= row.updated
<1> DEFINE r == Loaded
<1>1. /\ r = [condition |-> r.condition, updated |-> r.updated, new |-> r.new,
              dirty |-> r.dirty]
      /\ r.updated \in Nat /\ r.new \in BOOLEAN
      /\ r.new => row.updated = 0
      /\ ~r.new => row.updated * Second <= r.updated + Second \div 2
  BY LoadedIsTimed
<1>2. InSeconds(t) >= row.updated
  <2>1. r.new \/ t >= r.updated
    BY DEF Observe, Timely
  <2>2. row.updated \in Nat /\ InSeconds(t) \in Nat
    BY SecondsRound DEF Timed
  <2>3. ~r.new => row.updated * Second <= t + Second \div 2
    <3>1. row.updated * Second \in Nat /\ Second \div 2 \in Nat
      BY <2>2, ConstantsAssumption
    <3> HIDE DEF r
    <3> QED
      BY <1>1, <2>1, <3>1
  <2> QED
    BY <1>1, <2>2, <2>3, SecondsRound
<1>3. UNCHANGED now
  BY DEF Observe
<1>4. CASE record' = r /\ UNCHANGED row
  BY <1>1, <1>3, <1>4 DEF Timed
<1>5. ASSUME NEW d, NEW differs, Save(Updated(r, d, t, differs))
      PROVE  Timed' /\ row'.updated >= row.updated
  <2> DEFINE u == Updated(r, d, t, differs)
  <2>1. \E dirty : u = [condition |-> d, updated |-> t, new |-> r.new, dirty |-> dirty]
    <3>1. u = [[[r EXCEPT !.condition = d] EXCEPT !.updated = t]
                 EXCEPT !.dirty = r.dirty \/ d # r.condition \/ differs]
      BY DEF Updated
    <3> HIDE DEF u, r
    <3> QED
      BY <1>1, <3>1
  <2>2. Save(u)
    BY <1>5
  <2> HIDE DEF u, r
  <2>3. /\ u = [condition |-> u.condition, updated |-> u.updated, new |-> u.new,
                dirty |-> u.dirty]
        /\ u.updated = t /\ u.new = r.new
    BY <2>1
  <2>4. \/ /\ row'.updated = InSeconds(t)
           /\ record' = [u EXCEPT !.new = FALSE, !.dirty = FALSE]
        \/ row' = row /\ record' = u
    BY <2>2, <2>3 DEF Save
  <2>5. record' = [condition |-> record'.condition, updated |-> record'.updated,
                   new |-> record'.new, dirty |-> record'.dirty]
        /\ record'.updated = t /\ record'.new \in BOOLEAN
    BY <1>1, <2>3, <2>4
  <2>6. /\ InSeconds(t) \in Nat
        /\ InSeconds(t) * Second <= t + Second \div 2
    BY SecondsRound
  <2>7. row'.updated \in Nat /\ row'.updated >= row.updated
    BY <1>2, <2>4, <2>6 DEF Timed
  <2>8. ~record'.new => row'.updated * Second <= record'.updated + Second \div 2
    <3>1. CASE row'.updated = InSeconds(t)
      BY <2>5, <2>6, <3>1
    <3>2. CASE row' = row /\ record' = u
      <4>1. ~r.new => row.updated * Second <= t + Second \div 2
        <5>1. r.new \/ t >= r.updated
          BY DEF Observe, Timely, r
        <5>2. row.updated * Second \in Nat /\ Second \div 2 \in Nat
          BY ConstantsAssumption DEF Timed
        <5> QED
          BY <1>1, <5>1, <5>2
      <4> QED
        BY <2>3, <2>5, <3>2, <4>1
    <3> QED
      BY <2>4, <3>1, <3>2
  <2> QED
    BY <1>3, <2>5, <2>7, <2>8 DEF Timed
<1> QED
  BY <1>4, <1>5 DEF Observe

LEMMA NextIsTimed ==
    Timed /\ [Next]_vars => Timed' /\ [row'.updated >= row.updated]_vars
<1> SUFFICES ASSUME Timed, [Next]_vars PROVE Timed' /\ row'.updated >= row.updated
  OBVIOUS
<1>1. ASSUME NEW t \in 1 .. now, Report(t)
      PROVE  Timed' /\ row'.updated >= row.updated
  <2>1. t \in Nat
    BY DEF Timed
  <2>2. CASE Ignore(t)
    BY <2>2, LoadedIsTimed DEF Ignore, Timed
  <2>3. CASE ~Ignore(t)
    BY <1>1, <2>1, <2>3, ObserveIsTimed DEF Report
  <2> QED
    BY <2>2, <2>3
<1>2. ASSUME ExpireRecord \/ Restart PROVE Timed' /\ row' = row
  <2>1. record' = NoRecord /\ now' = now /\ row' = row
    BY <1>2 DEF ExpireRecord, Restart
  <2> QED
    BY <2>1 DEF NoRecord, Timed
<1>3. ASSUME LoadFails \/ ExpireState \/ Tick \/ UNCHANGED vars
      PROVE  Timed' /\ row' = row
  BY <1>3 DEF LoadFails, ExpireState, Tick, vars, Timed
<1>4. row.updated \in Nat
  BY DEF Timed
<1> QED
  BY <1>1, <1>2, <1>3, <1>4 DEF Next

\* However late reports come, and through expiries, failed queries, restarts and
\* the rounding of the row's time, the time of a weather row never goes back
\* (UpdateClientWeatherBatch, saveWeatherRecord, loadWeatherFromDatabase).
THEOREM RowIsNeverOlder == Spec => NeverOlder
<1>1. Init => Timed
  BY DEF Init, Timed, NoRecord, NoRow
<1> QED
  BY <1>1, NextIsTimed, PTL DEF Spec, NeverOlder
-----------------------------------------------------------------------------
(* The election: what the fold of bestCounts returns.                       *)

\* Every set of numbers that is not empty has a least one.
LEMMA NatLeast ==
    ASSUME NEW T \in SUBSET Nat, T # {}
    PROVE  \E n \in T : \A m \in T : n <= m
<1> DEFINE R == {ss \in Nat \X Nat : ss[1] < ss[2]}
<1>1. IsWellFoundedOn(R, Nat)
  BY NatLessThanWellFounded, Zenon DEF OpToRel
<1>2. \A m, n \in Nat : m < n => <<m, n>> \in R
  OBVIOUS
<1> HIDE DEF R
<1>3. T \subseteq Nat
  OBVIOUS
<1>4. PICK n \in T : \A m \in T : ~ (<<m, n>> \in R)
  BY <1>1, <1>3, WFMin, Zenon
<1>5. \A m \in T : ~ (m < n)
  BY <1>2, <1>3, <1>4
<1>6. \A m \in T : n <= m
  BY <1>3, <1>5
<1> QED
  BY <1>6

\* Induction, for a set of numbers.
LEMMA NatInductive ==
    ASSUME NEW G, 0 \in G, \A n \in Nat : n \in G => n + 1 \in G
    PROVE  Nat \subseteq G
<1> SUFFICES ASSUME Nat \ G # {} PROVE FALSE
  OBVIOUS
<1>1. PICK n \in Nat \ G : \A m \in Nat \ G : n <= m
  BY NatLeast
<1>2. n - 1 \in Nat /\ n - 1 \in G
  BY <1>1
<1> QED
  BY <1>1, <1>2

Base == [condition |-> None, best |-> 0, second |-> 0]

\* The recursion of the fold, over sets of positions.
Folded(counts, order, g, s) ==
    IF s = {} THEN Base ELSE Counted(counts, g[s \ {Max(s)}], order[Max(s)])

LEMMA MaxIs ==
    ASSUME NEW S, NEW x \in S, x \in Int, \A y \in S : y \in Int /\ x >= y
    PROVE  Max(S) = x
<1>1. \A z \in S : (\A y \in S : z >= y) => z = x
  OBVIOUS
<1> QED
  BY <1>1 DEF Max

\* There is a function of that recursion.
LEMMA FoldExists ==
    ASSUME NEW counts, NEW order
    PROVE  \A n \in Nat : \E g : g = [s \in SUBSET (1 .. n) |-> Folded(counts, order, g, s)]
<1> DEFINE E(n) == \E g : g = [s \in SUBSET (1 .. n) |-> Folded(counts, order, g, s)]
           G == {n \in Nat : E(n)}
<1>1. E(0)
  <2> DEFINE g == [s \in {{}} |-> Base]
  <2>1. SUBSET (1 .. 0) = {{}}
    OBVIOUS
  <2>2. g = [s \in SUBSET (1 .. 0) |-> Folded(counts, order, g, s)]
    BY <2>1 DEF Folded
  <2> QED
    BY <2>2
<1>2. ASSUME NEW n \in Nat, E(n) PROVE E(n + 1)
  <2>1. PICK g : g = [s \in SUBSET (1 .. n) |-> Folded(counts, order, g, s)]
    BY <1>2
  <2> DEFINE Next1(s) == IF n + 1 \in s THEN Counted(counts, g[s \ {n + 1}], order[n + 1]) ELSE g[s]
             h == [s \in SUBSET (1 .. n + 1) |-> Next1(s)]
  <2>2. ASSUME NEW s \in SUBSET (1 .. n + 1) PROVE h[s] = Folded(counts, order, h, s)
    <3>0. h[s] = Next1(s) /\ \A t \in SUBSET (1 .. n) : h[t] = g[t]
      OBVIOUS
    <3> HIDE DEF h
    <3>1. CASE n + 1 \in s
      <4>1. s \ {n + 1} \in SUBSET (1 .. n)
        OBVIOUS
      <4>2. \A y \in s : y \in Int /\ n + 1 >= y
        OBVIOUS
      <4>3. Max(s) = n + 1
        BY <3>1, <4>2, MaxIs
      <4> QED
        BY <3>0, <3>1, <4>1, <4>3 DEF Folded
    <3>2. CASE n + 1 \notin s
      <4>0. \A x \in s : x \in 1 .. n
        BY <3>2
      <4>1. s \in SUBSET (1 .. n) /\ s \ {Max(s)} \in SUBSET (1 .. n)
        BY <4>0
      <4>2. h[s] = Folded(counts, order, g, s)
        BY <2>1, <3>0, <3>2, <4>1
      <4> QED
        BY <3>0, <4>1, <4>2 DEF Folded
    <3> QED
      BY <3>1, <3>2
  <2>3. h = [s \in SUBSET (1 .. n + 1) |-> Folded(counts, order, h, s)]
    BY <2>2
  <2> QED
    BY <2>3
<1> HIDE DEF E
<1>3. Nat \subseteq G
  <2>1. 0 \in G /\ \A n \in Nat : n \in G => n + 1 \in G
    BY <1>1, <1>2
  <2> HIDE DEF G
  <2> QED
    BY <2>1, NatInductive
<1>4. \A n \in Nat : E(n)
  BY <1>3
<1> QED
  BY <1>4 DEF E

\* The fold, a prefix of the order after the other.
LEMMA BestOfPrefixes ==
    ASSUME NEW counts, NEW n \in Nat, NEW order, DOMAIN order = 1 .. n
    PROVE  \E best : /\ best[0] = Base
                     /\ \A i \in 1 .. n : best[i] = Counted(counts, best[i - 1], order[i])
                     /\ BestCounts(counts, order) = best[n]
<1> DEFINE iter == CHOOSE g : g = [s \in SUBSET (1 .. n) |-> Folded(counts, order, g, s)]
           best == [i \in 0 .. n |-> iter[1 .. i]]
<1>1. BestCounts(counts, order) = iter[1 .. n]
  BY DEF BestCounts, FoldLeft, MapThenFoldSet, Folded, Base
<1>2. iter = [s \in SUBSET (1 .. n) |-> Folded(counts, order, iter, s)]
  BY FoldExists, Zenon
<1> HIDE DEF iter
<1>3. best[0] = Base
  <2>1. 1 .. 0 = {} /\ {} \in SUBSET (1 .. n)
    OBVIOUS
  <2> QED
    BY <1>2, <2>1 DEF Folded
<1>4. ASSUME NEW i \in 1 .. n PROVE best[i] = Counted(counts, best[i - 1], order[i])
  <2>1. 1 .. i \in SUBSET (1 .. n) /\ i \in 1 .. i
    OBVIOUS
  <2>2. (1 .. i) \ {i} = 1 .. (i - 1)
    OBVIOUS
  <2>5. \A y \in 1 .. i : y \in Int /\ i >= y
    OBVIOUS
  <2>6. Max(1 .. i) = i
    BY <2>1, <2>5, MaxIs
  <2>3. iter[1 .. i] = Counted(counts, iter[1 .. (i - 1)], order[i])
    BY <1>2, <2>1, <2>2, <2>6 DEF Folded
  <2>4. best[i] = iter[1 .. i] /\ best[i - 1] = iter[1 .. (i - 1)]
    OBVIOUS
  <2> QED
    BY <2>3, <2>4
<1> HIDE DEF best
<1>5. best[n] = iter[1 .. n]
  BY DEF best
<1> QED
  BY <1>1, <1>3, <1>4, <1>5

\* Among the first i votes the k-th is the best, and the second is the next.
Leads(acc, v, i, k) ==
    /\ acc.best = v[k].votes /\ acc.condition = v[k].condition
    /\ \A j \in (1 .. i) \ {k} : v[j].votes <= acc.second
    /\ acc.second = 0 \/ \E j \in (1 .. i) \ {k} : v[j].votes = acc.second

BestIs(acc, v, i) ==
    /\ acc = [condition |-> acc.condition, best |-> acc.best, second |-> acc.second]
    /\ acc.best \in Nat /\ acc.second \in 0 .. acc.best
    /\ i = 0 => acc.best = 0
    /\ i > 0 => \E k \in 1 .. i : Leads(acc, v, i, k)

\* What one more condition makes of it.
LEMMA BestStep ==
    ASSUME NEW i \in Nat, NEW v, \A j \in 1 .. i + 1 : v[j].votes \in Nat,
           NEW counts, NEW c, v[i + 1] = [condition |-> c, votes |-> counts[c]], counts[c] > 0,
           NEW acc, BestIs(acc, v, i)
    PROVE  BestIs(Counted(counts, acc, c), v, i + 1)
<1> PICK u : u = Counted(counts, acc, c)
  OBVIOUS
<1> PICK m : m = counts[c]
  OBVIOUS
<1>1. v[i + 1].votes = m /\ v[i + 1].condition = c /\ m \in Nat /\ m > 0
  <2>1. i + 1 \in 1 .. i + 1
    OBVIOUS
  <2> QED
    BY <2>1
<1>2. \A j \in 1 .. i + 1 : j # i + 1 => j \in 1 .. i
  OBVIOUS
<1>3. /\ acc = [condition |-> acc.condition, best |-> acc.best, second |-> acc.second]
      /\ acc.best \in Nat /\ acc.second \in Nat /\ acc.second <= acc.best
      /\ i = 0 => acc.best = 0
  BY DEF BestIs
<1>4. CASE m > acc.best
  <2>1. u = [condition |-> c, best |-> m, second |-> acc.best]
    BY <1>4 DEF Counted
  <2>2. /\ u.condition = c /\ u.best = m /\ u.second = acc.best
        /\ u = [condition |-> u.condition, best |-> u.best, second |-> u.second]
    BY <2>1
  <2>3. ASSUME i = 0 PROVE Leads(u, v, i + 1, i + 1)
    <3>1. (1 .. i + 1) \ {i + 1} = {}
      BY <2>3
    <3>2. Leads(u, v, i + 1, i + 1)
      BY <1>1, <1>3, <2>2, <2>3, <3>1 DEF Leads
    <3> QED
      BY <3>2
  <2>4. ASSUME i > 0 PROVE Leads(u, v, i + 1, i + 1)
    <3>1. PICK k \in 1 .. i : Leads(acc, v, i, k)
      BY <2>4 DEF BestIs
    <3>2. k \in (1 .. i + 1) \ {i + 1} /\ v[k].votes = u.second
      BY <2>2, <3>1 DEF Leads
    <3>3. ASSUME NEW j \in (1 .. i + 1) \ {i + 1} PROVE v[j].votes <= u.second
      <4>1. v[j].votes \in Nat /\ j \in 1 .. i
        BY <1>2
      <4>2. CASE j = k
        BY <2>2, <3>2, <4>1, <4>2, <1>3
      <4>3. CASE j # k
        <5>1. v[j].votes <= acc.second
          BY <3>1, <4>1, <4>3 DEF Leads
        <5> QED
          BY <1>3, <2>2, <4>1, <5>1
      <4> QED
        BY <4>2, <4>3
    <3>4. Leads(u, v, i + 1, i + 1)
      BY <1>1, <2>2, <3>2, <3>3 DEF Leads
    <3> QED
      BY <3>4
  <2>5. Leads(u, v, i + 1, i + 1)
    BY <2>3, <2>4
  <2>6. u.best \in Nat /\ u.second \in 0 .. u.best /\ i + 1 > 0 /\ i + 1 \in 1 .. i + 1
    BY <1>1, <1>3, <1>4, <2>2
  <2> QED
    BY <2>2, <2>5, <2>6 DEF BestIs
<1>5. CASE ~(m > acc.best)
  <2> PICK second : second = IF m > acc.second THEN m ELSE acc.second
    OBVIOUS
  <2>1. u = [condition |-> acc.condition, best |-> acc.best, second |-> second]
    <3>1. u = [acc EXCEPT !.second = second]
      BY <1>5 DEF Counted
    <3> QED
      BY <1>3, <3>1
  <2>2. /\ u.condition = acc.condition /\ u.best = acc.best /\ u.second = second
        /\ u = [condition |-> u.condition, best |-> u.best, second |-> u.second]
    BY <2>1
  <2>3. u.best \in Nat /\ u.second \in 0 .. u.best /\ m <= u.second /\ acc.second <= u.second
    BY <1>1, <1>3, <1>5, <2>2
  <2>4. i > 0
    BY <1>1, <1>3, <1>5
  <2>5. PICK k \in 1 .. i : Leads(acc, v, i, k)
    BY <2>4 DEF BestIs
  <2>6. k \in 1 .. i + 1 /\ k # i + 1
    OBVIOUS
  <2>7. ASSUME NEW j \in (1 .. i + 1) \ {k} PROVE v[j].votes <= u.second
    <3>1. CASE j = i + 1
      BY <1>1, <2>3, <3>1
    <3>2. CASE j # i + 1
      <4>1. v[j].votes \in Nat /\ j \in 1 .. i
        BY <1>2, <3>2
      <4>2. v[j].votes <= acc.second
        BY <2>5, <4>1 DEF Leads
      <4> QED
        BY <1>3, <2>3, <4>1, <4>2
    <3> QED
      BY <3>1, <3>2
  <2>8. u.second = 0 \/ \E j \in (1 .. i + 1) \ {k} : v[j].votes = u.second
    <3>1. CASE m > acc.second
      <4>1. i + 1 \in (1 .. i + 1) \ {k} /\ v[i + 1].votes = u.second
        BY <1>1, <2>2, <2>6, <3>1
      <4> QED
        BY <4>1
    <3>2. CASE ~(m > acc.second)
      <4>1. (1 .. i) \ {k} \subseteq (1 .. i + 1) \ {k}
        OBVIOUS
      <4>2. u.second = acc.second
        BY <2>2, <3>2
      <4> QED
        BY <2>5, <4>1, <4>2 DEF Leads
    <3> QED
      BY <3>1, <3>2
  <2>9. Leads(u, v, i + 1, k)
    BY <2>2, <2>5, <2>7, <2>8 DEF Leads
  <2>10. i + 1 > 0 /\ i + 1 # 0
    OBVIOUS
  <2> QED
    BY <2>2, <2>3, <2>6, <2>9, <2>10 DEF BestIs
<1> QED
  BY <1>1, <1>3, <1>4, <1>5

\* bestCounts: the condition that is ahead, and how many votes the next has, in
\* whatever order the counts are looked at.
LEMMA Elects ==
    ASSUME NEW counts, CountsOK(counts), IsFiniteSet(DOMAIN counts), DOMAIN counts # {},
           NEW order \in SetToSeqs(DOMAIN counts), NEW b, b = BestCounts(counts, order)
    PROVE  /\ b.condition \in DOMAIN counts /\ b.best = counts[b.condition]
           /\ b.best \in Nat /\ b.second \in 0 .. b.best
           /\ \A d \in DOMAIN counts \ {b.condition} : counts[d] <= b.second
           /\ b.second = 0 \/ \E d \in DOMAIN counts \ {b.condition} : counts[d] = b.second
<1> DEFINE S == DOMAIN counts
           n == Cardinality(S)
           v == [j \in 1 .. n |-> [condition |-> order[j], votes |-> counts[order[j]]]]
<1>1. n \in Nat /\ n > 0 /\ IsFiniteSet(1 .. n) /\ Cardinality(1 .. n) = n
  <2>1. n \in Nat /\ n # 0
    BY FS_CardinalityType, FS_EmptySet
  <2> HIDE DEF n
  <2> QED
    BY <2>1, FS_Interval
<1>2. order \in [1 .. n -> S] /\ \A i, j \in 1 .. n : i # j => order[i] # order[j]
  BY Zenon DEF SetToSeqs
<1>3. \A d \in S : \E j \in 1 .. n : order[j] = d
  <2>1. order \in Injection(1 .. n, S)
    BY <1>2 DEF Injection, IsInjective
  <2>2. order \in Surjection(1 .. n, S)
    BY <1>1, <2>1, FS_Injection
  <2> QED
    BY <2>2 DEF Surjection
<1> HIDE DEF n
<1>4. PICK best : /\ best[0] = Base
                  /\ \A i \in 1 .. n : best[i] = Counted(counts, best[i - 1], order[i])
                  /\ b = best[n]
  BY <1>1, <1>2, BestOfPrefixes
<1> DEFINE G == {i \in Nat : i <= n => BestIs(best[i], v, i)}
<1>5. Nat \subseteq G
  <2>1. 0 \in G
    BY <1>4 DEF Base, BestIs
  <2>2. ASSUME NEW i \in Nat, i \in G PROVE i + 1 \in G
    <3>1. CASE i + 1 <= n
      <4>1. i + 1 \in 1 .. n /\ 1 .. i + 1 \subseteq 1 .. n /\ BestIs(best[i], v, i)
        BY <1>1, <2>2, <3>1
      <4>2. best[i + 1] = Counted(counts, best[i], order[i + 1])
        BY <1>4, <4>1
      <4>3. \A j \in 1 .. i + 1 : v[j].votes \in Nat
        BY <1>2, <4>1 DEF CountsOK
      <4>4. /\ v[i + 1] = [condition |-> order[i + 1], votes |-> counts[order[i + 1]]]
            /\ counts[order[i + 1]] > 0
        BY <1>2, <4>1 DEF CountsOK
      <4> HIDE DEF v
      <4>5. BestIs(Counted(counts, best[i], order[i + 1]), v, i + 1)
        BY <4>1, <4>3, <4>4, BestStep
      <4> QED
        BY <4>2, <4>5
    <3>2. CASE ~(i + 1 <= n)
      BY <3>2
    <3> QED
      BY <3>1, <3>2
  <2> HIDE DEF G
  <2> QED
    BY <2>1, <2>2, NatInductive
<1>6. BestIs(b, v, n)
  BY <1>1, <1>4, <1>5
<1>7. \A j \in 1 .. n : v[j].condition = order[j] /\ v[j].votes = counts[order[j]]
  OBVIOUS
<1> HIDE DEF v
<1>8. PICK k \in 1 .. n : Leads(b, v, n, k)
  BY <1>1, <1>6 DEF BestIs
<1>9. b.condition = order[k] /\ b.condition \in S /\ b.best = counts[b.condition]
  BY <1>2, <1>7, <1>8 DEF Leads
<1>10. \A d \in S \ {b.condition} : counts[d] <= b.second
  BY <1>3, <1>7, <1>8, <1>9 DEF Leads
<1>11. b.second = 0 \/ \E d \in S \ {b.condition} : counts[d] = b.second
  BY <1>2, <1>7, <1>8, <1>9 DEF Leads
<1> QED
  BY <1>6, <1>9, <1>10, <1>11 DEF BestIs
-----------------------------------------------------------------------------
(* What is published.                                                      *)

\* Condition x has more votes than any other.
Ahead(x, counts) == \A d \in Conditions \ {x} : CountOf(d, counts) < CountOf(x, counts)

\* The state of a cell: its counts and types, and the majority is published.
StateOK(s) ==
    /\ VotesCounted(s)
    /\ s.hour \in -1 .. MaxTime \div Hour /\ s.published \in BOOLEAN
    /\ s.condition \in ConditionOrNone /\ s.observed \subseteq Conditions
    /\ DOMAIN s.votes \subseteq Accounts
    /\ \A x \in Conditions :
          CountOf(x, s.counts) > 0 /\ Ahead(x, s.counts) => s.published /\ s.condition = x

LEMMA HourKeyType ==
    ASSUME NEW t \in 1 .. MaxTime
    PROVE  HourKey(t) \in 0 .. MaxTime \div Hour
  BY ConstantsAssumption DEF HourKey

\* A condition that is ahead is what bestCounts returns, with the second behind.
LEMMA AheadIsBest ==
    ASSUME NEW s, VotesCounted(s), s.observed \subseteq Conditions, DOMAIN s.counts # {},
           NEW order \in SetToSeqs(DOMAIN s.counts), NEW b, b = BestCounts(s.counts, order)
    PROVE  /\ b.condition \in Conditions
           /\ b.best > b.second => Ahead(b.condition, s.counts)
           /\ \A x \in Conditions : Ahead(x, s.counts) => x = b.condition /\ b.best > b.second
<1>1. /\ b.condition \in DOMAIN s.counts /\ b.best = s.counts[b.condition]
      /\ b.best \in Nat /\ b.second \in 0 .. b.best
      /\ \A d \in DOMAIN s.counts \ {b.condition} : s.counts[d] <= b.second
      /\ b.second = 0 \/ \E d \in DOMAIN s.counts \ {b.condition} : s.counts[d] = b.second
  BY Elects DEF VotesCounted
<1>2. DOMAIN s.counts \subseteq Conditions /\ \A d \in DOMAIN s.counts : s.counts[d] \in Nat \ {0}
  BY DEF VotesCounted, CountsOK
<1>3. \A d : CountOf(d, s.counts) = IF d \in DOMAIN s.counts THEN s.counts[d] ELSE 0
  BY DEF CountOf, BagIn, BagToSet
<1>4. b.best > 0
  BY <1>1, <1>2
<1>5. ASSUME b.best > b.second, NEW d \in Conditions \ {b.condition}
      PROVE  CountOf(d, s.counts) < CountOf(b.condition, s.counts)
  BY <1>1, <1>2, <1>3, <1>4, <1>5
<1>6. ASSUME NEW x \in Conditions, Ahead(x, s.counts)
      PROVE  x = b.condition /\ b.best > b.second
  <2>1. x = b.condition
    <3> SUFFICES ASSUME x # b.condition PROVE FALSE
      OBVIOUS
    <3>1. CountOf(b.condition, s.counts) < CountOf(x, s.counts)
      BY <1>1, <1>2, <1>6 DEF Ahead
    <3>2. CountOf(b.condition, s.counts) = b.best
      BY <1>1, <1>3
    <3>3. CountOf(x, s.counts) <= b.best
      BY <1>1, <1>2, <1>3, <1>4
    <3>4. CountOf(x, s.counts) \in Int
      BY <1>2, <1>3
    <3> QED
      BY <1>1, <3>1, <3>2, <3>3, <3>4
  <2>2. CASE b.second = 0
    BY <1>4, <2>1, <2>2
  <2>3. CASE b.second # 0
    <3>1. PICK d \in DOMAIN s.counts \ {b.condition} : s.counts[d] = b.second
      BY <1>1, <2>3
    <3>2. CountOf(d, s.counts) < CountOf(x, s.counts)
      BY <1>2, <1>6, <2>1, <3>1 DEF Ahead
    <3> QED
      BY <1>1, <1>3, <2>1, <3>1, <3>2
  <2> QED
    BY <2>1, <2>2, <2>3
<1> QED
  BY <1>1, <1>2, <1>5, <1>6 DEF Ahead

\* applyObservation publishes what is ahead, and that only in place of another.
LEMMA AppliedPublishes ==
    ASSUME NEW s, StateOK(s), NEW hour, NEW a \in Accounts, NEW c \in Conditions,
           NEW order \in Orders(s, hour, a, c), NEW o, o = Applied(s, hour, a, c, order)
    PROVE  /\ StateOK(o.state) /\ o.state.hour = s.hour
           /\ o.publish = None =>
                 /\ o.state.published = s.published
                 /\ o.state.condition = s.condition
           /\ o.publish # None =>
                 /\ o.publish \in Conditions
                 /\ o.state.published /\ o.state.condition = o.publish
                 /\ s.published => Ahead(o.publish, o.state.counts)
<1>1. CASE hour < s.hour
  BY <1>1 DEF Applied
<1>2. CASE ~(hour < s.hour)
  <2> PICK voted : voted = Vote(s, a, c)
    OBVIOUS
  <2> PICK b : b = BestCounts(voted.counts, order)
    OBVIOUS
  <2>1. VotesCounted(voted)
    BY VoteIsCounted DEF StateOK
  <2>2. /\ voted = [hour |-> s.hour, published |-> s.published, condition |-> s.condition,
                    votes |-> WithVote(s.votes, a, c), counts |-> voted.counts,
                    observed |-> s.observed \cup {c}]
        /\ c \in DOMAIN voted.counts
    <3> DEFINE old == IF a \in DOMAIN s.votes THEN Counts!BagRemove(s.counts, s.votes[a])
                      ELSE s.counts
    <3>1. s = [hour |-> s.hour, published |-> s.published, condition |-> s.condition,
               votes |-> s.votes, counts |-> s.counts, observed |-> s.observed]
      BY DEF StateOK, VotesCounted
    <3>2. voted = [s EXCEPT !.votes = WithVote(s.votes, a, c), !.counts = Counts!BagAdd(old, c),
                            !.observed = s.observed \cup {c}]
      BY DEF Vote
    <3> HIDE DEF old
    <3>3. voted = [hour |-> s.hour, published |-> s.published, condition |-> s.condition,
                   votes |-> WithVote(s.votes, a, c), counts |-> Counts!BagAdd(old, c),
                   observed |-> s.observed \cup {c}]
      BY <3>1, <3>2
    <3>4. c \in DOMAIN Counts!BagAdd(old, c)
      BY DEF Counts!BagAdd, BagIn, BagToSet
    <3> QED
      BY <3>3, <3>4
  <2>3. voted.observed \subseteq Conditions /\ DOMAIN voted.votes \subseteq Accounts
    BY <2>2 DEF StateOK, WithVote
  <2>4. order \in SetToSeqs(DOMAIN voted.counts)
    BY <1>2, Zenon DEF Orders, BagToSet
  <2>5. /\ b.condition \in Conditions
        /\ b.best > b.second => Ahead(b.condition, voted.counts)
        /\ \A x \in Conditions : Ahead(x, voted.counts) => x = b.condition /\ b.best > b.second
    BY <2>1, <2>2, <2>3, <2>4, AheadIsBest
  <2>6. voted.published = s.published /\ voted.condition = s.condition /\ voted.hour = s.hour
    BY <2>2
  <2>7. CASE Publishes(voted, b)
    <3> PICK u : u = [voted EXCEPT !.published = TRUE, !.condition = b.condition]
      OBVIOUS
    <3>1. o = [state |-> u, publish |-> b.condition]
      BY <1>2, <2>7 DEF Applied
    <3>2. /\ u.published = TRUE /\ u.condition = b.condition /\ u.counts = voted.counts
          /\ u.hour = voted.hour /\ u.observed = voted.observed /\ u.votes = voted.votes
      BY <2>2
    <3>3. VotesCounted(u)
      BY <2>1, ConditionIsFree
    <3>4. StateOK(u)
      BY <2>3, <2>5, <2>6, <3>2, <3>3 DEF StateOK, ConditionOrNone
    <3>5. s.published => Ahead(b.condition, voted.counts)
      BY <2>5, <2>6, <2>7 DEF Publishes
    <3>6. o.state = u /\ o.publish = b.condition /\ b.condition # None
      BY <2>5, <3>1, ConstantsAssumption
    <3> QED
      BY <2>5, <2>6, <3>2, <3>4, <3>5, <3>6
  <2>8. CASE ~Publishes(voted, b)
    <3>1. o = [state |-> voted, publish |-> None]
      BY <1>2, <2>8 DEF Applied
    <3>2. s.published /\ (s.condition = b.condition \/ ~(b.best > b.second))
      BY <2>6, <2>8 DEF Publishes
    <3>3. StateOK(voted)
      BY <2>1, <2>3, <2>5, <2>6, <3>2 DEF StateOK
    <3> QED
      BY <2>6, <3>1, <3>3
  <2> QED
    BY <2>7, <2>8
<1> QED
  BY <1>1, <1>2

\* Nothing has been published of an hour without votes.
LEMMA NoVotesOK ==
    ASSUME NEW hour \in -1 .. MaxTime \div Hour
    PROVE  StateOK(Reset(hour)) /\ ~Reset(hour).published /\ Reset(hour).hour = hour
<1>1. VotesCounted(Reset(hour))
  BY EmptyIsCounted
<1>2. DOMAIN EmptyBag = {} /\ DOMAIN <<>> = {}
  BY DEF EmptyBag, SetToBag
<1>3. \A c : CountOf(c, EmptyBag) = 0
  BY <1>2 DEF CountOf, BagIn, BagToSet
<1>4. PICK s : s = Reset(hour)
  OBVIOUS
<1>5. s = [hour |-> hour, published |-> FALSE, condition |-> None,
           votes |-> <<>>, counts |-> EmptyBag, observed |-> {}]
  BY <1>4 DEF Reset, NoState
<1>6. /\ s.hour = hour /\ s.published = FALSE /\ s.condition = None
      /\ s.votes = <<>> /\ s.counts = EmptyBag /\ s.observed = {}
  BY <1>5
<1>7. VotesCounted(s) /\ \A x \in Conditions : ~ (CountOf(x, s.counts) > 0)
  BY <1>1, <1>3, <1>4, <1>6
<1>8. StateOK(s)
  <2>1. DOMAIN s.votes \subseteq Accounts /\ s.observed \subseteq Conditions
    BY <1>2, <1>6
  <2> QED
    BY <1>6, <1>7, <2>1 DEF StateOK, ConditionOrNone
<1> QED
  BY <1>4, <1>6, <1>8
LEMMA NoStateIsReset == NoState = Reset(-1)
<1>1. PICK s : s = NoState
  OBVIOUS
<1>2. s = [hour |-> -1, published |-> s.published, condition |-> s.condition,
           votes |-> s.votes, counts |-> s.counts, observed |-> s.observed]
  BY <1>1 DEF NoState
<1>3. s = [s EXCEPT !.hour = -1]
  BY <1>2
<1> QED
  BY <1>1, <1>3 DEF Reset


StateIsOK == now \in 1 .. MaxTime /\ StateOK(state)

\* What Observe does, with the lookup of the state and of the record named.
LEMMA ObserveIs ==
    ASSUME StateIsOK, NEW t \in 1 .. now, NEW a \in Accounts, NEW c \in Conditions,
           Observe(a, c, t)
    PROVE  \E s, o :
             /\ s = state \/ (s.hour > state.hour /\ ~s.published)
             /\ state' = o.state /\ StateOK(o.state) /\ o.state.hour = s.hour
             /\ o.publish = None =>
                   /\ o.state.published = s.published
                   /\ o.state.condition = s.condition
             /\ o.publish # None =>
                   /\ o.publish \in Conditions
                   /\ o.state.published /\ o.state.condition = o.publish
                   /\ s.published => Ahead(o.publish, o.state.counts)
             /\ \/ o.publish = None /\ record' = Loaded /\ UNCHANGED <<row, told, missed>>
                \/ /\ o.publish # None
                   /\ \E differs \in BOOLEAN : Save(Updated(Loaded, o.publish, t, differs))
                   /\ Tell(Loaded, o.publish)
<1> PICK hour : hour = HourKey(t)
  OBVIOUS
<1> PICK s : s = StateOf(hour)
  OBVIOUS
<1>1. hour \in 0 .. MaxTime \div Hour
  <2>1. t \in 1 .. MaxTime
    BY ConstantsAssumption DEF StateIsOK
  <2> QED
    BY <2>1, HourKeyType
<1>2. StateOK(s) /\ (s = state \/ (s.hour > state.hour /\ ~s.published))
  <2>1. CASE state.hour < hour
    <3>1. hour \in -1 .. MaxTime \div Hour /\ s = Reset(hour)
      BY <1>1, <2>1 DEF StateOf
    <3>2. StateOK(s) /\ ~s.published /\ s.hour = hour
      BY <3>1, NoVotesOK
    <3> QED
      BY <1>1, <2>1, <3>2 DEF StateIsOK, StateOK
  <2>2. CASE ~(state.hour < hour)
    BY <2>2 DEF StateOf, StateIsOK
  <2> QED
    BY <2>1, <2>2
<1>3. PICK order \in Orders(s, hour, a, c), differs \in BOOLEAN :
        LET o == Applied(s, hour, a, c, order)
        IN  /\ state' = o.state
            /\ \/ o.publish = None /\ record' = Loaded /\ UNCHANGED <<row, told, missed>>
               \/ /\ o.publish # None
                  /\ Save(Updated(Loaded, o.publish, t, differs))
                  /\ Tell(Loaded, o.publish)
  BY Zenon DEF Observe
<1> PICK o : o = Applied(s, hour, a, c, order)
  OBVIOUS
<1>4. /\ StateOK(o.state) /\ o.state.hour = s.hour
      /\ o.publish = None =>
            /\ o.state.published = s.published
            /\ o.state.condition = s.condition
      /\ o.publish # None =>
            /\ o.publish \in Conditions
            /\ o.state.published /\ o.state.condition = o.publish
            /\ s.published => Ahead(o.publish, o.state.counts)
  BY <1>2, AppliedPublishes
<1> QED
  BY <1>2, <1>3, <1>4, Zenon

LEMMA NextStateIsOK ==
    StateIsOK /\ [Next]_vars => StateIsOK'
<1> SUFFICES ASSUME StateIsOK, [Next]_vars PROVE StateIsOK'
  OBVIOUS
<1>1. ASSUME NEW t \in 1 .. now, NEW a \in Accounts, NEW c \in Conditions, Observe(a, c, t)
      PROVE  StateIsOK'
  <2>1. StateOK(state')
    BY <1>1, ObserveIs, Zenon
  <2>2. now' = now
    BY <1>1 DEF Observe
  <2> QED
    BY <2>1, <2>2 DEF StateIsOK
<1>2. ASSUME ExpireState \/ Restart PROVE StateIsOK'
  <2>1. state' = Reset(-1) /\ now' = now
    <3>1. NoState = Reset(-1)
      BY NoStateIsReset
    <3> QED
      BY <1>2, <3>1 DEF ExpireState, Restart
  <2>2. -1 \in -1 .. MaxTime \div Hour
    BY ConstantsAssumption
  <2> QED
    BY <2>1, <2>2, NoVotesOK DEF StateIsOK
<1>3. ASSUME NEW t, Ignore(t) \/ LoadFails \/ ExpireRecord \/ UNCHANGED vars
      PROVE  StateIsOK'
  BY <1>3 DEF Ignore, LoadFails, ExpireRecord, vars, StateIsOK
<1>4. ASSUME Tick PROVE StateIsOK'
  BY <1>4, ConstantsAssumption DEF Tick, StateIsOK
<1> QED
  BY <1>1, <1>2, <1>3, <1>4 DEF Next, Report

LEMMA InitStateIsOK == Init => StateIsOK
<1> SUFFICES ASSUME Init PROVE StateIsOK
  OBVIOUS
<1>1. state = Reset(-1)
  BY NoStateIsReset DEF Init
<1>2. -1 \in -1 .. MaxTime \div Hour /\ now \in 1 .. MaxTime
  BY ConstantsAssumption DEF Init
<1> QED
  BY <1>1, <1>2, NoVotesOK DEF StateIsOK

\* Between two reports the condition that is strictly ahead is the published
\* one, whatever accounts report, change their minds and the map's order.
THEOREM MajorityWins == Spec => []MajorityIsPublished
<1>1. StateIsOK => MajorityIsPublished
  <2> SUFFICES ASSUME StateIsOK, NEW c \in Conditions, Voters(c) # {},
                      \A d \in Conditions \ {c} : Cardinality(Voters(d)) < Cardinality(Voters(c))
               PROVE  state.published /\ state.condition = c
    BY DEF MajorityIsPublished
  <2>1. \A d \in Conditions : CountOf(d, state.counts) = Cardinality(Voters(d))
    BY DEF StateIsOK, StateOK, VotesCounted, VotersIn, Voters
  <2>2. Cardinality(Voters(c)) \in Nat /\ Cardinality(Voters(c)) # 0
    <3>1. IsFiniteSet(Voters(c))
      BY FS_Subset DEF StateIsOK, StateOK, VotesCounted, Voters
    <3> QED
      BY <3>1, FS_CardinalityType, FS_EmptySet
  <2>3. CountOf(c, state.counts) > 0 /\ Ahead(c, state.counts)
    BY <2>1, <2>2 DEF Ahead
  <2> QED
    BY <2>3 DEF StateIsOK, StateOK
<1> QED
  BY <1>1, InitStateIsOK, NextStateIsOK, PTL DEF Spec

\* A tie changes nothing: the published condition is replaced, within the hour,
\* only by one that is ahead of all others (applyObservation).
THEOREM TieChangesNothing == Spec => NoChangeOnTie
<1> DEFINE A == (state.published /\ state'.published /\ state'.hour = state.hour
                   /\ state'.condition # state.condition)
                => \A d \in Conditions \ {state'.condition} :
                     CountOf(d, state'.counts) < CountOf(state'.condition, state'.counts)
<1>1. ASSUME StateIsOK, [Next]_vars PROVE A
  <2> SUFFICES ASSUME state.published, state'.published, state'.hour = state.hour,
                      state'.condition # state.condition
               PROVE  Ahead(state'.condition, state'.counts)
    BY DEF Ahead
  <2>1. state' # state
    OBVIOUS
  <2>2. ~ (ExpireState \/ Restart)
    BY DEF ExpireState, Restart, NoState
  <2>3. PICK t \in 1 .. now, a \in Accounts, c \in Conditions : Observe(a, c, t)
    BY <1>1, <2>1, <2>2 DEF Next, Report, Ignore, LoadFails, ExpireRecord, Tick, vars
  <2>4. PICK s, o :
          /\ s = state \/ (s.hour > state.hour /\ ~s.published)
          /\ state' = o.state /\ o.state.hour = s.hour
          /\ o.publish = None =>
                /\ o.state.published = s.published
                /\ o.state.condition = s.condition
          /\ o.publish # None =>
                /\ o.state.condition = o.publish
                /\ s.published => Ahead(o.publish, o.state.counts)
    BY <1>1, <2>3, ObserveIs, Zenon
  <2>5. state.hour \in Int
    BY <1>1, ConstantsAssumption DEF StateIsOK, StateOK
  <2>6. s = state
    BY <2>4, <2>5
  <2> QED
    BY <2>1, <2>4, <2>6
<1>2. StateIsOK /\ [Next]_vars => [A]_vars
  BY <1>1
<1> QED
  BY <1>2, InitStateIsOK, NextStateIsOK, PTL DEF Spec, NoChangeOnTie
-----------------------------------------------------------------------------
(* What the record and the row show, and what is reported.                 *)

RecordType == [condition : ConditionOrNone, updated : Nat, new : BOOLEAN, dirty : BOOLEAN]
RowType == [condition : ConditionOrNone, updated : Nat]

\* The record, the row and the last reported change agree while no write failed.
Agree ==
    /\ told = row.condition
    /\ record.condition = IF record.new THEN None ELSE row.condition
    /\ state.published => state.condition = row.condition

RecordIsOK ==
    /\ record \in RecordType /\ row \in RowType
    /\ touched \in [state : 0 .. MaxTime, record : 0 .. MaxTime]
    /\ told \in ConditionOrNone /\ missed \in BOOLEAN
    /\ ~missed => Agree

\* A loaded record has its type, and shows its row.
LEMMA LoadedIsOK ==
    ASSUME RecordIsOK, NEW r, r = Loaded
    PROVE  /\ r \in RecordType
           /\ ~missed => r.condition = IF r.new THEN None ELSE row.condition
           /\ ~missed /\ r.new => row.condition = None
<1>1. CASE record.new /\ row # NoRow
  <2>1. r = [condition |-> row.condition, updated |-> row.updated * Second,
             new |-> FALSE, dirty |-> FALSE]
    BY <1>1 DEF Loaded
  <2>2. row.condition \in ConditionOrNone /\ row.updated * Second \in Nat
    BY ConstantsAssumption DEF RecordIsOK, RowType
  <2> QED
    BY <2>1, <2>2 DEF RecordType
<1>2. CASE ~(record.new /\ row # NoRow)
  <2>1. r = record
    BY <1>2 DEF Loaded
  <2>2. record.new => row.condition = None
    BY <1>2 DEF NoRow
  <2> QED
    BY <2>1, <2>2 DEF RecordIsOK, Agree
<1> QED
  BY <1>1, <1>2

LEMMA UpdatedIs ==
    ASSUME NEW r \in RecordType, NEW d, NEW t, NEW differs \in BOOLEAN
    PROVE  \E dirty \in BOOLEAN :
             /\ Updated(r, d, t, differs) =
                   [condition |-> d, updated |-> t, new |-> r.new, dirty |-> dirty]
             /\ d # r.condition => dirty
<1>1. PICK dirty \in BOOLEAN : dirty = (r.dirty \/ d # r.condition \/ differs)
  BY DEF RecordType
<1>2. Updated(r, d, t, differs) = [r EXCEPT !.condition = d, !.updated = t, !.dirty = dirty]
  BY <1>1, Zenon DEF Updated
<1>3. r = [condition |-> r.condition, updated |-> r.updated, new |-> r.new, dirty |-> r.dirty]
  BY DEF RecordType
<1>4. Updated(r, d, t, differs) = [condition |-> d, updated |-> t, new |-> r.new, dirty |-> dirty]
  BY <1>2, <1>3
<1> QED
  BY <1>1, <1>4

\* A publication reaches the record, the row and the report, or a write fails.
LEMMA PublicationIsOK ==
    ASSUME RecordIsOK, NEW d \in Conditions, NEW t \in Nat, NEW differs \in BOOLEAN,
           Save(Updated(Loaded, d, t, differs)), Tell(Loaded, d)
    PROVE  /\ record' \in RecordType /\ row' \in RowType
           /\ told' \in ConditionOrNone /\ missed' \in BOOLEAN
           /\ ~missed' => ~missed /\ told' = d /\ row'.condition = d /\ record'.condition = d
                            /\ ~record'.new
<1> PICK r : r = Loaded
  OBVIOUS
<1> PICK u : u = Updated(r, d, t, differs)
  OBVIOUS
<1>1. /\ r \in RecordType
      /\ ~missed => r.condition = IF r.new THEN None ELSE row.condition
      /\ ~missed /\ r.new => row.condition = None
  BY LoadedIsOK
<1>2. PICK dirty \in BOOLEAN :
        /\ u = [condition |-> d, updated |-> t, new |-> r.new, dirty |-> dirty]
        /\ d # r.condition => dirty
  BY <1>1, UpdatedIs
<1>3. /\ u.condition = d /\ u.updated = t /\ u.new = r.new /\ u.dirty = dirty
      /\ u \in RecordType
  BY <1>1, <1>2 DEF RecordType, ConditionOrNone
<1>4. \/ /\ row' = [condition |-> d, updated |-> InSeconds(t)]
         /\ record' = [condition |-> d, updated |-> t, new |-> FALSE, dirty |-> FALSE]
         /\ missed' = missed
      \/ record' = u /\ missed' = TRUE /\ row' = row
      \/ ~dirty /\ ~u.new /\ record' = u /\ row' = row /\ missed' = missed
  <2>1. Save(u)
    OBVIOUS
  <2>2. /\ u = [condition |-> d, updated |-> t, new |-> u.new, dirty |-> u.dirty]
        /\ u.condition = d /\ u.updated = t /\ u.dirty = dirty
    BY <1>2, <1>3
  <2> PICK w : w = [u EXCEPT !.new = FALSE, !.dirty = FALSE]
    OBVIOUS
  <2>3. w = [condition |-> d, updated |-> t, new |-> FALSE, dirty |-> FALSE]
    BY <2>2
  <2> QED
    BY <2>1, <2>2, <2>3 DEF Save
<1>5. told' = IF d # r.condition THEN d ELSE told
  BY DEF Tell
<1>6. d # None /\ d \in ConditionOrNone /\ None \in ConditionOrNone
  BY ConstantsAssumption DEF ConditionOrNone
<1>7. record' \in RecordType /\ row' \in RowType
  <2>1. /\ [condition |-> d, updated |-> InSeconds(t)] \in RowType
        /\ [condition |-> d, updated |-> t, new |-> FALSE, dirty |-> FALSE] \in RecordType
    BY <1>6, SecondsRound DEF RecordType, RowType
  <2>2. row \in RowType
    BY DEF RecordIsOK
  <2> QED
    BY <1>3, <1>4, <2>1, <2>2
<1>8. told' \in ConditionOrNone /\ missed' \in BOOLEAN
  BY <1>4, <1>5, <1>6 DEF RecordIsOK
<1>9. ASSUME ~missed'
      PROVE  ~missed /\ told' = d /\ row'.condition = d /\ record'.condition = d /\ ~record'.new
  <2>1. ~missed /\ told = row.condition
    BY <1>4, <1>9 DEF RecordIsOK, Agree
  <2>2. told' = d
    BY <1>1, <1>5, <1>6, <2>1
  <2>3. row'.condition = d /\ record'.condition = d /\ ~record'.new
    BY <1>1, <1>2, <1>3, <1>4, <1>9, <2>1
  <2> QED
    BY <2>1, <2>2, <2>3
<1> QED
  BY <1>7, <1>8, <1>9

LEMMA ObserveRecordIsOK ==
    ASSUME StateIsOK, RecordIsOK, NEW t \in 1 .. now, NEW a \in Accounts, NEW c \in Conditions,
           Observe(a, c, t)
    PROVE  RecordIsOK'
<1>1. now \in 0 .. MaxTime /\ t \in Nat
  BY ConstantsAssumption DEF StateIsOK
<1>2. touched' \in [state : 0 .. MaxTime, record : 0 .. MaxTime]
  BY <1>1 DEF Observe
<1>3. PICK s, o :
        /\ s = state \/ (s.hour > state.hour /\ ~s.published)
        /\ state' = o.state
        /\ o.publish = None =>
              /\ o.state.published = s.published
              /\ o.state.condition = s.condition
        /\ o.publish # None =>
              /\ o.publish \in Conditions
              /\ o.state.published /\ o.state.condition = o.publish
        /\ \/ o.publish = None /\ record' = Loaded /\ UNCHANGED <<row, told, missed>>
           \/ /\ o.publish # None
              /\ \E differs \in BOOLEAN : Save(Updated(Loaded, o.publish, t, differs))
              /\ Tell(Loaded, o.publish)
  BY ObserveIs, Zenon
<1>4. CASE o.publish = None
  <2>1. record' = Loaded /\ row' = row /\ told' = told /\ missed' = missed
    BY <1>3, <1>4
  <2>2. /\ record' \in RecordType
        /\ ~missed => record'.condition = IF record'.new THEN None ELSE row.condition
    BY <2>1, LoadedIsOK
  <2>3. state'.published => state.published /\ state'.condition = state.condition
    BY <1>3, <1>4
  <2>4. ~missed' => Agree'
    BY <2>1, <2>2, <2>3 DEF RecordIsOK, Agree
  <2> QED
    BY <1>2, <2>1, <2>2, <2>4 DEF RecordIsOK
<1>5. CASE o.publish # None
  <2>1. PICK d \in Conditions : d = o.publish
    BY <1>3, <1>5
  <2>2. PICK differs \in BOOLEAN : Save(Updated(Loaded, d, t, differs)) /\ Tell(Loaded, d)
    BY <1>3, <1>5, <2>1, Zenon
  <2>3. /\ record' \in RecordType /\ row' \in RowType
        /\ told' \in ConditionOrNone /\ missed' \in BOOLEAN
        /\ ~missed' => ~missed /\ told' = d /\ row'.condition = d /\ record'.condition = d
                         /\ ~record'.new
    BY <1>1, <2>2, PublicationIsOK
  <2>4. ~missed' => Agree'
    BY <1>3, <1>5, <2>1, <2>3 DEF Agree
  <2> QED
    BY <1>2, <2>3, <2>4 DEF RecordIsOK
<1> QED
  BY <1>4, <1>5

LEMMA NextRecordIsOK ==
    StateIsOK /\ RecordIsOK /\ [Next]_vars => RecordIsOK'
<1> SUFFICES ASSUME StateIsOK, RecordIsOK, [Next]_vars PROVE RecordIsOK'
  OBVIOUS
<1>0. now \in 0 .. MaxTime
  BY ConstantsAssumption DEF StateIsOK
<1>1. ASSUME NEW t, Ignore(t) PROVE RecordIsOK'
  <2>1. /\ record' = Loaded /\ touched' = [touched EXCEPT !.record = now]
        /\ row' = row /\ told' = told /\ missed' = missed /\ state' = state
    BY <1>1 DEF Ignore
  <2>2. /\ record' \in RecordType
        /\ ~missed => record'.condition = IF record'.new THEN None ELSE row.condition
    BY <2>1, LoadedIsOK
  <2>3. touched' \in [state : 0 .. MaxTime, record : 0 .. MaxTime]
    BY <1>0, <2>1 DEF RecordIsOK
  <2> QED
    BY <2>1, <2>2, <2>3 DEF RecordIsOK, Agree
<1>2. ASSUME LoadFails PROVE RecordIsOK'
  <2>1. touched' \in [state : 0 .. MaxTime, record : 0 .. MaxTime]
    BY <1>0, <1>2 DEF LoadFails, RecordIsOK
  <2> QED
    BY <1>2, <2>1 DEF LoadFails, RecordIsOK, Agree
<1>3. NoRecord \in RecordType /\ NoRecord.new /\ NoRecord.condition = None
  BY ConstantsAssumption DEF NoRecord, RecordType, ConditionOrNone
<1>4. ASSUME ExpireRecord PROVE RecordIsOK'
  BY <1>3, <1>4 DEF ExpireRecord, RecordIsOK, Agree
<1>5. ASSUME ExpireState PROVE RecordIsOK'
  BY <1>5 DEF ExpireState, RecordIsOK, Agree, NoState
<1>6. ASSUME Restart PROVE RecordIsOK'
  BY <1>3, <1>6 DEF Restart, RecordIsOK, Agree, NoState
<1>7. ASSUME Tick \/ UNCHANGED vars PROVE RecordIsOK'
  BY <1>7 DEF Tick, vars, RecordIsOK, Agree
<1> QED
  BY <1>1, <1>2, <1>4, <1>5, <1>6, <1>7, ObserveRecordIsOK DEF Next, Report

LEMMA InitRecordIsOK == Init => RecordIsOK
<1> SUFFICES ASSUME Init PROVE RecordIsOK
  OBVIOUS
<1>1. 0 \in 0 .. MaxTime /\ None \in ConditionOrNone
  BY ConstantsAssumption DEF ConditionOrNone
<1>2. record \in RecordType /\ row \in RowType
      /\ touched \in [state : 0 .. MaxTime, record : 0 .. MaxTime]
  BY <1>1 DEF Init, NoRecord, NoRow, RecordType, RowType
<1>3. Agree
  BY DEF Init, Agree, NoRecord, NoRow, NoState
<1> QED
  BY <1>1, <1>2, <1>3 DEF Init, RecordIsOK

\* While no write fails, the record shows what the consensus has published, and
\* the last change that UpdateClientWeatherBatch returned to its caller is to what
\* the record shows, through late reports, expiries of either cache and restarts.
THEOREM RecordShowsConsensus == Spec => []RecordIsPublished
<1>1. RecordIsOK => RecordIsPublished
  BY DEF RecordIsOK, Agree, RecordIsPublished
<1> QED
  BY <1>1, InitStateIsOK, NextStateIsOK, InitRecordIsOK, NextRecordIsOK, PTL DEF Spec

\* Every variable keeps its type, for any accounts, conditions and hours.
THEOREM SpecTypeOK == Spec => []TypeOK
<1>1. StateIsOK /\ RecordIsOK => TypeOK
  <2> SUFFICES ASSUME StateIsOK, RecordIsOK PROVE TypeOK
    OBVIOUS
  <2>1. IsABag(state.counts) /\ BagToSet(state.counts) \subseteq Conditions
    BY DEF StateIsOK, StateOK, VotesCounted, CountsOK, IsABag, BagToSet
  <2> QED
    BY <2>1 DEF StateIsOK, StateOK, VotesCounted, RecordIsOK, RecordType, RowType, TypeOK
<1> QED
  BY <1>1, InitStateIsOK, NextStateIsOK, InitRecordIsOK, NextRecordIsOK, PTL DEF Spec
=============================================================================
