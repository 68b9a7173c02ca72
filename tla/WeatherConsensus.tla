-------------------------- MODULE WeatherConsensus --------------------------
(***************************************************************************)
(* The weather of one cell (decoder/weather_consensus.go, weather.go and   *)
(* UpdateClientWeatherBatch of gmo_decode.go).                             *)
(*                                                                         *)
(* Accounts report the condition they see; reports come late and out of    *)
(* order.  Within an hour every account has one vote, its last report; the *)
(* first report is published at once, a change only when its condition is  *)
(* strictly ahead.  What is published goes into the cell's weather record  *)
(* and from there into the database, at once, where its time is kept in    *)
(* seconds.  When the condition of the record changes, the cell and the    *)
(* condition are returned to the caller: the change is reported.  What the *)
(* caller does with it (a goroutine for each change, if the scan asks for  *)
(* it) is not part of this module.                                         *)
(*                                                                         *)
(* One report is handled under the record's lock, so it is one step.       *)
(***************************************************************************)
EXTENDS Integers, FiniteSets, SequencesExt

\* How often each condition is voted for is kept as a bag.
Counts == INSTANCE BagsExt

(* Operators named Slip_... are plausible slips in the definition that      *)
(* follows them; nothing uses them, and each breaks a property below.      *)

CONSTANTS
    Accounts,    \* scanning accounts
    Conditions,  \* gameplay conditions
    Hour,        \* ticks of the clock in an hour
    Second,      \* ticks of the clock in a second, the unit of the row's time
    Lag,         \* bound: how late a report comes, in ticks
    MayFail,     \* whether queries may fail
    MaxTime      \* bound: the clock

None == "none"

ASSUME ConstantsAssumption ==
    /\ Hour \in Nat \ {0} /\ Second \in Nat \ {0}
    /\ Lag \in Nat /\ MaxTime \in Nat \ {0}
    /\ MayFail \in BOOLEAN
    /\ None \notin Conditions

VARIABLES
    now,      \* the clock
    state,    \* the entry of weatherConsensusCache
    record,   \* the entry of weatherCache
    row,      \* the row in the database
    touched,  \* when state and record were last used (history)
    told,     \* condition that was last reported as a change (history)
    missed    \* whether a write has failed (history)

vars == <<now, state, record, row, touched, told, missed>>

NoState == [hour |-> -1, published |-> FALSE, condition |-> None,
            votes |-> <<>>, counts |-> EmptyBag, observed |-> {}]

\* Only what the properties tell apart: the condition and the time of an
\* observation.  A field that differs makes the record dirty.
NoRecord == [condition |-> None, updated |-> 0, new |-> TRUE, dirty |-> FALSE]
NoRow == [condition |-> None, updated |-> 0]

Init ==
    /\ now = 1
    /\ state = NoState /\ record = NoRecord /\ row = NoRow
    /\ touched = [state |-> 0, record |-> 0]
    /\ told = None
    /\ missed = FALSE

\* Takes the time for the hour.
Slip_HourKey(t) == t

HourKey(t) == t \div Hour
-----------------------------------------------------------------------------
(* The vote.                                                               *)

\* bestCounts: one pass over the counts, in the order that the map gives them.
\* Skips a count that equals the best.
Slip_Counted(counts, acc, c) ==
    IF counts[c] > acc.best THEN [condition |-> c, best |-> counts[c], second |-> acc.best]
    ELSE [acc EXCEPT !.second = IF counts[c] > @ /\ counts[c] < acc.best THEN counts[c] ELSE @]

Counted(counts, acc, c) ==
    IF counts[c] > acc.best THEN [condition |-> c, best |-> counts[c], second |-> acc.best]
    ELSE [acc EXCEPT !.second = IF counts[c] > @ THEN counts[c] ELSE @]

BestCounts(counts, order) ==
    FoldLeft(LAMBDA acc, c : Counted(counts, acc, c),
             [condition |-> None, best |-> 0, second |-> 0], order)

Reset(hour) == [NoState EXCEPT !.hour = hour]

\* getWeatherConsensusState: the hour's state.
StateOf(hour) == IF state.hour < hour THEN Reset(hour) ELSE state

WithVote(votes, a, c) ==
    [b \in DOMAIN votes \cup {a} |-> IF b = a THEN c ELSE votes[b]]

\* Counts the new vote and leaves the old one.
Slip_Vote(s, a, c) ==
    [s EXCEPT !.votes = WithVote(@, a, c), !.counts = Counts!BagAdd(@, c), !.observed = @ \cup {c}]

\* The account's vote moves to condition c.
Vote(s, a, c) ==
    LET old == IF a \in DOMAIN s.votes THEN Counts!BagRemove(s.counts, s.votes[a]) ELSE s.counts
    IN  [s EXCEPT !.votes = WithVote(@, a, c), !.counts = Counts!BagAdd(old, c), !.observed = @ \cup {c}]

\* Wants the leader two votes ahead.
Slip_Publishes(s, b) == ~s.published \/ (b.condition # s.condition /\ b.best > b.second + 1)

Publishes(s, b) == ~s.published \/ (b.condition # s.condition /\ b.best > b.second)

\* applyObservation: the state after it, and the condition to publish, if any.
Applied(s, hour, a, c, order) ==
    IF hour < s.hour THEN [state |-> s, publish |-> None]
    ELSE LET voted == Vote(s, a, c)
             b == BestCounts(voted.counts, order)
         IN  IF Publishes(voted, b)
             THEN [state |-> [voted EXCEPT !.published = TRUE, !.condition = b.condition],
                   publish |-> b.condition]
             ELSE [state |-> voted, publish |-> None]

\* The orders in which the map may give the counts after the vote.
Orders(s, hour, a, c) ==
    IF hour < s.hour THEN {<<>>} ELSE SetToSeqs(BagToSet(Vote(s, a, c).counts))
-----------------------------------------------------------------------------
(* The record.                                                             *)

\* The column is a whole number of seconds: what :updated/1000 gives is rounded.
InSeconds(t) == (t + Second \div 2) \div Second

\* getOrCreateWeatherRecord: a new record is loaded, with the seconds of its row.
Loaded ==
    IF record.new /\ row # NoRow
    THEN [condition |-> row.condition, updated |-> row.updated * Second,
          new |-> FALSE, dirty |-> FALSE]
    ELSE record

\* updateWeatherFromClientWeatherProto, of an observation that differs from the
\* last one or not.
Updated(r, c, t, differs) ==
    [r EXCEPT !.condition = c, !.updated = t, !.dirty = @ \/ c # r.condition \/ differs]

\* saveWeatherRecord: written at once; a record that could not be written stays
\* new or dirty.
Save(r) ==
    \/ /\ r.dirty \/ r.new
       /\ row' = [condition |-> r.condition, updated |-> InSeconds(r.updated)]
       /\ record' = [r EXCEPT !.new = FALSE, !.dirty = FALSE]
       /\ UNCHANGED missed
    \/ /\ MayFail /\ (r.dirty \/ r.new)
       /\ record' = r /\ missed' = TRUE
       /\ UNCHANGED row
    \/ /\ ~r.dirty /\ ~r.new
       /\ record' = r
       /\ UNCHANGED <<row, missed>>

\* Reports every publication.
Slip_Tell(r, c) == told' = IF r.new THEN c ELSE told

\* The change is put on the list that the caller gets when the condition of the
\* record is another than it was.
Tell(r, c) == told' = IF c # r.condition THEN c ELSE told

\* Takes observations of any age.
Slip_Timely(r, t) == TRUE

Timely(r, t) == r.new \/ t >= r.updated

\* UpdateClientWeatherBatch: account a reports condition c, seen at time t.
Observe(a, c, t) ==
    LET r == Loaded
        s == StateOf(HourKey(t))
    IN  /\ Timely(r, t)
        /\ \E order \in Orders(s, HourKey(t), a, c), differs \in BOOLEAN :
              LET o == Applied(s, HourKey(t), a, c, order)
              IN  /\ state' = o.state
                  /\ \/ /\ o.publish = None
                        /\ record' = r
                        /\ UNCHANGED <<row, told, missed>>
                     \/ /\ o.publish # None
                        /\ Save(Updated(r, o.publish, t, differs))
                        /\ Tell(r, o.publish)
        /\ touched' = [state |-> now, record |-> now]
        /\ UNCHANGED now

\* An observation older than the record.
Ignore(t) ==
    /\ ~Timely(Loaded, t)
    /\ record' = Loaded
    /\ touched' = [touched EXCEPT !.record = now]
    /\ UNCHANGED <<now, state, row, told, missed>>

\* The record is not in the cache and cannot be loaded; a stub stays there.
LoadFails ==
    /\ MayFail /\ record.new
    /\ touched' = [touched EXCEPT !.record = now]
    /\ UNCHANGED <<now, state, record, row, told, missed>>
-----------------------------------------------------------------------------
(* The caches' clocks: an hour for the record, two for the state.          *)

ExpireRecord ==
    /\ record # NoRecord /\ now - touched.record >= Hour
    /\ record' = NoRecord
    /\ UNCHANGED <<now, state, row, touched, told, missed>>

ExpireState ==
    /\ state # NoState /\ now - touched.state >= 2 * Hour
    /\ state' = NoState
    /\ UNCHANGED <<now, record, row, touched, told, missed>>

\* What is kept in memory is lost.
Restart ==
    /\ state' = NoState /\ record' = NoRecord
    /\ UNCHANGED <<now, row, touched, told, missed>>

Tick ==
    /\ now < MaxTime
    /\ now' = now + 1
    /\ UNCHANGED <<state, record, row, touched, told, missed>>

Report(t) ==
    \/ \E a \in Accounts, c \in Conditions : Observe(a, c, t)
    \/ Ignore(t)

Next ==
    \/ \E t \in 1 .. now : now - t <= Lag /\ Report(t)
    \/ LoadFails
    \/ ExpireRecord
    \/ ExpireState
    \/ Restart
    \/ Tick

Spec == Init /\ [][Next]_vars
-----------------------------------------------------------------------------
(* Correctness.                                                            *)

ConditionOrNone == Conditions \cup {None}

\* Every variable holds a value of its type.
TypeOK ==
    /\ now \in 1 .. MaxTime
    /\ state.hour \in -1 .. MaxTime \div Hour /\ state.published \in BOOLEAN
    /\ state.condition \in ConditionOrNone /\ state.observed \subseteq Conditions
    /\ DOMAIN state.votes \subseteq Accounts
    /\ \A a \in DOMAIN state.votes : state.votes[a] \in Conditions
    /\ IsABag(state.counts) /\ BagToSet(state.counts) \subseteq Conditions
    /\ record \in [condition : ConditionOrNone, updated : Nat, new : BOOLEAN, dirty : BOOLEAN]
    /\ row \in [condition : ConditionOrNone, updated : Nat]
    /\ touched \in [state : 0 .. MaxTime, record : 0 .. MaxTime]
    /\ told \in ConditionOrNone
    /\ missed \in BOOLEAN

CountOf(c, counts) == IF BagIn(c, counts) THEN counts[c] ELSE 0
Voters(c) == {a \in DOMAIN state.votes : state.votes[a] = c}

\* The two maps agree: a condition is counted once for every account whose vote
\* it has, however accounts change their minds, and what is counted has an
\* observation to publish.
CountsAreVotes ==
    /\ \A c \in Conditions : CountOf(c, state.counts) = Cardinality(Voters(c))
    /\ BagToSet(state.counts) \subseteq state.observed

\* Between two reports the published condition is the one that is strictly
\* ahead, if there is one: no change of mind leaves a majority unpublished.
MajorityIsPublished ==
    \A c \in Conditions :
        Voters(c) # {}
            /\ (\A d \in Conditions \ {c} : Cardinality(Voters(d)) < Cardinality(Voters(c)))
            => state.published /\ state.condition = c

\* The record, if cached, shows what the consensus has published, and the last
\* change that the caller was told of is to what the record shows: as long as no
\* write has failed, no change of the record goes unreported and none is
\* reported that the record has not made, though both caches forget, records
\* come back from their rows and reports are late.
RecordIsPublished ==
    ~record.new /\ ~missed =>
        /\ state.published => record.condition = state.condition
        /\ told = record.condition

\* A tie changes nothing: the condition that is published is replaced, within
\* the hour, only by one that has more votes than it and any other.
NoChangeOnTie ==
    [][(state.published /\ state'.published /\ state'.hour = state.hour
            /\ state'.condition # state.condition)
        => \A d \in Conditions \ {state'.condition} :
              CountOf(d, state'.counts) < CountOf(state'.condition, state'.counts)]_vars

\* The time of the row never goes back, though reports come late, the record is
\* forgotten and comes back with a time that was rounded, and writes fail.  (It
\* is not the time of the last publication: one that changes no other field is
\* not written, and a write may fail.)
NeverOlder == [][row'.updated >= row.updated]_vars
=============================================================================
