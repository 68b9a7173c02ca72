---------------------------- MODULE FortTracker ----------------------------
(***************************************************************************)
(* The fort tracker (decoder/fort_tracker.go): which forts (pokestops and  *)
(* gyms) each S2 cell holds, when each was last seen in a GMO, and which   *)
(* have been missing so long that they are gone.                           *)
(*                                                                         *)
(* Every method runs under ft.mu, so each is one action.  The callers are  *)
(* left arbitrary here; FortLifecycle has the goroutines that call them.   *)
(* A cell that is not in ft.cells behaves as one that was never seen and   *)
(* holds nothing.  Times are in units of the caller's choice, starting at  *)
(* 1: 0 means "never".                                                     *)
(***************************************************************************)
EXTENDS Integers

(* Operators named Slip_... are plausible slips in the definition that      *)
(* follows them; nothing uses them, and each breaks a property below.      *)

CONSTANTS
    Forts,          \* fort ids
    Cells,          \* S2 cells
    StaleThreshold, \* cleanup.forts_stale_threshold
    MinMissCount,   \* cleanup.forts_min_miss_count
    Tolerance,      \* how far a GMO may be ahead of the clock
    MaxTime         \* bound: the clock

ASSUME ConstantsAssumption ==
    /\ StaleThreshold \in Nat \ {0}
    /\ MinMissCount \in Nat \ {0}
    /\ Tolerance \in Nat
    /\ MaxTime \in Nat \ {0}

Kinds == {"stop", "gym"}

VARIABLES
    now,       \* the clock
    serving,   \* FALSE while main loads the forts that the database knows
    cells,     \* ft.cells
    forts,     \* ft.forts
    result,    \* what the last ProcessCellUpdate returned
    condemned, \* forts returned as stale, neither seen nor removed since (history)
    sighted,   \* sighted[f]: time at which f was last taken to be there (history)
    absent     \* absent[f]: scans of f's cell in a row that did not show f (history)

trackerVars == <<cells, forts, condemned, sighted, absent>>
vars == <<now, serving, result, trackerVars>>

Times   == 1 .. MaxTime + Tolerance
Members == [Kinds -> SUBSET Forts]
Info    == [cell : Cells, seen : Times, miss : Nat, kind : Kinds]
NoInfo  == [cell |-> "none", seen |-> 0, miss |-> 0, kind |-> "none"]

Nobody   == [k \in Kinds |-> {}]
NoResult == [stale |-> Nobody, converted |-> Nobody]

Tracked(f) == forts[f] # NoInfo
Later(a, b) == IF a < b THEN b ELSE a
-----------------------------------------------------------------------------
(* Loading, restoring and removing one fort.                               *)

Fresh(c, k, t) == [cell |-> c, seen |-> t, miss |-> 0, kind |-> k]

\* For the history: f is known to be there at time t.
Confirm(f, t) ==
    /\ sighted' = [sighted EXCEPT ![f] = t]
    /\ absent' = [absent EXCEPT ![f] = 0]
    /\ condemned' = condemned \ {f}

\* RegisterFort.
Register(f, k, c, t) ==
    /\ cells' = [cells EXCEPT ![c] = [seen  |-> Later(cells[c].seen, t),
                                      forts |-> [cells[c].forts EXCEPT ![k] = @ \cup {f}]]]
    /\ forts' = IF Tracked(f) /\ t <= forts[f].seen
                THEN forts
                ELSE [forts EXCEPT ![f] = Fresh(c, k, t)]
    /\ Confirm(f, t)

\* The cells without f where the tracker believes it to be.
Without(f) ==
    IF Tracked(f)
    THEN [cells EXCEPT ![forts[f].cell].forts[forts[f].kind] = @ \ {f}]
    ELSE cells

\* RestoreFort, for a fort that a GMO of time t shows again.
Restore(f, k, c, t) ==
    /\ cells' = [Without(f) EXCEPT ![c].forts[k] = @ \cup {f}]
    /\ forts' = [forts EXCEPT ![f] = Fresh(c, k, t)]
    /\ Confirm(f, t)

\* RemoveFort.
Remove(f) ==
    /\ cells' = Without(f)
    /\ forts' = [forts EXCEPT ![f] = NoInfo]
    /\ condemned' = condemned \ {f}
    /\ UNCHANGED <<sighted, absent>>
-----------------------------------------------------------------------------
(* processCellUpdateLocked: the GMO of time t shows the forts show[k] of    *)
(* each kind k in cell c.                                                   *)

\* A fort that is shown as both is a gym.
Current(show) == [k \in Kinds |-> IF k = "gym" THEN show[k] ELSE show[k] \ show["gym"]]
Shown(show) == show["stop"] \cup show["gym"]
KindShown(f, show) == IF f \in show["gym"] THEN "gym" ELSE "stop"

\* Forgets to reset the count when it sees the fort.
Slip_KeepMisses(c, show, t) ==
    [f \in Forts |-> IF f \in Shown(show)
                     THEN [Fresh(c, KindShown(f, show), t) EXCEPT !.miss = forts[f].miss]
                     ELSE forts[f]]

\* applyPresentForts: what is known of the forts...
SeenForts(c, show, t) ==
    [f \in Forts |-> IF f \in Shown(show) THEN Fresh(c, KindShown(f, show), t) ELSE forts[f]]

\* ... which of them changed their kind to k...
Converted(show, k) == {f \in Current(show)[k] : Tracked(f) /\ forts[f].kind # k}

\* A fort that moves stays in the cell it leaves.
Slip_NoMove(c, show, d, k) == cells[d].forts[k]

\* ... the members of another cell d, from which forts have moved to c...
OthersLeft(c, show, d, k) ==
    {f \in cells[d].forts[k] :
        ~(f \in Shown(show) /\ forts[f].cell = d /\ forts[f].kind = k)}

\* ... and the members of c that the GMO does not show, without those that it
\* shows as the other kind.
Absent(show, c, k) ==
    {f \in cells[c].forts[k] \ Current(show)[k] :
        ~(f \in Shown(show) /\ forts[f].kind = k)}

FirstScan(c) == cells[c].seen = 0

\* The members of c that the GMO does not show; its first scan takes them over.
NotShown(show, c) == Absent(show, c, "stop") \cup Absent(show, c, "gym")

\* How often f counts as missing when the members of kind k are gone through
\* (the stops first, then the gyms).
Misses(c, show, t, f, k) ==
    SeenForts(c, show, t)[f].miss
        + (IF f \in Absent(show, c, "stop") THEN 1 ELSE 0)
        + (IF k = "gym" /\ f \in Absent(show, c, "gym") THEN 1 ELSE 0)

\* Waits for one miss more than it should.
Slip_LateStale(c, show, t, k) ==
    {f \in Absent(show, c, k) :
        /\ Tracked(f) \/ f \in Shown(show)
        /\ t - SeenForts(c, show, t)[f].seen >= StaleThreshold
        /\ Misses(c, show, t, f, k) > MinMissCount}

\* The forts given up.
Stale(c, show, t, k) ==
    {f \in Absent(show, c, k) :
        /\ Tracked(f) \/ f \in Shown(show)
        /\ t - SeenForts(c, show, t)[f].seen >= StaleThreshold
        /\ Misses(c, show, t, f, k) >= MinMissCount}

\* Forgets to put the pending forts back.
Slip_DropPending(c, show, t, k) == {}

\* The forts that stay in the set, to be looked for again.
Pending(c, show, t, k) ==
    {f \in Absent(show, c, k) : Tracked(f) \/ f \in Shown(show)} \ Stale(c, show, t, k)

CellsAfter(c, show, t) ==
    [d \in Cells |->
        IF d # c
        THEN [cells[d] EXCEPT !.forts = [k \in Kinds |-> OthersLeft(c, show, d, k)]]
        ELSE [seen  |-> t,
              forts |-> [k \in Kinds |->
                  Current(show)[k] \cup IF FirstScan(c) THEN Absent(show, c, k)
                                        ELSE Pending(c, show, t, k)]]]

FortsAfter(c, show, t) ==
    [f \in Forts |->
        LET info == SeenForts(c, show, t)[f] IN
        IF info = NoInfo \/ f \notin NotShown(show, c)
        THEN info
        ELSE IF FirstScan(c) THEN [info EXCEPT !.seen = t, !.miss = 0]
             ELSE [info EXCEPT !.miss = Misses(c, show, t, f, "gym")]]

Verdict(c, show, t) ==
    [stale     |-> IF FirstScan(c) THEN Nobody ELSE [k \in Kinds |-> Stale(c, show, t, k)],
     converted |-> [k \in Kinds |-> Converted(show, k)]]

StaleForts(r) == r.stale["stop"] \cup r.stale["gym"]

Slip_AnyTime(t) == TRUE

\* GMOs from the future are refused.
Plausible(t) == t <= now + Tolerance

Outdated(c, t) == t <= cells[c].seen

ProcessCellUpdate(c, show, t) ==
    /\ Plausible(t)
    /\ ~Outdated(c, t)
    /\ cells' = CellsAfter(c, show, t)
    /\ forts' = FortsAfter(c, show, t)
    /\ result' = Verdict(c, show, t)
    /\ condemned' = (condemned \ Shown(show)) \cup StaleForts(Verdict(c, show, t))
    /\ LET confirmed == Shown(show) \cup IF FirstScan(c) THEN NotShown(show, c) ELSE {} IN
          /\ sighted' = [f \in Forts |-> IF f \in confirmed THEN t ELSE sighted[f]]
          /\ absent' = [f \in Forts |-> IF f \in confirmed THEN 0
                                        ELSE IF forts[f].cell = c THEN absent[f] + 1
                                        ELSE absent[f]]

\* A GMO that comes too late, or from the future, changes nothing.
RefuseCellUpdate(c, t) ==
    /\ ~Plausible(t) \/ Outdated(c, t)
    /\ result' = NoResult
    /\ UNCHANGED trackerVars
-----------------------------------------------------------------------------
Init ==
    /\ now = 1
    /\ serving = FALSE
    /\ cells = [c \in Cells |-> [seen |-> 0, forts |-> Nobody]]
    /\ forts = [f \in Forts |-> NoInfo]
    /\ result = NoResult
    /\ condemned = {}
    /\ sighted = [f \in Forts |-> 0]
    /\ absent = [f \in Forts |-> 0]

\* The database has one row that is not deleted for each fort.
Load(f, k, c) ==
    /\ ~serving
    /\ ~Tracked(f)
    /\ Register(f, k, c, now)
    /\ UNCHANGED <<now, serving, result>>

Start ==
    /\ ~serving
    /\ serving' = TRUE
    /\ UNCHANGED <<now, result, trackerVars>>

Gmo(c, show, t) ==
    /\ serving
    /\ ProcessCellUpdate(c, show, t) \/ RefuseCellUpdate(c, t)
    /\ UNCHANGED <<now, serving>>

Undelete(f, k, c, t) ==
    /\ serving
    /\ Restore(f, k, c, t)
    /\ UNCHANGED <<now, serving, result>>

Forget(f) ==
    /\ serving
    /\ Remove(f)
    /\ UNCHANGED <<now, serving, result>>

Tick ==
    /\ now < MaxTime
    /\ now' = now + 1
    /\ UNCHANGED <<serving, result, trackerVars>>

Next ==
    \/ \E f \in Forts, k \in Kinds, c \in Cells : Load(f, k, c)
    \/ Start
    \/ \E c \in Cells, show \in Members, t \in Times : Gmo(c, show, t)
    \/ \E f \in Forts, k \in Kinds, c \in Cells, t \in Times : Undelete(f, k, c, t)
    \/ \E f \in Forts : Forget(f)
    \/ Tick

Spec == Init /\ [][Next]_vars
-----------------------------------------------------------------------------
(* Correctness.                                                            *)

\* Every variable holds a value of its type.
TypeOK ==
    /\ now \in 1 .. MaxTime
    /\ serving \in BOOLEAN
    /\ cells \in [Cells -> [seen : {0} \cup Times, forts : Members]]
    /\ forts \in [Forts -> Info \cup {NoInfo}]
    /\ result \in [stale : Members, converted : Members]
    /\ condemned \subseteq Forts
    /\ sighted \in [Forts -> {0} \cup Times]
    /\ absent \in [Forts -> Nat]

\* A fort is a member of no cell and kind but those that the tracker has for
\* it: however often it moves, changes its kind, is removed or comes back, no
\* orphan stays behind in another set, where it would be counted as missing.
NoOrphans ==
    \A c \in Cells, k \in Kinds : \A f \in cells[c].forts[k] :
        Tracked(f) /\ forts[f].cell = c /\ forts[f].kind = k

\* Every fort that the tracker knows is in the set of its cell and kind, where
\* each scan looks for it, unless it has been returned as stale: no fort drops
\* out of the staleness checks, with a partial first scan or any other way.
NothingForgotten ==
    \A f \in Forts : Tracked(f) =>
        f \in cells[forts[f].cell].forts[forts[f].kind] \cup condemned

\* A fort is returned as stale only when the GMO that showed it last is older
\* by the threshold, and the required number of scans of its cell missed it.
NoHaste ==
    [][\A f \in condemned' \ condemned :
          /\ cells'[forts[f].cell].seen - sighted[f] >= StaleThreshold
          /\ absent'[f] >= MinMissCount]_vars

\* And no later than that: a fort that stays in its set was seen within the
\* threshold before the last scan, or was not yet missed often enough.  "At
\* least staleThreshold" (fort_tracker.go:317) is what the code does; that line
\* 213 says "> staleThreshold" is shown by the run tracker_strict.
NoOverstay ==
    \A c \in Cells, k \in Kinds : \A f \in cells[c].forts[k] :
        cells[c].seen - forts[f].seen >= StaleThreshold => forts[f].miss < MinMissCount

\* No GMO, however wrong its time, can make a cell refuse all the GMOs that
\* come after it with a right one.
NeverWedged == \A c \in Cells : cells[c].seen <= now + Tolerance
=============================================================================
