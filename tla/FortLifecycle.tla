--------------------------- MODULE FortLifecycle ---------------------------
(***************************************************************************)
(* How forts come and go: the fort tracker together with the goroutines    *)
(* that decode GMOs (decode.go, gmo_decode.go) and the pokestop and gym    *)
(* records they change.                                                    *)
(*                                                                         *)
(* A worker decodes one GMO.  It first saves every fort the GMO shows      *)
(* (UpdateFortBatch), one at a time, each with the record locked; then it  *)
(* gives each cell of the GMO to the tracker (CheckRemovedForts) and marks *)
(* the forts that the tracker returns as deleted, again one at a time.  No *)
(* lock is held between these steps, and workers interleave freely.        *)
(*                                                                         *)
(* The world: every fort is of one kind in one cell, and now and then      *)
(* changes one or the other.  A GMO shows some of the forts that are in    *)
(* its cells at the moment it is made; it may be decoded much later.       *)
(***************************************************************************)
EXTENDS FortTracker

(* Operators named Slip_... are plausible slips in the definition that      *)
(* follows them; nothing uses them, and each breaks a property below.      *)

CONSTANTS
    Workers,        \* bound: goroutines decoding GMOs
    MayFail,        \* whether loading records may fail
    MaxConversions, \* bound: changes of kind
    MaxMoves,       \* bound: changes of cell
    MaxRestarts     \* bound: restarts of the program

\* "none" stands for the cell of a record that does not exist.
ASSUME CellsAssumption == "none" \notin Cells

VARIABLES
    world,     \* world[f]: kind and cell of f
    row,       \* row[k][f]: the record of f as a k
    gmo,       \* gmo[w]: the GMO that w decodes
    toSave,    \* toSave[w]: its forts not yet saved
    toScan,    \* toScan[w]: its cells not yet given to the tracker
    toClear,   \* toClear[w]: forts of the last cell that have to be marked deleted
    removing,  \* removing[w]: forts marked as deleted, to be removed from the tracker
    abandoned, \* forts whose record could not be loaded to be marked (history)
    disturbed, \* whether GMOs were decoded at once, or a load failed (history)
    conversions, moves, restarts

workVars == <<gmo, toSave, toScan, toClear, removing>>
counters == <<conversions, moves, restarts>>
allVars == <<vars, world, row, workVars, abandoned, disturbed, counters>>

NoRow == [cell |-> "none", deleted |-> FALSE]
NoGmo == [show |-> [c \in Cells |-> Nobody], time |-> 0]

Live(k, f) == row[k][f] # NoRow /\ ~row[k][f].deleted

Idle(w) == toSave[w] = {} /\ toScan[w] = {} /\ toClear[w] = {} /\ removing[w] = {}
AllIdle == \A w \in Workers : Idle(w)
-----------------------------------------------------------------------------
(* Decoding a GMO.                                                         *)

\* The forts of S, as a GMO shows those that are in cell c now.
Showing(S, c) == [k \in Kinds |-> {f \in S : world[f] = [kind |-> k, cell |-> c]}]

\* decodeGMO collects the forts of its cells.  The game servers stamp no two
\* GMOs with the same time.
Receive(w, C, S) ==
    /\ serving
    /\ Idle(w)
    /\ Tick
    /\ gmo' = [gmo EXCEPT ![w] =
          [show |-> [c \in Cells |-> IF c \in C THEN Showing(S, c) ELSE Nobody], time |-> now']]
    /\ toSave' = [toSave EXCEPT ![w] = {f \in S : world[f].cell \in C}]
    /\ toScan' = [toScan EXCEPT ![w] = C]
    /\ disturbed' = (disturbed \/ ~AllIdle)
    /\ UNCHANGED <<world, row, toClear, removing, abandoned, counters>>

\* One turn of UpdateFortBatch: the record is created or loaded, changed and
\* saved under its lock; a deleted one is restored, in the tracker as well.
SaveFort(w, f, k, c) ==
    /\ f \in toSave[w] /\ f \in gmo[w].show[c][k]
    /\ row' = [row EXCEPT ![k][f] = [cell |-> c, deleted |-> FALSE]]
    /\ IF row[k][f].deleted THEN Restore(f, k, c, gmo[w].time) ELSE UNCHANGED trackerVars
    /\ toSave' = [toSave EXCEPT ![w] = @ \ {f}]
    /\ UNCHANGED <<now, serving, result, world, gmo, toScan, toClear, removing, abandoned, disturbed, counters>>

\* The record cannot be loaded: the fort is skipped.
SaveFails(w, f) ==
    /\ MayFail
    /\ f \in toSave[w]
    /\ toSave' = [toSave EXCEPT ![w] = @ \ {f}]
    /\ disturbed' = TRUE
    /\ UNCHANGED <<vars, world, row, gmo, toScan, toClear, removing, abandoned, counters>>

Item(f, k, stale) == [fort |-> f, kind |-> k, stale |-> stale]
Other(k) == CHOOSE j \in Kinds : j # k

\* What the tracker's verdict asks for: stale forts are marked and removed from
\* the tracker, of a converted fort the record of the old kind is marked.
Orders(r) ==
    UNION {{Item(f, k, TRUE) : f \in r.stale[k]}
              \cup {Item(f, Other(k), FALSE) : f \in r.converted[k]} : k \in Kinds}

\* One turn of CheckRemovedForts gives a cell to the tracker.
CheckCell(w, c) ==
    /\ toSave[w] = {} /\ toClear[w] = {} /\ removing[w] = {}
    /\ c \in toScan[w]
    /\ LET show == gmo[w].show[c]  t == gmo[w].time IN
          \/ ProcessCellUpdate(c, show, t) /\ abandoned' = abandoned \ Shown(show)
          \/ RefuseCellUpdate(c, t) /\ UNCHANGED abandoned
    /\ toClear' = [toClear EXCEPT ![w] = Orders(result')]
    /\ toScan' = [toScan EXCEPT ![w] = @ \ {c}]
    /\ UNCHANGED <<now, serving, world, row, gmo, toSave, removing, disturbed, counters>>

\* Stale gyms come first, then stale stops, then stops that became gyms, then
\* gyms that became stops.
Rank(i) == IF i.stale THEN IF i.kind = "gym" THEN 1 ELSE 2
           ELSE IF i.kind = "stop" THEN 3 ELSE 4

Due(w, i) ==
    /\ removing[w] = {}
    /\ i \in toClear[w]
    /\ \A j \in toClear[w] : Rank(i) <= Rank(j)

Done(w, i) == toClear' = [toClear EXCEPT ![w] = @ \ {i}]

Slip_KeepTracked(w, i) == removing' = removing

\* A stale fort has to be removed from the tracker, after the unlock.
RemoveIfStale(w, i) ==
    removing' = IF i.stale THEN [removing EXCEPT ![w] = {i.fort}] ELSE removing

\* Leaves the record as it is.
Slip_NoMark(i) == row

\* The record of i, marked as deleted.
Marked(i) == IF row[i.kind][i.fort] = NoRow THEN row
             ELSE [row EXCEPT ![i.kind][i.fort].deleted = TRUE]

\* clearFortWithLock, up to the unlock of the record (if there is one).
Clear(w, i) ==
    /\ Due(w, i)
    /\ row' = Marked(i)
    /\ RemoveIfStale(w, i)
    /\ Done(w, i)
    /\ UNCHANGED <<vars, world, gmo, toSave, toScan, abandoned, disturbed, counters>>

\* clearFortWithLock cannot load the record.
ClearFails(w, i) ==
    /\ MayFail
    /\ Due(w, i)
    /\ Done(w, i)
    /\ abandoned' = IF i.stale THEN abandoned \cup {i.fort} ELSE abandoned
    /\ disturbed' = TRUE
    /\ UNCHANGED <<vars, world, row, gmo, toSave, toScan, removing, counters>>

\* The rest of clearFortWithLock.
RemoveCleared(w, f) ==
    /\ f \in removing[w]
    /\ Remove(f)
    /\ removing' = [removing EXCEPT ![w] = {}]
    /\ UNCHANGED <<now, serving, result, world, row, gmo, toSave, toScan, toClear, abandoned, disturbed, counters>>
-----------------------------------------------------------------------------
(* The world, and the program's start.                                     *)

Convert(f) ==
    /\ conversions < MaxConversions
    /\ world' = [world EXCEPT ![f].kind = Other(@)]
    /\ conversions' = conversions + 1
    /\ UNCHANGED <<vars, row, workVars, abandoned, disturbed, moves, restarts>>

Move(f, c) ==
    /\ moves < MaxMoves
    /\ c # world[f].cell
    /\ world' = [world EXCEPT ![f].cell = c]
    /\ moves' = moves + 1
    /\ UNCHANGED <<vars, row, workVars, abandoned, disturbed, conversions, restarts>>

PassTime == Tick /\ UNCHANGED <<world, row, workVars, abandoned, disturbed, counters>>

\* Loads the rows behind the back of the handlers.
Slip_LoadInBackground(f, k) ==
    /\ Live(k, f)
    /\ f \notin cells[row[k][f].cell].forts[k]
    /\ Register(f, k, row[k][f].cell, now)
    /\ UNCHANGED <<now, serving, result, world, row, workVars, abandoned, disturbed, counters>>

\* preloadPokestops, preloadGyms: one row that is not deleted.
LoadRow(f, k) ==
    /\ ~serving
    /\ Live(k, f)
    /\ f \notin cells[row[k][f].cell].forts[k]
    /\ Register(f, k, row[k][f].cell, now)
    /\ UNCHANGED <<now, serving, result, world, row, workVars, abandoned, disturbed, counters>>

\* An error of the database ends the load early.
StartServing ==
    /\ \/ /\ \A k \in Kinds, f \in Forts : Live(k, f) => f \in cells[row[k][f].cell].forts[k]
          /\ UNCHANGED disturbed
       \/ MayFail /\ disturbed' = TRUE
    /\ Start
    /\ UNCHANGED <<world, row, workVars, abandoned, counters>>

\* The program ends, with nothing under way and every record in the database,
\* and is started again with an empty tracker.
Restart ==
    /\ serving /\ AllIdle
    /\ restarts < MaxRestarts
    /\ restarts' = restarts + 1
    /\ serving' = FALSE
    /\ cells' = [c \in Cells |-> [seen |-> 0, forts |-> Nobody]]
    /\ forts' = [f \in Forts |-> NoInfo]
    /\ result' = NoResult
    /\ condemned' = {}
    /\ abandoned' = {}
    /\ UNCHANGED <<now, sighted, absent, world, row, workVars, disturbed, conversions, moves>>

LifeInit ==
    /\ Init
    /\ world \in [Forts -> [kind : Kinds, cell : Cells]]
    /\ row \in [Kinds -> [Forts -> {NoRow} \cup [cell : Cells, deleted : {FALSE}]]]
    /\ \A k \in Kinds, f \in Forts :
          row[k][f] # NoRow => world[f] = [kind |-> k, cell |-> row[k][f].cell]
    /\ gmo = [w \in Workers |-> NoGmo]
    /\ toSave = [w \in Workers |-> {}]
    /\ toScan = [w \in Workers |-> {}]
    /\ toClear = [w \in Workers |-> {}]
    /\ removing = [w \in Workers |-> {}]
    /\ abandoned = {} /\ disturbed = FALSE
    /\ conversions = 0 /\ moves = 0 /\ restarts = 0

Decode(w) ==
    \/ \E C \in SUBSET Cells \ {{}}, S \in SUBSET Forts : Receive(w, C, S)
    \/ \E f \in Forts, k \in Kinds, c \in Cells : SaveFort(w, f, k, c)
    \/ \E f \in Forts : SaveFails(w, f)
    \/ \E c \in Cells : CheckCell(w, c)
    \/ \E i \in toClear[w] : Clear(w, i)
    \/ \E i \in toClear[w] : ClearFails(w, i)
    \/ \E f \in Forts : RemoveCleared(w, f)

LifeNext ==
    \/ \E w \in Workers : Decode(w)
    \/ \E f \in Forts : Convert(f)
    \/ \E f \in Forts, c \in Cells : Move(f, c)
    \/ \E f \in Forts, k \in Kinds : LoadRow(f, k)
    \/ StartServing
    \/ Restart
    \/ PassTime

LifeSpec == LifeInit /\ [][LifeNext]_allVars
-----------------------------------------------------------------------------
(* Correctness.                                                            *)

\* Until a restart, which may find two rows of one fort (NoTwins), the tracker's
\* callers keep to what FortTracker expects of them.
UsesTracker == Init /\ [][restarts' > 0 \/ [Next]_vars]_allVars

\* A fort that the tracker returned as stale is on some worker's list, or its
\* record could not be loaded; with NothingForgotten: every fort that the
\* tracker knows is looked for by each scan of its cell, or is being removed.
CondemnedIsHandled ==
    \A f \in condemned :
        \/ f \in abandoned
        \/ \E w \in Workers : f \in removing[w] \/ \E i \in toClear[w] : i.stale /\ i.fort = f

\* When GMOs are decoded one after another, no load fails and no fort moves or
\* changes its kind back, then between two GMOs the tracker and the records
\* agree: it knows exactly the forts that are not deleted, as what they are,
\* however often they go, come back and are converted, and across restarts.
TrackerAgrees ==
    serving /\ AllIdle /\ ~disturbed /\ moves = 0 /\ conversions <= 1 =>
        \A k \in Kinds, f \in Forts :
            Live(k, f) <=> /\ Tracked(f) /\ forts[f].kind = k
                           /\ forts[f].cell = row[k][f].cell

-----------------------------------------------------------------------------
(* Statements of the sources that the code does not live up to. *)

\* decoder/fort_tracker.go:208: "gyms that became pokestops (mark gym as
\* deleted)", and :207 the other way round: a fort is never left as both.
NoTwins == serving /\ AllIdle => \A f \in Forts : ~(Live("stop", f) /\ Live("gym", f))
=============================================================================
