------------------------- MODULE FortTracker_proofs -------------------------
(***************************************************************************)
(* Proofs about FortTracker and, at the end, about FortLifecycle, for      *)
(* every value of their constants.                                         *)
(*                                                                         *)
(* Every action is first described by what it does to the members of a     *)
(* cell, to the time of a cell and to what is known of a fort: one lemma   *)
(* for each of Register, Restore, Remove and ProcessCellUpdate.  The       *)
(* invariants are then shown to survive from these descriptions alone.     *)
(***************************************************************************)
EXTENDS FortLifecycle, TLAPS

\* What is known of a fort agrees with its history.
Accounts ==
    \A f \in Forts : Tracked(f) =>
        /\ forts[f].seen = sighted[f]
        /\ forts[f].miss <= absent[f]

\* While the forts are loaded nothing is missing.
LoadedUnmissed == ~serving => \A f \in Forts : forts[f].miss = 0

Inv == /\ TypeOK
       /\ NoOrphans
       /\ NothingForgotten
       /\ NeverWedged
       /\ NoOverstay
       /\ Accounts
       /\ LoadedUnmissed

-----------------------------------------------------------------------------
(* Types.                                                                  *)

LEMMA KindNames == "stop" \in Kinds /\ "gym" \in Kinds
  BY DEF Kinds

LEMMA CellType ==
  ASSUME TypeOK, NEW c \in Cells
  PROVE  /\ cells[c] = [seen |-> cells[c].seen, forts |-> cells[c].forts]
         /\ cells[c].seen \in {0} \cup Times
         /\ cells[c].forts \in Members
         /\ \A k \in Kinds : cells[c].forts[k] \subseteq Forts
  BY DEF TypeOK, Members

LEMMA InfoType ==
  ASSUME TypeOK, NEW f \in Forts
  PROVE  /\ forts[f].miss \in Nat
         /\ forts[f].seen \in {0} \cup Times
         /\ Tracked(f) => forts[f] \in Info
         /\ Tracked(f) => forts[f].cell \in Cells /\ forts[f].kind \in Kinds
  BY DEF TypeOK, Info, NoInfo, Tracked

LEMMA TimeType ==
  /\ Times \subseteq Nat
  /\ \A t \in Times : t >= 1
  /\ \A t \in 1 .. MaxTime : t \in Times
  BY ConstantsAssumption DEF Times

LEMMA FreshType ==
  ASSUME NEW c \in Cells, NEW k \in Kinds, NEW t \in Times
  PROVE  /\ Fresh(c, k, t) \in Info
         /\ Fresh(c, k, t) # NoInfo
         /\ Fresh(c, k, t).cell = c /\ Fresh(c, k, t).kind = k
         /\ Fresh(c, k, t).seen = t /\ Fresh(c, k, t).miss = 0
  BY DEF Fresh, Info, NoInfo, Kinds

LEMMA LaterType ==
  ASSUME NEW a \in {0} \cup Times, NEW b \in Times
  PROVE  /\ Later(a, b) \in Times
         /\ Later(a, b) = a \/ Later(a, b) = b
         /\ a <= Later(a, b) /\ b <= Later(a, b)
  BY TimeType DEF Later

-----------------------------------------------------------------------------
(* What the methods do.                                                    *)

\* A fort is confirmed: its history starts anew.
LEMMA ConfirmEffect ==
  ASSUME TypeOK, NEW f \in Forts, NEW t \in Times, Confirm(f, t)
  PROVE  /\ condemned' = condemned \ {f}
         /\ sighted' \in [Forts -> {0} \cup Times]
         /\ absent' \in [Forts -> Nat]
         /\ sighted'[f] = t /\ absent'[f] = 0
         /\ \A g \in Forts \ {f} : sighted'[g] = sighted[g] /\ absent'[g] = absent[g]
  BY DEF TypeOK, Confirm

\* RegisterFort, for a fort that is not known yet.
LEMMA RegisterEffect ==
  ASSUME TypeOK, NEW f \in Forts, NEW k \in Kinds, NEW c \in Cells, NEW t \in Times,
         ~Tracked(f), Register(f, k, c, t)
  PROVE  /\ cells' \in [Cells -> [seen : {0} \cup Times, forts : Members]]
         /\ forts' \in [Forts -> Info \cup {NoInfo}]
         /\ \A d \in Cells : cells'[d].seen = IF d = c THEN Later(cells[d].seen, t)
                                              ELSE cells[d].seen
         /\ \A d \in Cells, j \in Kinds :
               cells'[d].forts[j] = IF d = c /\ j = k THEN cells[d].forts[j] \cup {f}
                                    ELSE cells[d].forts[j]
         /\ forts'[f] = Fresh(c, k, t)
         /\ \A g \in Forts \ {f} : forts'[g] = forts[g]
         /\ Confirm(f, t)
<1> DEFINE C == [seen  |-> Later(cells[c].seen, t),
                 forts |-> [cells[c].forts EXCEPT ![k] = @ \cup {f}]]
<1>1. cells' = [cells EXCEPT ![c] = C]
  BY DEF Register
<1>2. C \in [seen : {0} \cup Times, forts : Members]
  BY CellType, LaterType DEF Members
<1>3. forts' = [forts EXCEPT ![f] = Fresh(c, k, t)]
  BY DEF Register
<1>4. Fresh(c, k, t) \in Info
  BY FreshType
<1>5. /\ cells' \in [Cells -> [seen : {0} \cup Times, forts : Members]]
      /\ forts' \in [Forts -> Info \cup {NoInfo}]
  BY <1>1, <1>2, <1>3, <1>4 DEF TypeOK
<1>6. C.forts[k] = cells[c].forts[k] \cup {f} /\ \A j \in Kinds \ {k} : C.forts[j] = cells[c].forts[j]
  BY CellType DEF Members
<1>7. cells'[c] = C /\ \A d \in Cells \ {c} : cells'[d] = cells[d]
  BY <1>1 DEF TypeOK
<1>8. C.seen = Later(cells[c].seen, t)
  OBVIOUS
<1>9. forts'[f] = Fresh(c, k, t) /\ \A g \in Forts \ {f} : forts'[g] = forts[g]
  BY <1>3 DEF TypeOK
<1> HIDE DEF C
<1> QED
  BY <1>5, <1>6, <1>7, <1>8, <1>9 DEF Register

\* The old place of f is left.
LEMMA WithoutEffect ==
  ASSUME TypeOK, NoOrphans, NEW f \in Forts
  PROVE  /\ Without(f) \in [Cells -> [seen : {0} \cup Times, forts : Members]]
         /\ \A d \in Cells : Without(f)[d].seen = cells[d].seen
         /\ \A d \in Cells, j \in Kinds : Without(f)[d].forts[j] = cells[d].forts[j] \ {f}
<1>1. CASE ~Tracked(f)
  <2>1. Without(f) = cells
    BY <1>1 DEF Without
  <2>2. \A d \in Cells, j \in Kinds : f \notin cells[d].forts[j]
    BY <1>1 DEF NoOrphans
  <2> QED
    BY <2>1, <2>2, CellType DEF TypeOK
<1>2. CASE Tracked(f)
  <2> DEFINE e == forts[f].cell
             i == forts[f].kind
             E == [cells[e] EXCEPT !.forts = [cells[e].forts EXCEPT ![i] = @ \ {f}]]
  <2>1. e \in Cells /\ i \in Kinds
    BY <1>2, InfoType
  <2>2. Without(f) = [cells EXCEPT ![e] = E]
    BY <1>2, <2>1, CellType DEF Without, TypeOK
  <2> HIDE DEF e, i
  <2>0. cells[e] \in [seen : {0} \cup Times, forts : Members]
    BY <2>1 DEF TypeOK
  <2>3. /\ E.seen = cells[e].seen
        /\ E \in [seen : {0} \cup Times, forts : Members]
        /\ E.forts[i] = cells[e].forts[i] \ {f}
        /\ \A j \in Kinds \ {i} : E.forts[j] = cells[e].forts[j]
    BY <2>0, <2>1 DEF Members
  <2>4. \A d \in Cells, j \in Kinds : f \in cells[d].forts[j] => d = e /\ j = i
    BY DEF NoOrphans, e, i
  <2>5. Without(f)[e] = E /\ \A d \in Cells \ {e} : Without(f)[d] = cells[d]
    BY <2>1, <2>2 DEF TypeOK
  <2>6. Without(f) \in [Cells -> [seen : {0} \cup Times, forts : Members]]
    BY <2>1, <2>2, <2>3 DEF TypeOK
  <2> HIDE DEF E
  <2> QED
    BY <2>1, <2>3, <2>4, <2>5, <2>6
<1> QED
  BY <1>1, <1>2

\* RestoreFort.
LEMMA RestoreEffect ==
  ASSUME TypeOK, NoOrphans, NEW f \in Forts, NEW k \in Kinds, NEW c \in Cells,
         NEW t \in Times, Restore(f, k, c, t)
  PROVE  /\ cells' \in [Cells -> [seen : {0} \cup Times, forts : Members]]
         /\ forts' \in [Forts -> Info \cup {NoInfo}]
         /\ \A d \in Cells : cells'[d].seen = cells[d].seen
         /\ \A d \in Cells, j \in Kinds :
               cells'[d].forts[j] = (cells[d].forts[j] \ {f})
                                       \cup IF d = c /\ j = k THEN {f} ELSE {}
         /\ forts'[f] = Fresh(c, k, t)
         /\ \A g \in Forts \ {f} : forts'[g] = forts[g]
         /\ Confirm(f, t)
<1> DEFINE W == Without(f)
           C == [W[c] EXCEPT !.forts = [W[c].forts EXCEPT ![k] = @ \cup {f}]]
<1>1. /\ W \in [Cells -> [seen : {0} \cup Times, forts : Members]]
      /\ \A d \in Cells : W[d].seen = cells[d].seen
      /\ \A d \in Cells, j \in Kinds : W[d].forts[j] = cells[d].forts[j] \ {f}
  BY WithoutEffect
<1> HIDE DEF W
<1>2. cells' = [W EXCEPT ![c] = C]
  BY <1>1 DEF Restore, W
<1>3. /\ C \in [seen : {0} \cup Times, forts : Members]
      /\ C.seen = W[c].seen
      /\ C.forts[k] = W[c].forts[k] \cup {f}
      /\ \A j \in Kinds \ {k} : C.forts[j] = W[c].forts[j]
  BY <1>1 DEF Members
<1> HIDE DEF C
<1>4. cells'[c] = C /\ \A d \in Cells \ {c} : cells'[d] = W[d]
  BY <1>1, <1>2
<1>5. cells' \in [Cells -> [seen : {0} \cup Times, forts : Members]]
  BY <1>1, <1>2, <1>3
<1>6. forts' = [forts EXCEPT ![f] = Fresh(c, k, t)]
  BY DEF Restore
<1>7. /\ forts' \in [Forts -> Info \cup {NoInfo}]
      /\ forts'[f] = Fresh(c, k, t)
      /\ \A g \in Forts \ {f} : forts'[g] = forts[g]
  BY <1>6, FreshType DEF TypeOK
<1>8. \A d \in Cells : cells'[d].seen = cells[d].seen
  BY <1>1, <1>3, <1>4
<1>9. \A d \in Cells, j \in Kinds :
         cells'[d].forts[j] = (cells[d].forts[j] \ {f}) \cup IF d = c /\ j = k THEN {f} ELSE {}
  BY <1>1, <1>3, <1>4
<1>10. Confirm(f, t)
  BY DEF Restore
<1> QED
  BY <1>5, <1>7, <1>8, <1>9, <1>10

\* RemoveFort.
LEMMA RemoveEffect ==
  ASSUME TypeOK, NoOrphans, NEW f \in Forts, Remove(f)
  PROVE  /\ cells' \in [Cells -> [seen : {0} \cup Times, forts : Members]]
         /\ forts' \in [Forts -> Info \cup {NoInfo}]
         /\ \A d \in Cells : cells'[d].seen = cells[d].seen
         /\ \A d \in Cells, j \in Kinds : cells'[d].forts[j] = cells[d].forts[j] \ {f}
         /\ forts'[f] = NoInfo
         /\ \A g \in Forts \ {f} : forts'[g] = forts[g]
  BY WithoutEffect DEF Remove, TypeOK

-----------------------------------------------------------------------------
(* What ProcessCellUpdate does, when nothing is an orphan.                 *)

LEMMA CurrentIs ==
  ASSUME NEW show \in Members, NEW k \in Kinds
  PROVE  /\ Current(show)[k] = {f \in Shown(show) : KindShown(f, show) = k}
         /\ Shown(show) \subseteq Forts
         /\ \A f : KindShown(f, show) \in Kinds
  BY DEF Current, Shown, KindShown, Kinds, Members

LEMMA AbsentIs ==
  ASSUME NoOrphans, NEW c \in Cells, NEW show \in Members, NEW k \in Kinds
  PROVE  Absent(show, c, k) = cells[c].forts[k] \ Shown(show)
  BY CurrentIs DEF NoOrphans, Absent

LEMMA OthersLeftIs ==
  ASSUME NoOrphans, NEW c \in Cells, NEW d \in Cells, NEW show \in Members, NEW k \in Kinds
  PROVE  OthersLeft(c, show, d, k) = cells[d].forts[k] \ Shown(show)
  BY DEF NoOrphans, OthersLeft

\* A fort that is not shown is missed once, however often the sets are gone through.
LEMMA MissesIs ==
  ASSUME TypeOK, NoOrphans, NEW c \in Cells, NEW show \in Members, NEW t \in Times,
         NEW k \in Kinds, NEW f \in cells[c].forts[k] \ Shown(show)
  PROVE  /\ f \in Forts
         /\ Tracked(f) /\ forts[f].cell = c /\ forts[f].kind = k
         /\ f \in NotShown(show, c)
         /\ SeenForts(c, show, t)[f] = forts[f]
         /\ Misses(c, show, t, f, k) = forts[f].miss + 1
         /\ Misses(c, show, t, f, "gym") = forts[f].miss + 1
<1>1. f \in Forts
  BY CellType
<1>2. Tracked(f) /\ forts[f].cell = c /\ forts[f].kind = k
  BY DEF NoOrphans
<1>3. SeenForts(c, show, t)[f] = forts[f]
  BY <1>1 DEF SeenForts
<1>4. \A j \in Kinds : f \in Absent(show, c, j) <=> j = k
  BY <1>2, AbsentIs DEF NoOrphans
<1>5. k = "stop" \/ k = "gym"
  BY DEF Kinds
<1>6. forts[f].miss \in Nat
  BY <1>1, InfoType
<1>7. f \in NotShown(show, c)
  BY <1>4, <1>5, KindNames DEF NotShown
<1>8. /\ Misses(c, show, t, f, k) = forts[f].miss + 1
      /\ Misses(c, show, t, f, "gym") = forts[f].miss + 1
  BY <1>3, <1>4, <1>5, <1>6, KindNames DEF Misses
<1> QED
  BY <1>1, <1>2, <1>3, <1>7, <1>8

LEMMA StaleIs ==
  ASSUME TypeOK, NoOrphans, NEW c \in Cells, NEW show \in Members, NEW t \in Times,
         NEW k \in Kinds
  PROVE  /\ Stale(c, show, t, k) = {f \in cells[c].forts[k] \ Shown(show) :
                                       /\ t - forts[f].seen >= StaleThreshold
                                       /\ forts[f].miss + 1 >= MinMissCount}
         /\ Pending(c, show, t, k) = (cells[c].forts[k] \ Shown(show)) \ Stale(c, show, t, k)
<1>1. Absent(show, c, k) = cells[c].forts[k] \ Shown(show)
  BY AbsentIs
<1>2. \A f \in Absent(show, c, k) :
         /\ Tracked(f)
         /\ SeenForts(c, show, t)[f] = forts[f]
         /\ Misses(c, show, t, f, k) = forts[f].miss + 1
  BY <1>1, MissesIs
<1> QED
  BY <1>1, <1>2 DEF Stale, Pending

\* The members of the cells.
LEMMA ProcessCells ==
  ASSUME TypeOK, NoOrphans, NEW c \in Cells, NEW show \in Members, NEW t \in Times
  PROVE  /\ CellsAfter(c, show, t) \in [Cells -> [seen : {0} \cup Times, forts : Members]]
         /\ CellsAfter(c, show, t)[c].seen = t
         /\ \A d \in Cells \ {c} : CellsAfter(c, show, t)[d].seen = cells[d].seen
         /\ \A d \in Cells \ {c}, k \in Kinds :
               CellsAfter(c, show, t)[d].forts[k] = cells[d].forts[k] \ Shown(show)
         /\ \A k \in Kinds :
               CellsAfter(c, show, t)[c].forts[k] =
                  Current(show)[k] \cup
                     IF FirstScan(c) THEN cells[c].forts[k] \ Shown(show)
                     ELSE (cells[c].forts[k] \ Shown(show)) \ Stale(c, show, t, k)
<1> DEFINE Here == [seen  |-> t,
                    forts |-> [k \in Kinds |->
                        Current(show)[k] \cup IF FirstScan(c) THEN Absent(show, c, k)
                                              ELSE Pending(c, show, t, k)]]
           There(d) == [cells[d] EXCEPT !.forts = [k \in Kinds |-> OthersLeft(c, show, d, k)]]
<1>1. CellsAfter(c, show, t) = [d \in Cells |-> IF d # c THEN There(d) ELSE Here]
  BY DEF CellsAfter
<1>2. Here \in [seen : {0} \cup Times, forts : Members]
  <2>1. \A k \in Kinds : /\ Current(show)[k] \subseteq Forts
                         /\ Absent(show, c, k) \subseteq Forts
                         /\ Pending(c, show, t, k) \subseteq Forts
    <3> TAKE k \in Kinds
    <3>1. cells[c].forts[k] \subseteq Forts
      BY CellType
    <3>2. Current(show)[k] \subseteq Forts
      BY CurrentIs
    <3>3. Absent(show, c, k) \subseteq Forts
      BY <3>1, AbsentIs
    <3>4. Pending(c, show, t, k) \subseteq Forts
      BY <3>1, StaleIs
    <3> QED
      BY <3>2, <3>3, <3>4
  <2> QED
    BY <2>1 DEF Members
<1>3. \A d \in Cells : /\ There(d) \in [seen : {0} \cup Times, forts : Members]
                       /\ There(d).seen = cells[d].seen
                       /\ There(d).forts = [k \in Kinds |-> OthersLeft(c, show, d, k)]
  <2> TAKE d \in Cells
  <2>1. \A k \in Kinds : OthersLeft(c, show, d, k) \subseteq Forts
    <3> TAKE k \in Kinds
    <3>1. cells[d].forts[k] \subseteq Forts
      BY CellType
    <3> QED
      BY <3>1, OthersLeftIs
  <2>2. [k \in Kinds |-> OthersLeft(c, show, d, k)] \in Members
    BY <2>1 DEF Members
  <2>3. cells[d] \in [seen : {0} \cup Times, forts : Members]
    BY DEF TypeOK
  <2> QED
    BY <2>2, <2>3
<1>4. /\ Here.seen = t
      /\ \A k \in Kinds :
            Here.forts[k] = Current(show)[k] \cup
                     IF FirstScan(c) THEN cells[c].forts[k] \ Shown(show)
                     ELSE (cells[c].forts[k] \ Shown(show)) \ Stale(c, show, t, k)
  BY AbsentIs, StaleIs
<1>5. \A d \in Cells, k \in Kinds : There(d).forts[k] = cells[d].forts[k] \ Shown(show)
  BY <1>3, OthersLeftIs
<1> HIDE DEF Here, There
<1>6. /\ CellsAfter(c, show, t)[c] = Here
      /\ \A d \in Cells \ {c} : CellsAfter(c, show, t)[d] = There(d)
  BY <1>1
<1>7. CellsAfter(c, show, t) \in [Cells -> [seen : {0} \cup Times, forts : Members]]
  BY <1>1, <1>2, <1>3
<1> QED
  BY <1>3, <1>4, <1>5, <1>6, <1>7

\* What is known of the forts.
LEMMA ProcessForts ==
  ASSUME TypeOK, NoOrphans, NEW c \in Cells, NEW show \in Members, NEW t \in Times
  PROVE  /\ FortsAfter(c, show, t) \in [Forts -> Info \cup {NoInfo}]
         /\ \A f \in Shown(show) :
               FortsAfter(c, show, t)[f] = Fresh(c, KindShown(f, show), t)
         /\ \A f \in Forts \ (Shown(show) \cup NotShown(show, c)) :
               FortsAfter(c, show, t)[f] = forts[f]
         /\ \A f \in NotShown(show, c) :
               LET info == FortsAfter(c, show, t)[f] IN
               /\ f \in Forts \ Shown(show) /\ Tracked(f) /\ forts[f].cell = c
               /\ f \in cells[c].forts[forts[f].kind]
               /\ info \in Info /\ info # NoInfo
               /\ info.cell = forts[f].cell /\ info.kind = forts[f].kind
               /\ info.seen = IF FirstScan(c) THEN t ELSE forts[f].seen
               /\ info.miss = IF FirstScan(c) THEN 0 ELSE forts[f].miss + 1
<1>1. ASSUME NEW f \in NotShown(show, c)
      PROVE  /\ f \in Forts \ Shown(show) /\ Tracked(f) /\ forts[f].cell = c
             /\ f \in cells[c].forts[forts[f].kind]
             /\ SeenForts(c, show, t)[f] = forts[f]
             /\ Misses(c, show, t, f, "gym") = forts[f].miss + 1
  <2>1. PICK k \in Kinds : f \in cells[c].forts[k] \ Shown(show)
    BY <1>1, AbsentIs, KindNames DEF NotShown
  <2> QED
    BY <2>1, MissesIs
<1>2. ASSUME NEW f \in Shown(show)
      PROVE  /\ f \in Forts /\ KindShown(f, show) \in Kinds
             /\ FortsAfter(c, show, t)[f] = Fresh(c, KindShown(f, show), t)
  <2>1. f \in Forts /\ KindShown(f, show) \in Kinds
    BY CurrentIs, KindNames
  <2>2. f \notin NotShown(show, c)
    BY <1>1
  <2>3. SeenForts(c, show, t)[f] = Fresh(c, KindShown(f, show), t)
    BY <2>1 DEF SeenForts
  <2> QED
    BY <2>1, <2>2, <2>3 DEF FortsAfter
<1>3. ASSUME NEW f \in Forts, f \notin Shown(show), f \notin NotShown(show, c)
      PROVE  FortsAfter(c, show, t)[f] = forts[f]
  BY <1>3 DEF FortsAfter, SeenForts
<1>4. ASSUME NEW f \in NotShown(show, c)
      PROVE  LET info == FortsAfter(c, show, t)[f] IN
             /\ info \in Info /\ info # NoInfo
             /\ info.cell = forts[f].cell /\ info.kind = forts[f].kind
             /\ info.seen = IF FirstScan(c) THEN t ELSE forts[f].seen
             /\ info.miss = IF FirstScan(c) THEN 0 ELSE forts[f].miss + 1
  <2>1. f \in Forts /\ forts[f] # NoInfo /\ forts[f] \in Info
    BY <1>1, InfoType DEF Tracked
  <2>2. FortsAfter(c, show, t)[f] =
           IF FirstScan(c) THEN [forts[f] EXCEPT !.seen = t, !.miss = 0]
           ELSE [forts[f] EXCEPT !.miss = forts[f].miss + 1]
    BY <1>1, <2>1 DEF FortsAfter
  <2>3. \A i \in Info :
           /\ [i EXCEPT !.seen = t, !.miss = 0] \in Info
           /\ [i EXCEPT !.miss = i.miss + 1] \in Info
           /\ i # NoInfo
    <3> TAKE i \in Info
    <3>1. [i EXCEPT !.seen = t, !.miss = 0] \in Info
      BY DEF Info
    <3>2. [i EXCEPT !.miss = i.miss + 1] \in Info
      BY DEF Info
    <3>3. i.kind # "none"
      BY DEF Info, Kinds
    <3> QED
      BY <3>1, <3>2, <3>3 DEF NoInfo
  <2>4. CASE FirstScan(c)
    BY <2>1, <2>2, <2>3, <2>4 DEF Info
  <2>5. CASE ~FirstScan(c)
    BY <2>1, <2>2, <2>3, <2>5 DEF Info
  <2> QED
    BY <2>4, <2>5
<1>5. FortsAfter(c, show, t) \in [Forts -> Info \cup {NoInfo}]
  <2>1. \A f \in Forts : FortsAfter(c, show, t)[f] \in Info \cup {NoInfo}
    <3> TAKE f \in Forts
    <3>1. CASE f \in Shown(show)
      BY <3>1, <1>2, FreshType
    <3>2. CASE f \in NotShown(show, c)
      BY <3>2, <1>4
    <3>3. CASE f \notin Shown(show) /\ f \notin NotShown(show, c)
      BY <3>3, <1>3 DEF TypeOK
    <3> QED
      BY <3>1, <3>2, <3>3
  <2> QED
    BY <2>1 DEF FortsAfter
<1> QED
  BY <1>1, <1>2, <1>3, <1>4, <1>5

-----------------------------------------------------------------------------
(* The invariant.                                                          *)

LEMMA InitInv == Init => Inv
<1> SUFFICES ASSUME Init PROVE Inv
  OBVIOUS
<1>1. Nobody \in Members /\ \A k \in Kinds : Nobody[k] = {}
  BY DEF Nobody, Members
<1>2. TypeOK
  <2>1. NoResult \in [stale : Members, converted : Members]
    BY <1>1 DEF NoResult
  <2>2. 1 \in 1 .. MaxTime
    BY ConstantsAssumption
  <2>3. cells \in [Cells -> [seen : {0} \cup Times, forts : Members]]
    BY <1>1 DEF Init
  <2> QED
    BY <2>1, <2>2, <2>3 DEF Init, TypeOK
<1>3. \A f \in Forts : ~Tracked(f) /\ forts[f].miss = 0
  BY DEF Init, Tracked, NoInfo
<1>4. \A c \in Cells : cells[c].seen = 0 /\ \A k \in Kinds : cells[c].forts[k] = {}
  BY <1>1 DEF Init
<1>5. NoOrphans /\ NoOverstay
  BY <1>4 DEF NoOrphans, NoOverstay
<1>6. NothingForgotten /\ Accounts /\ LoadedUnmissed
  BY <1>3 DEF NothingForgotten, Accounts, LoadedUnmissed
<1>7. NeverWedged
  BY <1>4, ConstantsAssumption DEF NeverWedged, Init
<1> QED
  BY <1>2, <1>5, <1>6, <1>7 DEF Inv

\* A fort loaded from the database.
LEMMA LoadInv ==
  ASSUME Inv, NEW f \in Forts, NEW k \in Kinds, NEW c \in Cells, Load(f, k, c)
  PROVE  Inv'
<1> USE DEF Inv
<1>0. /\ now \in Times /\ now \in Nat
      /\ ~serving /\ ~Tracked(f) /\ Register(f, k, c, now)
      /\ UNCHANGED <<now, serving, result>>
  BY TimeType DEF Load, TypeOK
<1>1. /\ cells' \in [Cells -> [seen : {0} \cup Times, forts : Members]]
      /\ forts' \in [Forts -> Info \cup {NoInfo}]
      /\ \A d \in Cells : cells'[d].seen = IF d = c THEN Later(cells[d].seen, now)
                                           ELSE cells[d].seen
      /\ \A d \in Cells, j \in Kinds :
            cells'[d].forts[j] = IF d = c /\ j = k THEN cells[d].forts[j] \cup {f}
                                 ELSE cells[d].forts[j]
      /\ forts'[f] = Fresh(c, k, now)
      /\ \A g \in Forts \ {f} : forts'[g] = forts[g]
      /\ Confirm(f, now)
  BY <1>0, RegisterEffect
<1>2. /\ condemned' = condemned \ {f}
      /\ sighted' \in [Forts -> {0} \cup Times]
      /\ absent' \in [Forts -> Nat]
      /\ sighted'[f] = now /\ absent'[f] = 0
      /\ \A g \in Forts \ {f} : sighted'[g] = sighted[g] /\ absent'[g] = absent[g]
  BY <1>0, <1>1, ConfirmEffect
<1>3. /\ Fresh(c, k, now) # NoInfo
      /\ Fresh(c, k, now).cell = c /\ Fresh(c, k, now).kind = k
      /\ Fresh(c, k, now).seen = now /\ Fresh(c, k, now).miss = 0
  BY <1>0, FreshType
<1>4. TypeOK'
  BY <1>0, <1>1, <1>2 DEF TypeOK
<1>5. \A d \in Cells, j \in Kinds : f \notin cells[d].forts[j]
  BY <1>0 DEF NoOrphans
<1>6. \A d \in Cells, j \in Kinds : cells[d].forts[j] \subseteq Forts
  BY CellType
<1>7. NoOrphans'
  <2> SUFFICES ASSUME NEW d \in Cells, NEW j \in Kinds, NEW g \in cells'[d].forts[j]
               PROVE  forts'[g] # NoInfo /\ forts'[g].cell = d /\ forts'[g].kind = j
    BY DEF NoOrphans, Tracked
  <2>1. CASE g = f
    BY <1>1, <1>3, <1>5, <2>1
  <2>2. CASE g # f
    <3>1. g \in cells[d].forts[j]
      BY <1>1, <2>2
    <3>2. g \in Forts /\ forts'[g] = forts[g]
      BY <1>1, <1>6, <2>2, <3>1
    <3> QED
      BY <3>1, <3>2 DEF NoOrphans, Tracked
  <2> QED
    BY <2>1, <2>2
<1>8. NothingForgotten'
  <2> SUFFICES ASSUME NEW g \in Forts, forts'[g] # NoInfo
               PROVE  g \in cells'[forts'[g].cell].forts[forts'[g].kind] \cup condemned'
    BY DEF NothingForgotten, Tracked
  <2>1. CASE g = f
    <3>1. forts'[g].cell = c /\ forts'[g].kind = k
      BY <1>1, <1>3, <2>1
    <3>2. cells'[c].forts[k] = cells[c].forts[k] \cup {f}
      BY <1>1
    <3> QED
      BY <2>1, <3>1, <3>2
  <2>2. CASE g # f
    <3>1. forts'[g] = forts[g] /\ Tracked(g)
      BY <1>1, <2>2 DEF Tracked
    <3>2. forts[g].cell \in Cells /\ forts[g].kind \in Kinds
      BY <3>1, InfoType
    <3>3. cells[forts[g].cell].forts[forts[g].kind] \subseteq cells'[forts[g].cell].forts[forts[g].kind]
      BY <1>1, <3>2
    <3>4. g \in condemned => g \in condemned'
      BY <1>2, <2>2
    <3> QED
      BY <3>1, <3>3, <3>4 DEF NothingForgotten
  <2> QED
    BY <2>1, <2>2
<1>9. NeverWedged'
  <2>1. \A d \in Cells : cells[d].seen \in {0} \cup Times
    BY CellType
  <2>2. \A d \in Cells : cells'[d].seen = cells[d].seen \/ cells'[d].seen = now
    BY <1>0, <1>1, <2>1, LaterType
  <2> QED
    BY <1>0, <2>2, ConstantsAssumption DEF NeverWedged
<1>10. LoadedUnmissed'
  BY <1>0, <1>1, <1>3 DEF LoadedUnmissed
<1>11. NoOverstay'
  BY <1>0, <1>4, <1>10, CellType, ConstantsAssumption DEF NoOverstay, LoadedUnmissed, TypeOK, Members
<1>12. Accounts'
  BY <1>0, <1>1, <1>2, <1>3 DEF Accounts, Tracked
<1> QED
  BY <1>4, <1>7, <1>8, <1>9, <1>10, <1>11, <1>12

\* A fort that is un-deleted.
LEMMA UndeleteInv ==
  ASSUME Inv, NEW f \in Forts, NEW k \in Kinds, NEW c \in Cells, NEW t \in Times,
         Undelete(f, k, c, t)
  PROVE  Inv'
<1> USE DEF Inv
<1>0. serving /\ Restore(f, k, c, t) /\ UNCHANGED <<now, serving, result>>
  BY DEF Undelete
<1>1. /\ cells' \in [Cells -> [seen : {0} \cup Times, forts : Members]]
      /\ forts' \in [Forts -> Info \cup {NoInfo}]
      /\ \A d \in Cells : cells'[d].seen = cells[d].seen
      /\ \A d \in Cells, j \in Kinds :
            cells'[d].forts[j] = (cells[d].forts[j] \ {f})
                                    \cup IF d = c /\ j = k THEN {f} ELSE {}
      /\ forts'[f] = Fresh(c, k, t)
      /\ \A g \in Forts \ {f} : forts'[g] = forts[g]
      /\ Confirm(f, t)
  BY <1>0, RestoreEffect
<1>2. /\ condemned' = condemned \ {f}
      /\ sighted' \in [Forts -> {0} \cup Times]
      /\ absent' \in [Forts -> Nat]
      /\ sighted'[f] = t /\ absent'[f] = 0
      /\ \A g \in Forts \ {f} : sighted'[g] = sighted[g] /\ absent'[g] = absent[g]
  BY <1>1, ConfirmEffect
<1>3. /\ Fresh(c, k, t) # NoInfo
      /\ Fresh(c, k, t).cell = c /\ Fresh(c, k, t).kind = k
      /\ Fresh(c, k, t).seen = t /\ Fresh(c, k, t).miss = 0
  BY FreshType
<1>4. TypeOK'
  BY <1>0, <1>1, <1>2 DEF TypeOK
<1>5. \A d \in Cells, j \in Kinds : cells[d].forts[j] \subseteq Forts
  BY CellType
<1>6. NoOrphans'
  BY <1>1, <1>3, <1>5 DEF NoOrphans, Tracked
<1>7. NothingForgotten'
  BY <1>1, <1>2, <1>3, InfoType DEF NothingForgotten, Tracked
<1>8. NeverWedged'
  BY <1>0, <1>1 DEF NeverWedged
<1>9. LoadedUnmissed'
  BY <1>0 DEF LoadedUnmissed
<1>10. NoOverstay'
  BY <1>1, <1>3, <1>5, ConstantsAssumption DEF NoOverstay
<1>11. Accounts'
  BY <1>1, <1>2, <1>3 DEF Accounts, Tracked
<1> QED
  BY <1>4, <1>6, <1>7, <1>8, <1>9, <1>10, <1>11

\* A fort that is removed.
LEMMA ForgetInv ==
  ASSUME Inv, NEW f \in Forts, Forget(f)
  PROVE  Inv'
<1> USE DEF Inv
<1>0. /\ serving /\ Remove(f) /\ UNCHANGED <<now, serving, result>>
      /\ condemned' = condemned \ {f} /\ UNCHANGED <<sighted, absent>>
  BY DEF Forget, Remove
<1>1. /\ cells' \in [Cells -> [seen : {0} \cup Times, forts : Members]]
      /\ forts' \in [Forts -> Info \cup {NoInfo}]
      /\ \A d \in Cells : cells'[d].seen = cells[d].seen
      /\ \A d \in Cells, j \in Kinds : cells'[d].forts[j] = cells[d].forts[j] \ {f}
      /\ forts'[f] = NoInfo
      /\ \A g \in Forts \ {f} : forts'[g] = forts[g]
  BY <1>0, RemoveEffect
<1>2. TypeOK'
  BY <1>0, <1>1 DEF TypeOK
<1>3. \A d \in Cells, j \in Kinds : cells[d].forts[j] \subseteq Forts
  BY CellType
<1>4. NoOrphans'
  BY <1>1, <1>3 DEF NoOrphans, Tracked
<1>5. NothingForgotten'
  BY <1>0, <1>1, InfoType DEF NothingForgotten, Tracked
<1>6. NeverWedged' /\ LoadedUnmissed'
  BY <1>0, <1>1 DEF NeverWedged, LoadedUnmissed
<1>7. NoOverstay'
  BY <1>1, <1>3 DEF NoOverstay
<1>8. Accounts'
  BY <1>0, <1>1 DEF Accounts, Tracked
<1> QED
  BY <1>2, <1>4, <1>5, <1>6, <1>7, <1>8

\* A GMO.
LEMMA ProcessInv ==
  ASSUME Inv, NEW c \in Cells, NEW show \in Members, NEW t \in Times, serving,
         ProcessCellUpdate(c, show, t), UNCHANGED <<now, serving>>
  PROVE  Inv'
<1> USE DEF Inv
<1> DEFINE Seen == Shown(show)
           Missed(k) == cells[c].forts[k] \ Seen
           Gone(k) == Stale(c, show, t, k)
           Settled == Seen \cup IF FirstScan(c) THEN NotShown(show, c) ELSE {}
<1>1. /\ cells' \in [Cells -> [seen : {0} \cup Times, forts : Members]]
      /\ cells'[c].seen = t
      /\ \A d \in Cells \ {c} : cells'[d].seen = cells[d].seen
      /\ \A d \in Cells \ {c}, k \in Kinds : cells'[d].forts[k] = cells[d].forts[k] \ Seen
      /\ \A k \in Kinds : cells'[c].forts[k] = Current(show)[k] \cup
                             IF FirstScan(c) THEN Missed(k) ELSE Missed(k) \ Gone(k)
  BY ProcessCells DEF ProcessCellUpdate
<1>2. /\ forts' \in [Forts -> Info \cup {NoInfo}]
      /\ \A f \in Seen : forts'[f] = Fresh(c, KindShown(f, show), t)
      /\ \A f \in Forts \ (Seen \cup NotShown(show, c)) : forts'[f] = forts[f]
      /\ \A f \in NotShown(show, c) :
            /\ f \in Forts \ Seen /\ Tracked(f) /\ forts[f].cell = c
            /\ f \in cells[c].forts[forts[f].kind]
            /\ forts'[f] \in Info /\ forts'[f] # NoInfo
            /\ forts'[f].cell = forts[f].cell /\ forts'[f].kind = forts[f].kind
            /\ forts'[f].seen = IF FirstScan(c) THEN t ELSE forts[f].seen
            /\ forts'[f].miss = IF FirstScan(c) THEN 0 ELSE forts[f].miss + 1
  BY ProcessForts DEF ProcessCellUpdate
<1>3. \A f \in Seen :
         /\ f \in Forts
         /\ forts'[f] # NoInfo /\ forts'[f].cell = c /\ forts'[f].kind = KindShown(f, show)
         /\ forts'[f].seen = t /\ forts'[f].miss = 0
         /\ KindShown(f, show) \in Kinds
         /\ f \in Current(show)[KindShown(f, show)]
  BY <1>2, CurrentIs, FreshType, KindNames
<1>4. \A k \in Kinds : /\ cells[c].forts[k] \subseteq Forts
                       /\ Missed(k) \subseteq NotShown(show, c)
                       /\ Current(show)[k] = {f \in Seen : KindShown(f, show) = k}
                       /\ Gone(k) = {f \in Missed(k) : /\ t - forts[f].seen >= StaleThreshold
                                                       /\ forts[f].miss + 1 >= MinMissCount}
  BY CellType, MissesIs, CurrentIs, StaleIs
<1>5. /\ condemned' = (condemned \ Seen) \cup StaleForts(Verdict(c, show, t))
      /\ sighted' = [f \in Forts |-> IF f \in Settled THEN t ELSE sighted[f]]
      /\ absent' = [f \in Forts |-> IF f \in Settled THEN 0
                                    ELSE IF forts[f].cell = c THEN absent[f] + 1 ELSE absent[f]]
      /\ result' = Verdict(c, show, t)
      /\ t <= now + Tolerance
  BY DEF ProcessCellUpdate, Plausible
<1>6. /\ Verdict(c, show, t) \in [stale : Members, converted : Members]
      /\ \A k \in Kinds : Verdict(c, show, t).stale[k] = IF FirstScan(c) THEN {} ELSE Gone(k)
  <2>1. \A k \in Kinds : Gone(k) \subseteq Forts /\ Converted(show, k) \subseteq Forts
    BY <1>3, <1>4 DEF Converted
  <2>2. /\ [k \in Kinds |-> Gone(k)] \in Members
        /\ [k \in Kinds |-> Converted(show, k)] \in Members
        /\ Nobody \in Members /\ \A k \in Kinds : Nobody[k] = {}
    BY <2>1 DEF Members, Nobody
  <2> QED
    BY <2>2 DEF Verdict
<1> HIDE DEF Seen, Missed, Gone, Settled
<1>7. /\ StaleForts(Verdict(c, show, t)) \subseteq Forts
      /\ ~FirstScan(c) => \A k \in Kinds : Gone(k) \subseteq condemned'
      /\ condemned \ Seen \subseteq condemned'
  BY <1>5, <1>6 DEF StaleForts, Members, Kinds
<1>8. TypeOK'
  <2>1. absent' \in [Forts -> Nat] /\ sighted' \in [Forts -> {0} \cup Times]
    BY <1>5 DEF TypeOK
  <2> QED
    BY <1>1, <1>2, <1>5, <1>6, <1>7, <2>1 DEF TypeOK
<1>9. NoOrphans'
  <2> SUFFICES ASSUME NEW d \in Cells, NEW k \in Kinds, NEW f \in cells'[d].forts[k]
               PROVE  forts'[f] # NoInfo /\ forts'[f].cell = d /\ forts'[f].kind = k
    BY DEF NoOrphans, Tracked
  <2>1. CASE f \in Seen
    <3>1. d = c /\ f \in Current(show)[k]
      BY <1>1, <1>4, <2>1 DEF Missed
    <3> QED
      BY <1>3, <1>4, <2>1, <3>1
  <2>2. CASE f \notin Seen
    <3>1. f \in cells[d].forts[k]
      BY <1>1, <1>4, <2>2 DEF Missed
    <3>2. /\ f \in Forts
          /\ forts[f] # NoInfo /\ forts[f].cell = d /\ forts[f].kind = k
      <4>1. f \in Forts
        BY <3>1, CellType
      <4> QED
        BY <3>1, <4>1 DEF NoOrphans, Tracked
    <3> QED
      BY <1>2, <2>2, <3>2
  <2> QED
    BY <2>1, <2>2
<1>10. NothingForgotten'
  <2> SUFFICES ASSUME NEW f \in Forts, forts'[f] # NoInfo
               PROVE  f \in cells'[forts'[f].cell].forts[forts'[f].kind] \cup condemned'
    BY DEF NothingForgotten, Tracked
  <2>1. CASE f \in Seen
    BY <1>1, <1>3, <2>1
  <2>2. CASE f \notin Seen
    <3>1. /\ Tracked(f)
          /\ forts'[f].cell = forts[f].cell /\ forts'[f].kind = forts[f].kind
      BY <1>2, <2>2 DEF Tracked
    <3>2. forts[f].cell \in Cells /\ forts[f].kind \in Kinds
      BY <3>1, InfoType
    <3>3. CASE f \in condemned
      BY <1>7, <2>2, <3>3
    <3>4. CASE f \in cells[forts[f].cell].forts[forts[f].kind]
      <4>1. CASE forts[f].cell # c
        BY <1>1, <2>2, <3>1, <3>2, <3>4, <4>1
      <4>2. CASE forts[f].cell = c
        BY <1>1, <1>7, <2>2, <3>1, <3>2, <3>4, <4>2 DEF Missed
      <4> QED
        BY <4>1, <4>2
    <3> QED
      BY <3>1, <3>3, <3>4 DEF NothingForgotten
  <2> QED
    BY <2>1, <2>2
<1>11. NeverWedged'
  BY <1>1, <1>5 DEF NeverWedged
<1>12. LoadedUnmissed'
  BY DEF LoadedUnmissed
<1>13. NoOverstay'
  <2> SUFFICES ASSUME NEW d \in Cells, NEW k \in Kinds, NEW f \in cells'[d].forts[k],
                      cells'[d].seen - forts'[f].seen >= StaleThreshold
               PROVE  forts'[f].miss < MinMissCount
    BY DEF NoOverstay
  <2>1. CASE f \in Seen
    BY <1>3, <2>1, ConstantsAssumption
  <2>2. CASE f \notin Seen /\ d # c
    <3>1. f \in cells[d].forts[k] /\ f \in Forts
      <4>1. f \in cells[d].forts[k]
        BY <1>1, <2>2
      <4> QED
        BY <4>1, CellType
    <3>2. f \notin NotShown(show, c)
      BY <1>2, <2>2, <3>1 DEF NoOrphans
    <3>3. forts'[f] = forts[f] /\ cells'[d].seen = cells[d].seen
      BY <1>1, <1>2, <2>2, <3>1, <3>2
    <3> QED
      BY <3>1, <3>3 DEF NoOverstay
  <2>3. CASE f \notin Seen /\ d = c
    <3>1. f \in Missed(k) /\ (FirstScan(c) \/ f \notin Gone(k))
      BY <1>1, <1>4, <2>3
    <3>2. f \in NotShown(show, c) /\ f \in Forts
      BY <1>2, <1>4, <3>1
    <3>3. CASE FirstScan(c)
      BY <1>2, <3>2, <3>3, ConstantsAssumption
    <3>4. CASE ~FirstScan(c)
      <4>1. ~(t - forts[f].seen >= StaleThreshold /\ forts[f].miss + 1 >= MinMissCount)
        BY <1>4, <3>1, <3>4
      <4>2. /\ cells'[d].seen = t /\ forts'[f].seen = forts[f].seen
            /\ forts'[f].miss = forts[f].miss + 1
        BY <1>1, <1>2, <2>3, <3>2, <3>4
      <4>3. forts[f].miss \in Nat
        BY <3>2, InfoType
      <4> QED
        BY <4>1, <4>2, <4>3, ConstantsAssumption
    <3> QED
      BY <3>3, <3>4
  <2> QED
    BY <2>1, <2>2, <2>3
<1>14. Accounts'
  <2> SUFFICES ASSUME NEW f \in Forts, forts'[f] # NoInfo
               PROVE  forts'[f].seen = sighted'[f] /\ forts'[f].miss <= absent'[f]
    BY DEF Accounts, Tracked
  <2>1. absent[f] \in Nat /\ forts[f].miss \in Nat
    BY InfoType DEF TypeOK
  <2>2. CASE f \in Seen
    BY <1>3, <1>5, <2>2 DEF Settled
  <2>3. CASE f \in NotShown(show, c)
    BY <1>2, <1>5, <2>1, <2>3 DEF Settled, Accounts
  <2>4. CASE f \notin Seen /\ f \notin NotShown(show, c)
    BY <1>2, <1>5, <2>1, <2>4 DEF Settled, Accounts, Tracked
  <2> QED
    BY <2>2, <2>3, <2>4
<1> QED
  BY <1>8, <1>9, <1>10, <1>11, <1>12, <1>13, <1>14

LEMMA NextInv == Inv /\ [Next]_vars => Inv'
<1> SUFFICES ASSUME Inv, [Next]_vars PROVE Inv'
  OBVIOUS
<1>1. ASSUME NEW f \in Forts, NEW k \in Kinds, NEW c \in Cells, Load(f, k, c)
      PROVE  Inv'
  BY <1>1, LoadInv
<1>2. CASE Start
  BY <1>2 DEF Start, trackerVars, Inv, TypeOK, NoOrphans, NothingForgotten, NeverWedged,
              NoOverstay, Accounts, LoadedUnmissed, Tracked
<1>3. ASSUME NEW c \in Cells, NEW show \in Members, NEW t \in Times, Gmo(c, show, t)
      PROVE  Inv'
  <2>1. CASE ProcessCellUpdate(c, show, t)
    BY <1>3, <2>1, ProcessInv DEF Gmo
  <2>2. CASE RefuseCellUpdate(c, t)
    <3>1. NoResult \in [stale : Members, converted : Members]
      BY DEF NoResult, Nobody, Members
    <3> QED
      BY <1>3, <2>2, <3>1 DEF Gmo, RefuseCellUpdate, trackerVars, Inv, TypeOK, NoOrphans,
              NothingForgotten, NeverWedged, NoOverstay, Accounts, LoadedUnmissed, Tracked
  <2> QED
    BY <1>3, <2>1, <2>2 DEF Gmo
<1>4. ASSUME NEW f \in Forts, NEW k \in Kinds, NEW c \in Cells, NEW t \in Times,
             Undelete(f, k, c, t)
      PROVE  Inv'
  BY <1>4, UndeleteInv
<1>5. ASSUME NEW f \in Forts, Forget(f)
      PROVE  Inv'
  BY <1>5, ForgetInv
<1>6. CASE Tick
  <2>1. \A c \in Cells : cells[c].seen \in {0} \cup Times
    BY CellType DEF Inv
  <2>2. NeverWedged'
    <3>1. now \in Nat /\ now' = now + 1 /\ cells' = cells
      BY <1>6 DEF Tick, trackerVars, Inv, TypeOK
    <3>2. \A c \in Cells : cells[c].seen \in Nat /\ cells[c].seen <= now + Tolerance
      <4>1. \A c \in Cells : cells[c].seen \in Nat
        <5>1. \A t \in {0} \cup Times : t \in Nat
          BY ConstantsAssumption DEF Times
        <5> QED
          BY <2>1, <5>1
      <4>2. NeverWedged
        BY DEF Inv
      <4> QED
        BY <4>1, <4>2 DEF NeverWedged
    <3>3. Tolerance \in Nat
      BY ConstantsAssumption
    <3> QED
      BY <3>1, <3>2, <3>3 DEF NeverWedged
  <2>3. TypeOK'
    <3>1. now \in 1 .. MaxTime /\ now < MaxTime /\ now' = now + 1 /\ MaxTime \in Nat
      BY <1>6, ConstantsAssumption DEF Tick, Inv, TypeOK
    <3>2. now' \in 1 .. MaxTime
      BY <3>1
    <3> QED
      BY <1>6, <3>2 DEF Tick, trackerVars, Inv, TypeOK
  <2> QED
    BY <1>6, <2>2, <2>3 DEF Tick, trackerVars, Inv, NoOrphans, NothingForgotten,
              NoOverstay, Accounts, LoadedUnmissed, Tracked
<1>7. CASE UNCHANGED vars
  BY <1>7 DEF vars, trackerVars, Inv, TypeOK, NoOrphans, NothingForgotten, NeverWedged,
              NoOverstay, Accounts, LoadedUnmissed, Tracked
<1> QED
  BY <1>1, <1>2, <1>3, <1>4, <1>5, <1>6, <1>7 DEF Next

\* The tracker's two maps and their history stay consistent, whatever its
\* callers do.
THEOREM InvariantHolds == Spec => []Inv
<1>1. Init => Inv
  BY InitInv
<1>2. Inv /\ [Next]_vars => Inv'
  BY NextInv
<1> QED
  BY <1>1, <1>2, PTL DEF Spec

\* Every variable keeps its type, with GMOs of any time, in any order.
THEOREM TypeCorrect == Spec => []TypeOK
<1>1. Inv => TypeOK
  BY DEF Inv
<1> QED
  BY <1>1, InvariantHolds, PTL

\* However forts move, change their kind, go and come back, none stays behind
\* as a member of a cell or a kind that the tracker does not have for it.
THEOREM NoFortIsOrphaned == Spec => []NoOrphans
<1>1. Inv => NoOrphans
  BY DEF Inv
<1> QED
  BY <1>1, InvariantHolds, PTL

\* A fort that the tracker knows is looked for by every scan of its cell,
\* unless it has been returned as stale.
THEOREM NoFortIsForgotten == Spec => []NothingForgotten
<1>1. Inv => NothingForgotten
  BY DEF Inv
<1> QED
  BY <1>1, InvariantHolds, PTL

\* The time of a cell is never so far ahead of the clock that right GMOs are
\* refused: the tolerance for GMOs from the future bounds it.
THEOREM NoCellIsWedged == Spec => []NeverWedged
<1>1. Inv => NeverWedged
  BY DEF Inv
<1> QED
  BY <1>1, InvariantHolds, PTL

\* A fort is given up only when nothing has shown it for the threshold and
\* enough scans of its cell in a row have missed it.
THEOREM NoFortGoesInHaste == Spec => NoHaste
<1> DEFINE Just == \A f \in condemned' \ condemned :
                      /\ cells'[forts[f].cell].seen - sighted[f] >= StaleThreshold
                      /\ absent'[f] >= MinMissCount
<1>1. ASSUME Inv, [Next]_vars PROVE [Just]_vars
  <2> SUFFICES ASSUME Next PROVE Just
    BY <1>1
  <2> USE <1>1 DEF Inv
  <2>1. ASSUME NEW c \in Cells, NEW show \in Members, NEW t \in Times,
               ProcessCellUpdate(c, show, t)
        PROVE  Just
    <3> SUFFICES ASSUME NEW f \in condemned' \ condemned
                 PROVE  /\ cells'[forts[f].cell].seen - sighted[f] >= StaleThreshold
                        /\ absent'[f] >= MinMissCount
      OBVIOUS
    <3>1. /\ f \in StaleForts(Verdict(c, show, t))
          /\ cells' = CellsAfter(c, show, t)
      BY <2>1 DEF ProcessCellUpdate
    <3>2. ~FirstScan(c) /\ \E k \in Kinds : f \in Stale(c, show, t, k)
      BY <3>1, KindNames DEF StaleForts, Verdict, Nobody
    <3>3. PICK k \in Kinds : f \in Stale(c, show, t, k)
      BY <3>2
    <3>4. /\ f \in cells[c].forts[k] \ Shown(show)
          /\ t - forts[f].seen >= StaleThreshold
          /\ forts[f].miss + 1 >= MinMissCount
      BY <3>3, StaleIs
    <3>5. f \in Forts /\ Tracked(f) /\ forts[f].cell = c
      BY <3>4, MissesIs
    <3>6. /\ forts[f].seen = sighted[f] /\ forts[f].miss <= absent[f]
          /\ forts[f].miss \in Nat /\ absent[f] \in Nat
      BY <3>5, InfoType DEF Accounts, TypeOK
    <3>7. absent'[f] = absent[f] + 1
      BY <2>1, <3>2, <3>4, <3>5 DEF ProcessCellUpdate
    <3>8. cells'[c].seen = t
      BY <3>1, ProcessCells
    <3> QED
      BY <3>4, <3>5, <3>6, <3>7, <3>8, ConstantsAssumption
  <2>2. CASE condemned' \subseteq condemned
    BY <2>2
  <2>3. ASSUME NEW f \in Forts, NEW k \in Kinds, NEW c \in Cells, Load(f, k, c)
        PROVE  condemned' \subseteq condemned
    BY <2>3 DEF Load, Register, Confirm
  <2>4. ASSUME NEW f \in Forts, NEW k \in Kinds, NEW c \in Cells, NEW t \in Times,
               Undelete(f, k, c, t)
        PROVE  condemned' \subseteq condemned
    BY <2>4 DEF Undelete, Restore, Confirm
  <2>5. ASSUME NEW f \in Forts, Forget(f)
        PROVE  condemned' \subseteq condemned
    BY <2>5 DEF Forget, Remove
  <2>6. Start \/ Tick => condemned' \subseteq condemned
    BY DEF Start, Tick, trackerVars
  <2>7. ASSUME NEW c \in Cells, NEW show \in Members, NEW t \in Times, Gmo(c, show, t)
        PROVE  Just
    <3>1. RefuseCellUpdate(c, t) => condemned' \subseteq condemned
      BY DEF RefuseCellUpdate, trackerVars
    <3> QED
      BY <2>1, <2>2, <2>7, <3>1 DEF Gmo
  <2> QED
    BY <2>2, <2>3, <2>4, <2>5, <2>6, <2>7 DEF Next
<1> QED
  BY <1>1, InvariantHolds, PTL DEF Spec, NoHaste

\* No fort stays in its set that meets both criteria of staleness.
THEOREM StaleFortsGo == Spec => []NoOverstay
<1>1. Inv => NoOverstay
  BY DEF Inv
<1> QED
  BY <1>1, InvariantHolds, PTL

-----------------------------------------------------------------------------
(* FortLifecycle: what the tracker finds stale is dealt with.  No types are *)
(* needed, so this holds after restarts, too.                              *)

\* Whoever removes forts does so one at a time.
OneByOne ==
    /\ toClear = [w \in Workers |-> toClear[w]]
    /\ removing = [w \in Workers |-> removing[w]]
    /\ \A w \in Workers : \A f, g \in removing[w] : f = g

InHand(f) ==
    \/ f \in abandoned
    \/ \E w \in Workers : f \in removing[w] \/ \E i \in toClear[w] : i.stale /\ i.fort = f

LEMMA StaleIsOrdered ==
    ASSUME NEW r, NEW f \in StaleForts(r)
    PROVE  \E i \in Orders(r) : i.stale /\ i.fort = f
<1>1. PICK k \in Kinds : f \in r.stale[k]
  BY KindNames DEF StaleForts
<1>2. Item(f, k, TRUE) \in {Item(g, k, TRUE) : g \in r.stale[k]}
  BY <1>1
<1>3. Item(f, k, TRUE) \in Orders(r)
  <2> DEFINE Old(j) == {Item(g, j, TRUE) : g \in r.stale[j]}
             New(j) == {Item(g, Other(j), FALSE) : g \in r.converted[j]}
  <2>1. Orders(r) = UNION {Old(j) \cup New(j) : j \in Kinds}
    BY Zenon DEF Orders
  <2> HIDE DEF Old, New
  <2>2. Item(f, k, TRUE) \in Old(k)
    BY <1>2 DEF Old
  <2>3. \E T \in {Old(j) \cup New(j) : j \in Kinds} : Item(f, k, TRUE) \in T
    <3>1. Old(k) \cup New(k) \in {Old(j) \cup New(j) : j \in Kinds}
      BY Zenon
    <3> QED
      BY <2>2, <3>1
  <2> QED
    BY <2>1, <2>3, Zenon
<1> QED
  BY <1>3 DEF Item

LEMMA CheckCellHandles ==
    ASSUME OneByOne, CondemnedIsHandled, NEW w \in Workers, NEW c \in Cells, CheckCell(w, c)
    PROVE  OneByOne' /\ CondemnedIsHandled'
<1> DEFINE show == gmo[w].show[c]
           t == gmo[w].time
<1>1. /\ toClear[w] = {} /\ removing[w] = {}
      /\ \/ ProcessCellUpdate(c, show, t) /\ abandoned' = abandoned \ Shown(show)
         \/ RefuseCellUpdate(c, t) /\ abandoned' = abandoned
      /\ toClear' = [toClear EXCEPT ![w] = Orders(result')]
      /\ removing' = removing
  BY DEF CheckCell
<1>2. OneByOne'
  BY <1>1 DEF OneByOne
<1>3. toClear'[w] = Orders(result') /\ \A v \in Workers : v # w => toClear'[v] = toClear[v]
  BY <1>1 DEF OneByOne
<1>4. ASSUME NEW f \in condemned', f \in condemned, f \notin abandoned \/ f \in abandoned'
      PROVE  InHand(f)'
  <2>1. InHand(f)
    BY <1>4 DEF CondemnedIsHandled, InHand
  <2>2. CASE f \in abandoned
    BY <1>4, <2>2 DEF InHand
  <2>3. CASE f \notin abandoned
    <3>1. PICK v \in Workers : f \in removing[v] \/ \E i \in toClear[v] : i.stale /\ i.fort = f
      BY <2>1, <2>3 DEF InHand
    <3>2. v # w
      BY <1>1, <3>1
    <3> QED
      BY <1>1, <1>3, <3>1, <3>2 DEF InHand
  <2> QED
    BY <2>2, <2>3
<1>5. CASE ProcessCellUpdate(c, show, t) /\ abandoned' = abandoned \ Shown(show)
  <2>1. condemned' = (condemned \ Shown(show)) \cup StaleForts(result')
    BY <1>5 DEF ProcessCellUpdate
  <2>2. ASSUME NEW f \in StaleForts(result') PROVE InHand(f)'
    BY <1>3, <2>2, StaleIsOrdered DEF InHand
  <2>3. \A f \in condemned' : InHand(f)'
    BY <1>4, <1>5, <2>1, <2>2
  <2> QED
    BY <1>2, <2>3 DEF CondemnedIsHandled, InHand
<1>6. CASE RefuseCellUpdate(c, t) /\ abandoned' = abandoned
  <2>1. condemned' = condemned
    BY <1>6 DEF RefuseCellUpdate, trackerVars
  <2>2. \A f \in condemned' : InHand(f)'
    BY <1>4, <1>6, <2>1
  <2> QED
    BY <1>2, <2>2 DEF CondemnedIsHandled, InHand
<1> QED
  BY <1>1, <1>5, <1>6

\* An item leaves a worker's list: it was not a stale fort, or the fort is
\* about to be removed, or has been abandoned.
LEMMA ListShrinks ==
    ASSUME OneByOne, CondemnedIsHandled, NEW w \in Workers, NEW i \in toClear[w],
           Done(w, i), condemned' = condemned, abandoned \subseteq abandoned',
           removing[w] = {}, removing' = [removing EXCEPT ![w] = removing'[w]],
           \A f, g \in removing'[w] : f = g,
           i.stale => i.fort \in removing'[w] \/ i.fort \in abandoned'
    PROVE  OneByOne' /\ CondemnedIsHandled'
<1>1. /\ toClear'[w] = toClear[w] \ {i}
      /\ \A v \in Workers : v # w => toClear'[v] = toClear[v] /\ removing'[v] = removing[v]
  BY DEF Done, OneByOne
<1>2. OneByOne'
  BY <1>1 DEF Done, OneByOne
<1>3. ASSUME NEW f \in condemned' PROVE InHand(f)'
  <2>1. InHand(f)
    BY <1>3 DEF CondemnedIsHandled, InHand
  <2>2. CASE f \in abandoned
    BY <2>2 DEF InHand
  <2>3. ASSUME NEW v \in Workers, f \in removing[v]
        PROVE  InHand(f)'
    BY <1>1, <2>3 DEF InHand
  <2>4. ASSUME NEW v \in Workers, NEW j \in toClear[v], j.stale, j.fort = f
        PROVE  InHand(f)'
    <3>1. CASE v = w /\ j = i
      BY <2>4, <3>1 DEF InHand
    <3>2. CASE ~(v = w /\ j = i)
      <4>1. j \in toClear'[v]
        BY <1>1, <2>4, <3>2
      <4> QED
        BY <2>4, <4>1 DEF InHand
    <3> QED
      BY <3>1, <3>2
  <2> QED
    BY <2>1, <2>2, <2>3, <2>4 DEF InHand
<1> QED
  BY <1>2, <1>3 DEF CondemnedIsHandled, InHand

LEMMA ClearHandles ==
    ASSUME OneByOne, CondemnedIsHandled, NEW w \in Workers, NEW i \in toClear[w],
           Clear(w, i) \/ ClearFails(w, i)
    PROVE  OneByOne' /\ CondemnedIsHandled'
<1>1. removing[w] = {} /\ Done(w, i) /\ condemned' = condemned
  BY DEF Clear, ClearFails, Due, vars, trackerVars
<1>2. CASE Clear(w, i)
  <2>1. abandoned' = abandoned
    BY <1>2 DEF Clear
  <2>2. removing' = IF i.stale THEN [removing EXCEPT ![w] = {i.fort}] ELSE removing
    BY <1>2 DEF Clear, RemoveIfStale
  <2>3. removing'[w] = IF i.stale THEN {i.fort} ELSE {}
    BY <1>1, <2>2 DEF OneByOne
  <2>4. removing' = [removing EXCEPT ![w] = removing'[w]]
    BY <1>1, <2>2, <2>3 DEF OneByOne
  <2> QED
    BY <1>1, <2>1, <2>3, <2>4, ListShrinks
<1>3. CASE ClearFails(w, i)
  <2>1. abandoned' = IF i.stale THEN abandoned \cup {i.fort} ELSE abandoned
    BY <1>3 DEF ClearFails
  <2>2. removing' = removing
    BY <1>3 DEF ClearFails
  <2>3. removing' = [removing EXCEPT ![w] = removing'[w]]
    BY <2>2 DEF OneByOne
  <2> QED
    BY <1>1, <2>1, <2>2, <2>3, ListShrinks
<1> QED
  BY <1>2, <1>3

LEMMA RemoveClearedHandles ==
    ASSUME OneByOne, CondemnedIsHandled, NEW w \in Workers, NEW f \in Forts,
           RemoveCleared(w, f)
    PROVE  OneByOne' /\ CondemnedIsHandled'
<1>1. /\ f \in removing[w] /\ condemned' = condemned \ {f}
      /\ removing' = [removing EXCEPT ![w] = {}]
      /\ UNCHANGED <<toClear, abandoned>>
  BY DEF RemoveCleared, Remove
<1>2. removing'[w] = {} /\ \A v \in Workers : v # w => removing'[v] = removing[v]
  BY <1>1 DEF OneByOne
<1>3. OneByOne'
  BY <1>1, <1>2 DEF OneByOne
<1>4. ASSUME NEW g \in condemned' PROVE InHand(g)'
  <2>1. InHand(g) /\ g # f
    BY <1>1, <1>4 DEF CondemnedIsHandled, InHand
  <2>2. g \notin removing[w]
    BY <1>1, <2>1 DEF OneByOne
  <2> QED
    BY <1>1, <1>2, <2>1, <2>2 DEF InHand
<1> QED
  BY <1>3, <1>4 DEF CondemnedIsHandled, InHand

\* Nothing is put on a list or taken from it.
LEMMA OthersHandle ==
    ASSUME OneByOne, CondemnedIsHandled, condemned' \subseteq condemned,
           UNCHANGED <<toClear, removing, abandoned>>
    PROVE  OneByOne' /\ CondemnedIsHandled'
  BY DEF OneByOne, CondemnedIsHandled

LEMMA LifeStepHandles ==
    OneByOne /\ CondemnedIsHandled /\ [LifeNext]_allVars => OneByOne' /\ CondemnedIsHandled'
<1> SUFFICES ASSUME OneByOne, CondemnedIsHandled, [LifeNext]_allVars
             PROVE  OneByOne' /\ CondemnedIsHandled'
  OBVIOUS
<1>1. ASSUME NEW w \in Workers, NEW C \in SUBSET Cells \ {{}}, NEW S \in SUBSET Forts,
             Receive(w, C, S)
      PROVE  OneByOne' /\ CondemnedIsHandled'
  BY <1>1, OthersHandle DEF Receive, Tick, trackerVars
<1>2. ASSUME NEW w \in Workers, NEW f \in Forts, NEW k \in Kinds, NEW c \in Cells,
             SaveFort(w, f, k, c)
      PROVE  OneByOne' /\ CondemnedIsHandled'
  <2>1. condemned' \subseteq condemned
    BY <1>2 DEF SaveFort, Restore, Confirm, trackerVars
  <2> QED
    BY <1>2, <2>1, OthersHandle DEF SaveFort
<1>3. ASSUME NEW w \in Workers, NEW f \in Forts, SaveFails(w, f)
      PROVE  OneByOne' /\ CondemnedIsHandled'
  BY <1>3, OthersHandle DEF SaveFails, vars, trackerVars
<1>4. ASSUME NEW f \in Forts, Convert(f) \/ \E c \in Cells : Move(f, c)
      PROVE  OneByOne' /\ CondemnedIsHandled'
  BY <1>4, OthersHandle DEF Convert, Move, vars, trackerVars, workVars
<1>5. ASSUME NEW f \in Forts, NEW k \in Kinds, LoadRow(f, k)
      PROVE  OneByOne' /\ CondemnedIsHandled'
  BY <1>5, OthersHandle DEF LoadRow, Register, Confirm, workVars
<1>6. CASE StartServing
  BY <1>6, OthersHandle DEF StartServing, Start, trackerVars, workVars
<1>7. CASE Restart
  BY <1>7 DEF Restart, workVars, OneByOne, CondemnedIsHandled
<1>8. CASE PassTime
  BY <1>8, OthersHandle DEF PassTime, Tick, trackerVars, workVars
<1>9. CASE UNCHANGED allVars
  BY <1>9, OthersHandle DEF allVars, vars, trackerVars, workVars
<1> QED
  BY <1>1, <1>2, <1>3, <1>4, <1>5, <1>6, <1>7, <1>8, <1>9, CheckCellHandles, ClearHandles,
     RemoveClearedHandles DEF LifeNext, Decode

\* A fort that the tracker has returned as stale is on the list of a worker,
\* which marks its record and removes it, or could not be loaded for that: no
\* overlap of GMOs, no conversion, move or restart makes the workers forget it.
THEOREM StaleIsDealtWith == LifeSpec => []CondemnedIsHandled
<1>1. LifeInit => OneByOne /\ CondemnedIsHandled
  BY DEF LifeInit, Init, OneByOne, CondemnedIsHandled
<1> QED
  BY <1>1, LifeStepHandles, PTL DEF LifeSpec

-----------------------------------------------------------------------------
(* FortLifecycle: until a restart the tracker is used as FortTracker says. *)

WorkType ==
    /\ toSave \in [Workers -> SUBSET Forts]
    /\ toScan \in [Workers -> SUBSET Cells]
    /\ toClear = [w \in Workers |-> toClear[w]]
    /\ removing = [w \in Workers |-> removing[w]]
    /\ gmo \in [Workers -> [show : [Cells -> Members], time : {0} \cup Times]]
    /\ row \in [Kinds -> [Forts -> {NoRow} \cup [cell : Cells, deleted : BOOLEAN]]]

\* Who is at work decodes a GMO, after the load.
WorksOnGmo ==
    /\ \A w \in Workers : gmo[w].time = 0 => Idle(w)
    /\ serving \/ AllIdle

\* While the forts are loaded a fort has one row that is not deleted, and is a
\* member of its cell and kind when it has been registered.
LoadsOnce ==
    ~serving =>
        /\ \A f \in Forts : ~(Live("stop", f) /\ Live("gym", f))
        /\ \A f \in Forts : Tracked(f) =>
              \E k \in Kinds : Live(k, f) /\ f \in cells[row[k][f].cell].forts[k]

Sound == Inv /\ WorkType /\ WorksOnGmo /\ LoadsOnce

LEMMA LoadRowLoads ==
    ASSUME Sound, NEW f \in Forts, NEW k \in Kinds, LoadRow(f, k)
    PROVE  ~Tracked(f) /\ row[k][f].cell \in Cells /\ Load(f, k, row[k][f].cell)
<1>1. Live(k, f) /\ f \notin cells[row[k][f].cell].forts[k] /\ ~serving
  BY DEF LoadRow
<1>2. row[k][f].cell \in Cells
  BY <1>1 DEF Sound, WorkType, Live
<1>3. ~Tracked(f)
  <2> SUFFICES ASSUME Tracked(f) PROVE FALSE
    OBVIOUS
  <2>1. PICK j \in Kinds : Live(j, f) /\ f \in cells[row[j][f].cell].forts[j]
    BY <1>1 DEF Sound, LoadsOnce
  <2>2. j # k
    BY <1>1, <2>1
  <2> QED
    BY <1>1, <2>1, <2>2 DEF Sound, LoadsOnce, Kinds
<1> QED
  BY <1>1, <1>2, <1>3 DEF LoadRow, Load

\* Until a restart each step of FortLifecycle is one of FortTracker, or leaves
\* the tracker alone.
LEMMA LifeStepUsesTracker ==
    ASSUME Sound, LifeNext, ~Restart
    PROVE  [Next]_vars
<1>1. ASSUME NEW w \in Workers, ~Idle(w)
      PROVE  serving /\ gmo[w].time \in Times
  BY <1>1 DEF Sound, WorkType, WorksOnGmo, AllIdle
<1>2. ASSUME NEW w \in Workers, NEW f \in Forts, NEW k \in Kinds, NEW c \in Cells,
             SaveFort(w, f, k, c)
      PROVE  [Next]_vars
  <2>1. serving /\ gmo[w].time \in Times
    BY <1>1, <1>2 DEF SaveFort, Idle
  <2>2. CASE row[k][f].deleted
    <3>1. Undelete(f, k, c, gmo[w].time)
      BY <1>2, <2>1, <2>2 DEF SaveFort, Undelete
    <3> QED
      BY <2>1, <3>1 DEF Next
  <2>3. CASE ~row[k][f].deleted
    BY <1>2, <2>3 DEF SaveFort, vars
  <2> QED
    BY <2>2, <2>3
<1>3. ASSUME NEW w \in Workers, NEW c \in Cells, CheckCell(w, c)
      PROVE  [Next]_vars
  <2>1. serving /\ gmo[w].time \in Times
    BY <1>1, <1>3 DEF CheckCell, Idle
  <2>2. gmo[w].show[c] \in Members
    BY DEF Sound, WorkType
  <2>3. Gmo(c, gmo[w].show[c], gmo[w].time)
    BY <1>3, <2>1 DEF CheckCell, Gmo
  <2> QED
    BY <2>1, <2>2, <2>3 DEF Next
<1>4. ASSUME NEW w \in Workers, NEW f \in Forts, RemoveCleared(w, f)
      PROVE  [Next]_vars
  <2>1. serving
    BY <1>1, <1>4 DEF RemoveCleared, Idle
  <2>2. Forget(f)
    BY <1>4, <2>1 DEF RemoveCleared, Forget
  <2> QED
    BY <2>2 DEF Next
<1>5. ASSUME NEW f \in Forts, NEW k \in Kinds, LoadRow(f, k)
      PROVE  [Next]_vars
  BY <1>5, LoadRowLoads DEF Next
<1>6. ASSUME NEW w \in Workers, NEW C \in SUBSET Cells \ {{}}, NEW S \in SUBSET Forts,
             Receive(w, C, S)
      PROVE  [Next]_vars
  BY <1>6 DEF Receive, Next
<1>7. CASE StartServing \/ PassTime
  BY <1>7 DEF StartServing, PassTime, Next
<1>8. ASSUME NEW w \in Workers, NEW f \in Forts, SaveFails(w, f)
      PROVE  UNCHANGED vars
  BY <1>8 DEF SaveFails
<1>9. ASSUME NEW w \in Workers, NEW i, Clear(w, i) \/ ClearFails(w, i)
      PROVE  UNCHANGED vars
  BY <1>9 DEF Clear, ClearFails
<1>10. ASSUME NEW f \in Forts, Convert(f) \/ \E c \in Cells : Move(f, c)
       PROVE  UNCHANGED vars
  BY <1>10 DEF Convert, Move
<1> QED
  BY <1>2, <1>3, <1>4, <1>5, <1>6, <1>7, <1>8, <1>9, <1>10 DEF LifeNext, Decode

LEMMA ReceiveKeeps ==
    ASSUME Sound, NEW w \in Workers, NEW C \in SUBSET Cells \ {{}}, NEW S \in SUBSET Forts,
           Receive(w, C, S)
    PROVE  WorkType' /\ WorksOnGmo' /\ LoadsOnce'
<1>1. now' \in Times /\ now' >= 1
  <2>1. now \in 1 .. MaxTime /\ now < MaxTime /\ now' = now + 1
    BY DEF Sound, Inv, TypeOK, Receive, Tick
  <2> QED
    BY <2>1, ConstantsAssumption, TimeType
<1>2. \A c \in Cells : Showing(S, c) \in Members /\ Nobody \in Members
  BY DEF Showing, Nobody, Members
<1>3. [c \in Cells |-> IF c \in C THEN Showing(S, c) ELSE Nobody] \in [Cells -> Members]
  BY <1>2
<1>4. gmo' \in [Workers -> [show : [Cells -> Members], time : {0} \cup Times]]
      /\ gmo'[w].time = now' /\ \A v \in Workers : v # w => gmo'[v] = gmo[v]
  BY <1>1, <1>3 DEF Sound, WorkType, Receive
<1>5. WorkType'
  BY <1>4 DEF Sound, WorkType, Receive
<1>6. WorksOnGmo'
  <2>1. serving'
    BY DEF Receive, Tick
  <2>2. ASSUME NEW v \in Workers, gmo'[v].time = 0 PROVE Idle(v)'
    <3>1. v # w
      BY <1>1, <1>4, <2>2
    <3>2. Idle(v)
      BY <1>4, <2>2, <3>1 DEF Sound, WorksOnGmo
    <3> QED
      BY <3>1, <3>2 DEF Sound, WorkType, Receive, Idle
  <2> QED
    BY <2>1, <2>2 DEF WorksOnGmo
<1>7. LoadsOnce'
  BY DEF Receive, Tick, LoadsOnce
<1> QED
  BY <1>5, <1>6, <1>7

\* A worker who is at work does a part of it.
LEMMA WorkerKeeps ==
    ASSUME Sound, NEW w \in Workers, ~Idle(w), WorkType', UNCHANGED <<gmo, serving>>,
           \A v \in Workers : v # w /\ Idle(v) => Idle(v)'
    PROVE  WorksOnGmo' /\ LoadsOnce'
<1>1. gmo[w].time # 0 /\ serving
  BY DEF Sound, WorksOnGmo, AllIdle
<1> QED
  BY <1>1 DEF Sound, WorksOnGmo, LoadsOnce

LEMMA SaveFortKeeps ==
    ASSUME Sound, NEW w \in Workers, NEW f \in Forts, NEW k \in Kinds, NEW c \in Cells,
           SaveFort(w, f, k, c)
    PROVE  WorkType' /\ WorksOnGmo' /\ LoadsOnce'
<1>1. row' \in [Kinds -> [Forts -> {NoRow} \cup [cell : Cells, deleted : BOOLEAN]]]
  <2>1. [cell |-> c, deleted |-> FALSE] \in [cell : Cells, deleted : BOOLEAN]
    OBVIOUS
  <2>2. [row[k] EXCEPT ![f] = [cell |-> c, deleted |-> FALSE]]
          \in [Forts -> {NoRow} \cup [cell : Cells, deleted : BOOLEAN]]
    BY <2>1 DEF Sound, WorkType
  <2> QED
    BY <2>2 DEF Sound, WorkType, SaveFort
<1>2. WorkType'
  BY <1>1 DEF Sound, WorkType, SaveFort
<1>3. ~Idle(w)
  BY DEF SaveFort, Idle
<1>4. \A v \in Workers : v # w /\ Idle(v) => Idle(v)'
  BY DEF Sound, WorkType, SaveFort, Idle
<1>5. UNCHANGED <<gmo, serving>>
  BY DEF SaveFort
<1> QED
  BY <1>2, <1>3, <1>4, <1>5, WorkerKeeps

LEMMA SaveFailsKeeps ==
    ASSUME Sound, NEW w \in Workers, NEW f \in Forts, SaveFails(w, f)
    PROVE  WorkType' /\ WorksOnGmo' /\ LoadsOnce'
<1>1. WorkType' /\ ~Idle(w) /\ UNCHANGED <<gmo, serving>>
  BY DEF Sound, WorkType, SaveFails, vars, Idle
<1>2. \A v \in Workers : v # w /\ Idle(v) => Idle(v)'
  BY DEF Sound, WorkType, SaveFails, Idle
<1> QED
  BY <1>1, <1>2, WorkerKeeps

LEMMA CheckCellKeeps ==
    ASSUME Sound, NEW w \in Workers, NEW c \in Cells, CheckCell(w, c)
    PROVE  WorkType' /\ WorksOnGmo' /\ LoadsOnce'
<1>1. /\ toClear' = [toClear EXCEPT ![w] = Orders(result')]
      /\ toScan' = [toScan EXCEPT ![w] = @ \ {c}]
      /\ UNCHANGED <<now, serving, world, row, gmo, toSave, removing, disturbed>>
      /\ c \in toScan[w]
  BY DEF CheckCell
<1>2. WorkType' /\ ~Idle(w)
  BY <1>1 DEF Sound, WorkType, Idle
<1>3. \A v \in Workers : v # w /\ Idle(v) => Idle(v)'
  BY <1>1 DEF Sound, WorkType, Idle
<1> QED
  BY <1>1, <1>2, <1>3, WorkerKeeps

LEMMA MarkedType ==
    ASSUME WorkType, NEW i
    PROVE  Marked(i) \in [Kinds -> [Forts -> {NoRow} \cup [cell : Cells, deleted : BOOLEAN]]]
<1> DEFINE Rows == {NoRow} \cup [cell : Cells, deleted : BOOLEAN]
<1>1. CASE row[i.kind][i.fort] = NoRow
  BY <1>1 DEF Marked, WorkType
<1>2. CASE row[i.kind][i.fort] # NoRow
  <2> DEFINE mark == [row[i.kind][i.fort] EXCEPT !.deleted = TRUE]
             forts2 == [row[i.kind] EXCEPT ![i.fort] = mark]
  <2>1. Marked(i) = [row EXCEPT ![i.kind] = forts2]
    BY <1>2 DEF Marked
  <2>2. ASSUME i.kind \in Kinds, i.fort \in Forts PROVE mark \in Rows
    <3>1. row[i.kind][i.fort] \in Rows
      BY <2>2 DEF WorkType
    <3>2. row[i.kind][i.fort] \in [cell : Cells, deleted : BOOLEAN]
      BY <1>2, <3>1
    <3> QED
      BY <3>2
  <2>3. ASSUME i.kind \in Kinds PROVE forts2 \in [Forts -> Rows]
    <3>1. row[i.kind] \in [Forts -> Rows]
      BY <2>3 DEF WorkType
    <3> QED
      BY <2>2, <2>3, <3>1
  <2> HIDE DEF forts2
  <2> QED
    BY <2>1, <2>3 DEF WorkType
<1> QED
  BY <1>1, <1>2

LEMMA ClearKeeps ==
    ASSUME Sound, NEW w \in Workers, NEW i \in toClear[w], Clear(w, i) \/ ClearFails(w, i)
    PROVE  WorkType' /\ WorksOnGmo' /\ LoadsOnce'
<1>1. row' \in [Kinds -> [Forts -> {NoRow} \cup [cell : Cells, deleted : BOOLEAN]]]
  <2>1. row' = Marked(i) \/ row' = row
    BY DEF Clear, ClearFails
  <2> QED
    BY <2>1, MarkedType DEF Sound, WorkType
<1>2. /\ toClear' = [toClear EXCEPT ![w] = @ \ {i}]
      /\ removing' = [removing EXCEPT ![w] = {i.fort}] \/ removing' = removing
      /\ UNCHANGED <<toSave, toScan, gmo, serving>>
  BY DEF Clear, ClearFails, Done, RemoveIfStale, vars
<1>3. WorkType'
  BY <1>1, <1>2 DEF Sound, WorkType
<1>4. ~Idle(w) /\ \A v \in Workers : v # w /\ Idle(v) => Idle(v)'
  BY <1>2 DEF Sound, WorkType, Idle
<1> QED
  BY <1>2, <1>3, <1>4, WorkerKeeps

LEMMA RemoveClearedKeeps ==
    ASSUME Sound, NEW w \in Workers, NEW f \in Forts, RemoveCleared(w, f)
    PROVE  WorkType' /\ WorksOnGmo' /\ LoadsOnce'
<1>1. WorkType' /\ ~Idle(w) /\ UNCHANGED <<gmo, serving>>
  BY DEF Sound, WorkType, RemoveCleared, Idle
<1>2. \A v \in Workers : v # w /\ Idle(v) => Idle(v)'
  BY DEF Sound, WorkType, RemoveCleared, Idle
<1> QED
  BY <1>1, <1>2, WorkerKeeps

LEMMA WorkUnchanged ==
    UNCHANGED workVars => UNCHANGED <<gmo, toSave, toScan, toClear, removing>>
  BY DEF workVars

LEMMA LoadRowKeeps ==
    ASSUME Sound, NEW f \in Forts, NEW k \in Kinds, LoadRow(f, k)
    PROVE  WorkType' /\ WorksOnGmo' /\ LoadsOnce'
<1>0. PICK c \in Cells : c = row[k][f].cell
  BY LoadRowLoads
<1>1. ~Tracked(f) /\ Load(f, k, c)
  BY <1>0, LoadRowLoads
<1>2. Register(f, k, c, now) /\ now \in Times
  BY <1>1, TimeType DEF Load, Sound, Inv, TypeOK
<1>3. /\ \A d \in Cells, j \in Kinds :
            cells'[d].forts[j] = IF d = c /\ j = k THEN cells[d].forts[j] \cup {f}
                                 ELSE cells[d].forts[j]
      /\ \A g \in Forts \ {f} : forts'[g] = forts[g]
  <2>1. TypeOK
    BY DEF Sound, Inv
  <2> DEFINE members == [cells[c].forts EXCEPT ![k] = @ \cup {f}]
             C == [seen |-> Later(cells[c].seen, now), forts |-> members]
  <2>2. cells' = [cells EXCEPT ![c] = C] /\ forts' = [forts EXCEPT ![f] = Fresh(c, k, now)]
    BY <1>1, <1>2 DEF Register
  <2>3. members \in [Kinds -> SUBSET Forts]
    BY <2>1, CellType DEF Members
  <2>4. \A j \in Kinds : members[j] = IF j = k THEN cells[c].forts[j] \cup {f} ELSE cells[c].forts[j]
    BY <2>1, CellType DEF Members
  <2>5. C.forts = members
    OBVIOUS
  <2> HIDE DEF C, members
  <2>6. \A d \in Cells : cells'[d] = IF d = c THEN C ELSE cells[d]
    BY <2>1, <2>2 DEF TypeOK
  <2>7. \A g \in Forts \ {f} : forts'[g] = forts[g]
    BY <2>1, <2>2 DEF TypeOK
  <2> QED
    BY <2>4, <2>5, <2>6, <2>7
<1>4. /\ ~serving /\ Live(k, f)
      /\ UNCHANGED <<serving, row, gmo, toSave, toScan, toClear, removing>>
      /\ \A j, g : Live(j, g)' = Live(j, g)
  <2>1. UNCHANGED <<serving, row, workVars>>
    BY DEF LoadRow
  <2>2. ~serving /\ Live(k, f)
    BY DEF LoadRow
  <2> QED
    BY <2>1, <2>2, WorkUnchanged DEF Live
<1>5. \A j \in Kinds, g \in Forts : Live(j, g) => row[j][g].cell \in Cells
  BY DEF Sound, WorkType, Live
<1>6. ASSUME NEW g \in Forts, Tracked(g)'
      PROVE  \E j \in Kinds : Live(j, g) /\ g \in cells'[row[j][g].cell].forts[j]
  <2>1. CASE g = f
    BY <1>0, <1>3, <1>4, <2>1
  <2>2. CASE g # f
    <3>1. Tracked(g)
      BY <1>3, <1>6, <2>2 DEF Tracked
    <3>2. PICK j \in Kinds : Live(j, g) /\ g \in cells[row[j][g].cell].forts[j]
      BY <1>4, <3>1 DEF Sound, LoadsOnce
    <3> QED
      BY <1>3, <1>5, <3>2
  <2> QED
    BY <2>1, <2>2
<1>7. LoadsOnce'
  BY <1>4, <1>6 DEF Sound, LoadsOnce
<1> QED
  BY <1>4, <1>7 DEF Sound, WorkType, WorksOnGmo, AllIdle, Idle

\* The load ends, or the world or the clock moves on.
LEMMA OthersKeep ==
    ASSUME Sound, UNCHANGED <<row, gmo, toSave, toScan, toClear, removing>>,
           serving' = TRUE \/ UNCHANGED <<serving, cells, forts>>
    PROVE  WorkType' /\ WorksOnGmo' /\ LoadsOnce'
<1>1. WorkType'
  BY DEF Sound, WorkType
<1>2. \A w \in Workers : Idle(w) => Idle(w)'
  BY DEF Idle
<1>3. WorksOnGmo'
  BY <1>2 DEF Sound, WorksOnGmo, AllIdle
<1>4. LoadsOnce'
  BY DEF Sound, LoadsOnce, Tracked, Live
<1> QED
  BY <1>1, <1>3, <1>4

LEMMA SoundStays ==
    ASSUME Sound, [LifeNext]_allVars, ~Restart
    PROVE  Sound' /\ [Next]_vars
<1>1. [Next]_vars
  BY LifeStepUsesTracker DEF allVars
<1>2. Inv'
  BY <1>1, NextInv DEF Sound
<1>3. ASSUME NEW f \in Forts, Convert(f) \/ \E c \in Cells : Move(f, c)
      PROVE  WorkType' /\ WorksOnGmo' /\ LoadsOnce'
  <2>1. UNCHANGED <<vars, row, workVars>>
    BY <1>3 DEF Convert, Move
  <2> QED
    BY <2>1, WorkUnchanged, OthersKeep DEF vars, trackerVars
<1>4. ASSUME StartServing
      PROVE  WorkType' /\ WorksOnGmo' /\ LoadsOnce'
  <2>1. serving' = TRUE /\ UNCHANGED <<row, workVars>>
    BY <1>4 DEF StartServing, Start
  <2>2. serving' = TRUE /\ UNCHANGED <<row, gmo, toSave, toScan, toClear, removing>>
    BY <2>1, WorkUnchanged
  <2> QED
    BY <2>2, OthersKeep
<1>5. ASSUME PassTime \/ UNCHANGED allVars
      PROVE  WorkType' /\ WorksOnGmo' /\ LoadsOnce'
  <2>1. UNCHANGED <<serving, trackerVars, row, workVars>>
    BY <1>5 DEF PassTime, Tick, allVars, vars
  <2>2. UNCHANGED <<row, gmo, toSave, toScan, toClear, removing>> /\ UNCHANGED <<serving, cells, forts>>
    BY <2>1, WorkUnchanged DEF trackerVars
  <2> QED
    BY <2>2, OthersKeep
<1>6. ASSUME NEW w \in Workers, Decode(w)
      PROVE  WorkType' /\ WorksOnGmo' /\ LoadsOnce'
  BY <1>6, ReceiveKeeps, SaveFortKeeps, SaveFailsKeeps, CheckCellKeeps, ClearKeeps,
     RemoveClearedKeeps DEF Decode
<1>7. WorkType' /\ WorksOnGmo' /\ LoadsOnce'
  BY <1>3, <1>4, <1>5, <1>6, LoadRowKeeps DEF LifeNext
<1> QED
  BY <1>1, <1>2, <1>7 DEF Sound

LEMMA InitSound == LifeInit => Sound
<1> SUFFICES ASSUME LifeInit PROVE Sound
  OBVIOUS
<1>1. Inv
  BY InitInv DEF LifeInit
<1>2. WorkType
  <2>1. Nobody \in Members
    BY DEF Nobody, Members
  <2>2. NoGmo \in [show : [Cells -> Members], time : {0} \cup Times]
    BY <2>1 DEF NoGmo
  <2>3. row \in [Kinds -> [Forts -> {NoRow} \cup [cell : Cells, deleted : BOOLEAN]]]
    <3> DEFINE Rows == {NoRow} \cup [cell : Cells, deleted : BOOLEAN]
               Initial == {NoRow} \cup [cell : Cells, deleted : {FALSE}]
    <3>1. row \in [Kinds -> [Forts -> Initial]] /\ Initial \subseteq Rows
      BY DEF LifeInit
    <3> HIDE DEF Rows, Initial
    <3>2. row \in [Kinds -> [Forts -> Rows]]
      BY <3>1
    <3> QED
      BY <3>2 DEF Rows
  <2> QED
    BY <2>2, <2>3 DEF LifeInit, WorkType
<1>3. WorksOnGmo
  BY DEF LifeInit, WorksOnGmo, AllIdle, Idle
<1>4. LoadsOnce
  <2>1. \A f \in Forts : ~Tracked(f)
    BY DEF LifeInit, Init, Tracked
  <2>2. \A f \in Forts : row["stop"][f] # NoRow => row["gym"][f] = NoRow
    BY KindNames DEF LifeInit
  <2> QED
    BY <2>1, <2>2 DEF LoadsOnce, Live
<1> QED
  BY <1>1, <1>2, <1>3, <1>4 DEF Sound

\* Only a restart counts as one.
LEMMA RestartsCounted == [LifeNext]_allVars /\ ~Restart => restarts' = restarts
  BY DEF LifeNext, Decode, Receive, SaveFort, SaveFails, CheckCell, Clear, ClearFails,
         RemoveCleared, Convert, Move, LoadRow, StartServing, PassTime, counters, allVars

SoundUntilRestart == restarts \in Nat /\ (restarts = 0 => Sound)

LEMMA LifeStepIsSound ==
    SoundUntilRestart /\ [LifeNext]_allVars =>
        SoundUntilRestart' /\ (restarts' > 0 \/ [Next]_vars)
<1> SUFFICES ASSUME SoundUntilRestart, [LifeNext]_allVars
             PROVE  SoundUntilRestart' /\ (restarts' > 0 \/ [Next]_vars)
  OBVIOUS
<1>1. CASE Restart
  BY <1>1 DEF Restart, SoundUntilRestart
<1>2. CASE ~Restart
  BY <1>2, RestartsCounted, SoundStays DEF SoundUntilRestart
<1> QED
  BY <1>1, <1>2

LEMMA LifeStartsSound == LifeInit => Init /\ SoundUntilRestart
<1>1. LifeInit => Init /\ restarts = 0
  BY DEF LifeInit
<1> QED
  BY <1>1, InitSound DEF SoundUntilRestart

\* Until the first restart, and for forts that convert, move, fail to load and
\* are decoded by any number of workers, the workers use the tracker as
\* FortTracker says: the theorems above are theorems about Golbat until then.
THEOREM WorkersUseTracker == LifeSpec => UsesTracker
<1>1. SoundUntilRestart /\ [LifeNext]_allVars =>
         SoundUntilRestart' /\ [restarts' > 0 \/ [Next]_vars]_allVars
  BY LifeStepIsSound
<1> QED
  BY <1>1, LifeStartsSound, PTL DEF LifeSpec, UsesTracker

\* And so, with the workers at work, no fort is an orphan or forgotten, no cell
\* refuses its GMOs for ever, and no fort stays longer than it may.
THEOREM WorkersKeepTrackerRight ==
    LifeSpec => [](restarts = 0 => NoOrphans /\ NothingForgotten /\ NeverWedged /\ NoOverstay)
<1>1. SoundUntilRestart =>
         (restarts = 0 => NoOrphans /\ NothingForgotten /\ NeverWedged /\ NoOverstay)
  BY DEF SoundUntilRestart, Sound, Inv
<1> QED
  BY <1>1, LifeStepIsSound, LifeStartsSound, PTL DEF LifeSpec

-----------------------------------------------------------------------------
(* FortLifecycle: the tracker and the records agree between GMOs.  The one  *)
(* worker who is at work is followed through its GMO, fort by fort; nothing *)
(* of this ends with a restart.                                             *)

Quiet == ~disturbed /\ moves = 0 /\ conversions <= 1

WorldType ==
    /\ world \in [Forts -> [kind : Kinds, cell : Cells]]
    /\ conversions \in Nat /\ moves \in Nat /\ disturbed \in BOOLEAN

Shows(w, f, k) == f \in gmo[w].show[world[f].cell][k]

Agrees(f) == \A k \in Kinds : Live(k, f) <=> Tracked(f) /\ forts[f].kind = k

\* A fort that has a record as what it is now is not left as what it was.
Single(f) == row[world[f].kind][f] # NoRow => ~Live(Other(world[f].kind), f)

Settled(f) == Agrees(f) /\ Single(f)

InPlace ==
    \A f \in Forts :
        /\ Tracked(f) => forts[f].cell = world[f].cell
        /\ \A k \in Kinds : row[k][f] # NoRow =>
              /\ row[k][f].cell = world[f].cell
              /\ conversions = 0 => k = world[f].kind

Alone == \A v, w \in Workers : Idle(v) \/ Idle(w) \/ v = w

ScansArePast == \A c \in Cells : cells[c].seen <= now

\* What w decodes shows the forts where they are, each once, and as what they
\* were before the conversion only if no record has been made since.
GmoIsRight(w) ==
    /\ \A c \in Cells, k \in Kinds : \A f \in gmo[w].show[c][k] :
          /\ c = world[f].cell
          /\ f \notin gmo[w].show[c][Other(k)]
          /\ k # world[f].kind => conversions # 0 /\ row[world[f].kind][f] = NoRow
    /\ \A f \in toSave[w] : \E k \in Kinds : Shows(w, f, k)
    /\ toSave[w] # {} =>
          /\ toClear[w] = {} /\ removing[w] = {}
          /\ \A f \in Forts, k \in Kinds : Shows(w, f, k) => world[f].cell \in toScan[w]
    /\ \A c \in toScan[w] : cells[c].seen < gmo[w].time
    /\ gmo[w].time <= now
    /\ \A i \in toClear[w] : i.fort \in Forts

\* A fort that the GMO does not show: settled, or stale and on its way out.
Unseen(w, f) ==
    /\ Single(f)
    /\ f \notin removing[w] => Agrees(f)
    /\ f \in removing[w] => \A k \in Kinds : ~Live(k, f)
    /\ \A i \in toClear[w] : i.fort = f =>
          /\ i = Item(f, i.kind, TRUE) /\ i.kind \in Kinds /\ Live(i.kind, f)
          /\ f \notin removing[w]

\* A fort that the GMO shows as k: settled until it is saved; then live as k;
\* once its cell has been scanned, tracked as k, with the other record on the
\* list if that is still live.
SeenAs(w, f, k) ==
    /\ f \notin removing[w]
    /\ \A i \in toClear[w] : i.fort = f =>
          i = Item(f, Other(k), FALSE) /\ world[f].cell \notin toScan[w]
    /\ f \in toSave[w] => Settled(f)
    /\ f \notin toSave[w] =>
          /\ Live(k, f)
          /\ world[f].cell \in toScan[w] =>
                (Live(Other(k), f) <=> Tracked(f) /\ forts[f].kind = Other(k))
          /\ world[f].cell \notin toScan[w] =>
                /\ Tracked(f) /\ forts[f].kind = k
                /\ Live(Other(k), f) => Item(f, Other(k), FALSE) \in toClear[w]

Follows(w, f) ==
    /\ (\A k \in Kinds : ~Shows(w, f, k)) => Unseen(w, f)
    /\ \A k \in Kinds : Shows(w, f, k) => SeenAs(w, f, k)

Followed(w) == GmoIsRight(w) /\ \A f \in Forts : Follows(w, f)

Steady ==
    /\ InPlace /\ Alone /\ ScansArePast
    /\ \A w \in Workers : ~Idle(w) => Followed(w)
    /\ serving /\ AllIdle => \A f \in Forts : Settled(f)
    /\ ~serving => \A f \in Forts : Single(f)

LEMMA OtherIs ==
    \A k \in Kinds : /\ Other(k) \in Kinds /\ Other(k) # k /\ Other(Other(k)) = k
                     /\ \A j \in Kinds : j = k \/ j = Other(k)
  BY DEF Other, Kinds

\* A worker who is at work does a part of it.
LEMMA WorkerStaysSteady ==
    ASSUME Steady, WorkType', WorldType', NEW w \in Workers, ~Idle(w), serving' = serving,
           serving, \A v \in Workers : v # w /\ Idle(v) => Idle(v)',
           InPlace', ScansArePast', Followed(w)'
    PROVE  Steady'
<1>1. \A v \in Workers : v # w => Idle(v)'
  BY DEF Steady, Alone
<1>2. Alone'
  BY <1>1 DEF Alone
<1>3. ASSUME AllIdle', NEW f \in Forts PROVE Settled(f)'
  <2>1. toSave'[w] = {} /\ toScan'[w] = {} /\ toClear'[w] = {} /\ removing'[w] = {}
    BY <1>3 DEF AllIdle, Idle
  <2>2. Follows(w, f)' /\ GmoIsRight(w)'
    BY DEF Followed
  <2>3. CASE \A k \in Kinds : ~Shows(w, f, k)'
    BY <2>1, <2>2, <2>3 DEF Follows, Unseen, Settled
  <2>4. ASSUME NEW k \in Kinds, Shows(w, f, k)' PROVE Settled(f)'
    <3>1. /\ Live(k, f)' /\ Tracked(f)' /\ forts'[f].kind = k
          /\ ~Live(Other(k), f)'
      BY <2>1, <2>2, <2>4 DEF Follows, SeenAs
    <3>2. Agrees(f)'
      BY <3>1, OtherIs DEF Agrees
    <3>3. world'[f].kind \in Kinds /\ world'[f].cell \in Cells
      BY DEF WorldType
    <3>4. Single(f)'
      <4>1. CASE k = world'[f].kind
        BY <3>1, <4>1 DEF Single
      <4>2. CASE k # world'[f].kind
        BY <2>2, <2>4, <3>3, <4>2 DEF GmoIsRight, Shows, Single
      <4> QED
        BY <4>1, <4>2
    <3> QED
      BY <3>2, <3>4 DEF Settled
  <2> QED
    BY <2>3, <2>4
<1> QED
  BY <1>1, <1>2, <1>3 DEF Steady

LEMMA ReceiveSteady ==
    ASSUME Steady, Sound, WorldType, Sound', ~disturbed', NEW w \in Workers,
           NEW C \in SUBSET Cells \ {{}}, NEW S \in SUBSET Forts, Receive(w, C, S)
    PROVE  Steady'
<1>1. /\ serving /\ AllIdle /\ serving' = serving /\ now' = now + 1 /\ now \in Nat
      /\ UNCHANGED <<world, row, toClear, removing, conversions, cells, forts>>
  <2>1. AllIdle
    <3>1. disturbed' = (disturbed \/ ~AllIdle)
      BY DEF Receive
    <3> QED
      BY <3>1, Zenon
  <2>2. now \in Nat
    BY DEF Sound, Inv, TypeOK
  <2> QED
    BY <2>1, <2>2 DEF Receive, Tick, trackerVars, counters
<1>2. \A f \in Forts : Settled(f)
  BY <1>1 DEF Steady
<1> DEFINE shows == [c \in Cells |-> IF c \in C THEN Showing(S, c) ELSE Nobody]
<1>3. /\ gmo'[w].show = shows /\ gmo'[w].time = now'
      /\ toSave'[w] = {f \in S : world[f].cell \in C}
      /\ toScan'[w] = C
      /\ \A v \in Workers : v # w => toSave'[v] = toSave[v] /\ toScan'[v] = toScan[v]
  BY DEF Receive, Sound, WorkType
<1>4. \A v \in Workers : v # w => Idle(v)'
  BY <1>1, <1>3 DEF AllIdle, Idle
<1>5. toClear'[w] = {} /\ removing'[w] = {}
  BY <1>1 DEF AllIdle, Idle
<1>6. ASSUME NEW c \in Cells, NEW k \in Kinds, NEW f
      PROVE  f \in shows[c][k] <=>
                c \in C /\ f \in S /\ world[f].kind = k /\ world[f].cell = c
  <2>1. shows[c][k] = IF c \in C THEN {g \in S : world[g] = [kind |-> k, cell |-> c]} ELSE {}
    BY DEF Showing, Nobody
  <2>2. ASSUME f \in S
        PROVE  world[f] = [kind |-> k, cell |-> c] <=> world[f].kind = k /\ world[f].cell = c
    <3>1. PICK r \in [kind : Kinds, cell : Cells] : r = world[f]
      BY <2>2 DEF WorldType
    <3>2. r = [kind |-> r.kind, cell |-> r.cell]
      OBVIOUS
    <3> QED
      BY <3>1, <3>2
  <2> HIDE DEF shows
  <2> QED
    BY <2>1, <2>2
<1> HIDE DEF shows
<1>7. \A f \in Forts, k \in Kinds :
         Shows(w, f, k)' <=> f \in S /\ world[f].cell \in C /\ k = world[f].kind
  <2> TAKE f \in Forts, k \in Kinds
  <2>1. world[f].cell \in Cells
    BY DEF WorldType
  <2> QED
    BY <1>1, <1>3, <1>6, <2>1 DEF Shows
<1>8. GmoIsRight(w)'
  <2>1. ASSUME NEW c \in Cells, NEW k \in Kinds, NEW f \in shows[c][k]
        PROVE  c = world[f].cell /\ f \notin shows[c][Other(k)] /\ k = world[f].kind
    <3>1. Other(k) \in Kinds /\ Other(k) # k
      BY OtherIs
    <3> QED
      BY <1>6, <2>1, <3>1
  <2>2. \A f \in toSave'[w] : f \in Forts /\ world[f].kind \in Kinds
    BY <1>3 DEF WorldType
  <2>3. \A f \in toSave'[w] : \E k \in Kinds : Shows(w, f, k)'
    BY <1>3, <1>7, <2>2
  <2>4. \A c \in Cells : cells'[c].seen < now'
    BY <1>1 DEF Steady, ScansArePast, Sound, Inv, TypeOK, Times
  <2> QED
    BY <1>1, <1>3, <1>5, <1>7, <2>1, <2>3, <2>4 DEF GmoIsRight
<1>9. ASSUME NEW f \in Forts PROVE Settled(f)' /\ Follows(w, f)'
  <2>1. Settled(f)'
    BY <1>1, <1>2 DEF Settled, Agrees, Single, Live, Tracked
  <2>2. \A k \in Kinds : Shows(w, f, k)' => f \in toSave'[w]
    BY <1>3, <1>7
  <2> QED
    BY <1>5, <2>1, <2>2 DEF Follows, Unseen, SeenAs, Settled
<1>10. InPlace' /\ ScansArePast'
  <2>1. ScansArePast'
    BY <1>1 DEF Steady, ScansArePast, Sound, Inv, TypeOK, Times
  <2>2. InPlace'
    BY <1>1 DEF Steady, InPlace, Tracked
  <2> QED
    BY <2>1, <2>2
<1>11. Alone'
  BY <1>4 DEF Alone
<1> QED
  BY <1>1, <1>4, <1>8, <1>9, <1>10, <1>11 DEF Steady, Followed

LEMMA SaveFortSteady ==
    ASSUME Steady, Sound, WorldType, WorkType', WorldType', NEW w \in Workers,
           NEW f \in Forts, NEW k \in Kinds, NEW c \in Cells, SaveFort(w, f, k, c)
    PROVE  Steady'
<1> DEFINE j == Other(k)
<1>0. j \in Kinds /\ j # k /\ Other(j) = k /\ \A i \in Kinds : i = k \/ i = j
  BY OtherIs
<1> HIDE DEF j
<1>1. /\ f \in toSave[w] /\ f \in gmo[w].show[c][k]
      /\ toSave'[w] = toSave[w] \ {f} /\ \A v \in Workers : v # w => toSave'[v] = toSave[v]
      /\ UNCHANGED <<now, serving, world, gmo, toScan, toClear, removing, conversions>>
  BY DEF SaveFort, Sound, WorkType, counters
<1>2. /\ ~Idle(w) /\ serving /\ \A v \in Workers : v # w /\ Idle(v) => Idle(v)'
  <2>1. ~Idle(w)
    BY <1>1 DEF Idle
  <2> QED
    BY <1>1, <2>1 DEF Idle, AllIdle, Sound, WorksOnGmo
<1>3. GmoIsRight(w) /\ \A g \in Forts : Follows(w, g)
  BY <1>2 DEF Steady, Followed
<1>4. c = world[f].cell /\ Shows(w, f, k) /\ ~Shows(w, f, j)
  BY <1>1, <1>3 DEF GmoIsRight, Shows, j
<1>5. /\ c \in toScan[w] /\ toClear[w] = {} /\ removing[w] = {}
      /\ \A g \in Forts, i \in Kinds : Shows(w, g, i) => world[g].cell \in toScan[w]
  BY <1>1, <1>3, <1>4 DEF GmoIsRight
<1>6. Settled(f)
  BY <1>1, <1>3, <1>4 DEF Follows, SeenAs
<1>7. /\ row'[k][f] = [cell |-> c, deleted |-> FALSE]
      /\ row'[j][f] = row[j][f]
      /\ \A i \in Kinds, g \in Forts : g # f => row'[i][g] = row[i][g]
  BY <1>0 DEF SaveFort, Sound, WorkType
<1>8. Live(k, f)' /\ (Live(j, f)' <=> Live(j, f))
      /\ \A i \in Kinds, g \in Forts : g # f => Live(i, g)' = Live(i, g)
  <2>1. [cell |-> c, deleted |-> FALSE] # NoRow
    BY CellsAssumption DEF NoRow
  <2> QED
    BY <1>0, <1>7, <2>1 DEF Live
<1>9. /\ forts'[f] = forts[f] \/ forts'[f] = Fresh(c, k, gmo[w].time)
      /\ row[k][f].deleted => forts'[f] = Fresh(c, k, gmo[w].time)
      /\ ~row[k][f].deleted => forts'[f] = forts[f]
      /\ \A g \in Forts : g # f => forts'[g] = forts[g]
      /\ \A d \in Cells : cells'[d].seen = cells[d].seen
  <2>1. gmo[w].time \in Times
    BY <1>2 DEF Sound, WorkType, WorksOnGmo
  <2>2. CASE row[k][f].deleted
    <3>1. Restore(f, k, c, gmo[w].time)
      BY <2>2 DEF SaveFort
    <3> QED
      BY <2>1, <2>2, <3>1, RestoreEffect DEF Sound, Inv
  <2>3. CASE ~row[k][f].deleted
    BY <2>3 DEF SaveFort, trackerVars
  <2> QED
    BY <2>2, <2>3
<1>10. ScansArePast'
  BY <1>1, <1>9 DEF Steady, ScansArePast
<1>11. InPlace'
  <2>1. \A g \in Forts : Tracked(g)' => forts'[g].cell = world[g].cell
    BY <1>4, <1>9 DEF Steady, InPlace, Tracked, Fresh
  <2>2. conversions = 0 => k = world[f].kind
    BY <1>1, <1>3 DEF GmoIsRight
  <2>3. ASSUME NEW g \in Forts, NEW i \in Kinds, row'[i][g] # NoRow
        PROVE  row'[i][g].cell = world[g].cell /\ (conversions = 0 => i = world[g].kind)
    <3>1. CASE g = f /\ i = k
      BY <1>4, <1>7, <2>2, <3>1
    <3>2. CASE ~(g = f /\ i = k)
      <4>1. row'[i][g] = row[i][g]
        BY <1>0, <1>7, <3>2
      <4> QED
        BY <2>3, <4>1 DEF Steady, InPlace
    <3> QED
      BY <3>1, <3>2
  <2> QED
    BY <1>1, <2>1, <2>3 DEF InPlace
<1>12. GmoIsRight(w)'
  <2>1. ASSUME NEW d \in Cells, NEW i \in Kinds, NEW g \in gmo[w].show[d][i], i # world[g].kind
        PROVE  conversions # 0 /\ row'[world[g].kind][g] = NoRow
    <3>1. g \in Forts /\ world[g].kind \in Kinds
      BY DEF Sound, WorkType, WorldType, Members
    <3>2. d = world[g].cell /\ conversions # 0 /\ row[world[g].kind][g] = NoRow
      BY <1>3, <2>1 DEF GmoIsRight
    <3>3. g = f => i = k
      BY <1>0, <1>4, <2>1, <3>2 DEF Shows
    <3> QED
      BY <1>0, <1>7, <2>1, <3>1, <3>2, <3>3
  <2>2. \A g, i : Shows(w, g, i)' = Shows(w, g, i)
    BY <1>1 DEF Shows
  <2> QED
    BY <1>1, <1>3, <1>5, <1>9, <2>1, <2>2 DEF GmoIsRight, Sound, WorkType
<1>13. ASSUME NEW g \in Forts, g # f PROVE Follows(w, g)'
  <2>1. /\ Agrees(g)' = Agrees(g) /\ Single(g)' = Single(g)
        /\ \A i \in Kinds : Shows(w, g, i)' = Shows(w, g, i)
    <3>1. world[g].kind \in Kinds /\ Other(world[g].kind) \in Kinds
      BY OtherIs DEF WorldType
    <3> QED
      BY <1>1, <1>7, <1>8, <1>9, <1>13, <3>1 DEF Agrees, Single, Shows, Tracked
  <2>2. Unseen(w, g) => Unseen(w, g)'
    BY <1>1, <1>5, <1>8, <1>13, <2>1 DEF Unseen
  <2>3. \A i \in Kinds : SeenAs(w, g, i) => SeenAs(w, g, i)'
    BY <1>1, <1>5, <1>8, <1>9, <1>13, <2>1, OtherIs DEF SeenAs, Settled, Tracked
  <2> QED
    BY <1>3, <2>1, <2>2, <2>3 DEF Follows
<1>14. Follows(w, f)'
  <2>1. Shows(w, f, k)' /\ ~Shows(w, f, j)'
    BY <1>1, <1>4 DEF Shows
  <2>2. Live(j, f)' <=> Tracked(f)' /\ forts'[f].kind = j
    <3>1. CASE ~row[k][f].deleted
      BY <1>0, <1>6, <1>8, <1>9, <3>1 DEF Settled, Agrees, Tracked
    <3>2. CASE row[k][f].deleted
      <4>1. row[k][f] # NoRow
        BY <3>2 DEF NoRow
      <4>2. world[f].kind \in Kinds /\ c \in Cells
        BY DEF WorldType
      <4>3. ~Live(j, f)
        <5>1. CASE k = world[f].kind
          BY <1>6, <4>1, <5>1 DEF Settled, Single, j
        <5>2. CASE k # world[f].kind
          <6>1. row[world[f].kind][f] = NoRow
            BY <1>1, <1>3, <5>2 DEF GmoIsRight
          <6> QED
            BY <1>0, <4>2, <5>2, <6>1 DEF Live
        <5> QED
          BY <5>1, <5>2
      <4> QED
        BY <1>0, <1>8, <1>9, <3>2, <4>3 DEF Fresh
    <3> QED
      BY <3>1, <3>2
  <2>3. SeenAs(w, f, k)'
    BY <1>1, <1>4, <1>5, <1>8, <2>2 DEF SeenAs, j
  <2> QED
    BY <1>0, <2>1, <2>3 DEF Follows
<1> QED
  BY <1>1, <1>2, <1>10, <1>11, <1>12, <1>13, <1>14, WorkerStaysSteady DEF Followed

\* What a worker is told to do after a scan: stale forts were members of the
\* cell and are not shown, converted ones are shown as what they were not.
LEMMA OrderIs ==
    ASSUME TypeOK, NoOrphans, NEW c \in Cells, NEW show \in Members, NEW t \in Times,
           NEW i \in Orders(Verdict(c, show, t))
    PROVE  /\ i.fort \in Forts
           /\ \/ /\ i = Item(i.fort, i.kind, TRUE) /\ i.kind \in Kinds
                 /\ i.fort \in cells[c].forts[i.kind] /\ i.fort \notin Shown(show)
              \/ /\ i.fort \in Shown(show)
                 /\ i = Item(i.fort, Other(KindShown(i.fort, show)), FALSE)
<1> DEFINE r == Verdict(c, show, t)
           Old(k) == {Item(g, k, TRUE) : g \in r.stale[k]}
           New(k) == {Item(g, Other(k), FALSE) : g \in r.converted[k]}
<1>1. Orders(r) = UNION {Old(k) \cup New(k) : k \in Kinds}
  BY Zenon DEF Orders
<1> HIDE DEF Old, New
<1>2. PICK k \in Kinds : i \in Old(k) \/ i \in New(k)
  <2>1. PICK T \in {Old(k) \cup New(k) : k \in Kinds} : i \in T
    BY <1>1, Zenon
  <2> QED
    BY <2>1
<1>3. CASE i \in Old(k)
  <2>1. PICK g \in r.stale[k] : i = Item(g, k, TRUE)
    BY <1>3 DEF Old
  <2>2. g \in Stale(c, show, t, k)
    BY <2>1 DEF Verdict, Nobody
  <2>3. g \in cells[c].forts[k] /\ g \notin Shown(show)
    BY <2>2, StaleIs
  <2>4. i.fort = g /\ i.kind = k
    BY <2>1 DEF Item
  <2> QED
    BY <2>1, <2>3, <2>4, CellType
<1>4. CASE i \in New(k)
  <2>1. PICK g \in r.converted[k] : i = Item(g, Other(k), FALSE)
    BY <1>4 DEF New
  <2>2. g \in Current(show)[k]
    BY <2>1 DEF Verdict, Converted
  <2>3. g \in Shown(show) /\ KindShown(g, show) = k /\ g \in Forts
    BY <2>2, CurrentIs
  <2>4. i.fort = g
    BY <2>1 DEF Item
  <2> QED
    BY <2>1, <2>3, <2>4
<1> QED
  BY <1>2, <1>3, <1>4

LEMMA ConvertedIsOrdered ==
    ASSUME NEW c \in Cells, NEW show \in Members, NEW t \in Times, NEW f \in Shown(show),
           Tracked(f), forts[f].kind # KindShown(f, show)
    PROVE  Item(f, Other(KindShown(f, show)), FALSE) \in Orders(Verdict(c, show, t))
<1> DEFINE r == Verdict(c, show, t)
           k == KindShown(f, show)
           Old(j) == {Item(g, j, TRUE) : g \in r.stale[j]}
           New(j) == {Item(g, Other(j), FALSE) : g \in r.converted[j]}
<1>1. Orders(r) = UNION {Old(j) \cup New(j) : j \in Kinds}
  BY Zenon DEF Orders
<1>2. k \in Kinds /\ f \in r.converted[k]
  BY CurrentIs, KindNames DEF Verdict, Converted
<1>3. Item(f, Other(k), FALSE) \in New(k)
  BY <1>2
<1> HIDE DEF Old, New, r, k
<1>4. Old(k) \cup New(k) \in {Old(j) \cup New(j) : j \in Kinds}
  BY <1>2, Zenon
<1>5. Item(f, Other(k), FALSE) \in Orders(r)
  BY <1>1, <1>3, <1>4
<1> QED
  BY <1>5 DEF r, k

LEMMA CheckCellSteady ==
    ASSUME Steady, Sound, WorldType, WorkType', WorldType', NEW w \in Workers, NEW c \in Cells,
           CheckCell(w, c)
    PROVE  Steady'
<1> DEFINE show == gmo[w].show[c]
           t == gmo[w].time
<1>1. /\ c \in toScan[w] /\ toSave[w] = {} /\ toClear[w] = {} /\ removing[w] = {}
      /\ toClear'[w] = Orders(result')
      /\ \A v \in Workers : v # w => toClear'[v] = toClear[v] /\ toScan'[v] = toScan[v]
      /\ toScan'[w] = toScan[w] \ {c}
      /\ UNCHANGED <<now, serving, world, row, gmo, toSave, removing, conversions>>
      /\ ProcessCellUpdate(c, show, t) \/ RefuseCellUpdate(c, t)
  BY DEF CheckCell, Sound, WorkType, counters
<1>2. /\ ~Idle(w) /\ serving /\ \A v \in Workers : v # w /\ Idle(v) => Idle(v)'
  <2>1. ~Idle(w)
    BY <1>1 DEF Idle
  <2> QED
    BY <1>1, <2>1 DEF Idle, AllIdle, Sound, WorksOnGmo
<1>3. GmoIsRight(w) /\ \A g \in Forts : Follows(w, g)
  BY <1>2 DEF Steady, Followed
<1>4. TypeOK /\ NoOrphans /\ show \in Members /\ t \in Times
  BY <1>2 DEF Sound, Inv, WorkType, WorksOnGmo
<1>5. cells[c].seen < t /\ t <= now
  BY <1>1, <1>3 DEF GmoIsRight
<1>6. ProcessCellUpdate(c, show, t)
  <2> HIDE DEF t, show
  <2>1. t \in Nat /\ now \in Nat /\ cells[c].seen \in Nat
    <3>1. t \in Nat
      BY <1>4, TimeType
    <3>2. now \in Nat
      BY <1>4 DEF TypeOK
    <3>3. cells[c].seen \in {0} \cup Times
      BY <1>4, CellType
    <3>4. \A s \in {0} \cup Times : s \in Nat
      BY TimeType
    <3> QED
      BY <3>1, <3>2, <3>3, <3>4
  <2>2. Plausible(t) /\ ~Outdated(c, t)
    BY <1>5, <2>1, ConstantsAssumption DEF Plausible, Outdated
  <2> QED
    BY <1>1, <2>2 DEF RefuseCellUpdate
<1> HIDE DEF show, t
<1>7. /\ cells'[c].seen = t
      /\ \A d \in Cells \ {c} : cells'[d].seen = cells[d].seen
  BY <1>4, <1>6, ProcessCells DEF ProcessCellUpdate
<1>8. /\ \A f \in Shown(show) : forts'[f] = Fresh(c, KindShown(f, show), t)
      /\ \A f \in Forts \ (Shown(show) \cup NotShown(show, c)) : forts'[f] = forts[f]
      /\ \A f \in NotShown(show, c) :
            /\ f \notin Shown(show) /\ Tracked(f) /\ forts[f].cell = c /\ Tracked(f)'
            /\ forts'[f].cell = forts[f].cell /\ forts'[f].kind = forts[f].kind
  BY <1>4, <1>6, ProcessForts DEF ProcessCellUpdate, Tracked
<1>9. toClear'[w] = Orders(Verdict(c, show, t))
  BY <1>1, <1>6 DEF ProcessCellUpdate
<1>10. \A f, k : Shows(w, f, k)' = Shows(w, f, k)
  BY <1>1 DEF Shows
<1>11. \A k, f : Live(k, f)' = Live(k, f)
  BY <1>1 DEF Live
<1>12. ASSUME NEW f \in Shown(show)
       PROVE  /\ f \in Forts /\ c = world[f].cell
              /\ KindShown(f, show) \in Kinds /\ Shows(w, f, KindShown(f, show))
              /\ \A k \in Kinds : Shows(w, f, k) => k = KindShown(f, show)
  <2>1. f \in Forts /\ KindShown(f, show) \in Kinds
    BY <1>4, CurrentIs, KindNames
  <2>2. f \in show[KindShown(f, show)]
    BY DEF Shown, KindShown
  <2>3. c = world[f].cell /\ f \notin show[Other(KindShown(f, show))]
    BY <1>3, <2>1, <2>2 DEF GmoIsRight, show
  <2> QED
    BY <2>1, <2>2, <2>3, OtherIs DEF Shows, show
<1>13. ASSUME NEW f \in Forts, NEW k \in Kinds, Shows(w, f, k), c = world[f].cell
       PROVE  f \in Shown(show)
  <2>1. f \in show[k]
    BY <1>13 DEF Shows, show
  <2> QED
    BY <2>1 DEF Shown, Kinds
<1>14. InPlace'
  <2>1. ASSUME NEW f \in Forts, Tracked(f)' PROVE forts'[f].cell = world[f].cell
    <3>1. CASE f \in Shown(show)
      <4>1. c = world[f].cell /\ KindShown(f, show) \in Kinds
        BY <1>12, <3>1
      <4>2. forts'[f] = Fresh(c, KindShown(f, show), t)
        BY <1>8, <3>1
      <4> QED
        BY <1>4, <4>1, <4>2, FreshType
    <3>2. CASE f \in NotShown(show, c)
      BY <1>8, <3>2 DEF Steady, InPlace
    <3>3. CASE f \notin Shown(show) /\ f \notin NotShown(show, c)
      BY <1>8, <2>1, <3>3 DEF Steady, InPlace, Tracked
    <3> QED
      BY <3>1, <3>2, <3>3
  <2> QED
    BY <1>1, <2>1 DEF Steady, InPlace
<1>15. ScansArePast'
  BY <1>1, <1>5, <1>7 DEF Steady, ScansArePast
<1>16. GmoIsRight(w)'
  <2>1. \A d \in toScan'[w] : d \in Cells /\ cells'[d].seen < gmo[w].time
    BY <1>1, <1>3, <1>7 DEF GmoIsRight, Sound, WorkType
  <2>2. \A i \in toClear'[w] : i.fort \in Forts
    BY <1>4, <1>9, OrderIs
  <2> QED
    BY <1>1, <1>3, <2>1, <2>2 DEF GmoIsRight
<1>17. ASSUME NEW f \in Forts, \A k \in Kinds : ~Shows(w, f, k)
       PROVE  Unseen(w, f)'
  <2>1. Unseen(w, f) /\ f \notin Shown(show)
    BY <1>3, <1>12, <1>17 DEF Follows
  <2>2. Agrees(f) /\ Agrees(f)'
    BY <1>1, <1>8, <1>11, <2>1 DEF Unseen, Agrees, Tracked
  <2>3. ASSUME NEW i \in toClear'[w], i.fort = f
        PROVE  i = Item(f, i.kind, TRUE) /\ i.kind \in Kinds /\ Live(i.kind, f)
    <3>1. i = Item(f, i.kind, TRUE) /\ i.kind \in Kinds /\ f \in cells[c].forts[i.kind]
      BY <1>4, <1>9, <2>1, <2>3, OrderIs
    <3>2. Tracked(f) /\ forts[f].kind = i.kind
      BY <1>4, <3>1 DEF NoOrphans
    <3> QED
      BY <2>2, <3>1, <3>2 DEF Agrees
  <2> QED
    BY <1>1, <1>11, <2>1, <2>2, <2>3 DEF Unseen, Single
<1>18. ASSUME NEW f \in Forts, NEW k \in Kinds, Shows(w, f, k)
       PROVE  SeenAs(w, f, k)'
  <2>1. SeenAs(w, f, k)
    BY <1>3, <1>18 DEF Follows
  <2>2. Live(k, f)
    BY <1>1, <2>1 DEF SeenAs
  <2>3. CASE c = world[f].cell
    <3>1. f \in Shown(show) /\ k = KindShown(f, show)
      BY <1>12, <1>13, <1>18, <2>3
    <3>2. Tracked(f)' /\ forts'[f].kind = k
      BY <1>4, <1>8, <3>1, <2>3, FreshType DEF Tracked
    <3>3. Live(Other(k), f) => Item(f, Other(k), FALSE) \in toClear'[w]
      <4>1. Live(Other(k), f) => Tracked(f) /\ forts[f].kind # k
        BY <1>1, <2>1, <2>3, OtherIs DEF SeenAs
      <4> QED
        BY <1>4, <1>9, <3>1, <4>1, ConvertedIsOrdered
    <3>4. \A i \in toClear'[w] : i.fort = f => i = Item(f, Other(k), FALSE)
      BY <1>4, <1>9, <3>1, OrderIs
    <3> QED
      BY <1>1, <1>11, <2>2, <2>3, <3>2, <3>3, <3>4 DEF SeenAs
  <2>4. CASE c # world[f].cell
    <3>1. f \notin Shown(show) /\ f \notin NotShown(show, c)
      BY <1>8, <1>12, <2>4 DEF Steady, InPlace
    <3>2. forts'[f] = forts[f]
      BY <1>8, <3>1
    <3>3. \A i \in toClear'[w] : i.fort # f
      <4>1. \A j \in Kinds : f \notin cells[c].forts[j]
        BY <1>4, <2>4 DEF NoOrphans, Steady, InPlace
      <4>2. ASSUME NEW i \in Orders(Verdict(c, show, t)), i.fort = f PROVE FALSE
        <5>1. \/ i.kind \in Kinds /\ f \in cells[c].forts[i.kind]
              \/ f \in Shown(show)
          BY <1>4, <4>2, OrderIs
        <5> QED
          BY <3>1, <4>1, <5>1
      <4> QED
        BY <1>9, <4>2
    <3> QED
      BY <1>1, <1>11, <2>1, <2>2, <2>4, <3>2, <3>3 DEF SeenAs, Tracked
  <2> QED
    BY <2>3, <2>4
<1>19. \A f \in Forts : Follows(w, f)'
  BY <1>10, <1>17, <1>18 DEF Follows
<1> QED
  BY <1>1, <1>2, <1>14, <1>15, <1>16, <1>19, WorkerStaysSteady DEF Followed

\* A record is marked: it is no longer live, and nothing else changes.
LEMMA MarkedIs ==
    ASSUME WorkType, NEW i, i.kind \in Kinds, i.fort \in Forts, row' = Marked(i)
    PROVE  \A k \in Kinds, f \in Forts :
              /\ Live(k, f)' <=> Live(k, f) /\ ~(k = i.kind /\ f = i.fort)
              /\ row'[k][f] = NoRow <=> row[k][f] = NoRow
              /\ row'[k][f].cell = row[k][f].cell
<1> TAKE k \in Kinds, f \in Forts
<1>1. CASE row[i.kind][i.fort] = NoRow
  BY <1>1 DEF Marked, Live
<1>2. CASE row[i.kind][i.fort] # NoRow
  <2>1. PICK r \in [cell : Cells, deleted : BOOLEAN] : r = row[i.kind][i.fort]
    BY <1>2 DEF WorkType
  <2>2. PICK m : m = [row[i.kind][i.fort] EXCEPT !.deleted = TRUE]
    OBVIOUS
  <2>3. m.cell = r.cell /\ m.deleted = TRUE
    BY <2>1, <2>2
  <2>4. m # NoRow
    BY <2>3 DEF NoRow
  <2>5. row' = [row EXCEPT ![i.kind] = [row[i.kind] EXCEPT ![i.fort] = m]]
    BY <1>2, <2>2 DEF Marked
  <2>6. row'[k][f] = IF k = i.kind /\ f = i.fort THEN m ELSE row[k][f]
    BY <2>5 DEF WorkType
  <2>7. CASE k = i.kind /\ f = i.fort
    BY <1>2, <2>1, <2>3, <2>4, <2>6, <2>7 DEF Live
  <2>8. CASE ~(k = i.kind /\ f = i.fort)
    BY <2>6, <2>8 DEF Live
  <2> QED
    BY <2>7, <2>8
<1> QED
  BY <1>1, <1>2

LEMMA ClearSteady ==
    ASSUME Steady, Sound, WorldType, WorkType', WorldType', NEW w \in Workers,
           NEW i \in toClear[w], Clear(w, i)
    PROVE  Steady'
<1>1. /\ removing[w] = {} /\ toClear'[w] = toClear[w] \ {i} /\ row' = Marked(i)
      /\ removing' = IF i.stale THEN [removing EXCEPT ![w] = {i.fort}] ELSE removing
      /\ \A v \in Workers : v # w => toClear'[v] = toClear[v] /\ removing'[v] = removing[v]
      /\ UNCHANGED <<now, serving, cells, forts, world, gmo, toSave, toScan, conversions>>
  BY DEF Clear, Due, Done, RemoveIfStale, Sound, WorkType, vars, trackerVars, counters
<1>2. /\ ~Idle(w) /\ serving /\ \A v \in Workers : v # w /\ Idle(v) => Idle(v)'
  <2>1. ~Idle(w)
    BY DEF Idle
  <2> QED
    BY <1>1, <2>1 DEF Idle, AllIdle, Sound, WorksOnGmo
<1>3. GmoIsRight(w) /\ \A g \in Forts : Follows(w, g)
  BY <1>2 DEF Steady, Followed
<1>4. toSave[w] = {} /\ i.fort \in Forts
  BY <1>3 DEF GmoIsRight
<1> DEFINE f == i.fort
<1>5. \/ /\ \A k \in Kinds : ~Shows(w, f, k)
         /\ i = Item(f, i.kind, TRUE) /\ i.kind \in Kinds /\ Live(i.kind, f)
      \/ \E k \in Kinds : Shows(w, f, k) /\ i = Item(f, Other(k), FALSE)
  <2>1. CASE \A k \in Kinds : ~Shows(w, f, k)
    BY <1>3, <1>4, <2>1 DEF Follows, Unseen
  <2>2. ASSUME NEW k \in Kinds, Shows(w, f, k) PROVE i = Item(f, Other(k), FALSE)
    BY <1>3, <1>4, <2>2 DEF Follows, SeenAs
  <2> QED
    BY <2>1, <2>2
<1>6. i.kind \in Kinds
  BY <1>5, OtherIs DEF Item
<1>7. \A k \in Kinds, g \in Forts :
         /\ Live(k, g)' <=> Live(k, g) /\ ~(k = i.kind /\ g = f)
         /\ row'[k][g] = NoRow <=> row[k][g] = NoRow
         /\ row'[k][g].cell = row[k][g].cell
  BY <1>1, <1>4, <1>6, MarkedIs DEF Sound
<1>8. InPlace' /\ ScansArePast'
  <2>1. InPlace'
    BY <1>1, <1>7 DEF Steady, InPlace, Tracked
  <2> QED
    BY <1>1, <2>1 DEF Steady, ScansArePast
<1>9. \A g, k : Shows(w, g, k)' = Shows(w, g, k)
  BY <1>1 DEF Shows
<1>10. \A g \in Forts : world[g].kind \in Kinds
  BY DEF WorldType
<1>11. GmoIsRight(w)'
  <2>1. ASSUME NEW d \in Cells, NEW k \in Kinds, NEW g \in gmo[w].show[d][k], k # world[g].kind
        PROVE  conversions # 0 /\ row'[world[g].kind][g] = NoRow
    <3>1. g \in Forts
      BY DEF Sound, WorkType, Members
    <3> QED
      BY <1>3, <1>7, <1>10, <2>1, <3>1 DEF GmoIsRight
  <2> QED
    BY <1>1, <1>3, <1>4, <1>9, <2>1 DEF GmoIsRight
<1>12. \A g \in Forts : Single(g) => Single(g)'
  BY <1>1, <1>7, <1>10, OtherIs DEF Single
<1>13. ASSUME NEW g \in Forts, g # f PROVE Follows(w, g)'
  <2>1. g \notin removing'[w]
    BY <1>1, <1>13 DEF Sound, WorkType
  <2>2. \A k \in Kinds : Live(k, g)' <=> Live(k, g)
    BY <1>7, <1>13
  <2>3. Agrees(g) <=> Agrees(g)'
    BY <1>1, <2>2 DEF Agrees, Tracked
  <2>4. Unseen(w, g) => Unseen(w, g)'
    BY <1>1, <1>12, <2>1, <2>2, <2>3 DEF Unseen
  <2>5. ASSUME NEW k \in Kinds, SeenAs(w, g, k) PROVE SeenAs(w, g, k)'
    <3>1. Item(g, Other(k), FALSE) # i
      BY <1>13 DEF Item
    <3> QED
      BY <1>1, <1>4, <1>12, <2>1, <2>2, <2>3, <2>5, <3>1, OtherIs DEF SeenAs, Tracked
  <2> QED
    BY <1>3, <1>9, <2>4, <2>5 DEF Follows
<1>14. Follows(w, f)'
  <2>1. CASE \A k \in Kinds : ~Shows(w, f, k)
    <3>1. Unseen(w, f) /\ Agrees(f)
      BY <1>1, <1>3, <1>4, <2>1 DEF Follows, Unseen
    <3>2. i = Item(f, i.kind, TRUE) /\ Live(i.kind, f)
      BY <1>5, <2>1
    <3>3. removing'[w] = {f}
      BY <1>1, <3>2 DEF Item, Sound, WorkType
    <3>4. \A k \in Kinds : ~Live(k, f)'
      BY <1>4, <1>6, <1>7, <3>1, <3>2 DEF Agrees
    <3>5. ASSUME NEW j \in toClear'[w], j.fort = f PROVE FALSE
      <4>1. j # i /\ j = Item(f, j.kind, TRUE) /\ j.kind \in Kinds /\ Live(j.kind, f)
        BY <1>1, <3>1, <3>5 DEF Unseen
      <4>2. j.kind = i.kind
        BY <1>6, <3>1, <3>2, <4>1 DEF Agrees
      <4> QED
        BY <3>2, <4>1, <4>2
    <3>6. Unseen(w, f)'
      BY <1>4, <1>12, <3>1, <3>3, <3>4, <3>5 DEF Unseen
    <3> QED
      BY <1>9, <2>1, <3>6 DEF Follows
  <2>2. ASSUME NEW k \in Kinds, Shows(w, f, k) PROVE SeenAs(w, f, k)'
    <3>1. SeenAs(w, f, k)
      BY <1>3, <1>4, <2>2 DEF Follows
    <3>2. i = Item(f, Other(k), FALSE) /\ world[f].cell \notin toScan[w]
      BY <3>1 DEF SeenAs
    <3>3. ~i.stale /\ i.kind = Other(k)
      BY <3>2 DEF Item
    <3>4. removing'[w] = {} /\ toSave'[w] = {}
      BY <1>1, <1>4, <3>3
    <3>5. Live(k, f)' /\ ~Live(Other(k), f)'
      BY <1>4, <1>7, <3>1, <3>3, OtherIs DEF SeenAs
    <3>6. Tracked(f)' /\ forts'[f].kind = k
      BY <1>1, <1>4, <3>1, <3>2 DEF SeenAs, Tracked
    <3> QED
      BY <1>1, <3>1, <3>2, <3>4, <3>5, <3>6 DEF SeenAs
  <2> QED
    BY <1>9, <2>1, <2>2 DEF Follows
<1> QED
  BY <1>1, <1>2, <1>8, <1>11, <1>13, <1>14, WorkerStaysSteady DEF Followed

LEMMA RemoveClearedSteady ==
    ASSUME Steady, Sound, OneByOne, WorldType, WorkType', WorldType', NEW w \in Workers,
           NEW f \in Forts, RemoveCleared(w, f)
    PROVE  Steady'
<1>1. /\ f \in removing[w] /\ Remove(f) /\ removing'[w] = {}
      /\ \A v \in Workers : v # w => removing'[v] = removing[v]
      /\ UNCHANGED <<now, serving, world, row, gmo, toSave, toScan, toClear, conversions>>
  BY DEF RemoveCleared, Sound, WorkType, counters
<1>2. /\ ~Idle(w) /\ serving /\ \A v \in Workers : v # w /\ Idle(v) => Idle(v)'
  <2>1. ~Idle(w)
    BY <1>1 DEF Idle
  <2> QED
    BY <1>1, <2>1 DEF Idle, AllIdle, Sound, WorksOnGmo
<1>3. GmoIsRight(w) /\ \A g \in Forts : Follows(w, g)
  BY <1>2 DEF Steady, Followed
<1>4. /\ forts'[f] = NoInfo /\ \A g \in Forts : g # f => forts'[g] = forts[g]
      /\ \A d \in Cells : cells'[d].seen = cells[d].seen
  BY <1>1, RemoveEffect DEF Sound, Inv
<1>5. toSave[w] = {} /\ \A g \in removing[w] : g = f
  BY <1>1, <1>3 DEF GmoIsRight, OneByOne
<1>6. InPlace' /\ ScansArePast'
  <2>1. \A g \in Forts : Tracked(g)' => forts'[g].cell = world[g].cell
    BY <1>4 DEF Steady, InPlace, Tracked
  <2> QED
    BY <1>1, <1>4, <2>1 DEF Steady, InPlace, ScansArePast
<1>7. GmoIsRight(w)'
  <2>1. \A g, k : Shows(w, g, k)' = Shows(w, g, k)
    BY <1>1 DEF Shows
  <2> QED
    BY <1>1, <1>3, <1>4, <1>5, <2>1 DEF GmoIsRight, Sound, WorkType
<1>8. ASSUME NEW g \in Forts PROVE Follows(w, g)'
  <2>1. /\ \A k : Shows(w, g, k)' = Shows(w, g, k)
        /\ \A k : Live(k, g)' = Live(k, g)
        /\ Single(g)' = Single(g)
    BY <1>1 DEF Shows, Live, Single
  <2>2. CASE g = f
    <3>1. ASSUME NEW k \in Kinds PROVE ~Shows(w, f, k)
      BY <1>1, <1>3 DEF Follows, SeenAs
    <3>2. Unseen(w, f) /\ \A k \in Kinds : ~Live(k, f)
      BY <1>1, <1>3, <3>1 DEF Follows, Unseen
    <3>3. Agrees(f)'
      BY <1>4, <2>1, <2>2, <3>2 DEF Agrees, Tracked
    <3>4. Unseen(w, f)'
      BY <1>1, <2>1, <2>2, <3>2, <3>3 DEF Unseen
    <3> QED
      BY <2>1, <2>2, <3>1, <3>4 DEF Follows
  <2>3. CASE g # f
    <3>1. forts'[g] = forts[g] /\ g \notin removing[w] /\ (Agrees(g)' <=> Agrees(g))
      BY <1>4, <1>5, <2>1, <2>3 DEF Agrees, Tracked
    <3>2. Unseen(w, g) => Unseen(w, g)'
      BY <1>1, <2>1, <3>1 DEF Unseen
    <3>3. \A k \in Kinds : SeenAs(w, g, k) => SeenAs(w, g, k)'
      BY <1>1, <1>5, <2>1, <3>1 DEF SeenAs, Tracked
    <3> QED
      BY <1>3, <2>1, <3>2, <3>3 DEF Follows
  <2> QED
    BY <2>2, <2>3
<1> QED
  BY <1>1, <1>2, <1>6, <1>7, <1>8, WorkerStaysSteady DEF Followed

\* A fort is converted: it has no record as what it is now.
LEMMA ConvertSteady ==
    ASSUME Steady, Sound, WorldType, NEW f \in Forts, Convert(f), conversions' <= 1
    PROVE  Steady'
<1>1. /\ conversions = 0 /\ conversions' = 1
      /\ UNCHANGED <<now, serving, cells, forts, row, gmo, toSave, toScan, toClear, removing>>
  <2>1. conversions' = conversions + 1 /\ UNCHANGED <<vars, row, workVars>>
    BY DEF Convert
  <2>2. conversions = 0
    BY <2>1 DEF WorldType
  <2> QED
    BY <2>1, <2>2, WorkUnchanged DEF vars, trackerVars
<1>2. /\ world'[f].cell = world[f].cell /\ world'[f].kind = Other(world[f].kind)
      /\ \A g \in Forts : g # f => world'[g] = world[g]
  <2>1. PICK u \in [kind : Kinds, cell : Cells] : u = world[f]
    BY DEF WorldType
  <2>2. PICK v : v = [u EXCEPT !.kind = Other(@)]
    OBVIOUS
  <2>3. v.cell = u.cell /\ v.kind = Other(u.kind)
    BY <2>2
  <2>4. world' = [world EXCEPT ![f] = v]
    BY <2>1, <2>2 DEF Convert
  <2> QED
    BY <2>1, <2>3, <2>4 DEF WorldType
<1>3. \A g \in Forts : world'[g].cell = world[g].cell
  BY <1>2
<1>4. \A g \in Forts : world[g].kind \in Kinds /\ world'[g].kind \in Kinds
  BY <1>2, OtherIs DEF WorldType
<1>5. row[world'[f].kind][f] = NoRow
  BY <1>1, <1>2, <1>4, OtherIs DEF Steady, InPlace
<1>6. \A g \in Forts : Single(g) => Single(g)'
  BY <1>1, <1>2, <1>5 DEF Single, Live
<1>7. \A g \in Forts : Agrees(g)' = Agrees(g) /\ (Settled(g) => Settled(g)')
  BY <1>1, <1>6 DEF Settled, Agrees, Live, Tracked
<1>8. InPlace' /\ ScansArePast' /\ Alone'
  BY <1>1, <1>3 DEF Steady, InPlace, ScansArePast, Alone, Idle, Tracked
<1>9. ASSUME NEW w \in Workers, ~Idle(w)' PROVE Followed(w)'
  <2>1. GmoIsRight(w) /\ \A g \in Forts : Follows(w, g)
    BY <1>1, <1>9 DEF Steady, Followed, Idle
  <2>2. \A g \in Forts, k \in Kinds : Shows(w, g, k)' = Shows(w, g, k)
    BY <1>1, <1>3 DEF Shows
  <2>3. ASSUME NEW c \in Cells, NEW k \in Kinds, NEW g \in gmo[w].show[c][k]
        PROVE  /\ c = world'[g].cell
               /\ k # world'[g].kind => conversions' # 0 /\ row[world'[g].kind][g] = NoRow
    <3>1. g \in Forts
      BY DEF Sound, WorkType, Members
    <3>2. c = world[g].cell /\ k = world[g].kind
      BY <1>1, <2>1 DEF GmoIsRight
    <3> QED
      BY <1>1, <1>2, <1>3, <1>5, <3>1, <3>2
  <2>4. toSave[w] \subseteq Forts
    BY DEF Sound, WorkType
  <2>5. GmoIsRight(w)'
    BY <1>1, <1>3, <2>1, <2>2, <2>3, <2>4 DEF GmoIsRight
  <2>6. ASSUME NEW g \in Forts PROVE Follows(w, g)'
    <3>1. Unseen(w, g) => Unseen(w, g)'
      BY <1>1, <1>6, <1>7 DEF Unseen, Live
    <3>2. \A k \in Kinds : SeenAs(w, g, k) => SeenAs(w, g, k)'
      BY <1>1, <1>3, <1>7 DEF SeenAs, Live, Tracked
    <3> QED
      BY <2>1, <2>2, <3>1, <3>2 DEF Follows
  <2> QED
    BY <2>5, <2>6 DEF Followed
<1>10. AllIdle' = AllIdle
  BY <1>1 DEF AllIdle, Idle
<1> QED
  BY <1>1, <1>6, <1>7, <1>8, <1>9, <1>10 DEF Steady

LEMMA PassTimeSteady ==
    ASSUME Steady, Sound, now' \in Nat, now <= now',
           UNCHANGED <<serving, trackerVars, world, row, workVars, conversions>>
    PROVE  Steady'
<1>1. UNCHANGED <<serving, cells, forts, world, row, gmo, toSave, toScan, toClear, removing,
                  conversions>>
  BY WorkUnchanged DEF trackerVars
<1>2. \A w : Idle(w)' = Idle(w)
  BY <1>1 DEF Idle
<1>3. now \in Nat /\ \A c \in Cells : cells[c].seen \in Nat
  <2>1. \A c \in Cells : cells[c].seen \in {0} \cup Times
    BY CellType DEF Sound, Inv
  <2>2. \A s \in {0} \cup Times : s \in Nat
    BY TimeType
  <2>3. now \in Nat
    BY DEF Sound, Inv, TypeOK
  <2> QED
    BY <2>1, <2>2, <2>3
<1>4. InPlace' /\ Alone' /\ ScansArePast'
  BY <1>1, <1>2, <1>3 DEF Steady, InPlace, Alone, ScansArePast, Tracked
<1>5. \A f : Single(f)' = Single(f) /\ Settled(f)' = Settled(f) /\ Agrees(f)' = Agrees(f)
  BY <1>1 DEF Single, Settled, Agrees, Live, Tracked
<1>6. ASSUME NEW w \in Workers, Followed(w) PROVE Followed(w)'
  <2>1. \A f, k : Shows(w, f, k)' = Shows(w, f, k)
    BY <1>1 DEF Shows
  <2>2. gmo[w].time <= now'
    <3>1. gmo[w].time \in {0} \cup Times /\ gmo[w].time <= now
      BY <1>6 DEF Sound, WorkType, Followed, GmoIsRight
    <3>2. \A s \in {0} \cup Times : s \in Nat
      BY TimeType
    <3>3. gmo[w].time \in Nat
      BY <3>1, <3>2
    <3>4. \A a, b, d \in Nat : a <= b /\ b <= d => a <= d
      OBVIOUS
    <3> QED
      BY <1>3, <3>1, <3>3, <3>4
  <2>3. GmoIsRight(w)'
    BY <1>1, <1>6, <2>1, <2>2 DEF Followed, GmoIsRight
  <2>4. ASSUME NEW f \in Forts PROVE Follows(w, f)'
    <3>1. Unseen(w, f) => Unseen(w, f)'
      BY <1>1, <1>5 DEF Unseen, Live
    <3>2. \A k \in Kinds : SeenAs(w, f, k) => SeenAs(w, f, k)'
      BY <1>1, <1>5 DEF SeenAs, Live, Tracked
    <3> QED
      BY <1>6, <2>1, <3>1, <3>2 DEF Followed, Follows
  <2> QED
    BY <2>3, <2>4 DEF Followed
<1> QED
  BY <1>1, <1>2, <1>4, <1>5, <1>6 DEF Steady, AllIdle

LEMMA LoadRowSteady ==
    ASSUME Steady, Sound, NEW f \in Forts, NEW k \in Kinds, LoadRow(f, k)
    PROVE  Steady'
<1>0. PICK c \in Cells : c = row[k][f].cell
  BY LoadRowLoads
<1>1. ~Tracked(f) /\ ~serving /\ Live(k, f) /\ Register(f, k, c, now)
  BY <1>0, LoadRowLoads DEF LoadRow
<1>2. UNCHANGED <<now, serving, world, row, gmo, toSave, toScan, toClear, removing, conversions>>
  BY WorkUnchanged DEF LoadRow, counters
<1>3. now \in Times /\ TypeOK
  BY TimeType DEF Sound, Inv, TypeOK
<1>4. /\ \A d \in Cells : cells'[d].seen = IF d = c THEN Later(cells[d].seen, now)
                                           ELSE cells[d].seen
      /\ forts'[f] = Fresh(c, k, now)
      /\ \A g \in Forts \ {f} : forts'[g] = forts[g]
  BY <1>1, <1>3, RegisterEffect
<1>5. c = world[f].cell
  BY <1>0, <1>1 DEF Steady, InPlace, Live
<1>6. InPlace'
  <2>1. \A g \in Forts : Tracked(g)' => forts'[g].cell = world[g].cell
    BY <1>3, <1>4, <1>5, FreshType DEF Steady, InPlace, Tracked
  <2> QED
    BY <1>2, <2>1 DEF Steady, InPlace
<1>7. ScansArePast'
  <2>1. \A d \in Cells : cells'[d].seen = now \/ cells'[d].seen = cells[d].seen
    BY <1>4 DEF Later
  <2>2. now <= now
    BY <1>3 DEF TypeOK
  <2> QED
    BY <1>2, <2>1, <2>2 DEF Steady, ScansArePast
<1>8. \A w \in Workers : Idle(w)'
  BY <1>1, <1>2 DEF Sound, WorksOnGmo, AllIdle, Idle
<1>9. \A g \in Forts : Single(g)'
  BY <1>1, <1>2 DEF Steady, Single, Live
<1> QED
  BY <1>1, <1>2, <1>6, <1>7, <1>8, <1>9 DEF Steady, Alone

\* The load is complete.
LEMMA StartServingSteady ==
    ASSUME Steady, Sound, WorldType, StartServing, ~disturbed'
    PROVE  Steady'
<1>1. \A k \in Kinds, f \in Forts : Live(k, f) => f \in cells[row[k][f].cell].forts[k]
  BY DEF StartServing
<1>2. ~serving /\ UNCHANGED <<now, cells, forts, world, row, gmo, toSave, toScan, toClear,
                              removing, conversions>>
  BY WorkUnchanged DEF StartServing, Start, counters, trackerVars
<1>3. \A w \in Workers : Idle(w)'
  BY <1>2 DEF Sound, WorksOnGmo, AllIdle, Idle
<1>4. ASSUME NEW f \in Forts PROVE Settled(f)'
  <2>1. \A k \in Kinds : Live(k, f) => Tracked(f) /\ forts[f].kind = k
    BY <1>1 DEF Sound, Inv, NoOrphans, WorkType, Live
  <2>2. Tracked(f) => \E k \in Kinds : Live(k, f)
    BY <1>2 DEF Sound, LoadsOnce
  <2>3. Agrees(f)
    BY <2>1, <2>2 DEF Agrees
  <2> QED
    BY <1>2, <2>3 DEF Steady, Settled, Agrees, Single, Live, Tracked
<1>5. InPlace' /\ ScansArePast'
  BY <1>2 DEF Steady, InPlace, ScansArePast, Tracked
<1>6. serving'
  BY DEF StartServing, Start
<1> QED
  BY <1>3, <1>4, <1>5, <1>6 DEF Steady, Alone

\* The program is started again: there is no fort of which both records are live.
LEMMA RestartSteady ==
    ASSUME Steady, Sound, WorldType, Restart
    PROVE  Steady' /\ Sound'
<1>1. /\ serving /\ AllIdle /\ ~serving'
      /\ \A f \in Forts : forts'[f] = NoInfo
      /\ \A c \in Cells : cells'[c].seen = 0 /\ cells'[c].forts = Nobody
      /\ UNCHANGED <<now, sighted, absent, world, row, gmo, toSave, toScan, toClear, removing,
                     conversions>>
  BY WorkUnchanged DEF Restart
<1>2. \A f \in Forts : Settled(f)
  BY <1>1 DEF Steady
<1>3. \A f \in Forts : ~Tracked(f)'
  BY <1>1 DEF Tracked
<1>4. Nobody \in Members /\ \A k \in Kinds : Nobody[k] = {}
  BY DEF Nobody, Members
<1>5. now \in Nat
  BY DEF Sound, Inv, TypeOK
<1>6. \A w \in Workers : Idle(w)'
  BY <1>1 DEF AllIdle, Idle
<1>7. Steady'
  <2>1. InPlace'
    BY <1>1, <1>3 DEF Steady, InPlace
  <2>2. ScansArePast'
    BY <1>1, <1>5 DEF ScansArePast
  <2>3. \A f \in Forts : Single(f)'
    BY <1>1, <1>2 DEF Settled, Single, Live
  <2> QED
    BY <1>1, <1>6, <2>1, <2>2, <2>3 DEF Steady, Alone
<1>8. TypeOK'
  <2>1. cells' \in [Cells -> [seen : {0} \cup Times, forts : Members]]
    BY <1>4 DEF Restart
  <2>2. forts' \in [Forts -> Info \cup {NoInfo}]
    BY DEF Restart
  <2>3. result' \in [stale : Members, converted : Members]
    BY <1>4 DEF Restart, NoResult
  <2> QED
    BY <2>1, <2>2, <2>3 DEF Restart, Sound, Inv, TypeOK
<1>9. Inv'
  <2>1. NoOrphans' /\ NothingForgotten' /\ NoOverstay' /\ Accounts'
    BY <1>1, <1>3, <1>4 DEF NoOrphans, NothingForgotten, NoOverstay, Accounts
  <2>2. NeverWedged'
    BY <1>1, <1>5, ConstantsAssumption DEF NeverWedged
  <2>3. LoadedUnmissed'
    BY <1>1 DEF LoadedUnmissed, NoInfo
  <2> QED
    BY <1>8, <2>1, <2>2, <2>3 DEF Inv
<1>10. WorkType'
  BY <1>1 DEF Sound, WorkType
<1>11. WorksOnGmo'
  BY <1>6 DEF WorksOnGmo, AllIdle
<1>12. LoadsOnce'
  <2>1. \A f \in Forts : ~(Live("stop", f) /\ Live("gym", f))
    BY <1>2, KindNames DEF Settled, Agrees
  <2> QED
    BY <1>1, <1>3, <2>1 DEF LoadsOnce, Live
<1> QED
  BY <1>7, <1>9, <1>10, <1>11, <1>12 DEF Sound

LEMMA WorldTypeStays == WorldType /\ [LifeNext]_allVars => WorldType'
<1> SUFFICES ASSUME WorldType, [LifeNext]_allVars PROVE WorldType'
  OBVIOUS
<1>1. ASSUME NEW f \in Forts, Convert(f) PROVE WorldType'
  <2>1. PICK v : v = [world[f] EXCEPT !.kind = Other(@)]
    OBVIOUS
  <2>2. v \in [kind : Kinds, cell : Cells]
    BY <2>1, OtherIs DEF WorldType
  <2>3. world' = [world EXCEPT ![f] = v] /\ conversions' = conversions + 1
        /\ UNCHANGED <<moves, disturbed>>
    BY <1>1, <2>1 DEF Convert
  <2> QED
    BY <2>2, <2>3 DEF WorldType
<1>2. ASSUME NEW f \in Forts, NEW c \in Cells, Move(f, c) PROVE WorldType'
  <2>1. PICK v : v = [world[f] EXCEPT !.cell = c]
    OBVIOUS
  <2>2. v \in [kind : Kinds, cell : Cells]
    BY <2>1 DEF WorldType
  <2>3. world' = [world EXCEPT ![f] = v] /\ moves' = moves + 1
        /\ UNCHANGED <<conversions, disturbed>>
    BY <1>2, <2>1 DEF Move
  <2> QED
    BY <2>2, <2>3 DEF WorldType
<1>3. ASSUME NEW w \in Workers, NEW C \in SUBSET Cells \ {{}}, NEW S \in SUBSET Forts,
             Receive(w, C, S)
      PROVE  WorldType'
  <2>1. disturbed' = (disturbed \/ ~AllIdle)
    BY <1>3 DEF Receive
  <2>2. disturbed' \in BOOLEAN
    BY <2>1, Zenon
  <2> QED
    BY <1>3, <2>2 DEF Receive, counters, WorldType
<1>4. ASSUME NEW w \in Workers,
             \/ \E f \in Forts, k \in Kinds, c \in Cells : SaveFort(w, f, k, c)
             \/ \E f \in Forts : SaveFails(w, f) \/ RemoveCleared(w, f)
             \/ \E c \in Cells : CheckCell(w, c)
             \/ \E i \in toClear[w] : Clear(w, i) \/ ClearFails(w, i)
      PROVE  WorldType'
  BY <1>4 DEF SaveFort, SaveFails, CheckCell, Clear, ClearFails, RemoveCleared, counters, WorldType
<1>5. CASE (\E f \in Forts, k \in Kinds : LoadRow(f, k)) \/ Restart \/ PassTime \/ UNCHANGED allVars
  BY <1>5 DEF LoadRow, Restart, PassTime, counters, allVars, WorldType
<1>6. CASE StartServing
  BY <1>6 DEF StartServing, counters, WorldType
<1> QED
  BY <1>1, <1>2, <1>3, <1>4, <1>5, <1>6 DEF LifeNext, Decode

LEMMA QuietBefore == WorldType /\ [LifeNext]_allVars /\ Quiet' => Quiet
<1> SUFFICES ASSUME WorldType, [LifeNext]_allVars, Quiet' PROVE Quiet
  OBVIOUS
<1>1. ~disturbed
  <2>1. disturbed' = disturbed \/ disturbed' = TRUE \/ disturbed' = (disturbed \/ ~AllIdle)
    BY DEF LifeNext, Decode, Receive, SaveFort, SaveFails, CheckCell, Clear, ClearFails,
           RemoveCleared, Convert, Move, LoadRow, StartServing, Restart, PassTime, allVars
  <2> QED
    BY <2>1, Zenon DEF Quiet
<1>2. \/ moves' = moves /\ conversions' = conversions
      \/ moves' = moves + 1 /\ conversions' = conversions
      \/ moves' = moves /\ conversions' = conversions + 1
  BY DEF LifeNext, Decode, Receive, SaveFort, SaveFails, CheckCell, Clear, ClearFails,
         RemoveCleared, Convert, Move, LoadRow, StartServing, Restart, PassTime, counters, allVars
<1> QED
  BY <1>1, <1>2 DEF Quiet, WorldType

LEMMA LifeStepSteady ==
    ASSUME Steady, Sound, OneByOne, WorldType, [LifeNext]_allVars, Quiet'
    PROVE  Steady' /\ Sound'
<1>1. CASE Restart
  BY <1>1, RestartSteady
<1>2. CASE ~Restart
  <2>1. Sound' /\ WorldType' /\ WorkType'
    BY <1>2, SoundStays, WorldTypeStays DEF Sound
  <2>2. ~disturbed' /\ moves' = 0 /\ conversions' <= 1
    BY DEF Quiet
  <2>3. ASSUME NEW w \in Workers, Decode(w) PROVE Steady'
    <3>1. ASSUME NEW f \in Forts, SaveFails(w, f) PROVE FALSE
      BY <2>2, <3>1 DEF SaveFails
    <3>2. ASSUME NEW i \in toClear[w], ClearFails(w, i) PROVE FALSE
      BY <2>2, <3>2 DEF ClearFails
    <3> QED
      BY <2>1, <2>2, <2>3, <3>1, <3>2, ReceiveSteady, SaveFortSteady, CheckCellSteady,
         ClearSteady, RemoveClearedSteady DEF Decode
  <2>4. ASSUME NEW f \in Forts, NEW c \in Cells, Move(f, c) PROVE FALSE
    BY <2>2, <2>4 DEF Move, WorldType
  <2>5. CASE PassTime \/ UNCHANGED allVars
    <3>1. /\ now' \in Nat /\ now \in Nat /\ (now' = now \/ now' = now + 1)
          /\ UNCHANGED <<serving, trackerVars, world, row, workVars, conversions>>
      BY <2>5 DEF PassTime, Tick, allVars, vars, counters, Sound, Inv, TypeOK
    <3>2. now <= now'
      BY <3>1
    <3> QED
      BY <2>1, <3>1, <3>2, PassTimeSteady
  <2>6. Steady'
    BY <1>2, <2>2, <2>3, <2>4, <2>5, ConvertSteady, LoadRowSteady, StartServingSteady DEF LifeNext
  <2> QED
    BY <2>1, <2>6
<1> QED
  BY <1>1, <1>2

LEMMA LifeStartsSteady == LifeInit => OneByOne /\ WorldType /\ Sound /\ Steady
<1> SUFFICES ASSUME LifeInit PROVE OneByOne /\ WorldType /\ Sound /\ Steady
  OBVIOUS
<1>1. OneByOne
  BY DEF LifeInit, OneByOne
<1>2. WorldType
  BY DEF LifeInit, WorldType
<1>3. \A f \in Forts : ~Tracked(f)
  BY DEF LifeInit, Init, Tracked
<1>4. ASSUME NEW k \in Kinds, NEW f \in Forts, row[k][f] # NoRow
      PROVE  row[k][f].cell = world[f].cell /\ k = world[f].kind
  <2>1. world[f] = [kind |-> k, cell |-> row[k][f].cell]
    BY <1>4 DEF LifeInit
  <2> QED
    BY <2>1
<1>5. InPlace
  BY <1>3, <1>4 DEF InPlace
<1>6. \A f \in Forts : Single(f)
  <2> TAKE f \in Forts
  <2>1. world[f].kind \in Kinds /\ Other(world[f].kind) \in Kinds
        /\ Other(world[f].kind) # world[f].kind
    BY <1>2, OtherIs DEF WorldType
  <2> QED
    BY <1>4, <2>1 DEF Single, Live
<1>7. ScansArePast
  BY DEF LifeInit, Init, ScansArePast
<1>8. ~serving /\ \A w \in Workers : Idle(w)
  BY DEF LifeInit, Init, Idle
<1> QED
  BY <1>1, <1>2, <1>5, <1>6, <1>7, <1>8, InitSound DEF Steady, Alone

\* Between two GMOs the tracker knows exactly the forts that are not deleted, as
\* what they are and where, for any number of forts, cells and restarts, when
\* GMOs are decoded one after another, no load fails, no fort moves and one
\* fort is converted.
THEOREM RecordsAgreeWithTracker == LifeSpec => []TrackerAgrees
<1> DEFINE Life == /\ OneByOne /\ CondemnedIsHandled
                   /\ WorldType
                   /\ Quiet => Sound /\ Steady
<1>1. LifeInit => Life
  <2>1. LifeInit => CondemnedIsHandled
    BY DEF LifeInit, Init, CondemnedIsHandled
  <2> QED
    BY <2>1, LifeStartsSteady
<1>2. Life /\ [LifeNext]_allVars => Life'
  <2> SUFFICES ASSUME Life, [LifeNext]_allVars PROVE Life'
    OBVIOUS
  <2>1. ASSUME Quiet' PROVE Sound' /\ Steady'
    <3>1. Quiet
      BY <2>1, QuietBefore
    <3> QED
      BY <2>1, <3>1, LifeStepSteady
  <2> QED
    BY <2>1, LifeStepHandles, WorldTypeStays
<1>3. Life => TrackerAgrees
  <2> SUFFICES ASSUME Life, serving, AllIdle, Quiet, NEW k \in Kinds, NEW f \in Forts
               PROVE  Live(k, f) <=> /\ Tracked(f) /\ forts[f].kind = k
                                     /\ forts[f].cell = row[k][f].cell
    BY DEF TrackerAgrees, Quiet
  <2>1. Agrees(f) /\ InPlace
    BY DEF Steady, Settled
  <2>2. Live(k, f) /\ Tracked(f) => forts[f].cell = row[k][f].cell
    BY <2>1 DEF InPlace, Live
  <2> QED
    BY <2>1, <2>2 DEF Agrees
<1> QED
  BY <1>1, <1>2, <1>3, PTL DEF LifeSpec

=============================================================================
