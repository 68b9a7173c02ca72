-------------------------- MODULE FortTree_proofs --------------------------
(***************************************************************************)
(* A fort that keeps its kind is found where it is: proofs about FortTree, *)
(* for every set of places and every bound on their entries.               *)
(*                                                                         *)
(* While the fort has had records of one kind only and no callback came    *)
(* late, the index is always that of one record, the cached one or, until  *)
(* the callback, the expired one.  The lemmas of the first part show this  *)
(* of each change of the index, and the invariant says of which record.    *)
(***************************************************************************)
EXTENDS FortTree, TLAPS

Record == [place : Places, deleted : BOOLEAN]
IndexType == [tree : [Places -> Nat], lookup : {NoLookup} \cup [kind : Kinds, place : Places]]

\* The index is that of record r: a live one is found, a deleted one may be.
IsOf(i, kind, r) ==
    /\ i \in IndexType
    /\ \A place \in Places : i.tree[place] = IF i.lookup.place = place THEN 1 ELSE 0
    /\ i.lookup \in {NoLookup, [kind |-> kind, place |-> r.place]}
    /\ r = NoRecord => i.lookup = NoLookup
    /\ r # NoRecord /\ ~r.deleted => i.lookup # NoLookup

\* What each change makes of an index.
LEMMA IndexForms ==
    ASSUME NEW i \in IndexType, NEW place, NEW kind, NEW r
    PROVE  /\ Add(i, place) = [tree |-> [i.tree EXCEPT ![place] = @ + 1], lookup |-> i.lookup]
           /\ Remove(i, place) = [tree |-> [i.tree EXCEPT ![place] = IF @ > 0 THEN @ - 1 ELSE @],
                                  lookup |-> i.lookup]
           /\ [i EXCEPT !.lookup = NoLookup] = [tree |-> i.tree, lookup |-> NoLookup]
           /\ UpdateLookup(i, kind, r) =
                [tree |-> i.tree, lookup |-> [kind |-> kind, place |-> r.place]]
<1>1. i = [tree |-> i.tree, lookup |-> i.lookup]
  BY DEF IndexType
<1>2. Add(i, place) = [tree |-> [i.tree EXCEPT ![place] = @ + 1], lookup |-> i.lookup]
  BY <1>1 DEF Add
<1>3. Remove(i, place) = [tree |-> [i.tree EXCEPT ![place] = IF @ > 0 THEN @ - 1 ELSE @],
                         lookup |-> i.lookup]
  BY <1>1 DEF Remove
<1>4. [i EXCEPT !.lookup = NoLookup] = [tree |-> i.tree, lookup |-> NoLookup]
  BY <1>1
<1>5. UpdateLookup(i, kind, r) =
        [tree |-> i.tree, lookup |-> [kind |-> kind, place |-> r.place]]
  BY <1>1 DEF UpdateLookup
<1> QED
  BY <1>2, <1>3, <1>4, <1>5

\* Every change of an index gives an index.
LEMMA IndexTypes ==
    ASSUME NEW i \in IndexType, NEW place, NEW kind \in Kinds, NEW r \in Record
    PROVE  /\ Add(i, place) \in IndexType
           /\ Remove(i, place) \in IndexType
           /\ Remove([i EXCEPT !.lookup = NoLookup], place) \in IndexType
           /\ UpdateLookup(i, kind, r) \in IndexType
<1>1. i.tree \in [Places -> Nat] /\ i.lookup \in {NoLookup} \cup [kind : Kinds, place : Places]
  BY DEF IndexType
<1>2. \A t \in [Places -> Nat] : [t EXCEPT ![place] = @ + 1] \in [Places -> Nat]
  <2>1. CASE place \in Places
    BY <2>1
  <2>2. CASE place \notin Places
    BY <2>2
  <2> QED
    BY <2>1, <2>2
<1>3. \A t \in [Places -> Nat] : [t EXCEPT ![place] = IF @ > 0 THEN @ - 1 ELSE @] \in [Places -> Nat]
  <2>1. CASE place \in Places
    BY <2>1
  <2>2. CASE place \notin Places
    BY <2>2
  <2> QED
    BY <2>1, <2>2
<1>4. \A j \in IndexType : Remove(j, place) \in IndexType
  <2>1. SUFFICES ASSUME NEW j \in IndexType PROVE Remove(j, place) \in IndexType
    OBVIOUS
  <2>2. Remove(j, place) = [tree |-> [j.tree EXCEPT ![place] = IF @ > 0 THEN @ - 1 ELSE @],
                           lookup |-> j.lookup]
    BY IndexForms
  <2>3. j.tree \in [Places -> Nat] /\ j.lookup \in {NoLookup} \cup [kind : Kinds, place : Places]
    BY DEF IndexType
  <2> QED
    BY <1>3, <2>2, <2>3 DEF IndexType
<1>5. [i EXCEPT !.lookup = NoLookup] \in IndexType
  BY <1>1, IndexForms DEF IndexType
<1>6. Add(i, place) \in IndexType
  <2>1. Add(i, place) = [tree |-> [i.tree EXCEPT ![place] = @ + 1], lookup |-> i.lookup]
    BY IndexForms
  <2> QED
    BY <1>1, <1>2, <2>1 DEF IndexType
<1>7. UpdateLookup(i, kind, r) \in IndexType
  <2>1. [kind |-> kind, place |-> r.place] \in [kind : Kinds, place : Places]
    BY DEF Record
  <2> QED
    <3>1. UpdateLookup(i, kind, r) =
            [tree |-> i.tree, lookup |-> [kind |-> kind, place |-> r.place]]
      BY DEF IndexType, UpdateLookup
    <3> QED
      BY <1>1, <2>1, <3>1 DEF IndexType
<1> QED
  BY <1>4, <1>5, <1>6, <1>7

LEMMA OnSaveType ==
    ASSUME NEW i \in IndexType, NEW kind \in Kinds, NEW r \in Record
    PROVE  OnSave(i, kind, r) \in IndexType
<1>1. GenericUpdateFort(i, r) \in IndexType
  <2>1. Remove(i, i.lookup.place) \in IndexType
    BY IndexTypes
  <2>2. Moved(i, r.place) \in IndexType
    BY <2>1, IndexTypes DEF Moved
  <2> QED
    BY <2>2, IndexTypes DEF GenericUpdateFort
<1> QED
  BY <1>1, IndexTypes DEF OnSave

LEMMA OnGetType ==
    ASSUME NEW i \in IndexType, NEW kind \in Kinds, NEW r \in Record
    PROVE  OnGet(i, kind, r) \in IndexType
<1>1. Add(i, r.place) \in IndexType
  BY IndexTypes
<1> QED
  BY <1>1, IndexTypes DEF OnGet

LEMMA EvictType ==
    ASSUME NEW i \in IndexType, NEW place \in Places
    PROVE  Evict(i, place) \in IndexType
<1>1. "gym" \in Kinds /\ [place |-> place, deleted |-> TRUE] \in Record
  BY DEF Kinds, Record
<1> QED
  BY <1>1, IndexTypes DEF Evict

\* The change keeps an index that of its record.
LEMMA SaveIsOf ==
    ASSUME None \notin Places, NEW kind \in Kinds, NEW i, NEW c, c = NoRecord \/ c \in Record,
           IsOf(i, kind, c), NEW r \in Record
    PROVE  IsOf(OnSave(i, kind, r), kind, r)
<1> DEFINE there == [kind |-> kind, place |-> r.place]
<1>1. /\ i \in IndexType /\ r.place \in Places /\ r.deleted \in BOOLEAN /\ r # NoRecord
      /\ i.tree \in [Places -> Nat] /\ i = [tree |-> i.tree, lookup |-> i.lookup]
      /\ i.lookup = NoLookup \/ (i.lookup.place \in Places /\ i.lookup.kind = kind)
  BY DEF IsOf, IndexType, Record, NoRecord, NoLookup
<1>2. NoLookup.place = None
  BY DEF NoLookup
<1>3. CASE r.deleted /\ i.lookup = NoLookup
  <2>1. OnSave(i, kind, r) = i
    BY <1>3 DEF OnSave, GenericUpdateFort
  <2> QED
    BY <1>1, <1>3, <2>1 DEF IsOf
<1>4. CASE r.deleted /\ i.lookup # NoLookup
  <2> DEFINE t == [i.tree EXCEPT ![i.lookup.place] = IF @ > 0 THEN @ - 1 ELSE @]
  <2>1. OnSave(i, kind, r) = [tree |-> t, lookup |-> NoLookup]
    BY <1>1, <1>4 DEF OnSave, GenericUpdateFort, Remove
  <2>2. t \in [Places -> Nat] /\ \A place \in Places : t[place] = 0
    BY <1>1, <1>4 DEF IsOf
  <2> HIDE DEF t
  <2> QED
    BY <1>1, <1>2, <1>4, <2>1, <2>2 DEF IsOf, IndexType
<1>5. CASE ~r.deleted /\ i.lookup = NoLookup
  <2> DEFINE t == [i.tree EXCEPT ![r.place] = @ + 1]
  <2>1. OnSave(i, kind, r) = [tree |-> t, lookup |-> there]
    <3>1. GenericUpdateFort(i, r) = Add(i, r.place)
      BY <1>1, <1>2, <1>5 DEF GenericUpdateFort
    <3>2. Add(i, r.place) = [tree |-> t, lookup |-> i.lookup]
      BY <1>1, IndexForms
    <3>3. OnSave(i, kind, r) = UpdateLookup(GenericUpdateFort(i, r), kind, r)
      BY <1>5 DEF OnSave
    <3> QED
      BY <3>1, <3>2, <3>3 DEF UpdateLookup
  <2>2. t \in [Places -> Nat] /\ \A place \in Places : t[place] = IF place = r.place THEN 1 ELSE 0
    BY <1>1, <1>2, <1>5 DEF IsOf
  <2> HIDE DEF t
  <2>3. there # NoLookup /\ there \in [kind : Kinds, place : Places]
    BY <1>1, <1>2
  <2> QED
    BY <1>1, <2>1, <2>2, <2>3 DEF IsOf, IndexType
<1>6. CASE ~r.deleted /\ i.lookup # NoLookup /\ i.lookup.place # r.place
  <2> DEFINE q == i.lookup.place
  <2> DEFINE s == [i.tree EXCEPT ![q] = IF @ > 0 THEN @ - 1 ELSE @]
  <2> DEFINE t == [s EXCEPT ![r.place] = @ + 1]
  <2>1. OnSave(i, kind, r) = [tree |-> t, lookup |-> there]
    BY <1>1, <1>6 DEF OnSave, GenericUpdateFort, Moved, Remove, Add, UpdateLookup
  <2>2. s \in [Places -> Nat] /\ \A place \in Places : s[place] = 0
    BY <1>1, <1>6 DEF IsOf
  <2> HIDE DEF s
  <2>3. t \in [Places -> Nat] /\ \A place \in Places : t[place] = IF place = r.place THEN 1 ELSE 0
    BY <1>1, <2>2
  <2> HIDE DEF t
  <2>4. there # NoLookup /\ there \in [kind : Kinds, place : Places]
    BY <1>1, <1>2
  <2> QED
    BY <1>1, <2>1, <2>3, <2>4 DEF IsOf, IndexType
<1>7. CASE ~r.deleted /\ i.lookup # NoLookup /\ i.lookup.place = r.place
  <2>1. OnSave(i, kind, r) = [tree |-> i.tree, lookup |-> there]
    BY <1>1, <1>2, <1>7 DEF OnSave, GenericUpdateFort, UpdateLookup
  <2>2. \A place \in Places : i.tree[place] = IF place = r.place THEN 1 ELSE 0
    BY <1>1, <1>7 DEF IsOf
  <2>3. there # NoLookup /\ there \in [kind : Kinds, place : Places]
    BY <1>1, <1>2
  <2> QED
    BY <1>1, <2>1, <2>2, <2>3 DEF IsOf, IndexType
<1> QED
  BY <1>1, <1>3, <1>4, <1>5, <1>6, <1>7

LEMMA GetIsOf ==
    ASSUME None \notin Places, NEW kind \in Kinds, NEW i, IsOf(i, kind, NoRecord), NEW r \in Record
    PROVE  IsOf(OnGet(i, kind, r), kind, r)
<1> DEFINE there == [kind |-> kind, place |-> r.place]
<1> DEFINE t == [i.tree EXCEPT ![r.place] = @ + 1]
<1>1. /\ i.tree \in [Places -> Nat] /\ i = [tree |-> i.tree, lookup |-> i.lookup]
      /\ r.place \in Places /\ i.lookup = NoLookup /\ NoLookup.place = None
  BY DEF IsOf, IndexType, Record, NoLookup
<1>2. OnGet(i, kind, r) = [tree |-> t, lookup |-> there]
  BY <1>1 DEF OnGet, Add, UpdateLookup
<1>3. t \in [Places -> Nat] /\ \A place \in Places : t[place] = IF place = r.place THEN 1 ELSE 0
  BY <1>1 DEF IsOf
<1>4. there # NoLookup /\ there \in [kind : Kinds, place : Places] /\ r # NoRecord
  BY <1>1 DEF NoRecord
<1> HIDE DEF t
<1> QED
  BY <1>2, <1>3, <1>4 DEF IsOf, IndexType

LEMMA EvictIsOf ==
    ASSUME None \notin Places, NEW kind \in Kinds, NEW i, NEW place \in Places,
           IsOf(i, kind, [place |-> place, deleted |-> TRUE])
    PROVE  IsOf(Evict(i, place), kind, NoRecord)
<1> DEFINE t == [i.tree EXCEPT ![place] = IF @ > 0 THEN @ - 1 ELSE @]
<1>1. /\ i.tree \in [Places -> Nat] /\ i = [tree |-> i.tree, lookup |-> i.lookup]
      /\ NoLookup.place = None
      /\ i.lookup \in {NoLookup, [kind |-> kind, place |-> place]}
  BY DEF IsOf, IndexType, NoLookup
<1>2. Evict(i, place) = [tree |-> t, lookup |-> NoLookup]
  <2>1. [i EXCEPT !.lookup = NoLookup] = [tree |-> i.tree, lookup |-> NoLookup]
    BY <1>1
  <2>2. [tree |-> i.tree, lookup |-> NoLookup] \in IndexType
    BY <1>1 DEF IndexType
  <2> QED
    <3> DEFINE j == [tree |-> i.tree, lookup |-> NoLookup]
    <3>1. Evict(i, place) = Remove(j, place)
      BY <2>1 DEF Evict
    <3>2. j \in IndexType /\ j.tree = i.tree /\ j.lookup = NoLookup
      BY <2>2
    <3> HIDE DEF j
    <3>3. Remove(j, place) =
            [tree |-> [j.tree EXCEPT ![place] = IF @ > 0 THEN @ - 1 ELSE @], lookup |-> j.lookup]
      BY <3>2, IndexForms
    <3> QED
      BY <3>1, <3>2, <3>3
<1>3. t \in [Places -> Nat] /\ \A q \in Places : t[q] = 0
  BY <1>1 DEF IsOf
<1> HIDE DEF t
<1> QED
  BY <1>1, <1>2, <1>3 DEF IsOf, IndexType

\* A fort that may not be found as live may be found as deleted.
LEMMA IsOfDeleted ==
    ASSUME NEW kind \in Kinds, NEW i, NEW c \in Record, IsOf(i, kind, c)
    PROVE  IsOf(i, kind, [place |-> c.place, deleted |-> TRUE])
<1>1. [place |-> c.place, deleted |-> TRUE] # NoRecord
  BY DEF NoRecord
<1> QED
  BY <1>1 DEF IsOf
-----------------------------------------------------------------------------
(* The inductive invariant.                                                *)

RecordsOK ==
    /\ cached \in [Kinds -> {NoRecord} \cup Record]
    /\ row \in [Kinds -> {NoRecord} \cup Record]
    /\ evicting \in SUBSET Places
    /\ raced \in BOOLEAN
    /\ \A kind \in Kinds : cached[kind] # NoRecord => row[kind] # NoRecord
    /\ tree \in [Places -> Nat]
    /\ lookup \in {NoLookup} \cup [kind : Kinds, place : Places]

\* The index of a fort that has had no records of another kind.
OnlyKind(kind) == \A other \in Kinds \ {kind} : row[other] = NoRecord

IndexOK ==
    ~raced => \A kind \in Kinds : OnlyKind(kind) =>
        /\ evicting = {} => IsOf(Index, kind, cached[kind])
        /\ \A place \in evicting :
             /\ evicting = {place}
             /\ cached[kind] = NoRecord
             /\ IsOf(Index, kind, [place |-> place, deleted |-> TRUE])

IInv == RecordsOK /\ IndexOK

LEMMA InitIInv == ASSUME None \notin Places, Init PROVE IInv
<1>1. RecordsOK
  BY DEF Init, RecordsOK, NoRecord, NoLookup
<1>2. ASSUME NEW kind \in Kinds PROVE IsOf(Index, kind, cached[kind])
  <2>1. /\ cached[kind] = NoRecord
        /\ Index.lookup = NoLookup /\ Index.tree \in [Places -> Nat]
        /\ Index = [tree |-> Index.tree, lookup |-> NoLookup]
        /\ \A place \in Places : Index.tree[place] = 0
    BY DEF Init, Index
  <2>2. NoLookup.place = None
    BY DEF NoLookup
  <2> QED
    BY <2>1, <2>2 DEF IsOf, IndexType
<1> QED
  BY <1>1, <1>2 DEF IInv, IndexOK, Init

\* Index, as it is and as a step leaves it.
LEMMA IndexNow ==
    ASSUME RecordsOK
    PROVE  Index \in IndexType /\ Index = [tree |-> tree, lookup |-> lookup]
  BY DEF RecordsOK, Index, IndexType

LEMMA SetIndexIs ==
    ASSUME NEW i \in IndexType, SetIndex(i)
    PROVE  /\ Index' = i
           /\ tree' \in [Places -> Nat]
           /\ lookup' \in {NoLookup} \cup [kind : Kinds, place : Places]
  BY DEF SetIndex, Index, IndexType

LEMMA LoadIInv ==
    ASSUME None \notin Places, IInv, NEW kind \in Kinds, Load(kind)
    PROVE  IInv'
<1> DEFINE r == row[kind]
<1>1. r \in Record /\ cached[kind] = NoRecord /\ cached' = [cached EXCEPT ![kind] = r] /\ row' = row
  BY DEF IInv, RecordsOK, Load
<1>2. Index \in IndexType
  BY IndexNow DEF IInv
<1>3. OnGet(Index, kind, r) \in IndexType
  BY <1>1, <1>2, OnGetType
<1>4. /\ Index' = OnGet(Index, kind, r)
      /\ tree' \in [Places -> Nat]
      /\ lookup' \in {NoLookup} \cup [kind : Kinds, place : Places]
  BY <1>3, SetIndexIs DEF Load
<1>5. RecordsOK'
  BY <1>1, <1>4 DEF IInv, RecordsOK, Load
<1>6. ASSUME ~raced', NEW k \in Kinds, OnlyKind(k)'
      PROVE  evicting' = {} /\ IsOf(Index, k, cached[k])'
  <2>1. evicting = {} /\ evicting' = {} /\ ~raced
    BY <1>6 DEF Load, IInv, RecordsOK
  <2>2. k = kind /\ OnlyKind(kind)
    BY <1>1, <1>6 DEF OnlyKind, Load
  <2>3. IsOf(Index, kind, NoRecord)
    BY <1>1, <2>1, <2>2 DEF IInv, IndexOK
  <2>4. IsOf(OnGet(Index, kind, r), kind, r)
    BY <1>1, <2>3, GetIsOf
  <2>5. cached'[kind] = r
    BY <1>1 DEF IInv, RecordsOK
  <2> QED
    BY <1>4, <2>1, <2>2, <2>4, <2>5 DEF IsOf
<1> QED
  BY <1>5, <1>6 DEF IInv, IndexOK

LEMMA SaveIInv ==
    ASSUME None \notin Places, IInv, NEW kind \in Kinds, NEW r \in Record, Save(kind, r)
    PROVE  IInv'
<1>1. /\ cached[kind] = NoRecord \/ cached[kind] \in Record
      /\ cached' = [cached EXCEPT ![kind] = r]
      /\ row' = [row EXCEPT ![kind] = r]
  BY DEF IInv, RecordsOK, Save
<1>2. Index \in IndexType
  BY IndexNow DEF IInv
<1>3. OnSave(Index, kind, r) \in IndexType
  BY <1>2, OnSaveType
<1>4. /\ Index' = OnSave(Index, kind, r)
      /\ tree' \in [Places -> Nat]
      /\ lookup' \in {NoLookup} \cup [kind : Kinds, place : Places]
  BY <1>3, SetIndexIs DEF Save
<1>5. r # NoRecord
  BY DEF Record, NoRecord
<1>6. RecordsOK'
  BY <1>1, <1>4, <1>5 DEF IInv, RecordsOK, Save
<1>7. ASSUME ~raced', NEW k \in Kinds, OnlyKind(k)'
      PROVE  evicting' = {} /\ IsOf(Index, k, cached[k])'
  <2>1. evicting = {} /\ evicting' = {} /\ ~raced
    BY <1>7 DEF Save, IInv, RecordsOK
  <2>2. cached'[kind] = r /\ row'[kind] = r /\ \A other \in Kinds \ {kind} : row'[other] = row[other]
    BY <1>1 DEF IInv, RecordsOK
  <2>3. k = kind /\ OnlyKind(kind)
    BY <1>5, <1>7, <2>2 DEF OnlyKind
  <2>4. IsOf(Index, kind, cached[kind])
    BY <2>1, <2>3 DEF IInv, IndexOK
  <2>5. IsOf(OnSave(Index, kind, r), kind, r)
    BY <1>1, <2>4, SaveIsOf
  <2> QED
    BY <1>4, <2>1, <2>2, <2>3, <2>5 DEF IsOf
<1> QED
  BY <1>6, <1>7 DEF IInv, IndexOK

LEMMA ShownIInv ==
    ASSUME None \notin Places, IInv, NEW kind \in Kinds, Shown(kind)
    PROVE  IInv'
<1>1. PICK place \in Places : Save(kind, [place |-> place, deleted |-> FALSE])
  BY DEF Shown
<1>2. [place |-> place, deleted |-> FALSE] \in Record
  BY DEF Record
<1> QED
  BY <1>1, <1>2, SaveIInv

LEMMA MarkedIInv ==
    ASSUME None \notin Places, IInv, NEW kind \in Kinds, Marked(kind)
    PROVE  IInv'
<1>1. [cached[kind] EXCEPT !.deleted = TRUE] \in Record
  BY DEF Marked, IInv, RecordsOK, Record
<1> QED
  BY <1>1, SaveIInv DEF Marked

LEMMA ExpireIInv ==
    ASSUME None \notin Places, IInv, NEW kind \in Kinds, Expire(kind)
    PROVE  IInv'
<1> DEFINE c == cached[kind]
<1>1. /\ c \in Record /\ c # NoRecord /\ evicting = {} /\ evicting' = {c.place}
      /\ cached' = [cached EXCEPT ![kind] = NoRecord]
      /\ row' = row /\ tree' = tree /\ lookup' = lookup /\ raced' = raced
  BY DEF Expire, IInv, RecordsOK
<1>2. c.place \in Places
  BY <1>1 DEF Record
<1>3. RecordsOK'
  BY <1>1, <1>2 DEF IInv, RecordsOK
<1>4. Index' = Index
  BY <1>1 DEF Index
<1>5. ASSUME ~raced', NEW k \in Kinds, OnlyKind(k)'
      PROVE  /\ cached'[k] = NoRecord
             /\ IsOf(Index', k, [place |-> c.place, deleted |-> TRUE])
  <2>1. row[kind] # NoRecord
    BY <1>1 DEF IInv, RecordsOK
  <2>2. k = kind /\ OnlyKind(kind)
    BY <1>1, <1>5, <2>1 DEF OnlyKind
  <2>3. IsOf(Index, kind, c)
    BY <1>1, <1>5, <2>2 DEF IInv, IndexOK
  <2>4. IsOf(Index, kind, [place |-> c.place, deleted |-> TRUE])
    BY <1>1, <2>3, IsOfDeleted
  <2>5. cached'[kind] = NoRecord
    BY <1>1 DEF IInv, RecordsOK
  <2> QED
    BY <1>4, <2>2, <2>4, <2>5
<1> QED
  BY <1>1, <1>3, <1>5 DEF IInv, IndexOK, IsOf

LEMMA EvictedIInv ==
    ASSUME None \notin Places, IInv, Evicted
    PROVE  IInv'
<1>1. PICK place \in evicting : SetIndex(Evict(Index, place))
  BY DEF Evicted
<1>2. place \in Places /\ evicting' = {} /\ cached' = cached /\ row' = row /\ raced' = raced
  BY DEF IInv, RecordsOK, Evicted
<1>3. Evict(Index, place) \in IndexType
  BY <1>2, IndexNow, EvictType DEF IInv
<1>4. /\ Index' = Evict(Index, place)
      /\ tree' \in [Places -> Nat]
      /\ lookup' \in {NoLookup} \cup [kind : Kinds, place : Places]
  BY <1>1, <1>3, SetIndexIs
<1>5. RecordsOK'
  BY <1>2, <1>4 DEF IInv, RecordsOK
<1>6. ASSUME ~raced', NEW k \in Kinds, OnlyKind(k)'
      PROVE  IsOf(Index', k, cached'[k])
  <2>1. OnlyKind(k) /\ ~raced
    BY <1>2, <1>6 DEF OnlyKind
  <2>2. cached[k] = NoRecord /\ IsOf(Index, k, [place |-> place, deleted |-> TRUE])
    BY <1>1, <2>1 DEF IInv, IndexOK
  <2> QED
    BY <1>2, <1>4, <2>2, EvictIsOf
<1> QED
  BY <1>2, <1>5, <1>6 DEF IInv, IndexOK, IsOf

LEMMA RestartIInv ==
    ASSUME None \notin Places, IInv, Restart
    PROVE  IInv'
<1> DEFINE empty == [tree |-> [place \in Places |-> 0], lookup |-> NoLookup]
<1> DEFINE live == [kind \in Kinds |-> IF row[kind].deleted THEN NoRecord ELSE row[kind]]
<1> DEFINE loaded(i, kind) == IF live[kind] = NoRecord THEN i ELSE OnSave(i, kind, live[kind])
<1>1. /\ cached' = live /\ SetIndex(loaded(loaded(empty, "gym"), "pokestop"))
      /\ evicting' = {} /\ raced' = FALSE /\ row' = row
  BY DEF Restart
<1>2. \A kind \in Kinds : live[kind] = NoRecord \/ live[kind] \in Record
  BY DEF IInv, RecordsOK
<1>3. empty \in IndexType /\ \A kind \in Kinds : IsOf(empty, kind, NoRecord)
  BY DEF IsOf, IndexType, NoLookup
<1>4. ASSUME NEW i \in IndexType, NEW kind \in Kinds
      PROVE  loaded(i, kind) \in IndexType
  BY <1>2, OnSaveType
<1>5. ASSUME NEW i \in IndexType, NEW kind \in Kinds, IsOf(i, kind, NoRecord)
      PROVE  IsOf(loaded(i, kind), kind, live[kind])
  BY <1>2, <1>5, SaveIsOf
<1>6. "gym" \in Kinds /\ "pokestop" \in Kinds /\ Kinds = {"gym", "pokestop"}
  BY DEF Kinds
<1>7. ASSUME NEW kind \in Kinds, row[kind] = NoRecord
      PROVE  live[kind] = NoRecord
  BY <1>7
<1> HIDE DEF empty, live
<1>8. loaded(loaded(empty, "gym"), "pokestop") \in IndexType
  BY <1>3, <1>4, <1>6
<1>9. /\ Index' = loaded(loaded(empty, "gym"), "pokestop")
      /\ tree' \in [Places -> Nat]
      /\ lookup' \in {NoLookup} \cup [kind : Kinds, place : Places]
  BY <1>1, <1>8, SetIndexIs
<1>10. RecordsOK'
  <2>1. live \in [Kinds -> {NoRecord} \cup Record]
    BY <1>2 DEF live
  <2> QED
    BY <1>1, <1>7, <1>9, <2>1 DEF IInv, RecordsOK
<1>11. ASSUME NEW k \in Kinds, OnlyKind(k)'
       PROVE  IsOf(Index', k, cached'[k])
  <2>1. ASSUME NEW other \in Kinds, other # k
        PROVE  live[other] = NoRecord
    BY <1>1, <1>7, <1>11, <2>1 DEF OnlyKind
  <2>2. Index' = loaded(empty, k)
    BY <1>6, <1>9, <2>1
  <2> QED
    BY <1>1, <1>3, <1>5, <2>2
<1> QED
  BY <1>1, <1>10, <1>11 DEF IInv, IndexOK, IsOf

LEMMA NextIInv ==
    ASSUME None \notin Places, IInv, [Next]_vars
    PROVE  IInv'
<1>1. CASE UNCHANGED vars
  BY <1>1 DEF vars, IInv, RecordsOK, IndexOK, OnlyKind, Index, IsOf
<1>2. ASSUME NEW kind \in Kinds, Load(kind) PROVE IInv'
  BY <1>2, LoadIInv
<1>3. ASSUME NEW kind \in Kinds, Shown(kind) PROVE IInv'
  BY <1>3, ShownIInv
<1>4. ASSUME NEW kind \in Kinds, Marked(kind) PROVE IInv'
  BY <1>4, MarkedIInv
<1>5. ASSUME NEW kind \in Kinds, Expire(kind) PROVE IInv'
  BY <1>5, ExpireIInv
<1>6. CASE Evicted
  BY <1>6, EvictedIInv
<1>7. CASE Restart
  BY <1>7, RestartIInv
<1> QED
  BY <1>1, <1>2, <1>3, <1>4, <1>5, <1>6, <1>7 DEF Next

LEMMA IInvIsFound == ASSUME IInv PROVE FortIsFound
<1>1. SUFFICES ASSUME ~raced, evicting = {}, NEW k \in Kinds, row[k] = NoRecord
      PROVE  /\ \A place \in Places : tree[place] = IF lookup.place = place THEN 1 ELSE 0
             /\ \A kind \in Kinds :
                  cached[kind] # NoRecord /\ ~cached[kind].deleted =>
                    lookup = [kind |-> kind, place |-> cached[kind].place]
             /\ (\A kind \in Kinds : cached[kind] = NoRecord) => lookup = NoLookup
  BY DEF FortIsFound
<1>2. cached[k] = NoRecord
  BY <1>1 DEF IInv, RecordsOK
<1>3. PICK other \in Kinds : Kinds = {k, other} /\ OnlyKind(other)
  BY <1>1 DEF Kinds, OnlyKind
<1>4. IsOf(Index, other, cached[other])
  BY <1>1, <1>3 DEF IInv, IndexOK
<1>5. Index.tree = tree /\ Index.lookup = lookup
  BY DEF Index
<1> QED
  BY <1>2, <1>3, <1>4, <1>5 DEF IsOf
-----------------------------------------------------------------------------
(* The theorem.                                                            *)

\* FortIsFound, for every set of places and every bound on their entries: a
\* fort that keeps its kind is found where its record says it is, once.
THEOREM SpecFortIsFound == ASSUME None \notin Places PROVE Spec => []FortIsFound
<1>1. Init => IInv
  BY InitIInv
<1>2. IInv /\ [Next]_vars => IInv'
  BY NextIInv
<1>3. IInv => FortIsFound
  BY IInvIsFound
<1> QED
  BY <1>1, <1>2, <1>3, PTL DEF Spec
=============================================================================
