------------------------- MODULE PokemonLife_proofs -------------------------
(***************************************************************************)
(* What Golbat says of a pokemon is consistent, for every pokemon and in   *)
(* every order of its sightings: proofs about PokemonLife and, in parts of *)
(* their own below, about Despawn, PokemonTree and Ditto as MC_Pokemon     *)
(* instantiates them.                                                      *)
(*                                                                         *)
(* The lemmas of the first part say of each operator on records what it    *)
(* keeps: the fit of values and boost, the time, the place.  A handler is  *)
(* a composition of them, so that the record it saves is Acceptable; and   *)
(* to save an acceptable record keeps the inductive invariant IInv.        *)
(***************************************************************************)
EXTENDS MC_Pokemon, Integers, TLAPS

Placed(kind) == kind \notin Unplaced
Tappable == {"tappable_encounter", "tappable_lure_encounter"}
Exact == {"encounter", "lure_encounter"}

\* The values v of a pokemon that is shown in weather w, of kind k, are those for
\* its boost; a record's are, unless it is odd.
ValuesFit(v, k, w, ditto, strong) ==
    /\ v # NoIv => v = Category(Boosted(ditto, w), strong)
    /\ k \in Exact => v # NoIv \/ (ditto /\ w # PartlyCloudy)
Fits(r) ==
    /\ r.ditto => ~r.strong
    /\ ~r.odd => ValuesFit(r.iv, r.kind, r.weather, r.ditto, r.strong)

\* A new record has no values yet, and is taken for no ditto.
Blank(r) == r.new => r.iv = NoIv /\ r.kind \notin Exact /\ ~r.ditto

\* The same time; the same in all but the time; a known time is kept.
SameTime(q, r) == q.end = r.end /\ q.verified = r.verified /\ q.over = r.over
SameSight(q, r) ==
    /\ q.new = r.new /\ q.kind = r.kind /\ q.weather = r.weather
    /\ q.strong = r.strong /\ q.iv = r.iv /\ q.ditto = r.ditto /\ q.odd = r.odd
TimeKept(q, r) == r.end = "known" /\ ~r.over => q.end = "known"

\* A known kind of sighting stays one.
SameKind(k, j) == (Placed(k) <=> Placed(j)) /\ (j \in Tappable => k = j)

\* A record with another display.
Displayed(r, w, s) == [r EXCEPT !.weather = w, !.strong = s]

LEMMA CategoryType ==
    ASSUME NEW b, NEW s
    PROVE  Category(b, s) \in Categories /\ Category(b, s) # NoIv
BY DEF Category, Categories, NoIv

LEMMA KindChanges ==
    ASSUME NEW k \in Kinds
    PROVE  /\ Demoted(k) \in Kinds /\ Demoted(k) \notin Exact /\ SameKind(Demoted(k), k)
           /\ Promoted(k) \in Kinds /\ SameKind(Promoted(k), k)
<1>1. CASE k = "encounter"
  BY <1>1 DEF Demoted, Promoted, Kinds, Unplaced, Placed, Exact, Tappable, SameKind
<1>2. CASE k = "lure_encounter"
  BY <1>2 DEF Demoted, Promoted, Kinds, Unplaced, Placed, Exact, Tappable, SameKind
<1>3. CASE k = "wild"
  BY <1>3 DEF Demoted, Promoted, Kinds, Unplaced, Placed, Exact, Tappable, SameKind
<1>4. CASE k = "lure_wild"
  BY <1>4 DEF Demoted, Promoted, Kinds, Unplaced, Placed, Exact, Tappable, SameKind
<1>5. CASE k \notin {"encounter", "lure_encounter", "wild", "lure_wild"}
  <2>1. Demoted(k) = k /\ Promoted(k) = k
    BY <1>5 DEF Demoted, Promoted
  <2> QED
    BY <2>1, <1>5 DEF SameKind, Exact
<1> QED
  BY <1>1, <1>2, <1>3, <1>4, <1>5

\* repopulateIv, with the display that it prepares; and without it, if it has
\* left the CP.
LEMMA RepopulateFits ==
    ASSUME NEW r \in Record, NEW w \in Displays, NEW s \in BOOLEAN, Fits(r), r.ditto => ~s,
           NEW x, x = RepopulateIv(r, w, s),
           NEW q, q = Displayed(x, w, s)
    PROVE  /\ x \in Record /\ q \in Record /\ Fits(q) /\ SameTime(q, r) /\ q.new = r.new
           /\ SameKind(q.kind, r.kind) /\ q.kind = x.kind /\ q.ditto = x.ditto
           /\ SameTime(x, r) /\ x.strong = r.strong /\ x.ditto = r.ditto /\ x.new = r.new
           /\ x.cp /\ s = r.strong => Fits(x)
<1> DEFINE b == Boosted(r.ditto, w)
<1> DEFINE c == Category(b, s)
<1> DEFINE same == c = r.iv /\ ~s
<1> DEFINE unchanged == s = r.strong /\ b = Boosted(r.ditto, r.weather)
<1>0. r.kind \in Kinds /\ c \in Categories /\ c # NoIv
  BY CategoryType DEF Record
<1>1. CASE unchanged
  <2>1. x = r
    BY <1>1 DEF RepopulateIv
  <2>2. /\ q \in Record /\ q.iv = r.iv /\ q.kind = r.kind /\ q.weather = w /\ q.strong = s
        /\ q.ditto = r.ditto /\ q.odd = r.odd /\ SameTime(q, r) /\ q.new = r.new
    BY <2>1 DEF Record, SameTime, Displayed
  <2>3. Fits(q)
    BY <1>1, <2>2 DEF Fits, ValuesFit, Boosted
  <2>4. SameKind(q.kind, r.kind)
    BY <2>2 DEF SameKind
  <2> QED
    BY <2>1, <2>2, <2>3, <2>4 DEF SameTime
<1>2. CASE ~unchanged /\ c \in r.scans
  <2> DEFINE cp == r.cp /\ same
  <2> DEFINE odd == r.odd /\ same
  <2>1. x = [r EXCEPT !.iv = c, !.cp = cp, !.odd = odd, !.kind = Promoted(r.kind)]
    BY <1>2 DEF RepopulateIv, Record
  <2>2. Promoted(r.kind) \in Kinds /\ SameKind(Promoted(r.kind), r.kind)
    BY <1>0, KindChanges
  <2>3. cp \in BOOLEAN /\ odd \in BOOLEAN
    BY DEF Record
  <2>4. cp => same
    OBVIOUS
  <2>5. same => (odd <=> r.odd)
    OBVIOUS
  <2> HIDE DEF cp, odd
  <2>6. /\ x \in Record /\ x.iv = c /\ x.kind = Promoted(r.kind) /\ x.odd = odd /\ x.cp = cp
        /\ x.weather = r.weather /\ x.strong = r.strong /\ x.ditto = r.ditto
        /\ SameTime(x, r) /\ x.new = r.new
    BY <1>0, <2>1, <2>2, <2>3 DEF Record, SameTime
  <2>7. /\ q \in Record /\ q.iv = c /\ q.kind = Promoted(r.kind) /\ q.weather = w /\ q.strong = s
        /\ q.ditto = r.ditto /\ SameTime(q, r) /\ q.new = r.new
    BY <2>6 DEF Record, SameTime, Displayed
  <2>8. Fits(q)
    BY <1>0, <2>7 DEF Fits, ValuesFit
  <2>9. ASSUME x.cp, s = r.strong PROVE Fits(x)
    <3>1. same
      BY <2>4, <2>6, <2>9
    <3>2. ASSUME ~r.odd PROVE FALSE
      <4>1. r.iv = Category(Boosted(r.ditto, r.weather), r.strong)
        BY <1>0, <3>1, <3>2 DEF Fits, ValuesFit
      <4> QED
        BY <1>2, <2>9, <3>1, <4>1 DEF Category, Boosted
    <3>3. x.odd
      BY <2>5, <2>6, <3>1, <3>2 DEF Record
    <3> QED
      BY <2>6, <3>3 DEF Fits
  <2> QED
    BY <2>2, <2>6, <2>7, <2>8, <2>9
<1>3. CASE ~unchanged /\ c \notin r.scans
  <2>1. x = [r EXCEPT !.iv = NoIv, !.cp = FALSE, !.odd = FALSE, !.kind = Demoted(r.kind)]
    BY <1>3 DEF RepopulateIv, Record
  <2>2. Demoted(r.kind) \in Kinds /\ SameKind(Demoted(r.kind), r.kind) /\ Demoted(r.kind) \notin Exact
    BY <1>0, KindChanges
  <2>3. /\ x \in Record /\ ~x.cp /\ x.iv = NoIv /\ x.kind = Demoted(r.kind)
        /\ x.strong = r.strong /\ x.ditto = r.ditto /\ SameTime(x, r) /\ x.new = r.new
    BY <2>1, <2>2 DEF Record, SameTime
  <2>4. /\ q \in Record /\ q.iv = NoIv /\ q.kind = Demoted(r.kind) /\ q.strong = s
        /\ q.ditto = r.ditto /\ SameTime(q, r) /\ q.new = r.new
    BY <2>3 DEF Record, SameTime, Displayed
  <2>5. Fits(q)
    BY <2>2, <2>4 DEF Fits, ValuesFit
  <2> QED
    BY <2>2, <2>3, <2>4, <2>5
<1> QED
  BY <1>1, <1>2, <1>3

LEMMA DisplayFits ==
    ASSUME NEW r \in Record, NEW w \in Displays, NEW s \in BOOLEAN, NEW d \in BOOLEAN,
           Fits(r), Blank(r),
           NEW q, q = SetPokemonDisplay(r, w, s, d)
    PROVE  /\ q \in Record /\ Fits(q) /\ SameTime(q, r) /\ q.new = r.new
           /\ SameKind(q.kind, r.kind)
<1>1. CASE r.new
  <2>1. q = [r EXCEPT !.weather = w, !.strong = s]
    BY <1>1 DEF SetPokemonDisplay
  <2>2. /\ q \in Record /\ q.iv = r.iv /\ q.kind = r.kind /\ q.ditto = r.ditto
        /\ SameTime(q, r) /\ q.new = r.new
    BY <2>1 DEF Record, SameTime
  <2>3. Fits(q)
    BY <2>2, <1>1 DEF Blank, Fits, ValuesFit
  <2> QED
    BY <2>2, <2>3 DEF SameKind
<1>2. CASE ~r.new
  <2> DEFINE other == d \/ s # r.strong
  <2>1. PICK y : y = IF other
                     THEN [r EXCEPT !.cp = FALSE, !.ditto = FALSE, !.odd = r.odd \/ r.ditto] ELSE r
    OBVIOUS
  <2>2. PICK x : x = RepopulateIv(y, w, s)
    OBVIOUS
  <2>3. q = Displayed(x, w, s)
    BY <1>2, <2>1, <2>2 DEF SetPokemonDisplay, Displayed
  <2>4. /\ y \in Record /\ Fits(y) /\ SameTime(y, r) /\ y.new = r.new /\ y.kind = r.kind
        /\ y.ditto => ~s
    <3>1. CASE ~other
      <4>1. y = r /\ s = r.strong
        BY <2>1, <3>1
      <4> QED
        BY <4>1 DEF Fits, SameTime
    <3>2. CASE other
      <4> DEFINE odd == r.odd \/ r.ditto
      <4>1. odd \in BOOLEAN
        BY DEF Record
      <4>2. ~odd => ~r.odd /\ ~r.ditto
        OBVIOUS
      <4> HIDE DEF odd
      <4>3. y = [r EXCEPT !.cp = FALSE, !.ditto = FALSE, !.odd = odd]
        BY <2>1, <3>2 DEF odd
      <4>4. /\ y \in Record /\ ~y.ditto /\ y.odd = odd /\ y.iv = r.iv /\ y.kind = r.kind
            /\ y.weather = r.weather /\ y.strong = r.strong
            /\ SameTime(y, r) /\ y.new = r.new
        BY <4>1, <4>3 DEF Record, SameTime
      <4>5. Fits(y)
        BY <4>2, <4>4 DEF Fits, ValuesFit, Boosted
      <4> QED
        BY <4>4, <4>5
    <3> QED
      BY <3>1, <3>2
  <2>5. /\ q \in Record /\ Fits(q) /\ SameTime(q, y) /\ q.new = y.new
        /\ SameKind(q.kind, y.kind)
    BY <2>2, <2>3, <2>4, RepopulateFits
  <2> QED
    BY <2>4, <2>5 DEF SameTime, SameKind
<1>3. r.new \in BOOLEAN
  BY DEF Record
<1> QED
  BY <1>1, <1>2, <1>3

LEMMA RecomputeKeeps ==
    ASSUME NEW r \in Record, NEW q \in RecomputeCp(r)
    PROVE  q \in Record /\ SameSight(q, r) /\ SameTime(q, r)
<1>1. PICK ok \in BOOLEAN : q = [r EXCEPT !.cp = r.cp \/ (ok /\ r.iv # NoIv)]
  BY DEF RecomputeCp
<1>2. (r.cp \/ (ok /\ r.iv # NoIv)) \in BOOLEAN
  BY DEF Record
<1> QED
  BY <1>1, <1>2 DEF Record, SameSight, SameTime

LEMMA UnknownKeeps ==
    ASSUME NEW r \in Record, NEW q, q = SetUnknownTimestamp(r)
    PROVE  /\ q \in Record /\ SameSight(q, r) /\ q.verified = r.verified
           /\ TimeKept(q, r)
BY DEF SetUnknownTimestamp, Record, Ends, SameSight, TimeKept

LEMMA ExpireKeeps ==
    ASSUME NEW r \in Record, NEW knows \in BOOLEAN, NEW trusted \in BOOLEAN,
           r.verified => r.end = "known",
           NEW q, q = SetExpireTimestamp(r, knows, trusted)
    PROVE  /\ q \in Record /\ SameSight(q, r)
           /\ q.verified => q.end = "known"
           /\ TimeKept(q, r)
<1>1. CASE ~trusted /\ r.verified
  BY <1>1 DEF SetExpireTimestamp, SameSight, TimeKept
<1>2. CASE ~(~trusted /\ r.verified) /\ knows
  BY <1>2 DEF SetExpireTimestamp, Record, Ends, SameSight, TimeKept
<1>3. CASE ~(~trusted /\ r.verified) /\ ~knows
  <2> DEFINE y == [r EXCEPT !.verified = FALSE]
  <2>1. y \in Record /\ SameSight(y, r) /\ ~y.verified /\ y.end = r.end /\ y.over = r.over
    BY DEF Record, SameSight
  <2>2. q = SetUnknownTimestamp(y)
    BY <1>3 DEF SetExpireTimestamp
  <2> HIDE DEF y
  <2>3. q \in Record /\ SameSight(q, y) /\ q.verified = y.verified /\ TimeKept(q, y)
    BY <2>1, <2>2, UnknownKeeps
  <2> QED
    BY <2>1, <2>3 DEF SameSight, TimeKept
<1> QED
  BY <1>1, <1>2, <1>3

\* A record that was given what an encounter gives.
Given(r, ditto, v, odd, scans) ==
    [r EXCEPT !.ditto = ditto, !.iv = v, !.cp = TRUE, !.odd = odd, !.scans = scans]

LEMMA GivenFits ==
    ASSUME NEW r \in Record, NEW ditto \in BOOLEAN, NEW v \in Categories \cup {NoIv},
           NEW odd \in BOOLEAN, NEW scans \in SUBSET Categories,
           ditto => ~r.strong,
           ~odd => ValuesFit(v, r.kind, r.weather, ditto, r.strong),
           NEW q, q = Given(r, ditto, v, odd, scans)
    PROVE  q \in Record /\ Fits(q) /\ SameTime(q, r) /\ q.kind = r.kind
<1>1. /\ q \in Record /\ q.iv = v /\ q.ditto = ditto /\ q.odd = odd
      /\ q.weather = r.weather /\ q.strong = r.strong
      /\ SameTime(q, r) /\ q.kind = r.kind
  BY DEF Given, Record, SameTime
<1> QED
  BY <1>1 DEF Fits

LEMMA EncounterFits ==
    ASSUME NEW r \in Record, r.ditto => ~r.strong, NEW q \in AddEncounter(r)
    PROVE  q \in Record /\ Fits(q) /\ SameTime(q, r) /\ q.kind = r.kind
<1>1. r.strong \in BOOLEAN /\ r.ditto \in BOOLEAN /\ r.scans \subseteq Categories
  BY DEF Record
<1>2. \A scans \in Readings(r) : scans \subseteq Categories
  BY <1>1 DEF Readings, Plain, Categories
<1> DEFINE c == Category(r.weather # None, r.strong)
<1>3. c \in Categories /\ c # NoIv
  BY CategoryType
<1>4. ASSUME NEW scans \in Readings(r), q = NoDitto(r, scans)
      PROVE  q \in Record /\ Fits(q) /\ SameTime(q, r) /\ q.kind = r.kind
  <2>1. q = Given(r, FALSE, c, FALSE, scans \cup {c})
    BY <1>4 DEF NoDitto, Given
  <2>2. scans \cup {c} \in SUBSET Categories
    BY <1>2, <1>3, <1>4
  <2>3. ValuesFit(c, r.kind, r.weather, FALSE, r.strong)
    BY <1>3 DEF ValuesFit, Boosted
  <2>4. PICK ditto \in BOOLEAN, odd \in BOOLEAN : ditto = FALSE /\ odd = FALSE
    OBVIOUS
  <2> HIDE DEF c
  <2>5. /\ q = Given(r, ditto, c, odd, scans \cup {c})
        /\ ValuesFit(c, r.kind, r.weather, ditto, r.strong)
        /\ ditto => ~r.strong
    BY <2>1, <2>3, <2>4
  <2> QED
    BY <1>3, <2>2, <2>5, GivenFits
<1>5. ASSUME ~r.strong, NEW scans \in Readings(r), NEW hidden \in BOOLEAN,
             hidden => r.weather = None, q = ADitto(r, scans, hidden)
      PROVE  q \in Record /\ Fits(q) /\ SameTime(q, r) /\ q.kind = r.kind
  <2> DEFINE k == Category(hidden \/ r.weather = PartlyCloudy, FALSE)
  <2> DEFINE v == IF ~hidden THEN k ELSE IF "unboosted" \in scans THEN "unboosted" ELSE NoIv
  <2>1. q = Given(r, TRUE, v, FALSE, scans \cup {k})
    BY <1>5 DEF ADitto, Given
  <2>2. k \in Categories /\ k # NoIv
    BY CategoryType
  <2>3. v \in Categories \cup {NoIv} /\ scans \cup {k} \in SUBSET Categories
    BY <1>2, <1>5, <2>2 DEF Categories
  <2>4. PartlyCloudy # None
    BY WeatherAssumption DEF None
  <2>5. ValuesFit(v, r.kind, r.weather, TRUE, r.strong)
    <3>1. CASE ~hidden
      <4>1. v = Category(r.weather = PartlyCloudy, FALSE)
        BY <3>1
      <4> QED
        BY <1>5, <2>2, <3>1, <4>1 DEF ValuesFit, Boosted, Category
    <3>2. CASE hidden
      <4>1. v \in {"unboosted", NoIv} /\ r.weather # PartlyCloudy
        BY <1>5, <2>4, <3>2
      <4> QED
        BY <1>5, <4>1 DEF ValuesFit, Boosted, Category
    <3> QED
      BY <3>1, <3>2
  <2>6. PICK ditto \in BOOLEAN, odd \in BOOLEAN : ditto = TRUE /\ odd = FALSE
    OBVIOUS
  <2> HIDE DEF k, v
  <2>7. /\ q = Given(r, ditto, v, odd, scans \cup {k})
        /\ ValuesFit(v, r.kind, r.weather, ditto, r.strong)
        /\ ditto => ~r.strong
    BY <1>5, <2>1, <2>5, <2>6
  <2> QED
    BY <2>3, <2>7, GivenFits
<1>6. ASSUME NEW ditto \in {FALSE, r.ditto}, q = Unexpected(r, ditto)
      PROVE  q \in Record /\ Fits(q) /\ SameTime(q, r) /\ q.kind = r.kind
  <2>1. q = Given(r, ditto, c, ditto, {c})
    BY <1>6 DEF Unexpected, Given
  <2>2. ditto \in BOOLEAN /\ (ditto => ~r.strong)
    BY <1>1, <1>6
  <2>3. ~ditto => ValuesFit(c, r.kind, r.weather, ditto, r.strong)
    BY <1>3 DEF ValuesFit, Boosted
  <2>4. {c} \in SUBSET Categories
    BY <1>3
  <2> HIDE DEF c
  <2> QED
    BY <1>3, <2>1, <2>2, <2>3, <2>4, GivenFits
<1> DEFINE A == {NoDitto(r, scans) : scans \in Readings(r)}
<1> DEFINE S == IF r.strong THEN {} ELSE Readings(r)
<1> DEFINE H == IF r.weather = None THEN BOOLEAN ELSE {FALSE}
<1> DEFINE D == {ADitto(r, scans, hidden) : scans \in S, hidden \in H}
<1> DEFINE U == {Unexpected(r, ditto) : ditto \in {FALSE, r.ditto}}
<1>7. AddEncounter(r) = A \cup D \cup U
  BY DEF AddEncounter
<1>8. CASE q \in A
  <2>1. PICK scans \in Readings(r) : q = NoDitto(r, scans)
    BY <1>8
  <2> QED
    BY <1>4, <2>1
<1>9. CASE q \in D
  <2> HIDE DEF S, H
  <2>1. PICK scans \in S, hidden \in H : q = ADitto(r, scans, hidden)
    BY <1>9
  <2>2. /\ ~r.strong /\ scans \in Readings(r)
        /\ hidden \in BOOLEAN /\ (hidden => r.weather = None)
    BY <2>1 DEF S, H
  <2> QED
    BY <1>5, <2>1, <2>2
<1>10. CASE q \in U
  <2>1. PICK ditto \in {FALSE, r.ditto} : q = Unexpected(r, ditto)
    BY <1>10
  <2> QED
    BY <1>6, <2>1
<1> HIDE DEF A, D, U
<1> QED
  BY <1>7, <1>8, <1>9, <1>10
-----------------------------------------------------------------------------
(* The inductive invariant.                                                *)

RowType == [kind : Kinds, weather : Displays, iv : Categories \cup {NoIv},
            cp : BOOLEAN, odd : BOOLEAN]

\* What is written of a record is as consistent as the record.
RowFits ==
    ~row.odd => ValuesFit(row.iv, row.kind, row.weather, p.ditto, p.strong)

\* Only a placed record is verified; a new one is not placed; the row goes along.
PlacedFirst ==
    /\ p.verified => p.end = "known" /\ Placed(p.kind)
    /\ p.new => ~Placed(p.kind)
    /\ Placed(p.kind) <=> Placed(row.kind)

\* It was counted only if it is placed, as encountered only if that is noted.
CountedFits ==
    /\ counted.seen <= 1 /\ (counted.seen # 0 => Placed(p.kind))
    /\ counted.encountered <= 1
    /\ counted.encountered # 0 => first /\ Placed(p.kind)

IInv == TypeOK /\ Fits(p) /\ Blank(p) /\ RowFits /\ PlacedFirst /\ CountedFits

\* A record that a handler may save.
Acceptable(r) ==
    /\ r \in Record /\ Fits(r)
    /\ r.verified => r.end = "known" /\ Placed(r.kind)
    /\ Placed(p.kind) => Placed(r.kind)
    /\ TimeKept(r, p) \/ r.kind = "tappable_lure_encounter"

\* The step of KnownEndIsKept.
KnownKept ==
    p.end = "known" /\ ~p.over /\ p'.kind # "tappable_lure_encounter" /\ ~p'.new
      => p'.end = "known"

LEMMA InitIInv == Init => IInv
<1> SUFFICES ASSUME Init PROVE IInv
  OBVIOUS
<1>1. NewRecord \in Record
  BY DEF NewRecord, Record, Kinds, Unplaced, Displays, Categories, Ends, NoIv
<1>2. p = NewRecord /\ row = RowOf(NewRecord) /\ counted = [seen |-> 0, encountered |-> 0]
  BY DEF Init
<1>3. TypeOK
  <2>1. row \in RowType
    BY <1>2 DEF RowOf, NewRecord, RowType, Kinds, Unplaced, Displays
  <2>2. counted \in [seen : Nat, encountered : Nat]
    BY <1>2
  <2> QED
    BY <1>1, <1>2, <2>1, <2>2 DEF Init, TypeOK, RowType
<1>4. Fits(p) /\ Blank(p) /\ RowFits
  BY <1>2 DEF NewRecord, RowOf, Fits, ValuesFit, Blank, RowFits, NoIv, Exact
<1>5. PlacedFirst
  BY <1>2 DEF NewRecord, RowOf, PlacedFirst, Placed, Unplaced
<1>6. CountedFits
  BY <1>2 DEF CountedFits
<1> QED
  BY <1>3, <1>4, <1>5, <1>6 DEF IInv

LEMMA CountKeeps ==
    ASSUME IInv, NEW r, Acceptable(r), Count(p.kind, r.kind), p'.kind = r.kind
    PROVE  /\ first' \in BOOLEAN /\ counted' \in [seen : Nat, encountered : Nat]
           /\ CountedFits'
<1> DEFINE known == first /\ ~(p.kind \in Unplaced /\ r.kind = "wild")
<1> DEFINE fresh == r.kind = "encounter" /\ p.kind # r.kind /\ ~known
<1>1. first \in BOOLEAN /\ counted \in [seen : Nat, encountered : Nat]
  BY DEF IInv, TypeOK
<1>2. /\ first' = (known \/ fresh)
      /\ counted' = [seen |-> counted.seen + (IF CountsAsSeen(p.kind, r.kind) THEN 1 ELSE 0),
                     encountered |-> counted.encountered + (IF fresh THEN 1 ELSE 0)]
  BY DEF Count
<1>3. first' \in BOOLEAN
  BY <1>2
<1>4. CountsAsSeen(p.kind, r.kind) => ~Placed(p.kind) /\ Placed(r.kind)
  BY DEF CountsAsSeen, Placed, Unplaced
<1>5. fresh => Placed(r.kind)
  BY DEF Placed, Unplaced
<1>6. Placed(p.kind) => Placed(r.kind)
  BY DEF Acceptable
<1>7. counted'.seen \in Nat /\ counted'.seen <= 1 /\ (counted'.seen # 0 => Placed(r.kind))
  <2>1. counted.seen \in Nat /\ counted.seen <= 1 /\ (counted.seen # 0 => Placed(p.kind))
    BY <1>1 DEF IInv, CountedFits
  <2>2. counted'.seen = counted.seen + (IF CountsAsSeen(p.kind, r.kind) THEN 1 ELSE 0)
    BY <1>2
  <2>3. CASE CountsAsSeen(p.kind, r.kind)
    BY <1>4, <2>1, <2>2, <2>3
  <2>4. CASE ~CountsAsSeen(p.kind, r.kind)
    BY <1>6, <2>1, <2>2, <2>4
  <2> QED
    BY <2>3, <2>4
<1>8. counted.encountered # 0 => known /\ Placed(p.kind)
  <2>1. counted.encountered # 0 => first /\ Placed(p.kind)
    BY DEF IInv, CountedFits
  <2> QED
    BY <2>1 DEF Placed
<1>9. /\ counted'.encountered \in Nat /\ counted'.encountered <= 1
      /\ counted'.encountered # 0 => first' /\ Placed(r.kind)
  <2>1. counted.encountered \in Nat /\ counted.encountered <= 1
    BY <1>1 DEF IInv, CountedFits
  <2>2. counted'.encountered = counted.encountered + (IF fresh THEN 1 ELSE 0)
    BY <1>2
  <2>3. CASE fresh
    <3>1. counted.encountered = 0
      BY <1>8, <2>1, <2>3
    <3> HIDE DEF fresh, known
    <3>2. counted'.encountered = 1
      BY <2>2, <2>3, <3>1
    <3>3. first'
      BY <1>2, <2>3, Zenon
    <3> QED
      BY <1>5, <2>3, <3>2, <3>3
  <2>4. CASE ~fresh
    <3> HIDE DEF fresh, known
    <3>1. counted'.encountered = counted.encountered
      BY <2>1, <2>2, <2>4
    <3> QED
      BY <1>2, <1>6, <1>8, <2>1, <3>1
  <2> QED
    BY <2>3, <2>4
<1>10. counted' \in [seen : Nat, encountered : Nat]
  <2>1. counted' = [seen |-> counted'.seen, encountered |-> counted'.encountered]
    BY <1>2
  <2> QED
    BY <1>7, <1>9, <2>1
<1> QED
  BY <1>3, <1>7, <1>9, <1>10 DEF CountedFits

\* To save an acceptable record keeps the invariant; what a save that does not
\* write has changed must not show in the row.
LEMMA SaveKeeps ==
    ASSUME IInv, NEW r, Acceptable(r), NEW write \in BOOLEAN, SaveAs(r, write),
           \/ write
           \/ r.strong = p.strong /\ r.ditto = p.ditto /\ (Placed(r.kind) <=> Placed(p.kind)),
           nature' = nature, point' \in BOOLEAN, stored' \in BOOLEAN,
           missing' \in BOOLEAN, switch' \in Weathers \cup {None}
    PROVE  IInv' /\ KnownKept
<1>1. /\ p' = [r EXCEPT !.new = FALSE]
      /\ row' = IF write THEN RowOf(r) ELSE row
      /\ Count(p.kind, r.kind)
  BY DEF SaveAs
<1>2. r \in Record /\ Fits(r)
  BY DEF Acceptable
<1>3. /\ p' \in Record /\ ~p'.new /\ p'.kind = r.kind /\ p'.iv = r.iv /\ p'.strong = r.strong
      /\ p'.ditto = r.ditto /\ p'.odd = r.odd
      /\ p'.weather = r.weather /\ p'.end = r.end /\ p'.verified = r.verified /\ p'.over = r.over
  BY <1>1, <1>2 DEF Record
<1>4. first' \in BOOLEAN /\ counted' \in [seen : Nat, encountered : Nat] /\ CountedFits'
  BY <1>1, <1>3, CountKeeps
<1>5. row' \in RowType
  <2>1. row \in RowType
    BY DEF IInv, TypeOK, RowType
  <2>2. RowOf(r) \in RowType
    BY <1>2 DEF RowOf, Record, RowType
  <2> QED
    BY <1>1, <2>1, <2>2
<1>6. TypeOK'
  BY <1>3, <1>4, <1>5 DEF IInv, TypeOK, RowType
<1>7. Fits(p)' /\ Blank(p)'
  BY <1>2, <1>3 DEF Fits, Blank
<1>8. RowFits' /\ PlacedFirst'
  <2>1. p'.verified => p'.end = "known" /\ Placed(p'.kind)
    BY <1>3 DEF Acceptable
  <2>2. CASE write
    <3>1. row'.kind = r.kind /\ row'.iv = r.iv /\ row'.weather = r.weather /\ row'.odd = r.odd
      BY <1>1, <2>2 DEF RowOf
    <3>2. RowFits'
      BY <1>2, <1>3, <3>1 DEF Fits, RowFits
    <3>3. Placed(p'.kind) <=> Placed(row'.kind)
      BY <1>3, <3>1 DEF Placed
    <3> QED
      BY <1>3, <2>1, <3>2, <3>3 DEF PlacedFirst
  <2>3. CASE ~write
    <3>1. row' = row
      BY <1>1, <2>3
    <3>2. /\ p'.strong = p.strong /\ p'.ditto = p.ditto
          /\ Placed(p'.kind) <=> Placed(p.kind)
      BY <1>3, <2>3
    <3>3. RowFits'
      BY <3>1, <3>2 DEF IInv, RowFits
    <3>4. Placed(p.kind) <=> Placed(row.kind)
      BY DEF IInv, PlacedFirst
    <3>5. Placed(p'.kind) <=> Placed(row'.kind)
      BY <3>1, <3>2, <3>4 DEF Placed
    <3> QED
      BY <1>3, <2>1, <3>3, <3>5 DEF PlacedFirst
  <2> QED
    BY <2>2, <2>3
<1>9. KnownKept
  BY <1>3 DEF Acceptable, TimeKept, KnownKept
<1> QED
  BY <1>4, <1>6, <1>7, <1>8, <1>9 DEF IInv
-----------------------------------------------------------------------------
(* The handlers, one by one.                                               *)

LEMMA IInvFacts ==
    ASSUME IInv
    PROVE  /\ p \in Record /\ p.kind \in Kinds /\ p.new \in BOOLEAN
           /\ p.verified => p.end = "known"
           /\ point \in BOOLEAN /\ Knows \subseteq BOOLEAN
BY DEF IInv, TypeOK, Record, PlacedFirst, Knows

LEMMA SavedSighting ==
    ASSUME IInv, NEW r, Acceptable(r), Save(r),
           nature' = nature, point' = point, stored' \in BOOLEAN,
           missing' = missing, switch' = switch
    PROVE  IInv' /\ KnownKept
<1>1. point' \in BOOLEAN /\ missing' \in BOOLEAN /\ switch' \in Weathers \cup {None}
  BY DEF IInv, TypeOK
<1>2. PICK dirty \in BOOLEAN : (dirty \/ (r = p /\ ~p.new)) /\ SaveAs(r, dirty)
  BY DEF Save
<1>3. \/ dirty
      \/ r.strong = p.strong /\ r.ditto = p.ditto /\ (Placed(r.kind) <=> Placed(p.kind))
  BY <1>2
<1> QED
  BY <1>1, <1>2, <1>3, SaveKeeps

LEMMA WildSightingKeeps == ASSUME IInv, WildSighting PROVE IInv' /\ KnownKept
<1>1. PICK boost \in Displays, strong \in BOOLEAN, differs \in BOOLEAN, knows \in Knows :
        LET kind == IF p.kind \in Unplaced THEN "wild" ELSE p.kind
            timed == SetExpireTimestamp([p EXCEPT !.kind = kind], knows, TRUE)
        IN /\ \E r \in RecomputeCp(SetPokemonDisplay(timed, boost, strong, differs)) : Save(r)
           /\ UNCHANGED <<nature, point, stored, missing, switch>>
  BY DEF WildSighting
<1>2. PICK a : a = [p EXCEPT !.kind = IF p.kind \in Unplaced THEN "wild" ELSE p.kind]
  OBVIOUS
<1>3. PICK b : b = SetExpireTimestamp(a, knows, TRUE)
  OBVIOUS
<1>4. PICK c : c = SetPokemonDisplay(b, boost, strong, differs)
  OBVIOUS
<1>5. UNCHANGED <<nature, point, stored, missing, switch>> /\ \E r \in RecomputeCp(c) : Save(r)
  BY <1>1, <1>2, <1>3, <1>4
<1>6. PICK d \in RecomputeCp(c) : Save(d) /\ UNCHANGED <<nature, point, stored, missing, switch>>
  BY <1>5
<1>7. a \in Record /\ Placed(a.kind) /\ Fits(a) /\ Blank(a)
      /\ a.end = p.end /\ a.over = p.over /\ a.verified = p.verified
  <2>1. /\ a \in Record /\ a.kind = IF p.kind \in Unplaced THEN "wild" ELSE p.kind
        /\ a.end = p.end /\ a.over = p.over /\ a.verified = p.verified
        /\ a.iv = p.iv /\ a.weather = p.weather /\ a.strong = p.strong /\ a.new = p.new
        /\ a.ditto = p.ditto /\ a.odd = p.odd
    BY <1>2, IInvFacts DEF Record, Kinds
  <2>2. Placed(a.kind)
    BY <2>1 DEF Placed, Unplaced
  <2>3. a.kind \in Exact => p.kind \in Exact
    BY <2>1 DEF Exact
  <2> QED
    BY <2>1, <2>2, <2>3 DEF IInv, Fits, ValuesFit, Blank
<1>8. b \in Record /\ SameSight(b, a) /\ (b.verified => b.end = "known") /\ TimeKept(b, a)
  BY <1>3, <1>7, IInvFacts, ExpireKeeps
<1>9. Fits(b) /\ Blank(b)
  BY <1>7, <1>8 DEF SameSight, Fits, ValuesFit, Blank
<1>10. c \in Record /\ Fits(c) /\ SameTime(c, b) /\ SameKind(c.kind, b.kind)
  BY <1>4, <1>8, <1>9, DisplayFits
<1>11. d \in Record /\ SameSight(d, c) /\ SameTime(d, c)
  BY <1>6, <1>10, RecomputeKeeps
<1>12. Fits(d) /\ Placed(d.kind)
  BY <1>7, <1>8, <1>10, <1>11 DEF SameSight, SameKind, Fits, ValuesFit, Placed
<1>13. (d.verified => d.end = "known") /\ TimeKept(d, p)
  BY <1>7, <1>8, <1>10, <1>11 DEF SameTime, TimeKept
<1>14. Acceptable(d)
  BY <1>11, <1>12, <1>13 DEF Acceptable
<1>15. stored' \in BOOLEAN
  BY <1>6 DEF IInv, TypeOK
<1> QED
  BY <1>6, <1>14, <1>15, SavedSighting

LEMMA NearbySightingKeeps == ASSUME IInv, NearbySighting PROVE IInv' /\ KnownKept
<1>1. PICK boost \in Displays, strong \in BOOLEAN, differs \in BOOLEAN, at \in {"stop", "cell"} :
        /\ \E shown \in RecomputeCp(SetPokemonDisplay(p, boost, strong, differs)) :
              LET kind == NearbyKind(shown, at)
              IN Save(IF kind = "" THEN shown
                      ELSE SetUnknownTimestamp([shown EXCEPT !.kind = kind]))
        /\ UNCHANGED <<nature, point, stored, missing, switch>>
  BY DEF NearbySighting
<1>2. PICK a : a = SetPokemonDisplay(p, boost, strong, differs)
  OBVIOUS
<1>3. PICK b \in RecomputeCp(a) :
        LET kind == NearbyKind(b, at)
        IN Save(IF kind = "" THEN b ELSE SetUnknownTimestamp([b EXCEPT !.kind = kind]))
  BY <1>1, <1>2
<1>4. PICK k : k = NearbyKind(b, at)
  OBVIOUS
<1>5. PICK c : c = [b EXCEPT !.kind = k]
  OBVIOUS
<1>6. PICK d : d = IF k = "" THEN b ELSE SetUnknownTimestamp(c)
  OBVIOUS
<1>7. Save(d) /\ UNCHANGED <<nature, point, stored, missing, switch>>
  BY <1>1, <1>2, <1>3, <1>4, <1>5, <1>6
<1>8. a \in Record /\ Fits(a) /\ SameTime(a, p) /\ a.new = p.new /\ SameKind(a.kind, p.kind)
  BY <1>2, IInvFacts, DisplayFits DEF IInv
<1>9. b \in Record /\ SameSight(b, a) /\ SameTime(b, a)
  BY <1>3, <1>8, RecomputeKeeps
<1>10. Fits(b) /\ (Placed(b.kind) <=> Placed(p.kind)) /\ b.new = p.new
       /\ b.end = p.end /\ b.over = p.over /\ b.verified = p.verified
  BY <1>8, <1>9 DEF SameSight, SameKind, SameTime, Fits, ValuesFit, Placed
<1>11. ASSUME k = "" PROVE Acceptable(d)
  <2>1. d = b
    BY <1>6, <1>11
  <2>2. d.verified => d.end = "known" /\ Placed(d.kind)
    BY <1>10, <2>1 DEF IInv, PlacedFirst
  <2>3. d \in Record /\ Fits(d) /\ (Placed(p.kind) => Placed(d.kind))
    BY <1>9, <1>10, <2>1, Zenon
  <2>4. TimeKept(d, p)
    BY <1>10, <2>1 DEF TimeKept
  <2> QED
    BY <2>2, <2>3, <2>4 DEF Acceptable
<1>12. ASSUME k # "" PROVE Acceptable(d)
  <2>1. k \in {"nearby_stop", "nearby_cell"} /\ ~Placed(b.kind)
    <3>1. CASE at = "stop" /\ b.kind \in Unplaced
      BY <1>4, <3>1 DEF NearbyKind, Placed
    <3>2. CASE at = "cell" /\ b.new
      <4>1. p.kind \in Unplaced
        BY <1>10, <3>2 DEF IInv, PlacedFirst, Placed
      <4> QED
        BY <1>4, <1>10, <3>2, <4>1 DEF NearbyKind, Placed
    <3>3. CASE at = "cell" /\ b.kind = "nearby_cell"
      BY <1>4, <3>3 DEF NearbyKind, Placed, Unplaced
    <3> QED
      BY <1>4, <1>12, <3>1, <3>2, <3>3 DEF NearbyKind
  <2>2. c \in Record /\ c.kind = k /\ c.end = b.end /\ c.over = b.over /\ c.verified = b.verified
        /\ c.iv = b.iv /\ c.weather = b.weather /\ c.strong = b.strong
        /\ c.ditto = b.ditto /\ c.odd = b.odd
    BY <1>5, <1>9, <2>1 DEF Record, Kinds, Unplaced
  <2>3. d = SetUnknownTimestamp(c)
    BY <1>6, <1>12
  <2>4. d \in Record /\ SameSight(d, c) /\ d.verified = c.verified /\ TimeKept(d, c)
    BY <2>2, <2>3, UnknownKeeps
  <2>5. ~d.verified /\ ~Placed(p.kind)
    BY <1>10, <2>1, <2>2, <2>4 DEF IInv, PlacedFirst
  <2>6. Fits(d)
    BY <1>10, <2>1, <2>2, <2>4 DEF Fits, ValuesFit, SameSight, Exact
  <2>7. TimeKept(d, p)
    BY <1>10, <2>2, <2>4 DEF TimeKept
  <2> QED
    BY <2>4, <2>5, <2>6, <2>7 DEF Acceptable
<1>13. stored' \in BOOLEAN
  BY <1>7 DEF IInv, TypeOK
<1> QED
  BY <1>7, <1>11, <1>12, <1>13, SavedSighting

\* What an encounter makes of a record that is shown as it is, of another kind or
\* not.
LEMMA ShownFits ==
    ASSUME NEW r \in Record, Fits(r), Blank(r), NEW b \in AsDisplayed(r)
    PROVE  b \in Record /\ Fits(b) /\ SameTime(b, r) /\ SameKind(b.kind, r.kind)
<1>1. PICK boost \in Displays, strong \in BOOLEAN, differs \in BOOLEAN :
        b = SetPokemonDisplay(r, boost, strong, differs)
  BY DEF AsDisplayed
<1> QED
  BY <1>1, DisplayFits

LEMMA EncounterKeeps == ASSUME IInv, Encounter PROVE IInv' /\ KnownKept
<1>1. /\ UNCHANGED <<nature, point, stored, missing, switch>>
      /\ \E timed \in {SetExpireTimestamp(p, knows, FALSE) : knows \in Knows} :
            \E shown \in AsDisplayed(timed) :
               \E r \in AddEncounter([shown EXCEPT !.kind = EncounterKind(shown.kind)]) : Save(r)
  BY DEF Encounter
<1>2. PICK a \in {SetExpireTimestamp(p, knows, FALSE) : knows \in Knows} :
        \E shown \in AsDisplayed(a) :
           \E r \in AddEncounter([shown EXCEPT !.kind = EncounterKind(shown.kind)]) : Save(r)
  BY <1>1
<1>3. PICK b \in AsDisplayed(a) :
        \E r \in AddEncounter([b EXCEPT !.kind = EncounterKind(b.kind)]) : Save(r)
  BY <1>2
<1>4. PICK c : c = [b EXCEPT !.kind = EncounterKind(b.kind)]
  OBVIOUS
<1>5. PICK d \in AddEncounter(c) : Save(d)
  BY <1>3, <1>4
<1>6. PICK knows \in BOOLEAN : a = SetExpireTimestamp(p, knows, FALSE)
  BY <1>2, IInvFacts
<1>7. a \in Record /\ SameSight(a, p) /\ (a.verified => a.end = "known") /\ TimeKept(a, p)
  BY <1>6, IInvFacts, ExpireKeeps
<1>8. Fits(a) /\ Blank(a)
  BY <1>7 DEF IInv, SameSight, Fits, ValuesFit, Blank
<1>9. b \in Record /\ Fits(b) /\ SameTime(b, a)
  BY <1>7, <1>8, ShownFits
<1>10. /\ c \in Record /\ SameTime(c, b) /\ Placed(c.kind)
       /\ c.ditto => ~c.strong
  <2>1. EncounterKind(b.kind) \in Kinds \ Unplaced
    BY DEF EncounterKind, Kinds, Unplaced
  <2> QED
    BY <1>4, <1>9, <2>1 DEF Record, SameTime, Placed, Fits
<1>11. d \in Record /\ Fits(d) /\ SameTime(d, c) /\ d.kind = c.kind
  BY <1>5, <1>10, EncounterFits
<1>12. (d.verified => d.end = "known") /\ TimeKept(d, p)
  BY <1>7, <1>9, <1>10, <1>11 DEF SameTime, TimeKept
<1>13. Acceptable(d)
  BY <1>10, <1>11, <1>12 DEF Acceptable
<1>14. stored' \in BOOLEAN
  BY <1>1 DEF IInv, TypeOK
<1> QED
  BY <1>1, <1>5, <1>13, <1>14, SavedSighting

\* What a tappable tells of place and time.
LEMMA AtTappableFits ==
    ASSUME IInv, NEW b \in AtTappable(p)
    PROVE  /\ b \in Record /\ Fits(b) /\ Blank(b)
           /\ b.verified => b.end = "known" /\ Placed(b.kind)
           /\ Placed(p.kind) => Placed(b.kind)
           /\ b.kind \in Tappable \/ b = p
           /\ TimeKept(b, p) \/ b.kind = "tappable_lure_encounter"
<1>1. CASE b = p
  <2>1. TimeKept(p, p)
    BY DEF TimeKept
  <2> QED
    BY <1>1, <2>1, IInvFacts DEF IInv, PlacedFirst
<1>2. CASE b # p
  <2>1. /\ b \in Record /\ b.kind \in Tappable /\ b.new = p.new /\ b.iv = p.iv
        /\ b.weather = p.weather /\ b.strong = p.strong /\ b.ditto = p.ditto /\ b.odd = p.odd
        /\ b.verified => b.end = "known"
        /\ TimeKept(b, p) \/ b.kind = "tappable_lure_encounter"
    <3>1. CASE nature = "spawn"
      <4>1. PICK knows \in BOOLEAN :
              b = SetExpireTimestamp([p EXCEPT !.kind = "tappable_encounter"], knows, FALSE)
        BY <1>2, <3>1, IInvFacts DEF AtTappable
      <4>2. PICK a : a = [p EXCEPT !.kind = "tappable_encounter"]
        OBVIOUS
      <4>3. /\ a \in Record /\ a.kind = "tappable_encounter" /\ a.new = p.new /\ a.iv = p.iv
            /\ a.weather = p.weather /\ a.strong = p.strong /\ a.ditto = p.ditto /\ a.odd = p.odd
            /\ a.end = p.end /\ a.verified = p.verified /\ a.over = p.over
        BY <4>2, IInvFacts DEF Record, Kinds
      <4>4. b \in Record /\ SameSight(b, a) /\ (b.verified => b.end = "known") /\ TimeKept(b, a)
        BY <4>1, <4>2, <4>3, IInvFacts, ExpireKeeps
      <4> QED
        BY <4>3, <4>4 DEF SameSight, TimeKept, Tappable
    <3>2. CASE nature # "spawn"
      <4>1. b = [p EXCEPT !.kind = "tappable_lure_encounter",
                          !.end = "guess", !.verified = FALSE, !.over = FALSE]
        BY <1>2, <3>2 DEF AtTappable
      <4> QED
        BY <4>1, IInvFacts DEF Record, Kinds, Ends, Tappable
    <3> QED
      BY <3>1, <3>2
  <2>2. Placed(b.kind) /\ b.kind \notin Exact
    BY <2>1 DEF Tappable, Placed, Unplaced, Exact
  <2>3. Fits(b) /\ Blank(b)
    BY <2>1, <2>2 DEF IInv, Fits, ValuesFit, Blank
  <2> QED
    BY <2>1, <2>2, <2>3
<1> QED
  BY <1>1, <1>2

\* The kind is an encounter's only in the end; one that names neither spawnpoint
\* nor stop leaves the kind.
LEMMA TappableEncounterKeeps == ASSUME IInv, TappableEncounter PROVE IInv' /\ KnownKept
<1>1. /\ UNCHANGED <<nature, point, stored, missing, switch>>
      /\ \E timed \in AtTappable(p) : \E shown \in AsDisplayed(timed) :
            \E r \in AddEncounter(shown) : Save(r)
  BY DEF TappableEncounter
<1>2. PICK b \in AtTappable(p) : \E shown \in AsDisplayed(b) : \E r \in AddEncounter(shown) : Save(r)
  BY <1>1
<1>3. PICK c \in AsDisplayed(b) : \E r \in AddEncounter(c) : Save(r)
  BY <1>2
<1>4. PICK d \in AddEncounter(c) : Save(d)
  BY <1>3
<1>5. /\ b \in Record /\ Fits(b) /\ Blank(b)
      /\ b.verified => b.end = "known" /\ Placed(b.kind)
      /\ Placed(p.kind) => Placed(b.kind)
      /\ b.kind \in Tappable \/ b = p
      /\ TimeKept(b, p) \/ b.kind = "tappable_lure_encounter"
  BY <1>2, AtTappableFits
<1>6. c \in Record /\ Fits(c) /\ SameTime(c, b) /\ SameKind(c.kind, b.kind)
  BY <1>3, <1>5, ShownFits
<1>7. d \in Record /\ Fits(d) /\ SameTime(d, c) /\ d.kind = c.kind
  <2>1. c.ditto => ~c.strong
    BY <1>6 DEF Fits
  <2> QED
    BY <1>4, <1>6, <2>1, EncounterFits
<1>8. /\ d.verified => d.end = "known" /\ Placed(d.kind)
      /\ Placed(p.kind) => Placed(d.kind)
      /\ TimeKept(d, p) \/ d.kind = "tappable_lure_encounter"
  <2>1. d.verified = b.verified /\ d.end = b.end /\ d.over = b.over
    BY <1>6, <1>7 DEF SameTime
  <2>2. Placed(d.kind) <=> Placed(b.kind)
    BY <1>6, <1>7 DEF SameKind
  <2>3. b.kind = "tappable_lure_encounter" => d.kind = "tappable_lure_encounter"
    BY <1>6, <1>7 DEF SameKind, Tappable
  <2> QED
    BY <1>5, <2>1, <2>2, <2>3 DEF TimeKept
<1>9. Acceptable(d)
  BY <1>7, <1>8 DEF Acceptable
<1>10. stored' \in BOOLEAN
  BY <1>1 DEF IInv, TypeOK
<1> QED
  BY <1>1, <1>4, <1>9, <1>10, SavedSighting

\* A disk encounter that is applied to a record.
LEMMA DiskEncounteredFits ==
    ASSUME NEW r \in Record, Fits(r), Blank(r), r.verified => r.end = "known",
           NEW d \in DiskEncountered(r)
    PROVE  d \in Record /\ Fits(d) /\ SameTime(d, r) /\ Placed(d.kind)
<1>1. PICK b \in AsDisplayed(r) : d \in AddEncounter([b EXCEPT !.kind = "lure_encounter"])
  BY DEF DiskEncountered
<1>2. PICK c : c = [b EXCEPT !.kind = "lure_encounter"]
  OBVIOUS
<1>3. b \in Record /\ Fits(b) /\ SameTime(b, r)
  BY <1>1, ShownFits
<1>4. c \in Record /\ SameTime(c, b) /\ Placed(c.kind) /\ (c.ditto => ~c.strong)
  BY <1>2, <1>3 DEF Record, Kinds, Unplaced, SameTime, Placed, Fits
<1>5. d \in Record /\ Fits(d) /\ SameTime(d, c) /\ d.kind = c.kind
  BY <1>1, <1>2, <1>4, EncounterFits
<1> QED
  BY <1>3, <1>4, <1>5 DEF SameTime

LEMMA DiskEncounterKeeps == ASSUME IInv, DiskEncounter PROVE IInv' /\ KnownKept
<1>1. UNCHANGED <<nature, point, stored, missing, switch>> /\ \E r \in DiskEncountered(p) : Save(r)
  BY DEF DiskEncounter
<1>2. PICK d \in DiskEncountered(p) : Save(d)
  BY <1>1
<1>3. d \in Record /\ Fits(d) /\ SameTime(d, p) /\ Placed(d.kind)
  BY <1>2, IInvFacts, DiskEncounteredFits DEF IInv
<1>4. (d.verified => d.end = "known") /\ TimeKept(d, p)
  BY <1>3, IInvFacts DEF SameTime, TimeKept
<1>5. Acceptable(d)
  BY <1>3, <1>4 DEF Acceptable
<1>6. stored' \in BOOLEAN
  BY <1>1 DEF IInv, TypeOK
<1> QED
  BY <1>1, <1>2, <1>5, <1>6, SavedSighting

LEMMA FromMapFits ==
    ASSUME IInv, NEW w \in Displays, NEW s \in BOOLEAN, NEW known \in BOOLEAN,
           NEW timed \in BOOLEAN, NEW q, q = FromMap(p, w, s, known, timed)
    PROVE  Acceptable(q) /\ Blank(q)
<1>1. CASE ~p.new \/ ~known
  <2>1. q = p
    BY <1>1 DEF FromMap
  <2>2. p \in Record /\ Fits(p) /\ Blank(p) /\ (p.verified => p.end = "known" /\ Placed(p.kind))
    BY IInvFacts DEF IInv, PlacedFirst
  <2>3. TimeKept(p, p)
    BY DEF TimeKept
  <2> QED
    BY <2>1, <2>2, <2>3 DEF Acceptable
<1>2. CASE p.new /\ known
  <2>1. PICK a : a = [p EXCEPT !.kind = "lure_wild"]
    OBVIOUS
  <2>2. PICK b : b = SetPokemonDisplay(a, w, s, FALSE)
    OBVIOUS
  <2>3. q = IF timed /\ ~p.verified
            THEN [b EXCEPT !.end = "known", !.verified = TRUE, !.over = FALSE]
            ELSE [b EXCEPT !.verified = FALSE]
    BY <1>2, <2>1, <2>2 DEF FromMap
  <2>4. /\ a \in Record /\ a.kind = "lure_wild" /\ a.new = p.new /\ a.iv = p.iv
        /\ a.weather = p.weather /\ a.strong = p.strong /\ a.ditto = p.ditto /\ a.odd = p.odd
        /\ a.end = p.end /\ a.verified = p.verified /\ a.over = p.over
    BY <2>1, IInvFacts DEF Record, Kinds
  <2>5. Fits(a) /\ Blank(a)
    BY <2>4 DEF IInv, Fits, ValuesFit, Blank, Exact
  <2>6. b \in Record /\ Fits(b) /\ SameTime(b, a) /\ SameKind(b.kind, a.kind) /\ b.new = a.new
    BY <2>2, <2>4, <2>5, DisplayFits
  <2>7. Placed(b.kind)
    BY <2>4, <2>6 DEF SameKind, Placed, Unplaced
  <2>8. /\ q \in Record /\ q.kind = b.kind /\ q.iv = b.iv /\ q.weather = b.weather
        /\ q.strong = b.strong /\ q.ditto = b.ditto /\ q.odd = b.odd
        /\ q.verified => q.end = "known"
        /\ q.end = b.end \/ q.end = "known"
    BY <2>3, <2>6 DEF Record, Ends
  <2>9. Fits(q) /\ Placed(q.kind)
    BY <2>6, <2>7, <2>8 DEF Fits, Placed
  <2>10. Blank(q)
    <3>1. a.iv = NoIv /\ ~(a.kind \in Exact) /\ ~a.ditto
      BY <1>2, <2>4, <2>5 DEF Blank
    <3>2. q.iv = a.iv /\ q.kind = a.kind /\ q.ditto = a.ditto
      <4>1. b.iv = a.iv /\ b.kind = a.kind /\ b.ditto = a.ditto
        BY <1>2, <2>2, <2>4 DEF SetPokemonDisplay, Record
      <4> QED
        BY <2>8, <4>1
    <3> QED
      BY <3>1, <3>2 DEF Blank
  <2>11. TimeKept(q, p)
    BY <2>4, <2>6, <2>8 DEF TimeKept, SameTime
  <2> QED
    BY <2>8, <2>9, <2>10, <2>11 DEF Acceptable
<1>3. p.new \in BOOLEAN
  BY IInvFacts
<1> QED
  BY <1>1, <1>2, <1>3

LEMMA MapSightingKeeps == ASSUME IInv, MapSighting PROVE IInv' /\ KnownKept
<1>1. PICK boost \in Displays, strong \in BOOLEAN, known \in BOOLEAN, timed \in BOOLEAN :
        LET mapped == FromMap(p, boost, strong, known, timed)
        IN /\ nature = "lure"
           /\ \/ stored /\ \E r \in DiskEncountered(mapped) : Save(r)
              \/ ~stored /\ Save(mapped)
           /\ stored' = FALSE
           /\ UNCHANGED <<nature, point, missing, switch>>
  BY DEF MapSighting
<1>2. PICK m : m = FromMap(p, boost, strong, known, timed)
  OBVIOUS
<1>3. /\ \/ \E d \in DiskEncountered(m) : Save(d)
         \/ Save(m)
      /\ stored' = FALSE /\ UNCHANGED <<nature, point, missing, switch>>
  BY <1>1, <1>2
<1>4. nature' = nature /\ point' = point /\ stored' \in BOOLEAN /\ missing' = missing /\ switch' = switch
  BY <1>3
<1>5. Acceptable(m) /\ Blank(m)
  BY <1>2, FromMapFits
<1>6. ASSUME NEW d \in DiskEncountered(m) PROVE Acceptable(d)
  <2>1. m \in Record /\ Fits(m) /\ (m.verified => m.end = "known")
    BY <1>5 DEF Acceptable
  <2>2. d \in Record /\ Fits(d) /\ SameTime(d, m) /\ Placed(d.kind)
    BY <1>5, <1>6, <2>1, DiskEncounteredFits
  <2>3. TimeKept(m, p)
    <3>1. m.kind = "tappable_lure_encounter" => m = p
      <4>1. CASE ~p.new \/ ~known
        BY <1>2, <4>1 DEF FromMap
      <4>2. CASE p.new /\ known
        BY <1>2, <4>2, IInvFacts DEF FromMap, SetPokemonDisplay, Record
      <4> QED
        BY <4>1, <4>2, IInvFacts
    <3>2. TimeKept(p, p)
      BY DEF TimeKept
    <3> QED
      BY <1>5, <3>1, <3>2 DEF Acceptable
  <2>4. (d.verified => d.end = "known") /\ TimeKept(d, p)
    BY <2>1, <2>2, <2>3 DEF SameTime, TimeKept
  <2> QED
    BY <2>2, <2>4 DEF Acceptable
<1>7. CASE \E d \in DiskEncountered(m) : Save(d)
  BY <1>4, <1>6, <1>7, SavedSighting
<1>8. CASE Save(m)
  BY <1>4, <1>5, <1>8, SavedSighting
<1> QED
  BY <1>3, <1>7, <1>8

\* No shift of a zero bit sets a bit: the switch finds no pokemon boosted.
LEMMA NeverSwitchedOn == ASSUME NEW w PROVE SwitchedWeather(w) = None
<1>1. 0 \notin Boosting
  BY WeatherAssumption DEF None
<1> QED
  BY <1>1 DEF SwitchedWeather

\* What the switch has changed and not saved.
LEMMA UnsavedKeeps ==
    ASSUME IInv, NEW x \in Record, Fits(x), SameTime(x, p), x.new = p.new, ~p.new,
           x.strong = p.strong, x.ditto = p.ditto, Placed(x.kind) <=> Placed(p.kind),
           p' = x, UNCHANGED <<nature, row, point, stored, missing, first, counted>>,
           switch' \in Weathers \cup {None}
    PROVE  IInv' /\ KnownKept
<1>1. TypeOK'
  BY DEF IInv, TypeOK
<1>2. Fits(p)' /\ Blank(p)' /\ RowFits'
  BY DEF IInv, Fits, Blank, RowFits
<1>3. PlacedFirst' /\ CountedFits'
  BY DEF IInv, PlacedFirst, CountedFits, SameTime, Placed
<1>4. KnownKept
  BY DEF KnownKept, SameTime
<1> QED
  BY <1>1, <1>2, <1>3, <1>4 DEF IInv

LEMMA ProactiveIVSwitchKeeps == ASSUME IInv, ProactiveIVSwitch PROVE IInv' /\ KnownKept
<1>1. PICK x : x = RepopulateIv(p, None, p.strong)
  OBVIOUS
<1>2. /\ ~p.new /\ switch' = None /\ UNCHANGED <<nature, point, stored, missing>>
      /\ \/ x.cp /\ p' = x /\ UNCHANGED <<row, first, counted>>
         \/ \E toDB \in BOOLEAN : \E r \in Switched(x, None) : SaveAs(r, toDB /\ r.cp)
  BY <1>1, NeverSwitchedOn DEF ProactiveIVSwitch
<1>3. p \in Record /\ Fits(p) /\ p.strong \in BOOLEAN /\ None \in Displays
  BY IInvFacts DEF IInv, Record, Displays
<1>4. PICK q : q = Displayed(x, None, p.strong)
  OBVIOUS
<1>5. PICK s \in BOOLEAN : s = p.strong
  BY <1>3
<1>6. p.ditto => ~s
  BY <1>3, <1>5 DEF Fits
<1>7. /\ x \in Record /\ q \in Record /\ Fits(q) /\ SameTime(q, p) /\ q.new = p.new
      /\ SameKind(q.kind, p.kind) /\ q.kind = x.kind /\ q.ditto = x.ditto
      /\ SameTime(x, p) /\ x.strong = p.strong /\ x.ditto = p.ditto /\ x.new = p.new
      /\ x.cp => Fits(x)
  <2>1. x = RepopulateIv(p, None, s) /\ q = Displayed(x, None, s)
    BY <1>1, <1>4, <1>5
  <2>2. /\ x \in Record /\ q \in Record /\ Fits(q) /\ SameTime(q, p) /\ q.new = p.new
        /\ SameKind(q.kind, p.kind) /\ q.kind = x.kind /\ q.ditto = x.ditto
        /\ SameTime(x, p) /\ x.strong = p.strong /\ x.ditto = p.ditto /\ x.new = p.new
        /\ x.cp /\ s = p.strong => Fits(x)
    BY <1>3, <1>6, <2>1, RepopulateFits
  <2> QED
    BY <1>5, <2>2
<1>8. Placed(x.kind) <=> Placed(p.kind)
  BY <1>7 DEF SameKind
<1>9. /\ nature' = nature /\ point' \in BOOLEAN /\ stored' \in BOOLEAN
      /\ missing' \in BOOLEAN /\ switch' \in Weathers \cup {None}
  BY <1>2 DEF IInv, TypeOK
<1>10. CASE x.cp /\ p' = x /\ UNCHANGED <<row, first, counted>>
  BY <1>2, <1>7, <1>8, <1>9, <1>10, UnsavedKeeps
<1>11. ASSUME NEW toDB \in BOOLEAN, NEW r \in Switched(x, None), SaveAs(r, toDB /\ r.cp)
       PROVE  IInv' /\ KnownKept
  <2>1. q = [x EXCEPT !.weather = None]
    BY <1>3, <1>4, <1>7 DEF Displayed, Record
  <2>2. r \in RecomputeCp(q)
    BY <1>11, <2>1 DEF Switched
  <2>3. r \in Record /\ SameSight(r, q) /\ SameTime(r, q)
    BY <1>7, <2>2, RecomputeKeeps
  <2>4. /\ Fits(r) /\ SameTime(r, p) /\ r.strong = p.strong /\ r.ditto = p.ditto
        /\ Placed(r.kind) <=> Placed(p.kind)
    <3>1. q.strong = p.strong
      BY <1>4, <1>7 DEF Displayed, Record
    <3> QED
      BY <1>7, <1>8, <2>3, <3>1 DEF SameSight, SameTime, Fits, ValuesFit, Placed
  <2>5. Acceptable(r)
    <3>1. r.verified => r.end = "known" /\ Placed(r.kind)
      BY <2>4 DEF IInv, PlacedFirst, SameTime
    <3>2. TimeKept(r, p)
      BY <2>4 DEF TimeKept, SameTime
    <3> QED
      BY <2>3, <2>4, <3>1, <3>2 DEF Acceptable
  <2>6. (toDB /\ r.cp) \in BOOLEAN
    BY <1>11
  <2> QED
    BY <1>9, <1>11, <2>4, <2>5, <2>6, SaveKeeps
<1> QED
  BY <1>2, <1>10, <1>11

\* The steps that leave the record and what is written of it alone.
LEMMA AsideKeeps ==
    ASSUME IInv, UNCHANGED <<nature, p, row, first, counted>>,
           point' \in BOOLEAN, stored' \in BOOLEAN, missing' \in BOOLEAN,
           switch' \in Weathers \cup {None}
    PROVE  IInv' /\ KnownKept
<1>1. TypeOK'
  BY DEF IInv, TypeOK
<1>2. Fits(p)' /\ Blank(p)' /\ RowFits'
  BY DEF IInv, Fits, Blank, RowFits
<1>3. PlacedFirst' /\ CountedFits'
  BY DEF IInv, PlacedFirst, CountedFits, Placed
<1>4. KnownKept
  BY DEF KnownKept
<1> QED
  BY <1>1, <1>2, <1>3, <1>4 DEF IInv

LEMMA EndPassesKeeps == ASSUME IInv, EndPasses PROVE IInv' /\ KnownKept
<1>1. p' = [p EXCEPT !.over = TRUE]
      /\ UNCHANGED <<nature, row, point, stored, missing, switch, first, counted>>
  BY DEF EndPasses
<1>2. /\ p' \in Record /\ p'.new = p.new /\ p'.kind = p.kind /\ p'.iv = p.iv
      /\ p'.weather = p.weather /\ p'.strong = p.strong /\ p'.ditto = p.ditto /\ p'.odd = p.odd
      /\ p'.end = p.end /\ p'.verified = p.verified
  BY <1>1, IInvFacts DEF Record
<1>3. TypeOK'
  BY <1>1, <1>2 DEF IInv, TypeOK
<1>4. Fits(p)' /\ Blank(p)' /\ RowFits'
  BY <1>1, <1>2 DEF IInv, Fits, Blank, RowFits
<1>5. PlacedFirst' /\ CountedFits'
  BY <1>1, <1>2 DEF IInv, PlacedFirst, CountedFits, Placed
<1>6. KnownKept
  BY <1>2 DEF KnownKept
<1> QED
  BY <1>3, <1>4, <1>5, <1>6 DEF IInv

LEMMA ReloadKeeps == ASSUME IInv, Reload PROVE IInv' /\ KnownKept
<1>1. PICK scans \in SUBSET p.scans :
        /\ ~p.new
        /\ p' = [p EXCEPT !.scans = scans, !.kind = row.kind, !.weather = row.weather,
                          !.iv = row.iv, !.cp = row.cp, !.odd = row.odd]
        /\ UNCHANGED <<nature, row, point, stored, missing, switch, first, counted>>
  BY DEF Reload
<1>2. row \in RowType
  BY DEF IInv, TypeOK, RowType
<1>3. /\ p' \in Record /\ p'.new = p.new /\ p'.kind = row.kind /\ p'.iv = row.iv
      /\ p'.weather = row.weather /\ p'.strong = p.strong
      /\ p'.ditto = p.ditto /\ p'.odd = row.odd
      /\ p'.end = p.end /\ p'.verified = p.verified
  BY <1>1, <1>2, IInvFacts DEF Record, RowType
<1>4. TypeOK'
  BY <1>1, <1>3 DEF IInv, TypeOK
<1>5. Fits(p)' /\ Blank(p)' /\ RowFits'
  BY <1>1, <1>3 DEF IInv, RowFits, Fits, Blank
<1>6. PlacedFirst' /\ CountedFits'
  <2>1. Placed(p'.kind) <=> Placed(p.kind)
    BY <1>3 DEF IInv, PlacedFirst, Placed
  <2> QED
    BY <1>1, <1>3, <2>1 DEF IInv, PlacedFirst, CountedFits, Placed
<1>7. KnownKept
  BY <1>3 DEF KnownKept
<1> QED
  BY <1>4, <1>5, <1>6, <1>7 DEF IInv

LEMMA ForgetKeeps == ASSUME IInv, Forget PROVE IInv' /\ KnownKept
<1>1. /\ p' = NewRecord /\ row' = RowOf(NewRecord) /\ counted' = [seen |-> 0, encountered |-> 0]
      /\ UNCHANGED <<nature, point, stored, missing, switch, first>>
  BY DEF Forget
<1>2. NewRecord \in Record /\ RowOf(NewRecord) \in RowType
  BY DEF NewRecord, RowOf, Record, RowType, Kinds, Unplaced, Displays, Categories, Ends, NoIv
<1>3. TypeOK'
  BY <1>1, <1>2 DEF IInv, TypeOK, RowType
<1>4. Fits(p)' /\ Blank(p)' /\ RowFits'
  BY <1>1 DEF NewRecord, RowOf, Fits, ValuesFit, Blank, RowFits, NoIv, Exact
<1>5. PlacedFirst'
  BY <1>1 DEF NewRecord, RowOf, PlacedFirst, Placed, Unplaced
<1>6. CountedFits'
  BY <1>1 DEF CountedFits
<1>7. KnownKept
  BY <1>1 DEF KnownKept, NewRecord
<1> QED
  BY <1>3, <1>4, <1>5, <1>6, <1>7 DEF IInv

LEMMA EncounterCacheExpiresKeeps ==
    ASSUME IInv, EncounterCacheExpires PROVE IInv' /\ KnownKept
<1>1. /\ first' = FALSE /\ counted' = [counted EXCEPT !.encountered = 0]
      /\ UNCHANGED <<nature, p, row, point, stored, missing, switch>>
  BY DEF EncounterCacheExpires
<1>2. /\ counted' \in [seen : Nat, encountered : Nat]
      /\ counted'.seen = counted.seen /\ counted'.encountered = 0
  BY <1>1 DEF IInv, TypeOK
<1>3. TypeOK'
  BY <1>1, <1>2 DEF IInv, TypeOK
<1>4. Fits(p)' /\ Blank(p)' /\ RowFits' /\ PlacedFirst'
  BY <1>1 DEF IInv, Fits, Blank, RowFits, PlacedFirst, Placed
<1>5. CountedFits'
  BY <1>1, <1>2 DEF IInv, CountedFits, Placed
<1>6. KnownKept
  BY <1>1 DEF KnownKept
<1> QED
  BY <1>3, <1>4, <1>5, <1>6 DEF IInv

LEMMA NextKeeps == ASSUME IInv, [Next]_vars PROVE IInv' /\ (KnownKept \/ UNCHANGED vars)
<1>0. /\ point \in BOOLEAN /\ stored \in BOOLEAN /\ missing \in BOOLEAN
      /\ switch \in Weathers \cup {None}
  BY DEF IInv, TypeOK
<1>1. CASE SpawnpointLearns
  BY <1>0, <1>1, AsideKeeps DEF SpawnpointLearns
<1>2. CASE DiskEncounterMisses
  BY <1>0, <1>2, AsideKeeps DEF DiskEncounterMisses
<1>3. CASE DiskEncounterKept
  BY <1>0, <1>3, AsideKeeps DEF DiskEncounterKept
<1>4. CASE DiskEncounterExpires
  BY <1>0, <1>4, AsideKeeps DEF DiskEncounterExpires
<1>5. CASE SwitchLooks
  BY <1>0, <1>5, AsideKeeps DEF SwitchLooks
<1>6. CASE SwitchSkips
  BY <1>0, <1>6, AsideKeeps DEF SwitchSkips
<1>7. CASE UNCHANGED vars
  BY <1>0, <1>7, AsideKeeps DEF vars
<1> QED
  BY <1>1, <1>2, <1>3, <1>4, <1>5, <1>6, <1>7, WildSightingKeeps, NearbySightingKeeps,
     EncounterKeeps, TappableEncounterKeeps, MapSightingKeeps, DiskEncounterKeeps,
     ProactiveIVSwitchKeeps, EndPassesKeeps, EncounterCacheExpiresKeeps,
     ReloadKeeps, ForgetKeeps DEF Next
-----------------------------------------------------------------------------
(* The theorems.                                                           *)

\* The inductive invariant holds in every state.
THEOREM SpecIInv == Spec => []IInv
<1>1. IInv /\ [Next]_vars => IInv'
  BY NextKeeps
<1> QED
  BY <1>1, InitIInv, PTL DEF Spec

\* Every variable of a pokemon's record keeps its type.
THEOREM SpecTypeOK == Spec => []TypeOK
<1>1. IInv => TypeOK
  BY DEF IInv
<1> QED
  BY <1>1, SpecIInv, PTL

\* In every order of sightings, reloads and proactive switches, the values that
\* a record gives are those for the boost it gives, and one that says it was
\* encountered has values (repopulateIv, setPokemonDisplay, addEncounterPokemon).
THEOREM SpecIvFitsBoost == Spec => []IvFitsBoost
<1>1. IInv => IvFitsBoost
  BY DEF IInv, Fits, ValuesFit, IvFitsBoost, Exact
<1> QED
  BY <1>1, SpecIInv, PTL

\* No guess is called verified (setExpireTimestampFromSpawnpoint, updateFromNearby).
THEOREM SpecVerifiedIsKnown == Spec => []VerifiedIsKnown
<1>1. IInv => VerifiedIsKnown
  BY DEF IInv, PlacedFirst, VerifiedIsKnown
<1> QED
  BY <1>1, SpecIInv, PTL

\* However its weather and its seen type change, a pokemon is counted once as
\* seen, and once as encountered while the encounter cache remembers it
\* (updatePokemonStats).
THEOREM SpecCountedOnce == Spec => []CountedOnce
<1>1. IInv => CountedOnce
  BY DEF IInv, CountedFits, CountedOnce
<1> QED
  BY <1>1, SpecIInv, PTL

\* No sighting replaces a known despawn time by a guess while it lies ahead.
THEOREM SpecKnownEndIsKept == Spec => KnownEndIsKept
<1>1. IInv /\ [Next]_vars =>
        [p.end = "known" /\ ~p.over /\ p'.kind # "tappable_lure_encounter" /\ ~p'.new
           => p'.end = "known"]_vars
  BY NextKeeps DEF KnownKept
<1> QED
  BY <1>1, SpecIInv, PTL DEF Spec, KnownEndIsKept
-----------------------------------------------------------------------------
(* The despawn second (Despawn, instantiated as Time), for hours of every  *)
(* length, of 3600 seconds as in the code, too.                            *)

SecondsOfHour == 0 .. Hour - 1

\* What is not tolerated is far away on the circle of the hour.
LEMMA UntoleratedIsApart ==
    ASSUME Hour \in Nat \ {0}, NEW old \in SecondsOfHour, NEW new \in SecondsOfHour,
           ~Time!Tolerated(old, new)
    PROVE  Time!Apart(old, new) > 2
<1>1. old \in Int /\ new \in Int /\ old >= 0 /\ new >= 0 /\ old <= Hour - 1 /\ new <= Hour - 1
  BY DEF SecondsOfHour
<1>2. /\ ~(old <= 1 /\ new >= Hour - 2)
      /\ ~(new <= 1 /\ old >= Hour - 2)
      /\ ~(Time!Abs(old - new) <= 2)
  BY DEF Time!Tolerated
<1> QED
  BY <1>1, <1>2 DEF Time!Apart, Time!Abs

\* The time to the despawn second is that of an hour at most.
LEMMA OffsetInHour ==
    ASSUME Hour \in Nat \ {0}, despawnSec \in SecondsOfHour, NEW second \in SecondsOfHour
    PROVE  Time!DespawnOffset(second) \in SecondsOfHour
  BY DEF Time!DespawnOffset, SecondsOfHour

LEMMA MeasureKeeps ==
    ASSUME Hour \in Nat \ {0}, Jitter \in Nat, Time!TypeOK, Time!Measure
    PROVE  /\ Time!TypeOK'
           /\ despawnSec # Time!Unknown /\ despawnSec' # despawnSec
                => Time!Apart(despawnSec, despawnSec') > 2
<1>1. PICK error \in (-Jitter) .. Jitter :
        /\ despawnSec' = Time!SetDespawnSec(despawnSec, (ends + error) % Hour)
        /\ measured' = (ends + error) % Hour
        /\ UNCHANGED <<now, ends, expire, verified, sighted>>
  BY DEF Time!Measure
<1>2. PICK second : second = (ends + error) % Hour
  OBVIOUS
<1>3. second \in SecondsOfHour
  <2>1. ends + error \in Int
    BY DEF Time!TypeOK
  <2> QED
    BY <1>2, <2>1 DEF SecondsOfHour
<1>4. despawnSec' = Time!SetDespawnSec(despawnSec, second) /\ measured' = second
  BY <1>1, <1>2
<1>5. Time!TypeOK'
  BY <1>1, <1>3, <1>4 DEF Time!TypeOK, Time!SetDespawnSec, SecondsOfHour
<1>6. ASSUME despawnSec # Time!Unknown, despawnSec' # despawnSec
      PROVE  Time!Apart(despawnSec, despawnSec') > 2
  <2>1. ~Time!Tolerated(despawnSec, second) /\ despawnSec' = second
    BY <1>4, <1>6 DEF Time!SetDespawnSec
  <2> QED
    BY <1>3, <1>6, <2>1, UntoleratedIsApart DEF Time!TypeOK, SecondsOfHour
<1> QED
  BY <1>5, <1>6

LEMMA SightingKeeps ==
    ASSUME Hour \in Nat \ {0}, FirstGuess \in Nat, NextGuess \in Nat, MaxTime \in Nat,
           Time!TypeOK, Time!WildSighting \/ Time!Encounter
    PROVE  Time!TypeOK' /\ despawnSec' = despawnSec
<1>1. UNCHANGED <<now, ends, despawnSec, measured>> /\ Time!SetExpireTimestamp
  BY DEF Time!WildSighting, Time!Encounter
<1>2. now \in Nat /\ now % Hour \in SecondsOfHour /\ (expire \in Nat \/ expire = Time!Unknown)
  BY DEF Time!TypeOK, SecondsOfHour
<1>3. expire' \in Nat /\ verified' \in BOOLEAN /\ sighted' \in (0 .. MaxTime) \cup {Time!Unknown}
  <2>1. CASE despawnSec = Time!Unknown
    <3>1. Time!SetUnknownTimestamp
      BY <1>1, <2>1 DEF Time!SetExpireTimestamp
    <3>2. verified' \in BOOLEAN /\ sighted' = Time!Unknown
      BY <3>1 DEF Time!SetUnknownTimestamp
    <3>3. expire' = IF expire = Time!Unknown THEN now + FirstGuess
                    ELSE IF expire < now THEN now + NextGuess ELSE expire
      BY <3>1 DEF Time!SetUnknownTimestamp
    <3>4. expire' \in Nat
      BY <1>2, <3>3
    <3> QED
      BY <3>2, <3>4
  <2>2. CASE despawnSec # Time!Unknown
    <3>1. Time!DespawnOffset(now % Hour) \in Nat
      BY <1>2, <2>2, OffsetInHour DEF Time!TypeOK, SecondsOfHour
    <3> QED
      BY <1>1, <1>2, <2>2, <3>1 DEF Time!SetExpireTimestamp, Time!TypeOK
  <2> QED
    BY <2>1, <2>2
<1> QED
  BY <1>1, <1>3 DEF Time!TypeOK

LEMMA NextPokemonKeeps ==
    ASSUME Hour \in Nat \ {0}, Seconds \subseteq Nat, Time!TypeOK, Time!NextPokemon
    PROVE  Time!TypeOK' /\ despawnSec' = despawnSec
<1>1. PICK second \in Seconds :
        /\ ends' = ends - (ends % Hour) + Hour + second
        /\ measured' \in {measured, Time!Unknown}
        /\ expire' = Time!Unknown /\ verified' = FALSE /\ sighted' = Time!Unknown
        /\ UNCHANGED <<now, despawnSec>>
  BY DEF Time!NextPokemon
<1>2. ends \in Nat /\ ends % Hour \in SecondsOfHour
  BY DEF Time!TypeOK, SecondsOfHour
<1>3. ends' \in Nat
  BY <1>1, <1>2 DEF SecondsOfHour
<1> QED
  BY <1>1, <1>3 DEF Time!TypeOK

LEMMA TickKeeps ==
    ASSUME MaxTime \in Nat, Time!TypeOK, Time!Tick \/ UNCHANGED Time!vars
    PROVE  Time!TypeOK' /\ despawnSec' = despawnSec
  BY DEF Time!TypeOK, Time!Tick, Time!vars

\* The times and seconds of a spawnpoint and its pokemon keep their types.
THEOREM TimeTypeOK ==
    ASSUME Hour \in Nat \ {0}, Jitter \in Nat, FirstGuess \in Nat, NextGuess \in Nat,
           MaxTime \in Nat, Seconds \subseteq Nat
    PROVE  Time!Spec => []Time!TypeOK
<1>1. Time!Init => Time!TypeOK
  <2> SUFFICES ASSUME Time!Init PROVE Time!TypeOK
    OBVIOUS
  <2>1. verified \in BOOLEAN
    BY DEF Time!Init
  <2>2. now \in 0 .. MaxTime /\ ends \in Nat
    BY DEF Time!Init
  <2> QED
    BY <2>1, <2>2 DEF Time!Init, Time!TypeOK
<1>2. Time!TypeOK /\ [Time!Next]_(Time!vars) => Time!TypeOK'
  BY MeasureKeeps, SightingKeeps, NextPokemonKeeps, TickKeeps DEF Time!Next
<1> QED
  BY <1>1, <1>2, PTL DEF Time!Spec

\* Measurements that differ from the stored second by two seconds at most, also
\* across the hour's end, do not change it (Time!SetDespawnSec).
THEOREM SecondDoesNotFlap ==
    ASSUME Hour \in Nat \ {0}, Jitter \in Nat, FirstGuess \in Nat, NextGuess \in Nat,
           MaxTime \in Nat, Seconds \subseteq Nat
    PROVE  Time!Spec => SecondIsStable
<1>1. Time!TypeOK /\ [Time!Next]_(Time!vars) =>
        [despawnSec # Time!Unknown /\ despawnSec' # despawnSec
           => Time!Apart(despawnSec, despawnSec') > 2]_(Time!vars)
  BY MeasureKeeps, SightingKeeps, NextPokemonKeeps, TickKeeps DEF Time!Next
<1> QED
  BY <1>1, TimeTypeOK, PTL DEF Time!Spec, SecondIsStable, Time!SecondIsStable
-----------------------------------------------------------------------------
(* A verified time is true.                                                *)

LEMMA SecondOf ==
    ASSUME Hour \in Nat \ {0}, NEW q \in Int, NEW y \in 0 .. Hour - 1
    PROVE  ((q * Hour) + y) % Hour = y
  OBVIOUS
\* The second of the hour after a step that crosses the hour's end, forwards or
\* backwards.
LEMMA SecondAfter ==
    ASSUME Hour \in Nat \ {0}, NEW n \in Int, NEW step \in Int, NEW h \in {-1, 0, 1},
           (n % Hour) + step - (h * Hour) \in 0 .. Hour - 1
    PROVE  (n + step) % Hour = (n % Hour) + step - (h * Hour)
<1>1. PICK k \in Int : n = (k * Hour) + (n % Hour)
  <2>1. n \div Hour \in Int /\ n = ((n \div Hour) * Hour) + (n % Hour)
    OBVIOUS
  <2> QED
    BY <2>1
<1>2. PICK r \in Int : r = n % Hour
  OBVIOUS
<1>3. PICK x \in 0 .. Hour - 1 : x = r + step - (h * Hour)
  BY <1>2
<1>4. PICK m \in Int : m = k + h
  OBVIOUS
<1>5. m * Hour = (k * Hour) + (h * Hour)
  BY <1>4
<1>6. n + step = (m * Hour) + x
  BY <1>1, <1>2, <1>3, <1>5
<1>7. ((m * Hour) + x) % Hour = x
  BY SecondOf
<1> QED
  BY <1>2, <1>3, <1>6, <1>7

\* The stored second is that of the pokemon that is there, give or take Off.
Near(a, b) == \E d \in (-Time!Off) .. Time!Off, h \in -2 .. 2 : a = b + d - (h * Hour)
MeasuredIsNear ==
    measured # Time!Unknown =>
        despawnSec # Time!Unknown /\ Near(despawnSec, ends % Hour)
\* A pokemon of the first hour has a second only from a measurement.
FirstIsMeasured == measured = Time!Unknown /\ despawnSec # Time!Unknown => ends >= Hour
TimeInv == Time!TypeOK /\ MeasuredIsNear /\ FirstIsMeasured /\ VerifiedIsTrue

TimeAssumptions ==
    /\ Hour \in Nat \ {0} /\ Jitter \in Nat /\ 2 * Time!Off < Hour
    /\ FirstGuess \in Nat /\ NextGuess \in Nat /\ MaxTime \in Nat
    /\ Seconds \subseteq SecondsOfHour

LEMMA ToleratedIsNear ==
    ASSUME Hour \in Nat \ {0}, NEW old \in SecondsOfHour, NEW new \in SecondsOfHour,
           Time!Tolerated(old, new)
    PROVE  \E t \in -3 .. 3, h \in {-1, 0, 1} : old = new + t - (h * Hour)
<1>1. old \in Int /\ new \in Int /\ old >= 0 /\ new >= 0 /\ old <= Hour - 1 /\ new <= Hour - 1
  BY DEF SecondsOfHour
<1>2. CASE old <= 1 /\ new >= Hour - 2
  <2>1. PICK t \in Int : t = old - new + Hour
    BY <1>1
  <2>2. t \in -3 .. 3 /\ old = new + t - (1 * Hour)
    BY <1>1, <1>2, <2>1
  <2> QED
    BY <2>2
<1>3. CASE new <= 1 /\ old >= Hour - 2
  <2>1. PICK t \in Int : t = old - new - Hour
    BY <1>1
  <2>2. t \in -3 .. 3 /\ old = new + t - ((-1) * Hour)
    BY <1>1, <1>3, <2>1
  <2> QED
    BY <2>2
<1>4. CASE Time!Abs(old - new) <= 2
  <2>1. PICK t \in Int : t = old - new
    BY <1>1
  <2>2. t \in -3 .. 3 /\ old = new + t - (0 * Hour)
    BY <1>1, <1>4, <2>1 DEF Time!Abs
  <2> QED
    BY <2>2
<1> QED
  BY <1>2, <1>3, <1>4 DEF Time!Tolerated

LEMMA MeasureIsNear ==
    ASSUME TimeAssumptions, TimeInv, Time!Measure
    PROVE  TimeInv'
<1>1. PICK error \in (-Jitter) .. Jitter :
        /\ despawnSec' = Time!SetDespawnSec(despawnSec, (ends + error) % Hour)
        /\ measured' = (ends + error) % Hour
        /\ UNCHANGED <<now, ends, expire, verified, sighted>>
  BY DEF Time!Measure
<1>2. Time!TypeOK'
  BY MeasureKeeps DEF TimeInv, TimeAssumptions
<1>3. PICK e \in SecondsOfHour : e = ends % Hour
  BY DEF TimeInv, Time!TypeOK, TimeAssumptions, SecondsOfHour
<1>4. PICK second \in SecondsOfHour : second = (ends + error) % Hour
  BY DEF TimeInv, Time!TypeOK, TimeAssumptions, SecondsOfHour
<1>5. PICK h \in {-1, 0, 1} : second = e + error - (h * Hour)
  <2>1. PICK g \in {-1, 0, 1} : e + error - (g * Hour) \in 0 .. Hour - 1
    <3>1. e \in Int /\ error \in Int /\ e >= 0 /\ e < Hour /\ error > -Hour /\ error < Hour
      BY DEF SecondsOfHour, TimeAssumptions, Time!Off
    <3>2. CASE e + error < 0
      <4>1. e + error - ((-1) * Hour) \in 0 .. Hour - 1
        BY <3>1, <3>2 DEF TimeAssumptions
      <4> QED
        BY <4>1
    <3>3. CASE e + error >= Hour
      <4>1. e + error - (1 * Hour) \in 0 .. Hour - 1
        BY <3>1, <3>3 DEF TimeAssumptions
      <4> QED
        BY <4>1
    <3>4. CASE e + error >= 0 /\ e + error < Hour
      <4>1. e + error - (0 * Hour) \in 0 .. Hour - 1
        BY <3>1, <3>4 DEF TimeAssumptions
      <4> QED
        BY <4>1
    <3>5. e + error < 0 \/ e + error >= Hour \/ (e + error >= 0 /\ e + error < Hour)
      BY <3>1 DEF TimeAssumptions
    <3> QED
      BY <3>2, <3>3, <3>4, <3>5, Zenon
  <2>2. (ends + error) % Hour = e + error - (g * Hour)
    <3>1. ends \in Int /\ error \in Int /\ Hour \in Nat \ {0}
      BY DEF TimeInv, Time!TypeOK, TimeAssumptions
    <3> QED
      BY <1>3, <2>1, <3>1, SecondAfter
  <2> QED
    BY <1>4, <2>2
<1>6. Near(despawnSec', e)
  <2>1. CASE despawnSec # Time!Unknown /\ Time!Tolerated(despawnSec, second)
    <3>1. despawnSec' = despawnSec /\ despawnSec \in SecondsOfHour
      BY <1>1, <1>4, <2>1 DEF Time!SetDespawnSec, TimeInv, Time!TypeOK, SecondsOfHour
    <3>2. PICK t \in -3 .. 3, g \in {-1, 0, 1} : despawnSec = second + t - (g * Hour)
      BY <2>1, <3>1, ToleratedIsNear DEF TimeAssumptions
    <3>3. PICK d \in (-Time!Off) .. Time!Off : d = error + t
      BY DEF Time!Off, TimeAssumptions
    <3>4. PICK j \in -2 .. 2 : j = h + g
      OBVIOUS
    <3>5. j * Hour = (h * Hour) + (g * Hour)
      BY <3>4 DEF TimeAssumptions
    <3>6. despawnSec = e + d - (j * Hour)
      BY <1>5, <3>2, <3>3, <3>5 DEF TimeAssumptions, SecondsOfHour
    <3> QED
      BY <3>1, <3>6 DEF Near
  <2>2. CASE ~(despawnSec # Time!Unknown /\ Time!Tolerated(despawnSec, second))
    <3>1. despawnSec' = second
      BY <1>1, <1>4, <2>2 DEF Time!SetDespawnSec
    <3>2. error \in (-Time!Off) .. Time!Off
      BY DEF Time!Off, TimeAssumptions
    <3>3. h \in -2 .. 2
      OBVIOUS
    <3> QED
      BY <1>5, <3>1, <3>2, <3>3 DEF Near
  <2> QED
    BY <2>1, <2>2
<1>7. despawnSec' # Time!Unknown /\ measured' # Time!Unknown
  <2>1. measured' \in SecondsOfHour
    BY <1>1, <1>4
  <2>2. despawnSec' # Time!Unknown
    BY <1>1, <1>4 DEF Time!SetDespawnSec, Time!Unknown, SecondsOfHour
  <2> QED
    BY <2>1, <2>2 DEF Time!Unknown, SecondsOfHour
<1>8. MeasuredIsNear' /\ FirstIsMeasured'
  BY <1>1, <1>3, <1>6, <1>7 DEF MeasuredIsNear, FirstIsMeasured, Near
<1>9. VerifiedIsTrue'
  BY <1>1 DEF TimeInv, VerifiedIsTrue, Time!VerifiedIsTrue
<1> QED
  BY <1>2, <1>8, <1>9 DEF TimeInv

LEMMA SightingIsTrue ==
    ASSUME TimeAssumptions, TimeInv, Time!WildSighting \/ Time!Encounter
    PROVE  TimeInv'
<1>1. UNCHANGED <<now, ends, despawnSec, measured>> /\ Time!SetExpireTimestamp
  BY DEF Time!WildSighting, Time!Encounter
<1>2. Time!TypeOK'
  BY SightingKeeps DEF TimeInv, TimeAssumptions
<1>3. MeasuredIsNear' /\ FirstIsMeasured'
  BY <1>1 DEF TimeInv, MeasuredIsNear, FirstIsMeasured, Near
<1>4. ASSUME verified', sighted' \in (ends - Hour + Time!Off + 1) .. (ends - Time!Off)
      PROVE  Time!Abs(expire' - ends) <= Time!Off
  <2>1. despawnSec # Time!Unknown
    BY <1>1, <1>4 DEF Time!SetExpireTimestamp, Time!SetUnknownTimestamp
  <2>2. /\ expire' = now + Time!DespawnOffset(now % Hour)
        /\ sighted' = IF measured = Time!Unknown THEN Time!Unknown ELSE now
    BY <1>1, <2>1 DEF Time!SetExpireTimestamp
  <2>3. /\ now \in Nat /\ ends \in Nat /\ Hour \in Nat \ {0} /\ despawnSec \in SecondsOfHour
        /\ Time!Off \in Nat /\ 2 * Time!Off < Hour
    BY <2>1 DEF TimeInv, Time!TypeOK, TimeAssumptions, Time!Off, SecondsOfHour
  <2>4. measured # Time!Unknown /\ sighted' = now
    BY <1>4, <2>1, <2>2, <2>3 DEF TimeInv, FirstIsMeasured, Time!Unknown
  <2>5. PICK left \in Time!Off .. Hour - Time!Off - 1 : left = ends - now
    BY <1>4, <2>3, <2>4
  <2>6. PICK s \in SecondsOfHour : s = now % Hour
    BY <2>3 DEF SecondsOfHour
  <2>7. PICK e \in SecondsOfHour : e = ends % Hour
    BY <2>3 DEF SecondsOfHour
  <2>8. PICK g \in {0, 1} : e = s + left - (g * Hour)
    <3>1. PICK h \in {0, 1} : s + left - (h * Hour) \in 0 .. Hour - 1
      <4>1. s \in Int /\ left \in Int /\ s >= 0 /\ s < Hour /\ left >= 0 /\ left < Hour
        BY <2>3 DEF SecondsOfHour
      <4>2. CASE s + left < Hour
        <5>1. s + left - (0 * Hour) \in 0 .. Hour - 1
          BY <2>3, <4>1, <4>2
        <5> QED
          BY <5>1
      <4>3. CASE s + left >= Hour
        <5>1. s + left - (1 * Hour) \in 0 .. Hour - 1
          BY <2>3, <4>1, <4>3
        <5> QED
          BY <5>1
      <4>4. s + left < Hour \/ s + left >= Hour
        BY <2>3, <4>1
      <4> QED
        BY <4>2, <4>3, <4>4, Zenon
    <3>2. now \in Int /\ left \in Int /\ now + left = ends
      BY <2>3, <2>5
    <3>3. (now + left) % Hour = s + left - (h * Hour)
      BY <2>3, <2>6, <3>1, <3>2, SecondAfter
    <3> QED
      BY <2>7, <3>2, <3>3
  <2>9. PICK d \in (-Time!Off) .. Time!Off, h \in -2 .. 2 : despawnSec = e + d - (h * Hour)
    BY <2>4, <2>7 DEF TimeInv, MeasuredIsNear, Near
  <2>10. PICK offset \in SecondsOfHour, j \in {0, 1} :
            /\ offset = Time!DespawnOffset(s)
            /\ offset = despawnSec - s + (j * Hour)
    <3>1. /\ despawnSec \in Int /\ despawnSec >= 0 /\ despawnSec <= Hour - 1
          /\ s \in Int /\ s >= 0 /\ s <= Hour - 1
      BY <2>3 DEF SecondsOfHour
    <3>2. CASE despawnSec - s < 0
      <4>1. Time!DespawnOffset(s) = despawnSec - s + (1 * Hour)
        BY <2>3, <3>1, <3>2 DEF Time!DespawnOffset
      <4>2. despawnSec - s + (1 * Hour) \in SecondsOfHour
        BY <2>3, <3>1, <3>2 DEF SecondsOfHour
      <4> QED
        BY <4>1, <4>2
    <3>3. CASE despawnSec - s >= 0
      <4>1. Time!DespawnOffset(s) = despawnSec - s + (0 * Hour)
        BY <2>3, <3>1, <3>3 DEF Time!DespawnOffset
      <4>2. despawnSec - s + (0 * Hour) \in SecondsOfHour
        BY <2>3, <3>1, <3>3 DEF SecondsOfHour
      <4> QED
        BY <4>1, <4>2
    <3> QED
      BY <3>1, <3>2, <3>3
  <2>11. PICK m \in -4 .. 4 : m = j - g - h
    OBVIOUS
  <2>12. m * Hour = (j * Hour) - (g * Hour) - (h * Hour)
    BY <2>3, <2>11
  <2>13. offset = left + d + (m * Hour)
    <3>1. /\ offset \in Int /\ left \in Int /\ d \in Int /\ s \in Int /\ e \in Int
          /\ j * Hour \in Int /\ g * Hour \in Int /\ h * Hour \in Int
      BY <2>3 DEF SecondsOfHour
    <3> QED
      BY <2>8, <2>9, <2>10, <2>12, <3>1
  <2>14. m = 0
    <3>1. /\ offset >= 0 /\ offset <= Hour - 1 /\ left + d >= 0 /\ left + d <= Hour - 1
      BY <2>3 DEF SecondsOfHour
    <3>2. m * Hour > -Hour /\ m * Hour < Hour
      BY <2>3, <2>13, <3>1
    <3> QED
      BY <2>3, <3>2
  <2>15. expire' - ends = d
    BY <2>2, <2>3, <2>5, <2>6, <2>10, <2>13, <2>14
  <2> QED
    BY <2>3, <2>15 DEF Time!Abs
<1>5. VerifiedIsTrue'
  BY <1>1, <1>4 DEF VerifiedIsTrue, Time!VerifiedIsTrue
<1> QED
  BY <1>2, <1>3, <1>5 DEF TimeInv

LEMMA NextPokemonIsTrue ==
    ASSUME TimeAssumptions, TimeInv, Time!NextPokemon
    PROVE  TimeInv'
<1>1. PICK second \in Seconds :
        /\ ends' = ends - (ends % Hour) + Hour + second
        /\ measured' = IF second = ends % Hour THEN measured ELSE Time!Unknown
        /\ verified' = FALSE
        /\ UNCHANGED <<now, despawnSec>>
  BY DEF Time!NextPokemon
<1>2. Time!TypeOK'
  BY NextPokemonKeeps DEF TimeInv, TimeAssumptions, SecondsOfHour
<1>3. ends' % Hour = second /\ ends' >= Hour
  <2>1. ends \in Nat /\ Hour \in Nat \ {0} /\ second \in 0 .. Hour - 1
    BY DEF TimeInv, Time!TypeOK, TimeAssumptions, SecondsOfHour
  <2>2. PICK e \in 0 .. Hour - 1 : e = ends % Hour
    BY <2>1
  <2>3. PICK k \in Nat : ends = (k * Hour) + e
    <3>1. ends \div Hour \in Nat /\ ends = ((ends \div Hour) * Hour) + (ends % Hour)
      BY <2>1
    <3> QED
      BY <2>2, <3>1
  <2>4. PICK q \in Int : q = k + 1
    OBVIOUS
  <2>5. q * Hour = (k * Hour) + Hour
    BY <2>1, <2>4
  <2>6. ends' = (q * Hour) + second
    BY <1>1, <2>1, <2>2, <2>3, <2>5
  <2>7. ((q * Hour) + second) % Hour = second
    BY <2>1, SecondOf
  <2>8. k * Hour >= 0
    BY <2>1, <2>3
  <2> QED
    BY <2>1, <2>5, <2>6, <2>7, <2>8
<1>4. MeasuredIsNear' /\ FirstIsMeasured'
  BY <1>1, <1>3 DEF TimeInv, MeasuredIsNear, FirstIsMeasured, Near
<1>5. VerifiedIsTrue'
  BY <1>1 DEF VerifiedIsTrue, Time!VerifiedIsTrue
<1> QED
  BY <1>2, <1>4, <1>5 DEF TimeInv

\* For hours of every length and clocks of every tolerance below half of it: a
\* verified despawn time is the one at which the pokemon goes, give or take the
\* tolerance of its second, on whichever sides of an hour's end sighting and end
\* are (setExpireTimestampFromSpawnpoint).
THEOREM VerifiedTimeIsTrue ==
    ASSUME TimeAssumptions
    PROVE  Time!Spec => []VerifiedIsTrue
<1>1. Time!Init => MeasuredIsNear /\ FirstIsMeasured /\ VerifiedIsTrue
  BY DEF Time!Init, MeasuredIsNear, FirstIsMeasured, VerifiedIsTrue, Time!VerifiedIsTrue
<1>2. TimeInv /\ [Time!Next]_(Time!vars) => TimeInv'
  <2>1. ASSUME TimeInv, Time!Tick \/ UNCHANGED Time!vars PROVE TimeInv'
    <3>1. Time!TypeOK'
      BY <2>1, TickKeeps DEF TimeInv, TimeAssumptions
    <3>2. UNCHANGED <<ends, despawnSec, expire, verified, measured, sighted>>
      BY <2>1 DEF Time!Tick, Time!vars
    <3> QED
      BY <2>1, <3>1, <3>2 DEF TimeInv, MeasuredIsNear, FirstIsMeasured, Near,
         VerifiedIsTrue, Time!VerifiedIsTrue
  <2> QED
    BY <2>1, MeasureIsNear, SightingIsTrue, NextPokemonIsTrue DEF Time!Next
<1>3. TimeInv => VerifiedIsTrue
  BY DEF TimeInv
<1>4. Time!Spec => []Time!TypeOK
  BY TimeTypeOK DEF TimeAssumptions, SecondsOfHour
<1>5. Time!Spec => Time!Init /\ [][Time!Next]_(Time!vars)
  BY DEF Time!Spec
<1>6. Time!TypeOK /\ MeasuredIsNear /\ FirstIsMeasured /\ VerifiedIsTrue => TimeInv
  BY DEF TimeInv
<1> QED
  BY <1>1, <1>2, <1>3, <1>4, <1>5, <1>6, PTL
-----------------------------------------------------------------------------
(* Where searches find it (PokemonTree, instantiated as Index).            *)

Gone == Index!None
IndexRecord == [new : {FALSE}, place : Places, form : Forms]
IndexType == [tree : [Places -> Nat], lookup : {Gone} \cup Forms, count : [Forms -> Nat]]

\* The index holds record r and nothing else ...
Holds(i, r) ==
    /\ i \in IndexType
    /\ i.lookup = r.form
    /\ \A q \in Places : i.tree[q] = IF q = r.place THEN 1 ELSE 0
    /\ \A f \in Forms : i.count[f] = IF f = r.form THEN 1 ELSE 0

\* ... or no record at all.
HoldsNothing(i) == Holds(i, Index!NoRecord)

LEMMA IndexFields ==
    ASSUME NEW i \in IndexType
    PROVE  /\ i = [tree |-> i.tree, lookup |-> i.lookup, count |-> i.count]
           /\ i.tree \in [Places -> Nat] /\ i.count \in [Forms -> Nat]
           /\ i.lookup = Gone \/ i.lookup \in Forms
  BY DEF IndexType

\* What the operators do to the parts of an index.
LEMMA AddForm ==
    ASSUME NEW i \in IndexType, NEW q \in Places
    PROVE  /\ Index!Add(i, q) = [tree |-> [i.tree EXCEPT ![q] = @ + 1],
                                 lookup |-> i.lookup, count |-> i.count]
           /\ Index!Add(i, q) \in IndexType
<1>1. Index!Add(i, q) = [tree |-> [i.tree EXCEPT ![q] = @ + 1],
                         lookup |-> i.lookup, count |-> i.count]
  BY IndexFields DEF Index!Add
<1> QED
  BY <1>1, IndexFields DEF IndexType

LEMMA AdjustedType ==
    ASSUME NEW counts \in [Forms -> Nat], NEW form, NEW delta \in {-1, 1}
    PROVE  /\ Index!Adjusted(counts, form, delta) \in [Forms -> Nat]
           /\ \A f \in Forms :
                 Index!Adjusted(counts, form, delta)[f] =
                    IF f # form \/ form = Gone THEN counts[f]
                    ELSE IF delta = 1 THEN counts[f] + 1
                    ELSE IF counts[f] > 0 THEN counts[f] - 1 ELSE 0
<1>1. CASE form = Gone
  BY <1>1 DEF Index!Adjusted, Gone
<1>2. CASE form # Gone /\ delta = 1
  <2>1. Index!Adjusted(counts, form, delta) = [counts EXCEPT ![form] = @ + 1]
    BY <1>2 DEF Index!Adjusted, Gone
  <2> QED
    BY <1>2, <2>1
<1>3. CASE form # Gone /\ delta = -1
  <2>1. Index!Adjusted(counts, form, delta) = [counts EXCEPT ![form] = IF @ > 0 THEN @ - 1 ELSE 0]
    BY <1>3 DEF Index!Adjusted, Gone
  <2> QED
    BY <1>3, <2>1
<1> QED
  BY <1>1, <1>2, <1>3

LEMMA UpdateForm ==
    ASSUME NEW i \in IndexType, NEW form \in Forms, i.lookup # form
    PROVE  LET counts == Index!Adjusted(Index!Adjusted(i.count, i.lookup, -1), form, 1)
               after == [tree |-> i.tree, lookup |-> form, count |-> counts]
           IN  Index!UpdateLookup(i, form) = after /\ after \in IndexType
<1> DEFINE counts == Index!Adjusted(Index!Adjusted(i.count, i.lookup, -1), form, 1)
<1>1. counts \in [Forms -> Nat]
  BY IndexFields, AdjustedType
<1> HIDE DEF counts
<1>2. Index!UpdateLookup(i, form) = [i EXCEPT !.lookup = form, !.count = counts]
  BY DEF Index!UpdateLookup, counts
<1>3. Index!UpdateLookup(i, form) = [tree |-> i.tree, lookup |-> form, count |-> counts]
  BY <1>2, IndexFields
<1> QED
  BY <1>1, <1>3, IndexFields DEF IndexType, counts

LEMMA RemoveForm ==
    ASSUME NEW i \in IndexType, NEW q
    PROVE  LET places == [s \in Places |-> IF s = q /\ i.tree[s] > 0 THEN i.tree[s] - 1
                                           ELSE i.tree[s]]
               after == [tree |-> places, lookup |-> Gone,
                         count |-> Index!Adjusted(i.count, i.lookup, -1)]
           IN  Index!Remove(i, q) = after /\ after \in IndexType
<1> DEFINE places == [s \in Places |-> IF s = q /\ i.tree[s] > 0 THEN i.tree[s] - 1
                                       ELSE i.tree[s]]
           counts == Index!Adjusted(i.count, i.lookup, -1)
<1>1. counts \in [Forms -> Nat] /\ places \in [Places -> Nat]
  BY IndexFields, AdjustedType
<1>2. Index!Remove(i, q) = [i EXCEPT !.tree = places, !.lookup = Gone, !.count = counts]
  BY DEF Index!Remove, Gone
<1> HIDE DEF counts, places
<1>3. Index!Remove(i, q) = [tree |-> places, lookup |-> Gone, count |-> counts]
  BY <1>2, IndexFields
<1> QED
  BY <1>1, <1>3 DEF IndexType, counts, places

\* A record is put into an index that holds nothing.
LEMMA PutIn ==
    ASSUME NEW i, HoldsNothing(i), NEW r \in IndexRecord, Gone \notin Places \cup Forms
    PROVE  Holds(Index!UpdateLookup(Index!Add(i, r.place), r.form), r)
<1>1. r.place \in Places /\ r.form \in Forms
  BY DEF IndexRecord
<1>2. /\ i \in IndexType /\ i.lookup = Gone
      /\ \A q \in Places : i.tree[q] = 0
      /\ \A f \in Forms : i.count[f] = 0
  BY DEF HoldsNothing, Holds, Index!NoRecord, Gone
<1>3. PICK j \in IndexType :
         /\ j = Index!Add(i, r.place)
         /\ j.tree = [i.tree EXCEPT ![r.place] = @ + 1]
         /\ j.lookup = Gone /\ j.count = i.count
  BY <1>1, <1>2, AddForm
<1>4. PICK k \in IndexType :
         /\ k = Index!UpdateLookup(j, r.form)
         /\ k.tree = j.tree /\ k.lookup = r.form
         /\ k.count = Index!Adjusted(Index!Adjusted(j.count, Gone, -1), r.form, 1)
  BY <1>1, <1>3, UpdateForm
<1>5. \A q \in Places : k.tree[q] = IF q = r.place THEN 1 ELSE 0
  BY <1>1, <1>2, <1>3, <1>4, IndexFields
<1>6. \A f \in Forms : k.count[f] = IF f = r.form THEN 1 ELSE 0
  <2>1. j.count \in [Forms -> Nat] /\ \A f \in Forms : j.count[f] = 0
    BY <1>2, <1>3, IndexFields
  <2>2. PICK c \in [Forms -> Nat] : c = Index!Adjusted(j.count, Gone, -1)
                                   /\ \A f \in Forms : c[f] = j.count[f]
    BY <2>1, AdjustedType
  <2> QED
    BY <1>1, <1>4, <2>1, <2>2, AdjustedType
<1> QED
  BY <1>3, <1>4, <1>5, <1>6 DEF Holds

\* A record is taken out of the index that holds it; nothing is, if it is none.
LEMMA TakenOut ==
    ASSUME NEW i, NEW r, Holds(i, r), r \in IndexRecord \/ (r.place = Gone /\ r.form = Gone),
           Gone \notin Places \cup Forms
    PROVE  HoldsNothing(Index!Remove(i, r.place))
<1>1. r.form = Gone \/ r.form \in Forms
  BY DEF IndexRecord
<1>2. PICK j \in IndexType :
         /\ j = Index!Remove(i, r.place)
         /\ j.tree = [s \in Places |-> IF s = r.place /\ i.tree[s] > 0 THEN i.tree[s] - 1
                                        ELSE i.tree[s]]
         /\ j.lookup = Gone /\ j.count = Index!Adjusted(i.count, r.form, -1)
  <2> DEFINE places == [s \in Places |-> IF s = r.place /\ i.tree[s] > 0 THEN i.tree[s] - 1
                                         ELSE i.tree[s]]
             after == [tree |-> places, lookup |-> Gone,
                       count |-> Index!Adjusted(i.count, i.lookup, -1)]
  <2>1. i \in IndexType /\ i.lookup = r.form
    BY DEF Holds
  <2>2. Index!Remove(i, r.place) = after /\ after \in IndexType
    BY <2>1, RemoveForm
  <2> QED
    BY <2>1, <2>2
<1>3. ASSUME NEW q \in Places PROVE j.tree[q] = 0
  <2>1. i.tree[q] = IF q = r.place THEN 1 ELSE 0
    BY DEF Holds
  <2>2. j.tree[q] = IF q = r.place /\ i.tree[q] > 0 THEN i.tree[q] - 1 ELSE i.tree[q]
    BY <1>2
  <2> QED
    BY <2>1, <2>2
<1>4. \A f \in Forms : j.count[f] = 0
  BY <1>1, <1>2, IndexFields, AdjustedType DEF Holds
<1> QED
  BY <1>2, <1>3, <1>4 DEF HoldsNothing, Holds, Index!NoRecord, Gone

\* A record changes its form.
LEMMA FormChanges ==
    ASSUME NEW i, NEW old \in IndexRecord, NEW r \in IndexRecord, Holds(i, old), r.place = old.place,
           Gone \notin Places \cup Forms
    PROVE  Holds(Index!UpdateLookup(i, r.form), r)
<1>1. r.form \in Forms /\ old.form \in Forms
  BY DEF IndexRecord
<1>2. CASE i.lookup = r.form
  <2>1. Index!UpdateLookup(i, r.form) = i /\ r.form = old.form
    BY <1>2 DEF Index!UpdateLookup, Holds
  <2> QED
    BY <2>1 DEF Holds
<1>3. CASE i.lookup # r.form
  <2>1. PICK k \in IndexType :
           /\ k = Index!UpdateLookup(i, r.form)
           /\ k.tree = i.tree /\ k.lookup = r.form
           /\ k.count = Index!Adjusted(Index!Adjusted(i.count, old.form, -1), r.form, 1)
    BY <1>1, <1>3, UpdateForm DEF Holds
  <2>2. i.count \in [Forms -> Nat] /\ \A f \in Forms : i.count[f] = IF f = old.form THEN 1 ELSE 0
    BY IndexFields DEF Holds
  <2>3. PICK c \in [Forms -> Nat] : c = Index!Adjusted(i.count, old.form, -1)
                                   /\ \A f \in Forms : c[f] = 0
    BY <1>1, <2>2, AdjustedType
  <2>4. \A f \in Forms : k.count[f] = IF f = r.form THEN 1 ELSE 0
    BY <1>1, <2>1, <2>3, AdjustedType
  <2> QED
    BY <2>1, <2>4 DEF Holds
<1> QED
  BY <1>2, <1>3

\* Records of their types; and unless it was got again too early, the index
\* holds the cached record or, until the callback, the one that has expired.
TreeRecord == IndexRecord \cup {Index!NoRecord}
TreeTypes ==
    /\ cached \in TreeRecord \cup {Index!Stub}
    /\ saved \in TreeRecord /\ treeRow \in TreeRecord
TheIndex == Index!Index
TreeInv ==
    /\ TreeTypes
    /\ ~raced =>
         \/ evicting = {} /\ Holds(TheIndex, cached)
         \/ /\ cached = Index!NoRecord
            /\ \E r \in TreeRecord \cup {Index!Stub} :
                  evicting = {r.place} /\ Holds(TheIndex, r)

LEMMA TreeRecords ==
    ASSUME Gone \notin Places \cup Forms
    PROVE  /\ Index!NoRecord.place = Gone /\ Index!NoRecord.form = Gone /\ ~Index!NoRecord.new
           /\ Index!Stub.place = Gone /\ Index!Stub.form = Gone /\ Index!Stub.new
           /\ \A r \in IndexRecord : ~r.new /\ r.place \in Places /\ r.form \in Forms
           /\ Index!NoRecord \notin IndexRecord /\ Index!Stub \notin IndexRecord
           /\ Index!Stub # Index!NoRecord
  BY DEF Index!NoRecord, Index!Stub, IndexRecord, Gone

\* A stub holds as little as no record.
LEMMA NoneIsHeld ==
    ASSUME Gone \notin Places \cup Forms, NEW i, NEW r, r.form = Gone, r.place = Gone
    PROVE  Holds(i, r) <=> HoldsNothing(i)
  BY TreeRecords DEF Holds, HoldsNothing

\* What is set is the index afterwards.
LEMMA SetIs ==
    ASSUME NEW i \in IndexType, Index!SetIndex(i)
    PROVE  TheIndex' = i
<1>1. tree' = i.tree /\ lookup' = i.lookup /\ count' = i.count
  BY DEF Index!SetIndex
<1>2. TheIndex' = [tree |-> tree', lookup |-> lookup', count |-> count']
  BY DEF TheIndex, Index!Index
<1> QED
  BY <1>1, <1>2, IndexFields

\* The row, and what was saved last, keep their types.
LEMMA LoadKeepsTree ==
    ASSUME Gone \notin Places \cup Forms, TreeInv, Index!Load
    PROVE  TreeInv'
<1>1. /\ treeRow \in IndexRecord /\ cached' = treeRow /\ cached \in {Index!NoRecord, Index!Stub}
      /\ Index!SetIndex(Index!OnGet(TheIndex, treeRow))
      /\ raced' = (raced \/ evicting # {}) /\ UNCHANGED <<saved, treeRow, evicting>>
  BY DEF Index!Load, TreeInv, TreeTypes, TreeRecord, TheIndex
<1>2. TreeTypes'
  BY <1>1 DEF TreeInv, TreeTypes, TreeRecord
<1>3. ASSUME ~raced' PROVE Holds(TheIndex', cached') /\ evicting' = {}
  <2>1. evicting = {} /\ ~raced /\ Holds(TheIndex, cached)
    BY <1>1, <1>3 DEF TreeInv
  <2>2. PICK i : i = TheIndex
    OBVIOUS
  <2>3. HoldsNothing(i)
    BY <1>1, <2>1, <2>2, TreeRecords, NoneIsHeld
  <2>4. i.lookup = Gone
    BY <2>3, TreeRecords DEF HoldsNothing, Holds
  <2>5. Index!OnGet(i, treeRow) = Index!UpdateLookup(Index!Add(i, treeRow.place), treeRow.form)
    BY <2>4 DEF Index!OnGet, Gone
  <2>6. PICK k \in IndexType : k = Index!OnGet(i, treeRow) /\ Holds(k, treeRow)
    BY <1>1, <2>3, <2>5, PutIn DEF Holds
  <2>7. TheIndex' = k
    BY <1>1, <2>2, <2>6, SetIs
  <2> QED
    BY <1>1, <2>1, <2>6, <2>7
<1> QED
  BY <1>2, <1>3 DEF TreeInv

LEMMA CreateKeepsTree ==
    ASSUME Gone \notin Places \cup Forms, TreeInv, Index!Create
    PROVE  TreeInv'
<1>1. /\ cached = Index!NoRecord /\ cached' = Index!Stub
      /\ raced' = (raced \/ evicting # {})
      /\ UNCHANGED <<saved, treeRow, tree, lookup, count, evicting>>
  BY DEF Index!Create
<1>2. TreeTypes'
  BY <1>1 DEF TreeInv, TreeTypes
<1>3. TheIndex' = TheIndex
  BY <1>1 DEF TheIndex, Index!Index
<1>4. ASSUME ~raced' PROVE Holds(TheIndex', cached') /\ evicting' = {}
  <2>1. evicting = {} /\ Holds(TheIndex, cached)
    BY <1>1, <1>4 DEF TreeInv
  <2>2. PICK i : i = TheIndex
    OBVIOUS
  <2>3. Holds(i, Index!Stub)
    BY <1>1, <2>1, <2>2, TreeRecords, NoneIsHeld
  <2> QED
    BY <1>1, <1>3, <2>1, <2>2, <2>3
<1> QED
  BY <1>2, <1>4 DEF TreeInv

LEMMA SaveKeepsTree ==
    ASSUME Gone \notin Places \cup Forms, TreeInv, Index!Save
    PROVE  TreeInv'
<1>1. PICK place \in Places, form \in Forms :
        LET r == [new |-> FALSE, place |-> place, form |-> form]
        IN /\ cached # Index!NoRecord
           /\ Index!SetIndex(Index!OnSave(TheIndex, cached, r))
           /\ cached' = r /\ saved' = r
           /\ raced' = (raced \/ evicting # {})
           /\ UNCHANGED <<treeRow, evicting>>
  BY DEF Index!Save, TheIndex
<1>2. PICK r \in IndexRecord : r = [new |-> FALSE, place |-> place, form |-> form]
  BY DEF IndexRecord
<1>3. /\ cached # Index!NoRecord /\ Index!SetIndex(Index!OnSave(TheIndex, cached, r))
      /\ cached' = r /\ saved' = r /\ raced' = (raced \/ evicting # {})
      /\ UNCHANGED <<treeRow, evicting>>
  BY <1>1, <1>2
<1>4. TreeTypes'
  BY <1>3 DEF TreeInv, TreeTypes, TreeRecord
<1>5. ASSUME ~raced' PROVE Holds(TheIndex', cached') /\ evicting' = {}
  <2>1. evicting = {} /\ Holds(TheIndex, cached)
    BY <1>3, <1>5 DEF TreeInv
  <2>2. PICK i : i = TheIndex
    OBVIOUS
  <2>3. PICK k : k = Index!OnSave(i, cached, r)
    OBVIOUS
  <2>4. Holds(k, r)
    <3>1. CASE cached = Index!Stub
      <4>1. HoldsNothing(i)
        BY <2>1, <2>2, <3>1, TreeRecords, NoneIsHeld
      <4>2. k = Index!UpdateLookup(Index!Add(i, r.place), r.form)
        BY <2>3, <3>1, TreeRecords DEF Index!OnSave
      <4> QED
        BY <4>1, <4>2, PutIn
    <3>2. CASE cached \in IndexRecord /\ r.place # cached.place
      <4>1. PICK j : j = Index!Remove(i, cached.place)
        OBVIOUS
      <4>2. HoldsNothing(j)
        BY <2>1, <2>2, <3>2, <4>1, TakenOut
      <4>3. k = Index!UpdateLookup(Index!Add(j, r.place), r.form)
        BY <2>3, <3>2, <4>1, TreeRecords DEF Index!OnSave
      <4> QED
        BY <4>2, <4>3, PutIn
    <3>3. CASE cached \in IndexRecord /\ r.place = cached.place
      <4>1. k = Index!UpdateLookup(i, r.form)
        BY <2>3, <3>3, TreeRecords DEF Index!OnSave
      <4> QED
        BY <2>1, <2>2, <3>3, <4>1, FormChanges
    <3> QED
      BY <1>3, <3>1, <3>2, <3>3 DEF TreeInv, TreeTypes, TreeRecord
  <2>5. TheIndex' = k
    BY <1>3, <2>2, <2>3, <2>4, SetIs DEF Holds
  <2> QED
    BY <1>3, <2>1, <2>4, <2>5
<1> QED
  BY <1>4, <1>5 DEF TreeInv

LEMMA ExpireKeepsTree ==
    ASSUME Gone \notin Places \cup Forms, TreeInv, Index!Expire
    PROVE  TreeInv'
<1>1. /\ cached # Index!NoRecord /\ evicting = {} /\ cached' = Index!NoRecord
      /\ evicting' = {cached.place}
      /\ UNCHANGED <<saved, treeRow, tree, lookup, count, raced>>
  BY DEF Index!Expire
<1>2. TreeTypes'
  BY <1>1 DEF TreeInv, TreeTypes, TreeRecord
<1>3. TheIndex' = TheIndex
  BY <1>1 DEF TheIndex, Index!Index
<1>4. ~raced => Holds(TheIndex, cached)
  BY <1>1 DEF TreeInv
<1>5. cached \in TreeRecord \cup {Index!Stub}
  BY DEF TreeInv, TreeTypes
<1> QED
  BY <1>1, <1>2, <1>3, <1>4, <1>5 DEF TreeInv

\* The callback takes out the expired record.
LEMMA EvictedKeepsTree ==
    ASSUME Gone \notin Places \cup Forms, TreeInv, Index!Evicted
    PROVE  TreeInv'
<1>1. PICK place \in evicting :
        /\ Index!SetIndex(Index!Remove(TheIndex, place))
        /\ evicting' = {} /\ UNCHANGED <<cached, saved, treeRow, raced>>
  BY DEF Index!Evicted, TheIndex
<1>2. TreeTypes'
  BY <1>1 DEF TreeInv, TreeTypes
<1>3. ASSUME ~raced' PROVE Holds(TheIndex', cached')
  <2>1. cached = Index!NoRecord
    BY <1>1, <1>3 DEF TreeInv
  <2>2. PICK r \in TreeRecord \cup {Index!Stub} : place = r.place /\ Holds(TheIndex, r)
    BY <1>1, <1>3 DEF TreeInv
  <2>3. r \in IndexRecord \/ (r.place = Gone /\ r.form = Gone)
    BY TreeRecords DEF TreeRecord
  <2>4. PICK i : i = TheIndex
    OBVIOUS
  <2>5. PICK k \in IndexType : k = Index!Remove(i, place) /\ HoldsNothing(k)
    BY <2>2, <2>3, <2>4, TakenOut DEF HoldsNothing, Holds
  <2>6. TheIndex' = k
    BY <1>1, <2>4, <2>5, SetIs
  <2> QED
    BY <1>1, <2>1, <2>5, <2>6 DEF HoldsNothing
<1> QED
  BY <1>1, <1>2, <1>3 DEF TreeInv

LEMMA RestKeepsTree ==
    ASSUME TreeInv, Index!Write \/ Index!Archive \/ UNCHANGED Index!vars
    PROVE  TreeInv'
<1>1. UNCHANGED <<cached, tree, lookup, count, evicting, raced>> /\ TreeTypes'
  BY DEF TreeInv, TreeTypes, TreeRecord, Index!Write, Index!Archive, Index!vars
<1>2. TheIndex' = TheIndex
  BY <1>1 DEF TheIndex, Index!Index
<1> QED
  BY <1>1, <1>2 DEF TreeInv

\* For all sets of places and forms: through moves, changes of form, expiries and
\* rows that are behind, tree, lookup and form counts agree with the cache
\* (getPokemonRecord..., savePokemonRecordAsAtTime, removePokemonFromTree), unless
\* a callback came after the pokemon was got again.
THEOREM IndexFollowsCache ==
    ASSUME Gone \notin Places \cup Forms
    PROVE  Index!Spec => []IndexAgrees
<1>1. Index!Init => TreeInv
  <2> SUFFICES ASSUME Index!Init PROVE TreeInv
    OBVIOUS
  <2>1. TreeTypes /\ evicting = {} /\ cached = Index!NoRecord
    BY DEF Index!Init, TreeTypes, TreeRecord
  <2>2. TheIndex = [tree |-> [place \in Places |-> 0], lookup |-> Gone,
                    count |-> [form \in Forms |-> 0]]
    BY DEF Index!Init, TheIndex, Index!Index, Gone
  <2>3. HoldsNothing(TheIndex)
    <3>1. TheIndex \in IndexType
      BY <2>2 DEF IndexType
    <3> QED
      BY <2>2, <3>1, TreeRecords DEF HoldsNothing, Holds
  <2> QED
    BY <2>1, <2>3 DEF TreeInv, HoldsNothing
<1>2. TreeInv /\ [Index!Next]_(Index!vars) => TreeInv'
  BY LoadKeepsTree, CreateKeepsTree, SaveKeepsTree, ExpireKeepsTree, EvictedKeepsTree,
     RestKeepsTree DEF Index!Next
<1>3. TreeInv => IndexAgrees
  <2> SUFFICES ASSUME TreeInv, ~raced, evicting = {}
               PROVE  LET here == cached \notin {Index!NoRecord, Index!Stub}
                      IN /\ \A q \in Places : tree[q] = IF here /\ cached.place = q THEN 1 ELSE 0
                         /\ lookup = IF here THEN cached.form ELSE Gone
                         /\ \A f \in Forms : count[f] = IF here /\ cached.form = f THEN 1 ELSE 0
    BY DEF IndexAgrees, Index!IndexAgrees, Gone
  <2>1. Holds(TheIndex, cached) /\ cached \in IndexRecord \cup {Index!NoRecord, Index!Stub}
    BY DEF TreeInv, TreeTypes, TreeRecord
  <2>2. TheIndex.tree = tree /\ TheIndex.lookup = lookup /\ TheIndex.count = count
    BY DEF TheIndex, Index!Index
  <2>3. /\ \A q \in Places : tree[q] = IF q = cached.place THEN 1 ELSE 0
        /\ lookup = cached.form
        /\ \A f \in Forms : count[f] = IF f = cached.form THEN 1 ELSE 0
    BY <2>1, <2>2 DEF Holds
  <2> QED
    BY <2>1, <2>3, TreeRecords
<1> QED
  BY <1>1, <1>2, <1>3, PTL DEF Index!Spec
-----------------------------------------------------------------------------
(* No false ditto (Ditto, instantiated as Disguise).                       *)

DittoAssumptions == Bases \subseteq 1 .. 30 /\ LowIvs \cap HighIvs = {}

\* A pokemon that is no ditto has its values and levels where its disguise, if
\* it were one, would have them.
PlainScan(s) == s.level = truth.base /\ s.weather = Disguise!Nothing
BoostedScan(s) == s.level = truth.base + 5 /\ s.weather \in {Disguise!Partly, "WINDY"}
IsScan(s) ==
    s = [weather |-> s.weather, cell |-> s.cell, level |-> s.level, iv |-> s.iv,
         species |-> s.species, confirmed |-> s.confirmed]
NoDittoScan(s) ==
    /\ IsScan(s)
    /\ \/ PlainScan(s) /\ ~Disguise!MustBeBoosted(s)
       \/ BoostedScan(s) /\ ~Disguise!MustBeUnboosted(s)
HistoryOfNoDitto(h) ==
    /\ h.plain # Disguise!NoScan => PlainScan(h.plain)
    /\ h.boosted # Disguise!NoScan => BoostedScan(h.boosted)
NotMistaken ==
    /\ truth \in Disguise!Truths
    /\ ~rerolled /\ ~truth.ditto => ~isDitto /\ HistoryOfNoDitto(history)

\* The verdict on a scan: that of no ditto, and the scan is as it was.
NoDittoFound(f, s) ==
    /\ f.ditto = FALSE /\ f.matching = "same"
    /\ f.scan.level = s.level /\ f.scan.weather = s.weather

LEMMA EncounterScan ==
    ASSUME DittoAssumptions, truth \in Disguise!Truths, ~truth.ditto,
           NEW c \in Disguise!Conditions, NEW told
    PROVE  NoDittoScan(Disguise!ScanOf(c, told))
<1>1. truth.base \in 1 .. 30 /\ truth.high \in HighIvs /\ truth.boosts \subseteq {Disguise!Partly, "WINDY"}
  BY DEF DittoAssumptions, Disguise!Truths, Disguise!Boosters
<1>2. PICK s : s = Disguise!ScanOf(c, told)
  OBVIOUS
<1>3. /\ s.weather = Disguise!Display(c)
      /\ s.level = truth.base + (IF Disguise!Boosted(c) THEN 5 ELSE 0)
      /\ s.iv = IF Disguise!Boosted(c) THEN truth.high ELSE truth.low
  BY <1>2 DEF Disguise!ScanOf
<1>4. IsScan(s)
  BY <1>2 DEF IsScan, Disguise!ScanOf
<1>5. CASE c \in truth.boosts
  <2>1. Disguise!Boosted(c) /\ s.weather = c
    BY <1>3, <1>5 DEF Disguise!Boosted, Disguise!Display
  <2>2. s.level = truth.base + 5 /\ s.iv = truth.high
    BY <1>3, <2>1
  <2>3. ~Disguise!MustBeUnboosted(s)
    BY <1>1, <2>2 DEF Disguise!MustBeUnboosted, DittoAssumptions
  <2> QED
    BY <1>1, <1>2, <1>4, <1>5, <2>1, <2>2, <2>3 DEF NoDittoScan, BoostedScan
<1>6. CASE c \notin truth.boosts
  <2>1. ~Disguise!Boosted(c) /\ s.weather = Disguise!Nothing
    BY <1>3, <1>6 DEF Disguise!Boosted, Disguise!Display
  <2>2. s.level = truth.base
    BY <1>1, <1>3, <2>1
  <2>3. ~Disguise!MustBeBoosted(s)
    BY <1>1, <2>2 DEF Disguise!MustBeBoosted
  <2> QED
    BY <1>2, <1>4, <2>1, <2>2, <2>3 DEF NoDittoScan, PlainScan
<1> QED
  BY <1>5, <1>6

LEMMA FoundNone ==
    ASSUME NEW s, NEW t, t.level = s.level, t.weather = s.weather, NEW caught, NEW ok, NEW noted
    PROVE  NoDittoFound(Disguise!Found(FALSE, "same", t, caught, ok, noted), s)
  BY DEF NoDittoFound, Disguise!Found

LEMMA ConfirmedIsSame ==
    ASSUME NEW s, IsScan(s), NEW c
    PROVE  /\ Disguise!Confirmed(s, c).level = s.level
           /\ Disguise!Confirmed(s, c).weather = s.weather
  BY DEF IsScan, Disguise!Confirmed

LEMMA ExpectedIsNoDitto ==
    ASSUME NEW s, NoDittoScan(s)
    PROVE  NoDittoFound(Disguise!Expected(s), s)
<1>1. CASE PlainScan(s) /\ ~Disguise!MustBeBoosted(s)
  <2>1. PICK t : t = Disguise!Confirmed(s, Disguise!MustBeUnboosted(s))
    OBVIOUS
  <2>2. Disguise!Expected(s) = Disguise!Found(FALSE, "same", t, t, Disguise!Agree(history.plain, s), FALSE)
    BY <1>1, <2>1 DEF PlainScan, Disguise!Expected
  <2> QED
    BY <2>1, <2>2, ConfirmedIsSame, FoundNone DEF NoDittoScan
<1>2. CASE BoostedScan(s) /\ ~Disguise!MustBeUnboosted(s)
  <2>1. PICK t : t = Disguise!Confirmed(s, Disguise!MustBeBoosted(s))
    OBVIOUS
  <2>2. s.weather # Disguise!Nothing
    BY <1>2 DEF BoostedScan, Disguise!Nothing, Disguise!Partly
  <2>3. Disguise!Expected(s) = Disguise!Found(FALSE, "same", t, t, Disguise!Agree(history.boosted, s), FALSE)
    BY <1>2, <2>1, <2>2 DEF Disguise!Expected
  <2> QED
    BY <2>1, <2>3, ConfirmedIsSame, FoundNone DEF NoDittoScan
<1> QED
  BY <1>1, <1>2 DEF NoDittoScan

LEMMA DetectsNoDitto ==
    ASSUME DittoAssumptions, truth \in Disguise!Truths, HistoryOfNoDitto(history),
           NEW s, NoDittoScan(s)
    PROVE  NoDittoFound(Disguise!DetectDitto(s, FALSE), s)
<1>1. truth.base \in 1 .. 30
  BY DEF DittoAssumptions, Disguise!Truths
<1> DEFINE u == history.plain
           b == history.boosted
<1>2. CASE u # Disguise!NoScan /\ b # Disguise!NoScan
  <2>1. Disguise!DetectDitto(s, FALSE) = Disguise!WithBoth(s)
    BY <1>2 DEF Disguise!DetectDitto
  <2>2. u.level = truth.base /\ b.level = truth.base + 5
    BY <1>2 DEF HistoryOfNoDitto, PlainScan, BoostedScan
  <2>3. CASE PlainScan(s)
    <3>1. s.level = u.level /\ s.weather = Disguise!Nothing
      BY <2>2, <2>3 DEF PlainScan
    <3>2. Disguise!WithBoth(s) = Disguise!Found(FALSE, "same", s, s, Disguise!Agree(u, s), FALSE)
      BY <3>1 DEF Disguise!WithBoth
    <3> QED
      BY <2>1, <3>2, FoundNone
  <2>4. CASE BoostedScan(s)
    <3>1. s.level = b.level /\ s.level # u.level /\ s.weather # Disguise!Nothing
      BY <1>1, <2>2, <2>4 DEF BoostedScan, Disguise!Nothing, Disguise!Partly
    <3>2. Disguise!WithBoth(s) = Disguise!Found(FALSE, "same", s, s, Disguise!Agree(b, s), FALSE)
      BY <3>1 DEF Disguise!WithBoth
    <3> QED
      BY <2>1, <3>2, FoundNone
  <2> QED
    BY <2>3, <2>4 DEF NoDittoScan
<1>3. ASSUME NEW m, PlainScan(m) \/ BoostedScan(m)
      PROVE  NoDittoFound(Disguise!WithOne(s, m), s)
  <2> DEFINE expected == m.level + (IF s.weather # Disguise!Nothing /\ m.weather = Disguise!Nothing
                                    THEN 5 ELSE 0)
             reached == s.level + (IF s.weather = Disguise!Nothing /\ m.weather # Disguise!Nothing
                                   THEN 5 ELSE 0)
  <2>1. PlainScan(s) \/ BoostedScan(s)
    BY DEF NoDittoScan
  <2>2. reached = expected
    BY <1>1, <1>3, <2>1 DEF PlainScan, BoostedScan, Disguise!Nothing, Disguise!Partly
  <2>3. expected \in Nat
    BY <1>1, <1>3 DEF PlainScan, BoostedScan
  <2>4. /\ reached # expected + 5 /\ reached + 5 # expected
        /\ reached # expected + 10 /\ reached + 10 # expected
    BY <2>2, <2>3
  <2>5. Disguise!WithOne(s, m) =
          CASE reached = expected -> Disguise!Expected(s)
            [] reached = expected + 5 -> Disguise!Higher(s, m)
            [] reached + 5 = expected -> Disguise!Lower(s, m)
            [] reached = expected + 10 ->
                 Disguise!Found(TRUE, Disguise!Nothing, Disguise!In(s, Disguise!Partly),
                                Disguise!In(m, Disguise!Nothing), TRUE, TRUE)
            [] reached + 10 = expected ->
                 Disguise!Found(TRUE, Disguise!Partly, Disguise!In(s, Disguise!Nothing),
                                Disguise!In(s, Disguise!Nothing), TRUE, TRUE)
            [] OTHER -> Disguise!Found(FALSE, m.weather, s, s, FALSE, FALSE)
    BY DEF Disguise!WithOne
  <2> HIDE DEF expected, reached
  <2>6. Disguise!WithOne(s, m) = Disguise!Expected(s)
    BY <2>2, <2>4, <2>5
  <2> QED
    BY <2>6, ExpectedIsNoDitto
<1>4. CASE u # Disguise!NoScan /\ b = Disguise!NoScan
  BY <1>3, <1>4 DEF Disguise!DetectDitto, HistoryOfNoDitto
<1>5. CASE u = Disguise!NoScan /\ b # Disguise!NoScan
  BY <1>3, <1>5 DEF Disguise!DetectDitto, HistoryOfNoDitto
<1>6. CASE u = Disguise!NoScan /\ b = Disguise!NoScan
  BY <1>6, ExpectedIsNoDitto DEF Disguise!DetectDitto
<1> QED
  BY <1>2, <1>4, <1>5, <1>6

LEMMA RemembersNoDitto ==
    ASSUME HistoryOfNoDitto(history), NEW s, NoDittoScan(s), NEW f, NoDittoFound(f, s),
           Disguise!Remember(f)
    PROVE  HistoryOfNoDitto(history')
<1> DEFINE others == {m \in Disguise!Rematched(f) :
                        (m.weather = Disguise!Nothing) # (f.scan.weather = Disguise!Nothing)}
           other == IF others = {} THEN Disguise!NoScan ELSE CHOOSE m \in others : TRUE
<1>1. Disguise!Rematched(f) = {history.plain, history.boosted} \ {Disguise!NoScan}
  BY DEF Disguise!Rematched, NoDittoFound
<1>2. other # Disguise!NoScan => other \in others
  OBVIOUS
<1>3. history' = IF f.scan.weather = Disguise!Nothing THEN [plain |-> f.scan, boosted |-> other]
                 ELSE [plain |-> other, boosted |-> f.scan]
  BY DEF Disguise!Remember
<1>4. CASE PlainScan(s)
  <2>1. PlainScan(f.scan) /\ history'.plain = f.scan /\ history'.boosted = other
    BY <1>3, <1>4 DEF NoDittoFound, PlainScan
  <2>2. other # Disguise!NoScan => BoostedScan(other)
    BY <1>1, <1>2, <2>1 DEF HistoryOfNoDitto, PlainScan
  <2> QED
    BY <2>1, <2>2 DEF HistoryOfNoDitto
<1>5. CASE BoostedScan(s)
  <2>1. BoostedScan(f.scan) /\ f.scan.weather # Disguise!Nothing
    BY <1>5 DEF NoDittoFound, BoostedScan, Disguise!Nothing, Disguise!Partly
  <2>2. history'.plain = other /\ history'.boosted = f.scan
    BY <1>3, <2>1
  <2>3. other # Disguise!NoScan => PlainScan(other)
    BY <1>1, <1>2, <2>1 DEF HistoryOfNoDitto, BoostedScan, Disguise!Nothing, Disguise!Partly
  <2> QED
    BY <2>1, <2>2, <2>3 DEF HistoryOfNoDitto
<1> QED
  BY <1>4, <1>5 DEF NoDittoScan

LEMMA EncounterIsNotMistaken ==
    ASSUME DittoAssumptions, NotMistaken, Disguise!Encounter
    PROVE  NotMistaken'
<1>1. PICK c \in Disguise!Conditions, told \in {Disguise!Partly, Disguise!Nothing} :
        LET s == Disguise!ScanOf(c, told)
            f == Disguise!DetectDitto(s, Disguise!StillDitto)
        IN /\ isDitto' = f.ditto
           /\ IF f.ok THEN Disguise!Remember(f) ELSE Disguise!Forget(s)
           /\ UNCHANGED <<truth, rerolled>>
  BY DEF Disguise!Encounter
<1>2. truth' \in Disguise!Truths
  BY <1>1 DEF NotMistaken
<1>3. ASSUME ~rerolled', ~truth'.ditto PROVE ~isDitto' /\ HistoryOfNoDitto(history)'
  <2>1. truth \in Disguise!Truths /\ ~truth.ditto /\ ~isDitto /\ HistoryOfNoDitto(history)
    BY <1>1, <1>3 DEF NotMistaken
  <2>2. PICK s : s = Disguise!ScanOf(c, told)
    OBVIOUS
  <2>3. PICK f : f = Disguise!DetectDitto(s, FALSE)
    OBVIOUS
  <2>4. NoDittoScan(s)
    BY <2>1, <2>2, EncounterScan
  <2>5. NoDittoFound(f, s)
    BY <2>1, <2>3, <2>4, DetectsNoDitto
  <2>6. Disguise!StillDitto = FALSE
    BY <2>1 DEF Disguise!StillDitto
  <2>7. isDitto' = f.ditto /\ (Disguise!Remember(f) \/ Disguise!Forget(s)) /\ truth' = truth
    BY <1>1, <2>2, <2>3, <2>6
  <2>8. HistoryOfNoDitto(history')
    <3>1. CASE Disguise!Remember(f)
      BY <2>1, <2>4, <2>5, <3>1, RemembersNoDitto
    <3>2. CASE Disguise!Forget(s)
      <4>1. CASE PlainScan(s)
        BY <3>2, <4>1 DEF Disguise!Forget, HistoryOfNoDitto, PlainScan
      <4>2. CASE BoostedScan(s)
        BY <3>2, <4>2 DEF Disguise!Forget, HistoryOfNoDitto, BoostedScan, Disguise!Nothing, Disguise!Partly
      <4> QED
        BY <2>4, <4>1, <4>2 DEF NoDittoScan
    <3> QED
      BY <2>7, <3>1, <3>2
  <2> QED
    BY <2>5, <2>7, <2>8 DEF NoDittoFound, HistoryOfNoDitto, PlainScan, BoostedScan
<1> QED
  BY <1>2, <1>3 DEF NotMistaken

LEMMA RestIsNotMistaken ==
    ASSUME NotMistaken,
           Disguise!Sighting \/ Disguise!Reload \/ Disguise!Reroll \/ UNCHANGED Disguise!vars
    PROVE  NotMistaken'
<1>1. CASE Disguise!Sighting
  <2>1. UNCHANGED <<truth, history, rerolled>> /\ isDitto' = Disguise!StillDitto
    BY <1>1 DEF Disguise!Sighting
  <2>2. ~isDitto => ~isDitto'
    BY <2>1 DEF Disguise!StillDitto
  <2> QED
    BY <2>1, <2>2 DEF NotMistaken, HistoryOfNoDitto, PlainScan, BoostedScan
<1>2. CASE Disguise!Reload
  <2>1. history'.plain = Disguise!NoScan /\ history'.boosted = Disguise!NoScan
        /\ UNCHANGED <<truth, isDitto, rerolled>>
    BY <1>2 DEF Disguise!Reload, Disguise!NoHistory
  <2> QED
    BY <2>1 DEF NotMistaken, HistoryOfNoDitto, PlainScan, BoostedScan
<1>3. CASE Disguise!Reroll
  <2>1. rerolled' /\ truth' \in Disguise!Truths
    BY <1>3 DEF NotMistaken, Disguise!Reroll, Disguise!Truths
  <2> QED
    BY <2>1 DEF NotMistaken
<1>4. CASE UNCHANGED Disguise!vars
  BY <1>4 DEF NotMistaken, HistoryOfNoDitto, PlainScan, BoostedScan, Disguise!vars
<1> QED
  BY <1>1, <1>2, <1>3, <1>4

\* In whatever weathers a pokemon that is no ditto is encountered and seen, and
\* whatever disguises are known, detectDitto never takes it for one, if levels
\* without a boost end at 30, and the values below 4 of a ditto are no others.
THEOREM NoneIsMistaken ==
    ASSUME DittoAssumptions
    PROVE  Disguise!Spec => []NoFalseDitto
<1>1. Disguise!Init => NotMistaken
  BY DEF Disguise!Init, NotMistaken, HistoryOfNoDitto, Disguise!NoHistory
<1>2. NotMistaken /\ [Disguise!Next]_(Disguise!vars) => NotMistaken'
  BY EncounterIsNotMistaken, RestIsNotMistaken DEF Disguise!Next
<1>3. NotMistaken => NoFalseDitto
  BY DEF NotMistaken, NoFalseDitto, Disguise!NoFalseDitto
<1> QED
  BY <1>1, <1>2, <1>3, PTL DEF Disguise!Spec
-----------------------------------------------------------------------------
(* The values of a ditto (Ditto, instantiated as Disguise).                *)

\* What a ditto shows without its boost, and with it.
LowScan(s) ==
    /\ IsScan(s) /\ s.species = truth.species
    /\ s.level = truth.base /\ s.iv = truth.low /\ s.cell # Disguise!Partly
HighScan(s) ==
    /\ IsScan(s) /\ s.species = truth.species
    /\ s.level = truth.base + 5 /\ s.iv = truth.high /\ s.cell = Disguise!Partly

\* A scan that is kept under the ditto's boost, and one that is kept under the
\* disguise's as long as nothing shows that it is a ditto.
RightScan(s) ==
    \/ LowScan(s) /\ s.weather = Disguise!Nothing
    \/ HighScan(s) /\ s.weather = Disguise!Partly
WrongScan(s) ==
    \/ HighScan(s) /\ s.weather = Disguise!Nothing /\ ~Disguise!MustBeBoosted(s)
    \/ LowScan(s) /\ s.weather = "WINDY" /\ ~Disguise!MustBeUnboosted(s)

RightHistory(h) ==
    /\ h.plain # Disguise!NoScan => RightScan(h.plain) /\ h.plain.weather = Disguise!Nothing
    /\ h.boosted # Disguise!NoScan => RightScan(h.boosted) /\ h.boosted.weather = Disguise!Partly
WrongHistory(h) ==
    \/ h.boosted = Disguise!NoScan /\ WrongScan(h.plain) /\ h.plain.weather = Disguise!Nothing
    \/ h.plain = Disguise!NoScan /\ WrongScan(h.boosted) /\ h.boosted.weather = "WINDY"

\* What an encounter of a ditto scans: in its four states.
DittoScan(s) ==
    \/ LowScan(s) /\ s.weather \in {Disguise!Nothing, "WINDY"}
    \/ HighScan(s) /\ s.weather \in {Disguise!Nothing, Disguise!Partly}

\* The values that the ditto has in display w when it is caught.
CaughtIv(w) == IF w = Disguise!Partly THEN truth.high ELSE truth.low

OldScans == {history.plain, history.boosted} \ {Disguise!NoScan}

\* The verdict on a scan: never an error; and if it is a ditto, all scans are right.
DittoFound(f, s) ==
    /\ f.ok
    /\ \/ /\ RightScan(f.scan) /\ \A m \in Disguise!Rematched(f) : RightScan(m)
          /\ f.ditto => f.caught = Disguise!NoScan \/ f.caught.iv = CaughtIv(s.weather)
       \/ /\ ~f.ditto /\ WrongScan(f.scan)
          /\ \A m \in Disguise!Rematched(f) :
                (m.weather = Disguise!Nothing) = (f.scan.weather = Disguise!Nothing)

LEMMA Levels ==
    ASSUME DittoAssumptions, truth \in Disguise!Truths
    PROVE  truth.base \in 1 .. 30 /\ truth.high \in HighIvs
  BY DEF DittoAssumptions, Disguise!Truths

LEMMA LevelsTell ==
    ASSUME DittoAssumptions, truth \in Disguise!Truths, NEW s
    PROVE  /\ LowScan(s) => ~Disguise!MustBeBoosted(s)
           /\ HighScan(s) => ~Disguise!MustBeUnboosted(s)
  BY Levels DEF DittoAssumptions, LowScan, HighScan, Disguise!MustBeBoosted, Disguise!MustBeUnboosted

LEMMA ScanIsSome ==
    ASSUME DittoAssumptions, truth \in Disguise!Truths, NEW s, LowScan(s) \/ HighScan(s)
    PROVE  s # Disguise!NoScan
<1>1. s.level # 0
  BY Levels DEF LowScan, HighScan
<1> QED
  BY <1>1 DEF Disguise!NoScan

\* Copies of a scan show what it shows.
LEMMA Copies ==
    ASSUME NEW s, IsScan(s), NEW c, NEW w
    PROVE  /\ \A t \in {Disguise!Confirmed(s, c), Disguise!In(s, w)} :
                 /\ IsScan(t) /\ t.level = s.level /\ t.iv = s.iv
                 /\ t.cell = s.cell /\ t.species = s.species
           /\ Disguise!Confirmed(s, c).weather = s.weather
           /\ Disguise!In(s, w).weather = w
<1>1. PICK t : t = Disguise!Confirmed(s, c)
  OBVIOUS
<1>2. PICK v : v = Disguise!In(s, w)
  OBVIOUS
<1>3. IsScan(t) /\ t.level = s.level /\ t.iv = s.iv /\ t.cell = s.cell /\ t.species = s.species
      /\ t.weather = s.weather
  BY <1>1 DEF IsScan, Disguise!Confirmed
<1>4. IsScan(v) /\ v.level = s.level /\ v.iv = s.iv /\ v.cell = s.cell /\ v.species = s.species
      /\ v.weather = w
  BY <1>2 DEF IsScan, Disguise!In
<1> QED
  BY <1>1, <1>2, <1>3, <1>4

LEMMA LowCopies ==
    ASSUME NEW s, LowScan(s), NEW c, NEW w
    PROVE  /\ LowScan(Disguise!Confirmed(s, c)) /\ Disguise!Confirmed(s, c).weather = s.weather
           /\ LowScan(Disguise!In(s, w)) /\ Disguise!In(s, w).weather = w
  BY Copies DEF LowScan

LEMMA HighCopies ==
    ASSUME NEW s, HighScan(s), NEW c, NEW w
    PROVE  /\ HighScan(Disguise!Confirmed(s, c)) /\ Disguise!Confirmed(s, c).weather = s.weather
           /\ HighScan(Disguise!In(s, w)) /\ Disguise!In(s, w).weather = w
  BY Copies DEF HighScan

LEMMA FoundRight ==
    ASSUME NEW s, NEW ditto, NEW matching, NEW t, NEW caught, NEW noted, NEW ok, ok,
           RightScan(t),
           \A m \in OldScans : RightScan(IF matching = "same" THEN m ELSE Disguise!In(m, matching)),
           ditto => caught = Disguise!NoScan \/ caught.iv = CaughtIv(s.weather)
    PROVE  DittoFound(Disguise!Found(ditto, matching, t, caught, ok, noted), s)
<1>1. PICK f : f = Disguise!Found(ditto, matching, t, caught, ok, noted)
  OBVIOUS
<1>2. f.ditto = ditto /\ f.matching = matching /\ f.scan = t /\ f.caught = caught /\ f.ok = ok
  BY <1>1 DEF Disguise!Found
<1>3. \A m \in Disguise!Rematched(f) : RightScan(m)
  BY <1>2 DEF Disguise!Rematched, OldScans
<1> QED
  BY <1>1, <1>2, <1>3 DEF DittoFound

LEMMA FoundWrong ==
    ASSUME NEW s, NEW t, NEW caught, NEW noted, NEW ok, ok, WrongScan(t),
           \A m \in OldScans : (m.weather = Disguise!Nothing) = (t.weather = Disguise!Nothing)
    PROVE  DittoFound(Disguise!Found(FALSE, "same", t, caught, ok, noted), s)
<1>1. PICK f : f = Disguise!Found(FALSE, "same", t, caught, ok, noted)
  OBVIOUS
<1>2. f.ditto = FALSE /\ f.matching = "same" /\ f.scan = t /\ f.ok = ok
  BY <1>1 DEF Disguise!Found
<1>3. Disguise!Rematched(f) = OldScans
  BY <1>2 DEF Disguise!Rematched, OldScans
<1> QED
  BY <1>1, <1>2, <1>3 DEF DittoFound

\* Scans whose kind fits the display are kept as they are.
LEMMA ExpectedRight ==
    ASSUME DittoAssumptions, truth \in Disguise!Truths, RightHistory(history),
           NEW s, RightScan(s)
    PROVE  DittoFound(Disguise!Expected(s), s)
<1>1. \A m \in OldScans : RightScan(m)
  BY DEF OldScans, RightHistory
<1>2. CASE LowScan(s) /\ s.weather = Disguise!Nothing
  <2> DEFINE t == Disguise!Confirmed(s, Disguise!MustBeUnboosted(s))
             ok == Disguise!Agree(history.plain, s)
  <2>1. Disguise!Expected(s) = Disguise!Found(FALSE, "same", t, t, ok, FALSE)
    BY <1>2, LevelsTell DEF Disguise!Expected
  <2>2. ok
    BY <1>2 DEF Disguise!Agree, RightHistory, RightScan, LowScan, Disguise!Nothing, Disguise!Partly
  <2>3. RightScan(t)
    BY <1>2, LowCopies DEF RightScan
  <2> HIDE DEF t, ok
  <2> QED
    BY <1>1, <2>1, <2>2, <2>3, FoundRight
<1>3. CASE HighScan(s) /\ s.weather = Disguise!Partly
  <2> DEFINE t == Disguise!Confirmed(s, Disguise!MustBeBoosted(s))
             ok == Disguise!Agree(history.boosted, s)
  <2>1. Disguise!Expected(s) = Disguise!Found(FALSE, "same", t, t, ok, FALSE)
    BY <1>3, LevelsTell DEF Disguise!Expected, Disguise!Nothing, Disguise!Partly
  <2>2. ok
    BY <1>3 DEF Disguise!Agree, RightHistory, RightScan, HighScan, Disguise!Nothing, Disguise!Partly
  <2>3. RightScan(t)
    BY <1>3, HighCopies DEF RightScan
  <2> HIDE DEF t, ok
  <2> QED
    BY <1>1, <2>1, <2>2, <2>3, FoundRight
<1> QED
  BY <1>2, <1>3 DEF RightScan

\* Where they do not, a level or values that tell show it; and where they do not
\* tell, the old scan of the kind is as wrong as the new one.
LEMMA ExpectedLow ==
    ASSUME DittoAssumptions, truth \in Disguise!Truths,
           NEW s, LowScan(s), s.weather = "WINDY",
           history.plain = Disguise!NoScan,
           \/ history.boosted = Disguise!NoScan
           \/ LowScan(history.boosted) /\ WrongScan(history.boosted) /\ history.boosted.weather = "WINDY"
    PROVE  DittoFound(Disguise!Expected(s), s)
<1> DEFINE b == history.boosted
           sure == Disguise!Confirmed(s, TRUE)
           low == Disguise!In(sure, Disguise!Nothing)
           t == Disguise!Confirmed(s, Disguise!MustBeBoosted(s))
           agreePlain == Disguise!Agree(history.plain, s)
           agree == Disguise!Agree(b, s)
<1>1. OldScans = {b} \ {Disguise!NoScan}
  BY DEF OldScans
<1>2. agreePlain /\ agree
  BY DEF Disguise!Agree, LowScan
<1>3. LowScan(low) /\ low.weather = Disguise!Nothing /\ LowScan(t) /\ t.weather = s.weather
  BY LowCopies
<1>4. CASE Disguise!MustBeUnboosted(s)
  <2>1. Disguise!Expected(s) = Disguise!Found(TRUE, "same", low, low, agreePlain, TRUE)
    BY <1>4 DEF Disguise!Expected, Disguise!Nothing
  <2>2. b = Disguise!NoScan
    BY <1>4, Levels DEF WrongScan, LowScan, HighScan, Disguise!MustBeUnboosted, Disguise!Nothing
  <2>3. low.iv = CaughtIv(s.weather)
    BY <1>3 DEF LowScan, CaughtIv, Disguise!Partly
  <2>4. \A m \in OldScans : RightScan(m)
    BY <1>1, <2>2
  <2> HIDE DEF low, agreePlain
  <2> QED
    BY <1>2, <1>3, <2>1, <2>3, <2>4, FoundRight DEF RightScan
<1>5. CASE ~Disguise!MustBeUnboosted(s)
  <2>1. Disguise!Expected(s) = Disguise!Found(FALSE, "same", t, t, agree, FALSE)
    BY <1>5 DEF Disguise!Expected, Disguise!Nothing
  <2>2. WrongScan(t)
    BY <1>3, <1>5 DEF WrongScan, LowScan, Disguise!MustBeUnboosted
  <2>3. \A m \in OldScans : (m.weather = Disguise!Nothing) = (t.weather = Disguise!Nothing)
    BY <1>1, <1>3
  <2>4. agree
    BY <1>2
  <2> HIDE DEF t, agree
  <2>5. DittoFound(Disguise!Found(FALSE, "same", t, t, agree, FALSE), s)
    BY <2>2, <2>3, <2>4, FoundWrong
  <2> QED
    BY <2>1, <2>5
<1> QED
  BY <1>4, <1>5

LEMMA ExpectedHigh ==
    ASSUME DittoAssumptions, truth \in Disguise!Truths,
           NEW s, HighScan(s), s.weather = Disguise!Nothing,
           history.boosted = Disguise!NoScan,
           \/ history.plain = Disguise!NoScan
           \/ HighScan(history.plain) /\ WrongScan(history.plain) /\ history.plain.weather = Disguise!Nothing
    PROVE  DittoFound(Disguise!Expected(s), s)
<1> DEFINE u == history.plain
           sure == Disguise!Confirmed(s, TRUE)
           high == Disguise!In(sure, Disguise!Partly)
           t == Disguise!Confirmed(s, Disguise!MustBeUnboosted(s))
           agreeBoosted == Disguise!Agree(history.boosted, s)
           agree == Disguise!Agree(u, s)
<1>1. OldScans = {u} \ {Disguise!NoScan}
  BY DEF OldScans
<1>2. agreeBoosted /\ agree
  BY DEF Disguise!Agree, HighScan
<1>3. HighScan(high) /\ high.weather = Disguise!Partly /\ HighScan(t) /\ t.weather = s.weather
  BY HighCopies
<1>4. CASE Disguise!MustBeBoosted(s)
  <2>1. Disguise!Expected(s) = Disguise!Found(TRUE, "same", high, u, agreeBoosted, TRUE)
    BY <1>4 DEF Disguise!Expected, Disguise!Nothing
  <2>2. u = Disguise!NoScan
    BY <1>4, Levels DEF WrongScan, HighScan, Disguise!MustBeBoosted, Disguise!Nothing
  <2>3. \A m \in OldScans : RightScan(m)
    BY <1>1, <2>2
  <2> HIDE DEF high, agreeBoosted
  <2> QED
    BY <1>2, <1>3, <2>1, <2>2, <2>3, FoundRight DEF RightScan
<1>5. CASE ~Disguise!MustBeBoosted(s)
  <2>1. Disguise!Expected(s) = Disguise!Found(FALSE, "same", t, t, agree, FALSE)
    BY <1>5 DEF Disguise!Expected, Disguise!Nothing
  <2>2. WrongScan(t)
    BY <1>3, <1>5 DEF WrongScan, HighScan, Disguise!MustBeBoosted
  <2>3. \A m \in OldScans : (m.weather = Disguise!Nothing) = (t.weather = Disguise!Nothing)
    BY <1>1, <1>3
  <2>4. agree
    BY <1>2
  <2> HIDE DEF t, agree
  <2>5. DittoFound(Disguise!Found(FALSE, "same", t, t, agree, FALSE), s)
    BY <2>2, <2>3, <2>4, FoundWrong
  <2> QED
    BY <2>1, <2>5
<1> QED
  BY <1>4, <1>5

LEMMA KnownFinds ==
    ASSUME DittoAssumptions, truth \in Disguise!Truths, RightHistory(history),
           history.plain # Disguise!NoScan \/ history.boosted # Disguise!NoScan,
           NEW s, DittoScan(s)
    PROVE  DittoFound(Disguise!KnownDitto(s), s)
<1> DEFINE u == history.plain
           b == history.boosted
           base == IF b # Disguise!NoScan THEN b.level - 5 ELSE u.level
           sure == Disguise!Confirmed(s, TRUE)
           low == Disguise!In(sure, Disguise!Nothing)
           high == Disguise!In(sure, Disguise!Partly)
           agreePlain == Disguise!Agree(u, s)
           agree == Disguise!Agree(b, s)
           Is(t, caught, ok) == Disguise!Found(TRUE, "same", t, caught, ok, FALSE)
           Not(ok) == Disguise!Found(FALSE, "same", sure, sure, ok, FALSE)
<1>1. \A m \in OldScans : RightScan(m)
  BY DEF OldScans, RightHistory
<1>2. base = truth.base /\ truth.base # truth.base + 5
  BY Levels DEF RightHistory, RightScan, LowScan, HighScan, Disguise!Nothing, Disguise!Partly
<1>3. LowScan(s) => s.iv = truth.low /\ s.level = base /\ s.level # base + 5 /\ s.cell # Disguise!Partly
  BY <1>2 DEF LowScan
<1>3a. LowScan(s) => agreePlain
  BY <1>2 DEF Disguise!Agree, RightHistory, RightScan, LowScan, Disguise!Nothing, Disguise!Partly
<1>4. HighScan(s) => s.iv = truth.high /\ s.level = base + 5 /\ s.level # base /\ s.cell = Disguise!Partly
  BY <1>2 DEF HighScan
<1>4a. HighScan(s) => agree
  BY <1>2 DEF Disguise!Agree, RightHistory, RightScan, HighScan, Disguise!Nothing, Disguise!Partly
<1>5. u = Disguise!NoScan \/ u.iv = truth.low
  BY DEF RightHistory, RightScan, LowScan, Disguise!Nothing, Disguise!Partly
<1>6. Disguise!KnownDitto(s) =
        CASE s.weather = Disguise!Nothing /\ s.cell # Disguise!Partly -> Is(sure, sure, agreePlain)
          [] s.weather = Disguise!Nothing /\ s.cell = Disguise!Partly /\ s.level = base -> Not(agreePlain)
          [] s.weather = Disguise!Nothing /\ s.cell = Disguise!Partly /\ s.level = base + 5 ->
               Is(high, u, agree)
          [] s.weather = Disguise!Partly -> Is(sure, sure, agree)
          [] s.weather = "WINDY" /\ s.level = base -> Is(low, low, agreePlain)
          [] s.weather = "WINDY" /\ s.level = base + 5 -> Not(agree)
          [] OTHER -> Is(sure, sure, FALSE)
  BY DEF Disguise!KnownDitto
<1>7. /\ LowScan(s) => /\ LowScan(sure) /\ sure.weather = s.weather /\ sure.iv = s.iv
                       /\ LowScan(low) /\ low.weather = Disguise!Nothing /\ low.iv = s.iv
      /\ HighScan(s) => /\ HighScan(sure) /\ sure.weather = s.weather /\ sure.iv = s.iv
                        /\ HighScan(high) /\ high.weather = Disguise!Partly
  <2>1. ASSUME LowScan(s)
        PROVE  LowScan(sure) /\ sure.weather = s.weather /\ LowScan(low) /\ low.weather = Disguise!Nothing
    BY <2>1, LowCopies
  <2>2. ASSUME HighScan(s)
        PROVE  HighScan(sure) /\ sure.weather = s.weather /\ HighScan(high) /\ high.weather = Disguise!Partly
    BY <2>2, HighCopies
  <2> HIDE DEF sure, low, high
  <2> QED
    BY <2>1, <2>2 DEF LowScan, HighScan
<1> HIDE DEF u, b, base, sure, low, high, agreePlain, agree
<1>8. CASE LowScan(s) /\ s.weather = Disguise!Nothing
  <2>0. s.cell # Disguise!Partly
    BY <1>3, <1>8
  <2>1. Disguise!KnownDitto(s) = Is(sure, sure, agreePlain)
    BY <1>6, <1>8, <2>0 DEF Disguise!Nothing, Disguise!Partly
  <2>2. RightScan(sure) /\ sure.iv = CaughtIv(s.weather) /\ agreePlain
    BY <1>3, <1>3a, <1>7, <1>8 DEF RightScan, CaughtIv, Disguise!Nothing, Disguise!Partly
  <2> QED
    BY <1>1, <2>1, <2>2, FoundRight
<1>9. CASE LowScan(s) /\ s.weather = "WINDY"
  <2>0. s.level = base /\ s.level # base + 5 /\ s.weather # Disguise!Nothing /\ s.weather # Disguise!Partly
    BY <1>3, <1>9 DEF Disguise!Nothing, Disguise!Partly
  <2>1. Disguise!KnownDitto(s) = Is(low, low, agreePlain)
    BY <1>6, <1>9, <2>0
  <2>2. RightScan(low) /\ low.iv = CaughtIv(s.weather) /\ agreePlain
    BY <1>3, <1>3a, <1>7, <1>9 DEF RightScan, CaughtIv, Disguise!Partly
  <2> QED
    BY <1>1, <2>1, <2>2, FoundRight
<1>10. CASE HighScan(s) /\ s.weather = Disguise!Nothing
  <2>0. s.cell = Disguise!Partly /\ s.level = base + 5 /\ s.level # base
    BY <1>4, <1>10
  <2>1. Disguise!KnownDitto(s) = Is(high, u, agree)
    BY <1>6, <1>10, <2>0 DEF Disguise!Nothing, Disguise!Partly
  <2>2. RightScan(high) /\ CaughtIv(s.weather) = truth.low /\ agree
    BY <1>4, <1>4a, <1>7, <1>10 DEF RightScan, CaughtIv, Disguise!Nothing, Disguise!Partly
  <2> QED
    BY <1>1, <1>5, <2>1, <2>2, FoundRight
<1>11. CASE HighScan(s) /\ s.weather = Disguise!Partly
  <2>1. Disguise!KnownDitto(s) = Is(sure, sure, agree)
    BY <1>6, <1>11 DEF Disguise!Nothing, Disguise!Partly
  <2>2. RightScan(sure) /\ sure.iv = CaughtIv(s.weather) /\ agree
    BY <1>4, <1>4a, <1>7, <1>11 DEF RightScan, CaughtIv
  <2> QED
    BY <1>1, <2>1, <2>2, FoundRight
<1> QED
  BY <1>8, <1>9, <1>10, <1>11 DEF DittoScan

LEMMA BothFind ==
    ASSUME DittoAssumptions, truth \in Disguise!Truths, RightHistory(history),
           history.plain # Disguise!NoScan, history.boosted # Disguise!NoScan,
           NEW s, DittoScan(s)
    PROVE  DittoFound(Disguise!WithBoth(s), s)
<1> DEFINE u == history.plain
           b == history.boosted
           low == Disguise!In(s, Disguise!Nothing)
           high == Disguise!In(s, Disguise!Partly)
           agreePlain == Disguise!Agree(u, s)
           agree == Disguise!Agree(b, s)
<1>1. \A m \in OldScans : RightScan(m)
  BY DEF OldScans, RightHistory
<1>2. /\ u.level = truth.base /\ b.level = truth.base + 5 /\ truth.base # truth.base + 5
      /\ u.iv = truth.low /\ b.iv = truth.high
  BY Levels DEF RightHistory, RightScan, LowScan, HighScan, Disguise!Nothing, Disguise!Partly
<1>3. CASE LowScan(s) /\ s.weather = Disguise!Nothing
  <2>1. Disguise!WithBoth(s) = Disguise!Found(FALSE, "same", s, s, agreePlain, FALSE)
    BY <1>2, <1>3 DEF Disguise!WithBoth, LowScan
  <2>2. agreePlain /\ RightScan(s)
    BY <1>2, <1>3 DEF RightScan, LowScan, Disguise!Agree
  <2> HIDE DEF agreePlain
  <2> QED
    BY <1>1, <2>1, <2>2, FoundRight
<1>4. CASE LowScan(s) /\ s.weather = "WINDY"
  <2>1. Disguise!WithBoth(s) = Disguise!Found(TRUE, "same", low, low, TRUE, TRUE)
    BY <1>2, <1>4 DEF Disguise!WithBoth, LowScan, Disguise!Nothing
  <2>2. RightScan(low) /\ low.iv = CaughtIv(s.weather)
    BY <1>4, LowCopies DEF RightScan, LowScan, CaughtIv, Disguise!Partly
  <2> HIDE DEF low
  <2> QED
    BY <1>1, <2>1, <2>2, FoundRight
<1>5. CASE HighScan(s) /\ s.weather = Disguise!Nothing
  <2>1. Disguise!WithBoth(s) = Disguise!Found(TRUE, "same", high, u, TRUE, TRUE)
    BY <1>2, <1>5 DEF Disguise!WithBoth, HighScan
  <2>2. RightScan(high) /\ CaughtIv(s.weather) = truth.low
    BY <1>5, HighCopies DEF RightScan, CaughtIv, Disguise!Nothing, Disguise!Partly
  <2> HIDE DEF high, u
  <2> QED
    BY <1>1, <1>2, <2>1, <2>2, FoundRight
<1>6. CASE HighScan(s) /\ s.weather = Disguise!Partly
  <2>1. Disguise!WithBoth(s) = Disguise!Found(FALSE, "same", s, s, agree, FALSE)
    BY <1>2, <1>6 DEF Disguise!WithBoth, HighScan, Disguise!Nothing, Disguise!Partly
  <2>2. agree /\ RightScan(s)
    BY <1>2, <1>6 DEF RightScan, HighScan, Disguise!Agree
  <2> HIDE DEF agree
  <2> QED
    BY <1>1, <2>1, <2>2, FoundRight
<1> QED
  BY <1>3, <1>4, <1>5, <1>6 DEF DittoScan

\* By how much the level differs from the expected one says which case it is.
ExpectedLevel(s, m) ==
    m.level + (IF s.weather # Disguise!Nothing /\ m.weather = Disguise!Nothing THEN 5 ELSE 0)
ReachedLevel(s, m) ==
    s.level + (IF s.weather = Disguise!Nothing /\ m.weather # Disguise!Nothing THEN 5 ELSE 0)

LEMMA ByLevel ==
    ASSUME NEW s, NEW m, ExpectedLevel(s, m) \in Nat, ReachedLevel(s, m) \in Nat
    PROVE  /\ ReachedLevel(s, m) = ExpectedLevel(s, m) =>
                Disguise!WithOne(s, m) = Disguise!Expected(s)
           /\ ReachedLevel(s, m) = ExpectedLevel(s, m) + 5 =>
                Disguise!WithOne(s, m) = Disguise!Higher(s, m)
           /\ ReachedLevel(s, m) + 5 = ExpectedLevel(s, m) =>
                Disguise!WithOne(s, m) = Disguise!Lower(s, m)
           /\ ReachedLevel(s, m) = ExpectedLevel(s, m) + 10 => Disguise!WithOne(s, m) =
                Disguise!Found(TRUE, Disguise!Nothing, Disguise!In(s, Disguise!Partly),
                               Disguise!In(m, Disguise!Nothing), TRUE, TRUE)
           /\ ReachedLevel(s, m) + 10 = ExpectedLevel(s, m) => Disguise!WithOne(s, m) =
                Disguise!Found(TRUE, Disguise!Partly, Disguise!In(s, Disguise!Nothing),
                               Disguise!In(s, Disguise!Nothing), TRUE, TRUE)
<1> DEFINE expected == ExpectedLevel(s, m)
           reached == ReachedLevel(s, m)
<1>1. Disguise!WithOne(s, m) =
        CASE reached = expected -> Disguise!Expected(s)
          [] reached = expected + 5 -> Disguise!Higher(s, m)
          [] reached + 5 = expected -> Disguise!Lower(s, m)
          [] reached = expected + 10 ->
               Disguise!Found(TRUE, Disguise!Nothing, Disguise!In(s, Disguise!Partly),
                              Disguise!In(m, Disguise!Nothing), TRUE, TRUE)
          [] reached + 10 = expected ->
               Disguise!Found(TRUE, Disguise!Partly, Disguise!In(s, Disguise!Nothing),
                              Disguise!In(s, Disguise!Nothing), TRUE, TRUE)
          [] OTHER -> Disguise!Found(FALSE, m.weather, s, s, FALSE, FALSE)
  BY DEF Disguise!WithOne, ExpectedLevel, ReachedLevel
<1>2. expected \in Nat /\ reached \in Nat
  OBVIOUS
<1> HIDE DEF expected, reached
<1>3. CASE reached = expected
  <2>1. reached # expected + 5 /\ reached + 5 # expected /\ reached # expected + 10 /\ reached + 10 # expected
    BY <1>2, <1>3
  <2> QED
    BY <1>1, <1>3, <2>1 DEF expected, reached
<1>4. CASE reached = expected + 5
  <2>1. reached # expected /\ reached + 5 # expected /\ reached # expected + 10 /\ reached + 10 # expected
    BY <1>2, <1>4
  <2> QED
    BY <1>1, <1>4, <2>1 DEF expected, reached
<1>5. CASE reached + 5 = expected
  <2>1. reached # expected /\ reached # expected + 5 /\ reached # expected + 10 /\ reached + 10 # expected
    BY <1>2, <1>5
  <2> QED
    BY <1>1, <1>5, <2>1 DEF expected, reached
<1>6. CASE reached = expected + 10
  <2>1. reached # expected /\ reached # expected + 5 /\ reached + 5 # expected /\ reached + 10 # expected
    BY <1>2, <1>6
  <2> QED
    BY <1>1, <1>6, <2>1 DEF expected, reached
<1>7. CASE reached + 10 = expected
  <2>1. reached # expected /\ reached # expected + 5 /\ reached + 5 # expected /\ reached # expected + 10
    BY <1>2, <1>7
  <2> QED
    BY <1>1, <1>7, <2>1 DEF expected, reached
<1> QED
  BY <1>3, <1>4, <1>5, <1>6, <1>7 DEF expected, reached

LEMMA LowIsRight ==
    ASSUME NEW t, LowScan(t), t.weather = Disguise!Nothing
    PROVE  RightScan(t) /\ \A w : w # Disguise!Partly => t.iv = CaughtIv(w)
  BY DEF RightScan, LowScan, CaughtIv

LEMMA HighIsRight ==
    ASSUME NEW t, HighScan(t), t.weather = Disguise!Partly
    PROVE  RightScan(t) /\ t.iv = CaughtIv(Disguise!Partly)
  BY DEF RightScan, HighScan, CaughtIv

\* What is found with one scan m so far, which is right, or as wrong as nothing
\* shows yet.
OnlyScan(m) ==
    /\ \/ history = [plain |-> m, boosted |-> Disguise!NoScan] /\ m.weather = Disguise!Nothing
       \/ history = [plain |-> Disguise!NoScan, boosted |-> m] /\ m.weather # Disguise!Nothing
    /\ m # Disguise!NoScan
    /\ RightScan(m) \/ WrongScan(m)

LEMMA OnlyScanFacts ==
    ASSUME NEW m, OnlyScan(m)
    PROVE  /\ OldScans = {m}
           /\ RightScan(m) => RightHistory(history)
           /\ LowScan(m) => m.weather \in {Disguise!Nothing, "WINDY"}
           /\ HighScan(m) => m.weather \in {Disguise!Nothing, Disguise!Partly}
           /\ m.weather = Disguise!Nothing => history.plain = m /\ history.boosted = Disguise!NoScan
           /\ m.weather # Disguise!Nothing => history.plain = Disguise!NoScan /\ history.boosted = m
<1>1. PICK h : h = history
  OBVIOUS
<1>2. \/ h = [plain |-> m, boosted |-> Disguise!NoScan] /\ m.weather = Disguise!Nothing
      \/ h = [plain |-> Disguise!NoScan, boosted |-> m] /\ m.weather # Disguise!Nothing
  BY <1>1 DEF OnlyScan
<1>3. \/ h.plain = m /\ h.boosted = Disguise!NoScan /\ m.weather = Disguise!Nothing
      \/ h.plain = Disguise!NoScan /\ h.boosted = m /\ m.weather # Disguise!Nothing
  BY <1>2
<1>4. OldScans = {m}
  BY <1>1, <1>3 DEF OldScans, OnlyScan
<1>5. RightScan(m) => RightHistory(h)
  BY <1>3 DEF RightHistory, RightScan, Disguise!Nothing, Disguise!Partly
<1>6. /\ LowScan(m) => m.weather \in {Disguise!Nothing, "WINDY"}
      /\ HighScan(m) => m.weather \in {Disguise!Nothing, Disguise!Partly}
  BY DEF OnlyScan, RightScan, WrongScan, LowScan, HighScan
<1> QED
  BY <1>1, <1>3, <1>4, <1>5, <1>6

LEMMA PlainLowFinds ==
    ASSUME DittoAssumptions, truth \in Disguise!Truths, NEW m, OnlyScan(m),
           NEW s, LowScan(s), s.weather = Disguise!Nothing
    PROVE  DittoFound(Disguise!WithOne(s, m), s)
<1>1. truth.base \in 1 .. 30 /\ s.level = truth.base /\ s.cell # Disguise!Partly
  BY Levels DEF LowScan
<1>2. CASE RightScan(m)
  <2>1. ReachedLevel(s, m) \in Nat /\ ExpectedLevel(s, m) = ReachedLevel(s, m)
    <3>1. CASE LowScan(m) /\ m.weather = Disguise!Nothing
      BY <1>1, <3>1 DEF LowScan, ReachedLevel, ExpectedLevel
    <3>2. CASE HighScan(m) /\ m.weather = Disguise!Partly
      BY <1>1, <3>2 DEF HighScan, ReachedLevel, ExpectedLevel, Disguise!Nothing, Disguise!Partly
    <3> QED
      BY <1>2, <3>1, <3>2 DEF RightScan
  <2>2. Disguise!WithOne(s, m) = Disguise!Expected(s)
    BY <2>1, ByLevel
  <2>3. RightScan(s) /\ RightHistory(history)
    BY <1>2, OnlyScanFacts DEF RightScan
  <2> QED
    BY <2>2, <2>3, ExpectedRight
<1>3. CASE HighScan(m) /\ m.weather = Disguise!Nothing
  <2> DEFINE t == Disguise!Confirmed(s, FALSE)
             ditto == ~Disguise!MustHaveRerolled(s, m)
  <2>1. /\ ReachedLevel(s, m) \in Nat /\ ExpectedLevel(s, m) \in Nat
        /\ ReachedLevel(s, m) + 5 = ExpectedLevel(s, m)
    BY <1>1, <1>3 DEF HighScan, ReachedLevel, ExpectedLevel
  <2>2. Disguise!WithOne(s, m) = Disguise!Lower(s, m)
    BY <2>1, ByLevel
  <2>3. Disguise!Lower(s, m) = Disguise!Found(ditto, Disguise!Partly, t, t, TRUE, FALSE)
    BY DEF Disguise!Lower, Disguise!Nothing, Disguise!Partly
  <2>4. LowScan(t) /\ t.weather = Disguise!Nothing
    BY LowCopies
  <2>5. \A n \in OldScans : RightScan(Disguise!In(n, Disguise!Partly))
    <3>1. RightScan(Disguise!In(m, Disguise!Partly))
      BY <1>3, HighCopies, HighIsRight
    <3> QED
      BY <3>1, OnlyScanFacts
  <2> HIDE DEF t, ditto
  <2>6. RightScan(t) /\ t.iv = CaughtIv(s.weather)
    BY <2>4, LowIsRight DEF Disguise!Nothing, Disguise!Partly
  <2> QED
    BY <2>2, <2>3, <2>5, <2>6, FoundRight DEF Disguise!Partly
<1>4. CASE LowScan(m) /\ m.weather = "WINDY"
  <2> DEFINE t == Disguise!Confirmed(s, TRUE)
             ditto == ~Disguise!MustHaveRerolled(s, m)
  <2>1. /\ ReachedLevel(s, m) \in Nat /\ ExpectedLevel(s, m) \in Nat
        /\ ReachedLevel(s, m) = ExpectedLevel(s, m) + 5
    BY <1>1, <1>4 DEF LowScan, ReachedLevel, ExpectedLevel, Disguise!Nothing
  <2>2. Disguise!WithOne(s, m) = Disguise!Higher(s, m)
    BY <2>1, ByLevel
  <2>3. Disguise!Agree(m, s)
    BY <1>4 DEF Disguise!Agree, LowScan
  <2>4. Disguise!Higher(s, m) = Disguise!Found(ditto, Disguise!Nothing, t, t, TRUE, FALSE)
    BY <1>1, <1>4, <2>3 DEF Disguise!Higher, Disguise!Nothing, Disguise!Partly
  <2>5. LowScan(t) /\ t.weather = Disguise!Nothing
    BY LowCopies
  <2>6. \A n \in OldScans : RightScan(Disguise!In(n, Disguise!Nothing))
    <3>1. RightScan(Disguise!In(m, Disguise!Nothing))
      BY <1>4, LowCopies, LowIsRight
    <3> QED
      BY <3>1, OnlyScanFacts
  <2> HIDE DEF t, ditto
  <2>7. RightScan(t) /\ t.iv = CaughtIv(s.weather)
    BY <2>5, LowIsRight DEF Disguise!Nothing, Disguise!Partly
  <2> QED
    BY <2>2, <2>4, <2>6, <2>7, FoundRight DEF Disguise!Nothing
<1> QED
  BY <1>2, <1>3, <1>4 DEF OnlyScan, WrongScan

LEMMA BoostedLowFinds ==
    ASSUME DittoAssumptions, truth \in Disguise!Truths, NEW m, OnlyScan(m),
           NEW s, LowScan(s), s.weather = "WINDY"
    PROVE  DittoFound(Disguise!WithOne(s, m), s)
<1>1. truth.base \in 1 .. 30 /\ s.level = truth.base /\ s.cell # Disguise!Partly
  BY Levels DEF LowScan
<1> DEFINE low == Disguise!In(s, Disguise!Nothing)
           Told(matching, t, noted) == Disguise!Found(TRUE, matching, t, t, TRUE, noted)
<1>2. LowScan(low) /\ low.weather = Disguise!Nothing
  BY LowCopies
<1>3. /\ LowScan(Disguise!Confirmed(low, TRUE)) /\ Disguise!Confirmed(low, TRUE).weather = Disguise!Nothing
      /\ LowScan(Disguise!Confirmed(low, FALSE)) /\ Disguise!Confirmed(low, FALSE).weather = Disguise!Nothing
  <2> HIDE DEF low
  <2> QED
    BY <1>2, LowCopies
<1>4. ASSUME NEW w, NEW t, LowScan(t), t.weather = Disguise!Nothing,
             w # "same", RightScan(Disguise!In(m, w)), NEW noted
      PROVE  DittoFound(Told(w, t, noted), s)
  <2>1. \A n \in OldScans : RightScan(Disguise!In(n, w))
    BY <1>4, OnlyScanFacts
  <2>2. RightScan(t) /\ t.iv = CaughtIv(s.weather)
    BY <1>4, LowIsRight DEF Disguise!Partly
  <2> QED
    BY <1>4, <2>1, <2>2, FoundRight
<1>5. CASE LowScan(m) /\ m.weather = Disguise!Nothing
  <2>1. /\ ReachedLevel(s, m) \in Nat /\ ExpectedLevel(s, m) \in Nat
        /\ ReachedLevel(s, m) + 5 = ExpectedLevel(s, m)
    BY <1>1, <1>5 DEF LowScan, ReachedLevel, ExpectedLevel, Disguise!Nothing
  <2>2. Disguise!WithOne(s, m) = Disguise!Lower(s, m)
    BY <2>1, ByLevel
  <2>3. Disguise!Agree(m, s) /\ m.cell # Disguise!Partly /\ ~Disguise!MustBeBoosted(s)
    BY <1>5, LevelsTell DEF Disguise!Agree, LowScan
  <2>4. Disguise!Lower(s, m) = Told(Disguise!Nothing, Disguise!Confirmed(low, TRUE), TRUE)
    BY <1>5, <2>3 DEF Disguise!Lower, Disguise!Nothing, Disguise!Partly
  <2>5. RightScan(Disguise!In(m, Disguise!Nothing)) /\ Disguise!Nothing # "same"
    BY <1>5, LowCopies, LowIsRight DEF Disguise!Nothing
  <2> HIDE DEF low, Told
  <2> QED
    BY <1>3, <1>4, <2>2, <2>4, <2>5
<1>6. CASE HighScan(m) /\ m.weather = Disguise!Partly
  <2>1. /\ ReachedLevel(s, m) \in Nat /\ ExpectedLevel(s, m) \in Nat
        /\ ReachedLevel(s, m) + 5 = ExpectedLevel(s, m)
    BY <1>1, <1>6 DEF HighScan, ReachedLevel, ExpectedLevel, Disguise!Nothing, Disguise!Partly
  <2>2. Disguise!WithOne(s, m) = Disguise!Lower(s, m)
    BY <2>1, ByLevel
  <2>3. Disguise!Lower(s, m) = Told(Disguise!Partly, Disguise!Confirmed(low, FALSE), TRUE)
    BY <1>6 DEF Disguise!Lower, Disguise!Nothing, Disguise!Partly
  <2>4. RightScan(Disguise!In(m, Disguise!Partly)) /\ Disguise!Partly # "same"
    BY <1>6, HighCopies, HighIsRight DEF Disguise!Partly
  <2> HIDE DEF low, Told
  <2> QED
    BY <1>3, <1>4, <2>2, <2>3, <2>4
<1>7. CASE HighScan(m) /\ m.weather = Disguise!Nothing
  <2>1. /\ ReachedLevel(s, m) \in Nat /\ ExpectedLevel(s, m) \in Nat
        /\ ReachedLevel(s, m) + 10 = ExpectedLevel(s, m)
    BY <1>1, <1>7 DEF HighScan, ReachedLevel, ExpectedLevel, Disguise!Nothing
  <2>2. Disguise!WithOne(s, m) = Told(Disguise!Partly, low, TRUE)
    BY <2>1, ByLevel
  <2>3. RightScan(Disguise!In(m, Disguise!Partly)) /\ Disguise!Partly # "same"
    BY <1>7, HighCopies, HighIsRight DEF Disguise!Partly
  <2> HIDE DEF low, Told
  <2> QED
    BY <1>2, <1>4, <2>2, <2>3
<1>8. CASE LowScan(m) /\ m.weather = "WINDY"
  <2>1. /\ ReachedLevel(s, m) \in Nat /\ ExpectedLevel(s, m) \in Nat
        /\ ReachedLevel(s, m) = ExpectedLevel(s, m)
    BY <1>1, <1>8 DEF LowScan, ReachedLevel, ExpectedLevel, Disguise!Nothing
  <2>2. Disguise!WithOne(s, m) = Disguise!Expected(s)
    BY <2>1, ByLevel
  <2>3. history.plain = Disguise!NoScan /\ history.boosted = m
    BY <1>8, OnlyScanFacts DEF Disguise!Nothing
  <2>4. WrongScan(m)
    BY <1>8 DEF OnlyScan, RightScan, Disguise!Nothing, Disguise!Partly
  <2> QED
    BY <1>8, <2>2, <2>3, <2>4, ExpectedLow
<1> QED
  BY <1>5, <1>6, <1>7, <1>8 DEF OnlyScan, RightScan, WrongScan

LEMMA PlainHighFinds ==
    ASSUME DittoAssumptions, truth \in Disguise!Truths, NEW m, OnlyScan(m),
           NEW s, HighScan(s), s.weather = Disguise!Nothing
    PROVE  DittoFound(Disguise!WithOne(s, m), s)
<1>1. truth.base \in 1 .. 30 /\ s.level = truth.base + 5 /\ s.cell = Disguise!Partly
  BY Levels DEF HighScan
<1> DEFINE high == Disguise!In(s, Disguise!Partly)
           Told(matching, t, caught) == Disguise!Found(TRUE, matching, t, caught, TRUE, TRUE)
<1>2. HighScan(high) /\ high.weather = Disguise!Partly
  BY HighCopies
<1>3. /\ HighScan(Disguise!Confirmed(high, TRUE)) /\ Disguise!Confirmed(high, TRUE).weather = Disguise!Partly
      /\ HighScan(Disguise!Confirmed(high, FALSE)) /\ Disguise!Confirmed(high, FALSE).weather = Disguise!Partly
  <2> HIDE DEF high
  <2> QED
    BY <1>2, HighCopies
<1>4. CaughtIv(s.weather) = truth.low
  BY DEF CaughtIv, Disguise!Nothing, Disguise!Partly
<1>5. ASSUME NEW w, NEW t, HighScan(t), t.weather = Disguise!Partly,
             NEW caught, caught = Disguise!NoScan \/ caught.iv = truth.low,
             w # "same", RightScan(Disguise!In(m, w))
      PROVE  DittoFound(Told(w, t, caught), s)
  <2>1. \A n \in OldScans : RightScan(Disguise!In(n, w))
    BY <1>5, OnlyScanFacts
  <2>2. RightScan(t)
    BY <1>5, HighIsRight
  <2> QED
    BY <1>4, <1>5, <2>1, <2>2, FoundRight
<1>6. CASE LowScan(m) /\ m.weather = Disguise!Nothing
  <2>1. /\ ReachedLevel(s, m) \in Nat /\ ExpectedLevel(s, m) \in Nat
        /\ ReachedLevel(s, m) = ExpectedLevel(s, m) + 5
    BY <1>1, <1>6 DEF LowScan, ReachedLevel, ExpectedLevel
  <2>2. Disguise!WithOne(s, m) = Disguise!Higher(s, m)
    BY <2>1, ByLevel
  <2>3. history.plain = m /\ m.iv = truth.low
    BY <1>6, OnlyScanFacts DEF LowScan
  <2>4. Disguise!Higher(s, m) = Told(Disguise!Nothing, Disguise!Confirmed(high, FALSE), m)
    BY <1>6, <2>3 DEF Disguise!Higher, Disguise!Nothing, Disguise!Partly
  <2>5. RightScan(Disguise!In(m, Disguise!Nothing)) /\ Disguise!Nothing # "same"
    BY <1>6, LowCopies, LowIsRight DEF Disguise!Nothing
  <2> HIDE DEF high, Told
  <2> QED
    BY <1>3, <1>5, <2>2, <2>3, <2>4, <2>5
<1>7. CASE HighScan(m) /\ m.weather = Disguise!Partly
  <2>1. /\ ReachedLevel(s, m) \in Nat /\ ExpectedLevel(s, m) \in Nat
        /\ ReachedLevel(s, m) = ExpectedLevel(s, m) + 5
    BY <1>1, <1>7 DEF HighScan, ReachedLevel, ExpectedLevel, Disguise!Nothing, Disguise!Partly
  <2>2. Disguise!WithOne(s, m) = Disguise!Higher(s, m)
    BY <2>1, ByLevel
  <2>3. history.plain = Disguise!NoScan
    BY <1>7, OnlyScanFacts DEF Disguise!Nothing, Disguise!Partly
  <2>4. Disguise!Agree(m, s)
    BY <1>7 DEF Disguise!Agree, HighScan
  <2>5. Disguise!Higher(s, m) = Told(Disguise!Partly, Disguise!Confirmed(high, TRUE), Disguise!NoScan)
    BY <1>7, <2>3, <2>4 DEF Disguise!Higher, Disguise!Nothing, Disguise!Partly
  <2>6. RightScan(Disguise!In(m, Disguise!Partly)) /\ Disguise!Partly # "same"
    BY <1>7, HighCopies, HighIsRight DEF Disguise!Partly
  <2> HIDE DEF high, Told
  <2> QED
    BY <1>3, <1>5, <2>2, <2>5, <2>6
<1>8. CASE LowScan(m) /\ m.weather = "WINDY"
  <2>1. /\ ReachedLevel(s, m) \in Nat /\ ExpectedLevel(s, m) \in Nat
        /\ ReachedLevel(s, m) = ExpectedLevel(s, m) + 10
    BY <1>1, <1>8 DEF LowScan, ReachedLevel, ExpectedLevel, Disguise!Nothing
  <2>2. Disguise!WithOne(s, m) = Told(Disguise!Nothing, high, Disguise!In(m, Disguise!Nothing))
    BY <2>1, ByLevel
  <2>3. LowScan(Disguise!In(m, Disguise!Nothing)) /\ Disguise!In(m, Disguise!Nothing).weather = Disguise!Nothing
    BY <1>8, LowCopies
  <2>4. /\ RightScan(Disguise!In(m, Disguise!Nothing)) /\ Disguise!Nothing # "same"
        /\ Disguise!In(m, Disguise!Nothing).iv = truth.low
    BY <2>3, LowIsRight DEF Disguise!Nothing, LowScan
  <2> HIDE DEF high, Told
  <2> QED
    BY <1>2, <1>5, <2>2, <2>4
<1>9. CASE HighScan(m) /\ m.weather = Disguise!Nothing
  <2>1. /\ ReachedLevel(s, m) \in Nat /\ ExpectedLevel(s, m) \in Nat
        /\ ReachedLevel(s, m) = ExpectedLevel(s, m)
    BY <1>1, <1>9 DEF HighScan, ReachedLevel, ExpectedLevel
  <2>2. Disguise!WithOne(s, m) = Disguise!Expected(s)
    BY <2>1, ByLevel
  <2>3. history.plain = m /\ history.boosted = Disguise!NoScan
    BY <1>9, OnlyScanFacts
  <2>4. WrongScan(m)
    <3>1. ~LowScan(m)
      BY <1>1, <1>9 DEF LowScan, HighScan
    <3> QED
      BY <1>9, <3>1 DEF OnlyScan, RightScan, Disguise!Nothing, Disguise!Partly
  <2> QED
    BY <1>9, <2>2, <2>3, <2>4, ExpectedHigh
<1> QED
  BY <1>6, <1>7, <1>8, <1>9 DEF OnlyScan, RightScan, WrongScan

LEMMA BoostedHighFinds ==
    ASSUME DittoAssumptions, truth \in Disguise!Truths, NEW m, OnlyScan(m),
           NEW s, HighScan(s), s.weather = Disguise!Partly
    PROVE  DittoFound(Disguise!WithOne(s, m), s)
<1>1. truth.base \in 1 .. 30 /\ s.level = truth.base + 5
  BY Levels DEF HighScan
<1>2. CASE RightScan(m)
  <2>1. ReachedLevel(s, m) \in Nat /\ ExpectedLevel(s, m) = ReachedLevel(s, m)
    <3>1. CASE LowScan(m) /\ m.weather = Disguise!Nothing
      BY <1>1, <3>1 DEF LowScan, ReachedLevel, ExpectedLevel, Disguise!Nothing, Disguise!Partly
    <3>2. CASE HighScan(m) /\ m.weather = Disguise!Partly
      BY <1>1, <3>2 DEF HighScan, ReachedLevel, ExpectedLevel, Disguise!Nothing, Disguise!Partly
    <3> QED
      BY <1>2, <3>1, <3>2 DEF RightScan
  <2>2. Disguise!WithOne(s, m) = Disguise!Expected(s)
    BY <2>1, ByLevel
  <2>3. RightScan(s) /\ RightHistory(history)
    BY <1>2, OnlyScanFacts DEF RightScan
  <2> QED
    BY <2>2, <2>3, ExpectedRight
<1>3. CASE HighScan(m) /\ m.weather = Disguise!Nothing
  <2> DEFINE t == Disguise!Confirmed(s, TRUE)
             agree == Disguise!Agree(m, s)
  <2>1. /\ ReachedLevel(s, m) \in Nat /\ ExpectedLevel(s, m) \in Nat
        /\ ReachedLevel(s, m) + 5 = ExpectedLevel(s, m)
    BY <1>1, <1>3 DEF HighScan, ReachedLevel, ExpectedLevel, Disguise!Nothing, Disguise!Partly
  <2>2. Disguise!WithOne(s, m) = Disguise!Lower(s, m)
    BY <2>1, ByLevel
  <2>3. Disguise!Lower(s, m) = Disguise!Found(FALSE, Disguise!Partly, t, t, agree, FALSE)
    BY DEF Disguise!Lower, Disguise!Nothing, Disguise!Partly
  <2>4. HighScan(t) /\ t.weather = Disguise!Partly
    BY HighCopies
  <2>5. \A n \in OldScans : RightScan(Disguise!In(n, Disguise!Partly))
    <3>1. RightScan(Disguise!In(m, Disguise!Partly))
      BY <1>3, HighCopies, HighIsRight
    <3> QED
      BY <3>1, OnlyScanFacts
  <2>6. agree
    BY <1>3 DEF Disguise!Agree, HighScan
  <2> HIDE DEF t, agree
  <2>7. RightScan(t)
    BY <2>4, HighIsRight
  <2> QED
    BY <2>2, <2>3, <2>5, <2>6, <2>7, FoundRight DEF Disguise!Partly
<1>4. CASE LowScan(m) /\ m.weather = "WINDY"
  <2> DEFINE t == Disguise!Confirmed(s, FALSE)
             ditto == ~Disguise!MustHaveRerolled(s, m)
  <2>1. /\ ReachedLevel(s, m) \in Nat /\ ExpectedLevel(s, m) \in Nat
        /\ ReachedLevel(s, m) = ExpectedLevel(s, m) + 5
    BY <1>1, <1>4 DEF LowScan, ReachedLevel, ExpectedLevel, Disguise!Nothing, Disguise!Partly
  <2>2. Disguise!WithOne(s, m) = Disguise!Higher(s, m)
    BY <2>1, ByLevel
  <2>3. Disguise!Higher(s, m) = Disguise!Found(ditto, Disguise!Nothing, t, t, TRUE, FALSE)
    BY <1>1, <1>4 DEF Disguise!Higher, Disguise!Nothing, Disguise!Partly
  <2>4. HighScan(t) /\ t.weather = Disguise!Partly
    BY HighCopies
  <2>5. \A n \in OldScans : RightScan(Disguise!In(n, Disguise!Nothing))
    <3>1. RightScan(Disguise!In(m, Disguise!Nothing))
      BY <1>4, LowCopies, LowIsRight
    <3> QED
      BY <3>1, OnlyScanFacts
  <2> HIDE DEF t, ditto
  <2>6. RightScan(t) /\ t.iv = CaughtIv(s.weather)
    BY <2>4, HighIsRight
  <2> QED
    BY <2>2, <2>3, <2>5, <2>6, FoundRight DEF Disguise!Nothing
<1> QED
  BY <1>2, <1>3, <1>4 DEF OnlyScan, WrongScan

-----------------------------------------------------------------------------
\* The history of a ditto that is not known as one.
HistoryOfDitto(h) ==
    /\ h = [plain |-> h.plain, boosted |-> h.boosted]
    /\ RightHistory(h) \/ WrongHistory(h)

\* detectDitto never calls the scans of a ditto contradictory, and when it calls
\* it a ditto, the scans are kept under the boost that it had.
LEMMA DetectsDitto ==
    ASSUME DittoAssumptions, truth \in Disguise!Truths, HistoryOfDitto(history),
           NEW ditto \in BOOLEAN,
           ditto => RightHistory(history) /\ history # Disguise!NoHistory,
           NEW s, DittoScan(s)
    PROVE  DittoFound(Disguise!DetectDitto(s, ditto), s)
<1> DEFINE u == history.plain
           b == history.boosted
<1>1. CASE ditto
  <2>1. Disguise!DetectDitto(s, ditto) = Disguise!KnownDitto(s)
    BY <1>1 DEF Disguise!DetectDitto
  <2>2. u # Disguise!NoScan \/ b # Disguise!NoScan
    BY <1>1 DEF HistoryOfDitto, Disguise!NoHistory
  <2> QED
    BY <1>1, <2>1, <2>2, KnownFinds
<1>2. ASSUME ~ditto, NEW m, OnlyScan(m), Disguise!DetectDitto(s, ditto) = Disguise!WithOne(s, m)
      PROVE  DittoFound(Disguise!DetectDitto(s, ditto), s)
  BY <1>2, PlainLowFinds, BoostedLowFinds, PlainHighFinds, BoostedHighFinds DEF DittoScan
<1>3. CASE ~ditto /\ u # Disguise!NoScan /\ b # Disguise!NoScan
  <2>1. Disguise!DetectDitto(s, ditto) = Disguise!WithBoth(s)
    BY <1>3 DEF Disguise!DetectDitto
  <2>2. RightHistory(history)
    BY <1>3 DEF HistoryOfDitto, WrongHistory
  <2> QED
    BY <1>3, <2>1, <2>2, BothFind
<1>4. CASE ~ditto /\ u # Disguise!NoScan /\ b = Disguise!NoScan
  <2>1. Disguise!DetectDitto(s, ditto) = Disguise!WithOne(s, u)
    BY <1>4 DEF Disguise!DetectDitto
  <2>2. OnlyScan(u)
    <3>1. (RightScan(u) \/ WrongScan(u)) /\ u.weather = Disguise!Nothing
      BY <1>4 DEF HistoryOfDitto, RightHistory, WrongHistory
    <3> QED
      BY <1>4, <3>1 DEF OnlyScan, HistoryOfDitto
  <2> QED
    BY <1>2, <1>4, <2>1, <2>2
<1>5. CASE ~ditto /\ u = Disguise!NoScan /\ b # Disguise!NoScan
  <2>1. Disguise!DetectDitto(s, ditto) = Disguise!WithOne(s, b)
    BY <1>5 DEF Disguise!DetectDitto
  <2>2. OnlyScan(b)
    <3>1. (RightScan(b) \/ WrongScan(b)) /\ b.weather # Disguise!Nothing
      BY <1>5 DEF HistoryOfDitto, RightHistory, WrongHistory, Disguise!Nothing, Disguise!Partly
    <3> QED
      BY <1>5, <3>1 DEF OnlyScan, HistoryOfDitto
  <2> QED
    BY <1>2, <1>5, <2>1, <2>2
<1>6. CASE ~ditto /\ u = Disguise!NoScan /\ b = Disguise!NoScan
  <2>1. Disguise!DetectDitto(s, ditto) = Disguise!Expected(s)
    BY <1>6 DEF Disguise!DetectDitto
  <2>2. RightHistory(history)
    BY <1>6 DEF RightHistory
  <2>3. RightScan(s) => DittoFound(Disguise!Expected(s), s)
    BY <2>2, ExpectedRight
  <2> QED
    BY <1>6, <2>1, <2>3, ExpectedLow, ExpectedHigh DEF DittoScan, RightScan
<1> QED
  BY <1>1, <1>3, <1>4, <1>5, <1>6

LEMMA DittoIsScanned ==
    ASSUME DittoAssumptions, truth \in Disguise!Truths, truth.ditto,
           NEW c \in Disguise!Conditions, NEW told,
           Disguise!ScanOf(c, told).cell = Disguise!PartlyOrNot(c)
    PROVE  /\ DittoScan(Disguise!ScanOf(c, told))
           /\ Disguise!ScanOf(c, told).weather = Disguise!Display(c)
<1>1. PICK s : s = Disguise!ScanOf(c, told)
  OBVIOUS
<1>2. /\ s.weather = Disguise!Display(c)
      /\ s.cell = Disguise!PartlyOrNot(c)
      /\ s.level = truth.base + (IF Disguise!Boosted(c) THEN 5 ELSE 0)
      /\ s.iv = IF Disguise!Boosted(c) THEN truth.high ELSE truth.low
      /\ s.species = truth.species
  BY <1>1 DEF Disguise!ScanOf
<1>3. IsScan(s)
  BY <1>1 DEF IsScan, Disguise!ScanOf
<1>4. (s.cell = Disguise!Partly <=> c = Disguise!Partly) /\ (Disguise!Boosted(c) <=> c = Disguise!Partly)
  BY <1>1, <1>2 DEF Disguise!Boosted, Disguise!PartlyOrNot, Disguise!Nothing, Disguise!Partly
<1>5. truth.boosts \subseteq {Disguise!Partly, "WINDY"} /\ truth.base + 0 = truth.base
  <2>1. truth.boosts \subseteq {Disguise!Partly, "WINDY"}
    BY DEF Disguise!Truths, Disguise!Boosters
  <2> QED
    BY <2>1, Levels
<1>6. CASE c = Disguise!Partly
  BY <1>1, <1>2, <1>3, <1>4, <1>6 DEF DittoScan, HighScan, Disguise!Display
<1>7. CASE c # Disguise!Partly
  BY <1>1, <1>2, <1>3, <1>4, <1>5, <1>7 DEF DittoScan, LowScan, Disguise!Display
<1> QED
  BY <1>6, <1>7

LEMMA RemembersDitto ==
    ASSUME DittoAssumptions, truth \in Disguise!Truths, NEW s, NEW f, DittoFound(f, s),
           Disguise!Remember(f)
    PROVE  /\ HistoryOfDitto(history')
           /\ f.ditto => RightHistory(history') /\ history' # Disguise!NoHistory
<1> DEFINE others == {m \in Disguise!Rematched(f) :
                        (m.weather = Disguise!Nothing) # (f.scan.weather = Disguise!Nothing)}
           other == IF others = {} THEN Disguise!NoScan ELSE CHOOSE m \in others : TRUE
<1>1. history' = IF f.scan.weather = Disguise!Nothing THEN [plain |-> f.scan, boosted |-> other]
                 ELSE [plain |-> other, boosted |-> f.scan]
  BY DEF Disguise!Remember
<1>2. other # Disguise!NoScan => other \in others
  OBVIOUS
<1>3. PICK h : h = history'
  OBVIOUS
<1>4. /\ h = [plain |-> h.plain, boosted |-> h.boosted]
      /\ IF f.scan.weather = Disguise!Nothing THEN h.plain = f.scan /\ h.boosted = other
         ELSE h.plain = other /\ h.boosted = f.scan
  BY <1>1, <1>3
<1>5. CASE RightScan(f.scan) /\ \A m \in Disguise!Rematched(f) : RightScan(m)
  <2>1. other # Disguise!NoScan =>
          RightScan(other) /\ (other.weather = Disguise!Nothing) # (f.scan.weather = Disguise!Nothing)
    BY <1>2, <1>5
  <2>2. f.scan # Disguise!NoScan
    BY <1>5, ScanIsSome DEF RightScan
  <2> HIDE DEF other
  <2>3. RightHistory(h)
    BY <1>4, <1>5, <2>1 DEF RightHistory, RightScan, Disguise!Nothing, Disguise!Partly
  <2>4. h # Disguise!NoHistory
    BY <1>4, <2>2 DEF Disguise!NoHistory
  <2> QED
    BY <1>3, <1>4, <2>3, <2>4 DEF HistoryOfDitto
<1>6. CASE /\ ~f.ditto /\ WrongScan(f.scan)
           /\ \A m \in Disguise!Rematched(f) :
                 (m.weather = Disguise!Nothing) = (f.scan.weather = Disguise!Nothing)
  <2>1. other = Disguise!NoScan
    BY <1>6
  <2> HIDE DEF other
  <2>2. WrongHistory(h)
    BY <1>4, <1>6, <2>1 DEF WrongHistory, WrongScan, Disguise!Nothing
  <2> QED
    BY <1>3, <1>4, <1>6, <2>2 DEF HistoryOfDitto
<1> QED
  BY <1>5, <1>6 DEF DittoFound

\* What is known of a ditto that has not been lost track of.
DittoKnown ==
    ~rerolled /\ ~lost /\ truth.ditto =>
        /\ species = truth.species
        /\ HistoryOfDitto(history)
        /\ isDitto => /\ RightHistory(history) /\ history # Disguise!NoHistory
                      /\ iv \in {Disguise!NoIv, CaughtIv(weather)}

LEMMA EncounterKnowsDitto ==
    ASSUME DittoAssumptions, NotMistaken, DittoKnown, Disguise!Encounter
    PROVE  DittoKnown'
<1>1. PICK c \in Disguise!Conditions, told \in {Disguise!Partly, Disguise!Nothing} :
        LET s == Disguise!ScanOf(c, told)
            f == Disguise!DetectDitto(s, Disguise!StillDitto)
        IN /\ Disguise!Show(Disguise!Display(c))
           /\ isDitto' = f.ditto
           /\ iv' = IF ~f.ok THEN s.iv ELSE IF f.caught = Disguise!NoScan THEN Disguise!NoIv ELSE f.caught.iv
           /\ IF f.ok THEN Disguise!Remember(f) ELSE Disguise!Forget(s)
           /\ lost' = (lost \/ s.cell # Disguise!PartlyOrNot(c))
           /\ UNCHANGED <<truth, rerolled>>
  BY DEF Disguise!Encounter
<1>2. SUFFICES ASSUME ~rerolled', ~lost', truth'.ditto
               PROVE  /\ species' = truth'.species
                      /\ HistoryOfDitto(history)'
                      /\ isDitto' => /\ RightHistory(history)' /\ history' # Disguise!NoHistory
                                     /\ iv' \in {Disguise!NoIv, CaughtIv(weather)'}
  BY DEF DittoKnown
<1>3. truth' = truth /\ truth \in Disguise!Truths /\ truth.ditto
  BY <1>1, <1>2 DEF NotMistaken
<1>4. PICK s : s = Disguise!ScanOf(c, told)
  OBVIOUS
<1>5. PICK f : f = Disguise!DetectDitto(s, Disguise!StillDitto)
  OBVIOUS
<1>6. /\ weather' = Disguise!Display(c) /\ species' = truth.species /\ isDitto' = f.ditto
      /\ iv' = IF ~f.ok THEN s.iv ELSE IF f.caught = Disguise!NoScan THEN Disguise!NoIv ELSE f.caught.iv
      /\ IF f.ok THEN Disguise!Remember(f) ELSE Disguise!Forget(s)
  BY <1>1, <1>4, <1>5 DEF Disguise!Show
<1>7. ~lost /\ ~rerolled /\ s.cell = Disguise!PartlyOrNot(c)
  BY <1>1, <1>2, <1>4
<1>8. DittoScan(s) /\ s.weather = Disguise!Display(c)
  BY <1>3, <1>4, <1>7, DittoIsScanned
<1>9. DittoFound(f, s)
  <2>1. /\ HistoryOfDitto(history) /\ Disguise!StillDitto \in BOOLEAN
        /\ Disguise!StillDitto => RightHistory(history) /\ history # Disguise!NoHistory
    BY <1>3, <1>7 DEF DittoKnown, Disguise!StillDitto
  <2> QED
    BY <1>3, <1>5, <1>8, <2>1, DetectsDitto
<1>10. /\ HistoryOfDitto(history')
       /\ f.ditto => RightHistory(history') /\ history' # Disguise!NoHistory
  BY <1>3, <1>6, <1>9, RemembersDitto DEF DittoFound
<1>11. f.ditto => iv' \in {Disguise!NoIv, CaughtIv(weather')}
  BY <1>6, <1>8, <1>9 DEF DittoFound
<1>12. HistoryOfDitto(history)' /\ (isDitto' => RightHistory(history)') /\ CaughtIv(weather)' = CaughtIv(weather')
  BY <1>3, <1>6, <1>10 DEF HistoryOfDitto, RightHistory, WrongHistory, RightScan, WrongScan, LowScan, HighScan,
     CaughtIv
<1> QED
  BY <1>3, <1>6, <1>10, <1>11, <1>12

LEMMA RestKnowsDitto ==
    ASSUME DittoKnown,
           Disguise!Sighting \/ Disguise!Reload \/ Disguise!Reroll \/ UNCHANGED Disguise!vars
    PROVE  DittoKnown'
<1>1. CASE Disguise!Sighting
  <2>1. PICK c \in Disguise!Conditions :
          /\ weather' = Disguise!Display(c) /\ species' = truth.species /\ isDitto' = Disguise!StillDitto
          /\ iv' = Disguise!Repopulated(Disguise!Display(c))
          /\ UNCHANGED <<truth, history, rerolled, lost>>
    BY <1>1 DEF Disguise!Sighting, Disguise!Show
  <2>2. ASSUME ~rerolled, ~lost, truth.ditto, isDitto'
        PROVE  iv' \in {Disguise!NoIv, CaughtIv(weather')}
    <3>1. PICK w : w = Disguise!Display(c)
      OBVIOUS
    <3>2. Disguise!StillDitto /\ RightHistory(history) /\ iv \in {Disguise!NoIv, CaughtIv(weather)}
      BY <2>1, <2>2 DEF DittoKnown, Disguise!StillDitto
    <3>3. iv' = IF (w = Disguise!Partly) = (weather = Disguise!Partly) THEN iv
                ELSE IF Disguise!Entry(w = Disguise!Partly) = Disguise!NoScan THEN Disguise!NoIv
                ELSE Disguise!Entry(w = Disguise!Partly).iv
      BY <2>1, <3>1, <3>2 DEF Disguise!Repopulated
    <3>4. Disguise!Entry(w = Disguise!Partly) # Disguise!NoScan =>
            Disguise!Entry(w = Disguise!Partly).iv = CaughtIv(w)
      BY <3>2 DEF Disguise!Entry, RightHistory, RightScan, LowScan, HighScan, CaughtIv,
         Disguise!Nothing, Disguise!Partly
    <3>5. (w = Disguise!Partly) = (weather = Disguise!Partly) => CaughtIv(w) = CaughtIv(weather)
      BY DEF CaughtIv
    <3> QED
      BY <2>1, <3>1, <3>2, <3>3, <3>4, <3>5
  <2>3. isDitto' => isDitto
    BY <2>1 DEF Disguise!StillDitto
  <2>4. CaughtIv(weather)' = CaughtIv(weather')
    BY <2>1 DEF CaughtIv
  <2> QED
    BY <2>1, <2>2, <2>3, <2>4 DEF DittoKnown, HistoryOfDitto, RightHistory, WrongHistory, RightScan, WrongScan,
       LowScan, HighScan
<1>2. CASE Disguise!Reload
  BY <1>2 DEF Disguise!Reload, DittoKnown
<1>3. CASE Disguise!Reroll
  BY <1>3 DEF Disguise!Reroll, DittoKnown
<1>4. CASE UNCHANGED Disguise!vars
  BY <1>4 DEF Disguise!vars, DittoKnown, HistoryOfDitto, RightHistory, WrongHistory, RightScan, WrongScan,
     LowScan, HighScan, CaughtIv
<1> QED
  BY <1>1, <1>2, <1>3, <1>4

\* What is given out for a pokemon that is called a ditto are the values that it
\* has when it is caught, in whatever weathers it is encountered and seen, as
\* long as it does not reroll, no scan is lost and the weather that was looked up
\* for a scan was that of the cell: from the scan on that tells it is a ditto, all
\* scans are kept under the boost that it had.
THEOREM DittoGetsItsIv ==
    ASSUME DittoAssumptions
    PROVE  Disguise!Spec => []DittoIvIsRight
<1>1. Disguise!Init => NotMistaken /\ DittoKnown
  <2> SUFFICES ASSUME Disguise!Init PROVE NotMistaken /\ DittoKnown
    OBVIOUS
  <2>1. /\ history.plain = Disguise!NoScan /\ history.boosted = Disguise!NoScan
        /\ history = [plain |-> history.plain, boosted |-> history.boosted]
        /\ ~isDitto /\ species = truth.species /\ truth \in Disguise!Truths
    BY DEF Disguise!Init, Disguise!NoHistory
  <2> QED
    BY <2>1 DEF NotMistaken, HistoryOfNoDitto, DittoKnown, HistoryOfDitto, RightHistory
<1>2. NotMistaken /\ DittoKnown /\ [Disguise!Next]_(Disguise!vars) => NotMistaken' /\ DittoKnown'
  BY EncounterIsNotMistaken, RestIsNotMistaken, EncounterKnowsDitto, RestKnowsDitto DEF Disguise!Next
<1>3. NotMistaken /\ DittoKnown => DittoIvIsRight
  <2> SUFFICES ASSUME NotMistaken, DittoKnown, ~rerolled, ~lost, isDitto
               PROVE  /\ history.plain # Disguise!NoScan => history.plain.iv = truth.low
                      /\ history.boosted # Disguise!NoScan => history.boosted.iv = truth.high
                      /\ iv \in {Disguise!NoIv, IF weather = Disguise!Partly THEN truth.high ELSE truth.low}
    BY DEF DittoIvIsRight, Disguise!DittoIvIsRight
  <2>1. truth.ditto
    BY DEF NotMistaken
  <2>2. RightHistory(history) /\ iv \in {Disguise!NoIv, CaughtIv(weather)}
    BY <2>1 DEF DittoKnown
  <2> QED
    BY <2>2 DEF RightHistory, RightScan, LowScan, HighScan, CaughtIv, Disguise!Nothing, Disguise!Partly
<1> QED
  BY <1>1, <1>2, <1>3, PTL DEF Disguise!Spec
=============================================================================
