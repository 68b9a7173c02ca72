------------------------------- MODULE Ditto -------------------------------
(***************************************************************************)
(* Whether a pokemon that encounters show in several weathers is a ditto   *)
(* in disguise: detectDitto with the history of scans that                 *)
(* addEncounterPokemon keeps, and what repopulateIv makes of them when the *)
(* display changes (decoder/pokemon_decode.go, grpc/helper.go).            *)
(*                                                                         *)
(* The weather boosts the disguise by its types, and a ditto, like every   *)
(* normal type, when it is partly cloudy; what an encounter shows is the   *)
(* level and the values that go with the ditto's boost.  Golbat sees the   *)
(* disguise's boost in the display and has to find out.                    *)
(*                                                                         *)
(* The pokemon is what Truths says, until it rerolls into something else.  *)
(* Strong pokemon, which are never dittos, are left out, and of the        *)
(* display only the species may change.                                    *)
(***************************************************************************)
EXTENDS Naturals

(* Operators named Slip_... are plausible slips in the definition that      *)
(* follows them; nothing uses them, and each breaks a property below.      *)

CONSTANTS
    Bases,        \* levels of a pokemon that is not boosted
    LowIvs,       \* sets of individual values with one below 4, ...
    HighIvs,      \* ... and without
    Species       \* the species that it may show

Nothing == "NONE"
Partly == "PARTLY_CLOUDY"
Conditions == {Partly, "WINDY", "FOG"}
Boosters == SUBSET {Partly, "WINDY"}
NoIv == 0
NoScan == [level |-> 0]

VARIABLES
    truth,     \* what the pokemon is (unknown to Golbat)
    species,   \* what the record shows: the species, ...
    weather,   \* ... the boosting condition, ...
    iv,        \* ... the values, ...
    isDitto,   \* ... and whether it is a ditto
    history,   \* ScanHistory: the scan not boosted, and the boosted one
    disguises, \* dittoDisguises
    rerolled,  \* whether it has rerolled (history)
    lost       \* whether its scans were lost, or a scan was kept with a weather
               \* that was not that of the cell (history)

vars == <<truth, species, weather, iv, isDitto, history, disguises, rerolled, lost>>

Truths == [ditto : BOOLEAN, boosts : Boosters, base : Bases, species : Species,
           low : LowIvs \cup HighIvs, high : HighIvs]

NoHistory == [plain |-> NoScan, boosted |-> NoScan]

Init ==
    /\ truth \in {t \in Truths : t.low # t.high}
    /\ species = truth.species
    /\ weather = Nothing
    /\ iv = NoIv
    /\ isDitto = FALSE
    /\ history = NoHistory
    /\ disguises \in {{}, {truth.species}}
    /\ rerolled = FALSE
    /\ lost = FALSE

\* What the game shows when the weather is c.
Display(c) == IF c \in truth.boosts THEN c ELSE Nothing
Boosted(c) == IF truth.ditto THEN c = Partly ELSE c \in truth.boosts

\* All that is ever asked of a cell's weather.
PartlyOrNot(c) == IF c = Partly THEN Partly ELSE Nothing

\* The scan of an encounter when the weather is c.  Where the display is not
\* boosted, the weather of the cell is what its cached record says: there may be
\* none, or one that is not up to date.
ScanOf(c, told) ==
    [weather |-> Display(c),
     cell |-> IF Display(c) = Nothing THEN told ELSE PartlyOrNot(c),
     level |-> truth.base + (IF Boosted(c) THEN 5 ELSE 0),
     iv |-> IF Boosted(c) THEN truth.high ELSE truth.low,
     species |-> truth.species,
     confirmed |-> FALSE]
-----------------------------------------------------------------------------
(* Scans.                                                                  *)

\* Level 30 is still reached without a boost.
Slip_MustBeBoosted(s) == s.level \in 30 .. 35

MustBeBoosted(s) == s.level \in 31 .. 35
MustBeUnboosted(s) == s.level <= 5 \/ s.iv \in LowIvs
MustHaveRerolled(s, t) == s.species # t.species

\* checkScans: no error.
Agree(old, new) == old = NoScan \/ old.iv = new.iv

Confirmed(s, c) == [s EXCEPT !.confirmed = c]
In(s, w) == [s EXCEPT !.weather = w]

\* What detectDitto finds: the verdict; the weather that the matching scan
\* gets; the scan; the scan to be given out; whether there is no error; and
\* whether the species is noted as a disguise.
Found(ditto, matching, scan, caught, ok, noted) ==
    [ditto |-> ditto, matching |-> matching, scan |-> scan, caught |-> caught,
     ok |-> ok, noted |-> noted]

-----------------------------------------------------------------------------
(* detectDitto.  States: no boost and none for a ditto (00), boost for a   *)
(* ditto only (0P), for the disguise only (B0), for both (PP); and those   *)
(* of other pokemon (0N, BN, PN).                                          *)

KnownDitto(s) ==
    LET u == history.plain
        b == history.boosted
        base == IF b # NoScan THEN b.level - 5 ELSE u.level
        sure == Confirmed(s, TRUE)
        Is(scan, caught, ok) == Found(TRUE, "same", scan, caught, ok, FALSE)
        Not(ok) == Found(FALSE, "same", sure, sure, ok, FALSE)
    IN IF u = NoScan /\ b = NoScan THEN Found(FALSE, "same", s, s, FALSE, FALSE) ELSE
       CASE s.weather = Nothing /\ s.cell # Partly -> Is(sure, sure, Agree(u, s))
         [] s.weather = Nothing /\ s.cell = Partly /\ s.level = base -> Not(Agree(u, s))
         [] s.weather = Nothing /\ s.cell = Partly /\ s.level = base + 5 ->
              Is(In(sure, Partly), u, Agree(b, s))
         [] s.weather = Partly -> Is(sure, sure, Agree(b, s))
         [] s.weather = "WINDY" /\ s.level = base -> Is(In(sure, Nothing), In(sure, Nothing), Agree(u, s))
         [] s.weather = "WINDY" /\ s.level = base + 5 -> Not(Agree(b, s))
         [] OTHER -> Is(sure, sure, FALSE)

\* Both scans are there, so that they are right.
WithBoth(s) ==
    LET u == history.plain
        b == history.boosted
        boosts == s.weather # Nothing
    IN CASE s.level = u.level /\ boosts -> Found(TRUE, "same", In(s, Nothing), In(s, Nothing), TRUE, TRUE)
         [] s.level = u.level /\ ~boosts -> Found(FALSE, "same", s, s, Agree(u, s), FALSE)
         [] s.level = b.level /\ s.level # u.level /\ boosts -> Found(FALSE, "same", s, s, Agree(b, s), FALSE)
         [] s.level = b.level /\ s.level # u.level /\ ~boosts -> Found(TRUE, "same", In(s, Partly), u, TRUE, TRUE)
         [] OTHER -> Found(FALSE, "same", s, s, FALSE, FALSE)

\* The species is a known disguise, and that of the scan before was not.
GuessDitto(s, m) == s.species \in disguises /\ m.species \notin disguises

\* The level is 5 above the one that the matching scan m makes expect.
Higher(s, m) ==
    LET u == history.plain
        Ditto0P(sure, noted) == Found(TRUE, m.weather, Confirmed(In(s, Partly), sure), u, TRUE, noted)
        Guess(ditto, sure) == Found(ditto, Nothing, Confirmed(s, sure), Confirmed(s, sure), TRUE, FALSE)
        Error == Found(FALSE, m.weather, s, s, FALSE, FALSE)
    IN CASE s.weather = Nothing /\ m.weather = Nothing -> Ditto0P(FALSE, TRUE)          \* 00/0N>0P
         [] s.weather = Nothing /\ m.weather # Nothing /\ ~Agree(m, s) -> Error
         [] s.weather = Nothing /\ m.weather = Partly /\ Agree(m, s) -> Ditto0P(TRUE, TRUE) \* PN>0P
         [] s.weather = Nothing /\ m.weather = "WINDY" /\ Agree(m, s) ->
              IF s.cell # Partly THEN Guess(~MustHaveRerolled(s, m), TRUE)             \* B0>00/0N
              ELSE IF m.confirmed \/ MustBeBoosted(s) THEN Ditto0P(TRUE, TRUE)         \* BN>0P
              ELSE IF GuessDitto(s, m) THEN Ditto0P(FALSE, FALSE)                \* BN>[0P]
              ELSE Guess(FALSE, FALSE)                                           \* B0>[0N]
         [] s.weather = Partly -> Guess(~MustHaveRerolled(s, m), FALSE)          \* B0>PP/PN
         [] OTHER -> Guess(FALSE, FALSE)                                         \* B0>BN

\* The level is 5 below.
Lower(s, m) ==
    LET DittoB0(sure, noted) ==
            Found(TRUE, m.weather, Confirmed(In(s, Nothing), sure), Confirmed(In(s, Nothing), sure), TRUE, noted)
        Guess(ditto, sure, ok) == Found(ditto, Partly, Confirmed(s, sure), Confirmed(s, sure), ok, FALSE)
        Error == Found(FALSE, m.weather, s, s, FALSE, FALSE)
    IN CASE s.weather = Nothing -> Guess(~MustHaveRerolled(s, m), FALSE, TRUE)     \* 0P>00/0N
         [] s.weather = Partly -> Guess(FALSE, TRUE, Agree(m, s))                      \* 0P>PN
         [] s.weather = "WINDY" /\ m.weather # Nothing -> DittoB0(FALSE, TRUE)   \* BN/PP/PN>B0
         [] s.weather = "WINDY" /\ m.weather = Nothing ->
              IF ~Agree(m, s) THEN Error
              ELSE IF MustBeBoosted(s) THEN Guess(FALSE, TRUE, TRUE)                   \* 0P>BN
              ELSE IF m.confirmed \/ m.cell # Partly THEN DittoB0(TRUE, TRUE)          \* 00/0N>B0
              ELSE IF GuessDitto(s, m) THEN DittoB0(FALSE, FALSE)                \* 0N>[B0]
              ELSE Guess(FALSE, FALSE, TRUE)                                     \* 0P>[BN]

\* The level is the expected one, or there is no scan yet.
Expected(s) ==
    LET u == history.plain
        b == history.boosted
        sure == Confirmed(s, TRUE)
    IN CASE s.weather # Nothing /\ MustBeUnboosted(s) ->
              Found(TRUE, "same", In(sure, Nothing), In(sure, Nothing), Agree(u, s), TRUE) \* B0
         [] s.weather # Nothing /\ ~MustBeUnboosted(s) ->
              LET t == Confirmed(s, MustBeBoosted(s)) IN Found(FALSE, "same", t, t, Agree(b, s), FALSE)
         [] s.weather = Nothing /\ MustBeBoosted(s) ->
              Found(TRUE, "same", In(sure, Partly), u, Agree(b, s), TRUE)                  \* 0P
         [] OTHER ->
              LET t == Confirmed(s, MustBeUnboosted(s)) IN Found(FALSE, "same", t, t, Agree(u, s), FALSE)

\* By how much the one scan there is makes the level of s differ.
WithOne(s, m) ==
    LET expected == m.level + (IF s.weather # Nothing /\ m.weather = Nothing THEN 5 ELSE 0)
        reached == s.level + (IF s.weather = Nothing /\ m.weather # Nothing THEN 5 ELSE 0)
    IN CASE reached = expected -> Expected(s)
         [] reached = expected + 5 -> Higher(s, m)
         [] reached + 5 = expected -> Lower(s, m)
         [] reached = expected + 10 -> Found(TRUE, Nothing, In(s, Partly), In(m, Nothing), TRUE, TRUE) \* B0>0P
         [] reached + 10 = expected -> Found(TRUE, Partly, In(s, Nothing), In(s, Nothing), TRUE, TRUE) \* 0P>B0
         [] OTHER -> Found(FALSE, m.weather, s, s, FALSE, FALSE)

DetectDitto(s, ditto) ==
    LET u == history.plain
        b == history.boosted
    IN CASE ditto -> KnownDitto(s)
         [] ~ditto /\ u # NoScan /\ b # NoScan -> WithBoth(s)
         [] ~ditto /\ u # NoScan /\ b = NoScan -> WithOne(s, u)
         [] ~ditto /\ u = NoScan /\ b # NoScan -> WithOne(s, b)
         [] OTHER -> Expected(s)
-----------------------------------------------------------------------------
(* What becomes of the record.                                             *)

Entry(boosts) == IF boosts THEN history.boosted ELSE history.plain

\* setPokemonDisplay: another species is another pokemon.
StillDitto == isDitto /\ species = truth.species

\* repopulateIv, for a display in condition w.
Repopulated(w) ==
    LET boosts == IF StillDitto THEN w = Partly ELSE w # Nothing
        was == IF StillDitto THEN weather = Partly ELSE weather # Nothing
    IN IF boosts = was THEN iv ELSE IF Entry(boosts) = NoScan THEN NoIv ELSE Entry(boosts).iv

Show(w) == weather' = w /\ species' = truth.species

\* Keeps the old scans as they are.
Slip_Rematched(f) == {history.plain, history.boosted} \ {NoScan}

\* The old scans, with what has been found out of the weather of the one.
Rematched(f) ==
    LET old == {history.plain, history.boosted} \ {NoScan}
    IN IF f.matching = "same" THEN old ELSE {In(m, f.matching) : m \in old}

\* addEncounterPokemon: the new scan replaces the one of its kind.
Remember(f) ==
    LET s == f.scan
        others == {m \in Rematched(f) : (m.weather = Nothing) # (s.weather = Nothing)}
        other == IF others = {} THEN NoScan ELSE CHOOSE m \in others : TRUE
    IN history' = IF s.weather = Nothing THEN [plain |-> s, boosted |-> other]
                  ELSE [plain |-> other, boosted |-> s]

\* An error drops the history but for the scan.
Forget(s) == history' = IF s.weather = Nothing THEN [plain |-> s, boosted |-> NoScan]
                        ELSE [plain |-> NoScan, boosted |-> s]

Encounter ==
    \E c \in Conditions, told \in {Partly, Nothing} :
        LET s == ScanOf(c, told)
            f == DetectDitto(s, StillDitto)
        IN /\ Show(Display(c))
           /\ isDitto' = f.ditto
           /\ iv' = IF ~f.ok THEN s.iv ELSE IF f.caught = NoScan THEN NoIv ELSE f.caught.iv
           /\ IF f.ok THEN Remember(f) ELSE Forget(s)
           /\ disguises' = IF f.noted THEN disguises \cup {s.species} ELSE disguises
           /\ lost' = (lost \/ s.cell # PartlyOrNot(c))
           /\ UNCHANGED <<truth, rerolled>>

\* A sighting without an encounter.
Sighting ==
    \E c \in Conditions :
        /\ Show(Display(c))
        /\ isDitto' = StillDitto
        /\ iv' = Repopulated(Display(c))
        /\ UNCHANGED <<truth, history, disguises, rerolled, lost>>

\* The record is loaded from its row, where the history is only if configured.
Reload ==
    /\ history' = NoHistory
    /\ lost' = TRUE
    /\ UNCHANGED <<truth, species, weather, iv, isDitto, disguises, rerolled>>

\* Another species takes its place, and keeps the level and the values.
Reroll ==
    /\ ~rerolled
    /\ \E ditto \in BOOLEAN, s \in Species, boosts \in Boosters :
           truth' = [truth EXCEPT !.ditto = ditto, !.species = s, !.boosts = boosts]
    /\ rerolled' = TRUE
    /\ UNCHANGED <<species, weather, iv, isDitto, history, disguises, lost>>

Next ==
    \/ Encounter
    \/ Sighting
    \/ Reload
    \/ Reroll

Spec == Init /\ [][Next]_vars
-----------------------------------------------------------------------------
(* Correctness.                                                            *)

\* A pokemon that does not reroll is not taken for a ditto if it is none, in
\* whatever weathers it is encountered and seen, and whatever weather the cell's
\* record says.
NoFalseDitto == ~rerolled /\ isDitto => truth.ditto

\* "If IsDitto = true, then the IV sets in history are ALWAYS confirmed"
\* (pokemon_decode.go:424), and what is given out are the values that the ditto
\* has when it is caught: "caught Ditto is boosted only in PP state".  As long as
\* no scan was lost and the cell's record, where it was asked, told the weather: a
\* 0P scan that is kept under an older weather is taken for one without a boost.
DittoIvIsRight ==
    ~rerolled /\ ~lost /\ isDitto =>
        /\ history.plain # NoScan => history.plain.iv = truth.low
        /\ history.boosted # NoScan => history.boosted.iv = truth.high
        /\ iv \in {NoIv, IF weather = Partly THEN truth.high ELSE truth.low}
=============================================================================
