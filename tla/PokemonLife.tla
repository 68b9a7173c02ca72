---------------------------- MODULE PokemonLife ----------------------------
(***************************************************************************)
(* One pokemon, from its first sighting on: how the kinds of sighting,     *)
(* which come in any order, from several accounts and late, change what    *)
(* Golbat says of it (decoder/pokemon_decode.go, pokemon_process.go,       *)
(* weather_iv.go; the counting is that of updatePokemonStats).             *)
(*                                                                         *)
(* A handler runs from its look-up to its save under the record's lock and *)
(* is one action.  Two are not: a disk encounter that finds no record is   *)
(* kept after the lock was released, and the proactive IV switch chooses   *)
(* a pokemon by its lookup entry before it locks the record.               *)
(*                                                                         *)
(* Individual values are abstracted to the category of the scan they come  *)
(* from, and the despawn time to whether it is known or guessed, and over. *)
(* Species, form, costume and gender only show in whether a sighting       *)
(* differs in them.  What makes an encounter take a pokemon for a ditto is *)
(* in module Ditto; here it may find any of the verdicts that there are.   *)
(* Times are in module Despawn.                                            *)
(***************************************************************************)
EXTENDS Naturals

(* Operators named Slip_... are plausible slips in the definition that      *)
(* follows them; nothing uses them, and each breaks a property below.      *)

CONSTANTS
    Weathers,     \* the conditions of a weather cell, as their bit numbers
    Boosting,     \* those that boost the pokemon's types
    PartlyCloudy  \* PARTLY_CLOUDY, which boosts a ditto

None == 0      \* GameplayWeatherProto_NONE: the pokemon is not boosted

\* The table boostedWeatherLookup has no type that NONE would boost.
ASSUME WeatherAssumption ==
    /\ Weathers \subseteq Nat \ {None}
    /\ Boosting \subseteq Weathers /\ PartlyCloudy \in Weathers

VARIABLES
    nature,   \* where it is: at a spawnpoint, at a lured stop, at a tappable there
    p,        \* the record
    row,      \* what a proactive switch may leave unwritten, as it was written last
    point,    \* whether its spawnpoint knows when it despawns
    stored,   \* whether diskEncounterCache holds an encounter of it
    missing,  \* whether a disk encounter has found no record and is not stored yet
    switch,   \* the weather that a proactive IV switch brings, or None
    first,    \* FirstEncounter of its encounter cache entry is set
    counted   \* how often it was counted as seen, and as encountered while
              \* that entry lived (history)

vars == <<nature, p, row, point, stored, missing, switch, first, counted>>

Unplaced == {"", "nearby_cell", "nearby_stop"}
Kinds == Unplaced \cup {"wild", "encounter", "lure_wild", "lure_encounter",
                        "tappable_encounter", "tappable_lure_encounter"}
Categories == {"unboosted", "boosted", "strong"}
NoIv == "none"
Ends == {"none", "guess", "known"}

Displays == Boosting \cup {None}  \* WeatherBoostedCondition of a sighting

\* odd: the record has been taken for a ditto, and what it holds from then may not
\* be of what it is taken for now (history).
NewRecord == [new |-> TRUE, kind |-> "", weather |-> None, strong |-> FALSE, ditto |-> FALSE,
              iv |-> NoIv, cp |-> FALSE, scans |-> {}, odd |-> FALSE,
              end |-> "none", verified |-> FALSE, over |-> FALSE]

RowOf(r) == [kind |-> r.kind, weather |-> r.weather, iv |-> r.iv, cp |-> r.cp, odd |-> r.odd]

Init ==
    /\ nature \in {"spawn", "lure", "tappable"}
    /\ p = NewRecord
    /\ row = RowOf(NewRecord)
    /\ point \in BOOLEAN
    /\ stored = FALSE
    /\ missing = FALSE
    /\ switch = None
    /\ first = FALSE
    /\ counted = [seen |-> 0, encountered |-> 0]
-----------------------------------------------------------------------------
(* The parts of the handlers, as functions of the record.                  *)

\* The boost that the values have: a ditto has its own, whatever is displayed.
Boosted(ditto, weather) == IF ditto THEN weather = PartlyCloudy ELSE weather # None

\* Which scan holds the values of a pokemon that is boosted so.
Category(boosted, strong) ==
    IF strong THEN "strong" ELSE IF boosted THEN "boosted" ELSE "unboosted"

Demoted(kind) == CASE kind = "encounter" -> "wild"
                   [] kind = "lure_encounter" -> "lure_wild"
                   [] OTHER -> kind

Promoted(kind) == CASE kind = "wild" -> "encounter"
                    [] kind = "lure_wild" -> "lure_encounter"
                    [] OTHER -> kind

\* A scan that gives the values that are there already leaves the CP.  (A ditto is
\* never strong: it is no ditto before it is displayed so.)
RepopulateIv(r, weather, strong) ==
    LET boosted == Boosted(r.ditto, weather)
        unchanged == strong = r.strong /\ boosted = Boosted(r.ditto, r.weather)
        category == Category(boosted, strong)
        same == category = r.iv /\ ~strong
    IN IF unchanged THEN r
       ELSE IF category \in r.scans
       THEN [r EXCEPT !.iv = category, !.cp = @ /\ same, !.odd = @ /\ same, !.kind = Promoted(@)]
       ELSE [r EXCEPT !.iv = NoIv, !.cp = FALSE, !.odd = FALSE, !.kind = Demoted(@)]

\* What is displayed as another pokemon is no ditto any more.
SetPokemonDisplay(r, weather, strong, differs) ==
    LET other == ~r.new /\ (differs \/ strong # r.strong)
        cleared == IF other THEN [r EXCEPT !.cp = FALSE, !.ditto = FALSE, !.odd = @ \/ r.ditto] ELSE r
        repopulated == IF r.new THEN cleared ELSE RepopulateIv(cleared, weather, strong)
    IN [repopulated EXCEPT !.weather = weather, !.strong = strong]

\* The CP is computed from the values, if there is a PvP calculator (ok).
RecomputeCp(r) == {[r EXCEPT !.cp = @ \/ (ok /\ r.iv # NoIv)] : ok \in BOOLEAN}

\* Guesses again whenever it is asked to.
Slip_Guess(r) == [r EXCEPT !.end = "guess", !.over = FALSE]

SetUnknownTimestamp(r) ==
    IF r.end = "none" \/ r.over THEN [r EXCEPT !.end = "guess", !.over = FALSE] ELSE r

\* knows: the spawnpoint could be read, and knows.
SetExpireTimestamp(r, knows, trusted) ==
    IF ~trusted /\ r.verified THEN r
    ELSE IF knows THEN [r EXCEPT !.end = "known", !.verified = TRUE, !.over = FALSE]
    ELSE SetUnknownTimestamp([r EXCEPT !.verified = FALSE])

Plain == {"unboosted", "boosted"}

\* The scans there are, as the verdict reads them: it may find that the only one
\* of the two was of the other boost.
Readings(r) ==
    {r.scans} \cup IF r.strong THEN {}
                   ELSE {(r.scans \ {a}) \cup {b} : a \in r.scans \cap Plain, b \in Plain \ r.scans}

\* The scan is of the boost that is displayed.
NoDitto(r, scans) ==
    LET category == Category(r.weather # None, r.strong)
    IN [r EXCEPT !.ditto = FALSE, !.iv = category, !.cp = TRUE, !.odd = FALSE, !.scans = scans \cup {category}]

\* A ditto.  Where no boost is displayed it may have one (hidden): it is caught
\* without, and its values are then those of an older scan, if there is one.
\* (In PARTLY_CLOUDY the game shows none without its boost.)
ADitto(r, scans, hidden) ==
    LET category == Category(hidden \/ r.weather = PartlyCloudy, FALSE)
    IN [r EXCEPT !.ditto = TRUE, !.cp = TRUE, !.odd = FALSE, !.scans = scans \cup {category},
                 !.iv = IF ~hidden THEN category
                        ELSE IF "unboosted" \in scans THEN "unboosted" ELSE NoIv]

\* The scan contradicts the older ones, which are dropped; a ditto may stay one.
Unexpected(r, ditto) ==
    LET category == Category(r.weather # None, r.strong)
    IN [r EXCEPT !.ditto = ditto, !.iv = category, !.cp = TRUE, !.odd = ditto, !.scans = {category}]

\* addEncounterPokemon: the records that it may leave.
AddEncounter(r) ==
    {NoDitto(r, scans) : scans \in Readings(r)}
    \cup {ADitto(r, scans, hidden) : scans \in IF r.strong THEN {} ELSE Readings(r),
                                    hidden \in IF r.weather = None THEN BOOLEAN ELSE {FALSE}}
    \cup {Unexpected(r, ditto) : ditto \in {FALSE, r.ditto}}

\* The record r with the displays that an encounter may show.
AsDisplayed(r) == {SetPokemonDisplay(r, weather, strong, differs) :
                      weather \in Displays, strong \in BOOLEAN, differs \in BOOLEAN}

\* Counts whatever was displayed otherwise before.
Slip_CountAgain(old, new) == new \in {"wild", "encounter"} /\ old # new

CountsAsSeen(old, new) == old \in Unplaced /\ new \in {"wild", "encounter"}

Count(old, new) ==
    LET known == first /\ ~(old \in Unplaced /\ new = "wild")
        fresh == new = "encounter" /\ old # new /\ ~known
    IN /\ first' = (known \/ fresh)
       /\ counted' = [seen |-> counted.seen + (IF CountsAsSeen(old, new) THEN 1 ELSE 0),
                      encountered |-> counted.encountered + (IF fresh THEN 1 ELSE 0)]

\* savePokemonRecordAsAtTime, with or without writeDB.
SaveAs(r, write) ==
    /\ p' = [r EXCEPT !.new = FALSE]
    /\ row' = IF write THEN RowOf(r) ELSE row
    /\ Count(p.kind, r.kind)

\* A sighting saves and writes, unless it has changed nothing.
Save(r) == \E dirty \in BOOLEAN : (dirty \/ (r = p /\ ~p.new)) /\ SaveAs(r, dirty)
-----------------------------------------------------------------------------
(* The sightings.                                                          *)

Expired(r) == ~r.verified /\ (r.end = "none" \/ r.over)

Knows == {point, FALSE}  \* reading the spawnpoint may fail

\* A wild pokemon of a GMO: its spawnpoint first, then itself.
WildSighting ==
    \E weather \in Displays, strong, differs \in BOOLEAN, knows \in Knows :
        LET kind == IF p.kind \in Unplaced THEN "wild" ELSE p.kind
            timed == SetExpireTimestamp([p EXCEPT !.kind = kind], knows, TRUE)
        IN /\ nature = "spawn"
           /\ \/ p.new \/ p.kind \in Unplaced
              \/ differs \/ p.weather # weather \/ Expired(p)
           /\ \E r \in RecomputeCp(SetPokemonDisplay(timed, weather, strong, differs)) : Save(r)
           /\ UNCHANGED <<nature, point, stored, missing, switch>>

\* The spawnpoint learns its second from a pokemon that is about to go.
SpawnpointLearns ==
    /\ nature = "spawn" /\ ~point
    /\ point' = TRUE
    /\ UNCHANGED <<nature, p, row, stored, missing, switch, first, counted>>

\* Takes a pokemon that is nearby for one that is at the cell's centre.
Slip_NearbyKind(r, at) == IF at = "stop" THEN "nearby_stop" ELSE "nearby_cell"

\* The seen type that a nearby pokemon gets, at a stop that is known ("stop"),
\* or else in its cell; "" if it tells nothing new of the place.
NearbyKind(r, at) ==
    CASE at = "stop" /\ r.kind \in Unplaced -> "nearby_stop"
      [] at = "cell" /\ (r.new \/ r.kind = "nearby_cell") -> "nearby_cell"
      [] OTHER -> ""

NearbySighting ==
    \E weather \in Displays, strong, differs \in BOOLEAN, at \in {"stop", "cell"} :
        /\ nature = "spawn"
        /\ \/ p.new \/ p.kind = "nearby_cell"
           \/ differs \/ p.weather # weather \/ Expired(p)
        /\ \E shown \in RecomputeCp(SetPokemonDisplay(p, weather, strong, differs)) :
              LET kind == NearbyKind(shown, at)
              IN Save(IF kind = "" THEN shown
                      ELSE SetUnknownTimestamp([shown EXCEPT !.kind = kind]))
        /\ UNCHANGED <<nature, point, stored, missing, switch>>

EncounterKind(kind) ==
    IF kind \in {"tappable_encounter", "tappable_lure_encounter"} THEN kind ELSE "encounter"

\* An account encounters it; the time of an answer is not trusted.
Encounter ==
    /\ nature \in {"spawn", "tappable"}
    /\ \E timed \in {SetExpireTimestamp(p, knows, FALSE) : knows \in Knows} :
          \E shown \in AsDisplayed(timed) :
             \E r \in AddEncounter([shown EXCEPT !.kind = EncounterKind(@)]) : Save(r)
    /\ UNCHANGED <<nature, point, stored, missing, switch>>

\* A tappable is at a spawnpoint or at a lured stop, which changes kind and time;
\* the request may name neither.
AtTappable(r) ==
    {r} \cup IF nature = "spawn"
             THEN {SetExpireTimestamp([r EXCEPT !.kind = "tappable_encounter"], knows, FALSE) :
                      knows \in Knows}
             ELSE {[r EXCEPT !.kind = "tappable_lure_encounter",
                             !.end = "guess", !.verified = FALSE, !.over = FALSE]}

\* An account encounters it by a tappable.
TappableEncounter ==
    /\ nature \in {"spawn", "tappable"}
    /\ \E timed \in AtTappable(p) : \E shown \in AsDisplayed(timed) :
          \E r \in AddEncounter(shown) : Save(r)
    /\ UNCHANGED <<nature, point, stored, missing, switch>>
-----------------------------------------------------------------------------
(* Lured pokemon.                                                          *)

\* What a disk encounter may make of the record.
DiskEncountered(r) ==
    UNION {AddEncounter([shown EXCEPT !.kind = "lure_encounter"]) : shown \in AsDisplayed(r)}

\* A new record as the GMO shows it; it stays as it is if the stop is unknown.
FromMap(r, weather, strong, known, timed) ==
    IF ~r.new \/ ~known THEN r
    ELSE LET shown == SetPokemonDisplay([r EXCEPT !.kind = "lure_wild"], weather, strong, FALSE)
         IN IF timed /\ ~r.verified
            THEN [shown EXCEPT !.end = "known", !.verified = TRUE, !.over = FALSE]
            ELSE [shown EXCEPT !.verified = FALSE]

\* A pokemon at a stop in a GMO, and the encounter that was kept for it.
MapSighting ==
    \E weather \in Displays, strong, known, timed \in BOOLEAN :
        LET mapped == FromMap(p, weather, strong, known, timed)
        IN /\ nature = "lure"
           /\ \/ stored /\ \E r \in DiskEncountered(mapped) : Save(r)
              \/ ~stored /\ Save(mapped)
           /\ stored' = FALSE
           /\ UNCHANGED <<nature, point, missing, switch>>

DiskEncounter ==
    /\ nature = "lure" /\ ~p.new
    /\ \E r \in DiskEncountered(p) : Save(r)
    /\ UNCHANGED <<nature, point, stored, missing, switch>>

\* A disk encounter finds no record, ...
DiskEncounterMisses ==
    /\ nature = "lure" /\ p.new /\ ~missing
    /\ missing' = TRUE
    /\ UNCHANGED <<nature, p, row, point, stored, switch, first, counted>>

\* ... and is kept, though there may be a record by now.
DiskEncounterKept ==
    /\ missing
    /\ missing' = FALSE
    /\ stored' = TRUE
    /\ UNCHANGED <<nature, p, row, point, switch, first, counted>>

\* diskEncounterCache keeps it for ten minutes.
DiskEncounterExpires ==
    /\ stored
    /\ stored' = FALSE
    /\ UNCHANGED <<nature, p, row, point, missing, switch, first, counted>>
-----------------------------------------------------------------------------
(* The proactive IV switch: the weather of the cell changes.               *)

\* boosted & uint8(1) << weather # 0, where & and << bind alike and to the
\* left: (boosted & 1) << weather is not zero if bit 0 of boosted is set.
SwitchedWeather(weather) == IF 0 \in Boosting THEN weather ELSE None

\* The pokemon is found in the tree, and judged by its lookup entry.
SwitchLooks ==
    \E weather \in Weathers :
        /\ switch = None /\ ~p.new
        /\ p.iv # NoIv \/ p.scans # {}
        /\ SwitchedWeather(weather) # p.weather
        /\ switch' = weather
        /\ UNCHANGED <<nature, p, row, point, stored, missing, first, counted>>

\* Switches the values and leaves the weather for the next sighting.
Slip_Switched(r, weather) == RecomputeCp(r)

\* What becomes of a record whose values were switched and that has no CP.
Switched(r, weather) == RecomputeCp([r EXCEPT !.weather = weather])

\* ProactiveIVSwitch, with the record locked: its end lay ahead when the search
\* began.  What has kept its CP is not saved.
ProactiveIVSwitch ==
    /\ switch # None
    /\ ~p.new /\ p.end # "none"
    /\ SwitchedWeather(switch) # p.weather
    /\ LET repopulated == RepopulateIv(p, SwitchedWeather(switch), p.strong)
       IN \/ /\ repopulated.cp
             /\ p' = repopulated
             /\ UNCHANGED <<row, first, counted>>
          \/ /\ ~repopulated.cp
             /\ \E toDB \in BOOLEAN :
                   \E r \in Switched(repopulated, SwitchedWeather(switch)) :
                      SaveAs(r, toDB /\ r.cp)
    /\ switch' = None
    /\ UNCHANGED <<nature, point, stored, missing>>

\* The record has been seen since, has changed or has expired.
SwitchSkips ==
    /\ switch # None
    /\ switch' = None
    /\ UNCHANGED <<nature, p, row, point, stored, missing, first, counted>>
-----------------------------------------------------------------------------
\* The time that the record gives for the despawn passes.
EndPasses ==
    /\ p.end # "none" /\ ~p.over
    /\ p' = [p EXCEPT !.over = TRUE]
    /\ UNCHANGED <<nature, row, point, stored, missing, switch, first, counted>>

\* The encounter cache drops the entry: a minute after the despawn time that
\* was verified when the entry was written, or an hour after that writing.
EncounterCacheExpires ==
    /\ first
    /\ first' = FALSE
    /\ counted' = [counted EXCEPT !.encountered = 0]
    /\ UNCHANGED <<nature, p, row, point, stored, missing, switch>>

\* The record leaves the cache and is loaded from its row.  golbat_internal is
\* written only if it is configured, and not when a GMO applies an encounter
\* that was kept for it: scans are missing from the row.  By default a switch
\* does not write at all.
Reload ==
    \E scans \in SUBSET p.scans :
        /\ ~p.new
        /\ p' = [p EXCEPT !.scans = scans, !.kind = row.kind, !.weather = row.weather,
                          !.iv = row.iv, !.cp = row.cp, !.odd = row.odd]
        /\ UNCHANGED <<nature, row, point, stored, missing, switch, first, counted>>

\* The record leaves the cache and has no row: its writes failed, or pokemon are
\* kept in memory only.  It is another pokemon to Golbat, and counted as such.
Forget ==
    /\ ~p.new
    /\ p' = NewRecord
    /\ row' = RowOf(NewRecord)
    /\ counted' = [seen |-> 0, encountered |-> 0]
    /\ UNCHANGED <<nature, point, stored, missing, switch, first>>

Next ==
    \/ WildSighting
    \/ SpawnpointLearns
    \/ NearbySighting
    \/ Encounter
    \/ TappableEncounter
    \/ MapSighting
    \/ DiskEncounter
    \/ DiskEncounterMisses
    \/ DiskEncounterKept
    \/ DiskEncounterExpires
    \/ SwitchLooks
    \/ ProactiveIVSwitch
    \/ SwitchSkips
    \/ EndPasses
    \/ EncounterCacheExpires
    \/ Reload
    \/ Forget

Spec == Init /\ [][Next]_vars
-----------------------------------------------------------------------------
(* Correctness.                                                            *)

Record == [new : BOOLEAN, kind : Kinds, weather : Displays, strong : BOOLEAN, ditto : BOOLEAN,
           iv : Categories \cup {NoIv}, cp : BOOLEAN, scans : SUBSET Categories, odd : BOOLEAN,
           end : Ends, verified : BOOLEAN, over : BOOLEAN]

\* Every variable holds a value of its type.
TypeOK ==
    /\ nature \in {"spawn", "lure", "tappable"}
    /\ p \in Record
    /\ row \in [kind : Kinds, weather : Displays, iv : Categories \cup {NoIv},
               cp : BOOLEAN, odd : BOOLEAN]
    /\ point \in BOOLEAN
    /\ stored \in BOOLEAN
    /\ missing \in BOOLEAN
    /\ switch \in Weathers \cup {None}
    /\ first \in BOOLEAN
    /\ counted \in [seen : Nat, encountered : Nat]

\* The individual values that are given are those for the boost that what the
\* record is taken for has in the display that is given, whichever sightings,
\* verdicts on dittos, reloads and proactive switches came in between; and
\* "Pokemon has been encountered giving exact details of current IV"
\* (pokemon_decode.go:272): a record that says so has values, but that of a ditto
\* that was only scanned with a boost that it loses when it is caught.  What was
\* taken for a ditto and then for another pokemon may keep values until its boost
\* changes or it is encountered again (odd).
IvFitsBoost ==
    ~p.odd =>
        /\ p.iv # NoIv => p.iv = Category(Boosted(p.ditto, p.weather), p.strong)
        /\ p.kind \in {"encounter", "lure_encounter"} =>
              p.iv # NoIv \/ (p.ditto /\ p.weather # PartlyCloudy)

\* A despawn time that is called verified was never a guess: nearby sightings
\* guess without a look at the flag, and only the seen type keeps them from it.
VerifiedIsKnown == p.verified => p.end = "known"

\* A known despawn time is not replaced by a guess while it lies ahead and the
\* record has a row, other than by a tappable at a lured stop, which has none.
KnownEndIsKept ==
    [][p.end = "known" /\ ~p.over /\ p'.kind # "tappable_lure_encounter" /\ ~p'.new
         => p'.end = "known"]_vars

\* As long as it is not forgotten, each pokemon is counted once as seen, and once
\* as encountered as long as the encounter cache remembers it, however often its
\* weather and its seen type change back and forth: "transition to wild or encounter for the first time"
\* (stats.go:303), "This is first encounter" (stats.go:311).
CountedOnce == counted.seen <= 1 /\ counted.encountered <= 1

\* "a weather change triggers a re-evaluation of encountered pokemon whose
\* weather boost may have flipped" (protos.md:44): a record that the switch has
\* changed is boosted if the new weather boosts the pokemon, and not otherwise.
SwitchFollowsWeather ==
    [][switch # None /\ switch' = None /\ p' # p
         => (p'.weather # None <=> switch \in Boosting)]_vars
=============================================================================
