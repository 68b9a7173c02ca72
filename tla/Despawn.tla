------------------------------ MODULE Despawn ------------------------------
(***************************************************************************)
(* When a pokemon despawns: a spawnpoint has its pokemon go at one second  *)
(* of every hour, learns it from those that are seen shortly before they   *)
(* go, and later sightings turn it into a time (decoder/spawnpoint.go,     *)
(* pokemon_decode.go).  Seconds of the hour form a circle.                 *)
(*                                                                         *)
(* PokemonLife has who may overwrite which time; here is the arithmetic.   *)
(***************************************************************************)
EXTENDS Integers

(* Operators named Slip_... are plausible slips in the definition that      *)
(* follows them; nothing uses them, and each breaks a property below.      *)

CONSTANTS
    Hour,        \* 3600
    Shown,       \* 90: for how long before it goes the client is told when
    FirstGuess,  \* 1200
    NextGuess,   \* 600
    Jitter,      \* by how much two measurements of one second differ from it
    Seconds,     \* the seconds at which the spawnpoint's pokemon may go
    MaxTime      \* bound: the clock

Unknown == -1

VARIABLES
    now,       \* the clock
    ends,      \* when the pokemon that is there goes (unknown to Golbat)
    despawnSec,\* of the spawnpoint, or Unknown
    expire,    \* expire_timestamp of the pokemon, or Unknown
    verified,  \* expire_timestamp_verified
    measured,  \* the last measurement of this second (history), or Unknown
    sighted    \* the sighting that set expire, if there was a measurement (history)

vars == <<now, ends, despawnSec, expire, verified, measured, sighted>>

\* The first pokemon is met at any time before it goes.
Init ==
    /\ ends \in Seconds
    /\ now \in {t \in 0 .. MaxTime : t <= ends}
    /\ despawnSec = Unknown
    /\ expire = Unknown
    /\ verified = FALSE
    /\ measured = Unknown
    /\ sighted = Unknown

Abs(x) == IF x < 0 THEN -x ELSE x

\* Compares seconds as if the hour had no end.
Slip_Tolerated(old, new) == Abs(old - new) <= 2

Tolerated(old, new) ==
    \/ old <= 1 /\ new >= Hour - 2
    \/ new <= 1 /\ old >= Hour - 2
    \/ Abs(old - new) <= 2

SetDespawnSec(old, new) == IF old # Unknown /\ Tolerated(old, new) THEN old ELSE new

\* spawnpointUpdateFromWild: the pokemon is about to go.
Measure ==
    \E error \in (-Jitter) .. Jitter :
        LET second == (ends + error) % Hour
        IN /\ now < ends /\ ends + error - now \in 1 .. Shown
           /\ despawnSec' = SetDespawnSec(despawnSec, second)
           /\ measured' = second
           /\ UNCHANGED <<now, ends, expire, verified, sighted>>

\* Forgets that the next such second may be in the next hour.
Slip_DespawnOffset(second) == despawnSec - second

\* For how long it takes from a second of the hour to the despawn second.
DespawnOffset(second) ==
    LET offset == despawnSec - second IN IF offset < 0 THEN offset + Hour ELSE offset

SetUnknownTimestamp ==
    /\ expire' = IF expire = Unknown THEN now + FirstGuess
                 ELSE IF expire < now THEN now + NextGuess ELSE expire
    /\ verified' = FALSE
    /\ sighted' = Unknown

SetExpireTimestamp ==
    IF despawnSec = Unknown THEN SetUnknownTimestamp
    ELSE /\ expire' = now + DespawnOffset(now % Hour)
         /\ verified' = TRUE
         /\ sighted' = IF measured = Unknown THEN Unknown ELSE now

\* In a GMO, whose time is trusted.
WildSighting ==
    /\ ends - Hour < now /\ now < ends
    /\ SetExpireTimestamp
    /\ UNCHANGED <<now, ends, despawnSec, measured>>

\* By an encounter, whose answer may come when the pokemon has gone.
Encounter ==
    /\ ends - Hour < now /\ ~verified
    /\ SetExpireTimestamp
    /\ UNCHANGED <<now, ends, despawnSec, measured>>

Tick ==
    /\ now < MaxTime
    /\ now' = now + 1
    /\ UNCHANGED <<ends, despawnSec, expire, verified, measured, sighted>>

\* The next pokemon there; the spawnpoint may have got another second.
NextPokemon ==
    \E second \in Seconds :
        /\ now >= ends
        /\ ends' = ends - (ends % Hour) + Hour + second
        /\ measured' = IF second = ends % Hour THEN measured ELSE Unknown
        /\ expire' = Unknown
        /\ verified' = FALSE
        /\ sighted' = Unknown
        /\ UNCHANGED <<now, despawnSec>>

Next ==
    \/ Measure
    \/ WildSighting
    \/ Encounter
    \/ Tick
    \/ NextPokemon

Spec == Init /\ [][Next]_vars
-----------------------------------------------------------------------------
(* Correctness.                                                            *)

\* Every variable holds a value of its type.
TypeOK ==
    /\ now \in 0 .. MaxTime
    /\ ends \in Nat
    /\ despawnSec \in (0 .. Hour - 1) \cup {Unknown}
    /\ expire \in Nat \cup {Unknown}
    /\ verified \in BOOLEAN
    /\ measured \in (0 .. Hour - 1) \cup {Unknown}
    /\ sighted \in (0 .. MaxTime) \cup {Unknown}

\* The distance of two seconds on the circle of the hour.
Apart(a, b) == LET d == Abs(a - b) IN IF d <= Hour - d THEN d ELSE Hour - d

\* Measurements that are within the "2-second tolerance" (spawnpoint.go:106) of
\* the stored second, also across the hour's end, do not make it flap.
SecondIsStable ==
    [][despawnSec # Unknown /\ despawnSec' # despawnSec
         => Apart(despawnSec, despawnSec') > 2]_vars

\* By how much the stored second may be off.
Off == 3 + Jitter

\* A verified time is the one at which the pokemon goes, on whichever sides of
\* an hour's end the two are, once its second has been measured; but not for a
\* sighting in the first or last few seconds of the hour before, for which
\* the code takes the wrong hour.
VerifiedIsTrue ==
    verified /\ sighted \in (ends - Hour + Off + 1) .. (ends - Off)
      => Abs(expire - ends) <= Off
=============================================================================
