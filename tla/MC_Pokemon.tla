----------------------------- MODULE MC_Pokemon -----------------------------
(***************************************************************************)
(* Instances of what Golbat knows of one pokemon, for TLC: its record      *)
(* (PokemonLife, extended), its despawn time (Despawn), whether it is a    *)
(* ditto (Ditto), and where searches find it (PokemonTree).  These share   *)
(* no state; "part" says which one the behaviour is about, and the others  *)
(* stay in one initial state.                                              *)
(*                                                                         *)
(* Seconds: on both sides of the hour's end, near it, and in the middle.   *)
(* MaxTime: past the third hour, so that a pokemon follows another twice.  *)
(* Bases: the last level that shows that there is no boost (5), the last   *)
(* one that does not show that there is one (30), and one that shows       *)
(* nothing in either case (15).                                            *)
(***************************************************************************)
EXTENDS PokemonLife

CONSTANTS Parts, Hour, Shown, FirstGuess, NextGuess, Jitter, Seconds, MaxTime,
          Bases, LowIvs, HighIvs, Species,
          Places, Forms, MaxEntries

VARIABLES
    part,                                                          \* one of Parts
    now, ends, despawnSec, expire, verified, measured, sighted,    \* Despawn
    truth, species, weather, iv, isDitto, history, disguises, rerolled, lost,  \* Ditto
    cached, saved, treeRow, tree, lookup, count, evicting, raced   \* PokemonTree

Time == INSTANCE Despawn
Disguise == INSTANCE Ditto
Index == INSTANCE PokemonTree WITH row <- treeRow

timeVars == <<now, ends, despawnSec, expire, verified, measured, sighted>>
disguiseVars ==
    <<truth, species, weather, iv, isDitto, history, disguises, rerolled, lost>>
treeVars == <<cached, saved, treeRow, tree, lookup, count, evicting, raced>>

PartInit ==
    /\ part \in Parts
    /\ Init /\ (part # "record" => nature = "spawn" /\ ~point)
    /\ Time!Init
    /\ part # "time" => now = 0 /\ ends = CHOOSE s \in Seconds : TRUE
    /\ Disguise!Init
    /\ part # "disguise" =>
         /\ disguises = {}
         /\ truth = CHOOSE t \in Disguise!Truths : t.low # t.high
    /\ Index!Init

TheRecord == part = "record" /\ UNCHANGED <<part, timeVars, disguiseVars, treeVars>>
TheTime == part = "time" /\ UNCHANGED <<part, vars, disguiseVars, treeVars>>
TheDisguise == part = "disguise" /\ UNCHANGED <<part, vars, timeVars, treeVars>>
TheTree == part = "tree" /\ UNCHANGED <<part, vars, timeVars, disguiseVars>>

PartNext ==
    \/ TheRecord /\ WildSighting
    \/ TheRecord /\ SpawnpointLearns
    \/ TheRecord /\ NearbySighting
    \/ TheRecord /\ Encounter
    \/ TheRecord /\ TappableEncounter
    \/ TheRecord /\ MapSighting
    \/ TheRecord /\ DiskEncounter
    \/ TheRecord /\ DiskEncounterMisses
    \/ TheRecord /\ DiskEncounterKept
    \/ TheRecord /\ DiskEncounterExpires
    \/ TheRecord /\ SwitchLooks
    \/ TheRecord /\ ProactiveIVSwitch
    \/ TheRecord /\ SwitchSkips
    \/ TheRecord /\ EndPasses
    \/ TheRecord /\ EncounterCacheExpires
    \/ TheRecord /\ Reload
    \/ TheRecord /\ Forget
    \/ TheTime /\ Time!Measure
    \/ TheTime /\ Time!WildSighting
    \/ TheTime /\ Time!Encounter
    \/ TheTime /\ Time!Tick
    \/ TheTime /\ Time!NextPokemon
    \/ TheDisguise /\ Disguise!Encounter
    \/ TheDisguise /\ Disguise!Sighting
    \/ TheDisguise /\ Disguise!Reload
    \/ TheDisguise /\ Disguise!Reroll
    \/ TheTree /\ Index!Load
    \/ TheTree /\ Index!Create
    \/ TheTree /\ Index!Save
    \/ TheTree /\ Index!Write
    \/ TheTree /\ Index!Archive
    \/ TheTree /\ Index!Expire
    \/ TheTree /\ Index!Evicted

partVars == <<part, vars, timeVars, disguiseVars, treeVars>>

PartSpec == PartInit /\ [][PartNext]_partVars
-----------------------------------------------------------------------------
\* The despawn second of a spawnpoint does not flap, also across the hour's end
\* (Despawn; "2-second tolerance", spawnpoint.go:106).
SecondIsStable == Time!SecondIsStable

\* A verified despawn time is the one at which the pokemon goes (Despawn).
VerifiedIsTrue == Time!VerifiedIsTrue

\* No pokemon is taken for a ditto that is none (Ditto).
NoFalseDitto == Disguise!NoFalseDitto

\* What is given out for a ditto are the values it has when it is caught (Ditto;
\* "If IsDitto = true, then the IV sets in history are ALWAYS confirmed",
\* pokemon_decode.go:424).
DittoIvIsRight == Disguise!DittoIvIsRight

\* Tree, lookup and form counts agree with the cache, unless the callback of an
\* expiry comes after the pokemon was got again (PokemonTree; removePokemonFromTree).
IndexAgrees == Index!IndexAgrees
=============================================================================
