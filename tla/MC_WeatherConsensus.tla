------------------------ MODULE MC_WeatherConsensus -------------------------
(* WeatherConsensus on small instances: accounts a, conditions c. *)
EXTENDS WeatherConsensus, TLC

CONSTANTS a1, a2, a3, c1, c2, c3

MCSymmetry == Permutations(Accounts) \cup Permutations(Conditions)
=============================================================================
