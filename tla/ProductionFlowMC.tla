-------------------------- MODULE ProductionFlowMC --------------------------
(***************************************************************************)
(* Small instances of ProductionFlow for TLC.                              *)
(***************************************************************************)
EXTENDS ProductionFlow, TLC

NoneToTwoBottles == {0, 1, 2}

OneOrTwoBottles == {1, 2}

RaceSymmetry == Permutations(Entries) \cup Permutations(Workers)
============================================================================
