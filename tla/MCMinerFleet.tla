---------------------------- MODULE MCMinerFleet ----------------------------
(***************************************************************************)
(* MinerFleet for TLC.  The specification tells neither two miners nor two *)
(* connections apart.                                                      *)
(***************************************************************************)
EXTENDS MinerFleet, TLC

FleetSymmetry == Permutations(Miners) \cup Permutations(Conns)
=============================================================================
