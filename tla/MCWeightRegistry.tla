-------------------------- MODULE MCWeightRegistry --------------------------
(***************************************************************************)
(* WeightRegistry for TLC.  The specification tells neither two miners nor *)
(* two locations apart.                                                    *)
(***************************************************************************)
EXTENDS WeightRegistry, TLC

CONSTANT h1

Streams == {<<"streaming", h1>>}

RegistrySymmetry == Permutations(Miners) \cup Permutations(Locations)
=============================================================================
