--------------------------- MODULE MCGradientFlow ---------------------------
(***************************************************************************)
(* GradientFlow for TLC.  The specification never tells two miners apart.  *)
(***************************************************************************)
EXTENDS GradientFlow, TLC

MinerSymmetry == Permutations(Miners)
=============================================================================
