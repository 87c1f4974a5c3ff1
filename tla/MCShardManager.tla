--------------------------- MODULE MCShardManager ---------------------------
(***************************************************************************)
(* ShardManager for TLC.  The specification never tells two miners apart.  *)
(***************************************************************************)
EXTENDS ShardManager, TLC

MinerSymmetry == Permutations(Miners)
=============================================================================
