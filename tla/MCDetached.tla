----------------------------- MODULE MCDetached -----------------------------
(***************************************************************************)
(* Detached for TLC: one training step in pipelines of one to four stages,*)
(* with fewer, as many and more microbatches than stages; three miners, one*)
(* of which can connect again, in two groups of three and of two of them in*)
(* another order; a transfer of one to three chunks, to the router it comes*)
(* from or to another; two violations, which six penalties take past both  *)
(* thresholds; two wallets and two stakes.                                 *)
(***************************************************************************)
EXTENDS Detached, TLC

CONSTANTS m1, m2, m3

Chains == {<<m1, m2, m3>>, <<m2, m1>>}

Symmetry == Permutations(Groups)
=============================================================================
