------------------------------- MODULE Roster -------------------------------
(***************************************************************************)
(* What peer discovery, slashing and staking refer to.                     *)
(***************************************************************************)
CONSTANT Miners
=============================================================================
