------------------------------ MODULE Detached ------------------------------
(***************************************************************************)
(* The components that stand apart: schedules of pipelines, peers, transfer*)
(* of activations, slashing and staking.  They share no state and do not   *)
(* call one another, so that interleaving them shows nothing of one that it*)
(* does not show alone.  A behaviour here is that of a single part, chosen *)
(* at the start, while the others stand still.                             *)
(***************************************************************************)
EXTENDS Pipeline, PeerDiscovery, ActivationTransfer, Slashing, Staking

VARIABLE part      \* the part that runs

detachedVars == <<part, pipelineVars, peerVars, transferVars, slashingVars, walletVars>>

Parts == {"schedule", "peers", "transfer", "slashing", "staking"}

\* Each part keeps its types; those that stand still have nothing to keep.
DetachedTypeOK ==
  CASE part = "schedule" -> TypeOK
    [] part = "peers"    -> PeersTypeOK
    [] part = "transfer" -> TransferTypeOK
    [] part = "slashing" -> SlashingTypeOK
    [] part = "staking"  -> StakingTypeOK

DetachedInit ==
  /\ part \in Parts
  /\ Init
  /\ PeersInit
  /\ TransferInit
  /\ SlashingInit
  /\ StakingInit
  /\ part # "schedule" => numStages = Min(StageCounts)

DetachedNext ==
  /\ UNCHANGED part
  /\ \/ /\ part = "schedule"
        /\ Next
        /\ UNCHANGED <<peerVars, transferVars, slashingVars, walletVars>>
     \/ /\ part = "peers"
        /\ PeersNext
        /\ UNCHANGED <<pipelineVars, transferVars, slashingVars, walletVars>>
     \/ /\ part = "transfer"
        /\ TransferNext
        /\ UNCHANGED <<pipelineVars, peerVars, slashingVars, walletVars>>
     \/ /\ part = "slashing"
        /\ SlashingNext
        /\ UNCHANGED <<pipelineVars, peerVars, transferVars, walletVars>>
     \/ /\ part = "staking"
        /\ StakingNext
        /\ UNCHANGED <<pipelineVars, peerVars, transferVars, slashingVars>>

DetachedSpec == DetachedInit /\ [][DetachedNext]_detachedVars
=============================================================================
