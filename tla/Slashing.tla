------------------------------ MODULE Slashing ------------------------------
(***************************************************************************)
(* The slashing engine (slashing.py): violations that miners report of one *)
(* another, their verification, and the penalties on reputation,           *)
(* collateral and P2P access.  Hashes and Merkle paths are reduced to      *)
(* whether the evidence holds.  Nothing here awaits anything that yields.  *)
(***************************************************************************)
EXTENDS Roster, Integers, FiniteSetsExt

CONSTANTS
  Violations,          \* bound: violation records
  NoRecord,            \* a record id not used yet
  MaxPenalties,        \* bound: penalties of one miner
  MaxHours             \* bound: hours that pass

ASSUME SlashingAssumption == MaxPenalties \in Nat /\ MaxHours \in Nat

VARIABLES
  violations,    \* records by id
  reputation,    \* reputation_tracker; {} for a miner it does not know
  now            \* hours passed

slashingVars == <<violations, reputation, now>>
-----------------------------------------------------------------------------
ViolationType == {"invalid_merkle_proof", "weight_hash_mismatch", "unavailable_weights",
                  "repeated_failures", "malicious_behavior"}

\* _init_slashing_conditions: the stake penalty in percent, the suspension in hours
\* and the loss of reputation.  Each type has one condition, so that the choice by
\* history in _select_condition always comes to it.
SlashingConditions ==
  [invalid_merkle_proof |-> [stake |-> 10, hours |-> 24, points |-> 20],
   weight_hash_mismatch |-> [stake |-> 5,  hours |-> 12, points |-> 10],
   unavailable_weights  |-> [stake |-> 2,  hours |-> 6,  points |-> 5],
   repeated_failures    |-> [stake |-> 15, hours |-> 48, points |-> 30],
   malicious_behavior   |-> [stake |-> 50, hours |-> 168, points |-> 50]]

NewReputation == [score |-> 100, count |-> 0, collateral |-> 1000, suspensionEnd |-> 0]

SlashingTypeOK ==
  /\ violations \in [Violations ->
       {NoRecord} \cup [miner : Miners, type : ViolationType, holds : BOOLEAN,
                        verified : BOOLEAN, slash : {0, 2, 5, 10}]]
  /\ reputation \in [Miners ->
       SUBSET [score : 0..100, count : 0..MaxPenalties, collateral : {1000, 2000, 5000},
               suspensionEnd : 0..(MaxHours + 24)]]
  /\ \A m \in Miners : Cardinality(reputation[m]) <= 1
  /\ now \in 0..MaxHours

SlashingInit ==
  /\ violations = [v \in Violations |-> NoRecord]
  /\ reputation = [m \in Miners |-> {}]
  /\ now = 0

Reported == {v \in Violations : violations[v] # NoRecord}

HasReputation(m) == reputation[m] # {}
ReputationOf(m) == IF HasReputation(m) THEN CHOOSE r \in reputation[m] : TRUE ELSE NewReputation
-----------------------------------------------------------------------------
\* report_violation: any miner, any type, evidence that holds or does not.
ReportViolation(m, type, holds) ==
  /\ \E v \in Violations \ Reported :
       violations' = [violations EXCEPT ![v] =
         [miner |-> m, type |-> type, holds |-> holds, verified |-> FALSE, slash |-> 0]]
  /\ UNCHANGED <<reputation, now>>

\* verify_weight_transfer of weights that do not have the expected hash: the
\* evidence it files holds.
VerifyWeightTransferFails(m) == ReportViolation(m, "weight_hash_mismatch", TRUE)

\* _validate_evidence knows three of the types.
ValidEvidence(r) ==
  /\ r.type \in {"invalid_merkle_proof", "weight_hash_mismatch", "unavailable_weights"}
  /\ r.holds

\* Mistake: the wider of the two thresholds is looked at first.
CollateralWideFirst(r, score) == IF score < 50 THEN 2000 ELSE r.collateral

\* Low reputation raises what a miner has to put up.
Collateral(r, score) ==
  CASE score < 25                -> 5000
    [] score < 50 /\ score >= 25 -> 2000
    [] OTHER                     -> r.collateral

Lowered(score, points) == Max({0, score - points})

\* update_score and the suspension, whose end replaces the end of an earlier one.
Penalised(r, c) ==
  LET score == Lowered(r.score, c.points)
  IN  [score |-> score, count |-> r.count + 1, collateral |-> Collateral(r, score),
       suspensionEnd |-> now + c.hours]

\* _verify_violation and _apply_penalty, of a record verified before or not.
VerifyViolation(v) ==
  /\ v \in Reported
  /\ LET r == violations[v]
         c == SlashingConditions[r.type]
     IN  IF ValidEvidence(r)
         THEN /\ ReputationOf(r.miner).count < MaxPenalties
              /\ reputation' = [reputation EXCEPT ![r.miner] =
                                  {Penalised(ReputationOf(r.miner), c)}]
              /\ violations' = [violations EXCEPT ![v].verified = TRUE, ![v].slash = c.stake]
         ELSE /\ violations' = [violations EXCEPT ![v].verified = TRUE]
              /\ UNCHANGED reputation
  /\ UNCHANGED now

\* get_miner_status begins to track a miner it does not know.
GetMinerStatus(m) ==
  /\ reputation' = [reputation EXCEPT ![m] = {ReputationOf(m)}]
  /\ UNCHANGED <<violations, now>>

HoursPass ==
  /\ now + 6 <= MaxHours
  /\ now' = now + 6
  /\ UNCHANGED <<violations, reputation>>

SlashingNext ==
  \/ \E m \in Miners, type \in ViolationType, holds \in BOOLEAN :
       ReportViolation(m, type, holds)
  \/ \E m \in Miners : VerifyWeightTransferFails(m) \/ GetMinerStatus(m)
  \/ \E v \in Violations : VerifyViolation(v)
  \/ HoursPass
-----------------------------------------------------------------------------
\* The collateral asked of a miner fits its score, over any mix and repetition of
\* penalties that cross a threshold, stop short of it or come after it was crossed.
CollateralFollowsScore ==
  \A m \in Miners : HasReputation(m) =>
    LET r == ReputationOf(m)
    IN  /\ r.collateral = 5000 <=> r.score < 25
        /\ r.collateral = 1000 <=> r.score >= 50
        /\ r.count = 0 => r.score = 100
=============================================================================
