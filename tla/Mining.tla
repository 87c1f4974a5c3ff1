------------------------------- MODULE Mining -------------------------------
(***************************************************************************)
(* What the task manager and the parameter server both refer to.           *)
(***************************************************************************)
EXTENDS Naturals, FiniteSets

CONSTANTS
  Miners,
  NoMiner,       \* a task nobody works on
  MaxTasks       \* bound: tasks ever created

ASSUME MiningAssumption ==
  /\ IsFiniteSet(Miners)
  /\ NoMiner \notin Miners
  /\ MaxTasks \in Nat

TaskIds == 1..MaxTasks
=============================================================================
