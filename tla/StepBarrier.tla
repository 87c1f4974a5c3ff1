---------------------------- MODULE StepBarrier ----------------------------
(***************************************************************************)
(* What cross-shard aggregation promises ("all shards complete aggregation *)
(* before any shard advances to the next global step"): parties arrive one *)
(* by one, and the last arrival moves all of them on together.             *)
(***************************************************************************)
EXTENDS Naturals

CONSTANT Parties

VARIABLES
  at,          \* the step each party is at
  arrived      \* parties that finished their step and wait for the others

barrierVars == <<at, arrived>>

BarrierInit ==
  /\ at = [p \in Parties |-> 0]
  /\ arrived = {}

Arrive(p) ==
  /\ arrived \cup {p} # Parties
  /\ arrived' = arrived \cup {p}
  /\ UNCHANGED at

Advance(p) ==
  /\ arrived \cup {p} = Parties
  /\ arrived' = {}
  /\ at' = [q \in Parties |-> at[q] + 1]

BarrierNext == \E p \in Parties : Arrive(p) \/ Advance(p)

BarrierSpec == BarrierInit /\ [][BarrierNext]_barrierVars
=============================================================================
