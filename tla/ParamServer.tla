----------------------------- MODULE ParamServer -----------------------------
(***************************************************************************)
(* The parameter server (param_server.py): it accepts the gradients of     *)
(* registered miners that are not too stale, and merges all pending ones   *)
(* in a round that advances the global step and syncs their miners.        *)
(*                                                                         *)
(* A gradient is abstracted to what the rounds depend on: who sent it, for *)
(* which task, and its kind.  An empty one claims no samples: its weight is *)
(* zero, as is that of a miner with no trust left.  A misshapen one passes *)
(* the hash check, but its indices or its size do not fit its layer.       *)
(***************************************************************************)
EXTENDS Mining, Integers

CONSTANTS
  MaxStale,      \* MAX_STALENESS (50 in the code)
  MaxTrust,      \* mismatches that use up the trust score (11 in the code)
  MaxGradients   \* bound: gradients ever accepted

ASSUME ParamAssumption ==
  /\ MaxStale \in Nat
  /\ MaxTrust \in Nat
  /\ MaxGradients \in Nat

Unregistered == -1

VARIABLES
  step,          \* global_step
  sync,          \* global_step_at_last_sync of each miner, or Unregistered
  trust,         \* trust_score, in mismatches left
  total,         \* total_gradients_submitted
  pending,       \* pending_gradients
  merged         \* gradients of the completed rounds

paramVars == <<step, sync, trust, total, pending, merged>>

Kinds == {"useful", "empty", "misshapen"}

\* id tells apart gradients a miner sent twice.
Gradient == [id : 1..MaxGradients, miner : Miners, task : TaskIds, kind : Kinds]

ParamTypeOK ==
  /\ step \in Nat
  /\ sync \in [Miners -> Nat \cup {Unregistered}]
  /\ trust \in [Miners -> 0..MaxTrust]
  /\ total \in [Miners -> Nat]
  /\ pending \subseteq Gradient
  /\ merged \subseteq Gradient

ParamInit ==
  /\ step = 0
  /\ sync = [m \in Miners |-> Unregistered]
  /\ trust = [m \in Miners |-> MaxTrust]
  /\ total = [m \in Miners |-> 0]
  /\ pending = {}
  /\ merged = {}
-----------------------------------------------------------------------------
Registered(m) == sync[m] # Unregistered

Staleness(m) == IF step >= sync[m] THEN step - sync[m] ELSE sync[m] - step

\* Mistake: a second registration syncs the miner.
RegisterAgain(m) ==
  /\ sync' = [sync EXCEPT ![m] = step]
  /\ UNCHANGED <<step, trust, total, pending, merged>>

\* A second registration returns the state of the first, unsynced.
RegisterMiner(m) ==
  /\ ~Registered(m)
  /\ sync' = [sync EXCEPT ![m] = step]
  /\ UNCHANGED <<step, trust, total, pending, merged>>

Accepts(m) == Registered(m) /\ Staleness(m) <= MaxStale

Received == Cardinality(pending \cup merged)

\* receive_gradient returns True.
ReceiveGradient(m, t, kind) ==
  /\ Accepts(m)
  /\ Received < MaxGradients
  /\ pending' = pending \cup
       {[id |-> Received + 1, miner |-> m, task |-> t, kind |-> kind]}
  /\ total' = [total EXCEPT ![m] = @ + 1]
  /\ UNCHANGED <<step, sync, trust, merged>>

\* Mistake: trust has no floor.
MismatchBelowZero(m) ==
  /\ Registered(m)
  /\ trust' = [trust EXCEPT ![m] = @ - 1]
  /\ UNCHANGED <<step, sync, total, pending, merged>>

\* receive_gradient returns False: a hash mismatch costs trust.
HashMismatch(m) ==
  /\ Registered(m)
  /\ trust' = [trust EXCEPT ![m] = IF @ > 0 THEN @ - 1 ELSE 0]
  /\ UNCHANGED <<step, sync, total, pending, merged>>

Weighs(g) == g.kind # "empty" /\ trust[g.miner] > 0

\* Without any weight, aggregate returns None; on a misshapen gradient it raises
\* before it changes anything.  Either way the pending gradients stay pending.
CanAggregate ==
  /\ \E g \in pending : Weighs(g)
  /\ \A g \in pending : g.kind # "misshapen"

\* Mistake: the pending gradients are not cleared.
AggregateUncleared ==
  /\ CanAggregate
  /\ step' = step + 1
  /\ sync' = [m \in Miners |-> IF \E g \in pending : g.miner = m THEN step + 1 ELSE sync[m]]
  /\ merged' = merged \cup pending
  /\ UNCHANGED <<trust, total, pending>>

\* Mistake: gradients without weight are passed by.
AggregateWeighty ==
  LET round == {g \in pending : Weighs(g)}
  IN  /\ CanAggregate
      /\ step' = step + 1
      /\ sync' = [m \in Miners |-> IF \E g \in round : g.miner = m THEN step + 1 ELSE sync[m]]
      /\ merged' = merged \cup round
      /\ pending' = pending \ round
      /\ UNCHANGED <<trust, total>>

\* All pending gradients leave, those that weigh nothing too.
Aggregate ==
  /\ CanAggregate
  /\ step' = step + 1
  /\ sync' = [m \in Miners |-> IF \E g \in pending : g.miner = m THEN step + 1 ELSE sync[m]]
  /\ merged' = merged \cup pending
  /\ pending' = {}
  /\ UNCHANGED <<trust, total>>
-----------------------------------------------------------------------------
\* No accepted gradient is lost, counted twice or merged twice: what a miner is
\* rewarded for is what is pending or merged in its name.
NothingLost ==
  /\ pending \cap merged = {}
  /\ \A m \in Miners :
       total[m] = Cardinality({g \in pending \cup merged : g.miner = m})

\* A gradient that waits, however long, is merged within the staleness it was
\* accepted with: no round passes it by.
PendingAreFresh ==
  \A g \in pending : Registered(g.miner) /\ Staleness(g.miner) <= MaxStale

\* No miner is ahead of the server.
NobodyAhead == \A m \in Miners : sync[m] <= step

Locked(m) == Registered(m) /\ Staleness(m) > MaxStale

\* Falling too far behind is for good: only an accepted gradient syncs a miner,
\* and a stale miner's gradients are refused, re-registration or not.
LockoutIsFinal == [][\A m \in Miners : Locked(m) => Locked(m)']_paramVars

=============================================================================
