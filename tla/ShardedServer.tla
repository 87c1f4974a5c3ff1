--------------------------- MODULE ShardedServer ---------------------------
(***************************************************************************)
(* The sharded parameter server (sharded_param_server.py): one server per  *)
(* range of layers, each merging the gradients of its own layers, and a    *)
(* global aggregator that moves all of them to the next step once every    *)
(* one has a round to show.                                                *)
(*                                                                         *)
(* Nothing here awaits.  A pass of try_aggregate_all is several steps of   *)
(* the model, one per shard, and nothing else happens while it is on.      *)
(***************************************************************************)
EXTENDS Naturals, FiniteSetsExt, Sequences

CONSTANTS
  NumShards,
  NumLayers,
  Miners,
  Embed, LmHead, AnyNorm,  \* layers without an index: of the first, the last, any shard
  MaxStaleness,        \* MAX_STALENESS
  Payloads,            \* bound: sets of layers a gradient may carry
  MaxLocal,            \* bound: local steps miners report
  MaxPending,          \* bound: gradients waiting in one shard
  MaxRounds            \* bound: rounds of one shard

ASSUME ShardedAssumption ==
  /\ NumShards \in Nat \ {0}
  /\ NumLayers \in Nat
  /\ MaxStaleness \in Nat

Shards == 0..(NumShards - 1)
Layers == (0..(NumLayers - 1)) \cup {Embed, LmHead, AnyNorm}

ASSUME PayloadAssumption ==
  /\ Payloads \subseteq SUBSET Layers
  /\ MaxLocal \in Nat

VARIABLES
  step,          \* global_step of each shard server
  pending,       \* pending_gradients of each
  minerStep,     \* miner_steps of each: the last accepted local step, 0 at first
  rounds,        \* rounds of each
  globalStep,    \* global_step of the aggregator
  ready,         \* shards whose shard_ready flag is set
  cursor         \* the shard a pass has come to; NumShards when no pass is on

shardedVars == <<step, pending, minerStep, rounds, globalStep, ready, cursor>>
-----------------------------------------------------------------------------
\* create_parameter_server: an even split, the remainder to the first shards.
LayerStart(s) ==
  LET extra == NumLayers % NumShards
  IN  s * (NumLayers \div NumShards) + (IF s < extra THEN s ELSE extra)

LayerEnd(s) == LayerStart(s + 1)

IsOurLayer(s, layer) ==
  \/ layer \in LayerStart(s)..(LayerEnd(s) - 1)
  \/ layer = Embed /\ s = 0
  \/ layer = LmHead /\ s = NumShards - 1
  \/ layer = AnyNorm

\* A gradient names a range of layers and carries values for some.
Gradient == [miner : Miners, first : 0..NumLayers, last : 0..NumLayers,
             layers : SUBSET Layers, local : 0..MaxLocal]

Round == [step : Nat, status : {"waiting_consensus", "committed"}]

TypeOK ==
  /\ step \in [Shards -> Nat]
  /\ pending \in [Shards -> Seq(Gradient)]
  /\ minerStep \in [Shards -> [Miners -> 0..MaxLocal]]
  /\ rounds \in [Shards -> Seq(Round)]
  /\ globalStep \in Nat
  /\ ready \subseteq Shards
  /\ cursor \in 0..NumShards

Init ==
  /\ step = [s \in Shards |-> 0]
  /\ pending = [s \in Shards |-> <<>>]
  /\ minerStep = [s \in Shards |-> [m \in Miners |-> 0]]
  /\ rounds = [s \in Shards |-> <<>>]
  /\ globalStep = 0
  /\ ready = {}
  /\ cursor = NumShards
-----------------------------------------------------------------------------
Idle == cursor = NumShards

Distance(a, b) == IF a < b THEN b - a ELSE a - b

\* How far the sender's last accepted step is from the shard's, either way.
Staleness(s, m) == Distance(minerStep[s][m], step[s])

IsOwnRange(s, g) == g.first = LayerStart(s) /\ g.last = LayerEnd(s)

\* The shards whose range holds the gradient's start: one at most.
Home(g) == {s \in Shards : LayerStart(s) <= g.first /\ g.first < LayerEnd(s)}

\* route_gradient tries the home shard, then every shard in turn.
Tries(g) ==
  LET all == [i \in 1..NumShards |-> i - 1]
  IN  IF Home(g) = {} THEN all ELSE <<CHOOSE s \in Home(g) : TRUE>> \o all

\* What is left of the gradient's layers after it was shown to these shards.
\* receive_gradient drops the layers of other shards from a gradient whose range
\* is not its own, and overwrites the gradient: the next shard gets the rest.
Kept(g, shown) ==
  {l \in g.layers : \A s \in shown : IsOwnRange(s, g) \/ IsOurLayer(s, l)}

\* Mistake: the gradient is judged by the step it was computed at.
AcceptsByOwnStep(g, s, before) ==
  /\ Kept(g, before) = {} \/ Kept(g, before \cup {s}) # {}
  /\ Distance(g.local, step[s]) <= MaxStaleness

\* Refused when nothing is left of what it carried, which a gradient that came
\* with nothing passes; and when its sender's last step is too far away.
Accepts(g, s, before) ==
  /\ Kept(g, before) = {} \/ Kept(g, before \cup {s}) # {}
  /\ Staleness(s, g.miner) <= MaxStaleness

\* The part of receive_gradient after its checks.
Receive(s, g) ==
  /\ pending' = [pending EXCEPT ![s] = Append(@, g)]
  /\ minerStep' = [minerStep EXCEPT ![s][g.miner] = g.local]
  /\ UNCHANGED <<step, rounds, globalStep, ready, cursor>>

\* The first shard tried that accepts the gradient gets it.
RouteGradient(g) ==
  /\ Idle
  /\ LET tries == Tries(g)
         Before(k) == {tries[j] : j \in 1..(k - 1)}
     IN  \E k \in 1..Len(tries) :
           /\ Len(pending[tries[k]]) < MaxPending
           /\ Accepts(g, tries[k], Before(k))
           /\ \A j \in 1..(k - 1) : ~Accepts(g, tries[j], Before(j))
           /\ Receive(tries[k], [g EXCEPT !.layers = Kept(g, Before(k + 1))])
-----------------------------------------------------------------------------
\* Mistake: the first round of a step is the one completed.
CommitFirst(r) ==
  LET open == {i \in DOMAIN r : r[i].status = "waiting_consensus"}
  IN  IF r = <<>> THEN r ELSE [r EXCEPT ![Min(open)].status = "committed"]

\* commit_step completes the last round only.
CommitLast(r) ==
  IF r = <<>> THEN r ELSE [r EXCEPT ![Len(r)].status = "committed"]

\* Mistake: the flags stay up after the commit.
CommitKeepingFlags(held) ==
  /\ step' = [t \in Shards |-> step[t] + 1]
  /\ rounds' = [t \in Shards |-> CommitLast(held[t])]
  /\ globalStep' = globalStep + 1
  /\ ready' = Shards

\* _commit_global_step, over the rounds the shards now hold.
CommitGlobalStep(held) ==
  /\ step' = [t \in Shards |-> step[t] + 1]
  /\ rounds' = [t \in Shards |-> CommitLast(held[t])]
  /\ globalStep' = globalStep + 1
  /\ ready' = {}

\* Mistake: shards are numbered from one.
ReportFromOne(s, held) ==
  /\ ready' = ready \cup {s + 1}
  /\ rounds' = held
  /\ UNCHANGED <<step, globalStep>>

\* report_shard_aggregated
ReportShardAggregated(s, held) ==
  IF ready \cup {s} = Shards THEN CommitGlobalStep(held)
  ELSE /\ ready' = ready \cup {s}
       /\ rounds' = held
       /\ UNCHANGED <<step, globalStep>>

\* aggregate: what is pending becomes one round, which waits for the others.
AggregateShard(s) ==
  /\ pending' = [pending EXCEPT ![s] = <<>>]
  /\ ReportShardAggregated(s,
       [rounds EXCEPT ![s] = Append(@, [step |-> step[s],
                                        status |-> "waiting_consensus"])])
  /\ UNCHANGED minerStep

\* try_aggregate_all, shard by shard.
BeginPass ==
  /\ Idle
  /\ \A s \in Shards : Len(rounds[s]) < MaxRounds
  /\ \E s \in Shards : pending[s] # <<>>
  /\ cursor' = 0
  /\ UNCHANGED <<step, pending, minerStep, rounds, globalStep, ready>>

PassShard(s) ==
  /\ cursor = s
  /\ cursor' = s + 1
  /\ IF pending[s] # <<>> THEN AggregateShard(s)
     ELSE UNCHANGED <<step, pending, minerStep, rounds, globalStep, ready>>

\* What miners send: the range of one shard, or of the whole model.
Submission ==
  {[miner |-> m, first |-> range[1], last |-> range[2], layers |-> L, local |-> n] :
     m \in Miners, n \in 0..MaxLocal, L \in Payloads,
     range \in {<<LayerStart(s), LayerEnd(s)>> : s \in Shards} \cup {<<0, NumLayers>>}}

Next ==
  \/ \E g \in Submission : RouteGradient(g)
  \/ BeginPass
  \/ \E s \in Shards : PassShard(s)

Spec == Init /\ [][Next]_shardedVars
-----------------------------------------------------------------------------
\* All shards are at the step of the aggregator, and move together once each
\* has aggregated: the step barrier is implemented, whatever the passes find
\* pending and wherever in a pass the last shard reports.
Barrier == INSTANCE StepBarrier WITH
  Parties <- Shards, at <- step, arrived <- ready

ImplementsBarrier == Barrier!BarrierSpec

Lockstep == \A s \in Shards : step[s] = globalStep

\* A step a shard has left behind was committed with exactly one of its rounds,
\* the last one of that step; no round of a later step is committed.  A shard
\* that aggregates twice before the others leaves its first round waiting.
LastOfStep(s, i) ==
  \A j \in DOMAIN rounds[s] : rounds[s][j].step = rounds[s][i].step => j <= i

OneRoundPerStep ==
  \A s \in Shards :
    /\ \A n \in 0..(step[s] - 1) : \E i \in DOMAIN rounds[s] : rounds[s][i].step = n
    /\ \A i \in DOMAIN rounds[s] :
         rounds[s][i].status = "committed"
           <=> rounds[s][i].step < step[s] /\ LastOfStep(s, i)

\* A miner that has fallen behind a shard by more than MAX_STALENESS is never
\* let in again: only an accepted gradient moves its step.  A miner that sends
\* its first gradient after that many steps counts as being at step 0.
LockedOut(s, m) == minerStep[s][m] + MaxStaleness < step[s]

LockoutIsFinal ==
  [][\A s \in Shards, m \in Miners : LockedOut(s, m) => LockedOut(s, m)']_shardedVars
=============================================================================
