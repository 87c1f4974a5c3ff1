------------------------ MODULE ShardedServerProofs ------------------------
(***************************************************************************)
(* Proofs about ShardedServer: the shards move in lockstep, each step of a *)
(* shard is committed with one round, the step barrier is implemented, and *)
(* a miner that is locked out stays so, for any number of shards, layers   *)
(* and miners.                                                             *)
(***************************************************************************)
EXTENDS ShardedServer, TLAPS

\* What the rounds r of a shard at step n are: one at least of every step before,
\* none of a later one, and of each step before the last one committed.
RoundsInv(r, n) ==
  /\ \A k \in 0..(n - 1) : \E i \in DOMAIN r : r[i].step = k
  /\ \A i \in DOMAIN r : r[i].step <= n
  /\ \A i \in DOMAIN r :
       r[i].status = "committed"
         <=> r[i].step < n /\ \A j \in DOMAIN r : r[j].step = r[i].step => j <= i

\* The last round is of the step the shard is at.
HasRound(r, n) == r # <<>> /\ r[Len(r)].step = n

IInv ==
  /\ TypeOK
  /\ \A s \in Shards : RoundsInv(rounds[s], step[s])
  /\ \A s \in ready : HasRound(rounds[s], step[s])
  /\ Lockstep
-----------------------------------------------------------------------------
Waiting(n) == [step |-> n, status |-> "waiting_consensus"]

\* A new round of the present step.
LEMMA AppendRound ==
  ASSUME NEW n \in Nat, NEW r \in Seq(Round), RoundsInv(r, n)
  PROVE  /\ Append(r, Waiting(n)) \in Seq(Round)
         /\ RoundsInv(Append(r, Waiting(n)), n)
         /\ HasRound(Append(r, Waiting(n)), n)
<1> DEFINE q == Append(r, Waiting(n))
<1>1. Waiting(n) \in Round
  BY DEF Waiting, Round
<1>2. /\ q \in Seq(Round)
      /\ Len(q) = Len(r) + 1
      /\ DOMAIN q = 1..(Len(r) + 1)
      /\ DOMAIN r = 1..Len(r)
      /\ Len(r) \in Nat
      /\ \A i \in 1..Len(r) : q[i] = r[i]
      /\ q[Len(r) + 1] = Waiting(n)
  BY <1>1
<1>3. HasRound(q, n)
  BY <1>2 DEF HasRound, Waiting
<1>4. \A k \in 0..(n - 1) : \E i \in DOMAIN q : q[i].step = k
  BY <1>2 DEF RoundsInv
<1>5. \A i \in DOMAIN q : q[i].step <= n
  BY <1>2 DEF RoundsInv, Waiting
<1>6. ASSUME NEW i \in DOMAIN q
      PROVE  q[i].status = "committed"
               <=> q[i].step < n /\ \A j \in DOMAIN q : q[j].step = q[i].step => j <= i
  <2>1. CASE i = Len(r) + 1
    BY <2>1, <1>2 DEF Waiting
  <2>2. CASE i \in 1..Len(r)
    <3>1. q[i].step < n =>
            ((\A j \in DOMAIN q : q[j].step = q[i].step => j <= i)
               <=> (\A j \in DOMAIN r : r[j].step = r[i].step => j <= i))
      BY <2>2, <1>2 DEF Waiting
    <3> QED
      BY <3>1, <2>2, <1>2 DEF RoundsInv
  <2> QED
    BY <2>1, <2>2, <1>2
<1> QED
  BY <1>2, <1>3, <1>4, <1>5, <1>6 DEF RoundsInv

\* The commit of the present step completes the last round.
LEMMA CommitRound ==
  ASSUME NEW n \in Nat, NEW r \in Seq(Round), RoundsInv(r, n), HasRound(r, n)
  PROVE  /\ CommitLast(r) \in Seq(Round)
         /\ RoundsInv(CommitLast(r), n + 1)
<1> DEFINE q == CommitLast(r)
           last == Len(r)
<1>1. last \in Nat \ {0} /\ DOMAIN r = 1..last
  BY DEF HasRound
<1>2. r[last].step = n /\ r[last] \in Round
  BY <1>1 DEF HasRound
<1>3. q = [r EXCEPT ![last].status = "committed"]
  BY DEF CommitLast, HasRound
<1>4. /\ DOMAIN q = 1..last
      /\ \A i \in 1..last : i # last => q[i] = r[i]
      /\ q[last] = [r[last] EXCEPT !.status = "committed"]
  BY <1>1, <1>3
<1>5. q[last] \in Round /\ q[last].step = n /\ q[last].status = "committed"
  BY <1>2, <1>4 DEF Round
<1>6. q \in Seq(Round)
  <2>1. \A i \in 1..last : q[i] \in Round
    BY <1>1, <1>4, <1>5
  <2>2. q = [i \in 1..last |-> q[i]]
    BY <1>1, <1>3
  <2> QED
    BY <1>1, <2>1, <2>2
<1>7. /\ \A i \in 1..last : q[i].step = r[i].step /\ r[i].step \in Nat /\ r[i].step <= n
      /\ \A k \in 0..(n - 1) : \E i \in 1..last : r[i].step = k
      /\ \A i \in 1..last :
           r[i].status = "committed"
             <=> r[i].step < n /\ \A j \in 1..last : r[j].step = r[i].step => j <= i
  <2>1. \A i \in 1..last : r[i] \in Round
    BY <1>1
  <2>2. \A i \in 1..last : r[i].step \in Nat
    BY <2>1 DEF Round
  <2> QED
    BY <2>2, <1>1, <1>2, <1>4, <1>5 DEF RoundsInv
<1> HIDE DEF q, last
<1>8. \A k \in 0..n : \E i \in 1..last : q[i].step = k
  <2> SUFFICES ASSUME NEW k \in 0..n
               PROVE  \E i \in 1..last : q[i].step = k
    OBVIOUS
  <2>1. CASE k = n
    <3>1. last \in 1..last
      BY <1>1
    <3> QED
      BY <2>1, <3>1, <1>5
  <2>2. CASE k \in 0..(n - 1)
    BY <2>2, <1>7
  <2> QED
    BY <2>1, <2>2
<1>9. \A i \in 1..last : q[i].step <= n
  BY <1>7
<1>10. ASSUME NEW i \in 1..last
       PROVE  q[i].status = "committed"
                <=> q[i].step < n + 1 /\ \A j \in 1..last : q[j].step = q[i].step => j <= i
  <2>1. CASE i = last
    BY <2>1, <1>1, <1>5
  <2>2. CASE i # last
    <3>1. q[i] = r[i] /\ i < last
      BY <2>2, <1>1, <1>4
    <3>2. CASE r[i].step = n
      <4>1. q[i].status # "committed"
        BY <3>1, <3>2, <1>7
      <4>2. q[last].step = q[i].step /\ last \in 1..last /\ ~(last <= i)
        BY <3>1, <3>2, <1>1, <1>5
      <4> QED
        BY <4>1, <4>2
    <3>3. CASE r[i].step < n
      <4>1. (\A j \in 1..last : q[j].step = q[i].step => j <= i)
              <=> (\A j \in 1..last : r[j].step = r[i].step => j <= i)
        BY <1>7
      <4>2. q[i].step < n + 1
        BY <1>7, <3>3
      <4> QED
        BY <4>1, <4>2, <3>1, <3>3, <1>7
    <3> QED
      BY <3>2, <3>3, <1>7
  <2> QED
    BY <2>1, <2>2
<1>11. RoundsInv(q, n + 1)
  <2>1. (n + 1) - 1 = n
    OBVIOUS
  <2>2. \A i \in DOMAIN q : q[i].step <= n + 1
    BY <1>4, <1>7
  <2> QED
    BY <2>1, <2>2, <1>4, <1>8, <1>10 DEF RoundsInv
<1> QED
  BY <1>6, <1>11 DEF q
-----------------------------------------------------------------------------
\* The even split stays within the layers.
LEMMA LayerBounds ==
  ASSUME NEW s \in 0..NumShards
  PROVE  LayerStart(s) \in 0..NumLayers
<1> DEFINE q == NumLayers \div NumShards
           e == NumLayers % NumShards
<1>1. q \in Nat /\ e \in 0..(NumShards - 1) /\ NumLayers = NumShards * q + e
  BY ShardedAssumption
<1> HIDE DEF q, e
<1>2. s \in Nat /\ NumShards \in Nat /\ NumShards - s \in Nat
  BY ShardedAssumption
<1>3. s * q \in Nat /\ (NumShards - s) * q \in Nat
  BY <1>1, <1>2
<1>4. NumShards * q = s * q + (NumShards - s) * q
  BY <1>1, <1>2
<1>5. LayerStart(s) = s * q + (IF s < e THEN s ELSE e)
  BY DEF LayerStart, q, e
<1>6. CASE s < e
  <2>1. NumLayers = s * q + (NumShards - s) * q + e
    BY <1>1, <1>4
  <2> QED
    BY <2>1, <1>1, <1>2, <1>3, <1>5, <1>6
<1>7. CASE ~(s < e)
  <2>1. NumLayers = s * q + (NumShards - s) * q + e
    BY <1>1, <1>4
  <2> QED
    BY <2>1, <1>1, <1>2, <1>3, <1>5, <1>7
<1> QED
  BY <1>6, <1>7

\* What miners send is a gradient.
LEMMA SubmissionType == Submission \subseteq Gradient
<1> SUFFICES ASSUME NEW g \in Submission
             PROVE  g \in Gradient
  OBVIOUS
<1>1. 0 \in 0..NumShards /\ 0 \in 0..NumLayers /\ NumLayers \in 0..NumLayers
  BY ShardedAssumption
<1>2. \A s \in Shards : LayerStart(s) \in 0..NumLayers /\ LayerEnd(s) \in 0..NumLayers
  <2> SUFFICES ASSUME NEW s \in Shards
               PROVE  LayerStart(s) \in 0..NumLayers /\ LayerStart(s + 1) \in 0..NumLayers
    BY DEF LayerEnd
  <2>1. s \in 0..NumShards /\ s + 1 \in 0..NumShards
    BY ShardedAssumption DEF Shards
  <2> QED
    BY <2>1, LayerBounds
<1>3. PICK m \in Miners, n \in 0..MaxLocal, L \in Payloads,
           range \in {<<LayerStart(s), LayerEnd(s)>> : s \in Shards} \cup {<<0, NumLayers>>} :
             g = [miner |-> m, first |-> range[1], last |-> range[2], layers |-> L, local |-> n]
  BY DEF Submission
<1>4. range[1] \in 0..NumLayers /\ range[2] \in 0..NumLayers
  BY <1>1, <1>2
<1> QED
  BY <1>3, <1>4, PayloadAssumption DEF Gradient

LEMMA TriesAreShards ==
  ASSUME NEW g \in Gradient
  PROVE  Tries(g) \in Seq(Shards)
<1> DEFINE all == [i \in 1..NumShards |-> i - 1]
<1>1. all \in Seq(Shards)
  <2>1. \A i \in 1..NumShards : i - 1 \in Shards
    BY ShardedAssumption DEF Shards
  <2> QED
    BY <2>1, ShardedAssumption
<1>2. CASE Home(g) = {}
  BY <1>1, <1>2 DEF Tries
<1>3. CASE Home(g) # {}
  <2>1. (CHOOSE s \in Home(g) : TRUE) \in Shards
    BY <1>3 DEF Home
  <2>2. <<CHOOSE s \in Home(g) : TRUE>> \in Seq(Shards)
    BY <2>1
  <2> QED
    BY <1>1, <1>3, <2>2 DEF Tries
<1> QED
  BY <1>2, <1>3

\* A gradient that is routed is received by one shard, which has not locked its
\* sender out.
LEMMA Routed ==
  ASSUME NEW g \in Submission, RouteGradient(g)
  PROVE  \E s \in Shards, h \in Gradient :
           /\ Receive(s, h)
           /\ h.miner = g.miner
           /\ Staleness(s, g.miner) <= MaxStaleness
<1>1. g \in Gradient
  BY SubmissionType
<1> DEFINE tries == Tries(g)
           Before(k) == {tries[j] : j \in 1..(k - 1)}
<1>2. PICK k \in 1..Len(tries) :
        /\ Accepts(g, tries[k], Before(k))
        /\ Receive(tries[k], [g EXCEPT !.layers = Kept(g, Before(k + 1))])
  BY DEF RouteGradient
<1>3. tries[k] \in Shards
  BY <1>1, TriesAreShards
<1> DEFINE h == [g EXCEPT !.layers = Kept(g, Before(k + 1))]
<1>4. h \in Gradient /\ h.miner = g.miner
  <2>1. Kept(g, Before(k + 1)) \in SUBSET Layers
    BY <1>1 DEF Kept, Gradient
  <2> QED
    BY <1>1, <2>1 DEF Gradient
<1>5. Staleness(tries[k], g.miner) <= MaxStaleness
  BY <1>2 DEF Accepts
<1> QED
  BY <1>2, <1>3, <1>4, <1>5
-----------------------------------------------------------------------------
LEMMA InitInv == Init => IInv
<1> SUFFICES ASSUME Init PROVE IInv
  OBVIOUS
<1>1. NumShards \in 0..NumShards /\ 0 \in 0..MaxLocal
  BY ShardedAssumption, PayloadAssumption
<1>2. TypeOK
  BY <1>1 DEF Init, TypeOK
<1>3. \A s \in Shards : RoundsInv(rounds[s], step[s])
  BY DEF Init, RoundsInv
<1>4. (\A s \in ready : HasRound(rounds[s], step[s])) /\ Lockstep
  BY DEF Init, Lockstep
<1> QED
  BY <1>2, <1>3, <1>4 DEF IInv

\* An accepted gradient touches neither rounds nor steps.
LEMMA ReceiveInv ==
  ASSUME IInv, NEW s \in Shards, NEW h \in Gradient, Receive(s, h)
  PROVE  IInv'
<1>1. TypeOK'
  <2>1. h.miner \in Miners /\ h.local \in 0..MaxLocal
    BY DEF Gradient
  <2>2. pending' \in [Shards -> Seq(Gradient)]
    <3>1. pending[s] \in Seq(Gradient)
      BY DEF IInv, TypeOK
    <3>2. Append(pending[s], h) \in Seq(Gradient)
      BY <3>1
    <3> QED
      BY <3>2 DEF IInv, TypeOK, Receive
  <2>3. minerStep' \in [Shards -> [Miners -> 0..MaxLocal]]
    BY <2>1 DEF IInv, TypeOK, Receive
  <2> QED
    BY <2>2, <2>3 DEF IInv, TypeOK, Receive
<1> QED
  BY <1>1 DEF IInv, Receive, Lockstep

\* The shards that hold a round after s has aggregated.
LEMMA HeldRounds ==
  ASSUME IInv, NEW s \in Shards, NEW held,
         held = [rounds EXCEPT ![s] = Append(@, Waiting(step[s]))]
  PROVE  /\ held \in [Shards -> Seq(Round)]
         /\ \A t \in Shards : RoundsInv(held[t], step[t])
         /\ \A t \in ready \cup {s} : HasRound(held[t], step[t])
<1>1. step[s] \in Nat /\ rounds[s] \in Seq(Round) /\ RoundsInv(rounds[s], step[s])
  BY DEF IInv, TypeOK
<1>2. /\ held[s] = Append(rounds[s], Waiting(step[s]))
      /\ \A t \in Shards : t # s => held[t] = rounds[t]
      /\ held = [t \in Shards |-> held[t]]
  BY DEF IInv, TypeOK
<1>3. /\ held[s] \in Seq(Round)
      /\ RoundsInv(held[s], step[s])
      /\ HasRound(held[s], step[s])
  BY <1>1, <1>2, AppendRound
<1>4. \A t \in Shards : held[t] \in Seq(Round)
  BY <1>2, <1>3 DEF IInv, TypeOK
<1>5. held \in [Shards -> Seq(Round)]
  BY <1>2, <1>4
<1>6. ready \subseteq Shards
  BY DEF IInv, TypeOK
<1> QED
  BY <1>2, <1>3, <1>5, <1>6 DEF IInv

\* The last shard to report moves all of them on; any other waits.
LEMMA ReportInv ==
  ASSUME IInv, NEW s \in Shards, AggregateShard(s)
  PROVE  /\ step' \in [Shards -> Nat] /\ rounds' \in [Shards -> Seq(Round)]
         /\ globalStep' \in Nat /\ ready' \subseteq Shards
         /\ \A t \in Shards : RoundsInv(rounds'[t], step'[t])
         /\ \A t \in ready' : HasRound(rounds'[t], step'[t])
         /\ Lockstep'
<1> DEFINE held == [rounds EXCEPT ![s] = Append(@, Waiting(step[s]))]
<1>1. ReportShardAggregated(s, held)
  BY DEF AggregateShard, Waiting
<1> HIDE DEF held
<1>2. /\ held \in [Shards -> Seq(Round)]
      /\ \A t \in Shards : RoundsInv(held[t], step[t])
      /\ \A t \in ready \cup {s} : HasRound(held[t], step[t])
  BY HeldRounds DEF held
<1>3. step \in [Shards -> Nat] /\ globalStep \in Nat /\ ready \subseteq Shards
  BY DEF IInv, TypeOK
<1>4. CASE ready \cup {s} = Shards
  <2>1. CommitGlobalStep(held)
    BY <1>1, <1>4 DEF ReportShardAggregated
  <2>2. \A t \in Shards : /\ CommitLast(held[t]) \in Seq(Round)
                          /\ RoundsInv(CommitLast(held[t]), step[t] + 1)
    BY <1>2, <1>3, <1>4, CommitRound
  <2>3. /\ step' = [t \in Shards |-> step[t] + 1]
        /\ rounds' = [t \in Shards |-> CommitLast(held[t])]
        /\ globalStep' = globalStep + 1
        /\ ready' = {}
    BY <2>1 DEF CommitGlobalStep
  <2>4. Lockstep'
    BY <1>3, <2>3 DEF IInv, Lockstep
  <2>5. step' \in [Shards -> Nat] /\ globalStep' \in Nat
    BY <1>3, <2>3
  <2> QED
    BY <2>2, <2>3, <2>4, <2>5
<1>5. CASE ready \cup {s} # Shards
  <2>1. ready' = ready \cup {s} /\ rounds' = held /\ UNCHANGED <<step, globalStep>>
    BY <1>1, <1>5 DEF ReportShardAggregated
  <2>2. Lockstep'
    BY <2>1 DEF IInv, Lockstep
  <2> QED
    BY <1>2, <1>3, <2>1, <2>2
<1> QED
  BY <1>4, <1>5

LEMMA PassShardInv ==
  ASSUME IInv, NEW s \in Shards, PassShard(s)
  PROVE  IInv'
<1>1. cursor' \in 0..NumShards
  BY ShardedAssumption DEF PassShard, Shards
<1>2. CASE pending[s] = <<>>
  BY <1>1, <1>2 DEF PassShard, IInv, TypeOK, Lockstep
<1>3. CASE pending[s] # <<>>
  <2>1. AggregateShard(s)
    BY <1>3 DEF PassShard
  <2>2. pending' \in [Shards -> Seq(Gradient)] /\ minerStep' = minerStep
    BY <2>1 DEF AggregateShard, IInv, TypeOK
  <2>3. TypeOK'
    BY <1>1, <2>1, <2>2, ReportInv DEF IInv, TypeOK
  <2> QED
    BY <2>1, <2>3, ReportInv DEF IInv
<1> QED
  BY <1>2, <1>3

LEMMA StepInv == IInv /\ [Next]_shardedVars => IInv'
<1> SUFFICES ASSUME IInv, [Next]_shardedVars PROVE IInv'
  OBVIOUS
<1>1. ASSUME NEW g \in Submission, RouteGradient(g) PROVE IInv'
  BY <1>1, Routed, ReceiveInv
<1>2. CASE BeginPass
  <2>1. 0 \in 0..NumShards
    BY ShardedAssumption
  <2> QED
    BY <1>2, <2>1 DEF BeginPass, IInv, TypeOK, Lockstep
<1>3. ASSUME NEW s \in Shards, PassShard(s) PROVE IInv'
  BY <1>3, PassShardInv
<1>4. CASE UNCHANGED shardedVars
  BY <1>4 DEF shardedVars, IInv, TypeOK, Lockstep
<1> QED
  BY <1>1, <1>2, <1>3, <1>4 DEF Next

\* The inductive invariant holds in every state of the sharded server.
THEOREM ShardedInvariant == Spec => []IInv
<1>1. Init => IInv
  BY InitInv
<1>2. IInv /\ [Next]_shardedVars => IInv'
  BY StepInv
<1> QED
  BY <1>1, <1>2, PTL DEF Spec

\* Every variable keeps its type (sharded_param_server.py keeps them in
\* untyped dicts and lists).
THEOREM ShardedTypes == Spec => []TypeOK
<1>1. IInv => TypeOK
  BY DEF IInv
<1> QED
  BY <1>1, ShardedInvariant, PTL

\* _commit_global_step keeps all shards at the step of the aggregator.
THEOREM ShardsInLockstep == Spec => []Lockstep
<1>1. IInv => Lockstep
  BY DEF IInv
<1> QED
  BY <1>1, ShardedInvariant, PTL

\* However often a shard aggregates before the others report, commit_step
\* completes one of its rounds per step, the last one of that step.
THEOREM StepsHaveOneRound == Spec => []OneRoundPerStep
<1>1. IInv => OneRoundPerStep
  BY DEF IInv, RoundsInv, OneRoundPerStep, LastOfStep
<1> QED
  BY <1>1, ShardedInvariant, PTL
-----------------------------------------------------------------------------
\* What a step does to the barrier.
LEMMA BarrierStep ==
  ASSUME IInv, [Next]_shardedVars
  PROVE  [Barrier!BarrierNext]_(Barrier!barrierVars)
<1>1. ASSUME NEW g \in Submission, RouteGradient(g)
      PROVE  UNCHANGED <<step, ready>>
  BY <1>1, Routed DEF Receive
<1>2. ASSUME BeginPass PROVE UNCHANGED <<step, ready>>
  BY <1>2 DEF BeginPass
<1>3. ASSUME NEW s \in Shards, PassShard(s)
      PROVE  Barrier!BarrierNext \/ UNCHANGED <<step, ready>>
  <2>1. CASE pending[s] = <<>>
    BY <1>3, <2>1 DEF PassShard
  <2>2. CASE pending[s] # <<>>
    <3>1. PICK held : ReportShardAggregated(s, held)
      BY <1>3, <2>2 DEF PassShard, AggregateShard
    <3>2. CASE ready \cup {s} = Shards
      <4>1. Barrier!Advance(s)
        BY <3>1, <3>2 DEF ReportShardAggregated, CommitGlobalStep, Barrier!Advance
      <4> QED
        BY <4>1 DEF Barrier!BarrierNext
    <3>3. CASE ready \cup {s} # Shards
      <4>1. Barrier!Arrive(s)
        BY <3>1, <3>3 DEF ReportShardAggregated, Barrier!Arrive
      <4> QED
        BY <4>1 DEF Barrier!BarrierNext
    <3> QED
      BY <3>2, <3>3
  <2> QED
    BY <2>1, <2>2
<1>4. ASSUME UNCHANGED shardedVars PROVE UNCHANGED <<step, ready>>
  BY <1>4 DEF shardedVars
<1> QED
  BY <1>1, <1>2, <1>3, <1>4 DEF Next, Barrier!barrierVars

\* Passes over the shards implement the step barrier, wherever in a pass the
\* last shard reports to report_shard_aggregated.
THEOREM ShardsImplementBarrier == Spec => ImplementsBarrier
<1>1. Init => Barrier!BarrierInit
  BY DEF Init, Barrier!BarrierInit
<1>2. IInv /\ [Next]_shardedVars => [Barrier!BarrierNext]_(Barrier!barrierVars)
  BY BarrierStep
<1> QED
  BY <1>1, <1>2, ShardedInvariant, PTL DEF Spec, ImplementsBarrier, Barrier!BarrierSpec
-----------------------------------------------------------------------------
\* A step keeps a locked out miner locked out: its gradients are refused, and
\* the steps of shards only grow.
LEMMA LockoutStep ==
  ASSUME IInv, [Next]_shardedVars, NEW s \in Shards, NEW m \in Miners, LockedOut(s, m)
  PROVE  LockedOut(s, m)'
<1>1. /\ step[s] \in Nat /\ minerStep[s][m] \in Nat /\ MaxStaleness \in Nat
      /\ step \in [Shards -> Nat]
      /\ minerStep \in [Shards -> [Miners -> 0..MaxLocal]]
  BY ShardedAssumption, PayloadAssumption DEF IInv, TypeOK
<1>2. ASSUME NEW g \in Submission, RouteGradient(g)
      PROVE  LockedOut(s, m)'
  <2>1. PICK t \in Shards, h \in Gradient :
          Receive(t, h) /\ h.miner = g.miner /\ Staleness(t, g.miner) <= MaxStaleness
    BY <1>2, Routed
  <2>2. ~(t = s /\ h.miner = m)
    BY <1>1, <2>1 DEF LockedOut, Staleness, Distance
  <2>3. minerStep'[s][m] = minerStep[s][m] /\ step' = step
    BY <1>1, <2>1, <2>2 DEF Receive
  <2> QED
    BY <2>3 DEF LockedOut
<1>3. ASSUME BeginPass PROVE LockedOut(s, m)'
  BY <1>3 DEF BeginPass, LockedOut
<1>4. ASSUME NEW t \in Shards, PassShard(t)
      PROVE  LockedOut(s, m)'
  <2>1. minerStep' = minerStep
    BY <1>4 DEF PassShard, AggregateShard
  <2>2. step'[s] = step[s] \/ step'[s] = step[s] + 1
    BY <1>4 DEF PassShard, AggregateShard, ReportShardAggregated, CommitGlobalStep
  <2> QED
    BY <1>1, <2>1, <2>2 DEF LockedOut
<1>5. ASSUME UNCHANGED shardedVars PROVE LockedOut(s, m)'
  BY <1>5 DEF shardedVars, LockedOut
<1> QED
  BY <1>2, <1>3, <1>4, <1>5 DEF Next

\* A miner more than MAX_STALENESS behind a shard is refused by
\* receive_gradient for ever.
THEOREM ShardLockoutIsFinal == Spec => LockoutIsFinal
<1>1. IInv /\ [Next]_shardedVars =>
        [\A s \in Shards, m \in Miners : LockedOut(s, m) => LockedOut(s, m)']_shardedVars
  BY LockoutStep
<1> QED
  BY <1>1, ShardedInvariant, PTL DEF Spec, LockoutIsFinal
=============================================================================
