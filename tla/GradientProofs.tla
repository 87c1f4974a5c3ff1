--------------------------- MODULE GradientProofs ---------------------------
(***************************************************************************)
(* Theorems about GradientFlow and TaskManager, for any number of miners   *)
(* and tasks and any staleness limit: the parameter server loses and       *)
(* repeats no gradient and merges none too late, the task queue loses and  *)
(* repeats no task and serves in order, whatever the handlers interleave.  *)
(***************************************************************************)
EXTENDS GradientFlow, Induction, FiniteSetTheorems, SequenceTheorems, TLAPS

TaskShape ==
  task \in [TaskIds -> [status : {"none", "pending", "assigned", "submitted",
                                  "verified", "rejected"},
                        miner : Miners \cup {NoMiner}]]

\* Identifiers are given out in order, so that the next one is new.
IdsInOrder ==
  /\ IsFiniteSet(pending \cup merged)
  /\ \A g \in pending \cup merged : g.id <= Received

GradientInv ==
  /\ TaskShape
  /\ ParamTypeOK
  /\ IdsInOrder
  /\ NobodyAhead
  /\ PendingAreFresh
  /\ NothingLost
  /\ SubmittedWasReceived

\* The program starts with no gradient and no task.
LEMMA InitInv == Init => GradientInv
<1> SUFFICES ASSUME Init PROVE GradientInv
  OBVIOUS
<1> USE MiningAssumption, ParamAssumption DEF Init, ParamInit, TaskInit
<1>1. TaskShape
  BY DEF TaskShape
<1>2. ParamTypeOK
  BY DEF ParamTypeOK, Unregistered
<1>3. pending \cup merged = {}
  OBVIOUS
<1>4. IdsInOrder
  BY <1>3, FS_EmptySet DEF IdsInOrder
<1>5. NobodyAhead /\ PendingAreFresh /\ SubmittedWasReceived
  BY DEF NobodyAhead, PendingAreFresh, SubmittedWasReceived, Unregistered
<1>6. NothingLost
  <2>1. \A m \in Miners : {g \in pending \cup merged : g.miner = m} = {}
    BY <1>3
  <2> QED
    BY <2>1, FS_EmptySet DEF NothingLost
<1> QED
  BY <1>1, <1>2, <1>4, <1>5, <1>6 DEF GradientInv
-----------------------------------------------------------------------------
\* What the invariants say of the parameter server alone.
ParamInv ==
  /\ ParamTypeOK
  /\ IdsInOrder
  /\ NobodyAhead
  /\ PendingAreFresh
  /\ NothingLost

\* A registration syncs the new miner with the present step.
LEMMA RegisterKeeps ==
  ASSUME ParamInv, NEW m \in Miners, RegisterMiner(m) PROVE ParamInv'
<1> USE DEF ParamInv, RegisterMiner
<1>1. ParamTypeOK' /\ NobodyAhead'
  BY DEF ParamTypeOK, NobodyAhead
<1>2. IdsInOrder' /\ NothingLost'
  BY DEF IdsInOrder, NothingLost, Received
<1>3. PendingAreFresh'
  BY DEF PendingAreFresh, Registered, Staleness, ParamTypeOK
<1> QED
  BY <1>1, <1>2, <1>3

\* A hash mismatch costs trust and nothing else.
LEMMA MismatchKeeps ==
  ASSUME ParamInv, NEW m \in Miners, HashMismatch(m) PROVE ParamInv'
<1>1. trust' \in [Miners -> 0..MaxTrust]
  BY ParamAssumption DEF ParamInv, ParamTypeOK, HashMismatch
<1> QED
  BY <1>1 DEF ParamInv, HashMismatch, ParamTypeOK, IdsInOrder, NobodyAhead, PendingAreFresh,
       NothingLost, Received, Registered, Staleness

\* An accepted gradient is new, fresh and counted once.
LEMMA ReceiveKeeps ==
  ASSUME ParamInv, NEW m \in Miners, NEW t \in TaskIds, NEW kind \in Kinds,
         ReceiveGradient(m, t, kind)
  PROVE  /\ ParamInv'
         /\ \E g \in pending' : g.task = t /\ g.miner = m
<1> DEFINE all == pending \cup merged
           new == [id |-> Received + 1, miner |-> m, task |-> t, kind |-> kind]
           By(S, n) == {g \in S : g.miner = n}
<1>1. /\ pending' = pending \cup {new} /\ merged' = merged
      /\ total' = [total EXCEPT ![m] = @ + 1]
      /\ UNCHANGED <<step, sync, trust>>
      /\ Accepts(m) /\ Received < MaxGradients
  BY DEF ReceiveGradient
<1>2. IsFiniteSet(all) /\ Received \in Nat /\ Received = Cardinality(all)
  BY FS_CardinalityType DEF ParamInv, IdsInOrder, Received
<1>3. new \in Gradient
  BY <1>1, <1>2, ParamAssumption DEF Gradient
<1>4. new \notin all
  <2>1. all \subseteq Gradient
    BY DEF ParamInv, ParamTypeOK
  <2>2. \A g \in all : g.id <= Received /\ g.id \in Nat
    BY <2>1, ParamAssumption DEF ParamInv, IdsInOrder, Gradient
  <2>3. ~(new.id <= Received)
    BY <1>2
  <2> QED
    BY <2>2, <2>3
<1> HIDE DEF new
<1>5. /\ (pending \cup merged)' = all \cup {new}
      /\ IsFiniteSet(all \cup {new})
      /\ Received' = Received + 1
  <2>1. pending' \cup merged' = all \cup {new}
    BY <1>1
  <2>2. IsFiniteSet(all \cup {new}) /\ Cardinality(all \cup {new}) = Cardinality(all) + 1
    BY <1>2, <1>4, FS_AddElement
  <2> QED
    BY <1>2, <2>1, <2>2 DEF Received
<1>6. ParamTypeOK'
  <2>1. total' \in [Miners -> Nat]
    BY <1>1 DEF ParamInv, ParamTypeOK
  <2> QED
    BY <1>1, <1>3, <2>1 DEF ParamInv, ParamTypeOK
<1>7. IdsInOrder'
  <2>1. new.id = Received + 1
    BY DEF new
  <2>2. \A g \in all : g.id <= Received /\ g.id \in Nat
    BY ParamAssumption DEF ParamInv, IdsInOrder, ParamTypeOK, Gradient
  <2> QED
    <3>1. \A g \in all \cup {new} : g.id <= Received + 1
      <4>1. \A r \in Nat, i \in Nat : i <= r => i <= r + 1
        OBVIOUS
      <4>2. \A g \in all : g.id <= Received + 1
        BY <1>2, <2>2, <4>1
      <4>3. new.id <= Received + 1
        BY <1>2, <2>1
      <4> QED
        BY <4>2, <4>3
    <3> QED
      BY <1>5, <3>1 DEF IdsInOrder
<1>8. NobodyAhead'
  BY <1>1 DEF ParamInv, NobodyAhead
<1>9. new.miner = m /\ new.task = t
  BY DEF new
<1>10. PendingAreFresh'
  BY <1>1, <1>9 DEF ParamInv, PendingAreFresh, Accepts, Registered, Staleness
<1>11. NothingLost'
  <2>1. pending' \cap merged' = {}
    BY <1>1, <1>4 DEF ParamInv, NothingLost
  <2>2. By(all \cup {new}, m) = By(all, m) \cup {new} /\ new \notin By(all, m)
    BY <1>4, <1>9
  <2>3. \A n \in Miners : n # m => By(all \cup {new}, n) = By(all, n)
    BY <1>9
  <2>4. IsFiniteSet(By(all, m))
    BY <1>2, FS_Subset
  <2>5. Cardinality(By(all \cup {new}, m)) = Cardinality(By(all, m)) + 1
    BY <2>2, <2>4, FS_AddElement
  <2>6. \A n \in Miners : total'[n] = Cardinality(By(all \cup {new}, n))
    <3>1. \A n \in Miners : total[n] = Cardinality(By(all, n))
      BY DEF ParamInv, NothingLost
    <3> HIDE DEF By
    <3>2. \A n \in Miners : total'[n] = IF n = m THEN total[n] + 1 ELSE total[n]
      BY <1>1 DEF ParamInv, ParamTypeOK
    <3> QED
      BY <2>3, <2>5, <3>1, <3>2
  <2> QED
    BY <1>5, <2>1, <2>6 DEF NothingLost
<1>12. \E g \in pending' : g.task = t /\ g.miner = m
  BY <1>1, <1>9
<1> QED
  BY <1>6, <1>7, <1>8, <1>10, <1>11, <1>12 DEF ParamInv

\* A round moves every pending gradient and syncs every miner that has one.
LEMMA AggregateKeeps ==
  ASSUME ParamInv, Aggregate
  PROVE  ParamInv' /\ pending' \cup merged' = pending \cup merged
<1>1. /\ step' = step + 1 /\ pending' = {} /\ merged' = merged \cup pending
      /\ UNCHANGED <<trust, total>>
      /\ sync' = [m \in Miners |-> IF \E g \in pending : g.miner = m THEN step + 1 ELSE sync[m]]
  BY DEF Aggregate
<1>2. pending' \cup merged' = pending \cup merged
  BY <1>1
<1>3. Received' = Received
  BY <1>2 DEF Received
<1>4. ParamTypeOK' /\ NobodyAhead'
  <2>1. step \in Nat /\ \A m \in Miners : sync[m] \in Nat \cup {Unregistered} /\ sync[m] <= step
    BY DEF ParamInv, ParamTypeOK, NobodyAhead
  <2>2. \A m \in Miners : /\ sync'[m] \in Nat \cup {Unregistered}
                          /\ sync'[m] <= step'
    BY <1>1, <2>1 DEF Unregistered
  <2>3. ParamTypeOK'
    BY <1>1, <2>1, <2>2 DEF ParamInv, ParamTypeOK
  <2> QED
    BY <2>2, <2>3 DEF NobodyAhead
<1>5. IdsInOrder'
  BY <1>2, <1>3 DEF ParamInv, IdsInOrder
<1>6. PendingAreFresh'
  BY <1>1 DEF PendingAreFresh
<1>7. NothingLost'
  <2>1. pending' \cap merged' = {}
    BY <1>1
  <2>2. \A m \in Miners : {g \in pending' \cup merged' : g.miner = m} =
                          {g \in pending \cup merged : g.miner = m}
    BY <1>2
  <2> QED
    BY <1>1, <2>1, <2>2 DEF ParamInv, NothingLost
<1> QED
  BY <1>2, <1>4, <1>5, <1>6, <1>7 DEF ParamInv
-----------------------------------------------------------------------------
\* The task manager's calls leave a submitted task alone, or make none.
LEMMA TaskCallKeeps ==
  ASSUME TaskShape, TaskCall
  PROVE  /\ TaskShape'
         /\ \A t \in TaskIds : task'[t].status = "submitted" => task'[t] = task[t]
<1>1. ASSUME NEW m \in Miners, GiveTask(m)
      PROVE  /\ TaskShape'
             /\ \A t \in TaskIds : task'[t].status = "submitted" => task'[t] = task[t]
  BY <1>1 DEF GiveTask, AfterExpiry, Pending, TaskShape
<1>2. ASSUME NEW m \in Miners, ReplenishAndGive(m)
      PROVE  /\ TaskShape'
             /\ \A t \in TaskIds : task'[t].status = "submitted" => task'[t] = task[t]
  BY <1>2 DEF ReplenishAndGive, AfterExpiry, Pending, TaskShape
<1>3. ASSUME NEW t \in TaskIds, DeadlinePasses(t)
      PROVE  UNCHANGED task
  BY <1>3 DEF DeadlinePasses
<1>4. ASSUME CreateTasks(1)
      PROVE  /\ TaskShape'
             /\ \A t \in TaskIds : task'[t].status = "submitted" => task'[t] = task[t]
  BY <1>4 DEF CreateTasks, Pending, TaskShape
<1> QED
  BY <1>1, <1>2, <1>3, <1>4 DEF TaskCall, AssignTask, TaskShape

\* Both handlers: the parameter server first, the task manager second.
LEMMA SubmitKeeps ==
  ASSUME GradientInv, NEW m \in Miners, NEW t \in TaskIds, NEW kind \in Kinds,
         ReceiveGradient(m, t, kind), Record(t, m)
  PROVE  GradientInv'
<1>1. ParamInv' /\ \E g \in pending' : g.task = t /\ g.miner = m
  BY ReceiveKeeps DEF GradientInv, ParamInv
<1>2. pending \subseteq pending' /\ merged' = merged
  BY DEF ReceiveGradient
<1>3. /\ TaskShape'
      /\ \A s \in TaskIds : task'[s].status = "submitted" =>
           task'[s] = task[s] \/ (s = t /\ task'[s].miner = m)
  <2>1. CASE Submittable(t, m)
    <3>1. task' = [task EXCEPT ![t].status = "submitted"] /\ task[t].miner = m
      BY <2>1 DEF Record, SubmitResult, Submittable
    <3> QED
      BY <3>1 DEF GradientInv, TaskShape
  <2>2. CASE ~Submittable(t, m)
    BY <2>2 DEF Record, taskVars, GradientInv, TaskShape
  <2> QED
    BY <2>1, <2>2
<1>4. SubmittedWasReceived'
  <2> SUFFICES ASSUME NEW s \in TaskIds, task'[s].status = "submitted"
               PROVE  \E g \in pending' \cup merged' : g.task = s /\ g.miner = task'[s].miner
    BY DEF SubmittedWasReceived
  <2>1. CASE task'[s] = task[s]
    BY <1>2, <2>1 DEF GradientInv, SubmittedWasReceived
  <2>2. CASE s = t /\ task'[s].miner = m
    BY <1>1, <2>2
  <2> QED
    BY <1>3, <2>1, <2>2
<1> QED
  BY <1>1, <1>3, <1>4 DEF GradientInv, ParamInv

\* Every step of the composition preserves the invariant.
LEMMA StepInv == GradientInv /\ [Next]_vars => GradientInv'
<1> SUFFICES ASSUME GradientInv, [Next]_vars PROVE GradientInv'
  OBVIOUS
<1>1. ParamInv
  BY DEF GradientInv, ParamInv
<1>2. ASSUME TaskCall PROVE GradientInv'
  <2>1. TaskShape' /\ \A t \in TaskIds : task'[t].status = "submitted" => task'[t] = task[t]
    BY <1>2, TaskCallKeeps DEF GradientInv
  <2>2. UNCHANGED <<step, sync, trust, total, pending, merged>>
    BY <1>2 DEF TaskCall, paramVars
  <2>3. ParamInv'
    BY <1>1, <2>2 DEF ParamInv, ParamTypeOK, IdsInOrder, NobodyAhead, PendingAreFresh,
                      NothingLost, Received, Registered, Staleness
  <2>4. SubmittedWasReceived'
    BY <2>1, <2>2 DEF GradientInv, SubmittedWasReceived
  <2> QED
    BY <2>1, <2>3, <2>4 DEF GradientInv, ParamInv
<1>3. ASSUME ParamInv', pending' \cup merged' = pending \cup merged, UNCHANGED task
      PROVE  GradientInv'
  <2>1. SubmittedWasReceived'
    BY <1>3 DEF GradientInv, SubmittedWasReceived
  <2> QED
    BY <1>3, <2>1 DEF GradientInv, ParamInv, TaskShape
<1>4. ASSUME Aggregate, UNCHANGED task PROVE GradientInv'
  BY <1>1, <1>3, <1>4, AggregateKeeps
<1>5. ASSUME UNCHANGED paramVars, UNCHANGED task PROVE GradientInv'
  <2>1. UNCHANGED <<step, sync, trust, total, pending, merged>>
    BY <1>5 DEF paramVars
  <2>2. ParamInv'
    BY <1>1, <2>1 DEF ParamInv, ParamTypeOK, IdsInOrder, NobodyAhead, PendingAreFresh,
                      NothingLost, Received, Registered, Staleness
  <2> QED
    BY <1>3, <1>5, <2>1, <2>2
<1>6. ASSUME ParamCall PROVE GradientInv'
  <2>1. UNCHANGED task
    BY <1>6 DEF ParamCall, taskVars
  <2>2. ASSUME NEW m \in Miners, RegisterMiner(m) PROVE GradientInv'
    BY <1>1, <1>3, <2>1, <2>2, RegisterKeeps DEF RegisterMiner
  <2>3. ASSUME NEW m \in Miners, HashMismatch(m) PROVE GradientInv'
    BY <1>1, <1>3, <2>1, <2>3, MismatchKeeps DEF HashMismatch
  <2> QED
    BY <1>4, <1>6, <2>1, <2>2, <2>3 DEF ParamCall
<1>7. ASSUME NEW m \in Miners, WsAcknowledged(m) \/ WsAckFails(m) PROVE GradientInv'
  <2>1. UNCHANGED task /\ (Aggregate \/ UNCHANGED paramVars)
    BY <1>7 DEF WsAcknowledged, WsAckFails, taskVars
  <2> QED
    BY <1>4, <1>5, <2>1
<1>8. ASSUME NEW m \in Miners, NEW t \in TaskIds, NEW kind \in Kinds,
             WsSubmit(m, t, kind) \/ RestSubmit(m, t, kind)
      PROVE  GradientInv'
  BY <1>8, SubmitKeeps DEF WsSubmit, RestSubmit
<1>9. CASE UNCHANGED vars
  BY <1>5, <1>9 DEF vars, taskVars
<1> QED
  BY <1>2, <1>6, <1>7, <1>8, <1>9 DEF Next

\* The inductive invariant of the gradient flow holds in every reachable state.
THEOREM GradientInvariant == Spec => []GradientInv
<1>1. Init => GradientInv
  BY InitInv
<1>2. GradientInv /\ [Next]_vars => GradientInv'
  BY StepInv
<1> QED
  BY <1>1, <1>2, PTL DEF Spec

\* What a miner is rewarded for is what is pending or merged in its name, once.
THEOREM GradientsAreConserved == Spec => []NothingLost
BY GradientInvariant, PTL DEF GradientInv

\* A gradient is merged within the staleness limit, however long it waited.
THEOREM MergedInTime == Spec => []PendingAreFresh
BY GradientInvariant, PTL DEF GradientInv

\* A submitted task has a gradient of its own miner behind it.
THEOREM SubmittedIsBacked == Spec => []SubmittedWasReceived
BY GradientInvariant, PTL DEF GradientInv

\* No step syncs a locked-out miner: it has no pending gradient to be merged.
LEMMA LockoutStep ==
  ASSUME GradientInv, [Next]_vars, NEW m \in Miners, Locked(m) PROVE Locked(m)'
<1>1. /\ step \in Nat /\ sync[m] \in Nat /\ sync[m] <= step /\ step - sync[m] > MaxStale
      /\ MaxStale \in Nat /\ Registered(m)
  BY ParamAssumption DEF GradientInv, ParamTypeOK, NobodyAhead, Locked, Registered, Staleness,
                         Unregistered
<1>2. (sync'[m] = sync[m] /\ step' \in {step, step + 1}) => Locked(m)'
  BY <1>1 DEF Locked, Registered, Staleness, Unregistered
<1>3. \A g \in pending : g.miner # m
  BY <1>1 DEF GradientInv, PendingAreFresh, Staleness
<1>4. ASSUME Aggregate PROVE sync'[m] = sync[m] /\ step' = step + 1
  BY <1>3, <1>4 DEF Aggregate
<1>5. ASSUME UNCHANGED <<step, sync>> PROVE sync'[m] = sync[m] /\ step' = step
  BY <1>5
<1>6. ASSUME NEW n \in Miners, RegisterMiner(n) PROVE sync'[m] = sync[m] /\ step' = step
  BY <1>1, <1>6 DEF RegisterMiner, Registered, GradientInv, ParamTypeOK
<1>7. Next => Aggregate \/ UNCHANGED <<step, sync>> \/ \E n \in Miners : RegisterMiner(n)
  BY DEF Next, TaskCall, ParamCall, WsSubmit, WsAcknowledged, WsAckFails, RestSubmit,
         ReceiveGradient, HashMismatch, paramVars
<1>8. UNCHANGED vars => UNCHANGED <<step, sync>>
  BY DEF vars, paramVars
<1> QED
  BY <1>2, <1>4, <1>5, <1>6, <1>7, <1>8

\* A miner that fell too far behind stays refused for ever.
THEOREM LockedOutForGood == Spec => LockoutIsFinal
<1>1. GradientInv /\ [Next]_vars => [\A m \in Miners : Locked(m) => Locked(m)']_paramVars
  BY LockoutStep
<1> QED
  BY <1>1, GradientInvariant, PTL DEF Spec, LockoutIsFinal
-----------------------------------------------------------------------------
(* The queue of tasks *)

QueueInv ==
  /\ TaskTypeOK
  /\ \A t \in TaskIds : t > made => task[t].status = "none"
  /\ QueueHoldsPending

LEMMA QueueInitInv == TaskInit => QueueInv
<1> SUFFICES ASSUME TaskInit PROVE QueueInv
  OBVIOUS
<1>1. queue = << >> /\ DOMAIN queue = {} /\ queue \in Seq(TaskIds)
  BY DEF TaskInit
<1>2. IsInjective(queue) /\ Range(queue) = {}
  BY <1>1 DEF IsInjective, Range
<1>3. TaskTypeOK
  BY <1>1, MiningAssumption DEF TaskInit, TaskTypeOK
<1> QED
  BY <1>2, <1>3 DEF TaskInit, QueueInv, QueueHoldsPending

\* Lists without repetition of different tasks, one behind the other.
LEMMA OneBehindTheOther ==
  ASSUME NEW S, NEW a \in Seq(S), NEW b \in Seq(S), IsInjective(a), IsInjective(b),
         Range(a) \cap Range(b) = {}
  PROVE  /\ a \o b \in Seq(S) /\ IsInjective(a \o b)
         /\ Range(a \o b) = Range(a) \cup Range(b)
<1> DEFINE q == a \o b
<1>1. /\ q \in Seq(S) /\ Len(q) = Len(a) + Len(b) /\ Len(a) \in Nat /\ Len(b) \in Nat
      /\ DOMAIN q = 1..Len(q) /\ DOMAIN a = 1..Len(a) /\ DOMAIN b = 1..Len(b)
  OBVIOUS
<1>2. /\ \A i \in 1..Len(a) : q[i] = a[i]
      /\ \A i \in 1..Len(b) : q[Len(a) + i] = b[i]
  OBVIOUS
<1> HIDE DEF q
<1>3. \A i \in DOMAIN q : i \in DOMAIN a \/ (i - Len(a) \in DOMAIN b /\ Len(a) + (i - Len(a)) = i)
  BY <1>1
<1>4. \A i \in DOMAIN q :
        IF i \in DOMAIN a THEN q[i] = a[i] ELSE i - Len(a) \in DOMAIN b /\ q[i] = b[i - Len(a)]
  BY <1>1, <1>2, <1>3
<1>5. Range(q) = Range(a) \cup Range(b)
  <2>1. Range(q) \subseteq Range(a) \cup Range(b)
    BY <1>4 DEF Range
  <2>2. Range(a) \subseteq Range(q)
    BY <1>1, <1>2 DEF Range
  <2>3. ASSUME NEW i \in DOMAIN b PROVE b[i] \in Range(q)
    <3>1. Len(a) + i \in DOMAIN q /\ q[Len(a) + i] = b[i]
      BY <1>1, <1>2
    <3> QED
      BY <3>1 DEF Range
  <2> QED
    BY <2>1, <2>2, <2>3 DEF Range
<1>6. IsInjective(q)
  <2> SUFFICES ASSUME NEW i \in DOMAIN q, NEW j \in DOMAIN q, q[i] = q[j] PROVE i = j
    BY DEF IsInjective
  <2>1. CASE i \in DOMAIN a /\ j \in DOMAIN a
    BY <1>4, <2>1 DEF IsInjective
  <2>2. CASE i \notin DOMAIN a /\ j \notin DOMAIN a
    <3>1. i - Len(a) = j - Len(a)
      BY <1>4, <2>2 DEF IsInjective
    <3> QED
      BY <1>1, <3>1
  <2>3. CASE i \in DOMAIN a /\ j \notin DOMAIN a
    BY <1>4, <2>3 DEF Range
  <2>4. CASE i \notin DOMAIN a /\ j \in DOMAIN a
    BY <1>4, <2>4 DEF Range
  <2> QED
    BY <2>1, <2>2, <2>3, <2>4
<1> QED
  BY <1>1, <1>5, <1>6 DEF q

\* The expired tasks, in the order in which they were created, each once.
LEMMA CreationOrder ==
  ASSUME NEW S, S \subseteq TaskIds
  PROVE  /\ InCreationOrder(S) \in Seq(TaskIds)
         /\ IsInjective(InCreationOrder(S)) /\ Range(InCreationOrder(S)) = S
<1> DEFINE q == InCreationOrder(S)
           n == Cardinality(S)
<1>1. IsFiniteSet(S) /\ S \subseteq Int /\ n \in Nat
  <2>1. IsFiniteSet(TaskIds)
    BY MiningAssumption, FS_Interval DEF TaskIds
  <2>2. IsFiniteSet(S)
    BY <2>1, FS_Subset
  <2>3. TaskIds \subseteq Int
    BY DEF TaskIds
  <2> QED
    BY <2>2, <2>3, FS_CardinalityType
<1>2. q \in [1..n -> S] /\ \A i, j \in DOMAIN q : i < j => q[i] < q[j]
  BY <1>1, Enumeration DEF InCreationOrder
<1> HIDE DEF q, n
<1>3. q \in Seq(TaskIds)
  <2>1. q \in [1..n -> TaskIds]
    BY <1>2
  <2> QED
    BY <1>1, <2>1
<1>4. IsInjective(q)
  <2> SUFFICES ASSUME NEW i \in 1..n, NEW j \in 1..n, q[i] = q[j] PROVE i = j
    BY <1>2 DEF IsInjective
  <2>1. q[i] \in Int /\ q[j] \in Int
    BY <1>1, <1>2
  <2>2. ~(i < j) /\ ~(j < i)
    BY <1>2, <2>1
  <2> QED
    BY <1>1, <2>2
<1>5. Range(q) = S
  <2>1. Range(q) \subseteq S
    BY <1>2 DEF Range
  <2>2. Cardinality(Range(q)) = n
    <3>1. IsFiniteSet(1..n) /\ Cardinality(1..n) = n
      BY <1>1, FS_Interval
    <3>2. IsFiniteSet(Range(q))
      BY <1>1, <2>1, FS_Subset
    <3>3. q \in Bijection(1..n, Range(q))
      BY <1>2, <1>4 DEF Range, Bijection, Injection, Surjection, IsInjective
    <3>4. Cardinality(1..n) = Cardinality(Range(q))
      BY <3>1, <3>2, <3>3, FS_Bijection DEF ExistsBijection
    <3> QED
      BY <3>1, <3>4
  <2> QED
    BY <1>1, <2>1, <2>2, FS_Subset DEF n
<1> QED
  BY <1>3, <1>4, <1>5 DEF q

\* A block of fresh tasks.
LEMMA FreshTasks ==
  ASSUME NEW lo \in Nat, NEW hi \in Nat, lo <= hi, hi <= MaxTasks
  PROVE  /\ Fresh(lo, hi) \in Seq(TaskIds) /\ IsInjective(Fresh(lo, hi))
         /\ Range(Fresh(lo, hi)) = (lo + 1)..hi
<1> DEFINE q == Fresh(lo, hi)
<1>1. /\ q = [i \in 1..(hi - lo) |-> lo + i] /\ hi - lo \in Nat
      /\ \A i \in 1..(hi - lo) : lo + i \in TaskIds
  BY MiningAssumption DEF Fresh, TaskIds
<1>2. q \in Seq(TaskIds) /\ IsInjective(q)
  BY <1>1 DEF IsInjective
<1>3. ASSUME NEW t \in (lo + 1)..hi PROVE t \in Range(q)
  <2>1. t - lo \in 1..(hi - lo) /\ lo + (t - lo) = t
    OBVIOUS
  <2> QED
    BY <1>1, <2>1 DEF Range
<1>4. Range(q) \subseteq (lo + 1)..hi
  BY <1>1 DEF Range
<1> HIDE DEF q
<1> QED
  BY <1>2, <1>3, <1>4 DEF q

\* After the expiry scan every pending task stands in the queue, once.
LEMMA ExpiryInv ==
  ASSUME QueueInv
  PROVE  /\ QueueAfterExpiry \in Seq(TaskIds) /\ IsInjective(QueueAfterExpiry)
         /\ AfterExpiry \in [TaskIds -> [status : {"none", "pending", "assigned", "submitted",
                                                   "verified", "rejected"},
                                         miner : Miners \cup {NoMiner}]]
         /\ \A t \in TaskIds :
              /\ AfterExpiry[t].status = "pending" => t \in Range(QueueAfterExpiry)
              /\ t \in Range(QueueAfterExpiry) => AfterExpiry[t].status \in {"pending", "rejected"}
              /\ t > made => AfterExpiry[t].status = "none"
<1> DEFINE back == InCreationOrder(Expired)
<1>1. queue \in Seq(TaskIds) /\ IsInjective(queue) /\ TaskShape
  BY DEF QueueInv, TaskTypeOK, QueueHoldsPending, TaskShape
<1>2. Expired \subseteq TaskIds /\ \A t \in Expired : task[t].status = "assigned"
  BY DEF QueueInv, TaskTypeOK, Expired
<1>3. back \in Seq(TaskIds) /\ IsInjective(back) /\ Range(back) = Expired
  BY <1>2, CreationOrder
<1>4. Range(queue) \cap Range(back) = {}
  BY <1>2, <1>3 DEF QueueInv, QueueHoldsPending
<1>5. /\ QueueAfterExpiry \in Seq(TaskIds) /\ IsInjective(QueueAfterExpiry)
      /\ Range(QueueAfterExpiry) = Range(queue) \cup Expired
  <2> HIDE DEF back
  <2> QED
    BY <1>1, <1>3, <1>4, OneBehindTheOther DEF QueueAfterExpiry, back
<1>6. \A t \in TaskIds : AfterExpiry[t] = IF t \in Expired THEN Pending ELSE task[t]
  BY DEF AfterExpiry
<1>7. Pending.status = "pending"
  BY DEF Pending
<1>8. AfterExpiry \in [TaskIds -> [status : {"none", "pending", "assigned", "submitted",
                                             "verified", "rejected"},
                                   miner : Miners \cup {NoMiner}]]
  BY <1>1 DEF AfterExpiry, Pending, TaskShape
<1> QED
  BY <1>2, <1>5, <1>6, <1>7, <1>8 DEF QueueInv, QueueHoldsPending

\* The task given is the first of those that wait.
LEMMA GivenTask ==
  ASSUME QueueInv, NEW m \in Miners, GiveTask(m)
  PROVE  \E i \in Assignable :
           /\ \A k \in Assignable : i <= k
           /\ task' = [AfterExpiry EXCEPT ![QueueAfterExpiry[i]] =
                         [status |-> "assigned", miner |-> m]]
           /\ queue' = SubSeq(QueueAfterExpiry, i + 1, Len(QueueAfterExpiry))
<1>1. QueueAfterExpiry \in Seq(TaskIds)
  BY ExpiryInv
<1>2. Assignable \subseteq Nat /\ Assignable # {}
  BY <1>1 DEF Assignable, GiveTask
<1>3. \E j \in Assignable : \A k \in Assignable : j <= k
  BY <1>2, LeastNat
<1> QED
  BY <1>3 DEF GiveTask

\* A task given is the oldest of those that wait: what stood before it did not.
LEMMA GiveTaskInv ==
  ASSUME QueueInv, NEW m \in Miners, GiveTask(m)
  PROVE  QueueInv'
<1>1. PICK q \in Seq(TaskIds) : q = QueueAfterExpiry
  BY ExpiryInv
<1>2. PICK after : after = AfterExpiry
  OBVIOUS
<1>3. /\ IsInjective(q)
      /\ after \in [TaskIds -> [status : {"none", "pending", "assigned", "submitted",
                                          "verified", "rejected"},
                                miner : Miners \cup {NoMiner}]]
      /\ \A t \in TaskIds :
           /\ after[t].status = "pending" => t \in Range(q)
           /\ t \in Range(q) => after[t].status \in {"pending", "rejected"}
           /\ t > made => after[t].status = "none"
  BY <1>1, <1>2, ExpiryInv
<1>4. DOMAIN q = 1..Len(q) /\ Len(q) \in Nat
  OBVIOUS
<1>5. Assignable = {j \in DOMAIN q : after[q[j]].status = "pending"} /\ Assignable # {}
  BY <1>1, <1>2 DEF GiveTask, Assignable
<1>6. PICK i \in Assignable :
        /\ \A k \in Assignable : i <= k
        /\ task' = [after EXCEPT ![q[i]] = [status |-> "assigned", miner |-> m]]
        /\ queue' = SubSeq(q, i + 1, Len(q))
  BY <1>1, <1>2, GivenTask
<1>7. /\ made' = made /\ late' \subseteq late
  BY DEF GiveTask
<1>8. i \in 1..Len(q) /\ q[i] \in TaskIds /\ after[q[i]].status = "pending"
  BY <1>4, <1>5
<1>9. /\ task' \in [TaskIds -> [status : {"none", "pending", "assigned", "submitted",
                                          "verified", "rejected"},
                                miner : Miners \cup {NoMiner}]]
      /\ task'[q[i]].status = "assigned"
      /\ \A t \in TaskIds \ {q[i]} : task'[t] = after[t]
  BY <1>3, <1>6, <1>8
<1>10. /\ queue' \in Seq(TaskIds) /\ Len(queue') = Len(q) - i
       /\ DOMAIN queue' = 1..(Len(q) - i)
       /\ \A j \in 1..(Len(q) - i) : queue'[j] = q[i + j]
  <2> DEFINE a == i + 1
             n == Len(q)
  <2>1. a \in Int /\ n \in Int /\ n - a + 1 = Len(q) - i /\ i \in Int /\ i <= n
    BY <1>4, <1>8
  <2>2. \A k \in a..n : q[k] \in TaskIds
    BY <1>4, <1>8
  <2>3. queue' = SubSeq(q, a, n)
    BY <1>6
  <2>4. \A j \in 1..(n - a + 1) : a + j - 1 = i + j
    BY <1>4, <1>8
  <2>5. (a <= n /\ n - a + 1 = Len(q) - i) \/ (~(a <= n) /\ 0 = Len(q) - i)
    <3>1. PICK k \in Int, j \in Int : k = Len(q) /\ j = i /\ j <= k
      BY <2>1
    <3>2. (j + 1 <= k /\ k - (j + 1) + 1 = k - j) \/ (~(j + 1 <= k) /\ 0 = k - j)
      BY <3>1
    <3> QED
      BY <3>1, <3>2
  <2> HIDE DEF a, n
  <2>6. /\ queue' \in Seq(TaskIds)
        /\ Len(queue') = IF a <= n THEN n - a + 1 ELSE 0
        /\ \A j \in 1..(n - a + 1) : queue'[j] = q[a + j - 1]
    BY <2>1, <2>2, <2>3, SubSeqProperties
  <2>7. Len(queue') = Len(q) - i
    BY <2>5, <2>6
  <2>8. \A j \in 1..(Len(q) - i) : queue'[j] = q[i + j]
    <3> SUFFICES ASSUME NEW j \in 1..(Len(q) - i) PROVE queue'[j] = q[i + j]
      OBVIOUS
    <3>1. j \in 1..(n - a + 1)
      BY <2>1
    <3> QED
      BY <2>4, <2>6, <3>1
  <2> QED
    BY <2>6, <2>7, <2>8
<1>11. \A t \in Range(queue') : \E k \in DOMAIN q : k > i /\ t = q[k]
  <2> SUFFICES ASSUME NEW j \in DOMAIN queue'
               PROVE  \E k \in DOMAIN q : k > i /\ queue'[j] = q[k]
    BY DEF Range
  <2>1. i + j \in DOMAIN q /\ i + j > i
    BY <1>4, <1>8, <1>10
  <2> QED
    BY <1>10, <2>1
<1>12. \A k \in DOMAIN q : k > i => q[k] \in Range(queue')
  <2> SUFFICES ASSUME NEW k \in DOMAIN q, k > i PROVE q[k] \in Range(queue')
    OBVIOUS
  <2>1. k - i \in 1..(Len(q) - i) /\ i + (k - i) = k
    BY <1>4, <1>8
  <2> QED
    BY <1>10, <2>1 DEF Range
<1>13. IsInjective(queue')
  <2> SUFFICES ASSUME NEW j \in DOMAIN queue', NEW k \in DOMAIN queue', queue'[j] = queue'[k]
               PROVE  j = k
    BY DEF IsInjective
  <2>1. i + j \in DOMAIN q /\ i + k \in DOMAIN q /\ q[i + j] = q[i + k]
    BY <1>4, <1>8, <1>10
  <2>2. i + j = i + k
    BY <1>3, <2>1 DEF IsInjective
  <2> QED
    BY <1>8, <1>10, <2>2
<1>14. ASSUME NEW t \in TaskIds, task'[t].status = "pending" PROVE t \in Range(queue')
  <2>1. t # q[i] /\ after[t].status = "pending"
    BY <1>9, <1>14
  <2>2. PICK k \in DOMAIN q : q[k] = t
    BY <1>3, <2>1 DEF Range
  <2>3. k \in Assignable /\ k # i
    BY <1>5, <2>1, <2>2
  <2>4. k > i
    BY <1>4, <1>6, <1>8, <2>3
  <2> QED
    BY <1>12, <2>2, <2>4
<1>15. ASSUME NEW t \in TaskIds, t \in Range(queue')
       PROVE  task'[t].status \in {"pending", "rejected"}
  <2>1. PICK k \in DOMAIN q : k > i /\ t = q[k]
    BY <1>11, <1>15
  <2>2. t # q[i]
    BY <1>3, <1>4, <1>8, <2>1 DEF IsInjective
  <2>3. t \in Range(q)
    BY <2>1 DEF Range
  <2> QED
    BY <1>3, <1>9, <2>2, <2>3
<1>16. \A t \in TaskIds : t > made' => task'[t].status = "none"
  BY <1>3, <1>7, <1>8, <1>9
<1>17. TaskTypeOK'
  BY <1>7, <1>9, <1>10 DEF QueueInv, TaskTypeOK
<1> QED
  BY <1>13, <1>14, <1>15, <1>16, <1>17 DEF QueueInv, QueueHoldsPending

\* A refill, when nothing waits: the first task of the new epoch is given away, the
\* others are the queue.
LEMMA ReplenishInv ==
  ASSUME QueueInv, NEW m \in Miners, ReplenishAndGive(m)
  PROVE  QueueInv'
<1>1. PICK after : after = AfterExpiry
  OBVIOUS
<1>2. /\ after \in [TaskIds -> [status : {"none", "pending", "assigned", "submitted",
                                          "verified", "rejected"},
                                miner : Miners \cup {NoMiner}]]
      /\ \A t \in TaskIds : after[t].status # "pending"
      /\ \A t \in TaskIds : t > made => after[t].status = "none"
  <2>1. \A j \in DOMAIN QueueAfterExpiry : after[QueueAfterExpiry[j]].status # "pending"
    BY <1>1 DEF ReplenishAndGive, Assignable
  <2>2. \A t \in Range(QueueAfterExpiry) : after[t].status # "pending"
    BY <2>1 DEF Range
  <2> QED
    BY <1>1, <2>2, ExpiryInv
<1>3. /\ made \in Nat /\ Batch \in Nat \ {0} /\ MaxTasks \in Nat
      /\ made + Batch <= MaxTasks /\ made' = made + Batch
      /\ task' = [t \in TaskIds |->
           IF t = made + 1 THEN [status |-> "assigned", miner |-> m]
           ELSE IF t \in (made + 1)..(made + Batch) THEN Pending ELSE after[t]]
      /\ queue' = Fresh(made + 1, made + Batch)
      /\ late' \subseteq late
  BY <1>1, TaskAssumption, MiningAssumption DEF ReplenishAndGive, QueueInv, TaskTypeOK
<1>4. /\ queue' \in Seq(TaskIds) /\ IsInjective(queue')
      /\ Range(queue') = (made + 1 + 1)..(made + Batch)
  <2>1. /\ made + 1 \in Nat /\ made + Batch \in Nat
        /\ made + 1 <= made + Batch /\ made + Batch <= MaxTasks
    BY <1>3
  <2> QED
    BY <1>3, <2>1, FreshTasks
<1>5. /\ Pending.status = "pending"
      /\ Pending \in [status : {"none", "pending", "assigned", "submitted", "verified",
                                "rejected"}, miner : Miners \cup {NoMiner}]
  BY DEF Pending
<1>6. TaskTypeOK'
  <2>1. late' \subseteq TaskIds /\ made' \in 0..MaxTasks
    BY <1>3 DEF QueueInv, TaskTypeOK
  <2> QED
    BY <1>2, <1>3, <1>4, <1>5, <2>1 DEF TaskTypeOK
<1>7. \A t \in TaskIds : t \in Int
  BY DEF TaskIds
<1>8. ASSUME NEW t \in TaskIds
      PROVE  /\ t > made' => task'[t].status = "none"
             /\ task'[t].status = "pending" => t \in Range(queue')
             /\ t \in Range(queue') => task'[t].status = "pending"
  <2>1. CASE t = made + 1
    BY <1>3, <1>4, <1>7, <2>1
  <2>2. CASE t # made + 1 /\ t \in (made + 1)..(made + Batch)
    BY <1>3, <1>4, <1>5, <1>7, <2>2
  <2>3. CASE t \notin (made + 1)..(made + Batch)
    <3>1. task'[t] = after[t]
      BY <1>3, <1>7, <2>3
    <3>2. t > made' => t > made
      BY <1>3, <1>7
    <3>3. t \notin Range(queue')
      BY <1>3, <1>4, <1>7, <2>3
    <3> QED
      BY <1>2, <3>1, <3>2, <3>3
  <2> QED
    BY <2>1, <2>2, <2>3
<1> QED
  BY <1>4, <1>6, <1>8 DEF QueueInv, QueueHoldsPending

LEMMA CreateTaskInv ==
  ASSUME QueueInv, CreateTasks(1)
  PROVE  QueueInv'
<1>1. /\ made \in Nat /\ MaxTasks \in Nat /\ made + 1 <= MaxTasks /\ made' = made + 1
      /\ task' = [t \in TaskIds |-> IF t \in (made + 1)..(made + 1) THEN Pending ELSE task[t]]
      /\ queue' = queue \o Fresh(made, made + 1) /\ late' = late
  BY MiningAssumption DEF CreateTasks, QueueInv, TaskTypeOK
<1>2. PICK fresh \in Seq(TaskIds) :
        /\ fresh = Fresh(made, made + 1) /\ IsInjective(fresh)
        /\ Range(fresh) = {made + 1}
  <2>1. (made + 1)..(made + 1) = {made + 1}
    BY <1>1
  <2> QED
    BY <1>1, <2>1, FreshTasks
<1>3. made + 1 \in TaskIds /\ task[made + 1].status = "none"
  <2>1. made + 1 \in TaskIds /\ made + 1 > made
    BY <1>1 DEF TaskIds
  <2> QED
    BY <2>1 DEF QueueInv
<1>4. Range(queue) \cap Range(fresh) = {}
  BY <1>2, <1>3 DEF QueueInv, QueueHoldsPending
<1>5. /\ queue' \in Seq(TaskIds) /\ IsInjective(queue')
      /\ Range(queue') = Range(queue) \cup {made + 1}
  <2>1. queue \in Seq(TaskIds) /\ IsInjective(queue)
    BY DEF QueueInv, TaskTypeOK, QueueHoldsPending
  <2> QED
    BY <1>1, <1>2, <1>4, <2>1, OneBehindTheOther
<1>6. /\ Pending.status = "pending"
      /\ Pending \in [status : {"none", "pending", "assigned", "submitted", "verified",
                                "rejected"}, miner : Miners \cup {NoMiner}]
  BY DEF Pending
<1>7. \A t \in TaskIds : task'[t] = IF t = made + 1 THEN Pending ELSE task[t]
  BY <1>1 DEF TaskIds
<1>8. TaskTypeOK'
  <2>1. made' \in 0..MaxTasks /\ late' \subseteq TaskIds
    BY <1>1 DEF QueueInv, TaskTypeOK
  <2> QED
    BY <1>1, <1>5, <1>6, <2>1 DEF QueueInv, TaskTypeOK
<1>9. \A t \in TaskIds : t > made' => task'[t].status = "none"
  <2> SUFFICES ASSUME NEW t \in TaskIds, t > made' PROVE task'[t].status = "none"
    OBVIOUS
  <2>1. t > made /\ t # made + 1
    BY <1>1 DEF TaskIds
  <2> QED
    BY <1>7, <2>1 DEF QueueInv
<1> QED
  BY <1>5, <1>6, <1>7, <1>8, <1>9 DEF QueueInv, QueueHoldsPending

\* A task that does not wait gets another status.
LEMMA StatusInv ==
  ASSUME QueueInv, NEW t \in TaskIds, NEW status \in {"submitted", "verified", "rejected"},
         task[t].status # "none",
         task[t].status \in {"assigned", "submitted"} \/ status = "rejected",
         task' = [task EXCEPT ![t].status = status], UNCHANGED <<queue, made, late>>
  PROVE  QueueInv'
<1>1. TaskTypeOK /\ QueueHoldsPending
  BY DEF QueueInv
<1>2. /\ task'[t].status = status
      /\ \A s \in TaskIds \ {t} : task'[s] = task[s]
      /\ TaskTypeOK'
  BY <1>1 DEF TaskTypeOK
<1>3. status # "rejected" => t \notin Range(queue)
  BY <1>1 DEF QueueHoldsPending
<1>4. QueueHoldsPending'
  BY <1>1, <1>2, <1>3 DEF QueueHoldsPending
<1>5. \A s \in TaskIds : s > made => task'[s].status = "none"
  BY <1>2 DEF QueueInv
<1> QED
  BY <1>2, <1>4, <1>5 DEF QueueInv

LEMMA DeadlineInv ==
  ASSUME QueueInv, NEW t \in TaskIds, DeadlinePasses(t)
  PROVE  QueueInv'
BY DEF DeadlinePasses, QueueInv, TaskTypeOK, QueueHoldsPending

LEMMA SubmitInv ==
  ASSUME QueueInv, NEW t \in TaskIds, NEW m \in Miners, Submittable(t, m), SubmitResult(t)
  PROVE  QueueInv'
<1>1. task[t].status = "assigned"
  BY DEF Submittable
<1>2. task' = [task EXCEPT ![t].status = "submitted"] /\ UNCHANGED <<queue, made, late>>
  BY DEF SubmitResult
<1> QED
  BY <1>1, <1>2, StatusInv

LEMMA AssignTaskInv ==
  ASSUME QueueInv, NEW m \in Miners, AssignTask(m)
  PROVE  QueueInv'
BY GiveTaskInv, ReplenishInv DEF AssignTask

LEMMA QueueStillInv ==
  ASSUME QueueInv, UNCHANGED taskVars
  PROVE  QueueInv'
BY DEF taskVars, QueueInv, TaskTypeOK, QueueHoldsPending

LEMMA QueueStepInv == QueueInv /\ [TaskNext]_taskVars => QueueInv'
<1> SUFFICES ASSUME QueueInv, [TaskNext]_taskVars PROVE QueueInv'
  OBVIOUS
<1>1. ASSUME NEW t \in TaskIds, MarkVerified(t) PROVE QueueInv'
  BY <1>1, StatusInv DEF MarkVerified
<1>2. ASSUME NEW t \in TaskIds, MarkRejected(t) PROVE QueueInv'
  BY <1>2, StatusInv DEF MarkRejected
<1> QED
  BY <1>1, <1>2, AssignTaskInv, DeadlineInv, SubmitInv, CreateTaskInv, QueueStillInv DEF TaskNext

LEMMA QueueInvariant == TaskSpec => []QueueInv
<1> QED
  BY QueueInitInv, QueueStepInv, PTL DEF TaskSpec

\* assign_task, _expire_stale_tasks, _replenish_tasks: whatever expires, is refilled or
\* rejected, a pending task stands in the queue once, and no other that is worked on.
THEOREM PendingTasksAreQueued == TaskSpec => []QueueHoldsPending
BY QueueInvariant, PTL DEF QueueInv

\* A task that was handed in is never put back: the expiry scan passes it over.
THEOREM SubmittedWorkIsKept == TaskSpec => SubmittedWorkStands
<1>1. QueueInv /\ [TaskNext]_taskVars =>
        [\A t \in TaskIds : task[t].status \in {"submitted", "verified"}
           => task'[t].status \in {"submitted", "verified", "rejected"}]_taskVars
  <2> SUFFICES ASSUME QueueInv, TaskNext, NEW t \in TaskIds,
                      task[t].status \in {"submitted", "verified"}
               PROVE  task'[t].status \in {"submitted", "verified", "rejected"}
    OBVIOUS
  <2>1. task[t].status # "assigned" /\ task[t].status # "pending" /\ t <= made
    <3>1. t \in Int /\ made \in Int /\ (t > made => task[t].status = "none")
      BY DEF QueueInv, TaskTypeOK, TaskIds
    <3> QED
      BY <3>1
  <2>2. AfterExpiry[t] = task[t] /\ TaskShape
    BY <2>1 DEF Expired, AfterExpiry, QueueInv, TaskTypeOK, TaskShape
  <2>3. ASSUME NEW m \in Miners, GiveTask(m) PROVE task'[t] = task[t]
    <3>1. PICK i \in Assignable :
            task' = [AfterExpiry EXCEPT ![QueueAfterExpiry[i]] =
                       [status |-> "assigned", miner |-> m]]
      BY <2>3, GivenTask
    <3>2. QueueAfterExpiry[i] # t
      BY <2>1, <2>2 DEF Assignable
    <3> QED
      BY <2>2, <3>1, <3>2 DEF AfterExpiry
  <2>4. ASSUME NEW m \in Miners, ReplenishAndGive(m) PROVE task'[t] = task[t]
    <3>1. t \in Int /\ made \in Int /\ Batch \in Int
      BY TaskAssumption DEF QueueInv, TaskTypeOK, TaskIds
    <3>2. t # made + 1 /\ t \notin (made + 1)..(made + Batch)
      BY <2>1, <3>1
    <3> QED
      BY <2>2, <2>4, <3>2 DEF ReplenishAndGive
  <2>5. ASSUME CreateTasks(1) PROVE task'[t] = task[t]
    <3>1. t \in Int /\ made \in Int
      BY DEF QueueInv, TaskTypeOK, TaskIds
    <3>2. t \notin (made + 1)..(made + 1)
      BY <2>1, <3>1
    <3> QED
      BY <2>5, <3>2 DEF CreateTasks
  <2>6. ASSUME NEW s \in TaskIds, DeadlinePasses(s) PROVE task'[t] = task[t]
    BY <2>6 DEF DeadlinePasses
  <2>7. ASSUME NEW s \in TaskIds, NEW status \in {"submitted", "verified", "rejected"},
               task' = [task EXCEPT ![s].status = status],
               s = t => status # "submitted"
        PROVE  task'[t].status \in {"submitted", "verified", "rejected"}
    BY <2>2, <2>7 DEF TaskShape
  <2>8. ASSUME NEW s \in TaskIds, NEW m \in Miners, Submittable(s, m), SubmitResult(s)
        PROVE  task'[t].status \in {"submitted", "verified", "rejected"}
    <3>1. task[s].status = "assigned"
      BY <2>8 DEF Submittable
    <3> QED
      BY <2>1, <2>7, <2>8, <3>1 DEF SubmitResult
  <2>9. ASSUME NEW s \in TaskIds, MarkVerified(s) \/ MarkRejected(s)
        PROVE  task'[t].status \in {"submitted", "verified", "rejected"}
    BY <2>7, <2>9 DEF MarkVerified, MarkRejected
  <2> QED
    BY <2>3, <2>4, <2>5, <2>6, <2>8, <2>9 DEF TaskNext, AssignTask
<1> QED
  BY <1>1, QueueInvariant, PTL DEF TaskSpec, SubmittedWorkStands
\* What is put behind t does not come before it.
LEMMA AheadOfAppended ==
  ASSUME NEW S, NEW a \in Seq(S), NEW b \in Seq(S), IsInjective(a \o b), NEW t \in Range(a)
  PROVE  Ahead(a \o b, t) \subseteq Ahead(a, t)
<1> DEFINE q == a \o b
<1>1. /\ q \in Seq(S) /\ Len(q) = Len(a) + Len(b) /\ Len(a) \in Nat /\ Len(b) \in Nat
      /\ DOMAIN q = 1..Len(q) /\ DOMAIN a = 1..Len(a)
      /\ \A i \in DOMAIN a : q[i] = a[i]
  OBVIOUS
<1>2. PICK k \in DOMAIN a : a[k] = t
  BY DEF Range
<1> SUFFICES ASSUME NEW i \in DOMAIN q, NEW j \in DOMAIN q, i < j, q[j] = t
             PROVE  q[i] \in Ahead(a, t)
  BY DEF Ahead
<1> HIDE DEF q
<1>3. k \in DOMAIN q /\ q[k] = t
  BY <1>1, <1>2
<1>4. j = k
  <2>1. IsInjective(q)
    BY DEF q
  <2> QED
    BY <1>3, <2>1 DEF IsInjective
<1>5. i \in DOMAIN a /\ q[i] = a[i]
  BY <1>1, <1>4
<1> QED
  BY <1>2, <1>4, <1>5 DEF Ahead

\* When the i-th of q is given away, and those before it thrown away, it no longer
\* stands before those behind it.
LEMMA AheadOfRest ==
  ASSUME NEW S, NEW q \in Seq(S), IsInjective(q), NEW i \in DOMAIN q, NEW k \in DOMAIN q, i < k
  PROVE  LET rest == SubSeq(q, i + 1, Len(q))
         IN  /\ Ahead(rest, q[k]) \subseteq Ahead(q, q[k])
             /\ q[i] \in Ahead(q, q[k]) \ Ahead(rest, q[k])
<1> DEFINE rest == SubSeq(q, i + 1, Len(q))
<1>1. /\ DOMAIN q = 1..Len(q) /\ Len(q) \in Nat /\ i \in Nat /\ k \in Nat /\ i + 1 <= Len(q)
  OBVIOUS
<1>2. /\ DOMAIN rest = 1..(Len(q) - i)
      /\ \A j \in DOMAIN rest : rest[j] = q[i + j] /\ i + j \in DOMAIN q /\ i + j > i
  <2>1. \A j \in (i + 1)..Len(q) : q[j] \in S
    BY <1>1
  <2>2. /\ rest \in Seq(S) /\ Len(rest) = Len(q) - (i + 1) + 1
        /\ \A j \in 1..(Len(q) - (i + 1) + 1) : rest[j] = q[(i + 1) + j - 1]
    <3>1. i + 1 \in Int /\ Len(q) \in Int /\ i + 1 <= Len(q)
      BY <1>1
    <3> QED
      BY <2>1, <3>1, SubSeqProperties
  <2>3. Len(q) - (i + 1) + 1 = Len(q) - i
    BY <1>1
  <2>4. DOMAIN rest = 1..(Len(q) - i)
    BY <2>2, <2>3
  <2> HIDE DEF rest
  <2>5. ASSUME NEW j \in DOMAIN rest
        PROVE  rest[j] = q[i + j] /\ i + j \in DOMAIN q /\ i + j > i
    <3>1. (i + 1) + j - 1 = i + j /\ i + j \in DOMAIN q /\ i + j > i
      BY <1>1, <2>4
    <3> QED
      BY <2>2, <2>3, <2>4, <3>1
  <2> QED
    BY <2>4, <2>5
<1>3. q[i] \in Ahead(q, q[k])
  BY DEF Ahead
<1> HIDE DEF rest
<1>4. ASSUME NEW a \in DOMAIN rest, NEW b \in DOMAIN rest, a < b, rest[b] = q[k]
      PROVE  rest[a] \in Ahead(q, q[k]) /\ rest[a] # q[i]
  <2>1. i + a \in DOMAIN q /\ i + b \in DOMAIN q /\ i + a < i + b /\ i + a # i
    BY <1>1, <1>2, <1>4
  <2>2. rest[a] = q[i + a] /\ q[i + b] = q[k]
    BY <1>2, <1>4
  <2> QED
    BY <2>1, <2>2 DEF Ahead, IsInjective
<1>5. Ahead(rest, q[k]) \subseteq Ahead(q, q[k]) /\ q[i] \notin Ahead(rest, q[k])
  BY <1>4 DEF Ahead
<1> QED
  BY <1>3, <1>5 DEF rest

LEMMA GiveInOrder ==
  ASSUME QueueInv, NEW m \in Miners, GiveTask(m), NEW t \in TaskIds,
         task[t].status = "pending", task'[t].status = "pending"
  PROVE  /\ Ahead(queue', t) \subseteq Ahead(queue, t)
         /\ \A u \in TaskIds : task'[u].status = "assigned" /\ task'[u] # task[u]
              => u \in Ahead(queue, t) \ Ahead(queue', t)
<1>1. PICK q \in Seq(TaskIds) : q = QueueAfterExpiry /\ IsInjective(q)
  BY ExpiryInv
<1>2. /\ AfterExpiry[t].status = "pending"
      /\ TaskShape /\ DOMAIN AfterExpiry = TaskIds
      /\ \A u \in TaskIds : AfterExpiry[u].status = "assigned" => AfterExpiry[u] = task[u]
  BY DEF QueueInv, TaskTypeOK, TaskShape, AfterExpiry, Expired, Pending
<1>3. PICK i \in Assignable :
        /\ \A k \in Assignable : i <= k
        /\ task' = [AfterExpiry EXCEPT ![q[i]] = [status |-> "assigned", miner |-> m]]
        /\ queue' = SubSeq(q, i + 1, Len(q))
  BY <1>1, GivenTask
<1>4. i \in DOMAIN q /\ q[i] \in TaskIds
  BY <1>1, <1>3 DEF Assignable
<1>5. PICK k \in DOMAIN q : q[k] = t
  BY <1>1, <1>2, ExpiryInv DEF Range
<1>6. k \in Assignable /\ k # i
  <2>1. k \in Assignable
    BY <1>1, <1>2, <1>5 DEF Assignable
  <2>2. task'[q[i]].status = "assigned"
    BY <1>2, <1>3, <1>4
  <2> QED
    BY <1>5, <2>1, <2>2
<1>7. i < k
  <2>1. i <= k /\ i \in Nat /\ k \in Nat
    BY <1>3, <1>4, <1>6
  <2> QED
    BY <1>6, <2>1
<1>8. Ahead(queue', t) \subseteq Ahead(q, t) /\ q[i] \in Ahead(q, t) \ Ahead(queue', t)
  BY <1>1, <1>3, <1>4, <1>5, <1>7, AheadOfRest
<1>9. Ahead(q, t) \subseteq Ahead(queue, t)
  <2> DEFINE back == InCreationOrder(Expired)
  <2>1. queue \in Seq(TaskIds) /\ t \in Range(queue) /\ Expired \subseteq TaskIds
    BY DEF QueueInv, TaskTypeOK, QueueHoldsPending, Expired
  <2>2. back \in Seq(TaskIds)
    BY <2>1, CreationOrder
  <2>3. q = queue \o back
    BY <1>1 DEF QueueAfterExpiry
  <2> HIDE DEF back
  <2> QED
    BY <1>1, <2>1, <2>2, <2>3, AheadOfAppended
<1>10. \A u \in TaskIds : task'[u].status = "assigned" /\ task'[u] # task[u] => u = q[i]
  BY <1>2, <1>3, <1>4
<1> QED
  BY <1>8, <1>9, <1>10

\* assign_task: the queue is first come, first served, through expiries, refills and
\* rejections; each task given away is one less before every task that still waits.
THEOREM TasksAreServedInOrder == TaskSpec => FirstComeFirstServed
<1> DEFINE InOrderStep ==
      \A t \in TaskIds : task[t].status = "pending" /\ task'[t].status = "pending" =>
        /\ Ahead(queue', t) \subseteq Ahead(queue, t)
        /\ \A u \in TaskIds : task'[u].status = "assigned" /\ task'[u] # task[u]
             => u \in Ahead(queue, t) \ Ahead(queue', t)
<1>1. QueueInv /\ [TaskNext]_taskVars => [InOrderStep]_taskVars
  <2> SUFFICES ASSUME QueueInv, TaskNext PROVE InOrderStep
    OBVIOUS
  <2>0. TaskShape
    BY DEF QueueInv, TaskTypeOK, TaskShape
  <2>1. ASSUME NEW m \in Miners, GiveTask(m) PROVE InOrderStep
    BY <2>1, GiveInOrder
  <2>2. ASSUME NEW m \in Miners, ReplenishAndGive(m) PROVE InOrderStep
    <3> SUFFICES ASSUME NEW t \in TaskIds, task[t].status = "pending" PROVE FALSE
      OBVIOUS
    <3>1. AfterExpiry[t].status = "pending"
      BY DEF AfterExpiry, Pending
    <3>2. PICK k \in DOMAIN QueueAfterExpiry : QueueAfterExpiry[k] = t
      BY <3>1, ExpiryInv DEF Range
    <3> QED
      BY <2>2, <3>1, <3>2 DEF ReplenishAndGive, Assignable
  <2>3. CASE CreateTasks(1)
    <3>1. \A t \in TaskIds : task'[t].status = "assigned" => task'[t] = task[t]
      BY <2>3 DEF CreateTasks, Pending
    <3>2. queue \in Seq(TaskIds) /\ queue' = queue \o Fresh(made, made + 1)
      BY <2>3 DEF CreateTasks, QueueInv, TaskTypeOK
    <3>3. Fresh(made, made + 1) \in Seq(TaskIds)
      <4>1. made \in Nat /\ made + 1 \in Nat /\ made <= made + 1 /\ made + 1 <= MaxTasks
        BY <2>3 DEF CreateTasks, QueueInv, TaskTypeOK
      <4> QED
        BY <4>1, FreshTasks
    <3>4. IsInjective(queue')
      BY <2>3, CreateTaskInv DEF QueueInv, QueueHoldsPending
    <3>5. \A t \in TaskIds : task[t].status = "pending" => t \in Range(queue)
      BY DEF QueueInv, QueueHoldsPending
    <3>6. \A t \in TaskIds : task[t].status = "pending" => Ahead(queue', t) \subseteq Ahead(queue, t)
      BY <3>2, <3>3, <3>4, <3>5, AheadOfAppended
    <3> QED
      BY <3>1, <3>6
  <2>4. ASSUME queue' = queue, NEW s \in TaskIds, NEW status \in {"submitted", "verified", "rejected"},
               task' = [task EXCEPT ![s].status = status]
        PROVE  InOrderStep
    <3>1. \A u \in TaskIds : task'[u].status = "assigned" => task'[u] = task[u]
      BY <2>0, <2>4 DEF TaskShape
    <3> QED
      BY <2>4, <3>1
  <2>5. ASSUME NEW t \in TaskIds, DeadlinePasses(t) PROVE InOrderStep
    BY <2>5 DEF DeadlinePasses
  <2>6. ASSUME NEW t \in TaskIds, SubmitResult(t) \/ MarkVerified(t) \/ MarkRejected(t)
        PROVE  InOrderStep
    <3>1. queue' = queue
      BY <2>6 DEF SubmitResult, MarkVerified, MarkRejected
    <3>2. \E status \in {"submitted", "verified", "rejected"} :
            task' = [task EXCEPT ![t].status = status]
      BY <2>6 DEF SubmitResult, MarkVerified, MarkRejected
    <3> HIDE DEF InOrderStep
    <3> QED
      BY <2>4, <3>1, <3>2
  <2> HIDE DEF InOrderStep
  <2> QED
    BY <2>1, <2>2, <2>3, <2>5, <2>6 DEF TaskNext, AssignTask
<1> QED
  BY <1>1, QueueInvariant, PTL DEF TaskSpec, FirstComeFirstServed
-----------------------------------------------------------------------------
(* The queue next to the handlers *)

LEMMA QueueFlowInv == QueueInv /\ [Next]_vars => QueueInv'
<1> SUFFICES ASSUME QueueInv, [Next]_vars PROVE QueueInv'
  OBVIOUS
<1>1. ASSUME TaskCall PROVE QueueInv'
  BY <1>1, AssignTaskInv, DeadlineInv, CreateTaskInv DEF TaskCall
<1>2. ASSUME NEW t \in TaskIds, NEW m \in Miners, Record(t, m) PROVE QueueInv'
  BY <1>2, SubmitInv, QueueStillInv DEF Record
<1> QED
  BY <1>1, <1>2, QueueStillInv
     DEF Next, ParamCall, WsSubmit, WsAcknowledged, WsAckFails, RestSubmit, vars

\* What is proved of the queue by itself holds next to the parameter server and the
\* handlers: they change tasks only as TaskManager's own calls do.
THEOREM TasksAreAPart == Spec => TaskSpec
<1>1. Init => TaskInit
  BY DEF Init
<1>2. [Next]_vars => [TaskNext]_taskVars
  <2> SUFFICES ASSUME [Next]_vars PROVE [TaskNext]_taskVars
    OBVIOUS
  <2>1. CASE TaskCall
    BY <2>1 DEF TaskCall, TaskNext
  <2>2. ASSUME NEW t \in TaskIds, NEW m \in Miners, Record(t, m) PROVE [TaskNext]_taskVars
    BY <2>2 DEF Record, TaskNext
  <2> QED
    BY <2>1, <2>2
       DEF Next, ParamCall, WsSubmit, WsAcknowledged, WsAckFails, RestSubmit, vars
<1> QED
  BY <1>1, <1>2, PTL DEF Spec, TaskSpec

\* The parameter server, the task manager and the handlers keep their types; in
\* particular only accepted gradients are turned down.
THEOREM GradientTypes == Spec => []TypeOK
<1> DEFINE HandlerTypes == acking \subseteq Miners /\ turnedDown \subseteq Gradient
           IInv == GradientInv /\ QueueInv /\ HandlerTypes
<1>1. Init => IInv
  BY InitInv, QueueInitInv DEF Init
<1>2. IInv /\ [Next]_vars => IInv'
  <2> SUFFICES ASSUME IInv, [Next]_vars PROVE IInv'
    OBVIOUS
  <2>1. GradientInv' /\ QueueInv'
    BY StepInv, QueueFlowInv
  <2>2. HandlerTypes'
    <3>1. pending' \subseteq Gradient
      BY <2>1 DEF GradientInv, ParamTypeOK, Gradient
    <3> QED
      BY <3>1 DEF Next, TaskCall, ParamCall, WsSubmit, WsAcknowledged, WsAckFails, RestSubmit,
                  vars, handlers
  <2> QED
    BY <2>1, <2>2
<1>3. IInv => TypeOK
  BY DEF GradientInv, QueueInv, TypeOK
<1> QED
  BY <1>1, <1>2, <1>3, PTL DEF Spec
=============================================================================
