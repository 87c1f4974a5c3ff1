----------------------------- MODULE TaskManager -----------------------------
(***************************************************************************)
(* The queue of training tasks (training_task.py): a miner that asks gets  *)
(* the oldest pending task; a task whose deadline passed is put back at    *)
(* the end of the queue, but only when somebody asks; an empty queue is    *)
(* refilled with the tasks of a new epoch.                                 *)
(*                                                                         *)
(* No method awaits: each is one action.  GradientFlow composes this       *)
(* module with the parameter server and the handlers that call both.       *)
(***************************************************************************)
EXTENDS Mining, Sequences, Functions

CONSTANT
  Batch          \* tasks of one epoch (_replenish_batch_size)

ASSUME TaskAssumption == Batch \in Nat \ {0}

VARIABLES
  task,          \* status and assigned_miner_id of each task
  queue,         \* _task_queue
  made,          \* tasks 1..made have been created
  late           \* tasks whose deadline has passed since they were assigned

taskVars == <<task, queue, made, late>>

TaskTypeOK ==
  /\ task \in [TaskIds -> [status : {"none", "pending", "assigned", "submitted",
                                     "verified", "rejected"},
                           miner : Miners \cup {NoMiner}]]
  /\ queue \in Seq(TaskIds)
  /\ made \in 0..MaxTasks
  /\ late \subseteq TaskIds

TaskInit ==
  /\ task = [t \in TaskIds |-> [status |-> "none", miner |-> NoMiner]]
  /\ queue = << >>
  /\ made = 0
  /\ late = {}
-----------------------------------------------------------------------------
Pending == [status |-> "pending", miner |-> NoMiner]

\* The tasks lo + 1 .. hi, oldest first.
Fresh(lo, hi) == [i \in 1..(hi - lo) |-> lo + i]

\* create_task, for n tasks at once (the genesis set-up makes the first ones).
CreateTasks(n) ==
  /\ made + n <= MaxTasks
  /\ made' = made + n
  /\ task' = [t \in TaskIds |-> IF t \in (made + 1)..(made + n) THEN Pending ELSE task[t]]
  /\ queue' = queue \o Fresh(made, made + n)
  /\ UNCHANGED late

\* The deadline of an assigned task passes; nothing looks at it yet.
DeadlinePasses(t) ==
  /\ task[t].status = "assigned"
  /\ late' = late \cup {t}
  /\ UNCHANGED <<task, queue, made>>

\* Mistake: the state of a late task is not looked at.
ExpiredAnyState == late

Expired == {t \in late : task[t].status = "assigned"}

\* _expire_stale_tasks: expired tasks go to the end, in order of creation.
AfterExpiry == [t \in TaskIds |-> IF t \in Expired THEN Pending ELSE task[t]]

InCreationOrder(tasks) ==
  CHOOSE q \in [1..Cardinality(tasks) -> tasks] : \A i, j \in DOMAIN q : i < j => q[i] < q[j]

\* Mistake: expired tasks jump the queue.
QueueExpiredFirst == InCreationOrder(Expired) \o queue

QueueAfterExpiry == queue \o InCreationOrder(Expired)

\* Entries of tasks no longer pending are thrown away on the way.
Assignable == {i \in DOMAIN QueueAfterExpiry : AfterExpiry[QueueAfterExpiry[i]].status = "pending"}

\* Mistake: the task given stays in the queue.
GiveTaskUnpopped(m) ==
  LET q == QueueAfterExpiry
      i == CHOOSE j \in Assignable : \A k \in Assignable : j <= k
  IN  /\ Assignable # {}
      /\ task' = [AfterExpiry EXCEPT ![q[i]] = [status |-> "assigned", miner |-> m]]
      /\ queue' = SubSeq(q, i, Len(q))
      /\ late' = late \ Expired
      /\ UNCHANGED made

\* Mistake: the task that came last is given first.
GiveTaskNewest(m) ==
  LET q == QueueAfterExpiry
      i == CHOOSE j \in Assignable : \A k \in Assignable : j >= k
  IN  /\ Assignable # {}
      /\ task' = [AfterExpiry EXCEPT ![q[i]] = [status |-> "assigned", miner |-> m]]
      /\ queue' = SubSeq(q, 1, i - 1)
      /\ late' = late \ Expired
      /\ UNCHANGED made

GiveTask(m) ==
  LET q == QueueAfterExpiry
      i == CHOOSE j \in Assignable : \A k \in Assignable : j <= k
  IN  /\ Assignable # {}
      /\ task' = [AfterExpiry EXCEPT ![q[i]] = [status |-> "assigned", miner |-> m]]
      /\ queue' = SubSeq(q, i + 1, Len(q))
      /\ late' = late \ Expired
      /\ UNCHANGED made

\* The queue is exhausted: a new epoch, whose first task is given at once.
ReplenishAndGive(m) ==
  /\ Assignable = {}
  /\ made + Batch <= MaxTasks
  /\ made' = made + Batch
  /\ task' = [t \in TaskIds |->
       IF t = made + 1 THEN [status |-> "assigned", miner |-> m]
       ELSE IF t \in (made + 1)..(made + Batch) THEN Pending ELSE AfterExpiry[t]]
  /\ queue' = Fresh(made + 1, made + Batch)
  /\ late' = late \ Expired

AssignTask(m) == GiveTask(m) \/ ReplenishAndGive(m)

\* Mistake: anybody may hand in an assigned task.
SubmittableByAnybody(t, m) == task[t].status = "assigned"

\* submit_result: what it checks, and what it does when it returns True.
Submittable(t, m) == task[t] = [status |-> "assigned", miner |-> m]

SubmitResult(t) ==
  /\ task' = [task EXCEPT ![t].status = "submitted"]
  /\ UNCHANGED <<queue, made, late>>

MarkVerified(t) ==
  /\ task[t].status = "submitted"
  /\ task' = [task EXCEPT ![t].status = "verified"]
  /\ UNCHANGED <<queue, made, late>>

\* From any state: a pending task keeps its place in the queue.
MarkRejected(t) ==
  /\ task[t].status # "none"
  /\ task' = [task EXCEPT ![t].status = "rejected"]
  /\ UNCHANGED <<queue, made, late>>

\* The task manager on its own: any miner may ask, and submit what it holds.
TaskNext ==
  \/ \E m \in Miners : AssignTask(m)
  \/ \E t \in TaskIds :
       \/ DeadlinePasses(t)
       \/ \E m \in Miners : Submittable(t, m) /\ SubmitResult(t)
       \/ MarkVerified(t)
       \/ MarkRejected(t)
  \/ CreateTasks(1)

TaskSpec == TaskInit /\ [][TaskNext]_taskVars

\* Some miner keeps asking for tasks: the client asks again whenever it is idle.
FairTaskSpec == TaskSpec /\ WF_taskVars(\E m \in Miners : AssignTask(m))
-----------------------------------------------------------------------------
\* No task is lost or given twice: a pending task stands in the queue, no task
\* stands there twice, and an assigned or submitted one does not stand there.
\* Expiry, refills and the entries a rejection leaves behind all touch both.
QueueHoldsPending ==
  /\ IsInjective(queue)
  /\ \A t \in TaskIds :
       /\ task[t].status = "pending" => t \in Range(queue)
       /\ t \in Range(queue) => task[t].status \in {"pending", "rejected"}

\* Work that was handed in is not given out again: the expiry scan passes over
\* a submitted task whose deadline went by before it was handed in.
SubmittedWorkStands ==
  [][\A t \in TaskIds : task[t].status \in {"submitted", "verified"}
        => task'[t].status \in {"submitted", "verified", "rejected"}]_taskVars

\* What stands before t in the queue q.
Ahead(q, t) == {q[i] : i \in {i \in DOMAIN q : \E j \in DOMAIN q : i < j /\ q[j] = t}}

\* Nobody overtakes a waiting task, not even one that expires or a new epoch, and
\* whoever is given a task takes one that stood before it: so a task has at most as
\* many requests to wait for as there were tasks before it when it began to wait.
FirstComeFirstServed ==
  [][\A t \in TaskIds : task[t].status = "pending" /\ task'[t].status = "pending" =>
       /\ Ahead(queue', t) \subseteq Ahead(queue, t)
       /\ \A u \in TaskIds : task'[u].status = "assigned" /\ task'[u] # task[u]
            => u \in Ahead(queue, t) \ Ahead(queue', t)]_taskVars

\* Tasks are served in order: an expired task goes behind those that wait, so
\* however often others expire, a pending task is handed out or rejected.
PendingIsServed ==
  \A t \in TaskIds : task[t].status = "pending" ~> task[t].status # "pending"

=============================================================================
