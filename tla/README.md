# Formal specification of the mining service

TLA+ specifications of the decentralized-training service in `src/app` (FastAPI,
Python): what its components do, how they interact, and what must hold of them,
checked by TLC on small instances and, for the core, proved by TLAPS for all.

* [The system](#the-system) · [Modules](#modules) · [Runs](#runs) ·
  [Findings](#findings) · [Proofs](#proofs) · [Not modelled](#not-modelled) ·
  [Plan](#plan)

## The system

One process, one asyncio event loop, module-level singletons. Miners connect over
a websocket (`ws_handler.py`) or call REST endpoints (`routers.py`). Code between
two `await`s is atomic; everything else interleaves. Only two things survive a
restart: the pending-credit queue and the weight-shard registry, both in SQL
(`ml_db.py`); every other component starts empty.

| Component | State | Operations | Hard behaviour | What makes it correct |
|---|---|---|---|---|
| Chain bridge (`chain_bridge.py`) | `pending_credits` rows: status, attempts | save, post to the crypto service, mark sent or failed, retry at startup | crashes between steps, timeouts with late arrival, swallowed database errors, replays | only earned rewards are paid, once; nothing unpaid is reported paid; saved credits are retried |
| Task manager (`training_task.py`) | tasks, FIFO queue | create, assign, expire, refill, submit, verify, reject | lazy expiry, stale queue entries, late submissions | no task lost, given twice or redone; every task is served |
| Parameter server (`param_server.py`) | global step, miners, pending gradients | register, receive, aggregate | staleness grows while a gradient waits; zero weights; gradients that do not fit | every accepted gradient is merged once, in time |
| Websocket handler (`ws_handler.py`) | connection and metadata by miner | connect, submit, acknowledge, credit, disconnect | awaits between components, reconnects, dying sockets | components agree after every interleaving |
| Shard manager (`shard_manager.py`) | capabilities, assignments, pipeline groups | register, form groups, ready, train, disconnect, redistribute, heal | partial repairs, re-registration, several departures | assignments, stages, status and links agree |
| Weight-shard registry (`weight_shard_registry.py`) | shard locations, replicas, versions | register, update, orphan, redistribute, snapshot, persist, load | unordered fire-and-forget writes, restart | a row is the last one written; no single departure loses a shard; plans reach their target; the latest version is there |
| Sharded parameter server (`sharded_param_server.py`) | a server per shard, a global barrier | route, receive, aggregate, report, commit | commits in the middle of a pass, shards that aggregate twice | all shards move together, each step with one round |
| Pipeline (`pipeline.py`) | executions, microbatches, schedules | build schedule, start, report, notify | reports of stages in any order, lost notices | schedules do not deadlock on their data, and hold the activations they promise |
| Activation router, P2P discovery (`activation_router.py`, `p2p_discovery.py`) | transfers, buffers, peers, signalling | send, header, chunk; register, unregister, assign, signal | lost, reordered and repeated messages, reconnects | a transfer completes with all of its data, as often as it was announced; peers and links follow connections and groups |
| Slashing, wallet (`slashing.py`, `wallet_service.py`) | violations, reputation; stakes, balances | report, verify, penalise; deposit, withdraw, slash, reward | repeated verification, slashes against withdrawals | collateral follows the score; tokens are conserved |
| Auth and rate limiting (`auth_middleware.py`) | request windows | check, clean up | one table for windows of different length | the limit holds per window |

How they interact: a websocket submission calls the parameter server, then the task
manager, then (after the acknowledgement) starts the credit coroutine and
aggregates. A REST submission calls the first two only. A departure orphans the
miner's shards, degrades its pipeline group and redistributes the group's stages,
with one `await` per notification in between. `main.py` loads the registry and
retries pending credits before the first request is served.

Some components are written but not wired in. The sharded parameter server, the
pipeline coordinator and the activation router are called by tests only, the
slashing engine's verification, the wallet's slashes and rewards likewise; peer
discovery is called by its own endpoints and by group formation. They are modelled
by what they do when called, in every order of calls.

## Modules

| Module | Models | Correspondence |
|---|---|---|
| `CreditLedger` | the promise about wallet credits | abstract: earn, pay, confirm |
| `WalletCredit` | credit coroutines, retry loop, queue, crypto service | `row` is the table; `pc`, `work` are where each coroutine stands; `paid` is the crypto service's `mining_credits`; `stray` are posts nobody waits for; `told` are the `wallet_credited` events. One action per stretch between awaits. Every commit may fail silently; `Crash` may come anywhere and keeps only `row`, `paid`, `stray` |
| `ShardManager` | placement of shards | `assigned` is `miner_assignments`, `stages[g]` is `group.stages` with status and links, `available` the `is_available` flags. One action per method, as no method awaits |
| `MinerFleet` | miner connections over `ShardManager` | `active` is `active_connections`; `conn[c]` is the handler of one connection: `open`, or after its departure `notifying` the survivors (an await each) or `healing` (nobody to notify, so no await). `stale` says that a stage was added to or deleted from the dictionary its loop walks over; `unheeded` are groups a miner left and nobody redistributed. REST calls and the fire drill run in between |
| `Mining` | constants shared by the next three | |
| `TaskManager` | task queue | `queue` is `_task_queue`; `late` are tasks whose deadline passed; `GiveTask` is expiry and the pop loop of `assign_task`, `ReplenishAndGive` its refill |
| `ParamServer` | parameter server | `sync` is `global_step_at_last_sync`; a gradient has a sender, a task and a kind (`useful`, `empty`: no samples, `misshapen`: makes `aggregate` raise) |
| `GradientFlow` | submission over both paths | extends the two; `acking` are websocket handlers awaiting their acknowledgement, after which they aggregate |
| `StepBarrier` | the promise of cross-shard aggregation | abstract: parties arrive one by one, the last arrival moves all on |
| `ShardedServer` | shard servers and the global aggregator | `step`, `pending`, `minerStep`, `rounds` are fields of each shard server, `ready` the flags of the aggregator. A pass over the shards is a step per shard (`cursor`), so that a commit falls into the middle of a pass as it does in the code; `RouteGradient` includes the filtering that changes the gradient on its way from shard to shard |
| `WeightRegistry` | locations in memory and in the database | `location` and `versions` are the dictionaries; `scheduled` are write tasks that have not begun, `writing` those whose statement is built and not committed, in any order; `Crash` keeps `row` and `versionRows`, `LoadFromDb` rebuilds the rest |
| `Pipeline` | schedules and coordinator | `StepsForStage` is the schedule as a function of strategy, microbatches and stage; `execution` is what the coordinator tracks; `told` and `done` are the miners', who act on what they were sent once they have the data, and report once or again |
| `PeerDiscovery` | signaling peers | `peers`, `minerToPeer`, `pipelinePeers`, `pendingPairs` are the dictionaries; `open` are the connections whose handler runs, which know their miner and not their peer |
| `ActivationTransfer` | sender, transport, receiver | `sends` is how far a send has come, one message per await, and whether the router that receives is the same (one router serves a whole group, `activation_router.py:359`) or another; `SendEnds` is what follows the last await; `flight` is the transport, `headers` (`pending_transfers`) and `buffers` are the dictionaries of the router that receives, the first of which the end of a send writes too; `spoilt` marks transfers the transport lost a message of, or whose header came late |
| `Slashing`, `Staking` | violations and reputation; wallets and stakes | one action per method, as none is interrupted; evidence holds or does not |
| `Detached` | the last five | they share no state and no calls: each behaviour is one of a single part, chosen at the start, which checks all five in one run |
| `Roster` | a constant shared by three of them | |
| `MC*` | instances for TLC | symmetry over miners where only safety is checked |
| `*Proofs`, `Induction` | theorems; `Induction` is about numbers, sets and sums only | see [Proofs](#proofs) |

Operators commented `Mistake: ...` are the mutants of `PROJECT.json`: a plausible
bug in the definition that follows them, each of which breaks the property it is
listed for. No specification uses them.

Abstractions that matter:

* *Who is picked.* VRAM, bandwidth, regions and trust only rank candidates: any free
  miner may be picked, any order of retries is allowed.
* *Availability.* `is_available` is modelled exactly: a registration sets it, also
  for a miner that holds a stage; a disconnect of an assigned miner leaves it.
* *Numbers.* Trust is counted in mismatches (0.1 each: eleven of them, in floating
  point, bring 1.0 to zero); rewards and gradients carry no values.
* *Credits.* `credit_miner_wallet` has an early return for a disabled bridge; the
  flag is set once and never cleared, so it is left out.
* *Connections.* `GradientFlow` lets one websocket handler per miner await its
  acknowledgement; other aggregations may happen at any time.

## Runs

| Run | Instance | Shows |
|---|---|---|
| `wallet_credit` | 2 hashes, 2 coroutines, 2 attempts | two submissions of one gradient race, one credit is retried while a late post of it is under way, with crashes anywhere: `SentImpliesPaid`, `ToldImpliesPaid`, `SentIsFinal`, refinement of `CreditLedger`; `IInv` is the invariant of the proof |
| `wallet_credit_retry` | 2 hashes, 1 coroutine, 2 attempts | `RetrySettles`: no credit stays pending for ever |
| `wallet_credit_lost` | 1 hash, 5 attempts as in the code | violated, see [Findings](#findings) |
| `shard_manager` | 4 miners, 2 groups, 2 or 3 stages | `Agreement`, `StatusMatchesStages`, `LinksAreNeighbours`, `GroupInv`, `NoSilentEviction` |
| `miner_fleet` | 3 miners, 3 connections, 1 group of 2 or 3 stages | `DepartureIsHeeded`, `EntriesAreOpen` |
| `task_manager` | 2 miners, 3 tasks, epochs of 2 | `QueueHoldsPending`, `SubmittedWorkStands`, `FirstComeFirstServed`, `PendingIsServed` |
| `gradient_flow` | 2 miners, 1 task, 3 gradients, staleness 1 | `NothingLost`, `PendingAreFresh`, `SubmittedWasReceived`, `LockoutIsFinal` |
| `gradient_turned_down` | the same | violated, see [Findings](#findings) |
| `sharded_server` | 3 shards, 4 layers, 1 miner, staleness 1, 3 rounds | `ImplementsBarrier` (refinement of `StepBarrier`), `OneRoundPerStep`, `LockoutIsFinal` |
| `weight_registry` | 3 miners, 1 shard, 2 locations with a hash or none, 2 writes each, 1 snapshot | `RowsFollowMemory`, `NoSingleLoss`, `PlanReachesTarget` |
| `detached` | 1 training step, 1 to 4 stages, up to 4 microbatches; 3 miners, 3 connections, 2 groups; 1 transfer of 1 to 3 chunks, on one router or between two, 2 headers; 2 violations, 6 penalties; 2 wallets, 2 stakes | `NoForwardBeforeUpstream`, `PeakActivations`, `StallsOnlyWhenHeldBack`; `PeersFollowConnections`, `NeighboursAreLinked`; `ArrivesAsAnnounced`; `CollateralFollowsScore`; `TokensConserved` |
| `pipeline_dropped` | 2 stages, 2 microbatches | violated, see [Findings](#findings) |

Type invariants: `IInv` contains `WalletCredit`'s, `FleetTypeOK` that of
`ShardManager`, `TypeOK` of `GradientFlow` those of `TaskManager` and `ParamServer`,
`DetachedTypeOK` that of the part that runs.

Bounds. Three stages make a middle stage with two neighbours and let two adjacent
stages be vacant; four miners leave a spare for a full group of three, and two
groups compete for it. For the connections one group is enough, as a
handler concerns one: three miners in it let two departures overlap with a third
member left to notify, and three connections let a miner reconnect while another
leaves. Two attempts reach the give-up branch; two hashes let the
retry loop hold one row while it waits on another. Staleness 1 and three gradients
reach acceptance, lockout and merges on both sides of the limit. One task is
enough for it to expire, change owner and be submitted late. Three shards are the
least for which a gradient that its own shard refuses is cut down by a second and
taken by a third, and for which a commit falls between two other shards of a pass;
three rounds let a shard run ahead and be caught up with. Two writes of a location
are enough to be swapped; two locations are two replicas that one miner may hold
both of, and three miners leave one for a plan to go to. A location is
registered with a hash or without, and an update names one (`Updates`), so that a
snapshot meets replicas with and without a hash. Pipelines of one to four
stages meet fewer, as many and more microbatches, and so a cut-short, a full and a
repeated steady phase. Three connections of three miners let one connect twice and
its two handlers end in either order while it is put in another group. Three chunks
can be swapped, lost and repeated around their header; one transfer is enough, as the
dictionaries are kept by transfer and nothing else is shared. `MaxGroups`,
`MaxTasks` and `MaxGradients` are bounds of the model, not of the code; the proofs
hold for all their values.

Fairness. `FairSpec` of `WalletCredit` assumes that if the service keeps being
restarted, no step of the retry loop is cut off *every* time (strong fairness per
step), and that the database also works now and then; nothing is assumed of the
credit coroutines. Python runs the loop to its end unless the process dies, so
this says only that crashes are not timed against it. `FairTaskSpec` assumes that
some miner keeps asking for tasks: `miner_client.py:337` does so in a loop.

## Findings

* **A saved credit can be lost** (`wallet_credit_lost`). After five failed startups
  a row is marked `failed` and nothing reads it again, although the docstring says
  "Tokens are NEVER lost."
* **A rejected gradient is merged** (`gradient_turned_down`). The REST endpoint
  queues the gradient before it asks the task manager, and does not take it back
  when it answers 400.
* **A step that is held back is never sent** (`pipeline_dropped`). A stage that
  reports before the stage above it is not sent its next step, and no report of
  another stage makes up for it, although the comment says it "will be triggered
  when upstream completes". `StallsOnlyWhenHeldBack` is the other half: apart from
  this, from notices that fail and from microbatches nobody tracks, the schedules
  never stall.

What the runs show to hold although the code looks wrong: the loop over
`group.stages.values()` awaits while other handlers change the dictionary, so it
raises and skips its redistribution; but the handler whose departure changed it
comes after and does the work (`DepartureIsHeeded`). The fire drill
(`/admin/simulate-disconnect`) is the exception: it changes the group without a
handler of its own, and a redistribution on its way is then lost with it.

What the models do, and no statement of the repository forbids: a database write
that overtakes a later one leaves a stale row, and after a restart a departed miner
is a source again; after a restart the parameter server is at step 0, so a snapshot
sets `latest_version` back; what a slash leaves of a stake is never paid out; a
violation verified twice is punished twice, and a milder penalty may shorten a
suspension; a submission reported again completes a training step again; a pair of
peers is told to connect once, also if that fails; a bfloat16 tensor that is not
quantized cannot be read back; the end of a send puts its metadata back among the
pending transfers, so that on a router that receives its own transfers a chunk repeated
after completion completes the transfer again, and otherwise the entry stays for ever;
`send_activation` replaces the metadata it is given,
and so has no target to send to; a "backward" dependency of a schedule is never
found, as it is looked up before it is generated.

## Proofs

All theorems are checked by `tlapm`, from the named assumptions in the modules:

* the constants are sets, finite where the code counts or sorts them, and naturals, and
  the special values are outside the sets they stand beside: `CreditAssumption`,
  `ShardAssumption`, `FleetAssumption`, `MiningAssumption`, `ParamAssumption`,
  `ShardedAssumption`, `PayloadAssumption`, `RegistryAssumption`, `RowAssumption`,
  `PipelineAssumption`, `NoneAssumption`, `SlashingAssumption`;
* there is a batch to refill the queue with (`TaskAssumption`), a message is not empty
  (`TransferAssumption`), an assignment names a miner once (`PeerAssumption`), a
  minimum stake is positive and a slash takes at most all (`StakingAssumption`);
* `OneDepartureLosesNothing` alone assumes `MinReplicas >= 2`, which is the policy's
  value (`weight_shard_registry.py:208`); with 1 it is false.

Every invariant and every action property that a passing run checks is a theorem for
all values of the constants; so are both refinements. `LatestVersionIsThere` of
`WeightRegistry` is a theorem only.

* `WalletCreditProofs`. `IInv` is inductive: besides the types it says that the retry
  loop and the coroutines never run at once (`PhaseInv`), that the loop only holds
  rows that are pending and have attempts left (`RetryInv`), and that a worker past
  its answer holds a paid hash (`WorkInv`, `OriginInv`). Without `PhaseInv` a
  coroutine could mark a row sent under a failing retry, and `SentIsFinal` fails.
  From it: `SentIsPaid`, `ToldIsPaid`, `SentStaysSent`, and `CreditImplementsLedger`,
  the step simulation of `CreditLedger` for any number of hashes and coroutines.
* `MinerFleetProofs`. Placement: `IInv` is the conjunction of the checked invariants,
  which is inductive as it stands: a repair is correct only because the placement
  agreed, the links were right, and a degraded group had its vacancy. The lemma
  `MoveInPlaces` says what moving free miners one-to-one into vacant slots does, and
  serves both formation and redistribution. Connections: `FleetIInv` joins `IInv` to the
  handlers': every handler has its miner or group, every unheeded group an undisturbed
  handler, every entry an open connection. A disconnect and a redistribution change the
  number of stages of one group only, so they disturb no walk the other groups rely on.
  `FleetImplementsPlacement`: the handlers change the placement by the methods of
  `ShardManager` only, so that its theorems (`OnlyDisconnectsEvict`, too) hold of the fleet.
* `GradientProofs`. Gradients: `GradientInv` adds to the checked invariants that
  identifiers are given out in order (so a new gradient is new) and that no miner is
  ahead of the server (so staleness only grows). Conservation is an argument on
  cardinalities; `LockedOutForGood` follows since a locked-out miner has no pending
  gradient to be merged. Tasks: `QueueInv` says that a pending task stands in the queue,
  that no task stands there twice, and that tasks not made yet have no status. The expired
  tasks come back as a list (`CreationOrder`) behind a queue they are not in
  (`OneBehindTheOther`), and the task given is the first that waits (`GivenTask`), so what
  is cut off before it is not pending. `TasksAreServedInOrder` draws from this that nobody
  overtakes a waiting task and that each task given is one less before it: the ranking by
  which `PendingIsServed` holds. `TasksAreAPart`: the handlers change tasks only as
  `TaskManager` does, so that its theorems hold of `GradientFlow`.
* `ShardedServerProofs`. The barrier commits the *last* round of each shard, which is
  right only if that round is of the present step. `IInv` says so: all shards are at
  the aggregator's step, each has at least one round of every step behind it of which
  just the last is committed, and a shard that has reported has a last round of the
  present step. `AppendRound` and `CommitRound` say what the two changes of a list of
  rounds do. The refinement of `StepBarrier` and `LockoutIsFinal` follow.
* `WeightRegistryProofs`. Writes of a location are numbered as they begin. `IInv` says
  that a row, or a write under way, never has a number beyond the last begun, and that
  one with the last number, while no other write is scheduled, holds the location as it
  is: each change schedules a write in the same step, so a row that is behind memory
  always has a write on its way or was overtaken. It holds of every write in `writing`, so
  the order in which they commit or fail does not matter. `EveryPlanReachesTarget` and
  `OneDepartureLosesNothing` count: replicas a departure leaves are those of another
  miner, of which there is one when at least two were on miners of their own.
  `RegistryTypes` needs that no more writes begin than were scheduled (`TypeInv`), and
  `LatestVersionIsThere` that the greatest step of the stored snapshots is one of them:
  `verify_shard_integrity` lets every hash pass when the version it looks up is not there.
* `PipelineProofs`. The schedules are functions, and their lemmas say where each step
  stands: every schedule begins with `Forward(0)`, has each step at one place
  (`OnePlaceEach`), and under 1F1B alternates after the warm-up. `OrderInv` says that a
  stage was sent only steps of its schedule, with all before them done and reported:
  the induction over a stage's progress is the one over the behaviour. Of two microbatches a
  stage holds, the warm-up bounds the distance (`HeldApart`), which bounds their number
  (`NarrowSet`): `ActivationsStayBounded`. `SchedulesDoNotDeadlock` gives each step of each
  stage a time at which all it needs of other stages is earlier (`StepTimes`), and takes
  the unfinished step of least time: nothing can hold it but a notice that failed, a
  step that was held back, or a microbatch nobody tracks.
* `DetachedProofs`. *Peers*: a handler knows its miner only, so the strengthening
  (`LatestIsFound`) says that the peer of a miner's latest connection is the one found by
  the miner; without it an earlier connection's end could take down the later
  connection's peer unseen. `NextTo` says that of two adjacent stages each is
  the nearest to the other, so that the two are told of each other. *Transfers*:
  `TransferInv` says that the buffer holds what was seen of a transfer that is not spoilt,
  from its header on, and not all of it before it is complete; and that completions,
  with the metadata still pending, never exceed the headers delivered and the sends ended
  on the same router (`Announced`). A step of the sender is one lemma (`SendingInv`). *Slashing*: penalties keep
  score and collateral in step, as every change of one recomputes the other. *Staking*:
  sums over balances and stakes change by what a call moves, by the lemmas on sums.
  `PipelinesAreAPart` carries the theorems of `PipelineProofs` over to `Detached`.
* `Induction`. The provers cannot instantiate the induction theorems of the library,
  which take an operator. Well-founded induction is stated of a *set*, though: a set of
  naturals that is not empty has a least element (`LeastNat`). All induction goes through
  that, by the least counterexample: greatest elements of finite sets, the increasing list
  of a set (`Enumeration`), and what `SumFunction` of the library adds up to, with the
  recursive function behind it replaced by the statement that it exists (`IsSum`).
  `TaskManager` orders the expired tasks by `CHOOSE` of that list, rather than by the
  library's sorting, which the provers cannot expand.

Only model-checked: liveness (`RetrySettles`, `PendingIsServed`), as fairness is about
ENABLED, which is out of the prover's reach; and the three violations, which are
counterexamples.

## Not modelled

Tensor code (`model_architecture.py`, `moe_architecture.py`, `real_trainer.py`,
`shard_slicer.py`), read-only views (`dashboard_api.py`, `network_dashboard.py`,
`dashboard/`), token checks by the auth service, the genesis set-up (a sequence of
calls the modules have as actions), the miner client (any order of its messages
is allowed), on-chain records and the Lighthouse registration (results nobody
reads), deployment files. The rate limiter (`auth_middleware.py`) is one function without
interleavings; its clean-up (line 276) uses the window of whoever triggers it.
Regional aggregators and Merkle and compression arithmetic are numbers. The
websocket's heartbeat answers with an assignment read once, at connect
(`ws_handler.py:145`), which no other component reads. Super-groups, heartbeats and layer arithmetic of the shard
manager are left out: nothing in placement depends on them.

## Plan

In order of weight. All of it is modelled, checked and, but for liveness, proved.

1. `CreditLedger`, `WalletCredit`: tokens.
2. `ShardManager`: placement.
3. `TaskManager`, `ParamServer`, `GradientFlow`: tasks and gradients.
4. `MinerFleet`: connections by miner id over the shard manager.
5. `StepBarrier`, `ShardedServer`: the barrier, and that it is implemented.
6. `WeightRegistry`: write-through, replicas, plans.
7. `Pipeline`: schedules and reports.
8. `PeerDiscovery`, `ActivationTransfer`, `Slashing`, `Staking`.

Left: properties for the hazards that have none yet, where the code makes a promise to
state; among them what a replacement is assumed to be (connected, not merely available)
and how far a second report of a submission may carry the global step.
