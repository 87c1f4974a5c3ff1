--------------------------- MODULE WeightRegistry ---------------------------
(***************************************************************************)
(* The weight shard registry (weight_shard_registry.py): which miner holds *)
(* which shard of the model, in memory and, written through by a task of   *)
(* its own for every change, in the database it is reloaded from after a   *)
(* restart.                                                                *)
(*                                                                         *)
(* One model.  A location stands for its row of numbers: sizes, times,     *)
(* addresses, bandwidths and download progress are left out, and so is the *)
(* priority, which is PRIMARY for every location the service registers.    *)
(***************************************************************************)
EXTENDS Naturals, FiniteSetsExt

CONSTANTS
  Miners, Shards,
  Hashes, NoHash,      \* weight hashes; NoHash is the empty string, which may be one
  Locations,           \* bound: location ids
  None,
  MinReplicas,         \* min_replicas
  TargetReplicas,      \* target_replicas
  Updates,             \* bound: states and hashes update_shard_state is given
  MaxWrites,           \* bound: database writes of one location
  MaxSnapshots,        \* bound: snapshots in memory, in the database or on their way
  MaxStep              \* bound: global step of the parameter server

ASSUME RegistryAssumption ==
  /\ MinReplicas \in Nat \ {0}
  /\ TargetReplicas \in Nat
  /\ MinReplicas <= TargetReplicas
  /\ IsFiniteSet(Miners) /\ IsFiniteSet(Locations)
  /\ None \notin Locations
  /\ MaxWrites \in Nat /\ MaxStep \in Nat

VARIABLES
  up,            \* the service runs
  location,      \* locations: what is in memory
  versions,      \* versions: the snapshot of each step, by shard
  latest,        \* latest_version
  serverStep,    \* global_step of the parameter server
  row,           \* rows of weight_shard_locations
  versionRows,   \* rows of weight_versions
  scheduled,     \* for each location, its write tasks that have not begun
  writing,       \* writes on their way to the database
  begun,         \* writes begun, for each location
  versionWrites  \* snapshots on their way to the database

memoryVars == <<location, versions, latest>>
databaseVars == <<row, versionRows, writing, begun, versionWrites>>
registryVars == <<up, memoryVars, serverStep, scheduled, databaseVars>>
-----------------------------------------------------------------------------
ShardState == {"allocated", "streaming", "loaded", "checkpointed", "stale", "orphaned"}

ShardLocation ==
  [miner : Miners, shard : Shards, state : ShardState, hash : Hashes, webrtc : BOOLEAN]

\* A row holds no WebRTC fields.  "order" numbers the writes of a location.
Row == [miner : Miners, shard : Shards, state : ShardState, hash : Hashes, order : Nat]

\* The hashes of a snapshot, None for a shard without an available replica that has one.
Snapshot == [Shards -> Hashes \cup {None}]

ASSUME RowAssumption ==
  /\ Updates \subseteq ShardState \X Hashes
  /\ None \notin ShardLocation \cup Row \cup Snapshot

TypeOK ==
  /\ up \in BOOLEAN
  /\ location \in [Locations -> ShardLocation \cup {None}]
  /\ versions \in [0..MaxStep -> Snapshot \cup {None}]
  /\ latest \in 0..MaxStep
  /\ serverStep \in 0..MaxStep
  /\ row \in [Locations -> Row \cup {None}]
  /\ versionRows \subseteq [step : 0..MaxStep, hashes : Snapshot]
  /\ scheduled \in [Locations -> Nat]
  /\ writing \subseteq Locations \X Row
  /\ begun \in [Locations -> 0..MaxWrites]
  /\ versionWrites \subseteq [step : 0..MaxStep, hashes : Snapshot]
  /\ \A l \in Locations : scheduled[l] > 0 => location[l] # None

Init ==
  /\ up = TRUE
  /\ location = [l \in Locations |-> None]
  /\ versions = [n \in 0..MaxStep |-> None]
  /\ latest = 0
  /\ serverStep = 0
  /\ row = [l \in Locations |-> None]
  /\ versionRows = {}
  /\ scheduled = [l \in Locations |-> 0]
  /\ writing = {}
  /\ begun = [l \in Locations |-> 0]
  /\ versionWrites = {}
-----------------------------------------------------------------------------
Registered == {l \in Locations : location[l] # None}
ReplicasOf(k) == {l \in Registered : location[l].shard = k}
ShardsOfMiner(m) == {l \in Registered : location[l].miner = m}

IsAvailable(l) == location[l].state \in {"loaded", "checkpointed"}

\* find_shard_sources: the available replicas ...
Sources(k) == {l \in ReplicasOf(k) : IsAvailable(l)}

\* ... those with a data channel first.
BestSources(k) ==
  LET direct == {l \in Sources(k) : location[l].webrtc}
  IN  IF direct = {} THEN Sources(k) ELSE direct

\* get_replication_status
ReplicaCount(k) == Cardinality(Sources(k))
UnderReplicated(k) == ReplicasOf(k) # {} /\ ReplicaCount(k) < MinReplicas

\* Mistake: the plan fills up to the minimum.
NeededForMinimum(k) == MinReplicas - ReplicaCount(k)

Needed(k) == TargetReplicas - ReplicaCount(k)

\* plan_redistribution for one shard, over the miners that are free: transfers
\* from the best source, if there is one, to miners that have no location of the
\* shard in whatever state.  Which of them come first is a matter of ranking.
Plans(k, free) ==
  LET candidates == free \ {location[l].miner : l \in ReplicasOf(k)}
      number == Min({Needed(k), Cardinality(candidates)})
      sources == IF Sources(k) = {} THEN {None} ELSE BestSources(k)
  IN  IF UnderReplicated(k)
      THEN {[targets |-> T, source |-> s] : T \in kSubset(number, candidates), s \in sources}
      ELSE {}
-----------------------------------------------------------------------------
\* The write-through of every change: a task is scheduled, and reads the location
\* only when it begins.
PersistLocations(ls) ==
  /\ \A l \in ls : begun[l] + scheduled[l] < MaxWrites
  /\ scheduled' = [l \in Locations |-> scheduled[l] + IF l \in ls THEN 1 ELSE 0]
  /\ UNCHANGED databaseVars

\* register_shard, as report_shard_loaded calls it: a new location every time.
RegisterShard(m, k, h) ==
  /\ up
  /\ \E l \in Locations \ Registered :
       /\ row[l] = None
       /\ location' = [location EXCEPT ![l] =
            [miner |-> m, shard |-> k, state |-> "loaded", hash |-> h, webrtc |-> FALSE]]
       /\ PersistLocations({l})
  /\ UNCHANGED <<up, versions, latest, serverStep>>

\* update_shard_state: an empty hash leaves the one there is.
UpdateShardState(l, state, h) ==
  /\ up
  /\ l \in Registered
  /\ location' = [location EXCEPT ![l].state = state,
                                        ![l].hash = IF h = NoHash THEN @ ELSE h]
  /\ PersistLocations({l})
  /\ UNCHANGED <<up, versions, latest, serverStep>>

\* Mistake: all replicas of the miner's shards are orphaned.
OrphansByShard(m) ==
  {l \in Registered : \E o \in ShardsOfMiner(m) : location[o].shard = location[l].shard}

\* Every location of the miner, those already orphaned included.
Orphans(m) == ShardsOfMiner(m)

\* orphan_miner_shards, upon a disconnect or a fire drill.
OrphanMinerShards(m) ==
  /\ up
  /\ Orphans(m) # {}
  /\ location' = [l \in Locations |->
       IF l \in Orphans(m) THEN [location[l] EXCEPT !.state = "orphaned"] ELSE location[l]]
  /\ PersistLocations(Orphans(m))
  /\ UNCHANGED <<up, versions, latest, serverStep>>

\* update_miner_webrtc_info: not written through.
UpdateMinerWebrtcInfo(m) ==
  /\ up
  /\ location' = [l \in Locations |->
       IF l \in ShardsOfMiner(m) THEN [location[l] EXCEPT !.webrtc = TRUE] ELSE location[l]]
  /\ UNCHANGED <<up, versions, latest, serverStep, scheduled, databaseVars>>

\* The hashes of the available replicas that have one.
SourceHashes(k) == {location[l].hash : l \in Sources(k)} \ {NoHash}

Versions == {v \in [step : 0..MaxStep, hashes : Snapshot] : versions[v.step] = v.hashes}

\* create_version_snapshot, at the step of the parameter server: any of these stands
\* for the shard.
CreateVersionSnapshot ==
  /\ up
  /\ Cardinality(versionRows \cup versionWrites \cup Versions) < MaxSnapshots
  /\ \E hashes \in Snapshot :
       /\ \A k \in Shards :
            hashes[k] \in IF SourceHashes(k) = {} THEN {None} ELSE SourceHashes(k)
       /\ versions' = [versions EXCEPT ![serverStep] = hashes]
       /\ versionWrites' = versionWrites \cup {[step |-> serverStep, hashes |-> hashes]}
  /\ latest' = serverStep
  /\ UNCHANGED <<up, location, serverStep, scheduled, row, versionRows, writing, begun>>

\* The parameter server aggregates a round.
AggregateRound ==
  /\ up
  /\ serverStep < MaxStep
  /\ serverStep' = serverStep + 1
  /\ UNCHANGED <<up, memoryVars, scheduled, databaseVars>>
-----------------------------------------------------------------------------
\* _persist_location begins: the statement is built from the location as it is.
BeginWrite(l) ==
  /\ scheduled[l] > 0
  /\ scheduled' = [scheduled EXCEPT ![l] = @ - 1]
  /\ begun' = [begun EXCEPT ![l] = @ + 1]
  /\ writing' = writing \cup {<<l,
       [miner |-> location[l].miner, shard |-> location[l].shard, state |-> location[l].state,
        hash |-> location[l].hash, order |-> begun[l] + 1]>>}
  /\ UNCHANGED <<up, memoryVars, serverStep, row, versionRows, versionWrites>>

\* Mistake: a conflict updates the hash and leaves the state.
UpsertHashOnly(old, new) == IF old = None THEN new ELSE [new EXCEPT !.state = old.state]

\* on_conflict_do_update: an existing row takes the changeable columns.
Upsert(old, new) ==
  IF old = None THEN new
  ELSE [old EXCEPT !.state = new.state, !.hash = new.hash, !.order = new.order]

\* The writes of one location commit in any order, ...
CommitWrite(l, new) ==
  /\ writing' = writing \ {<<l, new>>}
  /\ row' = [row EXCEPT ![l] = Upsert(@, new)]
  /\ UNCHANGED <<up, memoryVars, serverStep, scheduled, versionRows, begun, versionWrites>>

\* ... and one that fails is logged and forgotten.
FailWrite(l, new) ==
  /\ writing' = writing \ {<<l, new>>}
  /\ UNCHANGED <<up, memoryVars, serverStep, scheduled, row, versionRows, begun, versionWrites>>

\* _persist_version: a row of its own for every snapshot.
EndVersionWrite(v) ==
  /\ versionWrites' = versionWrites \ {v}
  /\ versionRows' \in {versionRows, versionRows \cup {v}}
  /\ UNCHANGED <<up, memoryVars, serverStep, scheduled, row, writing, begun>>

\* The process dies; what is in memory and under way is gone.
Crash ==
  /\ up
  /\ up' = FALSE
  /\ location' = [l \in Locations |-> None]
  /\ versions' = [n \in 0..MaxStep |-> None]
  /\ latest' = 0
  /\ serverStep' = 0
  /\ scheduled' = [l \in Locations |-> 0]
  /\ writing' = {}
  /\ versionWrites' = {}
  /\ UNCHANGED <<row, versionRows, begun>>

\* load_from_db rebuilds the locations; of the snapshots of one step any row may
\* come last, and stays.  An error before either part leaves it empty.
LoadLocations ==
  location' = [l \in Locations |->
    IF row[l] = None THEN None
    ELSE [miner |-> row[l].miner, shard |-> row[l].shard, state |-> row[l].state,
          hash |-> row[l].hash, webrtc |-> FALSE]]

\* Mistake: the latest version is taken to be the one after the last snapshot.
LoadVersionsPastLast ==
  /\ versions' \in [0..MaxStep -> Snapshot \cup {None}]
  /\ \A n \in 0..MaxStep :
       LET rows == {v.hashes : v \in {w \in versionRows : w.step = n}}
       IN  versions'[n] \in IF rows = {} THEN {None} ELSE rows
  /\ latest' = Max({v.step + 1 : v \in versionRows} \cup {0})

LoadVersions ==
  /\ versions' \in [0..MaxStep -> Snapshot \cup {None}]
  /\ \A n \in 0..MaxStep :
       LET rows == {v.hashes : v \in {w \in versionRows : w.step = n}}
       IN  versions'[n] \in IF rows = {} THEN {None} ELSE rows
  /\ latest' = Max({v.step : v \in versionRows} \cup {0})

LoadFromDb ==
  /\ ~up
  /\ up' = TRUE
  /\ \/ LoadLocations /\ LoadVersions
     \/ LoadLocations /\ UNCHANGED <<versions, latest>>
     \/ UNCHANGED memoryVars
  /\ UNCHANGED <<serverStep, scheduled, databaseVars>>

Next ==
  \/ \E m \in Miners :
       \/ \E k \in Shards, h \in Hashes : RegisterShard(m, k, h)
       \/ OrphanMinerShards(m)
       \/ UpdateMinerWebrtcInfo(m)
  \/ \E l \in Locations :
       \/ \E u \in Updates : UpdateShardState(l, u[1], u[2])
       \/ BeginWrite(l)
  \/ \E w \in writing : CommitWrite(w[1], w[2]) \/ FailWrite(w[1], w[2])
  \/ \E v \in versionWrites : EndVersionWrite(v)
  \/ CreateVersionSnapshot
  \/ AggregateRound
  \/ Crash
  \/ LoadFromDb

Spec == Init /\ [][Next]_registryVars
-----------------------------------------------------------------------------
\* A row agrees with memory once every write of the location has begun and the
\* last begun is the last committed; a write that overtakes a later one, or a
\* failure of the last, is all that can leave the database behind for good.
LastWriteLanded(l) == scheduled[l] = 0 /\ row[l] # None /\ row[l].order = begun[l]

RowsFollowMemory ==
  \A l \in Registered : LastWriteLanded(l) =>
    /\ row[l].miner = location[l].miner /\ row[l].shard = location[l].shard
    /\ row[l].state = location[l].state /\ row[l].hash = location[l].hash

\* One departure leaves a source of every shard that had enough replicas, as long
\* as no miner was counted twice ("no single miner failure loses data").
OneReplicaEach(k) ==
  \A l, o \in Sources(k) : location[l].miner = location[o].miner => l = o

NoSingleLoss ==
  [][\A k \in Shards :
       up /\ up' /\ ReplicaCount(k) >= MinReplicas /\ OneReplicaEach(k)
         => Sources(k)' # {}]_registryVars

\* A plan brings a shard that is short of replicas to the target or uses every
\* free miner without a location of it, never sends it where it is, and takes it
\* from an available replica if there is one.
PlanReachesTarget ==
  \A k \in Shards, free \in SUBSET Miners : \A p \in Plans(k, free) :
    /\ ReplicaCount(k) + Cardinality(p.targets) <= TargetReplicas
    /\ \/ ReplicaCount(k) + Cardinality(p.targets) = TargetReplicas
       \/ free \subseteq p.targets \cup {location[l].miner : l \in ReplicasOf(k)}
    /\ p.source = None <=> ReplicaCount(k) = 0
    /\ p.source # None => location[p.source].miner \notin p.targets
=============================================================================
