------------------------ MODULE WeightRegistryProofs ------------------------
(***************************************************************************)
(* Theorems about WeightRegistry, for any number of miners, shards,        *)
(* locations and writes: however writes overtake one another, fail or are  *)
(* cut off by a crash, the row a location's last write has left is the     *)
(* location; plans reach their target; one departure loses no shard; the   *)
(* latest version is one there is.                                         *)
(***************************************************************************)
EXTENDS WeightRegistry, Induction, FiniteSetTheorems, TLAPS

\* The part of the types the argument needs.
RowTypes ==
  /\ location \in [Locations -> ShardLocation \cup {None}]
  /\ row \in [Locations -> Row \cup {None}]
  /\ writing \subseteq Locations \X Row
  /\ scheduled \in [Locations -> Nat]
  /\ begun \in [Locations -> Nat]

\* Tasks and writes are of registered locations, and none outlives the process.
WritesInv ==
  /\ \A l \in Locations : scheduled[l] > 0 => location[l] # None
  /\ \A w \in writing : location[w[1]] # None
  /\ ~up => /\ writing = {}
            /\ \A l \in Locations : scheduled[l] = 0 /\ location[l] = None

\* r tells of l what never changes, and was written no later than the last write.
RowOf(l, r) ==
  /\ r.order <= begun[l]
  /\ location[l] # None => r.miner = location[l].miner /\ r.shard = location[l].shard

\* The last write of l, once no other is scheduled, is of l as it is.
Current(l, r) ==
  location[l] # None /\ scheduled[l] = 0 /\ r.order = begun[l]
    => r.state = location[l].state /\ r.hash = location[l].hash

RowsInv ==
  /\ \A l \in Locations : row[l] # None => RowOf(l, row[l]) /\ Current(l, row[l])
  /\ \A w \in writing : RowOf(w[1], w[2]) /\ Current(w[1], w[2])

IInv == RowTypes /\ WritesInv /\ RowsInv
-----------------------------------------------------------------------------
LEMMA InitInv == Init => IInv
BY DEF Init, IInv, RowTypes, WritesInv, RowsInv

\* What a change of the locations ls does that writes them through.
LEMMA ChangeInv ==
  ASSUME IInv, NEW ls \in SUBSET Locations, PersistLocations(ls), up, up',
         location' \in [Locations -> ShardLocation \cup {None}],
         \A l \in Locations \ ls : location'[l] = location[l],
         \A l \in ls : location'[l] # None,
         \A l \in ls : location[l] # None =>
           location'[l].miner = location[l].miner /\ location'[l].shard = location[l].shard,
         \A l \in ls : location[l] = None => row[l] = None
  PROVE  IInv'
<1>1. /\ scheduled' = [l \in Locations |-> scheduled[l] + IF l \in ls THEN 1 ELSE 0]
      /\ row' = row /\ writing' = writing /\ begun' = begun
  BY DEF PersistLocations, databaseVars
<1>2. /\ \A l \in ls : scheduled'[l] > 0
      /\ \A l \in Locations \ ls : scheduled'[l] = scheduled[l]
      /\ scheduled' \in [Locations -> Nat]
  <2>1. \A l \in Locations : scheduled[l] \in Nat
    BY DEF IInv, RowTypes
  <2> QED
    BY <1>1, <2>1
<1>3. RowTypes'
  BY <1>1, <1>2 DEF IInv, RowTypes
<1>4. WritesInv'
  <2>1. \A l \in Locations : location[l] # None => location'[l] # None
    OBVIOUS
  <2>2. \A w \in writing : w[1] \in Locations
    BY DEF IInv, RowTypes
  <2> QED
    BY <1>1, <1>2, <2>1, <2>2 DEF IInv, WritesInv
<1>5. ASSUME NEW l \in Locations, NEW r, RowOf(l, r), Current(l, r),
             location[l] # None \/ l \notin ls
      PROVE  RowOf(l, r)' /\ Current(l, r)'
  <2>1. CASE l \in ls
    <3>1. RowOf(l, r)'
      BY <1>1, <1>5, <2>1 DEF RowOf
    <3>2. ~(scheduled'[l] = 0)
      BY <1>2, <2>1
    <3> QED
      BY <3>1, <3>2 DEF Current
  <2>2. CASE l \notin ls
    <3>1. location'[l] = location[l] /\ scheduled'[l] = scheduled[l]
      BY <1>2, <2>2
    <3> QED
      BY <1>1, <1>5, <3>1 DEF RowOf, Current
  <2> QED
    BY <2>1, <2>2
<1>6. RowsInv'
  <2>1. ASSUME NEW l \in Locations, row[l] # None
        PROVE  RowOf(l, row[l])' /\ Current(l, row[l])'
    BY <1>1, <1>5, <2>1 DEF IInv, RowsInv, RowOf, Current
  <2>2. ASSUME NEW w \in writing
        PROVE  RowOf(w[1], w[2])' /\ Current(w[1], w[2])'
    <3>1. w[1] \in Locations /\ location[w[1]] # None
      BY DEF IInv, RowTypes, WritesInv
    <3>2. RowOf(w[1], w[2]) /\ Current(w[1], w[2])
      BY DEF IInv, RowsInv
    <3> QED
      BY <1>5, <3>1, <3>2 DEF RowOf, Current
  <2> QED
    BY <1>1, <2>1, <2>2 DEF RowsInv
<1> QED
  BY <1>3, <1>4, <1>6 DEF IInv
-----------------------------------------------------------------------------
LEMMA RegisterInv ==
  ASSUME IInv, NEW m \in Miners, NEW k \in Shards, NEW h \in Hashes, RegisterShard(m, k, h)
  PROVE  IInv'
<1> DEFINE new == [miner |-> m, shard |-> k, state |-> "loaded", hash |-> h, webrtc |-> FALSE]
<1>1. PICK l \in Locations \ Registered :
        /\ row[l] = None
        /\ location' = [location EXCEPT ![l] = new]
        /\ PersistLocations({l})
  BY DEF RegisterShard
<1>2. new \in ShardLocation
  BY DEF ShardLocation, ShardState
<1>3. new # None
  BY <1>2, RowAssumption
<1>4. location \in [Locations -> ShardLocation \cup {None}] /\ location[l] = None
  BY <1>1 DEF IInv, RowTypes, Registered
<1>5. location'[l] = new /\ \A o \in Locations \ {l} : location'[o] = location[o]
  BY <1>1, <1>4
<1>6. location' \in [Locations -> ShardLocation \cup {None}]
  BY <1>1, <1>2, <1>4
<1>7. up /\ up'
  BY DEF RegisterShard
<1> HIDE DEF new
<1> QED
  BY <1>1, <1>3, <1>4, <1>5, <1>6, <1>7, ChangeInv

\* A change of state or hash.
LEMMA UpdateInv ==
  ASSUME IInv, NEW l \in Locations, NEW state \in ShardState, NEW h \in Hashes,
         UpdateShardState(l, state, h)
  PROVE  IInv'
<1>1. location[l] # None /\ location[l] \in ShardLocation
  BY DEF UpdateShardState, Registered, IInv, RowTypes
<1> DEFINE hash == IF h = NoHash THEN location[l].hash ELSE h
<1>2. location' = [location EXCEPT ![l].state = state, ![l].hash = hash]
  BY <1>1 DEF UpdateShardState
<1> HIDE DEF hash
<1>9. hash \in Hashes
  BY <1>1 DEF hash, ShardLocation
<1>3. location \in [Locations -> ShardLocation \cup {None}]
  BY DEF IInv, RowTypes
<1>4. /\ location'[l] = [location[l] EXCEPT !.state = state, !.hash = hash]
      /\ \A o \in Locations \ {l} : location'[o] = location[o]
  BY <1>2, <1>3
<1>5. /\ location'[l] \in ShardLocation
      /\ location'[l].miner = location[l].miner
      /\ location'[l].shard = location[l].shard
  BY <1>1, <1>4, <1>9 DEF ShardLocation
<1>6. location'[l] # None
  BY <1>5, RowAssumption
<1>7. location' \in [Locations -> ShardLocation \cup {None}]
  BY <1>2, <1>3, <1>4, <1>5
<1>8. up /\ up' /\ PersistLocations({l})
  BY DEF UpdateShardState
<1> QED
  BY <1>1, <1>4, <1>5, <1>6, <1>7, <1>8, ChangeInv

LEMMA OrphanInv ==
  ASSUME IInv, NEW m \in Miners, OrphanMinerShards(m)
  PROVE  IInv'
<1> DEFINE ls == Orphans(m)
<1>1. \A l \in ls : l \in Locations /\ location[l] # None /\ location[l] \in ShardLocation
  BY DEF Orphans, ShardsOfMiner, Registered, IInv, RowTypes
<1>2. location' = [l \in Locations |->
        IF l \in ls THEN [location[l] EXCEPT !.state = "orphaned"] ELSE location[l]]
  BY DEF OrphanMinerShards
<1> HIDE DEF ls
<1>3. \A l \in ls : location'[l] = [location[l] EXCEPT !.state = "orphaned"]
  BY <1>1, <1>2
<1>4. \A l \in ls : /\ location'[l] \in ShardLocation
                    /\ location'[l].miner = location[l].miner
                    /\ location'[l].shard = location[l].shard
  <2> SUFFICES ASSUME NEW l \in ls
               PROVE  /\ location'[l] \in ShardLocation
                      /\ location'[l].miner = location[l].miner
                      /\ location'[l].shard = location[l].shard
    OBVIOUS
  <2>1. location[l] \in ShardLocation /\ location'[l] = [location[l] EXCEPT !.state = "orphaned"]
    BY <1>1, <1>3
  <2> QED
    BY <2>1 DEF ShardLocation, ShardState
<1>5. \A l \in ls : location'[l] # None
  BY <1>4, RowAssumption
<1>6. \A l \in Locations \ ls : location'[l] = location[l]
  BY <1>2
<1>7. location' \in [Locations -> ShardLocation \cup {None}]
  <2>1. \A l \in Locations : location'[l] \in ShardLocation \cup {None}
    BY <1>4, <1>6 DEF IInv, RowTypes
  <2> QED
    BY <1>2, <2>1
<1>8. up /\ up' /\ PersistLocations(ls)
  BY DEF OrphanMinerShards, ls
<1> QED
  BY <1>1, <1>4, <1>5, <1>6, <1>7, <1>8, ChangeInv

\* The WebRTC fields are in no row.
LEMMA WebrtcInv ==
  ASSUME IInv, NEW m \in Miners, UpdateMinerWebrtcInfo(m)
  PROVE  IInv'
<1> DEFINE ls == ShardsOfMiner(m)
<1>1. \A l \in ls : l \in Locations /\ location[l] # None /\ location[l] \in ShardLocation
  BY DEF ShardsOfMiner, Registered, IInv, RowTypes
<1>2. location' = [l \in Locations |->
        IF l \in ls THEN [location[l] EXCEPT !.webrtc = TRUE] ELSE location[l]]
  BY DEF UpdateMinerWebrtcInfo
<1> HIDE DEF ls
<1>3. \A l \in ls : location'[l] = [location[l] EXCEPT !.webrtc = TRUE]
  BY <1>1, <1>2
<1>4. \A l \in Locations :
        /\ location'[l] \in ShardLocation \cup {None}
        /\ location[l] = None <=> location'[l] = None
        /\ location[l] # None =>
             /\ location'[l].miner = location[l].miner
             /\ location'[l].shard = location[l].shard
             /\ location'[l].state = location[l].state
             /\ location'[l].hash = location[l].hash
  <2> SUFFICES ASSUME NEW l \in Locations
               PROVE  /\ location'[l] \in ShardLocation \cup {None}
                      /\ location[l] = None <=> location'[l] = None
                      /\ location[l] # None =>
                           /\ location'[l].miner = location[l].miner
                           /\ location'[l].shard = location[l].shard
                           /\ location'[l].state = location[l].state
                           /\ location'[l].hash = location[l].hash
    OBVIOUS
  <2>1. CASE l \in ls
    <3>1. /\ location'[l] \in ShardLocation
          /\ location'[l].miner = location[l].miner
          /\ location'[l].shard = location[l].shard
          /\ location'[l].state = location[l].state
          /\ location'[l].hash = location[l].hash
      BY <1>1, <1>3, <2>1 DEF ShardLocation
    <3>2. location'[l] # None
      BY <3>1, RowAssumption
    <3> QED
      BY <1>1, <2>1, <3>1, <3>2
  <2>2. CASE l \notin ls
    BY <1>2, <2>2 DEF IInv, RowTypes
  <2> QED
    BY <2>1, <2>2
<1>5. /\ scheduled' = scheduled /\ row' = row /\ writing' = writing /\ begun' = begun
      /\ up' = up
  BY DEF UpdateMinerWebrtcInfo, databaseVars
<1>6. location' \in [Locations -> ShardLocation \cup {None}]
  BY <1>2, <1>4
<1>7. \A w \in writing : w[1] \in Locations
  BY DEF IInv, RowTypes
<1>8. ASSUME NEW l \in Locations, NEW r, RowOf(l, r), Current(l, r)
      PROVE  RowOf(l, r)' /\ Current(l, r)'
  BY <1>4, <1>5, <1>8 DEF RowOf, Current
<1>9. RowsInv'
  <2>1. ASSUME NEW l \in Locations, row'[l] # None
        PROVE  RowOf(l, row[l])' /\ Current(l, row[l])'
    BY <1>5, <1>8, <2>1 DEF IInv, RowsInv, RowOf, Current
  <2>2. ASSUME NEW w \in writing'
        PROVE  RowOf(w[1], w[2])' /\ Current(w[1], w[2])'
    BY <1>5, <1>7, <1>8 DEF IInv, RowsInv, RowOf, Current
  <2> QED
    BY <2>1, <2>2 DEF RowsInv
<1>10. RowTypes'
  BY <1>5, <1>6 DEF IInv, RowTypes
<1>11. WritesInv'
  BY <1>4, <1>5, <1>7 DEF IInv, WritesInv
<1> QED
  BY <1>9, <1>10, <1>11 DEF IInv
-----------------------------------------------------------------------------
\* A write that begins has the number after the last, and is of l as it is.
LEMMA BeginWriteInv ==
  ASSUME IInv, NEW l \in Locations, BeginWrite(l)
  PROVE  IInv'
<1>1. /\ location \in [Locations -> ShardLocation \cup {None}]
      /\ row \in [Locations -> Row \cup {None}]
      /\ writing \subseteq Locations \X Row
      /\ scheduled \in [Locations -> Nat]
      /\ begun \in [Locations -> Nat]
      /\ location[l] # None
  BY DEF BeginWrite, IInv, RowTypes, WritesInv
<1>2. location[l] \in ShardLocation /\ begun[l] + 1 \in Nat
  BY <1>1
<1>3. PICK new \in Row :
        new = [miner |-> location[l].miner, shard |-> location[l].shard,
               state |-> location[l].state, hash |-> location[l].hash,
               order |-> begun[l] + 1]
  BY <1>2 DEF ShardLocation, Row
<1>4. /\ scheduled[l] > 0
      /\ scheduled' = [scheduled EXCEPT ![l] = @ - 1]
      /\ begun' = [begun EXCEPT ![l] = @ + 1]
      /\ writing' = writing \cup {<<l, new>>}
      /\ up' = up /\ location' = location /\ row' = row
  BY <1>3 DEF BeginWrite, memoryVars
<1>5. /\ scheduled' \in [Locations -> Nat] /\ begun' \in [Locations -> Nat]
      /\ begun'[l] = begun[l] + 1
      /\ \A o \in Locations \ {l} : scheduled'[o] = scheduled[o] /\ begun'[o] = begun[o]
      /\ \A o \in Locations : scheduled'[o] > 0 => scheduled[o] > 0
  BY <1>4, <1>1
<1>6. RowTypes'
  BY <1>4, <1>1, <1>3, <1>5 DEF RowTypes
<1>7. up
  BY <1>1 DEF IInv, WritesInv
<1>8. WritesInv'
  <2>1. \A w \in writing' : w \in writing \/ w[1] = l
    BY <1>4
  <2> QED
    BY <1>4, <1>1, <1>5, <1>7, <2>1 DEF IInv, WritesInv
\* What was written before is of this location no more current.
<1>9. ASSUME NEW o \in Locations, NEW r \in Row, RowOf(o, r), Current(o, r)
      PROVE  RowOf(o, r)' /\ Current(o, r)'
  <2>1. r.order \in Nat /\ begun[o] \in Nat
    BY <1>1 DEF Row
  <2>2. CASE o = l
    <3>1. r.order <= begun[l]
      BY <1>9, <2>2 DEF RowOf
    <3>2. r.order <= begun'[l] /\ r.order # begun'[l]
      BY <1>5, <2>1, <2>2, <3>1
    <3> QED
      BY <1>4, <1>9, <2>2, <3>2 DEF RowOf, Current
  <2>3. CASE o # l
    BY <1>4, <1>5, <1>9, <2>3 DEF RowOf, Current
  <2> QED
    BY <2>2, <2>3
<1>10. RowOf(l, new)' /\ Current(l, new)'
  BY <1>4, <1>1, <1>3, <1>5 DEF RowOf, Current
<1>11. RowsInv'
  <2>1. ASSUME NEW o \in Locations, row[o] # None
        PROVE  RowOf(o, row[o])' /\ Current(o, row[o])'
    <3>1. row[o] \in Row /\ RowOf(o, row[o]) /\ Current(o, row[o])
      BY <1>1, <2>1 DEF IInv, RowsInv
    <3> QED
      BY <1>4, <1>9, <3>1 DEF RowOf, Current
  <2>2. ASSUME NEW w \in writing'
        PROVE  RowOf(w[1], w[2])' /\ Current(w[1], w[2])'
    <3>1. CASE w \in writing
      <4>1. w[1] \in Locations /\ w[2] \in Row /\ RowOf(w[1], w[2]) /\ Current(w[1], w[2])
        BY <1>1, <3>1 DEF IInv, RowsInv
      <4> QED
        BY <1>9, <4>1
    <3>2. CASE w = <<l, new>>
      <4>1. w[1] = l /\ w[2] = new
        BY <3>2
      <4> QED
        BY <1>10, <4>1 DEF RowOf, Current
    <3> QED
      BY <1>4, <3>1, <3>2
  <2> QED
    BY <1>4, <2>1, <2>2 DEF RowsInv
<1> QED
  BY <1>6, <1>8, <1>11 DEF IInv

\* The row takes state, hash and number of the write, and is of the same miner
\* and shard already.
LEMMA CommitWriteInv ==
  ASSUME IInv, NEW l \in Locations, NEW new \in Row, <<l, new>> \in writing,
         CommitWrite(l, new)
  PROVE  IInv'
<1>1. /\ writing' = writing \ {<<l, new>>}
      /\ row' = [row EXCEPT ![l] = Upsert(@, new)]
      /\ up' = up /\ location' = location /\ scheduled' = scheduled /\ begun' = begun
  BY DEF CommitWrite, memoryVars
<1>2. /\ row \in [Locations -> Row \cup {None}]
      /\ writing \subseteq Locations \X Row
      /\ location[l] # None
  BY DEF IInv, RowTypes, WritesInv
<1>3. RowOf(l, new) /\ Current(l, new)
  BY DEF IInv, RowsInv
<1>4. /\ row'[l] = Upsert(row[l], new)
      /\ \A o \in Locations \ {l} : row'[o] = row[o]
  BY <1>1, <1>2
<1>5. /\ row'[l] \in Row
      /\ row'[l].order = new.order /\ row'[l].state = new.state /\ row'[l].hash = new.hash
      /\ row'[l].miner = location[l].miner /\ row'[l].shard = location[l].shard
  <2>1. new.miner = location[l].miner /\ new.shard = location[l].shard
    BY <1>2, <1>3 DEF RowOf
  <2>2. CASE row[l] = None
    BY <1>4, <2>1, <2>2 DEF Upsert
  <2>3. CASE row[l] # None
    <3>1. row[l] \in Row /\ RowOf(l, row[l])
      BY <1>2, <2>3 DEF IInv, RowsInv
    <3>2. row[l].miner = location[l].miner /\ row[l].shard = location[l].shard
      BY <1>2, <3>1 DEF RowOf
    <3>3. row'[l] = [row[l] EXCEPT !.state = new.state, !.hash = new.hash, !.order = new.order]
      BY <1>4, <2>3 DEF Upsert
    <3> QED
      BY <3>1, <3>2, <3>3 DEF Row
  <2> QED
    BY <2>2, <2>3
<1>6. RowTypes'
  <2>1. row' \in [Locations -> Row \cup {None}]
    BY <1>1, <1>2, <1>4, <1>5
  <2> QED
    BY <1>1, <2>1 DEF IInv, RowTypes
<1>7. WritesInv'
  BY <1>1 DEF IInv, WritesInv
<1>8. RowsInv'
  <2>1. ASSUME NEW o \in Locations, row'[o] # None
        PROVE  RowOf(o, row[o])' /\ Current(o, row[o])'
    <3>1. CASE o = l
      BY <1>1, <1>3, <1>5, <3>1 DEF RowOf, Current
    <3>2. CASE o # l
      BY <1>1, <1>4, <2>1, <3>2 DEF IInv, RowsInv, RowOf, Current
    <3> QED
      BY <3>1, <3>2
  <2>2. ASSUME NEW w \in writing'
        PROVE  RowOf(w[1], w[2])' /\ Current(w[1], w[2])'
    BY <1>1 DEF IInv, RowsInv, RowOf, Current
  <2> QED
    BY <2>1, <2>2 DEF RowsInv
<1> QED
  BY <1>6, <1>7, <1>8 DEF IInv

\* A restart finds no write under way; what it reloads are the rows themselves.
LEMMA LoadInv ==
  ASSUME IInv, LoadFromDb
  PROVE  IInv'
<1>1. /\ row' = row /\ writing' = writing /\ begun' = begun /\ scheduled' = scheduled
      /\ ~up /\ up'
  BY DEF LoadFromDb, databaseVars
<1>2. /\ writing = {}
      /\ \A l \in Locations : scheduled[l] = 0 /\ location[l] = None
  BY <1>1 DEF IInv, WritesInv
<1>3. row \in [Locations -> Row \cup {None}]
  BY DEF IInv, RowTypes
<1>4. CASE LoadLocations
  <2>1. \A l \in Locations :
          location'[l] = IF row[l] = None THEN None
                         ELSE [miner |-> row[l].miner, shard |-> row[l].shard,
                               state |-> row[l].state, hash |-> row[l].hash, webrtc |-> FALSE]
    BY <1>4 DEF LoadLocations
  <2>2. ASSUME NEW l \in Locations
        PROVE  location'[l] \in ShardLocation \cup {None}
    <3>1. CASE row[l] = None
      BY <2>1, <3>1
    <3>2. CASE row[l] # None
      <4>1. row[l] \in Row
        BY <1>3, <3>2
      <4>2. /\ row[l].miner \in Miners /\ row[l].shard \in Shards
            /\ row[l].state \in ShardState /\ row[l].hash \in Hashes
        BY <4>1 DEF Row
      <4>3. location'[l] = [miner |-> row[l].miner, shard |-> row[l].shard,
                            state |-> row[l].state, hash |-> row[l].hash, webrtc |-> FALSE]
        BY <2>1, <3>2
      <4> QED
        BY <4>2, <4>3 DEF ShardLocation
    <3> QED
      BY <3>1, <3>2
  <2>3. location' \in [Locations -> ShardLocation \cup {None}]
    BY <1>4, <2>2 DEF LoadLocations
  <2>4. RowTypes'
    BY <1>1, <2>3 DEF IInv, RowTypes
  <2>5. WritesInv'
    BY <1>1, <1>2 DEF WritesInv
  <2>6. ASSUME NEW l \in Locations, row[l] # None
        PROVE  RowOf(l, row[l])' /\ Current(l, row[l])'
    <3>1. RowOf(l, row[l])
      BY <2>6 DEF IInv, RowsInv
    <3>2. location'[l] = [miner |-> row[l].miner, shard |-> row[l].shard,
                          state |-> row[l].state, hash |-> row[l].hash, webrtc |-> FALSE]
      BY <2>1, <2>6
    <3>3. /\ location'[l].miner = row[l].miner /\ location'[l].shard = row[l].shard
          /\ location'[l].state = row[l].state /\ location'[l].hash = row[l].hash
      BY <3>2
    <3> QED
      BY <1>1, <3>1, <3>3 DEF RowOf, Current
  <2> QED
    BY <1>1, <1>2, <2>4, <2>5, <2>6 DEF IInv, RowsInv
<1>5. CASE UNCHANGED memoryVars
  <2>1. location' = location
    BY <1>5 DEF memoryVars
  <2> QED
    BY <1>1, <1>2, <2>1 DEF IInv, RowTypes, WritesInv, RowsInv, RowOf, Current
<1>6. LoadLocations \/ UNCHANGED memoryVars
  BY DEF LoadFromDb
<1> QED
  BY <1>4, <1>5, <1>6

LEMMA CrashInv ==
  ASSUME IInv, Crash
  PROVE  IInv'
BY DEF Crash, IInv, RowTypes, WritesInv, RowsInv, RowOf, Current

\* A failed write disturbs nothing.
LEMMA FailWriteInv ==
  ASSUME IInv, NEW w \in writing, FailWrite(w[1], w[2])
  PROVE  IInv'
BY DEF FailWrite, memoryVars, IInv, RowTypes, WritesInv, RowsInv, RowOf, Current

LEMMA StepInv == IInv /\ [Next]_registryVars => IInv'
<1> SUFFICES ASSUME IInv, [Next]_registryVars PROVE IInv'
  OBVIOUS
<1> DEFINE Same == UNCHANGED <<up, location, row, writing, scheduled, begun>>
<1>1. Same => IInv'
  BY DEF IInv, RowTypes, WritesInv, RowsInv, RowOf, Current
<1>2. ASSUME NEW m \in Miners, NEW k \in Shards, NEW h \in Hashes, RegisterShard(m, k, h)
      PROVE  IInv'
  BY <1>2, RegisterInv
<1>3. ASSUME NEW m \in Miners, OrphanMinerShards(m) \/ UpdateMinerWebrtcInfo(m)
      PROVE  IInv'
  BY <1>3, OrphanInv, WebrtcInv
<1>4. ASSUME NEW l \in Locations, NEW u \in Updates, UpdateShardState(l, u[1], u[2])
      PROVE  IInv'
  BY <1>4, UpdateInv, RowAssumption
<1>5. ASSUME NEW l \in Locations, BeginWrite(l) PROVE IInv'
  BY <1>5, BeginWriteInv
<1>6. ASSUME NEW w \in writing, CommitWrite(w[1], w[2]) \/ FailWrite(w[1], w[2])
      PROVE  IInv'
  <2>1. w[1] \in Locations /\ w[2] \in Row /\ w = <<w[1], w[2]>>
    BY DEF IInv, RowTypes
  <2> QED
    BY <1>6, <2>1, CommitWriteInv, FailWriteInv
<1>7. ASSUME NEW v \in versionWrites, EndVersionWrite(v) PROVE IInv'
  BY <1>1, <1>7 DEF EndVersionWrite, memoryVars
<1>8. CASE CreateVersionSnapshot
  BY <1>1, <1>8 DEF CreateVersionSnapshot
<1>9. CASE AggregateRound
  BY <1>1, <1>9 DEF AggregateRound, memoryVars, databaseVars
<1>10. CASE Crash
  BY <1>10, CrashInv
<1>11. CASE LoadFromDb
  BY <1>11, LoadInv
<1>12. CASE UNCHANGED registryVars
  BY <1>1, <1>12 DEF registryVars, memoryVars, databaseVars
<1> QED
  BY <1>2, <1>3, <1>4, <1>5, <1>6, <1>7, <1>8, <1>9, <1>10, <1>11, <1>12 DEF Next

\* The inductive invariant holds in every state of the registry.
THEOREM RegistryInvariant == Spec => []IInv
<1>1. Init => IInv
  BY InitInv
<1>2. IInv /\ [Next]_registryVars => IInv'
  BY StepInv
<1> QED
  BY <1>1, <1>2, PTL DEF Spec

\* Once the last write of _persist_location has landed, the row of a location
\* agrees with memory: a write overtaken by an earlier one, or the failure of
\* the last, is all that leaves the database behind.
THEOREM RowsAgree == Spec => []RowsFollowMemory
<1>1. IInv => RowsFollowMemory
  BY DEF IInv, RowsInv, RowOf, Current, RowsFollowMemory, LastWriteLanded, Registered
<1> QED
  BY <1>1, RegistryInvariant, PTL
-----------------------------------------------------------------------------
(* Redistribution plans *)

LEMMA ReplicasAreFinite ==
  ASSUME NEW k
  PROVE  /\ IsFiniteSet(Sources(k)) /\ ReplicaCount(k) \in Nat
         /\ ReplicaCount(k) = 0 <=> Sources(k) = {}
<1>1. Sources(k) \subseteq Locations
  BY DEF Sources, ReplicasOf, Registered
<1>2. IsFiniteSet(Sources(k))
  BY <1>1, RegistryAssumption, FS_Subset
<1> QED
  BY <1>2, FS_CardinalityType, FS_EmptySet DEF ReplicaCount

\* What plan_redistribution gets right in every state: see PlanReachesTarget.
LEMMA PlansReachTarget == PlanReachesTarget
<1> SUFFICES ASSUME NEW k \in Shards, NEW free \in SUBSET Miners, NEW p \in Plans(k, free)
             PROVE  /\ ReplicaCount(k) + Cardinality(p.targets) <= TargetReplicas
                    /\ \/ ReplicaCount(k) + Cardinality(p.targets) = TargetReplicas
                       \/ free \subseteq p.targets \cup {location[l].miner : l \in ReplicasOf(k)}
                    /\ p.source = None <=> ReplicaCount(k) = 0
                    /\ p.source # None => location[p.source].miner \notin p.targets
  BY DEF PlanReachesTarget
<1> DEFINE holders == {location[l].miner : l \in ReplicasOf(k)}
           candidates == free \ holders
           number == Min({Needed(k), Cardinality(candidates)})
           sources == IF Sources(k) = {} THEN {None} ELSE BestSources(k)
<1>1. UnderReplicated(k)
  BY DEF Plans
<1>2. PICK T \in kSubset(number, candidates), s \in sources : p = [targets |-> T, source |-> s]
  <2>0. Plans(k, free) =
          IF UnderReplicated(k)
          THEN {[targets |-> T, source |-> s] : T \in kSubset(number, candidates), s \in sources}
          ELSE {}
    BY DEF Plans
  <2> HIDE DEF number, candidates, sources
  <2> QED
    BY <1>1, <2>0
<1>3. p.targets = T /\ p.source = s
  BY <1>2
<1>4. IsFiniteSet(candidates) /\ Cardinality(candidates) \in Nat
  BY RegistryAssumption, FS_Subset, FS_CardinalityType
<1>5. T \subseteq candidates /\ Cardinality(T) = number
  BY <1>2 DEF kSubset
<1>6. ReplicaCount(k) \in Nat /\ ReplicaCount(k) < MinReplicas
  BY <1>1, ReplicasAreFinite DEF UnderReplicated
<1>7. Needed(k) \in Nat /\ ReplicaCount(k) + Needed(k) = TargetReplicas
  BY <1>6, RegistryAssumption DEF Needed
<1>8. \/ number = Needed(k) /\ Needed(k) <= Cardinality(candidates)
      \/ number = Cardinality(candidates) /\ Cardinality(candidates) <= Needed(k)
  <2> DEFINE c == Cardinality(candidates)
             n == Needed(k)
             S == {n, c}
  <2>0. number = Min(S)
    OBVIOUS
  <2>1. n \in Nat /\ c \in Nat
    BY <1>4, <1>7
  <2> HIDE DEF c, n
  <2>2. \E x \in S : \A y \in S : x <= y
    BY <2>1
  <2>3. Min(S) \in S /\ \A y \in S : Min(S) <= y
    BY <2>2 DEF Min
  <2>4. \/ Min(S) = n /\ n <= c
        \/ Min(S) = c /\ c <= n
    BY <2>3
  <2> HIDE DEF number
  <2> QED
    BY <2>0, <2>4 DEF c, n
<1>9. s \in Locations => s \in Sources(k)
  BY RegistryAssumption DEF BestSources
<1>10. /\ s = None <=> Sources(k) = {}
       /\ s # None => s \in Sources(k)
  <2>1. CASE Sources(k) = {}
    BY <2>1
  <2>2. CASE Sources(k) # {}
    <3>1. s \in Sources(k)
      BY <2>2 DEF BestSources
    <3>2. s \in Locations
      BY <3>1 DEF Sources, ReplicasOf, Registered
    <3> QED
      BY <2>2, <3>1, <3>2, RegistryAssumption
  <2> QED
    BY <2>1, <2>2
<1> HIDE DEF number, sources
<1>11. /\ ReplicaCount(k) + Cardinality(T) <= TargetReplicas
       /\ ReplicaCount(k) + Cardinality(T) = TargetReplicas \/ Cardinality(T) = Cardinality(candidates)
  BY <1>4, <1>5, <1>6, <1>7, <1>8
<1>12. Cardinality(T) = Cardinality(candidates) => free \subseteq T \cup holders
  BY <1>4, <1>5, FS_Subset
<1>13. s # None => location[s].miner \notin T
  BY <1>5, <1>10 DEF Sources
<1> QED
  BY <1>3, <1>10, <1>11, <1>12, <1>13, ReplicasAreFinite

\* plan_redistribution never plans beyond target_replicas, plans less only if it
\* has used every free miner without a location of the shard, and takes the shard
\* from an available replica, on another miner, whenever there is one.
THEOREM EveryPlanReachesTarget == Spec => []PlanReachesTarget
BY PlansReachTarget, PTL
-----------------------------------------------------------------------------
(* One departure *)

LEMMA TwoOfMany ==
  ASSUME NEW S, IsFiniteSet(S), Cardinality(S) >= 2
  PROVE  \E x, y \in S : x # y
<1>1. PICK x : x \in S
  BY FS_EmptySet
<1>2. S # {x}
  BY FS_Singleton
<1> QED
  BY <1>1, <1>2

\* What becomes of two replicas that stand on different miners in one step.
LEMMA OneIsLeft ==
  ASSUME IInv, [Next]_registryVars, up, up', NEW k \in Shards,
         NEW l \in Sources(k), NEW o \in Sources(k), location[l].miner # location[o].miner
  PROVE  l \in Sources(k)' \/ o \in Sources(k)'
<1>1. /\ l \in Locations /\ location[l] # None /\ location[l].shard = k /\ IsAvailable(l)
      /\ o \in Locations /\ location[o] # None /\ location[o].shard = k /\ IsAvailable(o)
  BY DEF Sources, ReplicasOf, Registered
<1>2. /\ location[l] \in ShardLocation /\ location[o] \in ShardLocation
  BY <1>1 DEF IInv, RowTypes
<1>3. ASSUME NEW x \in {l, o}, location'[x] = location[x] PROVE x \in Sources(k)'
  BY <1>1, <1>3 DEF Sources, ReplicasOf, Registered, IsAvailable
<1>4. location = [x \in Locations |-> location[x]]
  BY DEF IInv, RowTypes
<1>5. ASSUME NEW m \in Miners, NEW j \in Shards, NEW h \in Hashes, RegisterShard(m, j, h)
      PROVE  location'[l] = location[l]
  BY <1>1, <1>4, <1>5 DEF RegisterShard, Registered
<1>6. ASSUME NEW m \in Miners, OrphanMinerShards(m)
      PROVE  \E x \in {l, o} : location'[x] = location[x]
  BY <1>1, <1>6 DEF OrphanMinerShards, Orphans, ShardsOfMiner
<1>7. ASSUME NEW m \in Miners, UpdateMinerWebrtcInfo(m)
      PROVE  l \in Sources(k)'
  <2>1. location'[l] \in {location[l], [location[l] EXCEPT !.webrtc = TRUE]}
    BY <1>1, <1>7 DEF UpdateMinerWebrtcInfo
  <2>2. location'[l] \in ShardLocation /\ location'[l].shard = k /\ location'[l].state = location[l].state
    BY <1>1, <1>2, <2>1 DEF ShardLocation
  <2> QED
    BY <1>1, <2>2, RowAssumption DEF Sources, ReplicasOf, Registered, IsAvailable
<1>8. ASSUME NEW x \in Locations, NEW state \in ShardState, NEW h \in Hashes,
             UpdateShardState(x, state, h)
      PROVE  \E y \in {l, o} : location'[y] = location[y]
  BY <1>1, <1>4, <1>8 DEF UpdateShardState
<1>9. ASSUME location' = location PROVE l \in Sources(k)'
  BY <1>3, <1>9
<1>10. ASSUME NEW x \in Locations, BeginWrite(x) PROVE location' = location
  BY <1>10 DEF BeginWrite, memoryVars
<1>11. ASSUME NEW w \in writing, CommitWrite(w[1], w[2]) \/ FailWrite(w[1], w[2])
       PROVE  location' = location
  BY <1>11 DEF CommitWrite, FailWrite, memoryVars
<1>12. ASSUME NEW v \in versionWrites, EndVersionWrite(v) PROVE location' = location
  BY <1>12 DEF EndVersionWrite, memoryVars
<1>13. CreateVersionSnapshot \/ AggregateRound => location' = location
  BY DEF CreateVersionSnapshot, AggregateRound, memoryVars
<1>14. ~Crash /\ ~LoadFromDb
  BY DEF Crash, LoadFromDb
<1>15. UNCHANGED registryVars => location' = location
  BY DEF registryVars, memoryVars
<1>16. \A u \in Updates : u[1] \in ShardState /\ u[2] \in Hashes
  BY RowAssumption
<1> QED
  BY <1>3, <1>5, <1>6, <1>7, <1>8, <1>9, <1>10, <1>11, <1>12, <1>13, <1>14, <1>15,
     <1>16 DEF Next

\* "No single miner failure loses data": orphan_miner_shards, and every other
\* step but a crash, leaves a source of each shard that had min_replicas of them on
\* different miners.  The policy's min_replicas is 2; with 1 it would not hold.
THEOREM OneDepartureLosesNothing ==
  ASSUME MinReplicas >= 2
  PROVE  Spec => NoSingleLoss
<1>1. ASSUME IInv, [Next]_registryVars
      PROVE  \A k \in Shards :
               up /\ up' /\ ReplicaCount(k) >= MinReplicas /\ OneReplicaEach(k) => Sources(k)' # {}
  <2> SUFFICES ASSUME NEW k \in Shards, up, up', ReplicaCount(k) >= MinReplicas, OneReplicaEach(k)
               PROVE  Sources(k)' # {}
    OBVIOUS
  <2>1. IsFiniteSet(Sources(k)) /\ Cardinality(Sources(k)) >= 2
    BY ReplicasAreFinite, RegistryAssumption DEF ReplicaCount
  <2>2. PICK l \in Sources(k), o \in Sources(k) : l # o
    BY <2>1, TwoOfMany
  <2>3. location[l].miner # location[o].miner
    BY <2>2 DEF OneReplicaEach
  <2> QED
    BY <1>1, <2>3, OneIsLeft
<1> QED
  BY <1>1, RegistryInvariant, PTL DEF Spec, NoSingleLoss
-----------------------------------------------------------------------------
(* Types *)

\* The budget of writes makes room for the number of the next.
TypeInv ==
  /\ TypeOK
  /\ \A l \in Locations : begun[l] + scheduled[l] <= MaxWrites

LEMMA PersistTypes ==
  ASSUME TypeInv, NEW ls \in SUBSET Locations, PersistLocations(ls)
  PROVE  /\ scheduled' \in [Locations -> Nat]
         /\ \A l \in Locations : begun'[l] + scheduled'[l] <= MaxWrites
         /\ \A l \in Locations \ ls : scheduled'[l] = scheduled[l]
         /\ UNCHANGED databaseVars
<1>1. /\ scheduled' = [l \in Locations |-> scheduled[l] + IF l \in ls THEN 1 ELSE 0]
      /\ begun' = begun /\ UNCHANGED databaseVars
      /\ \A l \in ls : begun[l] + scheduled[l] < MaxWrites
  BY DEF PersistLocations, databaseVars
<1>2. \A l \in Locations : scheduled[l] \in Nat /\ begun[l] \in Nat
  BY RegistryAssumption DEF TypeInv, TypeOK
<1> QED
  BY <1>1, <1>2, RegistryAssumption DEF TypeInv

LEMMA TypeInitInv == Init => TypeInv
BY RegistryAssumption DEF Init, TypeInv, TypeOK

LEMMA LoadTypes ==
  ASSUME IInv, TypeInv, LoadFromDb
  PROVE  TypeInv'
<1>1. /\ up' = TRUE /\ serverStep' = serverStep /\ scheduled' = scheduled /\ row' = row
      /\ versionRows' = versionRows /\ writing' = writing /\ begun' = begun
      /\ versionWrites' = versionWrites
  BY DEF LoadFromDb, databaseVars
<1>2. LoadLocations => location' \in [Locations -> ShardLocation \cup {None}]
  <2>1. \A l \in Locations : row[l] # None => row[l] \in Row
    BY DEF TypeInv, TypeOK
  <2> QED
    BY <2>1 DEF LoadLocations, Row, ShardLocation
<1>3. LoadVersions => versions' \in [0..MaxStep -> Snapshot \cup {None}] /\ latest' \in 0..MaxStep
  <2> DEFINE S == {v.step : v \in versionRows} \cup {0}
  <2>1. S \subseteq 0..MaxStep /\ S # {} /\ MaxStep \in Nat
    BY RegistryAssumption DEF TypeInv, TypeOK
  <2> HIDE DEF S
  <2>2. \E x \in S : \A y \in S : x >= y
    BY <2>1, MaxOfBounded
  <2>3. Max(S) \in S
    BY <2>2 DEF Max
  <2> QED
    BY <2>1, <2>3 DEF LoadVersions, S
<1>4. /\ location' \in [Locations -> ShardLocation \cup {None}]
      /\ versions' \in [0..MaxStep -> Snapshot \cup {None}]
      /\ latest' \in 0..MaxStep
  BY <1>2, <1>3 DEF LoadFromDb, memoryVars, TypeInv, TypeOK
<1>5. \A l \in Locations : scheduled'[l] = 0
  BY <1>1 DEF LoadFromDb, IInv, WritesInv
<1> QED
  BY <1>1, <1>4, <1>5 DEF TypeInv, TypeOK

LEMMA TypeStep == IInv /\ TypeInv /\ [Next]_registryVars => TypeInv'
<1> SUFFICES ASSUME IInv, TypeInv, [Next]_registryVars PROVE TypeInv'
  OBVIOUS
<1> USE DEF TypeInv, TypeOK
\* A change of locations that is written through.
<1>1. ASSUME NEW ls \in SUBSET Locations, PersistLocations(ls),
             UNCHANGED <<up, versions, latest, serverStep>>,
             location' \in [Locations -> ShardLocation \cup {None}],
             \A l \in Locations : location[l] # None => location'[l] # None,
             \A l \in ls : location'[l] # None
      PROVE  TypeInv'
  BY <1>1, PersistTypes DEF databaseVars
<1>2. ASSUME NEW m \in Miners, NEW k \in Shards, NEW h \in Hashes, RegisterShard(m, k, h)
      PROVE  TypeInv'
  <2> DEFINE new == [miner |-> m, shard |-> k, state |-> "loaded", hash |-> h, webrtc |-> FALSE]
  <2>1. PICK l \in Locations :
          location' = [location EXCEPT ![l] = new] /\ PersistLocations({l})
    BY <1>2 DEF RegisterShard, Registered
  <2>2. new \in ShardLocation
    BY DEF ShardLocation, ShardState
  <2> HIDE DEF new
  <2>3. {l} \in SUBSET Locations /\ UNCHANGED <<up, versions, latest, serverStep>>
    BY <1>2 DEF RegisterShard
  <2> QED
    BY <1>1, <2>1, <2>2, <2>3, RowAssumption
<1>3. ASSUME NEW m \in Miners, OrphanMinerShards(m) PROVE TypeInv'
  <2> DEFINE new(l) == [location[l] EXCEPT !.state = "orphaned"]
  <2>1. \A l \in Locations : location[l] # None => new(l) \in ShardLocation
    BY DEF ShardLocation, ShardState
  <2>2. /\ location' = [l \in Locations |-> IF l \in Orphans(m) THEN new(l) ELSE location[l]]
        /\ PersistLocations(Orphans(m)) /\ UNCHANGED <<up, versions, latest, serverStep>>
    BY <1>3 DEF OrphanMinerShards
  <2>3. Orphans(m) \in SUBSET Locations /\ \A l \in Orphans(m) : location[l] # None
    BY DEF Orphans, ShardsOfMiner, Registered
  <2> HIDE DEF new
  <2> QED
    BY <1>1, <2>1, <2>2, <2>3, RowAssumption
<1>4. ASSUME NEW m \in Miners, UpdateMinerWebrtcInfo(m) PROVE TypeInv'
  <2> DEFINE new(l) == [location[l] EXCEPT !.webrtc = TRUE]
  <2>1. \A l \in Locations : location[l] # None => new(l) \in ShardLocation
    BY DEF ShardLocation
  <2>2. /\ location' = [l \in Locations |-> IF l \in ShardsOfMiner(m) THEN new(l) ELSE location[l]]
        /\ UNCHANGED <<up, versions, latest, serverStep, scheduled, databaseVars>>
    BY <1>4 DEF UpdateMinerWebrtcInfo
  <2>3. \A l \in ShardsOfMiner(m) : location[l] # None
    BY DEF ShardsOfMiner, Registered
  <2> HIDE DEF new
  <2> QED
    BY <2>1, <2>2, <2>3, RowAssumption DEF databaseVars
<1>5. ASSUME NEW l \in Locations, NEW state \in ShardState, NEW h \in Hashes,
             UpdateShardState(l, state, h)
      PROVE  TypeInv'
  <2> DEFINE hash == IF h = NoHash THEN location[l].hash ELSE h
             new == [location[l] EXCEPT !.state = state, !.hash = hash]
  <2>1. location[l] # None
    BY <1>5 DEF UpdateShardState, Registered
  <2>2. new \in ShardLocation /\ new # None
    BY <2>1, RowAssumption DEF ShardLocation
  <2>3. /\ location' = [location EXCEPT ![l] = new]
        /\ PersistLocations({l}) /\ UNCHANGED <<up, versions, latest, serverStep>>
    BY <1>5 DEF UpdateShardState
  <2> HIDE DEF new
  <2> QED
    BY <1>1, <2>2, <2>3
<1>6. ASSUME NEW l \in Locations, BeginWrite(l) PROVE TypeInv'
  <2> DEFINE r == [miner |-> location[l].miner, shard |-> location[l].shard,
                   state |-> location[l].state, hash |-> location[l].hash,
                   order |-> begun[l] + 1]
  <2>1. /\ scheduled[l] > 0 /\ scheduled' = [scheduled EXCEPT ![l] = @ - 1]
        /\ begun' = [begun EXCEPT ![l] = @ + 1]
        /\ writing' = writing \cup {<<l, r>>}
        /\ UNCHANGED <<up, memoryVars, serverStep, row, versionRows, versionWrites>>
    BY <1>6 DEF BeginWrite
  <2>2. begun[l] \in Nat /\ begun[l] + scheduled[l] <= MaxWrites /\ scheduled[l] \in Nat
    BY RegistryAssumption
  <2>3. r \in Row
    BY <2>1, <2>2 DEF ShardLocation, Row
  <2>4. begun[l] + 1 \in 0..MaxWrites /\ scheduled[l] - 1 \in Nat
    BY <2>1, <2>2, RegistryAssumption
  <2> HIDE DEF r
  <2>5. /\ writing' \subseteq Locations \X Row
        /\ begun' \in [Locations -> 0..MaxWrites] /\ scheduled' \in [Locations -> Nat]
    BY <2>1, <2>3, <2>4
  <2>6. \A o \in Locations : begun'[o] + scheduled'[o] = begun[o] + scheduled[o]
    BY <2>1, <2>2, RegistryAssumption
  <2>7. \A o \in Locations : scheduled'[o] > 0 => scheduled[o] > 0
    BY <2>1
  <2> QED
    BY <2>1, <2>5, <2>6, <2>7 DEF memoryVars
<1>7. ASSUME NEW w \in writing, CommitWrite(w[1], w[2]) PROVE TypeInv'
  <2>1. w[1] \in Locations /\ w[2] \in Row
    OBVIOUS
  <2>2. Upsert(row[w[1]], w[2]) \in Row
    BY <2>1 DEF Upsert, Row
  <2>3. row' \in [Locations -> Row \cup {None}]
    BY <1>7, <2>1, <2>2 DEF CommitWrite
  <2>4. /\ writing' \subseteq writing
        /\ UNCHANGED <<up, memoryVars, serverStep, scheduled, versionRows, begun, versionWrites>>
    BY <1>7 DEF CommitWrite
  <2> QED
    BY <2>3, <2>4 DEF memoryVars
<1>8. ASSUME NEW w \in writing, FailWrite(w[1], w[2]) PROVE TypeInv'
  BY <1>8 DEF FailWrite, memoryVars
<1>9. ASSUME NEW v \in versionWrites, EndVersionWrite(v) PROVE TypeInv'
  BY <1>9 DEF EndVersionWrite, memoryVars
<1>10. CASE CreateVersionSnapshot
  <2>1. PICK hashes \in Snapshot :
          /\ versions' = [versions EXCEPT ![serverStep] = hashes]
          /\ versionWrites' = versionWrites \cup {[step |-> serverStep, hashes |-> hashes]}
    BY <1>10 DEF CreateVersionSnapshot
  <2> QED
    BY <1>10, <2>1 DEF CreateVersionSnapshot
<1>11. CASE AggregateRound
  BY <1>11, RegistryAssumption DEF AggregateRound, memoryVars, databaseVars
<1>12. CASE Crash
  <2>1. /\ up' = FALSE /\ latest' = 0 /\ serverStep' = 0 /\ writing' = {} /\ versionWrites' = {}
        /\ location' = [l \in Locations |-> None]
        /\ versions' = [n \in 0..MaxStep |-> None]
        /\ scheduled' = [l \in Locations |-> 0]
        /\ row' = row /\ versionRows' = versionRows /\ begun' = begun
    BY <1>12 DEF Crash
  <2>2. 0 \in 0..MaxStep /\ \A l \in Locations : begun[l] + 0 <= MaxWrites /\ scheduled'[l] = 0
    BY <2>1, RegistryAssumption
  <2>3. /\ location' \in [Locations -> ShardLocation \cup {None}]
        /\ versions' \in [0..MaxStep -> Snapshot \cup {None}]
        /\ scheduled' \in [Locations -> Nat]
    BY <2>1
  <2>4. /\ latest' \in 0..MaxStep /\ serverStep' \in 0..MaxStep
        /\ \A l \in Locations : begun'[l] + scheduled'[l] <= MaxWrites
        /\ \A l \in Locations : ~(scheduled'[l] > 0)
    BY <2>1, <2>2
  <2>5. /\ row' \in [Locations -> Row \cup {None}]
        /\ versionRows' \subseteq [step : 0..MaxStep, hashes : Snapshot]
        /\ begun' \in [Locations -> 0..MaxWrites]
    BY <2>1
  <2>6. /\ writing' \subseteq Locations \X Row
        /\ versionWrites' \subseteq [step : 0..MaxStep, hashes : Snapshot]
    BY <2>1
  <2>7. up' \in BOOLEAN
    BY <2>1
  <2> QED
    BY <2>3, <2>4, <2>5, <2>6, <2>7
<1>13. CASE LoadFromDb
  BY <1>13, LoadTypes
<1>14. CASE UNCHANGED registryVars
  BY <1>14 DEF registryVars, memoryVars, databaseVars
<1>15. \A u \in Updates : u[1] \in ShardState /\ u[2] \in Hashes
  BY RowAssumption
<1> QED
  BY <1>2, <1>3, <1>4, <1>5, <1>6, <1>7, <1>8, <1>9, <1>10, <1>11, <1>12, <1>13, <1>14,
     <1>15 DEF Next

\* Every variable keeps its type; in particular the latest version, which
\* load_from_db recovers as the greatest step of any snapshot, is a step there is,
\* and no more writes are begun of a location than were scheduled.
THEOREM RegistryTypes == Spec => []TypeOK
<1>1. Init => TypeInv
  BY TypeInitInv
<1>2. IInv /\ TypeInv /\ [Next]_registryVars => TypeInv'
  BY TypeStep
<1>3. TypeInv => TypeOK
  BY DEF TypeInv
<1> QED
  BY <1>1, <1>2, <1>3, RegistryInvariant, PTL DEF Spec
-----------------------------------------------------------------------------
(* The latest version *)

\* The latest version, whose hashes verify_shard_integrity takes by default, is one
\* there is: after a restart that found some of the snapshots, or none of them, and
\* after snapshots at the lower steps that a server which begins again at 0 is at.
\* If it were not, every reported hash would pass.
LatestIsThere == latest > 0 => versions[latest] # None

\* load_from_db: the greatest step of a stored snapshot has one.
LEMMA LoadLatest ==
  ASSUME TypeInv, LoadFromDb, latest' > 0, latest > 0 => versions[latest] # None
  PROVE  versions'[latest'] # None
<1>1. CASE LoadVersions
  <2> DEFINE S == {v.step : v \in versionRows} \cup {0}
             RowsOf(n) == {v.hashes : v \in {w \in versionRows : w.step = n}}
  <2>1. S \subseteq 0..MaxStep /\ S # {} /\ MaxStep \in Nat
    BY RegistryAssumption DEF TypeInv, TypeOK
  <2>2. latest' = Max(S) /\ \A n \in 0..MaxStep :
          versions'[n] \in IF RowsOf(n) = {} THEN {None} ELSE RowsOf(n)
    BY <1>1 DEF LoadVersions
  <2>3. \A v \in versionRows : v.hashes \in Snapshot
    BY DEF TypeInv, TypeOK
  <2>4. \A n : RowsOf(n) \subseteq Snapshot
    BY <2>3
  <2>5. \A n \in S : n # 0 => RowsOf(n) # {}
    OBVIOUS
  <2> HIDE DEF S, RowsOf
  <2>6. \E x \in S : \A y \in S : x >= y
    BY <2>1, MaxOfBounded
  <2>7. Max(S) \in S
    BY <2>6 DEF Max
  <2>8. latest' \in S /\ latest' \in 0..MaxStep /\ latest' # 0
    <3>1. latest' = Max(S)
      BY <2>2
    <3>2. latest' \in S
      BY <2>7, <3>1
    <3>3. latest' \in 0..MaxStep
      BY <2>1, <3>2
    <3> QED
      BY <2>1, <3>2, <3>3
  <2>9. versions'[latest'] \in Snapshot
    BY <2>2, <2>4, <2>5, <2>8
  <2> QED
    BY <2>9, RowAssumption
<1>2. CASE UNCHANGED <<versions, latest>>
  BY <1>2
<1> QED
  BY <1>1, <1>2 DEF LoadFromDb, memoryVars

\* Only a snapshot, a crash and a restart change the versions.
LEMMA LatestStep ==
  ASSUME TypeInv, LatestIsThere, [Next]_registryVars
  PROVE  LatestIsThere'
<1>1. CASE CreateVersionSnapshot
  <2>1. PICK hashes \in Snapshot : versions' = [versions EXCEPT ![serverStep] = hashes]
    BY <1>1 DEF CreateVersionSnapshot
  <2>2. latest' = serverStep /\ serverStep \in 0..MaxStep
    BY <1>1 DEF CreateVersionSnapshot, TypeInv, TypeOK
  <2>3. versions \in [0..MaxStep -> Snapshot \cup {None}]
    BY DEF TypeInv, TypeOK
  <2>4. versions'[latest'] = hashes
    BY <2>1, <2>2, <2>3
  <2> QED
    BY <2>4, RowAssumption DEF LatestIsThere
<1>2. CASE Crash
  BY <1>2 DEF Crash, LatestIsThere
<1>3. CASE LoadFromDb
  BY <1>3, LoadLatest DEF LatestIsThere
<1>4. CASE UNCHANGED <<versions, latest>>
  BY <1>4 DEF LatestIsThere
<1>5. ASSUME [Next]_registryVars, ~CreateVersionSnapshot, ~Crash, ~LoadFromDb
      PROVE  UNCHANGED <<versions, latest>>
  BY <1>5 DEF Next, registryVars, memoryVars, databaseVars, RegisterShard, OrphanMinerShards,
              UpdateMinerWebrtcInfo, UpdateShardState, BeginWrite, CommitWrite, FailWrite,
              EndVersionWrite, AggregateRound
<1> QED
  BY <1>1, <1>2, <1>3, <1>4, <1>5

\* create_version_snapshot and load_from_db: whichever snapshots were stored before
\* a crash and whatever steps come after it, verify_shard_integrity finds the latest
\* version.
THEOREM LatestVersionIsThere == Spec => []LatestIsThere
<1>1. Init => LatestIsThere
  BY DEF Init, LatestIsThere
<1>2. TypeInv /\ LatestIsThere /\ [Next]_registryVars => LatestIsThere'
  BY LatestStep
<1>3. Spec => []TypeInv
  <2>1. Init => TypeInv
    BY TypeInitInv
  <2>2. IInv /\ TypeInv /\ [Next]_registryVars => TypeInv'
    BY TypeStep
  <2> QED
    BY <2>1, <2>2, RegistryInvariant, PTL DEF Spec
<1> QED
  BY <1>1, <1>2, <1>3, PTL DEF Spec
=============================================================================
