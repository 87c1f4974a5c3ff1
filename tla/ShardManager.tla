---------------------------- MODULE ShardManager ----------------------------
(***************************************************************************)
(* Placement of model shards on miners (shard_manager.py): free miners are *)
(* formed into pipeline groups, each stage of a group holds one miner, a   *)
(* miner that leaves degrades its group, and liquid redistribution moves   *)
(* the orphaned stages to free miners.                                     *)
(*                                                                         *)
(* Every method runs without an await, so each is one action; the          *)
(* websocket handler awaits between a disconnect and the redistribution,   *)
(* so those are two.  VRAM, bandwidth and regions only rank the free       *)
(* miners: any of them may be picked here.                                 *)
(***************************************************************************)
EXTENDS Naturals, FiniteSets, Functions

CONSTANTS
  Miners,
  NoMiner,       \* an empty stage, an absent neighbour
  Nowhere,       \* a miner without an assignment
  MaxGroups,     \* bound: pipeline groups ever formed
  MaxStages,     \* bound: MAX_STAGES_PER_PIPELINE
  StageCounts    \* results compute_optimal_stages may return

ASSUME ShardAssumption ==
  /\ IsFiniteSet(Miners)
  /\ NoMiner \notin Miners
  /\ MaxGroups \in Nat
  /\ MaxStages \in Nat
  /\ StageCounts \subseteq 1..MaxStages
  /\ Nowhere \notin [group : 1..MaxGroups, stage : 0..(MaxStages - 1)]

VARIABLES
  available,     \* miners whose is_available flag is set
  assigned,      \* miner_assignments: where each miner sits
  created,       \* pipeline groups 1..created exist
  size,          \* num_stages of each group
  status,        \* PipelineStatus of each group
  stages         \* group.stages: miner, status and links of each stage

topology == <<assigned, created, size, status, stages>>
shardVars == <<available, topology>>

Groups == 1..MaxGroups
StageIds == 0..(MaxStages - 1)
Slots == Groups \X StageIds

\* Mistake: stages counted from one.
SlotFromOne(x) == [group |-> x[1], stage |-> x[2] + 1]

Slot(x) == [group |-> x[1], stage |-> x[2]]

Stage == [miner : Miners \cup {NoMiner},
          status : {"none", "assigned", "loading", "ready", "training"},
          up : Miners \cup {NoMiner},
          down : Miners \cup {NoMiner}]
Vacant == [miner |-> NoMiner, status |-> "none", up |-> NoMiner, down |-> NoMiner]

Place == {Nowhere} \cup [group : Groups, stage : StageIds]

TypeOK ==
  /\ available \subseteq Miners
  /\ assigned \in [Miners -> Place]
  /\ created \in 0..MaxGroups
  /\ size \in [Groups -> StageCounts \cup {0}]
  /\ status \in [Groups -> {"none", "forming", "loading", "ready", "training", "degraded"}]
  /\ stages \in [Groups -> [StageIds -> Stage]]

Init ==
  /\ available = {}
  /\ assigned = [m \in Miners |-> Nowhere]
  /\ created = 0
  /\ size = [g \in Groups |-> 0]
  /\ status = [g \in Groups |-> "none"]
  /\ stages = [g \in Groups |-> [i \in StageIds |-> Vacant]]
-----------------------------------------------------------------------------
Filled(g, i) == stages[g][i].miner # NoMiner

\* is_complete: every stage of the group has a miner (st: stages or stages').
Complete(st, g) == \A i \in StageIds : i < size[g] => st[g][i].miner # NoMiner

\* is_ready: ... and every one of them reported its shard loaded.
AllReady(st, g) ==
  /\ Complete(st, g)
  /\ \A i \in StageIds : st[g][i].miner # NoMiner => st[g][i].status = "ready"

\* Mistake: the flag alone makes a miner free, though a registration sets it anew.
AvailableMiners == available

FreeMiners == {m \in available : assigned[m] = Nowhere}

\* A registration replaces the capability record, whose flag starts out set.
RegisterMiner(m) ==
  /\ available' = available \cup {m}
  /\ UNCHANGED topology

-----------------------------------------------------------------------------
\* Who sits at stage i of group g once the miners of place have moved in.
Occupant(place, g, i) ==
  IF <<g, i>> \in DOMAIN place THEN place[<<g, i>>]
  ELSE IF i \in StageIds THEN stages[g][i].miner
  ELSE NoMiner

\* A stage taken over is linked to both neighbours, and its neighbours to it.
Above(place, g, i) == IF i = 0 THEN NoMiner ELSE Occupant(place, g, i - 1)
Below(place, g, i) == Occupant(place, g, i + 1)

Relinked(place, g, i) ==
  [stages[g][i] EXCEPT
     !.up   = IF i > 0 /\ <<g, i - 1>> \in DOMAIN place THEN place[<<g, i - 1>>] ELSE @,
     !.down = IF <<g, i + 1>> \in DOMAIN place THEN place[<<g, i + 1>>] ELSE @]

Home(place, m) == Slot(CHOOSE x \in DOMAIN place : place[x] = m)

\* The stages after place (a one-to-one map from slots to miners) is applied:
\* st is the status the new assignments start with.
MoveIn(place, st) ==
  /\ stages' = [g \in Groups |-> [i \in StageIds |->
       IF <<g, i>> \in DOMAIN place
       THEN [miner |-> place[<<g, i>>], status |-> st,
             up |-> Above(place, g, i), down |-> Below(place, g, i)]
       ELSE IF Filled(g, i) THEN Relinked(place, g, i) ELSE stages[g][i]]]
  /\ assigned' = [m \in Miners |->
       IF \E x \in DOMAIN place : place[x] = m THEN Home(place, m) ELSE assigned[m]]
  /\ available' = available \ {place[x] : x \in DOMAIN place}

\* form_pipeline_groups: as many full groups as the free miners fill, or one
\* partial group when they fill none.  The request's target_redundancy cancels
\* out of num_groups.
FormPipelineGroups(s) ==
  LET n      == Cardinality(FreeMiners)
      k      == IF n < s THEN 1 ELSE n \div s
      new    == (created + 1)..(created + k)
      spots  == {x \in Slots : x[1] \in new /\ x[2] < s /\ (n < s => x[2] < n)}
  IN  /\ n > 0
      /\ created + k <= MaxGroups
      /\ \E place \in Injection(spots, FreeMiners) : MoveIn(place, "assigned")
      /\ created' = created + k
      /\ size' = [g \in Groups |-> IF g \in new THEN s ELSE size[g]]
      /\ status' = [g \in Groups |->
           IF g \notin new THEN status[g] ELSE IF n < s THEN "forming" ELSE "loading"]

\* The report names the miner, not the shard: it marks whatever stage the miner
\* has by then.
ReportShardReady(m) ==
  LET g == assigned[m].group
      i == assigned[m].stage
  IN  /\ assigned[m] # Nowhere
      /\ stages' = [stages EXCEPT ![g][i].status = "ready"]
      /\ status' = [status EXCEPT ![g] = IF AllReady(stages', g) THEN "ready" ELSE @]
      /\ UNCHANGED <<available, assigned, created, size>>

StartTraining(g) ==
  /\ g <= created
  /\ AllReady(stages, g)
  /\ status' = [status EXCEPT ![g] = "training"]
  /\ stages' = [stages EXCEPT ![g] = [i \in StageIds |->
       IF Filled(g, i) THEN [stages[g][i] EXCEPT !.status = "training"] ELSE stages[g][i]]]
  /\ UNCHANGED <<available, assigned, created, size>>

\* Mistake: only the link of the stage downstream is cleared.
UnlinkedAbove(st, m) == [st EXCEPT !.up = IF @ = m THEN NoMiner ELSE @]

Unlinked(st, m) ==
  [st EXCEPT !.up = IF @ = m THEN NoMiner ELSE @, !.down = IF @ = m THEN NoMiner ELSE @]

\* A free miner only leaves the pool; an assigned one degrades its group, and
\* its is_available flag is left as it is.
HandleMinerDisconnect(m) ==
  \/ /\ assigned[m] = Nowhere
     /\ available' = available \ {m}
     /\ UNCHANGED topology
  \/ LET g == assigned[m].group
     IN  /\ assigned[m] # Nowhere
         /\ assigned' = [assigned EXCEPT ![m] = Nowhere]
         /\ status' = [status EXCEPT ![g] = "degraded"]
         /\ stages' = [stages EXCEPT ![g] = [i \in StageIds |->
              IF i = assigned[m].stage THEN Vacant ELSE Unlinked(stages[g][i], m)]]
         /\ UNCHANGED <<available, created, size>>
-----------------------------------------------------------------------------
\* Mistake: a slot beyond the last stage of its group counts as vacant.
VacantSlotsBeyondEnd(G) ==
  {x \in Slots : x[1] \in G /\ status[x[1]] = "degraded" /\ ~Filled(x[1], x[2])}

\* Mistake: every stage of a degraded group is served, those in use too.
AllSlots(G) == {x \in Slots : x[1] \in G /\ status[x[1]] = "degraded" /\ x[2] < size[x[1]]}

VacantSlots(G) ==
  {x \in Slots : x[1] \in G /\ status[x[1]] = "degraded" /\ x[2] < size[x[1]]
                 /\ ~Filled(x[1], x[2])}

Before(x, y) == x[1] < y[1] \/ (x[1] = y[1] /\ x[2] < y[2])

\* Groups and stages are served in order, one free miner each, while any is left.
ServedSlots(G) ==
  {x \in VacantSlots(G) :
     Cardinality({y \in VacantSlots(G) : Before(y, x)}) < Cardinality(FreeMiners)}

\* Mistake: a group some of whose stages were filled is taken for repaired.
RedistributeInPart(G) ==
  LET degraded == {g \in G : status[g] = "degraded"}
  IN  /\ degraded # {}
      /\ \E place \in Injection(ServedSlots(G), FreeMiners) : MoveIn(place, "loading")
      /\ status' = [g \in Groups |-> IF g \in degraded THEN "loading" ELSE status[g]]
      /\ UNCHANGED <<created, size>>

\* liquid_redistribute of the degraded groups in G.
Redistribute(G) ==
  LET degraded == {g \in G : status[g] = "degraded"}
  IN  /\ degraded # {}
      /\ \E place \in Injection(ServedSlots(G), FreeMiners) : MoveIn(place, "loading")
      /\ status' = [g \in Groups |->
           IF g \in degraded /\ Complete(stages', g) THEN "loading" ELSE status[g]]
      /\ UNCHANGED <<created, size>>

LiquidRedistribute(g) == Redistribute({g})

AutoHealDegradedPipelines == Redistribute(Groups)

Next ==
  \/ \E m \in Miners :
       \/ RegisterMiner(m)
       \/ ReportShardReady(m)
       \/ HandleMinerDisconnect(m)
  \/ \E s \in StageCounts : FormPipelineGroups(s)
  \/ \E g \in Groups : StartTraining(g) \/ LiquidRedistribute(g)
  \/ AutoHealDegradedPipelines

Spec == Init /\ [][Next]_shardVars
-----------------------------------------------------------------------------
\* miner_assignments and group.stages describe one placement: a miner sits
\* where its assignment says, and nowhere else.  Formation, healing and
\* disconnects each write both maps.
Agreement ==
  \A m \in Miners, g \in Groups, i \in StageIds :
    stages[g][i].miner = m <=> assigned[m] = [group |-> g, stage |-> i]

\* The status of a group tells whether its stages are all taken, which is what
\* inference routing and redistribution read it for; a ready group has no
\* stage that has not reported.
StatusMatchesStages ==
  \A g \in Groups :
    /\ status[g] \in {"loading", "ready", "training"} => Complete(stages, g)
    /\ status[g] \in {"forming", "degraded"} => ~Complete(stages, g)
    /\ status[g] = "ready" => AllReady(stages, g)

\* The activation links of a stage name exactly its present neighbours, through
\* any sequence of departures, partial repairs and repairs of adjacent stages.
LinksAreNeighbours ==
  \A g \in Groups, i \in StageIds :
    Filled(g, i) =>
      /\ stages[g][i].up = IF i = 0 THEN NoMiner ELSE stages[g][i - 1].miner
      /\ stages[g][i].down = IF i + 1 \in StageIds THEN stages[g][i + 1].miner ELSE NoMiner

\* Groups beyond created are blank, formed groups have their size and status,
\* and no miner sits beyond the last stage of its group.
GroupInv ==
  \A g \in Groups :
    /\ g > created <=> status[g] = "none"
    /\ g > created <=> size[g] = 0
    /\ \A i \in StageIds : Filled(g, i) => i < size[g]

IInv ==
  /\ TypeOK
  /\ GroupInv
  /\ Agreement
  /\ StatusMatchesStages
  /\ LinksAreNeighbours

\* A miner loses its stage only by disconnecting: no formation or healing step
\* moves it, or gives its stage to another.
NoSilentEviction ==
  [][\A m \in Miners : assigned[m] # Nowhere /\ assigned'[m] # assigned[m]
        => HandleMinerDisconnect(m)]_shardVars

=============================================================================
