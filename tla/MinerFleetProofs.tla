-------------------------- MODULE MinerFleetProofs --------------------------
(***************************************************************************)
(* Theorems about ShardManager, for every finite set of miners and every   *)
(* bound on groups and stages; and about MinerFleet, for any number of     *)
(* connections: it implements ShardManager, and a departure is always      *)
(* heeded.                                                                 *)
(***************************************************************************)
EXTENDS MinerFleet, FiniteSetTheorems, TLAPS

-----------------------------------------------------------------------------
(* Placement *)

\* The empty placement satisfies the inductive invariant.
LEMMA InitIInv == Init => IInv
  BY ShardAssumption
  DEF Init, IInv, TypeOK, GroupInv, Agreement, StatusMatchesStages, LinksAreNeighbours,
      Groups, StageIds, Place, Stage, Vacant, Filled, Complete, AllReady

\* Relinking a stage changes its two links and nothing else.
LEMMA RelinkedFields ==
  ASSUME TypeOK, NEW place, NEW g \in Groups, NEW i \in StageIds
  PROVE  /\ Relinked(place, g, i).miner = stages[g][i].miner
         /\ Relinked(place, g, i).status = stages[g][i].status
         /\ Relinked(place, g, i).up =
              IF i > 0 /\ <<g, i - 1>> \in DOMAIN place THEN place[<<g, i - 1>>]
              ELSE stages[g][i].up
         /\ Relinked(place, g, i).down =
              IF <<g, i + 1>> \in DOMAIN place THEN place[<<g, i + 1>>]
              ELSE stages[g][i].down
         /\ /\ Relinked(place, g, i).up \in Miners \cup {NoMiner}
            /\ Relinked(place, g, i).down \in Miners \cup {NoMiner}
            => Relinked(place, g, i) \in Stage
<1> DEFINE u == IF i > 0 /\ <<g, i - 1>> \in DOMAIN place THEN place[<<g, i - 1>>]
                ELSE stages[g][i].up
           d == IF <<g, i + 1>> \in DOMAIN place THEN place[<<g, i + 1>>]
                ELSE stages[g][i].down
           e == stages[g][i]
<1>1. e \in Stage
  BY DEF TypeOK
<1>2. Relinked(place, g, i) = [e EXCEPT !.up = u, !.down = d]
  BY DEF Relinked
<1> HIDE DEF u, d, e
<1>3. Relinked(place, g, i) = [miner |-> e.miner, status |-> e.status, up |-> u, down |-> d]
  BY <1>1, <1>2 DEF Stage
<1>4. /\ Relinked(place, g, i).miner = e.miner
      /\ Relinked(place, g, i).status = e.status
      /\ Relinked(place, g, i).up = u
      /\ Relinked(place, g, i).down = d
      /\ u \in Miners \cup {NoMiner} /\ d \in Miners \cup {NoMiner} => Relinked(place, g, i) \in Stage
  BY <1>1, <1>3 DEF Stage
<1> QED
  BY <1>4 DEF u, d, e

\* What moving free miners one-to-one into vacant slots does to the placement,
\* whichever slots they are: shared by formation and redistribution.
LEMMA MoveInPlaces ==
  ASSUME TypeOK, Agreement, LinksAreNeighbours,
         NEW S \in SUBSET Slots, \A x \in S : ~Filled(x[1], x[2]),
         NEW place \in Injection(S, FreeMiners),
         NEW st \in {"assigned", "loading"},
         MoveIn(place, st)
  PROVE  /\ stages' \in [Groups -> [StageIds -> Stage]]
         /\ assigned' \in [Miners -> Place]
         /\ available' \subseteq Miners
         /\ \A x \in S : place[x] \in Miners
         /\ \A g \in Groups, i \in StageIds :
              /\ stages'[g][i].miner = IF <<g, i>> \in S THEN place[<<g, i>>]
                                       ELSE stages[g][i].miner
              /\ stages'[g][i].status = IF <<g, i>> \in S THEN st ELSE stages[g][i].status
         /\ \A m \in Miners : assigned[m] # Nowhere => assigned'[m] = assigned[m]
         /\ Agreement'
         /\ LinksAreNeighbours'
<1> USE ShardAssumption
<1>1. /\ DOMAIN place = S /\ place \in [S -> FreeMiners]
      /\ \A x, y \in S : place[x] = place[y] => x = y
  BY DEF Injection, IsInjective
<1>2. FreeMiners \subseteq Miners /\ NoMiner \notin FreeMiners
  BY DEF FreeMiners, TypeOK
<1>3. \A x \in S : /\ x \in Groups \X StageIds
                   /\ x[1] \in Groups /\ x[2] \in StageIds /\ x = <<x[1], x[2]>>
  BY DEF Slots
<1>4. \A g \in Groups, i \in StageIds : stages'[g][i] =
        IF <<g, i>> \in S
        THEN [miner |-> place[<<g, i>>], status |-> st,
              up |-> Above(place, g, i), down |-> Below(place, g, i)]
        ELSE IF Filled(g, i) THEN Relinked(place, g, i) ELSE stages[g][i]
  BY <1>1 DEF MoveIn
<1>5. \A g \in Groups, i \in StageIds :
        /\ Relinked(place, g, i).miner = stages[g][i].miner
        /\ Relinked(place, g, i).status = stages[g][i].status
        /\ Relinked(place, g, i).up =
             IF i > 0 /\ <<g, i - 1>> \in S THEN place[<<g, i - 1>>] ELSE stages[g][i].up
        /\ Relinked(place, g, i).down =
             IF <<g, i + 1>> \in S THEN place[<<g, i + 1>>] ELSE stages[g][i].down
        /\ /\ Relinked(place, g, i).up \in Miners \cup {NoMiner}
           /\ Relinked(place, g, i).down \in Miners \cup {NoMiner}
           => Relinked(place, g, i) \in Stage
  <2> TAKE g \in Groups, i \in StageIds
  <2> QED
    BY <1>1, RelinkedFields
<1>6. \A g \in Groups, i \in StageIds : stages'[g][i] \in Stage
  <2> SUFFICES ASSUME NEW g \in Groups, NEW i \in StageIds PROVE stages'[g][i] \in Stage
    OBVIOUS
  <2>1. stages[g][i] \in Stage
    BY DEF TypeOK
  <2>2. \A j \in StageIds : stages[g][j].miner \in Miners \cup {NoMiner}
    BY DEF TypeOK, Stage
  <2>3. \A x \in S : place[x] \in Miners \cup {NoMiner}
    BY <1>1, <1>2
  <2>4. Above(place, g, i) \in Miners \cup {NoMiner}
    <3>1. i > 0 => i - 1 \in StageIds
      BY DEF StageIds
    <3> QED
      BY <1>1, <2>2, <2>3, <3>1 DEF Above, Occupant, StageIds
  <2>5. Below(place, g, i) \in Miners \cup {NoMiner}
    BY <1>1, <2>2, <2>3 DEF Below, Occupant
  <2>6. CASE <<g, i>> \in S
    <3>1. st \in {"none", "assigned", "loading", "ready", "training"}
      OBVIOUS
    <3>2. stages'[g][i] = [miner |-> place[<<g, i>>], status |-> st,
                           up |-> Above(place, g, i), down |-> Below(place, g, i)]
      BY <1>4, <2>6
    <3>3. place[<<g, i>>] \in Miners \cup {NoMiner}
      BY <2>3, <2>6
    <3> QED
      BY <2>4, <2>5, <3>1, <3>2, <3>3 DEF Stage
  <2>7. CASE <<g, i>> \notin S /\ Filled(g, i)
    <3>1. /\ stages[g][i].up \in Miners \cup {NoMiner}
          /\ stages[g][i].down \in Miners \cup {NoMiner}
      BY <2>1 DEF Stage
    <3>2. Relinked(place, g, i) \in Stage
      BY <1>1, <1>5, <2>3, <3>1
    <3> QED
      BY <1>4, <2>7, <3>2
  <2>8. CASE <<g, i>> \notin S /\ ~Filled(g, i)
    BY <1>4, <2>8, <2>1
  <2> QED
    BY <2>6, <2>7, <2>8
<1>7. stages' \in [Groups -> [StageIds -> Stage]]
  BY <1>6 DEF MoveIn
<1>8. \A g \in Groups, i \in StageIds :
        stages'[g][i].miner = IF <<g, i>> \in S THEN place[<<g, i>>] ELSE stages[g][i].miner
  <2> TAKE g \in Groups, i \in StageIds
  <2>1. CASE <<g, i>> \in S
    <3>1. stages'[g][i] = [miner |-> place[<<g, i>>], status |-> st,
                           up |-> Above(place, g, i), down |-> Below(place, g, i)]
      BY <1>4, <2>1
    <3> QED
      BY <2>1, <3>1
  <2>2. CASE <<g, i>> \notin S
    <3>1. stages'[g][i] = Relinked(place, g, i) \/ stages'[g][i] = stages[g][i]
      BY <1>4, <2>2
    <3> QED
      BY <1>5, <2>2, <3>1
  <2> QED
    BY <2>1, <2>2
<1>9. \A x \in S : assigned'[place[x]] = [group |-> x[1], stage |-> x[2]]
  <2> SUFFICES ASSUME NEW x \in S
               PROVE  assigned'[place[x]] = [group |-> x[1], stage |-> x[2]]
    OBVIOUS
  <2>1. Home(place, place[x]) = Slot(x)
    BY <1>1 DEF Home
  <2>2. place[x] \in Miners
    BY <1>1, <1>2
  <2> QED
    BY <1>1, <2>1, <2>2 DEF MoveIn, Slot
<1>10. \A m \in Miners : (\A x \in S : place[x] # m) => assigned'[m] = assigned[m]
  BY <1>1 DEF MoveIn
<1>11. assigned' \in [Miners -> Place]
  <2>1. \A m \in Miners : assigned'[m] \in Place
    <3> TAKE m \in Miners
    <3>1. CASE \E x \in S : place[x] = m
      <4>1. PICK x \in S : place[x] = m
        BY <3>1
      <4>2. x[1] \in Groups /\ x[2] \in StageIds
        BY <1>3
      <4>3. assigned'[m] = [group |-> x[1], stage |-> x[2]]
        BY <1>9, <4>1
      <4> QED
        BY <4>2, <4>3 DEF Place
    <3>2. CASE \A x \in S : place[x] # m
      BY <1>10, <3>2 DEF TypeOK
    <3> QED
      BY <3>1, <3>2
  <2> QED
    BY <2>1 DEF MoveIn
<1>12. available' \subseteq Miners
  BY DEF MoveIn, TypeOK
<1>13. Agreement'
  <2> SUFFICES ASSUME NEW m \in Miners, NEW g \in Groups, NEW i \in StageIds
               PROVE  stages'[g][i].miner = m <=> assigned'[m] = [group |-> g, stage |-> i]
    BY DEF Agreement
  <2>1. stages[g][i].miner = m <=> assigned[m] = [group |-> g, stage |-> i]
    BY DEF Agreement
  <2>2. CASE \E x \in S : place[x] = m
    <3>1. PICK x \in S : place[x] = m
      BY <2>2
    <3>2. assigned[m] = Nowhere
      BY <1>1, <3>1 DEF FreeMiners
    <3>3. stages[g][i].miner # m
      BY <2>1, <3>2 DEF Groups, StageIds
    <3>4. stages'[g][i].miner = m <=> x = <<g, i>>
      BY <1>1, <1>8, <3>1, <3>3
    <3>5. assigned'[m] = [group |-> x[1], stage |-> x[2]]
      BY <1>9, <3>1
    <3>6. assigned'[m] = [group |-> g, stage |-> i] <=> x[1] = g /\ x[2] = i
      BY <3>5
    <3> QED
      BY <1>3, <3>4, <3>6
  <2>3. CASE \A x \in S : place[x] # m
    <3>1. stages[g][i].miner = m => <<g, i>> \notin S
      BY DEF Filled
    <3> QED
      BY <1>8, <1>10, <2>1, <2>3, <3>1
  <2> QED
    BY <2>2, <2>3
<1>14. LinksAreNeighbours'
  <2> SUFFICES ASSUME NEW g \in Groups, NEW i \in StageIds, Filled(g, i)'
               PROVE  /\ stages'[g][i].up = IF i = 0 THEN NoMiner ELSE stages'[g][i - 1].miner
                      /\ stages'[g][i].down =
                           IF i + 1 \in StageIds THEN stages'[g][i + 1].miner ELSE NoMiner
    BY DEF LinksAreNeighbours
  <2>1. i > 0 => i - 1 \in StageIds /\ stages'[g][i - 1].miner = Occupant(place, g, i - 1)
    BY <1>1, <1>8 DEF Occupant, StageIds
  <2>2. /\ i + 1 \in StageIds => stages'[g][i + 1].miner = Occupant(place, g, i + 1)
        /\ i + 1 \notin StageIds => <<g, i + 1>> \notin S
    BY <1>1, <1>3, <1>8 DEF Occupant
  <2>3. i \in Nat
    BY DEF StageIds
  <2>4. CASE <<g, i>> \in S
    <3>0. stages'[g][i] = [miner |-> place[<<g, i>>], status |-> st,
                           up |-> Above(place, g, i), down |-> Below(place, g, i)]
      BY <1>4, <2>4
    <3>1. /\ stages'[g][i].up = Above(place, g, i)
          /\ stages'[g][i].down = Below(place, g, i)
      BY <3>0
    <3>2. i + 1 \notin StageIds => Occupant(place, g, i + 1) = NoMiner
      BY <1>1, <2>2 DEF Occupant
    <3> QED
      BY <2>1, <2>2, <2>3, <3>1, <3>2 DEF Above, Below
  <2>5. CASE <<g, i>> \notin S
    <3>1. Filled(g, i)
      BY <1>8, <2>5 DEF Filled
    <3>2. /\ stages[g][i].up = IF i = 0 THEN NoMiner ELSE stages[g][i - 1].miner
          /\ stages[g][i].down = IF i + 1 \in StageIds THEN stages[g][i + 1].miner ELSE NoMiner
      BY <3>1 DEF LinksAreNeighbours
    <3>3. stages'[g][i] = Relinked(place, g, i)
      BY <1>4, <2>5, <3>1
    <3>4. stages[g][i] \in Stage
      BY DEF TypeOK
    <3>5. stages'[g][i].up = IF i > 0 /\ <<g, i - 1>> \in S THEN place[<<g, i - 1>>]
                             ELSE stages[g][i].up
      BY <1>1, <3>3, <1>5
    <3>6. stages'[g][i].down = IF <<g, i + 1>> \in S THEN place[<<g, i + 1>>]
                               ELSE stages[g][i].down
      BY <1>1, <3>3, <1>5
    <3>7. i > 0 => i - 1 \in StageIds /\ stages'[g][i - 1].miner =
            IF <<g, i - 1>> \in S THEN place[<<g, i - 1>>] ELSE stages[g][i - 1].miner
      BY <1>8, <2>1
    <3> QED
      BY <1>8, <2>2, <2>3, <3>2, <3>5, <3>6, <3>7
  <2> QED
    BY <2>4, <2>5
<1>15. \A g \in Groups, i \in StageIds :
         stages'[g][i].status =
           IF <<g, i>> \in S THEN st ELSE stages[g][i].status
  <2> TAKE g \in Groups, i \in StageIds
  <2>1. CASE <<g, i>> \in S
    <3>1. stages'[g][i] = [miner |-> place[<<g, i>>], status |-> st,
                           up |-> Above(place, g, i), down |-> Below(place, g, i)]
      BY <1>4, <2>1
    <3> QED
      BY <2>1, <3>1
  <2>2. CASE <<g, i>> \notin S
    <3>1. stages'[g][i] = Relinked(place, g, i) \/ stages'[g][i] = stages[g][i]
      BY <1>4, <2>2
    <3> QED
      BY <1>5, <2>2, <3>1
  <2> QED
    BY <2>1, <2>2
<1>16. \A m \in Miners : assigned[m] # Nowhere => assigned'[m] = assigned[m]
  BY <1>1, <1>10 DEF FreeMiners
<1> QED
  BY <1>16, <1>2, <1>1, <1>7, <1>8, <1>11, <1>12, <1>13, <1>14, <1>15

-----------------------------------------------------------------------------
\* One lemma per kind of step: the inductive invariant survives it.

\* A registration touches the flags only.
LEMMA RegisterStep ==
  ASSUME IInv, NEW m \in Miners, RegisterMiner(m) PROVE IInv'
BY DEF IInv, TypeOK, GroupInv, Agreement, StatusMatchesStages, LinksAreNeighbours,
       RegisterMiner, topology, Filled, Complete, AllReady

\* A stage in use lies within an existing group, so it is one the formation and
\* redistribution of other slots leave alone.
LEMMA AssignedInGroup ==
  ASSUME IInv, NEW m \in Miners, assigned[m] # Nowhere
  PROVE  /\ assigned[m].group \in Groups
         /\ assigned[m].stage \in StageIds
         /\ assigned[m] = [group |-> assigned[m].group, stage |-> assigned[m].stage]
         /\ stages[assigned[m].group][assigned[m].stage].miner = m
         /\ assigned[m].stage < size[assigned[m].group]
         /\ status[assigned[m].group] # "none"
         /\ assigned[m].group <= created
<1>1. assigned[m] \in [group : Groups, stage : StageIds]
  BY DEF IInv, TypeOK, Place
<1> DEFINE g == assigned[m].group
           i == assigned[m].stage
<1>2. g \in Groups /\ i \in StageIds /\ assigned[m] = [group |-> g, stage |-> i]
  BY <1>1
<1>3. stages[g][i].miner = m
  BY <1>2 DEF IInv, Agreement
<1>4. Filled(g, i)
  BY <1>3, ShardAssumption DEF Filled
<1>5. i < size[g]
  BY <1>2, <1>4 DEF IInv, GroupInv
<1>6. i \in Nat /\ g \in Nat /\ created \in Nat
  BY <1>2, ShardAssumption DEF StageIds, Groups, IInv, TypeOK
<1>7. size[g] # 0
  BY <1>5, <1>6
<1>8. ~(g > created)
  BY <1>2, <1>7 DEF IInv, GroupInv
<1>9. status[g] # "none" /\ g <= created
  BY <1>2, <1>6, <1>8 DEF IInv, GroupInv
<1> QED
  BY <1>2, <1>3, <1>5, <1>9

\* What the invariants read of a stage is its miner and its status; a step that
\* keeps miners, links, sizes and the placement keeps all but StatusMatchesStages.
LEMMA SamePlacement ==
  ASSUME IInv, UNCHANGED <<available, assigned, created, size>>,
         stages' \in [Groups -> [StageIds -> Stage]],
         status' \in [Groups -> {"none", "forming", "loading", "ready", "training", "degraded"}],
         \A g \in Groups : status'[g] = "none" <=> status[g] = "none",
         \A g \in Groups, i \in StageIds :
           /\ stages'[g][i].miner = stages[g][i].miner
           /\ stages'[g][i].up = stages[g][i].up
           /\ stages'[g][i].down = stages[g][i].down
  PROVE  TypeOK' /\ GroupInv' /\ Agreement' /\ LinksAreNeighbours'
<1>1. TypeOK'
  BY DEF IInv, TypeOK
<1>2. GroupInv'
  BY DEF IInv, GroupInv, Filled
<1>3. Agreement'
  <2> SUFFICES ASSUME NEW m \in Miners, NEW g \in Groups, NEW i \in StageIds
               PROVE  stages'[g][i].miner = m <=> assigned'[m] = [group |-> g, stage |-> i]
    BY DEF Agreement
  <2> QED
    BY DEF IInv, Agreement
<1>4. LinksAreNeighbours'
  <2> SUFFICES ASSUME NEW g \in Groups, NEW i \in StageIds, Filled(g, i)'
               PROVE  /\ stages'[g][i].up = IF i = 0 THEN NoMiner ELSE stages'[g][i - 1].miner
                      /\ stages'[g][i].down =
                           IF i + 1 \in StageIds THEN stages'[g][i + 1].miner ELSE NoMiner
    BY DEF LinksAreNeighbours
  <2>1. /\ stages[g][i].up = IF i = 0 THEN NoMiner ELSE stages[g][i - 1].miner
        /\ stages[g][i].down = IF i + 1 \in StageIds THEN stages[g][i + 1].miner ELSE NoMiner
    BY DEF IInv, LinksAreNeighbours, Filled
  <2>2. i # 0 => i - 1 \in StageIds
    BY ShardAssumption DEF StageIds
  <2> QED
    BY <2>1, <2>2
<1> QED
  BY <1>1, <1>2, <1>3, <1>4

\* A ready report changes one status, and the group's when it was the last.
LEMMA ReportStep ==
  ASSUME IInv, NEW m \in Miners, ReportShardReady(m) PROVE IInv'
<1> DEFINE g == assigned[m].group
           i == assigned[m].stage
<1>1. g \in Groups /\ i \in StageIds /\ status[g] # "none"
  BY AssignedInGroup DEF ReportShardReady
<1>2. /\ stages' = [stages EXCEPT ![g][i].status = "ready"]
      /\ status' = [status EXCEPT ![g] = IF AllReady(stages', g) THEN "ready" ELSE @]
      /\ UNCHANGED <<available, assigned, created, size>>
  BY DEF ReportShardReady
<1> HIDE DEF g, i
<1>3. stages \in [Groups -> [StageIds -> Stage]]
  BY DEF IInv, TypeOK
<1>4. stages'[g][i] = [stages[g][i] EXCEPT !.status = "ready"]
  BY <1>1, <1>2, <1>3
<1>5. stages[g][i] \in Stage
  BY <1>1, <1>3
<1>6. stages'[g][i] = [miner |-> stages[g][i].miner, status |-> "ready",
                       up |-> stages[g][i].up, down |-> stages[g][i].down]
  BY <1>4, <1>5 DEF Stage
<1>7. \A h \in Groups, j \in StageIds : h # g \/ j # i => stages'[h][j] = stages[h][j]
  BY <1>1, <1>2, <1>3
<1>8. \A h \in Groups, j \in StageIds : stages'[h][j] \in Stage
  <2>1. stages'[g][i] \in Stage
    BY <1>5, <1>6 DEF Stage
  <2> QED
    BY <1>3, <1>7, <2>1
<1>9. stages' \in [Groups -> [StageIds -> Stage]]
  <2>1. stages' = [stages EXCEPT ![g] = [stages[g] EXCEPT ![i] = [stages[g][i] EXCEPT !.status = "ready"]]]
    BY <1>2
  <2>2. [stages[g][i] EXCEPT !.status = "ready"] \in Stage
    BY <1>1, <1>4, <1>8
  <2> QED
    BY <1>1, <1>3, <2>1, <2>2
<1>10. \A h \in Groups, j \in StageIds :
           /\ stages'[h][j].miner = stages[h][j].miner
           /\ stages'[h][j].up = stages[h][j].up
           /\ stages'[h][j].down = stages[h][j].down
           /\ stages'[h][j].status = "ready" \/ stages'[h][j].status = stages[h][j].status
  BY <1>6, <1>7
<1>11. \A h \in Groups : status'[h] = IF h = g /\ AllReady(stages', g) THEN "ready" ELSE status[h]
  BY <1>1, <1>2 DEF IInv, TypeOK
<1>12. status' \in [Groups -> {"none", "forming", "loading", "ready", "training", "degraded"}]
  BY <1>1, <1>2 DEF IInv, TypeOK
<1>13. TypeOK' /\ GroupInv' /\ Agreement' /\ LinksAreNeighbours'
  BY <1>1, <1>2, <1>9, <1>10, <1>11, <1>12, SamePlacement
<1>14. StatusMatchesStages'
  <2>1. \A h \in Groups : /\ Complete(stages', h) <=> Complete(stages, h)
                          /\ AllReady(stages, h) => AllReady(stages', h)
                          /\ AllReady(stages', h) => Complete(stages', h)
    BY <1>10 DEF Complete, AllReady
  <2>2. \A h \in Groups : /\ Complete(stages, h)' <=> Complete(stages', h)
                          /\ AllReady(stages, h)' <=> AllReady(stages', h)
    BY <1>2 DEF Complete, AllReady
  <2> QED
    BY <1>11, <2>1, <2>2 DEF IInv, StatusMatchesStages
<1> QED
  BY <1>13, <1>14 DEF IInv

\* Training starts in groups whose stages are all ready, hence all taken.
LEMMA TrainingStep ==
  ASSUME IInv, NEW g \in Groups, StartTraining(g) PROVE IInv'
<1> DEFINE Trained(i) == [stages[g][i] EXCEPT !.status = "training"]
<1>1. stages \in [Groups -> [StageIds -> Stage]]
  BY DEF IInv, TypeOK
<1>2. \A i \in StageIds : stages'[g][i] = IF Filled(g, i) THEN Trained(i) ELSE stages[g][i]
  BY <1>1 DEF StartTraining
<1>3. \A h \in Groups : h # g => stages'[h] = stages[h]
  BY <1>1 DEF StartTraining
<1>4. \A i \in StageIds : Trained(i) = [miner |-> stages[g][i].miner, status |-> "training",
                                        up |-> stages[g][i].up, down |-> stages[g][i].down]
  <2> TAKE i \in StageIds
  <2>1. stages[g][i] \in Stage
    BY <1>1
  <2> QED
    BY <2>1 DEF Stage
<1> HIDE DEF Trained
<1>5. \A i \in StageIds : Trained(i) \in Stage
  <2> TAKE i \in StageIds
  <2>1. stages[g][i] \in Stage
    BY <1>1
  <2> QED
    BY <1>4, <2>1 DEF Stage
<1>6. stages' \in [Groups -> [StageIds -> Stage]]
  <2>1. [i \in StageIds |-> IF Filled(g, i) THEN Trained(i) ELSE stages[g][i]]
          \in [StageIds -> Stage]
    BY <1>1, <1>5
  <2>2. stages' = [stages EXCEPT ![g] =
                     [i \in StageIds |-> IF Filled(g, i) THEN Trained(i) ELSE stages[g][i]]]
    BY DEF StartTraining, Trained
  <2> QED
    BY <1>1, <2>1, <2>2
<1>7. \A h \in Groups, i \in StageIds :
        /\ stages'[h][i].miner = stages[h][i].miner
        /\ stages'[h][i].up = stages[h][i].up
        /\ stages'[h][i].down = stages[h][i].down
  <2> TAKE h \in Groups, i \in StageIds
  <2>1. CASE h = g /\ Filled(g, i)
    <3>1. stages'[h][i] = Trained(i)
      BY <1>2, <2>1
    <3> QED
      BY <1>4, <2>1, <3>1
  <2>2. CASE h = g /\ ~Filled(g, i)
    BY <1>2, <2>2
  <2>3. CASE h # g
    BY <1>3, <2>3
  <2> QED
    BY <2>1, <2>2, <2>3
<1>8. /\ \A h \in Groups : status'[h] = IF h = g THEN "training" ELSE status[h]
      /\ status' \in [Groups -> {"none", "forming", "loading", "ready", "training", "degraded"}]
      /\ UNCHANGED <<available, assigned, created, size>>
  BY DEF StartTraining, IInv, TypeOK
<1>9. status[g] # "none"
  <2>1. g <= created /\ g \in Nat /\ created \in Nat
    BY ShardAssumption DEF StartTraining, Groups, IInv, TypeOK
  <2>2. ~(g > created)
    BY <2>1
  <2> QED
    BY <2>2 DEF IInv, GroupInv
<1>10. TypeOK' /\ GroupInv' /\ Agreement' /\ LinksAreNeighbours'
  BY <1>6, <1>7, <1>8, <1>9, SamePlacement
<1>11. StatusMatchesStages'
  <2>1. \A h \in Groups : Complete(stages, h)' <=> Complete(stages, h)
    BY <1>7, <1>8 DEF Complete
  <2>2. Complete(stages, g)
    BY DEF StartTraining, AllReady
  <2>3. \A h \in Groups : h # g => (AllReady(stages, h)' <=> AllReady(stages, h))
    BY <1>3, <1>8, <2>1 DEF AllReady
  <2> QED
    BY <1>8, <2>1, <2>2, <2>3 DEF IInv, StatusMatchesStages
<1> QED
  BY <1>10, <1>11 DEF IInv

\* Unlinking a stage clears the links that name the miner and nothing else.
LEMMA UnlinkedFields ==
  ASSUME NEW e \in Stage, NEW m
  PROVE  /\ Unlinked(e, m).miner = e.miner
         /\ Unlinked(e, m).status = e.status
         /\ Unlinked(e, m).up = IF e.up = m THEN NoMiner ELSE e.up
         /\ Unlinked(e, m).down = IF e.down = m THEN NoMiner ELSE e.down
         /\ Unlinked(e, m) \in Stage
<1> DEFINE u == IF e.up = m THEN NoMiner ELSE e.up
           d == IF e.down = m THEN NoMiner ELSE e.down
<1>1. Unlinked(e, m) = [e EXCEPT !.up = u, !.down = d]
  BY DEF Unlinked, Stage
<1>2. u \in Miners \cup {NoMiner} /\ d \in Miners \cup {NoMiner}
  BY DEF Stage
<1> HIDE DEF u, d
<1>3. Unlinked(e, m) = [miner |-> e.miner, status |-> e.status, up |-> u, down |-> d]
  BY <1>1 DEF Stage
<1>4. /\ Unlinked(e, m).miner = e.miner
      /\ Unlinked(e, m).status = e.status
      /\ Unlinked(e, m).up = u
      /\ Unlinked(e, m).down = d
      /\ Unlinked(e, m) \in Stage
  BY <1>2, <1>3 DEF Stage
<1> QED
  BY <1>4 DEF u, d

\* A departure vacates one stage and clears the links that name the miner.
LEMMA DisconnectStep ==
  ASSUME IInv, NEW m \in Miners, HandleMinerDisconnect(m) PROVE IInv'
<1>1. CASE assigned[m] = Nowhere /\ available' = available \ {m} /\ UNCHANGED topology
  BY <1>1 DEF IInv, TypeOK, GroupInv, Agreement, StatusMatchesStages, LinksAreNeighbours,
              topology, Filled, Complete, AllReady
<1>2. CASE assigned[m] # Nowhere
  <2> DEFINE g == assigned[m].group
             i == assigned[m].stage
  <2>1. /\ g \in Groups /\ i \in StageIds /\ status[g] # "none" /\ i < size[g]
        /\ assigned[m] = [group |-> g, stage |-> i] /\ stages[g][i].miner = m
    BY <1>2, AssignedInGroup
  <2>2. /\ assigned' = [assigned EXCEPT ![m] = Nowhere]
        /\ status' = [status EXCEPT ![g] = "degraded"]
        /\ stages' = [stages EXCEPT ![g] = [j \in StageIds |->
             IF j = i THEN Vacant ELSE Unlinked(stages[g][j], m)]]
        /\ UNCHANGED <<available, created, size>>
    BY <1>2 DEF HandleMinerDisconnect
  <2> HIDE DEF g, i
  <2>3. stages \in [Groups -> [StageIds -> Stage]] /\ assigned \in [Miners -> Place]
    BY DEF IInv, TypeOK
  <2>4. \A j \in StageIds :
          /\ Unlinked(stages[g][j], m).miner = stages[g][j].miner
          /\ Unlinked(stages[g][j], m).up =
               IF stages[g][j].up = m THEN NoMiner ELSE stages[g][j].up
          /\ Unlinked(stages[g][j], m).down =
               IF stages[g][j].down = m THEN NoMiner ELSE stages[g][j].down
          /\ Unlinked(stages[g][j], m) \in Stage
    BY <2>1, <2>3, UnlinkedFields
  <2>6. \A j \in StageIds : stages'[g][j] =
          IF j = i THEN Vacant ELSE Unlinked(stages[g][j], m)
    BY <2>1, <2>2, <2>3
  <2>7. \A h \in Groups : h # g => stages'[h] = stages[h]
    BY <2>1, <2>2, <2>3
  <2>8. /\ \A h \in Groups : status'[h] = IF h = g THEN "degraded" ELSE status[h]
        /\ status' \in [Groups -> {"none", "forming", "loading", "ready", "training", "degraded"}]
    BY <2>1, <2>2 DEF IInv, TypeOK
  <2>9. TypeOK'
    <3>1. Vacant \in Stage
      BY DEF Vacant, Stage
    <3>2. [j \in StageIds |-> IF j = i THEN Vacant ELSE Unlinked(stages[g][j], m)]
            \in [StageIds -> Stage]
      BY <2>4, <3>1
    <3>3. stages' \in [Groups -> [StageIds -> Stage]]
      BY <2>1, <2>2, <2>3, <3>2
    <3>4. assigned' \in [Miners -> Place]
      BY <2>2, <2>3 DEF Place
    <3> QED
      BY <2>2, <2>8, <3>3, <3>4 DEF IInv, TypeOK
  <2>10. /\ stages'[g][i].miner = NoMiner
         /\ \A h \in Groups, j \in StageIds :
              h # g \/ j # i => stages'[h][j].miner = stages[h][j].miner
    <3>1. stages'[g][i] = Vacant
      BY <2>1, <2>6
    <3>2. \A j \in StageIds : j # i => stages'[g][j].miner = stages[g][j].miner
      <4> TAKE j \in StageIds
      <4>1. j # i => stages'[g][j] = Unlinked(stages[g][j], m)
        BY <2>6
      <4> QED
        BY <2>4, <4>1
    <3> QED
      BY <2>7, <3>1, <3>2 DEF Vacant
  <2>11. GroupInv'
    <3>1. \A h \in Groups, j \in StageIds : Filled(h, j)' => Filled(h, j)
      BY <2>10 DEF Filled
    <3> QED
      BY <2>1, <2>2, <2>8, <3>1 DEF IInv, GroupInv
  <2>12. Agreement'
    <3> SUFFICES ASSUME NEW n \in Miners, NEW h \in Groups, NEW j \in StageIds
                 PROVE  stages'[h][j].miner = n <=> assigned'[n] = [group |-> h, stage |-> j]
      BY DEF Agreement
    <3>1. stages[h][j].miner = n <=> assigned[n] = [group |-> h, stage |-> j]
      BY DEF IInv, Agreement
    <3>2. CASE n = m
      <4>1. assigned'[n] # [group |-> h, stage |-> j]
        BY <2>2, <2>3, <3>2, ShardAssumption DEF Groups, StageIds
      <4>2. CASE h = g /\ j = i
        BY <2>10, <3>2, <4>1, <4>2, ShardAssumption
      <4>3. CASE h # g \/ j # i
        BY <2>1, <2>10, <3>1, <3>2, <4>1, <4>3
      <4> QED
        BY <4>2, <4>3
    <3>3. CASE n # m
      <4>1. assigned'[n] = assigned[n]
        BY <2>2, <2>3, <3>3
      <4>2. CASE h = g /\ j = i
        BY <2>1, <2>10, <3>1, <3>3, <4>1, <4>2, ShardAssumption
      <4>3. CASE h # g \/ j # i
        BY <2>10, <3>1, <4>1, <4>3
      <4> QED
        BY <4>2, <4>3
    <3> QED
      BY <3>2, <3>3
  <2>13. StatusMatchesStages'
    <3>1. \A h \in Groups : h = g => ~Complete(stages, h)'
      <4>1. i \in StageIds /\ i < size'[g] /\ stages'[g][i].miner = NoMiner
        BY <2>1, <2>2, <2>10
      <4> QED
        BY <4>1 DEF Complete
    <3>2. \A h \in Groups : h # g => /\ Complete(stages, h)' <=> Complete(stages, h)
                                     /\ AllReady(stages, h)' <=> AllReady(stages, h)
      BY <2>2, <2>7 DEF Complete, AllReady
    <3> QED
      <4> SUFFICES ASSUME NEW h \in Groups
                   PROVE  /\ status'[h] \in {"loading", "ready", "training"} => Complete(stages, h)'
                          /\ status'[h] \in {"forming", "degraded"} => ~Complete(stages, h)'
                          /\ status'[h] = "ready" => AllReady(stages, h)'
        BY DEF StatusMatchesStages
      <4>1. CASE h = g
        BY <2>8, <3>1, <4>1
      <4>2. CASE h # g
        BY <2>8, <3>2, <4>2 DEF IInv, StatusMatchesStages
      <4> QED
        BY <4>1, <4>2
  <2>14. LinksAreNeighbours'
    <3> SUFFICES ASSUME NEW h \in Groups, NEW j \in StageIds, Filled(h, j)'
                 PROVE  /\ stages'[h][j].up = IF j = 0 THEN NoMiner ELSE stages'[h][j - 1].miner
                        /\ stages'[h][j].down =
                             IF j + 1 \in StageIds THEN stages'[h][j + 1].miner ELSE NoMiner
      BY DEF LinksAreNeighbours
    <3>1. /\ j # 0 => j - 1 \in StageIds
          /\ j \in Nat
      BY ShardAssumption DEF StageIds
    <3>2. h # g \/ j # i
      BY <2>10 DEF Filled
    <3>3. /\ stages[h][j].up = IF j = 0 THEN NoMiner ELSE stages[h][j - 1].miner
          /\ stages[h][j].down = IF j + 1 \in StageIds THEN stages[h][j + 1].miner ELSE NoMiner
      BY <2>10, <3>2 DEF IInv, LinksAreNeighbours, Filled
    <3>4. CASE h # g
      BY <2>7, <3>1, <3>3, <3>4
    <3>5. CASE h = g
      <4>1. /\ stages'[g][j].up = IF stages[g][j].up = m THEN NoMiner ELSE stages[g][j].up
            /\ stages'[g][j].down = IF stages[g][j].down = m THEN NoMiner ELSE stages[g][j].down
        <5>1. stages'[g][j] = Unlinked(stages[g][j], m)
          BY <2>6, <3>2, <3>5
        <5> QED
          BY <2>4, <5>1
      <4>2. \A k \in StageIds : stages'[g][k].miner =
              IF stages[g][k].miner = m THEN NoMiner ELSE stages[g][k].miner
        <5> TAKE k \in StageIds
        <5>1. stages[g][k].miner = m => k = i
          <6>1. stages[g][k].miner = m => assigned[m] = [group |-> g, stage |-> k]
            BY <2>1 DEF IInv, Agreement
          <6> QED
            BY <2>1, <6>1
        <5> QED
          BY <2>1, <2>10, <5>1
      <4>3. NoMiner # m
        BY ShardAssumption
      <4> QED
        BY <3>1, <3>3, <3>5, <4>1, <4>2, <4>3
    <3> QED
      BY <3>4, <3>5
  <2> QED
    BY <2>9, <2>11, <2>12, <2>13, <2>14 DEF IInv
<1> QED
  BY <1>1, <1>2 DEF HandleMinerDisconnect

\* The free miners can be counted.
LEMMA FreeMinersCount ==
  ASSUME TypeOK PROVE Cardinality(FreeMiners) \in Nat
<1>1. FreeMiners \subseteq Miners
  BY DEF FreeMiners, TypeOK
<1> QED
  BY <1>1, ShardAssumption, FS_Subset, FS_CardinalityType

\* form_pipeline_groups fills slots of new groups only.
LEMMA FormationStep ==
  ASSUME IInv, NEW s \in StageCounts, FormPipelineGroups(s) PROVE IInv'
<1> DEFINE n == Cardinality(FreeMiners)
           k == IF n < s THEN 1 ELSE n \div s
           new == (created + 1)..(created + k)
           spots == {x \in Slots : x[1] \in new /\ x[2] < s /\ (n < s => x[2] < n)}
<1>1. /\ n \in Nat /\ n > 0 /\ k \in Nat
      /\ s \in 1..MaxStages /\ created \in 0..MaxGroups
  <2>1. n \in Nat /\ n > 0 /\ s \in 1..MaxStages /\ created \in 0..MaxGroups
    BY FreeMinersCount, ShardAssumption DEF IInv, TypeOK, FormPipelineGroups
  <2>2. n \div s \in Nat
    <3> HIDE DEF n
    <3>1. s \in Nat \ {0}
      BY <2>1, ShardAssumption
    <3> QED
      BY <2>1, <3>1
  <2> QED
    BY <2>1, <2>2
<1>2. /\ created + k <= MaxGroups
      /\ \E place \in Injection(spots, FreeMiners) : MoveIn(place, "assigned")
      /\ created' = created + k
      /\ size' = [g \in Groups |-> IF g \in new THEN s ELSE size[g]]
      /\ status' = [g \in Groups |->
           IF g \notin new THEN status[g] ELSE IF n < s THEN "forming" ELSE "loading"]
  BY DEF FormPipelineGroups
<1>3. PICK place \in Injection(spots, FreeMiners) : MoveIn(place, "assigned")
  BY <1>2
<1>4. \A g \in Groups : g \in new => ~(g <= created) /\ size[g] = 0 /\ \A i \in StageIds : ~Filled(g, i)
  <2> HIDE DEF n, k
  <2> TAKE g \in Groups
  <2> HAVE g \in new
  <2>1. g > created /\ g \in Nat /\ created \in Nat
    BY <1>1, ShardAssumption DEF Groups
  <2>2. size[g] = 0
    BY <2>1 DEF IInv, GroupInv
  <2>3. ASSUME NEW i \in StageIds, Filled(g, i) PROVE FALSE
    <3>1. i < 0 /\ i >= 0
      BY <2>2, <2>3, ShardAssumption DEF IInv, GroupInv, StageIds
    <3> QED
      BY <3>1, ShardAssumption DEF StageIds
  <2> QED
    BY <2>1, <2>2, <2>3
<1>5. spots \in SUBSET Slots /\ \A x \in spots : ~Filled(x[1], x[2])
  BY <1>4 DEF Slots
<1> HIDE DEF n, k
<1>6. \A g \in Groups, i \in StageIds : <<g, i>> \in spots <=> g \in new /\ i < s /\ (n < s => i < n)
  BY DEF Slots
<1> HIDE DEF spots
<1>7. /\ stages' \in [Groups -> [StageIds -> Stage]]
      /\ assigned' \in [Miners -> Place]
      /\ available' \subseteq Miners
      /\ \A x \in spots : place[x] \in Miners
      /\ \A g \in Groups, i \in StageIds :
           /\ stages'[g][i].miner = IF <<g, i>> \in spots THEN place[<<g, i>>]
                                    ELSE stages[g][i].miner
           /\ stages'[g][i].status = IF <<g, i>> \in spots THEN "assigned" ELSE stages[g][i].status
      /\ Agreement'
      /\ LinksAreNeighbours'
  BY <1>3, <1>5, MoveInPlaces DEF IInv
<1>8. TypeOK'
  <2>1. created' \in 0..MaxGroups
    BY <1>1, <1>2, ShardAssumption
  <2>2. size' \in [Groups -> StageCounts \cup {0}]
    BY <1>2 DEF IInv, TypeOK
  <2>3. status' \in [Groups -> {"none", "forming", "loading", "ready", "training", "degraded"}]
    BY <1>2 DEF IInv, TypeOK
  <2> QED
    BY <1>7, <2>1, <2>2, <2>3 DEF TypeOK
<1>9. GroupInv'
  <2> SUFFICES ASSUME NEW g \in Groups
               PROVE  /\ g > created' <=> status'[g] = "none"
                      /\ g > created' <=> size'[g] = 0
                      /\ \A i \in StageIds : Filled(g, i)' => i < size'[g]
    BY DEF GroupInv
  <2>1. /\ g > created <=> status[g] = "none"
        /\ g > created <=> size[g] = 0
        /\ \A i \in StageIds : Filled(g, i) => i < size[g]
    BY DEF IInv, GroupInv
  <2>2. g \in Nat /\ created \in Nat
    BY <1>1, ShardAssumption DEF Groups
  <2>3. CASE g \in new
    <3>1. size'[g] = s /\ status'[g] # "none" /\ s # 0 /\ ~(g > created')
      BY <1>1, <1>2, <2>2, <2>3, ShardAssumption
    <3>2. \A i \in StageIds : Filled(g, i)' => i < s
      <4> SUFFICES ASSUME NEW i \in StageIds, stages'[g][i].miner # NoMiner PROVE i < s
        BY DEF Filled
      <4>1. stages[g][i].miner = NoMiner
        BY <1>4, <2>3 DEF Filled
      <4>2. <<g, i>> \in spots
        BY <1>7, <4>1
      <4> QED
        BY <1>6, <4>2
    <3> QED
      BY <3>1, <3>2
  <2>4. CASE g \notin new
    <3>1. g > created' <=> g > created
      BY <1>1, <1>2, <2>2, <2>4
    <3>2. size'[g] = size[g] /\ status'[g] = status[g]
      BY <1>2, <2>4
    <3>3. \A i \in StageIds : Filled(g, i)' => Filled(g, i)
      BY <1>6, <1>7, <2>4 DEF Filled
    <3> QED
      BY <2>1, <3>1, <3>2, <3>3
  <2> QED
    BY <2>3, <2>4
<1>10. StatusMatchesStages'
  <2> SUFFICES ASSUME NEW g \in Groups
               PROVE  /\ status'[g] \in {"loading", "ready", "training"} => Complete(stages, g)'
                      /\ status'[g] \in {"forming", "degraded"} => ~Complete(stages, g)'
                      /\ status'[g] = "ready" => AllReady(stages, g)'
    BY DEF StatusMatchesStages
  <2>1. CASE g \notin new
    <3>1. size'[g] = size[g] /\ status'[g] = status[g]
      BY <1>2, <2>1
    <3>2. \A i \in StageIds : /\ stages'[g][i].miner = stages[g][i].miner
                              /\ stages'[g][i].status = stages[g][i].status
      BY <1>6, <1>7, <2>1
    <3> QED
      BY <3>1, <3>2 DEF IInv, StatusMatchesStages, Complete, AllReady
  <2>2. CASE g \in new /\ n < s
    <3>1. status'[g] = "forming" /\ size'[g] = s
      BY <1>2, <2>2
    <3>2. n \in StageIds
      BY <1>1, <2>2, ShardAssumption DEF StageIds
    <3>3. stages'[g][n].miner = NoMiner
      <4>1. stages[g][n].miner = NoMiner
        BY <1>4, <2>2, <3>2 DEF Filled
      <4>2. <<g, n>> \notin spots
        <5>1. ~(n < n)
          BY <1>1
        <5> QED
          BY <1>6, <2>2, <3>2, <5>1
      <4> QED
        BY <1>7, <3>2, <4>1, <4>2
    <3> QED
      BY <2>2, <3>1, <3>2, <3>3 DEF Complete
  <2>3. CASE g \in new /\ ~(n < s)
    <3>1. status'[g] = "loading" /\ size'[g] = s
      BY <1>2, <2>3
    <3>2. \A i \in StageIds : i < s => stages'[g][i].miner # NoMiner
      <4> TAKE i \in StageIds
      <4> HAVE i < s
      <4>1. <<g, i>> \in spots
        BY <1>6, <2>3
      <4>2. place[<<g, i>>] \in Miners
        BY <1>7, <4>1
      <4> QED
        BY <1>7, <4>1, <4>2, ShardAssumption
    <3> QED
      BY <3>1, <3>2 DEF Complete
  <2> QED
    BY <2>1, <2>2, <2>3
<1> QED
  BY <1>7, <1>8, <1>9, <1>10 DEF IInv

\* liquid_redistribute fills vacant slots of degraded groups only.
LEMMA RedistributeStep ==
  ASSUME IInv, NEW G \in SUBSET Groups, Redistribute(G) PROVE IInv'
<1> DEFINE S == ServedSlots(G)
<1>1. PICK place \in Injection(S, FreeMiners) : MoveIn(place, "loading")
  BY DEF Redistribute
<1>2. /\ UNCHANGED <<created, size>>
      /\ status' = [g \in Groups |->
           IF g \in G /\ status[g] = "degraded" /\ Complete(stages', g) THEN "loading" ELSE status[g]]
  BY DEF Redistribute
<1>3. /\ S \in SUBSET Slots
      /\ \A x \in S : ~Filled(x[1], x[2])
      /\ \A x \in S : status[x[1]] = "degraded" /\ x[2] < size[x[1]]
  BY DEF ServedSlots, VacantSlots
<1> HIDE DEF S
<1>4. /\ stages' \in [Groups -> [StageIds -> Stage]]
      /\ assigned' \in [Miners -> Place]
      /\ available' \subseteq Miners
      /\ \A x \in S : place[x] \in Miners
      /\ \A g \in Groups, i \in StageIds :
           /\ stages'[g][i].miner = IF <<g, i>> \in S THEN place[<<g, i>>]
                                    ELSE stages[g][i].miner
           /\ stages'[g][i].status = IF <<g, i>> \in S THEN "loading" ELSE stages[g][i].status
      /\ Agreement'
      /\ LinksAreNeighbours'
  BY <1>1, <1>3, MoveInPlaces DEF IInv
<1>5. TypeOK'
  BY <1>2, <1>4 DEF IInv, TypeOK
<1>6. GroupInv'
  <2>1. \A g \in Groups : status'[g] = "none" <=> status[g] = "none"
    BY <1>2
  <2>2. \A g \in Groups, i \in StageIds : Filled(g, i)' => Filled(g, i) \/ i < size[g]
    <3> TAKE g \in Groups, i \in StageIds
    <3>1. CASE <<g, i>> \in S
      <4>1. i < size[g]
        BY <1>3, <3>1
      <4> QED
        BY <4>1
    <3>2. CASE <<g, i>> \notin S
      BY <1>4, <3>2 DEF Filled
    <3> QED
      BY <3>1, <3>2
  <2> QED
    BY <1>2, <2>1, <2>2 DEF IInv, GroupInv
<1>7. StatusMatchesStages'
  <2> SUFFICES ASSUME NEW g \in Groups
               PROVE  /\ status'[g] \in {"loading", "ready", "training"} => Complete(stages, g)'
                      /\ status'[g] \in {"forming", "degraded"} => ~Complete(stages, g)'
                      /\ status'[g] = "ready" => AllReady(stages, g)'
    BY DEF StatusMatchesStages
  <2>1. Complete(stages, g)' <=> Complete(stages', g)
    BY <1>2 DEF Complete
  <2>2. CASE status[g] = "degraded"
    <3>1. CASE \A i \in StageIds : <<g, i>> \notin S
      <4>1. Complete(stages', g) <=> Complete(stages, g)
        BY <1>4, <3>1 DEF Complete
      <4>2. ~Complete(stages, g)
        BY <2>2 DEF IInv, StatusMatchesStages
      <4> QED
        BY <1>2, <2>1, <2>2, <4>1, <4>2
    <3>2. CASE \E i \in StageIds : <<g, i>> \in S
      <4>1. g \in G
        BY <3>2 DEF S, ServedSlots, VacantSlots
      <4> QED
        BY <1>2, <2>1, <2>2, <4>1
    <3> QED
      BY <3>1, <3>2
  <2>3. CASE status[g] # "degraded"
    <3>1. \A i \in StageIds : <<g, i>> \notin S
      <4>1. \A i \in StageIds : <<g, i>>[1] = g
        OBVIOUS
      <4> QED
        BY <1>3, <2>3, <4>1
    <3>2. \A i \in StageIds : /\ stages'[g][i].miner = stages[g][i].miner
                              /\ stages'[g][i].status = stages[g][i].status
      BY <1>4, <3>1
    <3>3. status'[g] = status[g] /\ size'[g] = size[g]
      BY <1>2, <2>3
    <3> QED
      BY <3>2, <3>3 DEF IInv, StatusMatchesStages, Complete, AllReady
  <2> QED
    BY <2>2, <2>3
<1> QED
  BY <1>4, <1>5, <1>6, <1>7 DEF IInv

-----------------------------------------------------------------------------
\* Every step preserves the inductive invariant.
LEMMA StepIInv == IInv /\ [Next]_shardVars => IInv'
<1> SUFFICES ASSUME IInv, [Next]_shardVars PROVE IInv'
  OBVIOUS
<1>1. ASSUME NEW m \in Miners, RegisterMiner(m) PROVE IInv'
  BY <1>1, RegisterStep
<1>2. ASSUME NEW m \in Miners, ReportShardReady(m) PROVE IInv'
  BY <1>2, ReportStep
<1>3. ASSUME NEW m \in Miners, HandleMinerDisconnect(m) PROVE IInv'
  BY <1>3, DisconnectStep
<1>4. ASSUME NEW s \in StageCounts, FormPipelineGroups(s) PROVE IInv'
  BY <1>4, FormationStep
<1>5. ASSUME NEW g \in Groups, StartTraining(g) PROVE IInv'
  BY <1>5, TrainingStep
<1>6. ASSUME NEW g \in Groups, LiquidRedistribute(g) PROVE IInv'
  <2>1. {g} \in SUBSET Groups
    OBVIOUS
  <2> QED
    BY <1>6, <2>1, RedistributeStep DEF LiquidRedistribute
<1>7. ASSUME AutoHealDegradedPipelines PROVE IInv'
  <2>1. Groups \in SUBSET Groups
    OBVIOUS
  <2> QED
    BY <1>7, <2>1, RedistributeStep DEF AutoHealDegradedPipelines
<1>8. CASE UNCHANGED shardVars
  BY <1>8 DEF IInv, TypeOK, GroupInv, Agreement, StatusMatchesStages, LinksAreNeighbours,
              shardVars, topology, Filled, Complete, AllReady
<1> QED
  BY <1>1, <1>2, <1>3, <1>4, <1>5, <1>6, <1>7, <1>8 DEF Next

\* The inductive invariant: types, the placement's two maps, the statuses and the
\* links agree in every reachable state.
THEOREM ShardInvariant == Spec => []IInv
<1>1. Init => IInv
  BY InitIInv
<1>2. IInv /\ [Next]_shardVars => IInv'
  BY StepIInv
<1> QED
  BY <1>1, <1>2, PTL DEF Spec

\* The two maps of the placement agree in every reachable state, for any number
\* of miners, groups and stages.
THEOREM PlacementAgrees == Spec => []Agreement
BY ShardInvariant, PTL DEF IInv

\* A group that is loading, ready or training has a miner at every stage; one
\* that is forming or degraded has not.
THEOREM StatusIsTrue == Spec => []StatusMatchesStages
BY ShardInvariant, PTL DEF IInv

\* No miner sits beyond the last stage of its group, however many healing rounds
\* of however many groups.
THEOREM GroupsHoldTheirStages == Spec => []GroupInv
BY ShardInvariant, PTL DEF IInv

\* The links of a stage name its present neighbours.
THEOREM LinksAreRight == Spec => []LinksAreNeighbours
BY ShardInvariant, PTL DEF IInv

-----------------------------------------------------------------------------
\* Moving in leaves every miner that has a stage where it is.
LEMMA MovesOnlyFreeMiners ==
  ASSUME NEW S, NEW place \in Injection(S, FreeMiners), NEW st, MoveIn(place, st),
         NEW m \in Miners, assigned[m] # Nowhere
  PROVE  assigned'[m] = assigned[m]
<1>1. DOMAIN place = S /\ \A x \in S : place[x] \in FreeMiners
  BY DEF Injection
<1> QED
  BY <1>1 DEF MoveIn, FreeMiners

\* A step that takes a miner's stage away is its disconnect.
LEMMA EvictionStep ==
  ASSUME TypeOK, Next, NEW m \in Miners, assigned[m] # Nowhere, assigned'[m] # assigned[m]
  PROVE  HandleMinerDisconnect(m)
<1>1. ASSUME NEW n \in Miners, RegisterMiner(n) \/ ReportShardReady(n) PROVE FALSE
  BY <1>1 DEF RegisterMiner, ReportShardReady, topology
<1>2. ASSUME NEW n \in Miners, HandleMinerDisconnect(n), n # m PROVE FALSE
  BY <1>2 DEF HandleMinerDisconnect, topology, TypeOK
<1>3. ASSUME NEW s \in StageCounts, FormPipelineGroups(s) PROVE FALSE
  BY <1>3, MovesOnlyFreeMiners DEF FormPipelineGroups
<1>4. ASSUME NEW g \in Groups, StartTraining(g) PROVE FALSE
  BY <1>4 DEF StartTraining
<1>5. ASSUME NEW G, Redistribute(G) PROVE FALSE
  BY <1>5, MovesOnlyFreeMiners DEF Redistribute
<1> QED
  BY <1>1, <1>2, <1>3, <1>4, <1>5 DEF Next, LiquidRedistribute, AutoHealDegradedPipelines

\* Every variable keeps its type; in particular no stage names a group or a place
\* there is not.
THEOREM PlacementTypes == Spec => []TypeOK
BY ShardInvariant, PTL DEF IInv

\* Only its own disconnect takes a miner's stage away.
THEOREM OnlyDisconnectsEvict == Spec => NoSilentEviction
<1>1. IInv /\ [Next]_shardVars =>
        [\A m \in Miners : assigned[m] # Nowhere /\ assigned'[m] # assigned[m]
            => HandleMinerDisconnect(m)]_shardVars
  BY EvictionStep DEF IInv
<1> QED
  BY <1>1, ShardInvariant, PTL DEF Spec, NoSilentEviction
-----------------------------------------------------------------------------
(* Connections *)

\* A group's stages can be counted.
LEMMA StaffedCount ==
  ASSUME NEW st, NEW g PROVE Staffed(st, g) \in Nat
<1>1. IsFiniteSet(StageIds)
  BY ShardAssumption, FS_Interval DEF StageIds
<1>2. {i \in StageIds : st[g][i].miner # NoMiner} \subseteq StageIds
  OBVIOUS
<1> QED
  BY <1>1, <1>2, FS_Subset, FS_CardinalityType DEF Staffed

\* The initial state satisfies the inductive invariant.
LEMMA FleetInitIInv == FleetInit => FleetIInv
<1> SUFFICES ASSUME FleetInit PROVE FleetIInv
  OBVIOUS
<1>1. IInv
  BY InitIInv DEF FleetInit
<1> QED
  BY <1>1, FleetAssumption
  DEF FleetInit, FleetIInv, IInv, FleetTypeOK, HandlersServe, DepartureIsHeeded,
      EntriesAreOpen, Free, Handler

\* Disturbing walks changes nothing of a handler but stale, and sets that only
\* for walks over a group whose stages the step changes.
LEMMA DisturbedHandlers ==
  ASSUME NEW h \in [Conns -> Handler]
  PROVE  /\ Disturbed(h) \in [Conns -> Handler]
         /\ \A c \in Conns :
              /\ Disturbed(h)[c].miner = h[c].miner
              /\ Disturbed(h)[c].at = h[c].at
              /\ Disturbed(h)[c].group = h[c].group
              /\ Disturbed(h)[c].seen = h[c].seen
              /\ \/ h[c].at # "notifying"
                 \/ Staffed(stages', h[c].group) = Staffed(stages, h[c].group)
                 => (Disturbed(h)[c].stale <=> h[c].stale)
<1>1. ASSUME NEW c \in Conns
      PROVE  \E b \in BOOLEAN :
               /\ Disturbed(h)[c] = [h[c] EXCEPT !.stale = b]
               /\ \/ h[c].at # "notifying"
                  \/ Staffed(stages', h[c].group) = Staffed(stages, h[c].group)
                  => (b <=> h[c].stale)
  <2> DEFINE b == \/ h[c].stale
                  \/ /\ h[c].at = "notifying"
                     /\ Staffed(stages', h[c].group) # Staffed(stages, h[c].group)
  <2>1. b \in BOOLEAN
    OBVIOUS
  <2>2. Disturbed(h)[c] = [h[c] EXCEPT !.stale = b]
    BY Zenon DEF Disturbed
  <2> QED
    BY <2>1, <2>2
<1>2. ASSUME NEW c \in Conns, NEW b \in BOOLEAN
      PROVE  /\ [h[c] EXCEPT !.stale = b] \in Handler
             /\ [h[c] EXCEPT !.stale = b].miner = h[c].miner
             /\ [h[c] EXCEPT !.stale = b].at = h[c].at
             /\ [h[c] EXCEPT !.stale = b].group = h[c].group
             /\ [h[c] EXCEPT !.stale = b].seen = h[c].seen
             /\ [h[c] EXCEPT !.stale = b].stale = b
  <2>1. h[c] \in Handler
    OBVIOUS
  <2> QED
    BY <2>1 DEF Handler
<1>3. ASSUME NEW c \in Conns
      PROVE  /\ Disturbed(h)[c] \in Handler
             /\ Disturbed(h)[c].miner = h[c].miner
             /\ Disturbed(h)[c].at = h[c].at
             /\ Disturbed(h)[c].group = h[c].group
             /\ Disturbed(h)[c].seen = h[c].seen
             /\ \/ h[c].at # "notifying"
                \/ Staffed(stages', h[c].group) = Staffed(stages, h[c].group)
                => (Disturbed(h)[c].stale <=> h[c].stale)
  <2>1. PICK b \in BOOLEAN :
               /\ Disturbed(h)[c] = [h[c] EXCEPT !.stale = b]
               /\ \/ h[c].at # "notifying"
                  \/ Staffed(stages', h[c].group) = Staffed(stages, h[c].group)
                  => (b <=> h[c].stale)
    BY <1>1, Zenon
  <2>2. /\ Disturbed(h)[c] \in Handler
        /\ Disturbed(h)[c].miner = h[c].miner
        /\ Disturbed(h)[c].at = h[c].at
        /\ Disturbed(h)[c].group = h[c].group
        /\ Disturbed(h)[c].seen = h[c].seen
        /\ Disturbed(h)[c].stale = b
    <3> DEFINE r == [h[c] EXCEPT !.stale = b]
    <3>1. Disturbed(h)[c] = r
      BY <2>1
    <3>2. /\ r \in Handler /\ r.miner = h[c].miner /\ r.at = h[c].at
          /\ r.group = h[c].group /\ r.seen = h[c].seen /\ r.stale = b
      BY <1>2
    <3> HIDE DEF r
    <3> QED
      BY <3>1, <3>2
  <2> QED
    BY <2>1, <2>2, Zenon
<1>4. Disturbed(h) \in [Conns -> Handler]
  <2>1. Disturbed(h) = [c \in Conns |-> Disturbed(h)[c]]
    BY Zenon DEF Disturbed
  <2> QED
    BY <1>3, <2>1, Zenon
<1> QED
  BY <1>3, <1>4, Zenon

-----------------------------------------------------------------------------
\* A disconnect touches no other group.
LEMMA DisconnectElsewhere ==
  ASSUME TypeOK, NEW m \in Miners, HandleMinerDisconnect(m), NEW h \in Groups,
         assigned[m] = Nowhere \/ h # assigned[m].group
  PROVE  Staffed(stages', h) = Staffed(stages, h)
<1>1. stages'[h] = stages[h]
  BY DEF HandleMinerDisconnect, topology, TypeOK
<1> QED
  BY <1>1 DEF Staffed

\* A redistribution of one group puts nobody into another.
LEMMA RedistributeElsewhere ==
  ASSUME IInv, NEW g \in Groups, LiquidRedistribute(g), NEW h \in Groups, h # g
  PROVE  Staffed(stages', h) = Staffed(stages, h)
<1> DEFINE S == ServedSlots({g})
<1>1. PICK place \in Injection(S, FreeMiners) : MoveIn(place, "loading")
  BY DEF LiquidRedistribute, Redistribute
<1>2. /\ S \in SUBSET Slots
      /\ \A x \in S : ~Filled(x[1], x[2])
      /\ \A x \in S : x[1] = g
  BY DEF ServedSlots, VacantSlots
<1> HIDE DEF S
<1>3. \A i \in StageIds : <<h, i>> \notin S
  <2>1. \A i \in StageIds : <<h, i>>[1] = h
    OBVIOUS
  <2> QED
    BY <1>2, <2>1
<1>4. /\ stages' \in [Groups -> [StageIds -> Stage]]
      /\ \A k \in Groups, i \in StageIds :
           /\ stages'[k][i].miner = IF <<k, i>> \in S THEN place[<<k, i>>]
                                    ELSE stages[k][i].miner
           /\ stages'[k][i].status = IF <<k, i>> \in S THEN "loading" ELSE stages[k][i].status
  <2>1. S \in SUBSET Slots /\ \A x \in S : ~Filled(x[1], x[2])
    BY <1>2
  <2> QED
    BY <1>1, <2>1, MoveInPlaces DEF IInv
<1>5. \A i \in StageIds : stages'[h][i].miner = stages[h][i].miner
  BY <1>3, <1>4
<1> QED
  BY <1>5 DEF Staffed

\* The group of a placed miner.
LEMMA PlacedGroup ==
  ASSUME TypeOK, NEW m \in Miners, assigned[m] # Nowhere
  PROVE  assigned[m].group \in Groups
BY DEF TypeOK, Place

-----------------------------------------------------------------------------
\* A new connection gets the entry of its miner.
LEMMA ConnectStep ==
  ASSUME FleetIInv, NEW c \in Conns, NEW m \in Miners, Connect(c, m) PROVE FleetIInv'
<1> DEFINE r == [Free EXCEPT !.miner = m, !.at = "open"]
<1>1. /\ r \in Handler /\ r.miner = m /\ r.at = "open"
  BY DEF Free, Handler
<1> HIDE DEF r
<1>2. /\ conn[c].at = "free" /\ conn' = [conn EXCEPT ![c] = r]
      /\ active' = [active EXCEPT ![m] = c]
      /\ UNCHANGED <<shardVars, unheeded>>
  BY DEF Connect, r
<1>3. conn'[c] = r /\ \A d \in Conns \ {c} : conn'[d] = conn[d]
  BY <1>2 DEF FleetIInv, FleetTypeOK
<1>4. IInv' /\ TypeOK'
  BY <1>2, StepIInv DEF FleetIInv, IInv
<1>5. FleetTypeOK'
  BY <1>1, <1>2, <1>4 DEF FleetIInv, FleetTypeOK
<1>6. HandlersServe'
  BY <1>1, <1>3 DEF FleetIInv, HandlersServe
<1>7. DepartureIsHeeded'
  <2> SUFFICES ASSUME NEW g \in unheeded
               PROVE  \E d \in Conns : /\ conn'[d].at \in {"notifying", "healing"}
                                       /\ conn'[d].group = g /\ ~conn'[d].stale
    BY <1>2 DEF DepartureIsHeeded
  <2>1. PICK d \in Conns : /\ conn[d].at \in {"notifying", "healing"}
                           /\ conn[d].group = g /\ ~conn[d].stale
    BY DEF FleetIInv, DepartureIsHeeded
  <2> QED
    BY <1>2, <1>3, <2>1
<1>8. EntriesAreOpen'
  <2> SUFFICES ASSUME NEW n \in Miners, active'[n] # NoConn
               PROVE  conn'[active'[n]].at = "open" /\ conn'[active'[n]].miner = n
    BY DEF EntriesAreOpen
  <2>1. CASE n = m
    BY <1>1, <1>2, <1>3, <2>1 DEF FleetIInv, FleetTypeOK
  <2>2. CASE n # m
    <3>1. active'[n] = active[n] /\ active[n] \in Conns
      BY <1>2, <2>2 DEF FleetIInv, FleetTypeOK
    <3>2. conn[active[n]].at = "open" /\ conn[active[n]].miner = n
      BY <3>1 DEF FleetIInv, EntriesAreOpen
    <3> QED
      BY <1>2, <1>3, <3>1, <3>2
  <2> QED
    BY <2>1, <2>2
<1> QED
  BY <1>4, <1>5, <1>6, <1>7, <1>8 DEF FleetIInv

\* A failed send only drops an entry.
LEMMA SendFailsStep ==
  ASSUME FleetIInv, NEW m \in Miners, SendFails(m) PROVE FleetIInv'
<1>1. /\ active' = [active EXCEPT ![m] = NoConn]
      /\ UNCHANGED <<shardVars, conn, unheeded>>
  BY DEF SendFails, WithoutEntry
<1>2. IInv' /\ TypeOK'
  BY <1>1, StepIInv DEF FleetIInv, IInv
<1>3. FleetTypeOK' /\ HandlersServe' /\ DepartureIsHeeded'
  BY <1>1, <1>2 DEF FleetIInv, FleetTypeOK, HandlersServe, DepartureIsHeeded
<1>4. EntriesAreOpen'
  BY <1>1 DEF FleetIInv, FleetTypeOK, EntriesAreOpen
<1> QED
  BY <1>2, <1>3, <1>4 DEF FleetIInv

\* A handler that raises was not the one its group relies on.
LEMMA WalkRaisesStep ==
  ASSUME FleetIInv, NEW c \in Conns, WalkRaises(c) PROVE FleetIInv'
<1>1. /\ conn[c].at = "notifying" /\ conn[c].stale
      /\ conn' = [conn EXCEPT ![c] = Free]
      /\ UNCHANGED <<shardVars, active, unheeded>>
  BY DEF WalkRaises
<1>2. Free \in Handler /\ Free.at = "free"
  BY DEF Free, Handler
<1>3. conn'[c] = Free /\ \A d \in Conns \ {c} : conn'[d] = conn[d]
  BY <1>1 DEF FleetIInv, FleetTypeOK
<1>4. IInv' /\ TypeOK'
  BY <1>1, StepIInv DEF FleetIInv, IInv
<1>5. FleetTypeOK'
  BY <1>1, <1>2, <1>4 DEF FleetIInv, FleetTypeOK
<1>6. HandlersServe'
  BY <1>2, <1>3 DEF FleetIInv, HandlersServe
<1>7. DepartureIsHeeded'
  <2> SUFFICES ASSUME NEW g \in unheeded
               PROVE  \E d \in Conns : /\ conn'[d].at \in {"notifying", "healing"}
                                       /\ conn'[d].group = g /\ ~conn'[d].stale
    BY <1>1 DEF DepartureIsHeeded
  <2>1. PICK d \in Conns : /\ conn[d].at \in {"notifying", "healing"}
                           /\ conn[d].group = g /\ ~conn[d].stale
    BY DEF FleetIInv, DepartureIsHeeded
  <2> QED
    BY <1>1, <1>3, <2>1
<1>8. EntriesAreOpen'
  <2> SUFFICES ASSUME NEW n \in Miners, active[n] # NoConn
               PROVE  conn'[active[n]].at = "open" /\ conn'[active[n]].miner = n
    BY <1>1 DEF EntriesAreOpen
  <2>1. active[n] \in Conns /\ conn[active[n]].at = "open" /\ conn[active[n]].miner = n
    BY DEF FleetIInv, FleetTypeOK, EntriesAreOpen
  <2> QED
    BY <1>1, <1>3, <2>1
<1> QED
  BY <1>4, <1>5, <1>6, <1>7, <1>8 DEF FleetIInv

\* A closed connection whose miner had a stage becomes the handler its group
\* relies on; handlers of other groups are not disturbed.
LEMMA CloseStep ==
  ASSUME FleetIInv, NEW c \in Conns, Close(c) PROVE FleetIInv'
<1> DEFINE m == conn[c].miner
           g == assigned[m].group
           left == [miner |-> m, at |-> AfterDeparture(m), group |-> g,
                    seen |-> Staffed(stages', g), stale |-> FALSE]
<1>1. /\ conn[c].at = "open"
      /\ active' = [active EXCEPT ![m] = NoConn]
      /\ m \in Miners
      /\ HandleMinerDisconnect(m)
      /\ \/ assigned[m] = Nowhere /\ conn' = [conn EXCEPT ![c] = Free] /\ UNCHANGED unheeded
         \/ /\ assigned[m] # Nowhere
            /\ conn' = [Disturbed(conn) EXCEPT ![c] = left]
            /\ unheeded' = unheeded \cup {g}
  BY DEF Close, WithoutEntry, FleetIInv, HandlersServe
<1>2. IInv' /\ TypeOK' /\ TypeOK
  BY <1>1, DisconnectStep DEF FleetIInv, IInv
<1>3. conn \in [Conns -> Handler] /\ unheeded \subseteq Groups
  BY DEF FleetIInv, FleetTypeOK
<1>4. active' \in [Miners -> Conns \cup {NoConn}]
  BY <1>1 DEF FleetIInv, FleetTypeOK
<1>5. /\ Disturbed(conn) \in [Conns -> Handler]
      /\ \A d \in Conns :
           /\ Disturbed(conn)[d].miner = conn[d].miner
           /\ Disturbed(conn)[d].at = conn[d].at
           /\ Disturbed(conn)[d].group = conn[d].group
           /\ \/ conn[d].at # "notifying"
              \/ Staffed(stages', conn[d].group) = Staffed(stages, conn[d].group)
              => (Disturbed(conn)[d].stale <=> conn[d].stale)
  BY <1>3, DisturbedHandlers
<1>6. \A n \in Miners : active'[n] # NoConn =>
        /\ active[n] \in Conns \ {c} /\ active'[n] = active[n]
        /\ conn[active[n]].at = "open" /\ conn[active[n]].miner = n
  BY <1>1 DEF FleetIInv, FleetTypeOK, EntriesAreOpen
<1>7. CASE assigned[m] = Nowhere
  <2>1. /\ conn' = [conn EXCEPT ![c] = Free] /\ unheeded' = unheeded
        /\ Free \in Handler /\ Free.at = "free"
    BY <1>1, <1>7 DEF Free, Handler
  <2>2. conn'[c] = Free /\ \A d \in Conns \ {c} : conn'[d] = conn[d]
    BY <1>3, <2>1
  <2>3. FleetTypeOK'
    BY <1>2, <1>3, <1>4, <2>1 DEF FleetTypeOK
  <2>4. HandlersServe'
    BY <2>1, <2>2 DEF FleetIInv, HandlersServe
  <2>5. DepartureIsHeeded'
    <3> SUFFICES ASSUME NEW h \in unheeded
                 PROVE  \E d \in Conns : /\ conn'[d].at \in {"notifying", "healing"}
                                         /\ conn'[d].group = h /\ ~conn'[d].stale
      BY <2>1 DEF DepartureIsHeeded
    <3>1. PICK d \in Conns : /\ conn[d].at \in {"notifying", "healing"}
                             /\ conn[d].group = h /\ ~conn[d].stale
      BY DEF FleetIInv, DepartureIsHeeded
    <3> QED
      BY <1>1, <2>2, <3>1
  <2>6. EntriesAreOpen'
    BY <1>6, <2>2 DEF EntriesAreOpen
  <2> QED
    BY <1>2, <2>3, <2>4, <2>5, <2>6 DEF FleetIInv
<1>8. CASE assigned[m] # Nowhere
  <2>1. g \in Groups
    BY <1>1, <1>2, <1>8, PlacedGroup
  <2>2. /\ conn' = [Disturbed(conn) EXCEPT ![c] = left] /\ unheeded' = unheeded \cup {g}
    BY <1>1, <1>8
  <2>3. /\ left \in Handler /\ left.at \in {"notifying", "healing"}
        /\ left.group = g /\ left.stale = FALSE
    <3>1. AfterDeparture(m) \in {"notifying", "healing"}
      BY DEF AfterDeparture
    <3>2. Staffed(stages', g) \in Nat
      BY StaffedCount
    <3> QED
      BY <1>1, <2>1, <3>1, <3>2 DEF Handler
  <2> HIDE DEF left, g, m
  <2>4. conn'[c] = left /\ \A d \in Conns \ {c} : conn'[d] = Disturbed(conn)[d]
    BY <1>5, <2>2
  <2>5. FleetTypeOK'
    BY <1>2, <1>3, <1>4, <1>5, <2>1, <2>2, <2>3 DEF FleetTypeOK
  <2>6. HandlersServe'
    BY <1>5, <2>1, <2>3, <2>4 DEF FleetIInv, HandlersServe
  <2>7. DepartureIsHeeded'
    <3> SUFFICES ASSUME NEW h \in unheeded \cup {g}
                 PROVE  \E d \in Conns : /\ conn'[d].at \in {"notifying", "healing"}
                                         /\ conn'[d].group = h /\ ~conn'[d].stale
      BY <2>2 DEF DepartureIsHeeded
    <3>1. CASE h = g
      BY <2>3, <2>4, <3>1
    <3>2. CASE h # g
      <4>1. PICK d \in Conns : /\ conn[d].at \in {"notifying", "healing"}
                               /\ conn[d].group = h /\ ~conn[d].stale
        BY <3>2 DEF FleetIInv, DepartureIsHeeded
      <4>2. Staffed(stages', h) = Staffed(stages, h)
        <5>1. h \in Groups
          BY <1>3, <3>2
        <5> QED
          BY <1>1, <1>2, <3>2, <5>1, DisconnectElsewhere DEF g, m
      <4>3. d # c
        BY <1>1, <4>1
      <4> QED
        BY <1>5, <2>4, <4>1, <4>2, <4>3
    <3> QED
      BY <3>1, <3>2
  <2>8. EntriesAreOpen'
    BY <1>5, <1>6, <2>4 DEF EntriesAreOpen
  <2> QED
    BY <1>2, <2>5, <2>6, <2>7, <2>8 DEF FleetIInv
<1> QED
  BY <1>7, <1>8

\* What leaves connections alone but for disturbed walks keeps the invariant if
\* it disturbs no group that it leaves unheeded.
LEMMA DisturbedStep ==
  ASSUME FleetIInv, IInv', conn' = Disturbed(conn), UNCHANGED active,
         unheeded' \subseteq unheeded,
         \A h \in unheeded' : Staffed(stages', h) = Staffed(stages, h)
  PROVE  FleetIInv'
<1>1. conn \in [Conns -> Handler] /\ active \in [Miners -> Conns \cup {NoConn}]
      /\ unheeded \subseteq Groups /\ TypeOK'
  BY DEF FleetIInv, FleetTypeOK, IInv
<1>2. /\ conn' \in [Conns -> Handler]
      /\ \A d \in Conns :
           /\ conn'[d].miner = conn[d].miner
           /\ conn'[d].at = conn[d].at
           /\ conn'[d].group = conn[d].group
           /\ \/ conn[d].at # "notifying"
              \/ Staffed(stages', conn[d].group) = Staffed(stages, conn[d].group)
              => (conn'[d].stale <=> conn[d].stale)
  BY <1>1, DisturbedHandlers
<1>3. FleetTypeOK'
  BY <1>1, <1>2 DEF FleetTypeOK
<1>4. HandlersServe'
  BY <1>2 DEF FleetIInv, HandlersServe
<1>5. DepartureIsHeeded'
  <2> SUFFICES ASSUME NEW h \in unheeded'
               PROVE  \E d \in Conns : /\ conn'[d].at \in {"notifying", "healing"}
                                       /\ conn'[d].group = h /\ ~conn'[d].stale
    BY DEF DepartureIsHeeded
  <2>1. PICK d \in Conns : /\ conn[d].at \in {"notifying", "healing"}
                           /\ conn[d].group = h /\ ~conn[d].stale
    BY DEF FleetIInv, DepartureIsHeeded
  <2> QED
    BY <1>2, <2>1
<1>6. EntriesAreOpen'
  BY <1>1, <1>2 DEF FleetIInv, EntriesAreOpen
<1> QED
  BY <1>3, <1>4, <1>5, <1>6 DEF FleetIInv

\* Redistributing one group leaves the walks over others alone.
LEMMA HealStep ==
  ASSUME FleetIInv, NEW c \in Conns, Heal(c) PROVE FleetIInv'
<1> DEFINE g == conn[c].group
           h0 == [conn EXCEPT ![c] = Free]
<1>1. /\ conn[c].at \in {"notifying", "healing"}
      /\ LiquidRedistribute(g) \/ UNCHANGED shardVars
      /\ conn' = Disturbed(h0)
      /\ unheeded' = unheeded \ {g}
      /\ UNCHANGED active
  BY DEF Heal
<1>2. /\ g \in Groups /\ conn \in [Conns -> Handler] /\ unheeded \subseteq Groups
      /\ active \in [Miners -> Conns \cup {NoConn}]
      /\ IInv
  BY <1>1 DEF FleetIInv, FleetTypeOK, HandlersServe
<1>3. IInv' /\ TypeOK'
  BY <1>1, <1>2, StepIInv DEF Next, IInv
<1>4. \A h \in Groups \ {g} : Staffed(stages', h) = Staffed(stages, h)
  <2>1. CASE LiquidRedistribute(g)
    BY <1>2, <2>1, RedistributeElsewhere
  <2>2. CASE UNCHANGED shardVars
    BY <2>2 DEF shardVars, topology
  <2> QED
    BY <1>1, <2>1, <2>2
<1>5. Free \in Handler /\ Free.at = "free"
  BY DEF Free, Handler
<1>6. h0 \in [Conns -> Handler] /\ h0[c] = Free /\ \A d \in Conns \ {c} : h0[d] = conn[d]
  BY <1>2, <1>5
<1> HIDE DEF h0
<1>7. /\ conn' \in [Conns -> Handler]
      /\ \A d \in Conns :
           /\ conn'[d].miner = h0[d].miner
           /\ conn'[d].at = h0[d].at
           /\ conn'[d].group = h0[d].group
           /\ \/ h0[d].at # "notifying"
              \/ Staffed(stages', h0[d].group) = Staffed(stages, h0[d].group)
              => (conn'[d].stale <=> h0[d].stale)
  BY <1>1, <1>6, DisturbedHandlers
<1>8. FleetTypeOK'
  BY <1>1, <1>2, <1>3, <1>7 DEF FleetTypeOK
<1>9. HandlersServe'
  BY <1>5, <1>6, <1>7 DEF FleetIInv, HandlersServe
<1>10. DepartureIsHeeded'
  <2> SUFFICES ASSUME NEW h \in unheeded \ {g}
               PROVE  \E d \in Conns : /\ conn'[d].at \in {"notifying", "healing"}
                                       /\ conn'[d].group = h /\ ~conn'[d].stale
    BY <1>1 DEF DepartureIsHeeded
  <2>1. PICK d \in Conns : /\ conn[d].at \in {"notifying", "healing"}
                           /\ conn[d].group = h /\ ~conn[d].stale
    BY DEF FleetIInv, DepartureIsHeeded
  <2>2. d # c /\ h \in Groups \ {g}
    BY <1>2, <2>1
  <2> QED
    BY <1>4, <1>6, <1>7, <2>1, <2>2
<1>11. EntriesAreOpen'
  <2> SUFFICES ASSUME NEW n \in Miners, active[n] # NoConn
               PROVE  conn'[active[n]].at = "open" /\ conn'[active[n]].miner = n
    BY <1>1 DEF EntriesAreOpen
  <2>1. active[n] \in Conns /\ conn[active[n]].at = "open" /\ conn[active[n]].miner = n
    BY <1>2 DEF FleetIInv, EntriesAreOpen
  <2> QED
    BY <1>1, <1>6, <1>7, <2>1
<1> QED
  BY <1>3, <1>8, <1>9, <1>10, <1>11 DEF FleetIInv

\* REST calls leave the connections alone.
LEMMA ShardCallStep ==
  ASSUME FleetIInv, ShardCall PROVE FleetIInv'
<1>1. Next /\ UNCHANGED <<conn, active, unheeded>>
  BY DEF ShardCall, Next
<1>2. IInv' /\ TypeOK'
  BY <1>1, StepIInv DEF FleetIInv, IInv
<1> QED
  BY <1>1, <1>2
  DEF FleetIInv, FleetTypeOK, HandlersServe, DepartureIsHeeded, EntriesAreOpen

\* Healing everything leaves nothing unheeded.
LEMMA AutoHealStep ==
  ASSUME FleetIInv, AutoHeal PROVE FleetIInv'
<1>1. /\ Next /\ conn' = Disturbed(conn) /\ unheeded' = {} /\ UNCHANGED active
  BY DEF AutoHeal, Next
<1>2. IInv'
  BY <1>1, StepIInv DEF FleetIInv
<1> QED
  BY <1>1, <1>2, DisturbedStep

\* A fire drill disturbs only the group it leaves to the operator.
LEMMA SimulateStep ==
  ASSUME FleetIInv, NEW m \in Miners, SimulateDisconnect(m) PROVE FleetIInv'
<1>1. /\ HandleMinerDisconnect(m)
      /\ conn' = Disturbed(conn) /\ UNCHANGED active
      /\ unheeded' = IF assigned[m] = Nowhere THEN unheeded ELSE unheeded \ {assigned[m].group}
  BY DEF SimulateDisconnect
<1>2. IInv' /\ TypeOK /\ unheeded \subseteq Groups
  BY <1>1, DisconnectStep DEF FleetIInv, FleetTypeOK, IInv
<1>3. \A h \in unheeded' : Staffed(stages', h) = Staffed(stages, h)
  BY <1>1, <1>2, DisconnectElsewhere
<1> QED
  BY <1>1, <1>2, <1>3, DisturbedStep
-----------------------------------------------------------------------------
\* The inductive invariant of placement and connections together.
THEOREM FleetInvariant == FleetSpec => []FleetIInv
<1>1. FleetInit => FleetIInv
  BY FleetInitIInv
<1>2. FleetIInv /\ [FleetNext]_fleetVars => FleetIInv'
  <2> SUFFICES ASSUME FleetIInv, [FleetNext]_fleetVars PROVE FleetIInv'
    OBVIOUS
  <2>1. ASSUME NEW c \in Conns, NEW m \in Miners, Connect(c, m) PROVE FleetIInv'
    BY <2>1, ConnectStep
  <2>2. ASSUME NEW c \in Conns, Close(c) PROVE FleetIInv'
    BY <2>2, CloseStep
  <2>3. ASSUME NEW c \in Conns, Heal(c) PROVE FleetIInv'
    BY <2>3, HealStep
  <2>4. ASSUME NEW c \in Conns, WalkRaises(c) PROVE FleetIInv'
    BY <2>4, WalkRaisesStep
  <2>5. ASSUME NEW m \in Miners, SendFails(m) PROVE FleetIInv'
    BY <2>5, SendFailsStep
  <2>6. ASSUME NEW m \in Miners, SimulateDisconnect(m) PROVE FleetIInv'
    BY <2>6, SimulateStep
  <2>7. CASE ShardCall
    BY <2>7, ShardCallStep
  <2>8. CASE AutoHeal
    BY <2>8, AutoHealStep
  <2>9. CASE UNCHANGED fleetVars
    <3>1. UNCHANGED shardVars /\ UNCHANGED <<conn, active, unheeded>>
      BY <2>9 DEF fleetVars
    <3>2. IInv' /\ TypeOK'
      BY <3>1, StepIInv DEF FleetIInv, IInv
    <3>3. UNCHANGED stages
      BY <3>1 DEF shardVars, topology
    <3> QED
      BY <3>1, <3>2
      DEF FleetIInv, FleetTypeOK, HandlersServe, DepartureIsHeeded, EntriesAreOpen
  <2> QED
    BY <2>1, <2>2, <2>3, <2>4, <2>5, <2>6, <2>7, <2>8, <2>9 DEF FleetNext
<1> QED
  BY <1>1, <1>2, PTL DEF FleetSpec

\* Whatever the number of miners, connections and groups, and however handlers
\* interleave, a group a miner left has a handler on its way to redistribute it
\* that will not raise.
THEOREM DeparturesAreHeeded == FleetSpec => []DepartureIsHeeded
BY FleetInvariant, PTL DEF FleetIInv

\* Every entry of active_connections belongs to an open connection of its miner.
THEOREM EntriesBelong == FleetSpec => []EntriesAreOpen
BY FleetInvariant, PTL DEF FleetIInv

\* Every variable keeps its type, under any order of connects, departures, notices
\* and calls.
THEOREM FleetTypes == FleetSpec => []FleetTypeOK
BY FleetInvariant, PTL DEF FleetIInv

\* The handlers change the placement only by the methods of the shard manager, so that
\* what is proved of it by itself holds under connections, departures and fire drills.
THEOREM FleetImplementsPlacement == FleetSpec => Spec
<1>1. FleetInit => Init
  BY DEF FleetInit
<1>2. FleetIInv /\ [FleetNext]_fleetVars => [Next]_shardVars
  <2> SUFFICES ASSUME FleetIInv, [FleetNext]_fleetVars PROVE [Next]_shardVars
    OBVIOUS
  <2>1. ASSUME NEW c \in Conns, Close(c) PROVE Next
    <3>1. conn[c].miner \in Miners
      BY <2>1 DEF Close, FleetIInv, HandlersServe
    <3> QED
      BY <2>1, <3>1 DEF Close, Next
  <2>2. ASSUME NEW c \in Conns, Heal(c) PROVE [Next]_shardVars
    <3>1. conn[c].group \in Groups
      BY <2>2 DEF Heal, FleetIInv, HandlersServe
    <3> QED
      BY <2>2, <3>1 DEF Heal, Next
  <2>3. ASSUME NEW m \in Miners, SimulateDisconnect(m) PROVE Next
    BY <2>3 DEF SimulateDisconnect, Next
  <2>4. CASE ShardCall
    BY <2>4 DEF ShardCall, Next
  <2>5. CASE AutoHeal
    BY <2>5 DEF AutoHeal, Next
  <2> QED
    BY <2>1, <2>2, <2>3, <2>4, <2>5 DEF FleetNext, Connect, WalkRaises, SendFails, fleetVars
<1> QED
  BY <1>1, <1>2, FleetInvariant, PTL DEF FleetSpec, Spec
=============================================================================
