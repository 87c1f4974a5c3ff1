----------------------------- MODULE MinerFleet -----------------------------
(***************************************************************************)
(* Websocket connections of miners (ws_handler.py) and what their ends do  *)
(* to the pipeline groups of ShardManager: the handler that ends drops the *)
(* connection entry of its miner, takes the miner out of its group, tells  *)
(* the survivors and only then redistributes the orphaned stages.          *)
(*                                                                         *)
(* Connections are kept by miner id, a miner may have several open ones,   *)
(* and every send to a survivor is an await in which other handlers run.   *)
(* The loop over the survivors walks group.stages itself: a walk that      *)
(* finds the dictionary grown or shrunk raises, one whose keys were        *)
(* replaced may, and the redistribution that should follow is skipped.     *)
(***************************************************************************)
EXTENDS ShardManager

CONSTANTS
  Conns,         \* websocket connections, each with its handler
  NoConn         \* a miner without an entry in active_connections

ASSUME FleetAssumption == NoConn \notin Conns

VARIABLES
  conn,          \* each handler: whom it serves, where it stands and, while it
                 \* notifies, its group, the stages it began to walk over and
                 \* whether any was added or deleted since
  active,        \* ws_manager.active_connections
  unheeded       \* groups a miner left and nobody redistributed since

fleetVars == <<shardVars, conn, active, unheeded>>

Handler == [miner : Miners \cup {NoMiner}, at : {"free", "open", "notifying", "healing"},
            group : Groups \cup {0}, seen : Nat, stale : BOOLEAN]

Free == [miner |-> NoMiner, at |-> "free", group |-> 0, seen |-> 0, stale |-> FALSE]

FleetTypeOK ==
  /\ TypeOK
  /\ conn \in [Conns -> Handler]
  /\ active \in [Miners -> Conns \cup {NoConn}]
  /\ unheeded \subseteq Groups

FleetInit ==
  /\ Init
  /\ conn = [c \in Conns |-> Free]
  /\ active = [m \in Miners |-> NoConn]
  /\ unheeded = {}
-----------------------------------------------------------------------------
\* How many entries group.stages has (st: stages or stages').
Staffed(st, g) == Cardinality({i \in StageIds : st[g][i].miner # NoMiner})

\* A handler that has nobody to notify awaits nothing: it redistributes before
\* any other code runs.
Idle == \A c \in Conns : conn[c].at # "healing"

\* The walks of the handlers in h over a group this step adds stages to or
\* deletes stages from.
Disturbed(h) ==
  [c \in Conns |-> [h[c] EXCEPT !.stale =
     \/ @
     \/ /\ h[c].at = "notifying"
        /\ Staffed(stages', h[c].group) # Staffed(stages, h[c].group)]]

\* A miner connects; an older connection of the same miner is not closed, its
\* entry is replaced.
Connect(c, m) ==
  /\ Idle
  /\ conn[c].at = "free"
  /\ conn' = [conn EXCEPT ![c] = [Free EXCEPT !.miner = m, !.at = "open"]]
  /\ active' = [active EXCEPT ![m] = c]
  /\ UNCHANGED <<shardVars, unheeded>>

\* Mistake: only a miner that holds a stage is dropped.
WithoutPlacedEntry(m) == [active EXCEPT ![m] = IF assigned[m] = Nowhere THEN @ ELSE NoConn]

\* ws_manager.disconnect: the entry goes, whichever connection it names.
WithoutEntry(m) == [active EXCEPT ![m] = NoConn]

\* A send to m failed (a broadcast, a notification); the handler of its
\* connection goes on until its own socket call fails.
SendFails(m) ==
  /\ Idle
  /\ active[m] # NoConn
  /\ active' = WithoutEntry(m)
  /\ UNCHANGED <<shardVars, conn, unheeded>>

\* Members of m's group that a notification is sent to.
Reached(m) ==
  {n \in Miners \ {m} :
     active[n] # NoConn /\ \E i \in StageIds : stages[assigned[m].group][i].miner = n}

\* Mistake: the group is healed only when somebody was told that it broke.
AfterTelling(m) == IF Reached(m) # {} THEN "notifying" ELSE "free"

AfterDeparture(m) == IF Reached(m) # {} THEN "notifying" ELSE "healing"

\* The socket of c closed: its miner loses its entry and its stage.
Close(c) ==
  LET m == conn[c].miner
      g == assigned[m].group
      left == [miner |-> m, at |-> AfterDeparture(m), group |-> g,
               seen |-> Staffed(stages', g), stale |-> FALSE]
  IN  /\ Idle
      /\ conn[c].at = "open"
      /\ active' = WithoutEntry(m)
      /\ HandleMinerDisconnect(m)
      /\ IF assigned[m] = Nowhere
         THEN conn' = [conn EXCEPT ![c] = Free] /\ UNCHANGED unheeded
         ELSE conn' = [Disturbed(conn) EXCEPT ![c] = left] /\ unheeded' = unheeded \cup {g}

\* The walk over the survivors came to its end: redistribute, unless another
\* handler repaired the group meanwhile.
Heal(c) ==
  LET g == conn[c].group
  IN  /\ conn[c].at = "healing" \/ (Idle /\ conn[c].at = "notifying")
      /\ Staffed(stages, g) = conn[c].seen
      /\ IF status[g] = "degraded" THEN LiquidRedistribute(g) ELSE UNCHANGED shardVars
      /\ conn' = Disturbed([conn EXCEPT ![c] = Free])
      /\ unheeded' = unheeded \ {g}
      /\ UNCHANGED active

\* RuntimeError: the dictionary changed during the walk.
WalkRaises(c) ==
  /\ Idle
  /\ conn[c].at = "notifying"
  /\ conn[c].stale
  /\ conn' = [conn EXCEPT ![c] = Free]
  /\ UNCHANGED <<shardVars, active, unheeded>>

\* REST calls, none of which awaits between reading and writing; none changes
\* who is in a group that has lost a miner.
ShardCall ==
  /\ Idle
  /\ \/ \E m \in Miners : RegisterMiner(m) \/ ReportShardReady(m)
     \/ \E s \in StageCounts : FormPipelineGroups(s)
     \/ \E g \in Groups : StartTraining(g)
  /\ UNCHANGED <<conn, active, unheeded>>

AutoHeal ==
  /\ Idle
  /\ AutoHealDegradedPipelines
  /\ conn' = Disturbed(conn)
  /\ unheeded' = {}
  /\ UNCHANGED active

\* The fire drill of an operator, who is told which group it degrades and has to
\* heal it: whatever was on its way to that group may now raise.
SimulateDisconnect(m) ==
  /\ Idle
  /\ HandleMinerDisconnect(m)
  /\ conn' = Disturbed(conn)
  /\ unheeded' = IF assigned[m] = Nowhere THEN unheeded ELSE unheeded \ {assigned[m].group}
  /\ UNCHANGED active

FleetNext ==
  \/ \E c \in Conns :
       \/ \E m \in Miners : Connect(c, m)
       \/ Close(c)
       \/ Heal(c)
       \/ WalkRaises(c)
  \/ \E m \in Miners : SendFails(m) \/ SimulateDisconnect(m)
  \/ ShardCall
  \/ AutoHeal

FleetSpec == FleetInit /\ [][FleetNext]_fleetVars
-----------------------------------------------------------------------------
\* A departure is never forgotten: although a handler that finds group.stages
\* changed raises before it redistributes, some other handler is then on its
\* way to do it over a walk that nothing disturbed.  A fire drill on the group
\* leaves it to the operator.
DepartureIsHeeded ==
  \A g \in unheeded : \E c \in Conns :
    /\ conn[c].at \in {"notifying", "healing"}
    /\ conn[c].group = g
    /\ ~conn[c].stale

\* No entry of active_connections outlives the handler of its connection, though
\* entries are replaced by reconnects and dropped by miner id.
EntriesAreOpen ==
  \A m \in Miners : active[m] # NoConn =>
    conn[active[m]].at = "open" /\ conn[active[m]].miner = m

\* A connection serves a miner; whoever notifies or heals does so for a group.
HandlersServe ==
  \A c \in Conns :
    /\ conn[c].at = "open" => conn[c].miner \in Miners
    /\ conn[c].at \in {"notifying", "healing"} => conn[c].group \in Groups

FleetIInv ==
  /\ IInv
  /\ FleetTypeOK
  /\ HandlersServe
  /\ DepartureIsHeeded
  /\ EntriesAreOpen
=============================================================================
