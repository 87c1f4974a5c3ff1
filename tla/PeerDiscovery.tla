--------------------------- MODULE PeerDiscovery ---------------------------
(***************************************************************************)
(* P2P discovery (p2p_discovery.py and the signaling endpoint): miners hold*)
(* a second websocket over which the peers of a pipeline group exchange    *)
(* offers, answers and candidates.  Each connection has a peer of its own; *)
(* the connection's handler works by miner id.                             *)
(*                                                                         *)
(* Nothing here awaits between reading and writing: the steps are those of *)
(* the handlers.  What is relayed is reduced to its kind.                  *)
(***************************************************************************)
EXTENDS Roster, Naturals, SequencesExt

CONSTANTS
  Groups,          \* pipeline groups
  Assignments,     \* bound: sequences of miners, by stage, that groups are given
  MaxConns,        \* bound: connections ever opened
  MaxSignals       \* bound: signals kept by the registered peers together

ASSUME PeerAssumption ==
  /\ \A s \in Assignments : s \in Seq(Miners) /\ IsInjective(s)
  /\ MaxConns \in Nat
  /\ MaxSignals \in Nat

\* A connection and its peer id have the same number; 0 is none.
Conns == 1..MaxConns

VARIABLES
  opened,          \* connections opened so far
  owner,           \* the miner of each
  open,            \* those whose handler runs
  peers,           \* peers by id, as a set: empty for an id that is not registered
  minerToPeer,     \* miner_to_peer
  pipelinePeers,   \* pipeline_peers
  pendingPairs     \* pending_connections: pairs a connection was begun for

peerVars == <<opened, owner, open, peers, minerToPeer, pipelinePeers, pendingPairs>>
-----------------------------------------------------------------------------
\* What a peer has kept of the messages its miner sent: connected_at is set once
\* its data channel is open.
Signals == {"offer", "answer", "ice-candidate", "datachannel-open"}

\* PeerInfo.  A peer without a group has the empty set, without a link 0.
PeerInfo ==
  [miner : Miners, group : SUBSET Groups, stage : Nat, upstream : 0..MaxConns,
   downstream : 0..MaxConns, signals : SUBSET Signals]

PeersTypeOK ==
  /\ opened \in 0..MaxConns
  /\ owner \in [1..opened -> Miners]
  /\ open \subseteq 1..opened
  /\ \A c \in Conns : peers[c] \subseteq PeerInfo /\ Cardinality(peers[c]) <= 1
  /\ minerToPeer \in [Miners -> 0..opened]
  /\ pipelinePeers \in [Groups -> SUBSET (1..opened)]
  /\ pendingPairs \subseteq (1..opened) \X (1..opened)

PeersInit ==
  /\ opened = 0
  /\ owner = <<>>
  /\ open = {}
  /\ peers = [c \in Conns |-> {}]
  /\ minerToPeer = [m \in Miners |-> 0]
  /\ pipelinePeers = [g \in Groups |-> {}]
  /\ pendingPairs = {}

Known(c) == peers[c] # {}
Peer(c) == CHOOSE p \in peers[c] : TRUE
-----------------------------------------------------------------------------
\* register_miner, when the endpoint has accepted a connection of m: a new peer,
\* also for a miner that has one.
RegisterPeer(m) ==
  /\ opened < MaxConns
  /\ LET c == opened + 1
     IN  /\ opened' = c
         /\ owner' = Append(owner, m)
         /\ open' = open \cup {c}
         /\ peers' = [peers EXCEPT ![c] =
              {[miner |-> m, group |-> {}, stage |-> 0, upstream |-> 0, downstream |-> 0,
                signals |-> {}]}]
         /\ minerToPeer' = [minerToPeer EXCEPT ![m] = c]
  /\ UNCHANGED <<pipelinePeers, pendingPairs>>

\* Mistake: the handler removes the peer of its own connection.
RemovedOwn(c) == IF minerToPeer[owner[c]] = 0 THEN {} ELSE {c}

\* unregister_miner removes the peer its miner has now.
Removed(c) == {minerToPeer[owner[c]]} \ {0}

\* The handler of c ends.
UnregisterMiner(c) ==
  /\ c \in open
  /\ open' = open \ {c}
  /\ minerToPeer' = [minerToPeer EXCEPT ![owner[c]] = 0]
  /\ peers' = [p \in Conns |-> IF p \in Removed(c) THEN {} ELSE peers[p]]
  /\ pipelinePeers' = [g \in Groups |->
       pipelinePeers[g] \ {p \in Removed(c) : Known(p) /\ g \in Peer(p).group}]
  /\ UNCHANGED <<opened, owner, pendingPairs>>

\* The peers of those miners of a pipeline that have one, by position: a chain once
\* the others are passed over.
PeersAt(miners) ==
  [i \in {j \in DOMAIN miners : minerToPeer[miners[j]] # 0} |-> minerToPeer[miners[i]]]

Above(at, i) == {j \in DOMAIN at : j < i}
Below(at, i) == {j \in DOMAIN at : j > i}

\* Mistake: a link that is there already is kept.
LinkedIfFree(old, at, i) ==
  [old EXCEPT
     !.upstream = IF @ = 0 /\ Above(at, i) # {} THEN at[Max(Above(at, i))] ELSE @,
     !.downstream = IF @ = 0 /\ Below(at, i) # {} THEN at[Min(Below(at, i))] ELSE @]

\* The links of the i-th peer: the ends of the chain keep what they had.
Linked(old, at, i) ==
  [old EXCEPT
     !.upstream = IF Above(at, i) # {} THEN at[Max(Above(at, i))] ELSE @,
     !.downstream = IF Below(at, i) # {} THEN at[Min(Below(at, i))] ELSE @]

\* _initiate_webrtc_connection: once for a pair, and never again.
Initiated(at) ==
  {<<at[i], at[Min(Below(at, i))]>> : i \in {j \in DOMAIN at : Below(at, j) # {}}}

\* assign_pipeline_peers, of miners in the order of their stages.
AssignPipelinePeers(g, miners) ==
  LET at == PeersAt(miners)
  IN  /\ pipelinePeers' = [pipelinePeers EXCEPT ![g] = Range(at)]
      /\ peers' = [c \in Conns |->
           IF c \in Range(at)
           THEN {Linked([Peer(c) EXCEPT !.group = {g}, !.stage = i - 1], at, i) :
                   i \in {j \in DOMAIN at : at[j] = c}}
           ELSE peers[c]]
      /\ pendingPairs' = pendingPairs \cup Initiated(at)
      /\ UNCHANGED <<opened, owner, open, minerToPeer>>

Kept == UNION {{<<c, kind>> : kind \in Peer(c).signals} : c \in {d \in Conns : Known(d)}}

\* What arrives on connection c is kept by the peer its miner has now.
Keep(c, kind) ==
  /\ c \in open
  /\ minerToPeer[owner[c]] # 0
  /\ Cardinality(Kept) < MaxSignals
  /\ peers' = [peers EXCEPT ![minerToPeer[owner[c]]] =
                 {[p EXCEPT !.signals = @ \cup {kind}] : p \in @}]
  /\ UNCHANGED <<opened, owner, open, minerToPeer, pipelinePeers, pendingPairs>>

\* handle_signaling_message: an offer, answer or candidate is dropped unless the
\* peer it is for is registered, to which it is passed on.
HandleSignaling(c, kind, target) == Known(target) /\ Keep(c, kind)

\* _handle_datachannel_open
HandleDatachannelOpen(c) == Keep(c, "datachannel-open")

PeersNext ==
  \/ \E m \in Miners : RegisterPeer(m)
  \/ \E g \in Groups, miners \in Assignments : AssignPipelinePeers(g, miners)
  \/ \E c \in open :
       \/ UnregisterMiner(c)
       \/ HandleDatachannelOpen(c)
       \/ \E kind \in Signals \ {"datachannel-open"}, target \in Conns : HandleSignaling(c, kind, target)
-----------------------------------------------------------------------------
\* Peers and connections part only when a miner connects again before its old
\* connection has ended.  A peer that outlives its connection has a successor; an
\* open connection without a peer lost it to one opened before it; and what
\* miner_to_peer names is registered, open, and the miner's latest.
Successors(c) == {d \in 1..opened : d > c /\ owner[d] = owner[c]}
Predecessors(c) == {d \in 1..opened : d < c /\ owner[d] = owner[c]}

PeersFollowConnections ==
  /\ \A c \in 1..opened :
       /\ Known(c) /\ c \notin open => Successors(c) # {}
       /\ c \in open /\ ~Known(c) => Predecessors(c) \ open # {}
  /\ \A m \in Miners : \A c \in 1..opened : minerToPeer[m] = c =>
       Known(c) /\ c \in open /\ owner[c] = m /\ Successors(c) = {}

\* Two peers listed in a group, of adjacent stages, name each other as neighbours
\* and have been told to connect, whatever groups they were in before and whoever
\* has left; only a peer that was moved since is listed in vain.
NeighboursAreLinked ==
  \A g \in Groups : \A c, d \in {p \in pipelinePeers[g] : Known(p) /\ g \in Peer(p).group} :
    Peer(d).stage = Peer(c).stage + 1 =>
      /\ Peer(c).downstream = d /\ Peer(d).upstream = c
      /\ <<c, d>> \in pendingPairs
=============================================================================
