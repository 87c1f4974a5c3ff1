--------------------------- MODULE DetachedProofs ---------------------------
(***************************************************************************)
(* Theorems about the parts of Detached: peers and connections part only   *)
(* over a second connection, listed neighbours are linked, tensors arrive  *)
(* once, the collateral fits the score, no token is made or lost; for any  *)
(* number of miners, connections, groups, transfers, penalties and stakes. *)
(***************************************************************************)
EXTENDS Detached, PipelineProofs, Induction, FiniteSetTheorems, TLAPS

-----------------------------------------------------------------------------
(* Slashing *)

Reputation ==
  [score : 0..100, count : 0..MaxPenalties, collateral : {1000, 2000, 5000},
   suspensionEnd : 0..(MaxHours + 24)]

Fits(r) ==
  /\ r.collateral = 5000 <=> r.score < 25
  /\ r.collateral = 1000 <=> r.score >= 50
  /\ r.count = 0 => r.score = 100

Violation ==
  [miner : Miners, type : ViolationType, holds : BOOLEAN, verified : BOOLEAN,
   slash : {0, 2, 5, 10}]

SlashingInv ==
  /\ now \in 0..MaxHours
  /\ violations \in [Violations -> {NoRecord} \cup Violation]
  /\ reputation = [m \in Miners |-> reputation[m]]
  /\ \A m \in Miners : HasReputation(m) =>
       \E r \in Reputation : reputation[m] = {r} /\ Fits(r)

LEMMA SlashingInitInv == SlashingInit => SlashingInv
BY SlashingAssumption DEF SlashingInit, SlashingInv, HasReputation

LEMMA ReputationInv ==
  ASSUME SlashingInv, NEW m \in Miners
  PROVE  ReputationOf(m) \in Reputation /\ Fits(ReputationOf(m))
<1>1. CASE HasReputation(m)
  BY <1>1 DEF SlashingInv, ReputationOf
<1>2. CASE ~HasReputation(m)
  BY <1>2, SlashingAssumption DEF ReputationOf, NewReputation, Reputation, Fits
<1> QED
  BY <1>1, <1>2

\* A score only falls, and the collateral is raised where it crosses a threshold.
LEMMA PenaltyInv ==
  ASSUME NEW r \in Reputation, Fits(r), NEW c, c.points \in {5, 10, 20}, c.hours \in 0..24,
         now \in 0..MaxHours, r.count < MaxPenalties
  PROVE  Penalised(r, c) \in Reputation /\ Fits(Penalised(r, c))
<1> DEFINE S == {0, r.score - c.points}
<1>1. /\ r.score \in 0..100 /\ r.count \in 0..MaxPenalties /\ r.collateral \in {1000, 2000, 5000}
      /\ c.points \in 1..20
  BY DEF Reputation
<1>2. Max(S) \in S /\ \A y \in S : Max(S) >= y
  <2>1. \E x \in S : \A y \in S : x >= y
    BY <1>1
  <2> QED
    BY <2>1 DEF Max
<1>3. PICK score \in 0..100 : score = Lowered(r.score, c.points) /\ score <= r.score
  BY <1>1, <1>2 DEF Lowered
<1>4. PICK collateral \in {1000, 2000, 5000} :
        /\ collateral = Collateral(r, score)
        /\ collateral = 5000 <=> score < 25
        /\ collateral = 1000 <=> score >= 50
  <2>1. CASE score < 25
    BY <2>1 DEF Collateral
  <2>2. CASE score < 50 /\ score >= 25
    BY <2>2 DEF Collateral
  <2>3. CASE score >= 50
    <3>1. r.score >= 50
      BY <1>1, <1>3, <2>3
    <3>2. r.collateral = 1000
      BY <3>1 DEF Fits
    <3> QED
      BY <2>3, <3>2 DEF Collateral
  <2> QED
    BY <2>1, <2>2, <2>3
<1>5. Penalised(r, c) = [score |-> score, count |-> r.count + 1, collateral |-> collateral,
                         suspensionEnd |-> now + c.hours]
  BY <1>3, <1>4 DEF Penalised
<1>6. r.count + 1 \in 0..MaxPenalties /\ now + c.hours \in 0..(MaxHours + 24)
  BY <1>1, SlashingAssumption
<1> QED
  BY <1>1, <1>4, <1>5, <1>6 DEF Reputation, Fits

\* One more reputation that fits.
LEMMA ReputationStep ==
  ASSUME SlashingInv, NEW m \in Miners, NEW r \in Reputation, Fits(r),
         reputation' = [reputation EXCEPT ![m] = {r}],
         violations' \in [Violations -> {NoRecord} \cup Violation], now' = now
  PROVE  SlashingInv'
<1>1. /\ reputation'[m] = {r}
      /\ \A n \in Miners \ {m} : reputation'[n] = reputation[n]
      /\ reputation' = [n \in Miners |-> reputation'[n]]
  BY DEF SlashingInv
<1> QED
  BY <1>1 DEF SlashingInv, HasReputation

LEMMA VerifyInv ==
  ASSUME SlashingInv, NEW v \in Violations, VerifyViolation(v)
  PROVE  SlashingInv'
<1> DEFINE r == violations[v]
           c == SlashingConditions[r.type]
<1>1. r \in Violation /\ violations \in [Violations -> {NoRecord} \cup Violation]
  BY DEF VerifyViolation, Reported, SlashingInv
<1>2. now' = now
  BY DEF VerifyViolation
<1>3. CASE ValidEvidence(r)
  <2>1. c.points \in {5, 10, 20} /\ c.hours \in 0..24 /\ c.stake \in {2, 5, 10}
    <3>1. CASE r.type = "invalid_merkle_proof"
      BY <3>1 DEF SlashingConditions
    <3>2. CASE r.type = "weight_hash_mismatch"
      BY <3>2 DEF SlashingConditions
    <3>3. CASE r.type = "unavailable_weights"
      BY <3>3 DEF SlashingConditions
    <3> QED
      BY <1>3, <3>1, <3>2, <3>3 DEF ValidEvidence
  <2>2. r.miner \in Miners
    BY <1>1 DEF Violation
  <2>3. /\ reputation' = [reputation EXCEPT ![r.miner] = {Penalised(ReputationOf(r.miner), c)}]
        /\ violations' = [violations EXCEPT ![v].verified = TRUE, ![v].slash = c.stake]
        /\ ReputationOf(r.miner).count < MaxPenalties
    BY <1>3 DEF VerifyViolation
  <2>4. [[r EXCEPT !.verified = TRUE] EXCEPT !.slash = c.stake] \in Violation
    BY <1>1, <2>1 DEF Violation
  <2>5. violations' \in [Violations -> {NoRecord} \cup Violation]
    BY <1>1, <2>3, <2>4
  <2>6. /\ Penalised(ReputationOf(r.miner), c) \in Reputation
        /\ Fits(Penalised(ReputationOf(r.miner), c))
    BY <2>1, <2>2, <2>3, ReputationInv, PenaltyInv DEF SlashingInv
  <2> QED
    BY <1>2, <2>2, <2>3, <2>5, <2>6, ReputationStep
<1>4. CASE ~ValidEvidence(r)
  <2>1. reputation' = reputation /\ violations' = [violations EXCEPT ![v].verified = TRUE]
    BY <1>4 DEF VerifyViolation
  <2>2. [r EXCEPT !.verified = TRUE] \in Violation
    BY <1>1 DEF Violation
  <2>3. violations' \in [Violations -> {NoRecord} \cup Violation]
    BY <1>1, <2>1, <2>2
  <2> QED
    BY <1>2, <2>1, <2>3 DEF SlashingInv, HasReputation
<1> QED
  BY <1>3, <1>4

LEMMA SlashingStepInv == SlashingInv /\ [SlashingNext]_slashingVars => SlashingInv'
<1> SUFFICES ASSUME SlashingInv, [SlashingNext]_slashingVars PROVE SlashingInv'
  OBVIOUS
<1>1. ASSUME NEW m \in Miners, NEW type \in ViolationType, NEW holds \in BOOLEAN,
             ReportViolation(m, type, holds)
      PROVE  SlashingInv'
  <2> DEFINE new == [miner |-> m, type |-> type, holds |-> holds, verified |-> FALSE, slash |-> 0]
  <2>1. PICK v \in Violations \ Reported : violations' = [violations EXCEPT ![v] = new]
    BY <1>1 DEF ReportViolation
  <2>2. new \in Violation
    BY DEF Violation
  <2> HIDE DEF new
  <2>3. violations' \in [Violations -> {NoRecord} \cup Violation]
    BY <2>1, <2>2 DEF SlashingInv
  <2> QED
    BY <1>1, <2>3 DEF ReportViolation, SlashingInv, HasReputation
<1>2. ASSUME NEW m \in Miners, VerifyWeightTransferFails(m) PROVE SlashingInv'
  BY <1>1, <1>2 DEF VerifyWeightTransferFails, ViolationType
<1>3. ASSUME NEW m \in Miners, GetMinerStatus(m) PROVE SlashingInv'
  BY <1>3, ReputationInv, ReputationStep DEF GetMinerStatus, SlashingInv
<1>4. ASSUME NEW v \in Violations, VerifyViolation(v) PROVE SlashingInv'
  BY <1>4, VerifyInv
<1>5. CASE HoursPass
  BY <1>5, SlashingAssumption DEF HoursPass, SlashingInv, HasReputation
<1>6. CASE UNCHANGED slashingVars
  BY <1>6 DEF slashingVars, SlashingInv, HasReputation
<1> QED
  BY <1>1, <1>2, <1>3, <1>4, <1>5, <1>6 DEF SlashingNext

\* The collateral that slashing.py asks of a miner fits its score, whatever
\* penalties led there.
THEOREM CollateralFits == DetachedSpec => []CollateralFollowsScore
<1>1. DetachedInit => SlashingInv
  BY SlashingInitInv DEF DetachedInit
<1>2. SlashingInv /\ [DetachedNext]_detachedVars => SlashingInv'
  <2>1. [DetachedNext]_detachedVars => [SlashingNext]_slashingVars
    BY DEF DetachedNext, detachedVars
  <2> QED
    BY <2>1, SlashingStepInv
<1>3. SlashingInv => CollateralFollowsScore
  BY ReputationInv DEF CollateralFollowsScore, Fits
<1> QED
  BY <1>1, <1>2, <1>3, PTL DEF DetachedSpec
-----------------------------------------------------------------------------
(* Peers *)

\* A record of these fields, whatever they hold.
IsPeer(p) ==
  p \in [miner : {p.miner}, group : {p.group}, stage : {p.stage}, upstream : {p.upstream},
         downstream : {p.downstream}, signals : {p.signals}]

PeerTypes ==
  /\ opened \in 0..MaxConns
  /\ owner \in [1..opened -> Miners]
  /\ open \subseteq 1..opened
  /\ peers = [c \in Conns |-> peers[c]]
  /\ \A c \in Conns : Known(c) => /\ c \in 1..opened
                                  /\ \E p : IsPeer(p) /\ peers[c] = {p}
  /\ minerToPeer \in [Miners -> 0..opened]
  /\ pipelinePeers \in [Groups -> SUBSET (1..opened)]

\* A registered peer that has no successor is the one miner_to_peer names.
LatestIsFound ==
  \A c \in 1..opened : Known(c) /\ Successors(c) = {} => minerToPeer[owner[c]] = c

PeersInv == PeerTypes /\ LatestIsFound /\ PeersFollowConnections /\ NeighboursAreLinked

LEMMA PeersInitInv == PeersInit => PeersInv
<1> SUFFICES ASSUME PeersInit PROVE PeersInv
  OBVIOUS
<1>1. MaxConns \in Nat
  BY PeerAssumption
<1>2. PeerTypes
  BY <1>1 DEF PeersInit, PeerTypes, Known
<1>3. LatestIsFound /\ PeersFollowConnections
  BY DEF PeersInit, LatestIsFound, PeersFollowConnections
<1>4. NeighboursAreLinked
  BY DEF PeersInit, NeighboursAreLinked
<1> QED
  BY <1>2, <1>3, <1>4 DEF PeersInv

LEMMA ChooseOne ==
  ASSUME NEW S, NEW x, S = {x}
  PROVE  (CHOOSE p \in S : TRUE) = x
OBVIOUS

\* A registered peer is one record.
LEMMA OnePeer ==
  ASSUME PeerTypes, NEW c \in Conns, Known(c)
  PROVE  IsPeer(Peer(c))
<1>1. PICK p : IsPeer(p) /\ peers[c] = {p}
  BY DEF PeerTypes
<1>2. Peer(c) = p
  BY <1>1, ChooseOne DEF Peer
<1> QED
  BY <1>1, <1>2

\* Steps that change no connection and add or drop no peer.
LEMMA SamePeers ==
  ASSUME PeersInv, UNCHANGED <<opened, owner, open, minerToPeer>>,
         \A c \in Conns : Known(c)' <=> Known(c)
  PROVE  LatestIsFound' /\ PeersFollowConnections'
<1>1. \A c \in 1..opened : c \in Conns /\ (Known(c)' <=> Known(c))
  BY PeerAssumption DEF PeersInv, PeerTypes, Conns
<1>3. \A c : Successors(c)' = Successors(c) /\ Predecessors(c)' = Predecessors(c)
  BY DEF Successors, Predecessors
<1>4. LatestIsFound'
  BY <1>1, <1>3 DEF PeersInv, LatestIsFound
<1>5. PeersFollowConnections'
  BY <1>1, <1>3 DEF PeersInv, PeersFollowConnections
<1> QED
  BY <1>4, <1>5
-----------------------------------------------------------------------------
LEMMA RegisterInv ==
  ASSUME PeersInv, NEW m \in Miners, RegisterPeer(m)
  PROVE  PeersInv'
<1> DEFINE new == [miner |-> m, group |-> {}, stage |-> 0, upstream |-> 0, downstream |-> 0,
                   signals |-> {}]
<1>1. PICK c : c = opened + 1
  OBVIOUS
<1>2. /\ opened < MaxConns /\ opened' = c /\ owner' = Append(owner, m)
      /\ open' = open \cup {c}
      /\ peers' = [peers EXCEPT ![c] = {new}]
      /\ minerToPeer' = [minerToPeer EXCEPT ![m] = c]
      /\ pipelinePeers' = pipelinePeers /\ pendingPairs' = pendingPairs
  BY <1>1 DEF RegisterPeer
<1>3. /\ MaxConns \in Nat /\ opened \in Nat /\ c \in Conns /\ c \in Nat \ {0}
      /\ 1..c = (1..opened) \cup {c} /\ c \notin 1..opened
      /\ 1..opened \subseteq Conns
      /\ \A d \in 1..opened : d < c
      /\ PeerTypes
  BY <1>1, <1>2, PeerAssumption DEF PeersInv, PeerTypes, Conns
<1>4. IsPeer(new)
  BY DEF IsPeer
<1> HIDE DEF new
<1>5. /\ owner' \in [1..c -> Miners] /\ owner'[c] = m
      /\ \A d \in 1..opened : owner'[d] = owner[d]
  <2>1. owner \in Seq(Miners) /\ Len(owner) = opened
    BY <1>3 DEF PeerTypes
  <2>2. owner' \in Seq(Miners) /\ Len(owner') = c
    BY <1>1, <1>2, <2>1
  <2>3. owner' \in [1..c -> Miners]
    BY <2>2
  <2>4. owner'[c] = m /\ \A d \in 1..opened : owner'[d] = owner[d]
    BY <1>1, <1>2, <2>1
  <2> QED
    BY <2>3, <2>4
<1>6. /\ peers'[c] = {new}
      /\ \A d \in Conns \ {c} : peers'[d] = peers[d]
      /\ peers' = [d \in Conns |-> peers'[d]]
      /\ Known(c)'
      /\ \A d \in Conns \ {c} : Known(d)' <=> Known(d)
  BY <1>2, <1>3 DEF PeerTypes, Known
<1>7. /\ minerToPeer'[m] = c
      /\ \A n \in Miners \ {m} : minerToPeer'[n] = minerToPeer[n]
      /\ minerToPeer' \in [Miners -> 0..c]
  BY <1>1, <1>2, <1>3 DEF PeerTypes
<1>8. PeerTypes'
  <2>1. \A d \in Conns : Known(d)' => d \in 1..c /\ \E p : IsPeer(p) /\ peers'[d] = {p}
    BY <1>3, <1>4, <1>6 DEF PeerTypes
  <2>2. pipelinePeers' \in [Groups -> SUBSET (1..c)]
    BY <1>2, <1>3 DEF PeerTypes
  <2>3. opened' = c /\ c \in 0..MaxConns /\ open' \subseteq 1..c
    BY <1>1, <1>2, <1>3 DEF PeerTypes
  <2>4. peers' = [d \in Conns |-> peers'[d]]
    BY <1>6
  <2> QED
    BY <1>5, <1>7, <2>1, <2>2, <2>3, <2>4 DEF PeerTypes
<1>9. \A d \in 1..opened :
        /\ Successors(d)' = Successors(d) \cup (IF owner[d] = m THEN {c} ELSE {})
        /\ Predecessors(d)' = Predecessors(d)
  <2> SUFFICES ASSUME NEW d \in 1..opened
               PROVE  /\ Successors(d)' = Successors(d) \cup (IF owner[d] = m THEN {c} ELSE {})
                      /\ Predecessors(d)' = Predecessors(d)
    OBVIOUS
  <2>1. /\ Successors(d)' = {o \in 1..c : o > d /\ owner'[o] = owner[d]}
        /\ Predecessors(d)' = {o \in 1..c : o < d /\ owner'[o] = owner[d]}
    BY <1>2, <1>5 DEF Successors, Predecessors
  <2>2. c > d /\ ~(c < d)
    BY <1>3
  <2> QED
    BY <1>3, <1>5, <2>1, <2>2 DEF Successors, Predecessors
<1>10. Successors(c)' = {}
  BY <1>2, <1>3 DEF Successors
<1>11. LatestIsFound'
  <2>1. ASSUME NEW d \in 1..opened, Known(d)', Successors(d)' = {}
        PROVE  minerToPeer'[owner'[d]] = d
    <3>1. Known(d) /\ Successors(d) = {} /\ owner[d] # m
      BY <1>3, <1>6, <1>9, <2>1
    <3>2. owner[d] \in Miners /\ owner'[d] = owner[d]
      BY <1>3, <1>5 DEF PeerTypes
    <3> QED
      BY <1>7, <3>1, <3>2 DEF PeersInv, LatestIsFound
  <2> QED
    BY <1>2, <1>3, <1>5, <1>7, <2>1 DEF LatestIsFound
<1>12. PeersFollowConnections'
  <2>1. ASSUME NEW d \in 1..opened
        PROVE  /\ Known(d)' /\ d \notin open' => Successors(d)' # {}
               /\ d \in open' /\ ~Known(d)' => Predecessors(d)' \ open' # {}
    <3>1. /\ Known(d)' <=> Known(d)
          /\ d \in open' <=> d \in open
      BY <1>2, <1>3, <1>6
    <3>2. c \notin Predecessors(d)
      BY <1>3 DEF Predecessors
    <3> QED
      BY <1>2, <1>9, <3>1, <3>2 DEF PeersInv, PeersFollowConnections
  <2>2. Known(c)' /\ c \in open'
    BY <1>2, <1>6
  <2>3. ASSUME NEW n \in Miners, NEW d \in 1..c, minerToPeer'[n] = d
        PROVE  Known(d)' /\ d \in open' /\ owner'[d] = n /\ Successors(d)' = {}
    <3>1. CASE n = m
      BY <1>5, <1>7, <1>10, <2>2, <2>3, <3>1
    <3>2. CASE n # m
      <4>1. minerToPeer[n] = d /\ d \in 1..opened
        BY <1>3, <1>7, <2>3, <3>2 DEF PeerTypes
      <4>2. Known(d) /\ d \in open /\ owner[d] = n /\ Successors(d) = {}
        BY <4>1 DEF PeersInv, PeersFollowConnections
      <4>3. d \in Conns \ {c}
        BY <1>3, <4>1
      <4> QED
        BY <1>2, <1>5, <1>6, <1>9, <3>2, <4>1, <4>2, <4>3
    <3> QED
      BY <3>1, <3>2
  <2>4. \A d \in 1..c :
          /\ Known(d)' /\ d \notin open' => Successors(d)' # {}
          /\ d \in open' /\ ~Known(d)' => Predecessors(d)' \ open' # {}
    BY <1>3, <2>1, <2>2
  <2> QED
    BY <1>2, <2>3, <2>4 DEF PeersFollowConnections
<1>13. NeighboursAreLinked'
  <2>2. \A d \in Conns \ {c} : Peer(d)' = Peer(d)
    BY <1>6 DEF Peer
  <2>3. Peer(c)'.group = {}
    <3>1. Peer(c)' = new
      BY <1>6, ChooseOne DEF Peer
    <3> QED
      BY <3>1 DEF new
  <2> SUFFICES ASSUME NEW g \in Groups,
                      NEW d \in {p \in pipelinePeers'[g] : Known(p)' /\ g \in Peer(p)'.group},
                      NEW e \in {p \in pipelinePeers'[g] : Known(p)' /\ g \in Peer(p)'.group},
                      Peer(e)'.stage = Peer(d)'.stage + 1
               PROVE  /\ Peer(d)'.downstream = e /\ Peer(e)'.upstream = d
                      /\ <<d, e>> \in pendingPairs'
    BY DEF NeighboursAreLinked
  <2>4. d \in Conns \ {c} /\ e \in Conns \ {c}
    BY <1>2, <1>3, <2>3 DEF PeerTypes
  <2> QED
    BY <1>2, <1>6, <2>2, <2>4 DEF PeersInv, NeighboursAreLinked
<1> QED
  BY <1>8, <1>11, <1>12, <1>13 DEF PeersInv

\* The handler that ends removes its miner's latest peer, if any: its own peer has
\* a successor otherwise, and the peer removed in its place had it as predecessor.
LEMMA UnregisterInv ==
  ASSUME PeersInv, NEW c \in open, UnregisterMiner(c)
  PROVE  PeersInv'
<1>1. PICK m \in Miners : m = owner[c]
  BY DEF PeersInv, PeerTypes
<1>2. PICK p \in 0..opened : p = minerToPeer[m]
  BY DEF PeersInv, PeerTypes
<1>3. /\ opened' = opened /\ owner' = owner /\ pendingPairs' = pendingPairs
      /\ open' = open \ {c}
      /\ minerToPeer' = [minerToPeer EXCEPT ![m] = 0]
      /\ peers' = [d \in Conns |-> IF d \in {p} \ {0} THEN {} ELSE peers[d]]
      /\ \A g \in Groups : pipelinePeers'[g] \subseteq pipelinePeers[g]
      /\ pipelinePeers' = [g \in Groups |-> pipelinePeers'[g]]
  BY <1>1, <1>2 DEF UnregisterMiner, Removed
<1>4. /\ PeerTypes /\ opened \in Nat /\ c \in 1..opened /\ 1..opened \subseteq Conns
      /\ 0 \notin Conns /\ open \subseteq 1..opened
  BY PeerAssumption DEF PeersInv, PeerTypes, Conns
<1>5. /\ \A d \in Conns \ {p} : peers'[d] = peers[d] /\ (Known(d)' <=> Known(d))
      /\ \A d \in Conns : d = p => ~Known(d)'
  BY <1>3, <1>4 DEF Known
<1>6. /\ minerToPeer'[m] = 0
      /\ \A n \in Miners \ {m} : minerToPeer'[n] = minerToPeer[n]
      /\ minerToPeer' \in [Miners -> 0..opened]
  BY <1>3, <1>4 DEF PeerTypes
<1>7. p # 0 => Known(p) /\ p \in open /\ owner[p] = m /\ Successors(p) = {}
  BY <1>2, <1>4 DEF PeersInv, PeersFollowConnections
<1>8. PeerTypes'
  <2>1. \A d \in Conns : Known(d)' => d \in 1..opened /\ \E q : IsPeer(q) /\ peers'[d] = {q}
    BY <1>4, <1>5 DEF PeerTypes
  <2>2. pipelinePeers' \in [Groups -> SUBSET (1..opened)]
    BY <1>3, <1>4 DEF PeerTypes
  <2>3. peers' = [d \in Conns |-> peers'[d]]
    BY <1>3
  <2>4. opened' = opened /\ owner' = owner /\ open' \subseteq 1..opened
    BY <1>3, <1>4
  <2> QED
    BY <1>4, <1>6, <2>1, <2>2, <2>3, <2>4 DEF PeerTypes
<1>9. \A d : Successors(d)' = Successors(d) /\ Predecessors(d)' = Predecessors(d)
  BY <1>3 DEF Successors, Predecessors
<1>10. LatestIsFound'
  <2> SUFFICES ASSUME NEW d \in 1..opened, Known(d)', Successors(d) = {}
               PROVE  minerToPeer'[owner[d]] = d
    BY <1>3, <1>9 DEF LatestIsFound
  <2>1. Known(d) /\ d # p
    BY <1>4, <1>5
  <2>2. minerToPeer[owner[d]] = d
    BY <2>1 DEF PeersInv, LatestIsFound
  <2>3. owner[d] \in Miners \ {m}
    BY <1>2, <1>4, <2>1, <2>2 DEF PeerTypes
  <2> QED
    BY <1>6, <2>2, <2>3
\* Two connections of one miner follow one another.
<1>11. ASSUME NEW d \in 1..opened, owner[d] = m, d # c
       PROVE  d \in Successors(c) \/ d \in Predecessors(c)
  BY <1>1, <1>4, <1>11 DEF Successors, Predecessors
<1>12. PeersFollowConnections'
  <2>1. ASSUME NEW d \in 1..opened, Known(d)', d \notin open'
        PROVE  Successors(d) # {}
    <3>1. Known(d) /\ d # p
      BY <1>4, <1>5, <2>1
    <3>2. CASE d = c
      <4>1. minerToPeer[owner[d]] # d
        BY <1>1, <1>2, <3>1, <3>2
      <4> QED
        BY <3>1, <4>1 DEF PeersInv, LatestIsFound
    <3>3. CASE d # c
      BY <1>3, <2>1, <3>1, <3>3 DEF PeersInv, PeersFollowConnections
    <3> QED
      BY <3>2, <3>3
  <2>2. ASSUME NEW d \in 1..opened, d \in open', ~Known(d)'
        PROVE  Predecessors(d) \ open' # {}
    <3>1. d \in open /\ d # c
      BY <1>3, <2>2
    <3>2. CASE d = p
      <4>1. owner[d] = m /\ Successors(d) = {}
        BY <1>4, <1>7, <3>2
      <4>2. c \in Predecessors(d)
        BY <1>1, <1>4, <3>1, <4>1 DEF Successors, Predecessors
      <4> QED
        BY <1>3, <4>2
    <3>3. CASE d # p
      <4>1. ~Known(d)
        BY <1>4, <1>5, <2>2, <3>3
      <4> QED
        BY <1>3, <3>1, <4>1 DEF PeersInv, PeersFollowConnections
    <3> QED
      BY <3>2, <3>3
  <2>3. ASSUME NEW n \in Miners, NEW d \in 1..opened, minerToPeer'[n] = d
        PROVE  Known(d)' /\ d \in open' /\ owner[d] = n /\ Successors(d) = {}
    <3>1. n # m /\ minerToPeer[n] = d
      BY <1>4, <1>6, <2>3
    <3>2. Known(d) /\ d \in open /\ owner[d] = n /\ Successors(d) = {}
      BY <3>1 DEF PeersInv, PeersFollowConnections
    <3>3. d # c /\ d # p
      BY <1>1, <1>4, <1>7, <3>1, <3>2
    <3> QED
      BY <1>3, <1>4, <1>5, <3>2, <3>3
  <2> QED
    BY <1>3, <1>9, <2>1, <2>2, <2>3 DEF PeersFollowConnections
<1>13. NeighboursAreLinked'
  <2> SUFFICES ASSUME NEW g \in Groups,
                      NEW d \in {q \in pipelinePeers'[g] : Known(q)' /\ g \in Peer(q)'.group},
                      NEW e \in {q \in pipelinePeers'[g] : Known(q)' /\ g \in Peer(q)'.group},
                      Peer(e)'.stage = Peer(d)'.stage + 1
               PROVE  /\ Peer(d)'.downstream = e /\ Peer(e)'.upstream = d
                      /\ <<d, e>> \in pendingPairs'
    BY DEF NeighboursAreLinked
  <2>1. d \in Conns \ {p} /\ e \in Conns \ {p}
    BY <1>3, <1>4, <1>5 DEF PeerTypes
  <2>2. Peer(d)' = Peer(d) /\ Peer(e)' = Peer(e)
    BY <1>5, <2>1 DEF Peer
  <2> QED
    BY <1>3, <1>5, <2>1, <2>2 DEF PeersInv, NeighboursAreLinked
<1> QED
  BY <1>8, <1>10, <1>12, <1>13 DEF PeersInv

\* A signal that is kept changes nothing else of a peer.
LEMMA KeepInv ==
  ASSUME PeersInv, NEW c \in open, NEW kind \in Signals, Keep(c, kind)
  PROVE  PeersInv'
<1>1. PICK p \in 1..opened : p = minerToPeer[owner[c]]
  BY DEF Keep, PeersInv, PeerTypes
<1>2. /\ PeerTypes /\ 1..opened \subseteq Conns
  BY PeerAssumption DEF PeersInv, PeerTypes, Conns
<1>3. owner[c] \in Miners /\ Known(p) /\ p \in Conns
  BY <1>1, <1>2 DEF PeerTypes, PeersInv, PeersFollowConnections
<1>4. PICK old : IsPeer(old) /\ peers[p] = {old}
  BY <1>2, <1>3 DEF PeerTypes
<1>5. PICK new :
        /\ new = [old EXCEPT !.signals = @ \cup {kind}]
        /\ IsPeer(new)
        /\ new.group = old.group /\ new.stage = old.stage
        /\ new.upstream = old.upstream /\ new.downstream = old.downstream
  <2> DEFINE changed == [old EXCEPT !.signals = @ \cup {kind}]
             fields == [miner : {old.miner}, group : {old.group}, stage : {old.stage},
                        upstream : {old.upstream}, downstream : {old.downstream},
                        signals : {old.signals \cup {kind}}]
  <2>1. changed \in fields
    BY <1>4 DEF IsPeer
  <2> HIDE DEF changed
  <2>2. /\ IsPeer(changed)
        /\ changed.group = old.group /\ changed.stage = old.stage
        /\ changed.upstream = old.upstream /\ changed.downstream = old.downstream
    BY <2>1 DEF IsPeer
  <2> QED
    BY <2>2 DEF changed
<1>6. /\ UNCHANGED <<opened, owner, open, minerToPeer, pipelinePeers, pendingPairs>>
      /\ peers' = [peers EXCEPT ![p] = {[q EXCEPT !.signals = @ \cup {kind}] : q \in @}]
  BY <1>1 DEF Keep
<1>7. /\ peers'[p] = {new}
      /\ \A d \in Conns \ {p} : peers'[d] = peers[d]
      /\ peers' = [d \in Conns |-> peers'[d]]
  BY <1>2, <1>3, <1>4, <1>5, <1>6 DEF PeerTypes
<1>8. \A d \in Conns : Known(d)' <=> Known(d)
  BY <1>3, <1>7 DEF Known
<1>9. PeerTypes'
  <2>1. \A d \in Conns : Known(d)' => d \in 1..opened /\ \E q : IsPeer(q) /\ peers'[d] = {q}
    BY <1>2, <1>5, <1>7, <1>8 DEF PeerTypes
  <2> QED
    BY <1>2, <1>6, <1>7, <2>1 DEF PeerTypes
<1>10. LatestIsFound' /\ PeersFollowConnections'
  BY <1>6, <1>8, SamePeers
<1>11. \A d \in Conns :
         /\ Peer(d)'.group = Peer(d).group /\ Peer(d)'.stage = Peer(d).stage
         /\ Peer(d)'.upstream = Peer(d).upstream /\ Peer(d)'.downstream = Peer(d).downstream
  <2>1. Peer(p)' = new /\ Peer(p) = old
    BY <1>4, <1>7, ChooseOne DEF Peer
  <2>2. \A d \in Conns \ {p} : Peer(d)' = Peer(d)
    BY <1>7 DEF Peer
  <2> QED
    BY <1>5, <2>1, <2>2
<1>12. NeighboursAreLinked'
  <2>1. \A g \in Groups : pipelinePeers[g] \subseteq Conns
    BY <1>2 DEF PeerTypes
  <2> QED
    BY <1>6, <1>8, <1>11, <2>1 DEF PeersInv, NeighboursAreLinked
<1> QED
  BY <1>9, <1>10, <1>12 DEF PeersInv
-----------------------------------------------------------------------------
\* The peers of a pipeline are registered, and each stands at one position.
LEMMA PeersAtInv ==
  ASSUME PeersInv, NEW miners \in Assignments
  PROVE  /\ DOMAIN PeersAt(miners) \subseteq Nat \ {0}
         /\ \A i \in DOMAIN PeersAt(miners) :
              PeersAt(miners)[i] \in 1..opened /\ Known(PeersAt(miners)[i])
         /\ \A i, j \in DOMAIN PeersAt(miners) :
              PeersAt(miners)[i] = PeersAt(miners)[j] => i = j
<1> DEFINE at == PeersAt(miners)
<1>1. miners \in Seq(Miners) /\ IsInjective(miners)
  BY PeerAssumption
<1>2. DOMAIN miners = 1..Len(miners) /\ Len(miners) \in Nat
      /\ \A i \in DOMAIN miners : miners[i] \in Miners
  BY <1>1
<1>3. /\ DOMAIN at = {j \in DOMAIN miners : minerToPeer[miners[j]] # 0}
      /\ \A i \in DOMAIN at : at[i] = minerToPeer[miners[i]]
  BY DEF PeersAt
<1> HIDE DEF at
<1>4. \A i \in DOMAIN at : at[i] \in 1..opened
  BY <1>2, <1>3 DEF PeersInv, PeerTypes
<1>5. \A i \in DOMAIN at : Known(at[i]) /\ owner[at[i]] = miners[i]
  BY <1>2, <1>3, <1>4 DEF PeersInv, PeersFollowConnections
<1>6. \A i, j \in DOMAIN at : at[i] = at[j] => i = j
  BY <1>1, <1>3, <1>5 DEF IsInjective
<1> QED
  BY <1>2, <1>3, <1>4, <1>5, <1>6 DEF at

\* What lies next above and below a position, and next to an adjacent one.
LEMMA NextTo ==
  ASSUME NEW at, DOMAIN at \subseteq Nat \ {0}, NEW i \in DOMAIN at, i + 1 \in DOMAIN at
  PROVE  /\ Below(at, i) # {} /\ Min(Below(at, i)) = i + 1
         /\ Above(at, i + 1) # {} /\ Max(Above(at, i + 1)) = i
<1> DEFINE B == Below(at, i)
           A == Above(at, i + 1)
<1>1. i + 1 \in B /\ \A y \in B : i + 1 <= y /\ y \in Nat
  BY DEF Below
<1>2. i \in A /\ \A y \in A : i >= y /\ y \in Nat
  BY DEF Above
<1> HIDE DEF A, B
<1>3. Min(B) \in B /\ \A y \in B : Min(B) <= y
  BY <1>1 DEF Min
<1>4. Max(A) \in A /\ \A y \in A : Max(A) >= y
  BY <1>2 DEF Max
<1>5. Min(B) = i + 1 /\ Max(A) = i
  BY <1>1, <1>2, <1>3, <1>4
<1> QED
  BY <1>1, <1>2, <1>5 DEF A, B

\* The peer at a position is given its links, and keeps the rest.
LEMMA LinkedPeer ==
  ASSUME NEW at, NEW i, NEW placed, IsPeer(placed), NEW linked,
         linked = Linked(placed, at, i)
  PROVE  /\ IsPeer(linked)
         /\ linked.group = placed.group /\ linked.stage = placed.stage
         /\ Above(at, i) # {} => linked.upstream = at[Max(Above(at, i))]
         /\ Below(at, i) # {} => linked.downstream = at[Min(Below(at, i))]
<1> DEFINE up == IF Above(at, i) # {} THEN at[Max(Above(at, i))] ELSE placed.upstream
           down == IF Below(at, i) # {} THEN at[Min(Below(at, i))] ELSE placed.downstream
<1>1. linked = [placed EXCEPT !.upstream = up, !.downstream = down]
  BY DEF Linked, IsPeer
<1> HIDE DEF up, down
<1>2. linked \in [miner : {placed.miner}, group : {placed.group}, stage : {placed.stage},
                  upstream : {up}, downstream : {down}, signals : {placed.signals}]
  BY <1>1 DEF IsPeer
<1>3. /\ IsPeer(linked)
      /\ linked.group = placed.group /\ linked.stage = placed.stage
      /\ linked.upstream = up /\ linked.downstream = down
  BY <1>2 DEF IsPeer
<1> QED
  BY <1>3 DEF up, down

LEMMA AssignInv ==
  ASSUME PeersInv, NEW g \in Groups, NEW miners \in Assignments,
         AssignPipelinePeers(g, miners)
  PROVE  PeersInv'
<1>1. PICK at : at = PeersAt(miners)
  OBVIOUS
<1>2. /\ DOMAIN at \subseteq Nat \ {0}
      /\ \A i \in DOMAIN at : at[i] \in 1..opened /\ Known(at[i])
      /\ \A i, j \in DOMAIN at : at[i] = at[j] => i = j
  BY <1>1, PeersAtInv
<1>3. /\ pipelinePeers' = [pipelinePeers EXCEPT ![g] = Range(at)]
      /\ peers' = [c \in Conns |->
           IF c \in Range(at)
           THEN {Linked([Peer(c) EXCEPT !.group = {g}, !.stage = i - 1], at, i) :
                   i \in {j \in DOMAIN at : at[j] = c}}
           ELSE peers[c]]
      /\ pendingPairs' = pendingPairs \cup Initiated(at)
      /\ UNCHANGED <<opened, owner, open, minerToPeer>>
  BY <1>1 DEF AssignPipelinePeers
<1>4. PeerTypes /\ 1..opened \subseteq Conns /\ Range(at) \subseteq 1..opened
  BY <1>2, PeerAssumption DEF PeersInv, PeerTypes, Conns, Range
\* What becomes of the peer at position i.
<1>5. ASSUME NEW i \in DOMAIN at
      PROVE  /\ at[i] \in Range(at)
             /\ \E new :
                  /\ peers'[at[i]] = {new}
                  /\ IsPeer(new)
                  /\ new.group = {g} /\ new.stage = i - 1
                  /\ Above(at, i) # {} => new.upstream = at[Max(Above(at, i))]
                  /\ Below(at, i) # {} => new.downstream = at[Min(Below(at, i))]
  <2>1. PICK c : c = at[i]
    OBVIOUS
  <2>2. c \in Range(at) /\ c \in Conns /\ Known(c)
    BY <1>2, <1>4, <2>1 DEF Range
  <2>3. PICK old : old = Peer(c)
    OBVIOUS
  <2>4. IsPeer(old)
    BY <1>4, <2>2, <2>3, OnePeer
  <2>5. {j \in DOMAIN at : at[j] = c} = {i}
    BY <1>2, <2>1
  <2>6. PICK placed :
          /\ placed = [old EXCEPT !.group = {g}, !.stage = i - 1]
          /\ IsPeer(placed) /\ placed.group = {g} /\ placed.stage = i - 1
    <3> DEFINE moved == [old EXCEPT !.group = {g}, !.stage = i - 1]
    <3>1. moved \in [miner : {old.miner}, group : {{g}}, stage : {i - 1},
                     upstream : {old.upstream}, downstream : {old.downstream},
                     signals : {old.signals}]
      BY <2>4 DEF IsPeer
    <3> HIDE DEF moved
    <3>2. IsPeer(moved) /\ moved.group = {g} /\ moved.stage = i - 1
      BY <3>1 DEF IsPeer
    <3> QED
      BY <3>2 DEF moved
  <2>7. PICK new :
          /\ new = Linked(placed, at, i)
          /\ IsPeer(new)
          /\ new.group = {g} /\ new.stage = i - 1
          /\ Above(at, i) # {} => new.upstream = at[Max(Above(at, i))]
          /\ Below(at, i) # {} => new.downstream = at[Min(Below(at, i))]
    <3>1. PICK new : new = Linked(placed, at, i)
      OBVIOUS
    <3>2. /\ IsPeer(new)
          /\ new.group = placed.group /\ new.stage = placed.stage
          /\ Above(at, i) # {} => new.upstream = at[Max(Above(at, i))]
          /\ Below(at, i) # {} => new.downstream = at[Min(Below(at, i))]
      <4>1. IsPeer(placed)
        BY <2>6
      <4> QED
        BY <3>1, <4>1, LinkedPeer
    <3> QED
      BY <2>6, <3>1, <3>2
  <2>8. peers'[c] = {Linked([old EXCEPT !.group = {g}, !.stage = k - 1], at, k) :
                       k \in {j \in DOMAIN at : at[j] = c}}
    BY <1>3, <2>2, <2>3
  <2>9. peers'[c] = {new}
    BY <2>5, <2>6, <2>8, <2>7
  <2> QED
    BY <2>1, <2>2, <2>9, <2>7
<1>6. \A c \in Range(at) : \E i \in DOMAIN at : c = at[i]
  BY DEF Range
<1>7. \A c \in Conns \ Range(at) : peers'[c] = peers[c]
  BY <1>3
<1>8. \A c \in Conns : Known(c)' <=> Known(c)
  <2>1. \A c \in Range(at) : Known(c) /\ Known(c)'
    BY <1>2, <1>5, <1>6 DEF Known
  <2> QED
    BY <1>7, <2>1 DEF Known
<1>9. PeerTypes'
  <2>1. \A c \in Conns : Known(c)' => c \in 1..opened /\ \E p : IsPeer(p) /\ peers'[c] = {p}
    <3>1. ASSUME NEW c \in Range(at)
          PROVE  c \in 1..opened /\ \E p : IsPeer(p) /\ peers'[c] = {p}
      <4>1. PICK i \in DOMAIN at : c = at[i]
        BY <1>6
      <4> QED
        BY <1>2, <1>5, <4>1
    <3>2. ASSUME NEW c \in Conns \ Range(at), Known(c)'
          PROVE  c \in 1..opened /\ \E p : IsPeer(p) /\ peers'[c] = {p}
      BY <1>4, <1>7, <1>8, <3>2 DEF PeerTypes
    <3> QED
      BY <3>1, <3>2
  <2>2. pipelinePeers' \in [Groups -> SUBSET (1..opened)]
    BY <1>3, <1>4 DEF PeerTypes
  <2>3. peers' = [c \in Conns |-> peers'[c]]
    BY <1>3
  <2> QED
    BY <1>3, <1>4, <2>1, <2>2, <2>3 DEF PeerTypes
<1>10. LatestIsFound' /\ PeersFollowConnections'
  BY <1>3, <1>8, SamePeers
<1>11. ASSUME NEW i \in DOMAIN at
       PROVE  /\ Peer(at[i])'.group = {g} /\ Peer(at[i])'.stage = i - 1
              /\ Above(at, i) # {} => Peer(at[i])'.upstream = at[Max(Above(at, i))]
              /\ Below(at, i) # {} => Peer(at[i])'.downstream = at[Min(Below(at, i))]
  <2>1. PICK new :
          /\ peers'[at[i]] = {new}
          /\ new.group = {g} /\ new.stage = i - 1
          /\ Above(at, i) # {} => new.upstream = at[Max(Above(at, i))]
          /\ Below(at, i) # {} => new.downstream = at[Min(Below(at, i))]
    BY <1>5
  <2>2. Peer(at[i])' = new
    BY <2>1, ChooseOne DEF Peer
  <2> QED
    BY <2>1, <2>2
<1>12. NeighboursAreLinked'
  <2> SUFFICES ASSUME NEW h \in Groups,
                      NEW d \in {q \in pipelinePeers'[h] : Known(q)' /\ h \in Peer(q)'.group},
                      NEW e \in {q \in pipelinePeers'[h] : Known(q)' /\ h \in Peer(q)'.group},
                      Peer(e)'.stage = Peer(d)'.stage + 1
               PROVE  /\ Peer(d)'.downstream = e /\ Peer(e)'.upstream = d
                      /\ <<d, e>> \in pendingPairs'
    BY DEF NeighboursAreLinked
  <2>1. CASE h = g
    <3>1. pipelinePeers'[g] = Range(at)
      BY <1>3 DEF PeersInv, PeerTypes
    <3>2. PICK i \in DOMAIN at : d = at[i]
      BY <1>6, <2>1, <3>1
    <3>3. PICK j \in DOMAIN at : e = at[j]
      BY <1>6, <2>1, <3>1
    <3>4. j = i + 1
      BY <1>2, <1>11, <3>2, <3>3
    <3>5. /\ Below(at, i) # {} /\ Min(Below(at, i)) = j
          /\ Above(at, j) # {} /\ Max(Above(at, j)) = i
      BY <1>2, <3>4, NextTo
    <3>6. <<d, e>> \in Initiated(at)
      BY <3>2, <3>3, <3>5 DEF Initiated
    <3> QED
      BY <1>3, <1>11, <3>2, <3>3, <3>5, <3>6
  <2>2. CASE h # g
    <3>1. d \in Conns /\ e \in Conns /\ pipelinePeers'[h] = pipelinePeers[h]
      BY <1>3, <1>4, <2>2 DEF PeerTypes
    <3>2. d \notin Range(at) /\ e \notin Range(at)
      BY <1>6, <1>11, <2>2
    <3>3. Peer(d)' = Peer(d) /\ Peer(e)' = Peer(e)
      BY <1>7, <3>1, <3>2 DEF Peer
    <3>4. /\ d \in {q \in pipelinePeers[h] : Known(q) /\ h \in Peer(q).group}
          /\ e \in {q \in pipelinePeers[h] : Known(q) /\ h \in Peer(q).group}
      BY <1>8, <3>1, <3>3
    <3>5. Peer(d).downstream = e /\ Peer(e).upstream = d /\ <<d, e>> \in pendingPairs
      BY <3>3, <3>4 DEF PeersInv, NeighboursAreLinked
    <3> QED
      BY <1>3, <3>3, <3>5
  <2> QED
    BY <2>1, <2>2
<1> QED
  BY <1>9, <1>10, <1>12 DEF PeersInv
-----------------------------------------------------------------------------
LEMMA PeersStepInv == PeersInv /\ [PeersNext]_peerVars => PeersInv'
<1> SUFFICES ASSUME PeersInv, [PeersNext]_peerVars PROVE PeersInv'
  OBVIOUS
<1>1. ASSUME NEW m \in Miners, RegisterPeer(m) PROVE PeersInv'
  BY <1>1, RegisterInv
<1>2. ASSUME NEW g \in Groups, NEW miners \in Assignments, AssignPipelinePeers(g, miners)
      PROVE  PeersInv'
  BY <1>2, AssignInv
<1>3. ASSUME NEW c \in open, UnregisterMiner(c) PROVE PeersInv'
  BY <1>3, UnregisterInv
<1>4. ASSUME NEW c \in open, HandleDatachannelOpen(c) PROVE PeersInv'
  BY <1>4, KeepInv DEF HandleDatachannelOpen, Signals
<1>5. ASSUME NEW c \in open, NEW kind \in Signals \ {"datachannel-open"}, NEW target \in Conns,
             HandleSignaling(c, kind, target)
      PROVE  PeersInv'
  BY <1>5, KeepInv DEF HandleSignaling
<1>6. CASE UNCHANGED peerVars
  <2>1. /\ opened' = opened /\ owner' = owner /\ open' = open /\ peers' = peers
        /\ minerToPeer' = minerToPeer /\ pipelinePeers' = pipelinePeers
        /\ pendingPairs' = pendingPairs
    BY <1>6 DEF peerVars
  <2>2. LatestIsFound' /\ PeersFollowConnections'
    BY <2>1 DEF PeersInv, LatestIsFound, PeersFollowConnections, Known, Successors, Predecessors
  <2>3. PeerTypes'
    BY <2>1 DEF PeersInv, PeerTypes, Known
  <2>4. NeighboursAreLinked'
    BY <2>1 DEF PeersInv, NeighboursAreLinked, Known, Peer
  <2> QED
    BY <2>2, <2>3, <2>4 DEF PeersInv
<1> QED
  BY <1>1, <1>2, <1>3, <1>4, <1>5, <1>6 DEF PeersNext

\* The inductive invariant of p2p_discovery.py holds while peers are discovered.
THEOREM PeersInvariant == DetachedSpec => []PeersInv
<1>1. DetachedInit => PeersInv
  BY PeersInitInv DEF DetachedInit
<1>2. PeersInv /\ [DetachedNext]_detachedVars => PeersInv'
  <2>1. [DetachedNext]_detachedVars => [PeersNext]_peerVars
    BY DEF DetachedNext, detachedVars
  <2> QED
    BY <2>1, PeersStepInv
<1> QED
  BY <1>1, <1>2, PTL DEF DetachedSpec

\* unregister_miner works by miner: a peer and its connection part only over a
\* second connection of the miner.
THEOREM PeersStayWithConnections == DetachedSpec => []PeersFollowConnections
<1>1. PeersInv => PeersFollowConnections
  BY DEF PeersInv
<1> QED
  BY <1>1, PeersInvariant, PTL

\* assign_pipeline_peers: adjacent peers listed in a group name each other,
\* whatever they were linked to before and whoever has left.
THEOREM ListedNeighboursAreLinked == DetachedSpec => []NeighboursAreLinked
<1>1. PeersInv => NeighboursAreLinked
  BY DEF PeersInv
<1> QED
  BY <1>1, PeersInvariant, PTL
\* What the records of the peers hold.
PeerFields ==
  /\ \A c \in Conns : peers[c] \subseteq PeerInfo
  /\ pendingPairs \subseteq (1..opened) \X (1..opened)

LEMMA RegisterFields ==
  ASSUME PeersInv, PeerFields, NEW m \in Miners, RegisterPeer(m)
  PROVE  PeerFields'
<1> DEFINE c == opened + 1
           new == [miner |-> m, group |-> {}, stage |-> 0, upstream |-> 0, downstream |-> 0,
                   signals |-> {}]
<1>1. /\ opened \in Nat /\ c \in Conns /\ opened' = c /\ MaxConns \in Nat
      /\ peers' = [peers EXCEPT ![c] = {new}] /\ pendingPairs' = pendingPairs
  BY PeerAssumption DEF RegisterPeer, PeersInv, PeerTypes, Conns
<1>2. new \in PeerInfo
  BY <1>1 DEF PeerInfo
<1> HIDE DEF new, c
<1>3. \A d \in Conns : peers'[d] = IF d = c THEN {new} ELSE peers[d]
  BY <1>1 DEF PeersInv, PeerTypes
<1>4. 1..opened \subseteq 1..opened'
  BY <1>1 DEF c
<1> QED
  BY <1>1, <1>2, <1>3, <1>4 DEF PeerFields

LEMMA UnregisterFields ==
  ASSUME PeersInv, PeerFields, NEW c \in open, UnregisterMiner(c)
  PROVE  PeerFields'
<1>1. /\ peers' = [p \in Conns |-> IF p \in Removed(c) THEN {} ELSE peers[p]]
      /\ UNCHANGED <<opened, pendingPairs>>
  BY DEF UnregisterMiner
<1> QED
  BY <1>1 DEF PeerFields

LEMMA KeepFields ==
  ASSUME PeersInv, PeerFields, NEW c \in open, NEW kind \in Signals, Keep(c, kind)
  PROVE  PeerFields'
<1>1. PICK p : p = minerToPeer[owner[c]]
  OBVIOUS
<1>2. /\ peers' = [peers EXCEPT ![p] = {[q EXCEPT !.signals = @ \cup {kind}] : q \in @}]
      /\ UNCHANGED <<opened, pendingPairs>>
  BY <1>1 DEF Keep
<1>3. ASSUME NEW q \in PeerInfo PROVE [q EXCEPT !.signals = @ \cup {kind}] \in PeerInfo
  BY DEF PeerInfo
<1>4. \A d \in Conns :
        peers'[d] = IF d = p THEN {[q EXCEPT !.signals = @ \cup {kind}] : q \in peers[d]}
                    ELSE peers[d]
  BY <1>2 DEF PeersInv, PeerTypes
<1>5. ASSUME NEW d \in Conns, NEW q \in peers'[d] PROVE q \in PeerInfo
  <2>1. CASE d = p
    <3>1. PICK old \in peers[d] : q = [old EXCEPT !.signals = @ \cup {kind}]
      BY <1>4, <2>1
    <3> QED
      BY <1>3, <3>1 DEF PeerFields
  <2>2. CASE d # p
    BY <1>4, <2>2 DEF PeerFields
  <2> QED
    BY <2>1, <2>2
<1> QED
  BY <1>2, <1>5 DEF PeerFields

\* The nearest of the positions above is one, and so is the nearest below.
LEMMA NearestAbove ==
  ASSUME NEW at, DOMAIN at \subseteq Nat \ {0}, NEW i \in DOMAIN at, Above(at, i) # {}
  PROVE  Max(Above(at, i)) \in DOMAIN at
<1> DEFINE A == Above(at, i)
<1>1. A \subseteq DOMAIN at /\ A \subseteq Nat /\ (\A x \in A : x <= i) /\ i \in Nat
  BY DEF Above
<1> HIDE DEF A
<1>2. \E x \in A : \A y \in A : y <= x
  BY <1>1, MaxOfBounded DEF A
<1>3. Max(A) \in A
  BY <1>2 DEF Max
<1> QED
  BY <1>1, <1>3 DEF A

LEMMA NearestBelow ==
  ASSUME NEW at, DOMAIN at \subseteq Nat \ {0}, NEW i \in DOMAIN at, Below(at, i) # {}
  PROVE  Min(Below(at, i)) \in DOMAIN at
<1> DEFINE B == Below(at, i)
<1>1. B \subseteq DOMAIN at /\ B \subseteq Nat /\ B # {}
  BY DEF Below
<1> HIDE DEF B
<1>2. \E x \in B : \A y \in B : x <= y
  BY <1>1, LeastNat
<1>3. Min(B) \in B
  BY <1>2 DEF Min
<1> QED
  BY <1>1, <1>3 DEF B

LEMMA AssignFields ==
  ASSUME PeersInv, PeerFields, NEW g \in Groups, NEW miners \in Assignments,
         AssignPipelinePeers(g, miners)
  PROVE  PeerFields'
<1>1. PICK at : at = PeersAt(miners)
  OBVIOUS
<1>2. /\ DOMAIN at \subseteq Nat \ {0}
      /\ \A i \in DOMAIN at : at[i] \in 1..opened /\ Known(at[i])
  BY <1>1, PeersAtInv
<1>3. /\ peers' = [c \in Conns |->
           IF c \in Range(at)
           THEN {Linked([Peer(c) EXCEPT !.group = {g}, !.stage = i - 1], at, i) :
                   i \in {j \in DOMAIN at : at[j] = c}}
           ELSE peers[c]]
      /\ pendingPairs' = pendingPairs \cup Initiated(at)
      /\ opened' = opened
  BY <1>1 DEF AssignPipelinePeers
<1>4. PeerTypes /\ opened \in Nat /\ 1..opened \subseteq Conns /\ 1..opened \subseteq 0..MaxConns
  BY PeerAssumption DEF PeersInv, PeerTypes, Conns
<1>5. ASSUME NEW i \in DOMAIN at
      PROVE  /\ Above(at, i) # {} => at[Max(Above(at, i))] \in 1..opened
             /\ Below(at, i) # {} => at[Min(Below(at, i))] \in 1..opened
  BY <1>2, NearestAbove, NearestBelow
<1>6. ASSUME NEW c \in Conns, NEW p \in peers'[c] PROVE p \in PeerInfo
  <2>1. CASE c \notin Range(at)
    BY <1>3, <2>1 DEF PeerFields
  <2>2. CASE c \in Range(at)
    <3>1. PICK i \in DOMAIN at :
            at[i] = c /\ p = Linked([Peer(c) EXCEPT !.group = {g}, !.stage = i - 1], at, i)
      BY <1>3, <2>2
    <3>2. PICK old \in PeerInfo : old = Peer(c)
      <4>1. Known(c)
        BY <1>2, <3>1
      <4>2. Peer(c) \in peers[c]
        BY <4>1 DEF Known, Peer
      <4> QED
        BY <4>2 DEF PeerFields
    <3>3. i - 1 \in Nat
      BY <1>2
    <3>4. PICK placed \in PeerInfo : placed = [old EXCEPT !.group = {g}, !.stage = i - 1]
      BY <3>3 DEF PeerInfo
    <3> DEFINE up == IF Above(at, i) # {} THEN at[Max(Above(at, i))] ELSE placed.upstream
               down == IF Below(at, i) # {} THEN at[Min(Below(at, i))] ELSE placed.downstream
    <3>5. up \in 0..MaxConns /\ down \in 0..MaxConns
      BY <1>4, <1>5 DEF PeerInfo
    <3>6. p = [placed EXCEPT !.upstream = up, !.downstream = down]
      BY <3>1, <3>2, <3>4 DEF Linked, PeerInfo
    <3> HIDE DEF up, down
    <3> QED
      BY <3>5, <3>6 DEF PeerInfo
  <2> QED
    BY <2>1, <2>2
<1>7. Initiated(at) \subseteq (1..opened) \X (1..opened)
  BY <1>2, <1>5 DEF Initiated
<1> QED
  BY <1>3, <1>6, <1>7 DEF PeerFields

LEMMA PeerFieldsStep ==
  PeersInv /\ PeerFields /\ [PeersNext]_peerVars => PeerFields'
<1> SUFFICES ASSUME PeersInv, PeerFields, [PeersNext]_peerVars PROVE PeerFields'
  OBVIOUS
<1>1. ASSUME NEW c \in open, HandleDatachannelOpen(c) PROVE PeerFields'
  BY <1>1, KeepFields DEF HandleDatachannelOpen, Signals
<1>2. ASSUME NEW c \in open, NEW kind \in Signals \ {"datachannel-open"}, NEW target \in Conns,
             HandleSignaling(c, kind, target)
      PROVE  PeerFields'
  BY <1>2, KeepFields DEF HandleSignaling
<1>3. CASE UNCHANGED peerVars
  BY <1>3 DEF peerVars, PeerFields
<1> QED
  BY <1>1, <1>2, <1>3, RegisterFields, AssignFields, UnregisterFields DEF PeersNext

LEMMA PeersInvTypes == PeersInv /\ PeerFields => PeersTypeOK
<1> SUFFICES ASSUME PeersInv, PeerFields PROVE PeersTypeOK
  OBVIOUS
<1>1. ASSUME NEW c \in Conns PROVE Cardinality(peers[c]) <= 1
  <2>1. CASE Known(c)
    <3>1. PICK p : peers[c] = {p}
      BY <2>1 DEF PeersInv, PeerTypes
    <3>2. Cardinality({p}) = 1
      BY FS_Singleton
    <3> QED
      BY <3>1, <3>2
  <2>2. CASE ~Known(c)
    BY <2>2, FS_EmptySet DEF Known
  <2> QED
    BY <2>1, <2>2
<1> QED
  BY <1>1 DEF PeersTypeOK, PeersInv, PeerTypes, PeerFields
-----------------------------------------------------------------------------
(* Activation transfer *)

LEMMA ChunkCount ==
  ASSUME NEW size \in Nat
  PROVE  /\ NumChunks(size) \in Nat \ {0}
         /\ NumChunks(size) * MessageSize >= size
<1> DEFINE q == (size + MessageSize - 1) \div MessageSize
           S == {1, q}
<1>1. MessageSize \in Nat \ {0}
  BY TransferAssumption
<1>2. q \in Nat
  BY <1>1
<1>3. \E x \in S : \A y \in S : x >= y
  BY <1>2
<1>4. Max(S) \in S /\ \A y \in S : Max(S) >= y
  BY <1>3 DEF Max
<1>5. (q + 1) * MessageSize > size + MessageSize - 1
  BY <1>1
<1>6. q * MessageSize >= size
  BY <1>1, <1>2, <1>5
<1> HIDE DEF q
<1>7. \A n \in Nat : n >= q => n * MessageSize >= size
  BY <1>1, <1>2, <1>6
<1> QED
  BY <1>2, <1>4, <1>7 DEF NumChunks, q

\* The chunks that a tensor is cut into are all of it.
LEMMA ChunksAreAll ==
  ASSUME NEW size \in Nat
  PROVE  UNION {Slice(size, i) : i \in 0..(NumChunks(size) - 1)} = 0..(size - 1)
<1>1. MessageSize \in Nat \ {0} /\ NumChunks(size) \in Nat \ {0}
      /\ NumChunks(size) * MessageSize >= size
  BY TransferAssumption, ChunkCount
<1>2. ASSUME NEW k \in 0..(size - 1)
      PROVE  \E i \in 0..(NumChunks(size) - 1) : k \in Slice(size, i)
  <2> DEFINE T == {i \in Nat : k < (i + 1) * MessageSize}
  <2>1. T \subseteq Nat /\ T # {}
    <3> DEFINE d == MessageSize - 1
    <3>1. k \in Nat /\ d \in Nat /\ MessageSize = d + 1
      BY <1>1
    <3> HIDE DEF d
    <3>2. (k + 1) * (d + 1) = k + 1 + (k * d + d) /\ k * d \in Nat
      BY <3>1
    <3>3. k < (k + 1) * (d + 1)
      BY <3>1, <3>2
    <3> QED
      BY <3>1, <3>3
  <2>2. PICK i \in T : \A j \in T : i <= j
    <3> HIDE DEF T
    <3> QED
      BY <2>1, LeastNat
  <2>3. i * MessageSize <= k
    <3>1. CASE i = 0
      BY <1>1, <3>1
    <3>2. CASE i # 0
      <4>1. i - 1 \in Nat /\ i - 1 \notin T /\ (i - 1) + 1 = i
        BY <2>2, <3>2
      <4>2. ~(k < i * MessageSize)
        BY <4>1
      <4> QED
        BY <1>1, <4>2
    <3> QED
      BY <3>1, <3>2
  <2>4. i < NumChunks(size)
    <3>1. i * MessageSize < NumChunks(size) * MessageSize
      BY <1>1, <2>3
    <3> QED
      BY <1>1, <3>1
  <2>5. k \in Slice(size, i)
    BY <2>2, <2>3 DEF Slice
  <2> QED
    BY <1>1, <2>4, <2>5
<1>3. \A i : Slice(size, i) \subseteq 0..(size - 1)
  BY DEF Slice
<1> QED
  BY <1>2, <1>3

\* No tensor has more than MaxChunks.
LEMMA MostChunks ==
  ASSUME NEW size \in Sizes
  PROVE  MaxChunks \in Nat \ {0} /\ NumChunks(size) <= MaxChunks
<1> DEFINE S == {NumChunks(n) : n \in Sizes}
           f == [n \in Sizes |-> NumChunks(n)]
<1>1. S \subseteq Nat \ {0} /\ NumChunks(size) \in S
  BY TransferAssumption, ChunkCount
<1>2. IsFiniteSet(S)
  <2>1. f \in Surjection(Sizes, S)
    BY DEF Surjection
  <2> QED
    BY <2>1, TransferAssumption, FS_Surjection
<1> HIDE DEF S
<1>3. \E x \in S : \A y \in S : x >= y
  <2>1. S \subseteq Int /\ S # {}
    BY <1>1
  <2> QED
    BY <1>2, <2>1, MaxOfFinite
<1>4. Max(S) \in S /\ \A y \in S : Max(S) >= y
  BY <1>3 DEF Max
<1> QED
  BY <1>1, <1>4 DEF MaxChunks, S

\* A message is of a transfer that has come past it.
IsSent(t, k) == t \in Transfers /\ k \in Nat /\ Begun(t) /\ k < Sent(t).next

TransferTypes ==
  /\ sends = [t \in Transfers |-> sends[t]]
  /\ \A t \in Transfers : Begun(t) =>
       \E s \in Send : sends[t] = {s} /\ s.next <= NumChunks(s.size) + 1
  /\ \A message \in flight \cup seen : \E t, k : message = <<t, k>> /\ IsSent(t, k)
  /\ headers \subseteq Transfers
  /\ spoilt \subseteq Transfers
  /\ buffers \in [Transfers -> SUBSET Nat]
  /\ completed \in [Transfers -> Nat]
  /\ headersSeen \in [Transfers -> 0..MaxHeaders]

\* The buffer holds what was seen of a transfer that is not spoilt, from its header
\* to its completion, and never all of one that can be read.
Collecting(t) ==
  t \notin spoilt /\ <<t, 0>> \in seen /\ completed[t] = 0 =>
    /\ t \in headers
    /\ \A i \in Nat : <<t, i + 1>> \in seen => i \in buffers[t]
    /\ Sent(t).readable => ~Whole(t, buffers[t])

TransferInv ==
  /\ TransferTypes
  /\ \A t \in Transfers :
       /\ \A i \in buffers[t] : <<t, i + 1>> \in seen
       /\ headersSeen[t] > 0 => <<t, 0>> \in seen
       /\ completed[t] + (IF t \in headers THEN 1 ELSE 0) <= Announced(t)
       /\ Collecting(t)

LEMMA TransferInitInv == TransferInit => TransferInv
BY TransferAssumption
   DEF TransferInit, TransferInv, TransferTypes, Collecting, Announced, Begun, Ended

\* A transfer that has begun is one record.
LEMMA OneSend ==
  ASSUME TransferTypes, NEW t \in Transfers, Begun(t)
  PROVE  /\ Sent(t) \in Send /\ sends[t] = {Sent(t)}
         /\ Sent(t).next <= NumChunks(Sent(t).size) + 1
         /\ NumChunks(Sent(t).size) \in Nat \ {0}
         /\ MaxChunks \in Nat \ {0} /\ NumChunks(Sent(t).size) <= MaxChunks
<1>1. PICK s \in Send : sends[t] = {s} /\ s.next <= NumChunks(s.size) + 1
  BY DEF TransferTypes
<1>2. Sent(t) = s
  BY <1>1, ChooseOne DEF Sent
<1>3. s.size \in Sizes /\ s.size \in Nat
  BY TransferAssumption DEF Send
<1> QED
  BY <1>1, <1>2, <1>3, ChunkCount, MostChunks

\* What a transfer was announced by, as an integer.
LEMMA AnnouncedInt ==
  ASSUME TransferTypes, NEW t \in Transfers
  PROVE  /\ headersSeen[t] \in Nat /\ Announced(t) \in Nat
         /\ Ended(t) /\ Sent(t).own => Announced(t) = headersSeen[t] + 1
         /\ ~(Ended(t) /\ Sent(t).own) => Announced(t) = headersSeen[t]
<1>1. headersSeen[t] \in Nat
  BY TransferAssumption DEF TransferTypes
<1> QED
  BY <1>1 DEF Announced

\* A step of the sender, that goes on by at most one message and puts the metadata back
\* if it is the last one on the router that also receives.
LEMMA SendingInv ==
  ASSUME TransferInv, NEW t \in Transfers, NEW s \in Send, ~Ended(t),
         sends' = [sends EXCEPT ![t] = {s}], UNCHANGED <<buffers, completed, headersSeen, seen>>,
         headers' = IF s.at = "sent" /\ s.own THEN headers \cup {t} ELSE headers,
         s.next <= NumChunks(s.size) + 1,
         Begun(t) => /\ Sent(t).next <= s.next
                     /\ s.size = Sent(t).size /\ s.readable = Sent(t).readable,
         \A message \in flight' : message \in flight \/ \E k \in Nat : message = <<t, k>> /\ k < s.next,
         spoilt \subseteq spoilt', spoilt' \subseteq Transfers
  PROVE  TransferInv'
<1>1. /\ sends'[t] = {s} /\ \A u \in Transfers \ {t} : sends'[u] = sends[u]
      /\ sends' = [u \in Transfers |-> sends'[u]]
  BY DEF TransferInv, TransferTypes
<1>2. /\ Begun(t)' /\ Sent(t)' = s
      /\ \A u \in Transfers \ {t} : (Begun(u)' <=> Begun(u)) /\ Sent(u)' = Sent(u)
  BY <1>1, ChooseOne DEF Begun, Sent
<1>3. /\ headers \subseteq headers' /\ headers' \subseteq headers \cup {t}
      /\ buffers' = buffers /\ completed' = completed
      /\ headersSeen' = headersSeen /\ seen' = seen
  OBVIOUS
<1>4. ASSUME NEW u, NEW k, IsSent(u, k) PROVE IsSent(u, k)'
  <2>1. CASE u = t
    <3>1. Sent(t).next \in Nat /\ s.next \in Nat
      BY <1>4, <2>1, OneSend DEF IsSent, Send, TransferInv
    <3> QED
      BY <1>2, <1>4, <2>1, <3>1 DEF IsSent
  <2>2. CASE u # t
    BY <1>2, <1>4, <2>2 DEF IsSent
  <2> QED
    BY <2>1, <2>2
<1>5. TransferTypes'
  <2>1. ASSUME NEW message \in flight' \cup seen'
        PROVE  \E u, k : message = <<u, k>> /\ IsSent(u, k)'
    <3>1. CASE message \in flight \cup seen
      BY <1>4, <3>1 DEF TransferInv, TransferTypes
    <3>2. CASE message \notin flight \cup seen
      <4>1. PICK k \in Nat : message = <<t, k>> /\ k < s.next
        BY <1>3, <2>1, <3>2
      <4> QED
        BY <1>2, <4>1 DEF IsSent
    <3> QED
      BY <3>1, <3>2
  <2>2. \A u \in Transfers : Begun(u)' =>
          \E r \in Send : sends'[u] = {r} /\ r.next <= NumChunks(r.size) + 1
    BY <1>1, <1>2 DEF TransferInv, TransferTypes
  <2> QED
    BY <1>1, <1>3, <2>1, <2>2 DEF TransferInv, TransferTypes
<1>6. ASSUME NEW u \in Transfers PROVE Collecting(u)'
  <2> SUFFICES ASSUME u \notin spoilt', <<u, 0>> \in seen', completed'[u] = 0
               PROVE  /\ u \in headers'
                      /\ \A i \in Nat : <<u, i + 1>> \in seen' => i \in buffers'[u]
                      /\ Sent(u)'.readable => ~Whole(u, buffers[u])'
    BY DEF Collecting
  <2>1. /\ u \in headers
        /\ \A i \in Nat : <<u, i + 1>> \in seen => i \in buffers[u]
        /\ Sent(u).readable => ~Whole(u, buffers[u])
    BY <1>3 DEF TransferInv, Collecting
  <2>2. Begun(u)
    BY <1>3 DEF TransferInv, TransferTypes, IsSent
  <2>3. Sent(u)'.size = Sent(u).size /\ Sent(u)'.readable = Sent(u).readable
    BY <1>2, <2>2
  <2> QED
    BY <1>3, <2>1, <2>3 DEF Whole
<1>7. ASSUME NEW u \in Transfers
      PROVE  completed'[u] + (IF u \in headers' THEN 1 ELSE 0) <= Announced(u)'
  <2>1. /\ completed[u] \in Nat /\ headersSeen[u] \in Nat
        /\ completed[u] + (IF u \in headers THEN 1 ELSE 0) <= Announced(u)
    BY AnnouncedInt DEF TransferInv, TransferTypes
  <2>2. CASE u = t
    <3>1. completed[t] + (IF t \in headers THEN 1 ELSE 0) <= headersSeen[t]
      BY <2>1, <2>2, AnnouncedInt DEF TransferInv
    <3>2. Announced(t)' = headersSeen[t] + (IF s.at = "sent" /\ s.own THEN 1 ELSE 0)
      BY <1>2, <1>3 DEF Announced, Ended
    <3>3. CASE s.at = "sent" /\ s.own
      BY <1>3, <2>1, <2>2, <3>1, <3>2, <3>3
    <3>4. CASE ~(s.at = "sent" /\ s.own)
      <4>1. headers' = headers
        BY <3>4
      <4> QED
        BY <1>3, <2>1, <2>2, <3>1, <3>2, <3>4, <4>1
    <3> QED
      BY <3>3, <3>4
  <2>3. CASE u # t
    <3>1. Announced(u)' = Announced(u)
      BY <1>2, <1>3, <2>3 DEF Announced, Ended
    <3> QED
      BY <1>3, <2>1, <2>3, <3>1
  <2> QED
    BY <2>2, <2>3
<1> QED
  BY <1>3, <1>5, <1>6, <1>7 DEF TransferInv

LEMMA SendInv ==
  ASSUME TransferInv, NEW t \in Transfers,
         \/ \E size \in Sizes, dtype \in DTypes : SendActivation(t, size, dtype)
         \/ SendNext(t)
         \/ SendRaises(t)
         \/ SendEnds(t)
  PROVE  TransferInv'
<1>1. TransferTypes /\ spoilt \subseteq Transfers
  BY DEF TransferInv, TransferTypes
<1>2. ASSUME NEW size \in Sizes, NEW dtype \in DTypes, SendActivation(t, size, dtype)
      PROVE  TransferInv'
  <2>1. PICK compression \in Compressions \cup
                {ChooseCompression(class) : class \in {"small", "large", "huge"}},
             own \in BOOLEAN : sends' = [sends EXCEPT ![t] =
          {[size |-> size, readable |-> Deserializes(dtype, compression), own |-> own,
            next |-> 0, at |-> "sending"]}]
    BY <1>2 DEF SendActivation
  <2>2. Deserializes(dtype, compression) \in BOOLEAN
    BY DEF Deserializes
  <2> DEFINE s == [size |-> size, readable |-> Deserializes(dtype, compression), own |-> own,
                   next |-> 0, at |-> "sending"]
  <2>3. s \in Send /\ s.next <= NumChunks(s.size) + 1 /\ s.at # "sent"
    <3>1. NumChunks(size) \in Nat
      BY TransferAssumption, ChunkCount
    <3> QED
      BY <2>1, <2>2, <3>1 DEF Send
  <2> HIDE DEF s
  <2>4. /\ ~Begun(t) /\ flight' = flight /\ spoilt' = spoilt
        /\ UNCHANGED <<buffers, completed, headersSeen, seen>> /\ headers' = headers
        /\ sends' = [sends EXCEPT ![t] = {s}]
    BY <1>2, <2>1 DEF SendActivation, s, receiverVars
  <2>5. ~Ended(t)
    BY <2>4 DEF Ended
  <2>6. /\ headers' = IF s.at = "sent" /\ s.own THEN headers \cup {t} ELSE headers
        /\ \A message \in flight' : message \in flight
        /\ spoilt \subseteq spoilt' /\ spoilt' \subseteq Transfers
    BY <1>1, <2>3, <2>4
  <2> QED
    BY <2>3, <2>4, <2>5, <2>6, SendingInv
<1>3. CASE SendNext(t)
  <2> DEFINE s == [Sent(t) EXCEPT !.next = @ + 1]
  <2>1. /\ Begun(t) /\ Sent(t).at = "sending" /\ ~AllHandedOver(t) /\ UNCHANGED receiverVars
        /\ sends' = [sends EXCEPT ![t] = {[r EXCEPT !.next = @ + 1] : r \in @}]
        /\ \/ flight' = flight \cup {<<t, Sent(t).next>>} /\ spoilt' = spoilt
           \/ flight' = flight /\ spoilt' = spoilt \cup {t}
    BY <1>3 DEF SendNext, Sending
  <2>2. /\ Sent(t) \in Send /\ sends[t] = {Sent(t)}
        /\ NumChunks(Sent(t).size) \in Nat
    BY <1>1, <2>1, OneSend
  <2>3. /\ s \in Send /\ s.next = Sent(t).next + 1 /\ Sent(t).next \in Nat
        /\ s.size = Sent(t).size /\ s.readable = Sent(t).readable /\ s.at # "sent"
    BY <2>1, <2>2 DEF Send
  <2>4. s.next <= NumChunks(s.size) + 1
    <3>1. ~(Sent(t).next > NumChunks(Sent(t).size))
      BY <2>1 DEF AllHandedOver
    <3> QED
      BY <2>2, <2>3, <3>1
  <2>5. sends' = [sends EXCEPT ![t] = {s}]
    BY <2>1, <2>2
  <2> HIDE DEF s
  <2>6. \A message \in flight' :
          message \in flight \/ \E k \in Nat : message = <<t, k>> /\ k < s.next
    BY <2>1, <2>3
  <2> QED
    BY <1>1, <2>1, <2>3, <2>4, <2>5, <2>6, SendingInv DEF receiverVars, Ended
<1>4. CASE SendRaises(t)
  <2> DEFINE s == [Sent(t) EXCEPT !.at = "raised"]
  <2>1. /\ Begun(t) /\ Sent(t).at = "sending" /\ UNCHANGED <<buffers, completed, headersSeen, seen>>
        /\ flight' = flight /\ spoilt' = spoilt
        /\ headers' = headers
        /\ sends' = [sends EXCEPT ![t] = {[r EXCEPT !.at = "raised"] : r \in @}]
    BY <1>4 DEF SendRaises, Sending, receiverVars
  <2>2. /\ Sent(t) \in Send /\ sends[t] = {Sent(t)}
        /\ Sent(t).next <= NumChunks(Sent(t).size) + 1
    BY <1>1, <2>1, OneSend
  <2>3. /\ s \in Send /\ s.next = Sent(t).next /\ Sent(t).next \in Nat
        /\ s.size = Sent(t).size /\ s.readable = Sent(t).readable
        /\ s.at = "raised"
    BY <2>2 DEF Send
  <2>4. sends' = [sends EXCEPT ![t] = {s}]
    BY <2>1, <2>2
  <2> HIDE DEF s
  <2> QED
    BY <1>1, <2>1, <2>2, <2>3, <2>4, SendingInv DEF Ended
<1>5. CASE SendEnds(t)
  <2> DEFINE s == [Sent(t) EXCEPT !.at = "sent"]
  <2>1. /\ Begun(t) /\ Sent(t).at = "sending" /\ UNCHANGED <<buffers, completed, headersSeen, seen>>
        /\ flight' = flight /\ spoilt' = spoilt
        /\ headers' = IF Sent(t).own THEN headers \cup {t} ELSE headers
        /\ sends' = [sends EXCEPT ![t] = {[r EXCEPT !.at = "sent"] : r \in @}]
    BY <1>5 DEF SendEnds, Sending
  <2>2. /\ Sent(t) \in Send /\ sends[t] = {Sent(t)}
        /\ Sent(t).next <= NumChunks(Sent(t).size) + 1
    BY <1>1, <2>1, OneSend
  <2>3. /\ s \in Send /\ s.next = Sent(t).next /\ Sent(t).next \in Nat
        /\ s.size = Sent(t).size /\ s.readable = Sent(t).readable
        /\ s.at = "sent" /\ s.own = Sent(t).own
    BY <2>2 DEF Send
  <2>4. sends' = [sends EXCEPT ![t] = {s}]
    BY <2>1, <2>2
  <2> HIDE DEF s
  <2>5. ~Ended(t)
    BY <2>1 DEF Ended
  <2>6. /\ headers' = IF s.at = "sent" /\ s.own THEN headers \cup {t} ELSE headers
        /\ \A message \in flight' : message \in flight
        /\ spoilt \subseteq spoilt' /\ spoilt' \subseteq Transfers
    BY <1>1, <2>1, <2>3
  <2>7. s.next <= NumChunks(s.size) + 1 /\ Sent(t).next <= s.next /\ s \in Send
    BY <2>2, <2>3
  <2>8. s.size = Sent(t).size /\ s.readable = Sent(t).readable
    BY <2>3
  <2>9. UNCHANGED <<buffers, completed, headersSeen, seen>>
    BY <2>1
  <2> QED
    BY <2>4, <2>5, <2>6, <2>7, <2>8, <2>9, SendingInv
<1> QED
  BY <1>2, <1>3, <1>4, <1>5

\* A message delivered was sent, and the sender does not notice.
LEMMA Delivery ==
  ASSUME TransferInv, NEW t \in Transfers, NEW k \in Nat, Deliver(t, k)
  PROVE  /\ IsSent(t, k) /\ sends' = sends /\ seen' = seen \cup {<<t, k>>}
         /\ \A u, j : IsSent(u, j)' <=> IsSent(u, j)
         /\ \A u : Sent(u)' = Sent(u) /\ (Begun(u)' <=> Begun(u)) /\ (Ended(u)' <=> Ended(u))
         /\ \A message \in flight' \cup seen' : \E u, j : message = <<u, j>> /\ IsSent(u, j)
<1>1. <<t, k>> \in flight /\ flight' \subseteq flight /\ sends' = sends /\ seen' = seen \cup {<<t, k>>}
  BY DEF Deliver
<1>2. IsSent(t, k)
  <2>1. PICK u, j : <<t, k>> = <<u, j>> /\ IsSent(u, j)
    BY <1>1 DEF TransferInv, TransferTypes
  <2> QED
    BY <2>1
<1>3. \A message \in flight' \cup seen' : \E u, j : message = <<u, j>> /\ IsSent(u, j)
  BY <1>1, <1>2 DEF TransferInv, TransferTypes
<1>4. \A u : Sent(u)' = Sent(u) /\ (Begun(u)' <=> Begun(u)) /\ (Ended(u)' <=> Ended(u))
  BY <1>1 DEF Sent, Begun, Ended
<1> QED
  BY <1>1, <1>2, <1>3, <1>4 DEF IsSent

LEMMA HeaderInv ==
  ASSUME TransferInv, NEW t \in Transfers, ReceiveHeader(t)
  PROVE  TransferInv'
<1>1. /\ Deliver(t, 0) /\ headersSeen[t] < MaxHeaders
      /\ headersSeen' = [headersSeen EXCEPT ![t] = @ + 1]
      /\ headers' = headers \cup {t}
      /\ buffers' = [buffers EXCEPT ![t] = {}]
      /\ spoilt' = IF \E k \in 1..MaxChunks : <<t, k>> \in seen THEN spoilt \cup {t} ELSE spoilt
      /\ completed' = completed
  BY DEF ReceiveHeader
<1>2. /\ IsSent(t, 0) /\ sends' = sends /\ seen' = seen \cup {<<t, 0>>}
      /\ \A u, j : IsSent(u, j)' <=> IsSent(u, j)
      /\ \A u : Sent(u)' = Sent(u) /\ (Begun(u)' <=> Begun(u)) /\ (Ended(u)' <=> Ended(u))
      /\ \A message \in flight' \cup seen' : \E u, j : message = <<u, j>> /\ IsSent(u, j)
  BY <1>1, Delivery
<1>3. /\ headersSeen'[t] = headersSeen[t] + 1 /\ headersSeen[t] \in Nat
      /\ headersSeen' \in [Transfers -> 0..MaxHeaders]
      /\ buffers'[t] = {} /\ buffers' \in [Transfers -> SUBSET Nat]
      /\ \A u \in Transfers \ {t} : headersSeen'[u] = headersSeen[u] /\ buffers'[u] = buffers[u]
  <2>1. MaxHeaders \in Nat
    BY TransferAssumption
  <2> QED
    BY <1>1, <2>1 DEF TransferInv, TransferTypes
<1>4. TransferTypes'
  BY <1>1, <1>2, <1>3 DEF TransferInv, TransferTypes
<1>5. Collecting(t)'
  <2> SUFFICES ASSUME t \notin spoilt'
               PROVE  /\ t \in headers'
                      /\ \A i \in Nat : <<t, i + 1>> \in seen' => i \in buffers'[t]
                      /\ ~Whole(t, buffers[t])'
    BY DEF Collecting
  <2>1. \A k \in 1..MaxChunks : <<t, k>> \notin seen
    BY <1>1
  <2>2. /\ Sent(t).next <= MaxChunks + 1 /\ Sent(t).next \in Nat /\ MaxChunks \in Nat
        /\ NumChunks(Sent(t).size) \in Nat \ {0}
    BY <1>2, OneSend DEF TransferInv, IsSent, Send
  <2>3. ASSUME NEW i \in Nat, <<t, i + 1>> \in seen' PROVE FALSE
    <3>1. PICK u, j : <<t, i + 1>> = <<u, j>> /\ IsSent(u, j)
      BY <1>2, <2>3
    <3>2. i + 1 < Sent(t).next
      BY <3>1 DEF IsSent
    <3>3. i + 1 \in 1..MaxChunks
      BY <2>2, <3>2
    <3> QED
      BY <1>2, <2>1, <2>3, <3>3
  <2>4. ~(Cardinality(buffers'[t]) >= NumChunks(Sent(t)'.size))
    BY <1>2, <1>3, <2>2, FS_EmptySet
  <2> QED
    BY <1>1, <2>3, <2>4 DEF Whole
<1>6. ASSUME NEW u \in Transfers \ {t} PROVE Collecting(u)'
  <2>1. \A k : <<u, k>> \in seen' <=> <<u, k>> \in seen
    BY <1>2
  <2>2. (u \in spoilt' <=> u \in spoilt) /\ (u \in headers' <=> u \in headers)
    BY <1>1
  <2> QED
    BY <1>1, <1>2, <1>3, <2>1, <2>2 DEF TransferInv, Collecting, Whole
<1>7. ASSUME NEW u \in Transfers
      PROVE  /\ \A i \in buffers'[u] : <<u, i + 1>> \in seen'
             /\ headersSeen'[u] > 0 => <<u, 0>> \in seen'
             /\ completed'[u] + (IF u \in headers' THEN 1 ELSE 0) <= Announced(u)'
  <2>1. /\ completed[u] \in Nat /\ Announced(u) \in Nat
        /\ completed[u] + (IF u \in headers THEN 1 ELSE 0) <= Announced(u)
    BY AnnouncedInt DEF TransferInv, TransferTypes
  <2>2. CASE u = t
    <3>1. completed[t] <= Announced(t)
      BY <2>1, <2>2
    <3>2. Announced(t)' = Announced(t) + 1
      BY <1>2, <1>3 DEF Announced
    <3>3. completed'[t] + (IF t \in headers' THEN 1 ELSE 0) <= Announced(t)'
      BY <1>1, <2>1, <2>2, <3>1, <3>2
    <3> QED
      BY <1>2, <1>3, <2>2, <3>3
  <2>3. CASE u # t
    <3>1. Announced(u)' = Announced(u)
      BY <1>2, <1>3, <2>3 DEF Announced
    <3>2. (u \in headers' <=> u \in headers) /\ completed'[u] = completed[u]
      BY <1>1, <2>3
    <3> QED
      BY <1>2, <1>3, <2>1, <2>3, <3>1, <3>2 DEF TransferInv
  <2> QED
    BY <2>2, <2>3
<1> QED
  BY <1>4, <1>5, <1>6, <1>7 DEF TransferInv

LEMMA ChunkInv ==
  ASSUME TransferInv, NEW t \in Transfers, NEW i \in Nat, ReceiveChunk(t, i)
  PROVE  TransferInv'
<1> DEFINE chunks == buffers[t] \cup {i}
<1>1. /\ Deliver(t, i + 1) /\ headersSeen' = headersSeen /\ spoilt' = spoilt
      /\ IF t \in headers /\ Whole(t, chunks) /\ Sent(t).readable
         THEN /\ completed' = [completed EXCEPT ![t] = @ + 1]
              /\ headers' = headers \ {t}
              /\ buffers' = [buffers EXCEPT ![t] = {}]
         ELSE /\ buffers' = [buffers EXCEPT ![t] = chunks]
              /\ completed' = completed /\ headers' = headers
  BY DEF ReceiveChunk
<1>2. /\ IsSent(t, i + 1) /\ sends' = sends /\ seen' = seen \cup {<<t, i + 1>>}
      /\ \A u, j : IsSent(u, j)' <=> IsSent(u, j)
      /\ \A u : Sent(u)' = Sent(u) /\ (Begun(u)' <=> Begun(u)) /\ (Ended(u)' <=> Ended(u))
      /\ \A message \in flight' \cup seen' : \E u, j : message = <<u, j>> /\ IsSent(u, j)
  BY <1>1, Delivery
<1>3. /\ \A u \in Transfers \ {t} : /\ buffers'[u] = buffers[u] /\ completed'[u] = completed[u]
                                    /\ (u \in headers' <=> u \in headers)
      /\ buffers' \in [Transfers -> SUBSET Nat] /\ completed' \in [Transfers -> Nat]
      /\ headers' \subseteq Transfers
      /\ \/ /\ t \in headers /\ t \notin headers' /\ completed'[t] = completed[t] + 1
            /\ buffers'[t] = {}
         \/ /\ completed'[t] = completed[t] /\ (t \in headers' <=> t \in headers)
            /\ buffers'[t] = chunks /\ ~(t \in headers /\ Whole(t, chunks) /\ Sent(t).readable)
  BY <1>1 DEF TransferInv, TransferTypes
<1> HIDE DEF chunks
<1>4. TransferTypes'
  BY <1>1, <1>2, <1>3 DEF TransferInv, TransferTypes
<1>5. /\ completed[t] \in Nat /\ Announced(t) \in Nat
      /\ completed[t] + (IF t \in headers THEN 1 ELSE 0) <= Announced(t)
      /\ \A j \in buffers[t] : <<t, j + 1>> \in seen
      /\ \A u : Announced(u)' = Announced(u)
  <2>1. /\ completed[t] + (IF t \in headers THEN 1 ELSE 0) <= Announced(t)
        /\ \A j \in buffers[t] : <<t, j + 1>> \in seen
    BY DEF TransferInv
  <2>2. completed[t] \in Nat /\ Announced(t) \in Nat
    BY AnnouncedInt DEF TransferInv, TransferTypes
  <2>3. \A u : Announced(u)' = Announced(u)
    BY <1>1, <1>2 DEF Announced
  <2> QED
    BY <2>1, <2>2, <2>3
<1>6. Collecting(t)'
  <2> SUFFICES ASSUME t \notin spoilt, <<t, 0>> \in seen', completed'[t] = 0
               PROVE  /\ t \in headers'
                      /\ \A j \in Nat : <<t, j + 1>> \in seen' => j \in buffers'[t]
                      /\ Sent(t)'.readable => ~Whole(t, buffers[t])'
    BY <1>1 DEF Collecting
  <2>1. /\ completed[t] = 0 /\ (t \in headers' <=> t \in headers) /\ buffers'[t] = chunks
        /\ ~(t \in headers /\ Whole(t, chunks) /\ Sent(t).readable)
    BY <1>3, <1>5
  <2>2. <<t, 0>> \in seen
    BY <1>2
  <2>3. t \in headers /\ \A j \in Nat : <<t, j + 1>> \in seen => j \in buffers[t]
    BY <2>1, <2>2 DEF TransferInv, Collecting
  <2>4. \A j \in Nat : <<t, j + 1>> \in seen' => j \in chunks
    BY <1>2, <2>3 DEF chunks
  <2> QED
    BY <1>2, <2>1, <2>3, <2>4 DEF Whole
<1>7. ASSUME NEW u \in Transfers \ {t} PROVE Collecting(u)'
  <2>1. \A k : <<u, k>> \in seen' <=> <<u, k>> \in seen
    BY <1>2
  <2> QED
    BY <1>1, <1>2, <1>3, <2>1 DEF TransferInv, Collecting, Whole
<1>8. ASSUME NEW u \in Transfers
      PROVE  /\ \A j \in buffers'[u] : <<u, j + 1>> \in seen'
             /\ headersSeen'[u] > 0 => <<u, 0>> \in seen'
             /\ completed'[u] + (IF u \in headers' THEN 1 ELSE 0) <= Announced(u)'
  <2>1. headersSeen'[u] > 0 => <<u, 0>> \in seen'
    BY <1>1, <1>2 DEF TransferInv
  <2>2. CASE u = t
    <3>1. \A j \in buffers'[t] : <<t, j + 1>> \in seen'
      BY <1>2, <1>3, <1>5 DEF chunks
    <3>2. completed'[t] + (IF t \in headers' THEN 1 ELSE 0) <= Announced(t)
      BY <1>3, <1>5
    <3> QED
      BY <1>5, <2>1, <2>2, <3>1, <3>2
  <2>3. CASE u # t
    <3>1. /\ \A j \in buffers[u] : <<u, j + 1>> \in seen
          /\ completed[u] + (IF u \in headers THEN 1 ELSE 0) <= Announced(u)
      BY DEF TransferInv
    <3> QED
      BY <1>2, <1>3, <1>5, <2>1, <2>3, <3>1
  <2> QED
    BY <2>2, <2>3
<1> QED
  BY <1>4, <1>6, <1>7, <1>8 DEF TransferInv

LEMMA TransferStepInv == TransferInv /\ [TransferNext]_transferVars => TransferInv'
<1> SUFFICES ASSUME TransferInv, [TransferNext]_transferVars PROVE TransferInv'
  OBVIOUS
<1>1. ASSUME NEW t \in Transfers, NEW i \in 0..(MaxChunks - 1), ReceiveChunk(t, i)
      PROVE  TransferInv'
  <2>1. <<t, i + 1>> \in flight
    BY <1>1 DEF ReceiveChunk, Deliver
  <2>2. PICK u \in Transfers : Begun(u)
    BY <2>1 DEF TransferInv, TransferTypes, IsSent
  <2>3. MaxChunks \in Nat
    BY <2>2, OneSend DEF TransferInv
  <2>4. i \in Nat
    BY <2>3
  <2> QED
    BY <1>1, <2>4, ChunkInv
<1>2. CASE UNCHANGED transferVars
  <2>1. /\ sends' = sends /\ flight' = flight /\ headers' = headers /\ buffers' = buffers
        /\ completed' = completed /\ headersSeen' = headersSeen /\ seen' = seen
        /\ spoilt' = spoilt
    BY <1>2 DEF transferVars, receiverVars
  <2>2. /\ \A t : (Begun(t)' <=> Begun(t)) /\ Sent(t)' = Sent(t)
        /\ \A t, k : IsSent(t, k)' <=> IsSent(t, k)
    BY <2>1 DEF Begun, Sent, IsSent
  <2>3. TransferTypes'
    BY <2>1, <2>2 DEF TransferInv, TransferTypes
  <2>4. \A t \in Transfers : Collecting(t)'
    BY <2>1, <2>2 DEF TransferInv, Collecting, Whole
  <2>5. \A t : Announced(t)' = Announced(t)
    BY <2>1, <2>2 DEF Announced, Ended
  <2> QED
    BY <2>1, <2>3, <2>4, <2>5 DEF TransferInv
<1>3. ASSUME NEW t \in Transfers,
             \/ \E size \in Sizes, dtype \in DTypes : SendActivation(t, size, dtype)
             \/ SendNext(t)
             \/ SendRaises(t)
             \/ SendEnds(t)
      PROVE  TransferInv'
  BY <1>3, SendInv
<1>4. ASSUME NEW t \in Transfers, ReceiveHeader(t) PROVE TransferInv'
  BY <1>4, HeaderInv
<1> QED
  BY <1>1, <1>2, <1>3, <1>4 DEF TransferNext

\* All chunks of a transfer were seen, so that it would be whole if it were still
\* being collected.
LEMMA ArrivesInv == TransferInv => ArrivesAsAnnounced
<1> SUFFICES ASSUME TransferInv, NEW t \in Transfers
             PROVE  /\ completed[t] <= Announced(t)
                    /\ Delivered(t) /\ t \notin spoilt /\ Sent(t).readable => completed[t] > 0
                    /\ completed[t] > 0 =>
                         UNION {Slice(Sent(t).size, i) : i \in 0..(NumChunks(Sent(t).size) - 1)}
                           = 0..(Sent(t).size - 1)
  BY DEF ArrivesAsAnnounced
<1>1. completed[t] \in Nat /\ Announced(t) \in Nat /\ headersSeen[t] \in Nat
  BY AnnouncedInt DEF TransferInv, TransferTypes
<1>2. completed[t] <= Announced(t)
  <2>1. completed[t] + (IF t \in headers THEN 1 ELSE 0) <= Announced(t)
    BY DEF TransferInv
  <2> QED
    BY <1>1, <2>1
<1>3. ASSUME Delivered(t), t \notin spoilt, Sent(t).readable, completed[t] = 0
      PROVE  FALSE
  <2> DEFINE n == NumChunks(Sent(t).size)
  <2>1. /\ n \in Nat \ {0} /\ Sent(t).next <= n + 1 /\ Sent(t).next \in Nat
    BY <1>3, OneSend DEF TransferInv, Delivered, Send
  <2>2. \A k \in 0..n : <<t, k>> \in seen
    BY <1>3 DEF Delivered
  <2>3. /\ \A i \in Nat : <<t, i + 1>> \in seen => i \in buffers[t]
        /\ ~(Cardinality(buffers[t]) >= n)
    <3>1. 0 \in 0..n
      BY <2>1
    <3>2. <<t, 0>> \in seen
      BY <2>2, <3>1
    <3>3. Collecting(t)
      BY DEF TransferInv
    <3> QED
      BY <1>3, <3>2, <3>3 DEF Collecting, Whole
  <2>4. ASSUME NEW i \in buffers[t] PROVE i \in 0..(n - 1)
    <3>1. i \in Nat /\ <<t, i + 1>> \in seen
      BY DEF TransferInv, TransferTypes
    <3>2. IsSent(t, i + 1)
      BY <3>1 DEF TransferInv, TransferTypes
    <3> QED
      BY <2>1, <3>1, <3>2 DEF IsSent
  <2> HIDE DEF n
  <2>5. 0..(n - 1) \subseteq buffers[t]
    <3> SUFFICES ASSUME NEW i \in 0..(n - 1) PROVE i \in buffers[t]
      OBVIOUS
    <3>1. i \in Nat /\ i + 1 \in 0..n
      BY <2>1
    <3> QED
      BY <2>2, <2>3, <3>1
  <2>6. buffers[t] = 0..(n - 1)
    BY <2>4, <2>5
  <2>7. Cardinality(0..(n - 1)) = n
    <3>1. Cardinality(0..(n - 1)) = IF 0 > n - 1 THEN 0 ELSE (n - 1) - 0 + 1
      BY <2>1, FS_Interval
    <3> QED
      BY <2>1, <3>1
  <2> QED
    BY <2>1, <2>3, <2>6, <2>7
<1>4. ASSUME completed[t] > 0 PROVE Sent(t).size \in Nat
  <2>1. ASSUME headersSeen[t] > 0 PROVE Begun(t)
    <3>1. <<t, 0>> \in seen
      BY <2>1 DEF TransferInv
    <3> QED
      BY <3>1 DEF TransferInv, TransferTypes, IsSent
  <2>2. ASSUME ~(headersSeen[t] > 0) PROVE Begun(t)
    <3>1. Ended(t)
      BY <1>1, <1>2, <1>4, <2>2, AnnouncedInt DEF TransferInv
    <3> QED
      BY <3>1 DEF Ended
  <2>3. Begun(t)
    BY <2>1, <2>2
  <2> QED
    BY <2>3, OneSend, TransferAssumption DEF TransferInv, Send
<1> QED
  BY <1>1, <1>2, <1>3, <1>4, ChunksAreAll

LEMMA TransferInvTypes == TransferInv => TransferTypeOK
<1> SUFFICES ASSUME TransferInv PROVE TransferTypeOK
  OBVIOUS
<1>1. ASSUME NEW t \in Transfers PROVE sends[t] \subseteq Send /\ Cardinality(sends[t]) <= 1
  <2>1. CASE sends[t] = {}
    <3>1. Cardinality(sends[t]) = 0
      BY <2>1, FS_EmptySet
    <3> QED
      BY <2>1, <3>1
  <2>2. CASE sends[t] # {}
    <3>1. PICK s \in Send : sends[t] = {s}
      BY <2>2 DEF TransferInv, TransferTypes, Begun
    <3>2. Cardinality({s}) = 1
      BY FS_Singleton
    <3> QED
      BY <3>1, <3>2
  <2> QED
    BY <2>1, <2>2
<1>2. ASSUME NEW t, NEW k, IsSent(t, k)
      PROVE  t \in Transfers /\ k \in 0..MaxChunks /\ MaxChunks \in Nat
  <2>1. /\ t \in Transfers /\ k \in Nat /\ k < Sent(t).next
    BY <1>2 DEF IsSent
  <2>2. /\ Sent(t).next \in Nat /\ Sent(t).next <= NumChunks(Sent(t).size) + 1
        /\ NumChunks(Sent(t).size) \in Nat /\ MaxChunks \in Nat
        /\ NumChunks(Sent(t).size) <= MaxChunks
    BY <1>2, OneSend DEF IsSent, TransferInv, Send
  <2> QED
    BY <2>1, <2>2
<1>3. flight \subseteq Message /\ seen \subseteq Message
  BY <1>2 DEF TransferInv, TransferTypes, Message
<1>4. ASSUME NEW t \in Transfers PROVE buffers[t] \subseteq 0..(MaxChunks - 1)
  <2> SUFFICES ASSUME NEW i \in buffers[t] PROVE i \in 0..(MaxChunks - 1)
    OBVIOUS
  <2>1. i \in Nat /\ <<t, i + 1>> \in seen
    BY DEF TransferInv, TransferTypes
  <2>2. IsSent(t, i + 1)
    BY <2>1 DEF TransferInv, TransferTypes
  <2>3. i + 1 \in 0..MaxChunks /\ MaxChunks \in Nat
    BY <1>2, <2>2
  <2> QED
    BY <2>1, <2>3
<1>5. ASSUME NEW t \in Transfers PROVE completed[t] \in 0..(MaxHeaders + 1)
  <2>1. completed[t] \in Nat /\ headersSeen[t] \in 0..MaxHeaders /\ MaxHeaders \in Nat
    BY TransferAssumption DEF TransferInv, TransferTypes
  <2>2. completed[t] <= Announced(t)
    BY ArrivesInv DEF ArrivesAsAnnounced
  <2>3. Announced(t) <= headersSeen[t] + 1 /\ Announced(t) \in Nat
    BY <2>1, AnnouncedInt DEF TransferInv
  <2> QED
    BY <2>1, <2>2, <2>3
<1> QED
  BY <1>1, <1>3, <1>4, <1>5 DEF TransferTypeOK, TransferInv, TransferTypes

LEMMA TransferInvariant == DetachedSpec => []TransferInv
<1>1. DetachedInit => TransferInv
  BY TransferInitInv DEF DetachedInit
<1>2. TransferInv /\ [DetachedNext]_detachedVars => TransferInv'
  <2>1. [DetachedNext]_detachedVars => [TransferNext]_transferVars
    BY DEF DetachedNext, detachedVars
  <2> QED
    BY <2>1, TransferStepInv
<1> QED
  BY <1>1, <1>2, PTL DEF DetachedSpec

\* send_activation, receive_header and receive_chunk: whatever order, loss and
\* repetition the transport brings, a tensor is put together whole, at least once if
\* all of it was delivered and its header came first, and at most once for a header
\* and for a send that ended on the router that receives it.
THEOREM TensorsArrive == DetachedSpec => []ArrivesAsAnnounced
<1>1. TransferInv => ArrivesAsAnnounced
  BY ArrivesInv
<1> QED
  BY <1>1, TransferInvariant, PTL
-----------------------------------------------------------------------------
(* Staking *)

WalletTypes ==
  /\ wallets \in Seq(Miners) /\ Len(wallets) <= MaxWallets
  /\ balance \in Seq(Nat) /\ Len(balance) = Len(wallets)
  /\ stakes \in [Stakes -> Stake \cup {NoStake}]
  /\ \A s \in Deposited : stakes[s].wallet <= Len(wallets)
  /\ rewards \in Seq(Amounts) /\ rewards \in Seq(Nat)

StakingInv == WalletTypes /\ TokensConserved

Held == [s \in Deposited |-> AccountsFor(stakes[s])]

LEMMA AccountsForNat ==
  ASSUME NEW stake \in Stake
  PROVE  AccountsFor(stake) \in Nat
BY DEF AccountsFor, Stake

LEMMA HeldTypes ==
  ASSUME WalletTypes
  PROVE  /\ Held \in [Deposited -> Nat] /\ IsFiniteSet(Deposited)
         /\ \A s \in Deposited : stakes[s] \in Stake
         /\ SumFunction(Held) \in Nat /\ SumFunction(balance) \in Nat
<1>1. IsFiniteSet(Deposited)
  BY StakingAssumption, FS_Subset DEF Deposited
<1>2. \A s \in Deposited : stakes[s] \in Stake
  BY DEF WalletTypes, Deposited
<1>3. Held \in [Deposited -> Nat]
  BY <1>2, AccountsForNat DEF Held
<1>4. SumFunction(Held) \in Nat
  BY <1>1, <1>3, SumIsNatural
<1>5. SumFunction(balance) \in Nat
  <2>1. IsFiniteSet(1..Len(balance))
    BY FS_Interval DEF WalletTypes
  <2>2. DOMAIN balance = 1..Len(balance) /\ \A x \in DOMAIN balance : balance[x] \in Nat
    BY DEF WalletTypes
  <2>3. IsFiniteSet(DOMAIN balance)
    BY <2>1, <2>2, Zenon
  <2> QED
    BY <2>2, <2>3, SumIsNatural, Zenon
<1> QED
  BY <1>1, <1>2, <1>3, <1>4, <1>5

LEMMA HeldIsNat == WalletTypes => SumFunction(Held) \in Nat
BY HeldTypes

\* A deposited stake that becomes another one of the same wallet.
LEMMA StakeChanged ==
  ASSUME WalletTypes, NEW s \in Deposited, NEW new \in Stake, new.wallet = stakes[s].wallet,
         stakes' = [stakes EXCEPT ![s] = new]
  PROVE  /\ stakes' \in [Stakes -> Stake \cup {NoStake}] /\ Deposited' = Deposited
         /\ \A t \in Deposited' : stakes'[t].wallet = stakes[t].wallet
         /\ SumFunction(Held') + AccountsFor(stakes[s]) = SumFunction(Held) + AccountsFor(new)
<1>1. new # NoStake /\ s \in Stakes
  BY StakingAssumption DEF Deposited
<1>2. /\ stakes' \in [Stakes -> Stake \cup {NoStake}]
      /\ stakes'[s] = new /\ \A t \in Stakes \ {s} : stakes'[t] = stakes[t]
  BY <1>1 DEF WalletTypes
<1>3. Deposited' = Deposited
  BY <1>1, <1>2 DEF Deposited
<1>4. /\ DOMAIN Held = Deposited /\ DOMAIN Held' = Deposited
      /\ Held[s] = AccountsFor(stakes[s]) /\ Held'[s] = AccountsFor(new)
      /\ \A t \in Deposited \ {s} : Held'[t] = Held[t]
  <2>1. Held' = [t \in Deposited |-> AccountsFor(stakes'[t])]
    BY <1>3 DEF Held, AccountsFor
  <2>2. \A t \in Deposited : t # s => stakes'[t] = stakes[t]
    BY <1>2 DEF Deposited
  <2> QED
    BY <1>2, <2>1, <2>2 DEF Held
<1>5. SumFunction(Held') + Held[s] = SumFunction(Held) + Held'[s]
  <2>1. \A t \in Deposited : Held[t] \in Nat /\ Held'[t] \in Nat
    BY <1>4, HeldTypes, AccountsForNat
  <2> QED
    BY <1>4, <2>1, HeldTypes, SumOfChanged
<1>6. \A t \in Deposited' : stakes'[t].wallet = stakes[t].wallet
  BY <1>2, <1>3 DEF Deposited
<1> QED
  BY <1>2, <1>3, <1>4, <1>5, <1>6

LEMMA BalanceChanged ==
  ASSUME WalletTypes, NEW w \in DOMAIN wallets, NEW v \in Nat,
         balance' = [balance EXCEPT ![w] = v]
  PROVE  /\ balance' \in Seq(Nat) /\ Len(balance') = Len(balance)
         /\ SumFunction(balance') + balance[w] = SumFunction(balance) + v
         /\ SumFunction(balance') \in Nat
<1>1. DOMAIN balance = 1..Len(balance) /\ w \in DOMAIN balance
  BY DEF WalletTypes
<1>2. IsFiniteSet(DOMAIN balance)
  <2>1. IsFiniteSet(1..Len(balance))
    BY FS_Interval DEF WalletTypes
  <2> QED
    BY <1>1, <2>1, Zenon
<1>3. balance' \in Seq(Nat) /\ Len(balance') = Len(balance)
  BY <1>1 DEF WalletTypes
<1>4. DOMAIN balance' = DOMAIN balance /\ balance'[w] = v
  BY <1>1
<1>5. \A x \in DOMAIN balance \ {w} : balance'[x] = balance[x]
  BY <1>1
<1>6. \A x \in DOMAIN balance : balance[x] \in Nat /\ balance'[x] \in Nat
  <2>1. \A x \in DOMAIN balance : balance[x] \in Nat
    BY DEF WalletTypes
  <2> QED
    BY <1>4, <1>5, <2>1, Zenon
<1>7. SumFunction(balance') + balance[w] = SumFunction(balance) + balance'[w]
  BY <1>1, <1>2, <1>4, <1>5, <1>6, SumOfChanged, Zenon
<1>8. SumFunction(balance') \in Nat
  BY <1>2, <1>4, <1>6, SumIsNatural, Zenon
<1> QED
  BY <1>3, <1>4, <1>7, <1>8

LEMMA StakingInitInv == StakingInit => StakingInv
<1> SUFFICES ASSUME StakingInit PROVE StakingInv
  OBVIOUS
<1>1. WalletTypes
  BY StakingAssumption DEF StakingInit, WalletTypes, Deposited
<1>2. \A f : DOMAIN f = {} => SumFunction(f) = 0
  <2> SUFFICES ASSUME NEW f, DOMAIN f = {} PROVE SumFunction(f) = 0
    OBVIOUS
  <2>1. SumFunctionOnSet(f, {}) = 0
    BY FS_EmptySet, SumOfOne
  <2> QED
    BY <2>1 DEF SumFunction
<1>3. DOMAIN rewards = {} /\ DOMAIN balance = {}
  BY DEF StakingInit
<1>4. Deposited = {}
  BY DEF StakingInit, Deposited
<1>5. SumFunction(rewards) = 0 /\ SumFunction(balance) = 0 /\ SumFunction(Held) = 0
  <2>1. DOMAIN Held = {}
    BY <1>4 DEF Held
  <2> QED
    BY <1>2, <1>3, <2>1
<1> QED
  BY <1>1, <1>5 DEF StakingInv, TokensConserved, Held

LEMMA CreateWalletInv ==
  ASSUME StakingInv, NEW m \in Miners, CreateWallet(m)
  PROVE  StakingInv'
<1>1. /\ WalletTypes /\ Len(wallets) < MaxWallets /\ MaxWallets \in Nat
      /\ wallets' = Append(wallets, m) /\ balance' = Append(balance, 0)
      /\ stakes' = stakes /\ rewards' = rewards
  BY StakingAssumption DEF StakingInv, CreateWallet
<1>2. Deposited' = Deposited /\ Held' = Held
  BY <1>1 DEF Deposited, Held, AccountsFor
<1>3. wallets' \in Seq(Miners) /\ Len(wallets') = Len(wallets) + 1
  BY <1>1 DEF WalletTypes
<1>4. balance' \in Seq(Nat) /\ Len(balance') = Len(balance) + 1
  BY <1>1 DEF WalletTypes
<1>5. \A s \in Deposited' : stakes'[s].wallet <= Len(wallets')
  BY <1>1, <1>2, <1>3, HeldTypes DEF WalletTypes, Stake
<1>6. WalletTypes'
  BY <1>1, <1>3, <1>4, <1>5 DEF WalletTypes
<1>7. SumFunction(balance') = SumFunction(balance)
  <2>1. SumFunction(balance') = SumFunction(balance) + 0
    BY <1>1, SumOfAppended DEF WalletTypes
  <2> QED
    BY <1>1, <2>1, HeldTypes
<1> QED
  BY <1>1, <1>2, <1>6, <1>7 DEF StakingInv, TokensConserved, Held

LEMMA DistributeRewardInv ==
  ASSUME StakingInv, NEW w \in DOMAIN wallets, NEW amount \in Amounts,
         DistributeReward(w, amount)
  PROVE  StakingInv'
<1>1. /\ WalletTypes /\ amount \in Nat /\ balance[w] \in Nat
      /\ rewards' = Append(rewards, amount)
      /\ balance' = [balance EXCEPT ![w] = @ + amount]
      /\ wallets' = wallets /\ stakes' = stakes
  BY StakingAssumption DEF StakingInv, WalletTypes, DistributeReward
<1>2. Deposited' = Deposited /\ Held' = Held
  BY <1>1 DEF Deposited, Held, AccountsFor
<1>3. /\ balance' \in Seq(Nat) /\ Len(balance') = Len(balance)
      /\ SumFunction(balance') + balance[w] = SumFunction(balance) + (balance[w] + amount)
      /\ SumFunction(balance') \in Nat
  <2>1. PICK v \in Nat : v = balance[w] + amount
    BY <1>1
  <2>2. balance' = [balance EXCEPT ![w] = v]
    BY <1>1, <2>1
  <2> QED
    BY <1>1, <2>1, <2>2, BalanceChanged
<1>4. rewards' \in Seq(Amounts) /\ rewards' \in Seq(Nat)
  BY <1>1 DEF WalletTypes
<1>5. WalletTypes'
  BY <1>1, <1>2, <1>3, <1>4 DEF WalletTypes
<1>6. SumFunction(rewards') = SumFunction(rewards) + amount
  BY <1>1, SumOfAppended DEF WalletTypes
<1>7. SumFunction(rewards) = SumFunction(balance) + SumFunction(Held)
  BY DEF StakingInv, TokensConserved, Held
<1>8. SumFunction(rewards') = SumFunction(balance') + SumFunction(Held')
  <2>1. SumFunction(Held') = SumFunction(Held) /\ SumFunction(Held) \in Nat
    BY <1>1, <1>2, HeldTypes
  <2>2. SumFunction(balance) \in Nat
    BY <1>1, HeldTypes
  <2>3. SumFunction(balance') = SumFunction(balance) + amount
    <3>1. SumFunction(balance') \in Nat /\ balance[w] \in Nat /\ amount \in Nat
      BY <1>1, <1>3
    <3> QED
      BY <1>3, <2>2, <3>1
  <2>4. amount \in Nat
    BY <1>1
  <2> QED
    BY <1>6, <1>7, <2>1, <2>2, <2>3, <2>4
<1> QED
  BY <1>5, <1>8 DEF StakingInv, TokensConserved, Held

LEMMA DepositStakeInv ==
  ASSUME StakingInv, NEW m \in Miners, NEW amount \in Amounts, DepositStake(m, amount)
  PROVE  StakingInv'
<1> DEFINE stakeOf(w) ==
      [wallet |-> w, amount |-> amount, status |-> "active", expired |-> FALSE, slashed |-> 0]
<1>1. PICK w \in GetWallet(m), s \in Stakes \ Deposited :
        /\ balance[w] >= amount
        /\ balance' = [balance EXCEPT ![w] = @ - amount]
        /\ stakes' = [stakes EXCEPT ![s] = stakeOf(w)]
  BY DEF DepositStake
<1>2. WalletTypes /\ wallets' = wallets /\ rewards' = rewards /\ amount \in Nat
  BY StakingAssumption DEF StakingInv, DepositStake
<1>3. w \in DOMAIN wallets
  BY DEF GetWallet
<1>4. w \in 1..Len(wallets) /\ balance[w] \in Nat /\ w \in 1..MaxWallets
  BY <1>2, <1>3, StakingAssumption DEF WalletTypes
<1> DEFINE new == stakeOf(w)
<1>5. /\ new \in Stake /\ new.wallet = w /\ new # NoStake
      /\ AccountsFor(new) = amount
  <2>1. new \in Stake /\ new.wallet = w
    BY <1>2, <1>4 DEF Stake
  <2>2. new # NoStake
    BY <2>1, StakingAssumption
  <2>3. new.status = "active" /\ new.amount = amount /\ new.slashed = 0
    OBVIOUS
  <2> HIDE DEF new
  <2>4. AccountsFor(new) = amount + 0
    BY <2>3 DEF AccountsFor
  <2> QED
    BY <1>2, <2>1, <2>2, <2>4
<1> HIDE DEF new, stakeOf
<1>6. /\ stakes' = [stakes EXCEPT ![s] = new]
      /\ s \in Stakes /\ s \notin Deposited
  BY <1>1 DEF new
<1>7. /\ stakes' \in [Stakes -> Stake \cup {NoStake}] /\ stakes'[s] = new
      /\ \A t \in Stakes \ {s} : stakes'[t] = stakes[t]
  BY <1>2, <1>5, <1>6 DEF WalletTypes
<1>8. Deposited' = Deposited \cup {s}
  BY <1>5, <1>6, <1>7 DEF Deposited
<1>9. \A t \in Deposited : stakes'[t] = stakes[t]
  BY <1>6, <1>7 DEF Deposited
<1>10. SumFunction(Held') = SumFunction(Held) + amount
  <2>1. Held' = [t \in Deposited \cup {s} |-> AccountsFor(stakes'[t])]
    BY <1>8 DEF Held, AccountsFor
  <2>2. /\ DOMAIN Held = Deposited /\ DOMAIN Held' = Deposited \cup {s}
        /\ \A t \in Deposited : Held'[t] = Held[t]
        /\ Held'[s] = amount
    BY <1>5, <1>7, <1>9, <2>1 DEF Held
  <2>3. \A t \in Deposited \cup {s} : Held'[t] \in Nat
    BY <1>2, <2>2, HeldTypes
  <2>4. IsFiniteSet(Deposited)
    BY <1>2, HeldTypes
  <2>5. SumFunction(Held') = SumFunction(Held) + Held'[s]
    <3>1. SumFunctionOnSet(Held', Deposited \cup {s}) =
            SumFunctionOnSet(Held', Deposited) + Held'[s]
      BY <1>6, <2>3, <2>4, SumWith
    <3>2. SumFunctionOnSet(Held', Deposited) = SumFunctionOnSet(Held, Deposited)
      BY <2>2, <2>4, SumSame
    <3> QED
      BY <2>2, <3>1, <3>2 DEF SumFunction
  <2> QED
    BY <2>2, <2>5
<1>11. /\ balance' \in Seq(Nat) /\ Len(balance') = Len(balance)
       /\ SumFunction(balance') + balance[w] = SumFunction(balance) + (balance[w] - amount)
       /\ SumFunction(balance') \in Nat
  <2>1. PICK v \in Nat : v = balance[w] - amount
    BY <1>1, <1>2, <1>4
  <2>2. balance' = [balance EXCEPT ![w] = v]
    BY <1>1, <2>1
  <2> QED
    BY <1>2, <1>3, <2>1, <2>2, BalanceChanged
<1>12. WalletTypes'
  <2>1. \A t \in Deposited' : stakes'[t].wallet <= Len(wallets')
    BY <1>2, <1>4, <1>5, <1>7, <1>8, <1>9 DEF WalletTypes
  <2> QED
    BY <1>2, <1>7, <1>11, <2>1 DEF WalletTypes
<1>13. SumFunction(rewards) = SumFunction(balance) + SumFunction(Held)
  BY DEF StakingInv, TokensConserved, Held
<1>14. SumFunction(rewards') = SumFunction(balance') + SumFunction(Held')
  <2>1. SumFunction(Held) \in Nat /\ SumFunction(balance) \in Nat
    BY <1>2, HeldTypes
  <2>2. SumFunction(balance') = SumFunction(balance) - amount
    <3>1. SumFunction(balance') \in Nat /\ balance[w] \in Nat /\ amount \in Nat
      BY <1>2, <1>4, <1>11
    <3> QED
      BY <1>11, <2>1, <3>1
  <2>3. rewards' = rewards /\ amount \in Nat
    BY <1>2
  <2> QED
    BY <1>10, <1>13, <2>1, <2>2, <2>3
<1> QED
  BY <1>12, <1>14 DEF StakingInv, TokensConserved, Held

\* A step on a deposited stake: what it adds to the balances the stake no longer
\* accounts for.
LEMMA OnStake ==
  ASSUME StakingInv, NEW s \in Deposited, NEW new \in Stake, new.wallet = stakes[s].wallet,
         stakes' = [stakes EXCEPT ![s] = new], wallets' = wallets, rewards' = rewards,
         balance' \in Seq(Nat), Len(balance') = Len(balance), SumFunction(balance') \in Nat,
         SumFunction(balance') + AccountsFor(new) = SumFunction(balance) + AccountsFor(stakes[s])
  PROVE  StakingInv'
<1>1. WalletTypes
  BY DEF StakingInv
<1>2. /\ stakes' \in [Stakes -> Stake \cup {NoStake}] /\ Deposited' = Deposited
      /\ \A t \in Deposited' : stakes'[t].wallet = stakes[t].wallet
      /\ SumFunction(Held') + AccountsFor(stakes[s]) = SumFunction(Held) + AccountsFor(new)
  BY <1>1, StakeChanged
<1>3. WalletTypes'
  BY <1>1, <1>2 DEF WalletTypes
<1>4. SumFunction(Held') \in Nat
  <2>1. (WalletTypes => SumFunction(Held) \in Nat)'
    BY HeldIsNat, PTL
  <2> QED
    BY <1>3, <2>1
<1>5. /\ SumFunction(Held) \in Nat /\ SumFunction(balance) \in Nat
      /\ AccountsFor(new) \in Nat /\ AccountsFor(stakes[s]) \in Nat
  BY <1>1, HeldTypes, AccountsForNat
<1>6. SumFunction(rewards) = SumFunction(balance) + SumFunction(Held)
  BY DEF StakingInv, TokensConserved, Held
<1>7. SumFunction(rewards') = SumFunction(balance') + SumFunction(Held')
  <2>1. PICK b \in Nat, h \in Nat, x \in Nat, y \in Nat :
          /\ b = SumFunction(balance) /\ h = SumFunction(Held)
          /\ x = AccountsFor(stakes[s]) /\ y = AccountsFor(new)
    BY <1>5
  <2>2. PICK b2 \in Nat, h2 \in Nat : b2 = SumFunction(balance') /\ h2 = SumFunction(Held')
    BY <1>4
  <2>3. b2 + y = b + x /\ h2 + x = h + y
    BY <1>2, <2>1, <2>2
  <2>4. b2 + h2 = b + h
    BY <2>3
  <2> QED
    BY <1>6, <2>1, <2>2, <2>4
<1> QED
  BY <1>3, <1>7 DEF StakingInv, TokensConserved, Held

LEMMA LockExpiresInv ==
  ASSUME StakingInv, NEW s \in Stakes, LockExpires(s)
  PROVE  StakingInv'
<1> DEFINE new == [stakes[s] EXCEPT !.expired = TRUE]
<1>1. WalletTypes /\ s \in Deposited
  BY DEF StakingInv, LockExpires
<1>2. stakes[s] \in Stake
  BY <1>1, HeldTypes
<1>3. new \in Stake
  BY <1>2 DEF Stake
<1>4. new.wallet = stakes[s].wallet /\ AccountsFor(new) = AccountsFor(stakes[s])
  BY <1>2 DEF Stake, AccountsFor
<1>5. stakes' = [stakes EXCEPT ![s] = new]
  BY DEF LockExpires
<1>6. UNCHANGED <<wallets, balance, rewards>>
  BY DEF LockExpires
<1> HIDE DEF new
<1>7. balance' \in Seq(Nat) /\ SumFunction(balance') \in Nat
  BY <1>1, <1>6, HeldTypes DEF WalletTypes
<1>8. SumFunction(balance') + AccountsFor(new) = SumFunction(balance) + AccountsFor(stakes[s])
  BY <1>4, <1>6
<1> QED
  BY <1>1, <1>3, <1>4, <1>5, <1>6, <1>7, <1>8, OnStake

LEMMA WithdrawStakeInv ==
  ASSUME StakingInv, NEW s \in Stakes, WithdrawStake(s)
  PROVE  StakingInv'
<1> DEFINE old == stakes[s]
           new == [old EXCEPT !.status = "withdrawn"]
<1>1. WalletTypes /\ s \in Deposited /\ old.status = "active"
  BY DEF StakingInv, WithdrawStake, Withdrawable
<1>2. old \in Stake
  BY <1>1, HeldTypes
<1>3. new \in Stake
  BY <1>2 DEF Stake
<1>4. /\ new.wallet = old.wallet
      /\ AccountsFor(old) = old.amount + old.slashed /\ AccountsFor(new) = old.slashed
      /\ old.amount \in Nat /\ old.slashed \in Nat /\ old.wallet \in Nat \ {0}
  BY <1>1, <1>2 DEF Stake, AccountsFor
<1>5. /\ stakes' = [stakes EXCEPT ![s] = new] /\ wallets' = wallets /\ rewards' = rewards
      /\ balance' = [balance EXCEPT ![old.wallet] = @ + old.amount]
  BY DEF WithdrawStake
<1>6. PICK w \in DOMAIN wallets : w = old.wallet /\ balance[w] \in Nat
  <2>1. old.wallet <= Len(wallets) /\ Len(wallets) \in Nat
    BY <1>1 DEF WalletTypes
  <2>2. old.wallet \in 1..Len(wallets)
    BY <1>4, <2>1
  <2> QED
    BY <1>1, <2>2 DEF WalletTypes
<1> HIDE DEF old, new
<1>7. /\ balance' \in Seq(Nat) /\ Len(balance') = Len(balance)
      /\ SumFunction(balance') + balance[w] = SumFunction(balance) + (balance[w] + old.amount)
      /\ SumFunction(balance') \in Nat
  <2>1. PICK v \in Nat : v = balance[w] + old.amount
    BY <1>4, <1>6
  <2>2. balance' = [balance EXCEPT ![w] = v]
    BY <1>5, <1>6, <2>1
  <2> QED
    BY <1>1, <2>1, <2>2, BalanceChanged
<1>8. SumFunction(balance') + AccountsFor(new) = SumFunction(balance) + AccountsFor(old)
  <2>1. SumFunction(balance) \in Nat /\ SumFunction(balance') \in Nat /\ balance[w] \in Nat
    BY <1>1, <1>6, <1>7, HeldTypes
  <2>2. SumFunction(balance') = SumFunction(balance) + old.amount
    <3>1. PICK b \in Nat, b2 \in Nat, x \in Nat, a \in Nat :
            /\ b = SumFunction(balance) /\ b2 = SumFunction(balance')
            /\ x = balance[w] /\ a = old.amount
      BY <1>4, <2>1
    <3>2. b2 + x = b + (x + a)
      BY <1>7, <3>1
    <3>3. b2 = b + a
      BY <3>2
    <3> QED
      BY <3>1, <3>3
  <2> QED
    BY <1>4, <2>1, <2>2
<1>9. new.wallet = stakes[s].wallet /\ AccountsFor(old) = AccountsFor(stakes[s])
  BY <1>4 DEF old
<1> QED
  BY <1>1, <1>3, <1>5, <1>7, <1>8, <1>9, OnStake

LEMMA SlashStakeInv ==
  ASSUME StakingInv, NEW s \in Stakes, NEW percent \in Percents, SlashStake(s, percent)
  PROVE  StakingInv'
<1> DEFINE old == stakes[s]
           taken == (old.amount * percent) \div 100
           new == [old EXCEPT !.amount = @ - taken, !.slashed = @ + taken, !.status = "slashed"]
<1>1. WalletTypes /\ s \in Deposited /\ old.status = "active"
  BY DEF StakingInv, SlashStake
<1>2. old \in Stake /\ old.amount \in Nat /\ old.slashed \in Nat
  BY <1>1, HeldTypes DEF Stake
<1>3. taken \in Nat /\ taken <= old.amount
  <2>1. PICK a \in Nat, p \in 0..100 : a = old.amount /\ p = percent
    BY <1>2, StakingAssumption
  <2>2. a * p \in Nat /\ a * p <= a * 100
    BY <2>1
  <2>3. (a * p) \div 100 \in Nat /\ (a * p) \div 100 <= a
    BY <2>2
  <2> QED
    BY <2>1, <2>3
<1>4. UNCHANGED <<wallets, balance, rewards>>
  BY DEF SlashStake
<1>5. stakes' = [stakes EXCEPT ![s] = new]
  BY <1>1, <1>2 DEF SlashStake
<1> HIDE DEF taken
<1>6. new \in Stake
  <2>1. old.amount - taken \in Nat /\ old.slashed + taken \in Nat
    BY <1>2, <1>3
  <2> HIDE DEF old
  <2> QED
    BY <1>2, <2>1 DEF Stake
<1>7. new.wallet = old.wallet /\ AccountsFor(new) = AccountsFor(old)
  BY <1>1, <1>2, <1>3 DEF Stake, AccountsFor
<1> HIDE DEF new
<1>8. balance' \in Seq(Nat) /\ SumFunction(balance') \in Nat
  BY <1>1, <1>4, HeldTypes DEF WalletTypes
<1>9. SumFunction(balance') + AccountsFor(new) = SumFunction(balance) + AccountsFor(stakes[s])
  BY <1>4, <1>7
<1> QED
  BY <1>1, <1>4, <1>5, <1>6, <1>7, <1>8, <1>9, OnStake

LEMMA StakingStepInv == StakingInv /\ [StakingNext]_walletVars => StakingInv'
<1> SUFFICES ASSUME StakingInv, [StakingNext]_walletVars PROVE StakingInv'
  OBVIOUS
<1>1. CASE UNCHANGED walletVars
  BY <1>1 DEF walletVars, StakingInv, WalletTypes, TokensConserved, Deposited, AccountsFor
<1> QED
  BY <1>1, CreateWalletInv, DistributeRewardInv, DepositStakeInv, LockExpiresInv,
     WithdrawStakeInv, SlashStakeInv DEF StakingNext

LEMMA StakingInvariant == DetachedSpec => []StakingInv
<1>1. DetachedInit => StakingInv
  BY StakingInitInv DEF DetachedInit
<1>2. StakingInv /\ [DetachedNext]_detachedVars => StakingInv'
  <2>1. [DetachedNext]_detachedVars => [StakingNext]_walletVars
    BY DEF DetachedNext, detachedVars
  <2> QED
    BY <2>1, StakingStepInv
<1> QED
  BY <1>1, <1>2, PTL DEF DetachedSpec

\* deposit_stake, withdraw_stake, slash_stake and distribute_reward: whatever is
\* deposited, withdrawn and slashed in whatever order, by miners with any number of
\* wallets, every token rewarded is in a balance, in a stake, or slashed.
THEOREM NoTokenMadeOrLost == DetachedSpec => []TokensConserved
<1>1. StakingInv => TokensConserved
  BY DEF StakingInv
<1> QED
  BY <1>1, StakingInvariant, PTL

LEMMA StakingInvTypes == StakingInv => StakingTypeOK
<1> SUFFICES ASSUME StakingInv PROVE StakingTypeOK
  OBVIOUS
<1>1. balance \in [DOMAIN wallets -> Nat]
  BY DEF StakingInv, WalletTypes
<1> QED
  BY <1>1 DEF StakingInv, WalletTypes, StakingTypeOK
-----------------------------------------------------------------------------
(* Types *)

LEMMA SlashingInvTypes == SlashingInv => SlashingTypeOK
<1> SUFFICES ASSUME SlashingInv PROVE SlashingTypeOK
  OBVIOUS
<1>1. ASSUME NEW m \in Miners
      PROVE  reputation[m] \subseteq Reputation /\ Cardinality(reputation[m]) <= 1
  <2>1. CASE HasReputation(m)
    <3>1. PICK r \in Reputation : reputation[m] = {r}
      BY <2>1 DEF SlashingInv
    <3>2. Cardinality({r}) = 1
      BY FS_Singleton
    <3> QED
      BY <3>1, <3>2
  <2>2. CASE ~HasReputation(m)
    BY <2>2, FS_EmptySet DEF HasReputation
  <2> QED
    BY <2>1, <2>2
<1>2. reputation \in [Miners -> SUBSET Reputation]
  BY <1>1 DEF SlashingInv
<1> QED
  BY <1>1, <1>2 DEF SlashingInv, SlashingTypeOK, Reputation, Violation

DetachedInv ==
  /\ part \in Parts
  /\ TypeInv
  /\ PeersInv /\ PeerFields
  /\ TransferInv
  /\ SlashingInv
  /\ StakingInv

LEMMA DetachedInvTypes == DetachedInv => DetachedTypeOK
<1> SUFFICES ASSUME DetachedInv PROVE DetachedTypeOK
  OBVIOUS
<1>1. TypeOK /\ PeersTypeOK /\ TransferTypeOK /\ SlashingTypeOK /\ StakingTypeOK
  BY TypeInvTypes, PeersInvTypes, TransferInvTypes, SlashingInvTypes, StakingInvTypes
     DEF DetachedInv
<1> QED
  BY <1>1 DEF DetachedInv, Parts, DetachedTypeOK

\* The five parts keep their types: pipelines, peers, transfers, violations and
\* reputations, wallets and stakes.
THEOREM DetachedTypes == DetachedSpec => []DetachedTypeOK
<1>1. DetachedInit => DetachedInv
  <2>1. DetachedInit => PeerFields
    BY DEF DetachedInit, PeersInit, PeerFields
  <2> QED
    BY <2>1, TypeInvInit, PeersInitInv, TransferInitInv, SlashingInitInv, StakingInitInv
       DEF DetachedInit, DetachedInv
<1>2. DetachedInv /\ [DetachedNext]_detachedVars => DetachedInv'
  <2> SUFFICES ASSUME DetachedInv, [DetachedNext]_detachedVars PROVE DetachedInv'
    OBVIOUS
  <2>1. /\ UNCHANGED part
        /\ [Next]_pipelineVars
        /\ [PeersNext]_peerVars
        /\ [TransferNext]_transferVars
        /\ [SlashingNext]_slashingVars
        /\ [StakingNext]_walletVars
    BY DEF DetachedNext, detachedVars
  <2>2. TypeInv' /\ PeersInv' /\ PeerFields' /\ TransferInv' /\ SlashingInv' /\ StakingInv'
    BY <2>1, TypeStep, PeersStepInv, PeerFieldsStep, TransferStepInv, SlashingStepInv,
       StakingStepInv DEF DetachedInv
  <2> QED
    BY <2>1, <2>2 DEF DetachedInv
<1> QED
  BY <1>1, <1>2, DetachedInvTypes, PTL DEF DetachedSpec

\* What is proved of pipelines by themselves holds next to the other parts.
THEOREM PipelinesAreAPart == DetachedSpec => Spec
<1>1. DetachedInit => Init
  BY DEF DetachedInit
<1>2. [DetachedNext]_detachedVars => [Next]_pipelineVars
  BY DEF DetachedNext, detachedVars
<1> QED
  BY <1>1, <1>2, PTL DEF DetachedSpec, Spec
=============================================================================
