CONSTANTS
  StageCounts = {1, 2, 3, 4}
  Strategies = {"gpipe", "1f1b", "auto"}
  Executions = {e1}
  None = None
  MaxMicrobatches = 4
  MaxGlobalStep = 2
  m1 = m1
  m2 = m2
  m3 = m3
  Miners = {m1, m2, m3}
  Groups = {g1, g2}
  Assignments <- Chains
  MaxConns = 3
  MaxSignals = 1
  Transfers = {t1}
  MessageSize = 2
  Sizes = {2, 3, 5}
  MaxHeaders = 2
  Violations = {v1, v2}
  NoRecord = NoRecord
  MaxPenalties = 6
  MaxHours = 6
  Stakes = {s1, s2}
  NoStake = NoStake
  MinStake = 1000
  Amounts = {1000, 2000}
  Percents = {10}
  MaxWallets = 2
  MaxRewards = 2
CHECK_DEADLOCK FALSE
SYMMETRY Symmetry
SPECIFICATION DetachedSpec
INVARIANTS
  DetachedTypeOK
  NoForwardBeforeUpstream
  PeakActivations
  StallsOnlyWhenHeldBack
  ArrivesAsAnnounced
  PeersFollowConnections
  NeighboursAreLinked
  TokensConserved
  CollateralFollowsScore
