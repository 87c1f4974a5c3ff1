CONSTANTS
  Miners = {m1, m2, m3}
  NoMiner = NoMiner
  Nowhere = Nowhere
  Conns = {c1, c2, c3}
  NoConn = NoConn
  MaxGroups = 1
  MaxStages = 3
  StageCounts = {2, 3}
SYMMETRY FleetSymmetry
SPECIFICATION FleetSpec
INVARIANTS
  FleetTypeOK
  DepartureIsHeeded
  EntriesAreOpen
