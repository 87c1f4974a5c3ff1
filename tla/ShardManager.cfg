CONSTANTS
  Miners = {m1, m2, m3, m4}
  NoMiner = NoMiner
  Nowhere = Nowhere
  MaxGroups = 2
  MaxStages = 3
  StageCounts = {2, 3}
SYMMETRY MinerSymmetry
SPECIFICATION Spec
INVARIANTS
  GroupInv
  Agreement
  StatusMatchesStages
  LinksAreNeighbours
PROPERTIES
  NoSilentEviction
