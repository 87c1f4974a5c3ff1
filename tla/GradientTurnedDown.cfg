CONSTANTS
  Miners = {m1, m2}
  NoMiner = NoMiner
  MaxTasks = 1
  Batch = 1
  MaxStale = 1
  MaxTrust = 1
  MaxGradients = 3
SYMMETRY MinerSymmetry
SPECIFICATION Spec
INVARIANT
  TurnedDownIsNotMerged
