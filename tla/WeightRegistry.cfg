CONSTANTS
  Miners = {m1, m2, m3}
  Shards = {k1}
  h1 = h1
  Hashes = {h1, NoHash}
  NoHash = NoHash
  Locations = {l1, l2}
  None = None
  MinReplicas = 2
  TargetReplicas = 3
  Updates <- Streams
  MaxWrites = 2
  MaxStep = 1
  MaxSnapshots = 1
SYMMETRY RegistrySymmetry
SPECIFICATION Spec
INVARIANTS
  TypeOK
  RowsFollowMemory
  PlanReachesTarget
PROPERTIES
  NoSingleLoss
