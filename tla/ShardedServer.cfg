CONSTANTS
  NumShards = 3
  NumLayers = 4
  Miners = {m1}
  Embed = Embed
  LmHead = LmHead
  AnyNorm = AnyNorm
  Payloads = {{}, {0, 1}}
  MaxStaleness = 1
  MaxLocal = 1
  MaxPending = 1
  MaxRounds = 3
CHECK_DEADLOCK FALSE
SPECIFICATION Spec
INVARIANTS
  TypeOK
  OneRoundPerStep
PROPERTIES
  ImplementsBarrier
  LockoutIsFinal
