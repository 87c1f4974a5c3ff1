CONSTANTS
  Hashes = {h1, h2}
  Jobs = {j1, j2}
  Retrier = Retrier
  NoHash = NoHash
  MaxAttempts = 2
SPECIFICATION Spec
INVARIANTS
  IInv
  SentImpliesPaid
  ToldImpliesPaid
PROPERTIES
  SentIsFinal
  ImplementsLedger
