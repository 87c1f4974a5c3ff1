\* The values of the code: a row is given up after 5 failed startups.
CONSTANTS
  Hashes = {h1}
  Jobs = {j1}
  Retrier = Retrier
  NoHash = NoHash
  MaxAttempts = 5
SPECIFICATION Spec
INVARIANTS
  SavedCreditIsRetried
