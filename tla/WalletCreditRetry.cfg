CONSTANTS
  Hashes = {h1, h2}
  Jobs = {j1}
  Retrier = Retrier
  NoHash = NoHash
  MaxAttempts = 2
SPECIFICATION FairSpec
PROPERTIES
  RetrySettles
