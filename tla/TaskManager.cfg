CONSTANTS
  Miners = {m1, m2}
  NoMiner = NoMiner
  MaxTasks = 3
  Batch = 2
SPECIFICATION FairTaskSpec
INVARIANTS
  QueueHoldsPending
PROPERTIES
  SubmittedWorkStands
  FirstComeFirstServed
  PendingIsServed
