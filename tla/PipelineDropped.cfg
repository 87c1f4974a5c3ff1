CONSTANTS
  StageCounts = {2}
  Strategies = {"gpipe", "1f1b"}
  Executions = {e1}
  None = None
  MaxMicrobatches = 2
  MaxGlobalStep = 1
CHECK_DEADLOCK FALSE
SPECIFICATION Spec
PROPERTIES
  HeldBackIsTriggered
