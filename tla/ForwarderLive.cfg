SPECIFICATION FairSpec
CONSTANTS
  NumSignals = 2
  NumEndpoints = 1
  SignalTypes <- AllSignals
  DLQEnabled <- LastDLQ
  QueueCap = 1
  MaxFailures = 2
  Poison = {1}
  MaxBatches = 2
  MaxFaults = 0
CHECK_DEADLOCK FALSE
PROPERTIES
  Drains
  StopReturns
