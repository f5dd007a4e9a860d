SPECIFICATION Spec
CONSTANTS
  NumSignals = 1
  NumEndpoints = 1
  SignalTypes <- AllSignals
  DLQEnabled <- LastDLQ
  QueueCap = 1
  MaxFailures = 2
  Poison = {}
  MaxBatches = 2
  MaxFaults = 0
CHECK_DEADLOCK FALSE
INVARIANT
  DLQPreventsLoss
