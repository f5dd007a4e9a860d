SPECIFICATION Spec
CONSTANTS
  NumSignals = 2
  NumEndpoints = 2
  SignalTypes <- FirstSkipsTheLast
  DLQEnabled <- LastDLQ
  QueueCap = 1
  MaxFailures = 1
  Poison = {2}
  MaxBatches = 2
  MaxFaults = 1
CHECK_DEADLOCK FALSE
INVARIANTS
  AtLeastOnce
  DuplicatesExplained
