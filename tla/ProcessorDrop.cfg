SPECIFICATION Spec
CONSTANTS
  Caller = {c1, c2}
  NumSignals = 2
  QueueSize = 1
  BatchSize = 2
  DropOnFull = TRUE
  MaxPush = 2
  MaxRecords = 3
SYMMETRY Symmetry
CHECK_DEADLOCK FALSE
INVARIANTS
  FIFO
  DrainedAtQuit
  Accounted
  FanOutOnce
