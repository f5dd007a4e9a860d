SPECIFICATION FairSpec
CONSTANTS
  Caller = {c1}
  NumSignals = 2
  QueueSize = 1
  BatchSize = 2
  DropOnFull = FALSE
  MaxPush = 2
  MaxRecords = 2
CHECK_DEADLOCK FALSE
INVARIANT
  AckedIsAccepted
PROPERTIES
  EventuallyHanded
  EventuallyFanned
  StopReturns
  PushReturns
