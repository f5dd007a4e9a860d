SPECIFICATION Spec
CONSTANTS
  TicksPerDay = 2
  Offset <- West
  RetentionDays = 1
  Start = 6
  Ages <- SomeAges
  MaxTime = 9
  MaxBatches = 1
  MaxOpens = 2
  MaxFaults = 1
CHECK_DEADLOCK FALSE
INVARIANTS
  KeptForRetention
  
  FailuresExplained
  OldFilesGo
