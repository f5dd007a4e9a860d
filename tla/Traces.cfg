SPECIFICATION Spec
CONSTANTS
  Filter = {"all", "service"}
  Matches <- MCMatches
  DurationOf <- MCDurationOf
  StatusOf <- MCStatusOf
  PAGE_SIZE = 2
  CAP = 3
  MaxTraces = 4
  MaxPushes = 1
  MaxFlights = 2
  MaxRows = 4
CHECK_DEADLOCK FALSE
INVARIANTS
  PagesExact
  MergeExact
  FlagsSound
  SortedView
PROPERTIES
  ScrollEnds
