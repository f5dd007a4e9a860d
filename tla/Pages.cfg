SPECIFICATION DetailSpec
CONSTANTS
  k1 = k1
  k2 = k2
  Key <- MCKey
  Content <- MCContent
  Waterfalls <- MCWaterfalls
  Slow = 2
  MaxVersion = 2
  MaxFlights = 2
  MaxBuffer = 1
  None = None
CHECK_DEADLOCK FALSE
INVARIANTS
  StaleExplained
  PanelsExplained
  RowsComplete
  BarsExact
  SelectionBelongs
PROPERTIES
  FreshInTheEnd
