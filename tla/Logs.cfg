SPECIFICATION Spec
CONSTANTS
  Service = {"", "a"}
  Body = {""}
  Trace = {"", "t"}
  Log <- MCLog
  CAP = 2
  PAUSE_CAP = 1
  LIMIT = 1
  MaxActs = 2
  MaxFlights = 2
  MaxWire = 3
  None = None
CHECK_DEADLOCK FALSE
INVARIANTS
  StreamSound
PROPERTIES
  PollingConverges
