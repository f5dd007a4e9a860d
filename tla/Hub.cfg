SPECIFICATION FairSpec
CONSTANTS
  Client = {c1, c2}
  Caster = {b1, b2}
  MaxClients = 1
  SendBuf = 1
  MaxCasts = 3
CHECK_DEADLOCK FALSE
INVARIANT
  NoPanic
PROPERTIES
  Removed
  WindsDown
