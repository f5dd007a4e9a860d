SPECIFICATION GateFairSpec
CONSTANTS
  Caller = {c1, c2, c3}
  Reader = {c2, c3}
  MaxFailures = 3
INVARIANTS
  ClosedIffBelowThreshold
  TrialOnlyAfterWait
PROPERTY
  Recovers
