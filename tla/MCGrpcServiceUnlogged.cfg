SPECIFICATION Spec
CONSTANTS
  None = None
  Requests = {r1, r2}
  Configs <- MCLogged
  SlowThreshold = 1
  MaxTicks = 2
  LastDay = 1
  MaxFaults = 0
CHECK_DEADLOCK FALSE
INVARIANT FailuresAreLogged
