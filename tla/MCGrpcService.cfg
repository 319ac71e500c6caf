SPECIFICATION FairSpec
CONSTANTS
  None = None
  Requests = {r1, r2}
  Configs <- MCConfigs
  SlowThreshold = 1
  MaxTicks = 1
  LastDay = 2
  MaxFaults = 1
ACTION_CONSTRAINT OneThingAtATime
CHECK_DEADLOCK FALSE
INVARIANTS
  TypeOK
  IdsAreUnique
  LogTellsOutcome
  FiledUnderItsDay
PROPERTIES
  TimeoutEndsRequest
  FinishedDaysAreClosed
