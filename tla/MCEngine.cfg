SPECIFICATION FairSpec
CONSTANTS
  r1 = r1
  r2 = r2
  r3 = r3
  docs = docs
  docsPadded = docsPadded
  blank = blank
  k1 = k1
  k2 = k2
  s1 = s1
  s2 = s2
  None = None
  Names <- MCNames
  Trim <- MCTrim
  Blank = blank
  Keys = {k1, k2}
  Schemas = {s1, s2}
  InitialDbs <- MCDbs
  Inputs <- MCInputs
  Requests = {r1, r2, r3}
  Engines = {e1}
  MaxConcurrentRequests = 1
  LockIds = {1}
ACTION_CONSTRAINT Mixed
CHECK_DEADLOCK FALSE
INVARIANTS
  TypeOK
  GuardScope
  HandleIsCurrent
PROPERTIES
  Linearizable
  EveryRequestAnswered
  AnsweredIsSettled
