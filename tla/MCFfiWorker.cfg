SPECIFICATION FairSpec
CONSTANTS
  c1 = c1
  c2 = c2
  c3 = c3
  t1 = t1
  t2 = t2
  t3 = t3
  None = None
  Callers = {c1, c2, c3}
  Threads = {t1, t2, t3}
  Home <- MCHome
  Locked = TRUE
  Runtimes = {r1}
  Engines = {e1, e2}
  MaxCalls = 4
CHECK_DEADLOCK FALSE
INVARIANTS
  TypeOK
  OneWorker
  LastErrorIsLatest
  ErrorReadIsOwn
  EngineInUse
  NoEngineLeaked
PROPERTIES
  PanicIsIsolated
  EveryCallReturns
