SPECIFICATION MCSpec
CONSTANTS
  Threads = {t1, t2}
  Permits = 1
  MinInterval = 2
  RetryDelay = 1
  PrimaryAttempts = 2
  SecondaryAttempts = 1
  MaxTime = 6
  MaxCalls = 3
  None = None
  Callers = {c1, c2, c3}
  key1 = key1
  CacheCalls = 4
INVARIANTS
  GateConserved
PROPERTIES
  SlotsSpaced
  EveryFetchEnds
  EveryCallReturns
CHECK_DEADLOCK FALSE
