SPECIFICATION MCSpec
CONSTANTS
  Threads = {t1, t2}
  Keys = {k1}
  Ttl = 1
  FallbackMaxAge = 3
  MaxEntries = 1
  ClearEnabled = FALSE
  MaxTime = 2
  MaxCalls = 2
  MaxRequests = 2
  Predicted = 1
  MaxPositionAge = 2
  MaxSeen = 1
  None = None
INVARIANTS
  RecentNotDropped
