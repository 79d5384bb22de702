SPECIFICATION Spec
CONSTANTS
  Threads = {t1}
  Keys = {k1}
  Ttl = 1
  FallbackMaxAge = 2
  MaxEntries = 1
  ClearEnabled = FALSE
  MaxTime = 4
  MaxCalls = 3
  None = None
INVARIANTS
  FallbackWithinWindow
