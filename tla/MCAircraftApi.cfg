SPECIFICATION MCSpec
CONSTANTS
  Threads = {t1, t2}
  Keys = {k1, k2, k3, k4, k5}
  Ttl = 1
  FallbackMaxAge = 3
  MaxEntries = 1
  ClearEnabled = FALSE
  MaxTime = 3
  MaxCalls = 5
  MaxRequests = 4
  Predicted = 1
  MaxPositionAge = 2
  MaxSeen = 2
  None = None
SYMMETRY Symmetry
INVARIANTS
  SingleFlight
  WaiterHasLoader
  HitIsFresh
  LastGoodNotRenewed
  UnavailableOnlyWithoutFallback
  EntriesBounded
  RepliesNeverGoBack
PROPERTIES
  ImplementsSharedLoad
CHECK_DEADLOCK FALSE
