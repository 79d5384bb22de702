SPECIFICATION MCSpec
CONSTANTS
  active = active
  visual = visual
  r1 = r1
  r2 = r2
  k1 = k1
  k2 = k2
  k3 = k3
  k4 = k4
  None = None
  Threads = {r1, r2}
  Keys = {k1, k2}
  Stripes = {1}
  StripeOf <- OneStripe
  Groups = {active, visual}
  Requested <- WithDetailAndWithout
  HostedMerge <- Hosted
  GroupStripe <- OwnStripes
  Workers = 2
  MaxParsed = 1
  MaxAge = 0
  MaxRounds = 3
  Ttl = 2
  FallbackTtl = 1
  DiskMaxAge = 0
  MaxEntries = 1
  MaxFiles = 1
  Astronomers = {r1, r2}
  BurstKeys = {k1, k2, k3, k4}
  BurstOf <- ThreeAndOne
  BurstTtl = 1
  BurstEntries = 2
  BurstTime = 1
  MaxRequests = 5
  MaxCalls = 3
  MaxTime = 2
INVARIANTS
  AnswerIsExact
  NoRepeatedWork
  SingleDownload
  UnmarkedNeverGoesBack
  WeatherCachesSound
PROPERTIES
  AnswersNeverGoBack
  ImplementsSharedLoad
  EveryRequestEnds
CHECK_DEADLOCK FALSE
