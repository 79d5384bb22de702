SPECIFICATION Spec
CONSTANTS
  Threads = {t1, t2}
  Keys = {"k", "l"}
  Kept = 2
  KeptFailure = 1
  Capacity = 1
  MaxClock = 3
  TicksPerSecond = 2
  Window = 1
  MaxSamples = 2
  LastTick = 7
  MaxRecords = 4
  Settings = {1, 2}
  MaxStarts = 2
  MaxSolves = 2
  Planes = {"p", "q"}
  Sats = {"s"}
  Stars = {"star"}
  Roadster = "roadster"
  Resources <- TwoResources
  Optional <- TwoGroups
  MaxBuilds = 3
  Round = 16
  Sky = 8
  Narrowest = 2
  Fovs = {4, 8}
  Circle = 8
  MaxFixes = 2
  MaxHistoryAge = 3
  PredictionLimit = 2
  Projected = 3
  MaxSeen = 3
  MaxSkew = 1
  MaxNow = 9
  Routes = {"slow", "fast"}
  StartsAt <- TwoStarts
  Rate <- TwoRates
  Half = 3
  Step = 2
  Duration = 3
  MaxLag = 1
  MaxTime = 5
  None = None
  North = 4
  East = 8
  Cell = 4
  Mile = 2
  MostMiles = 4
  SharedRadius = 4
  RegionRadius = 8
  Objects = 2
  Instants = 3
  Heights <- ThreeHeights
  MaxTops = 2
  MaxFrames = 3
  LastFrame = 5
  Suns <- TwilightSuns
  Clouds = {0, 50, 100}
  Fogs = {0, 100}
  Rains = {0, 1, 30}
  Tolerance = 2
  Widths = {1, 2, 8}
  MaxRadius = 2
  Fleet = 3
  MaxFastLabels = 1
  AirportCount = 3
  MostDistance = 1
  SampleDistances <- QuarterKilometres
INVARIANTS
  AnswersInTime
  ReportCountsLog
  CameraSound
  InspectorOfTracked
  MarkerOnItsWay
  WindowSound
  PreloadSound
  CalculationsRight
PROPERTIES
  NewerKept
CHECK_DEADLOCK FALSE
