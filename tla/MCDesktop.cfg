SPECIFICATION Spec
CONSTANTS
  Names = {"a", "b"}
  Coords = {"x", "y"}
  Home = "x"
  Edited = {"a"}
  MaxProfiles = 2
  FailAgain = FALSE
  MaxChanges = 1
  MaxRefreshes = 1
  Frames = 2
  Sats = {"s", "t"}
  Planes = {"p", "q"}
INVARIANTS
  ShownIsOfPlace
  NothingStranded
  DetailOfSelected
PROPERTIES
  
  LiveIsOfPlace
  ViewCatchesUp
CHECK_DEADLOCK FALSE
