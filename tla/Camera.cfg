SPECIFICATION Spec
CONSTANTS
  Settings = {1, 2}
  MaxStarts = 2
  MaxSolves = 1
INVARIANTS
  StoppedWhenClosed
CHECK_DEADLOCK FALSE
