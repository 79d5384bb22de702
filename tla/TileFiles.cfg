SPECIFICATION Spec
CONSTANTS
  Threads = {t1, t2}
INVARIANTS
  TornExplained
PROPERTIES
  Heals
CHECK_DEADLOCK FALSE
