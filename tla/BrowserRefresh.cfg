SPECIFICATION FairSpec
CONSTANTS
  Places = {a, b}
  None = None
INVARIANTS
  SaveNotForgotten
PROPERTIES
  NoOldPaint
  Converges
