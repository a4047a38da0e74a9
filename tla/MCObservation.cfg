\* Two overlapping recorders, two passes each, a floor of one second.
SPECIFICATION Spec
CONSTANTS
  r1 = r1
  r2 = r2
  None = None
  NoRecorder = NoRecorder
  Regex <- MCRegex
  Rank <- MCRank
  Recorders = {r1, r2}
  Floor = 1000
  MaxClock = 2
  MaxPasses = 2
INVARIANTS
  FloorObserved
PROPERTIES
  ClockCarried
CHECK_DEADLOCK FALSE
