\* A pass that stalls between its lists and its commit puts an old clock back.
SPECIFICATION Spec
CONSTANTS
  r1 = r1
  r2 = r2
  None = None
  NoRecorder = NoRecorder
  Regex <- MCRegex
  Rank <- MCRank
  Recorders = {r1, r2}
  Floor = 1000
  MaxClock = 2
  MaxPasses = 2
INVARIANTS
  ContinuousClock
CHECK_DEADLOCK FALSE
