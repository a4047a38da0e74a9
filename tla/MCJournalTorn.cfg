\* An append that breaks off swallows the start of another pass.
SPECIFICATION Spec
CONSTANTS
  p1 = p1
  p2 = p2
  Nobody = Nobody
  Garbage = Garbage
  Procs = {p1, p2}
  Targets = {0, 2}
  ActionSize = 2
  MaxEvents = 20
  MaxBytes = 20
  MaxPasses = 2
  MaxBreaks = 1
INVARIANTS
  MutationsRecorded
CHECK_DEADLOCK FALSE
