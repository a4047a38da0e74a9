\* Two processes, two passes each, a journal of five lines or six bytes.
SPECIFICATION Spec
CONSTANTS
  p1 = p1
  p2 = p2
  Nobody = Nobody
  Garbage = Garbage
  Procs = {p1, p2}
  Targets = {0, 1}
  ActionSize = 2
  MaxEvents = 4
  MaxBytes = 5
  MaxPasses = 2
  MaxBreaks = 1
INVARIANTS
  TypeOK
  EventsKept
  CompletedWhole
CHECK_DEADLOCK FALSE
