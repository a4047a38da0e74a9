\* An interval of three ticks, a debounce of one, a backoff of two.
SPECIFICATION FairSpec
CONSTANTS
  Interval = 3
  Debounce = 1
  Backoff = 2
  MaxTicks = 2
  NoDeadline = NoDeadline
INVARIANTS
  EventsAccounted
  NoLostWake
PROPERTIES
  WaitEnds
  TermLeadsToStop
CHECK_DEADLOCK FALSE
