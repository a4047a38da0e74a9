\* Two cleaners and two editors on one container and one volume, under fairness.
SPECIFICATION FairSpec
CONSTANTS
  e1 = e1
  e2 = e2
  k1 = k1
  k2 = k2
  None = None
  Nobody = Nobody
  Unreadable = Unreadable
  Broken = Broken
  Regex <- MCRegex
  Rank <- MCRank
  Editors = {e1, e2}
  Readers = {k1, k2}
  Updates <- MCVolumeUpdates
  InitEntries <- MCInitEntries
  Ids <- MCIds
  Objects <- MCSmallObjects
  InitDocker <- MCHastyDocker
  Configs <- MCHasty
  Histories <- MCNoHistory
  MaxClock = 0
  EngineMay = {}
  Lossy = FALSE
PROPERTIES
  ImplementsAtomic
  ImplementsContract
  PassEnds
  LockFreed
CHECK_DEADLOCK FALSE
