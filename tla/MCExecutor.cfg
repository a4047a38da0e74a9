\* One cleaner and one editor in two scenes that Apart keeps from mixing.
\* A container that holds a volume: answers can be lost, the cleaner can die,
\* the file can become unreadable.  An image with two tags, a network and two
\* cache records: a container may start to use the first two, and the engine
\* may prune too much.
SPECIFICATION Spec
CONSTANTS
  e1 = e1
  e2 = e2
  k1 = k1
  k2 = k2
  None = None
  Nobody = Nobody
  Unreadable = Unreadable
  Broken = Broken
  Regex <- MCRegex
  Rank <- MCRank
  Editors = {e1}
  Readers = {k1}
  Updates <- MCAllUpdates
  InitEntries <- MCInitEntries
  Ids <- MCAllIds
  Objects <- MCAllObjects
  InitDocker <- MCAllDocker
  Configs <- MCAllConfigs
  Histories <- MCAllHistories
  MaxClock = 1
  EngineMay = {"change", "vanish", "fail", "overprune"}
  Lossy = TRUE
CONSTRAINT Apart
INVARIANTS
  GuardCoversDelete
  RequestsUnprotected
  TargetsAccounted
  RemovalsReported
  ReportTruthful
CHECK_DEADLOCK FALSE
