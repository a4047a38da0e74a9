\* A delete request whose answer was lost reaches the engine later.
SPECIFICATION Spec
CONSTANTS
  e1 = e1
  e2 = e2
  k1 = k1
  k2 = k2
  None = None
  Nobody = Nobody
  Unreadable = Unreadable
  Broken = Broken
  Regex <- MCRegex
  Rank <- MCRank
  Editors = {e1}
  Readers = {k1}
  Updates <- MCUpdatesAndUpgrade
  InitEntries <- MCInitEntries
  Ids <- MCIds
  Objects <- MCSmallObjects
  InitDocker <- MCInitDocker
  Configs <- MCConfigs
  Histories <- MCHistories
  MaxClock = 1
  EngineMay = {"vanish"}
  Lossy = TRUE
PROPERTIES
  NoProtectedRemoval
CHECK_DEADLOCK FALSE
