\* The same session: the key that releases a row.
SPECIFICATION Spec
CONSTANTS
  None = None
  NoOne = NoOne
  Missing = Missing
  Torn = Torn
  Broken = Broken
  Regex <- MCRegex
  Rank <- MCRank
  Writers = {"tui", "command"}
  Session = "tui"
  Proposals <- MCProposals
  HandEdits <- MCHandEdits
  Items <- MCItems
  ItemSets <- MCItemSets
  EntrySets <- MCEntrySets
  Now <- MCNow
  Families <- MCFamilies
  PrefixNames <- MCPrefixNames
  ProfileCount = 1
  Workstation = 1
  Settings <- MCSettings
  EditedSettings <- MCEdited
  CommandIds <- MCCommandIds
  MaxChanges = 1
  MaxKeys = 2
PROPERTY ToggleReleases
CHECK_DEADLOCK FALSE
