\* A session, one `config write` beside it, and changes of everything by others.
SPECIFICATION FairSpec
CONSTANTS
  None = None
  NoOne = NoOne
  Missing = Missing
  Torn = Torn
  Broken = Broken
  Regex <- MCRegex
  Rank <- MCRank
  Writers = {"tui", "command"}
  Session = "tui"
  Proposals <- MCProposals
  HandEdits <- MCHandEdits
  Items <- MCItems
  ItemSets <- MCItemSets
  EntrySets <- MCEntrySets
  Now <- MCNow
  Families <- MCFamilies
  PrefixNames <- MCPrefixNames
  ProfileCount = 1
  Workstation = 1
  Settings <- MCSettings
  EditedSettings <- MCEdited
  CommandIds <- MCCommandIds
  MaxChanges = 1
  MaxKeys = 2
INVARIANTS
  ConfirmedIsShown
  ProposalCurrent
  CacheAuthorized
  SelectionSurveyed
PROPERTIES
  ReplacesReviewed
  ProtectCovers
  HandlerEnds
CHECK_DEADLOCK FALSE
