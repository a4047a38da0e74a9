\* Skills: two installs, one edit by hand.  Spawn: two spawners, two ids, two
\* seconds, one refusal or lost answer, two moves.  Configuration: two commands,
\* one edit by somebody else, every configuration with one defect.
\* Reports: two targets, two passes of a daemon.
SPECIFICATION Spec
CONSTANTS
  a = a
  b = b
  z = z
  i1 = i1
  i2 = i2
  s1 = s1
  s2 = s2
  c1 = c1
  c2 = c2
  box = box
  bot = bot
  None = None
  Regex <- MCRegex
  Rank <- MCRank
  SKILLS <- MCSkills
  Installers = {i1, i2}
  Selections <- MCSelections
  InitSkills = {"absent", "ours", "edited"}
  MaxRuns = 2
  MaxSkillEdits = 1
  Spawners = {s1, s2}
  Ids = {c1, c2}
  Names = {box}
  Owners = {bot}
  Policies <- MCPolicies
  MaxAge = 2
  MaxRefusals = 1
  MaxMoves = 2
  Missing = Missing
  Folder = Folder
  Locked = Locked
  Garbled = Garbled
  Unparsed = Unparsed
  Texts <- MCTexts
  Blank <- MCBlank
  NoRegex <- MCBad
  NoGlob <- MCBad
  Globs <- MCGlobs
  Expressions <- MCExpressions
  Parts <- MCParts
  Configs <- MCConfigs
  InitFiles <- MCInitFiles
  EditedTo <- MCEditedTo
  Proposals <- MCProposals
  Items <- MCItems
  MaxTargets = 2
  MaxPasses = 2
  MaxCommands = 2
  MaxEdits = 1
SYMMETRY Symmetry
INVARIANTS
  RefusalTouchesNothing
  EditsKept
  SuccessInstalls
  SparedUntilStarted
  ReportsWhatExists
  ExitedIsDue
  LoadedCompiles
  ClaimsAuthored
  NeverBypassed
  SavedIsFound
  ExitTellsOutcome
  EventsPair
CHECK_DEADLOCK FALSE
