\* Three records in chains, forks and cycles; one build takes or releases a record.
SPECIFICATION Spec
CONSTANTS
  None = None
  Regex <- MCRegex
  Rank <- MCRank
  Caches <- MCCaches
  Rules <- MCRules
  MaxClock = 1
  MaxUses = 1
INVARIANTS
  ChildFirst
  BudgetMetUnlessRefused
PROPERTIES
  NoOverEviction
CHECK_DEADLOCK FALSE
