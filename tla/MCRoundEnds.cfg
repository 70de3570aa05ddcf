SPECIFICATION FairSpec
CONSTANTS
  N = 1
  Codex <- Only
  Platforms <- AllPlatforms
  MaxSignals = 2
  MaxHelpers = 2
INVARIANTS OnlyItsOwnGroups
PROPERTIES RoundEnds
CHECK_DEADLOCK FALSE
