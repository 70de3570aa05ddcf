SPECIFICATION Spec
CONSTANTS
  Files <- AllFiles
  Where <- KindOf
  LogFiles <- TheLog
  Filter = "script"
  Configured <- SomeConfigs
  Targets <- TwoTargets
  Nodes <- SomeNodes
  Trees <- FourTrees
  MaxWrites = 2
INVARIANTS NothingUnseen NoFalseAlarm GitRunsNothingPlanted
CHECK_DEADLOCK FALSE
