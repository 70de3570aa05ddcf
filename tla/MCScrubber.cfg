SPECIFICATION Spec
CONSTANTS
  Modes <- AllModes
  Contents <- AllContents
  Files <- AllFiles
  Keys <- SomeKeys
  MaxEntries = 4
INVARIANTS TypeOK NothingLeaks StructureIsKept OnlyWithReason NoEntryIsLost
CHECK_DEADLOCK FALSE
