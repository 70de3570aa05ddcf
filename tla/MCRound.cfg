SPECIFICATION Spec
CONSTANTS
  N = 2
  Codex <- Second
  Platforms <- Linux
  MaxSignals = 2
  MaxHelpers = 1
INVARIANTS TypeOK NothingLeftRunning ReadsWhatTheyWrote OutputsAreKept TokenIsGoneOrNamed
CHECK_DEADLOCK FALSE
