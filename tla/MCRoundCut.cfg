SPECIFICATION Spec
CONSTANTS
  N = 1
  Codex <- Only
  Platforms <- Linux
  MaxSignals = 2
  MaxHelpers = 0
INVARIANTS NoneOutlivesTheLoop
CHECK_DEADLOCK FALSE
