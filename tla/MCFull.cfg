SPECIFICATION FairSpec
CONSTANTS
  N = 2
  Agy <- Second
  Sessions <- OwnOnly
  Endings <- TwoEach
  MaxSignals = 1
INVARIANTS TypeOK NothingLeftRunning OnlyItsOwnGroups OutputsAreKept NothingPrivateIsLeft
  ResultsAreTheirOwn WhyIsTrue InterruptIsForwarded
PROPERTIES RoundEnds
CHECK_DEADLOCK FALSE
