SPECIFICATION Spec
CONSTANTS
  r1 = r1  r2 = r2  k1 = k1  k2 = k2  c1 = c1  c2 = c2
  Slots <- MCSlots
  Keys <- MCKeys
  Changes <- MCChanges
  Setups <- MCSetups
  MaxRounds = 3
  MaxRuns = 1
  MaxKills = 0
SYMMETRY Symmetry
INVARIANTS TypeOK ConvergedCoversChange ConvergedIsCleanBill StuckIsRepeat NamedBaseIsKept
CHECK_DEADLOCK FALSE
