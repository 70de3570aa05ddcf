SPECIFICATION FairSpec
CONSTANTS
  r1 = r1  r2 = r2  k1 = k1  k2 = k2  c1 = c1  c2 = c2
  Slots <- MCSlots
  Keys <- MCKeys
  Changes <- OneChange
  Setups <- LiveSetups
  MaxRounds = 3
  MaxRuns = 2
  MaxKills = 1
PROPERTIES Terminates ImplementsContract
CHECK_DEADLOCK FALSE
