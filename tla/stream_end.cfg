SPECIFICATION FairSpec
CONSTANTS
  r1 = r1
  MaxUpdates = 3
  Refreshes = {r1}
INVARIANTS FinalIsShown SequenceIncreases
PROPERTY StreamGoesOn
CHECK_DEADLOCK FALSE
