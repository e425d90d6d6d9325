SPECIFICATION CardsSpec
CONSTANTS
  s1 = s1
  s2 = s2
  Scopes = {s1, s2}
  MaxCards = 3
  MaxStops = 1
INVARIANTS RunningIsListed LostIsTried
CHECK_DEADLOCK FALSE
