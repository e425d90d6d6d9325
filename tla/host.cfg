SPECIFICATION FairSpec
CONSTANTS
  p1 = p1
  p2 = p2
  f1 = f1
  f2 = f2
  d1 = d1
  Processes = {p1, p2}
  Profiles = {f1, f2}
  Plans <- SomePlans
  Readers = {d1}
  Nobody = Nobody
  MaxProbeFails = 2
INVARIANTS UpIsListed OneConnection
PROPERTIES MissingComesBack StopEnds LostIsReplaced
CHECK_DEADLOCK FALSE
