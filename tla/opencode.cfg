SPECIFICATION FairSpec
CONSTANTS
  MaxRuns = 2
  Scopes = {"a", "b", "c"}
  Plans <- SomePlans
  MaxServers = 2
  MaxMessages = 2
  MaxBreaks = 1
  Slow = {"c"}
INVARIANTS EndIsTrue TextIsWhole ServedAsAllowed
PROPERTIES TurnEndsRun
CHECK_DEADLOCK FALSE
