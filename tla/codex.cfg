SPECIFICATION FairSpec
CONSTANTS
  Turns <- SomeTurns
  Capacity = 1
  Asks <- SomeAsks
  MaxLines = 1
  Chatter = {"delta", "error"}
INVARIANTS DoneIsDone ToldIsChosen
PROPERTIES ImplementsAgentRun StopEnds
CHECK_DEADLOCK FALSE
