SPECIFICATION FairSpec
CONSTANTS
  MaxRuns = 2
  Picks = {2}
  MaxProcs = 2
  Capacity = 1
  Chatter = {"message_error"}
  MaxLines = 1
INVARIANT DoneIsDone
PROPERTIES StopEnds StartReturns
CHECK_DEADLOCK FALSE
