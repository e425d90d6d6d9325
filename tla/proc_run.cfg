SPECIFICATION FairProcSpec
CONSTANTS
  Capacity = 1
  Scripts <- SomeScripts
  TooLong = {4}
  Held = {"stdout", "stderr"}
  MayNotStart = TRUE
INVARIANTS CardIsTranscript CardTellsEnd
PROPERTY StoppedRunEnds
CHECK_DEADLOCK FALSE
