SPECIFICATION FairSpec
CONSTANTS
  Kinds = {"grok", "cursor"}
  MaxRuns = 2
  MaxProcs = 2
  Loads = {2}
  Stops = {1}
  Capacity = 1
  Questions <- AskedQuestions
  Texts = {"A", "typed"}
  Options <- AskedOptions
  Chunks = {"agent_message_chunk"}
  MaxAsks = 1
INVARIANTS DoneIsDone AnswerIsFaithful
PROPERTIES AskIsAnswered KilledEnds
CHECK_DEADLOCK FALSE
