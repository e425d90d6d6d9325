SPECIFICATION FairSpec
CONSTANTS
  s1 = s1  m1 = m1  m2 = m2  NoRun = NoRun  NoSid = NoSid
  c1 = c1  c2 = c2  c3 = c3  c4 = c4
  Scopes = {s1}  Messages = {m1, m2}  Stubborn = {m1}  Askers = {m2}  Commands = {c1, c2, c3, c4}
  ScopeOf <- MCScopeOf  KindOf <- MCKindOf  Mixes <- SomeMixes
INVARIANTS StopIsTrue NoAgentLeft SessionIsKept
PROPERTIES EveryRunEnds EveryMessageRuns
CHECK_DEADLOCK FALSE
