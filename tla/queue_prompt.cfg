SPECIFICATION QueueSpec
CONSTANTS
  s1 = s1  s2 = s2  m1 = m1  m2 = m2  m3 = m3  m4 = m4
  Scopes = {s1, s2}
  Messages = {m1, m2, m3, m4}
  PromptHandoff = TRUE
INVARIANT NoLostWakeup
PROPERTY ImplementsSerialBatcher
CHECK_DEADLOCK FALSE
