SPECIFICATION FairSpec
CONSTANTS
  a1 = a1  a2 = a2  u1 = u1  u2 = u2  s1 = s1  s2 = s2  c1 = c1
  q1 = q1  q2 = q2  q3 = q3  k1 = k1  k2 = k2
  Card = Card  Nobody = Nobody  NoResult = NoResult  NoAsk = NoAsk
  Asks = {a1, a2}  Users = {u1, u2}  Scopes = {s1, s2}  Chats = {c1}
  Questions = {q1, q2, q3}  Keys = {k1, k2}
  ScopeOf <- TwoScopeOf  ChatOf <- TwoChatOf  QuestionsOf <- TwoQuestionsOf
  MultiSelect = {q2}  Freeform = {a2}
INVARIANT LoserWasBeaten
PROPERTIES ImplementsAskOnce RegisterReturns
CONSTRAINT OneContest
CHECK_DEADLOCK FALSE
