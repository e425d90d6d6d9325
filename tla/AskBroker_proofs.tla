--------------------------- MODULE AskBroker_proofs ---------------------------
(***************************************************************************)
(* Proofs about AskBroker for any number of asks, users, scopes and        *)
(* questions: every safety property the runs check, and the refinement of  *)
(* AskOnce.                                                                *)
(***************************************************************************)
EXTENDS AskBroker, TLAPS

\* A record of Results is made of its four fields.
LEMMA UserResultType ==
  ASSUME NEW u \in Users, NEW answers \in Answers, NEW text \in BOOLEAN
  PROVE  UserResult(u, answers, text) \in Results
  BY DEF UserResult, Results, Kinds

\* The verdicts nobody gave are results.
LEMMA NobodysResults == /\ Undispatched \in Results
                        /\ TimedOut \in Results
                        /\ Invalidated \in Results
  BY DEF Undispatched, TimedOut, Invalidated, Results, Kinds, Answers, NoKeys

\* No selection at all is an answer.
LEMMA NoKeysType == NoKeys \in Answers
  BY DEF NoKeys, Answers

\* settle keeps the types of the variables it assigns.
LEMMA SettleType ==
  ASSUME TypeOK, NEW a \in Asks, NEW r \in Results, NEW n \in BOOLEAN, Settle(a, r, n)
  PROVE  /\ entry' \in [Asks -> {"absent", "open", "settled", "gone"}]
         /\ result' \in [Asks -> Results \cup {NoResult}]
         /\ deadline' \in [Asks -> {"off", "armed", "elapsed"}]
         /\ resolve' \in [Asks -> Results \cup {NoResult}]
         /\ notice' \in [Asks -> {"none", "card", "nocard", "done"}]
  BY DEF TypeOK, Settle, Offer

\* A toggle of an own question keeps the selections well formed.
LEMMA ToggleType ==
  ASSUME TypeOK, NEW a \in Asks, NEW q \in QuestionsOf[a], NEW k \in Keys, Toggle(a, q, k)
  PROVE  /\ picked' \in [Asks -> Answers]
         /\ \A b \in Asks : \A p \in Questions \ QuestionsOf[b] : picked'[b][p] = {}
  <1>1. q \in Questions
    BY BrokerAssumption
  <1>2. picked[a] \in Answers /\ picked[a][q] \in SUBSET Keys
    BY <1>1 DEF TypeOK, Answers
  <1>3. Toggled(q, picked[a][q], k) \in SUBSET Keys
    BY <1>2 DEF Toggled
  <1>4. picked' = [picked EXCEPT ![a] = [picked[a] EXCEPT ![q] = Toggled(q, picked[a][q], k)]]
    BY DEF Toggle
  <1>5. [picked[a] EXCEPT ![q] = Toggled(q, picked[a][q], k)] \in Answers
    BY <1>1, <1>2, <1>3 DEF Answers
  <1>6. picked' \in [Asks -> Answers]
    BY <1>4, <1>5 DEF TypeOK
  <1>7. ASSUME NEW b \in Asks, NEW p \in Questions \ QuestionsOf[b]
        PROVE  picked'[b][p] = {}
    <2>1. picked[b] \in Answers /\ picked[b][p] = {}
      BY <1>7 DEF TypeOK
    <2>2. CASE a = b
      BY <1>1, <1>2, <1>4, <2>1, <2>2 DEF TypeOK, Answers
    <2>3. CASE a # b
      BY <1>4, <2>1, <2>3 DEF TypeOK
    <2> QED BY <2>2, <2>3
  <1> QED BY <1>6, <1>7

\* Values stay in range, and no ask gets a selection of a foreign question:
\* TypeOK holds in every reachable state.
THEOREM TypeCorrect == Spec => []TypeOK
  <1> USE BrokerAssumption
  <1>1. Init => TypeOK
    BY NoKeysType DEF Init, TypeOK, NoKeys
  <1>2. TypeOK /\ [Next]_vars => TypeOK'
    <2> SUFFICES ASSUME TypeOK, [Next]_vars PROVE TypeOK'
      OBVIOUS
    <2> USE DEF TypeOK
    <2>1. ASSUME NEW a \in Asks, Register(a) PROVE TypeOK'
      BY <2>1 DEF Register, userVars
    <2>2. ASSUME NEW a \in Asks, SendCard(a) PROVE TypeOK'
      BY <2>2 DEF SendCard, userVars
    <2>3. ASSUME NEW a \in Asks, SendFails(a) PROVE TypeOK'
      <3>1. PICK c \in {"none", "live"} : card' = [card EXCEPT ![a] = c]
        BY <2>3 DEF SendFails
      <3>2. card' \in [Asks -> {"none", "live", "final"}]
        BY <3>1
      <3> QED BY <2>3, <3>2 DEF SendFails, userVars
    <2>3a. ASSUME NEW a \in Asks, Undispatch(a) PROVE TypeOK'
      <3>1. CASE Settle(a, Undispatched, FALSE)
        <4>1. /\ entry' \in [Asks -> {"absent", "open", "settled", "gone"}]
              /\ result' \in [Asks -> Results \cup {NoResult}]
              /\ deadline' \in [Asks -> {"off", "armed", "elapsed"}]
              /\ resolve' \in [Asks -> Results \cup {NoResult}]
              /\ notice' \in [Asks -> {"none", "card", "nocard", "done"}]
          BY <3>1, SettleType, NobodysResults
        <4> QED BY <2>3a, <4>1 DEF Undispatch, userVars
      <3>2. CASE TooLate(a)
        BY <2>3a, <3>2 DEF Undispatch, TooLate, userVars
      <3> QED BY <2>3a, <3>1, <3>2 DEF Undispatch
    <2>4. ASSUME NEW a \in Asks, RecordCard(a) PROVE TypeOK'
      BY <2>4 DEF RecordCard, userVars
    <2>5. ASSUME NEW a \in Asks, Receive(a) PROVE TypeOK'
      BY <2>5 DEF Receive, userVars
    <2>6. ASSUME NEW a \in Asks, Elapse(a) PROVE TypeOK'
      BY <2>6 DEF Elapse, userVars
    <2>7. ASSUME NEW a \in Asks, TimeOut(a) PROVE TypeOK'
      BY <2>7, SettleType, NobodysResults DEF TimeOut, userVars
    <2>8. ASSUME NEW s \in Scopes, InvalidateScope(s) PROVE TypeOK'
      BY <2>8 DEF InvalidateScope, userVars
    <2>9. ASSUME NEW a \in Asks, Invalidate(a) PROVE TypeOK'
      BY <2>9, SettleType, NobodysResults DEF Invalidate, TooLate, userVars
    <2>10. ASSUME NEW a \in Asks, Forget(a) PROVE TypeOK'
      BY <2>10 DEF Forget, userVars
    <2>11. ASSUME NEW a \in Asks, OnSettle(a) PROVE TypeOK'
      BY <2>11 DEF OnSettle, userVars
    <2>12. ASSUME NEW a \in Asks, NEW q \in Questions, NEW k \in Keys, Toggle(a, q, k)
           PROVE  TypeOK'
      <3>1. q \in QuestionsOf[a]
        BY <2>12 DEF Toggle
      <3> QED BY <2>12, <3>1, ToggleType DEF Toggle, userVars
    <2>13. ASSUME NEW u \in Users, NEW a \in Asks, NEW r \in Results,
                  NEW f \in Scopes \cup {Card}, Checked(u, a, r, f)
           PROVE  TypeOK'
      BY <2>13 DEF Checked, Clicks
    <2>14. ASSUME NEW u \in Users, NEW a \in Asks, NEW q \in Questions, NEW k \in Keys,
                  Select(u, a, q, k)
           PROVE  TypeOK'
      <3>1. [NoKeys EXCEPT ![q] = {k}] \in Answers
        BY DEF NoKeys, Answers
      <3> QED BY <2>13, <2>14, <3>1, UserResultType DEF Select
    <2>15. ASSUME NEW u \in Users, NEW a \in Asks, Submit(u, a) PROVE TypeOK'
      BY <2>13, <2>15, UserResultType DEF Submit
    <2>16. ASSUME NEW u \in Users, NEW a \in Asks, SubmitInput(u, a) PROVE TypeOK'
      BY <2>13, <2>16, UserResultType, NoKeysType DEF SubmitInput
    <2>17. ASSUME NEW u \in Users, NEW s \in Scopes, SubmitComment(u, s) PROVE TypeOK'
      BY <2>13, <2>17, UserResultType, NoKeysType DEF SubmitComment
    <2>18. ASSUME NEW u \in Users, NEW a \in Asks, Accept(u, a) PROVE TypeOK'
      <3>1. click[u].result \in Results
        BY <2>18 DEF Accept, Clicks, NoClick
      <3>2. Settle(a, click[u].result, TRUE)
        BY <2>18 DEF Accept
      <3> QED BY <2>18, <3>1, <3>2, SettleType DEF Accept
    <2>19. ASSUME NEW u \in Users, NEW a \in Asks, Lose(u, a) PROVE TypeOK'
      BY <2>19 DEF Lose, TooLate
    <2>20. CASE UNCHANGED vars
      BY <2>20 DEF vars, userVars
    <2> QED
      BY <2>1, <2>2, <2>3, <2>3a, <2>4, <2>5, <2>6, <2>7, <2>8, <2>9, <2>10, <2>11, <2>12,
         <2>14, <2>15, <2>16, <2>17, <2>18, <2>19, <2>20 DEF Next, Send, Answering
  <1> QED BY <1>1, <1>2, PTL DEF Spec

-----------------------------------------------------------------------------
(***************************************************************************)
(* The verdict of an ask: recorded exactly when it is settled, equal to    *)
(* what waits in the channel and to what Register returned, and not lost.  *)
(***************************************************************************)
VerdictAt(a) ==
  /\ caller[a] = "idle" => entry[a] = "absent"
  /\ result[a] # NoResult <=> entry[a] \in {"settled", "gone"}
  /\ resolve[a] # NoResult => resolve[a] = result[a]
  /\ got[a] # NoResult => got[a] = result[a] /\ caller[a] = "returned"
  /\ result[a] # NoResult /\ got[a] = NoResult => resolve[a] = result[a]

VerdictInv == \A a \in Asks : VerdictAt(a)

\* settle, called by whoever, keeps the verdict of every ask consistent.
LEMMA SettleVerdict ==
  ASSUME TypeOK, VerdictInv, NEW a \in Asks, NEW r \in Results, NEW n \in BOOLEAN,
         Settle(a, r, n), got' = got,
         caller' = caller \/ caller' = [caller EXCEPT ![a] = "waiting"]
  PROVE  VerdictInv'
  <1> SUFFICES ASSUME NEW b \in Asks PROVE VerdictAt(b)'
    BY DEF VerdictInv
  <1> USE BrokerAssumption DEF TypeOK, VerdictAt
  <1>1. VerdictAt(a) /\ VerdictAt(b)
    BY DEF VerdictInv
  <1>2. CASE b = a
    BY <1>1, <1>2 DEF Settle, Offer
  <1>3. CASE b # a
    BY <1>1, <1>3 DEF Settle, Offer
  <1> QED BY <1>2, <1>3

\* The verdict of every ask is consistent in every reachable state.
LEMMA VerdictInvariant == Spec => []VerdictInv
  <1> USE BrokerAssumption
  <1>1. Init => VerdictInv
    BY DEF Init, VerdictInv, VerdictAt
  <1>2. TypeOK /\ TypeOK' /\ VerdictInv /\ [Next]_vars => VerdictInv'
    <2> SUFFICES ASSUME TypeOK, VerdictInv, [Next]_vars PROVE VerdictInv'
      OBVIOUS
    <2> DEFINE Same == UNCHANGED <<entry, result, resolve, got, caller>>
    <2>0. ASSUME Same PROVE VerdictInv'
      BY <2>0 DEF VerdictInv, VerdictAt
    <2>1. ASSUME NEW a \in Asks, Register(a) PROVE VerdictInv'
      BY <2>1 DEF Register, TypeOK, VerdictInv, VerdictAt
    <2>2. ASSUME NEW a \in Asks, SendCard(a) PROVE VerdictInv'
      BY <2>2 DEF SendCard, TypeOK, VerdictInv, VerdictAt
    <2>3. ASSUME NEW a \in Asks, SendFails(a) PROVE VerdictInv'
      BY <2>3 DEF SendFails, TypeOK, VerdictInv, VerdictAt
    <2>3a. ASSUME NEW a \in Asks, Undispatch(a) PROVE VerdictInv'
      <3>1. CASE Settle(a, Undispatched, FALSE)
        <4>1. got' = got /\ caller' = [caller EXCEPT ![a] = "waiting"]
          BY <2>3a DEF Undispatch
        <4> QED BY <3>1, <4>1, SettleVerdict, NobodysResults
      <3>2. CASE TooLate(a)
        BY <2>3a, <3>2 DEF Undispatch, TooLate, TypeOK, VerdictInv, VerdictAt
      <3> QED BY <2>3a, <3>1, <3>2 DEF Undispatch
    <2>4. ASSUME NEW a \in Asks, RecordCard(a) PROVE VerdictInv'
      BY <2>4 DEF RecordCard, TypeOK, VerdictInv, VerdictAt
    <2>5. ASSUME NEW a \in Asks, Receive(a) PROVE VerdictInv'
      <3> SUFFICES ASSUME NEW b \in Asks PROVE VerdictAt(b)'
        BY DEF VerdictInv
      <3>1. VerdictAt(a) /\ VerdictAt(b)
        BY DEF VerdictInv
      <3> QED BY <2>5, <3>1 DEF Receive, TypeOK, VerdictAt
    <2>6. ASSUME NEW a \in Asks, Elapse(a) PROVE VerdictInv'
      BY <2>0, <2>6 DEF Elapse
    <2>7. ASSUME NEW a \in Asks, TimeOut(a) PROVE VerdictInv'
      <3>1. Settle(a, TimedOut, FALSE) /\ got' = got /\ caller' = caller
        BY <2>7 DEF TimeOut
      <3> QED BY <3>1, SettleVerdict, NobodysResults
    <2>8. ASSUME NEW s \in Scopes, InvalidateScope(s) PROVE VerdictInv'
      BY <2>0, <2>8 DEF InvalidateScope
    <2>9. ASSUME NEW a \in Asks, Invalidate(a) PROVE VerdictInv'
      <3>1. got' = got /\ caller' = caller
        BY <2>9 DEF Invalidate
      <3>2. CASE Settle(a, Invalidated, TRUE)
        BY <3>1, <3>2, SettleVerdict, NobodysResults
      <3>3. CASE TooLate(a)
        BY <2>0, <2>9, <3>3 DEF Invalidate, TooLate
      <3> QED BY <2>9, <3>2, <3>3 DEF Invalidate
    <2>10. ASSUME NEW a \in Asks, Forget(a) PROVE VerdictInv'
      BY <2>10 DEF Forget, TypeOK, VerdictInv, VerdictAt
    <2>11. ASSUME NEW a \in Asks, OnSettle(a) PROVE VerdictInv'
      BY <2>0, <2>11 DEF OnSettle
    <2>12. ASSUME NEW a \in Asks, NEW q \in Questions, NEW k \in Keys, Toggle(a, q, k)
           PROVE  VerdictInv'
      BY <2>0, <2>12 DEF Toggle
    <2>13. ASSUME NEW u, NEW a, NEW r, NEW f, Checked(u, a, r, f) PROVE VerdictInv'
      BY <2>0, <2>13 DEF Checked
    <2>14. ASSUME NEW u \in Users, NEW s \in Scopes, SubmitComment(u, s) PROVE VerdictInv'
      BY <2>13, <2>14 DEF SubmitComment
    <2>15. ASSUME NEW u \in Users, Answering(u) PROVE VerdictInv'
      <3>1. PICK a \in Asks : \/ \E q \in Questions, k \in Keys : Select(u, a, q, k)
                              \/ Submit(u, a)
                              \/ SubmitInput(u, a)
                              \/ Accept(u, a)
                              \/ Lose(u, a)
        BY <2>15 DEF Answering
      <3>2. CASE Accept(u, a)
        <4>1. click[u].result \in Results
          BY <3>2 DEF Accept, TypeOK, Clicks, NoClick
        <4>2. Settle(a, click[u].result, TRUE) /\ got' = got /\ caller' = caller
          BY <3>2 DEF Accept
        <4> QED BY <4>1, <4>2, SettleVerdict
      <3>3. CASE Lose(u, a)
        BY <2>0, <3>3 DEF Lose, TooLate
      <3>4. CASE ~Accept(u, a) /\ ~Lose(u, a)
        BY <2>13, <3>1, <3>4 DEF Select, Submit, SubmitInput
      <3> QED BY <3>2, <3>3, <3>4
    <2>16. CASE UNCHANGED vars
      BY <2>0, <2>16 DEF vars
    <2> QED
      BY <2>1, <2>2, <2>3, <2>3a, <2>4, <2>5, <2>6, <2>7, <2>8, <2>9, <2>10, <2>11, <2>12,
         <2>14, <2>15, <2>16 DEF Next, Send
  <1> QED BY <1>1, <1>2, TypeCorrect, PTL DEF Spec

\* What Register returned is the recorded result: the agent and the users see
\* the same verdict, for any number of asks and clicks.
THEOREM ReturnedIsOnRecordHolds == Spec => []ReturnedIsOnRecord
  <1>1. VerdictInv => ReturnedIsOnRecord
    BY DEF VerdictInv, VerdictAt, ReturnedIsOnRecord
  <1> QED BY <1>1, VerdictInvariant, PTL

\* A recorded result is never lost on its way to a Register that waits.
THEOREM ResultWaitsHolds == Spec => []ResultWaits
  <1>1. VerdictInv => ResultWaits
    BY DEF VerdictInv, VerdictAt, ResultWaits
  <1> QED BY <1>1, VerdictInvariant, PTL

-----------------------------------------------------------------------------
(***************************************************************************)
(* The users: who is told "accepted" is the author of the recorded result, *)
(* who is told "already settled" is not.                                   *)
(***************************************************************************)
CreditAt(u) ==
  /\ click[u] = NoClick => outcome[u] = "none"
  /\ click[u] # NoClick => click[u].result.by = u
  /\ outcome[u] = "accepted" => result[click[u].ask] = click[u].result
  /\ outcome[u] = "already_settled" =>
       result[click[u].ask] # NoResult /\ result[click[u].ask].by # u
  /\ \A a \in Asks : result[a] # NoResult /\ result[a].by = u =>
       outcome[u] = "accepted" /\ click[u].ask = a

CreditInv == \A u \in Users : CreditAt(u)

\* A click that passed the checks is about an ask.
LEMMA ClickType ==
  ASSUME TypeOK, NEW u \in Users, click[u] # NoClick
  PROVE  click[u] \in Clicks /\ click[u].ask \in Asks /\ click[u].result \in Results
  BY DEF TypeOK, Clicks

\* A click is about an ask that was registered.
ExistAt(u) == click[u] # NoClick => entry[click[u].ask] # "absent"
Exists == \A u \in Users : ExistAt(u)

\* Clicks are about registered asks in every reachable state.
LEMMA ExistInvariant == Spec => []Exists
  <1> USE BrokerAssumption
  <1>1. Init => Exists
    BY DEF Init, Exists, ExistAt
  <1>2. TypeOK /\ Exists /\ [Next]_vars => Exists'
    <2> SUFFICES ASSUME TypeOK, Exists, [Next]_vars PROVE Exists'
      OBVIOUS
    <2>1. ASSUME click' = click,
                 \A b \in Asks : entry[b] # "absent" => entry'[b] # "absent"
          PROVE  Exists'
      BY <2>1, ClickType DEF Exists, ExistAt
    <2>2. ASSUME NEW a \in Asks,
                 \/ Register(a) \/ Send(a) \/ RecordCard(a) \/ Receive(a)
                 \/ Elapse(a) \/ TimeOut(a)
                 \/ Invalidate(a) \/ Forget(a) \/ OnSettle(a)
                 \/ \E q \in Questions, k \in Keys : Toggle(a, q, k)
          PROVE  Exists'
      <3>1. click' = click
        BY <2>2 DEF Register, Send, SendCard, SendFails, Undispatch, RecordCard, Receive, Elapse,
                    TimeOut, Invalidate, Forget, OnSettle, Toggle, userVars
      <3>2. \/ entry' = entry
            \/ entry' = [entry EXCEPT ![a] = "open"]
            \/ entry' = [entry EXCEPT ![a] = "settled"]
            \/ entry' = [entry EXCEPT ![a] = "gone"]
        BY <2>2 DEF Register, Send, SendCard, SendFails, Undispatch, RecordCard, Receive, Elapse,
                    TimeOut, Invalidate, Forget, OnSettle, Toggle, Settle, TooLate
      <3> QED BY <2>1, <3>1, <3>2 DEF TypeOK
    <2>3. ASSUME NEW u \in Users, NEW a \in Asks, NEW r, NEW f, Checked(u, a, r, f)
          PROVE  Exists'
      <3>1. /\ click' = [click EXCEPT ![u] = [ask |-> a, result |-> r, from |-> f]]
            /\ entry' = entry /\ entry[a] = "open"
        BY <2>3 DEF Checked
      <3>2. ASSUME NEW w \in Users PROVE ExistAt(w)'
        BY <3>1 DEF Exists, ExistAt, TypeOK
      <3> QED BY <3>2 DEF Exists
    <2>4. ASSUME NEW s \in Scopes,
                 InvalidateScope(s) \/ \E u \in Users : SubmitComment(u, s)
          PROVE  Exists'
      BY <2>1, <2>3, <2>4 DEF InvalidateScope, SubmitComment, userVars
    <2>5. ASSUME NEW u \in Users, Answering(u) PROVE Exists'
      <3>1. PICK a \in Asks : \/ \E q \in Questions, k \in Keys : Select(u, a, q, k)
                              \/ Submit(u, a)
                              \/ SubmitInput(u, a)
                              \/ Accept(u, a)
                              \/ Lose(u, a)
        BY <2>5 DEF Answering
      <3>2. CASE Accept(u, a) \/ Lose(u, a)
        <4>1. click' = click
          BY <3>2 DEF Accept, Lose
        <4>2. entry' = entry \/ entry' = [entry EXCEPT ![a] = "settled"]
          BY <3>2 DEF Accept, Lose, Settle, TooLate
        <4> QED BY <2>1, <4>1, <4>2 DEF TypeOK
      <3>3. CASE ~(Accept(u, a) \/ Lose(u, a))
        BY <2>3, <3>1, <3>3 DEF Select, Submit, SubmitInput
      <3> QED BY <3>2, <3>3
    <2>6. CASE UNCHANGED vars
      BY <2>1, <2>6 DEF vars, userVars
    <2> QED BY <2>2, <2>3, <2>4, <2>5, <2>6 DEF Next
  <1> QED BY <1>1, <1>2, TypeCorrect, PTL DEF Spec

\* A verdict nobody gave leaves every user's outcome as it should be.
LEMMA SettleByNobody ==
  ASSUME TypeOK, VerdictInv, CreditInv, NEW a \in Asks, NEW r \in Results,
         NEW n \in BOOLEAN, Settle(a, r, n), r.by = Nobody, UNCHANGED <<click, outcome>>
  PROVE  CreditInv'
  <1> USE BrokerAssumption
  <1> SUFFICES ASSUME NEW u \in Users PROVE CreditAt(u)'
    BY DEF CreditInv
  <1>1. result[a] = NoResult
    BY DEF Settle, VerdictInv, VerdictAt
  <1>2. /\ result' = [result EXCEPT ![a] = r]
        /\ click' = click /\ outcome' = outcome
    BY DEF Settle
  <1>3. CreditAt(u)
    BY DEF CreditInv
  <1>4. outcome[u] # "none" => click[u].ask \in Asks /\ click[u].ask # a
    BY <1>1, <1>3, ClickType DEF CreditAt, TypeOK, Clicks
  <1> QED BY <1>2, <1>3, <1>4 DEF CreditAt, TypeOK

\* The outcomes agree with the recorded results in every reachable state.
LEMMA CreditInvariant == Spec => []CreditInv
  <1> USE BrokerAssumption
  <1>1. Init => CreditInv
    BY DEF Init, CreditInv, CreditAt, NoClick
  <1>2. TypeOK /\ VerdictInv /\ Exists /\ CreditInv /\ [Next]_vars => CreditInv'
    <2> SUFFICES ASSUME TypeOK, VerdictInv, Exists, CreditInv, [Next]_vars PROVE CreditInv'
      OBVIOUS
    <2>0. ASSUME UNCHANGED <<result, click, outcome>> PROVE CreditInv'
      BY <2>0 DEF CreditInv, CreditAt
    <2>1. ASSUME NEW a \in Asks, Undispatch(a) PROVE CreditInv'
      <3>1. Undispatched.by = Nobody /\ UNCHANGED <<click, outcome>>
        BY <2>1 DEF Undispatch, Undispatched, userVars
      <3>2. CASE Settle(a, Undispatched, FALSE)
        BY <3>1, <3>2, SettleByNobody, NobodysResults
      <3>3. CASE TooLate(a)
        BY <2>0, <3>1, <3>3 DEF TooLate
      <3> QED BY <2>1, <3>2, <3>3 DEF Undispatch
    <2>2. ASSUME NEW a \in Asks, TimeOut(a) PROVE CreditInv'
      <3>1. TimedOut.by = Nobody /\ UNCHANGED <<click, outcome>>
        BY <2>2 DEF TimeOut, TimedOut, Undispatched, userVars
      <3>2. Settle(a, TimedOut, FALSE)
        BY <2>2 DEF TimeOut
      <3> QED BY <3>1, <3>2, SettleByNobody, NobodysResults
    <2>3. ASSUME NEW a \in Asks, Invalidate(a) PROVE CreditInv'
      <3>1. Invalidated.by = Nobody /\ UNCHANGED <<click, outcome>>
        BY <2>3 DEF Invalidate, Invalidated, Undispatched, userVars
      <3>2. CASE Settle(a, Invalidated, TRUE)
        BY <3>1, <3>2, SettleByNobody, NobodysResults
      <3>3. CASE TooLate(a)
        BY <2>0, <3>1, <3>3 DEF TooLate
      <3> QED BY <2>3, <3>2, <3>3 DEF Invalidate
    <2>4. ASSUME NEW a \in Asks,
                 \/ Register(a) \/ SendCard(a) \/ SendFails(a) \/ RecordCard(a) \/ Receive(a)
                 \/ Elapse(a) \/ Forget(a) \/ OnSettle(a)
                 \/ \E q \in Questions, k \in Keys : Toggle(a, q, k)
          PROVE  CreditInv'
      BY <2>0, <2>4 DEF Register, SendCard, SendFails, RecordCard, Receive, Elapse, Forget,
                        OnSettle, Toggle, userVars
    <2>5. ASSUME NEW s \in Scopes, InvalidateScope(s) PROVE CreditInv'
      BY <2>0, <2>5 DEF InvalidateScope, userVars
    <2>6. ASSUME NEW u \in Users, NEW a \in Asks, NEW r \in Results, NEW f,
                 click[u] = NoClick, r.by = u, Checked(u, a, r, f)
          PROVE  CreditInv'
      <3> SUFFICES ASSUME NEW w \in Users PROVE CreditAt(w)'
        BY DEF CreditInv
      <3>1. CreditAt(w) /\ CreditAt(u)
        BY DEF CreditInv
      <3>2. /\ click' = [click EXCEPT ![u] = [ask |-> a, result |-> r, from |-> f]]
            /\ result' = result /\ outcome' = outcome
        BY <2>6 DEF Checked
      <3>3. CASE w = u
        <4>1. click'[u].result = r /\ outcome'[u] = "none"
          BY <2>6, <3>1, <3>2 DEF CreditAt, TypeOK
        <4> QED BY <2>6, <3>1, <3>2, <3>3, <4>1 DEF CreditAt
      <3>4. CASE w # u
        BY <3>1, <3>2, <3>4 DEF CreditAt, TypeOK
      <3> QED BY <3>3, <3>4
    <2>7. ASSUME NEW u \in Users, NEW s \in Scopes, SubmitComment(u, s) PROVE CreditInv'
      <3>1. PICK a \in Asks : Checked(u, a, UserResult(u, NoKeys, TRUE), s)
        BY <2>7 DEF SubmitComment
      <3>2. UserResult(u, NoKeys, TRUE) \in Results /\ UserResult(u, NoKeys, TRUE).by = u
        BY UserResultType, NoKeysType DEF UserResult
      <3> QED BY <2>6, <2>7, <3>1, <3>2 DEF SubmitComment
    <2>8. ASSUME NEW u \in Users, NEW a \in Asks, NEW q \in Questions, NEW k \in Keys,
                 Select(u, a, q, k)
          PROVE  CreditInv'
      <3> DEFINE r == UserResult(u, [NoKeys EXCEPT ![q] = {k}], FALSE)
      <3>1. [NoKeys EXCEPT ![q] = {k}] \in Answers
        BY DEF NoKeys, Answers
      <3>2. r \in Results /\ r.by = u
        BY <3>1, UserResultType DEF UserResult
      <3> QED BY <2>6, <2>8, <3>2 DEF Select, Sees
    <2>9. ASSUME NEW u \in Users, NEW a \in Asks, Submit(u, a) PROVE CreditInv'
      <3> DEFINE r == UserResult(u, picked[a], FALSE)
      <3>1. r \in Results /\ r.by = u
        BY UserResultType DEF UserResult, TypeOK
      <3> QED BY <2>6, <2>9, <3>1 DEF Submit, Sees
    <2>10. ASSUME NEW u \in Users, NEW a \in Asks, SubmitInput(u, a) PROVE CreditInv'
      <3>1. UserResult(u, NoKeys, TRUE) \in Results /\ UserResult(u, NoKeys, TRUE).by = u
        BY UserResultType, NoKeysType DEF UserResult
      <3> QED BY <2>6, <2>10, <3>1 DEF SubmitInput, Sees
    <2>11. ASSUME NEW u \in Users, NEW a \in Asks, Accept(u, a) PROVE CreditInv'
      <3> SUFFICES ASSUME NEW w \in Users PROVE CreditAt(w)'
        BY DEF CreditInv
      <3>1. CreditAt(w) /\ CreditAt(u)
        BY DEF CreditInv
      <3>2. /\ click' = click
            /\ result' = [result EXCEPT ![a] = click[u].result]
            /\ outcome' = [outcome EXCEPT ![u] = "accepted"]
            /\ click[u].ask = a
        BY <2>11 DEF Accept, Settle
      <3>3. result[a] = NoResult
        BY <2>11 DEF Accept, Settle, VerdictInv, VerdictAt
      <3>4. click[u] # NoClick /\ click[u].result.by = u
        BY <3>1, <3>2 DEF CreditAt, NoClick
      <3>5. CASE w = u
        <4>1. outcome[u] = "none" /\ outcome'[u] = "accepted"
          BY <2>11, <3>2 DEF Accept, TypeOK
        <4>2. result'[a] = click[u].result
          BY <3>2 DEF TypeOK
        <4>3. ASSUME NEW b \in Asks, result'[b] # NoResult, result'[b].by = u, b # a
              PROVE  FALSE
          BY <3>1, <3>2, <4>1, <4>3 DEF CreditAt, TypeOK
        <4> QED BY <3>2, <3>4, <3>5, <4>1, <4>2, <4>3 DEF CreditAt
      <3>6. CASE w # u
        <4>2. outcome[w] # "none" => click[w].ask \in Asks /\ click[w].result \in Results
          BY <3>1, ClickType DEF CreditAt
        <4>1. outcome[w] # "none" => click[w].ask # a
          BY <3>1, <3>3, <4>2 DEF CreditAt, TypeOK
        <4> QED BY <3>1, <3>2, <3>4, <3>6, <4>1, <4>2 DEF CreditAt, TypeOK
      <3> QED BY <3>5, <3>6
    <2>12. ASSUME NEW u \in Users, NEW a \in Asks, Lose(u, a) PROVE CreditInv'
      <3> SUFFICES ASSUME NEW w \in Users PROVE CreditAt(w)'
        BY DEF CreditInv
      <3>1. CreditAt(w) /\ CreditAt(u)
        BY DEF CreditInv
      <3>2. /\ click' = click /\ result' = result
            /\ outcome' = [outcome EXCEPT ![u] = "already_settled"]
            /\ click[u].ask = a /\ outcome[u] = "none"
        BY <2>12 DEF Lose, TooLate
      <3>3. result[a] # NoResult
        BY <2>12, <3>1, <3>2 DEF Lose, TooLate, Exists, ExistAt, VerdictInv, VerdictAt,
                                 TypeOK, NoClick
      <3>4. result[a].by # u
        BY <3>1, <3>2, <3>3 DEF CreditAt
      <3>5. CASE w = u
        <4>1. click[u] # NoClick
          BY <3>2 DEF NoClick
        <4>2. outcome'[u] = "already_settled"
          BY <3>2 DEF TypeOK
        <4>3. ASSUME NEW b \in Asks, result[b] # NoResult, result[b].by = u
              PROVE  FALSE
          BY <3>1, <3>2, <4>3 DEF CreditAt
        <4> QED BY <3>1, <3>2, <3>3, <3>4, <3>5, <4>1, <4>2, <4>3 DEF CreditAt
      <3>6. CASE w # u
        BY <3>1, <3>2, <3>6 DEF CreditAt, TypeOK
      <3> QED BY <3>5, <3>6
    <2>13. CASE UNCHANGED vars
      BY <2>0, <2>13 DEF vars, userVars
    <2> QED
      BY <2>1, <2>2, <2>3, <2>4, <2>5, <2>7, <2>8, <2>9, <2>10, <2>11, <2>12, <2>13
      DEF Next, Send, Answering
  <1> QED BY <1>1, <1>2, TypeCorrect, VerdictInvariant, ExistInvariant, PTL DEF Spec

\* settle credits the right user: whoever is told "accepted" gave the recorded
\* answer, for any number of clicks, texts, deadlines and sweeps that race.
THEOREM AcceptedIsOnRecordHolds == Spec => []AcceptedIsOnRecord
  <1>1. CreditInv => AcceptedIsOnRecord
    BY DEF CreditInv, CreditAt, AcceptedIsOnRecord
  <1> QED BY <1>1, CreditInvariant, PTL

\* Nobody is told "already settled" unless somebody else settled the ask.
THEOREM LoserWasBeatenHolds == Spec => []LoserWasBeaten
  <1>1. CreditInv => LoserWasBeaten
    BY DEF CreditInv, CreditAt, LoserWasBeaten
  <1> QED BY <1>1, CreditInvariant, PTL

-----------------------------------------------------------------------------
(***************************************************************************)
(* The answers: what is picked, what passed a handler's checks and what is *)
(* recorded respects the shape of the ask.                                 *)
(***************************************************************************)
PickedInv == \A a \in Asks : AtMostOneKey(a, picked[a])

AdmitInv ==
  /\ PickedInv
  /\ \A u \in Users : click[u] # NoClick => Admits(click[u].ask, click[u].result)
  /\ AnswerAdmissible

\* A toggle leaves one key at most in a single-select question.
LEMMA TogglePicked ==
  ASSUME TypeOK, PickedInv, NEW a \in Asks, NEW q \in Questions, NEW k \in Keys,
         Toggle(a, q, k)
  PROVE  PickedInv'
  <1> SUFFICES ASSUME NEW b \in Asks, NEW p \in QuestionsOf[b] \ MultiSelect,
                      NEW m \in picked'[b][p], NEW n \in picked'[b][p]
               PROVE  m = n
    BY DEF PickedInv, AtMostOneKey
  <1>1. p \in Questions
    BY BrokerAssumption
  <1>2. picked' = [picked EXCEPT ![a] = [picked[a] EXCEPT ![q] = Toggled(q, picked[a][q], k)]]
    BY DEF Toggle
  <1>3. CASE a = b /\ p = q
    <2>1. picked'[b][p] = Toggled(q, picked[a][q], k)
      BY <1>1, <1>2, <1>3 DEF TypeOK, Answers
    <2>2. Toggled(q, picked[a][q], k) = {k}
      BY <1>3 DEF Toggled
    <2> QED BY <2>1, <2>2
  <1>4. CASE ~(a = b /\ p = q)
    <2>1. picked'[b][p] = picked[b][p]
      BY <1>1, <1>2, <1>4 DEF TypeOK, Answers
    <2> QED BY <2>1 DEF PickedInv, AtMostOneKey
  <1> QED BY <1>3, <1>4

\* Settling with an admitted answer, or with none, records an admitted one.
LEMMA SettleAdmits ==
  ASSUME TypeOK, AnswerAdmissible, NEW a \in Asks, NEW r \in Results, NEW n \in BOOLEAN,
         Settle(a, r, n), r.kind = "answered" => Admits(a, r)
  PROVE  AnswerAdmissible'
  <1>1. result' = [result EXCEPT ![a] = r]
    BY DEF Settle
  <1> SUFFICES ASSUME NEW b \in Asks, result'[b] # NoResult, result'[b].kind = "answered"
               PROVE  Admits(b, result'[b])
    BY DEF AnswerAdmissible, Admits, AtMostOneKey
  <1>2. CASE a = b
    BY <1>1, <1>2 DEF TypeOK
  <1>3. CASE a # b
    BY <1>1, <1>3 DEF TypeOK, AnswerAdmissible
  <1> QED BY <1>2, <1>3

\* Answers respect the shape of their asks in every reachable state.
LEMMA AdmitInvariant == Spec => []AdmitInv
  <1> USE BrokerAssumption
  <1>1. Init => AdmitInv
    BY DEF Init, AdmitInv, PickedInv, AtMostOneKey, NoKeys, AnswerAdmissible
  <1>2. TypeOK /\ CreditInv /\ AdmitInv /\ [Next]_vars => AdmitInv'
    <2> SUFFICES ASSUME TypeOK, CreditInv, AdmitInv, [Next]_vars PROVE AdmitInv'
      OBVIOUS
    <2>0. ASSUME UNCHANGED <<picked, click, result>> PROVE AdmitInv'
      BY <2>0 DEF AdmitInv, PickedInv, AtMostOneKey, Admits, AnswerAdmissible
    <2>1. ASSUME NEW a \in Asks, NEW r \in Results, NEW n \in BOOLEAN, Settle(a, r, n),
                 r.kind = "answered" => Admits(a, r), UNCHANGED <<picked, click>>
          PROVE  AdmitInv'
      <3>1. AnswerAdmissible'
        BY <2>1, SettleAdmits DEF AdmitInv
      <3> QED BY <2>1, <3>1 DEF AdmitInv, PickedInv, AtMostOneKey, Admits
    <2>2. ASSUME NEW a \in Asks,
                 \/ Register(a) \/ SendCard(a) \/ SendFails(a) \/ RecordCard(a) \/ Receive(a)
                 \/ Elapse(a) \/ Forget(a) \/ OnSettle(a)
          PROVE  AdmitInv'
      BY <2>0, <2>2 DEF Register, SendCard, SendFails, RecordCard, Receive, Elapse, Forget,
                        OnSettle, userVars
    <2>3. ASSUME NEW a \in Asks, Undispatch(a) \/ TimeOut(a) \/ Invalidate(a) PROVE AdmitInv'
      <3>1. UNCHANGED <<picked, click>>
        BY <2>3 DEF Undispatch, TimeOut, Invalidate, userVars
      <3>2. CASE TooLate(a)
        BY <2>0, <3>1, <3>2 DEF TooLate
      <3>3. CASE Settle(a, Undispatched, FALSE)
        BY <2>1, <3>1, <3>3, NobodysResults DEF Undispatched
      <3>4. CASE Settle(a, TimedOut, FALSE)
        BY <2>1, <3>1, <3>4, NobodysResults DEF TimedOut, Undispatched
      <3>5. CASE Settle(a, Invalidated, TRUE)
        BY <2>1, <3>1, <3>5, NobodysResults DEF Invalidated, Undispatched
      <3> QED BY <2>3, <3>2, <3>3, <3>4, <3>5 DEF Undispatch, TimeOut, Invalidate
    <2>4. ASSUME NEW a \in Asks, NEW q \in Questions, NEW k \in Keys, Toggle(a, q, k)
          PROVE  AdmitInv'
      <3>1. PickedInv'
        BY <2>4, TogglePicked DEF AdmitInv
      <3>2. UNCHANGED <<click, result>>
        BY <2>4 DEF Toggle, userVars
      <3> QED BY <3>1, <3>2 DEF AdmitInv, Admits, AtMostOneKey, AnswerAdmissible
    <2>5. ASSUME NEW s \in Scopes, InvalidateScope(s) PROVE AdmitInv'
      BY <2>0, <2>5 DEF InvalidateScope, userVars
    <2>6. ASSUME NEW u \in Users, NEW a \in Asks, NEW r, NEW f, Checked(u, a, r, f),
                 Admits(a, r)
          PROVE  AdmitInv'
      <3>1. /\ click' = [click EXCEPT ![u] = [ask |-> a, result |-> r, from |-> f]]
            /\ UNCHANGED <<picked, result>>
        BY <2>6 DEF Checked
      <3>2. PickedInv' /\ AnswerAdmissible'
        BY <3>1 DEF AdmitInv, PickedInv, AtMostOneKey, AnswerAdmissible, Admits
      <3>3. ASSUME NEW w \in Users, click'[w] # NoClick
            PROVE  Admits(click'[w].ask, click'[w].result)
        <4>1. CASE w = u
          <5>1. click'[w].ask = a /\ click'[w].result = r
            BY <3>1, <4>1 DEF TypeOK
          <5> QED BY <2>6, <5>1
        <4>2. CASE w # u
          <5>1. click'[w] = click[w]
            BY <3>1, <4>2 DEF TypeOK
          <5> QED BY <3>3, <5>1 DEF AdmitInv
        <4> QED BY <4>1, <4>2
      <3> QED BY <3>2, <3>3 DEF AdmitInv, Admits, AtMostOneKey
    <2>7. ASSUME NEW u \in Users, NEW a \in Asks, NEW q \in Questions, NEW k \in Keys,
                 Select(u, a, q, k)
          PROVE  AdmitInv'
      <3> DEFINE ans == [NoKeys EXCEPT ![q] = {k}]
      <3>1. ans \in Answers /\ ans[q] = {k} /\ NoKeys[q] = {} /\ QuestionsOf[a] = {q}
        BY <2>7 DEF NoKeys, Answers, Select
      <3>2. Admits(a, UserResult(u, ans, FALSE))
        BY <3>1 DEF Admits, AtMostOneKey, UserResult
      <3> QED BY <2>6, <2>7, <3>2 DEF Select
    <2>8. ASSUME NEW u \in Users, NEW a \in Asks, Submit(u, a) PROVE AdmitInv'
      <3>1. Admits(a, UserResult(u, picked[a], FALSE))
        BY <2>8 DEF Submit, Admits, UserResult, AdmitInv, PickedInv
      <3> QED BY <2>6, <2>8, <3>1 DEF Submit
    <2>9. ASSUME NEW u \in Users, NEW a \in Asks, SubmitInput(u, a) PROVE AdmitInv'
      <3>1. Admits(a, UserResult(u, NoKeys, TRUE))
        BY <2>9 DEF SubmitInput, Admits, UserResult
      <3> QED BY <2>6, <2>9, <3>1 DEF SubmitInput
    <2>10. ASSUME NEW u \in Users, NEW s \in Scopes, SubmitComment(u, s) PROVE AdmitInv'
      <3>1. PICK a \in Asks : /\ IsNewest(a, OpenFreeform(ChatOf[s]))
                              /\ Checked(u, a, UserResult(u, NoKeys, TRUE), s)
        BY <2>10 DEF SubmitComment
      <3>2. Admits(a, UserResult(u, NoKeys, TRUE))
        BY <3>1 DEF IsNewest, OpenFreeform, Admits, UserResult
      <3> QED BY <2>6, <3>1, <3>2
    <2>11. ASSUME NEW u \in Users, NEW a \in Asks, Accept(u, a) PROVE AdmitInv'
      <3>1. click[u].ask = a /\ Settle(a, click[u].result, TRUE)
            /\ UNCHANGED <<picked, click>>
        BY <2>11 DEF Accept
      <3>2. click[u] # NoClick
        BY <3>1 DEF NoClick
      <3>3. click[u].result \in Results /\ Admits(a, click[u].result)
        BY <3>1, <3>2, ClickType DEF AdmitInv
      <3> QED BY <2>1, <3>1, <3>3
    <2>12. ASSUME NEW u \in Users, NEW a \in Asks, Lose(u, a) PROVE AdmitInv'
      BY <2>0, <2>12 DEF Lose, TooLate
    <2>13. CASE UNCHANGED vars
      BY <2>0, <2>13 DEF vars, userVars
    <2> QED
      BY <2>2, <2>3, <2>4, <2>5, <2>7, <2>8, <2>9, <2>10, <2>11, <2>12, <2>13
      DEF Next, Send, Answering
  <1> QED BY <1>1, <1>2, TypeCorrect, CreditInvariant, PTL DEF Spec

\* No race of toggles, submits and texts records an answer the ask does not
\* admit.
THEOREM AnswerAdmissibleHolds == Spec => []AnswerAdmissible
  <1>1. AdmitInv => AnswerAdmissible
    BY DEF AdmitInv
  <1> QED BY <1>1, AdmitInvariant, PTL

-----------------------------------------------------------------------------
\* The broker implements AskOnce: every ask gets one verdict, credited to its
\* author only and delivered unchanged.
THEOREM Refinement == Spec => ImplementsAskOnce
  <1> USE BrokerAssumption
  <1>1. Init => Abstract!Init
    BY DEF Init, Abstract!Init, Credited
  <1>2. TypeOK /\ VerdictInv /\ CreditInv /\ [Next]_vars => [Abstract!Next]_(Abstract!vars)
    <2> SUFFICES ASSUME TypeOK, VerdictInv, CreditInv, [Next]_vars
                 PROVE  [Abstract!Next]_(Abstract!vars)
      OBVIOUS
    <2>1. ASSUME \A u \in Users : outcome'[u] = "accepted" <=> outcome[u] = "accepted",
                 \A u \in Users : outcome[u] = "accepted" => click'[u] = click[u]
          PROVE  Credited' = Credited
      BY <2>1 DEF Credited
    <2>2. ASSUME UNCHANGED <<result, got>>, Credited' = Credited
          PROVE  UNCHANGED Abstract!vars
      BY <2>2 DEF Abstract!vars
    <2>3. ASSUME NEW a \in Asks, NEW r \in Results, NEW n \in BOOLEAN, Settle(a, r, n),
                 r.by = Nobody, UNCHANGED <<got, click, outcome>>
          PROVE  Abstract!Next
      <3>1. Credited' = Credited
        BY <2>1, <2>3
      <3>2. result[a] = NoResult
        BY <2>3 DEF Settle, VerdictInv, VerdictAt
      <3>3. result' = [result EXCEPT ![a] = r] /\ result'[a] = r
        BY <2>3 DEF Settle, TypeOK
      <3>4. Abstract!Decide(a, Nobody)
        BY <2>3, <3>2, <3>3 DEF Abstract!Decide
      <3>5. Abstract!Drop(a)
        BY <3>1, <3>4 DEF Abstract!Drop
      <3> QED BY <3>5 DEF Abstract!Next
    <2>4. ASSUME NEW a \in Asks,
                 \/ Register(a) \/ SendCard(a) \/ SendFails(a) \/ RecordCard(a)
                 \/ Elapse(a) \/ Forget(a) \/ OnSettle(a)
                 \/ \E q \in Questions, k \in Keys : Toggle(a, q, k)
          PROVE  UNCHANGED Abstract!vars
      <3>1. UNCHANGED <<result, got, click, outcome>>
        BY <2>4 DEF Register, SendCard, SendFails, RecordCard, Elapse, Forget, OnSettle, Toggle,
                    userVars
      <3> QED BY <2>1, <2>2, <3>1
    <2>5. ASSUME NEW a \in Asks, Receive(a) PROVE Abstract!Next
      <3>1. UNCHANGED <<result, click, outcome>> /\ got' = [got EXCEPT ![a] = resolve[a]]
        BY <2>5 DEF Receive, userVars
      <3>2. Credited' = Credited
        BY <2>1, <3>1
      <3>3. resolve[a] # NoResult /\ caller[a] = "waiting"
        BY <2>5 DEF Receive
      <3>4. resolve[a] = result[a] /\ result[a] # NoResult /\ got[a] = NoResult
        BY <3>3 DEF VerdictInv, VerdictAt
      <3>5. Abstract!Deliver(a)
        BY <3>1, <3>2, <3>4 DEF Abstract!Deliver
      <3> QED BY <3>5 DEF Abstract!Next
    <2>6. ASSUME NEW a \in Asks, Undispatch(a) \/ TimeOut(a) \/ Invalidate(a)
          PROVE  [Abstract!Next]_(Abstract!vars)
      <3>1. UNCHANGED <<got, click, outcome>>
        BY <2>6 DEF Undispatch, TimeOut, Invalidate, userVars
      <3>2. CASE TooLate(a)
        BY <2>1, <2>2, <3>1, <3>2 DEF TooLate
      <3>3. CASE Settle(a, Undispatched, FALSE)
        BY <2>3, <3>1, <3>3, NobodysResults DEF Undispatched
      <3>4. CASE Settle(a, TimedOut, FALSE)
        BY <2>3, <3>1, <3>4, NobodysResults DEF TimedOut, Undispatched
      <3>5. CASE Settle(a, Invalidated, TRUE)
        BY <2>3, <3>1, <3>5, NobodysResults DEF Invalidated, Undispatched
      <3> QED BY <2>6, <3>2, <3>3, <3>4, <3>5 DEF Undispatch, TimeOut, Invalidate
    <2>7. ASSUME NEW s \in Scopes, InvalidateScope(s) PROVE UNCHANGED Abstract!vars
      <3>1. UNCHANGED <<result, got, click, outcome>>
        BY <2>7 DEF InvalidateScope, userVars
      <3> QED BY <2>1, <2>2, <3>1
    <2>8. ASSUME NEW u \in Users, NEW a, NEW r, NEW f, click[u] = NoClick,
                 Checked(u, a, r, f)
          PROVE  UNCHANGED Abstract!vars
      <3>1. /\ click' = [click EXCEPT ![u] = [ask |-> a, result |-> r, from |-> f]]
            /\ UNCHANGED <<result, got, outcome>>
        BY <2>8 DEF Checked
      <3>2. outcome[u] = "none"
        BY <2>8 DEF CreditInv, CreditAt
      <3>3. \A w \in Users : outcome[w] = "accepted" => click'[w] = click[w]
        BY <3>1, <3>2 DEF TypeOK
      <3> QED BY <2>1, <2>2, <3>1, <3>3
    <2>9. ASSUME NEW u \in Users, NEW s \in Scopes, SubmitComment(u, s)
          PROVE  UNCHANGED Abstract!vars
      BY <2>8, <2>9 DEF SubmitComment
    <2>10. ASSUME NEW u \in Users, NEW a \in Asks, Accept(u, a) PROVE Abstract!Next
      <3> DEFINE r == click[u].result
      <3>1. /\ click[u].ask = a /\ outcome[u] = "none"
            /\ outcome' = [outcome EXCEPT ![u] = "accepted"]
            /\ UNCHANGED <<got, click>>
            /\ entry[a] = "open" /\ result' = [result EXCEPT ![a] = r]
        BY <2>10 DEF Accept, Settle
      <3>2. click[u] # NoClick
        BY <3>1 DEF NoClick
      <3>3. r \in Results /\ r.by = u
        BY <3>2, ClickType DEF CreditInv, CreditAt
      <3>4. result[a] = NoResult
        BY <3>1 DEF VerdictInv, VerdictAt
      <3>5. Credited[u] = NoAsk
        BY <3>1 DEF Credited
      <3>6. Credited' = [Credited EXCEPT ![u] = a]
        <4>1. ASSUME NEW w \in Users
              PROVE  (IF outcome'[w] = "accepted" THEN click'[w].ask ELSE NoAsk)
                     = IF w = u THEN a
                       ELSE IF outcome[w] = "accepted" THEN click[w].ask ELSE NoAsk
          BY <3>1 DEF TypeOK
        <4> QED BY <4>1 DEF Credited
      <3>7. result'[a] = r
        BY <3>1 DEF TypeOK
      <3>8. Abstract!Decide(a, u)
        BY <3>1, <3>3, <3>4, <3>7 DEF Abstract!Decide
      <3>9. Abstract!Answer(a, u)
        BY <3>5, <3>6, <3>8 DEF Abstract!Answer
      <3> QED BY <3>9 DEF Abstract!Next
    <2>11. ASSUME NEW u \in Users, NEW a \in Asks, Lose(u, a)
           PROVE  UNCHANGED Abstract!vars
      <3>1. /\ UNCHANGED <<result, got, click>> /\ outcome[u] = "none"
            /\ outcome' = [outcome EXCEPT ![u] = "already_settled"]
        BY <2>11 DEF Lose, TooLate
      <3>2. \A w \in Users : outcome'[w] = "accepted" <=> outcome[w] = "accepted"
        BY <3>1 DEF TypeOK
      <3> QED BY <2>1, <2>2, <3>1, <3>2
    <2>12. ASSUME NEW u \in Users, Answering(u)
           PROVE  [Abstract!Next]_(Abstract!vars)
      <3>1. PICK a \in Asks : \/ \E q \in Questions, k \in Keys : Select(u, a, q, k)
                              \/ Submit(u, a)
                              \/ SubmitInput(u, a)
                              \/ Accept(u, a)
                              \/ Lose(u, a)
        BY <2>12 DEF Answering
      <3>2. CASE Accept(u, a) \/ Lose(u, a)
        BY <2>10, <2>11, <3>2
      <3>3. CASE ~(Accept(u, a) \/ Lose(u, a))
        BY <2>8, <3>1, <3>3 DEF Select, Submit, SubmitInput, Sees
      <3> QED BY <3>2, <3>3
    <2>13. CASE UNCHANGED vars
      BY <2>1, <2>2, <2>13 DEF vars, userVars
    <2> QED BY <2>4, <2>5, <2>6, <2>7, <2>9, <2>12, <2>13 DEF Next, Send
  <1> QED BY <1>1, <1>2, TypeCorrect, VerdictInvariant, CreditInvariant, PTL
          DEF Spec, ImplementsAskOnce, Abstract!Spec
=============================================================================
