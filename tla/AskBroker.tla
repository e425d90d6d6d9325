------------------------------ MODULE AskBroker ------------------------------
(***************************************************************************)
(* The registry of questions that agents ask (internal/ask/broker.go) and  *)
(* its Feishu dispatcher (internal/bridge/ask.go).  Every action is one    *)
(* critical section of Broker.mu or one call to Feishu; what a goroutine   *)
(* read under the mutex and uses after it is a variable.                   *)
(*                                                                         *)
(* Actors: the goroutine that called Register and waits for the result;    *)
(* card callbacks and chat texts of users; the deadline timer; stopRun and *)
(* the end of a run, which invalidate a scope; the OnSettle goroutine.     *)
(* An ask id and its nonce are one name: only the ask's own card holds it. *)
(***************************************************************************)
EXTENDS Naturals, Sequences, SequencesExt

CONSTANTS
  Asks,         \* ask ids
  Users,        \* attempts of users to settle an ask, each at most once
  Scopes,       \* conversation scopes
  Chats,        \* Feishu chats; the topics of a p2p chat are scopes of one chat
  Questions,    \* questions
  Keys,         \* option keys; every question offers all of them
  ScopeOf,      \* ScopeOf[a]: Route.Scope of the ask
  ChatOf,       \* ChatOf[s]: the chat a scope belongs to
  QuestionsOf,  \* QuestionsOf[a]: the ask's questions
  MultiSelect,  \* the questions that take several keys
  Freeform,     \* the asks that take a text
  Card,         \* where a click is made; a text is typed in a scope
  Nobody, NoResult, NoAsk

\* Selected keys per question; an ask leaves the questions of others empty.
Answers == [Questions -> SUBSET Keys]
NoKeys == [q \in Questions |-> {}]

\* "undispatched" is KindInvalidated with the reason "card dispatch failed".
Kinds == {"answered", "timed_out", "invalidated", "undispatched"}

\* text: the result has a Comment.
Results == [kind : Kinds, by : Users \cup {Nobody}, answers : Answers, text : BOOLEAN]

\* validateInput: an ask has questions, and a question has options.
ASSUME BrokerAssumption ==
  /\ ScopeOf \in [Asks -> Scopes]
  /\ ChatOf \in [Scopes -> Chats]
  /\ QuestionsOf \in [Asks -> SUBSET Questions]
  /\ \A a \in Asks : QuestionsOf[a] # {}
  /\ Keys # {}
  /\ MultiSelect \subseteq Questions
  /\ Freeform \subseteq Asks
  /\ Nobody \notin Users
  /\ NoResult \notin Results
  /\ NoAsk \notin Asks
  /\ Card \notin Scopes

VARIABLES
  entry,    \* entry[a]: "absent", "open", "settled", or "gone" from b.pending
  result,   \* result[a]: Pending.Result
  picked,   \* picked[a]: internalAsk.selections
  carded,   \* carded[a]: Pending.CardEntityID is known
  deadline, \* deadline[a]: timeoutHandle "off", "armed", or "elapsed"
  resolve,  \* resolve[a]: content of the result channel of capacity one
  born,     \* asks in the order of CreatedAt
  caller,   \* caller[a]: where the goroutine that called Register is
  got,      \* got[a]: what Register returned
  card,     \* card[a]: the card users see, "none", "live" or "final"
  notice,   \* notice[a]: the OnSettle goroutine's snapshot, or "none"/"done"
  click,    \* click[u]: an answer that passed the checks, and where it was given
  outcome,  \* outcome[u]: the ClickOutcome of an answer that was settled
  sweeping  \* asks InvalidateScope collected and has not invalidated yet

userVars == <<click, outcome>>
vars == <<entry, result, picked, carded, deadline, resolve, born, caller, got,
          card, notice, click, outcome, sweeping>>

NoClick == [ask |-> NoAsk, result |-> NoResult, from |-> Card]

Init ==
  /\ entry = [a \in Asks |-> "absent"]
  /\ result = [a \in Asks |-> NoResult]
  /\ picked = [a \in Asks |-> NoKeys]
  /\ carded = [a \in Asks |-> FALSE]
  /\ deadline = [a \in Asks |-> "off"]
  /\ resolve = [a \in Asks |-> NoResult]
  /\ born = <<>>
  /\ caller = [a \in Asks |-> "idle"]
  /\ got = [a \in Asks |-> NoResult]
  /\ card = [a \in Asks |-> "none"]
  /\ notice = [a \in Asks |-> "none"]
  /\ click = [u \in Users |-> NoClick]
  /\ outcome = [u \in Users |-> "none"]
  /\ sweeping = {}

-----------------------------------------------------------------------------
\* settle, for the caller that finds the ask unsettled: record the result,
\* stop the timer, send to the waiting Register (the channel holds one, a
\* second send is dropped), and start OnSettle with a snapshot of the ask.
Offer(ch, r) == IF ch = NoResult THEN r ELSE ch

\* Faulty settle: the check of Settled is missing.
SettleTwice(a, r, notify) ==
  /\ entry' = [entry EXCEPT ![a] = "settled"]
  /\ result' = [result EXCEPT ![a] = r]
  /\ deadline' = [deadline EXCEPT ![a] = "off"]
  /\ resolve' = [resolve EXCEPT ![a] = Offer(@, r)]
  /\ notice' = [notice EXCEPT ![a] = IF notify THEN "card" ELSE @]

Settle(a, r, notify) ==
  /\ entry[a] = "open"
  /\ entry' = [entry EXCEPT ![a] = "settled"]
  /\ result' = [result EXCEPT ![a] = r]
  /\ deadline' = [deadline EXCEPT ![a] = "off"]
  /\ resolve' = [resolve EXCEPT ![a] = Offer(@, r)]
  /\ notice' = [notice EXCEPT ![a] = IF ~notify THEN @
                                     ELSE IF carded[a] THEN "card" ELSE "nocard"]

\* settle, when somebody else was first.
TooLate(a) == /\ entry[a] # "open"
              /\ UNCHANGED <<entry, result, deadline, resolve, notice>>

Undispatched == [kind |-> "undispatched", by |-> Nobody, answers |-> NoKeys, text |-> FALSE]
TimedOut == [Undispatched EXCEPT !.kind = "timed_out"]
Invalidated == [Undispatched EXCEPT !.kind = "invalidated"]

\* Register up to dispatcher.Send: insert the ask and arm its deadline.
\* Faulty Register: no timer.
RegisterUntimed(a) ==
  /\ caller[a] = "idle"
  /\ caller' = [caller EXCEPT ![a] = "sending"]
  /\ entry' = [entry EXCEPT ![a] = "open"]
  /\ born' = Append(born, a)
  /\ UNCHANGED <<result, picked, carded, deadline, resolve, got, card, notice, userVars,
                 sweeping>>

Register(a) ==
  /\ caller[a] = "idle"
  /\ caller' = [caller EXCEPT ![a] = "sending"]
  /\ entry' = [entry EXCEPT ![a] = "open"]
  /\ deadline' = [deadline EXCEPT ![a] = "armed"]
  /\ born' = Append(born, a)
  /\ UNCHANGED <<result, picked, carded, resolve, got, card, notice, userVars, sweeping>>

\* Send: the card and the message that shows it reach Feishu.
SendCard(a) ==
  /\ caller[a] = "sending"
  /\ caller' = [caller EXCEPT ![a] = "sent"]
  /\ card' = [card EXCEPT ![a] = "live"]
  /\ UNCHANGED <<entry, result, picked, carded, deadline, resolve, born, got, notice,
                 userVars, sweeping>>

\* Send returns an error, whether or not Feishu shows the card by then (the
\* two calls share a timeout of 15 s) ...
SendFails(a) ==
  /\ caller[a] = "sending"
  /\ caller' = [caller EXCEPT ![a] = "refused"]
  /\ \E c \in {"none", "live"} : card' = [card EXCEPT ![a] = c]
  /\ UNCHANGED <<entry, result, picked, carded, deadline, resolve, born, got, notice,
                 userVars, sweeping>>

\* ... and Register settles the ask itself, if no user of that card did.
Undispatch(a) ==
  /\ caller[a] = "refused"
  /\ caller' = [caller EXCEPT ![a] = "waiting"]
  /\ Settle(a, Undispatched, FALSE) \/ TooLate(a)
  /\ UNCHANGED <<picked, carded, born, got, card, userVars, sweeping>>

\* After Send: remember the card, unless the ask was settled meanwhile.
RecordCard(a) ==
  /\ caller[a] = "sent"
  /\ caller' = [caller EXCEPT ![a] = "waiting"]
  /\ carded' = [carded EXCEPT ![a] = entry[a] = "open"]
  /\ UNCHANGED <<entry, result, picked, deadline, resolve, born, got, card, notice,
                 userVars, sweeping>>

\* The end of Register: <-ia.resolve.
Receive(a) ==
  /\ caller[a] = "waiting" /\ resolve[a] # NoResult
  /\ caller' = [caller EXCEPT ![a] = "returned"]
  /\ got' = [got EXCEPT ![a] = resolve[a]]
  /\ resolve' = [resolve EXCEPT ![a] = NoResult]
  /\ UNCHANGED <<entry, result, picked, carded, deadline, born, card, notice,
                 userVars, sweeping>>

-----------------------------------------------------------------------------
\* The deadline's goroutine starts ...
Elapse(a) ==
  /\ deadline[a] = "armed"
  /\ deadline' = [deadline EXCEPT ![a] = "elapsed"]
  /\ UNCHANGED <<entry, result, picked, carded, resolve, born, caller, got, card,
                 notice, userVars, sweeping>>

\* ... and settles, unless it comes too late (then it changes nothing).
TimeOut(a) ==
  /\ deadline[a] = "elapsed"
  /\ Settle(a, TimedOut, FALSE)
  /\ UNCHANGED <<picked, carded, born, caller, got, card, userVars, sweeping>>

\* InvalidateScope (stopRun, end of a run): collect the ids under the mutex ...
InvalidateScope(s) ==
  /\ sweeping' = sweeping \cup {a \in Asks : entry[a] = "open" /\ ScopeOf[a] = s}
  /\ UNCHANGED <<entry, result, picked, carded, deadline, resolve, born, caller, got,
                 card, notice, userVars>>

\* ... then invalidate each of them.
Invalidate(a) ==
  /\ a \in sweeping
  /\ sweeping' = sweeping \ {a}
  /\ Settle(a, Invalidated, TRUE) \/ TooLate(a)
  /\ UNCHANGED <<picked, carded, born, caller, got, card, userVars>>

\* The retention timer of settle: 60 s later the ask leaves b.pending.
\* Faulty retention: it does not look whether the ask is settled.
ForgetAny(a) ==
  /\ entry[a] # "absent"
  /\ entry' = [entry EXCEPT ![a] = "gone"]
  /\ UNCHANGED <<result, picked, carded, deadline, resolve, born, caller, got, card,
                 notice, userVars, sweeping>>

Forget(a) ==
  /\ entry[a] = "settled"
  /\ entry' = [entry EXCEPT ![a] = "gone"]
  /\ UNCHANGED <<result, picked, carded, deadline, resolve, born, caller, got, card,
                 notice, userVars, sweeping>>

\* OnSettle: update the card, if the snapshot knows it.
OnSettle(a) ==
  /\ notice[a] \in {"card", "nocard"}
  /\ notice' = [notice EXCEPT ![a] = "done"]
  /\ card' = [card EXCEPT ![a] = IF notice[a] = "card" THEN "final" ELSE @]
  /\ UNCHANGED <<entry, result, picked, carded, deadline, resolve, born, caller, got,
                 userVars, sweeping>>

-----------------------------------------------------------------------------
\* The handlers of users check under the mutex, release it, and settle.  A
\* check that fails returns an outcome and changes nothing.
Sees(u, a) == click[u] = NoClick /\ card[a] # "none"

UserResult(u, answers, text) ==
  [kind |-> "answered", by |-> u, answers |-> answers, text |-> text]

Checked(u, a, r, from) ==
  /\ entry[a] = "open"
  /\ click' = [click EXCEPT ![u] = [ask |-> a, result |-> r, from |-> from]]
  /\ UNCHANGED <<entry, result, picked, carded, deadline, resolve, born, caller, got,
                 card, notice, outcome, sweeping>>

\* What a toggle makes of the keys of a question.
Toggled(q, keys, k) == IF q \notin MultiSelect THEN {k}
                       ELSE IF k \in keys THEN keys \ {k} ELSE keys \cup {k}

Toggle(a, q, k) ==
  /\ card[a] # "none" /\ entry[a] = "open"
  /\ q \in QuestionsOf[a]
  /\ picked' = [picked EXCEPT ![a][q] = Toggled(q, @, k)]
  /\ UNCHANGED <<entry, result, carded, deadline, resolve, born, caller, got, card,
                 notice, userVars, sweeping>>

\* Select: one click answers an ask of one single-select question.
Select(u, a, q, k) ==
  /\ Sees(u, a)
  /\ QuestionsOf[a] = {q} /\ q \notin MultiSelect
  /\ Checked(u, a, UserResult(u, [NoKeys EXCEPT ![q] = {k}], FALSE), Card)

\* Submit: the toggled selections, of which there must be at least one.
Submit(u, a) ==
  /\ Sees(u, a)
  /\ picked[a] # NoKeys
  /\ Checked(u, a, UserResult(u, picked[a], FALSE), Card)

\* SubmitInput: a text typed into the card of a freeform ask.
SubmitInput(u, a) ==
  /\ Sees(u, a)
  /\ a \in Freeform
  /\ Checked(u, a, UserResult(u, NoKeys, TRUE), Card)

\* FindFreeformByChat: the newest unsettled freeform ask of the chat.
OpenFreeform(c) == {a \in Freeform : entry[a] = "open" /\ ChatOf[ScopeOf[a]] = c}

IsNewest(a, S) == /\ a \in S
                  /\ \A i, j \in DOMAIN born : born[i] = a /\ born[j] \in S => j <= i

\* tryAnswerAskWithText, then SubmitComment: a text typed in scope s.
SubmitComment(u, s) ==
  /\ click[u] = NoClick
  /\ \E a \in Asks :
       /\ IsNewest(a, OpenFreeform(ChatOf[s]))
       /\ Checked(u, a, UserResult(u, NoKeys, TRUE), s)

\* settle of a checked answer.  The response to the callback of a click
\* replaces the card; a chat text has no such response.
Accept(u, a) ==
  /\ outcome[u] = "none"
  /\ click[u].ask = a
  /\ Settle(a, click[u].result, TRUE)
  /\ outcome' = [outcome EXCEPT ![u] = "accepted"]
  /\ card' = [card EXCEPT ![a] = IF click[u].from = Card THEN "final" ELSE @]
  /\ UNCHANGED <<picked, carded, born, caller, got, click, sweeping>>

Lose(u, a) ==
  /\ outcome[u] = "none"
  /\ click[u].ask = a
  /\ TooLate(a)
  /\ outcome' = [outcome EXCEPT ![u] = "already_settled"]
  /\ UNCHANGED <<picked, carded, born, caller, got, card, click, sweeping>>

-----------------------------------------------------------------------------
\* What the broker's own goroutines do for an ask, whatever users do.
Send(a) == SendCard(a) \/ SendFails(a) \/ Undispatch(a)

Answering(u) == \E a \in Asks :
  \/ \E q \in Questions, k \in Keys : Select(u, a, q, k)
  \/ Submit(u, a)
  \/ SubmitInput(u, a)
  \/ Accept(u, a)
  \/ Lose(u, a)

Next ==
  \/ \E a \in Asks :
       \/ Register(a) \/ Send(a) \/ RecordCard(a) \/ Receive(a)
       \/ Elapse(a) \/ TimeOut(a)
       \/ Invalidate(a) \/ Forget(a) \/ OnSettle(a)
       \/ \E q \in Questions, k \in Keys : Toggle(a, q, k)
  \/ \E s \in Scopes : InvalidateScope(s) \/ \E u \in Users : SubmitComment(u, s)
  \/ \E u \in Users : Answering(u)

Spec == Init /\ [][Next]_vars

\* Goroutines run, calls to Feishu return within their timeout, timers elapse.
\* Nothing makes a user answer, a scope be invalidated or an agent ask.
Machine(a) == \/ Send(a) \/ RecordCard(a) \/ Receive(a) \/ Elapse(a) \/ TimeOut(a)
              \/ Invalidate(a) \/ OnSettle(a)

FairSpec == Spec /\ \A a \in Asks : WF_vars(Machine(a))

-----------------------------------------------------------------------------
Clicks == [ask : Asks, result : Results, from : Scopes \cup {Card}]

\* Values of the variables; no selection outside the questions of an ask.
TypeOK ==
  /\ entry \in [Asks -> {"absent", "open", "settled", "gone"}]
  /\ result \in [Asks -> Results \cup {NoResult}]
  /\ picked \in [Asks -> Answers]
  /\ \A a \in Asks : \A q \in Questions \ QuestionsOf[a] : picked[a][q] = {}
  /\ carded \in [Asks -> BOOLEAN]
  /\ deadline \in [Asks -> {"off", "armed", "elapsed"}]
  /\ resolve \in [Asks -> Results \cup {NoResult}]
  /\ born \in Seq(Asks)
  /\ caller \in [Asks -> {"idle", "sending", "sent", "refused", "waiting", "returned"}]
  /\ got \in [Asks -> Results \cup {NoResult}]
  /\ card \in [Asks -> {"none", "live", "final"}]
  /\ notice \in [Asks -> {"none", "card", "nocard", "done"}]
  /\ click \in [Users -> Clicks \cup {NoClick}]
  /\ outcome \in [Users -> {"none", "accepted", "already_settled"}]
  /\ sweeping \subseteq Asks

\* Whatever handler an answer came through, and whoever raced it, the result
\* is one the ask admits: a text only for a freeform ask, otherwise some
\* selection, of one key at most where the question is single-select.
AtMostOneKey(a, answers) == \A q \in QuestionsOf[a] \ MultiSelect :
                              \A k, l \in answers[q] : k = l

Admits(a, r) == IF r.text THEN a \in Freeform
                ELSE r.answers # NoKeys /\ AtMostOneKey(a, r.answers)

AnswerAdmissible ==
  \A a \in Asks : result[a] # NoResult /\ result[a].kind = "answered" =>
    Admits(a, result[a])

\* settle decides the race: of all clicks, texts, the deadline and the sweeps,
\* the user who is told "accepted" is the one whose answer is on record.
AcceptedIsOnRecord ==
  \A u \in Users : outcome[u] = "accepted" =>
    result[click[u].ask] = click[u].result

\* A user is told "already settled" only when somebody else settled the ask.
LoserWasBeaten ==
  \A u \in Users : outcome[u] = "already_settled" =>
    /\ result[click[u].ask] # NoResult
    /\ result[click[u].ask].by # u

\* Register returns to the agent what the users were told.
ReturnedIsOnRecord ==
  \A a \in Asks : got[a] # NoResult => got[a] = result[a]

\* The result of a settled ask waits in the channel until Register takes it,
\* also when the ask was settled before Register began to wait.
ResultWaits ==
  \A a \in Asks : result[a] # NoResult /\ got[a] = NoResult => resolve[a] = result[a]

\* Every Register returns: an answer, a sweep, a failed send or, at the latest,
\* the deadline ends the wait.
RegisterReturns == \A a \in Asks : caller[a] = "sending" ~> caller[a] = "returned"

\* Topics of one chat are separate scopes: a text typed in one of them may
\* only answer a question that was asked in it (ADR-0010).
TextAnswersOwnScope ==
  \A u \in Users : click[u].from \in Scopes => ScopeOf[click[u].ask] = click[u].from

\* Seen from outside, the broker gives every ask one verdict.
Credited == [u \in Users |-> IF outcome[u] = "accepted" THEN click[u].ask ELSE NoAsk]

Abstract == INSTANCE AskOnce WITH verdict <- result, delivered <- got, credited <- Credited

\* The broker implements AskOnce: one verdict, told to its author only, and
\* delivered to the agent that asked.
ImplementsAskOnce == Abstract!Spec
=============================================================================
