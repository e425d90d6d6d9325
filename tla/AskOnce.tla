------------------------------- MODULE AskOnce -------------------------------
(***************************************************************************)
(* What the ask broker promises, whoever races for an ask: it gets one     *)
(* verdict, only the user whose answer became the verdict is told so, and  *)
(* the agent that asked receives that verdict and nothing else.            *)
(***************************************************************************)
CONSTANTS Asks,     \* questions agents ask
          Users,    \* attempts of users to answer, each at most once
          Results,  \* verdicts; r.by is the attempt it comes from
          Nobody,   \* r.by of a verdict no user gave
          NoResult, \* not decided, or not delivered
          NoAsk     \* not credited with any ask

VARIABLES verdict,   \* verdict[a]: how ask a was decided
          delivered, \* delivered[a]: what its agent received
          credited   \* credited[u]: the ask user u was told to have answered

vars == <<verdict, delivered, credited>>

Init == /\ verdict = [a \in Asks |-> NoResult]
        /\ delivered = [a \in Asks |-> NoResult]
        /\ credited = [u \in Users |-> NoAsk]

\* Ask a gets a verdict that comes from b.
Decide(a, b) ==
  /\ verdict[a] = NoResult
  /\ verdict'[a] \in Results /\ verdict'[a].by = b
  /\ verdict' = [verdict EXCEPT ![a] = verdict'[a]]
  /\ UNCHANGED delivered

Answer(a, u) ==
  /\ credited[u] = NoAsk
  /\ Decide(a, u)
  /\ credited' = [credited EXCEPT ![u] = a]

Drop(a) == Decide(a, Nobody) /\ UNCHANGED credited

Deliver(a) ==
  /\ verdict[a] # NoResult /\ delivered[a] = NoResult
  /\ delivered' = [delivered EXCEPT ![a] = verdict[a]]
  /\ UNCHANGED <<verdict, credited>>

Next == \E a \in Asks : Drop(a) \/ Deliver(a) \/ \E u \in Users : Answer(a, u)

Spec == Init /\ [][Next]_vars
=============================================================================
