----------------------------- MODULE MCAskBroker -----------------------------
(***************************************************************************)
(* Instances of AskBroker: a question form with a single- and a            *)
(* multi-select question, and asks of several shapes.                      *)
(***************************************************************************)
EXTENDS AskBroker, TLC

CONSTANTS a1, a2, u1, u2, s1, s2, c1, q1, q2, q3, k1, k2

\* a1: one single-select question.  a2: a form of a single- and a multi-select
\* question that also takes a text.  They are asked in two topics of one chat,
\* and q3 is the question of some other ask.
TwoScopeOf == a1 :> s1 @@ a2 :> s2
TwoChatOf == s1 :> c1 @@ s2 :> c1
TwoQuestionsOf == a1 :> {q1} @@ a2 :> {q1, q2}

\* Bound: users race for one ask at a time; beside the other ask there is one
\* user, no toggle, and no dispatch that fails.
OneContest == Len(born) = 2 => /\ click[u2] = NoClick
                               /\ \A a \in Asks : picked[a] = NoKeys
                               /\ \A a \in Asks : caller[a] # "refused"

=============================================================================
