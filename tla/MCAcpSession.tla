----------------------------- MODULE MCAcpSession -----------------------------
(* AcpSession for TLC: questions of each shape, and permissions with and     *)
(* without an option that grants.                                            *)
EXTENDS AcpSession

Option(k, l) == [key |-> k, label |-> l]
Q(d, p, m, options) == [id |-> d, prompt |-> p, multi |-> m, options |-> options]
Asked(title, questions) == [title |-> title, questions |-> questions]
AskedQuestions == {
  Asked("", <<Q("q1", "", FALSE, <<Option("a", "A")>>)>>),
  Asked("pick", <<Q("q1", "which", FALSE, <<Option("a", "A"), Option("", "B")>>),
                  Q("", "", FALSE, << >>)>>),
  Asked("", <<Q("", "", FALSE, << >>), Q("", "which", TRUE, <<Option("a", "A"), Option("b", "")>>),
              Q("q3", "why", FALSE, << >>)>>),
  Asked("", <<Q("q1", "which", FALSE, <<Option("a", "A")>>), Q("q2", "which", FALSE, <<Option("b", "B")>>)>>)}
AskedOptions == {<< >>, <<"reject_once">>, <<"reject_once", "allow_once">>,
                 <<"allow_once", "reject_always", "allow_always">>}
=============================================================================
