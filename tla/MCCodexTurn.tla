----------------------------- MODULE MCCodexTurn ------------------------------
EXTENDS CodexTurn

Turn(shared, resume, disk, plan) ==
  [shared |-> shared, resume |-> resume, disk |-> disk, plan |-> plan]

\* A first turn with a plan, a turn of a resumed thread that its session file
\* may show to run, and one of a thread in the shared daemon.
SomeTurns == {Turn(FALSE, FALSE, FALSE, TRUE), Turn(FALSE, TRUE, TRUE, FALSE),
              Turn(TRUE, TRUE, FALSE, FALSE)}

Question(id, prompt, options, secret) ==
  [id |-> id, prompt |-> prompt, options |-> options, other |-> FALSE, secret |-> secret]
Input(questions) == [kind |-> "input", available |-> {}, questions |-> questions]

\* A command the agent cannot be allowed for the session; a card with questions
\* that are left out, a secret and a free one, and one that takes no text.
SomeAsks ==
  {[kind |-> "command", available |-> {"accept", "decline"}, questions |-> << >>],
   Input(<<Question("", TRUE, {"a"}, FALSE), Question("e", FALSE, {"a"}, FALSE),
           Question("s", FALSE, {"a", "b"}, TRUE), Question("t", TRUE, {}, FALSE)>>),
   Input(<<Question("s", TRUE, {}, TRUE), Question("u", TRUE, {"a", "b"}, FALSE)>>)}
=============================================================================
