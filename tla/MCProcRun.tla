------------------------------- MODULE MCProcRun ------------------------------
(* ProcRun for TLC: what the agents of the run write.                         *)
EXTENDS ProcRun

Line(kind, id) == [kind |-> kind, id |-> id]
Says == Line("text", 0)
Calls(id) == Line("thought and call", id)
Returns(id) == Line("tool_result", id)
Closes == Line("result", 0)

SomeScripts == {
  [adapter |-> "claude", lines |-> <<Says, Calls(1), Says, Returns(1)>>],
  [adapter |-> "claude", lines |-> <<Says, Says, Closes>>],
  [adapter |-> "claude", lines |-> <<Calls(1), Closes, Line("system", 0)>>],
  [adapter |-> "kimi", lines |-> <<Line("meta", 0), Says, Says>>]}
=============================================================================
