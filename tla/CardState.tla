------------------------------ MODULE CardState -------------------------------
(***************************************************************************)
(* The state a run's card is drawn from, and Reduce, which folds an event  *)
(* of the agent into it (internal/card/state.go).  What a text says is the *)
(* list of the lines of the agent it came from; the statistics of the      *)
(* footer are left out.                                                    *)
(***************************************************************************)
EXTENDS Naturals, Sequences

\* An event: of which line of the agent, which tool it is about, whether that
\* failed, and why the run ended.
EventTypes ==
  {"system", "text", "thinking", "tool_use", "tool_result", "usage", "error", "done"}
Event(type, line, id, failed, reason) ==
  [type |-> type, line |-> line, id |-> id, failed |-> failed, reason |-> reason]
EventText(line) == Event("text", line, 0, FALSE, "none")
EventToolUse(line, id) == Event("tool_use", line, id, FALSE, "none")
EventToolResult(line, id, failed) == Event("tool_result", line, id, failed, "none")
EventThinking(line) == Event("thinking", line, 0, FALSE, "none")
EventUsage(line) == Event("usage", line, 0, FALSE, "none")
EventSystem(line) == Event("system", line, 0, FALSE, "none")
EventDone(line, reason) == Event("done", line, 0, FALSE, reason)
EventError(line, reason) == Event("error", line, 0, TRUE, reason)

TextBlock(line) == [kind |-> "text", content |-> <<line>>, streaming |-> TRUE,
                    id |-> 0, status |-> "none"]
ToolBlock(line, id) == [kind |-> "tool", content |-> <<line>>, streaming |-> FALSE,
                        id |-> id, status |-> "running"]

\* thinking: the agent's reasoning is shown as under way.
InitialState ==
  [blocks |-> << >>, thinking |-> FALSE, footer |-> "thinking", terminal |-> "running"]

\* The states a card is drawn from.
Blocks == [kind : {"text", "tool"}, content : Seq(Nat), streaming : BOOLEAN,
           id : Nat, status : {"none", "running", "done", "error"}]
RunStates ==
  [blocks : Seq(Blocks), thinking : BOOLEAN,
   footer : {"thinking", "streaming", "tool_running", "none"},
   terminal : {"running", "done", "interrupted", "idle_timeout", "error"}]

closeStreamingText(blocks) ==
  [i \in DOMAIN blocks |-> [blocks[i] EXCEPT !.streaming = FALSE]]

\* Faulty: a delta goes to the last text, also when a tool call came after it.
AddTextBefore(blocks, line) ==
  LET texts == {i \in DOMAIN blocks : blocks[i].kind = "text"}
  IN  IF texts = {} THEN Append(blocks, TextBlock(line))
      ELSE LET n == CHOOSE i \in texts : \A j \in texts : j <= i
           IN  [blocks EXCEPT ![n].content = Append(@, line)]

AddText(blocks, line) ==
  LET n == Len(blocks)
  IN  IF n > 0 /\ blocks[n].streaming
      THEN [blocks EXCEPT ![n].content = Append(@, line)]
      ELSE Append(blocks, TextBlock(line))

\* Every call with the ID of the result has it.
PutResult(blocks, id, status) ==
  [i \in DOMAIN blocks |->
     IF blocks[i].kind = "tool" /\ blocks[i].id = id
     THEN [blocks[i] EXCEPT !.status = status] ELSE blocks[i]]

\* How the reason of the last event reads on the card.
Terminal(reason, otherwise) ==
  CASE reason = "interrupted" -> "interrupted"
    [] reason = "timeout" -> "idle_timeout"
    [] OTHER -> otherwise

ReduceText(s, e) ==
  [s EXCEPT !.blocks = AddText(@, e.line), !.thinking = FALSE, !.footer = "streaming"]

ReduceThinking(s) == [s EXCEPT !.thinking = TRUE, !.footer = "thinking"]

ReduceToolUse(s, e) ==
  [s EXCEPT !.blocks = Append(closeStreamingText(@), ToolBlock(e.line, e.id)),
            !.thinking = FALSE, !.footer = "tool_running"]

ReduceToolResult(s, e) ==
  [s EXCEPT !.blocks = PutResult(@, e.id, IF e.failed THEN "error" ELSE "done")]

ReduceError(s, e) ==
  [s EXCEPT !.terminal = Terminal(e.reason, "error"), !.footer = "none"]

ReduceDone(s, e) ==
  [s EXCEPT !.blocks = closeStreamingText(@), !.thinking = FALSE, !.footer = "none",
            !.terminal = Terminal(e.reason, "done")]

Reduce(s, e) ==
  CASE e.type = "text" -> ReduceText(s, e)
    [] e.type = "thinking" -> ReduceThinking(s)
    [] e.type = "tool_use" -> ReduceToolUse(s, e)
    [] e.type = "tool_result" -> ReduceToolResult(s, e)
    [] e.type = "error" -> ReduceError(s, e)
    [] e.type = "done" -> ReduceDone(s, e)
    [] OTHER -> s

\* MarkInterrupted, MarkIdleTimeout
Mark(s, terminal) ==
  [s EXCEPT !.blocks = closeStreamingText(@), !.thinking = FALSE, !.footer = "none",
            !.terminal = terminal]

FinalizeIfRunning(s) == IF s.terminal = "running" THEN Mark(s, "done") ELSE s
=============================================================================
