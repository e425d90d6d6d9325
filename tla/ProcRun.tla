------------------------------- MODULE ProcRun --------------------------------
(***************************************************************************)
(* One run of a CLI agent as a child process (internal/agent/run.go), with *)
(* the Claude and Kimi adapters that start it and translate its lines, and *)
(* the loop of runBatch that folds its events into the state of the card.  *)
(* A line of the agent's stdout is its number in the script.               *)
(***************************************************************************)
EXTENDS CardState, SequencesExt

CONSTANTS Capacity,   \* of the events channel (64)
          Scripts,    \* what agents may write: an adapter and a sequence of lines
          TooLong,    \* the lines over 16 MB, on which the scanner gives up
          Held,       \* the pipes a surviving child of the agent may hold
          MayNotStart \* whether stream.Start may fail

Pipes == {"stdout", "stderr"}
Stoppers == {"loop", "command"}

ASSUME ProcRunAssumption ==
  /\ Capacity \in Nat \ {0}
  /\ \A s \in Scripts :
       /\ s.adapter \in {"claude", "kimi"}
       /\ s.lines \in Seq([kind : STRING, id : Nat])
  /\ TooLong \subseteq Nat \ {0}
  /\ Held \subseteq Pipes
  /\ MayNotStart \in BOOLEAN

VARIABLES
  script,   \* what this agent writes
  agent,    \* "running", "done", "failed"
  signals,  \* the signals the process was sent
  held,     \* the pipes somebody else keeps open when the agent is gone
  written,  \* number of lines the agent has written
  pipe,     \* lines in the stdout pipe
  reader,   \* the goroutine of startProc: "scan", "emit", "wait", "exit",
            \*   "cleanup", "report", "close", "over"
  line,     \* the events of the line it translated last that it has not sent
  quiet,    \* wasStopped: the exit is not an error to report
  exited,   \* channel exited is closed
  events,   \* what the events channel holds
  closed,   \* and whether it is closed
  start,    \* the adapter's Run: "spawned", "adding" its cleanup, "returned"
  cleanups, \* whether cleanupFns has the removal of the temp file
  temp,     \* whether the temp file with the system prompt exists
  loop,     \* runBatch: "starting" its card, "leaving" as that failed, "reading",
            \*   "stopping", "ended" as the channel was closed, "gone"
  got,      \* history: events it received
  runState,     \* the state its card is drawn from
  stopped,  \* Stop was called
  stop      \* stop[s]: "no", "grace", "killed", "returned"

procVars == <<script, agent, signals, held, written, pipe>>
readerVars == <<reader, line, quiet, exited, closed>>
startVars == <<start, cleanups, temp>>
loopVars == <<loop, got, runState>>
stopVars == <<stopped, stop>>
procRunVars == <<procVars, readerVars, events, startVars, loopVars, stopVars>>

ProcInit ==
  /\ script \in Scripts
  /\ agent = "running" /\ signals = {} /\ written = 0 /\ pipe = << >>
  /\ held \in SUBSET Held
  /\ reader = "scan" /\ line = << >> /\ quiet = FALSE /\ exited = FALSE
  /\ events = << >> /\ closed = FALSE
  /\ start = "spawned" /\ cleanups = FALSE /\ temp = (script.adapter = "claude")
  /\ loop = "starting" /\ got = << >> /\ runState = InitialState
  /\ stopped = FALSE /\ stop = [s \in Stoppers |-> "no"]

-----------------------------------------------------------------------------
\* The agent: it writes, may hang, ends by itself, obeys SIGTERM or ignores
\* it, and cannot ignore SIGKILL.
WriteLine ==
  /\ agent = "running" /\ written < Len(script.lines)
  /\ Len(pipe) < Capacity
  /\ written' = written + 1
  /\ pipe' = Append(pipe, written + 1)
  /\ UNCHANGED <<script, agent, signals, held, readerVars, events, startVars, loopVars, stopVars>>

Ends(how) ==
  /\ agent = "running"
  /\ agent' = how
  /\ UNCHANGED <<script, signals, held, written, pipe, readerVars, events, startVars, loopVars, stopVars>>

EndWell == Ends("done")
EndBadly == Ends("failed")
DieOfSignal == signals # {} /\ Ends("failed")
BeKilled == "KILL" \in signals /\ Ends("failed")

-----------------------------------------------------------------------------
\* The events of line n of script s; what a line says is its kind, for a tool
\* with its ID.
translateClaudeLine(s, n) ==
  LET l == s.lines[n]
  IN  CASE l.kind = "text" -> <<EventText(n)>>
        [] l.kind = "thought and call" -> <<EventThinking(n), EventToolUse(n, l.id)>>
        [] l.kind = "tool_result" -> <<EventToolResult(n, l.id, FALSE)>>
        [] l.kind = "result" -> <<EventUsage(n), EventDone(n, "normal")>>
        [] OTHER -> << >>

translateKimiLine(s, n) ==
  LET l == s.lines[n]
  IN  CASE l.kind = "text" -> <<EventText(n)>>
        [] l.kind = "meta" -> <<EventSystem(n)>>
        [] OTHER -> << >>

Translate(s, n) == IF s.adapter = "claude" THEN translateClaudeLine(s, n)
                                           ELSE translateKimiLine(s, n)

\* The error of startProc, which comes of no line, and the model that Kimi's
\* Run announces.
Failure == EventError(Len(script.lines) + 1, "failed")
Announced == EventSystem(0)

-----------------------------------------------------------------------------
\* The goroutine of startProc.
Step(r) == reader' = r
QuietReader == UNCHANGED <<procVars, startVars, loopVars, stopVars>>

Scan ==
  /\ reader = "scan" /\ pipe # << >> /\ Head(pipe) \notin TooLong
  /\ line' = Translate(script, Head(pipe))
  /\ pipe' = Tail(pipe)
  /\ Step(IF line' = << >> THEN "scan" ELSE "emit")
  /\ UNCHANGED <<script, agent, signals, held, written, quiet, exited, events, closed,
                 startVars, loopVars, stopVars>>

\* The events of a line are sent one by one.
Sent ==
  /\ reader = "emit"
  /\ line' = Tail(line)
  /\ Step(IF Len(line) = 1 THEN "scan" ELSE "emit")
  /\ UNCHANGED <<quiet, exited, closed>> /\ QuietReader

\* Faulty: emit drops the event when the channel is full, as safeSend does.
EmitDropping ==
  /\ Sent
  /\ events' = IF Len(events) < Capacity THEN Append(events, Head(line)) ELSE events

Emit ==
  /\ Sent
  /\ Len(events) < Capacity
  /\ events' = Append(events, Head(line))

EndOfFile == agent # "running" /\ "stdout" \notin held /\ pipe = << >>
GivesUp == pipe # << >> /\ Head(pipe) \in TooLong

ScanEnds ==
  /\ reader = "scan" /\ (EndOfFile \/ GivesUp)
  /\ Step("wait")
  /\ UNCHANGED <<line, quiet, exited, events, closed>> /\ QuietReader

\* cmd.Wait also waits for the goroutine that copies stderr; exitCode and
\* stopped are handled under the mutex, which onCleanup may hold.
Wait ==
  /\ reader = "wait" /\ agent # "running" /\ "stderr" \notin held
  /\ start # "adding"
  /\ quiet' = (stopped \/ agent = "done")
  /\ Step("exit")
  /\ UNCHANGED <<line, exited, events, closed>> /\ QuietReader

CloseExited ==
  /\ reader = "exit"
  /\ exited' = TRUE
  /\ Step("cleanup")
  /\ UNCHANGED <<line, quiet, events, closed>> /\ QuietReader

RunCleanups ==
  /\ reader = "cleanup"
  /\ temp' = (temp /\ ~cleanups)
  /\ Step(IF quiet THEN "close" ELSE "report")
  /\ UNCHANGED <<line, quiet, exited, events, closed, start, cleanups,
                 procVars, loopVars, stopVars>>

\* Faulty: the error event is dropped when the channel is full.
ReportDropping ==
  /\ reader = "report"
  /\ events' = IF Len(events) < Capacity THEN Append(events, Failure) ELSE events
  /\ Step("close")
  /\ UNCHANGED <<line, quiet, exited, closed>> /\ QuietReader

Report ==
  /\ reader = "report" /\ Len(events) < Capacity
  /\ events' = Append(events, Failure)
  /\ Step("close")
  /\ UNCHANGED <<line, quiet, exited, closed>> /\ QuietReader

CloseEvents ==
  /\ reader = "close"
  /\ closed' = TRUE
  /\ Step("over")
  /\ UNCHANGED <<line, quiet, exited, events>> /\ QuietReader

-----------------------------------------------------------------------------
\* The Claude adapter's Run registers the removal of its temp file: under the
\* mutex it looks at exited, then appends to cleanupFns.
Registers(next, c, t) ==
  /\ start' = next /\ cleanups' = c /\ temp' = t
  /\ UNCHANGED <<procVars, readerVars, events, loopVars, stopVars>>

OnCleanup ==
  /\ start = "spawned" /\ script.adapter = "claude"
  /\ IF exited THEN Registers("returned", cleanups, FALSE)
               ELSE Registers("adding", cleanups, temp)

AppendCleanup == start = "adding" /\ Registers("returned", TRUE, temp)

\* The Kimi adapter's Run tells the model it asked for: safeSend gives up on a
\* channel that is full, and recovers when it is closed.
SendModel ==
  /\ start = "spawned" /\ script.adapter = "kimi"
  /\ start' = "returned"
  /\ events' = IF ~closed /\ Len(events) < Capacity THEN Append(events, Announced)
                                                   ELSE events
  /\ UNCHANGED <<procVars, readerVars, cleanups, temp, loopVars, stopVars>>

-----------------------------------------------------------------------------
\* Stop, called by the loop of runBatch itself or by the handler of a command.
StopAt(s, p) == stop' = [stop EXCEPT ![s] = p]

CallStop(s) ==
  /\ StopAt(s, IF stopped THEN "returned" ELSE "grace")
  /\ stopped' = TRUE
  /\ signals' = IF stopped THEN signals ELSE signals \union {"TERM"}
  /\ UNCHANGED <<script, agent, held, written, pipe, readerVars, events, startVars, got, runState>>

StopByCommand ==
  /\ start = "returned" /\ stop["command"] = "no"
  /\ CallStop("command") /\ UNCHANGED loop

StopReturns(s) ==
  /\ stop[s] \in {"grace", "killed"} /\ exited
  /\ StopAt(s, "returned")
  /\ UNCHANGED <<procVars, readerVars, events, startVars, loopVars, stopped>>

\* Faulty: SIGTERM again instead of SIGKILL.
KillGently(s) ==
  /\ stop[s] = "grace"
  /\ StopAt(s, "killed")
  /\ signals' = signals \union {"TERM"}
  /\ UNCHANGED <<script, agent, held, written, pipe, readerVars, events, startVars, loopVars, stopped>>

Kill(s) ==
  /\ stop[s] = "grace"
  /\ StopAt(s, "killed")
  /\ signals' = signals \union {"KILL"}
  /\ UNCHANGED <<script, agent, held, written, pipe, readerVars, events, startVars, loopVars, stopped>>

-----------------------------------------------------------------------------
\* runBatch.
CardStarts ==
  /\ start = "returned" /\ loop = "starting"
  /\ loop' = "reading"
  /\ UNCHANGED <<procVars, readerVars, events, startVars, got, runState, stopVars>>

CardFails ==
  /\ MayNotStart /\ start = "returned" /\ loop = "starting"
  /\ loop' = "leaving"
  /\ CallStop("loop")

Receive ==
  /\ loop = "reading" /\ events # << >>
  /\ got' = Append(got, Head(events))
  /\ runState' = Reduce(runState, Head(events))
  /\ events' = Tail(events)
  /\ UNCHANGED <<procVars, readerVars, startVars, loop, stopVars>>

\* The watchdog's and the command's stop show on a card that does not say yet
\* how its run ended.
Finalized ==
  IF stop["loop"] # "no" /\ runState.terminal = "running" THEN Mark(runState, "idle_timeout")
  ELSE IF stop["command"] # "no" /\ runState.terminal = "running" THEN Mark(runState, "interrupted")
  ELSE FinalizeIfRunning(runState)

SeesClose ==
  /\ loop = "reading" /\ events = << >> /\ closed
  /\ loop' = "ended"
  /\ runState' = Finalized
  /\ UNCHANGED <<procVars, readerVars, events, startVars, got, stopVars>>

\* No event for the idle period.  A second firing would find stopped set.
Watchdog ==
  /\ loop = "reading" /\ events = << >> /\ ~closed /\ stop["loop"] = "no"
  /\ loop' = "stopping"
  /\ CallStop("loop")

LoopGoesOn ==
  /\ stop["loop"] = "returned" /\ loop \in {"stopping", "leaving"}
  /\ loop' = IF loop = "stopping" THEN "reading" ELSE "gone"
  /\ UNCHANGED <<procVars, readerVars, events, startVars, got, runState, stopVars>>

-----------------------------------------------------------------------------
Reader ==
  \/ Scan \/ Emit \/ ScanEnds \/ Wait
  \/ CloseExited \/ RunCleanups \/ Report \/ CloseEvents
Agent == WriteLine \/ EndWell \/ EndBadly \/ DieOfSignal \/ BeKilled
Stopping == \E s \in Stoppers : StopReturns(s) \/ Kill(s)
RunLoop == CardStarts \/ CardFails \/ Receive \/ SeesClose \/ LoopGoesOn

ProcNext ==
  \/ Agent \/ Reader \/ OnCleanup \/ AppendCleanup \/ SendModel
  \/ StopByCommand \/ Stopping \/ RunLoop \/ Watchdog

ProcSpec == ProcInit /\ [][ProcNext]_procRunVars

\* The goroutines and the grace timer run, the kernel delivers SIGKILL, and
\* the watchdog of a silent run fires; nothing is assumed of a living agent.
FairProcSpec ==
  /\ ProcSpec
  /\ WF_procRunVars(Reader) /\ WF_procRunVars(OnCleanup \/ AppendCleanup \/ SendModel)
  /\ WF_procRunVars(BeKilled) /\ WF_procRunVars(RunLoop) /\ WF_procRunVars(Watchdog)
  /\ \A s \in Stoppers : WF_procRunVars(StopReturns(s)) /\ WF_procRunVars(Kill(s))

-----------------------------------------------------------------------------
Events == [type : EventTypes, line : 0..Len(script.lines) + 1, id : Nat, failed : BOOLEAN,
           reason : {"none", "normal", "failed"}]

\* Values of the variables; the channel never holds more than it has room for.
ProcTypeOK ==
  /\ script \in Scripts
  /\ agent \in {"running", "done", "failed"}
  /\ signals \subseteq {"TERM", "KILL"}
  /\ held \subseteq Held
  /\ written \in 0..Len(script.lines)
  /\ pipe \in Seq(1..Len(script.lines)) /\ Len(pipe) <= Capacity
  /\ reader \in {"scan", "emit", "wait", "exit", "cleanup", "report", "close", "over"}
  /\ {quiet, exited, closed, cleanups, temp, stopped} \subseteq BOOLEAN
  /\ {line, events, got} \subseteq Seq(Events) /\ Len(events) <= Capacity
  /\ start \in {"spawned", "adding", "returned"}
  /\ loop \in {"starting", "reading", "stopping", "leaving", "ended", "gone"}
  /\ runState \in RunStates
  /\ stop \in [Stoppers -> {"no", "grace", "killed", "returned"}]

\* The lines the scanner delivers, those before the first it gives up on, and
\* their events.
Delivered == {n \in 1..written : \A t \in TooLong : n < t}
Told == UNION {ToSet(Translate(script, n)) : n \in Delivered}

\* In script s event d comes before e: of an earlier line, or of the same and
\* before e there.
Before(s, d, e) ==
  \/ d.line < e.line
  \/ /\ d.line = e.line /\ d.line \in DOMAIN s.lines
     /\ LET t == Translate(s, d.line)
        IN  \E i, j \in DOMAIN t : i < j /\ t[i] = d /\ t[j] = e

\* The model Kimi's Run announces comes at any place, or is dropped; all else
\* comes in the order of the lines, and the error event behind it.
HeardInOrder ==
  \A i, j \in DOMAIN got :
    i < j /\ Announced \notin {got[i], got[j]} => Before(script, got[i], got[j])

\* When the loop sees the channel closed it has received every event of every
\* line the agent wrote, and at most the error event besides (startProc, emit).
HeardAll ==
  LET heard == IF script.adapter = "kimi" THEN ToSet(got) \ {Announced} ELSE ToSet(got)
  IN  loop = "ended" => heard \in {Told, Told \union {Failure}}

\* The card shows what the agent said and which tools it called, each once and
\* in that order, whatever was interleaved: a text that goes on after a tool
\* call stands below it (Reduce); and at the end that is everything it said.
Said == {e \in ToSet(got) : e.type \in {"text", "tool_use"}}
CardIsTranscript ==
  LET blocks == runState.blocks
      Shown(i) == blocks[i].content
  IN  /\ HeardInOrder /\ HeardAll
      /\ UNION {ToSet(Shown(i)) : i \in DOMAIN blocks} = {e.line : e \in Said}
      /\ \A i, j \in DOMAIN blocks : \A k \in DOMAIN Shown(i), l \in DOMAIN Shown(j) :
           i < j \/ (i = j /\ k < l) => Shown(i)[k] < Shown(j)[l]

\* How the run ended is what the card reads: the failure of an agent nobody
\* stopped shows even behind its final result, and the card of a run that was
\* cut short reads done only if the agent had given its result before
\* (startProc, Reduce, runBatch).
CardTellsEnd ==
  loop = "ended" =>
    /\ agent = "failed" /\ ~stopped => runState.terminal = "error"
    /\ runState.terminal = "done" =>
         agent = "done" \/ \E e \in ToSet(got) : e.type = "done"
    /\ runState.terminal # "running"

\* The run is one like any other (AgentRun): the channel is open until startProc's
\* goroutine closes it, and the end is the last that the channel holds, or else
\* what the card reads; a card that tells of the idle timeout is that of a run
\* that was stopped.
ChannelIs == IF loop = "ended" THEN "over" ELSE IF closed THEN "closed" ELSE "open"
IsEnd(e) == e.type \in {"done", "error"}
LastEnd == {i \in DOMAIN events : IsEnd(events[i]) /\ \A j \in DOMAIN events : i < j => ~IsEnd(events[j])}
EndIs ==
  IF LastEnd # {} THEN events[CHOOSE i \in LastEnd : TRUE].type
  ELSE IF runState.terminal = "idle_timeout" THEN "interrupted" ELSE runState.terminal
Promised == INSTANCE AgentRun WITH OneEnd <- FALSE, state <- ChannelIs, end <- EndIs
ImplementsAgentRun == Promised!Spec

\* runBatch does not read while it is inside Stop, and the channel is full.
Unread == loop \in {"stopping", "leaving"} /\ Len(events) = Capacity

\* The watchdog's promise: a run that was stopped, by the loop or by a
\* command, comes to its end in runBatch, whatever the agent does
\* (Stop; docs/adr/0003-three-layer-robustness.md:30), except that a full
\* channel nobody reads, or a child of the agent that keeps its pipes open, may
\* keep the reader from it.
StoppedRunEnds == stopped ~> loop \in {"ended", "gone"} \/ Unread \/ held # {}
=============================================================================
