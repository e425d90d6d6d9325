------------------------------ MODULE PiSession -------------------------------
(***************************************************************************)
(* The Pi and Oh My Pi adapter (internal/agent/pi.go) for one scope: RPC   *)
(* processes that are kept between runs, the goroutines that read and wait *)
(* for one, the start of a run over it, its Stop, and the loop of runBatch *)
(* that reads the run's channel.  A process is a number.  A line of its    *)
(* stdout is a reply to a request, or an event of the turn it works on.    *)
(***************************************************************************)
EXTENDS Naturals, Sequences, FiniteSets

CONSTANTS MaxRuns,   \* bound: runs of the scope, one after the other
          Picks,     \* those for which a model was picked
          MaxProcs,  \* bound: processes
          Capacity,  \* of a run's event channel (256)
          Chatter,   \* kinds of lines an agent writes within a turn
          MaxLines   \* bound: such lines of all processes

Runs == 1..MaxRuns
NoRun == 0
Procs == 1..MaxProcs
Requests == {"state", "model", "prompt", "abort"}

\* What an agent writes within a turn is no reply, and does not end it.
ASSUME SessionAssumption ==
  /\ MaxRuns \in Nat /\ MaxProcs \in Nat /\ MaxLines \in Nat /\ Capacity \in Nat \ {0}
  /\ Chatter \cap (Requests \cup {"agent_settled", "agent_end"}) = {}

VARIABLES
  cur,      \* PiAdapter.sessions: the scope's process, 0 if none
  os,       \* os[p]: the process is "none", "alive" or "gone"
  dead,     \* dead[p]: the goroutine that waits for it has noticed
  known,    \* known[p]: its session id and model were read
  stdin,    \* stdin[p]: requests it has not handled, <<run, request>>
  stdout,   \* stdout[p]: lines nobody has read, [kind, run, ok]
  turn,     \* turn[p]: the run whose prompt it works on
  lines,    \* lines written within turns, of all processes
  slots,    \* slots[p]: piSession.runChans
  pending,  \* pending[p]: requests that wait for a reply
  pc,       \* pc[r]: where the run is
  proc,     \* proc[r]: its process
  chan,     \* chan[r]: events in its channel
  closed,   \* closed[r]: its slot was closed
  dropped,  \* history: an event found the channel full
  card,     \* card[r]: the terminal state runBatch has reduced
  abort,    \* abort[r]: the request Stop sent, "no", "waiting" or "over"
  timer,    \* timer[r]: the escalation timer of Stop, "no", "armed" or "over"
  panicked, \* a channel was closed twice: the bridge is gone
  finished, \* history: turns the agent ended by itself or on an abort
  muddled   \* history: processes on which a turn outlived its run

procVars == <<os, dead, known, stdin, stdout, turn, lines>>
slotVars == <<slots, pending, chan, closed, dropped>>
runVars == <<pc, proc, card>>
stopVars == <<abort, timer>>
history == <<finished, muddled>>
vars == <<cur, procVars, slotVars, runVars, stopVars, panicked, history>>

Init ==
  /\ cur = 0
  /\ os = [p \in Procs |-> "none"] /\ dead = [p \in Procs |-> FALSE]
  /\ known = [p \in Procs |-> FALSE]
  /\ stdin = [p \in Procs |-> << >>] /\ stdout = [p \in Procs |-> << >>]
  /\ turn = [p \in Procs |-> NoRun] /\ lines = 0
  /\ slots = [p \in Procs |-> {}] /\ pending = [p \in Procs |-> {}]
  /\ pc = [r \in Runs |-> "idle"] /\ proc = [r \in Runs |-> 0]
  /\ chan = [r \in Runs |-> << >>] /\ closed = [r \in Runs |-> FALSE]
  /\ dropped = [r \in Runs |-> FALSE]
  /\ card = [r \in Runs |-> "running"]
  /\ abort = [r \in Runs |-> "no"] /\ timer = [r \in Runs |-> "no"]
  /\ panicked = FALSE
  /\ finished = {} /\ muddled = {}

At(r, l) == ~panicked /\ pc[r] = l
Goto(r, l) == pc' = [pc EXCEPT ![r] = l]

\* Where startRun goes on when a request was answered, or came to nothing.
After(request, ok) ==
  CASE request = "state" /\ ok -> "model"
    [] request = "model" /\ ok -> "slot"
    [] request = "prompt" /\ ok -> "reading"
    [] request = "prompt" /\ ~ok -> "failing"
    [] OTHER -> "refused"
Over(r) == pc[r] \in {"refused", "over"}

-----------------------------------------------------------------------------
\* translatePiEvent and translatePiUIRequest: the event a line gives.  A
\* turn_end is none: agents with tools write it in the middle of a turn.
EventOf(kind) ==
  CASE kind \in {"agent_settled", "agent_end"} -> <<"done">>
    [] kind = "message_error" -> <<"error">>
    [] kind \in {"text_delta", "notify"} -> <<"text">>
    [] kind = "thinking_delta" -> <<"thinking">>
    [] kind = "tool_execution_start" -> <<"tool_use">>
    [] kind = "tool_execution_end" -> <<"tool_result">>
    [] kind = "message_end" -> <<"usage">>
    [] kind \in {"select", "confirm", "input", "editor"} -> <<"ask_user">>
    [] OTHER -> << >>

Terminals == {"done", "error"}
IsTerminal(events) == \E i \in DOMAIN events : events[i] \in Terminals

\* safeSend of events to the runs of R: one that finds no room is dropped.
Room(r, events) == Len(chan[r]) + Len(events) <= Capacity
SafeSend(R, events) ==
  /\ chan' = [r \in Runs |-> IF r \in R /\ Room(r, events) THEN chan[r] \o events ELSE chan[r]]
  /\ dropped' = [r \in Runs |-> dropped[r] \/ (r \in R /\ ~Room(r, events))]

\* closeSlotLocked for every run of R
CloseSlots(p, R) ==
  /\ closed' = [r \in Runs |-> closed[r] \/ r \in R]
  /\ slots' = [slots EXCEPT ![p] = @ \ R]

-----------------------------------------------------------------------------
\* The agent (external).  It may do nothing for ever, and die; it takes one
\* prompt at a time.
Says(p, kind, r, ok) == stdout' = [stdout EXCEPT ![p] = Append(@, [kind |-> kind, run |-> r, ok |-> ok])]
AgentOnly == UNCHANGED <<cur, slotVars, runVars, stopVars, panicked>>

Handle(p) ==
  /\ os[p] = "alive" /\ stdin[p] # << >>
  /\ stdin' = [stdin EXCEPT ![p] = Tail(@)]
  /\ LET r == stdin[p][1][1]  request == stdin[p][1][2] IN
       \/ /\ request # "abort"
          /\ Says(p, request, r, FALSE)
          /\ UNCHANGED <<turn, finished>>
       \/ /\ request \in {"state", "model"}
          /\ Says(p, request, r, TRUE)
          /\ UNCHANGED <<turn, finished>>
       \/ /\ request = "prompt" /\ turn[p] = NoRun
          /\ Says(p, request, r, TRUE)
          /\ turn' = [turn EXCEPT ![p] = r]
          /\ UNCHANGED finished
       \/ /\ request = "abort" /\ turn[p] = NoRun
          /\ Says(p, request, r, TRUE)
          /\ UNCHANGED <<turn, finished>>
       \/ /\ request = "abort" /\ turn[p] # NoRun
          /\ stdout' = [stdout EXCEPT ![p] =
               @ \o <<[kind |-> "agent_settled", run |-> turn[p], ok |-> TRUE],
                      [kind |-> "abort", run |-> r, ok |-> TRUE]>>]
          /\ finished' = finished \cup {turn[p]}
          /\ turn' = [turn EXCEPT ![p] = NoRun]
  /\ UNCHANGED <<os, dead, known, lines, muddled>> /\ AgentOnly

Chat(p, kind) ==
  /\ turn[p] # NoRun /\ lines < MaxLines
  /\ lines' = lines + 1
  /\ Says(p, kind, turn[p], TRUE)
  /\ muddled' = IF kind = "message_error" THEN muddled \cup {p} ELSE muddled
  /\ UNCHANGED <<os, dead, known, stdin, turn, finished>> /\ AgentOnly

Settle(p) ==
  /\ turn[p] # NoRun
  /\ Says(p, "agent_settled", turn[p], TRUE)
  /\ finished' = finished \cup {turn[p]}
  /\ turn' = [turn EXCEPT ![p] = NoRun]
  /\ UNCHANGED <<os, dead, known, stdin, lines, muddled>> /\ AgentOnly

\* It is gone, with what it had not handled: it died, or got the SIGKILL of kill.
Gone(p) ==
  /\ os' = [os EXCEPT ![p] = IF @ = "alive" THEN "gone" ELSE @]
  /\ stdin' = [stdin EXCEPT ![p] = IF os[p] = "alive" THEN << >> ELSE @]
  /\ turn' = [turn EXCEPT ![p] = IF os[p] = "alive" THEN NoRun ELSE @]

Die(p) ==
  /\ os[p] = "alive" /\ Gone(p)
  /\ UNCHANGED <<dead, known, stdout, lines, history>> /\ AgentOnly

-----------------------------------------------------------------------------
\* readLoop: one line.  A reply goes to the request that waits for it; an
\* event goes to every run in runChans, and a terminal one closes them.
Read(p) ==
  /\ ~panicked /\ stdout[p] # << >>
  /\ stdout' = [stdout EXCEPT ![p] = Tail(@)]
  /\ LET line == Head(stdout[p])  waits == <<line.run, line.kind>> \in pending[p] IN
       IF line.kind \in Requests
       THEN /\ known' = [known EXCEPT ![p] = @ \/ (line.kind = "state" /\ line.ok)]
            /\ pending' = [pending EXCEPT ![p] = @ \ {<<line.run, line.kind>>}]
            /\ pc' = IF waits /\ line.kind # "abort"
                     THEN [pc EXCEPT ![line.run] = After(line.kind, line.ok)] ELSE pc
            /\ abort' = IF waits /\ line.kind = "abort"
                        THEN [abort EXCEPT ![line.run] = "over"] ELSE abort
            /\ UNCHANGED <<slots, chan, closed, dropped>>
       ELSE /\ SafeSend(slots[p], EventOf(line.kind))
            /\ CloseSlots(p, IF IsTerminal(EventOf(line.kind)) THEN slots[p] ELSE {})
            /\ UNCHANGED <<known, pending, pc, abort>>
  /\ UNCHANGED <<cur, os, dead, stdin, turn, lines, proc, card, timer, panicked, history>>

\* Faulty: the runs of a process that died are closed without a word.
WaitSilently(p) ==
  /\ ~panicked /\ os[p] = "gone" /\ ~dead[p]
  /\ dead' = [dead EXCEPT ![p] = TRUE]
  /\ pending' = [pending EXCEPT ![p] = {}]
  /\ pc' = [r \in Runs |-> IF \E q \in Requests \ {"abort"} : <<r, q>> \in pending[p]
                           THEN After(pc[r], FALSE) ELSE pc[r]]
  /\ CloseSlots(p, slots[p])
  /\ stdout' \in {stdout, [stdout EXCEPT ![p] = << >>]}
  /\ UNCHANGED <<cur, os, known, stdin, turn, lines, chan, dropped, proc, card, stopVars, panicked, history>>

\* The goroutine that waits for the process: it closes what waits for a reply,
\* and tells and closes the runs.  cmd.Wait closes the pipe, so lines that were
\* not read yet may be lost.
Wait(p) ==
  /\ ~panicked /\ os[p] = "gone" /\ ~dead[p]
  /\ dead' = [dead EXCEPT ![p] = TRUE]
  /\ pending' = [pending EXCEPT ![p] = {}]
  /\ pc' = [r \in Runs |-> IF \E q \in Requests \ {"abort"} : <<r, q>> \in pending[p]
                           THEN After(pc[r], FALSE) ELSE pc[r]]
  /\ SafeSend(slots[p], <<"error">>)
  /\ CloseSlots(p, slots[p])
  /\ stdout' \in {stdout, [stdout EXCEPT ![p] = << >>]}
  /\ UNCHANGED <<cur, os, known, stdin, turn, lines, proc, card, stopVars, panicked, history>>

-----------------------------------------------------------------------------
Usable == IF cur = 0 THEN FALSE ELSE ~dead[cur]

\* sessionFor: the scope's process, unless it is dead; then a new one.  The
\* queue runs one batch of a scope at a time.
Begin(r) ==
  /\ At(r, "idle")
  /\ \A x \in 1..(r - 1) : Over(x)
  /\ LET reuse == Usable
         fresh == Cardinality({p \in Procs : os[p] # "none"}) + 1
         p == IF reuse THEN cur ELSE fresh
     IN /\ p \in Procs
        /\ cur' = p
        /\ proc' = [proc EXCEPT ![r] = p]
        /\ os' = IF reuse THEN os ELSE [os EXCEPT ![p] = "alive"]
  /\ Goto(r, "state")
  /\ UNCHANGED <<dead, known, stdin, stdout, turn, lines, slotVars, card, stopVars, panicked, history>>

\* Spawning fails.
BeginFails(r) ==
  /\ At(r, "idle") /\ ~Usable
  /\ \A x \in 1..(r - 1) : Over(x)
  /\ cur' = 0
  /\ Goto(r, "refused")
  /\ UNCHANGED <<procVars, slotVars, proc, card, stopVars, panicked, history>>

\* startRun: read the state once per process, set the model if another one was
\* picked, then make the slot and send the prompt.
Unasked(r, request) == <<r, request>> \notin pending[proc[r]]

SkipState(r) ==
  /\ At(r, "state") /\ Unasked(r, "state") /\ known[proc[r]]
  /\ Goto(r, "model")
  /\ UNCHANGED <<cur, procVars, slotVars, proc, card, stopVars, panicked, history>>

MakeSlot(r) ==
  /\ At(r, IF r \in Picks THEN "slot" ELSE "model")
  /\ slots' = [slots EXCEPT ![proc[r]] = @ \cup {r}]
  /\ chan' = [chan EXCEPT ![r] = <<"system">>]
  /\ Goto(r, "prompt")
  /\ UNCHANGED <<cur, procVars, pending, closed, dropped, proc, card, stopVars, panicked, history>>

\* send: it registers the request and writes it, unless the process is known to
\* be dead or the write fails.  The pipe takes a request, but for a long prompt.
Send(r, request) ==
  /\ At(r, request) /\ Unasked(r, request)
  /\ IF os[proc[r]] = "gone"
     THEN /\ Goto(r, After(request, FALSE))
          /\ UNCHANGED <<stdin, pending>>
     ELSE /\ stdin' = [stdin EXCEPT ![proc[r]] = Append(@, <<r, request>>)]
          /\ pending' = [pending EXCEPT ![proc[r]] = @ \cup {<<r, request>>}]
          /\ UNCHANGED pc
  /\ UNCHANGED <<cur, os, dead, known, stdout, turn, lines, slots, chan, closed, dropped,
                 proc, card, stopVars, panicked, history>>

GetState(r) == Send(r, "state") /\ ~known[proc[r]]
EnsureModel(r) == r \in Picks /\ Send(r, "model")
Prompt(r) == Send(r, "prompt")

\* A prompt with images is longer than the pipe: the write, for which there is no
\* timeout, goes on once the agent reads and fails when the process is gone.  (The
\* request is registered before it; no reply comes for what was not written.)
Block(r) ==
  /\ At(r, "prompt") /\ Unasked(r, "prompt") /\ os[proc[r]] = "alive"
  /\ Goto(r, "writing")
  /\ UNCHANGED <<cur, procVars, slotVars, proc, card, stopVars, panicked, history>>

Written(r) ==
  /\ At(r, "writing") /\ os[proc[r]] = "alive"
  /\ Goto(r, "prompt")
  /\ stdin' = [stdin EXCEPT ![proc[r]] = Append(@, <<r, "prompt">>)]
  /\ pending' = [pending EXCEPT ![proc[r]] = @ \cup {<<r, "prompt">>}]
  /\ UNCHANGED <<cur, os, dead, known, stdout, turn, lines, slots, chan, closed, dropped,
                 proc, card, stopVars, panicked, history>>

WriteFails(r) ==
  /\ At(r, "writing") /\ os[proc[r]] = "gone"
  /\ Goto(r, After("prompt", FALSE))
  /\ UNCHANGED <<cur, procVars, slotVars, proc, card, stopVars, panicked, history>>

\* Faulty: send waits for the reply as long as the process lives.
TimeoutOfDead(r, request) ==
  /\ At(r, request) /\ request # "abort" /\ os[proc[r]] = "gone"
  /\ <<r, request>> \in pending[proc[r]]
  /\ pending' = [pending EXCEPT ![proc[r]] = @ \ {<<r, request>>}]
  /\ Goto(r, After(request, FALSE))
  /\ muddled' = IF request = "prompt" THEN muddled \cup {proc[r]} ELSE muddled
  /\ UNCHANGED <<cur, procVars, slots, chan, closed, dropped, proc, card, stopVars, panicked, finished>>

\* No reply for 15 s.  What the agent does with the request later is its own.
Timeout(r, request) ==
  /\ At(r, request) /\ request # "abort"
  /\ <<r, request>> \in pending[proc[r]]
  /\ pending' = [pending EXCEPT ![proc[r]] = @ \ {<<r, request>>}]
  /\ Goto(r, After(request, FALSE))
  /\ muddled' = IF request = "prompt" THEN muddled \cup {proc[r]} ELSE muddled
  /\ UNCHANGED <<cur, procVars, slots, chan, closed, dropped, proc, card, stopVars, panicked, finished>>

\* The error path of startRun closes the slot; the reader or the waiter may
\* have closed it before, and closing a channel twice panics.
Fail(r) ==
  /\ At(r, "failing")
  /\ IF closed[r]
     THEN panicked' = TRUE /\ UNCHANGED <<slots, closed>>
     ELSE CloseSlots(proc[r], {r}) /\ UNCHANGED panicked
  /\ Goto(r, "refused")
  /\ UNCHANGED <<cur, procVars, pending, chan, dropped, proc, card, stopVars, history>>

-----------------------------------------------------------------------------
\* runBatch: an event is reduced; a closed channel ends the run, which is done,
\* or interrupted if it was stopped, if no terminal event came.
Receive(r) ==
  /\ At(r, "reading") /\ chan[r] # << >>
  /\ chan' = [chan EXCEPT ![r] = Tail(@)]
  /\ card' = [card EXCEPT ![r] = IF Head(chan[r]) \in Terminals THEN Head(chan[r]) ELSE @]
  /\ UNCHANGED <<cur, procVars, slots, pending, closed, dropped, pc, proc, stopVars, panicked, history>>

SeesClose(r) ==
  /\ At(r, "reading") /\ chan[r] = << >> /\ closed[r]
  /\ card' = [card EXCEPT ![r] = IF @ # "running" THEN @
                                   ELSE IF timer[r] = "no" THEN "done" ELSE "interrupted"]
  /\ Goto(r, "over")
  /\ UNCHANGED <<cur, procVars, slotVars, proc, stopVars, panicked, history>>

-----------------------------------------------------------------------------
\* Stop: the escalation timer is armed, then an abort is sent.
Stop(r) ==
  /\ At(r, "reading") /\ timer[r] = "no"
  /\ timer' = [timer EXCEPT ![r] = "armed"]
  /\ IF os[proc[r]] = "gone"
     THEN /\ abort' = [abort EXCEPT ![r] = "over"]
          /\ UNCHANGED <<stdin, pending>>
     ELSE /\ abort' = [abort EXCEPT ![r] = "waiting"]
          /\ stdin' = [stdin EXCEPT ![proc[r]] = Append(@, <<r, "abort">>)]
          /\ pending' = [pending EXCEPT ![proc[r]] = @ \cup {<<r, "abort">>}]
  /\ UNCHANGED <<cur, os, dead, known, stdout, turn, lines, slots, chan, closed, dropped,
                 runVars, panicked, history>>

\* Faulty: the timer only ends the wait.
EscalateGently(r) ==
  /\ ~panicked /\ timer[r] = "armed"
  /\ timer' = [timer EXCEPT ![r] = "over"]
  /\ UNCHANGED <<cur, procVars, slotVars, runVars, abort, panicked, history>>

\* The timer: nothing to do when the run has settled, else the process is killed.
Escalate(r) ==
  /\ ~panicked /\ timer[r] = "armed"
  /\ timer' = [timer EXCEPT ![r] = "over"]
  /\ IF closed[r] THEN UNCHANGED <<os, stdin, turn>> ELSE Gone(proc[r])
  /\ UNCHANGED <<cur, dead, known, stdout, lines, slotVars, runVars, abort, panicked, history>>

\* The abort gets no reply (or the process died): the process is killed,
\* whoever uses it by now.
AbortFails(r) ==
  /\ ~panicked /\ abort[r] = "waiting"
  /\ abort' = [abort EXCEPT ![r] = "over"]
  /\ pending' = [pending EXCEPT ![proc[r]] = @ \ {<<r, "abort">>}]
  /\ Gone(proc[r])
  /\ UNCHANGED <<cur, dead, known, stdout, lines, slots, chan, closed, dropped,
                 runVars, timer, panicked, history>>

\* ResetSession of /new and /cd
Reset ==
  /\ ~panicked /\ cur # 0
  /\ cur' = 0
  /\ Gone(cur)
  /\ UNCHANGED <<dead, known, stdout, lines, slotVars, runVars, stopVars, panicked, history>>

-----------------------------------------------------------------------------
Starting(r) ==
  \/ SkipState(r) \/ GetState(r) \/ EnsureModel(r)
  \/ MakeSlot(r) \/ Prompt(r) \/ Block(r) \/ WriteFails(r) \/ Fail(r)
Loop(r) == Receive(r) \/ SeesClose(r)

Next ==
  \/ \E p \in Procs : \/ Handle(p) \/ Settle(p) \/ Die(p)
                      \/ \E kind \in Chatter : Chat(p, kind)
                      \/ Read(p) \/ Wait(p)
  \/ \E r \in Runs : \/ Begin(r) \/ BeginFails(r) \/ Starting(r) \/ Written(r) \/ Loop(r)
                     \/ \E q \in Requests : Timeout(r, q)
                     \/ Stop(r) \/ Escalate(r) \/ AbortFails(r)
  \/ Reset

Spec == Init /\ [][Next]_vars

Goroutines ==
  \/ \E p \in Procs : Read(p) \/ Wait(p)
  \/ \E r \in Runs : \/ Starting(r) \/ Loop(r) \/ Escalate(r)
                     \/ \E q \in Requests : Timeout(r, q)

\* Goroutines and timers run and the kernel delivers SIGKILL; nothing is
\* assumed of the agent.  No step can be undone, so fairness of all the
\* goroutines together is fairness of each.
FairSpec == Spec /\ WF_vars(Goroutines)

-----------------------------------------------------------------------------
\* Values of the variables.
Events == {"system", "text", "thinking", "tool_use", "tool_result", "usage", "ask_user"} \cup Terminals
Lines == [kind : Requests \cup Chatter \cup {"agent_settled"}, run : Runs, ok : BOOLEAN]

TypeOK ==
  /\ cur \in Procs \cup {0} /\ lines \in 0..MaxLines
  /\ os \in [Procs -> {"none", "alive", "gone"}]
  /\ {dead, known} \subseteq [Procs -> BOOLEAN]
  /\ stdin \in [Procs -> Seq(Runs \X Requests)] /\ stdout \in [Procs -> Seq(Lines)]
  /\ turn \in [Procs -> Runs \cup {NoRun}]
  /\ slots \in [Procs -> SUBSET Runs] /\ pending \in [Procs -> SUBSET (Runs \X Requests)]
  /\ pc \in [Runs -> {"idle", "slot", "writing", "reading", "failing", "refused", "over"} \cup (Requests \ {"abort"})]
  /\ proc \in [Runs -> Procs \cup {0}]
  /\ chan \in [Runs -> Seq(Events)] /\ \A r \in Runs : Len(chan[r]) <= Capacity
  /\ {closed, dropped} \subseteq [Runs -> BOOLEAN]
  /\ card \in [Runs -> {"running", "interrupted"} \cup Terminals]
  /\ abort \in [Runs -> {"no", "waiting", "over"}] /\ timer \in [Runs -> {"no", "armed", "over"}]
  /\ panicked \in BOOLEAN /\ finished \subseteq Runs /\ muddled \subseteq Procs

\* A card reads done only when the agent has ended that very turn: not because
\* the process died, a Stop killed it, or the end of an earlier turn came late
\* (readLoop and the waiter close every run of the process).  Exempt are a full
\* channel, which drops the error, and a process on which a turn outlived its
\* run: one that reported an error and went on, or whose prompt was answered
\* too late.
DoneIsDone == \A r \in Runs :
  pc[r] = "over" /\ card[r] = "done" /\ ~dropped[r] /\ proc[r] \notin muddled =>
    r \in finished

\* Each run of a scope is a run like any other (AgentRun), and tells its end once,
\* though one process serves them all: the channel is open while the run has a
\* slot, and the end is on the card, or the one that the channel holds.
ChannelIs(r) == IF pc[r] = "over" THEN "over" ELSE IF closed[r] THEN "closed"
                ELSE IF \E p \in Procs : r \in slots[p] THEN "open" ELSE "none"
EndIs(r) ==
  LET told == {e \in Terminals : \E i \in DOMAIN chan[r] : chan[r][i] = e}
  IN  IF card[r] # "running" THEN card[r]
      ELSE IF told = {} THEN "running" ELSE CHOOSE e \in told : TRUE
Promised(r) == INSTANCE AgentRun WITH OneEnd <- TRUE, state <- ChannelIs(r), end <- EndIs(r),
                                      stopped <- timer[r] # "no"
ImplementsAgentRun ==
  /\ \A r \in Runs : Promised(r)!Init
  /\ [][\A r \in Runs : [Promised(r)!Next]_(Promised(r)!vars)]_vars

\* A stopped run ends, whatever the agent does: an agent that ignores the abort
\* is killed, and its death closes the run.
StopEnds == \A r \in Runs : timer[r] = "armed" ~> pc[r] = "over" \/ panicked

\* Agent.Run comes back, with a run or with an error, also when the agent
\* never answers (send gives up after 15 s), unless the agent lives and never
\* reads the rest of a prompt that the pipe does not take.
Stuck(r) == pc[r] = "writing" /\ os[proc[r]] = "alive"
StartReturns == \A r \in Runs :
  \/ pc[r] = "state" ~> pc[r] \in {"reading", "over", "refused"} \/ panicked
  \/ <>[]Stuck(r)

\* "piRunSlot bundles a run's event channel with a settled signal that fires
\* when the channel is closed (terminal event or process death)": the channel
\* is closed once, by whoever comes first.
ClosedOnce == ~panicked
=============================================================================
