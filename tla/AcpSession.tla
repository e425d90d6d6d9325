------------------------------ MODULE AcpSession ------------------------------
(***************************************************************************)
(* The Grok and Cursor adapters (internal/agent/grok.go, cursor.go) over   *)
(* their common ACP client (acp.go), for one scope: the processes kept     *)
(* between runs, the goroutines that read and wait for one, the goroutine  *)
(* of each run that waits for its prompt, the requests the agent makes of  *)
(* the bridge, and the loop of runBatch.  Processes and runs are numbers;  *)
(* a line of stdout is a response, an update or a request of the agent.    *)
(***************************************************************************)
EXTENDS AcpAsk, FiniteSets

CONSTANTS Kinds,     \* of {"grok", "cursor"}
          MaxRuns,   \* bound: runs of the scope, one after the other
          MaxProcs,  \* bound: processes
          Loads,     \* the runs that come with a session id
          Stops,     \* bound: the runs that are stopped
          Capacity,  \* of a run's event channel (256)
          Questions, \* what the agent asks the user: [title, questions]
          Options,   \* the options of a permission it asks for
          Chunks,    \* kinds of updates it sends
          MaxAsks    \* bound: such requests and updates, of all processes

Runs == 1..MaxRuns
Procs == 1..MaxProcs
Calls == {"initialize", "authenticate", "load", "new", "prompt"}

ASSUME AcpSessionAssumption ==
  /\ Kinds \subseteq {"grok", "cursor"}
  /\ MaxRuns \in Nat /\ MaxProcs \in Nat /\ MaxAsks \in Nat /\ Capacity \in Nat \ {0}
  /\ Options \subseteq Seq(STRING)
  /\ Chunks \subseteq {"agent_message_chunk", "agent_thought_chunk", "tool_call",
                       "tool_call_update"}

VARIABLES
  kind,     \* which adapter this is
  cur,      \* sessions[scope]: the scope's process, 0 if none
  os,       \* os[p]: the process is "none", "alive" or "gone"
  dead,     \* dead[p]: the goroutine that waits for it has noticed
  told,     \* told[p]: and has told the run of it
  sid,      \* sid[p]: sessionID is set
  stdin,    \* stdin[p]: calls and notifications it has not handled, <<run, call>>
  stdout,   \* stdout[p]: lines nobody has read, [kind, run, ok]
  turn,     \* turn[p]: the run whose prompt it works on, 0 if none
  pending,  \* pending[p]: calls that wait for a response
  runCh,    \* runCh[p]: the run whose channel gets the events, 0 if none
  reader,   \* reader[p]: the run whose channel readLoop wants to put an ask in, or 0
  ask,      \* ask[p]: the agent's request: "none", "sent", "sending" or "queued"
  twice,    \* history: a request was answered twice
  faithful, \* history: answers said what the user, or the policy, had chosen
  asks,     \* requests made so far
  pc,       \* pc[r]: where Run is, then the goroutine of the run
  proc,     \* proc[r]: its process
  loop,     \* loop[r]: "none", "reading", "asking", "left" or "over"
  chan,     \* chan[r]: events in its channel
  closed,   \* closed[r]: and whether that is closed
  dropped,  \* history: an event found the channel full
  card,     \* card[r]: the terminal state the loop has reduced
  stopped,  \* stopped[r]: Stop was called
  answered, \* history: runs whose prompt the agent answered
  panicked  \* something was sent on a closed channel: the bridge is gone

procVars == <<os, sid, stdin, stdout, turn>>
clientVars == <<dead, told, pending>>
askVars == <<ask, twice, faithful, asks>>
chanVars == <<chan, closed, dropped>>
runVars == <<pc, proc>>
loopVars == <<loop, card, stopped>>
vars == <<kind, cur, procVars, clientVars, runCh, reader, askVars, chanVars,
          runVars, loopVars, answered, panicked>>

Init ==
  /\ kind \in Kinds /\ cur = 0
  /\ os = [p \in Procs |-> "none"] /\ dead = [p \in Procs |-> FALSE]
  /\ told = [p \in Procs |-> FALSE] /\ sid = [p \in Procs |-> FALSE]
  /\ stdin = [p \in Procs |-> << >>] /\ stdout = [p \in Procs |-> << >>]
  /\ turn = [p \in Procs |-> 0] /\ pending = [p \in Procs |-> {}]
  /\ runCh = [p \in Procs |-> 0] /\ reader = [p \in Procs |-> 0]
  /\ ask = [p \in Procs |-> "none"]
  /\ twice = FALSE /\ faithful = TRUE /\ asks = 0
  /\ pc = [r \in Runs |-> "idle"] /\ proc = [r \in Runs |-> 0]
  /\ loop = [r \in Runs |-> "none"] /\ card = [r \in Runs |-> "running"]
  /\ chan = [r \in Runs |-> << >>] /\ closed = [r \in Runs |-> FALSE]
  /\ dropped = [r \in Runs |-> FALSE] /\ stopped = [r \in Runs |-> FALSE]
  /\ answered = {} /\ panicked = FALSE

At(r, l) == ~panicked /\ pc[r] = l
Goto(r, l) == pc' = [pc EXCEPT ![r] = l]
Looping(r, l) == ~panicked /\ loop[r] = l
Over(r) == pc[r] = "refused" \/ loop[r] \in {"left", "over"}

\* Where the caller of a call goes on: authenticate and load may fail, and
\* initialize goes on to authenticate with Cursor only.
After(r, call, ok) ==
  CASE call = "initialize" /\ ok -> IF kind = "cursor" THEN "authenticate" ELSE "spawned"
    [] call = "initialize" /\ ~ok -> "unspawned"
    [] call = "authenticate" -> "spawned"
    [] call = "load" -> IF ok \/ sid[proc[r]] THEN "register" ELSE "new"
    [] call = "new" /\ ok -> "register"
    [] call = "prompt" -> IF ok THEN "answered" ELSE "failed"
    [] OTHER -> "refused"

\* An answer to the prompt tells of the end of the turn, or that it was cancelled.
Answers == {"done", "interrupted"}
Ends == Answers \cup {"error"}

\* safeSend
Room(r) == Len(chan[r]) < Capacity
SafeSend(r, event) ==
  /\ chan' = IF r # 0 /\ Room(r) /\ ~closed[r] THEN [chan EXCEPT ![r] = Append(@, event)] ELSE chan
  /\ dropped' = IF r # 0 /\ ~Room(r) THEN [dropped EXCEPT ![r] = TRUE] ELSE dropped

-----------------------------------------------------------------------------
\* The agent (external): it answers a call or refuses it, works on one prompt,
\* asks while it does, obeys a cancel or ignores it, falls silent, and dies.
Says(p, k, r, ok) == stdout' = [stdout EXCEPT ![p] = Append(@, [kind |-> k, run |-> r, ok |-> ok])]
AgentOnly == UNCHANGED <<kind, cur, os, sid, clientVars, runCh, reader, chanVars, runVars,
                         loopVars, panicked>>

Answer(p) ==
  /\ os[p] = "alive" /\ stdin[p] # << >> /\ ask[p] = "none"
  /\ LET r == stdin[p][1][1]  call == stdin[p][1][2] IN
       /\ stdin' = [stdin EXCEPT ![p] = Tail(@)]
       /\ \/ call # "cancel" /\ Says(p, call, r, FALSE) /\ UNCHANGED turn
          \/ call \in Calls \ {"prompt"} /\ Says(p, call, r, TRUE) /\ UNCHANGED turn
          \/ call = "prompt" /\ turn' = [turn EXCEPT ![p] = r] /\ UNCHANGED stdout
          \/ call = "cancel" /\ UNCHANGED <<stdout, turn>>
  /\ UNCHANGED <<askVars, answered>> /\ AgentOnly

Settle(p) ==
  /\ turn[p] # 0 /\ ask[p] = "none"
  /\ Says(p, "prompt", turn[p], TRUE)
  /\ answered' = answered \cup {turn[p]}
  /\ turn' = [turn EXCEPT ![p] = 0]
  /\ UNCHANGED <<stdin, askVars>> /\ AgentOnly

\* A request is answered before it goes on.  What it says is looked at when it
\* is answered, and chosen there.
Ask(p, request) ==
  /\ turn[p] # 0 /\ ask[p] = "none" /\ asks < MaxAsks
  /\ asks' = asks + 1
  /\ ask' = [ask EXCEPT ![p] = "sent"]
  /\ Says(p, request, 0, TRUE)
  /\ UNCHANGED <<stdin, turn, twice, faithful, answered>> /\ AgentOnly

Chat(p, chunk) ==
  /\ turn[p] # 0 /\ ask[p] = "none" /\ asks < MaxAsks
  /\ asks' = asks + 1
  /\ Says(p, chunk, turn[p], TRUE)
  /\ UNCHANGED <<stdin, turn, ask, twice, faithful, answered>> /\ AgentOnly

Gone(p) ==
  /\ os' = [os EXCEPT ![p] = IF @ = "alive" THEN "gone" ELSE @]
  /\ stdin' = [stdin EXCEPT ![p] = IF os[p] = "alive" THEN << >> ELSE @]
  /\ turn' = [turn EXCEPT ![p] = IF os[p] = "alive" THEN 0 ELSE @]
  /\ ask' = [ask EXCEPT ![p] = IF os[p] = "alive" THEN "none" ELSE @]

Die(p) ==
  /\ os[p] = "alive" /\ Gone(p)
  /\ UNCHANGED <<kind, cur, sid, stdout, clientVars, runCh, reader, twice, faithful, asks,
                 chanVars, runVars, loopVars, answered, panicked>>

-----------------------------------------------------------------------------
\* respond: an answer to the agent's request; what a process that is gone would
\* have got is lost.
Respond(p, true) ==
  /\ ask' = [ask EXCEPT ![p] = "none"]
  /\ twice' = (twice \/ (os[p] = "alive" /\ ask[p] = "none"))
  /\ faithful' = (faithful /\ true)

\* translateACPUpdate
EventOf(k) ==
  CASE k = "agent_message_chunk" -> "text"
    [] k = "agent_thought_chunk" -> "thinking"
    [] k = "tool_call" -> "tool_use"
    [] k = "tool_call_update" -> "tool_result"

Response(p, line) ==
  /\ pending' = [pending EXCEPT ![p] = @ \ {<<line.run, line.kind>>}]
  /\ pc' = IF <<line.run, line.kind>> \in pending[p]
           THEN [pc EXCEPT ![line.run] = After(line.run, line.kind, line.ok)] ELSE pc
  /\ sid' = [sid EXCEPT ![p] = @ \/ (line.kind \in {"load", "new"} /\ line.ok)]
  /\ UNCHANGED <<reader, ask, twice, faithful>>

\* handleUpdate: a chunk goes to the run that is registered.
Update(p, line) ==
  /\ SafeSend(runCh[p], EventOf(line.kind))
  /\ UNCHANGED <<pending, pc, sid, reader, ask, twice, faithful>>

\* handleReverse: what cannot be asked is refused at once, which is an answer;
\* Grok leaves what it does not know to readLoop, which refuses it too.
Refuse(p) == Respond(p, TRUE) /\ UNCHANGED <<pending, pc, sid, reader>>

\* session/request_permission is granted without a question.
Grants(options) == {i \in DOMAIN options : options[i] \in {"allow_always", "allow_once"}}
Grant(p) ==
  /\ \E options \in Options :
       Respond(p, AutoAllow(options) \in IF Grants(options) = {} THEN {0} \cup DOMAIN options
                                                             ELSE Grants(options))
  /\ UNCHANGED <<pending, pc, sid, reader>>

\* A question: readLoop takes the registered run's channel, to put it in.
Question(p) ==
  /\ reader' = [reader EXCEPT ![p] = runCh[p]]
  /\ ask' = [ask EXCEPT ![p] = "sending"]
  /\ UNCHANGED <<pending, pc, sid, twice, faithful>>

Read(p) ==
  /\ ~panicked /\ reader[p] = 0 /\ stdout[p] # << >>
  /\ stdout' = [stdout EXCEPT ![p] = Tail(@)]
  /\ LET line == Head(stdout[p]) IN
         \/ line.kind \in Chunks /\ Update(p, line)
         \/ line.kind \in Calls /\ Response(p, line) /\ UNCHANGED <<chan, dropped>>
         \/ line.kind = "permission" /\ Grant(p) /\ UNCHANGED <<chan, dropped>>
         \/ line.kind = "other" /\ Refuse(p) /\ UNCHANGED <<chan, dropped>>
         \/ /\ line.kind = "question"
            /\ IF runCh[p] = 0 THEN Refuse(p)
               ELSE \/ (\E qs \in Questions : Parse(kind, qs) = << >>) /\ Refuse(p)
                    \/ Question(p)
            /\ UNCHANGED <<chan, dropped>>
  /\ UNCHANGED <<kind, cur, os, stdin, turn, dead, told, runCh, asks, closed,
                 proc, loopVars, answered, panicked>>

\* It waits for room in the channel.  A channel closed meanwhile panics.
SendAsk(p) ==
  /\ ~panicked /\ reader[p] # 0
  /\ Room(reader[p]) \/ closed[reader[p]]
  /\ reader' = [reader EXCEPT ![p] = 0]
  /\ IF closed[reader[p]]
     THEN panicked' = TRUE /\ UNCHANGED <<chan, ask>>
     ELSE /\ chan' = [chan EXCEPT ![reader[p]] = Append(@, "ask")]
          /\ ask' = [ask EXCEPT ![p] = IF @ = "sending" THEN "queued" ELSE @]
          /\ UNCHANGED panicked
  /\ UNCHANGED <<kind, cur, procVars, clientVars, runCh, twice, faithful, asks,
                 closed, dropped, runVars, loopVars, answered>>

\* Faulty: an ask that found no room in 5 s is dropped in silence.
AskTimesOutSilently(p) ==
  /\ ~panicked /\ reader[p] # 0 /\ ~Room(reader[p])
  /\ reader' = [reader EXCEPT ![p] = 0]
  /\ ask' = [ask EXCEPT ![p] = "lost"]
  /\ UNCHANGED <<kind, cur, procVars, clientVars, runCh, twice, faithful, asks, chanVars,
                 runVars, loopVars, answered, panicked>>

\* Faulty: it is cancelled, and put in the channel all the same when there is room.
AskTimesOutAndStays(p) ==
  /\ ~panicked /\ reader[p] # 0 /\ ~Room(reader[p]) /\ ask[p] = "sending"
  /\ Respond(p, TRUE)
  /\ UNCHANGED <<kind, cur, procVars, clientVars, runCh, reader, asks, chanVars,
                 runVars, loopVars, answered, panicked>>

\* No room in 5 s: the ask is cancelled.
AskTimesOut(p) ==
  /\ ~panicked /\ reader[p] # 0 /\ ~Room(reader[p])
  /\ reader' = [reader EXCEPT ![p] = 0]
  /\ Respond(p, TRUE)
  /\ UNCHANGED <<kind, cur, procVars, clientVars, runCh, asks, chanVars,
                 runVars, loopVars, answered, panicked>>

\* Faulty: the calls of a process that died wait on.
WaitForgetful(p) ==
  /\ ~panicked /\ os[p] = "gone" /\ ~dead[p]
  /\ dead' = [dead EXCEPT ![p] = TRUE]
  /\ stdout' \in {stdout, [stdout EXCEPT ![p] = << >>]}
  /\ UNCHANGED <<kind, cur, os, sid, stdin, turn, told, pending, pc, runCh, reader, askVars, chanVars,
                 proc, loopVars, answered, panicked>>

\* The goroutine that waits for the process: first it closes what waits for a
\* response, then it tells the run.  Lines that were not read may be lost.
Wait(p) ==
  /\ ~panicked /\ os[p] = "gone" /\ ~dead[p]
  /\ dead' = [dead EXCEPT ![p] = TRUE]
  /\ pending' = [pending EXCEPT ![p] = {}]
  /\ pc' = [r \in Runs |-> IF \E c \in Calls : <<r, c>> \in pending[p]
                           THEN After(r, pc[r], FALSE) ELSE pc[r]]
  /\ stdout' \in {stdout, [stdout EXCEPT ![p] = << >>]}
  /\ UNCHANGED <<kind, cur, os, sid, stdin, turn, told, runCh, reader, askVars, chanVars,
                 proc, loopVars, answered, panicked>>

Tell(p) ==
  /\ ~panicked /\ dead[p] /\ ~told[p]
  /\ told' = [told EXCEPT ![p] = TRUE]
  /\ SafeSend(runCh[p], "error")
  /\ UNCHANGED <<kind, cur, procVars, dead, pending, runCh, reader, askVars, closed,
                 runVars, loopVars, answered, panicked>>

-----------------------------------------------------------------------------
\* The adapter's lock is held from here through the first calls of a new
\* process, which have no time limit.
Locked == \E r \in Runs : pc[r] \in {"initialize", "authenticate", "spawned", "unspawned"}
Reusable == IF cur = 0 THEN FALSE ELSE ~dead[cur]

\* sessionFor: the scope's process while it lives and directory and access are
\* the same; else it is killed and a new one made.
Begin(r) ==
  /\ At(r, "idle") /\ ~Locked
  /\ \A x \in 1..(r - 1) : Over(x)
  /\ \/ /\ Reusable
        /\ proc' = [proc EXCEPT ![r] = cur]
        /\ Goto(r, "load")
        /\ UNCHANGED <<cur, os, stdin, turn, ask>>
     \/ LET p == Cardinality({q \in Procs : os[q] # "none"}) + 1 IN
        /\ p \in Procs
        /\ cur' = 0
        /\ proc' = [proc EXCEPT ![r] = p]
        /\ os' = [q \in Procs |-> IF q = p THEN "alive" ELSE IF q = cur THEN "gone" ELSE os[q]]
        /\ stdin' = [q \in Procs |-> IF q = cur THEN << >> ELSE stdin[q]]
        /\ turn' = [q \in Procs |-> IF q = cur THEN 0 ELSE turn[q]]
        /\ ask' = [q \in Procs |-> IF q = cur THEN "none" ELSE ask[q]]
        /\ Goto(r, "initialize")
  /\ UNCHANGED <<kind, sid, stdout, clientVars, runCh, reader, twice, faithful, asks, chanVars,
                 loopVars, answered, panicked>>

\* call: it fails on a process known to be dead or a broken pipe; else it
\* waits for the response, without a limit.
Call(r, call) ==
  /\ At(r, call) /\ <<r, call>> \notin pending[proc[r]]
  /\ IF os[proc[r]] = "gone"
     THEN /\ Goto(r, After(r, call, FALSE))
          /\ UNCHANGED <<stdin, pending>>
     ELSE /\ stdin' = [stdin EXCEPT ![proc[r]] = Append(@, <<r, call>>)]
          /\ pending' = [pending EXCEPT ![proc[r]] = @ \cup {<<r, call>>}]
          /\ UNCHANGED pc
  /\ UNCHANGED <<kind, cur, os, sid, stdout, turn, dead, told, runCh, reader, askVars,
                 chanVars, proc, loopVars, answered, panicked>>

Initialize(r) == Call(r, "initialize")
Authenticate(r) == Call(r, "authenticate")

Spawned(r) ==
  /\ At(r, "spawned")
  /\ cur' = proc[r]
  /\ Goto(r, "load")
  /\ UNCHANGED <<kind, procVars, clientVars, runCh, reader, askVars, chanVars, proc, loopVars,
                 answered, panicked>>

\* A process that cannot be initialized is killed.
NotSpawned(r) ==
  /\ At(r, "unspawned")
  /\ Gone(proc[r])
  /\ Goto(r, "refused")
  /\ UNCHANGED <<kind, cur, sid, stdout, clientVars, runCh, reader, twice, faithful, asks,
                 chanVars, proc, loopVars, answered, panicked>>

\* ensureSession: load the session of the run, unless it is the one this process
\* has; else keep the one it has; else make a new one.
Load(r) == r \in Loads /\ Call(r, "load")
New(r) == Call(r, "new")
KeepSession(r) ==
  /\ At(r, "load") /\ (sid[proc[r]] \/ r \notin Loads)
  /\ <<r, "load">> \notin pending[proc[r]]
  /\ Goto(r, IF sid[proc[r]] THEN "register" ELSE "new")
  /\ UNCHANGED <<kind, cur, procVars, clientVars, runCh, reader, askVars, chanVars,
                 proc, loopVars, answered, panicked>>

\* startRun: one run at a time; the goroutine that prompts starts.
Register(r) ==
  /\ At(r, "register")
  /\ IF runCh[proc[r]] # 0
     THEN Goto(r, "refused") /\ UNCHANGED <<runCh, chan, loop>>
     ELSE /\ runCh' = [runCh EXCEPT ![proc[r]] = r]
          /\ chan' = [chan EXCEPT ![r] = <<"system">>]
          /\ loop' = [loop EXCEPT ![r] = "reading"]
          /\ Goto(r, "prompt")
  /\ UNCHANGED <<kind, cur, procVars, clientVars, reader, askVars, closed, dropped,
                 proc, card, stopped, answered, panicked>>

Prompt(r) == Call(r, "prompt")

\* Faulty: a refused prompt is not told.
ConcludeSilently(r) ==
  /\ At(r, "answered") \/ At(r, "failed")
  /\ \E answer \in Answers : SafeSend(IF pc[r] = "answered" THEN r ELSE 0, answer)
  /\ Goto(r, "leaving")
  /\ UNCHANGED <<kind, cur, procVars, clientVars, runCh, reader, askVars, closed,
                 proc, loopVars, answered, panicked>>

\* The prompt was answered, or failed: then the error is told here only if the
\* process is not known to be dead.
Conclude(r) ==
  /\ At(r, "answered") \/ At(r, "failed")
  /\ \E answer \in Answers :
       SafeSend(IF pc[r] = "answered" \/ ~dead[proc[r]] THEN r ELSE 0,
                IF pc[r] = "answered" THEN answer ELSE "error")
  /\ Goto(r, "leaving")
  /\ UNCHANGED <<kind, cur, procVars, clientVars, runCh, reader, askVars, closed,
                 proc, loopVars, answered, panicked>>

\* finish
Finish(r) ==
  /\ At(r, "leaving")
  /\ runCh' = [runCh EXCEPT ![proc[r]] = IF @ = r THEN 0 ELSE @]
  /\ closed' = [closed EXCEPT ![r] = TRUE]
  /\ Goto(r, "gone")
  /\ UNCHANGED <<kind, cur, procVars, clientVars, reader, askVars, chan, dropped,
                 proc, loopVars, answered, panicked>>

-----------------------------------------------------------------------------
\* runBatch
Receive(r) ==
  /\ Looping(r, "reading") /\ chan[r] # << >>
  /\ LET event == Head(chan[r]) IN
       /\ chan' = [chan EXCEPT ![r] = Tail(@)]
       /\ card' = [card EXCEPT ![r] = IF event \in Ends THEN event ELSE @]
       /\ loop' = IF event = "ask" THEN [loop EXCEPT ![r] = "asking"] ELSE loop
  /\ UNCHANGED <<kind, cur, procVars, clientVars, runCh, reader, askVars, closed, dropped,
                 runVars, stopped, answered, panicked>>

\* handleAskUser: the user picks, or types, or cancels, or lets it time out.
Reply(r) ==
  /\ Looping(r, "asking")
  /\ loop' = [loop EXCEPT ![r] = "reading"]
  /\ \/ \E qs \in Questions :
          LET asked == Parse(kind, qs)
          IN  \E choice \in UserChoices(asked) :
                Respond(proc[r], Unambiguous(kind, asked) => IsHeard(kind, asked, choice))
     \/ Respond(proc[r], TRUE)
  /\ UNCHANGED <<kind, cur, procVars, clientVars, runCh, reader, asks, chanVars,
                 runVars, card, stopped, answered, panicked>>

SeesClose(r) ==
  /\ Looping(r, "reading") /\ chan[r] = << >> /\ closed[r]
  /\ card' = [card EXCEPT ![r] = IF @ # "running" THEN @
                                   ELSE IF stopped[r] THEN "interrupted" ELSE "done"]
  /\ loop' = [loop EXCEPT ![r] = "over"]
  /\ UNCHANGED <<kind, cur, procVars, clientVars, runCh, reader, askVars, chanVars,
                 runVars, stopped, answered, panicked>>

\* Stop: a cancel, and nothing else.
Cancel(r) ==
  /\ r \in Stops
  /\ stopped' = [stopped EXCEPT ![r] = TRUE]
  /\ stdin' = IF os[proc[r]] = "alive" THEN [stdin EXCEPT ![proc[r]] = Append(@, <<r, "cancel">>)]
                                       ELSE stdin
  /\ UNCHANGED <<kind, cur, os, sid, stdout, turn, clientVars, runCh, reader, askVars, chanVars,
                 runVars, card, answered, panicked>>

Stop(r) ==
  /\ loop[r] \in {"reading", "asking"} /\ ~panicked /\ ~stopped[r]
  /\ Cancel(r) /\ UNCHANGED loop

\* The card cannot be started: the run is stopped and nobody reads it.
CardFails(r) ==
  /\ Looping(r, "reading") /\ chan[r] = <<"system">> /\ ~stopped[r]
  /\ loop' = [loop EXCEPT ![r] = "left"]
  /\ Cancel(r)

\* ResetSession of /new and /cd
Reset ==
  /\ ~panicked /\ cur # 0 /\ ~Locked
  /\ cur' = 0
  /\ Gone(cur)
  /\ UNCHANGED <<kind, sid, stdout, clientVars, runCh, reader, twice, faithful, asks,
                 chanVars, runVars, loopVars, answered, panicked>>

-----------------------------------------------------------------------------
Run(r) ==
  \/ Initialize(r) \/ Authenticate(r) \/ Spawned(r) \/ NotSpawned(r)
  \/ Load(r) \/ KeepSession(r) \/ New(r) \/ Register(r)
  \/ Prompt(r) \/ Conclude(r) \/ Finish(r)
Loop(r) == Receive(r) \/ Reply(r) \/ SeesClose(r)
Reader(p) == Read(p) \/ SendAsk(p) \/ AskTimesOut(p) \/ Wait(p) \/ Tell(p)
Agent(p) == Answer(p) \/ Settle(p) \/ Die(p) 
            \/ (\E q \in {"question", "permission", "other"} : Ask(p, q)) \/ (\E c \in Chunks : Chat(p, c))

Next ==
  \/ \E p \in Procs : Agent(p) \/ Reader(p)
  \/ \E r \in Runs : Begin(r) \/ Run(r) \/ Loop(r) \/ Stop(r) \/ CardFails(r)
  \/ Reset

Spec == Init /\ [][Next]_vars

\* The goroutines run, and a question is answered or times out; nothing is
\* assumed of the agent.  No step can be undone, so fairness of all of them
\* together is fairness of each.
FairSpec ==
  Spec /\ WF_vars((\E p \in Procs : Reader(p)) \/ (\E r \in Runs : Run(r) \/ Loop(r)))

-----------------------------------------------------------------------------
\* Values of the variables.
Events == {"system", "text", "thinking", "tool_use", "tool_result", "ask"} \cup Ends
Lines == [kind : Calls \cup Chunks \cup {"question", "permission", "other"},
          run : Runs \cup {0}, ok : BOOLEAN]

TypeOK ==
  /\ kind \in Kinds /\ cur \in Procs \cup {0} /\ asks \in 0..MaxAsks
  /\ os \in [Procs -> {"none", "alive", "gone"}]
  /\ {dead, told, sid} \subseteq [Procs -> BOOLEAN]
  /\ stdin \in [Procs -> Seq(Runs \X (Calls \cup {"cancel"}))] /\ stdout \in [Procs -> Seq(Lines)]
  /\ {turn, runCh, reader} \subseteq [Procs -> Runs \cup {0}]
  /\ pending \in [Procs -> SUBSET (Runs \X Calls)]
  /\ ask \in [Procs -> {"none", "sent", "sending", "queued"}]
  /\ pc \in [Runs -> {"idle", "spawned", "unspawned", "register", "answered", "failed", "leaving",
                     "gone", "refused"} \cup Calls]
  /\ proc \in [Runs -> Procs \cup {0}]
  /\ loop \in [Runs -> {"none", "reading", "asking", "left", "over"}]
  /\ chan \in [Runs -> Seq(Events)] /\ \A r \in Runs : Len(chan[r]) <= Capacity
  /\ {closed, dropped, stopped} \subseteq [Runs -> BOOLEAN]
  /\ card \in [Runs -> {"running"} \cup Ends]
  /\ {twice, faithful, panicked} \subseteq BOOLEAN /\ answered \subseteq Runs

\* A card that reads done over a living process is one whose prompt the agent
\* has answered: not a refused one, nor one whose error met a full channel.
DoneIsDone == \A r \in Runs :
  loop[r] = "over" /\ card[r] = "done" /\ ~dropped[r] /\ ~dead[proc[r]] => r \in answered

\* "Process death already emits EventError via onUpdate": a card whose process
\* died before the agent answered does not read done.
DeathIsTold == \A r \in Runs :
  loop[r] = "over" /\ card[r] = "done" /\ ~dropped[r] => r \in answered

\* Each run of a scope is a run like any other (AgentRun): the channel is open from
\* the registration to finish, and the end is the last that the channel holds, or
\* else what the card reads.
ChannelIs(r) == IF loop[r] = "over" THEN "over" ELSE IF closed[r] THEN "closed"
                ELSE IF pc[r] \in {"prompt", "answered", "failed", "leaving"} THEN "open" ELSE "none"
LastEnd(events) == {i \in DOMAIN events : events[i] \in Ends /\ \A j \in DOMAIN events : i < j => events[j] \notin Ends}
EndIs(r) == IF LastEnd(chan[r]) = {} THEN card[r] ELSE chan[r][CHOOSE i \in LastEnd(chan[r]) : TRUE]
Promised(r) == INSTANCE AgentRun WITH OneEnd <- FALSE, state <- ChannelIs(r), end <- EndIs(r),
                                      stopped <- stopped[r]
ImplementsAgentRun ==
  /\ \A r \in Runs : Promised(r)!Init
  /\ [][\A r \in Runs : [Promised(r)!Next]_(Promised(r)!vars)]_vars

\* What the agent hears is what was chosen, for all the user can choose of
\* questions that can be told apart, and a permission is granted whenever an
\* option grants it; and it hears one answer, whichever of the refusal, the time
\* limit and the user gives it.
AnswerIsFaithful == faithful /\ ~twice

\* And it is answered, unless its process is gone, or the card of the run could
\* not be started (the channel is then read by nobody).
Unanswered == {p \in Procs : /\ ask[p] # "none"
                             /\ \A r \in Runs : proc[r] = p => loop[r] # "left"}

AskIsAnswered == Unanswered # {} ~> Unanswered = {} \/ panicked

\* /new gets a scope out of a run whose agent does not answer: when the process
\* is killed, Run comes back and the run ends.
Bereft == {r \in Runs : proc[r] # 0 /\ os[proc[r]] = "gone" /\ ~Over(r)}

KilledEnds == Bereft # {} ~> Bereft = {} \/ panicked
=============================================================================
