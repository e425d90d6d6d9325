------------------------------ MODULE CodexTurn -------------------------------
(***************************************************************************)
(* One turn of the Codex app-server adapter                                *)
(* (internal/agent/codex_appserver.go): the goroutine that starts it, the  *)
(* goroutines that read from and wait for its process, its Stop, and the   *)
(* loop of runBatch that reads its events and answers its questions.  The  *)
(* process serves this turn only, but in daemon mode other clients work on *)
(* the same thread.                                                        *)
(***************************************************************************)
EXTENDS Naturals, Sequences, FiniteSets

CONSTANTS Turns,     \* [shared, resume, disk, plan]: how a turn may be started
          Capacity,  \* of the event channel (256)
          Asks,      \* what the agent may ask, see Shown
          MaxLines,  \* bound: notifications the agent writes before its turn ends
          Chatter    \* kinds of them

ASSUME TurnAssumption ==
  /\ Turns \subseteq [shared : BOOLEAN, resume : BOOLEAN, disk : BOOLEAN, plan : BOOLEAN]
  /\ Capacity \in Nat \ {0} /\ MaxLines \in Nat
  /\ Chatter \subseteq {"delta", "retry", "error"}
  /\ Asks \subseteq [kind : {"command", "file", "permissions", "input"}, available : SUBSET STRING,
                    questions : Seq([id : STRING, prompt : BOOLEAN, options : SUBSET (STRING \ {""}),
                                     other : BOOLEAN, secret : BOOLEAN])]

VARIABLES
  opts,     \* how this turn is started
  os,       \* the process: "none", "alive", "clean" or "failed" once it ended
  stdin,    \* requests and answers it has not handled
  shut,     \* its stdin was closed
  stdout,   \* lines nobody has read, [re, is]
  active,   \* whose turn the thread is in: "none", "ours" or "theirs"
  asks,     \* what the agent asked, << >> or one
  told,     \* what it was told, by the id of the question
  lines,    \* notifications written so far
  pc,       \* the starting goroutine, then the loop of runBatch
  thread,   \* what opening the thread showed: "idle", "active" or "turn" (with its id)
  named,    \* threadID and turnID are both known: Stop can interrupt
  waits,    \* requests in pending
  ended,
  stop,     \* where Stop is: "no", "interrupt", "grace", "term", "kill" or "over"
  chan,     \* the event channel
  held,     \* the event that readLoop is blocked on
  waiter,   \* waitLoop: "waiting", "telling" an error, or "over": all is closed
  card,     \* the terminal state runBatch has reduced
  choice,   \* what the user answered, << >> if the card was cancelled
  completed,\* history: the agent completed our turn
  foreign,  \* history: the end of another client's turn was taken for ours
  lost      \* history: an event was lost when the channel was closed

agentVars == <<os, stdin, shut, stdout, active, asks, told, lines, completed>>
startVars == <<opts, pc, thread, named>>
runVars == <<waits, ended, chan, held, waiter>>
vars == <<agentVars, startVars, runVars, stop, card, choice, foreign, lost>>

Init ==
  /\ opts \in Turns
  /\ os = "none" /\ stdin = << >> /\ shut = FALSE /\ stdout = << >>
  /\ active \in {"none"} \cup (IF opts.shared /\ opts.resume THEN {"theirs"} ELSE {})
  /\ asks = << >> /\ told = << >> /\ lines = 0
  /\ pc = IF opts.shared THEN "daemon" ELSE "spawn"
  /\ thread = "idle" /\ named = FALSE
  /\ waits = {} /\ ended = FALSE /\ stop = "no"
  /\ chan = << >> /\ held = << >> /\ waiter = "waiting"
  /\ card = "running" /\ choice = << >>
  /\ completed = FALSE /\ foreign = FALSE /\ lost = FALSE

Dead == os \in {"clean", "failed"}
Requests == {"initialize", "open", "read", "steer", "list", "start", "interrupt"}
Line(re, is) == [re |-> re, is |-> is]
Message(what, answers) == [what |-> what, answers |-> answers]
Request(what) == Message(what, << >>)

-----------------------------------------------------------------------------
\* What the agent asks is [kind, available, questions], a question
\* [id, prompt, options, other, secret]: prompt says that it has a header, a text
\* or an option with a description, other that a text is welcome too; the id and
\* the options may be missing.  An approval has one question of this form, to
\* which the bridge gives the options.
Approval == [id |-> "decision", prompt |-> TRUE, options |-> {"once", "always", "reject"},
             other |-> FALSE, secret |-> FALSE]

\* codexUserInputEvent: what is shown, at its place in the request; a question
\* without an id, or with nothing to show, is left out.  Of a secret one, whose
\* prompt then says that no text is taken, only a refusal can be picked; one
\* without options gets a placeholder for a text.
Shown(ask) ==
  IF ask.kind # "input" THEN <<Approval>>
  ELSE [i \in {j \in DOMAIN ask.questions : /\ ask.questions[j].id # ""
                                            /\ ask.questions[j].prompt \/ ask.questions[j].secret} |->
         LET q == ask.questions[i] IN
           [q EXCEPT !.options = IF q.secret THEN {"refused"}
                                 ELSE IF @ = {} THEN {"write"} ELSE @]]

\* Whether a text is taken is a matter of the whole card.
Freeform(ask) ==
  /\ ask.kind = "input"
  /\ \E i \in DOMAIN ask.questions : LET q == ask.questions[i] IN
       /\ ~q.secret
       /\ \/ q.other /\ Len(ask.questions) = 1
          \/ i \in DOMAIN Shown(ask) /\ q.options = {}

\* codexApprovalDecision
Decision(answer) ==
  CASE answer = "once" -> "accept"
    [] answer = "always" -> "acceptForSession"
    [] OTHER -> "decline"

\* Faulty: the agent is told "always" whether it takes that or not.
AvailableAlways(ask, decision) == TRUE

\* codexDecisionAvailable, which only commands are subject to
Available(ask, decision) ==
  ask.kind = "command" /\ ask.available # {} => decision \in ask.available

\* The Reply closures: answers is << >> when the card was cancelled, timed out
\* or was invalidated; else it is what was picked for each question, "" where
\* nothing was, and the text that was typed, which goes to each question for
\* which nothing was picked.  Of two questions of one id the last is answered.
LastOf(id, questions) ==
  LET of == {i \in DOMAIN questions : questions[i].id = id}
  IN  CHOOSE i \in of : \A j \in of : j <= i

Reply(ask, answers) ==
  LET questions == Shown(ask)
      answer(i) == IF answers = << >> THEN "none"
                   ELSE IF answers.picked[i] = "" THEN answers.text ELSE answers.picked[i]
      decision == Decision(answer(1))
  IN  IF ask.kind # "input"
      THEN [decision |-> IF decision = "acceptForSession" /\ ~Available(ask, decision)
                         THEN "accept" ELSE decision]
      ELSE [id \in {questions[i].id : i \in DOMAIN questions} |-> answer(LastOf(id, questions))]

-----------------------------------------------------------------------------
\* initialize: where it goes on after a reply; every failure is the end of it,
\* and a thread without an id is one, unless its id was known before.
After(request, is) ==
  IF is = "error" THEN "failing"
  ELSE CASE request = "initialize" -> "open"
         [] request = "open" -> IF is = "anonymous" /\ ~opts.resume THEN "failing" ELSE "system"
         [] request = "read" -> IF is = "turn" THEN "steer" ELSE "failing"
         [] request = "list" -> IF is = "preset" THEN "start" ELSE "failing"
         [] request \in {"steer", "start"} -> "reading"

\* and once the system event is out: the turn another client runs is joined in
\* daemon mode only, and no turn is started next to one that the session file
\* shows to run.
Join ==
  LET runs == thread \in {"turn", "active"} IN
    CASE thread = "turn" /\ opts.shared -> "steer"
      [] thread = "active" /\ opts.shared -> "read"
      [] IF runs THEN ~opts.shared ELSE opts.disk -> "failing"
      [] ~runs /\ ~opts.disk -> IF opts.plan THEN "list" ELSE "start"

-----------------------------------------------------------------------------
\* The agent (external): it may refuse, be silent or die at any step.
Replies(request) ==
  {"error"} \cup
  CASE request = "open" -> IF active = "theirs" \/ ~opts.shared THEN {"idle", "anonymous", "active", "turn"}
                           ELSE {"idle", "anonymous"}
    [] request = "read" -> {"turn", "active"}
    [] request = "steer" -> IF active = "theirs" THEN {"ok"} ELSE {}
    [] request = "list" -> {"preset", "none"}
    [] request = "start" -> IF active = "none" THEN {"turn", "ok"} ELSE {}
    [] OTHER -> {"ok"}

AgentOnly == UNCHANGED <<startVars, runVars, stop, card, choice, foreign, lost>>

Handle ==
  /\ os = "alive" /\ stdin # << >> /\ Head(stdin).what \in Requests
  /\ stdin' = Tail(stdin)
  /\ LET request == Head(stdin).what IN
       \E is \in Replies(request) :
         /\ stdout' = stdout \o (IF request = "interrupt" /\ is = "ok" /\ active = "ours"
                                 THEN <<Line("event", "interrupted")>> ELSE << >>)
                             \o <<Line(request, is)>>
         /\ active' = CASE request \in {"steer", "start"} /\ is # "error" -> "ours"
                        [] request = "interrupt" /\ is = "ok" -> "none"
                        [] OTHER -> active
  /\ UNCHANGED <<os, shut, asks, told, lines, completed>> /\ AgentOnly

\* It reads what the user answered.
Hear ==
  /\ os = "alive" /\ stdin # << >> /\ Head(stdin).what = "answer"
  /\ stdin' = Tail(stdin)
  /\ told' = Head(stdin).answers
  /\ UNCHANGED <<os, shut, stdout, active, asks, lines, completed>> /\ AgentOnly

Working == os = "alive" /\ active = "ours" /\ (asks = << >> \/ told # << >>)

Notify(is) ==
  /\ Working /\ lines < MaxLines
  /\ lines' = lines + 1
  /\ stdout' = Append(stdout, Line("event", is))
  /\ UNCHANGED <<os, stdin, shut, active, asks, told, completed>> /\ AgentOnly

AskUser(ask) ==
  /\ Working /\ asks = << >>
  /\ asks' = <<ask>>
  /\ stdout' = Append(stdout, Line("event", "ask"))
  /\ UNCHANGED <<os, stdin, shut, active, told, lines, completed>> /\ AgentOnly

Complete(is) ==
  /\ Working
  /\ active' = "none"
  /\ stdout' = Append(stdout, Line("event", is))
  /\ completed' = (is = "completed")
  /\ UNCHANGED <<os, stdin, shut, asks, told, lines>> /\ AgentOnly

\* Another client's turn on the thread starts or ends (daemon mode).
OtherClient ==
  /\ os = "alive" /\ opts.shared
  /\ \/ /\ active = "none" /\ lines < MaxLines
        /\ active' = "theirs" /\ lines' = lines + 1
        /\ UNCHANGED stdout
     \/ /\ active = "theirs" /\ active' = "none"
        /\ stdout' = Append(stdout, Line("theirs", "completed"))
        /\ UNCHANGED lines
  /\ UNCHANGED <<os, stdin, shut, asks, told, completed>> /\ AgentOnly

Gone(how) ==
  /\ os' = how /\ stdin' = << >> /\ active' = "none"

Die(how) ==
  /\ os = "alive" /\ Gone(how)
  /\ UNCHANGED <<shut, stdout, asks, told, lines, completed>> /\ AgentOnly

-----------------------------------------------------------------------------
EventOf(is) ==
  CASE is = "completed" -> <<"done">>
    [] is = "interrupted" -> <<"interrupted">>
    [] is \in {"failed", "error"} -> <<"error">>
    [] is = "ask" -> <<"ask">>
    [] is = "delta" -> <<"text">>
    [] is = "retry" -> << >>
Terminals == {"done", "interrupted", "error"}

\* emit blocks the reader while the channel is full.
Emit(events) ==
  IF Len(chan) + Len(events) <= Capacity
  THEN chan' = chan \o events /\ UNCHANGED held
  ELSE held' = events /\ UNCHANGED chan

\* Faulty: a second terminal notification of the turn is passed on too.
FinishedNever == FALSE

\* finish: only the first terminal notification counts.
Finished == ended

\* readLoop: a reply goes to the request that waits for it; the first terminal
\* notification ends the turn and closes stdin, whoever's turn it was.
Read ==
  /\ waiter # "over" /\ held = << >> /\ stdout # << >>
  /\ stdout' = Tail(stdout)
  /\ LET line == Head(stdout)
         awaited == line.re \in waits
         terminal == line.is \in {"completed", "interrupted", "failed", "error"}
     IN IF line.re \in Requests
        THEN /\ waits' = waits \ {line.re}
             /\ pc' = IF awaited /\ line.re # "interrupt" THEN After(line.re, line.is) ELSE pc
             /\ thread' = IF awaited /\ line.re = "open" THEN line.is ELSE thread
             /\ named' = (named \/ (awaited /\ <<line.re, line.is>> \in {<<"steer", "ok">>, <<"start", "turn">>}))
             /\ stop' = IF awaited /\ line.re = "interrupt" THEN "grace" ELSE stop
             /\ UNCHANGED <<ended, shut, chan, held, foreign>>
        ELSE /\ ended' = (ended \/ terminal)
             /\ shut' = (shut \/ terminal)
             /\ IF terminal /\ Finished THEN UNCHANGED <<chan, held>> ELSE Emit(EventOf(line.is))
             /\ foreign' = (foreign \/ line.re = "theirs")
             /\ UNCHANGED <<waits, pc, thread, named, stop>>
  /\ UNCHANGED <<os, stdin, active, asks, told, lines, opts, waiter, card, choice, completed, lost>>

\* The reader gets rid of the event it was blocked on.
Unblock ==
  /\ waiter # "over" /\ held # << >> /\ Len(chan) < Capacity
  /\ chan' = chan \o held /\ held' = << >>
  /\ UNCHANGED <<agentVars, startVars, waits, ended, waiter, stop, card, choice, foreign, lost>>

\* Faulty: every exit is taken for the end of the turn.
ExpectedAlways == TRUE

\* waitLoop: an exit is expected once the turn has ended, a Stop was called or
\* the start has failed (which sets ended too).
Expected == ended \/ stop # "no"

\* It fails the requests that wait, tells of a bad exit, and closes the channel:
\* a reader that is blocked on it loses its event.  Wait has closed the pipe, so
\* lines that were not read may be lost.
Close ==
  /\ waiter' = "over" /\ held' = << >>
  /\ lost' = (held # << >>)

Notice ==
  /\ Dead /\ waiter = "waiting"
  /\ ended' = TRUE /\ waits' = {}
  /\ pc' = IF waits \ {"interrupt"} # {} THEN "failing" ELSE pc
  /\ stop' = IF "interrupt" \in waits THEN "grace" ELSE stop
  /\ stdout' \in {stdout, << >>}
  /\ IF os = "failed" /\ ~Expected
     THEN waiter' = "telling" /\ UNCHANGED <<held, lost>>
     ELSE Close
  /\ UNCHANGED <<os, stdin, shut, active, asks, told, lines, completed, opts, thread, named,
                 chan, card, choice, foreign>>

Tell ==
  /\ waiter = "telling" /\ Len(chan) < Capacity
  /\ chan' = Append(chan, "error")
  /\ Close
  /\ UNCHANGED <<agentVars, startVars, waits, ended, stop, card, choice, foreign>>

-----------------------------------------------------------------------------
\* ensureCodexAppServerDaemon, then the process; either may fail.
StartDaemon(ok) ==
  /\ pc = "daemon"
  /\ pc' = IF ok THEN "spawn" ELSE "refused"
  /\ UNCHANGED <<agentVars, opts, thread, named, runVars, stop, card, choice, foreign, lost>>

Spawn(ok) ==
  /\ pc = "spawn"
  /\ pc' = IF ok THEN "initialize" ELSE "refused"
  /\ os' = IF ok THEN "alive" ELSE "none"
  /\ UNCHANGED <<stdin, shut, stdout, active, asks, told, lines, completed,
                 opts, thread, named, runVars, stop, card, choice, foreign, lost>>

\* request: it is registered and written, unless the run has ended or the
\* process has gone.
Send(request) ==
  /\ pc = request /\ request \notin waits
  /\ IF ended \/ Dead
     THEN pc' = "failing" /\ UNCHANGED <<stdin, waits>>
     ELSE /\ stdin' = Append(stdin, Request(request))
          /\ waits' = waits \cup {request}
          /\ UNCHANGED pc
  /\ UNCHANGED <<os, shut, stdout, active, asks, told, lines, completed, opts, thread, named,
                 ended, chan, held, waiter, stop, card, choice, foreign, lost>>

\* No reply within 15 s, or 30 s for the thread and the turn.
Timeout(request) ==
  /\ pc = request /\ request \in waits
  /\ waits' = waits \ {request}
  /\ pc' = "failing"
  /\ UNCHANGED <<agentVars, opts, thread, named, ended, chan, held, waiter,
                 stop, card, choice, foreign, lost>>

\* The system event: nobody reads the channel yet, so a full one blocks the
\* start until the process ends.
EmitSystem ==
  /\ pc = "system"
  /\ \/ waiter = "over" /\ UNCHANGED chan
     \/ waiter # "over" /\ Len(chan) < Capacity /\ chan' = Append(chan, "text")
  /\ pc' = Join
  /\ UNCHANGED <<agentVars, opts, thread, named, waits, ended, held, waiter,
                 stop, card, choice, foreign, lost>>

\* failStartup: the process is killed, and waited for a second.
Fail ==
  /\ pc = "failing"
  /\ pc' = "refused"
  /\ ended' = TRUE /\ shut' = TRUE
  /\ IF os = "alive" THEN Gone("failed") ELSE UNCHANGED <<os, stdin, active>>
  /\ UNCHANGED <<stdout, asks, told, lines, completed, opts, thread, named, waits, chan, held, waiter,
                 stop, card, choice, foreign, lost>>

-----------------------------------------------------------------------------
\* runBatch: an event is reduced, or the user is asked; a closed channel ends
\* the run.
Receive ==
  /\ pc = "reading" /\ chan # << >>
  /\ chan' = Tail(chan)
  /\ pc' = IF Head(chan) = "ask" THEN "asking" ELSE pc
  /\ card' = IF Head(chan) \in Terminals THEN Head(chan) ELSE card
  /\ UNCHANGED <<agentVars, opts, thread, named, waits, ended, held, waiter,
                 stop, choice, foreign, lost>>

SeesClose ==
  /\ pc = "reading" /\ chan = << >> /\ waiter = "over"
  /\ pc' = "over"
  /\ card' = IF card # "running" THEN card
              ELSE IF stop # "no" THEN "interrupted" ELSE "done"
  /\ UNCHANGED <<agentVars, opts, thread, named, runVars, stop, choice, foreign, lost>>

\* handleAskUser, which blocks the loop until the card is answered, cancelled,
\* invalidated or 30 minutes old; and the Reply, which a run that has ended or
\* a process that is gone does not get.
Answer(answers) ==
  /\ pc = "asking"
  /\ pc' = "reading"
  /\ choice' = answers
  /\ stdin' = IF ended \/ Dead THEN stdin
              ELSE Append(stdin, Message("answer", Reply(asks[1], answers)))
  /\ UNCHANGED <<os, shut, stdout, active, asks, told, lines, completed, opts, thread, named,
                 runVars, stop, card, foreign, lost>>

\* It is answered with a form, of which some question is answered, or with a text
\* in the field of a question or (0) in the chat.
UserChoices(ask) ==
  LET shown == Shown(ask)
      forms == {c \in [DOMAIN shown -> {""} \cup UNION {shown[i].options : i \in DOMAIN shown}] :
                  /\ \A i \in DOMAIN shown : c[i] \in {""} \cup shown[i].options
                  /\ \E i \in DOMAIN shown : c[i] # ""}
  IN  {<< >>} \cup {[picked |-> c, text |-> "", at |-> 0] : c \in forms}
      \cup {[picked |-> [i \in DOMAIN shown |-> ""], text |-> "typed", at |-> a] :
              a \in IF Freeform(ask) THEN {0} \cup DOMAIN shown ELSE {}}

-----------------------------------------------------------------------------
\* Stop, of stopRun in a goroutine of its own or of the idle watchdog in the
\* loop itself, which then reads no events.
Stop(by) ==
  /\ stop = "no" /\ pc \in {"reading", "asking"}
  /\ by = "idle" => pc = "reading"
  /\ pc' = IF by = "idle" THEN "stopping" ELSE pc
  /\ IF named /\ ~ended /\ ~Dead
     THEN /\ stop' = "interrupt"
          /\ stdin' = Append(stdin, Request("interrupt"))
          /\ waits' = waits \cup {"interrupt"}
     ELSE stop' = "grace" /\ UNCHANGED <<stdin, waits>>
  /\ UNCHANGED <<os, shut, stdout, active, asks, told, lines, completed, opts, thread, named,
                 ended, chan, held, waiter, card, choice, foreign, lost>>

Return == pc' = IF pc = "stopping" THEN "reading" ELSE pc

\* Its interrupt gets no reply; then two spans of grace, SIGTERM after the
\* first, and SIGKILL after the second.
InterruptFails ==
  /\ stop = "interrupt"
  /\ stop' = "grace" /\ waits' = waits \ {"interrupt"}
  /\ UNCHANGED <<agentVars, startVars, ended, chan, held, waiter, card, choice, foreign, lost>>

StopReturns ==
  /\ stop \in {"grace", "term", "kill"} /\ waiter = "over"
  /\ stop' = "over" /\ Return
  /\ UNCHANGED <<agentVars, opts, thread, named, runVars, card, choice, foreign, lost>>

Signal ==
  /\ stop = "grace" /\ stop' = "term"
  /\ UNCHANGED <<agentVars, startVars, runVars, card, choice, foreign, lost>>

\* Faulty: the second span of grace ends with one more SIGTERM.
KillGently ==
  /\ stop = "term" /\ stop' = "kill"
  /\ UNCHANGED <<agentVars, startVars, runVars, card, choice, foreign, lost>>

Kill ==
  /\ stop = "term" /\ stop' = "kill"
  /\ IF os = "alive" THEN Gone("failed") ELSE UNCHANGED <<os, stdin, active>>
  /\ UNCHANGED <<shut, stdout, asks, told, lines, completed,
                 startVars, runVars, card, choice, foreign, lost>>

-----------------------------------------------------------------------------
Starting ==
  \/ \E ok \in BOOLEAN : StartDaemon(ok) \/ Spawn(ok)
  \/ \E request \in Requests : Send(request) \/ Timeout(request)
  \/ EmitSystem \/ Fail
Loop ==
  \/ Receive \/ SeesClose
  \/ pc = "asking" /\ \E ask \in Asks : asks = <<ask>> /\ \E c \in UserChoices(ask) : Answer(c)
Stopping == InterruptFails \/ StopReturns \/ Signal \/ Kill

Next ==
  \/ Handle \/ Hear \/ OtherClient
  \/ \E is \in Chatter : Notify(is)
  \/ \E is \in {"completed", "failed"} : Complete(is)
  \/ \E ask \in Asks : AskUser(ask)
  \/ \E how \in {"clean", "failed"} : Die(how)
  \/ Starting \/ Loop
  \/ Read \/ Unblock \/ Notice \/ Tell
  \/ \E by \in {"command", "idle"} : Stop(by)
  \/ Stopping

Spec == Init /\ [][Next]_vars

Goroutines ==
  \/ Starting \/ Loop \/ Stopping
  \/ Read \/ Unblock \/ Notice \/ Tell

\* Goroutines and timers run, and an ask card settles after 30 minutes at the
\* latest; nothing is assumed of the agent.  No step can be undone, so fairness
\* of all the goroutines together is fairness of each.
FairSpec == Spec /\ WF_vars(Goroutines)

-----------------------------------------------------------------------------
\* Values of the variables.
Lines == [re : Requests \cup {"event", "theirs"},
          is : {"ok", "error", "idle", "anonymous", "active", "turn", "preset", "none", "ask",
                "completed", "interrupted", "failed"} \cup Chatter]

Told == {<< >>} \cup UNION {{Reply(ask, c) : c \in UserChoices(ask)} : ask \in Asks}

TypeOK ==
  /\ opts \in Turns /\ os \in {"none", "alive", "clean", "failed"}
  /\ stdin \in Seq([what : Requests \cup {"answer"}, answers : Told]) /\ told \in Told
  /\ stdout \in Seq(Lines) /\ lines \in 0..MaxLines
  /\ active \in {"none", "ours", "theirs"} /\ asks \in {<<a>> : a \in Asks} \cup {<< >>}
  /\ pc \in {"daemon", "spawn", "system", "failing", "refused", "reading", "asking", "stopping", "over"}
           \cup (Requests \ {"interrupt"})
  /\ thread \in {"idle", "anonymous", "active", "turn", "error"}
  /\ waits \subseteq Requests
  /\ stop \in {"no", "interrupt", "grace", "term", "kill", "over"}
  /\ {chan, held} \subseteq Seq(Terminals \cup {"text", "ask"})
  /\ Len(chan) <= Capacity /\ Len(held) <= 1
  /\ waiter \in {"waiting", "telling", "over"} /\ card \in {"running"} \cup Terminals
  /\ {shut, named, ended, completed, foreign, lost} \subseteq BOOLEAN

\* A card reads done only when the agent has completed that very turn, and
\* never because it refused, failed, was interrupted or was killed.  Exempt are
\* an exit with code 0 in the middle of a turn (waitLoop tells of bad exits
\* only), the end of another client's turn on the same thread
\* (handleNotification compares no ids), and a full channel when it is closed.
DoneIsDone ==
  pc = "over" /\ card = "done" => completed \/ os = "clean" \/ foreign \/ lost

\* An error stays on the card: what the agent reports after the first terminal
\* notification, or the exit of its process, does not turn it into a success.
ErrorStays == [][card = "error" => card' = "error"]_vars

\* A turn is a run like any other (AgentRun), and tells its end once: the channel
\* is open while waitLoop has not closed it, and the end is on the card, or the
\* one that the channel holds.
ChannelIs == IF pc = "over" THEN "over" ELSE IF waiter = "over" THEN "closed"
             ELSE IF os = "none" THEN "none" ELSE "open"
InChannel(e) == \E i \in DOMAIN chan : chan[i] = e
EndIs == IF card # "running" THEN card
         ELSE IF \E e \in Terminals : InChannel(e) THEN CHOOSE e \in Terminals : InChannel(e)
         ELSE "running"
Promised == INSTANCE AgentRun WITH OneEnd <- TRUE, state <- ChannelIs, end <- EndIs, stopped <- stop # "no"
ImplementsAgentRun == Promised!Spec

\* The agent is told what the user chose: nothing is granted that the user has
\* not allowed, for no longer than he said, and for the session only where the
\* agent offers that (a plain "accept" is sent whether it is offered or not).  Of
\* a form, each question it can have an answer to gets what was picked for it, or
\* nothing; a text goes to the question it was typed for, and no text at all to a
\* card that takes none.  The other questions of the card, secret ones too, get
\* that text as well: the broker does not keep which question it is for.
IsTold(answer, c, j) ==
  IF c = << >> THEN answer = "none"
  ELSE IF c.text = "" THEN answer = c.picked[j]
  ELSE c.at \in {0, j} => answer = c.text

ToldIsChosen ==
  told # << >> =>
    LET ask == asks[1]
        shown == Shown(ask)
    IN  IF ask.kind = "input"
        THEN \A i \in DOMAIN ask.questions : LET q == ask.questions[i] IN
               q.id # "" /\ (q.prompt \/ q.secret) =>
                 \E j \in DOMAIN shown :
                   /\ shown[j].id = q.id /\ IsTold(told[q.id], choice, j)
                   /\ shown[j].secret /\ ~Freeform(ask) => told[q.id] \in {"none", "refused", ""}
        ELSE /\ told.decision = "accept" =>
                  choice # << >> /\ choice.picked[1] \in {"once", "always"}
             /\ told.decision = "acceptForSession" =>
                  /\ choice # << >> /\ choice.picked[1] = "always"
                  /\ ask.kind = "command" /\ ask.available # {} => "acceptForSession" \in ask.available

\* A Stop comes back and the run is over, whatever the agent does and whoever
\* stops it; unless the process died by itself and its error finds a full
\* channel that the stopping loop does not read.
StopEnds == stop # "no" ~> stop = "over" \/ (waiter = "telling" /\ pc = "stopping")

=============================================================================
