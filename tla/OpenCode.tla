------------------------------- MODULE OpenCode -------------------------------
(***************************************************************************)
(* The opencode adapter (internal/agent/opencode.go): one server process   *)
(* for all scopes, restarted when another access level is asked for; a run *)
(* is fed by the server's event stream (SSE), which may break, and by a    *)
(* poll of the session's messages, which closes it.  A session is named by *)
(* the run that created it, a message by its turn and a number, and a text *)
(* is a sequence of pieces <<run, message, piece>>.  What a run is sent is *)
(* kept as what its loop makes of it; the loop of a chat of Slow may be    *)
(* the 256 events behind that its channel holds, and then misses an event. *)
(***************************************************************************)
EXTENDS Naturals, Sequences, FiniteSets, SequencesExt

CONSTANTS MaxRuns,      \* bound: runs
          Scopes,       \* chats
          Plans,        \* what the runs are for: sequences of [scope, access, messages,
                        \* pieces], the last two the bounds of a turn and of a message
          MaxServers,   \* bound: servers started
          MaxMessages,  \* bound: of the messages of all turns
          MaxBreaks,    \* bound: times the stream breaks
          Slow          \* chats whose loop may be so far behind that the channel is full

ASSUME OpenCodeAssumption ==
  /\ {MaxRuns, MaxServers, MaxMessages, MaxBreaks} \subseteq Nat
  /\ \A p \in Plans : \E n \in 0..MaxRuns :
       /\ DOMAIN p = 1..n
       /\ \A r \in 1..n : /\ p[r].scope \in Scopes
                          /\ p[r].messages \in 0..MaxMessages /\ p[r].pieces \in Nat

Runs == 1..MaxRuns
Servers == 1..MaxServers
None == 0

VARIABLES
  server,    \* OpenCodeAdapter.server
  os,        \* os[v]: server process v is "none", "alive" or "gone"
  level,     \* level[v]: the access it was started with
  reaped,    \* reaped[v]: the goroutine that waits for it has closed its runs
  online,    \* online[v]: the event stream is connected
  wire,      \* wire[v]: events in the stream
  held,      \* held[v]: the event whose text dispatch has recorded, not sent
  breaks,
  sessions,  \* sessions[c]: the session of a scope
  plan,      \* plan[r]: the scope and the access level of a run, and its bounds
  pc, session, home,   \* home[r]: the server a run uses
  runs,      \* registered runs, of all servers
  closed,    \* runs whose channel was closed
  shown,     \* shown[r][<<r, n>>]: text of a message that was sent to it
  card,      \* card[r]: terminal state the loop of runBatch will have reduced
  stopped,   \* runs that Stop was called for
  polled,    \* polled[r]: the message and the delivered text a poll has read
  turn,      \* turn[s]: the runs whose prompts the server has
  last,      \* last[s]: the last assistant message, [run, n, size, state]
  delivered, \* delivered[v][<<r, n>>]: the text recorded for a message
  panicked,  \* a channel was closed twice
  ended,     \* history: runs whose turn the server has completed
  early,     \* history: runs for which a poll took a complete message for the end
             \* of a turn that the server had not completed
  raced,     \* history: runs a poll closed while text was on its way
  dropped,   \* history: <<run, "text" or "end">> that found the channel full
  unheard    \* history: runs whose turn ended without a message, nor an event that
             \* closes the run

streamVars == <<online, wire, held, breaks>>
serverVars == <<server, os, level, reaped>>
startVars == <<sessions, plan, session, home>>
runVars == <<pc, runs, closed, shown, card, polled, panicked, early, raced, dropped>>
turnVars == <<turn, last, ended, unheard>>
vars == <<serverVars, streamVars, startVars, runVars, stopped, turnVars, delivered>>

Messages == Runs \X (1..MaxMessages)
NoMessage == [run |-> None, n |-> 0, size |-> 0, state |-> "none"]

Init ==
  /\ server = None
  /\ os = [v \in Servers |-> "none"] /\ level = [v \in Servers |-> "none"]
  /\ reaped = [v \in Servers |-> FALSE]
  /\ online = [v \in Servers |-> FALSE] /\ wire = [v \in Servers |-> << >>]
  /\ held = [v \in Servers |-> << >>] /\ breaks = 0
  /\ sessions = [c \in Scopes |-> None]
  /\ plan \in Plans
  /\ pc = [r \in Runs |-> "idle"]
  /\ session = [r \in Runs |-> None] /\ home = [r \in Runs |-> None]
  /\ runs = {} /\ closed = {} /\ shown = [r \in Runs |-> [m \in Messages |-> << >>]]
  /\ card = [r \in Runs |-> "running"] /\ stopped = {}
  /\ polled = [r \in Runs |-> << >>]
  /\ turn = [s \in Runs |-> {}] /\ last = [s \in Runs |-> NoMessage]
  /\ delivered = [v \in Servers |-> [m \in Messages |-> << >>]]
  /\ panicked = FALSE /\ ended = {} /\ early = {} /\ raced = {} /\ dropped = {} /\ unheard = {}

Goto(r, l) == pc' = [pc EXCEPT ![r] = l]
Over(r) == pc[r] \in {"refused", "over"}

-----------------------------------------------------------------------------
\* The server (external) works on one prompt of a session at a time; an event
\* goes out on the stream if it is connected.
Publish(v, events) ==
  wire' = [wire EXCEPT ![v] = IF online[v] THEN @ \o events ELSE @]
Event(kind, s, piece) == [kind |-> kind, session |-> s, piece |-> piece]
Working(s) == turn[s] # {}

\* It works on the first; a scope's runs come one after the other.
Current(s) == Min(turn[s])
At(s) == home[Current(s)]
ServerOnly == UNCHANGED <<serverVars, online, held, breaks, startVars, runVars, delivered>>

Busy(s) == Working(s) /\ last[s].run = Current(s)
Count(s) == IF Busy(s) THEN last[s].n ELSE 0

NewMessage(s) ==
  /\ Working(s)
  /\ Busy(s) => last[s].state = "complete"
  /\ Count(s) < plan[Current(s)].messages
  /\ last' = [last EXCEPT ![s] = [run |-> Current(s), n |-> Count(s) + 1, size |-> 0, state |-> "open"]]
  /\ UNCHANGED <<turn, ended, unheard, wire, stopped>> /\ ServerOnly

Write(s) ==
  /\ Busy(s) /\ last[s].state = "open" /\ last[s].size < plan[Current(s)].pieces
  /\ last' = [last EXCEPT ![s].size = @ + 1]
  /\ Publish(At(s), <<Event("delta", s, <<last[s].run, last[s].n, last[s].size + 1>>)>>)
  /\ UNCHANGED <<turn, ended, unheard, stopped>> /\ ServerOnly

\* A message is complete: the turn goes on with the next one, or is over.
Complete(s) ==
  /\ Busy(s) /\ last[s].state = "open"
  /\ last' = [last EXCEPT ![s].state = "complete"]
  /\ UNCHANGED <<turn, ended, unheard, wire, stopped>> /\ ServerOnly

\* A turn may end before it has a message of its own.  A poll then finds the one
\* before it, if it finds any that is no longer written.
Unanswered(s) == ~Busy(s) /\ last[s].state \in {"none", "open"}
EndTurn(s, events, closes) ==
  /\ turn' = [turn EXCEPT ![s] = @ \ {Current(s)}]
  /\ Publish(At(s), events)
  /\ unheard' = IF Unanswered(s) /\ ~(closes /\ online[At(s)])
                 THEN unheard \cup {Current(s)} ELSE unheard

Idle(s) ==
  /\ Working(s)
  /\ Busy(s) => last[s].state = "complete"
  /\ EndTurn(s, <<Event("idle", s, << >>)>>, FALSE)
  /\ ended' = ended \cup {Current(s)}
  /\ UNCHANGED <<last, stopped>> /\ ServerOnly

\* It is broken off: a message that is being written gets the error.
BreakOff(s, state) ==
  /\ Working(s)
  /\ last' = IF Busy(s) /\ last[s].state = "open" THEN [last EXCEPT ![s].state = state] ELSE last
  /\ EndTurn(s, <<Event(state, s, << >>), Event("idle", s, << >>)>>, TRUE)

Fail(s) ==
  /\ BreakOff(s, "error")
  /\ UNCHANGED <<ended, stopped>> /\ ServerOnly

Gone(v) ==
  /\ os' = [os EXCEPT ![v] = "gone"]
  /\ turn' = [s \in Runs |-> {r \in turn[s] : home[r] # v}]

Die(v) ==
  /\ os[v] = "alive" /\ Gone(v)
  /\ UNCHANGED <<server, level, reaped, streamVars, startVars, runVars, stopped, last, ended, unheard, delivered>>

-----------------------------------------------------------------------------
\* Events to the runs of a session on one server; a terminal one closes them.
RunsOf(v, s) == {r \in runs : home[r] = v /\ session[r] = s}

CloseRuns(R) ==
  /\ closed' = closed \cup R
  /\ panicked' = (panicked \/ R \cap closed # {})
  /\ runs' = runs \ R

MessageOf(piece) == <<piece[1], piece[2]>>
Send(R, message, text) ==
  shown' = [r \in Runs |-> IF r \in R THEN [shown[r] EXCEPT ![message] = @ \o text] ELSE shown[r]]
SendEnd(R, state) == card' = [r \in Runs |-> IF r \in R THEN state ELSE card[r]]

\* safeSend drops what finds the channel full.
Full(R) == SUBSET {r \in R : plan[r].scope \in Slow}
Drop(R, what) == dropped' = dropped \cup (R \X what)

\* eventLoop connects, and connects again; what was in the stream when it broke,
\* or was published before it is back, is lost.
Connect(v) ==
  /\ os[v] = "alive" /\ ~online[v]
  /\ \E r \in runs : home[r] = v
  /\ online' = [online EXCEPT ![v] = TRUE]
  /\ UNCHANGED <<serverVars, wire, held, breaks, startVars, runVars, stopped, turnVars, delivered>>

Ends(event, r) == event.kind # "delta" /\ event.session = session[r]
Break(v) ==
  /\ online[v] /\ breaks < MaxBreaks
  /\ breaks' = breaks + 1
  /\ online' = [online EXCEPT ![v] = FALSE] /\ wire' = [wire EXCEPT ![v] = << >>]
  /\ unheard' = unheard \cup {r \in runs : home[r] = v /\ last[session[r]].state \in {"none", "open"}
                                 /\ \E i \in DOMAIN wire[v] : Ends(wire[v][i], r)}
  /\ UNCHANGED <<serverVars, held, startVars, runVars, stopped, turn, last, ended, delivered>>

\* dispatch records a text in one critical section, and sends it in another.
Record(v) ==
  /\ held[v] = << >> /\ wire[v] # << >> /\ Head(wire[v]).kind = "delta"
  /\ LET piece == Head(wire[v]).piece IN
       delivered' = [delivered EXCEPT ![v][MessageOf(piece)] = Append(@, piece)]
  /\ held' = [held EXCEPT ![v] = <<Head(wire[v])>>]
  /\ wire' = [wire EXCEPT ![v] = Tail(@)]
  /\ UNCHANGED <<serverVars, online, breaks, startVars, runVars, stopped, turnVars>>

SendText(v) ==
  /\ held[v] # << >>
  /\ LET event == held[v][1]  R == RunsOf(v, event.session) IN \E full \in Full(R) :
       Send(R \ full, MessageOf(event.piece), <<event.piece>>) /\ Drop(full, {"text"})
  /\ held' = [held EXCEPT ![v] = << >>]
  /\ UNCHANGED <<serverVars, online, wire, breaks, startVars, pc, runs, closed, card, polled,
                 panicked, early, raced, stopped, turnVars, delivered>>

\* session.idle reports the end and leaves the close to the poll; session.error
\* closes the runs, those of the next turn if it comes late.
Finish(v) ==
  /\ held[v] = << >> /\ wire[v] # << >> /\ Head(wire[v]).kind # "delta"
  /\ wire' = [wire EXCEPT ![v] = Tail(@)]
  /\ LET event == Head(wire[v])  R == RunsOf(v, event.session) IN \E full \in Full(R) :
       /\ Drop(full, {"end"})
       /\ SendEnd(R \ full,
                  CASE event.kind = "idle" -> "done"
                    [] event.kind = "aborted" -> "interrupted"
                    [] event.kind = "error" -> "error")
       /\ CloseRuns(IF event.kind = "idle" THEN {} ELSE R)
  /\ UNCHANGED <<serverVars, online, held, breaks, startVars, pc, shown, polled, early, raced,
                 stopped, turnVars, delivered>>

\* Faulty: the runs of a server that died are left to the poll.
ReapNothing(v) ==
  /\ os[v] = "gone" /\ ~reaped[v]
  /\ reaped' = [reaped EXCEPT ![v] = TRUE]
  /\ online' = [online EXCEPT ![v] = FALSE]
  /\ wire' = [wire EXCEPT ![v] = << >>] /\ held' = [held EXCEPT ![v] = << >>]
  /\ UNCHANGED <<server, os, level, breaks, startVars, runVars, stopped, turnVars, delivered>>

\* The goroutine that waits for the process closes the runs it has; what is
\* left of the stream finds none.
Reap(v) ==
  /\ os[v] = "gone" /\ ~reaped[v]
  /\ reaped' = [reaped EXCEPT ![v] = TRUE]
  /\ online' = [online EXCEPT ![v] = FALSE]
  /\ wire' = [wire EXCEPT ![v] = << >>] /\ held' = [held EXCEPT ![v] = << >>]
  /\ LET R == {r \in runs : home[r] = v} IN \E full \in Full(R) :
       SendEnd(R \ full, "error") /\ Drop(full, {"end"}) /\ CloseRuns(R)
  /\ UNCHANGED <<server, os, level, breaks, startVars, pc, shown, polled, early, raced,
                 stopped, turnVars, delivered>>

-----------------------------------------------------------------------------
\* Faulty: a message without an error is complete.
TerminalIfNoError(message) == TRUE

\* reconcilePoll: a message that is neither complete nor in error is no end.
Terminal(message) == message.state \in {"complete", "error", "aborted"}
Ending(message) ==
  CASE message.state = "error" -> "error"
    [] message.state = "aborted" -> "interrupted"
    [] OTHER -> "done"

FullText(message) == [i \in 1..message.size |-> <<message.run, message.n, i>>]

\* Faulty: the whole text is sent again.
MissingAll(done, full) == full

\* missingText: what the stream has not delivered; nothing if it has delivered
\* something else.
MissingText(done, full) ==
  IF IsPrefix(done, full) THEN SubSeq(full, Len(done) + 1, Len(full)) ELSE << >>

Id(message) == <<message.run, message.n>>
Delivered(r, message) == delivered[home[r]][Id(message)]

\* pollRun, every 3 s: the last assistant message is fetched, and the text that
\* was delivered of it is looked up.
Poll(r) ==
  /\ pc[r] = "running" /\ polled[r] = << >> /\ r \in runs
  /\ os[home[r]] = "alive"
  /\ LET message == last[session[r]] IN
       /\ message # NoMessage /\ Terminal(message)
       /\ polled' = [polled EXCEPT ![r] = <<message, Delivered(r, message)>>]
       /\ early' = IF message.state = "complete" /\ r \notin ended THEN early \cup {r} ELSE early
  /\ UNCHANGED <<serverVars, streamVars, startVars, pc, runs, closed, shown, card, panicked, raced,
                 dropped, stopped, turnVars, delivered>>

\* Faulty: whether the run is still registered is not looked at again.
StillRuns(r) == {r}

\* It was registered before the messages were fetched, and may not be by now.
Still(r) == {r} \cap runs

\* Then the text that is missing and the end go to the run.
PollCloses(r) ==
  /\ pc[r] = "running" /\ polled[r] # << >> /\ Still(r) # {}
  /\ LET message == polled[r][1]  done == polled[r][2]
         rest == MissingText(done, FullText(message)) IN
       /\ \E full \in Full(IF rest = << >> THEN {} ELSE Still(r)), missed \in Full(Still(r)) :
            /\ Send(Still(r) \ full, Id(message), rest)
            /\ SendEnd(Still(r) \ missed, Ending(message))
            /\ dropped' = dropped \cup (full \X {"text"}) \cup (missed \X {"end"})
       /\ CloseRuns(Still(r))
       /\ raced' = IF Delivered(r, message) # done \/ held[home[r]] # << >>
                   THEN raced \cup {r} ELSE raced
  /\ UNCHANGED <<serverVars, streamVars, startVars, pc, polled, early, stopped, turnVars, delivered>>

-----------------------------------------------------------------------------
\* ensureServerForAccess, under the adapter's lock: the server is used if it
\* was started with this access and is healthy.
Idling(r) ==
  /\ r \in DOMAIN plan /\ pc[r] = "idle"
  /\ \A x \in 1..(r - 1) : plan[x].scope = plan[r].scope => Over(x)

\* Faulty: any server that is healthy will do.
AnyLevel(r) == TRUE

SameLevel(r) == level[server] = plan[r].access

Usable(r) == IF server = None THEN FALSE ELSE os[server] = "alive" /\ SameLevel(r)

Reuse(r) ==
  /\ Idling(r) /\ Usable(r)
  /\ home' = [home EXCEPT ![r] = server]
  /\ Goto(r, "session")
  /\ UNCHANGED <<serverVars, streamVars, sessions, plan, session, runs, closed, shown, card, polled,
                 panicked, early, raced, dropped, stopped, turnVars, delivered>>

\* Otherwise, and when the health check took too long, it is killed under all
\* the runs it has, and a new one is started, which may fail.
Start(r, ok) ==
  /\ Idling(r)
  /\ LET fresh == Cardinality({v \in Servers : os[v] # "none"}) + 1
         killed == {server} \ {None}
         started == IF ok THEN {fresh} ELSE {}
     IN /\ fresh \in Servers
        /\ os' = [v \in Servers |-> IF v \in started THEN "alive" ELSE IF v \in killed THEN "gone" ELSE os[v]]
        /\ turn' = [s \in Runs |-> {x \in turn[s] : home[x] \notin killed}]
        /\ level' = [v \in Servers |-> IF v \in started THEN plan[r].access ELSE level[v]]
        /\ server' = IF ok THEN fresh ELSE None
        /\ home' = [home EXCEPT ![r] = IF ok THEN fresh ELSE None]
  /\ Goto(r, IF ok THEN "session" ELSE "refused")
  /\ UNCHANGED <<reaped, streamVars, sessions, plan, session, runs, closed, shown, card, polled,
                 panicked, early, raced, dropped, stopped, last, ended, unheard, delivered>>

\* sessionFor: the session of the scope, or a new one; then registerRun.
OpenSession(r) ==
  /\ pc[r] = "session"
  /\ LET known == sessions[plan[r].scope] IN
       IF known = None /\ os[home[r]] = "gone"
       THEN Goto(r, "refused") /\ UNCHANGED <<sessions, session, runs>>
       ELSE /\ session' = [session EXCEPT ![r] = IF known = None THEN r ELSE known]
            /\ sessions' = [sessions EXCEPT ![plan[r].scope] = session'[r]]
            /\ runs' = runs \cup {r}
            /\ Goto(r, "prompt")
  /\ UNCHANGED <<serverVars, streamVars, plan, home, closed, shown, card, polled,
                 panicked, early, raced, dropped, stopped, turnVars, delivered>>

\* Run: the prompt is accepted, or closeRun takes the run back if the waiter
\* has not closed it before.
Prompt(r, ok) ==
  /\ pc[r] = "prompt"
  /\ ok => os[home[r]] = "alive"
  /\ turn' = IF ok THEN [turn EXCEPT ![session[r]] = @ \cup {r}] ELSE turn
  /\ IF ok THEN UNCHANGED <<closed, panicked, runs>> ELSE CloseRuns(Still(r))
  /\ Goto(r, IF ok THEN "running" ELSE "refused")
  /\ UNCHANGED <<serverVars, streamVars, startVars, shown, card, polled, early, raced, dropped, stopped,
                 last, ended, unheard, delivered>>

\* The loop of runBatch sees the close.
SeesClose(r) ==
  /\ pc[r] = "running" /\ r \in closed
  /\ card' = [card EXCEPT ![r] = IF @ # "running" THEN @
                                   ELSE IF r \in stopped THEN "interrupted" ELSE "done"]
  /\ Goto(r, "over")
  /\ UNCHANGED <<serverVars, streamVars, startVars, runs, closed, shown, polled, panicked,
                 early, raced, dropped, stopped, turnVars, delivered>>

\* Stop asks once, and the server may break off what it works on.
Stop(r) ==
  /\ pc[r] = "running" /\ r \notin stopped
  /\ stopped' = stopped \cup {r}
  /\ UNCHANGED <<last, turn, unheard, wire>> \/ BreakOff(session[r], "aborted")
  /\ UNCHANGED ended /\ ServerOnly

\* ResetSession of /new and /cd; it makes a difference to a run to come.
Reset(c) ==
  /\ sessions[c] # None
  /\ \E r \in DOMAIN plan : plan[r].scope = c /\ pc[r] = "idle"
  /\ sessions' = [sessions EXCEPT ![c] = None]
  /\ UNCHANGED <<serverVars, streamVars, plan, session, home, runVars, stopped, turnVars, delivered>>

-----------------------------------------------------------------------------
Turn(s) == NewMessage(s) \/ Write(s) \/ Complete(s) \/ Idle(s) \/ Fail(s)
Running(r) == OpenSession(r) \/ Prompt(r, FALSE) \/ Poll(r) \/ PollCloses(r) \/ SeesClose(r)
Streaming(v) == Record(v) \/ SendText(v) \/ Finish(v) \/ Reap(v)

Next ==
  \/ \E s \in Runs : Turn(s)
  \/ \E v \in Servers : Die(v) \/ Connect(v) \/ Break(v) \/ Streaming(v)
  \/ \E r \in Runs : Reuse(r) \/ Start(r, TRUE) \/ Start(r, FALSE)
                     \/ Prompt(r, TRUE) \/ Running(r) \/ Stop(r)
  \/ \E c \in Scopes : Reset(c)

Spec == Init /\ [][Next]_vars

\* The goroutines run, a poll is answered as long as the server lives, and
\* nothing else is assumed of the server or the stream.
FairSpec ==
  /\ Spec
  /\ WF_vars((\E r \in Runs : Running(r)) \/ (\E v \in Servers : Streaming(v)))

-----------------------------------------------------------------------------
\* Values of the variables: a piece of text is its run, message and number.
States == {"open", "complete", "error", "aborted"}
Pieces == Runs \X (1..MaxMessages) \X Nat
Kinds == {"delta", "idle", "error", "aborted"}
Deltas == [kind : {"delta"}, session : Runs, piece : Pieces]
Events == Deltas \cup [kind : Kinds \ {"delta"}, session : Runs, piece : {<< >>}]
LastMessages == [run : Runs, n : 1..MaxMessages, size : Nat, state : States]

TypeOK ==
  /\ server \in Servers \cup {None} /\ os \in [Servers -> {"none", "alive", "gone"}]
  /\ {reaped, online} \subseteq [Servers -> BOOLEAN] /\ breaks \in 0..MaxBreaks
  /\ wire \in [Servers -> Seq(Events)] /\ held \in [Servers -> Seq(Deltas)]
  /\ \A v \in Servers : Len(held[v]) <= 1
  /\ plan \in Plans /\ sessions \in [Scopes -> Runs \cup {None}]
  /\ pc \in [Runs -> {"idle", "session", "prompt", "running", "refused", "over"}]
  /\ session \in [Runs -> Runs \cup {None}] /\ home \in [Runs -> Servers \cup {None}]
  /\ \A R \in {runs, closed, stopped, ended, early, raced, unheard} : R \subseteq Runs
  /\ dropped \subseteq Runs \X {"text", "end"}
  /\ shown \in [Runs -> [Messages -> Seq(Pieces)]]
  /\ card \in [Runs -> {"running", "done", "error", "interrupted"}]
  /\ polled \in [Runs -> {<< >>} \cup (LastMessages \X Seq(Pieces))]
  /\ turn \in [Runs -> SUBSET Runs] /\ last \in [Runs -> LastMessages \cup {NoMessage}]
  /\ delivered \in [Servers -> [Messages -> Seq(Pieces)]] /\ panicked \in BOOLEAN

\* A card reads done only when the server has completed that turn, whatever
\* happens to the stream and the server.  Exempt are a poll that found the
\* complete message of an earlier turn or of an earlier step, which pollRun
\* takes for the end, and an error that found the channel full: what is closed
\* without a word is taken for done.
DoneIsDone == \A r \in Runs :
  pc[r] = "over" /\ card[r] = "done" => r \in ended \cup early \/ <<r, "end">> \in dropped

\* "until the turn provably ends (assistant message completed / errored)" (the
\* comment on pollRun): what ends a run is a message of its own turn.
PollSeesOwnTurn == \A r \in Runs :
  pc[r] = "over" /\ card[r] = "done" /\ polled[r] # << >> => polled[r][1].run = r

\* Each run is closed once, whoever comes first: the stream, the poll, the
\* waiter or the failure of its start.
ClosedOnce == ~panicked

\* Each run is a run like any other (AgentRun), whoever of the stream, the poll and
\* the waiter tells its end: the channel is open while the run is registered.
ChannelIs(r) == IF pc[r] = "over" THEN "over" ELSE IF r \in closed THEN "closed"
                ELSE IF r \in runs THEN "open" ELSE "none"
Promised(r) == INSTANCE AgentRun WITH OneEnd <- FALSE, state <- ChannelIs(r), end <- card[r],
                                      stopped <- r \in stopped
ImplementsAgentRun ==
  /\ \A r \in Runs : Promised(r)!Init
  /\ [][\A r \in Runs : [Promised(r)!Next]_(Promised(r)!vars)]_vars

Missed(r) == \E what \in {"text", "end"} : <<r, what>> \in dropped

\* The last message of a completed turn is shown as it is, each piece once and
\* in order, also when the stream broke at any point and the rest came by the
\* poll.  Exempt are a stream that came back within the message, a poll that
\* falls between dispatch's record and its send, and a run whose channel was
\* full: dispatch has recorded a text it drops as delivered.
TextIsWhole == \A r \in Runs :
  LET message == last[session[r]] IN
    pc[r] = "over" /\ card[r] = "done" /\ r \notin raced /\ ~Missed(r)
    /\ polled[r][1] = message /\ message.run = r =>
      \/ ~IsPrefix(Delivered(r, message), FullText(message))
      \/ shown[r][Id(message)] = FullText(message)

\* How a run ends.
EndIsTrue == ClosedOnce /\ DoneIsDone

\* A run is served by a server that was started with its own access level,
\* however other scopes restart it.
ServedAsAllowed == \A r \in Runs :
  home[r] # None => level[home[r]] = plan[r].access

\* A run ends once its turn is over or its server is gone, even if the stream
\* never delivers a thing.  Exempt is a turn that ended without a message of its
\* own in a session whose last message, if any, was left unfinished, and whose
\* error the stream lost (or that had none): every poll of it only continues.
TurnEndsRun == \A r \in Runs :
  pc[r] = "running" /\ r \notin turn[session[r]]
    ~> pc[r] = "over" \/ (r \in unheard /\ last[session[r]].state \in {"none", "open"})
=============================================================================
