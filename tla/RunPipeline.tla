----------------------------- MODULE RunPipeline -----------------------------
(***************************************************************************)
(* What happens to a batch of messages: Bridge.runBatch from the moment    *)
(* the queue hands it the batch until Unblock, and the slash commands that *)
(* stop a run and change its session from their own goroutines.  The queue *)
(* in front is SerialBatcher, which PendingQueue implements.  The runs of  *)
(* forwardToGroup pass by the queue, but nothing calls startQuickReply,    *)
(* which would let them begin, so they are not modelled.                   *)
(*                                                                         *)
(* The shared state is Bridge.runs, the session store and the asks of the  *)
(* broker; each has a mutex of its own, and one action is one critical     *)
(* section of it.  A run is named by the first message of its batch, and   *)
(* so is the agent session that a run without one opens.                   *)
(***************************************************************************)
EXTENDS Naturals, Sequences, FiniteSets, SequencesExt

CONSTANTS
  Scopes,
  Messages,   \* messages that go through the queue
  Stubborn,   \* those whose agent may neither answer its start nor heed a Stop
  Askers,     \* bound: those whose agent asks a question
  Commands,   \* slash commands and model picks, each sent at most once
  ScopeOf,    \* the scope of a message or command
  KindOf,     \* KindOf[c]: "stop", "new", "mode" or "model"
  Mixes,      \* bound: the inputs of a history are together in one of these
  NoRun, NoSid

Runs == Messages
Kinds == {"stop", "new", "mode", "model"}

ASSUME PipelineAssumption ==
  /\ ScopeOf \in [Runs \cup Commands -> Scopes]
  /\ KindOf \in [Commands -> Kinds] /\ Mixes \subseteq SUBSET (Runs \cup Commands)
  /\ Stubborn \cup Askers \subseteq Runs /\ Runs \cap Commands = {}
  /\ NoRun \notin Runs /\ NoSid \notin Runs

VARIABLES
  waiting, current,  \* the queue: see SerialBatcher
  pc,       \* pc[r]: how far runBatch of r is
  agent,    \* agent[r]: the agent CLI and its event channel
  stopped,  \* stopped[r]: run.Stop was called
  base,     \* base[r]: the session read when the run was prepared
  newSess,  \* newSess[r]: the session the run is going to store
  idle,     \* idle[r]: idleFired
  ask,      \* ask[r]: the question of the agent, "none", "open" or "settled"
  card,     \* card[r]: "none", "live" or how the reply to the user ended
  runs,     \* runs[s]: the entry of Bridge.runs
  sess,     \* sess[s]: the entry of the session store
  cpc,      \* cpc[c]: how far the handler of command c is
  victim,   \* victim[c]: the run stopRun took out of runs
  draft,    \* draft[c]: the session /mode or /model read and will change
  begun     \* begun[c]: history, the runs begun when c was finished

queueVars == <<waiting, current>>
runVars == <<pc, agent, stopped, base, newSess, idle, ask, card>>
cmdVars == <<cpc, victim, draft, begun>>
vars == <<queueVars, runVars, runs, sess, cmdVars>>

Queue == INSTANCE SerialBatcher

\* A mode or a model is named by the command that selected it; an agent may
\* report the model it uses.
Settings == Commands \cup {"default", "reported"}
Sessions == [sid : Runs \cup {NoSid}, mode : Settings, model : Settings]
\* A scope without an entry; an entry has a session id or a setting.
NoSession == [sid |-> NoSid, mode |-> "default", model |-> "default"]

Init ==
  /\ Queue!Init
  /\ pc = [r \in Runs |-> "idle"]
  /\ agent = [r \in Runs |-> "none"]
  /\ stopped = [r \in Runs |-> FALSE]
  /\ base = [r \in Runs |-> NoSession]
  /\ newSess = [r \in Runs |-> NoSession]
  /\ idle = [r \in Runs |-> FALSE]
  /\ ask = [r \in Runs |-> "none"]
  /\ card = [r \in Runs |-> "none"]
  /\ runs = [s \in Scopes |-> NoRun]
  /\ sess = [s \in Scopes |-> NoSession]
  /\ cpc = [c \in Commands |-> "idle"]
  /\ victim = [c \in Commands |-> NoRun]
  /\ draft = [c \in Commands |-> NoSession]
  /\ begun = [c \in Commands |-> {}]

At(r, l) == pc[r] = l
Goto(r, l) == pc' = [pc EXCEPT ![r] = l]

Arrived == {r \in Runs : ~At(r, "idle")} \cup {c \in Commands : cpc[c] # "idle"}
Bounded(i) == \E mix \in Mixes : Arrived \cup {i} \subseteq mix

-----------------------------------------------------------------------------
\* The queue accepts a message, and hands over a batch when none is worked on.
Send(m) ==
  /\ At(m, "idle") /\ Bounded(m)
  /\ \A s \in Scopes : m \notin ToSet(waiting[s]) /\ m \notin ToSet(current[s])
  /\ Queue!Accept(ScopeOf[m], m)
  /\ Goto(m, "queued")
  /\ UNCHANGED <<agent, stopped, base, newSess, idle, ask, card, runs, sess, cmdVars>>

\* The other messages of a batch have no run of their own.
Begin(s, n) ==
  /\ Queue!Start(s, n)
  /\ pc' = [r \in Runs |-> IF r = waiting[s][1] THEN "reading"
                           ELSE IF \E i \in 2..n : r = waiting[s][i] THEN "merged"
                           ELSE pc[r]]
  /\ UNCHANGED <<agent, stopped, base, newSess, idle, ask, card, runs, sess, cmdVars>>

\* Sessions.Get for the RunOptions; newSess starts with its mode and model.
ReadSession(r) ==
  /\ At(r, "reading")
  /\ base' = [base EXCEPT ![r] = sess[ScopeOf[r]]]
  /\ newSess' = [newSess EXCEPT ![r] = [sess[ScopeOf[r]] EXCEPT !.sid = NoSid]]
  /\ Goto(r, "launching")
  /\ UNCHANGED <<queueVars, agent, stopped, idle, ask, card, runs, sess, cmdVars>>

\* Agent.Run
Launch(r) ==
  /\ At(r, "launching")
  /\ agent' = [agent EXCEPT ![r] = "live"]
  /\ Goto(r, "launched")
  /\ UNCHANGED <<queueVars, stopped, base, newSess, idle, ask, card, runs, sess, cmdVars>>

\* Faulty: Unblock is not deferred, and the error path forgets it.
LaunchFailsBlocked(r) ==
  /\ pc[r] \in {"reading", "launching"}
  /\ card' = [card EXCEPT ![r] = "error"]
  /\ Goto(r, "done")
  /\ UNCHANGED <<queueVars, agent, stopped, base, newSess, idle, ask, runs, sess, cmdVars>>

\* Agent.Run fails, or resolveCwd before it.
LaunchFails(r) ==
  /\ pc[r] \in {"reading", "launching"}
  /\ card' = [card EXCEPT ![r] = "error"]
  /\ Goto(r, "unblocking")
  /\ UNCHANGED <<queueVars, agent, stopped, base, newSess, idle, ask, runs, sess, cmdVars>>

Publish(r) ==
  /\ At(r, "launched")
  /\ runs' = [runs EXCEPT ![ScopeOf[r]] = r]
  /\ Goto(r, "starting")
  /\ UNCHANGED <<queueVars, agent, stopped, base, newSess, idle, ask, card, sess, cmdVars>>

StartCard(r) ==
  /\ At(r, "starting")
  /\ card' = [card EXCEPT ![r] = "live"]
  /\ Goto(r, "looping")
  /\ UNCHANGED <<queueVars, agent, stopped, base, newSess, idle, ask, runs, sess, cmdVars>>

\* Faulty: the error path of stream.Start does not stop the agent.
StartCardFailsUnstopped(r) ==
  /\ At(r, "starting")
  /\ card' = [card EXCEPT ![r] = "error"]
  /\ Goto(r, "cleaning")
  /\ UNCHANGED <<queueVars, agent, stopped, base, newSess, idle, ask, runs, sess, cmdVars>>

\* stream.Start fails: stop the agent, and leave through the deferred calls.
StartCardFails(r) ==
  /\ At(r, "starting")
  /\ stopped' = [stopped EXCEPT ![r] = TRUE]
  /\ card' = [card EXCEPT ![r] = "error"]
  /\ Goto(r, "cleaning")
  /\ UNCHANGED <<queueVars, agent, base, newSess, idle, ask, runs, sess, cmdVars>>

-----------------------------------------------------------------------------
\* The agent CLI (external): it may stop answering, end by itself with a
\* terminal event, or end because of a Stop; the channel closes when it is gone.
\* A Stop need not end a deaf agent: the acp one only cancels the prompt, that
\* of opencode asks the server for an abort, and a child of a CLI that was
\* killed can hold the pipe.
Alive(r) == agent[r] \in {"live", "hung", "deaf"}

AgentDoes(r, a) ==
  /\ agent' = [agent EXCEPT ![r] = a]
  /\ UNCHANGED <<queueVars, pc, stopped, base, newSess, idle, ask, card, runs, sess, cmdVars>>

AgentHangs(r) ==
  agent[r] = "live" /\ (AgentDoes(r, "hung") \/ (r \in Stubborn /\ AgentDoes(r, "deaf")))
AgentFinishes(r) == agent[r] = "live" /\ AgentDoes(r, "finished")
AgentDies(r) == Alive(r) /\ stopped[r] /\ AgentDoes(r, "killed")

\* EventSystem or EventDone with a session id: the one resumed, or a new one.
SessionEvent(r) ==
  /\ At(r, "looping") /\ agent[r] \in {"live", "finished"}
  /\ newSess[r].sid = NoSid
  /\ newSess' = [newSess EXCEPT ![r].sid = IF base[r].sid = NoSid THEN r ELSE base[r].sid]
  /\ UNCHANGED <<queueVars, pc, agent, stopped, base, idle, ask, card, runs, sess, cmdVars>>

\* EventSystem or EventDone with a model
ModelEvent(r) ==
  /\ At(r, "looping") /\ agent[r] \in {"live", "finished"}
  /\ newSess' = [newSess EXCEPT ![r].model = "reported"]
  /\ UNCHANGED <<queueVars, pc, agent, stopped, base, idle, ask, card, runs, sess, cmdVars>>

\* EventAskUser: handleAskUser blocks the event loop in Register.  Bound: an
\* agent asks once per run, and only those of Askers do.
AskEvent(r) ==
  /\ r \in Askers /\ At(r, "looping") /\ agent[r] = "live"
  /\ ask[r] = "none"
  /\ ask' = [ask EXCEPT ![r] = "open"]
  /\ Goto(r, "asking")
  /\ UNCHANGED <<queueVars, agent, stopped, base, newSess, idle, card, runs, sess, cmdVars>>

\* The broker settles the ask: an answer or the deadline.
AskSettles(r) ==
  /\ ask[r] = "open"
  /\ ask' = [ask EXCEPT ![r] = "settled"]
  /\ UNCHANGED <<queueVars, pc, agent, stopped, base, newSess, idle, card, runs, sess,
                 cmdVars>>

\* Register returns: reply to the agent, rotate the card, go on.
AskReturns(r) ==
  /\ At(r, "asking") /\ ask[r] = "settled"
  /\ Goto(r, "looping")
  /\ UNCHANGED <<queueVars, agent, stopped, base, newSess, idle, ask, card, runs, sess,
                 cmdVars>>

\* InvalidateScope: whatever asks of the scope are open.
Swept(s) == [r \in Runs |-> IF ScopeOf[r] = s /\ ask[r] = "open" THEN "settled" ELSE ask[r]]

\* The idle watchdog: no event for the configured minutes.  It deletes the
\* entry of the scope ...
WatchdogFires(r) ==
  /\ At(r, "looping") /\ ~idle[r]
  /\ idle' = [idle EXCEPT ![r] = TRUE]
  /\ runs' = [runs EXCEPT ![ScopeOf[r]] = NoRun]
  /\ Goto(r, "firing")
  /\ UNCHANGED <<queueVars, agent, stopped, base, newSess, ask, card, sess, cmdVars>>

\* Faulty: the run is not stopped.
WatchdogUnstopped(r) ==
  /\ At(r, "firing")
  /\ Goto(r, "halting")
  /\ UNCHANGED <<queueVars, agent, stopped, base, newSess, idle, ask, card, runs, sess,
                 cmdVars>>

\* ... and stops the run, in the goroutine that reads its events, ...
WatchdogStops(r) ==
  /\ At(r, "firing")
  /\ stopped' = [stopped EXCEPT ![r] = TRUE]
  /\ Goto(r, "halting")
  /\ UNCHANGED <<queueVars, agent, base, newSess, idle, ask, card, runs, sess, cmdVars>>

\* ... which goes on when Stop returns.
StopReturns(r) ==
  /\ At(r, "halting")
  /\ Goto(r, "looping")
  /\ UNCHANGED <<queueVars, agent, stopped, base, newSess, idle, ask, card, runs, sess,
                 cmdVars>>

-----------------------------------------------------------------------------
\* Faulty: the missing entry in runs is not looked at.
TerminalUnstopped(r) ==
  IF agent[r] = "finished" THEN "done"
  ELSE IF idle[r] THEN "idle_timeout"
  ELSE "done"

\* The end of a run.  The card's terminal state: what the agent said, then the
\* watchdog, then the missing entry in runs, which means stopRun took it.
Terminal(r) ==
  IF agent[r] = "finished" THEN "done"
  ELSE IF idle[r] THEN "idle_timeout"
  ELSE IF runs[ScopeOf[r]] = NoRun THEN "interrupted"
  ELSE "done"

\* The channel is closed: the last update of the card, and Finish.
Finalize(r) ==
  /\ At(r, "looping") /\ agent[r] \in {"finished", "killed"}
  /\ card' = [card EXCEPT ![r] = Terminal(r)]
  /\ Goto(r, "merging")
  /\ UNCHANGED <<queueVars, agent, stopped, base, newSess, idle, ask, runs, sess, cmdVars>>

\* A model that was picked during the run takes the place of the run's own;
\* Sessions.Get finds nothing once resetSession has deleted the entry.
MergeModel(r) ==
  /\ At(r, "merging")
  /\ LET latest == sess[ScopeOf[r]]
     IN newSess' = [newSess EXCEPT ![r].model =
                      IF latest # NoSession /\ latest.model # base[r].model
                      THEN latest.model ELSE @]
  /\ Goto(r, "saving")
  /\ UNCHANGED <<queueVars, agent, stopped, base, idle, ask, card, runs, sess, cmdVars>>

\* Faulty: the session is stored even if the run reported none.
StoredAlways(r) == newSess[r]

\* Sessions.Set, unless the run reported no session id.
Stored(r) == IF newSess[r].sid = NoSid THEN sess[ScopeOf[r]] ELSE newSess[r]

SaveSession(r) ==
  /\ At(r, "saving")
  /\ sess' = [sess EXCEPT ![ScopeOf[r]] = Stored(r)]
  /\ Goto(r, "cleaning")
  /\ UNCHANGED <<queueVars, agent, stopped, base, newSess, idle, ask, card, runs, cmdVars>>

\* The deferred function: delete the entry of the scope, whosever it is ...
Cleanup(r) ==
  /\ At(r, "cleaning")
  /\ runs' = [runs EXCEPT ![ScopeOf[r]] = NoRun]
  /\ Goto(r, "sweeping")
  /\ UNCHANGED <<queueVars, agent, stopped, base, newSess, idle, ask, card, sess, cmdVars>>

\* ... then sweep the asks of the scope, whosever they are.
InvalidateAsks(r) ==
  /\ At(r, "sweeping")
  /\ ask' = Swept(ScopeOf[r])
  /\ Goto(r, "unblocking")
  /\ UNCHANGED <<queueVars, agent, stopped, base, newSess, idle, card, runs, sess, cmdVars>>

\* Unblock: the queue may hand over the next batch.
Unblock(r) ==
  /\ At(r, "unblocking")
  /\ Queue!Finish(ScopeOf[r])
  /\ Goto(r, "done")
  /\ UNCHANGED <<agent, stopped, base, newSess, idle, ask, card, runs, sess, cmdVars>>

-----------------------------------------------------------------------------
\* Slash commands.  All of them begin with stopRun.
CommandAt(c, l) == cpc[c] = l

\* What stopRun is followed by.
AfterStop(c) == IF KindOf[c] = "stop" THEN "done" ELSE "apply"

CommandGoto(c, l) ==
  /\ cpc' = [cpc EXCEPT ![c] = l]
  /\ begun' = [begun EXCEPT ![c] = IF l # "done" THEN @
                                   ELSE {r \in Runs : pc[r] \notin {"idle", "queued"}}]

\* stopRun takes the entry, if there is one; /stop then says "stopped", and
\* otherwise that nothing is running.
TakeRun(c) ==
  /\ CommandAt(c, "idle") /\ Bounded(c)
  /\ victim' = [victim EXCEPT ![c] = runs[ScopeOf[c]]]
  /\ runs' = [runs EXCEPT ![ScopeOf[c]] = NoRun]
  /\ CommandGoto(c, IF runs[ScopeOf[c]] # NoRun THEN "sweep" ELSE AfterStop(c))
  /\ UNCHANGED <<queueVars, runVars, sess, draft>>

Sweep(c) ==
  /\ CommandAt(c, "sweep")
  /\ ask' = Swept(ScopeOf[c])
  /\ CommandGoto(c, "stop")
  /\ UNCHANGED <<queueVars, pc, agent, stopped, base, newSess, idle, card, runs, sess,
                 victim, draft>>

StopVictim(c) ==
  /\ CommandAt(c, "stop")
  /\ stopped' = [stopped EXCEPT ![victim[c]] = TRUE]
  /\ CommandGoto(c, AfterStop(c))
  /\ UNCHANGED <<queueVars, pc, agent, base, newSess, idle, ask, card, runs, sess,
                 victim, draft>>

\* resetSession of /new
ResetSession(c) ==
  /\ CommandAt(c, "apply") /\ KindOf[c] = "new"
  /\ sess' = [sess EXCEPT ![ScopeOf[c]] = NoSession]
  /\ CommandGoto(c, "done")
  /\ UNCHANGED <<queueVars, runVars, runs, victim, draft>>

\* /mode and the model picker: Sessions.Get ...
ReadDraft(c) ==
  /\ CommandAt(c, "apply") /\ KindOf[c] \in {"mode", "model"}
  /\ draft' = [draft EXCEPT ![c] = sess[ScopeOf[c]]]
  /\ CommandGoto(c, "put")
  /\ UNCHANGED <<queueVars, runVars, runs, sess, victim>>

\* ... and Sessions.Set.
PutSession(c) ==
  /\ CommandAt(c, "put")
  /\ sess' = [sess EXCEPT ![ScopeOf[c]] =
                IF KindOf[c] = "mode" THEN [draft[c] EXCEPT !.mode = c]
                ELSE [draft[c] EXCEPT !.model = c]]
  /\ CommandGoto(c, "done")
  /\ UNCHANGED <<queueVars, runVars, runs, victim, draft>>

-----------------------------------------------------------------------------
\* The steps the bridge takes by itself once a run has begun.
RunStep(r) ==
  \/ ReadSession(r) \/ Launch(r) \/ LaunchFails(r)
  \/ Publish(r) \/ StartCard(r) \/ StartCardFails(r)
  \/ AskReturns(r) \/ WatchdogStops(r) \/ Finalize(r)
  \/ MergeModel(r) \/ SaveSession(r) \/ Cleanup(r) \/ InvalidateAsks(r) \/ Unblock(r)

AgentStep(r) == \/ AgentHangs(r) \/ AgentFinishes(r) \/ AgentDies(r)
                \/ SessionEvent(r) \/ ModelEvent(r) \/ AskEvent(r)

CommandStep(c) == Sweep(c) \/ StopVictim(c) \/ ResetSession(c) \/ ReadDraft(c) \/ PutSession(c)

BeginSome(s) == \E n \in DOMAIN waiting[s] : Begin(s, n)

Next ==
  \/ \E m \in Messages : Send(m)
  \/ \E s \in Scopes : BeginSome(s)
  \/ \E r \in Runs : \/ RunStep(r) \/ AgentStep(r) \/ AskSettles(r)
                     \/ WatchdogFires(r) \/ StopReturns(r)
  \/ \E c \in Commands : TakeRun(c) \/ CommandStep(c)

Spec == Init /\ [][Next]_vars

\* Goroutines and timers run.  Of an agent that is not stubborn it is assumed
\* that it answers its start, that it ends by itself unless it hangs, and that a
\* Stop ends it even then; a deaf one owes nothing, and Stop need not return.
\* The watchdog has to be counted on only when the agent does not answer.  No
\* run can take these steps for ever, so one fairness for all of them is enough.
Machine(r) ==
  \/ RunStep(r) /\ (At(r, "launching") => r \notin Stubborn)
  \/ AskSettles(r) \/ AgentFinishes(r)
  \/ agent[r] \in {"hung", "deaf"} /\ WatchdogFires(r)
  \/ agent[r] # "deaf" /\ (AgentDies(r) \/ StopReturns(r))

Fairness ==
  /\ \A s \in Scopes : WF_vars(BeginSome(s))
  /\ \A r \in Runs : WF_vars(Machine(r))

FairSpec == Spec /\ Fairness

-----------------------------------------------------------------------------
Labels == {"idle", "queued", "merged", "reading", "launching", "launched", "starting",
           "looping", "asking", "firing", "halting", "merging", "saving", "cleaning", "sweeping", "unblocking", "done"}

\* Values of the variables; stopRun goes on to Stop only with a run in hand.
TypeOK ==
  /\ waiting \in [Scopes -> Seq(Messages)]
  /\ current \in [Scopes -> Seq(Messages)]
  /\ pc \in [Runs -> Labels]
  /\ agent \in [Runs -> {"none", "live", "hung", "deaf", "finished", "killed"}]
  /\ stopped \in [Runs -> BOOLEAN]
  /\ base \in [Runs -> Sessions]
  /\ newSess \in [Runs -> Sessions]
  /\ idle \in [Runs -> BOOLEAN]
  /\ ask \in [Runs -> {"none", "open", "settled"}]
  /\ card \in [Runs -> {"none", "live", "error", "done", "interrupted", "idle_timeout"}]
  /\ runs \in [Scopes -> Runs \cup {NoRun}]
  /\ sess \in [Scopes -> Sessions]
  /\ cpc \in [Commands -> {"idle", "sweep", "stop", "apply", "put", "done"}]
  /\ victim \in [Commands -> Runs \cup {NoRun}]
  /\ \A c \in Commands : cpc[c] \in {"sweep", "stop"} => victim[c] \in Runs
  /\ draft \in [Commands -> Sessions]
  /\ begun \in [Commands -> SUBSET Runs]

\* Who has taken r out of runs and has still to stop it: the watchdog or a
\* command.
InHand(r) ==
  \/ At(r, "firing")
  \/ \E c \in Commands : victim[c] = r /\ cpc[c] \in {"sweep", "stop"}

\* A run whose agent works for it can be stopped: /stop finds it in runs, or
\* who took it from there is on the way to Stop, or Stop was called.  runs is
\* deleted from by three parties that do not look whose entry it is.
StopReachesRun == \A r \in Runs :
  pc[r] \in {"starting", "looping", "asking", "firing", "halting"} =>
    runs[ScopeOf[r]] = r \/ InHand(r) \/ stopped[r]

\* A run that was stopped and did not finish by itself does not end with a card
\* that says it is done: runBatch deduces this from the missing entry in runs.
StopIsShown == \A r \in Runs : card[r] = "done" => agent[r] = "finished"

\* A stop, from whoever it comes, is carried out and told.
StopIsTrue == StopReachesRun /\ StopIsShown

\* No agent is left behind: when a run is over, its agent is gone or was told
\* to stop, on every way out of runBatch.
NoAgentLeft == \A r \in Runs :
  pc[r] \in {"unblocking", "done"} /\ Alive(r) => stopped[r]

\* A conversation goes on where it was: once a run has reported a session, the
\* store keeps it for the next one, whether runs end well, are stopped, time
\* out, or fail before they report anything; /new ends the conversation, and
\* /mode and a model pick may put the session of before the run back.
SessionIsKept == \A r \in Runs :
  /\ pc[r] = "done" /\ newSess[r].sid # NoSid
  /\ \A c \in Commands : cpc[c] = "idle" \/ KindOf[c] = "stop"
  => sess[ScopeOf[r]].sid = newSess[r].sid

\* The agent holds the run: it does not answer its start, or does not heed Stop.
Stuck(r) == agent[r] = "deaf" \/ (r \in Stubborn /\ At(r, "launching"))

\* Once a run has begun it ends, whether its agent finishes, asks, fails to
\* start or hangs until it is stopped, and whatever the user stops, so that the
\* scope is opened for the next batch.  Nothing ends a run whose agent does not
\* come back from its start or is deaf to Stop: the watchdog fires once, and
\* runBatch waits for a channel that stays open.
EveryRunEnds == \A r \in Runs :
  <>[]Stuck(r) \/ (pc[r] = "reading" ~> pc[r] = "done")

\* Every message gets its turn, unless the agent of a run before it in its
\* scope holds that run for ever.
EveryMessageRuns == \A m \in Messages :
  \/ \E r \in Runs : ScopeOf[r] = ScopeOf[m] /\ <>[]Stuck(r)
  \/ pc[m] = "queued" ~> pc[m] \in {"reading", "merged"}

-----------------------------------------------------------------------------
\* What the documentation says and the interleavings contradict.

\* /new stops the run and starts a new session: no run that begins after it
\* resumes a session of a run that had begun before it.
NewStartsFresh == \A c \in Commands, r \in Messages :
  /\ KindOf[c] = "new" /\ CommandAt(c, "done") /\ victim[c] # NoRun
  /\ ScopeOf[r] = ScopeOf[c] /\ r \notin begun[c]
  => base[r].sid \notin begun[c]
=============================================================================
