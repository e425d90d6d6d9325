# TLA+ models of lark-coding-agent-bridge-go

The bridge connects Feishu chats to coding agents that run as child processes.
A message becomes part of a batch of its conversation (a *scope*), the batch
becomes a run of an agent, the agent's events become a streaming card, and a
question of the agent becomes a card that users answer. This directory holds
TLA+ modules of the parts where goroutines, processes, timers and crashes meet,
TLC configurations that check them on small instances, and proofs, checked by
TLAPS, for every value of the constants.

    tlc -workers 2 -config queue_prompt.cfg MCPendingQueue   # a run: see PROJECT.json
    tlapm Bridge_proofs.tla                                  # the proofs of a module

`PROJECT.json` lists the runs, the properties each checks, a mutant of the model
for every checked property (a plausible bug, defined beside the definition it
replaces and marked *Faulty*, that must violate it), the source lines each
definition stands for, the hazards, and the theorems.

## Inventory

| part | state | operations | what is hard | what makes it correct |
|---|---|---|---|---|
| debounce queue (`bridge/queue.go`) | per scope: buffer, timer, blocked | Push, timer → fire, flush → Block, run ends → Unblock | the mutex is free between fire and Block; stale timers; arming is skipped while blocked | one batch per scope, order kept, no message or wakeup lost |
| run pipeline (`bridge/bridge.go`, `run_card.go`, `commands.go`) | `runs`, session store, per-run locals | runBatch, /stop, /new, /mode, model pick | commands run in goroutines of their own against a run that holds copies of what they change | every run ends, can be stopped, says how it ended, leaves no agent behind, keeps its session |
| ask broker (`ask/broker.go`, `bridge/ask.go`) | asks with selections, result channel, deadline | Register, Toggle, Select, Submit, SubmitInput, SubmitComment, Invalidate(Scope) | click, text, deadline, sweep and dispatch failure race to settle | one verdict, admissible, told to its author only, delivered to the agent |
| ask IPC (`ask/server.go`) | hook connections | hook server | a hook of an agent that is already gone | every hook gets one answer |
| streaming card (`card/stream.go`) | latest snapshot, token, sequence number | Update, loop, push, Finish | two goroutines push; a refresh writes beside the run | the last state is shown, numbers increase, Finish returns |
| run state reducer (`card/state.go`) | blocks of a card, footer, terminal | Reduce, Mark, FinalizeIfRunning | texts, calls and results interleave; events after the end | the card is the transcript, and reads how the run ended |
| in-flight cards (`bridge.go`, `main.go`) | `active-cards.json` | save, remove, rotate, CleanupStaleCards | the process dies at any step; no lock | a card of a run that died is visited after the restart |
| child process run (`agent/run.go`, `claude.go`, `kimi.go`) | process, pipes, event channel | startProc, emit, Stop, onCleanup | bounded channel, exit codes, signals, pipes of grandchildren | no event lost, a failure is told, a stopped run ends |
| pi/omp adapter (`agent/pi.go`) | persistent process, one slot, pending requests | sessionFor, request, startRun, readLoop, waiter, Stop | dropped events, abort against settled, two closers of a channel | done only when the turn is done; a stop ends the run; a start comes back |
| ACP adapters (`agent/acp.go`, `grok.go`, `cursor.go`) | shared client, session id, run channel | call, readLoop, reverse requests, startRun, Stop, ResetSession | calls without timeout, death between two steps, a full channel at a question | done only when the turn is done; each question has one answer, what the user chose; death frees everybody |
| codex adapter (`agent/codex_appserver.go`) | process per turn, thread, turn, pending requests | start, readLoop, waitLoop, approvals, Stop | three goroutines end a run; other clients of a shared daemon | done only for a completed turn; an error stays; Stop returns |
| opencode adapter (`agent/opencode.go`) | one server for all scopes, SSE streams, runs by session | ensureServer, dispatch, poll, watchdog, Stop | the stream breaks; the poll decides on old data; the server is replaced | done only for a completed turn, closed once, no text lost, right access level |
| process registry (`registry/registry.go`) | `processes.json`, file lock | Register, heartbeat, deregister, List | several processes; killed with the lock; unlocked List | a living process is listed, or comes back |
| profile lock (`registry/profile_lock.go`) | flock | acquire, release, kernel release | killed and started twice | one owner |
| supervisor (`supervisor/supervisor.go`) | client, consecutive failures, stop flag | connect, probe, rebuild, Stop | Stop while the client is replaced | one connection; a lost one is replaced; a stop ends the process |
| session, binding, group stores (`state/*.go`, `bridge/bind.go`) | JSON stores in memory and on disk | Get, Set, Bind, Unbind, Flush | check and set by two chats, crash between flushes | what was answered stays true; a group that answers is made once |
| access control (`policy/access.go`, `bridge/access.go`) | allow lists | decide, edit | load-modify-save | an edit is not lost |
| message formatting, card layout, model lists, usage, prices, media, configuration, onboarding, upgrade | — | parsing, files, HTTP | — | not modelled: I/O and wording |

How they interact: the event handlers call `PendingQueue.Push`; the queue's timer
goroutine calls `flush`, which blocks the scope and starts `runBatch`; `runBatch`
starts the agent through its adapter, reads its channel, folds the events into
the card state, updates the card stream, calls the broker for questions (and
waits in it), and at the end stores the session, removes its entry of `runs` and
of `active-cards.json`, finishes the card and unblocks the queue. Slash commands
and card clicks run in goroutines of their own and reach the run only through
`runs`, the stores and the broker. `main.run` takes the profile lock, registers
the process and runs the supervisor until a signal; the adapters' processes,
the registry and the lock file are what outlives a goroutine or a process.

## Modules

| module | models | composes or refines |
|---|---|---|
| `SerialBatcher` | the promise of the queue, without locks and timers | |
| `PendingQueue` | `queue.go` and `flush` | implements `SerialBatcher` |
| `AskOnce` | the promise of the broker: one verdict per ask | |
| `AskBroker` | `ask/broker.go`, its dispatcher and card actions | implements `AskOnce` |
| `RunPipeline` | `runBatch` and the commands against it | has `SerialBatcher` in front, asks as the broker treats them |
| `CardStream` | `card/stream.go`, the run and a refresh that write to it | |
| `AgentRun` | what a run of any agent promises the bridge: one channel, opened and closed once, and its end | |
| `CardState` | `Reduce`, `Mark`, `FinalizeIfRunning` as operators | |
| `ProcRun` | `agent/run.go`, the Claude and Kimi adapters, the receiving loop | folds with `CardState`, implements `AgentRun` |
| `PiSession` | `agent/pi.go` for one scope, and the loop of `runBatch` on it | each run implements `AgentRun` |
| `AcpAsk` | the reading and answering of ACP questions and permissions, as operators | |
| `AcpSession` | `acp.go`, `grok.go`, `cursor.go` for one scope, and the loop on it | answers with `AcpAsk`, each run implements `AgentRun` |
| `CodexTurn` | one turn of `codex_appserver.go`, and the loop on it | implements `AgentRun` |
| `OpenCode` | `agent/opencode.go` for all scopes | each run implements `AgentRun` |
| `ActiveCards` | `active-cards.json`, rotation, crash, shutdown, clean-up | |
| `Bindings` | `/bind`, `/open`, `/unbind`, `/new`, run ends on the stores and files | |
| `Registry` | `registry/registry.go` with several processes | |
| `Supervisor` | `supervisor/supervisor.go` | |
| `Host` | `run` of `main.go` with the profile lock | composes `Registry` and `Supervisor` |
| `MC*` | give the constants of the runs | extend their module |
| `AskBroker_proofs`, `RunPipeline_proofs`, `PiSession_proofs`, `CodexTurn_proofs`, `OpenCode_proofs`, `AcpSession_proofs` | theorems | extend their module |
| `Bridge_proofs` | theorems about the bridge process | extends `PendingQueue` (hence its `QueueSpec`, not `Spec`), `Host` and `Bindings` (hence its `BindSpec`) |
| `Cards_proofs` | theorems about the cards of runs | extends `CardStream`, `ActiveCards` (hence its `CardsSpec`) and `ProcRun` (hence its `ProcSpec`) |

One action is one critical section of a mutex, one system call on a file, one
receive or send on a channel, or one request to Feishu or an agent; what happens
between two of them can interleave with anything.

* **PendingQueue.** `timer[s]` is the timer in the `timer` field, `orphans[s]`
  those the field lost, `firing[s]` goroutines of `time.AfterFunc` that wait for
  the mutex; `taken[s]` are batches between `fire`'s unlock and `Block`. With
  `PromptHandoff` a message does not wait out its 600 ms debounce while a batch of
  the same scope sits between those two; without it that window stays open.
* **AskBroker.** `entry` is the place in the map, `resolve` the buffered channel,
  `caller` the goroutine in `Register`, `notice` a pending `OnSettle`, `sweeping`
  an `InvalidateScope` that has its list and settles one ask after the other.
* **RunPipeline.** `pc[r]` is the line `runBatch` is at, `base` and `newSess` its
  two copies of the session, `runs`, `sess` the shared maps, `cpc`, `victim`,
  `draft` the locals of the command handlers. A run is named by the first message
  of its batch. The watchdog is three steps: it drops the entry (`firing`), calls
  Stop (`halting`) and goes on when Stop returns. `/reset` and `/cd` go the way of
  `/new`. `forwardToGroup` is left out: nothing calls `startQuickReply`, so that no
  quick reply is ever pending.
* **CardStream.** A snapshot is its number. `notify` is the one-token channel,
  `call[p]` a request under way. A request may fail before or after it arrived.
* **ProcRun.** `reader` is the goroutine of `startProc`, `pipe` the agent's
  stdout, `held` the pipes a child of the agent keeps open, `TooLong` the lines
  the scanner gives up on, `stop[s]` the callers of `Stop`. A line is its number
  and its kind; the adapters' translation of a line to events is an operator, and
  the loop keeps the card with `Reduce`.
* **PiSession, AcpSession, CodexTurn, OpenCode.** Each has the agent's process as
  an environment that answers, refuses, falls silent, writes too much or dies at
  any step; its stdin and stdout are sequences; the reading goroutine, the waiting
  goroutine, the goroutine of `Run` and the loop of `runBatch` are actors with a
  place in their code. The event channel has a small capacity where it can fill
  up (in OpenCode the loops of the chats of `Slow` may be so far behind that any
  event finds the 256 places taken), and a channel that is closed twice, or sent to after its close, makes the
  bridge panic, where the history ends.
* **AgentRun.** `state` is the channel, `end` how the run ended as far as was told:
  the end that is on the card or, told and not read yet, the last one in the channel.
  An adapter with `OneEnd` tells one at most (Codex, Pi); the others may tell an error
  and a done, of which the later counts. An end that was not told is the loop's to
  conclude: a run that was stopped was interrupted, another is done.
* **ActiveCards.** `stage[s]` walks a run through load, truncate and write of the
  file; `torn` is the file between `O_TRUNC` and its content. `raced` is a history
  variable: two runs were at the file at the same time.
* **Bindings.** A command is the list of store calls it still has to make, so that
  those of two commands, of a run's end and of a crash interleave; memory and disk
  are two copies, and a flush writes one store as a whole. `told` and `chosen` are
  histories of what the answers said; an answer in a group that was lost in the
  meantime is read by nobody (`Reached`) and promises nothing. `given` is the
  session that a command gave a chat to continue, while nothing is known that
  takes its place. `raced` are the sessions that two commands worked on at once.
  `GetChat` may fail for a group that lives.
* **Registry, Supervisor, Host.** `step[t]` and `view[t]` are the threads of the
  processes in `withLock`, `dropped` the processes that the unlocked `List`
  overwrote. `sup[p]` is the place of `Run`, `conn[p]` what the present client is
  to Feishu, `left[p]` that an earlier client is still connected. `Host` orders
  lock, registration, supervision, signal and deregistration as `main.go` does,
  and gives a dead process's lock back.

## Runs

| run | instance | properties | shows |
|---|---|---|---|
| `queue_prompt` | 2 scopes, 4 messages, prompt hand-over | NoLostWakeup, ImplementsSerialBatcher | no message waits without a timer, and the queue implements `SerialBatcher` |
| `ask_form` | a single-select ask and a form with a single- and a multi-select question that takes a text, in two topics of a chat, 2 users | LoserWasBeaten, ImplementsAskOnce, RegisterReturns | one verdict per ask, delivered to its agent and credited to its author only; every `Register` returns |
| `run` | one scope, a stubborn agent; 2 messages and a /stop, or a /new; a message with /mode and a model pick | StopIsTrue, NoAgentLeft, SessionIsKept, EveryRunEnds, EveryMessageRuns | a run at work can be stopped and says so, no agent stays behind, sessions are kept; every run ends and every message gets its turn, unless an agent holds a run for ever |
| `stream_end` | 3 updates, one refresh | FinalIsShown, SequenceIncreases, StreamGoesOn | requests never overlap, numbers increase, updates and the final state are shown, Finish returns |
| `proc_run` | 4 scripts of 3–4 lines for Claude and Kimi, channel of 1, a line too long, a child that may hold pipes | CardIsTranscript, CardTellsEnd, StoppedRunEnds | the loop gets every deliverable event in order and the card reads how the run ended; a stopped run ends |
| `pi` | 2 runs, 2 processes, channel of 1, a prompt longer than the pipe, /new and Stop at any moment | DoneIsDone, StopEnds, StartReturns | done only when that turn ended; stop and start come back, but for a write that blocks |
| `acp` | both adapters, 2 runs, 2 processes, a question, permission or update per turn, channel of 1; forms, complete or not, and typed texts | DoneIsDone, AnswerIsFaithful, AskIsAnswered, KilledEnds | the agent hears what was picked or typed for a question, once; death frees every run and start |
| `codex` | 3 ways to start a turn, one notification or a question, with options or without, secret or without a prompt, channel of 1 | DoneIsDone, ToldIsChosen, ImplementsAgentRun, StopEnds | done only for a completed turn; one end, told while the channel is open, stays on the card; the agent is told what was picked or typed for a question; Stop comes back |
| `opencode` | a turn of two messages and one of a long message with a full channel, two turns of a chat, two chats with different access, turns that end before a message; 2 servers, one break of the stream | EndIsTrue, TextIsWhole, ServedAsAllowed, TurnEndsRun | the poll makes up for the stream; no channel is closed twice; right access; the end of a turn ends the run, if there is anything to see of it |
| `cards_crash` | 2 scopes, 3 cards, one crash or shutdown | RunningIsListed, LostIsTried | the card of a run is listed, and visited after the crash |
| `bindings` | 2 sessions, a private chat, a live group and two to be made, up to 3 commands, a run, a crash, a lost group, in the mixes of `SomeBudgets` | ChosenStays, AnnouncedIsReused | a bound session stays bound and its chat goes on with it, in memory and on disk; an announced group that answers is not made again |
| `host` | 2 processes of one or of two profiles, one dashboard | UpIsListed, OneConnection, MissingComesBack, StopEnds, LostIsReplaced | one connection per profile; a process is listed or comes back; a lost connection is replaced; a signal ends the process |

Bounds. Two actors of each kind are enough for every race in the code, since a
critical section involves one scope, ask, card or file; two scopes and four
messages let a batch of two follow another, and let scopes be independent. A form
with two questions and an ask with one enable every handler of the broker. A
channel of one slot is full at once, which one of 64 or 256 is only in long runs.
Two runs over two processes let a late line, answer, timer or death of the first
meet the second, and let a process be replaced. The instances that would grow too
large are unions of smaller ones: `Mixes` (RunPipeline), `Budgets` (Bindings),
`Plans` (OpenCode, Host), `Turns` (CodexTurn) and `Scripts` (ProcRun) say which inputs
come together in a history, and the state constraint `OneContest` keeps the two
users of `ask_form` at one ask at a time, and to cards that could be sent (the second
ask then meets one user).
`MaxUpdates`, `MaxLines`, `MaxAsks`, `MaxMessages` bound how much a run says,
`MaxCards`, `MaxStops`, `MaxBreaks` how many cards, crashes and breaks happen.
Deadlock is not checked: each instance may come to rest when its inputs are used up.

Each module states a type invariant, `TypeOK` (`QueueTypeOK` for PendingQueue,
`CardsTypeOK` for ActiveCards, `ProcTypeOK` for ProcRun, `SupTypeOK` for
Supervisor, `BindTypeOK` for Bindings). All of them are theorems. They hold on the
instances of the runs too but are not listed in the configurations, which spend their
properties on what can go wrong; add `INVARIANT TypeOK` to one to check it.

Fairness. Assumed are: goroutines are scheduled, timers elapse, requests to
Feishu return (their contexts have timeouts), `flock` serves its waiters (strong
fairness of `Lock`), SIGKILL is delivered, the death of a process is seen by the
goroutine that waits for it. Where no step of the goroutines can be undone by
another, one weak fairness of their disjunction stands for that of each. Nothing
makes a user write, click or answer, an agent ask, answer or end (but a
RunPipeline agent that does not hang finishes, and one that hangs and was stopped ends;
`ProcRun` shows when the latter is so), a server keep its stream, or a dashboard
run. Agents of `Stubborn` runs owe less still: they may not come back from
`Agent.Run`, and when they are deaf a `Stop` neither ends them nor has to return,
as with Grok and Cursor, whose Stop only cancels the prompt, opencode, whose Stop
asks the server for an abort, and a CLI whose child keeps the pipe. In `acp` a
question that the bridge shows is answered or times out, as the broker's
`RegisterReturns` has it. The watchdog is counted on for agents that hang: the
instance is a profile whose idle timeout is on (10 minutes, unless set to a
negative number).

## Exemptions and known divergences

Where the code does not keep a promise in a corner, the property says exactly
which corner it exempts, so that it still protects the rest. All of these were
met as counterexamples while the modules were written, and the models reach them.
Those with a definition in parentheses can be seen again: add the definition as
an INVARIANT to the module's configuration.

Queue, pipeline and commands:

* Without `PromptHandoff`, a message pushed between `fire` and `Block`
  arms a timer and a second batch of the scope can run (`OneBatchAtATime`).
* `/new` does not wait for the run it stops, and the end of that run stores its
  session again (bridge.go:539), although README.md:132 of the repository has
  /new clear the session (`NewStartsFresh` of RunPipeline). `/mode` of a running
  scope is lost the same way.
* `/stop` before `Agent.Run` returned finds nothing (bridge.go:359); an ask taken
  after `stopRun` swept the asks (bridge.go:625) blocks the stopped run until it
  is answered or expires.
* `Stop` does not end every agent (grok.go, cursor.go and opencode.go only ask it
  to end), and the watchdog fires once, in the goroutine that reads the events. A
  run whose agent is deaf to Stop, or does not come back from `Agent.Run`, blocks
  its scope until the bridge is restarted (`Stuck` of RunPipeline, which
  `EveryRunEnds` and `EveryMessageRuns` exempt).

Asks:

* A typed text answers the newest freeform ask of the chat (ask.go:141,
  broker.go:316), which may be of another topic, although docs/adr/0010 says each
  topic is a scope of its own (`TextAnswersOwnScope` of AskBroker).
* A text that is typed on a card answers every question of it that has no choice
  yet, and drops what was picked before it was sent: the card sends the
  `question_index`, and ask.go:191 passes the text on without it (broker.go:268,
  format.go:184–190). A secret question of Codex, whose prompt says that it
  cannot be answered by a text in Feishu, gets it too (codex_appserver.go:526–546).
  `AnswerIsFaithful` and `ToldIsChosen` hold of the question the text was typed for.
* An ask that ran into its deadline, or was swept before its card id was
  recorded (broker.go:111), leaves a card with live buttons.

Cards:

* A refresh renders the state it found over the final card, and one failed
  update silences the stream for good (stream.go:123; `Undisturbed`, `failed` in
  CardStream).
* Two runs that write `active-cards.json` at once lose an entry, and a file torn
  by a crash loses all (`raced`, `torn`). The clean-up's sequence numbers 0 and 1
  are refused for a card that was updated before the crash (bridge.go:683 against
  client.go:203; `LostIsFinal` of ActiveCards).
* `main` returns with `sup.Run` and the process exits without waiting for runs or
  for the clean-up of the signal's goroutine, although the comment at main.go:223
  says that the goroutines finish first.
* An `EventError` leaves the card's reasoning marked as under way (state.go:241).

Child processes and adapters:

* A watchdog's `Stop` runs in the goroutine that receives events: with a full
  channel neither goes on (`Unread` in ProcRun; the same in CodexTurn between
  codex_appserver.go:870 and :922/:960). A child of the agent that keeps stdout or
  stderr open keeps `exited` from being closed, and `Stop` hangs even after
  SIGKILL (`held`). `onCleanup` may append after the reader has walked the list,
  and the temp file stays (run.go:99).
* Pi: a prompt that fails while the process dies closes a slot that is closed
  (pi.go:545–553; `ClosedOnce` of PiSession), which panics. A request is written
  before its 15 s are armed (pi.go:354 against :371), and there is no time limit
  for the write: an agent that stops reading, and a prompt with images (:530–542)
  that does not fit the pipe, hold `Agent.Run` (`Stuck`, which `StartReturns` exempts).
* ACP: the waiting goroutine closes the pending calls before it sends the error
  (acp.go:107–118), so that the run may end first and the card of a run whose
  process died reads done (`DeathIsTold` of AcpSession). A question that waits for
  room in the channel (grok.go:198) is sent to a channel the run's end has closed,
  which panics. `initialize` has no timeout and runs under the adapter's lock
  (grok.go:64), so that /new of any scope waits for a silent agent. Stop only
  cancels: an agent that ignores it goes on, where types.go:131 says that Stop terminates.
* ACP asks: Grok's answers are keyed by the text of the question (grok.go:404), so
  that of two questions with one text only the later answer is heard; Cursor looks a
  choice up among keys and labels of all options in order (cursor.go:571), so that a
  label another option bears too picks the first. `AnswerIsFaithful` exempts
  them (`Unambiguous` of AcpAsk).
* Codex: in daemon mode another client's `turn/completed` ends the turn
  (codex_appserver.go:758), and a process that exits with 0 in mid-turn reads done (:908);
  a plain `accept` is sent to an agent that does not offer it (:606).
* OpenCode: the poll may take the message of an earlier turn or of an earlier
  step for the turn's end (opencode.go:858; `PollSeesOwnTurn` of OpenCode), also
  when the turn failed after it. A turn that ends without a message of its own,
  and whose error the stream lost, leaves the poll nothing but `last == nil`
  (:859) or a message that was left unfinished (:929): it only continues, and the
  run never ends, though the comment at :843 has it poll "until the turn provably
  ends" (`unheard`, which `TurnEndsRun` exempts). A full channel drops events
  (pi.go:474): a lost error reads done, and text that was recorded before it was
  dropped is not made up for (`dropped`).
  Late frames reach the next run of the session (:556); a text recorded before it
  is sent counts as delivered (:509 against :862); text that the stream lost in
  the middle is not made up for (:975); another access level ends everybody's runs (:238).

Stores, processes and connection:

* `GetChat` reports a group as gone when any of its requests fails (client.go:456):
  `/open` then deletes the binding and the session of a group that lives and was
  announced (bind.go:191) and makes another, or none if that fails too, where
  bind.go:150 and the repository's README.md:138 say that a bound group is never
  made again. `Reuse` and `Fallback` of Bindings let it happen; both properties hold
  for a group that answers.
* `/bind` stops the run of its chat without waiting: a run of another session that
  was at work stores its own session over the bound one when it ends
  (bridge.go:539), and the next message does not continue what bind.go:140 says it
  does (`Overwrites` of Bindings). So does an agent that cannot load the session it
  is asked to resume (grok.go:232, cursor.go:348).
* Two concurrent `/open` create two groups (bind.go:150); `/bind` of two chats
  check before either sets (:112); `--force` and `/open` delete the old scope's
  session even if it moved on (:120, :193, :209), and reuse overwrites the session
  of a group that moved on (:184); a group is made again when the bridge crashes
  before the flush, and a cleared binding stays unflushed if CreateChat fails
  (:191–204); a private chat's run writes no binding, so that a session may sit in
  two chats.
* `List` of the registry saves without the lock (`dropped`), and a heartbeat that
  waited for the lock behind the deregistration lists the process again (registry.go:135).
* The supervisor's probe is a REST call (supervisor.go:225): a WebSocket that is
  dead beside a REST API that works is not rebuilt, which docs/adr/0003 means it to be.
* Access lists are loaded, changed and saved without a lock (access.go:159).

## Proofs

All theorems hold for arbitrary constants, under the named assumptions of the
modules (`PromptHandoffAssumption`, `BrokerAssumption` and the like, which TLC
evaluates in the runs). The assumptions are about types and disjointness, but for
`CardsAssumption`, which has finitely many scopes: only then does a bound on all
cards bound those of a scope. Where a module has one invariant `IInv`, its theorem
is `Invariance`, TLC has checked `IInv` on instances of the runs, and every other
theorem of the module follows from it.

* **PendingQueue** (in `Bridge_proofs`). `QueueTypeCorrect`;
  `ConservationHolds`, inductive with the types;
  `NoLostWakeupHolds` and `BlockedHasRunHolds`, which are inductive only
  together (`Wakeup`): what unblocks a scope is the run that `BlockedHasRun`
  promises. With `PromptHandoff` assumed: `OneBatchHolds` from `SerialInv` (at
  most one batch, a running one blocks its scope, and no timer or fire goroutine
  can take another), `RunsInOrderHolds` from `OrderInv` (what was started,
  followed by the batch in hand, is what was taken), and `Refinement` of
  `SerialBatcher`: `Push` maps to `Accept`, `Block` to `Start`, `Unblock` to
  `Finish`, timers and `fire` stutter.
* **AskBroker.** `TypeCorrect`; `ReturnedIsOnRecordHolds` and `ResultWaitsHolds`
  from `VerdictInv` (how `entry`, `result`, the channel and the caller go
  together); `AcceptedIsOnRecordHolds` and `LoserWasBeatenHolds` from `CreditInv`
  (a click under way that settled is by its own user, and nobody else carries
  that user's mark); `AnswerAdmissibleHolds` from `AdmitInv` (selections of
  single-select questions hold one key at most); `Refinement` of `AskOnce`.
* **RunPipeline.** `TypeCorrect`, `StopIsTrueHolds`, `NoAgentLeftHolds` and
  `SessionIsKeptHolds`. `IInv` has, beside the types, `QueueInv` (what waits in
  a scope waits once, and the batch at work is the queue's current one: hence one
  run of a batch per scope, which everything else needs), `AgentInv` (at which
  places of `runBatch` an agent may be alive, and from which on only if it was
  stopped), `PublishedInv` (a run is in `runs`, in a command's hand or stopped
  only after it was entered), `StopInv` (`StopIsTrue` itself, and that a run at
  work which somebody is stopping has lost its entry: what the end of `runBatch`
  deduces from) and `SessionInv` (a run's copy of the session is the store's, or
  newer, as long as only that run writes).
* **CardStream.** `TypeCorrect`, `SequenceIncreasesHolds` from `SeqInv` (each
  goroutine is at a place of its own code, the loop has exited where `Finish`
  pushes, a request carries a number that Feishu has not seen) and
  `FinalIsShownHolds` from `FinalInv`: the last snapshot is in `latest`, in a
  request, or on the card with nothing behind it (`OnItsWay`).
* **ProcRun** (in `Cards_proofs`). `ProcTypeCorrect`, `CardTellsEndHolds` and
  `CardIsTranscriptHolds`. The argument is about `Stream`, what the loop has
  received followed by what the channel holds, which receiving leaves as it is and
  which otherwise only grows at its end. `PipeInv`: the scanner has taken a prefix
  of the lines, none of them too long. `OrderInv` and `WholeInv`: the events of the
  lines taken, those not sent yet included, are all there, in the order of the
  lines, and beside them only Kimi's announcement and the error, which is last.
  `ExitInv`: the error is in the stream unless the run was stopped or the agent
  ended well. `EndInv`: the card reads done only after a done, and reads an error
  once it received the one of the exit, behind which only the announcement can come.
  `BlocksInv`: the lines on the card are those that spoke, rising; one that comes
  later is of a later line, since a line speaks once (`Translated`), and either
  goes on with the last text or stands below it. `ProcRefinement`: a run implements
  `AgentRun`. The end is the last in the channel, or else the card's: sending one makes
  it the last (`EndOfAppended`), and receiving leaves it as it is (`EndOfTail`), since
  the card takes every end it reads; that a channel with an end has a last one is
  again the well-foundedness of `<` on Nat.
* **ActiveCards.** `CardsTypeCorrect`, with `MadeInv` (a scope's cards are numbered
  without gaps, so that the next number is in range); `RunningIsListedHolds`
  from `FileInv` (while nobody raced there is one editor, its view is the file,
  and a torn file is its own), and `LostIsTriedHolds` from `LostInv`, which
  follows a lost card through crash and restart: in a whole file, among the
  entries that the sweep still has, or tried.
* **Bindings** (in `Bridge_proofs`). `BindTypeCorrect`, `ChosenStaysHolds` and `AnnouncedIsReusedHolds`.
  A command's list of calls is not a program counter, so `ShapeInv` says which
  call may follow which (`Chained`), how a list ends, and what the command is
  about. `AloneInv` says that two commands on a session, or one beside a command
  that gives a chat up, are noted in `raced`. `SureInv` is about each session
  that is not: what was answered is bound, on disk and in a living chat (`Kept`),
  and the one command at work on it has forgotten the answer before it touches
  the binding and has bound its goal when it saves and answers (`Stage`). Steps
  of the session's own command (`Keeping`), of other commands (`SureAside`) and of
  runs, losses and crashes (`SureFrame`) are shown apart. `GivenInv` is about each
  chat: it continues what it was given, on disk but for the moment before the
  flush, and a run that is about to store a session has that one. The proof found the
  property wrong beyond the bounds of the run: a group can be lost while a
  command that gives it a session is under way, a later `/open` gives the session
  elsewhere, and the answer of the first was taken for one that counts. The
  answer now counts only in a chat that lives (`Reached`), the run has the loss of
  a group among its plans, and the property holds while commands work, not only
  between them.
* **PiSession.** `TypeCorrect` and `DoneIsDoneHolds`. A done on a card must come from
  a turn that the run's own prompt began, although one process serves all runs of a
  scope and everything between them is asynchronous. `ProcInv`: processes start one
  after the other, and one that is gone owes no reply and works on no turn. `RunInv`:
  the runs of a scope come one after the other, a slot belongs to the run at work
  over that process and is not closed, and a request waits where its run is.
  `TurnInv`, about a process that is neither known dead nor muddled: a prompt it has
  not handled, the answer to it and the lines of the turn come in this order, each
  is of the run in the slot, there is one prompt or one answer at a time, and the
  end of a turn is the last of its lines. `ChanInv`: a done in the channel or on the
  card is of a finished turn, unless an event was dropped, the process is muddled,
  or it died under the prompt, whose run is then refused; and what closed a channel
  has put an end into it. The case that decides is a run that comes back for a
  prompt while lines of an earlier turn are on their way: `TurnInv` leaves it only
  to muddled processes, which is what `DoneIsDone` exempts.
  `Refinement`: each run implements `AgentRun` with one end. It needs of the invariant
  that a slot belongs to one process and what closed a channel has put an end into it
  first; every step sends to one run and leaves the channels and ends of the others.
* **CodexTurn.** `TypeCorrect`, `DoneIsDoneHolds`, `ErrorStaysHolds`,
  `ToldIsChosenHolds` and `Refinement` of `AgentRun` (of which `ErrorStays`, no
  longer in the run, is a part: one end at most). `EndInv`: one terminal event at most is in `held`, in the
  channel or on the card, and where there is one the run has `ended`, so that
  `finish` passes no second. `DoneInv`: a done on its way is of a completed turn,
  and a run that has ended without an event on its way was stopped, or its process
  exited with code 0, or the close of the channel took the event away. It needs
  `LineInv` (a line says completed only after the agent completed),
  `WaitInv` (what waits for a reply is the request `initialize` is at) and
  `BegunInv`: the request that begins our turn is written once, so the agent
  cannot complete, and later fail, a second turn of ours.
  `AskInv` follows a question from the agent's list over its line, the channel and
  the card: it is asked once, and the choice is made of the options it was shown
  with; `ToldInv` is about what comes back. That the last of two questions with one
  id is the one answered (`LastOf`) needs the greatest index of a sequence, from the
  well-foundedness of `<` on Nat. The proof found an earlier form of `ToldIsChosen`
  wrong beyond the bounds of the run: it said that no decision is sent that the
  agent does not offer, but `codexDecisionAvailable` only ever replaces an
  `acceptForSession`.
* **OpenCode.** `TypeCorrect`, `ServedAsAllowedHolds`, `EndIsTrueHolds` and
  `TextIsWholeHolds`. `ServerInv`: servers are started one after the other, so that
  a new one serves nobody yet and cannot change the level under a run. `PlaceInv`
  and `EndInv`: a run's session and server are settled before its prompt, and it is
  registered, then closed, once, with an end. `DoneInv`: a poll that found a complete
  message either met the end of the turn or is an early one, and a run is closed as
  done by such a poll, by the end of its turn, or without a word, because its end
  found the channel full. `TextInv`: text in the stream belongs to a run of
  that server and session (`WireBelongs`), and while a run is registered and has
  missed no text, what it was sent is what was recorded for it, but for the piece
  that dispatch holds (`TextIsSent`). `PollInv`: what a poll has read of the recorded
  text is a prefix of it for good, since the record only grows, so what the poll adds
  completes it, for a run that missed nothing (`WholeAtEnd`).
  `Refinement`: each run
  implements `AgentRun`; its channel is open exactly while it is registered and not
  closed (`PlaceInv`), and ends are told to registered runs only.
  That the server works on the first of the runs that wait needs the least number
  of a set (`Least`), from the library's theorem that `<` on Nat is well-founded.
* **AcpSession.** `TypeCorrect`, `DoneIsDoneHolds` and `AnswerIsFaithfulHolds`.
  `ProcInv`: processes start one after the other, and one that is dead works on
  nothing. `RunInv`: a call is pending only where its run waits for it, nothing is
  sent before the run is registered or after it is closed, and a registered run has
  come to its prompt. `DoneInv`: a done in the channel or on the card comes of an
  answer of the agent; a run whose prompt failed has its error in the channel or on
  the card (`IsTold`), unless it was dropped or the process was known to be dead.
  `AskInv` follows a request of the agent from stdout over the reader and the channel
  to the user: it is in one of these places only, and the agent waits while it is in
  any, so that it is answered once and of what was shown. That the answer is the one
  the user gave (`IsHeard`) is shown for both formats apart: for an `Unambiguous`
  question the indices `FirstOf` and `LastOf` choose among are one index. What is
  granted without asking is the least of the options that allow (`Least`).
  `Refinement`: each run implements `AgentRun`, although one client serves whichever
  run registered last; the end is the last in the channel, as in `ProcRun`.
* **Host** (in `Bridge_proofs`). `TypeCorrect`, inductive with `MainIsBusy` (main is at the file only
  to register and to deregister); `UpIsListedHolds` from `ListInv`: a thread
  that is about to save has every working process in its view, except dropped
  ones and its own, because its view is as old as its lock (`NoneForgotten`).
  `OneConnectionHolds` from `ConnectionInv`: a supervisor at work is in a
  registered process (`LockIsHeld`), a registered process holds its profile's
  lock, and a client is connected only while `Run` waits for its handshake or
  watches it (`ClosedBefore`). Every step of `Host` is one of the registry's or
  leaves it alone (`HostIsRegistry`), and one of a supervisor or leaves it alone,
  so the two invariants are shown one after the other.

## Only model-checked

* Liveness: every property with `~>` or under fairness (EveryRunEnds,
  EveryMessageRuns, RegisterReturns, StreamGoesOn, StoppedRunEnds, StopEnds,
  StartReturns, AskIsAnswered, KilledEnds, TurnEndsRun, MissingComesBack,
  LostIsReplaced). TLAPS has no ENABLED, which weak fairness is about.
  `EventuallyRun` of PendingQueue (under `FairQueueSpec`) holds on the instance of
  `queue_prompt` too; `EveryMessageRuns` asks the same of queue and run together.
* `ImplementsAgentRun` is a theorem of all five modules that have it; the run
  `codex` checks it too. In the other four it held of the instances of the runs;
  add `PROPERTY ImplementsAgentRun` to one of their configurations to see it.
* The properties that show known divergences (`NewStartsFresh`, `LostIsFinal` and
  the like) are false of the models, and no run lists them.

## What comes next

Every invariant and action property of the runs is a theorem, and every agent run
implements `AgentRun`. What is left: `RunPipeline` has an agent of its own, coarser
than `AgentRun`, which could be replaced by it, so that the results about runs and
those about adapters meet in one module; and the hazards of `PROJECT.json` that no
property covers, of which the access policy and the deferred asks need a module first.

## Not modelled

* Text: prompts, wording, layout and rendering of cards, prices, model lists,
  usage. Events, lines and messages are kinds and numbers.
* Disk errors: a write of a store, of the registry or of `active-cards.json`
  succeeds as a whole (a torn `active-cards.json` after a crash is modelled).
* Feishu beyond what the code relies on: sequence numbers of a card, requests that
  fail before or after they arrive, groups that vanish.
* `/sessions`, which only reads but for the binding that `lookupSessionBinding` makes
  up for a session that has none (bind.go:253): the same as in `/open` (`Fallback`).
* The hook server of the ask IPC and the asks it defers; UI requests of Pi beside
  a run; OpenCode's questions and permissions, which the same broker answers.
* Access control: a pure decision over lists of ids, and an edit of the policy
  file without a lock, whose lost update can be read off the code.
* Configuration, onboarding, upgrade, CLI sync, media and reactions: files and
  HTTP in sequence, nothing concurrent.
