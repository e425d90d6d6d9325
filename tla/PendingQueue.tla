----------------------------- MODULE PendingQueue -----------------------------
(***************************************************************************)
(* The debounced, per-scope message queue of internal/bridge/queue.go and  *)
(* its only callback, Bridge.flush.  Threads that touch it: the event      *)
(* handlers (Push), the goroutines time.AfterFunc starts (fire, then       *)
(* flush), and one goroutine per batch (runBatch, then Unblock).  The      *)
(* mutex is released between fire and Block, so a batch that was taken but *)
(* has not blocked its scope yet is a state of its own.                    *)
(***************************************************************************)
EXTENDS Naturals, Sequences, SequencesExt

CONSTANTS Scopes,        \* conversation scopes
          Messages,      \* messages; each is delivered at most once
          PromptHandoff  \* TRUE: scheduling is faster than the 600 ms debounce

ASSUME PromptHandoffAssumption == PromptHandoff \in BOOLEAN

VARIABLES
  buffer,   \* buffer[s]: scopeQueue.buffer
  timer,    \* timer[s]: scopeQueue.timer is set and still counting
  orphans,  \* orphans[s]: timers still counting that scopeQueue.timer lost
  blocked,  \* blocked[s]: scopeQueue.blocked
  firing,   \* firing[s]: fire goroutines that wait for the mutex
  taken,    \* taken[s]: batches between fire's unlock and flush's Block
  running,  \* running[s]: batches whose runBatch goroutine is alive
  pushed,   \* history: messages in the order of Push
  flushed,  \* history: messages in the order fire took them
  started   \* history: messages in the order their runs started

history == <<pushed, flushed, started>>
queueVars == <<buffer, timer, orphans, blocked, firing, taken, running, history>>

EmptyQueues == [s \in Scopes |-> <<>>]

QueueInit ==
  /\ buffer = EmptyQueues /\ pushed = EmptyQueues
  /\ flushed = EmptyQueues /\ started = EmptyQueues
  /\ timer = [s \in Scopes |-> FALSE]
  /\ blocked = [s \in Scopes |-> FALSE]
  /\ orphans = [s \in Scopes |-> 0]
  /\ firing = [s \in Scopes |-> 0]
  /\ taken = [s \in Scopes |-> {}]
  /\ running = [s \in Scopes |-> {}]

-----------------------------------------------------------------------------
\* armLocked: a blocked scope is left alone; otherwise Stop the timer in the
\* field (a goroutine that already started is not recalled) and start anew.
ArmLocked(s) == timer' = [timer EXCEPT ![s] = @ \/ ~blocked[s]]

Push(s, m) ==
  /\ \A t \in Scopes : m \notin ToSet(pushed[t])
  /\ buffer' = [buffer EXCEPT ![s] = Append(@, m)]
  /\ pushed' = [pushed EXCEPT ![s] = Append(@, m)]
  /\ ArmLocked(s)
  /\ UNCHANGED <<orphans, blocked, firing, taken, running, flushed, started>>

\* The timing assumption: while a fire goroutine of the scope is between its
\* start and flush's Block, no further debounce window of that scope elapses.
HandoffDone(s) == PromptHandoff => firing[s] = 0 /\ taken[s] = {}

\* time.AfterFunc: a counting timer elapses and its goroutine starts.
Expire(s) ==
  /\ HandoffDone(s)
  /\ \/ /\ timer[s]
        /\ timer' = [timer EXCEPT ![s] = FALSE]
        /\ UNCHANGED orphans
     \/ /\ orphans[s] > 0
        /\ orphans' = [orphans EXCEPT ![s] = @ - 1]
        /\ UNCHANGED timer
  /\ firing' = [firing EXCEPT ![s] = @ + 1]
  /\ UNCHANGED <<buffer, blocked, taken, running, history>>

\* fire, when the scope is blocked or has nothing to flush: return.
FireNothing(s) ==
  /\ firing[s] > 0
  /\ blocked[s] \/ buffer[s] = <<>>
  /\ firing' = [firing EXCEPT ![s] = @ - 1]
  /\ UNCHANGED <<buffer, timer, orphans, blocked, taken, running, history>>

\* Faulty fire: sq.buffer = nil is missing.
FireKeepingBuffer(s) ==
  /\ firing[s] > 0 /\ ~blocked[s] /\ buffer[s] # <<>>
  /\ firing' = [firing EXCEPT ![s] = @ - 1]
  /\ taken' = [taken EXCEPT ![s] = @ \cup {buffer[s]}]
  /\ flushed' = [flushed EXCEPT ![s] = @ \o buffer[s]]
  /\ UNCHANGED <<buffer, timer, orphans, blocked, running, pushed, started>>

\* fire, taking the batch.  sq.timer = nil does not stop a timer that a Push
\* armed while this goroutine waited for the mutex: that timer is orphaned.
FireBatch(s) ==
  /\ firing[s] > 0
  /\ ~blocked[s] /\ buffer[s] # <<>>
  /\ firing' = [firing EXCEPT ![s] = @ - 1]
  /\ taken' = [taken EXCEPT ![s] = @ \cup {buffer[s]}]
  /\ buffer' = [buffer EXCEPT ![s] = <<>>]
  /\ timer' = [timer EXCEPT ![s] = FALSE]
  /\ orphans' = [orphans EXCEPT ![s] = IF timer[s] THEN @ + 1 ELSE @]
  /\ flushed' = [flushed EXCEPT ![s] = @ \o buffer[s]]
  /\ UNCHANGED <<blocked, running, pushed, started>>

\* flush: Block the scope, then start the goroutine that runs the batch.
Block(s, batch) ==
  /\ batch \in taken[s]
  /\ taken' = [taken EXCEPT ![s] = @ \ {batch}]
  /\ running' = [running EXCEPT ![s] = @ \cup {batch}]
  /\ blocked' = [blocked EXCEPT ![s] = TRUE]
  /\ timer' = [timer EXCEPT ![s] = FALSE]
  /\ started' = [started EXCEPT ![s] = @ \o batch]
  /\ UNCHANGED <<buffer, orphans, firing, pushed, flushed>>

\* Faulty Unblock: the timer is not re-armed for what arrived meanwhile.
UnblockNotArming(s, batch) ==
  /\ batch \in running[s]
  /\ running' = [running EXCEPT ![s] = @ \ {batch}]
  /\ blocked' = [blocked EXCEPT ![s] = FALSE]
  /\ UNCHANGED <<buffer, timer, orphans, firing, taken, history>>

\* The deferred Unblock of a run's goroutine: re-arm if messages came in.
Unblock(s, batch) ==
  /\ batch \in running[s]
  /\ running' = [running EXCEPT ![s] = @ \ {batch}]
  /\ blocked' = [blocked EXCEPT ![s] = FALSE]
  /\ timer' = [timer EXCEPT ![s] = @ \/ buffer[s] # <<>>]
  /\ UNCHANGED <<buffer, orphans, firing, taken, history>>

Fire(s) == FireNothing(s) \/ FireBatch(s)
BlockSome(s) == \E batch \in taken[s] : Block(s, batch)
UnblockSome(s) == \E batch \in running[s] : Unblock(s, batch)

QueueNext == \E s \in Scopes :
           \/ \E m \in Messages : Push(s, m)
           \/ Expire(s) \/ Fire(s) \/ BlockSome(s) \/ UnblockSome(s)

QueueSpec == QueueInit /\ [][QueueNext]_queueVars

\* The Go runtime fires timers and schedules goroutines; a run ends (RunPipeline
\* shows why).  Nobody is obliged to send a message.
Fairness == \A s \in Scopes : /\ WF_queueVars(Expire(s))
                              /\ WF_queueVars(Fire(s))
                              /\ WF_queueVars(BlockSome(s))
                              /\ WF_queueVars(UnblockSome(s))

FairQueueSpec == QueueSpec /\ Fairness
-----------------------------------------------------------------------------
\* Types of the queue's fields and histories; a batch is never empty.
Batches == Seq(Messages) \ {<<>>}

QueueTypeOK ==
  /\ buffer \in [Scopes -> Seq(Messages)]
  /\ timer \in [Scopes -> BOOLEAN]
  /\ orphans \in [Scopes -> Nat]
  /\ blocked \in [Scopes -> BOOLEAN]
  /\ firing \in [Scopes -> Nat]
  /\ taken \in [Scopes -> SUBSET Batches]
  /\ running \in [Scopes -> SUBSET Batches]
  /\ pushed \in [Scopes -> Seq(Messages)]
  /\ flushed \in [Scopes -> Seq(Messages)]
  /\ started \in [Scopes -> Seq(Messages)]

\* fire neither loses, repeats nor reorders a message: what was taken so far
\* followed by what still waits is exactly what was pushed, in its order,
\* whatever the interleaving of Push, the timers, Block and Unblock.
Conservation == \A s \in Scopes : flushed[s] \o buffer[s] = pushed[s]

\* No lost wakeup: a message that waits in a scope that is not blocked has a
\* live timer or a fire goroutine on its way (armLocked is skipped while
\* blocked, fire gives up while blocked: Unblock must make up for both).
NoLostWakeup == \A s \in Scopes :
  buffer[s] # <<>> /\ ~blocked[s] => timer[s] \/ firing[s] > 0

\* A blocked scope has a run whose deferred Unblock will open it again.
BlockedHasRun == \A s \in Scopes : blocked[s] => running[s] # {}

\* The comment on flush, "one batch per scope at a time": between fire and
\* Unblock there is at most one batch of a scope, and it keeps it blocked.
OneBatchAtATime == \A s \in Scopes :
  /\ \A b, c \in taken[s] \cup running[s] : b = c
  /\ running[s] # {} => blocked[s]

\* Runs work on messages in the order they were sent: the messages handed to
\* runBatch so far are a prefix of the messages pushed.
RunsInOrder == \A s \in Scopes : IsPrefix(started[s], pushed[s])

\* Every message that was pushed is eventually handed to a run.
EventuallyRun == \A s \in Scopes : \A m \in Messages :
  m \in ToSet(pushed[s]) ~> m \in ToSet(started[s])

-----------------------------------------------------------------------------
\* Refinement of SerialBatcher: a taken batch still waits, in front of buffer.
OneOf(S) == IF S = {} THEN <<>> ELSE CHOOSE b \in S : TRUE

Waiting == [s \in Scopes |-> OneOf(taken[s]) \o buffer[s]]
Current == [s \in Scopes |-> OneOf(running[s])]

Serial == INSTANCE SerialBatcher WITH waiting <- Waiting, current <- Current

\* With a prompt handoff the queue implements SerialBatcher.
ImplementsSerialBatcher == Serial!Spec
=============================================================================
