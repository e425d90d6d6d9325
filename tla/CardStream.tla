------------------------------ MODULE CardStream ------------------------------
(***************************************************************************)
(* The streaming card of a run (internal/card/stream.go) and its writers:  *)
(* the event loop of runBatch, which ends it, and handleRefresh, which     *)
(* renders the state it finds in Bridge.runs.  The stream's own goroutine  *)
(* and Finish push to Feishu.  A snapshot of the card is a number: the     *)
(* n-th update of the run, 0 for the card Start sent, Final for the last.  *)
(***************************************************************************)
EXTENDS Naturals

CONSTANTS MaxUpdates,  \* bound: updates of the run before the final one
          Refreshes    \* clicks on the card's refresh button

ASSUME StreamAssumption == MaxUpdates \in Nat

Final == MaxUpdates + 1
Snapshots == 0..Final
None == Final + 1          \* Stream.latest = nil

Writers == {"run"} \cup Refreshes
Pushers == {"loop", "run"}

ASSUME WriterAssumption == Refreshes \cap Pushers = {}

VARIABLES
  latest,   \* Stream.latest
  notify,   \* the notify channel holds its one token
  done,     \* the done channel is closed
  seq,      \* Stream.seq
  failed,   \* Stream.failed
  pc,       \* pc[x]: where the loop, the run and the refreshes are
  arg,      \* arg[w]: the snapshot a writer is about to hand over
  call,     \* call[p]: the UpdateCard request a pusher waits for
  version,  \* the state of the run, and what runs holds of it
  shown,    \* the snapshot Feishu shows
  feishuSeq,\* the last sequence number Feishu accepted
  open      \* Feishu shows the card as streaming

stream == <<latest, notify, done, seq, failed>>
feishu == <<shown, feishuSeq, open>>
vars == <<stream, pc, arg, call, version, feishu>>

NoCall == [snapshot |-> None, seq |-> 0]

\* After Stream.Start.
Init ==
  /\ latest = None /\ notify = FALSE /\ done = FALSE
  /\ seq = 0 /\ failed = FALSE
  /\ pc = [x \in Pushers \cup Refreshes |-> "idle"]
  /\ arg = [w \in Writers |-> None]
  /\ call = [p \in Pushers |-> NoCall]
  /\ version = 0
  /\ shown = 0 /\ feishuSeq = 0 /\ open = TRUE

At(x, l) == pc[x] = l
Goto(x, l) == pc' = [pc EXCEPT ![x] = l]

-----------------------------------------------------------------------------
\* Update, in two steps: the newest snapshot under the mutex ...
Write(w) ==
  /\ At(w, "writing")
  /\ latest' = arg[w]
  /\ Goto(w, "notifying")
  /\ UNCHANGED <<notify, done, seq, failed, arg, call, version, feishu>>

\* Where a writer goes from there; the run ends with Finish.
Updated(w) == IF w = "run" THEN (IF arg[w] = Final THEN "closing" ELSE "idle") ELSE "over"

\* Faulty: nobody is woken.
NotifyNobody(w) ==
  /\ At(w, "notifying")
  /\ Goto(w, Updated(w))
  /\ UNCHANGED <<stream, arg, call, version, feishu>>

\* ... then a token for the loop, unless one is there already.
Notify(w) ==
  /\ At(w, "notifying")
  /\ notify' = TRUE
  /\ Goto(w, Updated(w))
  /\ UNCHANGED <<latest, done, seq, failed, arg, call, version, feishu>>

\* runBatch: an event or the heartbeat changes the state and updates the card.
RunUpdates ==
  /\ At("run", "idle") /\ version < MaxUpdates
  /\ version' = version + 1
  /\ arg' = [arg EXCEPT !["run"] = version + 1]
  /\ Goto("run", "writing")
  /\ UNCHANGED <<stream, call, feishu>>

\* runBatch: the channel is closed; the state in runs is not brought up to date.
RunEnds ==
  /\ At("run", "idle")
  /\ arg' = [arg EXCEPT !["run"] = Final]
  /\ Goto("run", "writing")
  /\ UNCHANGED <<stream, call, version, feishu>>

\* handleRefresh: take the run out of runs (its entry is there until the end of
\* runBatch), render its state without a lock, and Update.
Refresh(u) ==
  /\ At(u, "idle") /\ ~At("run", "over")
  /\ arg' = [arg EXCEPT ![u] = version]
  /\ Goto(u, "writing")
  /\ UNCHANGED <<stream, call, version, feishu>>

-----------------------------------------------------------------------------

Push(p, from, sending) ==
  /\ At(p, from)
  /\ ~failed /\ latest # None
  /\ call' = [call EXCEPT ![p] = [snapshot |-> latest, seq |-> seq + 1]]
  /\ latest' = None
  /\ seq' = seq + 1
  /\ Goto(p, sending)
  /\ UNCHANGED <<notify, done, failed, arg, version, feishu>>

PushNothing(p, from, back) ==
  /\ At(p, from)
  /\ failed \/ latest = None
  /\ Goto(p, back)
  /\ UNCHANGED <<stream, arg, call, version, feishu>>

\* Feishu accepts a card update if its sequence number increases.
Accepts(p) ==
  /\ call[p].seq > feishuSeq
  /\ feishuSeq' = call[p].seq
  /\ shown' = call[p].snapshot
  /\ UNCHANGED open

\* UpdateCard returns; after an error, which may be a timeout of a call that
\* did arrive, the stream never pushes again.
Return(p, sending, back) ==
  /\ At(p, sending)
  /\ \/ Accepts(p) /\ UNCHANGED failed
     \/ Accepts(p) /\ failed' = TRUE
     \/ failed' = TRUE /\ UNCHANGED feishu
  /\ call' = [call EXCEPT ![p] = NoCall]
  /\ Goto(p, back)
  /\ UNCHANGED <<latest, notify, done, seq, arg, version>>

\* The loop waits for a token, then for the throttle interval to pass (if it
\* has not passed already), then pushes; done ends it while it waits.
LoopWakes ==
  /\ At("loop", "idle") /\ notify
  /\ notify' = FALSE
  /\ Goto("loop", "throttled")
  /\ UNCHANGED <<latest, done, seq, failed, arg, call, version, feishu>>

\* Faulty: while it waits for a token the loop does not look at done.
LoopExitsThrottled ==
  /\ done /\ At("loop", "throttled")
  /\ Goto("loop", "exited")
  /\ UNCHANGED <<stream, arg, call, version, feishu>>

LoopExits ==
  /\ done
  /\ At("loop", "idle") \/ At("loop", "throttled")
  /\ Goto("loop", "exited")
  /\ UNCHANGED <<stream, arg, call, version, feishu>>

LoopPush == Push("loop", "throttled", "sending") \/ PushNothing("loop", "throttled", "idle")
LoopReturns == Return("loop", "sending", "idle")

-----------------------------------------------------------------------------
\* Finish: close done, wait for the loop, push what is left, stop streaming.
Close ==
  /\ At("run", "closing")
  /\ done' = TRUE
  /\ Goto("run", "joining")
  /\ UNCHANGED <<latest, notify, seq, failed, arg, call, version, feishu>>

\* Faulty: Finish does not wait for the loop.
JoinNothing ==
  /\ At("run", "joining")
  /\ Goto("run", "draining")
  /\ UNCHANGED <<stream, arg, call, version, feishu>>

Join ==
  /\ At("run", "joining") /\ At("loop", "exited")
  /\ Goto("run", "draining")
  /\ UNCHANGED <<stream, arg, call, version, feishu>>

\* Faulty: Finish does not push what is left.
DrainNothing ==
  /\ At("run", "draining")
  /\ Goto("run", "settling")
  /\ UNCHANGED <<stream, arg, call, version, feishu>>

Drain == Push("run", "draining", "pushing") \/ PushNothing("run", "draining", "settling")

DrainReturns == Return("run", "pushing", "settling")

\* FinishStreamingCard, best effort.
StopStreaming ==
  /\ At("run", "settling")
  /\ seq' = seq + 1
  /\ \/ seq + 1 > feishuSeq /\ feishuSeq' = seq + 1 /\ open' = FALSE /\ UNCHANGED shown
     \/ UNCHANGED feishu
  /\ Goto("run", "over")
  /\ UNCHANGED <<latest, notify, done, failed, arg, call, version>>

Finish == Close \/ Join \/ Drain \/ DrainReturns \/ StopStreaming
Loop == LoopWakes \/ LoopExits \/ LoopPush \/ LoopReturns
Update(w) == Write(w) \/ Notify(w)

Next ==
  \/ RunUpdates \/ RunEnds
  \/ \E w \in Writers : Update(w)
  \/ \E u \in Refreshes : Refresh(u)
  \/ Loop \/ Finish

Spec == Init /\ [][Next]_vars

\* Goroutines run and calls to Feishu return (their context has a timeout of
\* 30 s).  The run itself need not end, and nobody has to refresh.
FairSpec ==
  /\ Spec
  /\ WF_vars(LoopWakes \/ LoopPush \/ LoopReturns) /\ WF_vars(LoopExits)
  /\ WF_vars(Finish)
  /\ \A w \in Writers : WF_vars(Update(w))

-----------------------------------------------------------------------------
Calls == [snapshot : Snapshots \cup {None}, seq : Nat]

TypeOK ==
  /\ latest \in Snapshots \cup {None}
  /\ notify \in BOOLEAN /\ done \in BOOLEAN /\ failed \in BOOLEAN
  /\ seq \in Nat /\ feishuSeq \in Nat
  /\ pc \in [Pushers \cup Refreshes -> {"idle", "writing", "notifying", "closing",
        "joining", "draining", "pushing", "settling", "over", "throttled", "sending",
        "exited"}]
  /\ arg \in [Writers -> Snapshots \cup {None}]
  /\ call \in [Pushers -> Calls]
  /\ version \in 0..MaxUpdates
  /\ shown \in Snapshots /\ open \in BOOLEAN

\* Feishu refuses a sequence number that does not increase: although two
\* goroutines push, at most one request is under way and its number is new.
Sending == {p \in Pushers : call[p] # NoCall}

SequenceIncreases ==
  /\ \A p, q \in Sending : p = q
  /\ \A p \in Sending : call[p].seq > feishuSeq
  /\ feishuSeq <= seq

\* Nobody clicked on refresh: a refresh may write the state it read earlier
\* over a newer snapshot, the final one included.
Undisturbed == \A u \in Refreshes : At(u, "idle")

\* "Finish drains pending updates, pushes the final state": when it is over,
\* the card shows the last state of the run, unless Feishu refused an update
\* or a refresh came in between.
FinalIsShown == At("run", "over") /\ ~failed /\ Undisturbed => shown = Final

\* Finish returns, whatever the loop is doing: runBatch waits for it.
FinishReturns == At("run", "closing") ~> At("run", "over")

\* An update reaches the card, if only as part of a later one, before the run
\* ends: the loop alone gets it there, so no wakeup is lost.
UpdateIsShown == \A n \in 1..MaxUpdates :
  version = n ~> shown >= n \/ failed \/ ~Undisturbed

\* What the goroutines of a stream owe to the run.
StreamGoesOn == FinishReturns /\ UpdateIsShown
=============================================================================
