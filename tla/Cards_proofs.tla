----------------------------- MODULE Cards_proofs -----------------------------
(***************************************************************************)
(* Proofs about the cards of runs: CardStream, for any number of updates   *)
(* and refreshes, ActiveCards, for any number of scopes, cards, crashes    *)
(* and shutdowns, and ProcRun, for any script and any channel, with the    *)
(* refinement of AgentRun.                                                 *)
(***************************************************************************)
EXTENDS CardStream, ActiveCards, ProcRun, FiniteSetTheorems, SequenceTheorems,
        WellFoundedInduction, TLAPS

(***************************************************************************)
(* CardStream: its types, SequenceIncreases and FinalIsShown.  The         *)
(* argument about the sequence numbers is who may push when (Finish joins  *)
(* the loop before it pushes); the one about the last snapshot follows it  *)
(* from latest over a request to the card.                                 *)
(***************************************************************************)

LoopPlaces == {"idle", "throttled", "sending", "exited"}
RefreshPlaces == {"idle", "writing", "notifying", "over"}
Ending == {"closing", "joining", "draining", "pushing", "settling", "over"}
Joined == {"draining", "pushing", "settling", "over"}
RunPlaces == {"idle", "writing", "notifying"} \cup Ending

\* Each goroutine is at a place of its own code, and past the join of Finish
\* the loop is gone.
Placed ==
  /\ pc["loop"] \in LoopPlaces
  /\ pc["run"] \in RunPlaces
  /\ \A u \in Refreshes : pc[u] \in RefreshPlaces
  /\ pc["run"] \in Joined => At("loop", "exited")

\* A request is under way exactly where a pusher waits for it; it carries a
\* snapshot, and a number that was given out and Feishu has not seen.
Numbered ==
  /\ call["loop"] # NoCall <=> At("loop", "sending")
  /\ call["run"] # NoCall <=> At("run", "pushing")
  /\ \A p \in Sending : /\ call[p].seq > feishuSeq /\ call[p].seq <= seq
                          /\ call[p].snapshot \in Snapshots
  /\ feishuSeq <= seq

SeqInv == TypeOK /\ Placed /\ Numbered

\* The run has written its last snapshot.
Written == At("run", "notifying") \/ pc["run"] \in Ending

\* It is on its way to the card, or there with nothing newer behind it.
OnItsWay ==
  \/ latest = Final
  \/ latest = None /\ \E p \in Sending : call[p].snapshot = Final
  \/ latest = None /\ Sending = {} /\ shown = Final

FinalInv ==
  /\ pc["run"] \in Ending => arg["run"] = Final
  /\ ~failed /\ Undisturbed /\ Written /\ arg["run"] = Final => OnItsWay
  /\ ~failed /\ Undisturbed /\ pc["run"] \in {"pushing", "settling", "over"} => latest = None

IInv == SeqInv /\ FinalInv

------------------------------------------------------------------------------
LEMMA Constants == /\ MaxUpdates \in Nat /\ Final \in Snapshots /\ 0 \in Snapshots
                   /\ 0..MaxUpdates \subseteq Snapshots
                   /\ None \notin Snapshots /\ Final \notin 0..MaxUpdates
                   /\ "run" \notin Refreshes /\ "loop" \notin Refreshes
  BY StreamAssumption, WriterAssumption DEF Final, Snapshots, None, Pushers

\* One request at a time, with a number Feishu has not seen: what the parts of
\* Numbered say together.
LEMMA NumberedIsEnough == SeqInv => SequenceIncreases
  <1> SUFFICES ASSUME SeqInv PROVE SequenceIncreases
    OBVIOUS
  <1>1. ~(At("loop", "sending") /\ At("run", "pushing"))
    BY DEF SeqInv, Placed, At, Joined
  <1>2. \A p \in Sending : \/ p = "loop" /\ At("loop", "sending")
                           \/ p = "run" /\ At("run", "pushing")
    BY DEF SeqInv, Numbered, Sending, Pushers
  <1>3. \A p, q \in Sending : p = q
    BY <1>1, <1>2
  <1>4. Numbered
    BY DEF SeqInv
  <1>5. \A p \in Sending : call[p].seq > feishuSeq
    BY <1>4 DEF Numbered
  <1> QED
    BY <1>3, <1>4, <1>5 DEF Numbered, SequenceIncreases

\* A request that Push starts is not NoCall.
LEMMA RequestIsCall == ASSUME NEW n, n # None, NEW k PROVE [snapshot |-> n, seq |-> k] # NoCall
  BY DEF NoCall

\* The types, the places and the numbers hold initially.
LEMMA SeqInvInit == Init => SeqInv
  <1> SUFFICES ASSUME Init PROVE SeqInv
    OBVIOUS
  <1>1. TypeOK
    <2>1. NoCall \in Calls /\ 0 \in 0..MaxUpdates
      BY Constants DEF NoCall, Calls
    <2> QED
      BY <2>1, Constants DEF Init, TypeOK
  <1>2. Placed
    BY Constants DEF Init, Placed, LoopPlaces, RunPlaces, RefreshPlaces, Joined, Pushers
  <1>3. Numbered
    BY DEF Init, Numbered, Sending, NoCall, At, Pushers
  <1> QED
    BY <1>1, <1>2, <1>3 DEF SeqInv

\* Every step keeps them.  A step that starts or ends no request and leaves the
\* numbers alone keeps Numbered if no pusher moves to or from a request.
LEMMA SeqInvStep == SeqInv /\ [Next]_vars => SeqInv'
  <1> SUFFICES ASSUME SeqInv, [Next]_vars PROVE SeqInv'
    OBVIOUS
  <1> USE Constants DEF TypeOK, At, Goto
  <1>0. TypeOK /\ Placed /\ Numbered
    BY DEF SeqInv
  <1>q. ASSUME UNCHANGED <<call, seq, feishuSeq>>,
               (pc'["loop"] = "sending") <=> At("loop", "sending"),
               (pc'["run"] = "pushing") <=> At("run", "pushing")
        PROVE  Numbered'
    BY <1>0, <1>q DEF Numbered, Sending
  <1> USE DEF LoopPlaces, RunPlaces, RefreshPlaces, Joined, Ending
  <1>1. ASSUME NEW w \in Writers, Write(w) PROVE SeqInv'
    <2>1. /\ pc[w] = "writing" /\ pc' = [pc EXCEPT ![w] = "notifying"] /\ latest' = arg[w]
          /\ UNCHANGED <<notify, done, seq, failed, arg, call, version, feishu>>
      BY <1>1 DEF Write
    <2>2. w # "loop"
      BY DEF Writers
    <2>3. TypeOK'
      BY <1>0, <2>1 DEF feishu, Writers
    <2>4. Placed'
      BY <1>0, <2>1, <2>2 DEF Placed, Writers, Pushers
    <2>5. Numbered'
      BY <1>0, <1>q, <2>1, <2>2 DEF feishu, Writers, Pushers
    <2> QED
      BY <2>3, <2>4, <2>5 DEF SeqInv
  <1>2. ASSUME NEW w \in Writers, Notify(w) PROVE SeqInv'
    <2>1. /\ pc[w] = "notifying" /\ pc' = [pc EXCEPT ![w] = Updated(w)] /\ notify' = TRUE
          /\ UNCHANGED <<latest, done, seq, failed, arg, call, version, feishu>>
      BY <1>2 DEF Notify
    <2>2. w # "loop" /\ (w = "run" => Updated(w) \in {"closing", "idle"})
                     /\ (w # "run" => Updated(w) = "over")
      BY DEF Writers, Updated
    <2>3. TypeOK'
      BY <1>0, <2>1, <2>2 DEF feishu, Writers
    <2>4. Placed'
      BY <1>0, <2>1, <2>2 DEF Placed, Writers, Pushers
    <2>5. Numbered'
      BY <1>0, <1>q, <2>1, <2>2 DEF feishu, Writers, Pushers
    <2> QED
      BY <2>3, <2>4, <2>5 DEF SeqInv
  <1>3. ASSUME RunUpdates \/ RunEnds PROVE SeqInv'
    <2>1. /\ pc["run"] = "idle" /\ pc' = [pc EXCEPT !["run"] = "writing"]
          /\ UNCHANGED <<stream, call, feishu>>
      BY <1>3 DEF RunUpdates, RunEnds
    <2>2. TypeOK'
      <3>1. version' \in 0..MaxUpdates /\ arg' \in [Writers -> Snapshots \cup {None}]
        BY <1>0, <1>3 DEF RunUpdates, RunEnds, Snapshots, Final
      <3> QED
        BY <1>0, <2>1, <3>1 DEF stream, feishu
    <2>3. Placed'
      BY <1>0, <2>1 DEF Placed, Pushers
    <2>4. Numbered'
      BY <1>0, <1>q, <2>1 DEF feishu, stream, Pushers
    <2> QED
      BY <2>2, <2>3, <2>4 DEF SeqInv
  <1>4. ASSUME NEW u \in Refreshes, Refresh(u) PROVE SeqInv'
    <2>1. /\ pc' = [pc EXCEPT ![u] = "writing"] /\ arg' = [arg EXCEPT ![u] = version]
          /\ UNCHANGED <<stream, call, version, feishu>>
      BY <1>4 DEF Refresh
    <2>2. TypeOK'
      BY <1>0, <2>1 DEF stream, feishu
    <2>3. Placed'
      BY <1>0, <2>1 DEF Placed, Pushers
    <2>4. Numbered'
      BY <1>0, <1>q, <2>1 DEF feishu, stream, Pushers
    <2> QED
      BY <2>2, <2>3, <2>4 DEF SeqInv
  <1>5. ASSUME LoopWakes \/ LoopExits PROVE SeqInv'
    <2>1. /\ pc["loop"] \in {"idle", "throttled"}
          /\ \E l \in {"throttled", "exited"} : pc' = [pc EXCEPT !["loop"] = l]
          /\ notify' \in BOOLEAN
          /\ UNCHANGED <<latest, done, seq, failed, arg, call, version, feishu>>
          /\ pc["loop"] # "exited"
      BY <1>0, <1>5 DEF LoopWakes, LoopExits, stream
    <2>2. TypeOK'
      BY <1>0, <2>1 DEF feishu
    <2>3. Placed'
      BY <1>0, <2>1 DEF Placed, Pushers
    <2>4. Numbered'
      BY <1>0, <1>q, <2>1 DEF feishu, Pushers
    <2> QED
      BY <2>2, <2>3, <2>4 DEF SeqInv
  <1>6. ASSUME NEW p \in Pushers, NEW from, NEW sending, Push(p, from, sending),
               \/ p = "loop" /\ from = "throttled" /\ sending = "sending"
               \/ p = "run" /\ from = "draining" /\ sending = "pushing"
        PROVE  SeqInv'
    <2>1. /\ pc[p] = from /\ pc' = [pc EXCEPT ![p] = sending] /\ latest # None
          /\ call' = [call EXCEPT ![p] = [snapshot |-> latest, seq |-> seq + 1]]
          /\ latest' = None /\ seq' = seq + 1
          /\ UNCHANGED <<notify, done, failed, arg, version, feishu>>
      BY <1>6 DEF Push
    <2>2. TypeOK'
      <3>1. [snapshot |-> latest, seq |-> seq + 1] \in Calls
        BY <1>0 DEF Calls
      <3> QED
        BY <1>0, <1>6, <2>1, <3>1 DEF feishu
    <2>3. Placed'
      BY <1>0, <1>6, <2>1 DEF Placed, Pushers
    <2>4. \A q \in Pushers : q # p => call'[q] = NoCall
      BY <1>0, <1>6, <2>1 DEF Placed, Numbered, Pushers
    <2>5. /\ call'[p] # NoCall /\ call'[p].seq = seq + 1
      BY <1>0, <2>1, RequestIsCall
    <2>6. Numbered'
      <3>1. \A q \in Sending' : q = p
        BY <2>4 DEF Sending
      <3>2. seq + 1 > feishuSeq /\ seq + 1 <= seq' /\ feishuSeq' <= seq'
        BY <1>0, <2>1 DEF Numbered, feishu
      <3>3. \A q \in Sending' : /\ call'[q].seq > feishuSeq' /\ call'[q].seq <= seq'
                                 /\ call'[q].snapshot \in Snapshots
        BY <1>0, <2>1, <2>5, <3>1, <3>2 DEF feishu
      <3>4. /\ call'["loop"] # NoCall <=> pc'["loop"] = "sending"
            /\ call'["run"] # NoCall <=> pc'["run"] = "pushing"
        BY <1>0, <1>6, <2>1, <2>4, <2>5 DEF Placed, Pushers
      <3> QED
        BY <3>2, <3>3, <3>4 DEF Numbered
    <2> QED
      BY <2>2, <2>3, <2>6 DEF SeqInv
  <1>7. ASSUME NEW p \in Pushers, NEW from, NEW back, PushNothing(p, from, back),
               \/ p = "loop" /\ from = "throttled" /\ back = "idle"
               \/ p = "run" /\ from = "draining" /\ back = "settling"
        PROVE  SeqInv'
    <2>1. /\ pc[p] = from /\ pc' = [pc EXCEPT ![p] = back]
          /\ UNCHANGED <<stream, arg, call, version, feishu>>
      BY <1>7 DEF PushNothing
    <2>2. TypeOK'
      BY <1>0, <1>7, <2>1 DEF feishu, stream
    <2>3. Placed'
      BY <1>0, <1>7, <2>1 DEF Placed, Pushers
    <2>4. Numbered'
      BY <1>0, <1>7, <1>q, <2>1 DEF feishu, stream, Pushers
    <2> QED
      BY <2>2, <2>3, <2>4 DEF SeqInv
  <1>8. ASSUME NEW p \in Pushers, NEW sending, NEW back, Return(p, sending, back),
               \/ p = "loop" /\ sending = "sending" /\ back = "idle"
               \/ p = "run" /\ sending = "pushing" /\ back = "settling"
        PROVE  SeqInv'
    <2>1. /\ pc[p] = sending /\ pc' = [pc EXCEPT ![p] = back]
          /\ call' = [call EXCEPT ![p] = NoCall] /\ failed' \in BOOLEAN
          /\ UNCHANGED <<latest, notify, done, seq, arg, version>>
          /\ \/ UNCHANGED feishu
             \/ shown' = call[p].snapshot /\ feishuSeq' = call[p].seq /\ open' = open
      BY <1>0, <1>8 DEF Return, Accepts
    <2>2. call[p] # NoCall /\ p \in Sending
      BY <1>0, <1>8, <2>1 DEF Numbered, Sending
    <2>3. call[p].snapshot \in Snapshots
      BY <1>0, <2>2 DEF Numbered
    <2>4. TypeOK'
      <3>1. shown' \in Snapshots /\ feishuSeq' \in Nat /\ open' \in BOOLEAN
        BY <1>0, <2>1, <2>3 DEF Calls, feishu
      <3>2. NoCall \in Calls
        BY DEF NoCall, Calls
      <3> QED
        BY <1>0, <1>8, <2>1, <3>1, <3>2
    <2>5. Placed'
      BY <1>0, <1>8, <2>1 DEF Placed, Pushers
    <2>6. \A q \in Pushers : call'[q] = NoCall
      BY <1>0, <1>8, <2>1 DEF Placed, Numbered, Pushers
    <2>7. feishuSeq' <= seq
      BY <1>0, <2>1, <2>2 DEF Numbered, feishu
    <2>8. /\ pc'["loop"] # "sending" /\ pc'["run"] # "pushing"
      BY <1>0, <1>8, <2>1 DEF Placed, Pushers
    <2>9. Numbered'
      BY <2>1, <2>6, <2>7, <2>8 DEF Numbered, Sending, Pushers
    <2> QED
      BY <2>4, <2>5, <2>9 DEF SeqInv
  <1>9. ASSUME Close \/ Join PROVE SeqInv'
    <2>1. /\ \/ pc["run"] = "closing" /\ pc' = [pc EXCEPT !["run"] = "joining"]
             \/ /\ pc["run"] = "joining" /\ pc["loop"] = "exited"
                /\ pc' = [pc EXCEPT !["run"] = "draining"]
          /\ done' \in BOOLEAN
          /\ UNCHANGED <<latest, notify, seq, failed, arg, call, version, feishu>>
      BY <1>0, <1>9 DEF Close, Join, stream
    <2>2. TypeOK'
      BY <1>0, <2>1 DEF feishu
    <2>3. Placed'
      BY <1>0, <2>1 DEF Placed, Pushers
    <2>4. Numbered'
      BY <1>0, <1>q, <2>1 DEF feishu, Pushers
    <2> QED
      BY <2>2, <2>3, <2>4 DEF SeqInv
  <1>10. ASSUME StopStreaming PROVE SeqInv'
    <2>1. /\ pc["run"] = "settling" /\ pc' = [pc EXCEPT !["run"] = "over"] /\ seq' = seq + 1
          /\ feishuSeq' \in {feishuSeq, seq + 1} /\ open' \in BOOLEAN /\ shown' = shown
          /\ UNCHANGED <<latest, notify, done, failed, arg, call, version>>
      BY <1>0, <1>10 DEF StopStreaming, feishu
    <2>2. TypeOK'
      <3>1. seq' \in Nat /\ feishuSeq' \in Nat
        BY <1>0, <2>1
      <3> QED
        BY <1>0, <2>1, <3>1
    <2>3. Placed'
      BY <1>0, <2>1 DEF Placed, Pushers
    <2>4. \A q \in Pushers : call'[q] = NoCall
      BY <1>0, <2>1 DEF Placed, Numbered, Pushers
    <2>5. feishuSeq' <= seq'
      BY <1>0, <2>1 DEF Numbered
    <2>6. /\ pc'["loop"] # "sending" /\ pc'["run"] # "pushing"
      BY <1>0, <2>1 DEF Placed, Pushers
    <2>7. Numbered'
      BY <2>4, <2>5, <2>6 DEF Numbered, Sending, Pushers
    <2> QED
      BY <2>2, <2>3, <2>7 DEF SeqInv
  <1>11. CASE UNCHANGED vars
    BY <1>0, <1>11 DEF vars, stream, feishu, SeqInv, Placed, Numbered, Sending
  <1>12. ASSUME Next PROVE SeqInv'
    BY <1>1, <1>2, <1>3, <1>4, <1>5, <1>6, <1>7, <1>8, <1>9, <1>10, <1>12
       DEF Next, Update, Loop, Finish, LoopPush, LoopReturns, Drain, DrainReturns, Pushers
  <1> QED
    BY <1>11, <1>12

\* A step that moves the run before it ends, and its last snapshot not at all,
\* keeps FinalInv; so does one that leaves every part of it alone.
LEMMA FinalInvStep == SeqInv /\ FinalInv /\ [Next]_vars => FinalInv'
  <1> SUFFICES ASSUME SeqInv, FinalInv, [Next]_vars PROVE FinalInv'
    OBVIOUS
  <1> USE Constants DEF At, Goto, Ending, Joined
  <1>0. /\ TypeOK /\ Placed /\ Numbered
        /\ pc \in [Pushers \cup Refreshes -> RunPlaces \cup LoopPlaces]
        /\ arg \in [Writers -> Snapshots \cup {None}] /\ call \in [Pushers -> Calls]
    <2>1. TypeOK /\ Placed /\ Numbered
      BY DEF SeqInv
    <2> QED
      BY <2>1 DEF TypeOK, RunPlaces, LoopPlaces
  <1>q. ASSUME UNCHANGED <<latest, call, shown>>, Undisturbed' => Undisturbed,
               ~failed' => ~failed, pc'["run"] = pc["run"], arg'["run"] = arg["run"]
        PROVE  FinalInv'
    BY <1>q DEF FinalInv, Written, OnItsWay, Sending
  <1>1. ASSUME Write("run") PROVE FinalInv'
    <2>1. /\ pc'["run"] = "notifying" /\ latest' = arg["run"] /\ arg' = arg
      BY <1>0, <1>1 DEF Write, Pushers
    <2> QED
      BY <2>1 DEF FinalInv, OnItsWay
  <1>2. ASSUME Notify("run") PROVE FinalInv'
    <2>1. /\ pc["run"] = "notifying" /\ pc'["run"] \in {"closing", "idle"}
          /\ pc'["run"] = "closing" => arg["run"] = Final
          /\ pc' = [pc EXCEPT !["run"] = pc'["run"]]
          /\ UNCHANGED <<latest, failed, arg, call, shown>>
      BY <1>0, <1>2 DEF Notify, Updated, Pushers, feishu
    <2>2. Undisturbed' => Undisturbed
      BY <1>0, <2>1 DEF Undisturbed
    <2> QED
      BY <2>1, <2>2 DEF FinalInv, Written, OnItsWay, Sending
  <1>3. ASSUME NEW u \in Refreshes, Refresh(u) \/ Update(u) PROVE FinalInv'
    <2>1. ~Undisturbed' /\ pc'["run"] = pc["run"] /\ arg'["run"] = arg["run"]
      <3>1. \E l \in {"writing", "notifying", "over"} : pc' = [pc EXCEPT ![u] = l]
        BY <1>3 DEF Refresh, Update, Write, Notify, Updated
      <3>2. arg' = arg \/ arg' = [arg EXCEPT ![u] = version]
        BY <1>3 DEF Refresh, Update, Write, Notify
      <3> QED
        BY <1>0, <3>1, <3>2 DEF Undisturbed, Writers
    <2> QED
      BY <2>1 DEF FinalInv
  <1>4. ASSUME RunUpdates \/ RunEnds PROVE FinalInv'
    <2>1. pc'["run"] = "writing"
      BY <1>0, <1>4 DEF RunUpdates, RunEnds, Pushers
    <2> QED
      BY <2>1 DEF FinalInv, Written
  <1>5. ASSUME LoopWakes \/ LoopExits PROVE FinalInv'
    <2>1. /\ \E l \in {"throttled", "exited"} : pc' = [pc EXCEPT !["loop"] = l]
          /\ UNCHANGED <<latest, failed, arg, call, shown>>
      BY <1>5 DEF LoopWakes, LoopExits, stream, feishu
    <2>2. (Undisturbed' => Undisturbed) /\ pc'["run"] = pc["run"]
      BY <1>0, <2>1 DEF Undisturbed, Pushers
    <2> QED
      BY <1>q, <2>1, <2>2
  <1>6. ASSUME NEW p \in Pushers, NEW from, NEW sending, Push(p, from, sending),
               \/ p = "loop" /\ from = "throttled" /\ sending = "sending"
               \/ p = "run" /\ from = "draining" /\ sending = "pushing"
        PROVE  FinalInv'
    <2>1. /\ pc[p] = from /\ pc' = [pc EXCEPT ![p] = sending] /\ ~failed /\ latest # None
          /\ call' = [call EXCEPT ![p] = [snapshot |-> latest, seq |-> seq + 1]]
          /\ latest' = None
          /\ UNCHANGED <<failed, arg, shown>>
      BY <1>6 DEF Push, feishu
    <2>2. (Undisturbed' => Undisturbed) /\ (pc'["run"] \in Ending => pc["run"] \in Ending)
          /\ (Written' => Written)
      BY <1>0, <1>6, <2>1 DEF Undisturbed, Pushers, Written
    <2>3. call'[p] # NoCall /\ call'[p].snapshot = latest
      BY <1>0, <2>1, RequestIsCall
    <2>4. p \in Sending'
      BY <2>3 DEF Sending
    <2>5. ASSUME ~failed', Undisturbed', Written', arg'["run"] = Final PROVE OnItsWay'
      <3>1. OnItsWay
        BY <2>1, <2>2, <2>5 DEF FinalInv
      <3>2. latest = Final
        BY <2>1, <3>1 DEF OnItsWay
      <3> QED
        BY <2>1, <2>3, <2>4, <3>2 DEF OnItsWay
    <2> QED
      BY <2>1, <2>2, <2>5 DEF FinalInv
  <1>7. ASSUME NEW p \in Pushers, NEW from, NEW back, PushNothing(p, from, back),
               \/ p = "loop" /\ from = "throttled" /\ back = "idle"
               \/ p = "run" /\ from = "draining" /\ back = "settling"
        PROVE  FinalInv'
    <2>1. /\ pc[p] = from /\ pc' = [pc EXCEPT ![p] = back]
          /\ failed \/ latest = None
          /\ UNCHANGED <<latest, failed, arg, call, shown>>
      BY <1>7 DEF PushNothing, stream, feishu
    <2>2. (Undisturbed' => Undisturbed) /\ (pc'["run"] \in Ending => pc["run"] \in Ending)
          /\ (Written' => Written) /\ (p = "loop" => pc'["run"] = pc["run"])
      BY <1>0, <1>7, <2>1 DEF Undisturbed, Pushers, Written
    <2> QED
      BY <2>1, <2>2, <1>7 DEF FinalInv, OnItsWay, Sending
  <1>8. ASSUME NEW p \in Pushers, NEW sending, NEW back, Return(p, sending, back),
               \/ p = "loop" /\ sending = "sending" /\ back = "idle"
               \/ p = "run" /\ sending = "pushing" /\ back = "settling"
        PROVE  FinalInv'
    <2>1. /\ pc[p] = sending /\ pc' = [pc EXCEPT ![p] = back]
          /\ call' = [call EXCEPT ![p] = NoCall]
          /\ UNCHANGED <<latest, arg>>
          /\ ~failed' => ~failed /\ shown' = call[p].snapshot
      BY <1>8 DEF Return, Accepts
    <2>2. (Undisturbed' => Undisturbed) /\ (pc'["run"] \in Ending => pc["run"] \in Ending)
          /\ (Written' => Written)
          /\ (pc'["run"] \in {"pushing", "settling", "over"}
                => pc["run"] \in {"pushing", "settling", "over"})
      BY <1>0, <1>8, <2>1 DEF Undisturbed, Pushers, Written
    <2>3. Sending = {p} /\ Sending' = {}
      <3>1. \A q \in Pushers : q # p => call[q] = NoCall
        BY <1>0, <1>8, <2>1 DEF Placed, Numbered, Pushers
      <3>2. call[p] # NoCall
        BY <1>0, <1>8, <2>1 DEF Numbered
      <3> QED
        BY <1>0, <2>1, <3>1, <3>2 DEF Sending
    <2>4. ASSUME ~failed', Undisturbed', Written', arg'["run"] = Final PROVE OnItsWay'
      <3>1. OnItsWay
        BY <2>1, <2>2, <2>4 DEF FinalInv
      <3> QED
        BY <2>1, <2>3, <2>4, <3>1 DEF OnItsWay
    <2> QED
      BY <2>1, <2>2, <2>4 DEF FinalInv
  <1>9. ASSUME Close \/ Join \/ StopStreaming PROVE FinalInv'
    <2>1. /\ pc["run"] \in {"closing", "joining", "settling"}
          /\ \E l \in Ending : pc' = [pc EXCEPT !["run"] = l]
          /\ pc["run"] # "settling" => pc'["run"] \in {"joining", "draining"}
          /\ UNCHANGED <<latest, failed, arg, call, shown>>
      BY <1>0, <1>9 DEF Close, Join, StopStreaming, stream, feishu, Pushers
    <2>2. (Undisturbed' => Undisturbed) /\ Written /\ pc["run"] \in Ending
      BY <1>0, <2>1 DEF Undisturbed, Written
    <2> QED
      BY <2>1, <2>2 DEF FinalInv, OnItsWay, Sending
  <1>10. CASE UNCHANGED vars
    BY <1>10, <1>q DEF vars, stream, feishu, Undisturbed
  <1>11. ASSUME Next PROVE FinalInv'
    BY <1>1, <1>2, <1>3, <1>4, <1>5, <1>6, <1>7, <1>8, <1>9, <1>11
       DEF Next, Update, Loop, Finish, LoopPush, LoopReturns, Drain, DrainReturns, Pushers, Writers
  <1> QED
    BY <1>10, <1>11

\* The last snapshot can no longer be on its way when Finish is over.
LEMMA FinalIsEnough == SeqInv /\ FinalInv => FinalIsShown
  <1> SUFFICES ASSUME SeqInv, FinalInv, At("run", "over"), ~failed, Undisturbed
               PROVE  shown = Final
    BY DEF FinalIsShown
  <1>1. OnItsWay /\ latest = None
    BY DEF FinalInv, Written, Ending, At
  <1>2. \A p \in Pushers : call[p] = NoCall
    BY DEF SeqInv, Placed, Numbered, At, Joined, Pushers
  <1> QED
    BY <1>1, <1>2 DEF OnItsWay, Sending, Final, None, Constants

------------------------------------------------------------------------------
\* The invariant the two properties rest on.
THEOREM Invariance == Spec => []IInv
  <1>1. Init => IInv
    <2>1. Init => FinalInv
      BY Constants DEF Init, FinalInv, Written, Ending, At, Pushers
    <2> QED
      BY <2>1, SeqInvInit DEF IInv
  <1>2. IInv /\ [Next]_vars => IInv'
    BY SeqInvStep, FinalInvStep DEF IInv
  <1> QED
    BY <1>1, <1>2, PTL DEF Spec

\* Every variable keeps its type, however the goroutines of the run, the stream
\* and the refreshes interleave.
THEOREM TypeCorrect == Spec => []TypeOK
  <1>1. IInv => TypeOK
    BY DEF IInv, SeqInv
  <1> QED
    BY <1>1, Invariance, PTL

\* The loop and Finish never have two requests under way, and a request carries
\* a sequence number above all that Feishu has accepted.
THEOREM SequenceIncreasesHolds == Spec => []SequenceIncreases
  <1>1. IInv => SequenceIncreases
    BY NumberedIsEnough DEF IInv
  <1> QED
    BY <1>1, Invariance, PTL

\* When Finish returns the card shows the last state of the run, unless Feishu
\* failed or a refresh wrote in between, however many updates came before.
THEOREM FinalIsShownHolds == Spec => []FinalIsShown
  <1>1. IInv => FinalIsShown
    BY FinalIsEnough DEF IInv
  <1> QED
    BY <1>1, Invariance, PTL

------------------------------------------------------------------------------
(***************************************************************************)
(* ActiveCards: its types, RunningIsListed and LostIsTried.  While nobody  *)
(* raced, at most one run edits the file, and it has the file's contents   *)
(* in hand; a card that a crash takes from its run is tried, or among the  *)
(* entries that the sweep still has to visit, or listed in a whole file.   *)
(***************************************************************************)

Editing(s) == stage[s] \in {"writing", "truncated"}
AtWork(s) == stage[s] \in {"running", "retiring"}

\* Runs are at work only between a start and the next end of the process, and
\* so is the sweep of a shutdown; a run has a card.
UpInv ==
  /\ up \in {"down", "starting"} => \A s \in Scopes : stage[s] = "idle"
  /\ sweep => up \in {"starting", "stopping"}
  /\ up = "starting" => sweep
  /\ \A s \in Scopes : stage[s] # "idle" => made[s] # 0

\* What the file and the views of it are while the bridge works.
FileInv == up = "up" /\ ~raced =>
  /\ \A s, t \in Scopes : Editing(s) /\ Editing(t) => s = t
  /\ \A s \in Scopes : Editing(s) => view[s] = file
  /\ torn => \E s \in Scopes : stage[s] = "truncated"
  /\ \A s \in Scopes : AtWork(s) => file[s] = made[s]

Pending == {<<s, entries[s]>> : s \in todo}
FileCards == {<<s, file[s]>> : s \in Listed(file)}

\* Where the cards are that crashes left behind.
LostInv == ~raced =>
  /\ up \in {"up", "stopping"} => lost \subseteq tried
  /\ up = "starting" => entries = file /\ ~torn /\ lost \subseteq tried \cup Pending
  /\ up = "down" => \/ lost \subseteq tried
                    \/ ~torn /\ lost \subseteq tried \cup FileCards

\* Each scope has made the cards numbered up to its last.
MadeInv == \A s \in Scopes : \A n \in 1..made[s] : card[s][n] # "none"

CardsInv == CardsTypeOK /\ MadeInv /\ UpInv /\ FileInv /\ LostInv

------------------------------------------------------------------------------
\* What the constants give.
LEMMA CardsConstants ==
  /\ MaxCards \in Nat /\ MaxStops \in Nat /\ IsFiniteSet(Scopes)
  /\ Numbers = 1..MaxCards /\ Empty \in [Scopes -> 0..MaxCards]
  /\ \A s \in Scopes : Empty[s] = 0
  /\ \A f \in [Scopes -> 0..MaxCards] : \A s \in Listed(f) : s \in Scopes /\ f[s] \in Numbers
  BY CardsAssumption DEF Numbers, Empty, Listed

\* The bound on all cards bounds those of a scope.
LEMMA MadeIsBounded ==
  ASSUME CardsTypeOK, MadeInv, NEW s \in Scopes, Cardinality(Made) < MaxCards
  PROVE  made[s] + 1 \in Numbers
  <1> DEFINE f == [n \in 1..made[s] |-> <<s, n>>]
  <1>1. made[s] \in 0..MaxCards /\ MaxCards \in Nat
    BY CardsConstants DEF CardsTypeOK
  <1>2. IsFiniteSet(Cards)
    <2>1. IsFiniteSet(Numbers)
      BY CardsConstants, FS_Interval
    <2> QED
      BY <2>1, CardsConstants, FS_Product DEF Cards
  <1>3. IsFiniteSet(Made) /\ Cardinality(Made) \in Nat
    BY <1>2, FS_Subset, FS_CardinalityType DEF Made
  <1>4. f \in Injection(1..made[s], Made)
    <2>1. \A n \in 1..made[s] : <<s, n>> \in Made
      BY <1>1, CardsConstants DEF MadeInv, Made, Cards
    <2> QED
      BY <2>1 DEF Injection, IsInjective
  <1>5. Cardinality(1..made[s]) <= Cardinality(Made)
    BY <1>3, <1>4, FS_Injection
  <1>6. Cardinality(1..made[s]) = made[s]
    BY <1>1, FS_Interval
  <1> QED
    BY <1>1, <1>3, <1>5, <1>6, CardsConstants

LEMMA TypeStep == CardsTypeOK /\ MadeInv /\ UpInv /\ [CardsNext]_cardsVars => CardsTypeOK'
  <1> SUFFICES ASSUME CardsTypeOK, MadeInv, UpInv, [CardsNext]_cardsVars PROVE CardsTypeOK'
    OBVIOUS
  <1> USE CardsConstants DEF CardsTypeOK, During, Enter, fileVars, runVars, sweepVars
  <1>1. ASSUME NEW s \in Scopes, NEW why \in {"save", "rotate"}, NewCard(s, why),
               NEW l \in {"loading"}, Enter(s, l)
        PROVE  CardsTypeOK'
    <2>1. made[s] + 1 \in Numbers
      BY <1>1, MadeIsBounded DEF NewCard
    <2>2. made' \in [Scopes -> 0..MaxCards]
      BY <1>1, <2>1 DEF NewCard
    <2>3. card' \in [Scopes -> [Numbers -> {"none", "live", "final"}]]
      BY <1>1, <2>1 DEF NewCard
    <2> QED
      BY <1>1, <2>2, <2>3 DEF NewCard
  <1>2. ASSUME NEW s \in Scopes, Load(s) PROVE CardsTypeOK'
    <2>1. view' \in [Scopes -> [Scopes -> 0..MaxCards]]
      BY <1>2 DEF Load
    <2> QED
      BY <1>2, <2>1 DEF Load
  <1>3. ASSUME NEW s \in Scopes, RemoveFile(s) \/ WriteFile(s) PROVE CardsTypeOK'
    <2>1. AfterEdit(s) \in {"running", "retiring", "finishing"}
      BY DEF AfterEdit
    <2>2. view' = [view EXCEPT ![s] = Empty]
      BY <1>3 DEF RemoveFile, WriteFile
    <2>3. view' \in [Scopes -> [Scopes -> 0..MaxCards]]
      BY <2>2
    <2>4. Edited(s) \in [Scopes -> 0..MaxCards]
      <3>1. view[s] \in [Scopes -> 0..MaxCards] /\ made[s] \in 0..MaxCards /\ 0 \in 0..MaxCards
        OBVIOUS
      <3> QED
        BY <3>1 DEF Edited
    <2>5. file' \in [Scopes -> 0..MaxCards] /\ torn' \in BOOLEAN
      BY <1>3, <2>4 DEF RemoveFile, WriteFile
    <2>6. stage' = [stage EXCEPT ![s] = AfterEdit(s)]
          /\ UNCHANGED <<up, stops, raced, goal, made, card, pushed, sweepVars, lost>>
      BY <1>3 DEF RemoveFile, WriteFile
    <2>7. stage' \in [Scopes -> {"idle", "loading", "writing", "truncated", "running", "retiring",
                              "finishing"}]
      BY <2>1, <2>6
    <2> QED
      BY <2>3, <2>5, <2>6, <2>7
  <1>4. ASSUME NEW s \in Scopes, Truncate(s) PROVE CardsTypeOK'
    BY <1>4 DEF Truncate
  <1>5. ASSUME NEW s \in Scopes, PushUpdate(s) PROVE CardsTypeOK'
    <2>1. pushed' \in [Scopes -> [Numbers -> BOOLEAN]]
      BY <1>5 DEF PushUpdate
    <2> QED
      BY <1>5, <2>1 DEF PushUpdate
  <1>6. ASSUME NEW s \in Scopes, Retire(s) \/ FinishCard(s) PROVE CardsTypeOK'
    <2>1. PICK k \in {made[s], made[s] - 1}, l \in {"running", "idle"} :
            card' = [card EXCEPT ![s][k] = "final"] /\ Enter(s, l)
      BY <1>6 DEF Retire, FinishCard
    <2>2. card' \in [Scopes -> [Numbers -> {"none", "live", "final"}]]
      <3>1. [card[s] EXCEPT ![k] = "final"] \in [Numbers -> {"none", "live", "final"}]
        OBVIOUS
      <3> QED
        BY <2>1, <3>1
    <2>3. UNCHANGED <<up, stops, fileVars, goal, view, made, pushed, sweepVars, lost>>
      BY <1>6 DEF Retire, FinishCard
    <2> QED
      BY <2>1, <2>2, <2>3
  <1>7. ASSUME NEW s \in Scopes, End(s) PROVE CardsTypeOK'
    BY <1>7 DEF End
  <1>8. ASSUME NEW s \in Scopes, Visit(s) PROVE CardsTypeOK'
    <2>1. s \in Listed(entries) /\ entries[s] \in Numbers /\ todo' \subseteq Listed(entries)
      BY <1>8 DEF Visit
    <2>2. card' \in [Scopes -> [Numbers -> {"none", "live", "final"}]]
      <3>1. card[s][entries[s]] \in {"none", "live", "final"}
        BY <2>1
      <3>2. PICK x \in {"none", "live", "final"} : card' = [card EXCEPT ![s][entries[s]] = x]
        BY <1>8, <3>1 DEF Visit
      <3> QED
        BY <2>1, <3>2
    <2>3. tried' \subseteq Cards
      BY <1>8, <2>1 DEF Visit, Cards
    <2> QED
      BY <1>8, <2>1, <2>2, <2>3 DEF Visit
  <1>9. ASSUME Crash \/ Exit PROVE CardsTypeOK'
    <2>1. Die
      BY <1>9 DEF Crash, Exit
    <2>2. lost' \subseteq Cards
      <3>1. \A s \in Scopes : stage[s] = "running" => <<s, made[s]>> \in Cards
        BY DEF Cards, UpInv
      <3> QED
        BY <2>1, <3>1 DEF Die
    <2>3. stops' \in 0..MaxStops /\ todo' \subseteq Listed(entries')
      BY <2>1 DEF Die
    <2> QED
      BY <2>1, <2>2, <2>3 DEF Die
  <1>10. ASSUME Signal PROVE CardsTypeOK'
    BY <1>10 DEF Signal
  <1>11. ASSUME ReadEntries
         PROVE  /\ file' \in [Scopes -> 0..MaxCards] /\ torn' \in BOOLEAN /\ raced' = raced
                /\ sweep' \in BOOLEAN /\ entries' \in [Scopes -> 0..MaxCards]
                /\ todo' \subseteq Listed(entries') /\ tried' = tried
    BY <1>11 DEF ReadEntries
  <1>12. ASSUME Start \/ StopSweep PROVE CardsTypeOK'
    <2>1. ReadEntries /\ UNCHANGED <<stops, runVars, lost>>
          /\ up' \in {"up", "starting", "stopping", "down"}
      BY <1>12 DEF Start, StopSweep
    <2> QED
      BY <1>11, <2>1
  <1>13. ASSUME SweepDone PROVE CardsTypeOK'
    BY <1>13 DEF SweepDone
  <1>14. CASE UNCHANGED cardsVars
    BY <1>14 DEF cardsVars
  <1>15. ASSUME NEW s \in Scopes, Begin(s) \/ Rotate(s) PROVE CardsTypeOK'
    BY <1>1, <1>15 DEF Begin, Rotate
  <1>16. ASSUME CardsNext PROVE CardsTypeOK'
    BY <1>2, <1>3, <1>4, <1>5, <1>6, <1>7, <1>8, <1>9, <1>10, <1>12, <1>13, <1>15, <1>16
       DEF CardsNext, Edit, Run
  <1> QED
    BY <1>14, <1>16

\* Cards are made one after the other, and none is unmade.
LEMMA MadeInvStep == CardsTypeOK /\ MadeInv /\ [CardsNext]_cardsVars => MadeInv'
  <1> SUFFICES ASSUME CardsTypeOK, MadeInv, [CardsNext]_cardsVars PROVE MadeInv'
    OBVIOUS
  <1>0. /\ card \in [Scopes -> [Numbers -> {"none", "live", "final"}]]
        /\ made \in [Scopes -> 0..MaxCards] /\ MaxCards \in Nat /\ Numbers = 1..MaxCards
    BY CardsConstants DEF CardsTypeOK
  <1>1. ASSUME NEW s \in Scopes, NewCard(s, "save") \/ NewCard(s, "rotate") PROVE MadeInv'
    <2>1. /\ made' = [made EXCEPT ![s] = made[s] + 1]
          /\ card' = [card EXCEPT ![s][made[s] + 1] = "live"]
          /\ made[s] + 1 \in Numbers
      BY <1>1, MadeIsBounded DEF NewCard
    <2>2. ASSUME NEW t \in Scopes, NEW n \in 1..made'[t] PROVE card'[t][n] # "none"
      <3>1. CASE t = s
        <4>1. n \in 1..made[s] \/ n = made[s] + 1
          BY <1>0, <2>1, <2>2, <3>1
        <4> QED
          BY <1>0, <2>1, <3>1, <4>1 DEF MadeInv
      <3>2. CASE t # s
        BY <1>0, <2>1, <2>2, <3>2 DEF MadeInv
      <3> QED
        BY <3>1, <3>2
    <2> QED
      BY <2>2 DEF MadeInv
  <1>2. ASSUME made' = made,
               \A t \in Scopes : \A n \in Numbers : card[t][n] # "none" => card'[t][n] # "none"
        PROVE  MadeInv'
    BY <1>0, <1>2 DEF MadeInv
  <1>3. ASSUME NEW s \in Scopes, Retire(s) \/ FinishCard(s) PROVE MadeInv'
    <2>1. PICK k : card' = [card EXCEPT ![s][k] = "final"]
      BY <1>3 DEF Retire, FinishCard
    <2> QED
      BY <1>0, <1>2, <1>3, <2>1 DEF Retire, FinishCard
  <1>4. ASSUME NEW s \in Scopes, Visit(s) PROVE MadeInv'
    <2>1. PICK x \in {card[s][entries[s]], "final"} : card' = [card EXCEPT ![s][entries[s]] = x]
      BY <1>4 DEF Visit
    <2> QED
      BY <1>0, <1>2, <1>4, <2>1 DEF Visit, runVars
  <1>5. ASSUME NEW s \in Scopes, Edit(s) \/ PushUpdate(s) \/ End(s) PROVE UNCHANGED <<made, card>>
    BY <1>5 DEF Edit, Load, RemoveFile, Truncate, WriteFile, PushUpdate, End
  <1>6. ASSUME Crash \/ Signal \/ Exit \/ Start \/ StopSweep \/ SweepDone
        PROVE  UNCHANGED <<made, card>>
    BY <1>6 DEF Crash, Exit, Die, Signal, Start, StopSweep, SweepDone, runVars
  <1>7. UNCHANGED <<made, card>> => MadeInv'
    BY DEF MadeInv
  <1>8. CASE UNCHANGED cardsVars
    BY <1>7, <1>8 DEF cardsVars, runVars
  <1>9. ASSUME CardsNext PROVE MadeInv'
    BY <1>1, <1>3, <1>4, <1>5, <1>6, <1>7, <1>9 DEF CardsNext, Run, Begin, Rotate
  <1> QED
    BY <1>8, <1>9

------------------------------------------------------------------------------
\* What the steps of a run leave alone.
LEMMA RunStep ==
  ASSUME CardsTypeOK, NEW s \in Scopes, Edit(s) \/ Run(s)
  PROVE  Working /\ UNCHANGED <<up, stops, sweepVars, lost>> /\ (raced => raced')
  <1>1. CASE Edit(s)
    <2>1. Working /\ UNCHANGED <<up, stops, sweepVars, lost>>
      BY <1>1 DEF Edit, Load, RemoveFile, Truncate, WriteFile, During
    <2>2. raced => raced'
      BY <1>1 DEF Edit, Load, RemoveFile, Truncate, WriteFile, CardsTypeOK
    <2> QED
      BY <2>1, <2>2
  <1>2. CASE Run(s)
    BY <1>2 DEF Run, Begin, Rotate, NewCard, PushUpdate, Retire, End, FinishCard, During, fileVars
  <1> QED
    BY <1>1, <1>2

\* A run that ends a step outside "idle" was outside it, or has made a card.
LEMMA UpInvStep == CardsTypeOK /\ MadeInv /\ UpInv /\ [CardsNext]_cardsVars => UpInv'
  <1> SUFFICES ASSUME CardsTypeOK, MadeInv, UpInv, [CardsNext]_cardsVars PROVE UpInv'
    OBVIOUS
  <1>0. /\ stage \in [Scopes -> {"idle", "loading", "writing", "truncated", "running", "retiring",
                              "finishing"}]
        /\ made \in [Scopes -> 0..MaxCards] /\ MaxCards \in Nat
    BY CardsConstants DEF CardsTypeOK
  <1>1. ASSUME NEW s \in Scopes, Edit(s) \/ Run(s) PROVE UpInv'
    <2>1. up \in {"up", "stopping"} /\ UNCHANGED <<up, sweep>>
      BY <1>1, RunStep DEF Working, sweepVars
    <2>2. ASSUME NEW l, Enter(s, l), made' = made, stage[s] # "idle"
          PROVE  \A t \in Scopes : stage'[t] # "idle" => made'[t] # 0
      BY <1>0, <2>2 DEF Enter, UpInv
    <2>3. ASSUME Edit(s) \/ Retire(s) \/ End(s) \/ FinishCard(s)
          PROVE  /\ made' = made /\ stage[s] # "idle"
                 /\ \E l : Enter(s, l)
      BY <2>3 DEF Edit, Load, RemoveFile, Truncate, WriteFile, Retire, End, FinishCard, During
    <2>4. ASSUME NewCard(s, "save") \/ NewCard(s, "rotate"), Enter(s, "loading")
          PROVE  \A t \in Scopes : stage'[t] # "idle" => made'[t] # 0
      <3>1. made' = [made EXCEPT ![s] = made[s] + 1]
        BY <2>4 DEF NewCard
      <3> QED
        BY <1>0, <2>4, <3>1 DEF Enter, UpInv
    <2>5. ASSUME PushUpdate(s)
          PROVE  \A t \in Scopes : stage'[t] # "idle" => made'[t] # 0
      BY <2>5 DEF PushUpdate, UpInv
    <2>6. \A t \in Scopes : stage'[t] # "idle" => made'[t] # 0
      BY <1>1, <2>2, <2>3, <2>4, <2>5 DEF Run, Begin, Rotate
    <2> QED
      BY <2>1, <2>6 DEF UpInv
  <1>2. ASSUME NEW s \in Scopes, Visit(s) PROVE UpInv'
    BY <1>2 DEF Visit, UpInv
  <1>3. ASSUME Crash \/ Exit PROVE UpInv'
    BY <1>3 DEF Crash, Exit, Die, UpInv
  <1>4. ASSUME Signal \/ SweepDone PROVE UpInv'
    BY <1>4 DEF Signal, SweepDone, UpInv, runVars, sweepVars
  <1>5. ASSUME Start \/ StopSweep PROVE UpInv'
    BY <1>5 DEF Start, StopSweep, ReadEntries, UpInv, runVars, sweepVars
  <1>6. CASE UNCHANGED cardsVars
    BY <1>6 DEF cardsVars, runVars, sweepVars, UpInv
  <1> QED
    BY <1>1, <1>2, <1>3, <1>4, <1>5, <1>6 DEF CardsNext

\* An edit writes the file's own contents back, with the run's entry changed.
LEMMA FileInvStep == CardsTypeOK /\ UpInv /\ FileInv /\ [CardsNext]_cardsVars => FileInv'
  <1> SUFFICES ASSUME CardsTypeOK, UpInv, FileInv, [CardsNext]_cardsVars, up' = "up", ~raced'
               PROVE  /\ \A s, t \in Scopes : Editing(s)' /\ Editing(t)' => s = t
                      /\ \A s \in Scopes : Editing(s)' => view'[s] = file'
                      /\ torn' => \E s \in Scopes : stage'[s] = "truncated"
                      /\ \A s \in Scopes : AtWork(s)' => file'[s] = made'[s]
    BY DEF FileInv
  <1> DEFINE Whole ==
        /\ \A s, t \in Scopes : Editing(s)' /\ Editing(t)' => s = t
        /\ \A s \in Scopes : Editing(s)' => view'[s] = file'
        /\ torn' => \E s \in Scopes : stage'[s] = "truncated"
        /\ \A s \in Scopes : AtWork(s)' => file'[s] = made'[s]
  <1>0. /\ stage \in [Scopes -> {"idle", "loading", "writing", "truncated", "running", "retiring",
                              "finishing"}]
        /\ made \in [Scopes -> 0..MaxCards] /\ MaxCards \in Nat
        /\ view \in [Scopes -> [Scopes -> 0..MaxCards]] /\ file \in [Scopes -> 0..MaxCards]
        /\ goal \in [Scopes -> {"save", "rotate", "remove"}] /\ raced \in BOOLEAN
        /\ sweep \in BOOLEAN
    BY CardsConstants DEF CardsTypeOK
  <1>1. ASSUME NEW s \in Scopes, Edit(s) \/ Run(s) PROVE Whole
    <2>1. up = "up" /\ ~raced
      BY <1>1, RunStep
    <2>2. /\ \A t, u \in Scopes : Editing(t) /\ Editing(u) => t = u
          /\ \A t \in Scopes : Editing(t) => view[t] = file
          /\ torn => \E t \in Scopes : stage[t] = "truncated"
          /\ \A t \in Scopes : AtWork(t) => file[t] = made[t]
      BY <2>1 DEF FileInv
    <2>3. ASSUME Load(s) PROVE Whole
      <3>1. /\ stage' = [stage EXCEPT ![s] = "writing"] /\ file' = file /\ torn' = torn /\ made' = made
            /\ view' = [view EXCEPT ![s] = IF torn THEN Empty ELSE file]
            /\ \A t \in Scopes : ~Editing(t)
        BY <2>3 DEF Load, Enter, Editing
      <3>2. ~torn
        BY <2>2, <3>1 DEF Editing
      <3> QED
        BY <1>0, <2>2, <3>1, <3>2 DEF Editing, AtWork
    <2>4. ASSUME RemoveFile(s) \/ WriteFile(s) PROVE Whole
      <3>1. /\ stage' = [stage EXCEPT ![s] = AfterEdit(s)] /\ file' = Edited(s) /\ torn' = FALSE
            /\ made' = made /\ Editing(s)
        BY <2>4 DEF RemoveFile, WriteFile, Enter, Editing, During
      <3>2. /\ Edited(s) = [file EXCEPT ![s] = IF goal[s] = "remove" THEN 0 ELSE made[s]]
            /\ \A t \in Scopes : t # s => ~Editing(t)
        BY <2>2, <3>1 DEF Edited
      <3>3. /\ AfterEdit(s) \in {"running", "retiring", "finishing"}
            /\ AfterEdit(s) \in {"running", "retiring"} => goal[s] # "remove"
        BY <1>0 DEF AfterEdit
      <3>4. \A t \in Scopes : ~Editing(t)'
        BY <1>0, <3>1, <3>2, <3>3 DEF Editing
      <3>5. ASSUME NEW t \in Scopes, AtWork(t)' PROVE file'[t] = made'[t]
        <4>1. CASE t = s
          BY <1>0, <3>1, <3>2, <3>3, <3>5, <4>1 DEF AtWork
        <4>2. CASE t # s
          <5>1. AtWork(t)
            BY <1>0, <3>1, <3>5, <4>2 DEF AtWork
          <5> QED
            BY <1>0, <2>2, <3>1, <3>2, <4>2, <5>1
        <4> QED
          BY <4>1, <4>2
      <3> QED
        BY <3>1, <3>4, <3>5
    <2>5. ASSUME Truncate(s) PROVE Whole
      <3>1. /\ stage' = [stage EXCEPT ![s] = "truncated"] /\ Editing(s)
            /\ UNCHANGED <<file, made, view>>
        BY <2>5 DEF Truncate, Enter, Editing, During
      <3>2. stage'[s] = "truncated"
        BY <1>0, <3>1
      <3>3. \A t \in Scopes : Editing(t)' => Editing(t)
        BY <1>0, <3>1 DEF Editing
      <3>4. \A t \in Scopes : AtWork(t)' => AtWork(t)
        BY <1>0, <3>1 DEF AtWork
      <3> QED
        BY <2>2, <3>1, <3>2, <3>3, <3>4
    <2>6. ASSUME Run(s) PROVE Whole
      <3>1. /\ UNCHANGED <<file, torn, view>>
            /\ \/ /\ stage[s] \in {"idle", "running"} /\ Enter(s, "loading")
                  /\ \A t \in Scopes : t # s => made'[t] = made[t]
               \/ /\ stage[s] = "retiring" /\ Enter(s, "running") /\ made' = made
               \/ /\ stage[s] = "finishing" /\ Enter(s, "idle") /\ made' = made
               \/ UNCHANGED <<stage, made>>
        <4>1. ASSUME Begin(s) \/ Rotate(s)
              PROVE  /\ UNCHANGED <<file, torn, view>>
                     /\ stage[s] \in {"idle", "running"} /\ Enter(s, "loading")
                     /\ \A t \in Scopes : t # s => made'[t] = made[t]
          BY <1>0, <4>1 DEF Begin, Rotate, NewCard, During, fileVars
        <4>2. ASSUME End(s)
              PROVE  /\ UNCHANGED <<file, torn, view>>
                     /\ stage[s] \in {"idle", "running"} /\ Enter(s, "loading") /\ made' = made
          BY <4>2 DEF End, During, fileVars
        <4>3. ASSUME Retire(s)
              PROVE  /\ UNCHANGED <<file, torn, view>>
                     /\ stage[s] = "retiring" /\ Enter(s, "running") /\ made' = made
          BY <4>3 DEF Retire, During, fileVars
        <4>4. ASSUME FinishCard(s)
              PROVE  /\ UNCHANGED <<file, torn, view>>
                     /\ stage[s] = "finishing" /\ Enter(s, "idle") /\ made' = made
          BY <4>4 DEF FinishCard, During, fileVars
        <4>5. ASSUME PushUpdate(s) PROVE UNCHANGED <<file, torn, view, stage, made>>
          BY <4>5 DEF PushUpdate, fileVars
        <4> QED
          BY <2>6, <4>1, <4>2, <4>3, <4>4, <4>5 DEF Run
      <3>2. \A t \in Scopes : /\ Editing(t)' <=> Editing(t)
                              /\ stage'[t] = "truncated" <=> stage[t] = "truncated"
                              /\ AtWork(t)' => AtWork(t) /\ made'[t] = made[t]
        BY <1>0, <3>1 DEF Editing, AtWork, Enter
      <3> QED
        BY <2>2, <3>1, <3>2
    <2> QED
      BY <1>1, <2>3, <2>4, <2>5, <2>6 DEF Edit
  <1>2. ASSUME Start \/ SweepDone PROVE Whole
    <2>1. /\ \A t \in Scopes : stage'[t] = "idle"
          /\ ~torn'
      <3>1. CASE Start
        <4>1. ~sweep /\ ~sweep' /\ stage' = stage
          BY <1>0, <3>1 DEF Start, UpInv, runVars
        <4> QED
          BY <3>1, <4>1 DEF Start, ReadEntries, fileVars, UpInv
      <3>2. CASE SweepDone
        BY <3>2 DEF SweepDone, UpInv, runVars
      <3> QED
        BY <1>2, <3>1, <3>2
    <2> QED
      BY <2>1 DEF Editing, AtWork
  <1>3. ASSUME Signal \/ Crash \/ Exit \/ StopSweep PROVE Whole
    BY <1>3 DEF Signal, Crash, Exit, Die, StopSweep
  <1>4. ASSUME UNCHANGED <<up, raced, file, torn, stage, view, made>> PROVE Whole
    BY <1>4 DEF FileInv, Editing, AtWork
  <1>5. ASSUME NEW s \in Scopes, Visit(s) PROVE Whole
    BY <1>4, <1>5 DEF Visit, fileVars
  <1>6. CASE UNCHANGED cardsVars
    BY <1>4, <1>6 DEF cardsVars, fileVars, runVars
  <1> QED
    BY <1>1, <1>2, <1>3, <1>5, <1>6 DEF CardsNext

\* A crash leaves its cards in the file, a start takes them from there.
LEMMA LostInvStep == CardsTypeOK /\ UpInv /\ FileInv /\ LostInv /\ [CardsNext]_cardsVars => LostInv'
  <1> SUFFICES ASSUME CardsTypeOK, UpInv, FileInv, LostInv, [CardsNext]_cardsVars, ~raced'
               PROVE  LostInv'
    BY DEF LostInv
  <1>0. /\ made \in [Scopes -> 0..MaxCards] /\ file \in [Scopes -> 0..MaxCards]
        /\ up \in {"up", "starting", "stopping", "down"}
        /\ raced \in BOOLEAN /\ sweep \in BOOLEAN /\ torn \in BOOLEAN
        /\ todo \subseteq Listed(entries)
    BY DEF CardsTypeOK
  <1>1. ASSUME NEW s \in Scopes, Edit(s) \/ Run(s) PROVE LostInv'
    <2>1. up \in {"up", "stopping"} /\ UNCHANGED <<up, tried, lost>> /\ ~raced
      BY <1>1, RunStep DEF Working, sweepVars
    <2> QED
      BY <2>1 DEF LostInv
  <1>2. ASSUME NEW s \in Scopes, Visit(s) PROVE LostInv'
    <2>1. /\ UNCHANGED <<up, file, torn, raced, entries, lost>>
          /\ s \in todo /\ todo' = todo \ {s} /\ tried' = tried \cup {<<s, entries[s]>>}
      BY <1>2 DEF Visit, fileVars
    <2>2. Pending \subseteq Pending' \cup {<<s, entries[s]>>}
      BY <2>1 DEF Pending
    <2>3. UNCHANGED FileCards
      BY <2>1 DEF FileCards, Listed
    <2> QED
      BY <2>1, <2>2, <2>3 DEF LostInv
  <1>3. ASSUME Crash \/ Exit PROVE LostInv'
    <2>1. /\ Die /\ up # "down" /\ up' = "down" /\ UNCHANGED <<file, torn, raced, tried>>
      BY <1>3 DEF Crash, Exit, Die, fileVars
    <2>2. UNCHANGED FileCards
      BY <2>1 DEF FileCards, Listed
    <2>3. CASE up = "up" /\ ~torn
      <3>1. lost \subseteq tried
            /\ lost' = lost \cup {<<s, made[s]>> : s \in {s \in Scopes : stage[s] = "running"}}
        BY <2>1, <2>3 DEF LostInv, Die
      <3>2. \A s \in Scopes : stage[s] = "running" => file[s] = made[s] /\ file[s] # 0
        BY <2>1, <2>3 DEF FileInv, UpInv, AtWork
      <3>3. \A s \in Scopes : stage[s] = "running" => <<s, made[s]>> \in FileCards
        BY <3>2 DEF FileCards, Listed
      <3>4. lost' \subseteq tried \cup FileCards
        BY <3>1, <3>3
      <3> QED
        BY <2>1, <2>2, <2>3, <3>4 DEF LostInv
    <2>4. CASE up = "starting"
      <3>1. lost' = lost /\ ~torn /\ lost \subseteq tried \cup Pending /\ entries = file
        BY <2>1, <2>4 DEF LostInv, Die
      <3>2. Pending \subseteq FileCards
        BY <1>0, <3>1 DEF Pending, FileCards
      <3> QED
        BY <2>1, <2>2, <3>1, <3>2 DEF LostInv
    <2>5. CASE up = "stopping" \/ (up = "up" /\ torn)
      <3>1. lost' = lost /\ lost \subseteq tried
        BY <2>1, <2>5 DEF LostInv, Die
      <3> QED
        BY <2>1, <3>1 DEF LostInv
    <2> QED
      BY <1>0, <2>1, <2>3, <2>4, <2>5
  <1>4. ASSUME Signal PROVE LostInv'
    BY <1>4 DEF Signal, LostInv, fileVars, sweepVars
  <1>5. ASSUME Start PROVE LostInv'
    <2>1. ~raced /\ ~sweep /\ up = "down" /\ UNCHANGED <<raced, tried, lost>>
      BY <1>0, <1>5 DEF Start, ReadEntries, UpInv, fileVars, sweepVars
    <2>2. CASE torn \/ Listed(file) = {}
      <3>1. up' = "up"
        BY <1>0, <1>5, <2>1, <2>2 DEF Start, ReadEntries, sweepVars
      <3>2. lost \subseteq tried
        BY <2>1, <2>2 DEF LostInv, FileCards
      <3> QED
        BY <2>1, <3>1, <3>2 DEF LostInv
    <2>3. CASE ~torn /\ Listed(file) # {}
      <3>1. /\ up' = "starting" /\ entries' = file /\ todo' = Listed(file)
            /\ file' = file /\ torn' = torn
        BY <1>5, <2>1, <2>3 DEF Start, ReadEntries, fileVars
      <3>2. Pending' = FileCards
        BY <3>1 DEF Pending, FileCards
      <3>3. lost \subseteq tried \cup FileCards
        BY <2>1 DEF LostInv
      <3> QED
        BY <2>1, <2>3, <3>1, <3>2, <3>3 DEF LostInv
    <2> QED
      BY <2>2, <2>3
  <1>6. ASSUME StopSweep PROVE LostInv'
    <2>1. up = "stopping" /\ up' = up /\ UNCHANGED <<raced, tried, lost>>
      BY <1>6 DEF StopSweep, ReadEntries, fileVars, sweepVars
    <2> QED
      BY <2>1 DEF LostInv
  <1>7. ASSUME SweepDone PROVE LostInv'
    <2>1. /\ sweep /\ todo = {} /\ up \in {"starting", "stopping"} /\ up' \in {"up", "stopping"}
          /\ UNCHANGED <<raced, tried, lost>>
      BY <1>7 DEF SweepDone, UpInv
    <2>2. Pending = {}
      BY <2>1 DEF Pending
    <2> QED
      BY <2>1, <2>2 DEF LostInv
  <1>8. CASE UNCHANGED cardsVars
    <2>1. UNCHANGED FileCards /\ UNCHANGED Pending
      BY <1>8 DEF cardsVars, fileVars, sweepVars, FileCards, Pending, Listed
    <2> QED
      BY <1>8, <2>1 DEF cardsVars, fileVars, sweepVars, LostInv
  <1> QED
    BY <1>1, <1>2, <1>3, <1>4, <1>5, <1>6, <1>7, <1>8 DEF CardsNext

------------------------------------------------------------------------------
LEMMA CardsInitInv == CardsInit => CardsInv
  <1> SUFFICES ASSUME CardsInit PROVE CardsInv
    OBVIOUS
  <1>1. CardsTypeOK
    <2>1. /\ made \in [Scopes -> 0..MaxCards] /\ view \in [Scopes -> [Scopes -> 0..MaxCards]]
          /\ file \in [Scopes -> 0..MaxCards] /\ entries \in [Scopes -> 0..MaxCards]
      BY CardsConstants DEF CardsInit
    <2>2. stops \in 0..MaxStops
      BY CardsConstants DEF CardsInit
    <2>3. /\ card \in [Scopes -> [Numbers -> {"none", "live", "final"}]]
          /\ pushed \in [Scopes -> [Numbers -> BOOLEAN]]
      BY DEF CardsInit
    <2>4. /\ todo \subseteq Listed(entries) /\ tried \subseteq Cards /\ lost \subseteq Cards
      BY DEF CardsInit
    <2> QED
      BY <2>1, <2>2, <2>3, <2>4 DEF CardsInit, CardsTypeOK
  <1>2. MadeInv
    BY CardsConstants DEF CardsInit, MadeInv
  <1>3. UpInv /\ FileInv /\ LostInv
    BY DEF CardsInit, UpInv, FileInv, LostInv, Editing, AtWork
  <1> QED
    BY <1>1, <1>2, <1>3 DEF CardsInv

\* The parts of the inductive invariant hold together.
THEOREM CardsInvariance == CardsSpec => []CardsInv
  <1>1. CardsInv /\ [CardsNext]_cardsVars => CardsInv'
    BY TypeStep, MadeInvStep, UpInvStep, FileInvStep, LostInvStep DEF CardsInv
  <1> QED
    BY CardsInitInv, <1>1, PTL DEF CardsSpec

\* Every reachable state is typed, whatever CleanupStaleCards met in the file.
THEOREM CardsTypeCorrect == CardsSpec => []CardsTypeOK
  <1>1. CardsInv => CardsTypeOK
    BY DEF CardsInv
  <1> QED
    BY CardsInvariance, <1>1, PTL

\* saveActiveCard and removeActiveCard keep the card of every run at work in
\* the file, unless two of them were at it at once.
THEOREM RunningIsListedHolds == CardsSpec => []RunningIsListed
  <1>1. CardsInv => RunningIsListed
    BY DEF CardsInv, FileInv, AtWork, RunningIsListed
  <1> QED
    BY CardsInvariance, <1>1, PTL

\* Whatever crashes and shutdowns cut short, before the bridge works again
\* CleanupStaleCards has tried the card of every run that a crash took.
THEOREM LostIsTriedHolds == CardsSpec => []LostIsTried
  <1>1. CardsInv => LostIsTried
    BY DEF CardsInv, LostInv, LostIsTried
  <1> QED
    BY CardsInvariance, <1>1, PTL

(***************************************************************************)
(* ProcRun: its types, CardTellsEnd and CardIsTranscript.  What the loop   *)
(* has received, followed by what is in the channel, only ever grows at    *)
(* its end: the goroutine appends the events of one line after the other,  *)
(* and its error last.                                                     *)
(***************************************************************************)

\* The lines the scanner has taken from the pipe, which holds the rest.
Taken == written - Len(pipe)
PipeInv ==
  /\ Len(pipe) <= written
  /\ \A i \in DOMAIN pipe : pipe[i] = Taken + i
  /\ \A t \in TooLong : Taken < t
  /\ reader \notin {"scan", "emit"} => GivesUp \/ (agent # "running" /\ pipe = << >>)

\* All that was sent.
Stream == got \o events

\* An event that was sent is of a line that was taken, the announced model or
\* the last error.
IsOf(s, e, n) == e.line \in 1..n /\ e \in ToSet(Translate(s, e.line))
FromLine(e) == IsOf(script, e, Taken)
FromElsewhere(e) ==
  \/ e = Announced /\ script.adapter = "kimi"
  \/ e = Failure /\ reader \in {"close", "over"} /\ ~quiet
Origin(e) == FromLine(e) \/ FromElsewhere(e)

\* The events of the lines are in their order, those of the last line that are
\* not sent yet come after them, and none is left out.
OrderInv ==
  /\ reader = "emit" <=> line # << >>
  /\ \A i \in DOMAIN Stream : Origin(Stream[i])
  /\ \A j \in DOMAIN line : FromLine(line[j])
  /\ \A i, j \in DOMAIN Stream :
       i < j /\ Announced \notin {Stream[i], Stream[j]} => Before(script, Stream[i], Stream[j])
  /\ \A i \in DOMAIN Stream, j \in DOMAIN line :
       Stream[i] # Announced => Before(script, Stream[i], line[j])
  /\ \A i, j \in DOMAIN line : i < j => Before(script, line[i], line[j])
WholeInv ==
  \A n \in 1..Taken : \A e \in ToSet(Translate(script, n)) : e \in ToSet(Stream) \/ e \in ToSet(line)

\* What the goroutine knows of the exit, and what it has sent about it.
ExitInv ==
  /\ reader \in {"exit", "cleanup", "report", "close", "over"} =>
       /\ agent # "running"
       /\ quiet => stopped \/ agent = "done"
       /\ ~quiet => agent = "failed"
  /\ reader = "report" => ~quiet
  /\ reader \in {"close", "over"} /\ ~quiet => Failure \in ToSet(Stream)
  /\ closed <=> reader = "over"
  /\ stopped <=> \E s \in Stoppers : stop[s] # "no"

\* What the card says of the end before the channel is closed.
EndInv ==
  /\ loop = "ended" => closed /\ events = << >>
  /\ loop # "ended" =>
       /\ runState.terminal \in {"running", "done", "error"}
       /\ runState.terminal = "done" => \E e \in ToSet(got) : e.type = "done"
       /\ Failure \in ToSet(got) => runState.terminal = "error"

\* The lines on the card are those that were said, in order.
Content(i) == runState.blocks[i].content
OnCard == UNION {ToSet(Content(i)) : i \in DOMAIN runState.blocks}
BlocksInv ==
  /\ OnCard = {e.line : e \in Said}
  /\ \A i, j \in DOMAIN runState.blocks : \A k \in DOMAIN Content(i), l \in DOMAIN Content(j) :
       i < j \/ (i = j /\ k < l) => Content(i)[k] < Content(j)[l]

ProcInv == ProcTypeOK /\ PipeInv /\ OrderInv /\ WholeInv /\ ExitInv /\ EndInv /\ BlocksInv
             /\ CardTellsEnd

------------------------------------------------------------------------------
\* A sequence, one element longer or shorter.
LEMMA Elements ==
  ASSUME NEW S, NEW s \in Seq(S)
  PROVE  \A i \in DOMAIN s : s[i] \in S
  OBVIOUS

LEMMA Appended ==
  ASSUME NEW S, NEW s \in Seq(S), NEW e \in S
  PROVE  /\ Append(s, e) \in Seq(S) /\ Len(Append(s, e)) = Len(s) + 1
         /\ DOMAIN Append(s, e) = 1..Len(s) + 1 /\ DOMAIN s = 1..Len(s)
         /\ \A i \in DOMAIN s : i \in DOMAIN Append(s, e) /\ Append(s, e)[i] = s[i]
         /\ Append(s, e)[Len(s) + 1] = e
         /\ \A i \in DOMAIN Append(s, e) : i \in DOMAIN s \/ i = Len(s) + 1
  BY AppendProperties

LEMMA Shortened ==
  ASSUME NEW S, NEW s \in Seq(S), s # << >>
  PROVE  /\ Tail(s) \in Seq(S) /\ Len(Tail(s)) = Len(s) - 1
         /\ 1 \in DOMAIN s /\ Head(s) = s[1] /\ Head(s) \in S
         /\ \A i \in DOMAIN Tail(s) : i # 0 /\ i + 1 \in DOMAIN s /\ i + 1 # 1
                                      /\ Tail(s)[i] = s[i + 1]
         /\ \A i \in DOMAIN s : i # 1 => i - 1 \in DOMAIN Tail(s)
  BY HeadTailProperties

LEMMA ScriptLines ==
  ASSUME script \in Scripts
  PROVE  /\ script.adapter \in {"claude", "kimi"}
         /\ script.lines \in Seq([kind : STRING, id : Nat])
         /\ Len(script.lines) \in Nat /\ DOMAIN script.lines = 1..Len(script.lines)
         /\ \A n \in 1..Len(script.lines) : script.lines[n].id \in Nat
  <1>1. /\ script.adapter \in {"claude", "kimi"}
        /\ script.lines \in Seq([kind : STRING, id : Nat])
    BY ProcRunAssumption
  <1> DEFINE L == script.lines
  <1>2. Len(L) \in Nat /\ DOMAIN L = 1..Len(L)
    BY <1>1, LenProperties
  <1>3. \A n \in DOMAIN L : L[n] \in [kind : STRING, id : Nat]
    BY <1>1, Elements
  <1> QED  BY <1>1, <1>2, <1>3

\* The events are what their constructors say.
LEMMA Constructors ==
  ASSUME NEW n \in 0..Len(script.lines) + 1
  PROVE  /\ EventText(n) \in Events /\ EventText(n).line = n /\ EventText(n).type = "text"
         /\ EventThinking(n) \in Events /\ EventThinking(n).line = n
         /\ EventThinking(n).type = "thinking"
         /\ EventUsage(n) \in Events /\ EventUsage(n).line = n /\ EventUsage(n).type = "usage"
         /\ EventDone(n, "normal") \in Events /\ EventDone(n, "normal").line = n
         /\ EventDone(n, "normal").type = "done"
         /\ EventSystem(n) \in Events /\ EventSystem(n).line = n
         /\ EventSystem(n).type = "system"
         /\ EventError(n, "failed") \in Events /\ EventError(n, "failed").line = n
         /\ EventError(n, "failed").type = "error"
  <1>1. EventText(n) \in Events /\ EventText(n).line = n /\ EventText(n).type = "text"
    BY DEF EventText, Event, Events, EventTypes
  <1>2. /\ EventThinking(n) \in Events /\ EventThinking(n).line = n
        /\ EventThinking(n).type = "thinking"
    BY DEF EventThinking, Event, Events, EventTypes
  <1>3. EventUsage(n) \in Events /\ EventUsage(n).line = n /\ EventUsage(n).type = "usage"
    BY DEF EventUsage, Event, Events, EventTypes
  <1>4. /\ EventDone(n, "normal") \in Events /\ EventDone(n, "normal").line = n
        /\ EventDone(n, "normal").type = "done"
    BY DEF EventDone, Event, Events, EventTypes
  <1>5. EventSystem(n) \in Events /\ EventSystem(n).line = n /\ EventSystem(n).type = "system"
    BY DEF EventSystem, Event, Events, EventTypes
  <1>6. /\ EventError(n, "failed") \in Events /\ EventError(n, "failed").line = n
        /\ EventError(n, "failed").type = "error"
    BY DEF EventError, Event, Events, EventTypes
  <1> QED  BY <1>1, <1>2, <1>3, <1>4, <1>5, <1>6

LEMMA ToolConstructors ==
  ASSUME NEW n \in 0..Len(script.lines) + 1, NEW id \in Nat
  PROVE  /\ EventToolUse(n, id) \in Events /\ EventToolUse(n, id).line = n
         /\ EventToolUse(n, id).type = "tool_use"
         /\ EventToolResult(n, id, FALSE) \in Events /\ EventToolResult(n, id, FALSE).line = n
         /\ EventToolResult(n, id, FALSE).type = "tool_result"
  <1>1. /\ EventToolUse(n, id) \in Events /\ EventToolUse(n, id).line = n
        /\ EventToolUse(n, id).type = "tool_use"
    BY DEF EventToolUse, Event, Events, EventTypes
  <1>2. /\ EventToolResult(n, id, FALSE) \in Events /\ EventToolResult(n, id, FALSE).line = n
        /\ EventToolResult(n, id, FALSE).type = "tool_result"
    BY DEF EventToolResult, Event, Events, EventTypes
  <1> QED  BY <1>1, <1>2

Speaks(e) == e.type \in {"text", "tool_use"}
LineOf(t, n) ==
  /\ t \in Seq(Events)
  /\ \A i \in DOMAIN t : t[i].line = n /\ t[i].type # "error"
  /\ \A i, j \in DOMAIN t : i # j => t[i] # t[j] /\ ~(Speaks(t[i]) /\ Speaks(t[j]))

LEMMA OneEvent ==
  ASSUME NEW n, NEW a \in Events, a.line = n, a.type # "error"
  PROVE  LineOf(<<a>>, n)
  <1>1. <<a>> \in Seq(Events) /\ DOMAIN <<a>> = {1} /\ <<a>>[1] = a
    OBVIOUS
  <1> QED  BY <1>1 DEF LineOf

LEMMA TwoEvents ==
  ASSUME NEW n, NEW a \in Events, NEW b \in Events, a.line = n, b.line = n,
         a.type # "error", b.type # "error", a # b, ~(Speaks(a) /\ Speaks(b))
  PROVE  LineOf(<<a, b>>, n)
  <1>1. /\ <<a, b>> \in Seq(Events) /\ DOMAIN <<a, b>> = {1, 2}
        /\ <<a, b>>[1] = a /\ <<a, b>>[2] = b
    OBVIOUS
  <1> QED  BY <1>1 DEF LineOf

\* A line becomes two events at most, which differ and of which one at most says
\* something.
LEMMA Translated ==
  ASSUME script \in Scripts, NEW n \in 1..Len(script.lines)
  PROVE  LineOf(Translate(script, n), n)
  <1> DEFINE l == script.lines[n]
             T == EventText(n)
             H == EventThinking(n)
             U == EventToolUse(n, l.id)
             R == EventToolResult(n, l.id, FALSE)
             G == EventUsage(n)
             D == EventDone(n, "normal")
             S == EventSystem(n)
  <1>1. n \in 0..Len(script.lines) + 1 /\ l.id \in Nat
    BY ScriptLines
  <1>2. Translate(script, n) \in {<<T>>, <<H, U>>, <<R>>, <<G, D>>, <<S>>, << >>}
    BY DEF Translate, translateClaudeLine, translateKimiLine
  <1>3. /\ {T, H, G, D, S} \subseteq Events
        /\ T.line = n /\ H.line = n /\ G.line = n /\ D.line = n /\ S.line = n
        /\ T.type = "text" /\ H.type = "thinking" /\ G.type = "usage" /\ D.type = "done"
        /\ S.type = "system"
    BY <1>1, Constructors
  <1>11. U \in Events /\ U.line = n /\ U.type = "tool_use"
    BY <1>1, ToolConstructors, Zenon
  <1>12. R \in Events /\ R.line = n /\ R.type = "tool_result"
    BY <1>1, ToolConstructors, Zenon
  <1> HIDE DEF T, H, U, R, G, D, S
  <1>4. LineOf(<<T>>, n)
    BY <1>3, OneEvent
  <1>5. LineOf(<<R>>, n)
    BY <1>12, OneEvent
  <1>6. LineOf(<<S>>, n)
    BY <1>3, OneEvent
  <1>7. ~Speaks(H) /\ ~Speaks(G) /\ H # U /\ G # D
    BY <1>3, <1>11 DEF Speaks
  <1>8. LineOf(<<H, U>>, n)
    BY <1>3, <1>7, <1>11, TwoEvents
  <1>9. LineOf(<<G, D>>, n)
    BY <1>3, <1>7, TwoEvents
  <1>10. LineOf(<< >>, n)
    BY DEF LineOf
  <1> QED  BY <1>2, <1>4, <1>5, <1>6, <1>8, <1>9, <1>10

LEMMA OtherEvents ==
  ASSUME script \in Scripts
  PROVE  /\ Failure \in Events /\ Announced \in Events
         /\ Failure.line = Len(script.lines) + 1 /\ Failure.type = "error"
         /\ Announced.line = 0 /\ Announced.type = "system"
         /\ Failure # Announced
  <1>1. 0 \in 0..Len(script.lines) + 1 /\ Len(script.lines) + 1 \in 0..Len(script.lines) + 1
        /\ Len(script.lines) + 1 # 0
    BY ScriptLines
  <1>2. /\ Failure \in Events /\ Announced \in Events
        /\ Failure.line = Len(script.lines) + 1 /\ Failure.type = "error"
        /\ Announced.line = 0 /\ Announced.type = "system"
    BY <1>1, Constructors DEF Failure, Announced
  <1> QED  BY <1>1, <1>2

\* What Reduce, Mark and the close of texts make of a card is one.
LEMMA ClosedBlocks ==
  ASSUME NEW b \in Seq(Blocks)
  PROVE  /\ closeStreamingText(b) \in Seq(Blocks) /\ Len(closeStreamingText(b)) = Len(b)
         /\ DOMAIN closeStreamingText(b) = DOMAIN b
         /\ \A i \in DOMAIN b : closeStreamingText(b)[i].content = b[i].content
  <1> DEFINE c(i) == [b[i] EXCEPT !.streaming = FALSE]
  <1>1. \A i \in DOMAIN b : b[i] \in Blocks
    BY Elements
  <1>2. \A i \in DOMAIN b : c(i) \in Blocks /\ c(i).content = b[i].content
    BY <1>1 DEF Blocks
  <1>3. DOMAIN b = 1..Len(b) /\ Len(b) \in Nat
    OBVIOUS
  <1>4. closeStreamingText(b) = [i \in 1..Len(b) |-> c(i)]
    BY <1>3 DEF closeStreamingText
  <1> HIDE DEF c
  <1>5. [i \in 1..Len(b) |-> c(i)] \in Seq(Blocks)
    BY <1>2, <1>3
  <1> QED  BY <1>2, <1>3, <1>4, <1>5

LEMMA PutBlocks ==
  ASSUME NEW b \in Seq(Blocks), NEW id, NEW status \in {"error", "done"}
  PROVE  /\ PutResult(b, id, status) \in Seq(Blocks)
         /\ DOMAIN PutResult(b, id, status) = DOMAIN b
         /\ \A i \in DOMAIN b : PutResult(b, id, status)[i].content = b[i].content
  <1> DEFINE c(i) == IF b[i].kind = "tool" /\ b[i].id = id
                      THEN [b[i] EXCEPT !.status = status] ELSE b[i]
  <1>1. \A i \in DOMAIN b : b[i] \in Blocks
    BY Elements
  <1>2. \A i \in DOMAIN b : c(i) \in Blocks /\ c(i).content = b[i].content
    BY <1>1 DEF Blocks
  <1>3. DOMAIN b = 1..Len(b) /\ Len(b) \in Nat
    OBVIOUS
  <1>4. PutResult(b, id, status) = [i \in 1..Len(b) |-> c(i)]
    BY <1>3 DEF PutResult
  <1> HIDE DEF c
  <1>5. [i \in 1..Len(b) |-> c(i)] \in Seq(Blocks)
    BY <1>2, <1>3
  <1> QED  BY <1>2, <1>3, <1>4, <1>5

LEMMA NewBlocks ==
  ASSUME NEW n \in Nat, NEW id \in Nat
  PROVE  /\ TextBlock(n) \in Blocks /\ TextBlock(n).content = <<n>>
         /\ ToolBlock(n, id) \in Blocks /\ ToolBlock(n, id).content = <<n>>
  BY DEF TextBlock, ToolBlock, Blocks

LEMMA AddedText ==
  ASSUME NEW b \in Seq(Blocks), NEW n \in Nat
  PROVE  AddText(b, n) \in Seq(Blocks)
  <1>1. CASE Len(b) > 0 /\ b[Len(b)].streaming
    <2>1. Len(b) \in DOMAIN b
      BY <1>1
    <2>5. b[Len(b)] \in Blocks
      BY <2>1, Elements
    <2>6. b[Len(b)].content \in Seq(Nat)
      BY <2>5 DEF Blocks
    <2>2. Append(b[Len(b)].content, n) \in Seq(Nat)
      BY <2>6
    <2>3. [b[Len(b)] EXCEPT !.content = Append(b[Len(b)].content, n)] \in Blocks
      BY <2>2, <2>5 DEF Blocks
    <2>4. AddText(b, n) =
            [b EXCEPT ![Len(b)] = [b[Len(b)] EXCEPT !.content = Append(b[Len(b)].content, n)]]
      BY <1>1 DEF AddText
    <2> QED  BY <2>1, <2>3, <2>4
  <1>2. CASE ~(Len(b) > 0 /\ b[Len(b)].streaming)
    <2>1. AddText(b, n) = Append(b, TextBlock(n))
      BY <1>2 DEF AddText
    <2>2. TextBlock(n) \in Blocks
      BY DEF TextBlock, Blocks
    <2> QED  BY <2>1, <2>2
  <1> QED  BY <1>1, <1>2

LEMMA Marked ==
  ASSUME NEW s \in RunStates, NEW t \in {"done", "interrupted", "idle_timeout"}
  PROVE  Mark(s, t) \in RunStates /\ Mark(s, t).terminal = t
         /\ Mark(s, t).blocks = closeStreamingText(s.blocks)
  <1>1. closeStreamingText(s.blocks) \in Seq(Blocks)
    BY ClosedBlocks DEF RunStates
  <1> QED  BY <1>1 DEF Mark, RunStates

LEMMA Reduced ==
  ASSUME NEW s \in RunStates, script \in Scripts, NEW e \in Events
  PROVE  /\ Reduce(s, e) \in RunStates
         /\ Reduce(s, e).terminal = CASE e.type = "error" -> "error"
                                      [] e.type = "done" -> "done"
                                      [] OTHER -> s.terminal
         /\ Reduce(s, e).blocks =
              CASE e.type = "text" -> AddText(s.blocks, e.line)
                [] e.type = "tool_use" ->
                     Append(closeStreamingText(s.blocks), ToolBlock(e.line, e.id))
                [] e.type = "tool_result" ->
                     PutResult(s.blocks, e.id, IF e.failed THEN "error" ELSE "done")
                [] e.type = "done" -> closeStreamingText(s.blocks)
                [] OTHER -> s.blocks
  <1>1. /\ s.blocks \in Seq(Blocks) /\ e.line \in Nat /\ e.id \in Nat
        /\ e.reason \notin {"interrupted", "timeout"}
    BY ScriptLines DEF RunStates, Events
  <1>2. /\ AddText(s.blocks, e.line) \in Seq(Blocks)
        /\ closeStreamingText(s.blocks) \in Seq(Blocks)
        /\ ToolBlock(e.line, e.id) \in Blocks
    BY <1>1, AddedText, ClosedBlocks, NewBlocks
  <1>3. Append(closeStreamingText(s.blocks), ToolBlock(e.line, e.id)) \in Seq(Blocks)
    BY <1>2
  <1>4. \A status \in {"error", "done"} : PutResult(s.blocks, e.id, status) \in Seq(Blocks)
    BY <1>1, PutBlocks
  <1>5. Terminal(e.reason, "error") = "error" /\ Terminal(e.reason, "done") = "done"
    BY <1>1 DEF Terminal
  <1>6. CASE e.type = "text"
    BY <1>2, <1>6 DEF Reduce, ReduceText, RunStates
  <1>7. CASE e.type = "thinking"
    BY <1>7 DEF Reduce, ReduceThinking, RunStates
  <1>8. CASE e.type = "tool_use"
    BY <1>3, <1>8 DEF Reduce, ReduceToolUse, RunStates
  <1>9. CASE e.type = "tool_result"
    BY <1>4, <1>9 DEF Reduce, ReduceToolResult, RunStates
  <1>10. CASE e.type = "error"
    BY <1>5, <1>10 DEF Reduce, ReduceError, RunStates
  <1>11. CASE e.type = "done"
    BY <1>2, <1>5, <1>11 DEF Reduce, ReduceDone, RunStates
  <1>12. CASE e.type \notin {"text", "thinking", "tool_use", "tool_result", "error", "done"}
    BY <1>12 DEF Reduce
  <1> QED  BY <1>6, <1>7, <1>8, <1>9, <1>10, <1>11, <1>12

LEMMA SameEvents == script' = script => Events' = Events
  BY DEF Events

\* What an action of Stop's callers leaves of the types.
LEMMA StopTypes ==
  ASSUME ProcTypeOK, NEW s \in Stoppers, NEW p \in {"no", "grace", "killed", "returned"},
         StopAt(s, p)
  PROVE  stop' \in [Stoppers -> {"no", "grace", "killed", "returned"}]
  BY DEF ProcTypeOK, StopAt

LEMMA AgentTypes ==
  ASSUME ProcTypeOK, Agent
  PROVE  ProcTypeOK'
  <1>1. CASE WriteLine
    <2>1. Len(script.lines) \in Nat /\ script' = script
      BY <1>1, ScriptLines DEF ProcTypeOK, WriteLine
    <2>2. written \in Nat /\ written + 1 \in 0..Len(script.lines) /\ written' = written + 1
      BY <1>1, <2>1 DEF ProcTypeOK, WriteLine
    <2>3. pipe \in Seq(1..Len(script.lines)) /\ written + 1 \in 1..Len(script.lines)
      BY <1>1, <2>1, <2>2 DEF ProcTypeOK
    <2>4. pipe' \in Seq(1..Len(script.lines)) /\ Len(pipe') = Len(pipe) + 1
      BY <1>1, <2>3, Appended DEF WriteLine
    <2>5. Len(pipe') <= Capacity
      <3>1. Len(pipe) \in Nat /\ Len(pipe) < Capacity /\ Capacity \in Nat
        BY <1>1, <2>3, ProcRunAssumption DEF WriteLine
      <3> QED  BY <2>4, <3>1
    <2>6. UNCHANGED <<script, agent, signals, held, readerVars, events, startVars, loopVars, stopVars>>
      BY <1>1 DEF WriteLine
    <2> QED
      BY <2>1, <2>2, <2>4, <2>5, <2>6,
         SameEvents DEF ProcTypeOK, readerVars, startVars, loopVars, stopVars
  <1>2. CASE \E how \in {"done", "failed"} : Ends(how)
    BY <1>2, SameEvents DEF Ends, ProcTypeOK, readerVars, startVars, loopVars, stopVars
  <1> QED  BY <1>1, <1>2 DEF Agent, EndWell, EndBadly, DieOfSignal, BeKilled

\* What a step of the goroutine may change.
LEMMA ReaderTypes ==
  ASSUME ProcTypeOK, reader = "emit" => line # << >>, Reader
  PROVE  ProcTypeOK'
  <1> USE DEF procVars, readerVars, startVars, loopVars, stopVars
  <1>0. /\ line \in Seq(Events) /\ events \in Seq(Events) /\ got \in Seq(Events)
        /\ pipe \in Seq(1..Len(script.lines)) /\ script \in Scripts /\ Capacity \in Nat
        /\ Len(events) \in Nat /\ Len(pipe) \in Nat /\ written \in 0..Len(script.lines)
    BY ProcRunAssumption, SameEvents DEF ProcTypeOK
  <1>1. CASE Scan
    <2>1. /\ Tail(pipe) \in Seq(1..Len(script.lines)) /\ Head(pipe) \in 1..Len(script.lines)
          /\ Len(Tail(pipe)) = Len(pipe) - 1
      BY <1>0, <1>1, Shortened DEF Scan
    <2>3. Translate(script, Head(pipe)) \in Seq(Events)
      BY <1>0, <2>1, Translated DEF LineOf
    <2> QED  BY <1>0, <1>1, <2>1, <2>3, SameEvents DEF Scan, Step, ProcTypeOK
  <1>2. CASE Emit
    <2>1. Tail(line) \in Seq(Events) /\ Head(line) \in Events
      BY <1>0, <1>2, Shortened DEF Emit, Sent
    <2>2. events' \in Seq(Events) /\ Len(events') = Len(events) + 1
      BY <1>0, <1>2, <2>1, Appended DEF Emit
    <2> QED  BY <1>0, <1>2, <2>1, <2>2, SameEvents DEF Emit, Sent, QuietReader, Step, ProcTypeOK
  <1>3. CASE ScanEnds
    BY <1>3, SameEvents DEF ScanEnds, QuietReader, Step, ProcTypeOK
  <1>4. CASE Wait
    BY <1>4, SameEvents DEF Wait, QuietReader, Step, ProcTypeOK
  <1>5. CASE CloseExited
    BY <1>5, SameEvents DEF CloseExited, QuietReader, Step, ProcTypeOK
  <1>6. CASE RunCleanups
    BY <1>6, SameEvents DEF RunCleanups, Step, ProcTypeOK
  <1>7. CASE Report
    <2>1. events' \in Seq(Events) /\ Len(events') = Len(events) + 1
      BY <1>0, <1>7, OtherEvents, Appended DEF Report
    <2> QED  BY <1>0, <1>7, <2>1, SameEvents DEF Report, QuietReader, Step, ProcTypeOK
  <1>8. CASE CloseEvents
    BY <1>8, SameEvents DEF CloseEvents, QuietReader, Step, ProcTypeOK
  <1> QED  BY <1>1, <1>2, <1>3, <1>4, <1>5, <1>6, <1>7, <1>8 DEF Reader

LEMMA StartTypes ==
  ASSUME ProcTypeOK, OnCleanup \/ AppendCleanup \/ SendModel
  PROVE  ProcTypeOK'
  <1> USE DEF procVars, readerVars, loopVars, stopVars
  <1>1. CASE OnCleanup \/ AppendCleanup
    BY <1>1, SameEvents DEF OnCleanup, AppendCleanup, Registers, ProcTypeOK
  <1>2. CASE SendModel
    <2>1. /\ events \in Seq(Events) /\ Announced \in Events /\ Capacity \in Nat
          /\ Len(events) \in Nat
      BY OtherEvents, ProcRunAssumption DEF ProcTypeOK
    <2>2. events' \in Seq(Events) /\ Len(events') <= Capacity
      <3>1. CASE ~closed /\ Len(events) < Capacity
        <4>1. events' = Append(events, Announced)
          BY <1>2, <3>1 DEF SendModel
        <4>2. events' \in Seq(Events) /\ Len(events') = Len(events) + 1
          BY <2>1, <4>1, Appended
        <4> QED  BY <2>1, <3>1, <4>2
      <3>2. CASE ~(~closed /\ Len(events) < Capacity)
        BY <1>2, <2>1, <3>2 DEF SendModel, ProcTypeOK
      <3> QED  BY <3>1, <3>2
    <2> QED  BY <1>2, <2>2, SameEvents DEF SendModel, ProcTypeOK
  <1> QED  BY <1>1, <1>2

LEMMA LoopTypes ==
  ASSUME ProcTypeOK, StopByCommand \/ Stopping \/ RunLoop \/ Watchdog
  PROVE  ProcTypeOK'
  <1> USE DEF procVars, readerVars, startVars
  <1>1. CASE StopByCommand
    BY <1>1, StopTypes, SameEvents DEF StopByCommand, CallStop, ProcTypeOK, Stoppers
  <1>2. CASE Stopping
    <2>1. PICK s \in Stoppers : StopReturns(s) \/ Kill(s)
      BY <1>2 DEF Stopping
    <2>2. stop' \in [Stoppers -> {"no", "grace", "killed", "returned"}]
      BY <2>1, StopTypes DEF StopReturns, Kill
    <2>3. CASE StopReturns(s)
      BY <2>2, <2>3, SameEvents DEF StopReturns, ProcTypeOK, loopVars
    <2>4. CASE Kill(s)
      BY <2>2, <2>4, SameEvents DEF Kill, ProcTypeOK, loopVars
    <2> QED  BY <2>1, <2>3, <2>4
  <1>3. CASE CardStarts
    BY <1>3, SameEvents DEF CardStarts, ProcTypeOK, stopVars
  <1>4. CASE CardFails
    BY <1>4, StopTypes, SameEvents DEF CardFails, CallStop, ProcTypeOK, Stoppers
  <1>5. CASE Receive
    <2>1. /\ events \in Seq(Events) /\ got \in Seq(Events) /\ Len(events) \in Nat
          /\ Len(events) <= Capacity /\ Capacity \in Nat /\ script \in Scripts
          /\ runState \in RunStates
      BY ProcRunAssumption DEF ProcTypeOK
    <2>2. /\ Head(events) \in Events /\ Tail(events) \in Seq(Events)
          /\ Len(Tail(events)) = Len(events) - 1
      BY <1>5, <2>1, Shortened DEF Receive
    <2>3. got' \in Seq(Events) /\ events' \in Seq(Events) /\ Len(events') <= Capacity
      <3>1. got' \in Seq(Events)
        BY <1>5, <2>1, <2>2, Appended DEF Receive
      <3>2. events' = Tail(events)
        BY <1>5 DEF Receive
      <3> QED  BY <2>1, <2>2, <3>1, <3>2
    <2>4. runState' \in RunStates
      BY <1>5, <2>1, <2>2, Reduced DEF Receive
    <2> QED  BY <1>5, <2>3, <2>4, SameEvents DEF Receive, ProcTypeOK, stopVars
  <1>6. CASE SeesClose
    <2>1. Finalized \in RunStates
      BY Marked DEF Finalized, FinalizeIfRunning, ProcTypeOK
    <2> QED  BY <1>6, <2>1, SameEvents DEF SeesClose, ProcTypeOK, stopVars
  <1>7. CASE LoopGoesOn
    BY <1>7, SameEvents DEF LoopGoesOn, ProcTypeOK, stopVars
  <1>8. CASE Watchdog
    BY <1>8, StopTypes, SameEvents DEF Watchdog, CallStop, ProcTypeOK, Stoppers
  <1> QED  BY <1>1, <1>2, <1>3, <1>4, <1>5, <1>6, <1>7, <1>8 DEF RunLoop

LEMMA ProcTypeStep ==
  ASSUME ProcTypeOK, reader = "emit" => line # << >>, [ProcNext]_procRunVars
  PROVE  ProcTypeOK'
  <1>1. CASE UNCHANGED procRunVars
    BY <1>1, SameEvents DEF ProcTypeOK, procRunVars, procVars, readerVars, startVars, loopVars, stopVars, Events
  <1> QED  BY <1>1, AgentTypes, ReaderTypes, StartTypes, LoopTypes DEF ProcNext

------------------------------------------------------------------------------
\* What the scanner took, and why it stopped.
LEMMA PipeStep ==
  ASSUME ProcTypeOK, PipeInv, OrderInv, [ProcNext]_procRunVars
  PROVE  PipeInv'
  <1>0. /\ pipe \in Seq(1..Len(script.lines)) /\ Len(pipe) \in Nat /\ written \in Nat
        /\ DOMAIN pipe = 1..Len(pipe) /\ \A t \in TooLong : t \in Nat
    <2>1. pipe \in Seq(1..Len(script.lines)) /\ written \in Nat
      BY ScriptLines DEF ProcTypeOK
    <2> HIDE DEF ProcTypeOK
    <2>2. Len(pipe) \in Nat /\ DOMAIN pipe = 1..Len(pipe)
      BY <2>1, LenProperties
    <2> QED  BY <2>1, <2>2, ProcRunAssumption
  <1>1. CASE WriteLine
    <2>1. written + 1 \in 1..Len(script.lines)
      BY <1>0, <1>1, ScriptLines DEF WriteLine, ProcTypeOK
    <2>2. /\ pipe' = Append(pipe, written + 1) /\ written' = written + 1
          /\ agent = "running" /\ reader' = reader
      BY <1>1 DEF WriteLine, readerVars
    <2>3. /\ Len(pipe') = Len(pipe) + 1 /\ DOMAIN pipe' = 1..Len(pipe) + 1
          /\ \A i \in DOMAIN pipe : i \in DOMAIN pipe' /\ pipe'[i] = pipe[i]
          /\ pipe'[Len(pipe) + 1] = written + 1
      BY <1>0, <2>1, <2>2, Appended
    <2>4. Taken' = Taken
      BY <1>0, <2>2, <2>3 DEF Taken
    <2>5. \A i \in DOMAIN pipe' : pipe'[i] = Taken + i
      <3> SUFFICES ASSUME NEW i \in DOMAIN pipe' PROVE pipe'[i] = Taken + i
        OBVIOUS
      <3>1. CASE i \in DOMAIN pipe
        BY <2>3, <3>1 DEF PipeInv
      <3>2. CASE i = Len(pipe) + 1
        BY <1>0, <2>3, <3>2 DEF Taken, PipeInv
      <3> QED  BY <1>0, <2>3, <3>1, <3>2
    <2>6. GivesUp => GivesUp'
      <3> SUFFICES ASSUME GivesUp PROVE GivesUp'
        OBVIOUS
      <3>1. 1 \in DOMAIN pipe /\ Head(pipe) = pipe[1] /\ pipe[1] \in TooLong
        BY <1>0, Shortened DEF GivesUp
      <3>2. pipe' # << >> /\ pipe'[1] \in TooLong /\ pipe' \in Seq(1..Len(script.lines))
        BY <1>0, <2>1, <2>2, <2>3, <3>1
      <3> QED  BY <3>2, Shortened DEF GivesUp
    <2>7. reader' \notin {"scan", "emit"} => GivesUp'
      BY <2>2, <2>6 DEF PipeInv
    <2>8. Len(pipe') <= written'
      BY <1>0, <2>2, <2>3 DEF PipeInv
    <2> QED  BY <2>4, <2>5, <2>7, <2>8 DEF PipeInv
  <1>2. CASE Scan
    <2>1. /\ pipe # << >> /\ Head(pipe) \notin TooLong /\ pipe' = Tail(pipe)
          /\ written' = written /\ reader' \in {"scan", "emit"}
      BY <1>2 DEF Scan, Step
    <2>2. /\ pipe' \in Seq(1..Len(script.lines)) /\ Len(pipe') = Len(pipe) - 1
          /\ 1 \in DOMAIN pipe /\ Head(pipe) = pipe[1]
          /\ \A i \in DOMAIN pipe' : i + 1 \in DOMAIN pipe /\ pipe'[i] = pipe[i + 1]
      BY <1>0, <2>1, Shortened
    <2>3. Taken' = Taken + 1 /\ Taken \in Nat
      BY <1>0, <2>1, <2>2 DEF Taken, PipeInv
    <2>4. \A t \in TooLong : Taken + 1 < t
      <3> SUFFICES ASSUME NEW t \in TooLong PROVE Taken + 1 < t
        OBVIOUS
      <3>1. Taken < t /\ pipe[1] = Taken + 1 /\ pipe[1] # t
        BY <2>1, <2>2 DEF PipeInv
      <3> QED  BY <1>0, <2>3, <3>1
    <2>5. \A i \in DOMAIN pipe' : pipe'[i] = Taken' + i
      <3> SUFFICES ASSUME NEW i \in DOMAIN pipe' PROVE pipe'[i] = Taken' + i
        OBVIOUS
      <3>1. i \in Nat /\ pipe'[i] = Taken + (i + 1)
        BY <2>2 DEF PipeInv
      <3> QED  BY <2>3, <3>1
    <2> QED  BY <1>0, <2>1, <2>2, <2>3, <2>4, <2>5 DEF PipeInv
  <1>3. CASE ScanEnds
    <2>1. UNCHANGED <<written, pipe, agent>> /\ (GivesUp \/ (agent # "running" /\ pipe = << >>))
      BY <1>3 DEF ScanEnds, EndOfFile, QuietReader, procVars
    <2> QED  BY <2>1 DEF PipeInv, Taken, GivesUp
  <1>4. CASE UNCHANGED <<written, pipe>> /\ (agent' = agent \/ agent' # "running")
              /\ (reader \in {"scan", "emit"} => reader' \in {"scan", "emit"})
    BY <1>4 DEF PipeInv, Taken, GivesUp
  <1>5. ASSUME ProcNext, ~WriteLine, ~Scan, ~ScanEnds
        PROVE  UNCHANGED <<written, pipe>> /\ (agent' = agent \/ agent' # "running")
                 /\ (reader \in {"scan", "emit"} => reader' \in {"scan", "emit"})
    <2> USE DEF procVars, readerVars
    <2>1. CASE Agent
      BY <1>5, <2>1 DEF Agent, Ends, EndWell, EndBadly, DieOfSignal, BeKilled
    <2>2. CASE Reader
      BY <1>5, <2>2 DEF Reader, Emit, Sent, Wait, CloseExited, RunCleanups, Report,
                        CloseEvents, QuietReader, Step
    <2>3. CASE OnCleanup \/ AppendCleanup \/ SendModel
      BY <2>3 DEF OnCleanup, AppendCleanup, SendModel, Registers
    <2>4. CASE StopByCommand \/ Watchdog \/ Stopping
      BY <2>4 DEF StopByCommand, Watchdog, CallStop, Stopping, StopReturns, Kill
    <2>5. CASE RunLoop
      BY <2>5 DEF RunLoop, CardStarts, CardFails, CallStop, Receive, SeesClose, LoopGoesOn
    <2> QED  BY <1>5, <2>1, <2>2, <2>3, <2>4, <2>5 DEF ProcNext
  <1>6. CASE UNCHANGED procRunVars
    BY <1>4, <1>6 DEF procRunVars, procVars, readerVars
  <1> QED  BY <1>1, <1>2, <1>3, <1>4, <1>5, <1>6

LEMMA ScriptStays == ProcNext => script' = script
  <1> SUFFICES ASSUME ProcNext PROVE script' = script
    OBVIOUS
  <1> USE DEF procVars
  <1>1. CASE Agent
    BY <1>1 DEF Agent, WriteLine, Ends, EndWell, EndBadly, DieOfSignal, BeKilled
  <1>2. CASE Reader
    BY <1>2 DEF Reader, Scan, Emit, Sent, ScanEnds, Wait, CloseExited, RunCleanups, Report,
                CloseEvents, QuietReader
  <1>3. CASE OnCleanup \/ AppendCleanup \/ SendModel
    BY <1>3 DEF OnCleanup, AppendCleanup, SendModel, Registers
  <1>4. CASE StopByCommand \/ Watchdog \/ Stopping
    BY <1>4 DEF StopByCommand, Watchdog, CallStop, Stopping, StopReturns, Kill
  <1>5. CASE RunLoop
    BY <1>5 DEF RunLoop, CardStarts, CardFails, CallStop, Receive, SeesClose, LoopGoesOn
  <1> QED  BY <1>1, <1>2, <1>3, <1>4, <1>5 DEF ProcNext

\* What was sent grows at its end, or not at all.
LEMMA StreamTypes ==
  ASSUME ProcTypeOK
  PROVE  /\ Stream \in Seq(Events) /\ line \in Seq(Events)
         /\ got \in Seq(Events) /\ events \in Seq(Events)
  BY DEF ProcTypeOK, Stream

LEMMA StreamReceive ==
  ASSUME ProcTypeOK, Receive
  PROVE  Stream' = Stream
  <1> DEFINE g == got
             c == events
  <1>1. g \in Seq(Events) /\ c \in Seq(Events) /\ c # << >>
    BY DEF ProcTypeOK, Receive
  <1>2. got' = Append(g, Head(c)) /\ events' = Tail(c)
    BY DEF Receive
  <1> HIDE DEF g, c
  <1>3. Append(g, Head(c)) \o Tail(c) = g \o c
    BY <1>1
  <1> QED  BY <1>2, <1>3 DEF Stream, g, c

LEMMA StreamAppend ==
  ASSUME ProcTypeOK, NEW e \in Events, events' = Append(events, e), got' = got
  PROVE  Stream' = Append(Stream, e)
  <1> DEFINE g == got
             c == events
  <1>1. g \in Seq(Events) /\ c \in Seq(Events)
    BY DEF ProcTypeOK
  <1>2. got' = g /\ events' = Append(c, e)
    OBVIOUS
  <1> HIDE DEF g, c
  <1>3. g \o Append(c, e) = Append(g \o c, e)
    BY <1>1
  <1> QED  BY <1>2, <1>3 DEF Stream, g, c

\* A step of anybody else leaves the stream and the lines on their way alone.
Aside ==
  /\ UNCHANGED <<script, got, events, line, quiet>> /\ Taken' = Taken
  /\ reader' = "emit" <=> reader = "emit"
  /\ reader \in {"close", "over"} => reader' \in {"close", "over"}

LEMMA OthersAside ==
  ASSUME ProcTypeOK, PipeInv, [ProcNext]_procRunVars, ~Scan, ~Emit, ~Report, ~SendModel, ~Receive
  PROVE  Aside \/ (Wait /\ UNCHANGED <<script, got, events, line>> /\ Taken' = Taken)
  <1> USE DEF procVars, readerVars, startVars, loopVars, stopVars
  <1>1. CASE WriteLine
    <2>1. Taken' = Taken
      <3>1. pipe \in Seq(1..Len(script.lines)) /\ written \in Nat /\ written + 1 \in 1..Len(script.lines)
        BY <1>1, ScriptLines DEF ProcTypeOK, WriteLine
      <3>2. Len(pipe') = Len(pipe) + 1 /\ written' = written + 1 /\ Len(pipe) \in Nat
        BY <1>1, <3>1, Appended DEF WriteLine
      <3> QED  BY <3>1, <3>2 DEF Taken
    <2> QED  BY <1>1, <2>1 DEF WriteLine, Aside
  <1>2. CASE \E how \in {"done", "failed"} : Ends(how)
    BY <1>2 DEF Ends, Aside, Taken
  <1>3. CASE ScanEnds
    BY <1>3 DEF ScanEnds, QuietReader, Step, Aside, Taken
  <1>4. CASE Wait
    BY <1>4 DEF Wait, QuietReader, Step, Taken
  <1>5. CASE CloseExited \/ CloseEvents
    BY <1>5 DEF CloseExited, CloseEvents, QuietReader, Step, Aside, Taken
  <1>6. CASE RunCleanups
    BY <1>6 DEF RunCleanups, Step, Aside, Taken
  <1>7. CASE OnCleanup \/ AppendCleanup
    BY <1>7 DEF OnCleanup, AppendCleanup, Registers, Aside, Taken
  <1>8. CASE StopByCommand \/ Watchdog
    BY <1>8 DEF StopByCommand, Watchdog, CallStop, Aside, Taken
  <1>9. CASE Stopping
    BY <1>9 DEF Stopping, StopReturns, Kill, Aside, Taken
  <1>10. CASE CardStarts \/ CardFails \/ SeesClose \/ LoopGoesOn
    BY <1>10 DEF CardStarts, CardFails, CallStop, SeesClose, LoopGoesOn, Aside, Taken
  <1>11. CASE UNCHANGED procRunVars
    BY <1>11 DEF procRunVars, Aside, Taken
  <1> QED
    BY <1>1, <1>2, <1>3, <1>4, <1>5, <1>6, <1>7, <1>8, <1>9, <1>10, <1>11
       DEF ProcNext, Agent, EndWell, EndBadly, DieOfSignal, BeKilled, Reader, RunLoop

LEMMA TakenTypes ==
  ASSUME ProcTypeOK, PipeInv
  PROVE  Taken \in 0..Len(script.lines) /\ Len(script.lines) \in Nat
  <1> DEFINE L == script.lines
             p == pipe
  <1>1. p \in Seq(1..Len(L)) /\ written \in 0..Len(L) /\ Len(L) \in Nat /\ Len(p) <= written
    BY ScriptLines DEF ProcTypeOK, PipeInv
  <1> HIDE DEF L, p
  <1>2. Len(p) \in Nat
    BY <1>1
  <1>3. written - Len(p) \in 0..Len(L)
    BY <1>1, <1>2
  <1> QED  BY <1>1, <1>3 DEF Taken, L, p

\* What comes of no line is none of a line.
LEMMA Elsewhere ==
  ASSUME ProcTypeOK, PipeInv
  PROVE  /\ ~FromLine(Failure) /\ ~FromLine(Announced) /\ Failure # Announced
         /\ \A e : FromLine(e) => e \in Events /\ e.line \in 1..Len(script.lines)
                                  /\ e.line < Failure.line /\ e.type # "error"
                                  /\ Before(script, e, Failure) /\ ~Before(script, Failure, e)
  <1>1. /\ Failure.line = Len(script.lines) + 1 /\ Announced.line = 0 /\ Failure # Announced
        /\ Taken \in 0..Len(script.lines) /\ Len(script.lines) \in Nat /\ script \in Scripts
    BY OtherEvents, TakenTypes DEF ProcTypeOK
  <1>2. ~FromLine(Failure) /\ ~FromLine(Announced)
    BY <1>1 DEF FromLine, IsOf
  <1>3. ASSUME NEW e, FromLine(e)
        PROVE  /\ e \in Events /\ e.line \in 1..Len(script.lines)
               /\ e.line < Failure.line /\ e.type # "error"
               /\ Before(script, e, Failure) /\ ~Before(script, Failure, e)
    <2>1. e.line \in 1..Len(script.lines) /\ e \in ToSet(Translate(script, e.line))
      BY <1>1, <1>3 DEF FromLine, IsOf
    <2>2. LineOf(Translate(script, e.line), e.line)
      BY <1>1, <2>1, Translated
    <2>3. e \in Events /\ e.type # "error"
      BY <2>1, <2>2, Elements DEF LineOf, ToSet
    <2>4. e.line < Failure.line /\ ~(Failure.line < e.line) /\ Failure.line # e.line
      BY <1>1, <2>1
    <2> QED  BY <2>1, <2>3, <2>4 DEF Before
  <1> QED  BY <1>1, <1>2, <1>3

LEMMA OrderScan ==
  ASSUME ProcTypeOK, PipeInv, OrderInv, WholeInv, Scan
  PROVE  OrderInv' /\ WholeInv'
  <1> DEFINE n == Taken + 1
  <1>1. /\ reader = "scan" /\ pipe # << >> /\ line' = Translate(script, Head(pipe)) /\ pipe' = Tail(pipe)
        /\ reader' = (IF line' = << >> THEN "scan" ELSE "emit")
        /\ UNCHANGED <<script, written, got, events, quiet>>
    BY DEF Scan, Step, loopVars
  <1>2. /\ Head(pipe) = n /\ Taken' = n /\ n \in 1..Len(script.lines) /\ Taken \in Nat
    <2>1. /\ pipe \in Seq(1..Len(script.lines)) /\ written \in 0..Len(script.lines)
          /\ Len(script.lines) \in Nat
      BY ScriptLines DEF ProcTypeOK
    <2>2. /\ Len(pipe') = Len(pipe) - 1 /\ 1 \in DOMAIN pipe /\ Head(pipe) = pipe[1]
          /\ Head(pipe) \in 1..Len(script.lines) /\ Len(pipe) \in Nat
      BY <1>1, <2>1, Shortened
    <2>3. Head(pipe) = n
      BY <2>2 DEF PipeInv
    <2> QED  BY <1>1, <2>1, <2>2, <2>3, TakenTypes DEF Taken
  <1> HIDE DEF n
  <1>3. Stream' = Stream /\ Stream \in Seq(Events)
    BY <1>1, StreamTypes DEF Stream
  <1>4. Failure' = Failure /\ Announced' = Announced
    BY <1>1 DEF Failure, Announced
  <1>5. LineOf(line', n) /\ line' = Translate(script, n)
    BY <1>1, <1>2, Translated DEF ProcTypeOK
  <1>6. \A e : IsOf(script, e, Taken) => IsOf(script, e, n) /\ e.line < n
    BY <1>2, TakenTypes DEF IsOf, n
  <1>7. \A i \in DOMAIN Stream : IsOf(script, Stream[i], Taken) \/ (Stream[i] = Announced /\ script.adapter = "kimi")
    BY <1>1 DEF OrderInv, Origin, FromElsewhere, FromLine
  <1>8. \A i \in DOMAIN Stream' : Origin(Stream[i])'
    BY <1>1, <1>2, <1>3, <1>4, <1>6, <1>7 DEF Origin, FromElsewhere, FromLine
  <1>9. \A j \in DOMAIN line' : line'[j].line = n /\ IsOf(script, line'[j], n)
    BY <1>2, <1>5 DEF LineOf, IsOf, ToSet
  <1>14. \A j \in DOMAIN line' : FromLine(line[j])'
    BY <1>1, <1>2, <1>9 DEF FromLine
  <1>10. \A i \in DOMAIN Stream, j \in DOMAIN line' :
           Stream[i] # Announced => Before(script, Stream[i], line'[j])
    BY <1>6, <1>7, <1>9 DEF Before
  <1>11. \A i, j \in DOMAIN line' : i < j => Before(script, line'[i], line'[j])
    <2>1. DOMAIN script.lines = 1..Len(script.lines)
      BY ScriptLines DEF ProcTypeOK
    <2> QED  BY <1>2, <1>5, <1>9, <2>1 DEF Before
  <1>12. OrderInv'
    <2>1. reader' = "emit" <=> line' # << >>
      BY <1>1
    <2>3. \A i, j \in DOMAIN Stream :
            i < j /\ Announced \notin {Stream[i], Stream[j]} => Before(script, Stream[i], Stream[j])
      BY DEF OrderInv
    <2> QED  BY <1>1, <1>3, <1>4, <1>8, <1>10, <1>11, <1>14, <2>1, <2>3 DEF OrderInv
  <1>13. WholeInv'
    <2> SUFFICES ASSUME NEW m \in 1..n, NEW e \in ToSet(Translate(script, m))
                 PROVE  e \in ToSet(Stream) \/ e \in ToSet(line')
      BY <1>1, <1>2, <1>3 DEF WholeInv
    <2>1. CASE m = n
      BY <1>5, <2>1
    <2>2. CASE m # n
      <3>1. m \in 1..Taken
        BY <1>2, <2>2 DEF n
      <3>2. line = << >>
        BY <1>1 DEF OrderInv
      <3> QED  BY <3>1, <3>2 DEF WholeInv, ToSet
    <2> QED  BY <2>1, <2>2
  <1> QED  BY <1>12, <1>13

\* The stream gets one event more, which comes after all others.
LEMMA OrderAppend ==
  ASSUME ProcTypeOK, PipeInv, OrderInv, NEW e \in Events, Stream' = Append(Stream, e),
         script' = script,
         \A i \in DOMAIN Stream : Announced \notin {Stream[i], e} => Before(script, Stream[i], e)
  PROVE  /\ DOMAIN Stream' = 1..Len(Stream) + 1 /\ DOMAIN Stream = 1..Len(Stream)
         /\ Len(Stream) \in Nat
         /\ \A i \in DOMAIN Stream' :
              \/ i \in DOMAIN Stream /\ Stream'[i] = Stream[i]
              \/ i = Len(Stream) + 1 /\ Stream'[i] = e
         /\ \A i, j \in DOMAIN Stream' :
              i < j /\ Announced \notin {Stream'[i], Stream'[j]} => Before(script, Stream'[i], Stream'[j])
         /\ ToSet(Stream') = ToSet(Stream) \cup {e}
  <1> DEFINE s == Stream
  <1>1. s \in Seq(Events)
    BY StreamTypes
  <1>2. \A i, j \in DOMAIN s : i < j /\ Announced \notin {s[i], s[j]} => Before(script, s[i], s[j])
    BY DEF OrderInv
  <1> HIDE DEF s
  <1>3. /\ DOMAIN Append(s, e) = 1..Len(s) + 1 /\ DOMAIN s = 1..Len(s) /\ Len(s) \in Nat
        /\ \A i \in DOMAIN s : i \in DOMAIN Append(s, e) /\ Append(s, e)[i] = s[i]
        /\ Append(s, e)[Len(s) + 1] = e
    BY <1>1, Appended
  <1>4. \A i \in DOMAIN Append(s, e) : \/ i \in DOMAIN s /\ Append(s, e)[i] = s[i]
                                       \/ i = Len(s) + 1 /\ Append(s, e)[i] = e
    BY <1>1, <1>3, Appended
  <1>5. \A i, j \in DOMAIN Append(s, e) :
          i < j /\ Announced \notin {Append(s, e)[i], Append(s, e)[j]}
            => Before(script, Append(s, e)[i], Append(s, e)[j])
    <2> SUFFICES ASSUME NEW i \in DOMAIN Append(s, e), NEW j \in DOMAIN Append(s, e), i < j,
                        Announced \notin {Append(s, e)[i], Append(s, e)[j]}
                 PROVE  Before(script, Append(s, e)[i], Append(s, e)[j])
      OBVIOUS
    <2>1. i \in DOMAIN s /\ Append(s, e)[i] = s[i]
      BY <1>3, <1>4
    <2>2. CASE j \in DOMAIN s
      BY <1>2, <1>3, <2>1, <2>2
    <2>3. CASE j = Len(s) + 1
      BY <1>3, <2>1, <2>3 DEF s
    <2> QED  BY <1>4, <2>2, <2>3
  <1>6. ToSet(Append(s, e)) = ToSet(s) \cup {e}
    BY <1>3, <1>4 DEF ToSet
  <1>7. Stream' = Append(s, e) /\ Stream = s
    BY DEF s
  <1> QED  BY <1>3, <1>4, <1>5, <1>6, <1>7

LEMMA OrderEmit ==
  ASSUME ProcTypeOK, PipeInv, OrderInv, WholeInv, Emit
  PROVE  OrderInv' /\ WholeInv' /\ Stream' = Append(Stream, Head(line)) /\ Head(line) \in Events
  <1>1. /\ reader = "emit" /\ line' = Tail(line) /\ events' = Append(events, Head(line))
        /\ reader' = (IF Len(line) = 1 THEN "scan" ELSE "emit")
        /\ UNCHANGED <<script, written, pipe, got, quiet>>
    BY DEF Emit, Sent, Step, QuietReader, procVars, loopVars
  <1> DEFINE h == Head(line)
  <1>2. line # << >> /\ line \in Seq(Events)
    BY <1>1, StreamTypes DEF OrderInv
  <1>3. /\ h \in Events /\ 1 \in DOMAIN line /\ h = line[1]
        /\ Len(Tail(line)) = Len(line) - 1 /\ Len(line) \in Nat
        /\ \A i \in DOMAIN line' : i # 0 /\ i + 1 \in DOMAIN line /\ i + 1 # 1
                                    /\ line'[i] = line[i + 1]
        /\ \A i \in DOMAIN line : i # 1 => i - 1 \in DOMAIN line'
        /\ line' \in Seq(Events) /\ DOMAIN line = 1..Len(line)
    BY <1>1, <1>2, Shortened
  <1> HIDE DEF h
  <1>4. Stream' = Append(Stream, h)
    BY <1>1, <1>3, StreamAppend DEF h
  <1>5. Taken' = Taken /\ Failure' = Failure /\ Announced' = Announced
    BY <1>1 DEF Taken, Failure, Announced
  <1>6. /\ DOMAIN Stream' = 1..Len(Stream) + 1 /\ DOMAIN Stream = 1..Len(Stream)
        /\ Len(Stream) \in Nat
        /\ \A i \in DOMAIN Stream' : \/ i \in DOMAIN Stream /\ Stream'[i] = Stream[i]
                                     \/ i = Len(Stream) + 1 /\ Stream'[i] = h
        /\ \A i, j \in DOMAIN Stream' :
             i < j /\ Announced \notin {Stream'[i], Stream'[j]}
               => Before(script, Stream'[i], Stream'[j])
        /\ ToSet(Stream') = ToSet(Stream) \cup {h}
    <2>1. \A i \in DOMAIN Stream : Stream[i] # Announced => Before(script, Stream[i], h)
      BY <1>3 DEF OrderInv
    <2> QED  BY <1>1, <1>3, <1>4, <2>1, OrderAppend
  <1>7. OrderInv'
    <2>1. reader' = "emit" <=> line' # << >>
      BY <1>1, <1>2, <1>3
    <2>2. \A i \in DOMAIN Stream' : Origin(Stream[i])'
      <3>1. \A i \in DOMAIN Stream :
              IsOf(script, Stream[i], Taken) \/ (Stream[i] = Announced /\ script.adapter = "kimi")
        BY <1>1 DEF OrderInv, Origin, FromElsewhere, FromLine
      <3>2. IsOf(script, h, Taken)
        BY <1>3 DEF OrderInv, FromLine
      <3>3. \A i \in DOMAIN Stream' :
              IsOf(script, Stream'[i], Taken) \/ (Stream'[i] = Announced /\ script.adapter = "kimi")
        BY <1>6, <3>1, <3>2
      <3> QED  BY <1>1, <1>5, <3>3 DEF Origin, FromElsewhere, FromLine
    <2>3. \A j \in DOMAIN line' : FromLine(line[j])'
      <3>1. \A j \in DOMAIN line' : IsOf(script, line'[j], Taken)
        BY <1>3 DEF OrderInv, FromLine
      <3> QED  BY <1>1, <1>5, <3>1 DEF FromLine
    <2>4. \A i \in DOMAIN Stream', j \in DOMAIN line' :
            Stream'[i] # Announced => Before(script, Stream'[i], line'[j])
      <3> SUFFICES ASSUME NEW i \in DOMAIN Stream', NEW j \in DOMAIN line',
                          Stream'[i] # Announced
                   PROVE  Before(script, Stream'[i], line'[j])
        OBVIOUS
      <3>1. line'[j] = line[j + 1] /\ j + 1 \in DOMAIN line /\ 1 < j + 1
        BY <1>3
      <3>2. CASE i \in DOMAIN Stream /\ Stream'[i] = Stream[i]
        BY <3>1, <3>2 DEF OrderInv
      <3>3. CASE Stream'[i] = h
        BY <1>3, <3>1, <3>3 DEF OrderInv
      <3> QED  BY <1>6, <3>2, <3>3
    <2>5. \A i, j \in DOMAIN line' : i < j => Before(script, line'[i], line'[j])
      <3> SUFFICES ASSUME NEW i \in DOMAIN line', NEW j \in DOMAIN line', i < j
                   PROVE  Before(script, line'[i], line'[j])
        OBVIOUS
      <3>1. /\ line'[i] = line[i + 1] /\ i + 1 \in DOMAIN line
            /\ line'[j] = line[j + 1] /\ j + 1 \in DOMAIN line /\ i + 1 < j + 1
        BY <1>3
      <3> QED  BY <3>1 DEF OrderInv
    <2> QED  BY <1>1, <1>5, <1>6, <2>1, <2>2, <2>3, <2>4, <2>5 DEF OrderInv
  <1>8. WholeInv'
    <2> SUFFICES ASSUME NEW n \in 1..Taken, NEW e \in ToSet(Translate(script, n))
                 PROVE  e \in ToSet(Stream') \/ e \in ToSet(line')
      BY <1>1, <1>5 DEF WholeInv
    <2>1. CASE e \in ToSet(Stream)
      BY <1>6, <2>1
    <2>2. CASE e \in ToSet(line)
      <3>1. PICK i \in DOMAIN line : line[i] = e
        BY <2>2 DEF ToSet
      <3>2. CASE i = 1
        BY <1>3, <1>6, <3>1, <3>2
      <3>3. CASE i # 1
        <4>1. i - 1 \in DOMAIN line' /\ i \in Nat
          BY <1>3, <3>3
        <4>2. line'[i - 1] = line[(i - 1) + 1]
          BY <1>3, <4>1
        <4> QED  BY <3>1, <4>1, <4>2 DEF ToSet
      <3> QED  BY <3>2, <3>3
    <2> QED  BY <2>1, <2>2 DEF WholeInv
  <1> QED  BY <1>3, <1>4, <1>7, <1>8 DEF h

LEMMA OrderReport ==
  ASSUME ProcTypeOK, PipeInv, OrderInv, WholeInv, reader = "report" => ~quiet, Report
  PROVE  OrderInv' /\ WholeInv' /\ Stream' = Append(Stream, Failure) /\ Failure \in Events
  <1>1. /\ reader = "report" /\ reader' = "close" /\ events' = Append(events, Failure)
        /\ UNCHANGED <<script, written, pipe, got, quiet, line>>
    BY DEF Report, Step, QuietReader, procVars, loopVars
  <1>2. line = << >> /\ ~quiet
    BY <1>1 DEF OrderInv
  <1>3. Failure \in Events /\ Stream' = Append(Stream, Failure)
    BY <1>1, OtherEvents, StreamAppend DEF ProcTypeOK
  <1>4. Taken' = Taken /\ Failure' = Failure /\ Announced' = Announced
    BY <1>1 DEF Taken, Failure, Announced
  <1>5. \A i \in DOMAIN Stream :
          IsOf(script, Stream[i], Taken) \/ (Stream[i] = Announced /\ script.adapter = "kimi")
    BY <1>1 DEF OrderInv, Origin, FromElsewhere, FromLine
  <1>6. \A i \in DOMAIN Stream : Stream[i] # Announced => Before(script, Stream[i], Failure)
    BY <1>5, Elsewhere DEF FromLine
  <1>7. /\ \A i \in DOMAIN Stream' : \/ i \in DOMAIN Stream /\ Stream'[i] = Stream[i]
                                     \/ i = Len(Stream) + 1 /\ Stream'[i] = Failure
        /\ \A i, j \in DOMAIN Stream' :
             i < j /\ Announced \notin {Stream'[i], Stream'[j]}
               => Before(script, Stream'[i], Stream'[j])
        /\ ToSet(Stream') = ToSet(Stream) \cup {Failure}
    BY <1>1, <1>3, <1>6, OrderAppend
  <1>8. OrderInv'
    <2>1. \A i \in DOMAIN Stream' : Origin(Stream[i])'
      <3>1. \A i \in DOMAIN Stream' :
              \/ IsOf(script, Stream'[i], Taken)
              \/ Stream'[i] = Announced /\ script.adapter = "kimi"
              \/ Stream'[i] = Failure
        BY <1>5, <1>7
      <3> QED  BY <1>1, <1>2, <1>4, <3>1 DEF Origin, FromElsewhere, FromLine
    <2> QED  BY <1>1, <1>2, <1>4, <1>7, <2>1 DEF OrderInv
  <1>9. WholeInv'
    BY <1>1, <1>4, <1>7 DEF WholeInv
  <1> QED  BY <1>3, <1>8, <1>9

LEMMA OrderSendModel ==
  ASSUME ProcTypeOK, PipeInv, OrderInv, WholeInv, SendModel
  PROVE  OrderInv' /\ WholeInv' /\ (Stream' = Stream \/ Stream' = Append(Stream, Announced))
  <1>1. /\ script.adapter = "kimi" /\ UNCHANGED <<script, written, pipe, got, quiet, line, reader>>
        /\ events' = events \/ events' = Append(events, Announced)
    BY DEF SendModel, procVars, readerVars, loopVars
  <1>2. Taken' = Taken /\ Failure' = Failure /\ Announced' = Announced
    BY <1>1 DEF Taken, Failure, Announced
  <1>3. CASE events' = events
    <2>1. Stream' = Stream
      BY <1>1, <1>3 DEF Stream
    <2>2. \A i \in DOMAIN Stream : Origin(Stream[i])' <=> Origin(Stream[i])
      BY <1>1, <1>2, <2>1 DEF Origin, FromElsewhere, FromLine
    <2>3. \A j \in DOMAIN line : FromLine(line[j])' <=> FromLine(line[j])
      BY <1>1, <1>2 DEF FromLine
    <2>4. OrderInv'
      BY <1>1, <1>2, <2>1, <2>2, <2>3 DEF OrderInv
    <2>5. WholeInv'
      BY <1>1, <1>2, <2>1 DEF WholeInv
    <2> QED  BY <2>1, <2>4, <2>5
  <1>4. CASE events' = Append(events, Announced)
    <2>1. Announced \in Events /\ Stream' = Append(Stream, Announced)
      BY <1>1, <1>4, OtherEvents, StreamAppend DEF ProcTypeOK
    <2>2. /\ \A i \in DOMAIN Stream' : \/ i \in DOMAIN Stream /\ Stream'[i] = Stream[i]
                                       \/ i = Len(Stream) + 1 /\ Stream'[i] = Announced
          /\ \A i, j \in DOMAIN Stream' :
               i < j /\ Announced \notin {Stream'[i], Stream'[j]}
                 => Before(script, Stream'[i], Stream'[j])
          /\ ToSet(Stream') = ToSet(Stream) \cup {Announced}
      BY <1>1, <2>1, OrderAppend
    <2>3. \A i \in DOMAIN Stream' : Origin(Stream[i])'
      <3>1. \A i \in DOMAIN Stream : Origin(Stream[i])
        BY DEF OrderInv
      <3> QED  BY <1>1, <1>2, <2>2, <3>1 DEF Origin, FromElsewhere, FromLine
    <2>4. \A j \in DOMAIN line' : FromLine(line[j])'
      BY <1>1, <1>2 DEF FromLine, OrderInv
    <2>5. \A i \in DOMAIN Stream', j \in DOMAIN line' :
            Stream'[i] # Announced => Before(script, Stream'[i], line'[j])
      BY <1>1, <2>2 DEF OrderInv
    <2>6. OrderInv'
      BY <1>1, <1>2, <2>2, <2>3, <2>4, <2>5 DEF OrderInv
    <2>7. WholeInv'
      BY <1>1, <1>2, <2>2 DEF WholeInv
    <2> QED  BY <2>1, <2>6, <2>7
  <1> QED  BY <1>1, <1>3, <1>4

\* Steps that leave the stream and the line alone.
LEMMA OrderSame ==
  ASSUME OrderInv, WholeInv, UNCHANGED <<script, Stream, line>>, Taken' = Taken,
         reader' = "emit" <=> reader = "emit",
         reader \in {"close", "over"} => reader' \in {"close", "over"} /\ quiet' = quiet
  PROVE  OrderInv' /\ WholeInv'
  <1>1. Failure' = Failure /\ Announced' = Announced
    BY DEF Failure, Announced
  <1>2. \A i \in DOMAIN Stream' : Origin(Stream[i])'
    <2>1. \A i \in DOMAIN Stream' : Origin(Stream[i])
      BY DEF OrderInv
    <2> QED  BY <1>1, <2>1 DEF Origin, FromElsewhere, FromLine
  <1>3. \A j \in DOMAIN line' : FromLine(line[j])'
    BY DEF FromLine, OrderInv
  <1>4. OrderInv'
    BY <1>1, <1>2, <1>3 DEF OrderInv
  <1>5. WholeInv'
    BY DEF WholeInv
  <1> QED  BY <1>4, <1>5

LEMMA OrderStep ==
  ASSUME ProcTypeOK, PipeInv, OrderInv, WholeInv, ExitInv, [ProcNext]_procRunVars
  PROVE  OrderInv' /\ WholeInv'
  <1>1. CASE Scan
    BY <1>1, OrderScan
  <1>2. CASE Emit
    BY <1>2, OrderEmit
  <1>3. CASE Report
    BY <1>3, OrderReport DEF ExitInv
  <1>4. CASE SendModel
    BY <1>4, OrderSendModel
  <1>5. CASE Receive
    <2>1. UNCHANGED <<script, line, reader, quiet, written, pipe>>
      BY <1>5 DEF Receive, procVars, readerVars
    <2>2. Stream' = Stream /\ Taken' = Taken
      BY <1>5, <2>1, StreamReceive DEF Taken
    <2> QED  BY <2>1, <2>2, OrderSame
  <1>6. CASE Aside
    <2>1. Stream' = Stream
      BY <1>6 DEF Aside, Stream
    <2> QED  BY <1>6, <2>1, OrderSame DEF Aside
  <1>7. CASE Wait /\ UNCHANGED <<script, got, events, line>> /\ Taken' = Taken
    <2>1. reader = "wait" /\ reader' = "exit" /\ Stream' = Stream
      BY <1>7 DEF Wait, Step, Stream
    <2> QED  BY <1>7, <2>1, OrderSame
  <1> QED  BY <1>1, <1>2, <1>3, <1>4, <1>5, <1>6, <1>7, OthersAside

------------------------------------------------------------------------------
\* The stream loses nothing.
LEMMA StreamGrows ==
  ASSUME ProcTypeOK, PipeInv, OrderInv, WholeInv, ExitInv, [ProcNext]_procRunVars
  PROVE  ToSet(Stream) \subseteq ToSet(Stream')
  <1>1. ASSUME NEW e \in Events, Stream' = Append(Stream, e)
        PROVE  ToSet(Stream) \subseteq ToSet(Stream')
    <2>1. Stream \in Seq(Events)
      BY StreamTypes
    <2>2. \A i \in DOMAIN Stream : i \in DOMAIN Stream' /\ Stream'[i] = Stream[i]
      BY <1>1, <2>1, Appended
    <2> QED  BY <2>2 DEF ToSet
  <1>2. CASE Emit
    BY <1>1, <1>2, OrderEmit
  <1>3. CASE Report
    BY <1>1, <1>3, OrderReport DEF ExitInv
  <1>4. CASE SendModel
    <2>1. Announced \in Events
      BY OtherEvents DEF ProcTypeOK
    <2> QED  BY <1>1, <1>4, <2>1, OrderSendModel
  <1>5. CASE Receive
    BY <1>5, StreamReceive
  <1>6. CASE Scan
    <2>1. UNCHANGED <<got, events>>
      BY <1>6 DEF Scan, loopVars
    <2> QED  BY <2>1 DEF Stream
  <1>7. CASE UNCHANGED <<got, events>>
    BY <1>7 DEF Stream
  <1> QED  BY <1>2, <1>3, <1>4, <1>5, <1>6, <1>7, OthersAside DEF Aside

\* Who calls Stop has its place from then on.
LEMMA StoppedStep ==
  ASSUME ProcTypeOK, ExitInv, [ProcNext]_procRunVars
  PROVE  /\ stopped' <=> \E s \in Stoppers : stop'[s] # "no"
         /\ stopped => stopped'
  <1>0. stop \in [Stoppers -> {"no", "grace", "killed", "returned"}]
        /\ (stopped <=> \E s \in Stoppers : stop[s] # "no")
    BY DEF ProcTypeOK, ExitInv
  <1>1. CASE \E s \in Stoppers : CallStop(s)
    BY <1>0, <1>1 DEF CallStop, StopAt
  <1>2. CASE Stopping
    BY <1>0, <1>2 DEF Stopping, StopReturns, Kill, StopAt
  <1>3. CASE UNCHANGED <<stopped, stop>>
    BY <1>0, <1>3
  <1>4. ASSUME ProcNext, ~Stopping, ~\E s \in Stoppers : CallStop(s)
        PROVE  UNCHANGED <<stopped, stop>>
    <2> USE DEF stopVars
    <2>1. CASE Agent
      BY <2>1 DEF Agent, WriteLine, Ends, EndWell, EndBadly, DieOfSignal, BeKilled
    <2>2. CASE Reader
      BY <2>2 DEF Reader, Scan, Emit, Sent, ScanEnds, Wait, CloseExited, RunCleanups, Report,
                  CloseEvents, QuietReader
    <2>3. CASE OnCleanup \/ AppendCleanup \/ SendModel
      BY <2>3 DEF OnCleanup, AppendCleanup, SendModel, Registers
    <2>4. CASE StopByCommand \/ Watchdog
      BY <1>4, <2>4 DEF StopByCommand, Watchdog, Stoppers
    <2>5. CASE RunLoop
      BY <1>4, <2>5 DEF RunLoop, CardStarts, CardFails, Receive, SeesClose, LoopGoesOn, Stoppers
    <2> QED  BY <1>4, <2>1, <2>2, <2>3, <2>4, <2>5 DEF ProcNext
  <1> QED  BY <1>1, <1>2, <1>3, <1>4 DEF procRunVars, stopVars

LEMMA ExitStep ==
  ASSUME ProcTypeOK, PipeInv, OrderInv, WholeInv, ExitInv, [ProcNext]_procRunVars
  PROVE  ExitInv'
  <1>0. ToSet(Stream) \subseteq ToSet(Stream') /\ Failure' = Failure /\ (stopped => stopped')
        /\ (stopped' <=> \E s \in Stoppers : stop'[s] # "no")
    BY StreamGrows, StoppedStep, ScriptStays
       DEF Failure, procRunVars, procVars
  <1> DEFINE Late == {"exit", "cleanup", "report", "close", "over"}
  <1>1. CASE Agent
    BY <1>0, <1>1 DEF Agent, WriteLine, Ends, EndWell, EndBadly, DieOfSignal, BeKilled, ExitInv,
                      readerVars
  <1>2. CASE Scan \/ ScanEnds
    BY <1>0, <1>2 DEF Scan, ScanEnds, QuietReader, Step, ExitInv
  <1>3. CASE Emit
    BY <1>0, <1>3 DEF Emit, Sent, QuietReader, Step, ExitInv
  <1>4. CASE Wait
    <2>1. agent \in {"done", "failed"} /\ reader' = "exit" /\ quiet' = (stopped \/ agent = "done")
          /\ UNCHANGED <<agent, closed, stopped>> /\ reader = "wait"
      BY <1>4 DEF Wait, Step, QuietReader, procVars, stopVars, ProcTypeOK
    <2> QED  BY <1>0, <2>1 DEF ExitInv
  <1>5. CASE CloseExited \/ RunCleanups
    BY <1>0, <1>5 DEF CloseExited, RunCleanups, QuietReader, Step, ExitInv, procVars, stopVars
  <1>6. CASE Report
    <2>1. Stream' = Append(Stream, Failure) /\ Failure \in Events /\ Stream \in Seq(Events)
      BY <1>6, OrderReport, StreamTypes DEF ExitInv
    <2>2. Failure \in ToSet(Stream')
      BY <2>1, Appended DEF ToSet
    <2> QED  BY <1>0, <1>6, <2>2 DEF Report, QuietReader, Step, ExitInv, procVars, stopVars
  <1>7. CASE CloseEvents
    BY <1>0, <1>7 DEF CloseEvents, QuietReader, Step, ExitInv, procVars, stopVars
  <1>8. CASE UNCHANGED <<agent, reader, quiet, closed>>
    BY <1>0, <1>8 DEF ExitInv
  <1>9. ASSUME ProcNext, ~Agent, ~Reader
        PROVE  UNCHANGED <<agent, reader, quiet, closed>>
    <2> USE DEF procVars, readerVars
    <2>1. CASE OnCleanup \/ AppendCleanup \/ SendModel
      BY <2>1 DEF OnCleanup, AppendCleanup, SendModel, Registers
    <2>2. CASE StopByCommand \/ Watchdog \/ Stopping
      BY <2>2 DEF StopByCommand, Watchdog, CallStop, Stopping, StopReturns, Kill
    <2>3. CASE RunLoop
      BY <2>3 DEF RunLoop, CardStarts, CardFails, CallStop, Receive, SeesClose, LoopGoesOn
    <2> QED  BY <1>9, <2>1, <2>2, <2>3 DEF ProcNext
  <1> QED
    BY <1>1, <1>2, <1>3, <1>4, <1>5, <1>6, <1>7, <1>8, <1>9
       DEF Reader, procRunVars, procVars, readerVars

\* What is received is the next event of the stream.
LEMMA Received ==
  ASSUME ProcTypeOK, Receive
  PROVE  /\ Head(events) \in Events /\ got' = Append(got, Head(events))
         /\ runState' = Reduce(runState, Head(events))
         /\ Len(got) + 1 \in DOMAIN Stream /\ Stream[Len(got) + 1] = Head(events)
         /\ \A k \in DOMAIN got : k \in DOMAIN Stream /\ Stream[k] = got[k] /\ k < Len(got) + 1
         /\ got' \in Seq(Events) /\ ToSet(got') = ToSet(got) \cup {Head(events)}
  <1> DEFINE g == got
             c == events
  <1>1. g \in Seq(Events) /\ c \in Seq(Events) /\ c # << >>
    BY DEF ProcTypeOK, Receive
  <1>2. got' = Append(g, Head(c)) /\ Stream = g \o c /\ runState' = Reduce(runState, Head(c))
    BY DEF Receive, Stream
  <1> HIDE DEF g, c
  <1>3. Head(c) \in Events /\ 1 \in DOMAIN c /\ Head(c) = c[1] /\ Len(c) \in Nat /\ Len(c) >= 1
    BY <1>1, Shortened
  <1>4. /\ Len(g) \in Nat /\ DOMAIN g = 1..Len(g) /\ DOMAIN (g \o c) = 1..Len(g) + Len(c)
        /\ \A k \in 1..Len(g) : (g \o c)[k] = g[k]
        /\ (g \o c)[Len(g) + 1] = c[1]
    BY <1>1, <1>3
  <1>5. /\ Append(g, Head(c)) \in Seq(Events)
        /\ \A k \in DOMAIN g : k \in DOMAIN Append(g, Head(c)) /\ Append(g, Head(c))[k] = g[k]
        /\ Append(g, Head(c))[Len(g) + 1] = Head(c)
        /\ \A i \in DOMAIN Append(g, Head(c)) : i \in DOMAIN g \/ i = Len(g) + 1
        /\ DOMAIN Append(g, Head(c)) = 1..Len(g) + 1
    BY <1>1, <1>3, Appended
  <1>6. ToSet(Append(g, Head(c))) = ToSet(g) \cup {Head(c)}
    BY <1>4, <1>5 DEF ToSet
  <1>7. \A k \in DOMAIN g : k \in 1..Len(g) + Len(c) /\ k < Len(g) + 1
    BY <1>3, <1>4
  <1>8. Len(g) + 1 \in 1..Len(g) + Len(c)
    BY <1>3, <1>4
  <1> QED  BY <1>2, <1>3, <1>4, <1>5, <1>6, <1>7, <1>8 DEF g, c

LEMMA ReceivedInOrder ==
  ASSUME ProcTypeOK, OrderInv, Receive
  PROVE  /\ Origin(Head(events))
         /\ \A d \in ToSet(got) : d \in Events /\ Origin(d)
              /\ (Announced \notin {d, Head(events)} => Before(script, d, Head(events)))
  <1>1. /\ Len(got) + 1 \in DOMAIN Stream /\ Stream[Len(got) + 1] = Head(events)
        /\ \A k \in DOMAIN got : k \in DOMAIN Stream /\ Stream[k] = got[k] /\ k < Len(got) + 1
    BY Received
  <1>2. ASSUME NEW d \in ToSet(got)
        PROVE  d \in Events /\ Origin(d)
                 /\ (Announced \notin {d, Head(events)} => Before(script, d, Head(events)))
    <2>1. PICK k \in DOMAIN got : got[k] = d
      BY <1>2 DEF ToSet
    <2>2. d \in Events
      BY <2>1, Elements, StreamTypes
    <2> QED  BY <1>1, <2>1, <2>2 DEF OrderInv
  <1> QED  BY <1>1, <1>2 DEF OrderInv

\* Steps that leave the loop's variables alone, or only its place.
LoopAside == UNCHANGED <<got, runState>> /\ (loop' = "ended" <=> loop = "ended")

LEMMA LoopIsAside ==
  ASSUME [ProcNext]_procRunVars, ~Receive, ~SeesClose
  PROVE  LoopAside
  <1> USE DEF LoopAside, loopVars
  <1>1. CASE Agent
    BY <1>1 DEF Agent, WriteLine, Ends, EndWell, EndBadly, DieOfSignal, BeKilled
  <1>2. CASE Reader
    BY <1>2 DEF Reader, Scan, Emit, Sent, ScanEnds, Wait, CloseExited, RunCleanups, Report,
                CloseEvents, QuietReader
  <1>3. CASE OnCleanup \/ AppendCleanup \/ SendModel
    BY <1>3 DEF OnCleanup, AppendCleanup, SendModel, Registers
  <1>4. CASE StopByCommand \/ Watchdog \/ Stopping
    BY <1>4 DEF StopByCommand, Watchdog, CallStop, Stopping, StopReturns, Kill
  <1>5. CASE CardStarts \/ CardFails \/ LoopGoesOn
    BY <1>5 DEF CardStarts, CardFails, CallStop, LoopGoesOn
  <1>6. CASE UNCHANGED procRunVars
    BY <1>6 DEF procRunVars
  <1> QED  BY <1>1, <1>2, <1>3, <1>4, <1>5, <1>6 DEF ProcNext, RunLoop

\* A channel that is closed and empty stays so.
LEMMA ClosedStays ==
  ASSUME ProcTypeOK, ExitInv, closed, events = << >>, [ProcNext]_procRunVars
  PROVE  closed' /\ events' = << >> /\ agent' = agent
  <1>1. reader = "over" /\ agent # "running"
    BY DEF ExitInv
  <1> USE DEF procVars, readerVars
  <1>2. CASE Agent
    BY <1>1, <1>2 DEF Agent, WriteLine, Ends, EndWell, EndBadly, DieOfSignal, BeKilled
  <1>3. CASE Reader
    BY <1>1, <1>3 DEF Reader, Scan, Emit, Sent, ScanEnds, Wait, CloseExited, RunCleanups, Report,
                      CloseEvents
  <1>4. CASE OnCleanup \/ AppendCleanup \/ SendModel
    BY <1>4 DEF OnCleanup, AppendCleanup, SendModel, Registers
  <1>5. CASE StopByCommand \/ Watchdog \/ Stopping
    BY <1>5 DEF StopByCommand, Watchdog, CallStop, Stopping, StopReturns, Kill
  <1>6. CASE RunLoop
    BY <1>6 DEF RunLoop, CardStarts, CardFails, CallStop, Receive, SeesClose, LoopGoesOn
  <1>7. CASE UNCHANGED procRunVars
    BY <1>7 DEF procRunVars
  <1> QED  BY <1>2, <1>3, <1>4, <1>5, <1>6, <1>7 DEF ProcNext

LEMMA EndStep ==
  ASSUME ProcTypeOK, PipeInv, OrderInv, ExitInv, EndInv, [ProcNext]_procRunVars
  PROVE  EndInv'
  <1>0. Failure' = Failure
    BY ScriptStays DEF Failure, procRunVars, procVars
  <1>1. CASE Receive
    <2> DEFINE e == Head(events)
    <2>1. loop = "reading" /\ loop' = loop
      BY <1>1 DEF Receive
    <2>2. /\ e \in Events /\ ToSet(got') = ToSet(got) \cup {e} /\ runState' = Reduce(runState, e)
          /\ Origin(e)
          /\ \A d \in ToSet(got) : Announced \notin {d, e} => Before(script, d, e)
      BY <1>1, Received, ReceivedInOrder
    <2> HIDE DEF e
    <2>3. runState'.terminal = CASE e.type = "error" -> "error"
                                 [] e.type = "done" -> "done"
                                 [] OTHER -> runState.terminal
      BY <2>2, Reduced DEF ProcTypeOK
    <2>4. runState'.terminal \in {"running", "done", "error"}
      BY <2>1, <2>3 DEF EndInv
    <2>5. runState'.terminal = "done" => \E d \in ToSet(got') : d.type = "done"
      BY <2>1, <2>2, <2>3 DEF EndInv
    <2>6. Failure \in ToSet(got') => runState'.terminal = "error"
      <3> SUFFICES ASSUME Failure \in ToSet(got') PROVE runState'.terminal = "error"
        OBVIOUS
      <3>1. Failure.type = "error" /\ Announced.type = "system"
        BY OtherEvents DEF ProcTypeOK
      <3>2. CASE e = Failure
        BY <2>3, <3>1, <3>2
      <3>3. CASE e # Failure
        <4>1. Failure \in ToSet(got) /\ runState.terminal = "error"
          BY <2>1, <2>2, <3>3 DEF EndInv
        <4>2. e = Announced
          BY <2>2, <3>3, <4>1, Elsewhere DEF Origin, FromElsewhere
        <4> QED  BY <2>3, <3>1, <4>1, <4>2
      <3> QED  BY <3>2, <3>3
    <2> QED  BY <1>0, <2>1, <2>4, <2>5, <2>6 DEF EndInv
  <1>2. CASE SeesClose
    BY <1>2 DEF SeesClose, EndInv, readerVars
  <1>3. CASE LoopAside
    BY <1>0, <1>3, ClosedStays DEF LoopAside, EndInv
  <1> QED  BY <1>1, <1>2, <1>3, LoopIsAside

\* What runBatch makes of the card at the end.
LEMMA FinalizedCard ==
  ASSUME ProcTypeOK
  PROVE  /\ Finalized \in RunStates
         /\ runState.terminal # "running" => Finalized = runState
         /\ runState.terminal = "running" =>
              /\ Finalized.terminal \in {"done", "interrupted", "idle_timeout"}
              /\ Finalized.terminal = "done" => \A s \in Stoppers : stop[s] = "no"
              /\ Finalized.blocks = closeStreamingText(runState.blocks)
  <1>1. runState \in RunStates
    BY DEF ProcTypeOK
  <1> QED  BY <1>1, Marked DEF Finalized, FinalizeIfRunning, Stoppers

LEMMA TellsEndStep ==
  ASSUME ProcTypeOK, PipeInv, OrderInv, ExitInv, EndInv, CardTellsEnd, [ProcNext]_procRunVars
  PROVE  CardTellsEnd'
  <1>1. CASE SeesClose
    <2>1. /\ runState' = Finalized /\ closed /\ events = << >> /\ loop # "ended"
          /\ UNCHANGED <<agent, stopped, got>>
      BY <1>1 DEF SeesClose, procVars, stopVars
    <2>2. reader = "over" /\ agent \in {"done", "failed"} /\ (quiet => stopped \/ agent = "done")
      BY <2>1 DEF ExitInv, ProcTypeOK
    <2>3. Stream = got
      BY <2>1, StreamTypes DEF Stream
    <2>4. agent = "failed" /\ ~stopped => runState.terminal = "error"
      BY <2>1, <2>2, <2>3 DEF ExitInv, EndInv
    <2>5. stopped <=> \E s \in Stoppers : stop[s] # "no"
      BY DEF ExitInv
    <2>6. agent = "failed" /\ ~stopped => Finalized.terminal = "error"
      BY <2>4, FinalizedCard
    <2>7. Finalized.terminal = "done" => agent = "done" \/ \E e \in ToSet(got) : e.type = "done"
      BY <2>1, <2>2, <2>4, <2>5, FinalizedCard DEF EndInv
    <2>8. Finalized.terminal # "running"
      BY FinalizedCard
    <2> QED  BY <2>1, <2>6, <2>7, <2>8 DEF CardTellsEnd
  <1>2. CASE Receive
    BY <1>2 DEF Receive, CardTellsEnd
  <1>3. CASE LoopAside
    BY <1>3, ClosedStays, StoppedStep DEF LoopAside, EndInv, CardTellsEnd
  <1> QED  BY <1>1, <1>2, <1>3, LoopIsAside

------------------------------------------------------------------------------
\* The lines of a list of blocks, and that they rise.
LinesOn(b) == UNION {ToSet(b[i].content) : i \in DOMAIN b}
Rising(b) ==
  \A i, j \in DOMAIN b : \A k \in DOMAIN b[i].content, l \in DOMAIN b[j].content :
    i < j \/ (i = j /\ k < l) => b[i].content[k] < b[j].content[l]

LEMMA SameContents ==
  ASSUME NEW b, NEW c, DOMAIN c = DOMAIN b, \A i \in DOMAIN b : c[i].content = b[i].content
  PROVE  LinesOn(c) = LinesOn(b) /\ (Rising(b) => Rising(c))
  BY DEF LinesOn, Rising

LEMMA OnLines ==
  ASSUME NEW b, NEW i \in DOMAIN b, NEW k \in DOMAIN b[i].content
  PROVE  b[i].content[k] \in LinesOn(b)
  BY DEF LinesOn, ToSet

LEMMA BlockAppended ==
  ASSUME NEW b \in Seq(Blocks), Rising(b), NEW x \in Blocks, NEW n \in Nat, x.content = <<n>>,
         \A m \in LinesOn(b) : m < n
  PROVE  Rising(Append(b, x)) /\ LinesOn(Append(b, x)) = LinesOn(b) \cup {n}
  <1> DEFINE c == Append(b, x)
  <1>1. /\ DOMAIN c = 1..Len(b) + 1 /\ DOMAIN b = 1..Len(b) /\ Len(b) \in Nat
        /\ \A i \in DOMAIN b : i \in DOMAIN c /\ c[i] = b[i]
        /\ c[Len(b) + 1] = x
        /\ \A i \in DOMAIN c : i \in DOMAIN b \/ i = Len(b) + 1
    BY Appended
  <1>2. DOMAIN x.content = {1} /\ x.content[1] = n
    OBVIOUS
  <1> HIDE DEF c
  <1>3. Rising(c)
    <2> SUFFICES ASSUME NEW i \in DOMAIN c, NEW j \in DOMAIN c, NEW k \in DOMAIN c[i].content,
                        NEW l \in DOMAIN c[j].content, i < j \/ (i = j /\ k < l)
                 PROVE  c[i].content[k] < c[j].content[l]
      BY DEF Rising
    <2>1. CASE j \in DOMAIN b
      <3>1. i \in DOMAIN b
        BY <1>1, <2>1
      <3> QED  BY <1>1, <2>1, <3>1 DEF Rising
    <2>2. CASE j = Len(b) + 1
      <3>1. c[j].content[l] = n /\ l = 1
        BY <1>1, <1>2, <2>2
      <3>2. i \in DOMAIN b
        <4>1. CASE i = j
          BY <1>1, <1>2, <2>2, <3>1, <4>1
        <4>2. CASE i # j
          BY <1>1, <2>2, <4>2
        <4> QED  BY <4>1, <4>2
      <3>3. c[i].content[k] \in LinesOn(b)
        BY <1>1, <3>2, OnLines
      <3> QED  BY <3>1, <3>3
    <2> QED  BY <1>1, <2>1, <2>2
  <1>4. LinesOn(c) = LinesOn(b) \cup {n}
    <2>1. ToSet(x.content) = {n}
      BY <1>2 DEF ToSet
    <2> QED  BY <1>1, <2>1 DEF LinesOn
  <1> QED  BY <1>3, <1>4 DEF c

LEMMA TextContinued ==
  ASSUME NEW b \in Seq(Blocks), Rising(b), NEW n \in Nat, Len(b) > 0,
         \A m \in LinesOn(b) : m < n,
         NEW c, DOMAIN c = DOMAIN b, \A i \in DOMAIN b : i # Len(b) => c[i].content = b[i].content,
         c[Len(b)].content = Append(b[Len(b)].content, n)
  PROVE  Rising(c) /\ LinesOn(c) = LinesOn(b) \cup {n}
  <1> DEFINE z == Len(b)
             t == b[z].content
  <1>1. z \in DOMAIN b /\ DOMAIN b = 1..z /\ z \in Nat
    OBVIOUS
  <1>2. t \in Seq(Nat)
    <2>1. b[z] \in Blocks
      BY <1>1, Elements
    <2> QED  BY <2>1 DEF Blocks
  <1>3. /\ DOMAIN c[z].content = 1..Len(t) + 1 /\ DOMAIN t = 1..Len(t) /\ Len(t) \in Nat
        /\ \A i \in DOMAIN t : i \in DOMAIN c[z].content /\ c[z].content[i] = t[i]
        /\ c[z].content[Len(t) + 1] = n
        /\ \A k \in DOMAIN c[z].content : k \in DOMAIN t \/ k = Len(t) + 1
    BY <1>2, Appended
  <1>4. \A i \in DOMAIN b : i # z => c[i].content = b[i].content
    OBVIOUS
  <1> HIDE DEF z, t
  <1>5. ASSUME NEW i \in DOMAIN c, NEW k \in DOMAIN c[i].content
        PROVE  \/ k \in DOMAIN b[i].content /\ c[i].content[k] = b[i].content[k]
               \/ i = z /\ k = Len(t) + 1 /\ c[i].content[k] = n
    <2>1. CASE i # z
      BY <1>4, <2>1
    <2>2. CASE i = z
      <3>1. k \in DOMAIN t \/ k = Len(t) + 1
        BY <1>3, <2>2
      <3> QED  BY <1>3, <2>2, <3>1 DEF t
    <2> QED  BY <2>1, <2>2
  <1>6. Rising(c)
    <2> SUFFICES ASSUME NEW i \in DOMAIN c, NEW j \in DOMAIN c, NEW k \in DOMAIN c[i].content,
                        NEW l \in DOMAIN c[j].content, i < j \/ (i = j /\ k < l)
                 PROVE  c[i].content[k] < c[j].content[l]
      BY DEF Rising
    <2>1. CASE l \in DOMAIN b[j].content /\ c[j].content[l] = b[j].content[l]
      <3>1. CASE k \in DOMAIN b[i].content /\ c[i].content[k] = b[i].content[k]
        BY <2>1, <3>1 DEF Rising
      <3>2. CASE i = z /\ k = Len(t) + 1
        <4>1. j = z
          BY <1>1, <3>2
        <4>2. l \in 1..Len(t) /\ k < l
          BY <1>1, <1>3, <2>1, <3>2, <4>1 DEF t
        <4> QED  BY <1>3, <3>2, <4>2
      <3> QED  BY <1>5, <3>1, <3>2
    <2>2. CASE j = z /\ l = Len(t) + 1 /\ c[j].content[l] = n
      <3>1. k \in DOMAIN b[i].content /\ c[i].content[k] = b[i].content[k]
        <4>1. CASE i = z /\ k = Len(t) + 1
          BY <1>1, <1>3, <2>2, <4>1
        <4> QED  BY <1>5, <4>1
      <3>2. c[i].content[k] \in LinesOn(b)
        BY <3>1, OnLines
      <3> QED  BY <2>2, <3>2
    <2> QED  BY <1>5, <2>1, <2>2
  <1>7. LinesOn(c) = LinesOn(b) \cup {n}
    <2>1. LinesOn(c) \subseteq LinesOn(b) \cup {n}
      <3> SUFFICES ASSUME NEW m \in LinesOn(c) PROVE m \in LinesOn(b) \cup {n}
        OBVIOUS
      <3>0. PICK i \in DOMAIN c : m \in ToSet(c[i].content)
        BY DEF LinesOn
      <3>1. PICK k \in DOMAIN c[i].content : m = c[i].content[k]
        BY <3>0 DEF ToSet
      <3> QED  BY <1>5, <3>1, OnLines
    <2>2. LinesOn(b) \subseteq LinesOn(c)
      <3> SUFFICES ASSUME NEW m \in LinesOn(b) PROVE m \in LinesOn(c)
        OBVIOUS
      <3>0. PICK i \in DOMAIN b : m \in ToSet(b[i].content)
        BY DEF LinesOn
      <3>1. PICK k \in DOMAIN b[i].content : m = b[i].content[k]
        BY <3>0 DEF ToSet
      <3>2. i \in DOMAIN c /\ k \in DOMAIN c[i].content /\ c[i].content[k] = m
        BY <1>3, <1>4, <3>1 DEF t
      <3> QED  BY <3>2, OnLines
    <2>3. n \in LinesOn(c)
      <3>1. Len(t) + 1 \in DOMAIN c[z].content
        BY <1>3
      <3> QED  BY <1>1, <1>3, <3>1, OnLines
    <2> QED  BY <2>1, <2>2, <2>3
  <1> QED  BY <1>6, <1>7

LEMMA TextAdded ==
  ASSUME NEW b \in Seq(Blocks), Rising(b), NEW n \in Nat, \A m \in LinesOn(b) : m < n
  PROVE  Rising(AddText(b, n)) /\ LinesOn(AddText(b, n)) = LinesOn(b) \cup {n}
  <1> DEFINE c == AddText(b, n)
  <1>1. CASE Len(b) > 0 /\ b[Len(b)].streaming
    <2>1. b[Len(b)] \in Blocks
      BY <1>1, Elements
    <2>2. c = [b EXCEPT ![Len(b)] = [b[Len(b)] EXCEPT !.content = Append(b[Len(b)].content, n)]]
      BY <1>1 DEF AddText
    <2>3. /\ DOMAIN c = DOMAIN b /\ \A i \in DOMAIN b : i # Len(b) => c[i].content = b[i].content
          /\ c[Len(b)].content = Append(b[Len(b)].content, n)
      BY <1>1, <2>1, <2>2 DEF Blocks
    <2> HIDE DEF c
    <2> QED  BY <1>1, <2>3, TextContinued DEF c
  <1>2. CASE ~(Len(b) > 0 /\ b[Len(b)].streaming)
    <2>1. c = Append(b, TextBlock(n)) /\ TextBlock(n) \in Blocks /\ TextBlock(n).content = <<n>>
      BY <1>2, NewBlocks DEF AddText
    <2> QED  BY <2>1, BlockAppended
  <1> QED  BY <1>1, <1>2

\* A line that speaks comes after all that spoke.
LEMMA SaidGrows ==
  ASSUME ProcTypeOK, PipeInv, OrderInv, Receive
  PROVE  /\ ~Speaks(Head(events)) => Said' = Said
         /\ Speaks(Head(events)) =>
              /\ Said' = Said \cup {Head(events)}
              /\ \A d \in Said : d.line < Head(events).line
  <1> DEFINE e == Head(events)
  <1>1. /\ ToSet(got') = ToSet(got) \cup {e} /\ Origin(e)
        /\ \A d \in ToSet(got) : Origin(d) /\ (Announced \notin {d, e} => Before(script, d, e))
    BY Received, ReceivedInOrder
  <1> HIDE DEF e
  <1>2. /\ ~Speaks(e) => Said' = Said
        /\ Speaks(e) => Said' = Said \cup {e}
    BY <1>1 DEF Said, Speaks
  <1>3. ASSUME Speaks(e), NEW d \in Said PROVE d.line < e.line
    <2>1. ~Speaks(Failure) /\ ~Speaks(Announced)
      BY OtherEvents DEF Speaks, ProcTypeOK
    <2>2. d \in ToSet(got) /\ Speaks(d) /\ FromLine(d) /\ FromLine(e) /\ Before(script, d, e)
      BY <1>1, <1>3, <2>1 DEF Said, Speaks, Origin, FromElsewhere
    <2>3. e.line \in 1..Len(script.lines)
      BY <2>2, Elsewhere
    <2>4. LineOf(Translate(script, e.line), e.line)
      BY <2>3, Translated DEF ProcTypeOK
    <2>5. ~\E i, j \in DOMAIN Translate(script, e.line) :
             i < j /\ Translate(script, e.line)[i] = d /\ Translate(script, e.line)[j] = e
      <3> SUFFICES ASSUME NEW i \in DOMAIN Translate(script, e.line),
                          NEW j \in DOMAIN Translate(script, e.line), i < j,
                          Translate(script, e.line)[i] = d, Translate(script, e.line)[j] = e
                   PROVE  FALSE
        OBVIOUS
      <3>1. Translate(script, e.line) \in Seq(Events)
        BY <2>4 DEF LineOf
      <3>2. i # j
        BY <3>1
      <3> QED  BY <1>3, <2>2, <2>4, <3>2 DEF LineOf
    <2> QED  BY <2>2, <2>5 DEF Before
  <1> QED  BY <1>2, <1>3 DEF e

LEMMA BlocksAre == BlocksInv <=> /\ LinesOn(runState.blocks) = {e.line : e \in Said}
                                 /\ Rising(runState.blocks)
  BY DEF BlocksInv, OnCard, Content, LinesOn, Rising

LEMMA BlocksStep ==
  ASSUME ProcTypeOK, PipeInv, OrderInv, BlocksInv, [ProcNext]_procRunVars
  PROVE  BlocksInv'
  <1> DEFINE b == runState.blocks
             c == runState'.blocks
  <1>0. b \in Seq(Blocks) /\ runState \in RunStates
    BY DEF ProcTypeOK, RunStates
  <1>1. LinesOn(b) = {e.line : e \in Said} /\ Rising(b)
    BY BlocksAre
  <1>2. SUFFICES LinesOn(c) = {e.line : e \in Said'} /\ Rising(c)
    BY DEF BlocksInv, OnCard, Content, LinesOn, Rising
  <1>3. CASE Receive
    <2> DEFINE e == Head(events)
    <2>1. e \in Events /\ runState' = Reduce(runState, e)
      BY <1>3, Received
    <2>2. e.line \in Nat /\ e.id \in Nat
      BY <2>1, ScriptLines DEF Events, ProcTypeOK
    <2>3. /\ ~Speaks(e) => Said' = Said
          /\ Speaks(e) => Said' = Said \cup {e} /\ \A d \in Said : d.line < e.line
      BY <1>3, SaidGrows
    <2> HIDE DEF e
    <2>4. c = CASE e.type = "text" -> AddText(b, e.line)
                [] e.type = "tool_use" -> Append(closeStreamingText(b), ToolBlock(e.line, e.id))
                [] e.type = "tool_result" ->
                     PutResult(b, e.id, IF e.failed THEN "error" ELSE "done")
                [] e.type = "done" -> closeStreamingText(b)
                [] OTHER -> b
      BY <1>0, <2>1, Reduced DEF ProcTypeOK
    <2> HIDE DEF b, c
    <2>5. CASE Speaks(e)
      <3>1. \A m \in LinesOn(b) : m < e.line
        BY <1>1, <2>3, <2>5
      <3>2. {d.line : d \in Said'} = LinesOn(b) \cup {e.line}
        BY <1>1, <2>3, <2>5
      <3>3. CASE e.type = "text"
        BY <1>0, <1>1, <2>2, <2>4, <3>1, <3>2, <3>3, TextAdded
      <3>4. CASE e.type = "tool_use"
        <4> DEFINE d == closeStreamingText(b)
        <4>1. d \in Seq(Blocks) /\ LinesOn(d) = LinesOn(b) /\ Rising(d)
          BY <1>0, <1>1, ClosedBlocks, SameContents
        <4>2. ToolBlock(e.line, e.id) \in Blocks /\ ToolBlock(e.line, e.id).content = <<e.line>>
          BY <2>2, NewBlocks
        <4>3. c = Append(d, ToolBlock(e.line, e.id))
          BY <2>4, <3>4
        <4> HIDE DEF d
        <4> QED  BY <2>2, <3>1, <3>2, <4>1, <4>2, <4>3, BlockAppended
      <3> QED  BY <2>5, <3>3, <3>4 DEF Speaks
    <2>6. CASE ~Speaks(e)
      <3>1. c \in {b, closeStreamingText(b), PutResult(b, e.id, "error"), PutResult(b, e.id, "done")}
        BY <2>4, <2>6 DEF Speaks
      <3>2. LinesOn(c) = LinesOn(b) /\ Rising(c)
        BY <1>0, <1>1, <3>1, ClosedBlocks, PutBlocks, SameContents
      <3> QED  BY <1>1, <2>3, <2>6, <3>2
    <2> QED  BY <2>5, <2>6
  <1>4. CASE SeesClose
    <2>1. runState' = Finalized /\ Said' = Said
      BY <1>4 DEF SeesClose, Said
    <2>2. c = b \/ c = closeStreamingText(b)
      BY <2>1, FinalizedCard DEF ProcTypeOK, RunStates
    <2> HIDE DEF b, c
    <2> QED  BY <1>0, <1>1, <2>1, <2>2, ClosedBlocks, SameContents
  <1>5. CASE LoopAside
    BY <1>1, <1>5 DEF LoopAside, Said
  <1> QED  BY <1>3, <1>4, <1>5, LoopIsAside


------------------------------------------------------------------------------
LEMMA ProcStarts == ProcInit => ProcInv
  <1> SUFFICES ASSUME ProcInit PROVE ProcInv
    OBVIOUS
  <1>1. /\ script \in Scripts /\ Len(script.lines) \in Nat /\ Capacity \in Nat \ {0}
        /\ \A t \in TooLong : 0 < t
    BY ScriptLines, ProcRunAssumption DEF ProcInit
  <1>2. InitialState \in RunStates /\ InitialState.terminal = "running"
        /\ InitialState.blocks = << >>
    BY DEF InitialState, RunStates
  <1>3. << >> \in Seq(Events) /\ << >> \in Seq(1..Len(script.lines)) /\ Len(<< >>) = 0
        /\ DOMAIN << >> = {}
    OBVIOUS
  <1>4. ProcTypeOK
    <2>1. held \subseteq Held /\ stop \in [Stoppers -> {"no", "grace", "killed", "returned"}]
      BY DEF ProcInit
    <2>2. {quiet, exited, closed, cleanups, temp, stopped} \subseteq BOOLEAN
      BY DEF ProcInit
    <2>3. /\ line = << >> /\ events = << >> /\ got = << >> /\ pipe = << >> /\ written = 0
          /\ runState = InitialState
      BY DEF ProcInit
    <2>4. {line, events, got} \subseteq Seq(Events) /\ Len(events) <= Capacity
          /\ pipe \in Seq(1..Len(script.lines)) /\ Len(pipe) <= Capacity
          /\ written \in 0..Len(script.lines)
      BY <1>1, <1>3, <2>3
    <2> QED  BY <1>1, <1>2, <2>1, <2>2, <2>3, <2>4 DEF ProcInit, ProcTypeOK
  <1>5. Taken = 0 /\ PipeInv
    <2>1. pipe = << >> /\ written = 0 /\ reader = "scan"
      BY DEF ProcInit
    <2>2. Len(pipe) = 0 /\ DOMAIN pipe = {}
      BY <1>3, <2>1
    <2>3. Taken = 0
      <3>1. written = 0
        BY <2>1
      <3> QED  BY <2>2, <3>1 DEF Taken
    <2> QED  BY <1>1, <2>1, <2>2, <2>3 DEF PipeInv
  <1>6. DOMAIN Stream = {} /\ line = << >> /\ reader = "scan" /\ ToSet(Stream) = {}
    <2>1. got = << >> /\ events = << >> /\ line = << >> /\ reader = "scan"
      BY DEF ProcInit
    <2>2. << >> \o << >> = << >>
      OBVIOUS
    <2> QED  BY <1>3, <2>1, <2>2 DEF Stream, ToSet
  <1>7. OrderInv /\ WholeInv
    BY <1>3, <1>5, <1>6 DEF OrderInv, WholeInv
  <1>8. ExitInv
    BY <1>6 DEF ProcInit, ExitInv, Stoppers
  <1>9. ToSet(got) = {}
    BY <1>3 DEF ProcInit, ToSet
  <1>10. EndInv /\ CardTellsEnd
    BY <1>2, <1>9 DEF ProcInit, EndInv, CardTellsEnd
  <1>11. BlocksInv
    BY <1>2, <1>3, <1>9 DEF ProcInit, BlocksInv, OnCard, Said
  <1> QED  BY <1>4, <1>5, <1>7, <1>8, <1>10, <1>11 DEF ProcInv

\* ProcInv holds throughout.
THEOREM ProcInvariance == ProcSpec => []ProcInv
  <1>1. ProcInv /\ [ProcNext]_procRunVars => ProcInv'
    <2> SUFFICES ASSUME ProcInv, [ProcNext]_procRunVars PROVE ProcInv'
      OBVIOUS
    <2>1. reader = "emit" => line # << >>
      BY DEF ProcInv, OrderInv
    <2> QED  BY <2>1, ProcTypeStep, PipeStep, OrderStep, ExitStep, EndStep, TellsEndStep, BlocksStep
             DEF ProcInv
  <1> QED  BY <1>1, ProcStarts, PTL DEF ProcSpec

\* The variables of ProcRun keep their types, and the channel its capacity.
THEOREM ProcTypeCorrect == ProcSpec => []ProcTypeOK
  <1>1. ProcInv => ProcTypeOK
    BY DEF ProcInv
  <1> QED  BY <1>1, ProcInvariance, PTL

\* The card reads how the run ended: an error if the agent failed and nobody
\* stopped it, done only if it was (startProc, Reduce, runBatch).
THEOREM CardTellsEndHolds == ProcSpec => []CardTellsEnd
  <1>1. ProcInv => CardTellsEnd
    BY DEF ProcInv
  <1> QED  BY <1>1, ProcInvariance, PTL

LEMMA DeliveredIsTaken ==
  ASSUME ProcTypeOK, PipeInv, reader = "over"
  PROVE  Delivered = 1..Taken
  <1>1. /\ pipe \in Seq(1..Len(script.lines)) /\ written \in Nat /\ \A t \in TooLong : t \in Nat
    BY ScriptLines, ProcRunAssumption DEF ProcTypeOK
  <1> HIDE DEF ProcTypeOK
  <1>2. Len(pipe) \in Nat /\ DOMAIN pipe = 1..Len(pipe)
    BY <1>1, LenProperties
  <1>3. Taken \in Nat /\ Taken <= written /\ \A t \in TooLong : Taken < t
    BY <1>1, <1>2 DEF Taken, PipeInv
  <1>4. Taken + 1 \in TooLong \/ Taken = written
    <2>1. CASE GivesUp
      <3>1. 1 \in DOMAIN pipe /\ Head(pipe) = pipe[1]
        BY <1>1, <2>1, Shortened DEF GivesUp
      <3> QED  BY <2>1, <3>1 DEF GivesUp, PipeInv
    <2>2. CASE pipe = << >>
      BY <1>1, <2>2 DEF Taken
    <2> QED  BY <2>1, <2>2 DEF PipeInv
  <1>5. ASSUME NEW n \in 1..Taken PROVE n \in Delivered
    BY <1>1, <1>3 DEF Delivered
  <1>6. ASSUME NEW n \in Delivered PROVE n \in 1..Taken
    BY <1>1, <1>3, <1>4 DEF Delivered
  <1> QED  BY <1>5, <1>6

LEMMA ToldIsFromLine ==
  ASSUME ProcTypeOK, PipeInv, reader = "over"
  PROVE  \A e : e \in Told <=> FromLine(e)
  <1>1. Delivered = 1..Taken /\ Taken \in 0..Len(script.lines) /\ script \in Scripts
        /\ Len(script.lines) \in Nat
    BY DeliveredIsTaken, TakenTypes DEF ProcTypeOK
  <1>2. ASSUME NEW n \in 1..Taken, NEW e \in ToSet(Translate(script, n)) PROVE e.line = n
    <2>1. LineOf(Translate(script, n), n)
      BY <1>1, Translated
    <2> QED  BY <1>2, <2>1 DEF LineOf, ToSet
  <1>3. ASSUME NEW e, e \in Told PROVE FromLine(e)
    BY <1>1, <1>2, <1>3 DEF Told, FromLine, IsOf
  <1>4. ASSUME NEW e, FromLine(e) PROVE e \in Told
    BY <1>1, <1>4 DEF Told, FromLine, IsOf
  <1> QED  BY <1>3, <1>4

LEMMA TranscriptFollows == ProcInv => CardIsTranscript
  <1> SUFFICES ASSUME ProcInv PROVE CardIsTranscript
    OBVIOUS
  <1> USE DEF ProcInv
  <1>1. HeardInOrder
    <2>1. \A i \in DOMAIN got : i \in DOMAIN Stream /\ Stream[i] = got[i]
      <3> DEFINE g == got
                 c == events
      <3>1. g \in Seq(Events) /\ c \in Seq(Events)
        BY StreamTypes
      <3> HIDE DEF g, c
      <3>2. \A i \in DOMAIN g : i \in DOMAIN (g \o c) /\ (g \o c)[i] = g[i]
        BY <3>1
      <3> QED  BY <3>2 DEF g, c, Stream
    <2> QED  BY <2>1 DEF HeardInOrder, OrderInv
  <1>2. HeardAll
    <2> DEFINE heard == IF script.adapter = "kimi" THEN ToSet(got) \ {Announced} ELSE ToSet(got)
    <2> SUFFICES ASSUME loop = "ended" PROVE heard \in {Told, Told \union {Failure}}
      BY DEF HeardAll
    <2>1. reader = "over" /\ events = << >> /\ line = << >>
      BY DEF EndInv, ExitInv, OrderInv
    <2>2. Stream = got
      BY <2>1, StreamTypes DEF Stream
    <2>3. \A e : e \in Told <=> FromLine(e)
      BY <2>1, ToldIsFromLine
    <2>4. ASSUME NEW e \in Told PROVE e \in ToSet(got)
      <3>1. e.line \in 1..Taken /\ e \in ToSet(Translate(script, e.line))
        BY <2>3 DEF FromLine, IsOf
      <3>2. ToSet(line) = {}
        BY <2>1 DEF ToSet
      <3> QED  BY <2>2, <3>1, <3>2 DEF WholeInv
    <2>5. ASSUME NEW e \in ToSet(got)
          PROVE  e \in Told \/ (e = Announced /\ script.adapter = "kimi") \/ e = Failure
      <3>1. PICK i \in DOMAIN got : got[i] = e
        BY <2>5 DEF ToSet
      <3>2. Origin(e)
        BY <2>2, <3>1 DEF OrderInv
      <3> QED  BY <2>3, <3>2 DEF Origin, FromElsewhere
    <2>6. Announced \notin Told /\ Announced # Failure
      BY <2>3, Elsewhere
    <2>7. heard \subseteq Told \union {Failure} /\ Told \subseteq heard
      BY <2>4, <2>5, <2>6
    <2> HIDE DEF heard
    <2>8. heard = Told \/ heard = Told \union {Failure}
      BY <2>7
    <2> QED  BY <2>8
  <1>3. /\ UNION {ToSet(Content(i)) : i \in DOMAIN runState.blocks} = {e.line : e \in Said}
        /\ \A i, j \in DOMAIN runState.blocks : \A k \in DOMAIN Content(i), l \in DOMAIN Content(j) :
             i < j \/ (i = j /\ k < l) => Content(i)[k] < Content(j)[l]
    BY DEF BlocksInv, OnCard
  <1> QED  BY <1>1, <1>2, <1>3 DEF CardIsTranscript, Content

\* The card is a transcript: what the loop received came in the order of the
\* agent's lines, at the end it is all they said, and the card shows each text
\* and call once and in that order (startProc, emit, runBatch, Reduce).
THEOREM CardIsTranscriptHolds == ProcSpec => []CardIsTranscript
  BY TranscriptFollows, ProcInvariance, PTL

------------------------------------------------------------------------------
\* A run of a child process keeps what a run promises: the goroutine that sends is
\* the one that closes, and the last end in the channel stays the last until the
\* card takes it, which knows of a stop what Stop was called for.
LastIn(s) == {i \in DOMAIN s : IsEnd(s[i]) /\ \A j \in DOMAIN s : i < j => ~IsEnd(s[j])}
CardEnd(terminal) == IF terminal = "idle_timeout" THEN "interrupted" ELSE terminal
EndOf(s, terminal) == IF LastIn(s) # {} THEN s[CHOOSE i \in LastIn(s) : TRUE].type ELSE CardEnd(terminal)

LEMMA EndIsOf == /\ EndIs = EndOf(events, runState.terminal)
                 /\ EndIs' = EndOf(events', runState'.terminal)
  BY DEF EndIs, EndOf, CardEnd, LastEnd, LastIn

LEMMA LeastOf ==
  ASSUME NEW T \in SUBSET Nat, T # {}
  PROVE  \E x \in T : \A y \in T : x <= y
  <1>1. \E x \in T : \A y \in T : ~(<<y, x>> \in OpToRel(<, Nat))
    BY WFMin, NatLessThanWellFounded
  <1>2. \A x, y \in Nat : <<x, y>> \in OpToRel(<, Nat) <=> x < y
    BY SMT DEF OpToRel
  <1>3. PICK x \in T : \A y \in T : ~(<<y, x>> \in OpToRel(<, Nat))
    BY <1>1
  <1>4. ASSUME NEW y \in T PROVE x <= y
    <2>1. x \in Nat /\ y \in Nat
      OBVIOUS
    <2>2. <<y, x>> \in OpToRel(<, Nat) <=> y < x
      BY Zenon, <2>1, <1>2
    <2>3. ~(y < x)
      BY Zenon, <2>2, <1>3
    <2> QED  BY <2>1, <2>3
  <1> QED  BY <1>4

\* A channel that holds an end has a last one, and one only.
LEMMA LastIsOne ==
  ASSUME NEW s \in Seq(Events), NEW i \in LastIn(s)
  PROVE  (CHOOSE k \in LastIn(s) : TRUE) = i /\ i \in DOMAIN s /\ IsEnd(s[i])
  <1>1. i \in DOMAIN s /\ DOMAIN s \subseteq Nat /\ IsEnd(s[i])
    BY DEF LastIn
  <1>2. ASSUME NEW j \in LastIn(s) PROVE j = i
    <2>1. j \in DOMAIN s /\ ~(i < j) /\ ~(j < i)
      BY DEF LastIn
    <2> QED  BY <1>1, <2>1
  <1>3. LastIn(s) = {i}
    BY <1>2
  <1> QED  BY <1>1, <1>3

LEMMA LastOfSome ==
  ASSUME NEW s \in Seq(Events), LastIn(s) = {}
  PROVE  \A i \in DOMAIN s : ~IsEnd(s[i])
  <1> SUFFICES ASSUME NEW i \in DOMAIN s, IsEnd(s[i]) PROVE FALSE
    OBVIOUS
  <1> DEFINE Length == Len(s)
             T == {n \in Nat : n < Length /\ IsEnd(s[Length - n])}
  <1>1. Length \in Nat /\ DOMAIN s = 1..Length
    OBVIOUS
  <1>2. Length - i \in T
    BY <1>1
  <1>3. PICK n \in T : \A m \in T : n <= m
    BY <1>2, LeastOf
  <1> DEFINE k == Length - n
  <1>4. k \in DOMAIN s /\ IsEnd(s[k])
    BY <1>1, <1>3
  <1>5. ASSUME NEW j \in DOMAIN s, k < j, IsEnd(s[j]) PROVE FALSE
    <2>1. Length - j \in T /\ Length - j < n
      BY <1>1, <1>3, <1>5
    <2> QED  BY <1>1, <1>3, <2>1
  <1> HIDE DEF k
  <1>6. k \in LastIn(s)
    BY <1>4, <1>5 DEF LastIn
  <1> QED  BY <1>6

LEMMA EndOfAppended ==
  ASSUME NEW s \in Seq(Events), NEW e \in Events, NEW terminal
  PROVE  EndOf(Append(s, e), terminal) = IF IsEnd(e) THEN e.type ELSE EndOf(s, terminal)
  <1> DEFINE t == Append(s, e)
  <1>1. /\ DOMAIN t = 1..Len(s) + 1 /\ DOMAIN s = 1..Len(s) /\ Len(s) \in Nat
        /\ \A i \in DOMAIN s : i \in DOMAIN t /\ t[i] = s[i]
        /\ t[Len(s) + 1] = e
    BY Appended
  <1> HIDE DEF t
  <1>2. CASE IsEnd(e)
    <2>1. LastIn(t) = {Len(s) + 1}
      BY <1>1, <1>2 DEF LastIn
    <2> QED  BY <1>1, <1>2, <2>1 DEF EndOf, t
  <1>3. CASE ~IsEnd(e)
    <2>1. LastIn(t) = LastIn(s) /\ \A i \in LastIn(s) : t[i] = s[i]
      BY <1>1, <1>3 DEF LastIn
    <2>2. (CHOOSE i \in LastIn(t) : TRUE) = CHOOSE i \in LastIn(s) : TRUE
      BY Zenon, <2>1
    <2>3. EndOf(t, terminal) = EndOf(s, terminal)
      BY <2>1, <2>2 DEF EndOf
    <2> QED  BY <1>3, <2>3 DEF t
  <1> QED  BY <1>2, <1>3

LEMMA EndOfTail ==
  ASSUME NEW s \in Seq(Events), s # << >>, NEW terminal
  PROVE  EndOf(s, terminal) = EndOf(Tail(s), IF IsEnd(Head(s)) THEN Head(s).type ELSE terminal)
  <1> DEFINE t == Tail(s)
             h == Head(s)
  <1>1. /\ t \in Seq(Events) /\ h = s[1] /\ 1 \in DOMAIN s /\ DOMAIN s \subseteq Nat
        /\ \A i \in DOMAIN t : i # 0 /\ i \in Nat /\ i + 1 \in DOMAIN s /\ t[i] = s[i + 1]
        /\ \A i \in DOMAIN s : i # 1 => i - 1 \in DOMAIN t /\ i > 1
    BY HeadTailProperties
  <1> HIDE DEF t, h
  <1>2. IsEnd(h) => h.type \in {"done", "error"}
    BY DEF IsEnd
  <1>3. CASE LastIn(s) = {}
    <2>1. \A i \in DOMAIN s : ~IsEnd(s[i])
      BY <1>3, LastOfSome
    <2>2. LastIn(t) = {} /\ ~IsEnd(h)
      BY <1>1, <2>1 DEF LastIn
    <2> QED  BY <1>3, <2>2 DEF EndOf, t, h
  <1>4. CASE 1 \in LastIn(s)
    <2>1. (CHOOSE k \in LastIn(s) : TRUE) = 1 /\ IsEnd(h)
      BY <1>1, <1>4, LastIsOne
    <2>2. \A i \in DOMAIN t : ~IsEnd(t[i])
      BY <1>1, <1>4 DEF LastIn
    <2>3. LastIn(t) = {}
      BY <2>2 DEF LastIn
    <2>4. EndOf(s, terminal) = h.type
      BY <1>1, <1>4, <2>1 DEF EndOf
    <2>5. EndOf(t, h.type) = h.type
      BY <1>2, <2>1, <2>3 DEF EndOf, CardEnd
    <2> QED  BY <2>1, <2>4, <2>5 DEF t, h
  <1>5. ASSUME NEW i \in LastIn(s), i # 1
        PROVE  \A c : EndOf(s, terminal) = EndOf(t, c)
    <2>1. i \in DOMAIN s /\ IsEnd(s[i]) /\ \A j \in DOMAIN s : i < j => ~IsEnd(s[j])
      BY DEF LastIn
    <2>2. i - 1 \in DOMAIN t /\ t[i - 1] = s[i]
      BY <1>1, <1>5, <2>1
    <2>3. ASSUME NEW j \in DOMAIN t, i - 1 < j PROVE ~IsEnd(t[j])
      <3>1. j + 1 \in DOMAIN s /\ i < j + 1 /\ t[j] = s[j + 1]
        BY <1>1, <2>1, <2>3
      <3> QED  BY <2>1, <3>1
    <2>4. i - 1 \in LastIn(t)
      BY <2>1, <2>2, <2>3 DEF LastIn
    <2>5. (CHOOSE k \in LastIn(s) : TRUE) = i
      BY LastIsOne
    <2>6. (CHOOSE k \in LastIn(t) : TRUE) = i - 1
      BY <1>1, <2>4, LastIsOne
    <2> QED  BY <2>2, <2>4, <2>5, <2>6 DEF EndOf
  <1> QED  BY <1>3, <1>4, <1>5 DEF t, h

\* The steps that leave the loop's card alone send an event, close, stop, or none of it.
LEMMA SendsOrNot ==
  ASSUME ProcInv, [ProcNext]_procRunVars, ~Receive, ~SeesClose
  PROVE  /\ \/ UNCHANGED events
            \/ ~closed /\ \E e \in Events : events' = Append(events, e)
         /\ \/ UNCHANGED closed
            \/ closed' = TRUE /\ UNCHANGED <<events, stopped>>
         /\ UNCHANGED stopped \/ (stopped' = TRUE /\ UNCHANGED <<events, closed>>)
  <1> USE DEF procVars, readerVars, startVars, stopVars
  <1>1. Failure \in Events /\ Announced \in Events
    BY OtherEvents DEF ProcInv, ProcTypeOK
  <1>2. /\ reader = "emit" => Head(line) \in Events
        /\ closed <=> reader = "over"
    <2>1. line \in Seq(Events) /\ (reader = "emit" => line # << >>)
      BY DEF ProcInv, ProcTypeOK, OrderInv
    <2>2. closed <=> reader = "over"
      BY DEF ProcInv, ExitInv
    <2> QED  BY <2>1, <2>2, Shortened
  <1>3. CASE Agent
    BY <1>2, <1>3 DEF Agent, WriteLine, Ends, EndWell, EndBadly, DieOfSignal, BeKilled
  <1>4. CASE Emit
    <2>1. reader = "emit" /\ events' = Append(events, Head(line)) /\ UNCHANGED <<closed, stopped>>
      BY <1>4 DEF Emit, Sent, QuietReader
    <2> QED  BY <1>2, <2>1
  <1>5. CASE Report
    <2>1. reader = "report" /\ events' = Append(events, Failure) /\ UNCHANGED <<closed, stopped>>
      BY <1>5 DEF Report, QuietReader
    <2> QED  BY <1>1, <1>2, <2>1
  <1>6. CASE Scan \/ ScanEnds \/ Wait \/ CloseExited \/ RunCleanups \/ CloseEvents
    <2>1. UNCHANGED <<events, stopped>> /\ (UNCHANGED closed \/ closed' = TRUE)
      BY <1>6 DEF Scan, ScanEnds, Wait, CloseExited, RunCleanups, CloseEvents, QuietReader
    <2> QED  BY <2>1
  <1>7. CASE OnCleanup \/ AppendCleanup \/ SendModel
    <2>1. UNCHANGED <<closed, stopped>>
      BY <1>7 DEF OnCleanup, AppendCleanup, SendModel, Registers
    <2>2. UNCHANGED events \/ (~closed /\ events' = Append(events, Announced))
      BY <1>7 DEF OnCleanup, AppendCleanup, SendModel, Registers
    <2> QED  BY <1>1, <2>1, <2>2
  <1>8. CASE StopByCommand \/ Watchdog \/ Stopping
    BY <1>2, <1>8 DEF StopByCommand, Watchdog, CallStop, Stopping, StopReturns, Kill
  <1>9. CASE CardStarts \/ CardFails \/ LoopGoesOn
    BY <1>2, <1>9 DEF CardStarts, CardFails, CallStop, LoopGoesOn
  <1>10. CASE UNCHANGED procRunVars
    BY <1>2, <1>10 DEF procRunVars
  <1> QED
    BY <1>3, <1>4, <1>5, <1>6, <1>7, <1>8, <1>9, <1>10 DEF ProcNext, Reader, RunLoop

LEMMA PromisedStep ==
  ASSUME ProcInv, [ProcNext]_procRunVars
  PROVE  [Promised!Next]_(Promised!vars)
  <1>0. events \in Seq(Events) /\ ProcTypeOK /\ (loop = "ended" => closed)
    BY DEF ProcInv, ProcTypeOK, EndInv
  <1>1. CASE Receive
    <2>1. events # << >> /\ events' = Tail(events) /\ UNCHANGED <<loop, closed, stopped>>
          /\ runState' = Reduce(runState, Head(events)) /\ loop = "reading"
      BY <1>1 DEF Receive, readerVars, stopVars
    <2>2. Head(events) \in Events /\ runState \in RunStates /\ script \in Scripts
      BY <1>0, <2>1, Shortened DEF ProcTypeOK
    <2>3. runState'.terminal = IF IsEnd(Head(events)) THEN Head(events).type ELSE runState.terminal
      BY <2>1, <2>2, Reduced DEF IsEnd
    <2>4. EndIs' = EndIs
      BY <1>0, <2>1, <2>3, EndOfTail, EndIsOf
    <2> QED  BY <2>1, <2>4 DEF Promised!vars, ChannelIs
  <1>2. CASE SeesClose
    <2>1. /\ loop = "reading" /\ loop' = "ended" /\ events = << >> /\ closed /\ UNCHANGED <<events, closed, stopped>>
          /\ runState' = Finalized
      BY <1>2 DEF SeesClose, readerVars, stopVars
    <2>2. LastIn(events) = {}
      BY <2>1 DEF LastIn
    <2>3. EndIs = CardEnd(runState.terminal) /\ EndIs' = CardEnd(Finalized.terminal)
      BY <2>1, <2>2, EndIsOf DEF EndOf
    <2>4. runState \in RunStates /\ runState.terminal \in {"running", "done", "error"}
          /\ (stopped <=> stop["loop"] # "no" \/ stop["command"] # "no")
      BY <2>1 DEF ProcInv, ProcTypeOK, EndInv, ExitInv, Stoppers
    <2>5. Finalized.terminal = IF runState.terminal # "running" THEN runState.terminal
                               ELSE IF stop["loop"] # "no" THEN "idle_timeout"
                               ELSE IF stop["command"] # "no" THEN "interrupted" ELSE "done"
      BY <2>4, Marked DEF Finalized, FinalizeIfRunning
    <2>6. EndIs' = IF EndIs # "running" THEN EndIs ELSE IF stopped THEN "interrupted" ELSE "done"
      BY <2>3, <2>4, <2>5 DEF CardEnd
    <2>7. ChannelIs = "closed" /\ ChannelIs' = "over"
      BY <2>1 DEF ChannelIs
    <2> QED  BY <2>1, <2>6, <2>7 DEF Promised!Next, Promised!Conclude
  <1>3. CASE ~Receive /\ ~SeesClose
    <2>1. UNCHANGED runState /\ (loop' = "ended" <=> loop = "ended")
      BY <1>3, LoopIsAside DEF LoopAside
    <2>2. UNCHANGED <<events, closed, stopped>> => UNCHANGED Promised!vars
      BY <2>1, EndIsOf DEF Promised!vars, ChannelIs
    <2>3. ASSUME ~closed, NEW e \in Events, events' = Append(events, e), UNCHANGED <<closed, stopped>>
          PROVE  [Promised!Next]_(Promised!vars)
      <3>1. EndIs' = IF IsEnd(e) THEN e.type ELSE EndIs
        BY <1>0, <2>1, <2>3, EndOfAppended, EndIsOf
      <3>2. ChannelIs = "open" /\ ChannelIs' = "open"
        BY <1>0, <2>1, <2>3 DEF ChannelIs
      <3>3. CASE IsEnd(e)
        <4>1. EndIs' \in {"done", "error"}
          BY <3>1, <3>3 DEF IsEnd
        <4> QED
          BY <2>3, <3>2, <4>1 DEF Promised!Next, Promised!Tell, Promised!Tells, Promised!Ends
      <3> QED  BY <2>3, <3>1, <3>2, <3>3 DEF Promised!vars
    <2>4. ASSUME ~closed, closed' = TRUE, UNCHANGED <<events, stopped>>
          PROVE  [Promised!Next]_(Promised!vars)
      <3>1. EndIs' = EndIs /\ ChannelIs = "open" /\ ChannelIs' = "closed"
        BY <1>0, <2>1, <2>4, EndIsOf DEF ChannelIs
      <3> QED  BY <2>4, <3>1 DEF Promised!Next, Promised!Close
    <2>5. ASSUME stopped' = TRUE, UNCHANGED <<events, closed>>
          PROVE  [Promised!Next]_(Promised!vars)
      <3>1. EndIs' = EndIs /\ ChannelIs' = ChannelIs /\ ChannelIs # "none"
        BY <2>1, <2>5, EndIsOf DEF ChannelIs
      <3> QED  BY <2>5, <3>1 DEF Promised!Next, Promised!Stop
    <2>6. /\ \/ UNCHANGED events
             \/ ~closed /\ \E e \in Events : events' = Append(events, e)
          /\ \/ UNCHANGED closed
             \/ closed' = TRUE /\ UNCHANGED <<events, stopped>>
          /\ UNCHANGED stopped \/ (stopped' = TRUE /\ UNCHANGED <<events, closed>>)
      BY <1>3, SendsOrNot
    <2>7. closed \in BOOLEAN
      BY <1>0 DEF ProcTypeOK
    <2> QED  BY <2>2, <2>3, <2>4, <2>5, <2>6, <2>7
  <1> QED  BY <1>1, <1>2, <1>3

\* A run of a child process (startProc, Stop and runBatch) keeps what a run promises
\* (AgentRun): its channel is closed once, ends are told before, and the card reads
\* the last of them; where none was told, that the run was stopped if it was.
THEOREM ProcRefinement == ProcSpec => ImplementsAgentRun
  <1>1. ProcInit => Promised!Init
    <2> SUFFICES ASSUME ProcInit PROVE Promised!Init
      OBVIOUS
    <2>1. events = << >> /\ runState.terminal = "running" /\ loop = "starting" /\ closed = FALSE /\ stopped = FALSE
      BY DEF ProcInit, InitialState
    <2>2. EndIs = "running"
      BY <2>1, EndIsOf DEF EndOf, LastIn, CardEnd
    <2> QED  BY <2>1, <2>2 DEF Promised!Init, ChannelIs
  <1>2. ProcInv /\ [ProcNext]_procRunVars => [Promised!Next]_(Promised!vars)
    BY PromisedStep
  <1> QED
    BY <1>1, <1>2, ProcInvariance, PTL DEF ProcSpec, ImplementsAgentRun, Promised!Spec
=============================================================================
