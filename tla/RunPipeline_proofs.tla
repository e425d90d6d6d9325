-------------------------- MODULE RunPipeline_proofs --------------------------
(***************************************************************************)
(* Proofs about RunPipeline for any number of scopes, messages and         *)
(* commands: StopIsTrue, NoAgentLeft and SessionIsKept.  What carries all  *)
(* three is that the queue lets one batch of a scope be at work            *)
(* (QueueInv); the rest follows a run from one place of its code to the    *)
(* next.                                                                   *)
(***************************************************************************)
EXTENDS RunPipeline, SequenceTheorems, TLAPS

Early == {"idle", "queued", "merged", "reading", "launching", "launched"}
AtWork == {"starting", "looping", "asking", "firing", "halting"}
Leave == {"cleaning", "sweeping", "unblocking", "done"}
Active == {"reading", "launching", "launched", "starting", "looping", "asking", "firing",
           "halting", "merging", "saving", "cleaning", "sweeping", "unblocking"}

\* What waits in a scope is queued there, and once; the batch at work is named
\* by its run.
QueueInv ==
  /\ \A s \in Scopes : \A i, j \in DOMAIN waiting[s] :
       /\ ScopeOf[waiting[s][i]] = s
       /\ pc[waiting[s][i]] = "queued"
       /\ waiting[s][i] = waiting[s][j] => i = j
  /\ \A m \in Messages : pc[m] \in Active =>
       current[ScopeOf[m]] # <<>> /\ current[ScopeOf[m]][1] = m

\* Where a run's agent may be alive, and where only if it was told to stop.
AgentInv == \A r \in Runs :
  /\ pc[r] \in Early \ {"launched"} => agent[r] = "none"
  /\ pc[r] \in {"merging", "saving"} => ~Alive(r)
  /\ pc[r] \in Leave /\ Alive(r) => stopped[r]

\* A run is in runs, in the hand of a command, or stopped only after it was
\* entered in runs; only a stopped agent is killed.
PublishedInv ==
  /\ \A s \in Scopes : runs[s] # NoRun =>
       ScopeOf[runs[s]] = s /\ pc[runs[s]] \notin Early
  /\ \A c \in Commands : cpc[c] \in {"sweep", "stop"} =>
       ScopeOf[victim[c]] = ScopeOf[c] /\ pc[victim[c]] \notin Early
  /\ \A r \in Runs : pc[r] \in Early => ~stopped[r]
  /\ \A r \in Runs : agent[r] = "killed" => stopped[r]

\* A run that is stopped, or about to be, has lost its entry in runs, and the
\* watchdog's mark tells it apart from one that a command took.
StopInv ==
  /\ StopReachesRun
  /\ \A r \in Runs : pc[r] \in AtWork /\ (stopped[r] \/ InHand(r)) =>
       runs[ScopeOf[r]] = NoRun
  /\ StopIsShown
  /\ \A r \in Runs : card[r] = "done" => pc[r] \notin Early /\ pc[r] \notin AtWork

\* Nobody but the batch at work touches the session of its scope.
Quiet == \A c \in Commands : cpc[c] = "idle" \/ KindOf[c] = "stop"

Reported(r) == newSess[r].sid # NoSid

SessionInv ==
  /\ \A c \in Commands : cpc[c] = "put" => KindOf[c] # "stop"
  /\ \A r \in Runs : pc[r] \in Early \cup {"starting"} => ~Reported(r)
  /\ \A r \in Runs : Quiet =>
       /\ pc[r] \in {"launching", "launched", "merging", "saving"} \cup AtWork =>
            /\ base[r].sid = sess[ScopeOf[r]].sid
            /\ Reported(r) => newSess[r].sid = IF base[r].sid = NoSid THEN r ELSE base[r].sid
       /\ pc[r] \in Leave /\ Reported(r) => sess[ScopeOf[r]].sid = newSess[r].sid

IInv == TypeOK /\ QueueInv /\ AgentInv /\ PublishedInv /\ StopInv /\ SessionInv

------------------------------------------------------------------------------
LEMMA Constants ==
  /\ Messages = Runs /\ NoRun \notin Runs /\ NoSid \notin Runs
  /\ \A x \in Runs \cup Commands : ScopeOf[x] \in Scopes
  /\ \A r \in Runs : ScopeOf[r] \in Scopes
  /\ \A c \in Commands : ScopeOf[c] \in Scopes /\ KindOf[c] \in Kinds
  BY PipelineAssumption DEF Runs

LEMMA NoSessionIsSession == NoSession \in Sessions
  BY DEF NoSession, Sessions, Settings

\* What a new batch does to the two sequences of its scope.
LEMMA BatchTypes ==
  ASSUME NEW S, NEW w \in Seq(S), NEW n \in DOMAIN w
  PROVE  /\ SubSeq(w, 1, n) \in Seq(S) /\ SubSeq(w, 1, n) # <<>>
         /\ SubSeq(w, 1, n)[1] = w[1] /\ 1 \in DOMAIN w /\ w[1] \in S
         /\ SubSeq(w, n + 1, Len(w)) \in Seq(S)
         /\ Len(SubSeq(w, n + 1, Len(w))) = Len(w) - n
         /\ \A i \in 1..(Len(w) - n) : SubSeq(w, n + 1, Len(w))[i] = w[n + i]
  <1>1. Len(w) \in Nat /\ DOMAIN w = 1..Len(w) /\ n \in 1..Len(w) /\ 1 \in 1..Len(w)
    BY LenProperties
  <1>2. /\ SubSeq(w, 1, n) \in Seq(S) /\ Len(SubSeq(w, 1, n)) = n /\ SubSeq(w, 1, n)[1] = w[1]
    BY <1>1, SubSeqProperties
  <1>3. /\ SubSeq(w, n + 1, Len(w)) \in Seq(S)
        /\ Len(SubSeq(w, n + 1, Len(w))) = Len(w) - n
        /\ \A i \in 1..(Len(w) - n) : SubSeq(w, n + 1, Len(w))[i] = w[n + i]
    BY <1>1, SubSeqProperties, SMTT(30)
  <1>4. w[1] \in S
    BY <1>1, ElementOfSeq
  <1> QED
    BY <1>1, <1>2, <1>3, <1>4, EmptySeq

------------------------------------------------------------------------------
Agents == {"none", "live", "hung", "deaf", "finished", "killed"}
Cards == {"none", "live", "error", "done", "interrupted", "idle_timeout"}

LEMMA TypeInit == Init => TypeOK
  BY NoSessionIsSession, EmptySeq DEF Init, TypeOK, Labels, Queue!Init

LEMMA TypeStep == TypeOK /\ [Next]_vars => TypeOK'
  <1> SUFFICES ASSUME TypeOK, [Next]_vars PROVE TypeOK'
    OBVIOUS
  <1> USE Constants DEF TypeOK, At, Goto, CommandAt, Labels, queueVars, cmdVars, runVars
  <1>1. ASSUME NEW m \in Messages, Send(m) PROVE TypeOK'
    <2>1. waiting' \in [Scopes -> Seq(Messages)] /\ current' = current
      BY <1>1, AppendProperties DEF Send, Queue!Accept
    <2> QED
      BY <1>1, <2>1 DEF Send
  <1>2. ASSUME NEW s \in Scopes, NEW n \in DOMAIN waiting[s], Begin(s, n) PROVE TypeOK'
    <2>1. /\ waiting' \in [Scopes -> Seq(Messages)]
          /\ current' \in [Scopes -> Seq(Messages)]
      <3> DEFINE w == waiting[s]
      <3>1. w \in Seq(Messages) /\ n \in DOMAIN w
        BY <1>2
      <3>2. /\ current' = [current EXCEPT ![s] = SubSeq(w, 1, n)]
            /\ waiting' = [waiting EXCEPT ![s] = SubSeq(w, n + 1, Len(w))]
        BY <1>2 DEF Begin, Queue!Start
      <3> HIDE DEF w
      <3>3. SubSeq(w, 1, n) \in Seq(Messages) /\ SubSeq(w, n + 1, Len(w)) \in Seq(Messages)
        BY <3>1, BatchTypes
      <3> QED
        BY <3>2, <3>3
    <2>2. pc' \in [Runs -> Labels]
      BY <1>2 DEF Begin
    <2> QED
      BY <1>2, <2>1, <2>2 DEF Begin
  <1>4. ASSUME NEW r \in Runs, ReadSession(r) PROVE TypeOK'
    <2>1. sess[ScopeOf[r]] \in Sessions
      OBVIOUS
    <2>2. [sess[ScopeOf[r]] EXCEPT !.sid = NoSid] \in Sessions
      BY <2>1 DEF Sessions
    <2>3. base' \in [Runs -> Sessions] /\ newSess' \in [Runs -> Sessions]
      BY <1>4, <2>1, <2>2 DEF ReadSession
    <2>4. pc' \in [Runs -> Labels]
      BY <1>4 DEF ReadSession
    <2> QED
      BY <1>4, <2>3, <2>4 DEF ReadSession
  <1>5. ASSUME NEW r \in Runs, Launch(r) PROVE TypeOK'
    <2>1. pc' \in [Runs -> Labels] /\ agent' \in [Runs -> Agents]
      BY <1>5 DEF Launch, Agents
    <2> QED
      BY <1>5, <2>1 DEF Launch, Agents
  <1>5a. ASSUME NEW r \in Runs, LaunchFails(r) PROVE TypeOK'
    BY <1>5a DEF LaunchFails
  <1>6. ASSUME NEW r \in Runs, Publish(r) PROVE TypeOK'
    BY <1>6 DEF Publish
  <1>6a. ASSUME NEW r \in Runs, StartCard(r) PROVE TypeOK'
    BY <1>6a DEF StartCard
  <1>6b. ASSUME NEW r \in Runs, StartCardFails(r) PROVE TypeOK'
    BY <1>6b DEF StartCardFails
  <1>7. ASSUME NEW r \in Runs, NEW a \in {"hung", "deaf", "finished", "killed"}, AgentDoes(r, a)
        PROVE  TypeOK'
    BY <1>7 DEF AgentDoes
  <1>8. ASSUME NEW r \in Runs, SessionEvent(r) PROVE TypeOK'
    <2>1. newSess' \in [Runs -> Sessions]
      <3>1. newSess[r] \in Sessions /\ base[r] \in Sessions
        OBVIOUS
      <3>2. base[r].sid \in Runs \cup {NoSid}
        BY <3>1 DEF Sessions
      <3>3. \A x \in Runs \cup {NoSid} : [newSess[r] EXCEPT !.sid = x] \in Sessions
        BY <3>1 DEF Sessions
      <3>4. \E x \in Runs \cup {NoSid} :
              newSess' = [newSess EXCEPT ![r] = [newSess[r] EXCEPT !.sid = x]]
        BY <1>8, <3>2 DEF SessionEvent
      <3> QED
        BY <3>3, <3>4
    <2> QED
      BY <1>8, <2>1 DEF SessionEvent
  <1>8a. ASSUME NEW r \in Runs, ModelEvent(r) PROVE TypeOK'
    <2>1. newSess' \in [Runs -> Sessions]
      <3>1. newSess[r] \in Sessions /\ "reported" \in Settings
        BY DEF Settings
      <3>2. [newSess[r] EXCEPT !.model = "reported"] \in Sessions
        BY <3>1 DEF Sessions
      <3>3. newSess' = [newSess EXCEPT ![r] = [newSess[r] EXCEPT !.model = "reported"]]
        BY <1>8a DEF ModelEvent
      <3> QED
        BY <3>2, <3>3
    <2> QED
      BY <1>8a, <2>1 DEF ModelEvent
  <1>9. ASSUME NEW r \in Runs, AskEvent(r) PROVE TypeOK'
    BY <1>9 DEF AskEvent
  <1>9a. ASSUME NEW r \in Runs, AskSettles(r) PROVE TypeOK'
    BY <1>9a DEF AskSettles
  <1>9b. ASSUME NEW r \in Runs, AskReturns(r) PROVE TypeOK'
    BY <1>9b DEF AskReturns
  <1>10. ASSUME NEW r \in Runs, WatchdogFires(r) PROVE TypeOK'
    BY <1>10 DEF WatchdogFires
  <1>10a. ASSUME NEW r \in Runs, WatchdogStops(r) PROVE TypeOK'
    BY <1>10a DEF WatchdogStops
  <1>10b. ASSUME NEW r \in Runs, StopReturns(r) PROVE TypeOK'
    BY <1>10b DEF StopReturns
  <1>11. ASSUME NEW r \in Runs, Finalize(r) PROVE TypeOK'
    <2>1. Terminal(r) \in {"done", "interrupted", "idle_timeout"}
      BY DEF Terminal
    <2> QED
      BY <1>11, <2>1 DEF Finalize
  <1>12. ASSUME NEW r \in Runs, MergeModel(r) PROVE TypeOK'
    <2>1. newSess' \in [Runs -> Sessions]
      <3>1. newSess[r] \in Sessions /\ sess[ScopeOf[r]] \in Sessions
        OBVIOUS
      <3>2. sess[ScopeOf[r]].model \in Settings /\ newSess[r].model \in Settings
        BY <3>1 DEF Sessions
      <3>3. \A x \in Settings : [newSess[r] EXCEPT !.model = x] \in Sessions
        BY <3>1 DEF Sessions
      <3>4. \E x \in Settings :
              newSess' = [newSess EXCEPT ![r] = [newSess[r] EXCEPT !.model = x]]
        BY <1>12, <3>2 DEF MergeModel
      <3> QED
        BY <3>3, <3>4
    <2> QED
      BY <1>12, <2>1 DEF MergeModel
  <1>13. ASSUME NEW r \in Runs, SaveSession(r) PROVE TypeOK'
    BY <1>13 DEF SaveSession, Stored
  <1>14. ASSUME NEW r \in Runs, Cleanup(r) PROVE TypeOK'
    BY <1>14 DEF Cleanup
  <1>15. ASSUME NEW r \in Runs, InvalidateAsks(r) PROVE TypeOK'
    BY <1>15 DEF InvalidateAsks, Swept
  <1>16. ASSUME NEW r \in Runs, Unblock(r) PROVE TypeOK'
    BY <1>16, EmptySeq DEF Unblock, Queue!Finish
  <1>17. ASSUME NEW c \in Commands, NEW l \in {"stop", "done", "apply", "put", "sweep"},
                CommandGoto(c, l)
         PROVE  cpc' \in [Commands -> {"idle", "sweep", "stop", "apply", "put", "done"}]
                /\ begun' \in [Commands -> SUBSET Runs]
                /\ cpc' = [cpc EXCEPT ![c] = l]
    BY <1>17 DEF CommandGoto
  <1>18. ASSUME NEW c \in Commands, TakeRun(c) PROVE TypeOK'
    <2>1. PICK l \in {"stop", "done", "apply", "put", "sweep"} :
            CommandGoto(c, l) /\ (l = "sweep" => runs[ScopeOf[c]] # NoRun) /\ l # "stop"
      BY <1>18 DEF TakeRun, AfterStop
    <2> QED
      BY <1>17, <1>18, <2>1 DEF TakeRun
  <1>19. ASSUME NEW c \in Commands, Sweep(c) PROVE TypeOK'
    <2>1. ask' \in [Runs -> {"none", "open", "settled"}]
      BY <1>19 DEF Sweep, Swept
    <2> QED
      BY <1>17, <1>19, <2>1 DEF Sweep
  <1>20. ASSUME NEW c \in Commands, StopVictim(c) PROVE TypeOK'
    <2>1. PICK l \in {"done", "apply"} : CommandGoto(c, l)
      BY <1>20 DEF StopVictim, AfterStop
    <2> QED
      BY <1>17, <1>20, <2>1 DEF StopVictim
  <1>21. ASSUME NEW c \in Commands, ResetSession(c) PROVE TypeOK'
    BY <1>17, <1>21, NoSessionIsSession DEF ResetSession
  <1>22. ASSUME NEW c \in Commands, ReadDraft(c) PROVE TypeOK'
    BY <1>17, <1>22 DEF ReadDraft
  <1>23. ASSUME NEW c \in Commands, PutSession(c) PROVE TypeOK'
    <2>1. /\ [draft[c] EXCEPT !.mode = c] \in Sessions
          /\ [draft[c] EXCEPT !.model = c] \in Sessions
      <3>1. draft[c] \in Sessions /\ c \in Settings
        BY DEF Settings
      <3> QED
        BY <3>1 DEF Sessions
    <2>2. sess' \in [Scopes -> Sessions]
      BY <1>23, <2>1 DEF PutSession
    <2> QED
      BY <1>17, <1>23, <2>2 DEF PutSession
  <1>24. CASE UNCHANGED vars
    BY <1>24 DEF vars
  <1>25. ASSUME NEW r \in Runs, RunStep(r) PROVE TypeOK'
    BY <1>4, <1>5, <1>5a, <1>6, <1>6a, <1>6b, <1>9b, <1>10a, <1>11, <1>12, <1>13, <1>14, <1>15,
       <1>16, <1>25 DEF RunStep
  <1>26. ASSUME NEW r \in Runs, AgentStep(r) \/ AskSettles(r) PROVE TypeOK'
    BY <1>7, <1>8, <1>8a, <1>9, <1>9a, <1>26 DEF AgentStep, AgentHangs, AgentFinishes, AgentDies
  <1>27. ASSUME NEW c \in Commands, CommandStep(c) PROVE TypeOK'
    BY <1>19, <1>20, <1>21, <1>22, <1>23, <1>27 DEF CommandStep
  <1> QED
    BY <1>1, <1>2, <1>10, <1>10b, <1>18, <1>24, <1>25, <1>26, <1>27 DEF Next, BeginSome

------------------------------------------------------------------------------
\* Where a run goes in one step, whoever takes it, and what comes with it.
Path(r) ==
  \/ pc'[r] = pc[r]
  \/ pc[r] = "idle" /\ pc'[r] = "queued"
  \/ pc[r] = "queued" /\ pc'[r] \in {"reading", "merged"}
  \/ pc[r] = "reading" /\ ReadSession(r)
  \/ pc[r] = "launching" /\ Launch(r)
  \/ pc[r] \in {"reading", "launching"} /\ LaunchFails(r)
  \/ pc[r] = "launched" /\ Publish(r)
  \/ pc[r] = "starting" /\ StartCard(r)
  \/ pc[r] = "starting" /\ StartCardFails(r)
  \/ pc[r] = "looping" /\ AskEvent(r)
  \/ pc[r] \in {"asking", "halting"} /\ pc'[r] = "looping"
  \/ pc[r] = "looping" /\ WatchdogFires(r)
  \/ pc[r] = "firing" /\ WatchdogStops(r)
  \/ pc[r] = "looping" /\ Finalize(r)
  \/ pc[r] = "merging" /\ MergeModel(r)
  \/ pc[r] = "saving" /\ SaveSession(r)
  \/ pc[r] = "cleaning" /\ pc'[r] = "sweeping"
  \/ pc[r] = "sweeping" /\ pc'[r] = "unblocking"
  \/ pc[r] = "unblocking" /\ pc'[r] = "done"

\* Begin starts the run of the first message of the batch and merges others.
LEMMA BatchBegins ==
  ASSUME TypeOK, QueueInv, NEW s \in Scopes, NEW n \in DOMAIN waiting[s], Begin(s, n)
  PROVE  /\ waiting[s][1] \in Messages /\ ScopeOf[waiting[s][1]] = s
         /\ pc[waiting[s][1]] = "queued" /\ pc'[waiting[s][1]] = "reading"
         /\ \A r \in Runs : \/ r = waiting[s][1]
                            \/ pc'[r] = pc[r]
                            \/ pc[r] = "queued" /\ pc'[r] = "merged"
         /\ current[s] = <<>> /\ current'[s] # <<>> /\ current'[s][1] = waiting[s][1]
         /\ \A t \in Scopes : t # s => current'[t] = current[t] /\ waiting'[t] = waiting[t]
         /\ \A i \in DOMAIN waiting'[s] :
              /\ n + i \in DOMAIN waiting[s] /\ waiting'[s][i] = waiting[s][n + i]
              /\ pc'[waiting'[s][i]] = "queued"
  <1> DEFINE w == waiting[s]
  <1>1. w \in Seq(Messages) /\ current \in [Scopes -> Seq(Messages)]
        /\ waiting \in [Scopes -> Seq(Messages)] /\ pc \in [Runs -> Labels]
    BY DEF TypeOK
  <1>2. /\ SubSeq(w, 1, n) # <<>> /\ SubSeq(w, 1, n)[1] = w[1]
        /\ 1 \in DOMAIN w /\ w[1] \in Messages
        /\ SubSeq(w, n + 1, Len(w)) \in Seq(Messages)
        /\ Len(SubSeq(w, n + 1, Len(w))) = Len(w) - n
        /\ \A i \in 1..(Len(w) - n) : SubSeq(w, n + 1, Len(w))[i] = w[n + i]
    <2>1. w \in Seq(Messages) /\ n \in DOMAIN w
      BY <1>1
    <2> HIDE DEF w
    <2> QED
      BY <2>1, BatchTypes
  <1>3. DOMAIN w = 1..Len(w) /\ Len(w) \in Nat /\ n \in 1..Len(w)
    BY <1>1, LenProperties
  <1>4. /\ current[s] = <<>> /\ current' = [current EXCEPT ![s] = SubSeq(w, 1, n)]
        /\ waiting' = [waiting EXCEPT ![s] = SubSeq(w, n + 1, Len(w))]
        /\ pc' = [r \in Runs |-> IF r = w[1] THEN "reading"
                                 ELSE IF \E i \in 2..n : r = w[i] THEN "merged" ELSE pc[r]]
    BY DEF Begin, Queue!Start
  <1>5. \A i, j \in DOMAIN w : /\ ScopeOf[w[i]] = s /\ pc[w[i]] = "queued"
                               /\ w[i] = w[j] => i = j
    BY DEF QueueInv
  <1>6. \A i \in DOMAIN w : w[i] \in Messages /\ w[i] \in Runs
    BY <1>1, <1>3, ElementOfSeq, Constants
  <1>7. \A i \in 2..n : i \in DOMAIN w
    BY <1>3
  <1>8. /\ DOMAIN waiting'[s] = 1..(Len(w) - n)
        /\ \A i \in DOMAIN waiting'[s] : n + i \in DOMAIN w /\ waiting'[s][i] = w[n + i]
    <2>1. waiting'[s] = SubSeq(w, n + 1, Len(w))
      BY <1>1, <1>4
    <2>2. DOMAIN waiting'[s] = 1..(Len(w) - n)
      BY <2>1, <1>2, LenProperties
    <2>3. \A i \in 1..(Len(w) - n) : n + i \in 1..Len(w)
      BY <1>3
    <2>4. \A i \in 1..(Len(w) - n) : waiting'[s][i] = w[n + i]
      BY <2>1, <1>2
    <2> QED
      BY <2>2, <2>3, <2>4, <1>3
  <1>9. \A i \in DOMAIN waiting'[s] : pc'[waiting'[s][i]] = "queued"
    <2> SUFFICES ASSUME NEW i \in DOMAIN waiting'[s] PROVE pc'[w[n + i]] = "queued"
      BY <1>8
    <2>1. n + i \in DOMAIN w /\ i \in 1..(Len(w) - n) /\ w[n + i] \in Runs
      BY <1>6, <1>8
    <2>2. w[n + i] # w[1] /\ \A j \in 2..n : w[n + i] # w[j]
      <3>1. n + i # 1 /\ \A j \in 2..n : n + i # j
        BY <2>1, <1>3
      <3> QED
        BY <3>1, <2>1, <1>2, <1>5, <1>7
    <2> QED
      BY <2>1, <2>2, <1>4, <1>5
  <1>10. \A r \in Runs : \/ r = w[1] \/ pc'[r] = pc[r]
                         \/ pc[r] = "queued" /\ pc'[r] = "merged"
    BY <1>4, <1>5, <1>7
  <1>11. pc'[w[1]] = "reading"
    BY <1>2, <1>4, <1>6
  <1>12. /\ current'[s] # <<>> /\ current'[s][1] = w[1]
         /\ \A t \in Scopes : t # s => current'[t] = current[t] /\ waiting'[t] = waiting[t]
    <2>1. current'[s] = SubSeq(w, 1, n)
      BY <1>1, <1>4
    <2>2. \A t \in Scopes : t # s => current'[t] = current[t] /\ waiting'[t] = waiting[t]
      BY <1>1, <1>4
    <2> QED
      BY <1>2, <2>1, <2>2
  <1>13. w[1] \in Messages /\ ScopeOf[w[1]] = s /\ pc[w[1]] = "queued"
    BY <1>2, <1>5
  <1>14. \A i \in DOMAIN waiting'[s] : /\ n + i \in DOMAIN w /\ waiting'[s][i] = w[n + i]
                                       /\ pc'[waiting'[s][i]] = "queued"
    BY <1>8, <1>9
  <1>15. current[s] = <<>>
    BY <1>4
  <1> QED
    BY <1>10, <1>11, <1>12, <1>13, <1>14, <1>15

LEMMA PathStep ==
  ASSUME TypeOK, QueueInv, [Next]_vars, NEW r \in Runs
  PROVE  Path(r)
  <1> USE DEF At, Goto, Path
  <1>0. pc \in [Runs -> Labels]
    BY DEF TypeOK
  <1>1. ASSUME NEW m \in Messages, Send(m) PROVE Path(r)
    BY <1>0, <1>1 DEF Send
  <1>2. ASSUME NEW s \in Scopes, NEW n \in DOMAIN waiting[s], Begin(s, n) PROVE Path(r)
    BY <1>2, BatchBegins
  <1>3. ASSUME NEW x \in Runs, WatchdogFires(x) \/ WatchdogStops(x) \/ StopReturns(x)
        PROVE  Path(r)
    <2>1. x = r \/ pc'[r] = pc[r]
      BY <1>0, <1>3 DEF WatchdogFires, WatchdogStops, StopReturns
    <2>2. x = r => \/ pc[r] = "looping" /\ WatchdogFires(r)
                   \/ pc[r] = "firing" /\ WatchdogStops(r)
                   \/ pc[r] = "halting" /\ pc'[r] = "looping"
      BY <1>0, <1>3 DEF WatchdogFires, WatchdogStops, StopReturns
    <2> QED
      BY <2>1, <2>2
  <1>4. ASSUME NEW x \in Runs, ReadSession(x) \/ Launch(x) \/ LaunchFails(x) \/ Publish(x)
        PROVE  Path(r)
    <2>1. x = r \/ pc'[r] = pc[r]
      BY <1>0, <1>4 DEF ReadSession, Launch, LaunchFails, Publish
    <2>2. x = r => \/ pc[r] = "reading" /\ ReadSession(r)
                   \/ pc[r] = "launching" /\ Launch(r)
                   \/ pc[r] \in {"reading", "launching"} /\ LaunchFails(r)
                   \/ pc[r] = "launched" /\ Publish(r)
      BY <1>4 DEF ReadSession, Launch, LaunchFails, Publish
    <2> QED
      BY <2>1, <2>2
  <1>5. ASSUME NEW x \in Runs, StartCard(x) \/ StartCardFails(x) \/ Finalize(x) \/ AskEvent(x)
        PROVE  Path(r)
    <2>1. x = r \/ pc'[r] = pc[r]
      BY <1>0, <1>5 DEF StartCard, StartCardFails, Finalize, AskEvent
    <2>2. x = r => \/ pc[r] = "starting" /\ StartCard(r)
                   \/ pc[r] = "starting" /\ StartCardFails(r)
                   \/ pc[r] = "looping" /\ Finalize(r)
                   \/ pc[r] = "looping" /\ AskEvent(r)
      BY <1>5 DEF StartCard, StartCardFails, Finalize, AskEvent
    <2> QED
      BY <2>1, <2>2
  <1>6. ASSUME NEW x \in Runs, MergeModel(x) \/ SaveSession(x) \/ AskReturns(x)
        PROVE  Path(r)
    <2>1. x = r \/ pc'[r] = pc[r]
      BY <1>0, <1>6 DEF MergeModel, SaveSession, AskReturns
    <2>2. x = r => \/ pc[r] = "merging" /\ MergeModel(r)
                   \/ pc[r] = "saving" /\ SaveSession(r)
                   \/ pc[r] = "asking" /\ pc'[r] = "looping"
      BY <1>0, <1>6 DEF MergeModel, SaveSession, AskReturns
    <2> QED
      BY <2>1, <2>2
  <1>7. ASSUME NEW x \in Runs, Cleanup(x) PROVE Path(r)
    BY <1>0, <1>7 DEF Cleanup
  <1>8. ASSUME NEW x \in Runs, InvalidateAsks(x) PROVE Path(r)
    BY <1>0, <1>8 DEF InvalidateAsks
  <1>9. ASSUME NEW x \in Runs, Unblock(x) PROVE Path(r)
    BY <1>0, <1>9 DEF Unblock
  <1>10. ASSUME NEW x \in Runs,
                \/ AgentHangs(x) \/ AgentFinishes(x) \/ AgentDies(x)
                \/ SessionEvent(x) \/ ModelEvent(x) \/ AskSettles(x)
         PROVE  Path(r)
    BY <1>10 DEF AgentHangs, AgentFinishes, AgentDies, AgentDoes, SessionEvent, ModelEvent,
                 AskSettles
  <1>11. ASSUME NEW c \in Commands, TakeRun(c) \/ CommandStep(c) PROVE Path(r)
    BY <1>11 DEF TakeRun, CommandStep, Sweep, StopVictim, ResetSession, ReadDraft, PutSession,
                 runVars
  <1>12. CASE UNCHANGED vars
    BY <1>12 DEF vars, runVars
  <1>13. ASSUME Next PROVE Path(r)
    BY <1>1, <1>2, <1>3, <1>4, <1>5, <1>6, <1>7, <1>8, <1>9, <1>10, <1>11, <1>13
       DEF Next, BeginSome, RunStep, AgentStep
  <1> QED
    BY <1>12, <1>13

\* Where the steps of a run lead it.
LEMMA PathEnds ==
  ASSUME TypeOK, NEW r \in Runs
  PROVE  /\ ReadSession(r) => pc'[r] = "launching"
         /\ Launch(r) => pc'[r] = "launched"
         /\ LaunchFails(r) => pc'[r] = "unblocking"
         /\ Publish(r) => pc'[r] = "starting"
         /\ StartCard(r) => pc'[r] = "looping"
         /\ StartCardFails(r) => pc'[r] = "cleaning"
         /\ AskEvent(r) => pc'[r] = "asking"
         /\ WatchdogFires(r) => pc'[r] = "firing"
         /\ WatchdogStops(r) => pc'[r] = "halting"
         /\ Finalize(r) => pc'[r] = "merging"
         /\ MergeModel(r) => pc'[r] = "saving"
         /\ SaveSession(r) => pc'[r] = "cleaning"
  <1>0. pc \in [Runs -> Labels]
    BY DEF TypeOK
  <1>1. /\ ReadSession(r) => pc'[r] = "launching"
        /\ Launch(r) => pc'[r] = "launched"
        /\ LaunchFails(r) => pc'[r] = "unblocking"
        /\ Publish(r) => pc'[r] = "starting"
        /\ StartCard(r) => pc'[r] = "looping"
        /\ StartCardFails(r) => pc'[r] = "cleaning"
    BY <1>0 DEF ReadSession, Launch, LaunchFails, Publish, StartCard, StartCardFails, Goto
  <1>2. /\ AskEvent(r) => pc'[r] = "asking"
        /\ WatchdogFires(r) => pc'[r] = "firing"
        /\ WatchdogStops(r) => pc'[r] = "halting"
        /\ Finalize(r) => pc'[r] = "merging"
        /\ MergeModel(r) => pc'[r] = "saving"
        /\ SaveSession(r) => pc'[r] = "cleaning"
    BY <1>0 DEF AskEvent, WatchdogFires, WatchdogStops, Finalize, MergeModel, SaveSession, Goto
  <1> QED
    BY <1>1, <1>2

\* Nobody comes back: to where it has not begun, to where it is not in runs
\* yet, or from its end.
LEMMA NoWayBack ==
  ASSUME TypeOK, QueueInv, [Next]_vars, NEW r \in Runs
  PROVE  /\ pc'[r] = "idle" => pc[r] = "idle"
         /\ pc'[r] \in Early => pc[r] \in Early
         /\ pc'[r] \in Early \cup {"starting"} => pc[r] \in Early \cup {"starting"}
         /\ pc'[r] \in AtWork => pc[r] \in AtWork \cup {"launched"}
         /\ pc[r] \in Leave => pc'[r] \in Leave
         /\ pc[r] \in {"merging", "saving"} \cup Leave =>
              pc'[r] \in {"merging", "saving"} \cup Leave
  BY PathStep, PathEnds DEF Path, Early, AtWork, Leave

------------------------------------------------------------------------------
\* Two runs at work in a scope are the same.
LEMMA OneAtWork ==
  ASSUME QueueInv, NEW r \in Runs, NEW x \in Runs, ScopeOf[x] = ScopeOf[r],
         pc[x] \in Active, pc[r] \in Active
  PROVE  x = r
  BY Constants DEF QueueInv

LEMMA QueueInvInit == Init => QueueInv
  <1> SUFFICES ASSUME Init PROVE QueueInv
    OBVIOUS
  <1>1. \A s \in Scopes : DOMAIN waiting[s] = {}
    BY DEF Init, Queue!Init
  <1>2. \A r \in Runs : pc[r] = "idle"
    BY DEF Init
  <1> QED
    BY <1>1, <1>2, Constants DEF QueueInv, Active

\* A step that leaves the queue alone, and queues, unqueues and unblocks nothing,
\* keeps QueueInv.
LEMMA QueueInvKept ==
  ASSUME TypeOK, QueueInv, UNCHANGED queueVars,
         \A r \in Runs : \/ pc'[r] = pc[r]
                         \/ pc[r] # "queued" /\ pc[r] \in Active
  PROVE  QueueInv'
  <1>1. waiting' = waiting /\ current' = current /\ waiting \in [Scopes -> Seq(Messages)]
    BY DEF queueVars, TypeOK
  <1>2. \A s \in Scopes : \A i \in DOMAIN waiting[s] : waiting[s][i] \in Runs
    BY <1>1, LenProperties, ElementOfSeq, Constants
  <1>3. \A s \in Scopes : \A i, j \in DOMAIN waiting[s] :
          /\ ScopeOf[waiting[s][i]] = s /\ pc[waiting[s][i]] = "queued"
          /\ waiting[s][i] = waiting[s][j] => i = j
    BY DEF QueueInv
  <1>4. \A s \in Scopes : \A i \in DOMAIN waiting[s] : pc'[waiting[s][i]] = "queued"
    BY <1>2, <1>3
  <1>5. \A m \in Messages : pc'[m] \in Active => pc[m] \in Active
    BY Constants
  <1>7. \A m \in Messages : pc[m] \in Active =>
          current[ScopeOf[m]] # <<>> /\ current[ScopeOf[m]][1] = m
    BY DEF QueueInv
  <1> QED
    BY <1>1, <1>3, <1>4, <1>5, <1>7 DEF QueueInv

\* Sending appends; a batch leaves what comes after it, starts one run, and
\* starts none before the scope was unblocked.
LEMMA QueueInvStep == TypeOK /\ QueueInv /\ [Next]_vars => QueueInv'
  <1> SUFFICES ASSUME TypeOK, QueueInv, [Next]_vars PROVE QueueInv'
    OBVIOUS
  <1> USE Constants DEF At, Goto
  <1>0. /\ pc \in [Runs -> Labels] /\ waiting \in [Scopes -> Seq(Messages)]
        /\ current \in [Scopes -> Seq(Messages)]
    BY DEF TypeOK
  <1>1. ASSUME NEW m \in Messages, Send(m) PROVE QueueInv'
    <2> DEFINE t == ScopeOf[m]
    <2>1. /\ pc[m] = "idle" /\ pc' = [pc EXCEPT ![m] = "queued"] /\ current' = current
          /\ waiting' = [waiting EXCEPT ![t] = Append(waiting[t], m)] /\ t \in Scopes
      BY <1>1 DEF Send, Queue!Accept
    <2>2. \A s \in Scopes : \A i \in DOMAIN waiting[s] :
            /\ waiting[s][i] \in Runs /\ ScopeOf[waiting[s][i]] = s
            /\ pc[waiting[s][i]] = "queued" /\ waiting[s][i] # m
      <3>1. \A s \in Scopes : \A i \in DOMAIN waiting[s] : waiting[s][i] \in Runs
        BY <1>0, LenProperties, ElementOfSeq
      <3> QED
        BY <2>1, <3>1 DEF QueueInv
    <2>3. /\ DOMAIN waiting[t] = 1..Len(waiting[t]) /\ Len(waiting[t]) \in Nat
          /\ DOMAIN waiting'[t] = 1..(Len(waiting[t]) + 1)
          /\ waiting'[t][Len(waiting[t]) + 1] = m
          /\ \A i \in 1..Len(waiting[t]) : waiting'[t][i] = waiting[t][i]
      <3>1. waiting'[t] = Append(waiting[t], m)
        BY <1>0, <2>1
      <3> QED
        BY <1>0, <2>1, <3>1, AppendProperties, LenProperties
    <2>4. \A i, j \in DOMAIN waiting[t] : waiting[t][i] = waiting[t][j] => i = j
      BY <2>1 DEF QueueInv
    <2>5. \A i, j \in DOMAIN waiting'[t] :
            /\ ScopeOf[waiting'[t][i]] = t
            /\ pc'[waiting'[t][i]] = "queued"
            /\ waiting'[t][i] = waiting'[t][j] => i = j
      <3> SUFFICES ASSUME NEW i \in 1..(Len(waiting[t]) + 1), NEW j \in 1..(Len(waiting[t]) + 1)
                   PROVE  /\ ScopeOf[waiting'[t][i]] = t
                          /\ pc'[waiting'[t][i]] = "queued"
                          /\ waiting'[t][i] = waiting'[t][j] => i = j
        BY <2>3
      <3>1. i \in DOMAIN waiting[t] \/ i = Len(waiting[t]) + 1
        BY <2>3
      <3>2. j \in DOMAIN waiting[t] \/ j = Len(waiting[t]) + 1
        BY <2>3
      <3>3. pc'[m] = "queued" /\ \A x \in Runs : x # m => pc'[x] = pc[x]
        BY <1>0, <2>1
      <3> QED
        BY <2>1, <2>2, <2>3, <2>4, <3>1, <3>2, <3>3, SMTT(30)
    <2>6. \A s \in Scopes : s # t => waiting'[s] = waiting[s]
      BY <1>0, <2>1
    <2>7. \A x \in Runs : x # m => pc'[x] = pc[x]
      BY <1>0, <2>1
    <2>8. \A s \in Scopes : \A i, j \in DOMAIN waiting'[s] :
            /\ ScopeOf[waiting'[s][i]] = s
            /\ pc'[waiting'[s][i]] = "queued"
            /\ waiting'[s][i] = waiting'[s][j] => i = j
      <3> SUFFICES ASSUME NEW s \in Scopes, s # t, NEW i \in DOMAIN waiting'[s],
                          NEW j \in DOMAIN waiting'[s]
                   PROVE  /\ ScopeOf[waiting'[s][i]] = s
                          /\ pc'[waiting'[s][i]] = "queued"
                          /\ waiting'[s][i] = waiting'[s][j] => i = j
        BY <2>5
      <3> QED
        BY <2>2, <2>6, <2>7 DEF QueueInv
    <2>9. \A x \in Messages : pc'[x] \in Active =>
            current'[ScopeOf[x]] # <<>> /\ current'[ScopeOf[x]][1] = x
      <3>1. pc'[m] \notin Active
        BY <1>0, <2>1 DEF Active
      <3> QED
        BY <2>1, <2>7, <3>1 DEF QueueInv
    <2> QED
      BY <2>8, <2>9 DEF QueueInv
  <1>2. ASSUME NEW s \in Scopes, NEW n \in DOMAIN waiting[s], Begin(s, n) PROVE QueueInv'
    <2> DEFINE h == waiting[s][1]
    <2>1. /\ h \in Messages /\ ScopeOf[h] = s
          /\ pc[h] = "queued" /\ pc'[h] = "reading"
          /\ \A r \in Runs : r = h \/ pc'[r] = pc[r] \/ (pc[r] = "queued" /\ pc'[r] = "merged")
          /\ current[s] = <<>> /\ current'[s] # <<>> /\ current'[s][1] = h
          /\ \A t \in Scopes : t # s => current'[t] = current[t] /\ waiting'[t] = waiting[t]
          /\ \A i \in DOMAIN waiting'[s] :
               /\ n + i \in DOMAIN waiting[s] /\ waiting'[s][i] = waiting[s][n + i]
               /\ pc'[waiting'[s][i]] = "queued"
      BY <1>2, BatchBegins
    <2>2. \A i, j \in DOMAIN waiting'[s] :
            /\ ScopeOf[waiting'[s][i]] = s
            /\ pc'[waiting'[s][i]] = "queued"
            /\ waiting'[s][i] = waiting'[s][j] => i = j
      <3> SUFFICES ASSUME NEW i \in DOMAIN waiting'[s], NEW j \in DOMAIN waiting'[s]
                   PROVE  /\ ScopeOf[waiting'[s][i]] = s
                          /\ waiting'[s][i] = waiting'[s][j] => i = j
        BY <2>1
      <3>1. i \in Nat /\ j \in Nat /\ n \in Nat
        <4>1. waiting'[s] \in Seq(Messages)
          BY <1>0, <1>2, BatchTypes DEF Begin, Queue!Start
        <4> QED
          BY <4>1, <1>0, LenProperties
      <3>2. \A k, l \in DOMAIN waiting[s] :
              ScopeOf[waiting[s][k]] = s /\ (waiting[s][k] = waiting[s][l] => k = l)
        BY DEF QueueInv
      <3> QED
        BY <2>1, <3>1, <3>2
    <2>3. \A t \in Scopes : t # s => \A i, j \in DOMAIN waiting[t] :
            /\ ScopeOf[waiting[t][i]] = t /\ waiting[t][i] \in Runs
            /\ pc'[waiting[t][i]] = "queued"
            /\ waiting[t][i] = waiting[t][j] => i = j
      <3> SUFFICES ASSUME NEW t \in Scopes, t # s, NEW i \in DOMAIN waiting[t]
                   PROVE  waiting[t][i] \in Runs /\ pc'[waiting[t][i]] = "queued"
        BY DEF QueueInv
      <3>1. waiting[t][i] \in Runs /\ pc[waiting[t][i]] = "queued" /\ ScopeOf[waiting[t][i]] = t
        BY <1>0, LenProperties, ElementOfSeq DEF QueueInv
      <3>2. \A k \in 2..n : k \in DOMAIN waiting[s]
        BY <1>0, LenProperties
      <3>3. \A k \in 2..n : waiting[t][i] # waiting[s][k]
        BY <3>1, <3>2 DEF QueueInv
      <3> QED
        BY <1>2, <2>1, <3>1, <3>3 DEF Begin
    <2>4. \A x \in Messages : pc'[x] \in Active =>
            current'[ScopeOf[x]] # <<>> /\ current'[ScopeOf[x]][1] = x
      <3> SUFFICES ASSUME NEW x \in Messages, pc'[x] \in Active, x # h
                   PROVE  current'[ScopeOf[x]] # <<>> /\ current'[ScopeOf[x]][1] = x
        BY <2>1
      <3>1. pc[x] \in Active
        BY <2>1 DEF Active
      <3>2. current[ScopeOf[x]] # <<>> /\ current[ScopeOf[x]][1] = x /\ ScopeOf[x] \in Scopes
        BY <3>1 DEF QueueInv
      <3> QED
        BY <2>1, <3>2
    <2>6. \A t \in Scopes : \A i, j \in DOMAIN waiting'[t] :
            /\ ScopeOf[waiting'[t][i]] = t
            /\ pc'[waiting'[t][i]] = "queued"
            /\ waiting'[t][i] = waiting'[t][j] => i = j
      BY <2>1, <2>2, <2>3
    <2> QED
      BY <2>4, <2>6 DEF QueueInv
  <1>3. ASSUME NEW x \in Runs, Unblock(x) PROVE QueueInv'
    <2>1. /\ pc[x] = "unblocking" /\ pc' = [pc EXCEPT ![x] = "done"] /\ waiting' = waiting
          /\ current' = [current EXCEPT ![ScopeOf[x]] = <<>>] /\ x \in Messages
      BY <1>3 DEF Unblock, Queue!Finish, QueueInv
    <2>2. current[ScopeOf[x]][1] = x
      BY <2>1 DEF QueueInv, Active
    <2>3. \A m \in Messages : pc'[m] \in Active =>
            current'[ScopeOf[m]] # <<>> /\ current'[ScopeOf[m]][1] = m
      <3> SUFFICES ASSUME NEW m \in Messages, pc'[m] \in Active
                   PROVE  current'[ScopeOf[m]] # <<>> /\ current'[ScopeOf[m]][1] = m
        OBVIOUS
      <3>1. m # x /\ pc[m] \in Active
        BY <1>0, <2>1 DEF Active
      <3>2. /\ current[ScopeOf[m]] # <<>> /\ current[ScopeOf[m]][1] = m
            /\ ScopeOf[m] \in Scopes /\ ScopeOf[x] \in Scopes
        BY <3>1 DEF QueueInv
      <3>3. ScopeOf[m] # ScopeOf[x]
        BY <2>2, <3>1, <3>2
      <3> QED
        BY <1>0, <2>1, <3>2, <3>3
    <2>4. \A y \in Runs : pc[y] = "queued" => pc'[y] = "queued"
      BY <1>0, <2>1
    <2>5. \A s \in Scopes : \A i \in DOMAIN waiting[s] : waiting[s][i] \in Runs
      BY <1>0, LenProperties, ElementOfSeq
    <2> QED
      BY <2>1, <2>3, <2>4, <2>5 DEF QueueInv
  <1> DEFINE Kept == /\ UNCHANGED queueVars
                     /\ \A r \in Runs : \/ pc'[r] = pc[r]
                                        \/ pc[r] # "queued" /\ pc[r] \in Active
  <1>5. ASSUME NEW x \in Runs, RunStep(x), ~Unblock(x) PROVE Kept
    <2>1. ASSUME NEW l, At(x, l), l \in Active, UNCHANGED queueVars,
                 NEW k, Goto(x, k)
          PROVE  Kept
      BY <1>0, <2>1 DEF Active
    <2>3. ASSUME ReadSession(x) \/ Launch(x) \/ LaunchFails(x) \/ Publish(x) PROVE Kept
      BY <2>1, <2>3 DEF ReadSession, Launch, LaunchFails, Publish, Active
    <2>4. ASSUME \/ StartCard(x) \/ StartCardFails(x) \/ AskReturns(x) \/ WatchdogStops(x)
                 \/ Finalize(x)
          PROVE  Kept
      BY <2>1, <2>4 DEF StartCard, StartCardFails, AskReturns, WatchdogStops, Finalize, Active
    <2>5. ASSUME MergeModel(x) \/ SaveSession(x) \/ Cleanup(x) \/ InvalidateAsks(x) PROVE Kept
      BY <2>1, <2>5 DEF MergeModel, SaveSession, Cleanup, InvalidateAsks, Active
    <2> QED
      BY <1>5, <2>3, <2>4, <2>5 DEF RunStep
  <1>6. ASSUME NEW x \in Runs, \/ AgentStep(x) \/ AskSettles(x)
                               \/ WatchdogFires(x) \/ StopReturns(x)
        PROVE  Kept
    <2>1. CASE AskEvent(x) \/ WatchdogFires(x) \/ StopReturns(x)
      BY <1>0, <2>1 DEF AskEvent, WatchdogFires, StopReturns, Active
    <2> QED
      BY <1>6, <2>1 DEF AgentStep, AgentHangs, AgentFinishes, AgentDies, AgentDoes,
                        SessionEvent, ModelEvent, AskSettles
  <1>7. ASSUME NEW c \in Commands, TakeRun(c) \/ CommandStep(c) PROVE Kept
    BY <1>7 DEF TakeRun, CommandStep, Sweep, StopVictim, ResetSession, ReadDraft, PutSession,
                runVars
  <1>8. ASSUME UNCHANGED vars PROVE Kept
    BY <1>8 DEF vars, runVars
  <1>9. Kept => QueueInv'
    BY QueueInvKept
  <1>10. ASSUME Next PROVE QueueInv'
    <2> HIDE DEF Kept
    <2> QED
      BY <1>1, <1>2, <1>3, <1>5, <1>6, <1>7, <1>9, <1>10 DEF Next, BeginSome
  <1> QED
    BY <1>8, <1>9, <1>10

------------------------------------------------------------------------------
\* Who changes what.
Edits(x) == Publish(x) \/ WatchdogFires(x) \/ Cleanup(x)
Stops(x) == StartCardFails(x) \/ WatchdogStops(x)
Lives(x) == Launch(x) \/ AgentHangs(x) \/ AgentFinishes(x) \/ AgentDies(x)
Tells(x) == LaunchFails(x) \/ StartCard(x) \/ StartCardFails(x) \/ Finalize(x)
Resumes(x) == ReadSession(x) \/ SessionEvent(x) \/ ModelEvent(x) \/ MergeModel(x)

LEMMA WhoChanges ==
  ASSUME [Next]_vars
  PROVE  /\ runs' = runs \/ (\E x \in Runs : Edits(x)) \/ (\E c \in Commands : TakeRun(c))
         /\ stopped' = stopped \/ (\E x \in Runs : Stops(x)) \/ \E c \in Commands : StopVictim(c)
         /\ agent' = agent \/ \E x \in Runs : Lives(x)
         /\ card' = card \/ \E x \in Runs : Tells(x)
         /\ newSess' = newSess \/ \E x \in Runs : Resumes(x)
         /\ base' = base \/ \E x \in Runs : ReadSession(x)
         /\ \/ sess' = sess \/ (\E x \in Runs : SaveSession(x))
            \/ \E c \in Commands : ResetSession(c) \/ PutSession(c)
         /\ \/ UNCHANGED <<cpc, victim>>
            \/ \E c \in Commands : TakeRun(c) \/ (CommandStep(c) /\ victim' = victim)
  <1> USE DEF Edits, Stops, Lives, Tells, Resumes, cmdVars, runVars
  <1> DEFINE Frame ==
        /\ runs' = runs \/ (\E x \in Runs : Edits(x)) \/ (\E c \in Commands : TakeRun(c))
        /\ stopped' = stopped \/ (\E x \in Runs : Stops(x)) \/ \E c \in Commands : StopVictim(c)
        /\ agent' = agent \/ \E x \in Runs : Lives(x)
        /\ card' = card \/ \E x \in Runs : Tells(x)
        /\ newSess' = newSess \/ \E x \in Runs : Resumes(x)
        /\ base' = base \/ \E x \in Runs : ReadSession(x)
        /\ \/ sess' = sess \/ (\E x \in Runs : SaveSession(x))
           \/ \E c \in Commands : ResetSession(c) \/ PutSession(c)
        /\ \/ UNCHANGED <<cpc, victim>>
           \/ \E c \in Commands : TakeRun(c) \/ (CommandStep(c) /\ victim' = victim)
  <1>1. ASSUME NEW m \in Messages, Send(m) PROVE Frame
    BY <1>1 DEF Send
  <1>2. ASSUME NEW s \in Scopes, NEW n, Begin(s, n) PROVE Frame
    BY <1>2 DEF Begin
  <1>3. ASSUME NEW x \in Runs, StopReturns(x) PROVE Frame
    BY <1>3 DEF StopReturns
  <1>4. ASSUME NEW x \in Runs, ReadSession(x) PROVE Frame
    <2>1. UNCHANGED <<runs, stopped, agent, card, sess, cpc, victim>>
      BY <1>4 DEF ReadSession
    <2> QED
      BY <1>4, <2>1
  <1>5. ASSUME NEW x \in Runs, Launch(x) PROVE Frame
    <2>1. UNCHANGED <<runs, stopped, card, newSess, base, sess, cpc, victim>>
      BY <1>5 DEF Launch
    <2> QED
      BY <1>5, <2>1
  <1>6. ASSUME NEW x \in Runs, LaunchFails(x) PROVE Frame
    <2>1. UNCHANGED <<runs, stopped, agent, newSess, base, sess, cpc, victim>>
      BY <1>6 DEF LaunchFails
    <2> QED
      BY <1>6, <2>1
  <1>7. ASSUME NEW x \in Runs, Publish(x) \/ WatchdogFires(x) \/ Cleanup(x) PROVE Frame
    <2>1. UNCHANGED <<stopped, agent, card, newSess, base, sess, cpc, victim>>
      BY <1>7 DEF Publish, WatchdogFires, Cleanup
    <2> QED
      BY <1>7, <2>1
  <1>8. ASSUME NEW x \in Runs, WatchdogStops(x) PROVE Frame
    <2>1. UNCHANGED <<runs, agent, card, newSess, base, sess, cpc, victim>>
      BY <1>8 DEF WatchdogStops
    <2> QED
      BY <1>8, <2>1
  <1>9. ASSUME NEW x \in Runs, StartCard(x) \/ Finalize(x) PROVE Frame
    <2>1. UNCHANGED <<runs, stopped, agent, newSess, base, sess, cpc, victim>>
      BY <1>9 DEF StartCard, Finalize
    <2> QED
      BY <1>9, <2>1
  <1>10. ASSUME NEW x \in Runs, StartCardFails(x) PROVE Frame
    <2>1. UNCHANGED <<runs, agent, newSess, base, sess, cpc, victim>>
      BY <1>10 DEF StartCardFails
    <2> QED
      BY <1>10, <2>1
  <1>11. ASSUME NEW x \in Runs, AgentHangs(x) \/ AgentFinishes(x) \/ AgentDies(x) PROVE Frame
    <2>1. UNCHANGED <<runs, stopped, card, newSess, base, sess, cpc, victim>>
      BY <1>11 DEF AgentHangs, AgentFinishes, AgentDies, AgentDoes
    <2> QED
      BY <1>11, <2>1
  <1>12. ASSUME NEW x \in Runs, SessionEvent(x) \/ ModelEvent(x) \/ MergeModel(x) PROVE Frame
    <2>1. UNCHANGED <<runs, stopped, agent, card, base, sess, cpc, victim>>
      BY <1>12 DEF SessionEvent, ModelEvent, MergeModel
    <2> QED
      BY <1>12, <2>1
  <1>13. ASSUME NEW x \in Runs, AskEvent(x) \/ AskSettles(x) \/ AskReturns(x) \/ InvalidateAsks(x)
         PROVE  Frame
    BY <1>13 DEF AskEvent, AskSettles, AskReturns, InvalidateAsks
  <1>14. ASSUME NEW x \in Runs, SaveSession(x) PROVE Frame
    <2>1. UNCHANGED <<runs, stopped, agent, card, newSess, base, cpc, victim>>
      BY <1>14 DEF SaveSession
    <2> QED
      BY <1>14, <2>1
  <1>15. ASSUME NEW x \in Runs, Unblock(x) PROVE Frame
    BY <1>15 DEF Unblock
  <1>16. ASSUME NEW c \in Commands, TakeRun(c) PROVE Frame
    <2>1. UNCHANGED <<stopped, agent, card, newSess, base, sess>>
      BY <1>16 DEF TakeRun
    <2> QED
      BY <1>16, <2>1
  <1>17. ASSUME NEW c \in Commands, StopVictim(c) PROVE Frame
    <2>1. UNCHANGED <<runs, agent, card, newSess, base, sess, victim>> /\ CommandStep(c)
      BY <1>17 DEF StopVictim, CommandStep
    <2> QED
      BY <1>17, <2>1
  <1>18. ASSUME NEW c \in Commands, ResetSession(c) \/ PutSession(c) PROVE Frame
    <2>1. UNCHANGED <<runs, stopped, agent, card, newSess, base, victim>> /\ CommandStep(c)
      BY <1>18 DEF ResetSession, PutSession, CommandStep
    <2> QED
      BY <1>18, <2>1
  <1>19. ASSUME NEW c \in Commands, Sweep(c) \/ ReadDraft(c) PROVE Frame
    <2>1. UNCHANGED <<runs, stopped, agent, card, newSess, base, sess, victim>> /\ CommandStep(c)
      BY <1>19 DEF Sweep, ReadDraft, CommandStep
    <2> QED
      BY <1>19, <2>1
  <1>20. ASSUME UNCHANGED vars PROVE Frame
    BY <1>20 DEF vars
  <1> HIDE DEF Frame
  <1>21. ASSUME Next PROVE Frame
    BY <1>1, <1>2, <1>3, <1>4, <1>5, <1>6, <1>7, <1>8, <1>9, <1>10, <1>11, <1>12, <1>13, <1>14,
       <1>15, <1>16, <1>17, <1>18, <1>19, <1>21
       DEF Next, BeginSome, RunStep, AgentStep, CommandStep
  <1>22. Frame
    BY <1>20, <1>21
  <1> QED
    BY <1>22 DEF Frame

------------------------------------------------------------------------------
\* A stop is never taken back; an agent lives only from Launch on.
LEMMA AgentInvStep ==
  TypeOK /\ QueueInv /\ AgentInv /\ [Next]_vars => AgentInv'
  <1> SUFFICES ASSUME TypeOK, QueueInv, AgentInv, [Next]_vars, NEW r \in Runs
               PROVE  /\ pc'[r] \in Early \ {"launched"} => agent'[r] = "none"
                      /\ pc'[r] \in {"merging", "saving"} => ~Alive(r)'
                      /\ pc'[r] \in Leave /\ Alive(r)' => stopped'[r]
    BY DEF AgentInv
  <1>0. /\ pc \in [Runs -> Labels] /\ agent \in [Runs -> Agents] /\ stopped \in [Runs -> BOOLEAN]
    BY DEF TypeOK, Agents
  <1>1. /\ pc[r] \in Early \ {"launched"} => agent[r] = "none"
        /\ pc[r] \in {"merging", "saving"} => ~Alive(r)
        /\ pc[r] \in Leave /\ Alive(r) => stopped[r]
    BY DEF AgentInv
  <1>2. CASE \E x \in Runs : Lives(x)
    <2>1. PICK x \in Runs : Lives(x)
      BY <1>2
    <2>2. CASE Launch(x)
      BY <1>0, <1>1, <2>2 DEF Launch, At, Goto, Early, Leave, Alive
    <2>3. CASE ~Launch(x)
      <3>1. /\ pc' = pc /\ stopped' = stopped /\ Alive(x)
            /\ \E a \in {"hung", "deaf", "finished", "killed"} : agent' = [agent EXCEPT ![x] = a]
        BY <2>1, <2>3 DEF Lives, AgentHangs, AgentFinishes, AgentDies, AgentDoes, Alive
      <3> QED
        BY <1>0, <1>1, <3>1 DEF Alive
    <2> QED
      BY <2>2, <2>3
  <1>3. CASE agent' = agent
    <2>1. stopped[r] => stopped'[r]
      <3>1. ASSUME NEW x \in Runs, Stops(x) PROVE stopped[r] => stopped'[r]
        BY <1>0, <3>1 DEF Stops, StartCardFails, WatchdogStops
      <3>2. ASSUME NEW c \in Commands, StopVictim(c) PROVE stopped[r] => stopped'[r]
        BY <1>0, <3>2 DEF StopVictim
      <3> QED
        BY <3>1, <3>2, WhoChanges
    <2>2. Path(r)
      BY PathStep
    <2>3. StartCardFails(r) => stopped'[r]
      BY <1>0 DEF StartCardFails
    <2>4. Finalize(r) => ~Alive(r)
      BY DEF Finalize, Alive
    <2>6. Alive(r)' <=> Alive(r)
      BY <1>3 DEF Alive
    <2> QED
      BY <1>1, <1>3, <2>1, <2>2, <2>3, <2>4, <2>6, PathEnds DEF Path, Early, Leave, Alive
  <1> QED
    BY <1>2, <1>3, WhoChanges

------------------------------------------------------------------------------
\* What a command does to its own progress, and to whom it has in hand.
LEMMA CommandMoves ==
  ASSUME TypeOK, [Next]_vars, NEW c \in Commands
  PROVE  \/ UNCHANGED <<cpc[c], victim[c]>>
         \/ /\ TakeRun(c) /\ victim'[c] = runs[ScopeOf[c]]
            /\ cpc[c] = "idle" /\ cpc'[c] \in {"sweep", "apply", "done"}
            /\ cpc'[c] = "sweep" <=> runs[ScopeOf[c]] # NoRun
         \/ cpc[c] = "sweep" /\ cpc'[c] = "stop" /\ victim'[c] = victim[c]
         \/ StopVictim(c) /\ cpc[c] = "stop" /\ cpc'[c] \in {"done", "apply"}
            /\ victim'[c] = victim[c]
         \/ cpc[c] = "apply" /\ cpc'[c] = "done"
         \/ cpc[c] = "apply" /\ cpc'[c] = "put" /\ KindOf[c] # "stop"
         \/ cpc[c] = "put" /\ cpc'[c] = "done"
  <1>0. /\ cpc \in [Commands -> {"idle", "sweep", "stop", "apply", "put", "done"}]
        /\ victim \in [Commands -> Runs \cup {NoRun}]
    BY DEF TypeOK
  <1> USE DEF CommandAt, CommandGoto
  <1>1. CASE UNCHANGED <<cpc, victim>>
    BY <1>1
  <1>2. ASSUME NEW d \in Commands, TakeRun(d) PROVE d = c \/ UNCHANGED <<cpc[c], victim[c]>>
    BY <1>0, <1>2 DEF TakeRun
  <1>3. ASSUME NEW d \in Commands, CommandStep(d), victim' = victim
        PROVE  d = c \/ UNCHANGED <<cpc[c], victim[c]>>
    BY <1>0, <1>3 DEF CommandStep, Sweep, StopVictim, ResetSession, ReadDraft, PutSession
  <1>4. CASE TakeRun(c)
    <2>1. /\ victim'[c] = runs[ScopeOf[c]] /\ cpc[c] = "idle"
          /\ cpc'[c] = IF runs[ScopeOf[c]] # NoRun THEN "sweep" ELSE AfterStop(c)
      BY <1>0, <1>4 DEF TakeRun
    <2>2. AfterStop(c) \in {"apply", "done"}
      BY DEF AfterStop
    <2> QED
      BY <1>4, <2>1, <2>2
  <1>5. CASE Sweep(c)
    BY <1>0, <1>5 DEF Sweep
  <1>6. CASE StopVictim(c)
    BY <1>0, <1>6 DEF StopVictim, AfterStop
  <1>7. CASE ResetSession(c) \/ ReadDraft(c) \/ PutSession(c)
    BY <1>0, <1>7 DEF ResetSession, ReadDraft, PutSession
  <1>8. ASSUME CommandStep(c)
        PROVE  Sweep(c) \/ StopVictim(c) \/ ResetSession(c) \/ ReadDraft(c) \/ PutSession(c)
    BY <1>8 DEF CommandStep
  <1>9. \/ UNCHANGED <<cpc, victim>>
        \/ \E d \in Commands : TakeRun(d) \/ (CommandStep(d) /\ victim' = victim)
    BY WhoChanges
  <1> QED
    BY <1>1, <1>2, <1>3, <1>4, <1>5, <1>6, <1>7, <1>8, <1>9

\* Stop is called on the run a command or the watchdog has in hand, or on one
\* whose card does not start.
LEMMA WhoStops ==
  ASSUME TypeOK, [Next]_vars, NEW r \in Runs
  PROVE  /\ stopped[r] => stopped'[r]
         /\ stopped'[r] => \/ stopped[r]
                           \/ StartCardFails(r)
                           \/ WatchdogStops(r)
                           \/ \E c \in Commands : StopVictim(c) /\ cpc[c] = "stop" /\ victim[c] = r
  <1>0. stopped \in [Runs -> BOOLEAN]
    BY DEF TypeOK
  <1>1. ASSUME NEW x \in Runs, Stops(x), x # r PROVE stopped'[r] = stopped[r]
    BY <1>0, <1>1 DEF Stops, StartCardFails, WatchdogStops
  <1>2. ASSUME NEW c \in Commands, StopVictim(c), victim[c] # r PROVE stopped'[r] = stopped[r]
    BY <1>0, <1>2 DEF StopVictim
  <1>3. ASSUME Stops(r) PROVE stopped'[r] /\ (StartCardFails(r) \/ WatchdogStops(r))
    BY <1>0, <1>3 DEF Stops, StartCardFails, WatchdogStops
  <1>4. ASSUME NEW c \in Commands, StopVictim(c), victim[c] = r
        PROVE  stopped'[r] /\ cpc[c] = "stop"
    BY <1>0, <1>4 DEF StopVictim, CommandAt
  <1> QED
    BY <1>1, <1>2, <1>3, <1>4, WhoChanges

LEMMA PublishedInvStep ==
  TypeOK /\ QueueInv /\ PublishedInv /\ [Next]_vars => PublishedInv'
  <1> SUFFICES ASSUME TypeOK, QueueInv, PublishedInv, [Next]_vars PROVE PublishedInv'
    OBVIOUS
  <1>0. /\ pc \in [Runs -> Labels] /\ runs \in [Scopes -> Runs \cup {NoRun}]
        /\ agent \in [Runs -> Agents] /\ stopped \in [Runs -> BOOLEAN]
        /\ victim \in [Commands -> Runs \cup {NoRun}]
        /\ \A c \in Commands : cpc[c] \in {"sweep", "stop"} => victim[c] \in Runs
    BY DEF TypeOK, Agents
  <1>1. \A s \in Scopes : runs[s] # NoRun => ScopeOf[runs[s]] = s /\ pc[runs[s]] \notin Early
    BY DEF PublishedInv
  <1>2. \A c \in Commands : cpc[c] \in {"sweep", "stop"} =>
          ScopeOf[victim[c]] = ScopeOf[c] /\ pc[victim[c]] \notin Early
    BY DEF PublishedInv
  <1>3. \A r \in Runs : pc'[r] \in Early => pc[r] \in Early
    BY NoWayBack
  <1>4. ASSUME NEW s \in Scopes, runs'[s] # NoRun
        PROVE  ScopeOf[runs'[s]] = s /\ pc'[runs'[s]] \notin Early
    <2>1. CASE runs'[s] = runs[s]
      BY <1>0, <1>1, <1>3, <1>4, <2>1
    <2>2. ASSUME NEW x \in Runs, Publish(x) PROVE runs'[s] = runs[s] \/
                   (runs'[s] = x /\ ScopeOf[x] = s /\ pc'[x] \notin Early)
      BY <1>0, <2>2, Constants DEF Publish, Goto, Early
    <2>3. ASSUME NEW x \in Runs, WatchdogFires(x) \/ Cleanup(x) PROVE runs'[s] = runs[s]
      BY <1>0, <1>4, <2>3, Constants DEF WatchdogFires, Cleanup
    <2>4. ASSUME NEW c \in Commands, TakeRun(c) PROVE runs'[s] = runs[s]
      BY <1>0, <1>4, <2>4, Constants DEF TakeRun
    <2> QED
      BY <2>1, <2>2, <2>3, <2>4, WhoChanges DEF Edits
  <1>5. ASSUME NEW c \in Commands, cpc'[c] \in {"sweep", "stop"}
        PROVE  ScopeOf[victim'[c]] = ScopeOf[c] /\ pc'[victim'[c]] \notin Early
    <2>1. \/ cpc[c] \in {"sweep", "stop"} /\ victim'[c] = victim[c]
          \/ victim'[c] = runs[ScopeOf[c]] /\ runs[ScopeOf[c]] # NoRun
      BY <1>5, CommandMoves
    <2>2. ScopeOf[c] \in Scopes
      BY Constants
    <2> QED
      BY <1>0, <1>1, <1>2, <1>3, <2>1, <2>2
  <1>6. ASSUME NEW r \in Runs, pc'[r] \in Early PROVE ~stopped'[r]
    <2>1. ~stopped[r] /\ pc[r] \in Early
      BY <1>3, <1>6 DEF PublishedInv
    <2>2. ~StartCardFails(r) /\ ~WatchdogStops(r)
      BY <1>3, <1>6 DEF StartCardFails, WatchdogStops, At, Early
    <2>3. ~\E c \in Commands : cpc[c] = "stop" /\ victim[c] = r
      BY <1>2, <2>1
    <2> QED
      BY <2>1, <2>2, <2>3, WhoStops
  <1>7. ASSUME NEW r \in Runs, agent'[r] = "killed" PROVE stopped'[r]
    <2>1. ASSUME NEW x \in Runs, Lives(x) PROVE agent[r] = "killed" \/ stopped[r]
      BY <1>0, <1>7, <2>1 DEF Lives, Launch, AgentHangs, AgentFinishes, AgentDies, AgentDoes
    <2>2. agent[r] = "killed" \/ stopped[r]
      BY <1>7, <2>1, WhoChanges
    <2> QED
      BY <2>2, WhoStops DEF PublishedInv
  <1> QED
    BY <1>4, <1>5, <1>6, <1>7 DEF PublishedInv

------------------------------------------------------------------------------
\* While a run is at work, the entry of its scope in runs is its own or nobody's:
\* only it, or a command, changes it.
LEMMA EntryIsOwn ==
  ASSUME TypeOK, QueueInv, [Next]_vars, NEW r \in Runs, pc[r] \in AtWork
  PROVE  \/ runs'[ScopeOf[r]] = runs[ScopeOf[r]]
         \/ WatchdogFires(r) /\ runs'[ScopeOf[r]] = NoRun
         \/ \E c \in Commands : TakeRun(c) /\ ScopeOf[c] = ScopeOf[r]
                                /\ runs'[ScopeOf[r]] = NoRun
  <1> DEFINE s == ScopeOf[r]
  <1>0. runs \in [Scopes -> Runs \cup {NoRun}] /\ s \in Scopes
    BY Constants DEF TypeOK
  <1>1. pc[r] \in Active
    BY DEF AtWork, Active
  <1>2. ASSUME NEW x \in Runs, Edits(x), runs'[s] # runs[s] PROVE x = r
    <2>1. ScopeOf[x] = s
      BY <1>0, <1>2, Constants DEF Edits, Publish, WatchdogFires, Cleanup
    <2>2. pc[x] \in Active
      BY <1>2 DEF Edits, Publish, WatchdogFires, Cleanup, At, Active
    <2> QED
      BY <1>1, <2>1, <2>2, OneAtWork
  <1>3. ~Publish(r) /\ ~Cleanup(r)
    BY DEF Publish, Cleanup, At, AtWork
  <1>4. WatchdogFires(r) => runs'[s] = NoRun
    BY <1>0 DEF WatchdogFires
  <1>5. ASSUME NEW c \in Commands, TakeRun(c)
        PROVE  runs'[s] = runs[s] \/ (ScopeOf[c] = s /\ runs'[s] = NoRun)
    BY <1>0, <1>5, Constants DEF TakeRun
  <1> QED
    BY <1>2, <1>3, <1>4, <1>5, WhoChanges DEF Edits

\* The watchdog takes a run in hand, and lets it go by stopping it.
LEMMA WatchdogGoesOn ==
  ASSUME TypeOK, QueueInv, [Next]_vars, NEW r \in Runs
  PROVE  /\ pc[r] = "firing" => pc'[r] = "firing" \/ WatchdogStops(r)
         /\ pc'[r] = "firing" => pc[r] = "firing" \/ WatchdogFires(r)
  BY PathStep, PathEnds DEF Path

LEMMA StopInvStep ==
  TypeOK /\ QueueInv /\ PublishedInv /\ StopInv /\ [Next]_vars => StopInv'
  <1> SUFFICES ASSUME TypeOK, QueueInv, PublishedInv, StopInv, [Next]_vars PROVE StopInv'
    OBVIOUS
  <1>0. /\ pc \in [Runs -> Labels] /\ runs \in [Scopes -> Runs \cup {NoRun}]
        /\ agent \in [Runs -> Agents] /\ card \in [Runs -> Cards]
    BY DEF TypeOK, Agents, Cards
  \* A run that is in somebody's hand stays there until it is stopped.
  <1>1. ASSUME NEW r \in Runs, InHand(r) PROVE InHand(r)' \/ stopped'[r]
    <2>1. CASE pc[r] = "firing"
      <3>1. pc'[r] = "firing" \/ WatchdogStops(r)
        BY <1>0, <2>1, WatchdogGoesOn
      <3>2. WatchdogStops(r) => stopped'[r]
        BY DEF WatchdogStops, TypeOK
      <3> QED
        BY <3>1, <3>2 DEF InHand, At
    <2>2. CASE \E c \in Commands : victim[c] = r /\ cpc[c] \in {"sweep", "stop"}
      <3>1. PICK c \in Commands : victim[c] = r /\ cpc[c] \in {"sweep", "stop"}
        BY <2>2
      <3>2. \/ cpc'[c] \in {"sweep", "stop"} /\ victim'[c] = r
            \/ StopVictim(c)
        BY <3>1, CommandMoves
      <3>3. StopVictim(c) => stopped'[r]
        BY <3>1 DEF StopVictim, TypeOK
      <3> QED
        BY <3>2, <3>3 DEF InHand
    <2> QED
      BY <1>1, <2>1, <2>2 DEF InHand, At
  \* A run gets there only from runs.
  <1>2. ASSUME NEW r \in Runs, InHand(r)', ~InHand(r)
        PROVE  \/ WatchdogFires(r)
               \/ \E c \in Commands : TakeRun(c) /\ runs[ScopeOf[c]] = r
    <2>1. CASE pc'[r] = "firing"
      <3>1. pc[r] # "firing"
        BY <1>2 DEF InHand, At
      <3> QED
        BY <2>1, <3>1, WatchdogGoesOn
    <2>2. CASE \E c \in Commands : victim'[c] = r /\ cpc'[c] \in {"sweep", "stop"}
      <3>1. PICK c \in Commands : victim'[c] = r /\ cpc'[c] \in {"sweep", "stop"}
        BY <2>2
      <3>2. ~(victim[c] = r /\ cpc[c] \in {"sweep", "stop"})
        BY <1>2 DEF InHand
      <3>3. TakeRun(c) /\ victim'[c] = runs[ScopeOf[c]]
        BY <3>1, <3>2, CommandMoves
      <3> QED
        BY <3>1, <3>3
    <2> QED
      BY <1>2, <2>1, <2>2 DEF InHand, At
  \* Entering a run in runs is all that happens in that step.
  <1>3. ASSUME NEW r \in Runs, pc[r] = "launched", pc'[r] \in AtWork
        PROVE  runs'[ScopeOf[r]] = r /\ UNCHANGED <<stopped, cpc, victim>>
    <2>1. Publish(r)
      BY <1>3, PathStep DEF Path, AtWork
    <2> QED
      BY <1>0, <2>1, Constants DEF Publish, cmdVars
  <1>4. ASSUME NEW r \in Runs, pc'[r] \in AtWork
        PROVE  runs'[ScopeOf[r]] = r \/ InHand(r)' \/ stopped'[r]
    <2>1. pc[r] \in AtWork \cup {"launched"}
      BY <1>4, NoWayBack
    <2>2. CASE pc[r] = "launched"
      BY <1>3, <1>4, <2>2
    <2>3. CASE pc[r] \in AtWork
      <3>1. runs[ScopeOf[r]] = r \/ InHand(r) \/ stopped[r]
        BY <2>1, <2>3 DEF StopInv, StopReachesRun, AtWork
      <3>2. CASE InHand(r) \/ stopped[r]
        BY <1>1, <3>2, WhoStops
      <3>3. CASE runs[ScopeOf[r]] = r
        <4>1. WatchdogFires(r) => InHand(r)'
          BY DEF WatchdogFires, Goto, At, InHand, TypeOK
        <4>2. ASSUME NEW c \in Commands, TakeRun(c), ScopeOf[c] = ScopeOf[r] PROVE InHand(r)'
          <5>1. cpc[c] = "idle" /\ r # NoRun
            BY <4>2, Constants DEF TakeRun, CommandAt
          <5>2. victim'[c] = r /\ cpc'[c] = "sweep"
            BY <3>3, <4>2, <5>1, CommandMoves DEF TakeRun, CommandGoto, TypeOK
          <5> QED
            BY <5>2 DEF InHand
        <4> QED
          BY <2>1, <2>3, <3>3, <4>1, <4>2, EntryIsOwn
      <3> QED
        BY <3>1, <3>2, <3>3
    <2> QED
      BY <2>1, <2>2, <2>3
  <1>5. ASSUME NEW r \in Runs, pc'[r] \in AtWork, stopped'[r] \/ InHand(r)'
        PROVE  runs'[ScopeOf[r]] = NoRun
    <2>1. pc[r] \in AtWork \cup {"launched"}
      BY <1>5, NoWayBack
    <2>2. CASE pc[r] = "launched"
      <3>1. ~stopped[r] /\ ~InHand(r)
        BY <2>2 DEF PublishedInv, InHand, At, Early
      <3>2. UNCHANGED <<stopped, cpc, victim>>
        BY <1>3, <1>5, <2>2
      <3>3. pc'[r] # "firing"
        BY <2>2, WatchdogGoesOn DEF WatchdogFires, At
      <3> QED
        BY <1>5, <3>1, <3>2, <3>3 DEF InHand, At
    <2>3. CASE pc[r] \in AtWork
      <3>1. stopped[r] \/ InHand(r) => runs[ScopeOf[r]] = NoRun
        BY <2>1, <2>3 DEF StopInv
      <3>2. CASE stopped[r] \/ InHand(r)
        BY <2>1, <2>3, <3>1, <3>2, EntryIsOwn
      <3>3. CASE ~stopped[r] /\ ~InHand(r) /\ stopped'[r]
        <4>1. ~StartCardFails(r)
          BY <1>0, <1>5 DEF StartCardFails, Goto, AtWork
        <4>2. ~\E c \in Commands : cpc[c] = "stop" /\ victim[c] = r
          BY <3>3 DEF InHand
        <4>3. ~WatchdogStops(r)
          BY <3>3 DEF InHand, WatchdogStops
        <4> QED
          BY <3>3, <4>1, <4>2, <4>3, WhoStops
      <3>4. CASE ~InHand(r) /\ InHand(r)'
        <4>1. CASE WatchdogFires(r)
          BY <1>0, <4>1, Constants DEF WatchdogFires
        <4>2. ASSUME NEW c \in Commands, TakeRun(c), runs[ScopeOf[c]] = r
              PROVE  runs'[ScopeOf[r]] = NoRun
          <5>1. ScopeOf[c] = ScopeOf[r] /\ ScopeOf[c] \in Scopes
            BY <4>2, Constants DEF PublishedInv
          <5> QED
            BY <1>0, <4>2, <5>1 DEF TakeRun
        <4> QED
          BY <1>2, <3>4, <4>1, <4>2
      <3> QED
        BY <1>5, <3>2, <3>3, <3>4
    <2> QED
      BY <2>1, <2>2, <2>3
  \* The card is told once, when the channel of the agent has closed.
  <1>6. ASSUME NEW r \in Runs, card'[r] = "done"
        PROVE  \/ card[r] = "done"
               \/ Finalize(r) /\ pc'[r] = "merging" /\ Terminal(r) = "done" /\ agent' = agent
    <2>1. ASSUME NEW x \in Runs, Tells(x), x # r PROVE card'[r] = card[r]
      BY <1>0, <2>1 DEF Tells, LaunchFails, StartCard, StartCardFails, Finalize
    <2>2. ASSUME LaunchFails(r) \/ StartCard(r) \/ StartCardFails(r) PROVE card'[r] # "done"
      BY <1>0, <2>2 DEF LaunchFails, StartCard, StartCardFails
    <2>3. ASSUME Finalize(r)
          PROVE  pc'[r] = "merging" /\ card'[r] = Terminal(r) /\ agent' = agent
      BY <1>0, <2>3 DEF Finalize, Goto
    <2> QED
      BY <1>6, <2>1, <2>2, <2>3, WhoChanges DEF Tells
  <1>7. ASSUME NEW r \in Runs, card'[r] = "done"
        PROVE  pc'[r] \notin Early /\ pc'[r] \notin AtWork
    <2>1. CASE card[r] = "done"
      <3>1. pc[r] \notin Early /\ pc[r] \notin AtWork
        BY <2>1 DEF StopInv
      <3>2. pc[r] \in {"merging", "saving"} \cup Leave
        BY <1>0, <3>1 DEF Early, AtWork, Leave, Labels
      <3>3. pc'[r] \in {"merging", "saving"} \cup Leave
        BY <3>2, NoWayBack
      <3> QED
        BY <3>3 DEF Early, AtWork, Leave
    <2> QED
      BY <1>6, <1>7, <2>1 DEF Early, AtWork
  <1>8. ASSUME NEW r \in Runs, card'[r] = "done" PROVE agent'[r] = "finished"
    <2>1. CASE card[r] = "done"
      <3>1. agent[r] = "finished" /\ pc[r] \notin Early
        BY <2>1 DEF StopInv, StopIsShown
      <3>2. ASSUME NEW x \in Runs, Lives(x) PROVE agent'[r] = "finished"
        BY <1>0, <3>1, <3>2
           DEF Lives, Launch, AgentHangs, AgentFinishes, AgentDies, AgentDoes, Alive, At, Early
      <3> QED
        BY <3>1, <3>2, WhoChanges
    <2>2. CASE Finalize(r) /\ Terminal(r) = "done" /\ agent' = agent
      <3>1. pc[r] \in AtWork /\ agent[r] \in {"finished", "killed"}
        BY <2>2 DEF Finalize, At, AtWork
      <3>2. agent[r] # "finished" => runs[ScopeOf[r]] # NoRun
        BY <2>2 DEF Terminal
      <3>3. agent[r] = "killed" => runs[ScopeOf[r]] = NoRun
        BY <3>1 DEF PublishedInv, StopInv
      <3> QED
        BY <2>2, <3>1, <3>2, <3>3
    <2> QED
      BY <1>6, <1>8, <2>1, <2>2
  <1> QED
    BY <1>4, <1>5, <1>7, <1>8 DEF StopInv, StopReachesRun, StopIsShown, AtWork

------------------------------------------------------------------------------
LEMMA QuietBack ==
  ASSUME TypeOK, [Next]_vars, Quiet'
  PROVE  Quiet
  BY CommandMoves DEF Quiet

\* While all is quiet only the batch at work stores a session.
LEMMA WhoStores ==
  ASSUME TypeOK, QueueInv, SessionInv, [Next]_vars, NEW s \in Scopes, Quiet,
         sess'[s] # sess[s]
  PROVE  \E x \in Runs : SaveSession(x) /\ ScopeOf[x] = s /\ sess'[s] = Stored(x)
  <1>0. sess \in [Scopes -> Sessions]
    BY DEF TypeOK
  <1>1. ASSUME NEW x \in Runs, SaveSession(x)
        PROVE  ScopeOf[x] = s /\ sess'[s] = Stored(x)
    BY <1>0, <1>1, Constants DEF SaveSession
  <1>2. ASSUME NEW c \in Commands, ResetSession(c) \/ PutSession(c) PROVE FALSE
    <2>1. cpc[c] # "idle" /\ KindOf[c] # "stop"
      BY <1>2 DEF ResetSession, PutSession, CommandAt, SessionInv
    <2> QED
      BY <2>1 DEF Quiet
  <1> QED
    BY <1>1, <1>2, WhoChanges

\* How the session a run is going to store comes about.
LEMMA WhoResumes ==
  ASSUME TypeOK, [Next]_vars, NEW r \in Runs
  PROVE  \/ newSess'[r].sid = newSess[r].sid
         \/ ReadSession(r) /\ newSess'[r].sid = NoSid
         \/ SessionEvent(r)
            /\ newSess'[r].sid = IF base[r].sid = NoSid THEN r ELSE base[r].sid
  <1>0. newSess \in [Runs -> Sessions] /\ sess \in [Scopes -> Sessions]
    BY DEF TypeOK
  <1>1. ASSUME NEW x \in Runs, Resumes(x), x # r PROVE newSess'[r] = newSess[r]
    BY <1>0, <1>1 DEF Resumes, ReadSession, SessionEvent, ModelEvent, MergeModel
  <1>2. ASSUME ReadSession(r) PROVE newSess'[r].sid = NoSid
    <2>1. newSess'[r] = [sess[ScopeOf[r]] EXCEPT !.sid = NoSid] /\ sess[ScopeOf[r]] \in Sessions
      BY <1>0, <1>2, Constants DEF ReadSession
    <2> QED
      BY <2>1 DEF Sessions
  <1>3. newSess[r] \in Sessions
    BY <1>0
  <1>4. ASSUME SessionEvent(r)
        PROVE  newSess'[r].sid = IF base[r].sid = NoSid THEN r ELSE base[r].sid
    BY <1>0, <1>3, <1>4 DEF SessionEvent, Sessions
  <1>5. ASSUME ModelEvent(r) \/ MergeModel(r) PROVE newSess'[r].sid = newSess[r].sid
    BY <1>0, <1>3, <1>5 DEF ModelEvent, MergeModel, Sessions
  <1> QED
    BY <1>1, <1>2, <1>4, <1>5, WhoChanges DEF Resumes

LEMMA SessionInvStep ==
  TypeOK /\ QueueInv /\ SessionInv /\ [Next]_vars => SessionInv'
  <1> SUFFICES ASSUME TypeOK, QueueInv, SessionInv, [Next]_vars PROVE SessionInv'
    OBVIOUS
  <1> DEFINE Mid == {"launching", "launched", "merging", "saving"} \cup AtWork
             Sid(r) == IF base[r].sid = NoSid THEN r ELSE base[r].sid
  <1>0. /\ pc \in [Runs -> Labels] /\ sess \in [Scopes -> Sessions]
        /\ base \in [Runs -> Sessions]
    BY DEF TypeOK
  <1>1. ASSUME NEW c \in Commands, cpc'[c] = "put" PROVE KindOf[c] # "stop"
    BY <1>1, CommandMoves DEF SessionInv
  <1>2. ASSUME NEW r \in Runs, pc'[r] \in Early \cup {"starting"}
        PROVE  newSess'[r].sid = NoSid
    <2>1. r \in Runs /\ pc[r] \in Early \cup {"starting"}
      BY <1>2, Constants, NoWayBack
    <2>2. newSess[r].sid = NoSid
      BY <2>1 DEF SessionInv, Reported
    <2>3. ~SessionEvent(r)
      BY <2>1 DEF SessionEvent, At, Early
    <2> QED
      BY <2>1, <2>2, <2>3, WhoResumes
  <1>3. ASSUME NEW r \in Runs, Quiet', pc'[r] \in Mid
        PROVE  /\ base'[r].sid = sess'[ScopeOf[r]].sid
               /\ newSess'[r].sid # NoSid => newSess'[r].sid = Sid(r)'
    <2>0. ScopeOf[r] \in Scopes /\ Quiet
      BY <1>3, Constants, QuietBack
    <2>1. pc[r] \in Mid \/ (pc[r] = "reading" /\ ReadSession(r))
      <3>1. LaunchFails(r) => pc'[r] = "unblocking"
        BY <1>0, <2>0 DEF LaunchFails, Goto
      <3>3. Path(r)
        BY <2>0, PathStep
      <3> QED
        BY <1>3, <3>1, <3>3 DEF Path, AtWork
    <2>2. CASE pc[r] = "reading" /\ ReadSession(r)
      <3>1. base'[r] = sess[ScopeOf[r]] /\ sess' = sess
        BY <1>0, <2>0, <2>2 DEF ReadSession
      <3>2. ~SessionEvent(r)
        BY <2>2 DEF SessionEvent, At
      <3>3. newSess'[r].sid = NoSid
        <4>1. newSess[r].sid = NoSid
          BY <2>2 DEF SessionInv, Reported, Early
        <4> QED
          BY <2>0, <3>2, <4>1, WhoResumes
      <3> QED
        BY <3>1, <3>3
    <2>3. CASE pc[r] \in Mid
      <3>1. /\ base[r].sid = sess[ScopeOf[r]].sid
            /\ newSess[r].sid # NoSid => newSess[r].sid = Sid(r)
        BY <2>0, <2>3 DEF SessionInv, Reported
      <3>2. base'[r] = base[r]
        <4>1. ASSUME NEW x \in Runs, ReadSession(x) PROVE base'[r] = base[r]
          BY <1>0, <2>0, <2>3, <4>1 DEF ReadSession, At, AtWork
        <4> QED
          BY <4>1, WhoChanges
      <3>3. sess'[ScopeOf[r]] = sess[ScopeOf[r]]
        <4>1. ASSUME NEW x \in Runs, SaveSession(x), ScopeOf[x] = ScopeOf[r] PROVE FALSE
          <5>1. x = r
            <6>1. pc[x] \in Active /\ pc[r] \in Active
              BY <2>3, <4>1, Constants DEF SaveSession, At, Active, AtWork
            <6> QED
              BY <2>0, <4>1, <6>1, OneAtWork
          <5>2. pc'[r] = "cleaning"
            BY <1>0, <2>0, <4>1, <5>1 DEF SaveSession, Goto
          <5> QED
            BY <1>3, <5>2 DEF AtWork
        <4> QED
          BY <2>0, <4>1, WhoStores
      <3>4. ~ReadSession(r)
        BY <2>3 DEF ReadSession, At, AtWork
      <3> QED
        BY <2>0, <3>1, <3>2, <3>3, <3>4, WhoResumes
    <2> QED
      BY <2>1, <2>2, <2>3
  <1>4. ASSUME NEW r \in Runs, Quiet', pc'[r] \in Leave, newSess'[r].sid # NoSid
        PROVE  sess'[ScopeOf[r]].sid = newSess'[r].sid
    <2>0. ScopeOf[r] \in Scopes /\ Quiet
      BY <1>4, Constants, QuietBack
    <2>1. newSess'[r].sid = newSess[r].sid
      <3>1. ReadSession(r) => pc'[r] = "launching"
        BY <1>0, <2>0 DEF ReadSession, Goto
      <3>2. SessionEvent(r) => pc'[r] = "looping"
        BY <1>0, <2>0 DEF SessionEvent, At
      <3> QED
        BY <1>4, <2>0, <3>1, <3>2, WhoResumes DEF Leave
    <2>2. pc[r] \in Leave \/ (pc[r] = "saving" /\ SaveSession(r))
      <3>1. pc[r] \notin Early \cup {"starting"}
        BY <1>4, <2>1 DEF SessionInv, Reported
      <3>2. Path(r)
        BY <2>0, PathStep
      <3> QED
        BY <1>4, <3>1, <3>2, PathEnds DEF Path, Early, Leave
    <2>3. CASE pc[r] = "saving" /\ SaveSession(r)
      BY <1>0, <1>4, <2>0, <2>1, <2>3 DEF SaveSession, Stored
    <2>4. CASE pc[r] \in Leave
      <3>1. sess[ScopeOf[r]].sid = newSess[r].sid
        BY <1>4, <2>0, <2>1, <2>4 DEF SessionInv, Reported
      <3>2. ASSUME NEW x \in Runs, SaveSession(x), ScopeOf[x] = ScopeOf[r],
                   sess'[ScopeOf[r]] = Stored(x)
            PROVE  sess'[ScopeOf[r]].sid = sess[ScopeOf[r]].sid
        <4>1. pc[x] = "saving"
          BY <3>2 DEF SaveSession, At
        <4>2. /\ base[x].sid = sess[ScopeOf[r]].sid
              /\ newSess[x].sid # NoSid => newSess[x].sid = Sid(x)
          BY <2>0, <3>2, <4>1 DEF SessionInv, Reported
        <4>3. base[x].sid # NoSid
          BY <1>4, <2>1, <3>1, <4>2
        <4> QED
          BY <3>2, <4>2, <4>3 DEF Stored
      <3>3. sess'[ScopeOf[r]].sid = sess[ScopeOf[r]].sid
        BY <2>0, <3>2, WhoStores
      <3> QED
        BY <2>1, <3>1, <3>3
    <2> QED
      BY <2>2, <2>3, <2>4
  <1> QED
    BY <1>1, <1>2, <1>3, <1>4 DEF SessionInv, Reported

------------------------------------------------------------------------------
\* What the properties rest on, for every history of messages and commands.
THEOREM Invariance == Spec => []IInv
  <1>1. Init => IInv
    <2> SUFFICES ASSUME Init PROVE QueueInv /\ AgentInv /\ PublishedInv /\ StopInv /\ SessionInv
      BY TypeInit DEF IInv
    <2>1. QueueInv
      BY QueueInvInit
    <2>2. AgentInv
      BY DEF Init, AgentInv, Alive, Leave, Early
    <2>3. PublishedInv
      BY DEF Init, PublishedInv
    <2>4. StopInv
      BY Constants DEF Init, StopInv, StopReachesRun, StopIsShown, AtWork
    <2>5. SessionInv
      BY Constants DEF Init, SessionInv, Reported, AtWork, Leave, NoSession
    <2> QED
      BY <2>1, <2>2, <2>3, <2>4, <2>5
  <1>2. IInv /\ [Next]_vars => IInv'
    BY TypeStep, QueueInvStep, AgentInvStep, PublishedInvStep, StopInvStep, SessionInvStep
       DEF IInv
  <1> QED
    BY <1>1, <1>2, PTL DEF Spec

\* Every variable keeps its type, and stopRun goes on with a run in hand.
THEOREM TypeCorrect == Spec => []TypeOK
  <1>1. IInv => TypeOK
    BY DEF IInv
  <1> QED
    BY <1>1, Invariance, PTL

\* A run can be stopped while it is at work, whichever commands and watchdogs
\* race, and when it was, its card says so.
THEOREM StopIsTrueHolds == Spec => []StopIsTrue
  <1>1. IInv => StopIsTrue
    BY DEF IInv, StopInv, StopIsTrue
  <1> QED
    BY <1>1, Invariance, PTL

\* On every way out of runBatch the agent is gone or told to stop, however many
\* runs there are.
THEOREM NoAgentLeftHolds == Spec => []NoAgentLeft
  <1>1. IInv => NoAgentLeft
    BY DEF IInv, AgentInv, NoAgentLeft, Leave
  <1> QED
    BY <1>1, Invariance, PTL

\* The session a run reported is in the store when it is over, and stays there
\* over all later batches, unless a command other than /stop came.
THEOREM SessionIsKeptHolds == Spec => []SessionIsKept
  <1>1. IInv => SessionIsKept
    BY DEF IInv, SessionInv, SessionIsKept, Quiet, Reported, Leave
  <1> QED
    BY <1>1, Invariance, PTL
=============================================================================
