--------------------------- MODULE PiSession_proofs ---------------------------
(***************************************************************************)
(* Proofs about PiSession for any number of runs and processes, any        *)
(* capacity and any lines: its types, DoneIsDone, and that each run keeps  *)
(* what a run promises (AgentRun), for which a slot is followed from its   *)
(* making to its end (SlotOk).  A done must come from a turn that its      *)
(* run's prompt began.  Processes start in order and a dead one owes       *)
(* nothing (ProcInv); one run of the scope is at work, and its slot and    *)
(* requests are where it is (RunInv); on a process that is not muddled the *)
(* prompt, its answer and the lines of the turn come in this order and are *)
(* of that run (TurnInv); so a done in a channel or on a card is of a      *)
(* finished turn, unless an event was dropped or the process died under    *)
(* the prompt (ChanInv).                                                   *)
(***************************************************************************)
EXTENDS PiSession, SequenceTheorems, FiniteSetTheorems, TLAPS

Places == {"idle", "slot", "writing", "reading", "failing", "refused", "over"} \cup (Requests \ {"abort"})
Prompts == {"prompt", "writing"}
Falling == Prompts \cup {"failing", "refused"}
Slotted == {"prompt", "writing", "failing", "reading"}
IsEvent(line) == line.kind \notin Requests

\* Which processes have been started, and what is left of one that is gone.
ProcInv ==
  /\ \A p \in Procs : os[p] # "none" => \A q \in 1..(p - 1) : os[q] # "none"
  /\ cur # 0 => os[cur] # "none"
  /\ \A r \in Runs : proc[r] # 0 => os[proc[r]] # "none"
  /\ \A p \in Procs : os[p] # "alive" => stdin[p] = << >> /\ turn[p] = NoRun
  /\ \A p \in Procs : dead[p] => os[p] = "gone" /\ pending[p] = {}

\* The runs of a scope come one after the other; a slot is of a run at work
\* over that process, and a request waits where its run is.
RunInv ==
  /\ \A r \in Runs : pc[r] # "idle" => \A x \in 1..(r - 1) : Over(x)
  /\ \A r \in Runs : pc[r] \notin {"idle", "refused"} => proc[r] # 0
  /\ \A p \in Procs : \A r \in slots[p] : proc[r] = p /\ pc[r] \in Slotted /\ ~closed[r]
  /\ \A r \in Runs : pc[r] \in {"idle", "state", "model", "slot"} =>
       chan[r] = << >> /\ ~closed[r] /\ card[r] = "running"
  /\ \A p \in Procs : \A r \in Runs : \A q \in Requests \ {"abort"} :
       <<r, q>> \in pending[p] => proc[r] = p /\ pc[r] = q /\ (q = "model" => r \in Picks)
  /\ \A p \in Procs : dead[p] => \A r \in slots[p] : pc[r] # "reading"

Sound(p) == p \notin muddled /\ ~dead[p]
IsPrompt(p, i) == stdin[p][i][2] = "prompt"
IsAnswer(p, i) == stdout[p][i].kind = "prompt"
Prompting(p, x) == x \in slots[p] /\ pc[x] = "prompt" /\ <<x, "prompt">> \in pending[p]
Answered(p, x) == \E i \in DOMAIN stdout[p] : IsAnswer(p, i) /\ stdout[p][i].run = x
Accepted(p, x) == x \in slots[p] /\ (pc[x] = "reading" \/ (Prompting(p, x) /\ Answered(p, x)))

\* A process works on one turn at a time, that of the run in its slot: the
\* prompt, its answer and the lines of the turn come in this order.
PromptInv(p) == \A i \in DOMAIN stdin[p] : IsPrompt(p, i) =>
  /\ Prompting(p, stdin[p][i][1]) /\ turn[p] = NoRun
  /\ \A j \in DOMAIN stdin[p] : IsPrompt(p, j) => i = j
  /\ \A j \in DOMAIN stdout[p] : ~IsAnswer(p, j) /\ ~IsEvent(stdout[p][j])
AnswerInv(p) == \A i \in DOMAIN stdout[p] : IsAnswer(p, i) =>
  /\ Prompting(p, stdout[p][i].run)
  /\ \A j \in DOMAIN stdout[p] : IsAnswer(p, j) => i = j
  /\ \A j \in DOMAIN stdout[p] : IsEvent(stdout[p][j]) => i < j
  /\ ~stdout[p][i].ok => turn[p] = NoRun /\ \A j \in DOMAIN stdout[p] : ~IsEvent(stdout[p][j])
EventInv(p) == \A i \in DOMAIN stdout[p] : IsEvent(stdout[p][i]) =>
  /\ Accepted(p, stdout[p][i].run)
  /\ stdout[p][i].kind # "message_error"
  /\ stdout[p][i].kind = "agent_settled" =>
       /\ stdout[p][i].run \in finished /\ turn[p] = NoRun
       /\ \A j \in DOMAIN stdout[p] : IsEvent(stdout[p][j]) => j <= i
TurnOk(p) ==
  /\ \A r \in Runs : pc[r] \in Prompts /\ proc[r] = p => r \in slots[p]
  /\ PromptInv(p) /\ AnswerInv(p) /\ EventInv(p)
  /\ turn[p] # NoRun => Accepted(p, turn[p])
TurnInv == \A p \in Procs : Sound(p) => TurnOk(p)

\* A done is of a turn that the agent ended; and a channel is closed after a
\* terminal event, unless it was dropped.
SaysEvent(s, e) == \E i \in DOMAIN s : s[i] = e
ChanInv == \A r \in Runs :
  /\ SaysEvent(chan[r], "done") \/ card[r] = "done" =>
       \/ r \in finished \/ proc[r] \in muddled \/ dropped[r]
       \/ proc[r] # 0 /\ dead[proc[r]] /\ pc[r] \in Falling
  /\ closed[r] /\ pc[r] # "refused" => IsTerminal(chan[r]) \/ card[r] # "running" \/ dropped[r]

IInv == TypeOK /\ ProcInv /\ RunInv /\ TurnInv /\ ChanInv

------------------------------------------------------------------------------
\* Two sequences in a row.
LEMMA Joined ==
  ASSUME NEW S, NEW s \in Seq(S), NEW t \in Seq(S)
  PROVE  /\ s \o t \in Seq(S) /\ Len(s \o t) = Len(s) + Len(t)
         /\ \A i \in DOMAIN (s \o t) :
              \/ i \in DOMAIN s /\ (s \o t)[i] = s[i]
              \/ i - Len(s) \in DOMAIN t /\ (s \o t)[i] = t[i - Len(s)]
         /\ \A i \in DOMAIN s : i \in DOMAIN (s \o t) /\ (s \o t)[i] = s[i]
         /\ \A i \in DOMAIN t : Len(s) + i \in DOMAIN (s \o t) /\ (s \o t)[Len(s) + i] = t[i]
  BY ConcatProperties

\* A sequence with one element more.
LEMMA Appended ==
  ASSUME NEW S, NEW s \in Seq(S), NEW e \in S
  PROVE  /\ Append(s, e) \in Seq(S) /\ Len(Append(s, e)) = Len(s) + 1
         /\ DOMAIN Append(s, e) = 1..Len(s) + 1 /\ DOMAIN s = 1..Len(s)
         /\ \A i \in DOMAIN s : i \in DOMAIN Append(s, e) /\ Append(s, e)[i] = s[i]
         /\ Append(s, e)[Len(s) + 1] = e
         /\ \A i \in DOMAIN Append(s, e) : i \in DOMAIN s \/ i = Len(s) + 1
  BY AppendProperties

\* A sequence without its first element.
LEMMA Shortened ==
  ASSUME NEW S, NEW s \in Seq(S), s # << >>
  PROVE  /\ Tail(s) \in Seq(S) /\ Len(Tail(s)) = Len(s) - 1
         /\ 1 \in DOMAIN s /\ Head(s) = s[1] /\ Head(s) \in S
         /\ \A i \in DOMAIN Tail(s) : i # 0 /\ i + 1 \in DOMAIN s /\ i + 1 # 1
                                      /\ Tail(s)[i] = s[i + 1]
         /\ \A i \in DOMAIN s : i # 1 => i - 1 \in DOMAIN Tail(s)
  BY HeadTailProperties

------------------------------------------------------------------------------
\* What translateEvents makes of a line: one event at most, and a done only of an
\* end of a turn.
LEMMA EventOfKind ==
  ASSUME NEW kind
  PROVE  /\ EventOf(kind) \in Seq(Events) /\ Len(EventOf(kind)) <= 1
         /\ IsTerminal(EventOf(kind)) => kind \in {"agent_settled", "agent_end", "message_error"}
         /\ SaysEvent(EventOf(kind), "done") => kind \in {"agent_settled", "agent_end"}
         /\ SaysEvent(EventOf(kind), "done") => IsTerminal(EventOf(kind))
  <1>1. << >> \in Seq(Events) /\ Len(<< >>) <= 1
    OBVIOUS
  <1>2. \A e \in Events : <<e>> \in Seq(Events) /\ Len(<<e>>) <= 1
    OBVIOUS
  <1>3. EventOf(kind) = << >> \/ \E e \in Events : EventOf(kind) = <<e>>
    BY DEF EventOf, Events, Terminals
  <1>4. EventOf(kind) \in Seq(Events) /\ Len(EventOf(kind)) <= 1
    BY <1>1, <1>2, <1>3, Zenon
  <1>5. IsTerminal(EventOf(kind)) => kind \in {"agent_settled", "agent_end", "message_error"}
    BY DEF EventOf, IsTerminal, Terminals
  <1>6. SaysEvent(EventOf(kind), "done") => kind \in {"agent_settled", "agent_end"}
    BY DEF EventOf, SaysEvent
  <1>7. SaysEvent(EventOf(kind), "done") => IsTerminal(EventOf(kind))
    BY DEF SaysEvent, IsTerminal, Terminals
  <1> QED
    BY <1>4, <1>5, <1>6, <1>7

\* The queues, channels and places, by process and by run.
LEMMA Parts ==
  ASSUME TypeOK
  PROVE  /\ 0 \notin Procs /\ 0 \notin Runs /\ Procs \subseteq Nat /\ Runs \subseteq Nat
         /\ \A p \in Procs : stdin[p] \in Seq(Runs \X Requests) /\ stdout[p] \in Seq(Lines)
         /\ \A r \in Runs : chan[r] \in Seq(Events) /\ Len(chan[r]) \in Nat /\ Len(chan[r]) <= Capacity
         /\ \A r \in Runs : pc[r] \in Places /\ proc[r] \in Procs \cup {0}
         /\ \A p \in Procs : turn[p] \in Runs \cup {0} /\ os[p] \in {"none", "alive", "gone"}
         /\ pc \in [Runs -> Places]
  <1>1. 0 \notin Procs /\ 0 \notin Runs /\ Procs \subseteq Nat /\ Runs \subseteq Nat
    BY SessionAssumption DEF Procs, Runs
  <1>2. \A p \in Procs : stdin[p] \in Seq(Runs \X Requests) /\ stdout[p] \in Seq(Lines)
    BY DEF TypeOK
  <1>3. \A r \in Runs : chan[r] \in Seq(Events) /\ Len(chan[r]) \in Nat /\ Len(chan[r]) <= Capacity
    BY DEF TypeOK
  <1>4. pc \in [Runs -> Places] /\ \A r \in Runs : proc[r] \in Procs \cup {0}
    BY DEF TypeOK, Places
  <1>5. \A p \in Procs : turn[p] \in Runs \cup {0} /\ os[p] \in {"none", "alive", "gone"}
    BY DEF TypeOK, NoRun
  <1> QED
    BY <1>1, <1>2, <1>3, <1>4, <1>5

\* A process that is killed or dies.
LEMMA GoneTypes ==
  ASSUME TypeOK, NEW p \in Procs \cup {0}, Gone(p)
  PROVE  /\ os' \in [Procs -> {"none", "alive", "gone"}]
         /\ stdin' \in [Procs -> Seq(Runs \X Requests)]
         /\ turn' \in [Procs -> Runs \cup {NoRun}]
         /\ \A q \in Procs :
              /\ os'[q] = os[q] \/ (os[q] = "alive" /\ os'[q] = "gone")
              /\ \/ stdin'[q] = stdin[q] /\ turn'[q] = turn[q] /\ os'[q] = os[q]
                 \/ stdin'[q] = << >> /\ turn'[q] = NoRun
  <1>1. << >> \in Seq(Runs \X Requests)
    OBVIOUS
  <1>2. os \in [Procs -> {"none", "alive", "gone"}] /\ stdin \in [Procs -> Seq(Runs \X Requests)]
        /\ turn \in [Procs -> Runs \cup {NoRun}]
    BY DEF TypeOK
  <1>3. CASE p = 0
    <2>1. os' = os /\ stdin' = stdin /\ turn' = turn
      BY <1>2, <1>3, Parts DEF Gone
    <2> QED
      BY <1>2, <2>1
  <1>4. CASE p \in Procs
    BY <1>1, <1>2, <1>4 DEF Gone
  <1> QED
    BY <1>3, <1>4

\* The types hold at the start.
LEMMA InitTypes == Init => TypeOK
  <1> SUFFICES ASSUME Init PROVE TypeOK
    OBVIOUS
  <1>1. << >> \in Seq(Runs \X Requests) /\ << >> \in Seq(Lines) /\ << >> \in Seq(Events) /\ Len(<< >>) = 0
    OBVIOUS
  <1>2. stdin \in [Procs -> Seq(Runs \X Requests)] /\ stdout \in [Procs -> Seq(Lines)]
        /\ chan \in [Runs -> Seq(Events)]
    BY <1>1 DEF Init
  <1>3. \A r \in Runs : Len(chan[r]) <= Capacity
    BY <1>1, SessionAssumption DEF Init
  <1>4. /\ cur \in Procs \cup {0} /\ lines \in 0..MaxLines
        /\ os \in [Procs -> {"none", "alive", "gone"}]
        /\ {dead, known} \subseteq [Procs -> BOOLEAN]
        /\ turn \in [Procs -> Runs \cup {NoRun}]
        /\ slots \in [Procs -> SUBSET Runs] /\ pending \in [Procs -> SUBSET (Runs \X Requests)]
    BY SessionAssumption DEF Init
  <1>5. pc \in [Runs -> {"idle", "slot", "reading", "failing", "refused", "over"} \cup (Requests \ {"abort"})]
        /\ proc \in [Runs -> Procs \cup {0}]
    BY DEF Init
  <1>6. /\ {closed, dropped} \subseteq [Runs -> BOOLEAN]
        /\ card \in [Runs -> {"running", "interrupted"} \cup Terminals]
        /\ abort \in [Runs -> {"no", "waiting", "over"}] /\ timer \in [Runs -> {"no", "armed", "over"}]
        /\ panicked \in BOOLEAN /\ finished \subseteq Runs /\ muddled \subseteq Procs
    BY DEF Init
  <1> QED
    BY <1>2, <1>3, <1>4, <1>5, <1>6 DEF TypeOK

\* sendSafe fills channels up to their capacity and drops the rest.
LEMMA SentTypes ==
  ASSUME TypeOK, NEW R, NEW events \in Seq(Events), SafeSend(R, events)
  PROVE  /\ chan' \in [Runs -> Seq(Events)] /\ \A r \in Runs : Len(chan'[r]) <= Capacity
         /\ dropped' \in [Runs -> BOOLEAN]
  <1>1. \A r \in Runs : chan[r] \o events \in Seq(Events)
                        /\ Len(chan[r] \o events) = Len(chan[r]) + Len(events)
    BY Parts, Joined
  <1>2. \A r \in Runs : chan'[r] = IF r \in R /\ Room(r, events) THEN chan[r] \o events ELSE chan[r]
    BY DEF SafeSend
  <1>3. \A r \in Runs : chan'[r] \in Seq(Events) /\ Len(chan'[r]) <= Capacity
    BY <1>1, <1>2, Parts DEF Room
  <1>4. dropped' \in [Runs -> BOOLEAN]
    BY DEF SafeSend, TypeOK
  <1> QED
    BY <1>3, <1>4 DEF SafeSend

\* Slots that are closed leave the map.
LEMMA ClosedTypes ==
  ASSUME TypeOK, NEW p, NEW R, CloseSlots(p, R)
  PROVE  closed' \in [Runs -> BOOLEAN] /\ slots' \in [Procs -> SUBSET Runs]
  BY DEF CloseSlots, TypeOK

------------------------------------------------------------------------------
\* The agent's steps keep the types.
LEMMA SaysTypes ==
  ASSUME TypeOK, NEW p \in Procs, NEW kind, NEW r \in Runs, NEW ok \in BOOLEAN,
         kind \in Requests \cup Chatter \cup {"agent_settled"}, Says(p, kind, r, ok)
  PROVE  stdout' \in [Procs -> Seq(Lines)]
  <1>1. [kind |-> kind, run |-> r, ok |-> ok] \in Lines
    BY DEF Lines
  <1>2. Append(stdout[p], [kind |-> kind, run |-> r, ok |-> ok]) \in Seq(Lines)
    BY <1>1, Parts, Appended
  <1> QED
    BY <1>2 DEF Says, TypeOK

\* The steps of an agent keep the types ...
LEMMA AgentTypes ==
  ASSUME TypeOK, NEW p \in Procs,
         Handle(p) \/ Settle(p) \/ Die(p) \/ \E kind \in Chatter : Chat(p, kind)
  PROVE  TypeOK'
  <1> USE DEF AgentOnly, slotVars, runVars, stopVars, history
  <1>1. CASE Handle(p)
    <2> DEFINE r == stdin[p][1][1]
               request == stdin[p][1][2]
    <2>1. stdin[p] # << >> /\ stdin' = [stdin EXCEPT ![p] = Tail(@)]
      BY <1>1 DEF Handle
    <2>2. stdin[p][1] \in Runs \X Requests /\ Tail(stdin[p]) \in Seq(Runs \X Requests)
      BY <2>1, Parts, Shortened
    <2>3. r \in Runs /\ request \in Requests /\ stdin' \in [Procs -> Seq(Runs \X Requests)]
      BY <2>1, <2>2 DEF TypeOK
    <2>4. \/ \E ok \in BOOLEAN : Says(p, request, r, ok) /\ UNCHANGED <<turn, finished>>
          \/ /\ Says(p, request, r, TRUE) /\ turn' = [turn EXCEPT ![p] = r] /\ UNCHANGED finished
          \/ /\ turn[p] # NoRun
             /\ stdout' = [stdout EXCEPT ![p] =
                  @ \o <<[kind |-> "agent_settled", run |-> turn[p], ok |-> TRUE],
                         [kind |-> "abort", run |-> r, ok |-> TRUE]>>]
             /\ finished' = finished \cup {turn[p]}
             /\ turn' = [turn EXCEPT ![p] = NoRun]
      BY <1>1 DEF Handle
    <2>5. UNCHANGED <<os, dead, known, lines, muddled>> /\ AgentOnly
      BY <1>1 DEF Handle
    <2> HIDE DEF r, request
    <2>6. CASE \E ok \in BOOLEAN : Says(p, request, r, ok) /\ UNCHANGED <<turn, finished>>
      <3>1. stdout' \in [Procs -> Seq(Lines)]
        BY <2>3, <2>6, SaysTypes
      <3> QED
        BY <2>3, <2>5, <2>6, <3>1 DEF TypeOK
    <2>7. CASE Says(p, request, r, TRUE) /\ turn' = [turn EXCEPT ![p] = r] /\ UNCHANGED finished
      <3>1. stdout' \in [Procs -> Seq(Lines)] /\ turn' \in [Procs -> Runs \cup {NoRun}]
        BY <2>3, <2>7, SaysTypes DEF TypeOK
      <3> QED
        BY <2>3, <2>5, <2>7, <3>1 DEF TypeOK
    <2>8. CASE /\ turn[p] # NoRun
               /\ stdout' = [stdout EXCEPT ![p] =
                    @ \o <<[kind |-> "agent_settled", run |-> turn[p], ok |-> TRUE],
                           [kind |-> "abort", run |-> r, ok |-> TRUE]>>]
               /\ finished' = finished \cup {turn[p]}
               /\ turn' = [turn EXCEPT ![p] = NoRun]
      <3>1. turn[p] \in Runs
        BY <2>8 DEF TypeOK
      <3>2. [kind |-> "agent_settled", run |-> turn[p], ok |-> TRUE] \in Lines
            /\ [kind |-> "abort", run |-> r, ok |-> TRUE] \in Lines
        BY <2>3, <3>1 DEF Lines, Requests
      <3>3. <<[kind |-> "agent_settled", run |-> turn[p], ok |-> TRUE],
              [kind |-> "abort", run |-> r, ok |-> TRUE]>> \in Seq(Lines)
        BY <3>2
      <3> DEFINE more == <<[kind |-> "agent_settled", run |-> turn[p], ok |-> TRUE],
                           [kind |-> "abort", run |-> r, ok |-> TRUE]>>
      <3>4. stdout' = [stdout EXCEPT ![p] = @ \o more] /\ more \in Seq(Lines)
        BY <2>8, <3>3
      <3> HIDE DEF more
      <3>5. stdout[p] \o more \in Seq(Lines)
        BY <3>4, Parts, Joined
      <3>6. stdout' \in [Procs -> Seq(Lines)]
        BY <3>4, <3>5 DEF TypeOK
      <3>7. finished' \subseteq Runs /\ turn' \in [Procs -> Runs \cup {NoRun}]
        BY <2>8, <3>1 DEF TypeOK
      <3> QED
        BY <2>3, <2>5, <3>6, <3>7 DEF TypeOK
    <2> QED
      BY <2>4, <2>6, <2>7, <2>8
  <1>2. CASE Settle(p)
    <2>1. turn[p] \in Runs
      BY <1>2 DEF Settle, TypeOK
    <2>2. stdout' \in [Procs -> Seq(Lines)]
      BY <1>2, <2>1, SaysTypes DEF Settle
    <2>3. finished' \subseteq Runs /\ turn' \in [Procs -> Runs \cup {NoRun}]
      BY <1>2, <2>1 DEF Settle, TypeOK
    <2> QED
      BY <1>2, <2>2, <2>3 DEF Settle, TypeOK
  <1>3. CASE Die(p)
    <2>1. os' \in [Procs -> {"none", "alive", "gone"}]
          /\ stdin' \in [Procs -> Seq(Runs \X Requests)]
          /\ turn' \in [Procs -> Runs \cup {NoRun}]
      BY <1>3, GoneTypes DEF Die
    <2> QED
      BY <1>3, <2>1 DEF Die, TypeOK
  <1>4. ASSUME NEW kind \in Chatter, Chat(p, kind) PROVE TypeOK'
    <2>1. turn[p] \in Runs
      BY <1>4 DEF Chat, TypeOK
    <2>2. stdout' \in [Procs -> Seq(Lines)]
      BY <1>4, <2>1, SaysTypes DEF Chat
    <2>3. lines' \in 0..MaxLines /\ muddled' \subseteq Procs
      BY <1>4, SessionAssumption DEF Chat, TypeOK
    <2> QED
      BY <1>4, <2>2, <2>3 DEF Chat, TypeOK
  <1> QED
    BY <1>1, <1>2, <1>3, <1>4

\* Those of the goroutines that read from it and wait for it.
LEMMA AfterTypes ==
  ASSUME NEW q \in Places, NEW ok PROVE After(q, ok) \in Places
  BY DEF After, Places, Requests

\* ... those of the goroutines that read and wait for it ...
LEMMA ReadTypes ==
  ASSUME TypeOK, NEW p \in Procs, Read(p) \/ Wait(p)
  PROVE  TypeOK'
  <1> USE DEF stopVars, history
  <1>1. CASE Read(p)
    <2> DEFINE line == Head(stdout[p])
               waits == <<line.run, line.kind>> \in pending[p]
    <2>1. stdout[p] # << >> /\ stdout' = [stdout EXCEPT ![p] = Tail(@)]
          /\ UNCHANGED <<cur, os, dead, stdin, turn, lines, proc, card, timer, panicked, history>>
      BY <1>1 DEF Read
    <2>2. line \in Lines /\ Tail(stdout[p]) \in Seq(Lines)
      BY <2>1, Parts, Shortened
    <2>3. stdout' \in [Procs -> Seq(Lines)] /\ line.run \in Runs
      BY <2>1, <2>2 DEF TypeOK, Lines
    <2>4. CASE line.kind \in Requests
      <3>1. /\ known' = [known EXCEPT ![p] = @ \/ (line.kind = "state" /\ line.ok)]
            /\ pending' = [pending EXCEPT ![p] = @ \ {<<line.run, line.kind>>}]
            /\ pc' = IF waits /\ line.kind # "abort"
                     THEN [pc EXCEPT ![line.run] = After(line.kind, line.ok)] ELSE pc
            /\ abort' = IF waits /\ line.kind = "abort"
                        THEN [abort EXCEPT ![line.run] = "over"] ELSE abort
            /\ UNCHANGED <<slots, chan, closed, dropped>>
        BY <1>1, <2>4 DEF Read
      <3>2. line.kind # "abort" => After(line.kind, line.ok) \in Places
        BY <2>4, AfterTypes DEF Places
      <3> HIDE DEF line
      <3>3. pc' \in [Runs -> Places]
        BY <3>1, <3>2, Parts
      <3>4. known' \in [Procs -> BOOLEAN] /\ pending' \in [Procs -> SUBSET (Runs \X Requests)]
            /\ abort' \in [Runs -> {"no", "waiting", "over"}]
        BY <3>1 DEF TypeOK
      <3> QED
        BY <2>1, <2>3, <3>1, <3>3, <3>4 DEF TypeOK, Places
    <2>5. CASE line.kind \notin Requests
      <3>1. /\ SafeSend(slots[p], EventOf(line.kind))
            /\ CloseSlots(p, IF IsTerminal(EventOf(line.kind)) THEN slots[p] ELSE {})
            /\ UNCHANGED <<known, pending, pc, abort>>
        BY <1>1, <2>5 DEF Read
      <3> HIDE DEF line
      <3>2. /\ chan' \in [Runs -> Seq(Events)] /\ \A r \in Runs : Len(chan'[r]) <= Capacity
            /\ dropped' \in [Runs -> BOOLEAN]
        BY <3>1, EventOfKind, SentTypes
      <3>3. closed' \in [Runs -> BOOLEAN] /\ slots' \in [Procs -> SUBSET Runs]
        BY <3>1, ClosedTypes
      <3> QED
        BY <2>1, <2>3, <3>1, <3>2, <3>3 DEF TypeOK
    <2> QED
      BY <2>4, <2>5
  <1>2. CASE Wait(p)
    <2>1. /\ dead' = [dead EXCEPT ![p] = TRUE] /\ pending' = [pending EXCEPT ![p] = {}]
          /\ pc' = [r \in Runs |-> IF \E q \in Requests \ {"abort"} : <<r, q>> \in pending[p]
                                   THEN After(pc[r], FALSE) ELSE pc[r]]
          /\ SafeSend(slots[p], <<"error">>) /\ CloseSlots(p, slots[p])
          /\ stdout' \in {stdout, [stdout EXCEPT ![p] = << >>]}
          /\ UNCHANGED <<cur, os, known, stdin, turn, lines, proc, card, stopVars, panicked, history>>
      BY <1>2 DEF Wait
    <2>2. dead' \in [Procs -> BOOLEAN] /\ pending' \in [Procs -> SUBSET (Runs \X Requests)]
      BY <2>1 DEF TypeOK
    <2>3. pc' \in [Runs -> Places]
      <3>1. \A r \in Runs : pc[r] \in Places /\ After(pc[r], FALSE) \in Places
        BY Parts, AfterTypes
      <3> QED
        BY <2>1, <3>1
    <2>4. /\ chan' \in [Runs -> Seq(Events)] /\ \A r \in Runs : Len(chan'[r]) <= Capacity
          /\ dropped' \in [Runs -> BOOLEAN]
      <3>1. "error" \in Events
        BY DEF Events, Terminals
      <3>2. <<"error">> \in Seq(Events)
        BY <3>1
      <3> QED
        BY <2>1, <3>2, SentTypes
    <2>5. closed' \in [Runs -> BOOLEAN] /\ slots' \in [Procs -> SUBSET Runs]
      BY <2>1, ClosedTypes
    <2>6. stdout' \in [Procs -> Seq(Lines)]
      <3>1. << >> \in Seq(Lines)
        OBVIOUS
      <3> QED
        BY <2>1, <3>1 DEF TypeOK
    <2>7. /\ cur' \in Procs \cup {0} /\ lines' \in 0..MaxLines
          /\ os' \in [Procs -> {"none", "alive", "gone"}] /\ known' \in [Procs -> BOOLEAN]
          /\ stdin' \in [Procs -> Seq(Runs \X Requests)] /\ turn' \in [Procs -> Runs \cup {NoRun}]
      BY <2>1 DEF TypeOK
    <2>8. /\ proc' \in [Runs -> Procs \cup {0}] /\ card' \in [Runs -> {"running", "interrupted"} \cup Terminals]
          /\ abort' \in [Runs -> {"no", "waiting", "over"}] /\ timer' \in [Runs -> {"no", "armed", "over"}]
          /\ panicked' \in BOOLEAN /\ finished' \subseteq Runs /\ muddled' \subseteq Procs
      BY <2>1 DEF TypeOK, stopVars, history
    <2>9. {dead, known}' \subseteq [Procs -> BOOLEAN] /\ {closed, dropped}' \subseteq [Runs -> BOOLEAN]
      BY <2>2, <2>4, <2>5, <2>7
    <2> QED
      BY <2>2, <2>3, <2>4, <2>5, <2>6, <2>7, <2>8, <2>9, Zenon DEF TypeOK, Places
  <1> QED
    BY <1>1, <1>2

\* Those of a run, up to its start, and of what ends it.
LEMMA AtPlace ==
  ASSUME TypeOK, RunInv, NEW r \in Runs, NEW l, l \notin {"idle", "refused"}, At(r, l)
  PROVE  pc[r] = l /\ ~panicked /\ proc[r] \in Procs
  BY Parts DEF At, RunInv

\* A request that is written waits for its reply.
LEMMA WriteTypes ==
  ASSUME TypeOK, NEW r \in Runs, NEW p \in Procs, NEW request \in Requests
  PROVE  /\ [stdin EXCEPT ![p] = Append(@, <<r, request>>)] \in [Procs -> Seq(Runs \X Requests)]
         /\ [pending EXCEPT ![p] = @ \cup {<<r, request>>}] \in [Procs -> SUBSET (Runs \X Requests)]
  <1>1. <<r, request>> \in Runs \X Requests
    OBVIOUS
  <1>2. Append(stdin[p], <<r, request>>) \in Seq(Runs \X Requests)
    BY <1>1, Parts, Appended
  <1> QED
    BY <1>1, <1>2 DEF TypeOK

\* A run goes to a place of its code.
LEMMA GotoTypes ==
  ASSUME TypeOK, NEW r \in Runs, NEW l \in Places, Goto(r, l)
  PROVE  pc' \in [Runs -> Places]
  BY DEF TypeOK, Places, Goto

\* ... the requests that startRun sends ...
LEMMA SendTypes ==
  ASSUME TypeOK, RunInv, NEW r \in Runs, NEW request \in Requests \ {"abort"}, Send(r, request)
  PROVE  TypeOK'
  <1>1. proc[r] \in Procs
    BY AtPlace DEF Send, Requests
  <1>2. UNCHANGED <<cur, os, dead, known, stdout, turn, lines, slots, chan, closed, dropped,
                    proc, card, abort, timer, panicked, finished, muddled>>
    BY DEF Send, stopVars, history
  <1>3. CASE os[proc[r]] = "gone"
    <2>1. Goto(r, After(request, FALSE)) /\ UNCHANGED <<stdin, pending>>
      BY <1>3 DEF Send
    <2>2. After(request, FALSE) \in Places
      BY AfterTypes DEF Places
    <2>3. pc' \in [Runs -> Places]
      BY <2>1, <2>2, GotoTypes
    <2> QED
      BY <1>2, <2>1, <2>3 DEF TypeOK, Places
  <1>4. CASE os[proc[r]] # "gone"
    <2>1. /\ stdin' = [stdin EXCEPT ![proc[r]] = Append(@, <<r, request>>)]
          /\ pending' = [pending EXCEPT ![proc[r]] = @ \cup {<<r, request>>}]
          /\ UNCHANGED pc
      BY <1>4 DEF Send
    <2>2. stdin' \in [Procs -> Seq(Runs \X Requests)] /\ pending' \in [Procs -> SUBSET (Runs \X Requests)]
      BY <1>1, <2>1, WriteTypes
    <2> QED
      BY <1>2, <2>1, <2>2 DEF TypeOK
  <1> QED
    BY <1>3, <1>4

\* ... the other steps of startRun ...
LEMMA StartTypes ==
  ASSUME TypeOK, RunInv, NEW r \in Runs, Begin(r) \/ BeginFails(r) \/ Starting(r) \/ Written(r)
  PROVE  TypeOK'
  <1> USE DEF procVars, slotVars, stopVars, history
  <1>1. CASE Begin(r)
    <2>1. PICK p \in Procs : /\ cur' = p /\ proc' = [proc EXCEPT ![r] = p]
                             /\ os' = os \/ os' = [os EXCEPT ![p] = "alive"]
      BY <1>1 DEF Begin
    <2>2. Goto(r, "state") /\ UNCHANGED <<dead, known, stdin, stdout, turn, lines, slotVars, card,
                                          stopVars, panicked, history>>
      BY <1>1 DEF Begin
    <2>3. pc' \in [Runs -> Places]
      BY <2>2, GotoTypes DEF Places, Requests
    <2>4. proc' \in [Runs -> Procs \cup {0}] /\ os' \in [Procs -> {"none", "alive", "gone"}]
      BY <2>1 DEF TypeOK
    <2> QED
      BY <2>1, <2>2, <2>3, <2>4 DEF TypeOK, Places
  <1>2. CASE BeginFails(r)
    <2>1. pc' \in [Runs -> Places]
      BY <1>2, GotoTypes DEF Places, BeginFails
    <2> QED
      BY <1>2, <2>1 DEF TypeOK, Places, BeginFails
  <1>3. CASE SkipState(r)
    <2>1. pc' \in [Runs -> Places]
      BY <1>3, GotoTypes DEF Places, Requests, SkipState
    <2> QED
      BY <1>3, <2>1 DEF TypeOK, Places, SkipState
  <1>4. CASE GetState(r) \/ EnsureModel(r) \/ Prompt(r)
    <2>1. \E q \in Requests \ {"abort"} : Send(r, q)
      BY <1>4 DEF GetState, EnsureModel, Prompt, Requests
    <2> QED
      BY <2>1, SendTypes
  <1>5. CASE MakeSlot(r)
    <2>1. proc[r] \in Procs
      BY <1>5, AtPlace DEF MakeSlot
    <2>2. "system" \in Events
      BY DEF Events
    <2>3. <<"system">> \in Seq(Events) /\ Len(<<"system">>) <= Capacity
      BY <2>2, SessionAssumption
    <2>4. chan' \in [Runs -> Seq(Events)]
      BY <1>5, <2>3 DEF MakeSlot, TypeOK
    <2>5. \A x \in Runs : Len(chan'[x]) <= Capacity
      BY <1>5, <2>3 DEF MakeSlot, TypeOK
    <2>6. slots' \in [Procs -> SUBSET Runs]
      BY <1>5, <2>1 DEF MakeSlot, TypeOK
    <2>7. pc' \in [Runs -> Places]
      BY <1>5, GotoTypes DEF Places, Requests, MakeSlot
    <2>8. UNCHANGED <<cur, procVars, pending, closed, dropped, proc, card, stopVars, panicked, history>>
      BY <1>5 DEF MakeSlot
    <2> QED
      BY <2>4, <2>5, <2>6, <2>7, <2>8 DEF TypeOK, Places
  <1>6. CASE Fail(r)
    <2>1. pc' \in [Runs -> Places]
      BY <1>6, GotoTypes DEF Places, Fail
    <2>2. closed' \in [Runs -> BOOLEAN] /\ slots' \in [Procs -> SUBSET Runs] /\ panicked' \in BOOLEAN
      <3>1. CASE closed[r]
        BY <1>6, <3>1 DEF Fail, TypeOK
      <3>2. CASE ~closed[r]
        BY <1>6, <3>2, ClosedTypes DEF Fail, TypeOK
      <3> QED
        BY <3>1, <3>2
    <2> QED
      BY <1>6, <2>1, <2>2 DEF TypeOK, Places, Fail
  <1>7. CASE Block(r) \/ WriteFails(r)
    <2>1. \E l \in {"writing", "failing"} : Goto(r, l)
      BY <1>7 DEF Block, WriteFails, After
    <2>2. pc' \in [Runs -> Places]
      BY <2>1, GotoTypes DEF Places
    <2> QED
      BY <1>7, <2>2 DEF TypeOK, Places, Block, WriteFails
  <1>8. CASE Written(r)
    <2>1. proc[r] \in Procs
      BY <1>8, AtPlace DEF Written
    <2>2. stdin' \in [Procs -> Seq(Runs \X Requests)] /\ pending' \in [Procs -> SUBSET (Runs \X Requests)]
      BY <1>8, <2>1, WriteTypes DEF Written, Requests
    <2>3. pc' \in [Runs -> Places]
      BY <1>8, GotoTypes DEF Places, Requests, Written
    <2> QED
      BY <1>8, <2>2, <2>3 DEF TypeOK, Places, Written
  <1> QED
    BY <1>1, <1>2, <1>3, <1>4, <1>5, <1>6, <1>7, <1>8 DEF Starting

\* ... the event loop and the timeouts ...
LEMMA LoopTypes ==
  ASSUME TypeOK, RunInv, NEW r \in Runs, Loop(r) \/ \E q \in Requests : Timeout(r, q)
  PROVE  TypeOK'
  <1> USE DEF procVars, slotVars, stopVars, history
  <1>1. CASE Receive(r)
    <2>1. chan[r] # << >> /\ chan' = [chan EXCEPT ![r] = Tail(@)]
          /\ card' = [card EXCEPT ![r] = IF Head(chan[r]) \in Terminals THEN Head(chan[r]) ELSE @]
          /\ UNCHANGED <<cur, procVars, slots, pending, closed, dropped, pc, proc, stopVars, panicked, history>>
      BY <1>1 DEF Receive
    <2>2. Tail(chan[r]) \in Seq(Events) /\ Len(Tail(chan[r])) = Len(chan[r]) - 1
      BY <2>1, Parts, Shortened
    <2>3. chan' \in [Runs -> Seq(Events)]
      BY <2>1, <2>2 DEF TypeOK
    <2>4. \A x \in Runs : Len(chan'[x]) <= Capacity
      BY <2>1, <2>2, Parts, SessionAssumption DEF TypeOK
    <2>5. card' \in [Runs -> {"running", "interrupted"} \cup Terminals]
      BY <2>1 DEF TypeOK
    <2> QED
      BY <2>1, <2>3, <2>4, <2>5 DEF TypeOK
  <1>2. CASE SeesClose(r)
    <2>1. pc' \in [Runs -> Places]
      BY <1>2, GotoTypes DEF Places, SeesClose
    <2>2. card' \in [Runs -> {"running", "interrupted"} \cup Terminals]
      BY <1>2 DEF TypeOK, SeesClose, Terminals
    <2> QED
      BY <1>2, <2>1, <2>2 DEF TypeOK, Places, SeesClose
  <1>3. ASSUME NEW q \in Requests, Timeout(r, q) PROVE TypeOK'
    <2>1. proc[r] \in Procs
      BY <1>3, AtPlace DEF Timeout, Requests
    <2>2. After(q, FALSE) \in Places
      BY <1>3, AfterTypes DEF Places, Timeout
    <2>3. pc' \in [Runs -> Places]
      BY <1>3, <2>2, GotoTypes DEF Timeout
    <2>4. pending' \in [Procs -> SUBSET (Runs \X Requests)] /\ muddled' \subseteq Procs
      BY <1>3, <2>1 DEF Timeout, TypeOK
    <2> QED
      BY <1>3, <2>3, <2>4 DEF TypeOK, Places, Timeout
  <1> QED
    BY <1>1, <1>2, <1>3 DEF Loop

\* ... Stop and its timer ...
LEMMA StopTypes ==
  ASSUME TypeOK, RunInv, NEW r \in Runs, Stop(r) \/ Escalate(r) \/ AbortFails(r)
  PROVE  TypeOK'
  <1> USE DEF runVars, slotVars, history
  <1>1. CASE Stop(r)
    <2>1. proc[r] \in Procs
      BY <1>1, AtPlace DEF Stop
    <2>2. timer' \in [Runs -> {"no", "armed", "over"}]
          /\ UNCHANGED <<cur, os, dead, known, stdout, turn, lines, slots, chan, closed, dropped,
                         runVars, panicked, history>>
      BY <1>1 DEF Stop, TypeOK
    <2>3. CASE os[proc[r]] = "gone"
      <3>1. abort' \in [Runs -> {"no", "waiting", "over"}] /\ UNCHANGED <<stdin, pending>>
        BY <1>1, <2>3 DEF Stop, TypeOK
      <3> QED
        BY <2>2, <3>1 DEF TypeOK
    <2>4. CASE os[proc[r]] # "gone"
      <3>1. abort' \in [Runs -> {"no", "waiting", "over"}]
            /\ stdin' = [stdin EXCEPT ![proc[r]] = Append(@, <<r, "abort">>)]
            /\ pending' = [pending EXCEPT ![proc[r]] = @ \cup {<<r, "abort">>}]
        BY <1>1, <2>4 DEF Stop, TypeOK
      <3>2. stdin' \in [Procs -> Seq(Runs \X Requests)] /\ pending' \in [Procs -> SUBSET (Runs \X Requests)]
        BY <2>1, <3>1, WriteTypes DEF Requests
      <3> QED
        BY <2>2, <3>1, <3>2 DEF TypeOK
    <2> QED
      BY <2>3, <2>4
  <1>2. CASE Escalate(r)
    <2>1. timer' \in [Runs -> {"no", "armed", "over"}]
          /\ UNCHANGED <<cur, dead, known, stdout, lines, slotVars, runVars, abort, panicked, history>>
      BY <1>2 DEF Escalate, TypeOK
    <2>2. /\ os' \in [Procs -> {"none", "alive", "gone"}]
          /\ stdin' \in [Procs -> Seq(Runs \X Requests)]
          /\ turn' \in [Procs -> Runs \cup {NoRun}]
      <3>1. CASE closed[r]
        BY <1>2, <3>1 DEF Escalate, TypeOK
      <3>2. CASE ~closed[r]
        BY <1>2, <3>2, GoneTypes, Parts DEF Escalate
      <3> QED
        BY <3>1, <3>2
    <2> QED
      BY <2>1, <2>2 DEF TypeOK
  <1>3. CASE AbortFails(r)
    <2>1. abort' \in [Runs -> {"no", "waiting", "over"}]
          /\ pending' \in [Procs -> SUBSET (Runs \X Requests)]
          /\ UNCHANGED <<cur, dead, known, stdout, lines, slots, chan, closed, dropped,
                         runVars, timer, panicked, history>>
      BY <1>3 DEF AbortFails, TypeOK
    <2>2. /\ os' \in [Procs -> {"none", "alive", "gone"}]
          /\ stdin' \in [Procs -> Seq(Runs \X Requests)]
          /\ turn' \in [Procs -> Runs \cup {NoRun}]
      BY <1>3, GoneTypes, Parts DEF AbortFails
    <2> QED
      BY <2>1, <2>2 DEF TypeOK
  <1> QED
    BY <1>1, <1>2, <1>3

\* ... and so every step does.
LEMMA TypeStep ==
  ASSUME TypeOK, RunInv, [Next]_vars
  PROVE  TypeOK'
  <1>1. CASE Reset
    <2>1. cur' = 0 /\ cur \in Procs \cup {0} /\ Gone(cur)
          /\ UNCHANGED <<dead, known, stdout, lines, slotVars, runVars, stopVars, panicked, history>>
      BY <1>1 DEF Reset, TypeOK
    <2>2. /\ os' \in [Procs -> {"none", "alive", "gone"}]
          /\ stdin' \in [Procs -> Seq(Runs \X Requests)]
          /\ turn' \in [Procs -> Runs \cup {NoRun}]
      BY <2>1, GoneTypes
    <2> QED
      BY <2>1, <2>2 DEF TypeOK, slotVars, runVars, stopVars, history
  <1>2. CASE UNCHANGED vars
    BY <1>2 DEF TypeOK, vars, procVars, slotVars, runVars, stopVars, history
  <1>3. ASSUME NEW p \in Procs, Handle(p) \/ Settle(p) \/ Die(p) \/ \E kind \in Chatter : Chat(p, kind)
        PROVE TypeOK'
    BY <1>3, AgentTypes
  <1>4. ASSUME NEW p \in Procs, Read(p) \/ Wait(p) PROVE TypeOK'
    BY <1>4, ReadTypes
  <1>5. ASSUME NEW r \in Runs, Begin(r) \/ BeginFails(r) \/ Starting(r) \/ Written(r) PROVE TypeOK'
    BY <1>5, StartTypes
  <1>6. ASSUME NEW r \in Runs, Loop(r) \/ \E q \in Requests : Timeout(r, q) PROVE TypeOK'
    BY <1>6, LoopTypes
  <1>7. ASSUME NEW r \in Runs, Stop(r) \/ Escalate(r) \/ AbortFails(r) PROVE TypeOK'
    BY <1>7, StopTypes
  <1> QED
    BY <1>1, <1>2, <1>3, <1>4, <1>5, <1>6, <1>7 DEF Next

------------------------------------------------------------------------------
\* The processes are started in their order: a new one is none that was there.
LEMMA FreshProcess ==
  ASSUME TypeOK, ProcInv,
         NEW n, n = Cardinality({p \in Procs : os[p] # "none"}) + 1, n \in Procs
  PROVE  os[n] = "none" /\ \A q \in 1..(n - 1) : q \in Procs /\ os[q] # "none"
  <1> DEFINE S == {p \in Procs : os[p] # "none"}
             m == Cardinality(S)
  <1>1. /\ IsFiniteSet(Procs) /\ MaxProcs \in Nat /\ Procs = 1..MaxProcs
    BY FS_Interval, SessionAssumption DEF Procs
  <1>2. S \subseteq Procs /\ IsFiniteSet(S)
    BY <1>1, FS_Subset
  <1>3. m \in Nat /\ n = m + 1
    BY <1>2, FS_CardinalityType
  <1>4. \A p \in S : \A q \in 1..(p - 1) : q \in S
    BY <1>1 DEF ProcInv
  <1> HIDE DEF S
  <1>5. IsFiniteSet(1..n) /\ Cardinality(1..n) = n /\ IsFiniteSet(1..m) /\ Cardinality(1..m) = m
    <2> HIDE DEF m
    <2>1. \A k \in Nat : IsFiniteSet(1..k) /\ Cardinality(1..k) = k
      <3> SUFFICES ASSUME NEW k \in Nat PROVE IsFiniteSet(1..k) /\ Cardinality(1..k) = k
        OBVIOUS
      <3>1. Cardinality(1..k) = IF 1 > k THEN 0 ELSE k - 1 + 1
        BY FS_Interval
      <3> QED
        BY <3>1, FS_Interval
    <2> QED
      BY <1>3, <2>1
  <1>6. n \notin S
    <2>1. SUFFICES ASSUME n \in S PROVE FALSE
      OBVIOUS
    <2>2. 1..n \subseteq S
      <3> HIDE DEF m
      <3>1. \A q \in 1..n : q = n \/ q \in 1..(n - 1)
        BY <1>3
      <3> QED
        BY <1>4, <2>1, <3>1
    <2>3. Cardinality(1..n) <= m
      BY <1>2, <2>2, FS_Subset
    <2> HIDE DEF m
    <2> QED
      BY <1>3, <1>5, <2>3
  <1>7. S \subseteq 1..m
    <2>1. SUFFICES ASSUME NEW p \in S, p \notin 1..m PROVE FALSE
      OBVIOUS
    <2>2. p \in Nat /\ p > 0
      BY <1>1, <1>2
    <2> HIDE DEF m
    <2>3. p = n \/ n \in 1..(p - 1)
      BY <1>3, <2>1, <2>2
    <2> QED
      BY <1>4, <1>6, <2>3
  <1>8. S = 1..m
    <2>1. S \in SUBSET (1..m) /\ Cardinality(1..m) = Cardinality(S)
      BY <1>5, <1>7
    <2> QED
      BY <1>5, <2>1, FS_Subset, Zenon
  <1> HIDE DEF m
  <1>9. 1..(n - 1) = S
    BY <1>3, <1>8
  <1>10. os[n] = "none"
    BY <1>6 DEF S
  <1>11. \A q \in S : q \in Procs /\ os[q] # "none"
    BY DEF S
  <1> QED
    BY <1>9, <1>10, <1>11

\* ProcInv stays when processes only start in order, die, and lose what they owe.
LEMMA ProcFrame ==
  ASSUME TypeOK, ProcInv, cur' \in {cur, 0}, proc' = proc,
         \A p \in Procs : os'[p] = "none" <=> os[p] = "none",
         \A p \in Procs : os'[p] = "alive" \/ (stdin'[p] = << >> /\ turn'[p] = NoRun),
         \A p \in Procs : dead'[p] => os'[p] = "gone" /\ pending'[p] = {}
  PROVE  ProcInv'
  <1>1. \A p \in Procs : os'[p] # "none" => \A q \in 1..(p - 1) : os'[q] # "none"
    <2> SUFFICES ASSUME NEW p \in Procs, os'[p] # "none", NEW q \in 1..(p - 1) PROVE os'[q] # "none"
      OBVIOUS
    <2>1. q \in Procs
      BY SessionAssumption DEF Procs
    <2> QED
      BY <2>1 DEF ProcInv
  <1>2. cur' # 0 => os'[cur'] # "none"
    BY DEF ProcInv, TypeOK
  <1>3. \A r \in Runs : proc'[r] # 0 => os'[proc'[r]] # "none"
    BY Parts DEF ProcInv
  <1> QED
    BY <1>1, <1>2, <1>3 DEF ProcInv

\* The steps of an agent start no process.
LEMMA ProcAgent ==
  ASSUME TypeOK, ProcInv, NEW p \in Procs,
         Handle(p) \/ Settle(p) \/ Die(p) \/ \E kind \in Chatter : Chat(p, kind)
  PROVE  ProcInv'
  <1> USE DEF AgentOnly, slotVars, runVars
  <1>1. UNCHANGED <<cur, proc, dead, pending>>
    BY DEF Handle, Settle, Die, Chat
  <1>2. ASSUME Handle(p) \/ Settle(p) \/ \E kind \in Chatter : Chat(p, kind)
        PROVE  /\ UNCHANGED os
               /\ \A q \in Procs : os'[q] = "alive" \/ (stdin'[q] = << >> /\ turn'[q] = NoRun)
    <2>1. CASE Handle(p)
      <3>1. os[p] = "alive" /\ os' = os /\ stdin' = [stdin EXCEPT ![p] = Tail(@)]
        BY <2>1 DEF Handle
      <3>2. turn' = turn \/ \E t : turn' = [turn EXCEPT ![p] = t]
        BY <2>1, Zenon DEF Handle
      <3>3. \A q \in Procs : q # p => turn'[q] = turn[q] /\ stdin'[q] = stdin[q]
        BY <3>1, <3>2 DEF TypeOK
      <3>4. \A q \in Procs : os[q] = "alive" \/ (stdin[q] = << >> /\ turn[q] = NoRun)
        BY DEF ProcInv
      <3> QED
        BY <3>1, <3>3, <3>4
    <2>2. CASE Settle(p)
      BY <2>2 DEF Settle, ProcInv, TypeOK
    <2>3. CASE \E kind \in Chatter : Chat(p, kind)
      BY <2>3 DEF Chat, ProcInv, TypeOK
    <2> QED
      BY <1>2, <2>1, <2>2, <2>3
  <1>0. \A q \in Procs : dead[q] => os[q] = "gone" /\ pending[q] = {}
    BY DEF ProcInv
  <1>3. CASE Handle(p) \/ Settle(p) \/ \E kind \in Chatter : Chat(p, kind)
    <2>1. \A q \in Procs : dead'[q] => os'[q] = "gone" /\ pending'[q] = {}
      BY <1>0, <1>1, <1>2, <1>3
    <2> QED
      BY <1>1, <1>2, <1>3, <2>1, ProcFrame
  <1>4. CASE Die(p)
    <2>1. \A q \in Procs : /\ os'[q] = os[q] \/ (os[q] = "alive" /\ os'[q] = "gone")
                           /\ \/ stdin'[q] = stdin[q] /\ turn'[q] = turn[q] /\ os'[q] = os[q]
                              \/ stdin'[q] = << >> /\ turn'[q] = NoRun
      BY <1>4, GoneTypes DEF Die
    <2>2. \A q \in Procs : os[q] = "alive" \/ (stdin[q] = << >> /\ turn[q] = NoRun)
      BY DEF ProcInv
    <2>3. \A q \in Procs : /\ os'[q] = "none" <=> os[q] = "none"
                           /\ os'[q] = "alive" \/ (stdin'[q] = << >> /\ turn'[q] = NoRun)
      BY <2>1, <2>2
    <2>4. \A q \in Procs : dead'[q] => os'[q] = "gone" /\ pending'[q] = {}
      BY <1>0, <1>1, <2>1
    <2> QED
      BY <1>1, <2>3, <2>4, ProcFrame
  <1> QED
    BY <1>3, <1>4

\* Neither do those of its reader and its waiter.
LEMMA ProcRead ==
  ASSUME TypeOK, ProcInv, NEW p \in Procs, Read(p) \/ Wait(p)
  PROVE  ProcInv'
  <1>1. UNCHANGED <<cur, proc, os, stdin, turn>>
    BY DEF Read, Wait
  <1>2. \A q \in Procs : dead'[q] => os'[q] = "gone" /\ pending'[q] = {}
    <2>1. CASE Read(p)
      <3>1. dead' = dead /\ (pending' = pending \/ \E e : pending' = [pending EXCEPT ![p] = @ \ {e}])
        BY <2>1, Zenon DEF Read
      <3>2. ASSUME NEW q \in Procs PROVE pending'[q] \subseteq pending[q]
        <4>1. CASE pending' = pending
          BY <4>1
        <4>2. ASSUME NEW e, pending' = [pending EXCEPT ![p] = @ \ {e}]
              PROVE  pending'[q] \subseteq pending[q]
          BY <4>2 DEF TypeOK
        <4> QED
          BY <3>1, <4>1, <4>2
      <3>3. \A q \in Procs : dead[q] => os[q] = "gone" /\ pending[q] = {}
        BY DEF ProcInv
      <3> QED
        BY <1>1, <3>1, <3>2, <3>3
    <2>2. CASE Wait(p)
      BY <1>1, <2>2 DEF Wait, ProcInv, TypeOK
    <2> QED
      BY <2>1, <2>2
  <1>3. \A q \in Procs : os'[q] = "alive" \/ (stdin'[q] = << >> /\ turn'[q] = NoRun)
    BY <1>1 DEF ProcInv
  <1> QED
    BY <1>1, <1>2, <1>3, ProcFrame

\* A run starts the next process, or takes the one that is there.
LEMMA ProcBegin ==
  ASSUME TypeOK, ProcInv, NEW r \in Runs, Begin(r)
  PROVE  ProcInv'
  <1> USE DEF slotVars
  <1>1. UNCHANGED <<stdin, turn, dead, pending>>
    BY DEF Begin
  <1> DEFINE fresh == Cardinality({p \in Procs : os[p] # "none"}) + 1
  <1>2. CASE Usable
    <2>1. cur \in Procs /\ cur' = cur /\ proc' = [proc EXCEPT ![r] = cur] /\ os' = os
      BY <1>2 DEF Begin, Usable
    <2>2. os[cur] # "none"
      BY <2>1, Parts DEF ProcInv
    <2>3. \A x \in Runs : proc'[x] # 0 => os'[proc'[x]] # "none"
      BY <2>1, <2>2 DEF ProcInv, TypeOK
    <2> QED
      BY <1>1, <2>1, <2>2, <2>3 DEF ProcInv
  <1>3. CASE ~Usable
    <2>1. fresh \in Procs /\ cur' = fresh /\ proc' = [proc EXCEPT ![r] = fresh]
          /\ os' = [os EXCEPT ![fresh] = "alive"]
      BY <1>3 DEF Begin
    <2>2. os[fresh] = "none" /\ \A q \in 1..(fresh - 1) : q \in Procs /\ os[q] # "none"
      BY <2>1, FreshProcess
    <2> HIDE DEF fresh
    <2>3. \A p \in Procs : os'[p] = IF p = fresh THEN "alive" ELSE os[p]
      BY <2>1 DEF TypeOK
    <2>4. \A p \in Procs : os[p] # "none" => \A q \in 1..(p - 1) : q \in Procs /\ os[q] # "none"
      BY SessionAssumption DEF ProcInv, Procs
    <2>5. \A p \in Procs : os'[p] # "none" => \A q \in 1..(p - 1) : os'[q] # "none"
      BY <2>2, <2>3, <2>4
    <2>6. cur' # 0 => os'[cur'] # "none"
      BY <2>1, <2>3
    <2>7. \A x \in Runs : proc'[x] # 0 => os'[proc'[x]] # "none"
      <3>1. SUFFICES ASSUME NEW x \in Runs, proc'[x] # 0 PROVE os'[proc'[x]] # "none"
        OBVIOUS
      <3>2. proc'[x] = fresh \/ (proc'[x] = proc[x] /\ proc[x] \in Procs /\ os[proc[x]] # "none")
        BY <2>1, <3>1, Parts DEF ProcInv, TypeOK
      <3> QED
        BY <2>1, <2>3, <3>2
    <2>8. \A p \in Procs : os'[p] # "alive" => stdin'[p] = << >> /\ turn'[p] = NoRun
      BY <1>1, <2>3 DEF ProcInv
    <2>9. \A p \in Procs : dead'[p] => os'[p] = "gone" /\ pending'[p] = {}
      BY <1>1, <2>2, <2>3 DEF ProcInv
    <2> QED
      BY <2>5, <2>6, <2>7, <2>8, <2>9 DEF ProcInv
  <1> QED
    BY <1>2, <1>3

\* A request goes to a process that was started and is not gone.
LEMMA ProcWrite ==
  ASSUME TypeOK, ProcInv, NEW p \in Procs, NEW e, os[p] # "none", UNCHANGED <<cur, proc, os, turn, dead>>,
         \/ UNCHANGED <<stdin, pending>>
         \/ /\ os[p] # "gone"
            /\ stdin' = [stdin EXCEPT ![p] = Append(@, e)]
            /\ pending' = [pending EXCEPT ![p] = @ \cup {e}]
  PROVE  ProcInv'
  <1>1. \A q \in Procs : os'[q] = "alive" \/ (stdin'[q] = << >> /\ turn'[q] = NoRun)
    BY Parts DEF ProcInv, TypeOK
  <1>2. \A q \in Procs : dead'[q] => os'[q] = "gone" /\ pending'[q] = {}
    BY DEF ProcInv, TypeOK
  <1> QED
    BY <1>1, <1>2, ProcFrame

\* So startRun keeps ProcInv ...
LEMMA ProcStart ==
  ASSUME TypeOK, ProcInv, RunInv, NEW r \in Runs, BeginFails(r) \/ Starting(r) \/ Written(r)
  PROVE  ProcInv'
  <1> USE DEF procVars, slotVars
  <1>1. CASE GetState(r) \/ EnsureModel(r) \/ Prompt(r)
    <2>1. PICK q \in Requests \ {"abort"} : Send(r, q)
      BY <1>1 DEF GetState, EnsureModel, Prompt, Requests
    <2>2. proc[r] \in Procs
      BY <2>1, AtPlace DEF Send, Requests
    <2>3. os[proc[r]] # "none"
      BY <2>2, Parts DEF ProcInv
    <2> QED
      BY <2>1, <2>2, <2>3, ProcWrite DEF Send
  <1>2. CASE BeginFails(r) \/ SkipState(r) \/ MakeSlot(r) \/ Block(r) \/ WriteFails(r) \/ Fail(r)
    <2>1. cur' \in {cur, 0} /\ UNCHANGED <<proc, os, stdin, turn, dead, pending>>
      BY <1>2 DEF BeginFails, SkipState, MakeSlot, Block, WriteFails, Fail
    <2> QED
      BY <2>1, Parts, ProcFrame DEF ProcInv
  <1>3. CASE Written(r)
    <2>1. proc[r] \in Procs /\ os[proc[r]] = "alive"
      BY <1>3, AtPlace DEF Written
    <2> QED
      BY <1>3, <2>1, ProcWrite DEF Written
  <1> QED
    BY <1>1, <1>2, <1>3 DEF Starting

\* ... and so do the loop and Stop.
LEMMA ProcStop ==
  ASSUME TypeOK, ProcInv, RunInv, NEW r \in Runs,
         Loop(r) \/ (\E q \in Requests : Timeout(r, q)) \/ Stop(r) \/ Escalate(r) \/ AbortFails(r)
  PROVE  ProcInv'
  <1> USE DEF procVars, slotVars, runVars
  <1>1. CASE Loop(r)
    <2>1. UNCHANGED <<cur, proc, os, stdin, turn, dead, pending>>
      BY <1>1 DEF Loop, Receive, SeesClose
    <2> QED
      BY <2>1, Parts, ProcFrame DEF ProcInv
  <1>2. ASSUME NEW q \in Requests, Timeout(r, q) PROVE ProcInv'
    <2>1. UNCHANGED <<cur, proc, os, stdin, turn, dead>>
          /\ pending' = [pending EXCEPT ![proc[r]] = @ \ {<<r, q>>}]
      BY <1>2 DEF Timeout
    <2>2. \A p \in Procs : pending'[p] \subseteq pending[p]
      BY <2>1 DEF TypeOK
    <2> QED
      BY <2>1, <2>2, Parts, ProcFrame DEF ProcInv
  <1>3. CASE Stop(r)
    <2>1. proc[r] \in Procs
      BY <1>3, AtPlace DEF Stop
    <2>2. os[proc[r]] # "none"
      BY <2>1, Parts DEF ProcInv
    <2>3. UNCHANGED <<cur, proc, os, turn, dead>>
      BY <1>3 DEF Stop
    <2>4. \/ UNCHANGED <<stdin, pending>>
          \/ /\ os[proc[r]] # "gone"
             /\ stdin' = [stdin EXCEPT ![proc[r]] = Append(@, <<r, "abort">>)]
             /\ pending' = [pending EXCEPT ![proc[r]] = @ \cup {<<r, "abort">>}]
      BY <1>3 DEF Stop
    <2> QED
      BY <2>1, <2>2, <2>3, <2>4, ProcWrite
  <1>4. CASE Escalate(r) /\ closed[r]
    <2>1. UNCHANGED <<cur, proc, os, stdin, turn, dead, pending>>
      BY <1>4 DEF Escalate
    <2> QED
      BY <2>1, Parts, ProcFrame DEF ProcInv
  <1>5. CASE (Escalate(r) /\ ~closed[r]) \/ AbortFails(r)
    <2>1. UNCHANGED <<cur, proc, dead>> /\ Gone(proc[r]) /\ proc[r] \in Procs \cup {0}
      BY <1>5, Parts DEF Escalate, AbortFails
    <2>2. \A p \in Procs : pending'[p] \subseteq pending[p]
      <3>1. CASE Escalate(r)
        BY <3>1 DEF Escalate
      <3>2. CASE AbortFails(r)
        BY <3>2 DEF AbortFails, TypeOK
      <3> QED
        BY <1>5, <3>1, <3>2
    <2>3. \A q \in Procs : /\ os'[q] = os[q] \/ (os[q] = "alive" /\ os'[q] = "gone")
                           /\ \/ stdin'[q] = stdin[q] /\ turn'[q] = turn[q] /\ os'[q] = os[q]
                              \/ stdin'[q] = << >> /\ turn'[q] = NoRun
      BY <2>1, GoneTypes
    <2>4. \A q \in Procs : /\ os[q] = "alive" \/ (stdin[q] = << >> /\ turn[q] = NoRun)
                           /\ dead[q] => os[q] = "gone" /\ pending[q] = {}
      BY DEF ProcInv
    <2>5. \A q \in Procs : /\ os'[q] = "none" <=> os[q] = "none"
                           /\ os'[q] = "alive" \/ (stdin'[q] = << >> /\ turn'[q] = NoRun)
      BY <2>3, <2>4
    <2>6. \A q \in Procs : dead'[q] => os'[q] = "gone" /\ pending'[q] = {}
      BY <2>1, <2>2, <2>3, <2>4
    <2> QED
      BY <2>1, <2>5, <2>6, ProcFrame
  <1> QED
    BY <1>1, <1>2, <1>3, <1>4, <1>5

\* Every step keeps ProcInv.
LEMMA ProcStep ==
  ASSUME TypeOK, ProcInv, RunInv, [Next]_vars
  PROVE  ProcInv'
  <1>1. CASE Reset
    <2>1. cur' = 0 /\ cur \in Procs \cup {0} /\ Gone(cur) /\ UNCHANGED <<proc, dead, pending>>
      BY <1>1 DEF Reset, TypeOK, slotVars, runVars
    <2>2. \A q \in Procs : /\ os'[q] = os[q] \/ (os[q] = "alive" /\ os'[q] = "gone")
                           /\ \/ stdin'[q] = stdin[q] /\ turn'[q] = turn[q] /\ os'[q] = os[q]
                              \/ stdin'[q] = << >> /\ turn'[q] = NoRun
      BY <2>1, GoneTypes
    <2> QED
      BY <2>1, <2>2, Parts, ProcFrame DEF ProcInv
  <1>2. CASE UNCHANGED vars
    BY <1>2 DEF ProcInv, vars, procVars, slotVars, runVars
  <1>3. ASSUME NEW p \in Procs, Handle(p) \/ Settle(p) \/ Die(p) \/ \E kind \in Chatter : Chat(p, kind)
        PROVE ProcInv'
    BY <1>3, ProcAgent
  <1>4. ASSUME NEW p \in Procs, Read(p) \/ Wait(p) PROVE ProcInv'
    BY <1>4, ProcRead
  <1>5. ASSUME NEW r \in Runs, Begin(r) PROVE ProcInv'
    BY <1>5, ProcBegin
  <1>6. ASSUME NEW r \in Runs, BeginFails(r) \/ Starting(r) \/ Written(r) PROVE ProcInv'
    BY <1>6, ProcStart
  <1>7. ASSUME NEW r \in Runs, \/ Loop(r) \/ \E q \in Requests : Timeout(r, q)
                               \/ Stop(r) \/ Escalate(r) \/ AbortFails(r)
        PROVE ProcInv'
    BY <1>7, ProcStop
  <1> QED
    BY <1>1, <1>2, <1>3, <1>4, <1>5, <1>6, <1>7 DEF Next

------------------------------------------------------------------------------
\* The runs, their slots and what they wait for.
Early == {"idle", "state", "model", "slot"}

\* RunInv stays when runs leave no end, slots are only kept by the run at work, and a
\* request waits where its run is.
LEMMA RunFrame ==
  ASSUME TypeOK, ProcInv, RunInv, proc' = proc,
         \A p \in Procs : dead'[p] => dead[p] \/ slots'[p] = {},
         \A x \in Runs : \/ pc'[x] = pc[x] \/ pc[x] \notin {"idle", "refused", "over"}
                         \/ pc[x] = "idle" /\ pc'[x] = "refused" /\ \A y \in 1..(x - 1) : Over(y),
         \A p \in Procs : \A x \in slots'[p] :
            /\ proc[x] = p /\ pc'[x] \in Slotted /\ ~closed'[x]
            /\ pc'[x] = "reading" =>
                 x \in slots[p] /\ (pc[x] = "reading" \/ <<x, "prompt">> \in pending[p]),
         \A x \in Runs : pc'[x] \in Early =>
            pc[x] \in Early /\ chan'[x] = chan[x] /\ closed'[x] = closed[x] /\ card'[x] = card[x],
         \A p \in Procs : \A x \in Runs : \A q \in Requests \ {"abort"} :
            <<x, q>> \in pending'[p] => /\ <<x, q>> \in pending[p] \/ proc[x] = p
                                        /\ pc'[x] = q /\ (q = "model" => x \in Picks)
  PROVE  RunInv'
  <1>1. \A r \in Runs : pc'[r] # "idle" => \A x \in 1..(r - 1) : Over(x)'
    <2> SUFFICES ASSUME NEW r \in Runs, pc'[r] # "idle", NEW x \in 1..(r - 1) PROVE Over(x)'
      OBVIOUS
    <2>1. x \in Runs
      BY SessionAssumption DEF Runs
    <2>2. Over(x)
      BY <2>1 DEF RunInv
    <2> QED
      BY <2>1, <2>2 DEF Over
  <1>2. \A r \in Runs : pc'[r] \notin {"idle", "refused"} => proc'[r] # 0
    BY DEF RunInv
  <1>3. \A p \in Procs : \A r \in slots'[p] : proc'[r] = p /\ pc'[r] \in Slotted /\ ~closed'[r]
    <2> SUFFICES ASSUME NEW p \in Procs, NEW x \in slots'[p]
                 PROVE  proc'[x] = p /\ pc'[x] \in Slotted /\ ~closed'[x]
      OBVIOUS
    <2>1. proc[x] = p
      BY ZenonT(60)
    <2>2. pc'[x] \in Slotted
      BY ZenonT(60)
    <2>3. ~closed'[x]
      BY ZenonT(60)
    <2> QED
      BY <2>1, <2>2, <2>3
  <1>4. \A r \in Runs : pc'[r] \in Early => chan'[r] = << >> /\ ~closed'[r] /\ card'[r] = "running"
    BY DEF RunInv, Early
  <1>5. \A p \in Procs : \A r \in Runs : \A q \in Requests \ {"abort"} :
          <<r, q>> \in pending'[p] => proc'[r] = p /\ pc'[r] = q /\ (q = "model" => r \in Picks)
    BY DEF RunInv
  <1>6. \A p \in Procs : dead'[p] => \A r \in slots'[p] : pc'[r] # "reading"
    <2> SUFFICES ASSUME NEW p \in Procs, dead'[p], NEW r \in slots'[p], pc'[r] = "reading"
                 PROVE  FALSE
      OBVIOUS
    <2>1. r \in slots[p] /\ (pc[r] = "reading" \/ <<r, "prompt">> \in pending[p])
      OBVIOUS
    <2>2. dead[p]
      OBVIOUS
    <2>3. pending[p] = {} /\ pc[r] # "reading"
      BY <2>1, <2>2 DEF RunInv, ProcInv
    <2> QED
      BY <2>1, <2>3
  <1> QED
    BY <1>1, <1>2, <1>3, <1>4, <1>5, <1>6 DEF RunInv, Early

\* What the runs hold, in a state.
LEMMA RunParts ==
  ASSUME TypeOK, RunInv
  PROVE  /\ \A p \in Procs : \A x \in slots[p] :
              x \in Runs /\ proc[x] = p /\ pc[x] \in Slotted /\ pc[x] \notin Early /\ ~closed[x]
         /\ \A p \in Procs : \A x \in Runs : \A q \in Requests \ {"abort"} :
              <<x, q>> \in pending[p] => proc[x] = p /\ pc[x] = q /\ (q = "model" => x \in Picks)
         /\ Early \cap Slotted = {} /\ Slotted \cap {"idle", "refused", "over"} = {}
         /\ \A q \in Requests \ {"abort"} : q \notin {"idle", "refused", "over"}
  <1>1. Early \cap Slotted = {} /\ Slotted \cap {"idle", "refused", "over"} = {}
    BY DEF Early, Slotted
  <1>2. \A p \in Procs : slots[p] \subseteq Runs
    BY DEF TypeOK
  <1>3. \A q \in Requests \ {"abort"} : q \notin {"idle", "refused", "over"}
    BY DEF Requests
  <1> QED
    BY <1>1, <1>2, <1>3 DEF RunInv

\* Where nothing moves: the steps of the agent, and those of Stop.
LEMMA RunStill ==
  ASSUME TypeOK, ProcInv, RunInv, UNCHANGED <<pc, proc, dead, slots, closed>>,
         \A x \in Runs : pc[x] \in Early => chan'[x] = chan[x] /\ card'[x] = card[x],
         \A p \in Procs : \A x \in Runs : \A q \in Requests \ {"abort"} :
            <<x, q>> \in pending'[p] => <<x, q>> \in pending[p]
  PROVE  RunInv'
  <1>1. \A p \in Procs : \A x \in slots'[p] :
            /\ proc[x] = p /\ pc'[x] \in Slotted /\ ~closed'[x]
            /\ pc'[x] = "reading" =>
                 x \in slots[p] /\ (pc[x] = "reading" \/ <<x, "prompt">> \in pending[p])
    BY RunParts
  <1>2. \A p \in Procs : \A x \in Runs : \A q \in Requests \ {"abort"} :
            <<x, q>> \in pending'[p] => /\ <<x, q>> \in pending[p] \/ proc[x] = p
                                        /\ pc'[x] = q /\ (q = "model" => x \in Picks)
    BY RunParts
  <1> QED
    BY <1>1, <1>2, RunFrame

\* A reply moves its run on to the next request, or to the loop.
LEMMA RunReply ==
  ASSUME TypeOK, ProcInv, RunInv, NEW p \in Procs, Read(p), Head(stdout[p]).kind \in Requests
  PROVE  RunInv'
  <1> DEFINE line == Head(stdout[p])
             waits == <<line.run, line.kind>> \in pending[p]
  <1>1. /\ pending' = [pending EXCEPT ![p] = @ \ {<<line.run, line.kind>>}]
        /\ pc' = IF waits /\ line.kind # "abort"
                 THEN [pc EXCEPT ![line.run] = After(line.kind, line.ok)] ELSE pc
        /\ UNCHANGED <<slots, chan, closed, proc, card, dead>>
    BY DEF Read
  <1>2. stdout[p] # << >>
    BY DEF Read
  <1>3. line \in Lines
    BY <1>2, Parts, Shortened
  <1>4. line.run \in Runs /\ line.kind \in Requests
    BY <1>3 DEF Lines
  <1> DEFINE r == line.run
             kind == line.kind
             ok == line.ok
  <1> HIDE DEF line
  <1>5. \A q \in Procs : \A x \in Runs : \A k \in Requests \ {"abort"} :
            <<x, k>> \in pending'[q] => <<x, k>> \in pending[q] /\ (q = p => x # r \/ k # kind)
    BY <1>1 DEF TypeOK
  <1>6. CASE waits /\ kind # "abort"
    <2>1. pc[r] = kind /\ proc[r] = p /\ <<r, kind>> \in pending[p]
      BY <1>4, <1>6, RunParts
    <2>2. \A x \in Runs : pc'[x] = IF x = r THEN After(kind, ok) ELSE pc[x]
      BY <1>1, <1>6, Parts
    <2> HIDE DEF r, kind, ok
    <2>3. kind \in {"state", "model"} => After(kind, ok) \in {"model", "slot", "refused"}
      BY DEF After
    <2>4. kind \in {"state", "model"} => pc[r] \in Early /\ pc[r] \notin Slotted
      BY <2>1 DEF Early, Slotted
    <2>5. kind = "prompt" => After(kind, ok) \in {"reading", "failing"}
      BY DEF After
    <2>6. kind \in {"state", "model"} \/ kind = "prompt"
      BY <1>4, <1>6 DEF Requests, kind
    <2>7. \A q \in Procs : \A x \in slots'[q] :
            /\ proc[x] = q /\ pc'[x] \in Slotted /\ ~closed'[x]
            /\ pc'[x] = "reading" =>
                 x \in slots[q] /\ (pc[x] = "reading" \/ <<x, "prompt">> \in pending[q])
      <3> SUFFICES ASSUME NEW q \in Procs, NEW x \in slots[q]
                   PROVE  /\ pc'[x] \in Slotted
                          /\ pc'[x] = "reading" => pc[x] = "reading" \/ <<x, "prompt">> \in pending[q]
        BY <1>1, RunParts
      <3>1. x \in Runs /\ proc[x] = q /\ pc[x] \in Slotted
        BY RunParts
      <3>2. CASE x # r
        BY <2>2, <3>1, <3>2
      <3>3. CASE x = r
        BY <2>1, <2>2, <2>4, <2>5, <2>6, <3>1, <3>3 DEF Slotted
      <3> QED
        BY <3>2, <3>3
    <2>8. \A x \in Runs : pc'[x] \in Early =>
            pc[x] \in Early /\ chan'[x] = chan[x] /\ closed'[x] = closed[x] /\ card'[x] = card[x]
      <3>1. kind = "prompt" => After(kind, ok) \notin Early
        BY <2>5 DEF Early
      <3> QED
        BY <1>1, <2>2, <2>4, <2>6, <3>1
    <2>9. \A q \in Procs : \A x \in Runs : \A k \in Requests \ {"abort"} :
            <<x, k>> \in pending'[q] => /\ <<x, k>> \in pending[q] \/ proc[x] = q
                                        /\ pc'[x] = k /\ (k = "model" => x \in Picks)
      <3> SUFFICES ASSUME NEW q \in Procs, NEW x \in Runs, NEW k \in Requests \ {"abort"},
                          <<x, k>> \in pending'[q]
                   PROVE  <<x, k>> \in pending[q] /\ pc'[x] = k /\ (k = "model" => x \in Picks)
        OBVIOUS
      <3>1. <<x, k>> \in pending[q] /\ (q = p => x # r \/ k # kind)
        BY <1>5 DEF r, kind
      <3>2. proc[x] = q /\ pc[x] = k /\ (k = "model" => x \in Picks)
        BY <3>1, RunParts
      <3>3. x # r
        BY <2>1, <3>1, <3>2
      <3> QED
        BY <2>2, <3>1, <3>2, <3>3
    <2>10. kind \notin {"idle", "refused", "over"}
      BY <2>6
    <2>11. \A x \in Runs : pc'[x] = pc[x] \/ pc[x] \notin {"idle", "refused", "over"}
      BY <2>1, <2>2, <2>10
    <2> QED
      BY <1>1, <2>7, <2>8, <2>9, <2>11, RunFrame
  <1>7. CASE ~(waits /\ kind # "abort")
    <2>1. pc' = pc
      BY <1>1, <1>7
    <2> HIDE DEF r, kind, waits
    <2> QED
      BY <1>1, <1>5, <2>1, RunStill
  <1> QED
    BY <1>6, <1>7

\* The steps that close slots.
LEMMA CloseFrame ==
  ASSUME TypeOK, ProcInv, RunInv, NEW p \in Procs, NEW R, R \subseteq slots[p], CloseSlots(p, R)
  PROVE  /\ \A q \in Procs : \A x \in slots'[q] : x \in slots[q] /\ ~closed'[x] /\ x \notin R
         /\ \A x \in Runs : closed'[x] = closed[x] \/ (x \in R /\ pc[x] \notin Early)
         /\ R = slots[p] => slots'[p] = {}
  <1>1. \A x \in R : x \in Runs /\ proc[x] = p /\ pc[x] \notin Early
    BY RunParts
  <1>2. \A q \in Procs : slots'[q] = IF q = p THEN slots[q] \ R ELSE slots[q]
    BY DEF CloseSlots, TypeOK
  <1>3. \A x \in Runs : closed'[x] = (closed[x] \/ x \in R)
    BY DEF CloseSlots
  <1>4. \A q \in Procs : \A x \in slots'[q] : x \in slots[q] /\ x \notin R /\ x \in Runs /\ ~closed[x]
    <2> SUFFICES ASSUME NEW q \in Procs, NEW x \in slots'[q]
                 PROVE  x \in slots[q] /\ x \notin R /\ x \in Runs /\ ~closed[x]
      OBVIOUS
    <2>1. x \in slots[q] /\ (q = p => x \notin R)
      BY <1>2
    <2>2. x \in Runs /\ proc[x] = q /\ ~closed[x]
      BY <2>1, RunParts
    <2> QED
      BY <1>1, <2>1, <2>2
  <1>5. \A q \in Procs : \A x \in slots'[q] : ~closed'[x]
    BY <1>3, <1>4
  <1>6. \A x \in Runs : closed'[x] = closed[x] \/ (x \in R /\ pc[x] \notin Early)
    BY <1>1, <1>3 DEF TypeOK
  <1> QED
    BY <1>2, <1>4, <1>5, <1>6

\* An event reaches the slots of the process; an end closes them.
LEMMA RunEvent ==
  ASSUME TypeOK, ProcInv, RunInv, NEW p \in Procs, Read(p), Head(stdout[p]).kind \notin Requests
  PROVE  RunInv'
  <1> DEFINE events == EventOf(Head(stdout[p]).kind)
             R == IF IsTerminal(events) THEN slots[p] ELSE {}
  <1>1. SafeSend(slots[p], events) /\ CloseSlots(p, R)
        /\ UNCHANGED <<pending, pc, proc, card, dead>>
    BY DEF Read
  <1>2. R \subseteq slots[p]
    OBVIOUS
  <1> HIDE DEF R, events
  <1>3. /\ \A q \in Procs : \A x \in slots'[q] : x \in slots[q] /\ ~closed'[x] /\ x \notin R
        /\ \A x \in Runs : closed'[x] = closed[x] \/ (x \in R /\ pc[x] \notin Early)
    BY <1>1, <1>2, CloseFrame
  <1>4. \A x \in Runs : pc[x] \in Early => chan'[x] = chan[x]
    BY <1>1, RunParts DEF SafeSend
  <1>5. \A q \in Procs : \A x \in slots'[q] :
            /\ proc[x] = q /\ pc'[x] \in Slotted /\ ~closed'[x]
            /\ pc'[x] = "reading" =>
                 x \in slots[q] /\ (pc[x] = "reading" \/ <<x, "prompt">> \in pending[q])
    BY <1>1, <1>3, RunParts
  <1>6. \A q \in Procs : \A x \in Runs : \A k \in Requests \ {"abort"} :
            <<x, k>> \in pending'[q] => /\ <<x, k>> \in pending[q] \/ proc[x] = q
                                        /\ pc'[x] = k /\ (k = "model" => x \in Picks)
    BY <1>1, RunParts
  <1>7. \A x \in Runs : pc'[x] \in Early =>
            pc[x] \in Early /\ chan'[x] = chan[x] /\ closed'[x] = closed[x] /\ card'[x] = card[x]
    BY <1>1, <1>3, <1>4
  <1> QED
    BY <1>1, <1>5, <1>6, <1>7, RunFrame

\* A process that is gone fails what waits for it and closes its slots.
LEMMA RunWait ==
  ASSUME TypeOK, ProcInv, RunInv, NEW p \in Procs, Wait(p)
  PROVE  RunInv'
  <1>1. /\ dead' = [dead EXCEPT ![p] = TRUE] /\ pending' = [pending EXCEPT ![p] = {}]
        /\ pc' = [r \in Runs |-> IF \E q \in Requests \ {"abort"} : <<r, q>> \in pending[p]
                                 THEN After(pc[r], FALSE) ELSE pc[r]]
        /\ SafeSend(slots[p], <<"error">>) /\ CloseSlots(p, slots[p]) /\ UNCHANGED <<proc, card>>
    BY DEF Wait
  <1>2. /\ \A q \in Procs : \A x \in slots'[q] : x \in slots[q] /\ ~closed'[x] /\ x \notin slots[p]
        /\ \A x \in Runs : closed'[x] = closed[x] \/ (x \in slots[p] /\ pc[x] \notin Early)
        /\ slots'[p] = {}
    BY <1>1, CloseFrame
  <1>3. \A x \in Runs : \/ pc'[x] = pc[x]
                        \/ /\ proc[x] = p /\ pc[x] \in Requests \ {"abort"}
                           /\ pc'[x] = After(pc[x], FALSE)
    <2> SUFFICES ASSUME NEW x \in Runs, pc'[x] # pc[x]
                 PROVE  proc[x] = p /\ pc[x] \in Requests \ {"abort"} /\ pc'[x] = After(pc[x], FALSE)
      OBVIOUS
    <2>1. pc'[x] = IF \E q \in Requests \ {"abort"} : <<x, q>> \in pending[p]
                   THEN After(pc[x], FALSE) ELSE pc[x]
      BY <1>1
    <2>2. PICK q \in Requests \ {"abort"} : <<x, q>> \in pending[p]
      BY <2>1
    <2>3. pc'[x] = After(pc[x], FALSE)
      BY <2>1, <2>2
    <2> QED
      BY <2>2, <2>3, RunParts
  <1>4. \A q \in Requests \ {"abort"} : q \notin {"idle", "refused", "over"} /\ After(q, FALSE) \notin Early
    BY DEF Requests, After, Early
  <1>5. \A x \in Runs : pc'[x] = pc[x] \/ pc[x] \notin {"idle", "refused", "over"}
    BY <1>3, <1>4
  <1>6. \A x \in Runs : pc[x] \in Early => chan'[x] = chan[x]
    BY <1>1, RunParts DEF SafeSend
  <1>7. \A x \in Runs : pc'[x] \in Early =>
            pc[x] \in Early /\ chan'[x] = chan[x] /\ closed'[x] = closed[x] /\ card'[x] = card[x]
    BY <1>1, <1>2, <1>3, <1>4, <1>6
  <1>8. \A q \in Procs : q # p => \A x \in Runs : proc[x] = q => pc'[x] = pc[x]
    BY <1>3
  <1>9. \A q \in Procs : \A x \in slots'[q] :
            /\ proc[x] = q /\ pc'[x] \in Slotted /\ ~closed'[x]
            /\ pc'[x] = "reading" =>
                 x \in slots[q] /\ (pc[x] = "reading" \/ <<x, "prompt">> \in pending[q])
    BY <1>2, <1>8, RunParts
  <1>10. \A q \in Procs : \A x \in Runs : \A k \in Requests \ {"abort"} :
            <<x, k>> \in pending'[q] => /\ <<x, k>> \in pending[q] \/ proc[x] = q
                                        /\ pc'[x] = k /\ (k = "model" => x \in Picks)
    <2>1. \A q \in Procs : pending'[q] = IF q = p THEN {} ELSE pending[q]
      BY <1>1 DEF TypeOK
    <2> QED
      BY <1>8, <2>1, RunParts
  <1>11. \A q \in Procs : dead'[q] => dead[q] \/ slots'[q] = {}
    BY <1>1, <1>2 DEF TypeOK
  <1> QED
    BY <1>1, <1>5, <1>7, <1>9, <1>10, <1>11, RunFrame

\* A run begins after the others are over.
LEMMA RunBegin ==
  ASSUME TypeOK, ProcInv, RunInv, NEW r \in Runs, Begin(r)
  PROVE  RunInv'
  <1>1. /\ pc[r] = "idle" /\ pc' = [pc EXCEPT ![r] = "state"]
        /\ \A x \in 1..(r - 1) : Over(x)
        /\ UNCHANGED <<dead, slots, pending, chan, closed, card>>
    BY DEF Begin, At, Goto, slotVars
  <1>2. PICK p \in Procs : proc' = [proc EXCEPT ![r] = p]
    BY DEF Begin
  <1>3. \A x \in Runs : /\ pc'[x] = IF x = r THEN "state" ELSE pc[x]
                        /\ proc'[x] = IF x = r THEN p ELSE proc[x]
    BY <1>1, <1>2 DEF TypeOK
  <1>0. slots' = slots /\ closed' = closed /\ pending' = pending /\ dead' = dead
        /\ chan' = chan /\ card' = card
    BY <1>1
  <1>4. \A x \in Runs : pc'[x] # "idle" => \A y \in 1..(x - 1) : Over(y)'
    <2> SUFFICES ASSUME NEW x \in Runs, pc'[x] # "idle", NEW y \in 1..(x - 1) PROVE Over(y)'
      OBVIOUS
    <2>1. y \in Runs
      BY SessionAssumption DEF Runs
    <2>2. Over(y)
      BY <1>1, <1>3, <2>1 DEF RunInv
    <2>3. y # r
      BY <1>1, <2>2 DEF Over
    <2> QED
      BY <1>3, <2>1, <2>2, <2>3 DEF Over
  <1>5. \A x \in Runs : pc'[x] \notin {"idle", "refused"} => proc'[x] # 0
    BY <1>3, Parts DEF RunInv
  <1>6. \A q \in Procs : \A x \in slots'[q] :
          proc'[x] = q /\ pc'[x] \in Slotted /\ ~closed'[x] /\ x # r /\ x \in Runs
    <2> SUFFICES ASSUME NEW q \in Procs, NEW x \in slots[q]
                 PROVE  proc'[x] = q /\ pc'[x] \in Slotted /\ ~closed[x] /\ x # r /\ x \in Runs
      BY <1>0, Zenon
    <2>1. x \in Runs /\ proc[x] = q /\ pc[x] \in Slotted /\ ~closed[x]
      BY RunParts
    <2>2. x # r
      BY <1>1, <2>1 DEF Slotted
    <2> QED
      BY <1>3, <2>1, <2>2
  <1>7. \A x \in Runs : pc'[x] \in Early => chan'[x] = << >> /\ ~closed'[x] /\ card'[x] = "running"
    <2> SUFFICES ASSUME NEW x \in Runs, pc'[x] \in Early
                 PROVE  chan[x] = << >> /\ ~closed[x] /\ card[x] = "running"
      BY <1>0, Zenon
    <2>1. pc[x] \in {"idle", "state", "model", "slot"}
      BY <1>1, <1>3 DEF Early
    <2> QED
      BY <2>1 DEF RunInv
  <1>8. \A q \in Procs : \A x \in Runs : \A k \in Requests \ {"abort"} :
          <<x, k>> \in pending'[q] => proc'[x] = q /\ pc'[x] = k /\ (k = "model" => x \in Picks)
    <2> SUFFICES ASSUME NEW q \in Procs, NEW x \in Runs, NEW k \in Requests \ {"abort"},
                        <<x, k>> \in pending[q]
                 PROVE  proc'[x] = q /\ pc'[x] = k /\ (k = "model" => x \in Picks)
      BY <1>0, Zenon
    <2>1. proc[x] = q /\ pc[x] = k /\ (k = "model" => x \in Picks) /\ k # "idle"
      BY RunParts
    <2> QED
      BY <1>1, <1>3, <2>1
  <1>9. \A q \in Procs : dead'[q] => \A x \in slots'[q] : pc'[x] # "reading"
    <2> SUFFICES ASSUME NEW q \in Procs, dead[q], NEW x \in slots[q] PROVE pc'[x] # "reading"
      BY <1>0, Zenon
    <2>1. x # r /\ x \in Runs
      BY <1>0, <1>6, Zenon
    <2> QED
      BY <1>3, <2>1 DEF RunInv
  <1> QED
    BY <1>4, <1>5, <1>6, <1>7, <1>8, <1>9 DEF RunInv, Early

\* A run that moves on its own, from a place where it waits for nothing.
LEMMA RunGoes ==
  ASSUME TypeOK, ProcInv, RunInv, NEW r \in Runs, NEW l \in Places, Goto(r, l),
         UNCHANGED <<proc, dead>>,
         \/ pc[r] \notin {"idle", "refused", "over"}
         \/ pc[r] = "idle" /\ l = "refused" /\ \A y \in 1..(r - 1) : Over(y),
         \A p \in Procs : \A x \in slots'[p] : x \in slots[p] \/ (x = r /\ proc[r] = p /\ l = "prompt"),
         \A p \in Procs : \A x \in slots'[p] : ~closed'[x],
         \A p \in Procs : r \in slots'[p] => l \in Slotted \ {"reading"},
         l \in Early => pc[r] \in Early /\ UNCHANGED <<chan, closed, card>>,
         \A x \in Runs : x # r /\ pc[x] \in Early =>
            chan'[x] = chan[x] /\ closed'[x] = closed[x] /\ card'[x] = card[x],
         \A p \in Procs : pending'[p] \subseteq pending[p],
         \A p \in Procs : \A q \in Requests \ {"abort"} : <<r, q>> \notin pending'[p]
  PROVE  RunInv'
  <1>1. \A x \in Runs : pc'[x] = IF x = r THEN l ELSE pc[x]
    BY Parts DEF Goto
  <1>2. \A p \in Procs : \A x \in slots'[p] :
            /\ proc[x] = p /\ pc'[x] \in Slotted /\ ~closed'[x]
            /\ pc'[x] = "reading" =>
                 x \in slots[p] /\ (pc[x] = "reading" \/ <<x, "prompt">> \in pending[p])
    <2> SUFFICES ASSUME NEW p \in Procs, NEW x \in slots'[p]
                 PROVE  /\ proc[x] = p /\ pc'[x] \in Slotted
                        /\ pc'[x] = "reading" => x \in slots[p] /\ pc[x] = "reading"
      OBVIOUS
    <2>1. CASE x = r
      BY <1>1, <2>1, RunParts
    <2>2. CASE x # r
      BY <1>1, <2>2, RunParts
    <2> QED
      BY <2>1, <2>2
  <1>3. \A x \in Runs : pc'[x] \in Early =>
            pc[x] \in Early /\ chan'[x] = chan[x] /\ closed'[x] = closed[x] /\ card'[x] = card[x]
    BY <1>1
  <1>4. \A p \in Procs : \A x \in Runs : \A q \in Requests \ {"abort"} :
            <<x, q>> \in pending'[p] => /\ <<x, q>> \in pending[p] \/ proc[x] = p
                                        /\ pc'[x] = q /\ (q = "model" => x \in Picks)
    <2> SUFFICES ASSUME NEW p \in Procs, NEW x \in Runs, NEW q \in Requests \ {"abort"},
                        <<x, q>> \in pending'[p]
                 PROVE  <<x, q>> \in pending[p] /\ pc'[x] = q /\ (q = "model" => x \in Picks)
      OBVIOUS
    <2>1. <<x, q>> \in pending[p] /\ x # r
      OBVIOUS
    <2> QED
      BY <1>1, <2>1, RunParts
  <1>5. \A x \in Runs : \/ pc'[x] = pc[x] \/ pc[x] \notin {"idle", "refused", "over"}
                        \/ pc[x] = "idle" /\ pc'[x] = "refused" /\ \A y \in 1..(x - 1) : Over(y)
    BY <1>1
  <1>6. \A p \in Procs : dead'[p] => dead[p] \/ slots'[p] = {}
    OBVIOUS
  <1> QED
    BY <1>2, <1>3, <1>4, <1>5, <1>6, RunFrame

\* A run that waits for nothing is not at a request, or has not sent it.
LEMMA NotWaiting ==
  ASSUME TypeOK, RunInv, NEW r \in Runs, pc[r] \in Requests => Unasked(r, pc[r])
  PROVE  \A p \in Procs : \A q \in Requests \ {"abort"} : <<r, q>> \notin pending[p]
  BY RunParts DEF Unasked

\* A request is written by the run that is at its place.
LEMMA RunSend ==
  ASSUME TypeOK, ProcInv, RunInv, NEW r \in Runs, NEW request \in Requests \ {"abort"},
         Send(r, request), request = "model" => r \in Picks
  PROVE  RunInv'
  <1>1. pc[r] = request /\ Unasked(r, request) /\ proc[r] \in Procs
    BY AtPlace DEF Send, Requests
  <1>2. UNCHANGED <<dead, slots, chan, closed, proc, card>>
    BY DEF Send
  <1>3. CASE os[proc[r]] = "gone"
    <2>1. Goto(r, After(request, FALSE)) /\ UNCHANGED pending
      BY <1>3 DEF Send
    <2>2. After(request, FALSE) \in Places /\ After(request, FALSE) \notin Early
      BY AfterTypes DEF Places, Requests, Early, After
    <2>3. request = "prompt" => After(request, FALSE) \in Slotted \ {"reading"}
      BY DEF After, Slotted
    <2>4. \A p \in Procs : r \in slots'[p] => request = "prompt"
      BY <1>1, <1>2, RunParts DEF Slotted, Requests
    <2>5. \A p \in Procs : \A q \in Requests \ {"abort"} : <<r, q>> \notin pending'[p]
      BY <1>1, <2>1, NotWaiting
    <2>6. \A p \in Procs : \A x \in slots'[p] : ~closed'[x]
      BY <1>2, RunParts
    <2>7. pc[r] \notin {"idle", "refused", "over"}
      BY <1>1, RunParts
    <2> QED
      BY <1>2, <2>1, <2>2, <2>3, <2>4, <2>5, <2>6, <2>7, RunGoes
  <1>4. CASE os[proc[r]] # "gone"
    <2>1. pending' = [pending EXCEPT ![proc[r]] = @ \cup {<<r, request>>}] /\ UNCHANGED pc
      BY <1>4 DEF Send
    <2>2. \A p \in Procs : \A x \in slots'[p] :
            /\ proc[x] = p /\ pc'[x] \in Slotted /\ ~closed'[x]
            /\ pc'[x] = "reading" =>
                 x \in slots[p] /\ (pc[x] = "reading" \/ <<x, "prompt">> \in pending[p])
      BY <1>2, <2>1, RunParts
    <2>3. \A p \in Procs : \A x \in Runs : \A q \in Requests \ {"abort"} :
            <<x, q>> \in pending'[p] => /\ <<x, q>> \in pending[p] \/ proc[x] = p
                                        /\ pc'[x] = q /\ (q = "model" => x \in Picks)
      <3> SUFFICES ASSUME NEW p \in Procs, NEW x \in Runs, NEW q \in Requests \ {"abort"},
                          <<x, q>> \in pending'[p]
                   PROVE  /\ <<x, q>> \in pending[p] \/ proc[x] = p
                          /\ pc'[x] = q /\ (q = "model" => x \in Picks)
        OBVIOUS
      <3>1. <<x, q>> \in pending[p] \/ (p = proc[r] /\ x = r /\ q = request)
        BY <1>1, <2>1 DEF TypeOK
      <3> QED
        BY <1>1, <2>1, <3>1, RunParts
    <2> QED
      BY <1>2, <2>1, <2>2, <2>3, RunFrame
  <1> QED
    BY <1>3, <1>4

\* startRun keeps RunInv ...
LEMMA RunStart ==
  ASSUME TypeOK, ProcInv, RunInv, NEW r \in Runs, BeginFails(r) \/ Starting(r) \/ Written(r)
  PROVE  RunInv'
  <1> USE DEF procVars, slotVars
  <1>1. CASE GetState(r)
    BY <1>1, RunSend DEF GetState, Requests
  <1>2. CASE EnsureModel(r)
    BY <1>2, RunSend DEF EnsureModel, Requests
  <1>3. CASE Prompt(r)
    BY <1>3, RunSend DEF Prompt, Requests
  <1>4. CASE BeginFails(r)
    <2>1. /\ pc[r] = "idle" /\ Goto(r, "refused")
          /\ \A y \in 1..(r - 1) : Over(y)
          /\ UNCHANGED <<proc, dead, slots, pending, chan, closed, card>>
      BY <1>4 DEF BeginFails, At
    <2>2. \A p \in Procs : r \notin slots[p]
      BY <2>1, RunParts DEF Slotted
    <2>3. \A p \in Procs : \A q \in Requests \ {"abort"} : <<r, q>> \notin pending[p]
      BY <2>1, NotWaiting DEF Requests
    <2>4. \A p \in Procs : \A x \in slots[p] : ~closed[x]
      BY RunParts
    <2>5. "refused" \in Places /\ "refused" \notin Early
      BY DEF Places, Early
    <2> QED
      BY <2>1, <2>2, <2>3, <2>4, <2>5, RunGoes
  <1>5. CASE SkipState(r)
    <2>1. pc[r] = "state" /\ Unasked(r, "state") /\ Goto(r, "model")
          /\ UNCHANGED <<proc, dead, slots, pending, chan, closed, card>>
      BY <1>5 DEF SkipState, At
    <2>2. \A p \in Procs : r \notin slots[p]
      BY <2>1, RunParts DEF Slotted
    <2>3. \A p \in Procs : \A q \in Requests \ {"abort"} : <<r, q>> \notin pending[p]
      BY <2>1, NotWaiting DEF Requests
    <2>4. \A p \in Procs : \A x \in slots[p] : ~closed[x]
      BY RunParts
    <2>5. "model" \in Places /\ pc[r] \in Early
      BY <2>1 DEF Places, Early, Requests
    <2> QED
      BY <2>1, <2>2, <2>3, <2>4, <2>5, RunGoes
  <1>6. CASE MakeSlot(r)
    <2>1. /\ pc[r] = (IF r \in Picks THEN "slot" ELSE "model") /\ Goto(r, "prompt")
          /\ slots' = [slots EXCEPT ![proc[r]] = @ \cup {r}] /\ chan' = [chan EXCEPT ![r] = <<"system">>]
          /\ UNCHANGED <<proc, dead, pending, closed, card>>
      BY <1>6 DEF MakeSlot, At
    <2>2. proc[r] \in Procs
      BY <1>6, AtPlace DEF MakeSlot
    <2>3. \A p \in Procs : \A q \in Requests \ {"abort"} : <<r, q>> \notin pending[p]
      <3>1. \A q \in Requests \ {"abort"} : q # "slot"
        BY DEF Requests
      <3> QED
        BY <2>1, <3>1, RunParts
    <2>4. ~closed[r]
      BY <2>1 DEF RunInv
    <2>5. \A p \in Procs : \A x \in slots'[p] : x \in slots[p] \/ (x = r /\ proc[r] = p)
      BY <2>1, <2>2 DEF TypeOK
    <2>6. \A p \in Procs : \A x \in slots'[p] : ~closed[x]
      BY <2>4, <2>5, RunParts
    <2>7. "prompt" \in Places /\ "prompt" \in Slotted \ {"reading"} /\ "prompt" \notin Early
          /\ pc[r] \notin {"idle", "refused", "over"}
      BY <2>1 DEF Places, Slotted, Early, Requests
    <2>8. \A x \in Runs : x # r => chan'[x] = chan[x]
      BY <2>1 DEF TypeOK
    <2> QED
      BY <2>1, <2>3, <2>5, <2>6, <2>7, <2>8, RunGoes
  <1>7. CASE Fail(r)
    <2>1. /\ pc[r] = "failing" /\ Goto(r, "refused") /\ UNCHANGED <<proc, dead, pending, chan, card>>
      BY <1>7 DEF Fail, At
    <2>2. proc[r] \in Procs
      BY <1>7, AtPlace DEF Fail
    <2>3. /\ \A p \in Procs : \A x \in slots'[p] : x \in slots[p] /\ x # r
          /\ \A p \in Procs : \A x \in slots'[p] : ~closed'[x]
          /\ \A x \in Runs : x # r => closed'[x] = closed[x]
      <3>1. CASE closed[r]
        <4>1. UNCHANGED <<slots, closed>>
          BY <1>7, <3>1 DEF Fail
        <4> QED
          BY <3>1, <4>1, RunParts
      <3>2. CASE ~closed[r]
        <4>1. CloseSlots(proc[r], {r})
          BY <1>7, <3>2 DEF Fail
        <4>2. \A p \in Procs : slots'[p] = IF p = proc[r] THEN slots[p] \ {r} ELSE slots[p]
          BY <2>2, <4>1 DEF CloseSlots, TypeOK
        <4>3. \A p \in Procs : \A x \in slots'[p] : x \in slots[p] /\ x \in Runs /\ x # r /\ ~closed[x]
          <5> SUFFICES ASSUME NEW p \in Procs, NEW x \in slots'[p]
                       PROVE  x \in slots[p] /\ x \in Runs /\ x # r /\ ~closed[x]
            OBVIOUS
          <5>1. x \in slots[p] /\ (p = proc[r] => x # r)
            BY <4>2
          <5> QED
            BY <5>1, RunParts
        <4>4. \A x \in Runs : x # r => closed'[x] = closed[x]
          BY <4>1 DEF CloseSlots, TypeOK
        <4> QED
          BY <4>3, <4>4
      <3> QED
        BY <3>1, <3>2
    <2>4. \A p \in Procs : \A q \in Requests \ {"abort"} : <<r, q>> \notin pending[p]
      BY <2>1, NotWaiting DEF Requests
    <2>5. "refused" \in Places /\ "refused" \notin Early
      BY DEF Places, Early
    <2> QED
      BY <2>1, <2>3, <2>4, <2>5, RunGoes
  <1>8. CASE Block(r) \/ WriteFails(r)
    <2>1. /\ (pc[r] = "prompt" /\ Unasked(r, "prompt")) \/ pc[r] = "writing"
          /\ UNCHANGED <<proc, dead, slots, pending, chan, closed, card>>
      BY <1>8 DEF Block, WriteFails, At
    <2>2. PICK l \in {"writing", "failing"} : Goto(r, l)
      BY <1>8 DEF Block, WriteFails, After
    <2>3. \A p \in Procs : \A q \in Requests \ {"abort"} : <<r, q>> \notin pending[p]
      BY <2>1, NotWaiting DEF Requests
    <2>4. \A p \in Procs : \A x \in slots[p] : ~closed[x]
      BY RunParts
    <2>5. l \in Places /\ l \in Slotted \ {"reading"} /\ l \notin Early /\ pc[r] \notin {"idle", "refused", "over"}
      BY <2>1 DEF Places, Early, Slotted
    <2> QED
      BY <2>1, <2>2, <2>3, <2>4, <2>5, RunGoes
  <1>9. CASE Written(r)
    <2>1. /\ pc[r] = "writing" /\ Goto(r, "prompt") /\ proc[r] \in Procs
          /\ pending' = [pending EXCEPT ![proc[r]] = @ \cup {<<r, "prompt">>}]
          /\ UNCHANGED <<proc, dead, slots, chan, closed, card>>
      BY <1>9, AtPlace DEF Written
    <2>2. \A x \in Runs : pc'[x] = IF x = r THEN "prompt" ELSE pc[x]
      BY <2>1, Parts DEF Goto
    <2>3. \A p \in Procs : \A x \in slots'[p] :
            /\ proc[x] = p /\ pc'[x] \in Slotted /\ ~closed'[x]
            /\ pc'[x] = "reading" =>
                 x \in slots[p] /\ (pc[x] = "reading" \/ <<x, "prompt">> \in pending[p])
      <3> SUFFICES ASSUME NEW p \in Procs, NEW x \in slots[p]
                   PROVE  pc'[x] \in Slotted /\ (pc'[x] = "reading" => pc[x] = "reading")
        BY <2>1, RunParts
      <3> QED
        BY <2>2, RunParts DEF Slotted
    <2>4. \A x \in Runs : pc'[x] \in Early => pc[x] \in Early
      BY <2>2 DEF Early
    <2>5. \A p \in Procs : \A x \in Runs : \A q \in Requests \ {"abort"} :
            <<x, q>> \in pending'[p] => /\ <<x, q>> \in pending[p] \/ proc[x] = p
                                        /\ pc'[x] = q /\ (q = "model" => x \in Picks)
      <3> SUFFICES ASSUME NEW p \in Procs, NEW x \in Runs, NEW q \in Requests \ {"abort"},
                          <<x, q>> \in pending'[p]
                   PROVE  /\ <<x, q>> \in pending[p] \/ proc[x] = p
                          /\ pc'[x] = q /\ (q = "model" => x \in Picks)
        OBVIOUS
      <3>1. <<x, q>> \in pending[p] \/ (p = proc[r] /\ x = r /\ q = "prompt")
        BY <2>1 DEF TypeOK
      <3>2. "writing" \notin Requests
        BY DEF Requests
      <3> QED
        BY <2>1, <2>2, <3>1, <3>2, RunParts
    <2>6. \A x \in Runs : pc'[x] = pc[x] \/ pc[x] \notin {"idle", "refused", "over"}
      BY <2>1, <2>2
    <2> QED
      BY <2>1, <2>3, <2>4, <2>5, <2>6, RunFrame
  <1> QED
    BY <1>1, <1>2, <1>3, <1>4, <1>5, <1>6, <1>7, <1>8, <1>9 DEF Starting

\* ... the loop and the timeouts do ...
LEMMA RunLoop ==
  ASSUME TypeOK, ProcInv, RunInv, NEW r \in Runs, Loop(r) \/ \E q \in Requests : Timeout(r, q)
  PROVE  RunInv'
  <1> USE DEF procVars, slotVars
  <1>1. CASE Receive(r)
    <2>1. pc[r] = "reading" /\ UNCHANGED <<pc, proc, dead, slots, closed, pending>>
          /\ chan' = [chan EXCEPT ![r] = Tail(@)]
          /\ card' = [card EXCEPT ![r] = IF Head(chan[r]) \in Terminals THEN Head(chan[r]) ELSE @]
      BY <1>1 DEF Receive, At
    <2>2. \A x \in Runs : pc[x] \in Early => chan'[x] = chan[x] /\ card'[x] = card[x]
      BY <2>1 DEF TypeOK, Early
    <2> QED
      BY <2>1, <2>2, RunStill
  <1>2. CASE SeesClose(r)
    <2>1. pc[r] = "reading" /\ closed[r] /\ Goto(r, "over")
          /\ card' = [card EXCEPT ![r] = IF @ # "running" THEN @
                                           ELSE IF timer[r] = "no" THEN "done" ELSE "interrupted"]
          /\ UNCHANGED <<proc, dead, slots, closed, chan, pending>>
      BY <1>2 DEF SeesClose, At
    <2>2. \A p \in Procs : \A x \in slots[p] : ~closed[x] /\ x # r
      BY <2>1, RunParts
    <2>3. \A p \in Procs : \A q \in Requests \ {"abort"} : <<r, q>> \notin pending[p]
      BY <2>1, NotWaiting DEF Requests
    <2>4. "over" \in Places /\ "over" \notin Early
      BY DEF Places, Early
    <2>5. \A x \in Runs : x # r => card'[x] = card[x]
      BY <2>1 DEF TypeOK
    <2> QED
      BY <2>1, <2>2, <2>3, <2>4, <2>5, RunGoes
  <1>3. ASSUME NEW q \in Requests, Timeout(r, q) PROVE RunInv'
    <2>1. /\ pc[r] = q /\ q # "abort" /\ Goto(r, After(q, FALSE))
          /\ pending' = [pending EXCEPT ![proc[r]] = @ \ {<<r, q>>}]
          /\ UNCHANGED <<proc, dead, slots, closed, chan, card>>
      BY <1>3 DEF Timeout, At
    <2>2. After(q, FALSE) \in Places /\ After(q, FALSE) \notin Early
      BY <2>1, AfterTypes DEF Places, Requests, Early, After
    <2>3. q = "prompt" => After(q, FALSE) \in Slotted \ {"reading"}
      BY DEF After, Slotted
    <2>4. \A p \in Procs : r \in slots[p] => q = "prompt"
      BY <2>1, RunParts DEF Slotted, Requests
    <2>5. \A p \in Procs : pending'[p] = IF p = proc[r] THEN pending[p] \ {<<r, q>>} ELSE pending[p]
      BY <2>1 DEF TypeOK
    <2>6. \A p \in Procs : \A k \in Requests \ {"abort"} : <<r, k>> \notin pending'[p]
      BY <2>1, <2>5, RunParts
    <2>7. \A p \in Procs : \A x \in slots[p] : ~closed[x]
      BY RunParts
    <2>8. pc[r] \notin {"idle", "refused", "over"}
      BY <2>1, RunParts
    <2>9. /\ \A p \in Procs : pending'[p] \subseteq pending[p]
          /\ \A p \in Procs : r \in slots[p] => After(q, FALSE) \in Slotted \ {"reading"}
      BY <2>3, <2>4, <2>5
    <2> QED
      BY <2>1, <2>2, <2>6, <2>7, <2>8, <2>9, RunGoes
  <1> QED
    BY <1>1, <1>2, <1>3 DEF Loop

\* ... Stop and its timer do ...
LEMMA RunStop ==
  ASSUME TypeOK, ProcInv, RunInv, NEW r \in Runs, Stop(r) \/ Escalate(r) \/ AbortFails(r)
  PROVE  RunInv'
  <1> USE DEF slotVars, runVars
  <1>1. UNCHANGED <<pc, proc, dead, slots, closed, chan, card>>
    BY DEF Stop, Escalate, AbortFails
  <1>2. \A p \in Procs : \A x \in Runs : \A q \in Requests \ {"abort"} :
            <<x, q>> \in pending'[p] => <<x, q>> \in pending[p]
    <2>1. CASE Stop(r)
      <3>1. UNCHANGED pending \/ pending' = [pending EXCEPT ![proc[r]] = @ \cup {<<r, "abort">>}]
        BY <2>1 DEF Stop
      <3> QED
        <4> SUFFICES ASSUME NEW p \in Procs, NEW x \in Runs, NEW q \in Requests \ {"abort"},
                            <<x, q>> \in pending'[p]
                     PROVE  <<x, q>> \in pending[p]
          OBVIOUS
        <4>1. <<x, q>> \in pending[p] \cup {<<r, "abort">>}
          BY <3>1 DEF TypeOK
        <4> QED
          BY <4>1
    <2>2. CASE Escalate(r)
      BY <2>2 DEF Escalate
    <2>3. CASE AbortFails(r)
      BY <2>3 DEF AbortFails, TypeOK
    <2> QED
      BY <2>1, <2>2, <2>3
  <1> QED
    BY <1>1, <1>2, RunStill

\* ... and so every step does.
LEMMA RunStep ==
  ASSUME TypeOK, ProcInv, RunInv, [Next]_vars
  PROVE  RunInv'
  <1> USE DEF slotVars, runVars
  <1>1. CASE Reset
    <2>1. UNCHANGED <<pc, proc, dead, slots, closed, chan, card, pending>>
      BY <1>1 DEF Reset
    <2> QED
      BY <2>1, RunStill
  <1>2. CASE UNCHANGED vars
    <2>1. UNCHANGED <<pc, proc, dead, slots, closed, chan, card, pending>>
      BY <1>2 DEF vars, procVars
    <2> QED
      BY <2>1, RunStill
  <1>3. ASSUME NEW p \in Procs, Handle(p) \/ Settle(p) \/ Die(p) \/ \E kind \in Chatter : Chat(p, kind)
        PROVE RunInv'
    <2>1. UNCHANGED <<pc, proc, dead, slots, closed, chan, card, pending>>
      BY <1>3 DEF Handle, Settle, Die, Chat, AgentOnly
    <2> QED
      BY <2>1, RunStill
  <1>4. ASSUME NEW p \in Procs, Read(p) PROVE RunInv'
    BY <1>4, RunReply, RunEvent
  <1>5. ASSUME NEW p \in Procs, Wait(p) PROVE RunInv'
    BY <1>5, RunWait
  <1>6. ASSUME NEW r \in Runs, Begin(r) PROVE RunInv'
    BY <1>6, RunBegin
  <1>7. ASSUME NEW r \in Runs, BeginFails(r) \/ Starting(r) \/ Written(r) PROVE RunInv'
    BY <1>7, RunStart
  <1>8. ASSUME NEW r \in Runs, Loop(r) \/ \E q \in Requests : Timeout(r, q) PROVE RunInv'
    BY <1>8, RunLoop
  <1>9. ASSUME NEW r \in Runs, Stop(r) \/ Escalate(r) \/ AbortFails(r) PROVE RunInv'
    BY <1>9, RunStop
  <1> QED
    BY <1>1, <1>2, <1>3, <1>4, <1>5, <1>6, <1>7, <1>8, <1>9 DEF Next

------------------------------------------------------------------------------
\* One run at most is at work.
LEMMA OneAtWork ==
  ASSUME TypeOK, RunInv, NEW x \in Runs, NEW y \in Runs,
         pc[x] \notin {"idle", "refused", "over"}, pc[y] \notin {"idle", "refused", "over"}
  PROVE  x = y
  <1>1. \A a, b \in Runs : pc[a] # "idle" /\ pc[b] \notin {"idle", "refused", "over"} => ~(b < a)
    <2> SUFFICES ASSUME NEW a \in Runs, NEW b \in Runs, b < a, pc[a] # "idle",
                        pc[b] \notin {"idle", "refused", "over"}
                 PROVE  FALSE
      OBVIOUS
    <2>1. b \in 1..(a - 1)
      BY SessionAssumption DEF Runs
    <2>2. Over(b)
      BY <2>1 DEF RunInv
    <2> QED
      BY <2>2 DEF Over
  <1>2. ~(x < y) /\ ~(y < x)
    BY <1>1
  <1> QED
    BY <1>2, SessionAssumption DEF Runs

\* A step that leaves a process's turn alone: of its lines, replies to other
\* requests may come at the end, and the first k may go if none is an answer
\* to a prompt.
LEMMA TurnFrame ==
  ASSUME TypeOK, NEW p \in Procs, TurnOk(p), NEW k \in {0, 1}, NEW m \in {0, 1},
         DOMAIN stdout'[p] \subseteq Nat, DOMAIN stdin'[p] \subseteq Nat,
         \A i \in DOMAIN stdout'[p] :
            stdout'[p][i].kind = "prompt" \/ stdout'[p][i].kind \notin Requests =>
              i + k \in DOMAIN stdout[p] /\ stdout'[p][i] = stdout[p][i + k],
         \A i \in DOMAIN stdout[p] : stdout[p][i].kind = "prompt" =>
            i - k \in DOMAIN stdout'[p] /\ stdout'[p][i - k] = stdout[p][i],
         \A i \in DOMAIN stdin'[p] : stdin'[p][i][2] = "prompt" =>
            i + m \in DOMAIN stdin[p] /\ stdin'[p][i] = stdin[p][i + m],
         turn'[p] \in {turn[p], NoRun}, finished \subseteq finished',
         \A x \in slots[p] : pc[x] = "reading" \/ Prompting(p, x) =>
            x \in slots'[p] /\ pc'[x] = pc[x] /\ (pc[x] = "prompt" => <<x, "prompt">> \in pending'[p]),
         \A r \in Runs : pc'[r] \in Prompts /\ proc'[r] = p => r \in slots'[p]
  PROVE  TurnOk(p)'
  <1>1. DOMAIN stdout[p] \subseteq Nat /\ DOMAIN stdin[p] \subseteq Nat
    BY Parts
  <1> DEFINE P(x) == x \in slots'[p] /\ pc'[x] = "prompt" /\ <<x, "prompt">> \in pending'[p]
             A(x) == /\ x \in slots'[p]
                     /\ \/ pc'[x] = "reading"
                        \/ P(x) /\ \E i \in DOMAIN stdout'[p] :
                                    stdout'[p][i].kind = "prompt" /\ stdout'[p][i].run = x
  <1>2. \A x : Prompting(p, x) => P(x)
    BY DEF Prompting
  <1>3. \A x : Answered(p, x) => \E i \in DOMAIN stdout'[p] :
                                    stdout'[p][i].kind = "prompt" /\ stdout'[p][i].run = x
    BY DEF Answered, IsAnswer
  <1>4. \A x : Accepted(p, x) => A(x)
    BY <1>2, <1>3 DEF Accepted
  <1>5. PromptInv(p)'
    <2> SUFFICES ASSUME NEW i \in DOMAIN stdin'[p], stdin'[p][i][2] = "prompt"
                 PROVE  /\ P(stdin'[p][i][1]) /\ turn'[p] = NoRun
                        /\ \A j \in DOMAIN stdin'[p] : stdin'[p][j][2] = "prompt" => i = j
                        /\ \A j \in DOMAIN stdout'[p] :
                             stdout'[p][j].kind # "prompt" /\ stdout'[p][j].kind \in Requests
      BY DEF PromptInv, IsPrompt, IsAnswer, IsEvent, Prompting
    <2> HIDE DEF P, A
    <2>1. i + m \in DOMAIN stdin[p] /\ stdin'[p][i] = stdin[p][i + m] /\ stdin[p][i + m][2] = "prompt"
      OBVIOUS
    <2>2. /\ Prompting(p, stdin[p][i + m][1]) /\ turn[p] = NoRun
          /\ \A j \in DOMAIN stdin[p] : stdin[p][j][2] = "prompt" => i + m = j
          /\ \A j \in DOMAIN stdout[p] :
               stdout[p][j].kind # "prompt" /\ stdout[p][j].kind \in Requests
      BY <2>1 DEF TurnOk, PromptInv, IsPrompt, IsAnswer, IsEvent
    <2>3. P(stdin'[p][i][1])
      BY <1>2, <2>1, <2>2
    <2>4. \A j \in DOMAIN stdin'[p] : stdin'[p][j][2] = "prompt" => i = j
      BY <2>2
    <2>5. \A j \in DOMAIN stdout'[p] :
            stdout'[p][j].kind # "prompt" /\ stdout'[p][j].kind \in Requests
      BY <2>2
    <2> QED
      BY <2>2, <2>3, <2>4, <2>5
  <1>6. AnswerInv(p)'
    <2> SUFFICES ASSUME NEW i \in DOMAIN stdout'[p], stdout'[p][i].kind = "prompt"
                 PROVE  /\ P(stdout'[p][i].run)
                        /\ \A j \in DOMAIN stdout'[p] : stdout'[p][j].kind = "prompt" => i = j
                        /\ \A j \in DOMAIN stdout'[p] : stdout'[p][j].kind \notin Requests => i < j
                        /\ ~stdout'[p][i].ok =>
                             /\ turn'[p] = NoRun
                             /\ \A j \in DOMAIN stdout'[p] : stdout'[p][j].kind \in Requests
      BY DEF AnswerInv, IsAnswer, IsEvent, Prompting
    <2> HIDE DEF P, A
    <2>1. i + k \in DOMAIN stdout[p] /\ stdout'[p][i] = stdout[p][i + k] /\ stdout[p][i + k].kind = "prompt"
      OBVIOUS
    <2>2. /\ Prompting(p, stdout[p][i + k].run)
          /\ \A j \in DOMAIN stdout[p] : stdout[p][j].kind = "prompt" => i + k = j
          /\ \A j \in DOMAIN stdout[p] : stdout[p][j].kind \notin Requests => i + k < j
          /\ ~stdout[p][i + k].ok =>
               turn[p] = NoRun /\ \A j \in DOMAIN stdout[p] : stdout[p][j].kind \in Requests
      BY <2>1 DEF TurnOk, AnswerInv, IsAnswer, IsEvent
    <2>3. P(stdout'[p][i].run)
      BY <1>2, <2>1, <2>2
    <2>4. \A j \in DOMAIN stdout'[p] : stdout'[p][j].kind = "prompt" => i = j
      BY <2>2
    <2>5. \A j \in DOMAIN stdout'[p] : stdout'[p][j].kind \notin Requests => i < j
      <3> SUFFICES ASSUME NEW j \in DOMAIN stdout'[p], stdout'[p][j].kind \notin Requests PROVE i < j
        OBVIOUS
      <3>1. i + k < j + k /\ i \in Nat /\ j \in Nat
        BY <2>2
      <3> QED
        BY <3>1
    <2>6. ~stdout'[p][i].ok =>
            turn'[p] = NoRun /\ \A j \in DOMAIN stdout'[p] : stdout'[p][j].kind \in Requests
      BY <2>1, <2>2
    <2> QED
      BY <2>3, <2>4, <2>5, <2>6
  <1>7. EventInv(p)'
    <2> SUFFICES ASSUME NEW i \in DOMAIN stdout'[p], stdout'[p][i].kind \notin Requests
                 PROVE  /\ A(stdout'[p][i].run)
                        /\ stdout'[p][i].kind # "message_error"
                        /\ stdout'[p][i].kind = "agent_settled" =>
                             /\ stdout'[p][i].run \in finished' /\ turn'[p] = NoRun
                             /\ \A j \in DOMAIN stdout'[p] : stdout'[p][j].kind \notin Requests => j <= i
      BY DEF EventInv, IsEvent, Accepted, Answered, IsAnswer, Prompting
    <2> HIDE DEF P, A
    <2>1. i + k \in DOMAIN stdout[p] /\ stdout'[p][i] = stdout[p][i + k]
      OBVIOUS
    <2>2. /\ Accepted(p, stdout[p][i + k].run)
          /\ stdout[p][i + k].kind # "message_error"
          /\ stdout[p][i + k].kind = "agent_settled" =>
               /\ stdout[p][i + k].run \in finished /\ turn[p] = NoRun
               /\ \A j \in DOMAIN stdout[p] : stdout[p][j].kind \notin Requests => j <= i + k
      BY <2>1 DEF TurnOk, EventInv, IsEvent
    <2>3. A(stdout'[p][i].run)
      BY <1>4, <2>1, <2>2
    <2>4. stdout'[p][i].kind = "agent_settled" =>
            \A j \in DOMAIN stdout'[p] : stdout'[p][j].kind \notin Requests => j <= i
      <3> SUFFICES ASSUME stdout'[p][i].kind = "agent_settled",
                          NEW j \in DOMAIN stdout'[p], stdout'[p][j].kind \notin Requests
                   PROVE  j <= i
        OBVIOUS
      <3>1. j + k <= i + k /\ i \in Nat /\ j \in Nat
        BY <2>1, <2>2
      <3> QED
        BY <3>1
    <2> QED
      BY <2>1, <2>2, <2>3, <2>4
  <1>8. turn'[p] # NoRun => A(turn'[p])
    BY <1>4 DEF TurnOk
  <1> QED
    BY <1>5, <1>6, <1>7, <1>8 DEF TurnOk, Accepted, Answered, IsAnswer, Prompting

\* The same, when no line comes or goes.
LEMMA TurnSame ==
  ASSUME TypeOK, NEW p \in Procs, TurnOk(p), stdout'[p] = stdout[p],
         DOMAIN stdin'[p] \subseteq Nat,
         \A i \in DOMAIN stdin'[p] : stdin'[p][i][2] = "prompt" =>
            i \in DOMAIN stdin[p] /\ stdin'[p][i] = stdin[p][i],
         turn'[p] \in {turn[p], NoRun}, finished \subseteq finished',
         \A x \in slots[p] : pc[x] = "reading" \/ Prompting(p, x) =>
            x \in slots'[p] /\ pc'[x] = pc[x] /\ (pc[x] = "prompt" => <<x, "prompt">> \in pending'[p]),
         \A r \in Runs : pc'[r] \in Prompts /\ proc'[r] = p => r \in slots'[p]
  PROVE  TurnOk(p)'
  <1>1. DOMAIN stdout[p] \subseteq Nat /\ DOMAIN stdin[p] \subseteq Nat
    BY Parts
  <1>2. \A i \in Nat : i + 0 = i /\ i - 0 = i
    OBVIOUS
  <1>3. /\ \A i \in DOMAIN stdout'[p] :
             stdout'[p][i].kind = "prompt" \/ stdout'[p][i].kind \notin Requests =>
               i + 0 \in DOMAIN stdout[p] /\ stdout'[p][i] = stdout[p][i + 0]
        /\ \A i \in DOMAIN stdout[p] : stdout[p][i].kind = "prompt" =>
             i - 0 \in DOMAIN stdout'[p] /\ stdout'[p][i - 0] = stdout[p][i]
        /\ \A i \in DOMAIN stdin'[p] : stdin'[p][i][2] = "prompt" =>
             i + 0 \in DOMAIN stdin[p] /\ stdin'[p][i] = stdin[p][i + 0]
    BY <1>1, <1>2
  <1>4. DOMAIN stdout'[p] \subseteq Nat
    BY <1>1
  <1>5. 0 \in {0, 1}
    OBVIOUS
  <1> QED
    BY <1>3, <1>4, <1>5, TurnFrame

\* Steps that leave the turns of all processes alone.
LEMMA TurnRest ==
  ASSUME TypeOK, TurnInv, muddled \subseteq muddled', \A q \in Procs : dead[q] => dead'[q],
         finished \subseteq finished', stdin' \in [Procs -> Seq(Runs \X Requests)],
         \A q \in Procs : q \notin muddled' /\ ~dead'[q] =>
           /\ stdout'[q] = stdout[q] /\ turn'[q] \in {turn[q], NoRun}
           /\ \/ stdin'[q] \in {stdin[q], << >>}
              \/ \E e \in Runs \X Requests : e[2] # "prompt" /\ stdin'[q] = Append(stdin[q], e)
           /\ \A x \in slots[q] : pc[x] = "reading" \/ Prompting(q, x) =>
                x \in slots'[q] /\ pc'[x] = pc[x] /\ (pc[x] = "prompt" => <<x, "prompt">> \in pending'[q])
           /\ \A r \in Runs : pc'[r] \in Prompts /\ proc'[r] = q =>
                \/ r \in slots'[q]
                \/ pc[r] \in Prompts /\ proc[r] = q /\ (r \in slots[q] => r \in slots'[q])
  PROVE  TurnInv'
  <1> SUFFICES ASSUME NEW q \in Procs, q \notin muddled', ~dead'[q] PROVE TurnOk(q)'
    BY DEF TurnInv, Sound
  <1>1. TurnOk(q)
    BY DEF TurnInv, Sound
  <1>2. DOMAIN stdin'[q] \subseteq Nat
    <2>1. stdin'[q] \in Seq(Runs \X Requests)
      OBVIOUS
    <2> QED
      BY <2>1
  <1>3. \A i \in DOMAIN stdin'[q] : stdin'[q][i][2] = "prompt" =>
            i \in DOMAIN stdin[q] /\ stdin'[q][i] = stdin[q][i]
    <2>1. CASE stdin'[q] = stdin[q]
      BY <2>1
    <2>2. CASE stdin'[q] = << >>
      BY <2>2
    <2>3. ASSUME NEW e \in Runs \X Requests, e[2] # "prompt", stdin'[q] = Append(stdin[q], e)
          PROVE  \A i \in DOMAIN stdin'[q] : stdin'[q][i][2] = "prompt" =>
                   i \in DOMAIN stdin[q] /\ stdin'[q][i] = stdin[q][i]
      <3>1. stdin[q] \in Seq(Runs \X Requests)
        BY Parts
      <3>2. /\ \A i \in DOMAIN stdin[q] : Append(stdin[q], e)[i] = stdin[q][i]
            /\ Append(stdin[q], e)[Len(stdin[q]) + 1] = e
            /\ \A i \in DOMAIN Append(stdin[q], e) : i \in DOMAIN stdin[q] \/ i = Len(stdin[q]) + 1
        BY <3>1, Appended
      <3> QED
        BY <2>3, <3>2
    <2> QED
      BY <2>1, <2>2, <2>3
  <1>4. \A r \in Runs : pc'[r] \in Prompts /\ proc'[r] = q => r \in slots'[q]
    <2>1. \A r \in Runs : pc[r] \in Prompts /\ proc[r] = q => r \in slots[q]
      BY <1>1 DEF TurnOk
    <2> QED
      BY <2>1
  <1>5. /\ stdout'[q] = stdout[q] /\ turn'[q] \in {turn[q], NoRun}
        /\ \A x \in slots[q] : pc[x] = "reading" \/ Prompting(q, x) =>
             x \in slots'[q] /\ pc'[x] = pc[x] /\ (pc[x] = "prompt" => <<x, "prompt">> \in pending'[q])
    OBVIOUS
  <1> QED
    BY <1>1, <1>2, <1>3, <1>4, <1>5, TurnSame

\* No run moves.
LEMMA TurnStill ==
  ASSUME TypeOK, TurnInv, UNCHANGED <<pc, proc, slots, stdout, dead, muddled, finished>>,
         stdin' \in [Procs -> Seq(Runs \X Requests)],
         \A q \in Procs :
           /\ turn'[q] \in {turn[q], NoRun}
           /\ \/ stdin'[q] \in {stdin[q], << >>}
              \/ \E e \in Runs \X Requests : e[2] # "prompt" /\ stdin'[q] = Append(stdin[q], e)
           /\ \A x \in slots[q] : <<x, "prompt">> \in pending[q] => <<x, "prompt">> \in pending'[q]
  PROVE  TurnInv'
  <1>1. \A q \in Procs : \A x \in slots[q] : pc[x] = "reading" \/ Prompting(q, x) =>
          x \in slots'[q] /\ pc'[x] = pc[x] /\ (pc[x] = "prompt" => <<x, "prompt">> \in pending'[q])
    BY DEF Prompting
  <1>2. \A q \in Procs : \A r \in Runs : pc'[r] \in Prompts /\ proc'[r] = q =>
          pc[r] \in Prompts /\ proc[r] = q /\ (r \in slots[q] => r \in slots'[q])
    OBVIOUS
  <1>3. \A q \in Procs : stdout'[q] = stdout[q] /\ (dead[q] => dead'[q])
    OBVIOUS
  <1>4. muddled \subseteq muddled' /\ finished \subseteq finished'
    OBVIOUS
  <1> QED
    BY <1>1, <1>2, <1>3, <1>4, TurnRest

\* A run moves, that is not in its turn, or whose process is muddled.
LEMMA TurnGoes ==
  ASSUME TypeOK, TypeOK', RunInv, TurnInv, NEW r \in Runs, NEW l, Goto(r, l),
         l \in Prompts => pc[r] \in Prompts /\ UNCHANGED <<proc, slots>>,
         UNCHANGED <<stdout, stdin, turn, dead, finished>>, muddled \subseteq muddled',
         \A x \in Runs : x # r => proc'[x] = proc[x],
         \A q \in Procs : \A x \in slots[q] : x # r => x \in slots'[q],
         \A q \in Procs : \A x \in slots[q] :
           x # r /\ <<x, "prompt">> \in pending[q] => <<x, "prompt">> \in pending'[q],
         \A q \in Procs : q \notin muddled' /\ r \in slots[q] => pc[r] # "reading" /\ ~Prompting(q, r)
  PROVE  TurnInv'
  <1>1. \A x \in Runs : pc'[x] = IF x = r THEN l ELSE pc[x]
    BY DEF Goto, TypeOK
  <1>2. \A q \in Procs : q \notin muddled' => \A x \in slots[q] : pc[x] = "reading" \/ Prompting(q, x) =>
          x \in slots'[q] /\ pc'[x] = pc[x] /\ (pc[x] = "prompt" => <<x, "prompt">> \in pending'[q])
    <2> SUFFICES ASSUME NEW q \in Procs, q \notin muddled', NEW x \in slots[q],
                        pc[x] = "reading" \/ Prompting(q, x)
                 PROVE  x \in slots'[q] /\ pc'[x] = pc[x] /\ (pc[x] = "prompt" => <<x, "prompt">> \in pending'[q])
      OBVIOUS
    <2>1. x # r /\ x \in Runs
      BY RunParts
    <2> QED
      BY <1>1, <2>1 DEF Prompting
  <1>3. \A q \in Procs : \A x \in Runs : pc'[x] \in Prompts /\ proc'[x] = q =>
          pc[x] \in Prompts /\ proc[x] = q /\ (x \in slots[q] => x \in slots'[q])
    BY <1>1
  <1>4. \A q \in Procs : stdout'[q] = stdout[q] /\ turn'[q] = turn[q] /\ stdin'[q] = stdin[q]
                         /\ (dead[q] => dead'[q])
    OBVIOUS
  <1>5. stdin' \in [Procs -> Seq(Runs \X Requests)] /\ finished \subseteq finished'
    BY DEF TypeOK
  <1> QED
    BY <1>2, <1>3, <1>4, <1>5, TurnRest

\* What a process that is killed had not handled is lost; its lines stay.
LEMMA TurnKilled ==
  ASSUME TypeOK, TurnInv, NEW p \in Procs \cup {0}, Gone(p),
         UNCHANGED <<pc, proc, slots, stdout, dead, muddled, finished>>,
         \A q \in Procs : \A x \in slots[q] : <<x, "prompt">> \in pending[q] => <<x, "prompt">> \in pending'[q]
  PROVE  TurnInv'
  <1>1. /\ stdin' \in [Procs -> Seq(Runs \X Requests)]
        /\ \A q \in Procs : stdin'[q] \in {stdin[q], << >>} /\ turn'[q] \in {turn[q], NoRun}
    BY GoneTypes
  <1> QED
    BY <1>1, TurnStill

\* A request other than a prompt disturbs no turn.
LEMMA TurnWrites ==
  ASSUME TypeOK, TurnInv, NEW p \in Procs, NEW e \in Runs \X Requests, e[2] # "prompt",
         stdin' = [stdin EXCEPT ![p] = Append(@, e)], pending' = [pending EXCEPT ![p] = @ \cup {e}],
         UNCHANGED <<pc, proc, slots, stdout, turn, dead, muddled, finished>>
  PROVE  TurnInv'
  <1>1. Append(stdin[p], e) \in Seq(Runs \X Requests)
    BY Parts, Appended
  <1>2. stdin' \in [Procs -> Seq(Runs \X Requests)]
        /\ \A q \in Procs : stdin'[q] = stdin[q] \/ stdin'[q] = Append(stdin[q], e)
    BY <1>1 DEF TypeOK
  <1>3. \A q \in Procs : pending[q] \subseteq pending'[q] /\ turn'[q] = turn[q]
    BY DEF TypeOK
  <1> QED
    BY <1>2, <1>3, TurnStill

------------------------------------------------------------------------------
\* A process that is known dead has no turn to speak of.
LEMMA TurnWait ==
  ASSUME TypeOK, RunInv, TurnInv, NEW p \in Procs, Wait(p)
  PROVE  TurnInv'
  <1>1. /\ dead' = [dead EXCEPT ![p] = TRUE] /\ pending' = [pending EXCEPT ![p] = {}]
        /\ pc' = [r \in Runs |-> IF \E q \in Requests \ {"abort"} : <<r, q>> \in pending[p]
                                 THEN After(pc[r], FALSE) ELSE pc[r]]
        /\ slots' = [slots EXCEPT ![p] = @ \ slots[p]]
        /\ stdout' \in {stdout, [stdout EXCEPT ![p] = << >>]}
        /\ UNCHANGED <<proc, stdin, turn, muddled, finished>>
    BY DEF Wait, CloseSlots, history
  <1>2. \A x \in Runs : pc'[x] = pc[x] \/ (proc[x] = p /\ pc'[x] \notin Prompts)
    <2> SUFFICES ASSUME NEW x \in Runs, pc'[x] # pc[x] PROVE proc[x] = p /\ pc'[x] \notin Prompts
      OBVIOUS
    <2>1. pc'[x] = IF \E q \in Requests \ {"abort"} : <<x, q>> \in pending[p]
                   THEN After(pc[x], FALSE) ELSE pc[x]
      BY <1>1
    <2>2. PICK q \in Requests \ {"abort"} : <<x, q>> \in pending[p]
      BY <2>1
    <2>3. pc'[x] = After(q, FALSE) /\ proc[x] = p
      BY <2>1, <2>2, RunParts
    <2> QED
      BY <2>3 DEF After, Prompts
  <1>3. \A q \in Procs : ~dead'[q] => /\ q # p /\ stdout'[q] = stdout[q] /\ slots'[q] = slots[q]
                                      /\ pending'[q] = pending[q]
    BY <1>1 DEF TypeOK
  <1>4. \A q \in Procs : ~dead'[q] => \A x \in slots[q] : pc[x] = "reading" \/ Prompting(q, x) =>
          x \in slots'[q] /\ pc'[x] = pc[x] /\ (pc[x] = "prompt" => <<x, "prompt">> \in pending'[q])
    <2> SUFFICES ASSUME NEW q \in Procs, ~dead'[q], NEW x \in slots[q], pc[x] = "reading" \/ Prompting(q, x)
                 PROVE  x \in slots'[q] /\ pc'[x] = pc[x]
                        /\ (pc[x] = "prompt" => <<x, "prompt">> \in pending'[q])
      OBVIOUS
    <2>1. x \in Runs /\ proc[x] = q /\ q # p
      BY <1>3, RunParts
    <2> QED
      BY <1>2, <1>3, <2>1 DEF Prompting
  <1>5. \A q \in Procs : ~dead'[q] => \A r \in Runs : pc'[r] \in Prompts /\ proc'[r] = q =>
          pc[r] \in Prompts /\ proc[r] = q /\ (r \in slots[q] => r \in slots'[q])
    BY <1>1, <1>2, <1>3
  <1>6. /\ \A q \in Procs : dead[q] => dead'[q]
        /\ \A q \in Procs : stdin'[q] = stdin[q] /\ turn'[q] = turn[q]
    BY <1>1 DEF TypeOK
  <1>7. stdin' \in [Procs -> Seq(Runs \X Requests)] /\ muddled \subseteq muddled' /\ finished \subseteq finished'
    BY <1>1 DEF TypeOK
  <1> QED
    BY <1>3, <1>4, <1>5, <1>6, <1>7, TurnRest

\* Up to its prompt a run leaves the turn of its process alone.
LEMMA TurnStart ==
  ASSUME TypeOK, TypeOK', RunInv, TurnInv, NEW r \in Runs,
         \/ Begin(r) \/ BeginFails(r) \/ SkipState(r) \/ GetState(r) \/ EnsureModel(r) \/ MakeSlot(r)
         \/ Block(r) \/ WriteFails(r) \/ Fail(r)
  PROVE  TurnInv'
  <1> USE DEF procVars, slotVars, history
  <1>1. CASE Begin(r) \/ BeginFails(r) \/ SkipState(r)
    <2>1. PICK l \in {"state", "refused", "model"} : Goto(r, l)
      BY <1>1 DEF Begin, BeginFails, SkipState
    <2>2. pc[r] \in {"idle", "state"} /\ UNCHANGED <<stdout, stdin, turn, dead, finished, muddled, slots, pending>>
      BY <1>1 DEF Begin, BeginFails, SkipState, At
    <2>3. \A x \in Runs : x # r => proc'[x] = proc[x]
      <3>1. CASE Begin(r)
        <4>1. \E p \in Procs : proc' = [proc EXCEPT ![r] = p]
          BY <3>1 DEF Begin
        <4> QED
          BY <4>1 DEF TypeOK
      <3>2. CASE BeginFails(r) \/ SkipState(r)
        BY <3>2 DEF BeginFails, SkipState
      <3> QED
        BY <1>1, <3>1, <3>2
    <2>4. \A q \in Procs : r \notin slots[q]
      BY <2>2, RunParts DEF Slotted
    <2>5. l \notin Prompts /\ muddled \subseteq muddled'
      BY <2>2 DEF Prompts
    <2> QED
      BY <2>1, <2>2, <2>3, <2>4, <2>5, TurnGoes
  <1>2. ASSUME NEW request \in {"state", "model"}, Send(r, request) PROVE TurnInv'
    <2>1. pc[r] = request /\ proc[r] \in Procs
          /\ UNCHANGED <<stdout, turn, dead, finished, muddled, slots, proc>>
      BY <1>2, AtPlace DEF Send
    <2>2. CASE os[proc[r]] = "gone"
      <3>1. Goto(r, After(request, FALSE)) /\ UNCHANGED <<stdin, pending>>
        BY <1>2, <2>2 DEF Send
      <3>2. After(request, FALSE) \notin Prompts /\ muddled \subseteq muddled'
        BY <2>1 DEF After, Prompts
      <3>3. \A q \in Procs : r \notin slots[q]
        BY <2>1, RunParts DEF Slotted
      <3> QED
        BY <2>1, <3>1, <3>2, <3>3, TurnGoes
    <2>3. CASE os[proc[r]] # "gone"
      <3>1. /\ stdin' = [stdin EXCEPT ![proc[r]] = Append(@, <<r, request>>)]
            /\ pending' = [pending EXCEPT ![proc[r]] = @ \cup {<<r, request>>}]
            /\ UNCHANGED pc
        BY <1>2, <2>3 DEF Send
      <3>2. <<r, request>> \in Runs \X Requests /\ <<r, request>>[2] # "prompt"
        BY DEF Requests
      <3> QED
        BY <2>1, <3>1, <3>2, TurnWrites
    <2> QED
      BY <2>2, <2>3
  <1>3. CASE GetState(r) \/ EnsureModel(r)
    BY <1>2, <1>3 DEF GetState, EnsureModel
  <1>4. CASE MakeSlot(r)
    <2>1. /\ pc[r] = (IF r \in Picks THEN "slot" ELSE "model") /\ Goto(r, "prompt")
          /\ slots' = [slots EXCEPT ![proc[r]] = @ \cup {r}]
          /\ UNCHANGED <<stdout, stdin, turn, dead, finished, muddled, proc, pending>>
      BY <1>4 DEF MakeSlot, At
    <2>2. proc[r] \in Procs
      BY <1>4, AtPlace DEF MakeSlot
    <2>3. \A q \in Procs : slots'[q] = IF q = proc[r] THEN slots[q] \cup {r} ELSE slots[q]
      BY <2>1 DEF TypeOK
    <2>4. \A x \in Runs : pc'[x] = IF x = r THEN "prompt" ELSE pc[x]
      BY <2>1 DEF Goto, TypeOK
    <2>5. \A q \in Procs : r \notin slots[q]
      BY <2>1, RunParts DEF Slotted
    <2>6. \A q \in Procs : \A x \in slots[q] : pc[x] = "reading" \/ Prompting(q, x) =>
            x \in slots'[q] /\ pc'[x] = pc[x] /\ (pc[x] = "prompt" => <<x, "prompt">> \in pending'[q])
      <3> SUFFICES ASSUME NEW q \in Procs, NEW x \in slots[q], pc[x] = "reading" \/ Prompting(q, x)
                   PROVE  x \in slots'[q] /\ pc'[x] = pc[x]
                          /\ (pc[x] = "prompt" => <<x, "prompt">> \in pending'[q])
        OBVIOUS
      <3>1. x # r /\ x \in Runs
        BY <2>5, RunParts
      <3> QED
        BY <2>1, <2>3, <2>4, <3>1 DEF Prompting
    <2>7. \A q \in Procs : \A x \in Runs : pc'[x] \in Prompts /\ proc'[x] = q =>
            \/ x \in slots'[q]
            \/ pc[x] \in Prompts /\ proc[x] = q /\ (x \in slots[q] => x \in slots'[q])
      BY <2>1, <2>3, <2>4
    <2>8. \A q \in Procs : stdout'[q] = stdout[q] /\ turn'[q] = turn[q] /\ stdin'[q] = stdin[q]
                           /\ (dead[q] => dead'[q])
      BY <2>1
    <2>9. stdin' \in [Procs -> Seq(Runs \X Requests)] /\ muddled \subseteq muddled' /\ finished \subseteq finished'
      BY <2>1 DEF TypeOK
    <2> QED
      BY <2>6, <2>7, <2>8, <2>9, TurnRest
  <1>5. CASE Fail(r)
    <2>1. pc[r] = "failing" /\ Goto(r, "refused")
          /\ UNCHANGED <<stdout, stdin, turn, dead, finished, muddled, proc, pending>>
      BY <1>5 DEF Fail, At
    <2>2. UNCHANGED slots \/ slots' = [slots EXCEPT ![proc[r]] = @ \ {r}]
      BY <1>5 DEF Fail, CloseSlots
    <2>3. \A q \in Procs : \A x \in slots[q] : x # r => x \in slots'[q]
      <3>1. CASE UNCHANGED slots
        BY <3>1
      <3>2. CASE slots' = [slots EXCEPT ![proc[r]] = @ \ {r}]
        <4>1. \A q \in Procs : slots'[q] = IF q = proc[r] THEN slots[q] \ {r} ELSE slots[q]
          BY <3>2 DEF TypeOK
        <4> QED
          BY <4>1
      <3> QED
        BY <2>2, <3>1, <3>2
    <2>4. \A q \in Procs : ~Prompting(q, r)
      BY <2>1 DEF Prompting
    <2>5. muddled \subseteq muddled' /\ "refused" \notin Prompts
      BY <2>1 DEF Prompts
    <2> QED
      BY <2>1, <2>3, <2>4, <2>5, TurnGoes
  <1>6. CASE Block(r) \/ WriteFails(r)
    <2>1. /\ (pc[r] = "prompt" /\ Unasked(r, "prompt")) \/ pc[r] = "writing"
          /\ UNCHANGED <<stdout, stdin, turn, dead, finished, muddled, slots, proc, pending>>
      BY <1>6 DEF Block, WriteFails, At
    <2>2. PICK l \in {"writing", "failing"} : Goto(r, l)
      BY <1>6 DEF Block, WriteFails, After
    <2>3. \A q \in Procs : r \in slots[q] => pc[r] # "reading" /\ ~Prompting(q, r)
      BY <2>1, NotWaiting DEF Prompting, Requests
    <2>4. muddled \subseteq muddled' /\ pc[r] \in Prompts
      BY <2>1 DEF Prompts
    <2> QED
      BY <2>1, <2>2, <2>3, <2>4, TurnGoes
  <1> QED
    BY <1>1, <1>3, <1>4, <1>5, <1>6

\* A run leaves the loop when its channel is closed: its slot is gone, and the turn
\* over or the process muddled.
LEMMA TurnLoop ==
  ASSUME TypeOK, TypeOK', RunInv, TurnInv, NEW r \in Runs,
         Loop(r) \/ \E q \in Requests : Timeout(r, q)
  PROVE  TurnInv'
  <1> USE DEF procVars, slotVars, history
  <1>1. CASE Receive(r)
    <2>1. UNCHANGED <<pc, proc, slots, stdout, stdin, turn, dead, muddled, finished, pending>>
      BY <1>1 DEF Receive
    <2>2. stdin' \in [Procs -> Seq(Runs \X Requests)]
      BY <2>1 DEF TypeOK
    <2> QED
      BY <2>1, <2>2, TurnStill
  <1>2. CASE SeesClose(r)
    <2>1. pc[r] = "reading" /\ closed[r] /\ Goto(r, "over")
          /\ UNCHANGED <<stdout, stdin, turn, dead, finished, muddled, slots, proc, pending>>
      BY <1>2 DEF SeesClose, At
    <2>2. \A q \in Procs : r \notin slots[q]
      BY <2>1, RunParts
    <2>3. muddled \subseteq muddled' /\ "over" \notin Prompts
      BY <2>1 DEF Prompts
    <2> QED
      BY <2>1, <2>2, <2>3, TurnGoes
  <1>3. ASSUME NEW k \in Requests, Timeout(r, k) PROVE TurnInv'
    <2>1. /\ pc[r] = k /\ k # "abort" /\ Goto(r, After(k, FALSE))
          /\ pending' = [pending EXCEPT ![proc[r]] = @ \ {<<r, k>>}]
          /\ muddled' = (IF k = "prompt" THEN muddled \cup {proc[r]} ELSE muddled)
          /\ UNCHANGED <<stdout, stdin, turn, dead, finished, slots, proc>>
      BY <1>3 DEF Timeout, At
    <2>2. After(k, FALSE) \notin Prompts
      BY DEF After, Prompts
    <2>3. \A q \in Procs : \A x \in slots[q] :
            x # r /\ <<x, "prompt">> \in pending[q] => <<x, "prompt">> \in pending'[q]
      BY <2>1 DEF TypeOK
    <2>4. \A q \in Procs : q \notin muddled' /\ r \in slots[q] => pc[r] # "reading" /\ ~Prompting(q, r)
      <3> SUFFICES ASSUME NEW q \in Procs, q \notin muddled', r \in slots[q] PROVE FALSE
        OBVIOUS
      <3>1. proc[r] = q /\ pc[r] \in Slotted
        BY RunParts
      <3>2. k = "prompt"
        BY <2>1, <3>1 DEF Slotted, Requests
      <3> QED
        BY <2>1, <3>1, <3>2
    <2>5. muddled \subseteq muddled'
      BY <2>1
    <2> QED
      BY <2>1, <2>2, <2>3, <2>4, <2>5, TurnGoes
  <1> QED
    BY <1>1, <1>2, <1>3 DEF Loop

\* Stop writes an abort or kills the process.
LEMMA TurnStop ==
  ASSUME TypeOK, RunInv, TurnInv, NEW r \in Runs, Stop(r) \/ Escalate(r) \/ AbortFails(r)
  PROVE  TurnInv'
  <1> USE DEF slotVars, runVars, history
  <1>1. UNCHANGED <<pc, proc, slots, stdout, dead, muddled, finished>>
    BY DEF Stop, Escalate, AbortFails
  <1>2. CASE Stop(r)
    <2>1. proc[r] \in Procs /\ UNCHANGED turn
      BY <1>2, AtPlace DEF Stop
    <2>2. CASE os[proc[r]] = "gone"
      <3>1. UNCHANGED <<stdin, pending>> /\ stdin' \in [Procs -> Seq(Runs \X Requests)]
        BY <1>2, <2>2 DEF Stop, TypeOK
      <3> QED
        BY <1>1, <2>1, <3>1, TurnStill
    <2>3. CASE os[proc[r]] # "gone"
      <3>1. /\ stdin' = [stdin EXCEPT ![proc[r]] = Append(@, <<r, "abort">>)]
            /\ pending' = [pending EXCEPT ![proc[r]] = @ \cup {<<r, "abort">>}]
        BY <1>2, <2>3 DEF Stop
      <3>2. <<r, "abort">> \in Runs \X Requests /\ <<r, "abort">>[2] # "prompt"
        BY DEF Requests
      <3> QED
        BY <1>1, <2>1, <3>1, <3>2, TurnWrites
    <2> QED
      BY <2>2, <2>3
  <1>3. CASE Escalate(r)
    <2>1. CASE closed[r]
      <3>1. UNCHANGED <<stdin, turn, pending>> /\ stdin' \in [Procs -> Seq(Runs \X Requests)]
        BY <1>3, <2>1 DEF Escalate, TypeOK
      <3> QED
        BY <1>1, <3>1, TurnStill
    <2>2. CASE ~closed[r]
      <3>1. Gone(proc[r]) /\ UNCHANGED pending /\ proc[r] \in Procs \cup {0}
        BY <1>3, <2>2, Parts DEF Escalate
      <3> QED
        BY <1>1, <3>1, TurnKilled
    <2> QED
      BY <2>1, <2>2
  <1>4. CASE AbortFails(r)
    <2>1. Gone(proc[r]) /\ pending' = [pending EXCEPT ![proc[r]] = @ \ {<<r, "abort">>}]
          /\ proc[r] \in Procs \cup {0}
      BY <1>4, Parts DEF AbortFails
    <2>2. \A q \in Procs : \A x \in slots[q] : <<x, "prompt">> \in pending[q] => <<x, "prompt">> \in pending'[q]
      BY <2>1 DEF TypeOK
    <2> QED
      BY <1>1, <2>1, <2>2, TurnKilled
  <1> QED
    BY <1>2, <1>3, <1>4

\* ResetSession kills the process, which may also die by itself.
LEMMA TurnReset ==
  ASSUME TypeOK, RunInv, TurnInv, Reset \/ UNCHANGED vars \/ \E p \in Procs : Die(p)
  PROVE  TurnInv'
  <1> USE DEF slotVars, runVars, history
  <1>1. CASE Reset
    <2>1. Gone(cur) /\ cur \in Procs \cup {0}
          /\ UNCHANGED <<pc, proc, slots, stdout, dead, muddled, finished, pending>>
      BY <1>1 DEF Reset, TypeOK
    <2> QED
      BY <2>1, TurnKilled
  <1>2. ASSUME NEW p \in Procs, Die(p) PROVE TurnInv'
    <2>1. Gone(p) /\ UNCHANGED <<pc, proc, slots, stdout, dead, muddled, finished, pending>>
      BY <1>2 DEF Die, AgentOnly
    <2> QED
      BY <2>1, TurnKilled
  <1>3. CASE UNCHANGED vars
    <2>1. UNCHANGED <<pc, proc, slots, stdout, stdin, turn, dead, muddled, finished, pending>>
      BY <1>3 DEF vars, procVars
    <2>2. stdin' \in [Procs -> Seq(Runs \X Requests)]
      BY <2>1 DEF TypeOK
    <2> QED
      BY <2>1, <2>2, TurnStill
  <1> QED
    BY <1>1, <1>2, <1>3

------------------------------------------------------------------------------
\* A step of one process.
LEMMA TurnAt ==
  ASSUME TypeOK, RunInv, TurnInv, NEW p \in Procs, proc' = proc,
         p \notin muddled' /\ ~dead'[p] => TurnOk(p)',
         muddled \subseteq muddled', finished \subseteq finished', stdin' \in [Procs -> Seq(Runs \X Requests)],
         \A q \in Procs : q # p =>
           /\ stdout'[q] = stdout[q] /\ stdin'[q] = stdin[q] /\ turn'[q] = turn[q] /\ dead'[q] = dead[q]
           /\ slots'[q] = slots[q] /\ pending'[q] = pending[q]
           /\ \A x \in Runs : proc[x] = q => pc'[x] = pc[x]
  PROVE  TurnInv'
  <1> SUFFICES ASSUME NEW q \in Procs, q # p, q \notin muddled', ~dead'[q] PROVE TurnOk(q)'
    BY DEF TurnInv, Sound
  <1>1. TurnOk(q)
    BY DEF TurnInv, Sound
  <1>2. stdout'[q] = stdout[q] /\ stdin'[q] = stdin[q] /\ turn'[q] = turn[q]
        /\ slots'[q] = slots[q] /\ pending'[q] = pending[q]
    OBVIOUS
  <1>3. \A x \in Runs : proc[x] = q => pc'[x] = pc[x]
    OBVIOUS
  <1>4. DOMAIN stdin'[q] \subseteq Nat
    BY <1>2, Parts
  <1>5. \A x \in slots[q] : pc[x] = "reading" \/ Prompting(q, x) =>
          x \in slots'[q] /\ pc'[x] = pc[x] /\ (pc[x] = "prompt" => <<x, "prompt">> \in pending'[q])
    BY <1>2, <1>3, RunParts DEF Prompting
  <1>6. \A r \in Runs : pc'[r] \in Prompts /\ proc'[r] = q => r \in slots'[q]
    BY <1>1, <1>2, <1>3 DEF TurnOk
  <1>7. turn'[q] \in {turn[q], NoRun}
    BY <1>2
  <1>8. \A i \in DOMAIN stdin'[q] : stdin'[q][i][2] = "prompt" =>
            i \in DOMAIN stdin[q] /\ stdin'[q][i] = stdin[q][i]
    BY <1>2
  <1> QED
    BY <1>1, <1>2, <1>4, <1>5, <1>6, <1>7, <1>8, TurnSame

\* A turn that goes on: it has no prompt to come, and its lines do not end it.
LEMMA TurnGoesOn ==
  ASSUME TypeOK, NEW p \in Procs, TurnOk(p), turn[p] # NoRun
  PROVE  /\ \A i \in DOMAIN stdin[p] : ~IsPrompt(p, i)
         /\ \A i \in DOMAIN stdout[p] : IsAnswer(p, i) => stdout[p][i].ok
         /\ \A i \in DOMAIN stdout[p] : IsEvent(stdout[p][i]) => stdout[p][i].kind # "agent_settled"
         /\ Accepted(p, turn[p])
  BY DEF TurnOk, PromptInv, AnswerInv, EventInv

\* The agent writes a line of its turn, and perhaps a reply after it.
LEMMA TurnAdds ==
  ASSUME TypeOK, NEW p \in Procs, TurnOk(p), turn[p] # NoRun,
         UNCHANGED <<pc, proc, slots, pending>>, NEW n \in Nat, n \in DOMAIN stdout'[p],
         DOMAIN stdout'[p] \subseteq Nat,
         \A i \in DOMAIN stdout[p] : i < n /\ i \in DOMAIN stdout'[p] /\ stdout'[p][i] = stdout[p][i],
         \A i \in DOMAIN stdout'[p] :
           i \in DOMAIN stdout[p] \/ i = n \/ stdout'[p][i].kind \in Requests \ {"prompt"},
         stdout'[p][n].kind \notin Requests \cup {"message_error"}, stdout'[p][n].run = turn[p],
         stdout'[p][n].kind = "agent_settled" => turn'[p] = NoRun /\ turn[p] \in finished',
         \A i \in DOMAIN stdin'[p] : stdin'[p][i][2] # "prompt",
         turn'[p] \in {turn[p], NoRun}, finished \subseteq finished'
  PROVE  TurnOk(p)'
  <1> DEFINE A(x) == /\ x \in slots[p]
                     /\ \/ pc[x] = "reading"
                        \/ /\ Prompting(p, x)
                           /\ \E i \in DOMAIN stdout'[p] :
                                stdout'[p][i].kind = "prompt" /\ stdout'[p][i].run = x
  <1>1. \A x : Accepted(p, x) => A(x)
    BY DEF Accepted, Answered, IsAnswer
  <1>2. \A i \in DOMAIN stdout'[p] : stdout'[p][i].kind = "prompt" =>
          i \in DOMAIN stdout[p] /\ stdout'[p][i] = stdout[p][i]
    BY DEF Requests
  <1>3. \A i \in DOMAIN stdout'[p] : stdout'[p][i].kind \notin Requests =>
          i = n \/ (i \in DOMAIN stdout[p] /\ stdout'[p][i] = stdout[p][i])
    OBVIOUS
  <1>4. /\ \A i \in DOMAIN stdout[p] : stdout[p][i].kind = "prompt" =>
             /\ stdout[p][i].ok /\ Prompting(p, stdout[p][i].run)
             /\ \A j \in DOMAIN stdout[p] : stdout[p][j].kind = "prompt" => i = j
             /\ \A j \in DOMAIN stdout[p] : stdout[p][j].kind \notin Requests => i < j
        /\ \A i \in DOMAIN stdout[p] : stdout[p][i].kind \notin Requests =>
             /\ Accepted(p, stdout[p][i].run)
             /\ stdout[p][i].kind \notin {"message_error", "agent_settled"}
    BY TurnGoesOn DEF TurnOk, AnswerInv, EventInv, IsAnswer, IsEvent
  <1>5. A(turn[p])
    BY <1>1, TurnGoesOn
  <1> HIDE DEF A
  <1>6. PromptInv(p)'
    BY DEF PromptInv, IsPrompt
  <1>7. AnswerInv(p)'
    <2> SUFFICES ASSUME NEW i \in DOMAIN stdout'[p], stdout'[p][i].kind = "prompt"
                 PROVE  /\ Prompting(p, stdout'[p][i].run) /\ stdout'[p][i].ok
                        /\ \A j \in DOMAIN stdout'[p] : stdout'[p][j].kind = "prompt" => i = j
                        /\ \A j \in DOMAIN stdout'[p] : stdout'[p][j].kind \notin Requests => i < j
      BY DEF AnswerInv, IsAnswer, IsEvent, Prompting
    <2>1. i \in DOMAIN stdout[p] /\ stdout'[p][i] = stdout[p][i]
      BY <1>2
    <2> QED
      BY <1>2, <1>3, <1>4, <2>1
  <1>8. EventInv(p)'
    <2> SUFFICES ASSUME NEW i \in DOMAIN stdout'[p], stdout'[p][i].kind \notin Requests
                 PROVE  /\ A(stdout'[p][i].run) /\ stdout'[p][i].kind # "message_error"
                        /\ stdout'[p][i].kind = "agent_settled" =>
                             /\ stdout'[p][i].run \in finished' /\ turn'[p] = NoRun
                             /\ \A j \in DOMAIN stdout'[p] : stdout'[p][j].kind \notin Requests => j <= i
      BY DEF EventInv, IsEvent, IsAnswer, Prompting, Accepted, Answered, A
    <2>1. CASE i = n
      <3>1. \A j \in DOMAIN stdout'[p] : stdout'[p][j].kind \notin Requests => j <= n
        BY <1>3
      <3> QED
        BY <1>5, <2>1, <3>1
    <2>2. CASE i # n
      BY <1>1, <1>3, <1>4, <2>2
    <2> QED
      BY <2>1, <2>2
  <1>9. turn'[p] # NoRun => A(turn'[p])
    BY <1>5
  <1>10. \A r \in Runs : pc'[r] \in Prompts /\ proc'[r] = p => r \in slots'[p]
    BY DEF TurnOk
  <1> QED
    BY <1>6, <1>7, <1>8, <1>9, <1>10 DEF TurnOk, Accepted, Answered, IsAnswer, Prompting, A

\* Lines of a turn follow its answer, and an end is the last of them.
LEMMA TurnChat ==
  ASSUME TypeOK, TypeOK', RunInv, TurnInv, NEW p \in Procs,
         Settle(p) \/ \E kind \in Chatter : Chat(p, kind)
  PROVE  TurnInv'
  <1> USE DEF AgentOnly, slotVars, runVars, history
  <1>1. PICK kind \in Chatter \cup {"agent_settled"} : Says(p, kind, turn[p], TRUE)
          /\ (kind = "message_error" => p \in muddled')
          /\ (kind = "agent_settled" => turn' = [turn EXCEPT ![p] = NoRun] /\ turn[p] \in finished')
    BY SessionAssumption DEF Settle, Chat
  <1>2. /\ turn[p] # NoRun /\ UNCHANGED <<stdin, pc, proc, slots, pending, dead>>
        /\ turn' = turn \/ turn' = [turn EXCEPT ![p] = NoRun]
        /\ finished \subseteq finished' /\ muddled \subseteq muddled'
    BY DEF Settle, Chat
  <1>3. kind \notin Requests
    BY SessionAssumption DEF Requests
  <1>4. TurnOk(p) /\ p \notin muddled' => TurnOk(p)'
    <2> DEFINE line == [kind |-> kind, run |-> turn[p], ok |-> TRUE]
               n == Len(stdout[p]) + 1
    <2> SUFFICES ASSUME TurnOk(p), p \notin muddled' PROVE TurnOk(p)'
      OBVIOUS
    <2>1. stdout'[p] = Append(stdout[p], line) /\ line \in Lines /\ stdout[p] \in Seq(Lines)
      BY <1>1, <1>2, Parts DEF Says, TypeOK, Lines
    <2>2. line.kind = kind /\ line.run = turn[p]
      OBVIOUS
    <2> HIDE DEF line
    <2>3. /\ n \in Nat /\ n \in DOMAIN stdout'[p] /\ stdout'[p][n] = line /\ DOMAIN stdout'[p] \subseteq Nat
          /\ \A i \in DOMAIN stdout[p] : i < n /\ i \in DOMAIN stdout'[p] /\ stdout'[p][i] = stdout[p][i]
          /\ \A i \in DOMAIN stdout'[p] : i \in DOMAIN stdout[p] \/ i = n
      BY <2>1, Appended
    <2> HIDE DEF n
    <2>4. \A i \in DOMAIN stdin'[p] : stdin'[p][i][2] # "prompt"
      BY <1>2, TurnGoesOn DEF IsPrompt
    <2>5. kind # "message_error"
      BY <1>1
    <2>6. turn'[p] \in {turn[p], NoRun} /\ (kind = "agent_settled" => turn'[p] = NoRun)
      BY <1>1, <1>2 DEF TypeOK
    <2> QED
      BY <1>1, <1>2, <1>3, <2>2, <2>3, <2>4, <2>5, <2>6, TurnAdds
  <1>5. p \notin muddled' /\ ~dead'[p] => TurnOk(p)'
    BY <1>2, <1>4 DEF TurnInv, Sound
  <1>6. \A q \in Procs : q # p => stdout'[q] = stdout[q] /\ turn'[q] = turn[q]
    BY <1>1, <1>2 DEF Says, TypeOK
  <1>7. stdin' \in [Procs -> Seq(Runs \X Requests)]
    BY DEF TypeOK
  <1> QED
    BY <1>2, <1>5, <1>6, <1>7, TurnAt

\* The agent answers a prompt: it is the first line of a turn.
LEMMA TurnAnswers ==
  ASSUME TypeOK, NEW p \in Procs, TurnOk(p), UNCHANGED <<pc, proc, slots, pending, finished>>,
         stdin[p] # << >>, stdin[p][1][2] = "prompt", stdin'[p] = Tail(stdin[p]), NEW ok \in BOOLEAN,
         stdout'[p] = Append(stdout[p], [kind |-> "prompt", run |-> stdin[p][1][1], ok |-> ok]),
         turn'[p] = IF ok THEN stdin[p][1][1] ELSE turn[p]
  PROVE  TurnOk(p)'
  <1> DEFINE r == stdin[p][1][1]
             line == [kind |-> "prompt", run |-> r, ok |-> ok]
             n == Len(stdout[p]) + 1
  <1>1. stdin[p] \in Seq(Runs \X Requests) /\ stdout[p] \in Seq(Lines)
    BY Parts
  <1>2. /\ 1 \in DOMAIN stdin[p] /\ r \in Runs
        /\ \A i \in DOMAIN stdin'[p] : i + 1 \in DOMAIN stdin[p] /\ i + 1 # 1 /\ stdin'[p][i] = stdin[p][i + 1]
    <2>1. /\ 1 \in DOMAIN stdin[p] /\ Head(stdin[p]) = stdin[p][1] /\ Head(stdin[p]) \in Runs \X Requests
          /\ \A i \in DOMAIN stdin'[p] : i + 1 \in DOMAIN stdin[p] /\ i + 1 # 1 /\ stdin'[p][i] = stdin[p][i + 1]
      BY <1>1, Shortened
    <2> QED
      BY <2>1
  <1>3. /\ Prompting(p, r) /\ turn[p] = NoRun
        /\ \A j \in DOMAIN stdin[p] : stdin[p][j][2] = "prompt" => 1 = j
        /\ \A j \in DOMAIN stdout[p] : stdout[p][j].kind # "prompt" /\ stdout[p][j].kind \in Requests
    BY <1>2 DEF TurnOk, PromptInv, IsPrompt, IsAnswer, IsEvent
  <1>4. line \in Lines
    BY <1>2 DEF Lines, Requests
  <1>5. line.kind = "prompt" /\ line.run = r /\ line.ok = ok /\ "prompt" \in Requests
    BY DEF Requests
  <1> HIDE DEF line, r
  <1>6. stdout'[p] = Append(stdout[p], line) /\ turn'[p] = IF ok THEN r ELSE NoRun
    BY <1>3 DEF line, r
  <1>7. /\ n \in DOMAIN stdout'[p] /\ stdout'[p][n] = line
        /\ \A i \in DOMAIN stdout'[p] : i = n \/ (i \in DOMAIN stdout[p] /\ stdout'[p][i] = stdout[p][i])
    BY <1>1, <1>4, <1>6, Appended
  <1> HIDE DEF n
  <1>8. \A i \in DOMAIN stdin'[p] : stdin'[p][i][2] # "prompt"
    BY <1>2, <1>3
  <1>9. \A i \in DOMAIN stdout'[p] :
          stdout'[p][i].kind \in Requests /\ (stdout'[p][i].kind = "prompt" => i = n)
    BY <1>3, <1>5, <1>7
  <1>10. PromptInv(p)' /\ EventInv(p)'
    BY <1>8, <1>9 DEF PromptInv, IsPrompt, EventInv, IsEvent
  <1>11. AnswerInv(p)'
    <2> SUFFICES ASSUME NEW i \in DOMAIN stdout'[p], stdout'[p][i].kind = "prompt"
                 PROVE  /\ Prompting(p, stdout'[p][i].run)
                        /\ \A j \in DOMAIN stdout'[p] : stdout'[p][j].kind = "prompt" => i = j
                        /\ \A j \in DOMAIN stdout'[p] : stdout'[p][j].kind \in Requests
                        /\ ~stdout'[p][i].ok => turn'[p] = NoRun
      BY DEF AnswerInv, IsAnswer, IsEvent, Prompting
    <2> QED
      BY <1>3, <1>5, <1>6, <1>7, <1>9
  <1>12. turn'[p] # NoRun => /\ turn'[p] \in slots[p] /\ Prompting(p, turn'[p])
                             /\ \E i \in DOMAIN stdout'[p] :
                                  stdout'[p][i].kind = "prompt" /\ stdout'[p][i].run = turn'[p]
    BY <1>3, <1>5, <1>6, <1>7 DEF Prompting
  <1>13. \A x \in Runs : pc'[x] \in Prompts /\ proc'[x] = p => x \in slots'[p]
    BY DEF TurnOk
  <1> QED
    BY <1>10, <1>11, <1>12, <1>13 DEF TurnOk, Accepted, Answered, IsAnswer, Prompting

\* A prompt that the agent handles is answered, and begins a turn if it was accepted.
LEMMA TurnHandle ==
  ASSUME TypeOK, TypeOK', RunInv, TurnInv, NEW p \in Procs, Handle(p)
  PROVE  TurnInv'
  <1> USE DEF AgentOnly, slotVars, runVars
  <1> DEFINE r == stdin[p][1][1]
             request == stdin[p][1][2]
             settled == [kind |-> "agent_settled", run |-> turn[p], ok |-> TRUE]
             reply == [kind |-> "abort", run |-> r, ok |-> TRUE]
  <1>1. /\ stdin[p] # << >> /\ stdin' = [stdin EXCEPT ![p] = Tail(@)]
        /\ UNCHANGED <<pc, proc, slots, pending, dead, muddled>>
        /\ \/ /\ request # "prompt" /\ UNCHANGED <<turn, finished>>
              /\ \E ok \in BOOLEAN : Says(p, request, r, ok)
           \/ /\ request = "prompt" /\ UNCHANGED finished
              /\ \/ Says(p, request, r, FALSE) /\ UNCHANGED turn
                 \/ Says(p, request, r, TRUE) /\ turn' = [turn EXCEPT ![p] = r]
           \/ /\ request = "abort" /\ turn[p] # NoRun
              /\ stdout' = [stdout EXCEPT ![p] = @ \o <<settled, reply>>]
              /\ finished' = finished \cup {turn[p]}
              /\ turn' = [turn EXCEPT ![p] = NoRun]
    BY DEF Handle
  <1>2. stdin[p] \in Seq(Runs \X Requests) /\ stdout[p] \in Seq(Lines)
    BY Parts
  <1>3. /\ r \in Runs /\ request \in Requests /\ stdin'[p] = Tail(stdin[p])
        /\ DOMAIN stdin'[p] \subseteq Nat
        /\ \A i \in DOMAIN stdin'[p] : i + 1 \in DOMAIN stdin[p] /\ stdin'[p][i] = stdin[p][i + 1]
    <2>1. /\ Head(stdin[p]) = stdin[p][1] /\ Head(stdin[p]) \in Runs \X Requests
          /\ Tail(stdin[p]) \in Seq(Runs \X Requests)
          /\ \A i \in DOMAIN Tail(stdin[p]) : i + 1 \in DOMAIN stdin[p] /\ Tail(stdin[p])[i] = stdin[p][i + 1]
      BY <1>1, <1>2, Shortened
    <2>2. stdin'[p] = Tail(stdin[p])
      BY <1>1 DEF TypeOK
    <2> QED
      BY <2>1, <2>2
  <1>4. TurnOk(p) => TurnOk(p)'
    <2> SUFFICES ASSUME TurnOk(p) PROVE TurnOk(p)'
      OBVIOUS
    <2>1. ASSUME request # "prompt", UNCHANGED <<turn, finished>>, NEW ok \in BOOLEAN, Says(p, request, r, ok)
          PROVE  TurnOk(p)'
      <3> DEFINE line == [kind |-> request, run |-> r, ok |-> ok]
      <3>1. stdout'[p] = Append(stdout[p], line) /\ line \in Lines
        BY <1>3, <2>1 DEF Says, TypeOK, Lines
      <3>2. line.kind = request
        OBVIOUS
      <3> HIDE DEF line, request, r
      <3>3. /\ DOMAIN stdout'[p] \subseteq Nat /\ DOMAIN stdout[p] \subseteq Nat
            /\ \A i \in DOMAIN stdout'[p] :
                 (i \in DOMAIN stdout[p] /\ stdout'[p][i] = stdout[p][i]) \/ stdout'[p][i] = line
            /\ \A i \in DOMAIN stdout[p] : i \in DOMAIN stdout'[p] /\ stdout'[p][i] = stdout[p][i]
        BY <1>2, <3>1, Appended
      <3>4. /\ \A i \in DOMAIN stdout'[p] :
                 stdout'[p][i].kind = "prompt" \/ stdout'[p][i].kind \notin Requests =>
                   i + 0 \in DOMAIN stdout[p] /\ stdout'[p][i] = stdout[p][i + 0]
            /\ \A i \in DOMAIN stdout[p] : stdout[p][i].kind = "prompt" =>
                 i - 0 \in DOMAIN stdout'[p] /\ stdout'[p][i - 0] = stdout[p][i]
        BY <1>3, <2>1, <3>2, <3>3
      <3>5. turn'[p] \in {turn[p], NoRun} /\ finished \subseteq finished'
        BY <2>1
      <3>6. \A x \in slots[p] : pc[x] = "reading" \/ Prompting(p, x) =>
              x \in slots'[p] /\ pc'[x] = pc[x] /\ (pc[x] = "prompt" => <<x, "prompt">> \in pending'[p])
        BY <1>1 DEF Prompting
      <3>7. \A x \in Runs : pc'[x] \in Prompts /\ proc'[x] = p => x \in slots'[p]
        BY <1>1 DEF TurnOk
      <3>8. 0 \in {0, 1} /\ 1 \in {0, 1}
        OBVIOUS
      <3> QED
        BY <1>3, <3>3, <3>4, <3>5, <3>6, <3>7, <3>8, TurnFrame
    <2>2. ASSUME request = "prompt", UNCHANGED finished, Says(p, request, r, FALSE), UNCHANGED turn
          PROVE  TurnOk(p)'
      <3>1. stdout'[p] = Append(stdout[p], [kind |-> "prompt", run |-> stdin[p][1][1], ok |-> FALSE])
        BY <2>2 DEF Says, TypeOK
      <3>2. turn'[p] = IF FALSE THEN stdin[p][1][1] ELSE turn[p]
        BY <2>2
      <3> QED
        BY <1>1, <1>3, <2>2, <3>1, <3>2, TurnAnswers
    <2>3. ASSUME request = "prompt", UNCHANGED finished, Says(p, request, r, TRUE),
                 turn' = [turn EXCEPT ![p] = r]
          PROVE  TurnOk(p)'
      <3>1. stdout'[p] = Append(stdout[p], [kind |-> "prompt", run |-> stdin[p][1][1], ok |-> TRUE])
        BY <2>3 DEF Says, TypeOK
      <3>2. turn'[p] = IF TRUE THEN stdin[p][1][1] ELSE turn[p]
        BY <2>3 DEF TypeOK
      <3> QED
        BY <1>1, <1>3, <2>3, <3>1, <3>2, TurnAnswers
    <2>4. ASSUME turn[p] # NoRun, stdout' = [stdout EXCEPT ![p] = @ \o <<settled, reply>>],
                 finished' = finished \cup {turn[p]}, turn' = [turn EXCEPT ![p] = NoRun]
          PROVE  TurnOk(p)'
      <3> DEFINE more == <<settled, reply>>
                 n == Len(stdout[p]) + 1
      <3>1. settled \in Lines /\ reply \in Lines
        BY <1>3, <2>4 DEF TypeOK, Lines, Requests
      <3>2. settled.kind = "agent_settled" /\ settled.run = turn[p] /\ reply.kind = "abort"
        OBVIOUS
      <3>3. "abort" \in Requests \ {"prompt"} /\ "agent_settled" \notin Requests \cup {"message_error"}
        BY DEF Requests
      <3> HIDE DEF settled, reply
      <3>4. more \in Seq(Lines) /\ DOMAIN more = {1, 2} /\ more[1] = settled /\ more[2] = reply
        BY <3>1
      <3>5. stdout'[p] = stdout[p] \o more
        BY <2>4 DEF TypeOK
      <3> HIDE DEF more
      <3>6. stdout'[p] \in Seq(Lines)
            /\ \A i \in DOMAIN stdout'[p] :
                 \/ i \in DOMAIN stdout[p] /\ stdout'[p][i] = stdout[p][i]
                 \/ i - Len(stdout[p]) \in DOMAIN more /\ stdout'[p][i] = more[i - Len(stdout[p])]
        BY <1>2, <3>4, <3>5, Joined
      <3>7. /\ \A i \in DOMAIN stdout[p] : i \in DOMAIN stdout'[p] /\ stdout'[p][i] = stdout[p][i]
            /\ \A i \in DOMAIN more :
                 Len(stdout[p]) + i \in DOMAIN stdout'[p] /\ stdout'[p][Len(stdout[p]) + i] = more[i]
        BY <1>2, <3>4, <3>5, Joined
      <3>8. Len(stdout[p]) \in Nat /\ DOMAIN stdout[p] = 1..Len(stdout[p]) /\ DOMAIN stdout'[p] \subseteq Nat
        <4>1. Len(stdout[p]) \in Nat /\ DOMAIN stdout[p] = 1..Len(stdout[p])
          BY <1>2
        <4>2. DOMAIN stdout'[p] \subseteq Nat
          BY <3>6
        <4> QED
          BY <4>1, <4>2
      <3>9. n \in Nat /\ n \in DOMAIN stdout'[p] /\ stdout'[p][n] = settled
            /\ \A i \in DOMAIN stdout[p] : i < n
        BY <3>4, <3>7, <3>8
      <3>10. \A i \in DOMAIN stdout'[p] :
               i \in DOMAIN stdout[p] \/ i = n \/ stdout'[p][i].kind \in Requests \ {"prompt"}
        <4> SUFFICES ASSUME NEW i \in DOMAIN stdout'[p], i \notin DOMAIN stdout[p], i # n
                     PROVE  stdout'[p][i] = reply
          BY <3>2, <3>3
        <4>1. i - Len(stdout[p]) \in {1, 2} /\ stdout'[p][i] = more[i - Len(stdout[p])] /\ i \in Nat
          BY <3>4, <3>6, <3>8
        <4>2. i - Len(stdout[p]) # 1
          BY <3>8, <4>1
        <4> QED
          BY <3>4, <4>1, <4>2
      <3> HIDE DEF n
      <3>11. \A i \in DOMAIN stdin'[p] : stdin'[p][i][2] # "prompt"
        BY <1>3, <2>4, TurnGoesOn DEF IsPrompt
      <3>12. turn'[p] = NoRun /\ turn[p] \in finished' /\ finished \subseteq finished'
        BY <2>4 DEF TypeOK
      <3>13. /\ stdout'[p][n].kind \notin Requests \cup {"message_error"} /\ stdout'[p][n].run = turn[p]
             /\ stdout'[p][n].kind = "agent_settled" => turn'[p] = NoRun /\ turn[p] \in finished'
             /\ turn'[p] \in {turn[p], NoRun}
        BY <3>2, <3>3, <3>9, <3>12
      <3>14. \A i \in DOMAIN stdout[p] : i < n /\ i \in DOMAIN stdout'[p] /\ stdout'[p][i] = stdout[p][i]
        BY <3>7, <3>9
      <3>15. UNCHANGED <<pc, proc, slots, pending>>
        BY <1>1
      <3> QED
        BY <2>4, <3>8, <3>9, <3>10, <3>11, <3>12, <3>13, <3>14, <3>15, TurnAdds
    <2> HIDE DEF r, request, settled, reply
    <2> QED
      BY <1>1, <2>1, <2>2, <2>3, <2>4
  <1>5. p \notin muddled' /\ ~dead'[p] => TurnOk(p)'
    BY <1>1, <1>4 DEF TurnInv, Sound
  <1>6. \A q \in Procs : q # p => stdout'[q] = stdout[q] /\ turn'[q] = turn[q] /\ stdin'[q] = stdin[q]
    <2> HIDE DEF r, request, settled, reply
    <2>1. \/ UNCHANGED turn \/ \E e : turn' = [turn EXCEPT ![p] = e]
      BY <1>1
    <2>2. \E e : stdout' = [stdout EXCEPT ![p] = e]
      BY <1>1 DEF Says
    <2> QED
      BY <1>1, <2>1, <2>2 DEF TypeOK
  <1>7. /\ stdin' \in [Procs -> Seq(Runs \X Requests)] /\ muddled \subseteq muddled'
        /\ finished \subseteq finished'
    BY <1>1 DEF TypeOK
  <1> HIDE DEF r, request, settled, reply
  <1> QED
    BY <1>1, <1>5, <1>6, <1>7, TurnAt

------------------------------------------------------------------------------
\* The prompt is sent: nothing of an earlier turn is left on that process.
LEMMA TurnPrompt ==
  ASSUME TypeOK, TypeOK', RunInv, TurnInv, NEW r \in Runs, Prompt(r) \/ Written(r)
  PROVE  TurnInv'
  <1>1. /\ (pc[r] = "prompt" /\ Unasked(r, "prompt")) \/ pc[r] = "writing"
        /\ proc[r] \in Procs
        /\ UNCHANGED <<stdout, turn, dead, finished, muddled, slots, proc>>
    BY AtPlace DEF Prompt, Send, Written, history
  <1>2. CASE os[proc[r]] = "gone"
    <2>1. Goto(r, "failing") /\ UNCHANGED <<stdin, pending>>
      BY <1>2 DEF Prompt, Send, Written, After
    <2>2. \A q \in Procs : r \in slots[q] => pc[r] # "reading" /\ ~Prompting(q, r)
      BY <1>1, NotWaiting DEF Prompting, Requests
    <2>3. muddled \subseteq muddled' /\ "failing" \notin Prompts
      BY <1>1 DEF Prompts
    <2> QED
      BY <1>1, <2>1, <2>2, <2>3, TurnGoes
  <1>3. ASSUME NEW p \in Procs, p = proc[r], os[p] # "gone" PROVE TurnInv'
    <2> DEFINE e == <<r, "prompt">>
               n == Len(stdin[p]) + 1
    <2>1. /\ stdin' = [stdin EXCEPT ![p] = Append(@, e)] /\ pending' = [pending EXCEPT ![p] = @ \cup {e}]
          /\ \A x \in Runs : pc'[x] = IF x = r THEN "prompt" ELSE pc[x]
      BY <1>1, <1>3, Parts DEF Prompt, Send, Written, At, Goto
    <2>2. p \in Procs /\ e \in Runs \X Requests /\ e[1] = r /\ e[2] = "prompt"
      BY <1>1 DEF Requests
    <2>3. /\ stdin'[p] = Append(stdin[p], e) /\ e \in pending'[p]
          /\ \A q \in Procs : q # p => stdin'[q] = stdin[q] /\ pending'[q] = pending[q]
      BY <2>1, <2>2 DEF TypeOK
    <2>4. TurnOk(p) => TurnOk(p)'
      <3> SUFFICES ASSUME TurnOk(p) PROVE TurnOk(p)'
        OBVIOUS
      <3>1. \A x \in slots[p] : x = r
        BY <1>1, <2>2, RunParts, OneAtWork DEF Slotted
      <3>2. \A x : ~Prompting(p, x) /\ ~Accepted(p, x)
        BY <1>1, <1>3, <3>1 DEF Prompting, Accepted, Unasked
      <3>3. /\ \A i \in DOMAIN stdin[p] : stdin[p][i][2] # "prompt"
            /\ \A i \in DOMAIN stdout[p] : stdout[p][i].kind # "prompt" /\ stdout[p][i].kind \in Requests
            /\ turn[p] = NoRun /\ r \in slots[p]
        BY <1>1, <1>3, <3>2 DEF TurnOk, PromptInv, AnswerInv, EventInv, IsPrompt, IsAnswer, IsEvent, Prompts
      <3> HIDE DEF e
      <3>4. \A i \in DOMAIN stdin'[p] :
              \/ i = n /\ stdin'[p][i] = e
              \/ i # n /\ i \in DOMAIN stdin[p] /\ stdin'[p][i] = stdin[p][i]
        <4>1. stdin[p] \in Seq(Runs \X Requests) /\ Len(stdin[p]) \in Nat /\ DOMAIN stdin[p] = 1..Len(stdin[p])
          BY <2>2, Parts
        <4>2. /\ \A i \in DOMAIN stdin[p] : stdin'[p][i] = stdin[p][i]
              /\ \A i \in DOMAIN stdin'[p] : i \in DOMAIN stdin[p] \/ i = n
              /\ stdin'[p][n] = e
          BY <2>2, <2>3, <4>1, Appended
        <4>3. n \notin DOMAIN stdin[p]
          BY <4>1
        <4> QED
          BY <4>2, <4>3
      <3> HIDE DEF n
      <3>5. \A i \in DOMAIN stdin'[p] : stdin'[p][i][2] = "prompt" => i = n /\ stdin'[p][i][1] = r
        BY <2>2, <3>3, <3>4
      <3>6. r \in slots'[p] /\ pc'[r] = "prompt" /\ <<r, "prompt">> \in pending'[p] /\ turn'[p] = NoRun
            /\ stdout'[p] = stdout[p]
        BY <1>1, <2>1, <2>3, <3>3 DEF e
      <3>7. PromptInv(p)'
        BY <3>3, <3>5, <3>6 DEF PromptInv, IsPrompt, IsAnswer, IsEvent, Prompting
      <3>8. AnswerInv(p)' /\ EventInv(p)'
        BY <3>3, <3>6 DEF AnswerInv, EventInv, IsAnswer, IsEvent
      <3>9. \A x \in Runs : pc'[x] \in Prompts /\ proc'[x] = p => x \in slots'[p]
        BY <1>1, <2>1 DEF TurnOk, Prompts
      <3> QED
        BY <3>6, <3>7, <3>8, <3>9 DEF TurnOk
    <2>5. p \notin muddled' /\ ~dead'[p] => TurnOk(p)'
      BY <1>1, <2>2, <2>4 DEF TurnInv, Sound
    <2>6. stdin' \in [Procs -> Seq(Runs \X Requests)] /\ muddled \subseteq muddled' /\ finished \subseteq finished'
      BY <1>1 DEF TypeOK
    <2>7. \A x \in Runs : proc[x] # p => pc'[x] = pc[x]
      BY <1>3, <2>1
    <2> HIDE DEF e
    <2>8. \A q \in Procs : q # p =>
            /\ stdout'[q] = stdout[q] /\ stdin'[q] = stdin[q] /\ turn'[q] = turn[q] /\ dead'[q] = dead[q]
            /\ slots'[q] = slots[q] /\ pending'[q] = pending[q]
            /\ \A x \in Runs : proc[x] = q => pc'[x] = pc[x]
      BY <1>1, <2>3, <2>7
    <2>9. proc' = proc
      BY <1>1
    <2> QED
      BY <2>2, <2>5, <2>6, <2>8, <2>9, TurnAt
  <1> QED
    BY <1>1, <1>2, <1>3

\* What is left of the lines when one was read.
LEMMA LinesRead ==
  ASSUME TypeOK, NEW p \in Procs, Read(p)
  PROVE  /\ Head(stdout[p]) \in Lines /\ Head(stdout[p]) = stdout[p][1] /\ 1 \in DOMAIN stdout[p]
         /\ DOMAIN stdout'[p] \subseteq Nat \ {0} /\ DOMAIN stdout[p] \subseteq Nat \ {0}
         /\ \A i \in DOMAIN stdout'[p] : i + 1 \in DOMAIN stdout[p] /\ stdout'[p][i] = stdout[p][i + 1]
         /\ \A i \in DOMAIN stdout[p] : i # 1 =>
              i - 1 \in DOMAIN stdout'[p] /\ stdout'[p][i - 1] = stdout[p][i]
         /\ \A q \in Procs : q # p => stdout'[q] = stdout[q]
  <1>1. stdout[p] # << >> /\ stdout' = [stdout EXCEPT ![p] = Tail(@)] /\ stdout[p] \in Seq(Lines)
    BY Parts DEF Read
  <1>2. stdout'[p] = Tail(stdout[p]) /\ \A q \in Procs : q # p => stdout'[q] = stdout[q]
    BY <1>1 DEF TypeOK
  <1>3. /\ Tail(stdout[p]) \in Seq(Lines) /\ 1 \in DOMAIN stdout[p]
        /\ Head(stdout[p]) = stdout[p][1] /\ Head(stdout[p]) \in Lines
        /\ \A i \in DOMAIN Tail(stdout[p]) : i + 1 \in DOMAIN stdout[p] /\ Tail(stdout[p])[i] = stdout[p][i + 1]
        /\ \A i \in DOMAIN stdout[p] : i # 1 => i - 1 \in DOMAIN Tail(stdout[p])
    BY <1>1, Shortened
  <1>4. DOMAIN stdout'[p] \subseteq Nat \ {0} /\ DOMAIN stdout[p] \subseteq Nat \ {0}
    BY <1>1, <1>2, <1>3
  <1>5. \A i \in DOMAIN stdout[p] : i # 1 => stdout'[p][i - 1] = stdout[p][i]
    <2> SUFFICES ASSUME NEW i \in DOMAIN stdout[p], i # 1 PROVE stdout'[p][i - 1] = stdout[p][i]
      OBVIOUS
    <2>1. i - 1 \in DOMAIN Tail(stdout[p]) /\ (i - 1) + 1 = i
      BY <1>3, <1>4
    <2> QED
      BY <1>2, <1>3, <2>1
  <1> QED
    BY <1>2, <1>3, <1>4, <1>5

\* A line is read that is no answer to a prompt, and closes nothing.
LEMMA TurnShifts ==
  ASSUME TypeOK, RunInv, NEW p \in Procs, TurnOk(p), Read(p), Head(stdout[p]).kind # "prompt",
         UNCHANGED <<proc, slots, stdin, turn, finished>>,
         \A x \in Runs : pc'[x] = pc[x] \/ (pc[x] \notin Slotted /\ pc'[x] \notin Prompts),
         \A x \in slots[p] : <<x, "prompt">> \in pending[p] => <<x, "prompt">> \in pending'[p]
  PROVE  TurnOk(p)'
  <1>1. /\ \A i \in DOMAIN stdout'[p] :
             stdout'[p][i].kind = "prompt" \/ stdout'[p][i].kind \notin Requests =>
               i + 1 \in DOMAIN stdout[p] /\ stdout'[p][i] = stdout[p][i + 1]
        /\ DOMAIN stdout'[p] \subseteq Nat
    BY LinesRead
  <1>2. \A i \in DOMAIN stdout[p] : stdout[p][i].kind = "prompt" =>
             i - 1 \in DOMAIN stdout'[p] /\ stdout'[p][i - 1] = stdout[p][i]
    BY LinesRead
  <1>3. DOMAIN stdin[p] \subseteq Nat /\ stdin'[p] = stdin[p]
    BY Parts
  <1>4. \A i \in DOMAIN stdin'[p] : stdin'[p][i][2] = "prompt" =>
            i + 0 \in DOMAIN stdin[p] /\ stdin'[p][i] = stdin[p][i + 0]
    BY <1>3
  <1>5. \A x \in slots[p] : pc[x] = "reading" \/ Prompting(p, x) =>
          x \in slots'[p] /\ pc'[x] = pc[x] /\ (pc[x] = "prompt" => <<x, "prompt">> \in pending'[p])
    BY RunParts DEF Prompting
  <1>6. \A x \in Runs : pc'[x] \in Prompts /\ proc'[x] = p => x \in slots'[p]
    BY DEF TurnOk
  <1>7. turn'[p] \in {turn[p], NoRun} /\ finished \subseteq finished' /\ 0 \in {0, 1} /\ 1 \in {0, 1}
    OBVIOUS
  <1> QED
    BY <1>1, <1>2, <1>3, <1>4, <1>5, <1>6, <1>7, TurnFrame

\* The answer to a prompt is read.
LEMMA TurnAnswered ==
  ASSUME TypeOK, RunInv, NEW p \in Procs, TurnOk(p), Read(p), Head(stdout[p]).kind = "prompt"
  PROVE  TurnOk(p)'
  <1> DEFINE line == Head(stdout[p])
             r == line.run
  <1>1. /\ line \in Lines /\ line = stdout[p][1] /\ 1 \in DOMAIN stdout[p]
        /\ \A i \in DOMAIN stdout'[p] : i + 1 \in DOMAIN stdout[p] /\ stdout'[p][i] = stdout[p][i + 1]
                                        /\ i \in Nat /\ i # 0
    BY LinesRead
  <1>2. r \in Runs /\ line.ok \in BOOLEAN /\ "prompt" \in Requests
    BY <1>1 DEF Lines, Requests
  <1>3. /\ Prompting(p, r)
        /\ \A j \in DOMAIN stdout[p] : stdout[p][j].kind = "prompt" => 1 = j
        /\ ~line.ok => turn[p] = NoRun /\ \A j \in DOMAIN stdout[p] : stdout[p][j].kind \in Requests
    BY <1>1 DEF TurnOk, AnswerInv, IsAnswer, IsEvent
  <1>4. \A i \in DOMAIN stdin[p] : stdin[p][i][2] # "prompt"
    BY <1>1 DEF TurnOk, PromptInv, IsPrompt, IsAnswer
  <1>5. /\ UNCHANGED <<slots, proc, stdin, turn, finished>>
        /\ pc' = [pc EXCEPT ![r] = After("prompt", line.ok)]
    BY <1>2, <1>3 DEF Read, history, Prompting
  <1> HIDE DEF line, r
  <1>6. \A x \in Runs : pc'[x] = IF x = r THEN After("prompt", line.ok) ELSE pc[x]
    BY <1>5 DEF TypeOK
  <1>7. r \in slots[p] /\ pc[r] = "prompt" /\ proc[r] = p
    BY <1>3, RunParts DEF Prompting
  <1>8. \A x \in slots[p] : x = r
    BY <1>2, <1>7, RunParts, OneAtWork DEF Slotted
  <1>9. After("prompt", line.ok) = (IF line.ok THEN "reading" ELSE "failing")
    BY <1>2 DEF After
  <1>10. PromptInv(p)' /\ AnswerInv(p)'
    <2>1. \A i \in DOMAIN stdout'[p] : stdout'[p][i].kind # "prompt"
      <3> SUFFICES ASSUME NEW i \in DOMAIN stdout'[p], stdout'[p][i].kind = "prompt" PROVE FALSE
        OBVIOUS
      <3>1. 1 = i + 1 /\ i \in Nat /\ i # 0
        BY <1>1, <1>3
      <3> QED
        BY <3>1
    <2> QED
      BY <1>4, <1>5, <2>1 DEF PromptInv, AnswerInv, IsPrompt, IsAnswer
  <1>11. \A x : Accepted(p, x) => x = r
    BY <1>8 DEF Accepted
  <1>12. EventInv(p)'
    <2> SUFFICES ASSUME NEW i \in DOMAIN stdout'[p], stdout'[p][i].kind \notin Requests
                 PROVE  /\ stdout'[p][i].run \in slots'[p] /\ pc'[stdout'[p][i].run] = "reading"
                        /\ stdout'[p][i].kind # "message_error"
                        /\ stdout'[p][i].kind = "agent_settled" =>
                             /\ stdout'[p][i].run \in finished' /\ turn'[p] = NoRun
                             /\ \A j \in DOMAIN stdout'[p] : stdout'[p][j].kind \notin Requests => j <= i
      BY DEF EventInv, IsEvent, Accepted
    <2>1. i + 1 \in DOMAIN stdout[p] /\ stdout'[p][i] = stdout[p][i + 1]
      BY <1>1
    <2>2. /\ Accepted(p, stdout[p][i + 1].run)
          /\ stdout[p][i + 1].kind # "message_error"
          /\ stdout[p][i + 1].kind = "agent_settled" =>
               /\ stdout[p][i + 1].run \in finished /\ turn[p] = NoRun
               /\ \A j \in DOMAIN stdout[p] : stdout[p][j].kind \notin Requests => j <= i + 1
      BY <2>1 DEF TurnOk, EventInv, IsEvent
    <2>3. line.ok
      BY <1>3, <2>1
    <2>4. stdout'[p][i].run = r
      BY <1>11, <2>1, <2>2
    <2>5. stdout'[p][i].kind = "agent_settled" =>
            \A j \in DOMAIN stdout'[p] : stdout'[p][j].kind \notin Requests => j <= i
      <3> SUFFICES ASSUME stdout'[p][i].kind = "agent_settled",
                          NEW j \in DOMAIN stdout'[p], stdout'[p][j].kind \notin Requests
                   PROVE  j <= i
        OBVIOUS
      <3>1. j + 1 <= i + 1 /\ i \in Nat /\ j \in Nat
        BY <1>1, <2>1, <2>2
      <3> QED
        BY <3>1
    <2> QED
      BY <1>2, <1>5, <1>6, <1>7, <1>9, <2>1, <2>2, <2>3, <2>4, <2>5
  <1>13. turn'[p] # NoRun => turn'[p] \in slots'[p] /\ pc'[turn'[p]] = "reading"
    <2> SUFFICES ASSUME turn[p] # NoRun PROVE turn[p] \in slots[p] /\ pc'[turn[p]] = "reading"
      BY <1>5
    <2>1. Accepted(p, turn[p]) /\ line.ok
      BY <1>3 DEF TurnOk
    <2>2. turn[p] = r
      BY <1>11, <2>1
    <2> QED
      BY <1>2, <1>6, <1>7, <1>9, <2>1, <2>2
  <1>14. \A x \in Runs : pc'[x] \in Prompts /\ proc'[x] = p => x \in slots'[p]
    BY <1>5, <1>6, <1>9 DEF TurnOk, Prompts
  <1> QED
    BY <1>10, <1>12, <1>13, <1>14 DEF TurnOk, Accepted

\* A reply or a line of a turn is read.
LEMMA TurnRead ==
  ASSUME TypeOK, TypeOK', RunInv, TurnInv, NEW p \in Procs, Read(p)
  PROVE  TurnInv'
  <1> USE DEF history
  <1> DEFINE line == Head(stdout[p])
             kind == line.kind
             R == IF IsTerminal(EventOf(kind)) THEN slots[p] ELSE {}
  <1>1. line \in Lines /\ line = stdout[p][1] /\ 1 \in DOMAIN stdout[p]
        /\ \A q \in Procs : q # p => stdout'[q] = stdout[q]
    BY LinesRead
  <1>2. line.run \in Runs /\ kind \in Requests \cup Chatter \cup {"agent_settled"}
    BY <1>1 DEF Lines
  <1>3. UNCHANGED <<proc, stdin, turn, dead, finished, muddled>>
    BY DEF Read
  <1>4. CASE kind \in Requests
    <2>1. /\ pending' = [pending EXCEPT ![p] = @ \ {<<line.run, kind>>}] /\ UNCHANGED slots
          /\ pc' = IF <<line.run, kind>> \in pending[p] /\ kind # "abort"
                   THEN [pc EXCEPT ![line.run] = After(kind, line.ok)] ELSE pc
      BY <1>4 DEF Read
    <2> HIDE DEF line, kind
    <2>2. \A x \in Runs : \/ pc'[x] = pc[x]
                          \/ /\ x = line.run /\ kind # "abort" /\ proc[x] = p /\ pc[x] = kind
                             /\ pc'[x] = After(kind, line.ok)
      <3>1. CASE <<line.run, kind>> \in pending[p] /\ kind # "abort"
        <4>1. \A x \in Runs : pc'[x] = IF x = line.run THEN After(kind, line.ok) ELSE pc[x]
          BY <2>1, <3>1 DEF TypeOK
        <4> QED
          BY <1>2, <1>4, <3>1, <4>1, RunParts
      <3>2. CASE ~(<<line.run, kind>> \in pending[p] /\ kind # "abort")
        BY <2>1, <3>2
      <3> QED
        BY <3>1, <3>2
    <2>3. \A q \in Procs : q # p => \A x \in Runs : proc[x] = q => pc'[x] = pc[x]
      BY <2>2
    <2>4. \A q \in Procs : q # p => pending'[q] = pending[q] /\ slots'[q] = slots[q]
      BY <2>1 DEF TypeOK
    <2>5. TurnOk(p) => TurnOk(p)'
      <3>1. CASE kind = "prompt"
        BY <3>1, TurnAnswered DEF kind, line
      <3>2. CASE kind # "prompt"
        <4>1. \A x \in Runs : pc'[x] = pc[x] \/ (pc[x] \notin Slotted /\ pc'[x] \notin Prompts)
          <5>1. kind # "abort" => kind \notin Slotted /\ After(kind, line.ok) \notin Prompts
            BY <1>4, <3>2 DEF Requests, Slotted, After, Prompts
          <5> QED
            BY <2>2, <5>1
        <4>2. \A x \in slots[p] : <<x, "prompt">> \in pending[p] => <<x, "prompt">> \in pending'[p]
          BY <2>1, <3>2 DEF TypeOK
        <4> QED
          BY <1>3, <2>1, <3>2, <4>1, <4>2, TurnShifts DEF kind, line
      <3> QED
        BY <3>1, <3>2
    <2>6. p \notin muddled' /\ ~dead'[p] => TurnOk(p)'
      BY <1>3, <2>5 DEF TurnInv, Sound
    <2>7. stdin' \in [Procs -> Seq(Runs \X Requests)] /\ muddled \subseteq muddled' /\ finished \subseteq finished'
      BY <1>3 DEF TypeOK
    <2> QED
      BY <1>1, <1>3, <2>3, <2>4, <2>6, <2>7, TurnAt
  <1>5. CASE kind \notin Requests
    <2>1. CloseSlots(p, R) /\ UNCHANGED <<pending, pc>>
      BY <1>5 DEF Read
    <2>2. slots' = [slots EXCEPT ![p] = @ \ R]
      BY <2>1 DEF CloseSlots
    <2>3. \A q \in Procs : q # p => slots'[q] = slots[q]
      BY <2>2 DEF TypeOK
    <2>4. TurnOk(p) => TurnOk(p)'
      <3> SUFFICES ASSUME TurnOk(p) PROVE TurnOk(p)'
        OBVIOUS
      <3>1. CASE ~IsTerminal(EventOf(kind))
        <4>1. UNCHANGED slots
          BY <2>2, <3>1 DEF TypeOK
        <4>2. Head(stdout[p]).kind # "prompt"
          BY <1>5 DEF Requests
        <4> HIDE DEF line, kind, R
        <4> QED
          BY <1>3, <2>1, <4>1, <4>2, TurnShifts
      <3>2. CASE IsTerminal(EventOf(kind))
        <4>1. kind \in {"agent_settled", "agent_end", "message_error"}
          BY <3>2, EventOfKind
        <4>2. slots'[p] = {}
          BY <2>2, <3>2 DEF TypeOK
        <4> HIDE DEF line, kind, R
        <4>3. stdout[p][1].kind \notin Requests /\ stdout[p][1].kind = kind
          BY <1>1, <1>5 DEF kind
        <4>4. kind = "agent_settled"
          <5>1. kind # "message_error"
            BY <1>1, <4>3 DEF TurnOk, EventInv, IsEvent
          <5> QED
            BY <1>2, <1>5, <4>1, <5>1, SessionAssumption
        <4>5. /\ Accepted(p, stdout[p][1].run) /\ turn[p] = NoRun
              /\ \A j \in DOMAIN stdout[p] : stdout[p][j].kind \notin Requests => j <= 1
          BY <1>1, <4>3, <4>4 DEF TurnOk, EventInv, IsEvent
        <4>6. \A j \in DOMAIN stdout[p] : stdout[p][j].kind = "prompt" => j < 1
          BY <1>1, <4>3 DEF TurnOk, AnswerInv, IsAnswer, IsEvent
        <4>7. \A j \in DOMAIN stdout[p] : stdout[p][j].kind # "prompt"
          <5>1. DOMAIN stdout[p] \subseteq Nat \ {0}
            BY LinesRead
          <5> QED
            BY <4>6, <5>1
        <4>8. \A j \in DOMAIN stdout'[p] : stdout'[p][j].kind # "prompt" /\ stdout'[p][j].kind \in Requests
          <5> SUFFICES ASSUME NEW j \in DOMAIN stdout'[p]
                       PROVE  stdout'[p][j].kind # "prompt" /\ stdout'[p][j].kind \in Requests
            OBVIOUS
          <5>1. j + 1 \in DOMAIN stdout[p] /\ stdout'[p][j] = stdout[p][j + 1] /\ j \in Nat /\ j # 0
            BY LinesRead
          <5>2. ~(j + 1 <= 1)
            BY <5>1
          <5> QED
            BY <4>5, <4>7, <5>1, <5>2
        <4>9. \A i \in DOMAIN stdin[p] : stdin[p][i][2] # "prompt"
          BY <1>1, <4>3 DEF TurnOk, PromptInv, IsPrompt, IsEvent
        <4>10. PromptInv(p)' /\ AnswerInv(p)' /\ EventInv(p)'
          BY <1>3, <4>8, <4>9 DEF PromptInv, AnswerInv, EventInv, IsPrompt, IsAnswer, IsEvent
        <4>11. \A x \in Runs : pc[x] \in Prompts /\ proc[x] = p => FALSE
          <5> SUFFICES ASSUME NEW x \in Runs, pc[x] \in Prompts, proc[x] = p PROVE FALSE
            OBVIOUS
          <5> DEFINE y == stdout[p][1].run
          <5>1. y \in slots[p] /\ pc[y] = "reading"
            BY <4>5, <4>7 DEF Accepted, Answered, IsAnswer
          <5>2. y \in Runs
            BY <5>1, RunParts
          <5> HIDE DEF y
          <5>3. x = y
            BY <5>1, <5>2, OneAtWork DEF Prompts
          <5> QED
            BY <5>1, <5>3 DEF Prompts
        <4> QED
          BY <1>3, <2>1, <4>5, <4>10, <4>11 DEF TurnOk
      <3> QED
        BY <3>1, <3>2
    <2>5. p \notin muddled' /\ ~dead'[p] => TurnOk(p)'
      BY <1>3, <2>4 DEF TurnInv, Sound
    <2>6. stdin' \in [Procs -> Seq(Runs \X Requests)] /\ muddled \subseteq muddled' /\ finished \subseteq finished'
      BY <1>3 DEF TypeOK
    <2> QED
      BY <1>1, <1>3, <2>1, <2>3, <2>5, <2>6, TurnAt
  <1> QED
    BY <1>4, <1>5

\* Every step keeps TurnInv.
LEMMA TurnStep ==
  ASSUME TypeOK, TypeOK', RunInv, TurnInv, [Next]_vars
  PROVE  TurnInv'
  <1>1. CASE Reset \/ UNCHANGED vars \/ \E p \in Procs : Die(p)
    BY <1>1, TurnReset
  <1>2. ASSUME NEW p \in Procs, Handle(p) PROVE TurnInv'
    BY <1>2, TurnHandle
  <1>3. ASSUME NEW p \in Procs, Settle(p) \/ \E kind \in Chatter : Chat(p, kind) PROVE TurnInv'
    BY <1>3, TurnChat
  <1>4. ASSUME NEW p \in Procs, Read(p) PROVE TurnInv'
    BY <1>4, TurnRead
  <1>5. ASSUME NEW p \in Procs, Wait(p) PROVE TurnInv'
    BY <1>5, TurnWait
  <1>6. ASSUME NEW r \in Runs, Begin(r) \/ BeginFails(r) \/ Starting(r) \/ Written(r) PROVE TurnInv'
    BY <1>6, TurnStart, TurnPrompt DEF Starting
  <1>7. ASSUME NEW r \in Runs, Loop(r) \/ \E q \in Requests : Timeout(r, q) PROVE TurnInv'
    BY <1>7, TurnLoop
  <1>8. ASSUME NEW r \in Runs, Stop(r) \/ Escalate(r) \/ AbortFails(r) PROVE TurnInv'
    BY <1>8, TurnStop
  <1> QED
    BY <1>1, <1>2, <1>3, <1>4, <1>5, <1>6, <1>7, <1>8 DEF Next

------------------------------------------------------------------------------
\* What the channels and the cards say.
\* ChanInv stays when a done only comes from a finished turn, and what closes a channel
\* has put an end into it.
LEMMA ChanFrame ==
  ASSUME TypeOK, ProcInv, RunInv, ChanInv, proc' = proc,
         finished \subseteq finished', muddled \subseteq muddled', \A p \in Procs : dead[p] => dead'[p],
         \A x \in Runs : \/ pc'[x] = pc[x] \/ pc[x] \notin Falling
                         \/ pc[x] \in Falling \ {"refused"} /\ pc'[x] \in Falling
                         \/ <<x, "prompt">> \in pending[proc[x]] /\ proc[x] \in Procs,
         \A x \in Runs : dropped[x] => dropped'[x],
         \A x \in Runs :
           SaysEvent(chan'[x], "done") \/ card'[x] = "done" =>
             \/ SaysEvent(chan[x], "done") \/ card[x] = "done"
             \/ x \in finished \/ proc[x] \in muddled \/ dropped'[x]
             \/ proc[x] # 0 /\ dead[proc[x]] /\ pc[x] \in Falling,
         \A x \in Runs :
           \/ chan'[x] = chan[x] /\ card'[x] = card[x] /\ closed'[x] = closed[x]
           \/ closed'[x] /\ pc'[x] # "refused" => IsTerminal(chan'[x]) \/ card'[x] # "running" \/ dropped'[x]
  PROVE  ChanInv'
  <1> SUFFICES ASSUME NEW x \in Runs
               PROVE  /\ SaysEvent(chan'[x], "done") \/ card'[x] = "done" =>
                           \/ x \in finished' \/ proc'[x] \in muddled' \/ dropped'[x]
                           \/ proc'[x] # 0 /\ dead'[proc'[x]] /\ pc'[x] \in Falling
                      /\ closed'[x] /\ pc'[x] # "refused" =>
                           IsTerminal(chan'[x]) \/ card'[x] # "running" \/ dropped'[x]
    BY DEF ChanInv, SaysEvent, IsTerminal
  <1>1. proc[x] \in Procs \cup {0} /\ proc'[x] = proc[x]
    BY Parts
  <1>2. proc[x] # 0 /\ dead[proc[x]] /\ pc[x] \in Falling =>
          dead'[proc[x]] /\ pc'[x] \in Falling
    <2> SUFFICES ASSUME proc[x] # 0, dead[proc[x]], pc[x] \in Falling
                 PROVE  dead'[proc[x]] /\ pc'[x] \in Falling
      OBVIOUS
    <2>1. proc[x] \in Procs /\ pending[proc[x]] = {}
      BY <1>1 DEF ProcInv
    <2> QED
      BY <2>1 DEF Falling
  <1>3. pc[x] = "refused" => pc'[x] = "refused"
    <2> SUFFICES ASSUME pc[x] = "refused" PROVE ~(<<x, "prompt">> \in pending[proc[x]] /\ proc[x] \in Procs)
      BY DEF Falling
    <2> QED
      BY RunParts DEF Requests
  <1>4. SaysEvent(chan'[x], "done") \/ card'[x] = "done" =>
          \/ x \in finished' \/ proc'[x] \in muddled' \/ dropped'[x]
          \/ proc'[x] # 0 /\ dead'[proc'[x]] /\ pc'[x] \in Falling
    <2> SUFFICES ASSUME SaysEvent(chan'[x], "done") \/ card'[x] = "done"
                 PROVE  \/ x \in finished \/ proc[x] \in muddled \/ dropped'[x]
                        \/ proc[x] # 0 /\ dead[proc[x]] /\ pc[x] \in Falling
      BY <1>1, <1>2
    <2>1. SaysEvent(chan[x], "done") \/ card[x] = "done" =>
            \/ x \in finished \/ proc[x] \in muddled \/ dropped[x]
            \/ proc[x] # 0 /\ dead[proc[x]] /\ pc[x] \in Falling
      BY DEF ChanInv, Falling
    <2> QED
      BY <2>1
  <1>5. closed'[x] /\ pc'[x] # "refused" =>
          IsTerminal(chan'[x]) \/ card'[x] # "running" \/ dropped'[x]
    <2>1. CASE chan'[x] = chan[x] /\ card'[x] = card[x] /\ closed'[x] = closed[x]
      <3>1. closed[x] /\ pc[x] # "refused" => IsTerminal(chan[x]) \/ card[x] # "running" \/ dropped[x]
        BY DEF ChanInv
      <3> QED
        BY <1>3, <2>1, <3>1
    <2>2. CASE ~(chan'[x] = chan[x] /\ card'[x] = card[x] /\ closed'[x] = closed[x])
      BY <2>2
    <2> QED
      BY <2>1, <2>2
  <1> QED
    BY <1>4, <1>5

\* No event comes or goes.
LEMMA ChanSame ==
  ASSUME TypeOK, ProcInv, RunInv, ChanInv, UNCHANGED <<proc, chan, card, closed, dropped>>,
         finished \subseteq finished', muddled \subseteq muddled', UNCHANGED dead,
         \A x \in Runs : \/ pc'[x] = pc[x] \/ pc[x] \notin Falling
                         \/ pc[x] \in Falling \ {"refused"} /\ pc'[x] \in Falling
                         \/ <<x, "prompt">> \in pending[proc[x]] /\ proc[x] \in Procs
  PROVE  ChanInv'
  <1>1. /\ \A x \in Runs : chan'[x] = chan[x] /\ card'[x] = card[x] /\ closed'[x] = closed[x]
        /\ \A x \in Runs : dropped[x] => dropped'[x]
        /\ \A p \in Procs : dead[p] => dead'[p]
    OBVIOUS
  <1>2. \A x \in Runs :
           SaysEvent(chan'[x], "done") \/ card'[x] = "done" =>
             \/ SaysEvent(chan[x], "done") \/ card[x] = "done"
             \/ x \in finished \/ proc[x] \in muddled \/ dropped'[x]
             \/ proc[x] # 0 /\ dead[proc[x]] /\ pc[x] \in Falling
    BY <1>1
  <1> QED
    BY <1>1, <1>2, ChanFrame

\* The channel of a run that begins is new.
LEMMA ChanBegin ==
  ASSUME TypeOK, RunInv, RunInv', ChanInv, NEW r \in Runs, Begin(r)
  PROVE  ChanInv'
  <1>1. UNCHANGED <<chan, card, closed, dropped, dead, finished, muddled>> /\ Goto(r, "state")
    BY DEF Begin, slotVars, history
  <1>2. PICK p \in Procs : proc' = [proc EXCEPT ![r] = p]
    BY DEF Begin
  <1>3. \A x \in Runs : x # r => pc'[x] = pc[x] /\ proc'[x] = proc[x]
    BY <1>1, <1>2 DEF Goto, TypeOK
  <1>4. chan'[r] = << >> /\ ~closed'[r] /\ card'[r] = "running"
    <2>1. pc'[r] = "state"
      BY <1>1 DEF Goto, TypeOK
    <2> QED
      BY <2>1 DEF RunInv
  <1> SUFFICES ASSUME NEW x \in Runs
               PROVE  /\ SaysEvent(chan'[x], "done") \/ card'[x] = "done" =>
                           \/ x \in finished' \/ proc'[x] \in muddled' \/ dropped'[x]
                           \/ proc'[x] # 0 /\ dead'[proc'[x]] /\ pc'[x] \in Falling
                      /\ closed'[x] /\ pc'[x] # "refused" =>
                           IsTerminal(chan'[x]) \/ card'[x] # "running" \/ dropped'[x]
    BY DEF ChanInv, SaysEvent, IsTerminal
  <1>5. CASE x = r
    BY <1>4, <1>5 DEF SaysEvent
  <1>6. CASE x # r
    <2>1. /\ chan'[x] = chan[x] /\ card'[x] = card[x] /\ closed'[x] = closed[x] /\ dropped'[x] = dropped[x]
          /\ pc'[x] = pc[x] /\ proc'[x] = proc[x] /\ dead' = dead /\ finished' = finished /\ muddled' = muddled
      BY <1>1, <1>3, <1>6
    <2>2. /\ SaysEvent(chan[x], "done") \/ card[x] = "done" =>
               \/ x \in finished \/ proc[x] \in muddled \/ dropped[x]
               \/ proc[x] # 0 /\ dead[proc[x]] /\ pc[x] \in Falling
          /\ closed[x] /\ pc[x] # "refused" => IsTerminal(chan[x]) \/ card[x] # "running" \/ dropped[x]
      BY DEF ChanInv
    <2> QED
      BY <2>1, <2>2
  <1> QED
    BY <1>5, <1>6

\* startRun says no done of its own.
LEMMA ChanStart ==
  ASSUME TypeOK, ProcInv, RunInv, ChanInv, NEW r \in Runs, BeginFails(r) \/ Starting(r) \/ Written(r)
  PROVE  ChanInv'
  <1> USE DEF procVars, slotVars, history
  <1>1. CASE BeginFails(r) \/ SkipState(r)
    <2>1. UNCHANGED <<proc, chan, card, closed, dropped, finished, muddled, dead>> /\ pc[r] \in {"idle", "state"}
          /\ \E l : Goto(r, l)
      BY <1>1 DEF BeginFails, SkipState, At
    <2>2. \A x \in Runs : pc'[x] = pc[x] \/ pc[x] \notin Falling
      BY <2>1 DEF Goto, TypeOK, Falling, Prompts
    <2> QED
      BY <2>1, <2>2, ChanSame
  <1>2. ASSUME NEW q \in Requests \ {"abort"}, Send(r, q) PROVE ChanInv'
    <2>1. UNCHANGED <<proc, chan, card, closed, dropped, finished, muddled, dead>> /\ pc[r] = q
          /\ (UNCHANGED pc \/ Goto(r, After(q, FALSE)))
      BY <1>2 DEF Send, At
    <2>2. q = "prompt" => After(q, FALSE) = "failing"
      BY DEF After
    <2>3. q # "prompt" => q \notin Falling
      BY DEF Falling, Prompts, Requests
    <2>4. \A x \in Runs : \/ pc'[x] = pc[x] \/ pc[x] \notin Falling
                          \/ pc[x] \in Falling \ {"refused"} /\ pc'[x] \in Falling
      <3>1. CASE UNCHANGED pc
        BY <3>1
      <3>2. CASE Goto(r, After(q, FALSE))
        <4>1. \A x \in Runs : pc'[x] = IF x = r THEN After(q, FALSE) ELSE pc[x]
          BY <3>2 DEF Goto, TypeOK
        <4> QED
          BY <2>1, <2>2, <2>3, <4>1 DEF Falling, Prompts
      <3> QED
        BY <2>1, <3>1, <3>2
    <2> QED
      BY <2>1, <2>4, ChanSame
  <1>3. CASE GetState(r) \/ EnsureModel(r) \/ Prompt(r)
    BY <1>2, <1>3 DEF GetState, EnsureModel, Prompt, Requests
  <1>4. CASE MakeSlot(r)
    <2>1. /\ pc[r] = (IF r \in Picks THEN "slot" ELSE "model") /\ Goto(r, "prompt")
          /\ chan' = [chan EXCEPT ![r] = <<"system">>]
          /\ UNCHANGED <<proc, card, closed, dropped, finished, muddled, dead>>
      BY <1>4 DEF MakeSlot, At
    <2>2. ~closed[r] /\ card[r] = "running"
      BY <2>1 DEF RunInv
    <2>3. \A x \in Runs : /\ x # r => chan'[x] = chan[x] /\ pc'[x] = pc[x]
                          /\ x = r => chan'[x] = <<"system">> /\ pc'[x] = "prompt"
      BY <2>1 DEF TypeOK, Goto
    <2>4. \A x \in Runs : pc'[x] = pc[x] \/ pc[x] \notin Falling
      BY <2>1, <2>3 DEF Falling, Prompts
    <2>5. ~SaysEvent(<<"system">>, "done")
      BY DEF SaysEvent
    <2>6. \A x \in Runs :
            SaysEvent(chan'[x], "done") \/ card'[x] = "done" => SaysEvent(chan[x], "done") \/ card[x] = "done"
      BY <2>1, <2>3, <2>5
    <2>7. \A x \in Runs :
            \/ chan'[x] = chan[x] /\ card'[x] = card[x] /\ closed'[x] = closed[x]
            \/ ~closed'[x]
      BY <2>1, <2>2, <2>3
    <2>8. /\ \A x \in Runs : dropped[x] => dropped'[x]
          /\ \A p \in Procs : dead[p] => dead'[p]
          /\ finished \subseteq finished' /\ muddled \subseteq muddled' /\ proc' = proc
      BY <2>1
    <2> QED
      BY <2>4, <2>6, <2>7, <2>8, ChanFrame
  <1>5. CASE Fail(r)
    <2>1. pc[r] = "failing" /\ Goto(r, "refused")
          /\ UNCHANGED <<proc, chan, card, dropped, finished, muddled, dead>>
      BY <1>5 DEF Fail, At
    <2>2. \A x \in Runs : pc'[x] = IF x = r THEN "refused" ELSE pc[x]
      BY <2>1 DEF Goto, TypeOK
    <2>3. \A x \in Runs : x # r => closed'[x] = closed[x]
      <3>1. UNCHANGED closed \/ closed' = [x \in Runs |-> closed[x] \/ x \in {r}]
        BY <1>5 DEF Fail, CloseSlots
      <3>2. CASE UNCHANGED closed
        BY <3>2
      <3>3. CASE closed' = [x \in Runs |-> closed[x] \/ x \in {r}]
        <4> SUFFICES ASSUME NEW x \in Runs, x # r PROVE closed'[x] = closed[x]
          OBVIOUS
        <4>1. closed[x] \in BOOLEAN
          BY DEF TypeOK
        <4> QED
          BY <3>3, <4>1
      <3> QED
        BY <3>1, <3>2, <3>3
    <2>4. \A x \in Runs : \/ pc'[x] = pc[x]
                          \/ pc[x] \in Falling \ {"refused"} /\ pc'[x] \in Falling
      BY <2>1, <2>2 DEF Falling
    <2>5. \A x \in Runs :
            \/ chan'[x] = chan[x] /\ card'[x] = card[x] /\ closed'[x] = closed[x]
            \/ pc'[x] = "refused"
      BY <2>1, <2>2, <2>3
    <2>6. /\ \A x \in Runs : dropped[x] => dropped'[x]
          /\ \A p \in Procs : dead[p] => dead'[p]
          /\ finished \subseteq finished' /\ muddled \subseteq muddled' /\ proc' = proc
          /\ \A x \in Runs : chan'[x] = chan[x] /\ card'[x] = card[x]
      BY <2>1
    <2>7. \A x \in Runs :
            SaysEvent(chan'[x], "done") \/ card'[x] = "done" => SaysEvent(chan[x], "done") \/ card[x] = "done"
      BY <2>6
    <2> QED
      BY <2>4, <2>5, <2>6, <2>7, ChanFrame
  <1>6. CASE Block(r) \/ WriteFails(r) \/ Written(r)
    <2>1. /\ UNCHANGED <<proc, chan, card, closed, dropped, finished, muddled, dead>>
          /\ pc[r] \in Prompts
          /\ \E l \in Falling : Goto(r, l)
      BY <1>6 DEF Block, WriteFails, Written, At, After, Falling, Prompts
    <2>2. \A x \in Runs : pc'[x] = pc[x] \/ (pc[x] \in Falling \ {"refused"} /\ pc'[x] \in Falling)
      BY <2>1 DEF Goto, TypeOK, Falling, Prompts
    <2> QED
      BY <2>1, <2>2, ChanSame
  <1> QED
    BY <1>1, <1>3, <1>4, <1>5, <1>6 DEF Starting

\* A channel that is read, and one that ends.
LEMMA ChanLoop ==
  ASSUME TypeOK, ProcInv, RunInv, ChanInv, NEW r \in Runs,
         Loop(r) \/ \E q \in Requests : Timeout(r, q)
  PROVE  ChanInv'
  <1> USE DEF procVars, slotVars, history
  <1>1. CASE Receive(r)
    <2>1. /\ chan[r] # << >> /\ chan' = [chan EXCEPT ![r] = Tail(@)]
          /\ card' = [card EXCEPT ![r] = IF Head(chan[r]) \in Terminals THEN Head(chan[r]) ELSE @]
          /\ UNCHANGED <<proc, pc, closed, dropped, finished, muddled, dead>>
      BY <1>1 DEF Receive
    <2>2. \A x \in Runs :
            /\ x # r => chan'[x] = chan[x] /\ card'[x] = card[x]
            /\ x = r => /\ chan'[x] = Tail(chan[x])
                        /\ card'[x] = IF Head(chan[x]) \in Terminals THEN Head(chan[x]) ELSE card[x]
      BY <2>1 DEF TypeOK
    <2>3. /\ Head(chan[r]) = chan[r][1] /\ 1 \in DOMAIN chan[r]
          /\ \A i \in DOMAIN Tail(chan[r]) : i + 1 \in DOMAIN chan[r] /\ Tail(chan[r])[i] = chan[r][i + 1]
          /\ \A i \in DOMAIN chan[r] : i # 1 => i - 1 \in DOMAIN Tail(chan[r])
          /\ \A i \in DOMAIN chan[r] : i # 1 => Tail(chan[r])[i - 1] = chan[r][i]
      <3>1. chan[r] \in Seq(Events) /\ DOMAIN chan[r] \subseteq Nat
        BY Parts
      <3>2. /\ Head(chan[r]) = chan[r][1] /\ 1 \in DOMAIN chan[r]
            /\ \A i \in DOMAIN Tail(chan[r]) : i + 1 \in DOMAIN chan[r] /\ Tail(chan[r])[i] = chan[r][i + 1]
            /\ \A i \in DOMAIN chan[r] : i # 1 => i - 1 \in DOMAIN Tail(chan[r])
        BY <2>1, <3>1, Shortened
      <3>3. \A i \in DOMAIN chan[r] : (i - 1) + 1 = i
        BY <3>1
      <3> QED
        BY <3>2, <3>3
    <2>4. SaysEvent(Tail(chan[r]), "done") => SaysEvent(chan[r], "done")
      BY <2>3 DEF SaysEvent
    <2>5. Head(chan[r]) = "done" => SaysEvent(chan[r], "done")
      BY <2>3 DEF SaysEvent
    <2>6. IsTerminal(chan[r]) => IsTerminal(Tail(chan[r])) \/ Head(chan[r]) \in Terminals
      BY <2>3 DEF IsTerminal
    <2>7. \A x \in Runs :
            SaysEvent(chan'[x], "done") \/ card'[x] = "done" => SaysEvent(chan[x], "done") \/ card[x] = "done"
      BY <2>2, <2>4, <2>5
    <2>8. \A x \in Runs :
            \/ chan'[x] = chan[x] /\ card'[x] = card[x] /\ closed'[x] = closed[x]
            \/ closed'[x] /\ pc'[x] # "refused" => IsTerminal(chan'[x]) \/ card'[x] # "running" \/ dropped'[x]
      <3>1. closed[r] /\ pc[r] # "refused" => IsTerminal(chan[r]) \/ card[r] # "running" \/ dropped[r]
        BY DEF ChanInv
      <3>2. Head(chan[r]) \in Terminals => Head(chan[r]) # "running"
        BY DEF Terminals
      <3>3. closed[r] /\ pc[r] # "refused" => IsTerminal(chan'[r]) \/ card'[r] # "running" \/ dropped[r]
        BY <2>2, <2>6, <3>1, <3>2
      <3> QED
        BY <2>1, <2>2, <3>3
    <2>9. /\ \A x \in Runs : dropped[x] => dropped'[x]
          /\ \A p \in Procs : dead[p] => dead'[p]
          /\ finished \subseteq finished' /\ muddled \subseteq muddled' /\ proc' = proc
          /\ \A x \in Runs : pc'[x] = pc[x]
      BY <2>1
    <2> QED
      BY <2>7, <2>8, <2>9, ChanFrame
  <1>2. CASE SeesClose(r)
    <2>1. /\ pc[r] = "reading" /\ closed[r] /\ chan[r] = << >> /\ Goto(r, "over")
          /\ card' = [card EXCEPT ![r] = IF @ # "running" THEN @
                                           ELSE IF timer[r] = "no" THEN "done" ELSE "interrupted"]
          /\ UNCHANGED <<proc, chan, closed, dropped, finished, muddled, dead>>
      BY <1>2 DEF SeesClose, At
    <2>2. \A x \in Runs : /\ pc'[x] = IF x = r THEN "over" ELSE pc[x]
                          /\ card'[x] = IF x # r \/ card[r] # "running" THEN card[x]
                                         ELSE IF timer[r] = "no" THEN "done" ELSE "interrupted"
      BY <2>1 DEF Goto, TypeOK
    <2>3. card[r] = "running" => dropped[r]
      BY <2>1 DEF ChanInv, IsTerminal
    <2>4. \A x \in Runs : pc'[x] = pc[x] \/ pc[x] \notin Falling
      BY <2>1, <2>2 DEF Falling, Prompts
    <2>5. /\ \A x \in Runs : dropped[x] => dropped'[x]
          /\ \A p \in Procs : dead[p] => dead'[p]
          /\ finished \subseteq finished' /\ muddled \subseteq muddled' /\ proc' = proc
          /\ \A x \in Runs : chan'[x] = chan[x] /\ closed'[x] = closed[x]
      BY <2>1
    <2>6. \A x \in Runs :
            SaysEvent(chan'[x], "done") \/ card'[x] = "done" =>
              SaysEvent(chan[x], "done") \/ card[x] = "done" \/ dropped'[x]
      BY <2>2, <2>3, <2>5
    <2>7. \A x \in Runs :
            \/ chan'[x] = chan[x] /\ card'[x] = card[x] /\ closed'[x] = closed[x]
            \/ card'[x] # "running"
      BY <2>2, <2>5
    <2> QED
      BY <2>4, <2>5, <2>6, <2>7, ChanFrame
  <1>3. ASSUME NEW q \in Requests, Timeout(r, q) PROVE ChanInv'
    <2>1. /\ pc[r] = q /\ q # "abort" /\ Goto(r, After(q, FALSE))
          /\ muddled' = (IF q = "prompt" THEN muddled \cup {proc[r]} ELSE muddled)
          /\ UNCHANGED <<proc, chan, card, closed, dropped, finished, dead>>
      BY <1>3 DEF Timeout, At
    <2>2. \A x \in Runs : pc'[x] = IF x = r THEN After(q, FALSE) ELSE pc[x]
      BY <2>1 DEF Goto, TypeOK
    <2>3. q = "prompt" => After(q, FALSE) = "failing"
      BY DEF After
    <2>4. q # "prompt" => q \notin Falling
      BY <2>1 DEF Falling, Prompts, Requests
    <2>5. \A x \in Runs : \/ pc'[x] = pc[x] \/ pc[x] \notin Falling
                          \/ pc[x] \in Falling \ {"refused"} /\ pc'[x] \in Falling
      BY <2>1, <2>2, <2>3, <2>4 DEF Falling, Prompts
    <2>6. muddled \subseteq muddled' /\ finished \subseteq finished'
      BY <2>1
    <2> QED
      BY <2>1, <2>5, <2>6, ChanSame
  <1> QED
    BY <1>1, <1>2, <1>3 DEF Loop

------------------------------------------------------------------------------
\* Events are sent to the runs of slots, and closed when one ends the turn.
LEMMA JoinedEvents ==
  ASSUME NEW s \in Seq(Events), NEW t \in Seq(Events)
  PROVE  /\ IsTerminal(s) \/ IsTerminal(t) => IsTerminal(s \o t)
         /\ SaysEvent(s \o t, "done") => SaysEvent(s, "done") \/ SaysEvent(t, "done")
  <1>1. /\ \A i \in DOMAIN (s \o t) :
             \/ i \in DOMAIN s /\ (s \o t)[i] = s[i]
             \/ i - Len(s) \in DOMAIN t /\ (s \o t)[i] = t[i - Len(s)]
        /\ \A i \in DOMAIN s : i \in DOMAIN (s \o t) /\ (s \o t)[i] = s[i]
        /\ \A i \in DOMAIN t : Len(s) + i \in DOMAIN (s \o t) /\ (s \o t)[Len(s) + i] = t[i]
    BY Joined
  <1> QED
    BY <1>1, Zenon DEF IsTerminal, SaysEvent

\* An event that finds room is in the channel; what was there stays.
LEMMA SentEvents ==
  ASSUME TypeOK, NEW R, NEW events \in Seq(Events), SafeSend(R, events), NEW x \in Runs
  PROVE  /\ dropped[x] => dropped'[x]
         /\ IsTerminal(chan[x]) => IsTerminal(chan'[x])
         /\ x \notin R => chan'[x] = chan[x]
         /\ x \in R /\ ~dropped'[x] /\ IsTerminal(events) => IsTerminal(chan'[x])
         /\ SaysEvent(chan'[x], "done") => SaysEvent(chan[x], "done") \/ (x \in R /\ SaysEvent(events, "done"))
  <1>1. /\ chan'[x] = IF x \in R /\ Room(x, events) THEN chan[x] \o events ELSE chan[x]
        /\ dropped'[x] = (dropped[x] \/ (x \in R /\ ~Room(x, events)))
    BY DEF SafeSend
  <1>2. chan[x] \in Seq(Events)
    BY Parts
  <1> DEFINE both == chan[x] \o events
  <1>3. /\ IsTerminal(chan[x]) \/ IsTerminal(events) => IsTerminal(both)
        /\ SaysEvent(both, "done") => SaysEvent(chan[x], "done") \/ SaysEvent(events, "done")
    BY <1>2, JoinedEvents
  <1>4. chan'[x] = IF x \in R /\ Room(x, events) THEN both ELSE chan[x]
    BY <1>1
  <1> HIDE DEF both
  <1> QED
    BY <1>1, <1>3, <1>4

\* A reply puts nothing into a channel.
LEMMA ChanReply ==
  ASSUME TypeOK, ProcInv, RunInv, ChanInv, NEW p \in Procs, Read(p), Head(stdout[p]).kind \in Requests
  PROVE  ChanInv'
  <1> DEFINE line == Head(stdout[p])
             kind == line.kind
  <1>1. line \in Lines
    BY LinesRead
  <1>2. line.run \in Runs
    BY <1>1 DEF Lines
  <1>3. /\ pc' = IF <<line.run, kind>> \in pending[p] /\ kind # "abort"
                 THEN [pc EXCEPT ![line.run] = After(kind, line.ok)] ELSE pc
        /\ UNCHANGED <<proc, chan, card, closed, dropped, finished, muddled, dead>>
    BY DEF Read, history
  <1>4. kind \in Requests
    OBVIOUS
  <1> HIDE DEF line, kind
  <1>5. \A x \in Runs : \/ pc'[x] = pc[x] \/ pc[x] \notin Falling
                        \/ <<x, "prompt">> \in pending[proc[x]] /\ proc[x] \in Procs
    <2>1. CASE <<line.run, kind>> \in pending[p] /\ kind # "abort"
      <3>1. \A x \in Runs : pc'[x] = IF x = line.run THEN After(kind, line.ok) ELSE pc[x]
        BY <1>3, <2>1 DEF TypeOK
      <3>2. pc[line.run] = kind /\ proc[line.run] = p
        BY <1>2, <1>4, <2>1, RunParts
      <3>3. kind = "prompt" \/ kind \notin Falling
        BY <1>4 DEF Requests, Falling, Prompts
      <3> QED
        BY <2>1, <3>1, <3>2, <3>3
    <2>2. CASE ~(<<line.run, kind>> \in pending[p] /\ kind # "abort")
      BY <1>3, <2>2
    <2> QED
      BY <2>1, <2>2
  <1>6. finished \subseteq finished' /\ muddled \subseteq muddled'
    BY <1>3
  <1> QED
    BY <1>3, <1>5, <1>6, ChanSame

\* An end of a turn is put into the channel of the run that owns the turn.
LEMMA ChanEvent ==
  ASSUME TypeOK, ProcInv, RunInv, TurnInv, ChanInv, NEW p \in Procs, Read(p),
         Head(stdout[p]).kind \notin Requests
  PROVE  ChanInv'
  <1> DEFINE line == Head(stdout[p])
             kind == line.kind
             events == EventOf(kind)
             R == IF IsTerminal(events) THEN slots[p] ELSE {}
  <1>1. SafeSend(slots[p], events) /\ CloseSlots(p, R)
        /\ UNCHANGED <<pc, proc, card, finished, muddled, dead>>
    BY DEF Read, history
  <1>2. line \in Lines /\ line = stdout[p][1] /\ 1 \in DOMAIN stdout[p] /\ kind \notin Requests
    BY LinesRead
  <1>3. kind \in Requests \cup Chatter \cup {"agent_settled"}
    BY <1>2 DEF Lines
  <1>4. R \subseteq slots[p] /\ (R # {} => IsTerminal(events))
    OBVIOUS
  <1>5. /\ events \in Seq(Events)
        /\ SaysEvent(events, "done") => kind = "agent_settled"
    BY <1>2, <1>3, EventOfKind, SessionAssumption
  <1>6. SaysEvent(events, "done") => \A x \in slots[p] :
          x \in finished \/ proc[x] \in muddled \/ (proc[x] # 0 /\ dead[proc[x]] /\ pc[x] \in Falling)
    <2> SUFFICES ASSUME SaysEvent(events, "done"), NEW x \in slots[p]
                 PROVE  x \in finished \/ proc[x] \in muddled
                        \/ (proc[x] # 0 /\ dead[proc[x]] /\ pc[x] \in Falling)
      OBVIOUS
    <2>1. x \in Runs /\ proc[x] = p /\ pc[x] \in Slotted /\ p # 0
      BY RunParts, Parts
    <2>2. CASE dead[p]
      BY <2>1, <2>2 DEF RunInv, Slotted, Falling, Prompts
    <2>3. CASE p \notin muddled /\ ~dead[p]
      <3>1. TurnOk(p)
        BY <2>3 DEF TurnInv, Sound
      <3>2. Accepted(p, line.run) /\ line.run \in finished
        BY <1>2, <1>5, <3>1 DEF TurnOk, EventInv, IsEvent
      <3>3. line.run \in slots[p]
        BY <3>2 DEF Accepted
      <3>4. line.run \in Runs /\ pc[line.run] \in Slotted
        BY <3>3, RunParts
      <3> HIDE DEF line
      <3>5. x = line.run
        BY <2>1, <3>4, OneAtWork DEF Slotted
      <3> QED
        BY <3>2, <3>5
    <2> QED
      BY <2>1, <2>2, <2>3
  <1> HIDE DEF line, kind, events, R
  <1>7. \A x \in Runs :
          /\ dropped[x] => dropped'[x]
          /\ IsTerminal(chan[x]) => IsTerminal(chan'[x])
          /\ x \notin slots[p] => chan'[x] = chan[x]
          /\ x \in slots[p] /\ ~dropped'[x] /\ IsTerminal(events) => IsTerminal(chan'[x])
          /\ SaysEvent(chan'[x], "done") =>
               SaysEvent(chan[x], "done") \/ (x \in slots[p] /\ SaysEvent(events, "done"))
    BY <1>1, <1>5, SentEvents
  <1>8. \A x \in Runs : closed'[x] = closed[x] \/ (x \in slots[p] /\ IsTerminal(events))
    BY <1>1, <1>4 DEF CloseSlots, TypeOK
  <1>9. \A x \in Runs :
           SaysEvent(chan'[x], "done") \/ card'[x] = "done" =>
             \/ SaysEvent(chan[x], "done") \/ card[x] = "done"
             \/ x \in finished \/ proc[x] \in muddled \/ dropped'[x]
             \/ proc[x] # 0 /\ dead[proc[x]] /\ pc[x] \in Falling
    BY <1>1, <1>6, <1>7
  <1>10. \A x \in Runs :
           \/ chan'[x] = chan[x] /\ card'[x] = card[x] /\ closed'[x] = closed[x]
           \/ closed'[x] /\ pc'[x] # "refused" => IsTerminal(chan'[x]) \/ card'[x] # "running" \/ dropped'[x]
    <2> SUFFICES ASSUME NEW x \in Runs, closed'[x], pc'[x] # "refused"
                 PROVE  \/ chan'[x] = chan[x] /\ closed'[x] = closed[x]
                        \/ IsTerminal(chan'[x]) \/ dropped'[x]
      BY <1>1
    <2>1. CASE x \notin slots[p]
      BY <1>7, <1>8, <2>1
    <2>2. CASE x \in slots[p]
      <3>1. ~closed[x]
        BY <2>2, RunParts
      <3> QED
        BY <1>7, <1>8, <2>2, <3>1
    <2> QED
      BY <2>1, <2>2
  <1>11. /\ \A x \in Runs : dropped[x] => dropped'[x]
         /\ \A q \in Procs : dead[q] => dead'[q]
         /\ finished \subseteq finished' /\ muddled \subseteq muddled' /\ proc' = proc
         /\ \A x \in Runs : pc'[x] = pc[x]
    BY <1>1, <1>7
  <1> QED
    BY <1>9, <1>10, <1>11, ChanFrame

\* A process that dies puts an error into the channels it closes.
LEMMA ChanWait ==
  ASSUME TypeOK, ProcInv, RunInv, ChanInv, NEW p \in Procs, Wait(p)
  PROVE  ChanInv'
  <1> DEFINE events == <<"error">>
  <1>1. /\ dead' = [dead EXCEPT ![p] = TRUE]
        /\ pc' = [r \in Runs |-> IF \E q \in Requests \ {"abort"} : <<r, q>> \in pending[p]
                                 THEN After(pc[r], FALSE) ELSE pc[r]]
        /\ SafeSend(slots[p], events) /\ CloseSlots(p, slots[p])
        /\ UNCHANGED <<proc, card, finished, muddled>>
    BY DEF Wait, history
  <1>2. "error" \in Events
    BY DEF Events, Terminals
  <1>3. events \in Seq(Events) /\ IsTerminal(events) /\ ~SaysEvent(events, "done")
    BY <1>2 DEF IsTerminal, Terminals, SaysEvent
  <1> HIDE DEF events
  <1>4. \A x \in Runs :
          /\ dropped[x] => dropped'[x]
          /\ IsTerminal(chan[x]) => IsTerminal(chan'[x])
          /\ x \notin slots[p] => chan'[x] = chan[x]
          /\ x \in slots[p] /\ ~dropped'[x] /\ IsTerminal(events) => IsTerminal(chan'[x])
          /\ SaysEvent(chan'[x], "done") =>
               SaysEvent(chan[x], "done") \/ (x \in slots[p] /\ SaysEvent(events, "done"))
    BY <1>1, <1>3, SentEvents
  <1>5. \A x \in Runs : closed'[x] = closed[x] \/ x \in slots[p]
    BY <1>1 DEF CloseSlots, TypeOK
  <1>6. \A x \in Runs :
          SaysEvent(chan'[x], "done") \/ card'[x] = "done" => SaysEvent(chan[x], "done") \/ card[x] = "done"
    BY <1>1, <1>3, <1>4
  <1>7. \A x \in Runs :
           \/ chan'[x] = chan[x] /\ card'[x] = card[x] /\ closed'[x] = closed[x]
           \/ closed'[x] /\ pc'[x] # "refused" => IsTerminal(chan'[x]) \/ card'[x] # "running" \/ dropped'[x]
    BY <1>1, <1>3, <1>4, <1>5
  <1>8. \A x \in Runs : \/ pc'[x] = pc[x] \/ pc[x] \notin Falling
                        \/ pc[x] \in Falling \ {"refused"} /\ pc'[x] \in Falling
    <2> SUFFICES ASSUME NEW x \in Runs, pc'[x] # pc[x]
                 PROVE  pc[x] \notin Falling \/ (pc[x] = "prompt" /\ pc'[x] = "failing")
      BY DEF Falling, Prompts
    <2>1. pc'[x] = IF \E q \in Requests \ {"abort"} : <<x, q>> \in pending[p]
                   THEN After(pc[x], FALSE) ELSE pc[x]
      BY <1>1
    <2>2. PICK q \in Requests \ {"abort"} : <<x, q>> \in pending[p]
      BY <2>1
    <2>3. pc[x] = q
      BY <2>2, RunParts
    <2>4. pc'[x] = After(q, FALSE)
      BY <2>1, <2>2, <2>3
    <2> QED
      BY <2>3, <2>4 DEF After, Falling, Prompts, Requests
  <1>9. /\ \A x \in Runs : dropped[x] => dropped'[x]
        /\ \A q \in Procs : dead[q] => dead'[q]
        /\ finished \subseteq finished' /\ muddled \subseteq muddled' /\ proc' = proc
    BY <1>1, <1>4 DEF TypeOK
  <1> QED
    BY <1>6, <1>7, <1>8, <1>9, ChanFrame

\* Every step keeps ChanInv.
LEMMA ChanStep ==
  ASSUME TypeOK, TypeOK', ProcInv, RunInv, RunInv', TurnInv, ChanInv, [Next]_vars
  PROVE  ChanInv'
  <1> USE DEF slotVars, runVars, history
  <1>1. CASE Reset \/ UNCHANGED vars
    <2>1. /\ UNCHANGED <<proc, chan, card, closed, dropped, dead, pc>>
          /\ finished \subseteq finished' /\ muddled \subseteq muddled'
      BY <1>1 DEF Reset, vars, procVars
    <2> QED
      BY <2>1, ChanSame
  <1>2. ASSUME NEW p \in Procs, Handle(p) \/ Settle(p) \/ Die(p) \/ \E kind \in Chatter : Chat(p, kind)
        PROVE ChanInv'
    <2>1. /\ UNCHANGED <<proc, chan, card, closed, dropped, dead, pc>>
          /\ finished \subseteq finished' /\ muddled \subseteq muddled'
      BY <1>2 DEF Handle, Settle, Die, Chat, AgentOnly
    <2> QED
      BY <2>1, ChanSame
  <1>3. ASSUME NEW p \in Procs, Read(p) PROVE ChanInv'
    BY <1>3, ChanReply, ChanEvent
  <1>4. ASSUME NEW p \in Procs, Wait(p) PROVE ChanInv'
    BY <1>4, ChanWait
  <1>5. ASSUME NEW r \in Runs, Begin(r) PROVE ChanInv'
    BY <1>5, ChanBegin
  <1>6. ASSUME NEW r \in Runs, BeginFails(r) \/ Starting(r) \/ Written(r) PROVE ChanInv'
    BY <1>6, ChanStart
  <1>7. ASSUME NEW r \in Runs, Loop(r) \/ \E q \in Requests : Timeout(r, q) PROVE ChanInv'
    BY <1>7, ChanLoop
  <1>8. ASSUME NEW r \in Runs, Stop(r) \/ Escalate(r) \/ AbortFails(r) PROVE ChanInv'
    <2>1. /\ UNCHANGED <<proc, chan, card, closed, dropped, dead, pc>>
          /\ finished \subseteq finished' /\ muddled \subseteq muddled'
      BY <1>8 DEF Stop, Escalate, AbortFails
    <2> QED
      BY <2>1, ChanSame
  <1> QED
    BY <1>1, <1>2, <1>3, <1>4, <1>5, <1>6, <1>7, <1>8 DEF Next

------------------------------------------------------------------------------
\* The invariant holds at the start.
LEMMA InitInv == Init => IInv
  <1> SUFFICES ASSUME Init PROVE IInv
    OBVIOUS
  <1>1. TypeOK
    BY InitTypes
  <1>2. ProcInv /\ RunInv
    BY SessionAssumption DEF Init, ProcInv, RunInv, NoRun, Procs, Runs
  <1>3. TurnInv
    <2> SUFFICES ASSUME NEW p \in Procs PROVE TurnOk(p)
      BY DEF TurnInv
    <2>1. stdin[p] = << >> /\ stdout[p] = << >> /\ turn[p] = NoRun
      BY DEF Init
    <2>2. \A r \in Runs : pc[r] \notin Prompts
      BY DEF Init, Prompts
    <2>3. DOMAIN stdin[p] = {} /\ DOMAIN stdout[p] = {}
      BY <2>1
    <2>4. PromptInv(p) /\ AnswerInv(p) /\ EventInv(p)
      BY <2>3 DEF PromptInv, AnswerInv, EventInv
    <2> QED
      BY <2>1, <2>2, <2>4 DEF TurnOk
  <1>4. ChanInv
    BY DEF Init, ChanInv, SaysEvent
  <1> QED
    BY <1>1, <1>2, <1>3, <1>4 DEF IInv

\* The invariant of piSession and its runs.
THEOREM Invariance == Spec => []IInv
  <1>1. Init => IInv
    BY InitInv
  <1>2. IInv /\ [Next]_vars => IInv'
    <2> SUFFICES ASSUME IInv, [Next]_vars PROVE IInv'
      OBVIOUS
    <2>1. TypeOK /\ ProcInv /\ RunInv /\ TurnInv /\ ChanInv
      BY DEF IInv
    <2>2. TypeOK'
      BY <2>1, TypeStep
    <2>3. ProcInv'
      BY <2>1, ProcStep
    <2>4. RunInv'
      BY <2>1, RunStep
    <2>5. TurnInv'
      BY <2>1, <2>2, TurnStep
    <2>6. ChanInv'
      BY <2>1, <2>2, <2>4, ChanStep
    <2> QED
      BY <2>2, <2>3, <2>4, <2>5, <2>6 DEF IInv
  <1> QED
    BY <1>1, <1>2, PTL DEF Spec

\* The variables of the processes, slots and runs keep their types; a channel never holds
\* more than its capacity.
THEOREM TypeCorrect == Spec => []TypeOK
  <1>1. IInv => TypeOK
    BY DEF IInv
  <1> QED
    BY <1>1, Invariance, PTL

\* However processes die, replies are late and runs are stopped, a card reads done only for
\* a turn that the agent ended, with the exceptions that DoneIsDone names.
THEOREM DoneIsDoneHolds == Spec => []DoneIsDone
  <1>1. IInv => DoneIsDone
    BY DEF IInv, ChanInv, DoneIsDone, Falling, Prompts
  <1> QED
    BY <1>1, Invariance, PTL

------------------------------------------------------------------------------
\* What the card and the channel say of the end.
Said(s) == {e \in Terminals : \E i \in DOMAIN s : s[i] = e}
EndFrom(s, c) == IF c # "running" THEN c
                 ELSE IF Said(s) = {} THEN "running" ELSE CHOOSE e \in Said(s) : TRUE
OneEndIn(s) == \A i, j \in DOMAIN s : s[i] \in Terminals /\ s[j] \in Terminals => i = j

LEMMA EndFromSame ==
  ASSUME NEW s, NEW t, NEW c, \A e \in Terminals : SaysEvent(s, e) <=> SaysEvent(t, e)
  PROVE  EndFrom(s, c) = EndFrom(t, c)
  <1>1. Said(s) = Said(t)
    BY DEF Said, SaysEvent
  <1> QED
    BY <1>1 DEF EndFrom

LEMMA EndFromNone ==
  ASSUME NEW s, ~IsTerminal(s) PROVE EndFrom(s, "running") = "running"
  <1>1. Said(s) = {}
    BY DEF IsTerminal, Said
  <1> QED
    BY <1>1 DEF EndFrom

LEMMA EndFromSome ==
  ASSUME NEW s, IsTerminal(s) PROVE EndFrom(s, "running") \in Terminals
  <1>1. Said(s) # {}
    BY DEF IsTerminal, Said
  <1>2. Said(s) \subseteq Terminals
    BY DEF Said
  <1> QED
    BY <1>1, <1>2 DEF EndFrom

LEMMA EndFromOne ==
  ASSUME NEW s, NEW i \in DOMAIN s, s[i] \in Terminals, OneEndIn(s)
  PROVE  EndFrom(s, "running") = s[i]
  <1>1. Said(s) = {s[i]}
    BY DEF Said, OneEndIn
  <1> QED
    BY <1>1 DEF EndFrom

\* Events are added, one of which ends the turn at most.
LEMMA EndFromJoined ==
  ASSUME NEW s \in Seq(Events), NEW t \in Seq(Events), Len(t) <= 1, OneEndIn(s),
         IsTerminal(t) => ~IsTerminal(s)
  PROVE  /\ OneEndIn(s \o t) /\ (IsTerminal(s \o t) <=> IsTerminal(s) \/ IsTerminal(t))
         /\ ~IsTerminal(t) => \A c : EndFrom(s \o t, c) = EndFrom(s, c)
         /\ IsTerminal(t) => EndFrom(s \o t, "running") \in Terminals
  <1> DEFINE both == s \o t
  <1>1. /\ \A i \in DOMAIN both :
             \/ i \in DOMAIN s /\ both[i] = s[i]
             \/ i - Len(s) \in DOMAIN t /\ both[i] = t[i - Len(s)]
        /\ \A i \in DOMAIN s : i \in DOMAIN both /\ both[i] = s[i]
        /\ \A i \in DOMAIN t : Len(s) + i \in DOMAIN both /\ both[Len(s) + i] = t[i]
    BY Joined
  <1>2. DOMAIN both \subseteq Int /\ Len(s) \in Nat /\ \A i, j \in DOMAIN t : i = 1 /\ j = 1
    <2>1. both \in Seq(Events)
      BY Joined
    <2>2. DOMAIN t = 1..Len(t) /\ DOMAIN both = 1..Len(both) /\ Len(t) \in Nat
      BY <2>1
    <2> QED
      BY <2>2
  <1> HIDE DEF both
  <1>3. IsTerminal(both) <=> IsTerminal(s) \/ IsTerminal(t)
    BY <1>1, Zenon DEF IsTerminal
  <1>4. OneEndIn(both)
    <2> SUFFICES ASSUME NEW i \in DOMAIN both, NEW j \in DOMAIN both,
                        both[i] \in Terminals, both[j] \in Terminals
                 PROVE  i = j
      BY DEF OneEndIn
    <2>1. CASE IsTerminal(t)
      <3>1. ASSUME NEW k \in DOMAIN both, both[k] \in Terminals PROVE k - Len(s) = 1
        BY <1>1, <1>2, <2>1, <3>1 DEF IsTerminal
      <3> QED
        BY <1>2, <3>1
    <2>2. CASE ~IsTerminal(t)
      BY <1>1, <2>2 DEF IsTerminal, OneEndIn
    <2> QED
      BY <2>1, <2>2
  <1>5. ASSUME ~IsTerminal(t), NEW c PROVE EndFrom(both, c) = EndFrom(s, c)
    <2>1. \A e \in Terminals : SaysEvent(both, e) <=> SaysEvent(s, e)
      BY <1>1, <1>5, Zenon DEF IsTerminal, SaysEvent
    <2> QED
      BY <2>1, EndFromSame
  <1>6. IsTerminal(t) => EndFrom(both, "running") \in Terminals
    BY <1>3, EndFromSome
  <1> QED
    BY <1>3, <1>4, <1>5, <1>6 DEF both

\* The first event is read.
LEMMA EndFromTail ==
  ASSUME NEW s \in Seq(Events), s # << >>, OneEndIn(s)
  PROVE  /\ OneEndIn(Tail(s)) /\ (IsTerminal(Tail(s)) => IsTerminal(s) /\ Head(s) \notin Terminals)
         /\ Head(s) \in Terminals => EndFrom(s, "running") = Head(s) /\ IsTerminal(s)
         /\ Head(s) \notin Terminals => \A c : EndFrom(Tail(s), c) = EndFrom(s, c)
  <1> DEFINE t == Tail(s)
  <1>1. /\ 1 \in DOMAIN s /\ Head(s) = s[1]
        /\ \A i \in DOMAIN t : i + 1 \in DOMAIN s /\ i + 1 # 1 /\ t[i] = s[i + 1]
        /\ \A i \in DOMAIN s : i # 1 => i - 1 \in DOMAIN t
    BY Shortened
  <1>2. DOMAIN t \subseteq Int /\ DOMAIN s \subseteq Int
    <2>1. t \in Seq(Events)
      BY Shortened
    <2>2. DOMAIN t = 1..Len(t) /\ DOMAIN s = 1..Len(s)
      BY <2>1
    <2> QED
      BY <2>2
  <1> HIDE DEF t
  <1>3. \A i \in DOMAIN s : i # 1 => i - 1 \in DOMAIN t /\ t[i - 1] = s[i]
    <2> SUFFICES ASSUME NEW i \in DOMAIN s, i # 1 PROVE i - 1 \in DOMAIN t /\ t[i - 1] = s[i]
      OBVIOUS
    <2>1. i - 1 \in DOMAIN t /\ (i - 1) + 1 = i
      BY <1>1, <1>2
    <2>2. t[i - 1] = s[(i - 1) + 1]
      BY <1>1, <2>1
    <2> QED
      BY <2>1, <2>2
  <1>4. OneEndIn(t)
    <2> SUFFICES ASSUME NEW i \in DOMAIN t, NEW j \in DOMAIN t, t[i] \in Terminals, t[j] \in Terminals
                 PROVE  i = j
      BY DEF OneEndIn
    <2>1. i + 1 = j + 1
      BY <1>1 DEF OneEndIn
    <2> QED
      BY <1>2, <2>1
  <1>5. IsTerminal(t) => IsTerminal(s) /\ Head(s) \notin Terminals
    <2> SUFFICES ASSUME NEW i \in DOMAIN t, t[i] \in Terminals PROVE IsTerminal(s) /\ Head(s) \notin Terminals
      BY DEF IsTerminal
    <2>1. i + 1 \in DOMAIN s /\ i + 1 # 1 /\ s[i + 1] \in Terminals
      BY <1>1
    <2> QED
      BY <1>1, <2>1 DEF IsTerminal, OneEndIn
  <1>6. Head(s) \in Terminals => EndFrom(s, "running") = Head(s) /\ IsTerminal(s)
    BY <1>1, EndFromOne DEF IsTerminal
  <1>7. ASSUME Head(s) \notin Terminals, NEW c PROVE EndFrom(t, c) = EndFrom(s, c)
    <2>1. ASSUME NEW e \in Terminals PROVE SaysEvent(t, e) <=> SaysEvent(s, e)
      <3>1. ASSUME NEW i \in DOMAIN s, s[i] = e PROVE SaysEvent(t, e)
        <4>1. i # 1
          BY <1>1, <1>7, <3>1
        <4> QED
          BY <1>3, <3>1, <4>1 DEF SaysEvent
      <3>2. ASSUME NEW i \in DOMAIN t, t[i] = e PROVE SaysEvent(s, e)
        BY <1>1, <3>2 DEF SaysEvent
      <3> QED
        BY <3>1, <3>2 DEF SaysEvent
    <2> QED
      BY <2>1, EndFromSame
  <1> QED
    BY <1>4, <1>5, <1>6, <1>7 DEF t

\* A run has one slot until it is closed, which the terminal event that is told
\* does; and at most one is.
SlotOk(r) ==
  /\ pc[r] \in Slotted => closed[r] \/ r \in slots[proc[r]]
  /\ \A p \in Procs : r \in slots[p] => ~IsTerminal(chan[r]) /\ card[r] = "running"
  /\ IsTerminal(chan[r]) => card[r] = "running"
  /\ OneEndIn(chan[r])

\* A step keeps this, and what the run has promised.
Kept(r) == SlotOk(r)' /\ [Promised(r)!Next]_(Promised(r)!vars)

LEMMA EndIsFrom ==
  /\ \A r : EndIs(r) = EndFrom(chan[r], card[r])
  /\ \A r : EndIs(r)' = EndFrom(chan'[r], card'[r])
  BY DEF EndIs, EndFrom, Said

LEMMA KeptStill ==
  ASSUME NEW x \in Runs, SlotOk(x), chan'[x] = chan[x], card'[x] = card[x], closed'[x] = closed[x],
         \A p \in Procs : x \in slots'[p] <=> x \in slots[p],
         pc'[x] \in Slotted => pc[x] \in Slotted /\ proc'[x] = proc[x] /\ proc[x] \in Procs,
         pc'[x] = "over" <=> pc[x] = "over", timer'[x] # "no" <=> timer[x] # "no"
  PROVE  Kept(x)
  <1>1. SlotOk(x)'
    BY DEF SlotOk
  <1>2. EndIs(x)' = EndIs(x)
    BY EndIsFrom
  <1>3. ChannelIs(x)' = ChannelIs(x)
    BY DEF ChannelIs
  <1> QED
    BY <1>1, <1>2, <1>3 DEF Kept, Promised!vars

\* The steps that touch one run at most, and not its channel.
LEMMA KeptElse ==
  ASSUME TypeOK, RunInv, UNCHANGED <<chan, card, closed, slots, proc>>, NEW x \in Runs, SlotOk(x),
         pc'[x] \in Slotted => pc[x] \in Slotted,
         pc'[x] = "over" <=> pc[x] = "over", timer'[x] # "no" <=> timer[x] # "no"
  PROVE  Kept(x)
  <1>1. pc[x] \in Slotted => proc[x] \in Procs
    BY Parts DEF RunInv, Slotted
  <1> QED
    BY <1>1, KeptStill

\* An event is sent to the runs of a process, some of which are closed then.
LEMMA KeptSent ==
  ASSUME TypeOK, RunInv, NEW p \in Procs, NEW events \in Seq(Events), Len(events) <= 1,
         SafeSend(slots[p], events), CloseSlots(p, IF IsTerminal(events) THEN slots[p] ELSE {}),
         NEW x \in Runs, SlotOk(x), card' = card, proc' = proc, timer' = timer,
         pc'[x] \in Slotted => pc[x] \in Slotted, pc'[x] = "over" <=> pc[x] = "over"
  PROVE  Kept(x)
  <1>1. /\ pc[x] \in Slotted => proc[x] \in Procs
        /\ chan[x] \in Seq(Events)
    BY Parts DEF RunInv, Slotted
  <1>2. /\ \A q \in Procs : slots'[q] = IF q = p THEN slots[p] \ (IF IsTerminal(events) THEN slots[p] ELSE {})
                                        ELSE slots[q]
        /\ closed'[x] = (closed[x] \/ (IsTerminal(events) /\ x \in slots[p]))
        /\ chan'[x] = IF x \in slots[p] /\ Room(x, events) THEN chan[x] \o events ELSE chan[x]
        /\ closed[x] \in BOOLEAN
    BY DEF CloseSlots, SafeSend, TypeOK
  <1>3. CASE x \notin slots[p]
    <2>1. chan'[x] = chan[x] /\ card'[x] = card[x] /\ closed'[x] = closed[x] /\ proc'[x] = proc[x]
          /\ \A q \in Procs : x \in slots'[q] <=> x \in slots[q]
      BY <1>2, <1>3
    <2> QED
      BY <1>1, <2>1, KeptStill
  <1>4. CASE x \in slots[p]
    <2>1. /\ proc[x] = p /\ pc[x] \in Slotted /\ pc[x] # "over" /\ ~closed[x]
          /\ ~IsTerminal(chan[x]) /\ card[x] = "running" /\ OneEndIn(chan[x])
          /\ \A q \in Procs : x \in slots[q] => q = p
      BY <1>4, RunParts DEF SlotOk, Slotted
    <2>2. ChannelIs(x) = "open" /\ EndIs(x) = "running"
      BY <1>4, <2>1, EndIsFrom, EndFromNone DEF ChannelIs
    <2>3. /\ OneEndIn(chan'[x]) /\ (IsTerminal(chan'[x]) => IsTerminal(events))
          /\ EndIs(x)' \in Terminals \/ EndIs(x)' = "running"
          /\ EndIs(x)' # "running" => IsTerminal(events)
      <3>1. EndIs(x)' = EndFrom(chan'[x], "running")
        BY <2>1, EndIsFrom
      <3>2. CASE chan'[x] = chan[x]
        BY <2>1, <3>1, <3>2, EndFromNone
      <3>3. CASE chan'[x] = chan[x] \o events
        <4>1. OneEndIn(chan'[x]) /\ (IsTerminal(chan'[x]) <=> IsTerminal(chan[x]) \/ IsTerminal(events))
          BY <1>1, <2>1, <3>3, EndFromJoined
        <4>2. EndFrom(chan'[x], "running") \in Terminals \/ EndFrom(chan'[x], "running") = "running"
          BY EndFromSome, EndFromNone
        <4>3. EndFrom(chan'[x], "running") # "running" => IsTerminal(chan'[x])
          BY EndFromNone
        <4> QED
          BY <2>1, <3>1, <4>1, <4>2, <4>3
      <3> QED
        BY <1>2, <3>2, <3>3
    <2>4. CASE IsTerminal(events)
      <3>1. closed'[x] /\ \A q \in Procs : x \notin slots'[q]
        BY <1>2, <1>4, <2>1, <2>4
      <3>2. SlotOk(x)'
        BY <2>1, <2>3, <3>1 DEF SlotOk
      <3>3. ChannelIs(x)' = "closed"
        BY <2>1, <3>1 DEF ChannelIs
      <3>4. Promised(x)!Close
        BY <2>2, <2>3, <3>3 DEF Promised!Close, Promised!Tells, Promised!Ends, Terminals
      <3> QED
        BY <3>2, <3>4 DEF Kept, Promised!Next
    <2>5. CASE ~IsTerminal(events)
      <3>1. closed'[x] = closed[x] /\ \A q \in Procs : x \in slots'[q] <=> x \in slots[q]
        BY <1>2, <2>5
      <3>2. SlotOk(x)'
        BY <1>4, <2>1, <2>3, <2>5, <3>1 DEF SlotOk
      <3>3. ChannelIs(x)' = ChannelIs(x)
        BY <2>1, <3>1 DEF ChannelIs
      <3>4. UNCHANGED Promised(x)!vars
        BY <2>2, <2>3, <2>5, <3>3 DEF Promised!vars
      <3> QED
        BY <3>2, <3>4 DEF Kept
    <2> QED
      BY <2>4, <2>5
  <1> QED
    BY <1>3, <1>4

LEMMA KeptRead ==
  ASSUME TypeOK, RunInv, NEW p \in Procs, Read(p) \/ Wait(p), NEW x \in Runs, SlotOk(x)
  PROVE  Kept(x)
  <1>1. CASE Read(p)
    <2> DEFINE line == Head(stdout[p])
               events == EventOf(line.kind)
    <2>1. line \in Lines
      BY <1>1, LinesRead
    <2>2. line.run \in Runs
      BY <2>1 DEF Lines
    <2>3. CASE line.kind \in Requests
      <3>1. /\ UNCHANGED <<chan, card, closed, slots, proc, timer>>
            /\ pc' = IF <<line.run, line.kind>> \in pending[p] /\ line.kind # "abort"
                     THEN [pc EXCEPT ![line.run] = After(line.kind, line.ok)] ELSE pc
        BY <1>1, <2>3 DEF Read
      <3> HIDE DEF line, events
      <3>2. (pc'[x] \in Slotted => pc[x] \in Slotted) /\ (pc'[x] = "over" <=> pc[x] = "over")
        <4>1. CASE <<line.run, line.kind>> \in pending[p] /\ line.kind # "abort" /\ x = line.run
          <5>1. pc[x] = line.kind /\ pc'[x] = After(line.kind, line.ok) /\ line.kind \in Requests \ {"abort"}
            BY <2>3, <3>1, <4>1, RunParts DEF TypeOK
          <5> QED
            BY <5>1 DEF After, Slotted, Requests
        <4>2. CASE ~(<<line.run, line.kind>> \in pending[p] /\ line.kind # "abort" /\ x = line.run)
          BY <3>1, <4>2 DEF TypeOK
        <4> QED
          BY <4>1, <4>2
      <3> QED
        BY <3>1, <3>2, KeptElse
    <2>4. CASE line.kind \notin Requests
      <3>1. /\ SafeSend(slots[p], events) /\ CloseSlots(p, IF IsTerminal(events) THEN slots[p] ELSE {})
            /\ UNCHANGED <<pc, card, proc, timer>>
        BY <1>1, <2>4 DEF Read
      <3>2. events \in Seq(Events) /\ Len(events) <= 1
        BY EventOfKind
      <3> HIDE DEF events, line
      <3> QED
        BY <3>1, <3>2, KeptSent
    <2> QED
      BY <2>3, <2>4
  <1>2. CASE Wait(p)
    <2> DEFINE events == <<"error">>
    <2>1. events \in Seq(Events) /\ Len(events) <= 1 /\ IsTerminal(events)
      BY DEF Events, Terminals, IsTerminal
    <2> HIDE DEF events
    <2>2. /\ SafeSend(slots[p], events) /\ CloseSlots(p, slots[p])
          /\ pc'[x] = IF \E q \in Requests \ {"abort"} : <<x, q>> \in pending[p]
                      THEN After(pc[x], FALSE) ELSE pc[x]
          /\ UNCHANGED <<proc, card, timer>>
      BY <1>2 DEF Wait, events, stopVars
    <2>3. (pc'[x] \in Slotted => pc[x] \in Slotted) /\ (pc'[x] = "over" <=> pc[x] = "over")
      <3>1. CASE \E q \in Requests \ {"abort"} : <<x, q>> \in pending[p]
        <4>1. pc[x] \in Requests \ {"abort"}
          BY <3>1, RunParts
        <4> QED
          BY <2>2, <3>1, <4>1 DEF After, Slotted, Requests
      <3> QED
        BY <2>2, <3>1
    <2> QED
      BY <2>1, <2>2, <2>3, KeptSent
  <1> QED
    BY <1>1, <1>2

LEMMA KeptStart ==
  ASSUME TypeOK, RunInv, NEW r \in Runs,
         Begin(r) \/ BeginFails(r) \/ Starting(r) \/ Written(r) \/ \E q \in Requests : Timeout(r, q),
         NEW x \in Runs, SlotOk(x)
  PROVE  Kept(x)
  <1> USE DEF procVars, slotVars, stopVars
  <1>1. ASSUME UNCHANGED <<chan, card, closed, slots, proc, timer>>, NEW l, Goto(r, l) \/ UNCHANGED pc,
               l \in Slotted => pc[r] \in Slotted, l # "over", pc[r] # "over"
        PROVE  Kept(x)
    <2>1. pc'[x] = pc[x] \/ (x = r /\ pc'[x] = l)
      BY <1>1 DEF Goto, TypeOK
    <2> QED
      BY <1>1, <2>1, KeptElse
  <1>2. CASE Begin(r)
    <2>1. /\ UNCHANGED <<chan, card, closed, slots, timer>> /\ Goto(r, "state")
          /\ \E p \in Procs : proc' = [proc EXCEPT ![r] = p]
          /\ pc[r] = "idle"
      BY <1>2 DEF Begin, At
    <2>2. IF x = r THEN pc'[x] = "state" /\ pc[x] = "idle" ELSE pc'[x] = pc[x] /\ proc'[x] = proc[x]
      BY <2>1 DEF Goto, TypeOK
    <2>3. pc[x] \in Slotted => proc[x] \in Procs
      BY Parts DEF RunInv, Slotted
    <2> QED
      BY <2>1, <2>2, <2>3, KeptStill DEF Slotted
  <1>3. CASE BeginFails(r) \/ SkipState(r)
    BY <1>1, <1>3 DEF BeginFails, SkipState, At, Slotted
  <1>4. ASSUME NEW q \in Requests \ {"abort"}, Send(r, q) \/ Timeout(r, q) PROVE Kept(x)
    <2>1. pc[r] = q /\ (Goto(r, After(q, FALSE)) \/ UNCHANGED pc)
          /\ UNCHANGED <<chan, card, closed, slots, proc, timer>>
      BY <1>4 DEF Send, Timeout, At
    <2>2. (After(q, FALSE) \in Slotted => q = "prompt") /\ After(q, FALSE) # "over" /\ q # "over"
      BY DEF After, Slotted, Requests
    <2>3. "prompt" \in Slotted
      BY DEF Slotted
    <2> QED
      BY <1>1, <2>1, <2>2, <2>3
  <1>5. CASE GetState(r) \/ EnsureModel(r) \/ Prompt(r)
    BY <1>4, <1>5 DEF GetState, EnsureModel, Prompt, Requests
  <1>6. CASE \E q \in Requests : Timeout(r, q)
    BY <1>4, <1>6 DEF Timeout
  <1>7. CASE MakeSlot(r)
    <2>1. /\ pc[r] = (IF r \in Picks THEN "slot" ELSE "model") /\ Goto(r, "prompt")
          /\ slots' = [slots EXCEPT ![proc[r]] = @ \cup {r}]
          /\ chan' = [chan EXCEPT ![r] = <<"system">>]
          /\ UNCHANGED <<card, closed, proc, timer>>
      BY <1>7 DEF MakeSlot, At
    <2>2. /\ ~closed[r] /\ card[r] = "running" /\ chan[r] = << >> /\ proc[r] \in Procs
          /\ pc[r] \notin Slotted /\ pc[r] # "over"
      BY <2>1, Parts DEF RunInv, Slotted
    <2>3. CASE x # r
      <3>1. pc'[x] = pc[x] /\ chan'[x] = chan[x] /\ \A p \in Procs : x \in slots'[p] <=> x \in slots[p]
        BY <2>1, <2>3 DEF Goto, TypeOK
      <3>2. pc[x] \in Slotted => proc[x] \in Procs
        BY Parts DEF RunInv, Slotted
      <3> QED
        BY <2>1, <3>1, <3>2, KeptStill
    <2>4. CASE x = r
      <3>1. /\ pc'[x] = "prompt" /\ chan'[x] = <<"system">>
            /\ \A p \in Procs : x \in slots'[p] <=> p = proc[x]
        <4>1. \A p \in Procs : x \notin slots[p]
          BY <2>2, <2>4, RunParts
        <4>2. \A p \in Procs : slots'[p] = IF p = proc[r] THEN slots[p] \cup {r} ELSE slots[p]
          BY <2>1 DEF TypeOK
        <4> QED
          BY <2>1, <2>4, <4>1, <4>2 DEF Goto, TypeOK
      <3>2. ~IsTerminal(<<"system">>) /\ OneEndIn(<<"system">>)
        BY DEF IsTerminal, OneEndIn, Terminals
      <3>3. SlotOk(x)'
        BY <2>1, <2>2, <2>4, <3>1, <3>2 DEF SlotOk
      <3>4. ChannelIs(x) = "none" /\ ChannelIs(x)' = "open"
        BY <2>1, <2>2, <2>4, <3>1, RunParts DEF ChannelIs
      <3>5. ~IsTerminal(<< >>)
        BY DEF IsTerminal
      <3>6. EndIs(x) = "running" /\ EndIs(x)' = "running"
        BY <2>1, <2>2, <2>4, <3>1, <3>2, <3>5, EndIsFrom, EndFromNone
      <3> QED
        BY <2>1, <3>3, <3>4, <3>6 DEF Kept, Promised!Next, Promised!Open
    <2> QED
      BY <2>3, <2>4
  <1>8. CASE Fail(r) /\ closed[r]
    <2>1. UNCHANGED <<chan, card, closed, slots, proc, timer>> /\ Goto(r, "refused") /\ pc[r] = "failing"
      BY <1>8 DEF Fail, At
    <2> QED
      BY <1>1, <2>1 DEF Slotted
  <1>9. CASE Fail(r) /\ ~closed[r]
    <2>1. /\ pc[r] = "failing" /\ Goto(r, "refused") /\ CloseSlots(proc[r], {r})
          /\ UNCHANGED <<chan, card, proc, timer>>
      BY <1>9 DEF Fail, At
    <2>2. pc[r] \in Slotted /\ pc[r] # "over" /\ proc[r] \in Procs
      BY <2>1, Parts DEF RunInv, Slotted
    <2>3. /\ closed'[x] = (closed[x] \/ x = r)
          /\ \A q \in Procs : slots'[q] = IF q = proc[r] THEN slots[q] \ {r} ELSE slots[q]
          /\ pc'[x] = IF x = r THEN "refused" ELSE pc[x]
          /\ closed[x] \in BOOLEAN
      BY <2>1 DEF CloseSlots, Goto, TypeOK
    <2>4. CASE x # r
      <3>1. pc'[x] = pc[x] /\ closed'[x] = closed[x] /\ \A p \in Procs : x \in slots'[p] <=> x \in slots[p]
        BY <2>3, <2>4
      <3>2. pc[x] \in Slotted => proc[x] \in Procs
        BY Parts DEF RunInv, Slotted
      <3> QED
        BY <2>1, <3>1, <3>2, KeptStill
    <2>5. CASE x = r
      <3>1. x \in slots[proc[x]] /\ ChannelIs(x) = "open"
        BY <1>9, <2>2, <2>5 DEF SlotOk, ChannelIs
      <3>2. closed'[x] /\ pc'[x] = "refused" /\ \A p \in Procs : x \notin slots'[p]
        <4>1. \A p \in Procs : x \in slots[p] => p = proc[x]
          BY RunParts
        <4> QED
          BY <2>3, <2>5, <4>1
      <3>3. SlotOk(x)'
        BY <2>1, <3>2 DEF SlotOk, Slotted
      <3>4. ChannelIs(x)' = "closed" /\ EndIs(x)' = EndIs(x)
        BY <2>1, <3>2, EndIsFrom DEF ChannelIs
      <3> QED
        BY <2>1, <3>1, <3>3, <3>4 DEF Kept, Promised!Next, Promised!Close
    <2> QED
      BY <2>4, <2>5
  <1>10. CASE Block(r) \/ WriteFails(r) \/ Written(r)
    <2>1. /\ UNCHANGED <<chan, card, closed, slots, proc, timer>> /\ pc[r] \in Prompts
          /\ \E l \in Falling \ {"refused"} : Goto(r, l)
      BY <1>10 DEF Block, WriteFails, Written, At, After, Falling, Prompts
    <2> QED
      BY <1>1, <2>1 DEF Slotted, Falling, Prompts
  <1> QED
    BY <1>2, <1>3, <1>5, <1>6, <1>7, <1>8, <1>9, <1>10 DEF Starting

LEMMA KeptLoop ==
  ASSUME TypeOK, RunInv, NEW r \in Runs, Loop(r), NEW x \in Runs, SlotOk(x)
  PROVE  Kept(x)
  <1> USE DEF procVars, slotVars, stopVars
  <1>1. /\ UNCHANGED <<slots, closed, proc, timer>> /\ pc[r] = "reading"
        /\ x # r => chan'[x] = chan[x] /\ card'[x] = card[x] /\ pc'[x] = pc[x]
    BY DEF Loop, Receive, SeesClose, At, Goto, TypeOK
  <1>2. pc[x] \in Slotted => proc[x] \in Procs
    BY Parts DEF RunInv, Slotted
  <1>3. CASE x # r
    BY <1>1, <1>2, <1>3, KeptStill
  <1>4. CASE x = r /\ Receive(r)
    <2>1. /\ chan[x] # << >> /\ chan'[x] = Tail(chan[x]) /\ pc' = pc
          /\ card'[x] = IF Head(chan[x]) \in Terminals THEN Head(chan[x]) ELSE card[x]
      BY <1>4 DEF Receive, TypeOK
    <2>2. chan[x] \in Seq(Events) /\ OneEndIn(chan[x])
      BY Parts DEF SlotOk
    <2>3. /\ OneEndIn(Tail(chan[x])) /\ (IsTerminal(Tail(chan[x])) => IsTerminal(chan[x]) /\ Head(chan[x]) \notin Terminals)
          /\ Head(chan[x]) \in Terminals => EndFrom(chan[x], "running") = Head(chan[x]) /\ IsTerminal(chan[x])
          /\ Head(chan[x]) \notin Terminals => \A c : EndFrom(Tail(chan[x]), c) = EndFrom(chan[x], c)
      BY <2>1, <2>2, EndFromTail
    <2>4. SlotOk(x)'
      BY <1>1, <2>1, <2>3 DEF SlotOk
    <2>5. EndIs(x)' = EndIs(x)
      <3>1. CASE Head(chan[x]) \in Terminals
        <4>1. card[x] = "running" /\ card'[x] = Head(chan[x]) /\ card'[x] # "running"
          BY <2>1, <2>3, <3>1 DEF SlotOk, Terminals
        <4> QED
          BY <2>3, <3>1, <4>1, EndIsFrom DEF EndFrom
      <3>2. CASE Head(chan[x]) \notin Terminals
        BY <2>1, <2>3, <3>2, EndIsFrom
      <3> QED
        BY <3>1, <3>2
    <2>6. ChannelIs(x)' = ChannelIs(x)
      BY <1>1, <2>1 DEF ChannelIs
    <2> QED
      BY <1>1, <2>4, <2>5, <2>6 DEF Kept, Promised!vars
  <1>5. CASE x = r /\ SeesClose(r)
    <2>1. /\ chan[x] = << >> /\ closed[x] /\ pc'[x] = "over" /\ chan' = chan
          /\ card'[x] = IF card[x] # "running" THEN card[x]
                        ELSE IF timer[x] = "no" THEN "done" ELSE "interrupted"
      BY <1>5 DEF SeesClose, Goto, TypeOK
    <2>2. ~IsTerminal(chan[x]) /\ OneEndIn(chan[x]) /\ \A p \in Procs : x \notin slots[p]
      BY <2>1, RunParts DEF IsTerminal, OneEndIn
    <2>3. SlotOk(x)'
      BY <1>1, <2>1, <2>2 DEF SlotOk, Slotted
    <2>4. EndIs(x) = card[x] /\ EndIs(x)' = card'[x]
      BY <2>1, <2>2, EndIsFrom, EndFromNone DEF EndFrom
    <2>5. ChannelIs(x) = "closed" /\ ChannelIs(x)' = "over"
      BY <1>1, <1>5, <2>1 DEF ChannelIs
    <2> QED
      BY <1>1, <2>1, <2>3, <2>4, <2>5 DEF Kept, Promised!Next, Promised!Conclude
  <1> QED
    BY <1>3, <1>4, <1>5 DEF Loop

LEMMA KeptStop ==
  ASSUME TypeOK, RunInv, NEW r \in Runs, Stop(r) \/ Escalate(r) \/ AbortFails(r), NEW x \in Runs, SlotOk(x)
  PROVE  Kept(x)
  <1> USE DEF slotVars, runVars
  <1>1. UNCHANGED <<chan, card, closed, slots, proc, pc>>
    BY DEF Stop, Escalate, AbortFails
  <1>2. CASE timer'[x] # "no" <=> timer[x] # "no"
    BY <1>1, <1>2, KeptElse
  <1>3. CASE ~(timer'[x] # "no" <=> timer[x] # "no")
    <2>1. Stop(r) /\ x = r
      BY <1>3 DEF Stop, Escalate, AbortFails, TypeOK
    <2>2. timer'[x] # "no" /\ pc[x] = "reading"
      BY <2>1 DEF Stop, At, TypeOK
    <2>3. proc[x] \in Procs /\ (closed[x] \/ x \in slots[proc[x]])
      BY <2>2, Parts DEF SlotOk, Slotted, RunInv
    <2>4. ChannelIs(x) # "none"
      BY <2>2, <2>3 DEF ChannelIs
    <2>5. SlotOk(x)' /\ ChannelIs(x)' = ChannelIs(x) /\ EndIs(x)' = EndIs(x)
      BY <1>1, EndIsFrom DEF SlotOk, ChannelIs
    <2> QED
      BY <2>2, <2>4, <2>5 DEF Kept, Promised!Next, Promised!Stop
  <1> QED
    BY <1>2, <1>3

LEMMA KeptStep ==
  ASSUME IInv, [Next]_vars, NEW x \in Runs, SlotOk(x)
  PROVE  Kept(x)
  <1> USE DEF slotVars, runVars, stopVars
  <1>0. TypeOK /\ RunInv
    BY DEF IInv
  <1>1. CASE Reset \/ UNCHANGED vars
    BY <1>0, <1>1, KeptElse DEF Reset, vars
  <1>2. ASSUME NEW p \in Procs, Handle(p) \/ Settle(p) \/ Die(p) \/ \E kind \in Chatter : Chat(p, kind)
        PROVE Kept(x)
    <2>1. UNCHANGED <<chan, card, closed, slots, proc, pc, timer>>
      BY <1>2 DEF Handle, Settle, Die, Chat, AgentOnly
    <2> QED
      BY <1>0, <2>1, KeptElse
  <1>3. ASSUME NEW p \in Procs, Read(p) \/ Wait(p) PROVE Kept(x)
    BY <1>0, <1>3, KeptRead
  <1>4. ASSUME NEW r \in Runs, \/ Begin(r) \/ BeginFails(r) \/ Starting(r) \/ Written(r)
                               \/ \E q \in Requests : Timeout(r, q)
        PROVE Kept(x)
    BY <1>0, <1>4, KeptStart
  <1>5. ASSUME NEW r \in Runs, Loop(r) PROVE Kept(x)
    BY <1>0, <1>5, KeptLoop
  <1>6. ASSUME NEW r \in Runs, Stop(r) \/ Escalate(r) \/ AbortFails(r) PROVE Kept(x)
    BY <1>0, <1>6, KeptStop
  <1> QED
    BY <1>1, <1>2, <1>3, <1>4, <1>5, <1>6 DEF Next

\* Each run of the scope keeps what a run promises (AgentRun), though one process
\* serves them all: its channel is opened once and closed once, at most one end is
\* told, while it is open, and the card reads that end; where none was told,
\* interrupted if the run was stopped.
THEOREM Refinement == Spec => ImplementsAgentRun
  <1> DEFINE AllSlots == \A x \in Runs : SlotOk(x)
             AllInit == \A r \in Runs : Promised(r)!Init
             AllNext == \A r \in Runs : [Promised(r)!Next]_(Promised(r)!vars)
  <1>1. Init => AllSlots
    <2>1. ~IsTerminal(<< >>) /\ OneEndIn(<< >>)
      BY DEF IsTerminal, OneEndIn
    <2> QED
      BY <2>1 DEF Init, SlotOk, Slotted
  <1>2. Init => AllInit
    <2>1. ~IsTerminal(<< >>)
      BY DEF IsTerminal
    <2> SUFFICES ASSUME Init, NEW r \in Runs PROVE Promised(r)!Init
      OBVIOUS
    <2>2. EndIs(r) = "running" /\ ChannelIs(r) = "none"
      BY <2>1, EndIsFrom, EndFromNone DEF Init, ChannelIs
    <2> QED
      BY <2>2 DEF Init, Promised!Init
  <1>3. IInv /\ AllSlots /\ [Next]_vars => AllSlots' /\ AllNext
    BY KeptStep DEF Kept
  <1> HIDE DEF AllSlots, AllInit, AllNext
  <1>4. Spec => AllInit /\ [][AllNext]_vars
    BY <1>1, <1>2, <1>3, Invariance, PTL DEF Spec
  <1> QED
    BY <1>4 DEF AllInit, AllNext, ImplementsAgentRun
==============================================================================
