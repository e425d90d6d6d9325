--------------------------- MODULE CodexTurn_proofs ---------------------------
(***************************************************************************)
(* Proofs about CodexTurn for any turn, capacity, number of notifications  *)
(* and questions: its types, DoneIsDone, ErrorStays and ToldIsChosen, and  *)
(* that a turn keeps what a run promises (AgentRun).  One terminal event   *)
(* at most goes through stdout, held, the channel and the card, whoever    *)
(* ends the run (EndInv); it says done only if our turn or another         *)
(* client's was completed (DoneInv); our turn is begun at most once, so    *)
(* that what was completed stays so (BegunInv); and what the agent asks is *)
(* in one place until it is answered once (AskInv), by what the user chose *)
(* (ToldInv).                                                              *)
(***************************************************************************)
EXTENDS CodexTurn, SequenceTheorems, WellFoundedInduction, TLAPS

Places == {"daemon", "spawn", "system", "failing", "refused", "reading", "asking", "stopping",
           "over"} \cup (Requests \ {"interrupt"})
Messages == [what : Requests \cup {"answer"}, answers : Told]
Events == Terminals \cup {"text", "ask"}

\* What the lines say.
LineInv == \A i \in DOMAIN stdout :
  /\ stdout[i].re = "open" => stdout[i].is \in {"error", "idle", "anonymous", "active", "turn"}
  /\ stdout[i].re = "event" =>
       stdout[i].is \in {"ask", "completed", "interrupted", "failed"} \cup Chatter
  /\ stdout[i].re = "theirs" => stdout[i].is = "completed"
  /\ stdout[i].re = "event" /\ stdout[i].is = "completed" => completed

\* A request that waits is the one that the starting goroutine is at.
WaitInv == \A request \in waits \ {"interrupt"} : pc = request

\* The request that begins our turn is written once.
Beginning == {"steer", "start"}
Unsent ==
  \/ pc \in {"daemon", "spawn", "initialize", "open", "system", "read", "list"}
  \/ pc \in Beginning \ waits
NoBeginning == \A i \in DOMAIN stdin : stdin[i].what \notin Beginning
BegunInv ==
  /\ Unsent => active # "ours" /\ ~completed /\ NoBeginning
  /\ ~NoBeginning => active # "ours" /\ ~completed
  /\ \A i, j \in DOMAIN stdin : stdin[i].what \in Beginning /\ stdin[j].what \in Beginning => i = j
  /\ completed => active # "ours"

\* The first terminal event is the only one, from the line to the card.
Ends(s) == \E i \in DOMAIN s : s[i] \in Terminals
EndInv ==
  /\ Ends(chan) \/ Ends(held) \/ card # "running" \/ waiter # "waiting" => ended
  /\ \A i, j \in DOMAIN chan : chan[i] \in Terminals /\ chan[j] \in Terminals => i = j
  /\ Ends(held) => ~Ends(chan)
  /\ Ends(held) \/ Ends(chan) => card = "running" /\ waiter # "telling"
  /\ waiter = "telling" => card = "running"
  /\ waiter = "over" => held = << >>

\* It says done only of a completed turn; and where none is on its way, nothing
\* but an exit, a Stop or the close of a full channel has ended the run.
DoneInv ==
  /\ \A s \in {chan, held} : \A i \in DOMAIN s : s[i] = "done" => completed \/ foreign
  /\ card = "done" => completed \/ os = "clean" \/ foreign \/ lost
  /\ ended /\ pc \notin {"failing", "refused"} =>
       \/ Ends(chan) \/ Ends(held) \/ card # "running" \/ waiter = "telling"
       \/ lost \/ os = "clean" \/ stop # "no"
  /\ lost => waiter = "over"
  /\ pc \in {"daemon", "spawn"} => os = "none"

\* What was asked is in one place, and asked once: a line, an event that the
\* reader holds or the channel has, the card.
Asked(s) == \E i \in DOMAIN s : s[i] = "ask"
Once(s) == \A i, j \in DOMAIN s : s[i] = "ask" /\ s[j] = "ask" => i = j
LineAsks(s) == \E i \in DOMAIN s : s[i].is = "ask"
LineOnce(s) == \A i, j \in DOMAIN s : s[i].is = "ask" /\ s[j].is = "ask" => i = j
Unheard == told = << >> /\ \A i \in DOMAIN stdin : stdin[i].what # "answer"
AskInv ==
  /\ LineOnce(stdout)
  /\ LineAsks(stdout) => ~Asked(held) /\ ~Asked(chan) /\ pc # "asking" /\ Unheard
  /\ Asked(held) => ~Asked(chan) /\ pc # "asking" /\ Unheard
  /\ Once(chan) /\ (Asked(chan) => pc # "asking" /\ Unheard)
  /\ pc = "asking" => Unheard
  /\ asks = << >> =>
       ~LineAsks(stdout) /\ ~Asked(held) /\ ~Asked(chan) /\ pc # "asking" /\ Unheard

\* What the agent is told, or will be, is made of what the user chose.
ToldInv ==
  /\ Unheard \/ \E ask \in Asks : asks = <<ask>> /\ choice \in UserChoices(ask)
  /\ told # << >> => told = Reply(asks[1], choice)
  /\ \A i \in DOMAIN stdin : stdin[i].what = "answer" => stdin[i].answers = Reply(asks[1], choice)

IInv == TypeOK /\ LineInv /\ WaitInv /\ BegunInv /\ EndInv /\ DoneInv /\ AskInv /\ ToldInv

------------------------------------------------------------------------------
\* What the operators on sequences do to the elements.
LEMMA Joined ==
  ASSUME NEW S, NEW s \in Seq(S), NEW t \in Seq(S)
  PROVE  /\ s \o t \in Seq(S) /\ Len(s \o t) = Len(s) + Len(t)
         /\ \A i \in DOMAIN (s \o t) :
              \/ i \in DOMAIN s /\ (s \o t)[i] = s[i]
              \/ i - Len(s) \in DOMAIN t /\ (s \o t)[i] = t[i - Len(s)]
         /\ \A i \in DOMAIN s : i \in DOMAIN (s \o t) /\ (s \o t)[i] = s[i]
         /\ \A i \in DOMAIN t : Len(s) + i \in DOMAIN (s \o t) /\ (s \o t)[Len(s) + i] = t[i]
  BY ConcatProperties

LEMMA Appended ==
  ASSUME NEW S, NEW s \in Seq(S), NEW e \in S
  PROVE  /\ Append(s, e) \in Seq(S) /\ Len(Append(s, e)) = Len(s) + 1
         /\ DOMAIN Append(s, e) = 1..Len(s) + 1 /\ DOMAIN s = 1..Len(s)
         /\ \A i \in DOMAIN s : i \in DOMAIN Append(s, e) /\ Append(s, e)[i] = s[i]
         /\ Append(s, e)[Len(s) + 1] = e
         /\ \A i \in DOMAIN Append(s, e) : i \in DOMAIN s \/ i = Len(s) + 1
  BY AppendProperties

LEMMA Shortened ==
  ASSUME NEW S, NEW s \in Seq(S), s # << >>
  PROVE  /\ Tail(s) \in Seq(S) /\ Len(Tail(s)) = Len(s) - 1
         /\ 1 \in DOMAIN s /\ Head(s) = s[1] /\ Head(s) \in S
         /\ \A i \in DOMAIN Tail(s) : i # 0 /\ i + 1 \in DOMAIN s /\ i + 1 # 1
                                      /\ Tail(s)[i] = s[i + 1]
         /\ \A i \in DOMAIN s : i # 1 => i - 1 \in DOMAIN Tail(s)
  BY HeadTailProperties

LEMMA ReplyTypes ==
  ASSUME TypeOK, NEW request \in Requests, NEW is \in Replies(request)
  PROVE  /\ is \in {"ok", "error", "idle", "anonymous", "active", "turn", "preset", "none"}
         /\ request = "open" => is \in {"error", "idle", "anonymous", "active", "turn"}
  BY DEF Replies, Requests

\* A line of the turn becomes one event at most, which ends the turn if the
\* line does.
Closing == {"completed", "interrupted", "failed", "error"}

LEMMA EventTypes ==
  ASSUME NEW is \in {"ask", "delta", "retry"} \cup Closing
  PROVE  /\ EventOf(is) \in Seq(Events) /\ Len(EventOf(is)) <= 1
         /\ is \in Closing <=> Ends(EventOf(is))
         /\ \A i \in DOMAIN EventOf(is) : EventOf(is)[i] = "done" => is = "completed"
  <1>1. << >> \in Seq(Events) /\ Len(<< >>) <= 1
    OBVIOUS
  <1>2. \A e \in Events : <<e>> \in Seq(Events) /\ Len(<<e>>) <= 1
    OBVIOUS
  <1>3. EventOf(is) = << >> \/ \E e \in Events : EventOf(is) = <<e>>
    BY DEF EventOf, Events, Terminals, Closing
  <1>4. EventOf(is) \in Seq(Events) /\ Len(EventOf(is)) <= 1
    BY <1>1, <1>2, <1>3, Zenon
  <1>5. is \in Closing <=> Ends(EventOf(is))
    BY DEF EventOf, Ends, Terminals, Closing
  <1>6. \A i \in DOMAIN EventOf(is) : EventOf(is)[i] = "done" => is = "completed"
    BY DEF EventOf, Closing
  <1> QED
    BY <1>4, <1>5, <1>6

LEMMA TurnLines ==
  ASSUME TypeOK, LineInv, stdout # << >>
  PROVE  /\ Head(stdout) \in Lines /\ Head(stdout) = stdout[1] /\ 1 \in DOMAIN stdout
         /\ Head(stdout).re \notin Requests =>
              /\ Head(stdout).re \in {"event", "theirs"}
              /\ Head(stdout).is \in {"ask", "delta", "retry"} \cup Closing
  <1>1. stdout \in Seq(Lines)
    BY DEF TypeOK
  <1>2. Head(stdout) \in Lines /\ Head(stdout) = stdout[1] /\ 1 \in DOMAIN stdout
    BY <1>1, Shortened
  <1>3. Head(stdout).re \notin Requests => Head(stdout).re \in {"event", "theirs"}
    BY <1>2 DEF Lines
  <1> QED
    BY <1>2, <1>3, TurnAssumption DEF LineInv, Closing

LEMMA Bounds ==
  /\ Turns \subseteq [shared : BOOLEAN, resume : BOOLEAN, disk : BOOLEAN, plan : BOOLEAN]
  /\ Capacity \in Nat \ {0} /\ MaxLines \in Nat
  BY TurnAssumption

LEMMA Parts ==
  ASSUME TypeOK
  PROVE  /\ stdin \in Seq(Messages) /\ told \in Told /\ << >> \in Told
         /\ stdout \in Seq(Lines) /\ chan \in Seq(Events) /\ held \in Seq(Events)
         /\ pc \in Places /\ Len(chan) \in Nat /\ Len(held) \in Nat
         /\ opts.shared \in BOOLEAN /\ opts.resume \in BOOLEAN /\ Capacity \in Nat \ {0}
         /\ shut \in BOOLEAN /\ named \in BOOLEAN /\ ended \in BOOLEAN
         /\ completed \in BOOLEAN /\ foreign \in BOOLEAN /\ lost \in BOOLEAN
  BY Bounds DEF TypeOK, Messages, Events, Places, Told

LEMMA InitIInv == Init => IInv
  <1> SUFFICES ASSUME Init PROVE IInv
    OBVIOUS
  <1>1. TypeOK
    <2>1. Len(<< >>) = 0 /\ << >> \in Seq(Messages) /\ << >> \in Seq(Lines) /\ << >> \in Seq(Events)
      OBVIOUS
    <2>2. << >> \in Told /\ opts.shared \in BOOLEAN /\ Capacity \in Nat /\ MaxLines \in Nat
      BY TurnAssumption DEF Init, Told
    <2>3. pc \in Places
      BY DEF Init, Places
    <2>4. {chan, held} \subseteq Seq(Terminals \cup {"text", "ask"})
          /\ stdin \in Seq([what : Requests \cup {"answer"}, answers : Told])
          /\ stdout \in Seq(Lines) /\ Len(chan) = 0 /\ Len(held) = 0
      BY <2>1 DEF Init, Messages, Events
    <2>5. /\ active \in {"none", "ours", "theirs"} /\ opts \in Turns
          /\ os \in {"none", "alive", "clean", "failed"}
          /\ asks \in {<<a>> : a \in Asks} \cup {<< >>}
          /\ thread \in {"idle", "anonymous", "active", "turn", "error"}
          /\ waits \subseteq Requests /\ stop \in {"no", "interrupt", "grace", "term", "kill", "over"}
          /\ waiter \in {"waiting", "telling", "over"} /\ card \in {"running"} \cup Terminals
          /\ {shut, named, ended, completed, foreign, lost} \subseteq BOOLEAN
      BY DEF Init
    <2>6. lines \in 0..MaxLines /\ told \in Told
      BY <2>2 DEF Init
    <2>7. Len(chan) <= Capacity /\ Len(held) <= 1
      BY <2>2, <2>4
    <2> QED
      BY <2>3, <2>4, <2>5, <2>6, <2>7 DEF TypeOK, Places
  <1>2. LineInv /\ WaitInv
    BY DEF Init, LineInv, WaitInv
  <1>3. BegunInv
    BY DEF Init, BegunInv, Unsent, NoBeginning
  <1>4. EndInv /\ DoneInv
    BY DEF Init, EndInv, DoneInv, Ends
  <1>5. AskInv /\ ToldInv
    BY DEF Init, AskInv, ToldInv, Asked, Once, LineAsks, LineOnce, Unheard
  <1> QED
    BY <1>1, <1>2, <1>3, <1>4, <1>5 DEF IInv

------------------------------------------------------------------------------
\* What the reader makes of a line.
LEMMA ReadTypes == TypeOK /\ LineInv /\ WaitInv /\ Read => TypeOK'
  <1> SUFFICES ASSUME TypeOK, LineInv, WaitInv, Read PROVE TypeOK'
    OBVIOUS
  <1> DEFINE line == Head(stdout)
             awaited == line.re \in waits
             terminal == line.is \in {"completed", "interrupted", "failed", "error"}
  <1>1. stdout # << >> /\ stdout \in Seq(Lines) /\ held = << >> /\ stdout' = Tail(stdout)
    BY Parts DEF Read
  <1>2. line \in Lines /\ stdout' \in Seq(Lines)
    BY <1>1, TurnLines, Shortened
  <1>3. UNCHANGED <<os, stdin, active, asks, told, lines, opts, waiter, card, choice, completed, lost>>
    BY DEF Read
  <1>4. CASE line.re \in Requests
    <2>1. /\ waits' = waits \ {line.re}
          /\ pc' = IF awaited /\ line.re # "interrupt" THEN After(line.re, line.is) ELSE pc
          /\ thread' = IF awaited /\ line.re = "open" THEN line.is ELSE thread
          /\ named' \in BOOLEAN
          /\ stop' = IF awaited /\ line.re = "interrupt" THEN "grace" ELSE stop
          /\ UNCHANGED <<ended, shut, chan, held, foreign>>
      BY <1>4, Parts DEF Read
    <2>2. pc' \in Places
      <3>1. line.re # "interrupt" => After(line.re, line.is) \in Places
        BY <1>4 DEF After, Requests, Places
      <3> QED
        BY <2>1, <3>1, Parts
    <2>3. line.re = "open" => line.is \in {"idle", "anonymous", "active", "turn", "error"}
      BY <1>1, TurnLines DEF LineInv
    <2>4. thread' \in {"idle", "anonymous", "active", "turn", "error"} /\ waits' \subseteq Requests
          /\ stop' \in {"no", "interrupt", "grace", "term", "kill", "over"}
      BY <2>1, <2>3 DEF TypeOK
    <2> QED
      BY <1>2, <1>3, <2>1, <2>2, <2>4 DEF TypeOK, Places
  <1>5. CASE line.re \notin Requests
    <2>1. /\ ended' = (ended \/ terminal) /\ shut' = (shut \/ terminal)
          /\ (IF terminal /\ ended THEN UNCHANGED <<chan, held>> ELSE Emit(EventOf(line.is)))
          /\ foreign' = (foreign \/ line.re = "theirs")
          /\ UNCHANGED <<waits, pc, thread, named, stop>>
      BY <1>5 DEF Read, Finished
    <2>2. {ended', shut', foreign'} \subseteq BOOLEAN
      BY <2>1, Parts
    <2>3. EventOf(line.is) \in Seq(Events) /\ Len(EventOf(line.is)) <= 1
      BY <1>1, <1>5, TurnLines, EventTypes
    <2>4. chan' \in Seq(Events) /\ held' \in Seq(Events) /\ Len(chan') <= Capacity /\ Len(held') <= 1
      <3> HIDE DEF line
      <3>1. CASE UNCHANGED <<chan, held>>
        BY <3>1, Parts DEF TypeOK
      <3>2. CASE Emit(EventOf(line.is))
        <4>1. CASE chan' = chan \o EventOf(line.is) /\ held' = held
                   /\ Len(chan) + Len(EventOf(line.is)) <= Capacity
          <5>1. chan' \in Seq(Events) /\ Len(chan') = Len(chan) + Len(EventOf(line.is))
            BY <2>3, <4>1, Parts, Joined
          <5> QED
            BY <4>1, <5>1, Parts DEF TypeOK
        <4>2. CASE held' = EventOf(line.is) /\ chan' = chan
          BY <2>3, <4>2, Parts DEF TypeOK
        <4> QED
          BY <3>2, <4>1, <4>2 DEF Emit
      <3> QED
        BY <2>1, <3>1, <3>2
    <2> QED
      BY <1>2, <1>3, <2>1, <2>2, <2>4 DEF TypeOK, Events
  <1> QED
    BY <1>4, <1>5

LEMMA AgentTypes ==
  TypeOK /\ (\/ Handle \/ Hear \/ OtherClient
             \/ \E is \in Chatter : Notify(is)
             \/ \E is \in {"completed", "failed"} : Complete(is)
             \/ \E ask \in Asks : AskUser(ask)
             \/ \E how \in {"clean", "failed"} : Die(how)) => TypeOK'
  <1> SUFFICES ASSUME TypeOK PROVE
        (\/ Handle \/ Hear \/ OtherClient
         \/ \E is \in Chatter : Notify(is)
         \/ \E is \in {"completed", "failed"} : Complete(is)
         \/ \E ask \in Asks : AskUser(ask)
         \/ \E how \in {"clean", "failed"} : Die(how)) => TypeOK'
    OBVIOUS
  <1> USE DEF AgentOnly, startVars, runVars
  <1>1. ASSUME Handle PROVE TypeOK'
    <2> DEFINE request == Head(stdin).what
    <2>1. stdin \in Seq(Messages) /\ stdin # << >> /\ request \in Requests /\ stdin' = Tail(stdin)
      BY <1>1, Parts DEF Handle
    <2>2. PICK is \in Replies(request) :
            /\ stdout' = stdout \o (IF request = "interrupt" /\ is = "ok" /\ active = "ours"
                                    THEN <<Line("event", "interrupted")>> ELSE << >>)
                                \o <<Line(request, is)>>
            /\ active' = CASE request \in {"steer", "start"} /\ is # "error" -> "ours"
                           [] request = "interrupt" /\ is = "ok" -> "none"
                           [] OTHER -> active
      BY <1>1 DEF Handle
    <2>3. stdin' \in Seq(Messages)
      BY <2>1, Shortened
    <2>4. active' \in {"none", "ours", "theirs"}
      BY <2>2 DEF TypeOK
    <2>5. Line(request, is) \in Lines /\ Line("event", "interrupted") \in Lines
      BY <2>1, ReplyTypes DEF Line, Lines
    <2>6. stdout' \in Seq(Lines)
      <3> DEFINE told2 == IF request = "interrupt" /\ is = "ok" /\ active = "ours"
                          THEN <<Line("event", "interrupted")>> ELSE << >>
      <3>1. told2 \in Seq(Lines) /\ <<Line(request, is)>> \in Seq(Lines)
        BY <2>5
      <3>2. stdout' = stdout \o told2 \o <<Line(request, is)>>
        BY <2>2
      <3> HIDE DEF told2, request
      <3>3. stdout \o told2 \in Seq(Lines)
        BY <3>1, Parts, Joined
      <3> QED
        BY <3>1, <3>2, <3>3, Joined
    <2> QED
      BY <1>1, <2>3, <2>4, <2>6 DEF Handle, TypeOK, Messages
  <1>2. ASSUME Hear PROVE TypeOK'
    <2>1. stdin' \in Seq(Messages) /\ told' \in Told
      <3>1. stdin \in Seq(Messages) /\ stdin # << >> /\ stdin' = Tail(stdin)
            /\ told' = Head(stdin).answers
        BY <1>2, Parts DEF Hear
      <3>2. stdin' \in Seq(Messages) /\ Head(stdin) \in Messages
        BY <3>1, Shortened
      <3> QED
        BY <3>1, <3>2 DEF Messages
    <2> QED
      BY <1>2, <2>1 DEF Hear, TypeOK, Messages
  <1>3. ASSUME OtherClient PROVE TypeOK'
    <2>1. stdout' \in Seq(Lines)
      <3>1. Line("theirs", "completed") \in Lines
        BY DEF Line, Lines
      <3>2. Append(stdout, Line("theirs", "completed")) \in Seq(Lines) /\ stdout \in Seq(Lines)
        BY <3>1, Parts, Appended
      <3> QED
        BY <1>3, <3>2 DEF OtherClient
    <2>2. lines' \in 0..MaxLines
      BY <1>3, Bounds DEF OtherClient, TypeOK
    <2>3. active' \in {"none", "ours", "theirs"}
      BY <1>3 DEF OtherClient
    <2> QED
      BY <1>3, <2>1, <2>2, <2>3 DEF OtherClient, TypeOK
  <1>4. ASSUME NEW is \in Chatter, Notify(is) PROVE TypeOK'
    <2>1. stdout' \in Seq(Lines)
      <3>1. Line("event", is) \in Lines
        BY DEF Line, Lines
      <3> QED
        BY <1>4, <3>1, Parts, Appended DEF Notify
    <2>2. lines' \in 0..MaxLines
      BY <1>4, Bounds DEF Notify, TypeOK
    <2> QED
      BY <1>4, <2>1, <2>2 DEF Notify, TypeOK
  <1>5. ASSUME NEW is \in {"completed", "failed"}, Complete(is) PROVE TypeOK'
    <2>1. stdout' \in Seq(Lines)
      <3>1. Line("event", is) \in Lines
        BY DEF Line, Lines
      <3> QED
        BY <1>5, <3>1, Parts, Appended DEF Complete
    <2> QED
      BY <1>5, <2>1 DEF Complete, TypeOK
  <1>6. ASSUME NEW ask \in Asks, AskUser(ask) PROVE TypeOK'
    <2>1. stdout' \in Seq(Lines)
      <3>1. Line("event", "ask") \in Lines
        BY DEF Line, Lines
      <3> QED
        BY <1>6, <3>1, Parts, Appended DEF AskUser
    <2>2. asks' \in {<<a>> : a \in Asks} \cup {<< >>}
      BY <1>6 DEF AskUser
    <2> QED
      BY <1>6, <2>1, <2>2 DEF AskUser, TypeOK
  <1>7. ASSUME NEW how \in {"clean", "failed"}, Die(how) PROVE TypeOK'
    <2>1. stdin' \in Seq(Messages) /\ active' \in {"none", "ours", "theirs"}
          /\ os' \in {"none", "alive", "clean", "failed"}
      BY <1>7 DEF Die, Gone
    <2> QED
      BY <1>7, <2>1 DEF Die, TypeOK, Messages
  <1> QED
    BY <1>1, <1>2, <1>3, <1>4, <1>5, <1>6, <1>7

\* The steps of the other goroutines, and of Stop.
LEMMA BridgeTypes ==
  TypeOK /\ (Starting \/ Loop \/ Unblock \/ Notice \/ Tell \/ Stopping
             \/ \E by \in {"command", "idle"} : Stop(by)) => TypeOK'
  <1> SUFFICES ASSUME TypeOK PROVE
        (Starting \/ Loop \/ Unblock \/ Notice \/ Tell \/ Stopping
         \/ \E by \in {"command", "idle"} : Stop(by)) => TypeOK'
    OBVIOUS
  <1> USE DEF agentVars, startVars, runVars
  <1>1. ASSUME NEW ok \in BOOLEAN, StartDaemon(ok) PROVE TypeOK'
    <2>1. pc' \in Places
      BY <1>1 DEF StartDaemon, Places
    <2> QED
      BY <1>1, <2>1 DEF StartDaemon, TypeOK, Places
  <1>2. ASSUME NEW ok \in BOOLEAN, Spawn(ok) PROVE TypeOK'
    <2>1. pc' \in Places /\ os' \in {"none", "alive", "clean", "failed"}
      BY <1>2 DEF Spawn, Places, Requests
    <2> QED
      BY <1>2, <2>1 DEF Spawn, TypeOK, Places
  <1>3. ASSUME NEW request \in Requests, Send(request) PROVE TypeOK'
    <2>1. CASE ended \/ Dead
      <3>1. pc' \in Places /\ UNCHANGED <<stdin, waits>>
        BY <1>3, <2>1 DEF Send, Places
      <3>2. UNCHANGED <<os, shut, stdout, active, asks, told, lines, completed, opts, thread, named,
                        ended, chan, held, waiter, stop, card, choice, foreign, lost>>
        BY <1>3 DEF Send
      <3> QED
        BY <3>1, <3>2 DEF TypeOK, Places
    <2>2. CASE ~(ended \/ Dead)
      <3>1. stdin' = Append(stdin, Request(request)) /\ waits' = waits \cup {request} /\ pc' = pc
        BY <1>3, <2>2 DEF Send
      <3>2. Request(request) \in Messages
        BY Parts DEF Request, Message, Messages
      <3>3. stdin' \in Seq(Messages)
        BY <3>1, <3>2, Parts, Appended
      <3> QED
        BY <1>3, <3>1, <3>3 DEF Send, TypeOK, Messages
    <2> QED
      BY <2>1, <2>2
  <1>4. ASSUME NEW request \in Requests, Timeout(request) PROVE TypeOK'
    <2>1. pc' \in Places /\ waits' \subseteq Requests
      BY <1>4 DEF Timeout, Places, TypeOK
    <2> QED
      BY <1>4, <2>1 DEF Timeout, TypeOK, Places
  <1>5. ASSUME EmitSystem PROVE TypeOK'
    <2>1. pc' \in Places
      BY <1>5 DEF EmitSystem, Join, Places, Requests
    <2>2. chan' \in Seq(Events) /\ Len(chan') <= Capacity
      <3>1. CASE chan' = chan
        BY <3>1, Parts DEF TypeOK
      <3>2. CASE Len(chan) < Capacity /\ chan' = Append(chan, "text")
        <4>1. "text" \in Events
          BY DEF Events
        <4>2. chan' \in Seq(Events) /\ Len(chan') = Len(chan) + 1
          BY <3>2, <4>1, Parts, Appended
        <4> QED
          BY <3>2, <4>2, Parts
      <3> QED
        BY <1>5, <3>1, <3>2 DEF EmitSystem
    <2> QED
      BY <1>5, <2>1, <2>2 DEF EmitSystem, TypeOK, Places, Events
  <1>6. ASSUME Fail PROVE TypeOK'
    <2>1. pc' \in Places
      BY <1>6 DEF Fail, Places
    <2>2. stdin' \in Seq(Messages) /\ active' \in {"none", "ours", "theirs"}
          /\ os' \in {"none", "alive", "clean", "failed"}
      <3>1. CASE os = "alive"
        <4>1. << >> \in Seq(Messages)
          OBVIOUS
        <4>2. stdin' = << >> /\ active' = "none" /\ os' = "failed"
          BY <1>6, <3>1 DEF Fail, Gone
        <4> QED
          BY <4>1, <4>2
      <3>2. CASE os # "alive"
        <4>1. UNCHANGED <<os, stdin, active>>
          BY <1>6, <3>2 DEF Fail
        <4> QED
          BY <4>1, Parts DEF TypeOK
      <3> QED
        BY <3>1, <3>2
    <2> QED
      BY <1>6, <2>1, <2>2 DEF Fail, TypeOK, Messages, Places
  <1>7. ASSUME Receive PROVE TypeOK'
    <2>1. chan' \in Seq(Events) /\ Len(chan') <= Capacity /\ Head(chan) \in Events
      <3>1. chan # << >> /\ chan' = Tail(chan)
        BY <1>7 DEF Receive
      <3>2. chan' \in Seq(Events) /\ Len(chan') = Len(chan) - 1 /\ Head(chan) \in Events
        BY <3>1, Parts, Shortened
      <3> QED
        BY <3>2, Parts DEF TypeOK
    <2>2. pc' \in Places /\ card' \in {"running"} \cup Terminals
      BY <1>7, Parts DEF Receive, TypeOK, Places
    <2> QED
      BY <1>7, <2>1, <2>2 DEF Receive, TypeOK, Places, Events
  <1>8. ASSUME SeesClose PROVE TypeOK'
    <2>1. pc' \in Places /\ card' \in {"running"} \cup Terminals
      BY <1>8 DEF SeesClose, TypeOK, Places, Terminals
    <2> QED
      BY <1>8, <2>1 DEF SeesClose, TypeOK, Places
  <1>9. ASSUME NEW ask \in Asks, asks = <<ask>>, NEW c \in UserChoices(ask), Answer(c) PROVE TypeOK'
    <2>1. stdin' \in Seq(Messages)
      <3>1. Reply(ask, c) \in Told /\ asks[1] = ask
        BY <1>9 DEF Told
      <3>2. Message("answer", Reply(asks[1], c)) \in Messages
        BY <3>1 DEF Message, Messages
      <3> QED
        BY <1>9, <3>2, Parts, Appended DEF Answer
    <2>2. pc' \in Places
      BY <1>9 DEF Answer, Places
    <2> QED
      BY <1>9, <2>1, <2>2 DEF Answer, TypeOK, Messages, Places
  <1>10. ASSUME Unblock PROVE TypeOK'
    <2>1. held # << >> /\ Len(chan) < Capacity /\ chan' = chan \o held /\ held' = << >>
      BY <1>10 DEF Unblock
    <2>2. chan' \in Seq(Events) /\ Len(chan') = Len(chan) + Len(held)
      BY <2>1, Parts, Joined
    <2>3. held' \in Seq(Events) /\ Len(held') <= 1 /\ Len(chan') <= Capacity
      BY <2>1, <2>2, Parts DEF TypeOK
    <2> QED
      BY <1>10, <2>2, <2>3 DEF Unblock, TypeOK, Events
  <1>11. ASSUME Notice PROVE TypeOK'
    <2>1. pc' \in Places /\ stop' \in {"no", "interrupt", "grace", "term", "kill", "over"}
      BY <1>11, Parts DEF Notice, TypeOK, Places
    <2>2. stdout' \in Seq(Lines) /\ waits' \subseteq Requests /\ ended' \in BOOLEAN
      <3>1. << >> \in Seq(Lines)
        OBVIOUS
      <3>2. stdout' \in {stdout, << >>} /\ waits' = {} /\ ended' = TRUE
        BY <1>11 DEF Notice
      <3> QED
        BY <3>1, <3>2, Parts
    <2>3. waiter' \in {"waiting", "telling", "over"} /\ lost' \in BOOLEAN
      BY <1>11, Parts DEF Notice, Close
    <2>4. held' \in Seq(Events) /\ Len(held') <= 1
      <3>1. << >> \in Seq(Events) /\ Len(<< >>) = 0
        OBVIOUS
      <3>2. held' = held \/ held' = << >>
        BY <1>11 DEF Notice, Close
      <3>3. CASE held' = held
        BY <3>3, Parts DEF TypeOK
      <3>4. CASE held' = << >>
        BY <3>1, <3>4
      <3> QED
        BY <3>2, <3>3, <3>4
    <2> QED
      BY <1>11, <2>1, <2>2, <2>3, <2>4 DEF Notice, TypeOK, Places, Events
  <1>12. ASSUME Tell PROVE TypeOK'
    <2>1. "error" \in Events
      BY DEF Events, Terminals
    <2>2. Len(chan) < Capacity /\ chan' = Append(chan, "error") /\ held' = << >>
          /\ waiter' = "over" /\ lost' = (held # << >>)
      BY <1>12 DEF Tell, Close
    <2>3. chan' \in Seq(Events) /\ Len(chan') = Len(chan) + 1
      BY <2>1, <2>2, Parts, Appended
    <2>4. held' \in Seq(Events) /\ Len(held') <= 1 /\ Len(chan') <= Capacity
      BY <2>2, <2>3, Parts
    <2> QED
      BY <1>12, <2>2, <2>3, <2>4 DEF Tell, TypeOK, Events
  <1>13. ASSUME NEW by \in {"command", "idle"}, Stop(by) PROVE TypeOK'
    <2>1. pc' \in Places /\ stop' \in {"no", "interrupt", "grace", "term", "kill", "over"}
      BY <1>13, Parts DEF Stop, Places
    <2>2. stdin' \in Seq(Messages) /\ waits' \subseteq Requests
      <3>1. Request("interrupt") \in Messages
        BY Parts DEF Request, Message, Messages, Requests
      <3>2. Append(stdin, Request("interrupt")) \in Seq(Messages) /\ stdin \in Seq(Messages)
        BY <3>1, Parts, Appended
      <3> QED
        BY <1>13, <3>2 DEF Stop, TypeOK, Requests
    <2> QED
      BY <1>13, <2>1, <2>2 DEF Stop, TypeOK, Places, Messages
  <1>14. ASSUME InterruptFails PROVE TypeOK'
    <2>1. waits' \subseteq Requests
      BY <1>14 DEF InterruptFails, TypeOK
    <2> QED
      BY <1>14, <2>1 DEF InterruptFails, TypeOK
  <1>15. ASSUME StopReturns PROVE TypeOK'
    <2>1. pc' \in Places
      BY <1>15, Parts DEF StopReturns, Return, Places
    <2> QED
      BY <1>15, <2>1 DEF StopReturns, TypeOK, Places
  <1>16. ASSUME Signal PROVE TypeOK'
    BY <1>16 DEF Signal, TypeOK
  <1>17. ASSUME Kill PROVE TypeOK'
    <2>1. stdin' \in Seq(Messages) /\ active' \in {"none", "ours", "theirs"}
          /\ os' \in {"none", "alive", "clean", "failed"}
      <3>1. CASE os = "alive"
        <4>1. << >> \in Seq(Messages)
          OBVIOUS
        <4>2. stdin' = << >> /\ active' = "none" /\ os' = "failed"
          BY <1>17, <3>1 DEF Kill, Gone
        <4> QED
          BY <4>1, <4>2
      <3>2. CASE os # "alive"
        <4>1. UNCHANGED <<os, stdin, active>>
          BY <1>17, <3>2 DEF Kill
        <4> QED
          BY <4>1, Parts DEF TypeOK
      <3> QED
        BY <3>1, <3>2
    <2> QED
      BY <1>17, <2>1 DEF Kill, TypeOK, Messages
  <1> HIDE DEF agentVars, startVars, runVars
  <1>18. Starting => TypeOK'
    BY <1>1, <1>2, <1>3, <1>4, <1>5, <1>6 DEF Starting
  <1>19. Loop => TypeOK'
    BY <1>7, <1>8, <1>9 DEF Loop
  <1>20. Stopping => TypeOK'
    BY <1>14, <1>15, <1>16, <1>17 DEF Stopping
  <1> QED
    BY <1>10, <1>11, <1>12, <1>13, <1>18, <1>19, <1>20

LEMMA TypeStep == TypeOK /\ LineInv /\ WaitInv /\ [Next]_vars => TypeOK'
  <1>1. TypeOK /\ UNCHANGED vars => TypeOK'
    BY DEF vars, agentVars, startVars, runVars, TypeOK
  <1> QED
    BY <1>1, ReadTypes, AgentTypes, BridgeTypes DEF Next

------------------------------------------------------------------------------
\* What a new line may say; and lines that are added or taken keep LineInv.
Says(line) ==
  /\ line.re = "open" => line.is \in {"error", "idle", "anonymous", "active", "turn"}
  /\ line.re = "event" => line.is \in {"ask", "completed", "interrupted", "failed"} \cup Chatter
  /\ line.re = "theirs" => line.is = "completed"
  /\ line.re = "event" /\ line.is = "completed" => completed

LEMMA LineStep == TypeOK /\ LineInv /\ BegunInv /\ [Next]_vars => LineInv'
  <1> SUFFICES ASSUME TypeOK, LineInv, BegunInv, [Next]_vars PROVE LineInv'
    OBVIOUS
  <1> USE DEF AgentOnly, agentVars, startVars, runVars
  <1>1. ASSUME stdout' = stdout, completed => completed' PROVE LineInv'
    BY <1>1 DEF LineInv
  <1>2. ASSUME NEW line \in Lines, stdout' = Append(stdout, line), completed => completed', Says(line)'
        PROVE  LineInv'
    BY <1>2, Parts, Appended DEF LineInv, Says
  <1>3. ASSUME stdout # << >>, stdout' = Tail(stdout), completed' = completed PROVE LineInv'
    BY <1>3, Parts, Shortened DEF LineInv
  <1>4. ASSUME stdout' = << >> PROVE LineInv'
    BY <1>4 DEF LineInv
  <1>5. ASSUME Handle PROVE LineInv'
    <2> DEFINE request == Head(stdin).what
    <2>1. request \in Requests /\ completed' = completed
      BY <1>5 DEF Handle
    <2>2. PICK is \in Replies(request) :
            stdout' = stdout \o (IF request = "interrupt" /\ is = "ok" /\ active = "ours"
                                 THEN <<Line("event", "interrupted")>> ELSE << >>)
                             \o <<Line(request, is)>>
      BY <1>5 DEF Handle
    <2> DEFINE more == IF request = "interrupt" /\ is = "ok" /\ active = "ours"
                       THEN <<Line("event", "interrupted")>> ELSE << >>
    <2>3. Line(request, is) \in Lines /\ Line("event", "interrupted") \in Lines
      BY <2>1, ReplyTypes DEF Line, Lines
    <2>4. more \in Seq(Lines) /\ <<Line(request, is)>> \in Seq(Lines)
      BY <2>3
    <2>5. \A i \in DOMAIN more : more[i] = Line("event", "interrupted")
      OBVIOUS
    <2>6. \A i \in DOMAIN <<Line(request, is)>> : <<Line(request, is)>>[i] = Line(request, is)
      OBVIOUS
    <2>7. Says(Line("event", "interrupted")) /\ Says(Line(request, is))
      BY <2>1, ReplyTypes DEF Says, Line, Requests
    <2>8. \A i \in DOMAIN stdout : Says(stdout[i])
      BY DEF LineInv, Says
    <2> DEFINE last == <<Line(request, is)>>
    <2>9. stdout' = (stdout \o more) \o last
      BY <2>2
    <2>10. \A i \in DOMAIN more : Says(more[i])
      BY <2>5, <2>7
    <2>11. \A i \in DOMAIN last : Says(last[i])
      BY <2>6, <2>7
    <2>12. more \in Seq(Lines) /\ last \in Seq(Lines)
      BY <2>4
    <2> HIDE DEF more, last
    <2>13. stdout \o more \in Seq(Lines) /\ \A i \in DOMAIN (stdout \o more) : Says((stdout \o more)[i])
      <3>1. /\ stdout \o more \in Seq(Lines)
            /\ \A i \in DOMAIN (stdout \o more) :
                 \/ i \in DOMAIN stdout /\ (stdout \o more)[i] = stdout[i]
                 \/ i - Len(stdout) \in DOMAIN more /\ (stdout \o more)[i] = more[i - Len(stdout)]
        BY <2>12, Parts, Joined
      <3> QED
        BY <3>1, <2>8, <2>10
    <2> DEFINE both == stdout \o more
    <2>14. /\ \A i \in DOMAIN (both \o last) :
                \/ i \in DOMAIN both /\ (both \o last)[i] = both[i]
                \/ i - Len(both) \in DOMAIN last /\ (both \o last)[i] = last[i - Len(both)]
      BY <2>12, <2>13, Joined
    <2>15. \A i \in DOMAIN stdout' : Says(stdout'[i])
      <3>1. stdout' = both \o last /\ \A i \in DOMAIN both : Says(both[i])
        BY <2>9, <2>13
      <3> HIDE DEF both
      <3> QED
        BY <3>1, <2>11, <2>14
    <2> QED
      BY <2>1, <2>15 DEF LineInv, Says
  <1>6. ASSUME OtherClient PROVE LineInv'
    <2>1. Line("theirs", "completed") \in Lines /\ Says(Line("theirs", "completed"))'
      BY DEF Line, Lines, Says
    <2> QED
      BY <1>1, <1>2, <1>6, <2>1 DEF OtherClient
  <1>7. ASSUME NEW is \in Chatter, Notify(is) PROVE LineInv'
    <2>1. Line("event", is) \in Lines /\ Says(Line("event", is))'
      BY TurnAssumption DEF Line, Lines, Says
    <2> QED
      BY <1>2, <1>7, <2>1 DEF Notify
  <1>8. ASSUME NEW is \in {"completed", "failed"}, Complete(is) PROVE LineInv'
    <2>1. Line("event", is) \in Lines /\ Says(Line("event", is))' /\ ~completed
      BY <1>8 DEF Line, Lines, Says, Complete, Working, BegunInv
    <2> QED
      BY <1>2, <1>8, <2>1 DEF Complete
  <1>9. ASSUME NEW ask \in Asks, AskUser(ask) PROVE LineInv'
    <2>1. Line("event", "ask") \in Lines /\ Says(Line("event", "ask"))'
      BY DEF Line, Lines, Says
    <2> QED
      BY <1>2, <1>9, <2>1 DEF AskUser
  <1>10. ASSUME Read PROVE LineInv'
    BY <1>3, <1>10 DEF Read
  <1>11. ASSUME Notice PROVE LineInv'
    BY <1>1, <1>4, <1>11 DEF Notice
  <1>12. ASSUME Hear \/ \E how \in {"clean", "failed"} : Die(how) PROVE LineInv'
    BY <1>1, <1>12 DEF Hear, Die
  <1>13. ASSUME Starting PROVE LineInv'
    BY <1>1, <1>13 DEF Starting, StartDaemon, Spawn, Send, Timeout, EmitSystem, Fail
  <1>14. ASSUME Loop \/ Unblock \/ Tell PROVE LineInv'
    BY <1>1, <1>14 DEF Loop, Receive, SeesClose, Answer, Unblock, Tell
  <1>15. ASSUME Stopping \/ \E by \in {"command", "idle"} : Stop(by) PROVE LineInv'
    BY <1>1, <1>15 DEF Stopping, Stop, InterruptFails, StopReturns, Signal, Kill
  <1>16. CASE UNCHANGED vars
    BY <1>1, <1>16 DEF vars
  <1> HIDE DEF AgentOnly, agentVars, startVars, runVars
  <1> QED
    BY <1>5, <1>6, <1>7, <1>8, <1>9, <1>10, <1>11, <1>12, <1>13, <1>14, <1>15, <1>16 DEF Next

LEMMA WaitStep == TypeOK /\ WaitInv /\ [Next]_vars => WaitInv'
  <1> SUFFICES ASSUME TypeOK, WaitInv, [Next]_vars PROVE WaitInv'
    OBVIOUS
  <1> USE DEF AgentOnly, agentVars, startVars, runVars
  <1>1. ASSUME pc' = pc, waits' \subseteq waits \cup {"interrupt"} PROVE WaitInv'
    BY <1>1 DEF WaitInv
  <1>2. ASSUME pc \notin Requests, waits' \subseteq waits \cup {"interrupt"} PROVE WaitInv'
    BY <1>2 DEF WaitInv, TypeOK
  <1>3. ASSUME waits' = {} PROVE WaitInv'
    BY <1>3 DEF WaitInv
  <1>4. ASSUME Read PROVE WaitInv'
    <2> DEFINE line == Head(stdout)
    <2>1. CASE line.re \in Requests /\ line.re \in waits /\ line.re # "interrupt"
      <3>1. waits' = waits \ {line.re} /\ pc = line.re
        BY <1>4, <2>1 DEF Read, WaitInv
      <3> HIDE DEF line
      <3> QED
        BY <3>1 DEF WaitInv
    <2>2. CASE ~(line.re \in Requests /\ line.re \in waits /\ line.re # "interrupt")
      <3>1. pc' = pc /\ waits' \subseteq waits
        BY <1>4, <2>2 DEF Read
      <3> QED
        BY <1>1, <3>1
    <2> QED
      BY <2>1, <2>2
  <1>5. ASSUME Notice PROVE WaitInv'
    BY <1>3, <1>5 DEF Notice
  <1>6. ASSUME NEW request \in Requests, Send(request) PROVE WaitInv'
    <2>1. pc = request /\ waits' \subseteq waits \cup {request} /\ (pc' = pc \/ waits' = waits)
          /\ request \notin waits
      BY <1>6 DEF Send
    <2> QED
      BY <2>1 DEF WaitInv
  <1>7. ASSUME NEW request \in Requests, Timeout(request) PROVE WaitInv'
    BY <1>7 DEF Timeout, WaitInv
  <1>8. ASSUME NEW ok \in BOOLEAN, StartDaemon(ok) \/ Spawn(ok) PROVE WaitInv'
    BY <1>2, <1>8 DEF StartDaemon, Spawn, Requests
  <1>9. ASSUME EmitSystem \/ Fail PROVE WaitInv'
    BY <1>2, <1>9 DEF EmitSystem, Fail, Requests
  <1>10. ASSUME Loop PROVE WaitInv'
    BY <1>2, <1>10 DEF Loop, Receive, SeesClose, Answer, Requests
  <1>11. ASSUME Unblock \/ Tell PROVE WaitInv'
    BY <1>1, <1>11 DEF Unblock, Tell
  <1>12. ASSUME NEW by \in {"command", "idle"}, Stop(by) PROVE WaitInv'
    BY <1>2, <1>12 DEF Stop, Requests
  <1>13. ASSUME Stopping PROVE WaitInv'
    <2>1. ASSUME InterruptFails PROVE WaitInv'
      BY <1>1, <2>1 DEF InterruptFails
    <2>2. ASSUME StopReturns PROVE WaitInv'
      <3>1. waits' = waits /\ (pc' = pc \/ pc \notin Requests)
        BY <2>2 DEF StopReturns, Return, Requests
      <3> QED
        BY <1>1, <1>2, <3>1
    <2>3. ASSUME Signal \/ Kill PROVE WaitInv'
      BY <1>1, <2>3 DEF Signal, Kill
    <2> QED
      BY <1>13, <2>1, <2>2, <2>3 DEF Stopping
  <1>14. ASSUME Handle \/ Hear \/ OtherClient PROVE WaitInv'
    BY <1>1, <1>14 DEF Handle, Hear, OtherClient
  <1>15. ASSUME \/ \E is \in Chatter : Notify(is)
                \/ \E is \in {"completed", "failed"} : Complete(is)
                \/ \E ask \in Asks : AskUser(ask)
                \/ \E how \in {"clean", "failed"} : Die(how)
         PROVE  WaitInv'
    BY <1>1, <1>15 DEF Notify, Complete, AskUser, Die
  <1>16. CASE UNCHANGED vars
    BY <1>1, <1>16 DEF vars
  <1> HIDE DEF AgentOnly, agentVars, startVars, runVars
  <1>17. Starting => WaitInv'
    BY <1>6, <1>7, <1>8, <1>9 DEF Starting
  <1> QED
    BY <1>4, <1>5, <1>10, <1>11, <1>12, <1>13, <1>14, <1>15, <1>16, <1>17 DEF Next

------------------------------------------------------------------------------
\* What a step does to the queue of the agent.
AtMostOne == \A i, j \in DOMAIN stdin : stdin[i].what \in Beginning /\ stdin[j].what \in Beginning => i = j

LEMMA BegunStep == TypeOK /\ WaitInv /\ BegunInv /\ [Next]_vars => BegunInv'
  <1> SUFFICES ASSUME TypeOK, WaitInv, BegunInv, [Next]_vars PROVE BegunInv'
    OBVIOUS
  <1> USE DEF AgentOnly, agentVars, startVars, runVars
  \* A queue that shrinks from its front, is emptied, or grows by what begins nothing.
  <1>1. AtMostOne
    BY DEF BegunInv, AtMostOne
  <1>2. ASSUME stdin # << >>, stdin' = Tail(stdin)
        PROVE  /\ NoBeginning => NoBeginning' /\ AtMostOne'
               /\ AtMostOne' /\ (Head(stdin).what \in Beginning => NoBeginning')
    BY <1>1, <1>2, Parts, Shortened DEF AtMostOne, NoBeginning
  <1>3. ASSUME stdin' = << >> PROVE NoBeginning' /\ AtMostOne'
    BY <1>3 DEF AtMostOne, NoBeginning
  <1>4. ASSUME stdin' = stdin PROVE (NoBeginning' <=> NoBeginning) /\ AtMostOne'
    BY <1>1, <1>4 DEF AtMostOne, NoBeginning
  <1>5. ASSUME NEW m \in Messages, m.what \notin Beginning, stdin' = Append(stdin, m)
        PROVE  (NoBeginning' <=> NoBeginning) /\ AtMostOne'
    BY <1>1, <1>5, Parts, Appended DEF AtMostOne, NoBeginning
  <1>6. ASSUME NEW m \in Messages, NoBeginning, stdin' = Append(stdin, m) PROVE AtMostOne'
    BY <1>6, Parts, Appended DEF AtMostOne, NoBeginning
  <1>7. ASSUME (NoBeginning' <=> NoBeginning) /\ AtMostOne', active' = "ours" <=> active = "ours",
               completed' = completed, Unsent' => Unsent
        PROVE  BegunInv'
    BY <1>7 DEF BegunInv, AtMostOne
  <1>8. ASSUME pc' = pc, waits' \in {waits, waits \cup {"interrupt"}, waits \ {"interrupt"}}
        PROVE  Unsent' => Unsent
    BY <1>8 DEF Unsent, Beginning
  <1>9. ASSUME stdin' = << >>, active' = "none", completed' = completed, Unsent' => Unsent
        PROVE  BegunInv'
    BY <1>3, <1>9 DEF BegunInv, AtMostOne
  <1>10. ASSUME Handle PROVE BegunInv'
    <2> DEFINE request == Head(stdin).what
    <2>1. stdin # << >> /\ stdin' = Tail(stdin) /\ completed' = completed /\ pc' = pc /\ waits' = waits
      BY <1>10 DEF Handle
    <2>2. Unsent' <=> Unsent
      BY <2>1 DEF Unsent
    <2>3. \/ active' = active \/ active' = "none"
          \/ active' = "ours" /\ request \in Beginning
      BY <1>10 DEF Handle, Beginning
    <2>4. request \in Beginning => ~NoBeginning
      BY <2>1, Parts, Shortened DEF NoBeginning
    <2> HIDE DEF request
    <2>5. /\ NoBeginning => NoBeginning'
          /\ AtMostOne' /\ (request \in Beginning => NoBeginning')
      BY <1>2, <2>1 DEF request
    <2> QED
      BY <2>1, <2>2, <2>3, <2>4, <2>5 DEF BegunInv, AtMostOne
  <1>11. ASSUME Hear PROVE BegunInv'
    <2>1. stdin # << >> /\ stdin' = Tail(stdin) /\ completed' = completed /\ pc' = pc /\ waits' = waits
          /\ active' = active
      BY <1>11 DEF Hear
    <2>2. Unsent' <=> Unsent
      BY <2>1 DEF Unsent
    <2> QED
      BY <1>2, <2>1, <2>2 DEF BegunInv, AtMostOne
  <1>12. ASSUME stdin' = stdin, completed' = completed, pc' = pc, waits' = waits,
                active' = "ours" <=> active = "ours"
         PROVE  BegunInv'
    BY <1>4, <1>7, <1>8, <1>12
  <1>13. ASSUME NEW is \in {"completed", "failed"}, Complete(is) PROVE BegunInv'
    <2>1. stdin' = stdin /\ active = "ours" /\ active' = "none" /\ pc' = pc /\ waits' = waits
      BY <1>13 DEF Complete, Working
    <2>2. ~Unsent' /\ NoBeginning'
      BY <1>4, <1>8, <2>1 DEF BegunInv
    <2> QED
      BY <1>4, <2>1, <2>2 DEF BegunInv, AtMostOne
  <1>14. ASSUME NEW how \in {"clean", "failed"}, Die(how) PROVE BegunInv'
    BY <1>8, <1>9, <1>14 DEF Die, Gone
  <1>15. ASSUME Read PROVE BegunInv'
    <2> DEFINE line == Head(stdout)
    <2>1. stdin' = stdin /\ completed' = completed /\ active' = active
      BY <1>15 DEF Read
    <2>2. Unsent' => Unsent
      <3>1. CASE line.re \in Requests /\ line.re \in waits /\ line.re # "interrupt"
        <4>1. pc' = After(line.re, line.is) /\ pc = line.re
          BY <1>15, <3>1 DEF Read, WaitInv
        <4>2. line.re \in Beginning => pc' \in {"failing", "reading"}
          BY <4>1 DEF After, Beginning
        <4>3. CASE line.re \in Beginning
          BY <4>2, <4>3 DEF Unsent, Beginning
        <4>4. CASE line.re \notin Beginning
          BY <3>1, <4>1, <4>4 DEF Unsent, Beginning, Requests
        <4> QED
          BY <4>3, <4>4
      <3>2. CASE ~(line.re \in Requests /\ line.re \in waits /\ line.re # "interrupt")
        <4>1. pc' = pc /\ waits' \in {waits, waits \ {"interrupt"}}
          BY <1>15, <3>2 DEF Read
        <4> QED
          BY <1>8, <4>1
      <3> QED
        BY <3>1, <3>2
    <2> QED
      BY <1>4, <1>7, <2>1, <2>2
  <1>16. ASSUME Notice PROVE BegunInv'
    <2>1. stdin' = stdin /\ completed' = completed /\ active' = active /\ waits' = {}
          /\ pc' = IF waits \ {"interrupt"} # {} THEN "failing" ELSE pc
      BY <1>16 DEF Notice
    <2>2. Unsent' => Unsent
      BY <2>1 DEF Unsent, Beginning
    <2> QED
      BY <1>4, <1>7, <2>1, <2>2
  <1>17. ASSUME Unblock \/ Tell \/ Signal \/ InterruptFails PROVE BegunInv'
    <2>1. stdin' = stdin /\ completed' = completed /\ active' = active /\ pc' = pc
          /\ waits' \in {waits, waits \ {"interrupt"}}
      BY <1>17 DEF Unblock, Tell, Signal, InterruptFails
    <2> QED
      BY <1>4, <1>7, <1>8, <2>1
  <1>18. ASSUME NEW ok \in BOOLEAN, StartDaemon(ok) \/ Spawn(ok) PROVE BegunInv'
    <2>1. stdin' = stdin /\ completed' = completed /\ active' = active /\ Unsent
      BY <1>18 DEF StartDaemon, Spawn, Unsent
    <2> QED
      BY <1>4, <1>7, <2>1
  <1>19. ASSUME EmitSystem PROVE BegunInv'
    <2>1. stdin' = stdin /\ completed' = completed /\ active' = active /\ Unsent
      BY <1>19 DEF EmitSystem, Unsent
    <2> QED
      BY <1>4, <1>7, <2>1
  <1>20. ASSUME NEW request \in Requests, Send(request) PROVE BegunInv'
    <2>1. completed' = completed /\ active' = active /\ pc = request /\ request \notin waits
      BY <1>20 DEF Send
    <2>2. CASE ended \/ Dead
      <3>1. stdin' = stdin /\ pc' = "failing"
        BY <1>20, <2>2 DEF Send
      <3>2. ~Unsent'
        BY <3>1 DEF Unsent, Beginning
      <3> QED
        BY <1>4, <1>7, <2>1, <3>1, <3>2
    <2>3. CASE ~(ended \/ Dead)
      <3>1. stdin' = Append(stdin, Request(request)) /\ waits' = waits \cup {request} /\ pc' = pc
        BY <1>20, <2>3 DEF Send
      <3>2. Request(request) \in Messages /\ Request(request).what = request
        BY Parts DEF Request, Message, Messages
      <3>3. Unsent
        BY <2>1, Parts DEF Unsent, Beginning, Places, Requests
      <3>4. CASE request \in Beginning
        <4>1. ~Unsent'
          BY <2>1, <3>1, <3>4 DEF Unsent, Beginning
        <4>2. active' # "ours" /\ ~completed' /\ NoBeginning
          BY <2>1, <3>3 DEF BegunInv
        <4> QED
          BY <1>6, <3>1, <3>2, <4>1, <4>2 DEF BegunInv, AtMostOne
      <3>5. CASE request \notin Beginning
        BY <1>5, <1>7, <2>1, <3>1, <3>2, <3>3, <3>5
      <3> QED
        BY <3>4, <3>5
    <2> QED
      BY <2>2, <2>3
  <1>21. ASSUME NEW request \in Requests, Timeout(request) PROVE BegunInv'
    <2>1. stdin' = stdin /\ completed' = completed /\ active' = active /\ pc' = "failing"
      BY <1>21 DEF Timeout
    <2>2. ~Unsent'
      BY <2>1 DEF Unsent, Beginning
    <2> QED
      BY <1>4, <1>7, <2>1, <2>2
  <1>22. ASSUME Fail PROVE BegunInv'
    <2>1. completed' = completed /\ pc' = "refused"
      BY <1>22 DEF Fail
    <2>2. ~Unsent'
      BY <2>1 DEF Unsent, Beginning
    <2>3. CASE os = "alive"
      BY <1>9, <1>22, <2>1, <2>2, <2>3 DEF Fail, Gone
    <2>4. CASE os # "alive"
      <3>1. stdin' = stdin /\ active' = active
        BY <1>22, <2>4 DEF Fail
      <3> QED
        BY <1>4, <1>7, <2>1, <2>2, <3>1
    <2> QED
      BY <2>3, <2>4
  <1>23. ASSUME Kill PROVE BegunInv'
    <2>1. completed' = completed /\ pc' = pc /\ waits' = waits
      BY <1>23 DEF Kill
    <2>2. CASE os = "alive"
      BY <1>8, <1>9, <1>23, <2>1, <2>2 DEF Kill, Gone
    <2>3. CASE os # "alive"
      <3>1. stdin' = stdin /\ active' = active
        BY <1>23, <2>3 DEF Kill
      <3> QED
        BY <1>4, <1>7, <1>8, <2>1, <3>1
    <2> QED
      BY <2>2, <2>3
  <1>24. ASSUME Receive \/ SeesClose \/ StopReturns PROVE BegunInv'
    <2>1. stdin' = stdin /\ completed' = completed /\ active' = active /\ waits' = waits
          /\ (pc' = pc \/ pc' \in {"asking", "over", "reading"})
      BY <1>24 DEF Receive, SeesClose, StopReturns, Return
    <2>2. Unsent' => Unsent
      BY <2>1 DEF Unsent, Beginning
    <2> QED
      BY <1>4, <1>7, <2>1, <2>2
  <1>25. ASSUME NEW ask \in Asks, asks = <<ask>>, NEW c \in UserChoices(ask), Answer(c) PROVE BegunInv'
    <2>1. completed' = completed /\ active' = active /\ pc' = "reading"
      BY <1>25 DEF Answer
    <2>2. ~Unsent'
      BY <2>1 DEF Unsent, Beginning
    <2>3. Message("answer", Reply(asks[1], c)) \in Messages
          /\ Message("answer", Reply(asks[1], c)).what \notin Beginning
      <3>1. Reply(ask, c) \in Told /\ asks[1] = ask
        BY <1>25 DEF Told
      <3> QED
        BY <3>1 DEF Message, Messages, Beginning
    <2>4. stdin' \in {stdin, Append(stdin, Message("answer", Reply(asks[1], c)))}
      BY <1>25 DEF Answer
    <2> QED
      BY <1>4, <1>5, <1>7, <2>1, <2>2, <2>3, <2>4
  <1>26. ASSUME NEW by \in {"command", "idle"}, Stop(by) PROVE BegunInv'
    <2>1. completed' = completed /\ active' = active /\ (pc' = pc \/ pc' = "stopping")
          /\ waits' \in {waits, waits \cup {"interrupt"}}
      BY <1>26 DEF Stop
    <2>2. Unsent' => Unsent
      BY <2>1 DEF Unsent, Beginning
    <2>3. Request("interrupt") \in Messages /\ Request("interrupt").what \notin Beginning
      BY Parts DEF Request, Message, Messages, Beginning, Requests
    <2>4. stdin' \in {stdin, Append(stdin, Request("interrupt"))}
      BY <1>26 DEF Stop
    <2> QED
      BY <1>4, <1>5, <1>7, <2>1, <2>2, <2>3, <2>4
  <1>27. CASE UNCHANGED vars
    BY <1>4, <1>7, <1>8, <1>27 DEF vars
  <1> HIDE DEF AgentOnly, agentVars, startVars, runVars
  <1>28. Starting \/ Loop \/ Stopping => BegunInv'
    BY <1>17, <1>18, <1>19, <1>20, <1>21, <1>22, <1>23, <1>24, <1>25 DEF Starting, Loop, Stopping
  <1>29. (\E is \in {"completed", "failed"} : Complete(is)) => BegunInv'
    BY <1>13
  <1>30. (\E how \in {"clean", "failed"} : Die(how)) => BegunInv'
    BY <1>14
  <1>31. (\E by \in {"command", "idle"} : Stop(by)) => BegunInv'
    BY <1>26
  <1>32. OtherClient => BegunInv'
    BY <1>12 DEF OtherClient, AgentOnly, startVars, runVars
  <1>34. ASSUME NEW is \in Chatter, Notify(is) PROVE BegunInv'
    BY <1>12, <1>34 DEF Notify, AgentOnly, startVars, runVars
  <1>35. ASSUME NEW ask \in Asks, AskUser(ask) PROVE BegunInv'
    BY <1>12, <1>35 DEF AskUser, AgentOnly, startVars, runVars
  <1>33. Handle \/ Hear \/ Read \/ Unblock \/ Notice \/ Tell => BegunInv'
    BY <1>10, <1>11, <1>15, <1>16, <1>17
  <1> QED
    BY <1>27, <1>28, <1>29, <1>30, <1>31, <1>32, <1>33, <1>34, <1>35 DEF Next

------------------------------------------------------------------------------
OneEnd == \A i, j \in DOMAIN chan : chan[i] \in Terminals /\ chan[j] \in Terminals => i = j

LEMMA EndStep == TypeOK /\ LineInv /\ EndInv /\ [Next]_vars => EndInv'
  <1> SUFFICES ASSUME TypeOK, LineInv, EndInv, [Next]_vars PROVE EndInv'
    OBVIOUS
  <1> USE DEF AgentOnly, agentVars, startVars, runVars
  <1>1. /\ OneEnd
        /\ Ends(chan) \/ Ends(held) \/ card # "running" \/ waiter # "waiting" => ended
        /\ Ends(held) => ~Ends(chan)
        /\ Ends(held) \/ Ends(chan) => card = "running" /\ waiter # "telling"
        /\ waiter = "telling" => card = "running"
        /\ waiter = "over" => held = << >>
    BY DEF EndInv, OneEnd
  <1>2. ~Ends(<< >>)
    BY DEF Ends
  \* The channel grows by a terminal event only if it has none.
  <1>3. ASSUME NEW s \in Seq(Events), Len(s) <= 1, Ends(s) => ~Ends(chan), chan' = chan \o s
        PROVE  OneEnd' /\ (Ends(chan') <=> Ends(chan) \/ Ends(s))
    <2>1. Len(chan) \in Nat /\ DOMAIN chan = 1..Len(chan) /\ Len(s) \in Nat /\ DOMAIN s = 1..Len(s)
      BY <1>3, Parts
    <2>2. /\ \A i \in DOMAIN chan' : \/ i \in DOMAIN chan /\ chan'[i] = chan[i]
                                     \/ i - Len(chan) \in DOMAIN s /\ chan'[i] = s[i - Len(chan)]
          /\ \A i \in DOMAIN chan : i \in DOMAIN chan' /\ chan'[i] = chan[i]
          /\ \A i \in DOMAIN s : Len(chan) + i \in DOMAIN chan' /\ chan'[Len(chan) + i] = s[i]
          /\ DOMAIN chan' \subseteq Nat
      <3>1. chan \o s \in Seq(Events)
        BY <1>3, Parts, Joined
      <3> QED
        BY <1>3, <3>1, Parts, Joined
    <2>3. Ends(chan') <=> Ends(chan) \/ Ends(s)
      BY <2>2 DEF Ends
    <2>4. OneEnd'
      <3> SUFFICES ASSUME NEW i \in DOMAIN chan', NEW j \in DOMAIN chan',
                          chan'[i] \in Terminals, chan'[j] \in Terminals
                   PROVE  i = j
        BY DEF OneEnd
      <3>1. CASE i \in DOMAIN chan /\ chan'[i] = chan[i] /\ j \in DOMAIN chan /\ chan'[j] = chan[j]
        BY <1>1, <3>1 DEF OneEnd
      <3>2. CASE i - Len(chan) \in DOMAIN s /\ j - Len(chan) \in DOMAIN s
        BY <1>3, <2>1, <2>2, <3>2
      <3>3. ASSUME NEW k \in DOMAIN chan', NEW l \in DOMAIN chan',
                   k \in DOMAIN chan, chan'[k] = chan[k], chan'[k] \in Terminals,
                   l - Len(chan) \in DOMAIN s, chan'[l] = s[l - Len(chan)], chan'[l] \in Terminals
            PROVE  FALSE
        BY <1>3, <3>3 DEF Ends
      <3> QED
        BY <2>2, <3>1, <3>2, <3>3
    <2> QED
      BY <2>3, <2>4
  <1>4. ASSUME NEW e \in Events, e \in Terminals => ~Ends(chan), chan' = Append(chan, e)
        PROVE  OneEnd' /\ (Ends(chan') <=> Ends(chan) \/ e \in Terminals)
    <2>1. /\ \A i \in DOMAIN chan' : \/ i \in DOMAIN chan /\ chan'[i] = chan[i]
                                     \/ i = Len(chan) + 1 /\ chan'[i] = e
          /\ \A i \in DOMAIN chan : i \in DOMAIN chan' /\ chan'[i] = chan[i]
          /\ Len(chan) + 1 \in DOMAIN chan' /\ chan'[Len(chan) + 1] = e
      BY <1>4, Parts, Appended
    <2>2. Ends(chan') <=> Ends(chan) \/ e \in Terminals
      BY <2>1 DEF Ends
    <2>3. OneEnd'
      BY <1>1, <1>4, <2>1 DEF OneEnd, Ends
    <2> QED
      BY <2>2, <2>3
  <1>5. ASSUME chan' = chan PROVE OneEnd' /\ (Ends(chan') <=> Ends(chan))
    BY <1>1, <1>5 DEF OneEnd, Ends
  <1>6. ASSUME chan # << >>, chan' = Tail(chan)
        PROVE  /\ OneEnd' /\ (Ends(chan') => Ends(chan))
               /\ Head(chan) \in Terminals => Ends(chan) /\ ~Ends(chan')
    BY <1>1, <1>6, Parts, Shortened DEF OneEnd, Ends
  <1>7. ASSUME chan' = chan, held' = held, card' = card, waiter' = waiter, ended => ended' PROVE EndInv'
    BY <1>7 DEF EndInv, Ends
  <1>8. ASSUME Read PROVE EndInv'
    <2> DEFINE line == Head(stdout)
               terminal == line.is \in {"completed", "interrupted", "failed", "error"}
               events == EventOf(line.is)
    <2>1. stdout # << >> /\ held = << >> /\ waiter # "over" /\ UNCHANGED <<waiter, card>>
      BY <1>8 DEF Read
    <2>2. CASE line.re \in Requests
      BY <1>7, <1>8, <2>2 DEF Read
    <2>3. CASE line.re \notin Requests
      <3>1. /\ ended' = (ended \/ terminal)
            /\ IF terminal /\ ended THEN UNCHANGED <<chan, held>> ELSE Emit(events)
        BY <1>8, <2>3 DEF Read, Finished
      <3>2. events \in Seq(Events) /\ Len(events) <= 1 /\ (terminal <=> Ends(events))
        BY <2>1, <2>3, TurnLines, EventTypes DEF Closing
      <3> HIDE DEF events, terminal, line
      <3>3. CASE terminal /\ ended
        BY <1>7, <2>1, <3>1, <3>3
      <3>4. CASE ~(terminal /\ ended)
        <4>1. Ends(events) => ~Ends(chan) /\ card = "running" /\ waiter = "waiting" /\ ended'
          BY <1>1, <3>1, <3>2, <3>4
        <4>2. CASE chan' = chan \o events /\ held' = held
          <5>1. OneEnd' /\ (Ends(chan') <=> Ends(chan) \/ Ends(events)) /\ ~Ends(held')
            BY <1>2, <1>3, <2>1, <3>2, <4>1, <4>2
          <5> QED
            BY <1>1, <2>1, <3>1, <4>1, <4>2, <5>1 DEF EndInv, OneEnd
        <4>3. CASE held' = events /\ chan' = chan
          <5>1. OneEnd' /\ (Ends(chan') <=> Ends(chan)) /\ (Ends(held') <=> Ends(events))
            BY <1>5, <4>3
          <5> QED
            BY <1>1, <2>1, <3>1, <4>1, <4>3, <5>1 DEF EndInv, OneEnd
        <4> QED
          BY <3>1, <3>4, <4>2, <4>3 DEF Emit
      <3> QED
        BY <3>3, <3>4
    <2> QED
      BY <2>2, <2>3
  <1>9. ASSUME Unblock PROVE EndInv'
    <2>1. chan' = chan \o held /\ held' = << >> /\ UNCHANGED <<card, waiter, ended>>
      BY <1>9 DEF Unblock
    <2>2. OneEnd' /\ (Ends(chan') <=> Ends(chan) \/ Ends(held)) /\ ~Ends(held')
      <3>1. held \in Seq(Events) /\ Len(held) <= 1
        BY Parts DEF TypeOK
      <3> QED
        BY <1>1, <1>2, <1>3, <2>1, <3>1
    <2> QED
      BY <1>1, <2>1, <2>2 DEF EndInv, OneEnd
  <1>10. ASSUME Notice PROVE EndInv'
    <2>1. chan' = chan /\ card' = card /\ ended' /\ waiter = "waiting"
      BY <1>10 DEF Notice
    <2>2. \/ waiter' = "telling" /\ held' = held /\ ~ended
          \/ waiter' = "over" /\ held' = << >>
      BY <1>10 DEF Notice, Close, Expected
    <2>3. OneEnd' /\ (Ends(chan') <=> Ends(chan))
      BY <1>5, <2>1
    <2>4. CASE waiter' = "telling" /\ held' = held /\ ~ended
      BY <1>1, <2>1, <2>3, <2>4 DEF EndInv, OneEnd
    <2>5. CASE waiter' = "over" /\ held' = << >>
      BY <1>1, <1>2, <2>1, <2>3, <2>5 DEF EndInv, OneEnd
    <2> QED
      BY <2>2, <2>4, <2>5
  <1>11. ASSUME Tell PROVE EndInv'
    <2>1. chan' = Append(chan, "error") /\ held' = << >> /\ waiter = "telling" /\ waiter' = "over"
          /\ UNCHANGED <<card, ended>>
      BY <1>11 DEF Tell, Close
    <2>2. OneEnd' /\ ~Ends(held')
      <3>1. "error" \in Events
        BY DEF Events, Terminals
      <3> QED
        BY <1>1, <1>2, <1>4, <2>1, <3>1
    <2> QED
      BY <1>1, <2>1, <2>2 DEF EndInv, OneEnd
  <1>12. ASSUME EmitSystem PROVE EndInv'
    <2>1. UNCHANGED <<held, card, waiter, ended>> /\ (chan' = chan \/ chan' = Append(chan, "text"))
      BY <1>12 DEF EmitSystem
    <2>2. OneEnd' /\ (Ends(chan') <=> Ends(chan))
      <3>1. "text" \in Events /\ "text" \notin Terminals
        BY DEF Events, Terminals
      <3> QED
        BY <1>4, <1>5, <2>1, <3>1
    <2> QED
      BY <1>1, <2>1, <2>2 DEF EndInv, OneEnd
  <1>13. ASSUME Receive PROVE EndInv'
    <2>1. chan # << >> /\ chan' = Tail(chan) /\ UNCHANGED <<held, waiter, ended>>
          /\ card' = IF Head(chan) \in Terminals THEN Head(chan) ELSE card
      BY <1>13 DEF Receive
    <2>2. /\ OneEnd' /\ (Ends(chan') => Ends(chan))
          /\ Head(chan) \in Terminals => Ends(chan) /\ ~Ends(chan')
      BY <1>6, <2>1
    <2>3. "running" \notin Terminals
      BY DEF Terminals
    <2>4. CASE Head(chan) \in Terminals
      BY <1>1, <2>1, <2>2, <2>3, <2>4 DEF EndInv, OneEnd
    <2>5. CASE Head(chan) \notin Terminals
      BY <1>1, <2>1, <2>2, <2>5 DEF EndInv, OneEnd
    <2> QED
      BY <2>4, <2>5
  <1>14. ASSUME SeesClose PROVE EndInv'
    <2>1. chan = << >> /\ chan' = chan /\ held' = held /\ waiter = "over" /\ waiter' = waiter
          /\ ended' = ended
      BY <1>14 DEF SeesClose
    <2>2. ~Ends(chan') /\ ~Ends(held') /\ OneEnd' /\ ended' /\ held' = << >>
      BY <1>1, <1>2, <1>5, <2>1
    <2> QED
      BY <2>1, <2>2 DEF EndInv, OneEnd
  <1>15. ASSUME NEW request \in Requests, Send(request) \/ Timeout(request) PROVE EndInv'
    BY <1>7, <1>15 DEF Send, Timeout
  <1>16. ASSUME Fail \/ \E ok \in BOOLEAN : StartDaemon(ok) \/ Spawn(ok) PROVE EndInv'
    BY <1>7, <1>16 DEF Fail, StartDaemon, Spawn
  <1>17. ASSUME NEW ask \in Asks, NEW c \in UserChoices(ask), Answer(c) PROVE EndInv'
    BY <1>7, <1>17 DEF Answer
  <1>18. ASSUME Stopping \/ \E by \in {"command", "idle"} : Stop(by) PROVE EndInv'
    BY <1>7, <1>18 DEF Stopping, Stop, InterruptFails, StopReturns, Signal, Kill
  <1>19. ASSUME Handle \/ Hear \/ OtherClient PROVE EndInv'
    BY <1>7, <1>19 DEF Handle, Hear, OtherClient
  <1>20. ASSUME \/ \E is \in Chatter : Notify(is)
                \/ \E is \in {"completed", "failed"} : Complete(is)
                \/ \E ask \in Asks : AskUser(ask)
                \/ \E how \in {"clean", "failed"} : Die(how)
         PROVE  EndInv'
    BY <1>7, <1>20 DEF Notify, Complete, AskUser, Die
  <1>21. CASE UNCHANGED vars
    BY <1>7, <1>21 DEF vars
  <1> HIDE DEF AgentOnly, agentVars, startVars, runVars
  <1>22. Starting => EndInv'
    BY <1>12, <1>15, <1>16 DEF Starting
  <1>23. Loop => EndInv'
    BY <1>13, <1>14, <1>17 DEF Loop
  <1> QED
    BY <1>8, <1>9, <1>10, <1>11, <1>18, <1>19, <1>20, <1>21, <1>22, <1>23 DEF Next

\* The parts of DoneInv.
Done(s) == \A i \in DOMAIN s : s[i] = "done" => completed \/ foreign
Ending == \/ Ends(chan) \/ Ends(held) \/ card # "running" \/ waiter = "telling"
          \/ lost \/ os = "clean" \/ stop # "no"

LEMMA DoneStep == TypeOK /\ LineInv /\ WaitInv /\ BegunInv /\ EndInv /\ DoneInv /\ [Next]_vars => DoneInv'
  <1> SUFFICES ASSUME TypeOK, LineInv, WaitInv, BegunInv, EndInv, DoneInv, [Next]_vars PROVE DoneInv'
    OBVIOUS
  <1> USE DEF AgentOnly, agentVars, startVars, runVars
  <1>1. /\ Done(chan) /\ Done(held)
        /\ card = "done" => completed \/ os = "clean" \/ foreign \/ lost
        /\ ended /\ pc \notin {"failing", "refused"} => Ending
        /\ lost => waiter = "over"
        /\ pc \in {"daemon", "spawn"} => os = "none"
    BY DEF DoneInv, Done, Ending
  <1>2. ASSUME Done(chan)', Done(held)',
               card' = "done" => completed' \/ os' = "clean" \/ foreign' \/ lost',
               ended' /\ pc' \notin {"failing", "refused"} => Ending',
               lost' => waiter' = "over",
               pc' \in {"daemon", "spawn"} => os' = "none"
        PROVE  DoneInv'
    BY <1>2 DEF DoneInv, Done, Ending
  <1>3. ASSUME chan' = chan, completed => completed', foreign => foreign' PROVE Done(chan)'
    BY <1>1, <1>3 DEF Done
  <1>4. ASSUME held' = held, completed => completed', foreign => foreign' PROVE Done(held)'
    BY <1>1, <1>4 DEF Done
  <1>5. Done(<< >>)'
    BY DEF Done
  <1>6. ASSUME chan' = chan, held' = held PROVE (Ends(chan') <=> Ends(chan)) /\ (Ends(held') <=> Ends(held))
    BY <1>6
  \* A step that leaves the events, the card and the waiter alone.
  <1>7. ASSUME chan' = chan, held' = held, card' = card, waiter' = waiter, lost' = lost, foreign' = foreign,
               completed => completed', os = "clean" => os' = "clean",
               pc' \in {"daemon", "spawn"} => os' = "none",
               ended' /\ pc' \notin {"failing", "refused"} =>
                 \/ ended /\ pc \notin {"failing", "refused"} /\ (stop # "no" => stop' # "no")
                 \/ stop' # "no"
        PROVE  DoneInv'
    <2>1. Done(chan)' /\ Done(held)'
      BY <1>3, <1>4, <1>7
    <2>2. Ending /\ (stop # "no" => stop' # "no") => Ending'
      BY <1>6, <1>7 DEF Ending
    <2>3. stop' # "no" => Ending'
      BY DEF Ending
    <2> QED
      BY <1>1, <1>2, <1>7, <2>1, <2>2, <2>3
  <1>8. ASSUME Handle \/ Hear \/ OtherClient PROVE DoneInv'
    BY <1>1, <1>7, <1>8 DEF Handle, Hear, OtherClient
  <1>9. ASSUME NEW is \in {"completed", "failed"}, Complete(is) PROVE DoneInv'
    <2>1. ~completed
      BY <1>9 DEF Complete, Working, BegunInv
    <2> QED
      BY <1>1, <1>7, <1>9, <2>1 DEF Complete
  <1>10. ASSUME (\E is \in Chatter : Notify(is)) \/ (\E ask \in Asks : AskUser(ask)) PROVE DoneInv'
    BY <1>1, <1>7, <1>10 DEF Notify, AskUser
  <1>11. ASSUME NEW how \in {"clean", "failed"}, Die(how) PROVE DoneInv'
    <2>1. os = "alive" /\ pc \notin {"daemon", "spawn"}
      BY <1>1, <1>11 DEF Die
    <2> QED
      BY <1>1, <1>7, <1>11, <2>1 DEF Die
  <1>12. ASSUME NEW ok \in BOOLEAN, StartDaemon(ok) PROVE DoneInv'
    BY <1>1, <1>7, <1>12 DEF StartDaemon
  <1>13. ASSUME NEW ok \in BOOLEAN, Spawn(ok) PROVE DoneInv'
    BY <1>1, <1>7, <1>13 DEF Spawn
  <1>14. ASSUME NEW request \in Requests, Send(request) \/ Timeout(request) PROVE DoneInv'
    BY <1>1, <1>7, <1>14 DEF Send, Timeout, Requests
  <1>15. ASSUME EmitSystem PROVE DoneInv'
    <2>1. UNCHANGED <<held, card, waiter, ended, completed, foreign, lost, os, stop>>
          /\ (chan' = chan \/ chan' = Append(chan, "text")) /\ pc = "system"
      BY <1>15 DEF EmitSystem
    <2>2. pc' \notin {"daemon", "spawn"}
      BY <1>15 DEF EmitSystem, Join
    <2>3. Done(chan)' /\ (Ends(chan) => Ends(chan'))
      <3>1. CASE chan' = chan
        BY <1>3, <2>1, <3>1
      <3>2. CASE chan' = Append(chan, "text")
        <4>1. "text" \in Events
          BY DEF Events
        <4>2. /\ \A i \in DOMAIN chan' : \/ i \in DOMAIN chan /\ chan'[i] = chan[i]
                                         \/ i = Len(chan) + 1 /\ chan'[i] = "text"
              /\ \A i \in DOMAIN chan : i \in DOMAIN chan' /\ chan'[i] = chan[i]
          BY <3>2, <4>1, Parts, Appended
        <4> QED
          BY <1>1, <2>1, <4>2 DEF Done, Ends
      <3> QED
        BY <2>1, <3>1, <3>2
    <2>4. Done(held)' /\ (Ends(held) <=> Ends(held'))
      BY <1>4, <2>1
    <2>5. Ending => Ending'
      BY <2>1, <2>3, <2>4 DEF Ending
    <2> QED
      BY <1>1, <1>2, <2>1, <2>2, <2>3, <2>4, <2>5
  <1>16. ASSUME Fail PROVE DoneInv'
    <2>1. os = "clean" => os' = "clean"
      BY <1>16 DEF Fail
    <2> QED
      BY <1>7, <1>16, <2>1 DEF Fail
  <1>17. ASSUME Receive PROVE DoneInv'
    <2>1. chan # << >> /\ chan' = Tail(chan) /\ pc = "reading" /\ pc' \in {"reading", "asking"}
          /\ UNCHANGED <<held, waiter, ended, completed, foreign, lost, os, stop>>
          /\ card' = IF Head(chan) \in Terminals THEN Head(chan) ELSE card
      BY <1>17 DEF Receive
    <2>2. /\ Head(chan) = chan[1] /\ 1 \in DOMAIN chan
          /\ \A i \in DOMAIN chan' : i + 1 \in DOMAIN chan /\ chan'[i] = chan[i + 1]
          /\ \A i \in DOMAIN chan : i # 1 => i - 1 \in DOMAIN chan'
          /\ DOMAIN chan \subseteq Nat /\ DOMAIN chan' \subseteq Nat
      BY <2>1, Parts, Shortened
    <2>3. Done(chan)' /\ Done(held)' /\ (Head(chan) = "done" => completed \/ foreign)
      BY <1>1, <1>4, <2>1, <2>2 DEF Done
    <2>4. Ending => Ending'
      <3>1. CASE Head(chan) \in Terminals
        <4>1. card' # "running"
          BY <2>1, <3>1 DEF Terminals
        <4> QED
          BY <4>1 DEF Ending
      <3>2. CASE Head(chan) \notin Terminals
        <4>1. Ends(chan) => Ends(chan')
          <5>1. ASSUME NEW i \in DOMAIN chan, chan[i] \in Terminals
                PROVE  i - 1 \in DOMAIN chan' /\ chan'[i - 1] = chan[i]
            <6>1. i # 1 /\ i - 1 \in DOMAIN chan'
              BY <2>2, <3>2, <5>1
            <6>2. chan'[i - 1] = chan[(i - 1) + 1] /\ (i - 1) + 1 = i
              BY <2>2, <6>1
            <6> QED
              BY <6>1, <6>2
          <5> QED
            BY <5>1 DEF Ends
        <4> QED
          BY <2>1, <3>2, <4>1 DEF Ending
      <3> QED
        BY <3>1, <3>2
    <2> QED
      BY <1>1, <1>2, <2>1, <2>3, <2>4
  <1>18. ASSUME SeesClose PROVE DoneInv'
    <2>1. chan = << >> /\ waiter = "over" /\ pc = "reading" /\ pc' = "over"
          /\ UNCHANGED <<chan, held, waiter, ended, completed, foreign, lost, os, stop>>
          /\ card' = IF card # "running" THEN card
                      ELSE IF stop # "no" THEN "interrupted" ELSE "done"
      BY <1>18 DEF SeesClose
    <2>2. Done(chan)' /\ Done(held)'
      BY <1>3, <1>4, <2>1
    <2>3. card' # "running"
      BY <2>1
    <2>4. Ending'
      BY <2>3 DEF Ending
    <2>5. CASE card = "running" /\ stop = "no"
      <3>1. ~Ends(chan) /\ ~Ends(held) /\ ended
        BY <2>1 DEF Ends, EndInv
      <3>2. lost \/ os = "clean"
        BY <1>1, <2>1, <2>5, <3>1 DEF Ending
      <3> QED
        BY <1>1, <1>2, <2>1, <2>2, <2>4, <3>2
    <2>6. CASE ~(card = "running" /\ stop = "no")
      <3>1. card' = "done" => card = "done"
        BY <2>1, <2>6
      <3> QED
        BY <1>1, <1>2, <2>1, <2>2, <2>4, <3>1
    <2> QED
      BY <2>5, <2>6
  <1>19. ASSUME NEW ask \in Asks, NEW c \in UserChoices(ask), Answer(c) PROVE DoneInv'
    BY <1>1, <1>7, <1>19 DEF Answer
  <1>20. ASSUME Read PROVE DoneInv'
    <2> DEFINE line == Head(stdout)
               terminal == line.is \in {"completed", "interrupted", "failed", "error"}
               events == EventOf(line.is)
    <2>1. stdout # << >> /\ held = << >> /\ UNCHANGED <<waiter, card, completed, os, lost>>
      BY <1>20 DEF Read
    <2>2. CASE line.re \in Requests
      <3>1. UNCHANGED <<chan, held, foreign, ended>> /\ (stop # "no" => stop' # "no")
        BY <1>20, <2>2 DEF Read
      <3>2. CASE line.re \in waits /\ line.re # "interrupt"
        <4>1. pc = line.re /\ pc' = After(line.re, line.is)
          BY <1>20, <2>2, <3>2 DEF Read, WaitInv
        <4>2. pc \notin {"failing", "refused"} /\ pc' \notin {"daemon", "spawn"}
          BY <2>2, <3>2, <4>1 DEF After, Requests
        <4> QED
          BY <1>7, <2>1, <3>1, <4>2
      <3>3. CASE ~(line.re \in waits /\ line.re # "interrupt")
        <4>1. pc' = pc
          BY <1>20, <2>2, <3>3 DEF Read
        <4> QED
          BY <1>1, <1>7, <2>1, <3>1, <4>1
      <3> QED
        BY <3>2, <3>3
    <2>3. CASE line.re \notin Requests
      <3>1. /\ ended' = (ended \/ terminal) /\ foreign' = (foreign \/ line.re = "theirs")
            /\ IF terminal /\ ended THEN UNCHANGED <<chan, held>> ELSE Emit(events)
            /\ pc' = pc /\ stop' = stop
        BY <1>20, <2>3 DEF Read, Finished
      <3>2. /\ events \in Seq(Events) /\ (terminal <=> Ends(events))
            /\ \A i \in DOMAIN events : events[i] = "done" => line.is = "completed"
        BY <2>1, <2>3, TurnLines, EventTypes DEF Closing
      <3>3. line.is = "completed" => completed \/ line.re = "theirs"
        BY <2>1, <2>3, TurnLines DEF LineInv
      <3> HIDE DEF events, terminal, line
      <3>4. \A i \in DOMAIN events : events[i] = "done" => completed' \/ foreign'
        BY <2>1, <3>1, <3>2, <3>3
      <3>5. CASE terminal /\ ended
        <4>1. Done(chan)' /\ Done(held)'
          BY <1>3, <1>4, <2>1, <3>1, <3>5
        <4>2. Ending => Ending'
          BY <1>6, <2>1, <3>1, <3>5 DEF Ending
        <4> QED
          BY <1>1, <1>2, <2>1, <3>1, <3>5, <4>1, <4>2
      <3>6. CASE chan' = chan \o events /\ held' = held
        <4>1. /\ \A i \in DOMAIN chan' : \/ i \in DOMAIN chan /\ chan'[i] = chan[i]
                                         \/ i - Len(chan) \in DOMAIN events
                                              /\ chan'[i] = events[i - Len(chan)]
              /\ \A i \in DOMAIN chan : i \in DOMAIN chan' /\ chan'[i] = chan[i]
              /\ \A i \in DOMAIN events : Len(chan) + i \in DOMAIN chan' /\ chan'[Len(chan) + i] = events[i]
          <5>1. chan \in Seq(Events)
            BY Parts
          <5> QED
            BY <3>2, <3>6, <5>1, Joined
        <4>2. Done(chan)'
          <5>1. \A i \in DOMAIN chan : chan[i] = "done" => completed' \/ foreign'
            BY <1>1, <2>1, <3>1 DEF Done
          <5>2. \A i \in DOMAIN chan' : chan'[i] = "done" => completed' \/ foreign'
            BY <3>4, <4>1, <5>1
          <5> QED
            BY <5>2 DEF Done
        <4>5. Done(held)'
          BY <1>4, <2>1, <3>1, <3>6
        <4>3. Ends(chan) \/ Ends(events) => Ends(chan')
          BY <4>1 DEF Ends
        <4>4. ended' /\ pc' \notin {"failing", "refused"} => Ending'
          BY <1>1, <2>1, <3>1, <3>2, <3>6, <4>3 DEF Ending
        <4> QED
          BY <1>1, <1>2, <2>1, <3>1, <4>2, <4>4, <4>5
      <3>7. CASE held' = events /\ chan' = chan
        <4>1. Done(chan)' /\ Done(held)'
          BY <1>3, <2>1, <3>1, <3>4, <3>7 DEF Done
        <4>2. ~Ends(held)
          BY <2>1 DEF Ends
        <4>3. ended' /\ pc' \notin {"failing", "refused"} => Ending'
          BY <1>1, <2>1, <3>1, <3>2, <3>7, <4>2 DEF Ending
        <4> QED
          BY <1>1, <1>2, <2>1, <3>1, <4>1, <4>3
      <3> QED
        BY <3>1, <3>5, <3>6, <3>7 DEF Emit
    <2> QED
      BY <2>2, <2>3
  <1>21. ASSUME Unblock PROVE DoneInv'
    <2>1. chan' = chan \o held /\ held' = << >>
          /\ UNCHANGED <<card, waiter, ended, completed, foreign, lost, os, stop, pc>>
      BY <1>21 DEF Unblock
    <2>2. /\ \A i \in DOMAIN chan' : \/ i \in DOMAIN chan /\ chan'[i] = chan[i]
                                     \/ i - Len(chan) \in DOMAIN held /\ chan'[i] = held[i - Len(chan)]
          /\ \A i \in DOMAIN chan : i \in DOMAIN chan' /\ chan'[i] = chan[i]
          /\ \A i \in DOMAIN held : Len(chan) + i \in DOMAIN chan' /\ chan'[Len(chan) + i] = held[i]
      <3>1. chan \in Seq(Events) /\ held \in Seq(Events)
        BY Parts
      <3> QED
        BY <2>1, <3>1, Joined
    <2>3. Done(chan)' /\ Done(held)'
      <3>1. /\ \A i \in DOMAIN chan : chan[i] = "done" => completed' \/ foreign'
            /\ \A i \in DOMAIN held : held[i] = "done" => completed' \/ foreign'
        BY <1>1, <2>1 DEF Done
      <3>2. \A i \in DOMAIN chan' : chan'[i] = "done" => completed' \/ foreign'
        BY <2>2, <3>1
      <3>3. Done(held)'
        BY <1>5, <2>1
      <3> QED
        BY <3>2, <3>3 DEF Done
    <2>4. Ends(chan) \/ Ends(held) => Ends(chan')
      BY <2>2 DEF Ends
    <2>5. Ending => Ending'
      BY <2>1, <2>4 DEF Ending
    <2> QED
      BY <1>1, <1>2, <2>1, <2>3, <2>5
  <1>22. ASSUME Notice PROVE DoneInv'
    <2>1. UNCHANGED <<chan, card, completed, foreign, os>> /\ ended' /\ waiter = "waiting"
          /\ os \in {"clean", "failed"} /\ (stop # "no" => stop' # "no")
          /\ pc' \in {pc, "failing"}
      BY <1>22 DEF Notice, Dead
    <2>2. \/ waiter' = "telling" /\ held' = held /\ lost' = lost
          \/ (os = "clean" \/ ended \/ stop # "no")
               /\ waiter' = "over" /\ held' = << >> /\ lost' = (held # << >>)
      BY <1>22, <2>1 DEF Notice, Close, Expected
    <2>3. ~lost
      BY <1>1, <2>1
    <2>4. pc' \in {"daemon", "spawn"} => os' = "none"
      BY <1>1, <2>1
    <2>5. CASE waiter' = "telling" /\ held' = held /\ lost' = lost
      <3>1. Done(chan)' /\ Done(held)'
        BY <1>3, <1>4, <2>1, <2>5
      <3>2. Ending'
        BY <2>5 DEF Ending
      <3> QED
        BY <1>1, <1>2, <2>1, <2>3, <2>4, <2>5, <3>1, <3>2
    <2>6. CASE (os = "clean" \/ ended \/ stop # "no")
                 /\ waiter' = "over" /\ held' = << >> /\ lost' = (held # << >>)
      <3>1. Done(chan)' /\ Done(held)'
        BY <1>3, <1>5, <2>1, <2>6
      <3>2. Ends(held) => lost'
        <4>1. held = << >> => ~Ends(held)
          BY DEF Ends
        <4> QED
          BY <2>6, <4>1
      <3>3. ended' /\ pc' \notin {"failing", "refused"} => Ending'
        <4>1. ended /\ pc \notin {"failing", "refused"} => Ending'
          BY <1>1, <2>1, <2>3, <2>6, <3>2 DEF Ending
        <4>2. os = "clean" \/ stop # "no" => Ending'
          BY <2>1 DEF Ending
        <4> QED
          BY <2>1, <2>6, <4>1, <4>2
      <3> QED
        BY <1>1, <1>2, <2>1, <2>3, <2>4, <2>6, <3>1, <3>3
    <2> QED
      BY <2>2, <2>5, <2>6
  <1>23. ASSUME Tell PROVE DoneInv'
    <2>1. chan' = Append(chan, "error") /\ held' = << >> /\ waiter = "telling" /\ waiter' = "over"
          /\ UNCHANGED <<card, ended, completed, foreign, os, stop, pc>>
      BY <1>23 DEF Tell, Close
    <2>2. /\ \A i \in DOMAIN chan' : \/ i \in DOMAIN chan /\ chan'[i] = chan[i]
                                     \/ i = Len(chan) + 1 /\ chan'[i] = "error"
          /\ Len(chan) + 1 \in DOMAIN chan' /\ chan'[Len(chan) + 1] = "error"
      <3>1. "error" \in Events
        BY DEF Events, Terminals
      <3> QED
        BY <2>1, <3>1, Parts, Appended
    <2>3. Done(chan)' /\ Done(held)'
      BY <1>1, <1>5, <2>1, <2>2 DEF Done
    <2>4. Ends(chan')
      BY <2>2 DEF Ends, Terminals
    <2>5. card # "done" /\ card' = card
      BY <2>1 DEF EndInv
    <2>6. Ending'
      BY <2>4 DEF Ending
    <2> QED
      BY <1>1, <1>2, <2>1, <2>3, <2>5, <2>6
  <1>24. ASSUME NEW by \in {"command", "idle"}, Stop(by) PROVE DoneInv'
    <2>1. UNCHANGED <<chan, held, card, waiter, lost, foreign, completed, os>> /\ stop' # "no"
          /\ pc' \notin {"daemon", "spawn"}
      BY <1>24 DEF Stop
    <2> QED
      BY <1>7, <2>1
  <1>25. ASSUME InterruptFails \/ Signal PROVE DoneInv'
    BY <1>1, <1>7, <1>25 DEF InterruptFails, Signal
  <1>26. ASSUME StopReturns PROVE DoneInv'
    <2>1. UNCHANGED <<chan, held, card, waiter, lost, foreign, completed, os>> /\ stop' # "no"
          /\ (pc' = pc \/ pc' = "reading")
      BY <1>26 DEF StopReturns, Return
    <2> QED
      BY <1>1, <1>7, <2>1
  <1>27. ASSUME Kill PROVE DoneInv'
    <2>1. UNCHANGED <<chan, held, card, waiter, lost, foreign, completed, pc>> /\ stop' # "no"
          /\ (os' = os \/ (os = "alive" /\ os' = "failed"))
      BY <1>27 DEF Kill, Gone
    <2> QED
      BY <1>1, <1>7, <2>1
  <1>28. CASE UNCHANGED vars
    BY <1>1, <1>7, <1>28 DEF vars
  <1> HIDE DEF AgentOnly, agentVars, startVars, runVars
  <1>29. Starting => DoneInv'
    BY <1>12, <1>13, <1>14, <1>15, <1>16 DEF Starting
  <1>30. Loop => DoneInv'
    BY <1>17, <1>18, <1>19 DEF Loop
  <1>31. Stopping => DoneInv'
    BY <1>25, <1>26, <1>27 DEF Stopping
  <1>32. (\E is \in {"completed", "failed"} : Complete(is))
           \/ (\E how \in {"clean", "failed"} : Die(how)) => DoneInv'
    BY <1>9, <1>11
  <1>33. (\E by \in {"command", "idle"} : Stop(by)) => DoneInv'
    BY <1>24
  <1> QED
    BY <1>8, <1>10, <1>20, <1>21, <1>22, <1>23, <1>28, <1>29, <1>30, <1>31, <1>32, <1>33 DEF Next

------------------------------------------------------------------------------
\* One ask at most moves on, and is answered once.
LEMMA AskedJoin ==
  ASSUME NEW S, NEW s \in Seq(S), NEW t \in Seq(S), Len(t) <= 1, ~(Asked(s) /\ Asked(t)), Once(s)
  PROVE  Once(s \o t) /\ (Asked(s \o t) <=> Asked(s) \/ Asked(t))
  <1>1. Len(s) \in Nat /\ DOMAIN s = 1..Len(s) /\ Len(t) \in Nat /\ DOMAIN t = 1..Len(t)
    OBVIOUS
  <1> DEFINE both == s \o t
  <1>2. /\ \A i \in DOMAIN both : \/ i \in DOMAIN s /\ both[i] = s[i]
                                  \/ i - Len(s) \in DOMAIN t /\ both[i] = t[i - Len(s)]
        /\ \A i \in DOMAIN s : i \in DOMAIN both /\ both[i] = s[i]
        /\ \A i \in DOMAIN t : Len(s) + i \in DOMAIN both /\ both[Len(s) + i] = t[i]
        /\ DOMAIN both \subseteq Nat
    <2>1. both \in Seq(S)
      BY Joined
    <2> QED
      BY <2>1, Joined
  <1> HIDE DEF both
  <1>3. Asked(both) <=> Asked(s) \/ Asked(t)
    BY <1>2 DEF Asked
  <1>4. Once(both)
    <2> SUFFICES ASSUME NEW i \in DOMAIN both, NEW j \in DOMAIN both,
                        both[i] = "ask", both[j] = "ask"
                 PROVE  i = j
      BY DEF Once
    <2>1. CASE i \in DOMAIN s /\ both[i] = s[i] /\ j \in DOMAIN s /\ both[j] = s[j]
      BY <2>1 DEF Once
    <2>2. CASE i - Len(s) \in DOMAIN t /\ j - Len(s) \in DOMAIN t
      BY <1>1, <1>2, <2>2
    <2>3. ASSUME NEW k \in DOMAIN both, NEW l \in DOMAIN both,
                 k \in DOMAIN s, both[k] = s[k], both[k] = "ask",
                 l - Len(s) \in DOMAIN t, both[l] = t[l - Len(s)], both[l] = "ask"
          PROVE  FALSE
      BY <2>3 DEF Asked
    <2> QED
      BY <1>2, <2>1, <2>2, <2>3
  <1> QED
    BY <1>3, <1>4 DEF both

LEMMA AskedAppend ==
  ASSUME NEW S, NEW s \in Seq(S), NEW e \in S, e = "ask" => ~Asked(s), Once(s)
  PROVE  Once(Append(s, e)) /\ (Asked(Append(s, e)) <=> Asked(s) \/ e = "ask")
  <1>1. /\ \A i \in DOMAIN Append(s, e) : \/ i \in DOMAIN s /\ Append(s, e)[i] = s[i]
                                          \/ i = Len(s) + 1 /\ Append(s, e)[i] = e
        /\ \A i \in DOMAIN s : i \in DOMAIN Append(s, e) /\ Append(s, e)[i] = s[i]
        /\ Len(s) + 1 \in DOMAIN Append(s, e) /\ Append(s, e)[Len(s) + 1] = e
    BY Appended
  <1> DEFINE more == Append(s, e)
  <1> HIDE DEF more
  <1>2. Asked(more) <=> Asked(s) \/ e = "ask"
    BY <1>1 DEF Asked, more
  <1>3. Once(more)
    BY <1>1 DEF Asked, Once, more
  <1> QED
    BY <1>2, <1>3 DEF more

LEMMA AskedTail ==
  ASSUME NEW S, NEW s \in Seq(S), s # << >>, Once(s)
  PROVE  /\ Once(Tail(s)) /\ (Asked(Tail(s)) => Asked(s))
         /\ Head(s) = "ask" => Asked(s) /\ ~Asked(Tail(s))
  BY Shortened DEF Asked, Once

\* The agent's requests and answers that wait in stdin.
LEMMA Unanswered ==
  ASSUME TypeOK, Unheard, told' = told,
         \/ stdin' = stdin \/ stdin' = << >> \/ (stdin # << >> /\ stdin' = Tail(stdin))
         \/ \E request \in Requests : stdin' = Append(stdin, Request(request))
  PROVE  Unheard'
  <1>1. stdin \in Seq(Messages) /\ << >> \in Told
    BY Parts
  <1>2. CASE stdin' = stdin \/ stdin' = << >>
    BY <1>2 DEF Unheard
  <1>3. CASE stdin # << >> /\ stdin' = Tail(stdin)
    BY <1>1, <1>3, Shortened DEF Unheard
  <1>4. ASSUME NEW request \in Requests, stdin' = Append(stdin, Request(request)) PROVE Unheard'
    <2>1. Request(request) \in Messages /\ Request(request).what # "answer"
      BY <1>1 DEF Request, Message, Messages, Requests
    <2> QED
      BY <1>1, <1>4, <2>1, Appended DEF Unheard
  <1> QED
    BY <1>2, <1>3, <1>4

LEMMA LineAppend ==
  ASSUME NEW s \in Seq(Lines), NEW line \in Lines, line.is = "ask" => ~LineAsks(s), LineOnce(s)
  PROVE  /\ LineOnce(Append(s, line))
         /\ LineAsks(Append(s, line)) <=> LineAsks(s) \/ line.is = "ask"
  <1>1. /\ \A i \in DOMAIN Append(s, line) : \/ i \in DOMAIN s /\ Append(s, line)[i] = s[i]
                                             \/ i = Len(s) + 1 /\ Append(s, line)[i] = line
        /\ \A i \in DOMAIN s : i \in DOMAIN Append(s, line) /\ Append(s, line)[i] = s[i]
        /\ Len(s) + 1 \in DOMAIN Append(s, line) /\ Append(s, line)[Len(s) + 1] = line
    BY Appended
  <1> DEFINE more == Append(s, line)
  <1> HIDE DEF more
  <1>2. LineAsks(more) <=> LineAsks(s) \/ line.is = "ask"
    BY <1>1 DEF LineAsks, more
  <1>3. LineOnce(more)
    BY <1>1 DEF LineAsks, LineOnce, more
  <1> QED
    BY <1>2, <1>3 DEF more

LEMMA LineTail ==
  ASSUME NEW s \in Seq(Lines), s # << >>, LineOnce(s)
  PROVE  /\ LineOnce(Tail(s)) /\ (LineAsks(Tail(s)) => LineAsks(s))
         /\ Head(s).is = "ask" => LineAsks(s) /\ ~LineAsks(Tail(s))
  BY Shortened DEF LineAsks, LineOnce

LEMMA ConcatOne ==
  ASSUME NEW S, NEW s \in Seq(S), NEW e \in S
  PROVE  s \o <<e>> = Append(s, e) /\ s \o << >> = s
  BY AppendIsConcat, ConcatEmptySeq

\* What the parts of AskInv say of the places that come before and after.
LEMMA AskParts ==
  ASSUME AskInv
  PROVE  /\ LineOnce(stdout) /\ Once(chan)
         /\ LineAsks(stdout) => ~Asked(held) /\ ~Asked(chan) /\ pc # "asking" /\ Unheard
         /\ Asked(held) => ~Asked(chan) /\ pc # "asking" /\ Unheard
         /\ Asked(chan) => pc # "asking" /\ Unheard
         /\ pc = "asking" => Unheard
         /\ asks = << >> => ~LineAsks(stdout) /\ ~Asked(held) /\ ~Asked(chan)
                            /\ pc # "asking" /\ Unheard
  BY DEF AskInv

\* A step that loses lines and events at most keeps AskInv.
LEMMA NothingAsked ==
  ASSUME AskInv,
         LineOnce(stdout'), LineAsks(stdout') => LineAsks(stdout),
         Once(chan'), Asked(chan') => Asked(chan), Asked(held') => Asked(held),
         pc' = "asking" => pc = "asking", asks' = asks, Unheard => Unheard'
  PROVE  AskInv'
  BY AskParts DEF AskInv

LEMMA AskStep == TypeOK /\ LineInv /\ WaitInv /\ AskInv /\ [Next]_vars => AskInv'
  <1> SUFFICES ASSUME TypeOK, LineInv, WaitInv, AskInv, [Next]_vars PROVE AskInv'
    OBVIOUS
  <1> USE DEF AgentOnly, agentVars, startVars, runVars
  <1>1. /\ stdin \in Seq(Messages) /\ stdout \in Seq(Lines) /\ chan \in Seq(Events)
        /\ held \in Seq(Events) /\ Len(held) <= 1
    BY Parts DEF TypeOK
  <1>2. LineOnce(stdout) /\ Once(chan)
    BY AskParts
  <1>3. ~Asked(<< >>) /\ ~LineAsks(<< >>) /\ LineOnce(<< >>)
    BY DEF Asked, LineAsks, LineOnce
  <1>4. ASSUME UNCHANGED <<chan, held, pc, asks, told>>, LineOnce(stdout'),
               LineAsks(stdout') => LineAsks(stdout),
               stdin' = stdin \/ stdin' = << >> \/ (stdin # << >> /\ stdin' = Tail(stdin))
        PROVE  AskInv'
    BY <1>2, <1>4, Unanswered, NothingAsked
  <1>5. ASSUME UNCHANGED <<stdout, chan, held, asks, told>>, pc' = "asking" => pc = "asking",
               \/ stdin' = stdin \/ stdin' = << >>
               \/ \E request \in Requests : stdin' = Append(stdin, Request(request))
        PROVE  AskInv'
    BY <1>2, <1>5, Unanswered, NothingAsked
  <1>6. ASSUME Handle PROVE AskInv'
    <2> DEFINE request == Head(stdin).what
    <2>1. request \in Requests /\ stdin # << >> /\ stdin' = Tail(stdin)
          /\ UNCHANGED <<chan, held, pc, asks, told>>
      BY <1>6 DEF Handle
    <2>2. PICK is \in Replies(request) :
            stdout' = stdout \o (IF request = "interrupt" /\ is = "ok" /\ active = "ours"
                                 THEN <<Line("event", "interrupted")>> ELSE << >>)
                             \o <<Line(request, is)>>
      BY <1>6 DEF Handle
    <2> DEFINE first == Line("event", "interrupted")
               second == Line(request, is)
    <2>3. first \in Lines /\ first.is # "ask" /\ second \in Lines /\ second.is # "ask"
      BY <2>1, ReplyTypes DEF Line, Lines
    <2>4. stdout' = (stdout \o <<first>>) \o <<second>> \/ stdout' = (stdout \o << >>) \o <<second>>
      BY <2>2
    <2> HIDE DEF first, second
    <2>5. PICK lines0 \in {stdout, Append(stdout, first)} : stdout' = lines0 \o <<second>>
      BY <1>1, <2>3, <2>4, ConcatOne
    <2>6. lines0 \in Seq(Lines) /\ LineOnce(lines0) /\ (LineAsks(lines0) => LineAsks(stdout))
      <3>1. Append(stdout, first) \in Seq(Lines)
        BY <1>1, <2>3, Appended
      <3> QED
        BY <1>1, <1>2, <2>3, <3>1, LineAppend
    <2>7. stdout' = Append(lines0, second)
      BY <2>3, <2>5, <2>6, ConcatOne
    <2>8. LineOnce(stdout') /\ (LineAsks(stdout') => LineAsks(stdout))
      BY <2>3, <2>6, <2>7, LineAppend
    <2> QED
      BY <1>4, <2>1, <2>8
  <1>7. ASSUME NEW line \in Lines, line.is # "ask", stdout' = Append(stdout, line)
        PROVE  LineOnce(stdout') /\ (LineAsks(stdout') => LineAsks(stdout))
    BY <1>1, <1>2, <1>7, LineAppend
  <1>8. ASSUME Hear PROVE AskInv'
    <2>1. stdin # << >> /\ Head(stdin).what = "answer" /\ UNCHANGED <<stdout, chan, held, pc, asks>>
      BY <1>8 DEF Hear
    <2>2. ~Unheard
      BY <1>1, <2>1, Shortened DEF Unheard
    <2> QED
      BY <1>2, <2>1, <2>2, NothingAsked
  <1>9. ASSUME OtherClient PROVE AskInv'
    <2>1. Line("theirs", "completed") \in Lines /\ Line("theirs", "completed").is # "ask"
      BY DEF Line, Lines
    <2> QED
      BY <1>2, <1>4, <1>7, <1>9, <2>1 DEF OtherClient
  <1>10. ASSUME NEW is \in Chatter, Notify(is) PROVE AskInv'
    <2>1. Line("event", is) \in Lines /\ Line("event", is).is # "ask"
      BY TurnAssumption DEF Line, Lines
    <2> QED
      BY <1>4, <1>7, <1>10, <2>1 DEF Notify
  <1>11. ASSUME NEW is \in {"completed", "failed"}, Complete(is) PROVE AskInv'
    <2>1. Line("event", is) \in Lines /\ Line("event", is).is # "ask"
      BY DEF Line, Lines
    <2> QED
      BY <1>4, <1>7, <1>11, <2>1 DEF Complete
  <1>12. ASSUME NEW ask \in Asks, AskUser(ask) PROVE AskInv'
    <2>1. asks = << >> /\ asks' = <<ask>> /\ stdout' = Append(stdout, Line("event", "ask"))
          /\ UNCHANGED <<stdin, told, chan, held, pc>>
      BY <1>12 DEF AskUser
    <2>2. ~LineAsks(stdout) /\ ~Asked(held) /\ ~Asked(chan) /\ pc # "asking" /\ Unheard
      BY <2>1, AskParts
    <2>3. Line("event", "ask") \in Lines
      BY DEF Line, Lines
    <2>4. LineOnce(stdout')
      BY <1>1, <1>2, <2>1, <2>2, <2>3, LineAppend
    <2>5. Unheard' /\ asks' # << >>
      BY <2>1, <2>2 DEF Unheard
    <2> QED
      BY <1>2, <2>1, <2>2, <2>4, <2>5 DEF AskInv
  <1>13. ASSUME NEW how \in {"clean", "failed"}, Die(how) PROVE AskInv'
    BY <1>2, <1>4, <1>13 DEF Die, Gone
  <1>14. ASSUME Read PROVE AskInv'
    <2> DEFINE line == Head(stdout)
               events == EventOf(line.is)
    <2>1. stdout # << >> /\ stdout' = Tail(stdout) /\ held = << >> /\ UNCHANGED <<stdin, told, asks>>
      BY <1>14 DEF Read
    <2>2. /\ LineOnce(stdout') /\ (LineAsks(stdout') => LineAsks(stdout))
          /\ line.is = "ask" => LineAsks(stdout) /\ ~LineAsks(stdout')
      BY <1>1, <1>2, <2>1, LineTail
    <2>3. CASE line.re \in Requests
      <3>1. UNCHANGED <<chan, held>>
        BY <1>14, <2>3 DEF Read
      <3>2. pc' = "asking" => pc = "asking"
        <4>1. pc' = pc \/ (line.re # "interrupt" /\ pc' = After(line.re, line.is))
          BY <1>14, <2>3 DEF Read
        <4>2. line.re \in Requests \ {"interrupt"} => After(line.re, line.is) # "asking"
          BY DEF After, Requests
        <4> QED
          BY <2>3, <4>1, <4>2
      <3> QED
        BY <1>2, <2>1, <2>2, <3>1, <3>2, Unanswered, NothingAsked
    <2>4. CASE line.re \notin Requests
      <3>1. pc' = pc /\ (UNCHANGED <<chan, held>> \/ Emit(events))
        BY <1>14, <2>4 DEF Read
      <3>2. line.is \in {"ask", "delta", "retry"} \cup Closing
        BY <2>1, <2>4, TurnLines
      <3>3. events \in Seq(Events) /\ Len(events) <= 1
        BY <3>2, EventTypes
      <3>4. Asked(events) => line.is = "ask"
        BY <3>2 DEF Asked, EventOf, Closing
      <3> HIDE DEF events, line
      <3>5. CASE UNCHANGED <<chan, held>>
        BY <1>2, <2>1, <2>2, <3>1, <3>5, Unanswered, NothingAsked
      <3>6. CASE chan' = chan \o events /\ held' = held
        <4>1. Once(chan') /\ (Asked(chan') <=> Asked(chan) \/ Asked(events))
          BY <1>1, <1>2, <2>2, <3>3, <3>4, <3>6, AskParts, AskedJoin
        <4>2. Unheard => Unheard'
          BY <2>1, Unanswered
        <4> QED
          BY <2>1, <2>2, <3>1, <3>4, <3>6, <4>1, <4>2, AskParts DEF AskInv
      <3>7. CASE held' = events /\ chan' = chan
        <4>1. Unheard => Unheard'
          BY <2>1, Unanswered
        <4> QED
          BY <1>2, <2>1, <2>2, <3>1, <3>4, <3>7, <4>1, AskParts DEF AskInv
      <3> QED
        BY <3>1, <3>5, <3>6, <3>7 DEF Emit
    <2> QED
      BY <2>3, <2>4
  <1>15. ASSUME Unblock PROVE AskInv'
    <2>1. chan' = chan \o held /\ held' = << >> /\ UNCHANGED <<stdin, stdout, told, asks, pc>>
      BY <1>15 DEF Unblock
    <2>2. Once(chan') /\ (Asked(chan') <=> Asked(chan) \/ Asked(held))
      BY <1>1, <1>2, <2>1, AskParts, AskedJoin
    <2>3. Unheard => Unheard'
      BY <2>1, Unanswered
    <2> QED
      BY <1>2, <1>3, <2>1, <2>2, <2>3, AskParts DEF AskInv
  <1>16. ASSUME Notice PROVE AskInv'
    <2>1. /\ UNCHANGED <<stdin, told, asks, chan>> /\ stdout' \in {stdout, << >>}
          /\ held' = held \/ held' = << >>
          /\ pc' = "asking" => pc = "asking"
      BY <1>16 DEF Notice, Close
    <2> QED
      BY <1>2, <1>3, <2>1, Unanswered, NothingAsked
  <1>17. ASSUME NEW e \in Events \ {"ask"}, chan' = Append(chan, e)
         PROVE  Once(chan') /\ (Asked(chan') => Asked(chan))
    BY <1>1, <1>2, <1>17, AskedAppend
  <1>18. ASSUME Tell PROVE AskInv'
    <2>1. UNCHANGED <<stdin, told, asks, stdout, pc>> /\ held' = << >> /\ chan' = Append(chan, "error")
      BY <1>18 DEF Tell, Close
    <2>2. "error" \in Events \ {"ask"}
      BY DEF Events, Terminals
    <2> QED
      BY <1>2, <1>3, <1>17, <2>1, <2>2, Unanswered, NothingAsked
  <1>19. ASSUME EmitSystem PROVE AskInv'
    <2>1. UNCHANGED <<stdin, told, asks, stdout, held>> /\ (chan' = chan \/ chan' = Append(chan, "text"))
      BY <1>19 DEF EmitSystem
    <2>2. pc' # "asking"
      BY <1>19 DEF EmitSystem, Join
    <2>3. "text" \in Events \ {"ask"}
      BY DEF Events
    <2> QED
      BY <1>2, <1>17, <2>1, <2>2, <2>3, Unanswered, NothingAsked
  <1>20. ASSUME Receive PROVE AskInv'
    <2>1. /\ chan # << >> /\ chan' = Tail(chan) /\ UNCHANGED <<stdin, told, asks, stdout, held>>
          /\ pc = "reading" /\ pc' = IF Head(chan) = "ask" THEN "asking" ELSE pc
      BY <1>20 DEF Receive
    <2>2. /\ Once(chan') /\ (Asked(chan') => Asked(chan))
          /\ Head(chan) = "ask" => Asked(chan) /\ ~Asked(chan')
      BY <1>1, <1>2, <2>1, AskedTail
    <2>3. Unheard => Unheard'
      BY <2>1, Unanswered
    <2> QED
      BY <1>2, <2>1, <2>2, <2>3, AskParts DEF AskInv
  <1>21. ASSUME NEW ask \in Asks, NEW c \in UserChoices(ask), Answer(c) PROVE AskInv'
    <2>1. pc = "asking" /\ pc' = "reading" /\ UNCHANGED <<stdout, chan, held, asks>>
      BY <1>21 DEF Answer
    <2>2. ~LineAsks(stdout) /\ ~Asked(held) /\ ~Asked(chan) /\ asks # << >>
      BY <2>1, AskParts
    <2> QED
      BY <1>2, <2>1, <2>2 DEF AskInv
  <1>22. ASSUME NEW request \in Requests, Send(request) \/ Timeout(request) PROVE AskInv'
    BY <1>5, <1>22 DEF Send, Timeout
  <1>23. ASSUME Fail \/ SeesClose \/ \E ok \in BOOLEAN : StartDaemon(ok) \/ Spawn(ok) PROVE AskInv'
    BY <1>5, <1>23 DEF Fail, Gone, SeesClose, StartDaemon, Spawn
  <1>24. ASSUME NEW by \in {"command", "idle"}, Stop(by) PROVE AskInv'
    <2>1. "interrupt" \in Requests
      BY DEF Requests
    <2> QED
      BY <1>5, <1>24, <2>1 DEF Stop
  <1>25. ASSUME Stopping PROVE AskInv'
    BY <1>5, <1>25 DEF Stopping, InterruptFails, StopReturns, Return, Signal, Kill, Gone
  <1>26. CASE UNCHANGED vars
    BY <1>5, <1>26 DEF vars
  <1> HIDE DEF AgentOnly, agentVars, startVars, runVars
  <1>27. Starting => AskInv'
    BY <1>19, <1>22, <1>23 DEF Starting
  <1>28. Loop => AskInv'
    BY <1>20, <1>21, <1>23 DEF Loop
  <1> QED
    BY <1>6, <1>8, <1>9, <1>10, <1>11, <1>12, <1>13, <1>14, <1>15, <1>16, <1>18, <1>24, <1>25,
       <1>26, <1>27, <1>28 DEF Next

LEMMA ToldStep == TypeOK /\ AskInv /\ ToldInv /\ [Next]_vars => ToldInv'
  <1> SUFFICES ASSUME TypeOK, AskInv, ToldInv, [Next]_vars PROVE ToldInv'
    OBVIOUS
  <1> USE DEF AgentOnly, agentVars, startVars, runVars
  <1>1. /\ Unheard \/ \E ask \in Asks : asks = <<ask>> /\ choice \in UserChoices(ask)
        /\ told # << >> => told = Reply(asks[1], choice)
        /\ \A i \in DOMAIN stdin : stdin[i].what = "answer" => stdin[i].answers = Reply(asks[1], choice)
        /\ stdin \in Seq(Messages)
    BY Parts DEF ToldInv
  \* Requests come and go.
  <1>2. ASSUME UNCHANGED <<told, asks, choice>>,
               \/ stdin' = stdin \/ stdin' = << >> \/ (stdin # << >> /\ stdin' = Tail(stdin))
               \/ \E request \in Requests : stdin' = Append(stdin, Request(request))
        PROVE  ToldInv'
    <2>1. Unheard => Unheard'
      BY <1>2, Unanswered
    <2>2. \A i \in DOMAIN stdin' : stdin'[i].what = "answer" => stdin'[i].answers = Reply(asks[1], choice)
      <3>1. CASE stdin' = stdin \/ stdin' = << >>
        BY <1>1, <3>1
      <3>2. CASE stdin # << >> /\ stdin' = Tail(stdin)
        BY <1>1, <3>2, Shortened
      <3>3. ASSUME NEW request \in Requests, stdin' = Append(stdin, Request(request)),
                   NEW i \in DOMAIN stdin', stdin'[i].what = "answer"
            PROVE  stdin'[i].answers = Reply(asks[1], choice)
        <4>1. Request(request) \in Messages /\ Request(request).what # "answer"
          BY Parts DEF Request, Message, Messages, Requests
        <4> QED
          BY <1>1, <3>3, <4>1, Appended
      <3> QED
        BY <1>2, <3>1, <3>2, <3>3
    <2> QED
      BY <1>1, <1>2, <2>1, <2>2 DEF ToldInv
  <1>3. ASSUME Handle \/ OtherClient \/ (\E is \in Chatter : Notify(is))
               \/ (\E is \in {"completed", "failed"} : Complete(is))
               \/ (\E how \in {"clean", "failed"} : Die(how))
        PROVE  ToldInv'
    BY <1>2, <1>3 DEF Handle, OtherClient, Notify, Complete, Die, Gone
  <1>4. ASSUME Hear PROVE ToldInv'
    <2>1. /\ stdin # << >> /\ Head(stdin).what = "answer" /\ stdin' = Tail(stdin)
          /\ told' = Head(stdin).answers /\ UNCHANGED <<asks, choice>>
      BY <1>4 DEF Hear
    <2>2. 1 \in DOMAIN stdin /\ Head(stdin) = stdin[1]
          /\ \A i \in DOMAIN Tail(stdin) : i + 1 \in DOMAIN stdin /\ Tail(stdin)[i] = stdin[i + 1]
      BY <1>1, <2>1, Shortened
    <2>3. told' = Reply(asks[1], choice) /\ ~Unheard
      BY <1>1, <2>1, <2>2 DEF Unheard
    <2>4. \A i \in DOMAIN stdin' : stdin'[i].what = "answer" => stdin'[i].answers = Reply(asks[1], choice)
      BY <1>1, <2>1, <2>2
    <2> QED
      BY <1>1, <2>1, <2>3, <2>4 DEF ToldInv
  <1>5. ASSUME NEW ask \in Asks, AskUser(ask) PROVE ToldInv'
    <2>1. asks = << >> /\ UNCHANGED <<stdin, told>>
      BY <1>5 DEF AskUser
    <2>2. Unheard
      BY <2>1, AskParts
    <2>3. Unheard' /\ told' = << >>
      BY <2>1, <2>2 DEF Unheard
    <2> QED
      BY <2>3 DEF ToldInv, Unheard
  <1>6. ASSUME NEW ask \in Asks, asks = <<ask>>, NEW c \in UserChoices(ask), Answer(c) PROVE ToldInv'
    <2>1. /\ pc = "asking" /\ choice' = c /\ UNCHANGED <<told, asks>> /\ asks[1] = ask
          /\ stdin' = stdin \/ stdin' = Append(stdin, Message("answer", Reply(ask, c)))
      BY <1>6 DEF Answer
    <2>2. told = << >> /\ \A i \in DOMAIN stdin : stdin[i].what # "answer"
      BY <2>1, AskParts DEF Unheard
    <2>3. asks' = <<ask>> /\ choice' \in UserChoices(ask) /\ told' = << >>
      BY <1>6, <2>1, <2>2
    <2>4. ASSUME NEW i \in DOMAIN stdin', stdin'[i].what = "answer"
          PROVE  stdin'[i].answers = Reply(ask, c)
      <3>1. Message("answer", Reply(ask, c)).answers = Reply(ask, c)
        BY DEF Message
      <3>2. Message("answer", Reply(ask, c)) \in Messages
        BY DEF Message, Messages, Told
      <3> HIDE DEF Messages
      <3> QED
        BY <1>1, <2>1, <2>2, <2>4, <3>1, <3>2, Appended
    <2> QED
      BY <2>1, <2>3, <2>4 DEF ToldInv
  <1>7. ASSUME Read \/ Unblock \/ Notice \/ Tell PROVE ToldInv'
    BY <1>2, <1>7 DEF Read, Unblock, Notice, Tell
  <1>8. ASSUME Starting PROVE ToldInv'
    BY <1>2, <1>8 DEF Starting, StartDaemon, Spawn, Send, Timeout, EmitSystem, Fail, Gone
  <1>9. ASSUME Receive \/ SeesClose PROVE ToldInv'
    BY <1>2, <1>9 DEF Receive, SeesClose
  <1>10. ASSUME NEW by \in {"command", "idle"}, Stop(by) PROVE ToldInv'
    <2>1. "interrupt" \in Requests
      BY DEF Requests
    <2> QED
      BY <1>2, <1>10, <2>1 DEF Stop
  <1>11. ASSUME Stopping PROVE ToldInv'
    BY <1>2, <1>11 DEF Stopping, InterruptFails, StopReturns, Signal, Kill, Gone
  <1>12. CASE UNCHANGED vars
    BY <1>2, <1>12 DEF vars
  <1> HIDE DEF AgentOnly, agentVars, startVars, runVars
  <1> QED
    BY <1>3, <1>4, <1>5, <1>6, <1>7, <1>8, <1>9, <1>10, <1>11, <1>12 DEF Next, Loop

------------------------------------------------------------------------------
\* What the user can answer, and what the agent is told of it.
LEMMA Elements ==
  ASSUME NEW S, NEW s \in Seq(S)
  PROVE  \A i \in DOMAIN s : s[i] \in S
  OBVIOUS

LEMMA LastIsThere ==
  ASSUME NEW n \in Nat, NEW D, D \subseteq 1..n, D # {}
  PROVE  \E i \in D : \A j \in D : j <= i
  <1> DEFINE less == OpToRel(<, Nat)
             T == {n - i : i \in D}
  <1>1. less = {ss \in Nat \X Nat : ss[1] < ss[2]}
    BY DEF OpToRel
  <1>2. IsWellFoundedOn(less, Nat)
    BY NatLessThanWellFounded
  <1> HIDE DEF less
  <1>3. T \subseteq Nat
    OBVIOUS
  <1>4. T # {}
    <2>1. PICK i \in D : TRUE
      OBVIOUS
    <2>2. n - i \in T
      BY <2>1
    <2> HIDE DEF T
    <2> QED
      BY <2>2
  <1>5. PICK x \in T : \A y \in T : ~(<<y, x>> \in less)
    <2> HIDE DEF T
    <2> QED
      BY <1>2, <1>3, <1>4, WFMin
  <1>6. \A y \in T : x <= y
    <2> SUFFICES ASSUME NEW y \in T PROVE x <= y
      OBVIOUS
    <2>1. x \in Nat /\ y \in Nat
      BY <1>3
    <2>2. <<y, x>> \notin less
      BY <1>5
    <2> QED
      BY <1>1, <2>1, <2>2
  <1>7. PICK i \in D : x = n - i
    OBVIOUS
  <1>8. \A j \in D : j <= i
    <2> SUFFICES ASSUME NEW j \in D PROVE j <= i
      OBVIOUS
    <2>1. n - j \in T
      OBVIOUS
    <2>2. x <= n - j
      BY <1>6, <2>1
    <2>3. i \in Int /\ j \in Int
      OBVIOUS
    <2> QED
      BY <1>7, <2>2, <2>3
  <1> QED
    BY <1>8

\* The questions of a card are those of the request that have an id and
\* something to show.
Question == [id : STRING, prompt : BOOLEAN, options : SUBSET (STRING \ {""}), other : BOOLEAN,
             secret : BOOLEAN]

LEMMA ShownParts ==
  ASSUME NEW ask \in Asks, ask.kind = "input"
  PROVE  /\ Len(ask.questions) \in Nat /\ DOMAIN Shown(ask) \subseteq 1..Len(ask.questions)
         /\ \A k \in DOMAIN Shown(ask) :
              /\ Shown(ask)[k].id = ask.questions[k].id
              /\ Shown(ask)[k].secret => Shown(ask)[k].options = {"refused"}
         /\ \A k \in DOMAIN ask.questions :
              LET q == ask.questions[k]
              IN  q.id # "" /\ (q.prompt \/ q.secret) => k \in DOMAIN Shown(ask)
  <1> DEFINE shown == Shown(ask)
             n == Len(ask.questions)
  <1>1. ask.questions \in Seq(Question)
    BY TurnAssumption DEF Question
  <1>2. n \in Nat /\ DOMAIN ask.questions = 1..n /\ \A k \in DOMAIN ask.questions : ask.questions[k] \in Question
    <2> HIDE DEF n
    <2>1. DOMAIN ask.questions = 1..n /\ n \in Nat
      BY <1>1 DEF n
    <2> QED
      BY <1>1, <2>1, Elements
  <1>3. DOMAIN shown = {j \in DOMAIN ask.questions : /\ ask.questions[j].id # ""
                                                      /\ (ask.questions[j].prompt \/ ask.questions[j].secret)}
    BY DEF Shown
  <1>4. ASSUME NEW k \in DOMAIN shown
        PROVE  /\ shown[k].id = ask.questions[k].id
               /\ shown[k].secret => shown[k].options = {"refused"}
    <2> DEFINE q == ask.questions[k]
    <2>1. q \in Question
      BY <1>2, <1>3
    <2>2. shown[k] = [q EXCEPT !.options = IF q.secret THEN {"refused"}
                                           ELSE IF @ = {} THEN {"write"} ELSE @]
      BY DEF Shown
    <2> HIDE DEF q, shown
    <2>3. shown[k].id = q.id /\ (shown[k].secret => shown[k].options = {"refused"})
      BY <2>1, <2>2 DEF Question
    <2> QED
      BY <2>3 DEF q
  <1> QED
    BY <1>2, <1>3, <1>4

\* The answer to the last question of an id is an answer to one of that id.
LEMMA LastOfId ==
  ASSUME NEW ask \in Asks, ask.kind = "input", NEW i \in DOMAIN Shown(ask)
  PROVE  /\ LastOf(Shown(ask)[i].id, Shown(ask)) \in DOMAIN Shown(ask)
         /\ Shown(ask)[LastOf(Shown(ask)[i].id, Shown(ask))].id = Shown(ask)[i].id
  <1> DEFINE shown == Shown(ask)
             of == {j \in DOMAIN shown : shown[j].id = shown[i].id}
             n == Len(ask.questions)
  <1>1. n \in Nat /\ of \subseteq 1..n /\ of # {}
    BY ShownParts
  <1>2. \E j \in of : \A k \in of : k <= j
    <2> HIDE DEF of, n
    <2> QED
      BY <1>1, LastIsThere
  <1>3. LastOf(shown[i].id, shown) = CHOOSE j \in of : \A k \in of : k <= j
    BY DEF LastOf
  <1>4. LastOf(shown[i].id, shown) \in of
    <2> HIDE DEF of, shown
    <2> QED
      BY <1>2, <1>3
  <1> QED
    BY <1>4

\* The user picks what is shown, or types where the card takes a text.
LEMMA ChoiceParts ==
  ASSUME NEW ask \in Asks, NEW c \in UserChoices(ask), c # << >>, NEW j \in DOMAIN Shown(ask)
  PROVE  /\ c.picked[j] \in {""} \cup Shown(ask)[j].options
         /\ c.text # "" => c.picked[j] = "" /\ Freeform(ask)
  <1> DEFINE shown == Shown(ask)
             forms == {p \in [DOMAIN shown -> {""} \cup UNION {shown[i].options : i \in DOMAIN shown}] :
                         /\ \A i \in DOMAIN shown : p[i] \in {""} \cup shown[i].options
                         /\ \E i \in DOMAIN shown : p[i] # ""}
             fields == IF Freeform(ask) THEN {0} \cup DOMAIN shown ELSE {}
  <1>1. \/ c \in {[picked |-> p, text |-> "", at |-> 0] : p \in forms}
        \/ c \in {[picked |-> [i \in DOMAIN shown |-> ""], text |-> "typed", at |-> a] : a \in fields}
    BY DEF UserChoices
  <1>2. \A p \in forms : p[j] \in {""} \cup shown[j].options
    OBVIOUS
  <1>3. \A a \in fields : Freeform(ask)
    OBVIOUS
  <1> HIDE DEF forms, fields
  <1>4. CASE c \in {[picked |-> p, text |-> "", at |-> 0] : p \in forms}
    <2>1. PICK p \in forms : c = [picked |-> p, text |-> "", at |-> 0]
      BY <1>4
    <2>2. c.picked = p /\ c.text = ""
      BY <2>1
    <2> QED
      BY <1>2, <2>2
  <1>5. CASE c \in {[picked |-> [i \in DOMAIN shown |-> ""], text |-> "typed", at |-> a] : a \in fields}
    <2>1. PICK a \in fields : c = [picked |-> [i \in DOMAIN shown |-> ""], text |-> "typed", at |-> a]
      BY <1>5
    <2>2. c.picked = [i \in DOMAIN shown |-> ""]
      BY <2>1
    <2> HIDE DEF shown
    <2>3. c.picked[j] = ""
      BY <2>2 DEF shown
    <2> QED
      BY <1>3, <2>3
  <1> QED
    BY <1>1, <1>4, <1>5

\* What Reply makes of a choice is what ToldIsChosen asks for.
LEMMA ReplyIsChosen ==
  ASSUME NEW ask \in Asks, NEW c \in UserChoices(ask), asks = <<ask>>, choice = c,
         told = Reply(ask, c)
  PROVE  ToldIsChosen
  <1> DEFINE shown == Shown(ask)
             answer(i) == IF c = << >> THEN "none" ELSE IF c.picked[i] = "" THEN c.text ELSE c.picked[i]
  <1>1. asks[1] = ask
    OBVIOUS
  <1>2. CASE ask.kind = "input"
    <2> SUFFICES ASSUME NEW i \in DOMAIN ask.questions, ask.questions[i].id # "",
                        ask.questions[i].prompt \/ ask.questions[i].secret
                 PROVE  LET id == ask.questions[i].id IN
                        \E j \in DOMAIN shown :
                          /\ shown[j].id = id /\ IsTold(told[id], c, j)
                          /\ shown[j].secret /\ ~Freeform(ask) => told[id] \in {"none", "refused", ""}
      BY <1>1, <1>2 DEF ToldIsChosen
    <2> DEFINE id == ask.questions[i].id
               j == LastOf(id, shown)
    <2>1. i \in DOMAIN shown /\ shown[i].id = id
      BY <1>2, ShownParts
    <2>2. j \in DOMAIN shown /\ shown[j].id = id
      BY <1>2, <2>1, LastOfId
    <2>3. told = [d \in {shown[k].id : k \in DOMAIN shown} |-> answer(LastOf(d, shown))]
      BY <1>2 DEF Reply
    <2>4. told[id] = answer(j)
      <3> HIDE DEF shown
      <3> QED
        BY <2>1, <2>3
    <2>5. shown[j].secret => shown[j].options = {"refused"}
      BY <1>2, <2>2, ShownParts
    <2>6. c # << >> => /\ c.picked[j] \in {""} \cup shown[j].options
                       /\ c.text # "" => c.picked[j] = "" /\ Freeform(ask)
      BY <2>2, ChoiceParts
    <2> HIDE DEF shown, j, id
    <2>7. IsTold(told[id], c, j)
      BY <2>4, <2>6 DEF IsTold
    <2>8. shown[j].secret /\ ~Freeform(ask) => told[id] \in {"none", "refused", ""}
      BY <2>4, <2>5, <2>6
    <2> QED
      BY <2>2, <2>7, <2>8 DEF id
  <1>3. CASE ask.kind # "input"
    <2> SUFFICES /\ told.decision = "accept" => c # << >> /\ c.picked[1] \in {"once", "always"}
                 /\ told.decision = "acceptForSession" =>
                      /\ c # << >> /\ c.picked[1] = "always"
                      /\ ask.kind = "command" /\ ask.available # {} =>
                           "acceptForSession" \in ask.available
      BY <1>1, <1>3 DEF ToldIsChosen
    <2>1. 1 \in DOMAIN shown
      BY <1>3 DEF Shown
    <2>2. c # << >> /\ c.text # "" => Freeform(ask)
      BY <2>1, ChoiceParts
    <2>3. c # << >> => c.text = ""
      BY <1>3, <2>2 DEF Freeform
    <2>4. told = [decision |-> IF Decision(answer(1)) = "acceptForSession"
                                  /\ ~Available(ask, "acceptForSession")
                               THEN "accept" ELSE Decision(answer(1))]
      BY <1>3 DEF Reply
    <2>5. Decision(answer(1)) \in {"accept", "acceptForSession", "decline"}
          /\ (Decision(answer(1)) = "accept" => answer(1) = "once")
          /\ (Decision(answer(1)) = "acceptForSession" => answer(1) = "always")
      BY DEF Decision
    <2>6. answer(1) \in {"once", "always"} => c # << >> /\ c.picked[1] = answer(1)
      BY <2>3
    <2> HIDE DEF answer
    <2>7. told.decision = "accept" => answer(1) \in {"once", "always"}
      BY <2>4, <2>5
    <2>8. told.decision = "acceptForSession" => answer(1) = "always" /\ Available(ask, "acceptForSession")
      BY <2>4, <2>5
    <2> QED
      BY <2>6, <2>7, <2>8 DEF Available
  <1> QED
    BY <1>2, <1>3

------------------------------------------------------------------------------
\* IInv is an invariant of the turn (startCodexAppServer, readLoop, waitLoop
\* and Stop against a process that may do anything).
THEOREM Invariance == Spec => []IInv
  <1>1. IInv /\ [Next]_vars => IInv'
    BY TypeStep, LineStep, WaitStep, BegunStep, EndStep, DoneStep, AskStep, ToldStep
       DEF IInv
  <1> QED
    BY <1>1, InitIInv, PTL DEF Spec

\* The variables keep their types: among them, the channel never holds more
\* than its capacity, and the reader is blocked on one event at most.
THEOREM TypeCorrect == Spec => []TypeOK
  <1>1. IInv => TypeOK
    BY DEF IInv
  <1> QED
    BY <1>1, Invariance, PTL

\* A card reads done only when the agent has completed that turn (finish,
\* handleNotification, waitLoop), with the exemptions that DoneIsDone names.
THEOREM DoneIsDoneHolds == Spec => []DoneIsDone
  <1>1. IInv => DoneIsDone
    BY DEF IInv, DoneInv, DoneIsDone
  <1> QED
    BY <1>1, Invariance, PTL

\* The agent is told what the user chose: codexUserInputEvent and
\* codexDecisionEvent, whatever it asks and whenever the run ends; a request
\* is answered once, so that the choice on record is the one it was made of.
THEOREM ToldIsChosenHolds == Spec => []ToldIsChosen
  <1>1. IInv => ToldIsChosen
    <2> SUFFICES ASSUME IInv, told # << >> PROVE ToldIsChosen
      BY DEF ToldIsChosen
    <2>1. ~Unheard
      BY DEF Unheard
    <2>2. PICK ask \in Asks : asks = <<ask>> /\ choice \in UserChoices(ask)
      BY <2>1 DEF IInv, ToldInv
    <2>3. told = Reply(ask, choice)
      BY <2>2 DEF IInv, ToldInv
    <2> QED
      BY <2>2, <2>3, ReplyIsChosen
  <1> QED
    BY <1>1, Invariance, PTL

\* What arrives after the first terminal notification does not turn an error
\* into a success (finish, and the end of runBatch's loop).
THEOREM ErrorStaysHolds == Spec => ErrorStays
  <1>1. IInv /\ [Next]_vars => [card = "error" => card' = "error"]_vars
    <2> SUFFICES ASSUME IInv, Next, card = "error" PROVE card' = "error"
      OBVIOUS
    <2> USE DEF AgentOnly, agentVars, startVars, runVars
    <2>1. CASE Receive
      <3>1. chan \in Seq(Events) /\ chan # << >> /\ card' = IF Head(chan) \in Terminals THEN Head(chan) ELSE card
        BY <2>1, Parts DEF Receive, IInv
      <3>2. Head(chan) \notin Terminals
        BY <3>1, Shortened DEF IInv, EndInv, Ends
      <3> QED
        BY <3>1, <3>2
    <2>2. CASE SeesClose
      BY <2>2 DEF SeesClose
    <2>3. CASE Starting
      BY <2>3 DEF Starting, StartDaemon, Spawn, Send, Timeout, EmitSystem, Fail
    <2>4. CASE \E ask \in Asks : asks = <<ask>> /\ \E c \in UserChoices(ask) : Answer(c)
      BY <2>4 DEF Answer
    <2>5. CASE Stopping \/ \E by \in {"command", "idle"} : Stop(by)
      BY <2>5 DEF Stopping, Stop, InterruptFails, StopReturns, Signal, Kill
    <2>6. CASE Read
      BY <2>6 DEF Read
    <2>7. CASE Unblock \/ Notice \/ Tell
      BY <2>7 DEF Unblock, Notice, Tell
    <2>8. CASE Handle \/ Hear \/ OtherClient
      BY <2>8 DEF Handle, Hear, OtherClient
    <2>9. CASE \/ \E is \in Chatter : Notify(is)
               \/ \E is \in {"completed", "failed"} : Complete(is)
               \/ \E ask \in Asks : AskUser(ask)
               \/ \E how \in {"clean", "failed"} : Die(how)
      BY <2>9 DEF Notify, Complete, AskUser, Die
    <2> HIDE DEF AgentOnly, agentVars, startVars, runVars
    <2> QED
      BY <2>1, <2>2, <2>3, <2>4, <2>5, <2>6, <2>7, <2>8, <2>9 DEF Next, Loop
  <1> QED
    BY <1>1, Invariance, PTL DEF Spec, ErrorStays

------------------------------------------------------------------------------
\* Before the process is there, nothing else is.
NoneInv == os = "none" =>
  /\ pc \in {"daemon", "spawn", "refused"} /\ waiter = "waiting"
  /\ stdin = << >> /\ stdout = << >> /\ held = << >> /\ waits = {}

LEMMA NoneStep == DoneInv /\ NoneInv /\ [Next]_vars => NoneInv'
  <1> SUFFICES ASSUME DoneInv, NoneInv, [Next]_vars, os' = "none" PROVE NoneInv'
    BY DEF NoneInv
  <1> USE DEF AgentOnly, agentVars, startVars, runVars
  <1>1. os = "none"
    <2>1. os' # os => os' # "none"
      <3>1. CASE Starting \/ Stopping
        <4>1. CASE InterruptFails \/ StopReturns \/ Signal \/ EmitSystem
          BY <4>1 DEF InterruptFails, StopReturns, Signal, EmitSystem
        <4>2. Kill \/ Fail => (os' # os => os' # "none")
          BY DEF Kill, Fail, Gone
        <4>3. ASSUME NEW ok \in BOOLEAN, StartDaemon(ok) \/ Spawn(ok), os' # os PROVE os' # "none"
          BY <4>3 DEF StartDaemon, Spawn, DoneInv
        <4>4. ASSUME NEW request \in Requests, Send(request) \/ Timeout(request) PROVE os' = os
          BY <4>4 DEF Send, Timeout
        <4> QED
          BY <3>1, <4>1, <4>2, <4>3, <4>4 DEF Starting, Stopping
      <3>2. CASE ~(Starting \/ Stopping)
        BY <3>2 DEF Next, vars, Handle, Hear, OtherClient, Notify, Complete, AskUser, Die, Gone, Loop, Receive,
                    SeesClose, Answer, Read, Unblock, Notice, Tell, Stop
      <3> QED
        BY <3>1, <3>2
    <2> QED
      BY <2>1
  <1>2. /\ pc \in {"daemon", "spawn", "refused"} /\ waiter = "waiting"
        /\ stdin = << >> /\ stdout = << >> /\ held = << >> /\ waits = {}
    BY <1>1 DEF NoneInv
  <1>3. CASE Starting
    <2>1. \A request \in Requests : ~Send(request) /\ ~Timeout(request)
      BY <1>2 DEF Send, Timeout, Requests
    <2>2. PICK ok \in BOOLEAN : StartDaemon(ok) \/ Spawn(ok)
      BY <1>2, <1>3, <2>1 DEF Starting, EmitSystem, Fail
    <2> QED
      BY <1>2, <2>2 DEF NoneInv, StartDaemon, Spawn
  <1>4. CASE Stopping
    BY <1>1, <1>2, <1>4 DEF NoneInv, Stopping, InterruptFails, StopReturns, Return, Signal, Kill
  <1>5. CASE UNCHANGED vars
    BY <1>2, <1>5 DEF NoneInv, vars
  <1>6. CASE Next /\ ~Starting /\ ~Stopping
    BY <1>1, <1>2, <1>6 DEF Next, Handle, Hear, OtherClient, Notify, Working, Complete, AskUser, Die, Loop,
                Receive, SeesClose, Answer, Read, Unblock, Notice, Dead, Tell, Stop
  <1> QED
    BY <1>3, <1>4, <1>5, <1>6

\* What EndIs says, and does not say.
LEMMA EndStays ==
  ASSUME card' = card, \A e \in Terminals : InChannel(e)' <=> InChannel(e)
  PROVE  EndIs' = EndIs
  BY DEF EndIs

LEMMA NoEnd ==
  ASSUME ~Ends(chan), card = "running"
  PROVE  EndIs = "running"
  BY DEF EndIs, Ends, InChannel

LEMMA EndIsOne ==
  ASSUME card = "running", NEW i \in DOMAIN chan, chan[i] \in Terminals,
         \A j \in DOMAIN chan : chan[j] \in Terminals => i = j
  PROVE  EndIs = chan[i]
  <1>1. \A e \in Terminals : InChannel(e) <=> e = chan[i]
    BY DEF InChannel
  <1> QED
    BY <1>1 DEF EndIs

\* One step of the channel: an event at most is added to it.
LEMMA EndIsAdded ==
  ASSUME TypeOK, EndInv, EndInv', NEW t \in Seq(Events), Len(t) <= 1,
         chan' = chan \o t, card' = card, Ends(t) => ~Ends(chan) /\ card = "running"
  PROVE  IF Ends(t) THEN EndIs = "running" /\ EndIs' \in Terminals ELSE EndIs' = EndIs
  <1>1. chan \in Seq(Events)
    BY Parts
  <1>2. CASE ~Ends(t)
    <2>1. \A e \in Terminals : InChannel(e)' <=> InChannel(e)
      BY <1>1, <1>2, Joined DEF InChannel, Ends
    <2> QED
      BY <1>2, <2>1, EndStays
  <1>3. CASE Ends(t)
    <2>1. PICK i \in DOMAIN t : t[i] \in Terminals
      BY <1>3 DEF Ends
    <2>2. Len(chan) + i \in DOMAIN chan' /\ chan'[Len(chan) + i] = t[i]
      BY <1>1, <2>1, Joined
    <2>3. card' = "running" /\ \A j \in DOMAIN chan' : chan'[j] \in Terminals => Len(chan) + i = j
      BY <1>3, <2>1, <2>2 DEF EndInv
    <2>4. \E k \in DOMAIN chan' : /\ chan'[k] \in Terminals
                                  /\ \A j \in DOMAIN chan' : chan'[j] \in Terminals => k = j
      BY <2>1, <2>2, <2>3
    <2>5. EndIs' \in Terminals
      <3>1. PICK k \in DOMAIN chan' : /\ chan'[k] \in Terminals
                                      /\ \A j \in DOMAIN chan' : chan'[j] \in Terminals => k = j
        BY <2>4
      <3>2. \A e \in Terminals : InChannel(e)' <=> e = chan'[k]
        BY <3>1 DEF InChannel
      <3> QED
        BY <2>3, <3>1, <3>2 DEF EndIs
    <2> QED
      BY <1>3, <2>5, NoEnd
  <1> QED
    BY <1>2, <1>3

LEMMA EndIsReceived ==
  ASSUME TypeOK, EndInv, Receive
  PROVE  EndIs' = EndIs
  <1>1. /\ chan \in Seq(Events) /\ chan # << >> /\ chan' = Tail(chan)
        /\ card' = IF Head(chan) \in Terminals THEN Head(chan) ELSE card
    BY Parts DEF Receive
  <1>2. /\ 1 \in DOMAIN chan /\ Head(chan) = chan[1]
        /\ \A i \in DOMAIN Tail(chan) : i + 1 \in DOMAIN chan /\ i + 1 # 1 /\ Tail(chan)[i] = chan[i + 1]
        /\ \A i \in DOMAIN chan : i # 1 => i - 1 \in DOMAIN Tail(chan) /\ Tail(chan)[i - 1] = chan[i]
    BY <1>1, HeadTailProperties
  <1>3. CASE Head(chan) \in Terminals
    <2>1. card = "running" /\ \A j \in DOMAIN chan : chan[j] \in Terminals => 1 = j
      BY <1>2, <1>3 DEF EndInv, Ends
    <2>2. EndIs = chan[1]
      BY <1>2, <1>3, <2>1, EndIsOne
    <2>3. card' = chan[1] /\ card' # "running"
      BY <1>1, <1>2, <1>3 DEF Terminals
    <2> QED
      BY <2>2, <2>3 DEF EndIs
  <1>4. CASE Head(chan) \notin Terminals
    <2>1. ASSUME NEW e \in Terminals PROVE InChannel(e)' <=> InChannel(e)
      <3>1. ASSUME NEW i \in DOMAIN chan, chan[i] = e PROVE InChannel(e)'
        <4>1. i # 1
          BY <1>2, <1>4, <3>1
        <4>2. i - 1 \in DOMAIN Tail(chan) /\ Tail(chan)[i - 1] = e
          BY <1>2, <3>1, <4>1
        <4> QED
          BY <1>1, <4>2 DEF InChannel
      <3>2. ASSUME NEW i \in DOMAIN Tail(chan), Tail(chan)[i] = e PROVE InChannel(e)
        BY <1>2, <3>2 DEF InChannel
      <3> QED
        BY <1>1, <3>1, <3>2 DEF InChannel
    <2> QED
      BY <1>1, <1>4, <2>1, EndStays
  <1> QED
    BY <1>3, <1>4

\* A Stop is not undone, and the loop is left once the channel is closed.
StopInv == ("interrupt" \in waits => stop # "no") /\ (pc = "over" => waiter = "over")

LEMMA StopStep == TypeOK /\ WaitInv /\ StopInv /\ [Next]_vars => StopInv' /\ (stop # "no" => stop' # "no")
  <1> SUFFICES ASSUME TypeOK, WaitInv, StopInv, [Next]_vars
               PROVE  StopInv' /\ (stop # "no" => stop' # "no")
    OBVIOUS
  <1> USE DEF AgentOnly, agentVars, startVars, runVars
  <1>1. CASE Starting
    <2>1. ASSUME NEW request \in Requests, Send(request) \/ Timeout(request)
          PROVE  StopInv' /\ (stop # "no" => stop' # "no")
      <3>1. request # "interrupt" /\ request # "over"
        BY <2>1 DEF TypeOK, Send, Timeout, Requests
      <3> QED
        BY <2>1, <3>1 DEF StopInv, Send, Timeout
    <2>2. CASE EmitSystem
      <3>1. opts.shared \in BOOLEAN /\ opts.disk \in BOOLEAN
        BY TurnAssumption DEF TypeOK
      <3>2. Join # "over"
        BY <3>1 DEF Join
      <3> QED
        BY <2>2, <3>2 DEF StopInv, EmitSystem
    <2>3. CASE Fail
      BY <2>3 DEF StopInv, Fail
    <2>4. ASSUME NEW ok \in BOOLEAN, StartDaemon(ok) \/ Spawn(ok)
          PROVE  StopInv' /\ (stop # "no" => stop' # "no")
      BY <2>4 DEF StopInv, StartDaemon, Spawn
    <2> QED
      BY <1>1, <2>1, <2>2, <2>3, <2>4 DEF Starting
  <1>2. CASE Stopping \/ \E by \in {"command", "idle"} : Stop(by)
    BY <1>2 DEF StopInv, Stopping, InterruptFails, StopReturns, Return, Signal, Kill, Stop
  <1>3. CASE Read
    <2> DEFINE line == Head(stdout)
    <2>1. CASE line.re \in Requests
      <3>1. /\ pc' = pc \/ (line.re \in waits \ {"interrupt"} /\ pc' = After(line.re, line.is))
            /\ waits' = waits \ {line.re} /\ UNCHANGED waiter
            /\ stop' = stop \/ stop' = "grace"
        BY <1>3, <2>1 DEF Read
      <3>2. pc' = pc \/ pc' # "over"
        BY <2>1, <3>1 DEF After, Requests
      <3> HIDE DEF line
      <3> QED
        BY <3>1, <3>2 DEF StopInv
    <2>2. CASE line.re \notin Requests
      BY <1>3, <2>2 DEF StopInv, Read
    <2> QED
      BY <2>1, <2>2
  <1>4. CASE Unblock \/ Notice \/ Tell
    BY <1>4 DEF StopInv, Unblock, Notice, Tell, Close
  <1>5. CASE Loop
    BY <1>5 DEF StopInv, Loop, Receive, SeesClose, Answer
  <1>6. CASE \/ Handle \/ Hear \/ OtherClient
             \/ \E is \in Chatter : Notify(is)
             \/ \E is \in {"completed", "failed"} : Complete(is)
             \/ \E ask \in Asks : AskUser(ask)
             \/ \E how \in {"clean", "failed"} : Die(how)
    BY <1>6 DEF StopInv, Handle, Hear, OtherClient, Notify, Complete, AskUser, Die
  <1>7. CASE UNCHANGED vars
    BY <1>7 DEF StopInv, vars
  <1> QED
    BY <1>1, <1>2, <1>3, <1>4, <1>5, <1>6, <1>7 DEF Next

LEMMA PromisedStep ==
  IInv /\ IInv' /\ StopInv /\ NoneInv /\ [Next]_vars => [Promised!Next]_(Promised!vars)
  <1> SUFFICES ASSUME IInv, IInv', StopInv, NoneInv, [Next]_vars PROVE [Promised!Next]_(Promised!vars)
    OBVIOUS
  <1> USE DEF AgentOnly, agentVars, startVars, runVars
  <1>0. TypeOK /\ WaitInv /\ EndInv /\ EndInv' /\ DoneInv /\ LineInv
    BY DEF IInv
  \* Most steps do not show.
  <1>1. ASSUME UNCHANGED <<chan, card>>, ChannelIs' = ChannelIs, (stop' # "no") = (stop # "no")
        PROVE  [Promised!Next]_(Promised!vars)
    <2>1. EndIs' = EndIs
      BY <1>1, EndStays DEF InChannel
    <2> QED
      BY <1>1, <2>1 DEF Promised!vars
  <1>2. ASSUME UNCHANGED <<chan, card, waiter, stop>>, pc' = pc \/ (pc # "over" /\ pc' # "over"),
               os' = os \/ (os # "none" /\ os' # "none")
        PROVE  [Promised!Next]_(Promised!vars)
    BY <1>1, <1>2 DEF ChannelIs
  <1>3. CASE Handle \/ Hear \/ OtherClient
    BY <1>2, <1>3 DEF Handle, Hear, OtherClient
  <1>4. CASE \/ \E is \in Chatter : Notify(is)
             \/ \E is \in {"completed", "failed"} : Complete(is)
             \/ \E ask \in Asks : AskUser(ask)
             \/ \E how \in {"clean", "failed"} : Die(how)
    BY <1>2, <1>4 DEF Notify, Complete, AskUser, Die, Gone
  <1>5. ASSUME NEW ok \in BOOLEAN, StartDaemon(ok) \/ (Spawn(ok) /\ ~ok) PROVE [Promised!Next]_(Promised!vars)
    BY <1>2, <1>5, <1>0 DEF StartDaemon, Spawn, DoneInv
  <1>6. CASE Spawn(TRUE)
    <2>1. os = "none" /\ os' = "alive" /\ pc' = "initialize" /\ waiter = "waiting" /\ pc = "spawn"
          /\ UNCHANGED <<chan, card, waiter, stop>>
      BY <1>0, <1>6 DEF Spawn, DoneInv, NoneInv
    <2>2. ChannelIs = "none" /\ ChannelIs' = "open"
      BY <2>1 DEF ChannelIs
    <2>3. EndIs' = EndIs
      BY <2>1, EndStays DEF InChannel
    <2> QED
      BY <2>1, <2>2, <2>3 DEF Promised!Next, Promised!Open
  <1>7. ASSUME NEW request \in Requests, Send(request) \/ Timeout(request) PROVE [Promised!Next]_(Promised!vars)
    BY <1>2, <1>7 DEF Send, Timeout, Requests
  <1>8. CASE EmitSystem
    <2>1. /\ chan' = chan \/ chan' = chan \o <<"text">>
          /\ pc = "system" /\ pc' # "over" /\ UNCHANGED <<card, waiter, stop, os>>
      <3>1. Append(chan, "text") = chan \o <<"text">>
        BY <1>0, Parts
      <3>2. opts.shared \in BOOLEAN /\ opts.disk \in BOOLEAN
        BY <1>0, TurnAssumption DEF TypeOK
      <3>3. Join # "over"
        BY <3>2 DEF Join
      <3> QED
        BY <1>8, <3>1, <3>3 DEF EmitSystem
    <2>2. <<"text">> \in Seq(Events) /\ Len(<<"text">>) <= 1 /\ ~Ends(<<"text">>)
      BY DEF Events, Ends, Terminals
    <2>3. EndIs' = EndIs
      BY <1>0, <2>1, <2>2, EndIsAdded, EndStays DEF InChannel
    <2>4. ChannelIs' = ChannelIs
      BY <2>1 DEF ChannelIs
    <2> QED
      BY <2>1, <2>3, <2>4 DEF Promised!vars
  <1>9. CASE Fail
    BY <1>2, <1>9 DEF Fail, NoneInv, Gone
  <1>10. CASE Receive
    <2>1. UNCHANGED <<waiter, os, stop>> /\ pc = "reading" /\ pc' # "over"
      BY <1>10 DEF Receive
    <2>2. ChannelIs' = ChannelIs
      BY <2>1 DEF ChannelIs
    <2> QED
      BY <1>0, <1>10, <2>1, <2>2, EndIsReceived DEF Promised!vars
  <1>11. CASE SeesClose
    <2>1. /\ pc = "reading" /\ chan = << >> /\ waiter = "over" /\ pc' = "over" /\ UNCHANGED <<chan, stop>>
          /\ card' = IF card # "running" THEN card ELSE IF stop # "no" THEN "interrupted" ELSE "done"
      BY <1>11 DEF SeesClose
    <2>2. ChannelIs = "closed" /\ ChannelIs' = "over"
      BY <2>1 DEF ChannelIs
    <2>3. EndIs = card
      BY <2>1 DEF EndIs, InChannel
    <2>4. EndIs' = card'
      BY <2>1 DEF EndIs
    <2> QED
      BY <2>1, <2>2, <2>3, <2>4 DEF Promised!Next, Promised!Conclude
  <1>12. CASE \E ask \in Asks : asks = <<ask>> /\ \E c \in UserChoices(ask) : Answer(c)
    BY <1>2, <1>12 DEF Answer
  <1>13. CASE Read
    <2> DEFINE line == Head(stdout)
    <2>1. waiter # "over" /\ stdout # << >> /\ UNCHANGED <<os, waiter, card>> /\ os # "none"
      BY <1>13 DEF Read, NoneInv
    <2>2. CASE line.re \in Requests
      <3>1. /\ pc' = pc \/ (line.re \in waits \ {"interrupt"} /\ pc' = After(line.re, line.is))
            /\ stop' = stop \/ (line.re \in waits /\ line.re = "interrupt" /\ stop' = "grace")
            /\ UNCHANGED chan
        BY <1>13, <2>2 DEF Read
      <3>2. pc' = pc \/ (pc # "over" /\ pc' # "over")
        BY <1>0, <2>2, <3>1 DEF WaitInv, After, Requests
      <3> HIDE DEF line
      <3>3. ChannelIs' = ChannelIs /\ (stop' # "no") = (stop # "no")
        BY <2>1, <3>1, <3>2 DEF ChannelIs, StopInv
      <3>4. EndIs' = EndIs
        BY <2>1, <3>1, EndStays DEF InChannel
      <3> QED
        BY <3>1, <3>3, <3>4 DEF Promised!vars
    <2>3. CASE line.re \notin Requests
      <3>1. UNCHANGED <<pc, stop>> /\ held = << >>
        BY <1>13, <2>3 DEF Read
      <3>2. /\ line.is \in {"ask", "delta", "retry"} \cup Closing
            /\ EventOf(line.is) \in Seq(Events) /\ Len(EventOf(line.is)) <= 1
            /\ line.is \in Closing <=> Ends(EventOf(line.is))
        BY <1>0, <2>1, <2>3, TurnLines, EventTypes
      <3>3. \/ UNCHANGED chan
            \/ chan' = chan \o EventOf(line.is) /\ (line.is \in Closing => ~ended)
        BY <1>13, <2>3 DEF Read, Emit, Finished, Closing
      <3> HIDE DEF line
      <3>4. ChannelIs' = ChannelIs
        BY <2>1, <3>1 DEF ChannelIs
      <3>5. CASE UNCHANGED chan
        BY <1>1, <2>1, <3>1, <3>4, <3>5
      <3>6. CASE chan' = chan \o EventOf(line.is) /\ (line.is \in Closing => ~ended)
        <4>1. Ends(EventOf(line.is)) => ~Ends(chan) /\ card = "running"
          BY <1>0, <3>2, <3>6 DEF EndInv
        <4>2. IF Ends(EventOf(line.is)) THEN EndIs = "running" /\ EndIs' \in Terminals ELSE EndIs' = EndIs
          BY <1>0, <2>1, <3>2, <3>6, <4>1, EndIsAdded
        <4>3. Ends(EventOf(line.is)) => ChannelIs = "open"
          BY <2>1 DEF ChannelIs, StopInv
        <4> QED
          BY <3>1, <3>4, <4>2, <4>3 DEF Promised!vars, Promised!Next, Promised!Tell, Promised!Tells, Promised!Ends, Terminals
      <3> QED
        BY <3>3, <3>5, <3>6
    <2> QED
      BY <2>2, <2>3
  <1>14. CASE Unblock
    <2>1. /\ waiter # "over" /\ held # << >> /\ chan' = chan \o held
          /\ UNCHANGED <<os, waiter, card, pc, stop>> /\ os # "none"
      BY <1>14 DEF Unblock, NoneInv
    <2>2. held \in Seq(Events) /\ Len(held) <= 1 /\ (Ends(held) => ~Ends(chan) /\ card = "running")
      BY <1>0, Parts DEF EndInv, TypeOK
    <2>3. IF Ends(held) THEN EndIs = "running" /\ EndIs' \in Terminals ELSE EndIs' = EndIs
      BY <1>0, <2>1, <2>2, EndIsAdded
    <2>4. ChannelIs = "open" /\ ChannelIs' = ChannelIs
      BY <2>1 DEF ChannelIs, StopInv
    <2> QED
      BY <2>1, <2>3, <2>4 DEF Promised!vars, Promised!Next, Promised!Tell, Promised!Tells, Promised!Ends, Terminals
  <1>15. CASE Notice
    <2>1. /\ UNCHANGED <<chan, card, os>> /\ os # "none" /\ waiter = "waiting"
          /\ pc # "over" /\ pc' # "over" /\ waiter' \in {"telling", "over"}
          /\ (stop' # "no") = (stop # "no")
      BY <1>15 DEF Notice, Dead, Close, StopInv
    <2>2. EndIs' = EndIs
      BY <2>1, EndStays DEF InChannel
    <2>3. ChannelIs = "open" /\ ChannelIs' \in {"open", "closed"}
      BY <2>1 DEF ChannelIs
    <2> QED
      BY <2>1, <2>2, <2>3 DEF Promised!vars, Promised!Next, Promised!Close
  <1>16. CASE Tell
    <2>1. /\ waiter = "telling" /\ waiter' = "over" /\ chan' = Append(chan, "error")
          /\ UNCHANGED <<os, card, pc, stop>> /\ os # "none" /\ pc # "over"
      BY <1>16 DEF Tell, Close, NoneInv, StopInv
    <2>2. chan' = chan \o <<"error">> /\ <<"error">> \in Seq(Events) /\ Ends(<<"error">>)
      BY <1>0, <2>1, Parts DEF Events, Ends, Terminals
    <2>3. ~Ends(chan) /\ card = "running"
      BY <1>0, <2>1 DEF EndInv
    <2>4. EndIs = "running" /\ EndIs' \in Terminals
      <3>1. Len(<<"error">>) <= 1
        OBVIOUS
      <3>2. IF Ends(<<"error">>) THEN EndIs = "running" /\ EndIs' \in Terminals ELSE EndIs' = EndIs
        BY <1>0, <2>1, <2>2, <2>3, <3>1, EndIsAdded
      <3> QED
        BY <2>2, <3>2
    <2>5. ChannelIs = "open" /\ ChannelIs' = "closed"
      BY <2>1 DEF ChannelIs
    <2> QED
      BY <2>1, <2>4, <2>5 DEF Promised!Next, Promised!Close, Promised!Tells, Promised!Ends, Terminals
  <1>17. ASSUME NEW by \in {"command", "idle"}, Stop(by) PROVE [Promised!Next]_(Promised!vars)
    <2>1. /\ UNCHANGED <<chan, card, os, waiter>> /\ pc \in {"reading", "asking"} /\ pc' # "over"
          /\ stop' # "no"
      BY <1>17 DEF Stop
    <2>2. EndIs' = EndIs
      BY <2>1, EndStays DEF InChannel
    <2>3. ChannelIs # "none" /\ ChannelIs' = ChannelIs
      BY <2>1 DEF ChannelIs, NoneInv
    <2> QED
      BY <2>1, <2>2, <2>3 DEF Promised!Next, Promised!Stop
  <1>18. CASE InterruptFails \/ StopReturns \/ Signal
    <2>1. ChannelIs' = ChannelIs
      BY <1>18 DEF ChannelIs, InterruptFails, StopReturns, Return, Signal
    <2> QED
      BY <1>1, <1>18, <2>1 DEF InterruptFails, StopReturns, Signal
  <1>19. CASE Kill
    <2>1. UNCHANGED <<chan, card, pc, waiter>> /\ stop # "no" /\ stop' # "no"
          /\ (os' = os \/ (os # "none" /\ os' # "none"))
      BY <1>19 DEF Kill, Gone
    <2>2. ChannelIs' = ChannelIs
      BY <2>1 DEF ChannelIs
    <2> QED
      BY <1>1, <2>1, <2>2
  <1>20. CASE UNCHANGED vars
    BY <1>2, <1>20 DEF vars
  <1>21. CASE Starting \/ Stopping \/ Loop
    BY <1>5, <1>6, <1>7, <1>8, <1>9, <1>10, <1>11, <1>12, <1>18, <1>19, <1>21 DEF Starting, Stopping, Loop
  <1> QED
    BY <1>3, <1>4, <1>13, <1>14, <1>15, <1>16, <1>17, <1>20, <1>21 DEF Next

\* A turn keeps what a run promises (AgentRun): its channel is opened once and
\* closed once, at most one end is told, while it is open, and the card reads
\* that end; where none was told, interrupted if the turn was stopped.
THEOREM Refinement == Spec => ImplementsAgentRun
  <1>1. Init => NoneInv /\ StopInv /\ Promised!Init
    BY DEF Init, NoneInv, StopInv, Promised!Init, ChannelIs, EndIs, InChannel
  <1>2. IInv /\ NoneInv /\ StopInv /\ [Next]_vars => NoneInv' /\ StopInv'
    BY NoneStep, StopStep DEF IInv
  <1>3. IInv /\ IInv' /\ NoneInv /\ StopInv /\ [Next]_vars => [Promised!Next]_(Promised!vars)
    BY PromisedStep
  <1> QED
    BY <1>1, <1>2, <1>3, Invariance, PTL DEF Spec, ImplementsAgentRun, Promised!Spec
==============================================================================
