---------------------------- MODULE OpenCode_proofs ----------------------------
(***************************************************************************)
(* Proofs about OpenCode for any number of runs, chats, servers, messages  *)
(* and breaks of the stream: its types, ServedAsAllowed, EndIsTrue and     *)
(* TextIsWhole, and that each run keeps what a run promises (AgentRun).    *)
(* Servers are started one after the other, so that a new one serves       *)
(* nobody yet (ServerInv); a run is registered once and closed once        *)
(* (EndInv); a poll that is no early one meets the end of the turn         *)
(* (DoneInv); and while a run is registered, the text it got is the text   *)
(* that was recorded for it, but for the one that is on its way (TextInv). *)
(***************************************************************************)
EXTENDS OpenCode, FiniteSetTheorems, SequenceTheorems, WellFoundedInduction, TLAPS

\* The servers that were started; the next one is the number after them.
Started == {v \in Servers : os[v] # "none"}

\* A server keeps its level, and a run its server.
ServerInv ==
  /\ \E k \in 0..MaxServers : Started = 1..k
  /\ server # None => server \in Started
  /\ \A r \in Runs : home[r] # None => home[r] \in Started
  /\ ServedAsAllowed

\* What a run has at each place, and who may be at work in a session.
Sent == {"running", "over"}
PlaceInv ==
  /\ \A r \in Runs :
       /\ pc[r] # "idle" => r \in DOMAIN plan
       /\ pc[r] \in {"session", "prompt"} \cup Sent => home[r] \in Servers
       /\ pc[r] \in {"prompt"} \cup Sent => session[r] \in Runs
  /\ \A s \in Runs : \A r \in turn[s] : pc[r] \in Sent /\ session[r] = s
  /\ \A s \in Runs : last[s].run # None =>
       pc[last[s].run] \in Sent /\ session[last[s].run] = s

\* A run is registered, then closed; and it is closed with a terminal state,
\* unless its prompt was refused or the channel was full.
LostEnd(r) == <<r, "end">> \in dropped
LostText(r) == <<r, "text">> \in dropped
EndInv ==
  /\ runs \cap closed = {} /\ ~panicked
  /\ \A r \in runs : pc[r] \in {"prompt", "running"}
  /\ \A r \in closed : pc[r] \in {"prompt", "running", "refused", "over"}
  /\ \A r \in closed : pc[r] # "refused" => card[r] # "running" \/ LostEnd(r)
  /\ \A r \in Runs : pc[r] = "over" => r \in closed

\* A run that is closed as done has reached its end, or is in early, or missed
\* its end; and one for which a poll found a complete message has, or is in early.
ClosedAtEnd == \A r \in closed : pc[r] # "refused" /\ card[r] = "done" => r \in ended \cup early \/ LostEnd(r)
PolledAtEnd == \A r \in Runs : polled[r] # << >> =>
  Terminal(polled[r][1]) /\ (polled[r][1].state = "complete" => r \in ended \cup early)

DoneInv == ClosedAtEnd /\ PolledAtEnd

\* Text is published where its run works, to the session it works in.
Belongs(event, v) == LET r == event.piece[1] IN
  pc[r] \in Sent /\ session[r] = event.session /\ home[r] = v
Unsent(v, m) == IF held[v] # << >> /\ MessageOf(held[v][1].piece) = m THEN <<held[v][1].piece>> ELSE << >>

WireBelongs == \A v \in Servers : \A i \in DOMAIN wire[v] :
  wire[v][i].kind = "delta" => Belongs(wire[v][i], v)
HeldBelongs == \A v \in Servers : held[v] # << >> => Belongs(held[v][1], v)
NoTextYet == \A r \in Runs : pc[r] \in {"idle", "session"} => \A n \in 1..MaxMessages :
  shown[r][<<r, n>>] = << >> /\ \A v \in Servers : delivered[v][<<r, n>>] = << >>
TextIsSent == \A r \in runs : ~LostText(r) => \A n \in 1..MaxMessages :
  shown[r][<<r, n>>] \o Unsent(home[r], <<r, n>>) = delivered[home[r]][<<r, n>>]

TextInv == WireBelongs /\ HeldBelongs /\ NoTextYet /\ TextIsSent

\* What was delivered when the poll looked is a part of what is; and the text of
\* a run that is done, and missed nothing, is whole.
PolledPrefix == \A r \in Runs : polled[r] # << >> =>
  pc[r] \in Sent /\ IsPrefix(polled[r][2], Delivered(r, polled[r][1]))
WholeAtEnd == \A r \in closed \ raced : pc[r] # "refused" /\ card[r] = "done" /\ ~Missed(r) =>
  /\ polled[r] # << >>
  /\ LET message == polled[r][1] IN
       message.run = r /\ IsPrefix(polled[r][2], FullText(message)) =>
         shown[r][Id(message)] = FullText(message)

PollInv == PolledPrefix /\ WholeAtEnd

IInv == TypeOK /\ ServerInv /\ PlaceInv /\ EndInv /\ DoneInv /\ TextInv /\ PollInv

------------------------------------------------------------------------------
\* What the constants give.
LEMMA Constants ==
  /\ MaxRuns \in Nat /\ MaxServers \in Nat /\ MaxMessages \in Nat /\ MaxBreaks \in Nat
  /\ None \notin Runs /\ None \notin Servers
  /\ \A p \in Plans : \A r \in DOMAIN p :
       /\ r \in Runs /\ p[r].scope \in Scopes
       /\ p[r].messages \in 0..MaxMessages /\ p[r].pieces \in Nat
  <1>1. MaxRuns \in Nat /\ MaxServers \in Nat /\ MaxMessages \in Nat /\ MaxBreaks \in Nat
    BY OpenCodeAssumption
  <1>2. None \notin Runs /\ None \notin Servers
    BY <1>1 DEF None, Runs, Servers
  <1>3. ASSUME NEW p \in Plans, NEW r \in DOMAIN p
        PROVE  /\ r \in Runs /\ p[r].scope \in Scopes
               /\ p[r].messages \in 0..MaxMessages /\ p[r].pieces \in Nat
    BY <1>1, <1>3, OpenCodeAssumption DEF Runs
  <1> QED
    BY <1>1, <1>2, <1>3

\* A set of numbers has a least one.
LEMMA Least ==
  ASSUME NEW T \in SUBSET Nat, T # {}
  PROVE  Min(T) \in T
  <1>1. \E x \in T : \A y \in T : ~(<<y, x>> \in OpToRel(<, Nat))
    BY WFMin, NatLessThanWellFounded
  <1>2. \A x, y \in Nat : <<x, y>> \in OpToRel(<, Nat) <=> x < y
    BY SMT DEF OpToRel
  <1>3. \E x \in T : \A y \in T : ~(y < x)
    <2>1. PICK x \in T : \A y \in T : ~(<<y, x>> \in OpToRel(<, Nat))
      BY <1>1
    <2>2. ASSUME NEW y \in T PROVE ~(y < x)
      <3>1. x \in Nat /\ y \in Nat
        OBVIOUS
      <3>2. <<y, x>> \in OpToRel(<, Nat) <=> y < x
        BY Zenon, <3>1, <1>2
      <3> QED
        BY Zenon, <3>2, <2>1
    <2> QED
      BY <2>2
  <1>4. \E x \in T : \A y \in T : x <= y
    BY <1>3
  <1> QED
    BY <1>4 DEF Min

LEMMA CurrentWorks ==
  ASSUME turn \in [Runs -> SUBSET Runs], NEW s \in Runs, Working(s)
  PROVE  Current(s) \in turn[s] /\ Current(s) \in Runs /\ Current(s) # None
  <1>1. turn[s] \in SUBSET Nat /\ turn[s] \subseteq Runs
    BY Constants DEF Runs
  <1> QED
    BY <1>1, Least, Constants DEF Working, Current

\* The type of each variable.
LEMMA Parts ==
  ASSUME TypeOK
  PROVE  /\ plan \in Plans /\ session \in [Runs -> Runs \cup {None}]
         /\ home \in [Runs -> Servers \cup {None}]
         /\ turn \in [Runs -> SUBSET Runs] /\ last \in [Runs -> LastMessages \cup {NoMessage}]
         /\ wire \in [Servers -> Seq(Events)] /\ held \in [Servers -> Seq(Deltas)]
         /\ delivered \in [Servers -> [Messages -> Seq(Pieces)]]
         /\ shown \in [Runs -> [Messages -> Seq(Pieces)]]
         /\ polled \in [Runs -> {<< >>} \cup (LastMessages \X Seq(Pieces))]
         /\ runs \subseteq Runs /\ closed \subseteq Runs
  BY DEF TypeOK

\* The last message of a session in which somebody works is one.
LEMMA LastIsMessage ==
  ASSUME TypeOK, NEW s \in Runs, last[s].run # None
  PROVE  /\ last[s] \in LastMessages /\ last[s].run \in Runs /\ last[s].n \in 1..MaxMessages
         /\ last[s].size \in Nat
  BY Parts DEF NoMessage, LastMessages

LEMMA BusyIsMessage ==
  ASSUME TypeOK, NEW s \in Runs, Busy(s)
  PROVE  /\ last[s] \in LastMessages /\ last[s].run = Current(s) /\ Current(s) \in turn[s]
         /\ Current(s) \in Runs /\ last[s].n \in 1..MaxMessages /\ last[s].size \in Nat
  BY Parts, CurrentWorks, LastIsMessage DEF Busy

\* What goes out on the stream is typed.
LEMMA PublishTypes ==
  ASSUME TypeOK, NEW v, NEW events \in Seq(Events), Publish(v, events)
  PROVE  wire' \in [Servers -> Seq(Events)]
  <1>1. ASSUME NEW w \in Servers PROVE wire[w] \o events \in Seq(Events)
    BY Parts, ConcatProperties
  <1> QED
    BY <1>1, Parts DEF Publish

LEMMA EventTypes ==
  ASSUME NEW s \in Runs
  PROVE  /\ \A kind \in Kinds \ {"delta"} : Event(kind, s, << >>) \in Events
         /\ \A piece \in Pieces : Event("delta", s, piece) \in Deltas /\ Event("delta", s, piece) \in Events
  BY DEF Event, Events, Deltas, Kinds

LEMMA EndTurnTypes ==
  ASSUME TypeOK, NEW s \in Runs, Working(s), NEW events \in Seq(Events), NEW closes, EndTurn(s, events, closes)
  PROVE  /\ turn' \in [Runs -> SUBSET Runs] /\ wire' \in [Servers -> Seq(Events)]
         /\ unheard' \subseteq Runs
  <1>1. /\ turn' = [turn EXCEPT ![s] = @ \ {Current(s)}] /\ Publish(At(s), events)
        /\ unheard' = unheard \/ unheard' = unheard \cup {Current(s)}
    BY DEF EndTurn
  <1>2. Current(s) \in Runs /\ unheard \subseteq Runs
    BY Parts, CurrentWorks DEF TypeOK
  <1> QED
    BY <1>1, <1>2, Parts, PublishTypes

LEMMA BreakOffTypes ==
  ASSUME TypeOK, NEW s \in Runs, NEW state \in {"error", "aborted"}, BreakOff(s, state)
  PROVE  /\ last' \in [Runs -> LastMessages \cup {NoMessage}]
         /\ turn' \in [Runs -> SUBSET Runs] /\ wire' \in [Servers -> Seq(Events)]
         /\ unheard' \subseteq Runs
  <1>1. /\ Working(s)
        /\ EndTurn(s, <<Event(state, s, << >>), Event("idle", s, << >>)>>, TRUE)
    BY DEF BreakOff
  <1>2. last' \in [Runs -> LastMessages \cup {NoMessage}]
    <2>1. CASE Busy(s) /\ last' = [last EXCEPT ![s].state = state]
      <3>1. [last[s] EXCEPT !.state = state] \in LastMessages
        BY <2>1, BusyIsMessage DEF LastMessages, States
      <3> QED
        BY <2>1, <3>1, Parts
    <2>2. CASE last' = last
      BY <2>2, Parts
    <2> QED
      BY <2>1, <2>2 DEF BreakOff
  <1>3. <<Event(state, s, << >>), Event("idle", s, << >>)>> \in Seq(Events)
    BY EventTypes DEF Kinds
  <1> HIDE DEF EndTurn
  <1> QED
    BY <1>1, <1>2, <1>3, EndTurnTypes

LEMMA BreakOffKeeps ==
  ASSUME TypeOK, NEW s \in Runs, NEW state, BreakOff(s, state)
  PROVE  \A x \in Runs : turn'[x] \subseteq turn[x] /\ last'[x].run = last[x].run
  <1>1. turn' = [turn EXCEPT ![s] = @ \ {Current(s)}]
    BY DEF BreakOff, EndTurn
  <1>2. last' = last \/ (Busy(s) /\ last' = [last EXCEPT ![s].state = state])
    BY DEF BreakOff
  <1>3. \A x \in Runs : turn'[x] \subseteq turn[x]
    BY <1>1, Parts
  <1>4. \A x \in Runs : last'[x].run = last[x].run
    <2>1. CASE last' = last
      BY <2>1
    <2>2. CASE Busy(s) /\ last' = [last EXCEPT ![s].state = state]
      <3>1. last[s] \in LastMessages
        BY <2>2, BusyIsMessage
      <3>2. [last[s] EXCEPT !.state = state].run = last[s].run
        BY <3>1 DEF LastMessages
      <3> QED
        BY <2>2, <3>2, Parts
    <2> QED
      BY <1>2, <2>1, <2>2
  <1> QED
    BY <1>3, <1>4

LEMMA SendTypes ==
  ASSUME TypeOK, NEW R, NEW m \in Messages, NEW text \in Seq(Pieces), Send(R, m, text)
  PROVE  shown' \in [Runs -> [Messages -> Seq(Pieces)]]
  <1>1. ASSUME NEW r \in Runs PROVE [shown[r] EXCEPT ![m] = @ \o text] \in [Messages -> Seq(Pieces)]
    <2>1. shown[r][m] \o text \in Seq(Pieces)
      BY Parts, ConcatProperties
    <2> QED
      BY <2>1, Parts
  <1> QED
    BY <1>1, Parts DEF Send

LEMMA SendEndTypes ==
  ASSUME TypeOK, NEW R, NEW state \in {"done", "error", "interrupted"}, SendEnd(R, state)
  PROVE  card' \in [Runs -> {"running", "done", "error", "interrupted"}]
  BY DEF SendEnd, TypeOK

LEMMA DropTypes ==
  ASSUME TypeOK, NEW R \in SUBSET Runs, NEW what \in SUBSET {"text", "end"}, Drop(R, what)
  PROVE  dropped' \subseteq Runs \X {"text", "end"}
  BY DEF Drop, TypeOK

LEMMA CloseRunsTypes ==
  ASSUME TypeOK, NEW R \in SUBSET Runs, CloseRuns(R)
  PROVE  runs' \subseteq Runs /\ closed' \subseteq Runs /\ panicked' \in BOOLEAN
  <1>1. runs' \subseteq Runs /\ closed' \subseteq Runs
    BY Parts DEF CloseRuns
  <1>2. panicked' \in BOOLEAN
    BY Zenon DEF CloseRuns, TypeOK
  <1> QED
    BY <1>1, <1>2

\* What the poll sends, and what finds the channel full.
LEMMA PollSends ==
  ASSUME NEW r, PollCloses(r)
  PROVE  \E full \in SUBSET Still(r), missed \in SUBSET Still(r) :
           LET message == polled[r][1]  rest == MissingText(polled[r][2], FullText(message)) IN
             /\ Send(Still(r) \ full, Id(message), rest)
             /\ SendEnd(Still(r) \ missed, Ending(message)) /\ CloseRuns(Still(r))
             /\ dropped' = dropped \cup (full \X {"text"}) \cup (missed \X {"end"})
             /\ raced' = IF Delivered(r, message) # polled[r][2] \/ held[home[r]] # << >>
                         THEN raced \cup {r} ELSE raced
  <1> DEFINE message == polled[r][1]
             rest == MissingText(polled[r][2], FullText(message))
  <1>1. PICK full \in Full(IF rest = << >> THEN {} ELSE Still(r)), missed \in Full(Still(r)) :
          /\ Send(Still(r) \ full, Id(message), rest)
          /\ SendEnd(Still(r) \ missed, Ending(message))
          /\ dropped' = dropped \cup (full \X {"text"}) \cup (missed \X {"end"})
    BY DEF PollCloses
  <1>2. full \in SUBSET Still(r) /\ missed \in SUBSET Still(r)
    BY DEF Full
  <1>3. CloseRuns(Still(r)) /\ raced' = IF Delivered(r, message) # polled[r][2] \/ held[home[r]] # << >>
                                        THEN raced \cup {r} ELSE raced
    BY DEF PollCloses
  <1> HIDE DEF rest
  <1> QED
    BY <1>1, <1>2, <1>3 DEF rest

\* A prefix, element by element.
LEMMA Prefix ==
  ASSUME NEW S, NEW s \in Seq(S), NEW t \in Seq(S)
  PROVE  IsPrefix(s, t) <=> Len(s) <= Len(t) /\ \A i \in 1..Len(s) : s[i] = t[i]
  <1>1. SubSeq(s, 1, Len(s)) = s
    BY SubSeqFull
  <1>2. ASSUME Len(s) <= Len(t)
        PROVE  SubSeq(t, 1, Len(s)) = s <=> \A i \in 1..Len(s) : s[i] = t[i]
    <2>1. \A i \in 1..Len(s) : t[i] \in S
      BY <1>2, ElementOfSeq
    <2>2. /\ SubSeq(t, 1, Len(s)) \in Seq(S) /\ Len(SubSeq(t, 1, Len(s))) = Len(s)
          /\ \A i \in 1..Len(s) : SubSeq(t, 1, Len(s))[i] = t[i]
      BY <2>1, SubSeqProperties
    <2> QED
      BY <2>2, SeqEqual
  <1> QED
    BY <1>1, <1>2 DEF IsPrefix

\* What the poll sends completes what was delivered.
LEMMA Missing ==
  ASSUME NEW message \in LastMessages, NEW done \in Seq(Pieces)
  PROVE  /\ FullText(message) \in Seq(Pieces) /\ MissingText(done, FullText(message)) \in Seq(Pieces)
         /\ IsPrefix(done, FullText(message)) =>
              done \o MissingText(done, FullText(message)) = FullText(message)
  <1> DEFINE full == FullText(message)
             rest == SubSeq(full, Len(done) + 1, Len(full))
  <1>1. full \in Seq(Pieces)
    <2>1. message.size \in Nat /\ message.run \in Runs /\ message.n \in 1..MaxMessages
      BY DEF LastMessages
    <2>2. \A i \in 1..message.size : <<message.run, message.n, i>> \in Pieces
      BY <2>1 DEF Pieces
    <2> QED
      BY <2>1, <2>2 DEF FullText
  <1>2. Len(done) \in Nat /\ Len(full) \in Nat
    BY <1>1
  <1> HIDE DEF full
  <1>3. ASSUME Len(done) <= Len(full)
        PROVE  /\ rest \in Seq(Pieces) /\ Len(rest) = Len(full) - Len(done)
               /\ \A i \in 1..Len(full) - Len(done) : rest[i] = full[Len(done) + i]
    <2>1. \A i \in Len(done) + 1..Len(full) : full[i] \in Pieces
      BY <1>1, <1>2, ElementOfSeq
    <2> DEFINE m == Len(done) + 1
               n == Len(full)
    <2>2. m \in Int /\ n \in Int /\ n - m + 1 = Len(full) - Len(done)
      BY <1>2
    <2>3. /\ SubSeq(full, m, n) \in Seq(Pieces)
          /\ Len(SubSeq(full, m, n)) = IF m <= n THEN n - m + 1 ELSE 0
          /\ \A i \in 1..n - m + 1 : SubSeq(full, m, n)[i] = full[m + i - 1]
      BY <2>1, <2>2, SubSeqProperties
    <2>4. \A i \in 1..Len(full) - Len(done) : m + i - 1 = Len(done) + i
      BY <1>2
    <2> QED
      BY <1>2, <1>3, <2>2, <2>3, <2>4
  <1> HIDE DEF rest
  <1>4. IsPrefix(done, full) => Len(done) <= Len(full) /\ \A i \in 1..Len(done) : done[i] = full[i]
    BY <1>1, Prefix
  <1>5. MissingText(done, full) = IF IsPrefix(done, full) THEN rest ELSE << >>
    BY DEF MissingText, rest
  <1>6. MissingText(done, full) \in Seq(Pieces)
    BY <1>3, <1>4, <1>5
  <1>7. ASSUME IsPrefix(done, full) PROVE done \o rest = full
    <2>1. /\ done \o rest \in Seq(Pieces) /\ Len(done \o rest) = Len(full)
          /\ \A i \in 1..Len(full) :
               (done \o rest)[i] = IF i <= Len(done) THEN done[i] ELSE rest[i - Len(done)]
      BY <1>2, <1>3, <1>4, <1>7, ConcatProperties
    <2>2. \A i \in 1..Len(full) : (done \o rest)[i] = full[i]
      <3>1. ASSUME NEW i \in 1..Len(full), i > Len(done)
            PROVE  i - Len(done) \in 1..Len(full) - Len(done) /\ Len(done) + (i - Len(done)) = i
        BY <1>2, <3>1
      <3>2. ASSUME NEW i \in 1..Len(full), i > Len(done) PROVE rest[i - Len(done)] = full[i]
        BY <1>3, <1>4, <1>7, <3>1, <3>2
      <3>3. ASSUME NEW i \in 1..Len(full), i <= Len(done) PROVE done[i] = full[i]
        BY <1>2, <1>4, <1>7, <3>3
      <3> QED
        BY <1>2, <2>1, <3>2, <3>3
    <2> QED
      BY <1>1, <2>1, <2>2, SeqEqual
  <1> QED
    BY <1>1, <1>5, <1>6, <1>7 DEF full

\* The event at the head of the stream, and the one that dispatch holds.
LEMMA HeadTypes ==
  ASSUME TypeOK, NEW v \in Servers, wire[v] # << >>
  PROVE  /\ Head(wire[v]) \in Events /\ Tail(wire[v]) \in Seq(Events)
         /\ Head(wire[v]) = wire[v][1] /\ 1 \in DOMAIN wire[v]
         /\ \A i \in DOMAIN Tail(wire[v]) : i + 1 \in DOMAIN wire[v] /\ Tail(wire[v])[i] = wire[v][i + 1]
         /\ Head(wire[v]).kind = "delta" => Head(wire[v]) \in Deltas
  <1>1. wire[v] \in Seq(Events)
    BY Parts
  <1>2. Head(wire[v]) \in Events /\ Tail(wire[v]) \in Seq(Events) /\ Head(wire[v]) = wire[v][1]
    BY <1>1
  <1>3. /\ 1 \in DOMAIN wire[v]
        /\ \A i \in DOMAIN Tail(wire[v]) : i + 1 \in DOMAIN wire[v] /\ Tail(wire[v])[i] = wire[v][i + 1]
    BY <1>1, HeadTailProperties
  <1> QED
    BY <1>2, <1>3 DEF Events

LEMMA HeldTypes ==
  ASSUME TypeOK, NEW v \in Servers, held[v] # << >>
  PROVE  /\ held[v] = <<held[v][1]>> /\ held[v][1] \in Deltas /\ held[v][1].session \in Runs
         /\ held[v][1].piece \in Pieces /\ MessageOf(held[v][1].piece) \in Messages
  <1>1. held[v] \in Seq(Deltas) /\ Len(held[v]) <= 1
    BY DEF TypeOK
  <1>2. Len(held[v]) = 1
    <2>1. Len(held[v]) # 0
      BY <1>1, EmptySeq
    <2>2. Len(held[v]) \in Nat
      BY <1>1, LenProperties
    <2>3. \A n \in Nat : n <= 1 /\ n # 0 => n = 1
      OBVIOUS
    <2> QED
      BY <1>1, <2>1, <2>2, <2>3, Zenon
  <1>3. held[v] = <<held[v][1]>> /\ held[v][1] \in Deltas
    <2>1. held[v][1] \in Deltas
      BY <1>1, <1>2, ElementOfSeq
    <2>2. \A s \in Seq(Deltas) : Len(s) = 1 => s = <<s[1]>>
      OBVIOUS
    <2> QED
      BY <1>1, <1>2, <2>1, <2>2
  <1> QED
    BY <1>3 DEF Deltas, Pieces, MessageOf, Messages

USE DEF serverVars, streamVars, startVars, runVars, turnVars, ServerOnly

LEMMA InitIInv == Init => IInv
  <1> SUFFICES ASSUME Init PROVE IInv
    OBVIOUS
  <1>1. TypeOK
    <2>1. /\ server \in Servers \cup {None} /\ os \in [Servers -> {"none", "alive", "gone"}]
          /\ {reaped, online} \subseteq [Servers -> BOOLEAN] /\ breaks \in 0..MaxBreaks
          /\ wire \in [Servers -> Seq(Events)] /\ held \in [Servers -> Seq(Deltas)]
          /\ \A v \in Servers : Len(held[v]) <= 1
      BY Constants DEF Init
    <2>2. /\ plan \in Plans /\ sessions \in [Scopes -> Runs \cup {None}]
          /\ pc \in [Runs -> {"idle", "session", "prompt", "running", "refused", "over"}]
          /\ session \in [Runs -> Runs \cup {None}] /\ home \in [Runs -> Servers \cup {None}]
          /\ \A R \in {runs, closed, stopped, ended, early, raced, unheard} : R \subseteq Runs
          /\ dropped \subseteq Runs \X {"text", "end"}
          /\ card \in [Runs -> {"running", "done", "error", "interrupted"}]
          /\ turn \in [Runs -> SUBSET Runs] /\ panicked \in BOOLEAN
      BY DEF Init
    <2>3. << >> \in Seq(Pieces) /\ NoMessage \in LastMessages \cup {NoMessage}
      BY EmptySeq
    <2>4. /\ shown \in [Runs -> [Messages -> Seq(Pieces)]]
          /\ delivered \in [Servers -> [Messages -> Seq(Pieces)]]
      BY <2>3 DEF Init
    <2>5. /\ polled \in [Runs -> {<< >>} \cup (LastMessages \X Seq(Pieces))]
          /\ last \in [Runs -> LastMessages \cup {NoMessage}]
      BY <2>3 DEF Init
    <2> QED
      BY <2>1, <2>2, <2>4, <2>5 DEF TypeOK
  <1>2. ServerInv
    <2>1. Started = 1..0 /\ 0 \in 0..MaxServers
      BY Constants DEF Init, Started
    <2>2. server = None /\ \A r \in Runs : home[r] = None
      BY DEF Init
    <2> QED
      BY <2>1, <2>2 DEF ServerInv, ServedAsAllowed
  <1>3. PlaceInv /\ EndInv
    BY DEF Init, PlaceInv, EndInv, Sent, NoMessage
  <1>4. DoneInv
    BY DEF Init, DoneInv, ClosedAtEnd, PolledAtEnd
  <1>5. TextInv
    <2>1. \A v \in Servers : DOMAIN wire[v] = {} /\ held[v] = << >>
      BY DEF Init
    <2>2. \A r \in Runs : \A n \in 1..MaxMessages : <<r, n>> \in Messages
      BY DEF Messages
    <2>3. \A r \in Runs : \A n \in 1..MaxMessages :
            shown[r][<<r, n>>] = << >> /\ \A v \in Servers : delivered[v][<<r, n>>] = << >>
      BY <2>2 DEF Init
    <2>4. runs = {}
      BY DEF Init
    <2> QED
      BY <2>1, <2>3, <2>4 DEF TextInv, WireBelongs, HeldBelongs, NoTextYet, TextIsSent
  <1>6. PollInv
    BY DEF Init, PollInv, PolledPrefix, WholeAtEnd
  <1> QED
    BY <1>1, <1>2, <1>3, <1>4, <1>5, <1>6 DEF IInv

LEMMA TypeStep == TypeOK /\ PlaceInv /\ [Next]_vars => TypeOK'
  <1> SUFFICES ASSUME TypeOK, PlaceInv, [Next]_vars PROVE TypeOK'
    OBVIOUS
  <1>1. ASSUME NEW s \in Runs, NewMessage(s) PROVE TypeOK'
    <2> DEFINE r == Current(s)
    <2>1. r \in turn[s] /\ r \in Runs /\ r # None
      BY <1>1, Parts, CurrentWorks DEF NewMessage
    <2>2. r \in DOMAIN plan
      BY <2>1 DEF PlaceInv, Sent
    <2>3. plan[r].messages \in 0..MaxMessages
      BY <2>2, Parts, Constants
    <2> DEFINE n == Count(s) + 1
    <2>4. n \in 1..MaxMessages
      <3>1. Count(s) \in Nat
        BY BusyIsMessage, Constants DEF Count
      <3> QED
        BY <1>1, <2>3, <3>1, Constants DEF NewMessage
    <2>5. [run |-> r, n |-> n, size |-> 0, state |-> "open"] \in LastMessages
      BY <2>1, <2>4 DEF LastMessages, States
    <2>6. last' = [last EXCEPT ![s] = [run |-> r, n |-> n, size |-> 0, state |-> "open"]]
      BY <1>1 DEF NewMessage
    <2>7. last' \in [Runs -> LastMessages \cup {NoMessage}]
      BY <2>5, <2>6, Parts
    <2> QED
      BY <1>1, <2>7 DEF TypeOK, NewMessage
  <1>2. ASSUME NEW s \in Runs, Write(s) PROVE TypeOK'
    <2>1. Busy(s)
      BY <1>2 DEF Write
    <2> DEFINE piece == <<last[s].run, last[s].n, last[s].size + 1>>
    <2>2. piece \in Pieces
      BY <2>1, BusyIsMessage DEF Pieces
    <2>3. <<Event("delta", s, piece)>> \in Seq(Events)
      BY <2>2, EventTypes
    <2>4. wire' \in [Servers -> Seq(Events)]
      BY <1>2, <2>3, PublishTypes DEF Write
    <2>5. [last[s] EXCEPT !.size = @ + 1] \in LastMessages
      BY <2>1, BusyIsMessage DEF LastMessages
    <2>6. last' \in [Runs -> LastMessages \cup {NoMessage}]
      BY <1>2, <2>5, Parts DEF Write
    <2> QED
      BY <1>2, <2>4, <2>6 DEF TypeOK, Write
  <1>3. ASSUME NEW s \in Runs, Complete(s) PROVE TypeOK'
    <2>1. [last[s] EXCEPT !.state = "complete"] \in LastMessages
      BY <1>3, BusyIsMessage DEF Complete, LastMessages, States
    <2>2. last' \in [Runs -> LastMessages \cup {NoMessage}]
      BY <1>3, <2>1, Parts DEF Complete
    <2> QED
      BY <1>3, <2>2 DEF TypeOK, Complete
  <1>4. ASSUME NEW s \in Runs, Idle(s) PROVE TypeOK'
    <2>1. <<Event("idle", s, << >>)>> \in Seq(Events)
      BY EventTypes DEF Kinds
    <2>2. /\ turn' \in [Runs -> SUBSET Runs] /\ wire' \in [Servers -> Seq(Events)]
          /\ unheard' \subseteq Runs
      BY <1>4, <2>1, EndTurnTypes DEF Idle
    <2>3. ended' \subseteq Runs
      BY <1>4, Parts, CurrentWorks DEF Idle, TypeOK
    <2> QED
      BY <1>4, <2>2, <2>3 DEF TypeOK, Idle
  <1>5. ASSUME NEW s \in Runs, Fail(s) PROVE TypeOK'
    <2>1. /\ last' \in [Runs -> LastMessages \cup {NoMessage}]
          /\ turn' \in [Runs -> SUBSET Runs] /\ wire' \in [Servers -> Seq(Events)]
          /\ unheard' \subseteq Runs
      BY <1>5, BreakOffTypes DEF Fail
    <2> QED
      BY <1>5, <2>1 DEF TypeOK, Fail
  <1>6. ASSUME NEW v \in Servers, Die(v) PROVE TypeOK'
    <2>1. os' \in [Servers -> {"none", "alive", "gone"}] /\ turn' \in [Runs -> SUBSET Runs]
      BY <1>6 DEF Die, Gone, TypeOK
    <2> QED
      BY <1>6, <2>1 DEF TypeOK, Die
  <1>7. ASSUME NEW v \in Servers, Connect(v) PROVE TypeOK'
    BY <1>7 DEF TypeOK, Connect
  <1>8. ASSUME NEW v \in Servers, Break(v) PROVE TypeOK'
    <2>1. breaks' \in 0..MaxBreaks
      BY <1>8, Constants DEF TypeOK, Break
    <2>2. online' \in [Servers -> BOOLEAN] /\ wire' \in [Servers -> Seq(Events)]
      BY <1>8, EmptySeq DEF TypeOK, Break
    <2>3. unheard' \subseteq Runs
      BY <1>8 DEF TypeOK, Break
    <2> QED
      BY <1>8, <2>1, <2>2, <2>3 DEF TypeOK, Break
  <1>9. ASSUME NEW v \in Servers, Record(v) PROVE TypeOK'
    <2> DEFINE event == Head(wire[v])
    <2>1. event \in Deltas /\ Tail(wire[v]) \in Seq(Events)
      BY <1>9, HeadTypes DEF Record
    <2>2. event.piece \in Pieces /\ MessageOf(event.piece) \in Messages
      BY <2>1 DEF Deltas, Pieces, MessageOf, Messages
    <2>3. delivered' \in [Servers -> [Messages -> Seq(Pieces)]]
      <3>1. Append(delivered[v][MessageOf(event.piece)], event.piece) \in Seq(Pieces)
        BY <2>2, Parts, AppendProperties
      <3> QED
        BY <1>9, <2>2, <3>1, Parts DEF Record
    <2>4. held' \in [Servers -> Seq(Deltas)] /\ \A w \in Servers : Len(held'[w]) <= 1
      <3>1. <<event>> \in Seq(Deltas) /\ Len(<<event>>) = 1
        BY <2>1
      <3>2. held' = [held EXCEPT ![v] = <<event>>]
        BY <1>9 DEF Record
      <3> HIDE DEF event
      <3> QED
        BY <3>1, <3>2 DEF TypeOK
    <2>5. wire' \in [Servers -> Seq(Events)]
      BY <1>9, <2>1, Parts DEF Record
    <2> QED
      BY <1>9, <2>3, <2>4, <2>5 DEF TypeOK, Record
  <1>10. ASSUME NEW v \in Servers, SendText(v) PROVE TypeOK'
    <2>1. <<held[v][1].piece>> \in Seq(Pieces) /\ MessageOf(held[v][1].piece) \in Messages
      BY <1>10, HeldTypes DEF SendText
    <2> DEFINE R == RunsOf(v, held[v][1].session)
    <2>2. PICK full \in Full(R) :
            /\ Send(R \ full, MessageOf(held[v][1].piece), <<held[v][1].piece>>)
            /\ Drop(full, {"text"})
      BY <1>10 DEF SendText
    <2>4. full \in SUBSET Runs
      BY Parts DEF Full, RunsOf
    <2> HIDE DEF R
    <2>5. shown' \in [Runs -> [Messages -> Seq(Pieces)]]
      BY <2>1, <2>2, SendTypes
    <2>6. dropped' \subseteq Runs \X {"text", "end"}
      BY <2>2, <2>4, DropTypes
    <2>3. held' \in [Servers -> Seq(Deltas)] /\ \A w \in Servers : Len(held'[w]) <= 1
      BY <1>10, EmptySeq DEF SendText, TypeOK
    <2> QED
      BY <1>10, <2>3, <2>5, <2>6 DEF TypeOK, SendText
  <1>11. ASSUME NEW v \in Servers, Finish(v) PROVE TypeOK'
    <2> DEFINE event == Head(wire[v])
               R == RunsOf(v, event.session)
               state == CASE event.kind = "idle" -> "done"
                          [] event.kind = "aborted" -> "interrupted"
                          [] event.kind = "error" -> "error"
    <2>1. event \in Events /\ Tail(wire[v]) \in Seq(Events) /\ event.kind # "delta"
      BY <1>11, HeadTypes DEF Finish
    <2>2. event.kind \in {"idle", "error", "aborted"}
      BY <2>1 DEF Events, Deltas, Kinds
    <2>3. state \in {"done", "error", "interrupted"}
      BY <2>2
    <2>4. PICK full \in Full(R) :
            /\ Drop(full, {"end"}) /\ SendEnd(R \ full, state)
            /\ CloseRuns(IF event.kind = "idle" THEN {} ELSE R)
            /\ wire' = [wire EXCEPT ![v] = Tail(@)]
      BY <1>11 DEF Finish
    <2> HIDE DEF state
    <2>10. full \in SUBSET Runs
      BY Parts DEF Full, RunsOf
    <2>11. dropped' \subseteq Runs \X {"text", "end"}
      BY <2>4, <2>10, DropTypes
    <2>5. card' \in [Runs -> {"running", "done", "error", "interrupted"}]
      BY <2>3, <2>4, SendEndTypes
    <2>6. (IF event.kind = "idle" THEN {} ELSE R) \in SUBSET Runs
      BY Parts DEF RunsOf
    <2>7. runs' \subseteq Runs /\ closed' \subseteq Runs /\ panicked' \in BOOLEAN
      BY <2>4, <2>6, CloseRunsTypes
    <2>8. wire' \in [Servers -> Seq(Events)]
      BY <2>1, <2>4, Parts
    <2>9. UNCHANGED <<serverVars, online, held, breaks, startVars, pc, shown, polled, early, raced,
                      stopped, turnVars, delivered>>
      BY <1>11 DEF Finish
    <2> QED
      BY <2>5, <2>7, <2>8, <2>9, <2>11 DEF TypeOK
  <1>12. ASSUME NEW v \in Servers, Reap(v) PROVE TypeOK'
    <2> DEFINE R == {r \in runs : home[r] = v}
    <2>1. R \in SUBSET Runs
      BY Parts
    <2>2. card' \in [Runs -> {"running", "done", "error", "interrupted"}] /\ dropped' \subseteq Runs \X {"text", "end"}
      <3>1. PICK full \in Full(R) : SendEnd(R \ full, "error") /\ Drop(full, {"end"})
        BY <1>12 DEF Reap
      <3>2. full \in SUBSET Runs
        BY <2>1 DEF Full
      <3> QED
        BY <3>1, <3>2, SendEndTypes, DropTypes
    <2>3. runs' \subseteq Runs /\ closed' \subseteq Runs /\ panicked' \in BOOLEAN
      BY <1>12, <2>1, CloseRunsTypes DEF Reap
    <2>4. /\ {reaped', online'} \subseteq [Servers -> BOOLEAN]
          /\ wire' \in [Servers -> Seq(Events)] /\ held' \in [Servers -> Seq(Deltas)]
          /\ \A w \in Servers : Len(held'[w]) <= 1
      BY <1>12, EmptySeq DEF TypeOK, Reap
    <2> QED
      BY <1>12, <2>2, <2>3, <2>4 DEF TypeOK, Reap
  <1>13. ASSUME NEW r \in Runs, Reuse(r) PROVE TypeOK'
    <2>1. server \in Servers
      BY <1>13 DEF Reuse, Usable, TypeOK
    <2>2. home' \in [Runs -> Servers \cup {None}]
          /\ pc' \in [Runs -> {"idle", "session", "prompt", "running", "refused", "over"}]
      BY <1>13, <2>1 DEF TypeOK, Reuse, Goto
    <2> QED
      BY <1>13, <2>2 DEF TypeOK, Reuse
  <1>14. ASSUME NEW r \in Runs, NEW ok \in BOOLEAN, Start(r, ok) PROVE TypeOK'
    <2> DEFINE fresh == Cardinality(Started) + 1
               killed == {server} \ {None}
               started == IF ok THEN {fresh} ELSE {}
    <2>1. /\ fresh \in Servers
          /\ os' = [v \in Servers |-> IF v \in started THEN "alive" ELSE IF v \in killed THEN "gone" ELSE os[v]]
          /\ turn' = [s \in Runs |-> {x \in turn[s] : home[x] \notin killed}]
          /\ level' = [v \in Servers |-> IF v \in started THEN plan[r].access ELSE level[v]]
          /\ server' = IF ok THEN fresh ELSE None
          /\ home' = [home EXCEPT ![r] = IF ok THEN fresh ELSE None]
      BY <1>14 DEF Start, Started
    <2> HIDE DEF fresh, killed, started
    <2>2. /\ server' \in Servers \cup {None} /\ home' \in [Runs -> Servers \cup {None}]
          /\ turn' \in [Runs -> SUBSET Runs]
      BY <2>1, Parts
    <2>3. os' \in [Servers -> {"none", "alive", "gone"}]
      BY <2>1 DEF TypeOK
    <2>4. pc' \in [Runs -> {"idle", "session", "prompt", "running", "refused", "over"}]
      BY <1>14 DEF TypeOK, Start, Goto
    <2> QED
      BY <1>14, <2>2, <2>3, <2>4 DEF TypeOK, Start
  <1>15. ASSUME NEW r \in Runs, OpenSession(r) PROVE TypeOK'
    <2> DEFINE c == plan[r].scope
               s == IF sessions[c] = None THEN r ELSE sessions[c]
    <2>1. pc[r] = "session" /\ r \in DOMAIN plan
      BY <1>15 DEF OpenSession, PlaceInv
    <2>2. c \in Scopes
      BY <2>1, Parts, Constants
    <2>3. s \in Runs
      BY <2>2 DEF TypeOK
    <2>4. \/ /\ sessions' = sessions /\ session' = session /\ runs' = runs
             /\ pc' = [pc EXCEPT ![r] = "refused"]
          \/ /\ session' = [session EXCEPT ![r] = s] /\ sessions' = [sessions EXCEPT ![c] = session'[r]]
             /\ runs' = runs \cup {r} /\ pc' = [pc EXCEPT ![r] = "prompt"]
      BY <1>15 DEF OpenSession, Goto
    <2> HIDE DEF s, c
    <2>5. session' \in [Runs -> Runs \cup {None}] /\ (session' = [session EXCEPT ![r] = s] => session'[r] = s)
      BY <2>3, <2>4, Parts
    <2>6. /\ sessions' \in [Scopes -> Runs \cup {None}] /\ runs' \subseteq Runs
          /\ pc' \in [Runs -> {"idle", "session", "prompt", "running", "refused", "over"}]
      <3>1. CASE sessions' = sessions /\ runs' = runs /\ pc' = [pc EXCEPT ![r] = "refused"]
        BY <3>1 DEF TypeOK
      <3>2. CASE sessions' = [sessions EXCEPT ![c] = s] /\ runs' = runs \cup {r} /\ pc' = [pc EXCEPT ![r] = "prompt"]
        BY <2>2, <2>3, <3>2 DEF TypeOK
      <3> QED
        BY <2>4, <2>5, <3>1, <3>2
    <2> QED
      BY <1>15, <2>5, <2>6 DEF TypeOK, OpenSession
  <1>16. ASSUME NEW r \in Runs, NEW ok \in BOOLEAN, Prompt(r, ok) PROVE TypeOK'
    <2>1. runs' \subseteq Runs /\ closed' \subseteq Runs /\ panicked' \in BOOLEAN
      <3>1. Still(r) \in SUBSET Runs
        BY DEF Still
      <3>2. CloseRuns(Still(r)) => runs' \subseteq Runs /\ closed' \subseteq Runs /\ panicked' \in BOOLEAN
        BY <3>1, CloseRunsTypes
      <3> QED
        BY <1>16, <3>2 DEF Prompt, TypeOK
    <2>2. /\ pc' \in [Runs -> {"idle", "session", "prompt", "running", "refused", "over"}]
          /\ turn' \in [Runs -> SUBSET Runs]
      BY <1>16 DEF TypeOK, Prompt, Goto
    <2> QED
      BY <1>16, <2>1, <2>2 DEF TypeOK, Prompt
  <1>17. ASSUME NEW r \in Runs, Poll(r) PROVE TypeOK'
    <2> DEFINE message == last[session[r]]
    <2>1. session[r] \in Runs /\ home[r] \in Servers
      BY <1>17 DEF Poll, PlaceInv, Sent
    <2>2. message \in LastMessages
      BY <1>17, <2>1, Parts DEF Poll
    <2>3. Delivered(r, message) \in Seq(Pieces)
      BY <2>1, <2>2, Parts DEF Delivered, Id, LastMessages, Messages
    <2>4. polled' = [polled EXCEPT ![r] = <<message, Delivered(r, message)>>]
      BY <1>17 DEF Poll
    <2> HIDE DEF message
    <2>5. <<message, Delivered(r, message)>> \in LastMessages \X Seq(Pieces)
      BY <2>2, <2>3
    <2>6. polled' \in [Runs -> {<< >>} \cup (LastMessages \X Seq(Pieces))]
      BY <2>4, <2>5, Parts
    <2>7. early' \subseteq Runs
      BY <1>17 DEF Poll, TypeOK
    <2> QED
      BY <1>17, <2>6, <2>7 DEF TypeOK, Poll
  <1>18. ASSUME NEW r \in Runs, PollCloses(r) PROVE TypeOK'
    <2> DEFINE message == polled[r][1]
               done == polled[r][2]
    <2>1. message \in LastMessages /\ done \in Seq(Pieces)
      BY <1>18, Parts DEF PollCloses
    <2>2. Id(message) \in Messages /\ MissingText(done, FullText(message)) \in Seq(Pieces)
      BY <2>1, Missing DEF Id, Messages, LastMessages
    <2>3. PICK full \in SUBSET Still(r), missed \in SUBSET Still(r) :
            /\ Send(Still(r) \ full, Id(message), MissingText(done, FullText(message)))
            /\ SendEnd(Still(r) \ missed, Ending(message)) /\ CloseRuns(Still(r))
            /\ dropped' = dropped \cup (full \X {"text"}) \cup (missed \X {"end"})
            /\ \/ raced' = raced \cup {r}
               \/ raced' = raced
      BY <1>18, PollSends
    <2> HIDE DEF message, done
    <2>4. Ending(message) \in {"done", "error", "interrupted"} /\ Still(r) \in SUBSET Runs
      BY DEF Ending, Still
    <2>5. shown' \in [Runs -> [Messages -> Seq(Pieces)]]
      BY <2>2, <2>3, SendTypes
    <2>6. card' \in [Runs -> {"running", "done", "error", "interrupted"}]
      BY <2>3, <2>4, SendEndTypes
    <2>7. runs' \subseteq Runs /\ closed' \subseteq Runs /\ panicked' \in BOOLEAN
      BY <2>3, <2>4, CloseRunsTypes
    <2>8. raced' \subseteq Runs /\ dropped' \subseteq Runs \X {"text", "end"}
      BY <2>3, <2>4 DEF TypeOK
    <2> QED
      BY <1>18, <2>5, <2>6, <2>7, <2>8 DEF TypeOK, PollCloses
  <1>19. ASSUME NEW r \in Runs, SeesClose(r) PROVE TypeOK'
    <2>1. card' \in [Runs -> {"running", "done", "error", "interrupted"}]
      BY <1>19 DEF TypeOK, SeesClose
    <2>2. pc' \in [Runs -> {"idle", "session", "prompt", "running", "refused", "over"}]
      BY <1>19 DEF TypeOK, SeesClose, Goto
    <2> QED
      BY <1>19, <2>1, <2>2 DEF TypeOK, SeesClose
  <1>20. ASSUME NEW r \in Runs, Stop(r) PROVE TypeOK'
    <2>1. session[r] \in Runs
      BY <1>20 DEF Stop, PlaceInv, Sent
    <2>2. /\ last' \in [Runs -> LastMessages \cup {NoMessage}]
          /\ turn' \in [Runs -> SUBSET Runs] /\ wire' \in [Servers -> Seq(Events)]
          /\ unheard' \subseteq Runs
      <3>1. CASE BreakOff(session[r], "aborted")
        BY <2>1, <3>1, BreakOffTypes
      <3>2. CASE UNCHANGED <<last, turn, unheard, wire>>
        BY <3>2 DEF TypeOK
      <3> QED
        BY <1>20, <3>1, <3>2 DEF Stop
    <2>3. stopped' \subseteq Runs
      BY <1>20 DEF Stop, TypeOK
    <2> QED
      BY <1>20, <2>2, <2>3 DEF TypeOK, Stop
  <1>21. ASSUME NEW c \in Scopes, Reset(c) PROVE TypeOK'
    BY <1>21 DEF TypeOK, Reset
  <1>22. CASE UNCHANGED vars
    BY <1>22 DEF TypeOK, vars
  <1> QED
    BY <1>1, <1>2, <1>3, <1>4, <1>5, <1>6, <1>7, <1>8, <1>9, <1>10, <1>11, <1>12, <1>13, <1>14, <1>15,
       <1>16, <1>17, <1>18, <1>19, <1>20, <1>21, <1>22 DEF Next, Turn, Running, Streaming

\* Who starts and ends servers, and gives a run its server.
LEMMA ServerFrame ==
  ASSUME [Next]_vars
  PROVE  \/ \E v \in Servers : Die(v)
         \/ \E r \in Runs : Reuse(r) \/ \E ok \in BOOLEAN : Start(r, ok)
         \/ UNCHANGED <<server, os, level, home, plan>>
  <1>1. ASSUME NEW s \in Runs, Turn(s) PROVE UNCHANGED <<server, os, level, home, plan>>
    BY <1>1 DEF Turn, NewMessage, Write, Complete, Idle, Fail
  <1>2. ASSUME NEW v \in Servers, Connect(v) \/ Break(v) \/ Streaming(v)
        PROVE  UNCHANGED <<server, os, level, home, plan>>
    BY <1>2 DEF Streaming, Connect, Break, Record, SendText, Finish, Reap
  <1>3. ASSUME NEW r \in Runs, Prompt(r, TRUE) \/ Running(r) \/ Stop(r)
        PROVE  UNCHANGED <<server, os, level, home, plan>>
    BY <1>3 DEF Running, OpenSession, Prompt, Poll, PollCloses, SeesClose, Stop
  <1>4. ASSUME NEW c \in Scopes, Reset(c) PROVE UNCHANGED <<server, os, level, home, plan>>
    BY <1>4 DEF Reset
  <1> QED
    BY <1>1, <1>2, <1>3, <1>4 DEF Next, vars

\* A new server is none of those that were started.
LEMMA FreshServer ==
  ASSUME TypeOK, ServerInv
  PROVE  \E k \in 0..MaxServers : Started = 1..k /\ Cardinality(Started) = k
  <1>1. PICK k \in 0..MaxServers : Started = 1..k
    BY DEF ServerInv
  <1>2. k \in Nat
    BY <1>1, Constants
  <1> QED
    BY <1>1, <1>2, FS_Interval

LEMMA ServerStep == TypeOK /\ ServerInv /\ [Next]_vars => ServerInv'
  <1> SUFFICES ASSUME TypeOK, ServerInv, [Next]_vars PROVE ServerInv'
    OBVIOUS
  <1>1. ASSUME NEW v \in Servers, Die(v) PROVE ServerInv'
    <2>1. Started' = Started
      BY <1>1 DEF Die, Gone, Started, TypeOK
    <2> QED
      BY <1>1, <2>1 DEF ServerInv, ServedAsAllowed, Die
  <1>2. ASSUME NEW r \in Runs, Reuse(r) PROVE ServerInv'
    <2>1. Started' = Started /\ server \in Started /\ level[server] = plan[r].access
      BY <1>2 DEF Started, Reuse, Usable, SameLevel, ServerInv
    <2>2. \A x \in Runs : home'[x] = IF x = r THEN server ELSE home[x]
      BY <1>2 DEF Reuse, TypeOK
    <2> QED
      BY <1>2, <2>1, <2>2 DEF ServerInv, ServedAsAllowed, Reuse
  <1>3. ASSUME NEW r \in Runs, NEW ok \in BOOLEAN, Start(r, ok) PROVE ServerInv'
    <2>1. PICK k \in 0..MaxServers : Started = 1..k /\ Cardinality(Started) = k
      BY FreshServer
    <2> DEFINE fresh == k + 1
               killed == {server} \ {None}
               started == IF ok THEN {fresh} ELSE {}
    <2>2. /\ fresh \in Servers
          /\ os' = [v \in Servers |-> IF v \in started THEN "alive" ELSE IF v \in killed THEN "gone" ELSE os[v]]
          /\ level' = [v \in Servers |-> IF v \in started THEN plan[r].access ELSE level[v]]
          /\ server' = IF ok THEN fresh ELSE None
          /\ home' = [home EXCEPT ![r] = IF ok THEN fresh ELSE None]
          /\ plan' = plan
      BY <1>3, <2>1 DEF Start, Started
    <2>3. fresh \notin Started /\ k \in Nat /\ fresh # None /\ fresh \in 1..MaxServers
      BY <2>1, <2>2, Constants DEF None, Servers
    <2> HIDE DEF fresh
    <2>4. killed \subseteq Started
      BY DEF ServerInv
    <2>5. Started' = Started \cup started
      BY <2>2, <2>4 DEF Started
    <2>6. \E j \in 0..MaxServers : Started' = 1..j
      <3>1. CASE ok
        <4>1. k + 1 \in 0..MaxServers /\ 1..(k + 1) = 1..k \cup {k + 1}
          BY <2>3 DEF fresh
        <4> QED
          BY <2>1, <2>5, <3>1, <4>1 DEF fresh
      <3>2. CASE ~ok
        BY <2>1, <2>5, <3>2
      <3> QED
        BY <3>1, <3>2
    <2>7. server' # None => server' \in Started'
      BY <2>2, <2>5
    <2>8. ASSUME NEW x \in Runs, home'[x] # None
          PROVE  home'[x] \in Started' /\ level'[home'[x]] = plan'[x].access
      <3>1. CASE x = r
        <4>1. home'[x] = fresh /\ fresh \in started
          BY <2>2, <2>8, <3>1, Parts
        <4> QED
          BY <2>2, <2>5, <3>1, <4>1
      <3>2. CASE x # r
        <4>1. home'[x] = home[x] /\ home[x] \in Started /\ level[home[x]] = plan[x].access
          BY <2>2, <2>8, <3>2, Parts DEF ServerInv, ServedAsAllowed
        <4>2. home[x] # fresh /\ home[x] \in Servers
          BY <2>3, <4>1 DEF Started
        <4> QED
          BY <2>2, <2>5, <4>1, <4>2
      <3> QED
        BY <3>1, <3>2
    <2> QED
      BY <2>6, <2>7, <2>8 DEF ServerInv, ServedAsAllowed
  <1>4. CASE UNCHANGED <<server, os, level, home, plan>>
    BY <1>4 DEF ServerInv, ServedAsAllowed, Started
  <1> QED
    BY <1>1, <1>2, <1>3, <1>4, ServerFrame

LEMMA PlaceStep == TypeOK /\ PlaceInv /\ [Next]_vars => PlaceInv'
  <1> SUFFICES ASSUME TypeOK, PlaceInv, [Next]_vars PROVE PlaceInv'
    OBVIOUS
  <1> DEFINE Quiet == /\ UNCHANGED <<pc, plan, session, home>>
                      /\ \A s \in Runs : turn'[s] \subseteq turn[s] /\ last'[s].run = last[s].run
  <1>1. Quiet => PlaceInv'
    BY DEF PlaceInv, Sent
  <1>2. ASSUME NEW s \in Runs, NewMessage(s) PROVE PlaceInv'
    <2>1. Current(s) \in turn[s] /\ Current(s) \in Runs
      BY <1>2, Parts, CurrentWorks DEF NewMessage
    <2>2. /\ UNCHANGED <<pc, plan, session, home, turn>>
          /\ \A x \in Runs : last'[x].run = IF x = s THEN Current(s) ELSE last[x].run
      BY <1>2, Parts DEF NewMessage
    <2> QED
      BY <2>1, <2>2 DEF PlaceInv, Sent
  <1>3. ASSUME NEW s \in Runs, Write(s) \/ Complete(s) \/ Idle(s) \/ Fail(s) PROVE PlaceInv'
    <2>1. CASE Write(s)
      <3>1. Quiet
        BY <2>1, Parts, BusyIsMessage DEF Write, LastMessages
      <3> QED
        BY <1>1, <3>1
    <2>2. CASE Complete(s)
      <3>1. Quiet
        BY <2>2, Parts, BusyIsMessage DEF Complete, LastMessages
      <3> QED
        BY <1>1, <3>1
    <2>3. CASE Idle(s)
      <3>1. Quiet
        BY <2>3, Parts DEF Idle, EndTurn
      <3> QED
        BY <1>1, <3>1
    <2>4. CASE Fail(s)
      <3>1. Quiet
        BY <2>4, BreakOffKeeps DEF Fail
      <3> QED
        BY <1>1, <3>1
    <2> QED
      BY <1>3, <2>1, <2>2, <2>3, <2>4
  <1>4. ASSUME NEW v \in Servers, Die(v) PROVE PlaceInv'
    <2>1. Quiet
      BY <1>4 DEF Die, Gone
    <2> QED
      BY <1>1, <2>1
  <1>5. ASSUME NEW v \in Servers, Connect(v) \/ Break(v) \/ Streaming(v) PROVE PlaceInv'
    <2>1. Quiet
      BY <1>5 DEF Streaming, Connect, Break, Record, SendText, Finish, Reap
    <2> QED
      BY <1>1, <2>1
  <1>6. ASSUME NEW r \in Runs, Reuse(r) PROVE PlaceInv'
    <2>1. /\ r \in DOMAIN plan /\ pc[r] = "idle" /\ server \in Servers
          /\ UNCHANGED <<plan, session, turn, last>>
          /\ pc' = [pc EXCEPT ![r] = "session"] /\ home' = [home EXCEPT ![r] = server]
      BY <1>6 DEF Reuse, Idling, Usable, Goto, TypeOK
    <2> QED
      BY <2>1 DEF PlaceInv, Sent, TypeOK
  <1>7. ASSUME NEW r \in Runs, NEW ok \in BOOLEAN, Start(r, ok) PROVE PlaceInv'
    <2>1. /\ r \in DOMAIN plan /\ pc[r] = "idle" /\ UNCHANGED <<plan, session, last>>
          /\ pc' = [pc EXCEPT ![r] = IF ok THEN "session" ELSE "refused"]
          /\ \E fresh \in Servers : home' = [home EXCEPT ![r] = IF ok THEN fresh ELSE None]
          /\ \A s \in Runs : turn'[s] \subseteq turn[s]
      BY <1>7 DEF Start, Idling, Goto
    <2>2. /\ \A x \in Runs : x # r => home'[x] = home[x] /\ pc'[x] = pc[x]
          /\ pc'[r] \in {"session", "refused"} /\ (pc'[r] = "session" => home'[r] \in Servers)
      BY <2>1 DEF TypeOK
    <2> QED
      BY <2>1, <2>2 DEF PlaceInv, Sent
  <1>8. ASSUME NEW r \in Runs, OpenSession(r) PROVE PlaceInv'
    <2> DEFINE c == plan[r].scope
    <2>1. pc[r] = "session" /\ r \in DOMAIN plan
      BY <1>8 DEF OpenSession, PlaceInv
    <2>2. (IF sessions[c] = None THEN r ELSE sessions[c]) \in Runs
      BY <2>1, Parts, Constants DEF TypeOK
    <2>3. /\ UNCHANGED <<plan, home, turn, last>>
          /\ \/ session' = session /\ pc' = [pc EXCEPT ![r] = "refused"]
             \/ /\ session' = [session EXCEPT ![r] = IF sessions[c] = None THEN r ELSE sessions[c]]
                /\ pc' = [pc EXCEPT ![r] = "prompt"]
      BY <1>8 DEF OpenSession, Goto
    <2>4. /\ \A x \in Runs : x # r => session'[x] = session[x] /\ pc'[x] = pc[x]
          /\ pc'[r] \in {"prompt", "refused"} /\ (pc'[r] = "prompt" => session'[r] \in Runs)
      BY <2>2, <2>3 DEF TypeOK
    <2>5. ASSUME NEW s \in Runs
          PROVE  /\ turn[s] \subseteq Runs \ {r} /\ last[s].run # r
                 /\ last[s].run # None => last[s].run \in Runs
      <3>1. turn[s] \subseteq Runs \ {r}
        BY <2>1, Parts DEF PlaceInv, Sent
      <3>2. last[s].run # r
        BY <2>1, Constants DEF PlaceInv, Sent
      <3> QED
        BY <3>1, <3>2, LastIsMessage
    <2>6. ASSUME NEW x \in Runs
          PROVE  /\ pc'[x] # "idle" => x \in DOMAIN plan'
                 /\ pc'[x] \in {"session", "prompt"} \cup Sent => home'[x] \in Servers
                 /\ pc'[x] \in {"prompt"} \cup Sent => session'[x] \in Runs
      <3>1. CASE x = r
        BY <2>1, <2>3, <2>4, <3>1 DEF PlaceInv, Sent
      <3>2. CASE x # r
        BY <2>3, <2>4, <3>2 DEF PlaceInv, Sent
      <3> QED
        BY <3>1, <3>2
    <2>7. \A s \in Runs : \A x \in turn'[s] : pc'[x] \in Sent /\ session'[x] = s
      BY <2>3, <2>4, <2>5 DEF PlaceInv
    <2>8. \A s \in Runs : last'[s].run # None => pc'[last'[s].run] \in Sent /\ session'[last'[s].run] = s
      BY <2>3, <2>4, <2>5 DEF PlaceInv
    <2> QED
      BY <2>6, <2>7, <2>8 DEF PlaceInv
  <1>9. ASSUME NEW r \in Runs, NEW ok \in BOOLEAN, Prompt(r, ok) PROVE PlaceInv'
    <2>1. /\ pc[r] = "prompt" /\ UNCHANGED <<plan, session, home, last>>
          /\ pc' = [pc EXCEPT ![r] = IF ok THEN "running" ELSE "refused"]
          /\ turn' = IF ok THEN [turn EXCEPT ![session[r]] = @ \cup {r}] ELSE turn
      BY <1>9 DEF Prompt, Goto
    <2>2. /\ \A x \in Runs : x # r => pc'[x] = pc[x]
          /\ pc'[r] \in {"running", "refused"} /\ (ok => pc'[r] = "running")
          /\ \A s \in Runs : \A x \in turn'[s] : x \in turn[s] \/ (ok /\ x = r /\ s = session[r])
      BY <2>1 DEF TypeOK
    <2> QED
      BY <2>1, <2>2 DEF PlaceInv, Sent
  <1>10. ASSUME NEW r \in Runs, Poll(r) \/ PollCloses(r) PROVE PlaceInv'
    <2>1. Quiet
      BY <1>10 DEF Poll, PollCloses
    <2> QED
      BY <1>1, <2>1
  <1>11. ASSUME NEW r \in Runs, SeesClose(r) PROVE PlaceInv'
    <2>1. /\ pc[r] = "running" /\ UNCHANGED <<plan, session, home, turn, last>>
          /\ pc' = [pc EXCEPT ![r] = "over"]
      BY <1>11 DEF SeesClose, Goto
    <2> QED
      BY <2>1 DEF PlaceInv, Sent, TypeOK
  <1>12. ASSUME NEW r \in Runs, Stop(r) PROVE PlaceInv'
    <2>1. session[r] \in Runs
      BY <1>12 DEF Stop, PlaceInv, Sent
    <2>2. UNCHANGED <<last, turn, unheard, wire>> \/ BreakOff(session[r], "aborted")
      BY <1>12 DEF Stop
    <2>3. BreakOff(session[r], "aborted") =>
            \A s \in Runs : turn'[s] \subseteq turn[s] /\ last'[s].run = last[s].run
      BY <2>1, BreakOffKeeps
    <2>4. Quiet
      BY <1>12, <2>2, <2>3 DEF Stop
    <2> QED
      BY <1>1, <2>4
  <1>13. ASSUME NEW c \in Scopes, Reset(c) PROVE PlaceInv'
    <2>1. Quiet
      BY <1>13 DEF Reset
    <2> QED
      BY <1>1, <2>1
  <1>14. CASE UNCHANGED vars
    <2>1. Quiet
      BY <1>14 DEF vars
    <2> QED
      BY <1>1, <2>1
  <1> QED
    BY <1>2, <1>3, <1>4, <1>5, <1>6, <1>7, <1>8, <1>9, <1>10, <1>11, <1>12, <1>13, <1>14
       DEF Next, Turn, Running

\* Who registers, closes and ends runs.
LEMMA RunFrame ==
  ASSUME [Next]_vars
  PROVE  \/ UNCHANGED <<runs, closed, panicked, pc, card>>
         \/ \E v \in Servers : Finish(v) \/ Reap(v)
         \/ \E r \in Runs : \/ Reuse(r) \/ OpenSession(r) \/ PollCloses(r) \/ SeesClose(r)
                            \/ \E ok \in BOOLEAN : Start(r, ok) \/ Prompt(r, ok)
  <1>1. ASSUME NEW s \in Runs, Turn(s) PROVE UNCHANGED <<runs, closed, panicked, pc, card>>
    BY <1>1 DEF Turn, NewMessage, Write, Complete, Idle, Fail
  <1>2. ASSUME NEW v \in Servers, Die(v) \/ Connect(v) \/ Break(v) \/ Record(v) \/ SendText(v)
        PROVE  UNCHANGED <<runs, closed, panicked, pc, card>>
    BY <1>2 DEF Die, Connect, Break, Record, SendText
  <1>3. ASSUME NEW r \in Runs, Poll(r) \/ Stop(r) PROVE UNCHANGED <<runs, closed, panicked, pc, card>>
    BY <1>3 DEF Poll, Stop
  <1>4. ASSUME NEW c \in Scopes, Reset(c) PROVE UNCHANGED <<runs, closed, panicked, pc, card>>
    BY <1>4 DEF Reset
  <1> QED
    BY <1>1, <1>2, <1>3, <1>4 DEF Next, Running, Streaming, vars

\* The histories grow.
LEMMA Grows ==
  ASSUME [Next]_vars
  PROVE  /\ ended \subseteq ended' /\ early \subseteq early' /\ raced \subseteq raced'
         /\ dropped \subseteq dropped'
  <1>1. ASSUME NEW s \in Runs, Turn(s) PROVE ended \subseteq ended' /\ UNCHANGED <<early, raced, dropped>>
    BY <1>1 DEF Turn, NewMessage, Write, Complete, Idle, Fail
  <1>2. ASSUME NEW v \in Servers, Die(v) \/ Connect(v) \/ Break(v) \/ Streaming(v)
        PROVE  UNCHANGED <<ended, early, raced>> /\ dropped \subseteq dropped'
    BY <1>2 DEF Streaming, Die, Connect, Break, Record, SendText, Finish, Reap, Drop
  <1>3. ASSUME NEW r \in Runs, NEW ok \in BOOLEAN, Reuse(r) \/ Start(r, ok) \/ Prompt(r, ok)
        PROVE  UNCHANGED <<ended, early, raced, dropped>>
    BY <1>3 DEF Reuse, Start, Prompt
  <1>4. ASSUME NEW r \in Runs, OpenSession(r) \/ SeesClose(r) \/ Stop(r)
        PROVE  UNCHANGED <<ended, early, raced, dropped>>
    BY <1>4 DEF OpenSession, SeesClose, Stop
  <1>5. ASSUME NEW r \in Runs, Poll(r) \/ PollCloses(r)
        PROVE  /\ ended' = ended /\ early \subseteq early' /\ raced \subseteq raced'
               /\ dropped \subseteq dropped'
    BY <1>5 DEF Poll, PollCloses
  <1>6. ASSUME NEW c \in Scopes, Reset(c) PROVE UNCHANGED <<ended, early, raced, dropped>>
    BY <1>6 DEF Reset
  <1> QED
    BY <1>1, <1>2, <1>3, <1>4, <1>5, <1>6 DEF Next, Running, vars

\* An event that is no text closes the runs it reports an end to, unless it
\* leaves that to the poll.
LEMMA FinishEnds ==
  ASSUME TypeOK, NEW v \in Servers, Finish(v)
  PROVE  \E R \in SUBSET runs, T \in SUBSET runs, state \in {"done", "error", "interrupted"} :
           /\ T \subseteq R /\ SendEnd(T, state) /\ CloseRuns(IF state = "done" THEN {} ELSE R)
           /\ \A r \in R \ T : LostEnd(r)'
           /\ UNCHANGED <<pc, shown, polled, raced, home, delivered>>
  <1> DEFINE event == Head(wire[v])
             R == RunsOf(v, event.session)
             state == CASE event.kind = "idle" -> "done"
                        [] event.kind = "aborted" -> "interrupted"
                        [] event.kind = "error" -> "error"
  <1>1. event.kind \in {"idle", "error", "aborted"}
    BY HeadTypes DEF Finish, Events, Deltas, Kinds
  <1>2. state \in {"done", "error", "interrupted"} /\ (state = "done" <=> event.kind = "idle")
    BY <1>1
  <1>3. PICK full \in Full(R) :
        /\ SendEnd(R \ full, state) /\ CloseRuns(IF event.kind = "idle" THEN {} ELSE R)
        /\ dropped' = dropped \cup (full \X {"end"})
        /\ UNCHANGED <<pc, shown, polled, raced, home, delivered>>
    BY DEF Finish, Drop
  <1>4. R \in SUBSET runs
    BY DEF RunsOf
  <1> HIDE DEF R, state
  <1>5. \A r \in R \ (R \ full) : LostEnd(r)'
    BY <1>3 DEF LostEnd
  <1> QED
    BY <1>2, <1>3, <1>4, <1>5

\* So does the waiter, with all the runs of its server.
LEMMA ReapEnds ==
  ASSUME NEW v \in Servers, Reap(v)
  PROVE  \E R \in SUBSET runs, T \in SUBSET runs :
           /\ T \subseteq R /\ R = {r \in runs : home[r] = v}
           /\ SendEnd(T, "error") /\ CloseRuns(R) /\ pc' = pc
           /\ \A r \in R \ T : LostEnd(r)'
  <1> DEFINE R == {r \in runs : home[r] = v}
  <1>1. PICK full \in Full(R) :
          /\ SendEnd(R \ full, "error") /\ CloseRuns(R) /\ pc' = pc
          /\ dropped' = dropped \cup (full \X {"end"})
    BY DEF Reap, Drop
  <1>2. \A r \in R \ (R \ full) : LostEnd(r)'
    BY <1>1 DEF LostEnd
  <1> QED
    BY <1>1, <1>2

\* And the poll, with its own.
LEMMA PollEnds ==
  ASSUME NEW r, PollCloses(r)
  PROVE  \E T \in SUBSET Still(r) :
           /\ SendEnd(T, Ending(polled[r][1])) /\ CloseRuns(Still(r)) /\ pc' = pc
           /\ \A x \in Still(r) \ T : LostEnd(x)'
  <1>1. PICK full \in SUBSET Still(r), missed \in SUBSET Still(r) :
          /\ SendEnd(Still(r) \ missed, Ending(polled[r][1])) /\ CloseRuns(Still(r))
          /\ dropped' = dropped \cup (full \X {"text"}) \cup (missed \X {"end"})
    <2> DEFINE message == polled[r][1]
               rest == MissingText(polled[r][2], FullText(message))
    <2>1. PICK full \in SUBSET Still(r), missed \in SUBSET Still(r) :
            /\ Send(Still(r) \ full, Id(message), rest)
            /\ SendEnd(Still(r) \ missed, Ending(message)) /\ CloseRuns(Still(r))
            /\ dropped' = dropped \cup (full \X {"text"}) \cup (missed \X {"end"})
            /\ raced' = IF Delivered(r, message) # polled[r][2] \/ held[home[r]] # << >>
                        THEN raced \cup {r} ELSE raced
      BY PollSends
    <2> WITNESS full \in SUBSET Still(r), missed \in SUBSET Still(r)
    <2> QED
      BY <2>1
  <1>2. \A x \in Still(r) \ (Still(r) \ missed) : LostEnd(x)'
    BY <1>1 DEF LostEnd
  <1>3. pc' = pc
    BY DEF PollCloses
  <1> QED
    BY <1>1, <1>2, <1>3

LEMMA EndStep == TypeOK /\ EndInv /\ [Next]_vars => EndInv'
  <1> SUFFICES ASSUME TypeOK, EndInv, [Next]_vars PROVE EndInv'
    OBVIOUS
  <1>0. runs \subseteq Runs /\ closed \subseteq Runs
    BY Parts
  <1>11. \A r : LostEnd(r) => LostEnd(r)'
    BY Grows DEF LostEnd
  <1>1. CASE UNCHANGED <<runs, closed, panicked, pc, card>>
    BY <1>1, <1>11 DEF EndInv
  <1>2. ASSUME NEW T \in SUBSET runs, NEW S \in SUBSET runs, NEW state \in {"done", "error", "interrupted"},
               SendEnd(T, state), CloseRuns(S), pc' = pc, \A r \in S \ T : LostEnd(r)'
        PROVE  EndInv'
    <2>1. \A r \in Runs : card'[r] = IF r \in T THEN state ELSE card[r]
      BY <1>2 DEF SendEnd
    <2>2. closed' = closed \cup S /\ runs' = runs \ S /\ (panicked' <=> panicked \/ S \cap closed # {})
      BY <1>2 DEF CloseRuns
    <2>3. runs' \cap closed' = {} /\ ~panicked'
      BY <2>2 DEF EndInv
    <2>4. \A r \in closed' : pc'[r] # "refused" => card'[r] # "running" \/ LostEnd(r)'
      BY <1>0, <1>2, <1>11, <2>1, <2>2 DEF EndInv
    <2> QED
      BY <1>0, <1>2, <2>1, <2>2, <2>3, <2>4 DEF EndInv
  <1>3. ASSUME NEW v \in Servers, Finish(v) PROVE EndInv'
    <2>1. PICK R \in SUBSET runs, T \in SUBSET runs, state \in {"done", "error", "interrupted"} :
            /\ SendEnd(T, state) /\ CloseRuns(IF state = "done" THEN {} ELSE R) /\ pc' = pc
            /\ \A r \in R \ T : LostEnd(r)'
      BY <1>3, FinishEnds
    <2> QED
      BY <1>2, <2>1
  <1>4. ASSUME NEW v \in Servers, Reap(v) PROVE EndInv'
    <2>1. PICK R \in SUBSET runs, T \in SUBSET runs :
            SendEnd(T, "error") /\ CloseRuns(R) /\ pc' = pc /\ \A r \in R \ T : LostEnd(r)'
      BY <1>4, ReapEnds
    <2> QED
      BY <1>2, <2>1
  <1>5. ASSUME NEW r \in Runs, Reuse(r) PROVE EndInv'
    <2>1. pc[r] = "idle" /\ pc' = [pc EXCEPT ![r] = "session"] /\ UNCHANGED <<runs, closed, panicked, card>>
      BY <1>5 DEF Reuse, Idling, Goto
    <2> QED
      BY <1>0, <1>11, <2>1 DEF EndInv, TypeOK
  <1>6. ASSUME NEW r \in Runs, NEW ok \in BOOLEAN, Start(r, ok) PROVE EndInv'
    <2>1. /\ pc[r] = "idle" /\ UNCHANGED <<runs, closed, panicked, card>>
          /\ pc' = [pc EXCEPT ![r] = IF ok THEN "session" ELSE "refused"]
      BY <1>6 DEF Start, Idling, Goto
    <2>2. \A x \in Runs : pc'[x] = pc[x] \/ (x = r /\ pc'[x] \in {"session", "refused"})
      BY <2>1 DEF TypeOK
    <2> QED
      BY <1>0, <1>11, <2>1, <2>2 DEF EndInv
  <1>7. ASSUME NEW r \in Runs, OpenSession(r) PROVE EndInv'
    <2>1. /\ pc[r] = "session" /\ UNCHANGED <<closed, panicked, card>>
          /\ \/ runs' = runs /\ pc' = [pc EXCEPT ![r] = "refused"]
             \/ runs' = runs \cup {r} /\ pc' = [pc EXCEPT ![r] = "prompt"]
      BY <1>7 DEF OpenSession, Goto
    <2>2. r \notin runs /\ r \notin closed
      BY <2>1 DEF EndInv
    <2>3. runs' \cap closed' = {}
      BY <2>1, <2>2 DEF EndInv
    <2>4. /\ \A x \in Runs \ {r} : pc'[x] = pc[x]
          /\ pc'[r] \in {"refused", "prompt"} /\ (r \in runs' => pc'[r] = "prompt")
      BY <2>1, <2>2 DEF TypeOK
    <2> QED
      BY <1>0, <1>11, <2>1, <2>2, <2>3, <2>4 DEF EndInv
  <1>8. ASSUME NEW r \in Runs, NEW ok \in BOOLEAN, Prompt(r, ok) PROVE EndInv'
    <2>1. /\ pc[r] = "prompt" /\ card' = card
          /\ pc' = [pc EXCEPT ![r] = IF ok THEN "running" ELSE "refused"]
          /\ IF ok THEN UNCHANGED <<closed, panicked, runs>> ELSE CloseRuns(Still(r))
      BY <1>8 DEF Prompt, Goto
    <2>2. /\ \A x \in Runs \ {r} : pc'[x] = pc[x]
          /\ pc'[r] = IF ok THEN "running" ELSE "refused"
      BY <2>1 DEF TypeOK
    <2>3. CASE ok
      BY <1>0, <1>11, <2>1, <2>2, <2>3 DEF EndInv
    <2>4. CASE ~ok
      <3>1. /\ closed' = closed \cup Still(r) /\ runs' = runs \ Still(r)
            /\ panicked' <=> panicked \/ Still(r) \cap closed # {}
        BY <2>1, <2>4 DEF CloseRuns
      <3>2. runs' = runs \ {r} /\ closed' \subseteq closed \cup {r} /\ runs' \cap closed' = {} /\ ~panicked'
        BY <3>1 DEF EndInv, Still
      <3>3. closed \subseteq closed'
        BY <3>1
      <3> QED
        BY <1>0, <1>11, <2>1, <2>2, <2>4, <3>2, <3>3 DEF EndInv
    <2> QED
      BY <2>3, <2>4
  <1>9. ASSUME NEW r \in Runs, PollCloses(r) PROVE EndInv'
    <2>1. PICK T \in SUBSET Still(r) :
            /\ SendEnd(T, Ending(polled[r][1])) /\ CloseRuns(Still(r)) /\ pc' = pc
            /\ \A x \in Still(r) \ T : LostEnd(x)'
      BY <1>9, PollEnds
    <2>2. Still(r) \in SUBSET runs /\ Ending(polled[r][1]) \in {"done", "error", "interrupted"}
      BY DEF Still, Ending
    <2> QED
      BY <1>2, <2>1, <2>2
  <1>10. ASSUME NEW r \in Runs, SeesClose(r) PROVE EndInv'
    <2>1. /\ pc[r] = "running" /\ r \in closed /\ UNCHANGED <<runs, closed, panicked>>
          /\ pc' = [pc EXCEPT ![r] = "over"]
          /\ card' = [card EXCEPT ![r] = IF @ # "running" THEN @
                                           ELSE IF r \in stopped THEN "interrupted" ELSE "done"]
      BY <1>10 DEF SeesClose, Goto
    <2>2. /\ \A x \in Runs \ {r} : pc'[x] = pc[x] /\ card'[x] = card[x]
          /\ pc'[r] = "over" /\ card'[r] # "running"
      BY <2>1 DEF TypeOK
    <2> QED
      BY <1>0, <1>11, <2>1, <2>2 DEF EndInv
  <1> QED
    BY <1>1, <1>3, <1>4, <1>5, <1>6, <1>7, <1>8, <1>9, <1>10, RunFrame

LEMMA ClosedStep == TypeOK /\ EndInv /\ ClosedAtEnd /\ PolledAtEnd /\ [Next]_vars => ClosedAtEnd'
  <1> SUFFICES ASSUME TypeOK, EndInv, ClosedAtEnd, PolledAtEnd, [Next]_vars PROVE ClosedAtEnd'
    OBVIOUS
  <1>0. runs \subseteq Runs /\ closed \subseteq Runs /\ ended \subseteq ended' /\ early \subseteq early'
    BY Parts, Grows
  <1>11. \A r : LostEnd(r) => LostEnd(r)'
    BY Grows DEF LostEnd
  <1>1. CASE UNCHANGED <<runs, closed, panicked, pc, card>>
    BY <1>0, <1>1, <1>11 DEF ClosedAtEnd
  <1>2. ASSUME NEW T \in SUBSET runs, NEW S \in SUBSET runs, NEW state \in {"done", "error", "interrupted"},
               SendEnd(T, state), CloseRuns(S), pc' = pc, \A r \in S \ T : LostEnd(r)',
               \A r \in S : state = "done" => r \in ended \cup early
        PROVE  ClosedAtEnd'
    <2>1. \A r \in Runs : card'[r] = IF r \in T THEN state ELSE card[r]
      BY <1>2 DEF SendEnd
    <2>2. closed' = closed \cup S
      BY <1>2 DEF CloseRuns
    <2>3. T \cap closed = {}
      BY DEF EndInv
    <2> QED
      BY <1>0, <1>2, <1>11, <2>1, <2>2, <2>3 DEF ClosedAtEnd
  <1>3. ASSUME NEW v \in Servers, Finish(v) PROVE ClosedAtEnd'
    <2>1. PICK R \in SUBSET runs, T \in SUBSET runs, state \in {"done", "error", "interrupted"} :
            /\ SendEnd(T, state) /\ CloseRuns(IF state = "done" THEN {} ELSE R) /\ pc' = pc
            /\ \A r \in R \ T : LostEnd(r)'
      BY <1>3, FinishEnds
    <2> QED
      BY <1>2, <2>1
  <1>4. ASSUME NEW v \in Servers, Reap(v) PROVE ClosedAtEnd'
    <2>1. PICK R \in SUBSET runs, T \in SUBSET runs :
            SendEnd(T, "error") /\ CloseRuns(R) /\ pc' = pc /\ \A r \in R \ T : LostEnd(r)'
      BY <1>4, ReapEnds
    <2> QED
      BY <1>2, <2>1
  <1>5. ASSUME NEW r \in Runs, pc[r] \in {"idle", "session"}, closed' = closed, card' = card,
               NEW place, pc' = [pc EXCEPT ![r] = place]
        PROVE  ClosedAtEnd'
    <2>1. r \notin closed
      BY <1>5 DEF EndInv
    <2> QED
      BY <1>0, <1>5, <1>11, <2>1 DEF ClosedAtEnd, TypeOK
  <1>6. ASSUME NEW r \in Runs, Reuse(r) \/ OpenSession(r) PROVE ClosedAtEnd'
    BY <1>5, <1>6 DEF Reuse, OpenSession, Idling, Goto
  <1>7. ASSUME NEW r \in Runs, NEW ok \in BOOLEAN, Start(r, ok) PROVE ClosedAtEnd'
    BY <1>5, <1>7 DEF Start, Idling, Goto
  <1>8. ASSUME NEW r \in Runs, NEW ok \in BOOLEAN, Prompt(r, ok) PROVE ClosedAtEnd'
    <2>1. /\ pc[r] = "prompt" /\ card' = card
          /\ pc' = [pc EXCEPT ![r] = IF ok THEN "running" ELSE "refused"]
          /\ IF ok THEN closed' = closed ELSE closed' = closed \cup Still(r)
      BY <1>8 DEF Prompt, Goto, CloseRuns
    <2>2. /\ \A x \in Runs \ {r} : pc'[x] = pc[x]
          /\ pc'[r] = IF ok THEN "running" ELSE "refused"
      BY <2>1 DEF TypeOK
    <2>3. closed' \subseteq Runs /\ \A x \in closed' : x \in closed \/ (x = r /\ ~ok)
      BY <1>0, <2>1 DEF Still
    <2> QED
      BY <1>0, <1>11, <2>1, <2>2, <2>3 DEF ClosedAtEnd
  <1>9. ASSUME NEW r \in Runs, PollCloses(r) PROVE ClosedAtEnd'
    <2>1. PICK T \in SUBSET Still(r) :
            /\ SendEnd(T, Ending(polled[r][1])) /\ CloseRuns(Still(r)) /\ pc' = pc
            /\ \A x \in Still(r) \ T : LostEnd(x)'
      BY <1>9, PollEnds
    <2>4. polled[r] # << >>
      BY <1>9 DEF PollCloses
    <2>2. Still(r) \in SUBSET runs /\ Ending(polled[r][1]) \in {"done", "error", "interrupted"}
      BY DEF Still, Ending
    <2>3. \A x \in Still(r) : Ending(polled[r][1]) = "done" => x \in ended \cup early
      BY <2>4 DEF Still, Ending, Terminal, PolledAtEnd
    <2> QED
      BY <1>2, <2>1, <2>2, <2>3
  <1>10. ASSUME NEW r \in Runs, SeesClose(r) PROVE ClosedAtEnd'
    <2>1. pc[r] = "running" /\ r \in closed /\ closed' = closed /\ pc' = [pc EXCEPT ![r] = "over"]
      BY <1>10 DEF SeesClose, Goto
    <2>2. card[r] # "running" \/ LostEnd(r)
      BY <2>1 DEF EndInv
    <2>3. \A x \in Runs : card'[x] = card[x] \/ (x = r /\ card[x] = "running")
      BY <1>10 DEF SeesClose, TypeOK
    <2> QED
      BY <1>0, <1>11, <2>1, <2>2, <2>3 DEF ClosedAtEnd, TypeOK
  <1> QED
    BY <1>1, <1>3, <1>4, <1>6, <1>7, <1>8, <1>9, <1>10, RunFrame

\* A poll is the only one to write what polls have read.
LEMMA PolledFrame ==
  ASSUME [Next]_vars
  PROVE  UNCHANGED polled \/ \E r \in Runs : Poll(r)
  <1>1. ASSUME NEW s \in Runs, Turn(s) PROVE UNCHANGED polled
    BY <1>1 DEF Turn, NewMessage, Write, Complete, Idle, Fail
  <1>2. ASSUME NEW v \in Servers, Die(v) \/ Connect(v) \/ Break(v) \/ Streaming(v) PROVE UNCHANGED polled
    BY <1>2 DEF Streaming, Die, Connect, Break, Record, SendText, Finish, Reap
  <1>3. ASSUME NEW r \in Runs, NEW ok \in BOOLEAN, Reuse(r) \/ Start(r, ok) \/ Prompt(r, ok)
        PROVE  UNCHANGED polled
    BY <1>3 DEF Reuse, Start, Prompt
  <1>4. ASSUME NEW r \in Runs, OpenSession(r) \/ PollCloses(r) \/ SeesClose(r) \/ Stop(r)
        PROVE  UNCHANGED polled
    BY <1>4 DEF OpenSession, PollCloses, SeesClose, Stop
  <1>5. ASSUME NEW c \in Scopes, Reset(c) PROVE UNCHANGED polled
    BY <1>5 DEF Reset
  <1> QED
    BY <1>1, <1>2, <1>3, <1>4, <1>5 DEF Next, Running, vars

\* What a poll reads.
LEMMA PollReads ==
  ASSUME TypeOK, PlaceInv, NEW r \in Runs, Poll(r)
  PROVE  /\ pc[r] = "running" /\ r \in runs /\ os[home[r]] = "alive" /\ home[r] \in Servers
         /\ session[r] \in Runs /\ last[session[r]] \in LastMessages /\ Terminal(last[session[r]])
         /\ \A x \in Runs : polled'[x] = IF x = r
              THEN <<last[session[r]], Delivered(r, last[session[r]])>> ELSE polled[x]
         /\ last[session[r]].state = "complete" => r \in ended \cup early'
  <1>1. pc[r] = "running" /\ r \in runs /\ os[home[r]] = "alive"
    BY DEF Poll
  <1>2. session[r] \in Runs /\ home[r] \in Servers
    BY <1>1 DEF PlaceInv, Sent
  <1>3. last[session[r]] \in LastMessages /\ Terminal(last[session[r]])
    BY <1>2, Parts DEF Poll
  <1>4. polled' = [polled EXCEPT ![r] = <<last[session[r]], Delivered(r, last[session[r]])>>]
    BY DEF Poll
  <1>5. \A x \in Runs : polled'[x] = IF x = r
          THEN <<last[session[r]], Delivered(r, last[session[r]])>> ELSE polled[x]
    BY <1>4, Parts
  <1>6. last[session[r]].state = "complete" => r \in ended \cup early'
    BY DEF Poll
  <1> QED
    BY <1>1, <1>2, <1>3, <1>5, <1>6

LEMMA PolledStep == TypeOK /\ PlaceInv /\ PolledAtEnd /\ [Next]_vars => PolledAtEnd'
  <1> SUFFICES ASSUME TypeOK, PlaceInv, PolledAtEnd, [Next]_vars PROVE PolledAtEnd'
    OBVIOUS
  <1>1. ended \subseteq ended' /\ early \subseteq early'
    BY Grows
  <1>2. CASE UNCHANGED polled
    BY <1>1, <1>2 DEF PolledAtEnd, Terminal
  <1>3. ASSUME NEW r \in Runs, Poll(r) PROVE PolledAtEnd'
    <2> DEFINE message == last[session[r]]
    <2>1. message.state = "complete" => r \in ended \cup early'
      BY <1>3, PollReads
    <2>2. ASSUME NEW x \in Runs, polled'[x] # << >>
          PROVE  Terminal(polled'[x][1]) /\ (polled'[x][1].state = "complete" => x \in ended' \cup early')
      <3>1. CASE x = r
        <4>1. polled'[x][1] = message /\ Terminal(message)
          <5>1. polled'[r] = <<message, Delivered(r, message)>> /\ Terminal(message)
            BY <1>3, PollReads, Zenon
          <5> HIDE DEF message
          <5> QED
            BY <3>1, <5>1
        <4>2. Terminal(polled'[x][1])
          BY <4>1, Zenon
        <4>3. polled'[x][1].state = "complete" => x \in ended' \cup early'
          BY <1>1, <2>1, <3>1, <4>1
        <4> QED
          BY <4>2, <4>3
      <3>2. CASE x # r
        <4>1. polled'[x] = polled[x]
          BY <1>3, <2>2, <3>2, PollReads
        <4> QED
          BY <1>1, <2>2, <4>1 DEF PolledAtEnd
      <3> QED
        BY <3>1, <3>2
    <2> QED
      BY <2>2 DEF PolledAtEnd, Terminal
  <1> QED
    BY <1>2, <1>3, PolledFrame

\* A run's session and server are settled when it sends its prompt.
LEMMA Placed ==
  ASSUME TypeOK, [Next]_vars, NEW r \in Runs
  PROVE  /\ pc[r] \in Sent => pc'[r] \in Sent
         /\ pc'[r] \in {"idle", "session"} => pc[r] \in {"idle", "session"}
         /\ pc[r] \in {"prompt"} \cup Sent => session'[r] = session[r] /\ home'[r] = home[r]
  <1> DEFINE Goal == /\ pc[r] \in Sent => pc'[r] \in Sent
                     /\ pc'[r] \in {"idle", "session"} => pc[r] \in {"idle", "session"}
                     /\ pc[r] \in {"prompt"} \cup Sent => session'[r] = session[r] /\ home'[r] = home[r]
  <1>0. pc' = pc /\ session' = session /\ home' = home => Goal
    OBVIOUS
  <1>1. ASSUME NEW s \in Runs, Turn(s) PROVE Goal
    BY <1>0, <1>1 DEF Turn, NewMessage, Write, Complete, Idle, Fail
  <1>2. ASSUME NEW v \in Servers, Die(v) \/ Connect(v) \/ Break(v) \/ Streaming(v)
        PROVE  Goal
    BY <1>0, <1>2 DEF Streaming, Die, Connect, Break, Record, SendText, Finish, Reap
  <1>3. ASSUME NEW q \in Runs, Poll(q) \/ PollCloses(q) \/ Stop(q) PROVE Goal
    BY <1>0, <1>3 DEF Poll, PollCloses, Stop
  <1>4. ASSUME NEW c \in Scopes, Reset(c) PROVE Goal
    BY <1>0, <1>4 DEF Reset
  <1>5. ASSUME NEW q \in Runs, Reuse(q) PROVE Goal
    BY <1>5 DEF Reuse, Idling, Goto, TypeOK, Sent
  <1>6. ASSUME NEW q \in Runs, NEW ok \in BOOLEAN, Start(q, ok) PROVE Goal
    <2>1. /\ pc[q] = "idle" /\ session' = session
          /\ pc' = [pc EXCEPT ![q] = IF ok THEN "session" ELSE "refused"]
          /\ \E v : home' = [home EXCEPT ![q] = v]
      BY <1>6 DEF Start, Idling, Goto
    <2> QED
      BY <2>1 DEF TypeOK, Sent
  <1>7. ASSUME NEW q \in Runs, OpenSession(q) PROVE Goal
    <2>1. /\ pc[q] = "session" /\ home' = home
          /\ \E l \in {"refused", "prompt"} : pc' = [pc EXCEPT ![q] = l]
          /\ session' = session \/ \E s : session' = [session EXCEPT ![q] = s]
      BY <1>7 DEF OpenSession, Goto
    <2> QED
      BY <2>1 DEF TypeOK, Sent
  <1>8. ASSUME NEW q \in Runs, NEW ok \in BOOLEAN, Prompt(q, ok) PROVE Goal
    <2>1. /\ pc[q] = "prompt" /\ UNCHANGED <<home, session>>
          /\ \E l \in {"refused", "running"} : pc' = [pc EXCEPT ![q] = l]
      BY <1>8 DEF Prompt, Goto
    <2> QED
      BY <2>1 DEF TypeOK, Sent
  <1>9. ASSUME NEW q \in Runs, SeesClose(q) PROVE Goal
    BY <1>9 DEF SeesClose, Goto, TypeOK, Sent
  <1>10. CASE UNCHANGED vars
    BY <1>0, <1>10 DEF vars
  <1>11. Goal
    BY <1>1, <1>2, <1>3, <1>4, <1>5, <1>6, <1>7, <1>8, <1>9, <1>10 DEF Next, Running
  <1> QED
    BY <1>11

\* What belongs to a server goes on to.
StillBelongs(event, v) == LET r == event.piece[1] IN
  pc'[r] \in Sent /\ session'[r] = event.session /\ home'[r] = v

LEMMA BelongsStays ==
  ASSUME TypeOK, [Next]_vars, NEW event \in Deltas, NEW v, Belongs(event, v)
  PROVE  StillBelongs(event, v)
  <1>1. event.piece[1] \in Runs
    BY DEF Deltas, Pieces
  <1> QED
    BY <1>1, Placed DEF Belongs, StillBelongs

\* What is in the stream after more was published.
LEMMA Published ==
  ASSUME TypeOK, NEW v, NEW events \in Seq(Events), Publish(v, events)
  PROVE  \A w \in Servers : \A i \in DOMAIN wire'[w] :
           \/ i \in DOMAIN wire[w] /\ wire'[w][i] = wire[w][i]
           \/ w = v /\ \E j \in DOMAIN events : wire'[w][i] = events[j]
  <1> SUFFICES ASSUME NEW w \in Servers, NEW i \in DOMAIN wire'[w]
               PROVE  \/ i \in DOMAIN wire[w] /\ wire'[w][i] = wire[w][i]
                      \/ w = v /\ \E j \in DOMAIN events : wire'[w][i] = events[j]
    OBVIOUS
  <1>1. wire[w] \in Seq(Events)
    BY Parts
  <1>2. CASE wire'[w] = wire[w]
    BY <1>2
  <1>3. CASE wire'[w] = wire[w] \o events /\ w = v
    <2> DEFINE n == Len(wire[w])
               j == i - n
    <2>1. n \in Nat /\ Len(events) \in Nat /\ DOMAIN wire[w] = 1..n /\ DOMAIN events = 1..Len(events)
      BY <1>1, LenProperties
    <2>2. /\ DOMAIN (wire[w] \o events) = 1..(n + Len(events))
          /\ \A x \in 1..(n + Len(events)) : (wire[w] \o events)[x] = IF x <= n THEN wire[w][x] ELSE events[x - n]
      BY <1>1, ConcatProperties, LenProperties
    <2>3. i \in 1..(n + Len(events)) /\ wire'[w][i] = IF i <= n THEN wire[w][i] ELSE events[j]
      BY <1>3, <2>2
    <2>4. i <= n => i \in DOMAIN wire[w]
      BY <2>1, <2>3
    <2>5. ~(i <= n) => j \in DOMAIN events
      BY <2>1, <2>3
    <2> HIDE DEF n, j
    <2> QED
      BY <1>3, <2>3, <2>4, <2>5
  <1>4. wire'[w] = wire[w] \/ (wire'[w] = wire[w] \o events /\ w = v)
    BY <1>1, Parts DEF Publish
  <1> QED
    BY <1>2, <1>3, <1>4

LEMMA WireStep == TypeOK /\ PlaceInv /\ WireBelongs /\ [Next]_vars => WireBelongs'
  <1> SUFFICES ASSUME TypeOK, PlaceInv, WireBelongs, [Next]_vars,
                      NEW w \in Servers, NEW i \in DOMAIN wire'[w], wire'[w][i].kind = "delta"
               PROVE  StillBelongs(wire'[w][i], w)
    BY DEF WireBelongs, Belongs, StillBelongs
  <1> DEFINE Goal == StillBelongs(wire'[w][i], w)
  <1>1. ASSUME NEW j \in DOMAIN wire[w], wire'[w][i] = wire[w][j] PROVE Goal
    <2>1. wire[w] \in Seq(Events)
      BY Parts
    <2>2. wire[w][j] \in Deltas
      BY <1>1, <2>1 DEF Events
    <2> QED
      BY <1>1, <2>2, BelongsStays DEF WireBelongs
  <1>2. ASSUME wire' = wire PROVE Goal
    BY <1>1, <1>2
  <1>3. ASSUME NEW v, NEW kind \in {"error", "aborted"}, NEW s \in Runs,
               \/ Publish(v, <<Event("idle", s, << >>)>>)
               \/ Publish(v, <<Event(kind, s, << >>), Event("idle", s, << >>)>>)
        PROVE  Goal
    <2>1. Event("idle", s, << >>) \in Events /\ Event(kind, s, << >>) \in Events
      BY EventTypes DEF Kinds
    <2>2. Event("idle", s, << >>).kind = "idle" /\ Event(kind, s, << >>).kind = kind
      BY DEF Event
    <2>3. CASE Publish(v, <<Event("idle", s, << >>)>>)
      <3> DEFINE events == <<Event("idle", s, << >>)>>
      <3>1. events \in Seq(Events) /\ \A j \in DOMAIN events : events[j].kind # "delta"
        BY <2>1, <2>2
      <3> HIDE DEF events
      <3>2. Publish(v, events)
        BY <2>3 DEF events
      <3>3. \/ i \in DOMAIN wire[w] /\ wire'[w][i] = wire[w][i]
            \/ \E j \in DOMAIN events : wire'[w][i] = events[j]
        BY <3>1, <3>2, Published
      <3> QED
        BY <1>1, <3>1, <3>3
    <2>4. CASE Publish(v, <<Event(kind, s, << >>), Event("idle", s, << >>)>>)
      <3> DEFINE events == <<Event(kind, s, << >>), Event("idle", s, << >>)>>
      <3>1. events \in Seq(Events) /\ \A j \in DOMAIN events : events[j].kind # "delta"
        BY <2>1, <2>2
      <3> HIDE DEF events
      <3>2. Publish(v, events)
        BY <2>4 DEF events
      <3>3. \/ i \in DOMAIN wire[w] /\ wire'[w][i] = wire[w][i]
            \/ \E j \in DOMAIN events : wire'[w][i] = events[j]
        BY <3>1, <3>2, Published
      <3> QED
        BY <1>1, <3>1, <3>3
    <2> QED
      BY <1>3, <2>3, <2>4
  <1>4. ASSUME NEW s \in Runs, Write(s) PROVE Goal
    <2> DEFINE piece == <<last[s].run, last[s].n, last[s].size + 1>>
               event == Event("delta", s, piece)
    <2>1. Busy(s) /\ Publish(At(s), <<event>>)
      BY <1>4 DEF Write
    <2>2. last[s].run = Current(s) /\ Current(s) \in turn[s] /\ Current(s) \in Runs /\ piece \in Pieces
      BY <2>1, BusyIsMessage DEF Pieces
    <2>3. event \in Deltas /\ event \in Events /\ event.session = s /\ event.piece = piece /\ piece[1] = Current(s)
      BY <2>2, EventTypes DEF Event
    <2>4. Belongs(event, At(s))
      BY <2>2, <2>3 DEF Belongs, At, PlaceInv
    <2> HIDE DEF event
    <2> DEFINE events == <<event>>
    <2>5. events \in Seq(Events) /\ \A j \in DOMAIN events : events[j] = event
      BY <2>3
    <2> HIDE DEF events
    <2>6. \/ i \in DOMAIN wire[w] /\ wire'[w][i] = wire[w][i]
          \/ w = At(s) /\ wire'[w][i] = event
      <3>1. Publish(At(s), events)
        BY <2>1 DEF events
      <3>2. \/ i \in DOMAIN wire[w] /\ wire'[w][i] = wire[w][i]
            \/ w = At(s) /\ \E j \in DOMAIN events : wire'[w][i] = events[j]
        BY <2>5, <3>1, Published
      <3> QED
        BY <2>5, <3>2
    <2>7. StillBelongs(event, At(s))
      BY <2>3, <2>4, BelongsStays
    <2> QED
      BY <1>1, <2>6, <2>7
  <1>5. ASSUME NEW s \in Runs, Idle(s) \/ Fail(s) PROVE Goal
    BY <1>3, <1>5 DEF Idle, Fail, BreakOff, EndTurn
  <1>6. ASSUME NEW s \in Runs, NewMessage(s) \/ Complete(s) PROVE Goal
    BY <1>2, <1>6 DEF NewMessage, Complete
  <1>7. ASSUME NEW v \in Servers, Die(v) \/ Connect(v) \/ SendText(v) PROVE Goal
    BY <1>2, <1>7 DEF Die, Connect, SendText
  <1>8. ASSUME NEW v \in Servers, Break(v) \/ Reap(v) PROVE Goal
    <2>1. wire' = [wire EXCEPT ![v] = << >>]
      BY <1>8 DEF Break, Reap
    <2>2. w # v /\ wire'[w] = wire[w]
      BY <2>1, Parts
    <2> QED
      BY <1>1, <2>2
  <1>9. ASSUME NEW v \in Servers, Record(v) \/ Finish(v) PROVE Goal
    <2>1. wire[v] # << >> /\ wire' = [wire EXCEPT ![v] = Tail(@)]
      BY <1>9 DEF Record, Finish
    <2>2. CASE w = v
      <3>1. wire'[w] = Tail(wire[w])
        BY <2>1, <2>2, Parts
      <3> QED
        BY <1>1, <2>1, <2>2, <3>1, HeadTypes
    <2>3. CASE w # v
      <3>1. wire'[w] = wire[w]
        BY <2>1, <2>3, Parts
      <3> QED
        BY <1>1, <3>1
    <2> QED
      BY <2>2, <2>3
  <1>10. ASSUME NEW r \in Runs, NEW ok \in BOOLEAN, Reuse(r) \/ Start(r, ok) \/ Prompt(r, ok) PROVE Goal
    BY <1>2, <1>10 DEF Reuse, Start, Prompt
  <1>11. ASSUME NEW r \in Runs, OpenSession(r) \/ Poll(r) \/ PollCloses(r) \/ SeesClose(r) PROVE Goal
    BY <1>2, <1>11 DEF OpenSession, Poll, PollCloses, SeesClose
  <1>12. ASSUME NEW r \in Runs, Stop(r) PROVE Goal
    <2>1. session[r] \in Runs
      BY <1>12 DEF Stop, PlaceInv, Sent
    <2>2. wire' = wire \/ BreakOff(session[r], "aborted")
      BY <1>12 DEF Stop
    <2> QED
      BY <1>2, <1>3, <2>1, <2>2 DEF BreakOff, EndTurn
  <1>13. ASSUME NEW c \in Scopes, Reset(c) PROVE Goal
    BY <1>2, <1>13 DEF Reset
  <1>14. CASE UNCHANGED vars
    BY <1>2, <1>14 DEF vars
  <1>15. Goal
    BY <1>4, <1>5, <1>6, <1>7, <1>8, <1>9, <1>10, <1>11, <1>12, <1>13, <1>14
       DEF Next, Turn, Running, Streaming
  <1> QED
    BY <1>15

\* Who records and sends text.
LEMMA TextFrame ==
  ASSUME [Next]_vars
  PROVE  \/ UNCHANGED <<shown, delivered, held>>
         \/ \E v \in Servers : Record(v) \/ SendText(v) \/ Reap(v)
         \/ \E r \in Runs : PollCloses(r)
  <1>1. ASSUME NEW s \in Runs, Turn(s) PROVE UNCHANGED <<shown, delivered, held>>
    BY <1>1 DEF Turn, NewMessage, Write, Complete, Idle, Fail
  <1>2. ASSUME NEW v \in Servers, Die(v) \/ Connect(v) \/ Break(v) \/ Finish(v)
        PROVE  UNCHANGED <<shown, delivered, held>>
    BY <1>2 DEF Die, Connect, Break, Finish
  <1>3. ASSUME NEW r \in Runs, NEW ok \in BOOLEAN, Reuse(r) \/ Start(r, ok) \/ Prompt(r, ok)
        PROVE  UNCHANGED <<shown, delivered, held>>
    BY <1>3 DEF Reuse, Start, Prompt
  <1>4. ASSUME NEW r \in Runs, OpenSession(r) \/ Poll(r) \/ SeesClose(r) \/ Stop(r)
        PROVE  UNCHANGED <<shown, delivered, held>>
    BY <1>4 DEF OpenSession, Poll, SeesClose, Stop
  <1>5. ASSUME NEW c \in Scopes, Reset(c) PROVE UNCHANGED <<shown, delivered, held>>
    BY <1>5 DEF Reset
  <1> QED
    BY <1>1, <1>2, <1>3, <1>4, <1>5 DEF Next, Running, Streaming, vars

\* A run that is new among the registered has just opened its session.
LEMMA Registers ==
  ASSUME [Next]_vars, NEW r \in runs' \ runs
  PROVE  pc[r] = "session" /\ UNCHANGED <<shown, delivered, held, home>>
  <1> DEFINE Goal == pc[r] = "session" /\ UNCHANGED <<shown, delivered, held, home>>
  <1>1. runs' = runs => Goal
    OBVIOUS
  <1>2. ASSUME NEW v \in Servers, Finish(v) \/ Reap(v) PROVE Goal
    BY <1>2 DEF Finish, Reap, CloseRuns
  <1>3. ASSUME NEW q \in Runs, PollCloses(q) PROVE Goal
    BY <1>3 DEF PollCloses, CloseRuns
  <1>4. ASSUME NEW q \in Runs, NEW ok \in BOOLEAN, Prompt(q, ok) PROVE Goal
    BY <1>4 DEF Prompt, CloseRuns
  <1>5. ASSUME NEW q \in Runs, NEW ok \in BOOLEAN, Reuse(q) \/ Start(q, ok) \/ SeesClose(q) PROVE Goal
    BY <1>1, <1>5 DEF Reuse, Start, SeesClose
  <1>6. ASSUME NEW q \in Runs, OpenSession(q) PROVE Goal
    <2>1. pc[q] = "session" /\ runs' \subseteq runs \cup {q} /\ UNCHANGED <<shown, delivered, held, home>>
      BY <1>6 DEF OpenSession
    <2> QED
      BY <2>1
  <1> QED
    BY <1>1, <1>2, <1>3, <1>4, <1>5, <1>6, RunFrame

LEMMA RecordKeeps ==
  ASSUME TypeOK, WireBelongs, NEW v \in Servers, Record(v)
  PROVE  \E piece \in Pieces :
           /\ Head(wire[v]) \in Deltas /\ Head(wire[v]).piece = piece /\ Belongs(Head(wire[v]), v)
           /\ held[v] = << >> /\ held' = [held EXCEPT ![v] = <<Head(wire[v])>>]
           /\ delivered' = [delivered EXCEPT ![v][MessageOf(piece)] = Append(@, piece)]
           /\ MessageOf(piece) \in Messages /\ piece[1] \in Runs /\ pc[piece[1]] \in Sent /\ home[piece[1]] = v
           /\ UNCHANGED <<runs, home, shown, pc>>
  <1> DEFINE event == Head(wire[v])
             piece == event.piece
  <1>1. wire[v] # << >> /\ event.kind = "delta" /\ held[v] = << >>
    BY DEF Record
  <1>2. event \in Deltas /\ event = wire[v][1] /\ 1 \in DOMAIN wire[v]
    BY <1>1, HeadTypes
  <1>3. Belongs(event, v)
    BY <1>1, <1>2 DEF WireBelongs
  <1>4. piece \in Pieces /\ MessageOf(piece) \in Messages /\ piece[1] \in Runs
    BY <1>2 DEF Deltas, Pieces, MessageOf, Messages
  <1>5. pc[piece[1]] \in Sent /\ home[piece[1]] = v
    BY <1>3 DEF Belongs
  <1>6. /\ delivered' = [delivered EXCEPT ![v][MessageOf(piece)] = Append(@, piece)]
        /\ held' = [held EXCEPT ![v] = <<event>>] /\ UNCHANGED <<runs, home, shown, pc>>
    BY DEF Record
  <1> HIDE DEF event
  <1> QED
    BY <1>1, <1>2, <1>3, <1>4, <1>5, <1>6 DEF event

LEMMA HeldStep == TypeOK /\ WireBelongs /\ HeldBelongs /\ [Next]_vars => HeldBelongs'
  <1> SUFFICES ASSUME TypeOK, WireBelongs, HeldBelongs, [Next]_vars,
                      NEW w \in Servers, held'[w] # << >>
               PROVE  StillBelongs(held'[w][1], w)
    BY DEF HeldBelongs, Belongs, StillBelongs
  <1> DEFINE Goal == StillBelongs(held'[w][1], w)
  <1>1. ASSUME held'[w] = held[w] PROVE Goal
    <2>1. held[w] # << >> /\ held[w][1] \in Deltas /\ Belongs(held[w][1], w)
      BY <1>1, HeldTypes DEF HeldBelongs
    <2> QED
      BY <1>1, <2>1, BelongsStays
  <1>2. CASE UNCHANGED <<shown, delivered, held>>
    BY <1>1, <1>2
  <1>3. ASSUME NEW v \in Servers, Record(v) PROVE Goal
    <2>1. held' = [held EXCEPT ![v] = <<Head(wire[v])>>] /\ Head(wire[v]) \in Deltas /\ Belongs(Head(wire[v]), v)
      BY <1>3, RecordKeeps
    <2>2. CASE w = v
      <3>1. held'[w][1] = Head(wire[v])
        BY <2>1, <2>2, Parts
      <3> QED
        BY <2>1, <2>2, <3>1, BelongsStays
    <2>3. CASE w # v
      BY <1>1, <2>1, <2>3, Parts
    <2> QED
      BY <2>2, <2>3
  <1>4. ASSUME NEW v \in Servers, SendText(v) \/ Reap(v) PROVE Goal
    <2>1. held' = [held EXCEPT ![v] = << >>]
      BY <1>4 DEF SendText, Reap
    <2>2. held'[w] = held[w]
      BY <2>1, Parts
    <2> QED
      BY <1>1, <2>2
  <1>5. ASSUME NEW r \in Runs, PollCloses(r) PROVE Goal
    BY <1>1, <1>5 DEF PollCloses
  <1> QED
    BY <1>2, <1>3, <1>4, <1>5, TextFrame

\* Text is sent to registered runs only.
LEMMA ShownStays ==
  ASSUME TypeOK, [Next]_vars, NEW r \in Runs \ runs
  PROVE  shown'[r] = shown[r]
  <1>1. CASE UNCHANGED <<shown, delivered, held>>
    BY <1>1
  <1>2. ASSUME NEW v \in Servers, Record(v) \/ Reap(v) PROVE shown'[r] = shown[r]
    BY <1>2 DEF Record, Reap
  <1>3. ASSUME NEW v \in Servers, SendText(v) PROVE shown'[r] = shown[r]
    BY <1>3 DEF SendText, Send, RunsOf
  <1>4. ASSUME NEW q \in Runs, PollCloses(q) PROVE shown'[r] = shown[r]
    BY <1>4 DEF PollCloses, Send, Still
  <1> QED
    BY <1>1, <1>2, <1>3, <1>4, TextFrame

\* Text is recorded by dispatch only.
LEMMA DeliveredStays ==
  ASSUME [Next]_vars
  PROVE  delivered' = delivered \/ \E v \in Servers : Record(v)
  <1>1. ASSUME NEW v \in Servers, SendText(v) \/ Reap(v) PROVE delivered' = delivered
    BY <1>1 DEF SendText, Reap
  <1>2. ASSUME NEW r \in Runs, PollCloses(r) PROVE delivered' = delivered
    BY <1>2 DEF PollCloses
  <1> QED
    BY <1>1, <1>2, TextFrame

LEMMA NoTextStep == TypeOK /\ EndInv /\ WireBelongs /\ NoTextYet /\ [Next]_vars => NoTextYet'
  <1> SUFFICES ASSUME TypeOK, EndInv, WireBelongs, NoTextYet, [Next]_vars,
                      NEW r \in Runs, pc'[r] \in {"idle", "session"}, NEW n \in 1..MaxMessages
               PROVE  shown'[r][<<r, n>>] = << >> /\ \A v \in Servers : delivered'[v][<<r, n>>] = << >>
    BY DEF NoTextYet
  <1>1. pc[r] \in {"idle", "session"}
    BY Placed
  <1>2. r \notin runs
    BY <1>1 DEF EndInv
  <1>3. shown[r][<<r, n>>] = << >> /\ \A v \in Servers : delivered[v][<<r, n>>] = << >>
    BY <1>1 DEF NoTextYet
  <1>4. shown'[r][<<r, n>>] = << >>
    BY <1>2, <1>3, ShownStays
  <1>5. ASSUME NEW v \in Servers, Record(v) PROVE \A w \in Servers : delivered'[w][<<r, n>>] = << >>
    <2>1. PICK piece \in Pieces :
            /\ delivered' = [delivered EXCEPT ![v][MessageOf(piece)] = Append(@, piece)]
            /\ pc[piece[1]] \in Sent
      BY <1>5, RecordKeeps
    <2>2. MessageOf(piece) # <<r, n>>
      BY <1>1, <2>1 DEF MessageOf, Sent
    <2>3. <<r, n>> \in Messages
      BY DEF Messages
    <2> QED
      BY <1>3, <2>1, <2>2, <2>3, Parts
  <1> QED
    BY <1>3, <1>4, <1>5, DeliveredStays


LEMMA SentStep == TypeOK /\ PlaceInv /\ EndInv /\ TextInv /\ [Next]_vars => TextIsSent'
  <1> DEFINE UnsentNext(v, m) ==
        IF held'[v] # << >> /\ MessageOf(held'[v][1].piece) = m THEN <<held'[v][1].piece>> ELSE << >>
  <1> SUFFICES ASSUME TypeOK, PlaceInv, EndInv, TextInv, [Next]_vars,
                      NEW r \in runs', ~LostText(r)', NEW n \in 1..MaxMessages
               PROVE  shown'[r][<<r, n>>] \o UnsentNext(home'[r], <<r, n>>) = delivered'[home'[r]][<<r, n>>]
    BY DEF TextIsSent, Unsent
  <1> DEFINE m == <<r, n>>
             Goal == shown'[r][m] \o UnsentNext(home'[r], m) = delivered'[home'[r]][m]
  <1>0. r \in Runs /\ m \in Messages /\ ~LostText(r)
    BY Parts, TypeStep, Grows DEF Messages, TypeOK, LostText
  <1>1. CASE r \notin runs
    <2>1. pc[r] = "session" /\ UNCHANGED <<shown, delivered, held, home>>
      BY <1>1, Registers
    <2>2. home[r] \in Servers
      BY <1>0, <2>1 DEF PlaceInv
    <2>3. shown[r][m] = << >> /\ delivered[home[r]][m] = << >>
      BY <1>0, <2>1, <2>2 DEF TextInv, NoTextYet
    <2>4. UnsentNext(home[r], m) = << >>
      <3>1. held[home[r]] # << >> => MessageOf(held[home[r]][1].piece) # m
        BY <2>1, <2>2 DEF TextInv, HeldBelongs, Belongs, Sent, MessageOf
      <3> QED
        BY <2>1, <3>1
    <2>5. << >> \o << >> = << >>
      OBVIOUS
    <2> QED
      BY <2>1, <2>3, <2>4, <2>5
  <1>2. ASSUME r \in runs PROVE Goal
    <2> DEFINE v == home[r]
    <2>1. pc[r] \in {"prompt"} \cup Sent
      BY <1>2 DEF EndInv, Sent
    <2>2. home'[r] = v /\ v \in Servers /\ session[r] \in Runs
      BY <1>0, <2>1, Placed DEF PlaceInv
    <2>3. shown[r][m] \o Unsent(v, m) = delivered[v][m]
      BY <1>0, <1>2 DEF TextInv, TextIsSent
    <2>4. shown[r][m] \in Seq(Pieces) /\ delivered[v][m] \in Seq(Pieces)
      BY <1>0, <2>2, Parts
    <2> HIDE DEF v, m
    <2>5. ASSUME held'[v] = held[v], shown'[r][m] = shown[r][m], delivered'[v][m] = delivered[v][m] PROVE Goal
      <3>1. UnsentNext(v, m) = Unsent(v, m)
        BY <2>5 DEF Unsent
      <3> QED
        BY <2>2, <2>3, <2>5, <3>1
    <2>6. ASSUME UNCHANGED <<shown, delivered, held>> PROVE Goal
      <3>1. held'[v] = held[v] /\ shown'[r][m] = shown[r][m] /\ delivered'[v][m] = delivered[v][m]
        BY <2>6
      <3> QED
        BY <2>5, <3>1, Zenon
    <2>7. ASSUME NEW w \in Servers, Record(w) PROVE Goal
      <3> DEFINE event == Head(wire[w])
      <3>1. PICK piece \in Pieces :
              /\ event.piece = piece /\ held[w] = << >> /\ held' = [held EXCEPT ![w] = <<event>>]
              /\ delivered' = [delivered EXCEPT ![w][MessageOf(piece)] = Append(@, piece)]
              /\ MessageOf(piece) \in Messages /\ shown' = shown
        BY <2>7, RecordKeeps DEF TextInv
      <3> HIDE DEF event
      <3>2. CASE v # w
        BY <2>2, <2>5, <3>1, <3>2, Parts
      <3>3. CASE v = w /\ MessageOf(piece) # m
        <4>1. delivered'[v][m] = delivered[v][m]
          BY <1>0, <3>1, <3>3, Parts DEF m
        <4>2. held'[v] = <<event>> /\ held[v] = << >>
          BY <3>1, <3>3, Parts
        <4>3. Unsent(v, m) = << >>
          BY <4>2 DEF Unsent
        <4>4. UnsentNext(v, m) = << >>
          BY <3>1, <3>3, <4>2
        <4> QED
          BY <2>2, <2>3, <3>1, <4>1, <4>3, <4>4
      <3>4. CASE v = w /\ MessageOf(piece) = m
        <4>1. delivered'[v][m] = Append(delivered[v][m], piece)
          BY <3>1, <3>4, Parts
        <4>2. held'[v] = <<event>> /\ held[v] = << >>
          BY <3>1, <3>4, Parts
        <4>3. Unsent(v, m) = << >>
          BY <4>2 DEF Unsent
        <4>4. shown[r][m] = delivered[v][m]
          BY <2>3, <2>4, <4>3, ConcatEmptySeq
        <4>5. held'[v] # << >> /\ held'[v][1].piece = piece
          <5>1. <<event>> # << >> /\ <<event>>[1] = event
            OBVIOUS
          <5> QED
            BY <3>1, <4>2, <5>1
        <4>6. UnsentNext(v, m) = <<piece>>
          BY <3>4, <4>5
        <4>7. Append(delivered[v][m], piece) = delivered[v][m] \o <<piece>>
          BY <2>4, AppendIsConcat
        <4> QED
          BY <2>2, <3>1, <4>1, <4>4, <4>6, <4>7
      <3> QED
        BY <3>2, <3>3, <3>4
    <2>8. ASSUME NEW w \in Servers, SendText(w) PROVE Goal
      <3> DEFINE event == held[w][1]
                 R == RunsOf(w, event.session)
      <3>7. PICK full \in Full(R) :
              /\ Send(R \ full, MessageOf(event.piece), <<event.piece>>)
              /\ dropped' = dropped \cup (full \X {"text"})
        BY <2>8 DEF SendText, Drop
      <3>8. r \notin full
        BY <3>7 DEF LostText
      <3>1. /\ held[w] # << >> /\ held' = [held EXCEPT ![w] = << >>] /\ delivered' = delivered
        BY <2>8 DEF SendText
      <3>2. /\ event.piece \in Pieces /\ MessageOf(event.piece) \in Messages /\ event.piece[1] \in Runs
            /\ Belongs(event, w)
        BY <3>1, HeldTypes DEF TextInv, HeldBelongs, Pieces
      <3>3. shown'[r] = IF r \in R THEN [shown[r] EXCEPT ![MessageOf(event.piece)] = @ \o <<event.piece>>]
                                   ELSE shown[r]
        BY <1>0, <3>7, <3>8 DEF Send
      <3>4. CASE v = w /\ MessageOf(event.piece) = m
        <4>1. r = event.piece[1] /\ r \in R
          BY <1>2, <3>2, <3>4 DEF MessageOf, m, RunsOf, Belongs, v
        <4>2. shown'[r][m] = shown[r][m] \o <<event.piece>>
          <5>1. shown'[r] = [shown[r] EXCEPT ![m] = @ \o <<event.piece>>]
            BY <3>3, <3>4, <4>1
          <5>2. m \in DOMAIN shown[r]
            BY <1>0, Parts
          <5> HIDE DEF event
          <5> QED
            BY <5>1, <5>2
        <4>3. Unsent(v, m) = <<event.piece>>
          BY <3>1, <3>4 DEF Unsent
        <4>4. held'[v] = << >>
          BY <3>1, <3>4, Parts
        <4>5. UnsentNext(v, m) = << >>
          BY <4>4
        <4>6. delivered[v][m] \o << >> = delivered[v][m]
          BY <2>4, ConcatEmptySeq
        <4> QED
          BY <2>2, <2>3, <3>1, <4>2, <4>3, <4>5, <4>6
      <3>5. CASE MessageOf(event.piece) # m
        <4>1. shown'[r][m] = shown[r][m]
          BY <1>0, <3>3, <3>5, Parts
        <4>2. CASE v # w
          BY <2>2, <2>5, <3>1, <4>1, <4>2, Parts
        <4>3. CASE v = w
          <5>1. held'[v] = << >>
            BY <3>1, <4>3, Parts
          <5>2. UnsentNext(v, m) = << >> /\ Unsent(v, m) = << >>
            BY <3>5, <4>3, <5>1 DEF Unsent
          <5> QED
            BY <2>2, <2>3, <3>1, <4>1, <5>2
        <4> QED
          BY <4>2, <4>3
      <3>6. CASE v # w /\ MessageOf(event.piece) = m
        <4>1. r \notin R
          BY <3>6 DEF RunsOf, v
        <4> QED
          BY <2>2, <2>5, <3>1, <3>3, <3>6, <4>1, Parts
      <3> QED
        BY <3>4, <3>5, <3>6
    <2>9. ASSUME NEW w \in Servers, Reap(w) PROVE Goal
      <3>1. /\ held' = [held EXCEPT ![w] = << >>] /\ UNCHANGED <<shown, delivered>>
            /\ runs' = runs \ {x \in runs : home[x] = w}
        BY <2>9 DEF Reap, CloseRuns
      <3>2. v # w
        BY <1>2, <3>1 DEF v
      <3> QED
        BY <2>2, <2>5, <3>1, <3>2, Parts
    <2>10. ASSUME NEW q \in Runs, PollCloses(q) PROVE Goal
      <3>1. /\ UNCHANGED <<held, delivered>> /\ runs' = runs \ Still(q)
            /\ \E S \in SUBSET Still(q) : \E message, text : Send(S, message, text)
        <4>1. \E S \in SUBSET Still(q) : \E message, text : Send(S, message, text)
          BY <2>10, PollSends
        <4> QED
          BY <2>10, <4>1 DEF PollCloses, CloseRuns
      <3>2. r \notin Still(q)
        BY <3>1
      <3>3. shown'[r] = shown[r]
        BY <1>0, <3>1, <3>2 DEF Send
      <3> QED
        BY <2>5, <3>1, <3>3
    <2>11. ASSUME \E w \in Servers : Record(w) \/ SendText(w) \/ Reap(w) PROVE Goal
      BY <2>7, <2>8, <2>9, <2>11
    <2>12. ASSUME \E q \in Runs : PollCloses(q) PROVE Goal
      BY <2>10, <2>12
    <2> QED
      BY <2>6, <2>11, <2>12, TextFrame
  <1> QED
    BY <1>1, <1>2

\* The text that is recorded of a message grows.
LEMMA DeliveredGrows ==
  ASSUME TypeOK, WireBelongs, [Next]_vars, NEW v \in Servers, NEW m \in Messages
  PROVE  IsPrefix(delivered[v][m], delivered'[v][m]) /\ delivered'[v][m] \in Seq(Pieces)
  <1> DEFINE old == delivered[v][m]
  <1>1. old \in Seq(Pieces)
    BY Parts
  <1> HIDE DEF old
  <1>2. IsPrefix(old, old)
    BY <1>1, Prefix, LenProperties
  <1>3. ASSUME NEW piece \in Pieces
        PROVE  IsPrefix(old, Append(old, piece)) /\ Append(old, piece) \in Seq(Pieces)
    <2>1. Append(old, piece) \in Seq(Pieces) /\ Len(Append(old, piece)) = Len(old) + 1 /\ Len(old) \in Nat
          /\ \A i \in 1..Len(old) : Append(old, piece)[i] = old[i]
      BY <1>1, AppendProperties, LenProperties
    <2>2. Len(old) <= Len(Append(old, piece)) /\ \A i \in 1..Len(old) : old[i] = Append(old, piece)[i]
      BY <2>1
    <2> DEFINE new == Append(old, piece)
    <2>3. new \in Seq(Pieces) /\ Len(old) <= Len(new) /\ \A i \in 1..Len(old) : old[i] = new[i]
      BY <2>1, <2>2
    <2> HIDE DEF new
    <2>4. IsPrefix(old, new)
      BY <1>1, <2>3, Prefix
    <2> QED
      BY <2>3, <2>4 DEF new
  <1>4. delivered'[v][m] = old \/ \E piece \in Pieces : delivered'[v][m] = Append(old, piece)
    <2>1. CASE delivered' = delivered
      BY <2>1 DEF old
    <2>2. ASSUME NEW w \in Servers, Record(w)
          PROVE  delivered'[v][m] = old \/ \E piece \in Pieces : delivered'[v][m] = Append(old, piece)
      <3>1. PICK piece \in Pieces :
              delivered' = [delivered EXCEPT ![w][MessageOf(piece)] = Append(@, piece)]
        BY <2>2, RecordKeeps
      <3>2. delivered'[v][m] = delivered[v][m] \/ delivered'[v][m] = Append(delivered[v][m], piece)
        BY <3>1, Parts
      <3> QED
        BY <3>2 DEF old
    <2> QED
      BY <2>1, <2>2, DeliveredStays
  <1> QED
    BY <1>1, <1>2, <1>3, <1>4 DEF old

LEMMA PrefixTransitive ==
  ASSUME NEW S, NEW s \in Seq(S), NEW t \in Seq(S), NEW u \in Seq(S), IsPrefix(s, t), IsPrefix(t, u)
  PROVE  IsPrefix(s, u)
  <1>1. /\ Len(s) \in Nat /\ Len(t) \in Nat /\ Len(u) \in Nat
        /\ Len(s) <= Len(t) /\ Len(t) <= Len(u)
        /\ \A i \in 1..Len(s) : s[i] = t[i]
        /\ \A i \in 1..Len(t) : t[i] = u[i]
    BY Prefix, LenProperties
  <1>2. Len(s) <= Len(u) /\ \A i \in 1..Len(s) : s[i] = u[i]
    BY <1>1
  <1> QED
    BY <1>2, Prefix

\* The message that a poll has read.
LEMMA PolledMessage ==
  ASSUME TypeOK, NEW r \in Runs, polled[r] # << >>
  PROVE  /\ polled[r][1] \in LastMessages /\ polled[r][2] \in Seq(Pieces)
         /\ Id(polled[r][1]) \in Messages
  BY Parts DEF Id, Messages, LastMessages

LEMMA PrefixStep == TypeOK /\ PlaceInv /\ WireBelongs /\ PolledPrefix /\ [Next]_vars => PolledPrefix'
  <1> SUFFICES ASSUME TypeOK, PlaceInv, WireBelongs, PolledPrefix, [Next]_vars,
                      NEW r \in Runs, polled'[r] # << >>
               PROVE  pc'[r] \in Sent /\ IsPrefix(polled'[r][2], delivered'[home'[r]][Id(polled'[r][1])])
    BY DEF PolledPrefix, Delivered, Id
  <1> DEFINE Goal == pc'[r] \in Sent /\ IsPrefix(polled'[r][2], delivered'[home'[r]][Id(polled'[r][1])])
  <1>1. ASSUME polled'[r] = polled[r] PROVE Goal
    <2> DEFINE m == Id(polled[r][1])
               done == polled[r][2]
               v == home[r]
    <2>1. pc[r] \in Sent /\ v \in Servers /\ pc'[r] \in Sent /\ home'[r] = v
      BY <1>1, Placed DEF PolledPrefix, PlaceInv
    <2>2. m \in Messages /\ done \in Seq(Pieces) /\ delivered[v][m] \in Seq(Pieces)
      BY <1>1, <2>1, PolledMessage, Parts
    <2>3. IsPrefix(done, delivered[v][m])
      BY <1>1 DEF PolledPrefix, Delivered
    <2> HIDE DEF m, done, v
    <2>4. IsPrefix(delivered[v][m], delivered'[v][m]) /\ delivered'[v][m] \in Seq(Pieces)
      BY <2>1, <2>2, DeliveredGrows
    <2>5. IsPrefix(done, delivered'[v][m])
      BY <2>2, <2>3, <2>4, PrefixTransitive
    <2> QED
      BY <1>1, <2>1, <2>5 DEF m, done, v
  <1>2. ASSUME NEW q \in Runs, Poll(q) PROVE Goal
    <2>1. CASE q # r
      <3>1. polled'[r] = polled[r]
        BY <1>2, <2>1, PollReads
      <3> QED
        BY <1>1, <3>1
    <2>2. CASE q = r
      <3> DEFINE message == last[session[r]]
                 text == Delivered(r, message)
      <3>1. /\ pc[r] = "running" /\ message \in LastMessages /\ home[r] \in Servers
            /\ polled'[r] = <<message, text>>
        BY <1>2, <2>2, PollReads
      <3>2. UNCHANGED <<pc, home, delivered>>
        BY <1>2 DEF Poll
      <3>3. Id(message) \in Messages
        BY <3>1 DEF Id, Messages, LastMessages
      <3>4. text \in Seq(Pieces) /\ text = delivered[home[r]][Id(message)]
        BY <3>1, <3>3, Parts DEF Delivered
      <3> HIDE DEF message, text
      <3>5. IsPrefix(text, text)
        BY <3>4, Prefix, LenProperties
      <3>6. polled'[r][1] = message /\ polled'[r][2] = text
        BY <3>1
      <3> QED
        BY <3>1, <3>2, <3>4, <3>5, <3>6 DEF Sent
    <2> QED
      BY <2>1, <2>2
  <1>3. ASSUME UNCHANGED polled PROVE Goal
    BY <1>1, <1>3
  <1>4. Goal
    BY <1>2, <1>3, PolledFrame
  <1> QED
    BY <1>4

\* What a poll that loses nothing on its way shows in the end.
LEMMA PollShows ==
  ASSUME TypeOK, PlaceInv, EndInv, TextIsSent, PolledPrefix, NEW r \in Runs, PollCloses(r), r \notin raced', ~LostText(r)',
         polled[r][1].run = r, IsPrefix(polled[r][2], FullText(polled[r][1]))
  PROVE  shown'[r][Id(polled[r][1])] = FullText(polled[r][1])
  <1> DEFINE message == polled[r][1]
             done == polled[r][2]
             v == home[r]
             m == Id(message)
             rest == MissingText(done, FullText(message))
  <1>1. polled[r] # << >> /\ r \in runs /\ r \in Still(r)
    BY DEF PollCloses, Still
  <1>2. message \in LastMessages /\ done \in Seq(Pieces) /\ m \in Messages /\ v \in Servers
    BY <1>1, PolledMessage DEF PolledPrefix, PlaceInv
  <1>3. Delivered(r, message) = done /\ held[v] = << >>
    BY DEF PollCloses
  <1>13. PICK full \in SUBSET Still(r), missed \in SUBSET Still(r) :
          /\ Send(Still(r) \ full, m, rest)
          /\ dropped' = dropped \cup (full \X {"text"}) \cup (missed \X {"end"})
    <2>1. PICK full \in SUBSET Still(r), missed \in SUBSET Still(r) :
            /\ Send(Still(r) \ full, m, rest)
            /\ SendEnd(Still(r) \ missed, Ending(message)) /\ CloseRuns(Still(r))
            /\ dropped' = dropped \cup (full \X {"text"}) \cup (missed \X {"end"})
            /\ raced' = IF Delivered(r, message) # polled[r][2] \/ held[home[r]] # << >>
                        THEN raced \cup {r} ELSE raced
      BY PollSends
    <2> WITNESS full \in SUBSET Still(r), missed \in SUBSET Still(r)
    <2> QED
      BY <2>1
  <1>4. Send(Still(r) \ full, m, rest) /\ r \notin full /\ ~LostText(r)
    BY <1>13 DEF LostText
  <1>5. message.n \in 1..MaxMessages /\ m = <<r, message.n>>
    BY <1>2 DEF LastMessages, Id
  <1>6. shown[r][m] \o Unsent(v, m) = delivered[v][m]
    BY <1>1, <1>4, <1>5 DEF TextIsSent
  <1>7. delivered[v][m] = done
    BY <1>3 DEF Delivered
  <1> HIDE DEF message, v, m
  <1>8. Unsent(v, m) = << >> /\ shown[r][m] \in Seq(Pieces)
    BY <1>2, <1>3, Parts DEF Unsent
  <1>9. shown[r][m] = done
    BY <1>6, <1>7, <1>8, ConcatEmptySeq
  <1>10. done \o rest = FullText(message)
    BY <1>2, Missing DEF message
  <1> HIDE DEF done, rest
  <1>11. shown'[r] = [shown[r] EXCEPT ![m] = @ \o rest]
    BY <1>1, <1>4 DEF Send
  <1>12. shown'[r][m] = shown[r][m] \o rest
    BY <1>2, <1>11, Parts
  <1> QED
    BY <1>9, <1>10, <1>12 DEF m, message

LEMMA WholeStep ==
  TypeOK /\ PlaceInv /\ EndInv /\ TextInv /\ PollInv /\ PolledAtEnd /\ [Next]_vars => WholeAtEnd'
  <1> SUFFICES ASSUME TypeOK, PlaceInv, EndInv, TextInv, PollInv, PolledAtEnd, [Next]_vars,
                      NEW r \in closed' \ raced', pc'[r] # "refused", card'[r] = "done", ~Missed(r)'
               PROVE  /\ polled'[r] # << >>
                      /\ polled'[r][1].run = r /\ IsPrefix(polled'[r][2], FullText(polled'[r][1])) =>
                           shown'[r][Id(polled'[r][1])] = FullText(polled'[r][1])
    BY DEF WholeAtEnd, FullText, Id
  <1> DEFINE Goal == /\ polled'[r] # << >>
                     /\ polled'[r][1].run = r /\ IsPrefix(polled'[r][2], FullText(polled'[r][1])) =>
                          shown'[r][Id(polled'[r][1])] = FullText(polled'[r][1])
  <1>0. r \in Runs /\ r \notin raced /\ ~Missed(r)
    BY Grows, TypeStep DEF TypeOK, Missed
  <1>13. ~LostText(r)' /\ ~LostEnd(r)'
    BY DEF Missed, LostText, LostEnd
  <1>1. ASSUME r \in closed, pc[r] # "refused", card[r] = "done" PROVE Goal
    <2>1. r \notin runs
      BY <1>1 DEF EndInv
    <2>2. polled'[r] = polled[r]
      <3>1. ASSUME NEW q \in Runs, Poll(q) PROVE polled'[r] = polled[r]
        BY <1>0, <2>1, <3>1, PollReads
      <3> QED
        BY <3>1, PolledFrame
    <2>3. shown'[r] = shown[r]
      BY <1>0, <2>1, ShownStays
    <2> QED
      BY <1>0, <1>1, <2>2, <2>3 DEF PollInv, WholeAtEnd
  <1>2. ASSUME UNCHANGED <<runs, closed, panicked, pc, card>> PROVE Goal
    BY <1>1, <1>2
  <1>3. ASSUME NEW T \in SUBSET runs, NEW S \in SUBSET runs, NEW state, SendEnd(T, state), CloseRuns(S), pc' = pc,
               \A x \in S \ T : LostEnd(x)', S # {} => state # "done"
        PROVE  Goal
    <2>1. card'[r] = (IF r \in T THEN state ELSE card[r]) /\ closed' = closed \cup S
      BY <1>0, <1>3 DEF SendEnd, CloseRuns
    <2>2. r \notin S
      BY <1>3, <1>13, <2>1
    <2>3. r \in closed /\ r \notin T
      BY <1>3, <2>1, <2>2 DEF EndInv
    <2> QED
      BY <1>1, <1>3, <2>1, <2>3
  <1>4. ASSUME NEW v \in Servers, Finish(v) PROVE Goal
    <2>1. PICK R \in SUBSET runs, T \in SUBSET runs, state \in {"done", "error", "interrupted"} :
            /\ SendEnd(T, state) /\ CloseRuns(IF state = "done" THEN {} ELSE R) /\ pc' = pc
            /\ \A x \in R \ T : LostEnd(x)'
      BY <1>4, FinishEnds
    <2> DEFINE S == IF state = "done" THEN {} ELSE R
    <2>2. /\ S \in SUBSET runs /\ (S # {} => state # "done") /\ CloseRuns(S)
          /\ \A x \in S \ T : LostEnd(x)'
      BY <2>1
    <2> HIDE DEF S
    <2> QED
      BY <1>3, <2>1, <2>2
  <1>5. ASSUME NEW v \in Servers, Reap(v) PROVE Goal
    <2>1. PICK R \in SUBSET runs, T \in SUBSET runs :
            SendEnd(T, "error") /\ CloseRuns(R) /\ pc' = pc /\ \A x \in R \ T : LostEnd(x)'
      BY <1>5, ReapEnds
    <2> QED
      BY <1>3, <2>1
  <1>6. ASSUME NEW q \in Runs, pc[q] \in {"idle", "session"}, closed' = closed, card' = card,
               NEW place, pc' = [pc EXCEPT ![q] = place]
        PROVE  Goal
    <2>1. q # r
      BY <1>6 DEF EndInv
    <2>2. pc'[r] = pc[r]
      BY <1>0, <1>6, <2>1 DEF TypeOK
    <2> QED
      BY <1>1, <1>6, <2>2
  <1>7. ASSUME NEW q \in Runs, Reuse(q) \/ OpenSession(q) PROVE Goal
    BY <1>6, <1>7 DEF Reuse, OpenSession, Idling, Goto
  <1>8. ASSUME NEW q \in Runs, NEW ok \in BOOLEAN, Start(q, ok) PROVE Goal
    BY <1>6, <1>8 DEF Start, Idling, Goto
  <1>9. ASSUME NEW q \in Runs, NEW ok \in BOOLEAN, Prompt(q, ok) PROVE Goal
    <2>1. /\ pc[q] = "prompt" /\ card' = card
          /\ pc' = [pc EXCEPT ![q] = IF ok THEN "running" ELSE "refused"]
          /\ IF ok THEN closed' = closed ELSE closed' = closed \cup Still(q)
      BY <1>9 DEF Prompt, Goto, CloseRuns
    <2>2. r = q => ok
      BY <2>1 DEF TypeOK
    <2>3. r \in closed /\ pc[r] # "refused"
      BY <1>0, <2>1, <2>2 DEF Still, TypeOK
    <2> QED
      BY <1>1, <2>1, <2>3
  <1>10. ASSUME NEW q \in Runs, PollCloses(q) PROVE Goal
    <2>5. PICK T \in SUBSET Still(q) : SendEnd(T, Ending(polled[q][1]))
      BY <1>10, PollEnds
    <2>1. CloseRuns(Still(q)) /\ pc' = pc /\ polled' = polled /\ polled[q] # << >>
      BY <1>10 DEF PollCloses
    <2>2. closed' = closed \cup Still(q) /\ \A x \in Runs \ Still(q) : card'[x] = card[x]
      BY <2>1, <2>5 DEF CloseRuns, SendEnd
    <2>3. CASE r = q
      <3>1. polled[r][1].run = r /\ IsPrefix(polled[r][2], FullText(polled[r][1])) =>
              shown'[r][Id(polled[r][1])] = FullText(polled[r][1])
        BY <1>0, <1>10, <1>13, <2>3, PollShows DEF TextInv, PollInv
      <3> QED
        BY <2>1, <2>3, <3>1
    <2>4. CASE r # q
      <3>1. r \in closed /\ card[r] = "done" /\ pc[r] # "refused"
        BY <1>0, <2>1, <2>2, <2>4 DEF Still
      <3> QED
        BY <1>1, <3>1
    <2> QED
      BY <2>3, <2>4
  <1>11. ASSUME NEW q \in Runs, SeesClose(q) PROVE Goal
    <2>1. pc[q] = "running" /\ q \in closed /\ closed' = closed /\ pc' = [pc EXCEPT ![q] = "over"]
      BY <1>11 DEF SeesClose, Goto
    <2>2. q = r => card[q] # "running"
      BY <1>0, <2>1 DEF EndInv, Missed, LostEnd
    <2>3. card'[r] = card[r]
      BY <1>0, <1>11, <2>2 DEF SeesClose, TypeOK
    <2>4. pc[r] # "refused"
      BY <1>0, <2>1 DEF TypeOK
    <2> QED
      BY <1>1, <2>1, <2>3, <2>4
  <1>12. Goal
    BY <1>2, <1>4, <1>5, <1>7, <1>8, <1>9, <1>10, <1>11, RunFrame
  <1> QED
    BY <1>12

-----------------------------------------------------------------------------
LEMMA IInvStep == IInv /\ [Next]_vars => IInv'
  <1> SUFFICES ASSUME IInv, [Next]_vars PROVE IInv'
    OBVIOUS
  <1>1. TypeOK' /\ ServerInv' /\ PlaceInv' /\ EndInv'
    BY TypeStep, ServerStep, PlaceStep, EndStep DEF IInv
  <1>2. DoneInv'
    BY ClosedStep, PolledStep DEF IInv, DoneInv
  <1>3. TextInv'
    BY WireStep, HeldStep, NoTextStep, SentStep DEF IInv, TextInv
  <1>4. PollInv'
    BY PrefixStep, WholeStep DEF IInv, PollInv, TextInv, DoneInv
  <1> QED
    BY <1>1, <1>2, <1>3, <1>4 DEF IInv

\* The invariant holds of every behaviour of the adapter, whatever the server
\* does and wherever the stream breaks.
THEOREM Invariance == Spec => []IInv
  <1>1. Init => IInv
    BY InitIInv
  <1>2. IInv /\ [Next]_vars => IInv'
    BY IInvStep
  <1> QED
    BY <1>1, <1>2, PTL DEF Spec

\* The types hold for all values of the constants.
THEOREM TypeCorrect == Spec => []TypeOK
  <1>1. IInv => TypeOK
    BY DEF IInv
  <1> QED
    BY <1>1, Invariance, PTL

\* A run is served with the access level of its own scope, whatever other scopes
\* restart the server for (ensureServerForAccess).
THEOREM ServedAsAllowedHolds == Spec => []ServedAsAllowed
  <1>1. IInv => ServedAsAllowed
    BY DEF IInv, ServerInv
  <1> QED
    BY <1>1, Invariance, PTL

\* A run is closed once (closeRun), and reads done only when its turn was
\* completed, but for the early polls that the property exempts.
THEOREM EndIsTrueHolds == Spec => []EndIsTrue
  <1>1. IInv => EndIsTrue
    BY DEF IInv, EndInv, DoneInv, ClosedAtEnd, LostEnd, EndIsTrue, ClosedOnce, DoneIsDone
  <1> QED
    BY <1>1, Invariance, PTL

LEMMA WholeText == IInv => TextIsWhole
  <1> SUFFICES ASSUME IInv, NEW r \in Runs, pc[r] = "over", card[r] = "done", r \notin raced, ~Missed(r),
                      polled[r][1] = last[session[r]], last[session[r]].run = r,
                      IsPrefix(Delivered(r, last[session[r]]), FullText(last[session[r]]))
               PROVE  shown[r][Id(last[session[r]])] = FullText(last[session[r]])
    BY DEF TextIsWhole
  <1> DEFINE message == polled[r][1]
             full == FullText(message)
  <1>1. TypeOK /\ r \in closed /\ pc[r] # "refused"
    BY DEF IInv, EndInv
  <1>2. /\ polled[r] # << >>
        /\ message.run = r /\ IsPrefix(polled[r][2], full) => shown[r][Id(message)] = full
    BY <1>1 DEF IInv, PollInv, WholeAtEnd
  <1>3. /\ message \in LastMessages /\ polled[r][2] \in Seq(Pieces) /\ Id(message) \in Messages
        /\ home[r] \in Servers
    BY <1>1, <1>2, PolledMessage DEF IInv, PlaceInv, Sent
  <1>4. full \in Seq(Pieces) /\ Delivered(r, message) \in Seq(Pieces)
    BY <1>1, <1>3, Missing, Parts DEF Delivered
  <1>5. IsPrefix(polled[r][2], Delivered(r, message))
    BY <1>2 DEF IInv, PollInv, PolledPrefix
  <1>6. IsPrefix(polled[r][2], full)
    BY <1>3, <1>4, <1>5, PrefixTransitive
  <1> QED
    BY <1>2, <1>6

\* The last message of a run that is done was shown as it is, by the stream and
\* the poll together (dispatch, reconcilePoll, missingText).
THEOREM TextIsWholeHolds == Spec => []TextIsWhole
  <1>1. IInv => TextIsWhole
    BY WholeText
  <1> QED
    BY <1>1, Invariance, PTL

-----------------------------------------------------------------------------
\* A run is registered before its prompt goes out, and until it is closed.
Registered == \A r \in Runs : pc[r] \in {"prompt", "running"} => r \in runs \cup closed

LEMMA RegisteredStep == TypeOK /\ Registered /\ [Next]_vars => Registered'
  <1> SUFFICES ASSUME TypeOK, Registered, [Next]_vars PROVE Registered'
    OBVIOUS
  <1>1. ASSUME pc' = pc, UNCHANGED <<runs, closed>> \/ \E R : CloseRuns(R) PROVE Registered'
    BY <1>1 DEF Registered, CloseRuns
  <1>2. ASSUME NEW r \in Runs, NEW place, pc' = [pc EXCEPT ![r] = place],
               runs \cup closed \subseteq runs' \cup closed',
               place \in {"prompt", "running"} => r \in runs' \cup closed'
        PROVE  Registered'
    BY <1>2 DEF Registered, TypeOK
  <1>3. CASE UNCHANGED <<runs, closed, panicked, pc, card>>
    BY <1>1, <1>3
  <1>4. ASSUME NEW v \in Servers, Finish(v) \/ Reap(v) PROVE Registered'
    BY <1>1, <1>4 DEF Finish, Reap
  <1>5. ASSUME NEW r \in Runs, Reuse(r) \/ SeesClose(r) PROVE Registered'
    BY <1>2, <1>5 DEF Reuse, SeesClose, Goto
  <1>6. ASSUME NEW r \in Runs, OpenSession(r) PROVE Registered'
    BY <1>2, <1>6 DEF OpenSession, Goto
  <1>7. ASSUME NEW r \in Runs, PollCloses(r) PROVE Registered'
    BY <1>1, <1>7 DEF PollCloses
  <1>8. ASSUME NEW r \in Runs, NEW ok \in BOOLEAN, Start(r, ok) PROVE Registered'
    BY <1>2, <1>8 DEF Start, Goto
  <1>9. ASSUME NEW r \in Runs, NEW ok \in BOOLEAN, Prompt(r, ok) PROVE Registered'
    <2>1. /\ pc[r] = "prompt" /\ pc' = [pc EXCEPT ![r] = IF ok THEN "running" ELSE "refused"]
          /\ IF ok THEN UNCHANGED <<closed, panicked, runs>> ELSE CloseRuns(Still(r))
      BY <1>9 DEF Prompt, Goto
    <2>2. r \in runs \cup closed /\ runs \cup closed \subseteq runs' \cup closed'
      BY <2>1 DEF Registered, CloseRuns
    <2> QED
      BY <1>2, <2>1, <2>2
  <1> QED
    BY <1>3, <1>4, <1>5, <1>6, <1>7, <1>8, <1>9, RunFrame

\* Who stops a run.
LEMMA StopFrame ==
  ASSUME [Next]_vars
  PROVE  stopped' = stopped \/ \E q \in Runs : Stop(q)
  <1>1. ASSUME NEW s \in Runs, Turn(s) PROVE stopped' = stopped
    BY <1>1 DEF Turn, NewMessage, Write, Complete, Idle, Fail
  <1>2. ASSUME NEW v \in Servers, Die(v) \/ Connect(v) \/ Break(v) \/ Streaming(v) PROVE stopped' = stopped
    BY <1>2 DEF Streaming, Die, Connect, Break, Record, SendText, Finish, Reap
  <1>3. ASSUME NEW r \in Runs, NEW ok \in BOOLEAN, Reuse(r) \/ Start(r, ok) \/ Prompt(r, ok)
        PROVE  stopped' = stopped
    BY <1>3 DEF Reuse, Start, Prompt
  <1>4. ASSUME NEW r \in Runs, OpenSession(r) \/ Poll(r) \/ PollCloses(r) \/ SeesClose(r)
        PROVE  stopped' = stopped
    BY <1>4 DEF OpenSession, Poll, PollCloses, SeesClose
  <1>5. ASSUME NEW c \in Scopes, Reset(c) PROVE stopped' = stopped
    BY <1>5 DEF Reset
  <1> QED
    BY <1>1, <1>2, <1>3, <1>4, <1>5 DEF Next, Running, vars

LEMMA PromisedStep ==
  ASSUME TypeOK, EndInv, Registered, [Next]_vars, NEW r \in Runs
  PROVE  [Promised(r)!Next]_(Promised(r)!vars)
  <1> DEFINE Goal == [Promised(r)!Next]_(Promised(r)!vars)
  <1>0. runs \subseteq Runs /\ closed \subseteq Runs /\ (r \in runs => r \notin closed /\ pc[r] # "over")
    BY Parts DEF EndInv
  <1>1. ASSUME r \in runs' <=> r \in runs, r \in closed' <=> r \in closed, card'[r] = card[r],
               pc'[r] = "over" <=> pc[r] = "over", r \in stopped' <=> r \in stopped
        PROVE  Goal
    <2>1. ChannelIs(r)' = ChannelIs(r)
      BY <1>1 DEF ChannelIs
    <2> QED
      BY <1>1, <2>1 DEF Promised!vars
  \* The end is told to T, and the runs of S are closed.
  <1>2. ASSUME NEW T \in SUBSET runs, NEW S \in SUBSET runs, NEW state \in {"done", "error", "interrupted"},
               SendEnd(T, state), CloseRuns(S), pc' = pc, stopped' = stopped
        PROVE  Goal
    <2>1. /\ card'[r] = IF r \in T THEN state ELSE card[r]
          /\ closed' = closed \cup S /\ runs' = runs \ S
      BY <1>2 DEF SendEnd, CloseRuns
    <2>2. CASE r \in T \cup S
      <3>1. ChannelIs(r) = "open" /\ ChannelIs(r)' = (IF r \in S THEN "closed" ELSE "open")
        BY <1>0, <1>2, <2>1, <2>2 DEF ChannelIs
      <3> QED
        BY <1>2, <2>1, <2>2, <3>1
           DEF Promised!Next, Promised!Tell, Promised!Close, Promised!Tells, Promised!Ends
    <2>3. CASE r \notin T \cup S
      BY <1>1, <1>2, <2>1, <2>3
    <2> QED
      BY <2>2, <2>3
  <1>3. ASSUME NEW q \in Runs, NEW place, pc' = [pc EXCEPT ![q] = place], place # "over", pc[q] # "over",
               UNCHANGED <<runs, closed, card, stopped>>
        PROVE  Goal
    <2>1. pc'[r] = "over" <=> pc[r] = "over"
      BY <1>3 DEF TypeOK
    <2> QED
      BY <1>1, <1>3, <2>1
  <1>4. ASSUME UNCHANGED <<runs, closed, panicked, pc, card>> PROVE Goal
    <2>1. CASE r \in stopped' <=> r \in stopped
      BY <1>1, <1>4, <2>1
    <2>2. CASE ~(r \in stopped' <=> r \in stopped)
      <3>1. Stop(r)
        BY <2>2, StopFrame DEF Stop
      <3>2. pc[r] = "running" /\ r \in stopped'
        BY <3>1 DEF Stop
      <3>3. ChannelIs(r) # "none" /\ ChannelIs(r)' = ChannelIs(r)
        BY <1>4, <3>2 DEF ChannelIs, Registered
      <3> QED
        BY <1>4, <3>2, <3>3 DEF Promised!Next, Promised!Stop
    <2> QED
      BY <2>1, <2>2
  <1>5. ASSUME NEW v \in Servers, Finish(v) PROVE Goal
    <2>1. PICK R \in SUBSET runs, T \in SUBSET runs, state \in {"done", "error", "interrupted"} :
            SendEnd(T, state) /\ CloseRuns(IF state = "done" THEN {} ELSE R) /\ pc' = pc
      BY <1>5, FinishEnds
    <2>2. stopped' = stopped /\ (IF state = "done" THEN {} ELSE R) \in SUBSET runs
      BY <1>5 DEF Finish
    <2> QED
      BY <1>2, <2>1, <2>2
  <1>6. ASSUME NEW v \in Servers, Reap(v) PROVE Goal
    <2>1. PICK R \in SUBSET runs, T \in SUBSET runs : SendEnd(T, "error") /\ CloseRuns(R) /\ pc' = pc
      BY <1>6, ReapEnds
    <2>2. stopped' = stopped
      BY <1>6 DEF Reap
    <2> QED
      BY <1>2, <2>1, <2>2
  <1>7. ASSUME NEW q \in Runs, Reuse(q) PROVE Goal
    BY <1>3, <1>7 DEF Reuse, Idling, Goto
  <1>8. ASSUME NEW q \in Runs, NEW ok \in BOOLEAN, Start(q, ok) PROVE Goal
    BY <1>3, <1>8 DEF Start, Idling, Goto
  <1>9. ASSUME NEW q \in Runs, OpenSession(q) PROVE Goal
    <2>1. /\ pc[q] = "session" /\ UNCHANGED <<closed, card, stopped>>
          /\ \/ runs' = runs /\ pc' = [pc EXCEPT ![q] = "refused"]
             \/ runs' = runs \cup {q} /\ pc' = [pc EXCEPT ![q] = "prompt"]
      BY <1>9 DEF OpenSession, Goto
    <2>2. CASE r = q /\ runs' # runs
      <3>1. r \notin runs /\ r \notin closed /\ r \in runs' /\ pc[r] # "over" /\ pc'[r] = "prompt"
        BY <2>1, <2>2 DEF EndInv, TypeOK
      <3>2. ChannelIs(r) = "none" /\ ChannelIs(r)' = "open"
        BY <2>1, <3>1 DEF ChannelIs
      <3> QED
        BY <2>1, <3>2 DEF Promised!Next, Promised!Open
    <2>3. CASE ~(r = q /\ runs' # runs)
      <3>1. (pc'[r] = "over" <=> pc[r] = "over") /\ (r \in runs' <=> r \in runs)
        BY <2>1, <2>3 DEF TypeOK
      <3> QED
        BY <1>1, <2>1, <3>1
    <2> QED
      BY <2>2, <2>3
  <1>10. ASSUME NEW q \in Runs, NEW ok \in BOOLEAN, Prompt(q, ok) PROVE Goal
    <2>1. /\ pc[q] = "prompt" /\ card' = card /\ stopped' = stopped
          /\ pc' = [pc EXCEPT ![q] = IF ok THEN "running" ELSE "refused"]
          /\ IF ok THEN UNCHANGED <<closed, panicked, runs>> ELSE CloseRuns(Still(q))
      BY <1>10, StopFrame DEF Prompt, Goto
    <2>2. pc'[r] = "over" <=> pc[r] = "over"
      BY <2>1 DEF TypeOK
    <2>3. CASE ok
      BY <1>1, <2>1, <2>2, <2>3
    <2>4. CASE ~ok
      <3>1. closed' = closed \cup Still(q) /\ runs' = runs \ Still(q)
        BY <2>1, <2>4 DEF CloseRuns
      <3>2. CASE r \in Still(q)
        <4>1. ChannelIs(r) = "open" /\ ChannelIs(r)' = "closed"
          BY <1>0, <2>2, <3>1, <3>2 DEF ChannelIs, Still
        <4> QED
          BY <2>1, <4>1 DEF Promised!Next, Promised!Close
      <3>3. CASE r \notin Still(q)
        BY <1>1, <2>1, <2>2, <3>1, <3>3
      <3> QED
        BY <3>2, <3>3
    <2> QED
      BY <2>3, <2>4
  <1>11. ASSUME NEW q \in Runs, PollCloses(q) PROVE Goal
    <2>1. PICK T \in SUBSET Still(q) :
            SendEnd(T, Ending(polled[q][1])) /\ CloseRuns(Still(q)) /\ pc' = pc
      BY <1>11, PollEnds
    <2>3. stopped' = stopped
      BY <1>11 DEF PollCloses
    <2>2. Still(q) \in SUBSET runs /\ Ending(polled[q][1]) \in {"done", "error", "interrupted"}
      BY DEF Still, Ending
    <2> QED
      BY <1>2, <2>1, <2>2, <2>3
  <1>12. ASSUME NEW q \in Runs, SeesClose(q) PROVE Goal
    <2>1. /\ pc[q] = "running" /\ q \in closed /\ UNCHANGED <<runs, closed, stopped>>
          /\ pc' = [pc EXCEPT ![q] = "over"]
          /\ card' = [card EXCEPT ![q] = IF @ # "running" THEN @
                                           ELSE IF q \in stopped THEN "interrupted" ELSE "done"]
      BY <1>12 DEF SeesClose, Goto
    <2>2. CASE r = q
      <3>1. /\ pc'[r] = "over"
            /\ card'[r] = IF card[r] # "running" THEN card[r]
                          ELSE IF r \in stopped THEN "interrupted" ELSE "done"
        BY <2>1, <2>2 DEF TypeOK
      <3>2. ChannelIs(r) = "closed" /\ ChannelIs(r)' = "over"
        BY <2>1, <2>2, <3>1 DEF ChannelIs
      <3> QED
        BY <2>1, <3>1, <3>2 DEF Promised!Next, Promised!Conclude
    <2>3. CASE r # q
      <3>1. card'[r] = card[r] /\ pc'[r] = pc[r]
        BY <2>1, <2>3 DEF TypeOK
      <3> QED
        BY <1>1, <2>1, <3>1
    <2> QED
      BY <2>2, <2>3
  <1> HIDE DEF Goal
  <1>13. Goal
    BY <1>4, <1>5, <1>6, <1>7, <1>8, <1>9, <1>10, <1>11, <1>12, RunFrame
  <1> QED
    BY <1>13 DEF Goal

\* Each run keeps what a run promises (AgentRun), whoever of the stream, the poll,
\* the waiter and a refused prompt ends it: its channel is opened once and closed
\* once (registerRun, closeRun), an end is told only while it is open, and the
\* card reads the last that was told.
THEOREM Refinement == Spec => ImplementsAgentRun
  <1> DEFINE AllInit == \A r \in Runs : Promised(r)!Init
             AllNext == \A r \in Runs : [Promised(r)!Next]_(Promised(r)!vars)
  <1>1. Init => Registered
    BY DEF Init, Registered
  <1>2. Init => AllInit
    BY DEF Init, Promised!Init, ChannelIs
  <1>3. IInv /\ Registered /\ [Next]_vars => Registered' /\ AllNext
    BY RegisteredStep, PromisedStep DEF IInv
  <1> HIDE DEF AllInit, AllNext
  <1>4. Spec => AllInit /\ [][AllNext]_vars
    BY <1>1, <1>2, <1>3, Invariance, PTL DEF Spec
  <1> QED
    BY <1>4 DEF AllInit, AllNext, ImplementsAgentRun
==============================================================================
