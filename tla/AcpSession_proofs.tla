--------------------------- MODULE AcpSession_proofs ---------------------------
(***************************************************************************)
(* What the Grok and Cursor adapters keep of AcpSession in any number of   *)
(* runs and processes, for any questions and any options: the types of     *)
(* their variables, DoneIsDone and AnswerIsFaithful, and that each run     *)
(* keeps what AgentRun promises.                                           *)
(*                                                                         *)
(* The first rests on where an error is told: a run whose prompt failed    *)
(* has an error in its channel or its card, unless an event found the      *)
(* channel full or the process is known to be dead (DoneInv).  The second  *)
(* rests on where a request of the agent is: in one place at a time, from  *)
(* the stdout to the user, and the agent waits while it is there (AskInv). *)
(* The third rests on the last end in a channel, which the card takes.     *)
(***************************************************************************)
EXTENDS AcpSession, SequencesExt, SequenceTheorems, FiniteSetTheorems, WellFoundedInduction, TLAPS

\* Where a run is before it is registered, and after.
Early == {"idle", "refused", "initialize", "authenticate", "spawned", "unspawned",
          "load", "new", "register"}
Late == {"prompt", "answered", "failed", "leaving", "gone"}

\* Processes are started in their order, and one that does not live works on
\* nothing.
ProcInv ==
  /\ \A p \in Procs : os[p] # "none" => \A q \in 1..(p - 1) : os[q] # "none"
  /\ cur # 0 => os[cur] # "none"
  /\ \A r \in Runs : proc[r] # 0 => os[proc[r]] # "none"
  /\ \A p \in Procs : os[p] # "alive" => turn[p] = 0
  /\ \A p \in Procs : os[p] = "none" => stdout[p] = << >> /\ reader[p] = 0

\* A call waits where its run is; nothing is sent to a run before it is
\* registered, nor received once its channel is closed and empty.
RunInv ==
  /\ \A r \in Runs : pc[r] = "idle" <=> proc[r] = 0
  /\ \A r \in Runs : pc[r] \in Early =>
       loop[r] = "none" /\ chan[r] = << >> /\ ~closed[r] /\ card[r] = "running"
  /\ \A r \in Runs : closed[r] => pc[r] = "gone"
  /\ \A r \in Runs : loop[r] = "over" => closed[r]
  /\ \A p \in Procs : runCh[p] # 0 => proc[runCh[p]] = p /\ pc[runCh[p]] \in Late
  /\ \A p \in Procs : reader[p] # 0 => proc[reader[p]] = p /\ pc[reader[p]] \in Late
  /\ \A p \in Procs, r \in Runs, c \in Calls :
       <<r, c>> \in pending[p] => pc[r] = c /\ proc[r] = p

Has(s, e) == e \in ToSet(s)
IsTold(r) == Has(chan[r], "error") \/ card[r] = "error"
AnsweredLine(l) == l.kind = "prompt" /\ l.ok

\* A done comes of an answer of the agent, and a run that is left without one is
\* told, unless an event was dropped or the process is known to be dead.
DoneInv ==
  /\ \A p \in Procs : \A l \in ToSet(stdout[p]) : AnsweredLine(l) => l.run \in answered
  /\ \A r \in Runs :
       /\ pc[r] = "answered" => r \in answered
       /\ \A e \in Answers : Has(chan[r], e) => r \in answered
       /\ card[r] \in Answers /\ loop[r] # "over" => r \in answered
       /\ pc[r] \in {"leaving", "gone"} /\ ~dropped[r] /\ ~dead[proc[r]] =>
            r \in answered \/ IsTold(r)
  /\ DoneIsDone

\* A request of the agent is in one place: in its stdout, with readLoop, in the
\* channel of one run, or with the user of that run.
Requests == {l \in Lines : l.kind \in {"question", "permission", "other"}}
Holds(r) == Has(chan[r], "ask") \/ loop[r] = "asking"
Once(s, T) == \A i, j \in DOMAIN s : s[i] \in T /\ s[j] \in T => i = j
Without(s, T) == \A i \in DOMAIN s : s[i] \notin T
AskOf(p) ==
  /\ Once(stdout[p], Requests)
  /\ Without(stdout[p], Requests) \/ ask[p] = "sent"
  /\ reader[p] # 0 => ask[p] = "sending"
  /\ \A r \in Runs : proc[r] = p =>
       /\ Holds(r) => ask[p] = "queued"
       /\ Once(chan[r], {"ask"})
       /\ loop[r] = "asking" => ~Has(chan[r], "ask")
  /\ \A r, x \in Runs : proc[r] = p /\ proc[x] = p /\ Holds(r) /\ Holds(x) => r = x
AskInv == \A p \in Procs : os[p] = "alive" => AskOf(p)

Inv == TypeOK /\ ProcInv /\ RunInv /\ DoneInv /\ AskInv /\ AnswerIsFaithful

------------------------------------------------------------------------------
\* What the assumptions say of the constants.
LEMMA Constants ==
  /\ MaxRuns \in Nat /\ MaxProcs \in Nat /\ MaxAsks \in Nat /\ Capacity \in Nat \ {0}
  /\ 0 \notin Runs /\ 0 \notin Procs /\ Runs \subseteq Nat /\ Procs \subseteq Nat
  /\ \A c \in Chunks : /\ c \notin Calls /\ c \notin {"question", "permission", "other"}
                       /\ EventOf(c) \in Events \ (Ends \cup {"ask"})
  /\ "question" \notin Calls /\ "permission" \notin Calls /\ "other" \notin Calls
  /\ Early \cap Calls = Calls \ {"prompt"} /\ Early \cap Late = {}
  BY AcpSessionAssumption DEF Runs, Procs, EventOf, Events, Ends, Answers, Calls, Early, Late

Places == Early \cup Late

LEMMA AfterPlaces ==
  ASSUME NEW r, NEW c \in Calls, NEW ok \in BOOLEAN
  PROVE  /\ c = "prompt" => After(r, c, ok) = (IF ok THEN "answered" ELSE "failed")
         /\ c # "prompt" => After(r, c, ok) \in Early \ {"idle"}
         /\ After(r, c, ok) \in Places
  <1>1. c = "prompt" => After(r, c, ok) = (IF ok THEN "answered" ELSE "failed")
    BY DEF After
  <1>2. c # "prompt" => After(r, c, ok) \in Early \ {"idle"}
    BY DEF After, Calls, Early
  <1> QED
    BY <1>1, <1>2 DEF Places, Late

\* A sequence that grows by an element, or loses its first.
LEMMA Grown ==
  ASSUME NEW S, NEW s \in Seq(S), NEW e \in S
  PROVE  /\ Append(s, e) \in Seq(S) /\ Len(Append(s, e)) = Len(s) + 1
         /\ ToSet(Append(s, e)) = ToSet(s) \cup {e}
         /\ \A T : Without(Append(s, e), T) <=> (Without(s, T) /\ e \notin T)
         /\ \A T : Once(s, T) /\ (Without(s, T) \/ e \notin T) => Once(Append(s, e), T)
  <1>1. /\ Append(s, e) \in Seq(S) /\ Len(Append(s, e)) = Len(s) + 1
        /\ DOMAIN Append(s, e) = 1..Len(s) + 1 /\ DOMAIN s = 1..Len(s) /\ Len(s) \in Nat
        /\ \A i \in DOMAIN s : i \in DOMAIN Append(s, e) /\ Append(s, e)[i] = s[i]
        /\ Append(s, e)[Len(s) + 1] = e /\ Len(s) + 1 \in DOMAIN Append(s, e)
        /\ \A i \in DOMAIN Append(s, e) : i \in DOMAIN s \/ i = Len(s) + 1
    BY AppendProperties
  <1> DEFINE t == Append(s, e)
  <1> HIDE DEF t
  <1>2. ToSet(t) = ToSet(s) \cup {e}
    BY <1>1 DEF ToSet, t
  <1>3. \A T : Without(t, T) <=> (Without(s, T) /\ e \notin T)
    BY <1>1 DEF Without, t
  <1>4. ASSUME NEW T, Once(s, T), Without(s, T) \/ e \notin T PROVE Once(t, T)
    BY <1>1, <1>4 DEF Without, Once, t
  <1> QED  BY <1>1, <1>2, <1>3, <1>4 DEF t

LEMMA Shrunk ==
  ASSUME NEW S, NEW s \in Seq(S), s # << >>
  PROVE  /\ Tail(s) \in Seq(S) /\ Len(Tail(s)) = Len(s) - 1 /\ Head(s) \in S
         /\ ToSet(Tail(s)) \cup {Head(s)} = ToSet(s)
         /\ \A T : Without(s, T) => Without(Tail(s), T) /\ Head(s) \notin T
         /\ \A T : Once(s, T) => Once(Tail(s), T) /\ (Head(s) \in T => Without(Tail(s), T))
  <1>1. /\ Tail(s) \in Seq(S) /\ Len(Tail(s)) = Len(s) - 1
        /\ 1 \in DOMAIN s /\ Head(s) = s[1] /\ Head(s) \in S
        /\ \A i \in DOMAIN Tail(s) : i # 0 /\ i + 1 \in DOMAIN s /\ i + 1 # 1 /\ i \in Nat
                                     /\ Tail(s)[i] = s[i + 1]
        /\ \A i \in DOMAIN s : i # 1 => i - 1 \in DOMAIN Tail(s) /\ Tail(s)[i - 1] = s[i]
    BY HeadTailProperties
  <1> DEFINE t == Tail(s)
             h == Head(s)
  <1> HIDE DEF t, h
  <1>2. ToSet(t) \cup {h} = ToSet(s)
    <2>1. ASSUME NEW i \in DOMAIN s PROVE s[i] = h \/ \E j \in DOMAIN t : t[j] = s[i]
      <3>1. CASE i = 1
        BY <1>1, <3>1 DEF h
      <3>2. CASE i # 1
        BY <1>1, <3>2 DEF t
      <3> QED  BY <3>1, <3>2
    <2>2. ASSUME NEW j \in DOMAIN t PROVE \E i \in DOMAIN s : t[j] = s[i]
      BY <1>1 DEF t
    <2>3. \E i \in DOMAIN s : h = s[i]
      BY <1>1 DEF h
    <2> QED  BY <2>1, <2>2, <2>3 DEF ToSet
  <1>3. ASSUME NEW T, Without(s, T) PROVE Without(t, T) /\ h \notin T
    BY <1>1, <1>3 DEF Without, t, h
  <1>4. ASSUME NEW T, Once(s, T) PROVE Once(t, T) /\ (h \in T => Without(t, T))
    <2>1. Once(t, T)
      <3> SUFFICES ASSUME NEW i \in DOMAIN t, NEW j \in DOMAIN t, t[i] \in T, t[j] \in T
                   PROVE  i = j
        BY DEF Once
      <3>1. i + 1 = j + 1 /\ i \in Nat /\ j \in Nat
        BY <1>1, <1>4 DEF Once, t
      <3> QED  BY <3>1
    <2>2. h \in T => Without(t, T)
      BY <1>1, <1>4 DEF Without, Once, t, h
    <2> QED  BY <2>1, <2>2
  <1> QED  BY <1>1, <1>2, <1>3, <1>4 DEF t, h

------------------------------------------------------------------------------
\* The only index of a set is its first and its last; the first of a set of
\* numbers is one of them.
LEMMA OnlyOne ==
  ASSUME NEW i
  PROVE  FirstOf({i}) = i /\ LastOf({i}) = i
  BY DEF FirstOf, LastOf

LEMMA Least ==
  ASSUME NEW T \in SUBSET Nat, T # {}
  PROVE  FirstOf(T) \in T /\ \A x \in T : FirstOf(T) <= x
  <1>1. \E x \in T : \A y \in T : ~(<<y, x>> \in OpToRel(<, Nat))
    BY WFMin, NatLessThanWellFounded
  <1>2. \A x, y \in Nat : <<x, y>> \in OpToRel(<, Nat) <=> x < y
    BY SMT DEF OpToRel
  <1>3. \E x \in T : \A y \in T : ~(y < x)
    <2>1. PICK x \in T : \A y \in T : ~(<<y, x>> \in OpToRel(<, Nat))
      BY <1>1
    <2>2. ASSUME NEW y \in T PROVE ~(y < x)
      <3>1. x \in Nat /\ y \in Nat
        OBVIOUS
      <3>2. <<y, x>> \in OpToRel(<, Nat) <=> y < x
        BY Zenon, <3>1, <1>2
      <3> QED
        BY Zenon, <3>2, <2>1
    <2> QED
      BY <2>2
  <1>4. \E x \in T : \A y \in T \ {x} : x < y
    BY <1>3
  <1>5. FirstOf(T) \in T /\ \A y \in T \ {FirstOf(T)} : FirstOf(T) < y
    BY <1>4 DEF FirstOf
  <1> DEFINE first == FirstOf(T)
  <1>6. first \in T /\ \A y \in T \ {first} : first < y
    BY <1>5
  <1> HIDE DEF first
  <1>7. \A x \in T : x \in Nat /\ (x = first \/ first < x)
    BY <1>6
  <1>8. \A x \in T : first <= x
    BY <1>6, <1>7
  <1> QED
    BY <1>6, <1>8 DEF first

\* A permission is granted whenever an option grants it, and by such an option.
LEMMA Granted ==
  ASSUME NEW options \in Options
  PROVE  AutoAllow(options) \in IF Grants(options) = {} THEN {0} \cup DOMAIN options ELSE Grants(options)
  <1> DEFINE always == {i \in DOMAIN options : options[i] = "allow_always"}
             once == {i \in DOMAIN options : options[i] = "allow_once"}
  <1>1. options \in Seq(STRING) /\ always \in SUBSET Nat /\ once \in SUBSET Nat
    BY AcpSessionAssumption
  <1>2. always \cup once = Grants(options) /\ Grants(options) \subseteq DOMAIN options
    BY DEF Grants
  <1>3. (always # {} => FirstOf(always) \in always) /\ (once # {} => FirstOf(once) \in once)
    BY <1>1, Least
  <1>4. options # << >> => 1 \in DOMAIN options
    BY <1>1
  <1>5. AutoAllow(options) = IF always # {} THEN FirstOf(always)
                             ELSE IF once # {} THEN FirstOf(once)
                             ELSE IF options = << >> THEN 0 ELSE 1
    BY DEF AutoAllow
  <1> HIDE DEF always, once
  <1> QED
    BY <1>2, <1>3, <1>4, <1>5

\* An option that is shown has a key and a label.
HasNames(questions) == \A i \in DOMAIN questions : \A o \in DOMAIN questions[i].options :
  questions[i].options[o].key # "" /\ questions[i].options[o].label # ""

LEMMA NamesAreThere ==
  ASSUME NEW k, NEW request
  PROVE  HasNames(Parse(k, request))
  <1>1. DOMAIN Confirm = {1} /\ Confirm[1].key = "ok" /\ Confirm[1].label = "OK"
    BY DEF Confirm
  <1>2. ASSUME NEW options, NEW x \in DOMAIN GrokOptions(options)
        PROVE  GrokOptions(options)[x].key # "" /\ GrokOptions(options)[x].label # ""
    BY <1>1 DEF GrokOptions, OrConfirm
  <1>3. ASSUME NEW options, NEW x \in DOMAIN CursorOptions(options)
        PROVE  CursorOptions(options)[x].key # "" /\ CursorOptions(options)[x].label # ""
    BY <1>1 DEF CursorOptions, OrConfirm
  <1> SUFFICES ASSUME NEW i \in DOMAIN Parse(k, request), NEW o \in DOMAIN Parse(k, request)[i].options
               PROVE  /\ Parse(k, request)[i].options[o].key # ""
                      /\ Parse(k, request)[i].options[o].label # ""
    BY DEF HasNames
  <1>4. CASE k = "grok"
    <2>1. Parse(k, request)[i].options = GrokOptions(request.questions[i].options)
      BY <1>4 DEF Parse, GrokParse
    <2> QED
      BY <1>2, <2>1
  <1>5. CASE k # "grok"
    <2>1. Parse(k, request)[i].options = CursorOptions(request.questions[i].options)
      BY <1>5 DEF Parse, CursorParse
    <2> QED
      BY <1>3, <2>1
  <1> QED
    BY <1>4, <1>5

\* The user picks options that the question has, or types something.
LEMMA ChoiceParts ==
  ASSUME NEW questions, NEW choice \in UserChoices(questions), NEW i \in DOMAIN questions
  PROVE  /\ choice.picked[i] \subseteq KeysOf(questions[i])
         /\ choice.text # "" => choice.picked[i] = {}
  <1>1. CASE choice \in Forms(questions)
    <2>1. PICK c \in [DOMAIN questions -> SUBSET UNION {KeysOf(questions[j]) : j \in DOMAIN questions}] :
            /\ \A j \in DOMAIN questions : c[j] \subseteq KeysOf(questions[j])
            /\ choice = [picked |-> c, text |-> "", at |-> 0]
      BY <1>1, Zenon DEF Forms
    <2>2. choice.picked = c /\ choice.text = ""
      BY <2>1
    <2> QED
      BY <2>1, <2>2
  <1>2. CASE choice \in Typed(questions)
    <2>1. DOMAIN questions # {}
      OBVIOUS
    <2>2. PICK t \in Texts, a \in {0} \cup {j \in DOMAIN questions : ~questions[j].multi} :
            choice = [picked |-> [j \in DOMAIN questions |-> {}], text |-> t, at |-> a]
      <3>1. Typed(questions) =
              {[picked |-> [j \in DOMAIN questions |-> {}], text |-> t, at |-> a] :
                 t \in Texts, a \in {0} \cup {j \in DOMAIN questions : ~questions[j].multi}}
        BY <2>1 DEF Typed
      <3> QED
        BY <1>2, <3>1
    <2>3. choice.picked = [j \in DOMAIN questions |-> {}]
      BY <2>2
    <2> QED
      BY <2>3
  <1> QED
    BY <1>1, <1>2 DEF UserChoices

\* Options that can be told apart are found by their keys and their labels.
LEMMA OptionIsFound ==
  ASSUME NEW k, NEW questions, Unambiguous(k, questions), NEW i \in DOMAIN questions,
         NEW o \in DOMAIN questions[i].options
  PROVE  /\ LabelFor(questions[i], questions[i].options[o].key) = questions[i].options[o].label
         /\ \A text \in {questions[i].options[o].key, questions[i].options[o].label} :
              MatchOption(questions[i], text) = questions[i].options[o].key
  <1> DEFINE options == questions[i].options
  <1>1. \A x \in DOMAIN options : x # o =>
          {options[x].key, options[x].label} \cap {options[o].key, options[o].label} = {}
    BY DEF Unambiguous
  <1>2. LabelFor(questions[i], options[o].key) = options[o].label
    <2>1. {x \in DOMAIN options : options[x].key = options[o].key} = {o}
      BY <1>1
    <2> QED
      BY <2>1, OnlyOne DEF LabelFor
  <1>3. ASSUME NEW text \in {options[o].key, options[o].label}
        PROVE  MatchOption(questions[i], text) = options[o].key
    <2> DEFINE same == {x \in DOMAIN options : text \in {options[x].key, options[x].label}}
    <2>1. same = {o}
      BY <1>1
    <2>2. MatchOption(questions[i], text) = IF same = {} THEN text ELSE options[FirstOf(same)].key
      BY DEF MatchOption
    <2> QED
      BY <2>1, <2>2, OnlyOne
  <1> QED
    BY <1>2, <1>3

\* The labels of what was picked.
LEMMA ValuesPicked ==
  ASSUME NEW k, NEW questions, Unambiguous(k, questions), NEW i \in DOMAIN questions,
         NEW choice \in UserChoices(questions), choice.picked[i] # {}
  PROVE  ValuesOf(questions, choice, i) = {option.label : option \in Picked(questions[i], choice.picked[i])}
  <1> DEFINE options == questions[i].options
             at == {x \in DOMAIN options : options[x].key \in choice.picked[i]}
  <1>1. ValuesOf(questions, choice, i) = {LabelFor(questions[i], key) : key \in choice.picked[i]}
    BY DEF ValuesOf
  <1>2. choice.picked[i] = {options[x].key : x \in at}
    <2>1. choice.picked[i] \subseteq {options[x].key : x \in DOMAIN options}
      <3>1. choice.picked[i] \subseteq KeysOf(questions[i])
        BY ChoiceParts
      <3>2. KeysOf(questions[i]) = {options[x].key : x \in DOMAIN options}
        BY DEF KeysOf
      <3> QED
        BY <3>1, <3>2
    <2> QED
      BY <2>1
  <1>3. \A x \in at : LabelFor(questions[i], options[x].key) = options[x].label
    BY OptionIsFound
  <1>4. {option.label : option \in Picked(questions[i], choice.picked[i])} = {options[x].label : x \in at}
    BY DEF Picked
  <1> HIDE DEF at, options
  <1>5. {LabelFor(questions[i], key) : key \in choice.picked[i]} = {LabelFor(questions[i], options[x].key) : x \in at}
    BY <1>2
  <1> QED
    BY <1>1, <1>3, <1>4, <1>5

\* The agent hears what the user chose, when it can tell the questions apart.
LEMMA HeardByGrok ==
  ASSUME NEW questions, NEW choice \in UserChoices(questions), Unambiguous("grok", questions)
  PROVE  IsHeard("grok", questions, choice)
  <1> SUFFICES ASSUME NEW i \in DOMAIN questions
               PROVE  LET heard == Heard("grok", questions, choice, i) IN
                        IF choice.text = ""
                        THEN heard = IF choice.picked[i] = {} THEN {""}
                                     ELSE {option.label : option \in Picked(questions[i], choice.picked[i])}
                        ELSE heard = {choice.text}
    BY DEF IsHeard, Said, Silence
  <1> DEFINE p == questions[i].prompt
  <1>1. {j \in DOMAIN questions : questions[j].prompt = p} = {i}
    BY DEF Unambiguous
  <1>2. GrokAnswer(questions, choice)[p] = ValuesOf(questions, choice, i)
    BY <1>1, OnlyOne DEF GrokAnswer
  <1>3. Heard("grok", questions, choice, i) = ValuesOf(questions, choice, i)
    BY <1>2 DEF Heard
  <1>4. choice.picked[i] = {} => ValuesOf(questions, choice, i) = {choice.text}
    BY DEF ValuesOf
  <1>5. choice.picked[i] # {} =>
          ValuesOf(questions, choice, i) = {option.label : option \in Picked(questions[i], choice.picked[i])}
    BY ValuesPicked
  <1>6. choice.text # "" => choice.picked[i] = {}
    BY ChoiceParts
  <1> QED
    BY <1>3, <1>4, <1>5, <1>6

LEMMA HeardByCursor ==
  ASSUME NEW questions, HasNames(questions), NEW choice \in UserChoices(questions),
         Unambiguous("cursor", questions)
  PROVE  IsHeard("cursor", questions, choice)
  <1> SUFFICES ASSUME NEW i \in DOMAIN questions
               PROVE  LET heard == Heard("cursor", questions, choice, i) IN
                        IF choice.text = ""
                        THEN heard = IF choice.picked[i] = {} THEN {}
                                     ELSE {option.key : option \in Picked(questions[i], choice.picked[i])}
                        ELSE \/ heard = {choice.text}
                             \/ \E option \in Named(questions[i], choice.text) : heard = {option.key}
    BY DEF IsHeard, Said, Silence
  <1> DEFINE d == questions[i].id
             options == questions[i].options
             values == ValuesOf(questions, choice, i)
  <1>1. {j \in DOMAIN questions : questions[j].id = d} = {i}
    BY DEF Unambiguous
  <1>2. CursorAnswer(questions, choice)[d] = {MatchOption(questions[i], v) : v \in values} \ {""}
    BY <1>1, OnlyOne DEF CursorAnswer
  <1>3. Heard("cursor", questions, choice, i) = {MatchOption(questions[i], v) : v \in values} \ {""}
    BY <1>2 DEF Heard
  <1>4. \A o \in DOMAIN options : options[o].key # "" /\ options[o].label # ""
    BY DEF HasNames
  <1>5. CASE choice.picked[i] # {}
    <2> DEFINE picked == Picked(questions[i], choice.picked[i])
    <2>1. values = {option.label : option \in picked} /\ choice.text = ""
      BY <1>5, ValuesPicked, ChoiceParts
    <2>2. \A option \in picked : MatchOption(questions[i], option.label) = option.key /\ option.key # ""
      <3>1. \A o \in DOMAIN options : MatchOption(questions[i], options[o].label) = options[o].key
        BY OptionIsFound
      <3>2. \A option \in picked : \E o \in DOMAIN options : option = options[o]
        BY DEF Picked
      <3> QED
        BY <1>4, <3>1, <3>2
    <2> HIDE DEF picked, values
    <2>3. {MatchOption(questions[i], v) : v \in values} \ {""} = {option.key : option \in picked}
      BY <2>1, <2>2
    <2> QED
      BY <1>3, <1>5, <2>1, <2>3 DEF picked, values
  <1>6. CASE choice.picked[i] = {}
    <2> DEFINE same == {o \in DOMAIN options : choice.text \in {options[o].key, options[o].label}}
               match == MatchOption(questions[i], choice.text)
    <2>1. values = {choice.text}
      BY <1>6 DEF ValuesOf
    <2>2. Heard("cursor", questions, choice, i) = {match} \ {""}
      BY <1>3, <2>1
    <2>3. CASE same = {}
      <3>1. match = choice.text
        BY <2>3 DEF MatchOption
      <3> QED
        BY <1>6, <2>2, <3>1
    <2>4. CASE same # {}
      <3>1. PICK o \in DOMAIN options : choice.text \in {options[o].key, options[o].label}
        BY <2>4
      <3>2. match = options[o].key /\ choice.text # ""
        <4>1. \A text \in {options[o].key, options[o].label} : MatchOption(questions[i], text) = options[o].key
          BY OptionIsFound
        <4> QED
          BY <1>4, <3>1, <4>1
      <3>3. options[o] \in Named(questions[i], choice.text)
        BY <3>1 DEF Named
      <3> QED
        BY <1>4, <2>2, <3>2, <3>3
    <2> QED
      BY <2>3, <2>4
  <1> QED
    BY <1>5, <1>6

LEMMA IsHeardOfAll ==
  ASSUME kind \in Kinds, NEW request, NEW choice \in UserChoices(Parse(kind, request)),
         Unambiguous(kind, Parse(kind, request))
  PROVE  IsHeard(kind, Parse(kind, request), choice)
  <1>1. kind = "grok" \/ kind = "cursor"
    BY AcpSessionAssumption
  <1> QED
    BY <1>1, HeardByGrok, HeardByCursor, NamesAreThere

\* Whatever the user does, what the agent hears of it is true.
LEMMA RepliedTruly ==
  ASSUME TypeOK, NEW r \in Runs, Reply(r)
  PROVE  Respond(proc[r], TRUE)
  <1>1. kind \in Kinds
    BY DEF TypeOK
  <1>2. ASSUME NEW qs \in Questions, NEW choice \in UserChoices(Parse(kind, qs)),
               Respond(proc[r], Unambiguous(kind, Parse(kind, qs)) =>
                                IsHeard(kind, Parse(kind, qs), choice))
        PROVE  Respond(proc[r], TRUE)
    <2>1. Unambiguous(kind, Parse(kind, qs)) => IsHeard(kind, Parse(kind, qs), choice)
      BY <1>1, IsHeardOfAll
    <2> QED
      BY <1>2, <2>1 DEF Respond
  <1> QED
    BY <1>2 DEF Reply
\* The type of each variable.
LEMMA Parts ==
  ASSUME TypeOK
  PROVE  /\ kind \in Kinds /\ cur \in Procs \cup {0} /\ asks \in 0..MaxAsks
         /\ os \in [Procs -> {"none", "alive", "gone"}]
         /\ dead \in [Procs -> BOOLEAN] /\ told \in [Procs -> BOOLEAN] /\ sid \in [Procs -> BOOLEAN]
         /\ stdin \in [Procs -> Seq(Runs \X (Calls \cup {"cancel"}))]
         /\ stdout \in [Procs -> Seq(Lines)]
         /\ turn \in [Procs -> Runs \cup {0}] /\ runCh \in [Procs -> Runs \cup {0}]
         /\ reader \in [Procs -> Runs \cup {0}]
         /\ pending \in [Procs -> SUBSET (Runs \X Calls)]
         /\ ask \in [Procs -> {"none", "sent", "sending", "queued"}]
         /\ pc \in [Runs -> Places] /\ proc \in [Runs -> Procs \cup {0}]
         /\ loop \in [Runs -> {"none", "reading", "asking", "left", "over"}]
         /\ chan \in [Runs -> Seq(Events)] /\ \A r \in Runs : Len(chan[r]) <= Capacity
         /\ closed \in [Runs -> BOOLEAN] /\ dropped \in [Runs -> BOOLEAN]
         /\ stopped \in [Runs -> BOOLEAN]
         /\ card \in [Runs -> {"running"} \cup Ends]
         /\ twice \in BOOLEAN /\ faithful \in BOOLEAN /\ panicked \in BOOLEAN /\ answered \subseteq Runs
  BY DEF TypeOK, Places, Early, Late, Calls

LEMMA PlacesAre ==
  Places = {"idle", "spawned", "unspawned", "register", "answered", "failed", "leaving",
            "gone", "refused"} \cup Calls
  BY DEF Places, Early, Late, Calls

\* An event that is sent arrives, unless the channel is closed or full.
LEMMA Sent ==
  ASSUME TypeOK, NEW r \in Runs \cup {0}, NEW event \in Events, SafeSend(r, event)
  PROVE  /\ chan' \in [Runs -> Seq(Events)] /\ \A x \in Runs : Len(chan'[x]) <= Capacity
         /\ dropped' \in [Runs -> BOOLEAN] /\ \A x \in Runs : dropped[x] => dropped'[x]
         /\ \A x \in Runs : \/ chan'[x] = chan[x]
                            \/ x = r /\ ~closed[r] /\ chan'[x] = Append(chan[x], event)
         /\ r # 0 => closed[r] \/ dropped'[r] \/ chan'[r] = Append(chan[r], event)
  <1>1. /\ chan \in [Runs -> Seq(Events)] /\ \A x \in Runs : Len(chan[x]) \in Nat /\ Len(chan[x]) <= Capacity
        /\ dropped \in [Runs -> BOOLEAN] /\ Capacity \in Nat /\ 0 \notin Runs
    BY Parts, Constants
  <1>2. ASSUME NEW x \in Runs
        PROVE  Append(chan[x], event) \in Seq(Events) /\ Len(Append(chan[x], event)) = Len(chan[x]) + 1
    BY <1>1, Grown
  <1>3. CASE r # 0 /\ Room(r) /\ ~closed[r]
    <2>1. chan' = [chan EXCEPT ![r] = Append(@, event)] /\ dropped' = dropped
      BY <1>3 DEF SafeSend
    <2>2. Len(chan[r]) + 1 <= Capacity
      BY <1>1, <1>3 DEF Room
    <2> QED
      BY <1>1, <1>2, <1>3, <2>1, <2>2
  <1>4. CASE ~(r # 0 /\ Room(r) /\ ~closed[r])
    <2>1. chan' = chan /\ dropped' = IF r # 0 /\ ~Room(r) THEN [dropped EXCEPT ![r] = TRUE] ELSE dropped
      BY <1>4 DEF SafeSend
    <2> QED
      BY <1>1, <1>4, <2>1
  <1> QED
    BY <1>3, <1>4

\* A process that is killed, or dies, is gone, and the others stay.
LEMMA GoneTypes ==
  ASSUME TypeOK, NEW p \in Procs \cup {0}, Gone(p)
  PROVE  /\ os' \in [Procs -> {"none", "alive", "gone"}]
         /\ stdin' \in [Procs -> Seq(Runs \X (Calls \cup {"cancel"}))]
         /\ turn' \in [Procs -> Runs \cup {0}]
         /\ ask' \in [Procs -> {"none", "sent", "sending", "queued"}]
  BY Parts, EmptySeq DEF Gone

\* The steps of the agent keep the types, ...
LEMMA AgentTypes ==
  ASSUME TypeOK, NEW p \in Procs, Agent(p)
  PROVE  TypeOK'
  <1>1. ASSUME NEW k, NEW r \in Runs \cup {0}, NEW ok \in BOOLEAN, Says(p, k, r, ok),
               k \in Calls \cup Chunks \cup {"question", "permission", "other"}
        PROVE  stdout' \in [Procs -> Seq(Lines)]
    <2>1. [kind |-> k, run |-> r, ok |-> ok] \in Lines
      BY <1>1 DEF Lines
    <2> QED
      BY <1>1, <2>1, Parts, Grown DEF Says
  <1>2. ASSUME Answer(p) PROVE TypeOK'
    <2> DEFINE r == stdin[p][1][1]
               call == stdin[p][1][2]
    <2>1. stdin[p] \in Seq(Runs \X (Calls \cup {"cancel"})) /\ stdin[p] # << >>
      BY <1>2, Parts DEF Answer
    <2>2. /\ r \in Runs /\ call \in Calls \cup {"cancel"}
          /\ stdin' \in [Procs -> Seq(Runs \X (Calls \cup {"cancel"}))]
      <3>1. /\ Tail(stdin[p]) \in Seq(Runs \X (Calls \cup {"cancel"}))
            /\ stdin[p][1] \in Runs \X (Calls \cup {"cancel"})
        BY <2>1, HeadTailProperties
      <3>2. stdin' = [stdin EXCEPT ![p] = Tail(@)]
        BY <1>2 DEF Answer
      <3> QED
        BY <3>1, <3>2, Parts
    <2> HIDE DEF r, call
    <2>3. \/ call # "cancel" /\ Says(p, call, r, FALSE) /\ UNCHANGED turn
          \/ call \in Calls \ {"prompt"} /\ Says(p, call, r, TRUE) /\ UNCHANGED turn
          \/ call = "prompt" /\ turn' = [turn EXCEPT ![p] = r] /\ UNCHANGED stdout
          \/ call = "cancel" /\ UNCHANGED <<stdout, turn>>
      BY <1>2 DEF Answer, r, call
    <2>4. stdout' \in [Procs -> Seq(Lines)]
      <3>1. \/ call \in Calls /\ Says(p, call, r, FALSE)
            \/ call \in Calls /\ Says(p, call, r, TRUE)
            \/ UNCHANGED stdout
        BY <2>2, <2>3
      <3> QED
        BY <1>1, <2>2, <3>1, Parts
    <2>5. turn' \in [Procs -> Runs \cup {0}]
      BY <2>2, <2>3, Parts
    <2> QED
      BY <1>2, <2>2, <2>4, <2>5 DEF Answer, AgentOnly, TypeOK, clientVars, askVars, chanVars, runVars, loopVars
  <1>3. ASSUME Settle(p) PROVE TypeOK'
    <2>1. turn[p] \in Runs
      BY <1>3, Parts DEF Settle
    <2>2. stdout' \in [Procs -> Seq(Lines)]
      BY <1>1, <1>3, <2>1 DEF Settle, Calls
    <2>3. turn' \in [Procs -> Runs \cup {0}] /\ answered' \subseteq Runs
      BY <1>3, <2>1, Parts DEF Settle
    <2>4. UNCHANGED <<kind, cur, os, sid, dead, told, pending, runCh, reader, stdin, ask, twice, faithful,
                      asks, chan, closed, dropped, pc, proc, loop, card, stopped, panicked>>
      BY <1>3 DEF Settle, AgentOnly, clientVars, askVars, chanVars, runVars, loopVars
    <2> QED
      BY <2>2, <2>3, <2>4 DEF TypeOK
  <1>4. ASSUME NEW q \in {"question", "permission", "other"}, Ask(p, q) PROVE TypeOK'
    <2>1. stdout' \in [Procs -> Seq(Lines)]
      BY <1>1, <1>4 DEF Ask
    <2>2. asks' \in 0..MaxAsks /\ ask' \in [Procs -> {"none", "sent", "sending", "queued"}]
      BY <1>4, Parts, Constants DEF Ask
    <2> QED
      BY <1>4, <2>1, <2>2 DEF Ask, AgentOnly, TypeOK, clientVars, chanVars, runVars, loopVars
  <1>5. ASSUME NEW c \in Chunks, Chat(p, c) PROVE TypeOK'
    <2>1. stdout' \in [Procs -> Seq(Lines)]
      BY <1>1, <1>5, Parts DEF Chat
    <2>2. asks' \in 0..MaxAsks
      BY <1>5, Parts, Constants DEF Chat
    <2> QED
      BY <1>5, <2>1, <2>2 DEF Chat, AgentOnly, TypeOK, clientVars, chanVars, runVars, loopVars
  <1>6. ASSUME Die(p) PROVE TypeOK'
    <2>1. Gone(p) /\ UNCHANGED <<kind, cur, sid, stdout, clientVars, runCh, reader, twice, faithful, asks,
                                 chanVars, runVars, loopVars, answered, panicked>>
      BY <1>6 DEF Die
    <2> QED
      BY <2>1, GoneTypes DEF TypeOK, clientVars, chanVars, runVars, loopVars
  <1> QED
    BY <1>2, <1>3, <1>4, <1>5, <1>6 DEF Agent

\* ... and those of the goroutines that read and wait for a process, ...
LEMMA LineRead ==
  ASSUME TypeOK, NEW p \in Procs, stdout[p] # << >>
  PROVE  /\ Head(stdout[p]) \in Lines /\ Tail(stdout[p]) \in Seq(Lines)
         /\ Head(stdout[p]).run \in Runs \cup {0} /\ Head(stdout[p]).ok \in BOOLEAN
         /\ Head(stdout[p]).kind \in Calls \cup Chunks \cup {"question", "permission", "other"}
  <1>1. Head(stdout[p]) \in Lines /\ Tail(stdout[p]) \in Seq(Lines)
    BY Parts, HeadTailProperties
  <1> QED
    BY <1>1 DEF Lines

LEMMA ReadCases ==
  ASSUME NEW p \in Procs, Read(p), NEW line, line = Head(stdout[p])
  PROVE  \/ line.kind \in Chunks /\ SafeSend(runCh[p], EventOf(line.kind))
            /\ UNCHANGED <<pending, pc, sid, reader, ask, twice, faithful>>
         \/ line.kind \in Calls /\ Response(p, line) /\ UNCHANGED <<chan, dropped>>
         \/ /\ line.kind \in {"question", "permission", "other"} /\ Respond(p, TRUE)
            /\ UNCHANGED <<pending, pc, sid, reader, chan, dropped>>
         \/ line.kind = "question" /\ runCh[p] # 0 /\ Question(p) /\ UNCHANGED <<chan, dropped>>
  <1>1. Refuse(p) => Respond(p, TRUE) /\ UNCHANGED <<pending, pc, sid, reader>>
    BY DEF Refuse
  <1>2. Grant(p) => Respond(p, TRUE) /\ UNCHANGED <<pending, pc, sid, reader>>
    BY Granted DEF Grant, Respond
  <1> QED
    BY <1>1, <1>2 DEF Read, Update

LEMMA RespondTypes ==
  ASSUME TypeOK, NEW p \in Procs \cup {0}, Respond(p, TRUE)
  PROVE  /\ ask' \in [Procs -> {"none", "sent", "sending", "queued"}]
         /\ twice' \in BOOLEAN /\ faithful' = faithful
  BY Parts DEF Respond

LEMMA ReaderTypes ==
  ASSUME TypeOK, RunInv, NEW p \in Procs, Reader(p)
  PROVE  TypeOK'
  <1>1. ASSUME Read(p) PROVE TypeOK'
    <2> DEFINE line == Head(stdout[p])
    <2>1. /\ line \in Lines /\ line.run \in Runs \cup {0} /\ line.ok \in BOOLEAN
          /\ stdout' \in [Procs -> Seq(Lines)]
      <3>1. stdout[p] # << >> /\ stdout' = [stdout EXCEPT ![p] = Tail(@)]
        BY <1>1 DEF Read
      <3> QED
        BY <3>1, LineRead, Parts
    <2>2. UNCHANGED <<kind, cur, os, stdin, turn, dead, told, runCh, asks, closed,
                      proc, loopVars, answered, panicked>>
      BY <1>1 DEF Read
    <2>3. /\ chan' \in [Runs -> Seq(Events)] /\ \A r \in Runs : Len(chan'[r]) <= Capacity
          /\ dropped' \in [Runs -> BOOLEAN] /\ sid' \in [Procs -> BOOLEAN]
          /\ pending' \in [Procs -> SUBSET (Runs \X Calls)] /\ pc' \in [Runs -> Places]
          /\ reader' \in [Procs -> Runs \cup {0}]
          /\ ask' \in [Procs -> {"none", "sent", "sending", "queued"}]
          /\ twice' \in BOOLEAN /\ faithful' \in BOOLEAN
      <3> HIDE DEF line
      <3>1. CASE line.kind \in Chunks /\ SafeSend(runCh[p], EventOf(line.kind))
                 /\ UNCHANGED <<pending, pc, sid, reader, ask, twice, faithful>>
        BY <3>1, Sent, Constants, Parts
      <3>2. CASE line.kind \in Calls /\ Response(p, line) /\ UNCHANGED <<chan, dropped>>
        <4>1. line.run \in Runs => After(line.run, line.kind, line.ok) \in Places
          BY <2>1, <3>2, AfterPlaces
        <4>2. UNCHANGED <<reader, ask, twice, faithful>>
          BY <3>2 DEF Response
        <4>3. pc' \in [Runs -> Places]
          BY <3>2, <4>1, Parts DEF Response
        <4>4. pending' \in [Procs -> SUBSET (Runs \X Calls)]
          BY <3>2, Parts DEF Response
        <4>5. sid' \in [Procs -> BOOLEAN]
          BY <3>2, Parts DEF Response
        <4> QED
          BY <3>2, <4>2, <4>3, <4>4, <4>5, Parts
      <3>3. CASE Respond(p, TRUE) /\ UNCHANGED <<pending, pc, sid, reader, chan, dropped>>
        BY <3>3, RespondTypes, Parts
      <3>4. CASE Question(p) /\ UNCHANGED <<chan, dropped>>
        BY <3>4, Parts DEF Question
      <3> QED
        BY <1>1, ReadCases, <3>1, <3>2, <3>3, <3>4 DEF line
    <2>4. UNCHANGED <<kind, cur, os, stdin, turn, dead, told, runCh, asks, closed,
                      proc, loop, card, stopped, answered, panicked>>
      BY <2>2 DEF loopVars
    <2>5. stdout' \in [Procs -> Seq(Lines)]
      BY <2>1
    <2> HIDE DEF line
    <2>6. {twice', faithful', panicked'} \subseteq BOOLEAN
      BY <2>3, <2>4, Parts
    <2> QED
      BY <2>3, <2>4, <2>5, <2>6, PlacesAre DEF TypeOK
  <1>2. ASSUME SendAsk(p) PROVE TypeOK'
    <2>1. reader[p] \in Runs /\ "ask" \in Events
      BY <1>2, Parts DEF SendAsk, Events
    <2>2. /\ reader' \in [Procs -> Runs \cup {0}] /\ panicked' \in BOOLEAN
          /\ ask' \in [Procs -> {"none", "sent", "sending", "queued"}]
      <3>1. /\ reader' = [reader EXCEPT ![p] = 0]
            /\ panicked' = TRUE \/ panicked' = panicked
            /\ ask' = ask \/ ask' = [ask EXCEPT ![p] = IF @ = "sending" THEN "queued" ELSE @]
        BY <1>2 DEF SendAsk
      <3> QED
        BY <3>1, Parts
    <2>3. chan' \in [Runs -> Seq(Events)] /\ \A r \in Runs : Len(chan'[r]) <= Capacity
      <3>1. chan[reader[p]] \in Seq(Events) /\ Append(chan[reader[p]], "ask") \in Seq(Events)
            /\ Len(Append(chan[reader[p]], "ask")) = Len(chan[reader[p]]) + 1
            /\ Len(chan[reader[p]]) \in Nat
        BY <2>1, Parts, Grown
      <3>2. ~closed[reader[p]] => Len(chan[reader[p]]) + 1 <= Capacity
        BY <1>2, <3>1, Constants DEF SendAsk, Room
      <3>3. chan' = IF closed[reader[p]] THEN chan ELSE [chan EXCEPT ![reader[p]] = Append(@, "ask")]
        BY <1>2 DEF SendAsk
      <3> QED
        BY <2>1, <3>1, <3>2, <3>3, Parts
    <2>4. UNCHANGED <<kind, cur, procVars, clientVars, runCh, twice, faithful, asks,
                      closed, dropped, runVars, loopVars, answered>>
      BY <1>2 DEF SendAsk
    <2> QED
      BY <2>2, <2>3, <2>4 DEF TypeOK, procVars, clientVars, runVars, loopVars
  <1>3. ASSUME AskTimesOut(p) PROVE TypeOK'
    <2>1. reader' \in [Procs -> Runs \cup {0}]
      BY <1>3, Parts DEF AskTimesOut
    <2>2. /\ Respond(p, TRUE)
          /\ UNCHANGED <<kind, cur, os, sid, stdin, stdout, turn, dead, told, pending, runCh, asks,
                         chan, closed, dropped, pc, proc, loop, card, stopped, answered, panicked>>
      BY <1>3 DEF AskTimesOut, procVars, clientVars, chanVars, runVars, loopVars
    <2>3. /\ ask' \in [Procs -> {"none", "sent", "sending", "queued"}]
          /\ twice' \in BOOLEAN /\ faithful' = faithful
      BY <2>2, RespondTypes
    <2> QED
      BY <2>1, <2>2, <2>3 DEF TypeOK
  <1>4. ASSUME Wait(p) PROVE TypeOK'
    <2>1. dead' \in [Procs -> BOOLEAN] /\ pending' \in [Procs -> SUBSET (Runs \X Calls)]
      BY <1>4, Parts DEF Wait
    <2>2. pc' \in [Runs -> Places]
      <3>1. ASSUME NEW r \in Runs, NEW c \in Calls, <<r, c>> \in pending[p]
            PROVE  After(r, pc[r], FALSE) \in Places
        <4>1. pc[r] = c
          BY <3>1 DEF RunInv
        <4> QED
          BY <4>1, AfterPlaces
      <3>2. pc' = [r \in Runs |-> IF \E c \in Calls : <<r, c>> \in pending[p]
                                  THEN After(r, pc[r], FALSE) ELSE pc[r]]
        BY <1>4 DEF Wait
      <3> QED
        BY <3>1, <3>2, Parts
    <2>3. stdout' \in [Procs -> Seq(Lines)]
      <3>1. stdout' = stdout \/ stdout' = [stdout EXCEPT ![p] = << >>]
        BY <1>4 DEF Wait
      <3>2. << >> \in Seq(Lines) /\ stdout \in [Procs -> Seq(Lines)]
        BY Parts, EmptySeq
      <3> QED
        BY <3>1, <3>2
    <2>4. UNCHANGED <<kind, cur, os, sid, stdin, turn, told, runCh, reader, askVars, chanVars,
                      proc, loopVars, answered, panicked>>
      BY <1>4 DEF Wait
    <2> QED
      BY <2>1, <2>2, <2>3, <2>4, PlacesAre DEF TypeOK, askVars, chanVars, loopVars
  <1>5. ASSUME Tell(p) PROVE TypeOK'
    <2>1. told' \in [Procs -> BOOLEAN]
      BY <1>5, Parts DEF Tell
    <2>2. /\ chan' \in [Runs -> Seq(Events)] /\ \A r \in Runs : Len(chan'[r]) <= Capacity
          /\ dropped' \in [Runs -> BOOLEAN]
      <3>1. SafeSend(runCh[p], "error") /\ "error" \in Events /\ runCh[p] \in Runs \cup {0}
        BY <1>5, Parts DEF Tell, Events, Ends, Answers
      <3> QED
        BY <3>1, Sent
    <2>3. UNCHANGED <<kind, cur, procVars, dead, pending, runCh, reader, askVars, closed,
                      runVars, loopVars, answered, panicked>>
      BY <1>5 DEF Tell
    <2> QED
      BY <2>1, <2>2, <2>3 DEF TypeOK, procVars, askVars, runVars, loopVars
  <1> QED
    BY <1>1, <1>2, <1>3, <1>4, <1>5 DEF Reader

\* ... and of a run, ...
LEMMA RunTypes ==
  ASSUME TypeOK, NEW r \in Runs, Begin(r) \/ Run(r)
  PROVE  TypeOK'
  <1>1. ASSUME Begin(r) PROVE TypeOK'
    <2>1. pc' \in [Runs -> Places]
      BY <1>1, Parts, PlacesAre DEF Begin, Goto, Calls
    <2>2. UNCHANGED <<kind, sid, stdout, clientVars, runCh, reader, twice, faithful, asks, chanVars,
                      loopVars, answered, panicked>>
      BY <1>1 DEF Begin
    <2>3. CASE Reusable /\ proc' = [proc EXCEPT ![r] = cur] /\ UNCHANGED <<cur, os, stdin, turn, ask>>
      <3>1. proc' \in [Runs -> Procs \cup {0}]
        BY <2>3, Parts
      <3> QED
        BY <2>1, <2>2, <2>3, <3>1, PlacesAre DEF TypeOK, clientVars, chanVars, loopVars
    <2>4. CASE \E p \in Procs :
                 /\ cur' = 0 /\ proc' = [proc EXCEPT ![r] = p]
                 /\ os' = [q \in Procs |-> IF q = p THEN "alive" ELSE IF q = cur THEN "gone" ELSE os[q]]
                 /\ stdin' = [q \in Procs |-> IF q = cur THEN << >> ELSE stdin[q]]
                 /\ turn' = [q \in Procs |-> IF q = cur THEN 0 ELSE turn[q]]
                 /\ ask' = [q \in Procs |-> IF q = cur THEN "none" ELSE ask[q]]
      <3>1. cur' \in Procs \cup {0} /\ proc' \in [Runs -> Procs \cup {0}]
            /\ os' \in [Procs -> {"none", "alive", "gone"}]
        BY <2>4, Parts
      <3>2. stdin' \in [Procs -> Seq(Runs \X (Calls \cup {"cancel"}))]
        BY <2>4, Parts, EmptySeq
      <3>3. turn' \in [Procs -> Runs \cup {0}] /\ ask' \in [Procs -> {"none", "sent", "sending", "queued"}]
        BY <2>4, Parts
      <3> QED
        BY <2>1, <2>2, <3>1, <3>2, <3>3, PlacesAre DEF TypeOK, clientVars, chanVars, loopVars
    <2> QED
      BY <1>1, <2>3, <2>4 DEF Begin
  <1>2. ASSUME NEW call \in Calls, Call(r, call) PROVE TypeOK'
    <2>1. pc' \in [Runs -> Places]
      <3>1. pc' = pc \/ pc' = [pc EXCEPT ![r] = After(r, call, FALSE)]
        BY <1>2 DEF Call, Goto
      <3>2. After(r, call, FALSE) \in Places /\ pc \in [Runs -> Places]
        BY Parts, AfterPlaces
      <3> QED
        BY <3>1, <3>2
    <2>2. stdin' \in [Procs -> Seq(Runs \X (Calls \cup {"cancel"}))]
      <3>1. stdin' = stdin \/ stdin' = [stdin EXCEPT ![proc[r]] = Append(@, <<r, call>>)]
        BY <1>2 DEF Call
      <3>2. ASSUME NEW p \in Procs
            PROVE  Append(stdin[p], <<r, call>>) \in Seq(Runs \X (Calls \cup {"cancel"}))
        <4>1. /\ stdin[p] \in Seq(Runs \X (Calls \cup {"cancel"}))
              /\ <<r, call>> \in Runs \X (Calls \cup {"cancel"})
          BY Parts
        <4> QED
          BY <4>1, AppendProperties
      <3>3. stdin \in [Procs -> Seq(Runs \X (Calls \cup {"cancel"}))]
        BY Parts
      <3> QED
        BY <3>1, <3>2, <3>3
    <2>3. pending' \in [Procs -> SUBSET (Runs \X Calls)]
      <3>1. pending' = pending \/ pending' = [pending EXCEPT ![proc[r]] = @ \cup {<<r, call>>}]
        BY <1>2 DEF Call
      <3>2. pending \in [Procs -> SUBSET (Runs \X Calls)]
        BY Parts
      <3> QED
        BY <3>1, <3>2
    <2>4. UNCHANGED <<kind, cur, os, sid, stdout, turn, dead, told, runCh, reader, askVars,
                      chanVars, proc, loopVars, answered, panicked>>
      BY <1>2 DEF Call
    <2> QED
      BY <2>1, <2>2, <2>3, <2>4, PlacesAre DEF TypeOK, askVars, chanVars, loopVars
  <1>3. ASSUME Spawned(r) PROVE TypeOK'
    <2>1. pc' \in [Runs -> Places] /\ cur' \in Procs \cup {0}
      BY <1>3, Parts, PlacesAre DEF Spawned, Goto, Calls
    <2> QED
      BY <1>3, <2>1, PlacesAre
         DEF Spawned, TypeOK, procVars, clientVars, askVars, chanVars, loopVars
  <1>4. ASSUME NotSpawned(r) PROVE TypeOK'
    <2>1. pc' \in [Runs -> Places]
      BY <1>4, Parts, PlacesAre DEF NotSpawned, Goto, Calls
    <2>2. Gone(proc[r]) /\ proc[r] \in Procs \cup {0}
          /\ UNCHANGED <<kind, cur, sid, stdout, dead, told, pending, runCh, reader, twice, faithful,
                         asks, chan, closed, dropped, proc, loop, card, stopped, answered, panicked>>
      BY <1>4, Parts DEF NotSpawned, clientVars, chanVars, loopVars
    <2>3. /\ os' \in [Procs -> {"none", "alive", "gone"}]
          /\ stdin' \in [Procs -> Seq(Runs \X (Calls \cup {"cancel"}))]
          /\ turn' \in [Procs -> Runs \cup {0}]
          /\ ask' \in [Procs -> {"none", "sent", "sending", "queued"}]
      BY <2>2, GoneTypes
    <2> QED
      BY <2>1, <2>2, <2>3, PlacesAre DEF TypeOK
  <1>5. ASSUME KeepSession(r) PROVE TypeOK'
    <2>1. pc' \in [Runs -> Places]
      BY <1>5, Parts, PlacesAre DEF KeepSession, Goto, Calls
    <2> QED
      BY <1>5, <2>1, PlacesAre
         DEF KeepSession, TypeOK, procVars, clientVars, askVars, chanVars, loopVars
  <1>6. ASSUME Register(r) PROVE TypeOK'
    <2>1. pc' \in [Runs -> Places]
      BY <1>6, Parts, PlacesAre DEF Register, Goto, Calls
    <2>2. runCh' \in [Procs -> Runs \cup {0}]
          /\ loop' \in [Runs -> {"none", "reading", "asking", "left", "over"}]
      <3>1. /\ runCh' = runCh \/ runCh' = [runCh EXCEPT ![proc[r]] = r]
            /\ loop' = loop \/ loop' = [loop EXCEPT ![r] = "reading"]
        BY <1>6 DEF Register
      <3>2. runCh \in [Procs -> Runs \cup {0}]
            /\ loop \in [Runs -> {"none", "reading", "asking", "left", "over"}]
        BY Parts
      <3> QED
        BY <3>1, <3>2
    <2>3. chan' \in [Runs -> Seq(Events)] /\ \A x \in Runs : Len(chan'[x]) <= Capacity
      <3>1. <<"system">> \in Seq(Events) /\ Len(<<"system">>) = 1 /\ 1 <= Capacity
        BY Constants DEF Events
      <3>2. chan' = chan \/ chan' = [chan EXCEPT ![r] = <<"system">>]
        BY <1>6 DEF Register
      <3>3. chan \in [Runs -> Seq(Events)] /\ \A x \in Runs : Len(chan[x]) <= Capacity
        BY Parts
      <3> QED
        BY <3>1, <3>2, <3>3
    <2>4. UNCHANGED <<kind, cur, procVars, clientVars, reader, askVars, closed, dropped,
                      proc, card, stopped, answered, panicked>>
      BY <1>6 DEF Register
    <2> QED
      BY <2>1, <2>2, <2>3, <2>4, PlacesAre DEF TypeOK, procVars, clientVars, askVars
  <1>7. ASSUME Conclude(r) PROVE TypeOK'
    <2>1. pc' \in [Runs -> Places]
      BY <1>7, Parts, PlacesAre DEF Conclude, Goto, Calls
    <2>2. /\ chan' \in [Runs -> Seq(Events)] /\ \A x \in Runs : Len(chan'[x]) <= Capacity
          /\ dropped' \in [Runs -> BOOLEAN]
      <3>1. \E x \in Runs \cup {0}, e \in Events : SafeSend(x, e)
        BY <1>7 DEF Conclude, Events, Ends, Answers
      <3> QED
        BY <3>1, Sent
    <2>3. UNCHANGED <<kind, cur, procVars, clientVars, runCh, reader, askVars, closed,
                      proc, loopVars, answered, panicked>>
      BY <1>7 DEF Conclude
    <2> QED
      BY <2>1, <2>2, <2>3, PlacesAre DEF TypeOK, procVars, clientVars, askVars, loopVars
  <1>8. ASSUME Finish(r) PROVE TypeOK'
    <2>1. pc' \in [Runs -> Places]
      BY <1>8, Parts, PlacesAre DEF Finish, Goto, Calls
    <2>2. runCh' \in [Procs -> Runs \cup {0}] /\ closed' \in [Runs -> BOOLEAN]
      BY <1>8, Parts DEF Finish
    <2>3. UNCHANGED <<kind, cur, procVars, clientVars, reader, askVars, chan, dropped,
                      proc, loopVars, answered, panicked>>
      BY <1>8 DEF Finish
    <2> QED
      BY <2>1, <2>2, <2>3, PlacesAre DEF TypeOK, procVars, clientVars, askVars, loopVars
  <1> QED
    BY <1>1, <1>2, <1>3, <1>4, <1>5, <1>6, <1>7, <1>8
       DEF Run, Initialize, Authenticate, Load, New, Prompt, Calls

\* ... and of the loop, and the commands, and so every step does.
LEMMA LoopTypes ==
  ASSUME TypeOK, NEW r \in Runs, Loop(r) \/ Stop(r) \/ CardFails(r)
  PROVE  TypeOK'
  <1>1. ASSUME Receive(r) PROVE TypeOK'
    <2>1. chan' \in [Runs -> Seq(Events)] /\ \A x \in Runs : Len(chan'[x]) <= Capacity
      <3>1. /\ Tail(chan[r]) \in Seq(Events) /\ Len(Tail(chan[r])) = Len(chan[r]) - 1
            /\ Len(chan[r]) \in Nat /\ Capacity \in Nat
        BY <1>1, Parts, Shrunk, Constants DEF Receive
      <3>2. chan' = [chan EXCEPT ![r] = Tail(@)]
        BY <1>1 DEF Receive
      <3> QED
        BY <3>1, <3>2, Parts
    <2>2. card' \in [Runs -> {"running"} \cup Ends]
          /\ loop' \in [Runs -> {"none", "reading", "asking", "left", "over"}]
      BY <1>1, Parts DEF Receive
    <2>3. UNCHANGED <<kind, cur, procVars, clientVars, runCh, reader, askVars, closed, dropped,
                      runVars, stopped, answered, panicked>>
      BY <1>1 DEF Receive
    <2> QED
      BY <2>1, <2>2, <2>3 DEF TypeOK, procVars, clientVars, askVars, runVars
  <1>2. ASSUME Reply(r) PROVE TypeOK'
    <2>1. Respond(proc[r], TRUE)
      BY <1>2, RepliedTruly
    <2>2. loop' \in [Runs -> {"none", "reading", "asking", "left", "over"}]
          /\ proc[r] \in Procs \cup {0}
      BY <1>2, Parts DEF Reply
    <2>3. UNCHANGED <<kind, cur, procVars, clientVars, runCh, reader, asks, chanVars,
                      runVars, card, stopped, answered, panicked>>
      BY <1>2 DEF Reply
    <2> QED
      BY <2>1, <2>2, <2>3, RespondTypes DEF TypeOK, procVars, clientVars, chanVars, runVars
  <1>3. ASSUME SeesClose(r) PROVE TypeOK'
    <2>1. card' \in [Runs -> {"running"} \cup Ends]
          /\ loop' \in [Runs -> {"none", "reading", "asking", "left", "over"}]
      BY <1>3, Parts DEF SeesClose, Ends, Answers
    <2> QED
      BY <1>3, <2>1 DEF SeesClose, TypeOK, procVars, clientVars, askVars, chanVars, runVars
  <1>4. ASSUME Cancel(r), loop' = loop \/ loop' = [loop EXCEPT ![r] = "left"] PROVE TypeOK'
    <2>1. loop' \in [Runs -> {"none", "reading", "asking", "left", "over"}]
      BY <1>4, Parts
    <2>2. stopped' \in [Runs -> BOOLEAN]
      BY <1>4, Parts DEF Cancel
    <2>3. stdin' \in [Procs -> Seq(Runs \X (Calls \cup {"cancel"}))]
      <3>1. stdin' = stdin \/ stdin' = [stdin EXCEPT ![proc[r]] = Append(@, <<r, "cancel">>)]
        BY <1>4 DEF Cancel
      <3>2. ASSUME NEW p \in Procs
            PROVE  Append(stdin[p], <<r, "cancel">>) \in Seq(Runs \X (Calls \cup {"cancel"}))
        <4>1. /\ stdin[p] \in Seq(Runs \X (Calls \cup {"cancel"}))
              /\ <<r, "cancel">> \in Runs \X (Calls \cup {"cancel"})
          BY Parts
        <4> QED
          BY <4>1, AppendProperties
      <3>3. stdin \in [Procs -> Seq(Runs \X (Calls \cup {"cancel"}))]
        BY Parts
      <3> QED
        BY <3>1, <3>2, <3>3
    <2>4. UNCHANGED <<kind, cur, os, sid, stdout, turn, clientVars, runCh, reader, askVars, chanVars,
                      runVars, card, answered, panicked>>
      BY <1>4 DEF Cancel
    <2> QED
      BY <2>1, <2>2, <2>3, <2>4 DEF TypeOK, clientVars, askVars, chanVars, runVars
  <1> QED
    BY <1>1, <1>2, <1>3, <1>4 DEF Loop, Stop, CardFails

LEMMA TypeStep ==
  ASSUME TypeOK, RunInv, [Next]_vars
  PROVE  TypeOK'
  <1>1. ASSUME Reset PROVE TypeOK'
    <2>1. Gone(cur) /\ cur' = 0
          /\ UNCHANGED <<kind, sid, stdout, clientVars, runCh, reader, twice, faithful, asks,
                         chanVars, runVars, loopVars, answered, panicked>>
      BY <1>1 DEF Reset
    <2>2. cur \in Procs \cup {0}
      BY Parts
    <2> QED
      BY <2>1, <2>2, GoneTypes DEF TypeOK, clientVars, chanVars, runVars, loopVars
  <1>2. CASE UNCHANGED vars
    BY <1>2 DEF TypeOK, vars, procVars, clientVars, askVars, chanVars, runVars, loopVars
  <1> QED
    BY <1>1, <1>2, AgentTypes, ReaderTypes, RunTypes, LoopTypes DEF Next

------------------------------------------------------------------------------
\* The processes are started in their order: a new one is none that was there.
LEMMA FreshProcess ==
  ASSUME TypeOK, ProcInv,
         NEW n, n = Cardinality({q \in Procs : os[q] # "none"}) + 1, n \in Procs
  PROVE  os[n] = "none" /\ \A q \in 1..(n - 1) : q \in Procs /\ os[q] # "none"
  <1> DEFINE S == {q \in Procs : os[q] # "none"}
             m == Cardinality(S)
  <1>1. /\ IsFiniteSet(Procs) /\ MaxProcs \in Nat /\ Procs = 1..MaxProcs
    BY FS_Interval, Constants DEF Procs
  <1>2. S \subseteq Procs /\ IsFiniteSet(S)
    BY <1>1, FS_Subset
  <1>3. m \in Nat /\ n = m + 1
    BY <1>2, FS_CardinalityType
  <1>4. \A p \in S : \A q \in 1..(p - 1) : q \in S
    BY <1>1 DEF ProcInv
  <1> HIDE DEF S
  <1>5. IsFiniteSet(1..n) /\ Cardinality(1..n) = n /\ IsFiniteSet(1..m) /\ Cardinality(1..m) = m
    <2> HIDE DEF m
    <2>1. \A k \in Nat : IsFiniteSet(1..k) /\ Cardinality(1..k) = k
      <3> SUFFICES ASSUME NEW k \in Nat PROVE IsFiniteSet(1..k) /\ Cardinality(1..k) = k
        OBVIOUS
      <3>1. Cardinality(1..k) = IF 1 > k THEN 0 ELSE k - 1 + 1
        BY FS_Interval
      <3> QED
        BY <3>1, FS_Interval
    <2> QED
      BY <1>3, <2>1
  <1>6. n \notin S
    <2>1. SUFFICES ASSUME n \in S PROVE FALSE
      OBVIOUS
    <2>2. 1..n \subseteq S
      <3> HIDE DEF m
      <3>1. \A q \in 1..n : q = n \/ q \in 1..(n - 1)
        BY <1>3
      <3> QED
        BY <1>4, <2>1, <3>1
    <2>3. Cardinality(1..n) <= m
      BY <1>2, <2>2, FS_Subset
    <2> HIDE DEF m
    <2> QED
      BY <1>3, <1>5, <2>3
  <1>7. S \subseteq 1..m
    <2>1. SUFFICES ASSUME NEW p \in S, p \notin 1..m PROVE FALSE
      OBVIOUS
    <2>2. p \in Nat /\ p > 0
      BY <1>1, <1>2
    <2> HIDE DEF m
    <2>3. p = n \/ n \in 1..(p - 1)
      BY <1>3, <2>1, <2>2
    <2> QED
      BY <1>4, <1>6, <2>3
  <1>8. S = 1..m
    <2>1. S \in SUBSET (1..m) /\ Cardinality(1..m) = Cardinality(S)
      BY <1>5, <1>7
    <2> QED
      BY <1>5, <2>1, FS_Subset, Zenon
  <1> HIDE DEF m
  <1>9. 1..(n - 1) = S
    BY <1>3, <1>8
  <1>10. os[n] = "none"
    BY <1>6 DEF S
  <1>11. \A q \in S : q \in Procs /\ os[q] # "none"
    BY DEF S
  <1> QED
    BY <1>9, <1>10, <1>11

\* What a new process finds: nothing was said to it or by it.
LEMMA BeginCases ==
  ASSUME TypeOK, ProcInv, NEW r \in Runs, Begin(r)
  PROVE  \/ /\ cur \in Procs /\ ~dead[cur] /\ proc' = [proc EXCEPT ![r] = cur]
            /\ pc' = [pc EXCEPT ![r] = "load"]
            /\ UNCHANGED <<cur, os, stdin, turn, ask>>
         \/ \E p \in Procs :
              /\ os[p] = "none" /\ p # cur /\ \A q \in 1..(p - 1) : q \in Procs /\ os[q] # "none"
              /\ cur' = 0 /\ proc' = [proc EXCEPT ![r] = p]
              /\ os' = [q \in Procs |-> IF q = p THEN "alive" ELSE IF q = cur THEN "gone" ELSE os[q]]
              /\ stdin' = [q \in Procs |-> IF q = cur THEN << >> ELSE stdin[q]]
              /\ turn' = [q \in Procs |-> IF q = cur THEN 0 ELSE turn[q]]
              /\ ask' = [q \in Procs |-> IF q = cur THEN "none" ELSE ask[q]]
              /\ pc' = [pc EXCEPT ![r] = "initialize"]
  <1>1. CASE Reusable /\ proc' = [proc EXCEPT ![r] = cur] /\ Goto(r, "load")
             /\ UNCHANGED <<cur, os, stdin, turn, ask>>
    BY <1>1, Parts DEF Reusable, Goto
  <1> DEFINE p == Cardinality({q \in Procs : os[q] # "none"}) + 1
  <1>2. CASE /\ p \in Procs
             /\ cur' = 0
             /\ proc' = [proc EXCEPT ![r] = p]
             /\ os' = [q \in Procs |-> IF q = p THEN "alive" ELSE IF q = cur THEN "gone" ELSE os[q]]
             /\ stdin' = [q \in Procs |-> IF q = cur THEN << >> ELSE stdin[q]]
             /\ turn' = [q \in Procs |-> IF q = cur THEN 0 ELSE turn[q]]
             /\ ask' = [q \in Procs |-> IF q = cur THEN "none" ELSE ask[q]]
             /\ Goto(r, "initialize")
    <2>1. os[p] = "none" /\ \A q \in 1..(p - 1) : q \in Procs /\ os[q] # "none"
      BY <1>2, FreshProcess
    <2> HIDE DEF p
    <2>2. p # cur
      BY <1>2, <2>1, Constants DEF ProcInv
    <2> QED
      BY <1>2, <2>1, <2>2 DEF Goto
  <1> QED
    BY <1>1, <1>2 DEF Begin

\* ProcInv stays when processes only die, and lose what they worked on.
LEMMA ProcFrame ==
  ASSUME TypeOK, ProcInv, cur' \in {cur, 0}, proc' = proc,
         \A p \in Procs : os'[p] = "none" <=> os[p] = "none",
         \A p \in Procs : os'[p] # "alive" => turn'[p] = 0,
         \A p \in Procs : os[p] = "none" => stdout'[p] = << >> /\ reader'[p] = 0
  PROVE  ProcInv'
  <1>1. \A p \in Procs : os'[p] # "none" => \A q \in 1..(p - 1) : os'[q] # "none"
    <2> SUFFICES ASSUME NEW p \in Procs, os'[p] # "none", NEW q \in 1..(p - 1) PROVE os'[q] # "none"
      OBVIOUS
    <2>1. q \in Procs
      BY Constants DEF Procs
    <2> QED
      BY <2>1 DEF ProcInv
  <1>2. cur' # 0 => os'[cur'] # "none"
    BY Parts DEF ProcInv
  <1>3. \A r \in Runs : proc'[r] # 0 => os'[proc'[r]] # "none"
    BY Parts DEF ProcInv
  <1> QED
    BY <1>1, <1>2, <1>3 DEF ProcInv

LEMMA GoneFrame ==
  ASSUME TypeOK, ProcInv, NEW p \in Procs \cup {0}, Gone(p)
  PROVE  /\ \A q \in Procs : /\ os'[q] = "none" <=> os[q] = "none"
                             /\ os'[q] = "alive" => os[q] = "alive" /\ ask'[q] = ask[q]
         /\ \A q \in Procs : os'[q] # "alive" => turn'[q] = 0
  BY Parts DEF Gone, ProcInv

LEMMA ProcStep ==
  ASSUME TypeOK, ProcInv, RunInv, [Next]_vars
  PROVE  ProcInv'
  <1> DEFINE Still(q) == /\ os'[q] = "none" <=> os[q] = "none"
                         /\ os'[q] # "alive" => turn'[q] = 0
                         /\ os[q] = "none" => stdout'[q] = << >> /\ reader'[q] = 0
  <1>0. ASSUME cur' \in {cur, 0}, proc' = proc, \A q \in Procs : Still(q) PROVE ProcInv'
    BY <1>0, ProcFrame
  <1>1. ASSUME cur' = cur, proc' = proc, os' = os, turn' = turn, stdout' = stdout, reader' = reader
        PROVE  ProcInv'
    BY <1>1 DEF ProcInv
  <1>2. ASSUME NEW p \in Procs, Answer(p) PROVE ProcInv'
    <2>1. cur' = cur /\ proc' = proc /\ os' = os /\ reader' = reader /\ os[p] = "alive"
      BY <1>2 DEF Answer, AgentOnly, runVars
    <2>2. \A q \in Procs : q # p => turn'[q] = turn[q] /\ stdout'[q] = stdout[q]
      BY <1>2, Parts DEF Answer, Says
    <2> QED
      BY <1>0, <2>1, <2>2 DEF ProcInv
  <1>3. ASSUME NEW p \in Procs, Settle(p) PROVE ProcInv'
    <2>1. cur' = cur /\ proc' = proc /\ os' = os /\ reader' = reader
      BY <1>3 DEF Settle, AgentOnly, runVars
    <2>2. os[p] = "alive"
      BY <1>3 DEF ProcInv, Settle
    <2>3. \A q \in Procs : q # p => turn'[q] = turn[q] /\ stdout'[q] = stdout[q]
      BY <1>3, Parts DEF Settle, Says
    <2> QED
      BY <1>0, <2>1, <2>2, <2>3 DEF ProcInv
  <1>4. ASSUME NEW p \in Procs,
               (\E k \in {"question", "permission", "other"} : Ask(p, k)) \/ (\E c \in Chunks : Chat(p, c))
        PROVE  ProcInv'
    <2>1. cur' = cur /\ proc' = proc /\ os' = os /\ reader' = reader /\ turn' = turn
      BY <1>4 DEF Ask, Chat, AgentOnly, runVars
    <2>2. os[p] = "alive"
      BY <1>4 DEF ProcInv, Ask, Chat
    <2>3. \A q \in Procs : q # p => stdout'[q] = stdout[q]
      BY <1>4, Parts DEF Ask, Chat, Says
    <2> QED
      BY <1>0, <2>1, <2>2, <2>3 DEF ProcInv
  <1>5. ASSUME NEW p \in Procs \cup {0}, Gone(p), cur' \in {cur, 0}, proc' = proc, UNCHANGED <<stdout, reader>>
        PROVE  ProcInv'
    BY <1>0, <1>5, GoneFrame DEF ProcInv
  <1>6. ASSUME NEW p \in Procs, Read(p) PROVE ProcInv'
    <2>1. cur' = cur /\ proc' = proc /\ os' = os /\ turn' = turn
      BY <1>6 DEF Read
    <2>2. stdout[p] # << >> /\ \A q \in Procs : q # p => stdout'[q] = stdout[q]
      BY <1>6, Parts DEF Read
    <2>3. \A q \in Procs : q # p => reader'[q] = reader[q]
      <3>1. reader' = reader \/ reader' = [reader EXCEPT ![p] = runCh[p]]
        BY <1>6, ReadCases DEF Response, Question
      <3> QED
        BY <3>1, Parts
    <2> QED
      BY <1>0, <2>1, <2>2, <2>3 DEF ProcInv
  <1>7. ASSUME NEW p \in Procs, SendAsk(p) \/ AskTimesOut(p) PROVE ProcInv'
    <2>1. cur' = cur /\ proc' = proc /\ os' = os /\ turn' = turn /\ stdout' = stdout
      BY <1>7 DEF SendAsk, AskTimesOut, procVars, runVars
    <2>2. \A q \in Procs : reader'[q] \in {reader[q], 0}
      BY <1>7, Parts DEF SendAsk, AskTimesOut
    <2> QED
      BY <1>0, <2>1, <2>2 DEF ProcInv
  <1>8. ASSUME NEW p \in Procs, Wait(p) PROVE ProcInv'
    <2>1. cur' = cur /\ proc' = proc /\ os' = os /\ turn' = turn /\ reader' = reader
      BY <1>8 DEF Wait
    <2>2. \A q \in Procs : stdout'[q] \in {stdout[q], << >>}
      BY <1>8, Parts DEF Wait
    <2> QED
      BY <1>0, <2>1, <2>2 DEF ProcInv
  <1>9. ASSUME NEW r \in Runs, Begin(r) PROVE ProcInv'
    <2>1. stdout' = stdout /\ reader' = reader
      BY <1>9 DEF Begin
    <2>2. CASE cur \in Procs /\ proc' = [proc EXCEPT ![r] = cur] /\ UNCHANGED <<cur, os, stdin, turn, ask>>
      BY <2>1, <2>2, Parts, Constants DEF ProcInv
    <2>3. ASSUME NEW p \in Procs, os[p] = "none", p # cur, \A q \in 1..(p - 1) : q \in Procs /\ os[q] # "none",
                 cur' = 0, proc' = [proc EXCEPT ![r] = p],
                 os' = [q \in Procs |-> IF q = p THEN "alive" ELSE IF q = cur THEN "gone" ELSE os[q]],
                 turn' = [q \in Procs |-> IF q = cur THEN 0 ELSE turn[q]]
          PROVE  ProcInv'
      <3>1. \A x \in Procs : /\ os'[x] # "none" <=> x = p \/ os[x] # "none"
                             /\ os'[x] # "alive" => turn'[x] = 0
        <4> SUFFICES ASSUME NEW x \in Procs
                     PROVE  /\ os'[x] # "none" <=> x = p \/ os[x] # "none"
                            /\ os'[x] # "alive" => turn'[x] = 0
          OBVIOUS
        <4>1. /\ os'[x] = IF x = p THEN "alive" ELSE IF x = cur THEN "gone" ELSE os[x]
              /\ turn'[x] = IF x = cur THEN 0 ELSE turn[x]
          BY <2>3
        <4>2. (x = cur => os[x] # "none") /\ (os[x] # "alive" => turn[x] = 0)
          BY Constants DEF ProcInv
        <4> QED
          BY <2>3, <4>1, <4>2
      <3>2. \A x \in Procs : os'[x] # "none" => \A q \in 1..(x - 1) : os'[q] # "none"
        <4> SUFFICES ASSUME NEW x \in Procs, os'[x] # "none", NEW q \in 1..(x - 1) PROVE os'[q] # "none"
          OBVIOUS
        <4>1. q \in Procs
          BY Constants DEF Procs
        <4> QED
          BY <2>3, <3>1, <4>1 DEF ProcInv
      <3>3. \A x \in Runs : proc'[x] # 0 => os'[proc'[x]] # "none"
        BY <2>3, <3>1, Parts DEF ProcInv
      <3>4. \A x \in Procs : os'[x] = "none" => stdout'[x] = << >> /\ reader'[x] = 0
        BY <2>1, <3>1 DEF ProcInv
      <3> QED
        BY <2>3, <3>1, <3>2, <3>3, <3>4 DEF ProcInv
    <2> QED
      BY <1>9, BeginCases, <2>2, <2>3
  <1>10. ASSUME NEW r \in Runs, Spawned(r) PROVE ProcInv'
    <2>1. cur' = proc[r] /\ proc' = proc /\ os' = os /\ turn' = turn /\ stdout' = stdout /\ reader' = reader
      BY <1>10 DEF Spawned, procVars
    <2> QED
      BY <2>1 DEF ProcInv
  <1>11. ASSUME NEW r \in Runs, NotSpawned(r) PROVE ProcInv'
    <2>1. Gone(proc[r]) /\ proc[r] \in Procs \cup {0} /\ cur' = cur /\ proc' = proc
          /\ UNCHANGED <<stdout, reader>>
      BY <1>11, Parts DEF NotSpawned
    <2> QED
      BY <1>5, <2>1
  <1>12. ASSUME Reset PROVE ProcInv'
    <2>1. Gone(cur) /\ cur \in Procs \cup {0} /\ cur' = 0 /\ proc' = proc /\ UNCHANGED <<stdout, reader>>
      BY <1>12, Parts DEF Reset, runVars
    <2> QED
      BY <1>5, <2>1
  <1>13. ASSUME NEW p \in Procs, Die(p) PROVE ProcInv'
    <2>1. Gone(p) /\ cur' = cur /\ proc' = proc /\ UNCHANGED <<stdout, reader>>
      BY <1>13 DEF Die, runVars
    <2> QED
      BY <1>5, <2>1
  <1>14. ASSUME NEW p \in Procs, Tell(p) PROVE ProcInv'
    BY <1>1, <1>14 DEF Tell, procVars, runVars
  <1>15. ASSUME NEW r \in Runs,
                KeepSession(r) \/ Register(r) \/ Conclude(r) \/ Finish(r) \/ \E call \in Calls : Call(r, call)
         PROVE  ProcInv'
    BY <1>1, <1>15 DEF KeepSession, Register, Conclude, Finish, Call, procVars
  <1>16. ASSUME NEW r \in Runs, Loop(r) \/ Stop(r) \/ CardFails(r) PROVE ProcInv'
    BY <1>1, <1>16 DEF Loop, Receive, Reply, SeesClose, Stop, CardFails, Cancel, procVars, runVars
  <1>17. CASE UNCHANGED vars
    BY <1>1, <1>17 DEF vars, procVars, runVars
  <1> HIDE DEF Still
  <1>18. ASSUME NEW p \in Procs, Agent(p) \/ Reader(p) PROVE ProcInv'
    BY <1>2, <1>3, <1>4, <1>6, <1>7, <1>8, <1>13, <1>14, <1>18 DEF Agent, Reader
  <1>19. ASSUME NEW r \in Runs, Run(r) PROVE ProcInv'
    BY <1>10, <1>11, <1>15, <1>19 DEF Run, Initialize, Authenticate, Load, New, Prompt, Calls
  <1> QED
    BY <1>9, <1>12, <1>16, <1>17, <1>18, <1>19 DEF Next

------------------------------------------------------------------------------
\* A run that is registered is not early.
LEMMA Registered ==
  ASSUME TypeOK, RunInv, NEW p \in Procs, NEW r \in {runCh[p], reader[p]}, r # 0
  PROVE  r \in Runs /\ pc[r] \in Late /\ pc[r] \notin Early /\ proc[r] = p
  <1>1. r \in Runs
    BY Parts
  <1>2. proc[r] = p /\ pc[r] \in Late
    BY DEF RunInv
  <1> QED
    BY <1>1, <1>2, Constants

\* RunInv stays when a run goes on without a call that waits, nothing happens to
\* one that is not registered, and no run is registered.
LEMMA RunFrame ==
  ASSUME TypeOK, RunInv, proc' = proc,
         \A r \in Runs :
           /\ \/ pc'[r] = pc[r]
              \/ /\ pc[r] \notin {"idle", "gone"} /\ pc'[r] \in Places \ {"idle"}
                 /\ pc[r] \in Early <=> pc'[r] \in Early
                 /\ \A p \in Procs, c \in Calls : <<r, c>> \notin pending'[p]
           /\ pc[r] \in Early => /\ loop'[r] = loop[r] /\ chan'[r] = chan[r]
                                 /\ closed'[r] = closed[r] /\ card'[r] = card[r]
           /\ closed'[r] => pc'[r] = "gone"
           /\ loop'[r] = "over" => closed'[r],
         \A p \in Procs : /\ runCh'[p] \in {runCh[p], 0} /\ reader'[p] \in {reader[p], runCh[p], 0}
                          /\ \A c \in Runs \X Calls : c \in pending'[p] => c \in pending[p]
  PROVE  RunInv'
  <1>1. \A r \in Runs : /\ pc[r] \in Places /\ (pc'[r] \in Early <=> pc[r] \in Early)
                        /\ pc'[r] = "idle" <=> pc[r] = "idle"
                        /\ pc[r] \in Late => pc'[r] \in Late
    BY Parts, Constants DEF Places
  <1>2. \A r \in Runs : pc'[r] = "idle" <=> proc'[r] = 0
    BY <1>1 DEF RunInv
  <1>3. \A r \in Runs : pc'[r] \in Early =>
          loop'[r] = "none" /\ chan'[r] = << >> /\ ~closed'[r] /\ card'[r] = "running"
    BY <1>1 DEF RunInv
  <1>4. \A p \in Procs : runCh'[p] # 0 => proc'[runCh'[p]] = p /\ pc'[runCh'[p]] \in Late
    BY <1>1, Parts DEF RunInv
  <1>5. \A p \in Procs : reader'[p] # 0 => proc'[reader'[p]] = p /\ pc'[reader'[p]] \in Late
    <2> SUFFICES ASSUME NEW p \in Procs, NEW r, r = reader'[p], r # 0 PROVE proc[r] = p /\ pc'[r] \in Late
      OBVIOUS
    <2>1. r \in Runs /\ proc[r] = p /\ pc[r] \in Late
      BY Registered
    <2> QED
      BY <1>1, <2>1
  <1>6. \A p \in Procs, r \in Runs, c \in Calls :
          <<r, c>> \in pending'[p] => pc'[r] = c /\ proc'[r] = p
    BY DEF RunInv
  <1> QED
    BY <1>2, <1>3, <1>4, <1>5, <1>6 DEF RunInv

LEMMA RunUnchanged ==
  ASSUME RunInv, UNCHANGED <<pc, proc, loop, chan, closed, card, runCh, reader, pending>>
  PROVE  RunInv'
  BY DEF RunInv

\* A response, or the end of the process, takes a call from where it waits.
LEMMA Returns ==
  ASSUME TypeOK, RunInv, NEW p \in Procs, NEW r \in Runs, NEW c \in Calls, NEW ok \in BOOLEAN,
         <<r, c>> \in pending[p]
  PROVE  /\ pc[r] = c /\ pc[r] \notin {"idle", "gone"}
         /\ After(r, c, ok) \in Places \ {"idle"}
         /\ pc[r] \in Early <=> After(r, c, ok) \in Early
         /\ \A q \in Procs, d \in Calls : <<r, d>> \in pending[q] => q = p /\ d = c
  <1>1. pc[r] = c /\ \A q \in Procs, d \in Calls : <<r, d>> \in pending[q] => q = p /\ d = c
    BY DEF RunInv
  <1>2. c \notin {"idle", "gone"}
    BY DEF Calls
  <1>3. After(r, c, ok) \in Places \ {"idle"} /\ (c \in Early <=> After(r, c, ok) \in Early)
    <2>1. c \in Early <=> c # "prompt"
      BY Constants
    <2>2. "answered" \in Places \ Early /\ "failed" \in Places \ Early /\ "idle" \notin {"answered", "failed"}
      BY Constants DEF Places, Late
    <2> QED
      BY <2>1, <2>2, AfterPlaces, Constants DEF Places
  <1> QED
    BY <1>1, <1>2, <1>3

LEMMA RunStepProc ==
  ASSUME TypeOK, RunInv, NEW p \in Procs, Agent(p) \/ Reader(p)
  PROVE  RunInv'
  <1> DEFINE NoChange == UNCHANGED <<proc, loop, closed, card, runCh>>
  <1>1. CASE Agent(p)
    BY <1>1, RunUnchanged
       DEF Agent, Answer, Settle, Ask, Chat, Die, AgentOnly, clientVars, chanVars, runVars, loopVars
  <1>2. ASSUME NEW r \in Runs \cup {0}, NEW e \in Events, SafeSend(r, e), r # 0 => pc[r] \notin Early,
               NoChange, UNCHANGED <<pc, reader, pending>>
        PROVE  RunInv'
    <2>1. \A x \in Runs : pc[x] \in Early => chan'[x] = chan[x]
      BY <1>2, Sent, Constants
    <2>2. \A x \in Runs : (closed[x] => pc[x] = "gone") /\ (loop[x] = "over" => closed[x])
      BY DEF RunInv
    <2> QED
      BY <1>2, <2>1, <2>2, RunFrame
  <1>3. CASE Read(p)
    <2> DEFINE line == Head(stdout[p])
    <2>1. NoChange
      BY <1>3 DEF Read, loopVars
    <2>2. CASE line.kind \in Chunks /\ SafeSend(runCh[p], EventOf(line.kind))
               /\ UNCHANGED <<pending, pc, sid, reader, ask, twice, faithful>>
      <3>1. EventOf(line.kind) \in Events /\ runCh[p] \in Runs \cup {0}
        BY <2>2, Constants, Parts
      <3> HIDE DEF NoChange
      <3> QED
        BY <2>1, <2>2, <3>1, <1>2, Registered
    <2>3. CASE line.kind \in Calls /\ Response(p, line) /\ UNCHANGED <<chan, dropped>>
      <3>1. line.run \in Runs \cup {0} /\ line.ok \in BOOLEAN
        BY <1>3, LineRead DEF Read
      <3> HIDE DEF line
      <3>2. /\ pending' = [pending EXCEPT ![p] = @ \ {<<line.run, line.kind>>}] /\ reader' = reader
            /\ pc' = IF <<line.run, line.kind>> \in pending[p]
                     THEN [pc EXCEPT ![line.run] = After(line.run, line.kind, line.ok)] ELSE pc
        BY <2>3 DEF Response
      <3>3. \A q \in Procs : pending'[q] = IF q = p THEN pending[q] \ {<<line.run, line.kind>>} ELSE pending[q]
        BY <3>2, Parts
      <3>4. \A x \in Runs : (closed[x] => pc[x] = "gone") /\ (loop[x] = "over" => closed[x])
        BY DEF RunInv
      <3>5. CASE <<line.run, line.kind>> \in pending[p]
        <4> DEFINE r == line.run
                   c == line.kind
                   a == After(line.run, line.kind, line.ok)
        <4>1. r \in Runs
          BY <3>5, Parts
        <4>2. /\ pc[r] = c /\ pc[r] \notin {"idle", "gone"} /\ a \in Places \ {"idle"}
              /\ pc[r] \in Early <=> a \in Early
              /\ \A q \in Procs, d \in Calls : <<r, d>> \in pending[q] => q = p /\ d = c
          BY <2>3, <3>1, <3>5, <4>1, Returns
        <4>3. \A x \in Runs : pc'[x] = IF x = r THEN a ELSE pc[x]
          BY <3>2, <3>5, <4>1, Parts
        <4> HIDE DEF a
        <4>4. \A q \in Procs, d \in Calls : <<r, d>> \notin pending'[q]
          BY <3>3, <4>2
        <4> HIDE DEF r, c
        <4>5. \A x \in Runs : closed[x] => pc'[x] = "gone"
          BY <3>4, <4>2, <4>3
        <4>6. \A x \in Runs :
                \/ pc'[x] = pc[x]
                \/ /\ pc[x] \notin {"idle", "gone"} /\ pc'[x] \in Places \ {"idle"}
                   /\ pc[x] \in Early <=> pc'[x] \in Early
                   /\ \A q \in Procs, d \in Calls : <<x, d>> \notin pending'[q]
          BY <4>2, <4>3, <4>4
        <4> QED
          BY <2>1, <2>3, <3>2, <3>3, <3>4, <4>5, <4>6, RunFrame
      <3>6. CASE <<line.run, line.kind>> \notin pending[p]
        BY <2>1, <2>3, <3>2, <3>3, <3>4, <3>6, RunFrame
      <3> QED
        BY <3>5, <3>6
    <2>4. CASE UNCHANGED <<pending, pc, sid, reader, chan, dropped>>
      BY <2>1, <2>4, RunUnchanged
    <2>5. CASE Question(p) /\ UNCHANGED <<chan, dropped>>
      <3>1. \A q \in Procs : reader'[q] \in {reader[q], runCh[q]}
        BY <2>5, Parts DEF Question
      <3>2. UNCHANGED <<pc, pending>>
        BY <2>5 DEF Question
      <3>3. \A x \in Runs : (closed[x] => pc[x] = "gone") /\ (loop[x] = "over" => closed[x])
        BY DEF RunInv
      <3> QED
        BY <2>1, <2>5, <3>1, <3>2, <3>3, RunFrame
    <2> QED
      BY <1>3, ReadCases, <2>2, <2>3, <2>4, <2>5
  <1>4. CASE SendAsk(p)
    <2>1. reader[p] # 0 /\ reader' = [reader EXCEPT ![p] = 0] /\ NoChange /\ UNCHANGED <<pc, pending>>
          /\ (chan' = chan \/ chan' = [chan EXCEPT ![reader[p]] = Append(@, "ask")])
      BY <1>4 DEF SendAsk, runVars, loopVars, clientVars
    <2>2. \A x \in Runs : pc[x] \in Early => chan'[x] = chan[x]
      BY <2>1, Registered, Parts
    <2>3. \A q \in Procs : reader'[q] \in {reader[q], 0}
      BY <2>1, Parts
    <2>4. \A x \in Runs : (closed[x] => pc[x] = "gone") /\ (loop[x] = "over" => closed[x])
      BY DEF RunInv
    <2> QED
      BY <2>1, <2>2, <2>3, <2>4, RunFrame
  <1>5. CASE AskTimesOut(p)
    <2>1. reader' = [reader EXCEPT ![p] = 0] /\ NoChange /\ UNCHANGED <<pc, pending, chan>>
      BY <1>5 DEF AskTimesOut, runVars, loopVars, clientVars, chanVars
    <2>2. \A q \in Procs : reader'[q] \in {reader[q], 0}
      BY <2>1, Parts
    <2>3. \A x \in Runs : (closed[x] => pc[x] = "gone") /\ (loop[x] = "over" => closed[x])
      BY DEF RunInv
    <2> QED
      BY <2>1, <2>2, <2>3, RunFrame
  <1>6. CASE Wait(p)
    <2>1. /\ pending' = [pending EXCEPT ![p] = {}] /\ NoChange /\ UNCHANGED <<reader, chan>>
          /\ pc' = [r \in Runs |-> IF \E c \in Calls : <<r, c>> \in pending[p]
                                   THEN After(r, pc[r], FALSE) ELSE pc[r]]
      BY <1>6 DEF Wait, loopVars, chanVars
    <2>2. \A q \in Procs : pending'[q] = IF q = p THEN {} ELSE pending[q]
      BY <2>1, Parts
    <2>3. \A x \in Runs : (closed[x] => pc[x] = "gone") /\ (loop[x] = "over" => closed[x])
      BY DEF RunInv
    <2>4. ASSUME NEW r \in Runs, NEW c \in Calls, <<r, c>> \in pending[p]
          PROVE  /\ pc[r] \notin {"idle", "gone"} /\ pc'[r] \in Places \ {"idle"}
                 /\ pc[r] \in Early <=> pc'[r] \in Early
                 /\ \A q \in Procs, d \in Calls : <<r, d>> \notin pending'[q]
      <3>1. pc[r] = c /\ pc'[r] = After(r, c, FALSE)
        <4>1. pc[r] = c
          BY <2>4, Returns
        <4>2. pc'[r] = After(r, pc[r], FALSE)
          BY <2>1, <2>4
        <4> QED
          BY <4>1, <4>2
      <3>2. /\ pc[r] \notin {"idle", "gone"} /\ After(r, c, FALSE) \in Places \ {"idle"}
            /\ pc[r] \in Early <=> After(r, c, FALSE) \in Early
            /\ \A q \in Procs, d \in Calls : <<r, d>> \in pending[q] => q = p /\ d = c
        BY <2>4, Returns
      <3>3. \A q \in Procs, d \in Calls : <<r, d>> \notin pending'[q]
        BY <2>2, <3>2
      <3> QED
        BY <3>1, <3>2, <3>3
    <2>5. \A r \in Runs : (~\E c \in Calls : <<r, c>> \in pending[p]) => pc'[r] = pc[r]
      BY <2>1
    <2>6. \A x \in Runs : closed[x] => pc'[x] = "gone"
      BY <2>3, <2>4, <2>5
    <2>7. \A r \in Runs :
            \/ pc'[r] = pc[r]
            \/ /\ pc[r] \notin {"idle", "gone"} /\ pc'[r] \in Places \ {"idle"}
               /\ pc[r] \in Early <=> pc'[r] \in Early
               /\ \A q \in Procs, d \in Calls : <<r, d>> \notin pending'[q]
      BY <2>4, <2>5
    <2>8. \A q \in Procs : \A c \in Runs \X Calls : c \in pending'[q] => c \in pending[q]
      BY <2>2
    <2> QED
      BY <2>1, <2>3, <2>6, <2>7, <2>8, RunFrame
  <1>7. CASE Tell(p)
    <2>1. SafeSend(runCh[p], "error") /\ "error" \in Events /\ runCh[p] \in Runs \cup {0}
          /\ NoChange /\ UNCHANGED <<pc, reader, pending>>
      BY <1>7, Parts DEF Tell, Events, Ends, Answers, runVars, loopVars
    <2> HIDE DEF NoChange
    <2> QED
      BY <2>1, <1>2, Registered
  <1> QED
    BY <1>1, <1>3, <1>4, <1>5, <1>6, <1>7 DEF Reader

LEMMA RunStepRun ==
  ASSUME TypeOK, ProcInv, RunInv, NEW r \in Runs, Begin(r) \/ Run(r)
  PROVE  RunInv'
  <1> DEFINE NoChange == UNCHANGED <<proc, loop, card, runCh, reader, chan, closed>>
             Alone(x) == \A q \in Procs, d \in Calls : <<x, d>> \notin pending[q]
  <1>0. \A x \in Runs : (closed[x] => pc[x] = "gone") /\ (loop[x] = "over" => closed[x])
    BY DEF RunInv
  <1>1. ASSUME pc[r] \notin Calls PROVE Alone(r)
    BY <1>1 DEF RunInv
  <1>2. ASSUME NEW a, pc' = [pc EXCEPT ![r] = a], pc[r] \notin {"idle", "gone"}, a \in Places \ {"idle"},
               pc[r] \in Early <=> a \in Early, Alone(r), NoChange, pending' = pending
        PROVE  RunInv'
    <2>1. \A x \in Runs : pc'[x] = IF x = r THEN a ELSE pc[x]
      BY <1>2, Parts
    <2>2. \A x \in Runs : closed[x] => pc'[x] = "gone"
      BY <1>0, <1>2, <2>1
    <2>3. \A x \in Runs :
            \/ pc'[x] = pc[x]
            \/ /\ pc[x] \notin {"idle", "gone"} /\ pc'[x] \in Places \ {"idle"}
               /\ pc[x] \in Early <=> pc'[x] \in Early
               /\ \A q \in Procs, d \in Calls : <<x, d>> \notin pending'[q]
      BY <1>2, <2>1
    <2> QED
      BY <1>0, <1>2, <2>2, <2>3, RunFrame
  <1>3. CASE Begin(r)
    <2>1. UNCHANGED <<loop, card, runCh, reader, chan, closed, pending>> /\ pc[r] = "idle"
      BY <1>3 DEF Begin, At, clientVars, chanVars, loopVars
    <2>2. Alone(r) /\ proc[r] = 0
      <3>1. pc[r] \notin Calls
        BY <2>1 DEF Calls
      <3> QED
        BY <1>1, <2>1, <3>1 DEF RunInv
    <2>3. \E p \in Procs, a \in {"load", "initialize"} :
            proc' = [proc EXCEPT ![r] = p] /\ pc' = [pc EXCEPT ![r] = a]
      BY <1>3, BeginCases
    <2>4. PICK p \in Procs, a \in {"load", "initialize"} :
            proc' = [proc EXCEPT ![r] = p] /\ pc' = [pc EXCEPT ![r] = a]
      BY <2>3
    <2>5. \A x \in Runs : pc'[x] = (IF x = r THEN a ELSE pc[x]) /\ proc'[x] = (IF x = r THEN p ELSE proc[x])
      BY <2>4, Parts
    <2>6. a \in Early \ {"idle"} /\ pc[r] \in Early /\ pc[r] \notin Late
      BY <2>1 DEF Early, Late
    <2>7. p # 0
      BY Constants
    <2>8. \A x \in Runs : pc'[x] = "idle" <=> proc'[x] = 0
      BY <2>5, <2>6, <2>7 DEF RunInv
    <2>9. \A x \in Runs : pc'[x] \in Early =>
            loop'[x] = "none" /\ chan'[x] = << >> /\ ~closed'[x] /\ card'[x] = "running"
      BY <2>1, <2>5, <2>6 DEF RunInv
    <2>10. \A x \in Runs : (closed'[x] => pc'[x] = "gone") /\ (loop'[x] = "over" => closed'[x])
      BY <1>0, <2>1, <2>5
    <2>11. \A q \in Procs : runCh'[q] # 0 => proc'[runCh'[q]] = q /\ pc'[runCh'[q]] \in Late
      BY <2>1, <2>5, <2>6, Parts DEF RunInv
    <2>12. \A q \in Procs : reader'[q] # 0 => proc'[reader'[q]] = q /\ pc'[reader'[q]] \in Late
      BY <2>1, <2>5, <2>6, Parts DEF RunInv
    <2>13. \A q \in Procs, x \in Runs, c \in Calls :
             <<x, c>> \in pending'[q] => pc'[x] = c /\ proc'[x] = q
      BY <2>1, <2>2, <2>5 DEF RunInv
    <2> QED
      BY <2>8, <2>9, <2>10, <2>11, <2>12, <2>13 DEF RunInv
  <1>4. ASSUME NEW c \in Calls, Call(r, c) PROVE RunInv'
    <2>1. pc[r] = c /\ <<r, c>> \notin pending[proc[r]] /\ NoChange
      BY <1>4 DEF Call, At, chanVars, loopVars
    <2>2. Alone(r)
      BY <2>1 DEF RunInv
    <2>3. c \notin {"idle", "gone"}
      BY DEF Calls
    <2>4. CASE Goto(r, After(r, c, FALSE)) /\ UNCHANGED pending
      <3>1. After(r, c, FALSE) \in Places \ {"idle"} /\ (c \in Early <=> After(r, c, FALSE) \in Early)
        <4>1. c \in Early <=> c # "prompt"
          BY Constants
        <4>2. "failed" \in Places \ Early /\ "idle" # "failed"
          BY Constants DEF Places, Late
        <4> QED
          BY <4>1, <4>2, AfterPlaces, Constants DEF Places
      <3> QED
        BY <2>1, <2>2, <2>3, <2>4, <3>1, <1>2 DEF Goto
    <2>5. CASE pending' = [pending EXCEPT ![proc[r]] = @ \cup {<<r, c>>}] /\ UNCHANGED pc
      <3>1. proc[r] \in Procs
        BY <2>1, <2>3, Parts DEF RunInv
      <3>2. \A q \in Procs : pending'[q] = IF q = proc[r] THEN pending[q] \cup {<<r, c>>} ELSE pending[q]
        BY <2>5, Parts
      <3>3. \A q \in Procs, x \in Runs, d \in Calls :
              <<x, d>> \in pending'[q] => pc'[x] = d /\ proc'[x] = q
        BY <2>1, <2>5, <3>1, <3>2 DEF RunInv
      <3> QED
        BY <2>1, <2>5, <3>3 DEF RunInv
    <2> QED
      BY <1>4, <2>4, <2>5 DEF Call
  <1>5. CASE Spawned(r) \/ NotSpawned(r) \/ KeepSession(r)
    <2>1. \E a \in {"load", "refused", "register", "new"} :
            /\ pc' = [pc EXCEPT ![r] = a] /\ pc[r] \in {"spawned", "unspawned", "load"}
            /\ pc[r] = "load" => <<r, "load">> \notin pending[proc[r]]
      BY <1>5 DEF Spawned, NotSpawned, KeepSession, At, Goto
    <2>2. NoChange /\ pending' = pending
      BY <1>5 DEF Spawned, NotSpawned, KeepSession, clientVars, chanVars, loopVars
    <2>3. Alone(r)
      BY <2>1, <1>1 DEF RunInv, Calls
    <2>4. PICK a \in {"load", "refused", "register", "new"} : pc' = [pc EXCEPT ![r] = a]
      BY <2>1
    <2>5. pc[r] \in Early /\ pc[r] \notin {"idle", "gone"} /\ a \in Early \ {"idle"} /\ a \in Places
      BY <2>1 DEF Early, Places
    <2> QED
      BY <2>2, <2>3, <2>4, <2>5, <1>2
  <1>6. CASE Register(r)
    <2>1. pc[r] = "register" /\ pc[r] \in Early /\ pc[r] \notin Calls \cup {"idle", "gone"}
      BY <1>6 DEF Register, At, Early, Calls
    <2>2. UNCHANGED <<proc, card, reader, closed, pending>>
      BY <1>6 DEF Register, clientVars
    <2>3. CASE Goto(r, "refused") /\ UNCHANGED <<runCh, chan, loop>>
      <3>1. "refused" \in Early /\ "refused" \in Places /\ "refused" # "idle"
        BY DEF Early, Places
      <3> QED
        BY <2>1, <2>2, <2>3, <3>1, <1>1, <1>2 DEF Goto
    <2>4. CASE /\ runCh' = [runCh EXCEPT ![proc[r]] = r] /\ chan' = [chan EXCEPT ![r] = <<"system">>]
               /\ loop' = [loop EXCEPT ![r] = "reading"] /\ pc' = [pc EXCEPT ![r] = "prompt"]
      <3>1. \A x \in Runs : /\ pc'[x] = IF x = r THEN "prompt" ELSE pc[x]
                            /\ chan'[x] = IF x = r THEN <<"system">> ELSE chan[x]
                            /\ loop'[x] = IF x = r THEN "reading" ELSE loop[x]
        BY <2>4, Parts
      <3>2. \A q \in Procs : runCh'[q] = IF q = proc[r] THEN r ELSE runCh[q]
        BY <2>4, Parts
      <3>3. "prompt" \in Late /\ "prompt" \notin Early /\ "prompt" # "idle" /\ proc[r] # 0 /\ ~closed[r]
            /\ pc[r] \notin Late
        BY <2>1, Constants DEF RunInv, Late
      <3>4. \A x \in Runs : pc'[x] = "idle" <=> proc'[x] = 0
        BY <2>1, <2>2, <3>1, <3>3 DEF RunInv
      <3>5. \A x \in Runs : pc'[x] \in Early =>
              loop'[x] = "none" /\ chan'[x] = << >> /\ ~closed'[x] /\ card'[x] = "running"
        BY <2>2, <3>1, <3>3 DEF RunInv
      <3>6. \A x \in Runs : (closed'[x] => pc'[x] = "gone") /\ (loop'[x] = "over" => closed'[x])
        BY <1>0, <2>2, <3>1, <3>3
      <3>7. \A q \in Procs : runCh'[q] # 0 => proc'[runCh'[q]] = q /\ pc'[runCh'[q]] \in Late
        <4> SUFFICES ASSUME NEW q \in Procs, NEW x, x = runCh'[q], x # 0 PROVE proc[x] = q /\ pc'[x] \in Late
          BY <2>2
        <4>1. CASE x = r /\ q = proc[r]
          BY <3>1, <3>3, <4>1
        <4>2. CASE x = runCh[q]
          <5>1. x \in Runs /\ proc[x] = q /\ pc[x] \in Late
            BY <4>2, Registered
          <5> QED
            BY <3>1, <3>3, <5>1
        <4> QED
          BY <3>2, <4>1, <4>2
      <3>8. \A q \in Procs : reader'[q] # 0 => proc'[reader'[q]] = q /\ pc'[reader'[q]] \in Late
        <4> SUFFICES ASSUME NEW q \in Procs, NEW x, x = reader[q], x # 0 PROVE proc[x] = q /\ pc'[x] \in Late
          BY <2>2
        <4>1. x \in Runs /\ proc[x] = q /\ pc[x] \in Late
          BY Registered
        <4> QED
          BY <3>1, <3>3, <4>1
      <3>9. \A q \in Procs, x \in Runs, c \in Calls :
              <<x, c>> \in pending'[q] => pc'[x] = c /\ proc'[x] = q
        BY <2>1, <2>2, <3>1, <1>1 DEF RunInv
      <3> QED
        BY <3>4, <3>5, <3>6, <3>7, <3>8, <3>9 DEF RunInv
    <2> QED
      BY <1>6, <2>3, <2>4 DEF Register, Goto
  <1>7. CASE Conclude(r)
    <2>1. /\ pc[r] \in {"answered", "failed"} /\ pc' = [pc EXCEPT ![r] = "leaving"]
          /\ \E x \in {r, 0}, e \in Events : SafeSend(x, e)
          /\ UNCHANGED <<proc, loop, card, runCh, reader, closed, pending>>
      BY <1>7 DEF Conclude, At, Goto, Events, Ends, Answers, clientVars, loopVars
    <2>2. \A x \in Runs : chan'[x] = chan[x] \/ x = r
      <3>1. PICK x \in {r, 0}, e \in Events : SafeSend(x, e)
        BY <2>1
      <3>2. x \in Runs \cup {0} /\ \A y \in Runs : y # 0
        BY Constants
      <3> QED
        BY <3>1, <3>2, Sent
    <2>3. /\ pc[r] \notin Calls \cup {"idle", "gone"} \cup Early
          /\ "leaving" \in Places \ {"idle"} /\ "leaving" \notin Early
      BY <2>1 DEF Calls, Early, Late, Places
    <2>4. \A x \in Runs : pc'[x] = IF x = r THEN "leaving" ELSE pc[x]
      BY <2>1, Parts
    <2>5. \A x \in Runs : closed[x] => pc'[x] = "gone"
      BY <1>0, <2>3, <2>4
    <2>6. \A x \in Runs :
            \/ pc'[x] = pc[x]
            \/ /\ pc[x] \notin {"idle", "gone"} /\ pc'[x] \in Places \ {"idle"}
               /\ pc[x] \in Early <=> pc'[x] \in Early
               /\ \A q \in Procs, d \in Calls : <<x, d>> \notin pending'[q]
      BY <1>1, <2>1, <2>3, <2>4
    <2>7. \A x \in Runs : pc[x] \in Early => chan'[x] = chan[x]
      BY <2>2, <2>3
    <2> QED
      BY <1>0, <2>1, <2>5, <2>6, <2>7, RunFrame
  <1>8. CASE Finish(r)
    <2>1. /\ pc[r] = "leaving" /\ pc' = [pc EXCEPT ![r] = "gone"] /\ closed' = [closed EXCEPT ![r] = TRUE]
          /\ runCh' = [runCh EXCEPT ![proc[r]] = IF @ = r THEN 0 ELSE @]
          /\ UNCHANGED <<proc, loop, card, chan, reader, pending>>
      BY <1>8 DEF Finish, At, Goto, clientVars, loopVars
    <2>2. /\ pc[r] \notin Calls \cup {"idle", "gone"} \cup Early
          /\ "gone" \in Places \ {"idle"} /\ "gone" \notin Early
      BY <2>1 DEF Calls, Early, Late, Places
    <2>3. \A x \in Runs : /\ pc'[x] = IF x = r THEN "gone" ELSE pc[x]
                          /\ closed'[x] = IF x = r THEN TRUE ELSE closed[x]
      BY <2>1, Parts
    <2>4. \A q \in Procs : runCh'[q] \in {runCh[q], 0}
      BY <2>1, Parts
    <2>5. \A x \in Runs : (closed'[x] => pc'[x] = "gone") /\ (loop'[x] = "over" => closed'[x])
      BY <1>0, <2>1, <2>3
    <2>6. \A x \in Runs :
            \/ pc'[x] = pc[x]
            \/ /\ pc[x] \notin {"idle", "gone"} /\ pc'[x] \in Places \ {"idle"}
               /\ pc[x] \in Early <=> pc'[x] \in Early
               /\ \A q \in Procs, d \in Calls : <<x, d>> \notin pending'[q]
      BY <1>1, <2>1, <2>2, <2>3
    <2>7. \A x \in Runs : pc[x] \in Early => closed'[x] = closed[x]
      BY <2>2, <2>3
    <2> QED
      BY <2>1, <2>4, <2>5, <2>6, <2>7, RunFrame
  <1> QED
    BY <1>3, <1>4, <1>5, <1>6, <1>7, <1>8
       DEF Run, Initialize, Authenticate, Load, New, Prompt, Calls

LEMMA RunStep ==
  ASSUME TypeOK, ProcInv, RunInv, [Next]_vars
  PROVE  RunInv'
  <1>0. \A x \in Runs : (closed[x] => pc[x] = "gone") /\ (loop[x] = "over" => closed[x])
    BY DEF RunInv
  <1>1. ASSUME NEW r \in Runs, loop[r] # "none", UNCHANGED <<pc, proc, closed, runCh, reader, pending>>,
               \A x \in Runs : x # r => UNCHANGED <<loop[x], chan[x], card[x]>>,
               loop'[r] = "over" => closed[r]
        PROVE  RunInv'
    <2>1. pc[r] \notin Early
      BY <1>1 DEF RunInv
    <2> QED
      BY <1>0, <1>1, <2>1, RunFrame
  <1>2. ASSUME NEW r \in Runs, Receive(r) PROVE RunInv'
    <2>1. /\ loop[r] # "none" /\ UNCHANGED <<pc, proc, closed, runCh, reader, pending>>
          /\ \A x \in Runs : x # r => UNCHANGED <<loop[x], chan[x], card[x]>>
      BY <1>2, Parts DEF Receive, Looping, clientVars, runVars
    <2>2. loop'[r] # "over"
      BY <1>2, Parts DEF Receive, Looping
    <2> QED
      BY <1>1, <2>1, <2>2
  <1>3. ASSUME NEW r \in Runs, Reply(r) PROVE RunInv'
    <2>1. /\ loop[r] # "none" /\ UNCHANGED <<pc, proc, closed, runCh, reader, pending, chan, card>>
          /\ loop' = [loop EXCEPT ![r] = "reading"]
      BY <1>3 DEF Reply, Looping, clientVars, chanVars, runVars
    <2>2. loop'[r] # "over" /\ \A x \in Runs : x # r => UNCHANGED <<loop[x], chan[x], card[x]>>
      BY <2>1, Parts
    <2> QED
      BY <1>1, <2>1, <2>2
  <1>4. ASSUME NEW r \in Runs, SeesClose(r) PROVE RunInv'
    <2>1. /\ loop[r] # "none" /\ UNCHANGED <<pc, proc, closed, runCh, reader, pending, chan>> /\ closed[r]
          /\ \A x \in Runs : x # r => UNCHANGED <<loop[x], chan[x], card[x]>>
      BY <1>4, Parts DEF SeesClose, Looping, clientVars, chanVars, runVars
    <2> QED
      BY <1>1, <2>1
  <1>5. ASSUME NEW r \in Runs, Stop(r) PROVE RunInv'
    BY <1>5, RunUnchanged DEF Stop, Cancel, clientVars, chanVars, runVars
  <1>6. ASSUME NEW r \in Runs, CardFails(r) PROVE RunInv'
    <2>1. /\ loop[r] # "none" /\ UNCHANGED <<pc, proc, closed, runCh, reader, pending, chan, card>>
          /\ loop' = [loop EXCEPT ![r] = "left"]
      BY <1>6 DEF CardFails, Cancel, Looping, clientVars, chanVars, runVars
    <2>2. loop'[r] # "over" /\ \A x \in Runs : x # r => UNCHANGED <<loop[x], chan[x], card[x]>>
      BY <2>1, Parts
    <2> QED
      BY <1>1, <2>1, <2>2
  <1>7. ASSUME Reset PROVE RunInv'
    BY <1>7, RunUnchanged DEF Reset, clientVars, chanVars, runVars, loopVars
  <1>8. CASE UNCHANGED vars
    BY <1>8, RunUnchanged DEF vars, clientVars, chanVars, runVars, loopVars
  <1> QED
    BY <1>2, <1>3, <1>4, <1>5, <1>6, <1>7, <1>8, RunStepProc, RunStepRun DEF Next, Loop

------------------------------------------------------------------------------
\* What a sent event changes of what is told.
LEMMA SentHas ==
  ASSUME TypeOK, NEW r \in Runs \cup {0}, NEW event \in Events, SafeSend(r, event), NEW x \in Runs
  PROVE  /\ \A e : Has(chan'[x], e) => Has(chan[x], e) \/ (x = r /\ e = event)
         /\ \A e : Has(chan[x], e) => Has(chan'[x], e)
         /\ event # "ask" /\ Once(chan[x], {"ask"}) => Once(chan'[x], {"ask"})
         /\ dropped[x] => dropped'[x]
         /\ x = r => closed[r] \/ dropped'[r] \/ Has(chan'[r], event)
  <1>1. chan[x] \in Seq(Events)
    BY Parts
  <1>2. /\ ToSet(Append(chan[x], event)) = ToSet(chan[x]) \cup {event}
        /\ event # "ask" /\ Once(chan[x], {"ask"}) => Once(Append(chan[x], event), {"ask"})
    <2>1. event # "ask" => event \notin {"ask"}
      OBVIOUS
    <2> QED
      BY <1>1, <2>1, Grown
  <1>3. /\ chan'[x] = chan[x] \/ (x = r /\ chan'[x] = Append(chan[x], event))
        /\ dropped[x] => dropped'[x]
    BY Sent
  <1>4. x = r => closed[r] \/ dropped'[r] \/ chan'[r] = Append(chan[r], event)
    BY Sent, Constants
  <1> QED
    BY <1>2, <1>3, <1>4 DEF Has

\* DoneInv stays while what is told stays told, and a done comes of an answer.
LEMMA DoneFrame ==
  ASSUME TypeOK, DoneInv, answered \subseteq answered',
         \A p \in Procs : \A l \in ToSet(stdout'[p]) :
           l \in ToSet(stdout[p]) \/ (AnsweredLine(l) => l.run \in answered'),
         \A p \in Procs \cup {0} : dead[p] => dead'[p],
         \A r \in Runs :
           /\ proc'[r] = proc[r] \/ (pc'[r] \notin {"leaving", "gone"} /\ loop'[r] # "over")
           /\ pc'[r] = "answered" => pc[r] = "answered" \/ r \in answered'
           /\ \A e \in Answers : Has(chan'[r], e) => Has(chan[r], e) \/ r \in answered'
           /\ card'[r] \in Answers => card'[r] = card[r] \/ r \in answered'
           /\ loop'[r] = "over" <=> loop[r] = "over"
           /\ dropped[r] => dropped'[r]
           /\ IsTold(r) => IsTold(r)' \/ r \in answered'
           /\ pc'[r] \in {"leaving", "gone"} =>
                \/ pc[r] \in {"leaving", "gone"}
                \/ r \in answered' \/ dropped'[r] \/ dead'[proc[r]] \/ IsTold(r)'
  PROVE  DoneInv'
  <1>1. \A p \in Procs : \A l \in ToSet(stdout'[p]) : AnsweredLine(l) => l.run \in answered'
    BY DEF DoneInv
  <1>2. ASSUME NEW r \in Runs
        PROVE  /\ pc'[r] = "answered" => r \in answered'
               /\ \A e \in Answers : Has(chan'[r], e) => r \in answered'
               /\ card'[r] \in Answers /\ loop'[r] # "over" => r \in answered'
               /\ loop'[r] = "over" /\ card'[r] = "done" /\ ~dropped'[r] /\ ~dead'[proc'[r]] =>
                    r \in answered'
               /\ pc'[r] \in {"leaving", "gone"} /\ ~dropped'[r] /\ ~dead'[proc'[r]] =>
                    r \in answered' \/ IsTold(r)'
    <2>1. dead[proc[r]] => dead'[proc[r]]
      BY Parts
    <2>2. /\ pc[r] = "answered" => r \in answered
          /\ \A e \in Answers : Has(chan[r], e) => r \in answered
          /\ card[r] \in Answers /\ loop[r] # "over" => r \in answered
          /\ loop[r] = "over" /\ card[r] = "done" /\ ~dropped[r] /\ ~dead[proc[r]] => r \in answered
          /\ pc[r] \in {"leaving", "gone"} /\ ~dropped[r] /\ ~dead[proc[r]] => r \in answered \/ IsTold(r)
      BY DEF DoneInv, DoneIsDone
    <2>3. /\ proc'[r] = proc[r] \/ (pc'[r] \notin {"leaving", "gone"} /\ loop'[r] # "over")
          /\ pc'[r] = "answered" => pc[r] = "answered" \/ r \in answered'
          /\ \A e \in Answers : Has(chan'[r], e) => Has(chan[r], e) \/ r \in answered'
          /\ card'[r] \in Answers => card'[r] = card[r] \/ r \in answered'
          /\ loop'[r] = "over" <=> loop[r] = "over"
          /\ dropped[r] => dropped'[r]
          /\ IsTold(r) => IsTold(r)' \/ r \in answered'
          /\ pc'[r] \in {"leaving", "gone"} =>
               \/ pc[r] \in {"leaving", "gone"}
               \/ r \in answered' \/ dropped'[r] \/ dead'[proc[r]] \/ IsTold(r)'
      OBVIOUS
    <2> QED
      BY <2>1, <2>2, <2>3 DEF Answers
  <1> QED
    BY <1>1, <1>2 DEF DoneInv, DoneIsDone

LEMMA DoneUnchanged ==
  ASSUME DoneInv, UNCHANGED <<stdout, answered, pc, chan, card, loop, dropped, dead, proc>>
  PROVE  DoneInv'
  BY DEF DoneInv, DoneIsDone, IsTold

LEMMA DoneStepProc ==
  ASSUME TypeOK, ProcInv, RunInv, DoneInv, NEW p \in Procs, Agent(p) \/ Reader(p)
  PROVE  DoneInv'
  <1> DEFINE Runs0 == UNCHANGED <<pc, chan, card, loop, dropped, proc>>
  <1>1. ASSUME answered \subseteq answered', UNCHANGED dead, Runs0,
               \A q \in Procs : \A l \in ToSet(stdout'[q]) :
                 l \in ToSet(stdout[q]) \/ (AnsweredLine(l) => l.run \in answered')
        PROVE  DoneInv'
    BY <1>1, DoneFrame DEF IsTold
  <1>2. ASSUME NEW k \in Calls \cup Chunks \cup {"question", "permission", "other"}, NEW r \in Runs \cup {0},
               NEW ok \in BOOLEAN, Says(p, k, r, ok), k = "prompt" /\ ok => r \in answered'
        PROVE  \A q \in Procs : \A l \in ToSet(stdout'[q]) :
                 l \in ToSet(stdout[q]) \/ (AnsweredLine(l) => l.run \in answered')
    <2> DEFINE line == [kind |-> k, run |-> r, ok |-> ok]
    <2>1. \A q \in Procs : stdout'[q] = IF q = p THEN Append(stdout[q], line) ELSE stdout[q]
      BY <1>2, Parts DEF Says
    <2>2. ToSet(Append(stdout[p], line)) = ToSet(stdout[p]) \cup {line}
      <3>1. line \in Lines /\ stdout[p] \in Seq(Lines)
        BY Parts DEF Lines
      <3> HIDE DEF line
      <3> QED
        BY <3>1, Grown
    <2>3. AnsweredLine(line) => line.run \in answered'
      BY <1>2 DEF AnsweredLine
    <2> HIDE DEF line
    <2> QED
      BY <2>1, <2>2, <2>3
  <1>3. ASSUME Answer(p) PROVE DoneInv'
    <2> DEFINE r == stdin[p][1][1]
               call == stdin[p][1][2]
    <2>1. UNCHANGED answered /\ UNCHANGED dead /\ Runs0
      BY <1>3 DEF Answer, AgentOnly, clientVars, chanVars, runVars, loopVars
    <2>2. r \in Runs /\ call \in Calls \cup {"cancel"}
      <3>1. stdin[p] \in Seq(Runs \X (Calls \cup {"cancel"})) /\ stdin[p] # << >>
        BY <1>3, Parts DEF Answer
      <3>2. stdin[p][1] \in Runs \X (Calls \cup {"cancel"})
        BY <3>1, HeadTailProperties
      <3> QED
        BY <3>2
    <2> HIDE DEF r, call
    <2>3. \/ call # "cancel" /\ Says(p, call, r, FALSE)
          \/ call \in Calls \ {"prompt"} /\ Says(p, call, r, TRUE)
          \/ UNCHANGED stdout
      BY <1>3 DEF Answer, r, call
    <2>4. \A q \in Procs : \A l \in ToSet(stdout'[q]) :
            l \in ToSet(stdout[q]) \/ (AnsweredLine(l) => l.run \in answered')
      <3>1. CASE call \in Calls /\ Says(p, call, r, FALSE)
        BY <1>2, <2>2, <3>1
      <3>2. CASE call \in Calls \ {"prompt"} /\ Says(p, call, r, TRUE)
        BY <1>2, <2>2, <3>2
      <3> QED
        BY <2>2, <2>3, <3>1, <3>2
    <2> QED
      BY <1>1, <2>1, <2>4
  <1>4. ASSUME Settle(p) PROVE DoneInv'
    <2>1. answered' = answered \cup {turn[p]} /\ UNCHANGED dead /\ Runs0
      BY <1>4 DEF Settle, AgentOnly, clientVars, chanVars, runVars, loopVars
    <2>2. Says(p, "prompt", turn[p], TRUE) /\ turn[p] \in Runs \cup {0} /\ turn[p] \in answered'
          /\ "prompt" \in Calls
      BY <1>4, <2>1, Parts DEF Settle, Calls
    <2>3. \A q \in Procs : \A l \in ToSet(stdout'[q]) :
            l \in ToSet(stdout[q]) \/ (AnsweredLine(l) => l.run \in answered')
      BY <1>2, <2>2
    <2> QED
      BY <1>1, <2>1, <2>3
  <1>5. ASSUME (\E k \in {"question", "permission", "other"} : Ask(p, k)) \/ (\E c \in Chunks : Chat(p, c))
        PROVE  DoneInv'
    <2>1. answered' = answered /\ UNCHANGED dead /\ Runs0
      BY <1>5 DEF Ask, Chat, AgentOnly, clientVars, chanVars, runVars, loopVars
    <2>2. \E k \in Chunks \cup {"question", "permission", "other"}, r \in Runs \cup {0} : Says(p, k, r, TRUE)
      BY <1>5, Parts DEF Ask, Chat
    <2>3. "prompt" \notin Chunks \cup {"question", "permission", "other"}
      BY Constants DEF Calls
    <2>4. \A q \in Procs : \A l \in ToSet(stdout'[q]) :
            l \in ToSet(stdout[q]) \/ (AnsweredLine(l) => l.run \in answered')
      BY <1>2, <2>2, <2>3
    <2> QED
      BY <1>1, <2>1, <2>4
  <1>6. ASSUME Die(p) PROVE DoneInv'
    BY <1>6, DoneUnchanged DEF Die, clientVars, chanVars, runVars, loopVars
  <1>7. ASSUME NEW r \in Runs \cup {0}, NEW e \in Events \ Answers, SafeSend(r, e),
               UNCHANGED <<pc, card, loop, proc, answered, dead>>,
               \A q \in Procs : ToSet(stdout'[q]) \subseteq ToSet(stdout[q])
        PROVE  DoneInv'
    <2>1. \A x \in Runs : /\ \A a \in Answers : Has(chan'[x], a) => Has(chan[x], a)
                          /\ Has(chan[x], "error") => Has(chan'[x], "error")
                          /\ dropped[x] => dropped'[x]
      BY <1>7, SentHas
    <2> QED
      BY <1>7, <2>1, DoneFrame DEF IsTold
  <1>8. ASSUME Read(p) PROVE DoneInv'
    <2> DEFINE line == Head(stdout[p])
    <2>1. UNCHANGED <<dead, card, loop, proc, answered>>
      BY <1>8 DEF Read, loopVars
    <2>2. /\ line \in ToSet(stdout[p]) /\ line.run \in Runs \cup {0} /\ line.ok \in BOOLEAN
          /\ \A q \in Procs : ToSet(stdout'[q]) \subseteq ToSet(stdout[q])
      <3>1. stdout[p] # << >> /\ stdout' = [stdout EXCEPT ![p] = Tail(@)] /\ stdout[p] \in Seq(Lines)
        BY <1>8, Parts DEF Read
      <3>2. ToSet(Tail(stdout[p])) \cup {line} = ToSet(stdout[p])
        BY <3>1, Shrunk
      <3>3. line.run \in Runs \cup {0} /\ line.ok \in BOOLEAN
        BY <3>1, LineRead
      <3>4. \A q \in Procs : stdout'[q] = IF q = p THEN Tail(stdout[q]) ELSE stdout[q]
        BY <3>1, Parts
      <3> QED
        BY <3>2, <3>3, <3>4
    <2>3. CASE line.kind \in Chunks /\ SafeSend(runCh[p], EventOf(line.kind))
               /\ UNCHANGED <<pending, pc, sid, reader, ask, twice, faithful>>
      <3>1. EventOf(line.kind) \in Events \ Answers /\ runCh[p] \in Runs \cup {0}
        BY <2>3, Constants, Parts DEF Ends
      <3> QED
        BY <1>7, <2>1, <2>2, <2>3, <3>1
    <2>4. CASE line.kind \in Calls /\ Response(p, line) /\ UNCHANGED <<chan, dropped>>
      <3> HIDE DEF line
      <3>1. pc' = IF <<line.run, line.kind>> \in pending[p]
                  THEN [pc EXCEPT ![line.run] = After(line.run, line.kind, line.ok)] ELSE pc
        BY <2>4 DEF Response
      <3>2. ASSUME NEW x \in Runs
            PROVE  /\ pc'[x] = "answered" => pc[x] = "answered" \/ x \in answered
                   /\ pc'[x] \in {"leaving", "gone"} => pc[x] \in {"leaving", "gone"}
        <4>1. CASE pc'[x] = pc[x]
          BY <4>1
        <4>2. CASE pc'[x] # pc[x]
          <5>1. x = line.run /\ pc'[x] = After(x, line.kind, line.ok)
            BY <3>1, <4>2, Parts
          <5>2. CASE line.kind = "prompt"
            <6>1. pc'[x] = IF line.ok THEN "answered" ELSE "failed"
              BY <2>2, <2>4, <5>1, <5>2, AfterPlaces
            <6>2. line.ok => x \in answered
              BY <2>2, <5>1, <5>2 DEF DoneInv, AnsweredLine
            <6> QED
              BY <6>1, <6>2
          <5>3. CASE line.kind # "prompt"
            <6>1. pc'[x] \in Early
              BY <2>2, <2>4, <5>1, <5>3, AfterPlaces
            <6> QED
              BY <6>1 DEF Early
          <5> QED
            BY <5>2, <5>3
        <4> QED
          BY <4>1, <4>2
      <3> QED
        BY <2>1, <2>2, <2>4, <3>2, DoneFrame DEF IsTold
    <2>5. CASE UNCHANGED <<pc, chan, dropped>>
      BY <1>1, <2>1, <2>2, <2>5
    <2> QED
      BY <1>8, ReadCases, <2>3, <2>4, <2>5 DEF Question
  <1>9. ASSUME SendAsk(p) PROVE DoneInv'
    <2>1. /\ reader[p] \in Runs /\ UNCHANGED <<pc, card, loop, proc, answered, dead, stdout, dropped>>
          /\ chan' = chan \/ chan' = [chan EXCEPT ![reader[p]] = Append(@, "ask")]
      BY <1>9, Parts DEF SendAsk, clientVars, procVars, runVars, loopVars
    <2>2. \A x \in Runs : ToSet(chan'[x]) \cup {"ask"} = ToSet(chan[x]) \cup {"ask"}
      <3>1. "ask" \in Events /\ chan[reader[p]] \in Seq(Events)
        BY <2>1, Parts DEF Events
      <3>2. ToSet(Append(chan[reader[p]], "ask")) = ToSet(chan[reader[p]]) \cup {"ask"}
        BY <3>1, Grown
      <3>3. \A x \in Runs : chan'[x] = chan[x] \/ (x = reader[p] /\ chan'[x] = Append(chan[x], "ask"))
        BY <2>1, Parts
      <3> QED
        BY <3>2, <3>3
    <2>3. \A x \in Runs : \A e \in Ends : Has(chan'[x], e) <=> Has(chan[x], e)
      BY <2>2 DEF Has, Ends, Answers
    <2> QED
      BY <2>1, <2>3, DoneFrame DEF IsTold, Ends
  <1>10. ASSUME AskTimesOut(p) PROVE DoneInv'
    BY <1>10, DoneUnchanged DEF AskTimesOut, clientVars, procVars, chanVars, runVars, loopVars
  <1>11. ASSUME Wait(p) PROVE DoneInv'
    <2>1. /\ UNCHANGED <<proc, card, loop, answered, chan, dropped>>
          /\ dead' = [dead EXCEPT ![p] = TRUE]
          /\ pc' = [r \in Runs |-> IF \E c \in Calls : <<r, c>> \in pending[p]
                                   THEN After(r, pc[r], FALSE) ELSE pc[r]]
          /\ stdout' \in {stdout, [stdout EXCEPT ![p] = << >>]}
      BY <1>11 DEF Wait, chanVars, loopVars
    <2>2. \A q \in Procs \cup {0} : dead[q] => dead'[q]
      BY <2>1, Parts, Constants
    <2>3. \A q \in Procs : ToSet(stdout'[q]) \subseteq ToSet(stdout[q])
      <3>1. \A q \in Procs : stdout'[q] \in {stdout[q], << >>}
        BY <2>1, Parts
      <3>2. ToSet(<< >>) = {}
        BY DEF ToSet
      <3> QED
        BY <3>1, <3>2
    <2>4. ASSUME NEW x \in Runs
          PROVE  /\ pc'[x] = "answered" => pc[x] = "answered"
                 /\ pc'[x] \in {"leaving", "gone"} => pc[x] \in {"leaving", "gone"}
      <3>1. CASE pc'[x] = pc[x]
        BY <3>1
      <3>2. ASSUME NEW c \in Calls, <<x, c>> \in pending[p]
            PROVE  pc'[x] \in Early \cup {"failed"}
        <4>1. pc'[x] = After(x, c, FALSE)
          BY <2>1, <3>2, Returns
        <4> QED
          BY <4>1, AfterPlaces
      <3> QED
        BY <2>1, <3>1, <3>2 DEF Early
    <2> QED
      BY <2>1, <2>2, <2>3, <2>4, DoneFrame DEF IsTold
  <1>12. ASSUME Tell(p) PROVE DoneInv'
    <2>1. SafeSend(runCh[p], "error") /\ "error" \in Events \ Answers /\ runCh[p] \in Runs \cup {0}
          /\ UNCHANGED <<pc, card, loop, proc, answered, dead, stdout>>
      BY <1>12, Parts DEF Tell, Events, Ends, Answers, procVars, runVars, loopVars
    <2> QED
      BY <1>7, <2>1
  <1> QED
    BY <1>3, <1>4, <1>5, <1>6, <1>8, <1>9, <1>10, <1>11, <1>12 DEF Agent, Reader

LEMMA DoneStepRun ==
  ASSUME TypeOK, ProcInv, RunInv, DoneInv, NEW r \in Runs, Begin(r) \/ Run(r)
  PROVE  DoneInv'
  <1> DEFINE Rest == UNCHANGED <<stdout, answered, card, dropped, dead>>
  <1>1. ASSUME NEW a \in Early, pc[r] \in Places, pc' = [pc EXCEPT ![r] = a], Rest, UNCHANGED <<chan, loop>>,
               proc' = proc \/ (pc[r] = "idle" /\ \A x \in Runs : x # r => proc'[x] = proc[x])
        PROVE  DoneInv'
    <2>1. a \notin {"answered", "leaving", "gone"}
      BY DEF Early
    <2>2. \A x \in Runs : pc'[x] = IF x = r THEN a ELSE pc[x]
      BY <1>1, Parts
    <2>3. pc[r] = "idle" => loop[r] # "over"
      BY DEF RunInv, Early
    <2> QED
      BY <1>1, <2>1, <2>2, <2>3, DoneFrame DEF IsTold
  <1>2. pc[r] \in Places
    BY Parts
  <1>3. CASE Begin(r)
    <2>1. Rest /\ UNCHANGED <<chan, loop>> /\ pc[r] = "idle"
      BY <1>3 DEF Begin, At, clientVars, chanVars, loopVars
    <2>2. PICK p \in Procs, a \in {"load", "initialize"} :
            proc' = [proc EXCEPT ![r] = p] /\ pc' = [pc EXCEPT ![r] = a]
      BY <1>3, BeginCases
    <2>3. a \in Early /\ \A x \in Runs : x # r => proc'[x] = proc[x]
      BY <2>2, Parts DEF Early
    <2> QED
      BY <1>1, <1>2, <2>1, <2>2, <2>3
  <1>4. ASSUME NEW c \in Calls, Call(r, c) PROVE DoneInv'
    <2>1. Rest /\ UNCHANGED <<chan, loop, proc>>
      BY <1>4 DEF Call, chanVars, loopVars
    <2>2. CASE Goto(r, After(r, c, FALSE))
      <3>1. CASE c = "prompt"
        <4>1. \A x \in Runs : pc'[x] = IF x = r THEN "failed" ELSE pc[x]
          BY <2>2, <3>1, AfterPlaces, Parts DEF Goto
        <4> QED
          BY <2>1, <4>1, DoneFrame DEF IsTold
      <3>2. CASE c # "prompt"
        BY <1>1, <1>2, <2>1, <2>2, <3>2, AfterPlaces DEF Goto
      <3> QED
        BY <3>1, <3>2
    <2>3. CASE UNCHANGED pc
      BY <2>1, <2>3, DoneUnchanged
    <2> QED
      BY <1>4, <2>2, <2>3 DEF Call
  <1>5. CASE Spawned(r) \/ NotSpawned(r) \/ KeepSession(r)
    <2>1. PICK a \in {"load", "refused", "register", "new"} : pc' = [pc EXCEPT ![r] = a]
      BY <1>5 DEF Spawned, NotSpawned, KeepSession, Goto
    <2>2. Rest /\ UNCHANGED <<chan, loop, proc>>
      BY <1>5 DEF Spawned, NotSpawned, KeepSession, procVars, clientVars, chanVars, loopVars
    <2>3. a \in Early
      BY DEF Early
    <2> QED
      BY <1>1, <1>2, <2>1, <2>2, <2>3
  <1>6. CASE Register(r)
    <2>1. pc[r] = "register" /\ Rest /\ UNCHANGED proc
      BY <1>6 DEF Register, At, procVars, clientVars
    <2>2. CASE Goto(r, "refused") /\ UNCHANGED <<runCh, chan, loop>>
      <3>1. "refused" \in Early
        BY DEF Early
      <3> QED
        BY <1>1, <1>2, <2>1, <2>2, <3>1 DEF Goto
    <2>3. CASE /\ chan' = [chan EXCEPT ![r] = <<"system">>]
               /\ loop' = [loop EXCEPT ![r] = "reading"] /\ pc' = [pc EXCEPT ![r] = "prompt"]
      <3>1. \A x \in Runs : /\ pc'[x] = IF x = r THEN "prompt" ELSE pc[x]
                            /\ chan'[x] = IF x = r THEN <<"system">> ELSE chan[x]
                            /\ loop'[x] = IF x = r THEN "reading" ELSE loop[x]
        BY <2>3, Parts
      <3>2. pc[r] \in Early
        BY <2>1 DEF Early
      <3>3. loop[r] = "none" /\ chan[r] = << >> /\ card[r] = "running"
        BY <3>2 DEF RunInv
      <3>4. ~Has(chan[r], "error") /\ \A e \in Answers : ~Has(<<"system">>, e)
        BY <3>3 DEF Has, ToSet, Answers
      <3> QED
        BY <2>1, <3>1, <3>3, <3>4, DoneFrame DEF IsTold
    <2> QED
      BY <1>6, <2>2, <2>3 DEF Register, Goto
  <1>7. CASE Conclude(r)
    <2>1. /\ pc[r] \in {"answered", "failed"} /\ pc' = [pc EXCEPT ![r] = "leaving"]
          /\ \E answer \in Answers :
               SafeSend(IF pc[r] = "answered" \/ ~dead[proc[r]] THEN r ELSE 0,
                        IF pc[r] = "answered" THEN answer ELSE "error")
          /\ UNCHANGED <<proc, loop, card, stdout, answered, dead>>
      BY <1>7 DEF Conclude, At, Goto, procVars, clientVars, loopVars
    <2>2. PICK z \in Runs \cup {0}, e \in Events :
            /\ SafeSend(z, e)
            /\ z = IF pc[r] = "answered" \/ ~dead[proc[r]] THEN r ELSE 0
            /\ IF pc[r] = "answered" THEN e \in Answers ELSE e = "error"
      BY <2>1 DEF Events, Ends, Answers
    <2>3. \A x \in Runs : /\ \A a \in Answers : Has(chan'[x], a) => Has(chan[x], a) \/ (x = z /\ a = e)
                          /\ Has(chan[x], "error") => Has(chan'[x], "error")
                          /\ dropped[x] => dropped'[x]
                          /\ x = z => closed[z] \/ dropped'[z] \/ Has(chan'[z], e)
      BY <2>2, SentHas
    <2>4. ~closed[r] /\ 0 \notin Runs
      BY <2>1, Constants DEF RunInv
    <2>5. pc[r] = "answered" => r \in answered
      BY DEF DoneInv
    <2>6. \A x \in Runs : pc'[x] = IF x = r THEN "leaving" ELSE pc[x]
      BY <2>1, Parts
    <2>7. \A x \in Runs, a \in Answers : Has(chan'[x], a) => Has(chan[x], a) \/ x \in answered
      BY <2>2, <2>3, <2>4, <2>5 DEF Answers
    <2>8. r \in answered \/ dropped'[r] \/ dead[proc[r]] \/ Has(chan'[r], "error")
      BY <2>1, <2>2, <2>3, <2>4, <2>5
    <2> QED
      BY <2>1, <2>3, <2>6, <2>7, <2>8, DoneFrame DEF IsTold
  <1>8. CASE Finish(r)
    <2>1. /\ pc[r] = "leaving" /\ pc' = [pc EXCEPT ![r] = "gone"] /\ Rest /\ UNCHANGED <<chan, loop, proc>>
      BY <1>8 DEF Finish, At, Goto, procVars, clientVars, loopVars
    <2>2. \A x \in Runs : pc'[x] = IF x = r THEN "gone" ELSE pc[x]
      BY <2>1, Parts
    <2> QED
      BY <2>1, <2>2, DoneFrame DEF IsTold
  <1> QED
    BY <1>3, <1>4, <1>5, <1>6, <1>7, <1>8
       DEF Run, Initialize, Authenticate, Load, New, Prompt, Calls

LEMMA DoneStep ==
  ASSUME TypeOK, ProcInv, RunInv, DoneInv, [Next]_vars
  PROVE  DoneInv'
  <1>1. ASSUME NEW r \in Runs, Receive(r) PROVE DoneInv'
    <2> DEFINE event == Head(chan[r])
    <2>1. /\ loop[r] = "reading" /\ chan[r] # << >> /\ chan' = [chan EXCEPT ![r] = Tail(@)]
          /\ card' = [card EXCEPT ![r] = IF event \in Ends THEN event ELSE @]
          /\ loop' = IF event = "ask" THEN [loop EXCEPT ![r] = "asking"] ELSE loop
          /\ UNCHANGED <<stdout, answered, pc, dropped, dead, proc>>
      BY <1>1 DEF Receive, Looping, procVars, clientVars, runVars
    <2>2. ToSet(Tail(chan[r])) \cup {event} = ToSet(chan[r])
      <3>1. chan[r] \in Seq(Events)
        BY Parts
      <3> QED
        BY <2>1, <3>1, Shrunk
    <2> HIDE DEF event
    <2>3. \A x \in Runs : /\ chan'[x] = IF x = r THEN Tail(chan[x]) ELSE chan[x]
                          /\ card'[x] = IF x = r /\ event \in Ends THEN event ELSE card[x]
                          /\ loop'[x] = "over" <=> loop[x] = "over"
      BY <2>1, Parts
    <2>4. event \in Answers => r \in answered
      BY <2>2 DEF DoneInv, Has
    <2>5. \A x \in Runs : /\ \A a \in Answers : Has(chan'[x], a) => Has(chan[x], a)
                          /\ card'[x] \in Answers => card'[x] = card[x] \/ x \in answered
                          /\ IsTold(x) => Has(chan'[x], "error") \/ card'[x] = "error" \/ x \in answered
      BY <2>2, <2>3, <2>4 DEF Has, IsTold, Ends
    <2> QED
      BY <2>1, <2>3, <2>5, DoneFrame DEF IsTold
  <1>2. ASSUME NEW r \in Runs, SeesClose(r) PROVE DoneInv'
    <2>1. /\ loop[r] = "reading" /\ chan[r] = << >> /\ closed[r]
          /\ card' = [card EXCEPT ![r] = IF @ # "running" THEN @
                                           ELSE IF stopped[r] THEN "interrupted" ELSE "done"]
          /\ loop' = [loop EXCEPT ![r] = "over"]
          /\ UNCHANGED <<stdout, answered, pc, chan, dropped, dead, proc>>
      BY <1>2 DEF SeesClose, Looping, procVars, clientVars, chanVars, runVars
    <2>2. pc[r] = "gone" /\ ~Has(chan[r], "error")
      BY <2>1 DEF RunInv, Has, ToSet
    <2>3. ~dropped[r] /\ ~dead[proc[r]] => r \in answered \/ card[r] = "error"
      BY <2>2 DEF DoneInv, IsTold
    <2>4. \A x \in Runs : /\ card'[x] = card[x] \/ (x = r /\ card[x] = "running")
                          /\ loop'[x] = IF x = r THEN "over" ELSE loop[x]
      BY <2>1, Parts
    <2>5. ASSUME NEW x \in Runs
          PROVE  /\ pc'[x] = "answered" => x \in answered'
                 /\ \A e \in Answers : Has(chan'[x], e) => x \in answered'
                 /\ card'[x] \in Answers /\ loop'[x] # "over" => x \in answered'
                 /\ loop'[x] = "over" /\ card'[x] = "done" /\ ~dropped'[x] /\ ~dead'[proc'[x]] =>
                      x \in answered'
                 /\ pc'[x] \in {"leaving", "gone"} /\ ~dropped'[x] /\ ~dead'[proc'[x]] =>
                      x \in answered' \/ IsTold(x)'
      <3>1. /\ pc[x] = "answered" => x \in answered
            /\ \A e \in Answers : Has(chan[x], e) => x \in answered
            /\ card[x] \in Answers /\ loop[x] # "over" => x \in answered
            /\ loop[x] = "over" /\ card[x] = "done" /\ ~dropped[x] /\ ~dead[proc[x]] => x \in answered
            /\ pc[x] \in {"leaving", "gone"} /\ ~dropped[x] /\ ~dead[proc[x]] => x \in answered \/ IsTold(x)
        BY DEF DoneInv, DoneIsDone
      <3>2. IsTold(x) => IsTold(x)'
        BY <2>1, <2>4 DEF IsTold
      <3> QED
        BY <2>1, <2>3, <2>4, <3>1, <3>2
    <2>6. \A p \in Procs : \A l \in ToSet(stdout'[p]) : AnsweredLine(l) => l.run \in answered'
      BY <2>1 DEF DoneInv
    <2> QED
      BY <2>5, <2>6 DEF DoneInv, DoneIsDone
  <1>3. ASSUME NEW r \in Runs, loop[r] \notin {"none", "over"} , NEW l \in {"reading", "left"},
               loop' = [loop EXCEPT ![r] = l],
               UNCHANGED <<stdout, answered, pc, chan, card, dropped, dead, proc>>
        PROVE  DoneInv'
    <2>1. \A x \in Runs : loop'[x] = "over" <=> loop[x] = "over"
      BY <1>3, Parts
    <2> QED
      BY <1>3, <2>1, DoneFrame DEF IsTold
  <1>4. ASSUME NEW r \in Runs, Reply(r) PROVE DoneInv'
    <2>1. loop[r] = "asking" /\ loop' = [loop EXCEPT ![r] = "reading"]
          /\ UNCHANGED <<stdout, answered, pc, chan, card, dropped, dead, proc>>
      BY <1>4 DEF Reply, Looping, procVars, clientVars, chanVars, runVars
    <2> QED
      BY <1>3, <2>1
  <1>5. ASSUME NEW r \in Runs, CardFails(r) PROVE DoneInv'
    <2>1. loop[r] = "reading" /\ loop' = [loop EXCEPT ![r] = "left"]
          /\ UNCHANGED <<stdout, answered, pc, chan, card, dropped, dead, proc>>
      BY <1>5 DEF CardFails, Cancel, Looping, clientVars, chanVars, runVars
    <2> QED
      BY <1>3, <2>1
  <1>6. ASSUME NEW r \in Runs, Stop(r) PROVE DoneInv'
    BY <1>6, DoneUnchanged DEF Stop, Cancel, clientVars, chanVars, runVars
  <1>7. ASSUME Reset PROVE DoneInv'
    BY <1>7, DoneUnchanged DEF Reset, clientVars, chanVars, runVars, loopVars
  <1>8. CASE UNCHANGED vars
    BY <1>8, DoneUnchanged DEF vars, procVars, clientVars, chanVars, runVars, loopVars
  <1> QED
    BY <1>1, <1>2, <1>4, <1>5, <1>6, <1>7, <1>8, DoneStepProc, DoneStepRun DEF Next, Loop

------------------------------------------------------------------------------
\* A request stays where it is while nothing is asked or answered.
LEMMA AskFrame ==
  ASSUME NEW p \in Procs, AskOf(p), ask'[p] = ask[p], reader'[p] \in {reader[p], 0},
         Once(stdout[p], Requests) => Once(stdout'[p], Requests),
         Without(stdout[p], Requests) => Without(stdout'[p], Requests),
         \A r \in Runs : proc'[r] = p =>
           \/ /\ proc[r] = p
              /\ Has(chan'[r], "ask") => Has(chan[r], "ask")
              /\ Once(chan[r], {"ask"}) => Once(chan'[r], {"ask"})
              /\ loop'[r] = "asking" => loop[r] = "asking"
           \/ chan'[r] = << >> /\ loop'[r] = "none"
  PROVE  AskOf(p)'
  <1>1. ~Has(<< >>, "ask") /\ Once(<< >>, {"ask"})
    BY DEF Has, ToSet, Once
  <1> QED
    BY <1>1 DEF AskOf, Holds

\* Once it is answered it is nowhere.
LEMMA Answered ==
  ASSUME NEW p \in Procs, AskOf(p), reader'[p] = 0, proc' = proc,
         Without(stdout'[p], Requests), Once(stdout'[p], Requests),
         \A r \in Runs : proc[r] = p =>
           /\ ~Has(chan'[r], "ask") /\ loop'[r] # "asking"
           /\ Once(chan[r], {"ask"}) => Once(chan'[r], {"ask"})
  PROVE  AskOf(p)'
  BY DEF AskOf, Holds

\* The steps of one process are nothing to the others.
LEMMA Elsewhere ==
  ASSUME AskInv, NEW p, proc' = proc,
         \A q \in Procs \ {p} :
           /\ os'[q] = "alive" => os[q] = "alive"
           /\ os'[q] = "alive" => ask'[q] = ask[q]
           /\ stdout'[q] = stdout[q] /\ reader'[q] \in {reader[q], 0},
         \A r \in Runs : proc[r] # p =>
           /\ Has(chan'[r], "ask") => Has(chan[r], "ask")
           /\ Once(chan[r], {"ask"}) => Once(chan'[r], {"ask"})
           /\ loop'[r] = "asking" => loop[r] = "asking",
         p \in Procs /\ os'[p] = "alive" => AskOf(p)'
  PROVE  AskInv'
  <1> SUFFICES ASSUME NEW q \in Procs, os'[q] = "alive" PROVE AskOf(q)'
    BY DEF AskInv
  <1>1. CASE q = p
    BY <1>1
  <1>2. CASE q # p
    <2>1. AskOf(q) /\ ask'[q] = ask[q] /\ stdout'[q] = stdout[q] /\ reader'[q] \in {reader[q], 0}
      BY <1>2 DEF AskInv
    <2>2. \A r \in Runs : proc'[r] = q =>
            /\ proc[r] = q
            /\ Has(chan'[r], "ask") => Has(chan[r], "ask")
            /\ Once(chan[r], {"ask"}) => Once(chan'[r], {"ask"})
            /\ loop'[r] = "asking" => loop[r] = "asking"
      BY <1>2
    <2> QED
      BY <2>1, <2>2, AskFrame
  <1> QED
    BY <1>1, <1>2

\* Nothing of all this changes.
LEMMA NotAsked ==
  ASSUME AskInv, proc' = proc, UNCHANGED <<stdout, reader>>,
         \A q \in Procs : os'[q] = "alive" => os[q] = "alive" /\ ask'[q] = ask[q],
         \A r \in Runs : /\ Has(chan'[r], "ask") => Has(chan[r], "ask")
                         /\ Once(chan[r], {"ask"}) => Once(chan'[r], {"ask"})
                         /\ loop'[r] = "asking" => loop[r] = "asking"
  PROVE  AskInv'
  <1> SUFFICES ASSUME NEW q \in Procs, os'[q] = "alive" PROVE AskOf(q)'
    BY DEF AskInv
  <1>1. AskOf(q) /\ ask'[q] = ask[q]
    BY DEF AskInv
  <1> QED
    BY <1>1, AskFrame

LEMMA NothingAsked ==
  ASSUME AskInv, UNCHANGED <<proc, stdout, reader, os, ask, chan, loop>>
  PROVE  AskInv'
  BY NotAsked

LEMMA AskStepAgent ==
  ASSUME TypeOK, ProcInv, RunInv, AskInv, NEW p \in Procs, Agent(p)
  PROVE  AskInv' /\ UNCHANGED <<twice, faithful>>
  <1>1. UNCHANGED <<proc, reader, chan, loop, twice, faithful>>
    BY DEF Agent, Answer, Settle, Ask, Chat, Die, AgentOnly, askVars, chanVars, runVars, loopVars
  <1>2. ASSUME Die(p) PROVE AskInv'
    <2>1. Gone(p) /\ stdout' = stdout
      BY <1>2 DEF Die
    <2> QED
      BY <1>1, <2>1, GoneFrame, NotAsked
  <1>3. ASSUME NEW k \in Calls \cup Chunks, NEW r \in Runs \cup {0}, NEW ok \in BOOLEAN,
               Says(p, k, r, ok), UNCHANGED <<os, ask>>
        PROVE  AskInv'
    <2> DEFINE line == [kind |-> k, run |-> r, ok |-> ok]
    <2>1. \A q \in Procs : stdout'[q] = IF q = p THEN Append(stdout[q], line) ELSE stdout[q]
      BY <1>3, Parts DEF Says
    <2>2. k \notin {"question", "permission", "other"}
      BY Constants
    <2>3. line \in Lines /\ line \notin Requests
      BY <2>2 DEF Lines, Requests
    <2> HIDE DEF line
    <2>4. stdout[p] \in Seq(Lines)
      BY Parts
    <2>5. /\ Once(stdout[p], Requests) => Once(stdout'[p], Requests)
          /\ Without(stdout[p], Requests) => Without(stdout'[p], Requests)
      BY <2>1, <2>3, <2>4, Grown
    <2>6. os'[p] = "alive" => AskOf(p)'
      BY <1>1, <1>3, <2>5, AskFrame DEF AskInv
    <2> QED
      BY <1>1, <1>3, <2>1, <2>6, Elsewhere
  <1>4. ASSUME Answer(p) PROVE AskInv'
    <2> DEFINE r == stdin[p][1][1]
               call == stdin[p][1][2]
    <2>1. UNCHANGED <<os, ask>>
      BY <1>4 DEF Answer, AgentOnly, askVars
    <2>2. r \in Runs /\ call \in Calls \cup {"cancel"}
      <3>1. stdin[p] \in Seq(Runs \X (Calls \cup {"cancel"})) /\ stdin[p] # << >>
        BY <1>4, Parts DEF Answer
      <3>2. stdin[p][1] \in Runs \X (Calls \cup {"cancel"})
        BY <3>1, HeadTailProperties
      <3> QED
        BY <3>2
    <2> HIDE DEF r, call
    <2>3. \/ call # "cancel" /\ Says(p, call, r, FALSE)
          \/ call \in Calls \ {"prompt"} /\ Says(p, call, r, TRUE)
          \/ UNCHANGED stdout
      BY <1>4 DEF Answer, r, call
    <2>4. CASE call \in Calls /\ (Says(p, call, r, FALSE) \/ Says(p, call, r, TRUE))
      BY <1>3, <2>1, <2>2, <2>4
    <2>5. CASE UNCHANGED stdout
      BY <1>1, <2>1, <2>5, NothingAsked
    <2> QED
      BY <2>2, <2>3, <2>4, <2>5
  <1>5. ASSUME Settle(p) PROVE AskInv'
    <2>1. Says(p, "prompt", turn[p], TRUE) /\ turn[p] \in Runs \cup {0} /\ UNCHANGED <<os, ask>>
          /\ "prompt" \in Calls
      BY <1>5, Parts DEF Settle, AgentOnly, askVars, Calls
    <2> QED
      BY <1>3, <2>1
  <1>6. ASSUME NEW c \in Chunks, Chat(p, c) PROVE AskInv'
    <2>1. Says(p, c, turn[p], TRUE) /\ turn[p] \in Runs \cup {0} /\ UNCHANGED <<os, ask>>
      BY <1>6, Parts DEF Chat, AgentOnly
    <2> QED
      BY <1>3, <2>1
  <1>7. ASSUME NEW k \in {"question", "permission", "other"}, Ask(p, k) PROVE AskInv'
    <2> DEFINE line == [kind |-> k, run |-> 0, ok |-> TRUE]
    <2>1. /\ turn[p] # 0 /\ ask[p] = "none" /\ os' = os
          /\ \A q \in Procs : ask'[q] = IF q = p THEN "sent" ELSE ask[q]
          /\ \A q \in Procs : stdout'[q] = IF q = p THEN Append(stdout[q], line) ELSE stdout[q]
      BY <1>7, Parts DEF Ask, Says, AgentOnly
    <2>2. os[p] = "alive" /\ AskOf(p)
      BY <2>1 DEF ProcInv, AskInv
    <2>3. Without(stdout[p], Requests) /\ Once(stdout[p], Requests) /\ reader[p] = 0
          /\ \A r \in Runs : proc[r] = p => ~Holds(r) /\ Once(chan[r], {"ask"})
      BY <2>1, <2>2 DEF AskOf
    <2>4. line \in Lines /\ stdout[p] \in Seq(Lines)
      BY Parts DEF Lines
    <2> HIDE DEF line
    <2>5. Once(stdout'[p], Requests)
      BY <2>1, <2>3, <2>4, Grown
    <2>6. AskOf(p)'
      BY <1>1, <2>1, <2>3, <2>5 DEF AskOf, Holds
    <2> QED
      BY <1>1, <2>1, <2>6, Elsewhere
  <1> QED
    BY <1>1, <1>2, <1>4, <1>5, <1>6, <1>7 DEF Agent

\* An answer finds its request where it is, and with it the process waiting.
LEMMA RespondStep ==
  ASSUME TypeOK, AskInv, NEW p \in Procs, Respond(p, TRUE), os[p] = "alive" => ask[p] # "none",
         proc' = proc, os' = os, AnswerIsFaithful,
         \A q \in Procs \ {p} : stdout'[q] = stdout[q] /\ reader'[q] = reader[q],
         \A r \in Runs : /\ chan'[r] = chan[r]
                         /\ loop'[r] = "asking" => loop[r] = "asking",
         os[p] = "alive" => /\ reader'[p] = 0
                            /\ Without(stdout'[p], Requests) /\ Once(stdout'[p], Requests)
                            /\ \A r \in Runs : proc[r] = p => ~Has(chan[r], "ask") /\ loop'[r] # "asking"
  PROVE  AskInv' /\ AnswerIsFaithful'
  <1>1. twice' = twice /\ faithful' = faithful /\ \A q \in Procs \ {p} : ask'[q] = ask[q]
    BY Parts DEF Respond
  <1>2. os'[p] = "alive" => AskOf(p)'
    BY Answered DEF AskInv
  <1>3. AskInv'
    BY <1>1, <1>2, Elsewhere
  <1> QED
    BY <1>1, <1>3 DEF AnswerIsFaithful

LEMMA AskStepReader ==
  ASSUME TypeOK, ProcInv, RunInv, AskInv, AnswerIsFaithful, NEW p \in Procs, Reader(p)
  PROVE  AskInv' /\ AnswerIsFaithful'
  <1>0. os[p] = "alive" => AskOf(p)
    BY DEF AskInv
  <1>1. CASE Read(p)
    <2> DEFINE line == Head(stdout[p])
    <2>1. /\ UNCHANGED <<os, proc, loop>> /\ reader[p] = 0 /\ stdout[p] # << >>
          /\ \A q \in Procs : stdout'[q] = IF q = p THEN Tail(stdout[q]) ELSE stdout[q]
      BY <1>1, Parts DEF Read, loopVars
    <2>2. /\ line \in Lines
          /\ Without(stdout[p], Requests) => Without(stdout'[p], Requests) /\ line \notin Requests
          /\ Once(stdout[p], Requests) => Once(stdout'[p], Requests)
          /\ Once(stdout[p], Requests) /\ line \in Requests => Without(stdout'[p], Requests)
      <3>1. stdout[p] \in Seq(Lines)
        BY Parts
      <3> QED
        BY <2>1, <3>1, Shrunk, LineRead
    <2> HIDE DEF line
    <2>3. ASSUME UNCHANGED <<reader, ask, twice, faithful>>,
                 \A r \in Runs : /\ Has(chan'[r], "ask") => Has(chan[r], "ask")
                                 /\ Once(chan[r], {"ask"}) => Once(chan'[r], {"ask"})
          PROVE  AskInv' /\ AnswerIsFaithful'
      <3>1. os'[p] = "alive" => AskOf(p)'
        BY <1>0, <2>1, <2>2, <2>3, AskFrame
      <3>2. AskInv'
        BY <2>1, <2>3, <3>1, Elsewhere
      <3> QED
        BY <2>3, <3>2 DEF AnswerIsFaithful
    <2>4. CASE line.kind \in Chunks /\ SafeSend(runCh[p], EventOf(line.kind))
               /\ UNCHANGED <<pending, pc, sid, reader, ask, twice, faithful>>
      <3>1. EventOf(line.kind) \in Events /\ EventOf(line.kind) # "ask" /\ runCh[p] \in Runs \cup {0}
        BY <2>4, Constants, Parts
      <3>2. \A r \in Runs : /\ Has(chan'[r], "ask") => Has(chan[r], "ask")
                            /\ Once(chan[r], {"ask"}) => Once(chan'[r], {"ask"})
        BY <2>4, <3>1, SentHas
      <3> QED
        BY <2>3, <2>4, <3>2
    <2>5. CASE Response(p, line) /\ UNCHANGED <<chan, dropped>>
      BY <2>3, <2>5 DEF Response
    <2>6. ASSUME line.kind \in {"question", "permission", "other"}, os[p] = "alive"
          PROVE  /\ ask[p] = "sent" /\ Without(stdout'[p], Requests) /\ Once(stdout'[p], Requests)
                 /\ \A r \in Runs : proc[r] = p => ~Holds(r) /\ Once(chan[r], {"ask"})
      <3>1. line \in Requests /\ AskOf(p)
        BY <1>0, <2>2, <2>6 DEF Requests
      <3> QED
        BY <2>2, <3>1 DEF AskOf
    <2>7. CASE /\ line.kind \in {"question", "permission", "other"} /\ Respond(p, TRUE)
               /\ UNCHANGED <<pending, pc, sid, reader, chan, dropped>>
      BY <2>1, <2>6, <2>7, RespondStep DEF Holds
    <2>8. CASE line.kind = "question" /\ Question(p) /\ UNCHANGED <<chan, dropped>>
      <3>1. /\ UNCHANGED <<twice, faithful>>
            /\ \A q \in Procs : /\ ask'[q] = IF q = p THEN "sending" ELSE ask[q]
                                /\ q # p => reader'[q] = reader[q]
        BY <2>8, Parts DEF Question
      <3>2. os[p] = "alive" => AskOf(p)'
        BY <2>1, <2>6, <2>8, <3>1 DEF AskOf, Holds
      <3>3. AskInv'
        BY <2>1, <2>8, <3>1, <3>2, Elsewhere
      <3> QED
        BY <3>1, <3>3 DEF AnswerIsFaithful
    <2> QED
      BY <1>1, ReadCases, <2>4, <2>5, <2>7, <2>8 DEF line
  <1>2. CASE SendAsk(p)
    <2> DEFINE r == reader[p]
    <2>1. /\ r \in Runs /\ proc[r] = p
          /\ UNCHANGED <<os, stdout, proc, loop, twice, faithful>>
          /\ \A q \in Procs : reader'[q] = IF q = p THEN 0 ELSE reader[q]
      <3>1. r # 0 /\ r \in {runCh[p], reader[p]} /\ reader' = [reader EXCEPT ![p] = 0]
            /\ UNCHANGED <<os, stdout, proc, loop, twice, faithful>>
        BY <1>2 DEF SendAsk, procVars, runVars, loopVars
      <3> QED
        BY <3>1, Registered, Parts
    <2>2. CASE UNCHANGED <<chan, ask>>
      <3>1. os'[p] = "alive" => AskOf(p)'
        BY <1>0, <2>1, <2>2, AskFrame
      <3>2. AskInv'
        BY <2>1, <2>2, <3>1, Elsewhere
      <3> QED
        BY <2>1, <3>2 DEF AnswerIsFaithful
    <2>3. CASE /\ chan' = [chan EXCEPT ![reader[p]] = Append(@, "ask")]
               /\ ask' = [ask EXCEPT ![p] = IF @ = "sending" THEN "queued" ELSE @]
      <3> HIDE DEF r
      <3>1. /\ \A x \in Runs : chan'[x] = IF x = r THEN Append(chan[x], "ask") ELSE chan[x]
            /\ \A q \in Procs : ask'[q] = IF q = p /\ ask[q] = "sending" THEN "queued" ELSE ask[q]
        BY <2>3, Parts DEF r
      <3>2. ASSUME os[p] = "alive" PROVE AskOf(p)'
        <4>1. AskOf(p) /\ ask[p] = "sending" /\ r # 0
          BY <1>0, <2>1, <3>2, Constants DEF AskOf, r
        <4>2. /\ Without(stdout[p], Requests) /\ Once(stdout[p], Requests)
              /\ \A x \in Runs : proc[x] = p =>
                   ~Has(chan[x], "ask") /\ loop[x] # "asking" /\ Once(chan[x], {"ask"})
          BY <4>1 DEF AskOf, Holds
        <4>3. Without(chan[r], {"ask"})
          BY <2>1, <4>2 DEF Without, Has, ToSet
        <4>4. Once(chan'[r], {"ask"})
          <5>1. chan[r] \in Seq(Events) /\ "ask" \in Events
            BY <2>1, Parts DEF Events
          <5> QED
            BY <2>1, <3>1, <4>2, <4>3, <5>1, Grown
        <4>5. \A x \in Runs : proc'[x] = p => Once(chan'[x], {"ask"}) /\ loop'[x] # "asking"
                                              /\ (x # r => ~Has(chan'[x], "ask"))
          BY <2>1, <3>1, <4>2, <4>4
        <4>6. ask'[p] = "queued" /\ reader'[p] = 0 /\ stdout'[p] = stdout[p]
          BY <2>1, <3>1, <4>1
        <4> QED
          BY <4>2, <4>5, <4>6 DEF AskOf, Holds
      <3>3. AskInv'
        BY <2>1, <3>1, <3>2, Elsewhere
      <3> QED
        BY <2>1, <3>3 DEF AnswerIsFaithful
    <2> QED
      BY <1>2, <2>2, <2>3 DEF SendAsk
  <1>3. CASE AskTimesOut(p)
    <2>1. /\ reader[p] # 0 /\ Respond(p, TRUE) /\ UNCHANGED <<os, stdout, proc, loop, chan>>
          /\ \A q \in Procs : reader'[q] = IF q = p THEN 0 ELSE reader[q]
      BY <1>3, Parts DEF AskTimesOut, procVars, chanVars, runVars, loopVars
    <2>2. os[p] = "alive" => /\ ask[p] = "sending" /\ Without(stdout[p], Requests) /\ Once(stdout[p], Requests)
                             /\ \A r \in Runs : proc[r] = p => ~Has(chan[r], "ask") /\ loop[r] # "asking"
      BY <1>0, <2>1 DEF AskOf, Holds
    <2> QED
      BY <2>1, <2>2, RespondStep
  <1>4. CASE Wait(p)
    <2>1. UNCHANGED <<os, proc, loop, chan, reader, ask, twice, faithful>> /\ os[p] = "gone"
          /\ \A q \in Procs : q # p => stdout'[q] = stdout[q]
      BY <1>4, Parts DEF Wait, askVars, chanVars, loopVars
    <2>2. AskInv'
      BY <2>1, Elsewhere
    <2> QED
      BY <2>1, <2>2 DEF AnswerIsFaithful
  <1>5. CASE Tell(p)
    <2>1. /\ UNCHANGED <<os, proc, loop, stdout, reader, ask, twice, faithful>>
          /\ SafeSend(runCh[p], "error") /\ "error" \in Events /\ runCh[p] \in Runs \cup {0}
      BY <1>5, Parts DEF Tell, Events, Ends, Answers, askVars, procVars, runVars, loopVars
    <2>2. \A r \in Runs : /\ Has(chan'[r], "ask") => Has(chan[r], "ask")
                          /\ Once(chan[r], {"ask"}) => Once(chan'[r], {"ask"})
      BY <2>1, SentHas
    <2>3. AskInv'
      BY <2>1, <2>2, NotAsked
    <2> QED
      BY <2>1, <2>3 DEF AnswerIsFaithful
  <1> QED
    BY <1>1, <1>2, <1>3, <1>4, <1>5 DEF Reader

LEMMA AskStepRun ==
  ASSUME TypeOK, ProcInv, RunInv, AskInv, NEW r \in Runs, Begin(r) \/ Run(r)
  PROVE  AskInv' /\ UNCHANGED <<twice, faithful>>
  <1>1. CASE Begin(r)
    <2>1. UNCHANGED <<stdout, reader, chan, loop, twice, faithful>> /\ pc[r] = "idle"
      BY <1>1 DEF Begin, At, chanVars, loopVars
    <2>2. /\ pc[r] \in Early
          /\ proc[r] = 0 /\ chan[r] = << >> /\ loop[r] = "none"
      BY <2>1 DEF RunInv, Early
    <2>3. ~Has(chan[r], "ask") /\ Once(chan[r], {"ask"})
      BY <2>2 DEF Has, ToSet, Once
    <2>4. CASE cur \in Procs /\ proc' = [proc EXCEPT ![r] = cur] /\ UNCHANGED <<cur, os, stdin, turn, ask>>
      <3>1. \A x \in Runs : x # r => proc'[x] = proc[x]
        BY <2>4, Parts
      <3> SUFFICES ASSUME NEW q \in Procs, os[q] = "alive" PROVE AskOf(q)'
        BY <2>1, <2>4 DEF AskInv
      <3>2. AskOf(q)
        BY DEF AskInv
      <3>3. \A x \in Runs : proc'[x] = q => proc[x] = q \/ (chan'[x] = << >> /\ loop'[x] = "none")
        BY <2>1, <2>2, <3>1
      <3> QED
        BY <2>1, <2>4, <3>2, <3>3, AskFrame
    <2>5. ASSUME NEW p \in Procs, os[p] = "none", p # cur, proc' = [proc EXCEPT ![r] = p],
                 os' = [q \in Procs |-> IF q = p THEN "alive" ELSE IF q = cur THEN "gone" ELSE os[q]],
                 ask' = [q \in Procs |-> IF q = cur THEN "none" ELSE ask[q]]
          PROVE  AskInv'
      <3>1. \A x \in Runs : proc'[x] = IF x = r THEN p ELSE proc[x]
        BY <2>5, Parts
      <3>2. \A x \in Runs : proc[x] # p
        BY <2>5, Constants DEF ProcInv
      <3>3. stdout[p] = << >> /\ reader[p] = 0
        BY <2>5 DEF ProcInv
      <3>4. AskOf(p)'
        <4>1. Once(stdout'[p], Requests) /\ Without(stdout'[p], Requests)
          BY <2>1, <3>3 DEF Once, Without
        <4>2. \A x \in Runs : proc'[x] = p => x = r
          BY <3>1, <3>2
        <4> QED
          BY <2>1, <2>2, <2>3, <3>3, <4>1, <4>2 DEF AskOf, Holds
      <3>5. ASSUME NEW q \in Procs, q # p, os'[q] = "alive" PROVE AskOf(q)'
        <4>1. AskOf(q) /\ ask'[q] = ask[q]
          BY <2>5, <3>5 DEF AskInv
        <4>2. \A x \in Runs : proc'[x] = q => proc[x] = q
          BY <3>1, <3>5
        <4> QED
          BY <2>1, <4>1, <4>2, AskFrame
      <3> QED
        BY <3>4, <3>5 DEF AskInv
    <2>6. AskInv'
      BY <1>1, BeginCases, <2>4, <2>5
    <2> QED
      BY <2>1, <2>6
  <1>2. CASE Register(r)
    <2>1. /\ UNCHANGED <<os, ask, stdout, reader, proc, twice, faithful>> /\ pc[r] = "register"
          /\ \A x \in Runs : chan'[x] = chan[x] \/ chan'[x] = <<"system">>
          /\ \A x \in Runs : loop'[x] = loop[x] \/ loop'[x] = "reading"
      BY <1>2, Parts DEF Register, At, procVars, askVars
    <2>2. ~Has(<<"system">>, "ask") /\ Once(<<"system">>, {"ask"})
      BY DEF Has, ToSet, Once
    <2>3. \A x \in Runs : /\ Has(chan'[x], "ask") => Has(chan[x], "ask")
                          /\ Once(chan[x], {"ask"}) => Once(chan'[x], {"ask"})
                          /\ loop'[x] = "asking" => loop[x] = "asking"
      BY <2>1, <2>2
    <2>4. AskInv'
      BY <2>1, <2>3, NotAsked
    <2> QED
      BY <2>1, <2>4
  <1>3. CASE NotSpawned(r)
    <2>1. /\ Gone(proc[r]) /\ proc[r] \in Procs \cup {0}
          /\ UNCHANGED <<stdout, reader, proc, chan, loop, twice, faithful>>
      BY <1>3, Parts DEF NotSpawned, chanVars, loopVars
    <2>2. AskInv'
      BY <2>1, GoneFrame, NotAsked
    <2> QED
      BY <2>1, <2>2
  <1>4. CASE Conclude(r)
    <2>1. UNCHANGED <<os, ask, stdout, reader, proc, loop, twice, faithful>>
      BY <1>4 DEF Conclude, procVars, askVars, loopVars
    <2>2. PICK z \in Runs \cup {0}, e \in Events \ {"ask"} : SafeSend(z, e)
      BY <1>4 DEF Conclude, Events, Ends, Answers
    <2>3. \A x \in Runs : /\ Has(chan'[x], "ask") => Has(chan[x], "ask")
                          /\ Once(chan[x], {"ask"}) => Once(chan'[x], {"ask"})
      BY <2>2, SentHas
    <2>4. AskInv'
      BY <2>1, <2>3, NotAsked
    <2> QED
      BY <2>1, <2>4
  <1>5. CASE Spawned(r) \/ KeepSession(r) \/ Finish(r) \/ \E c \in Calls : Call(r, c)
    <2>1. UNCHANGED <<proc, stdout, reader, os, ask, chan, loop, twice, faithful>>
      BY <1>5 DEF Spawned, KeepSession, Finish, Call, procVars, askVars, chanVars, loopVars
    <2>2. AskInv'
      BY <2>1, NothingAsked
    <2> QED
      BY <2>1, <2>2
  <1> QED
    BY <1>1, <1>2, <1>3, <1>4, <1>5 DEF Run, Initialize, Authenticate, Load, New, Prompt, Calls

LEMMA AskStep ==
  ASSUME TypeOK, ProcInv, RunInv, AskInv, AnswerIsFaithful, [Next]_vars
  PROVE  AskInv' /\ AnswerIsFaithful'
  <1>0. ASSUME UNCHANGED <<twice, faithful>>, AskInv' PROVE AskInv' /\ AnswerIsFaithful'
    BY <1>0 DEF AnswerIsFaithful
  <1>1. ASSUME NEW r \in Runs, Receive(r) PROVE AskInv' /\ UNCHANGED <<twice, faithful>>
    <2> DEFINE event == Head(chan[r])
    <2>1. /\ loop[r] = "reading" /\ chan[r] # << >> /\ chan' = [chan EXCEPT ![r] = Tail(@)]
          /\ loop' = IF event = "ask" THEN [loop EXCEPT ![r] = "asking"] ELSE loop
          /\ UNCHANGED <<os, stdout, reader, ask, proc, twice, faithful>>
      BY <1>1 DEF Receive, Looping, procVars, askVars, runVars
    <2>2. /\ ToSet(Tail(chan[r])) \cup {event} = ToSet(chan[r])
          /\ Once(chan[r], {"ask"}) => Once(Tail(chan[r]), {"ask"})
          /\ Once(chan[r], {"ask"}) /\ event = "ask" => Without(Tail(chan[r]), {"ask"})
      <3>1. chan[r] \in Seq(Events) /\ (event = "ask" => event \in {"ask"})
        BY Parts
      <3> QED
        BY <2>1, <3>1, Shrunk
    <2> HIDE DEF event
    <2>3. \A x \in Runs : /\ chan'[x] = IF x = r THEN Tail(chan[x]) ELSE chan[x]
                          /\ loop'[x] = IF x = r /\ event = "ask" THEN "asking" ELSE loop[x]
      BY <2>1, Parts
    <2>4. \A x \in Runs : /\ Holds(x)' => Holds(x)
                          /\ Once(chan[x], {"ask"}) => Once(chan'[x], {"ask"})
      BY <2>2, <2>3 DEF Holds, Has
    <2>5. \A x \in Runs : Once(chan[x], {"ask"}) /\ (loop[x] = "asking" => ~Has(chan[x], "ask"))
                          => (loop'[x] = "asking" => ~Has(chan'[x], "ask"))
      <3>1. Once(chan[r], {"ask"}) /\ event = "ask" => ~Has(chan'[r], "ask")
        BY <2>2, <2>3 DEF Without, Has, ToSet
      <3> QED
        BY <2>1, <2>3, <3>1
    <2>6. ASSUME NEW p \in Procs, AskOf(p) PROVE AskOf(p)'
      BY <2>1, <2>4, <2>5, <2>6 DEF AskOf
    <2> QED
      BY <2>1, <2>6 DEF AskInv
  <1>2. ASSUME NEW r \in Runs, Reply(r) PROVE AskInv' /\ AnswerIsFaithful'
    <2>1. /\ loop[r] = "asking" /\ Respond(proc[r], TRUE)
          /\ UNCHANGED <<os, stdout, reader, proc, chan>>
          /\ \A x \in Runs : loop'[x] = IF x = r THEN "reading" ELSE loop[x]
      BY <1>2, RepliedTruly, Parts DEF Reply, Looping, procVars, chanVars, runVars
    <2>2. proc[r] \in Procs
      <3>1. pc[r] # "idle"
        BY <2>1 DEF RunInv, Early
      <3> QED
        BY <3>1, Parts DEF RunInv
    <2>3. ASSUME os[proc[r]] = "alive"
          PROVE  /\ ask[proc[r]] # "none" /\ reader[proc[r]] = 0
                 /\ Without(stdout[proc[r]], Requests) /\ Once(stdout[proc[r]], Requests)
                 /\ \A x \in Runs : proc[x] = proc[r] => ~Has(chan[x], "ask") /\ loop'[x] # "asking"
      <3>1. AskOf(proc[r]) /\ Holds(r)
        BY <2>1, <2>2, <2>3 DEF AskInv, Holds
      <3>2. ask[proc[r]] = "queued" /\ ~Has(chan[r], "ask")
            /\ \A x \in Runs : proc[x] = proc[r] /\ Holds(x) => x = r
        BY <2>1, <3>1 DEF AskOf
      <3>3. \A x \in Runs : proc[x] = proc[r] => ~Has(chan[x], "ask") /\ loop'[x] # "asking"
        BY <2>1, <3>2 DEF Holds
      <3> QED
        BY <3>1, <3>2, <3>3 DEF AskOf
    <2> QED
      BY <2>1, <2>2, <2>3, RespondStep
  <1>3. ASSUME NEW r \in Runs, SeesClose(r) \/ Stop(r) \/ CardFails(r)
        PROVE  AskInv' /\ UNCHANGED <<twice, faithful>>
    <2>1. /\ UNCHANGED <<os, ask, stdout, reader, proc, chan, twice, faithful>>
          /\ \A x \in Runs : loop'[x] = "asking" => loop[x] = "asking"
      BY <1>3, Parts DEF SeesClose, Stop, CardFails, Cancel, procVars, askVars, chanVars, runVars
    <2>2. AskInv'
      BY <2>1, NotAsked
    <2> QED
      BY <2>1, <2>2
  <1>4. ASSUME Reset PROVE AskInv' /\ UNCHANGED <<twice, faithful>>
    <2>1. /\ Gone(cur) /\ cur \in Procs \cup {0}
          /\ UNCHANGED <<stdout, reader, proc, chan, loop, twice, faithful>>
      BY <1>4, Parts DEF Reset, chanVars, runVars, loopVars
    <2>2. AskInv'
      BY <2>1, GoneFrame, NotAsked
    <2> QED
      BY <2>1, <2>2
  <1>5. ASSUME UNCHANGED vars PROVE AskInv' /\ UNCHANGED <<twice, faithful>>
    <2>1. UNCHANGED <<proc, stdout, reader, os, ask, chan, loop, twice, faithful>>
      BY <1>5 DEF vars, procVars, askVars, chanVars, runVars, loopVars
    <2> QED
      BY <2>1, NothingAsked
  <1>6. ASSUME NEW p \in Procs, Agent(p) \/ Reader(p) PROVE AskInv' /\ AnswerIsFaithful'
    BY <1>0, <1>6, AskStepAgent, AskStepReader
  <1>7. ASSUME NEW r \in Runs, Begin(r) \/ Run(r) PROVE AskInv' /\ AnswerIsFaithful'
    BY <1>0, <1>7, AskStepRun
  <1> QED
    BY <1>0, <1>1, <1>2, <1>3, <1>4, <1>5, <1>6, <1>7 DEF Next, Loop

------------------------------------------------------------------------------
LEMMA InitInv ==
  ASSUME Init
  PROVE  Inv
  <1>1. TypeOK
    <2>1. \A r \in Runs : Len(chan[r]) <= Capacity
      BY Constants DEF Init
    <2>2. /\ stdin \in [Procs -> Seq(Runs \X (Calls \cup {"cancel"}))] /\ stdout \in [Procs -> Seq(Lines)]
          /\ chan \in [Runs -> Seq(Events)]
      BY EmptySeq DEF Init
    <2>3. /\ os \in [Procs -> {"none", "alive", "gone"}]
          /\ {dead, told, sid} \subseteq [Procs -> BOOLEAN]
          /\ {turn, runCh, reader} \subseteq [Procs -> Runs \cup {0}]
          /\ pending \in [Procs -> SUBSET (Runs \X Calls)]
          /\ ask \in [Procs -> {"none", "sent", "sending", "queued"}]
      BY DEF Init
    <2>4. /\ pc \in [Runs -> Places] /\ proc \in [Runs -> Procs \cup {0}]
          /\ loop \in [Runs -> {"none", "reading", "asking", "left", "over"}]
          /\ {closed, dropped, stopped} \subseteq [Runs -> BOOLEAN]
          /\ card \in [Runs -> {"running"} \cup Ends]
      BY PlacesAre DEF Init
    <2>5. kind \in Kinds /\ cur = 0 /\ asks = 0 /\ twice = FALSE /\ faithful = TRUE /\ panicked = FALSE
          /\ answered = {}
      BY DEF Init
    <2>6. /\ kind \in Kinds /\ cur \in Procs \cup {0} /\ asks \in 0..MaxAsks
          /\ answered \subseteq Runs
      BY <2>5, Constants
    <2>7. {twice, faithful, panicked} \subseteq BOOLEAN
      BY <2>5
    <2> QED
      BY <2>1, <2>2, <2>3, <2>4, <2>6, <2>7, PlacesAre DEF TypeOK
  <1>2. ProcInv
    BY DEF Init, ProcInv
  <1>3. RunInv
    BY DEF Init, RunInv, Late
  <1>4. ToSet(<< >>) = {} /\ \A T : Once(<< >>, T) /\ Without(<< >>, T)
    BY DEF ToSet, Once, Without
  <1>5. DoneInv
    BY <1>4 DEF Init, Answers, DoneInv, DoneIsDone, Has
  <1>6. AskInv
    BY <1>4 DEF Init, AskInv
  <1> QED
    BY <1>1, <1>2, <1>3, <1>5, <1>6 DEF Init, Inv, AnswerIsFaithful

LEMMA Inductive == Spec => []Inv
  <1>1. Init => Inv
    BY InitInv
  <1>2. Inv /\ [Next]_vars => Inv'
    BY TypeStep, ProcStep, RunStep, DoneStep, AskStep DEF Inv
  <1> QED
    BY <1>1, <1>2, PTL DEF Spec

\* Every variable of the adapter always has its type, in acp.go, grok.go and
\* cursor.go: no call's answer leaves a run where there is no place for it.
THEOREM TypeCorrect == Spec => []TypeOK
  <1>1. Inv => TypeOK
    BY DEF Inv
  <1> QED
    BY <1>1, Inductive, PTL

\* A card that reads done over a living process is one whose prompt the agent
\* answered, whatever is refused, killed or dropped (grok.go and cursor.go's
\* startRun, runBatch), for any number of runs and processes.
THEOREM DoneIsDoneHolds == Spec => []DoneIsDone
  <1>1. Inv => DoneIsDone
    BY DEF Inv, DoneInv
  <1> QED
    BY <1>1, Inductive, PTL

\* The agent hears what was chosen and hears it once, whoever of the refusal,
\* the time limit and the user answers it (handleAskQuestion, handleReverse,
\* autoAllowPermission), for any questions and any options.
THEOREM AnswerIsFaithfulHolds == Spec => []AnswerIsFaithful
  <1>1. Inv => AnswerIsFaithful
    BY DEF Inv
  <1> QED
    BY <1>1, Inductive, PTL

------------------------------------------------------------------------------
\* Each run of the scope keeps what a run promises.  Only finish takes a run to its
\* end, and it closes the channel; the last end in the channel is the one that
\* counts, and it stays the last until the loop has taken it.
Closes(r) == pc[r] = "gone" => closed[r]
Keeps(r) == Closes(r)' /\ [Promised(r)!Next]_(Promised(r)!vars)

\* A channel that holds an end has a last one, and one only.
LEMMA LastIsOne ==
  ASSUME NEW s \in Seq(Events), NEW i \in LastEnd(s)
  PROVE  LastEnd(s) = {i} /\ (CHOOSE k \in LastEnd(s) : TRUE) = i /\ s[i] \in Ends
  <1>1. i \in DOMAIN s /\ DOMAIN s \subseteq Nat /\ s[i] \in Ends
    BY DEF LastEnd
  <1>2. ASSUME NEW j \in LastEnd(s) PROVE j = i
    <2>1. j \in DOMAIN s /\ ~(i < j) /\ ~(j < i)
      BY DEF LastEnd
    <2> QED
      BY <1>1, <2>1
  <1>3. LastEnd(s) = {i}
    BY <1>2
  <1> QED
    BY <1>1, <1>3

LEMMA LastOfSome ==
  ASSUME NEW s \in Seq(Events), LastEnd(s) = {}
  PROVE  \A i \in DOMAIN s : s[i] \notin Ends
  <1> SUFFICES ASSUME NEW i \in DOMAIN s, s[i] \in Ends PROVE FALSE
    OBVIOUS
  <1> DEFINE Length == Len(s)
             T == {n \in Nat : n < Length /\ s[Length - n] \in Ends}
  <1>1. Length \in Nat /\ DOMAIN s = 1..Length
    OBVIOUS
  <1>2. Length - i \in T
    BY <1>1
  <1>3. FirstOf(T) \in T /\ \A m \in T : FirstOf(T) <= m
    BY <1>2, Least
  <1> DEFINE k == Length - FirstOf(T)
  <1>4. k \in DOMAIN s /\ s[k] \in Ends
    BY <1>1, <1>3
  <1>5. ASSUME NEW j \in DOMAIN s, k < j, s[j] \in Ends PROVE FALSE
    <2>1. Length - j \in T /\ Length - j < FirstOf(T)
      BY <1>1, <1>3, <1>5
    <2> QED
      BY <1>1, <1>3, <2>1
  <1> HIDE DEF k
  <1>6. k \in LastEnd(s)
    BY <1>4, <1>5 DEF LastEnd
  <1> QED
    BY <1>6

LEMMA LastAppend ==
  ASSUME NEW s \in Seq(Events), NEW e \in Events
  PROVE  /\ e \in Ends => LastEnd(Append(s, e)) = {Len(s) + 1} /\ Append(s, e)[Len(s) + 1] = e
         /\ e \notin Ends => /\ LastEnd(Append(s, e)) = LastEnd(s)
                             /\ \A i \in LastEnd(s) : Append(s, e)[i] = s[i]
  <1> DEFINE t == Append(s, e)
  <1>1. /\ DOMAIN t = 1..Len(s) + 1 /\ DOMAIN s = 1..Len(s) /\ Len(s) \in Nat
        /\ \A i \in DOMAIN s : i \in DOMAIN t /\ t[i] = s[i]
        /\ t[Len(s) + 1] = e
    BY AppendProperties
  <1> HIDE DEF t
  <1>2. ASSUME e \in Ends PROVE LastEnd(t) = {Len(s) + 1}
    BY <1>1, <1>2 DEF LastEnd
  <1>3. ASSUME e \notin Ends PROVE LastEnd(t) = LastEnd(s)
    BY <1>1, <1>3 DEF LastEnd
  <1>4. \A i \in LastEnd(s) : t[i] = s[i]
    BY <1>1 DEF LastEnd
  <1> QED
    BY <1>1, <1>2, <1>3, <1>4 DEF t

LEMMA LastTail ==
  ASSUME NEW s \in Seq(Events), s # << >>
  PROVE  \/ /\ LastEnd(s) = {} /\ LastEnd(Tail(s)) = {} /\ Head(s) \notin Ends
         \/ /\ LastEnd(s) = {1} /\ LastEnd(Tail(s)) = {} /\ Head(s) \in Ends /\ s[1] = Head(s)
         \/ \E i \in LastEnd(s), j \in LastEnd(Tail(s)) : Tail(s)[j] = s[i]
  <1> DEFINE t == Tail(s)
  <1>1. /\ t \in Seq(Events) /\ DOMAIN s = 1..Len(s) /\ DOMAIN t = 1..(Len(s) - 1) /\ Len(s) \in Nat
        /\ Head(s) = s[1] /\ 1 \in DOMAIN s /\ \A i \in DOMAIN t : t[i] = s[i + 1]
    BY HeadTailProperties
  <1> HIDE DEF t
  <1>2. CASE LastEnd(s) = {}
    <2>1. \A i \in DOMAIN s : s[i] \notin Ends
      BY <1>2, LastOfSome
    <2>2. \A i \in DOMAIN t : t[i] \notin Ends
      BY <1>1, <2>1
    <2> QED
      BY <1>1, <1>2, <2>1, <2>2 DEF LastEnd, t
  <1>3. CASE LastEnd(s) = {1}
    <2>1. s[1] \in Ends /\ \A j \in DOMAIN s : 1 < j => s[j] \notin Ends
      BY <1>3 DEF LastEnd
    <2>2. \A i \in DOMAIN t : t[i] \notin Ends
      BY <1>1, <2>1
    <2> QED
      BY <1>1, <1>3, <2>1, <2>2 DEF LastEnd, t
  <1>4. ASSUME NEW i \in LastEnd(s), i # 1
        PROVE  \E j \in LastEnd(t) : t[j] = s[i]
    <2>1. i \in DOMAIN s /\ s[i] \in Ends /\ \A j \in DOMAIN s : i < j => s[j] \notin Ends
      BY DEF LastEnd
    <2>2. i - 1 \in DOMAIN t /\ t[i - 1] = s[i]
      BY <1>1, <1>4, <2>1
    <2>3. ASSUME NEW j \in DOMAIN t, i - 1 < j PROVE t[j] \notin Ends
      <3>1. j + 1 \in DOMAIN s /\ i < j + 1 /\ t[j] = s[j + 1]
        BY <1>1, <2>1, <2>3
      <3> QED
        BY <2>1, <3>1
    <2>4. i - 1 \in LastEnd(t)
      BY <2>1, <2>2, <2>3 DEF LastEnd
    <2> QED
      BY <2>2, <2>4
  <1> QED
    BY <1>2, <1>3, <1>4 DEF t

\* What a run promises stays when it goes on without being registered or closed: an
\* end that is put in its channel is told while that is open.
LEMMA KeptFrame ==
  ASSUME TypeOK, RunInv, NEW x \in Runs, Closes(x),
         UNCHANGED <<closed[x], card[x], stopped[x]>>, loop'[x] = "over" <=> loop[x] = "over",
         \/ pc'[x] = pc[x]
         \/ pc[x] \in Early /\ pc'[x] \in Early
         \/ pc[x] \in Late \ {"gone"} /\ pc'[x] \in Late \ {"gone"},
         \/ chan'[x] = chan[x]
         \/ \E e \in Events : /\ chan'[x] = Append(chan[x], e)
                              /\ e \in Ends => pc[x] \in Late /\ ~closed[x]
  PROVE  Keeps(x)
  <1>1. Closes(x)'
    BY Constants DEF Closes, Early, Late
  <1>2. ChannelIs(x)' = ChannelIs(x)
    BY DEF ChannelIs, Early, Late
  <1>3. chan[x] \in Seq(Events)
    BY Parts
  <1>4. CASE EndIs(x)' = EndIs(x)
    BY <1>1, <1>2, <1>4 DEF Keeps, Promised!vars
  <1>5. CASE chan'[x] = chan[x]
    <2>1. EndIs(x)' = EndIs(x)
      BY <1>5 DEF EndIs
    <2> QED
      BY <1>4, <2>1
  <1>6. ASSUME NEW e \in Events \ Ends, chan'[x] = Append(chan[x], e) PROVE EndIs(x)' = EndIs(x)
    <2>1. /\ LastEnd(Append(chan[x], e)) = LastEnd(chan[x])
          /\ \A i \in LastEnd(chan[x]) : Append(chan[x], e)[i] = chan[x][i]
      BY <1>3, LastAppend
    <2>2. LastEnd(chan'[x]) = LastEnd(chan[x]) /\ \A i \in LastEnd(chan[x]) : chan'[x][i] = chan[x][i]
      BY <1>6, <2>1
    <2> QED
      BY <2>2 DEF EndIs
  <1>7. ASSUME NEW e \in Ends \cap Events, chan'[x] = Append(chan[x], e), pc[x] \in Late, ~closed[x] PROVE Keeps(x)
    <2>1. LastEnd(chan'[x]) = {Len(chan[x]) + 1} /\ chan'[x][Len(chan[x]) + 1] = e
      BY <1>3, <1>7, LastAppend
    <2>2. EndIs(x)' = e
      BY <2>1 DEF EndIs
    <2>3. loop[x] # "over" /\ pc[x] # "gone"
      BY <1>7 DEF RunInv, Closes
    <2>4. ChannelIs(x) = "open"
      BY <1>7, <2>3 DEF ChannelIs, Late
    <2> QED
      BY <1>1, <1>2, <2>2, <2>4
         DEF Keeps, Promised!Next, Promised!Tell, Promised!Tells, Promised!Ends, Ends, Answers
  <1> QED
    BY <1>4, <1>5, <1>6, <1>7

LEMMA KeptSend ==
  ASSUME TypeOK, RunInv, NEW x \in Runs, Closes(x), NEW r \in Runs \cup {0}, NEW e \in Events,
         SafeSend(r, e), e \in Ends /\ r # 0 => pc[r] \in Late,
         UNCHANGED <<closed[x], card[x], stopped[x], loop[x]>>,
         \/ pc'[x] = pc[x]
         \/ pc[x] \in Late \ {"gone"} /\ pc'[x] \in Late \ {"gone"}
  PROVE  Keeps(x)
  <1>1. \/ chan'[x] = chan[x]
        \/ x = r /\ ~closed[r] /\ chan'[x] = Append(chan[x], e)
    BY Sent
  <1>2. r = x => r # 0
    BY Constants
  <1> QED
    BY <1>1, <1>2, KeptFrame

\* What the goroutines of a process do, ...
LEMMA KeptProc ==
  ASSUME TypeOK, RunInv, NEW p \in Procs, Agent(p) \/ Reader(p), NEW x \in Runs, Closes(x)
  PROVE  Keeps(x)
  <1> USE DEF clientVars, procVars, chanVars, runVars, loopVars
  <1>1. CASE Agent(p) \/ AskTimesOut(p)
    <2>1. UNCHANGED <<pc, chan, closed, card, stopped, loop>>
      BY <1>1 DEF Agent, Answer, Settle, Ask, Chat, Die, AgentOnly, AskTimesOut
    <2> QED
      BY <2>1, KeptFrame
  <1>2. ASSUME NEW r \in Runs, NEW c \in Calls, NEW ok \in BOOLEAN, <<r, c>> \in pending[p]
        PROVE  \/ pc[r] \in Early /\ After(r, c, ok) \in Early
               \/ pc[r] \in Late \ {"gone"} /\ After(r, c, ok) \in Late \ {"gone"}
    <2>1. pc[r] = c
      BY <1>2, Returns
    <2>2. CASE c = "prompt"
      BY <2>1, <2>2, AfterPlaces DEF Late
    <2>3. CASE c # "prompt"
      BY <2>1, <2>3, AfterPlaces, Constants
    <2> QED
      BY <2>2, <2>3
  <1>3. CASE Read(p)
    <2> DEFINE line == Head(stdout[p])
    <2>1. UNCHANGED <<closed, card, stopped, loop>>
      BY <1>3 DEF Read
    <2>2. CASE line.kind \in Chunks /\ SafeSend(runCh[p], EventOf(line.kind))
               /\ UNCHANGED <<pending, pc, sid, reader, ask, twice, faithful>>
      <3>1. EventOf(line.kind) \in Events \ Ends /\ runCh[p] \in Runs \cup {0}
        BY <2>2, Constants, Parts
      <3> QED
        BY <2>1, <2>2, <3>1, KeptSend
    <2>3. CASE line.kind \in Calls /\ Response(p, line) /\ UNCHANGED <<chan, dropped>>
      <3>1. line.run \in Runs \cup {0} /\ line.ok \in BOOLEAN
        BY <1>3, LineRead DEF Read
      <3> HIDE DEF line
      <3>2. pc' = IF <<line.run, line.kind>> \in pending[p]
                  THEN [pc EXCEPT ![line.run] = After(line.run, line.kind, line.ok)] ELSE pc
        BY <2>3 DEF Response
      <3>3. CASE pc'[x] = pc[x]
        BY <2>1, <2>3, <3>3, KeptFrame
      <3>4. CASE pc'[x] # pc[x]
        <4>1. /\ x = line.run /\ <<line.run, line.kind>> \in pending[p]
              /\ pc'[x] = After(line.run, line.kind, line.ok)
          BY <3>2, <3>4, Parts
        <4>2. \/ pc[x] \in Early /\ pc'[x] \in Early
              \/ pc[x] \in Late \ {"gone"} /\ pc'[x] \in Late \ {"gone"}
          BY <1>2, <2>3, <3>1, <4>1
        <4> QED
          BY <2>1, <2>3, <4>2, KeptFrame
      <3> QED
        BY <3>3, <3>4
    <2>4. CASE UNCHANGED <<pc, chan>>
      BY <2>1, <2>4, KeptFrame
    <2> QED
      BY <1>3, ReadCases, <2>2, <2>3, <2>4 DEF Question
  <1>4. CASE SendAsk(p)
    <2>1. /\ UNCHANGED <<pc, closed, card, stopped, loop>> /\ reader[p] \in Runs
          /\ chan' = chan \/ chan' = [chan EXCEPT ![reader[p]] = Append(@, "ask")]
      BY <1>4, Parts DEF SendAsk
    <2>2. chan'[x] = chan[x] \/ chan'[x] = Append(chan[x], "ask")
      BY <2>1, Parts
    <2>3. "ask" \in Events \ Ends
      BY DEF Events, Ends, Answers
    <2> QED
      BY <2>1, <2>2, <2>3, KeptFrame
  <1>5. CASE Wait(p)
    <2>1. /\ UNCHANGED <<chan, closed, card, stopped, loop>>
          /\ pc' = [r \in Runs |-> IF \E c \in Calls : <<r, c>> \in pending[p]
                                   THEN After(r, pc[r], FALSE) ELSE pc[r]]
      BY <1>5 DEF Wait
    <2>2. ASSUME NEW c \in Calls, <<x, c>> \in pending[p]
          PROVE  \/ pc[x] \in Early /\ pc'[x] \in Early
                 \/ pc[x] \in Late \ {"gone"} /\ pc'[x] \in Late \ {"gone"}
      <3>1. pc'[x] = After(x, pc[x], FALSE)
        BY <2>1, <2>2
      <3>2. pc[x] = c
        BY <2>2, Returns
      <3> QED
        BY <1>2, <2>2, <3>1, <3>2
    <2>3. pc'[x] = pc[x] \/ \E c \in Calls : <<x, c>> \in pending[p]
      BY <2>1
    <2> QED
      BY <2>1, <2>2, <2>3, KeptFrame
  <1>6. CASE Tell(p)
    <2>1. /\ UNCHANGED <<pc, closed, card, stopped, loop>>
          /\ SafeSend(runCh[p], "error") /\ "error" \in Events /\ runCh[p] \in Runs \cup {0}
          /\ runCh[p] # 0 => pc[runCh[p]] \in Late
      BY <1>6, Parts, Registered DEF Tell, Events, Ends
    <2> QED
      BY <2>1, KeptSend
  <1> QED
    BY <1>1, <1>3, <1>4, <1>5, <1>6 DEF Reader

\* ... a run, ...
LEMMA KeptRun ==
  ASSUME TypeOK, ProcInv, RunInv, NEW r \in Runs, Begin(r) \/ Run(r), NEW x \in Runs, Closes(x)
  PROVE  Keeps(x)
  <1> USE DEF clientVars, procVars, chanVars, loopVars
  <1>1. ASSUME UNCHANGED <<chan, closed, card, stopped, loop>>, NEW a, pc' = [pc EXCEPT ![r] = a],
               \/ pc[r] \in Early /\ a \in Early
               \/ pc[r] \in Late \ {"gone"} /\ a \in Late \ {"gone"}
        PROVE  Keeps(x)
    <2>1. pc'[x] = IF x = r THEN a ELSE pc[x]
      BY <1>1, Parts
    <2> QED
      BY <1>1, <2>1, KeptFrame
  <1>2. CASE Begin(r)
    <2>1. UNCHANGED <<chan, closed, card, stopped, loop>> /\ pc[r] = "idle"
      BY <1>2 DEF Begin, At
    <2>2. PICK a \in {"load", "initialize"} : pc' = [pc EXCEPT ![r] = a]
      BY <1>2, BeginCases
    <2> QED
      BY <1>1, <2>1, <2>2 DEF Early
  <1>3. ASSUME NEW c \in Calls, Call(r, c) PROVE Keeps(x)
    <2>1. pc[r] = c /\ UNCHANGED <<chan, closed, card, stopped, loop>>
      BY <1>3 DEF Call, At
    <2>2. CASE pc' = [pc EXCEPT ![r] = After(r, c, FALSE)]
      <3>1. CASE c = "prompt"
        <4>1. After(r, c, FALSE) = "failed" /\ "prompt" \in Late \ {"gone"} /\ "failed" \in Late \ {"gone"}
          BY <3>1, AfterPlaces DEF Late
        <4> QED
          BY <1>1, <2>1, <2>2, <3>1, <4>1
      <3>2. CASE c # "prompt"
        BY <1>1, <2>1, <2>2, <3>2, AfterPlaces, Constants
      <3> QED
        BY <3>1, <3>2
    <2>3. CASE pc' = pc
      BY <2>1, <2>3, KeptFrame
    <2> QED
      BY <1>3, <2>2, <2>3 DEF Call, Goto
  <1>4. CASE Spawned(r) \/ NotSpawned(r) \/ KeepSession(r)
    <2>1. PICK a \in {"load", "refused", "register", "new"} :
            pc' = [pc EXCEPT ![r] = a] /\ pc[r] \in {"spawned", "unspawned", "load"}
      BY <1>4 DEF Spawned, NotSpawned, KeepSession, At, Goto
    <2>2. UNCHANGED <<chan, closed, card, stopped, loop>>
      BY <1>4 DEF Spawned, NotSpawned, KeepSession
    <2> QED
      BY <1>1, <2>1, <2>2 DEF Early
  <1>5. CASE Register(r)
    <2>1. pc[r] = "register" /\ UNCHANGED <<card, closed, stopped>>
      BY <1>5 DEF Register, At
    <2>2. CASE Goto(r, "refused") /\ UNCHANGED <<chan, loop>>
      BY <1>1, <2>1, <2>2 DEF Goto, Early
    <2>3. CASE /\ chan' = [chan EXCEPT ![r] = <<"system">>] /\ loop' = [loop EXCEPT ![r] = "reading"]
               /\ pc' = [pc EXCEPT ![r] = "prompt"]
      <3>1. CASE x # r
        <4>1. UNCHANGED <<pc[x], chan[x], loop[x], card[x], closed[x], stopped[x]>>
          BY <2>1, <2>3, <3>1
        <4> QED
          BY <4>1, KeptFrame
      <3>2. CASE x = r
        <4>1. /\ pc'[x] = "prompt" /\ chan'[x] = <<"system">> /\ loop'[x] = "reading"
              /\ loop[x] = "none" /\ chan[x] = << >> /\ ~closed[x]
          BY <2>1, <2>3, <3>2, Parts DEF RunInv, Early
        <4>2. LastEnd(chan[x]) = {} /\ LastEnd(chan'[x]) = {}
          BY <4>1 DEF LastEnd, Ends, Answers
        <4>3. EndIs(x)' = EndIs(x)
          BY <2>1, <4>2 DEF EndIs
        <4>4. ChannelIs(x) = "none" /\ ChannelIs(x)' = "open"
          BY <2>1, <3>2, <4>1 DEF ChannelIs
        <4> QED
          BY <2>1, <4>1, <4>3, <4>4 DEF Keeps, Closes, Promised!Next, Promised!Open
      <3> QED
        BY <3>1, <3>2
    <2> QED
      BY <1>5, <2>2, <2>3 DEF Register, Goto
  <1>6. CASE Conclude(r)
    <2>1. /\ pc[r] \in Late \ {"gone"} /\ pc' = [pc EXCEPT ![r] = "leaving"]
          /\ UNCHANGED <<closed, card, stopped, loop>>
          /\ \E z \in {r, 0}, e \in Events : SafeSend(z, e)
      BY <1>6 DEF Conclude, At, Goto, Late, Events, Ends, Answers
    <2>2. PICK z \in {r, 0}, e \in Events : SafeSend(z, e)
      BY <2>1
    <2>3. pc'[x] = pc[x] \/ (pc[x] \in Late \ {"gone"} /\ pc'[x] \in Late \ {"gone"})
      BY <2>1, Parts DEF Late
    <2> QED
      BY <2>1, <2>2, <2>3, KeptSend
  <1>7. CASE Finish(r)
    <2>1. /\ pc[r] = "leaving" /\ pc' = [pc EXCEPT ![r] = "gone"] /\ closed' = [closed EXCEPT ![r] = TRUE]
          /\ UNCHANGED <<chan, card, stopped, loop>>
      BY <1>7 DEF Finish, At, Goto
    <2>2. CASE x # r
      <3>1. UNCHANGED <<pc[x], closed[x]>>
        BY <2>1, <2>2
      <3> QED
        BY <2>1, <3>1, KeptFrame
    <2>3. CASE x = r
      <3>1. pc'[x] = "gone" /\ closed'[x] /\ ~closed[x] /\ loop[x] # "over"
        BY <2>1, <2>3, Parts DEF RunInv
      <3>2. ChannelIs(x) = "open" /\ ChannelIs(x)' = "closed"
        BY <2>1, <2>3, <3>1 DEF ChannelIs
      <3>3. EndIs(x)' = EndIs(x)
        BY <2>1 DEF EndIs
      <3> QED
        BY <2>1, <3>1, <3>2, <3>3 DEF Keeps, Closes, Promised!Next, Promised!Close
    <2> QED
      BY <2>2, <2>3
  <1> QED
    BY <1>2, <1>3, <1>4, <1>5, <1>6, <1>7
       DEF Run, Initialize, Authenticate, Load, New, Prompt, Calls

\* ... and the loop that reads it.
LEMMA KeptLoop ==
  ASSUME TypeOK, RunInv, NEW r \in Runs, Loop(r) \/ Stop(r) \/ CardFails(r), NEW x \in Runs, Closes(x)
  PROVE  Keeps(x)
  <1> USE DEF clientVars, procVars, chanVars, runVars
  <1>1. UNCHANGED <<pc, closed>> /\ (x # r => UNCHANGED <<chan[x], card[x], stopped[x], loop[x]>>)
    <2>1. UNCHANGED <<pc, closed>>
      BY DEF Loop, Receive, Reply, SeesClose, Stop, CardFails, Cancel
    <2>2. /\ chan' = chan \/ \E c : chan' = [chan EXCEPT ![r] = c]
          /\ card' = card \/ \E c : card' = [card EXCEPT ![r] = c]
          /\ stopped' = stopped \/ \E s : stopped' = [stopped EXCEPT ![r] = s]
          /\ loop' = loop \/ \E l : loop' = [loop EXCEPT ![r] = l]
      BY DEF Loop, Receive, Reply, SeesClose, Stop, CardFails, Cancel
    <2> QED
      BY <2>1, <2>2, Parts
  <1>2. CASE x # r
    BY <1>1, <1>2, KeptFrame
  <1>3. CASE x = r /\ Receive(r)
    <2>1. /\ loop[x] = "reading" /\ chan[x] # << >> /\ chan'[x] = Tail(chan[x]) /\ stopped' = stopped
          /\ card'[x] = IF Head(chan[x]) \in Ends THEN Head(chan[x]) ELSE card[x]
          /\ loop'[x] # "over"
      BY <1>3, Parts DEF Receive, Looping
    <2>2. \/ /\ LastEnd(chan[x]) = {} /\ LastEnd(chan'[x]) = {} /\ Head(chan[x]) \notin Ends
          \/ /\ LastEnd(chan[x]) = {1} /\ LastEnd(chan'[x]) = {} /\ Head(chan[x]) \in Ends
             /\ chan[x][1] = Head(chan[x])
          \/ \E i \in LastEnd(chan[x]), j \in LastEnd(chan'[x]) : chan'[x][j] = chan[x][i]
      <3>1. chan[x] \in Seq(Events)
        BY Parts
      <3> QED
        BY Zenon, <2>1, <3>1, LastTail
    <2>3. chan[x] \in Seq(Events) /\ chan'[x] \in Seq(Events)
      BY <2>1, Parts, Shrunk
    <2>4. EndIs(x)' = EndIs(x)
      <3>1. CASE \E i \in LastEnd(chan[x]), j \in LastEnd(chan'[x]) : chan'[x][j] = chan[x][i]
        <4>1. PICK i \in LastEnd(chan[x]), j \in LastEnd(chan'[x]) : chan'[x][j] = chan[x][i]
          BY <3>1
        <4>2. (CHOOSE k \in LastEnd(chan[x]) : TRUE) = i
          BY <2>3, LastIsOne
        <4>3. (CHOOSE k \in LastEnd(chan'[x]) : TRUE) = j
          BY <2>3, LastIsOne
        <4> QED
          BY <4>1, <4>2, <4>3 DEF EndIs
      <3>2. CASE LastEnd(chan'[x]) = {}
        <4>1. EndIs(x)' = card'[x]
          BY <3>2 DEF EndIs
        <4>2. EndIs(x) = card'[x]
          BY <2>1, <2>2, <3>2 DEF EndIs
        <4> QED
          BY <4>1, <4>2
      <3> QED
        BY <2>2, <3>1, <3>2
    <2>5. Closes(x)' /\ ChannelIs(x)' = ChannelIs(x)
      BY <1>1, <2>1 DEF Closes, ChannelIs
    <2> QED
      BY <2>1, <2>4, <2>5 DEF Keeps, Promised!vars
  <1>4. CASE x = r /\ Reply(r)
    <2>1. UNCHANGED <<chan, card, stopped>> /\ loop[x] # "over" /\ loop'[x] # "over"
      BY <1>4, Parts DEF Reply, Looping
    <2> QED
      BY <1>1, <2>1, KeptFrame
  <1>5. CASE x = r /\ SeesClose(r)
    <2>1. /\ loop[x] = "reading" /\ loop'[x] = "over" /\ chan[x] = << >> /\ closed[x] /\ UNCHANGED <<chan, stopped>>
          /\ card'[x] = IF card[x] # "running" THEN card[x] ELSE IF stopped[x] THEN "interrupted" ELSE "done"
      BY <1>5, Parts DEF SeesClose, Looping
    <2>2. LastEnd(chan[x]) = {}
      BY <2>1 DEF LastEnd
    <2>3. EndIs(x) = card[x] /\ EndIs(x)' = card'[x]
      BY <2>1, <2>2 DEF EndIs
    <2>4. ChannelIs(x) = "closed" /\ ChannelIs(x)' = "over" /\ Closes(x)'
      BY <1>1, <2>1 DEF ChannelIs, Closes
    <2> QED
      BY <2>1, <2>3, <2>4 DEF Keeps, Promised!Next, Promised!Conclude
  <1>6. CASE x = r /\ (Stop(r) \/ CardFails(r))
    <2>1. /\ loop[x] \in {"reading", "asking"} /\ loop'[x] # "over" /\ stopped'[x] /\ UNCHANGED <<chan, card>>
      BY <1>6, Parts DEF Stop, CardFails, Cancel, Looping
    <2>2. pc[x] \notin Early /\ pc[x] \in Places
      BY <2>1, Parts DEF RunInv
    <2>3. ChannelIs(x) # "none" /\ ChannelIs(x)' = ChannelIs(x)
      BY <1>1, <2>1, <2>2 DEF ChannelIs, Closes, Places, Late
    <2>4. EndIs(x)' = EndIs(x) /\ Closes(x)'
      BY <1>1, <2>1 DEF EndIs, Closes
    <2>5. stopped'[x] = TRUE
      BY <1>6, Parts DEF Stop, CardFails, Cancel
    <2> QED
      BY <2>3, <2>4, <2>5 DEF Keeps, Promised!Next, Promised!Stop
  <1> QED
    BY <1>2, <1>3, <1>4, <1>5, <1>6 DEF Loop

LEMMA KeptStep ==
  ASSUME Inv, [Next]_vars, NEW x \in Runs, Closes(x)
  PROVE  Keeps(x)
  <1>1. TypeOK /\ ProcInv /\ RunInv
    BY DEF Inv
  <1>2. CASE Reset \/ UNCHANGED vars
    <2>1. UNCHANGED <<pc, chan, closed, card, stopped, loop>>
      BY <1>2 DEF Reset, vars, chanVars, runVars, loopVars
    <2> QED
      BY <1>1, <2>1, KeptFrame
  <1> QED
    BY <1>1, <1>2, KeptProc, KeptRun, KeptLoop DEF Next

\* Each run of the scope keeps what a run promises (AgentRun), though one process
\* serves them all and the next run may have taken it: its channel is opened once and
\* closed once, ends are told while it is open, and the card reads the last of them;
\* where none was told, interrupted if the run was stopped.
THEOREM Refinement == Spec => ImplementsAgentRun
  <1> DEFINE AllInit == \A r \in Runs : Promised(r)!Init
             AllNext == \A r \in Runs : [Promised(r)!Next]_(Promised(r)!vars)
             AllClose == \A r \in Runs : Closes(r)
  <1>1. Init => AllInit /\ AllClose
    <2>1. ASSUME Init, NEW r \in Runs PROVE Promised(r)!Init /\ Closes(r)
      <3>1. pc[r] = "idle" /\ loop[r] = "none" /\ closed[r] = FALSE /\ card[r] = "running"
            /\ chan[r] = << >> /\ stopped[r] = FALSE
        BY <2>1 DEF Init
      <3>2. LastEnd(chan[r]) = {}
        BY <3>1 DEF LastEnd
      <3> QED
        BY <3>1, <3>2 DEF Promised!Init, ChannelIs, EndIs, Closes
    <2> QED
      BY <2>1
  <1>2. Inv /\ AllClose /\ [Next]_vars => AllClose' /\ AllNext
    BY KeptStep DEF Keeps
  <1> HIDE DEF AllInit, AllNext, AllClose
  <1>3. Spec => AllInit /\ [][AllNext]_vars
    BY <1>1, <1>2, Inductive, PTL DEF Spec
  <1> QED
    BY <1>3 DEF ImplementsAgentRun, AllInit, AllNext
================================================================================
