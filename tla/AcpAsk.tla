-------------------------------- MODULE AcpAsk --------------------------------
(***************************************************************************)
(* What an ACP agent asks, and what it is answered: the reading of Grok's  *)
(* and Cursor's questions, the form of their answers (grok.go, cursor.go), *)
(* and the permission nobody is asked for (acp.go).  A request is a title  *)
(* and questions [id, prompt, multi, options], an option [key, label]; ""  *)
(* is a field the agent left out.  What is shown keeps its place in the    *)
(* request, so questions and options are functions of some of 1, 2, ...    *)
(***************************************************************************)
EXTENDS Naturals, Sequences, TLC

CONSTANT Texts   \* what a user may type instead of choosing

ASSUME AcpAskAssumption == "" \notin Texts

Confirm == <<[key |-> "ok", label |-> "OK"]>>
OrConfirm(options) == IF DOMAIN options = {} THEN Confirm ELSE options

\* parseGrokAskParams: the label is the key; what has no text is skipped.
GrokOptions(options) == OrConfirm(
  [o \in {x \in DOMAIN options : options[x].label # ""} |->
     [key |-> options[o].label, label |-> options[o].label]])

GrokParse(questions) ==
  [i \in {j \in DOMAIN questions : questions[j].prompt # ""} |->
     [id |-> "", prompt |-> questions[i].prompt, multi |-> questions[i].multi,
      options |-> GrokOptions(questions[i].options)]]

\* parseCursorAskParams: of key and label one may be missing; the title stands
\* in for a prompt, and the place among all the questions for an id.
CursorOptions(options) == OrConfirm(
  [o \in {x \in DOMAIN options : options[x].key # "" \/ options[x].label # ""} |->
     [key |-> IF options[o].key = "" THEN options[o].label ELSE options[o].key,
      label |-> IF options[o].label = "" THEN options[o].key ELSE options[o].label]])

CursorParse(title, questions) ==
  [i \in {j \in DOMAIN questions : questions[j].prompt # "" \/ title # ""} |->
     [id |-> IF questions[i].id = "" THEN "q" \o ToString(i) ELSE questions[i].id,
      prompt |-> IF questions[i].prompt = "" THEN title ELSE questions[i].prompt,
      multi |-> questions[i].multi,
      options |-> CursorOptions(questions[i].options)]]

Parse(kind, request) ==
  IF kind = "grok" THEN GrokParse(request.questions)
                   ELSE CursorParse(request.title, request.questions)

-----------------------------------------------------------------------------
\* How the user answers (Submit, SubmitInput and SubmitComment of the broker):
\* with the keys picked in a form, of which some question has one, or with a
\* text, in the field of a question that is no multi-select or (0) in the chat.
KeysOf(question) == {question.options[o].key : o \in DOMAIN question.options}

Forms(questions) ==
  {[picked |-> c, text |-> "", at |-> 0] :
     c \in {c \in [DOMAIN questions -> SUBSET UNION {KeysOf(questions[i]) : i \in DOMAIN questions}] :
              /\ \A i \in DOMAIN questions :
                   c[i] \subseteq KeysOf(questions[i]) /\ (questions[i].multi \/ \A k, l \in c[i] : k = l)
              /\ \E i \in DOMAIN questions : c[i] # {}}}

Typed(questions) ==
  IF DOMAIN questions = {} THEN {} ELSE
  {[picked |-> [i \in DOMAIN questions |-> {}], text |-> t, at |-> a] :
     t \in Texts, a \in {0} \cup {i \in DOMAIN questions : ~questions[i].multi}}

UserChoices(questions) == Forms(questions) \cup Typed(questions)

FirstOf(indices) == CHOOSE i \in indices : \A j \in indices \ {i} : i < j
LastOf(indices) == CHOOSE i \in indices : \A j \in indices \ {i} : j < i

\* FormatAnswersWithComment: what is picked, by its labels; where nothing is,
\* the text, whichever question that was typed for.
LabelFor(question, key) ==
  question.options[FirstOf({o \in DOMAIN question.options : question.options[o].key = key})].label

ValuesOf(questions, choice, i) ==
  IF choice.picked[i] = {} THEN {choice.text} ELSE {LabelFor(questions[i], k) : k \in choice.picked[i]}

\* formatGrokAskAnswer: answers by the text of the question, the last of the
\* same text.
GrokAnswer(questions, choice) ==
  [p \in {questions[i].prompt : i \in DOMAIN questions} |->
     ValuesOf(questions, choice, LastOf({i \in DOMAIN questions : questions[i].prompt = p}))]

\* Faulty: the label goes back instead of the option's id.
MatchNothing(question, label) == label

\* matchCursorOptionID: the first option of that key or label.
MatchOption(question, label) ==
  LET same == {o \in DOMAIN question.options :
                 label \in {question.options[o].key, question.options[o].label}}
  IN  IF same = {} THEN label ELSE question.options[FirstOf(same)].key

\* formatCursorAskAnswer: answers by the id of the question; what is empty is
\* left out.
CursorAnswer(questions, choice) ==
  [d \in {questions[i].id : i \in DOMAIN questions} |->
     LET i == FirstOf({j \in DOMAIN questions : questions[j].id = d})
     IN  {MatchOption(questions[i], v) : v \in ValuesOf(questions, choice, i)} \ {""}]

\* What the agent hears as the answer to its i-th question.
Heard(kind, questions, choice, i) ==
  IF kind = "grok" THEN GrokAnswer(questions, choice)[questions[i].prompt]
                   ELSE CursorAnswer(questions, choice)[questions[i].id]

\* Grok tells its questions apart by their texts, Cursor by their ids, and
\* both an option by its key and its label.
Unambiguous(kind, questions) ==
  /\ \A i, j \in DOMAIN questions : i # j =>
       IF kind = "grok" THEN questions[i].prompt # questions[j].prompt
                        ELSE questions[i].id # questions[j].id
  /\ \A q \in DOMAIN questions : LET options == questions[q].options IN
       \A i, j \in DOMAIN options : i # j =>
         {options[i].key, options[i].label} \cap {options[j].key, options[j].label} = {}

\* What the agent hears is, of a form, the options picked for that question and
\* nothing for one that was passed over; and of a text, for the question it was
\* typed for, the text or the option it names.  The other questions hear that
\* text as well: the broker does not keep which question a text is for.
Said(kind, option) == IF kind = "grok" THEN option.label ELSE option.key
Silence(kind) == IF kind = "grok" THEN {""} ELSE {}
Picked(question, keys) ==
  {question.options[o] : o \in {x \in DOMAIN question.options : question.options[x].key \in keys}}
Named(question, text) ==
  {question.options[o] : o \in {x \in DOMAIN question.options :
                                  text \in {question.options[x].key, question.options[x].label}}}

IsHeard(kind, questions, choice) == \A i \in DOMAIN questions :
  LET heard == Heard(kind, questions, choice, i) IN
    IF choice.text = ""
    THEN heard = IF choice.picked[i] = {} THEN Silence(kind)
                 ELSE {Said(kind, option) : option \in Picked(questions[i], choice.picked[i])}
    ELSE choice.at \in {0, i} =>
           \/ heard = {choice.text}
           \/ \E option \in Named(questions[i], choice.text) : heard = {Said(kind, option)}

\* autoAllowPermission: allow_always, else allow_once, else the first option,
\* 0 being "cancelled".
AutoAllow(options) ==
  LET always == {i \in DOMAIN options : options[i] = "allow_always"}
      once == {i \in DOMAIN options : options[i] = "allow_once"}
  IN  IF always # {} THEN FirstOf(always) ELSE IF once # {} THEN FirstOf(once)
      ELSE IF options = << >> THEN 0 ELSE 1
=============================================================================
