------------------------------- MODULE Bindings -------------------------------
(***************************************************************************)
(* Which chat continues which agent session: /bind, /open, /unbind, /new   *)
(* (internal/bridge/bind.go) and the end of a run (bridge.go) on the       *)
(* session and binding stores (internal/state), each saved as a whole by   *)
(* its own Flush.  A command runs in a goroutine of its own, so that its   *)
(* calls interleave with another's, with a run's end and with a crash,     *)
(* which keeps what was flushed.  A command is the list of the calls it    *)
(* still has to make.  stopRun is not a step here: the run that it stops   *)
(* reaches its end all the same.  A scope is a chat, never a topic of one. *)
(***************************************************************************)
EXTENDS Naturals, Sequences, FiniteSets

CONSTANTS
  Ids,        \* agent sessions
  Privates,   \* private chats
  Groups,     \* group chats, those included that nobody has created yet
  Commands,   \* goroutines of commands
  None,
  Budgets     \* bounds: the operations used, how many of them, of runs, crashes

Chats == Privates \cup Groups
Operations == {"bind", "force", "open", "unbind", "new"}

ASSUME BindingsAssumption ==
  /\ None \notin Ids \cup Chats /\ Privates \cap Groups = {}
  /\ Budgets \subseteq [ops : SUBSET Operations, commands : Nat, runs : Nat,
                        crashes : Nat, losses : Nat]

VARIABLES
  budget,   \* the bounds that are left
  chats,    \* chats[g]: "unknown", "live" or "gone" (dissolved, bot removed)
  sess,     \* sess[s]: the session that the next message in s resumes
  bind,     \* bind[x]: the chat that x is bound to
  saved,    \* the two stores on disk
  todo,     \* todo[c]: the calls that command c still makes
  cmd,      \* cmd[c]: its operation, chat, session and the binding it found
  run,      \* run[s]: the session of the run in s
  ending,   \* ending[s]: the calls that the run still makes at its end
  told,     \* history: told[x], the group that /open made for x and sent a card of
  chosen,   \* history: chosen[x], the chat that the last command gave x to
  given,    \* history: given[s], the session that a command gave to the chat s
  raced     \* history: sessions that two commands worked on at the same time

bindVars == <<budget, chats, sess, bind, saved, todo, cmd, run, ending, told, chosen, given, raced>>
stores == <<sess, bind, saved>>
answerVars == <<told, chosen, given, raced>>

Live(s) == chats[s] = "live"
Idle == [op |-> "none", chat |-> None, id |-> None, found |-> None]
Nowhere == [x \in Ids |-> None]
Nothing == [s \in Chats |-> None]

BindInit ==
  /\ budget \in Budgets
  /\ \E g \in Groups : chats = [s \in Chats |-> IF s \in Privates \cup {g} THEN "live"
                                                ELSE "unknown"]
  /\ sess = Nothing /\ bind = Nowhere
  /\ saved = [sess |-> sess, bind |-> bind]
  /\ todo = [c \in Commands |-> <<>>] /\ cmd = [c \in Commands |-> Idle]
  /\ run = Nothing /\ ending = [s \in Chats |-> <<>>]
  /\ told = Nowhere /\ chosen = Nowhere /\ given = Nothing /\ raced = {}

Spend(field) == budget[field] > 0 /\ budget' = [budget EXCEPT ![field] = @ - 1]

-----------------------------------------------------------------------------
(* The calls of the commands, each one step under the mutex of its store.  *)
Call(c, name) == todo[c] # <<>> /\ Head(todo[c]) = name
Then(c, calls) == todo' = [todo EXCEPT ![c] = calls]
Return(c) == Then(c, Tail(todo[c]))
Find(c, s) == cmd' = [cmd EXCEPT ![c].found = s]
Id(c) == cmd[c].id
Chat(c) == cmd[c].chat
Found(c) == cmd[c].found
Released(h, s) == [x \in Ids |-> IF h[x] = s THEN None ELSE h[x]]

First == [op \in Operations |->
  CASE op \in {"bind", "force"} -> <<"check">>
    [] op = "open" -> <<"lookup">>
    [] op = "unbind" -> <<"release", "save_bind", "leave", "save_sess">>
    [] op = "new" -> <<"leave", "save_sess", "release", "save_bind">>]
Adopting == <<"adopt", "save_sess", "link", "save_bind", "reply">>
Opening == <<"adopt", "save_sess", "displace", "link", "save_bind", "card">>

\* The sessions whose histories mean nothing once these two commands overlap.
Overlap(op, x, d) ==
  IF todo[d] = <<>> THEN {}
  ELSE IF op \in {"unbind", "new"} THEN {cmd[d].id} \ {None}
  ELSE IF cmd[d].op \in {"unbind", "new"} \/ cmd[d].id = x THEN {x} ELSE {}

\* A user sends a command (/open from anywhere); giving the chat up gives up
\* what it was told.
Send(c) ==
  /\ todo[c] = <<>> /\ Spend("commands")
  /\ \E op \in budget.ops :
     \E s \in IF op = "open" THEN {None} ELSE {t \in Chats : Live(t)},
        x \in IF op \in {"unbind", "new"} THEN {None} ELSE Ids :
       /\ cmd' = [cmd EXCEPT ![c] = [op |-> op, chat |-> s, id |-> x, found |-> None]]
       /\ Then(c, First[op])
       /\ raced' = raced \cup UNION {Overlap(op, x, d) : d \in Commands \ {c}}
       /\ IF op \in {"unbind", "new"}
          THEN told' = Released(told, s) /\ chosen' = Released(chosen, s)
          ELSE UNCHANGED <<told, chosen>>
  /\ UNCHANGED <<chats, stores, run, ending, given>>

\* The check of /bind: a binding elsewhere refuses, or --force clears it.
Check(c) ==
  /\ Call(c, "check")
  /\ LET old == bind[Id(c)]
         free == old \in {None, Chat(c)}
     IN /\ Find(c, old)
        /\ IF free THEN Then(c, Adopting)
           ELSE IF cmd[c].op = "force" THEN Then(c, <<"evict", "unlink">> \o Adopting)
           ELSE Then(c, <<>>)
        /\ IF free \/ cmd[c].op = "force"
           THEN /\ told' = [told EXCEPT ![Id(c)] = None]
                /\ chosen' = [chosen EXCEPT ![Id(c)] = None]
           ELSE UNCHANGED <<told, chosen>>
  /\ UNCHANGED <<budget, chats, stores, run, ending, given, raced>>

\* /open: the binding, or else any chat that has the session ...
Lookup(c) ==
  /\ Call(c, "lookup")
  /\ LET x == Id(c)
         having == {s \in Chats : sess[s] = x}
     IN IF bind[x] # None THEN Find(c, bind[x]) /\ Then(c, <<"reuse">>)
        ELSE IF having = {} THEN UNCHANGED cmd /\ Then(c, <<"create">>)
        ELSE \E s \in having : Find(c, s) /\ Then(c, <<"fallback">>)
  /\ UNCHANGED <<budget, chats, stores, run, ending, answerVars>>

\* ... which is bound if GetChat says that it is a group.  GetChat says so of a
\* living group only, and does not when any of its requests fails.
Fallback(c) ==
  /\ Call(c, "fallback")
  /\ \/ /\ Found(c) \in Groups /\ Live(Found(c))
        /\ bind' = [bind EXCEPT ![Id(c)] = Found(c)]
        /\ Then(c, <<"save_bind", "reuse">>)
     \/ UNCHANGED bind /\ Then(c, <<"create">>)
  /\ UNCHANGED <<budget, chats, sess, saved, cmd, run, ending, answerVars>>

\* A run of another session in s that is about to store that session.
Overwrites(s, x) == ending[s] # <<>> /\ Head(ending[s]) = "set" /\ run[s] # x

\* The session of s becomes x.  stopRun does not wait: the end of a run that was
\* at work in s stores its own session over it, so that nothing is sure of s.
Continue(s, x) ==
  /\ sess' = [sess EXCEPT ![s] = x]
  /\ given' = [given EXCEPT ![s] = IF Overwrites(s, x) THEN None ELSE x]

\* The session of s is deleted, whichever it is.
Vacate(s) == sess' = [sess EXCEPT ![s] = None] /\ given' = [given EXCEPT ![s] = None]

\* A group that answers GetChat is reused; one that does not is forgotten, with
\* all that was answered, also when it lives and a request has failed.
Reuse(c) ==
  /\ Call(c, "reuse")
  /\ \/ /\ Found(c) \in Groups /\ Live(Found(c))
        /\ Continue(Found(c), Id(c))
        /\ Then(c, <<"save_sess">>)
        /\ UNCHANGED <<told, chosen>>
     \/ /\ Found(c) \in Groups
        /\ told' = [told EXCEPT ![Id(c)] = None] /\ chosen' = [chosen EXCEPT ![Id(c)] = None]
        /\ Then(c, <<"unlink", "evict", "create">>)
        /\ UNCHANGED <<sess, given>>
     \/ /\ Found(c) \notin Groups
        /\ Then(c, <<"create">>)
        /\ UNCHANGED <<sess, told, chosen, given>>
  /\ UNCHANGED <<budget, chats, bind, saved, cmd, run, ending, raced>>

\* Creating fails and the command ends, or a /bind of before no longer counts.
Create(c) ==
  /\ Call(c, "create")
  /\ \/ Then(c, <<>>) /\ UNCHANGED <<chats, cmd, chosen>>
     \/ \E g \in Groups :
          /\ chats[g] = "unknown"
          /\ chats' = [chats EXCEPT ![g] = "live"]
          /\ chosen' = [chosen EXCEPT ![Id(c)] = None]
          /\ Find(c, g)
          /\ Then(c, Opening)
  /\ UNCHANGED <<budget, stores, run, ending, told, given, raced>>

\* The session and the binding end up at the chat, or at the opened group.
Goal(c) == IF cmd[c].op = "open" THEN Found(c) ELSE Chat(c)

Adopt(c) ==
  /\ Call(c, "adopt")
  /\ Continue(Goal(c), Id(c))
  /\ Return(c)
  /\ UNCHANGED <<budget, chats, bind, saved, cmd, run, ending, told, chosen, raced>>

\* Where the session was bound before the new group loses it.
Displace(c) ==
  /\ Call(c, "displace")
  /\ LET old == bind[Id(c)] IN
       IF old \in {None, Found(c)} THEN UNCHANGED <<sess, given>> /\ Return(c)
       ELSE Vacate(old) /\ Then(c, <<"save_sess">> \o Tail(todo[c]))
  /\ UNCHANGED <<budget, chats, bind, saved, cmd, run, ending, told, chosen, raced>>

Link(c) ==
  /\ Call(c, "link")
  /\ bind' = [bind EXCEPT ![Id(c)] = Goal(c)]
  /\ Return(c)
  /\ UNCHANGED <<budget, chats, sess, saved, cmd, run, ending, answerVars>>

\* The old chat's session, whatever it is by now, and the binding go.
Evict(c) ==
  /\ Call(c, "evict")
  /\ Vacate(Found(c))
  /\ Return(c)
  /\ UNCHANGED <<budget, chats, bind, saved, cmd, run, ending, told, chosen, raced>>

Unlink(c) ==
  /\ Call(c, "unlink")
  /\ bind' = [bind EXCEPT ![Id(c)] = None]
  /\ Return(c)
  /\ UNCHANGED <<budget, chats, sess, saved, cmd, run, ending, answerVars>>

ReleaseChat(c) ==
  /\ Call(c, "release")
  /\ bind' = Released(bind, Chat(c))
  /\ Return(c)
  /\ UNCHANGED <<budget, chats, sess, saved, cmd, run, ending, answerVars>>

ClearSession(c) ==
  /\ Call(c, "leave")
  /\ Vacate(Chat(c))
  /\ Return(c)
  /\ UNCHANGED <<budget, chats, bind, saved, cmd, run, ending, told, chosen, raced>>

SaveSess(c) ==
  /\ Call(c, "save_sess")
  /\ saved' = [saved EXCEPT !.sess = sess]
  /\ Return(c)
  /\ UNCHANGED <<budget, chats, sess, bind, cmd, run, ending, answerVars>>

\* Faulty end of a command: the bindings are not flushed.
SaveBindLater(c) ==
  /\ Call(c, "save_bind")
  /\ Return(c)
  /\ UNCHANGED <<budget, chats, stores, cmd, run, ending, answerVars>>

SaveBind(c) ==
  /\ Call(c, "save_bind")
  /\ saved' = [saved EXCEPT !.bind = bind]
  /\ Return(c)
  /\ UNCHANGED <<budget, chats, sess, bind, cmd, run, ending, answerVars>>

\* The answer of /bind, and the jump card of a group that /open made; in a group
\* that was lost meanwhile nobody reads them.
Reached(c) == IF Live(Goal(c)) THEN Goal(c) ELSE None

Reply(c) ==
  /\ Call(c, "reply")
  /\ chosen' = [chosen EXCEPT ![Id(c)] = Reached(c)]
  /\ Return(c)
  /\ UNCHANGED <<budget, chats, stores, cmd, run, ending, told, given, raced>>

Card(c) ==
  /\ Call(c, "card")
  /\ told' = [told EXCEPT ![Id(c)] = Reached(c)]
  /\ chosen' = [chosen EXCEPT ![Id(c)] = Reached(c)]
  /\ Return(c)
  /\ UNCHANGED <<budget, chats, stores, cmd, run, ending, given, raced>>

-----------------------------------------------------------------------------
(* A run, and the world.                                                   *)
\* A run resumes the chat's session; an agent that has none to resume or cannot
\* load it makes one or goes on with that of its process, and nothing is sure.
RunBegins(s) ==
  /\ Live(s) /\ run[s] = None /\ Spend("runs")
  /\ \E x \in Ids :
       /\ run' = [run EXCEPT ![s] = x]
       /\ given' = [given EXCEPT ![s] = IF sess[s] = x THEN @ ELSE None]
  /\ ending' = [ending EXCEPT ![s] = <<"set", "record", "save_sess", "save_bind">>]
  /\ UNCHANGED <<chats, stores, todo, cmd, told, chosen, raced>>

\* A run without a session id goes straight to the flushes.
RunFails(s) ==
  /\ ending[s] # <<>> /\ Head(ending[s]) = "set"
  /\ ending' = [ending EXCEPT ![s] = <<"save_sess", "save_bind">>]
  /\ UNCHANGED <<budget, chats, stores, todo, cmd, run, answerVars>>

\* Faulty recordGroupBinding: it takes a session that is bound elsewhere.
RecordedStealing(s) == IF s \in Privates THEN bind ELSE [bind EXCEPT ![run[s]] = s]

\* recordGroupBinding, SetIfAbsent
Recorded(s) ==
  IF s \in Privates \/ bind[run[s]] # None THEN bind ELSE [bind EXCEPT ![run[s]] = s]

RunEnds(s) ==
  /\ ending[s] # <<>>
  /\ LET call == Head(ending[s]) IN
       /\ sess' = IF call = "set" THEN [sess EXCEPT ![s] = run[s]] ELSE sess
       /\ bind' = IF call = "record" THEN Recorded(s) ELSE bind
       /\ saved' = [sess |-> IF call = "save_sess" THEN sess ELSE saved.sess,
                    bind |-> IF call = "save_bind" THEN bind ELSE saved.bind]
       /\ run' = IF call = "save_bind" THEN [run EXCEPT ![s] = None] ELSE run
  /\ ending' = [ending EXCEPT ![s] = Tail(@)]
  /\ UNCHANGED <<budget, chats, todo, cmd, answerVars>>

\* A group is dissolved, or the bot removed from it.
LoseGroup(g) ==
  /\ Live(g) /\ Spend("losses")
  /\ chats' = [chats EXCEPT ![g] = "gone"]
  /\ told' = Released(told, g) /\ chosen' = Released(chosen, g)
  /\ UNCHANGED <<stores, todo, cmd, run, ending, given, raced>>

\* A command has set the session of s and not yet saved it.
Unsaved(s) == \E c \in Commands : Call(c, "save_sess") /\ Goal(c) = s /\ Id(c) = given[s]

Crash ==
  /\ Spend("crashes")
  /\ sess' = saved.sess /\ bind' = saved.bind
  /\ todo' = [c \in Commands |-> <<>>] /\ cmd' = [c \in Commands |-> Idle]
  /\ run' = Nothing /\ ending' = [s \in Chats |-> <<>>]
  /\ given' = [s \in Chats |-> IF Unsaved(s) THEN None ELSE given[s]]
  /\ UNCHANGED <<chats, saved, told, chosen, raced>>

-----------------------------------------------------------------------------
Command(c) ==
  \/ Send(c) \/ Check(c) \/ Lookup(c) \/ Fallback(c) \/ Reuse(c) \/ Create(c)
  \/ Adopt(c) \/ Displace(c) \/ Link(c) \/ Evict(c) \/ Unlink(c) \/ ReleaseChat(c)
  \/ ClearSession(c) \/ SaveSess(c) \/ SaveBind(c) \/ Reply(c) \/ Card(c)

BindNext ==
  \/ \E c \in Commands : Command(c)
  \/ \E s \in Chats : RunBegins(s) \/ RunFails(s) \/ RunEnds(s)
  \/ \E g \in Groups : LoseGroup(g)
  \/ Crash

BindSpec == BindInit /\ [][BindNext]_bindVars

-----------------------------------------------------------------------------
\* Values of the variables.
Calls == {"check", "lookup", "fallback", "reuse", "create", "adopt", "displace", "link", "evict",
          "unlink", "release", "leave", "save_sess", "save_bind", "reply", "card"}
Sessions == [Chats -> Ids \cup {None}]
Bound == [Ids -> Chats \cup {None}]

BindTypeOK ==
  /\ budget \in [ops : SUBSET Operations, commands : Nat, runs : Nat, crashes : Nat, losses : Nat]
  /\ chats \in [Chats -> {"unknown", "live", "gone"}]
  /\ sess \in Sessions /\ bind \in Bound /\ saved \in [sess : Sessions, bind : Bound]
  /\ todo \in [Commands -> Seq(Calls)]
  /\ cmd \in [Commands -> [op : Operations \cup {"none"}, chat : Chats \cup {None},
                           id : Ids \cup {None}, found : Chats \cup {None}]]
  /\ run \in Sessions
  /\ ending \in [Chats -> Seq({"set", "record", "save_sess", "save_bind"})]
  /\ told \in Bound /\ chosen \in Bound /\ given \in Sessions /\ raced \subseteq Ids

\* "Already-bound groups are never recreated": once /open made a group and sent
\* its card, no /open of that session creates another, also after a crash at any
\* step of later commands and runs, until somebody gave the group or the
\* session up, the group was lost or did not answer an /open, or two commands of
\* the session overlapped.  (An answer fails with any request of GetChat: a
\* group that lives is then made again, which the comment of handleOpen denies.)
AnnouncedIsReused ==
  [][\A c \in Commands :
       chats' # chats /\ Call(c, "create") /\ todo'[c] = Opening
       => told[Id(c)] = None \/ Id(c) \in raced]_bindVars

\* What /bind or /open answered stays true, in memory and on disk, until a
\* command that gives the session elsewhere is accepted.  The binding: no run
\* that ends later, no restart, no refused command and no command about another
\* session takes the session elsewhere.  The session that the chat continues: no
\* run of the chat that begins after the command, no run of another chat and no
\* restart puts another in its place; only a command given in the chat, one about
\* a session that is also bound to it, an agent that does not resume it, or
\* the end of a run that the command found at work.
ChosenStays ==
  /\ \A x \in Ids : chosen[x] # None /\ x \notin raced
                    => bind[x] = chosen[x] /\ saved.bind[x] = chosen[x]
  /\ \A s \in Chats : given[s] # None
                      => sess[s] = given[s] /\ (saved.sess[s] = given[s] \/ Unsaved(s))
=============================================================================
