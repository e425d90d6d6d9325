----------------------------- MODULE ActiveCards -----------------------------
(***************************************************************************)
(* Crash recovery of streaming cards: active-cards.json lists the card of  *)
(* every run, and CleanupStaleCards finalizes what it lists after a crash  *)
(* and on shutdown.  Runs of different scopes read and write the file      *)
(* without a lock, and os.WriteFile truncates it before it writes.         *)
(***************************************************************************)
EXTENDS Naturals, FiniteSets

CONSTANTS Scopes,      \* each has one run at a time (PendingQueue)
          MaxCards,    \* bound: cards of all scopes
          MaxStops     \* bound: crashes and shutdowns

ASSUME CardsAssumption ==
  MaxCards \in Nat /\ MaxStops \in Nat /\ IsFiniteSet(Scopes)

VARIABLES
  up,      \* the process is "up", "starting", "stopping" or "down"
  stops,   \* crashes and shutdowns so far
  file,    \* file[s]: the listed card of s, 0 if none
  torn,    \* the file is truncated and not written yet
  raced,   \* history: two runs edited the file at the same time
  stage,   \* stage[s]: where the run of s is
  goal,    \* goal[s]: why the run edits the file
  view,    \* view[s]: what loadActiveCards returned to it, until it is written
  made,    \* made[s]: cards created in s; the last one is the run's
  card,    \* card[s][n]: "none", "live" (streaming, with a stop button) or "final"
  pushed,  \* pushed[s][n]: Feishu accepted an update of it, numbered from 1
  sweep,   \* CleanupStaleCards is at work
  entries, \* what it read from the file
  todo,    \* the scopes of entries it has not visited
  tried,   \* history: cards it tried to finalize
  lost     \* history: cards of runs that were at work when the process crashed and
           \* the file was whole

fileVars == <<file, torn, raced>>
runVars == <<stage, goal, view, made, card, pushed>>
sweepVars == <<sweep, entries, todo, tried>>
cardsVars == <<up, stops, fileVars, runVars, sweepVars, lost>>

Numbers == 1..MaxCards
Empty == [s \in Scopes |-> 0]
Cards == Scopes \X Numbers
Made == {c \in Cards : card[c[1]][c[2]] # "none"}
Listed(f) == {s \in Scopes : f[s] # 0}

CardsInit ==
  /\ up = "up" /\ stops = 0
  /\ file = Empty /\ torn = FALSE /\ raced = FALSE
  /\ stage = [s \in Scopes |-> "idle"]
  /\ goal = [s \in Scopes |-> "save"]
  /\ view = [s \in Scopes |-> Empty]
  /\ made = Empty
  /\ card = [s \in Scopes |-> [n \in Numbers |-> "none"]]
  /\ pushed = [s \in Scopes |-> [n \in Numbers |-> FALSE]]
  /\ sweep = FALSE /\ entries = Empty /\ todo = {} /\ tried = {}
  /\ lost = {}

Working == up \in {"up", "stopping"}
During(s, l) == Working /\ stage[s] = l
Enter(s, l) == stage' = [stage EXCEPT ![s] = l]

-----------------------------------------------------------------------------
\* stream.Start of a run, and of the card rotateRunCard continues on.
NewCard(s, why) ==
  /\ Cardinality(Made) < MaxCards
  /\ made' = [made EXCEPT ![s] = @ + 1]
  /\ card' = [card EXCEPT ![s][made[s] + 1] = "live"]
  /\ goal' = [goal EXCEPT ![s] = why]
  /\ UNCHANGED <<up, stops, fileVars, view, pushed, sweepVars, lost>>

Begin(s) == During(s, "idle") /\ NewCard(s, "save") /\ Enter(s, "loading")

\* Faulty rotateRunCard: the new card is not saved.
RotateUnsaved(s) == During(s, "running") /\ NewCard(s, "rotate") /\ Enter(s, "retiring")

Rotate(s) == During(s, "running") /\ NewCard(s, "rotate") /\ Enter(s, "loading")

\* saveActiveCard and removeActiveCard: load the file ...
Load(s) ==
  /\ During(s, "loading")
  /\ view' = [view EXCEPT ![s] = IF torn THEN Empty ELSE file]
  /\ raced' = (raced \/ \E t \in Scopes : stage[t] \in {"writing", "truncated"})
  /\ Enter(s, "writing")
  /\ UNCHANGED <<up, stops, file, torn, goal, made, card, pushed, sweepVars, lost>>

Edited(s) == [view[s] EXCEPT ![s] = IF goal[s] = "remove" THEN 0 ELSE made[s]]

AfterEdit(s) == CASE goal[s] = "save" -> "running"
                  [] goal[s] = "rotate" -> "retiring"
                  [] goal[s] = "remove" -> "finishing"

\* ... then remove it if nothing is left ...
RemoveFile(s) ==
  /\ During(s, "writing") /\ Edited(s) = Empty
  /\ file' = Empty /\ torn' = FALSE
  /\ Enter(s, AfterEdit(s))
  /\ view' = [view EXCEPT ![s] = Empty]
  /\ UNCHANGED <<up, stops, raced, goal, made, card, pushed, sweepVars, lost>>

\* ... or truncate it and write.
Truncate(s) ==
  /\ During(s, "writing") /\ Edited(s) # Empty
  /\ torn' = TRUE
  /\ Enter(s, "truncated")
  /\ UNCHANGED <<up, stops, file, raced, goal, view, made, card, pushed, sweepVars, lost>>

WriteFile(s) ==
  /\ During(s, "truncated")
  /\ file' = Edited(s) /\ torn' = FALSE
  /\ Enter(s, AfterEdit(s))
  /\ view' = [view EXCEPT ![s] = Empty]
  /\ UNCHANGED <<up, stops, raced, goal, made, card, pushed, sweepVars, lost>>

\* The stream pushes an update (every second, or at an event).
PushUpdate(s) ==
  /\ During(s, "running")
  /\ pushed' = [pushed EXCEPT ![s][made[s]] = TRUE]
  /\ UNCHANGED <<up, stops, fileVars, stage, goal, view, made, card, sweepVars, lost>>

\* rotateRunCard: the last update of the old card, and Finish.
Retire(s) ==
  /\ During(s, "retiring")
  /\ card' = [card EXCEPT ![s][made[s] - 1] = "final"]
  /\ Enter(s, "running")
  /\ UNCHANGED <<up, stops, fileVars, goal, view, made, pushed, sweepVars, lost>>

\* The end of runBatch: removeActiveCard, and only then Finish.
End(s) ==
  /\ During(s, "running")
  /\ goal' = [goal EXCEPT ![s] = "remove"]
  /\ Enter(s, "loading")
  /\ UNCHANGED <<up, stops, fileVars, view, made, card, pushed, sweepVars, lost>>

FinishCard(s) ==
  /\ During(s, "finishing")
  /\ card' = [card EXCEPT ![s][made[s]] = "final"]
  /\ Enter(s, "idle")
  /\ UNCHANGED <<up, stops, fileVars, goal, view, made, pushed, sweepVars, lost>>

-----------------------------------------------------------------------------
\* The process dies; what was at work is gone, the file stays as it is.
Die ==
  /\ stops < MaxStops
  /\ stops' = stops + 1
  /\ up' = "down"
  /\ stage' = [s \in Scopes |-> "idle"]
  /\ view' = [s \in Scopes |-> Empty]
  /\ sweep' = FALSE /\ entries' = Empty /\ todo' = {}
  /\ lost' = IF up = "up" /\ ~torn
             THEN lost \cup {<<s, made[s]>> : s \in {s \in Scopes : stage[s] = "running"}}
             ELSE lost
  /\ UNCHANGED <<fileVars, goal, made, card, pushed, tried>>

Crash == up # "down" /\ Die

\* A signal stops the supervisor; main returns as soon as Run does, whether or
\* not the goroutine that cleans up and flushes got anywhere.
Signal ==
  /\ up = "up"
  /\ up' = "stopping"
  /\ UNCHANGED <<stops, fileVars, runVars, sweepVars, lost>>

Exit == up = "stopping" /\ Die

\* Faulty: the file is removed before it is read.
ReadEntriesLate ==
  /\ file' = Empty /\ torn' = FALSE
  /\ sweep' = TRUE
  /\ entries' = Empty /\ todo' = {}
  /\ UNCHANGED <<raced, tried>>

ReadEntries ==
  \/ /\ torn
     /\ file' = Empty /\ torn' = FALSE
     /\ UNCHANGED <<raced, sweepVars>>
  \/ /\ ~torn /\ Listed(file) # {}
     /\ sweep' = TRUE
     /\ entries' = file /\ todo' = Listed(file)
     /\ UNCHANGED <<fileVars, tried>>
  \/ /\ ~torn /\ Listed(file) = {}
     /\ UNCHANGED <<fileVars, sweepVars>>

\* At the start it runs before the bridge takes events ...
Start ==
  /\ up = "down"
  /\ ReadEntries
  /\ up' = IF sweep' THEN "starting" ELSE "up"
  /\ UNCHANGED <<stops, runVars, lost>>

\* ... on shutdown it runs beside the runs, which nobody stopped.
StopSweep ==
  /\ up = "stopping" /\ ~sweep
  /\ ReadEntries
  /\ UNCHANGED <<up, stops, runVars, lost>>

\* Its update has the sequence number 0, and its FinishStreamingCard 1; Feishu
\* refuses a number that does not increase.
Visit(s) ==
  /\ sweep /\ s \in todo
  /\ todo' = todo \ {s}
  /\ tried' = tried \cup {<<s, entries[s]>>}
  /\ \E state \in IF pushed[s][entries[s]] THEN {card[s][entries[s]]}
                  ELSE {card[s][entries[s]], "final"} :
       card' = [card EXCEPT ![s][entries[s]] = state]
  /\ UNCHANGED <<up, stops, fileVars, stage, goal, view, made, pushed, sweep, entries, lost>>

SweepDone ==
  /\ sweep /\ todo = {}
  /\ sweep' = FALSE /\ entries' = Empty
  /\ file' = Empty /\ torn' = FALSE
  /\ up' = IF up = "starting" THEN "up" ELSE up
  /\ UNCHANGED <<stops, raced, runVars, todo, tried, lost>>

Edit(s) == Load(s) \/ RemoveFile(s) \/ Truncate(s) \/ WriteFile(s)
Run(s) == Begin(s) \/ Rotate(s) \/ PushUpdate(s) \/ Retire(s) \/ End(s) \/ FinishCard(s)

CardsNext ==
  \/ \E s \in Scopes : Edit(s) \/ Run(s) \/ Visit(s)
  \/ Crash \/ Signal \/ Exit
  \/ Start \/ StopSweep \/ SweepDone

CardsSpec == CardsInit /\ [][CardsNext]_cardsVars

-----------------------------------------------------------------------------
\* Values of the variables; CleanupStaleCards visits listed cards only.
CardsTypeOK ==
  /\ up \in {"up", "starting", "stopping", "down"}
  /\ stops \in 0..MaxStops
  /\ file \in [Scopes -> 0..MaxCards] /\ torn \in BOOLEAN /\ raced \in BOOLEAN
  /\ stage \in [Scopes -> {"idle", "loading", "writing", "truncated", "running", "retiring",
                        "finishing"}]
  /\ goal \in [Scopes -> {"save", "rotate", "remove"}]
  /\ view \in [Scopes -> [Scopes -> 0..MaxCards]]
  /\ made \in [Scopes -> 0..MaxCards]
  /\ card \in [Scopes -> [Numbers -> {"none", "live", "final"}]]
  /\ pushed \in [Scopes -> [Numbers -> BOOLEAN]]
  /\ sweep \in BOOLEAN
  /\ entries \in [Scopes -> 0..MaxCards] /\ todo \subseteq Listed(entries)
  /\ tried \subseteq Cards /\ lost \subseteq Cards

\* The card of a run at work is listed, also after a rotation, a crash or a
\* shutdown that was cut short, so that a crash leaves a trace of it.  Two runs
\* that edit the file at the same time lose an update, so those are exempt.
RunningIsListed == \A s \in Scopes :
  up = "up" /\ stage[s] = "running" /\ ~raced => file[s] = made[s]

\* After a crash, and before the bridge works again, CleanupStaleCards has
\* visited the card of every run that was at work and whose file was whole.
LostIsTried == up = "up" /\ ~raced => lost \subseteq tried

\* "CleanupStaleCards finalizes any streaming cards that were left in-flight
\* by the previous bridge instance."
LostIsFinal == up = "up" => \A c \in lost : card[c[1]][c[2]] = "final"
=============================================================================
