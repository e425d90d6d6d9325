------------------------------- MODULE Registry -------------------------------
(***************************************************************************)
(* The registry of bridge processes (internal/registry/registry.go): one   *)
(* JSON file that every process edits under an advisory file lock, at its  *)
(* start, every 15 s and at its end, and that the dashboard reads and      *)
(* prunes.  The file is replaced by a rename, so a load or a save is one   *)
(* step.  An entry is the process it is about.                             *)
(***************************************************************************)
EXTENDS Naturals, FiniteSets

CONSTANTS Processes,  \* bridge processes, by PID
          Readers,    \* runs of the dashboard command
          Nobody

Threads == Processes \X {"main", "beat"}

ASSUME RegistryAssumption == Nobody \notin Threads

VARIABLES
  file,   \* the processes listed in processes.json
  lock,   \* the thread that holds the flock
  life,   \* life[p]: "new", "starting", "up", "closing", "leaving", "dead"
  step,   \* step[t]: "idle", "waiting" for the lock, "locked", "loaded"
  view,   \* view[t]: the entries a thread loaded and has not saved yet
  list,   \* list[r]: "idle", "loaded", "pruning" or "over"
  listed, \* listed[r]: the entries List works on
  dropped \* history: a dashboard saved a list without them, and they not since

vars == <<file, lock, life, step, view, list, listed, dropped>>

Init ==
  /\ file = {} /\ lock = Nobody
  /\ life = [p \in Processes |-> "new"]
  /\ step = [t \in Threads |-> "idle"]
  /\ view = [t \in Threads |-> {}]
  /\ list = [r \in Readers |-> "idle"]
  /\ listed = [r \in Readers |-> {}]
  /\ dropped = {}

Running(p) == life[p] \in {"starting", "up", "closing", "leaving"}
Main(p) == <<p, "main">>
Beat(p) == <<p, "beat">>
Goto(t, l) == step' = [step EXCEPT ![t] = l]

-----------------------------------------------------------------------------
\* Register and the function it returns run in main; the ticker may win the
\* select against a closed stop channel.
Register(p) ==
  /\ life[p] = "new"
  /\ life' = [life EXCEPT ![p] = "starting"]
  /\ Goto(Main(p), "waiting")
  /\ UNCHANGED <<file, lock, view, list, listed, dropped>>

Tick(p) ==
  /\ life[p] \in {"up", "closing", "leaving"} /\ step[Beat(p)] = "idle"
  /\ Goto(Beat(p), "waiting")
  /\ UNCHANGED <<file, lock, life, view, list, listed, dropped>>

Deregister(p) ==
  /\ life[p] = "up"
  /\ life' = [life EXCEPT ![p] = "closing"]
  /\ Goto(Main(p), "waiting")
  /\ UNCHANGED <<file, lock, view, list, listed, dropped>>

\* Faulty withLock: the lock is not exclusive.
LockShared(t) ==
  /\ step[t] = "waiting"
  /\ lock' = t
  /\ Goto(t, "locked")
  /\ UNCHANGED <<file, life, view, list, listed, dropped>>

\* withLock
Lock(t) ==
  /\ step[t] = "waiting" /\ lock = Nobody
  /\ lock' = t
  /\ Goto(t, "locked")
  /\ UNCHANGED <<file, life, view, list, listed, dropped>>

Load(t) ==
  /\ step[t] = "locked"
  /\ view' = [view EXCEPT ![t] = file]
  /\ Goto(t, "loaded")
  /\ UNCHANGED <<file, lock, life, list, listed, dropped>>

\* Faulty upsert: only an entry that is there is refreshed.
EditedRefreshing(t) ==
  IF t[2] = "main" /\ life[t[1]] = "closing" THEN view[t] \ {t[1]}
  ELSE IF t[2] = "main" THEN view[t] \cup {t[1]} ELSE view[t]

\* upsert, or the filter of deregistration.
Edited(t) == IF t[2] = "main" /\ life[t[1]] = "closing" THEN view[t] \ {t[1]}
             ELSE view[t] \cup {t[1]}

\* Main goes on when its edit is saved; the lock is given up.
Save(t) ==
  /\ step[t] = "loaded"
  /\ file' = Edited(t)
  /\ lock' = Nobody
  /\ life' = IF t[2] = "beat" THEN life
             ELSE [life EXCEPT ![t[1]] = IF @ = "starting" THEN "up" ELSE "leaving"]
  /\ Goto(t, "idle")
  /\ view' = [view EXCEPT ![t] = {}]
  /\ dropped' = dropped \ {t[1]}
  /\ UNCHANGED <<list, listed>>

\* A process ends, or is killed at any moment; its lock goes with it.
Die(p) ==
  /\ Running(p)
  /\ life' = [life EXCEPT ![p] = "dead"]
  /\ step' = [t \in Threads |-> IF t[1] = p THEN "idle" ELSE step[t]]
  /\ lock' = IF lock \in {Main(p), Beat(p)} THEN Nobody ELSE lock
  /\ view' = [t \in Threads |-> IF t[1] = p THEN {} ELSE view[t]]
  /\ UNCHANGED <<file, list, listed, dropped>>

-----------------------------------------------------------------------------
\* List takes no lock: load, probe every PID, save if one was dead.
ListLoad(r) ==
  /\ list[r] = "idle"
  /\ list' = [list EXCEPT ![r] = "loaded"]
  /\ listed' = [listed EXCEPT ![r] = file]
  /\ UNCHANGED <<file, lock, life, step, view, dropped>>

ListProbe(r) ==
  /\ list[r] = "loaded"
  /\ LET alive == {p \in listed[r] : Running(p)} IN
       /\ listed' = [listed EXCEPT ![r] = alive]
       /\ list' = [list EXCEPT ![r] = IF alive = listed[r] THEN "over" ELSE "pruning"]
  /\ UNCHANGED <<file, lock, life, step, view, dropped>>

ListSave(r) ==
  /\ list[r] = "pruning"
  /\ file' = listed[r]
  /\ dropped' = dropped \cup (Processes \ listed[r])
  /\ list' = [list EXCEPT ![r] = "over"]
  /\ UNCHANGED <<lock, life, step, view, listed>>

Edit(t) == Load(t) \/ Save(t)
List(r) == ListLoad(r) \/ ListProbe(r) \/ ListSave(r)

-----------------------------------------------------------------------------
\* Values of the variables; a thread edits the file exactly while it holds the
\* lock, also when another process was killed with the lock in its hands.
TypeOK ==
  /\ file \subseteq Processes
  /\ lock \in Threads \cup {Nobody}
  /\ life \in [Processes -> {"new", "starting", "up", "closing", "leaving", "dead"}]
  /\ step \in [Threads -> {"idle", "waiting", "locked", "loaded"}]
  /\ view \in [Threads -> SUBSET Processes]
  /\ list \in [Readers -> {"idle", "loaded", "pruning", "over"}]
  /\ listed \in [Readers -> SUBSET Processes]
  /\ dropped \subseteq Processes
  /\ \A t \in Threads : step[t] \in {"locked", "loaded"} <=> lock = t

\* A process that works is listed: concurrent edits of several processes and
\* of their heartbeats do not overwrite each other.  Only a dashboard, which
\* prunes without the lock, may drop it until its next heartbeat.
UpIsListed == \A p \in Processes : life[p] = "up" => p \in file \cup dropped

\* Whatever the dashboard did to the file, a process that works comes back.
MissingComesBack == \A p \in Processes :
  life[p] = "up" /\ p \notin file ~> p \in file \/ life[p] # "up"
=============================================================================
