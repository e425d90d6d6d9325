--------------------------------- MODULE Host ---------------------------------
(***************************************************************************)
(* The life of bridge processes on one machine (cmd/.../main.go, run):     *)
(* take the profile's lock, register, supervise the connection until a     *)
(* signal, deregister and give the lock up.  Composes the registry, the    *)
(* supervisor and the profile lock (internal/registry/profile_lock.go),    *)
(* which the kernel frees when its process dies, however it dies.          *)
(***************************************************************************)
EXTENDS Registry

CONSTANTS
  Profiles,
  Plans,         \* bounds of a history: who runs what, and what may go wrong
  MaxProbeFails  \* failed probes in a row that force a rebuild

ASSUME HostAssumption ==
  /\ Plans \subseteq [of : [Processes -> Profiles], readers : SUBSET Readers,
                    calm : BOOLEAN, stops : BOOLEAN]
  /\ MaxProbeFails \in Nat \ {0}
  /\ Nobody \notin Processes

VARIABLES
  plan,      \* plan.of[p]: the profile p was started for; the dashboards that
             \* run; calm: the heart beats and connections hold, or else
             \* neither; stops: a process may be sent a signal
  owner,     \* owner[f]: the process that holds the lock of profile f
  sup, conn, ready, left, fails, stop, victim

Sup == INSTANCE Supervisor

lockVars == <<plan, owner>>
supVars == <<sup, conn, ready, left, fails, stop, victim>>
hostVars == <<vars, lockVars, supVars>>

HostInit ==
  /\ Init /\ Sup!SupInit
  /\ plan \in Plans
  /\ owner = [f \in Profiles |-> Nobody]

Holds(p) == owner[plan.of[p]] = p
Freed(p) == [f \in Profiles |-> IF owner[f] = p THEN Nobody ELSE owner[f]]

-----------------------------------------------------------------------------
Acquire(p) ==
  /\ life[p] = "new" /\ owner[plan.of[p]] = Nobody
  /\ owner' = [owner EXCEPT ![plan.of[p]] = p]
  /\ UNCHANGED <<vars, plan, supVars>>

\* The lock is held, or one of the steps before Register failed.
StartFails(p) ==
  /\ life[p] = "new" /\ owner[plan.of[p]] # Nobody
  /\ life' = [life EXCEPT ![p] = "dead"]
  /\ owner' = Freed(p)
  /\ UNCHANGED <<file, lock, step, view, list, listed, dropped, plan, supVars>>

Enlist(p) ==
  /\ Holds(p) /\ Register(p)
  /\ UNCHANGED <<lockVars, supVars>>

Supervise(p) ==
  /\ life[p] = "up" /\ Sup!Begin(p)
  /\ UNCHANGED <<vars, lockVars>>

\* The signal is caught once Run is about to begin.
Signal(p) ==
  /\ plan.stops /\ life[p] = "up" /\ Sup!StopFlag(p)
  /\ UNCHANGED <<vars, lockVars>>

\* The deferred calls of run, last first.
Leave(p) ==
  /\ sup[p] = "over" /\ Deregister(p)
  /\ UNCHANGED <<lockVars, supVars>>

Release(p) ==
  /\ life[p] = "leaving" /\ Holds(p)
  /\ owner' = Freed(p)
  /\ UNCHANGED <<vars, plan, supVars>>

Exit(p) ==
  /\ life[p] = "leaving" /\ ~Holds(p)
  /\ Die(p) /\ Sup!Vanish(p)
  /\ UNCHANGED lockVars

Killed(p) ==
  /\ Die(p) /\ Sup!Vanish(p)
  /\ owner' = Freed(p)
  /\ UNCHANGED plan

-----------------------------------------------------------------------------
MainStep(p) == Supervise(p) \/ Leave(p) \/ Release(p) \/ Exit(p)

RegistryStep(p) ==
  /\ (plan.calm /\ Tick(p)) \/ \E t \in {Main(p), Beat(p)} : Lock(t) \/ Edit(t)
  /\ UNCHANGED <<lockVars, supVars>>

SupervisorStep(p) ==
  /\ \/ Sup!Loop(p) \/ Sup!SawStop(p) \/ Sup!SawDone(p) \/ Sup!StopClose(p)
     \/ ~plan.calm /\ (Sup!Probe(p) \/ Sup!HandshakeTimeout(p))
     \/ Sup!Sdk(p) /\ (plan.calm => conn'[p] = "open")
  /\ UNCHANGED <<vars, lockVars>>

Dashboard(r) == r \in plan.readers /\ List(r) /\ UNCHANGED <<lockVars, supVars>>

Next ==
  \/ \E p \in Processes :
       \/ Acquire(p) \/ StartFails(p) \/ Enlist(p) \/ MainStep(p) \/ Signal(p) \/ Killed(p)
       \/ RegistryStep(p) \/ SupervisorStep(p)
  \/ \E r \in Readers : Dashboard(r)

Spec == HostInit /\ [][Next]_hostVars

\* What main and the supervisor's goroutines do by themselves.
Work(p) ==
  \/ MainStep(p)
  \/ /\ \/ Sup!Loop(p) \/ Sup!SawStop(p) \/ Sup!SawDone(p) \/ Sup!StopClose(p)
        \/ ~plan.calm /\ Sup!HandshakeTimeout(p)
     /\ UNCHANGED <<vars, lockVars>>

\* Goroutines run, the ticker ticks, a timer fires, and a thread that waits for
\* the file's lock gets it if it keeps being given up (flock queues its
\* waiters).  Nobody has to start, stop or kill a process, no dashboard has to
\* go on, and the SDK and Feishu owe nothing.
FairSpec ==
  /\ Spec
  /\ \A p \in Processes :
       /\ WF_hostVars(Work(p))
       /\ WF_hostVars(plan.calm /\ Tick(p) /\ UNCHANGED <<lockVars, supVars>>)
       /\ \A t \in {Main(p), Beat(p)} : SF_hostVars(Lock(t) /\ UNCHANGED <<lockVars, supVars>>)
  /\ WF_hostVars(\E t \in Threads : Edit(t) /\ UNCHANGED <<lockVars, supVars>>)

-----------------------------------------------------------------------------
\* At most one client of a profile is connected to Feishu, whichever process
\* has it and however often it was rebuilt: two would both answer a message.
\* The lock of the profile and every Close of the supervisor are needed.
OneConnection ==
  /\ \A p \in Processes : ~left[p]
  /\ \A p, q \in Processes :
       /\ plan.of[p] = plan.of[q]
       /\ conn[p] \in Sup!Connected /\ conn[q] \in Sup!Connected
       => p = q

\* A signal ends the process through Run, deregister and the lock's release,
\* wherever the supervisor's loop is when it comes.
StopEnds == \A p \in Processes : stop[p] = "flagged" ~> life[p] = "dead"

\* A connection the SDK gave up is replaced by a new client, unless the process
\* is on its way out.
LostIsReplaced == \A p \in Processes :
  conn[p] = "gone" ~> conn[p] = "dialing" \/ sup[p] = "over"
=============================================================================
