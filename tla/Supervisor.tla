------------------------------ MODULE Supervisor ------------------------------
(***************************************************************************)
(* The connection supervisor of a bridge process                           *)
(* (internal/supervisor/supervisor.go): Run's loop builds a WebSocket      *)
(* client, waits for its first handshake, watches it with a REST probe and *)
(* builds another when it is lost for good; Stop runs in the goroutine     *)
(* that waits for the signal.  The client is the SDK's and is modelled by  *)
(* what the supervisor sees of it.  Time is not modelled: a timer may fire *)
(* at any moment after it is set.                                          *)
(***************************************************************************)
EXTENDS Naturals

CONSTANTS Processes,
          MaxProbeFails  \* failures in a row that force a rebuild

VARIABLES
  sup,     \* sup[p]: where Run is: "off" before it, "over" after it
  conn,    \* conn[p]: what s.client is to Feishu, "none" before the first
  ready,   \* ready[p]: the client's first handshake was seen
  left,    \* left[p]: an earlier client is still connected
  fails,   \* fails[p]: status.ConsecutiveFails
  stop,    \* stop[p]: Stop, "no", "flagged" or "over" (the channel is closed)
  victim   \* victim[p]: Stop is to close the client that s.client is now

supVars == <<sup, conn, ready, left, fails, stop, victim>>

Connected == {"dialing", "open", "lost"}

SupInit ==
  /\ sup = [p \in Processes |-> "off"] /\ conn = [p \in Processes |-> "none"]
  /\ ready = [p \in Processes |-> FALSE] /\ left = [p \in Processes |-> FALSE]
  /\ fails = [p \in Processes |-> 0]
  /\ stop = [p \in Processes |-> "no"] /\ victim = [p \in Processes |-> FALSE]

Stopped(p) == stop[p] # "no"
StopSeen(p) == stop[p] = "over"
At(p, l) == sup[p] = l
Move(p, l) == sup' = [sup EXCEPT ![p] = l]
Become(p, c) == conn' = [conn EXCEPT ![p] = c]

\* isStopped, which Run asks before and after every connectOnce.
Unless(p, l) == Move(p, IF Stopped(p) THEN "over" ELSE l)

-----------------------------------------------------------------------------
Begin(p) ==
  /\ At(p, "off")
  /\ Unless(p, "create")
  /\ UNCHANGED <<conn, ready, left, fails, stop, victim>>

\* Stop may have come since isStopped: its client is then the one before.
Create(p) ==
  /\ At(p, "create")
  /\ left' = [left EXCEPT ![p] = @ \/ conn[p] \in Connected]
  /\ Become(p, "dialing")
  /\ ready' = [ready EXCEPT ![p] = FALSE]
  /\ victim' = [victim EXCEPT ![p] = FALSE]
  /\ Move(p, "handshake")
  /\ UNCHANGED <<fails, stop>>

\* From here on nobody looks at the ready channel.
Shaken(p) ==
  /\ At(p, "handshake") /\ ready[p]
  /\ fails' = [fails EXCEPT ![p] = 0]
  /\ ready' = [ready EXCEPT ![p] = FALSE]
  /\ Move(p, "watch")
  /\ UNCHANGED <<conn, left, stop, victim>>

\* Faulty timeout: the client that did not shake hands is not closed.
HandshakeTimeoutLeaving(p) ==
  /\ At(p, "handshake")
  /\ Unless(p, "backoff")
  /\ UNCHANGED <<conn, ready, left, fails, stop, victim>>

HandshakeTimeout(p) ==
  /\ At(p, "handshake")
  /\ Become(p, "closed") /\ Unless(p, "backoff")
  /\ UNCHANGED <<ready, left, fails, stop, victim>>

\* Faulty wait: only the handshake looks at the stop channel.
SawStopEarly(p) ==
  /\ sup[p] = "handshake" /\ StopSeen(p)
  /\ Become(p, "closed") /\ Move(p, "over")
  /\ UNCHANGED <<ready, left, fails, stop, victim>>

\* <-s.stopCh, in the handshake and in the watch.
SawStop(p) ==
  /\ sup[p] \in {"handshake", "watch"} /\ StopSeen(p)
  /\ Become(p, "closed") /\ Move(p, "over")
  /\ UNCHANGED <<ready, left, fails, stop, victim>>

\* Faulty wait: only the handshake looks at the end of Start.
SawDoneEarly(p) ==
  /\ sup[p] = "handshake" /\ conn[p] \in {"gone", "closed"}
  /\ Unless(p, "backoff")
  /\ UNCHANGED <<conn, ready, left, fails, stop, victim>>

\* <-done: Start returned, for good or because the client was closed.
SawDone(p) ==
  /\ sup[p] \in {"handshake", "watch"} /\ conn[p] \in {"gone", "closed"}
  /\ Unless(p, "backoff")
  /\ UNCHANGED <<conn, ready, left, fails, stop, victim>>

ProbeOk(p) ==
  /\ At(p, "watch")
  /\ fails' = [fails EXCEPT ![p] = 0]
  /\ UNCHANGED <<sup, conn, ready, left, stop, victim>>

ProbeFails(p) ==
  /\ At(p, "watch")
  /\ fails' = [fails EXCEPT ![p] = @ + 1]
  /\ IF fails'[p] < MaxProbeFails THEN UNCHANGED <<sup, conn>>
     ELSE Become(p, "closed") /\ Unless(p, "backoff")
  /\ UNCHANGED <<ready, left, stop, victim>>

\* The timer and the stop channel are both ready when Stop came in the pause.
BackOff(p) ==
  /\ At(p, "backoff")
  /\ \/ Unless(p, "create")
     \/ StopSeen(p) /\ Move(p, "over")
  /\ UNCHANGED <<conn, ready, left, fails, stop, victim>>

-----------------------------------------------------------------------------
\* Stop takes the flag and the client under the mutex ...
StopFlag(p) ==
  /\ ~Stopped(p)
  /\ stop' = [stop EXCEPT ![p] = "flagged"]
  /\ victim' = [victim EXCEPT ![p] = conn[p] # "none"]
  /\ UNCHANGED <<sup, conn, ready, left, fails>>

\* ... and closes the channel and the client; one that was replaced meanwhile
\* is dead already.  Between the two only the loop's own Close could come.
StopClose(p) ==
  /\ stop[p] = "flagged"
  /\ stop' = [stop EXCEPT ![p] = "over"]
  /\ conn' = IF victim[p] THEN [conn EXCEPT ![p] = "closed"] ELSE conn
  /\ victim' = [victim EXCEPT ![p] = FALSE]
  /\ UNCHANGED <<sup, ready, left, fails>>

\* The SDK: the first handshake, reconnections, and giving up.
Sdk(p) ==
  /\ \/ conn[p] = "dialing" /\ Become(p, "open")
        /\ ready' = [ready EXCEPT ![p] = sup[p] = "handshake"]
     \/ conn[p] = "open" /\ Become(p, "lost") /\ UNCHANGED ready
     \/ conn[p] = "lost" /\ Become(p, "open") /\ UNCHANGED ready
     \/ conn[p] \in {"dialing", "lost"} /\ Become(p, "gone") /\ UNCHANGED ready
  /\ UNCHANGED <<sup, left, fails, stop, victim>>

\* The process dies: its sockets die with it.
Vanish(p) ==
  /\ Move(p, "over") /\ Become(p, "none")
  /\ ready' = [ready EXCEPT ![p] = FALSE] /\ left' = [left EXCEPT ![p] = FALSE]
  /\ fails' = [fails EXCEPT ![p] = 0]
  /\ stop' = [stop EXCEPT ![p] = "over"] /\ victim' = [victim EXCEPT ![p] = FALSE]

\* Values of the variables: failures are counted to the limit and no further.
SupTypeOK ==
  /\ sup \in [Processes -> {"off", "create", "handshake", "watch", "backoff", "over"}]
  /\ conn \in [Processes -> {"none", "dialing", "open", "lost", "gone", "closed"}]
  /\ {ready, left, victim} \subseteq [Processes -> BOOLEAN]
  /\ fails \in [Processes -> 0..MaxProbeFails]
  /\ stop \in [Processes -> {"no", "flagged", "over"}]

\* The steps that some goroutine takes sooner or later.
Loop(p) == Create(p) \/ Shaken(p) \/ BackOff(p)
Probe(p) == ProbeOk(p) \/ ProbeFails(p)
=============================================================================
