---------------------------- MODULE SerialBatcher ----------------------------
(***************************************************************************)
(* What PendingQueue promises to the bridge, without locks or timers: in   *)
(* each scope messages wait in the order they were sent, at most one batch *)
(* is being worked on, and a new batch is a non-empty prefix of what waits.*)
(***************************************************************************)
EXTENDS Naturals, Sequences

CONSTANTS Scopes,   \* conversation scopes (a p2p topic or a group chat)
          Messages  \* messages that may be sent, each of them once

VARIABLES waiting,  \* waiting[s]: accepted messages that no batch took yet
          current   \* current[s]: the batch being worked on, <<>> if none

vars == <<waiting, current>>

Init == /\ waiting = [s \in Scopes |-> <<>>]
        /\ current = [s \in Scopes |-> <<>>]

Accept(s, m) == /\ waiting' = [waiting EXCEPT ![s] = Append(@, m)]
                /\ UNCHANGED current

\* A new batch is the first n of the waiting messages.
Start(s, n) ==
  /\ current[s] = <<>>
  /\ current' = [current EXCEPT ![s] = SubSeq(waiting[s], 1, n)]
  /\ waiting' = [waiting EXCEPT ![s] = SubSeq(@, n + 1, Len(@))]

Finish(s) == /\ current[s] # <<>>
             /\ current' = [current EXCEPT ![s] = <<>>]
             /\ UNCHANGED waiting

Next == \E s \in Scopes :
          \/ \E m \in Messages : Accept(s, m)
          \/ \E n \in DOMAIN waiting[s] : Start(s, n)
          \/ Finish(s)

Spec == Init /\ [][Next]_vars
=============================================================================
