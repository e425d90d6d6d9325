------------------------------- MODULE AgentRun -------------------------------
(***************************************************************************)
(* What a run promises the bridge, whichever agent it is of (the Run of    *)
(* internal/agent/types.go): its event channel is opened once and closed   *)
(* once, how the run ended is told while it is open, and what the card     *)
(* reads at last is the last that was told, not a thing that came late or  *)
(* overtook it.  An adapter that is silent about the end leaves it to the  *)
(* bridge, which takes a run that nobody stopped for done.                 *)
(***************************************************************************)
CONSTANT OneEnd  \* the adapter tells the end once at most

VARIABLES state,   \* "none", "open" or "closed": the channel; "over": the loop
                   \* of runBatch has seen it closed
          end,     \* how the run ended, as far as was told, or "running"
          stopped  \* Stop was called

vars == <<state, end, stopped>>

Ends == {"done", "interrupted", "error"}

Init == state \in {"none", "open"} /\ end = "running" /\ stopped = FALSE

Open ==
  /\ state = "none" /\ state' = "open"
  /\ UNCHANGED <<end, stopped>>

\* The end is told, once or again.
Tells == (OneEnd => end = "running") /\ end' \in Ends

Tell ==
  /\ state = "open" /\ Tells
  /\ UNCHANGED <<state, stopped>>

\* Some adapters close the channel with the last event.
Close ==
  /\ state = "open" /\ state' = "closed"
  /\ Tells \/ UNCHANGED end
  /\ UNCHANGED stopped

Stop ==
  /\ state # "none" /\ stopped' = TRUE
  /\ UNCHANGED <<state, end>>

\* The loop has read all there was.
Conclude ==
  /\ state = "closed" /\ state' = "over"
  /\ end' = IF end # "running" THEN end ELSE IF stopped THEN "interrupted" ELSE "done"
  /\ UNCHANGED stopped

Next == Open \/ Tell \/ Close \/ Stop \/ Conclude

Spec == Init /\ [][Next]_vars
=============================================================================
