---------------------------- MODULE MCRunPipeline ----------------------------
(* RunPipeline with one scope: two messages, the agent of the first of which *)
(* may be stubborn, and one command of each kind, a few of them in a history. *)
EXTENDS RunPipeline, TLC

CONSTANTS s1, m1, m2, c1, c2, c3, c4

MCScopeOf == [x \in Runs \cup Commands |-> s1]
MCKindOf == c1 :> "stop" @@ c2 :> "new" @@ c3 :> "mode" @@ c4 :> "model"

SomeMixes == {{m1, m2, c1}, {m1, m2, c2}, {m1, c3, c4}}
=============================================================================
