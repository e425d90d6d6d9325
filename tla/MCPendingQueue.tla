---------------------------- MODULE MCPendingQueue ----------------------------
(* PendingQueue for TLC: two scopes, messages of both. *)
EXTENDS PendingQueue

CONSTANTS s1, s2, m1, m2, m3, m4
=============================================================================
