----------------------------- MODULE MCCardStream -----------------------------
(* CardStream for TLC: one refresh. *)
EXTENDS CardStream

CONSTANT r1
=============================================================================
