---------------------------- MODULE MCActiveCards ----------------------------
(* ActiveCards with two scopes for TLC. *)
EXTENDS ActiveCards

CONSTANTS s1, s2
=============================================================================
