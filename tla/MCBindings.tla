------------------------------ MODULE MCBindings ------------------------------
(* Bindings for TLC: a private chat, a live group, and two that can be created. *)
EXTENDS Bindings, TLC

CONSTANTS s1, s2, p1, g1, g2, g3, c1, c2

Budget(ops, commands, runs, crashes, losses) ==
  [ops |-> ops, commands |-> commands, runs |-> runs, crashes |-> crashes, losses |-> losses]

Symmetry == Permutations(Ids) \cup Permutations(Groups) \cup Permutations(Commands)

SomeBudgets ==
  {Budget({"open", "bind", "force"}, 2, 1, 1, 1), Budget({"open", "unbind", "new"}, 2, 1, 1, 1),
   Budget({"open", "bind"}, 3, 0, 1, 0), Budget({"open", "force"}, 3, 0, 0, 1),
   Budget({"force"}, 3, 1, 0, 0)}
=============================================================================
