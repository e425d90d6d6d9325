-------------------------------- MODULE MCHost --------------------------------
(* Host for TLC: two processes of one or of two profiles, one dashboard. *)
EXTENDS Host, TLC

CONSTANTS p1, p2, f1, f2, d1

Plan(second, readers, calm, stops) ==
  [of |-> p1 :> f1 @@ p2 :> second, readers |-> readers, calm |-> calm, stops |-> stops]

\* A lossy connection, a dashboard, and two profiles at once.
SomePlans ==
  {Plan(f1, {}, FALSE, TRUE), Plan(f1, {d1}, TRUE, FALSE), Plan(f2, {}, TRUE, TRUE)}
=============================================================================
