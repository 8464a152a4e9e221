------------------------ MODULE MCQuarantineRelease ------------------------
(***************************************************************************)
(* Finite instances of QuarantineRelease: one row of a single route and    *)
(* one without a route, which goes to both.                                *)
(***************************************************************************)
EXTENDS QuarantineRelease, TLC

CONSTANTS q1, q2

RowRoutes == [i \in Rows |-> IF i = q1 THEN {"absorbed"} ELSE Routes]
RowPosition == [i \in Rows |-> IF i = q1 THEN 1 ELSE 2]

=============================================================================
