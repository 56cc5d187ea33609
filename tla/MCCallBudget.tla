---------------------------- MODULE MCCallBudget ----------------------------
(***************************************************************************)
(* A recursion tree for CallBudget: a root p1 that plans the call c1 and   *)
(* the inner node p2, which plans c2 and c3; and the call c4 that nobody   *)
(* planned, as the task detection and the reductions are.  The limits are  *)
(* none, too few units for all, and just enough.                           *)
(***************************************************************************)
EXTENDS CallBudget, TLC

CONSTANTS c1, c2, c3, c4, p1, p2

MCCallers == {c1, c2, c3, c4}
MCPlanners == {p1, p2}
MCParent == c1 :> p1 @@ p2 :> p1 @@ c2 :> p2 @@ c3 :> p2 @@ c4 :> Root
            @@ p1 :> Root
MCLimits == {0, 3, 4}

=============================================================================
