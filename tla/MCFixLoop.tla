----------------------------- MODULE MCFixLoop -----------------------------
(***************************************************************************)
(* Runs of every kind: single-shot, headless and interactive fix loops,    *)
(* with no bound, with two iterations, and with the budget for one         *)
(* headless generator and a call besides.                                  *)
(***************************************************************************)
EXTENDS FixLoop

Modes == {<<FALSE, FALSE>>, <<TRUE, FALSE>>, <<TRUE, TRUE>>}
Bounds == {<<0, 0>>, <<2, 0>>, <<0, 3>>, <<2, 3>>}

MCSetups ==
  {[fix |-> mode[1], interactive |-> mode[2],
    max_iterations |-> bound[1], max_calls |-> bound[2]] :
     mode \in Modes, bound \in Bounds}

=============================================================================
