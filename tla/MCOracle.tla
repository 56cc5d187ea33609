------------------------------ MODULE MCOracle ------------------------------
(***************************************************************************)
(* Three calls, two of which always share a prompt.  There are fewer       *)
(* permits than calls.  All may share a prompt, with no budget to run out  *)
(* of; or one has its own, and the budget is too small for all; or the run *)
(* is a dry one without a cache.                                           *)
(***************************************************************************)
EXTENDS Oracle, TLC

CONSTANTS c1, c2, c3, a, b

MCCallers == {c1, c2, c3}
MCPrompts == {a, b}

Setup(p, limit, dry, cached) ==
  [prompt |-> c1 :> a @@ c2 :> a @@ c3 :> p, max_calls |-> limit,
   dry_run |-> dry, cache_enabled |-> cached]

MCSetups == {Setup(a, 0, FALSE, TRUE), Setup(b, 2, FALSE, TRUE),
             Setup(a, 2, TRUE, FALSE)}

=============================================================================
