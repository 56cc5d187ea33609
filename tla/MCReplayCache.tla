--------------------------- MODULE MCReplayCache ---------------------------
(***************************************************************************)
(* Two calls use a cache directory of at most one entry, each in a process *)
(* of its own or both in one.                                              *)
(***************************************************************************)
EXTENDS ReplayCache, TLC

CONSTANTS p1, p2, t1, t2, a, b, c, d

MCProcs == {p1, p2}
MCTasks == {t1, t2}
MCProc == t1 :> p1 @@ t2 :> p2
OneProcess == t1 :> p1 @@ t2 :> p1
MCKeys == {a, b, c, d}

KeySymmetry == Permutations(MCKeys)

=============================================================================
