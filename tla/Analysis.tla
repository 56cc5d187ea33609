------------------------------- MODULE Analysis -------------------------------
(* What an analysis does with its source, and what it does for the answer to *)
(* one prompt.  The two share no state: a behaviour is about one of them.    *)
EXTENDS Splitting, Request

SplitIdle ==
    /\ source = <<>> /\ task = "none" /\ window = 0 /\ userK = 0 /\ budget = 0 /\ keyed = FALSE
    /\ stage = "idle" /\ plan = <<>> /\ candidate = 0 /\ pending = <<>> /\ leaves = <<>>
    /\ cut = {} /\ lost = {} /\ pruned = {} /\ degraded = {}

RequestIdle ==
    /\ class = "none" /\ phase = "idle" /\ segment = 0 /\ messages = <<>> /\ combined = <<>>
    /\ body = <<>> /\ received = 0 /\ taken = 0 /\ opened = FALSE
    /\ event = <<>> /\ events = 0 /\ completion = Nothing /\ marked = FALSE
    /\ outcome = "none" /\ answers = <<>> /\ bomSplit = FALSE

Init == (SplitInit /\ RequestIdle) \/ (RequestInit /\ SplitIdle)

Next ==
    \/ SplitNext /\ UNCHANGED requestVars
    \/ RequestNext /\ UNCHANGED splitVars

Spec == Init /\ [][Next]_<<splitVars, requestVars>>
=============================================================================
