--------------------------- MODULE CircuitBreaker ---------------------------
(***************************************************************************)
(* The lock-free circuit breaker of src/src/resilience.rs, shared by every *)
(* concurrent Oracle::call (and, as separate instances, by the code        *)
(* generators).  Each access to one of its three atomics is one step, so   *)
(* allow_request, record_success and record_failure of different callers   *)
(* interleave as their threads do.                                         *)
(*                                                                         *)
(* The breaker only ever compares `now - last_failure' with the cooldown,  *)
(* so a time stamp is represented by its age, which Tick advances and      *)
(* which saturates at Cooldown: the clock needs no bound.                  *)
(***************************************************************************)
EXTENDS Integers, FiniteSets

CONSTANTS
  Callers,    \* the tasks that ask the breaker and report to it
  Threshold,  \* consecutive failures that open it
  Cooldown    \* clock ticks it stays open

(* "PRE: threshold > 0, cooldown > 0", and finitely many tasks. *)
ASSUME BreakerAssumption ==
  /\ IsFiniteSet(Callers)
  /\ Threshold \in Nat \ {0}
  /\ Cooldown \in Nat \ {0}

VARIABLES
  consecutive_failures,
  last_failure_age,     \* age of last_failure_mono_ms
  half_open_probe,
  pc,                   \* where each caller is
  age,                  \* age of the time stamp in a caller's local; 0 if none
  new_failures,         \* the local of that name in record_failure; 0 if none
  probing,              \* the callers admitted by claiming half_open_probe
  abandoned             \* history: a claim ended silently and is still set

vars == <<consecutive_failures, last_failure_age, half_open_probe,
          pc, age, new_failures, probing, abandoned>>

cap == 2 * Threshold

Steps == {"idle", "load_last", "check_cooldown", "claim", "calling",
          "clear_after_success", "read_clock", "stamp", "clear_after_failure",
          "rejuvenate"}

TypeOK ==
  /\ consecutive_failures \in Nat
  /\ last_failure_age \in 0 .. Cooldown
  /\ half_open_probe \in BOOLEAN
  /\ pc \in [Callers -> Steps]
  /\ age \in [Callers -> 0 .. Cooldown]
  /\ new_failures \in [Callers -> Nat]
  /\ probing \subseteq Callers
  /\ abandoned \in BOOLEAN

Init ==
  /\ consecutive_failures = 0
  /\ last_failure_age = 0
  /\ half_open_probe = FALSE
  /\ pc = [c \in Callers |-> "idle"]
  /\ age = [c \in Callers |-> 0]
  /\ new_failures = [c \in Callers |-> 0]
  /\ probing = {}
  /\ abandoned = FALSE

Goto(c, from, to) ==
  /\ pc[c] = from
  /\ pc' = [pc EXCEPT ![c] = to]

Older(a) == IF a < Cooldown THEN a + 1 ELSE a

(* monotonic_ms advances; every stamp, stored or held, gets older. *)
Tick ==
  /\ last_failure_age' = Older(last_failure_age)
  /\ age' = [c \in Callers |-> IF pc[c] \in {"check_cooldown", "stamp"}
                               THEN Older(age[c]) ELSE age[c]]
  /\ UNCHANGED <<consecutive_failures, half_open_probe, pc, new_failures,
                 probing, abandoned>>

-----------------------------------------------------------------------------
(* allow_request *)

LoadFailures(c) ==
  /\ pc[c] = "idle"
  /\ pc' = [pc EXCEPT ![c] = IF consecutive_failures < Threshold
                             THEN "calling" ELSE "load_last"]
  /\ UNCHANGED <<consecutive_failures, last_failure_age, half_open_probe, age,
                 new_failures, probing, abandoned>>

LoadLast(c) ==
  /\ Goto(c, "load_last", "check_cooldown")
  /\ age' = [age EXCEPT ![c] = last_failure_age]
  /\ UNCHANGED <<consecutive_failures, last_failure_age, half_open_probe,
                 new_failures, probing, abandoned>>

CheckCooldown(c) ==
  /\ Goto(c, "check_cooldown", IF age[c] < Cooldown THEN "idle" ELSE "claim")
  /\ age' = [age EXCEPT ![c] = 0]
  /\ UNCHANGED <<consecutive_failures, last_failure_age, half_open_probe,
                 new_failures, probing, abandoned>>

(* compare_exchange(false, true) on half_open_probe. *)
Claim(c) ==
  /\ Goto(c, "claim", IF half_open_probe THEN "idle" ELSE "calling")
  /\ half_open_probe' = TRUE
  /\ probing' = IF half_open_probe THEN probing ELSE probing \cup {c}
  /\ UNCHANGED <<consecutive_failures, last_failure_age, age, new_failures,
                 abandoned>>

-----------------------------------------------------------------------------
(* record_success: two stores *)

\* Mutant: a success takes one failure back, with a fetch_sub.
RecordSuccessTakesBack(c) ==
  /\ Goto(c, "calling", "clear_after_success")
  /\ consecutive_failures' = consecutive_failures - 1
  /\ UNCHANGED <<last_failure_age, half_open_probe, age, new_failures,
                 probing, abandoned>>

RecordSuccess(c) ==
  /\ Goto(c, "calling", "clear_after_success")
  /\ consecutive_failures' = 0
  /\ UNCHANGED <<last_failure_age, half_open_probe, age, new_failures,
                 probing, abandoned>>

\* Mutant: record_success forgets the probe flag.
ClearNothing(c) ==
  /\ Goto(c, "clear_after_success", "idle")
  /\ probing' = probing \ {c}
  /\ UNCHANGED <<consecutive_failures, last_failure_age, half_open_probe, age,
                 new_failures, abandoned>>

ClearAfterSuccess(c) ==
  /\ Goto(c, "clear_after_success", "idle")
  /\ half_open_probe' = FALSE
  /\ probing' = probing \ {c}
  /\ abandoned' = FALSE
  /\ UNCHANGED <<consecutive_failures, last_failure_age, age, new_failures>>

-----------------------------------------------------------------------------
(* record_failure *)

RecordFailure(c) ==
  /\ Goto(c, "calling", "read_clock")
  /\ consecutive_failures' = consecutive_failures + 1
  /\ new_failures' = [new_failures EXCEPT ![c] = consecutive_failures + 1]
  /\ UNCHANGED <<last_failure_age, half_open_probe, age, probing, abandoned>>

ReadClock(c) ==
  /\ Goto(c, "read_clock", "stamp")
  /\ age' = [age EXCEPT ![c] = 0]
  /\ UNCHANGED <<consecutive_failures, last_failure_age, half_open_probe,
                 new_failures, probing, abandoned>>

Stamp(c) ==
  /\ Goto(c, "stamp", "clear_after_failure")
  /\ last_failure_age' = age[c]
  /\ age' = [age EXCEPT ![c] = 0]
  /\ UNCHANGED <<consecutive_failures, half_open_probe, new_failures,
                 probing, abandoned>>

\* Mutant: the rejuvenation test is true at the cap only.
OvergrownAtCap(n) == n = cap

Overgrown(n) == n > cap /\ n % Threshold = 0

\* Mutant: record_failure forgets the probe flag.
KeepProbeAfterFailure(c) ==
  /\ Goto(c, "clear_after_failure",
          IF Overgrown(new_failures[c]) THEN "rejuvenate" ELSE "idle")
  /\ probing' = probing \ {c}
  /\ new_failures' = [new_failures EXCEPT ![c] =
                        IF Overgrown(new_failures[c]) THEN @ ELSE 0]
  /\ UNCHANGED <<consecutive_failures, last_failure_age, half_open_probe, age,
                 abandoned>>

ClearAfterFailure(c) ==
  /\ Goto(c, "clear_after_failure",
          IF Overgrown(new_failures[c]) THEN "rejuvenate" ELSE "idle")
  /\ half_open_probe' = FALSE
  /\ probing' = probing \ {c}
  /\ abandoned' = FALSE
  /\ new_failures' = [new_failures EXCEPT ![c] =
                        IF Overgrown(new_failures[c]) THEN @ ELSE 0]
  /\ UNCHANGED <<consecutive_failures, last_failure_age, age>>

Rejuvenate(c) ==
  /\ Goto(c, "rejuvenate", "idle")
  /\ consecutive_failures' = cap
  /\ new_failures' = [new_failures EXCEPT ![c] = 0]
  /\ UNCHANGED <<last_failure_age, half_open_probe, age, probing, abandoned>>

-----------------------------------------------------------------------------
(* A call that reports nothing to the breaker: the OutputTruncated branch  *)
(* of Oracle::call, and a task aborted at an await of Oracle::call.  If it *)
(* was the probe and its claim still stands, nobody is left to give the    *)
(* slot back.                                                              *)
EndSilently(c) ==
  /\ Goto(c, "calling", "idle")
  /\ probing' = probing \ {c}
  /\ abandoned' = (abandoned \/ (half_open_probe /\ c \in probing))
  /\ UNCHANGED <<consecutive_failures, last_failure_age, half_open_probe, age,
                 new_failures>>

CallerStep(c) ==
  \/ LoadFailures(c) \/ LoadLast(c) \/ CheckCooldown(c) \/ Claim(c)
  \/ RecordSuccess(c) \/ ClearAfterSuccess(c)
  \/ RecordFailure(c) \/ ReadClock(c) \/ Stamp(c) \/ ClearAfterFailure(c)
  \/ Rejuvenate(c)
  \/ EndSilently(c)

Next == Tick \/ \E c \in Callers : CallerStep(c)

Spec == Init /\ [][Next]_vars

(***************************************************************************)
(* Threads are scheduled, the clock advances and every admitted call ends  *)
(* (Oracle::call bounds it by a timeout).  A refused caller asks again.    *)
(***************************************************************************)
FairSpec ==
  /\ Spec
  /\ WF_vars(Tick)
  /\ \A c \in Callers : WF_vars(CallerStep(c))

-----------------------------------------------------------------------------
(* Properties *)

(* The callers that have counted an overgrown failure and have not yet     *)
(* stored the cap.                                                         *)
Rejuvenators ==
  {c \in Callers :
     /\ pc[c] \in {"read_clock", "stamp", "clear_after_failure", "rejuvenate"}
     /\ Overgrown(new_failures[c])}

(***************************************************************************)
(* record_failure promises to "prevent unbounded growth" of the counter by *)
(* storing twice the threshold every threshold failures, with a store that *)
(* is not atomic with the count.  Callers racing past that store can still *)
(* not push the counter further than one threshold per caller.             *)
(***************************************************************************)
FailuresBounded ==
  consecutive_failures < cap + Threshold * (1 + Cardinality(Rejuvenators))

(***************************************************************************)
(* A set half_open_probe always has somebody to clear it: the caller that  *)
(* claimed it and has not reported yet, unless that call ended without     *)
(* reporting.  No interleaving of the stores loses the slot by itself.     *)
(***************************************************************************)
ProbeFlagOwned ==
  half_open_probe => probing # {} \/ abandoned

SomeRequestAdmitted == \E c \in Callers : pc[c] = "calling"

(***************************************************************************)
(* The breaker recovers: as long as callers keep asking, requests keep     *)
(* being admitted whatever the calls return, because the cooldown runs out *)
(* and the probe slot comes back with the probe's report.  The one way to  *)
(* be shut for good is a probe that ended without a report.                *)
(***************************************************************************)
AdmitsUnlessAbandoned == []<>SomeRequestAdmitted \/ <>[]abandoned

(***************************************************************************)
(* The doc comment of allow_request: callers are rejected "until the probe *)
(* completes", so requests are admitted again and again.  The code does    *)
(* not keep this promise: a probe may complete without record_success or   *)
(* record_failure.                                                         *)
(***************************************************************************)
KeepsAdmitting == []<>SomeRequestAdmitted

=============================================================================
