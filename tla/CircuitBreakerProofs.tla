------------------------ MODULE CircuitBreakerProofs ------------------------
(***************************************************************************)
(* Proofs about CircuitBreaker for any number of callers, any threshold    *)
(* and any cooldown: its types, that the probe slot always has somebody to *)
(* clear it, and that callers racing past the rejuvenating store cannot    *)
(* push the failure counter further than one threshold each.               *)
(***************************************************************************)
EXTENDS CircuitBreaker, FiniteSetTheorems, TLAPS

(* Every variable, type-correct.                                           *)
LEMMA TypeInit == Init => TypeOK
<1>. SUFFICES ASSUME Init PROVE TypeOK
  OBVIOUS
<1>1. 0 \in 0 .. Cooldown
  BY BreakerAssumption
<1>2. age \in [Callers -> 0 .. Cooldown]
  BY <1>1 DEF Init
<1>3. pc \in [Callers -> Steps] /\ new_failures \in [Callers -> Nat]
  BY DEF Init, Steps
<1>. QED  BY <1>1, <1>2, <1>3 DEF Init, TypeOK

(* Growing older keeps an age within the cooldown.                         *)
LEMMA OlderType ==
  ASSUME NEW a \in 0 .. Cooldown
  PROVE  Older(a) \in 0 .. Cooldown
  BY BreakerAssumption DEF Older

LEMMA TypeStep == TypeOK /\ [Next]_vars => TypeOK'
<1>. SUFFICES ASSUME TypeOK, [Next]_vars
              PROVE  TypeOK'
  OBVIOUS
<1>. USE DEF TypeOK, Steps, Goto
<1>0. cap \in Nat
  BY BreakerAssumption DEF cap
<1>1. CASE Tick
  <2>1. last_failure_age' \in 0 .. Cooldown
    BY <1>1, OlderType DEF Tick
  <2>2. \A c \in Callers : Older(age[c]) \in 0 .. Cooldown
    BY OlderType
  <2>3. age' \in [Callers -> 0 .. Cooldown]
    BY <1>1, <2>2 DEF Tick
  <2>. QED  BY <1>1, <2>1, <2>3 DEF Tick
<1>2. ASSUME NEW c \in Callers, CallerStep(c)
      PROVE  TypeOK'
  <2>1. CASE LoadFailures(c)
    BY <2>1 DEF LoadFailures
  <2>2. CASE LoadLast(c)
    BY <2>2 DEF LoadLast
  <2>3. CASE CheckCooldown(c)
    BY <2>3, BreakerAssumption DEF CheckCooldown
  <2>4. CASE Claim(c)
    BY <2>4 DEF Claim
  <2>5. CASE RecordSuccess(c)
    BY <2>5 DEF RecordSuccess
  <2>6. CASE ClearAfterSuccess(c)
    BY <2>6 DEF ClearAfterSuccess
  <2>7. CASE RecordFailure(c)
    BY <2>7 DEF RecordFailure
  <2>8. CASE ReadClock(c)
    BY <2>8, BreakerAssumption DEF ReadClock
  <2>9. CASE Stamp(c)
    BY <2>9, BreakerAssumption DEF Stamp
  <2>10. CASE ClearAfterFailure(c)
    BY <2>10 DEF ClearAfterFailure
  <2>11. CASE Rejuvenate(c)
    BY <2>11, <1>0 DEF Rejuvenate
  <2>12. CASE EndSilently(c)
    BY <2>12 DEF EndSilently
  <2>. QED
    BY <1>2, <2>1, <2>2, <2>3, <2>4, <2>5, <2>6, <2>7, <2>8, <2>9, <2>10,
       <2>11, <2>12 DEF CallerStep
<1>3. CASE UNCHANGED vars
  BY <1>3 DEF vars
<1>. QED  BY <1>1, <1>2, <1>3 DEF Next

(* Type correctness of the breaker.                                        *)
THEOREM BreakerTypeCorrect == Spec => []TypeOK
<1>. QED  BY TypeInit, TypeStep, PTL DEF Spec

-----------------------------------------------------------------------------
(* The probe slot *)

(***************************************************************************)
(* ProbeFlagOwned is inductive with the types: whoever removes itself from *)
(* the probing callers clears the flag, or leaves a claim that it notes as *)
(* abandoned.  EndSilently is the step the whole property turns on.        *)
(***************************************************************************)
LEMMA ProbeStep ==
  TypeOK /\ ProbeFlagOwned /\ [Next]_vars => ProbeFlagOwned'
<1>. SUFFICES ASSUME TypeOK, ProbeFlagOwned, [Next]_vars
              PROVE  ProbeFlagOwned'
  OBVIOUS
<1>. USE DEF ProbeFlagOwned
<1>1. CASE Tick
  BY <1>1 DEF Tick
<1>2. ASSUME NEW c \in Callers, CallerStep(c)
      PROVE  ProbeFlagOwned'
  <2>1. CASE LoadFailures(c) \/ LoadLast(c) \/ CheckCooldown(c)
    BY <2>1 DEF LoadFailures, LoadLast, CheckCooldown
  <2>2. CASE Claim(c)
    <3>1. CASE half_open_probe
      BY <2>2, <3>1 DEF Claim
    <3>2. CASE ~half_open_probe
      BY <2>2, <3>2 DEF Claim
    <3>. QED  BY <3>1, <3>2
  <2>3. CASE RecordSuccess(c) \/ RecordFailure(c) \/ ReadClock(c) \/ Stamp(c)
             \/ Rejuvenate(c)
    BY <2>3 DEF RecordSuccess, RecordFailure, ReadClock, Stamp, Rejuvenate
  <2>4. CASE ClearAfterSuccess(c) \/ ClearAfterFailure(c)
    BY <2>4 DEF ClearAfterSuccess, ClearAfterFailure
  <2>5. CASE EndSilently(c)
    <3>1. CASE half_open_probe /\ c \in probing
      BY <2>5, <3>1 DEF EndSilently
    <3>2. CASE ~(half_open_probe /\ c \in probing)
      BY <2>5, <3>2 DEF EndSilently
    <3>. QED  BY <3>1, <3>2
  <2>. QED  BY <1>2, <2>1, <2>2, <2>3, <2>4, <2>5 DEF CallerStep
<1>3. CASE UNCHANGED vars
  BY <1>3 DEF vars
<1>. QED  BY <1>1, <1>2, <1>3 DEF Next

(* No interleaving of the stores loses the probe slot by itself.           *)
THEOREM ProbeSlotNeverLost == Spec => []ProbeFlagOwned
<1>1. Init => ProbeFlagOwned
  BY DEF Init, ProbeFlagOwned
<1>. QED  BY <1>1, BreakerTypeCorrect, ProbeStep, PTL DEF Spec

-----------------------------------------------------------------------------
(* The failure counter *)

(* A multiple of the threshold leaves no remainder.                        *)
LEMMA MultipleOfThreshold ==
  ASSUME NEW k \in Nat
  PROVE  (Threshold * k) % Threshold = 0
  BY BreakerAssumption

(* There are finitely many rejuvenators, also when one joins or leaves.    *)
LEMMA RejuvenatorsFinite ==
  /\ IsFiniteSet(Rejuvenators) /\ Cardinality(Rejuvenators) \in Nat
  /\ IsFiniteSet(Rejuvenators') /\ Cardinality(Rejuvenators') \in Nat
<1>1. Rejuvenators \in SUBSET Callers /\ Rejuvenators' \in SUBSET Callers
  BY DEF Rejuvenators
<1>. QED  BY <1>1, BreakerAssumption, FS_Subset, FS_CardinalityType

(* A step that neither counts up nor loses a rejuvenator keeps the bound.  *)
LEMMA BoundKept ==
  ASSUME TypeOK, FailuresBounded,
         consecutive_failures' <= consecutive_failures,
         consecutive_failures' \in Nat,
         Rejuvenators \subseteq Rejuvenators'
  PROVE  FailuresBounded'
<1>. DEFINE R == Cardinality(Rejuvenators)
            Q == Cardinality(Rejuvenators')
<1>1. R \in Nat /\ Q \in Nat /\ R <= Q
  BY RejuvenatorsFinite, FS_Subset
<1>2. Threshold * (1 + R) <= Threshold * (1 + Q)
  BY <1>1, BreakerAssumption
<1>3. consecutive_failures < cap + Threshold * (1 + R)
  BY DEF FailuresBounded
<1>4. /\ cap \in Nat /\ consecutive_failures \in Nat
      /\ Threshold * (1 + R) \in Nat /\ Threshold * (1 + Q) \in Nat
  BY <1>1, BreakerAssumption DEF TypeOK, cap
<1>5. consecutive_failures' < cap + Threshold * (1 + Q)
  BY <1>2, <1>3, <1>4
<1>. QED  BY <1>5 DEF FailuresBounded, cap

(* A step that leaves at most the cap keeps the bound.                     *)
LEMMA BoundReset ==
  ASSUME consecutive_failures' \in 0 .. cap
  PROVE  FailuresBounded'
<1>. DEFINE Q == Cardinality(Rejuvenators')
<1>1. Q \in Nat
  BY RejuvenatorsFinite
<1>2. Threshold * (1 + Q) \in Nat \ {0}
  BY <1>1, BreakerAssumption
<1>3. consecutive_failures' < cap + Threshold * (1 + Q)
  BY <1>2, BreakerAssumption DEF cap
<1>. QED  BY <1>3 DEF FailuresBounded, cap

(***************************************************************************)
(* The step that counts: the bound is a multiple of the threshold above    *)
(* the cap, so a count that reaches it makes its caller a rejuvenator,     *)
(* which moves the bound up by one threshold.                              *)
(***************************************************************************)
LEMMA BoundCounting ==
  ASSUME NEW c \in Callers, TypeOK, FailuresBounded, RecordFailure(c)
  PROVE  FailuresBounded'
<1>. DEFINE R == Cardinality(Rejuvenators)
            Q == Cardinality(Rejuvenators')
            n == consecutive_failures + 1
            bound == cap + Threshold * (1 + R)
<1>1. /\ consecutive_failures' = n
      /\ pc[c] = "calling"
      /\ pc' = [pc EXCEPT ![c] = "read_clock"]
      /\ new_failures' = [new_failures EXCEPT ![c] = n]
  BY DEF RecordFailure, Goto
<1>2. R \in Nat /\ Q \in Nat /\ n \in Nat /\ bound \in Nat
  BY RejuvenatorsFinite, BreakerAssumption DEF TypeOK, cap
<1>3. n <= bound
  BY <1>2 DEF FailuresBounded, TypeOK
<1>4. \A d \in Callers : d # c => (d \in Rejuvenators' <=> d \in Rejuvenators)
  BY <1>1 DEF TypeOK, Rejuvenators, Overgrown, cap
<1>5. c \notin Rejuvenators
  BY <1>1 DEF Rejuvenators
<1>6. Rejuvenators \subseteq Rejuvenators'
  BY <1>4, <1>5 DEF Rejuvenators
<1>7. CASE n < bound
  <2>1. R <= Q
    BY <1>6, RejuvenatorsFinite, FS_Subset
  <2>2. Threshold * (1 + R) <= Threshold * (1 + Q)
    BY <1>2, <2>1, BreakerAssumption
  <2>3. Threshold * (1 + R) \in Nat /\ Threshold * (1 + Q) \in Nat
    BY <1>2, BreakerAssumption
  <2>4. n < cap + Threshold * (1 + Q)
    BY <1>2, <1>7, <2>2, <2>3, BreakerAssumption DEF cap
  <2>. QED  BY <1>1, <2>4 DEF FailuresBounded, cap
<1>8. CASE n = bound
  <2>1. n = Threshold * (3 + R)
    BY <1>2, <1>8, BreakerAssumption DEF cap
  <2>2. n % Threshold = 0
    BY <1>2, <2>1, MultipleOfThreshold
  <2>3. n > cap
    BY <1>2, <2>1, BreakerAssumption DEF cap
  <2>4. Overgrown(n)
    BY <2>2, <2>3 DEF Overgrown
  <2>5. pc'[c] = "read_clock" /\ new_failures'[c] = n
    BY <1>1 DEF TypeOK
  <2>6. c \in Rejuvenators'
    BY <2>4, <2>5 DEF Rejuvenators, Overgrown, cap
  <2>7. Rejuvenators' = Rejuvenators \cup {c}
    BY <1>4, <2>6 DEF Rejuvenators
  <2>8. Q = R + 1
    BY <1>5, <2>7, RejuvenatorsFinite, FS_AddElement
  <2>9. Threshold * (1 + Q) = Threshold * (1 + R) + Threshold
    BY <1>2, <2>8, BreakerAssumption
  <2>10. n < cap + Threshold * (1 + Q)
    BY <1>2, <1>8, <2>9, BreakerAssumption DEF cap
  <2>. QED  BY <1>1, <2>10 DEF FailuresBounded, cap
<1>. QED  BY <1>2, <1>3, <1>7, <1>8

LEMMA BoundStep ==
  TypeOK /\ FailuresBounded /\ [Next]_vars => FailuresBounded'
<1>. SUFFICES ASSUME TypeOK, FailuresBounded, [Next]_vars
              PROVE  FailuresBounded'
  OBVIOUS
<1>0. TypeOK' /\ cap \in Nat
  BY TypeStep, BreakerAssumption DEF cap
<1>1. consecutive_failures \in Nat /\ consecutive_failures' \in Nat
  BY <1>0 DEF TypeOK
<1>2. CASE Tick \/ UNCHANGED vars
  <2>1. UNCHANGED <<consecutive_failures, pc, new_failures>>
    BY <1>2 DEF Tick, vars
  <2>2. Rejuvenators' = Rejuvenators
    BY <2>1 DEF Rejuvenators, Overgrown, cap
  <2>. QED  BY <1>1, <2>1, <2>2, BoundKept
<1>3. ASSUME NEW c \in Callers, CallerStep(c)
      PROVE  FailuresBounded'
  <2>. USE DEF Goto
  <2>1. CASE RecordFailure(c)
    BY <2>1, BoundCounting
  <2>2. CASE RecordSuccess(c)
    BY <2>2, <1>0, BoundReset DEF RecordSuccess
  <2>3. CASE Rejuvenate(c)
    BY <2>3, <1>0, BoundReset DEF Rejuvenate
  <2>4. CASE LoadFailures(c) \/ LoadLast(c) \/ CheckCooldown(c) \/ Claim(c)
             \/ ClearAfterSuccess(c) \/ EndSilently(c)
    <3>1. /\ UNCHANGED <<consecutive_failures, new_failures>>
          /\ pc[c] \in {"idle", "load_last", "check_cooldown", "claim",
                        "calling", "clear_after_success"}
          /\ \A d \in Callers \ {c} : pc'[d] = pc[d]
      BY <2>4 DEF TypeOK, LoadFailures, LoadLast, CheckCooldown, Claim,
                  ClearAfterSuccess, EndSilently
    <3>2. Rejuvenators \subseteq Rejuvenators'
      BY <3>1 DEF Rejuvenators, Overgrown, cap
    <3>. QED  BY <1>1, <3>1, <3>2, BoundKept
  <2>5. CASE ReadClock(c) \/ Stamp(c)
    <3>1. /\ UNCHANGED <<consecutive_failures, new_failures>>
          /\ pc'[c] \in {"stamp", "clear_after_failure"}
          /\ \A d \in Callers \ {c} : pc'[d] = pc[d]
      BY <2>5 DEF TypeOK, ReadClock, Stamp
    <3>2. Rejuvenators \subseteq Rejuvenators'
      BY <3>1 DEF Rejuvenators, Overgrown, cap
    <3>. QED  BY <1>1, <3>1, <3>2, BoundKept
  <2>6. CASE ClearAfterFailure(c)
    <3>1. /\ UNCHANGED consecutive_failures
          /\ \A d \in Callers \ {c} :
               pc'[d] = pc[d] /\ new_failures'[d] = new_failures[d]
      BY <2>6 DEF TypeOK, ClearAfterFailure
    <3>2. Overgrown(new_failures[c]) =>
            pc'[c] = "rejuvenate" /\ new_failures'[c] = new_failures[c]
      BY <2>6 DEF TypeOK, ClearAfterFailure
    <3>3. Rejuvenators \subseteq Rejuvenators'
      BY <3>1, <3>2 DEF Rejuvenators, Overgrown, cap
    <3>. QED  BY <1>1, <3>1, <3>3, BoundKept
  <2>. QED
    BY <1>3, <2>1, <2>2, <2>3, <2>4, <2>5, <2>6 DEF CallerStep
<1>. QED  BY <1>2, <1>3 DEF Next

(***************************************************************************)
(* However many callers race past the store that caps the counter, it      *)
(* stays below three thresholds and one more for each of them.             *)
(***************************************************************************)
THEOREM FailureCounterBounded == Spec => []FailuresBounded
<1>1. Init => FailuresBounded
  <2>1. ASSUME Init PROVE FailuresBounded
    <3>1. Cardinality(Rejuvenators) \in Nat
      BY RejuvenatorsFinite
    <3>2. Threshold * (1 + Cardinality(Rejuvenators)) \in Nat \ {0}
      BY <3>1, BreakerAssumption
    <3>. QED  BY <2>1, <3>2, BreakerAssumption DEF Init, FailuresBounded, cap
  <2>. QED  BY <2>1
<1>. QED  BY <1>1, BreakerTypeCorrect, BoundStep, PTL DEF Spec

=============================================================================
