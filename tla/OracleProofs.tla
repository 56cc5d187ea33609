---------------------------- MODULE OracleProofs ----------------------------
(***************************************************************************)
(* The safety of Oracle::call, for any number of calls, prompts, permits,  *)
(* retries and any threshold.                                              *)
(*                                                                         *)
(* Each property needs to know at which steps of a call it is still open:  *)
(* where a call has no charge yet, where a late request is out of the      *)
(* question, which channel and which entry of the cache an answer can have *)
(* come from.  SafetyInv says that, and is inductive.                      *)
(***************************************************************************)
EXTENDS Oracle, FiniteSetTheorems, TLAPS

(* A call is charged, or given up, only on its way out.                     *)
Undecided == {"start", "cache_check", "entry", "following", "leading",
              "cleared", "calling", "sending"}

ChargeDecided ==
  \A c \in Callers :
    /\ pc[c] \in Undecided => c \notin committed /\ c \notin cancelled
    /\ pc[c] \in {"unwinding", "releasing"} =>
         (c \in committed <=> c \notin cancelled)

(* The budget is short of the units that calls hold or have spent.         *)
BudgetBalanced ==
  ~Unlimited => remaining + Cardinality(committed \cup Holding) = max_calls

(* Late requests are those for the segments of one answer, and leave no    *)
(* way back through the retry loop's check.                                *)
LateOnce ==
  \A c \in Callers :
    /\ late[c] # 0 => shutdown /\ ~dry_run /\ pc[c] \in {"leading", "calling"}
    /\ late[c] <= MAX_TRUNCATION_CONTINUATIONS + 1
    /\ pc[c] = "calling" => late[c] <= segment[c] + 1

(* What may be answered to a prompt. *)
Right(t, p) ==
  t # None => IF dry_run THEN t = DryText ELSE t.about = p

(* Wherever an answer is kept, it is one to the prompt it is kept for; and *)
(* whoever listens to a call asks what that call asks.                     *)
AnswersKept ==
  /\ \A k \in Prompts : Right(cache[k], k)
  /\ \A c \in Callers : Right(sent[c], prompt[c]) /\ Right(text[c], prompt[c])
  /\ \A c \in Callers : leader[c] # None => prompt[leader[c]] = prompt[c]
  /\ \A c \in Callers : pc[c] = "following" => leader[c] \in Callers
  /\ \A c \in Callers : dry_run => pc[c] \notin {"cleared", "calling", "sending"}

SafetyInv ==
  NothingLeaks /\ ChargeDecided /\ BudgetBalanced /\ LateOnce /\ AnswersKept

IInv == TypeOK /\ SafetyInv

-----------------------------------------------------------------------------
(* Where a step takes a call, and what that does to the two sets that the  *)
(* counters count.                                                         *)
LEMMA Moves ==
  ASSUME TypeOK, NEW c \in Callers, NEW from \in Steps, NEW to \in Steps,
         Goto(c, from, to)
  PROVE  /\ pc' \in [Callers -> Steps] /\ pc'[c] = to /\ pc[c] = from
         /\ \A d \in Callers : d # c => pc'[d] = pc[d]
         /\ Holding' = IF to \in {"start", "done"} THEN Holding \ {c}
                       ELSE Holding \cup {c}
         /\ Leading' = IF to \in {"leading", "cleared", "calling", "sending",
                                  "unwinding"}
                       THEN Leading \cup {c} ELSE Leading \ {c}
<1>1. /\ pc' \in [Callers -> Steps] /\ pc'[c] = to /\ pc[c] = from
      /\ \A d \in Callers : d # c => pc'[d] = pc[d]
  BY DEF TypeOK, Goto
<1>2. Holding' = IF to \in {"start", "done"} THEN Holding \ {c}
                 ELSE Holding \cup {c}
  BY <1>1 DEF Holding
<1>3. Leading' = IF to \in {"leading", "cleared", "calling", "sending",
                            "unwinding"}
                 THEN Leading \cup {c} ELSE Leading \ {c}
  BY <1>1 DEF Leading
<1>. QED  BY <1>1, <1>2, <1>3

(* Sets of calls are finite, and one more call counts one more.            *)
LEMMA Counting ==
  ASSUME NEW S \in SUBSET Callers, NEW c \in Callers
  PROVE  /\ IsFiniteSet(S) /\ Cardinality(S) \in Nat
         /\ c \notin S => Cardinality(S \cup {c}) = Cardinality(S) + 1
         /\ c \in S => Cardinality(S \ {c}) = Cardinality(S) - 1
         /\ c \in S => Cardinality(S) > 0
<1>1. IsFiniteSet(S)
  BY FS_Subset, OracleAssumption
<1>2. Cardinality(S) \in Nat
  BY <1>1, FS_CardinalityType
<1>3. c \notin S => Cardinality(S \cup {c}) = Cardinality(S) + 1
  BY <1>1, FS_AddElement
<1>4. c \in S => Cardinality(S \ {c}) = Cardinality(S) - 1
  BY <1>1, FS_RemoveElement
<1>5. c \in S => Cardinality(S) > 0
  <2>. SUFFICES ASSUME c \in S PROVE Cardinality(S) > 0
    OBVIOUS
  <2>1. IsFiniteSet(S \ {c})
    BY <1>1, FS_Subset
  <2>2. Cardinality(S \ {c}) \in Nat
    BY <2>1, FS_CardinalityType
  <2>. QED  BY <1>2, <1>4, <2>2
<1>. QED  BY <1>1, <1>2, <1>3, <1>4, <1>5

(* The leaders are among those who hold resources, so no counter passes    *)
(* the number of permits.                                                  *)
LEMMA LeadingHolds ==
  ASSUME TypeOK
  PROVE  /\ Holding \subseteq Callers /\ Leading \subseteq Holding
         /\ Cardinality(Leading) <= Cardinality(Holding)
<1>1. Holding \subseteq Callers /\ Leading \subseteq Holding
  BY DEF Holding, Leading
<1>2. IsFiniteSet(Holding)
  BY <1>1, FS_Subset, OracleAssumption
<1>. QED  BY <1>1, <1>2, FS_Subset

(* The steps that neither take nor give back anything. *)
Inner(c) ==
  \/ TimeOut(c) \/ CheckCache(c) \/ Follow(c) \/ ReceiveResult(c)
  \/ LeaderGone(c) \/ DryRun(c) \/ BeginAttempt(c) \/ Refuse(c)
  \/ SendRequest(c) \/ Continue(c) \/ Succeed(c) \/ FailFast(c)
  \/ Truncated(c) \/ Retry(c) \/ Broadcast(c) \/ Cancel(c)

(* They leave both sets and all counters alone, and commit only a call     *)
(* that holds its unit.                                                    *)
LEMMA InnerSteps ==
  ASSUME TypeOK, NEW c \in Callers, Inner(c)
  PROVE  /\ Holding' = Holding /\ Leading' = Leading
         /\ permits' = permits /\ remaining' = remaining /\ live' = live
         /\ inflight' = inflight /\ prompt' = prompt /\ max_calls' = max_calls
         /\ \/ committed' = committed
            \/ c \in Holding /\ committed' = committed \cup {c}
<1>1. /\ permits' = permits /\ remaining' = remaining /\ live' = live
      /\ inflight' = inflight /\ prompt' = prompt /\ max_calls' = max_calls
  BY DEF Inner, TimeOut, CheckCache, Follow, ReceiveResult, LeaderGone, DryRun,
     BeginAttempt, Refuse, SendRequest, Continue, Succeed, FailFast, Truncated, Retry,
     Broadcast, Cancel, setup, resources, flight
<1>2. \E from, to \in Steps :
        /\ Goto(c, from, to)
        /\ from \in {"start", "done"} <=> to \in {"start", "done"}
        /\ from \in {"leading", "cleared", "calling", "sending", "unwinding"}
             <=> to \in {"leading", "cleared", "calling", "sending", "unwinding"}
        /\ \/ committed' = committed
           \/ from \notin {"start", "done"} /\ committed' = committed \cup {c}
  <2>1. CASE TimeOut(c)
    <3>1. Goto(c, "start", "done") /\ committed' = committed
      BY <2>1 DEF TimeOut
    <3>. QED  BY <3>1 DEF Steps
  <2>2. CASE CheckCache(c)
    <3>1. CASE Goto(c, "cache_check", "releasing") /\ committed' = committed \cup {c}
      BY <3>1 DEF Steps
    <3>2. CASE Goto(c, "cache_check", "entry") /\ committed' = committed
      BY <3>2 DEF Steps
    <3>. QED  BY <2>2, <3>1, <3>2 DEF CheckCache, Return
  <2>3. CASE Follow(c)
    <3>1. Goto(c, "entry", "following") /\ committed' = committed
      BY <2>3 DEF Follow
    <3>. QED  BY <3>1 DEF Steps
  <2>4. CASE ReceiveResult(c)
    <3>1. Goto(c, "following", "releasing") /\ committed' = committed \cup {c}
      BY <2>4 DEF ReceiveResult, Return
    <3>. QED  BY <3>1 DEF Steps
  <2>5. CASE LeaderGone(c)
    <3>1. Goto(c, "following", "entry") /\ committed' = committed
      BY <2>5 DEF LeaderGone
    <3>. QED  BY <3>1 DEF Steps
  <2>6. CASE DryRun(c)
    <3>1. Goto(c, "leading", "unwinding") /\ committed' = committed \cup {c}
      BY <2>6 DEF DryRun, Return
    <3>. QED  BY <3>1 DEF Steps
  <2>7. CASE BeginAttempt(c)
    <3>1. Goto(c, "leading", "cleared") /\ committed' = committed
      BY <2>7 DEF BeginAttempt
    <3>. QED  BY <3>1 DEF Steps
  <2>8. CASE Refuse(c)
    <3>1. Goto(c, "leading", "unwinding") /\ committed' = committed \cup {c}
      BY <2>8 DEF Refuse, Return
    <3>. QED  BY <3>1 DEF Steps
  <2>9. CASE SendRequest(c)
    <3>1. Goto(c, "cleared", "calling") /\ committed' = committed
      BY <2>9 DEF SendRequest
    <3>. QED  BY <3>1 DEF Steps
  <2>16. CASE Continue(c)
    <3>1. Goto(c, "calling", "calling") /\ committed' = committed
      BY <2>16 DEF Continue, Goto, TypeOK
    <3>. QED  BY <3>1 DEF Steps
  <2>10. CASE Succeed(c)
    <3>1. Goto(c, "calling", "sending") /\ committed' = committed
      BY <2>10 DEF Succeed
    <3>. QED  BY <3>1 DEF Steps
  <2>11. CASE FailFast(c)
    <3>1. Goto(c, "calling", "unwinding") /\ committed' = committed \cup {c}
      BY <2>11 DEF FailFast, Return
    <3>. QED  BY <3>1 DEF Steps
  <2>12. CASE Truncated(c)
    <3>1. Goto(c, "calling", "unwinding") /\ committed' = committed \cup {c}
      BY <2>12 DEF Truncated, Return
    <3>. QED  BY <3>1 DEF Steps
  <2>13. CASE Retry(c)
    <3>1. Goto(c, "calling", "leading") /\ committed' = committed
      BY <2>13 DEF Retry
    <3>. QED  BY <3>1 DEF Steps
  <2>14. CASE Broadcast(c)
    <3>1. Goto(c, "sending", "unwinding") /\ committed' = committed \cup {c}
      BY <2>14 DEF Broadcast
    <3>. QED  BY <3>1 DEF Steps
  <2>15. CASE Cancel(c)
    <3>1. CASE Goto(c, "start", "done") /\ committed' = committed
      BY <3>1 DEF Steps
    <3>2. CASE Goto(c, "following", "releasing") /\ committed' = committed
      BY <3>2 DEF Steps
    <3>3. CASE /\ pc[c] \in {"cleared", "calling"}
               /\ Goto(c, pc[c], "unwinding") /\ committed' = committed
      BY <3>3 DEF Steps
    <3>. QED  BY <2>15, <3>1, <3>2, <3>3 DEF Cancel
  <2>. QED  BY <2>1, <2>2, <2>3, <2>4, <2>5, <2>6, <2>7, <2>8, <2>9, <2>10,
               <2>11, <2>12, <2>13, <2>14, <2>15, <2>16 DEF Inner
<1>3. PICK from \in Steps, to \in Steps :
        /\ Goto(c, from, to)
        /\ from \in {"start", "done"} <=> to \in {"start", "done"}
        /\ from \in {"leading", "cleared", "calling", "sending", "unwinding"}
             <=> to \in {"leading", "cleared", "calling", "sending", "unwinding"}
        /\ \/ committed' = committed
           \/ from \notin {"start", "done"} /\ committed' = committed \cup {c}
  BY <1>2
<1>4. Holding' = Holding /\ (from \notin {"start", "done"} => c \in Holding)
  BY <1>3, Moves DEF Holding
<1>5. Leading' = Leading
  BY <1>3, Moves DEF Leading
<1>. QED  BY <1>1, <1>3, <1>4, <1>5

-----------------------------------------------------------------------------
(* Types *)

LEMMA InitEstablishes == Init => IInv
<1>. SUFFICES ASSUME Init PROVE IInv
  OBVIOUS
<1>1. PICK s \in Setups :
        /\ prompt = s.prompt /\ max_calls = s.max_calls
        /\ dry_run = s.dry_run /\ cache_enabled = s.cache_enabled
  BY DEF Init
<1>2. /\ s.prompt \in [Callers -> Prompts] /\ s.max_calls \in Nat
      /\ s.dry_run \in BOOLEAN /\ s.cache_enabled \in BOOLEAN
  BY OracleAssumption
<1>3. TypeOK
  <2>1. dry_run \in BOOLEAN /\ cache_enabled \in BOOLEAN
    BY <1>1, <1>2, Zenon
  <2>2. cooling \in BOOLEAN /\ half_open_probe \in BOOLEAN /\ shutdown \in BOOLEAN
    BY Zenon DEF Init
  <2>3. /\ prompt \in [Callers -> Prompts] /\ max_calls \in Nat
        /\ permits \in 0 .. Permits /\ remaining \in 0 .. max_calls
    BY <1>1, <1>2, OracleAssumption DEF Init
  <2>4. /\ cache \in [Prompts -> Text \cup {None}]
        /\ inflight \in [Prompts -> Callers \cup {None}]
        /\ leader \in [Callers -> Callers \cup {None}]
        /\ sent \in [Callers -> Text \cup {None}]
        /\ text \in [Callers -> Text \cup {None}]
        /\ committed \subseteq Callers /\ cancelled \subseteq Callers
    BY DEF Init
  <2>5. /\ live \in [{"budget", "inflight"} -> 0 .. Permits]
        /\ failures \in 0 .. 3 * Threshold - 1
        /\ pc \in [Callers -> Steps]
        /\ attempt \in [Callers -> 0 .. max_retries]
        /\ segment \in [Callers -> 0 .. MAX_TRUNCATION_CONTINUATIONS]
        /\ late \in [Callers -> Nat]
    BY OracleAssumption DEF Init, Steps
  <2>. QED  BY <2>1, <2>2, <2>3, <2>4, <2>5 DEF TypeOK
<1>4. Holding = {} /\ Leading = {} /\ committed = {}
  BY DEF Init, Holding, Leading
<1>5. Cardinality({}) = 0
  BY FS_EmptySet
<1>6. NothingLeaks
  BY <1>3, <1>4, <1>5, OracleAssumption DEF Init, NothingLeaks, TypeOK
<1>7. ChargeDecided /\ LateOnce
  BY OracleAssumption DEF Init, ChargeDecided, LateOnce
<1>8. BudgetBalanced
  BY <1>3, <1>4, <1>5 DEF Init, BudgetBalanced, TypeOK
<1>9. AnswersKept
  BY DEF Init, AnswersKept, Right
<1>. QED  BY <1>3, <1>6, <1>7, <1>8, <1>9 DEF IInv, SafetyInv

(* The counter of the breaker steps back before it reaches three times the *)
(* threshold.                                                              *)
LEMMA MultipleOfThreshold == (Threshold * 3) % Threshold = 0
BY OracleAssumption

LEMMA BreakerTypes ==
  ASSUME failures \in 0 .. 3 * Threshold - 1, cooling \in BOOLEAN,
         half_open_probe \in BOOLEAN,
         AllowRequest \/ RecordSuccess \/ RecordFailure \/ UNCHANGED breaker
  PROVE  /\ failures' \in 0 .. 3 * Threshold - 1
         /\ cooling' \in BOOLEAN /\ half_open_probe' \in BOOLEAN
<1>. USE OracleAssumption
<1>1. failures' \in 0 .. 3 * Threshold - 1
  <2>1. CASE RecordFailure
    <3>1. (3 * Threshold) % Threshold = 0
      BY MultipleOfThreshold
    <3>2. failures + 1 = 3 * Threshold => failures' = 2 * Threshold
      BY <2>1, <3>1 DEF RecordFailure
    <3>3. failures' \in {failures + 1, 2 * Threshold}
      BY <2>1 DEF RecordFailure
    <3>. QED  BY <3>2, <3>3
  <2>2. CASE AllowRequest \/ UNCHANGED breaker
    BY <2>2 DEF AllowRequest, breaker
  <2>3. CASE RecordSuccess
    BY <2>3 DEF RecordSuccess
  <2>. QED  BY <2>1, <2>2, <2>3
<1>2. cooling' \in BOOLEAN /\ half_open_probe' \in BOOLEAN
  BY Zenon DEF AllowRequest, RecordSuccess, RecordFailure, breaker
<1>. QED  BY <1>1, <1>2

(* Every step of a call moves it, and it leaves the flags and the set-up.  *)
LEMMA CallMoves ==
  ASSUME TypeOK, NEW c \in Callers, CallerStep(c) \/ Cancel(c)
  PROVE  /\ \E from, to \in Steps : Goto(c, from, to)
         /\ UNCHANGED <<setup, shutdown>>
<1>. DEFINE To(t) == [pc EXCEPT ![c] = t]
<1>1. UNCHANGED <<setup, shutdown>>
  BY DEF CallerStep, AcquireResources, TimeOut, CheckCache, Follow, Lead,
     ReceiveResult, LeaderGone, DryRun, BeginAttempt, Refuse, SendRequest, Continue,
     Succeed, FailFast, Truncated, Retry, Broadcast, DropInflightGuard,
     DropResources, Cancel
<1>2. pc[c] \in Steps /\ \E to \in Steps : pc' = To(to)
  BY DEF CallerStep, AcquireResources, TimeOut, CheckCache, Follow, Lead,
     ReceiveResult, LeaderGone, DryRun, BeginAttempt, Refuse, SendRequest, Continue,
     Succeed, FailFast, Truncated, Retry, Broadcast, DropInflightGuard,
     DropResources, Cancel, Goto, Steps, TypeOK
<1>. QED  BY <1>1, <1>2 DEF Goto

(* The flags, apart from the rest of the types: they are Boolean-valued.   *)
LEMMA FlagTypes ==
  ASSUME TypeOK, [Next]_vars
  PROVE  /\ cache_enabled' \in BOOLEAN /\ dry_run' \in BOOLEAN
         /\ shutdown' \in BOOLEAN
         /\ failures' \in 0 .. 3 * Threshold - 1
         /\ cooling' \in BOOLEAN /\ half_open_probe' \in BOOLEAN
<1>. USE DEF TypeOK
<1>1. CASE \E c \in Callers : CallerStep(c) \/ Cancel(c)
  <2>1. PICK c \in Callers : CallerStep(c) \/ Cancel(c)
    BY <1>1, Zenon
  <2>2. dry_run' = dry_run /\ shutdown' = shutdown
    BY <2>1, CallMoves DEF setup
  <2>3. AllowRequest \/ RecordSuccess \/ RecordFailure \/ UNCHANGED breaker
    BY <2>1, Zenon DEF CallerStep, AcquireResources, TimeOut, CheckCache,
       Follow, Lead, ReceiveResult, LeaderGone, DryRun, BeginAttempt, Refuse,
       SendRequest, Continue, Succeed, FailFast, Truncated, Retry, Broadcast,
       DropInflightGuard, DropResources, Cancel, breaker
  <2>4. cache_enabled' = cache_enabled \/ cache_enabled' = FALSE
    BY <2>1, Zenon DEF CallerStep, AcquireResources, TimeOut, CheckCache,
       Follow, Lead, ReceiveResult, LeaderGone, DryRun, BeginAttempt, Refuse,
       SendRequest, Continue, Succeed, PutInCache, FailFast, Truncated, Retry, Broadcast,
       DropInflightGuard, DropResources, Cancel, store
  <2>5. cache_enabled' \in BOOLEAN
    BY <2>4, Zenon
  <2>6. dry_run' \in BOOLEAN /\ shutdown' \in BOOLEAN
    BY <2>2, Zenon
  <2>. QED  BY <2>3, <2>5, <2>6, BreakerTypes
<1>2. CASE CooldownEnds
  <2>1. cache_enabled' = cache_enabled /\ dry_run' = dry_run
        /\ shutdown' = shutdown /\ half_open_probe' = half_open_probe
    BY <1>2, Zenon DEF CooldownEnds, store, setup
  <2>2. failures' = failures
    BY <1>2 DEF CooldownEnds
  <2>3. cooling' \in BOOLEAN
    BY <1>2, Zenon DEF CooldownEnds
  <2>. QED  BY <2>1, <2>2, <2>3, Zenon
<1>3. CASE TriggerShutdown
  <2>1. cache_enabled' = cache_enabled /\ dry_run' = dry_run
        /\ cooling' = cooling /\ half_open_probe' = half_open_probe
    BY <1>3, Zenon DEF TriggerShutdown, store, setup, breaker
  <2>2. failures' = failures
    BY <1>3 DEF TriggerShutdown, breaker
  <2>3. shutdown' \in BOOLEAN
    BY <1>3, Zenon DEF TriggerShutdown
  <2>. QED  BY <2>1, <2>2, <2>3, Zenon
<1>4. CASE UNCHANGED vars
  BY <1>4, Zenon DEF vars, store, setup, breaker
<1>. QED  BY <1>1, <1>2, <1>3, <1>4, Zenon DEF Next, AllDone

(* What calls know and keep stays within its types. *)
LEMMA DataTypes ==
  ASSUME TypeOK, LateOnce, AnswersKept, NEW c \in Callers, CallerStep(c) \/ Cancel(c)
  PROVE  /\ cache' \in [Prompts -> Text \cup {None}]
         /\ inflight' \in [Prompts -> Callers \cup {None}]
         /\ leader' \in [Callers -> Callers \cup {None}]
         /\ sent' \in [Callers -> Text \cup {None}]
         /\ attempt' \in [Callers -> 0 .. max_retries]
         /\ segment' \in [Callers -> 0 .. MAX_TRUNCATION_CONTINUATIONS]
         /\ text' \in [Callers -> Text \cup {None}]
         /\ committed' \subseteq Callers /\ cancelled' \subseteq Callers
         /\ late' \in [Callers -> Nat]
<1>. USE OracleAssumption
         DEF TypeOK, CacheKey, Return, store, flight, resources, request, Post,
             LeaveLoop
<1>. DEFINE DataOK ==
       /\ cache' \in [Prompts -> Text \cup {None}]
       /\ inflight' \in [Prompts -> Callers \cup {None}]
       /\ leader' \in [Callers -> Callers \cup {None}]
       /\ sent' \in [Callers -> Text \cup {None}]
       /\ attempt' \in [Callers -> 0 .. max_retries]
       /\ segment' \in [Callers -> 0 .. MAX_TRUNCATION_CONTINUATIONS]
       /\ text' \in [Callers -> Text \cup {None}]
       /\ committed' \subseteq Callers /\ cancelled' \subseteq Callers
       /\ late' \in [Callers -> Nat]
<1>. SUFFICES DataOK
  OBVIOUS
<1>1. CASE AcquireResources(c)
  BY <1>1 DEF AcquireResources
<1>2. CASE TimeOut(c)
  BY <1>2 DEF TimeOut
<1>3. CASE CheckCache(c)
  BY <1>3 DEF CheckCache, Cached
<1>4. CASE Follow(c)
  BY <1>4 DEF Follow
<1>5. CASE Lead(c)
  BY <1>5 DEF Lead
<1>6. CASE ReceiveResult(c)
  BY <1>6 DEF ReceiveResult, Goto, AnswersKept
<1>7. CASE LeaderGone(c)
  BY <1>7 DEF LeaderGone
<1>8. CASE DryRun(c)
  BY <1>8 DEF DryRun, Text
<1>9. CASE BeginAttempt(c)
  BY <1>9 DEF BeginAttempt
<1>10. CASE Refuse(c)
  BY <1>10 DEF Refuse
<1>11. CASE SendRequest(c)
  BY <1>11 DEF SendRequest, LateOnce, Goto
<1>20. CASE Continue(c)
  BY <1>20 DEF Continue, LateOnce, Goto
<1>12. CASE Succeed(c)
  <2>1. PICK valid \in BOOLEAN :
          LET answer == [about |-> prompt[c], valid |-> valid] IN
            /\ PutInCache(CacheKey(c), answer)
            /\ text' = [text EXCEPT ![c] = answer]
    BY <1>12 DEF Succeed
  <2>. DEFINE answer == [about |-> prompt[c], valid |-> valid]
  <2>2. answer \in Text
    BY DEF Text
  <2>3. cache' \in [Prompts -> Text \cup {None}]
    <3>1. PutInCache(prompt[c], answer)
      BY <2>1
    <3>. HIDE DEF answer
    <3>. QED  BY <2>2, <3>1 DEF PutInCache
  <2>4. text' \in [Callers -> Text \cup {None}]
    BY <2>1, <2>2
  <2>. QED  BY <1>12, <2>3, <2>4 DEF Succeed
<1>13. CASE FailFast(c)
  BY <1>13 DEF FailFast
<1>14. CASE Truncated(c)
  BY <1>14 DEF Truncated
<1>15. CASE Retry(c)
  BY <1>15 DEF Retry
<1>16. CASE Broadcast(c)
  BY <1>16 DEF Broadcast
<1>17. CASE DropInflightGuard(c)
  BY <1>17 DEF DropInflightGuard
<1>18. CASE DropResources(c)
  BY <1>18 DEF DropResources
<1>19. CASE Cancel(c)
  BY <1>19 DEF Cancel
<1>. QED  BY <1>1, <1>2, <1>3, <1>4, <1>5, <1>6, <1>7, <1>8, <1>9, <1>10,
             <1>11, <1>12, <1>13, <1>14, <1>15, <1>16, <1>17, <1>18, <1>19,
             <1>20 DEF CallerStep

-----------------------------------------------------------------------------
(* Resources *)

(* The permits, the counters and the map follow the calls.                 *)
LEMMA ResourcesPreserved ==
  ASSUME TypeOK, NothingLeaks, NEW c \in Callers, CallerStep(c) \/ Cancel(c)
  PROVE  NothingLeaks'
<1>. USE DEF CacheKey
<1>1. CASE Inner(c)
  <2>1. /\ Holding' = Holding /\ Leading' = Leading /\ permits' = permits
        /\ live' = live /\ inflight' = inflight /\ prompt' = prompt
    BY <1>1, InnerSteps
  <2>. QED  BY <2>1 DEF NothingLeaks
<1>2. CASE AcquireResources(c)
  <2>1. CASE Goto(c, "start", "done")
    <3>1. /\ permits' = permits /\ live' = live /\ inflight' = inflight
          /\ prompt' = prompt
      BY <1>2, <2>1 DEF AcquireResources, resources, flight, setup, Goto, TypeOK
    <3>2. Holding' = Holding /\ Leading' = Leading
      BY <2>1, Moves DEF Steps, Holding, Leading
    <3>. QED  BY <3>1, <3>2 DEF NothingLeaks
  <2>2. CASE Goto(c, "start", "cache_check")
    <3>1. /\ permits' = permits - 1 /\ inflight' = inflight /\ prompt' = prompt
          /\ live' = [live EXCEPT !["budget"] = @ + 1]
      BY <1>2, <2>2 DEF AcquireResources, flight, setup, Goto, TypeOK
    <3>2. /\ c \notin Holding /\ Holding' = Holding \cup {c}
          /\ Leading' = Leading
      BY <2>2, Moves DEF Steps, Holding, Leading
    <3>3. Cardinality(Holding') = Cardinality(Holding) + 1
      BY <3>2, Counting, LeadingHolds
    <3>4. /\ permits \in Int /\ Cardinality(Holding) \in Int
          /\ live \in [{"budget", "inflight"} -> Int]
      <4>1. Cardinality(Holding) \in Nat
        BY Counting, LeadingHolds
      <4>2. permits \in Int /\ live \in [{"budget", "inflight"} -> Int]
        BY OracleAssumption DEF TypeOK
      <4>. QED  BY <4>1, <4>2
    <3>5. /\ live'["budget"] = live["budget"] + 1
          /\ live'["inflight"] = live["inflight"]
      BY <3>1, <3>4
    <3>6. /\ permits' + Cardinality(Holding') = Permits
          /\ live'["budget"] = Cardinality(Holding')
          /\ live'["inflight"] = Cardinality(Leading')
      BY <3>1, <3>2, <3>3, <3>4, <3>5 DEF NothingLeaks
    <3>. QED  BY <3>1, <3>2, <3>6 DEF NothingLeaks
  <2>. QED  BY <1>2, <2>1, <2>2 DEF AcquireResources
<1>3. CASE Lead(c)
  <2>1. Goto(c, "entry", "leading")
    BY <1>3 DEF Lead
  <2>2. /\ permits' = permits /\ prompt' = prompt /\ inflight[prompt[c]] = None
        /\ inflight' = [inflight EXCEPT ![prompt[c]] = c]
        /\ live' = [live EXCEPT !["inflight"] = @ + 1]
    BY <1>3 DEF Lead, resources, setup
  <2>3. /\ Holding' = Holding /\ c \notin Leading
        /\ Leading' = Leading \cup {c}
    BY <2>1, Moves DEF Steps, Holding, Leading
  <2>4. Cardinality(Leading') = Cardinality(Leading) + 1
    BY <2>3, Counting, LeadingHolds
  <2>5. ASSUME NEW k \in Prompts, NEW d \in Callers
        PROVE  inflight'[k] = d <=> d \in Leading' /\ prompt[d] = k
    BY <2>2, <2>3, OracleAssumption DEF NothingLeaks, TypeOK
  <2>. QED  BY <2>2, <2>3, <2>4, <2>5 DEF NothingLeaks, TypeOK
<1>4. CASE DropInflightGuard(c)
  <2>1. Goto(c, "unwinding", "releasing")
    BY <1>4 DEF DropInflightGuard
  <2>2. /\ permits' = permits /\ prompt' = prompt
        /\ inflight' = [inflight EXCEPT ![prompt[c]] = None]
        /\ live' = [live EXCEPT !["inflight"] = @ - 1]
    BY <1>4 DEF DropInflightGuard, resources, setup
  <2>3. /\ Holding' = Holding /\ c \in Leading
        /\ Leading' = Leading \ {c}
    BY <2>1, Moves DEF Steps, Holding, Leading
  <2>4. Cardinality(Leading') = Cardinality(Leading) - 1
    BY <2>3, Counting, LeadingHolds
  <2>5. ASSUME NEW k \in Prompts, NEW d \in Callers
        PROVE  inflight'[k] = d <=> d \in Leading' /\ prompt[d] = k
    BY <2>2, <2>3, OracleAssumption DEF NothingLeaks, TypeOK
  <2>. QED  BY <2>2, <2>3, <2>4, <2>5 DEF NothingLeaks, TypeOK
<1>5. CASE DropResources(c)
  <2>1. Goto(c, "releasing", "done")
    BY <1>5 DEF DropResources
  <2>2. /\ permits' = permits + 1 /\ prompt' = prompt /\ inflight' = inflight
        /\ live' = [live EXCEPT !["budget"] = @ - 1]
    BY <1>5 DEF DropResources, setup
  <2>3. /\ Leading' = Leading /\ c \in Holding
        /\ Holding' = Holding \ {c}
    BY <2>1, Moves DEF Steps, Holding, Leading
  <2>4. Cardinality(Holding') = Cardinality(Holding) - 1
    BY <2>3, Counting, LeadingHolds
  <2>5. /\ permits \in Int /\ Cardinality(Holding) \in Int
        /\ live \in [{"budget", "inflight"} -> Int]
    <3>1. Cardinality(Holding) \in Nat
      BY Counting, LeadingHolds
    <3>2. permits \in Int /\ live \in [{"budget", "inflight"} -> Int]
      BY OracleAssumption DEF TypeOK
    <3>. QED  BY <3>1, <3>2
  <2>6. /\ live'["budget"] = live["budget"] - 1
        /\ live'["inflight"] = live["inflight"]
    BY <2>2, <2>5
  <2>7. /\ permits' + Cardinality(Holding') = Permits
        /\ live'["budget"] = Cardinality(Holding')
        /\ live'["inflight"] = Cardinality(Leading')
    BY <2>2, <2>3, <2>4, <2>5, <2>6 DEF NothingLeaks
  <2>. QED  BY <2>2, <2>3, <2>7 DEF NothingLeaks
<1>. QED  BY <1>1, <1>2, <1>3, <1>4, <1>5 DEF CallerStep, Inner

(* With what the counters say about the calls, they cannot leave their     *)
(* ranges.                                                                 *)
LEMMA CounterTypes ==
  ASSUME TypeOK, NothingLeaks, NEW c \in Callers, CallerStep(c) \/ Cancel(c)
  PROVE  /\ permits' \in 0 .. Permits
         /\ live' \in [{"budget", "inflight"} -> 0 .. Permits]
<1>1. /\ permits' \in Int /\ DOMAIN live' = {"budget", "inflight"}
      /\ live' = [g \in {"budget", "inflight"} |-> live'[g]]
  <2>1. CASE Inner(c)
    BY <2>1, InnerSteps DEF TypeOK
  <2>2. CASE AcquireResources(c) \/ Lead(c) \/ DropInflightGuard(c) \/ DropResources(c)
    BY <2>2 DEF AcquireResources, Lead, DropInflightGuard, DropResources, TypeOK, resources
  <2>. QED  BY <2>1, <2>2 DEF CallerStep, Inner
<1>2. NothingLeaks'
  BY ResourcesPreserved
<1>3. /\ Holding' \subseteq Callers /\ Leading' \subseteq Holding'
  BY DEF Holding, Leading
<1>4. /\ Cardinality(Holding') \in Nat /\ Cardinality(Leading') \in Nat
      /\ Cardinality(Leading') <= Cardinality(Holding')
  <2>1. IsFiniteSet(Holding') /\ IsFiniteSet(Leading')
    BY <1>3, FS_Subset, OracleAssumption
  <2>. QED  BY <1>3, <2>1, FS_Subset, FS_CardinalityType
<1>5. permits' \in 0 .. Permits
  <2>1. permits' >= 0
    <3>1. CASE Inner(c)
      BY <3>1, InnerSteps DEF TypeOK
    <3>2. CASE AcquireResources(c) \/ Lead(c) \/ DropInflightGuard(c) \/ DropResources(c)
      BY <3>2, OracleAssumption
         DEF AcquireResources, Lead, DropInflightGuard, DropResources, TypeOK, resources
    <3>. QED  BY <3>1, <3>2 DEF CallerStep, Inner
  <2>. QED  BY <1>1, <1>2, <1>4, <2>1, OracleAssumption DEF NothingLeaks
<1>6. /\ live'["budget"] \in 0 .. Permits /\ live'["inflight"] \in 0 .. Permits
  BY <1>2, <1>4, <1>5, OracleAssumption DEF NothingLeaks
<1>. QED  BY <1>1, <1>5, <1>6

(* A unit is free, held or spent. *)
LEMMA BudgetPreserved ==
  ASSUME TypeOK, BudgetBalanced, ChargeDecided, NEW c \in Callers,
         CallerStep(c) \/ Cancel(c)
  PROVE  BudgetBalanced' /\ remaining' \in 0 .. max_calls'
<1>. DEFINE Taken == committed \cup Holding
<1>0. Taken \subseteq Callers /\ max_calls' = max_calls
  BY CallMoves DEF Holding, TypeOK, setup
<1>1. CASE Inner(c)
  <2>1. Taken' = Taken /\ remaining' = remaining
    BY <1>1, InnerSteps DEF Holding
  <2>. QED  BY <1>0, <2>1 DEF BudgetBalanced, Unlimited, TypeOK
<1>2. CASE AcquireResources(c)
  <2>1. CASE Goto(c, "start", "done")
    <3>1. remaining' = remaining /\ committed' = committed
      BY <1>2, <2>1 DEF AcquireResources, resources, Goto, TypeOK
    <3>2. Holding' = Holding
      BY <2>1, Moves DEF Steps, Holding
    <3>. QED  BY <1>0, <3>1, <3>2 DEF BudgetBalanced, Unlimited, TypeOK
  <2>2. CASE Goto(c, "start", "cache_check")
    <3>1. /\ committed' = committed /\ (Unlimited \/ remaining > 0)
          /\ remaining' = IF Unlimited THEN remaining ELSE remaining - 1
      BY <1>2, <2>2 DEF AcquireResources, Goto, TypeOK
    <3>2. c \notin Holding /\ Holding' = Holding \cup {c} /\ c \notin committed
      BY <2>2, Moves DEF Steps, Holding, ChargeDecided, Undecided
    <3>3. Taken' = Taken \cup {c} /\ c \notin Taken
      BY <3>1, <3>2
    <3>4. Cardinality(Taken') = Cardinality(Taken) + 1 /\ Cardinality(Taken) \in Nat
      <4>. HIDE DEF Taken
      <4>. QED  BY <1>0, <3>3, Counting
    <3>. QED  BY <1>0, <3>1, <3>4 DEF BudgetBalanced, Unlimited, TypeOK
  <2>. QED  BY <1>2, <2>1, <2>2 DEF AcquireResources
<1>3. CASE Lead(c) \/ DropInflightGuard(c)
  <2>1. remaining' = remaining /\ committed' = committed
    BY <1>3 DEF Lead, DropInflightGuard, resources
  <2>2. Goto(c, "entry", "leading") \/ Goto(c, "unwinding", "releasing")
    BY <1>3 DEF Lead, DropInflightGuard
  <2>3. Holding' = Holding
    BY <2>2, Moves DEF Steps, Holding
  <2>. QED  BY <1>0, <2>1, <2>3 DEF BudgetBalanced, Unlimited, TypeOK
<1>4. CASE DropResources(c)
  <2>1. /\ Goto(c, "releasing", "done") /\ committed' = committed
        /\ remaining' = IF Unlimited \/ c \in committed THEN remaining
                        ELSE remaining + 1
    BY <1>4 DEF DropResources
  <2>2. c \in Holding /\ Holding' = Holding \ {c}
    BY <2>1, Moves DEF Steps, Holding
  <2>3. Taken' = IF c \in committed THEN Taken ELSE Taken \ {c}
    BY <2>1, <2>2
  <2>4. c \in Taken
    BY <2>2
  <2>5. /\ Cardinality(Taken \ {c}) = Cardinality(Taken) - 1
        /\ Cardinality(Taken) \in Nat /\ Cardinality(Taken) > 0
    <3>. HIDE DEF Taken
    <3>. QED  BY <1>0, <2>4, Counting
  <2>6. CASE Unlimited
    BY <1>0, <2>1, <2>6 DEF BudgetBalanced, Unlimited, TypeOK
  <2>7. CASE ~Unlimited /\ c \in committed
    <3>1. remaining' = remaining /\ Taken' = Taken
      BY <2>1, <2>3, <2>7
    <3>. QED  BY <1>0, <3>1 DEF BudgetBalanced, Unlimited, TypeOK
  <2>8. CASE ~Unlimited /\ c \notin committed
    <3>1. remaining' = remaining + 1 /\ Cardinality(Taken') = Cardinality(Taken) - 1
      BY <2>1, <2>3, <2>5, <2>8
    <3>2. remaining + Cardinality(Taken) = max_calls
      BY <2>8 DEF BudgetBalanced
    <3>. HIDE DEF Taken
    <3>3. remaining' + Cardinality(Taken') = max_calls' /\ remaining' \in 0 .. max_calls'
      BY <1>0, <2>5, <3>1, <3>2 DEF TypeOK
    <3>. QED  BY <3>3 DEF BudgetBalanced, Taken
  <2>. QED  BY <2>6, <2>7, <2>8
<1>. QED  BY <1>1, <1>2, <1>3, <1>4 DEF CallerStep, Inner

-----------------------------------------------------------------------------
(* What a call has spent, sent and heard *)

LEMMA ChargesPreserved ==
  ASSUME TypeOK, ChargeDecided, NEW c \in Callers, CallerStep(c) \/ Cancel(c)
  PROVE  ChargeDecided'
<1>. USE DEF TypeOK, ChargeDecided, Undecided, Goto, Return
<1>1. CASE AcquireResources(c)
  BY <1>1 DEF AcquireResources
<1>2. CASE TimeOut(c)
  BY <1>2 DEF TimeOut
<1>3. CASE CheckCache(c)
  BY <1>3 DEF CheckCache
<1>4. CASE Follow(c)
  BY <1>4 DEF Follow
<1>5. CASE Lead(c)
  BY <1>5 DEF Lead
<1>6. CASE ReceiveResult(c)
  BY <1>6 DEF ReceiveResult
<1>7. CASE LeaderGone(c)
  BY <1>7 DEF LeaderGone
<1>8. CASE DryRun(c)
  BY <1>8 DEF DryRun
<1>9. CASE BeginAttempt(c)
  BY <1>9 DEF BeginAttempt
<1>10. CASE Refuse(c)
  BY <1>10 DEF Refuse
<1>11. CASE SendRequest(c)
  BY <1>11 DEF SendRequest
<1>20. CASE Continue(c)
  BY <1>20 DEF Continue
<1>12. CASE Succeed(c)
  BY <1>12 DEF Succeed
<1>13. CASE FailFast(c)
  BY <1>13 DEF FailFast
<1>14. CASE Truncated(c)
  BY <1>14 DEF Truncated
<1>15. CASE Retry(c)
  BY <1>15 DEF Retry
<1>16. CASE Broadcast(c)
  BY <1>16 DEF Broadcast
<1>17. CASE DropInflightGuard(c)
  BY <1>17 DEF DropInflightGuard
<1>18. CASE DropResources(c)
  BY <1>18 DEF DropResources
<1>19. CASE Cancel(c)
  BY <1>19 DEF Cancel
<1>. QED  BY <1>1, <1>2, <1>3, <1>4, <1>5, <1>6, <1>7, <1>8, <1>9, <1>10,
             <1>11, <1>12, <1>13, <1>14, <1>15, <1>16, <1>17, <1>18, <1>19,
             <1>20 DEF CallerStep

LEMMA LatePreserved ==
  ASSUME TypeOK, LateOnce, AnswersKept, NEW c \in Callers,
         CallerStep(c) \/ Cancel(c)
  PROVE  LateOnce'
<1>0. /\ shutdown' = shutdown /\ dry_run' = dry_run
      /\ dry_run => pc[c] \notin {"cleared", "calling"}
  BY CallMoves DEF setup, AnswersKept
<1>. USE <1>0, OracleAssumption
         DEF TypeOK, LateOnce, Goto, request, Post, LeaveLoop
<1>1. CASE AcquireResources(c)
  BY <1>1 DEF AcquireResources
<1>2. CASE TimeOut(c)
  BY <1>2 DEF TimeOut
<1>3. CASE CheckCache(c)
  BY <1>3 DEF CheckCache
<1>4. CASE Follow(c)
  BY <1>4 DEF Follow
<1>5. CASE Lead(c)
  BY <1>5 DEF Lead
<1>6. CASE ReceiveResult(c)
  BY <1>6 DEF ReceiveResult
<1>7. CASE LeaderGone(c)
  BY <1>7 DEF LeaderGone
<1>8. CASE DryRun(c)
  BY <1>8 DEF DryRun
<1>9. CASE BeginAttempt(c)
  BY <1>9 DEF BeginAttempt
<1>10. CASE Refuse(c)
  BY <1>10 DEF Refuse
<1>11. CASE SendRequest(c)
  BY <1>11 DEF SendRequest
<1>20. CASE Continue(c)
  BY <1>20 DEF Continue
<1>12. CASE Succeed(c)
  BY <1>12 DEF Succeed
<1>13. CASE FailFast(c)
  BY <1>13 DEF FailFast
<1>14. CASE Truncated(c)
  BY <1>14 DEF Truncated
<1>15. CASE Retry(c)
  BY <1>15 DEF Retry
<1>16. CASE Broadcast(c)
  BY <1>16 DEF Broadcast
<1>17. CASE DropInflightGuard(c)
  BY <1>17 DEF DropInflightGuard
<1>18. CASE DropResources(c)
  BY <1>18 DEF DropResources
<1>19. CASE Cancel(c)
  BY <1>19 DEF Cancel
<1>. QED  BY <1>1, <1>2, <1>3, <1>4, <1>5, <1>6, <1>7, <1>8, <1>9, <1>10,
             <1>11, <1>12, <1>13, <1>14, <1>15, <1>16, <1>17, <1>18, <1>19,
             <1>20 DEF CallerStep

LEMMA AnswersPreserved ==
  ASSUME TypeOK, NothingLeaks, AnswersKept, NEW c \in Callers,
         CallerStep(c) \/ Cancel(c)
  PROVE  AnswersKept'
<1>. USE OracleAssumption DEF TypeOK, AnswersKept, Right, Goto, Return, CacheKey, setup, store, flight
<1>1. CASE AcquireResources(c)
  BY <1>1 DEF AcquireResources
<1>2. CASE TimeOut(c)
  BY <1>2 DEF TimeOut
<1>3. CASE CheckCache(c)
  BY <1>3 DEF CheckCache, Cached
<1>4. CASE Follow(c)
  BY <1>4 DEF Follow, NothingLeaks
<1>5. CASE Lead(c)
  BY <1>5 DEF Lead
<1>6. CASE ReceiveResult(c)
  BY <1>6 DEF ReceiveResult
<1>7. CASE LeaderGone(c)
  BY <1>7 DEF LeaderGone
<1>8. CASE DryRun(c)
  BY <1>8 DEF DryRun
<1>9. CASE BeginAttempt(c)
  BY <1>9 DEF BeginAttempt
<1>10. CASE Refuse(c)
  BY <1>10 DEF Refuse
<1>11. CASE SendRequest(c)
  BY <1>11 DEF SendRequest
<1>20. CASE Continue(c)
  BY <1>20 DEF Continue
<1>12. CASE Succeed(c)
  <2>1. PICK valid \in BOOLEAN :
          LET answer == [about |-> prompt[c], valid |-> valid] IN
            /\ PutInCache(CacheKey(c), answer)
            /\ text' = [text EXCEPT ![c] = answer]
    BY <1>12 DEF Succeed
  <2>. DEFINE answer == [about |-> prompt[c], valid |-> valid]
  <2>2. ~dry_run
    BY <1>12 DEF Succeed
  <2>3. answer.about = prompt[c]
    OBVIOUS
  <2>4. \A k \in Prompts : cache'[k] \in {cache[k], None} \/ (k = prompt[c] /\ cache'[k] = answer)
    <3>1. PutInCache(prompt[c], answer)
      BY <2>1
    <3>. HIDE DEF answer
    <3>2. CASE UNCHANGED cache
      BY <3>2
    <3>3. CASE \E evicted \in SUBSET Prompts, stored \in BOOLEAN :
                 cache' = [key \in Prompts |->
                             IF key = prompt[c] /\ stored THEN answer
                             ELSE IF key \in evicted THEN None
                             ELSE cache[key]]
      <4>1. PICK evicted \in SUBSET Prompts, stored \in BOOLEAN :
                 cache' = [key \in Prompts |->
                             IF key = prompt[c] /\ stored THEN answer
                             ELSE IF key \in evicted THEN None
                             ELSE cache[key]]
        BY <3>3
      <4>2. ASSUME NEW k \in Prompts
            PROVE  cache'[k] \in {cache[k], None} \/ (k = prompt[c] /\ cache'[k] = answer)
        <5>1. cache'[k] = IF k = prompt[c] /\ stored THEN answer
                          ELSE IF k \in evicted THEN None ELSE cache[k]
          BY <4>1
        <5>. QED  BY <5>1, Zenon
      <4>. QED  BY <4>2
    <3>. QED  BY <3>1, <3>2, <3>3, Zenon DEF PutInCache
  <2>5. \A d \in Callers : text'[d] = IF d = c THEN answer ELSE text[d]
    BY <2>1
  <2>6. dry_run' = dry_run /\ prompt' = prompt /\ sent' = sent /\ leader' = leader
    BY <1>12 DEF Succeed
  <2>7. \A d \in Callers :
          /\ pc'[d] = "following" => pc[d] = "following"
          /\ d # c => pc'[d] = pc[d]
    BY <1>12 DEF Succeed
  <2>. HIDE DEF answer
  <2>8. ASSUME NEW k \in Prompts PROVE Right(cache[k], k)'
    <3>1. Right(cache[k], k)
      OBVIOUS
    <3>. QED  BY <2>2, <2>3, <2>4, <2>6, <3>1
  <2>9. \A d \in Callers : Right(sent[d], prompt[d])' /\ Right(text[d], prompt[d])'
    BY <2>2, <2>3, <2>5, <2>6
  <2>. QED  BY <2>2, <2>6, <2>7, <2>8, <2>9
<1>13. CASE FailFast(c)
  BY <1>13 DEF FailFast
<1>14. CASE Truncated(c)
  BY <1>14 DEF Truncated
<1>15. CASE Retry(c)
  BY <1>15 DEF Retry
<1>16. CASE Broadcast(c)
  <2>1. /\ sent'[c] \in {text[c], sent[c]}
        /\ \A d \in Callers : d # c => sent'[d] = sent[d]
    BY <1>16 DEF Broadcast
  <2>. QED  BY <1>16, <2>1 DEF Broadcast
<1>17. CASE DropInflightGuard(c)
  BY <1>17 DEF DropInflightGuard
<1>18. CASE DropResources(c)
  BY <1>18 DEF DropResources
<1>19. CASE Cancel(c)
  BY <1>19 DEF Cancel
<1>. QED  BY <1>1, <1>2, <1>3, <1>4, <1>5, <1>6, <1>7, <1>8, <1>9, <1>10,
             <1>11, <1>12, <1>13, <1>14, <1>15, <1>16, <1>17, <1>18, <1>19,
             <1>20 DEF CallerStep

-----------------------------------------------------------------------------
(* The invariant *)

LEMMA StepPreserves == IInv /\ [Next]_vars => IInv'
<1>. SUFFICES ASSUME IInv, [Next]_vars PROVE IInv'
  OBVIOUS
<1>. USE DEF IInv, SafetyInv
<1>1. CASE \E c \in Callers : CallerStep(c) \/ Cancel(c)
  <2>1. PICK c \in Callers : CallerStep(c) \/ Cancel(c)
    BY <1>1, Zenon
  <2>2. /\ NothingLeaks' /\ ChargeDecided' /\ BudgetBalanced' /\ LateOnce'
        /\ AnswersKept' /\ remaining' \in 0 .. max_calls'
    BY <2>1, ResourcesPreserved, ChargesPreserved, BudgetPreserved,
       LatePreserved, AnswersPreserved, Zenon
  <2>3. /\ prompt' = prompt /\ max_calls' = max_calls
        /\ pc' \in [Callers -> Steps]
    BY <2>1, CallMoves, Moves DEF setup
  <2>4. TypeOK'
    <3>1. prompt' \in [Callers -> Prompts] /\ max_calls' \in Nat
      BY <2>3 DEF TypeOK
    <3>2. /\ cache_enabled' \in BOOLEAN /\ dry_run' \in BOOLEAN
          /\ shutdown' \in BOOLEAN /\ failures' \in 0 .. 3 * Threshold - 1
          /\ cooling' \in BOOLEAN /\ half_open_probe' \in BOOLEAN
      BY FlagTypes, Zenon
    <3>3. /\ cache' \in [Prompts -> Text \cup {None}]
          /\ inflight' \in [Prompts -> Callers \cup {None}]
          /\ leader' \in [Callers -> Callers \cup {None}]
          /\ sent' \in [Callers -> Text \cup {None}]
          /\ attempt' \in [Callers -> 0 .. max_retries]
          /\ segment' \in [Callers -> 0 .. MAX_TRUNCATION_CONTINUATIONS]
          /\ text' \in [Callers -> Text \cup {None}]
          /\ committed' \subseteq Callers /\ cancelled' \subseteq Callers
          /\ late' \in [Callers -> Nat]
      BY <2>1, DataTypes, Zenon
    <3>4. /\ permits' \in 0 .. Permits
          /\ live' \in [{"budget", "inflight"} -> 0 .. Permits]
      BY <2>1, CounterTypes, Zenon
    <3>. QED  BY <2>2, <2>3, <3>1, <3>2, <3>3, <3>4, Zenon DEF TypeOK
  <2>. QED  BY <2>2, <2>4
<1>2. CASE CooldownEnds \/ TriggerShutdown \/ UNCHANGED vars
  <2>1. UNCHANGED <<prompt, max_calls, dry_run, permits, remaining, cache,
                    inflight, live, pc, leader, sent, attempt, segment, text,
                    committed, cancelled, late>>
    BY <1>2 DEF CooldownEnds, TriggerShutdown, vars, setup, resources, store,
       flight, request
  <2>2. shutdown => shutdown'
    BY <1>2, Zenon DEF CooldownEnds, TriggerShutdown, vars
  <2>3. TypeOK'
    <3>1. /\ cache_enabled' \in BOOLEAN /\ dry_run' \in BOOLEAN
          /\ shutdown' \in BOOLEAN /\ failures' \in 0 .. 3 * Threshold - 1
          /\ cooling' \in BOOLEAN /\ half_open_probe' \in BOOLEAN
      BY FlagTypes, Zenon
    <3>. QED  BY <2>1, <3>1, Zenon DEF TypeOK
  <2>4. Holding' = Holding /\ Leading' = Leading /\ Unlimited' = Unlimited
    BY <2>1 DEF Holding, Leading, Unlimited
  <2>5. NothingLeaks' /\ BudgetBalanced'
    BY <2>1, <2>4 DEF NothingLeaks, BudgetBalanced, CacheKey
  <2>6. ChargeDecided' /\ LateOnce'
    BY <2>1, <2>2 DEF ChargeDecided, LateOnce
  <2>7. AnswersKept'
    BY <2>1 DEF AnswersKept, Right
  <2>. QED  BY <2>3, <2>5, <2>6, <2>7
<1>. QED  BY <1>1, <1>2 DEF Next, AllDone

(* The strengthened invariant holds in every state of every behaviour. *)
THEOREM Invariance == Spec => []IInv
<1>1. Init => IInv
  BY InitEstablishes
<1>2. IInv /\ [Next]_vars => IInv'
  BY StepPreserves
<1>. QED  BY <1>1, <1>2, PTL DEF Spec

(* The state of the calls, the shared resources, the breaker and the cache *)
(* keeps its types: counters stay between nothing and their capacity.      *)
THEOREM OracleTypeCorrect == Spec => []TypeOK
<1>1. IInv => TypeOK
  BY DEF IInv
<1>. QED  BY <1>1, Invariance, PTL

(* However calls end, permits, map entries and guard counters account for  *)
(* the calls that are under way, and for nothing else.                     *)
THEOREM NoResourceLeaks == Spec => []NothingLeaks
<1>1. IInv => NothingLeaks
  BY DEF IInv, SafetyInv
<1>. QED  BY <1>1, Invariance, PTL

(* A call is charged exactly if it was not aborted, and the budget is      *)
(* short of the units held and charged.                                    *)
THEOREM ChargesAreExact == Spec => []ChargedUnlessCancelled
<1>1. IInv => ChargedUnlessCancelled
  BY DEF IInv, SafetyInv, ChargedUnlessCancelled, ChargeDecided, BudgetBalanced
<1>. QED  BY <1>1, Invariance, PTL

(* Never two requests for one key at the same time. *)
THEOREM OneRequestPerKey == Spec => []NoConcurrentDuplicate
<1>1. IInv => NoConcurrentDuplicate
  <2>. SUFFICES ASSUME IInv, NEW c \in Callers, NEW d \in Callers,
                       pc[c] = "calling", pc[d] = "calling",
                       prompt[c] = prompt[d]
                PROVE  c = d
    BY DEF NoConcurrentDuplicate
  <2>1. prompt[c] \in Prompts /\ c \in Leading /\ d \in Leading
    BY DEF IInv, TypeOK, Leading
  <2>2. inflight[prompt[c]] = c /\ inflight[prompt[c]] = d
    BY <2>1 DEF IInv, SafetyInv, NothingLeaks, CacheKey
  <2>. QED  BY <2>2
<1>. QED  BY <1>1, Invariance, PTL

(* Whatever way an answer took, through the cache or another call's        *)
(* channel, it is one to the prompt of the call that returns it.           *)
THEOREM AnswersAreOwn == Spec => []AnswersOwnPrompt
<1>1. IInv => AnswersOwnPrompt
  BY DEF IInv, SafetyInv, AnswersKept, Right, AnswersOwnPrompt
<1>. QED  BY <1>1, Invariance, PTL

(* No call passes the check after it posted late, and what it posts late   *)
(* are at most the segments of one answer.                                 *)
THEOREM BillingStopsAfterShutdown == Spec => []BillingStops
<1>1. IInv => BillingStops
  BY DEF IInv, SafetyInv, LateOnce, BillingStops, TypeOK
<1>. QED  BY <1>1, Invariance, PTL

=============================================================================
