--------------------------- MODULE FixLoopProofs ---------------------------
(***************************************************************************)
(* The safety of the fix loop, for every set of set-ups and every bound.   *)
(*                                                                         *)
(* The invariants of FixLoop are not inductive: whether a count may be     *)
(* non-zero depends on where the run is, and whether a generator may still *)
(* be started depends on how the run came there.  SafetyInv says so.       *)
(***************************************************************************)
EXTENDS FixLoop, TLAPS

(* Where an iteration is under way, its number is within the limit.        *)
IterationCounted ==
  BoundedIterations /\ (\/ pc \in {"analysing", "analysed", "generating"}
                        \/ pc = "draining" /\ drain = "iteration")
    => iteration <= cli.max_iterations

(* A run that has ended well has left nothing behind, and stays ended.     *)
EndedDrained ==
  /\ run_status # "none" => pc = "finished"
  /\ OkMeansDrained

(* After a late generator the run has seen the shutdown and is past the    *)
(* place where generators are started, to which there is no way back.      *)
LateOnce ==
  late_generators # 0 =>
    late_generators = 1 /\ shutdown /\ pc \notin {"analysing", "analysed"}

(* The session is active from its permit to the end of the loop body.      *)
SessionHeld ==
  session_active =>
    session_live = 1 /\ pc \in {"generating", "draining", "killing", "leaking"}

SafetyInv == IterationCounted /\ EndedDrained /\ LateOnce /\ SessionHeld

IInv == TypeOK /\ SafetyInv

-----------------------------------------------------------------------------
(* The constants of a run. *)
LEMMA Limits ==
  ASSUME TypeOK
  PROVE  /\ cli.max_iterations \in Nat /\ cli.max_calls \in Nat
         /\ cli.fix \in BOOLEAN /\ cli.interactive \in BOOLEAN
         /\ CodegenUnits \in Nat \ {0}
         /\ MaxSignals \in Nat /\ MaxLinger \in Nat /\ MaxLate \in Nat
BY FixLoopAssumption DEF TypeOK

LEMMA InitEstablishes == Init => IInv
<1>. SUFFICES ASSUME Init PROVE IInv
  OBVIOUS
<1>1. TypeOK
  <2>1. session_active \in BOOLEAN /\ fail_fast \in BOOLEAN /\ shutdown \in BOOLEAN
    BY Zenon DEF Init
  <2>2. /\ cli \in Setups /\ cli.max_iterations \in Nat /\ cli.max_calls \in Nat
        /\ MaxSignals \in Nat /\ MaxLinger \in Nat /\ MaxLate \in Nat
    BY FixLoopAssumption DEF Init
  <2>3. /\ pc \in {"top", "analysing"} /\ drain = "none"
        /\ signal = "none" /\ signal_task = "listening" /\ run_status = "none"
    BY DEF Init
  <2>4. /\ iteration \in 0 .. cli.max_iterations + 1 /\ remaining \in 0 .. cli.max_calls
        /\ oracle_live \in 0 .. MaxLinger /\ child_live \in 0 .. MaxLinger
        /\ session_live \in 0 .. 1 /\ signals \in 0 .. MaxSignals
        /\ late_generators \in 0 .. MaxLate
    BY <2>2 DEF Init
  <2>. QED  BY <2>1, <2>2, <2>3, <2>4 DEF TypeOK
<1>2. SafetyInv
  <2>1. /\ pc = "analysing" => iteration = 0
        /\ pc \in {"top", "analysing"} /\ run_status = "none" /\ late_generators = 0
    BY DEF Init
  <2>2. ~session_active
    BY Zenon DEF Init
  <2>. QED
    BY <1>1, <2>1, <2>2, Limits DEF SafetyInv, IterationCounted, EndedDrained,
       OkMeansDrained, LateOnce, SessionHeld
<1>. QED  BY <1>1, <1>2 DEF IInv

(* Both ways to change the session leave its types.                         *)
LEMMA SessionTypes ==
  ASSUME session_live \in 0 .. 1, session_active \in BOOLEAN,
         EndSession \/ AcquireSession
  PROVE  session_live' \in 0 .. 1 /\ session_active' \in BOOLEAN
<1>1. session_live' \in 0 .. 1
  BY DEF EndSession, AcquireSession, session
<1>2. session_active' \in BOOLEAN
  BY Zenon DEF EndSession, AcquireSession, session
<1>. QED  BY <1>1, <1>2

(* No step leaves the types.  Only the head of the loop counts iterations  *)
(* up, and there the number is within the limit.                           *)
LEMMA TypesPreserved ==
  ASSUME TypeOK, IterationCounted, [Next]_vars
  PROVE  TypeOK'
<1>. USE Limits, FixLoopAssumption DEF TypeOK, Drains, counters, session, sigs
<1>1. CASE StopAtLimit
  BY <1>1 DEF StopAtLimit, Goto
<1>2. CASE StopOnShutdown
  BY <1>2 DEF StopOnShutdown, Goto
<1>3. CASE StartIteration
  BY <1>3 DEF StartIteration, Goto
<1>4. CASE AnalysisFails
  BY <1>4, SessionTypes DEF AnalysisFails, AnalysisPays, AnalysisLingers, Finish
<1>5. CASE AnalysisReturns
  BY <1>5 DEF AnalysisReturns, AnalysisPays, AnalysisLingers, DrainFor
<1>6. CASE ReportClean
  BY <1>6 DEF ReportClean, DrainFor
<1>7. CASE RefuseWithoutTty
  BY <1>7, SessionTypes DEF RefuseWithoutTty, Finish
<1>8. CASE StartGenerator
  BY <1>8, SessionTypes DEF StartGenerator, Goto
<1>9. CASE GeneratorFails
  BY <1>9, SessionTypes DEF GeneratorFails, GeneratorPays, ChildLingers, Finish, BoundedBudget
<1>10. CASE GeneratorReturns
  BY <1>10 DEF GeneratorReturns, GeneratorPays, ChildLingers, DrainFor, BoundedBudget
<1>11. CASE DrainedAndDone
  BY <1>11, SessionTypes DEF DrainedAndDone, NothingLive, Finish
<1>12. CASE NextIteration
  BY <1>12, SessionTypes DEF NextIteration, NothingLive, Goto, BoundedIterations, IterationCounted
<1>13. CASE StopOnBudget
  BY <1>13, SessionTypes DEF StopOnBudget, NothingLive, Goto
<1>14. CASE LoopEnds
  BY <1>14 DEF LoopEnds, DrainFor
<1>15. CASE DeadlinePasses
  BY <1>15 DEF DeadlinePasses, NothingLive
<1>16. CASE KillChildren
  BY <1>16 DEF KillChildren, Goto
<1>17. CASE ReportLeak
  BY <1>17, SessionTypes DEF ReportLeak, Finish
<1>18. CASE TakeSignal
  BY <1>18 DEF TakeSignal
<1>19. CASE TriggerShutdown
  BY <1>19 DEF TriggerShutdown
<1>20. CASE SendShutdown
  BY <1>20 DEF SendShutdown
<1>21. CASE SendSignal
  BY <1>21 DEF SendSignal
<1>22. CASE GuardDrops
  BY <1>22 DEF GuardDrops
<1>23. CASE UNCHANGED vars
  BY <1>23 DEF vars
<1>. QED
  BY <1>1, <1>2, <1>3, <1>4, <1>5, <1>6, <1>7, <1>8, <1>9, <1>10, <1>11, <1>12, <1>13, <1>14, <1>15, <1>16, <1>17, <1>18, <1>19, <1>20, <1>21, <1>22, <1>23
     DEF Next, RunStep, SignalStep, Terminated

(* The four parts of the invariant, action by action.                      *)
LEMMA SafetyPreserved ==
  ASSUME TypeOK, SafetyInv, [Next]_vars
  PROVE  SafetyInv'
<1>. USE Limits DEF TypeOK, SafetyInv, IterationCounted, EndedDrained,
         OkMeansDrained, LateOnce, SessionHeld, BoundedIterations, counters,
         session, sigs
<1>1. CASE StopAtLimit
  BY <1>1 DEF StopAtLimit, Goto
<1>2. CASE StopOnShutdown
  BY <1>2 DEF StopOnShutdown, Goto
<1>3. CASE StartIteration
  BY <1>3 DEF StartIteration, Goto
<1>4. CASE AnalysisFails
  BY <1>4 DEF AnalysisFails, AnalysisPays, AnalysisLingers, Finish, EndSession
<1>5. CASE AnalysisReturns
  BY <1>5 DEF AnalysisReturns, AnalysisPays, AnalysisLingers, DrainFor
<1>6. CASE ReportClean
  BY <1>6 DEF ReportClean, DrainFor
<1>7. CASE RefuseWithoutTty
  BY <1>7 DEF RefuseWithoutTty, Finish, EndSession
<1>8. CASE StartGenerator
  BY <1>8 DEF StartGenerator, AcquireSession, Goto
<1>9. CASE GeneratorFails
  BY <1>9 DEF GeneratorFails, GeneratorPays, ChildLingers, Finish, EndSession
<1>10. CASE GeneratorReturns
  BY <1>10 DEF GeneratorReturns, GeneratorPays, ChildLingers, DrainFor
<1>11. CASE DrainedAndDone
  BY <1>11 DEF DrainedAndDone, NothingLive, Finish, EndSession
<1>12. CASE NextIteration
  BY <1>12 DEF NextIteration, NothingLive, Goto, EndSession
<1>13. CASE StopOnBudget
  BY <1>13 DEF StopOnBudget, NothingLive, Goto, EndSession
<1>14. CASE LoopEnds
  BY <1>14 DEF LoopEnds, DrainFor
<1>15. CASE DeadlinePasses
  BY <1>15 DEF DeadlinePasses, NothingLive
<1>16. CASE KillChildren
  BY <1>16 DEF KillChildren, Goto
<1>17. CASE ReportLeak
  BY <1>17 DEF ReportLeak, Finish, EndSession
<1>18. CASE TakeSignal
  BY <1>18 DEF TakeSignal
<1>19. CASE TriggerShutdown
  BY <1>19 DEF TriggerShutdown
<1>20. CASE SendShutdown
  BY <1>20 DEF SendShutdown
<1>21. CASE SendSignal
  BY <1>21 DEF SendSignal
<1>22. CASE GuardDrops
  BY <1>22 DEF GuardDrops
<1>23. CASE UNCHANGED vars
  BY <1>23 DEF vars
<1>. QED
  BY <1>1, <1>2, <1>3, <1>4, <1>5, <1>6, <1>7, <1>8, <1>9, <1>10, <1>11, <1>12, <1>13, <1>14, <1>15, <1>16, <1>17, <1>18, <1>19, <1>20, <1>21, <1>22, <1>23
     DEF Next, RunStep, SignalStep, Terminated

LEMMA Invariance == Spec => []IInv
<1>1. IInv /\ [Next]_vars => IInv'
  BY TypesPreserved, SafetyPreserved DEF IInv, SafetyInv
<1>. QED  BY InitEstablishes, <1>1, PTL DEF Spec

-----------------------------------------------------------------------------
(* Every variable of the run stays in its range, whatever the set-up; in   *)
(* particular the budget never goes below zero and the number of the       *)
(* iteration never passes the limit by more than one.                      *)
THEOREM LoopTypeCorrect == Spec => []TypeOK
BY Invariance, PTL DEF IInv

(* A run is recorded as ok only with nothing alive that it has started.    *)
THEOREM OkAlwaysDrained == Spec => []OkMeansDrained
<1>1. IInv => OkMeansDrained
  BY DEF IInv, SafetyInv, EndedDrained
<1>. QED  BY Invariance, <1>1, PTL

(* Once the shutdown is announced, at most one more generator is started.  *)
THEOREM NoSecondLateGenerator == Spec => []OneGeneratorAfterShutdown
<1>1. IInv => OneGeneratorAfterShutdown
  BY Limits DEF IInv, SafetyInv, LateOnce, TypeOK, OneGeneratorAfterShutdown
<1>. QED  BY Invariance, <1>1, PTL

(* No way out of the loop body leaves SIGINT to a child that is gone.      *)
THEOREM SigintAlwaysHeard == Spec => []SigintHeardOutsideSession
<1>1. IInv => SigintHeardOutsideSession
  BY DEF IInv, SafetyInv, SessionHeld, SigintHeardOutsideSession
<1>. QED  BY Invariance, <1>1, PTL

=============================================================================
