------------------------------ MODULE FixLoop ------------------------------
(***************************************************************************)
(* The run of src/src/main.rs from the moment the oracle is built: the     *)
(* single-shot analysis or the fix loop, the signal task, the interactive  *)
(* session permit and the drain of live guards before the run says it is   *)
(* done.                                                                   *)
(*                                                                         *)
(* run_analysis and run_code_generator are here what the loop sees of      *)
(* them: a result or an error, budget units used up, and guards of aborted *)
(* tasks or of a child that outlive the call for a while.                  *)
(***************************************************************************)
EXTENDS Integers

CONSTANTS
  Setups,      \* how the run may be started: fix, interactive, and
               \* max_iterations and max_calls (0 is unlimited for both)
  CodegenUnits,  \* CODEGEN_BUDGET_UNITS
  MaxSignals,  \* bound: signals sent to the process
  MaxLinger,   \* bound: guards of one kind that outlive a call
  MaxLate      \* bound: where the count of late generators stops

(* Cli::validate refuses --interactive without a code generator.           *)
ASSUME FixLoopAssumption ==
  /\ Setups \subseteq [fix : BOOLEAN, interactive : BOOLEAN,
                       max_iterations : Nat, max_calls : Nat]
  /\ \A s \in Setups : s.interactive => s.fix
  /\ CodegenUnits \in Nat \ {0}
  /\ MaxSignals \in Nat /\ MaxLinger \in Nat /\ MaxLate \in Nat

VARIABLES
  cli,                 \* the set-up of this run
  pc,                  \* where the run is
  drain,               \* what ensure_no_live_guards was called for
  iteration,
  remaining,           \* units left in the budget
  oracle_live,         \* live BudgetGuards and InflightGuards
  child_live,          \* live ChildCleanups of generator processes
  session_live,        \* INTERACTIVE_SESSION_LIVE
  session_active,      \* INTERACTIVE_SESSION_ACTIVE
  signal,              \* a signal delivered and not yet taken
  signals,             \* how many were sent
  signal_task,
  fail_fast,           \* Oracle::shutdown
  shutdown,            \* the value of the watch channel
  run_status,          \* what finish_run records
  late_generators      \* history: generators started after shutdown

counters == <<oracle_live, child_live>>
session == <<session_live, session_active>>
sigs == <<signal, signals, signal_task, fail_fast, shutdown>>
vars == <<cli, pc, drain, iteration, remaining, counters, session, sigs,
          run_status, late_generators>>

BoundedIterations == cli.max_iterations # 0
BoundedBudget == cli.max_calls # 0

Drains == {"single_shot", "clean", "iteration", "loop"}

TypeOK ==
  /\ cli \in Setups
  /\ pc \in {"top", "analysing", "analysed", "generating", "draining",
             "killing", "leaking", "after_loop", "finished"}
  /\ drain \in Drains \cup {"none"}
  /\ iteration \in 0 .. cli.max_iterations + 1
  /\ remaining \in 0 .. cli.max_calls
  /\ oracle_live \in 0 .. MaxLinger /\ child_live \in 0 .. MaxLinger
  /\ session_live \in 0 .. 1 /\ session_active \in BOOLEAN
  /\ signal \in {"none", "int", "term"} /\ signals \in 0 .. MaxSignals
  /\ signal_task \in {"listening", "triggering", "sending", "gone"}
  /\ fail_fast \in BOOLEAN /\ shutdown \in BOOLEAN
  /\ run_status \in {"none", "ok", "error"}
  /\ late_generators \in 0 .. MaxLate

Init ==
  /\ cli \in Setups
  /\ pc = IF cli.fix THEN "top" ELSE "analysing"
  /\ drain = "none"
  /\ iteration = IF cli.fix THEN 1 ELSE 0
  /\ remaining = cli.max_calls
  /\ oracle_live = 0 /\ child_live = 0
  /\ session_live = 0 /\ session_active = FALSE
  /\ signal = "none" /\ signals = 0 /\ signal_task = "listening"
  /\ fail_fast = FALSE /\ shutdown = FALSE
  /\ run_status = "none"
  /\ late_generators = 0

Goto(from, to) == pc = from /\ pc' = to

\* Mutant: the permit is dropped without clearing INTERACTIVE_SESSION_ACTIVE.
FinishActive(status) ==
  /\ pc' = "finished"
  /\ run_status' = status
  /\ session_live' = 0 /\ UNCHANGED session_active

EndSession == session_live' = 0 /\ session_active' = FALSE

(* The async block returns; the locals of the loop body are dropped. *)
Finish(status) ==
  /\ pc' = "finished"
  /\ run_status' = status
  /\ EndSession

DrainFor(what) ==
  /\ pc' = "draining"
  /\ drain' = what

-----------------------------------------------------------------------------
(* The loop *)

StopAtLimit ==
  /\ Goto("top", "after_loop")
  /\ BoundedIterations /\ iteration > cli.max_iterations
  /\ UNCHANGED <<cli, drain, iteration, remaining, counters, session, sigs,
                 run_status, late_generators>>

StopOnShutdown ==
  /\ Goto("top", "after_loop")
  /\ BoundedIterations => iteration <= cli.max_iterations
  /\ shutdown
  /\ UNCHANGED <<cli, drain, iteration, remaining, counters, session, sigs,
                 run_status, late_generators>>

\* Mutant: the loop does not look at the shutdown channel.
StartIterationAnyway ==
  /\ Goto("top", "analysing")
  /\ BoundedIterations => iteration <= cli.max_iterations
  /\ UNCHANGED <<cli, drain, iteration, remaining, counters, session, sigs,
                 run_status, late_generators>>

StartIteration ==
  /\ Goto("top", "analysing")
  /\ BoundedIterations => iteration <= cli.max_iterations
  /\ ~shutdown
  /\ UNCHANGED <<cli, drain, iteration, remaining, counters, session, sigs,
                 run_status, late_generators>>

(* Every call of the oracle that is answered costs a unit, by the cache    *)
(* too; a phi that degrades at its root makes no call.                     *)
AnalysisPays == remaining' \in 0 .. remaining

(* Aborted children of phi may be dropped after it has returned. *)
AnalysisLingers == oracle_live' \in oracle_live .. MaxLinger

AnalysisFails ==
  /\ pc = "analysing"
  /\ Finish("error")
  /\ AnalysisPays
  /\ AnalysisLingers
  /\ UNCHANGED <<cli, drain, iteration, child_live, sigs, late_generators>>

AnalysisReturns ==
  /\ pc = "analysing"
  /\ IF cli.fix THEN pc' = "analysed" /\ UNCHANGED drain
     ELSE DrainFor("single_shot")
  /\ AnalysisPays
  /\ AnalysisLingers
  /\ UNCHANGED <<cli, iteration, child_live, session, sigs, run_status,
                 late_generators>>

(* is_clean: the loop is done once its guards are. *)
ReportClean ==
  /\ pc = "analysed"
  /\ DrainFor("clean")
  /\ UNCHANGED <<cli, iteration, remaining, counters, session, sigs,
                 run_status, late_generators>>

(* Cli::validate saw a terminal, which may be gone by now. *)
RefuseWithoutTty ==
  /\ pc = "analysed"
  /\ cli.interactive
  /\ Finish("error")
  /\ UNCHANGED <<cli, drain, iteration, remaining, counters, sigs, late_generators>>

(* acquire_interactive_session_permit, held to the end of the loop body.   *)
AcquireSession ==
  IF cli.interactive
  THEN session_live = 0 /\ session_live' = 1 /\ session_active' = TRUE
  ELSE UNCHANGED session

StartGenerator ==
  /\ Goto("analysed", "generating")
  /\ AcquireSession
  /\ late_generators' = IF shutdown /\ late_generators < MaxLate
                        THEN late_generators + 1 ELSE late_generators
  /\ UNCHANGED <<cli, drain, iteration, remaining, counters, sigs, run_status>>

\* Mutant: the units are taken without looking at the budget.
GeneratorPaysUnchecked ==
  remaining' = IF BoundedBudget /\ ~cli.interactive
               THEN remaining - CodegenUnits ELSE remaining

(* A headless generator takes its units before it runs, unless the replay  *)
(* cache knows its summary; an interactive one is free.                    *)
GeneratorPays ==
  \/ UNCHANGED remaining
  \/ /\ BoundedBudget /\ ~cli.interactive
     /\ remaining >= CodegenUnits
     /\ remaining' = remaining - CodegenUnits

(* A killed or failed child is reaped in the background. *)
ChildLingers == child_live' \in child_live .. MaxLinger

GeneratorFails ==
  /\ pc = "generating"
  /\ Finish("error")
  /\ GeneratorPays
  /\ ChildLingers
  /\ UNCHANGED <<cli, drain, iteration, oracle_live, sigs, late_generators>>

GeneratorReturns ==
  /\ pc = "generating"
  /\ DrainFor("iteration")
  /\ GeneratorPays
  /\ ChildLingers
  /\ UNCHANGED <<cli, iteration, oracle_live, session, sigs, run_status,
                 late_generators>>

-----------------------------------------------------------------------------
(* ensure_no_live_guards *)

\* Mutant: the generator's children are not polled.
NothingOfOracleLive == oracle_live + session_live = 0

NothingLive == oracle_live + child_live + session_live = 0

(* A poll finds nothing live: the run is done, ... *)
DrainedAndDone ==
  /\ pc = "draining" /\ drain # "iteration"
  /\ NothingLive
  /\ Finish("ok")
  /\ UNCHANGED <<cli, drain, iteration, remaining, counters, sigs, late_generators>>

(* ... or the iteration.  Nobody reads the number of an iteration when     *)
(* their number is not bounded.                                            *)
\* Mutant: the iteration is not counted.
NextIterationUncounted ==
  /\ drain = "iteration"
  /\ Goto("draining", "top")
  /\ NothingLive
  /\ BoundedBudget => remaining > 0
  /\ EndSession
  /\ UNCHANGED <<cli, drain, iteration, remaining, counters, sigs, run_status,
                 late_generators>>

NextIteration ==
  /\ drain = "iteration"
  /\ Goto("draining", "top")
  /\ NothingLive
  /\ BoundedBudget => remaining > 0
  /\ iteration' = IF BoundedIterations THEN iteration + 1 ELSE iteration
  /\ EndSession
  /\ UNCHANGED <<cli, drain, remaining, counters, sigs, run_status, late_generators>>

StopOnBudget ==
  /\ drain = "iteration"
  /\ Goto("draining", "after_loop")
  /\ NothingLive
  /\ BoundedBudget /\ remaining = 0
  /\ EndSession
  /\ UNCHANGED <<cli, drain, iteration, remaining, counters, sigs, run_status,
                 late_generators>>

(* The deadline passes: lingering children are killed ... *)
DeadlinePasses ==
  /\ pc = "draining"
  /\ ~NothingLive
  /\ pc' = IF child_live > 0 THEN "killing" ELSE "leaking"
  /\ UNCHANGED <<cli, drain, iteration, remaining, counters, session, sigs,
                 run_status, late_generators>>

KillChildren ==
  /\ Goto("killing", "leaking")
  /\ child_live' \in 0 .. child_live
  /\ UNCHANGED <<cli, drain, iteration, remaining, oracle_live, session, sigs,
                 run_status, late_generators>>

(* ... and the run fails, whatever is still live by then.                  *)
ReportLeak ==
  /\ pc = "leaking"
  /\ Finish("error")
  /\ UNCHANGED <<cli, drain, iteration, remaining, counters, sigs, late_generators>>

LoopEnds ==
  /\ pc = "after_loop"
  /\ DrainFor("loop")
  /\ UNCHANGED <<cli, iteration, remaining, counters, session, sigs,
                 run_status, late_generators>>

-----------------------------------------------------------------------------
(* What goes on meanwhile *)

(* An aborted task is dropped, or a child reaped. *)
GuardDrops ==
  /\ \/ /\ oracle_live > 0
        /\ oracle_live' = oracle_live - 1
        /\ UNCHANGED child_live
     \/ /\ child_live > 0
        /\ child_live' = child_live - 1
        /\ UNCHANGED oracle_live
  /\ UNCHANGED <<cli, pc, drain, iteration, remaining, session, sigs,
                 run_status, late_generators>>

SendSignal ==
  /\ pc # "finished"
  /\ signal = "none" /\ signals < MaxSignals
  /\ signal' \in {"int", "term"}
  /\ signals' = signals + 1
  /\ UNCHANGED <<cli, pc, drain, iteration, remaining, counters, session,
                 signal_task, fail_fast, shutdown, run_status, late_generators>>

(* SIGINT belongs to the child while a session is active. *)
TakeSignal ==
  /\ signal_task = "listening" /\ signal # "none"
  /\ signal' = "none"
  /\ signal_task' = IF signal = "int" /\ session_active THEN "listening"
                    ELSE "triggering"
  /\ UNCHANGED <<cli, pc, drain, iteration, remaining, counters, session,
                 signals, fail_fast, shutdown, run_status, late_generators>>

TriggerShutdown ==
  /\ signal_task = "triggering"
  /\ signal_task' = "sending"
  /\ fail_fast' = TRUE
  /\ UNCHANGED <<cli, pc, drain, iteration, remaining, counters, session,
                 signal, signals, shutdown, run_status, late_generators>>

\* Mutant: the signal task ends without sending on the channel.
SendNothing ==
  /\ signal_task = "sending"
  /\ signal_task' = "gone"
  /\ UNCHANGED <<cli, pc, drain, iteration, remaining, counters, session,
                 signal, signals, fail_fast, shutdown, run_status, late_generators>>

SendShutdown ==
  /\ signal_task = "sending"
  /\ signal_task' = "gone"
  /\ shutdown' = TRUE
  /\ UNCHANGED <<cli, pc, drain, iteration, remaining, counters, session,
                 signal, signals, fail_fast, run_status, late_generators>>

-----------------------------------------------------------------------------
RunStep ==
  \/ StopAtLimit \/ StopOnShutdown \/ StartIteration
  \/ AnalysisFails \/ AnalysisReturns \/ ReportClean \/ RefuseWithoutTty
  \/ StartGenerator \/ GeneratorFails \/ GeneratorReturns
  \/ DrainedAndDone \/ NextIteration \/ StopOnBudget \/ LoopEnds
  \/ DeadlinePasses \/ KillChildren \/ ReportLeak

SignalStep == TakeSignal \/ TriggerShutdown \/ SendShutdown

Terminated == pc = "finished" /\ UNCHANGED vars

Next == RunStep \/ SignalStep \/ SendSignal \/ GuardDrops \/ Terminated

Spec == Init /\ [][Next]_vars

(***************************************************************************)
(* The runtime polls the run and the signal task.  The analysis ends (each *)
(* oracle call is bounded), and the generator is assumed to exit: nothing  *)
(* bounds a headless one.                                                  *)
(***************************************************************************)
FairSpec == Spec /\ WF_vars(RunStep) /\ WF_vars(SignalStep)

-----------------------------------------------------------------------------
(* Properties *)

(***************************************************************************)
(* A run is recorded as ok only when nothing it started is still alive: no *)
(* call of the oracle, no generator process, no session.                   *)
(***************************************************************************)
OkMeansDrained ==
  run_status = "ok" => oracle_live = 0 /\ child_live = 0 /\ session_live = 0

(***************************************************************************)
(* The generator edits the user's files at most once after the shutdown    *)
(* was announced: the iteration that had begun is finished, and none after *)
(* it is started.                                                          *)
(***************************************************************************)
OneGeneratorAfterShutdown == late_generators <= 1

(***************************************************************************)
(* SIGINT is left to the child only while an iteration holds the session   *)
(* permit: no way out of the loop body leaves Ctrl-C disabled.             *)
(***************************************************************************)
SigintHeardOutsideSession ==
  session_active => session_live = 1 /\ pc # "finished"

(***************************************************************************)
(* A run with a bound on its iterations comes to an end, with every drain  *)
(* bounded by its deadline.  A bound on the calls alone does not do: an    *)
(* iteration whose analysis degrades at its root and whose generator is    *)
(* answered by the replay cache costs nothing.                             *)
(***************************************************************************)
RunEnds == BoundedIterations \/ ~cli.fix ~> pc = "finished"

(***************************************************************************)
(* SIGTERM ends every run, also an unbounded one and one in an interactive *)
(* session: through the signal task, the channel and the head of the loop. *)
(***************************************************************************)
TerminationEndsRun == signal = "term" ~> pc = "finished"

(***************************************************************************)
(* ensure_no_live_guards asserts that no InteractiveSessionPermit is live  *)
(* when it reports a leak.  The fix loop calls it at the end of an         *)
(* iteration while its own permit is alive, so every interactive iteration *)
(* fails the assertion (and, without it, the run).                         *)
(***************************************************************************)
NoSessionPermitLive == pc = "leaking" => session_live = 0

=============================================================================
