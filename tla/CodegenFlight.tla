---------------------------- MODULE CodegenFlight ----------------------------
(* run_code_generator and run_code_generator_once of codegen.rs: single      *)
(* flight, replay cache, breaker, budget guard and bulkhead around the       *)
(* process of GeneratorProcess.                                              *)
(*                                                                           *)
(* Headless calls in a model have one flight key and one cache key.  The fix *)
(* loop calls the generator once at a time; that several calls with one key  *)
(* may run is what the single flight is written for.  Interactive calls      *)
(* bypass it; the program has a permit for one of them.                      *)
EXTENDS GeneratorProcess

CONSTANTS
    SetUps,         \* modes of the calls a behaviour may start with
    Limits,         \* the call budgets a behaviour may start with, 0 for none
    Units,          \* CODEGEN_BUDGET_UNITS
    Permits,        \* of codegen_bulkhead
    NoCall

ASSUME FlightAssumption ==
    /\ SetUps \subseteq [Calls -> Modes]
    /\ Limits \subseteq Nat /\ Units \in Nat \ {0} /\ Permits \in Nat \ {0}
    /\ NoCall \notin Calls

VARIABLES
    entry,      \* the call whose entry is in CODEGEN_SINGLE_FLIGHT, or NoCall
    stale,      \* that entry is older than CODEGEN_SINGLE_FLIGHT_TTL
    heard,      \* what the channel of each call holds
    follows,    \* the call on whose channel a call waits
    flights,    \* CODEGEN_FLIGHT_GUARD_LIVE_COUNT
    limit,      \* the call budget; never changes
    remaining,  \* of the budget
    budgets,    \* CODEGEN_BUDGET_GUARD_LIVE_COUNT
    free,       \* permits of the bulkhead
    reports,    \* what each call has told the breaker
    locked,     \* a call waits for the lock on the map that it holds itself
    forced      \* history: an entry was removed before its leader was done

flightVars == <<entry, stale, heard, follows, flights, locked, forced>>
onceVars == <<limit, remaining, budgets, free, reports>>
vars == <<processVars, flightVars, onceVars>>

Init ==
    /\ mode \in SetUps
    /\ ProcessInit
    /\ entry = NoCall /\ stale = FALSE
    /\ heard = [c \in Calls |-> "none"]
    /\ follows = [c \in Calls |-> NoCall]
    /\ flights = 0 /\ budgets = 0
    /\ limit \in Limits /\ remaining = limit
    /\ free = Permits
    /\ reports = [c \in Calls |-> "none"]
    /\ locked = FALSE /\ forced = FALSE

-----------------------------------------------------------------------------
(* Single flight: one key, so one shard of the map and one lock              *)

Evict ==
    /\ entry' = IF stale THEN NoCall ELSE entry
    /\ stale' = FALSE
    /\ forced' = (forced \/ stale)

BeginInteractive(c) ==
    /\ at[c] = "idle" /\ Interactive(c)
    /\ \A d \in Calls \ {c} : Interactive(d) => at[d] \in {"idle", "done"}
    /\ GoTo(c, "admit")
    /\ UNCHANGED <<mode, outcome, childVars, watchVars, ioVars, dropVars, shutdown,
                   flightVars, onceVars>>

BeginHeadless(c) ==
    /\ at[c] = "idle" /\ mode[c] = "headless" /\ ~locked
    /\ Evict
    /\ GoTo(c, "look")
    /\ UNCHANGED <<mode, outcome, childVars, watchVars, ioVars, dropVars, shutdown,
                   heard, follows, flights, locked, onceVars>>

\* The work directory is missing, a link, or on another file system.
RefuseWorkDir(c) ==
    /\ at[c] = "idle" /\ mode[c] # "absent"
    /\ EndsAs(c, "failed")
    /\ GoTo(c, "done")
    /\ UNCHANGED <<mode, childVars, watchVars, ioVars, dropVars, shutdown, flightVars, onceVars>>

\* As Lead, with the look at the map and the insertion under separate locks.
LeadUnlocked(c) ==
    /\ at[c] = "look" /\ ~locked
    /\ entry' = c /\ stale' = FALSE
    /\ flights' = flights + 1
    /\ GoTo(c, "cache")
    /\ UNCHANGED <<mode, outcome, childVars, watchVars, ioVars, dropVars, shutdown,
                   heard, follows, locked, forced, onceVars>>

Lead(c) ==
    /\ at[c] = "look" /\ ~locked /\ entry = NoCall
    /\ entry' = c /\ stale' = FALSE
    /\ flights' = flights + 1
    /\ GoTo(c, "cache")
    /\ UNCHANGED <<mode, outcome, childVars, watchVars, ioVars, dropVars, shutdown,
                   heard, follows, locked, forced, onceVars>>

Follow(c) ==
    /\ at[c] = "look" /\ ~locked /\ entry # NoCall /\ ~stale
    /\ follows' = [follows EXCEPT ![c] = entry]
    /\ GoTo(c, "wait")
    /\ UNCHANGED <<mode, outcome, childVars, watchVars, ioVars, dropVars, shutdown,
                   entry, stale, heard, flights, locked, forced, onceVars>>

\* The entry has become stale since it was evicted: the call removes it from
\* the map while its own look at it holds the lock.
LockItselfOut(c) ==
    /\ at[c] = "look" /\ ~locked /\ entry # NoCall /\ stale
    /\ locked' = TRUE
    /\ GoTo(c, "locked")
    /\ UNCHANGED <<mode, outcome, childVars, watchVars, ioVars, dropVars, shutdown,
                   entry, stale, heard, follows, flights, forced, onceVars>>

ReceiveOutcome(c) ==
    /\ at[c] = "wait" /\ heard[follows[c]] # "none"
    /\ EndsAs(c, heard[follows[c]])
    /\ GoTo(c, "done")
    /\ UNCHANGED <<mode, childVars, watchVars, ioVars, dropVars, shutdown, flightVars, onceVars>>

\* After 30 s the call removes whatever entry is there and looks again.
WaitTimesOut(c) ==
    /\ at[c] = "wait" /\ heard[follows[c]] = "none" /\ ~locked
    /\ entry' = NoCall /\ stale' = FALSE
    /\ forced' = (forced \/ entry # NoCall)
    /\ GoTo(c, "look")
    /\ UNCHANGED <<mode, outcome, childVars, watchVars, ioVars, dropVars, shutdown,
                   heard, follows, flights, locked, onceVars>>

SendOutcome(c) ==
    /\ at[c] = "send"
    /\ heard' = [heard EXCEPT ![c] = IF outcome[c] = "ok" THEN "ok" ELSE "failed"]
    /\ GoTo(c, "leave")
    /\ UNCHANGED <<mode, outcome, childVars, watchVars, ioVars, dropVars, shutdown,
                   entry, stale, follows, flights, locked, forced, onceVars>>

\* CodegenFlightGuard::drop removes the entry of the key, whosever it is.
Leave(c) ==
    /\ at[c] = "leave" /\ ~locked
    /\ flights' = flights - 1
    /\ entry' = NoCall /\ stale' = FALSE
    /\ forced' = (forced \/ entry \notin {c, NoCall})
    /\ GoTo(c, "done")
    /\ UNCHANGED <<mode, outcome, childVars, watchVars, ioVars, dropVars, shutdown,
                   heard, follows, locked, onceVars>>

EntryAges ==
    /\ entry # NoCall /\ ~stale
    /\ stale' = TRUE
    /\ UNCHANGED <<processVars, entry, heard, follows, flights, locked, forced, onceVars>>

Maintain ==
    /\ stale /\ ~locked
    /\ Evict
    /\ UNCHANGED <<processVars, heard, follows, flights, locked, onceVars>>

-----------------------------------------------------------------------------
(* run_code_generator_once                                                   *)

\* The cache may have an answer, of this run or of an earlier one, or not.
CacheHit(c) ==
    /\ at[c] = "cache"
    /\ EndsAs(c, "ok")
    /\ GoTo(c, "send")
    /\ UNCHANGED <<mode, childVars, watchVars, ioVars, dropVars, shutdown, flightVars, onceVars>>

CacheMiss(c) ==
    /\ at[c] = "cache"
    /\ GoTo(c, "admit")
    /\ UNCHANGED <<mode, outcome, childVars, watchVars, ioVars, dropVars, shutdown,
                   flightVars, onceVars>>

\* Where a call goes that fails in run_code_generator_once.
FailsTo(c) == IF Interactive(c) THEN "done" ELSE "send"

\* The breaker of this generator and mode; when it admits is in CircuitBreaker.
Admitted(c) ==
    /\ at[c] = "admit"
    /\ GoTo(c, IF Interactive(c) THEN "spawn" ELSE "pay")
    /\ UNCHANGED <<mode, outcome, childVars, watchVars, ioVars, dropVars, shutdown,
                   flightVars, onceVars>>

Refused(c) ==
    /\ at[c] = "admit"
    /\ EndsAs(c, "failed")
    /\ GoTo(c, FailsTo(c))
    /\ UNCHANGED <<mode, childVars, watchVars, ioVars, dropVars, shutdown, flightVars, onceVars>>

\* As Pay, without comparing the units with what remains.
PayUnchecked(c) ==
    /\ at[c] = "pay"
    /\ remaining' = IF limit = 0 THEN remaining ELSE remaining - Units
    /\ budgets' = budgets + 1
    /\ GoTo(c, "bulkhead")
    /\ UNCHANGED <<mode, outcome, childVars, watchVars, ioVars, dropVars, shutdown,
                   flightVars, limit, free, reports>>

Pay(c) ==
    /\ at[c] = "pay"
    /\ limit = 0 \/ remaining >= Units
    /\ remaining' = IF limit = 0 THEN remaining ELSE remaining - Units
    /\ budgets' = budgets + 1
    /\ GoTo(c, "bulkhead")
    /\ UNCHANGED <<mode, outcome, childVars, watchVars, ioVars, dropVars, shutdown,
                   flightVars, limit, free, reports>>

CannotPay(c) ==
    /\ at[c] = "pay"
    /\ limit # 0 /\ remaining < Units
    /\ EndsAs(c, "failed")
    /\ GoTo(c, "send")
    /\ UNCHANGED <<mode, childVars, watchVars, ioVars, dropVars, shutdown, flightVars, onceVars>>

EnterBulkhead(c) ==
    /\ at[c] = "bulkhead" /\ free > 0
    /\ free' = free - 1
    /\ GoTo(c, "spawn")
    /\ UNCHANGED <<mode, outcome, childVars, watchVars, ioVars, dropVars, shutdown,
                   flightVars, limit, remaining, budgets, reports>>

\* As BulkheadTimesOut, keeping them.
BulkheadTimesOutCharged(c) ==
    /\ at[c] = "bulkhead" /\ free = 0
    /\ budgets' = budgets - 1
    /\ EndsAs(c, "failed")
    /\ GoTo(c, "send")
    /\ UNCHANGED <<mode, childVars, watchVars, ioVars, dropVars, shutdown,
                   flightVars, limit, remaining, free, reports>>

\* CodegenBudgetGuard::drop without a commit gives the units back.
BulkheadTimesOut(c) ==
    /\ at[c] = "bulkhead" /\ free = 0
    /\ remaining' = IF limit = 0 THEN remaining ELSE remaining + Units
    /\ budgets' = budgets - 1
    /\ EndsAs(c, "failed")
    /\ GoTo(c, "send")
    /\ UNCHANGED <<mode, childVars, watchVars, ioVars, dropVars, shutdown,
                   flightVars, limit, free, reports>>

\* A fatal failure is recorded twice.
Verdict(o) == CASE o = "ok" -> "success" [] o = "fatal" -> "two failures" [] OTHER -> "failure"

ReportInteractive(c) ==
    /\ at[c] = "report" /\ Interactive(c)
    /\ reports' = [reports EXCEPT ![c] = Verdict(outcome[c])]
    /\ GoTo(c, "done")
    /\ UNCHANGED <<mode, outcome, childVars, watchVars, ioVars, dropVars, shutdown,
                   flightVars, limit, remaining, budgets, free>>

\* The guard is committed whatever came of the run, and dropped with the permit.
ReportHeadless(c) ==
    /\ at[c] = "report" /\ mode[c] = "headless"
    /\ reports' = [reports EXCEPT ![c] = Verdict(outcome[c])]
    /\ budgets' = budgets - 1
    /\ free' = free + 1
    /\ GoTo(c, "send")
    /\ UNCHANGED <<mode, outcome, childVars, watchVars, ioVars, dropVars, shutdown,
                   flightVars, limit, remaining>>

-----------------------------------------------------------------------------

CallStep(c) ==
    \/ BeginInteractive(c) \/ BeginHeadless(c)
    \/ Lead(c) \/ Follow(c) \/ LockItselfOut(c) \/ ReceiveOutcome(c)
    \/ SendOutcome(c) \/ Leave(c)
    \/ CacheHit(c) \/ CacheMiss(c) \/ Admitted(c) \/ Refused(c)
    \/ Pay(c) \/ CannotPay(c) \/ EnterBulkhead(c)
    \/ ReportInteractive(c) \/ ReportHeadless(c)

AllDone == \A c \in Calls : mode[c] = "absent" \/ at[c] = "done"
Stopped == (AllDone \/ locked) /\ UNCHANGED vars

Next ==
    \/ \E c \in Calls : \/ CallStep(c) \/ RefuseWorkDir(c)
                        \/ WaitTimesOut(c) \/ BulkheadTimesOut(c)
    \/ EntryAges \/ Maintain
    \/ ProcessNext /\ UNCHANGED <<flightVars, onceVars>>
    \/ Stopped

Spec == Init /\ [][Next]_vars

\* Weak fairness for the call, its process function and its watchdog, whose
\* session timer is the only one that has to fire.  A headless generator is
\* assumed to exit, since nothing in the code makes it; an interactive one is
\* not, and the kernel may take for ever to end a killed process.
Fairness ==
    \A c \in Calls :
        /\ WF_vars(CallStep(c))
        /\ WF_vars(BulkheadTimesOut(c))
        /\ WF_vars(ProcessStep(c) /\ UNCHANGED <<flightVars, onceVars>>)
        /\ WF_vars(WatchdogStep(c) /\ UNCHANGED <<flightVars, onceVars>>)
        /\ WF_vars(ReaperStep(c) /\ UNCHANGED <<flightVars, onceVars>>)
        /\ WF_vars(mode[c] = "headless" /\ Exit(c) /\ UNCHANGED <<flightVars, onceVars>>)

FairSpec == Spec /\ Fairness

-----------------------------------------------------------------------------

CallPositions == {"idle", "look", "wait", "locked", "cache", "admit", "pay", "bulkhead",
                  "spawn", "report", "send", "leave", "done"} \cup InProcess

\* The variables stay in their ranges; no counter goes below zero.
TypeOK ==
    /\ mode \in [Calls -> Modes] /\ at \in [Calls -> CallPositions]
    /\ outcome \in [Calls -> Outcomes \cup {"none"}]
    /\ child \in [Calls -> {"none", "running", "dying", "zombie", "reaped"}]
    /\ watchdog \in [Calls -> {"none", "startup", "session", "hard", "ended"}]
    /\ \A S \in {armed, tracked, alarm, stop, stopIo, reaper} : S \subseteq Calls
    /\ io \in [Calls -> SUBSET {"output", "input"}]
    /\ dropped \in [Calls -> {"no", "global", "outer"}]
    /\ {shutdown, stale, locked, forced} \subseteq BOOLEAN
    /\ {cleanups, ptys, flights, budgets, remaining, free} \subseteq Nat
    /\ entry \in Calls \cup {NoCall} /\ follows \in [Calls -> Calls \cup {NoCall}]
    /\ heard \in [Calls -> {"none", "ok", "failed"}]
    /\ reports \in [Calls -> {"none", "success", "failure", "two failures"}]
    /\ limit \in Limits /\ free <= Permits

Returned(c) == at[c] \in {"report", "send", "leave", "done"}

\* However a call ends, by the exit of its generator, a failing wait, shutdown,
\* a timer or a dropped future, its generator is not left running: it is among
\* the tracked pids while the call has not returned, or a reaper thread holds
\* it that has yet to kill it (ChildCleanup, PtyChildCleanup).
NothingLeftRunning ==
    \A c \in Calls :
        child[c] = "running" => (c \in tracked /\ ~Returned(c)) \/ c \in reaper

Leaders == {c \in Calls : mode[c] = "headless"
              /\ at[c] \in {"cache", "admit", "pay", "bulkhead", "spawn", "report",
                            "send", "leave"} \cup InProcess}
Payers == {c \in Calls : mode[c] = "headless"
              /\ at[c] \in {"bulkhead", "spawn", "report"} \cup InProcess}

\* The four counts that ensure_no_live_guards polls are the numbers of guards
\* alive, at any moment and on every way out of a call.
LiveCountsExact ==
    /\ cleanups = Cardinality({c \in Calls : mode[c] # "pty" /\ at[c] \in InProcess})
    /\ ptys = Cardinality({c \in Calls : mode[c] = "pty" /\ at[c] \in InProcess})
    /\ flights = Cardinality(Leaders)
    /\ budgets = Cardinality(Payers)

\* No guard is counted that is not alive, and none that is alive is missed; and
\* the units of a generator are spent if its outcome was recorded, held while
\* its guard is alive, and in the budget otherwise: a call that fails before
\* its process is started costs nothing (CodegenBudgetGuard).
GuardsAccounted ==
    /\ LiveCountsExact
    /\ limit # 0 =>
         limit = remaining + Units * Cardinality(Payers)
                 + Units * Cardinality({c \in Calls : mode[c] = "headless"
                                                      /\ reports[c] # "none"})

\* Two calls with one key run a generator at a time only after an entry was
\* taken away from under its leader, by a waiter that lost patience or for its
\* age.  CodegenFlightGuard of a leader that is done may take away another one.
OneGenerator == ~forced => Cardinality(Leaders) <= 1

\* Every call returns, and none leaves its generator running for ever: an
\* interactive one although its generator never exits by itself and ignores
\* signals, a waiter although its leader is slow, a dropped one although its
\* guard gave up waiting for the reaper.  The exception is a call that has
\* locked itself out of the map, and with it all calls that need the map.
EveryCallReturns ==
    \A c \in Calls :
        at[c] # "idle" ~> ((at[c] = "done" /\ child[c] # "running") \/ locked)

=============================================================================
