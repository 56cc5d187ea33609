-------------------------- MODULE GeneratorProcess --------------------------
(* The processes that the code generators of codegen.rs run: spawn, poll,    *)
(* watchdog, termination, and the guards that clean up when the future of a  *)
(* call is dropped.  A call runs its generator in one of three ways:         *)
(*   headless  run_generator_process: own process group, output captured;    *)
(*   inherit   run_generator_interactive_process (claude): on the terminal   *)
(*             of the program and in its process group;                      *)
(*   pty       run_opencode_interactive_pty: on a pseudo-terminal.           *)
(* Durations are left out: a timer may fire at any time while it runs.       *)
(* Signals to a group have no step of their own.  SIGTERM and SIGHUP change  *)
(* nothing but what the process may do anyway, exit; SIGKILL makes it        *)
(* "dying".  The calls themselves are in CodegenFlight.                      *)
EXTENDS Integers, FiniteSets

CONSTANT Calls

ASSUME CallsAssumption == IsFiniteSet(Calls)

VARIABLES
    mode,       \* how each call runs its generator, or "absent"; never changes
    at,         \* where each call stands
    outcome,    \* what its generator came to
    child,      \* the process it has started
    armed,      \* calls whose ChildCleanup or PtyChildCleanup holds the process
    tracked,    \* LIVE_CODEGEN_CHILDREN, by call
    cleanups,   \* CHILD_CLEANUP_GUARD_LIVE_COUNT
    ptys,       \* PTY_SESSION_GUARD_LIVE_COUNT
    watchdog,   \* the watchdog task of each call
    alarm,      \* calls for which an event waits in watchdog_events
    stop,       \* calls that have told their watchdog to stop
    io,         \* the tasks that copy to and from the pseudo-terminal
    stopIo,     \* calls that have set stop_io
    dropped,    \* the timeout that dropped the future of a call
    reaper,     \* calls whose process a reaper thread has to kill and wait for
    shutdown    \* what the shutdown channel holds

childVars == <<child, armed, tracked, cleanups, ptys>>
watchVars == <<watchdog, alarm, stop>>
ioVars == <<io, stopIo>>
dropVars == <<dropped, reaper>>
processVars == <<mode, at, outcome, childVars, watchVars, ioVars, dropVars, shutdown>>

Modes == {"headless", "inherit", "pty", "absent"}
Interactive(c) == mode[c] \in {"inherit", "pty"}

\* The positions of a call while the function that runs its process has not
\* returned.  At a position of Awaits its future may be dropped.
InProcess == {"setup", "await", "read", "poll", "term", "kill", "stop_io",
              "join_io", "stop_watchdog", "drop", "reap"}
Awaits == {"poll", "kill", "join_io", "stop_watchdog"}

\* Ways for a process to end, by what the caller makes of them: exit 0, exit
\* 127 or not started, any other exit, an error without a marker.
Outcomes == {"ok", "fatal", "retryable", "failed"}
ExitKinds == {"ok", "fatal", "retryable"}

GoTo(c, p) == at' = [at EXCEPT ![c] = p]
EndsAs(c, o) == outcome' = [outcome EXCEPT ![c] = o]
ChildIs(c, s) == child' = [child EXCEPT ![c] = s]

ProcessInit ==
    /\ at = [c \in Calls |-> "idle"]
    /\ outcome = [c \in Calls |-> "none"]
    /\ child = [c \in Calls |-> "none"]
    /\ armed = {} /\ tracked = {} /\ alarm = {} /\ stop = {} /\ stopIo = {}
    /\ reaper = {}
    /\ cleanups = 0 /\ ptys = 0
    /\ watchdog = [c \in Calls |-> "none"]
    /\ io = [c \in Calls |-> {}]
    /\ dropped = [c \in Calls |-> "no"]
    /\ shutdown = FALSE

-----------------------------------------------------------------------------
(* Starting a process *)

Started(c) ==
    /\ ChildIs(c, "running")
    /\ armed' = armed \cup {c}
    /\ tracked' = tracked \cup {c}

SpawnHeadless(c) ==
    /\ at[c] = "spawn" /\ mode[c] = "headless"
    /\ Started(c)
    /\ cleanups' = cleanups + 1
    /\ GoTo(c, "await")
    /\ UNCHANGED <<mode, outcome, ptys, watchVars, ioVars, dropVars, shutdown>>

\* startup_ready is sent before the task of the watchdog can have waited for
\* its startup timer, so that watchdog starts with the session timer.
SpawnInherit(c) ==
    /\ at[c] = "spawn" /\ mode[c] = "inherit"
    /\ Started(c)
    /\ cleanups' = cleanups + 1
    /\ watchdog' = [watchdog EXCEPT ![c] = "session"]
    /\ GoTo(c, "poll")
    /\ UNCHANGED <<mode, outcome, ptys, alarm, stop, ioVars, dropVars, shutdown>>

SpawnPty(c) ==
    /\ at[c] = "spawn" /\ mode[c] = "pty"
    /\ Started(c)
    /\ ptys' = ptys + 1
    /\ watchdog' = [watchdog EXCEPT ![c] = "startup"]
    /\ GoTo(c, "setup")
    /\ UNCHANGED <<mode, outcome, cleanups, alarm, stop, ioVars, dropVars, shutdown>>

\* No pseudo-terminal is to be had, or the program cannot be started.
SpawnFails(c) ==
    /\ at[c] = "spawn"
    /\ \E o \in CASE mode[c] = "headless" -> {"failed"}
                  [] mode[c] = "inherit" -> {"fatal"}
                  [] OTHER -> {"retryable", "fatal"} :
         EndsAs(c, o)
    /\ GoTo(c, "report")
    /\ UNCHANGED <<mode, childVars, watchVars, ioVars, dropVars, shutdown>>

\* The reader is cloned and its task started, then the writer; then the
\* watchdog is told that the session is ready, if it still waits for that.
ConnectPty(c) ==
    /\ at[c] = "setup"
    /\ io' = [io EXCEPT ![c] = {"output", "input"}]
    /\ watchdog' = [watchdog EXCEPT ![c] = IF @ = "startup" THEN "session" ELSE @]
    /\ GoTo(c, "poll")
    /\ UNCHANGED <<mode, outcome, childVars, alarm, stop, stopIo, dropVars, shutdown>>

\* Without a reader or a writer the function returns, dropping its guards.
ConnectPtyFails(c) ==
    /\ at[c] = "setup"
    /\ \/ EndsAs(c, "retryable") /\ UNCHANGED io
       \/ EndsAs(c, "failed") /\ io' = [io EXCEPT ![c] = {"output"}]
    /\ stop' = stop \cup {c}
    /\ GoTo(c, "drop")
    /\ UNCHANGED <<mode, childVars, watchdog, alarm, stopIo, dropVars, shutdown>>

-----------------------------------------------------------------------------
(* A process that ends by itself *)

Exit(c) ==
    /\ child[c] = "running"
    /\ ChildIs(c, "zombie")
    /\ UNCHANGED <<mode, at, outcome, armed, tracked, cleanups, ptys,
                   watchVars, ioVars, dropVars, shutdown>>

KernelKills(c) ==
    /\ child[c] = "dying"
    /\ ChildIs(c, "zombie")
    /\ UNCHANGED <<mode, at, outcome, armed, tracked, cleanups, ptys,
                   watchVars, ioVars, dropVars, shutdown>>

\* The process is waited for and disarmed.  By then its handle does not know
\* the pid any more, so ChildCleanup::disarm leaves it in the tracked pids.
Disarm(c) ==
    /\ child[c] = "zombie"
    /\ ChildIs(c, "reaped")
    /\ armed' = armed \ {c}
    /\ UNCHANGED <<tracked, cleanups, ptys>>

WaitReturns(c) ==
    /\ at[c] = "await"
    /\ Disarm(c)
    /\ GoTo(c, "read")
    /\ UNCHANGED <<mode, outcome, watchVars, ioVars, dropVars, shutdown>>

\* The wait fails if there is no such process any more.  kill_and_reap then
\* knows the pid and untracks it.
WaitFails(c) ==
    /\ at[c] = "await" /\ child[c] = "zombie"
    /\ ChildIs(c, "reaped")
    /\ armed' = armed \ {c} /\ tracked' = tracked \ {c}
    /\ cleanups' = cleanups - 1
    /\ EndsAs(c, "failed")
    /\ GoTo(c, "report")
    /\ UNCHANGED <<mode, ptys, watchVars, ioVars, dropVars, shutdown>>

\* The readers end when the pipes are closed; one that fails, or goes past its
\* size limit, fails the call without a marker.
ReadersFail(c) ==
    /\ at[c] = "read"
    /\ EndsAs(c, "failed")
    /\ cleanups' = cleanups - 1
    /\ GoTo(c, "report")
    /\ UNCHANGED <<mode, child, armed, tracked, ptys, watchVars, ioVars, dropVars, shutdown>>

\* The status of the process decides, and after exit 0 whether its output is
\* UTF-8 with a summary in it.
ReadOutput(c) ==
    /\ at[c] = "read"
    /\ \E o \in Outcomes : EndsAs(c, o)
    /\ cleanups' = cleanups - 1
    /\ GoTo(c, "report")
    /\ UNCHANGED <<mode, child, armed, tracked, ptys, watchVars, ioVars, dropVars, shutdown>>

PollExited(c) ==
    /\ at[c] = "poll" /\ mode[c] = "inherit"
    /\ Disarm(c)
    /\ \E o \in ExitKinds : EndsAs(c, o)
    /\ GoTo(c, "stop_watchdog")
    /\ UNCHANGED <<mode, watchVars, ioVars, dropVars, shutdown>>

\* try_wait fails if there is no such process any more; the function returns
\* and drops its guards.
PollFails(c) ==
    /\ at[c] = "poll" /\ mode[c] = "inherit" /\ child[c] = "zombie"
    /\ EndsAs(c, "retryable")
    /\ stop' = stop \cup {c}
    /\ GoTo(c, "drop")
    /\ UNCHANGED <<mode, childVars, watchdog, alarm, ioVars, dropVars, shutdown>>

\* As PollExited, or try_wait fails because the process is gone.
PtyPollExited(c) ==
    /\ at[c] = "poll" /\ mode[c] = "pty" /\ child[c] = "zombie"
    /\ ChildIs(c, "reaped")
    /\ \E o \in ExitKinds : EndsAs(c, o)
    /\ GoTo(c, "stop_io")
    /\ UNCHANGED <<mode, armed, tracked, cleanups, ptys, watchVars, ioVars, dropVars, shutdown>>

-----------------------------------------------------------------------------
(* The watchdog task *)

WatchdogStops(c) ==
    /\ c \in stop /\ watchdog[c] \in {"startup", "session", "hard"}
    /\ watchdog' = [watchdog EXCEPT ![c] = "ended"]
    /\ UNCHANGED <<mode, at, outcome, childVars, alarm, stop, ioVars, dropVars, shutdown>>

StartupTimer(c) ==
    /\ watchdog[c] = "startup"
    /\ watchdog' = [watchdog EXCEPT ![c] = "ended"]
    /\ alarm' = alarm \cup {c}
    /\ UNCHANGED <<mode, at, outcome, childVars, stop, ioVars, dropVars, shutdown>>

\* As SessionTimer, without telling the loop.
SessionTimerSilent(c) ==
    /\ watchdog[c] = "session"
    /\ watchdog' = [watchdog EXCEPT ![c] = "hard"]
    /\ UNCHANGED <<mode, at, outcome, childVars, alarm, stop, ioVars, dropVars, shutdown>>

SessionTimer(c) ==
    /\ watchdog[c] = "session"
    /\ watchdog' = [watchdog EXCEPT ![c] = "hard"]
    /\ alarm' = alarm \cup {c}
    /\ UNCHANGED <<mode, at, outcome, childVars, stop, ioVars, dropVars, shutdown>>

\* SIGKILL to the group whose leader the process is, or to no group at all.
\* A loop that has left poll is done before these 30 s are over, and a stop
\* is heard long before.
HardTimer(c) ==
    /\ watchdog[c] = "hard" /\ c \notin stop /\ at[c] \in {"poll", "done"}
    /\ watchdog' = [watchdog EXCEPT ![c] = "ended"]
    /\ IF mode[c] = "pty" /\ child[c] = "running"
       THEN ChildIs(c, "dying") ELSE UNCHANGED child
    /\ UNCHANGED <<mode, at, outcome, armed, tracked, cleanups, ptys, alarm,
                   stop, ioVars, dropVars, shutdown>>

-----------------------------------------------------------------------------
(* Termination by the loop.  Of the events of the watchdog the loop sees the *)
(* first only, so all of them lead to the same termination.                  *)

Terminate(c) ==
    /\ EndsAs(c, "retryable")
    /\ GoTo(c, "term")
    /\ UNCHANGED <<mode, childVars, watchVars, ioVars, dropVars, shutdown>>

HearShutdown(c) ==
    /\ at[c] = "poll" /\ shutdown
    /\ Terminate(c)

HearWatchdog(c) ==
    /\ at[c] = "poll" /\ (c \in alarm \/ watchdog[c] = "ended")
    /\ Terminate(c)

\* The loop of the pseudo-terminal also looks at a deadline of its own.
PtyDeadline(c) ==
    /\ at[c] = "poll" /\ mode[c] = "pty"
    /\ Terminate(c)

\* terminate_with_escalation lets go of the process at its end.
LetGo(c) ==
    /\ armed' = armed \ {c}
    /\ tracked' = tracked \ {c}
    /\ GoTo(c, "stop_watchdog")
    /\ UNCHANGED <<mode, outcome, cleanups, ptys, watchVars, ioVars, dropVars, shutdown>>

ExitsInTime(c) ==
    /\ at[c] = "term" /\ mode[c] = "inherit" /\ child[c] = "zombie"
    /\ ChildIs(c, "reaped")
    /\ LetGo(c)

\* As Escalate, with the signals to the process group only.
EscalateToGroup(c) ==
    /\ at[c] = "term" /\ mode[c] = "inherit"
    /\ GoTo(c, "kill")
    /\ UNCHANGED <<mode, outcome, childVars, watchVars, ioVars, dropVars, shutdown>>

Escalate(c) ==
    /\ at[c] = "term" /\ mode[c] = "inherit"
    /\ ChildIs(c, IF child[c] = "running" THEN "dying" ELSE child[c])
    /\ GoTo(c, "kill")
    /\ UNCHANGED <<mode, outcome, armed, tracked, cleanups, ptys, watchVars,
                   ioVars, dropVars, shutdown>>

\* The wait for a killed process may end without it: it has a limit.
AfterKill(c) ==
    /\ at[c] = "kill" /\ mode[c] = "inherit"
    /\ ChildIs(c, IF child[c] = "zombie" THEN "reaped" ELSE child[c])
    /\ LetGo(c)

\* Child::kill of the pseudo-terminal library: SIGHUP, a grace period in which
\* it tries to wait for the process, and SIGKILL.
PtyTerminate(c) ==
    /\ at[c] = "term" /\ mode[c] = "pty"
    /\ ChildIs(c, CASE child[c] = "running" -> "dying"
                    [] child[c] = "zombie" -> "reaped"
                    [] OTHER -> child[c])
    /\ GoTo(c, "kill")
    /\ UNCHANGED <<mode, outcome, armed, tracked, cleanups, ptys, watchVars,
                   ioVars, dropVars, shutdown>>

PtyAfterKill(c) ==
    /\ at[c] = "kill" /\ mode[c] = "pty"
    /\ ChildIs(c, IF child[c] = "zombie" THEN "reaped" ELSE child[c])
    /\ GoTo(c, "stop_io")
    /\ UNCHANGED <<mode, outcome, armed, tracked, cleanups, ptys, watchVars,
                   ioVars, dropVars, shutdown>>

-----------------------------------------------------------------------------
(* The end of a session *)

StopIo(c) ==
    /\ at[c] = "stop_io"
    /\ stopIo' = stopIo \cup {c}
    /\ tracked' = tracked \ {c}
    /\ GoTo(c, "join_io")
    /\ UNCHANGED <<mode, outcome, child, armed, cleanups, ptys, watchVars, io, dropVars, shutdown>>

\* The tasks look at stop_io between two reads; both fail once the process and
\* with it the other side of the pseudo-terminal is gone.
IoTaskEnds(c) ==
    /\ c \in stopIo \/ child[c] \in {"zombie", "reaped"}
    /\ \E t \in io[c] : io' = [io EXCEPT ![c] = @ \ {t}]
    /\ UNCHANGED <<mode, at, outcome, childVars, watchVars, stopIo, dropVars, shutdown>>

\* Each task is waited for with a limit and aborted after it, which has no
\* effect on the output task: it blocks a thread in its read.
JoinIo(c) ==
    /\ at[c] = "join_io"
    /\ io' = [io EXCEPT ![c] = @ \ {"input"}]
    /\ GoTo(c, "stop_watchdog")
    /\ UNCHANGED <<mode, outcome, childVars, watchVars, stopIo, dropVars, shutdown>>

\* The guards that the function declared go when it returns.
GuardsGo(c) ==
    /\ cleanups' = IF mode[c] = "pty" THEN cleanups ELSE cleanups - 1
    /\ ptys' = IF mode[c] = "pty" THEN ptys - 1 ELSE ptys

StopWatchdog(c) ==
    /\ at[c] = "stop_watchdog"
    /\ stop' = stop \cup {c}
    /\ armed' = armed \ {c}
    /\ GuardsGo(c)
    /\ GoTo(c, "report")
    /\ UNCHANGED <<mode, outcome, child, tracked, watchdog, alarm, ioVars, dropVars, shutdown>>

-----------------------------------------------------------------------------
(* A future that is dropped by a timeout around it: the global one of an     *)
(* opencode session, whose error is reported as that of the run, or the      *)
(* outer one of any session, with which the call returns at once.            *)

Drop(c, by) ==
    /\ at[c] \in Awaits \/ (at[c] = "term" /\ mode[c] = "inherit")
    /\ dropped' = [dropped EXCEPT ![c] = by]
    /\ EndsAs(c, "retryable")
    /\ stop' = stop \cup {c}
    /\ GoTo(c, "drop")
    /\ UNCHANGED <<mode, childVars, watchdog, alarm, ioVars, reaper, shutdown>>

GlobalTimeout(c) == mode[c] = "pty" /\ Drop(c, "global")
OuterTimeout(c) == Interactive(c) /\ Drop(c, "outer")

\* The guard gives the process up: as the last thing, or before the killing.
Release(c) ==
    /\ armed' = armed \ {c}
    /\ tracked' = tracked \ {c}

\* ChildCleanup::drop and PtyChildCleanup::drop.  The process has exited, or
\* the wait for it fails; a ChildCleanup then untracks it and leaves it to a
\* reaper thread, a PtyChildCleanup sends it SIGKILL.
DropGuard(c) ==
    /\ at[c] = "drop"
    /\ \/ c \notin armed /\ UNCHANGED <<childVars, reaper>>
       \/ /\ c \in armed /\ child[c] \in {"zombie", "reaped"}
          /\ ChildIs(c, "reaped")
          /\ Release(c)
          /\ UNCHANGED <<cleanups, ptys, reaper>>
       \/ /\ c \in armed /\ mode[c] # "pty"
          /\ Release(c)
          /\ reaper' = reaper \cup {c}
          /\ UNCHANGED <<child, cleanups, ptys>>
       \/ /\ c \in armed /\ mode[c] = "pty"
          /\ ChildIs(c, IF child[c] = "running" THEN "dying" ELSE child[c])
          /\ UNCHANGED <<armed, tracked, cleanups, ptys, reaper>>
    /\ GoTo(c, "reap")
    /\ UNCHANGED <<mode, outcome, watchVars, ioVars, dropped, shutdown>>

\* The thread runs beside the call.  If it cannot be started, the handle of
\* the process is dropped instead, which kills it too (kill_on_drop).
ReaperKills(c) ==
    /\ c \in reaper /\ child[c] = "running"
    /\ ChildIs(c, "dying")
    /\ UNCHANGED <<mode, at, outcome, armed, tracked, cleanups, ptys,
                   watchVars, ioVars, dropVars, shutdown>>

\* Its wait has a limit.
ReaperEnds(c) ==
    /\ c \in reaper /\ child[c] # "running"
    /\ ChildIs(c, IF child[c] = "zombie" THEN "reaped" ELSE child[c])
    /\ reaper' = reaper \ {c}
    /\ UNCHANGED <<mode, at, outcome, armed, tracked, cleanups, ptys,
                   watchVars, ioVars, dropped, shutdown>>

\* The drop waits for the reaper, or that of a PtyChildCleanup for the process,
\* each with a limit.
ReapDropped(c) ==
    /\ at[c] = "reap"
    /\ ChildIs(c, IF c \in armed /\ child[c] = "zombie" THEN "reaped" ELSE child[c])
    /\ IF c \in armed THEN Release(c) ELSE UNCHANGED <<armed, tracked>>
    /\ GuardsGo(c)
    /\ GoTo(c, IF dropped[c] = "outer" THEN "done" ELSE "report")
    /\ UNCHANGED <<mode, outcome, watchVars, ioVars, dropVars, shutdown>>

-----------------------------------------------------------------------------

\* A headless call never looks at the channel.
SendShutdown ==
    /\ ~shutdown /\ \E c \in Calls : Interactive(c)
    /\ shutdown' = TRUE
    /\ UNCHANGED <<mode, at, outcome, childVars, watchVars, ioVars, dropVars>>

\* The steps of the call itself, those of its watchdog and of its reaper, and
\* what happens to it.
ProcessStep(c) ==
    \/ SpawnHeadless(c) \/ SpawnInherit(c) \/ SpawnPty(c) \/ SpawnFails(c)
    \/ ConnectPty(c) \/ ConnectPtyFails(c)
    \/ WaitReturns(c) \/ WaitFails(c) \/ ReadersFail(c) \/ ReadOutput(c)
    \/ PollExited(c) \/ PollFails(c) \/ PtyPollExited(c)
    \/ HearShutdown(c) \/ HearWatchdog(c)
    \/ ExitsInTime(c) \/ Escalate(c) \/ AfterKill(c)
    \/ PtyTerminate(c) \/ PtyAfterKill(c)
    \/ StopIo(c) \/ JoinIo(c) \/ StopWatchdog(c)
    \/ DropGuard(c) \/ ReapDropped(c)
WatchdogStep(c) == WatchdogStops(c) \/ SessionTimer(c)
ReaperStep(c) == ReaperKills(c) \/ ReaperEnds(c)
OutsideStep(c) ==
    \/ Exit(c) \/ KernelKills(c) \/ IoTaskEnds(c)
    \/ StartupTimer(c) \/ HardTimer(c) \/ PtyDeadline(c)
    \/ GlobalTimeout(c) \/ OuterTimeout(c)

ProcessNext ==
    \/ \E c \in Calls : ProcessStep(c) \/ WatchdogStep(c) \/ ReaperStep(c) \/ OutsideStep(c)
    \/ SendShutdown
=============================================================================
