---------------------------- MODULE CodegenProofs ----------------------------
(* The safety of the generator calls and their processes, for any number of  *)
(* calls, any budget and any number of permits.                              *)
(*                                                                           *)
(* The properties of CodegenFlight count guards and look at processes.  What *)
(* makes them inductive is where a call of each mode can stand (Positions),  *)
(* where a process can still be running (Guarded), and that a leader's entry *)
(* is its own until something was removed by force (EntryIsLeaders).         *)
EXTENDS CodegenFlight, FiniteSetTheorems, TLAPS

\* Where a call can stand that runs its generator in mode m.
Possible(m, p) ==
    /\ p \in {"look", "wait", "locked", "cache", "pay", "bulkhead", "send",
              "leave", "await", "read"} => m = "headless"
    /\ p \in {"setup", "stop_io", "join_io"} => m = "pty"
    /\ p \in {"poll", "term", "kill", "stop_watchdog", "drop", "reap"} =>
         m \in {"inherit", "pty"}
    /\ m = "absent" => p = "idle"

Positions == \A c \in Calls : Possible(mode[c], at[c])

\* A process that runs is a reaper's, or guarded by a call that has not begun to
\* clean up.
Guarded ==
    \A c \in Calls : child[c] = "running" =>
      \/ c \in reaper
      \/ /\ c \in tracked /\ c \in armed
         /\ at[c] \in {"setup", "await", "poll", "term", "drop"}

\* A waiter waits for a call.
Followed == \A c \in Calls : at[c] = "wait" => follows[c] \in Calls

\* Outcomes are reported at the end of a run.
Unreported ==
    \A c \in Calls : at[c] \notin {"send", "leave", "done"} => reports[c] = "none"

EntryIsLeaders == ~forced => \A c \in Leaders : entry = c

\* The headless calls that have a permit of the bulkhead, and those that have
\* spent their units.
Inside == {c \in Calls : mode[c] = "headless" /\ at[c] \in {"spawn", "report"} \cup InProcess}
Spent == {c \in Calls : mode[c] = "headless" /\ reports[c] # "none"}

PermitsBalanced == free + Cardinality(Inside) = Permits

SafetyInv ==
    /\ Positions /\ Guarded /\ Followed /\ Unreported /\ EntryIsLeaders
    /\ PermitsBalanced /\ GuardsAccounted

IInv == TypeOK /\ SafetyInv

-----------------------------------------------------------------------------
(* Counting *)

\* The sets that the four counters count.
Cleaners == {c \in Calls : mode[c] # "pty" /\ at[c] \in InProcess}
Sessions == {c \in Calls : mode[c] = "pty" /\ at[c] \in InProcess}

LEMMA Counting ==
    ASSUME NEW S \in SUBSET Calls, NEW c \in Calls
    PROVE  /\ Cardinality(S) \in Nat
           /\ c \notin S => Cardinality(S \cup {c}) = Cardinality(S) + 1
           /\ c \in S => Cardinality(S \ {c}) = Cardinality(S) - 1
<1>1. IsFiniteSet(S)
  BY FS_Subset, CallsAssumption
<1>2. Cardinality(S) \in Nat
  BY <1>1, FS_CardinalityType
<1>3. c \notin S => Cardinality(S \cup {c}) = Cardinality(S) + 1
  BY <1>1, FS_AddElement
<1>4. c \in S => Cardinality(S \ {c}) = Cardinality(S) - 1
  BY <1>1, FS_RemoveElement
<1>. QED  BY <1>2, <1>3, <1>4

LEMMA Sizes ==
    /\ Cleaners \in SUBSET Calls /\ Sessions \in SUBSET Calls
    /\ Leaders \in SUBSET Calls /\ Payers \in SUBSET Calls
    /\ Inside \in SUBSET Calls /\ Spent \in SUBSET Calls
    /\ Cardinality(Cleaners) \in Nat /\ Cardinality(Sessions) \in Nat
    /\ Cardinality(Leaders) \in Nat /\ Cardinality(Payers) \in Nat
    /\ Cardinality(Inside) \in Nat /\ Cardinality(Spent) \in Nat
<1>1. /\ Cleaners \in SUBSET Calls /\ Sessions \in SUBSET Calls
      /\ Leaders \in SUBSET Calls /\ Payers \in SUBSET Calls
      /\ Inside \in SUBSET Calls /\ Spent \in SUBSET Calls
  BY DEF Cleaners, Sessions, Leaders, Payers, Inside, Spent
<1>2. \A S \in SUBSET Calls : Cardinality(S) \in Nat
  <2>1. ASSUME NEW S \in SUBSET Calls PROVE Cardinality(S) \in Nat
    BY FS_Subset, FS_CardinalityType, CallsAssumption
  <2>. QED  BY <2>1
<1>. QED  BY <1>1, <1>2

\* The counters and the budget in terms of these sets.
Balance ==
    /\ cleanups = Cardinality(Cleaners) /\ ptys = Cardinality(Sessions)
    /\ flights = Cardinality(Leaders) /\ budgets = Cardinality(Payers)
    /\ limit # 0 => limit = remaining + Units * Cardinality(Payers)
                            + Units * Cardinality(Spent)
    /\ free + Cardinality(Inside) = Permits

LEMMA BalanceMeans == Balance <=> GuardsAccounted /\ PermitsBalanced
BY DEF Balance, GuardsAccounted, LiveCountsExact, PermitsBalanced, Cleaners,
   Sessions, Spent

\* The parts of the type invariant as the proofs use them.
ProcessTypes ==
    /\ mode \in [Calls -> Modes] /\ at \in [Calls -> CallPositions]
    /\ outcome \in [Calls -> Outcomes \cup {"none"}]
    /\ child \in [Calls -> {"none", "running", "dying", "zombie", "reaped"}]
    /\ watchdog \in [Calls -> {"none", "startup", "session", "hard", "ended"}]
    /\ armed \subseteq Calls /\ tracked \subseteq Calls /\ alarm \subseteq Calls
    /\ stop \subseteq Calls /\ stopIo \subseteq Calls /\ reaper \subseteq Calls
    /\ io \in [Calls -> SUBSET {"output", "input"}]
    /\ dropped \in [Calls -> {"no", "global", "outer"}]

FlightTypes ==
    /\ entry \in Calls \cup {NoCall} /\ follows \in [Calls -> Calls \cup {NoCall}]
    /\ heard \in [Calls -> {"none", "ok", "failed"}]
    /\ reports \in [Calls -> {"none", "success", "failure", "two failures"}]
    /\ limit \in Limits /\ limit \in Nat

CounterTypes ==
    /\ cleanups \in Nat /\ ptys \in Nat /\ flights \in Nat /\ budgets \in Nat
    /\ remaining \in Nat /\ free \in Nat /\ free <= Permits

FlagTypes ==
    /\ shutdown \in BOOLEAN /\ stale \in BOOLEAN
    /\ locked \in BOOLEAN /\ forced \in BOOLEAN

LEMMA TypeParts ==
    TypeOK <=> ProcessTypes /\ FlightTypes /\ CounterTypes /\ FlagTypes
<1>1. {shutdown, stale, locked, forced} \subseteq BOOLEAN <=> FlagTypes
  BY Zenon DEF FlagTypes
<1>2. {cleanups, ptys, flights, budgets, remaining, free} \subseteq Nat /\ free <= Permits
        <=> CounterTypes
  BY DEF CounterTypes
<1>3. (\A S \in {armed, tracked, alarm, stop, stopIo, reaper} : S \subseteq Calls)
        <=> /\ armed \subseteq Calls /\ tracked \subseteq Calls /\ alarm \subseteq Calls
            /\ stop \subseteq Calls /\ stopIo \subseteq Calls /\ reaper \subseteq Calls
  BY Zenon
<1>4. limit \in Limits => limit \in Nat
  BY FlightAssumption
<1>. QED  BY <1>1, <1>2, <1>3, <1>4, Zenon DEF TypeOK, ProcessTypes, FlightTypes

LEMMA InitEstablishes == Init => IInv
<1>. SUFFICES ASSUME Init PROVE IInv
  OBVIOUS
<1>1. FlagTypes
  BY Zenon DEF Init, ProcessInit, FlagTypes
<1>2. ProcessTypes
  BY FlightAssumption DEF Init, ProcessInit, ProcessTypes, CallPositions
<1>3. FlightTypes
  BY FlightAssumption DEF Init, FlightTypes
<1>4. CounterTypes
  BY FlightAssumption DEF Init, ProcessInit, CounterTypes
<1>5. Positions /\ Guarded /\ Followed /\ Unreported
  BY DEF Init, ProcessInit, Positions, Possible, Guarded, Followed, Unreported
<1>6. /\ Cleaners = {} /\ Sessions = {} /\ Leaders = {} /\ Payers = {}
      /\ Inside = {} /\ Spent = {}
  BY DEF Init, ProcessInit, Cleaners, Sessions, Leaders, Payers, Inside, Spent,
     InProcess
<1>7. EntryIsLeaders
  BY <1>6 DEF EntryIsLeaders
<1>8. Balance
  BY <1>3, <1>6, FS_EmptySet, FlightAssumption DEF Balance, Init, ProcessInit, FlightTypes
<1>. QED
  BY <1>1, <1>2, <1>3, <1>4, <1>5, <1>7, <1>8, TypeParts, BalanceMeans, Zenon
     DEF IInv, SafetyInv

-----------------------------------------------------------------------------
(* Steps of a process *)

\* What a step of a process does to its call and to the counters of guards: it
\* stays, or it moves within the process, into it, past it, or out of it.
Stays == at' = at /\ cleanups' = cleanups /\ ptys' = ptys

Moves(c, p) == at' = [at EXCEPT ![c] = p] /\ Possible(mode[c], p)

Within(c) ==
    /\ at[c] \in InProcess /\ \E p \in InProcess : Moves(c, p)
    /\ cleanups' = cleanups /\ ptys' = ptys

Into(c) ==
    /\ at[c] = "spawn" /\ \E p \in InProcess : Moves(c, p)
    /\ cleanups' = IF mode[c] = "pty" THEN cleanups ELSE cleanups + 1
    /\ ptys' = IF mode[c] = "pty" THEN ptys + 1 ELSE ptys

Past(c) ==
    /\ at[c] = "spawn" /\ Moves(c, "report")
    /\ cleanups' = cleanups /\ ptys' = ptys

OutOf(c) ==
    /\ at[c] \in InProcess
    /\ \E p \in {"report", "done"} : Moves(c, p) /\ (p = "done" => Interactive(c))
    /\ cleanups' = IF mode[c] = "pty" THEN cleanups ELSE cleanups - 1
    /\ ptys' = IF mode[c] = "pty" THEN ptys - 1 ELSE ptys

AnyProcessStep(c) == ProcessStep(c) \/ WatchdogStep(c) \/ ReaperStep(c) \/ OutsideStep(c)

LEMMA ProcessStepKinds ==
    ASSUME ProcessTypes, Positions, NEW c \in Calls, AnyProcessStep(c)
    PROVE  /\ mode' = mode /\ shutdown' = shutdown
           /\ Stays \/ Within(c) \/ Into(c) \/ Past(c) \/ OutOf(c)
<1>0. Possible(mode[c], at[c])
  BY DEF Positions
<1>. USE <1>0 DEF Moves, Possible, InProcess, GoTo, childVars
<1>1. CASE SpawnHeadless(c)
  <2>1. mode' = mode /\ shutdown' = shutdown
    BY <1>1 DEF SpawnHeadless, Started
  <2>2. Into(c)
    BY <1>1 DEF SpawnHeadless, Started, Into
  <2>. QED  BY <2>1, <2>2
<1>2. CASE SpawnInherit(c)
  <2>1. mode' = mode /\ shutdown' = shutdown
    BY <1>2 DEF SpawnInherit, Started
  <2>2. Into(c)
    BY <1>2 DEF SpawnInherit, Started, Into
  <2>. QED  BY <2>1, <2>2
<1>3. CASE SpawnPty(c)
  <2>1. mode' = mode /\ shutdown' = shutdown
    BY <1>3 DEF SpawnPty, Started
  <2>2. Into(c)
    BY <1>3 DEF SpawnPty, Started, Into
  <2>. QED  BY <2>1, <2>2
<1>4. CASE SpawnFails(c)
  <2>1. mode' = mode /\ shutdown' = shutdown
    BY <1>4 DEF SpawnFails
  <2>2. Past(c)
    BY <1>4 DEF SpawnFails, Past
  <2>. QED  BY <2>1, <2>2
<1>5. CASE ConnectPty(c)
  <2>1. mode' = mode /\ shutdown' = shutdown
    BY <1>5 DEF ConnectPty
  <2>2. Within(c)
    BY <1>5 DEF ConnectPty, Within
  <2>. QED  BY <2>1, <2>2
<1>6. CASE ConnectPtyFails(c)
  <2>1. mode' = mode /\ shutdown' = shutdown
    BY <1>6 DEF ConnectPtyFails
  <2>2. Within(c)
    BY <1>6 DEF ConnectPtyFails, Within
  <2>. QED  BY <2>1, <2>2
<1>7. CASE WaitReturns(c)
  <2>1. mode' = mode /\ shutdown' = shutdown
    BY <1>7 DEF WaitReturns, Disarm
  <2>2. Within(c)
    BY <1>7 DEF WaitReturns, Disarm, Within
  <2>. QED  BY <2>1, <2>2
<1>8. CASE WaitFails(c)
  <2>1. mode' = mode /\ shutdown' = shutdown
    BY <1>8 DEF WaitFails
  <2>2. OutOf(c)
    BY <1>8 DEF WaitFails, OutOf, Interactive
  <2>. QED  BY <2>1, <2>2
<1>9. CASE ReadersFail(c)
  <2>1. mode' = mode /\ shutdown' = shutdown
    BY <1>9 DEF ReadersFail
  <2>2. OutOf(c)
    BY <1>9 DEF ReadersFail, OutOf, Interactive
  <2>. QED  BY <2>1, <2>2
<1>10. CASE ReadOutput(c)
  <2>1. mode' = mode /\ shutdown' = shutdown
    BY <1>10 DEF ReadOutput
  <2>2. OutOf(c)
    BY <1>10 DEF ReadOutput, OutOf, Interactive
  <2>. QED  BY <2>1, <2>2
<1>11. CASE PollExited(c)
  <2>1. mode' = mode /\ shutdown' = shutdown
    BY <1>11 DEF PollExited, Disarm
  <2>2. Within(c)
    BY <1>11 DEF PollExited, Disarm, Within
  <2>. QED  BY <2>1, <2>2
<1>12. CASE PollFails(c)
  <2>1. mode' = mode /\ shutdown' = shutdown
    BY <1>12 DEF PollFails
  <2>2. Within(c)
    BY <1>12 DEF PollFails, Within
  <2>. QED  BY <2>1, <2>2
<1>13. CASE PtyPollExited(c)
  <2>1. mode' = mode /\ shutdown' = shutdown
    BY <1>13 DEF PtyPollExited
  <2>2. Within(c)
    BY <1>13 DEF PtyPollExited, Within
  <2>. QED  BY <2>1, <2>2
<1>14. CASE HearShutdown(c)
  <2>1. mode' = mode /\ shutdown' = shutdown
    BY <1>14 DEF HearShutdown, Terminate
  <2>2. Within(c)
    BY <1>14 DEF HearShutdown, Terminate, Within
  <2>. QED  BY <2>1, <2>2
<1>15. CASE HearWatchdog(c)
  <2>1. mode' = mode /\ shutdown' = shutdown
    BY <1>15 DEF HearWatchdog, Terminate
  <2>2. Within(c)
    BY <1>15 DEF HearWatchdog, Terminate, Within
  <2>. QED  BY <2>1, <2>2
<1>16. CASE ExitsInTime(c)
  <2>1. mode' = mode /\ shutdown' = shutdown
    BY <1>16 DEF ExitsInTime, LetGo
  <2>2. Within(c)
    BY <1>16 DEF ExitsInTime, LetGo, Within
  <2>. QED  BY <2>1, <2>2
<1>17. CASE Escalate(c)
  <2>1. mode' = mode /\ shutdown' = shutdown
    BY <1>17 DEF Escalate
  <2>2. Within(c)
    BY <1>17 DEF Escalate, Within
  <2>. QED  BY <2>1, <2>2
<1>18. CASE AfterKill(c)
  <2>1. mode' = mode /\ shutdown' = shutdown
    BY <1>18 DEF AfterKill, LetGo
  <2>2. Within(c)
    BY <1>18 DEF AfterKill, LetGo, Within
  <2>. QED  BY <2>1, <2>2
<1>19. CASE PtyTerminate(c)
  <2>1. mode' = mode /\ shutdown' = shutdown
    BY <1>19 DEF PtyTerminate
  <2>2. Within(c)
    BY <1>19 DEF PtyTerminate, Within
  <2>. QED  BY <2>1, <2>2
<1>20. CASE PtyAfterKill(c)
  <2>1. mode' = mode /\ shutdown' = shutdown
    BY <1>20 DEF PtyAfterKill
  <2>2. Within(c)
    BY <1>20 DEF PtyAfterKill, Within
  <2>. QED  BY <2>1, <2>2
<1>21. CASE StopIo(c)
  <2>1. mode' = mode /\ shutdown' = shutdown
    BY <1>21 DEF StopIo
  <2>2. Within(c)
    BY <1>21 DEF StopIo, Within
  <2>. QED  BY <2>1, <2>2
<1>22. CASE JoinIo(c)
  <2>1. mode' = mode /\ shutdown' = shutdown
    BY <1>22 DEF JoinIo
  <2>2. Within(c)
    BY <1>22 DEF JoinIo, Within
  <2>. QED  BY <2>1, <2>2
<1>23. CASE StopWatchdog(c)
  <2>1. mode' = mode /\ shutdown' = shutdown
    BY <1>23 DEF StopWatchdog, GuardsGo
  <2>2. OutOf(c)
    BY <1>23 DEF StopWatchdog, GuardsGo, OutOf, Interactive
  <2>. QED  BY <2>1, <2>2
<1>24. CASE DropGuard(c)
  <2>1. mode' = mode /\ shutdown' = shutdown
    BY <1>24 DEF DropGuard, Release
  <2>2. Within(c)
    BY <1>24 DEF DropGuard, Release, Within
  <2>. QED  BY <2>1, <2>2
<1>25. CASE ReapDropped(c)
  <2>1. mode' = mode /\ shutdown' = shutdown
    BY <1>25 DEF ReapDropped, Release, GuardsGo
  <2>2. OutOf(c)
    BY <1>25 DEF ReapDropped, Release, GuardsGo, OutOf, Interactive, Awaits
  <2>. QED  BY <2>1, <2>2
<1>26. CASE PtyDeadline(c)
  <2>1. mode' = mode /\ shutdown' = shutdown
    BY <1>26 DEF PtyDeadline, Terminate
  <2>2. Within(c)
    BY <1>26 DEF PtyDeadline, Terminate, Within
  <2>. QED  BY <2>1, <2>2
<1>27. CASE GlobalTimeout(c)
  <2>1. mode' = mode /\ shutdown' = shutdown
    BY <1>27 DEF GlobalTimeout, Drop
  <2>2. Within(c)
    BY <1>27 DEF GlobalTimeout, Drop, Within, Interactive, Awaits
  <2>. QED  BY <2>1, <2>2
<1>28. CASE OuterTimeout(c)
  <2>1. mode' = mode /\ shutdown' = shutdown
    BY <1>28 DEF OuterTimeout, Drop
  <2>2. Within(c)
    BY <1>28 DEF OuterTimeout, Drop, Within, Interactive, Awaits
  <2>. QED  BY <2>1, <2>2
<1>29. CASE \/ WatchdogStops(c) \/ SessionTimer(c) \/ ReaperKills(c) \/ ReaperEnds(c)
            \/ Exit(c) \/ KernelKills(c) \/ IoTaskEnds(c) \/ StartupTimer(c) \/ HardTimer(c)
  BY <1>29 DEF WatchdogStops, SessionTimer, ReaperKills, ReaperEnds, Exit, KernelKills,
               IoTaskEnds, StartupTimer, HardTimer, Stays
<1>. QED  BY <1>1, <1>2, <1>3, <1>4, <1>5, <1>6, <1>7, <1>8, <1>9, <1>10,
             <1>11, <1>12, <1>13, <1>14, <1>15, <1>16, <1>17, <1>18, <1>19,
             <1>20, <1>21, <1>22, <1>23, <1>24, <1>25, <1>26, <1>27, <1>28,
             <1>29 DEF AnyProcessStep, ProcessStep, WatchdogStep, ReaperStep, OutsideStep

LEMMA ProcessTypesKept ==
    ASSUME ProcessTypes, NEW c \in Calls, AnyProcessStep(c)
    PROVE  ProcessTypes'
<1>. USE DEF ProcessTypes, GoTo, EndsAs, ChildIs, childVars, watchVars, ioVars, dropVars,
         Outcomes, ExitKinds, CallPositions, InProcess
<1>1. CASE SpawnHeadless(c)
  BY <1>1 DEF SpawnHeadless, Started
<1>2. CASE SpawnInherit(c)
  BY <1>2 DEF SpawnInherit, Started
<1>3. CASE SpawnPty(c)
  BY <1>3 DEF SpawnPty, Started
<1>4. CASE SpawnFails(c)
  BY <1>4 DEF SpawnFails
<1>5. CASE ConnectPty(c)
  BY <1>5 DEF ConnectPty
<1>6. CASE ConnectPtyFails(c)
  BY <1>6 DEF ConnectPtyFails
<1>7. CASE WaitReturns(c)
  BY <1>7 DEF WaitReturns, Disarm
<1>8. CASE WaitFails(c)
  BY <1>8 DEF WaitFails
<1>9. CASE ReadersFail(c)
  BY <1>9 DEF ReadersFail
<1>10. CASE ReadOutput(c)
  BY <1>10 DEF ReadOutput
<1>11. CASE PollExited(c)
  BY <1>11 DEF PollExited, Disarm
<1>12. CASE PollFails(c)
  BY <1>12 DEF PollFails
<1>13. CASE PtyPollExited(c)
  BY <1>13 DEF PtyPollExited
<1>14. CASE HearShutdown(c)
  BY <1>14 DEF HearShutdown, Terminate
<1>15. CASE HearWatchdog(c)
  BY <1>15 DEF HearWatchdog, Terminate
<1>16. CASE ExitsInTime(c)
  BY <1>16 DEF ExitsInTime, LetGo
<1>17. CASE Escalate(c)
  BY <1>17 DEF Escalate
<1>18. CASE AfterKill(c)
  BY <1>18 DEF AfterKill, LetGo
<1>19. CASE PtyTerminate(c)
  BY <1>19 DEF PtyTerminate
<1>20. CASE PtyAfterKill(c)
  BY <1>20 DEF PtyAfterKill
<1>21. CASE StopIo(c)
  BY <1>21 DEF StopIo
<1>22. CASE JoinIo(c)
  BY <1>22 DEF JoinIo
<1>23. CASE StopWatchdog(c)
  BY <1>23 DEF StopWatchdog, GuardsGo
<1>24. CASE DropGuard(c)
  BY <1>24 DEF DropGuard, Release
<1>25. CASE ReapDropped(c)
  BY <1>25 DEF ReapDropped, Release, GuardsGo
<1>26. CASE PtyDeadline(c)
  BY <1>26 DEF PtyDeadline, Terminate
<1>27. CASE GlobalTimeout(c)
  BY <1>27 DEF GlobalTimeout, Drop
<1>28. CASE OuterTimeout(c)
  BY <1>28 DEF OuterTimeout, Drop
<1>29. CASE WatchdogStops(c)
  BY <1>29 DEF WatchdogStops
<1>30. CASE SessionTimer(c)
  BY <1>30 DEF SessionTimer
<1>31. CASE Exit(c)
  BY <1>31 DEF Exit
<1>32. CASE KernelKills(c)
  BY <1>32 DEF KernelKills
<1>33. CASE IoTaskEnds(c)
  BY <1>33 DEF IoTaskEnds
<1>34. CASE StartupTimer(c)
  BY <1>34 DEF StartupTimer
<1>35. CASE HardTimer(c)
  BY <1>35 DEF HardTimer
<1>36. CASE ReaperKills(c)
  BY <1>36 DEF ReaperKills
<1>37. CASE ReaperEnds(c)
  BY <1>37 DEF ReaperEnds
<1>. QED  BY <1>1, <1>2, <1>3, <1>4, <1>5, <1>6, <1>7, <1>8, <1>9, <1>10,
             <1>11, <1>12, <1>13, <1>14, <1>15, <1>16, <1>17, <1>18, <1>19,
             <1>20, <1>21, <1>22, <1>23, <1>24, <1>25, <1>26, <1>27, <1>28,
             <1>29, <1>30, <1>31, <1>32, <1>33, <1>34, <1>35,
             <1>36, <1>37 DEF AnyProcessStep, ProcessStep, WatchdogStep, ReaperStep, OutsideStep

\* A process that runs stays guarded until its call kills it or lets go of it
\* after its end.
LEMMA GuardedKept ==
    ASSUME ProcessTypes, Positions, Guarded, NEW c \in Calls, AnyProcessStep(c)
    PROVE  Guarded'
<1>0. Possible(mode[c], at[c])
  BY DEF Positions
<1>. USE <1>0 DEF ProcessTypes, Guarded, GoTo, ChildIs, childVars, dropVars, Possible
<1>1. CASE SpawnHeadless(c)
  BY <1>1 DEF SpawnHeadless, Started
<1>2. CASE SpawnInherit(c)
  BY <1>2 DEF SpawnInherit, Started
<1>3. CASE SpawnPty(c)
  BY <1>3 DEF SpawnPty, Started
<1>4. CASE SpawnFails(c)
  BY <1>4 DEF SpawnFails
<1>5. CASE ConnectPty(c)
  BY <1>5 DEF ConnectPty
<1>6. CASE ConnectPtyFails(c)
  BY <1>6 DEF ConnectPtyFails
<1>7. CASE WaitReturns(c)
  BY <1>7 DEF WaitReturns, Disarm
<1>8. CASE WaitFails(c)
  BY <1>8 DEF WaitFails
<1>9. CASE ReadersFail(c)
  BY <1>9 DEF ReadersFail
<1>10. CASE ReadOutput(c)
  BY <1>10 DEF ReadOutput
<1>11. CASE PollExited(c)
  BY <1>11 DEF PollExited, Disarm
<1>12. CASE PollFails(c)
  BY <1>12 DEF PollFails
<1>13. CASE PtyPollExited(c)
  BY <1>13 DEF PtyPollExited
<1>14. CASE HearShutdown(c)
  BY <1>14 DEF HearShutdown, Terminate
<1>15. CASE HearWatchdog(c)
  BY <1>15 DEF HearWatchdog, Terminate
<1>16. CASE ExitsInTime(c)
  BY <1>16 DEF ExitsInTime, LetGo
<1>17. CASE Escalate(c)
  BY <1>17 DEF Escalate
<1>18. CASE AfterKill(c)
  BY <1>18 DEF AfterKill, LetGo
<1>19. CASE PtyTerminate(c)
  BY <1>19 DEF PtyTerminate
<1>20. CASE PtyAfterKill(c)
  BY <1>20 DEF PtyAfterKill
<1>21. CASE StopIo(c)
  BY <1>21 DEF StopIo
<1>22. CASE JoinIo(c)
  BY <1>22 DEF JoinIo
<1>23. CASE StopWatchdog(c)
  BY <1>23 DEF StopWatchdog, GuardsGo
<1>24. CASE DropGuard(c)
  BY <1>24 DEF DropGuard, Release
<1>25. CASE ReapDropped(c)
  BY <1>25 DEF ReapDropped, Release, GuardsGo
<1>26. CASE PtyDeadline(c)
  BY <1>26 DEF PtyDeadline, Terminate
<1>27. CASE GlobalTimeout(c)
  BY <1>27 DEF GlobalTimeout, Drop, Awaits
<1>28. CASE OuterTimeout(c)
  BY <1>28 DEF OuterTimeout, Drop, Awaits
<1>29. CASE WatchdogStops(c)
  BY <1>29 DEF WatchdogStops
<1>30. CASE SessionTimer(c)
  BY <1>30 DEF SessionTimer
<1>31. CASE Exit(c)
  BY <1>31 DEF Exit
<1>32. CASE KernelKills(c)
  BY <1>32 DEF KernelKills
<1>33. CASE IoTaskEnds(c)
  BY <1>33 DEF IoTaskEnds
<1>34. CASE StartupTimer(c)
  BY <1>34 DEF StartupTimer
<1>35. CASE HardTimer(c)
  BY <1>35 DEF HardTimer
<1>36. CASE ReaperKills(c)
  BY <1>36 DEF ReaperKills
<1>37. CASE ReaperEnds(c)
  BY <1>37 DEF ReaperEnds
<1>. QED  BY <1>1, <1>2, <1>3, <1>4, <1>5, <1>6, <1>7, <1>8, <1>9, <1>10,
             <1>11, <1>12, <1>13, <1>14, <1>15, <1>16, <1>17, <1>18, <1>19,
             <1>20, <1>21, <1>22, <1>23, <1>24, <1>25, <1>26, <1>27, <1>28,
             <1>29, <1>30, <1>31, <1>32, <1>33, <1>34, <1>35,
             <1>36, <1>37 DEF AnyProcessStep, ProcessStep, WatchdogStep, ReaperStep, OutsideStep

\* Where such a step takes its call, the rest of the invariant still holds.
LEMMA ProcessBalance ==
    ASSUME ProcessTypes, FlightTypes, Positions, Balance, NEW c \in Calls,
           AnyProcessStep(c), UNCHANGED <<flightVars, onceVars>>
    PROVE  Balance' /\ Leaders' = Leaders /\ remaining' = remaining /\ free' = free
<1>. USE DEF ProcessTypes, Moves, InProcess
<1>0. /\ mode' = mode /\ reports' = reports /\ limit' = limit
      /\ remaining' = remaining /\ flights' = flights /\ budgets' = budgets
      /\ free' = free
      /\ Possible(mode[c], at[c])
  BY ProcessStepKinds DEF flightVars, onceVars, Positions
<1>1. Stays \/ Within(c) \/ Into(c) \/ Past(c) \/ OutOf(c)
  BY ProcessStepKinds
<1>2. /\ Leaders' = Leaders /\ Payers' = Payers /\ Inside' = Inside /\ Spent' = Spent
  <2>1. CASE Stays
    BY <1>0, <2>1 DEF Stays, Leaders, Payers, Inside, Spent
  <2>2. CASE Within(c)
    BY <1>0, <2>2 DEF Within, Leaders, Payers, Inside, Spent
  <2>3. CASE Into(c)
    BY <1>0, <2>3 DEF Into, Leaders, Payers, Inside, Spent
  <2>4. CASE Past(c)
    BY <1>0, <2>4 DEF Past, Leaders, Payers, Inside, Spent
  <2>5. CASE OutOf(c)
    BY <1>0, <2>5 DEF OutOf, Leaders, Payers, Inside, Spent, Interactive
  <2>. QED  BY <1>1, <2>1, <2>2, <2>3, <2>4, <2>5
<1>3. cleanups' = Cardinality(Cleaners)' /\ ptys' = Cardinality(Sessions)'
  <2>1. CASE Stays \/ Within(c) \/ Past(c)
    <3>1. Cleaners' = Cleaners /\ Sessions' = Sessions
      BY <1>0, <2>1 DEF Stays, Within, Past, Cleaners, Sessions
    <3>2. cleanups' = cleanups /\ ptys' = ptys
      BY <2>1 DEF Stays, Within, Past
    <3>. QED  BY <3>1, <3>2 DEF Balance
  <2>2. CASE Into(c) /\ mode[c] = "pty"
    <3>1. /\ Cleaners' = Cleaners /\ c \notin Sessions
          /\ Sessions' = Sessions \cup {c}
      BY <1>0, <2>2 DEF Into, Cleaners, Sessions
    <3>2. cleanups' = cleanups /\ ptys' = ptys + 1
      BY <2>2 DEF Into
    <3>. QED  BY <3>1, <3>2, Counting, Sizes DEF Balance
  <2>3. CASE Into(c) /\ mode[c] # "pty"
    <3>1. /\ Sessions' = Sessions /\ c \notin Cleaners
          /\ Cleaners' = Cleaners \cup {c}
      BY <1>0, <2>3 DEF Into, Cleaners, Sessions
    <3>2. cleanups' = cleanups + 1 /\ ptys' = ptys
      BY <2>3 DEF Into
    <3>. QED  BY <3>1, <3>2, Counting, Sizes DEF Balance
  <2>4. CASE OutOf(c) /\ mode[c] = "pty"
    <3>1. /\ Cleaners' = Cleaners /\ c \in Sessions
          /\ Sessions' = Sessions \ {c}
      BY <1>0, <2>4 DEF OutOf, Cleaners, Sessions
    <3>2. cleanups' = cleanups /\ ptys' = ptys - 1
      BY <2>4 DEF OutOf
    <3>. QED  BY <3>1, <3>2, Counting, Sizes DEF Balance
  <2>5. CASE OutOf(c) /\ mode[c] # "pty"
    <3>1. /\ Sessions' = Sessions /\ c \in Cleaners
          /\ Cleaners' = Cleaners \ {c}
      BY <1>0, <2>5 DEF OutOf, Cleaners, Sessions
    <3>2. cleanups' = cleanups - 1 /\ ptys' = ptys
      BY <2>5 DEF OutOf
    <3>. QED  BY <3>1, <3>2, Counting, Sizes DEF Balance
  <2>. QED  BY <1>1, <2>1, <2>2, <2>3, <2>4, <2>5
<1>. QED  BY <1>0, <1>2, <1>3 DEF Balance

LEMMA ProcessKeeps ==
    ASSUME IInv, NEW c \in Calls, AnyProcessStep(c),
           UNCHANGED <<flightVars, onceVars>>
    PROVE  /\ SafetyInv' /\ ProcessTypes' /\ FlightTypes' /\ CounterTypes'
           /\ shutdown' = shutdown
<1>0. /\ ProcessTypes /\ FlightTypes /\ CounterTypes /\ Positions /\ Balance
      /\ Guarded /\ Followed /\ Unreported /\ EntryIsLeaders
  BY TypeParts, BalanceMeans DEF IInv, SafetyInv
<1>1. /\ mode' = mode /\ shutdown' = shutdown
      /\ Stays \/ Within(c) \/ Into(c) \/ Past(c) \/ OutOf(c)
  BY <1>0, ProcessStepKinds
<1>2. /\ entry' = entry /\ follows' = follows /\ heard' = heard
      /\ reports' = reports /\ limit' = limit /\ flights' = flights
      /\ budgets' = budgets /\ forced' = forced
  BY DEF flightVars, onceVars
<1>3. ProcessTypes' /\ FlightTypes'
  <2>1. ProcessTypes'
    BY <1>0, ProcessTypesKept
  <2>2. FlightTypes'
    BY <1>0, <1>2, Zenon DEF FlightTypes
  <2>. QED  BY <2>1, <2>2
<1>4. Balance' /\ Leaders' = Leaders /\ remaining' = remaining /\ free' = free
  BY <1>0, ProcessBalance
<1>5. Positions' /\ Followed' /\ Unreported'
  <2>1. CASE Stays
    BY <1>0, <1>1, <1>2, <2>1 DEF Stays, Positions, Followed, Unreported
  <2>2. CASE Within(c) \/ Into(c) \/ Past(c) \/ OutOf(c)
    <3>1. PICK p \in InProcess \cup {"report", "done"} :
            at' = [at EXCEPT ![c] = p] /\ Possible(mode[c], p)
      BY <2>2 DEF Within, Into, Past, OutOf, Moves
    <3>2. at[c] \notin {"send", "leave", "done"} /\ p # "wait"
      BY <2>2 DEF Within, Into, Past, OutOf, InProcess
    <3>. QED
      BY <1>0, <1>1, <1>2, <3>1, <3>2
         DEF ProcessTypes, Positions, Followed, Unreported
  <2>. QED  BY <1>1, <2>1, <2>2
<1>6. Guarded'
  BY <1>0, GuardedKept
<1>7. EntryIsLeaders'
  BY <1>0, <1>2, <1>4 DEF EntryIsLeaders
<1>8. CounterTypes'
  <2>1. cleanups' \in Nat /\ ptys' \in Nat
    <3>1. Cardinality(Cleaners)' \in Nat /\ Cardinality(Sessions)' \in Nat
      <4>1. Cleaners' \in SUBSET Calls /\ Sessions' \in SUBSET Calls
        BY DEF Cleaners, Sessions
      <4>2. \A S \in SUBSET Calls : Cardinality(S) \in Nat
        BY FS_Subset, FS_CardinalityType, CallsAssumption
      <4>. QED  BY <4>1, <4>2
    <3>. QED  BY <1>4, <3>1 DEF Balance
  <2>. QED  BY <1>0, <1>2, <1>4, <2>1 DEF CounterTypes
<1>9. GuardsAccounted' /\ PermitsBalanced'
  BY <1>4 DEF Balance, GuardsAccounted, LiveCountsExact, PermitsBalanced,
     Cleaners, Sessions, Spent
<1>. QED  BY <1>1, <1>3, <1>5, <1>6, <1>7, <1>8, <1>9 DEF SafetyInv

-----------------------------------------------------------------------------
(* Steps of a call outside its process *)

AnyCallStep(c) ==
    CallStep(c) \/ RefuseWorkDir(c) \/ WaitTimesOut(c) \/ BulkheadTimesOut(c)

\* They move the call to a place its mode allows, and leave processes alone.
LEMMA CallStepMoves ==
    ASSUME ProcessTypes, Positions, NEW c \in Calls, AnyCallStep(c)
    PROVE  /\ UNCHANGED <<mode, childVars, watchVars, ioVars, dropVars, shutdown>>
           /\ at[c] \notin InProcess /\ at[c] # "done"
           /\ \E p \in CallPositions \ InProcess : Moves(c, p)
<1>0. Possible(mode[c], at[c])
  BY DEF Positions
<1>. USE <1>0 DEF Moves, Possible, InProcess, CallPositions, GoTo, Interactive, ProcessTypes,
         Modes, Evict, FailsTo
<1>1. CASE BeginInteractive(c)
  BY <1>1 DEF BeginInteractive
<1>2. CASE BeginHeadless(c)
  BY <1>2 DEF BeginHeadless
<1>3. CASE RefuseWorkDir(c)
  BY <1>3 DEF RefuseWorkDir
<1>4. CASE Follow(c)
  BY <1>4 DEF Follow
<1>5. CASE LockItselfOut(c)
  BY <1>5 DEF LockItselfOut
<1>6. CASE ReceiveOutcome(c)
  BY <1>6 DEF ReceiveOutcome
<1>7. CASE WaitTimesOut(c)
  BY <1>7 DEF WaitTimesOut
<1>8. CASE SendOutcome(c)
  BY <1>8 DEF SendOutcome
<1>9. CASE CacheHit(c)
  BY <1>9 DEF CacheHit
<1>10. CASE CacheMiss(c)
  BY <1>10 DEF CacheMiss
<1>11. CASE Admitted(c)
  BY <1>11 DEF Admitted
<1>12. CASE Refused(c)
  BY <1>12 DEF Refused
<1>13. CASE CannotPay(c)
  BY <1>13 DEF CannotPay
<1>14. CASE ReportInteractive(c)
  BY <1>14 DEF ReportInteractive
<1>15. CASE Lead(c)
  BY <1>15 DEF Lead
<1>16. CASE Leave(c)
  BY <1>16 DEF Leave
<1>17. CASE Pay(c)
  BY <1>17 DEF Pay
<1>18. CASE EnterBulkhead(c)
  BY <1>18 DEF EnterBulkhead
<1>19. CASE BulkheadTimesOut(c)
  BY <1>19 DEF BulkheadTimesOut
<1>20. CASE ReportHeadless(c)
  BY <1>20 DEF ReportHeadless
<1>. QED  BY <1>1, <1>2, <1>3, <1>4, <1>5, <1>6, <1>7, <1>8, <1>9, <1>10,
             <1>11, <1>12, <1>13, <1>14, <1>15, <1>16, <1>17, <1>18, <1>19,
             <1>20 DEF AnyCallStep, CallStep

LEMMA OutsideProcess ==
    ASSUME ProcessTypes, Positions, NEW c \in Calls, AnyCallStep(c)
    PROVE  /\ Cleaners' = Cleaners /\ Sessions' = Sessions
           /\ cleanups' = cleanups /\ ptys' = ptys
<1>1. /\ mode' = mode /\ cleanups' = cleanups /\ ptys' = ptys
      /\ at[c] \notin InProcess
  BY CallStepMoves DEF childVars, dropVars
<1>2. PICK p \in CallPositions \ InProcess : Moves(c, p)
  BY CallStepMoves
<1>. QED  BY <1>1, <1>2 DEF Cleaners, Sessions, Moves, ProcessTypes

\* The steps that leave leaders and payers what they are.
Neutral(c) ==
    \/ BeginInteractive(c) \/ BeginHeadless(c) \/ RefuseWorkDir(c)
    \/ Follow(c) \/ LockItselfOut(c) \/ ReceiveOutcome(c)
    \/ WaitTimesOut(c) \/ SendOutcome(c) \/ CacheHit(c) \/ CacheMiss(c)
    \/ Admitted(c) \/ Refused(c) \/ CannotPay(c) \/ ReportInteractive(c)

\* The places of the headless calls in these sets.
LeaderAt == {"cache", "admit", "pay", "bulkhead", "spawn", "report", "send", "leave"} \cup InProcess
PayerAt == {"bulkhead", "spawn", "report"} \cup InProcess
InsideAt == {"spawn", "report"} \cup InProcess

LEMMA NeutralSteps ==
    ASSUME ProcessTypes, FlightTypes, Positions, NEW c \in Calls, Neutral(c)
    PROVE  /\ Leaders' = Leaders /\ Payers' = Payers
           /\ Inside' = Inside /\ Spent' = Spent
           /\ UNCHANGED <<flights, budgets, remaining, limit, free>>
<1>0. Possible(mode[c], at[c])
  BY DEF Positions
<1>a. mode' = mode /\ UNCHANGED <<flights, budgets, remaining, limit, free>>
  BY DEF Neutral, BeginInteractive, BeginHeadless, RefuseWorkDir, Follow,
     LockItselfOut, ReceiveOutcome, WaitTimesOut, SendOutcome, CacheHit,
     CacheMiss, Admitted, Refused, CannotPay, ReportInteractive, flightVars, onceVars
<1>b. \E p \in CallPositions :
        /\ at' = [at EXCEPT ![c] = p]
        /\ mode[c] = "headless" =>
             /\ p \in LeaderAt <=> at[c] \in LeaderAt
             /\ p \in PayerAt <=> at[c] \in PayerAt
             /\ p \in InsideAt <=> at[c] \in InsideAt
  <2>1. CASE BeginInteractive(c)
    BY <1>0, <2>1 DEF BeginInteractive, GoTo, Possible, Interactive, FailsTo,
       InProcess, LeaderAt, PayerAt, InsideAt, CallPositions
  <2>2. CASE BeginHeadless(c)
    BY <1>0, <2>2 DEF BeginHeadless, GoTo, Possible, Interactive, FailsTo,
       InProcess, LeaderAt, PayerAt, InsideAt, CallPositions
  <2>3. CASE RefuseWorkDir(c)
    BY <1>0, <2>3 DEF RefuseWorkDir, GoTo, Possible, Interactive, FailsTo,
       InProcess, LeaderAt, PayerAt, InsideAt, CallPositions
  <2>4. CASE Follow(c)
    BY <1>0, <2>4 DEF Follow, GoTo, Possible, Interactive, FailsTo,
       InProcess, LeaderAt, PayerAt, InsideAt, CallPositions
  <2>5. CASE LockItselfOut(c)
    BY <1>0, <2>5 DEF LockItselfOut, GoTo, Possible, Interactive, FailsTo,
       InProcess, LeaderAt, PayerAt, InsideAt, CallPositions
  <2>6. CASE ReceiveOutcome(c)
    BY <1>0, <2>6 DEF ReceiveOutcome, GoTo, Possible, Interactive, FailsTo,
       InProcess, LeaderAt, PayerAt, InsideAt, CallPositions
  <2>7. CASE WaitTimesOut(c)
    BY <1>0, <2>7 DEF WaitTimesOut, GoTo, Possible, Interactive, FailsTo,
       InProcess, LeaderAt, PayerAt, InsideAt, CallPositions
  <2>8. CASE SendOutcome(c)
    BY <1>0, <2>8 DEF SendOutcome, GoTo, Possible, Interactive, FailsTo,
       InProcess, LeaderAt, PayerAt, InsideAt, CallPositions
  <2>9. CASE CacheHit(c)
    BY <1>0, <2>9 DEF CacheHit, GoTo, Possible, Interactive, FailsTo,
       InProcess, LeaderAt, PayerAt, InsideAt, CallPositions
  <2>10. CASE CacheMiss(c)
    BY <1>0, <2>10 DEF CacheMiss, GoTo, Possible, Interactive, FailsTo,
       InProcess, LeaderAt, PayerAt, InsideAt, CallPositions
  <2>11. CASE Admitted(c)
    <3>1. CASE Interactive(c)
      <4>1. at[c] = "admit" /\ at' = [at EXCEPT ![c] = "spawn"]
        BY <2>11, <3>1 DEF Admitted, GoTo, FailsTo
      <4>. QED  BY <4>1, <3>1 DEF Interactive, InProcess, LeaderAt, PayerAt, InsideAt,
                  CallPositions
    <3>2. CASE ~Interactive(c)
      <4>1. at[c] = "admit" /\ at' = [at EXCEPT ![c] = "pay"]
        BY <2>11, <3>2 DEF Admitted, GoTo, FailsTo
      <4>. QED  BY <4>1, <3>2 DEF Interactive, InProcess, LeaderAt, PayerAt, InsideAt,
                  CallPositions
    <3>. QED  BY <3>1, <3>2
  <2>12. CASE Refused(c)
    <3>1. CASE Interactive(c)
      <4>1. at[c] = "admit" /\ at' = [at EXCEPT ![c] = "done"]
        BY <2>12, <3>1 DEF Refused, GoTo, FailsTo
      <4>. QED  BY <4>1, <3>1 DEF Interactive, InProcess, LeaderAt, PayerAt, InsideAt,
                  CallPositions
    <3>2. CASE ~Interactive(c)
      <4>1. at[c] = "admit" /\ at' = [at EXCEPT ![c] = "send"]
        BY <2>12, <3>2 DEF Refused, GoTo, FailsTo
      <4>. QED  BY <4>1, <3>2 DEF Interactive, InProcess, LeaderAt, PayerAt, InsideAt,
                  CallPositions
    <3>. QED  BY <3>1, <3>2
  <2>13. CASE CannotPay(c)
    BY <1>0, <2>13 DEF CannotPay, GoTo, Possible, Interactive, FailsTo,
       InProcess, LeaderAt, PayerAt, InsideAt, CallPositions
  <2>14. CASE ReportInteractive(c)
    BY <1>0, <2>14 DEF ReportInteractive, GoTo, Possible, Interactive, FailsTo,
       InProcess, LeaderAt, PayerAt, InsideAt, CallPositions
  <2>. QED  BY <2>1, <2>2, <2>3, <2>4, <2>5, <2>6, <2>7, <2>8, <2>9, <2>10,
             <2>11, <2>12, <2>13, <2>14 DEF Neutral
<1>c. \A d \in Calls : mode[d] = "headless" => reports'[d] = reports[d]
  <2>1. CASE ReportInteractive(c)
    <3>1. /\ reports' = [reports EXCEPT ![c] = Verdict(outcome[c])]
          /\ mode[c] # "headless"
      BY <2>1 DEF ReportInteractive, Interactive
    <3>. QED  BY <3>1 DEF FlightTypes
  <2>2. CASE ~ReportInteractive(c)
    BY <2>2 DEF Neutral, BeginInteractive, BeginHeadless, RefuseWorkDir, Follow,
       LockItselfOut, ReceiveOutcome, WaitTimesOut, SendOutcome, CacheHit,
       CacheMiss, Admitted, Refused, CannotPay, onceVars
  <2>. QED  BY <2>1, <2>2
<1>d. \A d \in Calls : mode[d] = "headless" =>
        /\ at'[d] \in LeaderAt <=> at[d] \in LeaderAt
        /\ at'[d] \in PayerAt <=> at[d] \in PayerAt
        /\ at'[d] \in InsideAt <=> at[d] \in InsideAt
  BY <1>b DEF ProcessTypes
<1>. HIDE DEF LeaderAt, PayerAt, InsideAt
<1>1. /\ Leaders = {d \in Calls : mode[d] = "headless" /\ at[d] \in LeaderAt}
      /\ Payers = {d \in Calls : mode[d] = "headless" /\ at[d] \in PayerAt}
      /\ Inside = {d \in Calls : mode[d] = "headless" /\ at[d] \in InsideAt}
  BY Zenon DEF Leaders, Payers, Inside, LeaderAt, PayerAt, InsideAt
<1>2. /\ Leaders' = {d \in Calls : mode'[d] = "headless" /\ at'[d] \in LeaderAt}
      /\ Payers' = {d \in Calls : mode'[d] = "headless" /\ at'[d] \in PayerAt}
      /\ Inside' = {d \in Calls : mode'[d] = "headless" /\ at'[d] \in InsideAt}
  BY Zenon DEF Leaders, Payers, Inside, LeaderAt, PayerAt, InsideAt
<1>3. Spent' = Spent
  BY <1>a, <1>c DEF Spent
<1>. QED  BY <1>a, <1>d, <1>1, <1>2, <1>3

\* The sets of leaders and payers, by the places of the calls in them.
LEMMA Places ==
    /\ Leaders = {d \in Calls : mode[d] = "headless" /\ at[d] \in LeaderAt}
    /\ Payers = {d \in Calls : mode[d] = "headless" /\ at[d] \in PayerAt}
    /\ Inside = {d \in Calls : mode[d] = "headless" /\ at[d] \in InsideAt}
BY Zenon DEF Leaders, Payers, Inside, LeaderAt, PayerAt, InsideAt

\* The places among the positions.
LEMMA PlaceFacts ==
    /\ {"look", "cache", "pay", "bulkhead", "spawn", "report", "send", "leave", "done"}
         \subseteq CallPositions
    /\ {"cache", "pay", "bulkhead", "spawn", "report", "send", "leave"} \subseteq LeaderAt
    /\ "look" \notin LeaderAt /\ "done" \notin LeaderAt
    /\ {"bulkhead", "spawn", "report"} \subseteq PayerAt
    /\ {"look", "cache", "pay", "send", "leave", "done"} \cap PayerAt = {}
    /\ {"spawn", "report"} \subseteq InsideAt
    /\ {"look", "cache", "pay", "bulkhead", "send", "leave", "done"} \cap InsideAt = {}
BY DEF LeaderAt, PayerAt, InsideAt, InProcess, CallPositions

\* A headless call that moves from p to q joins or leaves the three sets
\* according to the places.
LEMMA HeadlessMove ==
    ASSUME ProcessTypes, NEW c \in Calls, NEW q \in CallPositions,
           mode[c] = "headless", mode' = mode, at' = [at EXCEPT ![c] = q]
    PROVE  /\ Leaders' = IF q \in LeaderAt THEN Leaders \cup {c} ELSE Leaders \ {c}
           /\ Payers' = IF q \in PayerAt THEN Payers \cup {c} ELSE Payers \ {c}
           /\ Inside' = IF q \in InsideAt THEN Inside \cup {c} ELSE Inside \ {c}
           /\ c \in Leaders <=> at[c] \in LeaderAt
           /\ c \in Payers <=> at[c] \in PayerAt
           /\ c \in Inside <=> at[c] \in InsideAt
<1>1. at'[c] = q /\ \A d \in Calls : d # c => at'[d] = at[d]
  BY DEF ProcessTypes
<1>2. /\ Leaders' = {d \in Calls : mode[d] = "headless" /\ at'[d] \in LeaderAt}
      /\ Payers' = {d \in Calls : mode[d] = "headless" /\ at'[d] \in PayerAt}
      /\ Inside' = {d \in Calls : mode[d] = "headless" /\ at'[d] \in InsideAt}
  BY Zenon DEF Leaders, Payers, Inside, LeaderAt, PayerAt, InsideAt
<1>3. Leaders' = IF q \in LeaderAt THEN Leaders \cup {c} ELSE Leaders \ {c}
  BY <1>1, <1>2, Places
<1>4. Payers' = IF q \in PayerAt THEN Payers \cup {c} ELSE Payers \ {c}
  BY <1>1, <1>2, Places
<1>5. Inside' = IF q \in InsideAt THEN Inside \cup {c} ELSE Inside \ {c}
  BY <1>1, <1>2, Places
<1>6. /\ c \in Leaders <=> at[c] \in LeaderAt
      /\ c \in Payers <=> at[c] \in PayerAt
      /\ c \in Inside <=> at[c] \in InsideAt
  BY Places
<1>. QED  BY <1>3, <1>4, <1>5, <1>6

LEMMA Times ==
    ASSUME NEW u \in Nat, NEW n \in Nat
    PROVE  u * (n + 1) = u * n + u
OBVIOUS

\* Guards are counted when they are made and when they go, and units are spent,
\* held or in the budget.
LEMMA CallBalance ==
    ASSUME ProcessTypes, FlightTypes, CounterTypes, Positions, Unreported,
           Balance, NEW c \in Calls, AnyCallStep(c)
    PROVE  /\ Balance' /\ limit' = limit
           /\ remaining' \in Nat /\ free' \in Nat /\ free' <= Permits
<1>0. /\ mode' = mode /\ Possible(mode[c], at[c])
      /\ Cleaners' = Cleaners /\ Sessions' = Sessions
      /\ cleanups' = cleanups /\ ptys' = ptys
  BY CallStepMoves, OutsideProcess DEF Positions
<1>n. /\ flights \in Nat /\ budgets \in Nat /\ remaining \in Nat /\ free \in Nat
      /\ free <= Permits /\ Permits \in Nat /\ limit \in Nat /\ Units \in Nat
  BY FlightAssumption DEF CounterTypes, FlightTypes
<1>m. /\ cleanups' = Cardinality(Cleaners') /\ ptys' = Cardinality(Sessions')
      /\ flights = Cardinality(Leaders) /\ budgets = Cardinality(Payers)
      /\ free + Cardinality(Inside) = Permits
  BY <1>0 DEF Balance
<1>s. limit # 0 => limit = remaining + Units * Cardinality(Payers)
                           + Units * Cardinality(Spent)
  BY DEF Balance
<1>u. Units * Cardinality(Payers) \in Nat /\ Units * Cardinality(Spent) \in Nat
  BY <1>n, Sizes
<1>b. ASSUME flights' = Cardinality(Leaders'), budgets' = Cardinality(Payers'),
             free' + Cardinality(Inside') = Permits,
             limit' # 0 => limit' = remaining' + Units * Cardinality(Payers')
                                    + Units * Cardinality(Spent')
      PROVE  Balance'
  BY <1>m, <1>b, Zenon DEF Balance
<1>1. CASE Neutral(c)
  <2>1. /\ Leaders' = Leaders /\ Payers' = Payers
        /\ Inside' = Inside /\ Spent' = Spent
        /\ flights' = flights /\ budgets' = budgets /\ remaining' = remaining
        /\ limit' = limit /\ free' = free
    BY <1>1, NeutralSteps
  <2>2. limit' # 0 => limit' = remaining' + Units * Cardinality(Payers')
                                + Units * Cardinality(Spent')
    BY <1>s, <2>1, Zenon
  <2>3. /\ flights' = Cardinality(Leaders') /\ budgets' = Cardinality(Payers')
        /\ free' + Cardinality(Inside') = Permits
    BY <1>m, <2>1, Zenon
  <2>. QED  BY <1>b, <1>n, <2>1, <2>2, <2>3
<1>2. CASE Lead(c)
  <2>1. /\ at[c] = "look" /\ at' = [at EXCEPT ![c] = "cache"] /\ flights' = flights + 1
    BY <1>2, Zenon DEF Lead, GoTo
  <2>2. /\ limit' = limit /\ remaining' = remaining /\ budgets' = budgets
        /\ free' = free /\ reports' = reports
    BY <1>2, Zenon DEF Lead, onceVars
  <2>3. mode[c] = "headless"
    BY <1>0, <2>1 DEF Possible
  <2>p. /\ "cache" \in CallPositions /\ "cache" \in LeaderAt
        /\ "cache" \notin PayerAt /\ "cache" \notin InsideAt
        /\ at[c] \notin LeaderAt /\ at[c] \notin PayerAt /\ at[c] \notin InsideAt
    BY <2>1, PlaceFacts
  <2>a. /\ c \notin Leaders /\ Leaders' = Leaders \cup {c}
        /\ c \notin Payers /\ Payers' = Payers \ {c}
        /\ c \notin Inside /\ Inside' = Inside \ {c}
    BY <1>0, <2>1, <2>3, <2>p, HeadlessMove
  <2>4. /\ c \notin Leaders /\ Leaders' = Leaders \cup {c}
        /\ Payers' = Payers /\ Inside' = Inside
    BY <2>a
  <2>5. Spent' = Spent
    BY <1>0, <2>2 DEF Spent
  <2>6. Cardinality(Leaders') = Cardinality(Leaders) + 1
    BY <2>4, Counting, Sizes
  <2>7. limit' # 0 => limit' = remaining' + Units * Cardinality(Payers')
                                + Units * Cardinality(Spent')
    BY <1>s, <2>2, <2>4, <2>5, Zenon
  <2>8. /\ flights' = Cardinality(Leaders') /\ budgets' = Cardinality(Payers')
        /\ free' + Cardinality(Inside') = Permits
    BY <1>m, <2>1, <2>2, <2>4, <2>6
  <2>. QED  BY <1>b, <1>n, <2>2, <2>7, <2>8
<1>3. CASE Leave(c)
  <2>1. /\ at[c] = "leave" /\ at' = [at EXCEPT ![c] = "done"] /\ flights' = flights - 1
    BY <1>3, Zenon DEF Leave, GoTo
  <2>2. /\ limit' = limit /\ remaining' = remaining /\ budgets' = budgets
        /\ free' = free /\ reports' = reports
    BY <1>3, Zenon DEF Leave, onceVars
  <2>3. mode[c] = "headless"
    BY <1>0, <2>1 DEF Possible
  <2>p. /\ "done" \in CallPositions /\ "done" \notin LeaderAt
        /\ "done" \notin PayerAt /\ "done" \notin InsideAt
        /\ at[c] \in LeaderAt /\ at[c] \notin PayerAt /\ at[c] \notin InsideAt
    BY <2>1, PlaceFacts
  <2>4. /\ c \in Leaders /\ Leaders' = Leaders \ {c}
        /\ c \notin Payers /\ Payers' = Payers \ {c}
        /\ c \notin Inside /\ Inside' = Inside \ {c}
    BY <1>0, <2>1, <2>3, <2>p, HeadlessMove
  <2>5. Spent' = Spent /\ Payers' = Payers /\ Inside' = Inside
    BY <1>0, <2>2, <2>4 DEF Spent
  <2>6. Cardinality(Leaders') = Cardinality(Leaders) - 1
    BY <2>4, Counting, Sizes
  <2>7. limit' # 0 => limit' = remaining' + Units * Cardinality(Payers')
                                + Units * Cardinality(Spent')
    BY <1>s, <2>2, <2>5, Zenon
  <2>8. /\ flights' = Cardinality(Leaders') /\ budgets' = Cardinality(Payers')
        /\ free' + Cardinality(Inside') = Permits
    BY <1>m, <2>1, <2>2, <2>5, <2>6
  <2>. QED  BY <1>b, <1>n, <2>2, <2>7, <2>8
<1>4. CASE Pay(c)
  <2>1. /\ at[c] = "pay" /\ at' = [at EXCEPT ![c] = "bulkhead"]
        /\ budgets' = budgets + 1 /\ (limit = 0 \/ remaining >= Units)
        /\ remaining' = IF limit = 0 THEN remaining ELSE remaining - Units
    BY <1>4, Zenon DEF Pay, GoTo
  <2>2. /\ limit' = limit /\ flights' = flights
        /\ free' = free /\ reports' = reports
    BY <1>4, Zenon DEF Pay, flightVars
  <2>3. mode[c] = "headless"
    BY <1>0, <2>1 DEF Possible
  <2>p. /\ "bulkhead" \in CallPositions /\ "bulkhead" \in LeaderAt
        /\ "bulkhead" \in PayerAt /\ "bulkhead" \notin InsideAt
        /\ at[c] \in LeaderAt /\ at[c] \notin PayerAt /\ at[c] \notin InsideAt
    BY <2>1, PlaceFacts
  <2>4. /\ c \notin Payers /\ Payers' = Payers \cup {c}
        /\ c \in Leaders /\ Leaders' = Leaders \cup {c}
        /\ c \notin Inside /\ Inside' = Inside \ {c}
    BY <1>0, <2>1, <2>3, <2>p, HeadlessMove
  <2>5. Spent' = Spent /\ Leaders' = Leaders /\ Inside' = Inside
    BY <1>0, <2>2, <2>4 DEF Spent
  <2>6. Cardinality(Payers') = Cardinality(Payers) + 1
    BY <2>4, Counting, Sizes
  <2>7. limit' # 0 => limit' = remaining' + Units * Cardinality(Payers')
                                + Units * Cardinality(Spent')
    <3>1. Units * Cardinality(Payers') = Units * Cardinality(Payers) + Units
      BY <1>n, <2>6, Sizes, Times
    <3>. QED  BY <1>n, <1>s, <1>u, <2>1, <2>2, <2>5, <3>1
  <2>8. /\ flights' = Cardinality(Leaders') /\ budgets' = Cardinality(Payers')
        /\ free' + Cardinality(Inside') = Permits
    BY <1>m, <2>1, <2>2, <2>5, <2>6
  <2>9. remaining' \in Nat
    BY <1>n, <2>1
  <2>. QED  BY <1>b, <1>n, <2>2, <2>7, <2>8, <2>9
<1>5. CASE EnterBulkhead(c)
  <2>1. /\ at[c] = "bulkhead" /\ at' = [at EXCEPT ![c] = "spawn"]
        /\ free > 0 /\ free' = free - 1
    BY <1>5, Zenon DEF EnterBulkhead, GoTo
  <2>2. /\ limit' = limit /\ flights' = flights /\ remaining' = remaining
        /\ budgets' = budgets /\ reports' = reports
    BY <1>5, Zenon DEF EnterBulkhead, flightVars
  <2>3. mode[c] = "headless"
    BY <1>0, <2>1 DEF Possible
  <2>p. /\ "spawn" \in CallPositions /\ "spawn" \in LeaderAt
        /\ "spawn" \in PayerAt /\ "spawn" \in InsideAt
        /\ at[c] \in LeaderAt /\ at[c] \in PayerAt /\ at[c] \notin InsideAt
    BY <2>1, PlaceFacts
  <2>4. /\ c \in Payers /\ Payers' = Payers \cup {c}
        /\ c \in Leaders /\ Leaders' = Leaders \cup {c}
        /\ c \notin Inside /\ Inside' = Inside \cup {c}
    BY <1>0, <2>1, <2>3, <2>p, HeadlessMove
  <2>5. Spent' = Spent /\ Leaders' = Leaders /\ Payers' = Payers
    BY <1>0, <2>2, <2>4 DEF Spent
  <2>6. Cardinality(Inside') = Cardinality(Inside) + 1
    BY <2>4, Counting, Sizes
  <2>7. limit' # 0 => limit' = remaining' + Units * Cardinality(Payers')
                                + Units * Cardinality(Spent')
    BY <1>s, <2>2, <2>5, Zenon
  <2>8. /\ flights' = Cardinality(Leaders') /\ budgets' = Cardinality(Payers')
        /\ free' + Cardinality(Inside') = Permits
    BY <1>m, <1>n, <2>1, <2>2, <2>5, <2>6, Sizes
  <2>9. free' \in Nat /\ free' <= Permits
    BY <1>n, <2>1
  <2>. QED  BY <1>b, <1>n, <2>2, <2>7, <2>8, <2>9
<1>6. CASE BulkheadTimesOut(c)
  <2>1. /\ at[c] = "bulkhead" /\ at' = [at EXCEPT ![c] = "send"]
        /\ budgets' = budgets - 1
        /\ remaining' = IF limit = 0 THEN remaining ELSE remaining + Units
    BY <1>6, Zenon DEF BulkheadTimesOut, GoTo
  <2>2. /\ limit' = limit /\ flights' = flights
        /\ free' = free /\ reports' = reports
    BY <1>6, Zenon DEF BulkheadTimesOut, flightVars
  <2>3. mode[c] = "headless"
    BY <1>0, <2>1 DEF Possible
  <2>p. /\ "send" \in CallPositions /\ "send" \in LeaderAt
        /\ "send" \notin PayerAt /\ "send" \notin InsideAt
        /\ at[c] \in LeaderAt /\ at[c] \in PayerAt /\ at[c] \notin InsideAt
    BY <2>1, PlaceFacts
  <2>4. /\ c \in Payers /\ Payers' = Payers \ {c}
        /\ c \in Leaders /\ Leaders' = Leaders \cup {c}
        /\ c \notin Inside /\ Inside' = Inside \ {c}
    BY <1>0, <2>1, <2>3, <2>p, HeadlessMove
  <2>5. Spent' = Spent /\ Leaders' = Leaders /\ Inside' = Inside
    BY <1>0, <2>2, <2>4 DEF Spent
  <2>6. Cardinality(Payers') = Cardinality(Payers) - 1 /\ Cardinality(Payers') \in Nat
    <3>1. Payers' \in SUBSET Calls
      BY <2>4, Sizes
    <3>. QED  BY <2>4, <3>1, Counting, Sizes
  <2>7. limit' # 0 => limit' = remaining' + Units * Cardinality(Payers')
                                + Units * Cardinality(Spent')
    <3>1. Cardinality(Payers) = Cardinality(Payers') + 1
      BY <2>6, Sizes
    <3>2. Units * Cardinality(Payers) = Units * Cardinality(Payers') + Units
      BY <1>n, <2>6, <3>1, Times
    <3>3. Units * Cardinality(Payers') \in Nat
      BY <1>n, <2>6
    <3>. QED  BY <1>n, <1>s, <1>u, <2>1, <2>2, <2>5, <3>2, <3>3
  <2>8. /\ flights' = Cardinality(Leaders') /\ budgets' = Cardinality(Payers')
        /\ free' + Cardinality(Inside') = Permits
    BY <1>m, <2>1, <2>2, <2>5, <2>6
  <2>9. remaining' \in Nat
    BY <1>n, <2>1
  <2>. QED  BY <1>b, <1>n, <2>2, <2>7, <2>8, <2>9
<1>7. CASE ReportHeadless(c)
  <2>1. /\ at[c] = "report" /\ at' = [at EXCEPT ![c] = "send"]
        /\ mode[c] = "headless" /\ budgets' = budgets - 1 /\ free' = free + 1
        /\ reports' = [reports EXCEPT ![c] = Verdict(outcome[c])]
    BY <1>7, Zenon DEF ReportHeadless, GoTo
  <2>2. limit' = limit /\ flights' = flights /\ remaining' = remaining
    BY <1>7, Zenon DEF ReportHeadless, flightVars
  <2>p. /\ "send" \in CallPositions /\ "send" \in LeaderAt
        /\ "send" \notin PayerAt /\ "send" \notin InsideAt
        /\ at[c] \in LeaderAt /\ at[c] \in PayerAt /\ at[c] \in InsideAt
    BY <2>1, PlaceFacts
  <2>4. /\ c \in Payers /\ Payers' = Payers \ {c}
        /\ c \in Inside /\ Inside' = Inside \ {c}
        /\ c \in Leaders /\ Leaders' = Leaders \cup {c}
    BY <1>0, <2>1, <2>p, HeadlessMove
  <2>5. Leaders' = Leaders
    BY <2>4
  <2>6. c \notin Spent /\ Spent' = Spent \cup {c}
    <3>1. reports[c] = "none"
      BY <2>1 DEF Unreported
    <3>2. reports'[c] # "none" /\ \A d \in Calls : d # c => reports'[d] = reports[d]
      BY <2>1 DEF FlightTypes, Verdict
    <3>. QED  BY <1>0, <2>1, <3>1, <3>2 DEF Spent
  <2>7. /\ Cardinality(Payers') = Cardinality(Payers) - 1 /\ Cardinality(Payers') \in Nat
        /\ Cardinality(Inside') = Cardinality(Inside) - 1 /\ Cardinality(Inside') \in Nat
    <3>1. Payers' \in SUBSET Calls /\ Inside' \in SUBSET Calls
      BY <2>4, Sizes
    <3>. QED  BY <2>4, <3>1, Counting, Sizes
  <2>8. limit' # 0 => limit' = remaining' + Units * Cardinality(Payers')
                                + Units * Cardinality(Spent')
    <3>1. Cardinality(Payers) = Cardinality(Payers') + 1
      BY <2>7, Sizes
    <3>2. Units * Cardinality(Payers) = Units * Cardinality(Payers') + Units
      BY <1>n, <2>7, <3>1, Times
    <3>3. Cardinality(Spent') = Cardinality(Spent) + 1
      BY <2>6, Counting, Sizes
    <3>4. Units * Cardinality(Spent') = Units * Cardinality(Spent) + Units
      BY <1>n, <3>3, Sizes, Times
    <3>5. Units * Cardinality(Payers') \in Nat
      BY <1>n, <2>7
    <3>. QED  BY <1>n, <1>s, <1>u, <2>2, <3>2, <3>4, <3>5
  <2>9. /\ flights' = Cardinality(Leaders') /\ budgets' = Cardinality(Payers')
        /\ free' + Cardinality(Inside') = Permits
    BY <1>m, <1>n, <2>1, <2>2, <2>5, <2>7, Sizes
  <2>10. free' \in Nat /\ free' <= Permits
    BY <1>n, <2>1, <2>7, <2>9
  <2>. QED  BY <1>b, <1>n, <2>2, <2>8, <2>9, <2>10
<1>. QED
  BY <1>1, <1>2, <1>3, <1>4, <1>5, <1>6, <1>7 DEF AnyCallStep, CallStep, Neutral

\* The entry is the leader's until something is removed by force.
LEMMA EntryKept ==
    ASSUME ProcessTypes, FlightTypes, FlagTypes, Positions, EntryIsLeaders,
           NEW c \in Calls, AnyCallStep(c)
    PROVE  EntryIsLeaders'
<1>0. mode' = mode /\ Possible(mode[c], at[c])
  BY CallStepMoves DEF Positions
<1>1. CASE Lead(c)
  <2>1. /\ at[c] = "look" /\ at' = [at EXCEPT ![c] = "cache"] /\ mode[c] = "headless"
        /\ entry = NoCall /\ entry' = c
    BY <1>0, <1>1 DEF Lead, GoTo, Possible
  <2>p. /\ "cache" \in CallPositions /\ "cache" \in LeaderAt
        /\ "cache" \notin PayerAt /\ "cache" \notin InsideAt
        /\ at[c] \notin LeaderAt /\ at[c] \notin PayerAt /\ at[c] \notin InsideAt
    BY <2>1, PlaceFacts
  <2>2. Leaders' = Leaders \cup {c}
    BY <1>0, <2>1, <2>p, HeadlessMove
  <2>3. forced' = forced
    BY <1>1, Zenon DEF Lead
  <2>4. ~forced => Leaders = {}
    BY <2>1, FlightAssumption, Sizes DEF EntryIsLeaders
  <2>5. ~forced' => Leaders' = {c}
    BY <2>2, <2>3, <2>4, Zenon
  <2>. QED  BY <2>1, <2>5 DEF EntryIsLeaders
<1>2. CASE Leave(c)
  <2>1. /\ at[c] = "leave" /\ at' = [at EXCEPT ![c] = "done"] /\ mode[c] = "headless"
    BY <1>0, <1>2 DEF Leave, GoTo, Possible
  <2>p. /\ "done" \in CallPositions /\ "done" \notin LeaderAt
        /\ "done" \notin PayerAt /\ "done" \notin InsideAt
        /\ at[c] \in LeaderAt /\ at[c] \notin PayerAt /\ at[c] \notin InsideAt
    BY <2>1, PlaceFacts
  <2>2. c \in Leaders /\ Leaders' = Leaders \ {c}
    BY <1>0, <2>1, <2>p, HeadlessMove
  <2>3. ~forced' => ~forced
    BY <1>2, Zenon DEF Leave
  <2>4. ~forced => \A d \in Leaders : d = c
    BY <2>2 DEF EntryIsLeaders
  <2>5. ~forced' => Leaders' = {}
    BY <2>2, <2>3, <2>4, Zenon
  <2>. QED  BY <2>5 DEF EntryIsLeaders
<1>3. CASE WaitTimesOut(c)
  <2>1. ~forced' => ~forced /\ entry = NoCall /\ entry' = NoCall
    BY <1>3, Zenon DEF WaitTimesOut
  <2>2. Leaders' = Leaders
    BY <1>3, NeutralSteps DEF Neutral
  <2>. QED  BY <2>1, <2>2 DEF EntryIsLeaders
<1>4. CASE BeginHeadless(c)
  <2>1. ~forced' => ~forced /\ entry' = entry
    BY <1>4, Zenon DEF BeginHeadless, Evict
  <2>2. Leaders' = Leaders
    BY <1>4, NeutralSteps DEF Neutral
  <2>. QED  BY <2>1, <2>2 DEF EntryIsLeaders
<1>5. CASE Neutral(c) /\ ~WaitTimesOut(c) /\ ~BeginHeadless(c)
  <2>1. entry' = entry /\ forced' = forced
    BY <1>5, Zenon DEF Neutral, BeginInteractive, RefuseWorkDir, Follow,
       LockItselfOut, ReceiveOutcome, SendOutcome, CacheHit, CacheMiss,
       Admitted, Refused, CannotPay, ReportInteractive, flightVars
  <2>2. Leaders' = Leaders
    BY <1>5, NeutralSteps
  <2>. QED  BY <2>1, <2>2, Zenon DEF EntryIsLeaders
<1>6. CASE Pay(c) \/ EnterBulkhead(c) \/ BulkheadTimesOut(c) \/ ReportHeadless(c)
  <2>1. entry' = entry /\ forced' = forced
    BY <1>6, Zenon DEF Pay, EnterBulkhead, BulkheadTimesOut, ReportHeadless, flightVars
  <2>2. mode[c] = "headless" /\ at[c] \in {"pay", "bulkhead", "report"}
    BY <1>0, <1>6 DEF Pay, EnterBulkhead, BulkheadTimesOut, ReportHeadless, Possible
  <2>3. PICK q \in {"bulkhead", "spawn", "send"} : at' = [at EXCEPT ![c] = q]
    BY <1>6 DEF Pay, EnterBulkhead, BulkheadTimesOut, ReportHeadless, GoTo
  <2>a. q \in CallPositions /\ q \in LeaderAt /\ at[c] \in LeaderAt
    BY <2>2, <2>3, PlaceFacts
  <2>b. c \in Leaders /\ Leaders' = Leaders \cup {c}
    BY <1>0, <2>2, <2>3, <2>a, HeadlessMove
  <2>4. Leaders' = Leaders
    BY <2>b
  <2>. QED  BY <2>1, <2>4, Zenon DEF EntryIsLeaders
<1>. QED
  BY <1>1, <1>2, <1>3, <1>4, <1>5, <1>6, Zenon DEF AnyCallStep, CallStep, Neutral

-----------------------------------------------------------------------------
(* Steps of a call *)

\* Only the outcome that a waiter receives is not a fixed one, and it was sent.
LEMMA CallTypesKept ==
    ASSUME ProcessTypes, FlightTypes, Positions, Followed, NEW c \in Calls,
           AnyCallStep(c)
    PROVE  ProcessTypes' /\ FlightTypes'
<1>0. /\ UNCHANGED <<mode, childVars, watchVars, ioVars, dropVars, shutdown>>
      /\ \E p \in CallPositions : Moves(c, p)
  BY CallStepMoves
<1>1. outcome' \in [Calls -> Outcomes \cup {"none"}]
  <2>1. CASE ReceiveOutcome(c)
    <3>1. follows[c] \in Calls /\ heard[follows[c]] # "none"
      BY <2>1 DEF ReceiveOutcome, Followed
    <3>2. heard[follows[c]] \in {"ok", "failed"}
      BY <3>1 DEF FlightTypes
    <3>3. outcome' = [outcome EXCEPT ![c] = heard[follows[c]]]
      BY <2>1, Zenon DEF ReceiveOutcome, EndsAs
    <3>. QED  BY <3>2, <3>3 DEF ProcessTypes, Outcomes
  <2>2. CASE CacheHit(c)
    BY <2>2 DEF CacheHit, EndsAs, ProcessTypes, Outcomes
  <2>3. CASE RefuseWorkDir(c) \/ Refused(c) \/ CannotPay(c) \/ BulkheadTimesOut(c)
    BY <2>3 DEF RefuseWorkDir, Refused, CannotPay, BulkheadTimesOut, EndsAs,
       ProcessTypes, Outcomes
  <2>4. CASE BeginInteractive(c) \/ BeginHeadless(c) \/ Lead(c) \/ Follow(c)
             \/ LockItselfOut(c) \/ SendOutcome(c) \/ Leave(c)
    <3>1. outcome' = outcome
      BY <2>4, Zenon DEF BeginInteractive, BeginHeadless, Lead, Follow, LockItselfOut,
         SendOutcome, Leave
    <3>. QED  BY <3>1 DEF ProcessTypes
  <2>5. CASE CacheMiss(c) \/ Admitted(c) \/ Pay(c) \/ EnterBulkhead(c)
             \/ ReportInteractive(c) \/ ReportHeadless(c) \/ WaitTimesOut(c)
    <3>1. outcome' = outcome
      BY <2>5, Zenon DEF CacheMiss, Admitted, Pay, EnterBulkhead, ReportInteractive,
         ReportHeadless, WaitTimesOut
    <3>. QED  BY <3>1 DEF ProcessTypes
  <2>. QED  BY <2>1, <2>2, <2>3, <2>4, <2>5, Zenon DEF AnyCallStep, CallStep
<1>2. ProcessTypes'
  <2>1. at' \in [Calls -> CallPositions]
    BY <1>0 DEF Moves, ProcessTypes
  <2>. QED  BY <1>0, <1>1, <2>1 DEF ProcessTypes, childVars, watchVars, ioVars, dropVars
<1>3. entry' \in Calls \cup {NoCall}
  <2>1. entry' \in {entry, c, NoCall}
    BY Zenon DEF AnyCallStep, CallStep, BeginInteractive, BeginHeadless, Evict,
       RefuseWorkDir, Lead, Follow, LockItselfOut, ReceiveOutcome, WaitTimesOut,
       SendOutcome, Leave, CacheHit, CacheMiss, Admitted, Refused, Pay, CannotPay,
       EnterBulkhead, BulkheadTimesOut, ReportInteractive, ReportHeadless, flightVars
  <2>. QED  BY <2>1 DEF FlightTypes
<1>4. follows' \in [Calls -> Calls \cup {NoCall}]
  <2>1. CASE Follow(c)
    <3>1. follows' = [follows EXCEPT ![c] = entry]
      BY <2>1, Zenon DEF Follow
    <3>. QED  BY <3>1 DEF FlightTypes
  <2>2. CASE ~Follow(c)
    <3>1. follows' = follows
      BY <2>2, Zenon DEF AnyCallStep, CallStep, BeginInteractive, BeginHeadless,
         RefuseWorkDir, Lead, LockItselfOut, ReceiveOutcome, WaitTimesOut,
         SendOutcome, Leave, CacheHit, CacheMiss, Admitted, Refused, Pay, CannotPay,
         EnterBulkhead, BulkheadTimesOut, ReportInteractive, ReportHeadless, flightVars
    <3>. QED  BY <3>1 DEF FlightTypes
  <2>. QED  BY <2>1, <2>2
<1>5. heard' \in [Calls -> {"none", "ok", "failed"}]
  <2>1. CASE SendOutcome(c)
    <3>1. heard' = [heard EXCEPT ![c] = IF outcome[c] = "ok" THEN "ok" ELSE "failed"]
      BY <2>1, Zenon DEF SendOutcome
    <3>. QED  BY <3>1 DEF FlightTypes
  <2>2. CASE ~SendOutcome(c)
    <3>1. heard' = heard
      BY <2>2, Zenon DEF AnyCallStep, CallStep, BeginInteractive, BeginHeadless,
         RefuseWorkDir, Lead, Follow, LockItselfOut, ReceiveOutcome, WaitTimesOut,
         Leave, CacheHit, CacheMiss, Admitted, Refused, Pay, CannotPay,
         EnterBulkhead, BulkheadTimesOut, ReportInteractive, ReportHeadless, flightVars
    <3>. QED  BY <3>1 DEF FlightTypes
  <2>. QED  BY <2>1, <2>2
<1>6. reports' \in [Calls -> {"none", "success", "failure", "two failures"}]
  <2>1. CASE ReportInteractive(c) \/ ReportHeadless(c)
    <3>1. reports' = [reports EXCEPT ![c] = Verdict(outcome[c])]
      BY <2>1, Zenon DEF ReportInteractive, ReportHeadless
    <3>. QED  BY <3>1 DEF FlightTypes, Verdict
  <2>2. CASE ~(ReportInteractive(c) \/ ReportHeadless(c))
    <3>1. reports' = reports
      BY <2>2, Zenon DEF AnyCallStep, CallStep, BeginInteractive, BeginHeadless,
         RefuseWorkDir, Lead, Follow, LockItselfOut, ReceiveOutcome, WaitTimesOut,
         SendOutcome, Leave, CacheHit, CacheMiss, Admitted, Refused, Pay, CannotPay,
         EnterBulkhead, BulkheadTimesOut, onceVars
    <3>. QED  BY <3>1 DEF FlightTypes
  <2>. QED  BY <2>1, <2>2
<1>7. limit' = limit
  BY Zenon DEF AnyCallStep, CallStep, BeginInteractive, BeginHeadless,
     RefuseWorkDir, Lead, Follow, LockItselfOut, ReceiveOutcome, WaitTimesOut,
     SendOutcome, Leave, CacheHit, CacheMiss, Admitted, Refused, Pay, CannotPay,
     EnterBulkhead, BulkheadTimesOut, ReportInteractive, ReportHeadless, onceVars
<1>. QED  BY <1>2, <1>3, <1>4, <1>5, <1>6, <1>7 DEF FlightTypes

LEMMA CallFlagsKept ==
    ASSUME FlagTypes, NEW c \in Calls, AnyCallStep(c)
    PROVE  FlagTypes'
<1>1. CASE BeginHeadless(c)
  BY <1>1, Zenon DEF BeginHeadless, Evict, FlagTypes
<1>2. CASE Lead(c)
  BY <1>2, Zenon DEF Lead, FlagTypes
<1>3. CASE LockItselfOut(c)
  BY <1>3, Zenon DEF LockItselfOut, FlagTypes
<1>4. CASE WaitTimesOut(c)
  BY <1>4, Zenon DEF WaitTimesOut, FlagTypes
<1>5. CASE Leave(c)
  BY <1>5, Zenon DEF Leave, FlagTypes
<1>6. CASE ~(BeginHeadless(c) \/ Lead(c) \/ LockItselfOut(c) \/ WaitTimesOut(c) \/ Leave(c))
  <2>1. shutdown' = shutdown /\ stale' = stale /\ locked' = locked /\ forced' = forced
    BY <1>6, Zenon DEF AnyCallStep, CallStep, BeginInteractive, RefuseWorkDir, Follow,
       ReceiveOutcome, SendOutcome, CacheHit, CacheMiss, Admitted, Refused, Pay,
       CannotPay, EnterBulkhead, BulkheadTimesOut, ReportInteractive,
       ReportHeadless, flightVars
  <2>. QED  BY <2>1, Zenon DEF FlagTypes
<1>. QED  BY <1>1, <1>2, <1>3, <1>4, <1>5, <1>6, Zenon

\* A call that waits has found an entry; a report is made on the way out.
LEMMA CallPlacesKept ==
    ASSUME ProcessTypes, FlightTypes, Positions, Guarded, Followed, Unreported,
           NEW c \in Calls, AnyCallStep(c)
    PROVE  Positions' /\ Guarded' /\ Followed' /\ Unreported'
<1>1. /\ mode' = mode /\ child' = child /\ tracked' = tracked /\ armed' = armed
      /\ reaper' = reaper
      /\ at[c] \notin InProcess /\ at[c] # "done"
  BY CallStepMoves DEF childVars, dropVars
<1>2. PICK p \in CallPositions \ InProcess : Moves(c, p)
  BY CallStepMoves
<1>3. at'[c] = p /\ \A d \in Calls : d # c => at'[d] = at[d]
  BY <1>2 DEF Moves, ProcessTypes
<1>4. Positions'
  <2>1. ASSUME NEW d \in Calls PROVE Possible(mode[d], at'[d])
    <3>1. CASE d = c
      BY <1>2, <1>3, <3>1 DEF Moves
    <3>2. CASE d # c
      BY <1>3, <3>2 DEF Positions
    <3>. QED  BY <3>1, <3>2
  <2>. QED  BY <1>1, <2>1 DEF Positions
<1>5. Guarded'
  <2>1. child[c] # "running" \/ c \in reaper
    BY <1>1 DEF Guarded, InProcess
  <2>. QED  BY <1>1, <1>3, <2>1 DEF Guarded
<1>6. Followed'
  <2>1. CASE Follow(c)
    <3>1. follows' = [follows EXCEPT ![c] = entry] /\ entry # NoCall
      BY <2>1, Zenon DEF Follow
    <3>2. follows'[c] \in Calls /\ \A d \in Calls : d # c => follows'[d] = follows[d]
      BY <3>1 DEF FlightTypes
    <3>. QED  BY <1>3, <3>2 DEF Followed
  <2>2. CASE ~Follow(c)
    <3>1. follows' = follows
      BY <2>2, Zenon DEF AnyCallStep, CallStep, BeginInteractive, BeginHeadless,
         RefuseWorkDir, Lead, LockItselfOut, ReceiveOutcome, WaitTimesOut,
         SendOutcome, Leave, CacheHit, CacheMiss, Admitted, Refused, Pay, CannotPay,
         EnterBulkhead, BulkheadTimesOut, ReportInteractive, ReportHeadless, flightVars
    <3>2. at'[c] # "wait"
      BY <2>2 DEF AnyCallStep, CallStep, BeginInteractive, BeginHeadless, GoTo, FailsTo,
         RefuseWorkDir, Lead, LockItselfOut, ReceiveOutcome, WaitTimesOut,
         SendOutcome, Leave, CacheHit, CacheMiss, Admitted, Refused, Pay, CannotPay,
         EnterBulkhead, BulkheadTimesOut, ReportInteractive, ReportHeadless, ProcessTypes
    <3>. QED  BY <1>3, <3>1, <3>2 DEF Followed
  <2>. QED  BY <2>1, <2>2
<1>7. Unreported'
  <2>1. CASE ReportInteractive(c) \/ ReportHeadless(c)
    <3>1. reports' = [reports EXCEPT ![c] = Verdict(outcome[c])]
      BY <2>1, Zenon DEF ReportInteractive, ReportHeadless
    <3>2. at'[c] \in {"send", "done"}
      BY <2>1 DEF ReportInteractive, ReportHeadless, GoTo, ProcessTypes
    <3>3. \A d \in Calls : d # c => reports'[d] = reports[d]
      BY <3>1 DEF FlightTypes
    <3>. QED  BY <1>3, <3>2, <3>3 DEF Unreported
  <2>2. CASE ~(ReportInteractive(c) \/ ReportHeadless(c))
    <3>1. reports' = reports
      BY <2>2, Zenon DEF AnyCallStep, CallStep, BeginInteractive, BeginHeadless,
         RefuseWorkDir, Lead, Follow, LockItselfOut, ReceiveOutcome, WaitTimesOut,
         SendOutcome, Leave, CacheHit, CacheMiss, Admitted, Refused, Pay, CannotPay,
         EnterBulkhead, BulkheadTimesOut, onceVars
    <3>2. at[c] \in {"send", "leave"} => at'[c] \in {"leave", "done"}
      BY <2>2 DEF AnyCallStep, CallStep, BeginInteractive, BeginHeadless, GoTo, FailsTo,
         RefuseWorkDir, Lead, Follow, LockItselfOut, ReceiveOutcome, WaitTimesOut,
         SendOutcome, Leave, CacheHit, CacheMiss, Admitted, Refused, Pay, CannotPay,
         EnterBulkhead, BulkheadTimesOut, ProcessTypes
    <3>. QED  BY <1>1, <1>3, <3>1, <3>2 DEF Unreported
  <2>. QED  BY <2>1, <2>2
<1>. QED  BY <1>4, <1>5, <1>6, <1>7

LEMMA CallKeeps ==
    ASSUME IInv, NEW c \in Calls, AnyCallStep(c)
    PROVE  IInv'
<1>0. /\ ProcessTypes /\ FlightTypes /\ CounterTypes /\ FlagTypes /\ Positions
      /\ Balance /\ Guarded /\ Followed /\ Unreported /\ EntryIsLeaders
  BY TypeParts, BalanceMeans DEF IInv, SafetyInv
<1>1. ProcessTypes' /\ FlightTypes'
  BY <1>0, CallTypesKept
<1>2. FlagTypes'
  BY <1>0, CallFlagsKept
<1>3. Positions' /\ Guarded' /\ Followed' /\ Unreported'
  BY <1>0, CallPlacesKept
<1>4. /\ Balance' /\ limit' = limit
      /\ remaining' \in Nat /\ free' \in Nat /\ free' <= Permits
  BY <1>0, CallBalance
<1>5. EntryIsLeaders'
  BY <1>0, EntryKept
<1>6. CounterTypes'
  <2>1. \A S \in SUBSET Calls : Cardinality(S) \in Nat
    BY FS_Subset, FS_CardinalityType, CallsAssumption
  <2>2. /\ Cleaners' \in SUBSET Calls /\ Sessions' \in SUBSET Calls
        /\ Leaders' \in SUBSET Calls /\ Payers' \in SUBSET Calls
    BY DEF Cleaners, Sessions, Leaders, Payers
  <2>3. /\ Cardinality(Cleaners)' \in Nat /\ Cardinality(Sessions)' \in Nat
        /\ Cardinality(Leaders)' \in Nat /\ Cardinality(Payers)' \in Nat
    BY <2>1, <2>2
  <2>. QED  BY <1>4, <2>3 DEF Balance, CounterTypes
<1>7. TypeOK'
  BY <1>1, <1>2, <1>6, TypeParts, PTL
<1>8. GuardsAccounted' /\ PermitsBalanced'
  BY <1>4, BalanceMeans, PTL
<1>. QED  BY <1>3, <1>5, <1>7, <1>8 DEF IInv, SafetyInv

\* Only a sent shutdown, an entry that ages and the maintenance have no call.
LEMMA OtherKeeps ==
    ASSUME IInv,
           \/ EntryAges \/ Maintain \/ UNCHANGED vars
           \/ SendShutdown /\ UNCHANGED <<flightVars, onceVars>>
    PROVE  IInv'
<1>1. /\ mode' = mode /\ at' = at /\ outcome' = outcome
      /\ UNCHANGED <<childVars, watchVars, ioVars, dropVars>>
      /\ UNCHANGED <<heard, follows, flights, locked, onceVars>>
  BY Zenon DEF EntryAges, Maintain, SendShutdown, vars, processVars, flightVars
<1>2. /\ entry' \in {entry, NoCall}
      /\ ~forced' => ~forced /\ entry' = entry
  <2>1. CASE Maintain
    BY <2>1, Zenon DEF Maintain, Evict
  <2>2. CASE ~Maintain
    <3>1. entry' = entry /\ forced' = forced
      BY <2>2, Zenon DEF EntryAges, vars, flightVars
    <3>. QED  BY <3>1, Zenon
  <2>. QED  BY <2>1, <2>2, Zenon
<1>0. /\ ProcessTypes /\ FlightTypes /\ CounterTypes /\ FlagTypes /\ Positions
      /\ Balance /\ Guarded /\ Followed /\ Unreported /\ EntryIsLeaders
  BY TypeParts, BalanceMeans DEF IInv, SafetyInv
<1>3. FlagTypes'
  <2>1. locked' = locked
    BY <1>1
  <2>2. CASE EntryAges
    BY <1>0, <2>1, <2>2, Zenon DEF EntryAges, FlagTypes, processVars
  <2>3. CASE Maintain
    BY <1>0, <2>1, <2>3, Zenon DEF Maintain, Evict, FlagTypes, processVars
  <2>4. CASE SendShutdown /\ UNCHANGED <<flightVars, onceVars>>
    BY <1>0, <2>4, Zenon DEF SendShutdown, FlagTypes, flightVars
  <2>5. CASE UNCHANGED vars
    BY <1>0, <2>5, Zenon DEF vars, processVars, flightVars, FlagTypes
  <2>. QED  BY <2>2, <2>3, <2>4, <2>5
<1>4. ProcessTypes'
  BY <1>0, <1>1, Zenon DEF ProcessTypes, childVars, watchVars, ioVars, dropVars
<1>5. FlightTypes' /\ CounterTypes'
  <2>1. entry' \in Calls \cup {NoCall}
    BY <1>0, <1>2 DEF FlightTypes
  <2>. QED
    BY <1>0, <1>1, <2>1, Zenon DEF FlightTypes, CounterTypes, childVars, onceVars
<1>6. Positions' /\ Guarded' /\ Followed' /\ Unreported'
  BY <1>0, <1>1, Zenon DEF Positions, Guarded, Followed, Unreported, childVars, dropVars,
     onceVars
<1>7. /\ Cleaners' = Cleaners /\ Sessions' = Sessions /\ Leaders' = Leaders
      /\ Payers' = Payers /\ Inside' = Inside /\ Spent' = Spent
  BY <1>1, Zenon DEF Cleaners, Sessions, Leaders, Payers, Inside, Spent, onceVars
<1>8. EntryIsLeaders'
  BY <1>0, <1>2, <1>7, Zenon DEF EntryIsLeaders
<1>9. Balance'
  BY <1>0, <1>1, <1>7, Zenon DEF Balance, childVars, onceVars
<1>10. TypeOK'
  BY <1>3, <1>4, <1>5, TypeParts, PTL
<1>11. GuardsAccounted' /\ PermitsBalanced'
  BY <1>9, BalanceMeans, PTL
<1>. QED  BY <1>6, <1>8, <1>10, <1>11 DEF IInv, SafetyInv

LEMMA StepPreserves == IInv /\ [Next]_vars => IInv'
<1>. SUFFICES ASSUME IInv, [Next]_vars PROVE IInv'
  OBVIOUS
<1>1. CASE \E c \in Calls : AnyCallStep(c)
  BY <1>1, CallKeeps
<1>2. CASE \E c \in Calls : AnyProcessStep(c) /\ UNCHANGED <<flightVars, onceVars>>
  <2>1. PICK c \in Calls : AnyProcessStep(c) /\ UNCHANGED <<flightVars, onceVars>>
    BY <1>2
  <2>2. /\ SafetyInv' /\ ProcessTypes' /\ FlightTypes' /\ CounterTypes'
        /\ shutdown' = shutdown
    BY <2>1, ProcessKeeps
  <2>3. FlagTypes
    BY TypeParts DEF IInv
  <2>4. FlagTypes'
    BY <2>1, <2>2, <2>3, Zenon DEF FlagTypes, flightVars
  <2>5. TypeOK'
    BY <2>2, <2>4, TypeParts, PTL
  <2>. QED  BY <2>2, <2>5 DEF IInv
<1>3. CASE \/ EntryAges \/ Maintain \/ UNCHANGED vars
           \/ SendShutdown /\ UNCHANGED <<flightVars, onceVars>>
  BY <1>3, OtherKeeps
<1>. QED
  BY <1>1, <1>2, <1>3, Zenon DEF Next, Stopped, ProcessNext, AnyCallStep, AnyProcessStep

-----------------------------------------------------------------------------

\* The strengthened invariant holds in every state of every behaviour.
THEOREM Invariance == Spec => []IInv
BY InitEstablishes, StepPreserves, PTL DEF Spec

\* Every variable of the generator calls and their processes stays in its
\* range, and no counter of guards goes below zero.
THEOREM CodegenTypeCorrect == Spec => []TypeOK
BY Invariance, PTL DEF IInv

\* No generator that runs is forgotten: it is tracked and the call that started
\* it has not returned, or a reaper thread has yet to kill it (ChildCleanup,
\* PtyChildCleanup).
THEOREM NoOrphanedGenerator == Spec => []NothingLeftRunning
<1>1. IInv => NothingLeftRunning
  BY DEF IInv, SafetyInv, Guarded, NothingLeftRunning, Returned
<1>. QED  BY <1>1, Invariance, PTL

\* The counts that ensure_no_live_guards polls are the guards alive, and the
\* budget is split into what is left, held and spent.
THEOREM EveryGuardAccounted == Spec => []GuardsAccounted
<1>1. IInv => GuardsAccounted
  BY DEF IInv, SafetyInv
<1>. QED  BY <1>1, Invariance, PTL

\* One call with a key runs a generator at a time unless an entry of the single
\* flight was removed before its leader was done.
THEOREM SingleFlight == Spec => []OneGenerator
<1>1. IInv => OneGenerator
  <2>. SUFFICES ASSUME IInv, ~forced PROVE Cardinality(Leaders) <= 1
    BY Zenon DEF OneGenerator
  <2>1. \A c \in Leaders : entry = c
    BY DEF IInv, SafetyInv, EntryIsLeaders
  <2>2. Leaders \subseteq {entry}
    BY <2>1
  <2>3. IsFiniteSet({entry}) /\ Cardinality({entry}) = 1
    BY FS_Singleton
  <2>4. Cardinality(Leaders) <= Cardinality({entry})
    BY <2>2, <2>3, FS_Subset
  <2>. QED  BY <2>3, <2>4
<1>. QED  BY <1>1, Invariance, PTL

=============================================================================
