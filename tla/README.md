# lambda-rlm in TLA+

lambda-rlm answers a question about a source tree that is too large for one
prompt. It splits the text recursively (`phi`), asks a language model about the
leaves (`Oracle::call`), reduces the answers, and in its fix loop hands the
result to a code generator that edits the user's files, again and again until
the analysis is clean. Every request costs money, so most of the code is about
doing no more of them than allowed and about stopping in an orderly way: a call
budget, a bulkhead, a circuit breaker, single flight, a replay cache, guards
that give everything back when a task is aborted, and a shutdown that spans all
of these.

These modules model that machinery from the Rust source under `src/src/`. TLC
checks them on small instances; TLAPS proves what is not liveness for every
instance. `PROJECT.json` is the index: runs, the source lines of each
definition, the mutants that show that each property can fail, hazards, findings
and theorems.

## 1. The system

| component | source | state it keeps | operations |
|---|---|---|---|
| circuit breaker | resilience.rs | three atomics: failures, time of the last, probe flag | allow_request, record_success, record_failure |
| call budget, budget guard | resilience.rs | one atomic counter; a global count of live guards | try_acquire, try_acquire_n, release, commit, drop |
| oracle call path | oracle.rs | bulkhead permits, in-flight map, shutdown flag, live-guard counts | call: acquire, look up, follow or lead, retry, store, broadcast |
| provider requests | oracle.rs | buffers of a stream | invoke, read_stream |
| replay cache | resilience.rs | files in a directory, an enabled flag | get_validated, put, evict, quarantine, sweep |
| recursion | phi.rs | a semaphore, a JoinSet per inner node, the degradation counters | phi: leaf, split, preflight, map, collect, reduce, abort and drain |
| reducers, combinators, verifier | reduce.rs, combinator.rs, verify.rs | none | pure, except that reducers call the oracle |
| planner | cost.rs | none | compute_plan |
| fix loop and run lifecycle | main.rs | iteration, shutdown channel, session flag and count, run status | analyse, generate, drain, signal task |
| code generators | codegen.rs | in-flight map with a time to live, tracked children, live-guard counts, a watchdog per session | run_code_generator, interactive session, kill and reap |
| history, run log, dashboard | history.rs, runlog.rs, dashboard.rs | SQLite tables, files | record, render |

How they meet:

- `main` owns one Oracle (shared through an Arc), one budget, one breaker, one
  cache, and a watch channel for shutdown. The signal task sets
  `Oracle::shutdown` first and sends on the channel after that.
- `phi` spawns a task per chunk. Parents drop their permit before they wait for
  children, children take theirs before they are spawned. Leaves and reducers
  call the oracle.
- An oracle call holds a bulkhead permit and a `BudgetGuard` from start to end,
  and an `InflightGuard` while it leads. An abort drops them at an await, in
  reverse order of declaration.
- `ensure_no_live_guards` in `main` polls four global counts before a run or an
  iteration is called done.
- The generator takes units from the same budget. Its own resilience machinery
  (single flight, breaker, replay) is like the oracle's but written separately.

Where it is hard: tasks interleave at atomics, locks and awaits; aborts may hit
any await; results arrive in any order; followers hold resources their leader
may need; the half-open probe is a resource that must be given back; shutdown
races with everything; ten exits of `Oracle::call` each have to account for
their budget unit by hand. The list with line numbers is under `hazards`.

What makes each part correct:

- breaker: the probe slot is never lost, the counter stays bounded, and it
  admits requests again after a failure;
- budget: nothing lost or made up, all-or-nothing reservation, progress;
- oracle: nothing leaks, every exit charges correctly, one request per key at a
  time, the right answer to the right prompt, no attempt after shutdown but the
  one already begun, every call ends;
- recursion: source order wherever the code composes, nothing lost without a
  count but what a model leaves out, local failures, structured
  concurrency, no deadlock on permits;
- fix loop: `ok` means drained, bounds hold, signals work, the run ends;
- replay cache: no reader sees a partial entry, eviction keeps its bound, no
  temp file stays behind, the cache turns itself off only for cause;
- code generators: no process is left running without somebody who will end
  it, every guard is counted and every
  unit accounted for on every way out, one generator per summary unless an entry
  was taken away, every call returns;
- pure code: what is split is asked, every line once and in order, over all
  levels of the recursion; how a stream is cut into chunks cannot be seen in what
  is read of it; an answer is whole or refused.

## 2. Modules

| module | models | composed with |
|---|---|---|
| `CircuitBreaker` | every load, store and compare-exchange of the breaker | |
| `CircuitBreakerProofs` | theorems | extends `CircuitBreaker` |
| `Ledger` | abstract: what a budget promises, in sets of units | |
| `CallBudget` | the budget's atomics and guards, under calls and planners | refines `Ledger` (`L`) |
| `CallBudgetProofs` | theorems, the refinement among them | extends `CallBudget` |
| `Oracle` | concurrent calls of `Oracle::call` | breaker and budget operations as single steps; outcomes of `Request` |
| `OracleProofs` | theorems | extends `Oracle` |
| `ReplayCache` | the cache directory under several calls and processes | |
| `ReplayCacheProofs` | theorems | extends `ReplayCache` |
| `Phi` | the recursion tree | takes from `Oracle` that calls end |
| `PhiProofs` | theorems | extends `Phi` |
| `FixLoop` | the run: loop, signals, session, drain | takes the analysis and the generator as results |
| `FixLoopProofs` | theorems | extends `FixLoop` |
| `GeneratorProcess` | the child process of a generator: spawn, watchdog, termination, clean-up | |
| `CodegenFlight` | `run_code_generator`: single flight, cache, breaker, budget, bulkhead | extends `GeneratorProcess`, whose steps are steps of its calls |
| `CodegenProofs` | theorems about both | extends `CodegenFlight` |
| `Splitting` | the planner, replanning, chunking and the recursion as to which text goes where | |
| `Request` | one request: segments and continuations, the stream parser | |
| `Analysis` | a behaviour of one of these two | extends `Splitting` and `Request` |
| `AnalysisProofs` | theorems | extends `Analysis` |
| `MC...` | the instances TLC checks | extend their module |

### CircuitBreaker

`consecutive_failures` and `half_open_probe` are the atomics of the same names;
`last_failure_age` is the age of `last_failure_mono_ms`, which is all the code
looks at. Ages saturate at the cooldown, so the clock needs no bound. `pc` is
the position of each caller between two atomics, `age` and `new_failures` are
its locals. `allow_request` is LoadFailures, LoadLast, CheckCooldown, Claim;
`record_success` is RecordSuccess and ClearAfterSuccess; `record_failure` is
RecordFailure, ReadClock, Stamp, ClearAfterFailure, Rejuvenate. EndSilently is
a call that reports nothing, as the OutputTruncated branch of `Oracle::call`
and an aborted task. `probing` and `abandoned` are history variables.

### CallBudget and Ledger

Callers take one unit each by the compare-exchange loop (Load, CompareExchange,
Retry), wrap it (NewGuard), and commit or drop it; DropUncommitted and Release
are the two atomics of the drop. Planners reserve a unit per child all or
nothing and give the reservation back before the children start, as the
pre-flight check of `phi` does. `Parent` is the tree. The refinement mapping
names units `<<node, i>>`; a unit is out while its node is between acquiring
and committing or giving back, and spent when its node has committed.

### Oracle

One step is what a task does between two points where another task's effect
matters: AcquireResources / TimeOut; CheckCache; Follow or Lead on the map
entry; ReceiveResult, LeaderGone; BeginAttempt (shutdown and breaker checks),
then SendRequest, between which the code may sleep; Continue for each further
segment of a truncated answer, which `invoke` asks for with a request of its own
and without a look at the shutdown flag; Succeed, FailFast, Truncated, Retry;
Broadcast; DropInflightGuard, DropResources in drop order;
Cancel at every await. The service answers with a text the cache's reader will
accept or not. The cache may evict, fail to store, or turn itself off. `sent`
is what a watch channel holds: nothing if nobody was subscribed at the send.
`late` is a history variable: the requests a call has posted after shutdown.

### ReplayCache

`entry` and `temp` are the files of the directory by what a reader makes of
them; `enabled` is the flag of each process. One access to the directory is one
step: FindBad, Quarantine, QuarantineFails, Delete, DeleteFails for
`get_validated` and `quarantine`; BeginPut (which lists the entries), Evict,
OpenTemp, WriteTemp, WriteFails, Rename, RenameFails, Clean for `put`;
RemoveTemp for a sweep, of the maintenance task or of a process that starts.
Which entries are oldest is left open. Kill ends a process at any point and
starts another; its temp files are then nobody's (`Dead`). Rot is bit rot, and
what an operating system that crashed before it wrote its buffers leaves: the
code does not flush a temp file before it renames it and relies on the hash.
A file without a header is a miss that changes nothing.

NoSibling says that calls of one process do not put one key at the same time.
For the oracle that is NoConcurrentDuplicate; the planner and the generators put
one after the other.

### Phi

A node of the tree is a task. Leaves ask the model; the verifier may reject. An
inner node panics (`comb_split_overlap`), finds nothing to map, degrades at the
pre-flight check, or maps: Spawn takes a permit per child, Collect joins them
in any order, then Compose or AskToReduce. A result is the sequence of leaves
whose findings it holds, with `Nothing` for the sentence written when there is
nothing, so the properties can speak about order and loss. What the code does
with results is deterministic: filter, sort, join. What a model does with them is
not: the prompt of a search asks it to rank them and to discard what is not
relevant, those of a summary and of a multi-hop question to combine them. So
`given` holds what a node asked a model to make one text of, and Reduced takes
for the answer any arrangement of any part of it (Syntheses). Shutdown and abort
are StopMapping, StartDraining and Cancel.

### FixLoop

`pc` is the position of the run, `drain` why `ensure_no_live_guards` was
called. The signal task has its three steps (TakeSignal, TriggerShutdown,
SendShutdown). The analysis and the generator may leave guards behind that drop
later. The generator pays `CodegenUnits`, unless it is interactive or its
summary is in the replay cache.

### GeneratorProcess and CodegenFlight

`at` is the position of each call; `mode` is how it runs its generator: headless
(`run_generator_process`), on the terminal (`run_generator_interactive_process`)
or on a pseudo-terminal (`run_opencode_interactive_pty`). `child` is the process
as the kernel sees it, `armed` says whose cleanup guard still holds it,
`tracked` is `LIVE_CODEGEN_CHILDREN`, and the four counts are the statics that
`ensure_no_live_guards` polls.

- The poll loop is PollExited, PollFails, HearShutdown, HearWatchdog, and for
  the pseudo-terminal PtyPollExited and PtyDeadline; termination is ExitsInTime,
  Escalate, AfterKill, or PtyTerminate and PtyAfterKill. The end of a session is
  StopIo, JoinIo, StopWatchdog.
- The watchdog task is StartupTimer, SessionTimer, HardTimer and WatchdogStops.
- GlobalTimeout and OuterTimeout drop the future of a session at an await; what
  is then left to do is DropGuard and ReapDropped, the drops of `ChildCleanup`
  and `PtyChildCleanup`. The drop of a `ChildCleanup` untracks the process first
  and leaves it to a reaper thread, for which it waits a bounded time: `reaper`
  holds the processes of such threads, ReaperKills and ReaperEnds are their
  steps, and a call may be over before either. The drop of a `PtyChildCleanup`
  kills the process itself and untracks it last.
- BeginHeadless (which evicts), Lead, Follow, LockItselfOut, WaitTimesOut,
  ReceiveOutcome, SendOutcome and Leave are `run_code_generator`; CacheHit to
  ReportHeadless are `run_code_generator_once`.

The processes of a group, the terminal modes and the window size are left out,
and a signal to a group has a step only if it is SIGKILL: what SIGTERM and
SIGHUP may lead to, an exit, may happen anyway.

### Splitting, Request and Analysis

A text of `Splitting` is an interval of lines of the source, which is what every
text that `phi` gets is; a line has a length, may open a definition and may have
a keyword. DispatchDirectly, MakePlan, Replan and Execute are the phases of
`run_analysis`; AskLeaf, CutLeaf, PanicInSplit and Split are what `phi` does
with a piece. With a budget, DegradeAtPreflight gives up a branch whose children
the units that are left do not suffice for, and RefuseLeaf a leaf that finds
none. Tasks run at a time and the module takes their pieces one after the other,
so how many units the others have taken is left open: below the root either may
happen at any branch, at the root only if the whole budget is short; and no more
leaves are asked than there are units. CombSplit, CombSplitOverlap and
StructuralChunk are the functions of `combinator.rs`; Packing is the loop of the
last over its blocks, line by line. The planner's floating point is replaced by
what it may return: a k from `AutoKs`, a tau from `AutoTaus`, and at an exact
power of k a depth that may be one too high.

`Request` keeps the buffer of `read_stream` as an interval of a body of tokens:
Receive is a chunk, TakeLine and EndEvent take a line from the buffer,
EndOfStream and Incomplete are the end. Judge is what `invoke` makes of a
finished segment: hand out, continue or refuse.

## 3. Runs

| run | instance | what it shows |
|---|---|---|
| `breaker` | 3 callers, threshold 1, cooldown 1 | FailuresBounded, ProbeFlagOwned; AdmitsUnlessAbandoned: the breaker recovers unless a probe ends unreported |
| `breaker_stuck` | 2 callers | violation: KeepsAdmitting |
| `budget` | 4 calls, 2 planners on two levels, limits 0, 3, 4 | Conservation, LiveCountExact, refinement of Ledger, every node settles |
| `oracle` | 3 calls, 2 prompts, 2 permits, 1 retry, answers of up to 3 segments, threshold 1 | NothingLeaks, ChargedUnlessCancelled, NoConcurrentDuplicate, AnswersOwnPrompt, BillingStops, EveryCallEnds |
| `replay_cache` | 2 processes with a call each, 4 keys, limit 1, 1 kill, any file operation may fail | EntriesWhole, EntriesBounded, NoStrayTemps |
| `replay_cache_disabled` | 1 process with 2 calls, nothing fails | violation: DisabledForCause |
| `phi` | 6 tasks on four levels, 1 permit, 6 kinds of call | SourceOrder, NothingLost, FailuresStayLocal, NoneOutlivesAnswer, TreeEnds |
| `phi_clean` | the same | violation: CleanMeansNoFinding |
| `fix_loop` | 12 set-ups, 2 signals | OkMeansDrained, OneGeneratorAfterShutdown, SigintHeardOutsideSession, RunEnds, TerminationEndsRun |
| `fix_loop_session` | the same | violation: NoSessionPermitLive |
| `codegen_flight` | 2 headless calls with one key and a permit, or an interactive one of either kind; budgets 0, 3, 4 of units of 2 | NothingLeftRunning, GuardsAccounted, OneGenerator, EveryCallReturns |
| `analysis` | sources of up to 4 lines of 5 kinds (and 5 of 2), 4 tasks, 2 budgets; streams of up to 2 data lines with all line ends and continuations | EveryLineAsked, ChunkingInvisible, WholeOrRefused |

Why the bounds are enough for what the runs ask:

- breaker: a race on the probe slot needs one caller that holds the claim, one
  that clears it late and one that claims again. With threshold 1 every failure
  opens the breaker and every count above 2 rejuvenates, so all branches are
  taken; larger thresholds are left to the proofs.
- budget: two levels of planners let a reservation race with calls, with
  another reservation and with an unplanned call; limit 3 refuses some nodes,
  limit 4 is exactly what the calls use, 0 is unlimited.
- oracle: two calls with one key make a leader and a follower, the third a
  second follower, a successor to a leader that failed, or a stranger; 2
  permits make one call wait. One retry and threshold 1 reach the open and the
  half-open breaker. `MAX_TRUNCATION_CONTINUATIONS` is 4 in the code and 2 in the
  run, which has a first, a middle and a last segment.
- replay cache: two calls are one writer and one that reads, sweeps away or
  evicts under it, or two writers that both find room. With limit 1 an eviction
  removes two entries or more, and 4 keys let the entries exceed the bound if
  they could. Keys are interchangeable and no property of the runs is a
  liveness property, so symmetry over keys is sound. More calls are left to the
  proofs.
- phi: a single permit is the worst case for a tree with inner nodes below the
  root; the code's minimum is 8. Four levels have an inner node whose parent
  and child are inner nodes.
- fix loop: two iterations show what carries over from one to the next; the
  bounds `MaxSignals`, `MaxLinger` and `MaxLate` are constants of the module.
  `CodegenUnits` is 2 in the runs and 50 in the code; only its relation to what
  remains matters.
- codegen_flight: two calls are a leader and a follower that loses patience, a
  leader whose entry is gone and its successor, or two at a bulkhead with one
  permit. Budget 3 pays one generator, 4 pays both. The program has a permit for
  one interactive session, so one such call at a time is all there is; more
  headless calls are left to the proofs.
- analysis: limits are scaled with the input (tau 3, lines of 5, 3 chunks, depth
  2, 11 characters), so that every limit is reached by some of the sources and
  missed by others. 5 lines in 2 and 3 chunks are the uneven splits, and make
  overlaps start past the end. A budget of 2 is short for a split in three at
  the root, for the leaves below a split in two, and suffices for others. A
  stream of two data lines has a line end of each kind and each length between,
  before and behind them, and every way to cut it into chunks; the buffer holds
  8 tokens and an answer 2 events.

Deadlock is checked in every run but those of the replay cache, where calls may
find every cache turned off and have nothing left to do, and `analysis`, whose
behaviours end with the answer; Terminated, Finished, AllDone and Stopped are the
states in which the other programs have ended.

## 4. Fairness

- CircuitBreaker: weak fairness for the clock and for each caller's thread.
- CallBudget: weak fairness for each task, and strong fairness for a successful
  compare-exchange: the weak form may fail spuriously, but not for ever on a
  value that keeps matching.
- Oracle: weak fairness for each call, whose requests are bounded by the
  provider's timeout (it spans all segments of an answer) and their number by
  `MAX_TRUNCATION_CONTINUATIONS`. None for aborts, shutdown or the end of a
  cooldown: nothing needs them.
- Phi: weak fairness for each task; that a call comes back is EveryCallEnds.
- ReplayCache: none; its properties are safety.
- FixLoop: weak fairness for the run and for the signal task. The generator is
  assumed to exit. No signal has to come.
- CodegenFlight: weak fairness for each call, its process function, the reaper
  thread it may have left (nobody waits for it, but it is a thread of the
  program) and its watchdog, of whose timers only the session's has to fire: the
  code starts it for every session. A headless generator is assumed to exit,
  since nothing in the code makes it; an interactive one is not, nor does the
  kernel have to end a killed process. A waiter need not lose patience. No
  shutdown has to come.
- Analysis: none; its properties are safety.

## 5. Proofs

`CircuitBreakerProofs` (from BreakerAssumption: finitely many callers, positive
threshold and cooldown):

- BreakerTypeCorrect;
- ProbeSlotNeverLost. ProbeFlagOwned is inductive with the types. Every step
  that takes a caller out of `probing` clears the flag or, in EndSilently,
  records a claim that still stands as abandoned;
- FailureCounterBounded. The bound is a multiple of the threshold above the
  cap. A count that reaches it passes the rejuvenation test, so its caller joins
  Rejuvenators, and the bound moves up by one threshold; a caller leaves
  Rejuvenators only by storing the cap. BoundKept, BoundReset and BoundCounting
  are these three kinds of steps.

`CallBudgetProofs` (from BudgetAssumption: finite, disjoint sets of nodes, a
parent function, a planner has children):

- TypeCorrect, BudgetConserved, LiveCountCorrect from the inductive invariant
  `IInv == TypeOK /\ CasEnough /\ Conservation /\ LiveCountExact`. CasEnough is
  the strengthening: a caller about to compare-exchange has loaded a value that
  was large enough, and the exchange succeeds only if the counter has that
  value, so the counter cannot go below zero. The lemmas AddUnits and
  RemoveUnits count sets of units;
- ImplementsLedger: each step of the code is a Lend, GiveBack or Spend of the
  ledger for the units of one node, or a stutter; that a loan does not exceed
  the free units follows from Conservation.

`ReplayCacheProofs` (from CacheAssumption: finitely many calls and keys):

- CacheTypeCorrect;
- EntriesAlwaysWhole from `IInv == TypeOK /\ Separate /\ RenamesWhole /\
  EntriesWhole`: no two puts of one process have one key (Separate), hence no
  two puts share a temp file, hence what is about to be renamed was written to
  its end or swept away (RenamesWhole);
- TempsAlwaysOwned: NoStrayTemps is inductive with the types;
- EntriesNeverExceed from Room. Counting entries and puts on their way is not
  inductive: a put that is evicting may find its victims gone and still adds
  its entry, and one that is killed never removes them. Room bounds, for every
  set of evicting puts, the entries without their victims plus what they and
  the pending puts will add. FewerFit and FewFit carry the counting; one lemma
  for each step that adds an entry or a put to the count.

`OracleProofs` (from OracleAssumption: finitely many callers, at least one
permit, positive threshold):

- OracleTypeCorrect, NoResourceLeaks, ChargesAreExact, OneRequestPerKey,
  AnswersAreOwn, BillingStopsAfterShutdown from one inductive invariant.
  ChargeDecided says at which steps the budget unit of a call is still open,
  BudgetBalanced what the budget is short of, LateOnce that a call that has posted
  after shutdown posts at most the segments of the answer it is at: its count is
  bounded by the number of the segment, and a retry leads to the check of the
  flag, not to another request. AnswersKept
  that every place an answer can be taken from (cache, channel, the call itself)
  has one to the right prompt. NothingLeaks is part of it: the exits commute with
  the counts only if every guard is held exactly where it says.

`PhiProofs` (from PhiAssumption: a finite tree whose nodes are all reached from
the root, with its leaves in `Source` in the order of the tree and none twice):

- PhiTypeCorrect: permits stay between none and all, from PermitsBalanced;
- OnlyShutdownSpreads: inductive with the types;
- StructuredConcurrency: "no task is left below" is a statement about a subtree
  of any depth. InOrder says it of a node and its children, which a step can be
  checked against; that it then holds of the whole tree is the assumption that
  the root reaches all nodes, applied to the set of nodes that are not alive;
- Flow, the invariant `FlowInv` of the results: every piece of a result, and of
  what a model is given, is a leaf below its node, or Nothing, and the pieces
  are ordered by Follows (WellOrdered): the order of the source, or the pair was
  put into one text by a model. Follows only grows (FollowsGrows). What a node
  composes or gives to a model has the pieces of all its children that have
  texts, and what a model writes has some of those (Conveys); a task that
  panicked has spawned no children, so nothing below it is lost. The lemmas
  before it say of Gather, which joins the results of the children, what its
  pieces are and that it keeps an order that each child and the children among
  themselves have;
- ResultsInSourceOrder follows from WellOrdered. NoFindingLost takes a leaf that
  wrote a finding and looks at the nodes that were not started, were rejected or
  panicked, or whose pieces are in the answer or were left out by a model: the
  root is among them, and by Conveys they are closed under Kids, so the leaf is.

`FixLoopProofs` (from FixLoopAssumption):

- LoopTypeCorrect, OkAlwaysDrained, NoSecondLateGenerator, SigintAlwaysHeard.
  EndedDrained, LateOnce and SessionHeld tie the counts to where the run is;
  IterationCounted bounds the number of the iteration.

`CodegenProofs` (from CallsAssumption and FlightAssumption: finitely many calls,
positive units and permits):

- CodegenTypeCorrect, NoOrphanedGenerator, EveryGuardAccounted, SingleFlight.
  Guarded says in which positions a process can run: those from which every
  exit, the drop of the future included, ends it, waits for it or hands it to a
  reaper. Balance states
  the counts and the budget as cardinalities of sets of calls; a step of a
  process stays, moves within, enters or leaves (ProcessStepKinds), which is
  all that the counts depend on. Unreported makes "units are spent if and only
  if the outcome was recorded" inductive, EntryIsLeaders the single flight.

`AnalysisProofs` (from RequestAssumption: bodies are made of lines, each with its
end; and SplittingAssumption: sources are not empty, k is at least 2, tau at
least 1, the limits are numbers):

- RequestIsWholeOrRefused, from `SegmentsInv`: what has been put together is the
  texts of the answers so far, joined, and all of them but the last were cut. An
  answer is handed out only at a segment that was not cut, or, for the class that
  may, with what there is after the last continuation;
- RequestChunkingIsInvisible, from `ReadInv`: at every moment between the first
  chunk and the end, what has been taken from the buffer ends behind a complete
  line, the event under construction is the lines since the last blank one, and
  the completion is what the events before it hold. None of it mentions where
  the chunks ended. The case that needs care is a carriage return at the end of
  the buffer, which is a line end only when the next token is known.

- NoLineForgotten, from `SplitInv`: while a source is taken apart, every line
  that is not blank is in a text that was asked about or is pending, or is
  accounted for as cut, lost, pruned or given up with its branch for lack of
  budget (Remembered); and without overlap the
  texts asked about and the pending ones follow one another in the source
  (InOrderOfSource). EveryLineAsked alone is not inductive, as it says nothing
  before the end. The steps of `phi` rest on one lemma per combinator: of
  CombSplitIs and CombSplitOverlapIs, that pieces of equal length leave nothing
  out between them is arithmetic (Grid); an overlap moves a start down and an end
  up, never past the end of the text unless it panics. StructuralChunkIs follows
  the packing of blocks line by line (PackInv): whether a block is added to the
  current chunk, starts a new one or replaces an empty one, no line before it is
  left behind. A chunk is lost only to `MAX_CHUNK_COUNT`.

`PhiProofs` and `AnalysisProofs` are about data of any length. Recursive
functions (Gather, FlattenSeq, Keep, Packing) are defined by CHOOSE, and the
library's induction theorems cannot be instantiated by the installed provers; so
the first lemmas of both modules (SetInduction, IntervalInduction, Recursion) take
the set of numbers at which a claim fails and its least element, show that a
function with the recursive equations exists, and then what it computes.

Every safety invariant and action property that a passing run checks has a
theorem, the assumption of the module being all that it needs of the constants.
Only model-checked: liveness of every module, that is AdmitsUnlessAbandoned,
EveryNodeSettles, EveryCallEnds, TreeEnds, RunEnds, TerminationEndsRun and
EveryCallReturns (liveness under fairness and ENABLED are beyond TLAPS as
installed); and the findings, which are behaviours and not theorems.

## 6. Findings

- `breaker_stuck`: a half-open probe that ends in OutputTruncated, or in an
  abort, never gives the probe slot back. The breaker refuses every later call
  of the process, against the doc comment of `allow_request`.
- `replay_cache_disabled`: two readers of one bad entry turn off the cache of
  their process for good, with every file operation working and nothing corrupted
  left, against the doc comment of `quarantine`.
- `phi_clean`: `is_clean` looks at how a result begins; the sentence of an empty
  branch in front of findings stops the fix loop as clean.
- `fix_loop_session`: the loop waits for no live session permit while it holds
  one, so every interactive iteration whose generator returns ends in the leak
  report.

Further disagreements between the code and what it says of itself, met while
modelling and without a run of their own:

- The comments on the shutdown flag (oracle.rs:596-597 and 724-725) say that
  calls in flight fail fast. A request that is due or on its way does not, nor do
  the continuations of its answer: `invoke` (oracle.rs:454-557) never looks at the
  flag and posts up to five requests. BillingStops says what is left of the
  promise: no further attempt.
- `PreflightHonoured` in `CallBudget` (stated there, and refuted by TLC): the
  reservation is given back before the children run, so it does not protect
  them.
- A waiter of the oracle's single flight asks again although the answer is in
  the cache by then (oracle.rs:591 against 820-831): the lookup comes first.
- `run_analysis` takes the planned number of calls for the worst case
  (main.rs:951), but `structural_chunk` does not look at k: a text has as many
  chunks as it takes, up to `MAX_CHUNK_COUNT`.
- A leaf at the depth limit is cut to tau characters, and chunks beyond
  `MAX_CHUNK_COUNT` are dropped, without the counters of degradation saying so
  (`cut` in `Splitting`); `comb_split_overlap` panics on few short lines.
- A byte order mark that arrives in two chunks is not recognised, and the line
  behind it is skipped (`bomSplit` in `Request`).
- The key of a cached plan (cost.rs:251-259) has no field for `rho`, which decides
  the accuracy that the plan was searched for.
- In the generator: a process in the program's own process group is not reached
  by the watchdog's signals to a group, so a session on the terminal ends by the
  loop's own kill only; a disarmed `ChildCleanup` leaves a reaped process among
  the tracked pids; a session that the global timeout drops does not stop its
  copying tasks; `CodegenFlightGuard` removes the entry of its key whosever it
  is; and LockItselfOut is a call that waits for the lock it holds. The last two
  need calls that overlap, which the fix loop does not make.
- A process that the drop of a `ChildCleanup` has given up is untracked before it
  is killed. Until its reaper thread gets to it, it runs without being among the
  pids that the end of the program kills.

What the models leave to the reader's judgement: NothingLost and SourceOrder
speak of what the code does with findings: a model that reduces may leave any of
them out and reorder them, and nothing in the code would notice. A branch whose
task panics is logged and missing from the answer without a marker; NothingLost
then still holds of its siblings. SingleFlight and OneGenerator except calls
whose entry was removed while its leader ran. RunEnds excepts a run bounded by
calls alone: an iteration whose analysis degrades at its root and whose
generator is answered by the replay cache costs nothing. EveryCallReturns
excepts a call that has locked itself out, EveryLineAsked what was cut, pruned,
lost with a panic or given up for lack of budget, ChunkingInvisible the byte
order mark in two chunks.

## 7. Not modelled

- Of the replay cache: the bound on the files of `corrupted/`, hashing and
  validation of keys, the flush of the directory after a rename, the counter of
  corruptions. Removing an evicted entry or a failed put's temp file is taken to
  fail only if the file is gone.
- Of the generators: `force_kill_tracked_codegen_children` at the end of the
  program and what an exit of the program before a reaper thread has run leaves,
  terminal modes and window size, prompts and cache keys, the dry run.
- Telemetry counters, history events, token and latency totals, backoff and
  jitter lengths: they do not influence control.
- Of `phi` and its helpers: the pool of empty JoinSets, the spinning of a guard
  dropped on a worker thread, `auto_detect_task`; `parse_items`, `deduplicate`,
  the reducers of aggregation and pairs, and the patterns of the verifier, whose
  results depend on the wording of answers.
- Floating point of the planner, and its cache.
- Source collection, argument parsing, history, run log, dashboard: input and
  output without concurrent state, nothing of which is read back by the run.
  What the loop and the planner rely on from `Cli::validate` are assumptions of
  `FixLoop` and `Splitting`.
- The composition of generator and loop: `FixLoop` takes of the generator what
  EveryCallReturns, NothingLeftRunning and GuardsAccounted say, a call that
  returns and guards that drop later. The product of both is beyond TLC.

## 8. What may come next

1. `deduplicate` and `parse_items` with a small alphabet for the wording.
2. The bound on `corrupted/` in `ReplayCache`.
3. A proof that the entry of the single flight is fresh whenever it is somebody
   else's, under the assumption that calls do not overlap.
