------------------------------- MODULE Oracle -------------------------------
(***************************************************************************)
(* Oracle::call of src/src/oracle.rs: concurrent calls to the language     *)
(* model that share a bulkhead, a call budget, the replay cache, the       *)
(* single-flight map, a circuit breaker and the shutdown flag.             *)
(*                                                                         *)
(* A step is what a task does between two points where another task's      *)
(* effect matters.  CircuitBreaker and CallBudget model the atomics of the *)
(* breaker and of the budget; here each of their operations is one step.   *)
(* The service is external: a request ends in any way invoke can report.   *)
(***************************************************************************)
EXTENDS Integers, FiniteSets

CONSTANTS
  Callers,      \* the calls of a run
  Prompts,
  Setups,       \* how the run may be set up: the prompt of each call,
                \* max_calls (0 is unlimited), and the flags
  Permits,      \* bulkhead permits
  max_retries,
  MAX_TRUNCATION_CONTINUATIONS,
  Threshold,    \* failures that open the breaker
  None

ASSUME OracleAssumption ==
  /\ IsFiniteSet(Callers) /\ None \notin Callers
  /\ Setups \subseteq [prompt : [Callers -> Prompts], max_calls : Nat,
                       dry_run : BOOLEAN, cache_enabled : BOOLEAN]
  /\ Permits \in Nat \ {0}     \* Bulkhead::new clamps to at least 1
  /\ max_retries \in Nat /\ MAX_TRUNCATION_CONTINUATIONS \in Nat
  /\ Threshold \in Nat \ {0}

VARIABLES
  prompt, max_calls, dry_run,        \* how the run was set up
  permits,                           \* free permits of the bulkhead
  remaining,                         \* free units of the budget
  cache, cache_enabled,
  inflight,                          \* the leader of each key, or None
  live,                              \* live BudgetGuards and InflightGuards
  failures, cooling, half_open_probe,   \* the breaker; cooling: in cooldown
  shutdown,
  pc,
  leader,       \* whose channel a call subscribed to last, or None
  sent,         \* what each call's own channel holds, or None
  attempt,      \* of the retry loop a call is in
  segment,      \* of the answer that its attempt asks for
  text,         \* the answer of a call that has one, or None
  committed,    \* calls whose budget guard is committed
  cancelled,    \* history: calls aborted while they held resources
  late          \* history: requests a call in its retry loop sent after
                \* shutdown

setup == <<prompt, max_calls, dry_run>>
store == <<cache, cache_enabled>>
breaker == <<failures, cooling, half_open_probe>>
flight == <<inflight, leader, sent>>
resources == <<permits, remaining>>
request == <<attempt, segment, late>>
vars == <<setup, resources, store, flight, live, breaker, shutdown, pc,
          request, text, committed, cancelled>>

(* What the service may answer to a prompt: a text, which the cache's      *)
(* reader will accept or not (it is blank or holds control characters).    *)
DryText == [dry |-> TRUE]
Text == [about : Prompts, valid : BOOLEAN] \cup {DryText}

Steps == {"start", "cache_check", "entry", "following", "leading", "cleared",
          "calling", "sending", "unwinding", "releasing", "done"}

TypeOK ==
  /\ prompt \in [Callers -> Prompts]
  /\ max_calls \in Nat /\ dry_run \in BOOLEAN
  /\ permits \in 0 .. Permits
  /\ remaining \in 0 .. max_calls
  /\ cache \in [Prompts -> Text \cup {None}] /\ cache_enabled \in BOOLEAN
  /\ inflight \in [Prompts -> Callers \cup {None}]
  /\ live \in [{"budget", "inflight"} -> 0 .. Permits]
  /\ failures \in 0 .. 3 * Threshold - 1
  /\ cooling \in BOOLEAN /\ half_open_probe \in BOOLEAN
  /\ shutdown \in BOOLEAN
  /\ pc \in [Callers -> Steps]
  /\ leader \in [Callers -> Callers \cup {None}]
  /\ sent \in [Callers -> Text \cup {None}]
  /\ attempt \in [Callers -> 0 .. max_retries]
  /\ segment \in [Callers -> 0 .. MAX_TRUNCATION_CONTINUATIONS]
  /\ text \in [Callers -> Text \cup {None}]
  /\ committed \subseteq Callers /\ cancelled \subseteq Callers
  /\ late \in [Callers -> Nat]

Init ==
  /\ \E s \in Setups :
       /\ prompt = s.prompt /\ max_calls = s.max_calls
       /\ dry_run = s.dry_run /\ cache_enabled = s.cache_enabled
  /\ permits = Permits /\ remaining = max_calls
  /\ cache = [k \in Prompts |-> None]
  /\ inflight = [k \in Prompts |-> None]
  /\ live = [g \in {"budget", "inflight"} |-> 0]
  /\ failures = 0 /\ cooling = FALSE /\ half_open_probe = FALSE
  /\ shutdown = FALSE
  /\ pc = [c \in Callers |-> "start"]
  /\ leader = [c \in Callers |-> None] /\ sent = [c \in Callers |-> None]
  /\ attempt = [c \in Callers |-> 0] /\ segment = [c \in Callers |-> 0]
  /\ text = [c \in Callers |-> None]
  /\ committed = {} /\ cancelled = {} /\ late = [c \in Callers |-> 0]

Unlimited == max_calls = 0

Goto(c, from, to) ==
  /\ pc[c] = from
  /\ pc' = [pc EXCEPT ![c] = to]

\* Mutant: the key leaves the prompt out.
KeyOfModel(c) == CHOOSE k \in Prompts : TRUE

(* ReplayCache::key hashes all that makes a request; the prompt stands for *)
(* that.                                                                   *)
CacheKey(c) == prompt[c]

(* A return: with or without a text, and the budget guard committed.       *)
Return(c, t) ==
  /\ text' = [text EXCEPT ![c] = t]
  /\ committed' = committed \cup {c}

-----------------------------------------------------------------------------
(* acquire_resources *)

(* The bulkhead first, then the budget; a refusal gives the permit back.   *)
AcquireResources(c) ==
  /\ permits > 0
  /\ IF Unlimited \/ remaining > 0
     THEN /\ Goto(c, "start", "cache_check")
          /\ permits' = permits - 1
          /\ remaining' = IF Unlimited THEN remaining ELSE remaining - 1
          /\ live' = [live EXCEPT !["budget"] = @ + 1]
     ELSE /\ Goto(c, "start", "done")
          /\ UNCHANGED <<resources, live>>
  /\ UNCHANGED <<setup, store, flight, breaker, shutdown, request, text,
                 committed, cancelled>>

(* RESOURCE_ACQUIRE_TIMEOUT. *)
TimeOut(c) ==
  /\ Goto(c, "start", "done")
  /\ UNCHANGED <<setup, resources, store, flight, live, breaker, shutdown,
                 request, text, committed, cancelled>>

-----------------------------------------------------------------------------
(* The cache and the single-flight map *)

Cached(c) == IF cache_enabled THEN cache[CacheKey(c)] ELSE None

(* get_validated: an entry its reader rejects is quarantined; if it can be *)
(* neither moved nor deleted, the cache is turned off.                     *)
CheckCache(c) ==
  /\ \/ /\ Cached(c) # None
        /\ Cached(c).valid
        /\ Goto(c, "cache_check", "releasing")
        /\ Return(c, Cached(c))
        /\ UNCHANGED store
     \/ /\ Cached(c) = None
        /\ Goto(c, "cache_check", "entry")
        /\ UNCHANGED <<store, text, committed>>
     \/ /\ Cached(c) # None
        /\ ~Cached(c).valid
        /\ Goto(c, "cache_check", "entry")
        /\ \/ /\ cache' = [cache EXCEPT ![CacheKey(c)] = None]
              /\ UNCHANGED cache_enabled
           \/ /\ cache_enabled' = FALSE
              /\ UNCHANGED cache
        /\ UNCHANGED <<text, committed>>
  /\ UNCHANGED <<setup, resources, flight, live, breaker, shutdown,
                 request, cancelled>>

(* The entry is occupied: subscribe to its channel. *)
Follow(c) ==
  /\ inflight[CacheKey(c)] # None
  /\ Goto(c, "entry", "following")
  /\ leader' = [leader EXCEPT ![c] = inflight[CacheKey(c)]]
  /\ UNCHANGED <<setup, resources, store, inflight, sent, live, breaker,
                 shutdown, request, text, committed, cancelled>>

\* Mutant: the guard is not bound to a name and drops where it is made.
LeadUnguarded(c) ==
  /\ inflight[CacheKey(c)] = None
  /\ Goto(c, "entry", "leading")
  /\ UNCHANGED <<setup, resources, store, flight, live, breaker, shutdown,
                 request, text, committed, cancelled>>

(* The entry is vacant: insert a channel and an InflightGuard. *)
Lead(c) ==
  /\ inflight[CacheKey(c)] = None
  /\ Goto(c, "entry", "leading")
  /\ inflight' = [inflight EXCEPT ![CacheKey(c)] = c]
  /\ live' = [live EXCEPT !["inflight"] = @ + 1]
  /\ UNCHANGED <<setup, resources, store, leader, sent, breaker, shutdown,
                 request, text, committed, cancelled>>

ReceiveResult(c) ==
  /\ Goto(c, "following", "releasing")
  /\ sent[leader[c]] # None
  /\ Return(c, sent[leader[c]])
  /\ UNCHANGED <<setup, resources, store, flight, live, breaker, shutdown,
                 request, cancelled>>

(* The leader dropped its sender: each call leads at most once.            *)
Closed(l) == pc[l] = "done"

(* changed() reports an unseen value even after the sender is dropped.     *)
LeaderGone(c) ==
  /\ Goto(c, "following", "entry")
  /\ Closed(leader[c]) /\ sent[leader[c]] = None
  /\ UNCHANGED <<setup, resources, store, flight, live, breaker, shutdown,
                 request, text, committed, cancelled>>

DryRun(c) ==
  /\ dry_run
  /\ Goto(c, "leading", "unwinding")
  /\ Return(c, DryText)
  /\ UNCHANGED <<setup, resources, store, flight, live, breaker, shutdown,
                 request, cancelled>>

-----------------------------------------------------------------------------
(* The retry loop *)

Admits ==
  \/ failures < Threshold
  \/ ~cooling /\ ~half_open_probe

(* allow_request claims the probe when the breaker is half open. *)
AllowRequest ==
  /\ Admits
  /\ half_open_probe' = (half_open_probe \/ failures >= Threshold)
  /\ UNCHANGED <<failures, cooling>>

RecordSuccess ==
  /\ failures' = 0 /\ half_open_probe' = FALSE
  /\ UNCHANGED cooling

RecordFailure ==
  /\ failures' = IF failures >= 2 * Threshold /\ (failures + 1) % Threshold = 0
                 THEN 2 * Threshold ELSE failures + 1
  /\ cooling' = TRUE /\ half_open_probe' = FALSE

\* Mutant: shutdown is checked before the first attempt only.
BeginAttemptAnyway(c) ==
  /\ ~dry_run /\ (shutdown => attempt[c] > 0)
  /\ Goto(c, "leading", "cleared")
  /\ AllowRequest
  /\ UNCHANGED <<setup, resources, store, flight, live, shutdown, request,
                 text, committed, cancelled>>

(* The locals of the retry loop end with it. *)
LeaveLoop(c) ==
  /\ attempt' = [attempt EXCEPT ![c] = 0]
  /\ segment' = [segment EXCEPT ![c] = 0]
  /\ late' = [late EXCEPT ![c] = 0]

(* The checks before an attempt: what follows may sleep (the jitter of a   *)
(* half-open breaker, the backoff of a retry) before the request is sent.  *)
BeginAttempt(c) ==
  /\ ~dry_run /\ ~shutdown
  /\ Goto(c, "leading", "cleared")
  /\ AllowRequest
  /\ UNCHANGED <<setup, resources, store, flight, live, shutdown, request,
                 text, committed, cancelled>>

Refuse(c) ==
  /\ ~dry_run
  /\ shutdown \/ ~Admits
  /\ Goto(c, "leading", "unwinding")
  /\ Return(c, None)
  /\ LeaveLoop(c)
  /\ UNCHANGED <<setup, resources, store, flight, live, breaker, shutdown,
                 cancelled>>

Post(c) == late' = [late EXCEPT ![c] = IF shutdown THEN @ + 1 ELSE @]

(* invoke posts the request for the first segment of the answer.           *)
SendRequest(c) ==
  /\ Goto(c, "cleared", "calling")
  /\ Post(c)
  /\ UNCHANGED <<setup, resources, store, flight, live, breaker, shutdown,
                 attempt, segment, text, committed, cancelled>>

(* The segment was truncated: invoke posts a request for the next one,     *)
(* with no look at the flag.                                               *)
Continue(c) ==
  /\ pc[c] = "calling"
  /\ segment[c] < MAX_TRUNCATION_CONTINUATIONS
  /\ segment' = [segment EXCEPT ![c] = @ + 1]
  /\ Post(c)
  /\ UNCHANGED <<setup, resources, store, flight, live, breaker, shutdown, pc,
                 attempt, text, committed, cancelled>>

(* The cache stores the text, fails to, or finds the disk full and turns   *)
(* itself off; before it writes it may evict entries of other keys.        *)
PutInCache(k, t) ==
  \/ /\ cache_enabled
     /\ \E evicted \in SUBSET Prompts, stored \in BOOLEAN :
          cache' = [key \in Prompts |-> IF key = k /\ stored THEN t
                                        ELSE IF key \in evicted THEN None
                                        ELSE cache[key]]
     /\ UNCHANGED cache_enabled
  \/ /\ cache_enabled' = FALSE
     /\ UNCHANGED cache

Succeed(c) ==
  /\ Goto(c, "calling", "sending")
  /\ RecordSuccess
  /\ \E valid \in BOOLEAN :
       LET answer == [about |-> prompt[c], valid |-> valid] IN
         /\ PutInCache(CacheKey(c), answer)
         /\ text' = [text EXCEPT ![c] = answer]
  /\ LeaveLoop(c)
  /\ UNCHANGED <<setup, resources, flight, live, shutdown, committed,
                 cancelled>>

(* An error that is fatal or not retryable, and the last attempt's error. *)
FailFast(c) ==
  /\ Goto(c, "calling", "unwinding")
  /\ RecordFailure
  /\ Return(c, None)
  /\ LeaveLoop(c)
  /\ UNCHANGED <<setup, resources, store, flight, live, shutdown,
                 cancelled>>

\* Mutant: this exit does not commit the budget guard.
TruncatedUncommitted(c) ==
  /\ Goto(c, "calling", "unwinding")
  /\ text' = [text EXCEPT ![c] = None]
  /\ LeaveLoop(c)
  /\ UNCHANGED <<setup, resources, store, flight, live, breaker, shutdown,
                 committed, cancelled>>

(* OutputTruncated: the breaker learns nothing. *)
Truncated(c) ==
  /\ Goto(c, "calling", "unwinding")
  /\ Return(c, None)
  /\ LeaveLoop(c)
  /\ UNCHANGED <<setup, resources, store, flight, live, breaker, shutdown,
                 cancelled>>

\* Mutant: one retry more than max_retries.
RetryOnceMore(c) ==
  /\ attempt[c] <= max_retries
  /\ Goto(c, "calling", "leading")
  /\ RecordFailure
  /\ attempt' = [attempt EXCEPT ![c] = @ + 1]
  /\ segment' = [segment EXCEPT ![c] = 0]
  /\ UNCHANGED <<setup, resources, store, flight, live, shutdown, text, late,
                 committed, cancelled>>

Retry(c) ==
  /\ attempt[c] < max_retries
  /\ Goto(c, "calling", "leading")
  /\ RecordFailure
  /\ attempt' = [attempt EXCEPT ![c] = @ + 1]
  /\ segment' = [segment EXCEPT ![c] = 0]
  /\ UNCHANGED <<setup, resources, store, flight, live, shutdown, text, late,
                 committed, cancelled>>

Followers(l) == {d \in Callers : pc[d] = "following" /\ leader[d] = l}

(* watch::Sender::send leaves the value alone when nobody is subscribed.   *)
Broadcast(c) ==
  /\ Goto(c, "sending", "unwinding")
  /\ sent' = [sent EXCEPT ![c] = IF Followers(c) # {} THEN text[c] ELSE @]
  /\ committed' = committed \cup {c}
  /\ UNCHANGED <<setup, resources, store, inflight, leader, live, breaker,
                 shutdown, request, text, cancelled>>

-----------------------------------------------------------------------------
(* The way out: locals are dropped in the reverse order of declaration *)

DropInflightGuard(c) ==
  /\ Goto(c, "unwinding", "releasing")
  /\ inflight' = [inflight EXCEPT ![CacheKey(c)] = None]
  /\ live' = [live EXCEPT !["inflight"] = @ - 1]
  /\ UNCHANGED <<setup, resources, store, leader, sent, breaker, shutdown,
                 request, text, committed, cancelled>>

(* The last reference to the channel's sender, and the resources.  The     *)
(* other locals end with them.                                             *)
DropResources(c) ==
  /\ Goto(c, "releasing", "done")
  /\ permits' = permits + 1
  /\ live' = [live EXCEPT !["budget"] = @ - 1]
  /\ remaining' = IF Unlimited \/ c \in committed THEN remaining
                  ELSE remaining + 1
  /\ leader' = [leader EXCEPT ![c] = None]
  /\ text' = [text EXCEPT ![c] = None]
  /\ UNCHANGED <<setup, store, inflight, sent, breaker, shutdown, request,
                 committed, cancelled>>

\* Mutant: an aborted leader leaves its entry in the map.
CancelLeavingEntry(c) ==
  /\ pc[c] \in {"cleared", "calling", "following"}
  /\ Goto(c, pc[c], "releasing")
  /\ cancelled' = cancelled \cup {c}
  /\ LeaveLoop(c)
  /\ UNCHANGED <<setup, resources, store, flight, live, breaker, shutdown,
                 text, committed>>

(* phi aborts the task of a call at one of its awaits. *)
Cancel(c) ==
  /\ \/ /\ Goto(c, "start", "done")
        /\ UNCHANGED cancelled
     \/ /\ Goto(c, "following", "releasing")
        /\ cancelled' = cancelled \cup {c}
     \/ /\ pc[c] \in {"cleared", "calling"}
        /\ Goto(c, pc[c], "unwinding")
        /\ cancelled' = cancelled \cup {c}
  /\ LeaveLoop(c)
  /\ UNCHANGED <<setup, resources, store, flight, live, breaker, shutdown,
                 text, committed>>

-----------------------------------------------------------------------------
CooldownEnds ==
  /\ cooling
  /\ cooling' = FALSE
  /\ UNCHANGED <<setup, resources, store, flight, live, failures,
                 half_open_probe, shutdown, pc, request, text, committed,
                 cancelled>>

TriggerShutdown ==
  /\ ~shutdown
  /\ shutdown' = TRUE
  /\ UNCHANGED <<setup, resources, store, flight, live, breaker, pc,
                 request, text, committed, cancelled>>

CallerStep(c) ==
  \/ AcquireResources(c) \/ TimeOut(c)
  \/ CheckCache(c) \/ Follow(c) \/ Lead(c) \/ ReceiveResult(c) \/ LeaderGone(c)
  \/ DryRun(c) \/ BeginAttempt(c) \/ Refuse(c) \/ SendRequest(c)
  \/ Continue(c) \/ Succeed(c) \/ FailFast(c) \/ Truncated(c) \/ Retry(c)
  \/ Broadcast(c) \/ DropInflightGuard(c) \/ DropResources(c)

AllDone ==
  /\ \A c \in Callers : pc[c] = "done"
  /\ UNCHANGED vars

Next ==
  \/ \E c \in Callers : CallerStep(c) \/ Cancel(c)
  \/ CooldownEnds
  \/ TriggerShutdown
  \/ AllDone

Spec == Init /\ [][Next]_vars

(* Tasks are polled, a request is bounded by the provider's timeout, and   *)
(* nobody has to cancel a call, shut down or wait out a cooldown.          *)
FairSpec == Spec /\ \A c \in Callers : WF_vars(CallerStep(c))

-----------------------------------------------------------------------------
(* Properties *)

Holding == {c \in Callers : pc[c] \notin {"start", "done"}}
Leading ==
  {c \in Callers :
     pc[c] \in {"leading", "cleared", "calling", "sending", "unwinding"}}

(***************************************************************************)
(* What the run's last check relies on (ensure_no_live_guards polls the    *)
(* two counters, print_telemetry the map): however calls end, permits, map *)
(* entries and guard counters match the calls that hold or lead something, *)
(* so that they all return to nothing when the calls have ended.           *)
(***************************************************************************)
NothingLeaks ==
  /\ permits + Cardinality(Holding) = Permits
  /\ live["budget"] = Cardinality(Holding)
  /\ live["inflight"] = Cardinality(Leading)
  /\ \A k \in Prompts, c \in Callers :
       inflight[k] = c <=> c \in Leading /\ CacheKey(c) = k

(***************************************************************************)
(* "Budget is consumed on all normal exits (success AND error after        *)
(* retries).  Budget is restored only on panic/cancellation": over every   *)
(* exit of call, a call ends committed exactly if it was not aborted, and  *)
(* the budget is short of just the units held or committed.                *)
(***************************************************************************)
ChargedUnlessCancelled ==
  /\ ~Unlimited =>
       remaining + Cardinality(committed \cup Holding) = max_calls
  /\ \A c \in Callers :
       pc[c] = "releasing" => (c \in committed <=> c \notin cancelled)

(***************************************************************************)
(* What single flight does guarantee: never two requests for one key at    *)
(* the same time, whatever leaders fail, retry or are aborted.             *)
(***************************************************************************)
NoConcurrentDuplicate ==
  \A c, d \in Callers :
    pc[c] = "calling" /\ pc[d] = "calling" /\ prompt[c] = prompt[d] => c = d

(***************************************************************************)
(* A call answers with a text the service gave to its own prompt, also     *)
(* when the text comes from the cache or from another call.                *)
(***************************************************************************)
AnswersOwnPrompt ==
  \A c \in Callers : text[c] # None =>
    IF dry_run THEN text[c] = DryText ELSE text[c].about = prompt[c]

(***************************************************************************)
(* The flag stops neither a request that is due nor the continuations of   *)
(* its answer, but no attempt is made after it: what a call posts after    *)
(* trigger_shutdown is at most the segments of the one answer whose        *)
(* attempt had passed the check of the flag before, whatever fails and is  *)
(* retried.                                                                *)
(***************************************************************************)
BillingStops ==
  \A c \in Callers :
    /\ late[c] <= MAX_TRUNCATION_CONTINUATIONS + 1
    /\ pc[c] = "cleared" => late[c] = 0

(***************************************************************************)
(* Nobody waits for ever: not for a permit that followers hold while they  *)
(* wait for leaders, and not for the result of a leader that failed or was *)
(* aborted.                                                                *)
(***************************************************************************)
EveryCallEnds == <>(\A c \in Callers : pc[c] = "done")

=============================================================================
