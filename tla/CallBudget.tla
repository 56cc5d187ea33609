----------------------------- MODULE CallBudget -----------------------------
(***************************************************************************)
(* CallBudget and BudgetGuard of src/src/resilience.rs with the two ways   *)
(* the program uses them:                                                  *)
(*  - Oracle::call takes one unit by a compare-exchange loop, wraps it in  *)
(*    a BudgetGuard and either commits the guard or drops it uncommitted;  *)
(*  - phi, before it maps over its chunks, reserves one unit per child all *)
(*    or nothing and gives the reservation back before any child starts.   *)
(*                                                                         *)
(* Callers are the leaf calls and Planners the inner nodes of the recursion*)
(* tree; Parent gives each the planner that spawns it.  Every access to    *)
(* `remaining' and to the guard counter is one step.                       *)
(***************************************************************************)
EXTENDS Integers, FiniteSets

CONSTANTS
  Callers,
  Planners,
  Root,       \* the parent of a node nobody spawns
  Parent,
  Limits      \* the values CallBudget::new may be given; 0 is unlimited

Nodes == Callers \cup Planners

Children(p) == {n \in Nodes : Parent[n] = p}

(* phi returns before the pre-flight check when it has no chunk to map.    *)
ASSUME BudgetAssumption ==
  /\ IsFiniteSet(Callers) /\ IsFiniteSet(Planners)
  /\ Callers \cap Planners = {}
  /\ Root \notin Planners
  /\ Parent \in [Nodes -> Planners \cup {Root}]
  /\ \A p \in Planners : Children(p) # {}
  /\ Limits \subseteq Nat

VARIABLES
  max_calls,   \* the argument of CallBudget::new
  remaining,   \* CallBudget::remaining
  guard_live,  \* BUDGET_GUARD_LIVE_COUNT
  pc,
  current      \* the local a compare-exchange compares with; 0 if none

vars == <<max_calls, remaining, guard_live, pc, current>>

Unlimited == max_calls = 0

CallerSteps == {"start", "cas", "acquired", "guarded", "committed", "dropped",
                "spent", "refused", "refunded"}
PlannerSteps == {"start", "cas", "reserved", "spawned", "degraded"}

TypeOK ==
  /\ max_calls \in Limits
  /\ remaining \in Nat
  /\ guard_live \in Nat
  /\ pc \in [Nodes -> CallerSteps \cup PlannerSteps]
  /\ \A c \in Callers : pc[c] \in CallerSteps
  /\ \A p \in Planners : pc[p] \in PlannerSteps
  /\ current \in [Nodes -> Nat]

Init ==
  /\ max_calls \in Limits
  /\ remaining = max_calls
  /\ guard_live = 0
  /\ pc = [n \in Nodes |-> "start"]
  /\ current = [n \in Nodes |-> 0]

Goto(n, from, to) ==
  /\ pc[n] = from
  /\ pc' = [pc EXCEPT ![n] = to]

(* A node runs once the planner above it has spawned its children. *)
Spawned(n) == Parent[n] \in Planners => pc[Parent[n]] = "spawned"

-----------------------------------------------------------------------------
(* try_acquire and try_acquire_n *)

(* The number of units a node asks for. *)
Need(n) == IF n \in Planners THEN Cardinality(Children(n)) ELSE 1

\* Mutant: the test for exhaustion is off by one.
LoadOffByOne(n, refused) ==
  /\ ~Unlimited
  /\ Spawned(n)
  /\ Goto(n, "start", IF remaining < Need(n) - 1 THEN refused ELSE "cas")
  /\ current' = [current EXCEPT ![n] = IF remaining < Need(n) - 1 THEN 0
                                    ELSE remaining]
  /\ UNCHANGED <<max_calls, remaining, guard_live>>

(* The load, and the test that refuses when fewer than n units remain. *)
Load(n, refused) ==
  /\ ~Unlimited
  /\ Spawned(n)
  /\ Goto(n, "start", IF remaining < Need(n) THEN refused ELSE "cas")
  /\ current' = [current EXCEPT ![n] = IF remaining < Need(n) THEN 0
                                    ELSE remaining]
  /\ UNCHANGED <<max_calls, remaining, guard_live>>

\* Mutant: a store of current - n in place of the compare-exchange.
StoreUnchecked(n, acquired) ==
  /\ Goto(n, "cas", acquired)
  /\ remaining' = current[n] - Need(n)
  /\ current' = [current EXCEPT ![n] = 0]
  /\ UNCHANGED <<max_calls, guard_live>>

(* compare_exchange_weak succeeds ... *)
CompareExchange(n, acquired) ==
  /\ Goto(n, "cas", acquired)
  /\ remaining = current[n]
  /\ remaining' = remaining - Need(n)
  /\ current' = [current EXCEPT ![n] = 0]
  /\ UNCHANGED <<max_calls, guard_live>>

\* Mutant: the loop compares with the stale value again.
RetryWithoutReload(n) ==
  /\ Goto(n, "cas", "cas")
  /\ UNCHANGED <<max_calls, remaining, guard_live, current>>

(* ... or fails, for a changed value or spuriously, and the loop turns.    *)
Retry(n) ==
  /\ Goto(n, "cas", "start")
  /\ current' = [current EXCEPT ![n] = 0]
  /\ UNCHANGED <<max_calls, remaining, guard_live>>

Acquire(c) ==
  \/ Load(c, "refused")
  \/ CompareExchange(c, "acquired")
  \/ Retry(c)
  \/ /\ Unlimited
     /\ Spawned(c)
     /\ Goto(c, "start", "acquired")
     /\ UNCHANGED <<max_calls, remaining, guard_live, current>>

-----------------------------------------------------------------------------
(* BudgetGuard *)

NewGuard(c) ==
  /\ Goto(c, "acquired", "guarded")
  /\ guard_live' = guard_live + 1
  /\ UNCHANGED <<max_calls, remaining, current>>

Commit(c) ==
  /\ Goto(c, "guarded", "committed")
  /\ UNCHANGED <<max_calls, remaining, guard_live, current>>

(* Drop first counts the guard out; the unit of a guard that was never     *)
(* committed (its task was cancelled or panicked) is still to be restored. *)
DropCommitted(c) ==
  /\ Goto(c, "committed", "spent")
  /\ guard_live' = guard_live - 1
  /\ UNCHANGED <<max_calls, remaining, current>>

\* Mutant: a cancelled guard is not counted out.
DropUncounted(c) ==
  /\ Goto(c, "guarded", "dropped")
  /\ UNCHANGED <<max_calls, remaining, guard_live, current>>

DropUncommitted(c) ==
  /\ Goto(c, "guarded", "dropped")
  /\ guard_live' = guard_live - 1
  /\ UNCHANGED <<max_calls, remaining, current>>

Restore(k) == IF Unlimited THEN remaining ELSE remaining + k

Release(c) ==
  /\ Goto(c, "dropped", "refunded")
  /\ remaining' = Restore(1)
  /\ UNCHANGED <<max_calls, guard_live, current>>

-----------------------------------------------------------------------------
(* The pre-flight check of phi: budget_try_reserve, budget_unreserve *)

Reserve(p) ==
  \/ Load(p, "degraded")
  \/ CompareExchange(p, "reserved")
  \/ Retry(p)

\* Mutant: the reservation is dropped without being given back.
ForgetReservation(p) ==
  /\ Goto(p, "reserved", "spawned")
  /\ UNCHANGED <<max_calls, remaining, guard_live, current>>

Unreserve(p) ==
  /\ Goto(p, "reserved", "spawned")
  /\ remaining' = Restore(Need(p))
  /\ UNCHANGED <<max_calls, guard_live, current>>

(* phi skips the check when the budget is unlimited. *)
SkipPreflight(p) ==
  /\ Unlimited
  /\ Spawned(p)
  /\ Goto(p, "start", "spawned")
  /\ UNCHANGED <<max_calls, remaining, guard_live, current>>

-----------------------------------------------------------------------------
CallerStep(c) ==
  \/ Acquire(c)
  \/ NewGuard(c)
  \/ Commit(c)
  \/ DropCommitted(c)
  \/ DropUncommitted(c)
  \/ Release(c)

PlannerStep(p) == Reserve(p) \/ Unreserve(p) \/ SkipPreflight(p)

Settled(n) == pc[n] \in {"spent", "refused", "refunded", "spawned", "degraded"}

(* A node below a planner that degraded is never spawned. *)
Finished ==
  /\ \A n \in Nodes : Settled(n) \/ ~Spawned(n)
  /\ UNCHANGED vars

Next ==
  \/ \E c \in Callers : CallerStep(c)
  \/ \E p \in Planners : PlannerStep(p)
  \/ Finished

Spec == Init /\ [][Next]_vars

(***************************************************************************)
(* Every task is polled until it ends, and compare_exchange_weak does not  *)
(* fail spuriously for ever on a value that keeps matching.                *)
(***************************************************************************)
FairSpec ==
  /\ Spec
  /\ \A c \in Callers : /\ WF_vars(CallerStep(c))
                        /\ SF_vars(CompareExchange(c, "acquired"))
  /\ \A p \in Planners : /\ WF_vars(PlannerStep(p))
                         /\ SF_vars(CompareExchange(p, "reserved"))

-----------------------------------------------------------------------------
(* Properties *)

(* The units the nodes may ask for: unit i of node n is <<n, i>>.         *)
Unit == {u \in Nodes \X (1 .. Cardinality(Nodes)) : u[2] <= Need(u[1])}

(* A node holds its units on loan, has consumed them, or has a live guard. *)
BorrowSteps == {"acquired", "guarded", "dropped", "reserved"}
SpendSteps == {"committed", "spent"}
GuardSteps == {"guarded", "committed"}

UnitsAt(steps) == {u \in Unit : pc[u[1]] \in steps}

out == UnitsAt(BorrowSteps)
spent == UnitsAt(SpendSteps)
Guards == {n \in Nodes : pc[n] \in GuardSteps}

(***************************************************************************)
(* No unit of the budget is lost or made up, whatever calls are cancelled  *)
(* and however the compare-exchange loops of callers and planners          *)
(* interleave: what remains is what was given to CallBudget::new minus     *)
(* what is on loan and what committed guards consumed.                     *)
(***************************************************************************)
Conservation ==
  ~Unlimited =>
    remaining + Cardinality(out) + Cardinality(spent) = max_calls

(***************************************************************************)
(* BUDGET_GUARD_LIVE_COUNT, which main.rs polls to decide whether a run    *)
(* leaked a call, is the number of guards that exist.                      *)
(***************************************************************************)
LiveCountExact == guard_live = Cardinality(Guards)

(***************************************************************************)
(* The counter and its guards implement the ledger: loans are all or       *)
(* nothing and never exceed the free units, and a committed unit is spent  *)
(* for good ("POST (commit): budget unit consumed", "POST (drop without    *)
(* commit): budget unit restored").                                        *)
(***************************************************************************)
L == INSTANCE Ledger WITH budget <- max_calls, lent <- out, spent <- spent
LedgerSpec == L!Spec

(***************************************************************************)
(* The compare-exchange loops have no starvation or livelock among the     *)
(* finitely many nodes of a run: every node that is spawned gets its       *)
(* answer and gives back or spends what it took.                           *)
(***************************************************************************)
EveryNodeSettles ==
  \A n \in Nodes : Spawned(n) ~> Settled(n)

(***************************************************************************)
(* oracle.rs says of budget_try_reserve: "Used by phi's pre-flight to      *)
(* eliminate TOCTOU race on budget checks": once the pre-flight check of a *)
(* planner has passed, the budget does not fail its children.              *)
(***************************************************************************)
PreflightHonoured ==
  \A n \in Nodes :
    /\ Parent[n] \in Planners
    => pc[n] \notin {"refused", "degraded"}

=============================================================================
