------------------------------- MODULE Ledger -------------------------------
(***************************************************************************)
(* What a call budget promises, without counters or atomics: every unit of *)
(* the budget is free, out on loan, or spent; loans are granted all or     *)
(* nothing and only from free units; a loan ends by being spent or by      *)
(* being given back; a spent unit never comes back.                        *)
(***************************************************************************)
EXTENDS Integers, FiniteSets

CONSTANTS
  Unit,     \* names for the units that may be asked for
  Limits    \* the budgets it may be set up with; 0 is no limit

VARIABLES budget, lent, spent

vars == <<budget, lent, spent>>

Unlimited == budget = 0

free == budget - Cardinality(lent) - Cardinality(spent)

Init == budget \in Limits /\ lent = {} /\ spent = {}

Lend(S) ==
  /\ S # {}
  /\ S \cap (lent \cup spent) = {}
  /\ Unlimited \/ Cardinality(S) <= free
  /\ lent' = lent \cup S
  /\ UNCHANGED <<budget, spent>>

GiveBack(S) ==
  /\ S # {}
  /\ S \subseteq lent
  /\ lent' = lent \ S
  /\ UNCHANGED <<budget, spent>>

Spend(S) ==
  /\ S # {}
  /\ S \subseteq lent
  /\ lent' = lent \ S
  /\ spent' = spent \cup S
  /\ UNCHANGED budget

Next == \E S \in SUBSET Unit : Lend(S) \/ GiveBack(S) \/ Spend(S)

Spec == Init /\ [][Next]_vars

=============================================================================
