-------------------------- MODULE CallBudgetProofs --------------------------
(***************************************************************************)
(* Proofs about CallBudget for every recursion tree and every limit: the   *)
(* types, the conservation of the budget and the exactness of the guard    *)
(* counter, and that the compare-exchange loops implement the Ledger.      *)
(***************************************************************************)
EXTENDS CallBudget, FiniteSetTheorems, TLAPS

(* The units of one node. *)
UnitsOf(n) == {u \in Unit : u[1] = n}

(***************************************************************************)
(* The value a compare-exchange compares with was large enough when it was *)
(* loaded, and only limited budgets are compared: this is what keeps       *)
(* `remaining' from going below zero.                                      *)
(***************************************************************************)
CasEnough ==
  \A n \in Nodes : pc[n] = "cas" => ~Unlimited /\ current[n] >= Need(n)

IInv ==
  /\ TypeOK
  /\ CasEnough
  /\ Conservation
  /\ LiveCountExact

-----------------------------------------------------------------------------
(* Sets of units *)

(* There are finitely many nodes.                                          *)
LEMMA NodesFinite ==
  IsFiniteSet(Nodes) /\ Cardinality(Nodes) \in Nat
<1>1. IsFiniteSet(Callers) /\ IsFiniteSet(Planners)
  BY BudgetAssumption
<1>2. IsFiniteSet(Nodes)
  BY <1>1, FS_Union DEF Nodes
<1>. QED  BY <1>2, FS_CardinalityType

(* A node asks for at least one unit and at most one per node.             *)
LEMMA NeedPositive ==
  ASSUME NEW n \in Nodes
  PROVE  Need(n) \in 1 .. Cardinality(Nodes)
<1>1. CASE n \in Planners
  <2>1. Children(n) \in SUBSET Nodes
    BY DEF Children
  <2>2. /\ IsFiniteSet(Children(n))
        /\ Cardinality(Children(n)) <= Cardinality(Nodes)
    BY <2>1, NodesFinite, FS_Subset
  <2>3. Cardinality(Children(n)) \in Nat \ {0}
    BY <1>1, <2>2, BudgetAssumption, FS_CardinalityType, FS_EmptySet
  <2>. QED  BY <1>1, <2>2, <2>3, NodesFinite DEF Need
<1>2. CASE n \notin Planners
  <2>1. Cardinality(Nodes) # 0
    BY NodesFinite, FS_EmptySet
  <2>. QED  BY <1>2, <2>1, NodesFinite DEF Need
<1>. QED  BY <1>1, <1>2

(* Any set of units is finite, and a node has as many as it needs.         *)
LEMMA UnitsFinite ==
  ASSUME NEW S \in SUBSET Unit
  PROVE  IsFiniteSet(S) /\ Cardinality(S) \in Nat
<1>1. IsFiniteSet(1 .. Cardinality(Nodes))
  BY NodesFinite, FS_Interval
<1>2. IsFiniteSet(Nodes \X (1 .. Cardinality(Nodes)))
  BY <1>1, NodesFinite, FS_Product
<1>3. S \in SUBSET (Nodes \X (1 .. Cardinality(Nodes)))
  BY DEF Unit
<1>. QED  BY <1>2, <1>3, FS_Subset, FS_CardinalityType

LEMMA UnitsOfNode ==
  ASSUME NEW n \in Nodes
  PROVE  /\ UnitsOf(n) \in SUBSET Unit
         /\ Cardinality(UnitsOf(n)) = Need(n)
         /\ UnitsOf(n) # {}
<1>1. Need(n) \in 1 .. Cardinality(Nodes)
  BY NeedPositive
<1>2. Cardinality(Nodes) \in Nat
  BY NodesFinite
<1>3. UnitsOf(n) = {n} \X (1 .. Need(n))
  BY <1>1, <1>2, SMT DEF UnitsOf, Unit
<1>4. IsFiniteSet({n}) /\ Cardinality({n}) = 1
  BY FS_Singleton
<1>5. IsFiniteSet(1 .. Need(n)) /\ Cardinality(1 .. Need(n)) = Need(n)
  BY <1>1, FS_Interval
<1>6. Cardinality({n} \X (1 .. Need(n)))
        = Cardinality({n}) * Cardinality(1 .. Need(n))
  BY <1>4, <1>5, FS_Product, Zenon
<1>7. <<n, 1>> \in UnitsOf(n)
  BY <1>1, <1>3
<1>8. Cardinality(UnitsOf(n)) = Need(n)
  BY <1>1, <1>3, <1>4, <1>5, <1>6
<1>. QED  BY <1>7, <1>8 DEF UnitsOf

(* Lending the units of a node, and taking them back, in numbers.          *)
LEMMA AddUnits ==
  ASSUME NEW S \in SUBSET Unit, NEW n \in Nodes, S \cap UnitsOf(n) = {}
  PROVE  Cardinality(S \cup UnitsOf(n)) = Cardinality(S) + Need(n)
<1>1. IsFiniteSet(S) /\ Cardinality(S) \in Nat
  BY UnitsFinite
<1>2. /\ IsFiniteSet(UnitsOf(n))
      /\ Cardinality(UnitsOf(n)) = Need(n)
  BY UnitsFinite, UnitsOfNode
<1>3. Cardinality(S \cap UnitsOf(n)) = 0
  BY FS_EmptySet
<1>4. Need(n) \in Nat
  BY NeedPositive, NodesFinite
<1>5. Cardinality(S \cup UnitsOf(n))
        = Cardinality(S) + Cardinality(UnitsOf(n))
            - Cardinality(S \cap UnitsOf(n))
  BY <1>1, <1>2, FS_Union, Zenon
<1>. QED  BY <1>1, <1>2, <1>3, <1>4, <1>5

LEMMA RemoveUnits ==
  ASSUME NEW S \in SUBSET Unit, NEW n \in Nodes, UnitsOf(n) \subseteq S
  PROVE  Cardinality(S \ UnitsOf(n)) = Cardinality(S) - Need(n)
<1>1. IsFiniteSet(S) /\ Cardinality(S) \in Nat
  BY UnitsFinite
<1>2. S \cap UnitsOf(n) = UnitsOf(n)
  OBVIOUS
<1>3. Cardinality(S \cap UnitsOf(n)) = Need(n)
  BY <1>2, UnitsOfNode
<1>. QED  BY <1>1, <1>3, FS_Difference

(***************************************************************************)
(* A step that moves one node from one step to another moves exactly the   *)
(* units of that node into or out of any class of steps X.                 *)
(***************************************************************************)
LEMMA UnitsMove ==
  ASSUME NEW X, NEW n \in Nodes, NEW t, TypeOK,
         pc' = [pc EXCEPT ![n] = t]
  PROVE  /\ (pc[n] \in X <=> t \in X) => UnitsAt(X)' = UnitsAt(X)
         /\ pc[n] \notin X /\ t \in X =>
              /\ UnitsAt(X)' = UnitsAt(X) \cup UnitsOf(n)
              /\ UnitsAt(X) \cap UnitsOf(n) = {}
              /\ Cardinality(UnitsAt(X)') = Cardinality(UnitsAt(X)) + Need(n)
         /\ pc[n] \in X /\ t \notin X =>
              /\ UnitsAt(X)' = UnitsAt(X) \ UnitsOf(n)
              /\ UnitsOf(n) \subseteq UnitsAt(X)
              /\ Cardinality(UnitsAt(X)') = Cardinality(UnitsAt(X)) - Need(n)
<1>1. pc \in [Nodes -> CallerSteps \cup PlannerSteps]
  BY DEF TypeOK
<1>2. \A m \in Nodes : pc'[m] = IF m = n THEN t ELSE pc[m]
  BY <1>1
<1>3. \A u \in Unit : u[1] \in Nodes
  BY DEF Unit
<1>4. UnitsAt(X) \in SUBSET Unit
  BY DEF UnitsAt
<1>5. UnitsAt(X)' = {u \in Unit : pc'[u[1]] \in X}
  BY DEF UnitsAt
<1>6. ASSUME pc[n] \in X <=> t \in X
      PROVE  UnitsAt(X)' = UnitsAt(X)
  BY <1>2, <1>3, <1>5, <1>6 DEF UnitsAt
<1>7. ASSUME pc[n] \notin X, t \in X
      PROVE  /\ UnitsAt(X)' = UnitsAt(X) \cup UnitsOf(n)
             /\ UnitsAt(X) \cap UnitsOf(n) = {}
  BY <1>2, <1>3, <1>5, <1>7 DEF UnitsAt, UnitsOf
<1>8. ASSUME pc[n] \in X, t \notin X
      PROVE  /\ UnitsAt(X)' = UnitsAt(X) \ UnitsOf(n)
             /\ UnitsOf(n) \subseteq UnitsAt(X)
  BY <1>2, <1>3, <1>5, <1>8 DEF UnitsAt, UnitsOf
<1>9. ASSUME pc[n] \notin X, t \in X
      PROVE  Cardinality(UnitsAt(X)') = Cardinality(UnitsAt(X)) + Need(n)
  BY <1>4, <1>7, <1>9, AddUnits
<1>10. ASSUME pc[n] \in X, t \notin X
       PROVE  Cardinality(UnitsAt(X)') = Cardinality(UnitsAt(X)) - Need(n)
  BY <1>4, <1>8, <1>10, RemoveUnits
<1>. QED  BY <1>6, <1>7, <1>8, <1>9, <1>10

(* The same for the set of live guards.                                    *)
LEMMA GuardsMove ==
  ASSUME NEW n \in Nodes, NEW t, TypeOK, pc' = [pc EXCEPT ![n] = t]
  PROVE  /\ Cardinality(Guards) \in Nat
         /\ (pc[n] \in GuardSteps <=> t \in GuardSteps) => Guards' = Guards
         /\ pc[n] \notin GuardSteps /\ t \in GuardSteps =>
              Cardinality(Guards') = Cardinality(Guards) + 1
         /\ pc[n] \in GuardSteps /\ t \notin GuardSteps =>
              /\ Cardinality(Guards') = Cardinality(Guards) - 1
              /\ Cardinality(Guards) # 0
<1>1. pc \in [Nodes -> CallerSteps \cup PlannerSteps]
  BY DEF TypeOK
<1>2. \A m \in Nodes : pc'[m] = IF m = n THEN t ELSE pc[m]
  BY <1>1
<1>3. IsFiniteSet(Guards) /\ Cardinality(Guards) \in Nat
  <2>1. Guards \in SUBSET Nodes
    BY DEF Guards
  <2>. QED  BY <2>1, NodesFinite, FS_Subset, FS_CardinalityType
<1>4. ASSUME pc[n] \in GuardSteps <=> t \in GuardSteps
      PROVE  Guards' = Guards
  BY <1>2, <1>4 DEF Guards
<1>5. ASSUME pc[n] \notin GuardSteps, t \in GuardSteps
      PROVE  Guards' = Guards \cup {n} /\ n \notin Guards
  BY <1>2, <1>5 DEF Guards
<1>6. ASSUME pc[n] \in GuardSteps, t \notin GuardSteps
      PROVE  Guards' = Guards \ {n} /\ n \in Guards
  BY <1>2, <1>6 DEF Guards
<1>7. ASSUME pc[n] \notin GuardSteps, t \in GuardSteps
      PROVE  Cardinality(Guards') = Cardinality(Guards) + 1
  BY <1>3, <1>5, <1>7, FS_AddElement
<1>8. ASSUME pc[n] \in GuardSteps, t \notin GuardSteps
      PROVE  /\ Cardinality(Guards') = Cardinality(Guards) - 1
             /\ Cardinality(Guards) # 0
  BY <1>3, <1>6, <1>8, FS_RemoveElement, FS_EmptySet
<1>. QED  BY <1>3, <1>4, <1>7, <1>8

-----------------------------------------------------------------------------
(* The inductive invariant *)

(* Facts about the numbers in Conservation, for the steps below.           *)
LEMMA Numbers ==
  ASSUME TypeOK, NEW n \in Nodes
  PROVE  /\ Cardinality(out) \in Nat /\ Cardinality(spent) \in Nat
         /\ Need(n) \in Nat \ {0}
         /\ n \in Callers => Need(n) = 1
         /\ max_calls \in Nat /\ remaining \in Nat /\ guard_live \in Nat
<1>1. out \in SUBSET Unit /\ spent \in SUBSET Unit
  BY DEF out, spent, UnitsAt
<1>2. Cardinality(out) \in Nat /\ Cardinality(spent) \in Nat
  BY <1>1, UnitsFinite
<1>3. Need(n) \in Nat \ {0}
  BY NeedPositive, NodesFinite
<1>4. n \in Callers => Need(n) = 1
  BY BudgetAssumption DEF Need
<1>. QED  BY <1>2, <1>3, <1>4, BudgetAssumption DEF TypeOK

(* What a step that moves node n to step t does to the numbers.            *)
LEMMA NumbersMove ==
  ASSUME TypeOK, NEW n \in Nodes, NEW t, pc' = [pc EXCEPT ![n] = t]
  PROVE  /\ pc[n] \notin BorrowSteps /\ t \notin BorrowSteps =>
              Cardinality(out') = Cardinality(out)
         /\ pc[n] \in BorrowSteps /\ t \in BorrowSteps =>
              Cardinality(out') = Cardinality(out)
         /\ pc[n] \notin BorrowSteps /\ t \in BorrowSteps =>
              Cardinality(out') = Cardinality(out) + Need(n)
         /\ pc[n] \in BorrowSteps /\ t \notin BorrowSteps =>
              Cardinality(out') = Cardinality(out) - Need(n)
         /\ pc[n] \notin SpendSteps /\ t \notin SpendSteps =>
              Cardinality(spent') = Cardinality(spent)
         /\ pc[n] \in SpendSteps /\ t \in SpendSteps =>
              Cardinality(spent') = Cardinality(spent)
         /\ pc[n] \notin SpendSteps /\ t \in SpendSteps =>
              Cardinality(spent') = Cardinality(spent) + Need(n)
<1>1. ASSUME NEW X
      PROVE  /\ pc[n] \notin X /\ t \notin X =>
                  Cardinality(UnitsAt(X)') = Cardinality(UnitsAt(X))
             /\ pc[n] \in X /\ t \in X =>
                  Cardinality(UnitsAt(X)') = Cardinality(UnitsAt(X))
             /\ pc[n] \notin X /\ t \in X =>
                  Cardinality(UnitsAt(X)') = Cardinality(UnitsAt(X)) + Need(n)
             /\ pc[n] \in X /\ t \notin X =>
                  Cardinality(UnitsAt(X)') = Cardinality(UnitsAt(X)) - Need(n)
  <2>1. (pc[n] \notin X /\ t \notin X) \/ (pc[n] \in X /\ t \in X)
          => UnitsAt(X)' = UnitsAt(X)
    BY UnitsMove, Zenon
  <2>2. pc[n] \notin X /\ t \in X =>
          Cardinality(UnitsAt(X)') = Cardinality(UnitsAt(X)) + Need(n)
    BY UnitsMove, Zenon
  <2>3. pc[n] \in X /\ t \notin X =>
          Cardinality(UnitsAt(X)') = Cardinality(UnitsAt(X)) - Need(n)
    BY UnitsMove, Zenon
  <2>. QED  BY <2>1, <2>2, <2>3, Zenon
<1>. QED  BY <1>1, Zenon DEF out, spent

(***************************************************************************)
(* The steps of the compare-exchange loop, for any node: r is the step of  *)
(* a refused node and a that of a node that acquired its units.            *)
(***************************************************************************)
LEMMA LoopPreserves ==
  ASSUME IInv, NEW n \in Nodes, NEW r, NEW a,
         \/ n \in Callers /\ r = "refused" /\ a = "acquired"
         \/ n \in Planners /\ r = "degraded" /\ a = "reserved",
         Load(n, r) \/ CompareExchange(n, a) \/ Retry(n)
  PROVE  IInv'
<1>1. TypeOK /\ CasEnough /\ Conservation /\ LiveCountExact
  BY DEF IInv
<1>2. /\ Cardinality(out) \in Nat /\ Cardinality(spent) \in Nat
      /\ Need(n) \in Nat \ {0}
      /\ max_calls \in Nat /\ remaining \in Nat /\ guard_live \in Nat
  BY <1>1, Numbers
<1>3. Callers \cap Planners = {} /\ \A m \in Nodes : Need(m) \in Nat
  BY BudgetAssumption, <1>1, Numbers
<1>4. CASE Load(n, r)
  <2>1. PICK t \in {r, "cas"} : pc' = [pc EXCEPT ![n] = t]
    BY <1>4 DEF Load, Goto
  <2>2. TypeOK'
    BY <1>1, <1>2, <1>3, <1>4 DEF TypeOK, Load, Goto, Nodes, CallerSteps,
       PlannerSteps
  <2>3. CasEnough'
    BY <1>1, <1>2, <1>3, <1>4 DEF TypeOK, CasEnough, Load, Goto, Unlimited
  <2>4. /\ pc[n] \notin BorrowSteps \cup SpendSteps \cup GuardSteps
        /\ t \notin BorrowSteps \cup SpendSteps \cup GuardSteps
    BY <1>4, <2>1 DEF Load, Goto, BorrowSteps, SpendSteps, GuardSteps
  <2>5. Conservation'
    BY <1>1, <1>4, <2>1, <2>4, NumbersMove DEF Conservation, Load, Unlimited
  <2>6. LiveCountExact'
    BY <1>1, <1>4, <2>1, <2>4, GuardsMove DEF LiveCountExact, Load
  <2>. QED  BY <2>2, <2>3, <2>5, <2>6 DEF IInv
<1>5. CASE CompareExchange(n, a)
  <2>1. pc[n] = "cas" /\ pc' = [pc EXCEPT ![n] = a]
    BY <1>5 DEF CompareExchange, Goto
  <2>2. ~Unlimited /\ remaining >= Need(n) /\ remaining' = remaining - Need(n)
    BY <1>1, <1>5, <2>1 DEF CasEnough, CompareExchange
  <2>3. TypeOK'
    BY <1>1, <1>2, <1>3, <1>5, <2>1, <2>2 DEF TypeOK, CompareExchange, Nodes,
       CallerSteps, PlannerSteps
  <2>4. CasEnough'
    BY <1>1, <1>2, <1>3, <1>5, <2>1
    DEF TypeOK, CasEnough, CompareExchange, Unlimited
  <2>5. /\ pc[n] \notin BorrowSteps \cup SpendSteps \cup GuardSteps
        /\ a \in BorrowSteps /\ a \notin SpendSteps \cup GuardSteps
    BY <2>1 DEF BorrowSteps, SpendSteps, GuardSteps
  <2>6. Conservation'
    <3>1. /\ Cardinality(out') = Cardinality(out) + Need(n)
          /\ Cardinality(spent') = Cardinality(spent)
      BY <1>1, <2>1, <2>5, NumbersMove
    <3>2. max_calls' = max_calls
      BY <1>5 DEF CompareExchange
    <3>. QED  BY <1>1, <1>2, <2>2, <3>1, <3>2 DEF Conservation, Unlimited
  <2>7. LiveCountExact'
    BY <1>1, <1>5, <2>1, <2>5, GuardsMove DEF LiveCountExact, CompareExchange
  <2>. QED  BY <2>3, <2>4, <2>6, <2>7 DEF IInv
<1>6. CASE Retry(n)
  <2>1. pc[n] = "cas" /\ pc' = [pc EXCEPT ![n] = "start"]
    BY <1>6 DEF Retry, Goto
  <2>2. TypeOK'
    BY <1>1, <1>2, <1>3, <1>6 DEF TypeOK, Retry, Goto, Nodes, CallerSteps,
       PlannerSteps
  <2>3. CasEnough'
    BY <1>1, <1>3, <1>6 DEF TypeOK, CasEnough, Retry, Goto, Unlimited
  <2>4. /\ pc[n] \notin BorrowSteps \cup SpendSteps \cup GuardSteps
        /\ "start" \notin BorrowSteps \cup SpendSteps \cup GuardSteps
    BY <2>1 DEF BorrowSteps, SpendSteps, GuardSteps
  <2>5. Conservation'
    BY <1>1, <1>6, <2>1, <2>4, NumbersMove DEF Conservation, Retry, Unlimited
  <2>6. LiveCountExact'
    BY <1>1, <1>6, <2>1, <2>4, GuardsMove DEF LiveCountExact, Retry
  <2>. QED  BY <2>2, <2>3, <2>5, <2>6 DEF IInv
<1>. QED  BY <1>4, <1>5, <1>6

(* Without live guards no node is at a step of a live guard.               *)
LEMMA GuardsEmpty ==
  ASSUME NEW n \in Nodes, Cardinality(Guards) = 0
  PROVE  pc[n] \notin GuardSteps
<1>1. Guards \in SUBSET Nodes
  BY DEF Guards
<1>2. IsFiniteSet(Guards)
  BY <1>1, NodesFinite, FS_Subset
<1>3. Guards = {}
  BY <1>2, FS_EmptySet
<1>. QED  BY <1>3 DEF Guards

(***************************************************************************)
(* The steps of a guard.                                                   *)
(***************************************************************************)
LEMMA GuardPreserves ==
  ASSUME IInv, NEW c \in Callers,
         \/ NewGuard(c) \/ Commit(c) \/ DropCommitted(c)
         \/ DropUncommitted(c) \/ Release(c)
  PROVE  IInv'
<1>1. TypeOK /\ CasEnough /\ Conservation /\ LiveCountExact
  BY DEF IInv
<1>2. c \in Nodes
  BY DEF Nodes
<1>3. /\ Cardinality(out) \in Nat /\ Cardinality(spent) \in Nat
      /\ Need(c) = 1 /\ Cardinality(Guards) \in Nat
      /\ max_calls \in Nat /\ remaining \in Nat /\ guard_live \in Nat
  <2>1. Cardinality(Guards) \in Nat
    BY <1>1 DEF LiveCountExact, TypeOK
  <2>. QED  BY <1>1, <1>2, <2>1, Numbers
<1>4. Callers \cap Planners = {} /\ \A m \in Nodes : Need(m) \in Nat
  BY BudgetAssumption, <1>1, Numbers
<1>. USE <1>1, <1>2, <1>3
<1>5. CASE NewGuard(c)
  <2>1. pc[c] = "acquired" /\ pc' = [pc EXCEPT ![c] = "guarded"]
    BY <1>5 DEF NewGuard, Goto
  <2>2. /\ pc[c] \in BorrowSteps /\ "guarded" \in BorrowSteps
        /\ pc[c] \notin SpendSteps /\ "guarded" \notin SpendSteps
        /\ pc[c] \notin GuardSteps /\ "guarded" \in GuardSteps
    BY <2>1 DEF BorrowSteps, SpendSteps, GuardSteps
  <2>3. /\ Cardinality(out') = Cardinality(out)
        /\ Cardinality(spent') = Cardinality(spent)
    BY <2>1, <2>2, NumbersMove
  <2>4. /\ Cardinality(Guards') = Cardinality(Guards) + 1
        /\ Cardinality(Guards) = 0 => pc[c] \notin GuardSteps
    <3>1. Cardinality(Guards') = Cardinality(Guards) + 1
      BY <2>1, <2>2, GuardsMove
    <3>2. Cardinality(Guards) = 0 => pc[c] \notin GuardSteps
      BY GuardsEmpty
    <3>. QED  BY <3>1, <3>2
  <2>5. TypeOK'
    BY <1>4, <1>5, <2>1, <2>4 DEF TypeOK, LiveCountExact, GuardSteps,
       NewGuard, Nodes, CallerSteps
  <2>6. CasEnough'
    BY <1>4, <1>5, <2>1 DEF TypeOK, CasEnough, NewGuard, Unlimited
  <2>7. Conservation'
    BY <1>5, <2>3 DEF Conservation, NewGuard, Unlimited
  <2>8. LiveCountExact'
    BY <1>5, <2>4 DEF LiveCountExact, NewGuard
  <2>. QED  BY <2>5, <2>6, <2>7, <2>8 DEF IInv
<1>6. CASE Commit(c)
  <2>1. pc[c] = "guarded" /\ pc' = [pc EXCEPT ![c] = "committed"]
    BY <1>6 DEF Commit, Goto
  <2>2. /\ pc[c] \in BorrowSteps /\ "committed" \notin BorrowSteps
        /\ pc[c] \notin SpendSteps /\ "committed" \in SpendSteps
        /\ pc[c] \in GuardSteps /\ "committed" \in GuardSteps
    BY <2>1 DEF BorrowSteps, SpendSteps, GuardSteps
  <2>3. /\ Cardinality(out') = Cardinality(out) - 1
        /\ Cardinality(spent') = Cardinality(spent) + 1
    BY <2>1, <2>2, NumbersMove
  <2>4. /\ Cardinality(Guards') = Cardinality(Guards)
        /\ Cardinality(Guards) = 0 => pc[c] \notin GuardSteps
    <3>1. Cardinality(Guards') = Cardinality(Guards)
      BY <2>1, <2>2, GuardsMove
    <3>2. Cardinality(Guards) = 0 => pc[c] \notin GuardSteps
      BY GuardsEmpty
    <3>. QED  BY <3>1, <3>2
  <2>5. TypeOK'
    BY <1>4, <1>6, <2>1, <2>4 DEF TypeOK, LiveCountExact, GuardSteps,
       Commit, Nodes, CallerSteps
  <2>6. CasEnough'
    BY <1>4, <1>6, <2>1 DEF TypeOK, CasEnough, Commit, Unlimited
  <2>7. Conservation'
    BY <1>6, <2>3 DEF Conservation, Commit, Unlimited
  <2>8. LiveCountExact'
    BY <1>6, <2>4 DEF LiveCountExact, Commit
  <2>. QED  BY <2>5, <2>6, <2>7, <2>8 DEF IInv
<1>7. CASE DropCommitted(c)
  <2>1. pc[c] = "committed" /\ pc' = [pc EXCEPT ![c] = "spent"]
    BY <1>7 DEF DropCommitted, Goto
  <2>2. /\ pc[c] \notin BorrowSteps /\ "spent" \notin BorrowSteps
        /\ pc[c] \in SpendSteps /\ "spent" \in SpendSteps
        /\ pc[c] \in GuardSteps /\ "spent" \notin GuardSteps
    BY <2>1 DEF BorrowSteps, SpendSteps, GuardSteps
  <2>3. /\ Cardinality(out') = Cardinality(out)
        /\ Cardinality(spent') = Cardinality(spent)
    BY <2>1, <2>2, NumbersMove
  <2>4. /\ Cardinality(Guards') = Cardinality(Guards) - 1
        /\ Cardinality(Guards) = 0 => pc[c] \notin GuardSteps
    <3>1. Cardinality(Guards') = Cardinality(Guards) - 1
      BY <2>1, <2>2, GuardsMove
    <3>2. Cardinality(Guards) = 0 => pc[c] \notin GuardSteps
      BY GuardsEmpty
    <3>. QED  BY <3>1, <3>2
  <2>5. TypeOK'
    BY <1>4, <1>7, <2>1, <2>4 DEF TypeOK, LiveCountExact, GuardSteps,
       DropCommitted, Nodes, CallerSteps
  <2>6. CasEnough'
    BY <1>4, <1>7, <2>1 DEF TypeOK, CasEnough, DropCommitted, Unlimited
  <2>7. Conservation'
    BY <1>7, <2>3 DEF Conservation, DropCommitted, Unlimited
  <2>8. LiveCountExact'
    BY <1>7, <2>4 DEF LiveCountExact, DropCommitted
  <2>. QED  BY <2>5, <2>6, <2>7, <2>8 DEF IInv
<1>8. CASE DropUncommitted(c)
  <2>1. pc[c] = "guarded" /\ pc' = [pc EXCEPT ![c] = "dropped"]
    BY <1>8 DEF DropUncommitted, Goto
  <2>2. /\ pc[c] \in BorrowSteps /\ "dropped" \in BorrowSteps
        /\ pc[c] \notin SpendSteps /\ "dropped" \notin SpendSteps
        /\ pc[c] \in GuardSteps /\ "dropped" \notin GuardSteps
    BY <2>1 DEF BorrowSteps, SpendSteps, GuardSteps
  <2>3. /\ Cardinality(out') = Cardinality(out)
        /\ Cardinality(spent') = Cardinality(spent)
    BY <2>1, <2>2, NumbersMove
  <2>4. /\ Cardinality(Guards') = Cardinality(Guards) - 1
        /\ Cardinality(Guards) = 0 => pc[c] \notin GuardSteps
    <3>1. Cardinality(Guards') = Cardinality(Guards) - 1
      BY <2>1, <2>2, GuardsMove
    <3>2. Cardinality(Guards) = 0 => pc[c] \notin GuardSteps
      BY GuardsEmpty
    <3>. QED  BY <3>1, <3>2
  <2>5. TypeOK'
    BY <1>4, <1>8, <2>1, <2>4 DEF TypeOK, LiveCountExact, GuardSteps,
       DropUncommitted, Nodes, CallerSteps
  <2>6. CasEnough'
    BY <1>4, <1>8, <2>1 DEF TypeOK, CasEnough, DropUncommitted, Unlimited
  <2>7. Conservation'
    BY <1>8, <2>3 DEF Conservation, DropUncommitted, Unlimited
  <2>8. LiveCountExact'
    BY <1>8, <2>4 DEF LiveCountExact, DropUncommitted
  <2>. QED  BY <2>5, <2>6, <2>7, <2>8 DEF IInv
<1>9. CASE Release(c)
  <2>1. pc[c] = "dropped" /\ pc' = [pc EXCEPT ![c] = "refunded"]
    BY <1>9 DEF Release, Goto
  <2>2. /\ pc[c] \in BorrowSteps /\ "refunded" \notin BorrowSteps
        /\ pc[c] \notin SpendSteps /\ "refunded" \notin SpendSteps
        /\ pc[c] \notin GuardSteps /\ "refunded" \notin GuardSteps
    BY <2>1 DEF BorrowSteps, SpendSteps, GuardSteps
  <2>3. /\ Cardinality(out') = Cardinality(out) - 1
        /\ Cardinality(spent') = Cardinality(spent)
    BY <2>1, <2>2, NumbersMove
  <2>4. /\ Cardinality(Guards') = Cardinality(Guards)
        /\ Cardinality(Guards) = 0 => pc[c] \notin GuardSteps
    <3>1. Cardinality(Guards') = Cardinality(Guards)
      BY <2>1, <2>2, GuardsMove
    <3>2. Cardinality(Guards) = 0 => pc[c] \notin GuardSteps
      BY GuardsEmpty
    <3>. QED  BY <3>1, <3>2
  <2>5. TypeOK'
    BY <1>4, <1>9, <2>1, <2>4 DEF TypeOK, LiveCountExact, GuardSteps,
       Release, Nodes, CallerSteps, Restore, Unlimited
  <2>6. CasEnough'
    BY <1>4, <1>9, <2>1 DEF TypeOK, CasEnough, Release, Unlimited
  <2>7. Conservation'
    BY <1>9, <2>3 DEF Conservation, Release, Unlimited, Restore
  <2>8. LiveCountExact'
    BY <1>9, <2>4 DEF LiveCountExact, Release
  <2>. QED  BY <2>5, <2>6, <2>7, <2>8 DEF IInv
<1>. QED  BY <1>5, <1>6, <1>7, <1>8, <1>9

(***************************************************************************)
(* The remaining steps: an acquisition without a limit, a reservation      *)
(* given back, and a pre-flight check that is skipped.                     *)
(***************************************************************************)
LEMMA UnlimitedPreserves ==
  ASSUME IInv, NEW n \in Nodes, NEW t, Unlimited,
         \/ n \in Callers /\ t = "acquired"
         \/ n \in Planners /\ t = "spawned",
         Goto(n, "start", t),
         UNCHANGED <<max_calls, remaining, guard_live, current>>
  PROVE  IInv'
<1>1. TypeOK /\ CasEnough /\ Conservation /\ LiveCountExact
  BY DEF IInv
<1>2. pc[n] = "start" /\ pc' = [pc EXCEPT ![n] = t]
  BY DEF Goto
<1>3. pc[n] \notin GuardSteps /\ t \notin GuardSteps
  BY <1>2 DEF GuardSteps
<1>4. Callers \cap Planners = {}
  BY BudgetAssumption
<1>5. TypeOK'
  BY <1>1, <1>2, <1>4 DEF TypeOK, Nodes, CallerSteps, PlannerSteps
<1>6. CasEnough'
  BY <1>1, <1>2 DEF TypeOK, CasEnough, Unlimited
<1>7. Conservation'
  BY DEF Conservation, Unlimited
<1>8. LiveCountExact'
  BY <1>1, <1>2, <1>3, GuardsMove DEF LiveCountExact
<1>. QED  BY <1>5, <1>6, <1>7, <1>8 DEF IInv

LEMMA UnreservePreserves ==
  ASSUME IInv, NEW p \in Planners, Unreserve(p)
  PROVE  IInv'
<1>1. TypeOK /\ CasEnough /\ Conservation /\ LiveCountExact
  BY DEF IInv
<1>2. p \in Nodes /\ Callers \cap Planners = {}
  BY BudgetAssumption DEF Nodes
<1>3. pc[p] = "reserved" /\ pc' = [pc EXCEPT ![p] = "spawned"]
  BY DEF Unreserve, Goto
<1>4. /\ pc[p] \in BorrowSteps /\ "spawned" \notin BorrowSteps
      /\ pc[p] \notin SpendSteps /\ "spawned" \notin SpendSteps
      /\ pc[p] \notin GuardSteps /\ "spawned" \notin GuardSteps
  BY <1>3 DEF BorrowSteps, SpendSteps, GuardSteps
<1>5. /\ Cardinality(out) \in Nat /\ Cardinality(spent) \in Nat
      /\ Need(p) \in Nat \ {0}
      /\ max_calls \in Nat /\ remaining \in Nat
  BY <1>1, <1>2, Numbers
<1>6. \A m \in Nodes : Need(m) \in Nat
  BY <1>1, Numbers
<1>7. TypeOK'
  BY <1>1, <1>2, <1>3, <1>5
  DEF TypeOK, Unreserve, Restore, Nodes, PlannerSteps
<1>8. CasEnough'
  BY <1>1, <1>2, <1>3, <1>6 DEF TypeOK, CasEnough, Unreserve, Unlimited
<1>9. Conservation'
  <2>1. /\ Cardinality(out') = Cardinality(out) - Need(p)
        /\ Cardinality(spent') = Cardinality(spent)
    BY <1>1, <1>2, <1>3, <1>4, NumbersMove
  <2>. QED  BY <1>1, <1>5, <2>1 DEF Conservation, Unreserve, Restore, Unlimited
<1>10. LiveCountExact'
  BY <1>1, <1>2, <1>3, <1>4, GuardsMove DEF LiveCountExact, Unreserve
<1>. QED  BY <1>7, <1>8, <1>9, <1>10 DEF IInv

(* Every step preserves the invariant.                                     *)
LEMMA Inductive ==
  ASSUME IInv, [Next]_vars
  PROVE  IInv'
<1>1. ASSUME NEW c \in Callers, CallerStep(c)
      PROVE  IInv'
  <2>1. c \in Nodes
    BY DEF Nodes
  <2>2. CASE Acquire(c)
    <3>1. CASE Load(c, "refused") \/ CompareExchange(c, "acquired") \/ Retry(c)
      BY <2>1, <3>1, LoopPreserves
    <3>2. CASE /\ Unlimited
               /\ Goto(c, "start", "acquired")
               /\ UNCHANGED <<max_calls, remaining, guard_live, current>>
      BY <2>1, <3>2, UnlimitedPreserves
    <3>. QED  BY <2>2, <3>1, <3>2 DEF Acquire
  <2>3. CASE \/ NewGuard(c) \/ Commit(c) \/ DropCommitted(c)
             \/ DropUncommitted(c) \/ Release(c)
    BY <2>3, GuardPreserves
  <2>. QED  BY <1>1, <2>2, <2>3 DEF CallerStep
<1>2. ASSUME NEW p \in Planners, PlannerStep(p)
      PROVE  IInv'
  <2>1. p \in Nodes
    BY DEF Nodes
  <2>2. CASE Reserve(p)
    BY <2>1, <2>2, LoopPreserves DEF Reserve
  <2>3. CASE Unreserve(p)
    BY <2>3, UnreservePreserves
  <2>4. CASE SkipPreflight(p)
    <3>1. /\ Unlimited
          /\ Goto(p, "start", "spawned")
          /\ UNCHANGED <<max_calls, remaining, guard_live, current>>
      BY <2>4 DEF SkipPreflight
    <3>. QED  BY <2>1, <3>1, UnlimitedPreserves
  <2>. QED  BY <1>2, <2>2, <2>3, <2>4 DEF PlannerStep
<1>3. CASE UNCHANGED vars
  BY <1>3 DEF IInv, TypeOK, CasEnough, Conservation, LiveCountExact, Unlimited,
     out, spent, UnitsAt, Guards, vars
<1>. QED  BY <1>1, <1>2, <1>3 DEF Next, Finished

(* Initially nothing is on loan.                                           *)
LEMMA InitIInv == Init => IInv
<1>. SUFFICES ASSUME Init PROVE IInv
  OBVIOUS
<1>1. \A n \in Nodes : pc[n] = "start"
  BY DEF Init
<1>2. TypeOK
  BY BudgetAssumption
  DEF Init, TypeOK, Nodes, CallerSteps, PlannerSteps
<1>3. CasEnough
  BY <1>1 DEF CasEnough
<1>4. out = {} /\ spent = {} /\ Guards = {}
  BY <1>1 DEF out, spent, UnitsAt, Unit, Guards, BorrowSteps, SpendSteps,
     GuardSteps
<1>5. Cardinality({}) = 0
  BY FS_EmptySet
<1>6. max_calls \in Nat
  BY BudgetAssumption DEF Init
<1>7. Conservation /\ LiveCountExact
  BY <1>4, <1>5, <1>6 DEF Init, Conservation, LiveCountExact
<1>. QED  BY <1>2, <1>3, <1>7 DEF IInv

-----------------------------------------------------------------------------
(* The theorems *)

THEOREM Invariance == Spec => []IInv
<1>1. IInv /\ [Next]_vars => IInv'
  BY Inductive
<1>. QED  BY <1>1, InitIInv, PTL DEF Spec

(* The variables keep their types; in particular `remaining', a usize that *)
(* the compare-exchange loops subtract from, never goes below zero.        *)
THEOREM TypeCorrect == Spec => []TypeOK
<1>1. IInv => TypeOK
  BY DEF IInv
<1>. QED  BY <1>1, Invariance, PTL

(* No unit is lost or made up, for every recursion tree, every limit and   *)
(* every interleaving of calls, cancellations and reservations.            *)
THEOREM BudgetConserved == Spec => []Conservation
<1>1. IInv => Conservation
  BY DEF IInv
<1>. QED  BY <1>1, Invariance, PTL

(* The leak counter that ends a run in error counts exactly the guards     *)
(* that exist.                                                             *)
THEOREM LiveCountCorrect == Spec => []LiveCountExact
<1>1. IInv => LiveCountExact
  BY DEF IInv
<1>. QED  BY <1>1, Invariance, PTL

-----------------------------------------------------------------------------
(* Refinement of the ledger *)

(* A node that stays outside or inside both classes leaves the ledger as   *)
(* it is.                                                                  *)
LEMMA LedgerStutter ==
  ASSUME TypeOK, NEW n \in Nodes, NEW t, pc' = [pc EXCEPT ![n] = t],
         pc[n] \in BorrowSteps <=> t \in BorrowSteps,
         pc[n] \in SpendSteps <=> t \in SpendSteps,
         max_calls' = max_calls
  PROVE  UNCHANGED L!vars
<1>1. out' = out
  BY UnitsMove DEF out
<1>2. spent' = spent
  BY UnitsMove DEF spent
<1>. QED  BY <1>1, <1>2 DEF L!vars

(* The ledger counts with the same Cardinality.                            *)
LEMMA LedgerCardinality ==
  ASSUME NEW S
  PROVE  L!Cardinality(S) = Cardinality(S)
BY DEF L!Cardinality, Cardinality, L!IsFiniteSet, IsFiniteSet

(* The units of node n move out of the free ones.                          *)
LEMMA LedgerLend ==
  ASSUME TypeOK, NEW n \in Nodes, NEW t, pc' = [pc EXCEPT ![n] = t],
         pc[n] \notin BorrowSteps, t \in BorrowSteps,
         pc[n] \notin SpendSteps, t \notin SpendSteps,
         Unlimited \/ (Conservation /\ remaining >= Need(n)),
         max_calls' = max_calls
  PROVE  L!Lend(UnitsOf(n))
<1>1. out' = out \cup UnitsOf(n) /\ out \cap UnitsOf(n) = {}
  BY UnitsMove DEF out
<1>2. spent' = spent
  BY UnitsMove DEF spent
<1>3. spent \cap UnitsOf(n) = {}
  BY DEF spent, UnitsAt, UnitsOf
<1>4. UnitsOf(n) # {} /\ Cardinality(UnitsOf(n)) = Need(n)
  BY UnitsOfNode
<1>5. L!Unlimited \/ Cardinality(UnitsOf(n)) <= L!free
  <2>1. CASE Unlimited
    BY <2>1 DEF Unlimited, L!Unlimited
  <2>2. CASE ~Unlimited /\ Conservation /\ remaining >= Need(n)
    <3>1. remaining + Cardinality(out) + Cardinality(spent) = max_calls
      BY <2>2 DEF Conservation
    <3>2. /\ Cardinality(out) \in Nat /\ Cardinality(spent) \in Nat
          /\ Need(n) \in Nat /\ max_calls \in Nat /\ remaining \in Nat
      BY Numbers
    <3>3. max_calls - Cardinality(out) - Cardinality(spent) >= Need(n)
      BY <2>2, <3>1, <3>2
    <3>. QED  BY <1>4, <3>2, <3>3, LedgerCardinality DEF L!free
  <2>. QED  BY <2>1, <2>2
<1>. QED  BY <1>1, <1>2, <1>3, <1>4, <1>5, LedgerCardinality DEF L!Lend

(* The units of node n are given back.                                     *)
LEMMA LedgerGiveBack ==
  ASSUME TypeOK, NEW n \in Nodes, NEW t, pc' = [pc EXCEPT ![n] = t],
         pc[n] \in BorrowSteps, t \notin BorrowSteps,
         pc[n] \notin SpendSteps, t \notin SpendSteps,
         max_calls' = max_calls
  PROVE  L!GiveBack(UnitsOf(n))
<1>1. out' = out \ UnitsOf(n) /\ UnitsOf(n) \subseteq out
  BY UnitsMove DEF out
<1>2. spent' = spent
  BY UnitsMove DEF spent
<1>. QED  BY <1>1, <1>2, UnitsOfNode DEF L!GiveBack

(* The unit of node n is spent.                                            *)
LEMMA LedgerSpend ==
  ASSUME TypeOK, NEW n \in Nodes, NEW t, pc' = [pc EXCEPT ![n] = t],
         pc[n] \in BorrowSteps, t \notin BorrowSteps,
         pc[n] \notin SpendSteps, t \in SpendSteps,
         max_calls' = max_calls
  PROVE  L!Spend(UnitsOf(n))
<1>1. out' = out \ UnitsOf(n) /\ UnitsOf(n) \subseteq out
  BY UnitsMove DEF out
<1>2. spent' = spent \cup UnitsOf(n)
  BY UnitsMove DEF spent
<1>. QED  BY <1>1, <1>2, UnitsOfNode DEF L!Spend

(* One pass of the compare-exchange loop stutters or lends.                *)
LEMMA LoopRefines ==
  ASSUME IInv, NEW n \in Nodes, NEW r, NEW a,
         r \notin BorrowSteps \cup SpendSteps,
         a \in BorrowSteps \ SpendSteps,
         Load(n, r) \/ CompareExchange(n, a) \/ Retry(n)
  PROVE  UNCHANGED L!vars \/ L!Lend(UnitsOf(n))
<1>1. TypeOK /\ CasEnough /\ Conservation
  BY DEF IInv
<1>2. CASE Load(n, r)
  <2>1. PICK t \in {r, "cas"} : pc' = [pc EXCEPT ![n] = t]
    BY <1>2 DEF Load, Goto
  <2>2. /\ pc[n] \notin BorrowSteps /\ pc[n] \notin SpendSteps
        /\ t \notin BorrowSteps /\ t \notin SpendSteps
    BY <1>2, <2>1 DEF Load, Goto, BorrowSteps, SpendSteps
  <2>. QED  BY <1>1, <1>2, <2>1, <2>2, LedgerStutter DEF Load
<1>3. CASE CompareExchange(n, a)
  <2>1. pc[n] = "cas" /\ pc' = [pc EXCEPT ![n] = a] /\ max_calls' = max_calls
    BY <1>3 DEF CompareExchange, Goto
  <2>2. pc[n] \notin BorrowSteps /\ pc[n] \notin SpendSteps
    BY <2>1 DEF BorrowSteps, SpendSteps
  <2>3. remaining >= Need(n)
    BY <1>1, <1>3, <2>1 DEF CasEnough, CompareExchange
  <2>. QED  BY <1>1, <2>1, <2>2, <2>3, LedgerLend
<1>4. CASE Retry(n)
  <2>1. pc[n] = "cas" /\ pc' = [pc EXCEPT ![n] = "start"]
    BY <1>4 DEF Retry, Goto
  <2>2. /\ pc[n] \notin BorrowSteps /\ pc[n] \notin SpendSteps
        /\ "start" \notin BorrowSteps /\ "start" \notin SpendSteps
    BY <2>1 DEF BorrowSteps, SpendSteps
  <2>. QED  BY <1>1, <1>4, <2>1, <2>2, LedgerStutter DEF Retry
<1>. QED  BY <1>2, <1>3, <1>4

(* A step of the ledger, or none, about the units of node n.               *)
Reaches(n) ==
  \/ UNCHANGED L!vars
  \/ L!Lend(UnitsOf(n)) \/ L!GiveBack(UnitsOf(n)) \/ L!Spend(UnitsOf(n))

LEMMA CallerRefines ==
  ASSUME IInv, NEW c \in Callers, CallerStep(c)
  PROVE  Reaches(c)
<1>1. TypeOK
  BY DEF IInv
<1>2. CallerStep(c) => Reaches(c)
  <2>1. c \in Nodes
    BY DEF Nodes
  <2>2. CASE Acquire(c)
    <3>1. /\ "refused" \notin BorrowSteps \cup SpendSteps
          /\ "acquired" \in BorrowSteps \ SpendSteps
      BY DEF BorrowSteps, SpendSteps
    <3>2. CASE Load(c, "refused") \/ CompareExchange(c, "acquired") \/ Retry(c)
      BY <2>1, <3>1, <3>2, LoopRefines DEF Reaches
    <3>3. CASE /\ Unlimited
               /\ Goto(c, "start", "acquired")
               /\ UNCHANGED <<max_calls, remaining, guard_live, current>>
      <4>1. pc[c] = "start" /\ pc' = [pc EXCEPT ![c] = "acquired"]
        BY <3>3 DEF Goto
      <4>2. pc[c] \notin BorrowSteps /\ pc[c] \notin SpendSteps
        BY <4>1 DEF BorrowSteps, SpendSteps
      <4>. QED  BY <1>1, <2>1, <3>1, <3>3, <4>1, <4>2, LedgerLend DEF Reaches
    <3>. QED  BY <2>2, <3>2, <3>3 DEF Acquire
  <2>3. CASE NewGuard(c)
    <3>1. /\ pc[c] = "acquired" /\ pc' = [pc EXCEPT ![c] = "guarded"]
          /\ max_calls' = max_calls
      BY <2>3 DEF NewGuard, Goto
    <3>2. /\ pc[c] \in BorrowSteps /\ "guarded" \in BorrowSteps
          /\ pc[c] \notin SpendSteps /\ "guarded" \notin SpendSteps
      BY <3>1 DEF BorrowSteps, SpendSteps
    <3>. QED  BY <1>1, <2>1, <3>1, <3>2, LedgerStutter DEF Reaches
  <2>4. CASE Commit(c)
    <3>1. /\ pc[c] = "guarded" /\ pc' = [pc EXCEPT ![c] = "committed"]
          /\ max_calls' = max_calls
      BY <2>4 DEF Commit, Goto
    <3>2. /\ pc[c] \in BorrowSteps /\ "committed" \notin BorrowSteps
          /\ pc[c] \notin SpendSteps /\ "committed" \in SpendSteps
      BY <3>1 DEF BorrowSteps, SpendSteps
    <3>. QED  BY <1>1, <2>1, <3>1, <3>2, LedgerSpend DEF Reaches
  <2>5. CASE DropCommitted(c)
    <3>1. /\ pc[c] = "committed" /\ pc' = [pc EXCEPT ![c] = "spent"]
          /\ max_calls' = max_calls
      BY <2>5 DEF DropCommitted, Goto
    <3>2. /\ pc[c] \notin BorrowSteps /\ "spent" \notin BorrowSteps
          /\ pc[c] \in SpendSteps /\ "spent" \in SpendSteps
      BY <3>1 DEF BorrowSteps, SpendSteps
    <3>. QED  BY <1>1, <2>1, <3>1, <3>2, LedgerStutter DEF Reaches
  <2>6. CASE DropUncommitted(c)
    <3>1. /\ pc[c] = "guarded" /\ pc' = [pc EXCEPT ![c] = "dropped"]
          /\ max_calls' = max_calls
      BY <2>6 DEF DropUncommitted, Goto
    <3>2. /\ pc[c] \in BorrowSteps /\ "dropped" \in BorrowSteps
          /\ pc[c] \notin SpendSteps /\ "dropped" \notin SpendSteps
      BY <3>1 DEF BorrowSteps, SpendSteps
    <3>. QED  BY <1>1, <2>1, <3>1, <3>2, LedgerStutter DEF Reaches
  <2>7. CASE Release(c)
    <3>1. /\ pc[c] = "dropped" /\ pc' = [pc EXCEPT ![c] = "refunded"]
          /\ max_calls' = max_calls
      BY <2>7 DEF Release, Goto
    <3>2. /\ pc[c] \in BorrowSteps /\ "refunded" \notin BorrowSteps
          /\ pc[c] \notin SpendSteps /\ "refunded" \notin SpendSteps
      BY <3>1 DEF BorrowSteps, SpendSteps
    <3>. QED  BY <1>1, <2>1, <3>1, <3>2, LedgerGiveBack DEF Reaches
  <2>. QED  BY <2>2, <2>3, <2>4, <2>5, <2>6, <2>7 DEF CallerStep
<1>. QED  BY <1>2

LEMMA PlannerRefines ==
  ASSUME IInv, NEW p \in Planners, PlannerStep(p)
  PROVE  Reaches(p)
<1>1. TypeOK /\ p \in Nodes
  BY DEF IInv, Nodes
<1>2. CASE Reserve(p)
  <2>1. /\ "degraded" \notin BorrowSteps \cup SpendSteps
        /\ "reserved" \in BorrowSteps \ SpendSteps
    BY DEF BorrowSteps, SpendSteps
  <2>. QED  BY <1>1, <1>2, <2>1, LoopRefines DEF Reserve, Reaches
<1>3. CASE Unreserve(p)
  <2>1. /\ pc[p] = "reserved" /\ pc' = [pc EXCEPT ![p] = "spawned"]
        /\ max_calls' = max_calls
    BY <1>3 DEF Unreserve, Goto
  <2>2. /\ pc[p] \in BorrowSteps /\ "spawned" \notin BorrowSteps
        /\ pc[p] \notin SpendSteps /\ "spawned" \notin SpendSteps
    BY <2>1 DEF BorrowSteps, SpendSteps
  <2>. QED  BY <1>1, <2>1, <2>2, LedgerGiveBack DEF Reaches
<1>4. CASE SkipPreflight(p)
  <2>1. /\ pc[p] = "start" /\ pc' = [pc EXCEPT ![p] = "spawned"]
        /\ max_calls' = max_calls
    BY <1>4 DEF SkipPreflight, Goto
  <2>2. /\ pc[p] \notin BorrowSteps /\ "spawned" \notin BorrowSteps
        /\ pc[p] \notin SpendSteps /\ "spawned" \notin SpendSteps
    BY <2>1 DEF BorrowSteps, SpendSteps
  <2>. QED  BY <1>1, <2>1, <2>2, LedgerStutter DEF Reaches
<1>. QED  BY <1>2, <1>3, <1>4 DEF PlannerStep

(***************************************************************************)
(* The compare-exchange loops and the guards implement the ledger: loans   *)
(* are all or nothing, never exceed the free units, and a committed unit   *)
(* is spent for good.                                                      *)
(***************************************************************************)
THEOREM ImplementsLedger == Spec => LedgerSpec
<1>1. Init => L!Init
  <2>. SUFFICES ASSUME Init PROVE L!Init
    OBVIOUS
  <2>1. \A n \in Nodes : pc[n] = "start"
    BY DEF Init
  <2>2. out = {} /\ spent = {}
    BY <2>1 DEF out, spent, UnitsAt, Unit, BorrowSteps, SpendSteps
  <2>. QED  BY <2>2 DEF Init, L!Init
<1>2. ASSUME IInv, [Next]_vars
      PROVE  [L!Next]_(L!vars)
  <2>1. ASSUME NEW n \in Nodes, Reaches(n)
        PROVE  [L!Next]_(L!vars)
    <3>1. UnitsOf(n) \in SUBSET Unit
      BY <2>1, UnitsOfNode
    <3>. QED  BY <2>1, <3>1 DEF Reaches, L!Next
  <2>2. ASSUME NEW c \in Callers, CallerStep(c)
        PROVE  [L!Next]_(L!vars)
    BY <1>2, <2>1, <2>2, CallerRefines DEF Nodes
  <2>3. ASSUME NEW p \in Planners, PlannerStep(p)
        PROVE  [L!Next]_(L!vars)
    BY <1>2, <2>1, <2>3, PlannerRefines DEF Nodes
  <2>4. CASE UNCHANGED vars
    BY <2>4 DEF vars, L!vars, out, spent, UnitsAt
  <2>. QED  BY <1>2, <2>2, <2>3, <2>4 DEF Next, Finished
<1>3. IInv /\ [Next]_vars => [L!Next]_(L!vars)
  BY <1>2
<1>. QED  BY <1>1, <1>3, Invariance, PTL DEF Spec, LedgerSpec, L!Spec

=============================================================================
