----------------------------- MODULE PhiProofs -----------------------------
(***************************************************************************)
(* What holds of the tree of tasks, for every tree, number of permits and  *)
(* way to call phi.                                                        *)
(*                                                                         *)
(* The tree is an arbitrary one, so "no task is left below" has to be said *)
(* of a node and its own children only: TreeInv does.  That it then holds  *)
(* of all nodes follows from the assumption that the root reaches them:    *)
(* the nodes that are not alive are a set closed under Kids.               *)
(***************************************************************************)
EXTENDS Phi, FiniteSetTheorems, SequenceTheorems, WellFoundedInduction, TLAPS

Kid(n) == ToSet(Kids[n])

(* Results of tasks whose children are all joined. *)
Good == {"text", "rejected", "marker", "panic"}

Settled(n) ==
  \/ pc[n] = "reducing"
  \/ pc[n] \in {"finished", "joined"} /\ result[n].tag \in Good

InOrder(n) ==
  /\ pc[n] \in {"unborn", "started", "calling"} =>
       \A c \in Kid(n) : pc[c] = "unborn"
  /\ \A c \in Kid(n) \ chunks[n] : pc[c] = "unborn"
  /\ Settled(n) => \A c \in Kid(n) : pc[c] \in {"unborn", "joined"}
  /\ pc[n] = "joined" => result[n].tag \in Good
  /\ pc[n] = "draining" => result[n].tag \notin Good

TreeInv == \A n \in Nodes : InOrder(n)

Holders == {n \in Nodes : HoldsPermit(n)}

(* No permit is lost or given back twice. *)
PermitsBalanced == permits + Cardinality(Holders) = Permits

SafetyInv == TreeInv /\ PermitsBalanced /\ FailuresStayLocal

IInv == TypeOK /\ SafetyInv

-----------------------------------------------------------------------------
(* The tree *)

LEMMA KidsAreNodes ==
  ASSUME NEW n \in Nodes
  PROVE  Kid(n) \subseteq Nodes \ {Root}
<1>1. Kids[n] \in Seq(Nodes \ {Root})
  BY PhiAssumption
<1>. QED  BY <1>1 DEF Kid, ToSet

LEMMA OneParent ==
  ASSUME NEW p \in Nodes, NEW q \in Nodes, NEW n, n \in Kid(p), n \in Kid(q)
  PROVE  p = q
<1>1. n \in Nodes \ {Root}
  BY KidsAreNodes
<1>. QED  BY <1>1, PhiAssumption DEF Kid

LEMMA ChunksAreKids ==
  ASSUME TypeOK, NEW n \in Nodes
  PROVE  chunks[n] \subseteq Kid(n)
BY DEF TypeOK, Kid

(* One more holder counts one more. *)
LEMMA Counting ==
  ASSUME NEW S \in SUBSET Nodes, NEW n \in Nodes
  PROVE  /\ Cardinality(S) \in Nat
         /\ n \notin S => Cardinality(S \cup {n}) = Cardinality(S) + 1
         /\ n \in S => Cardinality(S \ {n}) = Cardinality(S) - 1
<1>1. IsFiniteSet(S)
  BY FS_Subset, PhiAssumption
<1>2. Cardinality(S) \in Nat
  BY <1>1, FS_CardinalityType
<1>3. n \notin S => Cardinality(S \cup {n}) = Cardinality(S) + 1
  BY <1>1, FS_AddElement
<1>4. n \in S => Cardinality(S \ {n}) = Cardinality(S) - 1
  BY <1>1, FS_RemoveElement
<1>. QED  BY <1>2, <1>3, <1>4

-----------------------------------------------------------------------------
(* The initial states *)

LEMMA InitEstablishes == Init => IInv
<1>. SUFFICES ASSUME Init PROVE IInv
  OBVIOUS
<1>1. TypeOK
  <2>1. PICK s \in Setups : task = s.task /\ matching = s.matching
    BY DEF Init
  <2>2. [task |-> task, matching |-> matching] \in Setups
    <3>1. s \in [task : {"search", "classify", "summarise", "multi_hop"},
                 matching : SUBSET ToSet(Source)]
      BY PhiAssumption
    <3>2. s = [task |-> s.task, matching |-> s.matching]
      BY <3>1
    <3>. QED  BY <2>1, <3>2
  <2>3. shutdown \in BOOLEAN /\ degraded \in BOOLEAN
    BY Zenon DEF Init
  <2>4. permits \in 0 .. Permits
    BY PhiAssumption DEF Init
  <2>5. /\ DOMAIN chunks = Nodes /\ DOMAIN arrived = Nodes
        /\ DOMAIN given = Nodes /\ DOMAIN result = Nodes /\ aborted \subseteq Nodes
        /\ pc \in [Nodes -> {"unborn", "started"}]
    BY DEF Init
  <2>6. \A n \in Nodes :
          /\ chunks[n] \subseteq ToSet(Kids[n])
          /\ arrived[n] \in Seq(ToSet(Kids[n]))
          /\ result[n].tag \in Tags
    BY DEF Init, Bare, Tags
  <2>. QED  BY <2>2, <2>3, <2>4, <2>5, <2>6 DEF TypeOK
<1>2. TreeInv
  <2>1. \A n \in Nodes : pc[n] = IF n = Root THEN "started" ELSE "unborn"
    BY DEF Init
  <2>2. \A n \in Nodes : \A c \in Kid(n) : pc[c] = "unborn"
    BY <2>1, KidsAreNodes
  <2>3. \A n \in Nodes : pc[n] \in {"started", "unborn"}
    BY <2>1
  <2>. QED  BY <2>2, <2>3 DEF TreeInv, InOrder, Settled
<1>3. Holders = {}
  BY DEF Init, Holders, HoldsPermit
<1>4. PermitsBalanced
  BY <1>3, FS_EmptySet, PhiAssumption DEF PermitsBalanced, Init
<1>5. FailuresStayLocal
  BY DEF Init, FailuresStayLocal, Bare
<1>. QED  BY <1>1, <1>2, <1>4, <1>5 DEF IInv, SafetyInv

-----------------------------------------------------------------------------
(* Steps of one task *)

(* A task that leaves a step at which it was alive, for one at which it    *)
(* holds no permit, gives the permit back or had none.                     *)
LEMMA PermitReturned ==
  ASSUME TypeOK, PermitsBalanced, NEW n \in Nodes, NEW to,
         to \notin {"started", "calling"},
         pc' = [pc EXCEPT ![n] = to], ReleasePermit(n)
  PROVE  PermitsBalanced' /\ permits' \in 0 .. Permits
<1>1. Holders' = Holders \ {n}
  BY DEF Holders, HoldsPermit, TypeOK
<1>2. Holders \in SUBSET Nodes
  BY DEF Holders
<1>3. Cardinality(Holders) \in Nat /\ Cardinality(Holders \ {n}) \in Nat
  BY <1>2, Counting
<1>4. CASE HoldsPermit(n)
  <2>1. n \in Holders /\ permits' = permits + 1
    BY <1>4 DEF Holders, ReleasePermit
  <2>2. Cardinality(Holders') = Cardinality(Holders) - 1
    BY <1>1, <1>2, <2>1, Counting
  <2>3. permits \in Nat /\ permits + Cardinality(Holders) = Permits
    BY DEF PermitsBalanced, TypeOK
  <2>4. Cardinality(Holders') \in Nat
    BY <1>1, <1>3
  <2>. QED  BY <1>3, <2>1, <2>2, <2>3, <2>4, PhiAssumption DEF PermitsBalanced
<1>5. CASE ~HoldsPermit(n)
  <2>1. Holders' = Holders /\ permits' = permits
    BY <1>1, <1>5 DEF Holders, ReleasePermit
  <2>. QED  BY <2>1 DEF PermitsBalanced, TypeOK
<1>. QED  BY <1>4, <1>5

(* A task that holds no permit before or after a step. *)
LEMMA PermitsKept ==
  ASSUME TypeOK, PermitsBalanced, permits' = permits,
         \A n \in Nodes : HoldsPermit(n)' = HoldsPermit(n)
  PROVE  PermitsBalanced' /\ permits' \in 0 .. Permits
<1>1. Holders' = Holders
  BY DEF Holders
<1>. QED  BY <1>1 DEF PermitsBalanced, TypeOK

(* Any way a future can end keeps the tree in order. *)
LEMMA EndKeepsTree ==
  ASSUME TypeOK, TreeInv, NEW n \in Nodes, NEW from, NEW r,
         End(n, from, r), chunks' = chunks,
         from \in {"started", "calling", "collecting", "reducing"},
         from = "collecting" => AllJoined(n)
  PROVE  TreeInv'
<1>1. /\ pc[n] = from /\ pc'[n] = "finished" /\ result'[n] = r
      /\ \A m \in Nodes : m # n => pc'[m] = pc[m] /\ result'[m] = result[m]
  BY DEF End, Goto, TypeOK
<1>2. \A c \in Kid(n) : pc[c] \in {"unborn", "joined"}
  <2>1. CASE from = "collecting"
    BY <1>1, <2>1 DEF AllJoined, TreeInv, InOrder, Settled
  <2>2. CASE from # "collecting"
    BY <1>1, <2>2 DEF TreeInv, InOrder, Settled
  <2>. QED  BY <2>1, <2>2
<1>3. n \notin Kid(n)
  BY <1>1, <1>2
<1>4. ASSUME NEW p \in Nodes, NEW c \in Kid(p), pc[c] \in {"unborn", "joined"}
      PROVE  pc'[c] = pc[c]
  BY <1>1, <1>4, KidsAreNodes
<1>5. ASSUME NEW m \in Nodes
      PROVE  InOrder(m)'
  <2>1. CASE m = n
    BY <1>1, <1>2, <1>4, <2>1 DEF TreeInv, InOrder, Settled
  <2>2. CASE m # n
    BY <1>1, <1>4, <2>2 DEF TreeInv, InOrder, Settled
  <2>. QED  BY <2>1, <2>2
<1>. QED  BY <1>5 DEF TreeInv

(* The types that are not flags or counters. *)
DataOK ==
  /\ pc \in [Nodes -> {"unborn", "started", "calling", "spawning",
                       "collecting", "reducing", "draining", "finished",
                       "joined"}]
  /\ DOMAIN chunks = Nodes /\ DOMAIN arrived = Nodes /\ DOMAIN given = Nodes
  /\ DOMAIN result = Nodes
  /\ \A n \in Nodes :
       /\ chunks[n] \subseteq ToSet(Kids[n])
       /\ arrived[n] \in Seq(ToSet(Kids[n]))
       /\ result[n].tag \in Tags
  /\ aborted \subseteq Nodes

LEMMA Tagged ==
  ASSUME NEW t
  PROVE  Bare(t).tag = t /\ Text(t).tag = "text"
BY DEF Bare, Text

(* The steps by which a future ends, and what they have in common. *)
Ends(n) ==
  \/ RefuseStart(n) \/ Accept(n) \/ Reject(n) \/ CallFails(n) \/ Panic(n)
  \/ NothingToMap(n) \/ DegradeAtPreflight(n) \/ AllLost(n) \/ Compose(n)
  \/ Reduced(n) \/ ReduceFails(n)

EndStep(n) ==
  /\ \E from \in {"started", "calling", "collecting", "reducing"} : \E r :
       /\ End(n, from, r)
       /\ from = "collecting" => AllJoined(n)
       /\ r.tag \in Tags
       /\ n # Root /\ r.tag = "error" => shutdown
  /\ UNCHANGED <<chunks, arrived, given, aborted>>

LEMMA EndsAreEndSteps ==
  ASSUME NEW n \in Nodes, Ends(n)
  PROVE  EndStep(n)
<1>0. UNCHANGED <<chunks, arrived, given, aborted>>
  BY DEF Ends, RefuseStart, Accept, Reject, CallFails, Panic, NothingToMap,
     DegradeAtPreflight, AllLost, Compose, Reduced, ReduceFails
<1>1. CASE RefuseStart(n)
  <2>1. (Bare("error")).tag \in Tags /\ ((Bare("error")).tag = "error" /\ n # Root => shutdown)
    BY <1>1, Tagged DEF Tags, RefuseStart
  <2>2. End(n, "started", Bare("error"))
    BY <1>1 DEF RefuseStart
  <2>. QED  BY <1>0, <2>1, <2>2 DEF EndStep
<1>2. CASE Accept(n)
  <2>1. (Text(<<n>>)).tag \in Tags /\ ((Text(<<n>>)).tag = "error" /\ n # Root => shutdown)
    BY <1>2, Tagged DEF Tags
  <2>2. End(n, "calling", Text(<<n>>))
    BY <1>2 DEF Accept
  <2>. QED  BY <1>0, <2>1, <2>2 DEF EndStep
<1>3. CASE Reject(n)
  <2>1. (Bare(IF n \in DeepLeaves THEN "marker" ELSE "rejected")).tag \in Tags /\ ((Bare(IF n \in DeepLeaves THEN "marker" ELSE "rejected")).tag = "error" /\ n # Root => shutdown)
    BY <1>3, Tagged DEF Tags
  <2>2. End(n, "calling", Bare(IF n \in DeepLeaves THEN "marker" ELSE "rejected"))
    BY <1>3 DEF Reject
  <2>. QED  BY <1>0, <2>1, <2>2 DEF EndStep
<1>4. CASE CallFails(n)
  <2>1. (Bare("marker")).tag \in Tags /\ ((Bare("marker")).tag = "error" /\ n # Root => shutdown)
    BY <1>4, Tagged DEF Tags
  <2>2. End(n, "calling", Bare("marker"))
    BY <1>4 DEF CallFails
  <2>. QED  BY <1>0, <2>1, <2>2 DEF EndStep
<1>5. CASE Panic(n)
  <2>1. (Bare("panic")).tag \in Tags /\ ((Bare("panic")).tag = "error" /\ n # Root => shutdown)
    BY <1>5, Tagged DEF Tags
  <2>2. End(n, "started", Bare("panic"))
    BY <1>5 DEF Panic
  <2>. QED  BY <1>0, <2>1, <2>2 DEF EndStep
<1>6. CASE NothingToMap(n)
  <2>1. (Text(<<Nothing>>)).tag \in Tags /\ ((Text(<<Nothing>>)).tag = "error" /\ n # Root => shutdown)
    BY <1>6, Tagged DEF Tags
  <2>2. End(n, "started", Text(<<Nothing>>))
    BY <1>6 DEF NothingToMap
  <2>. QED  BY <1>0, <2>1, <2>2 DEF EndStep
<1>7. CASE DegradeAtPreflight(n)
  <2>1. (Bare("marker")).tag \in Tags /\ ((Bare("marker")).tag = "error" /\ n # Root => shutdown)
    BY <1>7, Tagged DEF Tags
  <2>2. End(n, "started", Bare("marker"))
    BY <1>7 DEF DegradeAtPreflight
  <2>. QED  BY <1>0, <2>1, <2>2 DEF EndStep
<1>8. CASE AllLost(n)
  <2>1. (Bare("marker")).tag \in Tags /\ ((Bare("marker")).tag = "error" /\ n # Root => shutdown)
    BY <1>8, Tagged DEF Tags
  <2>2. End(n, "collecting", Bare("marker")) /\ AllJoined(n)
    BY <1>8 DEF AllLost
  <2>. QED  BY <1>0, <2>1, <2>2 DEF EndStep
<1>9. CASE Compose(n)
  <2>1. (Text(Composed(n))).tag \in Tags /\ ((Text(Composed(n))).tag = "error" /\ n # Root => shutdown)
    BY <1>9, Tagged DEF Tags
  <2>2. End(n, "collecting", Text(Composed(n))) /\ AllJoined(n)
    BY <1>9 DEF Compose
  <2>. QED  BY <1>0, <2>1, <2>2 DEF EndStep
<1>10. CASE Reduced(n)
  <2>0. PICK pieces \in Syntheses(n) : End(n, "reducing", Text(pieces))
    BY <1>10 DEF Reduced
  <2>1. (Text(pieces)).tag \in Tags /\ ((Text(pieces)).tag = "error" /\ n # Root => shutdown)
    BY <1>10, Tagged DEF Tags
  <2>2. End(n, "reducing", Text(pieces))
    BY <2>0
  <2>. QED  BY <1>0, <2>1, <2>2 DEF EndStep
<1>11. CASE ReduceFails(n)
  <2>1. (Bare(IF n = Root THEN "error" ELSE "marker")).tag \in Tags /\ ((Bare(IF n = Root THEN "error" ELSE "marker")).tag = "error" /\ n # Root => shutdown)
    BY <1>11, Tagged DEF Tags
  <2>2. End(n, "reducing", Bare(IF n = Root THEN "error" ELSE "marker"))
    BY <1>11 DEF ReduceFails
  <2>. QED  BY <1>0, <2>1, <2>2 DEF EndStep
<1>. QED  BY <1>1, <1>2, <1>3, <1>4, <1>5, <1>6, <1>7, <1>8, <1>9, <1>10, <1>11 DEF Ends

(* A task that was aborted ends, or drains, with "cancelled"; a mapping    *)
(* that stops drains with "error".                                         *)
DrainStep(n) ==
  /\ pc[n] \in {"spawning", "collecting"}
  /\ \E r : /\ StartDraining(n, r)
            /\ r.tag \in Tags \ Good
            /\ n # Root /\ r.tag = "error" => shutdown
  /\ UNCHANGED <<permits, chunks, arrived, given>>

LEMMA CancelEndsOrDrains ==
  ASSUME NEW n \in Nodes, Cancel(n)
  PROVE  EndStep(n) \/ DrainStep(n)
<1>1. Bare("cancelled").tag = "cancelled"
  BY Tagged
<1>2. CASE /\ \E from \in {"started", "calling", "reducing"} :
                End(n, from, Bare("cancelled"))
           /\ UNCHANGED aborted
  BY <1>1, <1>2 DEF Cancel, EndStep, Tags
<1>3. CASE /\ pc[n] \in {"spawning", "collecting"}
           /\ StartDraining(n, Bare("cancelled"))
           /\ UNCHANGED permits
  BY <1>1, <1>3 DEF Cancel, DrainStep, Tags, Good
<1>. QED  BY <1>2, <1>3 DEF Cancel

LEMMA StopsAreDrainSteps ==
  ASSUME NEW n \in Nodes, \/ StopMapping(n)
                          \/ n = Root /\ \E c \in Nodes : PanicAtRoot(c)
  PROVE  DrainStep(n)
<1>1. Bare("error").tag = "error"
  BY Tagged
<1>2. CASE StopMapping(n)
  BY <1>1, <1>2 DEF StopMapping, DrainStep, Tags, Good
<1>3. CASE n = Root /\ \E c \in Nodes : PanicAtRoot(c)
  BY <1>1, <1>3 DEF PanicAtRoot, DrainStep, Tags, Good
<1>. QED  BY <1>2, <1>3

-----------------------------------------------------------------------------
(* What each kind of step preserves.  Kept says it for a step that leaves  *)
(* the flags to the lemma Flags.                                           *)
Kept == DataOK /\ permits \in 0 .. Permits /\ SafetyInv

LEMMA EndKeeps ==
  ASSUME IInv, NEW n \in Nodes, EndStep(n), shutdown' = shutdown
  PROVE  Kept'
<1>. USE DEF IInv, SafetyInv
<1>. DEFINE Way(from, r) ==
       /\ End(n, from, r)
       /\ from = "collecting" => AllJoined(n)
       /\ r.tag \in Tags
       /\ n # Root /\ r.tag = "error" => shutdown
<1>0. PICK from \in {"started", "calling", "collecting", "reducing"} :
        \E r : Way(from, r)
  BY DEF EndStep
<1>1. PICK r : Way(from, r)
  BY <1>0
<1>2. /\ pc' = [pc EXCEPT ![n] = "finished"] /\ ReleasePermit(n)
      /\ result' = [result EXCEPT ![n] = r]
      /\ UNCHANGED <<chunks, arrived, given, aborted>>
  BY <1>1 DEF End, Goto, EndStep
<1>3. DataOK'
  BY <1>1, <1>2 DEF DataOK, TypeOK
<1>4. PermitsBalanced' /\ permits' \in 0 .. Permits
  BY <1>2, PermitReturned
<1>5. TreeInv'
  BY <1>1, <1>2, EndKeepsTree
<1>6. FailuresStayLocal'
  BY <1>1, <1>2 DEF FailuresStayLocal, TypeOK
<1>. QED  BY <1>3, <1>4, <1>5, <1>6 DEF Kept

LEMMA DrainKeeps ==
  ASSUME IInv, NEW n \in Nodes, DrainStep(n), shutdown' = shutdown
  PROVE  Kept'
<1>. USE DEF IInv, SafetyInv
<1>1. PICK r : /\ StartDraining(n, r)
               /\ r.tag \in Tags \ Good
               /\ n # Root /\ r.tag = "error" => shutdown
  BY DEF DrainStep
<1>2. /\ pc' = [pc EXCEPT ![n] = "draining"] /\ permits' = permits
      /\ result' = [result EXCEPT ![n] = r]
      /\ aborted' = aborted \cup chunks[n]
      /\ UNCHANGED <<chunks, arrived, given>>
      /\ pc[n] \in {"spawning", "collecting"}
  BY <1>1 DEF StartDraining, DrainStep
<1>3. DataOK'
  <2>1. aborted' \subseteq Nodes
    BY <1>2, ChunksAreKids, KidsAreNodes DEF TypeOK
  <2>. QED  BY <1>1, <1>2, <2>1 DEF DataOK, TypeOK
<1>4. PermitsBalanced' /\ permits' \in 0 .. Permits
  BY <1>2, PermitsKept DEF HoldsPermit, TypeOK
<1>5. ASSUME NEW m \in Nodes
      PROVE  InOrder(m)'
  <2>1. /\ \A p \in Nodes : p # n => pc'[p] = pc[p] /\ result'[p] = result[p]
        /\ pc'[n] = "draining" /\ result'[n] = r
    BY <1>2 DEF TypeOK
  <2>2. ASSUME NEW c \in Kid(m), pc[c] \in {"unborn", "joined"}
        PROVE  pc'[c] = pc[c]
    BY <1>2, <2>1, <2>2, KidsAreNodes
  <2>. QED  BY <1>1, <1>2, <2>1, <2>2 DEF TreeInv, InOrder, Settled
<1>6. FailuresStayLocal'
  BY <1>1, <1>2 DEF FailuresStayLocal, TypeOK
<1>. QED  BY <1>3, <1>4, <1>5, <1>6 DEF Kept, TreeInv

(* A call of the model, for a leaf or a reduction, and the end of a drain. *)
LEMMA MoveKeeps ==
  ASSUME IInv, NEW n \in Nodes, AskModel(n) \/ AskToReduce(n) \/ Drained(n),
         shutdown' = shutdown
  PROVE  Kept'
<1>. USE DEF IInv, SafetyInv
<1>0. /\ UNCHANGED <<permits, chunks, arrived, aborted, result>>
      /\ DOMAIN given' = Nodes
      /\ \A p \in Nodes : p # n => pc'[p] = pc[p]
      /\ \/ pc[n] = "started" /\ pc'[n] = "calling"
         \/ pc[n] = "collecting" /\ pc'[n] = "reducing" /\ AllJoined(n)
         \/ pc[n] = "draining" /\ pc'[n] = "finished"
  BY DEF AskModel, AskToReduce, Drained, Goto, TypeOK
<1>1. pc' \in [Nodes -> {"unborn", "started", "calling", "spawning",
                         "collecting", "reducing", "draining", "finished",
                         "joined"}]
  BY DEF AskModel, AskToReduce, Drained, Goto, TypeOK
<1>2. DataOK'
  BY <1>0, <1>1 DEF DataOK, TypeOK
<1>3. PermitsBalanced' /\ permits' \in 0 .. Permits
  BY <1>0, PermitsKept DEF HoldsPermit
<1>4. ASSUME NEW m \in Nodes
      PROVE  InOrder(m)'
  <2>1. ASSUME NEW c \in Kid(m), pc[c] \in {"unborn", "joined"}
        PROVE  pc'[c] = pc[c]
    BY <1>0, <2>1, KidsAreNodes
  <2>2. AllJoined(n) => \A c \in Kid(n) : pc[c] \in {"unborn", "joined"}
    BY DEF AllJoined, TreeInv, InOrder
  <2>3. CASE m = n
    BY <1>0, <2>1, <2>2, <2>3 DEF TreeInv, InOrder, Settled
  <2>4. CASE m # n
    BY <1>0, <2>1, <2>4 DEF TreeInv, InOrder, Settled
  <2>. QED  BY <2>3, <2>4
<1>5. FailuresStayLocal'
  BY <1>0 DEF FailuresStayLocal
<1>. QED  BY <1>2, <1>3, <1>4, <1>5 DEF Kept, TreeInv

LEMMA MappingKeeps ==
  ASSUME IInv, NEW n \in Nodes, BeginMapping(n), shutdown' = shutdown
  PROVE  Kept'
<1>. USE DEF IInv, SafetyInv
<1>0. /\ UNCHANGED <<arrived, given, aborted, result>> /\ ReleasePermit(n)
      /\ pc[n] = "started" /\ pc' = [pc EXCEPT ![n] = "spawning"]
      /\ chunks' = [chunks EXCEPT ![n] = Survivors(n)]
  BY DEF BeginMapping, Goto
<1>1. Survivors(n) \subseteq ToSet(Kids[n])
  BY DEF Survivors
<1>2. DataOK'
  BY <1>0, <1>1 DEF DataOK, TypeOK
<1>3. PermitsBalanced' /\ permits' \in 0 .. Permits
  BY <1>0, PermitReturned
<1>4. ASSUME NEW m \in Nodes
      PROVE  InOrder(m)'
  <2>1. /\ \A p \in Nodes : p # n => pc'[p] = pc[p] /\ chunks'[p] = chunks[p]
        /\ pc'[n] = "spawning"
    BY <1>0 DEF TypeOK
  <2>2. ASSUME NEW c \in Kid(m), pc[c] \in {"unborn", "joined"}
        PROVE  pc'[c] = pc[c]
    BY <1>0, <2>1, <2>2, KidsAreNodes
  <2>. QED  BY <1>0, <2>1, <2>2 DEF TreeInv, InOrder, Settled
<1>5. FailuresStayLocal'
  BY <1>0 DEF FailuresStayLocal
<1>. QED  BY <1>2, <1>3, <1>4, <1>5 DEF Kept, TreeInv

(* A child is born with the permit its parent took for it. *)
LEMMA SpawnKeeps ==
  ASSUME IInv, NEW n \in Nodes, Spawn(n), shutdown' = shutdown
  PROVE  Kept'
<1>. USE DEF IInv, SafetyInv
<1>0. PICK c \in Unspawned(n) :
        pc' = [pc EXCEPT ![c] = "started",
                         ![n] = IF Unspawned(n) = {c} THEN "collecting" ELSE @]
  BY DEF Spawn
<1>1. /\ c \in Kid(n) /\ c \in chunks[n] /\ pc[c] = "unborn"
      /\ pc[n] = "spawning" /\ c # n /\ c \in Nodes \ {Root}
  BY <1>0, ChunksAreKids, KidsAreNodes DEF Unspawned, Spawn
<1>2. /\ pc'[c] = "started" /\ pc'[n] \in {"spawning", "collecting"}
      /\ \A p \in Nodes : p # n /\ p # c => pc'[p] = pc[p]
      /\ pc' \in [Nodes -> {"unborn", "started", "calling", "spawning",
                            "collecting", "reducing", "draining", "finished",
                            "joined"}]
  BY <1>0, <1>1 DEF TypeOK
<1>3. /\ permits' = permits - 1 /\ permits > 0
      /\ UNCHANGED <<chunks, arrived, given, aborted, result>>
  BY DEF Spawn
<1>4. DataOK'
  BY <1>2, <1>3 DEF DataOK, TypeOK
<1>5. PermitsBalanced' /\ permits' \in 0 .. Permits
  <2>1. c \notin Holders /\ Holders' = Holders \cup {c}
    BY <1>1, <1>2 DEF Holders, HoldsPermit
  <2>2. Holders \in SUBSET Nodes
    BY DEF Holders
  <2>3. Cardinality(Holders') = Cardinality(Holders) + 1 /\ Cardinality(Holders) \in Nat
    BY <1>1, <2>1, <2>2, Counting
  <2>4. permits \in 0 .. Permits /\ permits + Cardinality(Holders) = Permits
    BY DEF PermitsBalanced, TypeOK
  <2>. QED  BY <1>3, <2>3, <2>4, PhiAssumption DEF PermitsBalanced
<1>6. ASSUME NEW m \in Nodes
      PROVE  InOrder(m)'
  <2>1. ASSUME m # n, NEW d \in Kid(m), pc[d] \in {"unborn", "joined"}
        PROVE  pc'[d] = pc[d]
    <3>1. d # c
      BY <1>1, <2>1, OneParent
    <3>. QED  BY <1>1, <1>2, <2>1, <3>1, KidsAreNodes
  <2>2. CASE m = n
    <3>1. \A d \in Kid(n) \ chunks[n] : pc'[d] = "unborn"
      <4>1. ASSUME NEW d \in Kid(n) \ chunks[n] PROVE pc'[d] = "unborn"
        <5>1. pc[d] = "unborn" /\ d \in Nodes /\ d # n /\ d # c
          BY <1>1, KidsAreNodes DEF TreeInv, InOrder
        <5>. QED  BY <1>2, <5>1
      <4>. QED  BY <4>1
    <3>. QED  BY <1>2, <1>3, <2>2, <3>1 DEF InOrder, Settled
  <2>3. CASE m # n
    BY <1>1, <1>2, <1>3, <2>1, <2>3 DEF TreeInv, InOrder, Settled
  <2>. QED  BY <2>2, <2>3
<1>7. FailuresStayLocal'
  BY <1>3 DEF FailuresStayLocal
<1>. QED  BY <1>4, <1>5, <1>6, <1>7 DEF Kept, TreeInv

LEMMA JoinKeeps ==
  ASSUME IInv, NEW n \in Nodes, NEW c \in Nodes,
         Collect(n, c) \/ LosePanicked(n, c), shutdown' = shutdown
  PROVE  Kept'
<1>. USE DEF IInv, SafetyInv
<1>0. /\ pc[n] = "collecting" /\ c \in chunks[n] /\ pc[c] = "finished"
      /\ pc' = [pc EXCEPT ![c] = "joined"] /\ result[c].tag \in Good
      /\ UNCHANGED <<permits, chunks, given, aborted, result>>
  BY DEF Collect, LosePanicked, Goto, Good
<1>1. /\ c \in Kid(n) /\ pc'[c] = "joined"
      /\ \A p \in Nodes : p # c => pc'[p] = pc[p]
  BY <1>0, ChunksAreKids DEF TypeOK
<1>2. /\ DOMAIN arrived' = Nodes
      /\ \A m \in Nodes : arrived'[m] \in Seq(ToSet(Kids[m]))
  <2>1. CASE Collect(n, c)
    <3>1. arrived' = [arrived EXCEPT ![n] = Append(arrived[n], c)]
      BY <2>1 DEF Collect
    <3>2. /\ DOMAIN arrived' = Nodes
          /\ \A m \in Nodes : arrived'[m] = IF m = n THEN Append(arrived[n], c)
                                             ELSE arrived[m]
      BY <3>1 DEF TypeOK
    <3>3. \A m \in Nodes : arrived[m] \in Seq(ToSet(Kids[m]))
      BY DEF TypeOK
    <3>4. c \in ToSet(Kids[n])
      BY <1>1 DEF Kid
    <3>5. Append(arrived[n], c) \in Seq(ToSet(Kids[n]))
      BY <3>3, <3>4
    <3>. QED  BY <3>2, <3>3, <3>5
  <2>2. CASE LosePanicked(n, c)
    <3>1. arrived' = arrived
      BY <2>2 DEF LosePanicked
    <3>. QED  BY <3>1 DEF TypeOK
  <2>. QED  BY <2>1, <2>2
<1>3. DataOK'
  BY <1>0, <1>2 DEF DataOK, TypeOK
<1>4. PermitsBalanced' /\ permits' \in 0 .. Permits
  BY <1>0, <1>1, PermitsKept DEF HoldsPermit
<1>5. ASSUME NEW m \in Nodes
      PROVE  InOrder(m)'
  <2>1. ASSUME NEW d \in Kid(m), pc[d] \in {"unborn", "joined"}
        PROVE  pc'[d] = pc[d]
    BY <1>0, <1>1, <2>1, KidsAreNodes
  <2>. QED  BY <1>0, <1>1, <2>1 DEF TreeInv, InOrder, Settled
<1>6. FailuresStayLocal'
  BY <1>0 DEF FailuresStayLocal
<1>. QED  BY <1>3, <1>4, <1>5, <1>6 DEF Kept, TreeInv

-----------------------------------------------------------------------------
(* The flags: they are Boolean-valued, and a step of the tree leaves all   *)
(* but degraded.                                                           *)
LEMMA StepFlags ==
  ASSUME TypeOK, NEW n \in Nodes, Step(n)
  PROVE  /\ shutdown' = shutdown /\ setup' = setup
         /\ degraded' \in BOOLEAN
<1>1. shutdown' = shutdown /\ setup' = setup
  BY Zenon DEF Step, RefuseStart, AskModel, Accept, Reject, CallFails, Panic,
     NothingToMap, DegradeAtPreflight, BeginMapping, Spawn, StopMapping,
     Drained, Collect, LosePanicked, PanicAtRoot, AllLost, Compose,
     AskToReduce, Reduced, ReduceFails, Cancel
<1>2. degraded' \in {degraded, TRUE} \/ degraded' = (degraded \/ n \in DeepLeaves)
      \/ degraded' = (degraded \/ n # Root)
  BY Zenon DEF Step, RefuseStart, AskModel, Accept, Reject, CallFails, Panic,
     NothingToMap, DegradeAtPreflight, BeginMapping, Spawn, StopMapping,
     Drained, Collect, LosePanicked, PanicAtRoot, AllLost, Compose,
     AskToReduce, Reduced, ReduceFails, Cancel
<1>3. degraded \in BOOLEAN
  BY Zenon DEF TypeOK
<1>4. degraded' \in BOOLEAN
  BY <1>2, <1>3, Zenon
<1>. QED  BY <1>1, <1>4

LEMMA StepKeeps ==
  ASSUME IInv, NEW n \in Nodes, Step(n), shutdown' = shutdown
  PROVE  Kept'
<1>1. CASE Ends(n)
  BY <1>1, EndsAreEndSteps, EndKeeps
<1>2. CASE Cancel(n)
  BY <1>2, CancelEndsOrDrains, EndKeeps, DrainKeeps
<1>3. CASE StopMapping(n) \/ (n = Root /\ \E c \in Nodes : PanicAtRoot(c))
  BY <1>3, StopsAreDrainSteps, DrainKeeps
<1>4. CASE AskModel(n) \/ AskToReduce(n) \/ Drained(n)
  BY <1>4, MoveKeeps
<1>5. CASE BeginMapping(n)
  BY <1>5, MappingKeeps
<1>6. CASE Spawn(n)
  BY <1>6, SpawnKeeps
<1>7. CASE \E c \in Nodes : Collect(n, c) \/ LosePanicked(n, c)
  BY <1>7, JoinKeeps
<1>. QED
  BY <1>1, <1>2, <1>3, <1>4, <1>5, <1>6, <1>7, Zenon DEF Step, Ends

LEMMA StepPreserves == IInv /\ [Next]_vars => IInv'
<1>. SUFFICES ASSUME IInv, [Next]_vars PROVE IInv'
  OBVIOUS
<1>0. TypeOK
  BY DEF IInv
<1>1. CASE \E n \in Nodes : Step(n)
  <2>1. PICK n \in Nodes : Step(n)
    BY <1>1
  <2>2. shutdown' = shutdown /\ setup' = setup /\ degraded' \in BOOLEAN
    BY <1>0, <2>1, StepFlags
  <2>3. Kept'
    BY <2>1, <2>2, StepKeeps
  <2>4. shutdown' \in BOOLEAN
    BY <1>0, <2>2, Zenon DEF TypeOK
  <2>5. [task |-> task, matching |-> matching]' \in Setups
    BY <1>0, <2>2 DEF TypeOK, setup
  <2>6. TypeOK'
    BY <2>2, <2>3, <2>4, <2>5, Zenon DEF TypeOK, Kept, DataOK
  <2>. QED  BY <2>3, <2>6, Zenon DEF IInv, Kept
<1>2. CASE SendShutdown \/ UNCHANGED vars
  <2>1. UNCHANGED <<task, matching, permits, degraded, pc, chunks, arrived,
                    given, aborted, result>>
    BY <1>2 DEF SendShutdown, vars, setup
  <2>2. shutdown' \in BOOLEAN /\ (shutdown => shutdown')
    BY <1>0, <1>2, Zenon DEF SendShutdown, vars, TypeOK
  <2>3. TypeOK'
    BY <1>0, <2>1, <2>2, Zenon DEF TypeOK
  <2>4. TreeInv'
    BY <2>1 DEF IInv, SafetyInv, TreeInv, InOrder, Settled
  <2>5. PermitsBalanced'
    <3>1. Holders' = Holders
      BY <2>1 DEF Holders, HoldsPermit
    <3>. QED  BY <2>1, <3>1 DEF IInv, SafetyInv, PermitsBalanced
  <2>6. FailuresStayLocal'
    BY <2>1, <2>2 DEF IInv, SafetyInv, FailuresStayLocal
  <2>. QED  BY <2>3, <2>4, <2>5, <2>6 DEF IInv, SafetyInv
<1>. QED  BY <1>1, <1>2 DEF Next, Terminated

(* The strengthened invariant holds in every state of every behaviour. *)
THEOREM Invariance == Spec => []IInv
<1>1. Init => IInv
  BY InitEstablishes
<1>2. IInv /\ [Next]_vars => IInv'
  BY StepPreserves
<1>. QED  BY <1>1, <1>2, PTL DEF Spec

(* The state of the tree keeps its types; above all, permits stay between  *)
(* none and all of them.                                                   *)
THEOREM PhiTypeCorrect == Spec => []TypeOK
<1>1. IInv => TypeOK
  BY DEF IInv
<1>. QED  BY <1>1, Invariance, PTL

(* Only shutdown makes a task below the root return an error. *)
THEOREM OnlyShutdownSpreads == Spec => []FailuresStayLocal
<1>1. IInv => FailuresStayLocal
  BY DEF IInv, SafetyInv
<1>. QED  BY <1>1, Invariance, PTL

(* When phi has returned an answer, no task of its tree, however deep, can *)
(* call the model or holds a permit: the nodes that are unborn or joined,  *)
(* with the root, are closed under Kids.                                   *)
THEOREM StructuredConcurrency == Spec => []NoneOutlivesAnswer
<1>1. IInv => NoneOutlivesAnswer
  <2>. SUFFICES ASSUME IInv, pc[Root] = "finished",
                       Answer.tag \in {"text", "marker"}
                PROVE  permits = Permits /\ \A n \in Nodes : ~Alive(n)
    BY DEF NoneOutlivesAnswer
  <2>. USE DEF IInv, SafetyInv
  <2>. DEFINE S == {n \in Nodes : n = Root \/ pc[n] \in {"unborn", "joined"}}
  <2>1. ASSUME NEW n \in S PROVE ToSet(Kids[n]) \subseteq S
    <3>1. n \in Nodes /\ InOrder(n)
      BY DEF TreeInv
    <3>2. \A c \in Kid(n) : pc[c] \in {"unborn", "joined"}
      <4>1. CASE n = Root
        BY <3>1, <4>1 DEF InOrder, Settled, Good, Answer
      <4>2. CASE n # Root
        BY <3>1, <4>2 DEF InOrder, Settled
      <4>. QED  BY <4>1, <4>2
    <3>. QED  BY <3>1, <3>2, KidsAreNodes DEF Kid
  <2>2. Root \in S /\ S \in SUBSET Nodes
    BY PhiAssumption
  <2>3. S = Nodes
    <3>. HIDE DEF S
    <3>. QED  BY <2>1, <2>2, PhiAssumption DEF Closed
  <2>4. \A n \in Nodes : ~Alive(n)
    BY <2>3 DEF Alive
  <2>5. Holders = {}
    BY <2>4 DEF Holders, HoldsPermit, Alive
  <2>. QED  BY <2>4, <2>5, FS_EmptySet, PhiAssumption DEF PermitsBalanced, TypeOK
<1>. QED  BY <1>1, Invariance, PTL

-----------------------------------------------------------------------------
(* Induction over an interval, recursive functions, and sequences *)

(* A set that holds 0 and is closed under successor holds every natural   *)
(* number: induction stated for a set, from the least element of Nat.      *)
LEMMA SetInduction ==
  ASSUME NEW S, 0 \in S, \A n \in Nat : n \in S => n + 1 \in S
  PROVE  Nat \subseteq S
<1>. SUFFICES ASSUME Nat \ S # {} PROVE FALSE
  OBVIOUS
<1>1. PICK x \in Nat \ S : \A y \in Nat \ S : ~ (<<y, x>> \in OpToRel(<, Nat))
  BY NatLessThanWellFounded, WFMin
<1>2. x # 0 /\ x - 1 \in Nat /\ x - 1 + 1 = x
  OBVIOUS
<1>3. <<x - 1, x>> \in OpToRel(<, Nat)
  BY <1>2 DEF OpToRel
<1>. QED  BY <1>1, <1>2, <1>3

(* The same on an interval. *)
LEMMA IntervalInduction ==
  ASSUME NEW a \in Int, NEW b \in Int, NEW S,
         a \in S, \A i \in a + 1 .. b : i - 1 \in S => i \in S
  PROVE  a .. b \subseteq S
<1>. DEFINE T == {n \in Nat : a + n <= b => a + n \in S}
<1>1. 0 \in T
  OBVIOUS
<1>2. ASSUME NEW n \in Nat, n \in T PROVE n + 1 \in T
  <2>. SUFFICES ASSUME a + (n + 1) <= b PROVE a + (n + 1) \in S
    OBVIOUS
  <2>1. a + (n + 1) \in a + 1 .. b /\ a + (n + 1) - 1 = a + n /\ a + n <= b
    OBVIOUS
  <2>. QED  BY <2>1, <1>2
<1>3. Nat \subseteq T
  <2>. HIDE DEF T
  <2>. QED  BY <1>1, <1>2, SetInduction
<1>. SUFFICES ASSUME NEW i \in a .. b PROVE i \in S
  OBVIOUS
<1>4. i - a \in Nat /\ a + (i - a) = i /\ i <= b
  OBVIOUS
<1>. QED  BY <1>3, <1>4

(* The functions that a recursion over a .. b defines. *)
Iterations(V, a, b, base, step) ==
    {g \in [a .. b -> V] :
        /\ a <= b => g[a] = base
        /\ \A i \in a + 1 .. b : g[i] = step[i][g[i - 1]]}

(* There is one. *)
LEMMA Recursion ==
  ASSUME NEW V, NEW a \in Int, NEW b \in Int, NEW base \in V,
         NEW step, \A i \in a + 1 .. b : \A x \in V : step[i][x] \in V
  PROVE  Iterations(V, a, b, base, step) # {}
<1>. DEFINE Upto(m) == Iterations(V, a, m, base, step)
           S == {m \in Int : Upto(m) # {}}
<1>1. CASE b < a
  <2>1. [i \in a .. b |-> base] \in Upto(b)
    BY <1>1 DEF Iterations
  <2>. QED  BY <2>1
<1>2. CASE a <= b
  <2>1. a \in S
    <3>1. [i \in a .. a |-> base] \in Upto(a)
      BY DEF Iterations
    <3>. QED  BY <3>1
  <2>2. ASSUME NEW i \in a + 1 .. b, i - 1 \in S PROVE i \in S
    <3>1. PICK g \in Upto(i - 1) : TRUE
      BY <2>2
    <3>. DEFINE h == [j \in a .. i |-> IF j = i THEN step[i][g[i - 1]] ELSE g[j]]
    <3>2. g \in [a .. i - 1 -> V] /\ g[i - 1] \in V
      BY <3>1 DEF Iterations
    <3>3. h \in [a .. i -> V]
      BY <3>2
    <3>4. h[a] = base
      BY <3>1 DEF Iterations
    <3>5. ASSUME NEW j \in a + 1 .. i PROVE h[j] = step[j][h[j - 1]]
      <4>1. CASE j = i
        BY <3>2, <4>1
      <4>2. CASE j \in a + 1 .. i - 1
        BY <3>1, <4>2 DEF Iterations
      <4>. QED  BY <4>1, <4>2
    <3>. HIDE DEF h
    <3>6. h \in Upto(i)
      BY <3>3, <3>4, <3>5 DEF Iterations
    <3>. QED  BY <3>6
  <2>3. a .. b \subseteq S
    <3>. HIDE DEF S
    <3>. QED  BY <2>1, <2>2, IntervalInduction
  <2>. QED  BY <1>2, <2>3
<1>. QED  BY <1>1, <1>2

(* The partial results of Gather. *)
Gathers(D, s, f, n) ==
    {g \in [0 .. n -> Seq(D)] :
        g[0] = <<>> /\ \A i \in 1 .. n : g[i] = g[i - 1] \o f[s[i]]}

(* Gather satisfies the equations of its recursive definition. *)
LEMMA GatherEquations ==
  ASSUME NEW D, NEW s, NEW f, NEW n \in Nat, n = Len(s),
         \A i \in 1 .. n : f[s[i]] \in Seq(D)
  PROVE  \E g \in Gathers(D, s, f, n) : Gather(s, f) = g[n]
<1>. DEFINE V == Seq(D)
           next(x, i) == x \o f[s[i]]
           first == <<>>
           E(g) == [i \in 0 .. n |-> IF i = 0 THEN <<>> ELSE g[i - 1] \o f[s[i]]]
           u == CHOOSE x : x = E(x)
           step == [i \in 1 .. n |-> [x \in V |-> next(x, i)]]
<1>1. first \in V /\ \A i \in 1 .. n, x \in V : next(x, i) \in V
  OBVIOUS
<1>2. Gather(s, f) = u[n]
  BY Zenon DEF Gather
<1>3. \A g : E(g) = [j \in 0 .. n |-> IF j = 0 THEN first ELSE next(g[j - 1], j)]
  BY Zenon
<1>. HIDE DEF V, next, first, E
<1>4. \A i \in 1 .. n : \A x \in V : step[i][x] = next(x, i) /\ step[i][x] \in V
  BY <1>1
<1>. HIDE DEF step
<1>5. PICK a \in Int : a = 0
  OBVIOUS
<1>6. PICK g \in Iterations(V, a, n, first, step) : TRUE
  <2>1. \A i \in a + 1 .. n : \A x \in V : step[i][x] \in V
    BY <1>4, <1>5
  <2>2. n \in Int
    OBVIOUS
  <2>3. Iterations(V, a, n, first, step) # {}
    BY <1>1, <2>1, <2>2, Recursion, Zenon
  <2>. QED  BY <2>3, Zenon
<1>7. g \in [0 .. n -> V] /\ g[0] = first /\ \A i \in 1 .. n : g[i] = step[i][g[i - 1]]
  BY <1>5, <1>6 DEF Iterations
<1>8. ASSUME NEW i \in 1 .. n PROVE g[i] = next(g[i - 1], i)
  <2>1. i - 1 \in 0 .. n
    OBVIOUS
  <2>2. g[i - 1] \in V
    BY <1>7, <2>1
  <2>. QED  BY <2>2, <1>4, <1>7
<1>9. g = E(g)
  BY <1>3, <1>7, <1>8
<1>10. u = E(u)
  BY <1>9, Zenon
<1>. HIDE DEF u
<1>11. u[0] = first /\ \A i \in 1 .. n : u[i] = next(u[i - 1], i)
  BY <1>10, <1>3
<1>. DEFINE S == {i \in Int : u[i] \in V}
<1>12. a .. n \subseteq S
  <2>1. a \in S /\ \A i \in a + 1 .. n : i - 1 \in S => i \in S
    BY <1>1, <1>5, <1>11
  <2>2. n \in Int
    OBVIOUS
  <2>. HIDE DEF S
  <2>. QED  BY <2>1, <2>2, IntervalInduction, Zenon
<1>13. u \in [0 .. n -> V]
  BY <1>3, <1>5, <1>10, <1>12
<1>. QED  BY <1>2, <1>11, <1>13 DEF V, next, first, Gathers

(* Whatever comes earlier in t is related by R to what comes later. *)
Ordered(t, R) == \A i, j \in DOMAIN t : i < j => <<t[i], t[j]>> \in R

(* Two ordered sequences, the first before the second, joined. *)
LEMMA JoinTwo ==
  ASSUME NEW D, NEW u \in Seq(D), NEW v \in Seq(D), NEW w, w = u \o v, NEW R,
         Ordered(u, R), Ordered(v, R),
         \A x \in ToSet(u), y \in ToSet(v) : <<x, y>> \in R
  PROVE  Ordered(w, R) /\ ToSet(w) = ToSet(u) \cup ToSet(v)
<1>2. PICK m \in Nat : m = Len(u) /\ DOMAIN u = 1 .. m
  OBVIOUS
<1>3. PICK n \in Nat : n = Len(v) /\ DOMAIN v = 1 .. n
  OBVIOUS
<1>4. DOMAIN w = 1 .. m + n /\ \A i \in 1 .. m + n : w[i] = IF i <= m THEN u[i] ELSE v[i - m]
  BY <1>2, <1>3
<1>5. \A i \in 1 .. m : i \in DOMAIN w /\ w[i] = u[i]
  BY <1>4
<1>6. ASSUME NEW i \in 1 .. n PROVE m + i \in DOMAIN w /\ w[m + i] = v[i]
  <2>1. m + i \in 1 .. m + n /\ ~ (m + i <= m) /\ m + i - m = i
    OBVIOUS
  <2>. QED  BY <2>1, <1>4
<1>7. ASSUME NEW i \in DOMAIN w
      PROVE  \/ i \in 1 .. m /\ w[i] = u[i]
             \/ i - m \in 1 .. n /\ w[i] = v[i - m]
  BY <1>4
<1>8. ToSet(w) \subseteq ToSet(u) \cup ToSet(v)
  BY <1>2, <1>3, <1>7 DEF ToSet
<1>9. ToSet(u) \subseteq ToSet(w) /\ ToSet(v) \subseteq ToSet(w)
  <2>1. ToSet(u) \subseteq ToSet(w)
    BY <1>2, <1>5, Zenon DEF ToSet
  <2>2. ToSet(v) \subseteq ToSet(w)
    BY <1>3, <1>6, Zenon DEF ToSet
  <2>. QED  BY <2>1, <2>2
<1>10. ASSUME NEW i \in DOMAIN w, NEW j \in DOMAIN w, i < j
       PROVE  <<w[i], w[j]>> \in R
  <2>1. i \in Int /\ j \in Int
    BY <1>4
  <2>2. CASE i \in 1 .. m /\ j \in 1 .. m
    BY <1>2, <1>5, <1>10, <2>2 DEF Ordered
  <2>3. CASE i \in 1 .. m /\ w[i] = u[i] /\ j - m \in 1 .. n /\ w[j] = v[j - m]
    BY <1>2, <1>3, <2>3 DEF ToSet
  <2>4. CASE i - m \in 1 .. n /\ w[i] = v[i - m] /\ j - m \in 1 .. n /\ w[j] = v[j - m]
    <3>1. i - m < j - m
      BY <1>10, <2>1
    <3>. QED  BY <1>3, <2>4, <3>1 DEF Ordered
  <2>5. ~ (i - m \in 1 .. n /\ j \in 1 .. m)
    BY <1>10, <2>1
  <2>. QED  BY <1>7, <2>2, <2>3, <2>4, <2>5
<1>. QED  BY <1>8, <1>9, <1>10 DEF Ordered

(* What is gathered: sequences, each ordered, the earlier ones first. *)
Parts(D, s, f, n) == \A i \in 1 .. n : f[s[i]] \in Seq(D)

PartsOrdered(R, s, f, n) ==
    /\ \A i \in 1 .. n : Ordered(f[s[i]], R)
    /\ \A i, j \in 1 .. n :
         i < j => \A x \in ToSet(f[s[i]]), y \in ToSet(f[s[j]]) : <<x, y>> \in R

Gathered(D, R, s, f, n) ==
    /\ Gather(s, f) \in Seq(D)
    /\ ToSet(Gather(s, f)) = UNION {ToSet(f[s[i]]) : i \in 1 .. n}
    /\ Ordered(Gather(s, f), R)

(* What is gathered is ordered, and holds what its parts hold. *)
LEMMA GatherIs ==
  ASSUME NEW D, NEW R, NEW s, NEW f, NEW n \in Nat, n = Len(s),
         Parts(D, s, f, n), PartsOrdered(R, s, f, n)
  PROVE  Gathered(D, R, s, f, n)
<1>. DEFINE All(i) == UNION {ToSet(f[s[j]]) : j \in 1 .. i}
<1>1. PICK g \in Gathers(D, s, f, n) : Gather(s, f) = g[n]
  BY GatherEquations, Zenon DEF Parts
<1>. DEFINE T == {i \in Int : Ordered(g[i], R) /\ ToSet(g[i]) = All(i)}
<1>2. PICK a \in Int : a = 0
  OBVIOUS
<1>3. a \in T
  <2>1. g[0] = <<>>
    BY <1>1, Zenon DEF Gathers
  <2>2. All(0) = {}
    OBVIOUS
  <2>3. ToSet(<<>>) = {} /\ Ordered(<<>>, R)
    BY DEF ToSet, Ordered
  <2>. QED  BY <1>2, <2>1, <2>2, <2>3
<1>4. ASSUME NEW i \in a + 1 .. n, i - 1 \in T PROVE i \in T
  <2>1. i \in 1 .. n /\ i - 1 \in 0 .. n /\ i \in Int
    BY <1>2
  <2>2. PICK u : u = g[i - 1]
    OBVIOUS
  <2>3. PICK v : v = f[s[i]]
    OBVIOUS
  <2>4. g[i] = u \o v /\ u \in Seq(D) /\ v \in Seq(D)
    BY <1>1, <2>1, <2>2, <2>3, Zenon DEF Gathers, Parts
  <2>5. Ordered(u, R) /\ ToSet(u) = All(i - 1) /\ Ordered(v, R)
    BY <1>4, <2>1, <2>2, <2>3, Zenon DEF PartsOrdered
  <2>6. \A x \in ToSet(u), y \in ToSet(v) : <<x, y>> \in R
    <3>. SUFFICES ASSUME NEW x \in ToSet(u), NEW y \in ToSet(v) PROVE <<x, y>> \in R
      OBVIOUS
    <3>1. PICK j \in 1 .. i - 1 : x \in ToSet(f[s[j]])
      BY <2>5, Zenon
    <3>2. j \in 1 .. n /\ j < i
      BY <2>1
    <3>. QED  BY <2>1, <2>3, <3>1, <3>2, Zenon DEF PartsOrdered
  <2>7. Ordered(g[i], R) /\ ToSet(g[i]) = ToSet(u) \cup ToSet(v)
    BY <2>4, <2>5, <2>6, JoinTwo, Zenon
  <2>8. All(i) = All(i - 1) \cup ToSet(v)
    <3>1. \A j \in 1 .. i : j = i \/ j \in 1 .. i - 1
      BY <2>1
    <3>2. \A j \in 1 .. i - 1 : j \in 1 .. i
      BY <2>1
    <3>3. i \in 1 .. i
      BY <2>1
    <3>. QED  BY <2>3, <3>1, <3>2, <3>3, Zenon
  <2>. QED  BY <2>1, <2>5, <2>7, <2>8, Zenon
<1>5. a .. n \subseteq T
  <2>1. n \in Int
    OBVIOUS
  <2>. HIDE DEF T
  <2>. QED  BY <1>3, <1>4, <2>1, IntervalInduction, Zenon
<1>6. n \in a .. n /\ n \in 0 .. n
  BY <1>2
<1>7. n \in T
  BY <1>5, <1>6, Zenon
<1>8. g[n] \in Seq(D)
  BY <1>1, <1>6, Zenon DEF Gathers
<1>. QED  BY <1>1, <1>7, <1>8, Zenon DEF Gathered

(* What Keep keeps, it keeps in order. *)
LEMMA KeepIs ==
  ASSUME NEW D, NEW R, NEW s \in Seq(D), NEW S, Ordered(s, R)
  PROVE  /\ Keep(s, S) \in Seq(D)
         /\ ToSet(Keep(s, S)) = ToSet(s) \cap S
         /\ Ordered(Keep(s, S), R)
<1>. DEFINE f == [c \in ToSet(s) |-> IF c \in S THEN <<c>> ELSE <<>>]
<1>1. PICK n \in Nat : n = Len(s) /\ DOMAIN s = 1 .. n
  OBVIOUS
<1>2. \A i \in 1 .. n : s[i] \in D /\ s[i] \in ToSet(s)
  BY <1>1 DEF ToSet
<1>3. \A i \in 1 .. n : f[s[i]] = IF s[i] \in S THEN <<s[i]>> ELSE <<>>
  BY <1>2
<1>. HIDE DEF f
<1>4. ASSUME NEW x \in D
      PROVE  <<x>> \in Seq(D) /\ ToSet(<<x>>) = {x} /\ Ordered(<<x>>, R)
  BY DEF ToSet, Ordered
<1>5. <<>> \in Seq(D) /\ ToSet(<<>>) = {} /\ Ordered(<<>>, R)
  BY DEF ToSet, Ordered
<1>6. Parts(D, s, f, n)
  BY <1>2, <1>3, <1>4, <1>5, Zenon DEF Parts
<1>7. \A i \in 1 .. n : ToSet(f[s[i]]) = {s[i]} \cap S /\ Ordered(f[s[i]], R)
  <2>. SUFFICES ASSUME NEW i \in 1 .. n
               PROVE  ToSet(f[s[i]]) = {s[i]} \cap S /\ Ordered(f[s[i]], R)
    OBVIOUS
  <2>1. CASE s[i] \in S
    <3>1. f[s[i]] = <<s[i]>>
      BY <1>3, <2>1, Zenon
    <3>2. ToSet(<<s[i]>>) = {s[i]} /\ Ordered(<<s[i]>>, R)
      BY <1>2, <1>4, Zenon
    <3>3. {s[i]} \cap S = {s[i]}
      BY <2>1, Zenon
    <3>. QED  BY <3>1, <3>2, <3>3, Zenon
  <2>2. CASE s[i] \notin S
    <3>1. f[s[i]] = <<>>
      BY <1>3, <2>2, Zenon
    <3>2. {s[i]} \cap S = {}
      BY <2>2, Zenon
    <3>. QED  BY <1>5, <3>1, <3>2, Zenon
  <2>. QED  BY <2>1, <2>2
<1>8. PartsOrdered(R, s, f, n)
  <2>. SUFFICES ASSUME NEW i \in 1 .. n, NEW j \in 1 .. n, i < j,
                      NEW x \in ToSet(f[s[i]]), NEW y \in ToSet(f[s[j]])
               PROVE  <<x, y>> \in R
    BY <1>7, Zenon DEF PartsOrdered
  <2>1. x = s[i] /\ y = s[j]
    BY <1>7, Zenon
  <2>. QED  BY <1>1, <2>1, Zenon DEF Ordered
<1>9. Gathered(D, R, s, f, n)
  BY <1>1, <1>6, <1>8, GatherIs, Zenon
<1>10. Keep(s, S) = Gather(s, f)
  BY Zenon DEF Keep, f
<1>11. UNION {ToSet(f[s[i]]) : i \in 1 .. n} = ToSet(s) \cap S
  <2>1. ToSet(s) = {s[i] : i \in 1 .. n}
    BY <1>1, Zenon DEF ToSet
  <2>. QED  BY <1>7, <2>1
<1>. QED  BY <1>9, <1>10, <1>11, Zenon DEF Gathered

-----------------------------------------------------------------------------
(* What a result holds: only leaves below its task, in order. *)

Finding == Nodes \cup {Nothing}

Follows ==
  {p \in Finding \X Finding : \/ Nothing \in {p[1], p[2]} \/ Precedes(p[1], p[2])
                             \/ (p[1] # p[2] /\ Rearranged(p[1], p[2]))}

WellOrdered(n, pieces, R) ==
  /\ pieces \in Seq(Finding)
  /\ ToSet(pieces) \subseteq LeavesBelow[n] \cup {Nothing}
  /\ Ordered(pieces, R)

(* What a reduction is made from. *)
UsefulKids(n) == {c \in Kid(n) : c \in ToSet(arrived[n]) /\ result[c].tag = "text"}

(* The leaves below a task: itself, or those below its children. *)
LEMMA LeavesBelowIs ==
  ASSUME NEW n \in Nodes
  PROVE  /\ Leaf(n) => n \in LeavesBelow[n]
         /\ \A c \in Kid(n) : LeavesBelow[c] \subseteq LeavesBelow[n]
         /\ LeavesBelow[n] \subseteq ToSet(Source)
<1>1. LeavesBelow[n] = {l \in Nodes : /\ Leaf(l)
                                      /\ \A S \in SUBSET Nodes : n \in S /\ Closed(S) => l \in S}
  BY DEF LeavesBelow
<1>2. ASSUME NEW c \in Kid(n) PROVE LeavesBelow[c] \subseteq LeavesBelow[n]
  <2>1. c \in Nodes
    BY KidsAreNodes
  <2>2. LeavesBelow[c] = {l \in Nodes : /\ Leaf(l)
                                        /\ \A S \in SUBSET Nodes : c \in S /\ Closed(S) => l \in S}
    BY <2>1 DEF LeavesBelow
  <2>3. \A S \in SUBSET Nodes : n \in S /\ Closed(S) => c \in S
    BY DEF Closed, Kid
  <2>. QED  BY <1>1, <2>2, <2>3
<1>3. ToSet(Source) = {l \in Nodes : Leaf(l)}
  BY PhiAssumption
<1>. QED  BY <1>1, <1>2, <1>3

(* The pairs of children of which the first comes first in the source. *)
Older(n) ==
  {p \in Nodes \X Nodes :
     \E i, j \in DOMAIN Kids[n] : i < j /\ p = <<Kids[n][i], Kids[n][j]>>}

(* What is reduced: the texts that arrived, whatever the order they came. *)
LEMMA UsefulIs ==
  ASSUME NEW n \in Nodes
  PROVE  /\ Useful(n) \in Seq(Nodes)
         /\ ToSet(Useful(n)) = UsefulKids(n)
         /\ Ordered(Useful(n), Older(n))
<1>1. Kids[n] \in Seq(Nodes)
  BY PhiAssumption
<1>2. Ordered(Kids[n], Older(n))
  <2>. SUFFICES ASSUME NEW i \in DOMAIN Kids[n], NEW j \in DOMAIN Kids[n], i < j
                PROVE  <<Kids[n][i], Kids[n][j]>> \in Older(n)
    BY DEF Ordered
  <2>1. Kids[n][i] \in Nodes /\ Kids[n][j] \in Nodes
    BY <1>1
  <2>. QED  BY <2>1 DEF Older
<1>3. /\ InSourceOrder(n) \in Seq(Nodes)
      /\ ToSet(InSourceOrder(n)) = ToSet(Kids[n]) \cap ToSet(arrived[n])
      /\ Ordered(InSourceOrder(n), Older(n))
  BY <1>1, <1>2, KeepIs, Zenon DEF InSourceOrder
<1>4. /\ Useful(n) \in Seq(Nodes)
      /\ ToSet(Useful(n)) = ToSet(InSourceOrder(n)) \cap {c \in Nodes : result[c].tag = "text"}
      /\ Ordered(Useful(n), Older(n))
  BY <1>3, KeepIs, Zenon DEF Useful
<1>5. ToSet(Useful(n)) = UsefulKids(n)
  BY <1>3, <1>4, KidsAreNodes DEF UsefulKids, Kid
<1>. QED  BY <1>4, <1>5

(* Joined, they are in the order of the source and complete. *)
LEMMA JoinedIs ==
  ASSUME NEW n \in Nodes, \A m \in Nodes : WellOrdered(m, result[m].pieces, Follows)
  PROVE  /\ WellOrdered(n, Joined(n), Follows)
         /\ ToSet(Joined(n)) = UNION {ToSet(result[c].pieces) : c \in UsefulKids(n)}
<1>. DEFINE u == Useful(n)
            f == [c \in Nodes |-> result[c].pieces]
<1>1. u \in Seq(Nodes) /\ ToSet(u) = UsefulKids(n) /\ Ordered(u, Older(n))
  BY UsefulIs
<1>. HIDE DEF u
<1>2. PICK m \in Nat : m = Len(u) /\ DOMAIN u = 1 .. m
  BY <1>1
<1>3. \A i \in 1 .. m : u[i] \in Nodes /\ u[i] \in UsefulKids(n)
  BY <1>1, <1>2 DEF ToSet
<1>4. \A i \in 1 .. m : f[u[i]] = result[u[i]].pieces /\ WellOrdered(u[i], f[u[i]], Follows)
  BY <1>3
<1>. HIDE DEF f
<1>5. Parts(Finding, u, f, m)
  BY <1>4, Zenon DEF Parts, WellOrdered
<1>6. PartsOrdered(Follows, u, f, m)
  <2>. SUFFICES ASSUME NEW i \in 1 .. m, NEW j \in 1 .. m, i < j,
                       NEW x \in ToSet(f[u[i]]), NEW y \in ToSet(f[u[j]])
                PROVE  <<x, y>> \in Follows
    BY <1>4, Zenon DEF PartsOrdered, WellOrdered
  <2>1. x \in LeavesBelow[u[i]] \cup {Nothing} /\ y \in LeavesBelow[u[j]] \cup {Nothing}
    BY <1>4, Zenon DEF WellOrdered
  <2>2. <<u[i], u[j]>> \in Older(n)
    BY <1>1, <1>2, Zenon DEF Ordered
  <2>3. PICK a \in DOMAIN Kids[n], b \in DOMAIN Kids[n] :
          a < b /\ u[i] = Kids[n][a] /\ u[j] = Kids[n][b]
    BY <2>2 DEF Older
  <2>4. \A k \in LeavesBelow[u[i]], l \in LeavesBelow[u[j]] : Precedes(k, l)
    BY <2>3, PhiAssumption
  <2>5. x \in Finding /\ y \in Finding
    <3>1. LeavesBelow[u[i]] \subseteq Nodes /\ LeavesBelow[u[j]] \subseteq Nodes
      BY <1>3 DEF LeavesBelow
    <3>. QED  BY <2>1, <3>1 DEF Finding
  <2>6. Nothing \in {x, y} \/ Precedes(x, y)
    BY <2>1, <2>4
  <2>7. PICK q \in Finding \X Finding : q = <<x, y>>
    BY <2>5
  <2>8. q[1] = x /\ q[2] = y
    BY <2>7
  <2>. QED  BY <2>6, <2>7, <2>8, Zenon DEF Follows
<1>7. Gathered(Finding, Follows, u, f, m)
  BY <1>2, <1>5, <1>6, GatherIs, Zenon
<1>8. Joined(n) = Gather(u, f)
  BY Zenon DEF Joined, u, f
<1>9. UNION {ToSet(f[u[i]]) : i \in 1 .. m} = UNION {ToSet(result[c].pieces) : c \in UsefulKids(n)}
  <2>1. \A c \in UsefulKids(n) : \E i \in 1 .. m : c = u[i]
    BY <1>1, <1>2, Zenon DEF ToSet
  <2>. QED  BY <1>3, <1>4, <2>1
<1>10. ToSet(Joined(n)) = UNION {ToSet(result[c].pieces) : c \in UsefulKids(n)}
  BY <1>7, <1>8, <1>9, Zenon DEF Gathered
<1>11. ASSUME NEW c \in UsefulKids(n)
       PROVE  ToSet(result[c].pieces) \subseteq LeavesBelow[n] \cup {Nothing}
  <2>1. c \in Kid(n) /\ c \in Nodes
    BY KidsAreNodes DEF UsefulKids
  <2>2. ToSet(result[c].pieces) \subseteq LeavesBelow[c] \cup {Nothing}
    BY <2>1, Zenon DEF WellOrdered
  <2>. QED  BY <2>1, <2>2, LeavesBelowIs
<1>12. ToSet(Joined(n)) \subseteq LeavesBelow[n] \cup {Nothing}
  BY <1>10, <1>11
<1>. QED  BY <1>7, <1>8, <1>10, <1>12, Zenon DEF Gathered, WellOrdered

(* A result of the tree's own making: the pieces it may consist of. *)
LEMMA NothingIs ==
  ASSUME NEW n \in Nodes, NEW R
  PROVE  /\ WellOrdered(n, <<>>, R) /\ WellOrdered(n, <<Nothing>>, R)
         /\ ToSet(<<Nothing>>) = {Nothing}
         /\ Leaf(n) => WellOrdered(n, <<n>>, R)
<1>1. Nothing \in Finding /\ n \in Finding
  BY DEF Finding
<1>2. ToSet(<<>>) = {} /\ ToSet(<<Nothing>>) = {Nothing} /\ ToSet(<<n>>) = {n}
  BY DEF ToSet
<1>3. Ordered(<<>>, R) /\ Ordered(<<Nothing>>, R) /\ Ordered(<<n>>, R)
  BY DEF Ordered
<1>4. <<>> \in Seq(Finding) /\ <<Nothing>> \in Seq(Finding) /\ <<n>> \in Seq(Finding)
  BY <1>1
<1>5. Leaf(n) => n \in LeavesBelow[n]
  BY LeavesBelowIs
<1>. QED  BY <1>2, <1>3, <1>4, <1>5 DEF WellOrdered

(* No finding of a text that arrived is missing. *)
Covers(pieces, n) ==
  \A c \in UsefulKids(n) : ToSet(result[c].pieces) \subseteq ToSet(pieces) \cup {Nothing}

(* Composing loses no finding and brings none out of order. *)
LEMMA CompositionIs ==
  ASSUME NEW n \in Nodes, \A m \in Nodes : WellOrdered(m, result[m].pieces, Follows)
  PROVE  /\ WellOrdered(n, Composed(n), Follows) /\ Covers(Composed(n), n)
<1>1. /\ WellOrdered(n, Joined(n), Follows)
      /\ ToSet(Joined(n)) = UNION {ToSet(result[c].pieces) : c \in UsefulKids(n)}
  BY JoinedIs, Zenon
<1>2. WellOrdered(n, Composed(n), Follows) /\ Covers(Composed(n), n)
  <2>1. CASE Useful(n) = <<>>
    <3>1. Composed(n) = <<Nothing>>
      BY <2>1, Zenon DEF Composed
    <3>2. UsefulKids(n) = {}
      <4>1. ToSet(<<>>) = {}
        BY DEF ToSet
      <4>. QED  BY <2>1, <4>1, UsefulIs
    <3>. QED  BY <3>1, <3>2, NothingIs, Zenon DEF Covers
  <2>2. CASE Useful(n) # <<>>
    <3>1. Composed(n) = Joined(n)
      BY <2>2, Zenon DEF Composed
    <3>2. Covers(Joined(n), n)
      BY <1>1 DEF Covers
    <3>. QED  BY <1>1, <3>1, <3>2, Zenon
  <2>. QED  BY <2>1, <2>2
<1>. QED  BY <1>2

(* A model that makes a text of what it was given makes nothing up and     *)
(* says nothing twice; what it leaves out and the order are its own.       *)
Selected(n, pieces) ==
  /\ pieces \in Seq(Finding)
  /\ ToSet(pieces) \subseteq ToSet(given[n]) \cup {Nothing}
  /\ \A i, j \in DOMAIN pieces : i < j => pieces[i] # pieces[j]

LEMMA SynthesisIs ==
  ASSUME NEW n \in Nodes, given[n] \in Seq(Finding), NEW p \in Syntheses(n)
  PROVE  Selected(n, p)
<1>. DEFINE S == ToSet(given[n]) \ {Nothing}
<1>1. S \subseteq Nodes
  BY DEF ToSet, Finding
<1>2. PICK f \in SetToAllKPermutations(S) : p = IF f = <<>> THEN <<Nothing>> ELSE f
  BY DEF Syntheses
<1>. HIDE DEF S
<1>3. PICK T \in SUBSET S : f \in SetToSeqs(T)
  BY <1>2 DEF SetToAllKPermutations
<1>4. PICK k \in Nat : k = Cardinality(T)
  <2>1. IsFiniteSet(T)
    BY <1>1, <1>3, FS_Subset, PhiAssumption
  <2>. QED  BY <2>1, FS_CardinalityType
<1>5. f \in [1 .. k -> T] /\ \A i, j \in 1 .. k : i # j => f[i] # f[j]
  BY <1>3, <1>4 DEF SetToSeqs
<1>6. CASE f = <<>>
  <2>1. p = <<Nothing>> /\ Nothing \in Finding
    BY <1>2, <1>6 DEF Finding
  <2>2. ToSet(<<Nothing>>) = {Nothing} /\ DOMAIN <<Nothing>> = {1}
    BY DEF ToSet
  <2>. QED  BY <2>1, <2>2 DEF Selected
<1>7. CASE f # <<>>
  <2>1. p = f /\ DOMAIN p = 1 .. k
    BY <1>2, <1>5, <1>7
  <2>2. \A i \in 1 .. k : p[i] \in T
    BY <1>5, <2>1
  <2>3. ToSet(p) \subseteq S /\ S \subseteq ToSet(given[n])
    BY <1>3, <2>1, <2>2 DEF ToSet, S
  <2>4. p \in Seq(Finding)
    BY <1>1, <1>3, <1>5, <2>1 DEF Finding
  <2>5. \A i, j \in DOMAIN p : i < j => p[i] # p[j]
    BY <1>5, <2>1
  <2>. QED  BY <2>3, <2>4, <2>5 DEF Selected
<1>. QED  BY <1>6, <1>7

-----------------------------------------------------------------------------
(* What becomes of the findings of a leaf *)

(* The texts of the children hold nothing that S does not. *)
Holds(S, n) ==
  \A c \in Kid(n) :
    result[c].tag = "text" => ToSet(result[c].pieces) \subseteq S \cup {Nothing}

(* A result that is no text is accounted for, and one that is a text holds *)
(* what the texts of the children hold, or a model was given it.           *)
Conveys(n) ==
  /\ pc[n] = "calling" => Leaf(n)
  /\ pc[n] \in {"unborn", "started", "calling"} => chunks[n] = {}
  /\ pc[n] \in {"spawning", "collecting", "reducing"} =>
       /\ ~Leaf(n)
       /\ \A c \in chunks[n] :
            pc[c] = "joined" /\ result[c].tag = "text" => c \in ToSet(arrived[n])
  /\ pc[n] = "reducing" => Holds(ToSet(given[n]), n)
  /\ pc[n] = "unborn" => result[n].tag = "none"
  /\ result[n].tag \in {"text", "panic"} => pc[n] \in {"finished", "joined"}
  /\ result[n].tag = "panic" => chunks[n] = {}
  /\ result[n].tag = "rejected" => Leaf(n)
  /\ result[n].tag = "marker" => degraded
  /\ Leaf(n) /\ result[n].tag = "text" => result[n].pieces = <<n>>
  /\ result[n].tag = "text" =>
       Holds(ToSet(result[n].pieces) \cup ToSet(given[n]), n)

AllInOrder ==
  \A n \in Nodes : /\ WellOrdered(n, result[n].pieces, Follows)
                   /\ WellOrdered(n, given[n], Follows)

FlowInv == IInv /\ AllInOrder /\ \A n \in Nodes : Conveys(n)

(* A text that a model made. *)
Rewrites(n, r) == \E p \in Syntheses(n) : r = Text(p)

(* What a task that ends, or drains, may leave as its result. *)
Writes(n, r) ==
  \/ r \in {Bare("error"), Bare("cancelled")}
  \/ r = Bare("panic") /\ pc[n] = "started"
  \/ r = Bare("marker") /\ degraded'
  \/ r = Bare("rejected") /\ pc[n] = "calling"
  \/ r = Text(<<n>>) /\ pc[n] = "calling"
  \/ r = Text(<<Nothing>>) /\ pc[n] = "started" /\ ~Leaf(n)
  \/ r = Text(Composed(n)) /\ pc[n] = "collecting" /\ AllJoined(n)
  \/ Rewrites(n, r) /\ pc[n] = "reducing"

WriteStep(n) ==
  /\ Alive(n) /\ UNCHANGED <<chunks, arrived, given>>
  /\ \E r : \E to \in {"finished", "draining"} :
       /\ Writes(n, r) /\ result' = [result EXCEPT ![n] = r]
       /\ r.tag = "text" => to = "finished"
       /\ r.tag = "panic" => to = "finished"
       /\ pc' = [pc EXCEPT ![n] = to]

(* The steps by which a task ends or begins to drain. *)
LEMMA EndWrites ==
  ASSUME NEW n \in Nodes, NEW from, from \in {"started", "calling", "collecting", "reducing"},
         NEW r, End(n, from, r), Writes(n, r), UNCHANGED <<chunks, arrived, given>>
  PROVE  WriteStep(n)
<1>1. Alive(n)
  BY DEF End, Goto, Alive
<1>2. pc' = [pc EXCEPT ![n] = "finished"] /\ result' = [result EXCEPT ![n] = r]
  BY DEF End, Goto
<1>. QED  BY <1>1, <1>2 DEF WriteStep

LEMMA DrainWrites ==
  ASSUME NEW n \in Nodes, pc[n] \in {"spawning", "collecting"},
         NEW t \in {"error", "cancelled"}, StartDraining(n, Bare(t)),
         UNCHANGED <<chunks, arrived, given>>
  PROVE  WriteStep(n)
<1>1. Alive(n)
  BY DEF Alive
<1>2. pc' = [pc EXCEPT ![n] = "draining"] /\ result' = [result EXCEPT ![n] = Bare(t)]
  BY DEF StartDraining
<1>3. Writes(n, Bare(t)) /\ Bare(t).tag \notin {"text", "panic"}
  BY Tagged DEF Writes
<1>. QED  BY <1>1, <1>2, <1>3 DEF WriteStep

LEMMA EndsWrite ==
  ASSUME NEW n \in Nodes, Ends(n)
  PROVE  WriteStep(n)
<1>0. UNCHANGED <<chunks, arrived, given>>
  BY DEF Ends, RefuseStart, Accept, Reject, CallFails, Panic, NothingToMap,
     DegradeAtPreflight, AllLost, Compose, Reduced, ReduceFails
<1>1. CASE RefuseStart(n)
  <2>1. End(n, "started", Bare("error")) /\ Writes(n, Bare("error"))
    BY <1>1 DEF RefuseStart, Writes
  <2>. QED  BY <1>0, <2>1, EndWrites
<1>2. CASE Accept(n)
  <2>1. End(n, "calling", Text(<<n>>)) /\ Writes(n, Text(<<n>>))
    BY <1>2 DEF Accept, Writes, End, Goto
  <2>. QED  BY <1>0, <2>1, EndWrites
<1>3. CASE Reject(n)
  <2>1. CASE n \in DeepLeaves
    <3>1. End(n, "calling", Bare("marker")) /\ degraded'
      BY <1>3, <2>1, Zenon DEF Reject
    <3>2. Writes(n, Bare("marker"))
      BY <3>1, Zenon DEF Writes
    <3>. QED  BY <1>0, <3>1, <3>2, EndWrites
  <2>2. CASE n \notin DeepLeaves
    <3>1. End(n, "calling", Bare("rejected"))
      BY <1>3, <2>2, Zenon DEF Reject
    <3>2. Writes(n, Bare("rejected"))
      BY <3>1 DEF Writes, End, Goto
    <3>. QED  BY <1>0, <3>1, <3>2, EndWrites
  <2>. QED  BY <2>1, <2>2
<1>4. CASE CallFails(n)
  <2>1. End(n, "calling", Bare("marker")) /\ degraded'
    BY <1>4, Zenon DEF CallFails
  <2>2. Writes(n, Bare("marker"))
    BY <2>1, Zenon DEF Writes
  <2>. QED  BY <1>0, <2>1, <2>2, EndWrites
<1>5. CASE Panic(n)
  <2>1. End(n, "started", Bare("panic")) /\ Writes(n, Bare("panic"))
    BY <1>5 DEF Panic, Writes, End, Goto
  <2>. QED  BY <1>0, <2>1, EndWrites
<1>6. CASE NothingToMap(n)
  <2>1. End(n, "started", Text(<<Nothing>>)) /\ Writes(n, Text(<<Nothing>>))
    BY <1>6 DEF NothingToMap, Writes, End, Goto
  <2>. QED  BY <1>0, <2>1, EndWrites
<1>7. CASE DegradeAtPreflight(n)
  <2>1. End(n, "started", Bare("marker")) /\ degraded'
    BY <1>7, Zenon DEF DegradeAtPreflight
  <2>2. Writes(n, Bare("marker"))
    BY <2>1, Zenon DEF Writes
  <2>. QED  BY <1>0, <2>1, <2>2, EndWrites
<1>8. CASE AllLost(n)
  <2>1. End(n, "collecting", Bare("marker")) /\ degraded'
    BY <1>8, Zenon DEF AllLost
  <2>2. Writes(n, Bare("marker"))
    BY <2>1, Zenon DEF Writes
  <2>. QED  BY <1>0, <2>1, <2>2, EndWrites
<1>9. CASE Compose(n)
  <2>1. End(n, "collecting", Text(Composed(n))) /\ AllJoined(n)
    BY <1>9, Zenon DEF Compose
  <2>2. Writes(n, Text(Composed(n)))
    BY <2>1, Zenon DEF Writes, End, Goto
  <2>. QED  BY <1>0, <2>1, <2>2, EndWrites
<1>10. CASE Reduced(n)
  <2>0. PICK p \in Syntheses(n) : End(n, "reducing", Text(p))
    BY <1>10, Zenon DEF Reduced
  <2>1. End(n, "reducing", Text(p)) /\ Writes(n, Text(p))
    BY <2>0, Zenon DEF Writes, Rewrites, End, Goto
  <2>. QED  BY <1>0, <2>1, EndWrites
<1>11. CASE ReduceFails(n)
  <2>1. CASE n = Root
    <3>1. End(n, "reducing", Bare("error")) /\ Writes(n, Bare("error"))
      BY <1>11, <2>1 DEF ReduceFails, Writes
    <3>. QED  BY <1>0, <3>1, EndWrites
  <2>2. CASE n # Root
    <3>1. End(n, "reducing", Bare("marker")) /\ degraded'
      BY <1>11, <2>2, Zenon DEF ReduceFails
    <3>2. Writes(n, Bare("marker"))
      BY <3>1, Zenon DEF Writes
    <3>. QED  BY <1>0, <3>1, <3>2, EndWrites
  <2>. QED  BY <2>1, <2>2
<1>. QED
  BY <1>1, <1>2, <1>3, <1>4, <1>5, <1>6, <1>7, <1>8, <1>9, <1>10, <1>11 DEF Ends

LEMMA StopsWrite ==
  ASSUME NEW n \in Nodes, \/ Cancel(n) \/ StopMapping(n)
                          \/ n = Root /\ \E c \in Nodes : PanicAtRoot(c)
  PROVE  WriteStep(n)
<1>1. CASE Cancel(n)
  <2>1. UNCHANGED <<chunks, arrived, given>>
    BY <1>1 DEF Cancel
  <2>2. Writes(n, Bare("cancelled"))
    BY DEF Writes
  <2>3. CASE \E from \in {"started", "calling", "reducing"} : End(n, from, Bare("cancelled"))
    BY <2>1, <2>2, <2>3, EndWrites
  <2>4. CASE pc[n] \in {"spawning", "collecting"} /\ StartDraining(n, Bare("cancelled"))
    BY <2>1, <2>4, DrainWrites
  <2>. QED  BY <1>1, <2>3, <2>4 DEF Cancel
<1>2. CASE StopMapping(n)
  BY <1>2, DrainWrites DEF StopMapping
<1>3. CASE n = Root /\ \E c \in Nodes : PanicAtRoot(c)
  BY <1>3, DrainWrites DEF PanicAtRoot
<1>. QED  BY <1>1, <1>2, <1>3

(* No result is there at first. *)
LEMMA InitFlows == Init => FlowInv
<1>. SUFFICES ASSUME Init PROVE FlowInv
  OBVIOUS
<1>1. \A n \in Nodes : result[n].tag = "none" /\ result[n].pieces = <<>>
  BY DEF Init, Bare
<1>2. \A n \in Nodes : pc[n] \in {"started", "unborn"}
  BY DEF Init
<1>3. AllInOrder
  <2>1. \A n \in Nodes : given[n] = <<>>
    BY DEF Init
  <2>. QED  BY <1>1, <2>1, NothingIs DEF AllInOrder
<1>4. \A n \in Nodes : Conveys(n)
  <2>1. \A n \in Nodes : chunks[n] = {}
    BY DEF Init
  <2>. QED  BY <1>1, <1>2, <2>1 DEF Conveys
<1>. QED  BY <1>3, <1>4, InitEstablishes DEF FlowInv

LEMMA AppendedSet ==
  ASSUME NEW D, NEW s \in Seq(D), NEW x \in D
  PROVE  ToSet(s) \subseteq ToSet(Append(s, x)) /\ x \in ToSet(Append(s, x))
<1>1. /\ Len(s) \in Nat /\ DOMAIN s = 1 .. Len(s) /\ DOMAIN Append(s, x) = 1 .. Len(s) + 1
      /\ Append(s, x)[Len(s) + 1] = x
      /\ \A i \in 1 .. Len(s) : Append(s, x)[i] = s[i]
  OBVIOUS
<1>2. \A i \in 1 .. Len(s) : i \in 1 .. Len(s) + 1
  BY <1>1
<1>3. Len(s) + 1 \in 1 .. Len(s) + 1
  BY <1>1
<1>. QED  BY <1>1, <1>2, <1>3, Zenon DEF ToSet

(* A relation that only grows. *)
LEMMA OrderedByMore ==
  ASSUME NEW n, NEW s, NEW R, NEW Q, R \subseteq Q, WellOrdered(n, s, R)
  PROVE  WellOrdered(n, s, Q)
<1>1. Ordered(s, Q)
  BY DEF WellOrdered, Ordered
<1>. QED  BY <1>1 DEF WellOrdered

(* Texts that are there stay, so what they excuse stays excused. *)
LEMMA FollowsGrows ==
  ASSUME \A m \in Nodes : result[m].tag = "text" =>
           result'[m] = result[m] /\ given'[m] = given[m]
  PROVE  Follows \subseteq Follows'
<1>1. \A k, l : Rearranged(k, l) => Rearranged(k, l)'
  BY DEF Rearranged
<1>2. Finding' = Finding /\ \A k, l : Precedes(k, l)' = Precedes(k, l)
  BY DEF Finding, Precedes
<1>. SUFFICES ASSUME NEW p \in Follows PROVE p \in Follows'
  OBVIOUS
<1>3. p \in Finding \X Finding
  BY DEF Follows
<1>. QED  BY <1>1, <1>2, <1>3 DEF Follows

(* What a task collected is what its children have left. *)
LEMMA AllUseful ==
  ASSUME FlowInv, NEW n \in Nodes, pc[n] = "collecting", AllJoined(n),
         NEW c \in Kid(n), result[c].tag = "text"
  PROVE  c \in UsefulKids(n)
<1>1. c \in Nodes /\ InOrder(n) /\ Conveys(c) /\ Conveys(n)
  BY KidsAreNodes DEF FlowInv, IInv, SafetyInv, TreeInv
<1>2. c \in chunks[n]
  BY <1>1 DEF Conveys, InOrder
<1>3. c \in ToSet(arrived[n])
  BY <1>1, <1>2 DEF AllJoined, Conveys
<1>. QED  BY <1>3 DEF UsefulKids

(* A result that is written holds what those below hold. *)
LEMMA WriteKeeps ==
  ASSUME FlowInv, NEW n \in Nodes, WriteStep(n), degraded => degraded'
  PROVE  AllInOrder' /\ \A m \in Nodes : Conveys(m)'
<1>. DEFINE Way(r, to) == /\ Writes(n, r) /\ result' = [result EXCEPT ![n] = r]
                          /\ r.tag = "text" => to = "finished"
                          /\ r.tag = "panic" => to = "finished"
                          /\ pc' = [pc EXCEPT ![n] = to]
<1>1. PICK r : \E to \in {"finished", "draining"} : Way(r, to)
  BY DEF WriteStep
<1>2. PICK to \in {"finished", "draining"} : Way(r, to)
  BY <1>1
<1>3. /\ \A m \in Nodes : m # n => result'[m] = result[m] /\ pc'[m] = pc[m]
      /\ result'[n] = r /\ pc'[n] = to /\ Alive(n)
      /\ UNCHANGED <<chunks, arrived, given>>
  BY <1>2 DEF WriteStep, FlowInv, IInv, TypeOK
<1>4. \A m \in Nodes : /\ WellOrdered(m, result[m].pieces, Follows)
                       /\ WellOrdered(m, given[m], Follows) /\ Conveys(m)
  BY DEF FlowInv, AllInOrder
<1>5. /\ \A t : Bare(t).tag = t /\ Bare(t).pieces = <<>>
      /\ \A p : Text(p).tag = "text" /\ Text(p).pieces = p
  BY DEF Bare, Text
<1>15. Rewrites(n, r) => r.tag = "text"
  BY <1>5, Zenon DEF Rewrites
<1>6. WellOrdered(n, Composed(n), Follows) /\ Covers(Composed(n), n)
  BY <1>4, CompositionIs, Zenon
<1>14. Follows \subseteq Follows'
  <2>1. \A m \in Nodes : result[m].tag = "text" => m # n
    BY <1>3, <1>4 DEF Conveys, Alive
  <2>. QED  BY <1>3, <2>1, FollowsGrows
<1>7. WellOrdered(n, r.pieces, Follows')
  <2>1. pc[n] = "calling" => Leaf(n)
    BY <1>4 DEF Conveys
  <2>2. CASE Rewrites(n, r)
    <3>1. PICK p \in Syntheses(n) : r = Text(p)
      BY <2>2 DEF Rewrites
    <3>2. Selected(n, p)
      BY <1>4, <3>1, SynthesisIs, Zenon DEF WellOrdered
    <3>3. r.tag = "text" /\ r.pieces = p
      BY <1>5, <3>1
    <3>4. ToSet(p) \subseteq LeavesBelow[n] \cup {Nothing}
      BY <1>4, <3>2 DEF Selected, WellOrdered
    <3>5. ASSUME NEW i \in DOMAIN p, NEW j \in DOMAIN p, i < j
          PROVE  <<p[i], p[j]>> \in Follows'
      <4>1. p[i] \in ToSet(p) /\ p[j] \in ToSet(p) /\ p[i] # p[j]
        BY <3>2, <3>5 DEF Selected, ToSet
      <4>2. p[i] \in Finding /\ p[j] \in Finding
        BY <3>4, <4>1 DEF Finding, LeavesBelow
      <4>3. PICK q \in Finding \X Finding : q = <<p[i], p[j]>>
        BY <4>2
      <4>4. q[1] = p[i] /\ q[2] = p[j]
        BY <4>3
      <4>5. Nothing \notin {p[i], p[j]} => Rearranged(p[i], p[j])'
        <5>1. Nothing \notin {p[i], p[j]} => p[i] \in ToSet(given[n])
          BY <3>2, <4>1 DEF Selected
        <5>2. Nothing \notin {p[i], p[j]} => given[n] # <<>>
          BY <5>1 DEF ToSet
        <5>. QED  BY <1>3, <3>3, <4>1, <5>2 DEF Rearranged
      <4>6. Nothing \in {q[1], q[2]} \/ (q[1] # q[2] /\ Rearranged(q[1], q[2])')
        BY <4>1, <4>4, <4>5
      <4>7. q \in Follows'
        BY <4>3, <4>6, Zenon DEF Follows, Finding, Rearranged
      <4>. QED  BY <4>3, <4>7
    <3>6. Ordered(p, Follows')
      BY <3>5 DEF Ordered
    <3>. QED  BY <3>2, <3>3, <3>4, <3>6 DEF WellOrdered, Selected
  <2>3. CASE r = Text(Composed(n))
    BY <1>5, <1>6, <1>14, <2>3, OrderedByMore, Zenon
  <2>4. CASE r.pieces \in {<<>>, <<Nothing>>} \/ (Leaf(n) /\ r.pieces = <<n>>)
    BY <2>4, NothingIs
  <2>. QED  BY <1>2, <1>5, <2>1, <2>2, <2>3, <2>4 DEF Writes
<1>8. AllInOrder'
  <2>1. \A m \in Nodes : /\ WellOrdered(m, result'[m].pieces, Follows')
                         /\ WellOrdered(m, given'[m], Follows')
    <3>1. \A m \in Nodes : /\ WellOrdered(m, result[m].pieces, Follows')
                           /\ WellOrdered(m, given[m], Follows')
      BY <1>4, <1>14, OrderedByMore, Zenon
    <3>. QED  BY <1>3, <1>7, <3>1
  <2>2. Follows' = Follows'
    OBVIOUS
  <2>. QED  BY <2>1 DEF AllInOrder, WellOrdered
(* The children of n, when n leaves a text. *)
<1>9. ASSUME r.tag = "text", NEW c \in Kid(n), result[c].tag = "text"
      PROVE  ToSet(result[c].pieces) \subseteq ToSet(r.pieces) \cup ToSet(given[n]) \cup {Nothing}
  <2>1. c \in Nodes /\ InOrder(n)
    BY KidsAreNodes DEF FlowInv, IInv, SafetyInv, TreeInv
  <2>2. pc[c] \in {"finished", "joined"}
    BY <1>4, <1>9, <2>1 DEF Conveys
  <2>3. pc[n] \notin {"started", "calling"}
    BY <2>1, <2>2 DEF InOrder
  <2>4. CASE r = Text(Composed(n)) /\ pc[n] = "collecting" /\ AllJoined(n)
    <3>1. c \in UsefulKids(n)
      BY <1>9, <2>4, AllUseful, Zenon
    <3>. QED  BY <1>5, <1>6, <2>4, <3>1 DEF Covers
  <2>5. CASE pc[n] = "reducing"
    BY <1>4, <1>9, <2>5 DEF Conveys, Holds
  <2>. QED  BY <1>2, <1>5, <1>9, <2>3, <2>4, <2>5 DEF Writes
(* A task that is alive is no child of one that has left a text, or that   *)
(* waits for a model.                                                      *)
<1>10. ASSUME NEW m \in Nodes, m # n, result[m].tag = "text" \/ pc[m] = "reducing"
       PROVE  n \notin Kid(m)
  <2>1. Settled(m) /\ InOrder(m)
    BY <1>4, <1>10 DEF Conveys, Settled, Good, FlowInv, IInv, SafetyInv, TreeInv
  <2>. QED  BY <1>3, <2>1 DEF InOrder, Alive
<1>11. n \notin Kid(n) \/ r.tag # "text"
  <2>. SUFFICES ASSUME n \in Kid(n), r.tag = "text" PROVE FALSE
    OBVIOUS
  <2>1. InOrder(n)
    BY DEF FlowInv, IInv, SafetyInv, TreeInv
  <2>2. pc[n] \in {"collecting", "reducing"} => ~Leaf(n)
    BY <1>4 DEF Conveys
  <2>3. /\ pc[n] \in {"started", "calling", "collecting", "reducing"}
        /\ pc[n] = "collecting" => AllJoined(n)
    BY <1>2, <1>5 DEF Writes
  <2>. QED  BY <2>1, <2>3 DEF InOrder, Settled, AllJoined
<1>12. ASSUME NEW m \in Nodes PROVE Conveys(m)'
  <2>1. CASE m = n
    <3>1. /\ pc'[n] \in {"finished", "draining"}
          /\ r.tag \in {"text", "panic"} => pc'[n] = "finished"
      BY <1>2, <1>3
    <3>0. /\ pc[n] = "calling" => Leaf(n)
          /\ pc[n] \in {"collecting", "reducing"} => ~Leaf(n)
          /\ pc[n] = "started" => chunks[n] = {}
      BY <1>4 DEF Conveys
    <3>2. r.tag = "rejected" => Leaf(n)
      BY <1>2, <1>4, <1>5, <1>15, <3>0 DEF Writes
    <3>3. r.tag = "marker" => degraded'
      <4>1. r.tag = "marker" => ~ Rewrites(n, r)
        BY <1>15
      <4>2. r.tag = "marker" =>
              r \notin {Bare("error"), Bare("cancelled"), Bare("panic"), Bare("rejected"),
                        Text(<<n>>), Text(<<Nothing>>), Text(Composed(n))}
        BY <1>5
      <4>. QED  BY <1>2, <4>1, <4>2, Zenon DEF Writes
    <3>4. Leaf(n) /\ r.tag = "text" => r.pieces = <<n>>
      BY <1>2, <1>4, <1>5, <1>15, <3>0 DEF Writes
    <3>6. r.tag = "panic" => chunks[n] = {}
      BY <1>2, <1>4, <1>5, <1>15, <3>0 DEF Writes
    <3>5. r.tag = "text" => Holds(ToSet(result[n].pieces) \cup ToSet(given[n]), n)'
      <4>. SUFFICES ASSUME r.tag = "text", NEW c \in Kid(n), result'[c].tag = "text"
                    PROVE  ToSet(result'[c].pieces) \subseteq
                             ToSet(r.pieces) \cup ToSet(given[n]) \cup {Nothing}
        BY <1>3 DEF Holds, Kid
      <4>1. c # n /\ c \in Nodes
        BY <1>11, KidsAreNodes
      <4>. QED  BY <1>3, <1>9, <4>1
    <3>. QED  BY <1>3, <2>1, <3>1, <3>2, <3>3, <3>4, <3>5, <3>6 DEF Conveys
  <2>2. CASE m # n
    <3>1. /\ result'[m] = result[m] /\ pc'[m] = pc[m] /\ Conveys(m)
          /\ chunks'[m] = chunks[m] /\ arrived'[m] = arrived[m] /\ given'[m] = given[m]
      BY <1>3, <1>4, <2>2
    <3>2. ASSUME pc[m] \in {"spawning", "collecting", "reducing"}, NEW c \in chunks[m],
                 pc'[c] = "joined", result'[c].tag = "text"
          PROVE  c \in ToSet(arrived[m])
      <4>1. c \in Nodes
        BY ChunksAreKids, KidsAreNodes DEF FlowInv, IInv
      <4>2. c # n
        BY <1>2, <1>3, <3>2
      <4>. QED  BY <1>3, <3>1, <3>2, <4>1, <4>2 DEF Conveys
    <3>3. ASSUME NEW S, result[m].tag = "text" \/ pc[m] = "reducing", Holds(S, m)
          PROVE  \A c \in Kid(m) : result'[c].tag = "text" =>
                   ToSet(result'[c].pieces) \subseteq S \cup {Nothing}
      <4>1. \A c \in Kid(m) : c # n /\ c \in Nodes
        BY <1>10, <2>2, <3>3, KidsAreNodes
      <4>. QED  BY <1>3, <3>3, <4>1 DEF Holds
    <3>4. pc[m] = "reducing" => Holds(ToSet(given[m]), m)'
      <4>1. pc[m] = "reducing" => Holds(ToSet(given[m]), m)
        BY <3>1 DEF Conveys
      <4>. QED  BY <3>1, <3>3, <4>1 DEF Holds, Kid
    <3>5. result[m].tag = "text" =>
            Holds(ToSet(result[m].pieces) \cup ToSet(given[m]), m)'
      <4>1. result[m].tag = "text" =>
              Holds(ToSet(result[m].pieces) \cup ToSet(given[m]), m)
        BY <3>1 DEF Conveys
      <4>. QED  BY <3>1, <3>3, <4>1 DEF Holds, Kid
    <3>. QED  BY <3>1, <3>2, <3>4, <3>5 DEF Conveys
  <2>. QED  BY <2>1, <2>2
<1>. QED  BY <1>8, <1>12

(* What a step that writes no result leaves of a task. *)
Moves(m) ==
  /\ pc'[m] = "calling" => Leaf(m)
  /\ pc'[m] \in {"spawning", "collecting", "reducing"} => ~Leaf(m)
  /\ pc'[m] = "unborn" => pc[m] = "unborn"
  /\ pc[m] \in {"finished", "joined"} => pc'[m] \in {"finished", "joined"}
  /\ pc'[m] \in {"unborn", "started", "calling"} => chunks'[m] = {}
  /\ chunks'[m] = chunks[m] \/ pc[m] = "started"

(* The findings that have arrived, and those given to a model. *)
Passes(m) ==
  /\ pc'[m] \in {"spawning", "collecting", "reducing"} =>
       \A c \in chunks'[m] :
         pc'[c] = "joined" /\ result[c].tag = "text" => c \in ToSet(arrived'[m])
  /\ \/ given'[m] = given[m] /\ (pc'[m] = "reducing" => pc[m] = "reducing")
     \/ /\ pc[m] = "collecting"
        /\ WellOrdered(m, given'[m], Follows) /\ Holds(ToSet(given'[m]), m)

LEMMA MoveConveys ==
  ASSUME FlowInv, result' = result, degraded => degraded',
         \A m \in Nodes : Moves(m) /\ Passes(m)
  PROVE  AllInOrder' /\ \A m \in Nodes : Conveys(m)'
<1>1. ASSUME NEW m \in Nodes
      PROVE  /\ Conveys(m) /\ WellOrdered(m, result[m].pieces, Follows)
             /\ WellOrdered(m, given[m], Follows) /\ Moves(m) /\ Passes(m)
  BY DEF FlowInv, AllInOrder
<1>2. \A m \in Nodes : result[m].tag = "text" => given'[m] = given[m]
  BY <1>1 DEF Conveys, Passes
<1>3. Follows \subseteq Follows'
  BY <1>2, FollowsGrows
<1>4. AllInOrder'
  <2>1. \A m \in Nodes : WellOrdered(m, given'[m], Follows)
    BY <1>1 DEF Passes
  <2>2. \A m \in Nodes : /\ WellOrdered(m, result'[m].pieces, Follows')
                         /\ WellOrdered(m, given'[m], Follows')
    BY <1>1, <1>3, <2>1, OrderedByMore, Zenon
  <2>. QED  BY <2>2 DEF AllInOrder, WellOrdered
<1>5. ASSUME NEW m \in Nodes PROVE Conveys(m)'
  <2>1. \A S : Holds(S, m) => \A c \in Kid(m) : result'[c].tag = "text" =>
                               ToSet(result'[c].pieces) \subseteq S \cup {Nothing}
    BY DEF Holds
  <2>2. pc'[m] = "reducing" => Holds(ToSet(given[m]), m)'
    <3>1. pc'[m] = "reducing" => Holds(ToSet(given'[m]), m)
      BY <1>1 DEF Conveys, Passes
    <3>. QED  BY <2>1, <3>1 DEF Holds, Kid
  <2>3. result'[m].tag = "text" => Holds(ToSet(result[m].pieces) \cup ToSet(given[m]), m)'
    <3>1. result'[m].tag = "text" => Holds(ToSet(result'[m].pieces) \cup ToSet(given'[m]), m)
      BY <1>1, <1>2 DEF Conveys
    <3>. QED  BY <2>1, <3>1 DEF Holds, Kid
  <2>4. result'[m].tag = "panic" => chunks'[m] = {}
    BY <1>1 DEF Conveys, Moves
  <2>. QED  BY <1>1, <2>2, <2>3, <2>4 DEF Conveys, Moves, Passes
<1>. QED  BY <1>4, <1>5

(* What a task hands to a model holds all that its children have left. *)
LEMMA GivenIs ==
  ASSUME FlowInv, NEW n \in Nodes, pc[n] = "collecting", AllJoined(n)
  PROVE  WellOrdered(n, Joined(n), Follows) /\ Holds(ToSet(Joined(n)), n)
<1>1. /\ WellOrdered(n, Joined(n), Follows)
      /\ ToSet(Joined(n)) = UNION {ToSet(result[c].pieces) : c \in UsefulKids(n)}
  <2>1. \A m \in Nodes : WellOrdered(m, result[m].pieces, Follows)
    BY DEF FlowInv, AllInOrder
  <2>. QED  BY <2>1, JoinedIs, Zenon
<1>2. \A c \in Kid(n) : result[c].tag = "text" => c \in UsefulKids(n)
  BY AllUseful, Zenon
<1>. QED  BY <1>1, <1>2 DEF Holds

(* The steps of a task that goes on. *)
LEMMA MovesKeep ==
  ASSUME FlowInv, NEW n \in Nodes, degraded => degraded',
         \/ AskModel(n) \/ AskToReduce(n) \/ Drained(n) \/ BeginMapping(n) \/ Spawn(n)
         \/ \E c \in Nodes : Collect(n, c) \/ LosePanicked(n, c)
  PROVE  AllInOrder' /\ \A m \in Nodes : Conveys(m)'
<1>1. /\ TypeOK /\ TreeInv
      /\ \A m \in Nodes : Conveys(m)
  BY DEF FlowInv, IInv, SafetyInv
<1>2. \A m \in Nodes : chunks[m] \subseteq Nodes
  BY <1>1, ChunksAreKids, KidsAreNodes
<1>3. CASE AskModel(n) \/ AskToReduce(n) \/ Drained(n)
  <2>1. /\ result' = result /\ UNCHANGED <<chunks, arrived>>
        /\ \A p \in Nodes : p # n => pc'[p] = pc[p] /\ given'[p] = given[p]
        /\ \/ pc[n] = "started" /\ pc'[n] = "calling" /\ Leaf(n) /\ given'[n] = given[n]
           \/ /\ pc[n] = "collecting" /\ pc'[n] = "reducing" /\ AllJoined(n)
              /\ given'[n] = Joined(n)
           \/ pc[n] = "draining" /\ pc'[n] = "finished" /\ given'[n] = given[n]
    BY <1>1, <1>3 DEF AskModel, AskToReduce, Drained, Goto, TypeOK
  <2>2. \A p \in Nodes : pc'[p] = "joined" => pc[p] = "joined"
    BY <2>1
  <2>3. pc[n] = "collecting" /\ AllJoined(n) =>
          WellOrdered(n, Joined(n), Follows) /\ Holds(ToSet(Joined(n)), n)
    BY GivenIs, Zenon
  <2>4. ASSUME NEW m \in Nodes PROVE Moves(m)
    <3>1. Conveys(m) /\ (pc[n] = "collecting" => ~Leaf(n)) /\ chunks'[m] = chunks[m]
      BY <1>1, <2>1 DEF Conveys
    <3>2. pc[n] = "started" => chunks[n] = {}
      BY <1>1 DEF Conveys
    <3>3. CASE m = n
      BY <2>1, <3>1, <3>2, <3>3 DEF Moves
    <3>4. CASE m # n
      BY <2>1, <3>1, <3>4 DEF Conveys, Moves
    <3>. QED  BY <3>3, <3>4
  <2>5. ASSUME NEW m \in Nodes PROVE Passes(m)
    <3>1. pc'[m] \in {"spawning", "collecting", "reducing"} =>
            \A c \in chunks'[m] :
              pc'[c] = "joined" /\ result[c].tag = "text" => c \in ToSet(arrived'[m])
      BY <1>1, <1>2, <2>1, <2>2 DEF Conveys
    <3>2. \/ given'[m] = given[m] /\ (pc'[m] = "reducing" => pc[m] = "reducing")
          \/ /\ pc[m] = "collecting"
             /\ WellOrdered(m, given'[m], Follows) /\ Holds(ToSet(given'[m]), m)
      BY <2>1, <2>3
    <3>. QED  BY <3>1, <3>2 DEF Passes
  <2>. QED  BY <2>1, <2>4, <2>5, MoveConveys
<1>4. CASE BeginMapping(n)
  <2>1. /\ result' = result /\ UNCHANGED <<arrived, given>> /\ ~Leaf(n)
        /\ \A p \in Nodes : p # n => pc'[p] = pc[p] /\ chunks'[p] = chunks[p]
        /\ pc[n] = "started" /\ pc'[n] = "spawning" /\ chunks'[n] = Survivors(n)
    BY <1>1, <1>4 DEF BeginMapping, Goto, TypeOK
  <2>2. \A c \in Survivors(n) : pc[c] = "unborn" /\ c # n /\ c \in Nodes
    BY <1>1, <2>1, KidsAreNodes DEF Survivors, TreeInv, InOrder, Kid
  <2>3. \A p \in Nodes : pc'[p] = "joined" => pc[p] = "joined"
    BY <2>1
  <2>4. ASSUME NEW m \in Nodes PROVE Moves(m)
    BY <1>1, <2>1 DEF Conveys, Moves
  <2>5. ASSUME NEW m \in Nodes PROVE Passes(m)
    <3>1. CASE m = n
      BY <2>1, <2>2, <2>3, <3>1 DEF Passes
    <3>2. CASE m # n
      <4>1. chunks'[m] = chunks[m] /\ pc'[m] = pc[m] /\ given'[m] = given[m]
        BY <2>1, <3>2
      <4>2. Conveys(m) /\ chunks[m] \subseteq Nodes
        BY <1>1, <1>2
      <4>. QED  BY <2>1, <2>3, <4>1, <4>2 DEF Conveys, Passes
    <3>. QED  BY <3>1, <3>2
  <2>. QED  BY <2>1, <2>4, <2>5, MoveConveys
<1>5. CASE Spawn(n)
  <2>1. PICK c \in Unspawned(n) :
          pc' = [pc EXCEPT ![c] = "started",
                           ![n] = IF Unspawned(n) = {c} THEN "collecting" ELSE @]
    BY <1>5 DEF Spawn
  <2>2. /\ result' = result /\ UNCHANGED <<chunks, arrived, given>>
        /\ pc[n] = "spawning" /\ pc[c] = "unborn" /\ c \in Nodes
    BY <1>2, <1>5 DEF Spawn, Unspawned
  <2>3. /\ \A p \in Nodes : p # n /\ p # c => pc'[p] = pc[p]
        /\ pc'[n] \in {"spawning", "collecting"} /\ pc'[c] = "started"
    BY <1>1, <2>1, <2>2 DEF TypeOK
  <2>4. \A p \in Nodes : pc'[p] = "joined" => pc[p] = "joined"
    BY <2>2, <2>3
  <2>5. ASSUME NEW m \in Nodes PROVE Moves(m)
    BY <1>1, <2>2, <2>3 DEF Conveys, Moves
  <2>6. ASSUME NEW m \in Nodes PROVE Passes(m)
    BY <1>1, <1>2, <2>2, <2>3, <2>4 DEF Conveys, Passes
  <2>. QED  BY <2>2, <2>5, <2>6, MoveConveys
<1>6. ASSUME NEW c \in Nodes, Collect(n, c) \/ LosePanicked(n, c)
      PROVE  AllInOrder' /\ \A m \in Nodes : Conveys(m)'
  <2>1. /\ result' = result /\ UNCHANGED <<chunks, given>> /\ c \in chunks[n] /\ pc[n] = "collecting"
        /\ pc[c] = "finished" /\ pc'[c] = "joined"
        /\ \A p \in Nodes : p # c => pc'[p] = pc[p]
    BY <1>1, <1>6 DEF Collect, LosePanicked, Goto, TypeOK
  <2>2. /\ \A m \in Nodes : m # n => arrived'[m] = arrived[m]
        /\ \/ arrived'[n] = Append(arrived[n], c)
           \/ arrived'[n] = arrived[n] /\ result[c].tag = "panic"
    BY <1>1, <1>6 DEF Collect, LosePanicked, TypeOK
  <2>3. /\ ToSet(arrived[n]) \subseteq ToSet(Append(arrived[n], c))
        /\ c \in ToSet(Append(arrived[n], c))
    <3>1. arrived[n] \in Seq(Kid(n)) /\ c \in Kid(n)
      BY <1>1, <2>1 DEF TypeOK, Kid
    <3>. QED  BY <3>1, AppendedSet, Zenon
  <2>4. \A d \in ToSet(arrived[n]) : d \in ToSet(arrived'[n])
    BY <2>2, <2>3, Zenon
  <2>5. result[c].tag = "text" => c \in ToSet(arrived'[n])
    BY <2>2, <2>3
  <2>6. ASSUME NEW m \in Nodes, m # n PROVE c \notin chunks[m]
    BY <1>1, <2>1, <2>6, ChunksAreKids, OneParent
  <2>7. ASSUME NEW m \in Nodes, pc'[m] \in {"spawning", "collecting", "reducing"},
               NEW d \in chunks'[m], pc'[d] = "joined", result[d].tag = "text"
        PROVE  d \in ToSet(arrived'[m])
    <3>1. m # c /\ pc[m] = pc'[m] /\ d \in chunks[m] /\ d \in Nodes
      BY <1>2, <2>1, <2>7
    <3>2. CASE d = c
      <4>1. m = n
        BY <2>6, <3>1, <3>2
      <4>. QED  BY <2>5, <2>7, <3>2, <4>1
    <3>3. CASE d # c
      <4>1. d \in ToSet(arrived[m])
        BY <1>1, <2>1, <2>7, <3>1, <3>3 DEF Conveys
      <4>. QED  BY <2>2, <2>4, <4>1
    <3>. QED  BY <3>2, <3>3
  <2>8. ASSUME NEW m \in Nodes PROVE Moves(m) /\ Passes(m)
    <3>1. Moves(m)
      BY <1>1, <2>1 DEF Conveys, Moves
    <3>2. Passes(m)
      BY <2>1, <2>7 DEF Passes
    <3>. QED  BY <3>1, <3>2
  <2>. QED  BY <2>1, <2>8, MoveConveys
<1>. QED  BY <1>3, <1>4, <1>5, <1>6

(* A counted degradation stays counted. *)
LEMMA DegradedStays ==
  ASSUME NEW n \in Nodes, Step(n), degraded
  PROVE  degraded'
<1>1. degraded' = degraded \/ degraded' = TRUE \/ degraded' = (degraded \/ n \in DeepLeaves)
      \/ degraded' = (degraded \/ n # Root)
  BY Zenon DEF Step, RefuseStart, AskModel, Accept, Reject, CallFails, Panic,
     NothingToMap, DegradeAtPreflight, BeginMapping, Spawn, StopMapping,
     Drained, Collect, LosePanicked, PanicAtRoot, AllLost, Compose,
     AskToReduce, Reduced, ReduceFails, Cancel
<1>. QED  BY <1>1, Zenon

LEMMA FlowPreserved == FlowInv /\ [Next]_vars => FlowInv'
<1>. SUFFICES ASSUME FlowInv, [Next]_vars PROVE FlowInv'
  OBVIOUS
<1>1. IInv'
  BY StepPreserves DEF FlowInv
<1>2. ASSUME NEW n \in Nodes, Step(n)
      PROVE  AllInOrder' /\ \A m \in Nodes : Conveys(m)'
  <2>1. degraded => degraded'
    BY <1>2, DegradedStays, Zenon
  <2>2. CASE Ends(n)
    BY <2>1, <2>2, EndsWrite, WriteKeeps
  <2>3. CASE \/ Cancel(n) \/ StopMapping(n)
             \/ n = Root /\ \E c \in Nodes : PanicAtRoot(c)
    BY <2>1, <2>3, StopsWrite, WriteKeeps
  <2>4. CASE \/ AskModel(n) \/ AskToReduce(n) \/ Drained(n) \/ BeginMapping(n) \/ Spawn(n)
             \/ \E c \in Nodes : Collect(n, c) \/ LosePanicked(n, c)
    BY <2>1, <2>4, MovesKeep
  <2>. QED  BY <1>2, <2>2, <2>3, <2>4, Zenon DEF Step, Ends
<1>3. CASE SendShutdown \/ UNCHANGED vars
  <2>1. UNCHANGED <<pc, chunks, arrived, given, result, degraded>>
    BY <1>3 DEF SendShutdown, vars
  <2>2. AllInOrder' /\ \A m \in Nodes : Conveys(m)'
    <3>1. \A m \in Nodes : Moves(m) /\ Passes(m)
      BY <2>1 DEF FlowInv, Conveys, Moves, Passes
    <3>. QED  BY <2>1, <3>1, MoveConveys
  <2>. QED  BY <1>1, <2>2, Zenon DEF FlowInv
<1>4. CASE \E n \in Nodes : Step(n)
  BY <1>1, <1>2, <1>4, Zenon DEF FlowInv
<1>. QED  BY <1>3, <1>4 DEF Next, Terminated

(* The invariant of the results. *)
THEOREM Flow == Spec => []FlowInv
<1>. QED  BY InitFlows, FlowPreserved, PTL DEF Spec

(* Whatever the tree and the order in which its tasks end, every result,   *)
(* and what every model is given, holds findings in the order of the       *)
(* source and none twice, but for those that a model has rearranged.       *)
THEOREM ResultsInSourceOrder == Spec => []SourceOrder
<1>1. FlowInv => SourceOrder
  <2>. SUFFICES ASSUME AllInOrder, NEW n \in Nodes
                PROVE  InOrderOfSource(result[n].pieces) /\ InOrderOfSource(given[n])
    BY Zenon DEF FlowInv, SourceOrder
  <2>1. ASSUME NEW p, WellOrdered(n, p, Follows) PROVE InOrderOfSource(p)
    <3>1. ToSet(p) \subseteq LeavesBelow[n] \cup {Nothing} /\ Ordered(p, Follows)
      BY <2>1, Zenon DEF WellOrdered
    <3>2. ToSet(p) \ {Nothing} \subseteq ToSet(Source)
      BY <3>1, LeavesBelowIs
    <3>3. ASSUME NEW x, NEW y, <<x, y>> \in Follows, Nothing \notin {x, y}
          PROVE  Precedes(x, y) \/ (x # y /\ Rearranged(x, y))
      BY <3>3 DEF Follows
    <3>4. \A i, j \in DOMAIN p : i < j => <<p[i], p[j]>> \in Follows
      BY <3>1, Zenon DEF Ordered
    <3>. QED  BY <3>2, <3>3, <3>4, Zenon DEF InOrderOfSource
  <2>. QED  BY <2>1, Zenon DEF AllInOrder
<1>. QED  BY <1>1, Flow, PTL

(* Unless a degradation was counted, every finding that a leaf has made is *)
(* in the answer or was left out by a model: the nodes that have no result *)
(* yet, were rejected, panicked, or whose pieces are there are closed      *)
(* under Kids.                                                             *)
THEOREM NoFindingLost == Spec => []NothingLost
<1>1. FlowInv => NothingLost
  <2>. SUFFICES ASSUME FlowInv, Answer.tag = "text", ~degraded,
                       NEW l \in ToSet(Source), result[l].tag = "text"
                PROVE  l \in ToSet(Answer.pieces) \cup LeftOut
    BY DEF NothingLost
  <2>. DEFINE There == ToSet(Answer.pieces) \cup LeftOut \cup {Nothing}
              S == {n \in Nodes :
                     \/ pc[n] = "unborn" \/ result[n].tag \in {"rejected", "panic"}
                     \/ result[n].tag = "text" /\ ToSet(result[n].pieces) \subseteq There}
  <2>1. \A n \in Nodes : InOrder(n) /\ Conveys(n)
    BY DEF FlowInv, IInv, SafetyInv, TreeInv
  <2>2. Root \in S /\ S \in SUBSET Nodes
    BY PhiAssumption DEF Answer
  <2>3. ASSUME NEW n \in S, NEW c \in Kid(n) PROVE c \in S
    <3>1. n \in Nodes /\ c \in Nodes
      BY KidsAreNodes
    <3>2. CASE pc[n] = "unborn"
      BY <2>1, <3>1, <3>2 DEF InOrder
    <3>3. CASE result[n].tag = "rejected"
      <4>1. Kids[n] = <<>>
        BY <2>1, <3>1, <3>3 DEF Conveys, Leaf
      <4>. QED  BY <4>1 DEF Kid, ToSet
    <3>5. CASE result[n].tag = "panic"
      <4>1. chunks[n] = {}
        BY <2>1, <3>1, <3>5 DEF Conveys
      <4>2. pc[c] = "unborn"
        BY <2>1, <3>1, <4>1 DEF InOrder
      <4>. QED  BY <3>1, <4>2
    <3>4. CASE result[n].tag = "text" /\ ToSet(result[n].pieces) \subseteq There
      <4>1. Settled(n)
        BY <2>1, <3>1, <3>4 DEF Conveys, Settled, Good
      <4>2. pc[c] = "unborn" \/ (pc[c] = "joined" /\ result[c].tag \in Good)
        BY <2>1, <3>1, <4>1 DEF InOrder
      <4>3. result[c].tag # "marker"
        BY <2>1, <3>1 DEF Conveys
      <4>4. result[c].tag = "text" =>
              ToSet(result[c].pieces) \subseteq
                ToSet(result[n].pieces) \cup ToSet(given[n]) \cup {Nothing}
        BY <2>1, <3>1, <3>4 DEF Conveys, Holds
      <4>5. ToSet(given[n]) \ ToSet(result[n].pieces) \subseteq LeftOut \cup {Nothing}
        <5>1. WellOrdered(n, given[n], Follows)
          BY <3>1 DEF FlowInv, AllInOrder
        <5>2. ToSet(given[n]) \subseteq ToSet(Source) \cup {Nothing}
          BY <3>1, <5>1, LeavesBelowIs DEF WellOrdered
        <5>. QED  BY <3>1, <3>4, <5>2 DEF LeftOut
      <4>6. result[c].tag = "text" => ToSet(result[c].pieces) \subseteq There
        BY <3>4, <4>4, <4>5
      <4>. HIDE DEF There
      <4>. QED  BY <3>1, <4>2, <4>3, <4>6 DEF Good
    <3>. QED  BY <3>2, <3>3, <3>4, <3>5
  <2>4. S = Nodes
    <3>1. Closed(S)
      BY <2>3 DEF Closed, Kid
    <3>. HIDE DEF S
    <3>. QED  BY <2>2, <3>1, PhiAssumption
  <2>5. l \in Nodes /\ Leaf(l)
    BY PhiAssumption
  <2>6. result[l].pieces = <<l>> /\ pc[l] # "unborn"
    BY <2>1, <2>5 DEF Conveys
  <2>7. l \in ToSet(result[l].pieces) /\ l # Nothing
    BY <2>5, <2>6, PhiAssumption DEF ToSet
  <2>. QED  BY <2>4, <2>5, <2>6, <2>7
<1>. QED  BY <1>1, Flow, PTL

=============================================================================
