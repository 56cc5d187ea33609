-------------------------------- MODULE Phi --------------------------------
(***************************************************************************)
(* The recursion of src/src/phi.rs: a tree of tasks that ask the oracle at *)
(* their leaves, collect what their children return through a JoinSet and  *)
(* reduce it, with the permits of the concurrency semaphore, degradation   *)
(* of what fails, panics, and the abort and drain of a shutdown.           *)
(*                                                                         *)
(* The tree is the one that chunking yields.  The oracle answers a call    *)
(* or fails it; Oracle models how.  A result is what it was made from: the *)
(* leaves whose findings it holds, in order, and Nothing for the sentence  *)
(* a reducer or an empty map writes when it has nothing.  A model that is  *)
(* asked to rank, select or combine findings may leave any of them out and *)
(* present the others in any order.                                        *)
(***************************************************************************)
EXTENDS Integers, FiniteSets, Sequences, SequencesExt

CONSTANTS
  Nodes, Root,
  Kids,        \* the chunks of each node in source order, before filtering
  Source,      \* the leaves in source order
  DeepLeaves,  \* leaves that only the depth limit made so
  Setups,      \* how phi may be called: the task type, and the leaves whose
               \* text has a keyword of the question
  Permits,     \* of the concurrency semaphore
  Nothing

Leaf(n) == Kids[n] = <<>>

Closed(S) == \A n \in S : ToSet(Kids[n]) \subseteq S

LeavesBelow ==
  [n \in Nodes |->
     {l \in Nodes : /\ Leaf(l)
                    /\ \A S \in SUBSET Nodes : n \in S /\ Closed(S) => l \in S}]

Precedes(k, l) ==
  \E i, j \in DOMAIN Source : i < j /\ Source[i] = k /\ Source[j] = l

(* run_analysis calls phi only with a text that is to be split; the number *)
(* of permits is at least 8 in the code, and 1 is what it could be.        *)
ASSUME PhiAssumption ==
  /\ IsFiniteSet(Nodes) /\ Root \in Nodes /\ Nothing \notin Nodes
  /\ Kids \in [Nodes -> Seq(Nodes \ {Root})]
  /\ \A n \in Nodes \ {Root} :
       \E p \in Nodes : /\ n \in ToSet(Kids[p])
                        /\ \A q \in Nodes : n \in ToSet(Kids[q]) => q = p
  /\ \A n \in Nodes : Cardinality(ToSet(Kids[n])) = Len(Kids[n])
  /\ \A S \in SUBSET Nodes :        \* all nodes are reached from the root
       Root \in S /\ Closed(S) => S = Nodes
  /\ ~Leaf(Root)
  /\ ToSet(Source) = {n \in Nodes : Leaf(n)}
  /\ \A i, j \in DOMAIN Source : Source[i] = Source[j] => i = j
  /\ \A n \in Nodes : \A i, j \in DOMAIN Kids[n] :
       i < j => \A k \in LeavesBelow[Kids[n][i]], l \in LeavesBelow[Kids[n][j]] :
                  Precedes(k, l)
  /\ DeepLeaves \subseteq ToSet(Source)
  /\ Setups \subseteq [task : {"search", "classify", "summarise", "multi_hop"},
                       matching : SUBSET ToSet(Source)]
  /\ Permits \in Nat \ {0}

VARIABLES
  task, matching,   \* how phi was called
  permits,     \* free permits
  shutdown,    \* the value of the watch channel
  degraded,    \* DEGRADED_COUNT is not zero
  pc,
  chunks,      \* the children a node maps over
  arrived,     \* the children whose results a node has, as they came
  given,       \* the findings of which a node asked a model to make one text
  aborted,     \* tasks that were told to abort
  result

setup == <<task, matching>>
vars == <<setup, permits, shutdown, degraded, pc, chunks, arrived, given,
          aborted, result>>

Text(pieces) == [tag |-> "text", pieces |-> pieces]
Bare(tag) == [tag |-> tag, pieces |-> <<>>]

Tags == {"none",        \* no result yet
         "text",
         "rejected",    \* the empty string of a leaf the verifier rejected
         "marker",      \* "[degraded: ...]"
         "error", "panic", "cancelled"}

TypeOK ==
  /\ [task |-> task, matching |-> matching] \in Setups
  /\ permits \in 0 .. Permits
  /\ shutdown \in BOOLEAN /\ degraded \in BOOLEAN
  /\ pc \in [Nodes -> {"unborn", "started", "calling", "spawning",
                       "collecting", "reducing", "draining", "finished",
                       "joined"}]
  /\ DOMAIN chunks = Nodes /\ DOMAIN arrived = Nodes /\ DOMAIN given = Nodes
  /\ DOMAIN result = Nodes
  /\ \A n \in Nodes :
       /\ chunks[n] \subseteq ToSet(Kids[n])
       /\ arrived[n] \in Seq(ToSet(Kids[n]))
       /\ result[n].tag \in Tags
  /\ aborted \subseteq Nodes

Init ==
  /\ \E s \in Setups : task = s.task /\ matching = s.matching
  /\ permits = Permits
  /\ shutdown = FALSE /\ degraded = FALSE
  /\ pc = [n \in Nodes |-> IF n = Root THEN "started" ELSE "unborn"]
  /\ chunks = [n \in Nodes |-> {}]
  /\ arrived = [n \in Nodes |-> <<>>]
  /\ given = [n \in Nodes |-> <<>>]
  /\ aborted = {}
  /\ result = [n \in Nodes |-> Bare("none")]

Goto(n, from, to) ==
  /\ pc[n] = from
  /\ pc' = [pc EXCEPT ![n] = to]

HoldsPermit(n) == n # Root /\ pc[n] \in {"started", "calling"}

\* Mutant: a node gives a permit back also when it has done so before.
ReleasePermitAgain(n) == permits' = IF n # Root THEN permits + 1 ELSE permits

ReleasePermit(n) == permits' = IF HoldsPermit(n) THEN permits + 1 ELSE permits

(* The future of n is done; what it owns is dropped. *)
End(n, from, r) ==
  /\ Goto(n, from, "finished")
  /\ result' = [result EXCEPT ![n] = r]
  /\ ReleasePermit(n)

-----------------------------------------------------------------------------
(* Leaves *)

RefuseStart(n) ==
  /\ shutdown
  /\ End(n, "started", Bare("error"))
  /\ UNCHANGED <<setup, shutdown, degraded, chunks, arrived, given, aborted>>

AskModel(n) ==
  /\ Leaf(n) /\ ~shutdown
  /\ Goto(n, "started", "calling")
  /\ UNCHANGED <<setup, permits, shutdown, degraded, chunks, arrived, given,
                 aborted, result>>

Accept(n) ==
  /\ End(n, "calling", Text(<<n>>))
  /\ UNCHANGED <<setup, shutdown, degraded, chunks, arrived, given, aborted>>

Reject(n) ==
  /\ End(n, "calling", Bare(IF n \in DeepLeaves THEN "marker" ELSE "rejected"))
  /\ degraded' = (degraded \/ n \in DeepLeaves)
  /\ UNCHANGED <<setup, shutdown, chunks, arrived, given, aborted>>

\* Mutant: a failed call below the root is an error as at the root.
CallFailsWithError(n) ==
  /\ End(n, "calling", Bare("error"))
  /\ UNCHANGED <<setup, shutdown, degraded, chunks, arrived, given, aborted>>

CallFails(n) ==
  /\ End(n, "calling", Bare("marker"))
  /\ degraded' = TRUE
  /\ UNCHANGED <<setup, shutdown, chunks, arrived, given, aborted>>

-----------------------------------------------------------------------------
(* Splitting: the permit is dropped first *)

(* comb_split_overlap slices out of bounds when there are fewer lines than *)
(* its chunks would start at and the overlap is less than a line.          *)
Panic(n) ==
  /\ ~Leaf(n) /\ ~shutdown
  /\ task = "multi_hop"
  /\ End(n, "started", Bare("panic"))
  /\ UNCHANGED <<setup, shutdown, degraded, chunks, arrived, given, aborted>>

(* filter_by_keyword_predicate: a keyword does not span lines, so a text   *)
(* has it if a chunk of the text does.                                     *)
Survivors(n) ==
  {c \in ToSet(Kids[n]) : task \in {"search", "multi_hop"} =>
                            LeavesBelow[c] \cap matching # {}}

NothingToMap(n) ==
  /\ ~Leaf(n) /\ ~shutdown
  /\ Survivors(n) = {}
  /\ End(n, "started", Text(<<Nothing>>))
  /\ UNCHANGED <<setup, shutdown, degraded, chunks, arrived, given, aborted>>

(* The pre-flight check finds too few units for the children. *)
DegradeAtPreflight(n) ==
  /\ ~Leaf(n) /\ ~shutdown
  /\ Survivors(n) # {}
  /\ End(n, "started", Bare("marker"))
  /\ degraded' = TRUE
  /\ UNCHANGED <<setup, shutdown, chunks, arrived, given, aborted>>

\* Mutant: a parent keeps its permit while its children run.
BeginMappingHolding(n) ==
  /\ ~Leaf(n) /\ ~shutdown
  /\ Goto(n, "started", "spawning")
  /\ Survivors(n) # {}
  /\ chunks' = [chunks EXCEPT ![n] = Survivors(n)]
  /\ UNCHANGED <<setup, permits, shutdown, degraded, arrived, given, aborted,
                 result>>

BeginMapping(n) ==
  /\ ~Leaf(n) /\ ~shutdown
  /\ Goto(n, "started", "spawning")
  /\ ReleasePermit(n)
  /\ Survivors(n) # {}
  /\ chunks' = [chunks EXCEPT ![n] = Survivors(n)]
  /\ UNCHANGED <<setup, shutdown, degraded, arrived, given, aborted, result>>

-----------------------------------------------------------------------------
(* Map *)

Unspawned(n) == {c \in chunks[n] : pc[c] = "unborn"}

FirstOf(n, S) ==
  Kids[n][CHOOSE i \in DOMAIN Kids[n] :
            /\ Kids[n][i] \in S
            /\ \A j \in 1 .. i - 1 : Kids[n][j] \notin S]

(* One permit per child; collecting begins with the last one. *)
Spawn(n) ==
  /\ pc[n] = "spawning"
  /\ permits > 0
  /\ permits' = permits - 1
  /\ \E c \in Unspawned(n) :
       /\ c = FirstOf(n, Unspawned(n))
       /\ pc' = [pc EXCEPT ![c] = "started",
                           ![n] = IF Unspawned(n) = {c} THEN "collecting"
                                  ELSE @]
  /\ UNCHANGED <<setup, shutdown, degraded, chunks, arrived, given, aborted,
                 result>>

(* Children are joined in the order in which they finish.  The select is   *)
(* biased towards shutdown.  A child returns an error only after shutdown  *)
(* (FailuresStayLocal), so the arms for such an error are never taken.     *)
Collect(n, c) ==
  /\ ~shutdown
  /\ pc[n] = "collecting" /\ c \in chunks[n]
  /\ Goto(c, "finished", "joined")
  /\ result[c].tag \in {"text", "rejected", "marker"}
  /\ arrived' = [arrived EXCEPT ![n] = Append(@, c)]
  /\ UNCHANGED <<setup, permits, shutdown, degraded, chunks, given, aborted,
                 result>>

(* Below the root a panicked child is logged and left out. *)
LosePanicked(n, c) ==
  /\ ~shutdown
  /\ n # Root
  /\ pc[n] = "collecting" /\ c \in chunks[n]
  /\ Goto(c, "finished", "joined")
  /\ result[c].tag = "panic"
  /\ UNCHANGED <<setup, permits, shutdown, degraded, chunks, arrived, given,
                 aborted, result>>

(* abort_all, and the wait for the children to be gone, which a time limit *)
(* ends: abort_and_drain, or the drop of the JoinSetReturnGuard.           *)
StartDraining(n, r) ==
  /\ pc' = [pc EXCEPT ![n] = "draining"]
  /\ aborted' = aborted \cup chunks[n]
  /\ result' = [result EXCEPT ![n] = r]

PanicAtRoot(c) ==
  /\ ~shutdown
  /\ pc[Root] = "collecting" /\ c \in chunks[Root]
  /\ pc[c] = "finished" /\ result[c].tag = "panic"
  /\ StartDraining(Root, Bare("error"))
  /\ UNCHANGED <<setup, permits, shutdown, degraded, chunks, arrived, given>>

StopMapping(n) ==
  /\ shutdown
  /\ pc[n] \in {"spawning", "collecting"}
  /\ StartDraining(n, Bare("error"))
  /\ UNCHANGED <<setup, permits, shutdown, degraded, chunks, arrived, given>>

Drained(n) ==
  /\ Goto(n, "draining", "finished")
  /\ UNCHANGED <<setup, permits, shutdown, degraded, chunks, arrived, given,
                 aborted, result>>

-----------------------------------------------------------------------------
(* Reduce *)

\* Mutant: the results stay in the order of arrival.
OrderOfArrival(n) == arrived[n]

(* The sequences f[s[1]], f[s[2]], ... joined. *)
Gather(s, f) ==
  LET upto[i \in 0 .. Len(s)] ==
        IF i = 0 THEN <<>> ELSE upto[i - 1] \o f[s[i]]
  IN upto[Len(s)]

(* The elements of s that are in S. *)
Keep(s, S) == Gather(s, [c \in ToSet(s) |-> IF c \in S THEN <<c>> ELSE <<>>])

(* indexed_results sorted by index *)
InSourceOrder(n) == Keep(Kids[n], ToSet(arrived[n]))

(* filter_nonempty *)
Useful(n) == Keep(InSourceOrder(n), {c \in Nodes : result[c].tag = "text"})

\* Mutant: the shortcut for a single result is taken for several.
JoinedShort(n) == result[Useful(n)[1]].pieces

Joined(n) == Gather(Useful(n), [c \in Nodes |-> result[c].pieces])

Composed(n) == IF Useful(n) = <<>> THEN <<Nothing>> ELSE Joined(n)

(* Whether reduce_for_task calls the model. *)
NeedsModel(n) ==
  CASE task = "search" -> n = Root /\ Len(arrived[n]) > 1 /\ Len(Useful(n)) > 1
    [] task = "classify" -> FALSE
    [] OTHER -> Useful(n) # <<>>

\* Mutant: reduce as soon as some result is there.
SomeJoined(n) == pc[n] = "collecting" /\ arrived[n] # <<>>

AllJoined(n) ==
  /\ pc[n] = "collecting"
  /\ \A c \in chunks[n] : pc[c] = "joined"

AllLost(n) ==
  /\ AllJoined(n) /\ ~shutdown
  /\ arrived[n] = <<>>
  /\ End(n, "collecting", Bare("marker"))
  /\ degraded' = TRUE
  /\ UNCHANGED <<setup, shutdown, chunks, arrived, given, aborted>>

Compose(n) ==
  /\ AllJoined(n) /\ ~shutdown
  /\ arrived[n] # <<>> /\ ~NeedsModel(n)
  /\ End(n, "collecting", Text(Composed(n)))
  /\ UNCHANGED <<setup, shutdown, degraded, chunks, arrived, given, aborted>>

AskToReduce(n) ==
  /\ AllJoined(n) /\ ~shutdown
  /\ arrived[n] # <<>> /\ NeedsModel(n)
  /\ Goto(n, "collecting", "reducing")
  /\ given' = [given EXCEPT ![n] = Joined(n)]
  /\ UNCHANGED <<setup, permits, shutdown, degraded, chunks, arrived, aborted,
                 result>>

(* The model presents what it selects in the order that it ranks it, and   *)
(* says that there is nothing when it discards everything.                 *)
Syntheses(n) ==
  {IF findings = <<>> THEN <<Nothing>> ELSE findings :
     findings \in SetToAllKPermutations(ToSet(given[n]) \ {Nothing})}

Reduced(n) ==
  /\ \E pieces \in Syntheses(n) : End(n, "reducing", Text(pieces))
  /\ UNCHANGED <<setup, shutdown, degraded, chunks, arrived, given, aborted>>

ReduceFails(n) ==
  /\ End(n, "reducing", Bare(IF n = Root THEN "error" ELSE "marker"))
  /\ degraded' = (degraded \/ n # Root)
  /\ UNCHANGED <<setup, shutdown, chunks, arrived, given, aborted>>

-----------------------------------------------------------------------------
(* A task that was aborted is dropped at its next await: its permit goes   *)
(* back, and its own children are aborted and waited for.                  *)
Cancel(n) ==
  /\ n \in aborted
  /\ \/ /\ \E from \in {"started", "calling", "reducing"} :
             End(n, from, Bare("cancelled"))
        /\ UNCHANGED aborted
     \/ /\ pc[n] \in {"spawning", "collecting"}
        /\ StartDraining(n, Bare("cancelled"))
        /\ UNCHANGED permits
  /\ UNCHANGED <<setup, shutdown, degraded, chunks, arrived, given>>

SendShutdown ==
  /\ ~shutdown
  /\ shutdown' = TRUE
  /\ UNCHANGED <<setup, permits, degraded, pc, chunks, arrived, given, aborted,
                 result>>

Step(n) ==
  \/ RefuseStart(n) \/ AskModel(n) \/ Accept(n) \/ Reject(n) \/ CallFails(n)
  \/ Panic(n) \/ NothingToMap(n) \/ DegradeAtPreflight(n) \/ BeginMapping(n)
  \/ Spawn(n) \/ StopMapping(n) \/ Drained(n)
  \/ \E c \in Nodes : Collect(n, c) \/ LosePanicked(n, c)
  \/ n = Root /\ \E c \in Nodes : PanicAtRoot(c)
  \/ AllLost(n) \/ Compose(n) \/ AskToReduce(n) \/ Reduced(n) \/ ReduceFails(n)
  \/ Cancel(n)

Alive(n) == pc[n] \notin {"unborn", "finished", "joined"}

Terminated ==
  /\ \A n \in Nodes : ~Alive(n)
  /\ UNCHANGED vars

Next == (\E n \in Nodes : Step(n)) \/ SendShutdown \/ Terminated

Spec == Init /\ [][Next]_vars

(* Tasks are polled, and a call of the oracle comes back (EveryCallEnds of *)
(* Oracle).  Nobody has to shut down.                                      *)
FairSpec == Spec /\ \A n \in Nodes : WF_vars(Step(n))

-----------------------------------------------------------------------------
(* Properties *)

Answer == result[Root]

(* Both findings are in a text that a model wrote. *)
Rearranged(k, l) ==
  \E m \in Nodes : /\ given[m] # <<>> /\ result[m].tag = "text"
                   /\ {k, l} \subseteq ToSet(result[m].pieces)

InOrderOfSource(pieces) ==
  /\ ToSet(pieces) \ {Nothing} \subseteq ToSet(Source)
  /\ \A i, j \in DOMAIN pieces :
       LET k == pieces[i]  l == pieces[j]
       IN i < j /\ Nothing \notin {k, l}
          => Precedes(k, l) \/ (k # l /\ Rearranged(k, l))

(***************************************************************************)
(* Whatever the order in which children finish, results hold findings, and *)
(* models are given them, in the order of the source and none of them      *)
(* twice; only findings that one and the same model was given before may   *)
(* stand in the order in which it put them.                                *)
(***************************************************************************)
SourceOrder ==
  \A n \in Nodes : /\ InOrderOfSource(result[n].pieces)
                   /\ pc[n] = "reducing" => InOrderOfSource(given[n])

(* The findings that a model was given and did not put into its text. *)
LeftOut ==
  {l \in ToSet(Source) :
     \E n \in Nodes : /\ result[n].tag = "text"
                      /\ l \in ToSet(given[n]) \ ToSet(result[n].pieces)}

(***************************************************************************)
(* A finding that a leaf has made reaches the answer or a model that left  *)
(* it out, unless the run counted a degradation: filtering, collecting,    *)
(* joining and handing over lose nothing without a trace, also when a      *)
(* sibling panics.                                                         *)
(***************************************************************************)
NothingLost ==
  Answer.tag = "text" /\ ~degraded
  => \A l \in ToSet(Source) :
       result[l].tag = "text" => l \in ToSet(Answer.pieces) \cup LeftOut

(***************************************************************************)
(* A failed call, a rejected answer or a failed reduction below the root   *)
(* never fails the tree: only shutdown makes a child return an error.      *)
(***************************************************************************)
FailuresStayLocal ==
  \A n \in Nodes \ {Root} : result[n].tag = "error" => shutdown

(***************************************************************************)
(* Structured concurrency: when phi returns a text, no task of its tree is *)
(* left that could still call the model or hold a permit.                  *)
(***************************************************************************)
NoneOutlivesAnswer ==
  /\ pc[Root] = "finished" /\ Answer.tag \in {"text", "marker"}
  => permits = Permits /\ \A n \in Nodes : ~Alive(n)

(***************************************************************************)
(* phi returns and all its tasks end, with a single permit and a tree      *)
(* deeper and wider than that ("This ordering guarantees liveness"), and   *)
(* also when an abort or a drain cuts them short.                          *)
(***************************************************************************)
TreeEnds == <>[](pc[Root] = "finished" /\ \A n \in Nodes : ~Alive(n))

(* is_clean of the fix loop, for the texts the tree can write itself. *)
Clean ==
  /\ Answer.tag = "text" /\ task \in {"search", "multi_hop"}
  /\ Head(Answer.pieces) = Nothing

(***************************************************************************)
(* The README: the fix loop "Stops when clean", and main.rs prints         *)
(* "Analysis came back clean. Nothing to fix."  The test is_clean looks at *)
(* how the text begins: a reduced text that begins with the sentence of    *)
(* an empty branch passes for clean whatever findings follow.              *)
(***************************************************************************)
CleanMeansNoFinding ==
  Clean => \A l \in ToSet(Source) : l \notin ToSet(Answer.pieces)

=============================================================================
