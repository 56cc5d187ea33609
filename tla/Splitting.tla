------------------------------ MODULE Splitting ------------------------------
(* The plan of an analysis (compute_plan of cost.rs, replanning of main.rs)  *)
(* and how phi takes the source apart with the combinators of combinator.rs  *)
(* until every piece is a leaf.                                              *)
(*                                                                           *)
(* A line is its length, whether it opens a definition, and whether it has a *)
(* keyword of the question; a text is an interval of lines.  The planner's   *)
(* cost and accuracy are real numbers, so what its searches return is any    *)
(* member of a set.  Pieces are taken in the order of the source: the tasks  *)
(* that run at a time are in Phi, and share nothing here but the budget, so  *)
(* that any of them may find its units taken by the others.                  *)
EXTENDS Integers, Sequences, SequencesExt

CONSTANTS
    Sources,        \* sequences of [size, def, key]
    Tasks,          \* subset of {"search", "summarise", "multi_hop", "classify"}
    Windows,        \* values of --window, 0 for automatic
    Ks,             \* values of --k, 0 for automatic
    AutoKs,         \* what the search for k may return
    AutoTaus,       \* what the search for tau may return
    TauDefault,     \* 6000
    Budgets,        \* calls that remain for the plan, 0 for unlimited
    Overlap,        \* --overlap
    MaxLine,        \* MAX_LINE_LENGTH
    MaxChunks,      \* MAX_CHUNK_COUNT
    MaxDepth,       \* 64
    MaxInput        \* MAX_PHI_INPUT_BYTES

ASSUME SplittingAssumption ==
    /\ Sources \subseteq Seq([size : Nat, def : BOOLEAN, key : BOOLEAN])
    /\ \A s \in Sources : Len(s) > 0
    /\ Windows \subseteq Nat /\ Ks \subseteq 0 .. 16 \ {1}
    /\ AutoTaus \subseteq Nat \ {0} /\ AutoKs \subseteq 2 .. 16
    /\ {TauDefault, MaxLine, MaxChunks, MaxDepth, MaxInput, Overlap} \subseteq Nat

VARIABLES
    source, task, window, userK, budget,    \* the inputs
    keyed,      \* the question has keywords
    stage,      \* "idle", "planning", "splitting" or "done"
    plan,       \* [k, tau, depth, calls], or <<>>
    candidate,  \* candidate_k of the replanning
    pending,    \* pieces that are to be answered, with their depths
    leaves,     \* the texts that the model was asked about
    cut,        \* lines that a limit may have taken from the prompts
    lost,       \* lines of a task that panicked
    pruned,     \* lines of chunks without a keyword
    degraded    \* lines of branches that the budget did not suffice for

inputs == <<source, task, window, userK, budget, keyed>>
splitVars == <<inputs, stage, plan, candidate, pending, leaves, cut, lost, pruned,
               degraded>>

SplitInit ==
    /\ source \in Sources /\ task \in Tasks /\ window \in Windows
    /\ userK \in Ks /\ budget \in Budgets
    /\ keyed \in IF task \in {"search", "multi_hop"} THEN BOOLEAN ELSE {FALSE}
    /\ stage = "planning"
    /\ plan = <<>> /\ candidate = 0
    /\ pending = <<>> /\ leaves = <<>>
    /\ cut = {} /\ lost = {} /\ pruned = {} /\ degraded = {}

-----------------------------------------------------------------------------
(* Texts *)

\* A text that ends before its first line is empty.
Text(first, last) == [first |-> first, last |-> last]
LinesOf(t) == t.first .. t.last
Empty(t) == t.last < t.first
Whole == Text(1, Len(source))

CeilDiv(a, b) == (a + b - 1) \div b
AtLeast(x, y) == IF x < y THEN y ELSE x
AtMost(x, y) == IF x > y THEN y ELSE x

\* The characters of the first lines, each with its newline.
Chars ==
    LET upto[n \in 0 .. Len(source)] ==
            IF n = 0 THEN 0 ELSE upto[n - 1] + source[n].size + 1
    IN upto

\* Length in characters, with the newlines between the lines.
Size(t) == IF Empty(t) THEN 0 ELSE Chars[t.last] - Chars[t.first - 1] - 1
Blank(t) == \A i \in LinesOf(t) : source[i].size = 0
\* str::lines does not yield the empty line after a final newline.
Lines(t) ==
    IF ~Empty(t) /\ source[t.last].size = 0 THEN Text(t.first, t.last - 1) ELSE t
\* The lines that are whole within the first n characters.
Prefix(t, n) ==
    LET ends == {i \in t.first - 1 .. t.last : Size(Text(t.first, i)) <= n}
    IN Text(t.first, CHOOSE i \in ends : \A j \in ends : j <= i)

\* The elements of the sequence s that are in S.
Keep(s, S) ==
    LET upto[i \in 0 .. Len(s)] ==
            IF i = 0 THEN <<>>
            ELSE IF s[i] \in S THEN Append(upto[i - 1], s[i]) ELSE upto[i - 1]
    IN upto[Len(s)]
LinesIn(ts) == UNION {LinesOf(t) : t \in ToSet(ts)}
NonBlank(ts) == Keep(ts, {t \in ToSet(ts) : ~Blank(t)})

Count(t) == t.last + 1 - t.first

\* The lines of ls, n at a time.
ByLines(ls, n) ==
    [c \in 1 .. CeilDiv(Count(ls), n) |->
        Text(ls.first + (c - 1) * n, AtMost(ls.first + c * n - 1, ls.last))]

CombSplit(t, k) ==
    LET ls == Lines(t)
    IN IF Empty(ls) THEN <<>> ELSE NonBlank(ByLines(ls, CeilDiv(Count(ls), k)))

\* Lines are counted from 0 here, and an end is the line behind the chunk.
DeltaLines(t) == Overlap \div AtLeast(Size(t) \div AtLeast(Count(Lines(t)), 1), 1)
OverlapStart(t, k, c) ==
    AtLeast((c - 1) * CeilDiv(Count(Lines(t)), k) - DeltaLines(t), 0)
OverlapEnd(t, k, c) ==
    LET total == Count(Lines(t))
    IN AtMost(AtMost(c * CeilDiv(total, k), total) + DeltaLines(t), total)

\* A chunk that starts past the end of the lines panics.
SplitPanics(t, k) == \E c \in 1 .. k : OverlapStart(t, k, c) > OverlapEnd(t, k, c)

CombSplitOverlap(t, k) ==
    NonBlank([c \in 1 .. k |-> Text(t.first + OverlapStart(t, k, c),
                                    t.first + OverlapEnd(t, k, c) - 1)])

DefinitionBoundary(i) == source[i].def

\* A block, from one boundary to the next, is packed into the current chunk if
\* that has tau characters with it.  A current chunk that is the empty string
\* counts as none.
PackBlock(tau, p) ==
    IF Size(p.current) = 0 THEN [p EXCEPT !.current = p.block]
    ELSE IF Size(p.current) + Size(p.block) + 1 > tau
    THEN [p EXCEPT !.done = Append(@, p.current), !.current = p.block]
    ELSE [p EXCEPT !.current = Text(@.first, p.block.last)]

\* All blocks of ls, packed one after the other: a boundary ends the block
\* before it.
Packing(ls, tau) ==
    LET first == [done |-> <<>>, current |-> Text(ls.first, ls.first - 1),
                  block |-> Text(ls.first, ls.first)]
        upto[i \in LinesOf(ls)] ==
            IF i = ls.first THEN first
            ELSE IF DefinitionBoundary(i)
            THEN [PackBlock(tau, upto[i - 1]) EXCEPT !.block = Text(i, i)]
            ELSE [upto[i - 1] EXCEPT !.block = Text(@.first, i)]
    IN PackBlock(tau, upto[ls.last])

\* Mutant: without the push after the loop.
PackedShort(ls, tau) == Packing(ls, tau).done

Packed(ls, tau) ==
    LET p == Packing(ls, tau)
    IN IF Blank(p.current) THEN p.done ELSE Append(p.done, p.current)

StructuralChunk(t, tau) ==
    LET ls == Lines(t)
        by_lines == CombSplit(t, AtLeast(Size(t) \div tau, 2))
        chunks == Packed(ls, tau)
    IN CASE Empty(ls) -> <<>>
         [] \E i \in LinesOf(ls) : source[i].size > MaxLine -> by_lines
         [] OTHER -> IF chunks = <<>> \/ (Len(chunks) = 1 /\ Size(t) > 2 * tau)
                     THEN by_lines
                     ELSE SubSeq(chunks, 1, AtMost(Len(chunks), MaxChunks))

-----------------------------------------------------------------------------
(* Planning *)

\* The ceiling of the logarithm of n/tau to the base k, in floating point: at
\* an exact power it may come out one too high.  What is negative counts as 1,
\* and minus zero as 0.
Depths(n, tau, k) ==
    CASE n < tau -> {d \in {0} : k * n >= tau} \cup {d \in {1} : k * n <= tau}
      [] n = tau -> {0}
      [] OTHER -> LET d == CHOOSE e \in 1 .. n :
                             tau * k ^ e >= n /\ \A f \in 1 .. e - 1 : tau * k ^ f < n
                  IN {AtMost(e, MaxDepth) :
                        e \in IF tau * k ^ d = n THEN {d, d + 1} ELSE {d}}

ReduceCalls(k, depth) ==
    CASE task \in {"summarise", "multi_hop"} ->
            FoldLeft(LAMBDA n, d : n + k ^ (d - 1), 0, [d \in 1 .. depth |-> d])
      [] task = "search" -> 1
      [] OTHER -> 0

ChosenTaus(user_tau) == IF user_tau > 0 THEN {user_tau} ELSE AutoTaus
ChosenKs(user_k) == IF user_k = 0 THEN AutoKs ELSE {AtLeast(user_k, 2)}

Plans(n, user_k, user_tau) ==
    IF n <= (IF user_tau > 0 THEN user_tau ELSE TauDefault)
    THEN {[k |-> 2, tau |-> n, depth |-> 0, calls |-> 1]}
    ELSE UNION {{[k |-> k, tau |-> tau, depth |-> d, calls |-> k ^ d + ReduceCalls(k, d)] :
                    d \in Depths(n, tau, k)} :
                  tau \in ChosenTaus(user_tau), k \in ChosenKs(user_k)}

\* Phase 3: a source within the window is one call, without a plan.
DispatchDirectly ==
    /\ stage = "planning" /\ plan = <<>> /\ Size(Whole) <= window
    /\ leaves' = <<Whole>>
    /\ stage' = "done"
    /\ UNCHANGED <<inputs, plan, candidate, pending, cut, lost, pruned, degraded>>

MakePlan ==
    /\ stage = "planning" /\ plan = <<>> /\ Size(Whole) > window
    /\ plan' \in Plans(Size(Whole), userK, window)
    /\ candidate' = plan'.k
    /\ UNCHANGED <<inputs, stage, pending, leaves, cut, lost, pruned, degraded>>

Unaffordable == budget # 0 /\ plan.calls > budget

Replan ==
    /\ stage = "planning" /\ plan # <<>> /\ Unaffordable /\ candidate > 1
    /\ candidate' = candidate - 1
    /\ \E p \in Plans(Size(Whole), candidate', window) :
         plan' = IF p.calls < plan.calls THEN p ELSE plan
    /\ UNCHANGED <<inputs, stage, pending, leaves, cut, lost, pruned, degraded>>

\* Also a plan that stays beyond the budget is executed.  phi first cuts off
\* what exceeds its limit.
Execute ==
    /\ stage = "planning" /\ plan # <<>> /\ (~Unaffordable \/ candidate <= 1)
    /\ LET kept == Prefix(Whole, MaxInput)
       IN /\ pending' = <<[text |-> kept, depth |-> 0]>>
          /\ cut' = LinesOf(Whole) \ LinesOf(kept)
    /\ stage' = "splitting"
    /\ UNCHANGED <<inputs, plan, candidate, leaves, lost, pruned, degraded>>

-----------------------------------------------------------------------------
(* phi, on the first piece that is pending *)

Piece == Head(pending).text
Depth == Head(pending).depth

\* A leaf is a text that is short enough, or at the depth limit.
IsLeaf == stage = "splitting" /\ pending # <<>> /\ (Size(Piece) <= plan.tau \/ Depth >= plan.depth)

\* Every leaf takes a unit of the budget.
Affordable == budget = 0 \/ Len(leaves) < budget

AskLeaf ==
    /\ IsLeaf /\ Affordable /\ Size(Piece) <= plan.tau
    /\ leaves' = Append(leaves, Piece)
    /\ pending' = Tail(pending)
    /\ UNCHANGED <<inputs, stage, plan, candidate, cut, lost, pruned, degraded>>

\* At the depth limit the text is cut to tau characters.
CutLeaf ==
    /\ IsLeaf /\ Affordable /\ Size(Piece) > plan.tau
    /\ LET kept == Prefix(Piece, plan.tau)
       IN /\ leaves' = Append(leaves, kept)
          /\ cut' = cut \cup (LinesOf(Piece) \ LinesOf(kept))
    /\ pending' = Tail(pending)
    /\ UNCHANGED <<inputs, stage, plan, candidate, lost, pruned, degraded>>

\* The branch is answered with a mark instead.
GiveUp ==
    /\ degraded' = degraded \cup LinesOf(Piece)
    /\ pending' = Tail(pending)
    /\ UNCHANGED <<inputs, stage, plan, candidate, leaves, cut, lost, pruned>>

\* No unit is left for the call.  The first leaf of all has one.
RefuseLeaf == IsLeaf /\ budget # 0 /\ Depth > 0 /\ GiveUp

Splits == stage = "splitting" /\ pending # <<>> /\ Size(Piece) > plan.tau /\ Depth < plan.depth

PanicInSplit ==
    /\ Splits /\ task = "multi_hop" /\ SplitPanics(Piece, plan.k)
    /\ lost' = lost \cup LinesOf(Piece)
    /\ pending' = Tail(pending)
    /\ UNCHANGED <<inputs, stage, plan, candidate, leaves, cut, pruned, degraded>>

Chunks ==
    LET first == IF task = "multi_hop" THEN CombSplitOverlap(Piece, plan.k)
                 ELSE StructuralChunk(Piece, plan.tau)
    IN IF Len(first) < 2 THEN CombSplit(Piece, plan.k) ELSE first

KeywordMatches(t) == \E i \in LinesOf(t) : source[i].key

\* Without a keyword in the question nothing is filtered.
Filtered(t) ==
    task \in {"search", "multi_hop"} /\ keyed /\ ~KeywordMatches(t)

Divides == Splits /\ ~(task = "multi_hop" /\ SplitPanics(Piece, plan.k))
Kept(chunks) == Keep(chunks, {t \in ToSet(chunks) : ~Filtered(t)})

Split ==
    /\ Divides
    /\ LET chunks == Chunks
           kept == Kept(chunks)
       IN /\ budget = 0 \/ Len(kept) <= budget
          /\ pending' = [c \in DOMAIN kept |-> [text |-> kept[c], depth |-> Depth + 1]]
                        \o Tail(pending)
          /\ pruned' = pruned \cup (LinesIn(chunks) \ LinesIn(kept))
          /\ cut' = IF Len(chunks) = MaxChunks
                    THEN cut \cup (LinesOf(Piece) \ LinesIn(chunks)) ELSE cut
    /\ UNCHANGED <<inputs, stage, plan, candidate, leaves, lost, degraded>>

\* The pre-flight check: as many units as children, or none is asked.  All of
\* them are there before the first split.
DegradeAtPreflight ==
    /\ Divides /\ budget # 0
    /\ LET children == Len(Kept(Chunks))
       IN children > 0 /\ (Depth > 0 \/ children > budget)
    /\ GiveUp

Finish ==
    /\ stage = "splitting" /\ pending = <<>>
    /\ stage' = "done"
    /\ UNCHANGED <<inputs, plan, candidate, pending, leaves, cut, lost, pruned, degraded>>

SplitNext ==
    \/ DispatchDirectly \/ MakePlan \/ Replan \/ Execute
    \/ AskLeaf \/ CutLeaf \/ RefuseLeaf
    \/ PanicInSplit \/ Split \/ DegradeAtPreflight \/ Finish

-----------------------------------------------------------------------------

\* However the source is taken apart, over all levels of the recursion, every
\* line that is not blank ends up in a prompt, unless it was cut off at a
\* limit, pruned with a chunk that has no keyword, lost with a panic, or given
\* up with a branch for lack of budget, which takes a budget; and a task
\* without overlap asks about no line twice and keeps them in order.  A line
\* with a keyword is never pruned.
EveryLineAsked ==
    stage = "done" =>
        /\ \A i \in DOMAIN source :
             source[i].size > 0 =>
                 i \in LinesIn(leaves) \cup cut \cup lost \cup pruned \cup degraded
        /\ \A i \in pruned : ~source[i].key
        /\ degraded # {} => budget # 0
        /\ task # "multi_hop" =>
             \A x, y \in DOMAIN leaves : x < y => leaves[x].last < leaves[y].first
=============================================================================
