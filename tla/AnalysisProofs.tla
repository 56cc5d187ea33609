---------------------------- MODULE AnalysisProofs ----------------------------
(* What holds of an analysis for sources of any length, all limits and       *)
(* plans; and of its requests for all bodies the server may send, however    *)
(* they are cut into chunks, all completions and continuation limits.        *)
(*                                                                           *)
(* The results are about data of any length.  A recursive function such as   *)
(* FlattenSeq, which joins the segments of an answer, is defined by a CHOOSE *)
(* among the functions that satisfy its equations: the lemmas of the first   *)
(* part show that there is one (Recursion) and what it computes, by taking   *)
(* the least element of the set of numbers at which that fails.              *)
(*                                                                           *)
(* - SegmentsInv says of an answer that is being put together that it is the *)
(*   texts of the answers so far, and that all of them but the last were cut.*)
(* - ReadInv says of a body that is being read that what was taken from it   *)
(*   so far is what its finished events hold, wherever the chunks ended: no  *)
(*   end of a line is seen before the byte that decides about it, and no     *)
(*   event is dispatched twice or left behind in the buffer.                 *)
(* - SplitInv says of a source that is being taken apart that every line is  *)
(*   in a text that was asked about or is pending, or is accounted for; and, *)
(*   without overlap, that these texts follow one another in the source.  It *)
(*   rests on a lemma for each way to split a text.                          *)
EXTENDS Analysis, SequenceTheorems, WellFoundedInduction, TLAPS

-----------------------------------------------------------------------------
(* Induction, recursive functions and joined sequences *)

\* A set that holds 0 and is closed under successor holds all naturals.
LEMMA SetInduction ==
    ASSUME NEW S, 0 \in S, \A n \in Nat : n \in S => n + 1 \in S
    PROVE  Nat \subseteq S
  <1> SUFFICES ASSUME Nat \ S # {} PROVE FALSE
    OBVIOUS
  <1>1. PICK x \in Nat \ S : \A y \in Nat \ S : ~ (<<y, x>> \in OpToRel(<, Nat))
    BY NatLessThanWellFounded, WFMin
  <1>2. x # 0 /\ x - 1 \in Nat /\ x - 1 + 1 = x
    OBVIOUS
  <1>3. <<x - 1, x>> \in OpToRel(<, Nat)
    BY <1>2 DEF OpToRel
  <1> QED
    BY <1>1, <1>2, <1>3

\* The same on an interval.
LEMMA IntervalInduction ==
    ASSUME NEW a \in Int, NEW b \in Int, NEW S,
           a \in S, \A i \in a + 1 .. b : i - 1 \in S => i \in S
    PROVE  a .. b \subseteq S
  <1> DEFINE T == {n \in Nat : a + n <= b => a + n \in S}
  <1>1. 0 \in T
    OBVIOUS
  <1>2. ASSUME NEW n \in Nat, n \in T PROVE n + 1 \in T
    <2> SUFFICES ASSUME a + (n + 1) <= b PROVE a + (n + 1) \in S
      OBVIOUS
    <2>1. a + (n + 1) \in a + 1 .. b /\ a + (n + 1) - 1 = a + n /\ a + n <= b
      OBVIOUS
    <2> QED
      BY <2>1, <1>2
  <1>3. Nat \subseteq T
    <2> HIDE DEF T
    <2> QED
      BY <1>1, <1>2, SetInduction
  <1> SUFFICES ASSUME NEW i \in a .. b PROVE i \in S
    OBVIOUS
  <1>4. i - a \in Nat /\ a + (i - a) = i /\ i <= b
    OBVIOUS
  <1> QED
    BY <1>3, <1>4

\* The functions that a recursion over a .. b defines; there is one.
Iterations(V, a, b, base, step) ==
    {g \in [a .. b -> V] :
        /\ a <= b => g[a] = base
        /\ \A i \in a + 1 .. b : g[i] = step[i][g[i - 1]]}

LEMMA Recursion ==
    ASSUME NEW V, NEW a \in Int, NEW b \in Int, NEW base \in V,
           NEW step, \A i \in a + 1 .. b : \A x \in V : step[i][x] \in V
    PROVE  Iterations(V, a, b, base, step) # {}
  <1> DEFINE Upto(m) == Iterations(V, a, m, base, step)
             S == {m \in Int : Upto(m) # {}}
  <1>1. CASE b < a
    <2>1. [i \in a .. b |-> base] \in Upto(b)
      BY <1>1 DEF Iterations
    <2> QED
      BY <2>1
  <1>2. CASE a <= b
    <2>1. a \in S
      <3>1. [i \in a .. a |-> base] \in Upto(a)
        BY DEF Iterations
      <3> QED
        BY <3>1
    <2>2. ASSUME NEW i \in a + 1 .. b, i - 1 \in S PROVE i \in S
      <3>1. PICK g \in Upto(i - 1) : TRUE
        BY <2>2
      <3> DEFINE h == [j \in a .. i |-> IF j = i THEN step[i][g[i - 1]] ELSE g[j]]
      <3>2. g \in [a .. i - 1 -> V] /\ g[i - 1] \in V
        BY <3>1 DEF Iterations
      <3>3. h \in [a .. i -> V]
        BY <3>2
      <3>4. h[a] = base
        BY <3>1 DEF Iterations
      <3>5. ASSUME NEW j \in a + 1 .. i PROVE h[j] = step[j][h[j - 1]]
        <4>1. CASE j = i
          BY <3>2, <4>1
        <4>2. CASE j \in a + 1 .. i - 1
          BY <3>1, <4>2 DEF Iterations
        <4> QED
          BY <4>1, <4>2
      <3> HIDE DEF h
      <3>6. h \in Upto(i)
        BY <3>3, <3>4, <3>5 DEF Iterations
      <3> QED
        BY <3>6
    <2>3. a .. b \subseteq S
      <3> HIDE DEF S
      <3> QED
        BY <2>1, <2>2, IntervalInduction
    <2> QED
      BY <1>2, <2>3
  <1> QED
    BY <1>1, <1>2

\* The partial results of FlattenSeq, which satisfies their equations.
Joins(D, s, n) ==
    {f \in [1 .. n -> Seq(D)] :
        f[1] = s[1] /\ \A i \in 2 .. n : f[i] = f[i - 1] \o s[i]}

LEMMA FlattenEquations ==
    ASSUME NEW D, NEW s, NEW n \in Nat \ {0}, n = Len(s), s # <<>>,
           \A i \in 1 .. n : s[i] \in Seq(D)
    PROVE  \E f \in Joins(D, s, n) : FlattenSeq(s) = f[n]
  <1> DEFINE V == Seq(D)
             next(x, i) == x \o s[i]
             first == s[1]
             E(g) == [i \in 1 .. n |-> IF i = 1 THEN s[i] ELSE g[i - 1] \o s[i]]
             f == CHOOSE x : x = E(x)
             step == [i \in 2 .. n |-> [x \in V |-> next(x, i)]]
  <1>1. first \in V /\ \A i \in 2 .. n, x \in V : next(x, i) \in V
    OBVIOUS
  <1>2. FlattenSeq(s) = f[n]
    BY Zenon DEF FlattenSeq
  <1>3. \A g : E(g) = [j \in 1 .. n |-> IF j = 1 THEN first ELSE next(g[j - 1], j)]
    BY Zenon
  <1> HIDE DEF V, next, first, E
  <1>4. \A i \in 2 .. n : \A x \in V : step[i][x] = next(x, i) /\ step[i][x] \in V
    BY <1>1
  <1> HIDE DEF step
  <1>5. PICK a \in Int : a = 1
    OBVIOUS
  <1>6. PICK g \in Iterations(V, a, n, first, step) : TRUE
    <2>1. \A i \in a + 1 .. n : \A x \in V : step[i][x] \in V
      BY <1>4, <1>5
    <2>2. n \in Int
      OBVIOUS
    <2>3. Iterations(V, a, n, first, step) # {}
      BY <1>1, <2>1, <2>2, Recursion, Zenon
    <2> QED
      BY <2>3, Zenon
  <1>7. g \in [1 .. n -> V] /\ g[1] = first /\ \A i \in 2 .. n : g[i] = step[i][g[i - 1]]
    BY <1>5, <1>6 DEF Iterations
  <1>8. ASSUME NEW i \in 2 .. n PROVE g[i] = next(g[i - 1], i)
    <2>1. i - 1 \in 1 .. n
      OBVIOUS
    <2>2. g[i - 1] \in V
      BY <1>7, <2>1
    <2> QED
      BY <2>2, <1>4, <1>7
  <1>9. g = E(g)
    BY <1>3, <1>7, <1>8
  <1>10. f = E(f)
    BY <1>9, Zenon
  <1> HIDE DEF f
  <1>11. f[1] = first /\ \A i \in 2 .. n : f[i] = next(f[i - 1], i)
    BY <1>10, <1>3
  <1> DEFINE S == {i \in Int : f[i] \in V}
  <1>12. a .. n \subseteq S
    <2>1. a \in S /\ \A i \in a + 1 .. n : i - 1 \in S => i \in S
      BY <1>1, <1>5, <1>11
    <2>2. n \in Int
      OBVIOUS
    <2> HIDE DEF S
    <2> QED
      BY <2>1, <2>2, IntervalInduction, Zenon
  <1>13. f \in [1 .. n -> V]
    BY <1>3, <1>5, <1>10, <1>12
  <1> QED
    BY <1>2, <1>11, <1>13 DEF V, next, first, Joins

\* A sequence alone.
LEMMA FlattenSingle ==
    ASSUME NEW D, NEW x \in Seq(D)
    PROVE  FlattenSeq(<<x>>) = x
  <1>1. /\ 1 \in Nat \ {0} /\ 1 = Len(<<x>>) /\ <<x>> # <<>>
        /\ \A i \in 1 .. 1 : <<x>>[i] \in Seq(D)
    OBVIOUS
  <1>2. \E f \in Joins(D, <<x>>, 1) : FlattenSeq(<<x>>) = f[1]
    BY <1>1, FlattenEquations, Zenon
  <1>3. <<x>>[1] = x
    OBVIOUS
  <1> QED
    BY <1>2, <1>3, Zenon DEF Joins

\* Functions that start alike and go on alike are equal.
SameSteps(n, f, g) ==
    /\ n \in Int /\ f[1] = g[1]
    /\ \A i \in 2 .. n : f[i - 1] = g[i - 1] => f[i] = g[i]

LEMMA EqualIterates ==
    ASSUME NEW n, NEW f, NEW g, SameSteps(n, f, g)
    PROVE  \A i \in 1 .. n : f[i] = g[i]
  <1> DEFINE S == {i \in Int : f[i] = g[i]}
  <1>1. PICK a \in Int : a = 1
    OBVIOUS
  <1>2. n \in Int /\ a \in S /\ \A i \in a + 1 .. n : i - 1 \in S => i \in S
    BY <1>1 DEF SameSteps
  <1> HIDE DEF S
  <1>3. a .. n \subseteq S
    BY <1>2, IntervalInduction
  <1> QED
    BY <1>1, <1>3 DEF S

\* The joins of a sequence with one more element.
OneLonger(D, n, s, f, t, g) ==
    /\ n \in Nat \ {0}
    /\ f \in Joins(D, s, n) /\ g \in Joins(D, t, n + 1)
    /\ \A i \in 1 .. n : s[i] = t[i]

OneStepOn(D, n, f, t, g) ==
    f[n] = g[n] /\ f[n] \in Seq(D) /\ g[n + 1] = g[n] \o t[n + 1]

LEMMA SameJoins ==
    ASSUME NEW D, NEW n, NEW s, NEW f, NEW t, NEW g, OneLonger(D, n, s, f, t, g)
    PROVE  OneStepOn(D, n, f, t, g)
  <1> DEFINE cat(x, y) == x \o y
             V == Seq(D)
  <1>1. /\ n \in Nat \ {0} /\ \A i \in 1 .. n : s[i] = t[i]
        /\ f \in [1 .. n -> V]
        /\ f[1] = s[1] /\ g[1] = t[1]
        /\ \A i \in 2 .. n : f[i] = cat(f[i - 1], s[i])
        /\ \A i \in 2 .. n + 1 : g[i] = cat(g[i - 1], t[i])
    BY Zenon DEF Joins, OneLonger
  <1> HIDE DEF cat, V
  <1>2. SameSteps(n, f, g)
    BY <1>1 DEF SameSteps
  <1>3. \A i \in 1 .. n : f[i] = g[i]
    BY <1>1, <1>2, EqualIterates
  <1>4. f[n] = g[n] /\ f[n] \in V /\ g[n + 1] = cat(g[n], t[n + 1])
    BY <1>1, <1>3
  <1> QED
    BY <1>4, Zenon DEF cat, V, OneStepOn

\* One more sequence is joined at the end.
LEMMA FlattenAppend ==
    ASSUME NEW D, NEW s \in Seq(Seq(D)), s # <<>>, NEW x \in Seq(D)
    PROVE  /\ FlattenSeq(s) \in Seq(D)
           /\ FlattenSeq(Append(s, x)) = FlattenSeq(s) \o x
  <1>1. PICK n \in Nat \ {0} : n = Len(s)
    OBVIOUS
  <1>2. PICK t : t = Append(s, x)
    OBVIOUS
  <1>3. /\ n + 1 \in Nat \ {0} /\ n + 1 = Len(t) /\ t # <<>> /\ t[n + 1] = x
        /\ \A i \in 1 .. n : s[i] \in Seq(D) /\ s[i] = t[i]
    BY <1>1, <1>2, AppendProperties
  <1>4. ASSUME NEW i \in 1 .. n + 1 PROVE t[i] \in Seq(D)
    <2>1. CASE i = n + 1
      BY <2>1, <1>3, Zenon
    <2>2. CASE i # n + 1
      <3>1. i \in 1 .. n
        BY <2>2
      <3> QED
        BY <3>1, <1>3
    <2> QED
      BY <2>1, <2>2
  <1>5. PICK f \in Joins(D, s, n) : FlattenSeq(s) = f[n]
    BY <1>1, <1>3, FlattenEquations, Zenon
  <1>6. PICK g \in Joins(D, t, n + 1) : FlattenSeq(t) = g[n + 1]
    BY <1>3, <1>4, FlattenEquations, Zenon
  <1>7. OneLonger(D, n, s, f, t, g)
    BY <1>3, Zenon DEF OneLonger
  <1>8. f[n] = g[n] /\ f[n] \in Seq(D) /\ g[n + 1] = g[n] \o t[n + 1]
    <2>1. OneStepOn(D, n, f, t, g)
      BY <1>7, SameJoins, Zenon
    <2> QED
      BY <2>1, Zenon DEF OneStepOn
  <1> QED
    BY <1>2, <1>3, <1>5, <1>6, <1>8, Zenon

-----------------------------------------------------------------------------
(* Types, and the end of a line *)

Completion == [text : Seq(Nat), cut : BOOLEAN]

Phases == {"idle", "sending", "reading", "judging", "over"}

RequestTypes ==
    /\ segment \in Nat /\ taken \in Nat /\ received \in Nat
    /\ answers \in Seq(Completion) /\ completion \in Completion
    /\ event \in Seq(Nat) /\ WellFormed(body)
    /\ phase \in Phases

Ends(from, to) == {i \in from + 1 .. to : body[i] \in LineEnds}

\* The first end of a line that is known to be one.
IsBoundary(b, from, to) ==
    \E p \in Ends(from, to) :
        /\ \A e \in Ends(from, to) : p <= e
        /\ \/ b = <<p, p>> /\ (body[p] = "LF" \/ (p + 1 <= to /\ body[p + 1] # "LF"))
           \/ b = <<p, p + 1>> /\ body[p] = "CR" /\ p + 1 <= to /\ body[p + 1] = "LF"

\* A set of numbers has a least one.
LEMMA Minimum ==
    ASSUME NEW S \in SUBSET Nat, S # {}
    PROVE  \E x \in S : \A y \in S : x <= y
  <1>1. PICK x \in S : \A y \in S : ~ (<<y, x>> \in OpToRel(<, Nat))
    BY NatLessThanWellFounded, WFMin
  <1>2. ASSUME NEW y \in S PROVE x <= y
    <2> SUFFICES ASSUME y < x PROVE FALSE
      OBVIOUS
    <2>1. <<y, x>> \in OpToRel(<, Nat)
      BY DEF OpToRel
    <2> QED
      BY <1>1, <2>1
  <1> QED
    BY <1>2

\* What Boundary computes: the first end of a line, unless that is a CR whose
\* successor has not come.
LEMMA BoundaryIs ==
    ASSUME NEW from \in Nat, NEW to \in Nat
    PROVE  /\ Boundary(from, to) # <<>> => IsBoundary(Boundary(from, to), from, to)
           /\ Boundary(from, to) = <<>> =>
                \A e \in Ends(from, to) : e = to /\ body[e] = "CR"
  <1> DEFINE i == CHOOSE j \in Ends(from, to) : \A e \in Ends(from, to) : j <= e
  <1>1. Boundary(from, to) =
          IF Ends(from, to) = {} \/ (body[i] = "CR" /\ i + 1 > to) THEN <<>>
          ELSE <<i, IF body[i] = "CR" /\ body[i + 1] = "LF" THEN i + 1 ELSE i>>
    BY Zenon DEF Boundary, Ends
  <1>2. CASE Ends(from, to) = {}
    <2>1. Boundary(from, to) = <<>>
      BY <1>1, <1>2, Zenon
    <2> QED
      BY <1>2, <2>1
  <1>3. CASE Ends(from, to) # {}
    <2>1. \E x \in Ends(from, to) : \A y \in Ends(from, to) : x <= y
      <3>1. Ends(from, to) \in SUBSET Nat
        BY DEF Ends
      <3> QED
        BY <1>3, <3>1, Minimum, Zenon
    <2>2. i \in Ends(from, to) /\ \A y \in Ends(from, to) : i <= y
      BY <2>1, Zenon
    <2> HIDE DEF i
    <2>3. i \in from + 1 .. to /\ body[i] \in {"CR", "LF"}
      BY <2>2 DEF Ends, LineEnds
    <2>4. CASE body[i] = "CR" /\ i + 1 > to
      <3>1. Boundary(from, to) = <<>>
        BY <1>1, <1>3, <2>4, Zenon
      <3>2. \A e \in Ends(from, to) : e = i
        BY <2>2, <2>3, <2>4 DEF Ends
      <3> QED
        BY <2>3, <2>4, <3>1, <3>2
    <2>5. CASE body[i] = "CR" /\ i + 1 <= to /\ body[i + 1] = "LF"
      <3>1. Boundary(from, to) = <<i, i + 1>>
        BY <1>1, <1>3, <2>3, <2>5
      <3> QED
        BY <2>2, <2>5, <3>1 DEF IsBoundary
    <2>6. CASE body[i] = "LF" \/ (i + 1 <= to /\ body[i + 1] # "LF")
      <3>1. ~ (body[i] = "CR" /\ i + 1 > to) /\ ~ (body[i] = "CR" /\ body[i + 1] = "LF")
        BY <2>3, <2>6
      <3>2. Boundary(from, to) = <<i, i>>
        BY <1>1, <1>3, <3>1, Zenon
      <3> QED
        BY <2>2, <2>3, <2>6, <3>2 DEF IsBoundary
    <2> QED
      BY <2>3, <2>4, <2>5, <2>6
  <1> QED
    BY <1>2, <1>3

\* Type correctness of the request.
LEMMA TypesInit ==
    ASSUME Init PROVE RequestTypes
  <1>1. WellFormed(<<>>)
    BY DEF WellFormed
  <1>2. Nothing \in Completion
    BY DEF Nothing, Completion
  <1>3. CASE RequestInit
    BY <1>1, <1>2, <1>3 DEF RequestInit, RequestTypes, Phases
  <1>4. CASE RequestIdle
    BY <1>1, <1>2, <1>4 DEF RequestIdle, RequestTypes, Phases
  <1> QED
    BY <1>3, <1>4 DEF Init

LEMMA DispatchTypes ==
    ASSUME RequestTypes, ~Malformed, Dispatch
    PROVE  completion' \in Completion
  <1>1. CASE event # <<>> /\ body[event[1]] \in Pieces
    <2>1. event[1] \in Nat
      BY <1>1 DEF RequestTypes
    <2>2. completion.text \in Seq(Nat) /\ completion.cut \in BOOLEAN
      BY DEF RequestTypes, Completion
    <2>3. Append(completion.text, event[1]) \in Seq(Nat)
      BY <2>1, <2>2
    <2>4. (completion.cut \/ body[event[1]] = "cut") \in BOOLEAN
      OBVIOUS
    <2>5. completion' = [text |-> Append(completion.text, event[1]),
                         cut |-> completion.cut \/ body[event[1]] = "cut"]
      BY <1>1, Zenon DEF Dispatch
    <2> QED
      BY <2>3, <2>4, <2>5, Zenon DEF Completion
  <1>2. CASE ~(event # <<>> /\ body[event[1]] \in Pieces)
    <2>1. completion' = completion
      BY <1>2, Zenon DEF Dispatch
    <2> QED
      BY <2>1 DEF RequestTypes
  <1> QED
    BY <1>1, <1>2

LEMMA TypesNext ==
    ASSUME RequestTypes, [Next]_<<splitVars, requestVars>>
    PROVE  RequestTypes'
  <1> USE DEF RequestTypes
  <1>1. CASE UNCHANGED requestVars
    BY <1>1 DEF requestVars, stream
  <1>2. ASSUME NEW why, Fail(why) PROVE RequestTypes'
    BY <1>2 DEF Fail, stream, Phases
  <1>3. CASE AnswerWhole
    BY <1>3, RequestAssumption DEF AnswerWhole, Completion, Phases
  <1>4. CASE StartStream
    <2>1. body' \in Bodies \cup MoreBodies
      BY <1>4 DEF StartStream
    <2>2. WellFormed(body')
      BY <2>1, RequestAssumption
    <2>3. WellFormed(body)'
      BY <2>2 DEF WellFormed
    <2>4. completion' \in Completion
      BY <1>4 DEF StartStream, Nothing, Completion
    <2> QED
      BY <1>4, <2>3, <2>4 DEF StartStream, Phases
  <1>5. ASSUME NEW n \in received + 1 .. Len(body), Receive(n) PROVE RequestTypes'
    <2>1. taken' \in Nat /\ received' \in Nat
      BY <1>5 DEF Receive
    <2> QED
      BY <1>5, <2>1 DEF Receive, WellFormed
  <1>6. CASE EndEvent
    <2>1. IsBoundary(Boundary(taken, received), taken, received)
      BY <1>6, BoundaryIs DEF EndEvent, HasLine
    <2>2. Boundary(taken, received)[2] \in Nat
      BY <2>1 DEF IsBoundary, Ends
    <2>3. completion' \in Completion
      BY <1>6, DispatchTypes DEF EndEvent
    <2>4. taken' \in Nat /\ event' \in Seq(Nat)
      BY <1>6, <2>2 DEF EndEvent
    <2> QED
      BY <1>6, <2>3, <2>4 DEF EndEvent, WellFormed
  <1>7. CASE TakeLine
    <2>1. IsBoundary(Boundary(taken, received), taken, received)
      BY <1>7, BoundaryIs DEF TakeLine, HasLine
    <2>2. Boundary(taken, received)[2] \in Nat
      BY <2>1 DEF IsBoundary, Ends
    <2>3. event' \in Seq(Nat)
      BY <1>7 DEF TakeLine
    <2> QED
      BY <1>7, <2>2, <2>3 DEF TakeLine, WellFormed
  <1>8. CASE EndOfStream
    <2>1. completion' \in Completion
      BY <1>8, DispatchTypes DEF EndOfStream
    <2> QED
      BY <1>8, <2>1 DEF EndOfStream, WellFormed, Phases
  <1>9. CASE Judge
    <2>1. answers' \in Seq(Completion)
      BY <1>9 DEF Judge
    <2>2. segment' \in Nat /\ phase' \in Phases
      BY <1>9 DEF Judge, Phases
    <2> QED
      BY <1>9, <2>1, <2>2 DEF Judge, stream, WellFormed
  <1> QED
    BY <1>1, <1>2, <1>3, <1>4, <1>5, <1>6, <1>7, <1>8, <1>9, Zenon
       DEF Next, RequestNext, SendFails, AnswerMalformed, Overflow, MalformedEvent,
           TooManyEvents, Breaks, Incomplete, TimeOut

-----------------------------------------------------------------------------
(* The segments of an answer *)

\* The answers, every character with the segment it came from.
TaggedPiece(s) == [i \in DOMAIN answers[s].text |-> <<s - 1, answers[s].text[i]>>]
TaggedAnswers == [s \in DOMAIN answers |-> TaggedPiece(s)]

Segments ==
    /\ messages = SubSeq(TaggedAnswers, 1, segment)
    /\ combined = FlattenSeq(TaggedAnswers)
    /\ Len(answers) = segment \/ (phase = "over" /\ Len(answers) = segment + 1)
    /\ \A s \in 1 .. segment : answers[s].cut /\ answers[s].text # <<>>
    /\ outcome = "ok" =>
         /\ phase = "over" /\ Len(answers) = segment + 1
         /\ answers[segment + 1].cut => class = "utility" /\ combined # <<>>

SegmentsInv == RequestTypes /\ Segments

Tag == Nat \X Nat

\* What is joined are sequences of such pairs.
LEMMA TaggedType ==
    ASSUME RequestTypes
    PROVE  /\ TaggedAnswers \in Seq(Seq(Tag))
           /\ Len(TaggedAnswers) = Len(answers)
           /\ Tagged \in Seq(Tag)
  <1>1. ASSUME NEW c \in Completion, NEW n \in Nat
        PROVE  [i \in DOMAIN c.text |-> <<n, c.text[i]>>] \in Seq(Tag)
    <2>1. c.text \in Seq(Nat)
      BY DEF Completion
    <2>2. PICK m \in Nat : DOMAIN c.text = 1 .. m /\ \A i \in 1 .. m : c.text[i] \in Nat
      BY <2>1, ElementOfSeq, LenProperties, Zenon
    <2>3. [i \in DOMAIN c.text |-> <<n, c.text[i]>>] \in [1 .. m -> Tag]
      BY <2>2 DEF Tag
    <2> QED
      BY <2>3, IsASeq
  <1> DEFINE N == Len(answers)
  <1>2. N \in Nat /\ DOMAIN answers = 1 .. N /\ \A s \in 1 .. N : answers[s] \in Completion
    BY LenProperties, ElementOfSeq DEF RequestTypes
  <1> HIDE DEF N
  <1>3. ASSUME NEW s \in 1 .. N PROVE TaggedPiece(s) \in Seq(Tag)
    <2>1. s - 1 \in Nat
      BY <1>2
    <2> QED
      BY <1>1, <1>2, <2>1 DEF TaggedPiece
  <1> DEFINE V == Seq(Tag)
  <1> HIDE DEF V
  <1>4. TaggedAnswers \in [1 .. N -> V]
    BY <1>2, <1>3 DEF TaggedAnswers, V
  <1>5. TaggedAnswers \in Seq(V) /\ Len(TaggedAnswers) = N
    <2>1. TaggedAnswers \in Seq(V) /\ DOMAIN TaggedAnswers = 1 .. N
      BY <1>2, <1>4, IsASeq
    <2> QED
      BY <1>2, <2>1, LenProperties
  <1>6. Tagged \in Seq(Tag)
    BY <1>1 DEF Tagged, RequestTypes
  <1> QED
    BY <1>5, <1>6 DEF V, N

\* s with x at its end, as a function.
Appended(s, x, n) == [i \in 1 .. n + 1 |-> IF i = n + 1 THEN x ELSE s[i]]

LEMMA AppendIs ==
    ASSUME NEW V, NEW s \in Seq(V), NEW x \in V, NEW n, Len(s) = n
    PROVE  Append(s, x) = Appended(s, x, n)
  <1>1. n \in Nat
    OBVIOUS
  <1>2. /\ Append(s, x) \in [1 .. n + 1 -> V]
        /\ Append(s, x)[n + 1] = x
        /\ \A i \in 1 .. n : Append(s, x)[i] = s[i]
    <2>1. /\ Append(s, x) \in Seq(V) /\ Len(Append(s, x)) = n + 1
          /\ Append(s, x)[n + 1] = x
          /\ \A i \in 1 .. n : Append(s, x)[i] = s[i]
      BY AppendProperties
    <2> QED
      BY <2>1, LenProperties
  <1>3. \A i \in 1 .. n + 1 : i = n + 1 \/ i \in 1 .. n
    BY <1>1
  <1> QED
    BY <1>2, <1>3 DEF Appended

\* The text of one more segment.
LEMMA OneMoreSegment ==
    ASSUME RequestTypes, Len(answers) = segment, answers' = Append(answers, completion)
    PROVE  TaggedAnswers' = Append(TaggedAnswers, Tagged)
  <1>1. answers \in Seq(Completion) /\ completion \in Completion /\ segment \in Nat
    BY DEF RequestTypes
  <1>2. /\ DOMAIN answers = 1 .. segment
        /\ DOMAIN answers' = 1 .. segment + 1
        /\ answers'[segment + 1] = completion
        /\ \A s \in 1 .. segment : answers'[s] = answers[s]
    BY <1>1, AppendProperties, LenProperties
  <1>3. TaggedAnswers' = [s \in 1 .. segment + 1 |->
          [i \in DOMAIN answers'[s].text |-> <<s - 1, answers'[s].text[i]>>]]
    BY <1>2 DEF TaggedAnswers, TaggedPiece
  <1>4. Append(TaggedAnswers, Tagged) =
          [s \in 1 .. segment + 1 |-> IF s = segment + 1 THEN Tagged ELSE TaggedAnswers[s]]
    <2>1. TaggedAnswers \in Seq(Seq(Tag)) /\ Len(TaggedAnswers) = segment /\ Tagged \in Seq(Tag)
      BY TaggedType, Zenon
    <2>2. Append(TaggedAnswers, Tagged) = Appended(TaggedAnswers, Tagged, segment)
      BY <2>1, AppendIs, Zenon
    <2> QED
      BY <2>2, Zenon DEF Appended
  <1>5. ASSUME NEW s \in 1 .. segment + 1
        PROVE  [i \in DOMAIN answers'[s].text |-> <<s - 1, answers'[s].text[i]>>]
                 = IF s = segment + 1 THEN Tagged ELSE TaggedAnswers[s]
    <2>1. CASE s = segment + 1
      BY <1>1, <1>2, <2>1 DEF Tagged
    <2>2. CASE s # segment + 1
      <3>1. s \in 1 .. segment
        BY <1>1, <2>2
      <3> QED
        BY <1>2, <2>2, <3>1 DEF TaggedAnswers, TaggedPiece
    <2> QED
      BY <2>1, <2>2
  <1> QED
    BY <1>3, <1>4, <1>5

\* The segments before the last stay what they were.
LEMMA AppendedPrefix ==
    ASSUME NEW V, NEW s \in Seq(V), NEW x \in V, NEW n \in Nat, n = Len(s)
    PROVE  /\ SubSeq(s, 1, n) = s
           /\ SubSeq(Append(s, x), 1, n) = s
           /\ SubSeq(Append(s, x), 1, n + 1) = Append(s, x)
  OBVIOUS

\* The pieces of all segments, with those of one more.
LEMMA OneMoreJoined ==
    ASSUME NEW s \in Seq(Seq(Tag)), NEW x \in Seq(Tag)
    PROVE  FlattenSeq(Append(s, x)) = FlattenSeq(s) \o x
  <1>1. CASE s = <<>>
    <2>1. Append(s, x) = <<x>>
      BY <1>1
    <2>2. Len(s) = 0
      BY <1>1
    <2>3. FlattenSeq(s) = s
      BY <2>2, Zenon DEF FlattenSeq
    <2>4. s \o x = x
      BY <1>1
    <2>5. FlattenSeq(<<x>>) = x
      BY FlattenSingle, Zenon
    <2> QED
      BY <2>1, <2>3, <2>4, <2>5, Zenon
  <1>2. CASE s # <<>>
    BY <1>2, FlattenAppend, Zenon
  <1> QED
    BY <1>1, <1>2

\* At first no segment is there.
LEMMA SegmentsInit ==
    ASSUME Init PROVE SegmentsInv
  <1>1. RequestTypes
    BY TypesInit
  <1>2. /\ answers = <<>> /\ segment = 0 /\ messages = <<>> /\ combined = <<>>
        /\ outcome = "none"
    BY DEF Init, RequestInit, RequestIdle
  <1>3. TaggedAnswers = <<>>
    BY <1>2 DEF TaggedAnswers
  <1>4. FlattenSeq(TaggedAnswers) = <<>>
    <2>1. Len(TaggedAnswers) = 0
      BY <1>3
    <2> QED
      BY <1>3, <2>1, Zenon DEF FlattenSeq
  <1>5. SubSeq(TaggedAnswers, 1, segment) = <<>>
    BY <1>2, <1>3
  <1> QED
    BY <1>1, <1>2, <1>4, <1>5 DEF Segments, SegmentsInv

\* Every step keeps the answer whole so far: only one that was cut is continued.
LEMMA SegmentsNext ==
    ASSUME SegmentsInv, [Next]_<<splitVars, requestVars>>
    PROVE  SegmentsInv'
  <1>1. RequestTypes'
    BY TypesNext DEF SegmentsInv
  <1>2. RequestTypes /\ Segments
    BY DEF SegmentsInv
  <1> SUFFICES Segments'
    BY <1>1 DEF SegmentsInv
  \* The steps that neither judge an answer nor hand one out.
  <1> DEFINE Keeps == UNCHANGED <<class, segment, messages, combined, answers>>
  <1>3. ASSUME Keeps, outcome' = outcome \/ outcome' # "ok",
               phase # "over" \/ (phase' = phase /\ outcome' = outcome)
        PROVE  Segments'
    <2>1. TaggedAnswers' = TaggedAnswers
      BY <1>3 DEF TaggedAnswers, TaggedPiece
    <2> QED
      BY <1>2, <1>3, <2>1 DEF Segments
  <1>4. CASE UNCHANGED requestVars
    <2>1. Keeps /\ phase' = phase /\ outcome' = outcome
      BY <1>4 DEF requestVars
    <2> QED
      BY <2>1, <1>3
  <1>5. ASSUME NEW why, Fail(why), phase # "over", why # "ok" PROVE Segments'
    BY <1>3, <1>5 DEF Fail
  <1>6. CASE AnswerWhole \/ StartStream
    <2>1. Keeps /\ phase # "over" /\ outcome' = outcome
      BY <1>6 DEF AnswerWhole, StartStream
    <2> QED
      BY <2>1, <1>3
  <1>7. CASE (\E n \in received + 1 .. Len(body) : Receive(n)) \/ EndEvent \/ TakeLine
               \/ EndOfStream
    <2>1. Keeps /\ phase # "over" /\ outcome' = outcome
      BY <1>7, Zenon DEF Receive, EndEvent, TakeLine, EndOfStream, Reading
    <2> QED
      BY <2>1, <1>3
  <1>8. CASE Judge
    <2>1. Len(answers) = segment
      BY <1>2, <1>8 DEF Segments, Judge
    <2>2. TaggedAnswers' = Append(TaggedAnswers, Tagged)
      BY <1>2, <1>8, <2>1, OneMoreSegment DEF Judge
    <2>3. /\ TaggedAnswers \in Seq(Seq(Tag)) /\ Len(TaggedAnswers) = segment
          /\ Tagged \in Seq(Tag) /\ segment \in Nat
      BY <1>2, <2>1, TaggedType DEF RequestTypes
    <2>4. combined' = FlattenSeq(TaggedAnswers')
      BY <1>2, <1>8, <2>2, <2>3, OneMoreJoined, Zenon DEF Segments, Judge
    <2>5. /\ messages = TaggedAnswers
          /\ SubSeq(TaggedAnswers', 1, segment) = TaggedAnswers
          /\ SubSeq(TaggedAnswers', 1, segment + 1) = TaggedAnswers'
      BY <1>2, <2>2, <2>3, AppendedPrefix, Zenon DEF Segments
    <2>6. /\ Len(answers') = segment + 1
          /\ answers'[segment + 1] = completion
          /\ \A s \in 1 .. segment : answers'[s] = answers[s]
      BY <1>2, <1>8, <2>1, AppendProperties DEF RequestTypes, Judge
    <2>7. outcome # "ok"
      BY <1>2, <1>8 DEF Segments, Judge
    <2>8. CASE Judgement = "continue"
      <3>1. phase' = "sending" /\ segment' = segment + 1 /\ outcome' = outcome
        BY <1>8, <2>8 DEF Judge
      <3>2. messages' = SubSeq(TaggedAnswers', 1, segment')
        BY <1>8, <2>2, <2>5, <2>8, <3>1, Zenon DEF Judge
      <3>3. completion.cut /\ completion.text # <<>>
        BY <2>8 DEF Judgement
      <3>4. \A s \in 1 .. segment' : answers'[s].cut /\ answers'[s].text # <<>>
        <4>1. \A s \in 1 .. segment + 1 : s = segment + 1 \/ s \in 1 .. segment
          BY <2>3
        <4> QED
          BY <1>2, <2>6, <3>1, <3>3, <4>1 DEF Segments
      <3> QED
        BY <2>4, <2>6, <2>7, <3>1, <3>2, <3>4 DEF Segments
    <2>9. CASE Judgement # "continue"
      <3>1. /\ phase' = "over" /\ segment' = segment /\ outcome' = Judgement
            /\ messages' = messages /\ class' = class /\ combined' = combined \o Tagged
        BY <1>8, <2>9 DEF Judge
      <3>2. messages' = SubSeq(TaggedAnswers', 1, segment')
        BY <2>5, <3>1, Zenon
      <3>3. \A s \in 1 .. segment' : answers'[s].cut /\ answers'[s].text # <<>>
        BY <1>2, <2>6, <3>1 DEF Segments
      <3>4. ASSUME outcome' = "ok", completion.cut
            PROVE  class' = "utility" /\ combined' # <<>>
        <4>1. class = "utility" /\ combined \o Tagged # <<>>
          BY <3>1, <3>4, Zenon DEF Judgement
        <4> QED
          BY <3>1, <4>1, Zenon
      <3> QED
        BY <2>4, <2>6, <3>1, <3>2, <3>3, <3>4 DEF Segments
    <2> QED
      BY <2>8, <2>9
  <1>9. ASSUME phase # "over" /\ \E why : why # "ok" /\ Fail(why) PROVE Segments'
    BY <1>5, <1>9
  <1>10. ASSUME \/ SendFails \/ AnswerMalformed \/ Overflow \/ MalformedEvent
                \/ TooManyEvents \/ Breaks \/ Incomplete \/ TimeOut
         PROVE  phase # "over" /\ \E why : why # "ok" /\ Fail(why)
    <2>1. CASE SendFails
      BY <2>1 DEF SendFails
    <2>2. CASE AnswerMalformed
      BY <2>2 DEF AnswerMalformed
    <2>3. CASE Overflow
      BY <2>3 DEF Overflow, Reading
    <2>4. CASE MalformedEvent
      BY <2>4 DEF MalformedEvent, Reading
    <2>5. CASE TooManyEvents
      BY <2>5 DEF TooManyEvents, Reading
    <2>6. CASE Breaks
      BY <2>6 DEF Breaks, Reading
    <2>7. CASE Incomplete
      BY <2>7 DEF Incomplete, Reading
    <2>8. CASE TimeOut
      BY <2>8 DEF TimeOut
    <2> QED
      BY <1>10, <2>1, <2>2, <2>3, <2>4, <2>5, <2>6, <2>7, <2>8
  <1> QED
    BY <1>4, <1>6, <1>7, <1>8, <1>9, <1>10, Zenon DEF Next, RequestNext

\* Of every request, however many segments it takes and whatever they carry,
\* an answer that is handed out is whole (invoke).
THEOREM RequestIsWholeOrRefused == Spec => []WholeOrRefused
  <1>1. ASSUME SegmentsInv PROVE WholeOrRefused
    <2>1. DOMAIN answers = 1 .. Len(answers) /\ segment \in Nat
      BY <1>1 DEF SegmentsInv, RequestTypes
    <2>2. ASSUME outcome = "ok"
          PROVE  /\ \A s \in 1 .. Len(answers) - 1 : answers[s].cut /\ answers[s].text # <<>>
                 /\ Last(answers).cut => class = "utility" /\ combined # <<>>
      BY <1>1, <2>1, <2>2 DEF SegmentsInv, Segments, Last
    <2> QED
      BY <1>1, <2>2, Zenon DEF SegmentsInv, Segments, WholeOrRefused, TaggedAnswers, TaggedPiece
  <1> QED
    BY <1>1, SegmentsInit, SegmentsNext, PTL DEF Spec

-----------------------------------------------------------------------------
(* What is read of a stream *)

DataUpTo(n) == {i \in 1 .. n : body[i] \in Data}

LineStart(n) ==
    \/ n = 0
    \/ n = 2 /\ body[1] = "bom1"
    \/ n \in 1 .. Len(body) /\ body[n] = "LF"
    \/ n \in 1 .. Len(body) - 1 /\ body[n] = "CR" /\ body[n + 1] # "LF"

Undispatched(ev) == {ev[i] : i \in DOMAIN ev}
Dispatched(t, ev) == DataUpTo(t) \ Undispatched(ev)

Separate(S) == \A d, e \in S : d < e => EmptyLineBetween(d, e)

\* The data lines of earlier events lie before an empty line, and that before
\* the lines of the event.
EventsApart(t, ev) ==
    \A d \in Dispatched(t, ev) :
        /\ EmptyLineBetween(d, t + 1)
        /\ \A e \in Undispatched(ev) : d < e /\ EmptyLineBetween(d, e)

Position(t, r, o) ==
    /\ t <= r /\ r <= Len(body)
    /\ o <=> r > 0
    /\ o /\ body[1] = "bom1" => t >= 2
    /\ LineStart(t)

HasDone(S) == \E d \in S : body[d] = "done"

ReadSoFar(t, ev, c, m) ==
    /\ Undispatched(ev) \subseteq DataUpTo(t)
    /\ EventsApart(t, ev)
    /\ Separate(Dispatched(t, ev))
    /\ IsAnswerOf(c, Dispatched(t, ev))
    /\ m <=> HasDone(Dispatched(t, ev))

StreamInv ==
    (phase = "reading" /\ ~bomSplit) =>
        /\ Position(taken, received, opened)
        /\ ReadSoFar(taken, event, completion, marked)

ReadInv == RequestTypes /\ StreamInv /\ ChunkingInvisible

BodyTokens == Data \cup LineEnds \cup {"comment", "bom1", "bom2"}

\* What the assumption on bodies says of the one that is read.
LEMMA BodyIs ==
    ASSUME WellFormed(body)
    PROVE  /\ Len(body) \in Nat /\ DOMAIN body = 1 .. Len(body)
           /\ \A i \in 1 .. Len(body) : body[i] \in BodyTokens
           /\ \A i \in 1 .. Len(body) :
                /\ body[i] = "bom1" => i = 1
                /\ body[i] = "bom2" <=> i = 2 /\ body[1] = "bom1"
                /\ i > 1 => body[i - 1] \in LineEnds \cup {"bom2"}
                              \/ body[i] \in LineEnds \cup {"bom2"}
  <1>1. body \in Seq(BodyTokens)
    BY DEF WellFormed, BodyTokens
  <1>2. /\ Len(body) \in Nat /\ DOMAIN body = 1 .. Len(body)
        /\ \A i \in 1 .. Len(body) : body[i] \in BodyTokens
    BY <1>1, ElementOfSeq, LenProperties
  <1> QED
    BY <1>2 DEF WellFormed

\* A terminator is the CR of a CR LF, or a CR or LF on its own.
LEMMA TerminatorIs ==
    ASSUME WellFormed(body), NEW e
    PROVE  e \in Terminators <=>
             /\ e \in 1 .. Len(body)
             /\ \/ body[e] = "LF" /\ (e = 1 \/ body[e - 1] # "CR")
                \/ body[e] = "CR" /\ e < Len(body)
  BY BodyIs DEF Terminators

\* An empty line between d and i is one between d and every later j.
LEMMA Widen ==
    ASSUME WellFormed(body), NEW d \in Int, NEW i \in Int, NEW j \in Int, i <= j,
           EmptyLineBetween(d, i)
    PROVE  EmptyLineBetween(d, j)
  BY TerminatorIs, BodyIs DEF EmptyLineBetween

\* Before the start of a line, every data line has its end.
LEMMA EndedBefore ==
    ASSUME WellFormed(body), NEW t \in Nat, t <= Len(body), LineStart(t),
           NEW d \in DataUpTo(t)
    PROVE  \E e \in Terminators :
             d < e /\ e <= t /\ \A x \in e .. t : body[x] \in LineEnds
  <1>1. d \in 1 .. t /\ body[d] \in {"text", "cut", "done"}
    BY DEF DataUpTo, Data, Pieces
  <1>2. t # 0 /\ t \in 1 .. Len(body)
    BY <1>1
  <1>3. CASE t = 2 /\ body[1] = "bom1"
    <2>1. body[2] = "bom2"
      BY <1>2, <1>3, BodyIs
    <2>2. d = 1 \/ d = 2
      BY <1>1, <1>3
    <2> QED
      BY <1>1, <1>3, <2>1, <2>2
  <1>4. CASE t \in Terminators /\ body[t] \in LineEnds
    <2>1. d < t
      BY <1>1, <1>2, <1>4 DEF LineEnds
    <2>2. \A x \in t .. t : body[x] \in LineEnds
      BY <1>2, <1>4
    <2> QED
      BY <1>4, <2>1, <2>2
  <1>5. CASE body[t] = "LF" /\ t > 1 /\ body[t - 1] = "CR"
    <2>1. t - 1 \in Terminators
      BY <1>2, <1>5, TerminatorIs
    <2>2. d # t /\ d # t - 1
      BY <1>1, <1>5
    <2>3. d < t - 1
      BY <1>1, <1>2, <2>2
    <2>4. \A x \in t - 1 .. t : x = t - 1 \/ x = t
      OBVIOUS
    <2>5. \A x \in t - 1 .. t : body[x] \in LineEnds
      BY <1>5, <2>4 DEF LineEnds
    <2>6. t - 1 <= t
      OBVIOUS
    <2> QED
      BY <2>1, <2>3, <2>5, <2>6
  <1> QED
    BY <1>2, <1>3, <1>4, <1>5, TerminatorIs DEF LineStart, LineEnds

\* After a line, there is the start of a line.
LEMMA AfterBoundary ==
    ASSUME WellFormed(body), NEW t \in Nat, NEW r \in Nat, t <= r, r <= Len(body),
           NEW b, IsBoundary(b, t, r)
    PROVE  /\ b[1] \in t + 1 .. r /\ b[2] \in b[1] .. r
           /\ \A x \in t + 1 .. b[1] - 1 : body[x] \notin LineEnds
           /\ \A x \in b[1] .. b[2] : body[x] \in LineEnds
           /\ LineStart(b[2])
  <1>1. PICK p \in Ends(t, r) :
          /\ \A e \in Ends(t, r) : p <= e
          /\ \/ b = <<p, p>> /\ (body[p] = "LF" \/ (p + 1 <= r /\ body[p + 1] # "LF"))
             \/ b = <<p, p + 1>> /\ body[p] = "CR" /\ p + 1 <= r /\ body[p + 1] = "LF"
    BY DEF IsBoundary
  <1>2. p \in t + 1 .. r /\ body[p] \in {"CR", "LF"}
    BY DEF Ends, LineEnds
  <1>3. \A x \in t + 1 .. p - 1 : body[x] \notin LineEnds
    BY <1>1, <1>2 DEF Ends
  <1>4. Len(body) \in Nat
    BY BodyIs
  <1>5. CASE b = <<p, p>> /\ (body[p] = "LF" \/ (p + 1 <= r /\ body[p + 1] # "LF"))
    <2>1. b[1] = p /\ b[2] = p
      BY <1>5
    <2>2. LineStart(p)
      BY <1>2, <1>4, <1>5 DEF LineStart
    <2>3. \A x \in p .. p : x = p
      BY <1>2
    <2> QED
      BY <1>2, <1>3, <2>1, <2>2, <2>3 DEF LineEnds
  <1>6. CASE b = <<p, p + 1>> /\ body[p] = "CR" /\ p + 1 <= r /\ body[p + 1] = "LF"
    <2>1. b[1] = p /\ b[2] = p + 1
      BY <1>6
    <2>2. LineStart(p + 1)
      BY <1>2, <1>4, <1>6 DEF LineStart
    <2>3. \A x \in p .. p + 1 : x = p \/ x = p + 1
      BY <1>2
    <2> QED
      BY <1>2, <1>3, <1>6, <2>1, <2>2, <2>3 DEF LineEnds
  <1> QED
    BY <1>1, <1>5, <1>6

\* The end of a line is no data.
LEMMA NoDataInEnds ==
    ASSUME NEW x, body[x] \in LineEnds PROVE body[x] \notin Data
  BY DEF LineEnds, Data, Pieces

\* An empty line lies between the lines before it and those behind it.
LEMMA EmptyLine ==
    ASSUME WellFormed(body), NEW t \in Nat, NEW r \in Nat, t <= r, r <= Len(body),
           LineStart(t), NEW b, IsBoundary(b, t, r), b[1] = t + 1
    PROVE  /\ DataUpTo(b[2]) = DataUpTo(t)
           /\ \A d \in DataUpTo(t) : EmptyLineBetween(d, b[2] + 1)
  <1>1. /\ b[2] \in t + 1 .. r
        /\ \A x \in t + 1 .. b[2] : body[x] \in LineEnds
    BY AfterBoundary
  <1>2. DataUpTo(b[2]) = DataUpTo(t)
    BY <1>1, NoDataInEnds DEF DataUpTo
  <1>3. t + 1 \in Terminators
    <2>1. t + 1 \in 1 .. Len(body) /\ Len(body) \in Nat
      BY <1>1, BodyIs
    <2>2. CASE body[t + 1] = "LF"
      <3>1. t = 0 \/ body[t] # "CR"
        <4>1. t = 2 /\ body[1] = "bom1" => body[t] = "bom2"
          BY <2>1, BodyIs
        <4> QED
          BY <2>1, <2>2, <4>1 DEF LineStart
      <3>2. t + 1 - 1 = t
        OBVIOUS
      <3> QED
        BY <2>1, <2>2, <3>1, <3>2, TerminatorIs
    <2>3. CASE body[t + 1] = "CR"
      <3>1. t + 1 < Len(body)
        BY <2>1, <2>3 DEF IsBoundary
      <3> QED
        BY <2>1, <2>3, <3>1, TerminatorIs
    <2>4. body[t + 1] \in {"CR", "LF"}
      BY <1>1 DEF LineEnds
    <2> QED
      BY <2>2, <2>3, <2>4
  <1>4. ASSUME NEW d \in DataUpTo(t) PROVE EmptyLineBetween(d, b[2] + 1)
    <2>1. PICK e \in Terminators :
            d < e /\ e <= t /\ \A x \in e .. t : body[x] \in LineEnds
      <3>1. t <= Len(body)
        BY BodyIs
      <3> QED
        BY <3>1, EndedBefore
    <2>2. e \in Int
      BY <2>1, TerminatorIs
    <2>3. \A x \in e .. t + 1 : x \in e .. t \/ x = t + 1
      BY <2>2
    <2>4. \A x \in e .. t + 1 : body[x] \in LineEnds
      BY <1>1, <2>1, <2>3
    <2>5. e < t + 1 /\ t + 1 < b[2] + 1
      BY <1>1, <2>1, <2>2
    <2> QED
      BY <1>3, <2>1, <2>4, <2>5 DEF EmptyLineBetween
  <1> QED
    BY <1>2, <1>4

\* A line that is not empty is one token.
LEMMA LineText ==
    ASSUME WellFormed(body), NEW t \in Nat, NEW r \in Nat, t <= r, r <= Len(body),
           LineStart(t), body[1] = "bom1" => t >= 2,
           NEW b, IsBoundary(b, t, r), b[1] > t + 1
    PROVE  DataUpTo(b[2]) = DataUpTo(t) \cup {i \in {t + 1} : body[i] \in Data}
  <1>1. /\ b[1] \in t + 2 .. r /\ b[2] \in b[1] .. r
        /\ \A x \in t + 1 .. b[1] - 1 : body[x] \notin LineEnds
        /\ \A x \in b[1] .. b[2] : body[x] \in LineEnds
    BY AfterBoundary
  <1>2. ~ (t = 0 /\ body[2] = "bom2") /\ ~ (t = 1 /\ body[2] = "bom2")
    <2>1. 2 \in 1 .. Len(body)
      BY <1>1, BodyIs
    <2> QED
      BY <2>1, BodyIs
  <1>3. b[1] = t + 2
    <2> SUFFICES ASSUME b[1] > t + 2 PROVE FALSE
      BY <1>1
    <2>1. t + 2 \in 1 .. Len(body) /\ t + 2 > 1 /\ t + 2 - 1 = t + 1 /\ t + 1 \in 1 .. Len(body)
      BY <1>1, BodyIs
    <2>2. body[t + 1] \notin LineEnds /\ body[t + 2] \notin LineEnds
      BY <1>1
    <2>3. body[t + 1] = "bom2" \/ body[t + 2] = "bom2"
      BY <2>1, <2>2, BodyIs
    <2>4. CASE body[t + 1] = "bom2"
      <3>1. t + 1 = 2
        BY <2>1, <2>4, BodyIs
      <3> QED
        BY <1>2, <2>4, <3>1
    <2>5. CASE body[t + 2] = "bom2"
      <3>1. t + 2 = 2
        BY <2>1, <2>5, BodyIs
      <3> QED
        BY <1>2, <2>5, <3>1
    <2> QED
      BY <2>3, <2>4, <2>5
  <1>4. \A x \in 1 .. b[2] : x \in 1 .. t \/ x = t + 1 \/ x \in b[1] .. b[2]
    BY <1>1, <1>3
  <1> QED
    BY <1>1, <1>4, NoDataInEnds DEF DataUpTo

\* The lines of an event, if it is dispatched, join those of the answer.
LEMMA Answered ==
    ASSUME RequestTypes, Undispatched(event) \subseteq DataUpTo(taken),
           EventsApart(taken, event), ~Malformed, Dispatch,
           IsAnswerOf(completion, Dispatched(taken, event)),
           marked <=> HasDone(Dispatched(taken, event))
    PROVE  /\ IsAnswerOf(completion', DataUpTo(taken))
           /\ marked' <=> HasDone(DataUpTo(taken))
  <1>1. CASE event = <<>>
    <2>1. Undispatched(event) = {}
      BY <1>1 DEF Undispatched
    <2>2. Dispatched(taken, event) = DataUpTo(taken)
      BY <2>1 DEF Dispatched
    <2>3. completion' = completion /\ (marked' <=> marked)
      BY <1>1, Zenon DEF Dispatch
    <2> QED
      BY <2>2, <2>3
  <1>2. CASE event # <<>>
    <2> DEFINE e == event[1]
               D == Dispatched(taken, event)
    <2>1. DOMAIN event = {1}
      <3>1. event \in Seq(Nat) /\ Len(event) # 0 /\ ~ (Len(event) > 1)
        BY <1>2, EmptySeq DEF RequestTypes, Malformed
      <3>2. Len(event) \in Nat /\ DOMAIN event = 1 .. Len(event)
        BY <3>1
      <3>3. Len(event) = 1
        BY <3>1, <3>2
      <3> QED
        BY <3>2, <3>3
    <2>2. Undispatched(event) = {e}
      BY <2>1 DEF Undispatched
    <2>3. e \in DataUpTo(taken)
      BY <2>2
    <2>4. DataUpTo(taken) = D \cup {e}
      BY <2>2, <2>3 DEF Dispatched
    <2>5. e \in Nat /\ body[e] \in {"text", "cut", "done"}
      BY <2>3 DEF DataUpTo, Data, Pieces
    <2>6. \A d \in D : d < e /\ d \in Nat
      BY <2>2 DEF EventsApart, Dispatched, DataUpTo
    <2>7. marked' <=> marked \/ body[e] = "done"
      BY <1>2, Zenon DEF Dispatch
    <2>8. marked' <=> HasDone(DataUpTo(taken))
      BY <2>4, <2>7 DEF HasDone
    <2> HIDE DEF e
    <2>9. CASE body[e] = "done"
      <3>1. completion' = completion
        BY <1>2, <2>9 DEF Dispatch, e, Pieces
      <3>2. {i \in D \cup {e} : body[i] \in Pieces} = {i \in D : body[i] \in Pieces}
        BY <2>9 DEF Pieces
      <3>3. (\E i \in D \cup {e} : body[i] = "cut") <=> \E i \in D : body[i] = "cut"
        BY <2>9
      <3> HIDE DEF D
      <3>4. IsAnswerOf(completion, D \cup {e})
        BY <3>2, <3>3, Zenon DEF IsAnswerOf, D
      <3> QED
        BY <2>4, <2>8, <3>1, <3>4, Zenon
    <2>10. CASE body[e] \in Pieces
      <3>1. completion' = [text |-> Append(completion.text, e),
                           cut |-> completion.cut \/ body[e] = "cut"]
        BY <1>2, <2>10, Zenon DEF Dispatch, e
      <3>2. completion.text \in Seq(Nat)
        BY DEF RequestTypes, Completion
      <3>3. PICK t : t = completion.text
        OBVIOUS
      <3>4. PICK n \in Nat :
              /\ DOMAIN t = 1 .. n /\ DOMAIN Append(t, e) = 1 .. n + 1
              /\ Append(t, e)[n + 1] = e
              /\ \A i \in 1 .. n : Append(t, e)[i] = t[i]
        <4>1. DOMAIN t = 1 .. Len(t) /\ Len(t) \in Nat
          BY <3>2, <3>3, LenProperties
        <4>2. /\ Append(t, e) \in Seq(Nat) /\ Len(Append(t, e)) = Len(t) + 1
              /\ Append(t, e)[Len(t) + 1] = e
              /\ \A i \in 1 .. Len(t) : Append(t, e)[i] = t[i]
          BY <2>5, <3>2, <3>3, AppendProperties
        <4>3. DOMAIN Append(t, e) = 1 .. Len(t) + 1
          BY <4>1, <4>2, LenProperties
        <4> QED
          BY <4>1, <4>2, <4>3
      <3>5. \A i \in 1 .. n + 1 : i = n + 1 \/ i \in 1 .. n
        BY <3>4
      <3>6. /\ ToSet(t) = {i \in D : body[i] \in Pieces}
            /\ \A x, y \in DOMAIN t : x < y => t[x] < t[y]
        BY <3>3, Zenon DEF IsAnswerOf
      <3>7. completion'.text = Append(t, e)
        BY <3>1, <3>3
      <3> HIDE DEF D
      <3>8. ToSet(Append(t, e)) = ToSet(t) \cup {e}
        BY <3>4, <3>5 DEF ToSet
      <3>9. ToSet(Append(t, e)) = {i \in D \cup {e} : body[i] \in Pieces}
        BY <2>10, <3>6, <3>8
      <3>10. \A x \in 1 .. n : t[x] < e
        BY <2>6, <3>4, <3>6 DEF ToSet, D
      <3>11. ASSUME NEW x \in 1 .. n + 1, NEW y \in 1 .. n + 1, x < y
             PROVE  Append(t, e)[x] < Append(t, e)[y]
        <4>1. x \in 1 .. n
          BY <3>4, <3>11
        <4>2. CASE y = n + 1
          BY <3>4, <3>10, <4>1, <4>2
        <4>3. CASE y \in 1 .. n
          BY <3>4, <3>6, <3>11, <4>1, <4>3
        <4> QED
          BY <3>5, <4>2, <4>3
      <3>12. completion'.cut <=> \E i \in D \cup {e} : body[i] = "cut"
        <4>1. completion.cut <=> \E i \in D : body[i] = "cut"
          BY DEF IsAnswerOf, D
        <4>2. completion'.cut = (completion.cut \/ body[e] = "cut")
          BY <3>1
        <4> QED
          BY <4>1, <4>2
      <3>13. completion'.cut \in BOOLEAN
        BY <3>1
      <3>14. completion'.cut = \E i \in D \cup {e} : body[i] = "cut"
        BY <3>12, <3>13
      <3>15. IsAnswerOf(completion', D \cup {e})
        BY <3>4, <3>7, <3>9, <3>11, <3>14 DEF IsAnswerOf
      <3> QED
        BY <2>4, <2>8, <3>15, Zenon
    <2> QED
      BY <2>5, <2>9, <2>10 DEF Pieces
  <1> QED
    BY <1>1, <1>2

\* With the event dispatched, all events are still an empty line apart.
LEMMA EventSeparate ==
    ASSUME RequestTypes, Undispatched(event) \subseteq DataUpTo(taken),
           EventsApart(taken, event), ~Malformed, Separate(Dispatched(taken, event))
    PROVE  Separate(DataUpTo(taken))
  <1>1. event \in Seq(Nat) /\ taken \in Nat
    BY DEF RequestTypes
  <1>2. \A i, j \in DOMAIN event : i = j
    BY <1>1 DEF Malformed
  <1>3. \A d, e \in Undispatched(event) : d = e
    BY <1>2 DEF Undispatched
  <1> SUFFICES ASSUME NEW d \in DataUpTo(taken), NEW e \in DataUpTo(taken), d < e
               PROVE  EmptyLineBetween(d, e)
    BY DEF Separate
  <1>4. d \in Nat /\ e \in Nat
    BY DEF DataUpTo
  <1>5. CASE d \in Dispatched(taken, event) /\ e \in Dispatched(taken, event)
    BY <1>5 DEF Separate
  <1>6. CASE d \in Dispatched(taken, event) /\ e \in Undispatched(event)
    BY <1>6 DEF EventsApart
  <1>7. CASE d \in Undispatched(event) /\ e \in Dispatched(taken, event)
    <2>1. e < d
      BY <1>7 DEF EventsApart
    <2> QED
      BY <1>4, <2>1
  <1>8. CASE d \in Undispatched(event) /\ e \in Undispatched(event)
    <2>1. d = e
      BY <1>3, <1>8
    <2> QED
      BY <1>4, <2>1
  <1> QED
    BY <1>5, <1>6, <1>7, <1>8 DEF Dispatched

\* At its end, the data lines of a body are those that were taken.
LEMMA AllTaken ==
    ASSUME WellFormed(body), NEW t \in Nat, t <= Len(body), LineStart(t),
           Boundary(t, Len(body)) = <<>>
    PROVE  DataLines = DataUpTo(t)
  <1>1. Len(body) \in Nat /\ DOMAIN body = 1 .. Len(body)
    BY BodyIs
  <1>2. \A e \in Ends(t, Len(body)) : e = Len(body) /\ body[e] = "CR"
    BY <1>1, BoundaryIs
  <1>3. ASSUME NEW e \in Terminators PROVE e <= t
    <2> SUFFICES ASSUME e > t PROVE FALSE
      BY <1>1, TerminatorIs
    <2>1. e \in Ends(t, Len(body))
      BY <1>1, TerminatorIs DEF Ends, LineEnds
    <2> QED
      BY <1>2, <2>1, TerminatorIs
  <1>4. \A d \in DataUpTo(t) : d \in DataLines
    BY <1>1, EndedBefore DEF DataLines, DataUpTo
  <1>5. \A d \in DataLines : d \in DataUpTo(t)
    BY <1>1, <1>3, TerminatorIs DEF DataLines, DataUpTo
  <1> QED
    BY <1>4, <1>5

\* What is said of a body stays while the body does.
LEMMA SameBody ==
    ASSUME body' = body
    PROVE  /\ DataLines' = DataLines
           /\ OneEventEach' <=> OneEventEach
           /\ IsAnswerOf(completion, DataLines)' <=> IsAnswerOf(completion', DataLines)
           /\ Position(taken, received, opened)' <=> Position(taken', received', opened')
           /\ ReadSoFar(taken, event, completion, marked)'
                <=> ReadSoFar(taken', event', completion', marked')
  <1>1. Terminators' = Terminators
    BY DEF Terminators
  <1>2. DataLines' = DataLines
    BY <1>1 DEF DataLines
  <1>3. OneEventEach' <=> OneEventEach
    BY <1>1, <1>2 DEF OneEventEach, EmptyLineBetween
  <1>4. IsAnswerOf(completion, DataLines)' <=> IsAnswerOf(completion', DataLines)
    BY <1>2, Zenon DEF IsAnswerOf
  <1>5. Position(taken, received, opened)' <=> Position(taken', received', opened')
    BY Zenon DEF Position, LineStart
  <1>6. DataUpTo(taken)' = DataUpTo(taken')
    BY Zenon DEF DataUpTo
  <1>7. Dispatched(taken, event)' = Dispatched(taken', event')
    BY <1>6, Zenon DEF Dispatched, Undispatched
  <1>8. EventsApart(taken, event)' <=> EventsApart(taken', event')
    BY <1>1, <1>7 DEF EventsApart, EmptyLineBetween, Undispatched
  <1>9. Separate(Dispatched(taken, event))' <=> Separate(Dispatched(taken', event'))
    BY <1>1, <1>7 DEF Separate, EmptyLineBetween
  <1>10. IsAnswerOf(completion, Dispatched(taken, event))'
           <=> IsAnswerOf(completion', Dispatched(taken', event'))
    BY <1>7, Zenon DEF IsAnswerOf
  <1>11. HasDone(Dispatched(taken, event))' <=> HasDone(Dispatched(taken', event'))
    BY <1>7, Zenon DEF HasDone
  <1>12. (Undispatched(event) \subseteq DataUpTo(taken))'
           <=> Undispatched(event') \subseteq DataUpTo(taken')
    BY <1>6, Zenon DEF Undispatched
  <1> QED
    BY <1>2, <1>3, <1>4, <1>5, <1>8, <1>9, <1>10, <1>11, <1>12, Zenon DEF ReadSoFar

-----------------------------------------------------------------------------
(* The steps of reading *)

LEMMA ReadInit ==
    ASSUME Init PROVE ReadInv
  <1>1. phase # "reading" /\ phase # "judging"
    BY DEF Init, RequestInit, RequestIdle
  <1> QED
    BY <1>1, TypesInit DEF ReadInv, StreamInv, ChunkingInvisible

LEMMA StartRead ==
    ASSUME ReadInv, RequestTypes', StartStream PROVE StreamInv'
  <1>1. taken' = 0 /\ received' = 0 /\ opened' = FALSE /\ event' = <<>> /\ marked' = FALSE
    BY DEF StartStream
  <1>2. completion'.text = <<>> /\ completion'.cut = FALSE
    BY DEF StartStream, Nothing
  <1>3. WellFormed(body)'
    BY DEF RequestTypes
  <1>4. Len(body') \in Nat
    BY <1>3 DEF WellFormed
  <1>5. Position(taken, received, opened)'
    BY <1>1, <1>4 DEF Position, LineStart
  <1>6. DataUpTo(taken)' = {} /\ Undispatched(event)' = {}
    BY <1>1 DEF DataUpTo, Undispatched
  <1>7. Dispatched(taken, event)' = {}
    BY <1>6 DEF Dispatched
  <1>8. IsAnswerOf(completion, Dispatched(taken, event))'
    <2>1. ToSet(completion'.text) = {} /\ DOMAIN completion'.text = {}
      BY <1>2 DEF ToSet
    <2> QED
      BY <1>2, <1>7, <2>1 DEF IsAnswerOf
  <1>9. ReadSoFar(taken, event, completion, marked)'
    BY <1>1, <1>6, <1>7, <1>8, Zenon DEF ReadSoFar, EventsApart, Separate, HasDone
  <1> QED
    BY <1>5, <1>9, Zenon DEF StreamInv

LEMMA ReceiveRead ==
    ASSUME ReadInv, NEW n \in received + 1 .. Len(body), Receive(n) PROVE StreamInv'
  <1> SUFFICES ASSUME ~bomSplit' PROVE StreamInv'
    BY DEF StreamInv
  <1>1. /\ ~bomSplit /\ phase = "reading" /\ body' = body /\ event' = event
        /\ completion' = completion /\ marked' = marked /\ opened' = TRUE /\ received' = n
    BY DEF Receive, Reading
  <1>2. /\ RequestTypes /\ WellFormed(body) /\ taken \in Nat /\ received \in Nat
        /\ Position(taken, received, opened)
        /\ ReadSoFar(taken, event, completion, marked)
    BY <1>1 DEF ReadInv, StreamInv, RequestTypes
  <1>3. Len(body) \in Nat
    BY <1>2, BodyIs
  <1>4. CASE opened \/ body[1] # "bom1"
    <2>1. taken' = taken
      BY <1>4 DEF Receive
    <2>2. Position(taken', received', opened')
      BY <1>1, <1>2, <1>3, <1>4, <2>1 DEF Position
    <2> QED
      BY <1>1, <1>2, <2>1, <2>2, SameBody, Zenon DEF StreamInv
  <1>5. CASE ~opened /\ body[1] = "bom1"
    <2>1. n > 1 /\ taken' = 2 /\ taken = 0
      <3>1. n # 1 /\ taken' = IF n > 1 THEN 2 ELSE taken
        BY <1>5 DEF Receive
      <3>2. n \in Nat /\ n > 0
        BY <1>2, <1>3
      <3>3. taken = 0
        BY <1>2, <1>5 DEF Position
      <3> QED
        BY <3>1, <3>2, <3>3
    <2>2. body[1] = "bom1" /\ body[2] = "bom2"
      BY <1>2, <1>3, <1>5, <2>1, BodyIs
    <2>3. Position(taken', received', opened')
      BY <1>1, <1>2, <1>3, <1>5, <2>1 DEF Position, LineStart
    <2>4. DataUpTo(0) = {} /\ DataUpTo(2) = {}
      <3>1. \A x \in 1 .. 2 : x = 1 \/ x = 2
        OBVIOUS
      <3> QED
        BY <2>2, <3>1 DEF DataUpTo, Data, Pieces
    <2>5. Undispatched(event) = {}
      BY <1>2, <2>1, <2>4 DEF ReadSoFar
    <2>6. Dispatched(taken', event) = Dispatched(taken, event) /\ Dispatched(taken', event) = {}
      BY <2>1, <2>4, <2>5 DEF Dispatched
    <2>7. ReadSoFar(taken', event', completion', marked')
      BY <1>1, <1>2, <2>5, <2>6, Zenon DEF ReadSoFar, EventsApart, Separate
    <2> QED
      BY <1>1, <2>3, <2>7, SameBody, Zenon DEF StreamInv
  <1> QED
    BY <1>4, <1>5

LEMMA EndEventRead ==
    ASSUME ReadInv, EndEvent PROVE StreamInv'
  <1> SUFFICES ASSUME ~bomSplit PROVE StreamInv'
    BY DEF StreamInv, EndEvent
  <1>1. /\ phase = "reading" /\ body' = body /\ event' = <<>>
        /\ opened' = opened /\ received' = received /\ ~Malformed /\ Dispatch
        /\ Boundary(taken, received) # <<>>
    BY DEF EndEvent, Reading, HasLine
  <1>2. /\ RequestTypes /\ WellFormed(body) /\ taken \in Nat /\ received \in Nat
        /\ Position(taken, received, opened)
        /\ ReadSoFar(taken, event, completion, marked)
    BY <1>1 DEF ReadInv, StreamInv, RequestTypes
  <1>3. PICK b : b = Boundary(taken, received)
    OBVIOUS
  <1>4. IsBoundary(b, taken, received) /\ b[1] = taken + 1 /\ taken' = b[2]
    BY <1>1, <1>2, <1>3, BoundaryIs DEF EndEvent
  <1>5. taken <= received /\ received <= Len(body) /\ LineStart(taken)
    BY <1>2 DEF Position
  <1>6. b[1] \in taken + 1 .. received /\ b[2] \in b[1] .. received /\ LineStart(b[2])
    BY <1>2, <1>4, <1>5, AfterBoundary
  <1>7. /\ DataUpTo(b[2]) = DataUpTo(taken)
        /\ \A d \in DataUpTo(taken) : EmptyLineBetween(d, b[2] + 1)
    BY <1>2, <1>4, <1>5, EmptyLine
  <1>8. Position(taken', received', opened')
    BY <1>1, <1>2, <1>4, <1>6 DEF Position
  <1>9. Undispatched(event') = {}
    BY <1>1 DEF Undispatched
  <1>10. Dispatched(taken', event') = DataUpTo(taken)
    BY <1>4, <1>7, <1>9 DEF Dispatched
  <1>11. IsAnswerOf(completion', DataUpTo(taken)) /\ (marked' <=> HasDone(DataUpTo(taken)))
    BY <1>1, <1>2, Answered, Zenon DEF ReadSoFar
  <1>12. EventsApart(taken', event')
    BY <1>4, <1>7, <1>9, <1>10, Zenon DEF EventsApart
  <1>13. Separate(DataUpTo(taken))
    BY <1>1, <1>2, EventSeparate, Zenon DEF ReadSoFar
  <1>14. ReadSoFar(taken', event', completion', marked')
    BY <1>9, <1>10, <1>11, <1>12, <1>13, Zenon DEF ReadSoFar
  <1> QED
    BY <1>1, <1>8, <1>14, SameBody, Zenon DEF StreamInv

LEMMA TakeLineRead ==
    ASSUME ReadInv, TakeLine PROVE StreamInv'
  <1> SUFFICES ASSUME ~bomSplit PROVE StreamInv'
    BY DEF StreamInv, TakeLine
  <1>1. /\ phase = "reading" /\ body' = body /\ completion' = completion /\ marked' = marked
        /\ opened' = opened /\ received' = received
        /\ Boundary(taken, received) # <<>>
        /\ event' = IF body[taken + 1] \in Data THEN Append(event, taken + 1) ELSE event
    BY DEF TakeLine, Reading, HasLine
  <1>2. /\ RequestTypes /\ WellFormed(body) /\ taken \in Nat /\ received \in Nat
        /\ event \in Seq(Nat)
        /\ Position(taken, received, opened)
        /\ ReadSoFar(taken, event, completion, marked)
    BY <1>1 DEF ReadInv, StreamInv, RequestTypes
  <1>3. PICK b : b = Boundary(taken, received)
    OBVIOUS
  <1>4. IsBoundary(b, taken, received) /\ b[1] > taken + 1 /\ taken' = b[2]
    BY <1>1, <1>2, <1>3, BoundaryIs DEF TakeLine
  <1>5. taken <= received /\ received <= Len(body) /\ LineStart(taken)
    BY <1>2 DEF Position
  <1>6. b[1] \in taken + 1 .. received /\ b[2] \in b[1] .. received /\ LineStart(b[2])
    BY <1>2, <1>4, <1>5, AfterBoundary
  <1>7. body[1] = "bom1" => taken >= 2
    BY <1>2, <1>6 DEF Position
  <1> DEFINE new == {i \in {taken + 1} : body[i] \in Data}
  <1>8. DataUpTo(b[2]) = DataUpTo(taken) \cup new
    BY <1>2, <1>4, <1>5, <1>7, LineText
  <1>9. Position(taken', received', opened')
    BY <1>1, <1>2, <1>4, <1>6 DEF Position
  <1>10. Undispatched(event') = Undispatched(event) \cup new
    <2>1. CASE body[taken + 1] \in Data
      <3>1. /\ Len(event) \in Nat /\ DOMAIN event = 1 .. Len(event)
            /\ DOMAIN event' = 1 .. Len(event) + 1
            /\ event'[Len(event) + 1] = taken + 1
            /\ \A i \in 1 .. Len(event) : event'[i] = event[i]
        BY <1>1, <1>2, <2>1, AppendProperties, LenProperties
      <3>2. \A i \in 1 .. Len(event) + 1 : i = Len(event) + 1 \/ i \in 1 .. Len(event)
        BY <3>1
      <3>3. new = {taken + 1}
        BY <2>1
      <3> QED
        BY <3>1, <3>2, <3>3 DEF Undispatched
    <2>2. CASE body[taken + 1] \notin Data
      BY <1>1, <2>2
    <2> QED
      BY <2>1, <2>2
  <1>11. \A i \in DataUpTo(taken) : i <= taken
    BY <1>2 DEF DataUpTo
  <1>12. new \cap DataUpTo(taken) = {}
    BY <1>2, <1>11
  <1>13. Dispatched(taken', event') = Dispatched(taken, event)
    BY <1>4, <1>8, <1>10, <1>12 DEF Dispatched
  <1>14. Undispatched(event') \subseteq DataUpTo(taken')
    BY <1>2, <1>4, <1>8, <1>10 DEF ReadSoFar
  <1>15. EventsApart(taken', event')
    <2> SUFFICES ASSUME NEW d \in Dispatched(taken, event)
                 PROVE  /\ EmptyLineBetween(d, b[2] + 1)
                        /\ \A e \in Undispatched(event') : d < e /\ EmptyLineBetween(d, e)
      BY <1>4, <1>13, Zenon DEF EventsApart
    <2>1. /\ EmptyLineBetween(d, taken + 1)
          /\ \A e \in Undispatched(event) : d < e /\ EmptyLineBetween(d, e)
      BY <1>2 DEF ReadSoFar, EventsApart
    <2>2. d \in Nat /\ d <= taken
      BY <1>11 DEF Dispatched, DataUpTo
    <2>3. EmptyLineBetween(d, b[2] + 1)
      <3>1. taken + 1 \in Int /\ b[2] + 1 \in Int /\ taken + 1 <= b[2] + 1 /\ d \in Int
        BY <1>2, <1>6, <2>2
      <3> QED
        BY <1>2, <2>1, <3>1, Widen
    <2>4. \A e \in new : e = taken + 1
      OBVIOUS
    <2>5. d < taken + 1
      BY <1>2, <2>2
    <2> QED
      BY <1>10, <2>1, <2>3, <2>4, <2>5
  <1>16. ReadSoFar(taken', event', completion', marked')
    BY <1>1, <1>2, <1>13, <1>14, <1>15, Zenon DEF ReadSoFar
  <1> QED
    BY <1>1, <1>9, <1>16, SameBody, Zenon DEF StreamInv

LEMMA EndOfStreamRead ==
    ASSUME ReadInv, EndOfStream PROVE ChunkingInvisible'
  <1> SUFFICES ASSUME ~bomSplit PROVE ChunkingInvisible'
    BY DEF ChunkingInvisible, EndOfStream
  <1>1. /\ phase = "reading" /\ body' = body /\ ~Malformed /\ Dispatch /\ marked'
        /\ Boundary(taken, received) = <<>> /\ received = Len(body)
    BY DEF EndOfStream, Reading, HasLine
  <1>2. /\ RequestTypes /\ WellFormed(body) /\ taken \in Nat
        /\ Position(taken, received, opened)
        /\ ReadSoFar(taken, event, completion, marked)
    BY <1>1 DEF ReadInv, StreamInv, RequestTypes
  <1>3. taken <= Len(body) /\ LineStart(taken)
    BY <1>1, <1>2 DEF Position
  <1>4. DataLines = DataUpTo(taken)
    BY <1>1, <1>2, <1>3, AllTaken
  <1>5. IsAnswerOf(completion', DataLines) /\ (marked' <=> HasDone(DataLines))
    BY <1>1, <1>2, <1>4, Answered, Zenon DEF ReadSoFar
  <1>6. Separate(DataLines)
    BY <1>1, <1>2, <1>4, EventSeparate, Zenon DEF ReadSoFar
  <1>7. OneEventEach /\ \E i \in DataLines : body[i] = "done"
    BY <1>1, <1>5, <1>6, Zenon DEF OneEventEach, Separate, HasDone
  <1> QED
    BY <1>1, <1>5, <1>7, SameBody, Zenon DEF ChunkingInvisible

LEMMA ReadNext ==
    ASSUME ReadInv, [Next]_<<splitVars, requestVars>>
    PROVE  ReadInv'
  <1>1. RequestTypes'
    BY TypesNext DEF ReadInv
  <1> SUFFICES StreamInv' /\ ChunkingInvisible'
    BY <1>1 DEF ReadInv
  <1>2. CASE UNCHANGED requestVars
    <2>1. /\ UNCHANGED <<phase, class, bomSplit, body, completion>>
          /\ UNCHANGED <<taken, received, opened, event, marked>>
      BY <1>2 DEF requestVars, stream
    <2>2. StreamInv /\ ChunkingInvisible
      BY DEF ReadInv
    <2>3. StreamInv'
      BY <2>1, <2>2, SameBody, Zenon DEF StreamInv
    <2> QED
      BY <2>1, <2>2, <2>3, SameBody, Zenon DEF ChunkingInvisible
  <1>3. ASSUME phase' \notin {"reading", "judging"} PROVE StreamInv' /\ ChunkingInvisible'
    BY <1>3 DEF StreamInv, ChunkingInvisible
  <1>4. ASSUME NEW why, Fail(why) PROVE phase' \notin {"reading", "judging"}
    BY <1>4 DEF Fail
  <1>5. CASE AnswerWhole
    BY <1>5 DEF AnswerWhole, StreamInv, ChunkingInvisible
  <1>6. ASSUME StreamInv', phase' = "reading" PROVE StreamInv' /\ ChunkingInvisible'
    BY <1>6 DEF ChunkingInvisible
  <1>7. CASE StartStream
    <2>1. phase' = "reading"
      BY <1>7 DEF StartStream
    <2> QED
      BY <1>1, <1>6, <1>7, <2>1, StartRead
  <1>8. ASSUME NEW n \in received + 1 .. Len(body), Receive(n)
        PROVE  StreamInv' /\ ChunkingInvisible'
    <2>1. phase' = "reading"
      BY <1>8 DEF Receive, Reading
    <2> QED
      BY <1>6, <1>8, <2>1, ReceiveRead
  <1>9. CASE EndEvent
    <2>1. phase' = "reading"
      BY <1>9 DEF EndEvent, Reading
    <2> QED
      BY <1>6, <1>9, <2>1, EndEventRead
  <1>10. CASE TakeLine
    <2>1. phase' = "reading"
      BY <1>10 DEF TakeLine, Reading
    <2> QED
      BY <1>6, <1>10, <2>1, TakeLineRead
  <1>11. CASE EndOfStream
    <2>1. phase' = "judging"
      BY <1>11 DEF EndOfStream
    <2> QED
      BY <1>11, <2>1, EndOfStreamRead DEF StreamInv
  <1>12. CASE Judge
    <2>1. phase' \notin {"reading", "judging"}
      BY <1>12 DEF Judge
    <2> QED
      BY <2>1, <1>3
  <1>13. ASSUME NEW why, Fail(why) PROVE StreamInv' /\ ChunkingInvisible'
    BY <1>3, <1>4, <1>13
  <1> QED
    BY <1>2, <1>5, <1>7, <1>8, <1>9, <1>10, <1>11, <1>12, <1>13, Zenon
       DEF Next, RequestNext, SendFails, AnswerMalformed, Overflow, MalformedEvent,
           TooManyEvents, Breaks, Incomplete, TimeOut

\* Of every body and every way the network cuts it into chunks, what is read
\* is what the whole body says, and is only accepted with its end marker
\* (read_stream).
THEOREM RequestChunkingIsInvisible == Spec => []ChunkingInvisible
  <1>1. ReadInv => ChunkingInvisible
    BY DEF ReadInv
  <1> QED
    BY <1>1, ReadInit, ReadNext, PTL DEF Spec

-----------------------------------------------------------------------------
(* Texts *)

\* Texts of lines between a and b.
Within(a, b) ==
    {t \in [first : Int, last : Int] :
        a <= t.first /\ t.first <= t.last + 1 /\ t.last <= b}

\* A text has the ends it was made with.
LEMMA TextIs ==
    ASSUME NEW a \in Int, NEW b \in Int
    PROVE  /\ Text(a, b) \in [first : Int, last : Int]
           /\ Text(a, b).first = a /\ Text(a, b).last = b
           /\ LinesOf(Text(a, b)) = a .. b
  BY DEF Text, LinesOf

SourceOK ==
    /\ source \in Seq([size : Nat, def : BOOLEAN, key : BOOLEAN])
    /\ Len(source) \in Nat \ {0}

\* Every line of the source has a length.
LEMMA SourceIs ==
    ASSUME SourceOK
    PROVE  /\ Len(source) \in Nat \ {0} /\ DOMAIN source = 1 .. Len(source)
           /\ \A i \in 1 .. Len(source) : source[i].size \in Nat
  <1>1. \A i \in 1 .. Len(source) : source[i] \in [size : Nat, def : BOOLEAN, key : BOOLEAN]
    BY ElementOfSeq DEF SourceOK
  <1> QED
    BY <1>1, LenProperties DEF SourceOK

\* The recursive function that counts characters does so.
LEMMA CharsAre ==
    ASSUME SourceOK
    PROVE  /\ Chars \in [0 .. Len(source) -> Nat]
           /\ \A i \in 1 .. Len(source) : Chars[i] = Chars[i - 1] + source[i].size + 1
  <1> DEFINE n == Len(source)
             first == 0
             next(x, i) == x + source[i].size + 1
             E(g) == [i \in 0 .. n |-> IF i = 0 THEN first ELSE next(g[i - 1], i)]
             u == CHOOSE x : x = E(x)
             step == [i \in 1 .. n |-> [x \in Nat |-> next(x, i)]]
  <1>1. /\ n \in Nat /\ n \in Int /\ first \in Nat
        /\ \A i \in 1 .. n : \A x \in Nat : next(x, i) \in Nat
    BY SourceIs
  <1>2. Chars = u
    BY Zenon DEF Chars
  <1>0. \A g : E(g) = [i \in 0 .. n |-> IF i = 0 THEN first ELSE next(g[i - 1], i)]
    BY Zenon
  <1> HIDE DEF first, next, E
  <1>3. \A i \in 1 .. n : \A x \in Nat : step[i][x] = next(x, i) /\ step[i][x] \in Nat
    BY <1>1
  <1> HIDE DEF step, n
  <1>14. n \in Nat
    BY <1>1
  <1>4. PICK a \in Int : a = 0 /\ a \in Nat
    OBVIOUS
  <1>5. PICK g \in Iterations(Nat, a, n, first, step) : TRUE
    <2>1. \A i \in a + 1 .. n : \A x \in Nat : step[i][x] \in Nat
      BY <1>3, <1>4
    <2>2. Iterations(Nat, a, n, first, step) # {}
      BY <1>1, <1>4, <2>1, Recursion, Zenon
    <2> QED
      BY <2>2, Zenon
  <1>6. g \in [0 .. n -> Nat] /\ g[0] = first /\ \A i \in 1 .. n : g[i] = step[i][g[i - 1]]
    BY <1>1, <1>4, <1>5 DEF Iterations
  <1>7. ASSUME NEW i \in 1 .. n PROVE g[i] = next(g[i - 1], i)
    <2>1. i - 1 \in 0 .. n
      BY <1>1
    <2>2. g[i - 1] \in Nat
      BY <1>6, <2>1
    <2> QED
      BY <2>2, <1>3, <1>6
  <1>8. g = E(g)
    <2>1. \A i \in 0 .. n : i = 0 \/ i \in 1 .. n
      BY <1>14
    <2>2. \A i \in 0 .. n : g[i] = IF i = 0 THEN first ELSE next(g[i - 1], i)
      BY <1>6, <1>7, <2>1, Zenon
    <2>3. g = [i \in 0 .. n |-> g[i]]
      BY <1>6
    <2> QED
      BY <1>0, <2>2, <2>3
  <1>9. u = E(u)
    BY <1>8, Zenon
  <1> HIDE DEF u
  <1>10. u[0] = first /\ \A i \in 1 .. n : u[i] = next(u[i - 1], i)
    BY <1>0, <1>9, <1>14
  <1> DEFINE S == {i \in Int : u[i] \in Nat}
  <1>11. a .. n \subseteq S
    <2>1. a \in S /\ \A i \in a + 1 .. n : i - 1 \in S => i \in S
      BY <1>1, <1>4, <1>10
    <2> HIDE DEF S
    <2> QED
      BY <1>1, <1>4, <2>1, IntervalInduction, Zenon
  <1>12. u \in [0 .. n -> Nat]
    BY <1>0, <1>4, <1>9, <1>11
  <1> QED
    BY <1>2, <1>10, <1>12 DEF n, first, next

\* More lines have more characters, one at least for each.
LEMMA CharsIncrease ==
    ASSUME SourceOK, NEW a \in 0 .. Len(source), NEW b \in a .. Len(source)
    PROVE  Chars[b] >= Chars[a] + (b - a)
  <1> DEFINE S == {i \in a .. b : Chars[i] >= Chars[a] + (i - a)}
  <1>1. a \in S
    BY CharsAre, SourceIs
  <1>2. ASSUME NEW i \in a + 1 .. b, i - 1 \in S PROVE i \in S
    <2>1. i \in 1 .. Len(source) /\ i - 1 \in 0 .. Len(source) /\ i \in 0 .. Len(source)
      BY SourceIs
    <2>2. /\ Chars[i] = Chars[i - 1] + source[i].size + 1
          /\ Chars[i] \in Nat /\ Chars[i - 1] \in Nat /\ Chars[a] \in Nat
          /\ source[i].size \in Nat
      BY <2>1, CharsAre, SourceIs
    <2>3. Chars[i - 1] >= Chars[a] + (i - 1 - a)
      BY <1>2
    <2> QED
      BY <2>2, <2>3
  <1>3. a .. b \subseteq S
    <2>1. a \in Int /\ b \in Int
      OBVIOUS
    <2> HIDE DEF S
    <2> QED
      BY <1>1, <1>2, <2>1, IntervalInduction
  <1>4. b \in a .. b
    BY SourceIs
  <1> QED
    BY <1>3, <1>4

\* A text without characters has no line that is not blank.
LEMMA SizeIs ==
    ASSUME SourceOK, NEW t \in Within(1, Len(source))
    PROVE  /\ Size(t) \in Nat
           /\ Size(t) = 0 => \A i \in LinesOf(t) : source[i].size = 0
  <1>1. /\ t.first \in Int /\ t.last \in Int /\ 1 <= t.first /\ t.first <= t.last + 1
        /\ t.last <= Len(source)
    BY DEF Within
  <1>2. CASE Empty(t)
    BY <1>1, <1>2 DEF Empty, Size, LinesOf
  <1>3. CASE ~Empty(t)
    <2>1. /\ t.first - 1 \in 0 .. Len(source) /\ t.last \in t.first - 1 .. Len(source)
          /\ t.last \in 0 .. Len(source) /\ t.first \in 1 .. Len(source)
          /\ t.first <= t.last
      BY <1>1, <1>3, SourceIs DEF Empty
    <2>2. Chars[t.last] >= Chars[t.first - 1] + (t.last - (t.first - 1))
      BY <2>1, CharsIncrease
    <2>3. Size(t) = Chars[t.last] - Chars[t.first - 1] - 1
      BY <1>3 DEF Size
    <2>4. Chars[t.last] \in Nat /\ Chars[t.first - 1] \in Nat
      BY <2>1, CharsAre
    <2>5. PICK a \in Nat : a = Chars[t.first - 1]
      BY <2>4
    <2>6. PICK b \in Nat : b = Chars[t.last]
      BY <2>4
    <2>7. b >= a + (t.last - (t.first - 1)) /\ Size(t) = b - a - 1
      BY <2>2, <2>3, <2>5, <2>6, Zenon
    <2>8. b > a /\ (b - a - 1 = 0 => t.first = t.last)
      <3>1. PICK f \in Int : f = t.first
        BY <1>1
      <3>2. PICK l \in Int : l = t.last
        BY <1>1
      <3>3. b >= a + (l - (f - 1)) /\ f <= l
        BY <2>1, <2>7, <3>1, <3>2, Zenon
      <3>4. b > a /\ (b - a - 1 = 0 => f = l)
        BY <3>3
      <3> QED
        BY <3>1, <3>2, <3>4, Zenon
    <2>9. Size(t) \in Nat
      BY <2>7, <2>8
    <2>10. ASSUME Size(t) = 0, NEW i \in LinesOf(t) PROVE source[i].size = 0
      <3>1. t.first = t.last
        BY <2>7, <2>8, <2>10
      <3>2. i = t.first /\ i = t.last
        BY <1>1, <3>1 DEF LinesOf
      <3>3. b = a + source[i].size + 1 /\ source[i].size \in Nat
        BY <2>1, <2>5, <2>6, <3>2, CharsAre, SourceIs
      <3> QED
        BY <2>7, <2>10, <3>3
    <2> QED
      BY <2>9, <2>10
  <1> QED
    BY <1>2, <1>3

\* The lines of a text, without an empty one at its end.
LEMMA LinesAre ==
    ASSUME SourceOK, NEW t \in Within(1, Len(source))
    PROVE  /\ Lines(t) \in Within(t.first, t.last)
           /\ Lines(t).first = t.first
           /\ \A i \in LinesOf(t) : source[i].size > 0 => i \in LinesOf(Lines(t))
  <1>1. /\ t.first \in Int /\ t.last \in Int /\ 1 <= t.first /\ t.first <= t.last + 1
        /\ t.last <= Len(source)
    BY DEF Within
  <1>2. CASE ~Empty(t) /\ source[t.last].size = 0
    <2>1. Lines(t) = Text(t.first, t.last - 1) /\ t.last - 1 \in Int
      BY <1>1, <1>2 DEF Lines
    <2>2. /\ Lines(t) \in [first : Int, last : Int]
          /\ Lines(t).first = t.first /\ Lines(t).last = t.last - 1
          /\ LinesOf(Lines(t)) = t.first .. t.last - 1
      BY <1>1, <2>1, TextIs
    <2>3. t.first <= t.last
      BY <1>1, <1>2 DEF Empty
    <2>4. Lines(t) \in Within(t.first, t.last)
      BY <1>1, <2>2, <2>3 DEF Within
    <2>5. ASSUME NEW i \in LinesOf(t), source[i].size > 0 PROVE i \in t.first .. t.last - 1
      <3>1. i # t.last
        BY <1>2, <2>5
      <3> QED
        BY <1>1, <3>1 DEF LinesOf
    <2> QED
      BY <2>2, <2>4, <2>5
  <1>3. CASE ~(~Empty(t) /\ source[t.last].size = 0)
    <2>1. Lines(t) = t
      BY <1>3 DEF Lines
    <2> QED
      BY <1>1, <2>1 DEF Within
  <1> QED
    BY <1>2, <1>3

\* What is cut off a text is its end.
LEMMA PrefixIs ==
    ASSUME SourceOK, NEW t \in Within(1, Len(source)), NEW n \in Nat
    PROVE  Prefix(t, n) \in Within(t.first, t.last)
  <1>1. /\ t.first \in Int /\ t.last \in Int /\ 1 <= t.first /\ t.first <= t.last + 1
    BY DEF Within
  <1> DEFINE ends == {i \in t.first - 1 .. t.last : Size(Text(t.first, i)) <= n}
             gaps == {t.last - i : i \in ends}
             e == CHOOSE i \in ends : \A j \in ends : j <= i
  <1>2. t.first - 1 \in ends
    <2>1. /\ Text(t.first, t.first - 1).first = t.first
          /\ Text(t.first, t.first - 1).last = t.first - 1
      BY <1>1, TextIs
    <2>2. Size(Text(t.first, t.first - 1)) = 0
      BY <1>1, <2>1 DEF Size, Empty
    <2> QED
      BY <1>1, <2>2
  <1>3. gaps \in SUBSET Nat /\ gaps # {}
    BY <1>1, <1>2
  <1>4. PICK x \in gaps : \A y \in gaps : x <= y
    <2> HIDE DEF gaps
    <2> QED
      BY <1>3, Minimum
  <1>5. PICK i \in ends : x = t.last - i
    BY <1>4
  <1>6. \A j \in ends : j <= i
    <2> SUFFICES ASSUME NEW j \in ends PROVE j <= i
      OBVIOUS
    <2>1. t.last - j \in gaps
      OBVIOUS
    <2>2. x <= t.last - j
      BY <1>4, <2>1
    <2> QED
      BY <1>1, <1>5, <2>2
  <1>7. e \in ends
    <2> HIDE DEF ends
    <2> QED
      BY <1>5, <1>6
  <1>8. Prefix(t, n) = Text(t.first, e)
    BY DEF Prefix
  <1>9. e \in t.first - 1 .. t.last
    BY <1>7
  <1> HIDE DEF e
  <1>10. e \in Int /\ t.first - 1 <= e /\ e <= t.last
    BY <1>1, <1>9
  <1>11. /\ Prefix(t, n) \in [first : Int, last : Int]
         /\ Prefix(t, n).first = t.first /\ Prefix(t, n).last = e
    <2>1. PICK f \in Int : f = t.first
      BY <1>1
    <2>2. PICK m \in Int : m = e
      BY <1>10
    <2>3. /\ Text(f, m) \in [first : Int, last : Int]
          /\ Text(f, m).first = f /\ Text(f, m).last = m
      BY TextIs
    <2>4. Prefix(t, n) = Text(f, m)
      BY <1>8, <2>1, <2>2, Zenon
    <2> QED
      BY <2>1, <2>2, <2>3, <2>4
  <1> QED
    BY <1>1, <1>10, <1>11 DEF Within

-----------------------------------------------------------------------------
(* Sequences of texts *)

\* Every text ends before those behind it begin.
Apart(s) == \A x, y \in DOMAIN s : x < y => s[x].last < s[y].first

Longer(D, s, t, w) ==
    /\ w \in Seq(D) /\ ToSet(w) = ToSet(s) \cup {t}
    /\ Apart(s) /\ (\A r \in ToSet(s) : r.last < t.first) => Apart(w)

\* A text that follows all others is appended.
LEMMA AppendApart ==
    ASSUME NEW D, NEW s \in Seq(D), NEW t \in D, NEW w, w = Append(s, t)
    PROVE  Longer(D, s, t, w)
  <1>1. PICK n \in Nat : n = Len(s) /\ DOMAIN s = 1 .. n
    OBVIOUS
  <1>2. /\ w \in Seq(D) /\ DOMAIN w = 1 .. n + 1 /\ w[n + 1] = t
        /\ \A i \in 1 .. n : w[i] = s[i]
    BY <1>1
  <1>3. \A i \in 1 .. n + 1 : i \in 1 .. n \/ i = n + 1
    BY <1>1
  <1>4. \A i \in 1 .. n : i \in 1 .. n + 1
    BY <1>1
  <1>5. n + 1 \in 1 .. n + 1
    BY <1>1
  <1>6. ToSet(w) = ToSet(s) \cup {t}
    BY <1>1, <1>2, <1>3, <1>4, <1>5 DEF ToSet
  <1>7. ASSUME Apart(s), \A r \in ToSet(s) : r.last < t.first,
               NEW x \in DOMAIN w, NEW y \in DOMAIN w, x < y
        PROVE  w[x].last < w[y].first
    <2>1. x \in 1 .. n
      BY <1>1, <1>2, <1>7
    <2>2. w[x] = s[x] /\ s[x] \in ToSet(s)
      BY <1>1, <1>2, <2>1 DEF ToSet
    <2>3. CASE y \in 1 .. n
      BY <1>1, <1>2, <1>7, <2>1, <2>3 DEF Apart
    <2>4. CASE y = n + 1
      BY <1>2, <1>7, <2>2, <2>4
    <2> QED
      BY <1>2, <1>3, <2>3, <2>4
  <1> QED
    BY <1>2, <1>6, <1>7, Zenon DEF Apart, Longer

\* What is kept is kept in order.
LEMMA KeepIs ==
    ASSUME NEW D, NEW s \in Seq(D), NEW S
    PROVE  /\ Keep(s, S) \in Seq(D)
           /\ ToSet(Keep(s, S)) = ToSet(s) \cap S
           /\ Apart(s) => Apart(Keep(s, S))
  <1>1. PICK n \in Nat : n = Len(s) /\ DOMAIN s = 1 .. n
    OBVIOUS
  <1> DEFINE V == Seq(D)
             first == <<>>
             next(x, i) == IF s[i] \in S THEN Append(x, s[i]) ELSE x
             E(g) == [i \in 0 .. n |->
                        IF i = 0 THEN <<>>
                        ELSE IF s[i] \in S THEN Append(g[i - 1], s[i]) ELSE g[i - 1]]
             u == CHOOSE x : x = E(x)
             step == [i \in 1 .. n |-> [x \in V |-> next(x, i)]]
             Before(i) == {s[j] : j \in 1 .. i}
  <1>2. n \in Int /\ first \in V /\ \A i \in 1 .. n : s[i] \in D
    BY <1>1
  <1>3. \A i \in 1 .. n : \A x \in V : next(x, i) \in V
    BY <1>2
  <1>4. Keep(s, S) = u[n]
    BY <1>1, Zenon DEF Keep
  <1>5. \A g : E(g) = [i \in 0 .. n |-> IF i = 0 THEN first ELSE next(g[i - 1], i)]
    BY Zenon
  <1>6. \A i \in 1 .. n : \A x \in V :
          /\ ToSet(next(x, i)) = ToSet(x) \cup ({s[i]} \cap S)
          /\ Apart(x) /\ (\A r \in ToSet(x) : r.last < s[i].first) => Apart(next(x, i))
    <2> SUFFICES ASSUME NEW i \in 1 .. n, NEW x \in V
                 PROVE  /\ ToSet(next(x, i)) = ToSet(x) \cup ({s[i]} \cap S)
                        /\ Apart(x) /\ (\A r \in ToSet(x) : r.last < s[i].first)
                              => Apart(next(x, i))
      BY Zenon
    <2>1. CASE s[i] \in S
      <3>1. next(x, i) = Append(x, s[i]) /\ {s[i]} \cap S = {s[i]}
        BY <2>1
      <3>2. PICK w : w = Append(x, s[i])
        OBVIOUS
      <3>3. /\ ToSet(w) = ToSet(x) \cup {s[i]}
            /\ Apart(x) /\ (\A r \in ToSet(x) : r.last < s[i].first) => Apart(w)
        <4>1. PICK v \in Seq(D) : v = x
          OBVIOUS
        <4>2. PICK e \in D : e = s[i]
          BY <1>2
        <4>3. w = Append(v, e)
          BY <3>2, <4>1, <4>2
        <4>4. /\ ToSet(w) = ToSet(v) \cup {e}
              /\ Apart(v) /\ (\A r \in ToSet(v) : r.last < e.first) => Apart(w)
          <5>1. Longer(D, v, e, w)
            BY <4>3, AppendApart, Zenon
          <5> QED
            BY <5>1, Zenon DEF Longer
        <4> QED
          BY <4>1, <4>2, <4>4, Zenon
      <3> QED
        BY <3>1, <3>2, <3>3, Zenon
    <2>2. CASE s[i] \notin S
      BY <2>2
    <2> QED
      BY <2>1, <2>2
  <1> HIDE DEF V, first, next, E
  <1>7. \A i \in 1 .. n : \A x \in V : step[i][x] = next(x, i) /\ step[i][x] \in V
    BY <1>3
  <1> HIDE DEF step
  <1>8. PICK a \in Int : a = 0
    OBVIOUS
  <1>9. PICK g \in Iterations(V, a, n, first, step) : TRUE
    <2>1. \A i \in a + 1 .. n : \A x \in V : step[i][x] \in V
      BY <1>7, <1>8
    <2>2. Iterations(V, a, n, first, step) # {}
      BY <1>2, <2>1, Recursion, Zenon
    <2> QED
      BY <2>2, Zenon
  <1>10. g \in [0 .. n -> V] /\ g[0] = first /\ \A i \in 1 .. n : g[i] = step[i][g[i - 1]]
    BY <1>8, <1>9 DEF Iterations
  <1>11. ASSUME NEW i \in 1 .. n PROVE g[i] = next(g[i - 1], i)
    <2>1. i - 1 \in 0 .. n
      OBVIOUS
    <2>2. g[i - 1] \in V
      BY <1>10, <2>1
    <2> QED
      BY <2>2, <1>7, <1>10
  <1>12. g = E(g)
    <2>1. \A i \in 0 .. n : i = 0 \/ i \in 1 .. n
      OBVIOUS
    <2>2. \A i \in 0 .. n : g[i] = IF i = 0 THEN first ELSE next(g[i - 1], i)
      BY <1>10, <1>11, <2>1, Zenon
    <2>3. g = [i \in 0 .. n |-> g[i]]
      BY <1>10
    <2> QED
      BY <1>5, <2>2, <2>3
  <1>13. u = E(u)
    BY <1>12, Zenon
  <1> HIDE DEF u
  <1>14. u[0] = first /\ \A i \in 1 .. n : u[i] = next(u[i - 1], i)
    BY <1>5, <1>13
  <1> DEFINE T == {i \in Int : /\ u[i] \in V /\ ToSet(u[i]) = Before(i) \cap S
                               /\ Apart(s) => Apart(u[i])}
  <1>15. a \in T
    <2>1. ToSet(<<>>) = {} /\ Apart(<<>>)
      BY DEF ToSet, Apart
    <2>2. u[a] = <<>> /\ first = <<>> /\ first \in V
      BY <1>2, <1>8, <1>14, Zenon DEF first
    <2>3. Before(a) = {}
      BY <1>8
    <2> QED
      BY <1>8, <2>1, <2>2, <2>3
  <1>16. ASSUME NEW i \in a + 1 .. n, i - 1 \in T PROVE i \in T
    <2>1. i \in 1 .. n /\ i \in Int /\ u[i - 1] \in V
      BY <1>8, <1>16
    <2>2. u[i] = next(u[i - 1], i) /\ u[i] \in V
      BY <1>3, <1>14, <2>1
    <2>3. ToSet(u[i - 1]) = Before(i - 1) \cap S /\ (Apart(s) => Apart(u[i - 1]))
      BY <1>16
    <2>4. Before(i) = Before(i - 1) \cup {s[i]}
      <3>1. \A j \in 1 .. i : j \in 1 .. i - 1 \/ j = i
        BY <2>1
      <3>2. \A j \in 1 .. i - 1 : j \in 1 .. i
        BY <2>1
      <3>3. i \in 1 .. i
        BY <2>1
      <3> QED
        BY <3>1, <3>2, <3>3, Zenon
    <2>5. ToSet(u[i]) = Before(i) \cap S
      <3>1. ToSet(u[i]) = ToSet(u[i - 1]) \cup ({s[i]} \cap S)
        BY <1>6, <2>1, <2>2, Zenon
      <3> QED
        BY <2>3, <2>4, <3>1
    <2>6. ASSUME Apart(s), NEW r \in ToSet(u[i - 1]) PROVE r.last < s[i].first
      <3>1. PICK j \in 1 .. i - 1 : r = s[j]
        BY <2>3, <2>6
      <3>2. j \in 1 .. n /\ j < i
        BY <2>1
      <3> QED
        BY <1>1, <2>1, <2>6, <3>1, <3>2, Zenon DEF Apart
    <2>7. Apart(s) => Apart(u[i])
      BY <1>6, <2>1, <2>2, <2>3, <2>6, Zenon
    <2> QED
      BY <2>1, <2>2, <2>5, <2>7
  <1>17. a .. n \subseteq T
    <2> HIDE DEF T
    <2> QED
      BY <1>2, <1>15, <1>16, IntervalInduction, Zenon
  <1>18. n \in T
    <2>1. n \in a .. n
      BY <1>8
    <2> QED
      BY <1>17, <2>1, Zenon
  <1>19. ToSet(s) = Before(n)
    BY <1>1, Zenon DEF ToSet
  <1> QED
    BY <1>4, <1>18, <1>19 DEF V

\* Taken apart into ts, a text loses no line that is not blank.
Parts(ts, t) ==
    /\ ts \in Seq(Within(t.first, t.last))
    /\ \A i \in LinesOf(t) : source[i].size > 0 => i \in LinesIn(ts)

\* Texts without a line that is not blank are no loss.
LEMMA NonBlankIs ==
    ASSUME NEW t, NEW ts, Parts(ts, t)
    PROVE  /\ Parts(NonBlank(ts), t)
           /\ Apart(ts) => Apart(NonBlank(ts))
  <1> DEFINE S == {r \in ToSet(ts) : ~Blank(r)}
  <1>1. ts \in Seq(Within(t.first, t.last))
    BY DEF Parts
  <1>2. /\ NonBlank(ts) \in Seq(Within(t.first, t.last))
        /\ ToSet(NonBlank(ts)) = ToSet(ts) \cap S
        /\ Apart(ts) => Apart(NonBlank(ts))
    BY <1>1, KeepIs, Zenon DEF NonBlank
  <1>3. ASSUME NEW i \in LinesOf(t), source[i].size > 0 PROVE i \in LinesIn(NonBlank(ts))
    <2>1. PICK r \in ToSet(ts) : i \in LinesOf(r)
      BY <1>3 DEF Parts, LinesIn
    <2>2. r \in S
      BY <1>3, <2>1 DEF Blank
    <2> QED
      BY <1>2, <2>1, <2>2 DEF LinesIn
  <1> QED
    BY <1>2, <1>3 DEF Parts

-----------------------------------------------------------------------------
(* Splitting by lines *)

\* What the provers need of division,
LEMMA Division ==
    ASSUME NEW a \in Nat, NEW d \in Nat \ {0}
    PROVE  /\ a \div d \in Nat
           /\ (a \div d) * d <= a /\ a < (a \div d) * d + d
  OBVIOUS

\* and of products.
LEMMA Monotone ==
    ASSUME NEW x \in Int, NEW y \in Int, x <= y, NEW d \in Nat
    PROVE  x * d <= y * d
  <1>1. (y - x) * d >= 0
    OBVIOUS
  <1> QED
    BY <1>1

\* m lines in pieces of p: where they start, that they leave out no line, and
\* that they do not overlap.
Grid(m, p, q) ==
    /\ \A c \in 1 .. q : (c - 1) * p \in Nat /\ c * p = (c - 1) * p + p
    /\ \A x \in 0 .. m - 1 : \E c \in 1 .. q : (c - 1) * p <= x /\ x < c * p
    /\ \A c, d \in 1 .. q : c < d => c * p <= (d - 1) * p

\* Enough pieces of p make a grid.
LEMMA GridIs ==
    ASSUME NEW m \in Nat \ {0}, NEW p \in Nat \ {0}, NEW q \in Nat, m <= q * p
    PROVE  Grid(m, p, q)
  <1>1. ASSUME NEW c \in 1 .. q PROVE (c - 1) * p \in Nat /\ c * p = (c - 1) * p + p
    <2>1. c - 1 \in Nat
      OBVIOUS
    <2> QED
      BY <2>1
  <1>2. ASSUME NEW x \in 0 .. m - 1
        PROVE  \E c \in 1 .. q : (c - 1) * p <= x /\ x < c * p
    <2>1. PICK c \in Nat : c = x \div p
      BY Division
    <2>2. c * p <= x /\ x < c * p + p
      BY <2>1, Division
    <2>3. c < q
      <3> SUFFICES ASSUME q <= c PROVE FALSE
        OBVIOUS
      <3>1. q * p <= c * p
        BY Monotone
      <3>2. q * p \in Int /\ c * p \in Int
        OBVIOUS
      <3> QED
        BY <2>2, <3>1, <3>2
    <2>4. c + 1 \in 1 .. q
      BY <2>3
    <2>5. PICK d \in 1 .. q : d - 1 = c /\ d = c + 1
      BY <2>4
    <2>6. (c + 1) * p = c * p + p
      OBVIOUS
    <2> QED
      BY <2>2, <2>5, <2>6, Zenon
  <1>3. ASSUME NEW c \in 1 .. q, NEW d \in 1 .. q, c < d PROVE c * p <= (d - 1) * p
    <2>1. c \in Int /\ d - 1 \in Int /\ c <= d - 1 /\ p \in Nat
      BY <1>3
    <2> QED
      BY <2>1, Monotone
  <1> QED
    BY <1>1, <1>2, <1>3 DEF Grid

\* CeilDiv rounds up.
LEMMA CeilDivIs ==
    ASSUME NEW m \in Nat, NEW k \in Nat \ {0}
    PROVE  /\ CeilDiv(m, k) \in Nat /\ m <= CeilDiv(m, k) * k
           /\ CeilDiv(m, k) * k <= m + k - 1
           /\ m > 0 => CeilDiv(m, k) > 0
  <1>1. m + k - 1 \in Nat
    OBVIOUS
  <1>2. PICK q \in Nat : q = (m + k - 1) \div k
    BY <1>1, Division
  <1>3. q * k <= m + k - 1 /\ m + k - 1 < q * k + k
    BY <1>1, <1>2, Division
  <1>4. q * k \in Nat
    OBVIOUS
  <1>5. m > 0 => q > 0
    <2>1. 0 * k = 0
      OBVIOUS
    <2> QED
      BY <1>3, <2>1
  <1> QED
    BY <1>2, <1>3, <1>4, <1>5 DEF CeilDiv

\* comb_split loses no line, and its chunks do not overlap.
LEMMA CombSplitIs ==
    ASSUME SourceOK, NEW t \in Within(1, Len(source)), NEW k \in Nat \ {0}
    PROVE  Parts(CombSplit(t, k), t) /\ Apart(CombSplit(t, k))
  <1> DEFINE ls == Lines(t)
             W == Within(t.first, t.last)
  <1>1. /\ t.first \in Int /\ t.last \in Int
        /\ ls \in W /\ ls.first = t.first
        /\ \A i \in LinesOf(t) : source[i].size > 0 => i \in LinesOf(ls)
    BY LinesAre DEF Within
  <1>2. PICK f \in Int : f = t.first
    BY <1>1
  <1>3. PICK l \in Int : l = ls.last /\ f <= l + 1 /\ l <= t.last
    BY <1>1, <1>2 DEF Within
  <1> HIDE DEF ls
  <1>4. LinesOf(ls) = f .. l
    BY <1>1, <1>2, <1>3, Zenon DEF LinesOf
  <1>5. CASE Empty(ls)
    <2>1. CombSplit(t, k) = <<>>
      BY <1>5, Zenon DEF CombSplit, ls
    <2>2. f .. l = {}
      BY <1>1, <1>2, <1>3, <1>5 DEF Empty
    <2>3. <<>> \in Seq(W) /\ Apart(<<>>)
      BY DEF Apart
    <2> QED
      BY <1>1, <1>4, <2>1, <2>2, <2>3 DEF Parts
  <1>6. CASE ~Empty(ls)
    <2>1. PICK m \in Nat \ {0} : m = l + 1 - f
      BY <1>1, <1>2, <1>3, <1>6 DEF Empty
    <2>2. Count(ls) = m
      BY <1>1, <1>2, <1>3, <2>1, Zenon DEF Count
    <2>3. PICK p \in Nat \ {0} : p = CeilDiv(m, k)
      <3>1. m \in Nat /\ m > 0
        OBVIOUS
      <3>2. CeilDiv(m, k) \in Nat /\ (m > 0 => CeilDiv(m, k) > 0)
        BY <3>1, CeilDivIs, Zenon
      <3> QED
        BY <3>1, <3>2
    <2>4. PICK q \in Nat : q = CeilDiv(m, p) /\ m <= q * p /\ q * p <= m + p - 1
      <3>1. m \in Nat
        OBVIOUS
      <3> QED
        BY <3>1, CeilDivIs, Zenon
    <2> DEFINE From(c) == f + (c - 1) * p
               To(c) == AtMost(f + c * p - 1, l)
               ts == ByLines(ls, p)
    <2>5. CombSplit(t, k) = NonBlank(ts)
      <3>1. CombSplit(t, k) = NonBlank(ByLines(ls, CeilDiv(Count(ls), k)))
        BY <1>6, Zenon DEF CombSplit, ls
      <3> QED
        BY <2>2, <2>3, <3>1, Zenon
    <2>0. ts = [c \in 1 .. q |-> Text(From(c), To(c))]
      <3>1. ts = [c \in 1 .. CeilDiv(Count(ls), p) |->
                    Text(ls.first + (c - 1) * p, AtMost(ls.first + c * p - 1, ls.last))]
        BY DEF ByLines
      <3>2. CeilDiv(Count(ls), p) = q /\ ls.first = f /\ ls.last = l
        BY <1>1, <1>2, <1>3, <2>2, <2>4, Zenon
      <3> QED
        BY <3>1, <3>2
    <2>6. Grid(m, p, q)
      BY <2>4, GridIs
    <2>7. ASSUME NEW c \in 1 .. q
          PROVE  /\ From(c) \in Int /\ To(c) \in Int
                 /\ f <= From(c) /\ From(c) <= To(c) + 1 /\ To(c) <= l
                 /\ To(c) <= f + c * p - 1
                 /\ \A x \in 0 .. m - 1 :
                      (c - 1) * p <= x /\ x < c * p => f + x \in From(c) .. To(c)
      <3>1. PICK a \in Nat, b \in Int : a = (c - 1) * p /\ b = c * p /\ b = a + p
        BY <2>6 DEF Grid
      <3>2. a <= m - 1
        <4>1. c \in Int /\ c <= q /\ q \in Int /\ p \in Nat
          OBVIOUS
        <4>2. c * p <= q * p
          BY <4>1, Monotone
        <4>3. q * p \in Int
          OBVIOUS
        <4> QED
          BY <2>4, <3>1, <4>2, <4>3
      <3>3. From(c) = f + a /\ To(c) = AtMost(f + b - 1, l)
        BY <3>1, Zenon
      <3> HIDE DEF From, To
      <3> QED
        BY <2>1, <3>1, <3>2, <3>3 DEF AtMost
    <2> HIDE DEF From, To, ts
    <2>8. ASSUME NEW c \in 1 .. q
          PROVE  /\ ts[c] \in W /\ ts[c].first = From(c) /\ ts[c].last = To(c)
                 /\ LinesOf(ts[c]) = From(c) .. To(c)
      <3>1. ts[c] = Text(From(c), To(c))
        BY <2>0
      <3>2. /\ ts[c] \in [first : Int, last : Int]
            /\ ts[c].first = From(c) /\ ts[c].last = To(c)
            /\ LinesOf(ts[c]) = From(c) .. To(c)
        <4>1. From(c) \in Int /\ To(c) \in Int
          BY <2>7, Zenon
        <4>2. /\ Text(From(c), To(c)) \in [first : Int, last : Int]
              /\ Text(From(c), To(c)).first = From(c) /\ Text(From(c), To(c)).last = To(c)
              /\ LinesOf(Text(From(c), To(c))) = From(c) .. To(c)
          BY <4>1, TextIs, Zenon
        <4> QED
          BY <3>1, <4>2, Zenon
      <3>3. t.first <= From(c) /\ From(c) <= To(c) + 1 /\ To(c) <= t.last
        <4>1. /\ From(c) \in Int /\ To(c) \in Int
              /\ f <= From(c) /\ From(c) <= To(c) + 1 /\ To(c) <= l
          BY <2>7, Zenon
        <4>2. t.first = f /\ t.last \in Int /\ l <= t.last
          BY <1>1, <1>2, <1>3, Zenon
        <4> QED
          BY <4>1, <4>2
      <3> QED
        BY <3>2, <3>3 DEF Within
    <2>9. ts \in Seq(W) /\ DOMAIN ts = 1 .. q
      <3>1. ts \in [1 .. q -> W]
        BY <2>0, <2>8
      <3> QED
        BY <3>1
    <2> HIDE DEF W
    <2>10. ASSUME NEW i \in LinesOf(t), source[i].size > 0 PROVE i \in LinesIn(ts)
      <3>1. i \in f .. l
        BY <1>1, <1>4, <2>10
      <3>2. PICK x \in 0 .. m - 1 : i = f + x
        <4>1. i - f \in 0 .. m - 1 /\ i = f + (i - f)
          BY <2>1, <3>1
        <4> QED
          BY <4>1
      <3>3. PICK c \in 1 .. q : (c - 1) * p <= x /\ x < c * p
        BY <2>6, Zenon DEF Grid
      <3>4. i \in LinesOf(ts[c])
        BY <2>7, <2>8, <3>2, <3>3, Zenon
      <3>5. ts[c] \in ToSet(ts)
        BY <2>9, Zenon DEF ToSet
      <3> QED
        BY <3>4, <3>5, Zenon DEF LinesIn
    <2>11. Parts(ts, t)
      BY <2>9, <2>10, Zenon DEF Parts, W
    <2>12. ASSUME NEW c \in 1 .. q, NEW d \in 1 .. q, c < d PROVE ts[c].last < ts[d].first
      <3>1. PICK a \in Int, b \in Int : a = c * p /\ b = (d - 1) * p /\ a <= b
        BY <2>6, <2>12 DEF Grid
      <3>2. To(c) <= f + a - 1 /\ From(d) = f + b /\ To(c) \in Int
        BY <2>7, <3>1 DEF From
      <3>3. To(c) < From(d)
        BY <3>1, <3>2
      <3> QED
        BY <2>8, <3>3
    <2>13. Apart(ts)
      BY <2>9, <2>12, Zenon DEF Apart
    <2> QED
      BY <2>5, <2>11, <2>13, NonBlankIs, Zenon
  <1> QED
    BY <1>5, <1>6

-----------------------------------------------------------------------------
(* Splitting with an overlap *)

\* The overlap is a number of lines.
LEMMA DeltaIs ==
    ASSUME SourceOK, NEW t \in Within(1, Len(source))
    PROVE  DeltaLines(t) \in Nat
  <1> DEFINE a == AtLeast(Count(Lines(t)), 1)
             b == AtLeast(Size(t) \div a, 1)
  <1>1. /\ t.first \in Int /\ t.last \in Int
    BY DEF Within
  <1>2. Lines(t).first \in Int /\ Lines(t).last \in Int
    BY <1>1, LinesAre DEF Within
  <1>3. Count(Lines(t)) \in Int
    BY <1>2 DEF Count
  <1>4. a \in Nat \ {0}
    BY <1>3 DEF AtLeast
  <1>5. Size(t) \in Nat
    BY SizeIs
  <1> HIDE DEF a
  <1>6. Size(t) \div a \in Nat
    BY <1>4, <1>5, Division
  <1>7. b \in Nat \ {0}
    BY <1>6 DEF AtLeast
  <1>8. Overlap \in Nat
    BY SplittingAssumption
  <1> HIDE DEF b
  <1>9. Overlap \div b \in Nat
    BY <1>7, <1>8, Division
  <1> QED
    BY <1>9 DEF DeltaLines, a, b

\* comb_split_overlap, where it does not panic, loses no line.
LEMMA CombSplitOverlapIs ==
    ASSUME SourceOK, NEW t \in Within(1, Len(source)), NEW k \in Nat \ {0},
           ~SplitPanics(t, k)
    PROVE  Parts(CombSplitOverlap(t, k), t)
  <1> DEFINE ls == Lines(t)
             W == Within(t.first, t.last)
             From(c) == t.first + OverlapStart(t, k, c)
             To(c) == t.first + OverlapEnd(t, k, c) - 1
             ts == [c \in 1 .. k |-> Text(From(c), To(c))]
  <1>1. /\ t.first \in Int /\ t.last \in Int
        /\ ls \in W /\ ls.first = t.first
        /\ \A i \in LinesOf(t) : source[i].size > 0 => i \in LinesOf(ls)
    BY LinesAre DEF Within
  <1>2. PICK f \in Int : f = t.first
    BY <1>1
  <1>3. PICK l \in Int : l = ls.last /\ f <= l + 1 /\ l <= t.last
    BY <1>1, <1>2 DEF Within
  <1> HIDE DEF ls
  <1>4. LinesOf(ls) = f .. l
    BY <1>1, <1>2, <1>3, Zenon DEF LinesOf
  <1>5. PICK m \in Nat : m = l + 1 - f
    BY <1>3
  <1>6. Count(Lines(t)) = m
    BY <1>1, <1>2, <1>3, <1>5, Zenon DEF Count, ls
  <1>7. PICK n \in Nat : n = CeilDiv(m, k) /\ m <= n * k /\ (m > 0 => n > 0)
    BY CeilDivIs, Zenon
  <1>8. PICK d \in Nat : d = DeltaLines(t)
    BY DeltaIs
  <1>9. ASSUME NEW c \in 1 .. k
        PROVE  \E x \in Nat, y \in Nat :
                  /\ x = (c - 1) * n /\ y = c * n
                  /\ OverlapStart(t, k, c) = AtLeast(x - d, 0)
                  /\ OverlapEnd(t, k, c) = AtMost(AtMost(y, m) + d, m)
    <2>1. (c - 1) * n \in Nat /\ c * n \in Nat
      <3>1. c - 1 \in Nat /\ c \in Nat
        OBVIOUS
      <3> QED
        BY <3>1
    <2>2. OverlapStart(t, k, c) = AtLeast((c - 1) * n - d, 0)
      BY <1>6, <1>7, <1>8, Zenon DEF OverlapStart
    <2>3. OverlapEnd(t, k, c) = AtMost(AtMost(c * n, m) + d, m)
      BY <1>6, <1>7, <1>8, Zenon DEF OverlapEnd
    <2> QED
      BY <2>1, <2>2, <2>3, Zenon
  <1>10. ASSUME NEW c \in 1 .. k
         PROVE  /\ From(c) \in Int /\ To(c) \in Int
                /\ f <= From(c) /\ From(c) <= To(c) + 1 /\ To(c) <= l
                /\ \A x \in 0 .. m - 1 :
                     (c - 1) * n <= x /\ x < c * n => f + x \in From(c) .. To(c)
    <2>1. PICK x \in Nat, y \in Nat :
              /\ x = (c - 1) * n /\ y = c * n
              /\ OverlapStart(t, k, c) = AtLeast(x - d, 0)
              /\ OverlapEnd(t, k, c) = AtMost(AtMost(y, m) + d, m)
      BY <1>9, Zenon
    <2>2. PICK s \in Nat : s = OverlapStart(t, k, c) /\ s <= x
      <3>1. AtLeast(x - d, 0) \in Nat /\ AtLeast(x - d, 0) <= x
        BY DEF AtLeast
      <3> QED
        BY <2>1, <3>1, Zenon
    <2>3. PICK e \in Nat : e = OverlapEnd(t, k, c) /\ e <= m /\ (y <= e \/ m <= e)
      <3>1. /\ AtMost(AtMost(y, m) + d, m) \in Nat /\ AtMost(AtMost(y, m) + d, m) <= m
            /\ y <= AtMost(AtMost(y, m) + d, m) \/ m <= AtMost(AtMost(y, m) + d, m)
        BY DEF AtMost
      <3> QED
        BY <2>1, <3>1, Zenon
    <2>4. s <= e
      <3>1. ~(s > e)
        BY <2>2, <2>3, Zenon DEF SplitPanics
      <3> QED
        BY <3>1
    <2>5. From(c) = f + s /\ To(c) = f + e - 1
      BY <1>2, <2>2, <2>3, Zenon
    <2> HIDE DEF From, To
    <2>6. /\ From(c) \in Int /\ To(c) \in Int
          /\ f <= From(c) /\ From(c) <= To(c) + 1 /\ To(c) <= l
      BY <1>5, <2>3, <2>4, <2>5
    <2>7. ASSUME NEW z \in 0 .. m - 1, x <= z, z < y PROVE f + z \in From(c) .. To(c)
      BY <2>2, <2>3, <2>5, <2>7
    <2> QED
      BY <2>1, <2>6, <2>7, Zenon
  <1> HIDE DEF From, To
  <1>11. ASSUME NEW c \in 1 .. k
         PROVE  ts[c] \in W /\ LinesOf(ts[c]) = From(c) .. To(c)
    <2>1. From(c) \in Int /\ To(c) \in Int
      BY <1>10, Zenon
    <2>2. ts[c] = Text(From(c), To(c))
      OBVIOUS
    <2>3. /\ Text(From(c), To(c)) \in [first : Int, last : Int]
          /\ Text(From(c), To(c)).first = From(c) /\ Text(From(c), To(c)).last = To(c)
          /\ LinesOf(Text(From(c), To(c))) = From(c) .. To(c)
      BY <2>1, TextIs, Zenon
    <2>4. t.first <= From(c) /\ From(c) <= To(c) + 1 /\ To(c) <= t.last
      <3>1. /\ From(c) \in Int /\ To(c) \in Int
            /\ f <= From(c) /\ From(c) <= To(c) + 1 /\ To(c) <= l
        BY <1>10, Zenon
      <3>2. t.first = f /\ t.last \in Int /\ l <= t.last
        BY <1>1, <1>2, <1>3, Zenon
      <3> QED
        BY <3>1, <3>2
    <2> QED
      BY <2>2, <2>3, <2>4 DEF Within
  <1>12. ts \in Seq(W) /\ DOMAIN ts = 1 .. k
    <2>1. ts \in [1 .. k -> W]
      BY <1>11
    <2> QED
      BY <2>1
  <1>13. CombSplitOverlap(t, k) = NonBlank(ts)
    BY Zenon DEF CombSplitOverlap, From, To
  <1> HIDE DEF ts, W
  <1>14. ASSUME NEW i \in LinesOf(t), source[i].size > 0 PROVE i \in LinesIn(ts)
    <2>1. i \in f .. l
      BY <1>1, <1>4, <1>14
    <2>2. PICK x \in 0 .. m - 1 : i = f + x
      <3>1. i - f \in 0 .. m - 1 /\ i = f + (i - f)
        BY <1>5, <2>1
      <3> QED
        BY <3>1
    <2>3. m \in Nat \ {0} /\ n \in Nat \ {0}
      BY <1>7, <2>2
    <2>4. m <= k * n
      <3>1. n * k = k * n
        OBVIOUS
      <3> QED
        BY <1>7, <3>1, Zenon
    <2>5. PICK c \in 1 .. k : (c - 1) * n <= x /\ x < c * n
      <3>1. k \in Nat
        OBVIOUS
      <3>2. Grid(m, n, k)
        BY <2>3, <2>4, <3>1, GridIs, Zenon
      <3> QED
        BY <3>2, Zenon DEF Grid
    <2>6. i \in LinesOf(ts[c])
      BY <1>10, <1>11, <2>2, <2>5, Zenon
    <2>7. ts[c] \in ToSet(ts)
      BY <1>12, Zenon DEF ToSet
    <2> QED
      BY <2>6, <2>7, Zenon DEF LinesIn
  <1>15. Parts(ts, t)
    BY <1>12, <1>14, Zenon DEF Parts, W
  <1> QED
    BY <1>13, <1>15, NonBlankIs, Zenon

-----------------------------------------------------------------------------
(* Packing blocks *)

Intervals == [first : Int, last : Int]
Packs == [done : Seq(Intervals), current : Intervals, block : Intervals]

\* The lines from f to i are packed: those that are not blank are in a chunk
\* that is done or in the current one, which ends with line i.
PackedTo(f, i, p) ==
    /\ p \in Packs
    /\ Apart(p.done)
    /\ \A r \in ToSet(p.done) : r \in Within(f, i) /\ r.last < p.current.first
    /\ p.current \in Within(f, i) /\ p.current.last = i
    /\ \A j \in f .. i :
         source[j].size > 0 => j \in LinesIn(p.done) \/ j \in LinesOf(p.current)

\* The same, up to the block that ends with line i.
PackInv(f, i, p) ==
    /\ PackedTo(f, p.block.first - 1, p)
    /\ p.block.last = i /\ f <= p.block.first /\ p.block.first <= i

\* A text within narrow bounds is within wide ones.
LEMMA WithinWider ==
    ASSUME NEW a \in Int, NEW b \in Int, NEW c \in Int, NEW d \in Int, c <= a, b <= d,
           NEW t \in Within(a, b)
    PROVE  t \in Within(c, d)
  BY DEF Within

\* Whichever way a block is packed, nothing is left behind.
LEMMA PackBlockIs ==
    ASSUME SourceOK, NEW f \in Int, 1 <= f, NEW i \in Int, i <= Len(source),
           NEW p, PackInv(f, i, p), NEW tau
    PROVE  PackedTo(f, i, PackBlock(tau, p))
  <1>1. /\ p \in Packs /\ p.done \in Seq(Intervals)
        /\ p.current \in Intervals /\ p.block \in Intervals
    BY DEF PackInv, PackedTo, Packs
  <1>2. PICK e \in Int : e = p.block.first - 1 /\ e + 1 = p.block.first
    BY <1>1 DEF Intervals
  <1>3. /\ Apart(p.done)
        /\ \A r \in ToSet(p.done) : r \in Within(f, e) /\ r.last < p.current.first
        /\ p.current \in Within(f, e) /\ p.current.last = e
        /\ \A j \in f .. e :
             source[j].size > 0 => j \in LinesIn(p.done) \/ j \in LinesOf(p.current)
        /\ p.block.last = i /\ f <= e + 1 /\ e + 1 <= i
    BY <1>2, Zenon DEF PackInv, PackedTo
  <1>4. PICK b \in Int : b = p.current.first /\ f <= b /\ b <= e + 1
    BY <1>3 DEF Within
  <1>5. \A r \in Within(f, e) : r \in Within(f, i)
    BY <1>3, WithinWider
  <1>6. /\ LinesOf(p.current) = b .. e /\ LinesOf(p.block) = e + 1 .. i
    BY <1>2, <1>3, <1>4, Zenon DEF LinesOf
  <1>7. p.block \in Within(f, i)
    BY <1>1, <1>2, <1>3 DEF Intervals, Within
  <1>8. \A j \in f .. i : j \in f .. e \/ j \in e + 1 .. i
    BY <1>3
  <1>9. CASE Size(p.current) = 0
    <2>1. PICK q : q = PackBlock(tau, p)
      OBVIOUS
    <2>2. q = [p EXCEPT !.current = p.block]
      BY <1>9, <2>1, Zenon DEF PackBlock
    <2>3. q \in Packs /\ q.done = p.done /\ q.current = p.block
      BY <1>1, <2>2 DEF Packs
    <2>4. \A r \in ToSet(q.done) : r \in Within(f, i) /\ r.last < q.current.first
      <3> SUFFICES ASSUME NEW r \in ToSet(p.done)
                   PROVE  r \in Within(f, i) /\ r.last < p.block.first
        BY <2>3, Zenon
      <3>1. r \in Within(f, i) /\ r \in Within(f, e)
        BY <1>3, <1>5, Zenon
      <3>2. r.last \in Int /\ r.last <= e
        BY <3>1 DEF Within
      <3> QED
        BY <1>2, <3>1, <3>2
    <2>5. ASSUME NEW j \in f .. i, source[j].size > 0
          PROVE  j \in LinesIn(q.done) \/ j \in LinesOf(q.current)
      <3>1. CASE j \in e + 1 .. i
        BY <1>6, <2>3, <3>1, Zenon
      <3>2. CASE j \in f .. e
        <4>1. p.current \in Within(1, Len(source))
          BY <1>2, <1>3, SourceIs, WithinWider
        <4>2. j \notin LinesOf(p.current)
          <5>1. \A x \in LinesOf(p.current) : source[x].size = 0
            BY <1>9, <4>1, SizeIs, Zenon
          <5> QED
            BY <2>5, <5>1
        <4> QED
          BY <1>3, <2>3, <2>5, <3>2, <4>2, Zenon
      <3> QED
        BY <1>8, <3>1, <3>2, Zenon
    <2> QED
      BY <1>3, <1>7, <2>1, <2>3, <2>4, <2>5, Zenon DEF PackedTo
  <1>10. CASE ~(Size(p.current) = 0) /\ Size(p.current) + Size(p.block) + 1 > tau
    <2>1. PICK q : q = PackBlock(tau, p)
      OBVIOUS
    <2>2. PICK w : w = Append(p.done, p.current)
      OBVIOUS
    <2>3. Longer(Intervals, p.done, p.current, w)
      BY <1>1, <2>2, AppendApart, Zenon
    <2>4. q = [p EXCEPT !.done = w, !.current = p.block]
      BY <1>10, <2>1, <2>2 DEF PackBlock
    <2>5. w \in Seq(Intervals) /\ ToSet(w) = ToSet(p.done) \cup {p.current} /\ Apart(w)
      BY <1>3, <2>3, Zenon DEF Longer
    <2>6. q \in Packs /\ q.done = w /\ q.current = p.block
      BY <1>1, <2>4, <2>5 DEF Packs
    <2>7. \A r \in ToSet(q.done) : r \in Within(f, i) /\ r.last < q.current.first
      <3> SUFFICES ASSUME NEW r \in ToSet(w)
                   PROVE  r \in Within(f, i) /\ r.last < p.block.first
        BY <2>6, Zenon
      <3>1. r \in Within(f, i) /\ r \in Within(f, e)
        BY <1>3, <1>5, <2>5
      <3>2. r.last \in Int /\ r.last <= e
        BY <3>1 DEF Within
      <3> QED
        BY <1>2, <3>1, <3>2
    <2>8. ASSUME NEW j \in f .. i, source[j].size > 0
          PROVE  j \in LinesIn(q.done) \/ j \in LinesOf(q.current)
      <3>1. CASE j \in e + 1 .. i
        BY <1>6, <2>6, <3>1, Zenon
      <3>2. CASE j \in f .. e
        <4>1. j \in LinesIn(p.done) \/ j \in LinesOf(p.current)
          BY <1>3, <2>8, <3>2, Zenon
        <4>2. j \in LinesIn(w)
          BY <2>5, <4>1 DEF LinesIn
        <4> QED
          BY <2>6, <4>2, Zenon
      <3> QED
        BY <1>8, <3>1, <3>2, Zenon
    <2> QED
      BY <1>3, <1>7, <2>1, <2>5, <2>6, <2>7, <2>8, Zenon DEF PackedTo
  <1>11. CASE ~(Size(p.current) = 0) /\ ~(Size(p.current) + Size(p.block) + 1 > tau)
    <2>1. PICK q : q = PackBlock(tau, p)
      OBVIOUS
    <2>2. q = [p EXCEPT !.current = Text(b, i)]
      BY <1>3, <1>4, <1>11, <2>1 DEF PackBlock
    <2>3. /\ Text(b, i) \in Intervals /\ Text(b, i).first = b /\ Text(b, i).last = i
          /\ LinesOf(Text(b, i)) = b .. i
      BY TextIs, Zenon DEF Intervals
    <2>4. q \in Packs /\ q.done = p.done /\ q.current = Text(b, i)
      BY <1>1, <2>2, <2>3 DEF Packs
    <2>5. \A r \in ToSet(q.done) : r \in Within(f, i) /\ r.last < q.current.first
      BY <1>3, <1>4, <1>5, <2>3, <2>4, Zenon
    <2>6. ASSUME NEW j \in f .. i, source[j].size > 0
          PROVE  j \in LinesIn(q.done) \/ j \in LinesOf(q.current)
      <3>1. CASE j \in e + 1 .. i
        <4>1. j \in b .. i
          BY <1>4, <3>1
        <4> QED
          BY <2>3, <2>4, <4>1, Zenon
      <3>2. CASE j \in f .. e
        <4>1. j \in LinesIn(p.done) \/ j \in b .. e
          BY <1>3, <1>6, <2>6, <3>2, Zenon
        <4>2. j \in b .. e => j \in b .. i
          BY <1>3
        <4> QED
          BY <2>3, <2>4, <4>1, <4>2, Zenon
      <3> QED
        BY <1>8, <3>1, <3>2, Zenon
    <2>7. Text(b, i) \in Within(f, i)
      BY <1>3, <1>4, <2>3 DEF Within, Intervals
    <2> QED
      BY <1>3, <2>1, <2>3, <2>4, <2>5, <2>6, <2>7, Zenon DEF PackedTo
  <1> QED
    BY <1>9, <1>10, <1>11

\* Packing keeps the types, whatever is packed.
LEMMA PackBlockType ==
    ASSUME NEW p \in Packs, NEW tau
    PROVE  PackBlock(tau, p) \in Packs
  <1>1. /\ p.done \in Seq(Intervals) /\ p.current \in Intervals /\ p.block \in Intervals
        /\ p.current.first \in Int /\ p.block.last \in Int
    BY DEF Packs, Intervals
  <1>2. Append(p.done, p.current) \in Seq(Intervals)
    BY <1>1
  <1>3. Text(p.current.first, p.block.last) \in Intervals
    BY <1>1, TextIs, Zenon DEF Intervals
  <1> QED
    BY <1>1, <1>2, <1>3 DEF PackBlock, Packs

\* When all blocks are packed, all lines are: by induction on the last line.
LEMMA PackingIs ==
    ASSUME SourceOK, NEW ls \in Within(1, Len(source)), ~Empty(ls), NEW tau
    PROVE  PackedTo(ls.first, ls.last, Packing(ls, tau))
  <1>1. PICK f \in Int, l \in Int : /\ f = ls.first /\ l = ls.last
                                    /\ 1 <= f /\ f <= l /\ l <= Len(source)
    BY DEF Within, Empty
  <1> DEFINE base == [done |-> <<>>, current |-> Text(ls.first, ls.first - 1),
                      block |-> Text(ls.first, ls.first)]
             ended(x, i) == [PackBlock(tau, x) EXCEPT !.block = Text(i, i)]
             grown(x, i) == [x EXCEPT !.block = Text(@.first, i)]
             next(x, i) == IF DefinitionBoundary(i) THEN ended(x, i) ELSE grown(x, i)
             E(g) == [i \in LinesOf(ls) |->
                        IF i = ls.first THEN base
                        ELSE IF DefinitionBoundary(i)
                        THEN [PackBlock(tau, g[i - 1]) EXCEPT !.block = Text(i, i)]
                        ELSE [g[i - 1] EXCEPT !.block = Text(@.first, i)]]
             u == CHOOSE x : x = E(x)
             step == [i \in f + 1 .. l |-> [x \in Packs |-> next(x, i)]]
  <1>2. LinesOf(ls) = f .. l
    BY <1>1, Zenon DEF LinesOf
  <1>3. Packing(ls, tau) = PackBlock(tau, u[l])
    BY <1>1, Zenon DEF Packing
  <1>4. \A g : E(g) = [i \in f .. l |-> IF i = f THEN base ELSE next(g[i - 1], i)]
    BY <1>1, <1>2
  <1>5. base \in Packs /\ PackInv(f, f, base)
    <2>1. /\ Text(f, f - 1) \in Intervals /\ Text(f, f - 1).first = f
          /\ Text(f, f - 1).last = f - 1
      <3>1. f - 1 \in Int
        OBVIOUS
      <3> QED
        BY <3>1, TextIs, Zenon DEF Intervals
    <2>2. Text(f, f) \in Intervals /\ Text(f, f).first = f /\ Text(f, f).last = f
      BY TextIs, Zenon DEF Intervals
    <2>3. PICK c \in Intervals, b \in Intervals :
              /\ c.first = f /\ c.last = f - 1 /\ b.first = f /\ b.last = f
              /\ base = [done |-> <<>>, current |-> c, block |-> b]
      BY <1>1, <2>1, <2>2, Zenon
    <2> HIDE DEF base
    <2>4. <<>> \in Seq(Intervals) /\ ToSet(<<>>) = {} /\ Apart(<<>>)
      BY DEF ToSet, Apart
    <2>5. base \in Packs /\ base.done = <<>> /\ base.current = c /\ base.block = b
      BY <2>3, <2>4 DEF Packs
    <2>6. c \in Within(f, f - 1)
      BY <2>3 DEF Within, Intervals
    <2>7. f .. f - 1 = {}
      OBVIOUS
    <2>8. PackedTo(f, f - 1, base)
      BY <2>3, <2>4, <2>5, <2>6, <2>7, Zenon DEF PackedTo
    <2> QED
      BY <2>3, <2>5, <2>8 DEF PackInv
  <1>6. ASSUME NEW i \in f + 1 .. l, NEW x \in Packs PROVE next(x, i) \in Packs
    <2>1. i \in Int /\ Text(i, i) \in Intervals
      BY TextIs DEF Intervals
    <2>2. PackBlock(tau, x) \in Packs
      BY PackBlockType
    <2>3. ended(x, i) \in Packs
      BY <2>1, <2>2 DEF Packs
    <2>4. x.block.first \in Int
      BY DEF Packs, Intervals
    <2>5. Text(x.block.first, i) \in Intervals
      BY <2>1, <2>4, TextIs DEF Intervals
    <2>6. grown(x, i) \in Packs
      BY <2>5 DEF Packs
    <2> QED
      BY <2>3, <2>6
  <1>7. ASSUME NEW i \in f + 1 .. l, NEW x, PackInv(f, i - 1, x) PROVE PackInv(f, i, next(x, i))
    <2>1. /\ i \in Int /\ Text(i, i) \in Intervals /\ Text(i, i).first = i /\ Text(i, i).last = i
      BY TextIs DEF Intervals
    <2>2. /\ x \in Packs /\ PackedTo(f, x.block.first - 1, x) /\ x.block \in Intervals
          /\ x.block.last = i - 1 /\ f <= x.block.first /\ x.block.first <= i - 1
          /\ x.block.first \in Int
      BY <1>7 DEF PackInv, PackedTo, Packs, Intervals
    <2>3. CASE DefinitionBoundary(i)
      <3>1. PICK y : y = PackBlock(tau, x)
        OBVIOUS
      <3>2. PackedTo(f, i - 1, y)
        <4>1. i - 1 \in Int /\ i - 1 <= Len(source)
          BY <1>1, SourceIs
        <4>2. PackInv(f, i - 1, x)
          BY <1>7
        <4> QED
          BY <1>1, <3>1, <4>1, <4>2, PackBlockIs, Zenon
      <3>3. y \in Packs
        BY <3>2, Zenon DEF PackedTo
      <3>4. PICK z : z = next(x, i)
        OBVIOUS
      <3>5. z = [y EXCEPT !.block = Text(i, i)]
        BY <2>3, <3>1, <3>4, Zenon
      <3>6. /\ z \in Packs /\ z.done = y.done /\ z.current = y.current /\ z.block = Text(i, i)
        BY <2>1, <3>3, <3>5 DEF Packs
      <3>7. PackedTo(f, i - 1, z)
        BY <3>2, <3>6, Zenon DEF PackedTo
      <3>8. PackInv(f, i, z)
        BY <2>1, <3>6, <3>7 DEF PackInv
      <3> QED
        BY <3>4, <3>8, Zenon
    <2>4. CASE ~DefinitionBoundary(i)
      <3>1. PICK z : z = next(x, i)
        OBVIOUS
      <3>2. z = [x EXCEPT !.block = Text(x.block.first, i)]
        BY <2>4, <3>1
      <3>3. /\ Text(x.block.first, i) \in Intervals
            /\ Text(x.block.first, i).first = x.block.first
            /\ Text(x.block.first, i).last = i
        BY <2>1, <2>2, TextIs, Zenon DEF Intervals
      <3>4. /\ z \in Packs /\ z.done = x.done /\ z.current = x.current
            /\ z.block = Text(x.block.first, i)
        BY <2>2, <3>2, <3>3 DEF Packs
      <3>5. z.block.first = x.block.first /\ z.block.last = i
        BY <3>3, <3>4, Zenon
      <3>6. PackedTo(f, z.block.first - 1, z)
        BY <2>2, <3>4, <3>5, Zenon DEF PackedTo
      <3>7. PackInv(f, i, z)
        <4>1. f <= z.block.first /\ z.block.first <= i
          BY <2>1, <2>2, <3>5
        <4> QED
          BY <3>5, <3>6, <4>1, Zenon DEF PackInv
      <3> QED
        BY <3>1, <3>7, Zenon
    <2> QED
      BY <2>3, <2>4
  <1> HIDE DEF base, next, E
  <1>8. \A i \in f + 1 .. l : \A x \in Packs : step[i][x] = next(x, i) /\ step[i][x] \in Packs
    BY <1>6
  <1> HIDE DEF step
  <1>9. PICK g \in Iterations(Packs, f, l, base, step) : TRUE
    <2>1. \A i \in f + 1 .. l : \A x \in Packs : step[i][x] \in Packs
      BY <1>8
    <2>2. Iterations(Packs, f, l, base, step) # {}
      BY <1>5, <2>1, Recursion, Zenon
    <2> QED
      BY <2>2, Zenon
  <1>10. g \in [f .. l -> Packs] /\ g[f] = base /\ \A i \in f + 1 .. l : g[i] = step[i][g[i - 1]]
    BY <1>1, <1>9 DEF Iterations
  <1>11. ASSUME NEW i \in f + 1 .. l PROVE g[i] = next(g[i - 1], i)
    <2>1. i - 1 \in f .. l
      OBVIOUS
    <2>2. g[i - 1] \in Packs
      BY <1>10, <2>1
    <2> QED
      BY <2>2, <1>8, <1>10
  <1>12. g = E(g)
    <2>1. \A i \in f .. l : i = f \/ i \in f + 1 .. l
      OBVIOUS
    <2>2. \A i \in f .. l : g[i] = IF i = f THEN base ELSE next(g[i - 1], i)
      BY <1>10, <1>11, <2>1, Zenon
    <2>3. g = [i \in f .. l |-> g[i]]
      BY <1>10
    <2> QED
      BY <1>4, <2>2, <2>3
  <1>13. u = E(u)
    BY <1>12, Zenon
  <1> HIDE DEF u
  <1>14. u[f] = base /\ \A i \in f + 1 .. l : u[i] = next(u[i - 1], i)
    BY <1>1, <1>4, <1>13
  <1> DEFINE T == {i \in Int : PackInv(f, i, u[i])}
  <1>15. f \in T
    BY <1>5, <1>14
  <1>16. ASSUME NEW i \in f + 1 .. l, i - 1 \in T PROVE i \in T
    <2>1. PackInv(f, i - 1, u[i - 1]) /\ i \in Int
      BY <1>16
    <2>2. PackInv(f, i, next(u[i - 1], i))
      BY <1>7, <2>1, Zenon
    <2> QED
      BY <1>14, <2>1, <2>2
  <1>17. f .. l \subseteq T
    <2> HIDE DEF T
    <2> QED
      BY <1>15, <1>16, IntervalInduction, Zenon
  <1>18. PackInv(f, l, u[l])
    <2>1. l \in f .. l
      BY <1>1
    <2> QED
      BY <1>17, <2>1
  <1> QED
    BY <1>1, <1>3, <1>18, PackBlockIs, Zenon

-----------------------------------------------------------------------------
(* Chunks *)

\* A sequence is over any set that has its elements.
LEMMA SeqWithin ==
    ASSUME NEW D, NEW s \in Seq(D), NEW B, \A r \in ToSet(s) : r \in B
    PROVE  s \in Seq(B)
  <1>1. PICK n \in Nat : n = Len(s) /\ DOMAIN s = 1 .. n
    OBVIOUS
  <1>2. s \in [1 .. n -> B]
    BY <1>1 DEF ToSet
  <1> QED
    BY <1>2

\* The chunks that are done and the last one hold all lines.
LEMMA PackedIs ==
    ASSUME SourceOK, NEW ls \in Within(1, Len(source)), ~Empty(ls), NEW tau
    PROVE  Parts(Packed(ls, tau), ls) /\ Apart(Packed(ls, tau))
  <1> DEFINE W == Within(ls.first, ls.last)
  <1>1. PICK p : p = Packing(ls, tau)
    OBVIOUS
  <1>2. /\ p \in Packs
        /\ Apart(p.done)
        /\ \A r \in ToSet(p.done) : r \in W /\ r.last < p.current.first
        /\ p.current \in W
        /\ \A j \in ls.first .. ls.last :
             source[j].size > 0 => j \in LinesIn(p.done) \/ j \in LinesOf(p.current)
    BY <1>1, PackingIs, Zenon DEF PackedTo
  <1>3. p.done \in Seq(Intervals)
    BY <1>2 DEF Packs
  <1> HIDE DEF W
  <1>4. p.done \in Seq(W)
    BY <1>2, <1>3, SeqWithin, Zenon
  <1>5. LinesOf(ls) = ls.first .. ls.last
    BY Zenon DEF LinesOf
  <1>6. CASE Blank(p.current)
    <2>1. Packed(ls, tau) = p.done
      BY <1>1, <1>6, Zenon DEF Packed
    <2>2. ASSUME NEW j \in LinesOf(ls), source[j].size > 0 PROVE j \in LinesIn(p.done)
      <3>1. j \notin LinesOf(p.current)
        BY <1>6, <2>2 DEF Blank
      <3> QED
        BY <1>2, <1>5, <2>2, <3>1, Zenon
    <2>3. Parts(p.done, ls)
      BY <1>4, <2>2, Zenon DEF Parts, W
    <2> QED
      BY <1>2, <2>1, <2>3, Zenon
  <1>7. CASE ~Blank(p.current)
    <2>1. PICK w : w = Append(p.done, p.current)
      OBVIOUS
    <2>2. Packed(ls, tau) = w
      BY <1>1, <1>7, <2>1, Zenon DEF Packed
    <2>3. Longer(W, p.done, p.current, w)
      BY <1>2, <1>4, <2>1, AppendApart, Zenon
    <2>4. w \in Seq(W) /\ ToSet(w) = ToSet(p.done) \cup {p.current} /\ Apart(w)
      BY <1>2, <2>3, Zenon DEF Longer
    <2>5. ASSUME NEW j \in LinesOf(ls), source[j].size > 0 PROVE j \in LinesIn(w)
      <3>1. j \in LinesIn(p.done) \/ j \in LinesOf(p.current)
        BY <1>2, <1>5, <2>5, Zenon
      <3> QED
        BY <2>4, <3>1 DEF LinesIn
    <2>6. Parts(w, ls)
      BY <2>4, <2>5, Zenon DEF Parts, W
    <2> QED
      BY <2>2, <2>4, <2>6, Zenon
  <1> QED
    BY <1>6, <1>7

\* An empty line at the end is no loss.
LEMMA PartsOfLines ==
    ASSUME SourceOK, NEW t \in Within(1, Len(source)), NEW ts, Parts(ts, Lines(t))
    PROVE  Parts(ts, t)
  <1> DEFINE W == Within(t.first, t.last)
             V == Within(Lines(t).first, Lines(t).last)
  <1>1. t.first \in Int /\ t.last \in Int
    BY DEF Within
  <1>2. /\ Lines(t).first \in Int /\ Lines(t).last \in Int
        /\ t.first <= Lines(t).first /\ Lines(t).last <= t.last
        /\ \A i \in LinesOf(t) : source[i].size > 0 => i \in LinesOf(Lines(t))
    BY <1>1, LinesAre DEF Within
  <1>3. \A r \in V : r \in W
    BY <1>1, <1>2, WithinWider
  <1>4. ts \in Seq(V)
    BY Zenon DEF Parts
  <1> HIDE DEF V, W
  <1>5. ts \in Seq(W)
    BY <1>3, <1>4
  <1> QED
    BY <1>2, <1>5, Zenon DEF Parts, W

\* The chunks of t, all of them or as many as there may be.
ChunkedAs(ts, t) ==
    /\ ts \in Seq(Within(t.first, t.last))
    /\ Parts(ts, t) \/ Len(ts) = MaxChunks

\* The beginning of a sequence of texts.
LEMMA FirstChunks ==
    ASSUME NEW W, NEW s \in Seq(W), NEW n \in Nat, n <= Len(s), NEW w, w = SubSeq(s, 1, n)
    PROVE  w \in Seq(W) /\ Len(w) = n /\ (Apart(s) => Apart(w))
  <1>1. PICK m \in Nat : m = Len(s) /\ DOMAIN s = 1 .. m
    OBVIOUS
  <1>2. w \in Seq(W) /\ DOMAIN w = 1 .. n /\ Len(w) = n /\ \A i \in 1 .. n : w[i] = s[i]
    BY <1>1
  <1>3. \A i \in 1 .. n : i \in 1 .. m
    BY <1>1
  <1> QED
    BY <1>1, <1>2, <1>3 DEF Apart

\* structural_chunk loses no line but to MAX_CHUNK_COUNT, and its chunks do not
\* overlap.
LEMMA StructuralChunkIs ==
    ASSUME SourceOK, NEW t \in Within(1, Len(source)), NEW tau \in Nat \ {0}
    PROVE  ChunkedAs(StructuralChunk(t, tau), t) /\ Apart(StructuralChunk(t, tau))
  <1> DEFINE W == Within(t.first, t.last)
             ls == Lines(t)
             chunks == Packed(ls, tau)
             k == AtLeast(Size(t) \div tau, 2)
             by_lines == CombSplit(t, k)
  <1>1. k \in Nat \ {0}
    <2>1. Size(t) \div tau \in Nat
      BY SizeIs, Division
    <2> QED
      BY <2>1 DEF AtLeast
  <1> HIDE DEF k
  <1>2. Parts(by_lines, t) /\ Apart(by_lines)
    BY <1>1, CombSplitIs, Zenon
  <1> HIDE DEF by_lines
  <1>3. ls \in Within(1, Len(source))
    <2>1. /\ t.first \in Int /\ t.last \in Int /\ 1 <= t.first /\ t.last <= Len(source)
      BY DEF Within
    <2> QED
      BY <2>1, LinesAre, SourceIs, WithinWider
  <1>4. CASE Empty(ls)
    <2>1. LinesOf(ls) = {}
      BY <1>3, <1>4 DEF Empty, LinesOf, Within
    <2>2. StructuralChunk(t, tau) = <<>>
      BY <1>4, <2>1 DEF StructuralChunk
    <2>3. <<>> \in Seq(W) /\ Apart(<<>>)
      BY DEF Apart
    <2>4. Parts(<<>>, t)
      BY <2>1, <2>3, LinesAre DEF Parts
    <2> QED
      BY <2>2, <2>3, <2>4, Zenon DEF ChunkedAs
  <1>5. CASE ~Empty(ls)
    <2>1. Parts(chunks, ls) /\ Apart(chunks)
      BY <1>3, <1>5, PackedIs, Zenon
    <2>2. Parts(chunks, t)
      BY <2>1, PartsOfLines, Zenon
    <2> HIDE DEF chunks, ls
    <2>3. StructuralChunk(t, tau) \in {by_lines, SubSeq(chunks, 1, AtMost(Len(chunks), MaxChunks))}
      BY <1>5 DEF StructuralChunk, chunks, ls, by_lines, k
    <2>4. CASE StructuralChunk(t, tau) = by_lines
      BY <1>2, <2>4, Zenon DEF ChunkedAs, Parts
    <2>5. CASE StructuralChunk(t, tau) = SubSeq(chunks, 1, AtMost(Len(chunks), MaxChunks))
      <3>1. chunks \in Seq(W)
        BY <2>2 DEF Parts
      <3>2. PICK m \in Nat : m = Len(chunks)
        BY <3>1
      <3>3. MaxChunks \in Nat
        BY SplittingAssumption
      <3>4. PICK n \in Nat : n = AtMost(m, MaxChunks) /\ n <= m /\ (n = m \/ n = MaxChunks)
        BY <3>3 DEF AtMost
      <3>5. PICK w : w = SubSeq(chunks, 1, n)
        OBVIOUS
      <3> HIDE DEF W
      <3>6. w \in Seq(W) /\ Len(w) = n /\ Apart(w)
        <4>1. n <= Len(chunks)
          BY <3>2, <3>4, Zenon
        <4>2. w \in Seq(W) /\ Len(w) = n /\ (Apart(chunks) => Apart(w))
          BY <3>1, <3>5, <4>1, FirstChunks, Zenon
        <4> QED
          BY <2>1, <4>2, Zenon
      <3>7. StructuralChunk(t, tau) = w
        BY <2>5, <3>2, <3>4, <3>5, Zenon
      <3>8. CASE n = m
        <4>1. w = chunks
          BY <3>1, <3>2, <3>5, <3>8
        <4> QED
          BY <2>2, <3>6, <3>7, <4>1, Zenon DEF ChunkedAs, W
      <3>9. CASE n = MaxChunks
        BY <3>6, <3>7, <3>9, Zenon DEF ChunkedAs, W
      <3> QED
        BY <3>4, <3>8, <3>9
    <2> QED
      BY <2>3, <2>4, <2>5
  <1> QED
    BY <1>4, <1>5

-----------------------------------------------------------------------------
(* What becomes of the lines *)

PendingPieces == [text : Within(1, Len(source)), depth : Nat]

\* A plan with a depth has a tau that is not zero.
PlanOK(p) == p.k \in Nat \ {0} /\ p.tau \in Nat /\ (p.tau > 0 \/ p.depth = 0)

SplitTypes ==
    /\ source \in Sources /\ window \in Nat /\ userK \in Nat /\ candidate \in Nat
    /\ stage \in {"planning", "splitting", "done"}
    /\ stage = "planning" =>
         leaves = <<>> /\ pending = <<>> /\ pruned = {} /\ degraded = {} /\ (plan = <<>> \/ PlanOK(plan))
    /\ stage = "splitting" => PlanOK(plan)
    /\ stage = "done" => pending = <<>>
    /\ leaves \in Seq(Within(1, Len(source)))
    /\ pending \in Seq(PendingPieces)

PendingLines(ps) == UNION {LinesOf(p.text) : p \in ToSet(ps)}

\* No line that is not blank is forgotten, and none with a keyword pruned.
Remembered ==
    /\ \A i \in 1 .. Len(source) :
         source[i].size > 0 =>
            i \in LinesIn(leaves) \cup PendingLines(pending)
                    \cup cut \cup lost \cup pruned \cup degraded
    /\ \A i \in pruned : ~source[i].key
    /\ degraded # {} => budget # 0

PiecesApart(ps) ==
    \A x, y \in DOMAIN ps : x < y => ps[x].text.last < ps[y].text.first

\* What was asked and what is pending follow one another in the source.
InOrderOfSource ==
    /\ Apart(leaves) /\ PiecesApart(pending)
    /\ \A t \in ToSet(leaves), p \in ToSet(pending) : t.last < p.text.first

SplitInv ==
    stage # "idle" =>
        /\ SplitTypes
        /\ stage # "planning" => Remembered
        /\ task # "multi_hop" => InOrderOfSource

-----------------------------------------------------------------------------

\* What is assumed of sources.
LEMMA SourceIsOK ==
    ASSUME source \in Sources
    PROVE  SourceOK
  <1>1. source \in Seq([size : Nat, def : BOOLEAN, key : BOOLEAN]) /\ Len(source) > 0
    BY SplittingAssumption, Zenon
  <1>2. Len(source) \in Nat
    BY <1>1
  <1> QED
    BY <1>1, <1>2 DEF SourceOK

\* The source is a text of all lines.
LEMMA WholeIs ==
    ASSUME SourceOK
    PROVE  /\ Whole \in Within(1, Len(source)) /\ LinesOf(Whole) = 1 .. Len(source)
           /\ Size(Whole) \in Nat
  <1>0. Len(source) \in Nat
    BY SourceIs
  <1>1. PICK n \in Nat, one \in Int : n = Len(source) /\ one = 1
    BY <1>0
  <1>2. /\ Text(one, n) \in [first : Int, last : Int] /\ Text(one, n).first = one
        /\ Text(one, n).last = n /\ LinesOf(Text(one, n)) = one .. n
    BY <1>1, TextIs
  <1>3. Whole = Text(one, n)
    BY <1>1, Zenon DEF Whole
  <1>4. Whole \in Within(1, Len(source))
    BY <1>1, <1>2, <1>3 DEF Within
  <1> QED
    BY <1>1, <1>2, <1>3, <1>4, SizeIs

\* Any plan has a k and, unless it has no depth, a tau to split with.
LEMMA PlansAreOK ==
    ASSUME NEW n \in Nat, NEW user_k \in Nat, NEW user_tau \in Nat,
           NEW p \in Plans(n, user_k, user_tau)
    PROVE  PlanOK(p) /\ p.k \in Nat
  <1>1. CASE p \in {[k |-> 2, tau |-> n, depth |-> 0, calls |-> 1]}
    BY <1>1 DEF PlanOK
  <1>2. CASE \E tau \in ChosenTaus(user_tau), k \in ChosenKs(user_k) : \E d, calls :
               p = [k |-> k, tau |-> tau, depth |-> d, calls |-> calls]
    <2>1. PICK tau \in ChosenTaus(user_tau), k \in ChosenKs(user_k) :
              \E d, calls : p = [k |-> k, tau |-> tau, depth |-> d, calls |-> calls]
      BY <1>2
    <2>2. tau \in Nat \ {0}
      BY SplittingAssumption DEF ChosenTaus
    <2>3. k \in Nat \ {0}
      BY SplittingAssumption DEF ChosenKs, AtLeast
    <2> QED
      BY <2>1, <2>2, <2>3 DEF PlanOK
  <1>3. \/ p \in {[k |-> 2, tau |-> n, depth |-> 0, calls |-> 1]}
        \/ p \in UNION {{[k |-> k, tau |-> tau, depth |-> d, calls |-> k ^ d + ReduceCalls(k, d)] :
                           d \in Depths(n, tau, k)} :
                         tau \in ChosenTaus(user_tau), k \in ChosenKs(user_k)}
    BY DEF Plans
  <1> QED
    BY <1>1, <1>2, <1>3

\* Whichever way phi splits a piece, it loses no line but to MAX_CHUNK_COUNT.
LEMMA ChunksAre ==
    ASSUME SourceOK, Piece \in Within(1, Len(source)), PlanOK(plan), Depth \in Nat,
           Size(Piece) > plan.tau, Depth < plan.depth,
           ~(task = "multi_hop" /\ SplitPanics(Piece, plan.k))
    PROVE  ChunkedAs(Chunks, Piece) /\ (task # "multi_hop" => Apart(Chunks))
  <1>1. plan.k \in Nat \ {0} /\ plan.tau \in Nat \ {0}
    BY DEF PlanOK
  <1>2. PICK t \in Within(1, Len(source)), k \in Nat \ {0}, tau \in Nat \ {0} :
            t = Piece /\ k = plan.k /\ tau = plan.tau
    BY <1>1, Zenon
  <1>3. Parts(CombSplit(t, k), t) /\ Apart(CombSplit(t, k))
    BY CombSplitIs, Zenon
  <1>4. CASE task = "multi_hop"
    <2>1. ~SplitPanics(t, k)
      BY <1>2, <1>4, Zenon
    <2>2. Parts(CombSplitOverlap(t, k), t)
      BY <2>1, CombSplitOverlapIs, Zenon
    <2>3. Chunks \in {CombSplit(t, k), CombSplitOverlap(t, k)}
      BY <1>2, <1>4, Zenon DEF Chunks
    <2>4. Parts(Chunks, t)
      BY <1>3, <2>2, <2>3
    <2> QED
      BY <1>2, <1>4, <2>4, Zenon DEF ChunkedAs, Parts
  <1>5. CASE task # "multi_hop"
    <2>1. ChunkedAs(StructuralChunk(t, tau), t) /\ Apart(StructuralChunk(t, tau))
      BY StructuralChunkIs, Zenon
    <2>2. ChunkedAs(CombSplit(t, k), t)
      BY <1>3, Zenon DEF ChunkedAs, Parts
    <2>3. Chunks \in {CombSplit(t, k), StructuralChunk(t, tau)}
      BY <1>2, <1>5, Zenon DEF Chunks
    <2>4. ChunkedAs(Chunks, t) /\ Apart(Chunks)
      BY <1>3, <2>1, <2>2, <2>3
    <2> QED
      BY <1>2, <2>4, Zenon
  <1> QED
    BY <1>4, <1>5

\* The first piece that is pending, and the others.
LEMMA PieceIs ==
    ASSUME pending \in Seq(PendingPieces), pending # <<>>
    PROVE  /\ Piece \in Within(1, Len(source)) /\ Depth \in Nat
           /\ Tail(pending) \in Seq(PendingPieces)
           /\ ToSet(pending) = {Head(pending)} \cup ToSet(Tail(pending))
           /\ PiecesApart(pending) =>
                /\ PiecesApart(Tail(pending))
                /\ \A p \in ToSet(Tail(pending)) : Piece.last < p.text.first
  <1>1. PICK n \in Nat : n + 1 = Len(pending) /\ DOMAIN pending = 1 .. n + 1
    <2>1. Len(pending) \in Nat \ {0} /\ DOMAIN pending = 1 .. Len(pending)
      BY EmptySeq, LenProperties
    <2>2. PICK n \in Nat : n + 1 = Len(pending)
      <3>1. Len(pending) - 1 \in Nat /\ (Len(pending) - 1) + 1 = Len(pending)
        BY <2>1
      <3> QED
        BY <3>1, Zenon
    <2> QED
      BY <2>1, <2>2, Zenon
  <1>2. PICK r \in Seq(PendingPieces) :
            /\ r = Tail(pending) /\ Len(r) = n
            /\ \A i \in 1 .. n : r[i] = pending[i + 1]
    <2>1. /\ Tail(pending) \in Seq(PendingPieces)
          /\ Len(Tail(pending)) = Len(pending) - 1
          /\ \A i \in 1 .. Len(Tail(pending)) : Tail(pending)[i] = pending[i + 1]
      BY HeadTailProperties
    <2>2. Len(Tail(pending)) = n
      <3>1. n = (n + 1) - 1
        OBVIOUS
      <3> QED
        BY <1>1, <2>1, <3>1, Zenon
    <2> QED
      BY <2>1, <2>2, Zenon
  <1>3. /\ Head(pending) = pending[1] /\ pending[1] \in PendingPieces
        /\ DOMAIN r = 1 .. n /\ \A i \in 1 .. n : r[i] = pending[i + 1]
    <2>1. DOMAIN r = 1 .. n
      BY <1>2, LenProperties
    <2>2. 1 \in 1 .. Len(pending)
      BY <1>1
    <2>3. Head(pending) = pending[1]
      BY <1>1, <2>2
    <2> QED
      BY <1>2, <2>1, <2>2, <2>3, ElementOfSeq, Zenon
  <1>4. Piece \in Within(1, Len(source)) /\ Depth \in Nat
    BY <1>3 DEF Piece, Depth, PendingPieces
  <1>5. /\ 1 \in 1 .. n + 1
        /\ \A i \in 1 .. n : i + 1 \in 1 .. n + 1 /\ 1 < i + 1
        /\ \A i, j \in 1 .. n : i < j => i + 1 < j + 1
        /\ \A i \in 1 .. n + 1 : i = 1 \/ \E j \in 1 .. n : i = j + 1
    <2>1. ASSUME NEW i \in 1 .. n + 1, i # 1 PROVE \E j \in 1 .. n : i = j + 1
      <3>1. i - 1 \in 1 .. n /\ i = (i - 1) + 1
        BY <2>1
      <3> QED
        BY <3>1
    <2> QED
      BY <2>1
  <1>6. ToSet(pending) = {Head(pending)} \cup ToSet(r)
    <2>1. ASSUME NEW p \in ToSet(pending) PROVE p \in {Head(pending)} \cup ToSet(r)
      <3>1. PICK i \in 1 .. n + 1 : p = pending[i]
        BY <1>1, <2>1, Zenon DEF ToSet
      <3>2. CASE i = 1
        BY <1>3, <3>1, <3>2
      <3>3. CASE \E j \in 1 .. n : i = j + 1
        <4>1. PICK j \in 1 .. n : i = j + 1
          BY <3>3
        <4>2. p = r[j]
          BY <1>3, <3>1, <4>1, Zenon
        <4>3. r[j] \in ToSet(r)
          BY <1>3, Zenon DEF ToSet
        <4> QED
          BY <4>2, <4>3
      <3> QED
        BY <1>5, <3>2, <3>3, Zenon
    <2>2. ASSUME NEW p \in ToSet(r) PROVE p \in ToSet(pending)
      <3>1. PICK j \in 1 .. n : p = r[j]
        BY <1>3, Zenon DEF ToSet
      <3>2. PICK i \in 1 .. n + 1 : i = j + 1
        BY <1>5, Zenon
      <3>3. p = pending[i]
        BY <1>3, <3>1, <3>2, Zenon
      <3> QED
        BY <1>1, <3>3, Zenon DEF ToSet
    <2>3. Head(pending) \in ToSet(pending)
      BY <1>1, <1>3, <1>5, Zenon DEF ToSet
    <2> QED
      BY <2>1, <2>2, <2>3
  <1>7. ASSUME PiecesApart(pending) PROVE PiecesApart(r)
    <2> SUFFICES ASSUME NEW x \in 1 .. n, NEW y \in 1 .. n, x < y
                 PROVE  r[x].text.last < r[y].text.first
      BY <1>3, Zenon DEF PiecesApart
    <2>1. PICK i \in 1 .. n + 1, j \in 1 .. n + 1 : i = x + 1 /\ j = y + 1 /\ i < j
      BY <1>5, Zenon
    <2>2. pending[i].text.last < pending[j].text.first
      BY <1>1, <1>7, <2>1, Zenon DEF PiecesApart
    <2> QED
      BY <1>3, <2>1, <2>2, Zenon
  <1>8. ASSUME PiecesApart(pending), NEW p \in ToSet(r) PROVE Piece.last < p.text.first
    <2>1. PICK i \in 1 .. n : p = pending[i + 1]
      BY <1>3, Zenon DEF ToSet
    <2>2. pending[1].text.last < pending[i + 1].text.first
      BY <1>1, <1>5, <1>8, Zenon DEF PiecesApart
    <2> QED
      BY <1>3, <2>1, <2>2, Zenon DEF Piece
  <1> QED
    BY <1>2, <1>4, <1>6, <1>7, <1>8, Zenon

\* The invariant, once there is a source.
LEMMA InvIs ==
    ASSUME SplitInv, stage \in {"planning", "splitting", "done"}
    PROVE  /\ SplitTypes /\ SourceOK
           /\ stage # "planning" => Remembered
           /\ task # "multi_hop" => InOrderOfSource
  BY SourceIsOK, Zenon DEF SplitInv, SplitTypes

\* What stays the same of the types.
Stays == UNCHANGED <<source, task, window, userK, stage, plan, candidate>>

\* A step of phi keeps the types if it does for leaves and pieces.
LEMMA TypesStay ==
    ASSUME SplitTypes, stage = "splitting", Stays,
           leaves' \in Seq(Within(1, Len(source))), pending' \in Seq(PendingPieces)
    PROVE  SplitTypes'
  BY DEF SplitTypes, Stays, PendingPieces

\* The model is asked about the first piece, or what is kept of it.
LEMMA LeafStep ==
    ASSUME SplitInv, stage = "splitting", pending # <<>>, Stays,
           NEW kept \in Within(Piece.first, Piece.last),
           leaves' = Append(leaves, kept), pending' = Tail(pending),
           lost' = lost, pruned' = pruned, degraded' = degraded, budget' = budget,
           cut \subseteq cut',
           \A i \in LinesOf(Piece) : i \in LinesOf(kept) \cup cut'
    PROVE  SplitInv'
  <1> DEFINE W == Within(1, Len(source))
  <1>1. SplitTypes /\ SourceOK /\ Remembered /\ (task # "multi_hop" => InOrderOfSource)
    BY InvIs
  <1>2. leaves \in Seq(W) /\ pending \in Seq(PendingPieces)
    BY <1>1, Zenon DEF SplitTypes
  <1>3. /\ Piece \in W
        /\ Tail(pending) \in Seq(PendingPieces)
        /\ ToSet(pending) = {Head(pending)} \cup ToSet(Tail(pending))
        /\ PiecesApart(pending) =>
             /\ PiecesApart(Tail(pending))
             /\ \A p \in ToSet(Tail(pending)) : Piece.last < p.text.first
    BY <1>2, PieceIs, Zenon
  <1>4. PICK f \in Int, l \in Int : /\ f = Piece.first /\ l = Piece.last
                                    /\ 1 <= f /\ l <= Len(source)
    BY <1>3 DEF Within
  <1>5. kept \in Within(f, l) /\ kept \in W
    <2>1. kept \in Within(f, l)
      BY <1>4, Zenon
    <2> QED
      BY <1>1, <1>4, <2>1, WithinWider, SourceIs
  <1>6. kept.first \in Int /\ kept.last \in Int /\ f <= kept.first /\ kept.last <= l
    BY <1>5 DEF Within
  <1> HIDE DEF W
  <1>7. PICK w : w = leaves'
    OBVIOUS
  <1>8. /\ w \in Seq(W) /\ ToSet(w) = ToSet(leaves) \cup {kept}
        /\ Apart(leaves) /\ (\A r \in ToSet(leaves) : r.last < kept.first) => Apart(w)
    <2>1. Longer(W, leaves, kept, w)
      BY <1>2, <1>5, <1>7, AppendApart, Zenon
    <2> QED
      BY <2>1, Zenon DEF Longer
  <1>9. SplitTypes'
    BY <1>1, <1>3, <1>7, <1>8, TypesStay, Zenon DEF W
  <1>10. Remembered'
    <2>1. source' = source /\ pruned' = pruned /\ lost' = lost /\ degraded' = degraded
          /\ budget' = budget
      BY DEF Stays
    <2>2. ASSUME NEW i \in 1 .. Len(source), source[i].size > 0
          PROVE  i \in LinesIn(leaves') \cup PendingLines(pending')
                         \cup cut' \cup lost \cup pruned \cup degraded
      <3>1. i \in LinesIn(leaves) \cup PendingLines(pending)
                    \cup cut \cup lost \cup pruned \cup degraded
        BY <1>1, <2>2, Zenon DEF Remembered
      <3>2. CASE i \in LinesIn(leaves)
        BY <1>7, <1>8, <3>2 DEF LinesIn
      <3>3. CASE i \in PendingLines(pending)
        <4>1. PICK p \in ToSet(pending) : i \in LinesOf(p.text)
          BY <3>3 DEF PendingLines
        <4>2. CASE p = Head(pending)
          <5>1. i \in LinesOf(kept) \cup cut'
            BY <4>1, <4>2, Zenon DEF Piece
          <5> QED
            BY <1>7, <1>8, <5>1 DEF LinesIn
        <4>3. CASE p \in ToSet(Tail(pending))
          BY <4>1, <4>3 DEF PendingLines
        <4> QED
          BY <1>3, <4>2, <4>3
      <3> QED
        BY <3>1, <3>2, <3>3
    <2> QED
      BY <1>1, <2>1, <2>2, Zenon DEF Remembered
  <1>11. ASSUME task # "multi_hop" PROVE InOrderOfSource'
    <2>1. /\ Apart(leaves) /\ PiecesApart(pending)
          /\ \A t \in ToSet(leaves), p \in ToSet(pending) : t.last < p.text.first
      BY <1>1, <1>11, Zenon DEF InOrderOfSource
    <2>2. ASSUME NEW t \in ToSet(leaves) PROVE t.last < kept.first
      <3>1. t.last < f
        <4>1. Head(pending) \in ToSet(pending)
          BY <1>3
        <4> QED
          BY <1>4, <2>1, <4>1, Zenon DEF Piece
      <3>2. t.last \in Int
        <4>1. t \in W
          BY <1>2 DEF ToSet
        <4> QED
          BY <4>1 DEF W, Within
      <3> QED
        BY <1>6, <3>1, <3>2
    <2>3. Apart(leaves')
      BY <1>7, <1>8, <2>1, <2>2, Zenon
    <2>4. ASSUME NEW p \in ToSet(Tail(pending)) PROVE kept.last < p.text.first
      <3>1. l < p.text.first
        BY <1>3, <1>4, <2>1, Zenon
      <3>2. p.text.first \in Int
        <4>1. p \in PendingPieces
          BY <1>3 DEF ToSet
        <4> QED
          BY <4>1 DEF PendingPieces, Within
      <3> QED
        BY <1>6, <3>1, <3>2
    <2>5. ASSUME NEW t \in ToSet(leaves'), NEW p \in ToSet(pending') PROVE t.last < p.text.first
      BY <1>3, <1>7, <1>8, <2>1, <2>4, <2>5
    <2> QED
      BY <1>3, <2>1, <2>3, <2>5, Zenon DEF InOrderOfSource
  <1>12. stage' = stage /\ task' = task
    BY DEF Stays
  <1> QED
    BY <1>9, <1>10, <1>11, <1>12, Zenon DEF SplitInv

\* A panic, or a lack of budget, takes the first piece with it.
LEMMA GoneStep ==
    ASSUME SplitInv, PanicInSplit \/ RefuseLeaf \/ DegradeAtPreflight
    PROVE  SplitInv'
  <1>0. /\ stage = "splitting" /\ pending # <<>> /\ Stays
        /\ leaves' = leaves /\ pending' = Tail(pending)
        /\ pruned' = pruned /\ cut' = cut /\ budget' = budget
        /\ \/ lost' = lost \cup LinesOf(Piece) /\ degraded' = degraded
           \/ /\ lost' = lost /\ degraded' = degraded \cup LinesOf(Piece)
              /\ budget # 0
    <2>1. CASE PanicInSplit
      BY <2>1 DEF PanicInSplit, Splits, Stays, inputs
    <2>2. CASE RefuseLeaf
      BY <2>2 DEF RefuseLeaf, IsLeaf, GiveUp, Stays, inputs
    <2>3. CASE DegradeAtPreflight
      <3>1. Splits /\ budget # 0 /\ GiveUp
        BY <2>3, Zenon DEF DegradeAtPreflight, Divides
      <3> QED
        BY <3>1 DEF Splits, GiveUp, Stays, inputs
    <2> QED
      BY <2>1, <2>2, <2>3
  <1>1. SplitTypes /\ SourceOK /\ Remembered /\ (task # "multi_hop" => InOrderOfSource)
    BY <1>0, InvIs
  <1>2. leaves \in Seq(Within(1, Len(source))) /\ pending \in Seq(PendingPieces)
    BY <1>1, Zenon DEF SplitTypes
  <1>3. /\ Tail(pending) \in Seq(PendingPieces)
        /\ ToSet(pending) = {Head(pending)} \cup ToSet(Tail(pending))
        /\ PiecesApart(pending) => PiecesApart(Tail(pending))
    BY <1>0, <1>2, PieceIs, Zenon
  <1>4. SplitTypes'
    BY <1>0, <1>1, <1>2, <1>3, TypesStay, Zenon
  <1>5. Remembered'
    <2>1. source' = source
      BY <1>0 DEF Stays
    <2>2. ASSUME NEW i \in 1 .. Len(source), source[i].size > 0
          PROVE  i \in LinesIn(leaves') \cup PendingLines(pending')
                         \cup cut' \cup lost' \cup pruned' \cup degraded'
      <3>1. i \in LinesIn(leaves) \cup PendingLines(pending)
                    \cup cut \cup lost \cup pruned \cup degraded
        BY <1>1, <2>2, Zenon DEF Remembered
      <3>2. i \in PendingLines(pending) => i \in LinesOf(Piece) \cup PendingLines(pending')
        BY <1>0, <1>3 DEF PendingLines, Piece
      <3> QED
        BY <1>0, <3>1, <3>2
    <2>3. degraded' # {} => budget' # 0
      BY <1>0, <1>1 DEF Remembered
    <2> QED
      BY <1>0, <1>1, <2>1, <2>2, <2>3, Zenon DEF Remembered
  <1>6. ASSUME task # "multi_hop" PROVE InOrderOfSource'
    BY <1>0, <1>1, <1>3, <1>6 DEF InOrderOfSource
  <1> QED
    BY <1>0, <1>4, <1>5, <1>6, Zenon DEF SplitInv, Stays

\* The texts of kept as pieces, in front of the others.
Joined(kept, rest, w) ==
    /\ w \in Seq(PendingPieces)
    /\ \A p \in ToSet(w) : p.text \in ToSet(kept) \/ p \in ToSet(rest)
    /\ \A t \in ToSet(kept) : \E p \in ToSet(w) : p.text = t
    /\ \A p \in ToSet(rest) : p \in ToSet(w)
    /\ Apart(kept) /\ PiecesApart(rest)
       /\ (\A t \in ToSet(kept), p \in ToSet(rest) : t.last < p.text.first) => PiecesApart(w)

\* The chunks that are kept are put in front of what is pending.
LEMMA JoinIs ==
    ASSUME NEW kept \in Seq(Within(1, Len(source))), NEW rest \in Seq(PendingPieces), NEW d \in Nat,
           NEW w, w = [c \in DOMAIN kept |-> [text |-> kept[c], depth |-> d]] \o rest
    PROVE  Joined(kept, rest, w)
  <1> DEFINE s == [c \in DOMAIN kept |-> [text |-> kept[c], depth |-> d]]
  <1>1. PICK n \in Nat : n = Len(kept) /\ DOMAIN kept = 1 .. n
    OBVIOUS
  <1>2. PICK m \in Nat : m = Len(rest) /\ DOMAIN rest = 1 .. m
    OBVIOUS
  <1>3. \A c \in 1 .. n : s[c].text = kept[c] /\ s[c] \in PendingPieces
    <2> SUFFICES ASSUME NEW c \in 1 .. n PROVE s[c].text = kept[c] /\ s[c] \in PendingPieces
      OBVIOUS
    <2>1. kept[c] \in Within(1, Len(source))
      BY <1>1
    <2>2. s[c] = [text |-> kept[c], depth |-> d]
      BY <1>1
    <2> QED
      BY <2>1, <2>2 DEF PendingPieces
  <1>4. s \in Seq(PendingPieces) /\ Len(s) = n
    <2>1. s \in [1 .. n -> PendingPieces]
      BY <1>1, <1>3
    <2> QED
      BY <2>1
  <1> HIDE DEF s
  <1>5. w = s \o rest
    BY Zenon DEF s
  <1>6. /\ w \in Seq(PendingPieces) /\ Len(w) = n + m
        /\ \A i \in 1 .. n + m : w[i] = IF i <= n THEN s[i] ELSE rest[i - n]
    <2>1. /\ s \o rest \in Seq(PendingPieces)
          /\ Len(s \o rest) = Len(s) + Len(rest)
          /\ \A i \in 1 .. Len(s) + Len(rest) :
               (s \o rest)[i] = IF i <= Len(s) THEN s[i] ELSE rest[i - Len(s)]
      BY <1>4, ConcatProperties, Zenon
    <2>2. Len(s) = n /\ Len(rest) = m
      BY <1>2, <1>4, Zenon
    <2> QED
      BY <1>5, <2>1, <2>2
  <1>7. DOMAIN w = 1 .. n + m
    BY <1>6, LenProperties
  <1>8. \A i \in 1 .. n + m : (i \in 1 .. n /\ i <= n) \/ (i - n \in 1 .. m /\ ~(i <= n))
    OBVIOUS
  <1>9. \A i \in 1 .. n : i \in 1 .. n + m /\ i <= n
    OBVIOUS
  <1>10. \A j \in 1 .. m : \E i \in 1 .. n + m : i - n = j /\ ~(i <= n)
    <2> SUFFICES ASSUME NEW j \in 1 .. m PROVE \E i \in 1 .. n + m : i - n = j /\ ~(i <= n)
      OBVIOUS
    <2>1. n + j \in 1 .. n + m /\ (n + j) - n = j /\ ~(n + j <= n)
      OBVIOUS
    <2> QED
      BY <2>1
  <1>11. ASSUME NEW p \in ToSet(w) PROVE p.text \in ToSet(kept) \/ p \in ToSet(rest)
    <2>1. PICK i \in 1 .. n + m : p = w[i]
      BY <1>7, Zenon DEF ToSet
    <2>2. CASE i \in 1 .. n /\ i <= n
      <3>1. p.text = kept[i]
        BY <1>3, <1>6, <2>1, <2>2, Zenon
      <3> QED
        BY <1>1, <2>2, <3>1, Zenon DEF ToSet
    <2>3. CASE i - n \in 1 .. m /\ ~(i <= n)
      <3>1. p = rest[i - n]
        BY <1>6, <2>1, <2>3, Zenon
      <3> QED
        BY <1>2, <2>3, <3>1, Zenon DEF ToSet
    <2> QED
      BY <1>8, <2>2, <2>3, Zenon
  <1>12. ASSUME NEW t \in ToSet(kept) PROVE \E p \in ToSet(w) : p.text = t
    <2>1. PICK i \in 1 .. n : t = kept[i]
      BY <1>1, Zenon DEF ToSet
    <2>2. w[i].text = t /\ w[i] \in ToSet(w)
      BY <1>3, <1>6, <1>7, <1>9, <2>1, Zenon DEF ToSet
    <2> QED
      BY <2>2, Zenon
  <1>13. ASSUME NEW p \in ToSet(rest) PROVE p \in ToSet(w)
    <2>1. PICK j \in 1 .. m : p = rest[j]
      BY <1>2, Zenon DEF ToSet
    <2>2. PICK i \in 1 .. n + m : i - n = j /\ ~(i <= n)
      BY <1>10, Zenon
    <2>3. w[i] = p
      BY <1>6, <2>1, <2>2, Zenon
    <2> QED
      BY <1>7, <2>3, Zenon DEF ToSet
  <1>14. ASSUME Apart(kept), PiecesApart(rest),
                \A t \in ToSet(kept), p \in ToSet(rest) : t.last < p.text.first,
                NEW x \in 1 .. n + m, NEW y \in 1 .. n + m, x < y
         PROVE  w[x].text.last < w[y].text.first
    <2>1. CASE y <= n
      <3>1. x \in 1 .. n /\ y \in 1 .. n /\ x <= n
        BY <1>14, <2>1
      <3>2. w[x].text = kept[x] /\ w[y].text = kept[y]
        BY <1>3, <1>6, <2>1, <3>1, Zenon
      <3> QED
        BY <1>1, <1>14, <3>1, <3>2, Zenon DEF Apart
    <2>2. CASE ~(x <= n)
      <3>1. x - n \in 1 .. m /\ y - n \in 1 .. m /\ x - n < y - n /\ ~(y <= n)
        BY <1>14, <2>2
      <3>2. w[x] = rest[x - n] /\ w[y] = rest[y - n]
        BY <1>6, <2>2, <3>1, Zenon
      <3> QED
        BY <1>2, <1>14, <3>1, <3>2, Zenon DEF PiecesApart
    <2>3. CASE x <= n /\ ~(y <= n)
      <3>1. x \in 1 .. n /\ y - n \in 1 .. m
        BY <2>3
      <3>2. w[x].text = kept[x] /\ w[y] = rest[y - n]
        BY <1>3, <1>6, <2>3, <3>1, Zenon
      <3>3. kept[x] \in ToSet(kept) /\ rest[y - n] \in ToSet(rest)
        BY <1>1, <1>2, <3>1, Zenon DEF ToSet
      <3> QED
        BY <1>14, <3>2, <3>3, Zenon
    <2> QED
      BY <2>1, <2>2, <2>3, Zenon
  <1>15. Apart(kept) /\ PiecesApart(rest)
         /\ (\A t \in ToSet(kept), p \in ToSet(rest) : t.last < p.text.first) => PiecesApart(w)
    BY <1>7, <1>14, Zenon DEF PiecesApart
  <1> QED
    BY <1>6, <1>11, <1>12, <1>13, <1>15, Zenon DEF Joined

\* The chunks of the first piece take its place, but those without a keyword.
LEMMA SplitStep ==
    ASSUME SplitInv, Split
    PROVE  SplitInv'
  <1> DEFINE W == Within(1, Len(source))
             chunks == Chunks
             S == {t \in ToSet(chunks) : ~Filtered(t)}
             kept == Keep(chunks, S)
  <1>0. /\ stage = "splitting" /\ pending # <<>> /\ Stays
        /\ Size(Piece) > plan.tau /\ Depth < plan.depth
        /\ ~(task = "multi_hop" /\ SplitPanics(Piece, plan.k))
        /\ leaves' = leaves /\ lost' = lost /\ degraded' = degraded /\ budget' = budget
        /\ pending' = [c \in DOMAIN kept |-> [text |-> kept[c], depth |-> Depth + 1]]
                      \o Tail(pending)
        /\ pruned' = pruned \cup (LinesIn(chunks) \ LinesIn(kept))
        /\ cut' = IF Len(chunks) = MaxChunks
                  THEN cut \cup (LinesOf(Piece) \ LinesIn(chunks)) ELSE cut
    BY DEF Split, Divides, Splits, Kept, Stays, inputs
  <1>1. /\ SplitTypes /\ SourceOK /\ Remembered /\ PlanOK(plan)
        /\ task # "multi_hop" => InOrderOfSource
    BY <1>0, InvIs DEF SplitTypes
  <1>2. leaves \in Seq(W) /\ pending \in Seq(PendingPieces)
    BY <1>1, Zenon DEF SplitTypes
  <1>3. /\ Piece \in W /\ Depth \in Nat
        /\ Tail(pending) \in Seq(PendingPieces)
        /\ ToSet(pending) = {Head(pending)} \cup ToSet(Tail(pending))
        /\ PiecesApart(pending) =>
             /\ PiecesApart(Tail(pending))
             /\ \A p \in ToSet(Tail(pending)) : Piece.last < p.text.first
    BY <1>0, <1>2, PieceIs, Zenon
  <1>4. PICK f \in Int, l \in Int : /\ f = Piece.first /\ l = Piece.last
                                    /\ 1 <= f /\ l <= Len(source)
    BY <1>3 DEF Within
  <1>5. ChunkedAs(chunks, Piece) /\ (task # "multi_hop" => Apart(chunks))
    BY <1>0, <1>1, <1>3, ChunksAre, Zenon
  <1> HIDE DEF chunks
  <1>6. /\ chunks \in Seq(Within(f, l)) /\ (Parts(chunks, Piece) \/ Len(chunks) = MaxChunks)
    BY <1>4, <1>5, Zenon DEF ChunkedAs
  <1>7. \A t \in Within(f, l) : t \in W
    BY <1>1, <1>4, WithinWider, SourceIs
  <1> HIDE DEF S
  <1>8. /\ kept \in Seq(Within(f, l)) /\ ToSet(kept) = ToSet(chunks) \cap S
        /\ Apart(chunks) => Apart(kept)
    BY <1>6, KeepIs, Zenon
  <1> HIDE DEF kept, W
  <1>9. kept \in Seq(W)
    BY <1>7, <1>8
  <1>10. Joined(kept, Tail(pending), pending')
    <2>1. PICK d \in Nat : d = Depth + 1
      BY <1>3
    <2>2. PICK w : w = pending'
      OBVIOUS
    <2>3. w = [c \in DOMAIN kept |-> [text |-> kept[c], depth |-> d]] \o Tail(pending)
      BY <1>0, <2>1, <2>2, Zenon
    <2>4. PICK rest \in Seq(PendingPieces) : rest = Tail(pending)
      BY <1>3, Zenon
    <2>5. w = [c \in DOMAIN kept |-> [text |-> kept[c], depth |-> d]] \o rest
      BY <2>3, <2>4, Zenon
    <2>6. Joined(kept, rest, w)
      BY <1>9, <2>5, JoinIs, Zenon DEF W
    <2> QED
      BY <2>2, <2>4, <2>6, Zenon
  <1>11. SplitTypes'
    <2>1. pending' \in Seq(PendingPieces)
      BY <1>10, Zenon DEF Joined
    <2> QED
      BY <1>0, <1>1, <1>2, <2>1, TypesStay, Zenon DEF W
  <1>12. Remembered'
    <2>1. source' = source
      BY <1>0 DEF Stays
    <2>2. ASSUME NEW i \in 1 .. Len(source), source[i].size > 0
          PROVE  i \in LinesIn(leaves') \cup PendingLines(pending')
                         \cup cut' \cup lost' \cup pruned' \cup degraded'
      <3>1. i \in LinesIn(leaves) \cup PendingLines(pending)
                    \cup cut \cup lost \cup pruned \cup degraded
        BY <1>1, <2>2, Zenon DEF Remembered
      <3>2. i \notin PendingLines(pending) =>
              i \in LinesIn(leaves') \cup cut' \cup lost' \cup pruned' \cup degraded'
        BY <1>0, <3>1
      <3>3. CASE i \in PendingLines(pending)
        <4>1. PICK p \in ToSet(pending) : i \in LinesOf(p.text)
          BY <3>3 DEF PendingLines
        <4>2. CASE p \in ToSet(Tail(pending))
          <5>1. p \in ToSet(pending')
            BY <1>10, <4>2, Zenon DEF Joined
          <5> QED
            BY <4>1, <5>1 DEF PendingLines
        <4>3. CASE p = Head(pending)
          <5>1. i \in LinesOf(Piece)
            BY <4>1, <4>3, Zenon DEF Piece
          <5>2. CASE i \in LinesIn(kept)
            <6>1. PICK t \in ToSet(kept) : i \in LinesOf(t)
              BY <5>2 DEF LinesIn
            <6>2. PICK q \in ToSet(pending') : q.text = t
              BY <1>10, Zenon DEF Joined
            <6> QED
              BY <6>1, <6>2 DEF PendingLines
          <5>3. CASE i \in LinesIn(chunks) /\ i \notin LinesIn(kept)
            BY <1>0, <5>3
          <5>4. CASE i \notin LinesIn(chunks)
            <6>1. ~Parts(chunks, Piece)
              BY <2>2, <5>1, <5>4, Zenon DEF Parts
            <6>2. Len(chunks) = MaxChunks
              BY <1>6, <6>1, Zenon
            <6> QED
              BY <1>0, <5>1, <5>4, <6>2
          <5> QED
            BY <5>2, <5>3, <5>4, Zenon
        <4> QED
          BY <1>3, <4>2, <4>3
      <3> QED
        BY <3>2, <3>3
    <2>3. ASSUME NEW i \in pruned' PROVE ~source[i].key
      <3>1. CASE i \in pruned
        BY <1>1, <3>1, Zenon DEF Remembered
      <3>2. CASE i \in LinesIn(chunks) \ LinesIn(kept)
        <4>1. PICK t \in ToSet(chunks) : i \in LinesOf(t)
          BY <3>2 DEF LinesIn
        <4>2. t \notin ToSet(kept)
          BY <3>2, <4>1 DEF LinesIn
        <4>3. Filtered(t)
          BY <1>8, <4>1, <4>2 DEF S
        <4> QED
          BY <4>1, <4>3 DEF Filtered, KeywordMatches
      <3> QED
        BY <1>0, <3>1, <3>2
    <2> QED
      BY <1>0, <1>1, <2>1, <2>2, <2>3, Zenon DEF Remembered
  <1>13. ASSUME task # "multi_hop" PROVE InOrderOfSource'
    <2>1. /\ Apart(leaves) /\ PiecesApart(pending)
          /\ \A t \in ToSet(leaves), p \in ToSet(pending) : t.last < p.text.first
      BY <1>1, <1>13, Zenon DEF InOrderOfSource
    <2>2. ASSUME NEW t \in ToSet(kept)
          PROVE  t.first \in Int /\ t.last \in Int /\ f <= t.first /\ t.last <= l
      <3>1. t \in Within(f, l)
        BY <1>8 DEF ToSet
      <3> QED
        BY <3>1 DEF Within
    <2>3. ASSUME NEW t \in ToSet(kept), NEW p \in ToSet(Tail(pending)) PROVE t.last < p.text.first
      <3>1. l < p.text.first
        BY <1>3, <1>4, <2>1, Zenon
      <3>2. p.text.first \in Int
        <4>1. p \in PendingPieces
          BY <1>3 DEF ToSet
        <4> QED
          BY <4>1 DEF PendingPieces, Within
      <3>3. t.last \in Int /\ t.last <= l
        BY <2>2, Zenon
      <3> QED
        BY <3>1, <3>2, <3>3
    <2>4. PiecesApart(pending')
      <3>1. Apart(kept) /\ PiecesApart(Tail(pending))
        BY <1>3, <1>5, <1>8, <1>13, <2>1, Zenon
      <3> QED
        BY <1>10, <2>3, <3>1, Zenon DEF Joined
    <2>5. ASSUME NEW t \in ToSet(leaves), NEW p \in ToSet(pending') PROVE t.last < p.text.first
      <3>1. CASE p \in ToSet(Tail(pending))
        BY <1>3, <2>1, <3>1
      <3>2. CASE p.text \in ToSet(kept)
        <4>1. t.last < f
          <5>1. Head(pending) \in ToSet(pending)
            BY <1>3
          <5> QED
            BY <1>4, <2>1, <5>1, Zenon DEF Piece
        <4>2. t.last \in Int
          <5>1. t \in W
            BY <1>2 DEF ToSet
          <5> QED
            BY <5>1 DEF W, Within
        <4>3. p.text.first \in Int /\ f <= p.text.first
          BY <2>2, <3>2, Zenon
        <4> QED
          BY <4>1, <4>2, <4>3
      <3> QED
        BY <1>10, <3>1, <3>2, Zenon DEF Joined
    <2> QED
      BY <1>0, <2>1, <2>4, <2>5, Zenon DEF InOrderOfSource
  <1> QED
    BY <1>0, <1>11, <1>12, <1>13, Zenon DEF SplitInv, Stays

\* The invariant holds of an analysis that begins.
LEMMA InitRemembers ==
    ASSUME Init
    PROVE  SplitInv
  <1>1. CASE stage = "idle"
    BY <1>1, Zenon DEF SplitInv
  <1>2. CASE SplitInit
    <2>1. /\ source \in Sources /\ window \in Nat /\ userK \in Nat /\ candidate \in Nat
          /\ stage = "planning" /\ plan = <<>> /\ leaves = <<>> /\ pending = <<>> /\ pruned = {}
          /\ degraded = {}
      BY <1>2, SplittingAssumption DEF SplitInit
    <2>2. leaves \in Seq(Within(1, Len(source))) /\ pending \in Seq(PendingPieces)
      BY <2>1, EmptySeq, Zenon
    <2>3. SplitTypes
      BY <2>1, <2>2 DEF SplitTypes
    <2>4. InOrderOfSource
      BY <2>1 DEF InOrderOfSource, Apart, PiecesApart, ToSet
    <2> QED
      BY <2>1, <2>3, <2>4, Zenon DEF SplitInv
  <1> QED
    BY <1>1, <1>2 DEF Init, SplitIdle

\* Planning leaves the lines alone.
LEMMA PlanningStep ==
    ASSUME SplitInv, MakePlan \/ Replan
    PROVE  SplitInv'
  <1>0. /\ stage = "planning" /\ stage' = stage
        /\ UNCHANGED <<source, task, window, userK, leaves, pending, pruned, degraded>>
    BY DEF MakePlan, Replan, inputs
  <1>1. /\ SplitTypes /\ SourceOK /\ (task # "multi_hop" => InOrderOfSource)
    BY <1>0, InvIs
  <1>2. /\ window \in Nat /\ userK \in Nat /\ candidate \in Nat /\ Size(Whole) \in Nat
        /\ plan = <<>> \/ PlanOK(plan)
    BY <1>0, <1>1, WholeIs DEF SplitTypes
  <1>3. candidate' \in Nat /\ (plan' = <<>> \/ PlanOK(plan'))
    <2>1. CASE MakePlan
      BY <1>2, <2>1, PlansAreOK DEF MakePlan
    <2>2. CASE Replan
      <3>1. candidate' \in Nat
        BY <1>2, <2>2 DEF Replan
      <3>2. PICK p \in Plans(Size(Whole), candidate', window) :
              plan' = IF p.calls < plan.calls THEN p ELSE plan
        BY <2>2 DEF Replan
      <3>3. PlanOK(p)
        BY <1>2, <3>1, PlansAreOK, Zenon
      <3> QED
        BY <1>2, <3>1, <3>2, <3>3
    <2> QED
      BY <2>1, <2>2
  <1>4. SplitTypes'
    BY <1>0, <1>1, <1>3 DEF SplitTypes, PendingPieces
  <1>5. InOrderOfSource => InOrderOfSource'
    BY <1>0 DEF InOrderOfSource
  <1> QED
    BY <1>0, <1>1, <1>4, <1>5, Zenon DEF SplitInv

\* A sequence of one.
LEMMA Single ==
    ASSUME NEW D, NEW x \in D
    PROVE  <<x>> \in Seq(D) /\ ToSet(<<x>>) = {x} /\ Apart(<<x>>) /\ PiecesApart(<<x>>)
  BY DEF ToSet, Apart, PiecesApart

\* A direct dispatch asks about the whole source.
LEMMA DispatchStep ==
    ASSUME SplitInv, DispatchDirectly
    PROVE  SplitInv'
  <1>0. /\ stage = "planning" /\ stage' = "done" /\ leaves' = <<Whole>>
        /\ UNCHANGED <<source, task, window, userK, candidate, pending, pruned, degraded>>
    BY DEF DispatchDirectly, inputs
  <1>1. /\ SplitTypes /\ SourceOK
    BY <1>0, InvIs
  <1>2. /\ pending = <<>> /\ pruned = {} /\ degraded = {}
        /\ ToSet(pending) = {} /\ PiecesApart(pending)
    BY <1>0, <1>1 DEF SplitTypes, ToSet, PiecesApart
  <1>3. Whole \in Within(1, Len(source)) /\ LinesOf(Whole) = 1 .. Len(source)
    BY <1>1, WholeIs, Zenon
  <1>4. /\ leaves' \in Seq(Within(1, Len(source))) /\ ToSet(leaves') = {Whole}
        /\ Apart(leaves')
    BY <1>0, <1>3, Single, Zenon
  <1>5. SplitTypes'
    BY <1>0, <1>1, <1>2, <1>4 DEF SplitTypes, PendingPieces
  <1>6. Remembered'
    <2>1. LinesIn(leaves') = 1 .. Len(source)
      BY <1>3, <1>4 DEF LinesIn
    <2> QED
      BY <1>0, <1>2, <2>1 DEF Remembered
  <1>7. InOrderOfSource'
    BY <1>0, <1>2, <1>4, Zenon DEF InOrderOfSource
  <1> QED
    BY <1>5, <1>6, <1>7, Zenon DEF SplitInv

\* What is cut off the source before the first split is accounted for.
LEMMA ExecuteStep ==
    ASSUME SplitInv, Execute
    PROVE  SplitInv'
  <1> DEFINE kept == Prefix(Whole, MaxInput)
             piece == [text |-> kept, depth |-> 0]
  <1>0. /\ stage = "planning" /\ stage' = "splitting" /\ plan # <<>>
        /\ pending' = <<piece>> /\ cut' = LinesOf(Whole) \ LinesOf(kept)
        /\ UNCHANGED <<source, task, window, userK, candidate, plan, leaves, lost, pruned,
                       degraded>>
    BY DEF Execute, inputs
  <1>1. /\ SplitTypes /\ SourceOK
    BY <1>0, InvIs
  <1>2. /\ leaves = <<>> /\ pruned = {} /\ degraded = {} /\ ToSet(leaves) = {}
        /\ Apart(leaves) /\ PlanOK(plan)
        /\ leaves \in Seq(Within(1, Len(source)))
    BY <1>0, <1>1 DEF SplitTypes, ToSet, Apart
  <1>3. Whole \in Within(1, Len(source)) /\ LinesOf(Whole) = 1 .. Len(source)
    BY <1>1, WholeIs, Zenon
  <1>4. kept \in Within(1, Len(source))
    <2>1. MaxInput \in Nat
      BY SplittingAssumption
    <2>2. kept \in Within(Whole.first, Whole.last)
      BY <1>1, <1>3, <2>1, PrefixIs, Zenon
    <2>3. /\ Whole.first \in Int /\ Whole.last \in Int
          /\ 1 <= Whole.first /\ Whole.last <= Len(source)
      BY <1>3 DEF Within
    <2> HIDE DEF kept
    <2> QED
      BY <1>1, <2>2, <2>3, WithinWider, SourceIs
  <1> HIDE DEF kept
  <1>5. piece \in PendingPieces /\ piece.text = kept
    BY <1>4 DEF PendingPieces
  <1> HIDE DEF piece
  <1>6. /\ pending' \in Seq(PendingPieces) /\ ToSet(pending') = {piece} /\ PiecesApart(pending')
    BY <1>0, <1>5, Single, Zenon
  <1>7. SplitTypes'
    BY <1>0, <1>1, <1>2, <1>6 DEF SplitTypes, PendingPieces
  <1>8. Remembered'
    <2>1. PendingLines(pending') = LinesOf(kept)
      BY <1>5, <1>6 DEF PendingLines
    <2> QED
      BY <1>0, <1>2, <1>3, <2>1 DEF Remembered
  <1>9. InOrderOfSource'
    BY <1>0, <1>2, <1>6, Zenon DEF InOrderOfSource
  <1> QED
    BY <1>7, <1>8, <1>9, Zenon DEF SplitInv

\* At the depth limit a leaf is cut, and the rest accounted for.
LEMMA AskStep ==
    ASSUME SplitInv, AskLeaf \/ CutLeaf
    PROVE  SplitInv'
  <1>0. stage = "splitting" /\ pending # <<>>
    BY DEF AskLeaf, CutLeaf, IsLeaf
  <1>1. SplitTypes /\ SourceOK
    BY <1>0, InvIs
  <1>2. Piece \in Within(1, Len(source)) /\ plan.tau \in Nat
    BY <1>0, <1>1, PieceIs, Zenon DEF SplitTypes, PlanOK
  <1>3. PICK kept \in Within(Piece.first, Piece.last) :
          /\ Stays /\ leaves' = Append(leaves, kept) /\ pending' = Tail(pending)
          /\ lost' = lost /\ pruned' = pruned /\ degraded' = degraded
          /\ budget' = budget /\ cut \subseteq cut'
          /\ \A i \in LinesOf(Piece) : i \in LinesOf(kept) \cup cut'
    <2>1. CASE AskLeaf
      <3>1. Piece \in Within(Piece.first, Piece.last)
        BY <1>2 DEF Within
      <3>2. /\ Stays /\ leaves' = Append(leaves, Piece) /\ pending' = Tail(pending)
            /\ lost' = lost /\ pruned' = pruned /\ degraded' = degraded
          /\ budget' = budget /\ cut \subseteq cut'
            /\ \A i \in LinesOf(Piece) : i \in LinesOf(Piece) \cup cut'
        BY <2>1 DEF AskLeaf, Stays, inputs
      <3> QED
        BY <3>1, <3>2, Zenon
    <2>2. CASE CutLeaf
      <3>1. PICK p : p = Prefix(Piece, plan.tau)
        OBVIOUS
      <3>2. p \in Within(Piece.first, Piece.last)
        BY <1>1, <1>2, <3>1, PrefixIs, Zenon
      <3>3. /\ Stays /\ leaves' = Append(leaves, p) /\ pending' = Tail(pending)
            /\ lost' = lost /\ pruned' = pruned /\ degraded' = degraded
            /\ budget' = budget
            /\ cut' = cut \cup (LinesOf(Piece) \ LinesOf(p))
        BY <2>2, <3>1 DEF CutLeaf, Stays, inputs
      <3>4. cut \subseteq cut' /\ \A i \in LinesOf(Piece) : i \in LinesOf(p) \cup cut'
        BY <3>3
      <3> QED
        BY <3>2, <3>3, <3>4, Zenon
    <2> QED
      BY <2>1, <2>2
  <1> QED
    BY <1>0, <1>3, LeafStep, Zenon

\* An analysis ends when nothing is pending.
LEMMA FinishStep ==
    ASSUME SplitInv, Finish
    PROVE  SplitInv'
  <1>0. /\ stage = "splitting" /\ stage' = "done" /\ pending = <<>>
        /\ UNCHANGED <<source, task, window, userK, candidate, plan, leaves, pending, cut, lost,
                       pruned, degraded, budget>>
    BY DEF Finish, inputs
  <1>1. /\ SplitTypes /\ SourceOK /\ Remembered /\ (task # "multi_hop" => InOrderOfSource)
    BY <1>0, InvIs
  <1>2. SplitTypes'
    BY <1>0, <1>1 DEF SplitTypes, PendingPieces
  <1>3. Remembered'
    BY <1>0, <1>1, Zenon DEF Remembered
  <1>4. InOrderOfSource => InOrderOfSource'
    BY <1>0 DEF InOrderOfSource
  <1> QED
    BY <1>0, <1>1, <1>2, <1>3, <1>4, Zenon DEF SplitInv

\* Every step keeps the invariant, the steps of a request trivially.
LEMMA NothingForgotten ==
    ASSUME SplitInv, [Next]_<<splitVars, requestVars>>
    PROVE  SplitInv'
  <1>1. CASE UNCHANGED splitVars
    <2>1. UNCHANGED <<source, task, window, userK, stage, plan, candidate, leaves, pending, cut,
                      lost, pruned, degraded, budget>>
      BY <1>1 DEF splitVars, inputs
    <2> QED
      BY <2>1 DEF SplitInv, SplitTypes, Remembered, InOrderOfSource, PendingPieces
  <1>2. CASE SplitNext
    BY <1>2, DispatchStep, PlanningStep, ExecuteStep, AskStep, GoneStep, SplitStep, FinishStep
       DEF SplitNext
  <1> QED
    BY <1>1, <1>2 DEF Next

\* However a source is taken apart, whatever the plan, the limits and the
\* lengths of its lines, every line that is not blank is asked about, or
\* accounted for as cut, lost, pruned, or, under a budget, degraded; without
\* overlap none is asked about twice, and none out of order (run_analysis,
\* phi, combinator.rs).
THEOREM NoLineForgotten == Spec => []EveryLineAsked
  <1>1. Init => SplitInv
    BY InitRemembers
  <1>2. SplitInv /\ [Next]_<<splitVars, requestVars>> => SplitInv'
    BY NothingForgotten
  <1>3. SplitInv => EveryLineAsked
    <2> SUFFICES ASSUME SplitInv, stage = "done" PROVE EveryLineAsked
      BY DEF EveryLineAsked
    <2>1. /\ SplitTypes /\ SourceOK /\ Remembered /\ (task # "multi_hop" => InOrderOfSource)
      BY InvIs
    <2>2. PendingLines(pending) = {}
      BY <2>1 DEF SplitTypes, PendingLines, ToSet
    <2>3. DOMAIN source = 1 .. Len(source)
      BY <2>1, SourceIs
    <2> QED
      BY <2>1, <2>2, <2>3 DEF EveryLineAsked, Remembered, InOrderOfSource, Apart
  <1> QED
    BY <1>1, <1>2, <1>3, PTL DEF Spec
=============================================================================
