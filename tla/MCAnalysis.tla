------------------------------ MODULE MCAnalysis ------------------------------
(* Sources of up to four lines of five kinds, and of five plain lines; and   *)
(* streams of up to two data lines or comments, with line ends of all kinds  *)
(* in between, and one stream of three.                                      *)
EXTENDS Analysis

Line(size, def, key) == [size |-> size, def |-> def, key |-> key]
Kinds == {Line(0, FALSE, FALSE), Line(1, FALSE, FALSE), Line(2, TRUE, FALSE),
          Line(3, FALSE, TRUE), Line(6, FALSE, FALSE)}
FewSources ==
    UNION {[1 .. n -> Kinds] : n \in 1 .. 4}
    \cup [1 .. 5 -> {Line(1, FALSE, FALSE), Line(2, TRUE, TRUE)}]
AllTasks == {"search", "summarise", "multi_hop", "classify"}

Gaps(n) == UNION {[1 .. m -> {"CR", "LF"}] : m \in 1 .. n}
Lead == {"text", "cut", "done", "comment"}
TwoLines ==
    {pre \o <<x>> \o g \o <<y>> \o h :
        pre \in {<<>>, <<"bom1", "bom2">>}, x \in Lead, y \in {"text", "done"},
        g \in Gaps(3) \cup {<<"CR", "LF", "CR", "LF">>}, h \in {<<>>} \cup Gaps(2)}
    \cup {<<"text", "LF", "LF", "text", "LF", "LF", "done", "LF">>}
More ==
    {<<x, "LF", "LF", "done", "CR", "LF">> : x \in {"text", "cut", "comment"}}
Answers ==
    {[text |-> t, cut |-> c] : t \in {<<>>, <<1>>}, c \in BOOLEAN}
=============================================================================
