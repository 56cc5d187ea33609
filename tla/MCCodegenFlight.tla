--------------------------- MODULE MCCodegenFlight ---------------------------
(* Two headless calls with one key, or an interactive call of either kind. *)
EXTENDS CodegenFlight

CONSTANTS a, b

TwoCalls == {a, b}

Only(m) == [x \in TwoCalls |-> IF x = a THEN m ELSE "absent"]
ThreeSetUps == {[x \in TwoCalls |-> "headless"], Only("inherit"), Only("pty")}

ThreeLimits == {0, 3, 4}
=============================================================================
