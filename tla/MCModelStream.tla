--------------------------- MODULE MCModelStream ---------------------------
(* Instances of ModelStream for TLC. *)
EXTENDS ModelStream

CONSTANTS a, b, stop, length

TwoCalls == {a, b}
TwoReasons == {stop, length}

(* The providers whose lines may be joined have many more states to a line. *)
LineBounds ==
  [p \in Providers |-> IF p = "openai" THEN 4 ELSE IF p \in {"google", "antigravity"} THEN 5 ELSE 6]

Symmetric == Permutations(TwoCalls)
=============================================================================
