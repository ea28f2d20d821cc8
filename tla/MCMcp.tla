------------------------------- MODULE MCMcp -------------------------------
(* Instances of McpToolset for TLC. *)
EXTENDS McpToolset, TLC

CONSTANTS a, b, c

TwoCallers == {a, b}
ThreeCallers == {a, b, c}
OneDroppable == {a}
Symmetric == Permutations({b, c})
=============================================================================
