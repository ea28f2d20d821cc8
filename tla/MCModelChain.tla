---------------------------- MODULE MCModelChain ----------------------------
(* Instances of ModelChain for TLC. *)
EXTENDS ModelChain

Disabled == [attempts |-> 1, budget |-> None, honours |-> FALSE, cap |-> 0,
             initial |-> 0, max |-> 0, jitter |-> 0]
Inner == [attempts |-> 3, budget |-> 3, honours |-> TRUE, cap |-> 1,
          initial |-> 1, max |-> 2, jitter |-> 1]
Outer == [attempts |-> 2, budget |-> 5, honours |-> TRUE, cap |-> 3,
          initial |-> 1, max |-> 1, jitter |-> 0]
Unbudgeted == [Outer EXCEPT !.budget = None]
Fixed == [Inner EXCEPT !.attempts = 2, !.honours = FALSE]

Layered(o, i) == [outer |-> o, inner |-> i]

SomePolicies ==
  {Layered(Disabled, Disabled), Layered(Disabled, Inner), Layered(Outer, Disabled),
   Layered(Outer, Inner), Layered(Unbudgeted, Fixed)}
=============================================================================
