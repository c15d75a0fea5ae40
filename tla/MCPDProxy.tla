----------------------------- MODULE MCPDProxy -----------------------------
(***************************************************************************)
(* Instances of PDProxy for TLC: the tasks are model values and may be     *)
(* permuted where no liveness property is checked.                         *)
(***************************************************************************)
EXTENDS PDProxy, TLC

CONSTANTS r1, r2, r3

TwoRequests == {r1, r2}
ThreeRequests == {r1, r2, r3}

\* Prompts of one, two and too many chunks for a buffer of two slots.
SmallNeeds == {1, 2, 3}
\* Prompts that fit, for the instances about contention.
FittingNeeds == {1, 2}

Permute == Permutations(Requests)
=============================================================================
