------------------------------ MODULE MCTrust ------------------------------
(* Trust for TLC: operators, names and keys as model values; no action and no *)
(* invariant tells two operators or two keys apart.                        *)
EXTENDS Trust, TLC

Symmetry == Permutations(Operators) \cup Permutations(Keys)
=============================================================================
