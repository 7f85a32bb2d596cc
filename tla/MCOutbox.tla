------------------------------ MODULE MCOutbox ------------------------------
(* Outbox for TLC: the constants are model values, interchangeable within a *)
(* kind.                                                                   *)
EXTENDS Outbox, TLC

Symmetry == Permutations(Sends) \cup Permutations(Receipts)
=============================================================================
