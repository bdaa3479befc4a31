---------------------------- MODULE MCOpjAdapter ----------------------------
(* OpjAdapter with two interchangeable bench threads and both libraries.    *)
EXTENDS OpjAdapter, TLC

Symmetry == Permutations(Callers)
=============================================================================
