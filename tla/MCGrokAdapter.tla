---------------------------- MODULE MCGrokAdapter ----------------------------
(***************************************************************************)
(* GrokAdapter with two bench threads.                                     *)
(***************************************************************************)
EXTENDS GrokAdapter

CONSTANTS t1, t2

TwoCallers == {t1, t2}
TwoSizes == {1, 8}

=============================================================================
