----------------------------- MODULE MCBenchFile -----------------------------
(***************************************************************************)
(* BenchFile with every combination of options that nine flags, in any     *)
(* order, can give, and small counts.                                      *)
(***************************************************************************)
EXTENDS BenchFile

UpToTwo == 0..2
OneOrTwo == 1..2
SomeTimes == {1, 2}
=============================================================================
