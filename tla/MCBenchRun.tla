----------------------------- MODULE MCBenchRun -----------------------------
(***************************************************************************)
(* BenchRun on small command lines.                                        *)
(***************************************************************************)
EXTENDS BenchRun

OpjThenGrok == <<"openjpeg", "grok">>
GrokOnly == <<"grok">>

TwoCounts == <<1, 8>>
EightOnly == <<8>>
Both == BOOLEAN
OnlyJsonl == {TRUE}
=============================================================================
