----------------------------- MODULE MCScaleRun -----------------------------
(* Instances of ScaleRun: a small and a large file, peaks around the        *)
(* threshold of 10%.                                                        *)
EXTENDS ScaleRun

MCSizes == [f \in Files |-> IF f = CHOOSE g \in Files : TRUE THEN 40 ELSE 250]
MCMemMax == <<8, 12, 16, 24>>
TwoRuns == <<"base", "new">>
OneDecoder == <<"openjp2k">>
=============================================================================
