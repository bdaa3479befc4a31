---------------------------- MODULE MCRoiDecode ----------------------------
(* RoiDecode with three-bit words, four-bit pairs of bytes: every rectangle *)
(* across, the ones at the edges down, on every image of up to three by     *)
(* three samples and two planes; precisions of one byte, two, and more.     *)
EXTENDS RoiDecode

EveryAcross == [w : 0..7, x : 0..7, h : {0, 1, 2, 7}, y : {0, 1, 2}]
SomeValues ==
    {[prec |-> 2, sgnd |-> FALSE, opj |-> 3, grok |-> 2],
     [prec |-> 2, sgnd |-> TRUE, opj |-> -2, grok |-> -1],
     [prec |-> 3, sgnd |-> FALSE, opj |-> 3, grok |-> 7],
     [prec |-> 4, sgnd |-> TRUE, opj |-> -8, grok |-> 7],
     [prec |-> 5, sgnd |-> FALSE, opj |-> 1, grok |-> 17]}
=============================================================================
