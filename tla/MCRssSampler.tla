---------------------------- MODULE MCRssSampler ----------------------------
(***************************************************************************)
(* RssSampler with three sizes; the .cfg file bounds the changes.          *)
(***************************************************************************)
EXTENDS RssSampler

ThreeSizes == 1..3

=============================================================================
