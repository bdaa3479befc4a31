---------------------------- MODULE MCThreadPool ----------------------------
(***************************************************************************)
(* ThreadPool on small instances: the constructor's argument and the jobs  *)
(* are given by the .cfg files.                                            *)
(***************************************************************************)
EXTENDS ThreadPool

CONSTANTS j1, j2, j3, j4

FourJobs == {j1, j2, j3, j4}

=============================================================================
