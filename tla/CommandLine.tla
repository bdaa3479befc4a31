----------------------------- MODULE CommandLine -----------------------------
(***************************************************************************)
(* The options of jp2k-bench that bench_file reads: the loop of main.cpp   *)
(* over argv.  Each flag overwrites some fields of BenchOptions as it      *)
(* comes, so the outcome depends on the order of the flags; nothing is     *)
(* checked for consistency afterwards.  Flags that exit, and the ones read *)
(* by main alone, are left out.                                            *)
(***************************************************************************)
EXTENDS Integers

CONSTANTS Warmups,         \* the values of --warmup
          Iters,           \* the values of --iters and --heavy-iters
          DefaultWarmup,   \* bound: BenchOptions::warmup (2 in the code)
          DefaultIters,    \* bound: BenchOptions::iters (20 in the code)
          MaxArgs          \* bound: the flags given

ASSUME CommandAssumption ==
    /\ Warmups \subseteq Nat /\ Iters \subseteq Nat
    /\ DefaultWarmup \in Nat /\ DefaultIters \in Nat
    /\ MaxArgs \in Nat

VARIABLES opts,   \* the options so far; in a job, opts_for_file
          args    \* how many arguments were read

Defaults ==
    [warmup |-> DefaultWarmup, iters |-> DefaultIters, verify |-> TRUE,
     roi |-> FALSE, reuse |-> FALSE, headerOnly |-> FALSE, stages |-> FALSE,
     correctness |-> FALSE, scale |-> FALSE]

\* What one argument (with its value) makes of the options so far.
AfterOne(o) ==
    {[o EXCEPT !.iters = n] : n \in Iters} \cup
    {[o EXCEPT !.warmup = n] : n \in Warmups} \cup
    {[o EXCEPT !.verify = FALSE],                              \* --no-verify
     [o EXCEPT !.roi = TRUE],                                  \* --roi
     [o EXCEPT !.reuse = TRUE],                                \* --reuse-codec
     [o EXCEPT !.headerOnly = TRUE, !.verify = FALSE],         \* --header-only
     [o EXCEPT !.stages = TRUE],                               \* --profile-stages
     [o EXCEPT !.correctness = TRUE, !.iters = 1, !.warmup = 0,
               !.verify = FALSE],                              \* --correctness
     [o EXCEPT !.scale = TRUE, !.iters = 1, !.warmup = 0,
               !.verify = FALSE, !.stages = TRUE]}             \* --scale-track

ReadArgument ==
    /\ args < MaxArgs
    /\ opts' \in AfterOne(opts)
    /\ args' = args + 1

\* opts_for_file: --heavy-iters overrides the count for the files it names.
ForFile(o) == {o} \cup {[o EXCEPT !.iters = n] : n \in Iters}
=============================================================================
