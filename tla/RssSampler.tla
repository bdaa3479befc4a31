----------------------------- MODULE RssSampler -----------------------------
(***************************************************************************)
(* SampledRssPeak of src/rss.cpp: the bench's thread starts the sampler,   *)
(* works, stops it and may stop it again (the destructor does); the poll   *)
(* thread samples until the flag running_ is false.  peak_kb_ is raised    *)
(* with compare-and-swap loops, one atomic access per action.              *)
(*                                                                         *)
(* The resident set size is external: it changes at any time, MaxChanges   *)
(* times at most.  Init, Next and Spec carry a prefix, so that this module *)
(* can be extended beside BenchFile, whose calls start and stop a sampler. *)
(***************************************************************************)
EXTENDS Naturals

CONSTANTS Sizes,       \* the values of VmRSS
          MaxChanges   \* bound: how often the size changes

ASSUME SamplerAssumption ==
    Sizes \subseteq Nat \ {0} /\ Sizes # {} /\ MaxChanges \in Nat

VARIABLES running,   \* running_
          peak,      \* peak_kb_
          thr,       \* where the poll thread is
          kb, prev,  \* its locals
          place,     \* where the bench's thread is
          mkb, mprev,\* the locals of stop()
          result,    \* what stop() returned; 0 before
          rss,       \* VmRSS
          changes,   \* bound
          seen,      \* history: the largest sample read so far
          top        \* history: the largest VmRSS since start()

thread == <<thr, kb, prev>>
caller == <<place, mkb, mprev, result>>
history == <<seen, top>>
samplerVars == <<running, peak, thread, caller, rss, changes, history>>
-----------------------------------------------------------------------------
Larger(a, b) == IF a < b THEN b ELSE a

\* Types: a peak or a result is one of the sizes, or 0 before any sample.
SamplerTypeOK ==
    /\ running \in BOOLEAN
    /\ peak \in {0} \cup Sizes
    /\ thr \in {"none", "test", "sample", "load", "raise", "sleep", "ended"}
    /\ kb \in {0} \cup Sizes /\ prev \in {0} \cup Sizes
    /\ place \in {"new", "started", "working", "clear", "join", "last", "load", "raise",
               "return", "stopped"}
    /\ mkb \in {0} \cup Sizes /\ mprev \in {0} \cup Sizes
    /\ result \in {0} \cup Sizes
    /\ rss \in Sizes
    /\ changes \in 0..MaxChanges
    /\ seen \in {0} \cup Sizes /\ top \in {0} \cup Sizes

SamplerInit ==
    /\ running = FALSE
    /\ peak = 0
    /\ thr = "none" /\ kb = 0 /\ prev = 0
    /\ place = "new" /\ mkb = 0 /\ mprev = 0 /\ result = 0
    /\ rss \in Sizes
    /\ changes = 0
    /\ seen = 0 /\ top = 0

\* The size changes: pages are touched, or the heap is trimmed.
Change ==
    /\ changes < MaxChanges
    /\ rss' \in Sizes \ {rss}
    /\ changes' = changes + 1
    /\ top' = IF place = "new" THEN top ELSE Larger(top, rss')
    /\ UNCHANGED <<running, peak, thread, caller, seen>>
-----------------------------------------------------------------------------
\* start(): set the flag, clear the peak, spawn the thread.
Start ==
    /\ place = "new"
    /\ running' = TRUE
    /\ place' = "started"
    /\ top' = rss
    /\ UNCHANGED <<peak, thread, mkb, mprev, result, rss, changes, seen>>

Spawn ==
    /\ place = "started"
    /\ peak' = 0
    /\ thr' = "test"
    /\ place' = "working"
    /\ UNCHANGED <<running, kb, prev, mkb, mprev, result, rss, changes, history>>

\* The poll thread: while (running_).
Test ==
    /\ thr = "test"
    /\ thr' = IF running THEN "sample" ELSE "ended"
    /\ UNCHANGED <<running, peak, kb, prev, caller, rss, changes, history>>

Sample ==
    /\ thr = "sample"
    /\ kb' = rss
    /\ seen' = Larger(seen, rss)
    /\ thr' = "load"
    /\ UNCHANGED <<running, peak, prev, caller, rss, changes, top>>

Load ==
    /\ thr = "load"
    /\ prev' = peak
    /\ thr' = "raise"
    /\ UNCHANGED <<running, peak, kb, caller, rss, changes, history>>

\* compare_exchange_weak, which may fail with nothing to show for it.
Raise ==
    /\ thr = "raise"
    /\ \/ /\ kb <= prev
          /\ thr' = "sleep"
          /\ UNCHANGED <<peak, prev>>
       \/ /\ kb > prev /\ peak = prev
          /\ peak' = kb
          /\ thr' = "sleep"
          /\ UNCHANGED prev
       \/ /\ kb > prev
          /\ prev' = peak
          /\ UNCHANGED <<thr, peak>>
    /\ UNCHANGED <<running, kb, caller, rss, changes, history>>

\* sleep_for(period_ms_).
Wake ==
    /\ thr = "sleep"
    /\ thr' = "test"
    /\ UNCHANGED <<running, peak, kb, prev, caller, rss, changes, history>>
-----------------------------------------------------------------------------
CallStop ==
    /\ place \in {"working", "stopped"}
    /\ place' = "clear"
    /\ UNCHANGED <<running, peak, thread, mkb, mprev, result, rss, changes, history>>

\* Mutants: stop() only reads the flag; every stop() does the rest.
ClearNothing ==
    /\ place = "clear"
    /\ place' = IF running THEN "join" ELSE "return"
    /\ UNCHANGED <<running, peak, thread, mkb, mprev, result, rss, changes, history>>

ClearAlways ==
    /\ place = "clear"
    /\ running' = FALSE
    /\ place' = "join"
    /\ UNCHANGED <<peak, thread, mkb, mprev, result, rss, changes, history>>

\* running_.exchange(false): only the first stop() does the rest.
Clear ==
    /\ place = "clear"
    /\ running' = FALSE
    /\ place' = IF running THEN "join" ELSE "return"
    /\ UNCHANGED <<peak, thread, mkb, mprev, result, rss, changes, history>>

\* Mutant: the last sample is taken while the thread still runs.
JoinNothing ==
    /\ place = "join"
    /\ place' = "last"
    /\ UNCHANGED <<running, peak, thread, mkb, mprev, result, rss, changes, history>>

Join ==
    /\ place = "join"
    /\ thr = "ended"
    /\ place' = "last"
    /\ UNCHANGED <<running, peak, thread, mkb, mprev, result, rss, changes, history>>

LastSample ==
    /\ place = "last"
    /\ mkb' = rss
    /\ seen' = Larger(seen, rss)
    /\ place' = "load"
    /\ UNCHANGED <<running, peak, thread, mprev, result, rss, changes, top>>

LastLoad ==
    /\ place = "load"
    /\ mprev' = peak
    /\ place' = "raise"
    /\ UNCHANGED <<running, peak, thread, mkb, result, rss, changes, history>>

LastRaise ==
    /\ place = "raise"
    /\ \/ /\ mkb <= mprev
          /\ place' = "return"
          /\ UNCHANGED <<peak, mprev>>
       \/ /\ mkb > mprev /\ peak = mprev
          /\ peak' = mkb
          /\ place' = "return"
          /\ UNCHANGED mprev
       \/ /\ mkb > mprev
          /\ mprev' = peak
          /\ UNCHANGED <<place, peak>>
    /\ UNCHANGED <<running, thread, mkb, result, rss, changes, history>>

ReturnPeak ==
    /\ place = "return"
    /\ result' = peak
    /\ place' = "stopped"
    /\ UNCHANGED <<running, peak, thread, mkb, mprev, rss, changes, history>>
-----------------------------------------------------------------------------
PollStep == Test \/ Sample \/ Load \/ Raise \/ Wake
StopStep == Clear \/ Join \/ LastSample \/ LastLoad \/ LastRaise \/ ReturnPeak

SamplerNext ==
    \/ Change
    \/ Start
    \/ Spawn
    \/ PollStep
    \/ CallStop
    \/ StopStep

SamplerSafe == SamplerInit /\ [][SamplerNext]_samplerVars

\* Both threads keep running; a compare-and-swap succeeds in the end.  The
\* bench's thread calls stop() when its work is done (in bench_file, or in
\* the destructor at the latest).
SamplerSpec ==
    /\ SamplerSafe
    /\ WF_samplerVars(Spawn) /\ WF_samplerVars(PollStep) /\ WF_samplerVars(StopStep)
    /\ SF_samplerVars(Raise /\ thr' # "raise")
    /\ SF_samplerVars(LastRaise /\ place' # "raise")
-----------------------------------------------------------------------------
\* Properties.

\* What stop() returns is the largest sample anybody read: none is lost
\* between the two compare-and-swap loops, and nothing is made up.
PeakIsLargestSample == place = "stopped" => result = seen /\ result <= top

\* A later stop() returns the same value (rss.h 39-40).
SecondStopAgrees == [][result # 0 => result' = result]_samplerVars

\* stop() returns: the poll thread sees the flag and ends.
StopReturns == place = "clear" ~> place = "stopped"
=============================================================================
