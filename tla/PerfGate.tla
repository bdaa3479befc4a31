------------------------------- MODULE PerfGate -------------------------------
(***************************************************************************)
(* The performance track end to end: a subset of the synthetic corpus      *)
(* (StratifiedPick), two runs of scripts/run_bench.sh over it, and the     *)
(* merge gate of scripts/report.py --gate on the two logs.  run_bench.sh   *)
(* runs one jp2k-bench process per thread count (ResultStream), all on the *)
(* same standard output; set -e ends it at the first that fails.  A file   *)
(* of the subset that is not there, or cannot be read, is left out of the  *)
(* run and nothing fails.  One decoder stands for all, and no region is    *)
(* asked for.                                                              *)
(***************************************************************************)
EXTENDS Integers, Sequences, FiniteSets, Functions, FiniteSetsExt, SequencesExt,
        SignedRank

CONSTANTS Records,   \* the corpus, numbered in the order of the sorted paths
          Axes, Levels, Target,
          Counts,    \* THREAD_LIST
          Effects,   \* <<base time, new time>> a row may have; see Failed
          Formats,   \* JSONL=1: the possible answers
          MaxMishaps, \* bound: processes that fail and files left out of a run
          MaxOdd,    \* bound: the files whose rows differ from all others
          NoRow

\* The time of a row that carries an error; a measured one has at least 0.
Failed == -1
Pct == 5   \* --regression-threshold-pct

ASSUME GateAssumption ==
    /\ Records \subseteq Nat /\ IsFiniteSet(Records) /\ Target \in Nat
    /\ Counts \in Seq(Nat \ {0}) /\ Counts # <<>>
    /\ Effects \subseteq (Nat \cup {Failed}) \X (Nat \cup {Failed})
    /\ Formats \subseteq BOOLEAN /\ MaxMishaps \in Nat /\ MaxOdd \in Nat

VARIABLES level, toVisit, chosen, pc,   \* stratified_pick
          effect,    \* what the two builds make of each chosen file and count
          jsonl, out, status,           \* the process now running
          run,       \* 1 the baseline, 2 the new build; 0 before, 3 after
          turn,      \* index in Counts of the running process
          log,       \* what the processes before it left in each run's log
          failed,    \* the runs that stopped at a failing process
          skipped,   \* the files each run leaves out, with the turn
          verdict    \* the exit code of report.py, or "none"

picking == <<level, toVisit, chosen, pc>>
process == <<jsonl, out, status>>
vars == <<picking, process, effect, run, turn, log, failed, skipped, verdict>>
-----------------------------------------------------------------------------
Rows == Records \X ToSet(Counts)
Pick == INSTANCE StratifiedPick
Stream == INSTANCE ResultStream

Init ==
    /\ Pick!Init
    /\ effect = <<>>
    /\ jsonl \in Formats /\ out = <<>> /\ status = "idle"
    /\ run = 0 /\ turn = 1
    /\ log = <<<<>>, <<>>>>
    /\ failed = {}
    /\ skipped = <<{}, {}>>
    /\ verdict = "none"

MakeSubset ==
    /\ run = 0
    /\ Pick!Next
    /\ UNCHANGED <<process, effect, run, turn, log, failed, skipped, verdict>>

\* The mishaps of both runs, a file left out at several turns counted once.
Bounded(stopped, missed) ==
    Cardinality(stopped) + Cardinality({m[1] : m \in missed[1]})
        + Cardinality({m[1] : m \in missed[2]}) <= MaxMishaps

\* run_bench.sh collects the files that are there: a missing one reaches no
\* process, and with none left the run fails before the first.
Starts(r) ==
    /\ \/ status' = "failed" /\ UNCHANGED skipped
       \/ \E missing \in SUBSET chosen :
              /\ missing # chosen
              /\ status' = "running"
              /\ skipped' = [skipped EXCEPT ![r] = missing \X DOMAIN Counts]
    /\ Bounded(failed' \cup (IF status' = "failed" THEN {r} ELSE {}), skipped')

FirstRun ==
    /\ run = 0 /\ pc = "done"
    /\ run' = 1
    /\ UNCHANGED <<picking, jsonl, out, effect, turn, log, failed, verdict>>
    /\ Starts(1)

\* The files the running process has behind it, with a row or without.
Passed ==
    {f \in chosen : \/ <<f, Counts[turn]>> \in Stream!Reported
                    \/ <<f, turn>> \in skipped[run]}

\* The file the process has come to.
Current(f) == f \in chosen \ Passed /\ \A g \in chosen \ Passed : f <= g

\* The running process writes its lines, the files in their order.
InOrder ==
    Len(out') > Len(out) =>
        LET l == out'[Len(out')]
        IN  /\ l.what = "row" => Current(l.row[1]) /\ l.row[2] = Counts[turn]
            /\ l.what = "aggregate" => Passed = chosen

Bench ==
    /\ status = "running"
    /\ Stream!Next /\ InOrder
    /\ status' = "failed" => Bounded(failed \cup {run}, skipped)
    /\ UNCHANGED <<picking, effect, run, turn, log, failed, skipped, verdict>>

\* The file is empty or cannot be read: a message on stderr, and continue.
Skip ==
    /\ status = "running" /\ ~Stream!Torn /\ ~Stream!Complete
    /\ jsonl => out # <<>>
    /\ \E f \in chosen \ Passed :
           /\ jsonl => Current(f)
           /\ skipped' = [skipped EXCEPT ![run] = @ \cup {<<f, turn>>}]
    /\ Bounded(failed, skipped')
    /\ UNCHANGED <<picking, process, effect, run, turn, log, failed, verdict>>

\* What is appended to a line cut short belongs to that line.
Join(old, new) ==
    IF old # <<>> /\ ~old[Len(old)].whole /\ new # <<>>
    THEN old \o Tail(new) ELSE old \o new

\* Mutant: without set -e the next thread count runs all the same.
NextProcessAnyway ==
    /\ run \in {1, 2} /\ status \in {"done", "failed"}
    /\ log' = [log EXCEPT ![run] = Join(@, out)]
    /\ failed' = IF status = "failed" THEN failed \cup {run} ELSE failed
    /\ out' = <<>>
    /\ IF turn < Len(Counts)
       THEN turn' = turn + 1 /\ run' = run /\ status' = "running" /\ UNCHANGED skipped
       ELSE /\ turn' = 1 /\ run' = run + 1
            /\ IF run = 1 THEN Starts(2) ELSE status' = "idle" /\ UNCHANGED skipped
    /\ UNCHANGED <<picking, effect, jsonl, verdict>>

\* The process has ended: on to the next thread count, or the run is over.
NextProcess ==
    /\ run \in {1, 2} /\ status \in {"done", "failed"}
    /\ log' = [log EXCEPT ![run] = Join(@, out)]
    /\ failed' = IF status = "failed" THEN failed \cup {run} ELSE failed
    /\ out' = <<>>
    /\ IF status = "done" /\ turn < Len(Counts)
       THEN turn' = turn + 1 /\ run' = run /\ status' = "running" /\ UNCHANGED skipped
       ELSE /\ turn' = 1 /\ run' = run + 1
            /\ IF run = 1 THEN Starts(2) ELSE status' = "idle" /\ UNCHANGED skipped
    /\ UNCHANGED <<picking, effect, jsonl, verdict>>
-----------------------------------------------------------------------------
(* report.py                                                                *)

\* _load: a first line with "type" and "run" makes it a stream, which needs a
\* run line that parses; anything else must be one document.
Loads(lines) ==
    /\ lines # <<>>
    /\ IF lines[1].what = "run"
       THEN \E i \in DOMAIN lines : lines[i].what = "run" /\ lines[i].whole
       ELSE Len(lines) = 1 /\ lines[1].whole

\* A loop that appends the lines of S to a list, in their order.
Kept(lines, S) ==
    LET kept[n \in 0..Len(lines)] ==
            IF n = 0 THEN <<>>
            ELSE IF lines[n] \in S THEN Append(kept[n - 1], lines[n])
            ELSE kept[n - 1]
    IN  kept[Len(lines)]

\* The lines of a log that parse as results.
Results(lines) == {l \in ToSet(lines) : l.what = "row" /\ l.whole}

\* Mutant: a run line starts the results over.
LoadedOfLastRun(r) ==
    LET lines == log[r]
        headers == {i \in DOMAIN lines : lines[i].what = "run"}
    IN  Kept(SubSeq(lines, Max(headers \cup {1}), Len(lines)), Results(lines))

\* The files in the order of their paths.
ByPath(files) == SetToSortSeq(files, <)

\* The results of a run, in the order of its log; a document has its process's
\* rows.
Loaded(r) ==
    IF jsonl THEN Kept(log[r], Results(log[r]))
    ELSE LET files == ByPath({f \in chosen : <<f, 1>> \notin skipped[r]})
         IN  [k \in DOMAIN files |-> [what |-> "row", row |-> <<files[k], Counts[1]>>,
                                      whole |-> TRUE]]

Base(l) == effect[l.row][1]
New(l) == effect[l.row][2]

\* The rows timed in the baseline and not failed in the new run.
Paired ==
    LET base == Loaded(1)
        new == {l.row : l \in ToSet(Loaded(2))}
    IN  Kept(base, {l \in ToSet(base) : Base(l) > 0 /\ l.row \in new /\ New(l) # Failed})

Deltas == LET p == Paired IN [k \in DOMAIN p |-> New(p[k]) - Base(p[k])]

\* Mutant: the ceiling is taken as an absolute time.
OverCeilingAbsolute == \E k \in DOMAIN Deltas : Deltas[k] > Pct

OverCeiling == \E l \in ToSet(Paired) : (New(l) - Base(l)) * 100 > Pct * Base(l)

\* _print_gate; an exit of _load is exit code 1 too.
GateFails ==
    \/ ~Loads(log[1]) \/ ~Loads(log[2])
    \/ Paired = <<>>
    \/ OverCeiling
    \/ Significant(Deltas) /\ TwiceMedian(Deltas) > 0

\* The rows there may be.
Measured == chosen \X ToSet(Counts)

\* What the rows say, which nothing depends on before they are compared.
ReadRows ==
    /\ run = 3 /\ DOMAIN effect # Measured
    /\ \E most \in Effects, odd \in SUBSET chosen :
           /\ Cardinality(odd) <= MaxOdd
           /\ \E other \in [odd \X ToSet(Counts) -> Effects] :
                  effect' = [p \in Measured |-> IF p[1] \in odd THEN other[p] ELSE most]
    /\ UNCHANGED <<picking, process, run, turn, log, failed, skipped, verdict>>

Report ==
    /\ run = 3 /\ DOMAIN effect = Measured /\ verdict = "none"
    /\ verdict' = IF GateFails THEN "1" ELSE "0"
    /\ UNCHANGED <<picking, process, effect, run, turn, log, failed, skipped>>

Over == verdict # "none" /\ UNCHANGED vars

Next ==
    \/ MakeSubset
    \/ FirstRun
    \/ Bench
    \/ Skip
    \/ NextProcess
    \/ ReadRows
    \/ Report
    \/ Over

Spec == Init /\ [][Next]_vars
-----------------------------------------------------------------------------
\* Properties.

\* The subset's promise, in the pipeline that relies on it.
EveryLevelCovered == Pick!EveryLevelCovered

Ended(r) == run > r
WholeRows(r) == {l.row : l \in {k \in ToSet(log[r]) : k.what = "row" /\ k.whole}}

\* "A truncated final line (e.g. SIGKILL mid-write) is the one case we
\* tolerate - anything earlier is real corruption" (report.py 69-70): although
\* the reader drops every line it cannot parse and several processes write to
\* one log, the only line it can meet is the last one.
DropsOnlyTail ==
    \A r \in {1, 2} : \A i \in DOMAIN log[r] : log[r][i].whole \/ i = Len(log[r])

\* The rows of every file at each count, but those the run left out.
Due(r) ==
    {<<m[1], Counts[m[2]]>> : m \in (chosen \X DOMAIN Counts) \ skipped[r]}

\* Several headers in one log do no harm: a stream gives back every row that
\* reached it whole (once, if no thread count is listed twice), and of a run
\* that did not fail these are the rows of all files but the ones left out.
\* A run of documents can be read only if it is that of a single process.
LogTellsTheRun ==
    \A r \in {1, 2} : Ended(r) =>
        /\ jsonl => /\ {l.row : l \in ToSet(Loaded(r))} = WholeRows(r)
                    /\ IsInjective(Counts) =>
                           Len(Loaded(r)) = Cardinality(WholeRows(r))
                    /\ r \notin failed => Loads(log[r]) /\ WholeRows(r) = Due(r)
        /\ ~jsonl /\ r \notin failed => (Loads(log[r]) <=> Len(Counts) = 1)

\* The pairs as a set.
Pairs ==
    {p \in WholeRows(1) \cap WholeRows(2) : effect[p][1] > 0 /\ effect[p][2] # Failed}
Change == [p \in Pairs |-> effect[p][2] - effect[p][1]]
Over5(p) == Change[p] * 100 > Pct * effect[p][1]

\* The gate passes two streams exactly when both can be read, some row was
\* measured in both, none got slower by more than the ceiling, and it is not so
\* that both the signed ranks differ significantly, in either direction, and the
\* median row got slower: whatever stopped either run, whatever it left out, and
\* in whatever order ties, zeros and failures come.  (A thread count listed
\* twice would give the test each of its rows twice.)  The docstring of
\* _print_gate puts the sign of the signed sum where the code has the median's;
\* the two are not the same.
GateExact ==
    jsonl /\ IsInjective(Counts) /\ verdict # "none" =>
        (verdict = "0" <=>
            /\ \A r \in {1, 2} : \E l \in ToSet(log[r]) : l.what = "run" /\ l.whole
            /\ Pairs # {} /\ (\A p \in Pairs : ~Over5(p))
            /\ ~(SignificantByDefinition(Change) /\ MedianSlower(Change)))

\* "If a regression localizes to a specific axis level the subset will catch
\* it" (select_synthetic_iter.py 24-25): when both runs finish and leave out no
\* file of that level, a slowdown over the ceiling of the rows of its files
\* alone fails the gate.
LevelRegressionCaught ==
    (jsonl /\ verdict # "none" /\ failed = {}) =>
        \A a \in Axes, l \in Levels :
            LET here == {r \in chosen : level[r][a] = l}
            IN  /\ \E r \in Records : level[r][a] = l
                /\ \A r \in here, t \in DOMAIN Counts :
                       /\ <<r, t>> \notin skipped[1] \cup skipped[2]
                       /\ effect[<<r, Counts[t]>>][1] > 0
                       /\ (effect[<<r, Counts[t]>>][2] - effect[<<r, Counts[t]>>][1]) * 100
                            > Pct * effect[<<r, Counts[t]>>][1]
                => verdict = "1"
===============================================================================
