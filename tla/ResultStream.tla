----------------------------- MODULE ResultStream -----------------------------
(***************************************************************************)
(* What one jp2k-bench process promises about its standard output, whoever *)
(* reads it: with --jsonl a run line first, every row at most once, the    *)
(* aggregate last, each line flushed before the next one begins; without   *)
(* it a single document.  A process may fail at any point, before its      *)
(* first line or in the middle of one.  BenchRun.tla implements it;        *)
(* PerfGate.tla is what run_bench.sh and report.py make of it.             *)
(***************************************************************************)
EXTENDS Naturals, Sequences

CONSTANTS Rows,   \* what a row may be about
          NoRow

VARIABLES jsonl,   \* --jsonl
          out,     \* what has reached stdout: lines, the last perhaps a part
          status   \* "running", "done" (exit code 0) or "failed"

vars == <<jsonl, out, status>>
-----------------------------------------------------------------------------
Line == [what : {"run", "row", "aggregate", "array"}, row : Rows \cup {NoRow},
         whole : BOOLEAN]

Torn == out # <<>> /\ ~out[Len(out)].whole
Complete == \E i \in DOMAIN out : out[i].what \in {"aggregate", "array"}
Reported == {out[i].row : i \in {k \in DOMAIN out : out[k].what = "row"}}

Init == jsonl \in BOOLEAN /\ out = <<>> /\ status = "running"

Begin(what, row) ==
    /\ status = "running" /\ ~Torn /\ ~Complete
    /\ out' = Append(out, [what |-> what, row |-> row, whole |-> FALSE])
    /\ UNCHANGED <<jsonl, status>>

Header == jsonl /\ out = <<>> /\ Begin("run", NoRow)
Row(r) == jsonl /\ out # <<>> /\ r \notin Reported /\ Begin("row", r)
Aggregate == jsonl /\ out # <<>> /\ Begin("aggregate", NoRow)
Document == ~jsonl /\ Begin("array", NoRow)

Flush ==
    /\ status = "running" /\ Torn
    /\ out' = [out EXCEPT ![Len(out)].whole = TRUE]
    /\ UNCHANGED <<jsonl, status>>

Exit == status = "running" /\ Complete /\ ~Torn
        /\ status' = "done" /\ UNCHANGED <<jsonl, out>>
Fail == status = "running" /\ status' = "failed" /\ UNCHANGED <<jsonl, out>>

Next ==
    \/ Header
    \/ \E r \in Rows : Row(r)
    \/ Aggregate
    \/ Document
    \/ Flush
    \/ Exit
    \/ Fail

Spec == Init /\ [][Next]_vars
-----------------------------------------------------------------------------
\* "a kill mid-corpus still leaves a parseable prefix" (main.cpp 301-302):
\* however the process ends, only its last line can be incomplete, the run
\* line is first and alone, the aggregate last, and no row is there twice.
ParseablePrefix ==
    jsonl =>
        /\ \A i \in DOMAIN out : out[i].whole \/ i = Len(out)
        /\ \A i \in DOMAIN out : out[i].what = "run" <=> i = 1
        /\ \A i \in DOMAIN out : out[i].what = "aggregate" => i = Len(out)
        /\ \A i, k \in DOMAIN out :
               out[i].row = out[k].row /\ out[i].what = "row" => i = k
===============================================================================
