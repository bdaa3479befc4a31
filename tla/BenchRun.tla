------------------------------ MODULE BenchRun ------------------------------
(***************************************************************************)
(* src/main.cpp from the loading of the decoders to the return of main:    *)
(* the loop over the files (read, reference decode, one job per decoder    *)
(* and thread count, wait_idle), the jobs themselves, and the two outputs  *)
(* (a JSONL stream, or one array sorted at the end).                       *)
(*                                                                         *)
(* The pool is JobPool, which ThreadPool.tla implements; what stdout gets  *)
(* implements ResultStream.  What a job                                    *)
(* measures is BenchFile.tla's business; here a job reads the file's bytes *)
(* (captured by reference), decodes, and publishes a row.  Grok is kept in *)
(* so far as main.cpp speaks of it: the size of its process-wide pool.     *)
(* The process may be killed at any point (out of memory, a decoder that   *)
(* aborts), which leaves what has reached stdout.                          *)
(***************************************************************************)
EXTENDS Naturals, SequencesExt, FiniteSets, TLC

CONSTANTS NumFiles,     \* the files of the command line, 1..NumFiles
          Decoders,     \* the decoders asked for, in the order main loads them
          Threads,      \* opts.thread_counts
          Concurrency,  \* concurrent_files
          Verify,       \* opts.verify && !opts.header_only
          Formats,      \* is --jsonl given: the possible answers
          NoJob

ASSUME RunAssumption ==
    /\ NumFiles \in Nat \ {0}
    /\ Decoders \in Seq({"openjpeg", "openjp2k", "grok"}) /\ Decoders # <<>>
    /\ Threads \in Seq(Nat \ {0}) /\ Threads # <<>>
    /\ Concurrency \in Nat \ {0}
    /\ Verify \in BOOLEAN /\ Formats \subseteq BOOLEAN
    /\ NoJob \notin Nat \X Nat \X Nat

VARIABLES jsonl,     \* --jsonl
          loaded,    \* decoders: the ones that loaded
          mpc,       \* where main is
          cur,       \* the file of this turn of the loop
          blob,      \* whose bytes are in memory; 0 is nobody's
          haveRef,   \* have_ref of this turn
          sent,      \* how many jobs this turn has submitted
          withRef,   \* the jobs given a reference image
          jpc,       \* where each running job is
          lock,      \* who holds results_mtx
          rows,      \* all_results
          out,       \* what has reached stdout: a line, or part of one
          grokPool,  \* the size of Grok's pool; 0 before grk_initialize
          readable,  \* history: the files that could be read
          refOK,     \* history: the files whose reference decode succeeded
          todo, running, finished, phase   \* the pool

options == <<jsonl, loaded>>
mainVars == <<options, mpc, cur, blob, haveRef, sent, withRef, readable, refOK>>
jobVars  == <<jpc, lock, rows>>
poolVars == <<todo, running, finished, phase>>
vars == <<mainVars, jobVars, out, grokPool, poolVars>>
-----------------------------------------------------------------------------
Files == 1..NumFiles
Jobs == Files \X (1..Len(Decoders)) \X (1..Len(Threads))
FileOf(j) == j[1]
DecoderOf(j) == loaded[j[2]]
ThreadsOf(j) == Threads[j[3]]

Pool == INSTANCE JobPool WITH Width <- Concurrency

PerFile == Len(loaded) * Len(Threads)

\* The k-th job of a turn: decoders outside, thread counts inside.
JobAt(f, k) ==
    <<f, ((k - 1) \div Len(Threads)) + 1, ((k - 1) % Len(Threads)) + 1>>

Row == [job : Jobs, compared : BOOLEAN]
Line == [what : {"run", "row", "aggregate", "array"}, row : Jobs \cup {NoJob},
         whole : BOOLEAN]
MainPC == {"load", "setup", "header", "next", "reference", "submit", "wait", "report",
           "aggregate", "closing", "exit", "killed"}
Dead == mpc \in {"exit", "killed"}

\* Types: every job, row and line is of this run's files, decoders and counts.
TypeOK ==
    /\ jsonl \in BOOLEAN
    /\ loaded \in Seq(ToSet(Decoders)) /\ Len(loaded) <= Len(Decoders)
    /\ mpc \in MainPC
    /\ cur \in 0..NumFiles
    /\ blob \in 0..NumFiles
    /\ haveRef \in BOOLEAN
    /\ sent \in Nat
    /\ withRef \subseteq Jobs
    /\ jpc \in [Jobs -> {"idle", "decoding", "decoded", "writing"}]
    /\ lock \in Jobs \cup {NoJob}
    /\ rows \in Seq(Row)
    /\ out \in Seq(Line)
    /\ grokPool \in Nat
    /\ readable \subseteq Files /\ refOK \subseteq Files
    /\ todo \in Seq(Jobs)
    /\ running \subseteq Jobs
    /\ finished \subseteq Jobs
    /\ phase \in {"open", "waiting", "closing", "closed"}

Init ==
    /\ jsonl \in Formats
    /\ loaded = <<>>
    /\ mpc = "load"
    /\ cur = 0
    /\ blob = 0
    /\ haveRef = FALSE
    /\ sent = 0
    /\ withRef = {}
    /\ jpc = [j \in Jobs |-> "idle"]
    /\ lock = NoJob
    /\ rows = <<>>
    /\ out = <<>>
    /\ grokPool = 0
    /\ readable = {}
    /\ refOK = {}
    /\ Pool!Init

\* Output a line in two steps: part of it may reach stdout before the flush.
Put(what, j) == out' = Append(out, [what |-> what, row |-> j, whole |-> FALSE])
Flush == out' = [out EXCEPT ![Len(out)].whole = TRUE]

\* ensure_initialized: the first decode of the process decides.
GrokInit(n) == grokPool' = IF grokPool = 0 THEN n ELSE grokPool
-----------------------------------------------------------------------------
\* main, before and after the loop.

\* A library that does not load, or whose table is not complete, is left out;
\* Grok is linked in.
LoadDecoders ==
    /\ mpc = "load"
    /\ \E n \in 0..Len(Decoders) : \E at \in [1..n -> DOMAIN Decoders] :
         /\ \A i, k \in 1..n : i < k => at[i] < at[k]
         /\ \A d \in DOMAIN Decoders :
               Decoders[d] = "grok" => \E i \in 1..n : at[i] = d
         /\ loaded' = [i \in 1..n |-> Decoders[at[i]]]
    /\ mpc' = IF loaded' = <<>> THEN "exit" ELSE "setup"
    /\ UNCHANGED <<jsonl, cur, blob, haveRef, sent, withRef, readable, refOK>>
    /\ UNCHANGED <<jobVars, out, grokPool, poolVars>>

\* --require-clean and one of the three source trees is dirty.
RefuseDirty ==
    /\ mpc = "setup"
    /\ mpc' = "exit"
    /\ UNCHANGED <<options, cur, blob, haveRef, sent, withRef, readable, refOK>>
    /\ UNCHANGED <<jobVars, out, grokPool, poolVars>>

\* --classification names an unreadable file, or the heavy regex is bad.
SetupFails ==
    /\ mpc = "setup"
    /\ mpc' = "closing"
    /\ Pool!BeginClose
    /\ UNCHANGED <<options, cur, blob, haveRef, sent, withRef, readable, refOK>>
    /\ UNCHANGED <<jobVars, out, grokPool>>

EmitHeader ==
    /\ mpc = "setup"
    /\ IF jsonl THEN mpc' = "header" /\ Put("run", NoJob)
                ELSE mpc' = "next" /\ UNCHANGED out
    /\ UNCHANGED <<options, cur, blob, haveRef, sent, withRef, readable, refOK>>
    /\ UNCHANGED <<jobVars, grokPool, poolVars>>

FlushHeader ==
    /\ mpc = "header"
    /\ mpc' = "next"
    /\ Flush
    /\ UNCHANGED <<options, cur, blob, haveRef, sent, withRef, readable, refOK>>
    /\ UNCHANGED <<jobVars, grokPool, poolVars>>

RowLess(r, s) ==
    LET Rank == [grok |-> 1, openjp2k |-> 2, openjpeg |-> 3]
        a == <<FileOf(r.job), Rank[DecoderOf(r.job)], ThreadsOf(r.job)>>
        b == <<FileOf(s.job), Rank[DecoderOf(s.job)], ThreadsOf(s.job)>>
    IN  \E i \in 1..3 : a[i] < b[i] /\ \A k \in 1..(i - 1) : a[k] = b[k]

\* What std::sort promises beside the order.
Rearranged(s, t) == t \in Seq(ToSet(s)) /\ Len(t) = Len(s) /\ ToSet(t) = ToSet(s)

Report ==
    /\ mpc = "report"
    /\ IF jsonl THEN Put("aggregate", NoJob) /\ UNCHANGED rows
                ELSE /\ Put("array", NoJob)
                     /\ rows' \in {SortSeq(rows, RowLess)} /\ Rearranged(rows, rows')
    /\ mpc' = "aggregate"
    /\ UNCHANGED <<options, cur, blob, haveRef, sent, withRef, readable, refOK>>
    /\ UNCHANGED <<jpc, lock, grokPool, poolVars>>

\* The last flush, and main returns: the pool is destroyed.
FlushReport ==
    /\ mpc = "aggregate"
    /\ mpc' = "closing"
    /\ Flush
    /\ Pool!BeginClose
    /\ UNCHANGED <<options, cur, blob, haveRef, sent, withRef, readable, refOK>>
    /\ UNCHANGED <<jobVars, grokPool>>

ReturnFromMain ==
    /\ mpc = "closing"
    /\ mpc' = "exit"
    /\ Pool!EndClose
    /\ UNCHANGED <<options, cur, blob, haveRef, sent, withRef, readable, refOK>>
    /\ UNCHANGED <<jobVars, out, grokPool>>
-----------------------------------------------------------------------------
\* main, one turn of the loop.

ReadFile ==
    /\ mpc = "next" /\ cur < NumFiles
    /\ cur' = cur + 1
    /\ blob' = cur'
    /\ readable' = readable \cup {cur'}
    /\ sent' = 0
    /\ mpc' = "reference"
    /\ UNCHANGED <<options, haveRef, withRef, refOK, jobVars, out, grokPool, poolVars>>

\* Empty or unreadable: continue.
SkipFile ==
    /\ mpc = "next" /\ cur < NumFiles
    /\ cur' = cur + 1
    /\ UNCHANGED <<options, mpc, blob, haveRef, sent, withRef, readable, refOK>>
    /\ UNCHANGED <<jobVars, out, grokPool, poolVars>>

NoMoreFiles ==
    /\ mpc = "next" /\ cur = NumFiles
    /\ mpc' = "report"
    /\ UNCHANGED <<options, cur, blob, haveRef, sent, withRef, readable, refOK>>
    /\ UNCHANGED <<jobVars, out, grokPool, poolVars>>

\* Mutant: have_ref outlives the turn of the loop.
DecodeReferenceSticky ==
    /\ mpc = "reference"
    /\ \E ok \in IF Verify THEN BOOLEAN ELSE {FALSE} :
        /\ haveRef' = (haveRef \/ ok)
        /\ refOK' = IF ok THEN refOK \cup {cur} ELSE refOK
    /\ IF Verify /\ loaded[1] = "grok" THEN GrokInit(1) ELSE UNCHANGED grokPool
    /\ mpc' = "submit"
    /\ UNCHANGED <<options, cur, blob, sent, withRef, readable, jobVars, out, poolVars>>

\* The first decoder decodes the file with one thread; it may fail.
DecodeReference ==
    /\ mpc = "reference"
    /\ \E ok \in IF Verify THEN BOOLEAN ELSE {FALSE} :
        /\ haveRef' = ok
        /\ refOK' = IF ok THEN refOK \cup {cur} ELSE refOK
    /\ IF Verify /\ loaded[1] = "grok" THEN GrokInit(1) ELSE UNCHANGED grokPool
    /\ mpc' = "submit"
    /\ UNCHANGED <<options, cur, blob, sent, withRef, readable, jobVars, out, poolVars>>

SubmitJob ==
    /\ mpc = "submit" /\ sent < PerFile
    /\ LET j == JobAt(cur, sent + 1)
       IN  /\ Pool!Submit(j)
           /\ withRef' = IF haveRef /\ j[2] # 1 THEN withRef \cup {j} ELSE withRef
    /\ sent' = sent + 1
    /\ UNCHANGED <<options, mpc, cur, blob, haveRef, readable, refOK>>
    /\ UNCHANGED <<jobVars, out, grokPool>>

\* Mutant: no wait_idle at the end of the turn.
CallWaitSkipped ==
    /\ mpc = "submit" /\ sent = PerFile
    /\ mpc' = "next"
    /\ blob' = 0
    /\ UNCHANGED <<options, cur, haveRef, sent, withRef, readable, refOK>>
    /\ UNCHANGED <<jobVars, out, grokPool, poolVars>>

CallWait ==
    /\ mpc = "submit" /\ sent = PerFile
    /\ Pool!CallWait
    /\ mpc' = "wait"
    /\ UNCHANGED <<options, cur, blob, haveRef, sent, withRef, readable, refOK>>
    /\ UNCHANGED <<jobVars, out, grokPool>>

\* wait_idle returns and the turn ends: blob, ref_image and opts_for_file go.
EndOfTurn ==
    /\ mpc = "wait"
    /\ Pool!ReturnFromWait
    /\ blob' = 0
    /\ mpc' = "next"
    /\ UNCHANGED <<options, cur, haveRef, sent, withRef, readable, refOK>>
    /\ UNCHANGED <<jobVars, out, grokPool>>
-----------------------------------------------------------------------------
\* The jobs.

StartJob ==
    /\ Pool!Start
    /\ UNCHANGED <<mainVars, jobVars, out, grokPool>>

\* bench_file begins to decode.
BeginDecode(j) ==
    /\ j \in running /\ jpc[j] = "idle"
    /\ jpc' = [jpc EXCEPT ![j] = "decoding"]
    /\ IF DecoderOf(j) = "grok" THEN GrokInit(ThreadsOf(j)) ELSE UNCHANGED grokPool
    /\ UNCHANGED <<lock, rows, mainVars, out, poolVars>>

EndDecode(j) ==
    /\ jpc[j] = "decoding"
    /\ jpc' = [jpc EXCEPT ![j] = "decoded"]
    /\ UNCHANGED <<lock, rows, mainVars, out, grokPool, poolVars>>

\* Mutant: the line is written before results_mtx is taken.
WriteRowUnlocked(j) ==
    /\ jpc[j] = "decoded"
    /\ jpc' = [jpc EXCEPT ![j] = "writing"]
    /\ lock' = lock
    /\ IF jsonl THEN Put("row", j) ELSE UNCHANGED out
    /\ rows' = Append(rows, [job |-> j, compared |-> j \in withRef])
    /\ UNCHANGED <<mainVars, grokPool, poolVars>>

\* Take results_mtx, write the row and keep it in all_results.
WriteRow(j) ==
    /\ jpc[j] = "decoded"
    /\ lock = NoJob
    /\ jpc' = [jpc EXCEPT ![j] = "writing"]
    /\ lock' = j
    /\ IF jsonl THEN Put("row", j) ELSE UNCHANGED out
    /\ rows' = Append(rows, [job |-> j, compared |-> j \in withRef])
    /\ UNCHANGED <<mainVars, grokPool, poolVars>>

\* Mutant: results_mtx is never released.
EndJobLocked(j) ==
    /\ jpc[j] = "writing"
    /\ IF jsonl THEN Flush ELSE UNCHANGED out
    /\ jpc' = [jpc EXCEPT ![j] = "idle"]
    /\ Pool!Finish(j)
    /\ UNCHANGED <<lock, rows, mainVars, grokPool>>

\* Flush, release results_mtx and return to the worker.
EndJob(j) ==
    /\ jpc[j] = "writing"
    /\ IF jsonl THEN Flush ELSE UNCHANGED out
    /\ lock' = NoJob
    /\ jpc' = [jpc EXCEPT ![j] = "idle"]
    /\ Pool!Finish(j)
    /\ UNCHANGED <<rows, mainVars, grokPool>>

Kill ==
    /\ ~Dead
    /\ mpc' = "killed"
    /\ UNCHANGED <<options, cur, blob, haveRef, sent, withRef, readable, refOK>>
    /\ UNCHANGED <<jobVars, out, grokPool, poolVars>>
-----------------------------------------------------------------------------
MainStep ==
    \/ LoadDecoders
    \/ RefuseDirty
    \/ SetupFails
    \/ EmitHeader
    \/ FlushHeader
    \/ ReadFile
    \/ SkipFile
    \/ NoMoreFiles
    \/ DecodeReference
    \/ SubmitJob
    \/ CallWait
    \/ EndOfTurn
    \/ Report
    \/ FlushReport
    \/ ReturnFromMain

JobStep(j) == BeginDecode(j) \/ EndDecode(j) \/ WriteRow(j) \/ EndJob(j)

PoolStep == StartJob /\ ~Dead
Job(j) == JobStep(j) /\ ~Dead
Ended == Dead /\ UNCHANGED vars

Next ==
    \/ MainStep
    \/ PoolStep
    \/ \E j \in Jobs : Job(j)
    \/ Kill
    \/ Ended

\* Every thread that can run is scheduled and a decode returns.  results_mtx
\* needs no fairness of its own: each job takes it once.
Fairness ==
    /\ WF_vars(MainStep)
    /\ WF_vars(PoolStep)
    /\ \A j \in Jobs : WF_vars(Job(j))

Safe == Init /\ [][Next]_vars
Spec == Safe /\ Fairness
-----------------------------------------------------------------------------
\* Properties.

JobsOf(F) == {j \in Jobs : FileOf(j) \in F /\ j[2] \in DOMAIN loaded}
RowJobs == {rows[i].job : i \in DOMAIN rows}

\* A job reads the file's bytes, its options and the reference image through
\* references into main's loop body; while it may do so (from its start to
\* the end of its decode) main is in the turn of that very file.
NoDanglingCapture ==
    mpc # "killed" =>
        \A j \in running : jpc[j] \in {"idle", "decoding"} => blob = FileOf(j)

\* Main goes on to the next file, and ends, with exactly one row for every
\* file read, decoder and thread count so far, whatever order the jobs ended
\* in: no job is forgotten, none is reported twice.
RowsComplete ==
    mpc \in {"next", "report", "aggregate", "exit"} =>
        /\ RowJobs = JobsOf(readable)
        /\ Len(rows) = Cardinality(RowJobs)

\* A row is compared with a reference exactly when its decoder is not the
\* first one and the first one decoded this very file: never with another
\* file's image, never with a decode that failed.
ComparedWithOwnReference ==
    \A i \in DOMAIN rows :
        rows[i].compared <=> rows[i].job[2] # 1 /\ FileOf(rows[i].job) \in refOK

\* What stdout gets is a ResultStream: its prefix can be parsed whenever the
\* process dies ("a kill mid-corpus still leaves a parseable prefix", main.cpp
\* 301-302), each row is there once, nothing follows the aggregate, and the
\* process exits with success only behind a complete output.
Status == IF mpc = "killed" \/ (mpc = "exit" /\ out = <<>>) THEN "failed"
          ELSE IF mpc = "exit" THEN "done" ELSE "running"
Stream == INSTANCE ResultStream WITH
              Rows <- Jobs, NoRow <- NoJob, status <- Status
ImplementsStream == Stream!Spec

\* "grok's pool is pinned to the first value" of --threads (main.cpp 279-280
\* and 287-289).
GrokPinnedToFirst == grokPool \in {0, Threads[1]}

\* The run ends.
RunEnds == <>Dead
=============================================================================
