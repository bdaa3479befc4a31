------------------------------ MODULE ScaleRun ------------------------------
(***************************************************************************)
(* The scale track: scripts/run_scale.sh runs jp2k-bench once per (file,   *)
(* decoder) pair under a memory cap and writes one JSONL log;              *)
(* scripts/report_scale.py loads two such logs and gates on the growth of  *)
(* the peak RSS.  The orchestrator can be killed, the bench process dies   *)
(* of its cap or otherwise, a file can vanish between the listing and its  *)
(* turn.  Sizes and peaks are in MB, caps in GB as in the script.          *)
(***************************************************************************)
EXTENDS Integers, Sequences, FiniteSets, SequencesExt

CONSTANTS
    Files,      \* the code streams found under the corpus path
    Size,       \* their sizes, in MB
    Decoders,   \* DECODERS, a sequence of names
    MemMax,     \* the four MEMMAX_* tiers, in GB
    Runs,       \* the runs made, <<"base">> or <<"base", "new">>
    Peaks,      \* the peaks an invocation can measure, in MB
    ExitCodes,  \* the non-zero exit codes of an invocation
    Pct         \* --regression-pct

ASSUME ScaleAssumption ==
    /\ IsFiniteSet(Files) /\ Files # {}
    /\ Size \in [Files -> Nat]
    /\ MemMax \in [1..4 -> Nat \ {0}]
    /\ Decoders \in Seq(STRING) /\ Decoders # <<>> /\ IsInjective(Decoders)
    /\ Runs \in {<<"base">>, <<"base", "new">>}
    /\ Peaks \subseteq Nat \ {0}
    /\ ExitCodes \subseteq 1..255
    /\ Pct \in Nat

VARIABLES
    order,    \* FILES after the sort
    turn,     \* which run is being made
    file,     \* index in order of the outer loop
    dec,      \* index in Decoders of the inner loop
    pc,       \* where the orchestrator is, the bench's steps included
    out,      \* $out: what the bench wrote so far
    rc,       \* $rc
    log,      \* per run, the lines in its JSONL file
    fate,     \* history: per run and pair, what became of the invocation
    printed,  \* history: per run, the pairs whose line got written
    verdict   \* exit code of report_scale.py, or "none"

vars == <<order, turn, file, dec, pc, out, rc, log, fate, printed, verdict>>
loop == <<order, turn, file, dec>>
history == <<fate, printed>>

Pairs == Files \X ToSet(Decoders)
Pair == <<order[file], Decoders[dec]>>
Run == Runs[turn]

\* One line of a log.  kb is the peak of a result line.
Line(type, pair, status, kb) ==
    [type |-> type, pair |-> pair, status |-> status, kb |-> kb]
Plain(type) == Line(type, <<>>, "none", 0)
Torn == Plain("torn")

\* mem_max_g_for, size tiers in MB.
MemMaxGFor(sz) ==
    IF sz < 50 THEN MemMax[1]
    ELSE IF sz < 100 THEN MemMax[2]
    ELSE IF sz < 200 THEN MemMax[3]
    ELSE MemMax[4]

CapMB(f) == MemMaxGFor(Size[f]) * 1024

LargestFirst(s) == \A i, j \in 1..Len(s) : i < j => Size[s[i]] >= Size[s[j]]

NoFate == [kind |-> "none", kb |-> 0]

Init ==
    /\ order \in {s \in SetToSeqs(Files) : LargestFirst(s)}
    /\ turn = 1 /\ file = 1 /\ dec = 1
    /\ pc = "header"
    /\ out = <<>> /\ rc = 0
    /\ log = [r \in {"base", "new"} |-> <<>>]
    /\ fate = [r \in {"base", "new"} |-> [p \in Pairs |-> NoFate]]
    /\ printed = [r \in {"base", "new"} |-> {}]
    /\ verdict = "none"

Append1(line) == log' = [log EXCEPT ![Run] = Append(@, line)]

EmitHeader ==
    /\ pc = "header"
    /\ pc' = "file"
    /\ Append1(Plain("run"))
    /\ UNCHANGED <<loop, out, rc, history, verdict>>

\* Mutant: the inner loop goes on where the last file's left off.
NextFileKeepsDec ==
    /\ pc = "file"
    /\ pc' = IF file > Len(order) THEN "done" ELSE "invoke"
    /\ UNCHANGED <<loop, out, rc, log, history, verdict>>

\* stat of the next file, or the end of the outer loop.
NextFile ==
    /\ pc = "file"
    /\ pc' = IF file > Len(order) THEN "done" ELSE "invoke"
    /\ dec' = 1
    /\ UNCHANGED <<order, turn, file, out, rc, log, history, verdict>>

\* set -e: a stat that fails ends the orchestrator.
StatFails ==
    /\ pc = "file" /\ file <= Len(order)
    /\ pc' = "dead"
    /\ UNCHANGED <<loop, out, rc, log, history, verdict>>

Invoke ==
    /\ pc = "invoke"
    /\ IF dec > Len(Decoders)
       THEN /\ file' = file + 1 /\ pc' = "file"
            /\ UNCHANGED out
       ELSE /\ pc' = "bench" /\ out' = <<>>
            /\ UNCHANGED file
    /\ UNCHANGED <<order, turn, dec, rc, log, history, verdict>>

-----------------------------------------------------------------------------
(* The invocation, seen from outside: the lines main.cpp writes for one     *)
(* file and one decoder, in order, and the ways the process ends.           *)

BenchHeader ==
    /\ pc = "bench"
    /\ pc' = "file_loop"
    /\ out' = Append(out, Plain("run"))
    /\ UNCHANGED <<loop, rc, log, history, verdict>>

Decided(f) == fate' = [fate EXCEPT ![Run][Pair] = f]

\* The file is decoded and measured, or the decoder refuses it.
BenchResult ==
    /\ pc = "file_loop"
    /\ pc' = "aggregate"
    /\ \/ \E kb \in {p \in Peaks : p <= CapMB(order[file])} :
             /\ out' = Append(out, Line("result", Pair, "measured", kb))
             /\ Decided([kind |-> "measured", kb |-> kb])
       \/ /\ out' = Append(out, Line("result", Pair, "error", 0))
          /\ Decided([kind |-> "failed", kb |-> 0])
    /\ UNCHANGED <<loop, rc, log, printed, verdict>>

\* The file cannot be read, or is empty: a note on stderr and no line.
BenchSkips ==
    /\ pc = "file_loop"
    /\ pc' = "aggregate"
    /\ Decided([kind |-> "unreadable", kb |-> 0])
    /\ UNCHANGED <<loop, out, rc, log, printed, verdict>>

BenchExits ==
    /\ pc = "aggregate"
    /\ pc' = "report"
    /\ out' = Append(out, Plain("aggregate"))
    /\ rc' = 0
    /\ UNCHANGED <<loop, log, history, verdict>>

\* A refused argument or a dirty library, a crash, the cgroup's SIGKILL.
OomClass == {137, 134, 135}

BenchDies ==
    /\ pc \in {"bench", "file_loop", "aggregate"}
    /\ pc' = "report"
    /\ rc' \in ExitCodes
    /\ Decided([kind |-> IF rc' \in OomClass THEN "overrun" ELSE "crashed",
                kb |-> 0])
    /\ UNCHANGED <<loop, out, log, printed, verdict>>

-----------------------------------------------------------------------------
(* What the orchestrator does with the bench's lines and its exit code.     *)

\* Mutant: the bench's own header line is passed on.
WithoutHeaderNot(lines) == lines

\* grep -v '"type": "run"'
WithoutHeader(lines) ==
    LET kept[n \in 0..Len(lines)] ==
            IF n = 0 THEN <<>>
            ELSE IF lines[n].type = "run" THEN kept[n - 1]
            ELSE Append(kept[n - 1], lines[n])
    IN  kept[Len(lines)]

\* Mutant: whatever the bench wrote is passed on before its code is looked at.
ReportLinesPartial ==
    IF rc = 0 THEN WithoutHeader(out)
    ELSE WithoutHeader(out)
         \o <<Line("result", Pair, IF rc \in OomClass THEN "oom" ELSE "error",
                   CapMB(order[file]))>>

ReportLines ==
    IF rc = 0 THEN WithoutHeader(out)
    ELSE IF rc \in OomClass
         THEN <<Line("result", Pair, "oom", CapMB(order[file]))>>
         ELSE <<Line("result", Pair, "error", 0)>>

Report ==
    /\ pc = "report"
    /\ pc' = "invoke"
    /\ log' = [log EXCEPT ![Run] = @ \o ReportLines]
    /\ dec' = dec + 1
    /\ printed' = [printed EXCEPT ![Run] = @ \cup {Pair}]
    /\ UNCHANGED <<order, turn, file, out, rc, fate, verdict>>

\* The orchestrator is killed, between two lines or in the middle of one.
KillBetween ==
    /\ pc \notin {"done", "dead"}
    /\ pc' = "dead"
    /\ UNCHANGED <<loop, out, rc, log, history, verdict>>

KillInHeader ==
    /\ pc = "header"
    /\ pc' = "dead"
    /\ Append1(Torn)
    /\ UNCHANGED <<loop, out, rc, history, verdict>>

KillInReport ==
    /\ pc = "report"
    /\ pc' = "dead"
    /\ \E n \in 0..Len(ReportLines) - 1 :
         /\ log' = [log EXCEPT ![Run] =
                      @ \o Append(SubSeq(ReportLines, 1, n), Torn)]
         /\ printed' = IF n = 0 THEN printed
                       ELSE [printed EXCEPT ![Run] = @ \cup {Pair}]
    /\ UNCHANGED <<loop, out, rc, fate, verdict>>

Kill == KillBetween \/ KillInHeader \/ KillInReport

-----------------------------------------------------------------------------
(* report_scale.py                                                          *)

\* _load: a line that does not parse is dropped, other types are ignored.
LoadResults(lines) == {l \in ToSet(lines) : l.type = "result"}
HasHeader(lines) == \E l \in ToSet(lines) : l.type = "run"

\* base_idx and cmp_idx: the pairs that were measured.
Measured(lines) == {l \in LoadResults(lines) : l.status = "measured"}

\* Mutant: the growth is taken as a share of the new peak.
RegressedOfNew(base, new) ==
    {b \in Measured(base) : \E c \in Measured(new) :
        c.pair = b.pair /\ (c.kb - b.kb) * 100 > Pct * c.kb}

Regressed(base, new) ==
    {b \in Measured(base) : \E c \in Measured(new) :
        c.pair = b.pair /\ (c.kb - b.kb) * 100 > Pct * b.kb}

\* sys.exit of a message is exit code 1, so is the gate's own answer.
ExitCode ==
    IF ~HasHeader(log["base"]) \/ ~HasHeader(log["new"])
       \/ Regressed(log["base"], log["new"]) # {}
    THEN "1" ELSE "0"

\* The next run begins once the last one is over, killed or not.
NextRun ==
    /\ pc \in {"done", "dead"} /\ turn < Len(Runs)
    /\ turn' = turn + 1
    /\ pc' = "header" /\ file' = 1 /\ dec' = 1
    /\ out' = <<>> /\ rc' = 0
    /\ UNCHANGED <<order, log, history, verdict>>

Compare ==
    /\ pc \in {"done", "dead"} /\ turn = 2 /\ verdict = "none"
    /\ verdict' = ExitCode
    /\ UNCHANGED <<loop, pc, out, rc, log, history>>

Over == pc \in {"done", "dead"} /\ turn = Len(Runs)
        /\ (turn = 2 => verdict # "none") /\ UNCHANGED vars

Orchestrate == EmitHeader \/ NextFile \/ Invoke \/ Report
Bench == BenchHeader \/ BenchResult \/ BenchSkips \/ BenchExits \/ BenchDies
Environment == StatFails \/ Kill

Next == Orchestrate \/ Bench \/ Environment \/ NextRun \/ Compare \/ Over

Safe == Init /\ [][Next]_vars

\* The script's own steps happen, and an invocation ends: a decoder that
\* hangs is outside this specification, the script has no timeout for it.
Spec == Safe /\ WF_vars(Orchestrate) /\ WF_vars(Bench)

-----------------------------------------------------------------------------
\* The status a report gives an invocation.
StatusOf(kind) ==
    CASE kind = "measured" -> "measured"
      [] kind = "overrun"  -> "oom"
      [] OTHER             -> "error"

ResultLines(r, p) ==
    {i \in DOMAIN log[r] : log[r][i].type = "result" /\ log[r][i].pair = p}

\* An invocation whose report was written left exactly one result line, and
\* the line says what became of it: a measurement only of a process that
\* exited with 0, the overrun of one that died of its cap although it had
\* written a measurement by then; a file it skipped left none.
OneLinePerReport ==
    \A r \in {"base", "new"} : \A p \in printed[r] :
        LET lines == ResultLines(r, p)
            f == fate[r][p]
        IN  /\ Cardinality(lines) = IF f.kind = "unreadable" THEN 0 ELSE 1
            /\ \A i \in lines :
                 /\ log[r][i].status = StatusOf(f.kind)
                 /\ f.kind = "measured" => log[r][i].kb = f.kb

\* However the runs end, a log has one header and it is the first line.
HeaderOnceAndFirst ==
    \A r \in {"base", "new"} : \A i \in DOMAIN log[r] :
        log[r][i].type = "run" <=> i = 1 /\ log[r][1] # Torn

Grown(p) ==
    /\ p \in printed["base"] \cap printed["new"]
    /\ fate["base"][p].kind = "measured" /\ fate["new"][p].kind = "measured"
    /\ (fate["new"][p].kb - fate["base"][p].kb) * 100 > Pct * fate["base"][p].kb

\* Two logs with their headers pass the gate exactly when no pair that both
\* runs measured, and got to report, grew by more than the threshold: lines
\* cut short, aggregates, failures and runs killed half-way change nothing.
GateFindsGrowth ==
    (verdict # "none" /\ HasHeader(log["base"]) /\ HasHeader(log["new"])) =>
        (verdict = "1" <=> \E p \in Pairs : Grown(p))

\* An overrun, a crash or a refusal takes only its own invocation with it:
\* unless the orchestrator itself is killed or a file vanishes, the first run
\* gets to report every pair.
RunReportsAll == <>(pc = "dead") \/ <>(printed["base"] = Pairs)

-----------------------------------------------------------------------------
(* What the script says of the gate, and the gate does not do.              *)

\* "the regression gate cares only about "did the invocation survive within
\* its budget."" (run_scale.sh:168-169): a pair that was measured under its
\* cap before and overruns it now is a regression.
OverrunIsRegression ==
    (verdict # "none" /\ \E p \in printed["base"] \cap printed["new"] :
        fate["base"][p].kind = "measured" /\ fate["new"][p].kind = "overrun")
      => verdict = "1"
=============================================================================
