---------------------------- MODULE PerfGateProofs ----------------------------
(***************************************************************************)
(* The performance track for every corpus, every list of thread counts and *)
(* whatever processes fail and files are left out: the subset, the logs,   *)
(* what is read back of them, and the gate; then the rank test and the     *)
(* median, for any number of deltas.                                       *)
(***************************************************************************)
EXTENDS PerfGate, FiniteSetTheorems, TLAPS

\* The inductive invariant of the selection: a pair the first pass has visited is covered, a
\* pair still to visit belongs to some record (so that passing over it, all
\* its records chosen, means one is), and the pass ends with none to visit.
PickInv ==
    /\ Pick!TypeOK
    /\ toVisit \subseteq Pick!SeenPairs
    /\ \A p \in Pick!SeenPairs \ toVisit : Pick!Having(p) \cap chosen # {}
    /\ pc # "cover" => toVisit = {}

AllWhole(lines) == \A i \in DOMAIN lines : lines[i].whole
OnlyLastTorn(lines) == \A i \in DOMAIN lines : lines[i].whole \/ i = Len(lines)

\* Types of what the processes leave.
LogTypes ==
    /\ log \in [{1, 2} -> Seq(Stream!Line)]
    /\ out \in Seq(Stream!Line)
    /\ run \in 0..3
    /\ status \in {"idle", "running", "done", "failed"}
    /\ DOMAIN skipped = {1, 2}

\* The running process may leave its last line unfinished only by failing, and
\* a run goes on only behind processes that did not.
WholeSoFar ==
    /\ OnlyLastTorn(out)
    /\ status = "done" => AllWhole(out)
    /\ \A r \in {1, 2} : r = run => AllWhole(log[r])
    /\ \A r \in {1, 2} : r > run => log[r] = <<>>
    /\ DropsOnlyTail

\* The inductive invariant of the logs.
GateInv == LogTypes /\ WholeSoFar
-----------------------------------------------------------------------------
\* Every level that is seen is some record's.
LEMMA SeenIsHad ==
    ASSUME NEW p \in Pick!SeenPairs
    PROVE  Pick!Having(p) # {}
<1>1. PICK r \in Records, a \in Axes : p = <<a, level[r][a]>>
  BY DEF Pick!SeenPairs
<1>2. r \in Pick!Having(p)
  BY <1>1 DEF Pick!Having
<1> QED
  BY <1>2

\* The pairs seen are pairs of an axis and a level.
LEMMA SeenPairsType ==
    ASSUME Pick!TypeOK
    PROVE  Pick!SeenPairs \subseteq Axes \X Levels
BY DEF Pick!TypeOK, Pick!SeenPairs

\* The records do not change, so neither do the pairs seen nor who has them.
LEMMA RecordsFixed ==
    ASSUME UNCHANGED level
    PROVE  Pick!SeenPairs' = Pick!SeenPairs /\ \A p : Pick!Having(p)' = Pick!Having(p)
BY DEF Pick!SeenPairs, Pick!Having

\* At first every pair is still to be visited.
LEMMA InitPickInv == Pick!Init => PickInv
<1> SUFFICES ASSUME Pick!Init PROVE PickInv
  OBVIOUS
<1>1. level \in [Records -> [Axes -> Levels]] /\ chosen = {} /\ pc = "cover"
  BY DEF Pick!Init
<1>2. toVisit = Pick!SeenPairs
  BY DEF Pick!Init
<1>3. Pick!SeenPairs \subseteq Axes \X Levels
  BY <1>1 DEF Pick!SeenPairs
<1>4. Pick!TypeOK
  BY <1>1, <1>2, <1>3 DEF Pick!TypeOK
<1> QED
  BY <1>1, <1>2, <1>4 DEF PickInv

\* The second pass only adds records.
LEMMA SecondPass ==
    ASSUME PickInv, UNCHANGED <<level, toVisit>>, pc # "cover", pc' \in {"fill", "done"},
           chosen \subseteq chosen', chosen' \subseteq Records
    PROVE  PickInv'
<1>1. Pick!SeenPairs' = Pick!SeenPairs /\ \A x : Pick!Having(x)' = Pick!Having(x)
  BY RecordsFixed
<1>2. Pick!TypeOK'
  BY DEF PickInv, Pick!TypeOK
<1> QED
  BY <1>1, <1>2 DEF PickInv

\* Every step covers the pair it visits and uncovers none.
LEMMA NextPickInv ==
    PickInv /\ (Pick!Next \/ UNCHANGED Pick!vars) => PickInv'
<1> SUFFICES ASSUME PickInv, Pick!Next \/ UNCHANGED Pick!vars PROVE PickInv'
  OBVIOUS
<1> USE DEF PickInv
<1>1. ASSUME NEW p \in toVisit, Pick!PickLevel(p) PROVE PickInv'
  <2>1. PICK r \in Pick!Having(p) \ chosen : chosen' = chosen \cup {r}
    BY <1>1 DEF Pick!PickLevel
  <2>2. r \in Records
    BY <2>1 DEF Pick!Having
  <2>3. UNCHANGED level
    BY <1>1 DEF Pick!PickLevel
  <2>4. Pick!SeenPairs' = Pick!SeenPairs /\ \A x : Pick!Having(x)' = Pick!Having(x)
    BY <2>3, RecordsFixed
  <2>5. toVisit' = toVisit \ {p} /\ UNCHANGED pc /\ pc = "cover"
    BY <1>1 DEF Pick!PickLevel
  <2>6. Pick!TypeOK'
    BY <2>1, <2>2, <2>3, <2>5 DEF Pick!TypeOK
  <2>7. ASSUME NEW x \in (Pick!SeenPairs \ toVisit)' PROVE (Pick!Having(x) \cap chosen # {})'
    <3>1. CASE x = p
      BY <3>1, <2>1, <2>4
    <3>2. CASE x # p
      BY <3>2, <2>7, <2>1, <2>4, <2>5
    <3> QED BY <3>1, <3>2
  <2> QED
    BY <2>4, <2>5, <2>6, <2>7
<1>2. ASSUME NEW p \in toVisit, Pick!PassLevel(p) PROVE PickInv'
  <2>1. Pick!Having(p) \subseteq chosen /\ pc = "cover" /\ toVisit' = toVisit \ {p}
    BY <1>2 DEF Pick!PassLevel
  <2>2. UNCHANGED <<level, chosen, pc>>
    BY <1>2 DEF Pick!PassLevel
  <2>3. Pick!SeenPairs' = Pick!SeenPairs /\ \A x : Pick!Having(x)' = Pick!Having(x)
    BY <2>2, RecordsFixed
  <2>4. Pick!Having(p) # {}
    BY SeenIsHad
  <2>5. Pick!TypeOK'
    BY <2>1, <2>2 DEF Pick!TypeOK
  <2>6. ASSUME NEW x \in (Pick!SeenPairs \ toVisit)' PROVE (Pick!Having(x) \cap chosen # {})'
    <3>1. CASE x = p
      BY <3>1, <2>1, <2>2, <2>3, <2>4
    <3>2. CASE x # p
      BY <3>2, <2>6, <2>1, <2>2, <2>3
    <3> QED BY <3>1, <3>2
  <2> QED
    BY <2>1, <2>2, <2>3, <2>5, <2>6
<1>3. CASE Pick!AllCovered
  <2>1. UNCHANGED <<level, toVisit, chosen>> /\ toVisit = {} /\ pc' = "fill"
    BY <1>3 DEF Pick!AllCovered
  <2>2. Pick!SeenPairs' = Pick!SeenPairs /\ \A x : Pick!Having(x)' = Pick!Having(x)
    BY <2>1, RecordsFixed
  <2>3. Pick!TypeOK'
    BY <2>1 DEF Pick!TypeOK
  <2> QED
    BY <2>1, <2>2, <2>3
<1>4. CASE Pick!Fill
  BY <1>4, SecondPass DEF Pick!Fill, Pick!TypeOK
<1>5. CASE Pick!Filled
  BY <1>5, SecondPass DEF Pick!Filled, Pick!TypeOK
<1>6. CASE Pick!Done \/ UNCHANGED Pick!vars
  <2>1. UNCHANGED Pick!vars
    BY <1>6 DEF Pick!Done
  <2>2. Pick!SeenPairs' = Pick!SeenPairs /\ \A x : Pick!Having(x)' = Pick!Having(x)
    BY <2>1, RecordsFixed DEF Pick!vars
  <2> QED
    BY <2>1, <2>2 DEF Pick!vars, Pick!TypeOK
<1> QED
  BY <1>1, <1>2, <1>3, <1>4, <1>5, <1>6 DEF Pick!Next

\* The selection's invariant holds of the pipeline: its later steps leave the
\* subset alone.
THEOREM SubsetInvariant == Spec => []PickInv
<1>1. Init => PickInv
  BY InitPickInv DEF Init
<1>2. PickInv /\ [Next]_vars => PickInv'
  <2>1. [Next]_vars => Pick!Next \/ UNCHANGED picking
    BY DEF Next, MakeSubset, FirstRun, Bench, Skip, NextProcess, ReadRows, Report, Over, vars
  <2>2. UNCHANGED picking => UNCHANGED Pick!vars
    BY DEF picking, Pick!vars
  <2> QED
    BY <2>1, <2>2, NextPickInv
<1> QED
  BY <1>1, <1>2, PTL DEF Spec

\* For every corpus and target, in the pipeline as in the script: every level
\* of every axis is in the subset that both runs measure, even when the target
\* is smaller than the number of levels.
THEOREM EveryLevelCoveredHolds == Spec => []EveryLevelCovered
<1>1. PickInv => EveryLevelCovered
  BY DEF PickInv, EveryLevelCovered, Pick!EveryLevelCovered
<1> QED
  BY <1>1, SubsetInvariant, PTL
-----------------------------------------------------------------------------
\* What one step of the running process does to its lines.
LEMMA StreamStep ==
    ASSUME out \in Seq(Stream!Line), OnlyLastTorn(out), status = "running", Stream!Next
    PROVE  /\ out' \in Seq(Stream!Line) /\ OnlyLastTorn(out')
           /\ status' \in {"running", "done", "failed"}
           /\ status' = "done" => AllWhole(out')
<1> DEFINE L == Stream!Line
<1>1. ASSUME NEW what \in {"run", "row", "aggregate", "array"},
             NEW row \in Rows \cup {NoRow}, Stream!Begin(what, row)
      PROVE  out' \in Seq(L) /\ OnlyLastTorn(out') /\ status' = "running"
  <2> DEFINE l == [what |-> what, row |-> row, whole |-> FALSE]
  <2>1. l \in L
    BY DEF Stream!Line
  <2>2. out' = Append(out, l) /\ status' = "running" /\ ~Stream!Torn
    BY <1>1 DEF Stream!Begin
  <2>3. \A i \in DOMAIN out : out[i].whole
    BY <2>2 DEF Stream!Torn, OnlyLastTorn
  <2> HIDE DEF l, L
  <2>4. out \in Seq(L)
    BY DEF L
  <2>5. out' \in Seq(L) /\ Len(out') = Len(out) + 1
        /\ \A i \in 1..Len(out) : out'[i] = out[i]
    BY <2>1, <2>2, <2>4
  <2>6. DOMAIN out' = 1..Len(out) + 1 /\ DOMAIN out = 1..Len(out) /\ Len(out) \in Nat
    BY <2>4, <2>5
  <2>7. OnlyLastTorn(out')
    <3> SUFFICES ASSUME NEW i \in 1..(Len(out) + 1), i # Len(out) + 1 PROVE out'[i].whole
      BY <2>5, <2>6 DEF OnlyLastTorn
    <3>1. i \in 1..Len(out)
      BY <2>6
    <3> QED BY <2>3, <2>5, <2>6, <3>1
  <2> QED
    BY <2>2, <2>5, <2>7
<1>2. CASE Stream!Header \/ Stream!Aggregate \/ Stream!Document
  BY <1>1, <1>2 DEF Stream!Header, Stream!Aggregate, Stream!Document
<1>3. CASE \E r \in Rows : Stream!Row(r)
  BY <1>1, <1>3 DEF Stream!Row
<1>4. CASE Stream!Flush
  <2> DEFINE n == Len(out)
             l == [out[n] EXCEPT !.whole = TRUE]
  <2>1. out' = [out EXCEPT ![n] = l] /\ status' = "running" /\ out # <<>>
    BY <1>4 DEF Stream!Flush, Stream!Torn
  <2>2. n \in 1..n /\ n \in Nat /\ DOMAIN out = 1..n
    BY <2>1
  <2>3. out[n] \in L
    BY <2>2
  <2>4. l \in L /\ l.whole = TRUE
    BY <2>3 DEF Stream!Line
  <2> HIDE DEF l, L
  <2>5. out \in Seq(L)
    BY DEF L
  <2>6. out' \in Seq(L) /\ Len(out') = n /\ DOMAIN out' = 1..n
    BY <2>1, <2>2, <2>4, <2>5
  <2>7. \A i \in 1..n : out'[i] = IF i = n THEN l ELSE out[i]
    BY <2>1, <2>2
  <2>8. OnlyLastTorn(out')
    BY <2>2, <2>6, <2>7 DEF OnlyLastTorn
  <2> QED
    BY <2>1, <2>6, <2>8 DEF L
<1>5. CASE Stream!Exit
  <2>1. out' = out /\ status' = "done" /\ ~Stream!Torn
    BY <1>5 DEF Stream!Exit
  <2>2. AllWhole(out)
    BY <2>1 DEF Stream!Torn, OnlyLastTorn, AllWhole
  <2> QED
    BY <2>1, <2>2
<1>6. CASE Stream!Fail
  BY <1>6 DEF Stream!Fail
<1> QED
  BY <1>2, <1>3, <1>4, <1>5, <1>6 DEF Stream!Next

\* What a process leaves is appended to whole lines.
LEMMA Appended ==
    ASSUME NEW S, NEW old \in Seq(S), NEW new \in Seq(S), AllWhole(old), OnlyLastTorn(new)
    PROVE  /\ Join(old, new) \in Seq(S) /\ OnlyLastTorn(Join(old, new))
           /\ AllWhole(new) => AllWhole(Join(old, new))
<1>1. Join(old, new) = old \o new
  BY DEF Join, AllWhole
<1> DEFINE s == old \o new
<1>2. s \in Seq(S) /\ Len(s) = Len(old) + Len(new) /\ Len(old) \in Nat /\ Len(new) \in Nat
  OBVIOUS
<1>3. DOMAIN s = 1..Len(s) /\ DOMAIN old = 1..Len(old) /\ DOMAIN new = 1..Len(new)
  BY <1>2
<1>4. \A i \in 1..Len(old) : s[i] = old[i]
  OBVIOUS
<1>5. \A i \in DOMAIN s : i \notin 1..Len(old) =>
          i - Len(old) \in 1..Len(new) /\ s[i] = new[i - Len(old)]
  BY <1>2, <1>3
<1> HIDE DEF s
<1>6. OnlyLastTorn(s)
  <2> SUFFICES ASSUME NEW i \in DOMAIN s, i # Len(s) PROVE s[i].whole
    BY DEF OnlyLastTorn
  <2>1. CASE i \in 1..Len(old)
    BY <1>3, <1>4, <2>1 DEF AllWhole
  <2>2. CASE i \notin 1..Len(old)
    <3>1. i - Len(old) \in DOMAIN new /\ i - Len(old) # Len(new) /\ s[i] = new[i - Len(old)]
      BY <1>2, <1>3, <1>5, <2>2
    <3> QED BY <3>1 DEF OnlyLastTorn
  <2> QED BY <2>1, <2>2
<1>7. ASSUME AllWhole(new) PROVE AllWhole(s)
  BY <1>3, <1>4, <1>5, <1>7 DEF AllWhole
<1> QED
  BY <1>1, <1>2, <1>6, <1>7 DEF s

\* What the start of a run does, besides the log it begins.
LEMMA RunStarts ==
    ASSUME NEW r \in {1, 2}, DOMAIN skipped = {1, 2}, Starts(r)
    PROVE  /\ status' \in {"running", "failed"} /\ DOMAIN skipped' = {1, 2}
           /\ \A q \in {1, 2} : q # r => skipped'[q] = skipped[q]
BY DEF Starts

\* The running process leaves out files of its own turn only.
LEMMA SkipStep ==
    ASSUME DOMAIN skipped = {1, 2}, Skip
    PROVE  /\ DOMAIN skipped' = {1, 2}
           /\ \A q \in {1, 2} : q # run => skipped'[q] = skipped[q]
           /\ \E f \in chosen \ Passed :
                  skipped' = [skipped EXCEPT ![run] = skipped[run] \cup {<<f, turn>>}]
BY DEF Skip

\* Nothing is written before the first run.
LEMMA InitGateInv == Init => GateInv
<1> SUFFICES ASSUME Init PROVE GateInv
  OBVIOUS
<1>1. log = <<<<>>, <<>>>> /\ out = <<>> /\ run = 0 /\ status = "idle" /\ DOMAIN skipped = {1, 2}
  BY DEF Init
<1>2. log \in [{1, 2} -> Seq(Stream!Line)]
  <2>1. <<>> \in Seq(Stream!Line) /\ 1..2 = {1, 2}
    OBVIOUS
  <2>2. <<<<>>, <<>>>> \in [1..2 -> Seq(Stream!Line)]
    <3> DEFINE S == Seq(Stream!Line)
    <3>1. <<>> \in S
      BY <2>1
    <3> HIDE DEF S
    <3>2. <<<<>>, <<>>>> \in [1..2 -> S]
      BY <3>1
    <3> QED BY <3>2 DEF S
  <2> QED BY <1>1, <2>1, <2>2
<1>3. \A r \in {1, 2} : log[r] = <<>>
  BY <1>1
<1> QED
  BY <1>1, <1>2, <1>3 DEF GateInv, LogTypes, WholeSoFar, OnlyLastTorn, AllWhole, DropsOnlyTail

\* Every step of the two runs keeps their logs whole but for a last line.
LEMMA NextGateInv == GateInv /\ [Next]_vars => GateInv'
<1> SUFFICES ASSUME GateInv, [Next]_vars PROVE GateInv'
  OBVIOUS
<1> USE DEF GateInv, LogTypes
<1>1. CASE UNCHANGED <<log, out, run, status>> /\ DOMAIN skipped' = {1, 2}
  BY <1>1 DEF WholeSoFar, OnlyLastTorn, AllWhole, DropsOnlyTail
<1>2. CASE FirstRun
  <2>1. run = 0 /\ run' = 1 /\ Starts(1) /\ UNCHANGED <<out, log>>
    BY <1>2 DEF FirstRun
  <2>3. status' \in {"running", "failed"} /\ DOMAIN skipped' = {1, 2}
    BY <2>1, RunStarts
  <2>2. \A r \in {1, 2} : log[r] = <<>>
    BY <2>1 DEF WholeSoFar
  <2> QED
    BY <2>1, <2>2, <2>3 DEF WholeSoFar, OnlyLastTorn, AllWhole, DropsOnlyTail
<1>3. CASE Bench
  <2>1. status = "running" /\ Stream!Next /\ UNCHANGED <<run, log, skipped>>
    BY <1>3 DEF Bench
  <2>2. /\ out' \in Seq(Stream!Line) /\ OnlyLastTorn(out')
        /\ status' \in {"running", "done", "failed"}
        /\ status' = "done" => AllWhole(out')
    BY <2>1, StreamStep DEF WholeSoFar
  <2> QED
    BY <2>1, <2>2 DEF WholeSoFar, AllWhole, OnlyLastTorn, DropsOnlyTail
<1>4. CASE NextProcess
  <2>1. run \in {1, 2} /\ status \in {"done", "failed"} /\ out' = <<>>
        /\ log' = [log EXCEPT ![run] = Join(log[run], out)]
    BY <1>4 DEF NextProcess
  <2>2. /\ \/ status = "done" /\ run' = run /\ status' = "running"
           \/ run' = run + 1 /\ status' \in {"running", "idle", "failed"}
        /\ DOMAIN skipped' = {1, 2}
    BY <1>4, RunStarts DEF NextProcess
  <2>3. log[run] \in Seq(Stream!Line) /\ AllWhole(log[run]) /\ OnlyLastTorn(out)
    BY <2>1 DEF WholeSoFar
  <2>4. /\ Join(log[run], out) \in Seq(Stream!Line)
        /\ OnlyLastTorn(Join(log[run], out))
        /\ AllWhole(out) => AllWhole(Join(log[run], out))
    BY <2>3, Appended
  <2>5. /\ log' \in [{1, 2} -> Seq(Stream!Line)]
        /\ log'[run] = Join(log[run], out)
        /\ \A r \in {1, 2} : r # run => log'[r] = log[r]
    BY <2>1, <2>4
  <2>6. LogTypes'
    BY <2>1, <2>2, <2>5
  <2>7. \A r \in {1, 2} : OnlyLastTorn(log'[r])
    BY <2>4, <2>5 DEF WholeSoFar, DropsOnlyTail, OnlyLastTorn
  <2>8. \A r \in {1, 2} : r > run => log'[r] = <<>>
    BY <2>5 DEF WholeSoFar
  <2>9. \A r \in {1, 2} : r > run' => log'[r] = <<>>
    BY <2>1, <2>2, <2>8
  <2>10. ASSUME NEW r \in {1, 2}, r = run' PROVE AllWhole(log'[r])
    <3>1. CASE run' = run
      BY <2>1, <2>2, <2>4, <2>5, <2>10, <3>1 DEF WholeSoFar
    <3>2. CASE run' = run + 1
      BY <2>1, <2>8, <2>10, <3>2 DEF AllWhole
    <3> QED BY <2>2, <3>1, <3>2
  <2>11. DropsOnlyTail'
    BY <2>7 DEF DropsOnlyTail, OnlyLastTorn
  <2>12. OnlyLastTorn(out') /\ status' # "done"
    BY <2>1, <2>2 DEF OnlyLastTorn
  <2> QED
    BY <2>6, <2>9, <2>10, <2>11, <2>12 DEF WholeSoFar, OnlyLastTorn, AllWhole
<1>5. CASE Skip
  <2>1. UNCHANGED <<log, out, run, status>> /\ DOMAIN skipped' = {1, 2}
    BY <1>5, SkipStep DEF Skip, process
  <2> QED BY <1>1, <2>1
<1> QED
  BY <1>1, <1>2, <1>3, <1>4, <1>5 DEF Next, MakeSubset, ReadRows, Report, Over, vars, process

\* The invariant of the logs holds throughout.
THEOREM GateInvariant == Spec => []GateInv
<1> QED
  BY InitGateInv, NextGateInv, PTL DEF Spec

\* For every list of thread counts and every failure: the only line the reader
\* of a log can meet and not parse is the last one.
THEOREM DropsOnlyTailHolds == Spec => []DropsOnlyTail
<1>1. GateInv => DropsOnlyTail
  BY DEF GateInv, WholeSoFar
<1> QED
  BY <1>1, GateInvariant, PTL
-----------------------------------------------------------------------------
\* The rows that the processes of a run for the first n thread counts report, and
\* those of the running one: the files that are left out have none.
RowsUpTo(r, n) == {<<m[1], Counts[m[2]]>> : m \in (chosen \X (1..n)) \ skipped[r]}
RowsOfTurn == {x \in chosen \X {Counts[turn]} : <<x[1], turn>> \notin skipped[run]}

\* What the lines of one process or more say, row by row.
RowsAmong(lines, X) == \A i \in DOMAIN lines : lines[i].what = "row" => lines[i].row \in X
RowsOnce(lines) ==
    \A i, k \in DOMAIN lines :
        lines[i].what = "row" /\ lines[k].what = "row" /\ lines[i].row = lines[k].row => i = k
AllRows(lines, X) ==
    \A x \in X : \E i \in DOMAIN lines : lines[i].what = "row" /\ lines[i].row = x
Streamed(lines) ==
    /\ lines # <<>> => lines[1].what = "run"
    /\ \A i \in DOMAIN lines : lines[i].what # "array"
Documents(lines) == \A i \in DOMAIN lines : lines[i].what = "array"

\* The running process: a stream of this turn's rows, each once, all of them
\* before the aggregate; or one document.
ProcessTells ==
    /\ jsonl => /\ Streamed(out) /\ RowsAmong(out, RowsOfTurn) /\ RowsOnce(out)
                /\ (\E i \in DOMAIN out : out[i].what = "aggregate") => AllRows(out, RowsOfTurn)
    /\ ~jsonl => Documents(out) /\ Len(out) <= 1
    /\ status = "done" => \E i \in DOMAIN out : out[i].what \in {"aggregate", "array"}

\* What processes that may report these rows leave, and what n of them leave
\* when none fails.
Leaves(lines, X) ==
    jsonl => /\ Streamed(lines) /\ RowsAmong(lines, X)
             /\ IsInjective(Counts) => RowsOnce(lines)
LeavesAll(lines, X, n) ==
    /\ AllWhole(lines)
    /\ jsonl => AllRows(lines, X) /\ (n > 0 => lines # <<>>)
    /\ ~jsonl => Documents(lines) /\ Len(lines) = n

\* The logs of the runs that are over, and of the one being made.
LogsTell ==
    /\ run = 0 => out = <<>> /\ turn = 1
    /\ run \in {0, 3} => status = "idle"
    /\ turn \in 1..Len(Counts)
    /\ failed \subseteq {r \in {1, 2} : r < run}
    /\ \A r \in {1, 2} :
         /\ r = run => /\ Leaves(log[r], RowsUpTo(r, turn - 1))
                       /\ LeavesAll(log[r], RowsUpTo(r, turn - 1), turn - 1)
         /\ r < run => /\ Leaves(log[r], RowsUpTo(r, Len(Counts)))
                       /\ r \notin failed =>
                              LeavesAll(log[r], RowsUpTo(r, Len(Counts)), Len(Counts))

\* The subset is made before the runs, and what its rows say is read, and
\* the verdict given, behind them.
Stages ==
    /\ run > 0 => pc = "done"
    /\ run < 3 => effect = <<>>
    /\ effect = <<>> \/ effect \in [Measured -> Effects]
    /\ verdict # "none" => /\ run = 3 /\ DOMAIN effect = Measured
                           /\ verdict = IF GateFails THEN "1" ELSE "0"

\* The inductive invariant of the rows, over that of the logs.
TellInv == ProcessTells /\ LogsTell /\ Stages
-----------------------------------------------------------------------------
\* A nonempty set of numbers has a least element.
LEMMA Least ==
    ASSUME NEW T \in SUBSET Nat, T # {}
    PROVE  \E x \in T : \A y \in T : x <= y
<1> DEFINE R == OpToRel(<, Nat)
<1>1. IsWellFoundedOn(R, Nat)
  BY NatLessThanWellFounded
<1>2. \A x, y \in Nat : <<x, y>> \in R <=> x < y
  BY DEF OpToRel
<1> HIDE DEF R
<1>3. PICK x \in T : \A y \in T : ~ (<<y, x>> \in R)
  BY <1>1, WFMin
<1>4. \A y \in T : ~ (y < x)
  BY <1>2, <1>3
<1> QED BY <1>4

\* Induction, over a set in place of a predicate.
LEMMA Induction ==
    ASSUME NEW T \in SUBSET Nat, 0 \in T, \A n \in T : n + 1 \in T
    PROVE  T = Nat
<1> SUFFICES ASSUME Nat \ T # {} PROVE FALSE
  OBVIOUS
<1>1. PICK x \in Nat \ T : \A y \in Nat \ T : x <= y
  BY Least
<1>2. x - 1 \in T
  BY <1>1
<1> QED BY <1>1, <1>2

\* One turn of the loop of Kept.
Turn(lines, S, before, n) ==
    IF lines[n] \in S THEN Append(before, lines[n]) ELSE before

\* What the loop has after its first n turns, for each n up to N.
Loop(lines, S, f, N) ==
    f[0] = <<>> /\ \A n \in 1..N : f[n] = Turn(lines, S, f[n - 1], n)

\* The loop can be run to any length.
LEMMA LoopExists ==
    ASSUME NEW L, NEW lines \in Seq(L), NEW S, NEW N \in 0..Len(lines)
    PROVE  \E f \in [0..N -> Seq(L)] : Loop(lines, S, f, N)
<1> DEFINE Runs(n) == \E f \in [0..n -> Seq(L)] : Loop(lines, S, f, n)
           T == {n \in Nat : n <= Len(lines) => Runs(n)}
<1>1. 0 \in T
  <2> DEFINE f == [n \in 0..0 |-> <<>>]
  <2>1. f \in [0..0 -> Seq(L)] /\ Loop(lines, S, f, 0)
    BY DEF Loop
  <2> QED BY <2>1
<1>2. ASSUME NEW n \in T PROVE n + 1 \in T
  <2> SUFFICES ASSUME n + 1 <= Len(lines) PROVE Runs(n + 1)
    BY <1>2
  <2>1. n \in Nat /\ n <= Len(lines) /\ n + 1 \in 1..Len(lines)
    BY <1>2
  <2>2. PICK f \in [0..n -> Seq(L)] : Loop(lines, S, f, n)
    BY <1>2, <2>1
  <2> DEFINE last == Turn(lines, S, f[n], n + 1)
             g == [k \in 0..n + 1 |-> IF k = n + 1 THEN last ELSE f[k]]
  <2>3. f[n] \in Seq(L) /\ lines[n + 1] \in L
    BY <2>1
  <2>4. last \in Seq(L)
    BY <2>3 DEF Turn
  <2> HIDE DEF last
  <2>5. g \in [0..n + 1 -> Seq(L)]
    BY <2>1, <2>4
  <2>6. g[0] = <<>>
    BY <2>1, <2>2 DEF Loop
  <2>7. ASSUME NEW k \in 1..n + 1 PROVE g[k] = Turn(lines, S, g[k - 1], k)
    <3>1. CASE k = n + 1
      BY <2>1, <3>1 DEF last
    <3>2. CASE k # n + 1
      <4>1. k \in 1..n /\ k \in 0..n + 1 /\ k - 1 \in 0..n + 1 /\ k - 1 # n + 1
        BY <2>1, <3>2
      <4> QED BY <2>2, <3>2, <4>1 DEF Loop
    <3> QED BY <3>1, <3>2
  <2> QED
    BY <2>5, <2>6, <2>7 DEF Loop
<1> HIDE DEF Runs
<1>3. T = Nat
  BY <1>1, <1>2, Induction
<1>4. Runs(N)
  BY <1>3
<1> QED
  BY <1>4 DEF Runs

\* Kept is what the loop ends with.
LEMMA KeptIsLoop ==
    ASSUME NEW L, NEW lines \in Seq(L), NEW S
    PROVE  \E f \in [0..Len(lines) -> Seq(L)] :
               Loop(lines, S, f, Len(lines)) /\ Kept(lines, S) = f[Len(lines)]
<1> DEFINE N == Len(lines)
           Step(f) == [n \in 0..N |-> IF n = 0 THEN <<>>
                                      ELSE IF lines[n] \in S THEN Append(f[n - 1], lines[n])
                                      ELSE f[n - 1]]
           kept == CHOOSE f : f = Step(f)
<1>1. N \in Nat /\ N \in 0..Len(lines) /\ 0 \in 0..N
  OBVIOUS
<1>2. PICK w \in [0..N -> Seq(L)] : Loop(lines, S, w, N)
  <2> HIDE DEF N
  <2> QED BY <1>1, LoopExists
<1>3. w = Step(w)
  <2>1. w = [n \in 0..N |-> w[n]]
    OBVIOUS
  <2>2. ASSUME NEW n \in 0..N
        PROVE  w[n] = IF n = 0 THEN <<>>
                      ELSE IF lines[n] \in S THEN Append(w[n - 1], lines[n]) ELSE w[n - 1]
    <3>1. CASE n = 0
      BY <1>2, <3>1 DEF Loop
    <3>2. CASE n # 0
      <4>1. n \in 1..N
        BY <1>1, <3>2
      <4> QED BY <1>2, <3>2, <4>1 DEF Loop, Turn
    <3> QED BY <3>1, <3>2
  <2> HIDE DEF N
  <2> QED BY <2>1, <2>2
<1>4. kept = Step(kept)
  <2> HIDE DEF Step
  <2> QED BY <1>3
<1>5. Kept(lines, S) = kept[N]
  BY DEF Kept
<1> HIDE DEF kept, N
<1>6. DOMAIN kept = 0..N /\ kept = [n \in 0..N |-> kept[n]]
  BY <1>4
<1>7. kept[0] = <<>>
  BY <1>1, <1>4
<1>8. ASSUME NEW n \in 1..N PROVE kept[n] = Turn(lines, S, kept[n - 1], n)
  <2>1. n \in 0..N /\ n # 0
    BY <1>1
  <2>2. Step(kept)[n] = IF lines[n] \in S THEN Append(kept[n - 1], lines[n]) ELSE kept[n - 1]
    BY <2>1
  <2> QED BY <1>4, <2>2 DEF Turn
<1> HIDE DEF Step
<1>9. ASSUME NEW n \in 0..N PROVE kept[n] \in Seq(L)
  <2> DEFINE T == {k \in Nat : k <= N => kept[k] \in Seq(L)}
  <2>1. 0 \in T
    <3>1. <<>> \in Seq(L)
      OBVIOUS
    <3> QED BY <1>7, <3>1
  <2>2. ASSUME NEW k \in T PROVE k + 1 \in T
    <3> SUFFICES ASSUME k + 1 <= N PROVE kept[k + 1] \in Seq(L)
      BY <2>2
    <3>1. k + 1 \in 1..N /\ k <= N /\ (k + 1) - 1 = k
      BY <1>1
    <3>2. kept[k] \in Seq(L) /\ lines[k + 1] \in L
      BY <2>2, <3>1 DEF N
    <3>3. Turn(lines, S, kept[k], k + 1) \in Seq(L)
      BY <3>2 DEF Turn
    <3>4. kept[k + 1] = Turn(lines, S, kept[(k + 1) - 1], k + 1)
      BY <1>8, <3>1
    <3> QED BY <3>1, <3>3, <3>4
  <2>3. T = Nat
    BY <2>1, <2>2, Induction
  <2> QED BY <2>3, <1>1
<1>10. kept \in [0..N -> Seq(L)]
  BY <1>6, <1>9
<1>11. Loop(lines, S, kept, N)
  BY <1>7, <1>8 DEF Loop
<1> QED
  BY <1>5, <1>10, <1>11 DEF N

\* Kept keeps all lines of S, and no other, in their order.
LEMMA KeptInOrder ==
    ASSUME NEW L, NEW lines \in Seq(L), NEW S
    PROVE  LET K == Kept(lines, S) IN
           /\ K \in Seq(L)
           /\ \A n \in DOMAIN lines : lines[n] \in S => \E i \in DOMAIN K : K[i] = lines[n]
           /\ \A i \in DOMAIN K : \E n \in DOMAIN lines : K[i] = lines[n] /\ lines[n] \in S
           /\ \A i, j \in DOMAIN K : i < j =>
                  \E m, n \in DOMAIN lines : m < n /\ K[i] = lines[m] /\ K[j] = lines[n]
<1> DEFINE N == Len(lines)
<1>1. PICK f \in [0..N -> Seq(L)] : Loop(lines, S, f, N) /\ Kept(lines, S) = f[N]
  BY KeptIsLoop
<1> DEFINE All(k) == \A n \in 1..k : lines[n] \in S => \E i \in DOMAIN f[k] : f[k][i] = lines[n]
           Only(k) == \A i \in DOMAIN f[k] : \E n \in 1..k : f[k][i] = lines[n] /\ lines[n] \in S
           Order(k) == \A i, j \in DOMAIN f[k] : i < j =>
                         \E m, n \in 1..k : m < n /\ f[k][i] = lines[m] /\ f[k][j] = lines[n]
           T == {k \in Nat : k <= N => All(k) /\ Only(k) /\ Order(k)}
<1>2. 0 \in T
  BY <1>1 DEF Loop
<1>3. ASSUME NEW k \in T PROVE k + 1 \in T
  <2> SUFFICES ASSUME k + 1 <= N PROVE All(k + 1) /\ Only(k + 1) /\ Order(k + 1)
    BY <1>3
  <2>1. k \in Nat /\ N \in Nat /\ k + 1 \in 1..N /\ k \in 0..N /\ (k + 1) - 1 = k
    BY <1>3
  <2>2. All(k) /\ Only(k) /\ Order(k)
    BY <1>3, <2>1
  <2> DEFINE s == f[k]
             t == f[k + 1]
             x == lines[k + 1]
  <2>3. s \in Seq(L) /\ x \in L /\ t = Turn(lines, S, s, k + 1)
    BY <1>1, <2>1 DEF Loop
  <2>4. 1..k + 1 = 1..k \cup {k + 1}
    BY <2>1
  <2>5. CASE x \notin S
    <3>1. t = s
      BY <2>3, <2>5 DEF Turn
    <3>2. All(k + 1)
      BY <2>2, <2>4, <2>5, <3>1
    <3>3. Only(k + 1)
      BY <2>2, <2>4, <3>1
    <3>4. Order(k + 1)
      BY <2>2, <2>4, <3>1
    <3> QED BY <3>2, <3>3, <3>4
  <2>6. CASE x \in S
    <3>1. t = Append(s, x)
      BY <2>3, <2>6 DEF Turn
    <3> HIDE DEF s, x
    <3>2. /\ DOMAIN s = 1..Len(s) /\ DOMAIN t = 1..Len(s) + 1 /\ Len(s) \in Nat
          /\ t[Len(s) + 1] = x
          /\ \A i \in 1..Len(s) : t[i] = s[i]
      BY <2>3, <3>1
    <3> HIDE DEF t
    <3>3. DOMAIN t = DOMAIN s \cup {Len(s) + 1} /\ \A i \in DOMAIN s : i < Len(s) + 1
      BY <3>2
    <3>4. All(k + 1)
      <4> SUFFICES ASSUME NEW n \in 1..k + 1, lines[n] \in S
                   PROVE  \E i \in DOMAIN t : t[i] = lines[n]
        BY DEF t
      <4>1. CASE n = k + 1
        BY <3>2, <3>3, <4>1 DEF x
      <4>2. CASE n \in 1..k
        <5>1. PICK i \in DOMAIN s : s[i] = lines[n]
          BY <2>2, <4>2 DEF s
        <5> QED BY <3>2, <3>3, <5>1
      <4> QED BY <2>4, <4>1, <4>2
    <3>5. Only(k + 1)
      <4> SUFFICES ASSUME NEW i \in DOMAIN t
                   PROVE  \E n \in 1..k + 1 : t[i] = lines[n] /\ lines[n] \in S
        BY DEF t
      <4>1. CASE i = Len(s) + 1
        BY <2>4, <2>6, <3>2, <4>1 DEF x
      <4>2. CASE i \in DOMAIN s
        <5>1. PICK n \in 1..k : s[i] = lines[n] /\ lines[n] \in S
          BY <2>2, <4>2 DEF s
        <5> QED BY <2>4, <3>2, <4>2, <5>1
      <4> QED BY <3>3, <4>1, <4>2
    <3>6. Order(k + 1)
      <4> SUFFICES ASSUME NEW i \in DOMAIN t, NEW j \in DOMAIN t, i < j
                   PROVE  \E m, n \in 1..k + 1 : m < n /\ t[i] = lines[m] /\ t[j] = lines[n]
        BY DEF t
      <4>1. i \in DOMAIN s /\ t[i] = s[i]
        BY <3>2
      <4>2. CASE j = Len(s) + 1
        <5>1. PICK m \in 1..k : s[i] = lines[m]
          BY <2>2, <4>1 DEF s
        <5>2. m < k + 1 /\ m \in 1..k + 1 /\ k + 1 \in 1..k + 1
          BY <2>1
        <5> QED BY <3>2, <4>1, <4>2, <5>1, <5>2 DEF x
      <4>3. CASE j \in DOMAIN s
        <5>1. PICK m \in 1..k, n \in 1..k : m < n /\ s[i] = lines[m] /\ s[j] = lines[n]
          BY <2>2, <4>1, <4>3 DEF s
        <5> QED BY <2>4, <3>2, <4>1, <4>3, <5>1
      <4> QED BY <3>3, <4>2, <4>3
    <3> QED BY <3>4, <3>5, <3>6
  <2> QED BY <2>5, <2>6
<1> HIDE DEF All, Only, Order
<1>4. T = Nat
  BY <1>2, <1>3, Induction
<1>5. N \in Nat /\ DOMAIN lines = 1..N
  OBVIOUS
<1>6. All(N) /\ Only(N) /\ Order(N)
  BY <1>4, <1>5
<1> DEFINE K == f[N]
<1>0. K \in Seq(L)
  BY <1>1, <1>5
<1>7. /\ \A n \in DOMAIN lines : lines[n] \in S => \E i \in DOMAIN K : K[i] = lines[n]
      /\ \A i \in DOMAIN K : \E n \in DOMAIN lines : K[i] = lines[n] /\ lines[n] \in S
  <2>1. All(N) /\ Only(N)
    BY <1>6
  <2> QED BY <1>5, <2>1 DEF All, Only
<1>8. \A i, j \in DOMAIN K : i < j =>
          \E m, n \in DOMAIN lines : m < n /\ K[i] = lines[m] /\ K[j] = lines[n]
  BY <1>5, <1>6 DEF Order
<1> HIDE DEF K
<1>9. Kept(lines, S) = K
  BY <1>1 DEF K
<1> QED
  BY <1>0, <1>7, <1>8, <1>9
-----------------------------------------------------------------------------
\* One line more.
LEMMA LineAppended ==
    ASSUME NEW S, NEW s \in Seq(S), NEW l \in S
    PROVE  /\ Append(s, l) \in Seq(S)
           /\ Len(s) \in Nat /\ Len(Append(s, l)) = Len(s) + 1 /\ Append(s, l) # <<>>
           /\ DOMAIN Append(s, l) = DOMAIN s \cup {Len(s) + 1} /\ Len(s) + 1 \notin DOMAIN s
           /\ \A i \in DOMAIN s : Append(s, l)[i] = s[i]
           /\ Append(s, l)[Len(s) + 1] = l
           /\ Append(s, l)[1] = IF s = <<>> THEN l ELSE s[1]
<1> DEFINE t == Append(s, l)
<1>1. t \in Seq(S) /\ Len(t) = Len(s) + 1 /\ Len(s) \in Nat
  OBVIOUS
<1>2. DOMAIN t = 1..Len(s) + 1 /\ DOMAIN s = 1..Len(s)
  BY <1>1
<1>3. \A i \in 1..Len(s) : t[i] = s[i]
  OBVIOUS
<1>4. t[Len(s) + 1] = l
  OBVIOUS
<1>5. s # <<>> => 1 \in 1..Len(s)
  OBVIOUS
<1>6. s = <<>> => Len(s) = 0
  OBVIOUS
<1>7. t # <<>>
  BY <1>1
<1> HIDE DEF t
<1>8. t[1] = IF s = <<>> THEN l ELSE s[1]
  BY <1>3, <1>4, <1>5, <1>6
<1>9. DOMAIN t = DOMAIN s \cup {Len(s) + 1} /\ Len(s) + 1 \notin DOMAIN s
  BY <1>1, <1>2
<1> QED
  BY <1>1, <1>2, <1>3, <1>4, <1>7, <1>8, <1>9 DEF t

\* The lines of two processes, one behind the other.
LEMMA LinesJoined ==
    ASSUME NEW S, NEW old \in Seq(S), NEW new \in Seq(S)
    PROVE  /\ old \o new \in Seq(S) /\ Len(old) \in Nat
           /\ Len(old \o new) = Len(old) + Len(new)
           /\ \A i \in DOMAIN (old \o new) :
                 \/ i \in DOMAIN old /\ (old \o new)[i] = old[i]
                 \/ i \in Nat /\ i - Len(old) \in DOMAIN new
                    /\ (old \o new)[i] = new[i - Len(old)]
           /\ \A i \in DOMAIN old : i \in DOMAIN (old \o new) /\ (old \o new)[i] = old[i]
           /\ \A i \in DOMAIN new : /\ i + Len(old) \in DOMAIN (old \o new)
                                    /\ (old \o new)[i + Len(old)] = new[i]
<1> DEFINE s == old \o new
<1>1. s \in Seq(S) /\ Len(s) = Len(old) + Len(new) /\ Len(old) \in Nat /\ Len(new) \in Nat
  OBVIOUS
<1>2. DOMAIN s = 1..Len(s) /\ DOMAIN old = 1..Len(old) /\ DOMAIN new = 1..Len(new)
  BY <1>1
<1>3. \A i \in 1..Len(old) : s[i] = old[i]
  OBVIOUS
<1>4. \A i \in 1..Len(new) : s[i + Len(old)] = new[i]
  OBVIOUS
<1> HIDE DEF s
<1>5. ASSUME NEW i \in DOMAIN s
      PROVE  \/ i \in DOMAIN old /\ s[i] = old[i]
             \/ i \in Nat /\ i - Len(old) \in DOMAIN new /\ s[i] = new[i - Len(old)]
  <2>1. CASE i <= Len(old)
    BY <1>1, <1>2, <1>3, <2>1
  <2>2. CASE ~(i <= Len(old))
    <3>1. i \in Nat /\ i - Len(old) \in 1..Len(new) /\ (i - Len(old)) + Len(old) = i
      BY <1>1, <1>2, <2>2
    <3>2. s[(i - Len(old)) + Len(old)] = new[i - Len(old)]
      BY <1>4, <3>1
    <3> QED BY <1>2, <3>1, <3>2
  <2> QED BY <2>1, <2>2
<1>6. \A i \in DOMAIN old : i \in DOMAIN s /\ s[i] = old[i]
  BY <1>1, <1>2, <1>3
<1>7. \A i \in DOMAIN new : i + Len(old) \in DOMAIN s /\ s[i + Len(old)] = new[i]
  BY <1>1, <1>2, <1>4
<1> QED
  BY <1>1, <1>5, <1>6, <1>7 DEF s

\* What one step of the running process adds to what it tells.
LEMMA ProcessStep ==
    ASSUME out \in Seq(Stream!Line), ProcessTells, status = "running", Stream!Next, InOrder,
           UNCHANGED <<chosen, turn, run, skipped>>
    PROVE  ProcessTells'
<1> DEFINE L == Stream!Line
<1>1. UNCHANGED jsonl /\ RowsOfTurn' = RowsOfTurn
  BY DEF Stream!Next, Stream!Header, Stream!Row, Stream!Aggregate, Stream!Document,
         Stream!Begin, Stream!Flush, Stream!Exit, Stream!Fail, RowsOfTurn
<1>2. ASSUME NEW what \in {"run", "row", "aggregate", "array"},
             NEW row \in Rows \cup {NoRow}, Stream!Begin(what, row)
      PROVE  LET l == [what |-> what, row |-> row, whole |-> FALSE] IN
             /\ l \in L /\ l.what = what /\ l.row = row
             /\ out' = Append(out, l) /\ status' = "running"
             /\ \A i \in DOMAIN out : out[i].what \notin {"aggregate", "array"}
             /\ what = "row" /\ row \in Rows => row \in RowsOfTurn
             /\ what = "aggregate" => AllRows(out, RowsOfTurn)
  <2> DEFINE l == [what |-> what, row |-> row, whole |-> FALSE]
  <2>1. l \in L /\ l.what = what /\ l.row = row
    BY DEF Stream!Line
  <2>2. /\ out' = Append(out, l) /\ status' = "running"
        /\ \A i \in DOMAIN out : out[i].what \notin {"aggregate", "array"}
    BY <1>2 DEF Stream!Begin, Stream!Complete
  <2> HIDE DEF l, L
  <2>3. out \in Seq(L)
    BY DEF L
  <2>4. Len(out') > Len(out) /\ out'[Len(out')] = l
    BY <2>1, <2>2, <2>3, LineAppended
  <2>5. ASSUME what = "row", row \in Rows PROVE row \in RowsOfTurn
    <3>1. Current(row[1]) /\ row[2] = Counts[turn]
      BY <1>2, <2>1, <2>4, <2>5 DEF InOrder
    <3>2. row[1] \in chosen /\ <<row[1], turn>> \notin skipped[run]
      BY <3>1 DEF Current, Passed
    <3>3. row = <<row[1], row[2]>>
      BY <2>5 DEF Rows
    <3> QED BY <3>1, <3>2, <3>3 DEF RowsOfTurn
  <2>6. ASSUME what = "aggregate" PROVE AllRows(out, RowsOfTurn)
    <3>1. Passed = chosen
      BY <2>1, <2>4, <2>6 DEF InOrder
    <3>2. \A x \in RowsOfTurn : x \in Stream!Reported
      BY <3>1 DEF Passed, RowsOfTurn
    <3> QED BY <3>2 DEF Stream!Reported, AllRows
  <2> QED
    BY <2>1, <2>2, <2>5, <2>6 DEF l
<1>3. CASE Stream!Header
  <2> DEFINE l == [what |-> "run", row |-> NoRow, whole |-> FALSE]
  <2>1. l \in L /\ l.what = "run" /\ out' = Append(out, l) /\ status' = "running"
        /\ jsonl /\ out = <<>>
    BY <1>2, <1>3 DEF Stream!Header
  <2> HIDE DEF l, L
  <2>2. out \in Seq(L)
    BY DEF L
  <2>3. DOMAIN out' = {1} /\ out'[1] = l
    BY <2>1, <2>2, LineAppended
  <2> QED
    BY <1>1, <2>1, <2>3 DEF ProcessTells, Streamed, RowsAmong, RowsOnce, AllRows
<1>4. ASSUME NEW r \in Rows, Stream!Row(r) PROVE ProcessTells'
  <2> DEFINE l == [what |-> "row", row |-> r, whole |-> FALSE]
  <2>1. /\ l \in L /\ l.what = "row" /\ l.row = r /\ out' = Append(out, l)
        /\ status' = "running" /\ jsonl /\ out # <<>> /\ r \in RowsOfTurn
        /\ \A i \in DOMAIN out : out[i].what \notin {"aggregate", "array"}
    BY <1>2, <1>4 DEF Stream!Row
  <2>2. \A i \in DOMAIN out : out[i].what = "row" => out[i].row # r
    BY <1>4 DEF Stream!Row, Stream!Reported
  <2> HIDE DEF l, L
  <2>3. out \in Seq(L)
    BY DEF L
  <2> DEFINE n == Len(out) + 1
  <2>4. /\ DOMAIN out' = DOMAIN out \cup {n} /\ n \notin DOMAIN out /\ out'[n] = l
        /\ \A i \in DOMAIN out : out'[i] = out[i]
        /\ out'[1] = out[1]
    BY <2>1, <2>3, LineAppended
  <2> HIDE DEF n
  <2>5. Streamed(out) /\ RowsAmong(out, RowsOfTurn) /\ RowsOnce(out)
    BY <2>1 DEF ProcessTells
  <2>6. Streamed(out')
    BY <2>1, <2>4, <2>5 DEF Streamed
  <2>7. RowsAmong(out', RowsOfTurn)
    BY <2>1, <2>4, <2>5 DEF RowsAmong
  <2>8. RowsOnce(out')
    BY <2>1, <2>2, <2>4, <2>5 DEF RowsOnce
  <2>9. \A i \in DOMAIN out' : out'[i].what # "aggregate"
    BY <2>1, <2>4
  <2> QED
    BY <1>1, <2>1, <2>6, <2>7, <2>8, <2>9 DEF ProcessTells
<1>5. CASE Stream!Aggregate
  <2> DEFINE l == [what |-> "aggregate", row |-> NoRow, whole |-> FALSE]
  <2>1. /\ l \in L /\ l.what = "aggregate" /\ out' = Append(out, l)
        /\ status' = "running" /\ jsonl /\ out # <<>> /\ AllRows(out, RowsOfTurn)
    BY <1>2, <1>5 DEF Stream!Aggregate
  <2> HIDE DEF l, L
  <2>3. out \in Seq(L)
    BY DEF L
  <2> DEFINE n == Len(out) + 1
  <2>4. /\ DOMAIN out' = DOMAIN out \cup {n} /\ n \notin DOMAIN out /\ out'[n] = l
        /\ \A i \in DOMAIN out : out'[i] = out[i]
        /\ out'[1] = out[1]
    BY <2>1, <2>3, LineAppended
  <2> HIDE DEF n
  <2>5. Streamed(out) /\ RowsAmong(out, RowsOfTurn) /\ RowsOnce(out)
    BY <2>1 DEF ProcessTells
  <2>6. Streamed(out')
    BY <2>1, <2>4, <2>5 DEF Streamed
  <2>7. RowsAmong(out', RowsOfTurn)
    BY <2>1, <2>4, <2>5 DEF RowsAmong
  <2>8. RowsOnce(out')
    BY <2>1, <2>4, <2>5 DEF RowsOnce
  <2>9. AllRows(out', RowsOfTurn)
    BY <2>1, <2>4 DEF AllRows
  <2> QED
    BY <1>1, <2>1, <2>6, <2>7, <2>8, <2>9 DEF ProcessTells
<1>6. CASE Stream!Document
  <2> DEFINE l == [what |-> "array", row |-> NoRow, whole |-> FALSE]
  <2>1. /\ l \in L /\ l.what = "array" /\ out' = Append(out, l)
        /\ status' = "running" /\ ~jsonl
        /\ \A i \in DOMAIN out : out[i].what \notin {"aggregate", "array"}
    BY <1>2, <1>6 DEF Stream!Document
  <2> HIDE DEF l, L
  <2>2. out \in Seq(L)
    BY DEF L
  <2>3. DOMAIN out = {}
    BY <2>1 DEF ProcessTells, Documents
  <2>4. Len(out') = Len(out) + 1 /\ DOMAIN out' = {Len(out) + 1} /\ out'[Len(out) + 1] = l
    BY <2>1, <2>2, <2>3, LineAppended
  <2>5. Len(out) = 0
    BY <2>2, <2>3
  <2> QED
    BY <1>1, <2>1, <2>4, <2>5 DEF ProcessTells, Documents
<1>7. CASE Stream!Flush
  <2> DEFINE n == Len(out)
             l == [out[n] EXCEPT !.whole = TRUE]
  <2>1. out' = [out EXCEPT ![n] = l] /\ status' = "running" /\ out # <<>>
    BY <1>7 DEF Stream!Flush, Stream!Torn
  <2>2. n \in 1..n /\ n \in Nat /\ DOMAIN out = 1..n
    BY <2>1
  <2>3. out[n] \in L
    BY <2>2
  <2>4. l \in L /\ l.what = out[n].what /\ l.row = out[n].row
    BY <2>3 DEF Stream!Line
  <2> HIDE DEF l, L
  <2>5. out \in Seq(L)
    BY DEF L
  <2>6. out' \in Seq(L) /\ Len(out') = n /\ DOMAIN out' = DOMAIN out
    BY <2>1, <2>2, <2>4, <2>5
  <2>7. \A i \in DOMAIN out : out'[i].what = out[i].what /\ out'[i].row = out[i].row
    BY <2>1, <2>2, <2>4
  <2>8. 1 \in DOMAIN out
    BY <2>2
  <2> QED
    BY <1>1, <2>1, <2>6, <2>7, <2>8
    DEF ProcessTells, Streamed, RowsAmong, RowsOnce, AllRows, Documents
<1>8. CASE Stream!Exit
  <2>1. UNCHANGED out /\ Stream!Complete
    BY <1>8 DEF Stream!Exit
  <2> QED
    BY <1>1, <2>1 DEF ProcessTells, Stream!Complete, Streamed, RowsAmong, RowsOnce, AllRows,
                      Documents
<1>9. CASE Stream!Fail
  <2>1. UNCHANGED out /\ status' = "failed"
    BY <1>9 DEF Stream!Fail
  <2> QED
    BY <1>1, <2>1 DEF ProcessTells, Streamed, RowsAmong, RowsOnce, AllRows, Documents
<1> QED
  BY <1>3, <1>4, <1>5, <1>6, <1>7, <1>8, <1>9 DEF Stream!Next
-----------------------------------------------------------------------------
\* A file that is left out has no row, and the rows that are out stay due.
LEMMA SkipTells ==
    ASSUME DOMAIN skipped = {1, 2}, run \in {1, 2}, ProcessTells, Skip
    PROVE  ProcessTells'
<1>1. UNCHANGED <<chosen, turn, run, jsonl, out, status>> /\ ~Stream!Complete
  BY DEF Skip, picking, process
<1>2. PICK f \in chosen \ Passed :
          skipped' = [skipped EXCEPT ![run] = skipped[run] \cup {<<f, turn>>}]
  BY SkipStep
<1>3. skipped'[run] = skipped[run] \cup {<<f, turn>>}
  BY <1>2
<1>4. ASSUME jsonl PROVE RowsAmong(out, RowsOfTurn')
  <2> SUFFICES ASSUME NEW i \in DOMAIN out, out[i].what = "row"
               PROVE  out[i].row \in RowsOfTurn'
    BY DEF RowsAmong
  <2>1. out[i].row \in RowsOfTurn /\ out[i].row \in Stream!Reported
    BY <1>4 DEF ProcessTells, RowsAmong, Stream!Reported
  <2> DEFINE g == out[i].row[1]
  <2>2. /\ out[i].row \in chosen \X {Counts[turn]} /\ <<g, turn>> \notin skipped[run]
        /\ out[i].row = <<g, Counts[turn]>> /\ g \in chosen
    BY <2>1 DEF RowsOfTurn
  <2>3. g # f
    BY <1>2, <2>1, <2>2 DEF Passed
  <2>4. <<g, turn>> \notin skipped'[run']
    BY <1>1, <1>3, <2>2, <2>3
  <2> QED BY <1>1, <2>2, <2>4 DEF RowsOfTurn
<1>5. \A i \in DOMAIN out : out[i].what \notin {"aggregate", "array"}
  BY <1>1 DEF Stream!Complete
<1>6. status # "done"
  BY DEF Skip
<1> QED
  BY <1>1, <1>4, <1>5, <1>6
  DEF ProcessTells, Streamed, RowsAmong, RowsOnce, AllRows, Documents
-----------------------------------------------------------------------------
\* The rows due of the first n thread counts are those of the first n - 1 and
\* those of the nth.
LEMMA RowsGrow ==
    ASSUME NEW n \in Nat, n > 0, NEW r
    PROVE  /\ RowsUpTo(r, n) = RowsUpTo(r, n - 1)
                  \cup {x \in chosen \X {Counts[n]} : <<x[1], n>> \notin skipped[r]}
           /\ \A m \in Nat : n <= m => RowsUpTo(r, n) \subseteq RowsUpTo(r, m)
<1> DEFINE A == (chosen \X (1..n)) \ skipped[r]
           B == (chosen \X (1..(n - 1))) \ skipped[r]
           C == {x \in chosen \X {Counts[n]} : <<x[1], n>> \notin skipped[r]}
<1>1. 1..n = 1..(n - 1) \cup {n} /\ \A m \in Nat : n <= m => 1..n \subseteq 1..m
  OBVIOUS
<1>2. \A x : x \in RowsUpTo(r, n) <=> \E m \in A : x = <<m[1], Counts[m[2]]>>
  BY DEF RowsUpTo
<1>3. \A x : x \in RowsUpTo(r, n - 1) <=> \E m \in B : x = <<m[1], Counts[m[2]]>>
  BY DEF RowsUpTo
<1>4. B \subseteq A
  BY <1>1
<1>5. \A m \in A : m \in B \/ <<m[1], Counts[m[2]]>> \in C
  <2> SUFFICES ASSUME NEW m \in A, m \notin B PROVE <<m[1], Counts[m[2]]>> \in C
    OBVIOUS
  <2>1. m[1] \in chosen /\ m = <<m[1], m[2]>> /\ m[2] = n /\ m \notin skipped[r]
    BY <1>1
  <2> QED BY <2>1
<1>6. \A m \in Nat : n <= m => RowsUpTo(r, n) \subseteq RowsUpTo(r, m)
  BY <1>1 DEF RowsUpTo
<1>7. \A x \in C : x \in RowsUpTo(r, n)
  <2> SUFFICES ASSUME NEW x \in C PROVE x \in RowsUpTo(r, n)
    OBVIOUS
  <2> DEFINE m == <<x[1], n>>
  <2>1. m \in A /\ x = <<m[1], Counts[m[2]]>>
    BY <1>1
  <2> HIDE DEF A, C, m
  <2> QED BY <1>2, <2>1
<1> HIDE DEF A, B, C
<1>8. \A x \in RowsUpTo(r, n) : x \in RowsUpTo(r, n - 1) \/ x \in C
  BY <1>2, <1>3, <1>5
<1>9. RowsUpTo(r, n - 1) \subseteq RowsUpTo(r, n)
  BY <1>2, <1>3, <1>4
<1>10. RowsUpTo(r, n) = RowsUpTo(r, n - 1) \cup C
  BY <1>7, <1>8, <1>9
<1> QED
  BY <1>6, <1>10 DEF C

\* A process that has ended adds what it tells to what its run has left.
LEMMA ProcessJoins ==
    ASSUME LogTypes, WholeSoFar, ProcessTells, LogsTell, run \in {1, 2},
           status \in {"done", "failed"}
    PROVE  /\ Leaves(Join(log[run], out), RowsUpTo(run, turn))
           /\ status = "done" => LeavesAll(Join(log[run], out), RowsUpTo(run, turn), turn)
<1> DEFINE old == log[run]
           s == Join(old, out)
           X == RowsUpTo(run, turn)
           Y == RowsUpTo(run, turn - 1)
<1>1. /\ old \in Seq(Stream!Line) /\ out \in Seq(Stream!Line)
      /\ AllWhole(old) /\ OnlyLastTorn(out)
      /\ turn \in Nat /\ turn > 0 /\ (status = "done" => AllWhole(out))
      /\ Leaves(old, Y) /\ LeavesAll(old, Y, turn - 1)
  <2> HIDE DEF Y
  <2>1. turn \in 1..Len(Counts) /\ Len(Counts) \in Nat
    BY GateAssumption DEF LogsTell
  <2> QED BY <2>1 DEF LogTypes, WholeSoFar, LogsTell, Y
<1>2. s = old \o out
  BY <1>1 DEF Join, AllWhole
<1>3. status = "done" => AllWhole(s)
  BY <1>1, Appended
<1> HIDE DEF s, old
<1>4. /\ s \in Seq(Stream!Line) /\ Len(s) = Len(old) + Len(out)
      /\ Len(old) \in Nat
      /\ \A i \in DOMAIN s : \/ i \in DOMAIN old /\ s[i] = old[i]
                             \/ i \in Nat /\ i - Len(old) \in DOMAIN out
                                /\ s[i] = out[i - Len(old)]
      /\ \A i \in DOMAIN old : i \in DOMAIN s /\ s[i] = old[i]
      /\ \A i \in DOMAIN out : /\ i + Len(old) \in DOMAIN s
                               /\ s[i + Len(old)] = out[i]
  BY <1>1, <1>2, LinesJoined
<1>5. X = Y \cup RowsOfTurn /\ turn - 1 \in Nat
  <2>1. turn \in Nat /\ turn > 0
    BY <1>1
  <2> QED BY <2>1, RowsGrow DEF RowsOfTurn
<1>16. \A x \in Y : \E k \in 1..(turn - 1) : x[2] = Counts[k]
  BY DEF RowsUpTo
<1>17. \A x \in RowsOfTurn : x[2] = Counts[turn]
  BY DEF RowsOfTurn
<1> HIDE DEF X, Y
<1>6. old # <<>> => 1 \in DOMAIN old
  BY <1>1
<1>7. old = <<>> => s = out
  BY <1>1, <1>2
<1>8. ASSUME jsonl PROVE Streamed(s) /\ RowsAmong(s, X)
  <2>1. Streamed(old) /\ RowsAmong(old, Y) /\ Streamed(out)
        /\ RowsAmong(out, RowsOfTurn)
    BY <1>1, <1>8 DEF Leaves, ProcessTells
  <2>2. s # <<>> => s[1].what = "run"
    <3>1. CASE old = <<>>
      BY <1>7, <2>1, <3>1 DEF Streamed
    <3>2. CASE old # <<>>
      BY <1>4, <1>6, <2>1, <3>2 DEF Streamed
    <3> QED BY <3>1, <3>2
  <2>3. \A i \in DOMAIN s : s[i].what # "array"
    BY <1>4, <2>1 DEF Streamed
  <2>4. RowsAmong(s, X)
    BY <1>4, <1>5, <2>1 DEF RowsAmong
  <2> QED BY <2>2, <2>3, <2>4 DEF Streamed
<1>9. ASSUME jsonl, IsInjective(Counts) PROVE RowsOnce(s)
  <2>1. RowsOnce(old) /\ RowsAmong(old, Y) /\ RowsOnce(out)
        /\ RowsAmong(out, RowsOfTurn)
    BY <1>1, <1>9 DEF Leaves, ProcessTells
  <2>2. Y \cap RowsOfTurn = {}
    <3> SUFFICES ASSUME NEW k \in 1..(turn - 1), Counts[k] = Counts[turn]
                 PROVE  FALSE
      BY <1>16, <1>17
    <3>1. Counts \in Seq(Nat \ {0}) /\ turn \in 1..Len(Counts)
      BY GateAssumption DEF LogsTell
    <3>2. k \in DOMAIN Counts /\ turn \in DOMAIN Counts /\ k # turn
      BY <1>1, <3>1
    <3> QED BY <1>9, <3>2 DEF IsInjective
  <2> SUFFICES ASSUME NEW i \in DOMAIN s, NEW k \in DOMAIN s, s[i].what = "row",
                      s[k].what = "row", s[i].row = s[k].row
               PROVE  i = k
    BY DEF RowsOnce
  <2>3. CASE i \in DOMAIN old /\ s[i] = old[i] /\ k \in DOMAIN old /\ s[k] = old[k]
    BY <2>1, <2>3 DEF RowsOnce
  <2>4. CASE i \in DOMAIN old /\ s[i] = old[i]
             /\ k - Len(old) \in DOMAIN out /\ s[k] = out[k - Len(old)]
    BY <2>1, <2>2, <2>4 DEF RowsAmong
  <2>5. CASE k \in DOMAIN old /\ s[k] = old[k]
             /\ i - Len(old) \in DOMAIN out /\ s[i] = out[i - Len(old)]
    BY <2>1, <2>2, <2>5 DEF RowsAmong
  <2>6. CASE /\ i \in Nat /\ i - Len(old) \in DOMAIN out /\ s[i] = out[i - Len(old)]
             /\ k \in Nat /\ k - Len(old) \in DOMAIN out /\ s[k] = out[k - Len(old)]
    <3>1. i - Len(old) = k - Len(old)
      BY <2>1, <2>6 DEF RowsOnce
    <3> QED BY <1>4, <2>6, <3>1
  <2> QED BY <1>4, <2>3, <2>4, <2>5, <2>6
<1>10. ASSUME jsonl, status = "done" PROVE AllRows(s, X) /\ s # <<>>
  <2>2. AllRows(old, Y) /\ Streamed(out)
    BY <1>1, <1>10 DEF LeavesAll, ProcessTells
  <2>3. PICK i \in DOMAIN out : out[i].what \in {"aggregate", "array"}
    BY <1>10 DEF ProcessTells
  <2>4. AllRows(out, RowsOfTurn)
    BY <1>10, <2>2, <2>3 DEF ProcessTells, Streamed
  <2>5. AllRows(s, X)
    <3> SUFFICES ASSUME NEW x \in X
                 PROVE  \E k \in DOMAIN s : s[k].what = "row" /\ s[k].row = x
      BY DEF AllRows
    <3>1. CASE x \in Y
      <4>1. PICK k \in DOMAIN old : old[k].what = "row" /\ old[k].row = x
        BY <2>2, <3>1 DEF AllRows
      <4> QED BY <1>4, <4>1
    <3>2. CASE x \in RowsOfTurn
      <4>1. PICK k \in DOMAIN out : out[k].what = "row" /\ out[k].row = x
        BY <2>4, <3>2 DEF AllRows
      <4> QED BY <1>4, <4>1
    <3> QED BY <1>5, <3>1, <3>2
  <2>6. s # <<>>
    BY <1>4, <2>3
  <2> QED BY <2>5, <2>6
<1>11. ASSUME ~jsonl, status = "done" PROVE Documents(s) /\ Len(s) = turn
  <2>1. Documents(old) /\ Len(old) = turn - 1 /\ Documents(out) /\ Len(out) <= 1
    BY <1>1, <1>11 DEF LeavesAll, ProcessTells
  <2>2. PICK i \in DOMAIN out : out[i].what \in {"aggregate", "array"}
    BY <1>11 DEF ProcessTells
  <2>3. Len(out) = 1
    <3>1. Len(out) \in Nat /\ i \in 1..Len(out)
      BY <1>1, <2>2
    <3> QED BY <2>1, <3>1
  <2>4. Len(s) = turn
    BY <1>1, <1>4, <2>1, <2>3
  <2>5. Documents(s)
    BY <1>4, <2>1 DEF Documents
  <2> QED BY <2>4, <2>5
<1>12. Leaves(s, X)
  BY <1>8, <1>9 DEF Leaves
<1>13. status = "done" => LeavesAll(s, X, turn)
  BY <1>3, <1>10, <1>11 DEF LeavesAll
<1> QED
  BY <1>12, <1>13 DEF s, old, X

\* Nothing is told before the first run.
LEMMA InitTellInv == Init => TellInv
<1> SUFFICES ASSUME Init PROVE TellInv
  OBVIOUS
<1>1. /\ out = <<>> /\ status = "idle" /\ run = 0 /\ turn = 1 /\ failed = {}
      /\ effect = <<>> /\ verdict = "none"
  BY DEF Init
<1>2. 1 \in 1..Len(Counts)
  BY GateAssumption
<1>3. DOMAIN out = {} /\ Len(out) = 0
  BY <1>1
<1>4. ProcessTells
  BY <1>1, <1>3 DEF ProcessTells, Streamed, RowsAmong, RowsOnce, Documents
<1>5. LogsTell
  BY <1>1, <1>2 DEF LogsTell
<1>6. Stages
  BY <1>1 DEF Stages
<1> QED
  BY <1>4, <1>5, <1>6 DEF TellInv

\* An empty log is what no process leaves.
LEMMA NothingLeft == \A X : Leaves(<<>>, X) /\ LeavesAll(<<>>, {}, 0)
<1>1. DOMAIN <<>> = {} /\ Len(<<>>) = 0
  OBVIOUS
<1> DEFINE e == <<>>
<1>2. DOMAIN e = {} /\ Len(e) = 0 /\ e = <<>>
  BY <1>1
<1> HIDE DEF e
<1>3. \A X : Leaves(e, X)
  BY <1>2 DEF Leaves, Streamed, RowsAmong, RowsOnce
<1>4. LeavesAll(e, {}, 0)
  BY <1>2 DEF LeavesAll, AllWhole, AllRows, Documents
<1> QED
  BY <1>3, <1>4 DEF e

\* A log may hold less than all processes leave.
LEMMA LeavesLess ==
    ASSUME NEW lines, NEW X, NEW Y, X \subseteq Y, Leaves(lines, X)
    PROVE  Leaves(lines, Y)
BY DEF Leaves, RowsAmong

\* What a process leaves means the same after a step that keeps the format.
LEMMA TellsTheSame ==
    ASSUME UNCHANGED jsonl
    PROVE  \A lines, X, n : /\ Leaves(lines, X) => Leaves(lines, X)'
                            /\ LeavesAll(lines, X, n) => LeavesAll(lines, X, n)'
BY DEF Leaves, LeavesAll

\* The rows due of a run stay due if it leaves out no other file.
LEMMA RowsKept ==
    ASSUME UNCHANGED chosen, NEW r, skipped'[r] = skipped[r]
    PROVE  \A n : RowsUpTo(r, n)' = RowsUpTo(r, n)
BY DEF RowsUpTo

\* Before its first process a run owes no row.
LEMMA NoRowsYet == \A r : RowsUpTo(r, 0) = {} /\ RowsUpTo(r, 0)' = {}
<1>1. 1..0 = {}
  OBVIOUS
<1> QED
  BY <1>1 DEF RowsUpTo

\* The logs tell what they should after the end of each process.
LEMMA NextProcessTells ==
    ASSUME LogTypes, WholeSoFar, ProcessTells, LogsTell, NextProcess
    PROVE  LogsTell' /\ ProcessTells'
<1>1. /\ run \in {1, 2} /\ status \in {"done", "failed"} /\ out' = <<>>
      /\ log' = [log EXCEPT ![run] = Join(log[run], out)]
      /\ failed' = IF status = "failed" THEN failed \cup {run} ELSE failed
      /\ UNCHANGED <<jsonl, chosen>>
  BY DEF NextProcess, picking
<1>2. \/ status = "done" /\ turn < Len(Counts) /\ turn' = turn + 1 /\ run' = run
         /\ status' = "running" /\ UNCHANGED skipped
      \/ /\ (status = "done" => ~(turn < Len(Counts)))
         /\ turn' = 1 /\ run' = run + 1
         /\ IF run = 1 THEN Starts(2) ELSE status' = "idle" /\ UNCHANGED skipped
  BY <1>1 DEF NextProcess
<1>3. Len(Counts) \in Nat /\ turn \in 1..Len(Counts) /\ failed \subseteq {r \in {1, 2} : r < run}
  BY GateAssumption DEF LogsTell
<1>4. status' \in {"running", "failed"} \/ (run' = 3 /\ status' = "idle")
  BY <1>1, <1>2, RunStarts DEF LogTypes
<1>5. \A r \in {1, 2} : r <= run => skipped'[r] = skipped[r]
  BY <1>1, <1>2, RunStarts DEF LogTypes
<1> DEFINE s == Join(log[run], out)
<1>6. /\ Leaves(s, RowsUpTo(run, turn))
      /\ status = "done" => LeavesAll(s, RowsUpTo(run, turn), turn)
  BY <1>1, ProcessJoins
<1> HIDE DEF s
<1>7. log'[run] = s /\ \A r \in {1, 2} : r # run => log'[r] = log[r]
  BY <1>1 DEF s, LogTypes
<1>8. Leaves(s, RowsUpTo(run, Len(Counts)))
  <2>1. RowsUpTo(run, turn) \subseteq RowsUpTo(run, Len(Counts))
    BY <1>3, RowsGrow
  <2> QED BY <1>6, <2>1, LeavesLess
<1>9. \A r \in {1, 2} : r > run => log[r] = <<>>
  BY DEF WholeSoFar
<1>10. ASSUME NEW r \in {1, 2}, r = run'
       PROVE  /\ Leaves(log'[r], RowsUpTo(r, turn - 1)')
              /\ LeavesAll(log'[r], RowsUpTo(r, turn - 1)', turn' - 1)
  <2>1. CASE run' = run
    <3>1. status = "done" /\ turn' - 1 = turn /\ log'[r] = s /\ r = run
      BY <1>1, <1>2, <1>3, <1>7, <1>10, <2>1
    <3>2. RowsUpTo(r, turn - 1)' = RowsUpTo(run, turn)
      <4>1. skipped'[r] = skipped[r] /\ r = run
        BY <1>5, <3>1
      <4> QED BY <1>1, <3>1, <4>1 DEF RowsUpTo
    <3> QED BY <1>6, <3>1, <3>2
  <2>2. CASE run' = run + 1
    <3>1. log'[r] = <<>> /\ turn' - 1 = 0
      BY <1>1, <1>2, <1>7, <1>9, <1>10, <2>2
    <3>2. RowsUpTo(r, turn - 1)' = {}
      BY <3>1, NoRowsYet
    <3> QED BY <3>1, <3>2, NothingLeft
  <2> QED BY <1>2, <2>1, <2>2
<1>11. ASSUME NEW r \in {1, 2}, r < run'
       PROVE  /\ Leaves(log'[r], RowsUpTo(r, Len(Counts))')
              /\ r \notin failed' => LeavesAll(log'[r], RowsUpTo(r, Len(Counts))', Len(Counts))
  <2>1. r <= run
    BY <1>1, <1>2, <1>11
  <2>2. RowsUpTo(r, Len(Counts))' = RowsUpTo(r, Len(Counts))
    BY <1>1, <1>5, <2>1, RowsKept
  <2>3. CASE r = run
    <3>1. run' = run + 1 /\ (status = "done" => turn = Len(Counts))
      BY <1>1, <1>2, <1>3, <1>11, <2>3
    <3>2. r \notin failed' => status = "done"
      BY <1>1, <2>3
    <3> QED BY <1>6, <1>7, <1>8, <2>2, <2>3, <3>1, <3>2
  <2>4. CASE r # run
    <3>1. r < run
      BY <1>1, <2>1, <2>4
    <3> QED BY <1>1, <1>7, <2>2, <2>4, <3>1 DEF LogsTell
  <2> QED BY <2>3, <2>4
<1>12. ASSUME NEW r \in {1, 2}
       PROVE  /\ r = run' => /\ Leaves(log[r], RowsUpTo(r, turn - 1))'
                             /\ LeavesAll(log[r], RowsUpTo(r, turn - 1), turn - 1)'
              /\ r < run' => /\ Leaves(log[r], RowsUpTo(r, Len(Counts)))'
                             /\ r \notin failed' =>
                                    LeavesAll(log[r], RowsUpTo(r, Len(Counts)), Len(Counts))'
  BY <1>1, <1>10, <1>11, TellsTheSame
<1>13. /\ run' # 0 /\ (run' = 3 => status' = "idle") /\ turn' \in 1..Len(Counts)
       /\ failed' \subseteq {r \in {1, 2} : r < run'}
  BY <1>1, <1>2, <1>3
<1>14. LogsTell'
  BY <1>12, <1>13 DEF LogsTell
<1>15. DOMAIN out' = {} /\ Len(out') = 0 /\ status' # "done"
  BY <1>1, <1>4
<1>16. ProcessTells'
  BY <1>1, <1>15 DEF ProcessTells, Streamed, RowsAmong, RowsOnce, Documents
<1> QED
  BY <1>14, <1>16

\* The first run begins with an empty log.
LEMMA FirstRunTells ==
    ASSUME WholeSoFar, LogsTell, FirstRun
    PROVE  LogsTell'
<1>1. run = 0 /\ run' = 1 /\ UNCHANGED <<jsonl, chosen, turn, log, failed>>
  BY DEF FirstRun, picking
<1>2. turn' = 1 /\ failed' = {} /\ 1 \in 1..Len(Counts)
  BY <1>1, GateAssumption DEF LogsTell
<1>3. turn' - 1 = 0 /\ \A r \in {1, 2} : log'[r] = <<>>
  BY <1>1, <1>2 DEF WholeSoFar
<1>4. ASSUME NEW r \in {1, 2}
      PROVE  /\ Leaves(log'[r], RowsUpTo(r, turn - 1)')
             /\ LeavesAll(log'[r], RowsUpTo(r, turn - 1)', turn' - 1)
  <2>1. RowsUpTo(r, turn - 1)' = {}
    BY <1>3, NoRowsYet
  <2> QED BY <1>3, <2>1, NothingLeft
<1>5. ASSUME NEW r \in {1, 2}
      PROVE  /\ Leaves(log[r], RowsUpTo(r, turn - 1))'
             /\ LeavesAll(log[r], RowsUpTo(r, turn - 1), turn - 1)'
  BY <1>1, <1>4, TellsTheSame
<1>6. \A r \in {1, 2} : ~(r < run')
  BY <1>1
<1> QED
  BY <1>1, <1>2, <1>5, <1>6 DEF LogsTell

\* The other steps leave the logs, and the rows due of them, as they are.
LEMMA LogsLeftAlone ==
    ASSUME LogTypes, LogsTell, UNCHANGED <<run, turn, log, failed, jsonl>>,
           run > 0 => UNCHANGED chosen, run = 0 => out' = <<>>,
           run \in {0, 3} => status' = "idle",
           \A r \in {1, 2} : r < run => skipped'[r] = skipped[r],
           run > 0 => RowsUpTo(run, turn - 1)' = RowsUpTo(run, turn - 1)
    PROVE  LogsTell'
<1>1. CASE run = 0
  BY <1>1 DEF LogsTell
<1>2. CASE run > 0
  <2>1. ASSUME NEW r \in {1, 2}, r < run
        PROVE  RowsUpTo(r, Len(Counts))' = RowsUpTo(r, Len(Counts))
    BY <1>2, <2>1, RowsKept
  <2>2. ASSUME NEW r \in {1, 2}
        PROVE  /\ r = run' => /\ Leaves(log[r], RowsUpTo(r, turn - 1))'
                              /\ LeavesAll(log[r], RowsUpTo(r, turn - 1), turn - 1)'
               /\ r < run' => /\ Leaves(log[r], RowsUpTo(r, Len(Counts)))'
                              /\ r \notin failed' =>
                                     LeavesAll(log[r], RowsUpTo(r, Len(Counts)), Len(Counts))'
    BY <1>2, <2>1, TellsTheSame DEF LogsTell
  <2>3. UNCHANGED <<run, turn, failed>> /\ run' # 0 /\ (run' = 3 => status' = "idle")
    BY <1>2
  <2> QED
    BY <2>2, <2>3 DEF LogsTell
<1> QED
  BY <1>1, <1>2 DEF LogTypes

\* A file left out at this turn takes no row from the turns before.
LEMMA SkipLeavesLogs ==
    ASSUME LogTypes, LogsTell, Skip
    PROVE  run \in {1, 2} /\ LogsTell'
<1>1. run \in {1, 2} /\ status = "running"
      /\ UNCHANGED <<chosen, run, turn, log, failed, jsonl, out, status>>
  BY DEF Skip, picking, process, LogsTell, LogTypes
<1>2. PICK f \in chosen \ Passed :
          skipped' = [skipped EXCEPT ![run] = skipped[run] \cup {<<f, turn>>}]
  BY SkipStep DEF LogTypes
<1>3. \A r \in {1, 2} : r < run => skipped'[r] = skipped[r]
  BY <1>1, <1>2 DEF LogTypes
<1>4. skipped'[run] = skipped[run] \cup {<<f, turn>>}
  BY <1>1, <1>2 DEF LogTypes
<1>5. turn \in Nat
  BY GateAssumption DEF LogsTell
<1>6. <<f, turn>> \notin chosen \X (1..(turn - 1))
  BY <1>5
<1>7. (chosen \X (1..(turn - 1))) \ skipped'[run] = (chosen \X (1..(turn - 1))) \ skipped[run]
  BY <1>4, <1>6
<1>8. RowsUpTo(run, turn - 1)' = RowsUpTo(run, turn - 1)
  BY <1>1, <1>7 DEF RowsUpTo
<1> QED
  BY <1>1, <1>3, <1>8, LogsLeftAlone
-----------------------------------------------------------------------------
\* The gate's answer depends on the logs and on what their rows say.
LEMMA GateFixed ==
    UNCHANGED <<jsonl, log, effect, chosen, skipped>> => (GateFails' <=> GateFails)
<1> SUFFICES ASSUME UNCHANGED <<jsonl, log, effect, chosen, skipped>>
             PROVE  GateFails' <=> GateFails
  OBVIOUS
<1>1. \A l : Base(l)' = Base(l) /\ New(l)' = New(l)
  BY DEF Base, New
<1>2. Loaded(1)' = Loaded(1) /\ Loaded(2)' = Loaded(2)
  BY DEF Loaded
<1>3. Paired' = Paired
  BY <1>1, <1>2 DEF Paired
<1>4. Deltas' = Deltas /\ (OverCeiling' <=> OverCeiling)
  BY <1>1, <1>3 DEF Deltas, OverCeiling
<1> QED
  BY <1>3, <1>4 DEF GateFails

\* Every step of the pipeline keeps its stages in order.
LEMMA NextStages ==
    ASSUME Stages, LogTypes, LogsTell, [Next]_vars
    PROVE  Stages'
<1> USE DEF Stages, LogTypes
<1>1. CASE MakeSubset
  BY <1>1 DEF MakeSubset
<1>2. CASE run < 3 /\ run' \in 0..3 /\ pc = "done" /\ UNCHANGED <<picking, effect, verdict>>
  BY <1>2 DEF picking
<1>3. CASE FirstRun
  <2>1. run = 0 /\ run' = 1 /\ pc = "done" /\ UNCHANGED <<picking, effect, verdict>>
    BY <1>3 DEF FirstRun
  <2> QED BY <1>2, <2>1
<1>4. CASE Bench
  <2>1. status = "running" /\ UNCHANGED <<picking, effect, run, verdict>>
    BY <1>4 DEF Bench
  <2>2. run \in {1, 2}
    BY <2>1 DEF LogsTell
  <2> QED BY <1>2, <2>1, <2>2
<1>5. CASE Skip
  <2>1. UNCHANGED <<picking, effect, run, verdict>> /\ run \in {1, 2}
    BY <1>5, SkipLeavesLogs DEF Skip
  <2> QED BY <1>2, <2>1
<1>6. CASE NextProcess
  <2>1. UNCHANGED <<picking, effect, verdict>> /\ run \in {1, 2} /\ run' \in {run, run + 1}
    BY <1>6 DEF NextProcess
  <2> QED BY <1>2, <2>1
<1>7. CASE ReadRows
  <2>1. run = 3 /\ DOMAIN effect # Measured /\ UNCHANGED <<picking, run, verdict>>
    BY <1>7 DEF ReadRows
  <2>2. PICK most \in Effects, odd \in SUBSET chosen :
            \E other \in [odd \X ToSet(Counts) -> Effects] :
                effect' = [p \in Measured |-> IF p[1] \in odd THEN other[p] ELSE most]
    BY <1>7 DEF ReadRows
  <2>3. PICK other \in [odd \X ToSet(Counts) -> Effects] :
            effect' = [p \in Measured |-> IF p[1] \in odd THEN other[p] ELSE most]
    BY <2>2
  <2>4. \A p \in Measured : p[1] \in odd => p \in odd \X ToSet(Counts)
    BY DEF Measured
  <2>5. effect' \in [Measured -> Effects]
    BY <2>3, <2>4
  <2>6. verdict' = "none" /\ Measured' = Measured /\ run' = 3 /\ pc' = pc
    BY <2>1 DEF Measured, picking
  <2> QED BY <2>1, <2>5, <2>6
<1>8. CASE Report
  <2>1. /\ UNCHANGED <<picking, process, effect, run, log, skipped>>
        /\ run = 3 /\ DOMAIN effect = Measured
        /\ verdict' = IF GateFails THEN "1" ELSE "0"
    BY <1>8 DEF Report
  <2>2. (GateFails' <=> GateFails) /\ Measured' = Measured
    BY <2>1, GateFixed DEF picking, process, Measured
  <2> QED
    BY <2>1, <2>2 DEF picking
<1>9. CASE UNCHANGED vars
  <2>1. (GateFails' <=> GateFails) /\ Measured' = Measured
    BY <1>9, GateFixed DEF vars, picking, process, Measured
  <2> QED
    BY <1>9, <2>1 DEF vars, picking
<1> QED
  BY <1>1, <1>3, <1>4, <1>5, <1>6, <1>7, <1>8, <1>9 DEF Next, Over

\* Every step keeps what the running process and the logs tell.
LEMMA NextTellInv == GateInv /\ TellInv /\ [Next]_vars => TellInv'
<1> SUFFICES ASSUME GateInv, TellInv, [Next]_vars PROVE TellInv'
  OBVIOUS
<1> USE DEF GateInv, TellInv
<1>1. Stages'
  BY NextStages
<1>2. CASE MakeSubset
  <2>1. run = 0 /\ UNCHANGED <<process, run, turn, log, failed, skipped>>
    BY <1>2 DEF MakeSubset
  <2>2. out' = <<>> /\ status' = "idle" /\ UNCHANGED <<jsonl, run, turn, log, failed>>
    BY <2>1 DEF LogsTell, process
  <2>3. DOMAIN out' = {} /\ Len(out') = 0
    BY <2>2
  <2>4. ProcessTells'
    BY <2>2, <2>3 DEF ProcessTells, Streamed, RowsAmong, RowsOnce, Documents
  <2>5. LogsTell'
    BY <2>1, <2>2, LogsLeftAlone
  <2> QED BY <1>1, <2>4, <2>5
<1>3. CASE FirstRun
  <2>1. run = 0 /\ run' = 1 /\ Starts(1)
        /\ UNCHANGED <<picking, jsonl, out, turn, log, failed>>
    BY <1>3 DEF FirstRun
  <2>2. out' = <<>> /\ status' # "done"
    BY <2>1, RunStarts DEF LogsTell, LogTypes
  <2>3. DOMAIN out' = {} /\ Len(out') = 0
    BY <2>2
  <2>4. ProcessTells'
    BY <2>2, <2>3 DEF ProcessTells, Streamed, RowsAmong, RowsOnce, Documents
  <2>5. LogsTell'
    BY <1>3, FirstRunTells
  <2> QED BY <1>1, <2>4, <2>5
<1>4. CASE Bench
  <2>1. status = "running" /\ Stream!Next /\ InOrder
        /\ UNCHANGED <<picking, run, turn, log, failed, skipped>>
    BY <1>4 DEF Bench
  <2>2. UNCHANGED jsonl
    BY <2>1 DEF Stream!Next, Stream!Header, Stream!Row, Stream!Aggregate, Stream!Document,
                Stream!Begin, Stream!Flush, Stream!Exit, Stream!Fail
  <2>3. ProcessTells'
    BY <2>1, ProcessStep DEF LogTypes, picking
  <2>4. run \notin {0, 3}
    BY <2>1 DEF LogsTell
  <2>5. RowsUpTo(run, turn - 1)' = RowsUpTo(run, turn - 1)
    BY <2>1 DEF RowsUpTo, picking
  <2>6. LogsTell'
    BY <2>1, <2>2, <2>4, <2>5, LogsLeftAlone DEF picking
  <2> QED BY <1>1, <2>3, <2>6
<1>5. CASE NextProcess
  BY <1>1, <1>5, NextProcessTells
<1>6. CASE ReadRows \/ Report \/ UNCHANGED vars
  <2>1. UNCHANGED <<picking, process, run, turn, log, failed, skipped>>
    BY <1>6 DEF ReadRows, Report, vars
  <2>2. UNCHANGED <<chosen, jsonl, out, status, run, turn, log, failed, skipped>>
    BY <2>1 DEF picking, process
  <2>3. ProcessTells'
    BY <2>2 DEF ProcessTells, RowsOfTurn
  <2>4. RowsUpTo(run, turn - 1)' = RowsUpTo(run, turn - 1)
    BY <2>2 DEF RowsUpTo
  <2>5. LogsTell'
    BY <2>2, <2>4, LogsLeftAlone DEF LogsTell
  <2> QED BY <1>1, <2>3, <2>5
<1>7. CASE Skip
  <2>1. run \in {1, 2} /\ LogsTell'
    BY <1>7, SkipLeavesLogs
  <2>2. ProcessTells'
    BY <1>7, <2>1, SkipTells DEF LogTypes
  <2> QED BY <1>1, <2>1, <2>2
<1> QED
  BY <1>2, <1>3, <1>4, <1>5, <1>6, <1>7 DEF Next, Over

\* The invariant of the rows holds throughout.
THEOREM PipelineInvariant == Spec => []TellInv
<1>1. Spec => [](GateInv /\ TellInv)
  BY InitGateInv, NextGateInv, InitTellInv, NextTellInv, PTL DEF Spec
<1> QED
  BY <1>1, PTL
-----------------------------------------------------------------------------
\* What is loaded of a stream is the set of its whole result lines.
LEMMA LoadedLines ==
    ASSUME jsonl, LogTypes, NEW r \in {1, 2}
    PROVE  /\ Loaded(r) \in Seq(Stream!Line)
           /\ ToSet(Loaded(r)) = Results(log[r])
           /\ {l.row : l \in ToSet(Loaded(r))} = WholeRows(r)
<1> DEFINE K == Kept(log[r], Results(log[r]))
<1>1. Loaded(r) = K
  BY DEF Loaded
<1>2. log[r] \in Seq(Stream!Line)
  BY DEF LogTypes
<1>3. /\ K \in Seq(Stream!Line)
      /\ \A n \in DOMAIN log[r] : log[r][n] \in Results(log[r]) =>
             \E i \in DOMAIN K : K[i] = log[r][n]
      /\ \A i \in DOMAIN K : \E n \in DOMAIN log[r] :
             K[i] = log[r][n] /\ log[r][n] \in Results(log[r])
  <2> DEFINE s == log[r]
             T == Results(s)
  <2>1. s \in Seq(Stream!Line)
    BY <1>2
  <2> HIDE DEF s, T
  <2>2. /\ Kept(s, T) \in Seq(Stream!Line)
        /\ \A n \in DOMAIN s : s[n] \in T => \E i \in DOMAIN Kept(s, T) : Kept(s, T)[i] = s[n]
        /\ \A i \in DOMAIN Kept(s, T) : \E n \in DOMAIN s : Kept(s, T)[i] = s[n] /\ s[n] \in T
    BY <2>1, KeptInOrder
  <2> QED BY <2>2 DEF s, T
<1> HIDE DEF K
<1>4. ToSet(K) = Results(log[r])
  <2>1. ASSUME NEW l \in Results(log[r]) PROVE l \in ToSet(K)
    BY <1>3, <2>1 DEF Results, ToSet
  <2>2. ASSUME NEW l \in ToSet(K) PROVE l \in Results(log[r])
    BY <1>3, <2>2 DEF ToSet
  <2> QED BY <2>1, <2>2
<1>5. {l.row : l \in Results(log[r])} = WholeRows(r)
  BY DEF Results, WholeRows
<1> QED
  BY <1>1, <1>3, <1>4, <1>5

\* A stream that tells each row once is loaded without repetition.
LEMMA LoadedOnce ==
    ASSUME jsonl, LogTypes, NEW r \in {1, 2}, RowsOnce(log[r])
    PROVE  Len(Loaded(r)) = Cardinality(WholeRows(r))
<1> DEFINE K == Loaded(r)
           N == Len(K)
           f == [i \in 1..N |-> K[i].row]
<1>1. K \in Seq(Stream!Line) /\ ToSet(K) = Results(log[r])
      /\ {l.row : l \in ToSet(K)} = WholeRows(r)
  BY LoadedLines
<1>2. \A i, j \in DOMAIN K : i < j =>
          \E m, n \in DOMAIN log[r] : m < n /\ K[i] = log[r][m] /\ K[j] = log[r][n]
  <2>1. K = Kept(log[r], Results(log[r])) /\ log[r] \in Seq(Stream!Line)
    BY DEF Loaded, LogTypes
  <2> DEFINE s == log[r]
             T == Results(s)
  <2> HIDE DEF s, T
  <2>2. s \in Seq(Stream!Line) => \A i, j \in DOMAIN Kept(s, T) : i < j =>
            \E m, n \in DOMAIN s : m < n /\ Kept(s, T)[i] = s[m] /\ Kept(s, T)[j] = s[n]
    BY KeptInOrder
  <2> HIDE DEF K
  <2> QED BY <2>1, <2>2 DEF s, T
<1> HIDE DEF K
<1>3. DOMAIN K = 1..N /\ N \in Nat /\ DOMAIN log[r] \subseteq Nat
  <2>1. log[r] \in Seq(Stream!Line)
    BY DEF LogTypes
  <2>2. DOMAIN log[r] = 1..Len(log[r]) /\ Len(log[r]) \in Nat
    BY <2>1
  <2> QED BY <1>1, <2>2
<1>4. \A i \in DOMAIN K : K[i] \in Results(log[r])
  BY <1>1 DEF ToSet
<1>5. ASSUME NEW i \in 1..N, NEW j \in 1..N, i < j PROVE K[i].row # K[j].row
  <2>1. PICK m \in DOMAIN log[r], n \in DOMAIN log[r] :
            m < n /\ K[i] = log[r][m] /\ K[j] = log[r][n]
    BY <1>2, <1>3, <1>5
  <2>2. log[r][m].what = "row" /\ log[r][n].what = "row"
    BY <1>3, <1>4, <2>1 DEF Results
  <2>3. m # n
    BY <1>3, <2>1
  <2> QED BY <2>1, <2>2, <2>3 DEF RowsOnce
<1>6. ASSUME NEW i \in 1..N, NEW j \in 1..N, f[i] = f[j] PROVE i = j
  <2>1. ~(i < j) /\ ~(j < i)
    BY <1>5, <1>6
  <2> QED BY <1>3, <2>1
<1>7. WholeRows(r) = {K[i].row : i \in 1..N}
  BY <1>1, <1>3 DEF ToSet
<1>8. f \in [1..N -> WholeRows(r)]
  BY <1>7
<1>9. f \in Bijection(1..N, WholeRows(r))
  BY <1>6, <1>7, <1>8 DEF Bijection, Injection, Surjection, IsInjective
<1>10. IsFiniteSet(1..N) /\ Cardinality(1..N) = N
  <2>1. 1 \in Int /\ N \in Int
    BY <1>3
  <2>2. Cardinality(1..N) = IF 1 > N THEN 0 ELSE N - 1 + 1
    BY <2>1, FS_Interval
  <2> HIDE DEF N
  <2> QED BY <1>3, <2>1, <2>2, FS_Interval
<1>11. Cardinality(WholeRows(r)) = Cardinality(1..N)
  BY <1>9, <1>10, FS_Bijection DEF ExistsBijection
<1> QED
  BY <1>10, <1>11 DEF K

\* The rows due of a run are those of all its thread counts.
LEMMA AllDue == \A r : Due(r) = RowsUpTo(r, Len(Counts))
<1>1. Counts \in Seq(Nat \ {0})
  BY GateAssumption
<1>2. DOMAIN Counts = 1..Len(Counts)
  BY <1>1
<1> QED
  BY <1>2 DEF Due, RowsUpTo

\* The log of a run in which nothing failed holds every row that is due.
LEMMA LogComplete ==
    ASSUME GateInv, TellInv, NEW r \in {1, 2}, r < run, r \notin failed
    PROVE  /\ jsonl => Loads(log[r]) /\ WholeRows(r) = Due(r)
           /\ ~jsonl => (Loads(log[r]) <=> Len(Counts) = 1)
<1> DEFINE lines == log[r]
           n == Len(Counts)
           X == Due(r)
<1>1. Leaves(lines, X) /\ LeavesAll(lines, X, n)
  BY AllDue DEF TellInv, LogsTell
<1>2. lines \in Seq(Stream!Line)
  BY DEF GateInv, LogTypes
<1>3. n \in Nat /\ n > 0
  BY GateAssumption
<1> HIDE DEF n, X
<1>4. ASSUME jsonl PROVE Loads(lines) /\ WholeRows(r) = X
  <2>1. /\ AllWhole(lines) /\ AllRows(lines, X) /\ lines # <<>>
        /\ Streamed(lines) /\ RowsAmong(lines, X)
    BY <1>1, <1>3, <1>4 DEF Leaves, LeavesAll
  <2>2. 1 \in DOMAIN lines
    BY <1>2, <2>1
  <2>3. lines[1].what = "run" /\ lines[1].whole
    BY <2>1, <2>2 DEF Streamed, AllWhole
  <2>4. Loads(lines)
    BY <2>1, <2>2, <2>3 DEF Loads
  <2>5. ASSUME NEW x \in X PROVE x \in WholeRows(r)
    <3>1. PICK i \in DOMAIN lines : lines[i].what = "row" /\ lines[i].row = x
      BY <2>1, <2>5 DEF AllRows
    <3> QED BY <2>1, <3>1 DEF AllWhole, WholeRows, ToSet
  <2>6. ASSUME NEW x \in WholeRows(r) PROVE x \in X
    BY <2>1, <2>6 DEF RowsAmong, WholeRows, ToSet
  <2> QED BY <2>4, <2>5, <2>6
<1>5. ASSUME ~jsonl PROVE Loads(lines) <=> n = 1
  <2>1. AllWhole(lines) /\ Documents(lines) /\ Len(lines) = n
    BY <1>1, <1>5 DEF LeavesAll
  <2>2. lines # <<>> /\ 1 \in DOMAIN lines
    BY <1>2, <1>3, <2>1
  <2>3. lines[1].what = "array" /\ lines[1].whole
    BY <2>1, <2>2 DEF Documents, AllWhole
  <2> QED BY <2>1, <2>2, <2>3 DEF Loads
<1> QED
  BY <1>4, <1>5 DEF n, X

\* For every corpus, every list of thread counts, either format, however many
\* processes fail and whatever files are left out: a stream gives back every
\* row that reached it whole, and of a run that did not fail, which is all its
\* exit code says, exactly the rows of the files that were not left out.
THEOREM LogTellsTheRunHolds == Spec => []LogTellsTheRun
<1>1. GateInv /\ TellInv => LogTellsTheRun
  <2> SUFFICES ASSUME GateInv, TellInv, NEW r \in {1, 2}, r < run
               PROVE  /\ jsonl =>
                           /\ {l.row : l \in ToSet(Loaded(r))} = WholeRows(r)
                           /\ IsInjective(Counts) =>
                                  Len(Loaded(r)) = Cardinality(WholeRows(r))
                           /\ r \notin failed => Loads(log[r]) /\ WholeRows(r) = Due(r)
                      /\ ~jsonl /\ r \notin failed => (Loads(log[r]) <=> Len(Counts) = 1)
    <3>1. run \in 0..3 \/ ~GateInv
      BY DEF GateInv, LogTypes
    <3> QED BY <3>1 DEF LogTellsTheRun, Ended
  <2>1. LogTypes /\ Leaves(log[r], RowsUpTo(r, Len(Counts)))
    BY DEF GateInv, TellInv, LogsTell
  <2>2. ASSUME jsonl PROVE {l.row : l \in ToSet(Loaded(r))} = WholeRows(r)
    BY <2>1, <2>2, LoadedLines
  <2>3. ASSUME jsonl, IsInjective(Counts)
        PROVE  Len(Loaded(r)) = Cardinality(WholeRows(r))
    <3>1. RowsOnce(log[r])
      BY <2>1, <2>3 DEF Leaves
    <3> QED BY <2>1, <2>3, <3>1, LoadedOnce
  <2> QED
    BY <2>2, <2>3, LogComplete
<1> QED
  BY <1>1, GateInvariant, PipelineInvariant, PTL
-----------------------------------------------------------------------------
\* The rows the gate compares are the pairs both streams hold.
LEMMA PairedLines ==
    ASSUME jsonl, LogTypes
    PROVE  /\ Paired \in Seq(Stream!Line)
           /\ ToSet(Paired) = {l \in Results(log[1]) :
                  Base(l) > 0 /\ l.row \in WholeRows(2) /\ New(l) # Failed}
<1> DEFINE K == Loaded(1)
           S == {l \in ToSet(K) : Base(l) > 0 /\ l.row \in WholeRows(2) /\ New(l) # Failed}
<1>1. /\ K \in Seq(Stream!Line) /\ ToSet(K) = Results(log[1])
      /\ {l.row : l \in ToSet(Loaded(2))} = WholeRows(2)
  BY LoadedLines
<1>2. Paired = Kept(K, S)
  BY <1>1 DEF Paired
<1> HIDE DEF K, S
<1> DEFINE P == Kept(K, S)
<1>3. /\ P \in Seq(Stream!Line)
      /\ \A n \in DOMAIN K : K[n] \in S => \E i \in DOMAIN P : P[i] = K[n]
      /\ \A i \in DOMAIN P : \E n \in DOMAIN K : P[i] = K[n] /\ K[n] \in S
  BY <1>1, KeptInOrder
<1> HIDE DEF P
<1>4. ToSet(P) = S
  <2>1. \A l \in S : l \in ToSet(K)
    BY DEF S
  <2> QED BY <1>3, <2>1 DEF ToSet
<1> QED
  BY <1>1, <1>2, <1>3, <1>4 DEF P, S

\* When both runs finish, the gate sees every file that neither left out.
LEMMA SlowFileSeen ==
    ASSUME GateInv, TellInv, jsonl, run = 3, failed = {}, DOMAIN effect = Measured,
           NEW f \in chosen, <<f, 1>> \notin skipped[1] \cup skipped[2],
           effect[<<f, Counts[1]>>][1] > 0,
           (effect[<<f, Counts[1]>>][2] - effect[<<f, Counts[1]>>][1]) * 100
               > Pct * effect[<<f, Counts[1]>>][1]
    PROVE  GateFails
<1> DEFINE x == <<f, Counts[1]>>
<1>1. 1 \in DOMAIN Counts
  BY GateAssumption
<1>2. x \in Measured
  BY <1>1 DEF Measured, ToSet
<1>3. x \in WholeRows(1) /\ x \in WholeRows(2)
  <2>1. WholeRows(1) = Due(1) /\ WholeRows(2) = Due(2)
    BY LogComplete
  <2>2. \A r \in {1, 2} : x \in Due(r)
    <3> SUFFICES ASSUME NEW r \in {1, 2} PROVE x \in Due(r)
      OBVIOUS
    <3> DEFINE m == <<f, 1>>
    <3>1. m \in (chosen \X DOMAIN Counts) \ skipped[r] /\ x = <<m[1], Counts[m[2]]>>
      BY <1>1
    <3> HIDE DEF m, x
    <3> QED BY <3>1 DEF Due
  <2> QED BY <2>1, <2>2
<1>4. PICK l \in Results(log[1]) : l.row = x
  BY <1>3 DEF WholeRows, Results
<1>5. x \in DOMAIN effect /\ effect \in [Measured -> Effects]
  BY <1>2 DEF TellInv, Stages
<1> HIDE DEF x
<1>6. effect[x][1] \in Int /\ effect[x][2] \in Int
  <2>1. effect[x] \in Effects /\ Effects \subseteq (Nat \cup {-1}) \X (Nat \cup {-1})
    BY <1>5, GateAssumption DEF Failed
  <2> QED BY <2>1
<1>7. effect[x][1] > 0 /\ (effect[x][2] - effect[x][1]) * 100 > Pct * effect[x][1]
  BY DEF x
<1>8. Base(l) = effect[x][1] /\ New(l) = effect[x][2]
  BY <1>4 DEF Base, New
<1>9. New(l) # Failed
  BY <1>6, <1>7, <1>8 DEF Failed, Pct
<1>10. l \in ToSet(Paired)
  <2>1. LogTypes
    BY DEF GateInv
  <2>2. ToSet(Paired) = {k \in Results(log[1]) :
            Base(k) > 0 /\ k.row \in WholeRows(2) /\ New(k) # Failed}
    BY <2>1, PairedLines
  <2> QED BY <1>3, <1>4, <1>7, <1>8, <1>9, <2>2
<1>11. OverCeiling
  BY <1>7, <1>8, <1>10 DEF OverCeiling
<1> QED
  BY <1>11 DEF GateFails

\* For every corpus, subset size and list of thread counts: when both runs
\* finish and leave out no file of an axis level, a slowdown over the ceiling of
\* the rows of its files alone fails the gate, because the subset has such a
\* file and no row of it is lost.
THEOREM LevelRegressionCaughtHolds == Spec => []LevelRegressionCaught
<1>1. PickInv /\ GateInv /\ TellInv => LevelRegressionCaught
  <2> SUFFICES ASSUME PickInv, GateInv, TellInv, jsonl, verdict # "none", failed = {},
                      NEW a \in Axes, NEW l \in Levels,
                      NEW q \in Records, level[q][a] = l,
                      \A r \in {s \in chosen : level[s][a] = l}, t \in DOMAIN Counts :
                          /\ <<r, t>> \notin skipped[1] \cup skipped[2]
                          /\ effect[<<r, Counts[t]>>][1] > 0
                          /\ (effect[<<r, Counts[t]>>][2] - effect[<<r, Counts[t]>>][1]) * 100
                               > Pct * effect[<<r, Counts[t]>>][1]
               PROVE  verdict = "1"
    BY DEF LevelRegressionCaught
  <2>1. run = 3 /\ DOMAIN effect = Measured /\ pc = "done"
        /\ verdict = IF GateFails THEN "1" ELSE "0"
    BY DEF TellInv, Stages
  <2>2. EveryLevelCovered
    BY DEF PickInv, EveryLevelCovered, Pick!EveryLevelCovered
  <2>3. Pick!Having(<<a, l>>) \cap chosen # {}
    BY <2>1, <2>2 DEF EveryLevelCovered, Pick!EveryLevelCovered, Pick!SeenPairs
  <2>4. PICK f \in chosen : level[f][a] = l
    BY <2>3 DEF Pick!Having
  <2>5. 1 \in DOMAIN Counts
    BY GateAssumption
  <2>6. GateFails
    BY <2>1, <2>4, <2>5, SlowFileSeen
  <2> QED BY <2>1, <2>6
<1> QED
  BY <1>1, SubsetInvariant, GateInvariant, PipelineInvariant, PTL
-----------------------------------------------------------------------------
\* The gate's criteria over the pairs of the two streams: all of GateExact but
\* that the rank test and the median of the code are those of the definitions.
GateReadsPairs ==
    jsonl /\ verdict # "none" =>
        (verdict = "0" <=>
            /\ \A r \in {1, 2} : \E l \in ToSet(log[r]) : l.what = "run" /\ l.whole
            /\ Pairs # {} /\ (\A p \in Pairs : ~Over5(p))
            /\ ~(Significant(Deltas) /\ TwiceMedian(Deltas) > 0))

\* A stream can be read exactly when it has a whole header.
LEMMA StreamLoads ==
    ASSUME NEW lines \in Seq(Stream!Line), Streamed(lines)
    PROVE  Loads(lines) <=> \E l \in ToSet(lines) : l.what = "run" /\ l.whole
<1>1. CASE lines = <<>>
  <2>1. DOMAIN lines = {}
    BY <1>1
  <2> QED BY <1>1, <2>1 DEF Loads, ToSet
<1>2. CASE lines # <<>>
  BY <1>2 DEF Loads, Streamed, ToSet
<1> QED
  BY <1>1, <1>2

\* The pairs are the rows of the lines the gate compares.
LEMMA PairsAreRows ==
    ASSUME jsonl, LogTypes
    PROVE  /\ Pairs = {l.row : l \in ToSet(Paired)}
           /\ Paired = <<>> <=> Pairs = {}
           /\ OverCeiling <=> \E p \in Pairs : Over5(p)
<1>1. /\ Paired \in Seq(Stream!Line)
      /\ ToSet(Paired) = {l \in Results(log[1]) :
             Base(l) > 0 /\ l.row \in WholeRows(2) /\ New(l) # Failed}
  BY PairedLines
<1>2. WholeRows(1) = {l.row : l \in Results(log[1])}
  BY DEF WholeRows, Results
<1>3. \A l : Base(l) = effect[l.row][1] /\ New(l) = effect[l.row][2]
  BY DEF Base, New
<1>4. Pairs = {l.row : l \in ToSet(Paired)}
  <2>1. ASSUME NEW p \in Pairs PROVE p \in {l.row : l \in ToSet(Paired)}
    <3>1. p \in WholeRows(1) /\ p \in WholeRows(2)
          /\ effect[p][1] > 0 /\ effect[p][2] # Failed
      BY DEF Pairs
    <3>2. PICK l \in Results(log[1]) : l.row = p
      BY <1>2, <3>1
    <3> QED BY <1>1, <1>3, <3>1, <3>2
  <2>2. ASSUME NEW l \in ToSet(Paired) PROVE l.row \in Pairs
    <3>1. l \in Results(log[1]) /\ Base(l) > 0 /\ l.row \in WholeRows(2) /\ New(l) # Failed
      BY <1>1
    <3> QED BY <1>2, <1>3, <3>1 DEF Pairs
  <2> QED BY <2>1, <2>2
<1>5. Paired = <<>> <=> Pairs = {}
  <2>1. Paired = <<>> <=> DOMAIN Paired = {}
    BY <1>1
  <2> QED BY <1>4, <2>1 DEF ToSet
<1>6. OverCeiling <=> \E p \in Pairs : Over5(p)
  <2>1. \A p \in Pairs : Change[p] = effect[p][2] - effect[p][1]
    BY DEF Change
  <2>2. \A l \in ToSet(Paired) : Over5(l.row) <=> (New(l) - Base(l)) * 100 > Pct * Base(l)
    BY <1>3, <1>4, <2>1 DEF Over5
  <2> QED BY <1>4, <2>2 DEF OverCeiling
<1> QED
  BY <1>4, <1>5, <1>6

\* For every corpus, every list of thread counts and every failure: the gate
\* passes two streams exactly when both have a header, a row was measured in
\* both, none got slower by more than the ceiling, and the list of deltas is not
\* both significant to the code's test and of a median above zero.
THEOREM GateReadsPairsHolds == Spec => []GateReadsPairs
<1>1. GateInv /\ TellInv => GateReadsPairs
  <2> SUFFICES ASSUME GateInv, TellInv, jsonl, verdict # "none"
               PROVE  verdict = "0" <=>
                        /\ \A r \in {1, 2} : \E l \in ToSet(log[r]) : l.what = "run" /\ l.whole
                        /\ Pairs # {} /\ (\A p \in Pairs : ~Over5(p))
                        /\ ~(Significant(Deltas) /\ TwiceMedian(Deltas) > 0)
    BY DEF GateReadsPairs
  <2>1. LogTypes /\ run = 3 /\ verdict = IF GateFails THEN "1" ELSE "0"
    BY DEF GateInv, TellInv, Stages
  <2>2. ASSUME NEW r \in {1, 2}
        PROVE  Loads(log[r]) <=> \E l \in ToSet(log[r]) : l.what = "run" /\ l.whole
    <3>1. log[r] \in Seq(Stream!Line) /\ Leaves(log[r], RowsUpTo(r, Len(Counts)))
      BY <2>1 DEF TellInv, LogsTell, LogTypes
    <3> QED BY <3>1, StreamLoads DEF Leaves
  <2>3. verdict = "0" <=> ~GateFails
    BY <2>1
  <2>4. GateFails <=> \/ ~(\A r \in {1, 2} : \E l \in ToSet(log[r]) : l.what = "run" /\ l.whole)
                      \/ Pairs = {}
                      \/ \E p \in Pairs : Over5(p)
                      \/ Significant(Deltas) /\ TwiceMedian(Deltas) > 0
    BY <2>1, <2>2, PairsAreRows DEF GateFails
  <2> QED BY <2>3, <2>4
<1> QED
  BY <1>1, GateInvariant, PipelineInvariant, PTL

\* A bijection keeps the number of elements.
LEMMA SameSize ==
    ASSUME NEW A, NEW B, IsFiniteSet(A), NEW f \in [A -> B],
           \A x, y \in A : f[x] = f[y] => x = y, \A z \in B : \E x \in A : f[x] = z
    PROVE  IsFiniteSet(B) /\ Cardinality(B) = Cardinality(A)
<1>1. f \in Bijection(A, B)
  BY DEF Bijection, Injection, Surjection, IsInjective
<1> QED
  BY <1>1, FS_Bijection DEF ExistsBijection

\* Two sets without a common element.
LEMMA Apart ==
    ASSUME NEW A, NEW B, IsFiniteSet(A), IsFiniteSet(B), A \cap B = {}
    PROVE  IsFiniteSet(A \cup B) /\ Cardinality(A \cup B) = Cardinality(A) + Cardinality(B)
<1>1. /\ Cardinality(A \cup B) = Cardinality(A) + Cardinality(B) - Cardinality(A \cap B)
      /\ IsFiniteSet(A \cup B)
  BY FS_Union
<1>2. Cardinality(A \cap B) = 0 /\ Cardinality(A) \in Nat /\ Cardinality(B) \in Nat
  BY FS_EmptySet, FS_CardinalityType
<1> QED
  BY <1>1, <1>2

\* The first n numbers.
LEMMA Counted ==
    ASSUME NEW n \in Nat
    PROVE  IsFiniteSet(1..n) /\ Cardinality(1..n) = n
BY FS_Interval

\* A set of the first n numbers that has all below its members is a first part of them.
LEMMA Segment ==
    ASSUME NEW n \in Nat, NEW A \in SUBSET (1..n),
           \A i \in A : \A j \in 1..n : j < i => j \in A
    PROVE  A = 1..Cardinality(A) /\ Cardinality(A) \in 0..n
<1>1. CASE A = 1..n
  BY <1>1, Counted
<1>2. CASE A # 1..n
  <2> DEFINE T == (1..n) \ A
  <2>1. T \in SUBSET Nat
    OBVIOUS
  <2>0. T # {}
    <3>1. \E x : (x \in A /\ x \notin 1..n) \/ (x \in 1..n /\ x \notin A)
      BY <1>2
    <3> QED BY <3>1
  <2>2. PICK x \in T : \A y \in T : x <= y
    BY <2>0, <2>1, Least
  <2>3. x \in 1..n /\ x \notin A
    BY <2>2
  <2>4. A = 1..x - 1
    <3>1. ASSUME NEW i \in A PROVE i \in 1..x - 1
      <4>1. i \in 1..n /\ i # x /\ ~(x < i)
        BY <2>3
      <4> QED BY <2>3, <4>1
    <3>2. ASSUME NEW i \in 1..x - 1 PROVE i \in A
      <4>1. i \in 1..n /\ ~(x <= i)
        BY <2>3
      <4> QED BY <2>2, <4>1
    <3> QED BY <3>1, <3>2
  <2>5. Cardinality(1..x - 1) = x - 1
    BY <2>3, Counted
  <2> QED BY <2>3, <2>4, <2>5
<1> QED
  BY <1>1, <1>2

Sorted(s) ==
    /\ s \in Seq(Int)
    /\ \A i, j \in DOMAIN s : i < j => Abs(s[i]) <= Abs(s[j])

Smaller(s, k) == {i \in DOMAIN s : Abs(s[i]) < Abs(s[k])}

\* In a sorted sequence the deltas of one size stand together, behind the
\* smaller ones.
LEMMA TiesAreInterval ==
    ASSUME NEW s, Sorted(s), NEW k \in DOMAIN s
    PROVE  LET l == Cardinality(Smaller(s, k))
               t == Cardinality(Ties(s, k))
           IN  /\ l \in Nat /\ t \in Nat /\ l < k /\ k <= l + t /\ l + t <= Len(s)
               /\ Smaller(s, k) = 1..l /\ Ties(s, k) = (l + 1)..(l + t)
               /\ Min(Ties(s, k)) = l + 1 /\ Max(Ties(s, k)) = l + t
<1> DEFINE n == Len(s)
           A == Smaller(s, k)
           B == Ties(s, k)
           l == Cardinality(A)
           t == Cardinality(B)
<1>1. n \in Nat /\ DOMAIN s = 1..n /\ \A i \in 1..n : Abs(s[i]) \in Int
  BY DEF Sorted, Abs
<1>2. \A i, j \in 1..n : j < i => Abs(s[j]) <= Abs(s[i])
  BY <1>1 DEF Sorted
<1> HIDE DEF n
<1>3. /\ A \subseteq 1..n /\ B \subseteq 1..n /\ A \cap B = {} /\ k \in B /\ k \in 1..n
      /\ \A i \in 1..n : i \in A \cup B <=> Abs(s[i]) <= Abs(s[k])
      /\ \A i \in 1..n : i \in A <=> Abs(s[i]) < Abs(s[k])
  BY <1>1 DEF Smaller, Ties
<1> HIDE DEF A, B
<1>4. A = 1..l /\ l \in 0..n
  <2>1. \A i \in A : \A j \in 1..n : j < i => j \in A
    BY <1>1, <1>2, <1>3
  <2> QED BY <1>1, <1>3, <2>1, Segment
<1>5. A \cup B = 1..Cardinality(A \cup B) /\ Cardinality(A \cup B) \in 0..n
  <2>1. \A i \in A \cup B : \A j \in 1..n : j < i => j \in A \cup B
    BY <1>1, <1>2, <1>3
  <2> HIDE DEF l
  <2> QED BY <1>1, <1>3, <2>1, Segment
<1>6. IsFiniteSet(A) /\ IsFiniteSet(B)
  BY <1>1, <1>3, Counted, FS_Subset
<1>7. Cardinality(A \cup B) = l + t /\ t \in Nat
  BY <1>3, <1>6, Apart, FS_CardinalityType
<1> HIDE DEF l, t
<1>8. B = (l + 1)..(l + t)
  <2>1. A \cup B = 1..(l + t) /\ A = 1..l /\ l \in Nat /\ t \in Nat
    <3>1. l \in Nat /\ t \in Nat
      BY <1>1, <1>4, <1>7
    <3>2. A \cup B = 1..(l + t)
      BY <1>5, <1>7
    <3> QED BY <1>4, <3>1, <3>2
  <2>2. \A i : i \in B <=> i \in 1..(l + t) /\ i \notin 1..l
    BY <1>3, <2>1
  <2>3. \A i : i \in (l + 1)..(l + t) <=> i \in 1..(l + t) /\ i \notin 1..l
    BY <2>1
  <2> QED BY <2>2, <2>3
<1>9. l < k /\ k <= l + t
  BY <1>3, <1>4, <1>7, <1>8
<1>10. Min(B) = l + 1 /\ Max(B) = l + t
  <2>1. l + 1 \in B /\ l + t \in B /\ \A i \in B : i \in Int /\ l + 1 <= i /\ i <= l + t
    <3>1. l \in Nat /\ t \in Nat /\ l + 1 <= l + t
      BY <1>3, <1>4, <1>7, <1>9
    <3> QED BY <1>8, <3>1
  <2> HIDE DEF B
  <2> QED BY <2>1, <1>4, <1>7 DEF Min, Max
<1> QED
  BY <1>4, <1>5, <1>7, <1>8, <1>9, <1>10 DEF A, B, l, t, n
-----------------------------------------------------------------------------
\* The sums of the first k numbers of a sequence.
PartialSums(s, g) ==
    /\ g \in [0..Len(s) -> Int]
    /\ g[0] = 0
    /\ \A k \in 1..Len(s) : g[k] = g[k - 1] + s[k]

\* They can be formed to any length.
LEMMA SumsExist ==
    ASSUME NEW s \in Seq(Int)
    PROVE  \E g : PartialSums(s, g)
<1> DEFINE N == Len(s)
           Adds(g, n) == g[0] = 0 /\ \A k \in 1..n : g[k] = g[k - 1] + s[k]
           Sums(n) == \E g \in [0..n -> Int] : Adds(g, n)
           T == {n \in Nat : n <= N => Sums(n)}
<1>0. N \in Nat /\ \A k \in 1..N : s[k] \in Int
  OBVIOUS
<1>1. 0 \in T
  <2> DEFINE g == [k \in 0..0 |-> 0]
  <2>1. g \in [0..0 -> Int] /\ Adds(g, 0)
    OBVIOUS
  <2> QED BY <2>1
<1>2. ASSUME NEW n \in T PROVE n + 1 \in T
  <2> SUFFICES ASSUME n + 1 <= N PROVE Sums(n + 1)
    <3>1. n + 1 \in Nat
      BY <1>2
    <3> HIDE DEF Sums, N
    <3> QED BY <3>1
  <2>1. n \in Nat /\ n <= N /\ n + 1 \in 1..N
    BY <1>0, <1>2
  <2>2. PICK f \in [0..n -> Int] : Adds(f, n)
    BY <1>2, <2>1
  <2> DEFINE last == f[n] + s[n + 1]
             g == [k \in 0..n + 1 |-> IF k = n + 1 THEN last ELSE f[k]]
  <2>3. last \in Int
    BY <1>0, <2>1
  <2> HIDE DEF last, N
  <2>4. g \in [0..n + 1 -> Int]
    BY <2>1, <2>3
  <2>5. g[0] = 0
    BY <2>1, <2>2
  <2>6. ASSUME NEW k \in 1..n + 1 PROVE g[k] = g[k - 1] + s[k]
    <3>1. CASE k = n + 1
      BY <2>1, <3>1 DEF last
    <3>2. CASE k # n + 1
      <4>1. k \in 1..n /\ k \in 0..n + 1 /\ k - 1 \in 0..n + 1 /\ k - 1 # n + 1
        BY <2>1, <3>2
      <4> QED BY <2>2, <3>2, <4>1
    <3> QED BY <3>1, <3>2
  <2> QED
    BY <2>4, <2>5, <2>6
<1> HIDE DEF Sums
<1>3. T = Nat
  BY <1>1, <1>2, Induction
<1>4. Sums(N)
  BY <1>0, <1>3
<1> QED
  BY <1>4 DEF Sums, PartialSums

\* The total is the last of them.
LEMMA TotalIsLast ==
    ASSUME NEW s \in Seq(Int)
    PROVE  \E g : PartialSums(s, g) /\ Total(s) = g[Len(s)]
<1> DEFINE N == Len(s)
           Step(f) == [k \in 0..N |-> IF k = 0 THEN 0 ELSE f[k - 1] + s[k]]
           sum == CHOOSE f : f = Step(f)
<1>1. N \in Nat /\ 0 \in 0..N /\ \A k \in 1..N : s[k] \in Int
  OBVIOUS
<1>2. PICK w : PartialSums(s, w)
  BY SumsExist
<1>3. w = Step(w)
  <2>1. w = [k \in 0..N |-> w[k]]
    BY <1>2 DEF PartialSums
  <2>2. ASSUME NEW k \in 0..N PROVE w[k] = IF k = 0 THEN 0 ELSE w[k - 1] + s[k]
    <3>1. CASE k = 0
      BY <1>2, <3>1 DEF PartialSums
    <3>2. CASE k # 0
      <4>1. k \in 1..N
        BY <1>1, <3>2
      <4> QED BY <1>2, <3>2, <4>1 DEF PartialSums
    <3> QED BY <3>1, <3>2
  <2> HIDE DEF N
  <2> QED BY <2>1, <2>2
<1>4. sum = Step(sum)
  <2> HIDE DEF Step
  <2> QED BY <1>3
<1>5. Total(s) = sum[N]
  BY DEF Total
<1> HIDE DEF sum, N
<1>6. DOMAIN sum = 0..N /\ sum = [k \in 0..N |-> sum[k]] /\ sum[0] = 0
  BY <1>1, <1>4
<1>7. ASSUME NEW k \in 1..N PROVE sum[k] = sum[k - 1] + s[k]
  <2>1. k \in 0..N /\ k # 0
    BY <1>1
  <2>2. Step(sum)[k] = sum[k - 1] + s[k]
    BY <2>1
  <2> QED BY <1>4, <2>2
<1> HIDE DEF Step
<1>8. ASSUME NEW k \in 0..N PROVE sum[k] \in Int
  <2> DEFINE T == {n \in Nat : n <= N => sum[n] \in Int}
  <2>1. 0 \in T
    BY <1>6
  <2>2. ASSUME NEW n \in T PROVE n + 1 \in T
    <3> SUFFICES ASSUME n + 1 <= N PROVE sum[n + 1] \in Int
      BY <2>2
    <3>1. n + 1 \in 1..N /\ n <= N /\ (n + 1) - 1 = n
      BY <1>1
    <3>2. sum[n + 1] = sum[(n + 1) - 1] + s[n + 1]
      BY <1>7, <3>1
    <3> QED BY <1>1, <2>2, <3>1, <3>2
  <2>3. T = Nat
    BY <2>1, <2>2, Induction
  <2> QED BY <2>3, <1>1
<1>9. PartialSums(s, sum)
  <2>1. sum \in [0..N -> Int]
    BY <1>6, <1>8
  <2> QED BY <1>6, <1>7, <2>1 DEF PartialSums, N
<1> QED
  BY <1>5, <1>9 DEF N
-----------------------------------------------------------------------------
\* The part of a relation on positions that begins with one of the first k.
FirstRows(W, k) == {x \in W : x[1] <= k}

\* Counting a relation row by row.
LEMMA OneRowMore ==
    ASSUME NEW n \in Nat, NEW W \in SUBSET ((1..n) \X (1..n)), NEW k \in 1..n
    PROVE  /\ IsFiniteSet(FirstRows(W, k)) /\ IsFiniteSet(FirstRows(W, k - 1))
           /\ Cardinality(FirstRows(W, k)) = Cardinality(FirstRows(W, k - 1))
                                             + Cardinality({j \in 1..n : <<k, j>> \in W})
<1> DEFINE J == {j \in 1..n : <<k, j>> \in W}
           row == {x \in W : x[1] = k}
           f == [j \in J |-> <<k, j>>]
<1>1. IsFiniteSet(1..n) /\ IsFiniteSet((1..n) \X (1..n))
  BY Counted, FS_Product
<1>2. IsFiniteSet(W)
  BY <1>1, FS_Subset
<1>3. IsFiniteSet(row) /\ IsFiniteSet(FirstRows(W, k)) /\ IsFiniteSet(FirstRows(W, k - 1))
  <2>1. row \subseteq W /\ FirstRows(W, k) \subseteq W /\ FirstRows(W, k - 1) \subseteq W
    BY DEF FirstRows
  <2> HIDE DEF row
  <2> QED BY <1>2, <2>1, FS_Subset
<1>4. IsFiniteSet(J)
  <2>1. J \subseteq 1..n
    OBVIOUS
  <2> HIDE DEF J
  <2> QED BY <1>1, <2>1, FS_Subset
<1>5. Cardinality(row) = Cardinality(J)
  <2>1. f \in [J -> row] /\ \A x, y \in J : f[x] = f[y] => x = y
    OBVIOUS
  <2>2. ASSUME NEW x \in row PROVE \E j \in J : f[j] = x
    <3>1. x = <<x[1], x[2]>> /\ x[1] = k /\ x[2] \in 1..n /\ x \in W
      OBVIOUS
    <3>2. x[2] \in J
      BY <3>1
    <3>3. f[x[2]] = x
      BY <3>1, <3>2
    <3> QED BY <3>2, <3>3
  <2> HIDE DEF f, J, row
  <2> QED BY <1>4, <2>1, <2>2, SameSize
<1>6. FirstRows(W, k) = FirstRows(W, k - 1) \cup row /\ FirstRows(W, k - 1) \cap row = {}
  <2>1. \A x \in W : x[1] \in Int
    OBVIOUS
  <2>2. \A x \in W : x[1] <= k <=> (x[1] <= k - 1 \/ x[1] = k)
    BY <2>1
  <2>3. \A x \in W : ~(x[1] <= k - 1 /\ x[1] = k)
    BY <2>1
  <2> QED BY <2>2, <2>3 DEF FirstRows
<1> HIDE DEF row, J
<1>7. Cardinality(FirstRows(W, k)) = Cardinality(FirstRows(W, k - 1)) + Cardinality(row)
  BY <1>3, <1>6, Apart
<1> QED
  BY <1>3, <1>5, <1>7 DEF J

\* The pairs of a positive delta with a smaller one, and with one of its size.
Beats(s) ==
    {x \in (DOMAIN s) \X (DOMAIN s) : s[x[1]] > 0 /\ Abs(s[x[2]]) < Abs(s[x[1]])}
Equals(s) ==
    {x \in (DOMAIN s) \X (DOMAIN s) : s[x[1]] > 0 /\ Abs(s[x[2]]) = Abs(s[x[1]])}
Positive(s) == {k \in DOMAIN s : s[k] > 0}

\* W+ counts them.
LEMMA WPlusCounts ==
    ASSUME NEW s, Sorted(s)
    PROVE  TwiceWPlus(s) = 2 * Cardinality(Beats(s)) + Cardinality(Equals(s))
                           + Cardinality(Positive(s))
<1> DEFINE n == Len(s)
           w == [k \in 1..n |-> IF s[k] > 0 THEN TwiceRank(s, k) ELSE 0]
           P(k) == {j \in Positive(s) : j <= k}
           Count(k) == 2 * Cardinality(FirstRows(Beats(s), k))
                       + Cardinality(FirstRows(Equals(s), k)) + Cardinality(P(k))
<1>1. n \in Nat /\ DOMAIN s = 1..n /\ \A i \in 1..n : s[i] \in Int
  BY DEF Sorted
<1>2. ASSUME NEW k \in 1..n
      PROVE  TwiceRank(s, k) = 2 * Cardinality(Smaller(s, k)) + Cardinality(Ties(s, k)) + 1
             /\ Cardinality(Smaller(s, k)) \in Nat /\ Cardinality(Ties(s, k)) \in Nat
  <2>1. k \in DOMAIN s
    BY <1>1
  <2> QED BY <2>1, TiesAreInterval DEF TwiceRank
<1>3. TwiceWPlus(s) = Total(w)
  BY DEF TwiceWPlus
<1> HIDE DEF n
<1>4. w \in Seq(Int) /\ Len(w) = n
  <2>1. \A k \in 1..n : w[k] \in Int
    BY <1>2
  <2>2. w \in [1..n -> Int]
    BY <2>1
  <2> HIDE DEF w
  <2> QED BY <1>1, <2>2
<1>5. PICK g : PartialSums(w, g) /\ Total(w) = g[n]
  <2> HIDE DEF w
  <2> QED BY <1>4, TotalIsLast
<1>6. g[0] = 0 /\ \A k \in 1..n : g[k] = g[k - 1] + IF s[k] > 0 THEN TwiceRank(s, k) ELSE 0
  BY <1>4, <1>5 DEF PartialSums
<1> HIDE DEF w
<1>7. Beats(s) \subseteq (1..n) \X (1..n) /\ Equals(s) \subseteq (1..n) \X (1..n)
  BY <1>1 DEF Beats, Equals
<1>8. \A k \in Int : IsFiniteSet(P(k))
  <2>1. IsFiniteSet(1..n) /\ \A k \in Int : P(k) \subseteq 1..n
    BY <1>1, Counted DEF Positive
  <2> HIDE DEF P
  <2> QED BY <2>1, FS_Subset
<1>9. ASSUME NEW k \in 1..n
      PROVE  Cardinality(P(k)) = Cardinality(P(k - 1)) + IF s[k] > 0 THEN 1 ELSE 0
  <2>1. IsFiniteSet(P(k - 1)) /\ k - 1 \in Int
    BY <1>1, <1>8
  <2>2. k \notin P(k - 1)
    OBVIOUS
  <2>3. P(k) = IF s[k] > 0 THEN P(k - 1) \cup {k} ELSE P(k - 1)
    <3>1. \A j \in 1..n : j <= k <=> j <= k - 1 \/ j = k
      BY <1>1
    <3>2. Positive(s) \subseteq 1..n /\ (k \in Positive(s) <=> s[k] > 0)
      BY <1>1 DEF Positive
    <3> QED BY <3>1, <3>2
  <2> HIDE DEF P
  <2>4. Cardinality(P(k - 1)) \in Nat
    BY <2>1, FS_CardinalityType
  <2> QED BY <2>1, <2>2, <2>3, <2>4, FS_AddElement
<1>10. ASSUME NEW k \in 1..n, s[k] > 0
       PROVE  {j \in 1..n : <<k, j>> \in Beats(s)} = Smaller(s, k)
              /\ {j \in 1..n : <<k, j>> \in Equals(s)} = Ties(s, k)
  <2>1. DOMAIN s = 1..n
    BY <1>1
  <2>2. \A j \in 1..n : /\ <<k, j>> \in Beats(s) <=> j \in Smaller(s, k)
                        /\ <<k, j>> \in Equals(s) <=> j \in Ties(s, k)
    BY <1>10, <2>1 DEF Beats, Equals, Smaller, Ties
  <2>3. Smaller(s, k) \subseteq 1..n /\ Ties(s, k) \subseteq 1..n
    BY <2>1 DEF Smaller, Ties
  <2>4. {j \in 1..n : <<k, j>> \in Beats(s)} = Smaller(s, k)
    BY <2>2, <2>3
  <2>5. {j \in 1..n : <<k, j>> \in Equals(s)} = Ties(s, k)
    BY <2>2, <2>3
  <2> QED BY <2>4, <2>5
<1>11. ASSUME NEW k \in 1..n, ~(s[k] > 0)
       PROVE  /\ {j \in 1..n : <<k, j>> \in Beats(s)} = {}
              /\ {j \in 1..n : <<k, j>> \in Equals(s)} = {}
  BY <1>1, <1>11 DEF Beats, Equals
<1>12. Count(0) = 0
  <2>1. FirstRows(Beats(s), 0) = {} /\ FirstRows(Equals(s), 0) = {}
    <3>1. \A x \in (1..n) \X (1..n) : ~(x[1] <= 0)
      OBVIOUS
    <3> QED BY <1>7, <3>1 DEF FirstRows
  <2>2. P(0) = {}
    BY <1>1 DEF Positive
  <2> HIDE DEF P
  <2> QED BY <2>1, <2>2, FS_EmptySet
<1>13. ASSUME NEW k \in 1..n
       PROVE  Count(k) = Count(k - 1) + IF s[k] > 0 THEN TwiceRank(s, k) ELSE 0
  <2> DEFINE o == Cardinality(FirstRows(Beats(s), k - 1))
             l == Cardinality(FirstRows(Equals(s), k - 1))
             p == Cardinality(P(k - 1))
             a == {j \in 1..n : <<k, j>> \in Beats(s)}
             b == {j \in 1..n : <<k, j>> \in Equals(s)}
  <2>1. /\ Cardinality(FirstRows(Beats(s), k)) = o + Cardinality(a)
        /\ Cardinality(FirstRows(Equals(s), k)) = l + Cardinality(b)
        /\ IsFiniteSet(FirstRows(Beats(s), k - 1)) /\ IsFiniteSet(FirstRows(Equals(s), k - 1))
    BY <1>1, <1>7, OneRowMore
  <2>2. o \in Nat /\ l \in Nat /\ p \in Nat
    <3>1. k - 1 \in Int
      BY <1>1
    <3> HIDE DEF P
    <3> QED BY <1>8, <2>1, <3>1, FS_CardinalityType
  <2>3. Cardinality(P(k)) = p + IF s[k] > 0 THEN 1 ELSE 0
    BY <1>9
  <2> HIDE DEF P, o, l, p, a, b
  <2>4. CASE s[k] > 0
    <3>1. a = Smaller(s, k) /\ b = Ties(s, k)
      BY <1>10, <2>4 DEF a, b
    <3> QED BY <1>2, <2>1, <2>2, <2>3, <2>4, <3>1 DEF o, l, p
  <2>5. CASE ~(s[k] > 0)
    <3>1. a = {} /\ b = {}
      BY <1>11, <2>5 DEF a, b
    <3>2. Cardinality(a) = 0 /\ Cardinality(b) = 0
      BY <3>1, FS_EmptySet
    <3> QED BY <2>1, <2>2, <2>3, <2>5, <3>2 DEF o, l, p
  <2> QED BY <2>4, <2>5
<1> HIDE DEF Count
<1>14. g[n] = Count(n)
  <2> DEFINE T == {k \in Nat : k <= n => g[k] = Count(k)}
  <2>1. 0 \in T
    BY <1>6, <1>12
  <2>2. ASSUME NEW k \in T PROVE k + 1 \in T
    <3> SUFFICES ASSUME k + 1 <= n PROVE g[k + 1] = Count(k + 1)
      BY <2>2
    <3>1. k + 1 \in 1..n /\ k <= n /\ (k + 1) - 1 = k /\ g[k] = Count(k)
      BY <1>1, <2>2
    <3>2. g[k + 1] = g[(k + 1) - 1] + IF s[k + 1] > 0 THEN TwiceRank(s, k + 1) ELSE 0
      BY <1>6, <3>1
    <3>3. Count(k + 1) = Count((k + 1) - 1) + IF s[k + 1] > 0 THEN TwiceRank(s, k + 1) ELSE 0
      BY <1>13, <3>1
    <3> QED BY <3>1, <3>2, <3>3
  <2>3. T = Nat
    BY <2>1, <2>2, Induction
  <2> QED BY <1>1, <2>3
<1>15. FirstRows(Beats(s), n) = Beats(s) /\ FirstRows(Equals(s), n) = Equals(s) /\ P(n) = Positive(s)
  <2>1. \A x \in (1..n) \X (1..n) : x[1] <= n
    BY <1>1
  <2>2. P(n) = Positive(s)
    BY <1>1 DEF Positive
  <2> QED BY <1>7, <2>1, <2>2 DEF FirstRows
<1> QED
  BY <1>3, <1>5, <1>14, <1>15 DEF Count

\* A relation turned round.
Turned(s, W) == {x \in (DOMAIN s) \X (DOMAIN s) : <<x[2], x[1]>> \in W}

\* It has as many elements.
LEMMA TurnedSize ==
    ASSUME NEW s, NEW W \in SUBSET ((DOMAIN s) \X (DOMAIN s)), IsFiniteSet(W)
    PROVE  IsFiniteSet(Turned(s, W)) /\ Cardinality(Turned(s, W)) = Cardinality(W)
<1> DEFINE D == DOMAIN s
           f == [x \in W |-> <<x[2], x[1]>>]
<1> HIDE DEF D
<1>1. \A x \in W : x \in D \X D
  BY DEF D
<1>2. ASSUME NEW x \in W PROVE f[x] \in Turned(s, W)
  <2>1. x[1] \in D /\ x[2] \in D /\ x = <<x[1], x[2]>>
    BY <1>1
  <2> QED BY <2>1 DEF Turned, D
<1>3. ASSUME NEW x \in W, NEW y \in W, f[x] = f[y] PROVE x = y
  <2>1. x = <<x[1], x[2]>> /\ y = <<y[1], y[2]>>
    BY <1>1
  <2>2. x[1] = y[1] /\ x[2] = y[2]
    BY <1>3
  <2> QED BY <2>1, <2>2
<1>4. ASSUME NEW z \in Turned(s, W) PROVE \E x \in W : f[x] = z
  <2>1. z \in D \X D /\ <<z[2], z[1]>> \in W
    BY DEF Turned, D
  <2>2. f[<<z[2], z[1]>>] = z
    BY <2>1
  <2> QED BY <2>1, <2>2
<1>5. f \in [W -> Turned(s, W)]
  BY <1>2
<1> HIDE DEF f
<1> QED
  BY <1>3, <1>4, <1>5, SameSize

\* When the sum of two deltas that are not zero is positive, and when it is zero.
LEMMA SumOfTwo ==
    ASSUME NEW a \in Int, NEW b \in Int, a # 0, b # 0
    PROVE  /\ a + b > 0 <=> \/ a > 0 /\ Abs(b) < Abs(a)
                            \/ b > 0 /\ Abs(a) < Abs(b)
                            \/ a > 0 /\ b > 0 /\ Abs(a) = Abs(b)
           /\ a + b = 0 <=> \/ a > 0 /\ Abs(b) = Abs(a) /\ ~(b > 0)
                            \/ b > 0 /\ Abs(a) = Abs(b) /\ ~(a > 0)
BY DEF Abs

\* W+ is what counting the Walsh averages gives: a pair that is over zero has a
\* positive delta that is the larger one, or two positive ones of one size.
LEMMA WalshAverages ==
    ASSUME NEW s, Sorted(s), \A k \in DOMAIN s : s[k] # 0
    PROVE  FourWPlus(s) = 2 * TwiceWPlus(s) /\ TwiceWPlus(s) \in Nat
<1> DEFINE D == DOMAIN s
           B == Beats(s)
           E == Equals(s)
           BT == Turned(s, B)
           ET == Turned(s, E)
           Both == E \cap ET
           OverZero == {w \in D \X D : s[w[1]] + s[w[2]] > 0}
           AtZero == {w \in D \X D : s[w[1]] + s[w[2]] = 0}
           P == Positive(s)
<1>1. D = 1..Len(s) /\ Len(s) \in Nat /\ \A k \in D : s[k] \in Int /\ s[k] # 0 /\ Abs(s[k]) \in Int
  BY DEF Sorted, Abs
<1>2. IsFiniteSet(D) /\ IsFiniteSet(D \X D)
  BY <1>1, Counted, FS_Product
<1>3. B \subseteq D \X D /\ E \subseteq D \X D /\ P \subseteq D
  BY DEF Beats, Equals, Positive
<1>4. IsFiniteSet(B) /\ IsFiniteSet(E) /\ IsFiniteSet(P)
  <2> HIDE DEF B, E, P, D
  <2> QED BY <1>2, <1>3, FS_Subset
<1>5. /\ IsFiniteSet(BT) /\ Cardinality(BT) = Cardinality(B)
      /\ IsFiniteSet(ET) /\ Cardinality(ET) = Cardinality(E)
  <2> HIDE DEF B, E
  <2> QED BY <1>3, <1>4, TurnedSize
<1>6. ASSUME NEW i \in D, NEW j \in D
      PROVE  /\ <<i, j>> \in B <=> s[i] > 0 /\ Abs(s[j]) < Abs(s[i])
             /\ <<i, j>> \in E <=> s[i] > 0 /\ Abs(s[j]) = Abs(s[i])
             /\ <<i, j>> \in BT <=> s[j] > 0 /\ Abs(s[i]) < Abs(s[j])
             /\ <<i, j>> \in ET <=> s[j] > 0 /\ Abs(s[i]) = Abs(s[j])
             /\ <<i, j>> \in OverZero <=> s[i] + s[j] > 0
             /\ <<i, j>> \in AtZero <=> s[i] + s[j] = 0
  BY DEF Beats, Equals, Turned
<1>7. BT \subseteq D \X D /\ ET \subseteq D \X D /\ OverZero \subseteq D \X D /\ AtZero \subseteq D \X D
  BY DEF Turned
<1> HIDE DEF B, E, BT, ET, OverZero, AtZero, D
<1>8. ASSUME NEW x \in D \X D
      PROVE  /\ x \in OverZero <=> x \in B \/ x \in BT \/ x \in Both
             /\ x \in AtZero <=> (x \in E /\ x \notin Both) \/ (x \in ET /\ x \notin Both)
             /\ ~(x \in B /\ x \in BT) /\ ~(x \in Both /\ (x \in B \/ x \in BT))
  <2>1. PICK i \in D, j \in D : x = <<i, j>>
    OBVIOUS
  <2>2. s[i] \in Int /\ s[i] # 0 /\ s[j] \in Int /\ s[j] # 0
        /\ Abs(s[i]) \in Int /\ Abs(s[j]) \in Int
    BY <1>1
  <2>3. /\ s[i] + s[j] > 0 <=> \/ s[i] > 0 /\ Abs(s[j]) < Abs(s[i])
                               \/ s[j] > 0 /\ Abs(s[i]) < Abs(s[j])
                               \/ s[i] > 0 /\ s[j] > 0 /\ Abs(s[i]) = Abs(s[j])
        /\ s[i] + s[j] = 0 <=> \/ s[i] > 0 /\ Abs(s[j]) = Abs(s[i]) /\ ~(s[j] > 0)
                               \/ s[j] > 0 /\ Abs(s[i]) = Abs(s[j]) /\ ~(s[i] > 0)
    BY <2>2, SumOfTwo
  <2> QED BY <1>6, <2>1, <2>2, <2>3
<1>9. /\ OverZero = (B \cup BT) \cup Both /\ B \cap BT = {} /\ (B \cup BT) \cap Both = {}
      /\ AtZero = (E \ Both) \cup (ET \ Both) /\ (E \ Both) \cap (ET \ Both) = {}
      /\ E = Both \cup (E \ Both) /\ Both \cap (E \ Both) = {}
      /\ ET = Both \cup (ET \ Both) /\ Both \cap (ET \ Both) = {}
  BY <1>3, <1>7, <1>8
<1>10. IsFiniteSet(Both) /\ IsFiniteSet(E \ Both) /\ IsFiniteSet(ET \ Both)
  BY <1>4, <1>5, FS_Subset
<1>11. /\ Cardinality(OverZero) = Cardinality(B) + Cardinality(B) + Cardinality(Both)
       /\ Cardinality(AtZero) = Cardinality(E \ Both) + Cardinality(ET \ Both)
       /\ Cardinality(E) = Cardinality(Both) + Cardinality(E \ Both)
       /\ Cardinality(E) = Cardinality(Both) + Cardinality(ET \ Both)
  <2> HIDE DEF Both
  <2>1. IsFiniteSet(B \cup BT) /\ Cardinality(B \cup BT) = Cardinality(B) + Cardinality(B)
    BY <1>4, <1>5, <1>9, Apart
  <2>2. Cardinality(OverZero) = Cardinality(B \cup BT) + Cardinality(Both)
    BY <1>9, <1>10, <2>1, Apart
  <2>3. Cardinality(AtZero) = Cardinality(E \ Both) + Cardinality(ET \ Both)
    BY <1>9, <1>10, Apart
  <2>4. Cardinality(E) = Cardinality(Both) + Cardinality(E \ Both)
    BY <1>9, <1>10, Apart
  <2>5. Cardinality(ET) = Cardinality(Both) + Cardinality(ET \ Both)
    BY <1>9, <1>10, Apart
  <2> QED BY <1>5, <2>1, <2>2, <2>3, <2>4, <2>5
<1>12. /\ Cardinality(B) \in Nat /\ Cardinality(E) \in Nat /\ Cardinality(Both) \in Nat
       /\ Cardinality(E \ Both) \in Nat /\ Cardinality(ET \ Both) \in Nat
       /\ Cardinality(P) \in Nat
  <2> HIDE DEF Both, P
  <2> QED BY <1>4, <1>10, FS_CardinalityType
<1>13. FourWPlus(s) = 2 * Cardinality(OverZero) + Cardinality(AtZero) + 2 * Cardinality(P)
  <2>1. Differing(s) = D
    BY <1>1 DEF Differing, D
  <2>2. {p \in D : s[p] > 0} = P
    BY DEF Positive, D
  <2> QED BY <2>1, <2>2 DEF FourWPlus, OverZero, AtZero
<1>14. TwiceWPlus(s) = 2 * Cardinality(B) + Cardinality(E) + Cardinality(P)
  BY WPlusCounts DEF B, E
<1> HIDE DEF Both, P
<1> QED
  BY <1>11, <1>12, <1>13, <1>14
-----------------------------------------------------------------------------
Cubic(a) == 2 * a * (a + 1) * (2 * a + 1)

\* What t equal deltas behind l smaller ones add to the sum of the squares.
LEMMA CubicStep ==
    ASSUME NEW l \in Nat, NEW t \in Nat
    PROVE  Cubic(l + t) = Cubic(l) + 3 * t * ((2 * l + t + 1) * (2 * l + t + 1))
                          + (t * t * t - t)
BY DEF Cubic

\* Another delta of the same size, and the first one of the next size.
LEMMA OneMoreTie ==
    ASSUME NEW k \in Int, NEW l \in Int, NEW q \in Int, NEW c \in Int, NEW z \in Int,
           NEW g \in Int, NEW h \in Int, 3 * g + h = c + 3 * (k - l) * q + z
    PROVE  3 * (g + q) + h = c + 3 * ((k + 1) - l) * q + z
<1>1. 3 * ((k + 1) - l) * q = 3 * (k - l) * q + 3 * q
  OBVIOUS
<1>2. 3 * (g + q) = 3 * g + 3 * q /\ 3 * (k - l) * q \in Int
  OBVIOUS
<1> QED
  BY <1>1, <1>2

\* The code's variance, corrected for ties, is the sum of the squared ranks.
LEMMA VarianceOfRanks ==
    ASSUME NEW s, Sorted(s), NEW g,
           PartialSums([k \in 1..Len(s) |-> TwiceRank(s, k) * TwiceRank(s, k)], g)
    PROVE  3 * g[Len(s)] = Variance48(s) /\ g[Len(s)] \in Int
<1> DEFINE n == Len(s)
           L(k) == Cardinality(Smaller(s, k))
           T(k) == Cardinality(Ties(s, k))
           Term(t) == t * t * t - t
           Square(k) == (2 * L(k) + T(k) + 1) * (2 * L(k) + T(k) + 1)
           r == [k \in 1..n |-> TwiceRank(s, k) * TwiceRank(s, k)]
           u == [k \in 1..n |-> IF k = Min(Ties(s, k))
                                THEN LET t == Max(Ties(s, k)) - k + 1 IN t * t * t - t
                                ELSE 0]
<1>1. n \in Nat /\ DOMAIN s = 1..n /\ \A k \in 1..n : Abs(s[k]) \in Int
  BY DEF Sorted, Abs
<1>2. TieTerm(s) = Total(u)
  BY DEF TieTerm
<1>3. Variance48(s) = Cubic(n) - TieTerm(s)
  BY DEF Variance48, Cubic
<1>4. PartialSums(r, g)
  OBVIOUS
<1> HIDE DEF n
<1>5. ASSUME NEW k \in 1..n
      PROVE  /\ L(k) \in Nat /\ T(k) \in Nat /\ L(k) < k /\ k <= L(k) + T(k) /\ L(k) + T(k) <= n
             /\ Smaller(s, k) = 1..L(k) /\ Ties(s, k) = (L(k) + 1)..(L(k) + T(k))
             /\ Min(Ties(s, k)) = L(k) + 1 /\ Max(Ties(s, k)) = L(k) + T(k)
  <2>1. k \in DOMAIN s
    BY <1>1
  <2> QED BY <2>1, TiesAreInterval DEF n
<1>6. ASSUME NEW k \in 1..n
      PROVE  /\ r[k] = Square(k) /\ Square(k) \in Int
             /\ u[k] = IF k = L(k) + 1 THEN Term(T(k)) ELSE 0
             /\ Term(T(k)) \in Int
  <2>1. TwiceRank(s, k) = 2 * L(k) + T(k) + 1
    BY <1>5 DEF TwiceRank
  <2>2. k = L(k) + 1 => Max(Ties(s, k)) - k + 1 = T(k)
    BY <1>5
  <2>3. k = Min(Ties(s, k)) <=> k = L(k) + 1
    BY <1>5
  <2>4. L(k) \in Nat /\ T(k) \in Nat
    BY <1>5
  <2> HIDE DEF L, T
  <2>5. Square(k) \in Int /\ Term(T(k)) \in Int
    BY <2>4
  <2> QED BY <2>1, <2>2, <2>3, <2>5
<1>7. u \in Seq(Int) /\ Len(u) = n /\ Len(r) = n
  <2>1. \A k \in 1..n : u[k] \in Int
    BY <1>6
  <2>2. u \in [1..n -> Int] /\ \A k \in 1..n : r[k] \in Int
    BY <1>6, <2>1
  <2>3. r \in [1..n -> Int]
    BY <2>2
  <2> HIDE DEF u, r
  <2> QED BY <1>1, <2>2, <2>3
<1>8. PICK h : PartialSums(u, h) /\ Total(u) = h[n]
  <2> HIDE DEF u
  <2> QED BY <1>7, TotalIsLast
<1> HIDE DEF u, r
<1>9. /\ g[0] = 0 /\ h[0] = 0
      /\ \A k \in 0..n : g[k] \in Int /\ h[k] \in Int
      /\ \A k \in 1..n : /\ g[k] = g[k - 1] + Square(k)
                         /\ h[k] = h[k - 1] + IF k = L(k) + 1 THEN Term(T(k)) ELSE 0
  <2>1. /\ g \in [0..n -> Int] /\ g[0] = 0
        /\ \A k \in 1..n : g[k] = g[k - 1] + r[k]
    BY <1>4, <1>7 DEF PartialSums
  <2>2. /\ h \in [0..n -> Int] /\ h[0] = 0
        /\ \A k \in 1..n : h[k] = h[k - 1] + u[k]
    BY <1>7, <1>8 DEF PartialSums
  <2> HIDE DEF L, T, Square, Term
  <2> QED BY <1>6, <2>1, <2>2
<1> DEFINE Known(k) == 3 * g[k] + h[k]
                       = Cubic(L(k)) + 3 * (k - L(k)) * Square(k) + Term(T(k))
\* Behind the last of equal deltas the sum is complete.
<1>10. ASSUME NEW k \in 1..n, k = L(k) + T(k), Known(k)
       PROVE  3 * g[k] + h[k] = Cubic(k)
  <2>1. L(k) \in Nat /\ T(k) \in Nat /\ k - L(k) = T(k)
    BY <1>5, <1>10
  <2>2. Cubic(L(k) + T(k)) = Cubic(L(k)) + 3 * T(k) * Square(k) + Term(T(k))
    <3> HIDE DEF L, T
    <3> QED BY <2>1, CubicStep
  <2> HIDE DEF L, T, Square, Term
  <2> QED BY <1>10, <2>1, <2>2
<1>11. ASSUME 1 \in 1..n PROVE Known(1)
  <2>1. L(1) = 0 /\ Square(1) \in Int /\ Term(T(1)) \in Int
    BY <1>5, <1>6, <1>11
  <2>2. g[1] = g[0] + Square(1) /\ h[1] = h[0] + Term(T(1))
    <3>1. 1 - 1 = 0 /\ 1 = L(1) + 1
      BY <2>1
    <3> HIDE DEF L, T, Square, Term
    <3> QED BY <1>9, <1>11, <3>1
  <2>3. Cubic(0) = 0
    BY DEF Cubic
  <2> HIDE DEF L, T, Square, Term
  <2> QED BY <1>9, <2>1, <2>2, <2>3
<1>12. ASSUME NEW k \in 1..n, k + 1 \in 1..n, Known(k) PROVE Known(k + 1)
  <2>0. k \in Int /\ k \in DOMAIN s /\ k + 1 \in DOMAIN s /\ k < k + 1
    BY <1>1, <1>12
  <2>1. Abs(s[k]) <= Abs(s[k + 1])
    BY <2>0 DEF Sorted
  <2>2. g[k + 1] = g[k] + Square(k + 1)
        /\ h[k + 1] = h[k] + IF k + 1 = L(k + 1) + 1 THEN Term(T(k + 1)) ELSE 0
    <3>1. (k + 1) - 1 = k
      OBVIOUS
    <3> HIDE DEF L, T, Square, Term
    <3> QED BY <1>9, <1>12, <3>1
  <2>3. /\ g[k] \in Int /\ h[k] \in Int /\ Square(k + 1) \in Int /\ Term(T(k + 1)) \in Int
        /\ Square(k) \in Int /\ Term(T(k)) \in Int /\ L(k) \in Nat /\ L(k + 1) \in Nat
    BY <1>5, <1>6, <1>9, <1>12
  <2>4. CASE Abs(s[k]) = Abs(s[k + 1])
    <3>1. Smaller(s, k + 1) = Smaller(s, k) /\ Ties(s, k + 1) = Ties(s, k)
      BY <2>4 DEF Smaller, Ties
    <3>2. L(k + 1) = L(k) /\ T(k + 1) = T(k)
      BY <3>1
    <3>3. L(k) < k
      BY <1>5
    <3>4. Square(k + 1) = Square(k)
      BY <3>2
    <3>5. h[k + 1] = h[k]
      <4>1. k + 1 # L(k + 1) + 1
        BY <2>3, <3>2, <3>3
      <4> QED BY <2>2, <2>3, <4>1
    <3> HIDE DEF L, T, Square, Term
    <3>6. Cubic(L(k)) \in Int
      BY <2>3 DEF Cubic
    <3>7. 3 * (g[k] + Square(k)) + h[k]
              = Cubic(L(k)) + 3 * ((k + 1) - L(k)) * Square(k) + Term(T(k))
      <4> DEFINE x == g[k]  y == h[k]  l == L(k)  q == Square(k)
                 c == Cubic(L(k))  z == Term(T(k))
      <4>1. /\ x \in Int /\ y \in Int /\ l \in Int /\ q \in Int /\ c \in Int /\ z \in Int
            /\ k \in Int /\ 3 * x + y = c + 3 * (k - l) * q + z
        BY <1>12, <2>0, <2>3, <3>6
      <4> HIDE DEF x, y, l, q, c, z
      <4>2. 3 * (x + q) + y = c + 3 * ((k + 1) - l) * q + z
        BY <4>1, OneMoreTie
      <4> QED BY <4>2 DEF x, y, l, q, c, z
    <3> QED BY <2>2, <3>2, <3>4, <3>5, <3>7
  <2>5. CASE Abs(s[k]) # Abs(s[k + 1])
    <3>1. k \in Smaller(s, k + 1) /\ k + 1 \notin Ties(s, k)
      BY <1>1, <1>12, <2>1, <2>5 DEF Smaller, Ties
    <3>2. L(k + 1) = k
      <4>1. k <= L(k + 1) /\ L(k + 1) < k + 1
        BY <1>5, <1>12, <3>1
      <4> QED BY <2>3, <4>1
    <3>3. k = L(k) + T(k)
      <4>1. T(k) \in Nat /\ L(k) < k /\ k <= L(k) + T(k)
            /\ k + 1 \notin (L(k) + 1)..(L(k) + T(k))
        BY <1>5, <3>1
      <4>2. L(k) \in Nat
        BY <2>3
      <4>3. \A l, t \in Nat : l < k /\ k + 1 \notin (l + 1)..(l + t) => k >= l + t
        BY <2>0
      <4> HIDE DEF L, T
      <4>4. k >= L(k) + T(k)
        BY <4>1, <4>2, <4>3
      <4> QED BY <2>0, <4>1, <4>2, <4>4
    <3>4. 3 * g[k] + h[k] = Cubic(k)
      BY <1>10, <1>12, <3>3
    <3>5. h[k + 1] = h[k] + Term(T(k + 1))
      BY <2>2, <3>2
    <3> HIDE DEF L, T, Square, Term
    <3>6. Cubic(k) \in Int
      BY <2>0 DEF Cubic
    <3>7. 3 * (g[k] + Square(k + 1)) + (h[k] + Term(T(k + 1)))
              = Cubic(k) + 3 * ((k + 1) - k) * Square(k + 1) + Term(T(k + 1))
      <4> DEFINE x == g[k]  y == h[k]  q == Square(k + 1)
                 c == Cubic(k)  z == Term(T(k + 1))
      <4>1. /\ x \in Int /\ y \in Int /\ q \in Int /\ c \in Int /\ z \in Int
            /\ k \in Int /\ 3 * x + y = c
        BY <2>0, <2>3, <3>4, <3>6
      <4> HIDE DEF x, y, q, c, z
      <4>2. 3 * x + (y + z) = c + 3 * (k - k) * q + z /\ y + z \in Int
        BY <4>1
      <4>3. 3 * (x + q) + (y + z) = c + 3 * ((k + 1) - k) * q + z
        BY <4>1, <4>2, OneMoreTie
      <4> QED BY <4>3 DEF x, y, q, c, z
    <3> QED BY <2>2, <3>2, <3>5, <3>7
  <2> QED BY <2>4, <2>5
<1> HIDE DEF Known
<1>13. ASSUME n > 0 PROVE Known(n)
  <2> DEFINE A == {k \in Nat : k + 1 <= n => Known(k + 1)}
  <2>1. 0 \in A
    <3>1. 0 + 1 = 1 /\ 1 \in 1..n
      BY <1>1, <1>13
    <3> QED BY <1>11, <3>1
  <2>2. ASSUME NEW k \in A PROVE k + 1 \in A
    <3> SUFFICES ASSUME (k + 1) + 1 <= n PROVE Known((k + 1) + 1)
      BY <2>2
    <3>1. k + 1 \in 1..n /\ (k + 1) + 1 \in 1..n /\ k + 1 <= n
      BY <1>1, <2>2
    <3> QED BY <1>12, <2>2, <3>1
  <2>3. A = Nat
    BY <2>1, <2>2, Induction
  <2>4. n - 1 \in Nat /\ (n - 1) + 1 = n /\ n <= n
    BY <1>1, <1>13
  <2>5. n - 1 \in A
    BY <2>3, <2>4
  <2> QED BY <2>4, <2>5
<1>14. 3 * g[n] + h[n] = Cubic(n)
  <2>1. CASE n = 0
    BY <1>9, <2>1 DEF Cubic
  <2>2. CASE n > 0
    <3>1. n \in 1..n
      BY <1>1, <2>2
    <3>2. n = L(n) + T(n)
      <4>1. L(n) \in Nat /\ T(n) \in Nat /\ n <= L(n) + T(n) /\ L(n) + T(n) <= n
        BY <1>5, <3>1
      <4> HIDE DEF L, T
      <4> QED BY <1>1, <4>1
    <3> QED BY <1>10, <1>13, <2>2, <3>1, <3>2
  <2> QED BY <1>1, <2>1, <2>2
<1>15. g[n] \in Int /\ h[n] \in Int /\ Cubic(n) \in Int
  BY <1>1, <1>9 DEF Cubic
<1> QED
  BY <1>2, <1>3, <1>8, <1>14, <1>15 DEF n
-----------------------------------------------------------------------------
\* What the partial sums of a function on the first n numbers are.
LEMMA SumsOf ==
    ASSUME NEW n \in Nat, NEW a \in [1..n -> Int]
    PROVE  /\ a \in Seq(Int) /\ Len(a) = n
           /\ \A g : PartialSums(a, g) <=>
                  /\ g \in [0..n -> Int] /\ g[0] = 0
                  /\ \A k \in 1..n : g[k] = g[k - 1] + a[k]
<1>1. a \in Seq(Int) /\ Len(a) = n
  OBVIOUS
<1> QED
  BY <1>1 DEF PartialSums

\* The last number is put in the place of one that is taken out.
LEMMA OneTakenOut ==
    ASSUME NEW m \in Nat, NEW a \in [1..m + 1 -> Int], NEW j \in 1..m + 1, NEW h, NEW g,
           PartialSums(a, h),
           PartialSums([k \in 1..m |-> IF k = j THEN a[m + 1] ELSE a[k]], g)
    PROVE  h[m + 1] = g[m] + a[j] /\ g[m] \in Int
<1> DEFINE c == [k \in 1..m |-> IF k = j THEN a[m + 1] ELSE a[k]]
           Ahead(i) == g[i] = h[i] + IF j <= i THEN a[m + 1] - a[j] ELSE 0
           T == {i \in Nat : i <= m => Ahead(i)}
<1>1. /\ m + 1 \in Nat /\ m + 1 \in 1..m + 1 /\ j \in Nat /\ a[m + 1] \in Int /\ a[j] \in Int
      /\ \A k \in 1..m : k \in 1..m + 1 /\ a[k] \in Int
  OBVIOUS
<1>2. c \in [1..m -> Int]
  BY <1>1
<1>3. /\ h \in [0..m + 1 -> Int] /\ h[0] = 0
      /\ \A k \in 1..m + 1 : h[k] = h[k - 1] + a[k]
  BY <1>1, SumsOf
<1>4. g \in [0..m -> Int] /\ g[0] = 0 /\ \A k \in 1..m : g[k] = g[k - 1] + c[k]
  <2>1. PartialSums(c, g)
    OBVIOUS
  <2> HIDE DEF c
  <2> QED BY <1>2, <2>1, SumsOf
<1>5. 0 \in T
  BY <1>1, <1>3, <1>4
<1>6. ASSUME NEW i \in T PROVE i + 1 \in T
  <2> SUFFICES ASSUME i + 1 <= m PROVE Ahead(i + 1)
    <3>1. i + 1 \in Nat
      BY <1>6
    <3> HIDE DEF Ahead
    <3> QED BY <3>1
  <2>1. /\ i \in Nat /\ i <= m /\ i + 1 \in 1..m /\ i + 1 \in 1..m + 1 /\ (i + 1) - 1 = i
        /\ i \in 0..m /\ i \in 0..m + 1 /\ Ahead(i)
    BY <1>6
  <2>2. g[i + 1] = g[i] + c[i + 1] /\ h[i + 1] = h[i] + a[i + 1]
    <3> HIDE DEF c, Ahead
    <3>1. g[i + 1] = g[(i + 1) - 1] + c[i + 1] /\ h[i + 1] = h[(i + 1) - 1] + a[i + 1]
      BY <1>3, <1>4, <2>1
    <3> QED BY <2>1, <3>1
  <2>3. c[i + 1] = IF i + 1 = j THEN a[m + 1] ELSE a[i + 1]
    BY <2>1
  <2>4. g[i] \in Int /\ h[i] \in Int /\ a[i + 1] \in Int
    BY <1>1, <1>3, <1>4, <2>1
  <2> HIDE DEF c
  <2>5. CASE i + 1 = j
    <3>1. ~(j <= i) /\ j <= i + 1
      BY <2>1, <2>5
    <3>2. g[i] = h[i] /\ a[i + 1] = a[j]
      BY <2>1, <2>4, <2>5, <3>1
    <3>3. g[i + 1] = h[i] + a[m + 1] /\ h[i + 1] = h[i] + a[j]
      BY <2>2, <2>3, <2>5, <3>2
    <3>4. g[i + 1] = h[i + 1] + (a[m + 1] - a[j])
      BY <1>1, <2>4, <3>3
    <3> QED BY <3>1, <3>4
  <2>6. CASE i + 1 # j
    <3>1. j <= i + 1 <=> j <= i
      BY <1>1, <2>1, <2>6
    <3> QED BY <1>1, <2>1, <2>2, <2>3, <2>4, <2>6, <3>1
  <2> QED BY <2>5, <2>6
<1> HIDE DEF Ahead
<1>7. T = Nat
  BY <1>5, <1>6, Induction
<1>8. Ahead(m)
  BY <1>7
<1>9. h[m + 1] = h[m] + a[m + 1] /\ h[m] \in Int /\ g[m] \in Int
  <2>1. (m + 1) - 1 = m /\ m \in 0..m + 1 /\ m \in 0..m
    OBVIOUS
  <2>2. h[m + 1] = h[(m + 1) - 1] + a[m + 1]
    BY <1>1, <1>3
  <2> QED BY <1>3, <1>4, <2>1, <2>2
<1>10. CASE j = m + 1
  <2>1. ~(j <= m)
    BY <1>10
  <2> QED BY <1>1, <1>8, <1>9, <1>10, <2>1 DEF Ahead
<1>11. CASE j # m + 1
  <2>1. j <= m
    BY <1>1, <1>11
  <2> QED BY <1>1, <1>8, <1>9, <2>1 DEF Ahead
<1> QED
  BY <1>10, <1>11

\* An enumeration of a set.
Enumerates(e, n, S) ==
    /\ e \in [1..n -> S]
    /\ \A i, j \in 1..n : e[i] = e[j] => i = j
    /\ \A x \in S : \E i \in 1..n : e[i] = x

\* A set that is enumerated has that many elements.
LEMMA EnumeratedSize ==
    ASSUME NEW n \in Nat, NEW S, NEW e, Enumerates(e, n, S)
    PROVE  IsFiniteSet(S) /\ Cardinality(S) = n
BY Counted, SameSize DEF Enumerates

\* Squares of the ranks, each a number.
SquareOf(d, p) == TwiceRankOf(d, p) * TwiceRankOf(d, p)

\* They are whole numbers.
LEMMA SquareType ==
    ASSUME NEW d, IsFiniteSet(Differing(d)), NEW p
    PROVE  SquareOf(d, p) \in Int
<1> DEFINE D == Differing(d)
           A == {q \in D : Abs(d[q]) < Abs(d[p])}
           B == {q \in D : Abs(d[q]) = Abs(d[p])}
<1>1. A \subseteq D /\ B \subseteq D
  OBVIOUS
<1>2. TwiceRankOf(d, p) = 2 * Cardinality(A) + Cardinality(B) + 1
  BY DEF TwiceRankOf
<1> HIDE DEF A, B
<1>3. Cardinality(A) \in Nat /\ Cardinality(B) \in Nat
  BY <1>1, FS_Subset, FS_CardinalityType
<1>4. TwiceRankOf(d, p) \in Int
  BY <1>2, <1>3
<1> QED
  BY <1>4 DEF SquareOf

\* The step of the sum over a set: any member is taken out.
Taken(S) == CHOOSE x \in S : TRUE
SumStep(d, f, S) == IF S = {} THEN 0 ELSE SquareOf(d, Taken(S)) + f[S \ {Taken(S)}]

\* A set that is not empty has what is taken from it.
LEMMA TakenIn ==
    ASSUME NEW S, S # {}
    PROVE  Taken(S) \in S
BY DEF Taken

\* The sums over all subsets can be formed.
LEMMA SetSumsExist ==
    ASSUME NEW d, IsFiniteSet(Differing(d))
    PROVE  \E f \in [SUBSET Differing(d) -> Int] :
               \A S \in SUBSET Differing(d) : f[S] = SumStep(d, f, S)
<1> DEFINE D == Differing(d)
           Good(f, m) == \A S \in SUBSET D : Cardinality(S) <= m => f[S] = SumStep(d, f, S)
           T == {m \in Nat : \E f \in [SUBSET D -> Int] : Good(f, m)}
<1>1. \A S \in SUBSET D : IsFiniteSet(S) /\ Cardinality(S) \in Nat /\ Cardinality(S) <= Cardinality(D)
                          /\ (Cardinality(S) = 0 <=> S = {})
  BY FS_Subset, FS_CardinalityType, FS_EmptySet
<1>2. \A p : SquareOf(d, p) \in Int
  BY SquareType
<1>3. ASSUME NEW S \in SUBSET D, S # {}
      PROVE  /\ Taken(S) \in S /\ S \ {Taken(S)} \in SUBSET D
             /\ Cardinality(S \ {Taken(S)}) = Cardinality(S) - 1
  BY <1>1, <1>3, TakenIn, FS_RemoveElement
<1> HIDE DEF D
<1>4. 0 \in T
  <2> DEFINE f == [S \in SUBSET D |-> 0]
  <2>1. f \in [SUBSET D -> Int]
    OBVIOUS
  <2>2. ASSUME NEW S \in SUBSET D, Cardinality(S) <= 0 PROVE f[S] = SumStep(d, f, S)
    <3>1. S = {}
      BY <1>1, <2>2
    <3> QED BY <3>1 DEF SumStep
  <2> HIDE DEF f
  <2>3. Good(f, 0)
    BY <2>2
  <2> QED BY <2>1, <2>3
<1>5. ASSUME NEW m \in T PROVE m + 1 \in T
  <2>1. PICK f \in [SUBSET D -> Int] : Good(f, m)
    BY <1>5
  <2>2. m \in Nat
    BY <1>5
  <2> DEFINE g == [S \in SUBSET D |-> IF Cardinality(S) = m + 1 THEN SumStep(d, f, S) ELSE f[S]]
  <2>3. ASSUME NEW S \in SUBSET D PROVE SumStep(d, f, S) \in Int
    <3>1. CASE S = {}
      BY <3>1 DEF SumStep
    <3>2. CASE S # {}
      BY <1>2, <1>3, <3>2 DEF SumStep
    <3> QED BY <3>1, <3>2
  <2>4. g \in [SUBSET D -> Int]
    BY <2>3
  <2>5. \A S \in SUBSET D : g[S] = IF Cardinality(S) = m + 1 THEN SumStep(d, f, S) ELSE f[S]
    OBVIOUS
  <2> HIDE DEF g
  <2>6. ASSUME NEW S \in SUBSET D, Cardinality(S) <= m + 1 PROVE g[S] = SumStep(d, g, S)
    <3>1. CASE S = {}
      <4>1. Cardinality(S) = 0 /\ Cardinality(S) # m + 1 /\ Cardinality(S) <= m
        BY <1>1, <2>2, <3>1
      <4>2. f[S] = SumStep(d, f, S)
        BY <2>1, <4>1
      <4> QED BY <2>5, <3>1, <4>1, <4>2 DEF SumStep
    <3>2. CASE S # {}
      <4> DEFINE R == S \ {Taken(S)}
      <4>1. R \in SUBSET D /\ Cardinality(R) = Cardinality(S) - 1
        BY <1>3, <3>2
      <4>2. Cardinality(S) \in Nat /\ Cardinality(R) # m + 1
        BY <1>1, <2>2, <2>6, <4>1
      <4>3. SumStep(d, g, S) = SumStep(d, f, S)
        BY <2>5, <3>2, <4>1, <4>2 DEF SumStep
      <4>4. g[S] = SumStep(d, f, S)
        <5>1. CASE Cardinality(S) = m + 1
          BY <2>5, <5>1
        <5>2. CASE Cardinality(S) # m + 1
          <6>1. Cardinality(S) <= m
            BY <2>2, <2>6, <4>2, <5>2
          <6> QED BY <2>1, <2>5, <5>2, <6>1
        <5> QED BY <5>1, <5>2
      <4> QED BY <4>3, <4>4
    <3> QED BY <3>1, <3>2
  <2>7. Good(g, m + 1)
    BY <2>6
  <2>8. m + 1 \in Nat
    BY <2>2
  <2>9. \E h \in [SUBSET D -> Int] : Good(h, m + 1)
    BY <2>4, <2>7
  <2> HIDE DEF Good
  <2> QED BY <2>8, <2>9
<1>6. T = Nat
  <2> HIDE DEF Good
  <2> QED BY <1>4, <1>5, Induction
<1>7. Cardinality(D) \in Nat /\ D \in SUBSET D
  BY <1>1
<1>8. PICK f \in [SUBSET D -> Int] : Good(f, Cardinality(D))
  <2> HIDE DEF Good
  <2> QED BY <1>6, <1>7
<1> QED
  BY <1>1, <1>8 DEF D

\* The sum over the set is the sum along any enumeration of it.
LEMMA SquaresAlong ==
    ASSUME NEW d, NEW n \in Nat, NEW b, Enumerates(b, n, Differing(d)), NEW g,
           PartialSums([k \in 1..n |-> SquareOf(d, b[k])], g)
    PROVE  SquaredRanks(d) = g[n]
<1> DEFINE D == Differing(d)
           Step(f) == [S \in SUBSET D |->
                          IF S = {} THEN 0
                          ELSE LET x == CHOOSE x \in S : TRUE
                               IN  TwiceRankOf(d, x) * TwiceRankOf(d, x) + f[S \ {x}]]
           sum == CHOOSE f : f = Step(f)
<1>1. SquaredRanks(d) = sum[D]
  BY DEF SquaredRanks, MapThenSumSet, MapThenFoldSet
<1>2. IsFiniteSet(D) /\ Cardinality(D) = n
  BY EnumeratedSize
<1>3. \A f, S : SumStep(d, f, S) = IF S = {} THEN 0
                                   ELSE LET x == CHOOSE x \in S : TRUE
                                        IN  TwiceRankOf(d, x) * TwiceRankOf(d, x) + f[S \ {x}]
  BY DEF SumStep, Taken, SquareOf
<1>4. \A p : SquareOf(d, p) \in Int
  BY <1>2, SquareType
<1>5. PICK w \in [SUBSET D -> Int] : \A S \in SUBSET D : w[S] = SumStep(d, w, S)
  BY <1>2, SetSumsExist
<1> HIDE DEF D
<1>6. w = Step(w)
  BY <1>3, <1>5
<1>7. sum = Step(sum)
  <2> HIDE DEF Step
  <2> QED BY <1>6
<1> HIDE DEF sum
<1>8. \A S \in SUBSET D : sum[S] = SumStep(d, sum, S)
  <2>1. \A S \in SUBSET D : Step(sum)[S] = SumStep(d, sum, S)
    BY <1>3
  <2> HIDE DEF Step
  <2> QED BY <1>7, <2>1
<1> DEFINE Along(m) == \A S \in SUBSET D : \A e, h :
                           /\ Enumerates(e, m, S)
                           /\ PartialSums([k \in 1..m |-> SquareOf(d, e[k])], h)
                           => sum[S] = h[m]
           T == {m \in Nat : Along(m)}
<1>9. 0 \in T
  <2> SUFFICES ASSUME NEW S \in SUBSET D, NEW e, NEW h, Enumerates(e, 0, S),
                      PartialSums([k \in 1..0 |-> SquareOf(d, e[k])], h)
               PROVE  sum[S] = h[0]
    OBVIOUS
  <2>1. S = {}
    BY DEF Enumerates
  <2>2. h[0] = 0
    BY DEF PartialSums
  <2> QED BY <1>8, <2>1, <2>2 DEF SumStep
<1>10. ASSUME NEW m \in T PROVE m + 1 \in T
  <2>1. m \in Nat /\ m + 1 \in Nat /\ Along(m)
    <3> HIDE DEF Along
    <3> QED BY <1>10
  <2> SUFFICES ASSUME NEW S \in SUBSET D, NEW e, NEW h, Enumerates(e, m + 1, S),
                      PartialSums([k \in 1..m + 1 |-> SquareOf(d, e[k])], h)
               PROVE  sum[S] = h[m + 1]
    BY <2>1
  <2> DEFINE x == Taken(S)
             a == [k \in 1..m + 1 |-> SquareOf(d, e[k])]
  <2>2. /\ e \in [1..m + 1 -> S] /\ m + 1 \in 1..m + 1
        /\ \A i, j \in 1..m + 1 : e[i] = e[j] => i = j
        /\ \A y \in S : \E i \in 1..m + 1 : e[i] = y
    <3>1. m + 1 \in 1..m + 1
      BY <2>1
    <3>2. Enumerates(e, m + 1, S)
      OBVIOUS
    <3> HIDE DEF Along, a
    <3> QED BY <3>1, <3>2 DEF Enumerates
  <2>3. S # {} /\ x \in S
    BY <2>2, TakenIn
  <2>4. PICK j \in 1..m + 1 : e[j] = x
    BY <2>2, <2>3
  <2>5. a \in [1..m + 1 -> Int] /\ a[j] = SquareOf(d, x) /\ PartialSums(a, h)
    BY <1>4, <2>4
  <2> HIDE DEF x
  <2> DEFINE e2 == [k \in 1..m |-> IF k = j THEN e[m + 1] ELSE e[k]]
             c == [k \in 1..m |-> SquareOf(d, e2[k])]
             R == S \ {x}
  <2>6. \A k \in 1..m : k \in 1..m + 1 /\ k # m + 1
    BY <2>1
  <2>7. Enumerates(e2, m, R)
    <3>1. ASSUME NEW k \in 1..m PROVE e2[k] \in R
      <4>1. e2[k] = IF k = j THEN e[m + 1] ELSE e[k]
        OBVIOUS
      <4> QED BY <2>2, <2>4, <2>6, <4>1
    <3>2. ASSUME NEW i \in 1..m, NEW k \in 1..m, e2[i] = e2[k] PROVE i = k
      <4>1. /\ e2[i] = IF i = j THEN e[m + 1] ELSE e[i]
            /\ e2[k] = IF k = j THEN e[m + 1] ELSE e[k]
        OBVIOUS
      <4> HIDE DEF e2
      <4> QED BY <2>2, <2>6, <3>2, <4>1
    <3>3. ASSUME NEW y \in R PROVE \E i \in 1..m : e2[i] = y
      <4>1. PICK i \in 1..m + 1 : e[i] = y
        BY <2>2
      <4>2. i # j
        BY <2>4, <4>1
      <4>3. CASE i = m + 1
        <5>1. j \in 1..m
          BY <2>1, <4>2, <4>3
        <5> QED BY <4>1, <4>3, <5>1
      <4>4. CASE i # m + 1
        <5>1. i \in 1..m
          BY <2>1, <4>4
        <5> QED BY <4>1, <4>2, <5>1
      <4> QED BY <4>3, <4>4
    <3>4. e2 \in [1..m -> R]
      BY <3>1
    <3> HIDE DEF e2, R
    <3> QED BY <3>2, <3>3, <3>4 DEF Enumerates
  <2>8. c = [k \in 1..m |-> IF k = j THEN a[m + 1] ELSE a[k]]
    <3>1. ASSUME NEW k \in 1..m PROVE c[k] = IF k = j THEN a[m + 1] ELSE a[k]
      BY <2>2, <2>6
    <3> HIDE DEF a
    <3> QED BY <3>1
  <2>9. c \in [1..m -> Int]
    BY <1>4
  <2>10. PICK f : PartialSums(c, f)
    <3> HIDE DEF c
    <3>1. c \in Seq(Int)
      BY <2>1, <2>9
    <3> QED BY <3>1, SumsExist
  <2>11. sum[R] = f[m]
    <3>1. R \in SUBSET D
      OBVIOUS
    <3> HIDE DEF e2, R
    <3> QED BY <2>1, <2>7, <2>10, <3>1
  <2>12. h[m + 1] = f[m] + a[j] /\ f[m] \in Int
    <3>1. PartialSums([k \in 1..m |-> IF k = j THEN a[m + 1] ELSE a[k]], f)
      BY <2>8, <2>10
    <3> HIDE DEF a, c
    <3> QED BY <2>1, <2>5, <3>1, OneTakenOut
  <2>13. sum[S] = SquareOf(d, x) + sum[R]
    BY <1>8, <2>3 DEF SumStep, x
  <2> HIDE DEF a, R
  <2> QED BY <1>4, <2>5, <2>11, <2>12, <2>13
<1> HIDE DEF Along
<1>11. T = Nat
  BY <1>9, <1>10, Induction
<1>12. Along(n) /\ D \in SUBSET D
  BY <1>11
<1> QED
  BY <1>1, <1>12 DEF Along, D
-----------------------------------------------------------------------------
PlaceOf(key, p) == Cardinality(UpTo(key, p))

\* A position that comes before another has the lower place.
LEMMA PlacesFollowOrder ==
    ASSUME NEW D \in SUBSET Int, IsFiniteSet(D), NEW key \in [D -> Int], NEW q \in D, NEW p \in D,
           q # p, key[q] < key[p] \/ (key[q] = key[p] /\ q < p)
    PROVE  PlaceOf(key, q) < PlaceOf(key, p)
<1> DEFINE A == UpTo(key, q)
           B == UpTo(key, p)
<1>1. DOMAIN key = D /\ \A k \in D : k \in Int /\ key[k] \in Int
  OBVIOUS
<1>2. A \subseteq D /\ B \subseteq D
  BY DEF UpTo
<1>3. A \subseteq B
  <2> SUFFICES ASSUME NEW k \in A PROVE k \in B
    OBVIOUS
  <2>1. k \in D /\ (key[k] < key[q] \/ (key[k] = key[q] /\ k <= q))
    BY DEF UpTo
  <2>2. key[k] < key[p] \/ (key[k] = key[p] /\ k <= p)
    BY <1>1, <2>1
  <2> QED BY <1>1, <2>1, <2>2 DEF UpTo
<1>4. p \in B /\ p \notin A
  <2>1. ~(key[p] < key[q] \/ (key[p] = key[q] /\ p <= q))
    BY <1>1
  <2> QED BY <1>1, <2>1 DEF UpTo
<1> HIDE DEF A, B
<1>5. IsFiniteSet(B)
  BY <1>2, FS_Subset
<1>6. Cardinality(A) <= Cardinality(B) /\ Cardinality(B) # Cardinality(A)
  BY <1>3, <1>4, <1>5, FS_Subset
<1>7. Cardinality(A) \in Nat /\ Cardinality(B) \in Nat
  BY <1>3, <1>5, FS_Subset, FS_CardinalityType
<1> QED
  BY <1>6, <1>7 DEF PlaceOf, A, B

\* The sort: every position once, the small keys before the large.
LEMMA SortedPlaces ==
    ASSUME NEW D \in SUBSET Int, IsFiniteSet(D), NEW key \in [D -> Int], NEW n, n = Cardinality(D)
    PROVE  /\ n \in Nat /\ DOMAIN SortedBy(key) = 1..n
           /\ Enumerates(SortedBy(key), n, D)
           /\ \A i, j \in 1..n : i < j => key[SortedBy(key)[i]] <= key[SortedBy(key)[j]]
<1> DEFINE Place(p) == PlaceOf(key, p)
           o == SortedBy(key)
<1>1. n \in Nat /\ DOMAIN key = D /\ \A k \in D : k \in Int /\ key[k] \in Int
  BY FS_CardinalityType
<1>2. ASSUME NEW p \in D PROVE Place(p) \in 1..n
  <2> DEFINE A == UpTo(key, p)
  <2>1. A \subseteq D /\ p \in A
    BY <1>1 DEF UpTo
  <2> HIDE DEF A
  <2>2. IsFiniteSet(A) /\ Cardinality(A) <= n /\ Cardinality(A) \in Nat
    BY <2>1, FS_Subset, FS_CardinalityType
  <2>3. Cardinality(A) # 0
    BY <2>1, <2>2, FS_EmptySet
  <2> QED BY <1>1, <2>2, <2>3 DEF PlaceOf, A
<1>3. ASSUME NEW p \in D, NEW q \in D, p # q PROVE Place(p) # Place(q)
  <2>1. Place(p) \in Int /\ Place(q) \in Int
    BY <1>2
  <2>2. \/ key[q] < key[p] \/ (key[q] = key[p] /\ q < p)
        \/ key[p] < key[q] \/ (key[p] = key[q] /\ p < q)
    BY <1>1, <1>3
  <2>3. Place(q) < Place(p) \/ Place(p) < Place(q)
    BY <1>3, <2>2, PlacesFollowOrder
  <2> HIDE DEF Place
  <2> QED BY <2>1, <2>3
<1>4. \A k \in 1..n : \E p \in D : Place(p) = k
  <2> DEFINE f == [p \in D |-> Place(p)]
  <2>1. f \in Injection(D, 1..n)
    <3>1. f \in [D -> 1..n]
      BY <1>2
    <3>2. \A p, q \in D : f[p] = f[q] => p = q
      BY <1>3
    <3> HIDE DEF f
    <3> QED BY <3>1, <3>2 DEF Injection, IsInjective
  <2>2. IsFiniteSet(1..n) /\ Cardinality(D) = Cardinality(1..n)
    BY <1>1, Counted
  <2>3. f \in Surjection(D, 1..n)
    <3> HIDE DEF f
    <3> QED BY <2>1, <2>2, FS_Injection
  <2> QED BY <2>3 DEF Surjection
<1>5. o = [k \in 1..n |-> CHOOSE p \in D : Place(p) = k]
  BY DEF SortedBy, PlaceOf
<1> HIDE DEF o, Place
<1>6. ASSUME NEW k \in 1..n PROVE o[k] \in D /\ Place(o[k]) = k
  <2>1. o[k] = CHOOSE p \in D : Place(p) = k
    BY <1>5
  <2> QED BY <1>4, <2>1
<1>7. Enumerates(o, n, D)
  <2>1. o \in [1..n -> D]
    BY <1>5, <1>6
  <2>2. \A i, j \in 1..n : o[i] = o[j] => i = j
    BY <1>6
  <2>3. \A p \in D : \E i \in 1..n : o[i] = p
    BY <1>2, <1>3, <1>6
  <2> QED BY <2>1, <2>2, <2>3 DEF Enumerates
<1>8. ASSUME NEW i \in 1..n, NEW j \in 1..n, i < j PROVE key[o[i]] <= key[o[j]]
  <2> SUFFICES ASSUME ~(key[o[i]] <= key[o[j]]) PROVE FALSE
    OBVIOUS
  <2>1. o[i] \in D /\ o[j] \in D /\ Place(o[i]) = i /\ Place(o[j]) = j
    BY <1>6
  <2>2. key[o[j]] < key[o[i]] /\ o[j] # o[i]
    <3>1. key[o[i]] \in Int /\ key[o[j]] \in Int
      BY <1>1, <2>1
    <3> QED BY <3>1
  <2>3. Place(o[j]) < Place(o[i])
    BY <2>1, <2>2, PlacesFollowOrder DEF Place
  <2>4. i \in Int /\ j \in Int
    BY <1>1
  <2> QED BY <1>8, <2>1, <2>3, <2>4
<1>9. DOMAIN o = 1..n
  BY <1>5
<1> QED
  BY <1>1, <1>7, <1>8, <1>9 DEF o

Nonzero(deltas) == {p \in DOMAIN deltas : deltas[p] # 0}

\* The deltas sorted by size: every one that is not zero, once.
LEMMA SortedBySize ==
    ASSUME NEW deltas \in Seq(Int)
    PROVE  \E n \in Nat : \E o :
               /\ Enumerates(o, n, Nonzero(deltas))
               /\ BySize(deltas) = [k \in 1..n |-> deltas[o[k]]]
               /\ Sorted(BySize(deltas)) /\ Len(BySize(deltas)) = n
<1> DEFINE D == Nonzero(deltas)
           n == Cardinality(D)
           m == Len(deltas)
           key == [p \in D |-> Abs(deltas[p])]
           o == SortedBy(key)
           s == BySize(deltas)
<1>1. m \in Nat /\ DOMAIN deltas = 1..m /\ \A k \in 1..m : deltas[k] \in Int /\ Abs(deltas[k]) \in Int
  BY DEF Abs
<1> HIDE DEF m
<1>2. D \subseteq 1..m
  BY <1>1 DEF Nonzero
<1>3. s = [k \in DOMAIN o |-> deltas[o[k]]]
  BY DEF BySize, Nonzero
<1> HIDE DEF D, s
<1>4. IsFiniteSet(D) /\ D \in SUBSET Int /\ key \in [D -> Int]
  <2>1. key \in [D -> Int]
    BY <1>1, <1>2
  <2>2. IsFiniteSet(1..m)
    BY <1>1, Counted
  <2> HIDE DEF key
  <2>3. IsFiniteSet(D)
    BY <1>2, <2>2, FS_Subset
  <2>4. D \in SUBSET Int
    BY <1>1, <1>2
  <2> QED BY <2>1, <2>3, <2>4
<1>5. \A p \in D : key[p] = Abs(deltas[p])
  OBVIOUS
<1> HIDE DEF key
<1>6. /\ n \in Nat /\ DOMAIN o = 1..n /\ Enumerates(o, n, D)
      /\ \A i, j \in 1..n : i < j => key[o[i]] <= key[o[j]]
  BY <1>4, SortedPlaces
<1> HIDE DEF n, o
<1>7. \A k \in 1..n : o[k] \in D /\ s[k] = deltas[o[k]] /\ s[k] \in Int
  <2>1. \A k \in 1..n : o[k] \in D /\ s[k] = deltas[o[k]]
    BY <1>3, <1>6 DEF Enumerates
  <2> QED BY <1>1, <1>2, <2>1
<1>8. s \in Seq(Int) /\ Len(s) = n /\ DOMAIN s = 1..n
  <2>1. s \in [1..n -> Int]
    BY <1>3, <1>6, <1>7
  <2> QED BY <1>6, <2>1
<1>9. Sorted(s)
  <2>1. \A i, j \in 1..n : i < j => Abs(s[i]) <= Abs(s[j])
    BY <1>5, <1>6, <1>7
  <2> QED BY <1>8, <2>1 DEF Sorted
<1>10. s = [k \in 1..n |-> deltas[o[k]]]
  BY <1>3, <1>6
<1> QED
  BY <1>6, <1>8, <1>9, <1>10 DEF s, D

\* The deltas sorted by value: every one, once.
LEMMA SortedByValue ==
    ASSUME NEW deltas \in Seq(Int)
    PROVE  \E o :
               /\ Enumerates(o, Len(deltas), 1..Len(deltas))
               /\ ByValue(deltas) = [k \in 1..Len(deltas) |-> deltas[o[k]]]
               /\ ByValue(deltas) \in Seq(Int) /\ Len(ByValue(deltas)) = Len(deltas)
               /\ \A i, j \in 1..Len(deltas) : i < j => ByValue(deltas)[i] <= ByValue(deltas)[j]
<1> DEFINE n == Len(deltas)
           o == SortedBy(deltas)
           s == ByValue(deltas)
<1>1. n \in Nat /\ DOMAIN deltas = 1..n /\ deltas \in [1..n -> Int]
  OBVIOUS
<1>2. s = [k \in DOMAIN o |-> deltas[o[k]]]
  BY DEF ByValue
<1> HIDE DEF n, s
<1>3. IsFiniteSet(1..n) /\ Cardinality(1..n) = n /\ 1..n \in SUBSET Int
  BY <1>1, Counted
<1>4. /\ DOMAIN o = 1..n /\ Enumerates(o, n, 1..n)
      /\ \A i, j \in 1..n : i < j => deltas[o[i]] <= deltas[o[j]]
  BY <1>1, <1>3, SortedPlaces
<1> HIDE DEF o
<1>5. \A k \in 1..n : o[k] \in 1..n /\ s[k] = deltas[o[k]] /\ s[k] \in Int
  <2>1. \A k \in 1..n : o[k] \in 1..n /\ s[k] = deltas[o[k]]
    BY <1>2, <1>4 DEF Enumerates
  <2> QED BY <1>1, <2>1
<1>6. s \in Seq(Int) /\ Len(s) = n
  <2>1. s \in [1..n -> Int]
    BY <1>2, <1>4, <1>5
  <2> QED BY <1>1, <2>1
<1>7. s = [k \in 1..n |-> deltas[o[k]]] /\ \A i, j \in 1..n : i < j => s[i] <= s[j]
  BY <1>2, <1>4, <1>5
<1> QED
  BY <1>4, <1>6, <1>7 DEF n, s
-----------------------------------------------------------------------------
\* What is enumerated can be counted by the numbers.
LEMMA CountedByNumber ==
    ASSUME NEW n \in Nat, NEW S, NEW c, Enumerates(c, n, S),
           NEW A \in SUBSET (1..n), NEW B \in SUBSET S, \A i \in 1..n : c[i] \in B <=> i \in A
    PROVE  Cardinality(B) = Cardinality(A)
<1> DEFINE f == [i \in A |-> c[i]]
<1>1. IsFiniteSet(A)
  BY Counted, FS_Subset
<1>2. f \in [A -> B] /\ \A i, j \in A : f[i] = f[j] => i = j
  BY DEF Enumerates
<1>3. \A x \in B : \E i \in A : f[i] = x
  <2> SUFFICES ASSUME NEW x \in B PROVE \E i \in A : f[i] = x
    OBVIOUS
  <2>1. PICK i \in 1..n : c[i] = x
    BY DEF Enumerates
  <2>2. i \in A
    BY <2>1
  <2> QED BY <2>1, <2>2
<1> HIDE DEF f
<1> QED
  BY <1>1, <1>2, <1>3, SameSize

\* The same of a relation: its pairs are counted by the pairs of numbers.
LEMMA PairsByNumber ==
    ASSUME NEW n \in Nat, NEW S, NEW c, Enumerates(c, n, S),
           NEW A \in SUBSET ((1..n) \X (1..n)), NEW B \in SUBSET (S \X S),
           \A i, j \in 1..n : <<c[i], c[j]>> \in B <=> <<i, j>> \in A
    PROVE  Cardinality(B) = Cardinality(A)
<1> DEFINE f == [x \in A |-> <<c[x[1]], c[x[2]]>>]
<1>1. IsFiniteSet(A)
  <2>1. IsFiniteSet(1..n) /\ IsFiniteSet((1..n) \X (1..n))
    BY Counted, FS_Product
  <2> QED BY <2>1, FS_Subset
<1>2. \A x \in A : x[1] \in 1..n /\ x[2] \in 1..n /\ x = <<x[1], x[2]>>
  OBVIOUS
<1>3. f \in [A -> B]
  <2>1. \A x \in A : <<c[x[1]], c[x[2]]>> \in B
    BY <1>2
  <2> QED BY <2>1
<1>4. ASSUME NEW x \in A, NEW y \in A, f[x] = f[y] PROVE x = y
  <2>1. c[x[1]] = c[y[1]] /\ c[x[2]] = c[y[2]]
    BY <1>4
  <2>2. x[1] = y[1] /\ x[2] = y[2]
    BY <1>2, <2>1 DEF Enumerates
  <2> QED BY <1>2, <2>2
<1>5. ASSUME NEW z \in B PROVE \E x \in A : f[x] = z
  <2>1. z[1] \in S /\ z[2] \in S /\ z = <<z[1], z[2]>>
    OBVIOUS
  <2>2. PICK i \in 1..n, j \in 1..n : c[i] = z[1] /\ c[j] = z[2]
    BY <2>1 DEF Enumerates
  <2>3. <<i, j>> \in A
    BY <2>1, <2>2
  <2>4. f[<<i, j>>] = z
    BY <2>1, <2>2, <2>3
  <2> QED BY <2>3, <2>4
<1> HIDE DEF f
<1> QED
  BY <1>1, <1>3, <1>4, <1>5, SameSize

\* The statistics do not depend on what the deltas are indexed by.
LEMMA Reindexed ==
    ASSUME NEW n \in Nat, NEW s \in Seq(Int), Len(s) = n,
           NEW d, NEW c, Enumerates(c, n, Differing(d)),
           \A k \in 1..n : s[k] = d[c[k]] /\ s[k] # 0
    PROVE  /\ FourWPlus(d) = FourWPlus(s)
           /\ \A k \in 1..n : TwiceRankOf(d, c[k])
                  = 2 * Cardinality(Smaller(s, k)) + Cardinality(Ties(s, k)) + 1
<1> DEFINE D == Differing(d)
<1>1. DOMAIN s = 1..n /\ Differing(s) = 1..n
  BY DEF Differing
<1>2. \A k \in 1..n : c[k] \in D
  BY DEF Enumerates
<1> HIDE DEF D
<1>3. ASSUME NEW k \in 1..n
      PROVE  TwiceRankOf(d, c[k])
                 = 2 * Cardinality(Smaller(s, k)) + Cardinality(Ties(s, k)) + 1
  <2> DEFINE L == {q \in D : Abs(d[q]) < Abs(d[c[k]])}
             E == {q \in D : Abs(d[q]) = Abs(d[c[k]])}
  <2>1. \A i \in 1..n : (c[i] \in L <=> i \in Smaller(s, k)) /\ (c[i] \in E <=> i \in Ties(s, k))
    BY <1>1, <1>2 DEF Smaller, Ties
  <2>2. /\ L \subseteq D /\ E \subseteq D
        /\ Smaller(s, k) \subseteq 1..n /\ Ties(s, k) \subseteq 1..n
    BY <1>1 DEF Smaller, Ties
  <2>3. TwiceRankOf(d, c[k]) = 2 * Cardinality(L) + Cardinality(E) + 1
    BY DEF TwiceRankOf, D
  <2> HIDE DEF L, E
  <2>4. Cardinality(L) = Cardinality(Smaller(s, k))
    BY <2>1, <2>2, CountedByNumber DEF D
  <2>5. Cardinality(E) = Cardinality(Ties(s, k))
    BY <2>1, <2>2, CountedByNumber DEF D
  <2> QED BY <2>3, <2>4, <2>5
<1>4. FourWPlus(d) = FourWPlus(s)
  <2> DEFINE OverD == {w \in D \X D : d[w[1]] + d[w[2]] > 0}
             EvenD == {w \in D \X D : d[w[1]] + d[w[2]] = 0}
             PosD == {p \in D : d[p] > 0}
             OverS == {w \in (1..n) \X (1..n) : s[w[1]] + s[w[2]] > 0}
             EvenS == {w \in (1..n) \X (1..n) : s[w[1]] + s[w[2]] = 0}
             PosS == {p \in 1..n : s[p] > 0}
  <2>1. FourWPlus(d) = 2 * Cardinality(OverD) + Cardinality(EvenD) + 2 * Cardinality(PosD)
    BY DEF FourWPlus, D
  <2>2. FourWPlus(s) = 2 * Cardinality(OverS) + Cardinality(EvenS) + 2 * Cardinality(PosS)
    BY <1>1 DEF FourWPlus
  <2>3. \A i, j \in 1..n : <<c[i], c[j]>> \in OverD <=> <<i, j>> \in OverS
    BY <1>2
  <2>4. \A i, j \in 1..n : <<c[i], c[j]>> \in EvenD <=> <<i, j>> \in EvenS
    BY <1>2
  <2>5. \A i \in 1..n : c[i] \in PosD <=> i \in PosS
    BY <1>2
  <2>6. /\ OverD \subseteq D \X D /\ EvenD \subseteq D \X D /\ PosD \subseteq D
        /\ OverS \subseteq (1..n) \X (1..n) /\ EvenS \subseteq (1..n) \X (1..n) /\ PosS \subseteq 1..n
    OBVIOUS
  <2> HIDE DEF OverD, EvenD, PosD, OverS, EvenS, PosS
  <2>7. Cardinality(OverD) = Cardinality(OverS)
    BY <2>3, <2>6, PairsByNumber DEF D
  <2>8. Cardinality(EvenD) = Cardinality(EvenS)
    BY <2>4, <2>6, PairsByNumber DEF D
  <2>9. Cardinality(PosD) = Cardinality(PosS)
    BY <2>5, <2>6, CountedByNumber DEF D
  <2> QED BY <2>1, <2>2, <2>7, <2>8, <2>9
<1> QED
  BY <1>3, <1>4

\* The rank test of the code is the one of the definition: for any number of
\* deltas, with any ties and zeros, in any order.
LEMMA RankTestIsExact ==
    ASSUME NEW deltas \in Seq(Int), NEW P, NEW d, NEW b, DOMAIN d = P,
           Enumerates(b, Len(deltas), P), \A k \in DOMAIN deltas : deltas[k] = d[b[k]]
    PROVE  Significant(deltas) <=> SignificantByDefinition(d)
<1> DEFINE s == BySize(deltas)
           D == Differing(d)
           m == Len(deltas)
<1>1. PICK n \in Nat :
          \E o : /\ Enumerates(o, n, Nonzero(deltas))
                 /\ s = [k \in 1..n |-> deltas[o[k]]]
                 /\ Sorted(s) /\ Len(s) = n
  BY SortedBySize
<1>2. PICK o : /\ Enumerates(o, n, Nonzero(deltas))
               /\ s = [k \in 1..n |-> deltas[o[k]]]
               /\ Sorted(s) /\ Len(s) = n
  BY <1>1
<1>3. DOMAIN deltas = 1..m /\ m \in Nat /\ s \in Seq(Int)
  BY <1>2 DEF Sorted
<1> DEFINE c == [k \in 1..n |-> b[o[k]]]
<1> HIDE DEF s, m
<1>4. Enumerates(b, m, P)
  BY DEF m
<1>5. \A k \in 1..n : o[k] \in 1..m /\ deltas[o[k]] # 0
  BY <1>2, <1>3 DEF Enumerates, Nonzero
<1>6. \A k \in 1..n : s[k] = d[c[k]] /\ s[k] # 0
  <2>1. \A k \in 1..n : s[k] = deltas[o[k]] /\ c[k] = b[o[k]]
    BY <1>2
  <2> HIDE DEF c
  <2> QED BY <1>3, <1>5, <2>1
<1>7. Enumerates(c, n, D)
  <2>1. ASSUME NEW k \in 1..n PROVE c[k] \in D
    <3>1. c[k] \in P /\ d[c[k]] # 0
      <4>1. c[k] = b[o[k]] /\ o[k] \in 1..m
        BY <1>5
      <4> HIDE DEF c
      <4> QED BY <1>4, <1>6, <4>1 DEF Enumerates
    <3> QED BY <3>1 DEF Differing
  <2>2. ASSUME NEW i \in 1..n, NEW j \in 1..n, c[i] = c[j] PROVE i = j
    <3>1. b[o[i]] = b[o[j]] /\ o[i] \in 1..m /\ o[j] \in 1..m
      BY <1>5, <2>2
    <3>2. \A k, l \in 1..m : b[k] = b[l] => k = l
      BY <1>4 DEF Enumerates
    <3>3. o[i] = o[j]
      BY <3>1, <3>2
    <3> QED BY <1>2, <3>3 DEF Enumerates
  <2>3. ASSUME NEW x \in D PROVE \E i \in 1..n : c[i] = x
    <3>1. x \in P /\ d[x] # 0
      BY DEF Differing
    <3>2. PICK k \in 1..m : b[k] = x
      BY <1>4, <3>1 DEF Enumerates
    <3>3. k \in Nonzero(deltas)
      BY <1>3, <3>1, <3>2 DEF Nonzero
    <3>4. PICK i \in 1..n : o[i] = k
      BY <1>2, <3>3 DEF Enumerates
    <3> QED BY <3>2, <3>4
  <2>4. c \in [1..n -> D]
    BY <2>1
  <2> HIDE DEF c, D
  <2> QED BY <2>2, <2>3, <2>4 DEF Enumerates
<1>8. IsFiniteSet(D) /\ Cardinality(D) = n
  <2> HIDE DEF c, D
  <2> QED BY <1>7, EnumeratedSize
<1>9. /\ FourWPlus(d) = FourWPlus(s)
      /\ \A k \in 1..n : TwiceRankOf(d, c[k])
             = 2 * Cardinality(Smaller(s, k)) + Cardinality(Ties(s, k)) + 1
  <2>1. Enumerates(c, n, Differing(d))
    BY <1>7
  <2>2. n \in Nat /\ s \in Seq(Int) /\ Len(s) = n
    BY <1>2, <1>3
  <2> HIDE DEF c, D
  <2> QED BY <1>6, <2>1, <2>2, Reindexed
<1>10. FourWPlus(d) = 2 * TwiceWPlus(s)
  <2>1. \A k \in DOMAIN s : s[k] # 0
    <3>1. DOMAIN s = 1..n
      BY <1>2, <1>3
    <3> QED BY <1>6, <3>1
  <2> QED BY <1>2, <1>9, <2>1, WalshAverages
<1> DEFINE r == [k \in 1..n |-> SquareOf(d, c[k])]
<1>11. 3 * SquaredRanks(d) = Variance48(s)
  <2>1. r \in [1..n -> Int]
    BY <1>8, SquareType
  <2>2. PICK g : PartialSums(r, g)
    <3> HIDE DEF r
    <3>1. r \in Seq(Int)
      BY <2>1
    <3> QED BY <3>1, SumsExist
  <2>3. SquaredRanks(d) = g[n]
    <3>1. Enumerates(c, n, Differing(d))
      BY <1>7
    <3> HIDE DEF c, D
    <3> QED BY <2>2, <3>1, SquaresAlong
  <2>4. r = [k \in 1..Len(s) |-> TwiceRank(s, k) * TwiceRank(s, k)]
    <3>1. ASSUME NEW k \in 1..n PROVE SquareOf(d, c[k]) = TwiceRank(s, k) * TwiceRank(s, k)
      <4>1. k \in DOMAIN s
        BY <1>2, <1>3
      <4>2. TwiceRank(s, k) = 2 * Cardinality(Smaller(s, k)) + Cardinality(Ties(s, k)) + 1
        BY <1>2, <4>1, TiesAreInterval DEF TwiceRank
      <4> HIDE DEF c
      <4>3. TwiceRankOf(d, c[k]) = TwiceRank(s, k)
        BY <1>9, <4>2
      <4> QED BY <4>3 DEF SquareOf
    <3> HIDE DEF c
    <3> QED BY <1>2, <3>1
  <2>5. 3 * g[n] = Variance48(s)
    <3> HIDE DEF r
    <3> QED BY <1>2, <2>2, <2>4, VarianceOfRanks
  <2> QED BY <2>3, <2>5
<1>12. Significant(deltas) <=> Below5(Abs(2 * TwiceWPlus(s) - n * (n + 1)), Variance48(s))
  BY <1>2 DEF Significant, s
<1>13. SignificantByDefinition(d) <=> Below5(Abs(FourWPlus(d) - n * (n + 1)), 3 * SquaredRanks(d))
  BY <1>8 DEF SignificantByDefinition
<1> QED
  BY <1>10, <1>11, <1>12, <1>13
\* The sign of the median is the one of the definition, for any number of deltas.
LEMMA MedianIsExact ==
    ASSUME NEW deltas \in Seq(Int), deltas # <<>>, NEW P, NEW d, NEW b, DOMAIN d = P,
           Enumerates(b, Len(deltas), P), \A k \in DOMAIN deltas : deltas[k] = d[b[k]]
    PROVE  TwiceMedian(deltas) > 0 <=> MedianSlower(d)
<1> DEFINE n == Len(deltas)
           s == ByValue(deltas)
           A == {k \in 1..n : s[k] <= 0}
           m == Cardinality(A)
           slower == {p \in P : d[p] > 0}
           rest == P \ slower
<1>1. n \in Nat /\ n > 0 /\ DOMAIN deltas = 1..n /\ Enumerates(b, n, P)
  OBVIOUS
<1>2. PICK o : /\ Enumerates(o, n, 1..n)
               /\ s = [k \in 1..n |-> deltas[o[k]]]
               /\ s \in Seq(Int) /\ Len(s) = n
               /\ \A i, j \in 1..n : i < j => s[i] <= s[j]
  BY SortedByValue
<1>3. TwiceMedian(deltas) = s[(n + 1) \div 2] + s[(n + 2) \div 2]
  BY <1>2 DEF TwiceMedian
<1> DEFINE c == [k \in 1..n |-> b[o[k]]]
<1>4. Enumerates(c, n, P)
  <2>1. c \in [1..n -> P]
    BY <1>1, <1>2 DEF Enumerates
  <2>2. ASSUME NEW i \in 1..n, NEW j \in 1..n, c[i] = c[j] PROVE i = j
    <3>1. b[o[i]] = b[o[j]] /\ o[i] \in 1..n /\ o[j] \in 1..n
      BY <1>2, <2>2 DEF Enumerates
    <3>2. \A k, l \in 1..n : b[k] = b[l] => k = l
      BY <1>1 DEF Enumerates
    <3>3. o[i] = o[j]
      BY <3>1, <3>2
    <3> QED BY <1>2, <3>3 DEF Enumerates
  <2>3. ASSUME NEW x \in P PROVE \E i \in 1..n : c[i] = x
    <3>1. PICK k \in 1..n : b[k] = x
      BY <1>1 DEF Enumerates
    <3>2. PICK i \in 1..n : o[i] = k
      BY <1>2 DEF Enumerates
    <3> QED BY <3>1, <3>2
  <2> HIDE DEF c, n
  <2> QED BY <2>1, <2>2, <2>3 DEF Enumerates
<1>5. \A k \in 1..n : c[k] \in P /\ s[k] = d[c[k]] /\ s[k] \in Int
  <2>1. \A k \in 1..n : o[k] \in 1..n /\ c[k] = b[o[k]] /\ c[k] \in P
    BY <1>2, <1>4 DEF Enumerates
  <2> HIDE DEF c, s, n
  <2> QED BY <1>1, <1>2, <2>1
<1> HIDE DEF c, s, n
<1>6. A = 1..m /\ m \in 0..n
  <2>1. A \in SUBSET (1..n)
    OBVIOUS
  <2>2. \A i \in A : \A j \in 1..n : j < i => j \in A
    <3> SUFFICES ASSUME NEW i \in A, NEW j \in 1..n, j < i PROVE j \in A
      OBVIOUS
    <3>1. i \in 1..n /\ s[i] <= 0 /\ s[j] <= s[i]
      BY <1>2
    <3> QED BY <1>5, <3>1
  <2> HIDE DEF A
  <2> QED BY <1>1, <2>1, <2>2, Segment
<1>7. \A k \in 1..n : (k <= m => s[k] <= 0) /\ (k > m => s[k] > 0)
  <2> SUFFICES ASSUME NEW k \in 1..n PROVE (k <= m => s[k] <= 0) /\ (k > m => s[k] > 0)
    OBVIOUS
  <2>1. k \in A <=> s[k] <= 0
    OBVIOUS
  <2> HIDE DEF A, m
  <2>2. k \in A <=> k <= m
    BY <1>1, <1>6
  <2> QED BY <1>1, <1>5, <1>6, <2>1, <2>2
<1> HIDE DEF A, m
<1>8. m \in Int /\ n \in Int /\ 0 <= m /\ m <= n /\ \A k \in m + 1..n : k \in 1..n /\ k > m
  BY <1>1, <1>6
<1>9. IsFiniteSet(P) /\ Cardinality(P) = n /\ Cardinality(slower) = n - m
  <2>1. Cardinality(slower) = Cardinality(m + 1..n)
    <3>1. \A i \in 1..n : c[i] \in slower <=> i \in m + 1..n
      BY <1>5, <1>7, <1>8
    <3>2. m + 1..n \in SUBSET (1..n) /\ slower \in SUBSET P
      BY <1>8
    <3> DEFINE B == m + 1..n
    <3>3. /\ B \in SUBSET (1..n) /\ n \in Nat /\ Enumerates(c, n, P)
          /\ \A i \in 1..n : c[i] \in slower <=> i \in B
      BY <1>1, <1>4, <3>1, <3>2
    <3> HIDE DEF slower, B
    <3>4. Cardinality(slower) = Cardinality(B)
      BY <3>2, <3>3, CountedByNumber
    <3> QED BY <3>4 DEF B
  <2>2. Cardinality(m + 1..n) = n - m
    <3>1. m + 1 \in Int /\ (m + 1 > n => n - m = 0) /\ n - (m + 1) + 1 = n - m
      BY <1>8
    <3> QED BY <1>8, <3>1, FS_Interval
  <2> QED BY <1>1, <2>1, <2>2, EnumeratedSize
<1>10. MedianSlower(d) <=>
          \/ 2 * (n - m) > n
          \/ 2 * (n - m) = n /\ \E x \in rest : \A y \in slower : d[x] + d[y] > 0
  BY <1>9 DEF MedianSlower
<1> DEFINE h == (n + 1) \div 2
           g == (n + 2) \div 2
<1>11. /\ h \in 1..n /\ g \in 1..n
       /\ 2 * h <= n + 1 /\ n <= 2 * h /\ 2 * g <= n + 2 /\ n + 1 <= 2 * g
  BY <1>1
<1>12. TwiceMedian(deltas) = s[h] + s[g]
  BY <1>3
<1> HIDE DEF h, g
<1>13. s[h] \in Int /\ s[g] \in Int
  BY <1>5, <1>11
<1>14. CASE 2 * m < n
  <2>1. h > m /\ g > m
    BY <1>8, <1>11, <1>14
  <2>2. s[h] > 0 /\ s[g] > 0
    BY <1>7, <1>11, <2>1
  <2>3. 2 * (n - m) > n
    BY <1>8, <1>14
  <2> QED BY <1>10, <1>12, <1>13, <2>2, <2>3
<1>15. CASE 2 * m > n
  <2>1. h <= m /\ g <= m
    BY <1>8, <1>11, <1>15
  <2>2. s[h] <= 0 /\ s[g] <= 0
    BY <1>7, <1>11, <2>1
  <2>3. ~(2 * (n - m) > n) /\ 2 * (n - m) # n
    BY <1>8, <1>15
  <2> QED BY <1>10, <1>12, <1>13, <2>2, <2>3
<1>16. CASE 2 * m = n
  <2>1. h = m /\ g = m + 1
    BY <1>8, <1>11, <1>16
  <2>2. ~(2 * (n - m) > n) /\ 2 * (n - m) = n
    BY <1>8, <1>16
  <2>3. s[h] <= 0 /\ s[g] > 0
    BY <1>7, <1>8, <1>11, <2>1
  <2>4. c[h] \in rest /\ d[c[h]] = s[h] /\ c[g] \in slower /\ d[c[g]] = s[g]
    BY <1>5, <1>11, <1>13, <2>3
  <2>5. ASSUME s[h] + s[g] > 0 PROVE \E x \in rest : \A y \in slower : d[x] + d[y] > 0
    <3>1. ASSUME NEW y \in slower PROVE d[c[h]] + d[y] > 0
      <4>1. y \in P /\ d[y] > 0
        OBVIOUS
      <4>2. PICK j \in 1..n : c[j] = y
        BY <1>4, <4>1 DEF Enumerates
      <4>3. s[j] = d[y] /\ s[j] \in Int /\ j > m
        BY <1>5, <1>7, <1>8, <4>1, <4>2
      <4>4. s[g] <= s[j]
        <5>1. j = g \/ g < j
          BY <1>8, <1>11, <2>1, <4>3
        <5> QED BY <1>2, <1>11, <1>13, <5>1
      <4> QED BY <1>13, <2>4, <2>5, <4>3, <4>4
    <3> QED BY <2>4, <3>1
  <2>6. ASSUME NEW x \in rest, \A y \in slower : d[x] + d[y] > 0 PROVE s[h] + s[g] > 0
    <3>1. x \in P /\ ~(d[x] > 0)
      OBVIOUS
    <3>2. PICK j \in 1..n : c[j] = x
      BY <1>4, <3>1 DEF Enumerates
    <3>3. s[j] = d[x] /\ s[j] \in Int /\ j <= m
      BY <1>5, <1>7, <1>8, <3>1, <3>2
    <3>4. s[j] <= s[h]
      <4>1. j = h \/ j < h
        BY <1>8, <1>11, <2>1, <3>3
      <4> QED BY <1>2, <1>11, <1>13, <4>1
    <3>5. d[x] + d[c[g]] > 0
      BY <2>4, <2>6
    <3> QED BY <1>13, <2>4, <3>3, <3>4, <3>5
  <2> HIDE DEF slower, rest
  <2> QED BY <1>10, <1>12, <2>2, <2>5, <2>6
<1> QED
  BY <1>8, <1>14, <1>15, <1>16
-----------------------------------------------------------------------------
\* Each pair of the two streams is one row of the list the gate compares.
LEMMA PairedOnce ==
    ASSUME jsonl, LogTypes, RowsOnce(log[1])
    PROVE  \A i, j \in DOMAIN Paired : Paired[i].row = Paired[j].row => i = j
<1> DEFINE s == log[1]
           T == Results(s)
           K == Kept(s, T)
           S == {l \in ToSet(K) : Base(l) > 0 /\ l.row \in WholeRows(2) /\ New(l) # Failed}
           P == Kept(K, S)
<1>1. s \in Seq(Stream!Line)
  BY DEF LogTypes
<1>2. Paired = P
  <2>1. Loaded(1) = K /\ {l.row : l \in ToSet(Loaded(2))} = WholeRows(2)
    BY LoadedLines DEF Loaded
  <2> QED BY <2>1 DEF Paired
<1>3. RowsOnce(s)
  OBVIOUS
<1>4. \A l \in T : l.what = "row"
  BY DEF Results
<1> HIDE DEF s, T
<1>5. /\ K \in Seq(Stream!Line)
      /\ \A i \in DOMAIN K : \E n \in DOMAIN s : K[i] = s[n] /\ s[n] \in T
      /\ \A i, j \in DOMAIN K : i < j =>
             \E m, n \in DOMAIN s : m < n /\ K[i] = s[m] /\ K[j] = s[n]
  BY <1>1, KeptInOrder
<1> HIDE DEF K, S
<1>6. /\ P \in Seq(Stream!Line)
      /\ \A i, j \in DOMAIN P : i < j =>
             \E m, n \in DOMAIN K : m < n /\ P[i] = K[m] /\ P[j] = K[n]
  BY <1>5, KeptInOrder
<1> HIDE DEF P
<1>7. DOMAIN s \subseteq Int /\ DOMAIN P \subseteq Int
  <2>1. DOMAIN s = 1..Len(s) /\ DOMAIN P = 1..Len(P)
    BY <1>1, <1>6
  <2> QED BY <2>1
<1>8. ASSUME NEW i \in DOMAIN P, NEW j \in DOMAIN P, i < j PROVE P[i].row # P[j].row
  <2>1. PICK m \in DOMAIN K, n \in DOMAIN K : m < n /\ P[i] = K[m] /\ P[j] = K[n]
    BY <1>6, <1>8
  <2>2. PICK p \in DOMAIN s, q \in DOMAIN s : p < q /\ K[m] = s[p] /\ K[n] = s[q]
    BY <1>5, <2>1
  <2>3. s[p].what = "row" /\ s[q].what = "row"
    BY <1>4, <1>5, <2>2
  <2>4. p # q
    BY <1>7, <2>2
  <2> QED BY <1>3, <2>1, <2>2, <2>3, <2>4 DEF RowsOnce
<1>9. ASSUME NEW i \in DOMAIN P, NEW j \in DOMAIN P, P[i].row = P[j].row PROVE i = j
  <2>1. ~(i < j) /\ ~(j < i)
    BY <1>8, <1>9
  <2> QED BY <1>7, <2>1
<1> QED
  BY <1>2, <1>9

\* The rank test and the median of the gate are those of the pairs' changes.
LEMMA TestOfPairs ==
    ASSUME jsonl, LogTypes, RowsOnce(log[1]), RowsAmong(log[1], Measured),
           effect \in [Measured -> Effects]
    PROVE  /\ Significant(Deltas) <=> SignificantByDefinition(Change)
           /\ Pairs # {} => (TwiceMedian(Deltas) > 0 <=> MedianSlower(Change))
<1> DEFINE n == Len(Paired)
           b == [k \in 1..n |-> Paired[k].row]
<1>1. Paired \in Seq(Stream!Line) /\ Pairs = {l.row : l \in ToSet(Paired)}
  BY PairedLines, PairsAreRows
<1>2. DOMAIN Paired = 1..n /\ n \in Nat
  BY <1>1
<1>3. Enumerates(b, n, Pairs)
  <2>1. \A k \in 1..n : b[k] \in Pairs
    BY <1>1, <1>2 DEF ToSet
  <2>2. \A i, j \in 1..n : b[i] = b[j] => i = j
    BY <1>2, PairedOnce
  <2>3. \A x \in Pairs : \E i \in 1..n : b[i] = x
    BY <1>1, <1>2 DEF ToSet
  <2>4. b \in [1..n -> Pairs]
    BY <2>1
  <2> HIDE DEF b, n
  <2> QED BY <2>2, <2>3, <2>4 DEF Enumerates
<1>4. \A p \in Pairs : Change[p] = effect[p][2] - effect[p][1]
  BY DEF Change
<1>5. \A k \in 1..n : b[k] \in Pairs
  BY <1>1, <1>2 DEF ToSet
<1>6. \A p \in Pairs : effect[p][1] \in Int /\ effect[p][2] \in Int
  <2> SUFFICES ASSUME NEW p \in Pairs PROVE effect[p][1] \in Int /\ effect[p][2] \in Int
    OBVIOUS
  <2>1. PICK i \in DOMAIN log[1] : log[1][i].what = "row" /\ log[1][i].row = p
    BY DEF Pairs, WholeRows, ToSet
  <2>2. p \in Measured
    BY <2>1 DEF RowsAmong
  <2>3. effect[p] \in Effects /\ Effects \subseteq (Nat \cup {-1}) \X (Nat \cup {-1})
    BY <2>2, GateAssumption DEF Failed
  <2> QED BY <2>3
<1>7. \A k \in 1..n : New(Paired[k]) - Base(Paired[k]) = Change[b[k]] /\ Change[b[k]] \in Int
  <2>1. \A k \in 1..n : New(Paired[k]) = effect[b[k]][2] /\ Base(Paired[k]) = effect[b[k]][1]
    BY DEF New, Base
  <2> HIDE DEF b
  <2> QED BY <1>4, <1>5, <1>6, <2>1
<1>8. Deltas = [k \in 1..n |-> New(Paired[k]) - Base(Paired[k])]
  BY <1>2 DEF Deltas
<1>9. \A k \in 1..n : Deltas[k] = Change[b[k]] /\ Deltas[k] \in Int
  <2> HIDE DEF b
  <2> QED BY <1>7, <1>8
<1>10. Deltas \in Seq(Int) /\ DOMAIN Deltas = 1..n /\ Len(Deltas) = n
  <2> HIDE DEF b
  <2>1. DOMAIN Deltas = 1..n
    BY <1>8
  <2>2. Deltas \in [1..n -> Int]
    BY <1>8, <1>9
  <2> HIDE DEF n
  <2> QED BY <1>2, <2>1, <2>2
<1>11. DOMAIN Change = Pairs
  BY DEF Change
<1>12. Enumerates(b, Len(Deltas), Pairs) /\ \A k \in DOMAIN Deltas : Deltas[k] = Change[b[k]]
  BY <1>3, <1>9, <1>10
<1>13. Pairs # {} => Deltas # <<>>
  <2>1. Pairs # {} => n # 0
    BY <1>1, <1>2 DEF ToSet
  <2> HIDE DEF n
  <2> QED BY <1>10, <2>1
<1> HIDE DEF b, n
<1>14. Significant(Deltas) <=> SignificantByDefinition(Change)
  BY <1>10, <1>11, <1>12, RankTestIsExact
<1>15. Pairs # {} => (TwiceMedian(Deltas) > 0 <=> MedianSlower(Change))
  BY <1>10, <1>11, <1>12, <1>13, MedianIsExact
<1> QED
  BY <1>14, <1>15

\* For every corpus, every list of different thread counts, every failure and
\* every file left out: the gate passes two streams exactly when both have a
\* header, a row was measured in both, none got slower by more than the ceiling,
\* and the changes are not both significant by the definition of the two-sided
\* signed-rank test and slower in their median row.
THEOREM GateExactHolds == Spec => []GateExact
<1>1. GateInv /\ TellInv /\ GateReadsPairs => GateExact
  <2> SUFFICES ASSUME GateInv, TellInv, GateReadsPairs,
                      jsonl, IsInjective(Counts), verdict # "none"
               PROVE  verdict = "0" <=>
                        /\ \A r \in {1, 2} : \E l \in ToSet(log[r]) : l.what = "run" /\ l.whole
                        /\ Pairs # {} /\ (\A p \in Pairs : ~Over5(p))
                        /\ ~(SignificantByDefinition(Change) /\ MedianSlower(Change))
    BY DEF GateExact
  <2>1. LogTypes /\ run = 3 /\ DOMAIN effect = Measured
        /\ (effect = <<>> \/ effect \in [Measured -> Effects])
    BY DEF GateInv, TellInv, Stages
  <2>2. effect \in [Measured -> Effects]
    <3>1. CASE effect = <<>>
      <4>1. Measured = {}
        BY <2>1, <3>1
      <4> QED BY <2>1, <4>1
    <3> QED BY <2>1, <3>1
  <2>3. Leaves(log[1], RowsUpTo(1, Len(Counts)))
    BY <2>1 DEF TellInv, LogsTell
  <2>4. RowsUpTo(1, Len(Counts)) \subseteq Measured
    <3>1. Counts \in Seq(Nat \ {0})
      BY GateAssumption
    <3> QED BY <3>1 DEF RowsUpTo, Measured, ToSet
  <2>5. RowsOnce(log[1]) /\ RowsAmong(log[1], Measured)
    BY <2>3, <2>4 DEF Leaves, RowsAmong
  <2>6. /\ Significant(Deltas) <=> SignificantByDefinition(Change)
        /\ Pairs # {} => (TwiceMedian(Deltas) > 0 <=> MedianSlower(Change))
    BY <2>1, <2>2, <2>5, TestOfPairs
  <2> QED BY <2>6 DEF GateReadsPairs
<1> QED
  BY <1>1, GateInvariant, PipelineInvariant, GateReadsPairsHolds, PTL
===============================================================================
