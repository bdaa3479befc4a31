----------------------------- MODULE ScaleRunProofs -----------------------------
(***************************************************************************)
(* The scale track's logs and its gate, for every corpus, list of          *)
(* decoders, budget and peak, and wherever either run is killed.           *)
(***************************************************************************)
EXTENDS ScaleRun, FiniteSetTheorems, TLAPS

Logs == {"base", "new"}
NFiles == Cardinality(Files)
Kinds == {"none", "measured", "failed", "unreadable", "overrun", "crashed"}
Lines == [type : {"run", "result", "aggregate", "torn"}, pair : Pairs \cup {<<>>},
          status : {"none", "measured", "error", "oom"}, kb : Nat]
Fates == [kind : Kinds, kb : Nat]
AtBench == {"bench", "file_loop", "aggregate", "report"}
Ended == {"done", "dead"}

\* Types; the position is inside the two loops where the script uses it.
TypeOK ==
    /\ order \in [1..NFiles -> Files]
    /\ \A f, g \in 1..NFiles : order[f] = order[g] => f = g
    /\ turn \in 1..Len(Runs)
    /\ file \in 1..NFiles + 1 /\ dec \in 1..Len(Decoders) + 1
    /\ pc \in {"header", "file", "invoke", "done", "dead"} \cup AtBench
    /\ pc \in AtBench => file <= NFiles /\ dec <= Len(Decoders)
    /\ pc = "invoke" => file <= NFiles
    /\ out \in Seq(Lines) /\ rc \in 0..255
    /\ log \in [Logs -> Seq(Lines)]
    /\ fate \in [Logs -> [Pairs -> Fates]]
    /\ printed \in [Logs -> SUBSET Pairs]
    /\ verdict \in {"none", "0", "1"}

\* What the running bench has written, and what it will be blamed for.
ResultOf(p, f) == Line("result", p, StatusOf(f.kind), f.kb)
OutTells ==
    LET f == fate[Run][Pair]
        row == ResultOf(Pair, f)
    IN  /\ pc = "bench" => out = <<>>
        /\ pc = "file_loop" => out = <<Plain("run")>>
        /\ pc = "aggregate" \/ (pc = "report" /\ rc = 0) =>
               /\ f.kind \in {"measured", "failed", "unreadable"}
               /\ f.kind = "failed" => f.kb = 0
        /\ pc = "aggregate" =>
               out = IF f.kind = "unreadable" THEN <<Plain("run")>>
                     ELSE <<Plain("run"), row>>
        /\ pc = "report" /\ rc = 0 =>
               out = IF f.kind = "unreadable" THEN <<Plain("run"), Plain("aggregate")>>
                     ELSE <<Plain("run"), row, Plain("aggregate")>>
        /\ pc = "report" /\ rc # 0 =>
               f.kind = IF rc \in OomClass THEN "overrun" ELSE "crashed"

\* The pairs of the run being made whose report is written come before the
\* position, and a run not yet begun has neither lines nor pairs.
Visited(p) ==
    \E f \in 1..NFiles, d \in 1..Len(Decoders) :
        /\ p = <<order[f], Decoders[d]>>
        /\ f < file \/ (f = file /\ d < dec /\ pc # "file")
Progress ==
    /\ pc \notin Ended => \A p \in printed[Run] : Visited(p)
    /\ pc = "header" => log[Run] = <<>> /\ printed[Run] = {}
    /\ turn = 1 => log["new"] = <<>> /\ printed["new"] = {}

\* The first line of a log is its header, or was cut short.
HeaderFirst(lines) ==
    \A i \in DOMAIN lines : lines[i].type = "run" <=> i = 1 /\ lines[1] # Torn
Headed ==
    /\ \A r \in Logs : HeaderFirst(log[r])
    /\ pc \notin {"header", "dead"} => log[Run] # <<>>

\* A result line is that of a pair that got to report, and a pair that did has
\* the one its fate calls for.
ResultsOf(lines, p) ==
    {i \in DOMAIN lines : lines[i].type = "result" /\ lines[i].pair = p}
TellsFate(line, f) ==
    line.status = StatusOf(f.kind) /\ (f.kind = "measured" => line.kb = f.kb)
AccountsFor(lines, pairs, fates) ==
    /\ \A i \in DOMAIN lines : lines[i].type = "result" => lines[i].pair \in pairs
    /\ \A p \in pairs :
         IF fates[p].kind = "unreadable" THEN ResultsOf(lines, p) = {}
         ELSE \E i \in DOMAIN lines :
                 ResultsOf(lines, p) = {i} /\ TellsFate(lines[i], fates[p])
Accounted == \A r \in Logs : AccountsFor(log[r], printed[r], fate[r])

\* The gate's answer is that of the logs it has read.
Answered ==
    verdict # "none" => turn = 2 /\ pc \in Ended /\ verdict = ExitCode

\* The inductive invariant.
ScaleInv == TypeOK /\ OutTells /\ Progress /\ Headed /\ Accounted /\ Answered
-----------------------------------------------------------------------------
\* The run being made has a log of its own.
LEMMA RunIsLog ==
    ASSUME TypeOK
    PROVE  /\ Run \in Logs /\ Len(Runs) \in {1, 2} /\ turn \in {1, 2}
           /\ turn = 1 => Run = "base"
           /\ turn = 2 => Run = "new" /\ Len(Runs) = 2
<1>1. CASE Runs = <<"base">>
  <2>1. Len(Runs) = 1 /\ Runs[1] = "base"
    BY <1>1
  <2> QED BY <2>1 DEF TypeOK, Run, Logs
<1>2. CASE Runs = <<"base", "new">>
  <2>1. Len(Runs) = 2 /\ Runs[1] = "base" /\ Runs[2] = "new"
    BY <1>2
  <2> QED BY <2>1 DEF TypeOK, Run, Logs
<1> QED
  BY <1>1, <1>2, ScaleAssumption

\* The position names a pair that has not got to report yet.
LEMMA PairIsNew ==
    ASSUME TypeOK, Progress, pc \in AtBench
    PROVE  Run \in Logs /\ Pair \in Pairs /\ Pair \notin printed[Run]
<1>1. Run \in Logs
  BY RunIsLog
<1>2. /\ file \in 1..NFiles /\ dec \in 1..Len(Decoders) /\ NFiles \in Nat
      /\ DOMAIN Decoders = 1..Len(Decoders)
  BY ScaleAssumption, FS_CardinalityType DEF TypeOK, NFiles
<1>3. Pair \in Pairs
  BY <1>2 DEF TypeOK, Pair, Pairs, ToSet
<1>4. ASSUME Pair \in printed[Run] PROVE FALSE
  <2>1. Visited(Pair)
    BY <1>4 DEF Progress, AtBench, Ended
  <2>2. PICK f \in 1..NFiles, d \in 1..Len(Decoders) :
            /\ Pair = <<order[f], Decoders[d]>>
            /\ f < file \/ (f = file /\ d < dec)
    BY <2>1 DEF Visited
  <2>3. order[f] = order[file] /\ Decoders[d] = Decoders[dec]
    BY <2>2 DEF Pair
  <2>4. f = file
    BY <1>2, <2>3 DEF TypeOK
  <2>5. d = dec
    BY <1>2, <2>3, ScaleAssumption DEF IsInjective
  <2> QED BY <1>2, <2>2, <2>4, <2>5
<1> QED
  BY <1>1, <1>3, <1>4

\* A line appended to nothing is alone.
LEMMA AppendOne ==
    ASSUME NEW a \in Lines
    PROVE  Append(<<>>, a) = <<a>> /\ <<a>> \in Seq(Lines)
OBVIOUS

\* Two lines appended make up the pair of them.
LEMMA AppendTwo ==
    ASSUME NEW a \in Lines, NEW b \in Lines
    PROVE  Append(<<a>>, b) = <<a, b>> /\ <<a, b>> \in Seq(Lines)
<1> DEFINE t == Append(<<a>>, b)
<1>1. <<a>> \in Seq(Lines) /\ Len(<<a>>) = 1
  OBVIOUS
<1>2. t \in Seq(Lines) /\ Len(t) = 2 /\ t[1] = a /\ t[2] = b
  BY <1>1
<1> HIDE DEF t
<1>3. t = <<a, b>>
  BY <1>2
<1> QED
  BY <1>2, <1>3 DEF t

\* Three lines appended make up the triple of them.
LEMMA AppendThree ==
    ASSUME NEW a \in Lines, NEW b \in Lines, NEW c \in Lines
    PROVE  Append(<<a, b>>, c) = <<a, b, c>> /\ <<a, b, c>> \in Seq(Lines)
<1> DEFINE t == Append(<<a, b>>, c)
<1>1. <<a, b>> \in Seq(Lines) /\ Len(<<a, b>>) = 2
  OBVIOUS
<1>2. t \in Seq(Lines) /\ Len(t) = 3 /\ t[1] = a /\ t[2] = b /\ t[3] = c
  BY <1>1
<1> HIDE DEF t
<1>3. t = <<a, b, c>>
  BY <1>2
<1> QED
  BY <1>2, <1>3 DEF t

\* The header is dropped from the two lines of a bench that skipped its file.
LEMMA FilterTwo ==
    ASSUME NEW h \in Lines, NEW a \in Lines, h.type = "run", a.type # "run"
    PROVE  WithoutHeader(<<h, a>>) = <<a>>
<1> DEFINE s == <<h, a>>
           Step(g) == [n \in 0..Len(s) |->
                          IF n = 0 THEN <<>>
                          ELSE IF s[n].type = "run" THEN g[n - 1] ELSE Append(g[n - 1], s[n])]
           w == [n \in 0..2 |-> IF n = 2 THEN <<a>> ELSE <<>>]
           k == CHOOSE g : g = Step(g)
<1>1. Len(s) = 2 /\ s[1] = h /\ s[2] = a
  OBVIOUS
<1>2. Append(<<>>, a) = <<a>>
  BY AppendOne
<1>3. w = Step(w)
  BY <1>1, <1>2
<1>4. k = Step(k)
  BY <1>3
<1> HIDE DEF k
<1>5. k[0] = <<>> /\ k[1] = k[0] /\ k[2] = Append(k[1], a)
  BY <1>1, <1>4
<1>6. WithoutHeader(s) = k[2]
  BY <1>1 DEF WithoutHeader, k
<1> QED
  BY <1>2, <1>5, <1>6

\* The same of the three lines of one that did not.
LEMMA FilterThree ==
    ASSUME NEW h \in Lines, NEW b \in Lines, NEW a \in Lines,
           h.type = "run", b.type # "run", a.type # "run"
    PROVE  WithoutHeader(<<h, b, a>>) = <<b, a>>
<1> DEFINE s == <<h, b, a>>
           Step(g) == [n \in 0..Len(s) |->
                          IF n = 0 THEN <<>>
                          ELSE IF s[n].type = "run" THEN g[n - 1] ELSE Append(g[n - 1], s[n])]
           w == [n \in 0..3 |-> IF n = 3 THEN <<b, a>> ELSE IF n = 2 THEN <<b>> ELSE <<>>]
           k == CHOOSE g : g = Step(g)
<1>1. Len(s) = 3 /\ s[1] = h /\ s[2] = b /\ s[3] = a
  OBVIOUS
<1>2. Append(<<>>, b) = <<b>> /\ Append(<<b>>, a) = <<b, a>>
  BY AppendOne, AppendTwo
<1>3. w = Step(w)
  <2>1. w[0] = <<>> /\ w[1] = <<>> /\ w[2] = <<b>> /\ w[3] = <<b, a>>
    OBVIOUS
  <2>2. ASSUME NEW n \in 0..3 PROVE w[n] = Step(w)[n]
    <3>1. CASE n = 0
      BY <1>1, <2>1, <3>1
    <3>2. CASE n = 1
      BY <1>1, <2>1, <3>2
    <3>3. CASE n = 2
      BY <1>1, <1>2, <2>1, <3>3
    <3>4. CASE n = 3
      BY <1>1, <1>2, <2>1, <3>4
    <3> QED BY <3>1, <3>2, <3>3, <3>4
  <2> HIDE DEF s
  <2> QED BY <1>1, <2>2
<1>4. k = Step(k)
  BY <1>3
<1> HIDE DEF k
<1>5. k[0] = <<>> /\ k[1] = k[0] /\ k[2] = Append(k[1], b) /\ k[3] = Append(k[2], a)
  BY <1>1, <1>4
<1>6. WithoutHeader(s) = k[3]
  BY <1>1 DEF WithoutHeader, k
<1> QED
  BY <1>2, <1>5, <1>6

\* Lines that tell the fate of a pair: the first one does, unless the file was
\* skipped, and no other is a result.
Tells(new, p, f) ==
    /\ new \in Seq(Lines)
    /\ \A i \in DOMAIN new : new[i].type # "run"
    /\ \A i \in DOMAIN new : new[i].type = "result" <=> i = 1 /\ f.kind # "unreadable"
    /\ f.kind # "unreadable" =>
           /\ 1 \in DOMAIN new
           /\ new[1].pair = p /\ new[1].status = StatusOf(f.kind)
           /\ f.kind = "measured" => new[1].kb = f.kb

\* The budget of a file is a number.
LEMMA CapType ==
    ASSUME NEW f \in Files
    PROVE  CapMB(f) \in Nat
<1>1. Size[f] \in Nat /\ \A t \in 1..4 : MemMax[t] \in Nat
  BY ScaleAssumption
<1>2. MemMaxGFor(Size[f]) \in Nat
  BY <1>1 DEF MemMaxGFor
<1> QED
  BY <1>2 DEF CapMB

\* Of what the script writes about an invocation: one line tells its fate.
LEMMA ReportTells ==
    ASSUME TypeOK, OutTells, Progress, pc = "report"
    PROVE  /\ Tells(ReportLines, Pair, fate[Run][Pair])
           /\ Len(ReportLines) \in {1, 2}
           /\ Len(ReportLines) = 2 => fate[Run][Pair].kind # "unreadable"
<1> DEFINE f == fate[Run][Pair]
<1>1. Run \in Logs /\ Pair \in Pairs /\ order[file] \in Files /\ f \in Fates
  <2>1. Run \in Logs /\ Pair \in Pairs
    BY PairIsNew DEF AtBench
  <2>2. file \in 1..NFiles
    BY FS_CardinalityType, ScaleAssumption DEF TypeOK, AtBench, NFiles
  <2> QED BY <2>1, <2>2 DEF TypeOK
<1>2. Plain("run") \in Lines /\ Plain("aggregate") \in Lines
  BY DEF Plain, Line, Lines
<1>3. StatusOf(f.kind) \in {"measured", "oom", "error"}
  BY DEF StatusOf
<1>4. \A st \in {"measured", "oom", "error"}, kb \in Nat : Line("result", Pair, st, kb) \in Lines
  BY <1>1 DEF Line, Lines
<1>5. CASE rc = 0 /\ f.kind = "unreadable"
  <2>2. out = <<Plain("run"), Plain("aggregate")>>
    BY <1>5 DEF OutTells
  <2>3. ReportLines = <<Plain("aggregate")>>
    BY <1>2, <1>5, <2>2, FilterTwo DEF ReportLines, Plain, Line
  <2>4. /\ ReportLines \in Seq(Lines) /\ Len(ReportLines) = 1 /\ DOMAIN ReportLines = {1}
        /\ ReportLines[1].type = "aggregate"
    BY <1>2, <2>3 DEF Plain, Line
  <2> QED BY <1>5, <2>4 DEF Tells
<1>6. CASE rc = 0 /\ f.kind # "unreadable"
  <2> DEFINE l == ResultOf(Pair, f)
  <2>3. out = <<Plain("run"), l, Plain("aggregate")>>
    BY <1>6 DEF OutTells
  <2>2. l \in Lines /\ l.type = "result" /\ l.pair = Pair /\ l.kb = f.kb
        /\ l.status = StatusOf(f.kind)
    BY <1>1, <1>3, <1>4 DEF ResultOf, Line, Fates
  <2> HIDE DEF l
  <2>4. ReportLines = <<l, Plain("aggregate")>>
    BY <1>2, <1>6, <2>2, <2>3, FilterThree DEF ReportLines, Plain, Line
  <2>5. /\ ReportLines \in Seq(Lines) /\ Len(ReportLines) = 2 /\ DOMAIN ReportLines = {1, 2}
        /\ ReportLines[1] = l /\ ReportLines[2].type = "aggregate"
    BY <1>2, <2>2, <2>4 DEF Plain, Line
  <2> QED BY <1>6, <2>2, <2>5 DEF Tells
<1>7. CASE rc # 0
  <2> DEFINE l == Line("result", Pair, StatusOf(f.kind),
                       IF rc \in OomClass THEN CapMB(order[file]) ELSE 0)
  <2>1. f.kind = IF rc \in OomClass THEN "overrun" ELSE "crashed"
    BY <1>7 DEF OutTells
  <2>2. ReportLines = <<l>>
    BY <1>7, <2>1 DEF ReportLines, StatusOf
  <2>3. l \in Lines /\ l.type = "result" /\ l.pair = Pair /\ l.status = StatusOf(f.kind)
    BY <1>1, <1>3, <1>4, CapType DEF Line
  <2> HIDE DEF l
  <2>4. /\ ReportLines \in Seq(Lines) /\ Len(ReportLines) = 1 /\ DOMAIN ReportLines = {1}
        /\ ReportLines[1] = l
    BY <2>2, <2>3
  <2> QED BY <2>1, <2>3, <2>4 DEF Tells
<1> QED
  BY <1>5, <1>6, <1>7

\* The places of two sequences in their concatenation.
LEMMA Places ==
    ASSUME NEW S, NEW old \in Seq(S), NEW new \in Seq(S)
    PROVE  /\ old \o new \in Seq(S)
           /\ \A i \in DOMAIN old : i \in DOMAIN (old \o new) /\ (old \o new)[i] = old[i]
           /\ \A i \in DOMAIN new : /\ Len(old) + i \in DOMAIN (old \o new)
                                   /\ (old \o new)[Len(old) + i] = new[i]
           /\ \A i \in DOMAIN (old \o new) :
                  \/ i \in DOMAIN old
                  \/ i \notin DOMAIN old /\ i - Len(old) \in DOMAIN new
           /\ old # <<>> => (1 \in DOMAIN old /\ old \o new # <<>>)
<1> DEFINE s == old \o new
<1>1. s \in Seq(S) /\ Len(s) = Len(old) + Len(new) /\ Len(old) \in Nat /\ Len(new) \in Nat
  OBVIOUS
<1>2. DOMAIN s = 1..Len(s) /\ DOMAIN old = 1..Len(old) /\ DOMAIN new = 1..Len(new)
  BY <1>1
<1>3. \A i \in 1..Len(old) : s[i] = old[i]
  OBVIOUS
<1>4. \A i \in 1..Len(new) : s[Len(old) + i] = new[i]
  OBVIOUS
<1> HIDE DEF s
<1>5. old # <<>> => Len(old) # 0
  OBVIOUS
<1>6. Len(s) # 0 => s # <<>>
  OBVIOUS
<1> QED
  BY <1>1, <1>2, <1>3, <1>4, <1>5, <1>6 DEF s

\* Lines appended to a log that has its first one leave the header alone.
LEMMA HeaderStaysFirst ==
    ASSUME NEW old \in Seq(Lines), NEW new \in Seq(Lines), old # <<>>, HeaderFirst(old),
           \A i \in DOMAIN new : new[i].type # "run"
    PROVE  HeaderFirst(old \o new)
<1> DEFINE s == old \o new
<1>1. /\ 1 \in DOMAIN old
      /\ \A i \in DOMAIN old : i \in DOMAIN s /\ s[i] = old[i]
      /\ \A i \in DOMAIN new : Len(old) + i \in DOMAIN s /\ s[Len(old) + i] = new[i]
      /\ \A i \in DOMAIN s : i \in DOMAIN old \/ (i \notin DOMAIN old /\ i - Len(old) \in DOMAIN new)
      /\ (\A i \in DOMAIN s : i \in Nat) /\ Len(old) \in Nat
  BY Places
<1> HIDE DEF s
<1> SUFFICES ASSUME NEW i \in DOMAIN s PROVE s[i].type = "run" <=> i = 1 /\ s[1] # Torn
  BY DEF HeaderFirst, s
<1>2. CASE i \in DOMAIN old
  BY <1>1, <1>2 DEF HeaderFirst
<1>3. CASE i \notin DOMAIN old
  <2>1. i - Len(old) \in DOMAIN new /\ Len(old) + (i - Len(old)) = i /\ i # 1
    BY <1>1, <1>3
  <2> QED BY <1>1, <2>1
<1> QED
  BY <1>2, <1>3

\* Lines that are no results leave every pair accounted for.
LEMMA OthersAccount ==
    ASSUME NEW old \in Seq(Lines), NEW new \in Seq(Lines), NEW pairs, NEW fates,
           AccountsFor(old, pairs, fates), \A i \in DOMAIN new : new[i].type # "result"
    PROVE  AccountsFor(old \o new, pairs, fates)
<1> DEFINE s == old \o new
<1>1. /\ \A i \in DOMAIN old : i \in DOMAIN s /\ s[i] = old[i]
      /\ \A i \in DOMAIN new : Len(old) + i \in DOMAIN s /\ s[Len(old) + i] = new[i]
      /\ \A i \in DOMAIN s : i \in DOMAIN old \/ (i \notin DOMAIN old /\ i - Len(old) \in DOMAIN new)
      /\ (\A i \in DOMAIN s : i \in Nat) /\ Len(old) \in Nat
  BY Places
<1> HIDE DEF s
<1>2. \A i \in DOMAIN s : s[i].type = "result" => i \in DOMAIN old
  <2> SUFFICES ASSUME NEW i \in DOMAIN s, i \notin DOMAIN old PROVE s[i].type # "result"
    OBVIOUS
  <2>1. i - Len(old) \in DOMAIN new /\ Len(old) + (i - Len(old)) = i
    BY <1>1
  <2> QED BY <1>1, <2>1
<1>3. \A p \in pairs : ResultsOf(s, p) = ResultsOf(old, p)
  BY <1>1, <1>2 DEF ResultsOf
<1> QED
  BY <1>1, <1>2, <1>3 DEF AccountsFor, s

\* The lines that tell the fate of a pair that had none account for it too.
LEMMA ReportAccounts ==
    ASSUME NEW old \in Seq(Lines), NEW new, NEW pairs, NEW fates, NEW p, p \notin pairs,
           AccountsFor(old, pairs, fates), Tells(new, p, fates[p])
    PROVE  AccountsFor(old \o new, pairs \cup {p}, fates)
<1> DEFINE s == old \o new
           k == Len(old) + 1
<1>0. new \in Seq(Lines)
  BY DEF Tells
<1>1. /\ \A i \in DOMAIN old : i \in DOMAIN s /\ s[i] = old[i]
      /\ \A i \in DOMAIN new : Len(old) + i \in DOMAIN s /\ s[Len(old) + i] = new[i]
      /\ \A i \in DOMAIN s : i \in DOMAIN old \/ (i \notin DOMAIN old /\ i - Len(old) \in DOMAIN new)
      /\ (\A i \in DOMAIN s : i \in Nat) /\ Len(old) \in Nat
      /\ k \notin DOMAIN old
  BY <1>0, Places
<1> HIDE DEF s, k
<1>2. \A i \in DOMAIN s : s[i].type = "result" =>
          i \in DOMAIN old \/ (i = k /\ fates[p].kind # "unreadable")
  <2> SUFFICES ASSUME NEW i \in DOMAIN s, i \notin DOMAIN old, s[i].type = "result"
               PROVE  i = k /\ fates[p].kind # "unreadable"
    OBVIOUS
  <2>1. i - Len(old) \in DOMAIN new /\ Len(old) + (i - Len(old)) = i
    BY <1>1
  <2>2. i - Len(old) = 1 /\ fates[p].kind # "unreadable"
    BY <1>1, <2>1 DEF Tells
  <2> QED BY <1>1, <2>1, <2>2 DEF k
<1>3. fates[p].kind # "unreadable" =>
          k \in DOMAIN s /\ s[k].type = "result" /\ s[k].pair = p /\ TellsFate(s[k], fates[p])
  <2> SUFFICES ASSUME fates[p].kind # "unreadable"
               PROVE  k \in DOMAIN s /\ s[k].type = "result" /\ s[k].pair = p
                      /\ TellsFate(s[k], fates[p])
    OBVIOUS
  <2>1. 1 \in DOMAIN new
    BY DEF Tells
  <2>2. k \in DOMAIN s /\ s[k] = new[1]
    BY <1>1, <2>1 DEF k
  <2> QED BY <2>1, <2>2 DEF Tells, TellsFate
<1>4. \A i \in DOMAIN old : old[i].type = "result" => old[i].pair \in pairs
  BY DEF AccountsFor
<1>5. ASSUME NEW q \in pairs PROVE ResultsOf(s, q) = ResultsOf(old, q)
  <2>1. q # p
    OBVIOUS
  <2>2. \A i \in DOMAIN s : s[i].type = "result" /\ s[i].pair = q => i \in DOMAIN old
    BY <1>2, <1>3, <2>1
  <2> QED BY <1>1, <2>2 DEF ResultsOf
<1>6. ResultsOf(s, p) = IF fates[p].kind = "unreadable" THEN {} ELSE {k}
  <2>1. \A i \in DOMAIN s : s[i].type = "result" /\ s[i].pair = p => i \notin DOMAIN old
    BY <1>1, <1>4
  <2> QED BY <1>2, <1>3, <2>1 DEF ResultsOf
<1>7. \A i \in DOMAIN s : s[i].type = "result" => s[i].pair \in pairs \cup {p}
  BY <1>1, <1>2, <1>3, <1>4
<1>8. ASSUME NEW q \in pairs \cup {p}
      PROVE  IF fates[q].kind = "unreadable" THEN ResultsOf(s, q) = {}
             ELSE \E i \in DOMAIN s : ResultsOf(s, q) = {i} /\ TellsFate(s[i], fates[q])
  <2>1. CASE q = p
    BY <1>3, <1>6, <2>1
  <2>2. CASE q \in pairs
    BY <1>1, <1>5, <2>2 DEF AccountsFor
  <2> QED BY <2>1, <2>2
<1> QED
  BY <1>7, <1>8 DEF AccountsFor, s
-----------------------------------------------------------------------------
\* What a step does to the logs: nothing, the first line of one, or lines of
\* the invocation that has ended, which tell its fate or are no results.
FirstLine ==
    /\ pc = "header" /\ UNCHANGED <<printed, fate>>
    /\ \E l \in {Plain("run"), Torn} :
           /\ log' = [log EXCEPT ![Run] = Append(log[Run], l)]
           /\ l = Torn => pc' = "dead"
    /\ pc' \in {"file", "dead"}
FateTold ==
    /\ pc = "report" /\ UNCHANGED fate
    /\ \E new \in Seq(Lines) :
           /\ Tells(new, Pair, fate[Run][Pair])
           /\ log' = [log EXCEPT ![Run] = log[Run] \o new]
    /\ printed' = [printed EXCEPT ![Run] = printed[Run] \cup {Pair}]
CutShort ==
    /\ pc = "report" /\ UNCHANGED <<printed, fate>>
    /\ log' = [log EXCEPT ![Run] = log[Run] \o <<Torn>>]

\* A line cut short is a line, and neither a header nor a result.
LEMMA TornLine == Torn \in Lines /\ Torn.type = "torn"
BY DEF Torn, Plain, Line, Lines

LEMMA LogStep ==
    ASSUME TypeOK, OutTells, Progress, [Next]_vars
    PROVE  UNCHANGED <<log, printed>> \/ FirstLine \/ FateTold \/ CutShort
<1>1. CASE EmitHeader
  BY <1>1 DEF EmitHeader, Append1, FirstLine, history, Torn, Plain, Line
<1>2. CASE KillInHeader
  BY <1>2 DEF KillInHeader, Append1, FirstLine, history
<1>3. CASE Report
  <2>1. Tells(ReportLines, Pair, fate[Run][Pair])
    BY <1>3, ReportTells DEF Report
  <2>2. ReportLines \in Seq(Lines)
    BY <2>1 DEF Tells
  <2> QED BY <1>3, <2>1, <2>2 DEF Report, FateTold
<1>4. CASE KillInReport
  <2> DEFINE f == fate[Run][Pair]
             R == ReportLines
  <2>1. Tells(R, Pair, f) /\ Len(R) \in {1, 2} /\ (Len(R) = 2 => f.kind # "unreadable")
    BY <1>4, ReportTells DEF KillInReport
  <2>2. R \in Seq(Lines)
    BY <2>1 DEF Tells
  <2> HIDE DEF R
  <2>3. PICK n \in 0..Len(R) - 1 :
            /\ log' = [log EXCEPT ![Run] = log[Run] \o Append(SubSeq(R, 1, n), Torn)]
            /\ printed' = IF n = 0 THEN printed
                          ELSE [printed EXCEPT ![Run] = printed[Run] \cup {Pair}]
    BY <1>4 DEF KillInReport, R
  <2>4. pc = "report" /\ UNCHANGED fate
    BY <1>4 DEF KillInReport
  <2>5. CASE n = 0
    <3>1. SubSeq(R, 1, 0) = <<>>
      BY <2>2
    <3>2. Append(SubSeq(R, 1, n), Torn) = <<Torn>>
      BY <2>5, <3>1, TornLine, AppendOne
    <3> QED BY <2>3, <2>4, <2>5, <3>2 DEF CutShort
  <2>6. CASE n # 0
    <3>1. n = 1 /\ Len(R) = 2
      <4>1. ASSUME NEW m \in {1, 2}, n \in 0..m - 1 PROVE n = 1 /\ m = 2
        BY <2>6, <4>1
      <4> QED BY <2>1, <4>1
    <3> DEFINE t == SubSeq(R, 1, 1)
    <3>2. R[1] \in Lines /\ 1 \in DOMAIN R
      BY <2>2, <3>1
    <3>3. t = <<R[1]>>
      <4>1. t \in Seq(Lines) /\ Len(t) = 1 /\ t[1] = R[1]
        BY <2>2, <3>1
      <4> HIDE DEF t
      <4> QED BY <4>1
    <3> DEFINE new == <<R[1], Torn>>
    <3>4. Append(SubSeq(R, 1, n), Torn) = new
      BY <3>1, <3>2, <3>3, TornLine, AppendTwo
    <3>5. new \in Seq(Lines) /\ DOMAIN new = {1, 2} /\ new[1] = R[1] /\ new[2] = Torn
      BY <3>2, TornLine, AppendTwo
    <3> HIDE DEF new
    <3>6. Tells(new, Pair, f)
      BY <2>1, <3>1, <3>2, <3>5, TornLine DEF Tells
    <3> QED BY <2>3, <2>4, <2>6, <3>4, <3>5, <3>6 DEF FateTold
  <2> QED BY <2>5, <2>6
<1>5. CASE NextFile \/ Invoke \/ StatFails \/ KillBetween \/ NextRun \/ Compare
  BY <1>5 DEF NextFile, Invoke, StatFails, KillBetween, NextRun, Compare, history
<1>6. CASE Bench
  BY <1>6 DEF Bench, BenchHeader, BenchResult, BenchSkips, BenchExits, BenchDies, history
<1>7. CASE Over \/ UNCHANGED vars
  BY <1>7 DEF Over, vars
<1> QED
  BY <1>1, <1>2, <1>3, <1>4, <1>5, <1>6, <1>7 DEF Next, Orchestrate, Environment, Kill

\* The types of what the logs hold.
LEMMA LogTypes ==
    ASSUME TypeOK, Progress,
           UNCHANGED <<log, printed>> \/ FirstLine \/ FateTold \/ CutShort
    PROVE  log' \in [Logs -> Seq(Lines)] /\ printed' \in [Logs -> SUBSET Pairs]
<1>1. Run \in Logs /\ log[Run] \in Seq(Lines)
  BY RunIsLog DEF TypeOK
<1>2. CASE FirstLine
  <2>1. Plain("run") \in Lines
    BY DEF Plain, Line, Lines
  <2>2. \A l \in Lines : Append(log[Run], l) \in Seq(Lines)
    BY <1>1
  <2> QED BY <1>1, <1>2, <2>1, <2>2, TornLine DEF FirstLine, TypeOK
<1>3. CASE FateTold
  <2>1. \A new \in Seq(Lines) : log[Run] \o new \in Seq(Lines)
    BY <1>1
  <2>2. Pair \in Pairs
    BY <1>3, PairIsNew DEF FateTold, AtBench
  <2> QED BY <1>1, <1>3, <2>1, <2>2 DEF FateTold, TypeOK
<1>4. CASE CutShort
  <2>1. log[Run] \o <<Torn>> \in Seq(Lines)
    BY <1>1, TornLine
  <2> QED BY <1>1, <1>4, <2>1 DEF CutShort, TypeOK
<1> QED
  BY <1>2, <1>3, <1>4 DEF TypeOK

\* The corpus has as many places as files.
LEMMA OrderLength ==
    ASSUME TypeOK
    PROVE  Len(order) = NFiles /\ NFiles \in Nat
<1>1. NFiles \in Nat
  BY FS_CardinalityType, ScaleAssumption DEF NFiles
<1>2. order \in Seq(Files)
  BY <1>1 DEF TypeOK
<1> QED
  BY <1>1, <1>2 DEF TypeOK

\* An invocation's fate is noted down.
LEMMA DecidedType ==
    ASSUME TypeOK, Progress, pc \in AtBench, NEW f \in Fates, Decided(f)
    PROVE  /\ fate' \in [Logs -> [Pairs -> Fates]] /\ fate'[Run][Pair] = f
           /\ \A r \in Logs, p \in Pairs : <<r, p>> # <<Run, Pair>> => fate'[r][p] = fate[r][p]
<1>1. Run \in Logs /\ Pair \in Pairs
  BY PairIsNew
<1> QED
  BY <1>1 DEF TypeOK, Decided

\* Every step keeps the types.
LEMMA NextTypeOK ==
    ASSUME TypeOK, OutTells, Progress, [Next]_vars
    PROVE  TypeOK'
<1>0. log' \in [Logs -> Seq(Lines)] /\ printed' \in [Logs -> SUBSET Pairs]
  BY LogStep, LogTypes
<1>1. Len(order) = NFiles /\ NFiles \in Nat /\ Len(Decoders) \in Nat \ {0}
  BY OrderLength, ScaleAssumption
<1>2. Len(Runs) \in {1, 2} /\ turn \in {1, 2}
  BY RunIsLog
<1>3. \A l \in Lines : Append(out, l) \in Seq(Lines)
  BY DEF TypeOK
<1>4. Plain("run") \in Lines /\ Plain("aggregate") \in Lines
  BY DEF Plain, Line, Lines
<1> USE DEF TypeOK, loop, history, AtBench
<1>5. CASE EmitHeader \/ StatFails \/ Kill
  <2>1. UNCHANGED <<loop, out, rc, fate, verdict>> /\ pc' \in {"file", "dead"}
    BY <1>5 DEF EmitHeader, StatFails, Kill, KillBetween, KillInHeader, KillInReport
  <2> QED BY <1>0, <2>1
<1>6. CASE NextFile
  BY <1>0, <1>1, <1>6 DEF NextFile
<1>7. CASE Invoke
  <2>1. UNCHANGED <<order, turn, dec, rc, fate, verdict>> /\ pc = "invoke"
    BY <1>7 DEF Invoke
  <2>2. CASE dec > Len(Decoders)
    <3>1. file' = file + 1 /\ pc' = "file" /\ UNCHANGED out
      BY <1>7, <2>2 DEF Invoke
    <3> QED BY <1>0, <1>1, <2>1, <3>1
  <2>3. CASE ~(dec > Len(Decoders))
    <3>1. file' = file /\ pc' = "bench" /\ out' = <<>> /\ dec <= Len(Decoders)
      BY <1>1, <1>7, <2>3 DEF Invoke
    <3> QED BY <1>0, <1>1, <2>1, <3>1
  <2> QED BY <2>2, <2>3
<1>8. CASE Report
  BY <1>0, <1>1, <1>8 DEF Report
<1>9. CASE BenchHeader
  BY <1>0, <1>3, <1>4, <1>9 DEF BenchHeader
<1>10. CASE BenchResult
  <2>1. Pair \in Pairs /\ UNCHANGED <<loop, rc, verdict>> /\ pc' = "aggregate" /\ pc = "file_loop"
    BY <1>10, PairIsNew DEF BenchResult
  <2>2. PICK kb \in Nat, kind \in {"measured", "failed"}, st \in {"measured", "error"} :
            /\ out' = Append(out, Line("result", Pair, st, kb))
            /\ Decided([kind |-> kind, kb |-> kb])
    <3>1. CASE \E kb \in {p \in Peaks : p <= CapMB(order[file])} :
                 /\ out' = Append(out, Line("result", Pair, "measured", kb))
                 /\ Decided([kind |-> "measured", kb |-> kb])
      BY <3>1, ScaleAssumption
    <3>2. CASE /\ out' = Append(out, Line("result", Pair, "error", 0))
               /\ Decided([kind |-> "failed", kb |-> 0])
      BY <3>2
    <3> QED BY <1>10, <3>1, <3>2 DEF BenchResult
  <2>3. Line("result", Pair, st, kb) \in Lines /\ [kind |-> kind, kb |-> kb] \in Fates
    BY <2>1 DEF Line, Lines, Fates, Kinds
  <2>4. out' \in Seq(Lines)
    BY <1>3, <2>2, <2>3
  <2>5. fate' \in [Logs -> [Pairs -> Fates]]
    BY <2>1, <2>2, <2>3, DecidedType
  <2> QED BY <1>0, <2>1, <2>4, <2>5
<1>11. CASE BenchSkips
  <2>1. [kind |-> "unreadable", kb |-> 0] \in Fates
    BY DEF Fates, Kinds
  <2>2. fate' \in [Logs -> [Pairs -> Fates]]
    BY <1>11, <2>1, DecidedType DEF BenchSkips
  <2> QED BY <1>0, <1>11, <2>2 DEF BenchSkips
<1>12. CASE BenchExits
  BY <1>0, <1>3, <1>4, <1>12 DEF BenchExits
<1>13. CASE BenchDies
  <2> DEFINE f == [kind |-> IF rc' \in OomClass THEN "overrun" ELSE "crashed", kb |-> 0]
  <2>1. f \in Fates /\ rc' \in 0..255
    BY <1>13, ScaleAssumption DEF Fates, Kinds, BenchDies
  <2>2. fate' \in [Logs -> [Pairs -> Fates]]
    <3> HIDE DEF f
    <3>1. Decided(f) /\ pc \in AtBench
      BY <1>13 DEF BenchDies, f
    <3> QED BY <2>1, <3>1, DecidedType
  <2> QED BY <1>0, <1>13, <2>1, <2>2 DEF BenchDies
<1>14. CASE NextRun
  BY <1>0, <1>1, <1>2, <1>14 DEF NextRun
<1>15. CASE Compare
  BY <1>0, <1>15 DEF Compare, ExitCode
<1>16. CASE Over \/ UNCHANGED vars
  <2>1. UNCHANGED <<order, turn, file, dec, pc, out, rc, log, fate, printed, verdict>>
    BY <1>16 DEF Over, vars
  <2> QED BY <1>0, <2>1
<1> QED
  BY <1>5, <1>6, <1>7, <1>8, <1>9, <1>10, <1>11, <1>12, <1>13, <1>14, <1>15, <1>16
     DEF Next, Orchestrate, Bench, Environment

\* The bench's lines are those its steps call for.
LEMMA NextOutTells ==
    ASSUME TypeOK, OutTells, Progress, [Next]_vars
    PROVE  OutTells'
<1> DEFINE H == Plain("run")
           A == Plain("aggregate")
<1>1. H \in Lines /\ A \in Lines
  BY DEF Plain, Line, Lines
<1>2. UNCHANGED <<order, turn, file, dec>> => Run' = Run /\ Pair' = Pair
  BY DEF Run, Pair
<1>3. CASE BenchHeader
  <2>1. out = <<>> /\ out' = Append(out, H) /\ pc' = "file_loop"
    BY <1>3 DEF BenchHeader, OutTells
  <2> HIDE DEF H
  <2>2. out' = <<H>>
    BY <1>1, <2>1, AppendOne
  <2> QED BY <2>1, <2>2 DEF OutTells, H
<1>4. CASE BenchResult
  <2>1. /\ pc = "file_loop" /\ pc' = "aggregate" /\ out = <<H>>
        /\ Run' = Run /\ Pair' = Pair /\ Pair \in Pairs
    BY <1>2, <1>4, PairIsNew DEF BenchResult, OutTells, loop, AtBench
  <2>2. ASSUME NEW kb \in Nat, NEW kind \in {"measured", "failed"}, kind = "failed" => kb = 0,
               out' = Append(out, Line("result", Pair, StatusOf(kind), kb)),
               Decided([kind |-> kind, kb |-> kb])
        PROVE  OutTells'
    <3> DEFINE f == [kind |-> kind, kb |-> kb]
               l == ResultOf(Pair, f)
    <3>1. f \in Fates
      BY DEF Fates, Kinds
    <3>2. fate'[Run][Pair] = f
      <4> HIDE DEF f
      <4>1. Decided(f)
        BY <2>2 DEF f
      <4> QED BY <2>1, <3>1, <4>1, DecidedType DEF AtBench
    <3>3. l = Line("result", Pair, StatusOf(kind), kb)
      BY DEF ResultOf
    <3>4. l \in Lines
      BY <2>1, <3>3 DEF Line, Lines, StatusOf
    <3>5. out' = <<H, l>>
      <4> HIDE DEF l, H
      <4> QED BY <1>1, <2>1, <2>2, <3>3, <3>4, AppendTwo
    <3>6. f.kind = kind /\ f.kb = kb
      OBVIOUS
    <3> HIDE DEF f, l
    <3> QED BY <2>1, <2>2, <3>2, <3>5, <3>6 DEF OutTells, l
  <2>3. StatusOf("measured") = "measured" /\ StatusOf("failed") = "error"
    BY DEF StatusOf
  <2>4. CASE \E kb \in {p \in Peaks : p <= CapMB(order[file])} :
               /\ out' = Append(out, Line("result", Pair, "measured", kb))
               /\ Decided([kind |-> "measured", kb |-> kb])
    BY <2>2, <2>3, <2>4, ScaleAssumption
  <2>5. CASE /\ out' = Append(out, Line("result", Pair, "error", 0))
             /\ Decided([kind |-> "failed", kb |-> 0])
    BY <2>2, <2>3, <2>5
  <2> QED BY <1>4, <2>4, <2>5 DEF BenchResult
<1>5. CASE BenchSkips
  <2> DEFINE f == [kind |-> "unreadable", kb |-> 0]
  <2>1. /\ pc = "file_loop" /\ pc' = "aggregate" /\ out = <<H>> /\ out' = out
        /\ Run' = Run /\ Pair' = Pair
    BY <1>2, <1>5 DEF BenchSkips, OutTells, loop
  <2>2. f \in Fates /\ f.kind = "unreadable"
    BY DEF Fates, Kinds
  <2>3. fate'[Run][Pair] = f
    <3>1. Decided(f)
      BY <1>5 DEF BenchSkips
    <3> HIDE DEF f
    <3> QED BY <2>1, <2>2, <3>1, DecidedType DEF AtBench
  <2> HIDE DEF f
  <2> QED BY <2>1, <2>2, <2>3 DEF OutTells
<1>6. CASE BenchExits
  <2> DEFINE f == fate[Run][Pair]
             l == ResultOf(Pair, f)
  <2>1. /\ pc = "aggregate" /\ pc' = "report" /\ rc' = 0 /\ out' = Append(out, A)
        /\ Run' = Run /\ Pair' = Pair /\ fate' = fate
    BY <1>2, <1>6 DEF BenchExits, loop, history
  <2>2. f.kind \in {"measured", "failed", "unreadable"} /\ (f.kind = "failed" => f.kb = 0)
    BY <2>1 DEF OutTells
  <2>3. CASE f.kind = "unreadable"
    <3>1. out = <<H>>
      BY <2>1, <2>3 DEF OutTells
    <3>2. out' = <<H, A>>
      BY <1>1, <2>1, <3>1, AppendTwo
    <3> QED BY <2>1, <2>2, <2>3, <3>2 DEF OutTells
  <2>4. CASE f.kind # "unreadable"
    <3>1. out = <<H, l>>
      BY <2>1, <2>4 DEF OutTells
    <3>2. l \in Lines
      <4>1. Run \in Logs /\ Pair \in Pairs
        BY <2>1, PairIsNew DEF AtBench
      <4>2. f \in Fates
        BY <4>1 DEF TypeOK
      <4> QED BY <4>1, <4>2 DEF ResultOf, Line, Lines, StatusOf, Fates
    <3> HIDE DEF l, H, A
    <3>3. out' = <<H, l, A>>
      BY <1>1, <2>1, <3>1, <3>2, AppendThree
    <3> QED BY <2>1, <2>2, <2>4, <3>3 DEF OutTells, l, H, A
  <2> QED BY <2>3, <2>4
<1>7. CASE BenchDies
  <2> DEFINE f == [kind |-> IF rc' \in OomClass THEN "overrun" ELSE "crashed", kb |-> 0]
  <2>1. pc \in AtBench /\ pc' = "report" /\ rc' # 0 /\ Run' = Run /\ Pair' = Pair
    BY <1>2, <1>7, ScaleAssumption DEF BenchDies, loop, AtBench
  <2>2. f \in Fates
    BY DEF Fates, Kinds
  <2>3. f.kind = IF rc' \in OomClass THEN "overrun" ELSE "crashed"
    OBVIOUS
  <2>4. fate'[Run][Pair] = f
    <3>1. Decided(f)
      BY <1>7 DEF BenchDies
    <3> HIDE DEF f
    <3> QED BY <2>1, <2>2, <3>1, DecidedType
  <2> HIDE DEF f
  <2> QED BY <2>1, <2>3, <2>4 DEF OutTells
<1>8. CASE Invoke
  BY <1>8 DEF Invoke, OutTells
<1>9. CASE EmitHeader \/ NextFile \/ Report \/ StatFails \/ Kill \/ NextRun \/ Compare \/ Over
  <2>1. pc' \notin AtBench
    BY <1>9 DEF EmitHeader, NextFile, Report, StatFails, Kill, KillBetween, KillInHeader,
       KillInReport, NextRun, Compare, Over, vars, AtBench
  <2> QED BY <2>1 DEF OutTells, AtBench
<1>10. CASE UNCHANGED vars
  <2>1. UNCHANGED <<pc, out, rc, fate, Run, Pair>>
    BY <1>10 DEF vars, Run, Pair
  <2> QED BY <2>1 DEF OutTells
<1> QED
  BY <1>3, <1>4, <1>5, <1>6, <1>7, <1>8, <1>9, <1>10 DEF Next, Orchestrate, Bench, Environment

\* The loops only move forward, and a run starts with an empty log.
LEMMA NextProgress ==
    ASSUME TypeOK, OutTells, Progress, [Next]_vars
    PROVE  Progress'
<1>1. Len(order) = NFiles /\ NFiles \in Nat /\ Len(Decoders) \in Nat
  BY OrderLength, ScaleAssumption
<1>2. Run \in Logs /\ Len(Runs) \in {1, 2} /\ turn \in {1, 2} /\ (turn = 1 => Run = "base")
      /\ (turn = 2 => Run = "new" /\ Len(Runs) = 2)
  BY RunIsLog
<1>3. turn = 1 /\ turn' = 1 => log'["new"] = <<>> /\ printed'["new"] = {}
  <2> SUFFICES ASSUME turn = 1 PROVE log'["new"] = <<>> /\ printed'["new"] = {}
    OBVIOUS
  <2>1. log["new"] = <<>> /\ printed["new"] = {} /\ Run = "base"
    BY <1>2 DEF Progress
  <2>2. UNCHANGED <<log, printed>> \/ FirstLine \/ FateTold \/ CutShort
    BY LogStep
  <2> QED BY <2>1, <2>2 DEF FirstLine, FateTold, CutShort, TypeOK, Logs
<1>4. CASE EmitHeader
  <2>1. UNCHANGED <<turn, printed>> /\ pc = "header" /\ pc' = "file" /\ Run' = Run
    BY <1>4 DEF EmitHeader, loop, history, Run
  <2> QED BY <1>2, <1>3, <2>1 DEF Progress, Ended
<1>5. CASE NextFile
  <2>1. /\ UNCHANGED <<order, turn, file, printed, log>> /\ Run' = Run
        /\ pc = "file" /\ pc' \in {"done", "invoke"}
    BY <1>5 DEF NextFile, history, Run
  <2>2. \A p \in printed[Run] : Visited(p)'
    BY <2>1 DEF Progress, Ended, Visited
  <2> QED BY <1>2, <1>3, <2>1, <2>2 DEF Progress
<1>6. CASE Invoke
  <2>1. UNCHANGED <<order, turn, dec, printed, log>> /\ Run' = Run /\ pc = "invoke"
    BY <1>6 DEF Invoke, history, Run
  <2>2. \/ file' = file + 1 /\ pc' = "file"
        \/ file' = file /\ pc' = "bench"
    BY <1>6 DEF Invoke
  <2>3. ASSUME NEW p \in printed[Run] PROVE Visited(p)'
    <3>1. Visited(p)
      BY <2>1, <2>3 DEF Progress, Ended
    <3>2. PICK f \in 1..NFiles, d \in 1..Len(Decoders) :
              /\ p = <<order[f], Decoders[d]>>
              /\ f < file \/ (f = file /\ d < dec /\ pc # "file")
      BY <3>1 DEF Visited
    <3>3. f < file' \/ (f = file' /\ d < dec' /\ pc' # "file")
      BY <2>1, <2>2, <3>2 DEF TypeOK
    <3> QED BY <2>1, <3>2, <3>3 DEF Visited
  <2> QED BY <1>2, <1>3, <2>1, <2>2, <2>3 DEF Progress
<1>7. CASE Report
  <2>1. /\ UNCHANGED <<order, turn, file>> /\ dec' = dec + 1 /\ Run' = Run
        /\ pc = "report" /\ pc' = "invoke"
        /\ printed' = [printed EXCEPT ![Run] = printed[Run] \cup {Pair}]
    BY <1>7 DEF Report, Run
  <2>2. printed'[Run] = printed[Run] \cup {Pair}
    BY <1>2, <2>1 DEF TypeOK
  <2>3. file \in 1..NFiles /\ dec \in 1..Len(Decoders)
    BY <1>1, <2>1 DEF TypeOK, AtBench
  <2>4. ASSUME NEW p \in Pairs, p = Pair PROVE Visited(p)'
    <3>1. file < file' \/ (file = file' /\ dec < dec' /\ pc' # "file")
      BY <1>1, <2>1, <2>3
    <3>2. p = <<order'[file], Decoders[dec]>>
      BY <2>1, <2>4 DEF Pair
    <3> QED BY <2>3, <3>1, <3>2 DEF Visited
  <2>5. ASSUME NEW p \in printed[Run] PROVE Visited(p)'
    <3>1. Visited(p)
      BY <2>1, <2>5 DEF Progress, Ended
    <3>2. PICK f \in 1..NFiles, d \in 1..Len(Decoders) :
              /\ p = <<order[f], Decoders[d]>>
              /\ f < file \/ (f = file /\ d < dec /\ pc # "file")
      BY <3>1 DEF Visited
    <3>3. f < file' \/ (f = file' /\ d < dec' /\ pc' # "file")
      BY <2>1, <2>3, <3>2
    <3> QED BY <2>1, <3>2, <3>3 DEF Visited
  <2>6. Pair \in Pairs
    BY <2>1, PairIsNew DEF AtBench
  <2>7. \A p \in printed'[Run] : Visited(p)'
    BY <2>2, <2>4, <2>5, <2>6
  <2> QED BY <1>2, <1>3, <2>1, <2>7 DEF Progress
<1>8. CASE Bench
  <2>1. /\ UNCHANGED <<order, turn, file, dec, printed, log>> /\ Run' = Run
        /\ pc \in {"bench", "file_loop", "aggregate"}
        /\ pc' \in {"file_loop", "aggregate", "report"}
    BY <1>8 DEF Bench, BenchHeader, BenchResult, BenchSkips, BenchExits, BenchDies, loop,
       history, Run
  <2>2. \A p \in printed[Run] : Visited(p)'
    BY <2>1 DEF Progress, Ended, Visited
  <2> QED BY <1>2, <1>3, <2>1, <2>2 DEF Progress
<1>9. CASE NextRun
  <2>0. turn < Len(Runs) /\ turn' = turn + 1 /\ pc' = "header" /\ UNCHANGED <<log, printed>>
    BY <1>9 DEF NextRun, history
  <2>1. turn = 1 /\ turn' = 2 /\ Len(Runs) = 2
    <3>1. \A t \in {1, 2}, m \in {1, 2} : t < m => t = 1 /\ m = 2
      OBVIOUS
    <3>2. turn = 1 /\ Len(Runs) = 2
      BY <1>2, <2>0, <3>1
    <3> QED BY <2>0, <3>2
  <2>2. Run' = "new"
    <3>1. Runs = <<"base", "new">>
      BY <2>1, ScaleAssumption
    <3> QED BY <2>1, <3>1 DEF Run
  <2> QED BY <2>0, <2>1, <2>2 DEF Progress
<1>10. CASE StatFails \/ Kill \/ Compare
  <2>1. pc' \in Ended /\ turn' = turn
    BY <1>10 DEF StatFails, Kill, KillBetween, KillInHeader, KillInReport, Compare, loop, Ended
  <2> QED BY <1>2, <1>3, <2>1 DEF Progress, Ended
<1>11. CASE Over \/ UNCHANGED vars
  <2>1. UNCHANGED <<order, turn, file, dec, pc, log, printed, Run>>
    BY <1>11 DEF Over, vars, Run
  <2>2. \A p : Visited(p)' = Visited(p)
    BY <2>1 DEF Visited
  <2> QED BY <1>2, <2>1, <2>2 DEF Progress
<1> QED
  BY <1>4, <1>5, <1>6, <1>7, <1>8, <1>9, <1>10, <1>11 DEF Next, Orchestrate, Environment

\* The header stays the first line, and the only one of its kind.
LEMMA NextHeaded ==
    ASSUME TypeOK, OutTells, Progress, Headed, [Next]_vars
    PROVE  Headed'
<1>1. Run \in Logs /\ log[Run] \in Seq(Lines) /\ \A r \in Logs : HeaderFirst(log[r])
  BY RunIsLog DEF TypeOK, Headed
<1>2. \/ pc' \in {"header", "dead"}
      \/ Run' = Run /\ pc \notin {"header", "dead"}
      \/ Run' = Run /\ FirstLine
  <2>1. CASE EmitHeader
    <3>1. FirstLine
      BY <2>1 DEF EmitHeader, Append1, FirstLine, history, Torn, Plain, Line
    <3> QED BY <2>1, <3>1 DEF EmitHeader, loop, Run
  <2>2. CASE ~EmitHeader
    BY <2>2 DEF Next, Orchestrate, Bench, Environment, Kill, NextFile, Invoke, Report,
       BenchHeader, BenchResult, BenchSkips, BenchExits, BenchDies, StatFails, KillBetween,
       KillInHeader, KillInReport, NextRun, Compare, Over, vars, loop, Run
  <2> QED BY <2>1, <2>2
<1>3. CASE UNCHANGED <<log, printed>> /\ ~FirstLine
  BY <1>1, <1>2, <1>3 DEF Headed
<1>4. CASE FirstLine
  <2>1. PICK l \in {Plain("run"), Torn} : log' = [log EXCEPT ![Run] = Append(log[Run], l)]
    BY <1>4 DEF FirstLine
  <2>2. l \in Lines /\ (l.type = "run" <=> l # Torn)
    BY TornLine DEF Plain, Line, Lines, Torn
  <2>3. log[Run] = <<>>
    BY <1>4 DEF FirstLine, Progress
  <2>4. log'[Run] = <<l>> /\ \A r \in Logs : r # Run => log'[r] = log[r]
    BY <1>1, <2>1, <2>2, <2>3, AppendOne DEF TypeOK
  <2>5. HeaderFirst(<<l>>) /\ <<l>> # <<>>
    BY <2>2 DEF HeaderFirst
  <2>6. \A r \in Logs : HeaderFirst(log'[r])
    BY <1>1, <2>4, <2>5
  <2>7. pc' \in {"header", "dead"} \/ Run' = Run
    BY <1>2
  <2> QED BY <2>4, <2>5, <2>6, <2>7 DEF Headed
<1>5. CASE FateTold \/ CutShort
  <2>1. PICK new \in Seq(Lines) :
            /\ \A i \in DOMAIN new : new[i].type # "run"
            /\ log' = [log EXCEPT ![Run] = log[Run] \o new]
    <3>1. CASE FateTold
      BY <3>1 DEF FateTold, Tells
    <3>2. CASE CutShort
      <4> DEFINE new == <<Torn>>
      <4>1. new \in Seq(Lines) /\ DOMAIN new = {1} /\ new[1] = Torn
        BY TornLine
      <4>2. log' = [log EXCEPT ![Run] = log[Run] \o new]
        BY <3>2 DEF CutShort
      <4> HIDE DEF new
      <4> QED BY <4>1, <4>2, TornLine
    <3> QED BY <1>5, <3>1, <3>2
  <2>2. pc = "report" /\ log[Run] # <<>>
    BY <1>5 DEF FateTold, CutShort, Headed
  <2>3. HeaderFirst(log[Run] \o new) /\ log[Run] \o new # <<>>
    BY <1>1, <2>1, <2>2, HeaderStaysFirst, Places
  <2>4. log'[Run] = log[Run] \o new /\ \A r \in Logs : r # Run => log'[r] = log[r]
    BY <1>1, <2>1 DEF TypeOK
  <2>5. \A r \in Logs : HeaderFirst(log'[r])
    BY <1>1, <2>3, <2>4
  <2>6. pc' \in {"header", "dead"} \/ Run' = Run
    BY <1>2
  <2> QED BY <2>3, <2>4, <2>5, <2>6 DEF Headed
<1> QED
  BY <1>3, <1>4, <1>5, LogStep

\* Only the fates of the pairs accounted for matter.
LEMMA FatesOfPairs ==
    ASSUME NEW lines, NEW pairs, NEW before, NEW after, AccountsFor(lines, pairs, before),
           \A p \in pairs : after[p] = before[p]
    PROVE  AccountsFor(lines, pairs, after)
BY DEF AccountsFor

\* A step changes the fate of the pair at the position alone, before the pair
\* gets to report.
LEMMA FateStep ==
    ASSUME TypeOK, Progress, [Next]_vars
    PROVE  \A r \in Logs : \A p \in printed[r] : fate'[r][p] = fate[r][p]
<1>1. CASE BenchResult \/ BenchSkips \/ BenchDies
  <2>1. pc \in AtBench
    BY <1>1 DEF BenchResult, BenchSkips, BenchDies, AtBench
  <2>2. \E f : Decided(f)
    BY <1>1 DEF BenchResult, BenchSkips, BenchDies
  <2>3. PICK f : fate' = [fate EXCEPT ![Run][Pair] = f]
    BY <2>2 DEF Decided
  <2>4. Pair \notin printed[Run]
    BY <2>1, PairIsNew
  <2>5. fate \in [Logs -> [Pairs -> Fates]] /\ printed \in [Logs -> SUBSET Pairs]
    BY DEF TypeOK
  <2> SUFFICES ASSUME NEW r \in Logs, NEW p \in printed[r] PROVE fate'[r][p] = fate[r][p]
    OBVIOUS
  <2>6. CASE r = Run
    <3>1. p # Pair /\ p \in Pairs
      BY <2>4, <2>5, <2>6
    <3> QED BY <2>3, <2>5, <2>6, <3>1
  <2>7. CASE r # Run
    BY <2>3, <2>5, <2>7
  <2> QED BY <2>6, <2>7
<1>2. CASE UNCHANGED fate
  BY <1>2
<1> QED
  BY <1>1, <1>2 DEF Next, Orchestrate, Bench, Environment, Kill, EmitHeader, NextFile, Invoke,
     Report, BenchHeader, BenchExits, StatFails, KillBetween, KillInHeader, KillInReport,
     NextRun, Compare, Over, vars, history

\* Every pair that got to report stays accounted for.
LEMMA NextAccounted ==
    ASSUME TypeOK, OutTells, Progress, Accounted, [Next]_vars
    PROVE  Accounted'
<1>1. Run \in Logs /\ log[Run] \in Seq(Lines)
  BY RunIsLog DEF TypeOK
<1>2. CASE UNCHANGED <<log, printed>>
  BY <1>2, FateStep, FatesOfPairs DEF Accounted
<1>3. CASE FirstLine
  <2>1. PICK l \in {Plain("run"), Torn} : log' = [log EXCEPT ![Run] = Append(log[Run], l)]
    BY <1>3 DEF FirstLine
  <2>2. l \in Lines /\ l.type # "result"
    BY TornLine DEF Plain, Line, Lines
  <2>3. log[Run] = <<>> /\ printed[Run] = {} /\ UNCHANGED <<printed, fate>>
    BY <1>3 DEF FirstLine, Progress
  <2>4. log'[Run] = <<l>> /\ \A r \in Logs : r # Run => log'[r] = log[r]
    BY <1>1, <2>1, <2>2, <2>3, AppendOne DEF TypeOK
  <2>5. AccountsFor(log'[Run], printed[Run], fate[Run])
    BY <2>2, <2>3, <2>4 DEF AccountsFor
  <2> QED BY <2>3, <2>4, <2>5 DEF Accounted
<1>4. CASE FateTold
  <2>1. PICK new \in Seq(Lines) :
            /\ Tells(new, Pair, fate[Run][Pair])
            /\ log' = [log EXCEPT ![Run] = log[Run] \o new]
    BY <1>4 DEF FateTold
  <2>2. /\ printed' = [printed EXCEPT ![Run] = printed[Run] \cup {Pair}] /\ fate' = fate
        /\ Pair \notin printed[Run]
    BY <1>4, PairIsNew DEF FateTold, AtBench
  <2>3. AccountsFor(log[Run], printed[Run], fate[Run])
    BY <1>1 DEF Accounted
  <2>4. AccountsFor(log[Run] \o new, printed[Run] \cup {Pair}, fate[Run])
    BY <1>1, <2>1, <2>2, <2>3, ReportAccounts
  <2>5. log'[Run] = log[Run] \o new /\ \A r \in Logs : r # Run => log'[r] = log[r]
    BY <1>1, <2>1 DEF TypeOK
  <2>6. /\ printed'[Run] = printed[Run] \cup {Pair}
        /\ \A r \in Logs : r # Run => printed'[r] = printed[r]
    BY <1>1, <2>2 DEF TypeOK
  <2> QED BY <2>2, <2>4, <2>5, <2>6 DEF Accounted
<1>5. CASE CutShort
  <2> DEFINE new == <<Torn>>
  <2>1. new \in Seq(Lines) /\ DOMAIN new = {1} /\ new[1] = Torn
    BY TornLine
  <2>2. log' = [log EXCEPT ![Run] = log[Run] \o new] /\ UNCHANGED <<printed, fate>>
    BY <1>5 DEF CutShort
  <2> HIDE DEF new
  <2>3. AccountsFor(log[Run], printed[Run], fate[Run])
    BY <1>1 DEF Accounted
  <2>4. AccountsFor(log[Run] \o new, printed[Run], fate[Run])
    BY <1>1, <2>1, <2>3, TornLine, OthersAccount
  <2>5. log'[Run] = log[Run] \o new /\ \A r \in Logs : r # Run => log'[r] = log[r]
    BY <1>1, <2>2 DEF TypeOK
  <2> QED BY <2>2, <2>4, <2>5 DEF Accounted
<1> QED
  BY <1>2, <1>3, <1>4, <1>5, LogStep

\* An answer once given stands, and so do the logs it was given of.
LEMMA NextAnswered ==
    ASSUME TypeOK, Answered, [Next]_vars
    PROVE  Answered'
<1>1. CASE verdict # "none"
  <2>1. turn = 2 /\ pc \in Ended /\ verdict = ExitCode /\ Len(Runs) = 2
    BY <1>1, RunIsLog DEF Answered
  <2>2. ~NextRun
    BY <2>1 DEF NextRun
  <2>3. UNCHANGED <<turn, pc, log, verdict>>
    BY <1>1, <2>1, <2>2 DEF Next, Orchestrate, Bench, Environment, Kill, EmitHeader, NextFile, Invoke,
       Report, BenchHeader, BenchResult, BenchSkips, BenchExits, BenchDies, StatFails,
       KillBetween, KillInHeader, KillInReport, Compare, Over, vars, Ended
  <2> QED BY <2>1, <2>3 DEF Answered, ExitCode
<1>2. CASE verdict = "none" /\ Compare
  BY <1>2 DEF Compare, Answered, ExitCode, Ended, loop
<1>3. CASE verdict = "none" /\ ~Compare
  <2>1. verdict' = "none"
    BY <1>3 DEF Next, Orchestrate, Bench, Environment, Kill, EmitHeader, NextFile, Invoke,
       Report, BenchHeader, BenchResult, BenchSkips, BenchExits, BenchDies, StatFails,
       KillBetween, KillInHeader, KillInReport, NextRun, Over, vars
  <2> QED BY <2>1 DEF Answered
<1> QED
  BY <1>1, <1>2, <1>3

\* The first run starts with nothing done.
LEMMA InitScaleInv == Init => ScaleInv
<1> SUFFICES ASSUME Init PROVE ScaleInv
  OBVIOUS
<1>1. /\ turn = 1 /\ file = 1 /\ dec = 1 /\ pc = "header" /\ out = <<>> /\ rc = 0
      /\ verdict = "none"
  BY DEF Init
<1>2. NFiles \in Nat /\ Len(Decoders) \in Nat /\ Len(Runs) \in {1, 2}
  <2>1. CASE Runs = <<"base">>
    BY <2>1, FS_CardinalityType, ScaleAssumption DEF NFiles
  <2>2. CASE Runs = <<"base", "new">>
    BY <2>2, FS_CardinalityType, ScaleAssumption DEF NFiles
  <2> QED BY <2>1, <2>2, ScaleAssumption
<1>3. order \in [1..NFiles -> Files] /\ \A f, g \in 1..NFiles : order[f] = order[g] => f = g
  BY DEF Init, SetToSeqs, NFiles
<1>4. /\ log \in [Logs -> Seq(Lines)] /\ \A r \in Logs : log[r] = <<>>
      /\ fate \in [Logs -> [Pairs -> Fates]]
      /\ printed \in [Logs -> SUBSET Pairs] /\ \A r \in Logs : printed[r] = {}
  <2>1. log = [r \in Logs |-> <<>>] /\ printed = [r \in Logs |-> {}]
    BY DEF Init, Logs
  <2>2. NoFate \in Fates
    BY DEF NoFate, Fates, Kinds
  <2>3. fate = [r \in Logs |-> [p \in Pairs |-> NoFate]]
    BY DEF Init, Logs
  <2> QED BY <2>1, <2>2, <2>3
<1>5. TypeOK
  <2>1. 1 \in 1..Len(Runs) /\ 1 \in 1..NFiles + 1 /\ 1 \in 1..Len(Decoders) + 1
    BY <1>2
  <2>2. <<>> \in Seq(Lines) /\ 0 \in 0..255
    OBVIOUS
  <2>3. "header" \notin AtBench
    BY DEF AtBench
  <2> QED BY <1>1, <1>3, <1>4, <2>1, <2>2, <2>3 DEF TypeOK
<1>6. Run \in Logs
  BY <1>5, RunIsLog
<1>7. OutTells
  BY <1>1 DEF OutTells
<1>8. Progress
  BY <1>4, <1>6 DEF Progress, Logs
<1>9. Headed
  BY <1>1, <1>4 DEF Headed, HeaderFirst
<1>10. Accounted
  BY <1>4 DEF Accounted, AccountsFor
<1> QED
  BY <1>1, <1>5, <1>7, <1>8, <1>9, <1>10 DEF ScaleInv, Answered
-----------------------------------------------------------------------------
\* The invariant holds throughout both runs and the comparison.
THEOREM ScaleInvariant == Spec => []ScaleInv
<1>1. ScaleInv /\ [Next]_vars => ScaleInv'
  BY NextTypeOK, NextOutTells, NextProgress, NextHeaded, NextAccounted, NextAnswered
     DEF ScaleInv
<1> QED
  BY InitScaleInv, <1>1, PTL DEF Spec, Safe

\* However many files, decoders and failures, and wherever a run is killed: a
\* log has one header and it is the first line.
THEOREM HeaderOnceAndFirstHolds == Spec => []HeaderOnceAndFirst
<1>1. ScaleInv => HeaderOnceAndFirst
  BY DEF ScaleInv, Headed, HeaderFirst, HeaderOnceAndFirst, Logs
<1> QED
  BY <1>1, ScaleInvariant, PTL

\* For every corpus: an invocation whose report was written left exactly one
\* result line, which says what became of it, or none if its file was skipped.
THEOREM OneLinePerReportHolds == Spec => []OneLinePerReport
<1>1. ASSUME ScaleInv PROVE OneLinePerReport
  <2> SUFFICES ASSUME NEW r \in Logs, NEW p \in printed[r]
               PROVE  /\ Cardinality(ResultLines(r, p)) =
                             IF fate[r][p].kind = "unreadable" THEN 0 ELSE 1
                      /\ \A i \in ResultLines(r, p) :
                           /\ log[r][i].status = StatusOf(fate[r][p].kind)
                           /\ fate[r][p].kind = "measured" => log[r][i].kb = fate[r][p].kb
    BY DEF OneLinePerReport, Logs
  <2>1. ResultLines(r, p) = ResultsOf(log[r], p)
    BY DEF ResultLines, ResultsOf
  <2>2. AccountsFor(log[r], printed[r], fate[r])
    BY <1>1 DEF ScaleInv, Accounted
  <2>3. CASE fate[r][p].kind = "unreadable"
    <3>1. ResultLines(r, p) = {}
      BY <2>1, <2>2, <2>3 DEF AccountsFor
    <3> QED BY <2>3, <3>1, FS_EmptySet
  <2>4. CASE fate[r][p].kind # "unreadable"
    <3>1. PICK i \in DOMAIN log[r] :
              ResultLines(r, p) = {i} /\ TellsFate(log[r][i], fate[r][p])
      BY <2>1, <2>2, <2>4 DEF AccountsFor
    <3>2. Cardinality({i}) = 1
      BY FS_Singleton
    <3> QED BY <2>4, <3>1, <3>2 DEF TellsFate
  <2> QED BY <2>3, <2>4
<1> QED
  BY <1>1, ScaleInvariant, PTL

\* A pair has a measured line in a log exactly when it got to report and was
\* measured, and the line has its peak.
LEMMA MeasuredLines ==
    ASSUME ScaleInv, NEW r \in Logs
    PROVE  /\ \A l \in Measured(log[r]) :
                 /\ l.pair \in printed[r] /\ fate[r][l.pair].kind = "measured"
                 /\ l.kb = fate[r][l.pair].kb
           /\ \A p \in printed[r] : fate[r][p].kind = "measured" =>
                 \E l \in Measured(log[r]) : l.pair = p /\ l.kb = fate[r][p].kb
<1>1. AccountsFor(log[r], printed[r], fate[r])
  BY DEF ScaleInv, Accounted
<1>2. \A kind : StatusOf(kind) = "measured" <=> kind = "measured"
  BY DEF StatusOf
<1>3. ASSUME NEW l \in Measured(log[r])
      PROVE  /\ l.pair \in printed[r] /\ fate[r][l.pair].kind = "measured"
             /\ l.kb = fate[r][l.pair].kb
  <2>1. PICK i \in DOMAIN log[r] : l = log[r][i]
    BY DEF Measured, LoadResults, ToSet
  <2>2. l.type = "result" /\ l.status = "measured"
    BY DEF Measured, LoadResults
  <2>3. l.pair \in printed[r] /\ i \in ResultsOf(log[r], l.pair)
    BY <1>1, <2>1, <2>2 DEF AccountsFor, ResultsOf
  <2>4. TellsFate(l, fate[r][l.pair])
    BY <1>1, <2>1, <2>3 DEF AccountsFor
  <2> QED BY <1>2, <2>2, <2>3, <2>4 DEF TellsFate
<1>4. ASSUME NEW p \in printed[r], fate[r][p].kind = "measured"
      PROVE  \E l \in Measured(log[r]) : l.pair = p /\ l.kb = fate[r][p].kb
  <2>1. PICK i \in DOMAIN log[r] :
            ResultsOf(log[r], p) = {i} /\ TellsFate(log[r][i], fate[r][p])
    BY <1>1, <1>4 DEF AccountsFor
  <2>2. log[r][i].type = "result" /\ log[r][i].pair = p
    BY <2>1 DEF ResultsOf
  <2>3. log[r][i].status = "measured" /\ log[r][i].kb = fate[r][p].kb
    BY <1>2, <1>4, <2>1 DEF TellsFate
  <2>4. log[r][i] \in Measured(log[r])
    BY <2>2, <2>3 DEF Measured, LoadResults, ToSet
  <2> QED BY <2>2, <2>3, <2>4
<1> QED
  BY <1>3, <1>4

\* For every pair of logs that have their headers, whatever cut them short:
\* the gate fails exactly when a pair measured and reported by both runs grew
\* by more than the threshold.
THEOREM GateFindsGrowthHolds == Spec => []GateFindsGrowth
<1>1. ASSUME ScaleInv PROVE GateFindsGrowth
  <2> SUFFICES ASSUME verdict # "none", HasHeader(log["base"]), HasHeader(log["new"])
               PROVE  verdict = "1" <=> \E p \in Pairs : Grown(p)
    BY DEF GateFindsGrowth
  <2>1. verdict = "1" <=> Regressed(log["base"], log["new"]) # {}
    BY <1>1 DEF ScaleInv, Answered, ExitCode
  <2>2. "base" \in Logs /\ "new" \in Logs
    BY DEF Logs
  <2>3. ASSUME NEW b \in Regressed(log["base"], log["new"]) PROVE \E p \in Pairs : Grown(p)
    <3>1. PICK c \in Measured(log["new"]) :
              c.pair = b.pair /\ (c.kb - b.kb) * 100 > Pct * b.kb
      BY DEF Regressed
    <3>2. b \in Measured(log["base"])
      BY DEF Regressed
    <3>3. /\ b.pair \in printed["base"] /\ fate["base"][b.pair].kind = "measured"
          /\ b.kb = fate["base"][b.pair].kb
      BY <1>1, <2>2, <3>2, MeasuredLines
    <3>4. /\ c.pair \in printed["new"] /\ fate["new"][c.pair].kind = "measured"
          /\ c.kb = fate["new"][c.pair].kb
      BY <1>1, <2>2, <3>1, MeasuredLines
    <3>5. b.pair \in Pairs
      BY <1>1, <2>2, <3>3 DEF ScaleInv, TypeOK
    <3>6. Grown(b.pair)
      BY <3>1, <3>3, <3>4 DEF Grown
    <3> QED BY <3>5, <3>6
  <2>4. ASSUME NEW p \in Pairs, Grown(p) PROVE Regressed(log["base"], log["new"]) # {}
    <3>1. PICK b \in Measured(log["base"]) : b.pair = p /\ b.kb = fate["base"][p].kb
      BY <1>1, <2>2, <2>4, MeasuredLines DEF Grown
    <3>2. PICK c \in Measured(log["new"]) : c.pair = p /\ c.kb = fate["new"][p].kb
      BY <1>1, <2>2, <2>4, MeasuredLines DEF Grown
    <3>3. b \in Regressed(log["base"], log["new"])
      BY <2>4, <3>1, <3>2 DEF Regressed, Grown
    <3> QED BY <3>3
  <2> QED BY <2>1, <2>3, <2>4
<1> QED
  BY <1>1, ScaleInvariant, PTL
=============================================================================
