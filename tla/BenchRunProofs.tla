---------------------------- MODULE BenchRunProofs ----------------------------
(***************************************************************************)
(* The driver's invariants for every list of files, decoders and thread    *)
(* counts and every width of the pool, and that what it writes to stdout   *)
(* is a ResultStream.                                                      *)
(***************************************************************************)
EXTENDS BenchRun, FiniteSetTheorems, TLAPS

\* A turn: main is between its read of a file and its wait_idle.
InTurn == mpc \in {"reference", "submit", "wait"}
Sending == mpc \in {"submit", "wait"}

\* The turn a job belongs to: outside submit and wait the pool has nothing to
\* do, inside it works on the bytes of the file of this turn.
Turn ==
    mpc # "killed" =>
        /\ ~Sending => todo = <<>> /\ running = {}
        /\ InTurn => blob = cur /\ cur \in readable
        /\ \A j \in Pool!Queued \cup running : FileOf(j) = blob
        /\ (mpc = "reference" => sent = 0) /\ (mpc = "wait" => sent = PerFile)

\* Each job has one place, and only a running one has begun.
Places ==
    /\ \A i, k \in DOMAIN todo : todo[i] = todo[k] => i = k
    /\ Pool!Queued \cap (running \cup finished) = {}
    /\ running \cap finished = {}
    /\ \A j \in Jobs : jpc[j] # "idle" => j \in running

\* The jobs of this turn so far.
ThisTurn == IF Sending THEN {JobAt(cur, k) : k \in 1..sent} ELSE {}
Earlier == IF InTurn THEN readable \ {cur} ELSE readable

\* What was submitted, and what has a row.
Account ==
    /\ readable \subseteq 1..cur /\ (mpc = "load" => cur = 0)
    /\ mpc # "killed" => Pool!Submitted = JobsOf(Earlier) \cup ThisTurn
    /\ RowJobs = finished \cup {j \in Jobs : jpc[j] = "writing"}
    /\ IsFiniteSet(RowJobs) /\ Len(rows) = Cardinality(RowJobs)

\* Who is given a reference image, and who compares with it.
References ==
    /\ refOK \subseteq 1..cur
    /\ mpc = "reference" => cur \notin refOK
    /\ mpc = "submit" => (haveRef <=> cur \in refOK)
    /\ withRef \subseteq Pool!Submitted
    /\ \A j \in Pool!Submitted : j \in withRef <=> j[2] # 1 /\ FileOf(j) \in refOK
    /\ \A i \in DOMAIN rows : rows[i].compared <=> rows[i].job \in withRef

\* What stdout holds.
Output ==
    /\ \A j \in Jobs : jpc[j] = "writing" <=> lock = j
    /\ (mpc = "header" => jsonl) /\ (jsonl => Stream!Reported = RowJobs)
    /\ mpc \in {"load", "setup"} \/ (~jsonl /\ (InTurn \/ mpc \in {"next", "report"}))
           => out = <<>>
    /\ jsonl /\ (InTurn \/ mpc \in {"header", "next", "report", "aggregate"})
           => out # <<>>
    /\ mpc # "killed" =>
           /\ Stream!Torn <=> mpc \in {"header", "aggregate"} \/ (jsonl /\ lock # NoJob)
           /\ Stream!Complete => mpc \in {"aggregate", "closing", "exit"}
           /\ mpc \in {"aggregate", "closing"} /\ out # <<>> => Stream!Complete

\* The inductive invariant.
RunInv ==
    /\ TypeOK
    /\ Turn
    /\ Places
    /\ Account
    /\ References
    /\ Output
-----------------------------------------------------------------------------
\* Positions in a turn.

\* The k-th job of a turn is a job.
LEMMA JobAtType ==
    ASSUME TypeOK, NEW f \in Files, NEW k \in 1..PerFile
    PROVE  JobAt(f, k) \in Jobs /\ JobAt(f, k)[1] = f
           /\ JobAt(f, k)[2] \in DOMAIN loaded
<1> DEFINE L == Len(loaded)
           T == Len(Threads)
           n == k - 1
<1>1. L \in Nat /\ L <= Len(Decoders) /\ DOMAIN loaded = 1..L
  BY DEF TypeOK
<1>2. T \in Nat \ {0}
  BY RunAssumption
<1>3. Len(Decoders) \in Nat
  BY RunAssumption
<1>4. n \in Nat /\ n < L * T
  BY <1>1, <1>2 DEF PerFile
<1> DEFINE q == n \div T
           r == n % T
<1>5. q \in Nat /\ r \in 0..T - 1 /\ n = T * q + r
  <2> HIDE DEF n, T
  <2> QED BY <1>2, <1>4, SMTT(30)
<1>6. JobAt(f, k) = <<f, q + 1, r + 1>>
  BY DEF JobAt
<1> HIDE DEF q, r, n, L, T
<1>7. q < L
  <2>1. T * q \in Nat /\ T * q < L * T
    BY <1>1, <1>2, <1>4, <1>5
  <2>2. CASE q >= L
    <3>1. PICK e \in Nat : q = L + e
      BY <2>1, <2>2, <1>1, <1>5
    <3>2. T * q = L * T + T * e
      BY <3>1, <1>1, <1>2
    <3>3. T * e \in Nat
      BY <3>1, <1>2
    <3> QED BY <2>1, <3>2, <3>3, <1>1, <1>2
  <2> QED BY <2>1, <2>2, <1>1, <1>5
<1>8. q + 1 \in 1..L /\ q + 1 \in 1..Len(Decoders) /\ r + 1 \in 1..T
  BY <1>1, <1>2, <1>3, <1>5, <1>7
<1> QED
  BY <1>1, <1>6, <1>8 DEF Jobs, T

\* Every decoder that loaded and every thread count has its place in a turn.
LEMMA JobAtOnto ==
    ASSUME TypeOK, NEW j \in Jobs, j[2] \in DOMAIN loaded
    PROVE  \E k \in 1..PerFile : j = JobAt(j[1], k)
<1> DEFINE L == Len(loaded)
           T == Len(Threads)
           d == j[2] - 1
           t == j[3] - 1
           k == d * T + t + 1
<1>1. L \in Nat /\ DOMAIN loaded = 1..L
  BY DEF TypeOK
<1>2. T \in Nat \ {0}
  BY RunAssumption
<1>3. d \in 0..L - 1 /\ t \in 0..T - 1
  BY <1>1 DEF Jobs
<1>4. PerFile = L * T
  BY DEF PerFile
<1>5. j = <<j[1], d + 1, t + 1>>
  <2>1. j[2] \in Int /\ j[3] \in Int
    BY <1>1 DEF Jobs
  <2>2. j = <<j[1], j[2], j[3]>>
    BY DEF Jobs
  <2> QED BY <2>1, <2>2
<1> HIDE DEF d, t, L, T
<1>6. d * T \in Nat
  BY <1>2, <1>3
<1>7. k \in Nat /\ k >= 1
  BY <1>3, <1>6, <1>2
<1>8. k <= L * T
  <2>1. PICK e \in Nat : L = d + 1 + e
    BY <1>1, <1>3
  <2>2. L * T = d * T + T + e * T
    BY <2>1, <1>2, <1>3
  <2>3. e * T \in Nat
    BY <2>1, <1>2
  <2> QED BY <2>2, <2>3, <1>2, <1>3, <1>6
<1>9. (k - 1) \div T = d /\ (k - 1) % T = t
  <2> DEFINE n == k - 1
             q == n \div T
             r == n % T
  <2>1. n = T * d + t
    BY <1>2, <1>3, <1>6
  <2>2. n \in Nat
    BY <1>7
  <2> HIDE DEF k
  <2>3. q \in Nat /\ r \in 0..T - 1 /\ n = T * q + r
    <3> HIDE DEF n
    <3> QED BY <1>2, <2>2, SMTT(30)
  <2> HIDE DEF q, r, n
  <2>4. q = d
    <3>1. CASE q > d
      <4>1. PICK e \in Nat : q = d + 1 + e
        BY <3>1, <2>3, <1>3
      <4>2. T * q = T * d + T + T * e
        BY <4>1, <1>2, <1>3
      <4>3. T * e \in Nat /\ T * d \in Nat
        BY <4>1, <1>2, <1>3
      <4> QED BY <4>2, <4>3, <2>1, <2>3, <1>2, <1>3
    <3>2. CASE d > q
      <4>1. PICK e \in Nat : d = q + 1 + e
        BY <3>2, <2>3, <1>3
      <4>2. T * d = T * q + T + T * e
        BY <4>1, <1>2, <2>3
      <4>3. T * e \in Nat /\ T * q \in Nat
        BY <4>1, <1>2, <2>3
      <4> QED BY <4>2, <4>3, <2>1, <2>3, <1>2, <1>3
    <3> QED BY <3>1, <3>2, <2>3, <1>3
  <2>5. r = t
    <3>1. T * d \in Int
      BY <1>2, <1>3
    <3> QED BY <2>1, <2>3, <2>4, <3>1, <1>3, <1>2
  <2> QED BY <2>4, <2>5 DEF q, r, n
<1>10. JobAt(j[1], k) = <<j[1], d + 1, t + 1>>
  BY <1>9 DEF JobAt, T
<1> QED
  BY <1>4, <1>5, <1>7, <1>8, <1>10
-----------------------------------------------------------------------------
\* What the steps of the pool, of stdout and of all_results do.

\* The next job leaves the queue and runs.
LEMMA StartMoves ==
    ASSUME TypeOK, Places, Pool!Start
    PROVE  /\ Head(todo) \in Jobs /\ Head(todo) \in Pool!Queued
           /\ todo' \in Seq(Jobs)
           /\ running' = running \cup {Head(todo)}
           /\ Pool!Queued' = Pool!Queued \ {Head(todo)}
           /\ Pool!Submitted' = Pool!Submitted
           /\ finished' = finished
           /\ \A i, k \in DOMAIN todo' : todo'[i] = todo'[k] => i = k
<1> DEFINE h == Head(todo)
<1>1. todo \in Seq(Jobs) /\ todo # <<>> /\ todo' = Tail(todo)
      /\ running' = running \cup {h} /\ finished' = finished
  BY DEF TypeOK, Pool!Start
<1>2. Len(todo) \in Nat \ {0} /\ h = todo[1] /\ 1 \in DOMAIN todo
      /\ todo' \in Seq(Jobs) /\ Len(todo') = Len(todo) - 1
      /\ DOMAIN todo = 1..Len(todo) /\ DOMAIN todo' = 1..Len(todo) - 1
  BY <1>1
<1>3. \A i \in DOMAIN todo' : todo'[i] = todo[i + 1] /\ i + 1 \in DOMAIN todo
  BY <1>1, <1>2
<1>4. h \in Jobs /\ h \in Pool!Queued
  BY <1>1, <1>2 DEF Pool!Queued, Pool!Range
<1>5. ASSUME NEW i \in DOMAIN todo', NEW k \in DOMAIN todo', todo'[i] = todo'[k]
      PROVE  i = k
  <2>1. i + 1 = k + 1
    BY <1>3, <1>5 DEF Places
  <2> QED BY <1>2, <2>1
<1>6. ASSUME NEW x \in Pool!Queued'
      PROVE  x \in Pool!Queued \ {h}
  <2>1. PICK i \in DOMAIN todo' : x = todo'[i]
    BY <1>6 DEF Pool!Queued, Pool!Range
  <2>2. x = todo[i + 1] /\ i + 1 \in DOMAIN todo
    BY <1>3, <2>1
  <2>3. x # h
    BY <1>2, <2>1, <2>2 DEF Places
  <2> QED BY <2>2, <2>3 DEF Pool!Queued, Pool!Range
<1>7. ASSUME NEW x \in Pool!Queued \ {h}
      PROVE  x \in Pool!Queued'
  <2>1. PICK i \in DOMAIN todo : x = todo[i]
    BY <1>7 DEF Pool!Queued, Pool!Range
  <2>2. i - 1 \in DOMAIN todo' /\ todo'[i - 1] = todo[(i - 1) + 1] /\ (i - 1) + 1 = i
    BY <1>2, <1>3, <1>7, <2>1
  <2> QED BY <2>1, <2>2 DEF Pool!Queued, Pool!Range
<1>8. Pool!Queued' = Pool!Queued \ {h}
  BY <1>6, <1>7
<1>9. Pool!Submitted' = Pool!Submitted
  BY <1>1, <1>4, <1>8 DEF Pool!Submitted
<1> QED
  BY <1>1, <1>2, <1>4, <1>5, <1>8, <1>9

\* A submitted job joins the queue.
LEMMA SubmitAdds ==
    ASSUME TypeOK, Places, NEW j \in Jobs, Pool!Submit(j)
    PROVE  /\ todo' \in Seq(Jobs) /\ running' = running /\ finished' = finished
           /\ Pool!Queued' = Pool!Queued \cup {j}
           /\ Pool!Submitted' = Pool!Submitted \cup {j}
           /\ j \notin Pool!Submitted
           /\ \A i, k \in DOMAIN todo' : todo'[i] = todo'[k] => i = k
<1>1. todo \in Seq(Jobs) /\ todo' = Append(todo, j) /\ running' = running
      /\ finished' = finished /\ j \notin Pool!Submitted
  BY DEF TypeOK, Pool!Submit
<1>2. Len(todo) \in Nat /\ DOMAIN todo = 1..Len(todo) /\ DOMAIN todo' = 1..Len(todo) + 1
      /\ todo' \in Seq(Jobs)
  BY <1>1
<1>3. (\A i \in DOMAIN todo : todo'[i] = todo[i]) /\ todo'[Len(todo) + 1] = j
  BY <1>1, <1>2
<1>4. \A i \in DOMAIN todo : todo[i] # j
  BY <1>1 DEF Pool!Submitted, Pool!Queued, Pool!Range
<1>5. ASSUME NEW i \in DOMAIN todo', NEW k \in DOMAIN todo', todo'[i] = todo'[k]
      PROVE  i = k
  <2>1. i \in DOMAIN todo \/ i = Len(todo) + 1
    BY <1>2
  <2>2. k \in DOMAIN todo \/ k = Len(todo) + 1
    BY <1>2
  <2> QED BY <1>3, <1>4, <1>5, <2>1, <2>2 DEF Places
<1>6. Pool!Queued' \subseteq Pool!Queued \cup {j}
  <2> SUFFICES ASSUME NEW i \in DOMAIN todo'
               PROVE  todo'[i] \in Pool!Queued \cup {j}
    BY DEF Pool!Queued, Pool!Range
  <2>1. i \in DOMAIN todo \/ i = Len(todo) + 1
    BY <1>2
  <2> QED BY <1>3, <2>1 DEF Pool!Queued, Pool!Range
<1>7. Pool!Queued \cup {j} \subseteq Pool!Queued'
  <2>1. ASSUME NEW i \in DOMAIN todo PROVE todo[i] \in Pool!Queued'
    <3>1. i \in DOMAIN todo' /\ todo'[i] = todo[i]
      BY <1>2, <1>3
    <3> QED BY <3>1 DEF Pool!Queued, Pool!Range
  <2>2. j \in Pool!Queued'
    <3>1. Len(todo) + 1 \in DOMAIN todo'
      BY <1>2
    <3> QED BY <1>3, <3>1 DEF Pool!Queued, Pool!Range
  <2> QED BY <2>1, <2>2 DEF Pool!Queued, Pool!Range
<1>8. Pool!Queued' = Pool!Queued \cup {j}
  BY <1>6, <1>7
<1>9. Pool!Submitted' = Pool!Submitted \cup {j}
  BY <1>1, <1>8 DEF Pool!Submitted
<1> QED
  BY <1>1, <1>2, <1>5, <1>8, <1>9

\* A line begins: it is the last one, and not whole yet.
LEMMA PutBegins ==
    ASSUME TypeOK, NEW what \in {"run", "row", "aggregate", "array"},
           NEW j \in Jobs \cup {NoJob}, Put(what, j)
    PROVE  /\ out' \in Seq(Line) /\ out' # <<>> /\ Stream!Torn'
           /\ Stream!Complete' <=> Stream!Complete \/ what \in {"aggregate", "array"}
           /\ Stream!Reported' = IF what = "row" THEN Stream!Reported \cup {j}
                                 ELSE Stream!Reported
<1> DEFINE l == [what |-> what, row |-> j, whole |-> FALSE]
<1>1. l \in Line
  BY DEF Line
<1>2. l.what = what /\ l.row = j /\ l.whole = FALSE
  OBVIOUS
<1>3. out \in Seq(Line) /\ out' = Append(out, l)
  BY DEF TypeOK, Put
<1> HIDE DEF l
<1>4. Len(out) \in Nat /\ DOMAIN out = 1..Len(out) /\ DOMAIN out' = 1..Len(out) + 1
      /\ Len(out') = Len(out) + 1 /\ out' \in Seq(Line) /\ out' # <<>>
  BY <1>1, <1>3
<1>5. (\A i \in DOMAIN out : out'[i] = out[i]) /\ out'[Len(out) + 1] = l
      /\ Len(out) + 1 \in DOMAIN out' /\ \A i \in DOMAIN out : i \in DOMAIN out'
  BY <1>1, <1>3, <1>4
<1>6. \A i \in DOMAIN out' : i \in DOMAIN out \/ i = Len(out) + 1
  BY <1>4
<1>7. Stream!Torn'
  BY <1>2, <1>4, <1>5 DEF Stream!Torn
<1>8. Stream!Complete' <=> Stream!Complete \/ what \in {"aggregate", "array"}
  BY <1>2, <1>5, <1>6 DEF Stream!Complete
<1>9. CASE what = "row"
  <2>1. Stream!Reported' \subseteq Stream!Reported \cup {j}
    BY <1>2, <1>5, <1>6 DEF Stream!Reported
  <2>2. Stream!Reported \subseteq Stream!Reported'
    BY <1>5 DEF Stream!Reported
  <2>3. j \in Stream!Reported'
    BY <1>2, <1>5, <1>9 DEF Stream!Reported
  <2> QED BY <1>4, <1>7, <1>8, <1>9, <2>1, <2>2, <2>3
<1>10. CASE what # "row"
  <2>1. Stream!Reported' \subseteq Stream!Reported
    BY <1>2, <1>5, <1>6, <1>10 DEF Stream!Reported
  <2>2. Stream!Reported \subseteq Stream!Reported'
    BY <1>5 DEF Stream!Reported
  <2> QED BY <1>4, <1>7, <1>8, <1>10, <2>1, <2>2
<1> QED
  BY <1>9, <1>10

\* The last line becomes whole and nothing else changes.
LEMMA FlushEnds ==
    ASSUME TypeOK, out # <<>>, Flush
    PROVE  /\ out' \in Seq(Line) /\ out' # <<>> /\ ~Stream!Torn'
           /\ Stream!Complete' <=> Stream!Complete
           /\ Stream!Reported' = Stream!Reported
<1>1. out \in Seq(Line) /\ out' = [out EXCEPT ![Len(out)].whole = TRUE]
  BY DEF TypeOK, Flush
<1>2. Len(out) \in Nat \ {0} /\ DOMAIN out = 1..Len(out) /\ Len(out) \in DOMAIN out
  BY <1>1
<1>3. DOMAIN out' = DOMAIN out
  BY <1>1
<1>4. \A i \in DOMAIN out : out[i] \in Line
  BY <1>1
<1>5. \A i \in DOMAIN out :
          out'[i] = IF i = Len(out) THEN [out[i] EXCEPT !.whole = TRUE] ELSE out[i]
  BY <1>1, <1>2
<1>6. \A i \in DOMAIN out : out'[i] \in Line /\ out'[i].what = out[i].what
                            /\ out'[i].row = out[i].row
  BY <1>4, <1>5 DEF Line
<1>7. out'[Len(out)].whole = TRUE
  BY <1>2, <1>4, <1>5 DEF Line
<1>8. out' \in Seq(Line) /\ Len(out') = Len(out) /\ out' # <<>>
  <2>1. out' \in [1..Len(out) -> Line]
    BY <1>1, <1>2, <1>3, <1>6
  <2> QED BY <1>2, <2>1
<1>9. ~Stream!Torn'
  BY <1>7, <1>8 DEF Stream!Torn
<1>10. (Stream!Complete' <=> Stream!Complete) /\ Stream!Reported' = Stream!Reported
  BY <1>3, <1>6 DEF Stream!Complete, Stream!Reported
<1> QED
  BY <1>8, <1>9, <1>10

\* A row is kept.
LEMMA RowKept ==
    ASSUME TypeOK, NEW j \in Jobs,
           rows' = Append(rows, [job |-> j, compared |-> j \in withRef])
    PROVE  /\ rows' \in Seq(Row) /\ Len(rows') = Len(rows) + 1
           /\ RowJobs' = RowJobs \cup {j}
           /\ \A i \in DOMAIN rows' :
                 \/ i \in DOMAIN rows /\ rows'[i] = rows[i]
                 \/ rows'[i] = [job |-> j, compared |-> j \in withRef]
<1> DEFINE r == [job |-> j, compared |-> j \in withRef]
<1>1. r \in Row /\ r.job = j
  BY DEF Row
<1>2. rows \in Seq(Row) /\ rows' = Append(rows, r)
  BY DEF TypeOK
<1> HIDE DEF r
<1>3. Len(rows) \in Nat /\ DOMAIN rows = 1..Len(rows) /\ DOMAIN rows' = 1..Len(rows) + 1
      /\ Len(rows') = Len(rows) + 1 /\ rows' \in Seq(Row)
  BY <1>1, <1>2
<1>4. (\A i \in DOMAIN rows : rows'[i] = rows[i] /\ i \in DOMAIN rows')
      /\ rows'[Len(rows) + 1] = r /\ Len(rows) + 1 \in DOMAIN rows'
  BY <1>1, <1>2, <1>3
<1>5. \A i \in DOMAIN rows' : i \in DOMAIN rows \/ i = Len(rows) + 1
  BY <1>3
<1>6. RowJobs' \subseteq RowJobs \cup {j}
  BY <1>1, <1>4, <1>5 DEF RowJobs
<1>7. RowJobs \cup {j} \subseteq RowJobs'
  <2>1. j \in RowJobs'
    BY <1>1, <1>4 DEF RowJobs
  <2>2. RowJobs \subseteq RowJobs'
    BY <1>4 DEF RowJobs
  <2> QED BY <2>1, <2>2
<1>8. \A i \in DOMAIN rows' : (i \in DOMAIN rows /\ rows'[i] = rows[i]) \/ rows'[i] = r
  BY <1>4, <1>5
<1> QED
  BY <1>3, <1>6, <1>7, <1>8 DEF r

\* A rearranged list holds the same rows.
LEMMA RowsRearranged ==
    ASSUME TypeOK, Rearranged(rows, rows')
    PROVE  /\ rows' \in Seq(Row) /\ Len(rows') = Len(rows)
           /\ RowJobs' = RowJobs
           /\ \A i \in DOMAIN rows' : \E k \in DOMAIN rows : rows'[i] = rows[k]
<1>1. rows \in Seq(Row) /\ rows' \in Seq(ToSet(rows)) /\ Len(rows') = Len(rows)
      /\ ToSet(rows') = ToSet(rows)
  BY DEF TypeOK, Rearranged
<1>2. ToSet(rows) \subseteq Row
  BY <1>1 DEF ToSet
<1>3. rows' \in Seq(Row)
  BY <1>1, <1>2
<1>4. \A i \in DOMAIN rows' : \E k \in DOMAIN rows : rows'[i] = rows[k]
  BY <1>1 DEF ToSet
<1>5. \A i \in DOMAIN rows : \E k \in DOMAIN rows' : rows[i] = rows'[k]
  BY <1>1 DEF ToSet
<1>6. RowJobs' = RowJobs
  BY <1>4, <1>5 DEF RowJobs
<1> QED
  BY <1>1, <1>3, <1>4, <1>6
-----------------------------------------------------------------------------
\* Types.

\* The run starts well typed, with nothing submitted and nothing written.
LEMMA InitInv == Init => RunInv
<1> SUFFICES ASSUME Init PROVE RunInv
  OBVIOUS
<1> USE DEF Init, Pool!Init
<1>1. TypeOK
  <2>1. jsonl \in BOOLEAN
    BY RunAssumption
  <2>2. loaded \in Seq(ToSet(Decoders)) /\ Len(loaded) <= Len(Decoders)
    BY RunAssumption
  <2>3. mpc \in MainPC /\ cur \in 0..NumFiles
    BY RunAssumption DEF MainPC
  <2>4. rows \in Seq(Row) /\ out \in Seq(Line) /\ todo \in Seq(Jobs)
    OBVIOUS
  <2>5. jpc \in [Jobs -> {"idle", "decoding", "decoded", "writing"}]
    OBVIOUS
  <2> QED
    BY <2>1, <2>2, <2>3, <2>4, <2>5 DEF TypeOK
<1>2. Pool!Queued = {} /\ Pool!Submitted = {} /\ RowJobs = {}
  BY DEF Pool!Queued, Pool!Range, Pool!Submitted, RowJobs
<1>3. Turn /\ Places
  BY <1>2 DEF Turn, Sending, InTurn, Places
<1>4. Account
  <2>1. JobsOf(Earlier) = {} /\ ThisTurn = {}
    BY DEF JobsOf, Earlier, InTurn, ThisTurn, Sending
  <2>2. {j \in Jobs : jpc[j] = "writing"} = {}
    OBVIOUS
  <2> QED
    BY <1>2, <2>1, <2>2, FS_EmptySet DEF Account
<1>5. References
  BY <1>2 DEF References
<1>6. Output
  <2>1. Stream!Reported = {} /\ ~Stream!Torn /\ ~Stream!Complete
    BY DEF Stream!Reported, Stream!Torn, Stream!Complete
  <2>2. \A j \in Jobs : NoJob # j
    BY RunAssumption DEF Jobs, Files
  <2> QED
    BY <1>2, <2>1, <2>2 DEF Output, InTurn
<1> QED
  BY <1>1, <1>3, <1>4, <1>5, <1>6 DEF RunInv

\* NoJob is no job.
LEMMA NoJobIsNone == NoJob \notin Jobs
BY RunAssumption DEF Jobs, Files

\* The file of a turn is one of the command line, the job sent next a job.
LEMMA TurnOnFile ==
    ASSUME TypeOK, Turn, mpc \in {"reference", "submit", "wait"}
    PROVE  /\ cur \in Files /\ blob = cur
           /\ sent < PerFile => /\ sent + 1 \in 1..PerFile
                                /\ JobAt(cur, sent + 1) \in Jobs
<1>1. cur \in Files /\ blob = cur
  BY DEF TypeOK, Turn, InTurn
<1>2. ASSUME sent < PerFile
      PROVE  sent + 1 \in 1..PerFile /\ JobAt(cur, sent + 1) \in Jobs
  <2>1. PerFile \in Nat
    BY RunAssumption DEF TypeOK, PerFile
  <2>2. sent + 1 \in 1..PerFile
    BY <1>2, <2>1 DEF TypeOK
  <2> QED BY <1>1, <2>2, JobAtType
<1> QED
  BY <1>1, <1>2

\* Every step keeps the types.
LEMMA NextTypeOK ==
    ASSUME RunInv, [Next]_vars
    PROVE  TypeOK'
<1> USE DEF RunInv, TypeOK
<1>1. CASE LoadDecoders
  <2>0. PICK n \in 0..Len(Decoders) : \E at \in [1..n -> DOMAIN Decoders] :
            loaded' = [i \in 1..n |-> Decoders[at[i]]]
    BY <1>1 DEF LoadDecoders
  <2>1. PICK at \in [1..n -> DOMAIN Decoders] :
            loaded' = [i \in 1..n |-> Decoders[at[i]]]
    BY <2>0
  <2>2. \A i \in 1..n : Decoders[at[i]] \in ToSet(Decoders)
    BY <2>1 DEF ToSet
  <2>3. n \in Nat /\ n <= Len(Decoders)
    BY <2>1, RunAssumption
  <2>4. loaded' \in Seq(ToSet(Decoders)) /\ Len(loaded') = n
    BY <2>1, <2>2, <2>3
  <2>5. mpc' \in MainPC
    BY <1>1 DEF LoadDecoders, MainPC
  <2> QED
    BY <1>1, <2>3, <2>4, <2>5 DEF LoadDecoders, jobVars, poolVars
<1>2. CASE RefuseDirty \/ SetupFails \/ NoMoreFiles \/ CallWait \/ EndOfTurn
           \/ ReturnFromMain \/ Kill
  <2>1. CASE RefuseDirty \/ NoMoreFiles \/ Kill
    BY <2>1 DEF RefuseDirty, NoMoreFiles, Kill, MainPC, options, jobVars, poolVars
  <2>2. CASE SetupFails \/ CallWait
    BY <2>2 DEF SetupFails, CallWait, MainPC, options, jobVars, Pool!BeginClose,
       Pool!CallWait
  <2>3. CASE EndOfTurn \/ ReturnFromMain
    <3>1. 0 \in 0..NumFiles
      BY RunAssumption
    <3> QED
      BY <2>3, <3>1 DEF EndOfTurn, ReturnFromMain, MainPC, options, jobVars,
         Pool!EndClose, Pool!ReturnFromWait
  <2> QED
    BY <1>2, <2>1, <2>2, <2>3
<1>3. CASE EmitHeader
  <2>1. out' \in Seq(Line)
    BY <1>3, PutBegins DEF EmitHeader
  <2>2. mpc' \in MainPC
    BY <1>3 DEF EmitHeader, MainPC
  <2> QED
    BY <1>3, <2>1, <2>2 DEF EmitHeader, options, jobVars, poolVars
<1>4. CASE FlushHeader
  <2>1. out # <<>>
    BY <1>4 DEF FlushHeader, Output, Stream!Torn
  <2>2. out' \in Seq(Line)
    BY <1>4, <2>1, FlushEnds DEF FlushHeader
  <2> QED
    BY <1>4, <2>2 DEF FlushHeader, options, jobVars, poolVars, MainPC
<1>5. CASE ReadFile
  <2>1. cur' \in Files /\ cur' \in 0..NumFiles
    BY <1>5, RunAssumption DEF ReadFile, Files
  <2> QED
    BY <1>5, <2>1 DEF ReadFile, options, jobVars, poolVars, MainPC
<1>6. CASE SkipFile
  <2>1. cur' \in 0..NumFiles
    BY <1>6, RunAssumption DEF SkipFile
  <2> QED
    BY <1>6, <2>1 DEF SkipFile, options, jobVars, poolVars
<1>7. CASE DecodeReference
  <2>1. cur \in Files
    BY <1>7, TurnOnFile DEF DecodeReference
  <2>2. haveRef' \in BOOLEAN /\ refOK' \subseteq Files
    BY <1>7, <2>1, RunAssumption DEF DecodeReference
  <2>3. grokPool' \in Nat
    BY <1>7 DEF DecodeReference, GrokInit
  <2> QED
    BY <1>7, <2>2, <2>3 DEF DecodeReference, options, jobVars, poolVars, MainPC
<1>8. CASE SubmitJob
  <2>1. JobAt(cur, sent + 1) \in Jobs
    BY <1>8, TurnOnFile DEF SubmitJob
  <2>2. todo' \in Seq(Jobs) /\ running' = running /\ finished' = finished
    BY <1>8, <2>1, SubmitAdds DEF SubmitJob
  <2>3. phase' = phase /\ withRef' \subseteq Jobs
    BY <1>8, <2>1 DEF SubmitJob, Pool!Submit
  <2>4. sent' \in Nat
    BY <1>8 DEF SubmitJob
  <2> QED
    BY <1>8, <2>2, <2>3, <2>4 DEF SubmitJob, options, jobVars, MainPC
<1>9. CASE Report
  <2>1. out' \in Seq(Line)
    BY <1>9, PutBegins DEF Report
  <2>2. rows' \in Seq(Row)
    BY <1>9, RowsRearranged DEF Report
  <2> QED
    BY <1>9, <2>1, <2>2 DEF Report, options, poolVars, MainPC
<1>10. CASE FlushReport
  <2>1. out # <<>>
    BY <1>10 DEF FlushReport, Output, Stream!Torn
  <2>2. out' \in Seq(Line)
    BY <1>10, <2>1, FlushEnds DEF FlushReport
  <2> QED
    BY <1>10, <2>2 DEF FlushReport, options, jobVars, MainPC, Pool!BeginClose
<1>11. CASE PoolStep
  <2>1. todo' \in Seq(Jobs) /\ running' \subseteq Jobs /\ finished' = finished
    BY <1>11, StartMoves DEF PoolStep, StartJob
  <2> QED
    BY <1>11, <2>1 DEF PoolStep, StartJob, mainVars, options, jobVars, Pool!Start
<1>12. ASSUME NEW j \in Jobs, BeginDecode(j) \/ EndDecode(j)
       PROVE  TypeOK'
  <2>1. jpc' \in [Jobs -> {"idle", "decoding", "decoded", "writing"}]
    BY <1>12 DEF BeginDecode, EndDecode
  <2>2. DecoderOf(j) = "grok" /\ BeginDecode(j) => ThreadsOf(j) \in Nat
    BY RunAssumption DEF ThreadsOf, Jobs
  <2>3. grokPool' \in Nat
    BY <1>12, <2>2 DEF BeginDecode, EndDecode, GrokInit
  <2> QED
    BY <1>12, <2>1, <2>3 DEF BeginDecode, EndDecode, mainVars, options, poolVars
<1>13. ASSUME NEW j \in Jobs, WriteRow(j)
       PROVE  TypeOK'
  <2>1. jpc' \in [Jobs -> {"idle", "decoding", "decoded", "writing"}]
    BY <1>13 DEF WriteRow
  <2>2. out' \in Seq(Line)
    BY <1>13, PutBegins DEF WriteRow
  <2>3. rows' \in Seq(Row)
    BY <1>13, RowKept DEF WriteRow
  <2>4. lock' = j /\ UNCHANGED <<mainVars, grokPool, poolVars>>
    BY <1>13 DEF WriteRow
  <2> QED
    BY <2>1, <2>2, <2>3, <2>4 DEF mainVars, options, poolVars
<1>14. ASSUME NEW j \in Jobs, Job(j), EndJob(j)
       PROVE  TypeOK'
  <2>1. jpc' \in [Jobs -> {"idle", "decoding", "decoded", "writing"}]
    BY <1>14 DEF EndJob
  <2>2. jsonl => out # <<>>
    BY <1>14, NoJobIsNone DEF Job, Dead, EndJob, Output, Stream!Torn
  <2>3. out' \in Seq(Line)
    BY <1>14, <2>2, FlushEnds DEF EndJob
  <2> QED
    BY <1>14, <2>1, <2>3 DEF EndJob, mainVars, options, Pool!Finish
<1>15. CASE UNCHANGED vars
  BY <1>15 DEF vars, mainVars, options, jobVars, poolVars
<1> QED
  BY <1>1, <1>2, <1>3, <1>4, <1>5, <1>6, <1>7, <1>8, <1>9, <1>10, <1>11, <1>12, <1>13,
     <1>14, <1>15
  DEF Next, MainStep, Job, JobStep, Ended
-----------------------------------------------------------------------------
\* Which turn a job belongs to, and its one place.

Between == LoadDecoders \/ RefuseDirty \/ SetupFails \/ EmitHeader \/ FlushHeader
           \/ SkipFile \/ NoMoreFiles \/ Report \/ FlushReport \/ ReturnFromMain

\* Main's steps outside a turn touch neither the queue nor a job.
LEMMA BetweenKeeps ==
    ASSUME Between
    PROVE  /\ ~InTurn /\ ~Sending /\ mpc # "killed"
           /\ ~InTurn' /\ ~Sending' /\ mpc' \notin {"killed", "load"}
           /\ UNCHANGED <<jsonl, blob, haveRef, sent, withRef, readable, refOK, jpc, lock,
                          todo, running, finished>>
           /\ mpc = "load" \/ loaded' = loaded
           /\ cur' = cur \/ (cur' = cur + 1 /\ mpc = "next")
           /\ rows' = rows \/ (Report /\ ~jsonl)
<1>1. CASE LoadDecoders \/ RefuseDirty \/ SetupFails
  BY <1>1 DEF LoadDecoders, RefuseDirty, SetupFails, InTurn, Sending, options, jobVars,
     poolVars, Pool!BeginClose
<1>2. CASE EmitHeader \/ FlushHeader \/ SkipFile \/ NoMoreFiles
  BY <1>2 DEF EmitHeader, FlushHeader, SkipFile, NoMoreFiles, InTurn, Sending, options,
     jobVars, poolVars
<1>3. CASE Report
  BY <1>3 DEF Report, InTurn, Sending, options, poolVars
<1>4. CASE FlushReport \/ ReturnFromMain
  BY <1>4 DEF FlushReport, ReturnFromMain, InTurn, Sending, options, jobVars,
     Pool!BeginClose, Pool!EndClose
<1> QED
  BY <1>1, <1>2, <1>3, <1>4 DEF Between

\* A job's own steps before its last one touch only its place.
LEMMA JobKeeps ==
    ASSUME TypeOK, Places, NEW j \in Jobs, BeginDecode(j) \/ EndDecode(j) \/ WriteRow(j)
    PROVE  /\ UNCHANGED <<mainVars, todo, running, finished>>
           /\ j \in running /\ jpc[j] # "writing"
           /\ jpc' = [jpc EXCEPT ![j] = jpc'[j]]
           /\ WriteRow(j) => jpc'[j] = "writing"
           /\ ~WriteRow(j) => jpc'[j] # "writing" /\ UNCHANGED <<lock, rows, out>>
<1>1. CASE BeginDecode(j)
  BY <1>1 DEF BeginDecode, WriteRow, TypeOK, Places, poolVars
<1>2. CASE EndDecode(j)
  BY <1>2 DEF EndDecode, WriteRow, TypeOK, Places, poolVars
<1>3. CASE WriteRow(j)
  BY <1>3 DEF WriteRow, TypeOK, Places, poolVars
<1> QED
  BY <1>1, <1>2, <1>3

\* Main and the queue stay where they were, a job's place with them.
LEMMA EndJobMoves ==
    ASSUME TypeOK, Places, NEW j \in Jobs, EndJob(j)
    PROVE  /\ UNCHANGED <<mainVars, todo, rows>>
           /\ j \in running /\ jpc[j] = "writing"
           /\ running' = running \ {j} /\ finished' = finished \cup {j}
           /\ jpc' = [jpc EXCEPT ![j] = "idle"]
           /\ Pool!Queued' = Pool!Queued
           /\ Pool!Submitted' = Pool!Submitted
<1>1. /\ UNCHANGED <<mainVars, todo, rows>>
      /\ j \in running /\ jpc[j] = "writing"
      /\ running' = running \ {j} /\ finished' = finished \cup {j}
      /\ jpc' = [jpc EXCEPT ![j] = "idle"]
  BY DEF EndJob, Pool!Finish
<1>2. Pool!Queued' = Pool!Queued
  BY <1>1 DEF Pool!Queued, Pool!Range
<1> QED
  BY <1>1, <1>2 DEF Pool!Submitted

\* Nothing is queued when todo is empty.
LEMMA QueueEmpty == todo = <<>> => Pool!Queued = {}
BY DEF Pool!Queued, Pool!Range

\* A job of the pool belongs to the turn.
LEMMA NextTurn ==
    ASSUME RunInv, [Next]_vars
    PROVE  Turn'
<1> USE DEF RunInv
<1>1. CASE Between
  <2>1. todo' = <<>> /\ running' = {}
    BY <1>1, BetweenKeeps DEF Turn
  <2>2. Pool!Queued' = {}
    BY <2>1 DEF Pool!Queued, Pool!Range
  <2> QED
    BY <1>1, <2>1, <2>2, BetweenKeeps DEF Turn, InTurn, Sending
<1>2. CASE ReadFile
  <2>1. todo' = <<>> /\ running' = {}
    BY <1>2 DEF ReadFile, Turn, Sending, poolVars
  <2>2. Pool!Queued' = {}
    BY <2>1 DEF Pool!Queued, Pool!Range
  <2> QED
    BY <1>2, <2>1, <2>2 DEF ReadFile, Turn, InTurn
<1>3. CASE DecodeReference
  <2>1. todo' = <<>> /\ running' = {}
    BY <1>3 DEF DecodeReference, Turn, Sending, poolVars
  <2>2. Pool!Queued' = {}
    BY <2>1 DEF Pool!Queued, Pool!Range
  <2> QED
    BY <1>3, <2>1, <2>2 DEF DecodeReference, Turn, InTurn
<1>4. CASE SubmitJob
  <2> DEFINE j == JobAt(cur, sent + 1)
  <2>1. j \in Jobs /\ FileOf(j) = blob
    <3>1. cur \in Files /\ blob = cur /\ sent + 1 \in 1..PerFile
      BY <1>4, TurnOnFile DEF SubmitJob
    <3> QED BY <3>1, JobAtType DEF FileOf
  <2>2. Pool!Queued' = Pool!Queued \cup {j} /\ running' = running
    BY <1>4, <2>1, SubmitAdds DEF SubmitJob
  <2> QED
    BY <1>4, <2>1, <2>2 DEF SubmitJob, Turn, InTurn, Sending
<1>5. CASE CallWait
  <2>1. Pool!Queued' = Pool!Queued /\ running' = running /\ PerFile' = PerFile
    BY <1>5 DEF CallWait, Pool!CallWait, Pool!Queued, Pool!Range, PerFile, options
  <2> QED
    BY <1>5, <2>1 DEF CallWait, Turn, InTurn, Sending
<1>6. CASE EndOfTurn
  <2>1. todo' = <<>> /\ running' = {}
    BY <1>6 DEF EndOfTurn, Pool!ReturnFromWait, Pool!Quiet
  <2>2. Pool!Queued' = {}
    BY <2>1 DEF Pool!Queued, Pool!Range
  <2> QED
    BY <1>6, <2>1, <2>2 DEF EndOfTurn, Turn, InTurn
<1>7. CASE PoolStep
  <2>1. UNCHANGED mainVars /\ mpc # "killed" /\ Pool!Start
    BY <1>7 DEF PoolStep, StartJob, Dead
  <2>2. Pool!Queued' \cup running' = Pool!Queued \cup running
    BY <2>1, StartMoves
  <2>3. Sending
    BY <2>1 DEF Turn, Pool!Start
  <2> QED
    BY <2>1, <2>2, <2>3 DEF Turn, InTurn, Sending, mainVars, options, PerFile
<1>8. ASSUME NEW j \in Jobs, BeginDecode(j) \/ EndDecode(j) \/ WriteRow(j)
      PROVE  Turn'
  <2>1. UNCHANGED <<mainVars, todo, running>>
    BY <1>8, JobKeeps
  <2> QED
    BY <2>1 DEF Turn, InTurn, Sending, mainVars, options, PerFile, Pool!Queued, Pool!Range
<1>9. ASSUME NEW j \in Jobs, EndJob(j)
      PROVE  Turn'
  <2>1. UNCHANGED <<mainVars, todo>> /\ running' = running \ {j}
        /\ Pool!Queued' = Pool!Queued
    BY <1>9, EndJobMoves
  <2> QED
    BY <2>1 DEF Turn, InTurn, Sending, mainVars, options, PerFile
<1>10. CASE Kill
  BY <1>10 DEF Kill, Turn
<1>11. CASE UNCHANGED vars
  BY <1>11 DEF vars, mainVars, options, poolVars, Turn, InTurn, Sending, PerFile,
     Pool!Queued, Pool!Range
<1> QED
  BY <1>1, <1>2, <1>3, <1>4, <1>5, <1>6, <1>7, <1>8, <1>9, <1>10, <1>11
  DEF Next, MainStep, Between, Job, JobStep, Ended

\* A job keeps one place.
LEMMA NextPlaces ==
    ASSUME RunInv, [Next]_vars
    PROVE  Places'
<1> USE DEF RunInv
<1>1. CASE UNCHANGED <<todo, running, finished, jpc>>
  BY <1>1 DEF Places, Pool!Queued, Pool!Range
<1>2. CASE SubmitJob
  <2> DEFINE j == JobAt(cur, sent + 1)
  <2>1. j \in Jobs
    BY <1>2, TurnOnFile DEF SubmitJob
  <2>2. /\ running' = running /\ finished' = finished
        /\ Pool!Queued' = Pool!Queued \cup {j}
        /\ j \notin running \cup finished
        /\ \A i, k \in DOMAIN todo' : todo'[i] = todo'[k] => i = k
    BY <1>2, <2>1, SubmitAdds DEF SubmitJob, Pool!Submitted
  <2>3. jpc' = jpc
    BY <1>2 DEF SubmitJob, jobVars
  <2> QED
    BY <2>2, <2>3 DEF Places
<1>3. CASE PoolStep
  <2>1. Pool!Start /\ jpc' = jpc
    BY <1>3 DEF PoolStep, StartJob, jobVars
  <2> QED
    BY <2>1, StartMoves DEF Places
<1>4. ASSUME NEW j \in Jobs, BeginDecode(j) \/ EndDecode(j) \/ WriteRow(j)
      PROVE  Places'
  <2>1. UNCHANGED <<todo, running, finished>> /\ j \in running
        /\ jpc' = [jpc EXCEPT ![j] = jpc'[j]]
    BY <1>4, JobKeeps
  <2>2. Pool!Queued' = Pool!Queued
    BY <2>1 DEF Pool!Queued, Pool!Range
  <2>3. \A x \in Jobs : x # j => jpc'[x] = jpc[x]
    BY <2>1 DEF TypeOK
  <2> QED
    BY <2>1, <2>2, <2>3 DEF Places
<1>5. ASSUME NEW j \in Jobs, EndJob(j)
      PROVE  Places'
  <2>1. /\ todo' = todo /\ j \in running
        /\ running' = running \ {j} /\ finished' = finished \cup {j}
        /\ jpc' = [jpc EXCEPT ![j] = "idle"]
        /\ Pool!Queued' = Pool!Queued
    BY <1>5, EndJobMoves
  <2>2. \A x \in Jobs : jpc'[x] = IF x = j THEN "idle" ELSE jpc[x]
    BY <2>1 DEF TypeOK
  <2> QED
    BY <2>1, <2>2 DEF Places
<1>6. CASE Between
  BY <1>1, <1>6, BetweenKeeps
<1>7. CASE ReadFile \/ DecodeReference \/ CallWait \/ EndOfTurn \/ Kill
  BY <1>1, <1>7 DEF ReadFile, DecodeReference, CallWait, EndOfTurn, Kill, jobVars, poolVars,
     Pool!CallWait, Pool!ReturnFromWait
<1>8. CASE UNCHANGED vars
  BY <1>1, <1>8 DEF vars, jobVars, poolVars
<1> QED
  BY <1>2, <1>3, <1>4, <1>5, <1>6, <1>7, <1>8
  DEF Next, MainStep, Between, Job, JobStep, Ended
-----------------------------------------------------------------------------
\* What was submitted and what has a row.

Writing == {j \in Jobs : jpc[j] = "writing"}

\* The jobs of a whole turn are the jobs of its file.
LEMMA WholeTurn ==
    ASSUME TypeOK, NEW f \in Files
    PROVE  {JobAt(f, k) : k \in 1..PerFile} = JobsOf({f})
<1>1. ASSUME NEW k \in 1..PerFile
      PROVE  JobAt(f, k) \in JobsOf({f})
  BY JobAtType DEF JobsOf, FileOf
<1>2. ASSUME NEW j \in JobsOf({f})
      PROVE  \E k \in 1..PerFile : j = JobAt(f, k)
  <2>1. j \in Jobs /\ j[1] = f /\ j[2] \in DOMAIN loaded
    BY DEF JobsOf, FileOf
  <2> QED BY <2>1, JobAtOnto
<1> QED
  BY <1>1, <1>2

\* A step that submits nothing: what is left of Account is about the rows.
LEMMA AccountFrame ==
    ASSUME RunInv,
           Pool!Submitted' = Pool!Submitted,
           readable' \subseteq 1..cur' /\ mpc' # "load",
           mpc' = "killed" \/ (mpc # "killed" /\ JobsOf(Earlier)' \cup ThisTurn'
                                                   = JobsOf(Earlier) \cup ThisTurn),
           RowJobs' = finished' \cup Writing',
           RowJobs' = RowJobs /\ Len(rows') = Len(rows)
    PROVE  Account'
<1>1. IsFiniteSet(RowJobs') /\ Len(rows') = Cardinality(RowJobs')
  BY DEF RunInv, Account
<1> QED
  BY <1>1 DEF RunInv, Account, Writing

\* Every row is of a job that ended or writes it, and counts once.
LEMMA NextAccount ==
    ASSUME RunInv, [Next]_vars
    PROVE  Account'
<1> USE DEF RunInv
<1>0. RowJobs = finished \cup Writing
  BY DEF Account, Writing
<1>1. CASE Between
  <2>1. UNCHANGED <<readable, jpc, todo, running, finished>> /\ mpc # "killed"
        /\ ~InTurn /\ ~InTurn' /\ ~Sending /\ ~Sending' /\ mpc' # "load"
    BY <1>1, BetweenKeeps
  <2>2. Pool!Submitted' = Pool!Submitted
    BY <2>1 DEF Pool!Submitted, Pool!Queued, Pool!Range
  <2>3. readable' \subseteq 1..cur'
    BY <1>1, <2>1, BetweenKeeps DEF Account, TypeOK
  <2>4. JobsOf(Earlier)' = JobsOf(Earlier)
    <3>1. CASE mpc = "load"
      <4>1. readable = {}
        BY <3>1 DEF Account
      <4> QED BY <2>1, <4>1 DEF JobsOf, Earlier
    <3>2. CASE mpc # "load"
      BY <1>1, <2>1, <3>2, BetweenKeeps DEF JobsOf, Earlier
    <3> QED BY <3>1, <3>2
  <2>5. RowJobs' = RowJobs /\ Len(rows') = Len(rows)
    BY <1>1, BetweenKeeps, RowsRearranged DEF Report, RowJobs
  <2>6. Writing' = Writing
    BY <2>1 DEF Writing
  <2> QED
    BY <1>0, <2>1, <2>2, <2>3, <2>4, <2>5, <2>6, AccountFrame DEF ThisTurn
<1>2. CASE ReadFile
  <2>1. UNCHANGED <<loaded, jobVars, poolVars>> /\ mpc = "next" /\ mpc' = "reference"
        /\ cur' = cur + 1 /\ readable' = readable \cup {cur'}
    BY <1>2 DEF ReadFile, options
  <2>2. Pool!Submitted' = Pool!Submitted
    BY <2>1 DEF Pool!Submitted, Pool!Queued, Pool!Range, poolVars
  <2>3. readable' \subseteq 1..cur' /\ cur' \notin readable
    BY <2>1 DEF Account, TypeOK
  <2>4. Earlier' = readable /\ Earlier = readable
    BY <2>1, <2>3 DEF Earlier, InTurn
  <2>5. JobsOf(Earlier)' = JobsOf(Earlier) /\ ThisTurn' = {} /\ ThisTurn = {}
    BY <2>1, <2>4 DEF JobsOf, ThisTurn, Sending
  <2>6. RowJobs' = RowJobs /\ Len(rows') = Len(rows) /\ Writing' = Writing
        /\ finished' = finished
    BY <2>1 DEF RowJobs, Writing, jobVars, poolVars
  <2> QED
    BY <1>0, <2>1, <2>2, <2>3, <2>5, <2>6, AccountFrame
<1>3. CASE DecodeReference \/ CallWait
  <2>1. UNCHANGED <<loaded, readable, cur, sent, jobVars, todo, running, finished>>
        /\ mpc \in {"reference", "submit"} /\ mpc' \in {"submit", "wait"}
        /\ (mpc = "reference" => sent = 0)
    BY <1>3 DEF DecodeReference, CallWait, options, poolVars, Pool!CallWait, Turn
  <2>2. Pool!Submitted' = Pool!Submitted
    BY <2>1 DEF Pool!Submitted, Pool!Queued, Pool!Range
  <2>3. Earlier' = Earlier /\ JobsOf(Earlier)' = JobsOf(Earlier)
    BY <2>1 DEF JobsOf, Earlier, InTurn
  <2>4. ThisTurn' = ThisTurn
    <3>1. ThisTurn' = {JobAt(cur, k) : k \in 1..sent}
      BY <2>1 DEF ThisTurn, Sending, JobAt
    <3>2. CASE mpc = "submit"
      BY <3>1, <3>2 DEF ThisTurn, Sending
    <3>3. CASE mpc = "reference"
      <4>1. 1..sent = {} /\ ThisTurn = {}
        BY <2>1, <3>3 DEF ThisTurn, Sending
      <4> QED BY <3>1, <4>1
    <3> QED BY <2>1, <3>2, <3>3
  <2>5. RowJobs' = RowJobs /\ Len(rows') = Len(rows) /\ Writing' = Writing
        /\ finished' = finished /\ readable' \subseteq 1..cur'
    BY <2>1 DEF RowJobs, Writing, jobVars, Account
  <2> QED
    BY <1>0, <2>1, <2>2, <2>3, <2>4, <2>5, AccountFrame
<1>4. CASE SubmitJob
  <2> DEFINE j == JobAt(cur, sent + 1)
  <2>1. UNCHANGED <<loaded, mpc, readable, cur, jobVars>> /\ mpc = "submit"
        /\ sent' = sent + 1
    BY <1>4 DEF SubmitJob, options
  <2>2. j \in Jobs
    BY <1>4, TurnOnFile DEF SubmitJob
  <2>3. Pool!Submitted' = Pool!Submitted \cup {j} /\ finished' = finished
    BY <1>4, <2>2, SubmitAdds DEF SubmitJob
  <2>4. Earlier' = Earlier /\ JobsOf(Earlier)' = JobsOf(Earlier)
    BY <2>1 DEF JobsOf, Earlier, InTurn
  <2>5. ThisTurn' = ThisTurn \cup {j}
    <3>1. 1..sent' = 1..sent \cup {sent + 1}
      BY <2>1 DEF TypeOK
    <3> QED
      BY <2>1, <3>1 DEF ThisTurn, Sending, JobAt
  <2>6. RowJobs' = RowJobs /\ rows' = rows /\ Writing' = Writing
    BY <2>1 DEF RowJobs, Writing, jobVars
  <2> HIDE DEF j
  <2>7. Pool!Submitted' = JobsOf(Earlier)' \cup ThisTurn'
    BY <2>1, <2>3, <2>4, <2>5 DEF Account
  <2> QED
    BY <2>1, <2>3, <2>6, <2>7 DEF Account, Writing
<1>5. CASE EndOfTurn
  <2>1. UNCHANGED <<loaded, readable, cur, sent, jobVars, todo, running, finished>>
        /\ mpc = "wait" /\ mpc' = "next" /\ sent = PerFile
    BY <1>5 DEF EndOfTurn, options, poolVars, Pool!ReturnFromWait, Turn
  <2>2. Pool!Submitted' = Pool!Submitted
    BY <2>1 DEF Pool!Submitted, Pool!Queued, Pool!Range
  <2>3. cur \in Files /\ cur \in readable
    BY <2>1, TurnOnFile DEF Turn, InTurn
  <2>4. ThisTurn = JobsOf({cur}) /\ ThisTurn' = {}
    BY <2>1, <2>3, WholeTurn DEF ThisTurn, Sending
  <2>5. Earlier = readable \ {cur} /\ Earlier' = readable
    BY <2>1 DEF Earlier, InTurn
  <2>6. JobsOf(Earlier)' = JobsOf(Earlier) \cup JobsOf({cur})
    BY <2>1, <2>3, <2>5 DEF JobsOf
  <2>7. RowJobs' = RowJobs /\ Len(rows') = Len(rows) /\ Writing' = Writing
        /\ finished' = finished /\ readable' \subseteq 1..cur'
    BY <2>1 DEF RowJobs, Writing, jobVars, Account
  <2> QED
    BY <1>0, <2>1, <2>2, <2>4, <2>6, <2>7, AccountFrame
<1>6. CASE PoolStep
  <2>1. UNCHANGED <<mainVars, jobVars>> /\ mpc \notin {"killed", "load"} /\ Pool!Start
    <3>1. UNCHANGED <<mainVars, jobVars>> /\ mpc # "killed" /\ Pool!Start
      BY <1>6 DEF PoolStep, StartJob, Dead
    <3>2. Sending
      BY <3>1 DEF Turn, Pool!Start
    <3> QED BY <3>1, <3>2 DEF Sending
  <2>2. Pool!Submitted' = Pool!Submitted /\ finished' = finished
    BY <2>1, StartMoves
  <2>3. RowJobs' = RowJobs /\ Len(rows') = Len(rows) /\ Writing' = Writing
    BY <2>1 DEF RowJobs, Writing, jobVars
  <2>4. JobsOf(Earlier)' = JobsOf(Earlier) /\ ThisTurn' = ThisTurn
    BY <2>1 DEF mainVars, options, JobsOf, Earlier, InTurn, ThisTurn, Sending, JobAt
  <2>5. readable' \subseteq 1..cur' /\ mpc' = mpc
    BY <2>1 DEF mainVars, Account
  <2> QED
    BY <1>0, <2>1, <2>2, <2>3, <2>4, <2>5, AccountFrame
<1>7. ASSUME NEW j \in Jobs, Job(j), BeginDecode(j) \/ EndDecode(j) \/ WriteRow(j)
      PROVE  Account'
  <2>1. UNCHANGED <<mainVars, todo, running, finished>> /\ j \in running
        /\ jpc[j] # "writing" /\ jpc' = [jpc EXCEPT ![j] = jpc'[j]]
        /\ (WriteRow(j) => jpc'[j] = "writing")
        /\ (~WriteRow(j) => jpc'[j] # "writing" /\ rows' = rows)
    BY <1>7, JobKeeps
  <2>2. mpc # "killed" /\ mpc # "load"
    BY <1>7, <2>1 DEF Job, Dead, Turn, Sending
  <2>3. \A x \in Jobs : x # j => jpc'[x] = jpc[x]
    BY <2>1 DEF TypeOK
  <2>4. Pool!Submitted' = Pool!Submitted
    BY <2>1 DEF Pool!Submitted, Pool!Queued, Pool!Range
  <2>5. JobsOf(Earlier)' = JobsOf(Earlier) /\ ThisTurn' = ThisTurn
    BY <2>1 DEF mainVars, options, JobsOf, Earlier, InTurn, ThisTurn, Sending, JobAt
  <2>6. readable' \subseteq 1..cur' /\ mpc' = mpc
    BY <2>1 DEF mainVars, Account
  <2>7. CASE ~WriteRow(j)
    <3>1. Writing' = Writing
      BY <2>1, <2>3, <2>7 DEF Writing
    <3>2. RowJobs' = RowJobs /\ Len(rows') = Len(rows)
      BY <2>1, <2>7 DEF RowJobs
    <3> QED
      BY <1>0, <2>1, <2>2, <2>4, <2>5, <2>6, <3>1, <3>2, AccountFrame
  <2>8. CASE WriteRow(j)
    <3>1. Writing' = Writing \cup {j}
      BY <2>1, <2>3, <2>8 DEF Writing
    <3>2. RowJobs' = RowJobs \cup {j} /\ Len(rows') = Len(rows) + 1
      BY <2>8, RowKept DEF WriteRow
    <3>3. j \notin RowJobs
      BY <1>0, <2>1 DEF Places, Writing
    <3>4. IsFiniteSet(RowJobs') /\ Cardinality(RowJobs') = Cardinality(RowJobs) + 1
      BY <3>2, <3>3, FS_AddElement DEF Account
    <3>5. RowJobs' = finished' \cup Writing'
      BY <1>0, <2>1, <3>1, <3>2
    <3>6. Pool!Submitted' = JobsOf(Earlier)' \cup ThisTurn'
      BY <2>2, <2>4, <2>5 DEF Account
    <3>7. Len(rows') = Cardinality(RowJobs')
      BY <3>2, <3>4 DEF Account
    <3> QED
      BY <2>2, <2>6, <3>4, <3>5, <3>6, <3>7 DEF Account, Writing
  <2> QED
    BY <2>7, <2>8
<1>8. ASSUME NEW j \in Jobs, Job(j), EndJob(j)
      PROVE  Account'
  <2>1. UNCHANGED <<mainVars, rows>> /\ j \in running /\ jpc[j] = "writing"
        /\ finished' = finished \cup {j} /\ jpc' = [jpc EXCEPT ![j] = "idle"]
        /\ Pool!Submitted' = Pool!Submitted
    BY <1>8, EndJobMoves
  <2>2. mpc # "killed" /\ mpc # "load"
    BY <1>8, <2>1 DEF Job, Dead, Turn, Sending
  <2>3. \A x \in Jobs : jpc'[x] = IF x = j THEN "idle" ELSE jpc[x]
    BY <2>1 DEF TypeOK
  <2>4. Writing' = Writing \ {j} /\ j \in Writing
    BY <2>1, <2>3 DEF Writing
  <2>5. JobsOf(Earlier)' = JobsOf(Earlier) /\ ThisTurn' = ThisTurn
    BY <2>1 DEF mainVars, options, JobsOf, Earlier, InTurn, ThisTurn, Sending, JobAt
  <2>6. readable' \subseteq 1..cur' /\ mpc' = mpc
    BY <2>1 DEF mainVars, Account
  <2>7. RowJobs' = RowJobs /\ Len(rows') = Len(rows)
    BY <2>1 DEF RowJobs
  <2> QED
    BY <1>0, <2>1, <2>2, <2>4, <2>5, <2>6, <2>7, AccountFrame
<1>9. CASE Kill
  <2>1. UNCHANGED <<cur, readable, jobVars, poolVars>> /\ mpc' = "killed"
    BY <1>9 DEF Kill
  <2>2. Pool!Submitted' = Pool!Submitted
    BY <2>1 DEF Pool!Submitted, Pool!Queued, Pool!Range, poolVars
  <2>3. RowJobs' = RowJobs /\ Len(rows') = Len(rows) /\ Writing' = Writing
        /\ finished' = finished /\ readable' \subseteq 1..cur'
    BY <2>1 DEF RowJobs, Writing, jobVars, poolVars, Account
  <2> QED
    BY <1>0, <2>1, <2>2, <2>3, AccountFrame
<1>10. CASE UNCHANGED vars
  BY <1>10 DEF vars, mainVars, options, jobVars, poolVars, Account, Pool!Submitted,
     Pool!Queued, Pool!Range, JobsOf, Earlier, InTurn, ThisTurn, Sending, JobAt, RowJobs
<1> QED
  BY <1>1, <1>2, <1>3, <1>4, <1>5, <1>6, <1>7, <1>8, <1>9, <1>10
  DEF Next, MainStep, Between, Job, JobStep, Ended
-----------------------------------------------------------------------------
\* Who compares with which reference.

\* A step that submits nothing and decodes no reference.
LEMMA ReferencesFrame ==
    ASSUME RunInv,
           Pool!Submitted' = Pool!Submitted, UNCHANGED <<withRef, refOK, rows>>,
           cur' = cur \/ cur' = cur + 1,
           mpc' \notin {"reference", "submit"} \/ UNCHANGED <<mpc, cur, haveRef>>
    PROVE  References'
<1>1. refOK' \subseteq 1..cur'
  BY DEF RunInv, References, TypeOK
<1> QED
  BY <1>1 DEF RunInv, References

\* A row is compared with its own file's reference.
LEMMA NextReferences ==
    ASSUME RunInv, [Next]_vars
    PROVE  References'
<1> USE DEF RunInv
<1>1. CASE Between
  <2>1. UNCHANGED <<withRef, refOK, todo, running, finished>>
        /\ (cur' = cur \/ cur' = cur + 1) /\ mpc' \notin {"reference", "submit"}
    BY <1>1, BetweenKeeps DEF InTurn
  <2>2. Pool!Submitted' = Pool!Submitted
    BY <2>1 DEF Pool!Submitted, Pool!Queued, Pool!Range
  <2>3. CASE rows' = rows
    BY <2>1, <2>2, <2>3, ReferencesFrame
  <2>4. CASE Report /\ ~jsonl
    <3>1. \A i \in DOMAIN rows' : rows'[i].compared <=> rows'[i].job \in withRef
      BY <2>4, RowsRearranged DEF Report, References
    <3>2. refOK \subseteq 1..cur'
      BY <2>1 DEF References, TypeOK
    <3> QED
      BY <2>1, <2>2, <3>1, <3>2 DEF References
  <2> QED
    BY <1>1, <2>3, <2>4, BetweenKeeps
<1>2. CASE ReadFile
  <2>1. UNCHANGED <<withRef, refOK, rows, poolVars>> /\ cur' = cur + 1
        /\ mpc' = "reference"
    BY <1>2 DEF ReadFile, jobVars
  <2>2. Pool!Submitted' = Pool!Submitted
    BY <2>1 DEF Pool!Submitted, Pool!Queued, Pool!Range, poolVars
  <2>3. refOK \subseteq 1..cur' /\ cur' \notin refOK
    BY <2>1 DEF References, TypeOK
  <2> QED
    BY <2>1, <2>2, <2>3 DEF References
<1>3. CASE DecodeReference
  <2>1. UNCHANGED <<withRef, rows, cur, poolVars>> /\ mpc = "reference" /\ mpc' = "submit"
    BY <1>3 DEF DecodeReference, jobVars
  <2>2. Pool!Submitted' = Pool!Submitted
    BY <2>1 DEF Pool!Submitted, Pool!Queued, Pool!Range, poolVars
  <2>3. cur \in 1..cur
    BY <2>1, TurnOnFile DEF Files
  <2>4. PICK ok \in BOOLEAN : haveRef' = ok /\ refOK' = IF ok THEN refOK \cup {cur} ELSE refOK
    BY <1>3, RunAssumption DEF DecodeReference
  <2>5. refOK' \subseteq 1..cur' /\ (haveRef' <=> cur \in refOK')
    BY <2>1, <2>3, <2>4 DEF References
  <2>6. \A j \in Pool!Submitted : FileOf(j) # cur
    BY <2>1 DEF Account, ThisTurn, Sending, Earlier, InTurn, JobsOf
  <2>7. \A j \in Pool!Submitted : FileOf(j) \in refOK' <=> FileOf(j) \in refOK
    BY <2>4, <2>6
  <2> QED
    BY <2>1, <2>2, <2>5, <2>7 DEF References
<1>4. CASE SubmitJob
  <2> DEFINE j == JobAt(cur, sent + 1)
  <2>1. UNCHANGED <<mpc, cur, haveRef, refOK, rows>> /\ mpc = "submit"
        /\ withRef' = IF haveRef /\ j[2] # 1 THEN withRef \cup {j} ELSE withRef
    BY <1>4 DEF SubmitJob, jobVars
  <2>2. j \in Jobs /\ FileOf(j) = cur
    <3>1. cur \in Files /\ sent + 1 \in 1..PerFile
      BY <1>4, TurnOnFile DEF SubmitJob
    <3> QED BY <3>1, JobAtType DEF FileOf
  <2>3. Pool!Submitted' = Pool!Submitted \cup {j} /\ j \notin Pool!Submitted
    BY <1>4, <2>2, SubmitAdds DEF SubmitJob
  <2> HIDE DEF j
  <2>4. j \in withRef' <=> j[2] # 1 /\ FileOf(j) \in refOK
    BY <2>1, <2>2, <2>3 DEF References
  <2>5. \A x \in Pool!Submitted : x \in withRef' <=> x \in withRef
    BY <2>1, <2>3
  <2>6. \A x \in Pool!Submitted' : x \in withRef' <=> x[2] # 1 /\ FileOf(x) \in refOK'
    BY <2>1, <2>3, <2>4, <2>5 DEF References
  <2>7. withRef' \subseteq Pool!Submitted'
    BY <2>1, <2>3 DEF References
  <2>8. \A i \in DOMAIN rows : rows[i].job \in withRef' <=> rows[i].job \in withRef
    <3>1. \A i \in DOMAIN rows : rows[i].job \in Pool!Submitted
      <4>1. \A i \in DOMAIN rows : rows[i].job \in RowJobs
        BY DEF RowJobs
      <4>2. RowJobs \subseteq Pool!Submitted
        BY DEF Account, Places, Pool!Submitted
      <4> QED BY <4>1, <4>2
    <3> QED BY <2>5, <3>1
  <2> QED
    BY <2>1, <2>6, <2>7, <2>8 DEF References
<1>5. CASE CallWait \/ EndOfTurn \/ Kill
  <2>1. UNCHANGED <<withRef, refOK, rows, cur, todo, running, finished>>
        /\ mpc' \notin {"reference", "submit"}
    BY <1>5 DEF CallWait, EndOfTurn, Kill, jobVars, poolVars, Pool!CallWait,
       Pool!ReturnFromWait
  <2>2. Pool!Submitted' = Pool!Submitted
    BY <2>1 DEF Pool!Submitted, Pool!Queued, Pool!Range
  <2> QED
    BY <2>1, <2>2, ReferencesFrame
<1>6. CASE PoolStep
  <2>1. UNCHANGED <<mainVars, jobVars>> /\ Pool!Start
    BY <1>6 DEF PoolStep, StartJob
  <2>2. Pool!Submitted' = Pool!Submitted
    BY <2>1, StartMoves
  <2> QED
    BY <2>1, <2>2, ReferencesFrame DEF mainVars, jobVars
<1>7. ASSUME NEW j \in Jobs, BeginDecode(j) \/ EndDecode(j) \/ WriteRow(j)
      PROVE  References'
  <2>1. UNCHANGED <<mainVars, todo, running, finished>>
        /\ (~WriteRow(j) => rows' = rows)
    BY <1>7, JobKeeps
  <2>2. Pool!Submitted' = Pool!Submitted
    BY <2>1 DEF Pool!Submitted, Pool!Queued, Pool!Range
  <2>3. CASE ~WriteRow(j)
    BY <2>1, <2>2, <2>3, ReferencesFrame DEF mainVars
  <2>4. CASE WriteRow(j)
    <3> DEFINE r == [job |-> j, compared |-> j \in withRef]
    <3>1. \A i \in DOMAIN rows' : (i \in DOMAIN rows /\ rows'[i] = rows[i]) \/ rows'[i] = r
      BY <2>4, RowKept DEF WriteRow
    <3>2. r.compared <=> r.job \in withRef
      <4>1. r.job = j /\ r.compared = (j \in withRef)
        OBVIOUS
      <4> QED BY <4>1
    <3> HIDE DEF r
    <3>3. \A i \in DOMAIN rows' : rows'[i].compared <=> rows'[i].job \in withRef
      BY <3>1, <3>2 DEF References
    <3> QED
      BY <2>1, <2>2, <3>3 DEF References, mainVars
  <2> QED
    BY <2>3, <2>4
<1>8. ASSUME NEW j \in Jobs, EndJob(j)
      PROVE  References'
  <2>1. UNCHANGED <<mainVars, rows>> /\ Pool!Submitted' = Pool!Submitted
    BY <1>8, EndJobMoves
  <2> QED
    BY <2>1, ReferencesFrame DEF mainVars
<1>9. CASE UNCHANGED vars
  <2>1. Pool!Submitted' = Pool!Submitted
    BY <1>9 DEF vars, poolVars, Pool!Submitted, Pool!Queued, Pool!Range
  <2> QED
    BY <1>9, <2>1, ReferencesFrame DEF vars, mainVars, jobVars
<1> QED
  BY <1>1, <1>2, <1>3, <1>4, <1>5, <1>6, <1>7, <1>8, <1>9
  DEF Next, MainStep, Between, Job, JobStep, Ended
-----------------------------------------------------------------------------
\* What reaches stdout.

\* Outside a turn nobody holds results_mtx.
LEMMA NobodyWrites ==
    ASSUME RunInv, ~Sending, mpc # "killed"
    PROVE  lock = NoJob
<1>1. \A j \in Jobs : jpc[j] # "writing"
  BY DEF RunInv, Turn, Places
<1> QED
  BY <1>1 DEF RunInv, Output, TypeOK

\* A step that leaves stdout and all_results alone.
LEMMA OutputFrame ==
    ASSUME RunInv,
           UNCHANGED <<jsonl, out, lock, rows>>,
           \A j \in Jobs : jpc'[j] = "writing" <=> jpc[j] = "writing",
           \/ mpc' = mpc
           \/ mpc \in {"load", "setup"} /\ mpc' \in {"setup", "closing", "exit"}
           \/ mpc = "setup" /\ ~jsonl /\ mpc' = "next"
           \/ mpc = "closing" /\ mpc' = "exit"
           \/ InTurn' /\ (InTurn \/ mpc = "next")
           \/ InTurn /\ mpc' = "next"
           \/ mpc = "next" /\ mpc' = "report"
           \/ mpc' = "killed"
    PROVE  Output'
<1>1. (Stream!Torn' <=> Stream!Torn) /\ (Stream!Complete' <=> Stream!Complete)
      /\ Stream!Reported' = Stream!Reported /\ RowJobs' = RowJobs
  BY DEF Stream!Torn, Stream!Complete, Stream!Reported, RowJobs
<1> QED
  BY <1>1 DEF RunInv, Output, InTurn

\* stdout is a run line, whole rows and at most one line that is being
\* written, by main or by the job that holds results_mtx.
LEMMA NextOutput ==
    ASSUME RunInv, [Next]_vars
    PROVE  Output'
<1> USE DEF RunInv
<1>1. CASE LoadDecoders \/ RefuseDirty \/ SetupFails \/ SkipFile \/ NoMoreFiles
           \/ ReturnFromMain
  BY <1>1, OutputFrame DEF LoadDecoders, RefuseDirty, SetupFails, SkipFile, NoMoreFiles,
     ReturnFromMain, options, jobVars
<1>2. CASE EmitHeader
  <2>1. UNCHANGED <<jsonl, lock, jpc, rows>> /\ mpc = "setup" /\ out = <<>>
        /\ lock = NoJob
    BY <1>2, NobodyWrites DEF EmitHeader, options, jobVars, Output, Sending
  <2>2. RowJobs' = RowJobs /\ ~Stream!Complete
    BY <2>1 DEF RowJobs, Stream!Complete
  <2>3. CASE jsonl
    <3>1. mpc' = "header" /\ Put("run", NoJob)
      BY <1>2, <2>3 DEF EmitHeader
    <3>2. out' # <<>> /\ Stream!Torn' /\ ~Stream!Complete'
          /\ Stream!Reported' = Stream!Reported
      BY <2>2, <3>1, PutBegins
    <3> QED
      BY <2>1, <2>2, <2>3, <3>1, <3>2 DEF Output, InTurn
  <2>4. CASE ~jsonl
    BY <1>2, <2>4, OutputFrame DEF EmitHeader, options, jobVars
  <2> QED BY <2>3, <2>4
<1>3. CASE FlushHeader
  <2>1. UNCHANGED <<jsonl, lock, jpc, rows>> /\ mpc = "header" /\ mpc' = "next"
        /\ lock = NoJob /\ Flush
    BY <1>3, NobodyWrites DEF FlushHeader, options, jobVars, Sending
  <2>2. RowJobs' = RowJobs /\ out # <<>> /\ ~Stream!Complete
    BY <2>1 DEF RowJobs, Output, Stream!Torn
  <2>3. out' # <<>> /\ ~Stream!Torn' /\ ~Stream!Complete'
        /\ Stream!Reported' = Stream!Reported
    BY <2>1, <2>2, FlushEnds
  <2>4. jsonl
    BY <2>1 DEF Output
  <2> QED
    BY <2>1, <2>2, <2>3, <2>4 DEF Output, InTurn
<1>4. CASE ReadFile \/ DecodeReference \/ SubmitJob \/ CallWait \/ EndOfTurn \/ Kill
  <2>1. UNCHANGED <<jsonl, out, lock, rows, jpc>>
    BY <1>4 DEF ReadFile, DecodeReference, SubmitJob, CallWait, EndOfTurn, Kill, options,
       jobVars
  <2>2. \/ InTurn' /\ (InTurn \/ mpc = "next")
        \/ InTurn /\ mpc' = "next"
        \/ mpc' = "killed"
    BY <1>4 DEF ReadFile, DecodeReference, SubmitJob, CallWait, EndOfTurn, Kill, InTurn
  <2> QED
    BY <2>1, <2>2, OutputFrame
<1>5. CASE Report
  <2>1. UNCHANGED <<jsonl, lock, jpc>> /\ mpc = "report" /\ mpc' = "aggregate"
        /\ lock = NoJob
    BY <1>5, NobodyWrites DEF Report, options, Sending
  <2>2. PICK what \in {"aggregate", "array"} : Put(what, NoJob)
    BY <1>5 DEF Report
  <2>3. RowJobs' = RowJobs
    BY <1>5, RowsRearranged DEF Report, RowJobs
  <2>4. out' # <<>> /\ Stream!Torn' /\ Stream!Complete' /\ Stream!Reported' = Stream!Reported
    BY <2>2, PutBegins
  <2> QED
    BY <2>1, <2>3, <2>4 DEF Output, InTurn
<1>6. CASE FlushReport
  <2>1. UNCHANGED <<jsonl, lock, jpc, rows>> /\ mpc = "aggregate" /\ mpc' = "closing"
        /\ lock = NoJob /\ Flush
    BY <1>6, NobodyWrites DEF FlushReport, options, jobVars, Sending
  <2>2. RowJobs' = RowJobs /\ out # <<>> /\ Stream!Complete
    BY <2>1 DEF RowJobs, Output, Stream!Torn
  <2>3. out' # <<>> /\ ~Stream!Torn' /\ Stream!Complete' /\ Stream!Reported' = Stream!Reported
    BY <2>1, <2>2, FlushEnds
  <2> QED
    BY <2>1, <2>2, <2>3 DEF Output, InTurn
<1>7. CASE PoolStep
  BY <1>7, OutputFrame DEF PoolStep, StartJob, mainVars, options, jobVars
<1>8. ASSUME NEW j \in Jobs, Job(j), BeginDecode(j) \/ EndDecode(j) \/ WriteRow(j)
      PROVE  Output'
  <2>1. UNCHANGED mainVars /\ j \in running /\ jpc[j] # "writing"
        /\ jpc' = [jpc EXCEPT ![j] = jpc'[j]]
        /\ (WriteRow(j) => jpc'[j] = "writing")
        /\ (~WriteRow(j) => jpc'[j] # "writing" /\ UNCHANGED <<lock, rows, out>>)
    BY <1>8, JobKeeps
  <2>2. \A x \in Jobs : x # j => jpc'[x] = jpc[x]
    BY <2>1 DEF TypeOK
  <2>3. Sending
    BY <1>8, <2>1 DEF Job, Dead, Turn
  <2>4. CASE ~WriteRow(j)
    BY <2>1, <2>2, <2>4, OutputFrame DEF mainVars, options
  <2>5. CASE WriteRow(j)
    <3>1. lock = NoJob /\ lock' = j /\ RowJobs' = RowJobs \cup {j}
      BY <2>5, RowKept DEF WriteRow
    <3>2. \A x \in Jobs : jpc'[x] = "writing" <=> lock' = x
      BY <2>1, <2>2, <2>5, <3>1, NoJobIsNone DEF Output
    <3>3. CASE jsonl
      <4>1. out' # <<>> /\ Stream!Torn' /\ (Stream!Complete' <=> Stream!Complete)
            /\ Stream!Reported' = Stream!Reported \cup {j}
        BY <2>5, <3>3, PutBegins DEF WriteRow
      <4> QED
        BY <2>1, <2>3, <3>1, <3>2, <3>3, <4>1, NoJobIsNone
        DEF Output, InTurn, Sending, mainVars, options
    <3>4. CASE ~jsonl
      <4>1. out' = out
        BY <2>5, <3>4 DEF WriteRow
      <4>2. (Stream!Torn' <=> Stream!Torn) /\ (Stream!Complete' <=> Stream!Complete)
        BY <4>1 DEF Stream!Torn, Stream!Complete
      <4> QED
        BY <2>1, <2>3, <3>2, <3>4, <4>1, <4>2
        DEF Output, InTurn, Sending, mainVars, options
    <3> QED BY <3>3, <3>4
  <2> QED BY <2>4, <2>5
<1>9. ASSUME NEW j \in Jobs, Job(j), EndJob(j)
      PROVE  Output'
  <2>1. UNCHANGED <<mainVars, rows>> /\ j \in running /\ jpc[j] = "writing"
        /\ jpc' = [jpc EXCEPT ![j] = "idle"] /\ lock' = NoJob
    BY <1>9, EndJobMoves DEF EndJob
  <2>2. Sending
    BY <1>9, <2>1 DEF Job, Dead, Turn
  <2>3. lock = j /\ \A x \in Jobs : jpc'[x] # "writing"
    BY <2>1 DEF Output, TypeOK
  <2>4. \A x \in Jobs : jpc'[x] = "writing" <=> lock' = x
    BY <2>1, <2>3, NoJobIsNone
  <2>5. RowJobs' = RowJobs
    BY <2>1 DEF RowJobs
  <2>6. CASE jsonl
    <3>1. out # <<>>
      BY <2>2, <2>6 DEF Output, InTurn, Sending
    <3>2. out' # <<>> /\ ~Stream!Torn' /\ (Stream!Complete' <=> Stream!Complete)
          /\ Stream!Reported' = Stream!Reported
      BY <1>9, <2>6, <3>1, FlushEnds DEF EndJob
    <3> QED
      BY <2>1, <2>2, <2>4, <2>5, <2>6, <3>2
      DEF Output, InTurn, Sending, mainVars, options
  <2>7. CASE ~jsonl
    <3>1. out' = out
      BY <1>9, <2>7 DEF EndJob
    <3>2. (Stream!Torn' <=> Stream!Torn) /\ (Stream!Complete' <=> Stream!Complete)
      BY <3>1 DEF Stream!Torn, Stream!Complete
    <3> QED
      BY <2>1, <2>2, <2>4, <2>7, <3>1, <3>2
      DEF Output, InTurn, Sending, mainVars, options
  <2> QED BY <2>6, <2>7
<1>10. CASE UNCHANGED vars
  BY <1>10, OutputFrame DEF vars, mainVars, options, jobVars
<1> QED
  BY <1>1, <1>2, <1>3, <1>4, <1>5, <1>6, <1>7, <1>8, <1>9, <1>10
  DEF Next, MainStep, Job, JobStep, Ended
-----------------------------------------------------------------------------
\* Theorems.

\* Every step keeps the invariant.
LEMMA NextInv == RunInv /\ [Next]_vars => RunInv'
BY NextTypeOK, NextTurn, NextPlaces, NextAccount, NextReferences, NextOutput DEF RunInv

\* The invariant holds in every state of every run.
THEOREM Invariance == Spec => []RunInv
<1>1. Init => RunInv
  BY InitInv
<1>2. RunInv /\ [Next]_vars => RunInv'
  BY NextInv
<1> QED
  BY <1>1, <1>2, PTL DEF Spec, Safe

\* For every command line: a job that still reads through the references it
\* captured finds main in the turn of its own file.
THEOREM NoDanglingCaptureHolds == Spec => []NoDanglingCapture
<1>1. RunInv => NoDanglingCapture
  BY DEF RunInv, Turn, NoDanglingCapture
<1> QED
  BY <1>1, Invariance, PTL

\* For every command line: between two turns, and at the end, all_results has
\* exactly one row for each file read, decoder loaded and thread count.
THEOREM RowsCompleteHolds == Spec => []RowsComplete
<1>1. RunInv => RowsComplete
  <2> SUFFICES ASSUME RunInv, mpc \in {"next", "report", "aggregate", "exit"}
               PROVE  RowJobs = JobsOf(readable) /\ Len(rows) = Cardinality(RowJobs)
    BY DEF RowsComplete
  <2> USE DEF RunInv
  <2>1. todo = <<>> /\ running = {}
    BY DEF Turn, Sending
  <2>2. Pool!Submitted = finished
    BY <2>1, QueueEmpty DEF Pool!Submitted
  <2>3. Pool!Submitted = JobsOf(readable)
    BY DEF Account, ThisTurn, Sending, Earlier, InTurn
  <2>4. \A j \in Jobs : jpc[j] # "writing"
    BY <2>1 DEF Places
  <2> QED
    BY <2>2, <2>3, <2>4 DEF Account
<1> QED
  BY <1>1, Invariance, PTL

\* For every command line: a row is compared exactly with the reference image
\* of its own file, and only when that decode succeeded.
THEOREM ComparedWithOwnReferenceHolds == Spec => []ComparedWithOwnReference
<1>1. RunInv => ComparedWithOwnReference
  <2> SUFFICES ASSUME RunInv, NEW i \in DOMAIN rows
               PROVE  rows[i].compared <=> rows[i].job[2] # 1 /\ FileOf(rows[i].job) \in refOK
    BY DEF ComparedWithOwnReference
  <2> USE DEF RunInv
  <2>1. rows[i].job \in RowJobs
    BY DEF RowJobs
  <2>2. RowJobs \subseteq Pool!Submitted
    BY DEF Account, Places, Pool!Submitted
  <2> QED
    BY <2>1, <2>2 DEF References
<1> QED
  BY <1>1, Invariance, PTL

\* Where the stream is, seen from the driver.
LEMMA StreamStates ==
    ASSUME RunInv
    PROVE  /\ ~Dead <=> Status = "running"
           /\ mpc = "killed" => Status = "failed"
           /\ Sending \/ mpc \in {"setup", "header", "report", "closing"} => Status = "running"
BY DEF RunInv, TypeOK, MainPC, Status, Dead, Sending

\* Every step of the driver is a step of the stream or leaves it alone.
LEMMA StepStream ==
    ASSUME RunInv, [Next]_vars
    PROVE  [Stream!Next]_(Stream!vars)
<1> USE DEF RunInv
<1>0. ASSUME UNCHANGED <<jsonl, out>>, Status' = Status
      PROVE  [Stream!Next]_(Stream!vars)
  BY <1>0 DEF Stream!vars
<1>1. ASSUME UNCHANGED <<jsonl, out>>, Status = "running", Status' = "failed"
      PROVE  [Stream!Next]_(Stream!vars)
  BY <1>1 DEF Stream!Next, Stream!Fail
<1>2. ASSUME jsonl' = jsonl, out # <<>>, Flush, Stream!Torn,
             Status = "running", Status' = "running"
      PROVE  [Stream!Next]_(Stream!vars)
  BY <1>2 DEF Stream!Next, Stream!Flush, Flush
<1>3. CASE LoadDecoders \/ RefuseDirty \/ SetupFails
  <2>1. UNCHANGED <<jsonl, out>> /\ out = <<>> /\ Status = "running"
        /\ mpc' \in {"setup", "closing", "exit"}
    BY <1>3 DEF LoadDecoders, RefuseDirty, SetupFails, options, Output, Status
  <2>2. Status' = "running" \/ Status' = "failed"
    BY <2>1 DEF Status
  <2> QED
    BY <1>0, <1>1, <2>1, <2>2
<1>4. CASE EmitHeader
  <2>1. jsonl' = jsonl /\ out = <<>> /\ Status = "running" /\ Status' = "running"
    BY <1>4 DEF EmitHeader, options, Output, Status
  <2>2. ~Stream!Torn /\ ~Stream!Complete
    BY <2>1 DEF Stream!Torn, Stream!Complete
  <2>3. CASE jsonl
    BY <1>4, <2>1, <2>2, <2>3
    DEF EmitHeader, Put, Stream!Next, Stream!Header, Stream!Begin
  <2>4. CASE ~jsonl
    BY <1>0, <1>4, <2>1, <2>4 DEF EmitHeader
  <2> QED BY <2>3, <2>4
<1>5. CASE FlushHeader \/ FlushReport
  <2>1. jsonl' = jsonl /\ Flush /\ Stream!Torn /\ Status = "running" /\ Status' = "running"
    BY <1>5 DEF FlushHeader, FlushReport, options, Output, Status
  <2> QED
    BY <1>2, <2>1 DEF Stream!Torn
<1>6. CASE ReadFile \/ SkipFile \/ NoMoreFiles \/ DecodeReference \/ SubmitJob \/ CallWait
           \/ EndOfTurn
  <2>1. UNCHANGED <<jsonl, out>> /\ Status = "running" /\ Status' = "running"
    BY <1>6 DEF ReadFile, SkipFile, NoMoreFiles, DecodeReference, SubmitJob, CallWait,
       EndOfTurn, options, Status
  <2> QED
    BY <1>0, <2>1
<1>7. CASE Report
  <2>1. jsonl' = jsonl /\ Status = "running" /\ Status' = "running" /\ mpc = "report"
    BY <1>7 DEF Report, options, Status
  <2>2. lock = NoJob
    BY <2>1, NobodyWrites DEF Sending
  <2>3. ~Stream!Torn /\ ~Stream!Complete
    BY <2>1, <2>2 DEF Output
  <2>4. CASE jsonl
    <3>1. out # <<>> /\ Put("aggregate", NoJob)
      BY <1>7, <2>1, <2>4 DEF Report, Output
    <3> QED
      BY <2>1, <2>3, <2>4, <3>1 DEF Put, Stream!Next, Stream!Aggregate, Stream!Begin
  <2>5. CASE ~jsonl
    <3>1. Put("array", NoJob)
      BY <1>7, <2>5 DEF Report
    <3> QED
      BY <2>1, <2>3, <2>5, <3>1 DEF Put, Stream!Next, Stream!Document, Stream!Begin
  <2> QED BY <2>4, <2>5
<1>8. CASE ReturnFromMain
  <2>1. UNCHANGED <<jsonl, out, lock>> /\ mpc = "closing" /\ mpc' = "exit"
        /\ Status = "running"
    BY <1>8 DEF ReturnFromMain, options, jobVars, Status
  <2>2. CASE out = <<>>
    BY <1>1, <2>1, <2>2 DEF Status
  <2>3. CASE out # <<>>
    <3>1. lock = NoJob
      BY <2>1, NobodyWrites DEF Sending
    <3>2. Stream!Complete /\ ~Stream!Torn
      BY <2>1, <2>3, <3>1 DEF Output
    <3>3. Status' = "done"
      BY <2>1, <2>3 DEF Status
    <3> QED
      BY <2>1, <3>2, <3>3 DEF Stream!Next, Stream!Exit
  <2> QED BY <2>2, <2>3
<1>9. CASE PoolStep
  BY <1>0, <1>9 DEF PoolStep, StartJob, mainVars, options, Status
<1>10. ASSUME NEW j \in Jobs, Job(j), BeginDecode(j) \/ EndDecode(j) \/ WriteRow(j)
       PROVE  [Stream!Next]_(Stream!vars)
  <2>1. UNCHANGED mainVars /\ j \in running /\ jpc[j] # "writing"
        /\ (~WriteRow(j) => out' = out)
    BY <1>10, JobKeeps
  <2>2. Sending
    BY <1>10, <2>1 DEF Job, Dead, Turn
  <2>3. jsonl' = jsonl /\ Status = "running" /\ Status' = "running"
    BY <2>1, <2>2 DEF mainVars, options, Sending, Status
  <2>4. CASE WriteRow(j) /\ jsonl
    <3>1. lock = NoJob /\ Put("row", j)
      BY <2>4 DEF WriteRow
    <3>2. out # <<>> /\ ~Stream!Torn /\ ~Stream!Complete
      BY <2>2, <2>4, <3>1 DEF Output, Sending, InTurn
    <3>3. j \notin Stream!Reported
      BY <2>1, <2>4 DEF Output, Account, Places
    <3>4. Stream!Row(j)
      BY <2>3, <2>4, <3>1, <3>2, <3>3 DEF Stream!Row, Stream!Begin, Put
    <3> QED
      BY <3>4 DEF Stream!Next
  <2>5. CASE ~(WriteRow(j) /\ jsonl)
    BY <1>0, <2>1, <2>3, <2>5 DEF WriteRow
  <2> QED BY <2>4, <2>5
<1>11. ASSUME NEW j \in Jobs, Job(j), EndJob(j)
       PROVE  [Stream!Next]_(Stream!vars)
  <2>1. UNCHANGED mainVars /\ j \in running /\ jpc[j] = "writing"
    BY <1>11, EndJobMoves
  <2>2. Sending
    BY <1>11, <2>1 DEF Job, Dead, Turn
  <2>3. jsonl' = jsonl /\ Status = "running" /\ Status' = "running"
    BY <2>1, <2>2 DEF mainVars, options, Sending, Status
  <2>4. CASE jsonl
    <3>1. Stream!Torn
      BY <2>1, <2>2, <2>4, NoJobIsNone DEF Output, Sending
    <3> QED
      BY <1>2, <1>11, <2>3, <2>4, <3>1 DEF EndJob, Stream!Torn
  <2>5. CASE ~jsonl
    BY <1>0, <1>11, <2>3, <2>5 DEF EndJob
  <2> QED BY <2>4, <2>5
<1>12. CASE Kill
  BY <1>1, <1>12, StreamStates DEF Kill, options, Status
<1>13. CASE UNCHANGED vars
  BY <1>0, <1>13 DEF vars, mainVars, options, Status
<1> QED
  BY <1>3, <1>4, <1>5, <1>6, <1>7, <1>8, <1>9, <1>10, <1>11, <1>12, <1>13
  DEF Next, MainStep, Job, JobStep, Ended

\* For every command line, whenever the process dies: what stdout gets is a
\* ResultStream.
THEOREM StreamImplemented == Spec => ImplementsStream
<1>1. Init => Stream!Init
  BY RunAssumption DEF Init, Stream!Init, Status
<1>2. RunInv /\ [Next]_vars => [Stream!Next]_(Stream!vars)
  BY StepStream
<1> QED
  BY <1>1, <1>2, Invariance, PTL DEF Spec, Safe, ImplementsStream, Stream!Spec

\* The lines of a stream, in the order of one.
InOrder ==
    /\ Stream!ParseablePrefix
    /\ \A i \in DOMAIN out : out[i].what = "row" <=> out[i].row # NoJob

\* A line begun by a stream comes behind whole ones and says something new.
LEMMA BeginKeepsOrder ==
    ASSUME NEW what \in {"run", "row", "aggregate", "array"}, NEW row,
           out \in Seq(Line), InOrder, jsonl, Stream!Begin(what, row),
           what = "run" <=> out = <<>>,
           what = "row" => row \in Jobs \ Stream!Reported,
           what # "row" => row = NoJob
    PROVE  InOrder'
<1> DEFINE l == [what |-> what, row |-> row, whole |-> FALSE]
           n == Len(out)
<1>1. jsonl' = jsonl /\ out' = Append(out, l) /\ ~Stream!Torn /\ ~Stream!Complete
  BY DEF Stream!Begin
<1>2. n \in Nat /\ DOMAIN out = 1..n /\ DOMAIN out' = 1..n + 1 /\ Len(out') = n + 1
  BY <1>1
<1>3. out'[n + 1] = l /\ \A i \in 1..n : out'[i] = out[i]
  BY <1>1
<1>4. l.what = what /\ l.row = row
  OBVIOUS
<1> HIDE DEF l
<1>5. \A i \in 1..n : out[i].whole /\ out[i].what # "aggregate"
  BY <1>1, <1>2 DEF InOrder, Stream!ParseablePrefix, Stream!Torn, Stream!Complete
<1>6. \A i \in 1..n : out[i].what = "run" <=> i = 1
  BY <1>2 DEF InOrder, Stream!ParseablePrefix
<1>7. n = 0 <=> out = <<>>
  BY <1>2
<1>8. \A i \in 1..n : out[i].what = "row" <=> out[i].row # NoJob
  BY <1>2 DEF InOrder
<1>9. ASSUME NEW i \in 1..n
      PROVE  /\ ~(out[i].row = row /\ out[i].what = "row")
             /\ ~(out[i].row = row /\ what = "row")
  <2>1. CASE out[i].what = "row"
    <3>1. out[i].row \in Stream!Reported
      BY <1>2, <2>1 DEF Stream!Reported
    <3>2. out[i].row # NoJob
      BY <1>8, <2>1
    <3> QED
      BY <3>1, <3>2, NoJobIsNone
  <2>2. CASE out[i].what # "row"
    BY <1>8, <2>2, NoJobIsNone
  <2> QED BY <2>1, <2>2
<1>10. \A i \in 1..n + 1 : out'[i].whole \/ i = n + 1
  BY <1>2, <1>3, <1>5
<1>11. \A i \in 1..n + 1 : out'[i].what = "run" <=> i = 1
  BY <1>2, <1>3, <1>4, <1>6, <1>7
<1>12. \A i \in 1..n + 1 : out'[i].what = "aggregate" => i = n + 1
  BY <1>2, <1>3, <1>5
<1>13. \A i, k \in 1..n + 1 : out'[i].row = out'[k].row /\ out'[i].what = "row" => i = k
  <2> SUFFICES ASSUME NEW i \in 1..n + 1, NEW k \in 1..n + 1,
                      out'[i].row = out'[k].row, out'[i].what = "row"
               PROVE  i = k
    OBVIOUS
  <2>1. CASE i \in 1..n /\ k \in 1..n
    BY <1>2, <1>3, <2>1 DEF InOrder, Stream!ParseablePrefix
  <2>2. CASE i = n + 1 /\ k \in 1..n
    BY <1>3, <1>4, <1>9, <2>2
  <2>3. CASE i \in 1..n /\ k = n + 1
    BY <1>3, <1>4, <1>9, <2>3
  <2> QED
    BY <1>2, <2>1, <2>2, <2>3
<1>14. \A i \in 1..n + 1 : out'[i].what = "row" <=> out'[i].row # NoJob
  BY <1>2, <1>3, <1>4, <1>8, NoJobIsNone
<1>15. Stream!ParseablePrefix'
  BY <1>2, <1>10, <1>11, <1>12, <1>13 DEF Stream!ParseablePrefix
<1> QED
  BY <1>2, <1>14, <1>15 DEF InOrder

\* Every step of a stream keeps the order of its lines.
LEMMA StreamKeepsOrder ==
    ASSUME out \in Seq(Line), InOrder, [Stream!Next]_(Stream!vars)
    PROVE  InOrder'
<1>1. CASE Stream!Header
  BY <1>1, BeginKeepsOrder DEF Stream!Header
<1>2. ASSUME NEW j \in Jobs, Stream!Row(j) PROVE InOrder'
  BY <1>2, BeginKeepsOrder DEF Stream!Row
<1>3. CASE Stream!Aggregate
  BY <1>3, BeginKeepsOrder DEF Stream!Aggregate
<1>4. CASE Stream!Document
  <2>1. ~jsonl /\ jsonl' = jsonl /\ out' = Append(out, [what |-> "array", row |-> NoJob,
                                                       whole |-> FALSE])
    BY <1>4 DEF Stream!Document, Stream!Begin
  <2>2. \A i \in DOMAIN out' : out'[i].what = "row" <=> out'[i].row # NoJob
    BY <2>1 DEF InOrder
  <2> QED
    BY <2>1, <2>2 DEF InOrder, Stream!ParseablePrefix
<1>5. CASE Stream!Flush
  <2> DEFINE n == Len(out)
  <2>1. out' = [out EXCEPT ![n].whole = TRUE] /\ jsonl' = jsonl /\ out # <<>>
    BY <1>5 DEF Stream!Flush, Stream!Torn
  <2>2. n \in Nat /\ n \in 1..n /\ DOMAIN out = 1..n /\ DOMAIN out' = 1..n /\ Len(out') = n
    BY <2>1
  <2>3. \A i \in 1..n : out[i] \in Line
    OBVIOUS
  <2>4. \A i \in 1..n : /\ out'[i].what = out[i].what /\ out'[i].row = out[i].row
                        /\ out[i].whole => out'[i].whole
    BY <2>1, <2>2, <2>3 DEF Line
  <2>5. Stream!ParseablePrefix'
    BY <2>1, <2>2, <2>4 DEF InOrder, Stream!ParseablePrefix
  <2> QED
    BY <2>2, <2>4, <2>5 DEF InOrder
<1>6. CASE Stream!Exit \/ Stream!Fail \/ UNCHANGED Stream!vars
  BY <1>6 DEF Stream!Exit, Stream!Fail, Stream!vars, InOrder, Stream!ParseablePrefix
<1> QED
  BY <1>1, <1>2, <1>3, <1>4, <1>5, <1>6 DEF Stream!Next

\* "A kill mid-corpus still leaves a parseable prefix" (main.cpp 301-302): for
\* every command line and however the process ends, only the last line of the
\* stream can be incomplete, the run line is first and alone, no row is there
\* twice and nothing follows the aggregate.
THEOREM ParseablePrefixHolds == Spec => []Stream!ParseablePrefix
<1>1. Init => InOrder
  BY DEF Init, InOrder, Stream!ParseablePrefix
<1>2. RunInv /\ InOrder /\ [Next]_vars => InOrder'
  BY StepStream, StreamKeepsOrder DEF RunInv, TypeOK
<1>3. InOrder => Stream!ParseablePrefix
  BY DEF InOrder
<1> QED
  BY <1>1, <1>2, <1>3, Invariance, PTL DEF Spec, Safe
===============================================================================
