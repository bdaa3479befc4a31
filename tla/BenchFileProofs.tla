--------------------------- MODULE BenchFileProofs ---------------------------
(***************************************************************************)
(* The row of a call of bench_file, for every set of counts, every number  *)
(* of flags in any order and every set of stage timings; and what the      *)
(* sampler it starts returns, for every set of sizes, however often the    *)
(* size changes and whatever the order of the two threads' accesses.       *)
(***************************************************************************)
EXTENDS BenchFile, RssSampler, TLAPS

Pixels == Path # "header_only"

\* The last image after n successful decodes.
After(n) == IF n > 0 /\ Pixels THEN image ELSE NoImage

Blank == /\ r.error = "none" /\ r.match = -1 /\ r.dims = NoImage
         /\ r.iters = 0 /\ r.stage = 0

Verdict == r.match # -1 => (r.match = 1 <=> image = "equal" /\ opts.warmup > 0)

\* What is true at each place of the call.
Progress ==
    /\ IF pc = "args" THEN ~ref ELSE image \in Images
    /\ pc \in {"prepare", "warmup", "verify", "iterate"} => ~opts.correctness
    /\ pc \in {"args", "entry", "prepare", "warmup", "verify"} =>
           Blank /\ sampler = "none" /\ timed = <<>> /\ stageMin = 0
    /\ pc \in {"args", "entry", "prepare"} =>
           i = 0 /\ calls = 0 /\ img = NoImage /\ stages = 0
    /\ pc = "warmup" => i <= opts.warmup /\ calls = i /\ img = After(calls)
    /\ pc = "verify" => i = 0 /\ calls = opts.warmup /\ img = After(calls)
    /\ pc = "iterate" =>
           /\ i <= opts.iters /\ calls = opts.warmup + i /\ img = After(calls)
           /\ r.error \in {"none", "shape"} /\ r.iters = 0 /\ r.stage = 0
           /\ r.dims = After(opts.warmup) /\ Verdict
           /\ sampler = IF opts.scale THEN "running" ELSE "none"

\* stage_min is the least timing so far.
LeastSoFar ==
    /\ Path # "decode_with_stages" /\ pc # "returned" => stages = 0 /\ stageMin = 0
    /\ pc = "iterate" =>
           /\ Len(timed) = i
           /\ i = 0 => stageMin = 0
           /\ Path = "decode_with_stages" /\ i > 0 =>
                  /\ \E k \in 1..i : timed[k] = stageMin
                  /\ \A k \in 1..i : stageMin <= timed[k]

\* What is true of the row it returns.
Results == VerdictExact /\ ErrorTellsProgress /\ StageIsMinimum /\ SamplerConfined

\* The inductive invariant.
FileInv == TypeOK /\ Progress /\ LeastSoFar /\ Results
-----------------------------------------------------------------------------
\* The least member of a set is its Min.
LEMMA MinIs ==
    ASSUME NEW S \in SUBSET Nat, NEW m \in S, \A x \in S : m <= x
    PROVE  Min(S) = m
<1>1. \E x \in S : \A y \in S : x <= y
  OBVIOUS
<1>2. Min(S) \in S /\ \A y \in S : Min(S) <= y
  BY <1>1 DEF Min
<1>3. Min(S) \in Nat /\ m \in Nat
  BY <1>2
<1> QED
  BY <1>2, <1>3

\* The lesser of two numbers.
LEMMA MinOfTwo ==
    ASSUME NEW a \in Nat, NEW b \in Nat
    PROVE  Min({a, b}) \in {a, b} /\ Min({a, b}) <= a /\ Min({a, b}) <= b
<1>1. CASE a <= b
  <2>1. Min({a, b}) = a
    BY <1>1, MinIs
  <2> QED BY <1>1, <2>1
<1>2. CASE ~(a <= b)
  <2>1. b <= a
    BY <1>2
  <2>2. Min({a, b}) = b
    BY <2>1, MinIs
  <2> QED BY <2>1, <2>2
<1> QED
  BY <1>1, <1>2

\* Timings are numbers.
LEMMA TimesAreNumbers == \A n \in {0} \cup Times : n \in Nat
BY FileAssumption

\* The options after one more argument, or for a file.
LEMMA OptionsKept ==
    ASSUME opts \in Options, opts.scale => opts.stages /\ ~opts.verify,
           NEW o \in AfterOne(opts) \cup ForFile(opts)
    PROVE  o \in Options /\ (o.scale => o.stages /\ ~o.verify)
<1> USE CommandAssumption DEF Options
<1>1. CASE \E n \in Iters : o = [opts EXCEPT !.iters = n]
  BY <1>1
<1>2. CASE \E n \in Warmups : o = [opts EXCEPT !.warmup = n]
  BY <1>2
<1>3. CASE o \in {[opts EXCEPT !.verify = FALSE], [opts EXCEPT !.roi = TRUE],
                  [opts EXCEPT !.reuse = TRUE],
                  [opts EXCEPT !.headerOnly = TRUE, !.verify = FALSE],
                  [opts EXCEPT !.stages = TRUE]}
  BY <1>3
<1>4. CASE o = [opts EXCEPT !.correctness = TRUE, !.iters = 1, !.warmup = 0,
                            !.verify = FALSE]
  BY <1>4
<1>5. CASE o = [opts EXCEPT !.scale = TRUE, !.iters = 1, !.warmup = 0,
                            !.verify = FALSE, !.stages = TRUE]
  BY <1>5
<1>6. CASE o = opts
  BY <1>6
<1> QED
  BY <1>1, <1>2, <1>3, <1>4, <1>5, <1>6 DEF AfterOne, ForFile

\* The call starts with nothing decoded.
LEMMA InitInv == Init => FileInv
<1> SUFFICES ASSUME Init PROVE FileInv
  OBVIOUS
<1>1. TypeOK
  <2>1. opts \in Options /\ args \in 0..MaxArgs /\ ~opts.scale
    BY CommandAssumption DEF Init, Defaults, Options
  <2>2. r \in Row
    <3>1. -1 \in {-1, 0, 1} /\ 0 \in {0} \cup Times
      OBVIOUS
    <3> QED
      BY <3>1 DEF Init, Row, NoImage
  <2>3. timed \in Seq({0} \cup Times)
    BY DEF Init
  <2>4. /\ ref = FALSE /\ image \in Images \cup {NoImage} /\ hoists \in BOOLEAN
        /\ pc = "args" /\ i \in Nat /\ img \in Images \cup {NoImage}
        /\ stages \in {0} \cup Times /\ stageMin \in {0} \cup Times
        /\ sampler = "none" /\ calls \in Nat
    BY DEF Init
  <2> QED
    BY <2>1, <2>2, <2>3, <2>4 DEF TypeOK
<1>2. Progress
  BY DEF Init, Progress, Blank
<1>3. LeastSoFar
  BY DEF Init, LeastSoFar
<1>4. Results
  BY DEF Init, Results, VerdictExact, ErrorTellsProgress, StageIsMinimum, SamplerConfined,
     Measured, Returned
<1> QED
  BY <1>1, <1>2, <1>3, <1>4 DEF FileInv

\* What a successful decode leaves.
LEMMA DoDecodeFacts ==
    ASSUME TypeOK, image \in Images, DoDecode
    PROVE  /\ img' \in Images \cup {NoImage} /\ stages' \in {0} \cup Times
           /\ calls' = calls + 1 /\ calls' \in Nat
           /\ Path = "decode_with_stages" => stages' \in Times
           /\ Path # "decode_with_stages" => stages' = stages
           /\ img = After(calls) => img' = IF Pixels THEN image ELSE NoImage
BY DEF TypeOK, DoDecode, After, Pixels

\* Every step keeps the types.
LEMMA NextTypeOK ==
    ASSUME FileInv, [Next]_vars
    PROVE  TypeOK'
<1> USE DEF FileInv, TypeOK, fixed
<1>1. CASE ReadOption
  <2>1. opts' \in Options /\ (opts'.scale => opts'.stages /\ ~opts'.verify)
    BY <1>1, OptionsKept DEF ReadOption, ReadArgument
  <2>2. args' \in 0..MaxArgs
    BY <1>1, CommandAssumption DEF ReadOption, ReadArgument
  <2>3. UNCHANGED <<ref, image, hoists, pc, i, img, stages, stageMin, sampler, r, calls,
                    timed>> /\ pc = "args"
    BY <1>1 DEF ReadOption
  <2> QED
    BY <2>1, <2>2, <2>3 DEF Progress
<1>2. CASE Call
  <2>1. opts' \in Options /\ (opts'.scale => opts'.stages /\ ~opts'.verify)
    BY <1>2, OptionsKept DEF Call
  <2>2. args' \in 0..MaxArgs
    BY <1>2, CommandAssumption DEF Call
  <2>3. UNCHANGED <<i, img, stages, stageMin, sampler, r, calls, timed>>
        /\ image' \in Images /\ hoists' \in BOOLEAN /\ pc' = "entry"
    BY <1>2 DEF Call
  <2>4. ref' => opts'.verify /\ ~opts'.headerOnly
    <3>1. ref' => opts.verify /\ ~opts.headerOnly
      BY <1>2 DEF Call
    <3>2. opts'.verify = opts.verify /\ opts'.headerOnly = opts.headerOnly
      BY <1>2 DEF Call, ForFile, Options
    <3> QED
      BY <3>1, <3>2
  <2> QED
    BY <2>1, <2>2, <2>3, <2>4
<1>3. CASE Correctness
  <2>1. /\ UNCHANGED <<opts, args, ref, image, hoists, i, stages, stageMin, timed>>
        /\ image \in Images /\ calls' = calls + 1
        /\ pc' = "returned" /\ sampler' \in {sampler, "stopped"}
    BY <1>3 DEF Correctness, Return, Progress
  <2>2. PICK ok \in BOOLEAN :
           /\ img' = IF ok THEN image ELSE img
           /\ r' = IF ok THEN [r EXCEPT !.outcome = "decoded", !.dims = image]
                         ELSE [r EXCEPT !.outcome = "rejected", !.error = "decode"]
    BY <1>3 DEF Correctness, Return
  <2>3. img' \in Images \cup {NoImage}
    BY <2>1, <2>2
  <2>4. CASE ok
    <3>1. r' = [r EXCEPT !.outcome = "decoded", !.dims = image] /\ image \in Images \cup {NoImage}
      BY <2>1, <2>2, <2>4
    <3>2. r' \in Row
      BY <3>1 DEF Row
    <3> QED
      BY <2>1, <2>3, <3>2
  <2>5. CASE ~ok
    <3>1. r' = [r EXCEPT !.outcome = "rejected", !.error = "decode"]
      BY <2>2, <2>5
    <3>2. r' \in Row
      BY <3>1 DEF Row
    <3> QED
      BY <2>1, <2>3, <3>2
  <2> QED
    BY <2>4, <2>5
<1>4. CASE Enter \/ WarmupDone
  BY <1>4 DEF Enter, WarmupDone
<1>5. CASE PrepareFails \/ Prepare \/ WarmupFails
  <2>1. r' \in Row
    BY <1>5 DEF PrepareFails, Prepare, WarmupFails, Return, Row
  <2> QED
    BY <1>5, <2>1 DEF PrepareFails, Prepare, WarmupFails, Return
<1>6. CASE Warmup
  <2>1. image \in Images /\ UNCHANGED <<fixed, pc, stageMin, sampler, r, timed>> /\ i' = i + 1
    BY <1>6 DEF Warmup, Progress
  <2>2. img' \in Images \cup {NoImage} /\ stages' \in {0} \cup Times /\ calls' \in Nat
    BY <1>6, <2>1, DoDecodeFacts DEF Warmup
  <2> QED
    BY <2>1, <2>2
<1>7. CASE VerifyAndStartSampler
  <2>1. r' \in Row
    BY <1>7 DEF VerifyAndStartSampler, Compare, Row
  <2> QED
    BY <1>7, <2>1 DEF VerifyAndStartSampler
<1>8. CASE Iterate
  <2>1. image \in Images /\ UNCHANGED <<fixed, pc, sampler, r>> /\ i' = i + 1
        /\ timed' = Append(timed, stages')
    BY <1>8 DEF Iterate, Progress
  <2>2. img' \in Images \cup {NoImage} /\ stages' \in {0} \cup Times /\ calls' \in Nat
    BY <1>8, <2>1, DoDecodeFacts DEF Iterate
  <2>3. stageMin' \in {0} \cup Times
    <3>1. stageMin \in Nat /\ stages' \in Nat
      BY <2>2, TimesAreNumbers
    <3>2. Min({stageMin, stages'}) \in {stageMin, stages'}
      BY <3>1, MinOfTwo
    <3> QED
      BY <1>8, <2>2, <3>2 DEF Iterate, KeepMin
  <2>4. timed' \in Seq({0} \cup Times)
    BY <2>1, <2>2
  <2> QED
    BY <2>1, <2>2, <2>3, <2>4
<1>9. CASE IterateFails
  <2>1. r' \in Row
    BY <1>9 DEF IterateFails, Return, Row
  <2> QED
    BY <1>9, <2>1 DEF IterateFails, Return
<1>10. CASE Summarise
  <2>1. r' \in Row
    BY <1>10 DEF Summarise, Return, Row
  <2> QED
    BY <1>10, <2>1 DEF Summarise, Return
<1>11. CASE UNCHANGED vars
  BY <1>11 DEF vars
<1> QED
  BY <1>1, <1>2, <1>3, <1>4, <1>5, <1>6, <1>7, <1>8, <1>9, <1>10, <1>11 DEF Next, Step

\* Every step keeps what is true at each place of the call.
LEMMA NextProgress ==
    ASSUME FileInv, [Next]_vars
    PROVE  Progress'
<1> USE DEF FileInv, TypeOK, fixed, Progress
<1>0. opts.warmup \in Nat /\ opts.iters \in Nat /\ i \in Nat /\ calls \in Nat
  BY DEF Options
<1>1. CASE ReadOption
  BY <1>1 DEF ReadOption, Blank
<1>2. CASE Call
  BY <1>2 DEF Call, Blank
<1>3. CASE Correctness \/ PrepareFails \/ WarmupFails \/ IterateFails \/ Summarise
  BY <1>3 DEF Correctness, PrepareFails, WarmupFails, IterateFails, Summarise, Return
<1>4. CASE Enter
  BY <1>0, <1>4 DEF Enter, Blank, After
<1>5. CASE Prepare
  <2>1. r'.error = r.error /\ r'.match = r.match /\ r'.dims = r.dims
        /\ r'.iters = r.iters /\ r'.stage = r.stage
    BY <1>5 DEF Prepare, Row
  <2> QED
    BY <1>0, <1>5, <2>1 DEF Prepare, Blank, After
<1>6. CASE Warmup
  <2>1. image \in Images /\ UNCHANGED <<fixed, pc, stageMin, sampler, r, timed>>
        /\ i' = i + 1 /\ pc = "warmup" /\ i < opts.warmup /\ img = After(calls)
        /\ calls = i
    BY <1>6 DEF Warmup
  <2>2. calls' = calls + 1 /\ img' = IF Pixels THEN image ELSE NoImage
    BY <1>6, <2>1, DoDecodeFacts DEF Warmup
  <2>3. Pixels' = Pixels
    BY <2>1 DEF Pixels, Path, Prepared
  <2>4. img' = After(calls)'
    BY <1>0, <2>1, <2>2, <2>3 DEF After
  <2>5. i' <= opts'.warmup /\ calls' = i'
    BY <1>0, <2>1, <2>2
  <2>6. Blank'
    BY <2>1 DEF Blank
  <2> QED
    BY <2>1, <2>4, <2>5, <2>6
<1>7. CASE WarmupDone
  BY <1>7 DEF WarmupDone, Blank, After, Pixels, Path, Prepared
<1>8. CASE VerifyAndStartSampler
  <2>1. UNCHANGED <<fixed, i, img, calls>> /\ r' = Compare /\ pc = "verify"
        /\ pc' = "iterate" /\ sampler' = IF opts.scale THEN "running" ELSE sampler
    BY <1>8 DEF VerifyAndStartSampler
  <2>2. After(calls)' = After(calls) /\ After(opts.warmup)' = After(opts.warmup)
    BY <2>1 DEF After, Pixels, Path, Prepared
  <2>3. /\ r'.error \in {"none", "shape"} /\ r'.iters = r.iters /\ r'.stage = r.stage
        /\ r'.dims = img
        /\ ref => (r'.match = IF img = "equal" THEN 1 ELSE 0)
        /\ ~ref => r'.match = -1
    BY <2>1 DEF Compare, Blank, Row, NoImage
  <2>4. Verdict'
    <3>1. CASE ref
      <4>1. Pixels
        BY <3>1 DEF Pixels, Path
      <4>2. img = "equal" <=> image = "equal" /\ opts.warmup > 0
        BY <2>1, <4>1 DEF After, NoImage
      <4> QED
        BY <2>1, <2>3, <3>1, <4>2 DEF Verdict
    <3>2. CASE ~ref
      BY <2>3, <3>2 DEF Verdict
    <3> QED BY <3>1, <3>2
  <2> QED
    BY <1>0, <2>1, <2>2, <2>3, <2>4 DEF Blank
<1>9. CASE Iterate
  <2>1. image \in Images /\ UNCHANGED <<fixed, pc, sampler, r>>
        /\ i' = i + 1 /\ pc = "iterate" /\ i < opts.iters /\ img = After(calls)
        /\ calls = opts.warmup + i
    BY <1>9 DEF Iterate
  <2>2. calls' = calls + 1 /\ img' = IF Pixels THEN image ELSE NoImage
    BY <1>9, <2>1, DoDecodeFacts DEF Iterate
  <2>3. Pixels' = Pixels
    BY <2>1 DEF Pixels, Path, Prepared
  <2>4. img' = After(calls)' /\ After(opts.warmup)' = After(opts.warmup)
    BY <1>0, <2>1, <2>2, <2>3 DEF After
  <2>5. i' <= opts'.iters /\ calls' = opts'.warmup + i'
    BY <1>0, <2>1, <2>2
  <2>6. Verdict'
    BY <2>1 DEF Verdict
  <2> QED
    BY <2>1, <2>4, <2>5, <2>6
<1>10. CASE UNCHANGED vars
  BY <1>10 DEF vars, Blank, After, Pixels, Path, Prepared, Verdict
<1> QED
  BY <1>1, <1>2, <1>3, <1>4, <1>5, <1>6, <1>7, <1>8, <1>9, <1>10 DEF Next, Step

\* Every step keeps stage_min the least timing of the timed loop.
LEMMA NextLeastSoFar ==
    ASSUME FileInv, [Next]_vars
    PROVE  LeastSoFar'
<1> USE DEF FileInv, TypeOK, fixed, LeastSoFar
<1>1. CASE ReadOption \/ Call
  BY <1>1 DEF ReadOption, Call, Progress
<1>2. CASE Correctness \/ PrepareFails \/ WarmupFails \/ IterateFails \/ Summarise
  BY <1>2 DEF Correctness, PrepareFails, WarmupFails, IterateFails, Summarise, Return
<1>3. CASE Enter \/ Prepare \/ WarmupDone
  BY <1>3 DEF Enter, Prepare, WarmupDone, Path, Prepared
<1>4. CASE Warmup
  <2>1. image \in Images /\ UNCHANGED <<fixed, pc, stageMin, timed>> /\ pc = "warmup"
    BY <1>4 DEF Warmup, Progress
  <2>2. Path # "decode_with_stages" => stages' = stages
    BY <1>4, <2>1, DoDecodeFacts DEF Warmup
  <2>3. Path' = Path
    BY <2>1 DEF Path, Prepared
  <2> QED
    BY <2>1, <2>2, <2>3
<1>5. CASE VerifyAndStartSampler
  <2>1. Path' = Path
    BY <1>5 DEF VerifyAndStartSampler, Path, Prepared
  <2>2. i = 0 /\ timed' = <<>> /\ stageMin' = 0
    BY <1>5 DEF VerifyAndStartSampler, Progress
  <2> QED
    BY <1>5, <2>1, <2>2 DEF VerifyAndStartSampler
<1>6. CASE Iterate
  <2>1. image \in Images /\ UNCHANGED <<fixed, pc>> /\ pc = "iterate"
        /\ timed' = Append(timed, stages') /\ i' = i + 1 /\ i \in Nat
        /\ timed \in Seq({0} \cup Times) /\ Len(timed) = i
    BY <1>6 DEF Iterate, Progress
  <2>2. /\ stages' \in {0} \cup Times
        /\ Path # "decode_with_stages" => stages' = stages
    BY <1>6, <2>1, DoDecodeFacts DEF Iterate
  <2>3. Path' = Path
    BY <2>1 DEF Path, Prepared
  <2>4. stageMin \in Nat /\ stages' \in Nat
    BY <2>2, TimesAreNumbers
  <2>5. Len(timed') = i' /\ timed'[i + 1] = stages'
        /\ \A k \in 1..i : timed'[k] = timed[k]
    BY <2>1, <2>2
  <2>6. CASE Path # "decode_with_stages"
    <3>1. stages' = 0 /\ stageMin = 0
      BY <2>1, <2>2, <2>6
    <3>2. Min({stageMin, stages'}) = 0
      BY <2>4, <3>1, MinOfTwo
    <3>3. stageMin' = 0
      BY <1>6, <3>1, <3>2 DEF Iterate, KeepMin
    <3> QED
      BY <2>1, <2>3, <2>5, <2>6, <3>1, <3>3
  <2>7. CASE Path = "decode_with_stages"
    <3>0. opts.stages
      BY <2>7 DEF Path
    <3>1. CASE i = 0
      <4>1. stageMin' = stages'
        BY <1>6, <3>0, <3>1 DEF Iterate, KeepMin
      <4> QED
        BY <2>1, <2>3, <2>4, <2>5, <2>7, <3>1, <4>1
    <3>2. CASE i > 0
      <4>1. stageMin' = Min({stageMin, stages'})
        BY <1>6, <2>1, <3>0, <3>2 DEF Iterate, KeepMin
      <4>2. stageMin' \in {stageMin, stages'} /\ stageMin' <= stageMin /\ stageMin' <= stages'
        BY <2>4, <4>1, MinOfTwo
      <4>3. \A k \in 1..i : timed[k] \in Nat
        <5> SUFFICES ASSUME NEW k \in 1..i PROVE timed[k] \in Nat
          OBVIOUS
        <5>1. timed[k] \in {0} \cup Times
          BY <2>1
        <5> QED BY <5>1, TimesAreNumbers
      <4>4. \E k \in 1..i' : timed'[k] = stageMin'
        <5>1. CASE stageMin' = stages'
          BY <2>1, <2>5, <5>1
        <5>2. CASE stageMin' = stageMin
          <6>1. PICK k \in 1..i : timed[k] = stageMin
            BY <2>1, <2>7, <3>2
          <6>2. k \in 1..i' /\ timed'[k] = stageMin'
            BY <2>1, <2>5, <5>2, <6>1
          <6> QED BY <6>2
        <5> QED BY <4>2, <5>1, <5>2
      <4>5. \A k \in 1..i' : stageMin' <= timed'[k]
        <5> SUFFICES ASSUME NEW k \in 1..i' PROVE stageMin' <= timed'[k]
          OBVIOUS
        <5>1. CASE k = i + 1
          BY <2>5, <4>2, <5>1
        <5>2. CASE k # i + 1
          <6>1. k \in 1..i
            BY <2>1, <5>2
          <6>2. stageMin <= timed[k] /\ timed'[k] = timed[k] /\ timed[k] \in Nat
            BY <2>1, <2>5, <2>7, <3>2, <4>3, <6>1
          <6> QED BY <2>4, <4>2, <6>2
        <5> QED BY <5>1, <5>2
      <4> QED
        BY <2>1, <2>3, <2>5, <2>7, <4>4, <4>5
    <3> QED
      BY <2>1, <3>1, <3>2
  <2> QED
    BY <2>6, <2>7
<1>7. CASE UNCHANGED vars
  BY <1>7 DEF vars, Path, Prepared
<1> QED
  BY <1>1, <1>2, <1>3, <1>4, <1>5, <1>6, <1>7 DEF Next, Step

\* Every way out of the call leaves a row that says what happened.
LEMMA NextResults ==
    ASSUME FileInv, [Next]_vars
    PROVE  Results'
<1> USE DEF FileInv, TypeOK, fixed, Results
<1> USE DEF VerdictExact, ErrorTellsProgress, SamplerConfined, StageIsMinimum, Measured,
            Returned, NoFailure
<1>0. opts.warmup \in Nat /\ opts.iters \in Nat /\ i \in Nat /\ calls \in Nat
  BY DEF Options
<1>1. CASE ReadOption \/ Call
  BY <1>1 DEF ReadOption, Call, Progress
<1>2. CASE Correctness
  BY <1>2 DEF Correctness, Return, Progress
<1>3. CASE Enter \/ Prepare \/ Warmup \/ WarmupDone
  BY <1>3 DEF Enter, Prepare, Warmup, WarmupDone, Progress
<1>4. CASE VerifyAndStartSampler \/ Iterate
  BY <1>4 DEF VerifyAndStartSampler, Iterate, Progress
<1>5. CASE PrepareFails
  <2>1. r' = [r EXCEPT !.error = "prepare"] /\ opts' = opts /\ Blank
        /\ pc' = "returned" /\ sampler' # "running"
    BY <1>5 DEF PrepareFails, Return, Progress
  <2>2. r'.error = "prepare" /\ r'.match = -1 /\ r'.dims = NoImage /\ r'.iters = 0
        /\ r'.stage = 0
    BY <2>1 DEF Blank, Row
  <2> QED
    BY <2>1, <2>2
<1>6. CASE WarmupFails
  <2>1. r' = [r EXCEPT !.error = "warmup"] /\ opts' = opts /\ Blank
        /\ pc' = "returned" /\ sampler' # "running"
    BY <1>6 DEF WarmupFails, Return, Progress
  <2>2. r'.error = "warmup" /\ r'.match = -1 /\ r'.dims = NoImage /\ r'.iters = 0
        /\ r'.stage = 0
    BY <2>1 DEF Blank, Row
  <2> QED
    BY <2>1, <2>2
<1>7. CASE IterateFails
  <2>1. r' = [r EXCEPT !.error = "iter", !.iters = i] /\ UNCHANGED <<opts, image>>
        /\ pc' = "returned" /\ sampler' # "running" /\ i < opts.iters /\ Verdict
        /\ r.stage = 0
    BY <1>7 DEF IterateFails, Return, Progress
  <2>2. r'.error = "iter" /\ r'.match = r.match /\ r'.iters = i /\ r'.stage = 0
    BY <2>1 DEF Row
  <2> QED
    BY <2>1, <2>2 DEF Verdict
<1>8. CASE Summarise
  <2>1. r' = [r EXCEPT !.iters = i, !.stage = stageMin,
                       !.dims = IF r.dims = NoImage THEN img ELSE r.dims]
        /\ UNCHANGED <<opts, image, calls, timed>>
        /\ pc' = "returned" /\ sampler' # "running" /\ i = opts.iters /\ Verdict
        /\ r.error \in {"none", "shape"} /\ pc = "iterate"
        /\ calls = opts.warmup + i /\ img = After(calls) /\ r.dims = After(opts.warmup)
    BY <1>8 DEF Summarise, Return, Progress
  <2>2. r'.error = r.error /\ r'.match = r.match /\ r'.iters = i /\ r'.stage = stageMin
        /\ r'.dims = IF r.dims = NoImage THEN img ELSE r.dims
    BY <2>1 DEF Row
  <2>3. VerdictExact'
    BY <2>1, <2>2 DEF Verdict
  <2>4. r'.dims = IF opts.headerOnly \/ calls = 0 THEN NoImage ELSE image
    <3>1. Pixels <=> ~opts.headerOnly
      BY DEF Pixels, Path
    <3>2. image \in Images /\ image # NoImage
      BY <2>1 DEF Progress, Images, NoImage
    <3> QED
      BY <1>0, <2>1, <2>2, <3>1, <3>2 DEF After
  <2>5. ErrorTellsProgress'
    BY <2>1, <2>2, <2>4
  <2>6. StageIsMinimum'
    <3>1. Path' = Path
      BY <2>1 DEF Path, Prepared
    <3>2. CASE Path = "decode_with_stages" /\ opts.iters > 0
      <4> DEFINE S == {timed[k] : k \in DOMAIN timed}
      <4>1. DOMAIN timed = 1..i /\ \A k \in 1..i : timed[k] \in Nat
        BY <1>0, <2>1, TimesAreNumbers DEF LeastSoFar
      <4>2. S \in SUBSET Nat /\ stageMin \in S /\ \A x \in S : stageMin <= x
        BY <2>1, <3>2, <4>1 DEF LeastSoFar
      <4> HIDE DEF S
      <4>3. Min(S) = stageMin
        BY <4>2, MinIs
      <4> QED
        BY <2>1, <2>2, <3>1, <3>2, <4>3 DEF S
    <3>3. CASE ~(Path = "decode_with_stages" /\ opts.iters > 0)
      <4>1. stageMin = 0
        BY <1>0, <2>1, <3>3 DEF LeastSoFar
      <4> QED
        BY <2>1, <2>2, <3>1, <3>3, <4>1
    <3> QED BY <3>2, <3>3
  <2>7. SamplerConfined'
    BY <2>1
  <2> QED
    BY <2>3, <2>5, <2>6, <2>7
<1>9. CASE UNCHANGED vars
  BY <1>9 DEF vars, Path, Prepared
<1> QED
  BY <1>1, <1>2, <1>3, <1>4, <1>5, <1>6, <1>7, <1>8, <1>9 DEF Next, Step
-----------------------------------------------------------------------------
\* Theorems.

\* The invariant holds in every state of every call.
THEOREM FileInvariant == Spec => []FileInv
<1>1. Init => FileInv
  BY InitInv
<1>2. FileInv /\ [Next]_vars => FileInv'
  BY NextTypeOK, NextProgress, NextLeastSoFar, NextResults DEF FileInv
<1> QED
  BY <1>1, <1>2, PTL DEF Spec

\* For every command line and decoder: the verdict of a row is right whenever
\* a warmup decoded the image it is about.
THEOREM VerdictExactHolds == Spec => []VerdictExact
<1>1. FileInv => VerdictExact
  BY DEF FileInv, Results
<1> QED
  BY <1>1, FileInvariant, PTL

\* For every command line and decoder: the error says how far the call got.
THEOREM ErrorTellsProgressHolds == Spec => []ErrorTellsProgress
<1>1. FileInv => ErrorTellsProgress
  BY DEF FileInv, Results
<1> QED
  BY <1>1, FileInvariant, PTL

\* For every command line and decoder: the sampler lives as long as the timed
\* loop.
THEOREM SamplerConfinedHolds == Spec => []SamplerConfined
<1>1. FileInv => SamplerConfined
  BY DEF FileInv, Results
<1> QED
  BY <1>1, FileInvariant, PTL

\* For every number of iterations and all timings: the breakdown is the least.
THEOREM StageIsMinimumHolds == Spec => []StageIsMinimum
<1>1. FileInv => StageIsMinimum
  BY DEF FileInv, Results
<1> QED
  BY <1>1, FileInvariant, PTL
-----------------------------------------------------------------------------
(* The sampler that bench_file starts before its timed loop, and stops.     *)

\* Where the two threads are, once stop() has begun or ended.
Stages ==
    /\ place \in {"new", "started"} => thr = "none" /\ peak = 0 /\ seen = 0
    /\ place \in {"started", "working"} => running
    /\ place \in {"last", "load", "raise", "return", "stopped"} => thr = "ended"
    /\ place \in {"join", "last", "load", "raise", "return", "stopped"} => ~running
    /\ place = "clear" => running \/ thr = "ended"
    /\ place = "stopped" => result = peak
    /\ result # 0 => /\ place \in {"clear", "return", "stopped"} /\ ~running
                     /\ thr = "ended" /\ result = peak

\* The sample a thread holds and has not yet raised the peak to.
Held == IF thr \in {"load", "raise"} THEN kb ELSE 0
HeldLast == IF place \in {"load", "raise"} THEN mkb ELSE 0

\* No sample is lost: each is in the peak or still in its thread's hands, and
\* what a compare-and-swap expects is never more than the peak.
NothingLost ==
    /\ seen = Larger(peak, Larger(Held, HeldLast))
    /\ thr = "raise" => prev <= peak
    /\ place = "raise" => mprev <= peak

\* Nothing is made up.
Bounded == seen <= top /\ (place # "new" => rss <= top)

\* The inductive invariant.
SamplerInv == SamplerTypeOK /\ Stages /\ NothingLost /\ Bounded
-----------------------------------------------------------------------------
\* Sizes are numbers.
LEMMA SizesAreNumbers == \A n \in {0} \cup Sizes : n \in Nat
BY SamplerAssumption

\* The larger of two sizes is a size.
LEMMA LargerType ==
    ASSUME NEW a \in {0} \cup Sizes, NEW b \in {0} \cup Sizes
    PROVE  Larger(a, b) \in {0} \cup Sizes
BY DEF Larger

\* The sampler starts with nothing sampled.
LEMMA InitSampler == SamplerInit => SamplerInv
<1> SUFFICES ASSUME SamplerInit PROVE SamplerInv
  OBVIOUS
<1>1. SamplerTypeOK
  <2>1. 0 \in 0..MaxChanges
    BY SamplerAssumption
  <2> QED
    BY <2>1 DEF SamplerInit, SamplerTypeOK
<1>2. Stages
  BY DEF SamplerInit, Stages
<1>3. NothingLost
  BY DEF SamplerInit, NothingLost, Held, HeldLast, Larger
<1>4. Bounded
  BY DEF SamplerInit, Bounded
<1> QED
  BY <1>1, <1>2, <1>3, <1>4 DEF SamplerInv

\* Every step keeps the types.
LEMMA NextSamplerTypes ==
    ASSUME SamplerTypeOK, [SamplerNext]_samplerVars
    PROVE  SamplerTypeOK'
<1> USE DEF SamplerTypeOK, thread, caller, history
<1>1. CASE Change
  <2>1. changes' \in 0..MaxChanges
    BY <1>1, SamplerAssumption DEF Change
  <2>2. rss' \in Sizes /\ top' \in {0} \cup Sizes
    BY <1>1, LargerType DEF Change
  <2> QED
    BY <1>1, <2>1, <2>2 DEF Change
<1>2. CASE Start \/ Spawn
  BY <1>2 DEF Start, Spawn
<1>3. CASE Test \/ Load \/ Raise \/ Wake
  BY <1>3 DEF Test, Load, Raise, Wake
<1>4. CASE Sample
  BY <1>4, LargerType DEF Sample
<1>5. CASE CallStop \/ Clear \/ Join \/ LastLoad \/ LastRaise \/ ReturnPeak
  BY <1>5 DEF CallStop, Clear, Join, LastLoad, LastRaise, ReturnPeak
<1>6. CASE LastSample
  BY <1>6, LargerType DEF LastSample
<1>7. CASE UNCHANGED samplerVars
  BY <1>7 DEF samplerVars
<1> QED
  BY <1>1, <1>2, <1>3, <1>4, <1>5, <1>6, <1>7 DEF SamplerNext, PollStep, StopStep

\* Every step keeps the order of the two threads.
LEMMA NextStages ==
    ASSUME SamplerInv, [SamplerNext]_samplerVars
    PROVE  Stages'
<1> USE DEF SamplerInv, SamplerTypeOK, Stages, thread, caller, history
<1>1. CASE Change
  BY <1>1 DEF Change
<1>2. CASE Start \/ Spawn
  BY <1>2 DEF Start, Spawn
<1>3. CASE Test \/ Sample \/ Load \/ Wake
  BY <1>3 DEF Test, Sample, Load, Wake
<1>4. CASE Raise
  BY <1>4 DEF Raise
<1>5. CASE CallStop \/ Clear \/ Join
  BY <1>5 DEF CallStop, Clear, Join
<1>6. CASE LastSample \/ LastLoad \/ LastRaise
  BY <1>6 DEF LastSample, LastLoad, LastRaise
<1>7. CASE ReturnPeak
  BY <1>7 DEF ReturnPeak
<1>8. CASE UNCHANGED samplerVars
  BY <1>8 DEF samplerVars
<1> QED
  BY <1>1, <1>2, <1>3, <1>4, <1>5, <1>6, <1>7, <1>8 DEF SamplerNext, PollStep, StopStep

\* Every step keeps each sample in the peak or in a thread's hands.
LEMMA NextNothingLost ==
    ASSUME SamplerInv, [SamplerNext]_samplerVars
    PROVE  NothingLost'
<1> USE DEF SamplerInv, NothingLost, Held, HeldLast, Larger
<1>0. /\ peak \in Nat /\ kb \in Nat /\ prev \in Nat /\ mkb \in Nat /\ mprev \in Nat
      /\ rss \in Nat /\ seen \in Nat
  BY SizesAreNumbers DEF SamplerTypeOK
<1>1. CASE Change
  BY <1>1 DEF Change, thread, caller
<1>2. CASE Start
  BY <1>2 DEF Start, thread
<1>3. CASE Spawn
  BY <1>0, <1>3 DEF Spawn, Stages, history
<1>4. CASE Test \/ Wake
  BY <1>4 DEF Test, Wake, caller, history
<1>5. CASE Sample
  BY <1>0, <1>5 DEF Sample, caller
<1>6. CASE Load
  BY <1>0, <1>6 DEF Load, caller, history
<1>7. CASE Raise
  <2>1. HeldLast = 0 /\ HeldLast' = 0 /\ UNCHANGED <<caller, history, kb>> /\ thr = "raise"
    BY <1>7 DEF Raise, caller, Stages
  <2>2. CASE kb <= prev /\ thr' = "sleep" /\ UNCHANGED <<peak, prev>>
    BY <1>0, <2>1, <2>2 DEF caller, history
  <2>3. CASE kb > prev /\ peak = prev /\ peak' = kb /\ thr' = "sleep" /\ prev' = prev
    BY <1>0, <2>1, <2>3 DEF caller, history
  <2>4. CASE prev' = peak /\ UNCHANGED <<thr, peak>>
    BY <1>0, <2>1, <2>4 DEF caller, history
  <2> QED
    BY <1>7, <2>2, <2>3, <2>4 DEF Raise
<1>8. CASE CallStop \/ Clear \/ Join
  BY <1>8 DEF CallStop, Clear, Join, thread, history
<1>9. CASE LastSample
  BY <1>0, <1>9 DEF LastSample, thread
<1>10. CASE LastLoad
  BY <1>0, <1>10 DEF LastLoad, thread, history
<1>11. CASE LastRaise
  <2>1. Held = 0 /\ Held' = 0 /\ UNCHANGED <<thread, history, mkb>> /\ place = "raise"
    BY <1>11 DEF LastRaise, thread, Stages
  <2>2. CASE mkb <= mprev /\ place' = "return" /\ UNCHANGED <<peak, mprev>>
    BY <1>0, <2>1, <2>2 DEF thread, history
  <2>3. CASE mkb > mprev /\ peak = mprev /\ peak' = mkb /\ place' = "return" /\ mprev' = mprev
    BY <1>0, <2>1, <2>3 DEF thread, history
  <2>4. CASE mprev' = peak /\ UNCHANGED <<place, peak>>
    BY <1>0, <2>1, <2>4 DEF thread, history
  <2> QED
    BY <1>11, <2>2, <2>3, <2>4 DEF LastRaise
<1>12. CASE ReturnPeak
  BY <1>12 DEF ReturnPeak, thread, history
<1>13. CASE UNCHANGED samplerVars
  BY <1>13 DEF samplerVars, thread, caller, history
<1> QED
  BY <1>1, <1>2, <1>3, <1>4, <1>5, <1>6, <1>7, <1>8, <1>9, <1>10, <1>11, <1>12, <1>13
  DEF SamplerNext, PollStep, StopStep

\* No sample exceeds the largest size.
LEMMA NextBounded ==
    ASSUME SamplerInv, [SamplerNext]_samplerVars
    PROVE  Bounded'
<1> USE DEF SamplerInv, Bounded, Larger, thread, caller, history
<1>0. /\ rss \in Nat /\ seen \in Nat /\ top \in Nat /\ \A n \in Sizes : n \in Nat
  BY SizesAreNumbers DEF SamplerTypeOK
<1>1. CASE Change
  BY <1>0, <1>1 DEF Change, Stages
<1>2. CASE Start
  BY <1>0, <1>2 DEF Start, Stages
<1>3. CASE Sample \/ LastSample
  BY <1>0, <1>3 DEF Sample, LastSample, Stages
<1>4. CASE Spawn \/ Test \/ Load \/ Wake \/ CallStop \/ Clear \/ Join \/ LastLoad \/ ReturnPeak
  BY <1>4 DEF Spawn, Test, Load, Wake, CallStop, Clear, Join, LastLoad, ReturnPeak
<1>5. CASE Raise \/ LastRaise
  BY <1>5 DEF Raise, LastRaise
<1>6. CASE UNCHANGED samplerVars
  BY <1>6 DEF samplerVars
<1> QED
  BY <1>1, <1>2, <1>3, <1>4, <1>5, <1>6 DEF SamplerNext, PollStep, StopStep
\* The invariant holds in every state of every run.
THEOREM SamplerInvariant == SamplerSpec => []SamplerInv
<1>1. SamplerInit => SamplerInv
  BY InitSampler
<1>2. SamplerInv /\ [SamplerNext]_samplerVars => SamplerInv'
  BY NextSamplerTypes, NextStages, NextNothingLost, NextBounded DEF SamplerInv
<1> QED
  BY <1>1, <1>2, PTL DEF SamplerSpec, SamplerSafe

\* For every set of sizes: stop() returns the largest sample that was read.
THEOREM PeakIsLargestSampleHolds == SamplerSpec => []PeakIsLargestSample
<1>1. SamplerInv => PeakIsLargestSample
  <2> SUFFICES ASSUME SamplerInv, place = "stopped"
               PROVE  result = seen /\ result <= top
    BY DEF PeakIsLargestSample
  <2>1. peak \in Nat
    BY SizesAreNumbers DEF SamplerInv, SamplerTypeOK
  <2>2. seen = Larger(peak, Larger(0, 0)) /\ result = peak
    BY DEF SamplerInv, Stages, NothingLost, Held, HeldLast
  <2> QED
    BY <2>1, <2>2 DEF SamplerInv, Bounded, Larger
<1> QED
  BY <1>1, SamplerInvariant, PTL

\* For every set of sizes: a second stop() returns what the first one did.
THEOREM SecondStopAgreesHolds == SamplerSpec => SecondStopAgrees
<1>1. SamplerInv /\ [SamplerNext]_samplerVars => [result # 0 => result' = result]_samplerVars
  <2> SUFFICES ASSUME SamplerInv, SamplerNext, result # 0
               PROVE  result' = result
    OBVIOUS
  <2>1. CASE ReturnPeak
    BY <2>1 DEF ReturnPeak, SamplerInv, Stages
  <2>2. CASE Change \/ Start \/ Spawn \/ PollStep \/ CallStop
    BY <2>2 DEF Change, Start, Spawn, PollStep, Test, Sample, Load, Raise, Wake, CallStop,
       caller
  <2>3. CASE Clear \/ Join \/ LastSample \/ LastLoad \/ LastRaise
    BY <2>3 DEF Clear, Join, LastSample, LastLoad, LastRaise
  <2> QED
    BY <2>1, <2>2, <2>3 DEF SamplerNext, StopStep
<1> QED
  BY <1>1, SamplerInvariant, PTL DEF SamplerSpec, SamplerSafe, SecondStopAgrees
===============================================================================
