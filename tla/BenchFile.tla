------------------------------ MODULE BenchFile ------------------------------
(***************************************************************************)
(* bench_file of src/bench.cpp: one call, for one file, one decoder and    *)
(* one thread count, from the options the command line gave to the row it  *)
(* returns.                                                                *)
(*                                                                         *)
(* The decoder is the interface of src/adapter.h: any call may fail, and a *)
(* decode that succeeds produces this file's image.  An image is compared  *)
(* only with the reference, so it is one of three values: equal to it, of  *)
(* the same shape with other samples, or of another shape.  One number     *)
(* stands for the four stage timings.                                      *)
(***************************************************************************)
EXTENDS CommandLine, Sequences, FiniteSetsExt

CONSTANT Times   \* the values a stage timing may take

ASSUME FileAssumption == Times \subseteq Nat \ {0} /\ Times # {}

VARIABLES ref,       \* is there a reference image to compare with
          image,     \* what the decoder makes of this file
          hoists,    \* does prepare() hoist work (supports_codec_reuse)
          pc,        \* where the call is
          i,         \* the loop counter
          img,       \* img: the last image decoded
          stages,    \* last_stages
          stageMin,  \* stage_min; 0 while stage_min_seen is false
          sampler,   \* the RSS sampler
          r,         \* the row
          calls,     \* history: calls of the decoder
          timed      \* history: the stage timings of the timed iterations

fixed == <<opts, args, ref, image, hoists>>
vars == <<fixed, pc, i, img, stages, stageMin, sampler, r, calls, timed>>
-----------------------------------------------------------------------------
Images == {"equal", "other_samples", "other_shape"}
NoImage == "none"

Options == [warmup : Nat, iters : Nat, verify : BOOLEAN, roi : BOOLEAN, reuse : BOOLEAN,
            headerOnly : BOOLEAN, stages : BOOLEAN, correctness : BOOLEAN,
            scale : BOOLEAN]

Row == [error : {"none", "prepare", "warmup", "shape", "iter", "decode"},
        match : {-1, 0, 1},
        dims : Images \cup {NoImage},
        iters : Nat,
        stage : {0} \cup Times,
        reused : BOOLEAN,
        outcome : {"unset", "decoded", "rejected"}]

\* Types; and what the flags and main guarantee of the options and the
\* reference, whatever their order.
TypeOK ==
    /\ opts \in Options /\ args \in 0..MaxArgs
    /\ opts.scale => opts.stages /\ ~opts.verify
    /\ ref => opts.verify /\ ~opts.headerOnly
    /\ image \in Images \cup {NoImage}
    /\ hoists \in BOOLEAN
    /\ pc \in {"args", "entry", "prepare", "warmup", "verify", "iterate", "returned"}
    /\ i \in Nat
    /\ img \in Images \cup {NoImage}
    /\ stages \in {0} \cup Times
    /\ stageMin \in {0} \cup Times
    /\ sampler \in {"none", "running", "stopped"}
    /\ r \in Row
    /\ calls \in Nat
    /\ timed \in Seq({0} \cup Times)

Init ==
    /\ opts = Defaults /\ args = 0
    /\ ref = FALSE
    /\ image = NoImage
    /\ hoists = FALSE
    /\ pc = "args"
    /\ i = 0
    /\ img = NoImage
    /\ stages = 0
    /\ stageMin = 0
    /\ sampler = "none"
    /\ r = [error |-> "none", match |-> -1, dims |-> NoImage, iters |-> 0,
            stage |-> 0, reused |-> FALSE, outcome |-> "unset"]
    /\ calls = 0
    /\ timed = <<>>

\* do_decode: which call of the decoder a warmup or an iteration makes.
Prepared == opts.reuse /\ ~opts.roi
Path ==
    IF opts.headerOnly THEN "header_only"
    ELSE IF opts.roi THEN "decode_region"
    ELSE IF Prepared THEN "prepared"
    ELSE IF opts.stages THEN "decode_with_stages"
    ELSE "decode"

\* A successful do_decode: header_only leaves img alone, and only
\* decode_with_stages writes last_stages.
DoDecode ==
    /\ img' = IF Path = "header_only" THEN img ELSE image
    /\ IF Path = "decode_with_stages" THEN stages' \in Times ELSE UNCHANGED stages
    /\ calls' = calls + 1

\* Leaving the function destroys the sampler, which stops it.
Return(row) ==
    /\ pc' = "returned"
    /\ r' = row
    /\ sampler' = IF sampler = "running" THEN "stopped" ELSE sampler
-----------------------------------------------------------------------------
\* The command line is read, one argument at a time.
ReadOption ==
    /\ pc = "args"
    /\ ReadArgument
    /\ UNCHANGED <<ref, image, hoists, pc, i, img, stages, stageMin, sampler, r, calls, timed>>

\* main submits a job for one file and one decoder, with or without a
\* reference image (the bound on the arguments has done its work).
Call ==
    /\ pc = "args"
    /\ opts' \in ForFile(opts) /\ args' = 0
    /\ ref' \in {FALSE, opts.verify /\ ~opts.headerOnly}
    /\ image' \in Images
    /\ hoists' \in BOOLEAN
    /\ pc' = "entry"
    /\ UNCHANGED <<i, img, stages, stageMin, sampler, r, calls, timed>>

\* --correctness: a single decode, no warmup, no timing.
Correctness ==
    /\ pc = "entry" /\ opts.correctness
    /\ \E ok \in BOOLEAN :
        /\ img' = IF ok THEN image ELSE img
        /\ Return(IF ok THEN [r EXCEPT !.outcome = "decoded", !.dims = image]
                        ELSE [r EXCEPT !.outcome = "rejected", !.error = "decode"])
    /\ calls' = calls + 1
    /\ UNCHANGED <<fixed, i, stages, stageMin, timed>>

Enter ==
    /\ pc = "entry" /\ ~opts.correctness
    /\ pc' = IF Prepared THEN "prepare" ELSE "warmup"
    /\ UNCHANGED <<fixed, i, img, stages, stageMin, sampler, r, calls, timed>>

\* Only an adapter that overrides prepare() can fail in it.
PrepareFails ==
    /\ pc = "prepare" /\ hoists
    /\ Return([r EXCEPT !.error = "prepare"])
    /\ UNCHANGED <<fixed, i, img, stages, stageMin, calls, timed>>

Prepare ==
    /\ pc = "prepare"
    /\ r' = [r EXCEPT !.reused = hoists]
    /\ pc' = "warmup"
    /\ UNCHANGED <<fixed, i, img, stages, stageMin, sampler, calls, timed>>

Warmup ==
    /\ pc = "warmup" /\ i < opts.warmup
    /\ DoDecode
    /\ i' = i + 1
    /\ UNCHANGED <<fixed, pc, stageMin, sampler, r, timed>>

\* Mutant: the warmup error is noted and the call goes on.
WarmupFailsOn ==
    /\ pc = "warmup" /\ i < opts.warmup
    /\ r' = [r EXCEPT !.error = "warmup"]
    /\ i' = opts.warmup
    /\ calls' = calls + 1
    /\ UNCHANGED <<fixed, pc, img, stages, stageMin, sampler, timed>>

WarmupFails ==
    /\ pc = "warmup" /\ i < opts.warmup
    /\ Return([r EXCEPT !.error = "warmup"])
    /\ calls' = calls + 1
    /\ UNCHANGED <<fixed, i, img, stages, stageMin, timed>>

WarmupDone ==
    /\ pc = "warmup" /\ i = opts.warmup
    /\ pc' = "verify"
    /\ i' = 0
    /\ UNCHANGED <<fixed, img, stages, stageMin, sampler, r, calls, timed>>

\* Mutant: only the shape is compared.
CompareShapes ==
    IF ~ref \/ opts.headerOnly THEN [r EXCEPT !.dims = img]
    ELSE IF img \in {NoImage, "other_shape"}
         THEN [r EXCEPT !.dims = img, !.match = 0, !.error = "shape"]
         ELSE [r EXCEPT !.dims = img, !.match = 1]

\* same_shape, then the bytes.
Compare ==
    IF ~ref \/ opts.headerOnly THEN [r EXCEPT !.dims = img]
    ELSE IF img \in {NoImage, "other_shape"}
         THEN [r EXCEPT !.dims = img, !.match = 0, !.error = "shape"]
         ELSE [r EXCEPT !.dims = img, !.match = IF img = "equal" THEN 1 ELSE 0]

VerifyAndStartSampler ==
    /\ pc = "verify"
    /\ r' = Compare
    /\ sampler' = IF opts.scale THEN "running" ELSE sampler
    /\ pc' = "iterate"
    /\ UNCHANGED <<fixed, i, img, stages, stageMin, calls, timed>>

\* Mutant: stage_min starts from the first warmup instead of the first
\* timed iteration.
KeepMinFromStart ==
    stageMin' = IF ~opts.stages THEN stageMin
                ELSE IF i = 0 THEN stages
                ELSE Min({stageMin, stages'})

KeepMin ==
    stageMin' = IF ~opts.stages THEN stageMin
                ELSE IF i = 0 THEN stages'
                ELSE Min({stageMin, stages'})

Iterate ==
    /\ pc = "iterate" /\ i < opts.iters
    /\ DoDecode
    /\ KeepMin
    /\ timed' = Append(timed, stages')
    /\ i' = i + 1
    /\ UNCHANGED <<fixed, pc, sampler, r>>

\* Mutant: the early return leaves the sampler's thread behind.
IterateFailsLeaking ==
    /\ pc = "iterate" /\ i < opts.iters
    /\ r' = [r EXCEPT !.error = "iter", !.iters = i]
    /\ pc' = "returned"
    /\ calls' = calls + 1
    /\ UNCHANGED <<fixed, i, img, stages, stageMin, sampler, timed>>

\* The row keeps the statistics of the iterations that succeeded.
IterateFails ==
    /\ pc = "iterate" /\ i < opts.iters
    /\ Return([r EXCEPT !.error = "iter", !.iters = i])
    /\ calls' = calls + 1
    /\ UNCHANGED <<fixed, i, img, stages, stageMin, timed>>

Summarise ==
    /\ pc = "iterate" /\ i = opts.iters
    /\ Return([r EXCEPT !.iters = i, !.stage = stageMin,
                        !.dims = IF r.dims = NoImage THEN img ELSE r.dims])
    /\ UNCHANGED <<fixed, i, img, stages, stageMin, calls, timed>>
-----------------------------------------------------------------------------
Step ==
    \/ ReadOption
    \/ Call
    \/ Correctness
    \/ Enter
    \/ PrepareFails
    \/ Prepare
    \/ Warmup
    \/ WarmupFails
    \/ WarmupDone
    \/ VerifyAndStartSampler
    \/ Iterate
    \/ IterateFails
    \/ Summarise

Returned == pc = "returned"
Next == Step \/ (Returned /\ UNCHANGED vars)

Spec == Init /\ [][Next]_vars
-----------------------------------------------------------------------------
\* Properties.

Measured == Returned /\ ~opts.correctness
NoFailure == r.error \in {"none", "shape"}

\* A row has the verdict 1 exactly when it was measured behind a warmup and
\* this decoder's image is the reference's, also when a later iteration fails.
\* Without a warmup the empty image is compared, and every verdict is 0.
VerdictExact ==
    Measured /\ r.match # -1 =>
        (r.match = 1 <=> image = "equal" /\ opts.warmup > 0)

\* pixel_match: "0 = mismatch, 1 = match" (bench.h 49-50), for any --warmup.
VerdictHonest == Measured /\ r.match # -1 => (r.match = 1 <=> image = "equal")

\* The error says how far the call got: a row that failed before the timed
\* loop carries no measurement, verdict or size; one that failed in it
\* carries fewer iterations than asked and no stage breakdown; one that did
\* not fail made every warmup and iteration, once, and knows the image's size
\* if any of them decoded pixels.
ErrorTellsProgress ==
    Measured =>
        /\ r.error \in {"prepare", "warmup"} =>
               r.iters = 0 /\ r.match = -1 /\ r.dims = NoImage /\ r.stage = 0
        /\ r.error = "iter" => r.iters < opts.iters /\ r.stage = 0
        /\ NoFailure =>
               /\ r.iters = opts.iters /\ calls = opts.warmup + opts.iters
               /\ r.dims = IF opts.headerOnly \/ calls = 0 THEN NoImage ELSE image

\* The sampler lives exactly as long as the timed loop, on every way out.
SamplerConfined ==
    /\ Returned => sampler # "running"
    /\ sampler = "running" => opts.scale /\ pc = "iterate"

\* The breakdown is the minimum over the timed iterations (not the warmups)
\* of decode_with_stages, and zero when that call was not the one timed.
StageIsMinimum ==
    Measured /\ NoFailure =>
        r.stage = IF Path = "decode_with_stages" /\ opts.iters > 0
                  THEN Min({timed[k] : k \in DOMAIN timed}) ELSE 0
=============================================================================
