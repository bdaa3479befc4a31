# A specification of jp2k-bench

`jp2k-bench` measures JPEG 2000 decoders (OpenJPEG, its fork openjp2k, Grok)
side by side in one process and writes JSON. Around it, scripts assemble a
corpus, run the bench under memory caps and compare the logs. This directory
holds TLA+ modules for the parts of it whose order of steps matters, the TLC
configurations that check them, and proofs: every safety property that a run
checks and that the code keeps is also a theorem, for all values of the
constants. Paths below are relative to the repository.

## 1. Inventory

| Component | State | Operations | Interacts with |
|---|---|---|---|
| Thread pool, `src/thread_pool.h` | `q_`, `active_`, `stop_`, `m_`, `cv_`, `done_cv_` | constructor, `submit`, `wait_idle`, destructor, `worker_loop` | main owns it; jobs run on its workers |
| Driver, `src/main.cpp` | options, decoders, one file's bytes, its reference image, `all_results`, stdout | argv loop, per-file loop, the job closure, header, rows, aggregate | submits to the pool; jobs capture its locals by reference |
| Single-file bench, `src/bench.cpp` | the row, the last image, the timings, the sampler | `bench_file`, `summarize` | calls one decoder; started by a job |
| Decoder interface, `src/adapter.h` | none | `decode_region` (default crop), `prepare` (one-shot default) | implemented by the adapters |
| Grok adapter, `src/adapter_grok.cpp` | `decode_mu_`, `init_mu_`, `initialized_`, thread-local error text, Grok's process-wide pool | `decode`, `decode_with_stages`, `header_only` | called by several bench threads; the library calls back with errors |
| OpenJPEG adapter and loader, `src/adapter_opj.cpp`, `src/opj_dyn.cpp` | two symbol tables, thread-local error text, one `MemStream` per call | `load_opj_api`, `header_only`, `decode_with_stages`, `decode`, `decode_region`, `mem_read`/`skip`/`seek` | as above, without a lock |
| RSS sampler, `src/rss.cpp` | `running_`, `peak_kb_`, a poll thread | `start`, `stop` | started and stopped by `bench_file` |
| Scale track, `scripts/run_scale.sh`, `scripts/report_scale.py` | the list of files, one JSONL log per run | the (file, decoder) loop, `_load`, `_regression_gate` | runs the bench as a process under a memory cap; the report reads two logs |
| Subset selection, `scripts/select_synthetic_iter.py` | the chosen set | `stratified_pick` | writes a list of files for `run_bench.sh` |
| JSON output, `src/json_out.cpp` | none | one writer per record | main |
| Image comparison, `src/verify.cpp` | none | `psnr_db` | `bench_file`, on the images two adapters unpacked |
| Bench wrapper, `scripts/run_bench.sh` | one output for all processes | one process per thread count | runs the bench; its output is what the report reads |
| Perf report, `scripts/report.py` | two runs' rows | `_load`, `_load_jsonl`, `_wilcoxon_signed_rank`, `_print_gate`, correctness table | reads what the wrapper's processes wrote |
| Other wrappers `run_correctness.sh`, `run_smoke.sh`; corpus tools `manifest_tool.py`, `check_corpus.sh`, `gen_corpus.sh`, `classify_nonregression.py`; `env_capture.cpp`; build and tests | files | | |

What is hard here, and what would make each part correct:

- **Pool**: every interleaving of three kinds of threads around two condition
  variables. No job is lost, run twice or left beside a sleeping worker;
  `wait_idle` returns only over a quiet pool; the destructor drains and returns.
- **Driver**: jobs read, through references, locals of one turn of main's loop;
  several jobs write to one stream; the process may be killed at any byte. No
  job outlives the turn it was submitted in, each job leaves one row, verdicts
  are against the file's own reference, and what is on stdout parses.
- **Single-file bench**: nine flags that overwrite each other's fields, four
  ways to decode, a failure at any call. The row must say what was measured.
- **Adapters**: some twenty early returns over C objects, a lock and
  thread-local text that survive calls, a process-wide pool sized by whoever
  comes first.
- **Sampler**: two threads that raise one word by compare-and-swap, a flag and a
  join. `stop` takes its own sample only behind the join, so the two loops never
  overlap; all depends on the join.
- **Scale track**: a process that may die before, while or after it reports;
  an orchestrator that may be killed in mid-line; logs that are read later.
- **Region decode**: 32-bit words that wrap, a 0 that means the edge, two ways
  to a region (native and cropped) and two unpackings that must agree.
- **Selection**: picks for one axis take candidates from another.
- **Wrapper and report**: several processes write headers of their own to one
  output, any of them may die in a line or leave out a file and exit 0, the reader
  drops what it cannot parse, and a rank test with ties and zeros decides.

`PROJECT.json` lists the hazards one by one, at their lines, with the
properties that cover them.

## 2. Modules

    ThreadPool --implements--> JobPool <--INSTANCE-- BenchRun
    BenchRun --implements--> ResultStream <--INSTANCE-- PerfGate
    PerfGate --INSTANCE--> StratifiedPick;  PerfGate --EXTENDS--> SignedRank
    BenchFile --EXTENDS--> CommandLine
    RoiDecode --EXTENDS--> Samples
    GrokAdapter, OpjAdapter, RssSampler, ScaleRun   stand alone

For a module M that is run there is an MCM with its configurations, and for
ThreadPool, GrokAdapter, BenchRun, BenchFile, OpjAdapter, RoiDecode, ScaleRun and
PerfGate an MProofs that extends M. What is proved about StratifiedPick and
SignedRank is in PerfGateProofs, which is the pipeline they serve; what is proved
about RssSampler is at the end of BenchFileProofs, which extends both modules
(hence the sampler's prefixed names, `SamplerInit` and so on).

**ThreadPool** (`src/thread_pool.h`). Each critical section under `m_` is one
action, since every access to `q_`, `active_` and `stop_` holds it: `Submit`,
`Destroy`, `Take`, `Finish`, and the tests of the two predicates (`Sleep`,
`Exit`, `WaitIdleSleep`, `WaitIdleReturn`). A notification comes after the
unlock and is an action of its own: `NotifyOne` picks a sleeper or is lost,
`NotifyAll` wakes all, `NotifyDone` wakes the owner if it sleeps. Sleepers may
wake by themselves. `wpc[w]` and `opc` are the places in `worker_loop` and in
the owner's operations; `done` is a history of what has run. The owner is one
thread, as in `main.cpp`; nobody else submits.

**JobPool** is what the driver may rely on: an ordered list of jobs to do, at
most `Width` running, a phase of the owner, and progress. `ThreadPool`
instantiates it with `todo <- q`, `running <-` the jobs of the workers inside
`job()`, `finished <- done`. Sleeping, waking, counting and shutdown are
stutters.

**BenchRun** (`src/main.cpp` 234-517) composes the driver with JobPool rather
than with ThreadPool: the refinement is checked and its safety part proved
separately. `mpc` is main's place, from the loading of the decoders, of which
any may be missing, and `--require-clean` on; `blob` names the file whose bytes
are in memory (0 between turns), so a dangling reference is a running job whose
file is not `blob`. A line goes to stdout in two steps, `Put` and `Flush`, and
`Kill` may come between them. `grokPool` is the size Grok's pool was started
with.

**ResultStream** is what one process promises of its standard output, whoever
reads it. BenchRun implements it (`status` is computed from `mpc`), and PerfGate
builds on it, so that what the report relies on is what the driver provides.

**CommandLine** and **BenchFile** (`src/main.cpp` 112-232 and 429-448,
`src/bench.cpp`). CommandLine holds the options; `ReadArgument` is one turn of
the argv loop. BenchFile reads arguments until `Call`, which applies
`--heavy-iters`, provides a reference or not as main would, and follows
`bench_file` to its return. An image is abstracted to how it compares with the
reference: equal, same shape, other shape, or none yet. One number stands for
the four stage timings.

**GrokAdapter** (`src/adapter_grok.cpp`). `decode`, `decode_with_stages` and
the inherited `decode_region` have the same control and are one kind of call;
`header_only` is the other. Calls are numbered, so an error text can be traced
to the call it is about. `codec` is the set of callers with a live codec.

**OpjAdapter** (`src/adapter_opj.cpp`, `src/opj_dyn.cpp`). `lib` holds the two
`LoadedLib`s; `alive[t]` is the set of library objects the call of thread `t`
has created and not destroyed; the stream callbacks may come in any number and
order while the library reads the header or decodes.

**RssSampler** (`src/rss.cpp`). One atomic access per action; `kb`/`prev` and
`mkb`/`mprev` are the locals of the two compare-and-swap loops.

**ScaleRun** (`scripts/run_scale.sh`, `scripts/report_scale.py`). The bench is
seen from outside: it writes a header, a result or nothing, and an aggregate,
and can die before any of them. `fate` and `printed` are histories of what
became of each invocation and whose line got out; properties compare the logs
with them. Sizes and peaks are in MB.

**RoiDecode** (`--roi` in `src/main.cpp`, `decode_region` in `src/adapter.h` and
in `src/adapter_opj.cpp`, the comparison in `src/bench.cpp`). The reference is
decoded natively, with the rectangle cast to signed words and laid on the
image's grid; the other decoder unpacks the whole image, row by row out of a
buffer with a stride, and the default crop copies the rectangle out of it. A
sample is its index in the planar buffer, and one sample may differ between the
decoders. Words wrap at `Word`.

**Samples** (`unpack_opj_image`, `unpack_grok_comp_to_u8/u16`, `sample` of
`src/verify.cpp`): one sample's shift, clamp and bytes, and how they are read
back. It tells which differing samples a verdict can see.

**StratifiedPick** (`stratified_pick`). The seeded generator is a choice, and so
is the order of the axes and levels, on which the guarantee does not depend.

**SignedRank** (`_wilcoxon_signed_rank`). Ranks are doubled, the variance is
multiplied by 48 and the p-value is compared through the critical value of z
squared, so that all is integer. The stable sort is written as places: a position
stands behind those of smaller keys and the earlier ones of its own (`UpTo`,
`SortedBy`), with the size of a delta as key for the test and the delta itself for
the median. The two sums are loops over the sorted list (`Total`). Beside it stand
the definitions of the same statistics, of deltas indexed by any set, without
order or tie groups: W+ as a count of Walsh averages, the variance as the sum of
the squared ranks, and the sign of the median by how many deltas are over zero.

**PerfGate** (`scripts/run_bench.sh`, `scripts/report.py`) composes the subset
(StratifiedPick), two runs of the wrapper, each of one ResultStream process per
thread count with one output, and the gate. `log[r]` is what run `r` has left;
what is appended behind an unfinished line becomes part of it. `skipped[r]` says
which files run `r` leaves out, at which turns: all turns of a file that is not
there when the wrapper collects its list (`Starts`, which fails if none is left),
one turn of a file that a process finds empty or unreadable (`Skip`,
`src/main.cpp` 406-410: a message, `continue`, and still exit code 0). A process
ends when it has every file behind it, with a row or without. What the builds make
of each row is chosen once the logs are written (`ReadRows`): nothing depends on
it earlier.

## 3. Runs

| Run | Shows | Bounds, and why they are enough |
|---|---|---|
| `thread_pool` | `NoLostWakeup`, `OwnerHasWaker`, `ShutdownReachesAll`, `DestructorDrains`, `WaitReturnsQuiet`; `ImplementsJobPool` with progress | 3 workers, 4 jobs: more jobs than workers, so the queue fills while all are busy, and two workers can sleep while a third takes a job. The safety properties are proved for every size |
| `bench_run` | `NoDanglingCapture`, `RowsComplete`, `ComparedWithOwnReference`; `ImplementsStream`, `RunEnds` | 2 files (a previous turn to confuse), 2 decoders of which either may not load and 2 thread counts (4 jobs per file), 2 at a time, both output formats, reading and reference decoding may fail, kill anywhere. The safety properties are proved for every size |
| `bench_run_grok` | violates `GrokPinnedToFirst` | 1 file, Grok, 8 threads |
| `bench_file` | `VerdictExact`, `ErrorTellsProgress`, `SamplerConfined`, `StageIsMinimum` | up to 9 flags, read one at a time, in any order and multiplicity (after 9 no new options are reached), 0 to 2 warmups and iterations, 2 timings. Proved for every number of each |
| `bench_file_no_warmup` | violates `VerdictHonest` | at most 1 flag |
| `grok_adapter` | `OneDecodeAtATime`, `CodecConfined`, `ErrorIsOwn`; `CallsReturn` | 2 threads, 3 calls: one thread makes two calls (stale text), the other contends |
| `opj_adapter` | `ObjectsFollowTheCall`, `ErrorIsOwn`, `CallsThroughFullTable` | 2 interchangeable threads, 3 calls, 2 libraries with 2 symbols each (first and last), a stream of 1 byte with reads and seeks past it. Proved for every size |
| `rss_sampler` | `PeakIsLargestSample`; `SecondStopAgrees`, `StopReturns` | 3 sizes, 3 changes: up, down and up again around the two loops; stop may be called any number of times. The first two are proved for every number of sizes and changes |
| `scale_run` | `OneLinePerReport`, `HeaderOnceAndFirst`, `GateFindsGrowth`; `RunReportsAll` | 2 files in different tiers, 1 decoder, 2 runs, peaks at and just above the threshold, exit codes inside and outside the overrun class. The three safety properties are proved for every list of files and decoders and all sizes, caps and peaks |
| `scale_overrun` | violates `OverrunIsRegression` | 1 file |
| `roi_decode` | `CropIsRegion`, `RoiHonoured`, `VerdictTellsSamples` | 3-bit words: every rectangle across, with every wraparound and sign, the ones at the edges down; images up to 3 by 3, 2 planes, 4 origins; bytes of 2 bits, samples of one byte, two and more, signed or not. Proved for every width of a word and of a byte, every image and rectangle and all values |
| `perf_gate` | `EveryLevelCovered`, `DropsOnlyTail`, `LogTellsTheRun`, `GateExact`, `LevelRegressionCaught` | 3 records on 2 axes of 2 levels, target 2, 2 thread counts: 6 rows a run, the fewest for which the rank test can find a slowdown at 5%; one mishap (`MaxMishaps`): a run fails, at any point or before its first process, or leaves out a file, at one turn or more; 5 effects on a row: at the ceiling, over it by percentage alone, faster, failing in either run; all rows alike but those of one file (`MaxOdd`), each of which is arbitrary. With this target the second pass of the selection finds nothing to add. 2.0 million states, some 3 minutes. All five are proved for every corpus, target, thread counts, number of mishaps and times. The first `ASSUME` of MCPerfGate compares the rank test and the median with their definitions on all sequences of up to 5 deltas between -2 and 2, the proof does for any number; the second holds the examples of section 4 on the median |

`thread_pool`, `grok_adapter` and `opj_adapter` also check the `TypeOK` of their
module, which says there that `active_` is never below zero, that Grok's pool
has the size somebody asked for, and that the stream's offset stays in the
data. The types of the other modules that have them are part of the proved
invariants.

Each module holds, before some of its actions, mutants: the action with a
plausible bug (a missing notification, a forgotten unlock, a stale flag). With
the mutant in place of the action TLC finds the property violated that
`PROJECT.json` pairs with it. They are part of no specification.

### Fairness

- ThreadPool: weak fairness of each worker's steps and of the steps of an
  operation the owner has begun. The operating system schedules every runnable
  thread and a job returns. Nothing obliges the owner to submit, wait or
  destroy, and spurious wakeups are never assumed.
- JobPool: weak fairness of `Start`, of each `Finish`, and of the returns of
  `wait_idle` and the destructor; ThreadPool implements it.
- BenchRun: weak fairness of main, of the pool's starts and of each job.
  `results_mtx` needs none of its own, since each job takes it once.
- GrokAdapter: weak fairness of each caller. `decode_mu_` is not assumed fair;
  the calls are finitely many, so the last one waiting gets it.
- RssSampler: weak fairness of both threads, strong fairness of the success of
  the compare-and-swap, which may fail spuriously but not for ever. Calling
  `stop` is not assumed.
- ScaleRun: weak fairness of the script and of the bench. An invocation is
  assumed to end: the script has no timeout.
- The other specifications state safety only: `bench_file`, a region decode and
  the report are sequential code, and a process of `run_bench.sh` may take any
  time.

## 4. What the violations show

1. **Grok's pool is pinned by the reference decode** (`bench_run_grok`).
   `main.cpp` 279-280 and 287-289 say that the first `--threads` value pins it.
   With `--decoder grok --threads 8` and verification on, the serial reference
   decode (423-424, one thread) comes first: the pool has one thread, the rows
   say eight.
2. **`--warmup 0` reports a mismatch** (`bench_file_no_warmup`). The comparison
   precedes the timed loop (`bench.cpp` 148-151) and sees an image that was never
   decoded. `--correctness` and `--scale-track` force no verification, so they
   are safe; a plain `--warmup 0` is not.
3. **An overrun passes the regression gate** (`scale_overrun`).
   `report_scale.py` 168-169 drops rows killed by the cap, and a pair missing
   from one side is skipped. `run_scale.sh` 167-169 says that surviving within
   the budget is what the gate cares about.

Other disagreements met while reading, without a run of their own:

- a row says `profile_stages` although the timed call was `prepare`d,
  header-only or a region decode and captured no breakdown (`bench.cpp` 66,
  109-119; `bench.h` 74);
- a row's ROI is the rectangle requested, not the clamped one that was timed
  (`bench.h` 67);
- flags after `--scale-track` undo the shape it "forces" (`main.cpp` 197-206);
- Grok's errors reported on threads of its own pool are lost
  (`adapter_grok.cpp` 59-64);
- the sampler's last sample cannot catch a peak that is over by then
  (`rss.cpp` 56-58);
- the aggregate line of each invocation passes the filter
  (`run_scale.sh` 162-165), and a missing header exits with the code of a
  regression (`report_scale.py` 56);
- `JSONL=0` is said to give "a single JSON doc" (`run_bench.sh` 7), but each
  thread count writes one; `report.py` then reads only a list of one thread
  count (`LogTellsTheRun`);
- a thread count listed twice in `THREAD_LIST` gives the rank test each of its
  rows twice (`run_bench.sh` 166-171, `report.py` 334-346), which makes a change
  look more significant than it is;
- "a truncated final line [...] is the one case we tolerate" (`report.py` 69-70),
  but any line that does not parse is dropped. `DropsOnlyTail` shows why that
  does no harm to a log of `run_bench.sh`: `set -e` keeps every other line whole;
- a significant change is said to pass as an improvement if the "signed sum [is]
  negative" (`report.py` 328-332), but the code fails it if the median is above
  zero (378). With 16 rows slightly faster and 15 slower by twice as much the
  ranks show a slowdown, the signed sum is positive, and the gate passes; the other
  way round the ranks show an improvement and the gate fails (both in
  `MedianIsNotTheSignedSum` of MCPerfGate). `GateExact` states the median's
  criterion, which is the code's;
- the exit code of a run does not say that its rows are all there: a file that is
  not there (`run_bench.sh` 111-119), empty or unreadable (`main.cpp` 406-410) is
  left out, and the gate compares what is left, without a word
  (`LogTellsTheRun`, `GateExact`, `LevelRegressionCaught`);
- zero deltas are "dropped per Pratt's recommendation" (`report.py` 276-277);
  dropping them before the ranking is Wilcoxon's procedure, Pratt's keeps them;
- "files where every decoder contradicts expected_outcome" (`report.py` 445)
  lists files where any does;
- `--correctness` without `--jsonl` does not print the outcomes;
- bucket names go into the header unescaped (`main.cpp` 350);
- OpenJPEG counts a region from the origin of the image's grid and casts it to
  signed words (`adapter_opj.cpp` 366-368), the default crop from the image's
  own corner (`adapter.h` 166-169): on an image whose origin is not (0, 0) the
  two decode different rectangles. `VerdictTellsSamples` assumes the origin
  (0, 0), and is violated without that;
- samples of more than 16 bits are cut to 16 by both adapters
  (`adapter_grok.cpp` 105), so differences above them are not seen; the same
  property assumes at most two bytes;
- a box with an extended length of 0 does not advance the walk of
  `manifest_tool.py` 51-57;
- with `--concurrent-files`, a job's wait for Grok's lock is inside its timed
  region, and the process-wide RSS deltas of concurrent jobs mix.

## 5. What is proved

`ThreadPoolProofs` proves, for every `NumThreads` and every set of jobs (from
`PoolAssumption` alone: the argument is an integer, `NoJob` is no job):

- `PoolInvariant`: the inductive invariant `PoolInv`, the conjunction of
  `TypeOK`, `ActiveCount`, `OnePlacePerJob`, `Lifecycle` and
  `ShutdownReachesAll`. They need each other: that `active_` stays a natural
  number needs that the worker about to decrement is counted (`ActiveCount`);
  that a worker's job is a job needs `OnePlacePerJob`; that the queue is
  drained at the end needs that a worker leaves only an empty one behind
  (`Lifecycle`). One lemma per conjunct goes over the actions.
- from it, `TypeCorrect`, `ActiveCountHolds`, `OnePlaceHolds`, `LifecycleHolds`,
  `ShutdownHolds`, `DestructorDrainsHolds` and the action property
  `WaitReturnsQuietHolds`;
- `NoLostWakeupHolds`: counting argument on the queue, the awake workers and a
  notification under way; a submission adds one of each, `NotifyOne` turns the
  notification into an awake worker or finds nobody asleep, `Take` removes a job
  and a worker, and nobody falls asleep over a queue that is not empty;
- `OwnerHasWakerHolds`: the worker that makes the pool quiet still has to notify;
- `PoolImplements`: ThreadPool implements the safety part of JobPool. `Take` maps
  to `Start` because fewer than `Width` others run, by injectivity of the
  workers' jobs; `WaitIdleReturn` maps to `ReturnFromWait` because `active_ = 0`
  means nothing runs.

`BenchRunProofs` proves, for every list of files, decoders and thread counts and
every number of concurrent jobs (`RunAssumption`), `NoDanglingCapture`,
`RowsComplete`, `ComparedWithOwnReference` and `ImplementsStream`. The invariant
`RunInv` is the conjunction of `TypeOK`; `Turn` (the pool is idle outside
`submit` and `wait`, and inside works on the bytes of this turn's file: that is
`NoDanglingCapture`, and it rests on `wait_idle`); `Places` (a job is queued,
running or finished, once); `Account` (what was submitted is the jobs of the
earlier turns and the first `sent` of this one, and what has a row is what is
finished or about to unlock; counting needs that `JobAt` enumerates a turn's jobs
without repetition); `References`; and `Output` (the last line is unfinished
exactly when main writes one or a job holds `results_mtx`). A step of the driver
is then a step of ResultStream because of `Output`: a job may begin its line
since nobody else is in one and its row is not there yet.
`ParseablePrefixHolds` follows from that and from what ResultStream is: the
comment of `main.cpp` 301-302 for every command line and every death of the
process.

`BenchFileProofs` proves, for every set of counts, every number of flags in any
order and all timings (`CommandAssumption`, `FileAssumption`), `VerdictExact`,
`ErrorTellsProgress`, `SamplerConfined` and `StageIsMinimum`. `FileInv` adds to
them `TypeOK`, which says what the flags guarantee in whatever order they come
(`--scale-track` leaves no reference and captures stages), `Progress` (at each
place, how many calls were made, and the image is this file's as soon as one
that yields pixels was) and `LeastSoFar` (`stage_min` is a lower bound of the
timings so far and one of them).

Also there, for every set of sizes and any number of changes: the sampler's
`PeakIsLargestSample` and `SecondStopAgrees`. In `SamplerInv` the part that
carries the argument is `NothingLost`: the largest sample taken so far is the
peak or still in the hands of a thread about to raise it, and what a
compare-and-swap expects is never above the peak. `Stages` says where one thread
can be while the other is at a given place: the last sample is taken, and the
result read, only when the poll thread has ended.

`OpjAdapterProofs` proves, for every number of threads, calls, libraries and
symbols and every size of the data (`OpjAssumption`), `TypeOK`,
`ObjectsFollowTheCall`, `ErrorIsOwn` and `CallsThroughFullTable`. `AdapterInv`
adds `Tables` (a loaded library has its handle and all its symbols, and only
loaded ones are in use) and `Texts` (behind its `clear()` a thread holds no text
but this call's).

`GrokAdapterProofs` proves, for every set of bench threads, every thread count
they ask for and every number of calls (`GrokAssumption`), the type invariant,
`OneDecodeAtATime`, `CodecConfined` and `ErrorIsOwn`. The invariant `IInv` adds
three facts they rest on: `decode_mu_` belongs to a caller exactly from its
`lock_guard` to its return (`LockOwned`), which is also what makes two holders
impossible; the pool runs once a caller is past `ensure_initialized`
(`PoolRuns`); and from the `clear()` on, a thread's error text is empty or about
the call it is in (`TextIsFresh`).

`ScaleRunProofs` proves, for every list of files and decoders, all sizes, caps,
peaks and exit codes, and wherever the script or the bench is killed
(`ScaleAssumption`: no decoder is listed twice), `HeaderOnceAndFirst`,
`OneLinePerReport` and `GateFindsGrowth`. `ScaleInv` adds to the types
`OutTells` (what the running bench has written so far, and the fate it will be
given, line by line), `Progress` (the pairs of this run that have a report lie
before the position in the two loops, so the one at the position is new),
`Headed` (a log's first line is its header or was cut short, and no other line is
one), `Accounted` (a result line is that of a pair that got to report, and such a
pair has exactly the one its fate calls for) and `Answered` (the exit code is
that of the logs as they are). `LogStep` lists the ways in which a step can
change a log; each conjunct is then followed through that list. `GateFindsGrowth`
comes from `Accounted`: the row a reader looks up is the only one of its pair.

`RoiDecodeProofs` proves, for every width of the words and of a byte, every
image, rectangle and pair of sample values (`RoiAssumption`: the values are legal
for their precision), `CropIsRegion`, `RoiHonoured` and `VerdictTellsSamples`.
`RoiInv` follows the request through its stages: what was parsed, the whole
image, the crop, a refusal, the reference, the verdict. Under it lies the
arithmetic of a raster: a place of the buffer is one plane, row and column by
division and remainder, places are in the order of planes, rows and columns, and
so the copy row by row is the rectangle, in order (`RasterIsRectangle`); the
native decode's area is the same rectangle when the origin is (0, 0)
(`SameRegion`). That a difference shows in the bytes goes through the sum of a
sample's bytes, read back as the shifted value (`SampleReadBack`), the powers of
two by induction.

`PerfGateProofs` proves all five properties of the pipeline, for every corpus,
axes, levels, target and list of thread counts, any number of failing processes
and of files left out, and all times (`GateAssumption`):

- `EveryLevelCovered`, from `PickInv`: each visited pair of an axis and a level is
  covered, and each still to visit belongs to some record, so a level is passed
  over only when all its records are chosen, and there is one. Later steps leave
  the subset alone.
- `DropsOnlyTail`, from `GateInv`: a process leaves an unfinished line only by
  failing, and a run goes on only behind processes that did not fail.
- `LogTellsTheRun` and `LevelRegressionCaught`, from `TellInv`: what the running
  process has told (`ProcessTells`), what the logs of this run and the earlier one
  hold after so many processes (`LogsTell`), and in which order subset, runs,
  rows and verdict come (`Stages`). What they hold is measured against the rows
  that are due (`RowsUpTo`, `RowsOfTurn`): a file left out at a turn has no row
  there and gets none (`SkipTells`), and takes none from the turns before
  (`SkipLeavesLogs`). `KeptInOrder` is the lemma about the reader's loop: it keeps
  the lines of a set, all of them and in their order.
- `GateExact`, in two steps. `GateReadsPairs`: the list the gate makes from the
  logs is the set of pairs, each once. `RankTestIsExact`: the rank test gives
  the answer of its definition, for any number of deltas with any ties and zeros.
  The sorted list enumerates the deltas that are not zero (`SortedBySize`); equal
  sizes are neighbours in it, so a tie group is an interval and twice its average
  rank counts the smaller and the equal ones (`TiesAreInterval`); W+ counted row
  by row is the count of pairs whose sum is positive, by folding the square of
  pairs along its diagonal (`WalshAverages`); the variance minus the tie
  correction is the sum of the squared ranks, since both grow alike from one tie
  group to the next (`VarianceOfRanks`); and a sum over a set is the sum along any
  enumeration of it (`SquaresAlong`). Without a list of *different* thread counts
  the gate would see a row twice, and the statement is false; hence the condition
  in it. `MedianIsExact`: the middle of the sorted deltas is above zero exactly when
  most deltas are, or half of them and the greatest of the rest is nearer to zero
  than any of these; the first position over zero in the sorted list divides it.

The inductions over data in these proofs (loops, sums, powers of two) are
stated as sets of numbers that hold 0 and the successor of each member
(`Induction`), since the library's schemes take an operator.

Only model-checked: the liveness properties (`RunEnds`, `CallsReturn`,
`StopReturns`, `RunReportsAll`, the progress of JobPool), which need fairness
and so are beyond the proof system. The refinements are proved for their safety
part.

## 6. What is not modelled

- Wall-clock times, percentiles, the value of a finite PSNR, getrusage deltas:
  floating point or environment readings on which no modelled branch depends.
- The libraries behind the adapters: external, each call whose result the code
  tests may fail. `opj_stream_default_create` is taken to succeed: the code does
  not test it (`adapter_opj.cpp` 189, 230, 288, 337), and what the library makes of
  a null stream is its own matter.
- The text of JSON fields, logs and printed tables; the environment capture.
- Malformed arguments of main, which end it before it has any state; negative
  counts, which end the process (`bench.cpp` 165) as a kill does.
- `/proc/self/status` that cannot be read (the sampler would see 0 kB).
- The printed tables, the filter, the TSV and the correctness section of
  `report.py`; how the wrappers search directories (that a missing file is left out
  is modelled).
- The corpus tools, the environment capture, the build: sequential programs over
  single files, without state of their own. The walk of `manifest_tool.py` over
  boxes is noted in section 4.

## 7. What is left

1. The region of an image with another origin, once the code says which of the
   two rectangles is meant.
2. The sampler inside `bench_file` at the grain of its atomic accesses: BenchFile
   shows that it is started and stopped in time, RssSampler what it returns.
