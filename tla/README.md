# Verification of the FlyDSL kernel-profiling library

TLA+ modules, TLC runs and TLAPS proofs about the code of this repository: the
launchers that spread work over GPUs, the shape ledgers, the multi-shape
benchmark runner and its provider adapters, the trace-capture pipeline, and the
reports and gates made from the results. Every definition is translated from the
source; `PROJECT.json` ("map") names the lines each one stands for.

To check a run: `tlc -config GpuPool.cfg MCGpuPool`; to check the proofs of a
module: `tlapm GpuPoolProofs.tla`.

## 1. Inventory

The repository is a set of command-line programs that leave files for one
another. There is no server and no shared memory; what interacts are processes
that read, truncate and rewrite the same files, processes on the same GPUs, and
loops over work of which any part may raise, time out or be killed. Hence the
hard behaviours are files of different ages combined as if they were of one run,
files rewritten in place, one failure inside a loop, and two programs computing
the same thing by different code.

| Component | State it keeps | Operations | Talks to | What makes it correct |
|---|---|---|---|---|
| `tools/run_pool.py` | queue, free GPUs, running processes, done list, `pool.status` | launch, sleep, reap | starts `run_sweep.py` or `att_capture.py`, reads their JSON | a GPU has one driver; none is lost; every test is reported once, with its own result; the sweep ends |
| `tools/run_sweep.py` | one JSON file and one log per test | run a harness with a timeout, parse its output, write | pool, `consolidate_sweep.py` | the JSON tells of the harness that was run |
| `benchmarks/run_all_pending.sh` | background subshells, `_status.log` | start a wave, wait, finish | starts the multishape runner | a GPU has one kernel; `ALL_DONE` is last |
| `shape_ledgers/ledger_io.py` with `common.read_jsonl/write_jsonl` | `shape_ledger.jsonl` | read, merge, validate, rewrite | all importers; all runners and reports read the file | an import replaces its own kinds, and takes from others only the shapes it has itself; shapes are unique |
| importers (manual, SGLang, ATOM, AITER models) | none | extract rows, upsert | ledger | rows are those of the source |
| `validate.py`, `schemas/` | none | validate ledgers and results | ledger, runner | nothing invalid is written |
| `runners/multishape_runner.py` | adapters, list of rows, jsonl, csv | for each shape and provider: supports, check, time, append | ops, adapters, measurement | one row per shape and provider whatever fails; the same inputs for all |
| `providers/*.py` | a cache of launchers and buffers, `provider_detail` | supports, run, output, check_correctness | runner, GPU libraries | what is timed is the shape that the row names |
| `ops.py` | none | make_inputs, reference | runner, adapters | inputs are a function of the shape and the seed |
| measurement (`common.py`) | operations enqueued on two streams, events, the L2-flush buffer | eager intervals, graph capture and replay, fallback, statistics | runner, adapters | the time is that of the kernel, from a cold cache |
| `latency_runner.py`, `correctness_runner.py` | a temporary matrix; result files | one-provider run; check without timing | multishape runner | as the multishape runner |
| `profiler_runner.py` | an output directory per shape and provider | rocprofv3, aggregate csv | ledger | the aggregate is of this run |
| `regression_runner.py` | `regression_summary.md` | compare with the previous results, list hot shapes, verdict | results of two runs, ledger | a fall of the headline does not pass |
| `reports/analysis.py`, `summarize_results.py` | `benchmark_summary.md` | join, aggregate, decide | results, ledger | the decision follows from the rows; failures are not hidden |
| other reports | their files | tables, bottleneck classes | results, ledger | as above |
| `export_multishape_dashboard.py` | a section of `docs/data/kernels.json` | compute, merge | results | says much what the summary says |
| `export_dashboard_data.py`, `consolidate_sweep.py` | `sweep_master.json`, `kernels.json`, `data.js` | consolidate, export | sweep results, manifest | numbers of one record are of one measurement |
| `docs/build_dashboard.py` | `index.html` | read `kernels.json`, rewrite the page | `kernels.json` | the page shows what was exported last |
| `att_capture.py` | one directory per test: discovery csv, yaml, `att/`, hotspots, counters, `capture.json` | discover, trace, select, clean, analyze, record | rocprofv3, hotspot analyzer | `capture.json` names a trace that is there and is of this capture |
| `build_manifest.py`, `build_bundles.py` | `analysis_manifest.json`, `examples/<kernel>` | collect, copy, write README | capture directories, hand-written reports | what a bundle says of its trace is of that trace |
| `hotspot_analyzer.py` | none | decode a trace, rank | capture | its arithmetic |
| `special/flash_attn_mi350_current.py`, the page's own script, tests, examples | | | | not modelled, see section 7 |

Hazards, each with its line and the property that would catch it going wrong,
are listed in `PROJECT.json` ("hazards").

## 2. Modules

| Module | Models | State and actions against the code |
|---|---|---|
| `ResourcePool` | what both launchers promise | jobs wait, hold one free GPU, finish; weak fairness of finishing, strong fairness of starting |
| `GpuPool` | `run_pool.py` with the life of its drivers | `launched`, `free`, `running`, `gpu` and `done` are the locals of `main` (the queue is only popped from the front, so the number of pops stands for it); `snapshot` is `list(running)`; `LoopTop`, `Launch`, `EndLaunch`, `Wake`, `StillRunning`, `Reap` are the loop conditions and bodies; `file` is the result file of a stem, with truncation and close as two steps of a driver (`BeginWrite`, `EndWrite`), and `Fail` any other end of it |
| `WaveLauncher` | `run_all_pending.sh` | `Spawn` is a turn of the `for` loop, `WaveEnds` its `wait`, `AllDone` the last two lines; a subshell has two steps, the runner and its `echo DONE` |
| `SourceUnion` | what the ledger README says (`shape_ledgers/README.md:3-6`, `80-93`) | each kind has a contribution; an import replaces those it owns, and takes from the others the shapes that it has itself |
| `ShapeLedger` | `ledger_io.upsert_ledger` by several importers | the file is a sequence of cells, a line being one or two; `ReadAndMerge`, `Raise`, `OpenToWrite` (truncates, under other writers too), `Flush` (writes on from the importer's own offset to any place of any line; where nobody wrote there is a hole), `Close`, `Crash`; `Upsert` is the merge, the last writer of an id wins. Reading is one step, and a line that begins as one row and ends as another may be read with fields of both, or raise |
| `MultishapeRunner` | `multishape_runner.run` and the caching adapters | `i`, `k` are the two loops; each early `continue` is an action that emits its row; `GetLauncher` is the adapters' cache with `provider_detail`; a row has the shape its launcher was built for, if it was timed; `OpenJsonl` ... `CloseCsv` are the two result files; `Killed` the timeout or a fault at any step |
| `ProviderCatalog` | the adapters of `providers/` and the inputs of `ops.py` | no state: for each adapter that launches something a record of what is in its cache key, what the cached objects depend on, what `supports` pins, where the stream is fetched and whether its kernel adds to an output |
| `LaunchTiming` | `common.measure_both` around one adapter, for two shapes in turn | the host is `pc` with its loop counters, one action per statement that enqueues, waits or raises; `queue` holds what is enqueued on the default and on the capture stream, `Execute` takes one operation off either; `graph` is what the capture recorded; `Launch` is a call of the adapter's `run` |
| `DashboardData` | `consolidate_sweep.py`, `export_dashboard_data.py`, `export_multishape_dashboard.py` (merge), `build_dashboard.py` | a number is the set of measurements it was computed from; a program reads and truncates (`Consolidate`, `Export`, `Merge`, `Build`), then writes (`CloseKernels`, `OpenDataJs`, `End`), or is killed (`Die`); `Sweep`, `MeasureBaseline`, `Benchmark` renew its inputs; `through` counts the programs run through in the documented order |
| `AttPipeline` | `att_capture.main`, `build_manifest.py`, `build_bundles.py`, the hand-written report | a file is the number of the capture it stems from, 0 if there is none; every exit of `main` is an action, with `exit` its code: 0 (`Finish`), 2 (`NoRecipe`), 3 (`NoKernel`), 4 (`NoDispatch`); `Die` is an uncaught timeout or a kill; `tag` is `--tag`, in the name of two files of which the later stages read only those of `big` |
| `SpeedupReport` | `analysis.join`, `summarize_results.decide`, `export_multishape_dashboard.compute_ms` (verdict), `regression_runner` | results and ledger are inputs that `Measure`, `Keep` and `Import` replace; `Summarize`, `Export`, `Regress` each leave one report; times are logarithms, so that a geometric mean is compared by a sum |
| `MCGpuPool`, `MCShapeLedger`, `MCMultishapeRunner`, `MCLaunchTiming`, `MCDashboardData`, `MCSpeedupReport` | values of the constants for TLC | |
| `GpuPoolProofs`, `WaveLauncherProofs`, `MultishapeRunnerProofs`, `AttPipelineProofs`, `ShapeLedgerProofs`, `LaunchTimingProofs`, `SpeedupReportProofs`, `DashboardDataProofs` | theorems and proofs | |

`GpuPool` and `WaveLauncher` are shown to implement `ResourcePool`, `ShapeLedger`
to implement `SourceUnion`, by refinement mappings in the modules.
`MCLaunchTiming` composes `LaunchTiming` with `ProviderCatalog`: the adapters are
not an abstract set but the ones of the code. Tensors, kernels, timings as numbers
of microseconds, the text of logs, tables and READMEs are abstracted.

`MultishapeRunner` and `LaunchTiming` divide the benchmark between them: the first
has all shapes and providers, every early exit and the result files, and takes a
measurement as one step; the second is that step, for one adapter, down to the
operations on the streams. Both have the adapter's cache. A time is a
`Sample` in `LaunchTiming` (how many kernels ran in the interval, and was the first
one cold), a level in `SpeedupReport`, a measurement's number in `DashboardData`.

## 3. Runs

| Run | Instance | Question | Answer |
|---|---|---|---|
| `gpu_pool` | 4 tests, one listed twice, 2 GPUs, 2 leftover files | are GPUs exclusive and conserved, is each test reported once and with its own result, does the sweep end, is `ResourcePool` implemented with its fairness | yes. A DONE line of a driver that ended well quotes its own result, or its twin's when a test is listed twice; only after a failed driver can it quote an older sweep |
| `wave_launcher` | 5 kernels, waves of 3 | `ALL_DONE` last, termination, refinement of the abstract pool, whose allocation is exclusive | yes, with a partial last wave |
| `shape_ledger` | 1 importer, 3 kinds of which two share a shape, 3 imports, 1 kill | is the ledger the union of its sources | yes, a shared shape being the last writer's; a kill loses rows but never brings old ones back |
| `shape_ledger_race` | 2 importers, a shared shape, lines of two lengths, 3 imports, 1 kill | what survives when importers are not alone | a mixture of two writers' lines lasts until the next rewrite that nobody joins; after it shapes are unique again. While no two rewrites overlapped, a kind is of one import. Updates may be lost |
| `multishape` | 3 shapes, the third equal to the first; a caching provider, one without a cache, one disabled | one row per shape and provider, what a row's detail can speak of | yes; a detail is of the launcher that was timed, or of one built later for another key |
| `multishape_stale_buffers` | 1 geometry in 2 dtypes, 3 providers, the cache keys as they are | the same inputs for all | no, see finding 1 |
| `launch_timing` | each of the adapters in turn but the three with a finding; two shapes that are equal or differ in any one field the adapter's cache is about; 1 warm-up, 1 or 2 launches per interval, 2 intervals, 1 launch on the side stream, 2 replays | does every launch work on buffers of its shape, is a time that of the kernels it is divided by, from a cold cache, without a build, and do accumulators start from zero | yes, whatever order the streams run in and wherever a call raises; of accumulators only until a graph capture is given up (section 4) |
| `graph_escape` | the FlyDSL adapter of `moe_gemm`, same bounds | is a graph time that of the kernel | no, see finding 3 |
| `att_pipeline` | 3 captures, 1 death, 2 dispatches per capture, 2 ranks, 2 tags | is a capture whole when its driver ended by itself, is what a bundle says of its trace of that trace, are bundles free of shells | yes: after the exits 0, 3 and 4, and while no driver has died; shells never |
| `att_capture_dies` | 2 captures, 1 death, tag `big` | is what a bundle says of its trace of that trace | no, see finding 2 |
| `speedup_report` | 2 shapes, 1 baseline, 2 benchmark runs, 1 import | how far apart can the two verdicts be, does a PASS bound the fall, is a faster kernel never demoted | at most a step, where nothing failed and the baseline is fair; the others yes, under the conditions in the properties |
| `dashboard` | 3 tests (an op under its own name, a renamed one, a renamed one with hand-written times), 2 measurements, 2 kills, 4 records | does the documented order of the programs bring page and `data.js` up to date whatever was there, does an op whose example has a record get no second one, are the numbers of a record of one measurement | yes, when every record of `baselines.json` is whole, as those checked in are |

### Bounds, and why they are enough

- `gpu_pool`: four tests on two GPUs is the least with which a GPU is reused
  while another is busy, two drivers of one stem overlap, both finish within one
  sleep, and work is left when the first GPU comes back. More tests repeat these.
  The proofs of section 5 need no bound.
- `wave_launcher`: five in waves of three is a full and a partial wave; eleven in
  waves of eight have no other case.
- `shape_ledger*`: `MaxBatch` 2 gives an import with a duplicate id, an empty
  one and one that shrinks; `MaxImports` 3 lets a kind be re-imported after
  another one came between; `MaxCrashes` 1 is one loss and the import after it. Lines of
  one and of two cells are enough for the ends of two writers' lines to fall apart, and
  so for torn, mixed and doubled lines and holes.
- `multishape`: the second shape meets the caches, details and rows of the first, the
  third hits the cache of the first after the second was built: the row of which the
  detail is another shape's. `multishape_stale_buffers` has the pair of shapes that the
  ledger of `fused_rope_cache` consists of. The proofs hold for any ledger and matrix.
- `att_*`: `MaxCaptures` 3 is a good capture, a dead or failed one, and one
  that comes after; two dispatches and ranks 0 to 2 give shells, a best one, a
  second best one and a tie. Deaths are bounded by one; two in a row differ from
  one only in the number of the capture.
- `speedup_report`: the rows are chosen so that the means of one and two shapes fall
  between every two neighbouring thresholds of the two programs, [0.6, 0.7) and
  [0.95, 0.97) too (level, 4%, a third and far behind, incorrect; a baseline 11 times
  slower, or none). Shapes are symmetric: no action orders them.
- `launch_timing`, `graph_escape`: what a launch works on is decided by one cache
  lookup, so that two shapes, and one field in which they differ, are all that
  matters; the module proves it of more (section 5). One warm-up launch is the
  least the code's "warm-up" can mean, and the weakest case of the properties:
  more launches before a synchronize add nothing that runs after it. Two launches
  per interval tell a first (cold) from a later one and a right count from a wrong
  one; two intervals and two replays let one overlap what the one before left.
- `dashboard`: two measurements give old beside new in every field and file; two
  kills tear one file and then another one; `MaxRecords` 4 is one record for each
  test and one that is appended again. Three measurements with one kill
  pass as well (3.5 million states).

### Fairness

Used by `gpu_pool` and `wave_launcher` only.

- `WF(Pool)` and `WF(Driver(j))`: the parent is a loop that never blocks but
  in `time.sleep(2)`; a driver runs its harness under `subprocess.run(...,
  timeout=...)`, so that it ends or is made to end. No strong fairness is assumed of the
  code: that a waiting test starts (strong fairness in `ResourcePool`) is
  derived.
- `WaveLauncher`: the script and each subshell step on; the runner is under
  `timeout 1500`.

All other modules are checked for safety only: `LaunchTiming` has a host that is
meant to reach the end of a measurement, but any call into the GPU libraries may
hang, so that no liveness is claimed of it. Their programs are started by
hand, and may be killed at any step.

`gpu_pool`, `wave_launcher`, `launch_timing` and `graph_escape` are checked for
deadlock: a final state has a stuttering step of its own (`Finished` and its like). In
`launch_timing` it means that the host is never left waiting for a
synchronize that cannot return. The other runs end when a bound is reached or all is
done, and so say `CHECK_DEADLOCK FALSE`.

## 4. Findings

What the repository says and its code does not do; each is a run with
`expect: violation`, and `PROJECT.json` quotes both sides.

1. `multishape_stale_buffers`: the cache key of the AITER Triton adapter of
   `fused_rope_cache` lacks the dtype, so the second dtype of a geometry runs on
   the buffers of the first. The checked-in results have ten incorrect rows,
   each the second of such a pair.
2. `att_capture_dies`: after a capture that timed out, the bundle's README names
   a dispatch that is not in it.
3. `graph_escape`: the FlyDSL adapters of `moe_gemm` (`moe_gemm.py:191`) and
   `moe_blockscale` (`moe_blockscale.py:255`) fetch the stream when they build a
   launcher, against `common.py:351-352`, which asks for it at call time. The build
   happens at the correctness check, on the default stream; under capture the
   kernels stay there, and the graph holds the zeroing of the output only. The
   checked-in `moe_blockscale` results show the mark of it: an eager time of
   1323.7 us beside a graph time of 25.7 us, which would be 438374 GB/s.

Observed while modelling, and not kept as runs, because a run would show no more
than the line does. Where the checked-in data has a case, it is named.

- Adapters. `provider_detail` of a row can be that of another shape after a cache hit
  (`flydsl.py:44-52`): of the 159 flydsl rows of rmsnorm 39 have the detail of another
  one (the row M=1, N=512 speaks of `build_rmsnorm_module(M=16384,N=128)`), as have 40 of
  gemm, all `unsupported`, 2 of layernorm, 2 of softmax, 1 of blockscale and 1 of
  preshuffle. `DetailOfLastBuild` says which other one it can be. The FlyDSL adapters of
  topk, `moe_gemm` and `moe_blockscale` say `includes_allocation=False` and allocate in
  `run` (`topk_gating_softmax.py:139-141`). No cache is ever emptied.
- Measurement. After a capture that raised, launches may still be pending on the
  side stream when the next shape starts (`common.py:421-424`), hence the condition
  in `SumsFromZero`. With more than one launch per eager interval only the
  first is cold (`common.py:326-331`), hence `IntervalsStartCold` speaks of the first.
- Ledger. "Rows from every OTHER kind are kept verbatim" (`shape_ledgers/README.md:90`,
  likewise `ledger_io.py:5-6`) is not so when two sources produce one shape:
  `stable_shape_id` does not contain the source, and the last writer takes the row
  (`ledger_io.py:28`, and the next line of the README). `SourceUnion` says what is left
  of the promise. Two importers at once can leave lines of both in the file, two of one
  shape or torn ones, until the next rewrite (`common.py:176`). Failed shapes whose row
  was re-imported away are in no count (`analysis.py:27-29` against
  `summarize_results.py:5-6`).
- Decision. Where a graph capture failed, the kernel-only headline divides by an
  eager time (`analysis.py:31` against `summarize_results.py:3-6`; `pa_decode` shows
  0.49 and `rewrite_needed`, with its graph times alone 0.76 and `tune_needed`). The
  dashboard publishes `promote` for a kernel with failed shapes
  (`export_multishape_dashboard.py:229` against `summarize_results.py:61-62`;
  `moe_blockscale` 7.09 on 4 of 12 shapes). Where the dashboard says
  `baseline_blocked`, because a geomean above 10 is "not a fair FlyDSL-vs-optimized
  verdict" (`export_multishape_dashboard.py:221-225`), the summary promotes on that same
  geomean (`summarize_results.py:68`): the two contradict one another, and
  `VerdictsWithinAStep` leaves the case out.
- Dashboard. Times are preferred from `baselines.json` and TFLOPS from the sweep
  (`export_dashboard_data.py:48` and `:65`): `flash_attn` shows 9.9 us with the 3.1 TF
  of another run, `mla_decode` and `moe_gemm` likewise. `best_baseline` takes the first
  of a fixed order (`consolidate_sweep.py:30`). Running the export again drops the
  multi-shape blocks, after which `build_dashboard.py:26-29` writes the page and
  ends with a `KeyError`. An op whose example is not in the sweep is appended again by
  every later merge (`export_multishape_dashboard.py:259`, `268-279`), hence the
  condition in `OneRecordPerOp`, which no checked-in op fails; a block outlives the
  results it was made from; a merge leaves `summary.categories` as it was.
- Runners. `latency_runner.py:46-47` enables a provider that the matrix disables, and a
  single-provider run overwrites the results of the whole matrix.
- Capture. Counters and statistics of an earlier capture go into a bundle when the
  profiler leaves none, without any failure (`att_capture.py:227-229`, `59`), and a report
  that was not written anew does; a capture under another `--tag` than `big` leaves a
  bundle with the hotspots of an earlier one. `UndeadBundle` says that these are never
  newer than the trace. Bundles are built with parts missing (`build_bundles.py:41` against
  `README.md:26`); `discover_kernel_stats.csv` of an earlier run is read when the
  profiler leaves none (`att_capture.py:59`).

## 5. Proofs

Proved by TLAPS for every value of the constants, from the assumptions named in
the modules. Every invariant and action property that a passing run checks is stated
by one of these theorems; what is left to TLC is liveness (section 6).

Where a model has a loop or a sum (`Selected` of `DashboardData`, `LogSum` of
`SpeedupReport`, `Text` of `ShapeLedger`), what it computes is proved by taking a least
counterexample: a least pass of the loop, a least subset of the shapes, a least id.

Assumptions that are more than a type, and where the code has them:

- `LaunchTiming`: at least one launch before anything is timed (`Warm`; the estimate
  alone has some, `common.py:303-319`). Without one, the first interval would hold a build.
- `SpeedupReport`: finitely many shapes and baselines (they are lines of a file).
- `ProviderCatalog`: the launches of the FlyDSL adapter of `mla_decode`, which passes no
  stream (`mla_decode.py:238-247`), are taken to be on the current stream, as those of aiter
  and torch are; what its wrapper does is not in this repository. The checked-in graph
  times, which grow with the context from 29 to 117 us, support it.
- `DashboardData`: a record of `baselines.json` has all three numbers or is absent, as in
  the file checked in; of a partial one each missing number would come from the sweep,
  and `OneMeasurementPerRecord` would not hold.
- `DashboardData`: `Order` lists each test once, the ops of `MS_OPS` are distinct, and
  no op has the name of another test's example. All three are true of the table
  (`export_multishape_dashboard.py:19-28`): an op has the name of its example, or one
  that is no example's. Without the last one, a record found by the name of one op could
  be another's.
- `DashboardData`: a torn file is not a data set (a model value for what does not parse).

`GpuPoolProofs` (any list of tests, with repetitions; any positive number of
GPUs; any leftover files). The inductive invariant is

    IInv == TypeOK /\ Bookkeeping /\ Exclusive /\ Conserved /\ Counted

- `Exclusive` alone is not inductive: that the GPU handed out by `Launch` is held
  by nobody needs that the free list is free of duplicates and disjoint from what
  running jobs hold; that `Reap` may append needs that the process it reaps was
  in `running` with a real GPU, which is `Bookkeeping` (the copy walked by the
  reap loop is a subset of `running`, and a live driver is in `running`).
- `Conserved` is the other half of "exact": no GPU is nowhere.
- Theorems: `TypeCorrect`, `Dedicated` (`DedicatedGpu`), `NoGpuLost`
  (`FreeListExact`), `OneDoneLineEach` (`EveryTestOnce`), and `PoolRefines`: the
  pool implements the safety part of `ResourcePool`, each step being a `Start`, a
  `Finish` or a stutter.
- What a DONE line quotes was in the file when the pool looked, so `OwnResultQuoted`
  (`ReportIsOwn`) and `CurrentResultQuoted` (`ReportIsCurrent`) need what is in the file
  at every place of a driver:

      FInv == IInv /\ NotStarted /\ FileIsCurrent /\ FileIsOwn /\ Quoted

  With twins, the file is of this sweep from the first truncation on
  (`FileIsCurrent`: a later truncation by a twin keeps that true for the other, though
  not the contents). A stem listed once has exactly the contents that its driver's place
  says (`FileIsOwn`), also after the DONE line, because nobody else opens that file.

`WaveLauncherProofs` (any number of kernels, any size of a wave):

    IInv == TypeOK /\ Started /\ Exclusive /\ Lines

- The script reserves no GPU: it counts, and waits when the count comes round. So that
  no two kernels share one is a fact about residues: the next residue is one more, or 0
  (`NextResidue`), and while the loop runs, the GPUs taken are those below the next
  residue (`Exclusive`). At 0 the loop stops for the `wait`, and goes on with none taken.
- `ALL_DONE` is last because there are as many lines as subshells that are gone
  (`Lines`, a cardinality) and the script writes when all are.
- Theorems: `TypeCorrect`, `AllDoneComesLast` (`AllDoneIsLast`), and `WavesRefine`: the
  waves implement the safety part of `ResourcePool`.

`MultishapeRunnerProofs` (any ledger, any matrix of distinct names, any set of
caching adapters):

    IInv == TypeOK /\ Position /\ RowsInOrder /\ Files

- `NothingDropped` is not inductive: that one more row is the row of the pair in
  turn needs where the loops stand at each place of the program (`Position`), and
  that all rows are there when a file is opened needs that the loops are through
  by then (`Files`).
- Theorems: `TypeCorrect`, `RowForEverySpec` (`NothingDropped`), `JsonlFirst` (the csv
  is opened only after the jsonl is closed; no run checks it), and
  `DetailIsOfLastBuild` (`DetailOfLastBuild`), for any keys. The last one is inductive
  together with what a detail is while an adapter runs: that of the launcher built last,
  which no cached one is newer than. A hit on an older launcher is a hit on a key that
  the newer one does not have.

`AttPipelineProofs` (any number of captures, deaths, dispatches and ranks):

    IInv == TypeOK /\ InHand /\ Recorded /\ WholeBetween /\ NoneToCome /\ Begun
            /\ NoShellPublished /\ UndeadBundle

- `CaptureIsWhole` speaks only of a driver that has ended; `InHand` is what
  `main` has at each place before: an emptied `att/` before the traced run, only
  directories of this capture after it, the best dispatch kept, hotspots of it.
- The bundle is made in other stages than the capture: `Recorded` says that
  these find the `capture.json` the manifest was made from, and that the
  dispatch it names is none of the shells.
- Theorems: `TypeCorrect`, `WholeWhenEnded`, `BundlesFreeOfShells`,
  `BundleIsOfItsTrace` (`UndeadBundle`), for any tags. Finding 2 is that the premise of
  the last one (no driver died) is needed.

`ShapeLedgerProofs` (any importers, kinds, ids, lengths of lines, batches and kills):

    IInv == TypeOK /\ (every importer's text is that of a merge)
            /\ (shared # "now" => Alone) /\ (shared = "never" => OneGen ...)

- For importers that overlap as they like: `Alone` says that the file is what one writer
  has written so far of a text in order, or was left so, as long as nobody truncated it
  under a writer at the last time. A merge has each shape once whatever was read,
  mixtures too (`UpsertSound`), so that the first rewrite that is alone puts the file in
  order again. Theorems: `TypeCorrect`, `ShapesUnique` (`UniqueShapes`). As long as
  no rewrites overlapped at all, also what is read is of one import per kind
  (`OneGen`): `KindOfOneImport` (`OneImportPerKind`).
- For one importer at a time (`Single`): `NeverStale` (`NoStaleRows`), with
  `Freshness` of the file and of what the importer holds; and `LedgerIsUnion`, that
  `ShapeLedger` implements `SourceUnion`, whatever shapes the sources share; opening the
  file to write is the abstract import, a kill the abstract loss. `OthersKept` is what
  the import needs: that the text in hand has the rows of the other kinds but for the
  shapes the import has itself.

`LaunchTimingProofs` (any set of adapters, any numbers of warm-ups, launches,
intervals and replays):

    IInv == TypeOK /\ Place /\ Entries
    FInv == IInv /\ AllGood
    SInv == QInv /\ Sums               where QInv == IInv /\ Quiet /\ GraphIsCall
    TInv == QInv /\ Foretold /\ SamplesRight /\ EagerRight /\ RowsRight

- `FreshBuffers` speaks of what waits on the streams. That a launch puts only good
  operations there needs that what the cache holds under a key was built for a shape with
  that key (`Entries`), and that replays need the same of the graph (`AllGood`). Theorem
  `CoveringKeysGiveFreshBuffers`: if every adapter's cached objects depend on fields
  that are in its key or pinned by `supports` (`KeysCover`, a condition on the catalogue
  alone), no launch ever works on buffers of another shape. Finding 1 is an adapter of
  which `KeysCover` is false.
- `BuildsComeFirst` (`BuildsBeforeTiming`): from the first warm-up launch on, the shape
  finds its entry. No premise: it holds of the adapters with a finding, too.
- The others have one premise, `CallStream`: every adapter fetches the stream at
  call time. Finding 3 is two adapters of which it is false. With it, a call puts its
  operations on the current stream in a row, and the other stream is idle while anything
  is timed (`Quiet`).
- `AccumulatorsStartZeroed` (`SumsFromZero`): on the current stream every kernel comes
  right after the zeroing of its own accumulator (`Sums`), and the device executes a
  stream in order.
- `TimesAreOfTheirKernels` (`RowTimesItsKernels`) and `TimesAreCold`
  (`IntervalsStartCold`): what a sample will be is decided when the host puts the events
  on the stream, and seen only when the device gets there. An invariant over what has
  been executed is not inductive; so `Foretold` says what the device will have come to
  when the stream is empty: there is a run of the waiting operations from the present
  state of the device to one in which the host's counters are true, and each
  interval that ends on the way is right. A step of the host makes the run longer at its
  end, a step of the device takes its first state away.
- `CatalogueIsMeasuredRight`: the adapters of `ProviderCatalog`, but for the three that
  findings 1 and 3 are about, meet both premises, and so have all four properties. The
  theorems above are thus not about adapters that there are none of.

`SpeedupReportProofs` (any finite ledger, any providers, any times):

    IInv == TypeOK /\ KeptIs /\ SummaryIs /\ KeptSummaryIs /\ DashboardIs /\ GateIs

- The properties compare reports made at different times, over results that may have
  been replaced and a ledger that may have been imported since. `IInv` says of each
  report what it was computed from, in terms of what is still there: a report of the
  present run or of the one kept is that of the present or the kept results, over some
  set of shapes (the ledger as it was then). A run's number is used once, so an older
  report says nothing.
- Lemmas on the geometric mean: it unfolds over the shapes (`LogSumUnfolds`), is a number
  (`LogSumType`), and differs between two runs by at most the sum of the differences
  (`LogSumBound`), by induction over the finite subsets.
- Theorems: `TypeCorrect`; `VerdictsAreWithinAStep` (`VerdictsWithinAStep`), by ordering
  the thresholds of the two pieces of code; `FallIsBounded` (`PassBoundsTheFall`), since a
  passing gate bounds every term; `FasterIsNoWorse` (`FasterNeverDemotes`, an action
  property), since the decision is monotone in the sum and nothing else in it changed.

`DashboardDataProofs` (any tests, any number of measurements, kills and records). Three
inductive invariants, each of all files and of what a running program has in hand:

- `SingleInv`, for `SpeedupIsOfItsTimes` (`OneMeasurementPerRecord`): the numbers of a
  record are of one measurement, because a record of `baselines.json` is whole or
  absent, and whole it takes precedence in every field (`Single`, `BaselinesWhole`).
  A join of two records that are each of one measurement is not, in general.
- `OnceInv`, for `OpsAreRecordedOnce` (`OneRecordPerOp`): a loop over a list without
  repetitions lets nothing through twice, and a merge appends under the op's name only if
  no record has the example's. That nothing else has the op's name is the assumption
  on `MS_OPS` (`Names`).
- `CurrentInv`, for `RebuildingIsEnough` (`RebuiltIsCurrent`): one part for each stage
  of the documented order. After `consolidate` the master file is what the inputs give;
  after `export` every listed test has a record with its latest numbers, and no block
  that has no results (`Rebuilt`); after `merge` every block is the latest and no op
  is missing (`MergedIn`); after `build` the page is `kernels.json`. That a current list has
  as many records as are wanted is counted (`DistinctCount`) from `OnceInv` and the
  condition of the property, that no op was appended twice.
- `TypeCorrect`.

## 6. Only model-checked

- Liveness and fairness (`AllTestsFinish`, `ScriptEnds`, the fairness part of
  `ImplementsPool` of both launchers): outside what the prover can do.
- The three findings, as counterexamples; and, by its nature, that the bounds of
  section 3 are enough for the runs.
- Induction is by least counterexample, case by case: the induction theorems of the
  library take an operator as parameter, which the installed provers cannot
  instantiate.

## 7. Not modelled, and why

- Kernels, the tensor code of `ops.py`, tolerances, the choice of a tile in
  `providers/gemm.py`: GPU work. What the models take from them is named where it is
  used (inputs are a function of the shape's fields, a call into a provider may have any
  outcome).
- Percentiles and the estimate of the number of launches in `common.py`: arithmetic on
  measured times. `LaunchTiming` takes any number up to `MaxLoops`.
- Extraction of shapes from logs and traces, parsing of harness output: regular
  expressions over text.
- `latency_runner.py` runs `multishape_runner.run` with a matrix of one provider, which
  `MultishapeRunner` has as a value of its constants; its own lines write text.
  `correctness_runner.py` is the same two loops without timing and without a promise
  of its own.
- `profiler_runner.py`: one external run, and the sum over the csv files it
  leaves; that files of earlier runs are counted again is a line one can read, listed
  as a hazard.
- `hotspot_analyzer.py`, `classify_bottleneck.py`, `coverage_matrix.py`,
  `render_markdown_report.py`, `weighted_summary.py`: one pass over one input, without
  state.
- Restart of the pool while drivers of the killed one still run: one life of the pool
  is modelled.
- `special/flash_attn_mi350_current.py`: a self-contained script.
- The dashboard page's own script, recipe tests, generated bundles and captured data.

Most Python below `examples/` (`**/att_viewer/**/source_*.py` and their like) is a
copy of other projects' kernels and of the standard library that the trace viewer
stored beside a capture: captured data, and by far the greater part of all Python
lines of the repository. The models are of `tools/`, `benchmarks/` and the dashboard's
build script.

## 8. Plan

Most important first. Runs with findings may be merged to keep the project small.

1. (done) The launchers and the abstract pool; the ledger and the union of
   sources; the runner with its caches; the capture pipeline; reports and gates;
   proofs of the pool, the runner, the ledger and the capture pipeline.
2. (done) The catalogue of adapters with the measurement of a launch on two streams,
   and the proof that covering keys are enough; the programs that rewrite the dashboard's
   data.
3. The choice of a tile configuration in `providers/gemm.py` against the preconditions it
   stands for; weighted and per-stage means; register and occupancy arithmetic of
   the analyzer as functions against a reference; the profiler runner; restart of the
   pool with orphans.
4. (done) Proofs of the files of `GpuPool`, of `WaveLauncher`, of the measured times, of
   the verdicts and the gate, and of the dashboard's data.
5. Proofs of what 3 adds; that the sums of `LaunchTiming` stay right after a capture was
   given up, if a synchronize were added there (section 4, "Measurement").
