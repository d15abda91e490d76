---------------------------- MODULE DashboardData ----------------------------
(***************************************************************************)
(* The way of the numbers to the dashboard: the sweep's result files, the  *)
(* baselines and the multi-shape results are measured anew now and then;   *)
(* consolidate_sweep.py, export_dashboard_data.py,                         *)
(* export_multishape_dashboard.py and build_dashboard.py are run by hand,  *)
(* in any order.  Each reads what the one before left, truncates its own   *)
(* file and writes it, and may be killed before it has closed it; two of   *)
(* them write kernels.json, and one of the two also reads it.              *)
(*                                                                         *)
(* A number is the set of the measurements it was computed from, {} when   *)
(* there is none.  Of a record, the times and the multi-shape block are    *)
(* kept; which of several baselines best_baseline takes is left out.       *)
(***************************************************************************)
EXTENDS Integers, FiniteSets, Sequences, SequencesExt

CONSTANTS
  Order,      \* the tests in the order of the sweep, under their examples' names
  MS_OPS,     \* the op of each example
  Patched,    \* the tests that PATCH gives times to
  Torn,       \* a file that is missing, or was not written to its end
  MaxRuns,    \* bound: measurements
  MaxDeaths,  \* bound: programs killed
  MaxRecords  \* bound: records in kernels.json

Test == ToSet(Order)
Op   == {MS_OPS[t] : t \in Test}
Hand == MaxRuns + 1  \* the measurement that PATCH was written from

(* In MS_OPS, an op's name is another example's nowhere. *)
ASSUME DashboardAssumption ==
  /\ Order \in Seq(Test) /\ IsInjective(Order)
  /\ IsInjective(MS_OPS) /\ DOMAIN MS_OPS = Test
  /\ \A t, u \in Test : MS_OPS[t] = u => t = u
  /\ Patched \subseteq Test
  /\ MaxRuns \in Nat /\ MaxDeaths \in Nat /\ MaxRecords \in Nat

Number == SUBSET (1 .. Hand)
Times  == {t \in [flydsl_us : Number, baseline_us : Number, speedup : Number] :
             t.speedup # {} => t.flydsl_us # {} /\ t.baseline_us # {}}
Record == [example : Test \cup Op, times : Times, multishape : 0 .. MaxRuns]
Row    == [test : Test, times : Times]

(* The multi-shape summary as its records, <<>> if there is none. *)
Dataset == [kernels : Seq(Record), multishape_summary : Seq(Record)]

ASSUME TornAssumption == Torn \notin Dataset

VARIABLES
  runs, deaths,
  swept,      \* by test, what its result file says
  baselines,  \* by test, its record in baselines.json
  results,    \* by op, the run of benchmark_results.jsonl, 0 for none
  master,     \* sweep_master.json
  kernelsJson, dataJs, indexHtml,
  program, step, data,  \* what runs, where it is, what it writes
  through     \* programs run through in the documented order on the inputs there are

inputs == <<runs, swept, baselines, results>>
files  == <<master, kernelsJson, dataJs, indexHtml>>
vars   == <<inputs, deaths, files, program, step, data, through>>

TypeOK ==
  /\ runs \in 0 .. MaxRuns /\ deaths \in 0 .. MaxDeaths
  /\ swept \in [Test -> Times \cup {Torn}] /\ baselines \in [Test -> Times]
  /\ results \in [Op -> 0 .. MaxRuns]
  /\ master \in Seq(Row) \cup {Torn}
  /\ \A file \in {kernelsJson, dataJs, indexHtml} : file \in Dataset \cup {Torn}
  /\ program \in {"none", "consolidate", "export", "merge", "build"} /\ step \in 1 .. 3
  /\ program = "consolidate" => data \in Seq(Row)
  /\ program \in {"export", "merge", "build"} => data \in Dataset
  /\ through \in 0 .. 4

NoTimes == [flydsl_us |-> {}, baseline_us |-> {}, speedup |-> {}]

Init ==
  /\ runs = 0 /\ deaths = 0
  /\ swept = [t \in Test |-> Torn] /\ baselines = [t \in Test |-> NoTimes]
  /\ results = [o \in Op |-> 0]
  /\ master = Torn /\ kernelsJson = Torn /\ dataJs = Torn /\ indexHtml = Torn
  /\ program = "none" /\ step = 1 /\ data = Torn /\ through = 0

-----------------------------------------------------------------------------
(* New measurements, while no program runs. *)

AtMost(level) == IF through < level THEN through ELSE level

(* level: the programs that do not read what is measured. *)
Measure(level) ==
  /\ program = "none" /\ runs < MaxRuns
  /\ runs' = runs + 1 /\ through' = AtMost(level)
  /\ UNCHANGED <<deaths, files, program, step, data>>

(* run_sweep.py: as much as it could parse from the output. *)
Sweep(t) ==
  /\ Measure(0)
  /\ \E f, b \in {{}, {runs'}} :
       swept' = [swept EXCEPT ![t] = [flydsl_us |-> f, baseline_us |-> b, speedup |-> {}]]
  /\ UNCHANGED <<baselines, results>>

(* A record of baselines.json has all three numbers. *)
MeasureBaseline(t) ==
  /\ Measure(1)
  /\ baselines' = [baselines EXCEPT ![t] =
       [flydsl_us |-> {runs'}, baseline_us |-> {runs'}, speedup |-> {runs'}]]
  /\ UNCHANGED <<swept, results>>

(* multishape_runner.py *)
Benchmark(o) ==
  /\ Measure(2)
  /\ results' = [results EXCEPT ![o] = runs']
  /\ UNCHANGED <<swept, baselines>>

-----------------------------------------------------------------------------
(* What the programs compute. *)

(* Mutant of Quotient: the kernel's own time is not asked for. *)
QuotientUnguarded(b, f) == IF b # {} THEN b \cup f ELSE {}

Quotient(b, f) == IF b # {} /\ f # {} THEN b \cup f ELSE {}
Or(x, y)       == IF x # {} THEN x ELSE y

(* The elements of s that are in X, in their order: a loop with an if. *)
Selected(s, X) ==
  LET upTo[i \in 0 .. Len(s)] ==
        IF i = 0 THEN << >>
        ELSE IF s[i] \in X THEN Append(upTo[i - 1], s[i]) ELSE upTo[i - 1]
  IN  upTo[Len(s)]

(* consolidate_sweep.py: the files there are, PATCH, the derived speedup. *)
Consolidated ==
  LET listed == Selected(Order, {t \in Test : t \in Patched \/ swept[t] # Torn})
      Us(t, field) == IF t \in Patched THEN {Hand} ELSE swept[t][field]
      RowOf(t) == [test |-> t,
                   times |-> [flydsl_us |-> Us(t, "flydsl_us"),
                              baseline_us |-> Us(t, "baseline_us"),
                              speedup |-> Quotient(Us(t, "baseline_us"), Us(t, "flydsl_us"))]]
  IN  [l \in DOMAIN listed |-> RowOf(listed[l])]

(* Mutant of Joined: the speedup of the sweep is preferred. *)
JoinedSweepFirst(r, b) ==
  LET f == Or(b.flydsl_us, r.flydsl_us)
      u == Or(b.baseline_us, r.baseline_us)
  IN  [flydsl_us |-> f, baseline_us |-> u, speedup |-> Or(Or(r.speedup, b.speedup), Quotient(u, f))]

(* export_dashboard_data.py: field by field from baselines.json or the sweep. *)
Joined(r, b) ==
  LET f == Or(b.flydsl_us, r.flydsl_us)
      u == Or(b.baseline_us, r.baseline_us)
  IN  [flydsl_us |-> f, baseline_us |-> u, speedup |-> Or(Or(b.speedup, r.speedup), Quotient(u, f))]

Exported ==
  [kernels |-> [l \in DOMAIN master |->
                 [example |-> master[l].test,
                  times |-> Joined(master[l].times, baselines[master[l].test]),
                  multishape |-> 0]],
   multishape_summary |-> <<>>]

WithBlock(records) == Selected(records, {r \in ToSet(records) : r.multishape # 0})

(* Mutant of Appended: looked up under the name of the op. *)
AppendedByOp(records) ==
  LET there == {records[l].example : l \in DOMAIN records}
      new == Selected(Order, {t \in Test : results[MS_OPS[t]] # 0 /\ MS_OPS[t] \notin there})
  IN  [l \in DOMAIN new |-> [example |-> MS_OPS[new[l]], times |-> NoTimes,
                             multishape |-> results[MS_OPS[new[l]]]]]

(* A record for each op with results and no record of its example. *)
Appended(records) ==
  LET there == {records[l].example : l \in DOMAIN records}
      new == Selected(Order, {t \in Test : results[MS_OPS[t]] # 0 /\ t \notin there})
  IN  [l \in DOMAIN new |-> [example |-> MS_OPS[new[l]], times |-> NoTimes,
                             multishape |-> results[MS_OPS[new[l]]]]]

(* Mutant of Attached: a block that is there stays. *)
AttachedOnce(records) ==
  [l \in DOMAIN records |->
    IF records[l].example \in Test /\ records[l].multishape = 0
    THEN [records[l] EXCEPT !.multishape = results[MS_OPS[records[l].example]]]
    ELSE records[l]]

(* The other records get the block of their op, if it has results. *)
Attached(records) ==
  [l \in DOMAIN records |->
    IF records[l].example \in {t \in Test : results[MS_OPS[t]] # 0}
    THEN [records[l] EXCEPT !.multishape = results[MS_OPS[records[l].example]]]
    ELSE records[l]]

(* export_multishape_dashboard.py *)
Merged ==
  LET records == Attached(kernelsJson.kernels) \o Appended(kernelsJson.kernels)
  IN  [kernels |-> records, multishape_summary |-> WithBlock(records)]

-----------------------------------------------------------------------------
(* The programs: read, truncate, write. *)

Rank == [consolidate |-> 1, export |-> 2, merge |-> 3, build |-> 4]

Begin(p, d) ==
  /\ program = "none"
  /\ program' = p /\ step' = 1 /\ data' = d
  /\ through' = AtMost(Rank[p] - 1)
  /\ UNCHANGED <<inputs, deaths>>

Consolidate ==
  /\ Begin("consolidate", Consolidated)
  /\ master' = Torn
  /\ UNCHANGED <<kernelsJson, dataJs, indexHtml>>

Export ==
  /\ master # Torn
  /\ Begin("export", Exported)
  /\ kernelsJson' = Torn
  /\ UNCHANGED <<master, dataJs, indexHtml>>

Merge ==
  /\ kernelsJson # Torn /\ Len(Merged.kernels) <= MaxRecords
  /\ Begin("merge", Merged)
  /\ kernelsJson' = Torn
  /\ UNCHANGED <<master, dataJs, indexHtml>>

(* Without a summary the last print raises, but the page is written by then. *)
Build ==
  /\ kernelsJson # Torn
  /\ Begin("build", kernelsJson)
  /\ indexHtml' = Torn
  /\ UNCHANGED <<master, kernelsJson, dataJs>>

(* kernels.json is closed; data.js is not yet open. *)
CloseKernels ==
  /\ program \in {"export", "merge"} /\ step = 1
  /\ kernelsJson' = data /\ step' = 2
  /\ UNCHANGED <<inputs, deaths, master, dataJs, indexHtml, program, data, through>>

OpenDataJs ==
  /\ program \in {"export", "merge"} /\ step = 2
  /\ dataJs' = Torn /\ step' = 3
  /\ UNCHANGED <<inputs, deaths, master, kernelsJson, indexHtml, program, data, through>>

(* The last file is closed. *)
End ==
  /\ program \in {"export", "merge"} => step = 3
  /\ \/ program = "consolidate" /\ master' = data /\ UNCHANGED <<dataJs, indexHtml>>
     \/ program \in {"export", "merge"} /\ dataJs' = data /\ UNCHANGED <<master, indexHtml>>
     \/ program = "build" /\ indexHtml' = data /\ UNCHANGED <<master, dataJs>>
  /\ through' = IF through = Rank[program] - 1 THEN Rank[program] ELSE through
  /\ program' = "none" /\ step' = 1 /\ data' = Torn
  /\ UNCHANGED <<inputs, deaths, kernelsJson>>

(* Killed; what was open stays cut off. *)
Die ==
  /\ program # "none" /\ deaths < MaxDeaths
  /\ deaths' = deaths + 1
  /\ through' = AtMost(1)
  /\ program' = "none" /\ step' = 1 /\ data' = Torn
  /\ UNCHANGED <<inputs, files>>

Next ==
  \/ \E t \in Test : Sweep(t) \/ MeasureBaseline(t)
  \/ \E o \in Op : Benchmark(o)
  \/ Consolidate \/ Export \/ Merge \/ Build
  \/ CloseKernels \/ OpenDataJs \/ End \/ Die

Spec == Init /\ [][Next]_vars

-----------------------------------------------------------------------------
(* Properties. *)

(***************************************************************************)
(* consolidate, export, merge, build, each run through since its inputs    *)
(* were measured, bring the page and data.js up to date whatever was there *)
(* before: torn or old files, blocks merged earlier, programs killed       *)
(* halfway ("merges sweep + baselines", tools/README.md:19; "for every     *)
(* kernel with a multi-shape benchmark", export_multishape_dashboard.py:5).*)
(* A test of the sweep and an op with results has one record, with its     *)
(* latest numbers, unless an appended record was appended again.           *)
(***************************************************************************)
Latest(t) == IF t \in Patched /\ baselines[t] = NoTimes
             THEN [flydsl_us |-> {Hand}, baseline_us |-> {Hand}, speedup |-> {Hand}]
             ELSE IF baselines[t] # NoTimes THEN baselines[t]
             ELSE [flydsl_us |-> swept[t].flydsl_us, baseline_us |-> swept[t].baseline_us,
                   speedup |-> swept[t].flydsl_us \cap swept[t].baseline_us]

Wanted ==
  {[example |-> t, times |-> Latest(t), multishape |-> results[MS_OPS[t]]] :
     t \in {u \in Test : u \in Patched \/ swept[u] # Torn}}
  \cup
  {[example |-> MS_OPS[t], times |-> NoTimes, multishape |-> results[MS_OPS[t]]] :
     t \in {u \in Test \ Patched : swept[u] = Torn /\ results[MS_OPS[u]] # 0}}

Shows(file, records) ==
  /\ file # Torn
  /\ ToSet(file.kernels) = records /\ Len(file.kernels) = Cardinality(records)
  /\ LET blocks == {r \in records : r.multishape # 0}
     IN  /\ ToSet(file.multishape_summary) = blocks
         /\ Len(file.multishape_summary) = Cardinality(blocks)

AppendedAgain ==
  \E t \in Test : MS_OPS[t] # t
    /\ Cardinality({l \in DOMAIN indexHtml.kernels : indexHtml.kernels[l].example = MS_OPS[t]}) > 1

RebuiltIsCurrent ==
  program = "none" /\ through = 4 /\ ~ AppendedAgain => Shows(indexHtml, Wanted) /\ Shows(dataJs, Wanted)

(***************************************************************************)
(* Merging again, in whatever order with the other programs, does not give *)
(* an op a second record if its example has one, or if the op has the name *)
(* of its example.  Any other op is appended again by every merge: its     *)
(* record is looked up under the example's name and kept under the op's    *)
(* (export_multishape_dashboard.py:259, 268-279).                          *)
(***************************************************************************)
OneRecordPerOp ==
  kernelsJson # Torn =>
    \A t \in Test :
      LET records == kernelsJson.kernels
          its == {l \in DOMAIN records : records[l].example \in {t, MS_OPS[t]}}
      IN  MS_OPS[t] = t \/ (\E l \in its : records[l].example = t) => Cardinality(its) <= 1

(***************************************************************************)
(* The speedup of a record is of the times beside it, over any sequence of *)
(* sweeps, baselines and exports (export_dashboard_data.py:46-51), when    *)
(* every record of baselines.json has all three numbers, as those checked  *)
(* in have: of one with a part of them, each missing number would come     *)
(* from the sweep.  TFLOPS, always the sweep's, are not among them.        *)
(***************************************************************************)
OneMeasurementPerRecord ==
  \A file \in {kernelsJson, dataJs, indexHtml} : file # Torn =>
    \A l \in DOMAIN file.kernels :
      LET times == file.kernels[l].times
      IN  times.speedup # {} =>
            Cardinality(times.flydsl_us \cup times.baseline_us \cup times.speedup) = 1
=============================================================================
