-------------------------- MODULE MultishapeRunner --------------------------
(***************************************************************************)
(* benchmarks/runners/multishape_runner.py, one run of one kernel: adapters *)
(* are loaded once and kept for the whole ledger; for every shape inputs   *)
(* and an fp32 reference are built, and every provider of the matrix       *)
(* leaves one row, whatever goes wrong.  Rows stay in memory until all     *)
(* shapes are through; then the jsonl and the csv are rewritten.           *)
(*                                                                         *)
(* An adapter that caches keeps a launcher with its buffers per key, and   *)
(* renews its provider_detail when it builds one.  An input tensor is      *)
(* determined by the dims and the dtype of its shape (the seed is fixed);  *)
(* shapes that agree in both differ in model or stage, so that even with   *)
(* the dtype in its key a cache is hit by shapes it was not built for.     *)
(* Calls into a provider may have any outcome; whether a measurement ended *)
(* under a graph or fell back to the eager one is left to LaunchTiming.    *)
(***************************************************************************)
EXTENDS Integers, Sequences

CONSTANTS
  Ledger,        \* the rows of the ledger that are run: [dims, dtype] records
  Matrix,        \* the names of the provider specs, in the order of the matrix
  Enabled,       \* the specs with enabled: true
  Caching,       \* the specs whose adapter caches a launcher
  DtypeInKey     \* those whose cache key holds the dtype besides the dims

Shapes == 1 .. Len(Ledger)
Specs  == {Matrix[k] : k \in 1 .. Len(Matrix)}

ASSUME LedgerAssumption == Ledger \in Seq({Ledger[s] : s \in Shapes})
ASSUME MatrixAssumption ==
  /\ Matrix \in Seq(Specs)
  /\ \A k, l \in 1 .. Len(Matrix) : Matrix[k] = Matrix[l] => k = l
  /\ Len(Matrix) > 0 /\ Enabled \subseteq Specs
ASSUME CachingAssumption == DtypeInKey \subseteq Caching /\ Caching \subseteq Enabled

VARIABLES
  pc,       \* "load", "inputs", "provider", "check", "time", "jsonl", ...
  i,        \* the shape of the loop
  k,        \* the spec of the inner loop
  adapter,  \* adapter[p]: "ok", or "bad" for a stored exception
  cache,    \* cache[p]: shapes whose inputs p's cached launchers were built for
  detail,   \* detail[p]: the shape p's provider_detail speaks of, 0 for none
  correct,  \* the outcome of the correctness check in progress
  results,  \* the list of rows
  jsonl,    \* benchmark_results.jsonl: "old", "torn" or "new"
  csv       \* benchmark_results.csv, likewise

vars == <<pc, i, k, adapter, cache, detail, correct, results, jsonl, csv>>

(* One row; `built' is the shape the timed launcher was built for, 0 without times. *)
Row == [shape : Shapes, spec : Specs,
        status : {"ok", "failed", "oom", "unsupported", "incorrect", "not_configured"},
        correct : {"none", "yes", "no"},
        built : {0} \cup Shapes, detail : {0} \cup Shapes]

FileState == {"old", "torn", "new"}

TypeOK ==
  /\ pc \in {"load", "inputs", "provider", "check", "time", "jsonl", "jsonl_open",
             "csv", "csv_open", "end", "killed"}
  /\ i \in 1 .. Len(Ledger) + 1
  /\ k \in 1 .. Len(Matrix)
  /\ adapter \in [Enabled -> {"ok", "bad"}]
  /\ cache \in [Caching -> SUBSET Shapes]
  /\ detail \in [Enabled -> {0} \cup Shapes]
  /\ correct \in {"none", "yes", "no"}
  /\ results \in Seq(Row)
  /\ jsonl \in FileState /\ csv \in FileState

Init ==
  /\ pc = "load"
  /\ i = 1 /\ k = 1
  /\ adapter = [p \in Enabled |-> "ok"]
  /\ cache = [p \in Caching |-> {}]
  /\ detail = [p \in Enabled |-> 0]
  /\ correct = "none"
  /\ results = <<>>
  /\ jsonl = "old" /\ csv = "old"

NextShapePc == IF i < Len(Ledger) THEN "inputs" ELSE "jsonl"

(* load_entrypoint for every enabled spec; an exception is kept in its place. *)
LoadAdapters ==
  /\ pc = "load"
  /\ adapter' \in [Enabled -> {"ok", "bad"}]
  /\ pc' = IF Ledger = <<>> THEN "jsonl" ELSE "inputs"
  /\ UNCHANGED <<i, k, cache, detail, correct, results, jsonl, csv>>

(* make_inputs and the reference. *)
MakeInputs ==
  /\ pc = "inputs"
  /\ pc' = "provider"
  /\ UNCHANGED <<i, k, adapter, cache, detail, correct, results, jsonl, csv>>

Blank(p, status) == [shape |-> i, spec |-> p, status |-> status, correct |-> "none",
                     built |-> 0, detail |-> 0]

(* Mutant of InputsFail: the bare `continue'. *)
InputsFailSilently ==
  /\ pc = "inputs"
  /\ i' = i + 1
  /\ pc' = NextShapePc
  /\ UNCHANGED <<k, adapter, cache, detail, correct, results, jsonl, csv>>

(* They raise: a failed row for every spec, and on to the next shape. *)
InputsFail ==
  /\ pc = "inputs"
  /\ results' = results \o [n \in 1 .. Len(Matrix) |-> Blank(Matrix[n], "failed")]
  /\ i' = i + 1
  /\ pc' = NextShapePc
  /\ UNCHANGED <<k, adapter, cache, detail, correct, jsonl, csv>>

-----------------------------------------------------------------------------
(* One provider of one shape. *)

(* Mutant of Emit: the inner loop does not end. *)
EmitRunOn(row) ==
  /\ results' = Append(results, row)
  /\ correct' = "none"
  /\ k' = k + 1 /\ i' = i /\ pc' = "provider"
  /\ UNCHANGED <<adapter, jsonl, csv>>

(* results.append(row), and the inner or the outer loop goes on. *)
Emit(row) ==
  /\ results' = Append(results, row)
  /\ correct' = "none"
  /\ \/ k < Len(Matrix) /\ k' = k + 1 /\ i' = i /\ pc' = "provider"
     \/ k = Len(Matrix) /\ k' = 1 /\ i' = i + 1 /\ pc' = NextShapePc
  /\ UNCHANGED <<adapter, jsonl, csv>>

NotConfigured(p) ==
  /\ pc = "provider" /\ p = Matrix[k] /\ p \notin Enabled
  /\ Emit(Blank(p, "not_configured"))
  /\ UNCHANGED <<cache, detail>>

BadAdapter(p) ==
  /\ pc = "provider" /\ p = Matrix[k] /\ p \in Enabled /\ adapter[p] = "bad"
  /\ Emit(Blank(p, "failed"))
  /\ UNCHANGED <<cache, detail>>

HasAdapter(p) == pc = "provider" /\ p = Matrix[k] /\ p \in Enabled /\ adapter[p] = "ok"

(* supports() says no, or raises; the row takes the detail as it stands. *)
Unsupported(p) ==
  /\ HasAdapter(p)
  /\ Emit([Blank(p, "unsupported") EXCEPT !.detail = detail[p]])
  /\ UNCHANGED <<cache, detail>>

Supported(p) ==
  /\ HasAdapter(p)
  /\ pc' = "check"
  /\ UNCHANGED <<i, k, adapter, cache, detail, correct, results, jsonl, csv>>

(* The adapters' cache keys. *)
Key(p, s) == IF p \in DtypeInKey THEN <<Ledger[s].dims, Ledger[s].dtype>>
                                 ELSE <<Ledger[s].dims>>

Hits(p) == {s \in cache[p] : Key(p, s) = Key(p, i)}

(* Mutant of GetLauncher: the detail is that of the first launcher. *)
GetLauncherFirst(p) ==
  /\ IF p \in Caching /\ Hits(p) = {} THEN cache' = [cache EXCEPT ![p] = @ \cup {i}]
                                      ELSE UNCHANGED cache
  /\ detail' = [detail EXCEPT ![p] = IF @ = 0 THEN i ELSE @]

(***************************************************************************)
(* The launcher of a run() or output() call: from the cache, or built for  *)
(* this shape, which renews the detail.  An adapter without a cache works  *)
(* on the inputs it is given, and its detail is a constant or is set by    *)
(* every call.                                                             *)
(***************************************************************************)
GetLauncher(p) ==
  \/ /\ p \in Caching /\ Hits(p) # {}
     /\ UNCHANGED <<cache, detail>>
  \/ /\ p \in Caching /\ Hits(p) = {}
     /\ cache' = [cache EXCEPT ![p] = @ \cup {i}]
     /\ detail' = [detail EXCEPT ![p] = i]
  \/ /\ p \notin Caching
     /\ detail' = [detail EXCEPT ![p] = i]
     /\ UNCHANGED cache

(* The shape that launcher was built for, with its buffers. *)
LaunchedOn(p) == IF p \in Caching /\ Hits(p) # {} THEN CHOOSE s \in Hits(p) : TRUE ELSE i

(* check_correctness: agrees with the reference, does not, or raises. *)
Check(p) ==
  /\ pc = "check" /\ p = Matrix[k]
  /\ \/ GetLauncher(p) /\ correct' \in {"yes", "no"}
     \/ UNCHANGED <<cache, detail>> /\ correct' = "no"
  /\ pc' = "time"
  /\ UNCHANGED <<i, k, adapter, results, jsonl, csv>>

(***************************************************************************)
(* measure_both: an eager measurement, then one under a graph; when the    *)
(* capture raises, the eager one is the result.                            *)
(***************************************************************************)
Time(p) ==
  /\ pc = "time" /\ p = Matrix[k]
  /\ GetLauncher(p)
  /\ Emit([shape |-> i, spec |-> p, correct |-> correct,
           status |-> IF correct = "yes" THEN "ok" ELSE "incorrect",
           built |-> LaunchedOn(p), detail |-> detail'[p]])

(* The eager measurement raises, in the launcher or later. *)
TimeRaises(p) ==
  /\ pc = "time" /\ p = Matrix[k]
  /\ GetLauncher(p) \/ UNCHANGED <<cache, detail>>
  /\ \E status \in {"oom", "failed"} :
       Emit([Blank(p, status) EXCEPT !.correct = correct, !.detail = detail'[p]])

-----------------------------------------------------------------------------
(* The result files, and the end. *)

OpenJsonl ==
  /\ pc = "jsonl"
  /\ pc' = "jsonl_open" /\ jsonl' = "torn"
  /\ UNCHANGED <<i, k, adapter, cache, detail, correct, results, csv>>

CloseJsonl ==
  /\ pc = "jsonl_open"
  /\ pc' = "csv" /\ jsonl' = "new"
  /\ UNCHANGED <<i, k, adapter, cache, detail, correct, results, csv>>

OpenCsv ==
  /\ pc = "csv"
  /\ pc' = "csv_open" /\ csv' = "torn"
  /\ UNCHANGED <<i, k, adapter, cache, detail, correct, results, jsonl>>

CloseCsv ==
  /\ pc = "csv_open"
  /\ pc' = "end" /\ csv' = "new"
  /\ UNCHANGED <<i, k, adapter, cache, detail, correct, results, jsonl>>

(* `timeout 1500' of run_all_pending.sh, a GPU fault, or an uncaught error. *)
Killed ==
  /\ pc \notin {"end", "killed"}
  /\ pc' = "killed"
  /\ UNCHANGED <<i, k, adapter, cache, detail, correct, results, jsonl, csv>>

Provider(p) ==
  \/ NotConfigured(p) \/ BadAdapter(p) \/ Unsupported(p) \/ Supported(p)
  \/ Check(p) \/ Time(p) \/ TimeRaises(p)

Next ==
  \/ LoadAdapters \/ MakeInputs \/ InputsFail
  \/ \E p \in Specs : Provider(p)
  \/ OpenJsonl \/ CloseJsonl \/ OpenCsv \/ CloseCsv
  \/ Killed

Spec == Init /\ [][Next]_vars

-----------------------------------------------------------------------------
(* Properties. *)

(***************************************************************************)
(* "Failed / unsupported / incorrect / disabled providers are KEPT in the  *)
(* output with an explicit status -- never silently dropped"               *)
(* (multishape_runner.py:5-6): the rows are those of the shapes and specs  *)
(* passed so far, one each and in order, across every `continue' and early *)
(* exit of the loops, and all of them are there before a file is opened.   *)
(***************************************************************************)
NothingDropped ==
  /\ Len(results) = (i - 1) * Len(Matrix) + k - 1
  /\ \A n \in 1 .. Len(results) : \E l \in 1 .. Len(Matrix) :
       /\ results[n].spec = Matrix[l]
       /\ n = (results[n].shape - 1) * Len(Matrix) + l
  /\ jsonl # "old" => Len(results) = Len(Ledger) * Len(Matrix)

(***************************************************************************)
(* "every provider receives the EXACT same input tensors for a shape (fair *)
(* comparison)" (ops.py:3-4): no timed row comes from a launcher whose     *)
(* buffers hold the inputs of another shape.                               *)
(***************************************************************************)
SameInputs ==
  \A n \in 1 .. Len(results) : results[n].built # 0 =>
    LET s == results[n].shape
        b == results[n].built
    IN  Ledger[b].dims = Ledger[s].dims /\ Ledger[b].dtype = Ledger[s].dtype

(***************************************************************************)
(* The csv is rewritten only after the jsonl is whole, so a run that is    *)
(* killed leaves at most one of the two torn, and never a new csv beside   *)
(* an old jsonl (multishape_runner.py:151-153).                            *)
(***************************************************************************)
CsvFollowsJsonl ==
  /\ csv # "old" => jsonl = "new"
  /\ pc = "end" => csv = "new"

(***************************************************************************)
(* provider_detail is the "backend selected" and "kernel path" of the row  *)
(* (base.py:24).  It is set where a launcher is built and read when a row  *)
(* is made (flydsl.py:44-52), so on a cache hit a row can speak of another *)
(* shape's kernel.  It does so only when a launcher for another key was    *)
(* built since the one the row was timed on: where shapes of one key       *)
(* follow one another, every detail is of the launcher that was timed.     *)
(***************************************************************************)
DetailOfLastBuild ==
  \A n \in 1 .. Len(results) : results[n].built # 0 =>
    LET r == results[n]
    IN  \/ r.detail = r.built
        \/ /\ r.built < r.detail /\ r.detail < r.shape
           /\ Key(r.spec, r.detail) # Key(r.spec, r.shape)
=============================================================================
