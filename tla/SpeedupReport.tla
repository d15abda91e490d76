--------------------------- MODULE SpeedupReport ---------------------------
(***************************************************************************)
(* What becomes of one kernel's benchmark_results.jsonl: the summary with  *)
(* its promotion decision (reports/analysis.py, summarize_results.py), the *)
(* dashboard's verdict (tools/export_multishape_dashboard.py, which reads  *)
(* the same file with code of its own) and the regression gate             *)
(* (runners/regression_runner.py).  Each is run by hand, in any order, on  *)
(* whatever results and ledger are there, and leaves its answer in a file. *)
(*                                                                         *)
(* A time is its logarithm, in hundredths: a speedup is then a difference  *)
(* and the geometric mean of n speedups is at least x when their sum is at *)
(* least n times the logarithm of x.  Thresholds are in ten-thousandths.   *)
(***************************************************************************)
EXTENDS Integers, FiniteSets, FiniteSetsExt

CONSTANTS
  ShapeId,
  Baseline,     \* the providers besides flydsl
  FlyRow,       \* the rows flydsl may get, a set of rows
  BaseRow,      \* the rows a baseline may get
  MaxRuns,      \* bound: benchmark runs
  MaxImports    \* bound: imports into the ledger

Provider == {"flydsl"} \cup Baseline

(* status "failed" stands for failed and oom, "unsupported" for the
   statuses no report counts; a row with another status has a time. *)
Row == [status : {"ok", "incorrect"}, us : Int]
         \cup [status : {"failed", "unsupported"}]

ASSUME RowAssumption ==
  /\ IsFiniteSet(ShapeId) /\ IsFiniteSet(Baseline) /\ "flydsl" \notin Baseline
  /\ FlyRow \subseteq Row /\ BaseRow \subseteq Row
  /\ MaxRuns \in Nat /\ MaxImports \in Nat

VARIABLES
  ledger,     \* the shapes of shape_ledger.jsonl
  imports,
  run,        \* the benchmark run the results are of, 0 for none
  results,    \* benchmark_results.jsonl: a row for each shape and provider
  kept,       \* the run of the results kept as the baseline, 0 for none
  previous,   \* those results
  summary,    \* of benchmark_summary.md: run, shapes joined, decision
  dashboard,  \* of kernels.json: run, verdict
  gate        \* of regression_summary.md: run, kept, shapes joined, verdict

inputs  == <<ledger, imports, run, results, kept, previous>>
reports == <<summary, dashboard, gate>>
vars    == <<inputs, reports>>

Results == UNION {[S -> [Provider -> FlyRow \cup BaseRow]] : S \in SUBSET ShapeId}

TypeOK ==
  /\ ledger \subseteq ShapeId /\ imports \in 0 .. MaxImports
  /\ run \in 0 .. MaxRuns /\ kept \in 0 .. run
  /\ results \in Results /\ previous \in Results
  /\ summary \in [run : 0 .. run, shapes : SUBSET ShapeId,
                  decision : {"none", "blocked", "tune_needed", "rewrite_needed", "promote",
                              "promote_with_guardrails"}]
  /\ dashboard \in [run : 0 .. run,
                    verdict : {"none", "blocked", "baseline_blocked", "promote", "parity",
                               "tune_needed", "rewrite_needed"}]
  /\ gate \in [run : 0 .. run, kept : 0 .. kept, shapes : SUBSET ShapeId,
               verdict : {"none", "PASS", "REGRESSED"}]

(* The ledger as it is checked in; nothing measured. *)
Init ==
  /\ ledger = ShapeId /\ imports = 0
  /\ run = 0 /\ results = << >> /\ kept = 0 /\ previous = << >>
  /\ summary = [run |-> 0, shapes |-> {}, decision |-> "none"]
  /\ dashboard = [run |-> 0, verdict |-> "none"]
  /\ gate = [run |-> 0, kept |-> 0, shapes |-> {}, verdict |-> "none"]

-----------------------------------------------------------------------------
(* analysis.py *)

IsTimed(row) == row.status \in {"ok", "incorrect"}

(* The correct and timed baselines of a shape. *)
Baselines(provs) == {p \in Baseline : provs[p].status = "ok"}

BestUs(provs) == Min({provs[p].us : p \in Baselines(provs)})

(* speedup_vs_best: positive when flydsl is the faster one. *)
Speedup(provs) == BestUs(provs) - provs["flydsl"].us

(* The shapes joined with the ledger that have a correct speedup. *)
Measured(res, S) ==
  {s \in S \cap DOMAIN res : res[s]["flydsl"].status = "ok" /\ Baselines(res[s]) # {}}

LogSum(res, S) == MapThenSumSet(LAMBDA s : Speedup(res[s]), S)

(* geomean >= the threshold *)
Reaches(res, S, threshold) == 100 * LogSum(res, S) >= threshold * Cardinality(S)

(* ln 10, 1.05, 1.03, 1, 0.97, 0.95, 0.9, 0.7 and 0.6 *)
Ln10  == 23026
Ln105 == 488
Ln103 == 296
Ln1   == 0
Ln097 == -305
Ln095 == -513
Ln09  == -1054
Ln07  == -3567
Ln06  == -5108

-----------------------------------------------------------------------------
(* summarize_results.py *)

(* The hard failures of the shapes joined. *)
Failures(res, S) ==
  {s \in S \cap DOMAIN res : res[s]["flydsl"].status \in {"failed", "incorrect"}}

(* Mutant of Decide: the comparison with 0.7 is the wrong way round. *)
DecideInverted(res, S) ==
  LET M == Measured(res, S) IN
  CASE M = {} -> "blocked"
    [] M # {} /\ Reaches(res, M, Ln1) /\ Failures(res, S) = {} -> "promote"
    [] M # {} /\ ~ Reaches(res, M, Ln1) /\ Reaches(res, M, Ln07) -> "rewrite_needed"
    [] OTHER -> "tune_needed"

Decide(res, S) ==
  LET M == Measured(res, S)
      clean == Failures(res, S) = {}
  IN  IF M = {} THEN "blocked"
      ELSE IF clean /\ Reaches(res, M, Ln1) THEN "promote"
      ELSE IF clean /\ Reaches(res, M, Ln095) THEN "promote_with_guardrails"
      ELSE IF Reaches(res, M, Ln07) THEN "tune_needed" ELSE "rewrite_needed"

(* benchmark_summary.md is rendered. *)
Summarize ==
  /\ run > 0
  /\ summary' = [run |-> run, shapes |-> ledger \cap DOMAIN results,
                 decision |-> Decide(results, ledger)]
  /\ UNCHANGED <<inputs, dashboard, gate>>

-----------------------------------------------------------------------------
(* export_multishape_dashboard.py *)

(* Mutant of Verdict: parity already counts as a promotion. *)
VerdictLoose(res) ==
  LET M == Measured(res, DOMAIN res) IN
  CASE M = {} -> "blocked"
    [] M # {} /\ Reaches(res, M, Ln097) -> "promote"
    [] OTHER -> "tune_needed"

(* Every shape of the results is taken, in the ledger or not. *)
Verdict(res) ==
  LET M == Measured(res, DOMAIN res)
  IN  IF M = {} THEN "blocked"
      ELSE IF 100 * LogSum(res, M) > Ln10 * Cardinality(M) THEN "baseline_blocked"
      ELSE IF Reaches(res, M, Ln103) THEN "promote"
      ELSE IF Reaches(res, M, Ln097) THEN "parity"
      ELSE IF Reaches(res, M, Ln06) THEN "tune_needed" ELSE "rewrite_needed"

Export ==
  /\ run > 0
  /\ dashboard' = [run |-> run, verdict |-> Verdict(results)]
  /\ UNCHANGED <<inputs, summary, gate>>

-----------------------------------------------------------------------------
(* regression_runner.py *)

(* Shape and provider pairs timed in both runs. *)
InBoth(cur, prev) ==
  {sp \in (DOMAIN cur \cap DOMAIN prev) \X Provider :
     IsTimed(cur[sp[1]][sp[2]]) /\ IsTimed(prev[sp[1]][sp[2]])}

Slowdown(cur, prev, sp) == cur[sp[1]][sp[2]].us - prev[sp[1]][sp[2]].us

(* Mutant of Slower: previous and current are swapped. *)
SlowerSwapped(cur, prev) ==
  {sp \in InBoth(cur, prev) : -100 * Slowdown(cur, prev, sp) > Ln105}

(* ratio > 1.05, or 1/ratio < 0.95 *)
Slower(cur, prev) ==
  {sp \in InBoth(cur, prev) : \/ 100 * Slowdown(cur, prev, sp) > Ln105
                              \/ -100 * Slowdown(cur, prev, sp) < Ln095}

(* speedup_vs_best < 0.90 *)
Hot(cur, S) == {s \in Measured(cur, S) : 100 * Speedup(cur[s]) < Ln09}

Regress ==
  /\ run > 0 /\ kept > 0
  /\ gate' = [run |-> run, kept |-> kept, shapes |-> ledger \cap DOMAIN results,
              verdict |-> IF Slower(results, previous) = {} /\ Hot(results, ledger) = {}
                          THEN "PASS" ELSE "REGRESSED"]
  /\ UNCHANGED <<inputs, summary, dashboard>>

-----------------------------------------------------------------------------
(* What happens to the inputs. *)

(* Mutant of Measure: a provider that fails leaves no row. *)
MeasureDropping ==
  /\ run < MaxRuns
  /\ run' = run + 1
  /\ \E fly \in [ledger -> FlyRow], base \in [ledger -> [Baseline -> BaseRow]] :
       results' = [s \in ledger |->
                     [p \in {"flydsl"} \cup {b \in Baseline : base[s][b].status # "failed"} |->
                       IF p = "flydsl" THEN fly[s] ELSE base[s][p]]]
  /\ UNCHANGED <<ledger, imports, kept, previous, reports>>

(* multishape_runner.py: every shape of the ledger, every provider. *)
Measure ==
  /\ run < MaxRuns
  /\ run' = run + 1
  /\ \E fly \in [ledger -> FlyRow], base \in [ledger -> [Baseline -> BaseRow]] :
       results' = [s \in ledger |-> [p \in Provider |->
                     IF p = "flydsl" THEN fly[s] ELSE base[s][p]]]
  /\ UNCHANGED <<ledger, imports, kept, previous, reports>>

(* The results are copied aside for --previous. *)
Keep ==
  /\ run > kept
  /\ kept' = run /\ previous' = results
  /\ UNCHANGED <<ledger, imports, run, results, reports>>

(* An importer replaces the rows of its kinds. *)
Import ==
  /\ imports < MaxImports
  /\ imports' = imports + 1
  /\ ledger' \in SUBSET ShapeId
  /\ UNCHANGED <<run, results, kept, previous, reports>>

Next == Measure \/ Keep \/ Import \/ Summarize \/ Export \/ Regress

Spec == Init /\ [][Next]_vars

-----------------------------------------------------------------------------
(* Properties. *)

(* The report is of the results that are there, and the ledger had all their shapes. *)
Whole(report) == run > 0 /\ report.run = run /\ report.shapes = DOMAIN results

(* The verdicts and decisions from worst to best. *)
Rank == [blocked |-> 0, rewrite_needed |-> 1, tune_needed |-> 2,
         promote_with_guardrails |-> 3, parity |-> 3, promote |-> 4]

(***************************************************************************)
(* The two answers on one run come from two pieces of code with thresholds *)
(* and filters of their own (summarize_results.py:54-77,                   *)
(* export_multishape_dashboard.py:150-230).  While the ledger has all the  *)
(* shapes: one has nothing to compare when the other has nothing; what the *)
(* dashboard would rewrite, so would the summary, and what the summary     *)
(* would rewrite the dashboard would at least tune; hard failures, which   *)
(* the dashboard does not look at, keep the summary from promoting.        *)
(* Without them, and unless the dashboard finds the baseline unfair, the   *)
(* two are at most a step apart, and what the dashboard promotes the       *)
(* summary promotes.  Beside baseline_blocked the summary promotes: the    *)
(* two contradict one another there, and nothing is claimed.               *)
(***************************************************************************)
VerdictsWithinAStep ==
  dashboard.run = summary.run /\ Whole(summary) =>
    LET clean == Failures(results, ShapeId) = {}
        fair  == dashboard.verdict # "baseline_blocked"
    IN  /\ summary.decision = "blocked" <=> dashboard.verdict = "blocked"
        /\ dashboard.verdict = "rewrite_needed" => summary.decision = "rewrite_needed"
        /\ summary.decision = "rewrite_needed" =>
             dashboard.verdict \in {"tune_needed", "rewrite_needed"}
        /\ ~ clean => summary.decision \notin {"promote", "promote_with_guardrails"}
        /\ clean /\ fair =>
             /\ Rank[summary.decision] - Rank[dashboard.verdict] \in -1 .. 1
             /\ dashboard.verdict = "promote" => summary.decision = "promote"

(***************************************************************************)
(* The overall speedup does not slip through the gate shape by shape: when *)
(* it passes and both runs measured the same shapes against baselines that *)
(* did not get faster, the geomean fell by 5% at most                      *)
(* (regression_runner.py:52-75, analysis.py:91).                           *)
(***************************************************************************)
SameCoverage(cur, prev, S) ==
  /\ Measured(cur, S) = Measured(prev, S)
  /\ \A s \in Measured(cur, S) : BestUs(cur[s]) >= BestUs(prev[s])

PassBoundsTheFall ==
  LET S == gate.shapes
      M == Measured(results, S)
  IN  gate.verdict = "PASS" /\ gate.run = run /\ gate.kept = kept
        /\ SameCoverage(results, previous, S) =>
        100 * (LogSum(previous, M) - LogSum(results, M)) <= Ln105 * Cardinality(M)

(***************************************************************************)
(* A summary is never worse than the one before because flydsl got faster: *)
(* no threshold, and no order of the tests in decide, turns a gain into a  *)
(* loss (summarize_results.py:54-77).                                      *)
(***************************************************************************)
OnlyFaster(cur, prev) ==
  /\ DOMAIN cur = DOMAIN prev
  /\ \A s \in DOMAIN cur :
       /\ \A p \in Baseline : cur[s][p] = prev[s][p]
       /\ cur[s]["flydsl"].status = prev[s]["flydsl"].status
       /\ IsTimed(cur[s]["flydsl"]) => cur[s]["flydsl"].us <= prev[s]["flydsl"].us

FasterNeverDemotes ==
  [][summary'.run # summary.run /\ summary.run = kept /\ kept > 0
       /\ summary'.shapes = summary.shapes /\ OnlyFaster(results, previous) =>
       Rank[summary'.decision] >= Rank[summary.decision]]_vars
=============================================================================
