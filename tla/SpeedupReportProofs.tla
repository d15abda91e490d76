------------------------- MODULE SpeedupReportProofs -------------------------
(***************************************************************************)
(* Types, and what SpeedupReport says of the verdicts and the gate, for    *)
(* any ledger, any providers and any times.  The geometric mean is a sum   *)
(* over a set of shapes; the facts about it that are needed, that it is a  *)
(* number and that it is bounded when its terms are, are proved first, by  *)
(* induction over the finite subsets of the set.                           *)
(***************************************************************************)
EXTENDS SpeedupReport, FiniteSetTheorems, NaturalsInduction, TLAPS

-----------------------------------------------------------------------------
(* Induction, as the existence of a least counterexample. *)

LEMMA LeastNatural ==
  ASSUME NEW T, T \subseteq Nat, T # {}
  PROVE  \E x \in T : \A y \in T : x <= y
<1>1. PICK x \in T : \A y \in T : ~ (<<y, x>> \in OpToRel(<, Nat))
  BY NatLessThanWellFounded, WFMin
<1>2. \A y \in T : ~ (y < x)
  BY <1>1 DEF OpToRel
<1>3. x \in Nat /\ \A y \in T : y \in Nat
  OBVIOUS
<1> QED
  BY <1>2, <1>3

LEMMA LeastSubset ==
  ASSUME NEW S, IsFiniteSet(S), NEW T, T \subseteq SUBSET S, T # {}
  PROVE  \E x \in T : \A y \in T : y \subseteq x => y = x
<1>1. T \subseteq FiniteSubsetsOf(S)
  BY FS_FiniteSubsetsOfFinite
<1>2. PICK x \in T : \A y \in T : ~ (<<y, x>> \in StrictSubsetOrdering(S))
  BY <1>1, FS_StrictSubsetOrderingWellFounded, WFMin
<1>3. \A y \in T : y \subseteq x => y = x
  BY <1>2 DEF StrictSubsetOrdering
<1> QED
  BY <1>3

-----------------------------------------------------------------------------
(* The fold that LogSum is. *)

First(s) == CHOOSE x \in s : TRUE

Unfolds(g, res, D) ==
  \A s \in D : g[s] = IF s = {} THEN 0 ELSE Speedup(res[First(s)]) + g[s \ {First(s)}]

(* The recursive function that MapThenSumSet chooses. *)
Solves(g, res, S) ==
  g = [s \in SUBSET S |->
        IF s = {} THEN 0 ELSE Speedup(res[First(s)]) + g[s \ {First(s)}]]

LEMMA FirstIn == ASSUME NEW s, s # {} PROVE First(s) \in s
BY DEF First

(* The recursive equation has a solution: one on the sets of at most k shapes, for every k. *)
LEMMA SumExists ==
  ASSUME NEW res, NEW S, IsFiniteSet(S)
  PROVE  \E g : Solves(g, res, S)
<1> DEFINE D(k) == {s \in SUBSET S : Cardinality(s) <= k}
           Solved(k) == \E g : g = [s \in D(k) |-> g[s]] /\ Unfolds(g, res, D(k))
           T == {k \in Nat : ~ Solved(k)}
<1>1. \A s \in SUBSET S : IsFiniteSet(s) /\ Cardinality(s) \in Nat
  BY FS_Subset, FS_CardinalityType
<1>2. \A s \in SUBSET S : Cardinality(s) <= 0 => s = {}
  BY <1>1, FS_EmptySet
<1>3. \A s \in SUBSET S : s # {} =>
        /\ First(s) \in s /\ s \ {First(s)} \in SUBSET S
        /\ Cardinality(s \ {First(s)}) = Cardinality(s) - 1
  BY <1>1, FirstIn, FS_RemoveElement
<1>4. T = {}
  <2> SUFFICES ASSUME T # {} PROVE FALSE
    OBVIOUS
  <2>1. PICK k \in T : \A y \in T : k <= y
    BY LeastNatural
  <2>2. k # 0
    <3>1. Solved(0)
      <4> DEFINE g == [s \in D(0) |-> 0]
      <4>1. g = [s \in D(0) |-> g[s]]
        OBVIOUS
      <4>2. Unfolds(g, res, D(0))
        BY <1>2 DEF Unfolds
      <4> QED
        BY <4>1, <4>2
    <3> QED
      BY <3>1
  <2>T. T \subseteq Nat
    OBVIOUS
  <2>3. k - 1 \in Nat /\ k - 1 \notin T
    <3> HIDE DEF T
    <3>1. k \in Nat
      BY <2>1, <2>T
    <3>2. k - 1 \in Nat /\ ~ (k <= k - 1)
      BY <2>2, <3>1
    <3> QED
      BY <2>1, <3>2
  <2>b. Solved(k - 1)
    BY <2>3
  <2>4. PICK h : Unfolds(h, res, D(k - 1))
    BY <2>b
  <2> DEFINE g == [s \in D(k) |->
                    IF s = {} THEN 0 ELSE Speedup(res[First(s)]) + h[s \ {First(s)}]]
  <2>5. \A s \in D(k) : s # {} => s \ {First(s)} \in D(k - 1) /\ s \ {First(s)} \in D(k)
    BY <1>1, <1>3, <2>3
  <2>6. ASSUME NEW s \in D(k - 1) PROVE g[s] = h[s]
    <3>1. s \in D(k)
      BY <1>1, <2>3
    <3> QED
      BY <2>4, <3>1 DEF Unfolds
  <2>7. Unfolds(g, res, D(k))
    <3> SUFFICES ASSUME NEW s \in D(k), s # {}
                 PROVE  g[s] = Speedup(res[First(s)]) + g[s \ {First(s)}]
      BY DEF Unfolds
    <3>1. g[s] = Speedup(res[First(s)]) + h[s \ {First(s)}]
      OBVIOUS
    <3>2. g[s \ {First(s)}] = h[s \ {First(s)}]
      BY <2>5, <2>6
    <3> QED
      BY <3>1, <3>2
  <2>8. g = [s \in D(k) |-> g[s]]
    OBVIOUS
  <2>9. Solved(k)
    BY <2>7, <2>8
  <2> QED
    BY <2>9
<1>5. Cardinality(S) \in Nat /\ D(Cardinality(S)) = SUBSET S
  BY <1>1, FS_Subset
<1>6. PICK g : g = [s \in SUBSET S |-> g[s]] /\ Unfolds(g, res, SUBSET S)
  BY <1>4, <1>5
<1>7. g = [s \in SUBSET S |->
            IF s = {} THEN 0 ELSE Speedup(res[First(s)]) + g[s \ {First(s)}]]
  BY <1>6 DEF Unfolds
<1> QED
  BY <1>7 DEF Solves

LEMMA LogSumUnfolds ==
  ASSUME NEW res, NEW S, IsFiniteSet(S)
  PROVE  \E g : Unfolds(g, res, SUBSET S) /\ LogSum(res, S) = g[S]
<1> DEFINE G == CHOOSE g : Solves(g, res, S)
<1>1. Solves(G, res, S)
  BY SumExists
<1>2. LogSum(res, S) = G[S]
  BY DEF LogSum, MapThenSumSet, MapThenFoldSet, First, Solves
<1> HIDE DEF G
<1>3. Unfolds(G, res, SUBSET S)
  BY <1>1 DEF Unfolds, Solves
<1> QED
  BY <1>2, <1>3

(* The sum of the speedups of a finite set of shapes is a number when they are. *)
LEMMA SumType ==
  ASSUME NEW res, NEW S, IsFiniteSet(S), \A x \in S : Speedup(res[x]) \in Int,
         NEW g, Unfolds(g, res, SUBSET S)
  PROVE  \A s \in SUBSET S : g[s] \in Int
<1> DEFINE T == {s \in SUBSET S : g[s] \notin Int}
<1> SUFFICES ASSUME T # {} PROVE FALSE
  OBVIOUS
<1>0. T \subseteq SUBSET S
  OBVIOUS
<1>1. PICK s \in T : \A y \in T : y \subseteq s => y = s
  <2> HIDE DEF T
  <2> QED
    BY <1>0, LeastSubset
<1>2. s \in SUBSET S /\ g[s] \notin Int
  OBVIOUS
<1>3. s # {}
  <2>1. {} \in SUBSET S
    OBVIOUS
  <2>2. g[{}] = 0
    BY <2>1 DEF Unfolds
  <2> QED
    BY <1>2, <2>2
<1> DEFINE x == First(s)
<1>4. x \in s
  BY <1>3, FirstIn
<1> HIDE DEF x
<1>5. s \ {x} \in SUBSET S /\ s \ {x} # s /\ s \ {x} \subseteq s
  BY <1>2, <1>4
<1>6. g[s \ {x}] \in Int
  BY <1>1, <1>5
<1>7. g[s] = Speedup(res[x]) + g[s \ {x}]
  BY <1>2, <1>3 DEF Unfolds, x
<1> QED
  BY <1>2, <1>4, <1>6, <1>7

LEMMA LogSumType ==
  ASSUME NEW res, NEW S, IsFiniteSet(S), \A x \in S : Speedup(res[x]) \in Int
  PROVE  LogSum(res, S) \in Int
<1>1. PICK g : Unfolds(g, res, SUBSET S) /\ LogSum(res, S) = g[S]
  BY LogSumUnfolds
<1>2. \A s \in SUBSET S : g[s] \in Int
  BY <1>1, SumType
<1> QED
  BY <1>1, <1>2

LEMMA TimesLess ==
  ASSUME NEW d \in Int, NEW n \in Nat
  PROVE  d * (n - 1) = d * n - d /\ d * n \in Int
OBVIOUS

(* When no term of one sum exceeds the other's by more than d, the sums differ by d a term. *)
LEMMA LogSumBound ==
  ASSUME NEW a, NEW b, NEW S, IsFiniteSet(S), NEW d \in Int,
         \A x \in S : Speedup(a[x]) \in Int,
         \A x \in S : Speedup(b[x]) \in Int,
         \A x \in S : 100 * (Speedup(a[x]) - Speedup(b[x])) <= d
  PROVE  100 * (LogSum(a, S) - LogSum(b, S)) <= d * Cardinality(S)
<1>1. PICK g : Unfolds(g, a, SUBSET S) /\ LogSum(a, S) = g[S]
  BY LogSumUnfolds
<1>2. PICK h : Unfolds(h, b, SUBSET S) /\ LogSum(b, S) = h[S]
  BY LogSumUnfolds
<1>3. \A s \in SUBSET S : g[s] \in Int
  BY <1>1, SumType
<1>4. \A s \in SUBSET S : h[s] \in Int
  BY <1>2, SumType
<1> DEFINE Within(s) == 100 * (g[s] - h[s]) <= d * Cardinality(s)
           T == {s \in SUBSET S : ~ Within(s)}
<1>5. T = {}
  <2> SUFFICES ASSUME T # {} PROVE FALSE
    OBVIOUS
  <2>0. T \subseteq SUBSET S
    OBVIOUS
  <2>1. PICK s \in T : \A y \in T : y \subseteq s => y = s
    <3> HIDE DEF T
    <3> QED
      BY <2>0, LeastSubset
  <2>2. s \in SUBSET S /\ ~ Within(s)
    OBVIOUS
  <2>3. IsFiniteSet(s) /\ Cardinality(s) \in Nat
    BY <2>2, FS_Subset, FS_CardinalityType
  <2>4. s # {}
    <3> SUFFICES ASSUME s = {} PROVE FALSE
      OBVIOUS
    <3>1. g[s] = 0 /\ h[s] = 0
      BY <1>1, <1>2, <2>2 DEF Unfolds
    <3>2. Cardinality(s) = 0
      BY FS_EmptySet
    <3> QED
      BY <2>2, <3>1, <3>2
  <2> DEFINE x == First(s)
             r == s \ {x}
  <2>5. x \in s
    BY <2>4, FirstIn
  <2>6. g[s] = Speedup(a[x]) + g[r] /\ h[s] = Speedup(b[x]) + h[r]
    BY <1>1, <1>2, <2>2, <2>4 DEF Unfolds
  <2> HIDE DEF x
  <2>7. r \in SUBSET S /\ r # s /\ r \subseteq s
    BY <2>2, <2>5
  <2>8. Within(r)
    BY <2>1, <2>7
  <2>9. Cardinality(r) = Cardinality(s) - 1
    BY <2>3, <2>5, FS_RemoveElement
  <2>10. 100 * (Speedup(a[x]) - Speedup(b[x])) <= d /\ Speedup(a[x]) \in Int /\ Speedup(b[x]) \in Int
    BY <2>2, <2>5
  <2>11. g[r] \in Int /\ h[r] \in Int
    BY <1>3, <1>4, <2>7
  <2>12. d * Cardinality(r) = d * Cardinality(s) - d /\ d * Cardinality(s) \in Int
    BY <2>3, <2>9, TimesLess
  <2>13. 100 * (g[s] - h[s]) <= d * Cardinality(s)
    <3> HIDE DEF r
    <3>1. 100 * (g[r] - h[r]) <= d * Cardinality(s) - d
      BY <2>8, <2>12
    <3> QED
      BY <2>6, <2>10, <2>11, <2>12, <3>1
  <2> QED
    BY <2>2, <2>13
<1> QED
  BY <1>1, <1>2, <1>5

-----------------------------------------------------------------------------
(* Rows. *)

LEMMA TimedRow ==
  ASSUME NEW row \in Row, row.status \in {"ok", "incorrect"}
  PROVE  row.us \in Int
BY DEF Row

(* There is a fastest one among finitely many baselines. *)
LEMMA FastestExists ==
  ASSUME NEW Q, IsFiniteSet(Q), Q # {}, NEW provs, \A p \in Q : provs[p].us \in Int
  PROVE  \E p \in Q : \A q \in Q : provs[p].us <= provs[q].us
<1> DEFINE HasFastest(s) == \E p \in s : \A q \in s : provs[p].us <= provs[q].us
           T == {s \in SUBSET Q : s # {} /\ ~ HasFastest(s)}
<1> SUFFICES T = {}
  OBVIOUS
<1> SUFFICES ASSUME T # {} PROVE FALSE
  OBVIOUS
<1>0. T \subseteq SUBSET Q
  OBVIOUS
<1>1. PICK s \in T : \A y \in T : y \subseteq s => y = s
  <2> HIDE DEF T
  <2> QED
    BY <1>0, LeastSubset
<1>2. s \in SUBSET Q /\ s # {} /\ ~ HasFastest(s)
  OBVIOUS
<1>3. PICK x \in s : TRUE
  BY <1>2
<1> DEFINE r == s \ {x}
<1>4. r \in SUBSET Q /\ r # s /\ r \subseteq s
  BY <1>2, <1>3
<1>5. r # {}
  <2> SUFFICES ASSUME r = {} PROVE FALSE
    OBVIOUS
  <2>1. s = {x}
    BY <1>3
  <2>2. provs[x].us <= provs[x].us
    BY <1>2, <1>3
  <2> QED
    BY <1>2, <2>1, <2>2
<1>6. HasFastest(r)
  BY <1>1, <1>4, <1>5
<1>7. PICK p \in r : \A q \in r : provs[p].us <= provs[q].us
  BY <1>6
<1>8. \A q \in s : provs[q].us \in Int
  BY <1>2
<1>9. CASE provs[p].us <= provs[x].us
  <2>1. \A q \in s : provs[p].us <= provs[q].us
    BY <1>7, <1>9
  <2> QED
    BY <1>2, <2>1
<1>10. CASE ~ (provs[p].us <= provs[x].us)
  <2>1. \A q \in r : provs[x].us <= provs[q].us
    BY <1>3, <1>7, <1>8, <1>10
  <2>2. \A q \in s : provs[x].us <= provs[q].us
    BY <1>3, <1>8, <2>1
  <2> QED
    BY <1>2, <1>3, <2>2
<1> QED
  BY <1>9, <1>10

LEMMA BestType ==
  ASSUME NEW provs \in [Provider -> Row], Baselines(provs) # {}
  PROVE  BestUs(provs) \in Int
<1>1. IsFiniteSet(Baselines(provs))
  BY RowAssumption, FS_Subset DEF Baselines
<1>2. \A p \in Baselines(provs) : provs[p].us \in Int
  BY TimedRow DEF Baselines, Provider
<1>3. PICK p \in Baselines(provs) : \A q \in Baselines(provs) : provs[p].us <= provs[q].us
  BY <1>1, <1>2, FastestExists
<1> DEFINE U == {provs[q].us : q \in Baselines(provs)}
<1>4. provs[p].us \in U /\ \A y \in U : provs[p].us <= y
  BY <1>3
<1>5. U \subseteq Int
  BY <1>2
<1>6. Min(U) \in U
  <2> HIDE DEF U
  <2> QED
    BY <1>4 DEF Min
<1> QED
  BY <1>5, <1>6 DEF BestUs

LEMMA SpeedupType ==
  ASSUME NEW provs \in [Provider -> Row], Baselines(provs) # {}, provs["flydsl"].status = "ok"
  PROVE  Speedup(provs) \in Int
<1>1. provs["flydsl"].us \in Int
  BY TimedRow DEF Provider
<1> QED
  BY <1>1, BestType DEF Speedup

-----------------------------------------------------------------------------
(* Results. *)

LEMMA ResultsFacts ==
  ASSUME NEW res \in Results
  PROVE  /\ DOMAIN res \subseteq ShapeId
         /\ \A s \in DOMAIN res : res[s] \in [Provider -> Row]
BY RowAssumption DEF Results

LEMMA MeasuredFacts ==
  ASSUME NEW res \in Results, NEW S
  PROVE  /\ Measured(res, S) \subseteq DOMAIN res
         /\ IsFiniteSet(Measured(res, S))
         /\ Cardinality(Measured(res, S)) \in Nat
         /\ \A s \in Measured(res, S) : Speedup(res[s]) \in Int
         /\ LogSum(res, Measured(res, S)) \in Int
<1>1. Measured(res, S) \subseteq DOMAIN res
  BY DEF Measured
<1>2. IsFiniteSet(Measured(res, S))
  BY <1>1, ResultsFacts, RowAssumption, FS_Subset
<1>3. Cardinality(Measured(res, S)) \in Nat
  BY <1>2, FS_CardinalityType
<1>4. \A s \in Measured(res, S) : Speedup(res[s]) \in Int
  BY ResultsFacts, SpeedupType DEF Measured
<1> QED
  BY <1>1, <1>2, <1>3, <1>4, LogSumType

-----------------------------------------------------------------------------
(* Types. *)

Decisions == {"blocked", "tune_needed", "rewrite_needed", "promote", "promote_with_guardrails"}
Verdicts  == {"blocked", "baseline_blocked", "promote", "parity", "tune_needed", "rewrite_needed"}

LEMMA DecideType == ASSUME NEW res, NEW S PROVE Decide(res, S) \in Decisions
BY DEF Decide, Decisions

LEMMA VerdictType == ASSUME NEW res PROVE Verdict(res) \in Verdicts
BY DEF Verdict, Verdicts

LEMMA NoResults == << >> \in Results
<1>1. << >> \in [{} -> [Provider -> FlyRow \cup BaseRow]]
  OBVIOUS
<1> QED
  BY <1>1 DEF Results

(* Every variable keeps its type, whatever is run in whatever order. *)
THEOREM TypeCorrect == Spec => []TypeOK
<1>1. Init => TypeOK
  BY NoResults, RowAssumption DEF Init, TypeOK
<1>2. TypeOK /\ [Next]_vars => TypeOK'
  <2> SUFFICES ASSUME TypeOK, [Next]_vars PROVE TypeOK'
    OBVIOUS
  <2> USE RowAssumption
  <2>0. /\ run \in 0 .. MaxRuns /\ run \in Nat /\ kept \in 0 .. run /\ kept \in Nat
        /\ results \in Results /\ previous \in Results
        /\ ledger \subseteq ShapeId /\ imports \in 0 .. MaxImports
    BY DEF TypeOK
  <2>1. CASE Measure
    <3>1. run' = run + 1 /\ run' \in 0 .. MaxRuns /\ kept' \in 0 .. run' /\ kept' = kept
      BY <2>0, <2>1 DEF Measure
    <3>2. results' \in Results
      <4>1. PICK fly \in [ledger -> FlyRow], base \in [ledger -> [Baseline -> BaseRow]] :
              results' = [s \in ledger |-> [p \in Provider |->
                            IF p = "flydsl" THEN fly[s] ELSE base[s][p]]]
        BY <2>1 DEF Measure
      <4>2. results' \in [ledger -> [Provider -> FlyRow \cup BaseRow]]
        BY <4>1 DEF Provider
      <4> QED
        BY <2>0, <4>2 DEF Results
    <3>3. summary' = summary /\ dashboard' = dashboard /\ gate' = gate
      BY <2>1 DEF Measure, reports
    <3>4. 0 .. run \subseteq 0 .. run'
      BY <2>0, <3>1
    <3>5. /\ summary'.run \in 0 .. run' /\ summary' = [run |-> summary'.run, shapes |-> summary.shapes, decision |-> summary.decision]
          /\ dashboard'.run \in 0 .. run' /\ dashboard' = [run |-> dashboard'.run, verdict |-> dashboard.verdict]
          /\ gate'.run \in 0 .. run' /\ gate' = [run |-> gate'.run, kept |-> gate.kept, shapes |-> gate.shapes, verdict |-> gate.verdict]
      BY <3>3, <3>4 DEF TypeOK
    <3>6. ledger' = ledger /\ imports' = imports /\ previous' = previous
      BY <2>1 DEF Measure
    <3> QED
      BY <2>0, <3>1, <3>2, <3>3, <3>5, <3>6 DEF TypeOK
  <2>2. CASE Keep
    <3>1. 0 .. kept \subseteq 0 .. kept' /\ kept' \in 0 .. run' /\ run' = run
      BY <2>0, <2>2 DEF Keep
    <3>2. gate' = gate /\ gate.kept \in 0 .. kept'
      BY <2>2, <3>1 DEF Keep, reports, TypeOK
    <3>3. gate' \in [run : 0 .. run', kept : 0 .. kept', shapes : SUBSET ShapeId, verdict : {"none", "PASS", "REGRESSED"}]
      BY <3>1, <3>2 DEF TypeOK
    <3> QED
      BY <2>0, <2>2, <3>1, <3>3 DEF Keep, reports, TypeOK
  <2>3. CASE Import
    BY <2>3 DEF Import, reports, TypeOK
  <2>4. CASE Summarize
    BY <2>0, <2>4, DecideType DEF Summarize, inputs, TypeOK, Decisions
  <2>5. CASE Export
    BY <2>0, <2>5, VerdictType DEF Export, inputs, TypeOK, Verdicts
  <2>6. CASE Regress
    BY <2>0, <2>6 DEF Regress, inputs, TypeOK
  <2>7. CASE UNCHANGED vars
    BY <2>7 DEF vars, inputs, reports, TypeOK
  <2> QED
    BY <2>1, <2>2, <2>3, <2>4, <2>5, <2>6, <2>7 DEF Next
<1> QED
  BY <1>1, <1>2, PTL DEF Spec

-----------------------------------------------------------------------------
(***************************************************************************)
(* The invariant.  What is kept is what was there; a report on the current *)
(* run is what its program computes from the current results, joined with  *)
(* some ledger; and a summary of the kept run is what it computes from the *)
(* results kept.  A run's number is used once, so a report of an older run *)
(* stays as it is.                                                         *)
(***************************************************************************)
KeptIs == kept = run => previous = results

SummaryOf(res) ==
  \E S \in SUBSET ShapeId :
    summary.shapes = S \cap DOMAIN res /\ summary.decision = Decide(res, S)

GatePassed ==
  \E S \in SUBSET ShapeId :
    /\ gate.shapes = S \cap DOMAIN results
    /\ Slower(results, previous) = {} /\ Hot(results, S) = {}

SummaryIs     == summary.run = run /\ run > 0 => SummaryOf(results)
KeptSummaryIs == summary.run = kept /\ kept > 0 => SummaryOf(previous)
DashboardIs   == dashboard.run = run /\ run > 0 => dashboard.verdict = Verdict(results)
GateIs        == gate.run = run /\ gate.kept = kept /\ gate.verdict = "PASS" => GatePassed

IInv == TypeOK /\ KeptIs /\ SummaryIs /\ KeptSummaryIs /\ DashboardIs /\ GateIs

(* The ranges that the steps below compare. *)
LEMMA Numbers ==
  ASSUME TypeOK
  PROVE  /\ run \in Nat /\ kept \in Nat /\ kept <= run
         /\ summary.run \in Nat /\ summary.run <= run
         /\ dashboard.run \in Nat /\ dashboard.run <= run
         /\ gate.run \in Nat /\ gate.run <= run /\ gate.kept \in Nat /\ gate.kept <= kept
         /\ ledger \in SUBSET ShapeId
BY RowAssumption DEF TypeOK

(* The invariant holds of every behaviour. *)
THEOREM Invariance == Spec => []IInv
<1>1. Init => KeptIs /\ SummaryIs /\ KeptSummaryIs /\ DashboardIs /\ GateIs
  BY DEF Init, KeptIs, SummaryIs, KeptSummaryIs, DashboardIs, GateIs
<1>2. IInv /\ [Next]_vars => (KeptIs /\ SummaryIs /\ KeptSummaryIs /\ DashboardIs /\ GateIs)'
  <2> SUFFICES ASSUME IInv, [Next]_vars
               PROVE  (KeptIs /\ SummaryIs /\ KeptSummaryIs /\ DashboardIs /\ GateIs)'
    OBVIOUS
  <2>0. /\ TypeOK /\ KeptIs /\ SummaryIs /\ KeptSummaryIs /\ DashboardIs /\ GateIs
        /\ run \in Nat /\ kept \in Nat /\ kept <= run
        /\ summary.run \in Nat /\ summary.run <= run
        /\ dashboard.run \in Nat /\ dashboard.run <= run
        /\ gate.run \in Nat /\ gate.run <= run /\ gate.kept \in Nat /\ gate.kept <= kept
        /\ ledger \in SUBSET ShapeId
    BY Numbers DEF IInv
  <2>1. CASE Measure
    <3>1. /\ run' = run + 1 /\ UNCHANGED <<kept, previous, summary, dashboard, gate>>
      BY <2>1 DEF Measure, reports
    <3>2. kept' # run' /\ summary'.run # run' /\ dashboard'.run # run' /\ gate'.run # run'
      BY <2>0, <3>1
    <3>3. KeptIs' /\ SummaryIs' /\ DashboardIs' /\ GateIs'
      BY <3>2 DEF KeptIs, SummaryIs, DashboardIs, GateIs
    <3>4. KeptSummaryIs'
      BY <2>0, <3>1 DEF KeptSummaryIs, SummaryOf
    <3> QED
      BY <3>3, <3>4
  <2>2. CASE Keep
    <3>1. /\ run > kept /\ kept' = run /\ previous' = results
          /\ UNCHANGED <<run, results, summary, dashboard, gate>>
      BY <2>2 DEF Keep, reports
    <3>2. KeptIs' /\ SummaryIs' /\ DashboardIs'
      BY <2>0, <3>1 DEF KeptIs, SummaryIs, SummaryOf, DashboardIs
    <3>3. KeptSummaryIs'
      BY <2>0, <3>1 DEF KeptSummaryIs, SummaryIs, SummaryOf
    <3>4. gate'.kept # kept'
      BY <2>0, <3>1
    <3>5. GateIs'
      BY <3>4 DEF GateIs
    <3> QED
      BY <3>2, <3>3, <3>5
  <2>3. CASE Import
    BY <2>0, <2>3 DEF Import, reports, KeptIs, SummaryIs, KeptSummaryIs, SummaryOf, DashboardIs,
      GateIs, GatePassed
  <2>4. CASE Summarize
    <3>1. /\ summary'.run = run /\ summary'.shapes = ledger \cap DOMAIN results
          /\ summary'.decision = Decide(results, ledger)
          /\ UNCHANGED <<run, results, kept, previous, dashboard, gate>>
      BY <2>4 DEF Summarize, inputs
    <3>2. SummaryOf(results)'
      BY <2>0, <3>1 DEF SummaryOf
    <3>3. SummaryIs'
      BY <3>2 DEF SummaryIs
    <3>4. KeptSummaryIs'
      BY <2>0, <3>1, <3>2 DEF KeptSummaryIs, KeptIs, SummaryOf
    <3> QED
      BY <2>0, <3>1, <3>3, <3>4 DEF KeptIs, DashboardIs, GateIs, GatePassed
  <2>5. CASE Export
    <3>1. /\ dashboard'.verdict = Verdict(results)
          /\ UNCHANGED <<run, results, kept, previous, summary, gate>>
      BY <2>5 DEF Export, inputs
    <3> QED
      BY <2>0, <3>1 DEF KeptIs, SummaryIs, KeptSummaryIs, SummaryOf, DashboardIs, GateIs, GatePassed
  <2>6. CASE Regress
    <3>1. /\ gate'.shapes = ledger \cap DOMAIN results
          /\ gate'.verdict = IF Slower(results, previous) = {} /\ Hot(results, ledger) = {}
                             THEN "PASS" ELSE "REGRESSED"
          /\ UNCHANGED <<run, results, kept, previous, summary, dashboard>>
      BY <2>6 DEF Regress, inputs
    <3>2. GateIs'
      BY <2>0, <3>1 DEF GateIs, GatePassed
    <3> QED
      BY <2>0, <3>1, <3>2 DEF KeptIs, SummaryIs, KeptSummaryIs, SummaryOf, DashboardIs
  <2>7. CASE UNCHANGED vars
    BY <2>0, <2>7 DEF vars, inputs, reports, KeptIs, SummaryIs, KeptSummaryIs, SummaryOf,
      DashboardIs, GateIs, GatePassed
  <2> QED
    BY <2>1, <2>2, <2>3, <2>4, <2>5, <2>6, <2>7 DEF Next
<1>3. Spec => []TypeOK
  BY TypeCorrect
<1>4. IInv <=> TypeOK /\ (KeptIs /\ SummaryIs /\ KeptSummaryIs /\ DashboardIs /\ GateIs)
  BY DEF IInv
<1> QED
  BY <1>1, <1>2, <1>3, <1>4, PTL DEF Spec

-----------------------------------------------------------------------------
(* What follows. *)

(* A report of all the shapes there are joins them all. *)
LEMMA JoinedWhole ==
  ASSUME NEW res, NEW S, S \cap DOMAIN res = DOMAIN res
  PROVE  Measured(res, S) = Measured(res, DOMAIN res)
BY DEF Measured

(* The arithmetic of the thresholds: a sum l over c shapes. *)
LEMMA Thresholds ==
  ASSUME NEW l \in Int, NEW c \in Nat
  PROVE  /\ 100 * l >= Ln103 * c => 100 * l >= Ln1 * c
         /\ 100 * l > Ln10 * c => 100 * l >= Ln1 * c
         /\ 100 * l >= Ln097 * c => 100 * l >= Ln095 * c
         /\ 100 * l >= Ln07 * c => 100 * l >= Ln06 * c
         /\ 100 * l >= Ln1 * c => 100 * l >= Ln097 * c
         /\ 100 * l >= Ln095 * c => 100 * l >= Ln07 * c
BY DEF Ln10, Ln103, Ln1, Ln097, Ln095, Ln07, Ln06

(***************************************************************************)
(* On one run, and while the ledger has all the shapes, the promotion      *)
(* decision and the dashboard's verdict are related as VerdictsWithinAStep *)
(* says: they average over the same shapes, and the thresholds of the one  *)
(* lie between those of the other.                                         *)
(***************************************************************************)
THEOREM VerdictsAreWithinAStep == Spec => []VerdictsWithinAStep
<1>1. IInv => VerdictsWithinAStep
  <2> DEFINE M == Measured(results, DOMAIN results)
             l == LogSum(results, M)
             c == Cardinality(M)
             clean == Failures(results, ShapeId) = {}
  <2> SUFFICES ASSUME IInv, dashboard.run = summary.run, Whole(summary)
               PROVE  /\ summary.decision = "blocked" <=> dashboard.verdict = "blocked"
                      /\ dashboard.verdict = "rewrite_needed" =>
                           summary.decision = "rewrite_needed"
                      /\ summary.decision = "rewrite_needed" =>
                           dashboard.verdict \in {"tune_needed", "rewrite_needed"}
                      /\ ~ clean => summary.decision \notin {"promote", "promote_with_guardrails"}
                      /\ clean /\ dashboard.verdict # "baseline_blocked" =>
                           /\ Rank[summary.decision] - Rank[dashboard.verdict] \in -1 .. 1
                           /\ dashboard.verdict = "promote" => summary.decision = "promote"
    BY DEF VerdictsWithinAStep
  <2>1. run > 0 /\ summary.run = run /\ dashboard.run = run /\ summary.shapes = DOMAIN results
    BY DEF Whole
  <2>2. results \in Results
    BY DEF IInv, TypeOK
  <2>3. dashboard.verdict = Verdict(results)
    BY <2>1 DEF IInv, DashboardIs
  <2>4. PICK S \in SUBSET ShapeId :
          summary.shapes = S \cap DOMAIN results /\ summary.decision = Decide(results, S)
    BY <2>1 DEF IInv, SummaryIs, SummaryOf
  <2>5. Measured(results, S) = M
    BY <2>1, <2>4, JoinedWhole
  <2>6. Failures(results, S) = {} <=> clean
    <3>1. DOMAIN results \subseteq ShapeId
      BY <2>2 DEF Results
    <3> QED
      BY <3>1, <2>1, <2>4 DEF Failures
  <2>7. l \in Int /\ c \in Nat
    BY <2>2, MeasuredFacts
  <2>8. summary.decision =
          IF M = {} THEN "blocked"
          ELSE IF clean /\ 100 * l >= Ln1 * c THEN "promote"
          ELSE IF clean /\ 100 * l >= Ln095 * c THEN "promote_with_guardrails"
          ELSE IF 100 * l >= Ln07 * c THEN "tune_needed" ELSE "rewrite_needed"
    BY <2>4, <2>5, <2>6 DEF Decide, Reaches
  <2>9. dashboard.verdict =
          IF M = {} THEN "blocked"
          ELSE IF 100 * l > Ln10 * c THEN "baseline_blocked"
          ELSE IF 100 * l >= Ln103 * c THEN "promote"
          ELSE IF 100 * l >= Ln097 * c THEN "parity"
          ELSE IF 100 * l >= Ln06 * c THEN "tune_needed" ELSE "rewrite_needed"
    BY <2>3 DEF Verdict, Reaches
  <2> HIDE DEF M, l, c, clean
  <2>10. /\ 100 * l >= Ln103 * c => 100 * l >= Ln1 * c
         /\ 100 * l > Ln10 * c => 100 * l >= Ln1 * c
         /\ 100 * l >= Ln097 * c => 100 * l >= Ln095 * c
         /\ 100 * l >= Ln07 * c => 100 * l >= Ln06 * c
         /\ 100 * l >= Ln1 * c => 100 * l >= Ln097 * c
         /\ 100 * l >= Ln095 * c => 100 * l >= Ln07 * c
    BY <2>7, Thresholds
  <2>11. /\ Rank["blocked"] = 0 /\ Rank["rewrite_needed"] = 1 /\ Rank["tune_needed"] = 2
         /\ Rank["promote_with_guardrails"] = 3 /\ Rank["parity"] = 3 /\ Rank["promote"] = 4
    BY DEF Rank
  <2>12. CASE M = {}
    BY <2>8, <2>9, <2>11, <2>12
  <2>13. CASE M # {} /\ 100 * l >= Ln1 * c
    BY <2>8, <2>9, <2>10, <2>11, <2>13
  <2>14. CASE M # {} /\ ~ (100 * l >= Ln1 * c)
    BY <2>8, <2>9, <2>10, <2>11, <2>14
  <2> QED
    BY <2>12, <2>13, <2>14
<1> QED
  BY <1>1, Invariance, PTL

(***************************************************************************)
(* When the gate passes and both runs measured the same shapes against     *)
(* baselines that did not get faster, the geometric mean fell by 5% at     *)
(* most: the gate's limit holds for each shape, and the sums over them     *)
(* differ by no more than so much for each.                                *)
(***************************************************************************)
THEOREM FallIsBounded == Spec => []PassBoundsTheFall
<1>1. IInv => PassBoundsTheFall
  <2> DEFINE D == gate.shapes
             M == Measured(results, D)
  <2> SUFFICES ASSUME IInv, gate.verdict = "PASS", gate.run = run, gate.kept = kept,
                      SameCoverage(results, previous, D)
               PROVE  100 * (LogSum(previous, M) - LogSum(results, M)) <= Ln105 * Cardinality(M)
    BY DEF PassBoundsTheFall
  <2>1. results \in Results /\ previous \in Results
    BY DEF IInv, TypeOK
  <2>2. Slower(results, previous) = {}
    BY DEF IInv, GateIs, GatePassed
  <2>3. /\ Measured(previous, D) = M
        /\ \A s \in M : BestUs(results[s]) >= BestUs(previous[s])
    BY DEF SameCoverage
  <2>4. /\ IsFiniteSet(M)
        /\ \A s \in M : Speedup(results[s]) \in Int
        /\ \A s \in M : Speedup(previous[s]) \in Int
    BY <2>1, <2>3, MeasuredFacts
  <2>5. ASSUME NEW s \in M
        PROVE  100 * (Speedup(previous[s]) - Speedup(results[s])) <= Ln105
    <3>1. /\ s \in DOMAIN results /\ results[s]["flydsl"].status = "ok"
          /\ Baselines(results[s]) # {}
      BY DEF Measured
    <3>2. /\ s \in DOMAIN previous /\ previous[s]["flydsl"].status = "ok"
          /\ Baselines(previous[s]) # {}
      BY <2>3 DEF Measured
    <3>3. results[s] \in [Provider -> Row] /\ previous[s] \in [Provider -> Row]
      BY <2>1, <3>1, <3>2, ResultsFacts
    <3>4. results[s]["flydsl"].us \in Int /\ previous[s]["flydsl"].us \in Int
      BY <3>1, <3>2, <3>3, TimedRow DEF Provider
    <3>5. BestUs(results[s]) \in Int /\ BestUs(previous[s]) \in Int
      BY <3>1, <3>2, <3>3, BestType
    <3>6. <<s, "flydsl">> \in InBoth(results, previous)
      BY <3>1, <3>2 DEF InBoth, Provider, IsTimed
    <3>7. ~ (100 * (results[s]["flydsl"].us - previous[s]["flydsl"].us) > Ln105)
      BY <2>2, <3>6 DEF Slower, Slowdown
    <3>8. BestUs(results[s]) >= BestUs(previous[s])
      BY <2>3
    <3> HIDE DEF M, D
    <3> QED
      BY <3>4, <3>5, <3>7, <3>8 DEF Speedup, Ln105
  <2> HIDE DEF M, D
  <2> QED
    BY <2>4, <2>5, LogSumBound DEF Ln105
<1> QED
  BY <1>1, Invariance, PTL

(* A faster flydsl leaves the measured shapes and the failures what they were. *)
LEMMA FasterMeasured ==
  ASSUME NEW cur \in Results, NEW prev \in Results, OnlyFaster(cur, prev), NEW S
  PROVE  /\ Measured(cur, S) = Measured(prev, S)
         /\ Failures(cur, S) = Failures(prev, S)
         /\ \A s \in Measured(cur, S) : Speedup(prev[s]) <= Speedup(cur[s])
<1>1. DOMAIN cur = DOMAIN prev
  BY DEF OnlyFaster
<1>2. ASSUME NEW s \in DOMAIN cur
      PROVE  /\ cur[s]["flydsl"].status = prev[s]["flydsl"].status
             /\ Baselines(cur[s]) = Baselines(prev[s])
             /\ BestUs(cur[s]) = BestUs(prev[s])
  <2>1. \A p \in Baseline : cur[s][p] = prev[s][p]
    BY DEF OnlyFaster
  <2>2. Baselines(cur[s]) = Baselines(prev[s])
    BY <2>1 DEF Baselines
  <2>3. {cur[s][p].us : p \in Baselines(cur[s])} = {prev[s][p].us : p \in Baselines(prev[s])}
    BY <2>1, <2>2 DEF Baselines
  <2> QED
    BY <2>2, <2>3 DEF OnlyFaster, BestUs
<1>3. Measured(cur, S) = Measured(prev, S)
  BY <1>1, <1>2 DEF Measured
<1>4. Failures(cur, S) = Failures(prev, S)
  BY <1>1, <1>2 DEF Failures
<1>5. ASSUME NEW s \in Measured(cur, S) PROVE Speedup(prev[s]) <= Speedup(cur[s])
  <2>1. /\ s \in DOMAIN cur /\ s \in DOMAIN prev /\ Baselines(cur[s]) # {}
        /\ cur[s]["flydsl"].status = "ok" /\ prev[s]["flydsl"].status = "ok"
    BY <1>1, <1>2 DEF Measured
  <2>2. cur[s] \in [Provider -> Row] /\ prev[s] \in [Provider -> Row]
    BY <2>1, ResultsFacts
  <2>3. cur[s]["flydsl"].us \in Int /\ prev[s]["flydsl"].us \in Int
    BY <2>1, <2>2, TimedRow DEF Provider
  <2>4. BestUs(cur[s]) \in Int /\ BestUs(prev[s]) = BestUs(cur[s])
    BY <1>2, <2>1, <2>2, BestType
  <2>5. cur[s]["flydsl"].us <= prev[s]["flydsl"].us
    BY <2>1 DEF OnlyFaster, IsTimed
  <2> QED
    BY <2>3, <2>4, <2>5 DEF Speedup
<1> QED
  BY <1>3, <1>4, <1>5

(* The decision, of the sum l over c shapes. *)
Decided(none, clean, l, c) ==
  IF none THEN "blocked"
  ELSE IF clean /\ 100 * l >= Ln1 * c THEN "promote"
  ELSE IF clean /\ 100 * l >= Ln095 * c THEN "promote_with_guardrails"
  ELSE IF 100 * l >= Ln07 * c THEN "tune_needed" ELSE "rewrite_needed"

LEMMA DecidedMonotone ==
  ASSUME NEW none \in BOOLEAN, NEW clean \in BOOLEAN, NEW l \in Int, NEW m \in Int, l <= m, NEW c \in Nat
  PROVE  Rank[Decided(none, clean, m, c)] >= Rank[Decided(none, clean, l, c)]
BY DEF Rank, Decided, Ln1, Ln095, Ln07

LEMMA DecideMonotone ==
  ASSUME NEW cur \in Results, NEW prev \in Results, OnlyFaster(cur, prev), NEW S
  PROVE  Rank[Decide(cur, S)] >= Rank[Decide(prev, S)]
<1> DEFINE M == Measured(prev, S)
           l == LogSum(prev, M)
           m == LogSum(cur, M)
           c == Cardinality(M)
           none == M = {}
           clean == Failures(prev, S) = {}
<1>1. /\ Measured(cur, S) = M /\ Failures(cur, S) = Failures(prev, S)
      /\ \A s \in M : Speedup(prev[s]) <= Speedup(cur[s])
  BY FasterMeasured
<1>2. /\ l \in Int /\ m \in Int /\ c \in Nat /\ IsFiniteSet(M)
      /\ \A s \in M : Speedup(prev[s]) \in Int
      /\ \A s \in M : Speedup(cur[s]) \in Int
  BY <1>1, MeasuredFacts
<1>3. l <= m
  <2>1. \A s \in M : 100 * (Speedup(prev[s]) - Speedup(cur[s])) <= 0
    <3> HIDE DEF M
    <3> QED
      BY <1>1, <1>2
  <2>2. 100 * (l - m) <= 0 * c
    <3> HIDE DEF M
    <3> QED
      BY <1>2, <2>1, LogSumBound
  <2> HIDE DEF l, m, c
  <2> QED
    BY <1>2, <2>2
<1>4. Decide(prev, S) = Decided(none, clean, l, c)
  BY DEF Decide, Decided, Reaches
<1>5. Decide(cur, S) = Decided(none, clean, m, c)
  BY <1>1 DEF Decide, Decided, Reaches
<1>6. none \in BOOLEAN /\ clean \in BOOLEAN
  OBVIOUS
<1> HIDE DEF none, clean, l, m, c
<1> QED
  BY <1>2, <1>3, <1>4, <1>5, <1>6, DecidedMonotone

(* The decision depends on the shapes joined only. *)
LEMMA DecideJoined ==
  ASSUME NEW res, NEW R, NEW S, R \cap DOMAIN res = S \cap DOMAIN res
  PROVE  Decide(res, R) = Decide(res, S)
<1>1. Measured(res, R) = Measured(res, S)
  BY DEF Measured
<1>2. Failures(res, R) = Failures(res, S)
  BY DEF Failures
<1> QED
  BY <1>1, <1>2 DEF Decide

(***************************************************************************)
(* A summary made after flydsl got faster, and nothing else changed, is    *)
(* not worse than the one of the results kept: the measured shapes are the *)
(* same, the sum over them did not fall, and decide is monotone in it.     *)
(***************************************************************************)
THEOREM FasterIsNoWorse == Spec => FasterNeverDemotes
<1>1. IInv /\ [Next]_vars =>
        [summary'.run # summary.run /\ summary.run = kept /\ kept > 0
           /\ summary'.shapes = summary.shapes /\ OnlyFaster(results, previous) =>
           Rank[summary'.decision] >= Rank[summary.decision]]_vars
  <2> SUFFICES ASSUME IInv, Next, summary'.run # summary.run, summary.run = kept, kept > 0,
                      summary'.shapes = summary.shapes, OnlyFaster(results, previous)
               PROVE  Rank[summary'.decision] >= Rank[summary.decision]
    OBVIOUS
  <2>1. Summarize
    BY DEF Next, Measure, Keep, Import, Export, Regress, reports
  <2>2. /\ summary'.shapes = ledger \cap DOMAIN results
        /\ summary'.decision = Decide(results, ledger)
    BY <2>1 DEF Summarize
  <2>3. PICK S \in SUBSET ShapeId :
          summary.shapes = S \cap DOMAIN previous /\ summary.decision = Decide(previous, S)
    BY DEF IInv, KeptSummaryIs, SummaryOf
  <2>4. results \in Results /\ previous \in Results
    BY DEF IInv, TypeOK
  <2>5. DOMAIN results = DOMAIN previous
    BY DEF OnlyFaster
  <2>6. Decide(previous, S) = Decide(previous, ledger)
    BY <2>2, <2>3, <2>5, DecideJoined
  <2>7. Rank[Decide(results, ledger)] >= Rank[Decide(previous, ledger)]
    BY <2>4, DecideMonotone
  <2> QED
    BY <2>2, <2>3, <2>6, <2>7
<1> QED
  BY <1>1, Invariance, PTL DEF Spec, FasterNeverDemotes
=============================================================================
