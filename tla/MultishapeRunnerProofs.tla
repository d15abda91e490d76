----------------------- MODULE MultishapeRunnerProofs -----------------------
(***************************************************************************)
(* The safety properties of MultishapeRunner for every ledger, matrix and  *)
(* set of adapters.  The invariant adds to the types where the two loops   *)
(* stand at each place of the program and what has become of the files.    *)
(***************************************************************************)
EXTENDS MultishapeRunner, TLAPS

Looping == {"inputs", "provider", "check", "time"}
Writing == {"jsonl", "jsonl_open", "csv", "csv_open", "end"}

(* Where the loops stand. *)
Position ==
  /\ pc = "load" => i = 1
  /\ pc \in Looping => i \in Shapes
  /\ pc \in {"load", "inputs"} => k = 1
  /\ pc \in {"check", "time"} => Matrix[k] \in Enabled
  /\ pc \in Writing => i = Len(Ledger) + 1 /\ k = 1

(* The rows are those of the shapes and specs that are through. *)
RowsInOrder ==
  /\ Len(results) = (i - 1) * Len(Matrix) + k - 1
  /\ \A n \in 1 .. Len(results) : \E l \in 1 .. Len(Matrix) :
       /\ results[n].spec = Matrix[l]
       /\ n = (results[n].shape - 1) * Len(Matrix) + l

(* The files are opened when the loops are through, the jsonl first. *)
Files ==
  /\ pc \in Looping \cup {"load", "jsonl"} => jsonl = "old" /\ csv = "old"
  /\ pc = "jsonl_open" => csv = "old"
  /\ pc \in {"csv", "csv_open", "end"} => jsonl = "new"
  /\ pc = "end" => csv = "new"
  /\ csv # "old" => jsonl = "new"
  /\ jsonl # "old" => i = Len(Ledger) + 1 /\ k = 1

IInv == TypeOK /\ Position /\ RowsInOrder /\ Files

-----------------------------------------------------------------------------
(* The lengths are natural numbers, and every index names a spec. *)
LEMMA Lengths ==
  /\ Len(Ledger) \in Nat /\ Len(Matrix) \in Nat \ {0}
  /\ \A l \in 1 .. Len(Matrix) : Matrix[l] \in Specs
  /\ Ledger # <<>> => Len(Ledger) > 0
BY LedgerAssumption, MatrixAssumption DEF Specs

(* One more shape is one more row of the matrix. *)
LEMMA NextBlock ==
  ASSUME NEW s \in Nat, NEW L \in Nat
  PROVE  (s + 1 - 1) * L = (s - 1) * L + L
OBVIOUS

(* The list of rows with a block of rows after it. *)
LEMMA AppendBlock ==
  ASSUME results \in Seq(Row), NEW block \in Seq(Row), Len(block) = Len(Matrix),
         results' = results \o block
  PROVE  /\ results' \in Seq(Row) /\ Len(results) \in Nat
         /\ Len(results') = Len(results) + Len(Matrix)
         /\ \A n \in 1 .. Len(results) : results'[n] = results[n]
         /\ \A n \in 1 .. Len(Matrix) : results'[Len(results) + n] = block[n]
<1>1. /\ results' \in Seq(Row) /\ Len(results) \in Nat
      /\ Len(results') = Len(results) + Len(block)
  OBVIOUS
<1>2. /\ \A n \in 1 .. Len(results) : results'[n] = results[n]
      /\ \A n \in 1 .. Len(block) : results'[Len(results) + n] = block[n]
  OBVIOUS
<1> QED BY <1>1, <1>2, Zenon

(* A launcher call keeps the adapters' state in its type. *)
LEMMA GetLauncherType ==
  ASSUME TypeOK, i \in Shapes, NEW p \in Enabled, GetLauncher(p)
  PROVE  /\ cache' \in [Caching -> SUBSET Shapes]
         /\ detail' \in [Enabled -> {0} \cup Shapes]
BY DEF TypeOK, GetLauncher

(* The buffers a launch runs on were built for a shape of the ledger. *)
LEMMA LaunchedOnType ==
  ASSUME TypeOK, i \in Shapes, NEW p
  PROVE  /\ LaunchedOn(p) \in Shapes
         /\ p \in Caching /\ Hits(p) # {} => LaunchedOn(p) \in Hits(p)
BY DEF TypeOK, LaunchedOn, Hits

(* A row of one status only is a row of this shape. *)
LEMMA BlankType ==
  ASSUME NEW p \in Specs, i \in Shapes,
         NEW status \in {"failed", "oom", "unsupported", "not_configured"}
  PROVE  Blank(p, status) \in Row /\ Blank(p, status).shape = i /\ Blank(p, status).spec = p
BY DEF Blank, Row

(* A row of the spec in turn, appended by Emit, keeps rows and loops together. *)
LEMMA EmitStep ==
  ASSUME IInv, pc \in {"provider", "time"}, NEW row \in Row,
         row.shape = i, row.spec = Matrix[k], Emit(row),
         cache' \in [Caching -> SUBSET Shapes],
         detail' \in [Enabled -> {0} \cup Shapes]
  PROVE  IInv'
<1> USE Lengths DEF IInv
<1>1. i \in Shapes /\ k \in 1 .. Len(Matrix) /\ i \in Nat /\ i <= Len(Ledger)
  BY DEF TypeOK, Position, Looping, Shapes
<1>2. pc' \in {"provider", "inputs", "jsonl"}
  BY DEF Emit, NextShapePc
<1>3. TypeOK'
  <2>1. results' \in Seq(Row)
    BY DEF Emit, TypeOK
  <2>2. i' \in 1 .. Len(Ledger) + 1 /\ k' \in 1 .. Len(Matrix)
    BY <1>1 DEF Emit, Shapes
  <2> QED BY <1>2, <2>1, <2>2 DEF Emit, TypeOK
<1>4. Position'
  BY <1>1, <1>2 DEF Emit, NextShapePc, Position, Looping, Writing, Shapes
<1>5. RowsInOrder'
  <2>1. /\ results \in Seq(Row) /\ results' = Append(results, row)
        /\ Len(results') = Len(results) + 1 /\ Len(results) \in Nat
    BY DEF Emit, TypeOK
  <2>2. Len(results') = (i' - 1) * Len(Matrix) + k' - 1
    <3>1. CASE k < Len(Matrix)
      BY <1>1, <2>1, <3>1 DEF Emit, RowsInOrder
    <3>2. CASE ~ (k < Len(Matrix))
      <4>1. k = Len(Matrix) /\ k' = 1 /\ i' = i + 1
        BY <1>1, <3>2 DEF Emit
      <4>2. (i' - 1) * Len(Matrix) = (i - 1) * Len(Matrix) + Len(Matrix)
        BY <1>1, <4>1, NextBlock
      <4>3. (i - 1) * Len(Matrix) \in Int /\ (i' - 1) * Len(Matrix) \in Int
        BY <1>1, <4>1
      <4> QED BY <2>1, <4>1, <4>2, <4>3 DEF RowsInOrder
    <3> QED BY <3>1, <3>2
  <2>3. ASSUME NEW n \in 1 .. Len(results')
        PROVE  \E l \in 1 .. Len(Matrix) :
                 /\ results'[n].spec = Matrix[l]
                 /\ n = (results'[n].shape - 1) * Len(Matrix) + l
    <3>1. CASE n \in 1 .. Len(results)
      <4>1. results'[n] = results[n]
        BY <2>1, <3>1
      <4> QED BY <3>1, <4>1 DEF RowsInOrder
    <3>2. CASE n = Len(results) + 1
      <4>1. results'[n] = row
        BY <2>1, <3>2
      <4>2. n = (i - 1) * Len(Matrix) + k
        <5>1. (i - 1) * Len(Matrix) \in Int
          BY <1>1
        <5> QED BY <1>1, <3>2, <5>1 DEF RowsInOrder
      <4> QED BY <1>1, <4>1, <4>2
    <3> QED BY <2>1, <3>1, <3>2
  <2> QED BY <2>2, <2>3 DEF RowsInOrder
<1>6. Files'
  BY <1>2 DEF Emit, Files, Looping
<1> QED BY <1>3, <1>4, <1>5, <1>6

-----------------------------------------------------------------------------
LEMMA InitInvariant == Init => IInv
BY Lengths DEF Init, IInv, TypeOK, Position, RowsInOrder, Files, Looping, Writing, FileState

(* Inputs or the reference fail: one row for every spec of the shape. *)
LEMMA InputsFailStep ==
  ASSUME IInv, InputsFail
  PROVE  IInv'
<1> USE Lengths DEF IInv
<1> DEFINE block == [n \in 1 .. Len(Matrix) |-> Blank(Matrix[n], "failed")]
<1>1. /\ i \in Shapes /\ i \in Nat /\ i <= Len(Ledger) /\ k = 1
      /\ pc' \in {"inputs", "jsonl"} /\ pc = "inputs" /\ k' = 1 /\ i' = i + 1
  BY DEF InputsFail, NextShapePc, Position, Looping, Shapes
<1>2. block \in Seq(Row) /\ Len(block) = Len(Matrix)
      /\ \A n \in 1 .. Len(Matrix) : block[n] = Blank(Matrix[n], "failed")
  <2>1. \A n \in 1 .. Len(Matrix) : block[n] \in Row
    BY <1>1, BlankType
  <2> QED BY <2>1
<1>3. /\ results' = results \o block /\ results \in Seq(Row) /\ results' \in Seq(Row)
      /\ Len(results) \in Nat /\ Len(results') = Len(results) + Len(Matrix)
      /\ \A n \in 1 .. Len(results) : results'[n] = results[n]
      /\ \A n \in 1 .. Len(Matrix) : results'[Len(results) + n] = block[n]
  <2> HIDE DEF block
  <2>1. results' = results \o block /\ results \in Seq(Row)
    BY DEF InputsFail, TypeOK, block
  <2> HIDE DEF IInv
  <2> QED BY <1>2, <2>1, AppendBlock
<1>4. TypeOK'
  BY <1>1, <1>3 DEF InputsFail, TypeOK, Shapes
<1>5. Position'
  BY <1>1 DEF InputsFail, NextShapePc, Position, Looping, Writing, Shapes
<1>6. RowsInOrder'
  <2> HIDE DEF block
  <2>1. (i' - 1) * Len(Matrix) = (i - 1) * Len(Matrix) + Len(Matrix)
        /\ (i - 1) * Len(Matrix) \in Int
    BY <1>1, NextBlock
  <2>2. Len(results) = (i - 1) * Len(Matrix)
    BY <1>1, <2>1 DEF RowsInOrder
  <2>3. ASSUME NEW n \in 1 .. Len(results')
        PROVE  \E l \in 1 .. Len(Matrix) :
                 /\ results'[n].spec = Matrix[l]
                 /\ n = (results'[n].shape - 1) * Len(Matrix) + l
    <3>1. CASE n \in 1 .. Len(results)
      BY <1>3, <3>1 DEF RowsInOrder
    <3>2. CASE n \notin 1 .. Len(results)
      <4>1. PICK l \in 1 .. Len(Matrix) : n = Len(results) + l
        <5>1. n - Len(results) \in 1 .. Len(Matrix) /\ n = Len(results) + (n - Len(results))
          BY <1>3, <3>2
        <5> QED BY <5>1
      <4>2. results'[n] = Blank(Matrix[l], "failed")
        BY <1>2, <1>3, <4>1
      <4>3. results'[n].spec = Matrix[l] /\ results'[n].shape = i
        BY <1>1, <4>2, BlankType
      <4> QED BY <2>2, <4>1, <4>3
    <3> QED BY <3>1, <3>2
  <2>4. Len(results') = (i' - 1) * Len(Matrix) + k' - 1
    BY <1>1, <1>3, <2>1, <2>2
  <2> QED BY <2>3, <2>4 DEF RowsInOrder
<1>7. Files'
  BY <1>1 DEF InputsFail, Files, Looping
<1> QED BY <1>4, <1>5, <1>6, <1>7

(* One provider of one shape. *)
LEMMA ProviderStep ==
  ASSUME IInv, NEW p \in Specs, Provider(p)
  PROVE  IInv'
<1> USE DEF IInv
<1>1. p = Matrix[k] /\ pc \in {"provider", "check", "time"} /\ i \in Shapes
  BY DEF Provider, NotConfigured, BadAdapter, Unsupported, Supported, HasAdapter, Check, Time,
         TimeRaises, Position, Looping
<1>2. /\ cache \in [Caching -> SUBSET Shapes] /\ detail \in [Enabled -> {0} \cup Shapes]
      /\ correct \in {"none", "yes", "no"}
  BY DEF TypeOK
<1>3. CASE NotConfigured(p)
  BY <1>1, <1>2, <1>3, EmitStep, BlankType DEF NotConfigured
<1>4. CASE BadAdapter(p)
  BY <1>1, <1>2, <1>4, EmitStep, BlankType DEF BadAdapter
<1>5. CASE Unsupported(p)
  <2> DEFINE row == [Blank(p, "unsupported") EXCEPT !.detail = detail[p]]
  <2>1. p \in Enabled /\ pc = "provider" /\ Emit(row) /\ cache' = cache /\ detail' = detail
    BY <1>5 DEF Unsupported, HasAdapter
  <2>2. row \in Row /\ row.shape = i /\ row.spec = p
    BY <1>1, <1>2, <2>1 DEF Blank, Row
  <2> QED BY <1>1, <1>2, <2>1, <2>2, EmitStep
<1>6. CASE Supported(p)
  BY <1>1, <1>6, Lengths
     DEF Supported, HasAdapter, TypeOK, Position, RowsInOrder, Files, Looping, Writing
<1>7. CASE Check(p)
  <2>1. p \in Enabled /\ pc = "check"
    BY <1>1, <1>7 DEF Check, Position
  <2>2. /\ cache' \in [Caching -> SUBSET Shapes] /\ detail' \in [Enabled -> {0} \cup Shapes]
        /\ correct' \in {"none", "yes", "no"}
    BY <1>1, <1>2, <1>7, <2>1, GetLauncherType DEF Check
  <2> QED BY <1>1, <1>7, <2>1, <2>2, Lengths
          DEF Check, TypeOK, Position, RowsInOrder, Files, Looping, Writing
<1>8. CASE Time(p)
  <2>1. p \in Enabled /\ pc = "time" /\ GetLauncher(p)
    BY <1>1, <1>8 DEF Time, Position
  <2>2. cache' \in [Caching -> SUBSET Shapes] /\ detail' \in [Enabled -> {0} \cup Shapes]
    BY <1>1, <2>1, GetLauncherType
  <2> DEFINE row == [shape |-> i, spec |-> p, correct |-> correct,
                     status |-> IF correct = "yes" THEN "ok" ELSE "incorrect",
                     built |-> LaunchedOn(p), detail |-> detail'[p]]
  <2>3. Emit(row)
    BY <1>8 DEF Time
  <2>4. row \in Row /\ row.shape = i /\ row.spec = p
    BY <1>1, <1>2, <2>1, <2>2, LaunchedOnType DEF Row
  <2> QED BY <1>1, <2>1, <2>2, <2>3, <2>4, EmitStep
<1>9. CASE TimeRaises(p)
  <2>1. p \in Enabled /\ pc = "time"
    BY <1>1, <1>9 DEF TimeRaises, Position
  <2>2. cache' \in [Caching -> SUBSET Shapes] /\ detail' \in [Enabled -> {0} \cup Shapes]
    BY <1>1, <1>2, <1>9, <2>1, GetLauncherType DEF TimeRaises
  <2>3. PICK status \in {"oom", "failed"} :
          Emit([Blank(p, status) EXCEPT !.correct = correct, !.detail = detail'[p]])
    BY <1>9 DEF TimeRaises
  <2> DEFINE row == [Blank(p, status) EXCEPT !.correct = correct, !.detail = detail'[p]]
  <2>4. row \in Row /\ row.shape = i /\ row.spec = p
    BY <1>1, <1>2, <2>1, <2>2 DEF Row, Blank
  <2> QED BY <1>1, <2>1, <2>2, <2>3, <2>4, EmitStep
<1> QED BY <1>3, <1>4, <1>5, <1>6, <1>7, <1>8, <1>9 DEF Provider

(* Every step keeps the invariant. *)
LEMMA StepInvariant == IInv /\ [Next]_vars => IInv'
<1> SUFFICES ASSUME IInv, [Next]_vars PROVE IInv'
  OBVIOUS
<1> USE Lengths
<1>1. CASE LoadAdapters
  BY <1>1 DEF LoadAdapters, IInv, TypeOK, Position, RowsInOrder, Files, Looping, Writing, Shapes
<1>2. CASE MakeInputs
  BY <1>2 DEF MakeInputs, IInv, TypeOK, Position, RowsInOrder, Files, Looping, Writing
<1>3. CASE InputsFail
  BY <1>3, InputsFailStep
<1>4. ASSUME NEW p \in Specs, Provider(p) PROVE IInv'
  BY <1>4, ProviderStep
<1>5. CASE OpenJsonl
  BY <1>5 DEF OpenJsonl, IInv, TypeOK, Position, RowsInOrder, Files, Looping, Writing, FileState
<1>6. CASE CloseJsonl
  BY <1>6 DEF CloseJsonl, IInv, TypeOK, Position, RowsInOrder, Files, Looping, Writing, FileState
<1>7. CASE OpenCsv
  BY <1>7 DEF OpenCsv, IInv, TypeOK, Position, RowsInOrder, Files, Looping, Writing, FileState
<1>8. CASE CloseCsv
  BY <1>8 DEF CloseCsv, IInv, TypeOK, Position, RowsInOrder, Files, Looping, Writing, FileState
<1>9. CASE Killed
  BY <1>9 DEF Killed, IInv, TypeOK, Position, RowsInOrder, Files, Looping, Writing
<1>10. CASE UNCHANGED vars
  BY <1>10 DEF vars, IInv, TypeOK, Position, RowsInOrder, Files, Looping, Writing
<1> QED BY <1>1, <1>2, <1>3, <1>4, <1>5, <1>6, <1>7, <1>8, <1>9, <1>10 DEF Next

LEMMA Invariant == Spec => []IInv
BY InitInvariant, StepInvariant, PTL DEF Spec

(* Every reachable state is well typed, whatever the ledger and the matrix. *)
THEOREM TypeCorrect == Spec => []TypeOK
<1>1. IInv => TypeOK
  BY DEF IInv
<1> QED BY <1>1, Invariant, PTL

(***************************************************************************)
(* multishape_runner.py:5-6: at every moment there is one row per spec for *)
(* the shapes passed, in order, and before a file is opened the rows of    *)
(* the whole ledger are there.                                             *)
(***************************************************************************)
THEOREM RowForEverySpec == Spec => []NothingDropped
<1>1. IInv => NothingDropped
  <2> SUFFICES ASSUME IInv, jsonl # "old" PROVE Len(results) = Len(Ledger) * Len(Matrix)
    BY DEF IInv, RowsInOrder, NothingDropped
  <2>1. i = Len(Ledger) + 1 /\ k = 1
    BY DEF IInv, Files
  <2>2. i - 1 = Len(Ledger)
    BY <2>1, Lengths
  <2>3. Len(results) = Len(Ledger) * Len(Matrix) + k - 1 /\ Len(Ledger) * Len(Matrix) \in Nat
    BY <2>2, Lengths DEF IInv, RowsInOrder
  <2> QED BY <2>1, <2>3
<1> QED BY <1>1, Invariant, PTL

(* multishape_runner.py:151-153: a killed run leaves no new csv beside an old jsonl. *)
THEOREM JsonlFirst == Spec => []CsvFollowsJsonl
<1>1. IInv => CsvFollowsJsonl
  BY DEF IInv, Files, CsvFollowsJsonl
<1> QED BY <1>1, Invariant, PTL

-----------------------------------------------------------------------------
(* What a provider leaves: no row, an untimed one, or one timed on its launcher. *)
LEMMA ProviderRow ==
  ASSUME IInv, NEW p \in Specs, Provider(p)
  PROVE  /\ TypeOK /\ i \in Shapes
         /\ UNCHANGED <<cache, detail>> \/ (p \in Enabled /\ GetLauncher(p))
         /\ \/ UNCHANGED <<results, i>>
            \/ \E row \in Row : Emit(row) /\ row.built = 0
            \/ \E row \in Row :
                 /\ Emit(row) /\ p \in Enabled /\ GetLauncher(p)
                 /\ row.shape = i /\ row.spec = p
                 /\ row.built = LaunchedOn(p) /\ row.detail = detail'[p]
<1>1. p = Matrix[k] /\ i \in Shapes /\ (pc \in {"check", "time"} => p \in Enabled)
  BY DEF IInv, Provider, NotConfigured, BadAdapter, Unsupported, Supported, HasAdapter, Check,
         Time, TimeRaises, Position, Looping
<1>2. /\ results \in Seq(Row) /\ detail \in [Enabled -> {0} \cup Shapes]
      /\ correct \in {"none", "yes", "no"} /\ TypeOK
  BY DEF IInv, TypeOK
<1>3. CASE NotConfigured(p) \/ BadAdapter(p)
  <2>1. PICK status \in {"not_configured", "failed"} : Emit(Blank(p, status))
    BY <1>3 DEF NotConfigured, BadAdapter
  <2>2. Blank(p, status) \in Row /\ Blank(p, status).built = 0
    BY <1>1, BlankType DEF Blank
  <2> QED BY <1>1, <1>2, <1>3, <2>1, <2>2 DEF NotConfigured, BadAdapter
<1>4. CASE Unsupported(p)
  <2> DEFINE row == [Blank(p, "unsupported") EXCEPT !.detail = detail[p]]
  <2>1. Emit(row) /\ p \in Enabled /\ UNCHANGED <<cache, detail>>
    BY <1>4 DEF Unsupported, HasAdapter
  <2>2. row \in Row /\ row.built = 0
    BY <1>1, <1>2, <2>1 DEF Blank, Row
  <2> QED BY <1>1, <1>2, <2>1, <2>2
<1>5. CASE Supported(p) \/ Check(p)
  BY <1>1, <1>2, <1>5 DEF Supported, Check
<1>6. CASE Time(p)
  <2>1. pc = "time" /\ GetLauncher(p) /\ p \in Enabled
    BY <1>1, <1>6 DEF Time
  <2>2. detail' \in [Enabled -> {0} \cup Shapes]
    BY <1>1, <1>2, <2>1, GetLauncherType
  <2> DEFINE row == [shape |-> i, spec |-> p, correct |-> correct,
                     status |-> IF correct = "yes" THEN "ok" ELSE "incorrect",
                     built |-> LaunchedOn(p), detail |-> detail'[p]]
  <2>3. Emit(row)
    BY <1>6 DEF Time
  <2>4. /\ row \in Row /\ row.built = LaunchedOn(p) /\ row.shape = i
        /\ row.spec = p /\ row.detail = detail'[p]
    BY <1>1, <1>2, <2>1, <2>2, LaunchedOnType DEF Row
  <2> QED BY <1>1, <1>2, <2>1, <2>3, <2>4
<1>7. CASE TimeRaises(p)
  <2>1. p \in Enabled /\ (GetLauncher(p) \/ UNCHANGED <<cache, detail>>)
    BY <1>1, <1>7 DEF TimeRaises
  <2>2. detail' \in [Enabled -> {0} \cup Shapes]
    BY <1>1, <1>2, <2>1, GetLauncherType
  <2>3. PICK status \in {"oom", "failed"} :
          Emit([Blank(p, status) EXCEPT !.correct = correct, !.detail = detail'[p]])
    BY <1>7 DEF TimeRaises
  <2> DEFINE row == [Blank(p, status) EXCEPT !.correct = correct, !.detail = detail'[p]]
  <2>4. row \in Row /\ row.built = 0
    BY <1>1, <1>2, <2>1, <2>2 DEF Row, Blank
  <2> QED BY <1>1, <1>2, <2>1, <2>3, <2>4
<1> QED BY <1>3, <1>4, <1>5, <1>6, <1>7 DEF Provider

(* The rows of a shape without inputs are untimed. *)
LEMMA InputsFailRows ==
  ASSUME IInv, InputsFail
  PROVE  /\ \A n \in 1 .. Len(results) : results'[n] = results[n]
         /\ \A n \in 1 .. Len(results') :
              n \notin 1 .. Len(results) => results'[n].built = 0
<1> DEFINE block == [n \in 1 .. Len(Matrix) |-> Blank(Matrix[n], "failed")]
<1>1. /\ i \in Shapes /\ results \in Seq(Row) /\ results' = results \o block
  BY DEF InputsFail, IInv, TypeOK, Position, Looping
<1>2. block \in Seq(Row) /\ Len(block) = Len(Matrix)
  <2>1. \A n \in 1 .. Len(Matrix) : block[n] \in Row
    BY <1>1, BlankType, Lengths
  <2> QED BY <2>1, Lengths
<1>3. \A n \in 1 .. Len(Matrix) : block[n].built = 0
  BY DEF Blank
<1> HIDE DEF block
<1>4. /\ Len(results) \in Nat /\ Len(results') = Len(results) + Len(Matrix)
      /\ \A n \in 1 .. Len(results) : results'[n] = results[n]
      /\ \A n \in 1 .. Len(Matrix) : results'[Len(results) + n] = block[n]
  BY <1>1, <1>2, AppendBlock
<1>5. ASSUME NEW n \in 1 .. Len(results'), n \notin 1 .. Len(results)
      PROVE  results'[n].built = 0
  <2>1. /\ n - Len(results) \in 1 .. Len(Matrix)
        /\ n = Len(results) + (n - Len(results))
    BY <1>4, <1>5, Lengths
  <2> QED BY <1>3, <1>4, <2>1
<1> QED BY <1>4, <1>5

-----------------------------------------------------------------------------
(***************************************************************************)
(* What an adapter that caches remembers: one launcher per key, and the    *)
(* detail of the last one it built.                                        *)
(***************************************************************************)
LastBuilt ==
  \A p \in Caching :
    /\ \A s, t \in cache[p] : Key(p, s) = Key(p, t) => s = t
    /\ \A s \in cache[p] : s <= i /\ s <= detail[p]
    /\ cache[p] # {} => detail[p] \in cache[p]

(* The detail of a row is of its launcher, or of a later one for another key. *)
RightDetail(r) ==
  \/ r.detail = r.built
  \/ /\ r.built < r.detail /\ r.detail < r.shape
     /\ Key(r.spec, r.detail) # Key(r.spec, r.shape)

(* A launcher call keeps LastBuilt, the loop being where it was. *)
LEMMA GetLauncherBuilt ==
  ASSUME TypeOK, LastBuilt, i \in Shapes, NEW q \in Enabled, GetLauncher(q),
         i' \in Int, i <= i'
  PROVE  LastBuilt'
<1>1. /\ cache \in [Caching -> SUBSET Shapes] /\ detail \in [Enabled -> {0} \cup Shapes]
      /\ i \in Nat /\ Caching \subseteq Enabled
  BY Lengths, CachingAssumption DEF TypeOK, Shapes
<1>2. \A p \in Caching : \A s \in cache[p] : s \in Int /\ s <= i /\ s <= i'
  BY <1>1 DEF LastBuilt, Shapes
<1>3. CASE UNCHANGED <<cache, detail>>
  BY <1>2, <1>3 DEF LastBuilt, Key
<1>4. CASE /\ q \in Caching /\ Hits(q) = {}
           /\ cache' = [cache EXCEPT ![q] = @ \cup {i}] /\ detail' = [detail EXCEPT ![q] = i]
  <2>1. \A s \in cache[q] : Key(q, s) # Key(q, i)
    BY <1>4 DEF Hits
  <2>2. cache'[q] = cache[q] \cup {i} /\ detail'[q] = i
    BY <1>1, <1>4
  <2>3. \A p \in Caching : p # q => cache'[p] = cache[p] /\ detail'[p] = detail[p]
    BY <1>1, <1>4
  <2>4. \A s, t \in cache'[q] : Key(q, s) = Key(q, t) => s = t
    BY <1>4, <2>1, <2>2 DEF LastBuilt
  <2>5. \A s \in cache'[q] : s <= i' /\ s <= detail'[q]
    BY <1>1, <1>2, <1>4, <2>2
  <2>6. \A p \in Caching : p # q =>
          /\ \A s, t \in cache'[p] : Key(p, s) = Key(p, t) => s = t
          /\ \A s \in cache'[p] : s <= i' /\ s <= detail'[p]
          /\ cache'[p] # {} => detail'[p] \in cache'[p]
    BY <1>2, <2>3 DEF LastBuilt
  <2> QED BY <2>2, <2>4, <2>5, <2>6 DEF LastBuilt, Key
<1>5. CASE q \notin Caching /\ detail' = [detail EXCEPT ![q] = i] /\ UNCHANGED cache
  <2>1. \A p \in Caching : detail'[p] = detail[p]
    BY <1>1, <1>5
  <2> QED BY <1>2, <1>5, <2>1 DEF LastBuilt, Key
<1> QED BY <1>3, <1>4, <1>5 DEF GetLauncher

(* The launcher a call returns, and the detail the adapter has after it. *)
LEMMA GetLauncherDetail ==
  ASSUME TypeOK, LastBuilt, i \in Shapes, NEW q \in Enabled, GetLauncher(q),
         NEW row \in Row, row.shape = i, row.spec = q,
         row.built = LaunchedOn(q), row.detail = detail'[q]
  PROVE  RightDetail(row)
<1>1. /\ cache \in [Caching -> SUBSET Shapes] /\ detail \in [Enabled -> {0} \cup Shapes]
      /\ i \in Nat
  BY Lengths DEF TypeOK, Shapes
<1>2. CASE q \in Caching /\ Hits(q) # {} /\ UNCHANGED <<cache, detail>>
  <2> DEFINE b == LaunchedOn(q)
             d == detail[q]
  <2>1. b \in cache[q] /\ Key(q, b) = Key(q, i)
    BY <1>2, LaunchedOnType DEF Hits
  <2>2. d \in cache[q] /\ b <= d /\ d <= i /\ b \in Int /\ d \in Int
    BY <1>1, <1>2, <2>1 DEF LastBuilt, Shapes
  <2>3. CASE d # b
    <3>1. Key(q, d) # Key(q, i)
      BY <1>2, <2>1, <2>2, <2>3 DEF LastBuilt
    <3>2. b < d /\ d < i
      <4>1. d # i
        BY <3>1
      <4> QED BY <1>1, <2>2, <2>3, <4>1
    <3> QED BY <1>2, <3>1, <3>2 DEF RightDetail
  <2> QED BY <1>2, <2>3 DEF RightDetail
<1>3. CASE /\ q \in Caching /\ Hits(q) = {} /\ detail' = [detail EXCEPT ![q] = i]
  BY <1>1, <1>3 DEF LaunchedOn, RightDetail
<1>4. CASE q \notin Caching /\ detail' = [detail EXCEPT ![q] = i]
  BY <1>1, <1>4 DEF LaunchedOn, RightDetail
<1> QED BY <1>2, <1>3, <1>4 DEF GetLauncher

(* A row appended by Emit that is untimed or has the right detail. *)
LEMMA EmitDetail ==
  ASSUME results \in Seq(Row), DetailOfLastBuild, NEW row \in Row, Emit(row),
         row.built = 0 \/ RightDetail(row)
  PROVE  DetailOfLastBuild'
<1>1. /\ results' = Append(results, row) /\ Len(results) \in Nat
      /\ Len(results') = Len(results) + 1
      /\ results'[Len(results) + 1] = row
      /\ \A n \in 1 .. Len(results) : results'[n] = results[n]
  BY DEF Emit
<1>2. \A n \in 1 .. Len(results') : n \in 1 .. Len(results) \/ n = Len(results) + 1
  BY <1>1
<1> QED BY <1>1, <1>2 DEF DetailOfLastBuild, RightDetail, Key

(***************************************************************************)
(* flydsl.py:44-52: the detail of a timed row is that of its launcher, or  *)
(* of a launcher for another key built between that one and the row.       *)
(***************************************************************************)
THEOREM DetailIsOfLastBuild == Spec => []DetailOfLastBuild
<1> DEFINE DInv == LastBuilt /\ DetailOfLastBuild
<1>1. Init => DInv
  BY Lengths, CachingAssumption DEF Init, LastBuilt, DetailOfLastBuild
<1>2. IInv /\ DInv /\ [Next]_vars => DInv'
  <2> SUFFICES ASSUME IInv, DInv, [Next]_vars PROVE DInv'
    OBVIOUS
  <2>1. /\ TypeOK /\ results \in Seq(Row) /\ i \in Nat
        /\ \A p \in Caching : \A s \in cache[p] : s \in Int
    BY Lengths DEF IInv, TypeOK, Shapes
  <2>2. CASE InputsFail
    <3>1. LastBuilt'
      <4>1. UNCHANGED <<cache, detail>> /\ i' = i + 1
        BY <2>2 DEF InputsFail
      <4> QED BY <2>1, <4>1 DEF LastBuilt, Key
    <3>2. DetailOfLastBuild'
      BY <2>2, InputsFailRows DEF DetailOfLastBuild, Key
    <3> QED BY <3>1, <3>2
  <2>3. ASSUME NEW p \in Specs, Provider(p) PROVE DInv'
    <3>1. i \in Shapes /\ (UNCHANGED <<cache, detail>> \/ (p \in Enabled /\ GetLauncher(p)))
      BY <2>3, ProviderRow
    <3>2. i' \in Int /\ i <= i'
      BY <2>1, <2>3, ProviderRow DEF Emit
    <3>3. LastBuilt'
      <4>1. CASE UNCHANGED <<cache, detail>>
        BY <2>1, <3>2, <4>1 DEF LastBuilt, Key
      <4>2. CASE p \in Enabled /\ GetLauncher(p)
        BY <2>1, <3>1, <3>2, <4>2, GetLauncherBuilt
      <4> QED BY <3>1, <4>1, <4>2
    <3>4. DetailOfLastBuild'
      <4>1. CASE UNCHANGED <<results, i>>
        BY <4>1 DEF DetailOfLastBuild, Key
      <4>2. CASE \E row \in Row : Emit(row) /\ row.built = 0
        BY <2>1, <4>2, EmitDetail
      <4>3. ASSUME NEW row \in Row, Emit(row), p \in Enabled, GetLauncher(p),
                   row.shape = i, row.spec = p,
                   row.built = LaunchedOn(p), row.detail = detail'[p]
            PROVE  DetailOfLastBuild'
        <5>1. RightDetail(row)
          BY <2>1, <3>1, <4>3, GetLauncherDetail
        <5> QED BY <2>1, <4>3, <5>1, EmitDetail
      <4> QED BY <2>3, <4>1, <4>2, <4>3, ProviderRow
    <3> QED BY <3>3, <3>4
  <2>4. CASE UNCHANGED <<results, cache, detail, i>>
    BY <2>4 DEF LastBuilt, DetailOfLastBuild, Key
  <2> QED BY <2>2, <2>3, <2>4 DEF Next, LoadAdapters, MakeInputs, OpenJsonl, CloseJsonl,
                                  OpenCsv, CloseCsv, Killed, vars
<1>3. DInv => DetailOfLastBuild
  OBVIOUS
<1> QED BY <1>1, <1>2, <1>3, Invariant, PTL DEF Spec
=============================================================================
