------------------------- MODULE DashboardDataProofs -------------------------
(***************************************************************************)
(* Types, and what DashboardData says of the records and of the page, for  *)
(* any tests and any number of runs and deaths.  The lists are made by     *)
(* loops; what is needed of a loop, the elements it lets through and that  *)
(* it lets none through twice, is proved first, by induction over the      *)
(* passes of the loop.                                                     *)
(***************************************************************************)
EXTENDS DashboardData, FiniteSetTheorems, NaturalsInduction, SequenceTheorems, TLAPS

-----------------------------------------------------------------------------
(* Induction, as the existence of a least counterexample. *)

LEMMA LeastNatural ==
  ASSUME NEW T, T \subseteq Nat, T # {}
  PROVE  \E x \in T : \A y \in T : x <= y
<1>1. PICK x \in T : \A y \in T : ~ (<<y, x>> \in OpToRel(<, Nat))
  BY NatLessThanWellFounded, WFMin
<1>2. \A y \in T : ~ (y < x)
  BY <1>1 DEF OpToRel
<1>3. x \in Nat /\ \A y \in T : y \in Nat
  OBVIOUS
<1> QED
  BY <1>2, <1>3

(* A set that has 0, and with each number the next, has all of them. *)
LEMMA AllNaturals ==
  ASSUME NEW T, 0 \in T, \A k \in Nat : k \in T => k + 1 \in T
  PROVE  Nat \subseteq T
<1> SUFFICES ASSUME Nat \ T # {} PROVE FALSE
  OBVIOUS
<1>1. PICK k \in Nat \ T : \A y \in Nat \ T : k <= y
  BY LeastNatural
<1>2. k # 0 /\ k - 1 \in Nat /\ ~ (k <= k - 1)
  OBVIOUS
<1>3. k - 1 \in T
  BY <1>1, <1>2
<1>4. (k - 1) + 1 \in T
  BY <1>2, <1>3
<1> QED
  BY <1>1, <1>4

-----------------------------------------------------------------------------
(* The loop that Selected is. *)

(* The lists after the passes 0 .. n. *)
Loops(f, s, X, n) ==
  f = [i \in 0 .. n |->
        IF i = 0 THEN << >>
        ELSE IF s[i] \in X THEN Append(f[i - 1], s[i]) ELSE f[i - 1]]

Unrolls(f, s, X, n) ==
  \A i \in 0 .. n :
    f[i] = IF i = 0 THEN << >>
           ELSE IF s[i] \in X THEN Append(f[i - 1], s[i]) ELSE f[i - 1]

LEMMA LoopExists ==
  ASSUME NEW s, NEW X, NEW n \in Nat
  PROVE  \E f : Loops(f, s, X, n)
<1> DEFINE T == {k \in Nat : \E f : Unrolls(f, s, X, k)}
<1>1. 0 \in T
  <2> DEFINE f == [i \in 0 .. 0 |-> << >>]
  <2>1. Unrolls(f, s, X, 0)
    BY DEF Unrolls
  <2> QED
    BY <2>1
<1>2. ASSUME NEW k \in Nat, k \in T PROVE k + 1 \in T
  <2>1. PICK f : Unrolls(f, s, X, k)
    BY <1>2
  <2> DEFINE g == [i \in 0 .. k + 1 |->
                    IF i = 0 THEN << >>
                    ELSE IF s[i] \in X THEN Append(f[i - 1], s[i]) ELSE f[i - 1]]
  <2>2. ASSUME NEW i \in 0 .. k PROVE g[i] = f[i]
    <3>1. i \in 0 .. k + 1
      OBVIOUS
    <3> QED
      BY <2>1, <3>1 DEF Unrolls
  <2>3. Unrolls(g, s, X, k + 1)
    <3> SUFFICES ASSUME NEW i \in 0 .. k + 1, i # 0 PROVE g[i - 1] = f[i - 1]
      BY DEF Unrolls
    <3>1. i - 1 \in 0 .. k
      OBVIOUS
    <3> QED
      BY <2>2, <3>1
  <2>4. \E h : Unrolls(h, s, X, k + 1)
    BY <2>3
  <2> QED
    BY <2>4
<1>3. n \in T
  <2> HIDE DEF T
  <2> QED
    BY <1>1, <1>2, AllNaturals
<1>4. PICK f : Unrolls(f, s, X, n)
  BY <1>3
<1> DEFINE g == [i \in 0 .. n |-> f[i]]
<1>5. Unrolls(g, s, X, n)
  <2> SUFFICES ASSUME NEW i \in 0 .. n, i # 0 PROVE g[i - 1] = f[i - 1]
    BY <1>4 DEF Unrolls
  <2>1. i - 1 \in 0 .. n
    OBVIOUS
  <2> QED
    BY <2>1
<1>6. Loops(g, s, X, n)
  BY <1>5 DEF Unrolls, Loops
<1> QED
  BY <1>6

LEMMA SelectedUnrolls ==
  ASSUME NEW s, NEW X, Len(s) \in Nat
  PROVE  \E f : Unrolls(f, s, X, Len(s)) /\ Selected(s, X) = f[Len(s)]
<1> DEFINE F == CHOOSE f : Loops(f, s, X, Len(s))
<1>1. Loops(F, s, X, Len(s))
  BY LoopExists
<1>2. Selected(s, X) = F[Len(s)]
  BY DEF Selected, Loops
<1> HIDE DEF F
<1>3. Unrolls(F, s, X, Len(s))
  BY <1>1 DEF Unrolls, Loops
<1> QED
  BY <1>2, <1>3

Distinct(q) == \A k, l \in 1 .. Len(q) : q[k] = q[l] => k = l

(* What q has of the first i elements of s. *)
Sound(q, s, X, i)    == \A l \in 1 .. Len(q) : q[l] \in X /\ \E j \in 1 .. i : s[j] = q[l]
Complete(q, s, X, i) == \A j \in 1 .. i : s[j] \in X => \E l \in 1 .. Len(q) : q[l] = s[j]
Filtered(q, s, X, i) ==
  Sound(q, s, X, i) /\ Complete(q, s, X, i) /\ (Distinct(s) => Distinct(q))

LEMMA FilterTakes ==
  ASSUME NEW A, NEW s \in Seq(A), NEW X, NEW i \in Nat, i + 1 \in 1 .. Len(s), s[i + 1] \in X,
         NEW q \in Seq(A), Filtered(q, s, X, i)
  PROVE  Filtered(Append(q, s[i + 1]), s, X, i + 1)
<1>1. s[i + 1] \in A /\ Len(q) \in Nat /\ Len(s) \in Nat
  OBVIOUS
<1>2. PICK r : r = Append(q, s[i + 1])
  OBVIOUS
<1>3. /\ r \in Seq(A) /\ Len(r) = Len(q) + 1
      /\ \A l \in 1 .. Len(q) : r[l] = q[l]
      /\ r[Len(q) + 1] = s[i + 1]
  BY <1>1, <1>2, AppendProperties
<1>4. \A l \in 1 .. Len(r) : l \in 1 .. Len(q) \/ l = Len(q) + 1
  BY <1>1, <1>3
<1>5. \A j \in 1 .. i + 1 : j \in 1 .. i \/ j = i + 1
  OBVIOUS
<1>6. 1 .. i \subseteq 1 .. i + 1 /\ i + 1 \in 1 .. i + 1 /\ 1 .. i + 1 \subseteq 1 .. Len(s)
  BY <1>1
<1>7. 1 .. Len(q) \subseteq 1 .. Len(r) /\ Len(q) + 1 \in 1 .. Len(r)
  BY <1>1, <1>3
<1>8. Sound(r, s, X, i + 1)
  <2> SUFFICES ASSUME NEW l \in 1 .. Len(r)
               PROVE  r[l] \in X /\ \E j \in 1 .. i + 1 : s[j] = r[l]
    BY DEF Sound
  <2>1. CASE l \in 1 .. Len(q)
    BY <1>3, <1>6, <2>1 DEF Filtered, Sound
  <2>2. CASE l = Len(q) + 1
    BY <1>3, <1>6, <2>2
  <2> QED
    BY <1>4, <2>1, <2>2
<1>9. Complete(r, s, X, i + 1)
  <2> SUFFICES ASSUME NEW j \in 1 .. i + 1, s[j] \in X
               PROVE  \E l \in 1 .. Len(r) : r[l] = s[j]
    BY DEF Complete
  <2>1. CASE j \in 1 .. i
    <3>1. PICK l \in 1 .. Len(q) : q[l] = s[j]
      BY <2>1 DEF Filtered, Complete
    <3> QED
      BY <1>3, <1>7, <3>1
  <2>2. CASE j = i + 1
    BY <1>3, <1>7, <2>2
  <2> QED
    BY <1>5, <2>1, <2>2
<1>10. ASSUME Distinct(s) PROVE Distinct(r)
  <2>1. Distinct(q)
    BY <1>10 DEF Filtered
  <2>2. \A l \in 1 .. Len(q) : q[l] # s[i + 1]
    <3> SUFFICES ASSUME NEW l \in 1 .. Len(q), q[l] = s[i + 1] PROVE FALSE
      OBVIOUS
    <3>1. PICK j \in 1 .. i : s[j] = q[l]
      BY DEF Filtered, Sound
    <3>2. j = i + 1
      BY <1>6, <1>10, <3>1 DEF Distinct
    <3> QED
      BY <3>2
  <2> SUFFICES ASSUME NEW k \in 1 .. Len(r), NEW l \in 1 .. Len(r), r[k] = r[l] PROVE k = l
    BY DEF Distinct
  <2>3. CASE k \in 1 .. Len(q) /\ l \in 1 .. Len(q)
    BY <1>3, <2>1, <2>3 DEF Distinct
  <2>4. CASE k \in 1 .. Len(q) /\ l = Len(q) + 1
    BY <1>3, <2>2, <2>4
  <2>5. CASE k = Len(q) + 1 /\ l \in 1 .. Len(q)
    BY <1>3, <2>2, <2>5
  <2>6. CASE k = Len(q) + 1 /\ l = Len(q) + 1
    BY <2>6
  <2> QED
    BY <1>4, <2>3, <2>4, <2>5, <2>6
<1> QED
  BY <1>2, <1>8, <1>9, <1>10 DEF Filtered

LEMMA FilterSkips ==
  ASSUME NEW s, NEW X, NEW i \in Nat, s[i + 1] \notin X, NEW q, Filtered(q, s, X, i)
  PROVE  Filtered(q, s, X, i + 1)
<1>1. \A j \in 1 .. i + 1 : j \in 1 .. i \/ j = i + 1
  OBVIOUS
<1>2. 1 .. i \subseteq 1 .. i + 1
  OBVIOUS
<1>3. Sound(q, s, X, i + 1)
  BY <1>2 DEF Filtered, Sound
<1>4. Complete(q, s, X, i + 1)
  BY <1>1 DEF Filtered, Complete
<1> QED
  BY <1>3, <1>4 DEF Filtered

(***************************************************************************)
(* What Selected returns: the elements of s that are in X and no others,   *)
(* each of them once when s has no element twice.                          *)
(***************************************************************************)
LEMMA SelectedFacts ==
  ASSUME NEW A, NEW s \in Seq(A), NEW X
  PROVE  Selected(s, X) \in Seq(A) /\ Filtered(Selected(s, X), s, X, Len(s))
<1>0. Len(s) \in Nat
  OBVIOUS
<1>1. PICK f : Unrolls(f, s, X, Len(s)) /\ Selected(s, X) = f[Len(s)]
  BY <1>0, SelectedUnrolls
<1> DEFINE Good(k) == k \in 0 .. Len(s) => f[k] \in Seq(A) /\ Filtered(f[k], s, X, k)
           T == {k \in Nat : Good(k)}
<1>2. 0 \in T
  <2>1. f[0] = << >>
    BY <1>0, <1>1 DEF Unrolls
  <2>2. Filtered(<< >>, s, X, 0)
    BY DEF Filtered, Sound, Complete, Distinct
  <2>3. f[0] \in Seq(A)
    BY <2>1
  <2>4. Filtered(f[0], s, X, 0)
    BY <2>1, <2>2
  <2> QED
    BY <2>3, <2>4
<1>3. ASSUME NEW k \in Nat, k \in T PROVE k + 1 \in T
  <2> SUFFICES ASSUME k + 1 \in 0 .. Len(s)
               PROVE  f[k + 1] \in Seq(A) /\ Filtered(f[k + 1], s, X, k + 1)
    OBVIOUS
  <2>1. k \in 0 .. Len(s) /\ k + 1 \in 1 .. Len(s) /\ k + 1 # 0 /\ (k + 1) - 1 = k
    BY <1>0
  <2>2. f[k] \in Seq(A) /\ Filtered(f[k], s, X, k)
    BY <1>3, <2>1
  <2>3. f[k + 1] = IF s[k + 1] \in X THEN Append(f[k], s[k + 1]) ELSE f[k]
    BY <1>1, <2>1 DEF Unrolls
  <2>4. CASE s[k + 1] \in X
    <3>1. s[k + 1] \in A
      BY <2>1
    <3>2. Append(f[k], s[k + 1]) \in Seq(A)
      BY <2>2, <3>1, AppendProperties
    <3>3. Filtered(Append(f[k], s[k + 1]), s, X, k + 1)
      BY <2>1, <2>2, <2>4, FilterTakes
    <3> QED
      BY <2>3, <2>4, <3>2, <3>3
  <2>5. CASE s[k + 1] \notin X
    <3>1. Filtered(f[k], s, X, k + 1)
      BY <2>2, <2>5, FilterSkips
    <3> QED
      BY <2>2, <2>3, <2>5, <3>1
  <2> QED
    BY <2>4, <2>5
<1>4. Len(s) \in T
  <2> HIDE DEF T
  <2> QED
    BY <1>0, <1>2, <1>3, AllNaturals
<1> QED
  BY <1>0, <1>1, <1>4

-----------------------------------------------------------------------------
(* What the programs compute, element by element. *)

LEMMA Orders ==
  /\ Order \in Seq(Test) /\ Distinct(Order)
  /\ \A t \in Test : (\E j \in 1 .. Len(Order) : Order[j] = t) /\ MS_OPS[t] \in Op
  /\ \A t, u \in Test : MS_OPS[t] = MS_OPS[u] => t = u
<1>1. Order \in Seq(Test) /\ DOMAIN Order = 1 .. Len(Order)
  BY DashboardAssumption
<1>2. Distinct(Order)
  BY <1>1, DashboardAssumption DEF Distinct, IsInjective
<1>3. \A t \in Test : \E j \in 1 .. Len(Order) : Order[j] = t
  BY <1>1 DEF Test, ToSet
<1>4. \A t, u \in Test : MS_OPS[t] = MS_OPS[u] => t = u
  BY DashboardAssumption DEF IsInjective
<1> QED
  BY <1>1, <1>2, <1>3, <1>4 DEF Op

LEMMA ListFacts ==
  ASSUME NEW X, X \subseteq Test
  PROVE  /\ Selected(Order, X) \in Seq(Test) /\ Distinct(Selected(Order, X))
         /\ \A l \in 1 .. Len(Selected(Order, X)) : Selected(Order, X)[l] \in X
         /\ \A t \in X : \E l \in 1 .. Len(Selected(Order, X)) : Selected(Order, X)[l] = t
<1>1. Selected(Order, X) \in Seq(Test) /\ Filtered(Selected(Order, X), Order, X, Len(Order))
  BY Orders, SelectedFacts
<1> QED
  BY <1>1, Orders DEF Filtered, Sound, Complete

(* A function on the places of a list is a list as long. *)
LEMMA MapSeq ==
  ASSUME NEW A, NEW q \in Seq(A), NEW B, NEW r \in [DOMAIN q -> B]
  PROVE  r \in Seq(B) /\ Len(r) = Len(q) /\ DOMAIN r = 1 .. Len(q)
<1>1. DOMAIN q = 1 .. Len(q) /\ Len(q) \in Nat
  OBVIOUS
<1>2. r \in Seq(B)
  BY <1>1, SeqDef
<1>3. DOMAIN r = 1 .. Len(r) /\ Len(r) \in Nat
  BY <1>2
<1> QED
  BY <1>1, <1>2, <1>3

Listed == {t \in Test : t \in Patched \/ swept[t] # Torn}

Seen(t) ==
  LET f == IF t \in Patched THEN {Hand} ELSE swept[t].flydsl_us
      b == IF t \in Patched THEN {Hand} ELSE swept[t].baseline_us
  IN  [flydsl_us |-> f, baseline_us |-> b, speedup |-> Quotient(b, f)]

LEMMA HandType == Hand \in Nat /\ Hand \in 1 .. Hand /\ MaxRuns \in Nat /\ 1 .. MaxRuns \subseteq 1 .. Hand
BY DashboardAssumption DEF Hand

LEMMA QuotientType ==
  ASSUME NEW f \in Number, NEW b \in Number
  PROVE  [flydsl_us |-> f, baseline_us |-> b, speedup |-> Quotient(b, f)] \in Times
BY DEF Times, Number, Quotient

LEMMA SeenType ==
  ASSUME TypeOK, NEW t \in Listed
  PROVE  Seen(t) \in Times
<1>1. swept[t] # Torn => swept[t] \in Times
  BY DEF TypeOK, Listed
<1>2. t \notin Patched => swept[t].flydsl_us \in Number /\ swept[t].baseline_us \in Number
  BY <1>1 DEF Listed, Times
<1>3. {Hand} \in Number
  BY HandType DEF Number
<1> QED
  BY <1>2, <1>3, QuotientType DEF Seen

LEMMA ConsolidatedFacts ==
  ASSUME TypeOK
  PROVE  /\ Consolidated \in Seq(Row)
         /\ \A l \in 1 .. Len(Consolidated) :
              /\ Consolidated[l].test \in Listed
              /\ Consolidated[l].times = Seen(Consolidated[l].test)
         /\ \A t \in Listed : \E l \in 1 .. Len(Consolidated) : Consolidated[l].test = t
         /\ \A k, l \in 1 .. Len(Consolidated) : Consolidated[k].test = Consolidated[l].test => k = l
<1> DEFINE q == Selected(Order, Listed)
<1>1. /\ q \in Seq(Test) /\ Distinct(q)
      /\ \A l \in 1 .. Len(q) : q[l] \in Listed
      /\ \A t \in Listed : \E l \in 1 .. Len(q) : q[l] = t
  BY ListFacts DEF Listed
<1>2. Consolidated = [l \in DOMAIN q |-> [test |-> q[l], times |-> Seen(q[l])]]
  BY DEF Consolidated, Seen, Listed
<1> HIDE DEF q
<1>3. DOMAIN q = 1 .. Len(q)
  BY <1>1
<1>4. \A l \in DOMAIN q : [test |-> q[l], times |-> Seen(q[l])] \in Row
  BY <1>1, <1>3, SeenType DEF Row, Listed
<1>5. Consolidated \in [DOMAIN q -> Row]
  BY <1>2, <1>4
<1>6. Consolidated \in Seq(Row) /\ Len(Consolidated) = Len(q)
  BY <1>1, <1>5, MapSeq
<1>7. \A l \in 1 .. Len(q) : Consolidated[l].test = q[l] /\ Consolidated[l].times = Seen(q[l])
  BY <1>2, <1>3
<1> QED
  BY <1>1, <1>6, <1>7 DEF Distinct

LEMMA JoinedType ==
  ASSUME NEW r \in Times, NEW b \in Times
  PROVE  Joined(r, b) \in Times
BY DEF Joined, Or, Quotient, Times, Number

LEMMA ExportedFacts ==
  ASSUME TypeOK, master \in Seq(Row)
  PROVE  /\ Exported \in Dataset /\ Len(Exported.kernels) = Len(master)
         /\ \A l \in 1 .. Len(master) :
              /\ Exported.kernels[l].example = master[l].test
              /\ Exported.kernels[l].times = Joined(master[l].times, baselines[master[l].test])
              /\ Exported.kernels[l].multishape = 0
         /\ Exported.multishape_summary = << >>
<1> DEFINE K == Exported.kernels
<1>1. K = [l \in DOMAIN master |->
            [example |-> master[l].test,
             times |-> Joined(master[l].times, baselines[master[l].test]),
             multishape |-> 0]]
  BY DEF Exported
<1>2. DOMAIN master = 1 .. Len(master)
  OBVIOUS
<1>3. ASSUME NEW l \in DOMAIN master PROVE K[l] \in Record
  <2> HIDE DEF K
  <2>0. master[l] \in Row
    BY <1>2
  <2>1. master[l].test \in Test /\ master[l].times \in Times
    BY <2>0 DEF Row
  <2>2. baselines[master[l].test] \in Times
    BY <2>1 DEF TypeOK
  <2>3. Joined(master[l].times, baselines[master[l].test]) \in Times
    BY <2>1, <2>2, JoinedType
  <2>4. 0 \in 0 .. MaxRuns
    BY HandType
  <2> QED
    BY <1>1, <2>1, <2>3, <2>4 DEF Record
<1>4. K \in [DOMAIN master -> Record]
  <2> HIDE DEF K
  <2> QED
    BY <1>1, <1>3
<1>5. K \in Seq(Record) /\ Len(K) = Len(master)
  BY <1>4, MapSeq
<1>6. Exported.multishape_summary = << >> /\ Exported = [kernels |-> K, multishape_summary |-> << >>]
  BY DEF Exported
<1>7. Exported \in Dataset
  <2> HIDE DEF K
  <2>1. << >> \in Seq(Record)
    OBVIOUS
  <2> QED
    BY <1>5, <1>6, <2>1 DEF Dataset
<1> QED
  BY <1>1, <1>2, <1>5, <1>6, <1>7

(* The record of an op with results whose example has none. *)
Blank(t) == [example |-> MS_OPS[t], times |-> NoTimes, multishape |-> results[MS_OPS[t]]]

(* A record with the block of its op. *)
WithResults(r) ==
  IF r.example \in {t \in Test : results[MS_OPS[t]] # 0} THEN results[MS_OPS[r.example]] ELSE r.multishape

Missing(records) ==
  {t \in Test : results[MS_OPS[t]] # 0 /\ t \notin {records[l].example : l \in DOMAIN records}}

LEMMA AttachedFacts ==
  ASSUME TypeOK, NEW records \in Seq(Record)
  PROVE  /\ Attached(records) \in Seq(Record) /\ Len(Attached(records)) = Len(records)
         /\ \A l \in 1 .. Len(records) :
              /\ Attached(records)[l].example = records[l].example
              /\ Attached(records)[l].times = records[l].times
              /\ Attached(records)[l].multishape = WithResults(records[l])
<1>1. DOMAIN records = 1 .. Len(records)
  OBVIOUS
<1>2. PICK r : r = Attached(records)
  OBVIOUS
<1>3. r = [l \in DOMAIN records |->
            IF records[l].example \in {t \in Test : results[MS_OPS[t]] # 0}
            THEN [records[l] EXCEPT !.multishape = results[MS_OPS[records[l].example]]]
            ELSE records[l]]
  BY <1>2 DEF Attached
<1>4. ASSUME NEW l \in DOMAIN records
      PROVE  /\ r[l] \in Record /\ r[l].example = records[l].example /\ r[l].times = records[l].times
             /\ r[l].multishape = WithResults(records[l])
  <2>1. records[l] \in Record
    BY <1>1
  <2>2. CASE records[l].example \in {t \in Test : results[MS_OPS[t]] # 0}
    <3>1. results[MS_OPS[records[l].example]] \in 0 .. MaxRuns
      BY <2>2, Orders DEF TypeOK
    <3>2. r[l] = [records[l] EXCEPT !.multishape = results[MS_OPS[records[l].example]]]
      BY <1>3, <2>2
    <3>3. WithResults(records[l]) = results[MS_OPS[records[l].example]]
      BY <2>2 DEF WithResults
    <3> QED
      BY <2>1, <3>1, <3>2, <3>3 DEF Record
  <2>3. CASE records[l].example \notin {t \in Test : results[MS_OPS[t]] # 0}
    BY <1>3, <2>1, <2>3 DEF WithResults
  <2> QED
    BY <2>2, <2>3
<1>5. r \in [DOMAIN records -> Record]
  BY <1>3, <1>4
<1>6. r \in Seq(Record) /\ Len(r) = Len(records)
  BY <1>5, MapSeq
<1> QED
  BY <1>1, <1>2, <1>4, <1>6

LEMMA AppendedFacts ==
  ASSUME TypeOK, NEW records \in Seq(Record)
  PROVE  /\ Appended(records) \in Seq(Record)
         /\ \A l \in 1 .. Len(Appended(records)) :
              \E t \in Missing(records) : Appended(records)[l] = Blank(t)
         /\ \A t \in Missing(records) :
              \E l \in 1 .. Len(Appended(records)) : Appended(records)[l] = Blank(t)
         /\ \A k, l \in 1 .. Len(Appended(records)) :
              Appended(records)[k].example = Appended(records)[l].example => k = l
<1> DEFINE q == Selected(Order, Missing(records))
<1>1. /\ q \in Seq(Test) /\ Distinct(q)
      /\ \A l \in 1 .. Len(q) : q[l] \in Missing(records)
      /\ \A t \in Missing(records) : \E l \in 1 .. Len(q) : q[l] = t
  BY ListFacts DEF Missing
<1>2. PICK r : r = Appended(records)
  OBVIOUS
<1>3. r = [l \in DOMAIN q |-> Blank(q[l])]
  BY <1>2 DEF Appended, Missing, Blank
<1> HIDE DEF q
<1>4. DOMAIN q = 1 .. Len(q)
  BY <1>1
<1>5. ASSUME NEW t \in Test PROVE Blank(t) \in Record
  <2>1. MS_OPS[t] \in Op /\ results[MS_OPS[t]] \in 0 .. MaxRuns
    BY Orders DEF TypeOK
  <2>2. NoTimes \in Times
    BY DEF NoTimes, Times, Number
  <2> QED
    BY <2>1, <2>2 DEF Blank, Record
<1>6. r \in [DOMAIN q -> Record]
  BY <1>1, <1>3, <1>4, <1>5
<1>7. r \in Seq(Record) /\ Len(r) = Len(q)
  BY <1>1, <1>6, MapSeq
<1>8. \A l \in 1 .. Len(q) : r[l] = Blank(q[l]) /\ r[l].example = MS_OPS[q[l]] /\ q[l] \in Test
  BY <1>1, <1>3, <1>4 DEF Blank
<1>9. ASSUME NEW k \in 1 .. Len(q), NEW l \in 1 .. Len(q), r[k].example = r[l].example
      PROVE  k = l
  <2>1. MS_OPS[q[k]] = MS_OPS[q[l]] /\ q[k] \in Test /\ q[l] \in Test
    BY <1>8, <1>9
  <2>2. q[k] = q[l]
    BY <2>1, Orders
  <2> QED
    BY <1>1, <2>2 DEF Distinct
<1>10. \A l \in 1 .. Len(q) : \E t \in Missing(records) : r[l] = Blank(t)
  BY <1>1, <1>8
<1>11. \A t \in Missing(records) : \E l \in 1 .. Len(q) : r[l] = Blank(t)
  BY <1>1, <1>8
<1> QED
  BY <1>2, <1>7, <1>9, <1>10, <1>11

LEMMA WithBlockFacts ==
  ASSUME NEW records \in Seq(Record)
  PROVE  /\ WithBlock(records) \in Seq(Record)
         /\ \A l \in 1 .. Len(WithBlock(records)) :
              /\ WithBlock(records)[l].multishape # 0
              /\ \E j \in 1 .. Len(records) : records[j] = WithBlock(records)[l]
         /\ \A j \in 1 .. Len(records) : records[j].multishape # 0 =>
              \E l \in 1 .. Len(WithBlock(records)) : WithBlock(records)[l] = records[j]
         /\ Distinct(records) => Distinct(WithBlock(records))
<1> DEFINE X == {r \in ToSet(records) : r.multishape # 0}
<1>1. PICK q : q = Selected(records, X)
  OBVIOUS
<1>2. WithBlock(records) = q
  BY <1>1 DEF WithBlock
<1>3. q \in Seq(Record) /\ Filtered(q, records, X, Len(records))
  <2> HIDE DEF X
  <2> QED
    BY <1>1, SelectedFacts
<1>4. \A j \in 1 .. Len(records) : records[j].multishape # 0 => records[j] \in X
  BY DEF ToSet
<1>5. \A r \in X : r.multishape # 0
  OBVIOUS
<1> HIDE DEF X
<1>6. \A l \in 1 .. Len(q) : q[l].multishape # 0 /\ \E j \in 1 .. Len(records) : records[j] = q[l]
  BY <1>3, <1>5 DEF Filtered, Sound
<1>7. \A j \in 1 .. Len(records) : records[j].multishape # 0 =>
        \E l \in 1 .. Len(q) : q[l] = records[j]
  BY <1>3, <1>4 DEF Filtered, Complete
<1> QED
  BY <1>2, <1>3, <1>6, <1>7 DEF Filtered

(* A merged file: the records there were, with their blocks, then those added. *)
LEMMA MergedFacts ==
  ASSUME TypeOK, kernelsJson \in Dataset
  PROVE  /\ Merged \in Dataset /\ Merged.multishape_summary = WithBlock(Merged.kernels)
         /\ Merged.kernels = Attached(kernelsJson.kernels) \o Appended(kernelsJson.kernels)
<1>1. kernelsJson.kernels \in Seq(Record)
  BY DEF Dataset
<1>2. PICK r : r = Attached(kernelsJson.kernels) \o Appended(kernelsJson.kernels)
  OBVIOUS
<1>3. r \in Seq(Record)
  BY <1>1, <1>2, AttachedFacts, AppendedFacts
<1>4. WithBlock(r) \in Seq(Record)
  BY <1>3, WithBlockFacts
<1>5. Merged = [kernels |-> r, multishape_summary |-> WithBlock(r)]
  BY <1>2 DEF Merged
<1> QED
  BY <1>2, <1>3, <1>4, <1>5 DEF Dataset

(* Those records one by one: the old places, then one for each op with results that was missing. *)
LEMMA MergedRecords ==
  ASSUME TypeOK, kernelsJson \in Dataset, NEW old, old = kernelsJson.kernels,
         NEW new, new = Merged.kernels
  PROVE  /\ old \in Seq(Record) /\ new \in Seq(Record) /\ Len(old) <= Len(new)
         /\ \A l \in 1 .. Len(old) :
              /\ new[l].example = old[l].example /\ new[l].times = old[l].times
              /\ new[l].multishape = WithResults(old[l])
         /\ \A l \in 1 .. Len(new) : l \notin 1 .. Len(old) =>
              \E t \in Missing(old) : new[l] = Blank(t)
         /\ \A t \in Missing(old) : \E l \in 1 .. Len(new) : new[l] = Blank(t)
         /\ \A k, l \in 1 .. Len(new) :
              k \notin 1 .. Len(old) /\ l \notin 1 .. Len(old) /\ new[k].example = new[l].example => k = l
<1>1. old \in Seq(Record)
  BY DEF Dataset
<1>2. PICK a : a = Attached(old)
  OBVIOUS
<1>3. PICK b : b = Appended(old)
  OBVIOUS
<1>4. /\ a \in Seq(Record) /\ Len(a) = Len(old)
      /\ \A l \in 1 .. Len(old) :
           /\ a[l].example = old[l].example /\ a[l].times = old[l].times
           /\ a[l].multishape = WithResults(old[l])
  BY <1>1, <1>2, AttachedFacts
<1>5. /\ b \in Seq(Record)
      /\ \A l \in 1 .. Len(b) : \E t \in Missing(old) : b[l] = Blank(t)
      /\ \A t \in Missing(old) : \E l \in 1 .. Len(b) : b[l] = Blank(t)
      /\ \A k, l \in 1 .. Len(b) : b[k].example = b[l].example => k = l
  BY <1>1, <1>3, AppendedFacts
<1>6. new = a \o b
  BY <1>2, <1>3, MergedFacts
<1>7. Len(a) \in Nat /\ Len(b) \in Nat /\ Len(old) \in Nat
  BY <1>1, <1>4, <1>5
<1>8. /\ new \in Seq(Record) /\ Len(new) = Len(a) + Len(b)
      /\ \A l \in 1 .. Len(a) + Len(b) : new[l] = IF l <= Len(a) THEN a[l] ELSE b[l - Len(a)]
  <2>1. a \in Seq(Record) /\ b \in Seq(Record)
    BY <1>4, <1>5
  <2>2. /\ a \o b \in Seq(Record) /\ Len(a \o b) = Len(a) + Len(b)
        /\ \A l \in 1 .. Len(a) + Len(b) : (a \o b)[l] = IF l <= Len(a) THEN a[l] ELSE b[l - Len(a)]
    BY <2>1, ConcatProperties
  <2> QED
    BY <1>6, <2>2
<1>9. \A l \in 1 .. Len(old) : l \in 1 .. Len(new) /\ new[l] = a[l]
  BY <1>4, <1>7, <1>8
<1>10. \A l \in 1 .. Len(new) : l \notin 1 .. Len(old) =>
         l - Len(a) \in 1 .. Len(b) /\ new[l] = b[l - Len(a)]
  BY <1>4, <1>7, <1>8
<1>11. \A j \in 1 .. Len(b) : Len(a) + j \in 1 .. Len(new) /\ new[Len(a) + j] = b[j]
  <2> SUFFICES ASSUME NEW j \in 1 .. Len(b)
               PROVE  Len(a) + j \in 1 .. Len(new) /\ new[Len(a) + j] = b[j]
    OBVIOUS
  <2>1. Len(a) + j \in 1 .. Len(a) + Len(b) /\ ~ (Len(a) + j <= Len(a)) /\ (Len(a) + j) - Len(a) = j
    BY <1>7
  <2> QED
    BY <1>8, <2>1
<1>12. \A l \in 1 .. Len(old) :
         /\ new[l].example = old[l].example /\ new[l].times = old[l].times
         /\ new[l].multishape = WithResults(old[l])
  BY <1>4, <1>9
<1>13. ASSUME NEW l \in 1 .. Len(new), l \notin 1 .. Len(old)
       PROVE  \E t \in Missing(old) : new[l] = Blank(t)
  <2>1. l - Len(a) \in 1 .. Len(b) /\ new[l] = b[l - Len(a)]
    BY <1>10, <1>13
  <2>2. PICK t \in Missing(old) : b[l - Len(a)] = Blank(t)
    BY <1>5, <2>1
  <2> QED
    BY <2>1, <2>2
<1>14. \A t \in Missing(old) : \E l \in 1 .. Len(new) : new[l] = Blank(t)
  <2> SUFFICES ASSUME NEW t \in Missing(old) PROVE \E l \in 1 .. Len(new) : new[l] = Blank(t)
    OBVIOUS
  <2>1. PICK j \in 1 .. Len(b) : b[j] = Blank(t)
    BY <1>5
  <2> QED
    BY <1>11, <2>1
<1>15. ASSUME NEW k \in 1 .. Len(new), NEW l \in 1 .. Len(new),
              k \notin 1 .. Len(old), l \notin 1 .. Len(old), new[k].example = new[l].example
       PROVE  k = l
  <2>1. k - Len(a) \in 1 .. Len(b) /\ l - Len(a) \in 1 .. Len(b)
    BY <1>10, <1>15
  <2>2. b[k - Len(a)].example = b[l - Len(a)].example
    BY <1>10, <1>15
  <2>3. k - Len(a) = l - Len(a)
    BY <1>5, <2>1, <2>2
  <2> QED
    BY <1>7, <2>3
<1>16. Len(old) <= Len(new)
  BY <1>4, <1>7, <1>8
<1> QED
  BY <1>1, <1>8, <1>12, <1>13, <1>14, <1>15, <1>16

-----------------------------------------------------------------------------
(* Types. *)

File == Dataset \cup {Torn}

(* Every variable keeps its type, over any sequence of measurements, programs and deaths. *)
THEOREM TypeCorrect == Spec => []TypeOK
<1>1. Init => TypeOK
  <2>1. NoTimes \in Times
    BY DEF NoTimes, Times, Number
  <2>2. 0 \in 0 .. MaxRuns /\ 0 \in 0 .. MaxDeaths
    BY DashboardAssumption
  <2> QED
    BY <2>1, <2>2 DEF Init, TypeOK
<1>2. TypeOK /\ [Next]_vars => TypeOK'
  <2> SUFFICES ASSUME TypeOK, [Next]_vars PROVE TypeOK'
    OBVIOUS
  <2>0. /\ runs \in 0 .. MaxRuns /\ deaths \in 0 .. MaxDeaths
        /\ swept \in [Test -> Times \cup {Torn}] /\ baselines \in [Test -> Times]
        /\ results \in [Op -> 0 .. MaxRuns] /\ master \in Seq(Row) \cup {Torn}
        /\ kernelsJson \in File /\ dataJs \in File /\ indexHtml \in File
        /\ step \in 1 .. 3 /\ through \in 0 .. 4
    BY DEF TypeOK, File
  <2>20. \A level \in 0 .. 4 : AtMost(level) \in 0 .. 4
    BY <2>0 DEF AtMost
  <2>21. ASSUME NEW level \in 0 .. 4, Measure(level)
        PROVE  /\ runs' \in 0 .. MaxRuns /\ {runs'} \in Number /\ through' \in 0 .. 4
               /\ program = "none"
               /\ UNCHANGED <<deaths, master, kernelsJson, dataJs, indexHtml, program, step>>
    <3>1. runs' = runs + 1 /\ runs < MaxRuns /\ through' = AtMost(level)
      BY <2>21 DEF Measure
    <3>2. runs' \in 1 .. Hand /\ runs' \in 0 .. MaxRuns
      BY <2>0, <3>1, HandType DEF Hand
    <3> QED
      BY <2>20, <2>21, <3>1, <3>2 DEF Measure, files, Number
  <2>1. ASSUME NEW t \in Test, Sweep(t) PROVE TypeOK'
    <3>1. PICK f \in {{}, {runs'}}, b \in {{}, {runs'}} :
            swept' = [swept EXCEPT ![t] = [flydsl_us |-> f, baseline_us |-> b, speedup |-> {}]]
      BY <2>1 DEF Sweep
    <3>2. Measure(0) /\ UNCHANGED <<baselines, results>>
      BY <2>1 DEF Sweep
    <3>3. [flydsl_us |-> f, baseline_us |-> b, speedup |-> {}] \in Times
      <4>1. {} \in Number /\ {runs'} \in Number
        BY <2>21, <3>2 DEF Number
      <4> QED
        BY <4>1 DEF Times
    <3>4. swept' \in [Test -> Times \cup {Torn}]
      BY <2>0, <3>1, <3>3
    <3> QED
      BY <2>0, <2>21, <3>2, <3>4 DEF TypeOK, File
  <2>2. ASSUME NEW t \in Test, MeasureBaseline(t) PROVE TypeOK'
    <3>1. Measure(1) /\ UNCHANGED <<swept, results>>
      BY <2>2 DEF MeasureBaseline
    <3>2. [flydsl_us |-> {runs'}, baseline_us |-> {runs'}, speedup |-> {runs'}] \in Times
      BY <2>21, <3>1 DEF Times
    <3>3. baselines' \in [Test -> Times]
      BY <2>0, <2>2, <3>2 DEF MeasureBaseline
    <3> QED
      BY <2>0, <2>21, <3>1, <3>3 DEF TypeOK, File
  <2>3. ASSUME NEW o \in Op, Benchmark(o) PROVE TypeOK'
    <3>1. Measure(2) /\ UNCHANGED <<swept, baselines>>
      BY <2>3 DEF Benchmark
    <3>2. results' \in [Op -> 0 .. MaxRuns]
      BY <2>0, <2>3, <2>21, <3>1 DEF Benchmark
    <3> QED
      BY <2>0, <2>21, <3>1, <3>2 DEF TypeOK, File
  <2>22. ASSUME NEW p \in {"consolidate", "export", "merge", "build"}, NEW d, Begin(p, d)
        PROVE  /\ program' = p /\ step' = 1 /\ data' = d /\ through' \in 0 .. 4
               /\ UNCHANGED <<runs, swept, baselines, results, deaths>>
    <3>1. Rank[p] - 1 \in 0 .. 4
      BY DEF Rank
    <3> QED
      BY <2>20, <2>22, <3>1 DEF Begin, inputs
  <2>4. CASE Consolidate
    <3>1. Consolidated \in Seq(Row)
      BY ConsolidatedFacts
    <3>2. Begin("consolidate", Consolidated) /\ master' = Torn
          /\ UNCHANGED <<kernelsJson, dataJs, indexHtml>>
      BY <2>4 DEF Consolidate
    <3> QED
      BY <2>0, <2>22, <3>1, <3>2 DEF TypeOK, File
  <2>5. CASE Export
    <3>1. master \in Seq(Row)
      BY <2>0, <2>5 DEF Export
    <3>2. Exported \in Dataset
      BY <3>1, ExportedFacts
    <3>3. Begin("export", Exported) /\ kernelsJson' = Torn /\ UNCHANGED <<master, dataJs, indexHtml>>
      BY <2>5 DEF Export
    <3> QED
      BY <2>0, <2>22, <3>2, <3>3 DEF TypeOK, File
  <2>6. CASE Merge
    <3>1. kernelsJson \in Dataset
      BY <2>0, <2>6 DEF Merge, File
    <3>2. Merged \in Dataset
      BY <3>1, MergedFacts
    <3>3. Begin("merge", Merged) /\ kernelsJson' = Torn /\ UNCHANGED <<master, dataJs, indexHtml>>
      BY <2>6 DEF Merge
    <3> QED
      BY <2>0, <2>22, <3>2, <3>3 DEF TypeOK, File
  <2>7. CASE Build
    <3>1. kernelsJson \in Dataset
      BY <2>0, <2>7 DEF Build, File
    <3>2. Begin("build", kernelsJson) /\ indexHtml' = Torn /\ UNCHANGED <<master, kernelsJson, dataJs>>
      BY <2>7 DEF Build
    <3> QED
      BY <2>0, <2>22, <3>1, <3>2 DEF TypeOK, File
  <2>8. CASE CloseKernels
    <3>1. data \in Dataset
      BY <2>8 DEF CloseKernels, TypeOK
    <3> QED
      BY <2>0, <2>8, <3>1 DEF CloseKernels, inputs, TypeOK, File
  <2>9. CASE OpenDataJs
    BY <2>0, <2>9 DEF OpenDataJs, inputs, TypeOK, File
  <2>10. CASE End
    <3>1. /\ program = "consolidate" => data \in Seq(Row)
          /\ program \in {"export", "merge", "build"} => data \in Dataset
      BY DEF TypeOK
    <3>2. through' \in 0 .. 4
      BY <2>0, <2>10 DEF End, Rank
    <3>3. program' = "none" /\ step' = 1
      BY <2>10 DEF End
    <3>4. /\ master' \in Seq(Row) \cup {Torn}
          /\ kernelsJson' \in File /\ dataJs' \in File /\ indexHtml' \in File
      BY <2>0, <2>10, <3>1 DEF End, File
    <3> QED
      BY <2>0, <2>10, <3>2, <3>3, <3>4 DEF End, inputs, TypeOK, File
  <2>11. CASE Die
    <3>1. deaths' \in 0 .. MaxDeaths
      BY <2>0, <2>11, DashboardAssumption DEF Die
    <3> QED
      BY <2>0, <2>20, <2>11, <3>1 DEF Die, inputs, files, TypeOK, File
  <2>12. CASE UNCHANGED vars
    BY <2>0, <2>12 DEF vars, inputs, files, TypeOK, File
  <2> QED
    BY <2>1, <2>2, <2>3, <2>4, <2>5, <2>6, <2>7, <2>8, <2>9, <2>10, <2>11, <2>12 DEF Next
<1> QED
  BY <1>1, <1>2, PTL DEF Spec

-----------------------------------------------------------------------------
(***************************************************************************)
(* One measurement.  A result file, a row and a record hold numbers of one *)
(* measurement only, because a record of baselines.json has all three, and *)
(* then none is taken from the sweep.                                      *)
(***************************************************************************)
Single(times) ==
  \E n \in 1 .. Hand :
    times.flydsl_us \subseteq {n} /\ times.baseline_us \subseteq {n} /\ times.speedup \subseteq {n}

Complete3(n) == [flydsl_us |-> {n}, baseline_us |-> {n}, speedup |-> {n}]

AllSingle(q) == \A l \in 1 .. Len(q) : Single(q[l].times)

SweptSingle    == \A t \in Test : swept[t] # Torn => Single(swept[t])
BaselinesWhole == \A t \in Test : baselines[t] = NoTimes \/ \E n \in 1 .. Hand : baselines[t] = Complete3(n)
MasterSingle   == master # Torn => AllSingle(master)
FilesSingle    == \A file \in {kernelsJson, dataJs, indexHtml} : file # Torn => AllSingle(file.kernels)
DataSingle     == /\ program = "consolidate" => AllSingle(data)
                  /\ program \in {"export", "merge", "build"} => AllSingle(data.kernels)

SingleInv == SweptSingle /\ BaselinesWhole /\ MasterSingle /\ FilesSingle /\ DataSingle

LEMMA NoTimesSingle == Single(NoTimes)
BY HandType DEF Single, NoTimes

LEMMA SeenSingle ==
  ASSUME TypeOK, SweptSingle, NEW t \in Listed
  PROVE  Single(Seen(t))
<1>1. CASE t \in Patched
  BY <1>1, HandType DEF Seen, Quotient, Single
<1>2. CASE t \notin Patched
  <2>1. PICK n \in 1 .. Hand :
          /\ swept[t].flydsl_us \subseteq {n} /\ swept[t].baseline_us \subseteq {n}
    BY <1>2 DEF Listed, SweptSingle, Single
  <2> QED
    BY <1>2, <2>1 DEF Seen, Quotient, Single
<1> QED
  BY <1>1, <1>2

LEMMA JoinedSingle ==
  ASSUME NEW r, Single(r), NEW b, b = NoTimes \/ \E n \in 1 .. Hand : b = Complete3(n)
  PROVE  Single(Joined(r, b))
<1>1. CASE b = NoTimes
  <2>1. PICK n \in 1 .. Hand : r.flydsl_us \subseteq {n} /\ r.baseline_us \subseteq {n} /\ r.speedup \subseteq {n}
    BY DEF Single
  <2> QED
    BY <1>1, <2>1 DEF Joined, Or, Quotient, NoTimes, Single
<1>2. CASE \E n \in 1 .. Hand : b = Complete3(n)
  <2>1. PICK n \in 1 .. Hand : b = Complete3(n)
    BY <1>2
  <2>2. Joined(r, b) = Complete3(n)
    BY <2>1 DEF Joined, Or, Complete3
  <2> QED
    BY <2>2 DEF Single, Complete3
<1> QED
  BY <1>1, <1>2

LEMMA MergedSingle ==
  ASSUME TypeOK, kernelsJson \in Dataset, AllSingle(kernelsJson.kernels)
  PROVE  AllSingle(Merged.kernels)
<1>1. PICK old : old = kernelsJson.kernels
  OBVIOUS
<1>2. PICK new : new = Merged.kernels
  OBVIOUS
<1> SUFFICES ASSUME NEW l \in 1 .. Len(new) PROVE Single(new[l].times)
  BY <1>2 DEF AllSingle
<1>3. CASE l \in 1 .. Len(old)
  <2>1. new[l].times = old[l].times
    BY <1>1, <1>2, <1>3, MergedRecords
  <2> QED
    BY <1>1, <1>3, <2>1 DEF AllSingle
<1>4. CASE l \notin 1 .. Len(old)
  <2>1. PICK t \in Missing(old) : new[l] = Blank(t)
    BY <1>1, <1>2, <1>4, MergedRecords
  <2>2. new[l].times = NoTimes
    BY <2>1 DEF Blank
  <2> QED
    BY <2>2, NoTimesSingle
<1> QED
  BY <1>3, <1>4

LEMMA ConsolidatedSingle == ASSUME TypeOK, SweptSingle PROVE AllSingle(Consolidated)
BY ConsolidatedFacts, SeenSingle DEF AllSingle

LEMMA ExportedSingle ==
  ASSUME TypeOK, master \in Seq(Row), AllSingle(master), BaselinesWhole
  PROVE  AllSingle(Exported.kernels)
<1> SUFFICES ASSUME NEW l \in 1 .. Len(Exported.kernels) PROVE Single(Exported.kernels[l].times)
  BY DEF AllSingle
<1>1. /\ l \in 1 .. Len(master)
      /\ Exported.kernels[l].times = Joined(master[l].times, baselines[master[l].test])
  BY ExportedFacts
<1>2. master[l] \in Row
  BY <1>1
<1>3. master[l].test \in Test
  BY <1>2 DEF Row
<1>4. Single(master[l].times)
  BY <1>1 DEF AllSingle
<1> QED
  BY <1>1, <1>3, <1>4, JoinedSingle DEF BaselinesWhole

(* No number is a mixture, in any file or program, whatever was killed and measured before. *)
THEOREM SingleInvariance == Spec => []SingleInv
<1>1. Init => SingleInv
  BY DEF Init, SingleInv, SweptSingle, BaselinesWhole, MasterSingle, FilesSingle, DataSingle
<1>2. TypeOK /\ TypeOK' /\ SingleInv /\ [Next]_vars => SingleInv'
  <2> SUFFICES ASSUME TypeOK, TypeOK', SingleInv, [Next]_vars PROVE SingleInv'
    OBVIOUS
  <2>0. SweptSingle /\ BaselinesWhole /\ MasterSingle /\ FilesSingle /\ DataSingle
    BY DEF SingleInv
  <2>20. ASSUME NEW level \in 0 .. 4, Measure(level)
         PROVE  runs' \in 1 .. Hand /\ MasterSingle' /\ FilesSingle' /\ DataSingle'
    <3>1. UNCHANGED <<master, kernelsJson, dataJs, indexHtml, program>> /\ program = "none"
      BY <2>20 DEF Measure, files
    <3>2. runs' \in 1 .. Hand
      BY <2>20, HandType DEF Measure, TypeOK, Hand
    <3>3. MasterSingle' /\ FilesSingle' /\ DataSingle'
      BY <2>0, <3>1 DEF MasterSingle, FilesSingle, DataSingle
    <3> QED
      BY <3>2, <3>3
  <2>1. ASSUME NEW t \in Test, Sweep(t) PROVE SingleInv'
    <3>1. PICK f \in {{}, {runs'}}, b \in {{}, {runs'}} :
            swept' = [swept EXCEPT ![t] = [flydsl_us |-> f, baseline_us |-> b, speedup |-> {}]]
      BY <2>1 DEF Sweep
    <3>2. Measure(0) /\ UNCHANGED baselines
      BY <2>1 DEF Sweep
    <3>3. runs' \in 1 .. Hand /\ MasterSingle' /\ FilesSingle' /\ DataSingle'
      BY <2>20, <3>2
    <3>4. Single([flydsl_us |-> f, baseline_us |-> b, speedup |-> {}])
      BY <3>3 DEF Single
    <3>5. swept \in [Test -> Times \cup {Torn}]
      BY DEF TypeOK
    <3>6. SweptSingle'
      BY <2>0, <3>1, <3>4, <3>5 DEF SweptSingle
    <3>7. BaselinesWhole'
      BY <2>0, <3>2 DEF BaselinesWhole
    <3> QED
      BY <3>3, <3>6, <3>7 DEF SingleInv
  <2>2. ASSUME NEW t \in Test, MeasureBaseline(t) PROVE SingleInv'
    <3>1. Measure(1) /\ UNCHANGED swept
      BY <2>2 DEF MeasureBaseline
    <3>2. baselines' = [baselines EXCEPT ![t] = Complete3(runs')]
      BY <2>2 DEF MeasureBaseline, Complete3
    <3>3. runs' \in 1 .. Hand /\ MasterSingle' /\ FilesSingle' /\ DataSingle'
      BY <2>20, <3>1
    <3>4. baselines \in [Test -> Times]
      BY DEF TypeOK
    <3>5. BaselinesWhole'
      BY <2>0, <3>2, <3>3, <3>4 DEF BaselinesWhole
    <3>6. SweptSingle'
      BY <2>0, <3>1 DEF SweptSingle
    <3> QED
      BY <3>3, <3>5, <3>6 DEF SingleInv
  <2>3. ASSUME NEW o \in Op, Benchmark(o) PROVE SingleInv'
    <3>1. Measure(2) /\ UNCHANGED <<swept, baselines>>
      BY <2>3 DEF Benchmark
    <3>2. MasterSingle' /\ FilesSingle' /\ DataSingle'
      BY <2>20, <3>1
    <3>3. SweptSingle' /\ BaselinesWhole'
      BY <2>0, <3>1 DEF SweptSingle, BaselinesWhole
    <3> QED
      BY <3>2, <3>3 DEF SingleInv
  <2>21. ASSUME NEW p, NEW d, Begin(p, d) PROVE SweptSingle' /\ BaselinesWhole' /\ program' = p /\ data' = d
    BY <2>0, <2>21 DEF Begin, inputs, SweptSingle, BaselinesWhole
  <2>4. CASE Consolidate
    <3>1. Begin("consolidate", Consolidated) /\ master' = Torn /\ UNCHANGED <<kernelsJson, dataJs, indexHtml>>
      BY <2>4 DEF Consolidate
    <3>2. AllSingle(Consolidated)
      BY <2>0, ConsolidatedSingle
    <3>3. MasterSingle' /\ FilesSingle' /\ DataSingle'
      BY <2>0, <2>21, <3>1, <3>2 DEF MasterSingle, FilesSingle, DataSingle, AllSingle
    <3> QED
      BY <2>21, <3>1, <3>3 DEF SingleInv
  <2>5. CASE Export
    <3>1. /\ Begin("export", Exported) /\ kernelsJson' = Torn /\ UNCHANGED <<master, dataJs, indexHtml>>
          /\ master # Torn
      BY <2>5 DEF Export
    <3>2. AllSingle(Exported.kernels)
      BY <2>0, <3>1, ExportedSingle DEF TypeOK, MasterSingle
    <3>3. MasterSingle' /\ FilesSingle' /\ DataSingle'
      BY <2>0, <2>21, <3>1, <3>2 DEF MasterSingle, FilesSingle, DataSingle, AllSingle
    <3> QED
      BY <2>21, <3>1, <3>3 DEF SingleInv
  <2>6. CASE Merge
    <3>1. /\ Begin("merge", Merged) /\ kernelsJson' = Torn /\ UNCHANGED <<master, dataJs, indexHtml>>
          /\ kernelsJson # Torn
      BY <2>6 DEF Merge
    <3>2. AllSingle(Merged.kernels)
      BY <2>0, <3>1, MergedSingle DEF TypeOK, FilesSingle
    <3>3. MasterSingle' /\ FilesSingle' /\ DataSingle'
      BY <2>0, <2>21, <3>1, <3>2 DEF MasterSingle, FilesSingle, DataSingle, AllSingle
    <3> QED
      BY <2>21, <3>1, <3>3 DEF SingleInv
  <2>7. CASE Build
    <3>1. /\ Begin("build", kernelsJson) /\ indexHtml' = Torn /\ UNCHANGED <<master, kernelsJson, dataJs>>
          /\ kernelsJson # Torn
      BY <2>7 DEF Build
    <3>2. MasterSingle' /\ FilesSingle' /\ DataSingle'
      BY <2>0, <2>21, <3>1 DEF MasterSingle, FilesSingle, DataSingle, AllSingle
    <3> QED
      BY <2>21, <3>1, <3>2 DEF SingleInv
  <2>8. CASE CloseKernels
    BY <2>0, <2>8 DEF CloseKernels, inputs, SingleInv, SweptSingle, BaselinesWhole, MasterSingle,
      FilesSingle, DataSingle, AllSingle
  <2>9. CASE OpenDataJs
    BY <2>0, <2>9 DEF OpenDataJs, inputs, SingleInv, SweptSingle, BaselinesWhole, MasterSingle,
      FilesSingle, DataSingle, AllSingle
  <2>10. CASE End
    BY <2>0, <2>10 DEF End, inputs, SingleInv, SweptSingle, BaselinesWhole, MasterSingle,
      FilesSingle, DataSingle, AllSingle
  <2>11. CASE Die
    BY <2>0, <2>11 DEF Die, inputs, files, SingleInv, SweptSingle, BaselinesWhole, MasterSingle,
      FilesSingle, DataSingle, AllSingle
  <2>12. CASE UNCHANGED vars
    BY <2>0, <2>12 DEF vars, inputs, files, SingleInv, SweptSingle, BaselinesWhole, MasterSingle,
      FilesSingle, DataSingle, AllSingle
  <2> QED
    BY <2>1, <2>2, <2>3, <2>4, <2>5, <2>6, <2>7, <2>8, <2>9, <2>10, <2>11, <2>12 DEF Next
<1> QED
  BY <1>1, <1>2, TypeCorrect, PTL DEF Spec

(* The speedup of a record is of the times beside it, in every file and at any moment. *)
THEOREM SpeedupIsOfItsTimes == Spec => []OneMeasurementPerRecord
<1>1. TypeOK /\ SingleInv => OneMeasurementPerRecord
  <2> SUFFICES ASSUME TypeOK, SingleInv, NEW file \in {kernelsJson, dataJs, indexHtml}, file # Torn,
                      NEW l \in DOMAIN file.kernels, file.kernels[l].times.speedup # {}
               PROVE  Cardinality(file.kernels[l].times.flydsl_us \cup file.kernels[l].times.baseline_us
                                    \cup file.kernels[l].times.speedup) = 1
    BY DEF OneMeasurementPerRecord
  <2>1. file.kernels \in Seq(Record)
    BY DEF TypeOK, Dataset
  <2>2. Single(file.kernels[l].times)
    BY <2>1 DEF SingleInv, FilesSingle, AllSingle
  <2> DEFINE times == file.kernels[l].times
  <2>3. PICK n \in 1 .. Hand :
          times.flydsl_us \subseteq {n} /\ times.baseline_us \subseteq {n} /\ times.speedup \subseteq {n}
    BY <2>2 DEF Single
  <2>4. times.flydsl_us \cup times.baseline_us \cup times.speedup = {n}
    BY <2>3
  <2> QED
    BY <2>4, FS_Singleton
<1> QED
  BY <1>1, TypeCorrect, SingleInvariance, PTL

-----------------------------------------------------------------------------
(***************************************************************************)
(* One record.  A row of the sweep has its test for itself, and so does an *)
(* exported record.  A merge adds a record under the op's name only when   *)
(* none has the example's, and no op has the name of another example.      *)
(***************************************************************************)
RowsOnce(q) == \A k, l \in 1 .. Len(q) : q[k].test = q[l].test => k = l

OpOnce(q) ==
  \A t \in Test : MS_OPS[t] = t \/ (\E j \in 1 .. Len(q) : q[j].example = t) =>
    \A k, l \in 1 .. Len(q) :
      q[k].example \in {t, MS_OPS[t]} /\ q[l].example \in {t, MS_OPS[t]} => k = l

MasterOnce  == master # Torn => RowsOnce(master)
KernelsOnce == kernelsJson # Torn => OpOnce(kernelsJson.kernels)
DataOnce    == /\ program = "consolidate" => RowsOnce(data)
               /\ program \in {"export", "merge"} => OpOnce(data.kernels)

OnceInv == MasterOnce /\ KernelsOnce /\ DataOnce

(* An op's name is its example's or no example's. *)
LEMMA Names ==
  ASSUME NEW t \in Test, NEW u \in Test, MS_OPS[u] \in {t, MS_OPS[t]}
  PROVE  u = t
BY Orders, DashboardAssumption

LEMMA ConsolidatedOnce == ASSUME TypeOK PROVE RowsOnce(Consolidated)
BY ConsolidatedFacts DEF RowsOnce

LEMMA ExportedOnce ==
  ASSUME TypeOK, master \in Seq(Row), RowsOnce(master)
  PROVE  OpOnce(Exported.kernels)
<1>1. PICK q : q = Exported.kernels
  OBVIOUS
<1>2. Len(q) = Len(master) /\ \A l \in 1 .. Len(q) : q[l].example = master[l].test
  BY <1>1, ExportedFacts
<1>3. \A l \in 1 .. Len(q) : master[l] \in Row
  BY <1>2
<1>4. ASSUME NEW t \in Test, NEW l \in 1 .. Len(q), q[l].example \in {t, MS_OPS[t]}
      PROVE  master[l].test = t
  <2>1. master[l].test \in Test /\ q[l].example = master[l].test
    BY <1>2, <1>3 DEF Row
  <2> QED
    BY <1>4, <2>1, DashboardAssumption
<1>5. ASSUME NEW t \in Test, NEW k \in 1 .. Len(q), NEW l \in 1 .. Len(q),
             q[k].example \in {t, MS_OPS[t]}, q[l].example \in {t, MS_OPS[t]}
      PROVE  k = l
  BY <1>2, <1>4, <1>5 DEF RowsOnce
<1>6. OpOnce(q)
  BY <1>5 DEF OpOnce
<1> QED
  BY <1>1, <1>6

LEMMA MergedOnce ==
  ASSUME TypeOK, kernelsJson \in Dataset, OpOnce(kernelsJson.kernels)
  PROVE  OpOnce(Merged.kernels)
<1>1. PICK old : old = kernelsJson.kernels
  OBVIOUS
<1>2. PICK new : new = Merged.kernels
  OBVIOUS
<1>3. /\ old \in Seq(Record) /\ Len(old) \in Nat
      /\ \A l \in 1 .. Len(old) : new[l].example = old[l].example
      /\ \A l \in 1 .. Len(new) : l \notin 1 .. Len(old) =>
           \E t \in Missing(old) : new[l] = Blank(t)
      /\ \A k, l \in 1 .. Len(new) :
           k \notin 1 .. Len(old) /\ l \notin 1 .. Len(old) /\ new[k].example = new[l].example => k = l
  BY <1>1, <1>2, MergedRecords
<1>4. OpOnce(old)
  BY <1>1
<1> SUFFICES ASSUME NEW t \in Test, MS_OPS[t] = t \/ \E j \in 1 .. Len(new) : new[j].example = t,
                    NEW k \in 1 .. Len(new), NEW l \in 1 .. Len(new),
                    new[k].example \in {t, MS_OPS[t]}, new[l].example \in {t, MS_OPS[t]}
             PROVE  k = l
  BY <1>2 DEF OpOnce
<1>5. ASSUME NEW j \in 1 .. Len(new), j \notin 1 .. Len(old), new[j].example \in {t, MS_OPS[t]}
      PROVE  t \in Missing(old) /\ new[j].example = MS_OPS[t]
  <2>1. PICK u \in Missing(old) : new[j] = Blank(u)
    BY <1>3, <1>5
  <2>2. u \in Test /\ new[j].example = MS_OPS[u]
    BY <2>1 DEF Missing, Blank
  <2>3. u = t
    BY <1>5, <2>2, Names
  <2> QED
    BY <2>1, <2>2, <2>3
<1>6. t \in Missing(old) => \A j \in 1 .. Len(old) : old[j].example # t
  BY <1>3 DEF Missing
<1>7. MS_OPS[t] = t \/ \E j \in 1 .. Len(old) : old[j].example = t
  <2> SUFFICES ASSUME NEW j \in 1 .. Len(new), new[j].example = t
               PROVE  MS_OPS[t] = t \/ \E i \in 1 .. Len(old) : old[i].example = t
    OBVIOUS
  <2>1. CASE j \in 1 .. Len(old)
    BY <1>3, <2>1
  <2>2. CASE j \notin 1 .. Len(old)
    BY <1>5, <2>2
  <2> QED
    BY <2>1, <2>2
<1>8. ASSUME NEW i \in 1 .. Len(old), old[i].example \in {t, MS_OPS[t]}, t \in Missing(old)
      PROVE  FALSE
  BY <1>6, <1>7, <1>8
<1>9. CASE k \in 1 .. Len(old) /\ l \in 1 .. Len(old)
  <2>1. old[k].example \in {t, MS_OPS[t]} /\ old[l].example \in {t, MS_OPS[t]}
    BY <1>3, <1>9
  <2> QED
    BY <1>4, <1>7, <1>9, <2>1 DEF OpOnce
<1>10. CASE k \in 1 .. Len(old) /\ l \notin 1 .. Len(old)
  <2>1. old[k].example \in {t, MS_OPS[t]}
    BY <1>3, <1>10
  <2>2. t \in Missing(old)
    BY <1>5, <1>10
  <2> QED
    BY <1>8, <1>10, <2>1, <2>2
<1>11. CASE k \notin 1 .. Len(old) /\ l \in 1 .. Len(old)
  <2>1. old[l].example \in {t, MS_OPS[t]}
    BY <1>3, <1>11
  <2>2. t \in Missing(old)
    BY <1>5, <1>11
  <2> QED
    BY <1>8, <1>11, <2>1, <2>2
<1>12. CASE k \notin 1 .. Len(old) /\ l \notin 1 .. Len(old)
  <2>1. new[k].example = MS_OPS[t] /\ new[l].example = MS_OPS[t]
    BY <1>5, <1>12
  <2> QED
    BY <1>3, <1>12, <2>1
<1> QED
  BY <1>9, <1>10, <1>11, <1>12

(* An op has one record, in the file and in what a program is about to write. *)
THEOREM OnceInvariance == Spec => []OnceInv
<1>1. Init => OnceInv
  BY DEF Init, OnceInv, MasterOnce, KernelsOnce, DataOnce
<1>2. TypeOK /\ OnceInv /\ [Next]_vars => OnceInv'
  <2> SUFFICES ASSUME TypeOK, OnceInv, [Next]_vars PROVE OnceInv'
    OBVIOUS
  <2>0. MasterOnce /\ KernelsOnce /\ DataOnce
    BY DEF OnceInv
  <2>1. ASSUME NEW level, Measure(level) PROVE OnceInv'
    <3>1. UNCHANGED <<master, kernelsJson, program>> /\ program = "none"
      BY <2>1 DEF Measure, files
    <3> QED
      BY <2>0, <3>1 DEF OnceInv, MasterOnce, KernelsOnce, DataOnce
  <2>2. ASSUME NEW t \in Test, Sweep(t) \/ MeasureBaseline(t) PROVE OnceInv'
    BY <2>1, <2>2 DEF Sweep, MeasureBaseline
  <2>3. ASSUME NEW o \in Op, Benchmark(o) PROVE OnceInv'
    BY <2>1, <2>3 DEF Benchmark
  <2>4. CASE Consolidate
    <3>1. program' = "consolidate" /\ data' = Consolidated /\ master' = Torn /\ UNCHANGED kernelsJson
      BY <2>4 DEF Consolidate, Begin
    <3>2. RowsOnce(Consolidated)
      BY ConsolidatedOnce
    <3> QED
      BY <2>0, <3>1, <3>2 DEF OnceInv, MasterOnce, KernelsOnce, DataOnce, RowsOnce
  <2>5. CASE Export
    <3>1. /\ program' = "export" /\ data' = Exported /\ kernelsJson' = Torn /\ UNCHANGED master
          /\ master # Torn
      BY <2>5 DEF Export, Begin
    <3>2. OpOnce(Exported.kernels)
      BY <2>0, <3>1, ExportedOnce DEF MasterOnce, TypeOK
    <3> QED
      BY <2>0, <3>1, <3>2 DEF OnceInv, MasterOnce, KernelsOnce, DataOnce, RowsOnce, OpOnce
  <2>6. CASE Merge
    <3>1. /\ program' = "merge" /\ data' = Merged /\ kernelsJson' = Torn /\ UNCHANGED master
          /\ kernelsJson # Torn
      BY <2>6 DEF Merge, Begin
    <3>2. OpOnce(Merged.kernels)
      BY <2>0, <3>1, MergedOnce DEF KernelsOnce, TypeOK
    <3> QED
      BY <2>0, <3>1, <3>2 DEF OnceInv, MasterOnce, KernelsOnce, DataOnce, RowsOnce, OpOnce
  <2>7. CASE Build
    BY <2>0, <2>7 DEF Build, Begin, OnceInv, MasterOnce, KernelsOnce, DataOnce
  <2>8. CASE CloseKernels
    BY <2>0, <2>8 DEF CloseKernels, OnceInv, MasterOnce, KernelsOnce, DataOnce, RowsOnce, OpOnce
  <2>9. CASE OpenDataJs
    BY <2>0, <2>9 DEF OpenDataJs, OnceInv, MasterOnce, KernelsOnce, DataOnce, RowsOnce, OpOnce
  <2>10. CASE End
    BY <2>0, <2>10 DEF End, OnceInv, MasterOnce, KernelsOnce, DataOnce, RowsOnce, OpOnce
  <2>11. CASE Die
    BY <2>0, <2>11 DEF Die, files, OnceInv, MasterOnce, KernelsOnce, DataOnce
  <2>12. CASE UNCHANGED vars
    BY <2>0, <2>12 DEF vars, files, OnceInv, MasterOnce, KernelsOnce, DataOnce, RowsOnce, OpOnce
  <2> QED
    BY <2>2, <2>3, <2>4, <2>5, <2>6, <2>7, <2>8, <2>9, <2>10, <2>11, <2>12 DEF Next
<1> QED
  BY <1>1, <1>2, TypeCorrect, PTL DEF Spec

(* A set without two elements. *)
LEMMA AtMostOne ==
  ASSUME NEW S, \A x, y \in S : x = y
  PROVE  IsFiniteSet(S) /\ Cardinality(S) <= 1
<1>1. CASE S = {}
  BY <1>1, FS_EmptySet
<1>2. CASE S # {}
  <2>1. PICK x \in S : TRUE
    BY <1>2
  <2>2. S = {x}
    BY <2>1
  <2>3. IsFiniteSet({x}) /\ Cardinality({x}) = 1
    BY FS_Singleton
  <2> QED
    BY <2>2, <2>3
<1> QED
  BY <1>1, <1>2

(* No op gets a second record from merging again, in any order with the other programs. *)
THEOREM OpsAreRecordedOnce == Spec => []OneRecordPerOp
<1>1. TypeOK /\ OnceInv => OneRecordPerOp
  <2> SUFFICES ASSUME TypeOK, OnceInv, kernelsJson # Torn, NEW t \in Test, NEW q, q = kernelsJson.kernels,
                      NEW its, its = {l \in DOMAIN q : q[l].example \in {t, MS_OPS[t]}},
                      MS_OPS[t] = t \/ \E l \in its : q[l].example = t
               PROVE  Cardinality(its) <= 1
    BY DEF OneRecordPerOp
  <2>1. q \in Seq(Record)
    BY DEF TypeOK, Dataset
  <2>2. DOMAIN q = 1 .. Len(q)
    BY <2>1
  <2>3. OpOnce(q)
    BY DEF OnceInv, KernelsOnce
  <2>4. MS_OPS[t] = t \/ \E j \in 1 .. Len(q) : q[j].example = t
    BY <2>2
  <2>5. \A k, l \in its : k = l
    BY <2>2, <2>3, <2>4 DEF OpOnce
  <2> QED
    BY <2>5, AtMostOne
<1> QED
  BY <1>1, TypeCorrect, OnceInvariance, PTL

-----------------------------------------------------------------------------
(***************************************************************************)
(* The way through.  What each program leaves is compared with what there  *)
(* is now: the tests with numbers, their latest numbers and the results by *)
(* op.                                                                     *)
(***************************************************************************)
Now == [listed |-> Listed, latest |-> [t \in Listed |-> Latest(t)], results |-> results]

(* Every listed test has a record, with its latest numbers; other records
   were appended; and no op has a block that has no results. *)
Rebuilt(q, now) ==
  /\ \A l \in 1 .. Len(q) :
       \/ q[l].example \in now.listed /\ q[l].times = now.latest[q[l].example]
       \/ \E t \in Test \ now.listed : /\ q[l].example = MS_OPS[t] /\ q[l].times = NoTimes
                                       /\ now.results[MS_OPS[t]] # 0
  /\ \A t \in now.listed : \E l \in 1 .. Len(q) : q[l].example = t
  /\ \A l \in 1 .. Len(q) :
       q[l].example \in Test /\ q[l].multishape # 0 => now.results[MS_OPS[q[l].example]] # 0

(* Every block is the latest, and no op with results is missing. *)
MergedIn(q, now) ==
  /\ \A l \in 1 .. Len(q) :
       q[l].example \in Test => q[l].multishape = now.results[MS_OPS[q[l].example]]
  /\ \A t \in Test \ now.listed : now.results[MS_OPS[t]] # 0 =>
       \E l \in 1 .. Len(q) :
         q[l] = [example |-> MS_OPS[t], times |-> NoTimes, multishape |-> now.results[MS_OPS[t]]]

Fresh(file, now)   == file \in Dataset /\ Rebuilt(file.kernels, now)
Current(file, now) == Fresh(file, now) /\ MergedIn(file.kernels, now)
                        /\ file.multishape_summary = WithBlock(file.kernels)

Stages ==
  /\ program = "consolidate" => through = 0 /\ data = Consolidated
  /\ program = "export" => through <= 1
  /\ program = "merge" => through <= 2
  /\ program = "build" => through <= 3 /\ data = kernelsJson
  /\ program \in {"export", "merge"} /\ step # 1 => kernelsJson = data

MasterCurrent == through >= 1 => master = Consolidated
ExportFresh   == program = "export" /\ through = 1 => Fresh(data, Now)
KernelsFresh  == through >= 2 /\ program \in {"none", "build"} => Fresh(kernelsJson, Now)
MergeCurrent  == program = "merge" /\ through = 2 => Current(data, Now)
FilesCurrent  == through >= 3 => Current(kernelsJson, Now) /\ dataJs = kernelsJson
PageCurrent   == through = 4 => program = "none" /\ indexHtml = kernelsJson

CurrentInv ==
  /\ Stages /\ MasterCurrent /\ ExportFresh /\ KernelsFresh
  /\ MergeCurrent /\ FilesCurrent /\ PageCurrent

(* The numbers that an export takes are the latest. *)
LEMMA JoinedLatest ==
  ASSUME TypeOK, SweptSingle, BaselinesWhole, NEW t \in Listed
  PROVE  Joined(Seen(t), baselines[t]) = Latest(t)
<1>1. t \in Test
  BY DEF Listed
<1>2. CASE baselines[t] # NoTimes
  <2>1. PICK n \in 1 .. Hand : baselines[t] = Complete3(n)
    BY <1>1, <1>2 DEF BaselinesWhole
  <2>2. Joined(Seen(t), baselines[t]) = Complete3(n)
    BY <2>1 DEF Joined, Or, Complete3
  <2> QED
    BY <1>2, <2>1, <2>2 DEF Latest
<1>3. CASE baselines[t] = NoTimes /\ t \in Patched
  BY <1>3 DEF Latest, Joined, Seen, Or, Quotient, NoTimes
<1>4. CASE baselines[t] = NoTimes /\ t \notin Patched
  <2>1. PICK f, b, s : swept[t] = [flydsl_us |-> f, baseline_us |-> b, speedup |-> s]
    BY <1>1, <1>4 DEF Listed, TypeOK, Times
  <2>2. PICK n \in 1 .. Hand : f \subseteq {n} /\ b \subseteq {n}
    BY <1>1, <1>4, <2>1 DEF Listed, SweptSingle, Single
  <2>3. Quotient(b, f) = f \cap b
    BY <2>2 DEF Quotient
  <2>4. Latest(t) = [flydsl_us |-> f, baseline_us |-> b, speedup |-> f \cap b]
    BY <1>4, <2>1 DEF Latest
  <2>5. Seen(t) = [flydsl_us |-> f, baseline_us |-> b, speedup |-> Quotient(b, f)]
    BY <1>4, <2>1 DEF Seen
  <2>6. Joined(Seen(t), baselines[t]) =
          [flydsl_us |-> f, baseline_us |-> b, speedup |-> Or(Quotient(b, f), Quotient(b, f))]
    BY <1>4, <2>5 DEF Joined, Or, NoTimes
  <2> QED
    BY <2>3, <2>4, <2>6 DEF Or
<1> QED
  BY <1>2, <1>3, <1>4

LEMMA NowFacts ==
  /\ Now.listed = Listed /\ Now.results = results
  /\ \A t \in Listed : Now.latest[t] = Latest(t)
BY DEF Now

LEMMA ExportedFresh ==
  ASSUME TypeOK, SweptSingle, BaselinesWhole, master = Consolidated
  PROVE  Fresh(Exported, Now)
<1>1. PICK q : q = Exported.kernels
  OBVIOUS
<1>2. /\ master \in Seq(Row)
      /\ \A l \in 1 .. Len(master) : master[l].test \in Listed /\ master[l].times = Seen(master[l].test)
      /\ \A t \in Listed : \E l \in 1 .. Len(master) : master[l].test = t
  BY ConsolidatedFacts
<1>3. /\ Exported \in Dataset /\ Len(q) = Len(master)
      /\ \A l \in 1 .. Len(master) :
           /\ q[l].example = master[l].test /\ q[l].multishape = 0
           /\ q[l].times = Joined(master[l].times, baselines[master[l].test])
  BY <1>1, <1>2, ExportedFacts
<1>4. ASSUME NEW l \in 1 .. Len(q)
      PROVE  q[l].example \in Listed /\ q[l].times = Now.latest[q[l].example] /\ q[l].multishape = 0
  <2>1. q[l].example \in Listed /\ q[l].times = Joined(Seen(q[l].example), baselines[q[l].example])
    BY <1>2, <1>3
  <2>2. q[l].times = Latest(q[l].example)
    BY <2>1, JoinedLatest
  <2> QED
    BY <1>3, <2>1, <2>2, NowFacts DEF Listed
<1>5. \A t \in Listed : \E l \in 1 .. Len(q) : q[l].example = t
  BY <1>2, <1>3
<1>6. Rebuilt(q, Now)
  BY <1>4, <1>5, NowFacts DEF Rebuilt
<1> QED
  BY <1>1, <1>3, <1>6 DEF Fresh

LEMMA MergedCurrent ==
  ASSUME TypeOK, Fresh(kernelsJson, Now)
  PROVE  Current(Merged, Now)
<1>0. kernelsJson \in Dataset
  BY DEF Fresh
<1>1. PICK old : old = kernelsJson.kernels
  OBVIOUS
<1>2. PICK new : new = Merged.kernels
  OBVIOUS
<1>3. /\ old \in Seq(Record) /\ new \in Seq(Record)
      /\ \A l \in 1 .. Len(old) :
           /\ l \in 1 .. Len(new)
           /\ new[l].example = old[l].example /\ new[l].times = old[l].times
           /\ new[l].multishape = WithResults(old[l])
      /\ \A l \in 1 .. Len(new) : l \notin 1 .. Len(old) =>
           \E t \in Missing(old) : new[l] = Blank(t)
      /\ \A t \in Missing(old) : \E l \in 1 .. Len(new) : new[l] = Blank(t)
  <2>1. Len(old) <= Len(new) /\ Len(old) \in Nat /\ Len(new) \in Nat
    BY <1>0, <1>1, <1>2, MergedRecords
  <2>2. 1 .. Len(old) \subseteq 1 .. Len(new)
    BY <2>1
  <2> QED
    BY <1>0, <1>1, <1>2, <2>2, MergedRecords
<1>4. /\ \A l \in 1 .. Len(old) :
           \/ old[l].example \in Listed /\ old[l].times = Now.latest[old[l].example]
           \/ \E t \in Test \ Listed : /\ old[l].example = MS_OPS[t] /\ old[l].times = NoTimes
                                       /\ results[MS_OPS[t]] # 0
      /\ \A t \in Listed : \E l \in 1 .. Len(old) : old[l].example = t
      /\ \A l \in 1 .. Len(old) :
           old[l].example \in Test /\ old[l].multishape # 0 => results[MS_OPS[old[l].example]] # 0
  BY <1>1, NowFacts DEF Fresh, Rebuilt
<1>5. ASSUME NEW t \in Missing(old)
      PROVE  t \in Test \ Listed /\ results[MS_OPS[t]] # 0 /\ \A l \in 1 .. Len(old) : old[l].example # t
  BY <1>3, <1>4 DEF Missing
<1>6. ASSUME NEW l \in 1 .. Len(new), l \notin 1 .. Len(old)
      PROVE  \E t \in Test \ Listed :
               /\ new[l].example = MS_OPS[t] /\ new[l].times = NoTimes
               /\ new[l].multishape = results[MS_OPS[t]] /\ results[MS_OPS[t]] # 0
               /\ new[l].example \in Test => new[l].example = t
  <2>1. PICK t \in Missing(old) : new[l] = Blank(t)
    BY <1>3, <1>6
  <2>2. new[l].example = MS_OPS[t] /\ new[l].times = NoTimes /\ new[l].multishape = results[MS_OPS[t]]
    BY <2>1 DEF Blank
  <2>3. t \in Test \ Listed /\ results[MS_OPS[t]] # 0
    BY <1>5, <2>1
  <2>4. MS_OPS[t] \in Test => MS_OPS[t] = t
    BY <2>3, DashboardAssumption
  <2> QED
    BY <2>2, <2>3, <2>4
<1>7. ASSUME NEW l \in 1 .. Len(new)
      PROVE  \/ new[l].example \in Listed /\ new[l].times = Now.latest[new[l].example]
             \/ \E t \in Test \ Listed : /\ new[l].example = MS_OPS[t] /\ new[l].times = NoTimes
                                         /\ results[MS_OPS[t]] # 0
  <2>1. CASE l \in 1 .. Len(old)
    <3>1. new[l].example = old[l].example /\ new[l].times = old[l].times
      BY <1>3, <2>1
    <3> QED
      BY <1>4, <2>1, <3>1
  <2>2. CASE l \notin 1 .. Len(old)
    BY <1>6, <2>2
  <2> QED
    BY <2>1, <2>2
<1>8. \A t \in Listed : \E l \in 1 .. Len(new) : new[l].example = t
  BY <1>3, <1>4
<1>9. ASSUME NEW l \in 1 .. Len(new), new[l].example \in Test
      PROVE  new[l].multishape = results[MS_OPS[new[l].example]]
  <2>1. CASE l \in 1 .. Len(old)
    <3>1. old[l].example \in Test /\ new[l].example = old[l].example
      BY <1>3, <1>9, <2>1
    <3>2. new[l].multishape = WithResults(old[l])
      BY <1>3, <2>1
    <3>3. results[MS_OPS[old[l].example]] = 0 => old[l].multishape = 0
      BY <1>4, <2>1, <3>1
    <3> QED
      BY <3>1, <3>2, <3>3 DEF WithResults
  <2>2. CASE l \notin 1 .. Len(old)
    BY <1>6, <1>9, <2>2
  <2> QED
    BY <2>1, <2>2
<1>10. ASSUME NEW t \in Test \ Listed, results[MS_OPS[t]] # 0
       PROVE  \E l \in 1 .. Len(new) : new[l] = Blank(t)
  <2>1. CASE t \in Missing(old)
    BY <1>3, <2>1
  <2>2. CASE t \notin Missing(old)
    <3>1. PICK l \in 1 .. Len(old) : old[l].example = t
      BY <1>3, <1>10, <2>2 DEF Missing
    <3>2. PICK u \in Test \ Listed : old[l].example = MS_OPS[u] /\ old[l].times = NoTimes
      BY <1>4, <3>1
    <3>3. u = t /\ MS_OPS[t] = t
      BY <3>1, <3>2, DashboardAssumption
    <3>4. l \in 1 .. Len(new) /\ new[l].example = t /\ new[l].times = NoTimes
      BY <1>3, <3>1, <3>2
    <3>5. new[l].multishape = results[MS_OPS[t]]
      BY <1>9, <3>4
    <3>6. new[l] \in Record
      BY <1>3, <3>4
    <3>7. new[l] = Blank(t)
      BY <3>3, <3>4, <3>5, <3>6 DEF Blank, Record
    <3> QED
      BY <3>4, <3>7
  <2> QED
    BY <2>1, <2>2
<1>11. \A l \in 1 .. Len(new) :
         new[l].example \in Test /\ new[l].multishape # 0 => results[MS_OPS[new[l].example]] # 0
  BY <1>9
<1>12. Rebuilt(new, Now)
  BY <1>7, <1>8, <1>11, NowFacts DEF Rebuilt
<1>13. MergedIn(new, Now)
  BY <1>9, <1>10, NowFacts DEF MergedIn, Blank
<1>14. Merged \in Dataset /\ Merged.multishape_summary = WithBlock(Merged.kernels)
  BY <1>0, MergedFacts
<1> QED
  BY <1>2, <1>12, <1>13, <1>14 DEF Current, Fresh

(* A result that comes in leaves a file without blocks of that run as fresh as it was. *)
LEMMA FreshSteady ==
  ASSUME NEW file, NEW now, NEW later, Fresh(file, now),
         later.listed = now.listed, later.latest = now.latest,
         \A t \in Test : now.results[MS_OPS[t]] # 0 => later.results[MS_OPS[t]] # 0
  PROVE  Fresh(file, later)
<1>1. PICK q : q = file.kernels
  OBVIOUS
<1>2. /\ \A l \in 1 .. Len(q) :
           \/ q[l].example \in now.listed /\ q[l].times = now.latest[q[l].example]
           \/ \E t \in Test \ now.listed : /\ q[l].example = MS_OPS[t] /\ q[l].times = NoTimes
                                           /\ now.results[MS_OPS[t]] # 0
      /\ \A t \in now.listed : \E l \in 1 .. Len(q) : q[l].example = t
      /\ \A l \in 1 .. Len(q) :
           q[l].example \in Test /\ q[l].multishape # 0 => now.results[MS_OPS[q[l].example]] # 0
  BY <1>1 DEF Fresh, Rebuilt
<1>3. ASSUME NEW l \in 1 .. Len(q)
      PROVE  \/ q[l].example \in later.listed /\ q[l].times = later.latest[q[l].example]
             \/ \E t \in Test \ later.listed : /\ q[l].example = MS_OPS[t] /\ q[l].times = NoTimes
                                               /\ later.results[MS_OPS[t]] # 0
  BY <1>2
<1>4. \A l \in 1 .. Len(q) :
        q[l].example \in Test /\ q[l].multishape # 0 => later.results[MS_OPS[q[l].example]] # 0
  BY <1>2
<1>5. \A t \in later.listed : \E l \in 1 .. Len(q) : q[l].example = t
  BY <1>2
<1>6. Rebuilt(q, later)
  BY <1>3, <1>4, <1>5 DEF Rebuilt
<1> QED
  BY <1>1, <1>6 DEF Fresh

(* After each program of the documented order, what it has written is as fresh as its inputs. *)
THEOREM CurrentInvariance == Spec => []CurrentInv
<1>1. Init => CurrentInv
  BY DEF Init, CurrentInv, Stages, MasterCurrent, ExportFresh, KernelsFresh, MergeCurrent,
    FilesCurrent, PageCurrent
<1>2. TypeOK /\ SingleInv /\ CurrentInv /\ [Next]_vars => CurrentInv'
  <2> SUFFICES ASSUME TypeOK, SingleInv, CurrentInv, [Next]_vars PROVE CurrentInv'
    OBVIOUS
  <2>0. /\ Stages /\ MasterCurrent /\ ExportFresh /\ KernelsFresh
        /\ MergeCurrent /\ FilesCurrent /\ PageCurrent
        /\ SweptSingle /\ BaselinesWhole
        /\ through \in 0 .. 4 /\ step \in 1 .. 3
        /\ kernelsJson \in Dataset \cup {Torn}
    BY DEF CurrentInv, SingleInv, TypeOK
  <2>20. ASSUME UNCHANGED swept PROVE Consolidated' = Consolidated
    BY <2>20 DEF Consolidated
  <2>21. ASSUME UNCHANGED <<swept, baselines, results>> PROVE Now' = Now
    BY <2>21 DEF Now, Listed, Latest
  <2>22. \A level \in 0 .. 3 : AtMost(level) \in 0 .. level /\ AtMost(level) <= through
    BY <2>0 DEF AtMost
  <2>1. ASSUME NEW t \in Test, Sweep(t) PROVE CurrentInv'
    <3>1. through' = 0 /\ UNCHANGED program /\ program = "none"
      BY <2>1, <2>22 DEF Sweep, Measure
    <3> QED
      BY <3>1 DEF CurrentInv, Stages, MasterCurrent, ExportFresh, KernelsFresh, MergeCurrent,
        FilesCurrent, PageCurrent
  <2>2. ASSUME NEW t \in Test, MeasureBaseline(t) PROVE CurrentInv'
    <3>1. /\ through' \in 0 .. 1 /\ through' <= through /\ program' = program /\ program = "none"
          /\ UNCHANGED <<swept, master>>
      BY <2>2, <2>22 DEF MeasureBaseline, Measure, files
    <3>2. MasterCurrent'
      BY <2>0, <2>20, <3>1 DEF MasterCurrent
    <3> QED
      BY <3>1, <3>2 DEF CurrentInv, Stages, ExportFresh, KernelsFresh, MergeCurrent,
        FilesCurrent, PageCurrent
  <2>3. ASSUME NEW o \in Op, Benchmark(o) PROVE CurrentInv'
    <3>1. /\ through' \in 0 .. 2 /\ through' <= through /\ program' = program /\ program = "none"
          /\ UNCHANGED <<swept, baselines, master, kernelsJson>>
          /\ results' = [results EXCEPT ![o] = runs'] /\ runs' = runs + 1
      BY <2>3, <2>22 DEF Benchmark, Measure, files
    <3>2. MasterCurrent'
      BY <2>0, <2>20, <3>1 DEF MasterCurrent
    <3>3. Now'.listed = Now.listed /\ Now'.latest = Now.latest
      BY <3>1 DEF Now, Listed, Latest
    <3>4. \A t \in Test : Now.results[MS_OPS[t]] # 0 => Now'.results[MS_OPS[t]] # 0
      <4>1. runs' # 0
        BY <3>1 DEF TypeOK
      <4>2. results \in [Op -> 0 .. MaxRuns] /\ \A t \in Test : MS_OPS[t] \in Op
        BY Orders DEF TypeOK
      <4>3. \A t \in Test : results[MS_OPS[t]] # 0 => results'[MS_OPS[t]] # 0
        BY <3>1, <4>1, <4>2
      <4> QED
        BY <4>3 DEF Now
    <3>5. ASSUME through' >= 2 PROVE Fresh(kernelsJson, Now)'
      <4>1. Fresh(kernelsJson, Now)
        BY <2>0, <3>1, <3>5 DEF KernelsFresh
      <4>2. PICK now, later : now = Now /\ later = Now'
        OBVIOUS
      <4>3. Fresh(kernelsJson, later)
        BY <3>3, <3>4, <4>1, <4>2, FreshSteady
      <4> QED
        BY <3>1, <4>2, <4>3
    <3> QED
      BY <3>1, <3>2, <3>5 DEF CurrentInv, Stages, ExportFresh, KernelsFresh, MergeCurrent,
        FilesCurrent, PageCurrent
  <2>23. ASSUME NEW p, NEW d, Begin(p, d)
         PROVE  /\ program = "none" /\ program' = p /\ data' = d /\ step' = 1
                /\ through' = AtMost(Rank[p] - 1)
                /\ UNCHANGED <<swept, baselines, results>>
                /\ Consolidated' = Consolidated /\ Now' = Now
    BY <2>20, <2>21, <2>23 DEF Begin, inputs
  <2>4. CASE Consolidate
    <3>1. /\ program' = "consolidate" /\ data' = Consolidated /\ through' = 0
          /\ Consolidated' = Consolidated
      BY <2>4, <2>22, <2>23 DEF Consolidate, Rank
    <3> QED
      BY <3>1 DEF CurrentInv, Stages, MasterCurrent, ExportFresh, KernelsFresh, MergeCurrent,
        FilesCurrent, PageCurrent
  <2>5. CASE Export
    <3>1. /\ program' = "export" /\ data' = Exported /\ step' = 1
          /\ through' \in 0 .. 1 /\ through' <= through /\ UNCHANGED master
          /\ Consolidated' = Consolidated /\ Now' = Now
      BY <2>5, <2>22, <2>23 DEF Export, Rank
    <3>2. MasterCurrent'
      BY <2>0, <3>1 DEF MasterCurrent
    <3>3. through' = 1 => Fresh(Exported, Now)
      BY <2>0, <3>1, ExportedFresh DEF MasterCurrent
    <3>4. ExportFresh'
      BY <3>1, <3>3 DEF ExportFresh
    <3> QED
      BY <3>1, <3>2, <3>4 DEF CurrentInv, Stages, KernelsFresh, MergeCurrent,
        FilesCurrent, PageCurrent
  <2>6. CASE Merge
    <3>1. /\ program = "none" /\ program' = "merge" /\ data' = Merged /\ step' = 1
          /\ through' \in 0 .. 2 /\ through' <= through /\ UNCHANGED master
          /\ Consolidated' = Consolidated /\ Now' = Now
      BY <2>6, <2>22, <2>23 DEF Merge, Rank
    <3>2. MasterCurrent'
      BY <2>0, <3>1 DEF MasterCurrent
    <3>3. through' = 2 => Current(Merged, Now)
      BY <2>0, <3>1, MergedCurrent DEF KernelsFresh
    <3>4. MergeCurrent'
      BY <3>1, <3>3 DEF MergeCurrent
    <3> QED
      BY <3>1, <3>2, <3>4 DEF CurrentInv, Stages, ExportFresh, KernelsFresh,
        FilesCurrent, PageCurrent
  <2>7. CASE Build
    <3>1. /\ program = "none" /\ program' = "build" /\ data' = kernelsJson
          /\ through' \in 0 .. 3 /\ through' <= through /\ UNCHANGED <<master, kernelsJson, dataJs>>
          /\ Consolidated' = Consolidated /\ Now' = Now
      BY <2>7, <2>22, <2>23 DEF Build, Rank
    <3>2. MasterCurrent'
      BY <2>0, <3>1 DEF MasterCurrent
    <3>3. KernelsFresh'
      BY <2>0, <3>1 DEF KernelsFresh
    <3>4. FilesCurrent'
      BY <2>0, <3>1 DEF FilesCurrent
    <3> QED
      BY <3>1, <3>2, <3>3, <3>4 DEF CurrentInv, Stages, ExportFresh, MergeCurrent, PageCurrent
  <2>8. CASE CloseKernels
    <3>1. /\ program \in {"export", "merge"} /\ step' = 2 /\ kernelsJson' = data
          /\ UNCHANGED <<master, dataJs, indexHtml, program, data, through>>
          /\ Consolidated' = Consolidated /\ Now' = Now
      BY <2>8, <2>20, <2>21 DEF CloseKernels, inputs
    <3>2. through <= 2
      BY <2>0, <3>1 DEF Stages
    <3> QED
      BY <2>0, <3>1, <3>2 DEF CurrentInv, Stages, MasterCurrent, ExportFresh, KernelsFresh,
        MergeCurrent, FilesCurrent, PageCurrent
  <2>9. CASE OpenDataJs
    <3>1. /\ program \in {"export", "merge"} /\ step = 2 /\ step' = 3
          /\ UNCHANGED <<master, kernelsJson, indexHtml, program, data, through>>
          /\ Consolidated' = Consolidated /\ Now' = Now
      BY <2>9, <2>20, <2>21 DEF OpenDataJs, inputs
    <3>2. through <= 2
      BY <2>0, <3>1 DEF Stages
    <3> QED
      BY <2>0, <3>1, <3>2 DEF CurrentInv, Stages, MasterCurrent, ExportFresh, KernelsFresh,
        MergeCurrent, FilesCurrent, PageCurrent
  <2>10. CASE End
    <3>0. /\ program' = "none" /\ kernelsJson' = kernelsJson
          /\ through' = IF through = Rank[program] - 1 THEN Rank[program] ELSE through
          /\ Consolidated' = Consolidated /\ Now' = Now
      BY <2>10, <2>20, <2>21 DEF End, inputs
    <3>1. CASE program = "consolidate"
      <4>1. through' = 1 /\ master' = Consolidated
        BY <2>0, <2>10, <3>0, <3>1 DEF End, Rank, Stages
      <4> QED
        BY <3>0, <4>1 DEF CurrentInv, Stages, MasterCurrent, ExportFresh, KernelsFresh,
          MergeCurrent, FilesCurrent, PageCurrent
    <3>2. CASE program = "export"
      <4>1. /\ through <= 1 /\ through' = (IF through = 1 THEN 2 ELSE through) /\ master' = master
            /\ kernelsJson = data
        BY <2>0, <2>10, <3>0, <3>2 DEF End, Rank, Stages
      <4>2. MasterCurrent'
        BY <2>0, <3>0, <4>1 DEF MasterCurrent
      <4>3. KernelsFresh'
        BY <2>0, <3>0, <3>2, <4>1 DEF KernelsFresh, ExportFresh
      <4> QED
        BY <2>0, <3>0, <4>1, <4>2, <4>3 DEF CurrentInv, Stages, ExportFresh, MergeCurrent,
          FilesCurrent, PageCurrent
    <3>3. CASE program = "merge"
      <4>1. /\ through <= 2 /\ through' = (IF through = 2 THEN 3 ELSE through) /\ master' = master
            /\ kernelsJson = data /\ dataJs' = data
        BY <2>0, <2>10, <3>0, <3>3 DEF End, Rank, Stages
      <4>2. MasterCurrent'
        BY <2>0, <3>0, <4>1 DEF MasterCurrent
      <4>3. through' >= 2 => through' = 3 /\ Current(kernelsJson, Now)
        BY <2>0, <3>3, <4>1 DEF MergeCurrent
      <4>4. KernelsFresh' /\ FilesCurrent'
        BY <3>0, <4>1, <4>3 DEF KernelsFresh, FilesCurrent, Current
      <4> QED
        BY <2>0, <3>0, <4>1, <4>2, <4>4 DEF CurrentInv, Stages, ExportFresh, MergeCurrent, PageCurrent
    <3>4. CASE program = "build"
      <4>1. /\ through <= 3 /\ through' = (IF through = 3 THEN 4 ELSE through)
            /\ master' = master /\ dataJs' = dataJs /\ indexHtml' = kernelsJson
        BY <2>0, <2>10, <3>0, <3>4 DEF End, Rank, Stages
      <4>2. MasterCurrent'
        BY <2>0, <3>0, <4>1 DEF MasterCurrent
      <4>3. KernelsFresh' /\ FilesCurrent'
        BY <2>0, <3>0, <3>4, <4>1 DEF KernelsFresh, FilesCurrent
      <4>4. PageCurrent'
        BY <3>0, <4>1 DEF PageCurrent
      <4> QED
        BY <3>0, <4>2, <4>3, <4>4 DEF CurrentInv, Stages, ExportFresh, MergeCurrent
    <3> QED
      BY <2>10, <3>1, <3>2, <3>3, <3>4 DEF End
  <2>11. CASE Die
    <3>1. /\ program' = "none" /\ through' \in 0 .. 1 /\ through' <= through /\ UNCHANGED master
          /\ Consolidated' = Consolidated
      BY <2>11, <2>20, <2>22 DEF Die, inputs, files
    <3>2. MasterCurrent'
      BY <2>0, <3>1 DEF MasterCurrent
    <3> QED
      BY <3>1, <3>2 DEF CurrentInv, Stages, ExportFresh, KernelsFresh, MergeCurrent,
        FilesCurrent, PageCurrent
  <2>12. CASE UNCHANGED vars
    <3>1. /\ UNCHANGED <<master, kernelsJson, dataJs, indexHtml, program, step, data, through>>
          /\ Consolidated' = Consolidated /\ Now' = Now
      BY <2>12, <2>20, <2>21 DEF vars, inputs, files
    <3> QED
      BY <2>0, <3>1 DEF CurrentInv, Stages, MasterCurrent, ExportFresh, KernelsFresh,
        MergeCurrent, FilesCurrent, PageCurrent
  <2> QED
    BY <2>1, <2>2, <2>3, <2>4, <2>5, <2>6, <2>7, <2>8, <2>9, <2>10, <2>11, <2>12 DEF Next
<1> QED
  BY <1>1, <1>2, TypeCorrect, SingleInvariance, PTL DEF Spec

LEMMA DistinctCount ==
  ASSUME NEW A, NEW q \in Seq(A), Distinct(q)
  PROVE  Cardinality(ToSet(q)) = Len(q)
<1>1. Len(q) \in Nat /\ DOMAIN q = 1 .. Len(q)
  OBVIOUS
<1>2. PICK f : f = [l \in 1 .. Len(q) |-> q[l]]
  OBVIOUS
<1>3. f \in [1 .. Len(q) -> ToSet(q)]
  BY <1>1, <1>2 DEF ToSet
<1>4. \A k, l \in 1 .. Len(q) : f[k] = f[l] => k = l
  BY <1>2 DEF Distinct
<1>5. \A x \in ToSet(q) : \E l \in 1 .. Len(q) : f[l] = x
  BY <1>1, <1>2 DEF ToSet
<1>6. f \in Injection(1 .. Len(q), ToSet(q))
  BY <1>3, <1>4 DEF Injection, IsInjective
<1>7. f \in Bijection(1 .. Len(q), ToSet(q))
  BY <1>3, <1>5, <1>6 DEF Bijection, Surjection
<1>8. ExistsBijection(1 .. Len(q), ToSet(q))
  BY <1>7 DEF ExistsBijection
<1>9. IsFiniteSet(1 .. Len(q)) /\ Cardinality(1 .. Len(q)) = Len(q)
  BY <1>1, FS_Interval
<1> QED
  BY <1>8, <1>9, FS_Bijection

(* What Wanted lists. *)
WantedTest(t)  == [example |-> t, times |-> Latest(t), multishape |-> results[MS_OPS[t]]]
Unlisted       == {t \in Test \ Listed : results[MS_OPS[t]] # 0}

LEMMA WantedIs == Wanted = {WantedTest(t) : t \in Listed} \cup {Blank(t) : t \in Unlisted}
<1>1. Listed = {u \in Test : u \in Patched \/ swept[u] # Torn}
  BY DEF Listed
<1>2. Unlisted = {u \in Test \ Patched : swept[u] = Torn /\ results[MS_OPS[u]] # 0}
  BY DEF Unlisted, Listed
<1> QED
  BY <1>1, <1>2 DEF Wanted, WantedTest, Blank

(* A current file in which no op was appended twice shows what is wanted. *)
LEMMA CurrentShows ==
  ASSUME TypeOK, NEW file, Current(file, Now), NEW q, q = file.kernels, OpOnce(q),
         \A t \in Test : MS_OPS[t] # t =>
           \A k, l \in 1 .. Len(q) : q[k].example = MS_OPS[t] /\ q[l].example = MS_OPS[t] => k = l
  PROVE  Shows(file, Wanted)
<1>1. file \in Dataset /\ file # Torn /\ q \in Seq(Record)
  BY TornAssumption DEF Current, Fresh, Dataset
<1>2. DOMAIN q = 1 .. Len(q) /\ \A l \in 1 .. Len(q) : q[l] \in Record
  BY <1>1
<1>3. /\ \A l \in 1 .. Len(q) :
           \/ q[l].example \in Listed /\ q[l].times = Now.latest[q[l].example]
           \/ \E t \in Test \ Listed : /\ q[l].example = MS_OPS[t] /\ q[l].times = NoTimes
                                       /\ results[MS_OPS[t]] # 0
      /\ \A t \in Listed : \E l \in 1 .. Len(q) : q[l].example = t
  BY NowFacts DEF Current, Fresh, Rebuilt
<1>4. /\ \A l \in 1 .. Len(q) :
           q[l].example \in Test => q[l].multishape = results[MS_OPS[q[l].example]]
      /\ \A t \in Unlisted : \E l \in 1 .. Len(q) : q[l] = Blank(t)
  BY NowFacts DEF Current, MergedIn, Blank, Unlisted
<1>5. ASSUME NEW k \in 1 .. Len(q), NEW l \in 1 .. Len(q), q[k].example = q[l].example
      PROVE  k = l
  <2>1. CASE q[k].example \in Listed
    <3>1. q[k].example \in Test
      BY <2>1 DEF Listed
    <3> QED
      BY <1>5, <3>1 DEF OpOnce
  <2>2. CASE q[k].example \notin Listed
    <3>1. PICK t \in Test : q[k].example = MS_OPS[t]
      BY <1>3, <2>2
    <3>2. CASE MS_OPS[t] # t
      BY <1>5, <3>1, <3>2
    <3>3. CASE MS_OPS[t] = t
      BY <1>5, <3>1, <3>3 DEF OpOnce
    <3> QED
      BY <3>2, <3>3
  <2> QED
    BY <2>1, <2>2
<1>6. ASSUME NEW l \in 1 .. Len(q) PROVE q[l] \in Wanted
  <2>1. CASE q[l].example \in Listed
    <3>1. PICK t \in Listed : q[l].example = t
      BY <2>1
    <3>2. t \in Test
      BY DEF Listed
    <3>3. CASE q[l].times = Latest(t)
      <4>1. q[l] = WantedTest(t)
        BY <1>2, <1>4, <3>1, <3>2, <3>3 DEF WantedTest, Record
      <4> QED
        BY <4>1, WantedIs
    <3>4. CASE q[l].times # Latest(t)
      <4>1. PICK u \in Test \ Listed : q[l].example = MS_OPS[u]
        BY <1>3, <3>1, <3>4, NowFacts
      <4>2. u = t
        BY <3>1, <3>2, <4>1, DashboardAssumption
      <4> QED
        BY <4>2
    <3> QED
      BY <3>3, <3>4
  <2>2. CASE q[l].example \notin Listed
    <3>1. PICK t \in Unlisted : q[l].example = MS_OPS[t]
      BY <1>3, <2>2 DEF Unlisted
    <3>2. PICK j \in 1 .. Len(q) : q[j] = Blank(t)
      BY <1>4
    <3>3. j = l
      BY <1>5, <3>1, <3>2 DEF Blank
    <3> QED
      BY <3>2, <3>3, WantedIs
  <2> QED
    BY <2>1, <2>2
<1>7. ASSUME NEW r \in Wanted PROVE \E l \in 1 .. Len(q) : q[l] = r
  <2>1. CASE \E t \in Listed : r = WantedTest(t)
    <3>1. PICK t \in Listed : r = WantedTest(t)
      BY <2>1
    <3>2. PICK l \in 1 .. Len(q) : q[l].example = t
      BY <1>3
    <3>3. q[l] \in Wanted
      BY <1>6
    <3>4. t \in Test
      BY DEF Listed
    <3>5. CASE \E u \in Listed : q[l] = WantedTest(u)
      <4>1. PICK u \in Listed : q[l] = WantedTest(u)
        BY <3>5
      <4>2. u = t
        BY <3>2, <4>1 DEF WantedTest
      <4> QED
        BY <3>1, <4>1, <4>2
    <3>6. CASE \E u \in Unlisted : q[l] = Blank(u)
      <4>1. PICK u \in Unlisted : q[l] = Blank(u)
        BY <3>6
      <4>2. MS_OPS[u] = t /\ u \in Test \ Listed
        BY <3>2, <4>1 DEF Blank, Unlisted
      <4>3. u = t
        BY <3>4, <4>2, DashboardAssumption
      <4> QED
        BY <4>2, <4>3
    <3> QED
      BY <3>3, <3>5, <3>6, WantedIs
  <2>2. CASE \E t \in Unlisted : r = Blank(t)
    BY <1>4, <2>2
  <2> QED
    BY <2>1, <2>2, WantedIs
<1>8. ToSet(q) = Wanted
  <2>1. ToSet(q) \subseteq Wanted
    BY <1>2, <1>6 DEF ToSet
  <2>2. Wanted \subseteq ToSet(q)
    BY <1>2, <1>7 DEF ToSet
  <2> QED
    BY <2>1, <2>2
<1>9. Distinct(q)
  BY <1>5 DEF Distinct
<1>10. Len(q) = Cardinality(Wanted)
  BY <1>1, <1>8, <1>9, DistinctCount
<1>11. PICK b : b = file.multishape_summary
  OBVIOUS
<1>12. /\ b \in Seq(Record) /\ Distinct(b)
       /\ \A l \in 1 .. Len(b) : b[l].multishape # 0 /\ \E j \in 1 .. Len(q) : q[j] = b[l]
       /\ \A j \in 1 .. Len(q) : q[j].multishape # 0 => \E l \in 1 .. Len(b) : b[l] = q[j]
  <2>1. b = WithBlock(q)
    BY <1>11 DEF Current
  <2> QED
    BY <1>1, <1>9, <2>1, WithBlockFacts
<1>13. DOMAIN b = 1 .. Len(b)
  BY <1>12
<1>14. ToSet(b) = {r \in Wanted : r.multishape # 0}
  <2>1. ToSet(b) \subseteq {r \in Wanted : r.multishape # 0}
    BY <1>6, <1>12, <1>13 DEF ToSet
  <2>2. {r \in Wanted : r.multishape # 0} \subseteq ToSet(b)
    <3> SUFFICES ASSUME NEW r \in Wanted, r.multishape # 0 PROVE r \in ToSet(b)
      OBVIOUS
    <3>1. PICK j \in 1 .. Len(q) : q[j] = r
      BY <1>7
    <3>2. PICK l \in 1 .. Len(b) : b[l] = r
      BY <1>12, <3>1
    <3> QED
      BY <1>13, <3>2 DEF ToSet
  <2> QED
    BY <2>1, <2>2
<1>15. Len(b) = Cardinality({r \in Wanted : r.multishape # 0})
  BY <1>12, <1>14, DistinctCount
<1> QED
  BY <1>1, <1>8, <1>10, <1>11, <1>14, <1>15 DEF Shows

(* Two places with one element make two of a set of places. *)
LEMMA TwoAreTwo ==
  ASSUME NEW S, IsFiniteSet(S), NEW k \in S, NEW l \in S, k # l
  PROVE  Cardinality(S) > 1
<1>1. IsFiniteSet({k}) /\ Cardinality({k}) = 1
  BY FS_Singleton
<1>2. {k} \in SUBSET S /\ {k} # S
  OBVIOUS
<1>3. Cardinality({k}) <= Cardinality(S) /\ Cardinality({k}) # Cardinality(S)
  BY <1>2, FS_Subset
<1>4. Cardinality(S) \in Nat
  BY FS_CardinalityType
<1> QED
  BY <1>1, <1>3, <1>4

(***************************************************************************)
(* When the four programs have each run through since their inputs were    *)
(* measured, the page and data.js show what is wanted, whatever the files  *)
(* held before and whatever was killed on the way.                         *)
(***************************************************************************)
THEOREM RebuildingIsEnough == Spec => []RebuiltIsCurrent
<1>1. TypeOK /\ OnceInv /\ CurrentInv => RebuiltIsCurrent
  <2> SUFFICES ASSUME TypeOK, OnceInv, CurrentInv, program = "none", through = 4, ~ AppendedAgain
               PROVE  Shows(indexHtml, Wanted) /\ Shows(dataJs, Wanted)
    BY DEF RebuiltIsCurrent
  <2>1. Current(kernelsJson, Now) /\ dataJs = kernelsJson /\ indexHtml = kernelsJson
    BY DEF CurrentInv, FilesCurrent, PageCurrent
  <2>2. PICK q : q = kernelsJson.kernels
    OBVIOUS
  <2>3. kernelsJson \in Dataset /\ kernelsJson # Torn /\ q \in Seq(Record)
    BY <2>1, <2>2, TornAssumption DEF Current, Fresh, Dataset
  <2>4. OpOnce(q)
    BY <2>2, <2>3 DEF OnceInv, KernelsOnce
  <2>5. ASSUME NEW t \in Test, MS_OPS[t] # t, NEW k \in 1 .. Len(q), NEW l \in 1 .. Len(q),
               q[k].example = MS_OPS[t], q[l].example = MS_OPS[t]
        PROVE  k = l
    <3>1. PICK S : S = {j \in DOMAIN q : q[j].example = MS_OPS[t]}
      OBVIOUS
    <3>2. ~ (Cardinality(S) > 1)
      BY <2>1, <2>2, <2>5, <3>1 DEF AppendedAgain
    <3>3. DOMAIN q = 1 .. Len(q) /\ Len(q) \in Nat
      BY <2>3
    <3>4. S \in SUBSET (1 .. Len(q)) /\ k \in S /\ l \in S
      BY <2>5, <3>1, <3>3
    <3>5. IsFiniteSet(S)
      <4>1. IsFiniteSet(1 .. Len(q))
        BY <3>3, FS_Interval
      <4> QED
        BY <3>4, <4>1, FS_Subset
    <3> QED
      BY <3>2, <3>4, <3>5, TwoAreTwo
  <2>6. Shows(kernelsJson, Wanted)
    BY <2>1, <2>2, <2>4, <2>5, CurrentShows
  <2> QED
    BY <2>1, <2>6
<1> QED
  BY <1>1, TypeCorrect, OnceInvariance, CurrentInvariance, PTL
=============================================================================
