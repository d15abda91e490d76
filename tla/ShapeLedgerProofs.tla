-------------------------- MODULE ShapeLedgerProofs --------------------------
(***************************************************************************)
(* The safety properties of ShapeLedger.  Two of them hold for any number  *)
(* of importers that overlap as they like, with the condition the property *)
(* states: what one rewrite leaves is the beginning of a file in order, as *)
(* long as nobody truncates the file under a writer.  The other two are    *)
(* for importers that are run one at a time.                               *)
(***************************************************************************)
EXTENDS ShapeLedger, SequenceTheorems, WellFoundedInduction, TLAPS

(* One row of a shape, and the rows of one kind of one import. *)
Unique(rows) == \A r, s \in rows : r.id = s.id => r = s

OneGen(file) ==
  \A i, j \in DOMAIN file : file[i].row.kind = file[j].row.kind => file[i].row.gen = file[j].row.gen

(* The beginning of a file in order: heads and tails belong together, and  *)
(* no shape has two lines.                                                 *)
Paired(file) ==
  /\ \A i \in DOMAIN file : file[i].part = "head" /\ i + 1 \in DOMAIN file =>
       file[i + 1] = [part |-> "tail", row |-> file[i].row]
  /\ \A i \in DOMAIN file : file[i].part = "tail" =>
       i > 1 /\ file[i - 1] = [part |-> "head", row |-> file[i].row]

Tidy(file) ==
  /\ file \in Seq(Cell) /\ Paired(file)
  /\ \A i, j \in Starts(file) : file[i].row.id = file[j].row.id => i = j

(* The last line is complete. *)
Ended(file) == \A i \in DOMAIN file : file[i].part = "head" => i + 1 \in DOMAIN file

PrefixOf(file, text, n) == n \in 0 .. Len(text) /\ file = [i \in 1 .. n |-> text[i]]

-----------------------------------------------------------------------------
(* The text of a merge. *)

LEMMA LeastNatural ==
  ASSUME NEW T, T \subseteq Nat, T # {}
  PROVE  \E x \in T : \A y \in T : x <= y
<1>1. PICK x \in T : \A y \in T : ~ (<<y, x>> \in OpToRel(<, Nat))
  BY NatLessThanWellFounded, WFMin
<1>2. \A y \in T : ~ (y < x)
  BY <1>1 DEF OpToRel
<1> QED
  BY <1>2

(* A set that has 0 and every successor has the naturals. *)
LEMMA AllNaturals ==
  ASSUME NEW T, 0 \in T, \A k \in Nat : k \in T => k + 1 \in T
  PROVE  Nat \subseteq T
<1> SUFFICES ASSUME Nat \ T # {} PROVE FALSE
  OBVIOUS
<1>1. PICK k \in Nat \ T : \A y \in Nat \ T : k <= y
  BY LeastNatural
<1>2. k # 0 /\ k - 1 \in Nat /\ ~ (k <= k - 1)
  OBVIOUS
<1>3. k - 1 \in T
  BY <1>1, <1>2
<1>4. (k - 1) + 1 \in T
  BY <1>2, <1>3
<1> QED
  BY <1>1, <1>4

(* The lines of the rows with ids up to n. *)
TextOf(text, rows, n) ==
  /\ Tidy(text) /\ Ended(text)
  /\ \A i \in DOMAIN text : text[i].row \in rows /\ text[i].row.id <= n
  /\ \A r \in rows : r.id <= n => \E i \in Starts(text) : text[i].row = r

LEMMA TextExtends ==
  ASSUME NEW rows \in SUBSET Row, Unique(rows), NEW n \in Nat, NEW t, TextOf(t, rows, n),
         NEW r \in rows, r.id = n + 1
  PROVE  TextOf(t \o Line(r), rows, n + 1)
<1> DEFINE u == t \o Line(r)
<1>1. /\ Line(r) \in Seq(Cell) /\ Len(Line(r)) \in {1, 2}
      /\ \A j \in DOMAIN Line(r) : Line(r)[j].row = r
      /\ Len(Line(r)) = 1 => Line(r)[1] = [part |-> "line", row |-> r]
      /\ Len(Line(r)) = 2 => /\ Line(r)[1] = [part |-> "head", row |-> r]
                             /\ Line(r)[2] = [part |-> "tail", row |-> r]
  <2>1. CASE r.id \in LongIds
    <3>1. Line(r) = <<[part |-> "head", row |-> r], [part |-> "tail", row |-> r]>>
      BY <2>1 DEF Line
    <3> QED
      BY <3>1 DEF Cell
  <2>2. CASE r.id \notin LongIds
    <3>1. Line(r) = <<[part |-> "line", row |-> r]>>
      BY <2>2 DEF Line
    <3> QED
      BY <3>1 DEF Cell
  <2> QED
    BY <2>1, <2>2
<1>2. t \in Seq(Cell) /\ Len(t) \in Nat /\ DOMAIN t = 1 .. Len(t)
  BY DEF TextOf, Tidy
<1>3. PICK m \in {1, 2} : Len(Line(r)) = m
  BY <1>1
<1>4. PICK line : line = Line(r)
  OBVIOUS
<1>5. /\ u \in Seq(Cell) /\ Len(u) = Len(t) + m /\ DOMAIN u = 1 .. Len(t) + m
      /\ \A i \in 1 .. Len(t) : u[i] = t[i]
      /\ \A j \in 1 .. m : u[Len(t) + j] = line[j]
  <2>1. /\ u \in Seq(Cell) /\ Len(u) = Len(t) + m
        /\ \A i \in 1 .. Len(t) + m : u[i] = IF i <= Len(t) THEN t[i] ELSE line[i - Len(t)]
    BY <1>1, <1>2, <1>3, <1>4, ConcatProperties
  <2> QED
    BY <1>2, <2>1
<1>6. /\ DOMAIN line = 1 .. m /\ \A j \in 1 .. m : line[j].row = r
      /\ m = 1 => line[1] = [part |-> "line", row |-> r]
      /\ m = 2 => /\ line[1] = [part |-> "head", row |-> r]
                  /\ line[2] = [part |-> "tail", row |-> r]
  BY <1>1, <1>3, <1>4
<1> HIDE DEF u
<1>7. \A i \in DOMAIN u : i \in 1 .. Len(t) \/ \E j \in 1 .. m : i = Len(t) + j
  <2> SUFFICES ASSUME NEW i \in DOMAIN u, i \notin 1 .. Len(t)
               PROVE  \E j \in 1 .. m : i = Len(t) + j
    OBVIOUS
  <2>1. i - Len(t) \in 1 .. m /\ i = Len(t) + (i - Len(t))
    BY <1>2, <1>5
  <2> QED
    BY <2>1
<1>8. Paired(u)
  <2>1. ASSUME NEW i \in DOMAIN u, u[i].part = "head", i + 1 \in DOMAIN u
        PROVE  u[i + 1] = [part |-> "tail", row |-> u[i].row]
    <3>1. CASE i \in 1 .. Len(t)
      <4>1. t[i].part = "head" /\ i \in DOMAIN t
        BY <1>2, <1>5, <2>1, <3>1
      <4>2. i + 1 \in 1 .. Len(t)
        BY <1>2, <4>1 DEF TextOf, Ended
      <4> QED
        BY <1>2, <1>5, <3>1, <4>1, <4>2 DEF TextOf, Tidy, Paired
    <3>2. CASE \E j \in 1 .. m : i = Len(t) + j
      <4>1. PICK j \in 1 .. m : i = Len(t) + j
        BY <3>2
      <4>2. line[j].part = "head"
        BY <1>5, <2>1, <4>1
      <4>3. m = 2 /\ j = 1
        BY <1>6, <4>2
      <4>4. u[Len(t) + 2] = line[2] /\ u[i] = line[1] /\ i + 1 = Len(t) + 2
        BY <1>2, <1>5, <4>1, <4>3
      <4> QED
        BY <1>6, <4>3, <4>4
    <3> QED
      BY <1>7, <3>1, <3>2
  <2>2. ASSUME NEW i \in DOMAIN u, u[i].part = "tail"
        PROVE  i > 1 /\ u[i - 1] = [part |-> "head", row |-> u[i].row]
    <3>1. CASE i \in 1 .. Len(t)
      <4>1. t[i].part = "tail" /\ i \in DOMAIN t
        BY <1>2, <1>5, <2>2, <3>1
      <4>2. i > 1 /\ t[i - 1] = [part |-> "head", row |-> t[i].row]
        BY <4>1 DEF TextOf, Tidy, Paired
      <4>3. i - 1 \in 1 .. Len(t)
        BY <1>2, <3>1, <4>2
      <4> QED
        BY <1>5, <3>1, <4>2, <4>3
    <3>2. CASE \E j \in 1 .. m : i = Len(t) + j
      <4>1. PICK j \in 1 .. m : i = Len(t) + j
        BY <3>2
      <4>2. line[j].part = "tail"
        BY <1>5, <2>2, <4>1
      <4>3. m = 2 /\ j = 2
        BY <1>6, <4>2
      <4>4. u[Len(t) + 1] = line[1] /\ u[i] = line[2] /\ i - 1 = Len(t) + 1 /\ i > 1
        BY <1>2, <1>5, <4>1, <4>3
      <4> QED
        BY <1>6, <4>3, <4>4
    <3> QED
      BY <1>7, <3>1, <3>2
  <2> QED
    BY <2>1, <2>2 DEF Paired
<1>9. Ended(u)
  <2> SUFFICES ASSUME NEW i \in DOMAIN u, u[i].part = "head" PROVE i + 1 \in DOMAIN u
    BY DEF Ended
  <2>1. CASE i \in 1 .. Len(t)
    BY <1>2, <1>5, <2>1 
  <2>2. CASE \E j \in 1 .. m : i = Len(t) + j
    BY <1>2, <1>5, <1>6, <2>2
  <2> QED
    BY <1>7, <2>1, <2>2
<1>10. \A i \in DOMAIN t : t[i].row \in rows /\ t[i].row.id <= n /\ t[i].row.id \in Nat
  BY DEF TextOf, Row
<1>11. \A i \in DOMAIN u : u[i].row \in rows /\ u[i].row.id <= n + 1
  BY <1>2, <1>5, <1>6, <1>7, <1>10
<1>12. \A i \in Starts(u) : i \in Starts(t) \/ (i = Len(t) + 1 /\ u[i].row = r)
  <2> SUFFICES ASSUME NEW i \in Starts(u), i \notin 1 .. Len(t)
               PROVE  i = Len(t) + 1 /\ u[i].row = r
    BY <1>2, <1>5 DEF Starts
  <2>1. PICK j \in 1 .. m : i = Len(t) + j
    BY <1>7 DEF Starts
  <2>2. line[j].part \in {"line", "head"} /\ u[i] = line[j]
    BY <1>5, <2>1 DEF Starts
  <2>3. j = 1
    BY <1>6, <2>1, <2>2
  <2> QED
    BY <1>6, <2>1, <2>2, <2>3
<1>13. ASSUME NEW i \in Starts(u), NEW j \in Starts(u), u[i].row.id = u[j].row.id
       PROVE  i = j
  <2>1. CASE i \in Starts(t) /\ j \in Starts(t)
    BY <1>2, <1>5, <1>13, <2>1 DEF TextOf, Tidy, Starts
  <2>2. \A k \in Starts(t) : u[k].row.id # n + 1
    BY <1>2, <1>5, <1>10 DEF Starts
  <2> QED
    BY <1>12, <1>13, <2>1, <2>2
<1>14. ASSUME NEW s \in rows, s.id <= n + 1 PROVE \E i \in Starts(u) : u[i].row = s
  <2>1. CASE s.id <= n
    <3>1. PICK i \in Starts(t) : t[i].row = s
      BY <2>1 DEF TextOf
    <3>2. i \in Starts(u) /\ u[i].row = s
      BY <1>2, <1>5, <3>1 DEF Starts
    <3> QED
      BY <3>2
  <2>2. CASE ~ (s.id <= n)
    <3>1. s.id = n + 1 /\ s = r
      BY <1>14, <2>2 DEF Unique, Row
    <3>2. Len(t) + 1 \in Starts(u) /\ u[Len(t) + 1].row = r
      BY <1>2, <1>5, <1>6 DEF Starts
    <3> QED
      BY <3>1, <3>2
  <2> QED
    BY <2>1, <2>2
<1>15. Tidy(u)
  BY <1>5, <1>8, <1>13 DEF Tidy
<1>16. TextOf(u, rows, n + 1)
  BY <1>9, <1>11, <1>14, <1>15 DEF TextOf
<1> QED
  BY <1>16 DEF u

(* The loop over the ids that Text is. *)
Loops(f, rows, n) ==
  f = [i \in 0 .. n |->
        IF i = 0 THEN << >>
        ELSE IF \E r \in rows : r.id = i
             THEN f[i - 1] \o Line(CHOOSE r \in rows : r.id = i)
             ELSE f[i - 1]]

Unrolls(f, rows, n) ==
  \A i \in 0 .. n :
    f[i] = IF i = 0 THEN << >>
           ELSE IF \E r \in rows : r.id = i
                THEN f[i - 1] \o Line(CHOOSE r \in rows : r.id = i)
                ELSE f[i - 1]

LEMMA LoopExists ==
  ASSUME NEW rows, NEW n \in Nat
  PROVE  \E f : Loops(f, rows, n)
<1> DEFINE Step(f, i) == IF i = 0 THEN << >>
                         ELSE IF \E r \in rows : r.id = i
                              THEN f[i - 1] \o Line(CHOOSE r \in rows : r.id = i)
                              ELSE f[i - 1]
<1>1. \A f, m : Unrolls(f, rows, m) <=> \A i \in 0 .. m : f[i] = Step(f, i)
  BY DEF Unrolls
<1>2. \A f, g, i : f[i - 1] = g[i - 1] => Step(f, i) = Step(g, i)
  OBVIOUS
<1>3. \A f : Step(f, 0) = << >>
  OBVIOUS
<1>4. \A f : Loops(f, rows, n) <=> f = [i \in 0 .. n |-> Step(f, i)]
  BY DEF Loops
<1> HIDE DEF Step
<1> DEFINE T == {k \in Nat : \E f : Unrolls(f, rows, k)}
<1>5. 0 \in T
  <2> DEFINE f == [i \in 0 .. 0 |-> << >>]
  <2>1. Unrolls(f, rows, 0)
    BY <1>1, <1>3
  <2> QED
    BY <2>1
<1>6. ASSUME NEW k \in Nat, k \in T PROVE k + 1 \in T
  <2>1. PICK f : Unrolls(f, rows, k)
    BY <1>6
  <2> DEFINE g == [i \in 0 .. k + 1 |-> Step(f, i)]
  <2>2. \A i \in 0 .. k : g[i] = f[i]
    BY <1>1, <2>1
  <2>3. ASSUME NEW i \in 0 .. k + 1 PROVE g[i] = Step(g, i)
    <3>1. CASE i = 0
      BY <1>3, <3>1
    <3>2. CASE i # 0
      <4>1. i - 1 \in 0 .. k
        BY <3>2
      <4>2. g[i - 1] = f[i - 1]
        BY <2>2, <4>1
      <4>3. Step(f, i) = Step(g, i)
        BY <1>2, <4>2
      <4> QED
        BY <4>3
    <3> QED
      BY <3>1, <3>2
  <2> HIDE DEF g
  <2>4. Unrolls(g, rows, k + 1)
    BY <1>1, <2>3
  <2> QED
    BY <2>4
<1>7. n \in T
  <2> HIDE DEF T
  <2> QED
    BY <1>5, <1>6, AllNaturals
<1>8. PICK f : Unrolls(f, rows, n)
  BY <1>7
<1> DEFINE g == [i \in 0 .. n |-> f[i]]
<1>9. ASSUME NEW i \in 0 .. n PROVE f[i] = Step(g, i)
  <2>1. f[i] = Step(f, i)
    BY <1>1, <1>8
  <2>2. CASE i = 0
    BY <1>3, <2>1, <2>2
  <2>3. CASE i # 0
    <3>1. i - 1 \in 0 .. n
      BY <2>3
    <3>2. g[i - 1] = f[i - 1]
      BY <3>1
    <3>3. Step(f, i) = Step(g, i)
      BY <1>2, <3>2
    <3> QED
      BY <2>1, <3>3
  <2> QED
    BY <2>2, <2>3
<1>10. g = [i \in 0 .. n |-> Step(g, i)]
  BY <1>9
<1>11. Loops(g, rows, n)
  BY <1>4, <1>10
<1> QED
  BY <1>11

(***************************************************************************)
(* The text of a merge is in order, complete and has the rows of the merge *)
(* and no others.                                                          *)
(***************************************************************************)
LEMMA TextFacts ==
  ASSUME NEW rows \in SUBSET Row, Unique(rows)
  PROVE  TextOf(Text(rows), rows, MaxId)
<1> DEFINE F == CHOOSE f : Loops(f, rows, MaxId)
<1>1. Loops(F, rows, MaxId)
  BY LoopExists, BoundsAssumption
<1>2. Text(rows) = F[MaxId]
  BY DEF Text, Loops
<1> HIDE DEF F
<1>3. Unrolls(F, rows, MaxId)
  BY <1>1 DEF Loops, Unrolls
<1> DEFINE T == {k \in Nat : k <= MaxId => TextOf(F[k], rows, k)}
<1>4. 0 \in T
  <2>1. F[0] = << >>
    BY <1>3, BoundsAssumption DEF Unrolls
  <2>2. TextOf(<< >>, rows, 0)
    BY DEF TextOf, Tidy, Paired, Ended, Starts, Row
  <2> QED
    BY <2>1, <2>2
<1>5. ASSUME NEW k \in Nat, k \in T PROVE k + 1 \in T
  <2> SUFFICES ASSUME k + 1 <= MaxId PROVE TextOf(F[k + 1], rows, k + 1)
    OBVIOUS
  <2>1. k + 1 \in 0 .. MaxId /\ k + 1 # 0 /\ (k + 1) - 1 = k /\ TextOf(F[k], rows, k)
    BY <1>5, BoundsAssumption
  <2>2. F[k + 1] = IF \E r \in rows : r.id = k + 1
                   THEN F[k] \o Line(CHOOSE r \in rows : r.id = k + 1)
                   ELSE F[k]
    BY <1>3, <2>1 DEF Unrolls
  <2>3. CASE \E r \in rows : r.id = k + 1
    <3>1. PICK r : r = CHOOSE x \in rows : x.id = k + 1
      OBVIOUS
    <3>2. r \in rows /\ r.id = k + 1
      BY <2>3, <3>1
    <3>3. F[k + 1] = F[k] \o Line(r)
      BY <2>2, <2>3, <3>1
    <3> QED
      BY <2>1, <3>2, <3>3, TextExtends
  <2>4. CASE ~ \E r \in rows : r.id = k + 1
    <3>1. F[k + 1] = F[k]
      BY <2>2, <2>4
    <3>2. \A r \in rows : r.id <= k + 1 => r.id <= k
      BY <2>4 DEF Row
    <3>3. \A i \in DOMAIN F[k] : F[k][i].row.id <= k + 1
      BY <2>1 DEF TextOf, Row
    <3> QED
      BY <2>1, <3>1, <3>2, <3>3 DEF TextOf
  <2> QED
    BY <2>3, <2>4
<1>6. MaxId \in T
  <2> HIDE DEF T
  <2> QED
    BY <1>4, <1>5, AllNaturals, BoundsAssumption
<1> QED
  BY <1>2, <1>6, BoundsAssumption

-----------------------------------------------------------------------------
(* The file while one writer writes it. *)

LEMMA PrefixTidy ==
  ASSUME NEW text, Tidy(text), NEW n, NEW file, PrefixOf(file, text, n)
  PROVE  Tidy(file)
<1>1. /\ text \in Seq(Cell) /\ DOMAIN text = 1 .. Len(text) /\ Len(text) \in Nat
      /\ n \in 0 .. Len(text) /\ DOMAIN file = 1 .. n /\ \A i \in 1 .. n : file[i] = text[i]
  BY DEF Tidy, PrefixOf
<1>2. file \in Seq(Cell)
  BY <1>1 DEF PrefixOf
<1>3. Paired(file)
  <2>1. ASSUME NEW i \in 1 .. n, file[i].part = "head", i + 1 \in 1 .. n
        PROVE  file[i + 1] = [part |-> "tail", row |-> file[i].row]
    BY <1>1, <2>1 DEF Tidy, Paired
  <2>2. ASSUME NEW i \in 1 .. n, file[i].part = "tail"
        PROVE  i > 1 /\ file[i - 1] = [part |-> "head", row |-> file[i].row]
    <3>1. i \in DOMAIN text /\ text[i].part = "tail" /\ text[i] = file[i]
      BY <1>1, <2>2
    <3>2. i > 1 /\ text[i - 1] = [part |-> "head", row |-> text[i].row]
      BY <3>1 DEF Tidy, Paired
    <3>3. i - 1 \in 1 .. n
      BY <1>1, <3>2
    <3> QED
      BY <1>1, <3>1, <3>2, <3>3
  <2> QED
    BY <1>1, <2>1, <2>2 DEF Paired
<1>4. \A i \in Starts(file) : i \in Starts(text) /\ file[i] = text[i]
  BY <1>1 DEF Starts
<1>5. \A i, j \in Starts(file) : file[i].row.id = file[j].row.id => i = j
  BY <1>4 DEF Tidy
<1> QED
  BY <1>2, <1>3, <1>5 DEF Tidy

LEMMA PrefixGrows ==
  ASSUME NEW text \in Seq(Cell), NEW m, NEW file, PrefixOf(file, text, m), NEW n \in m .. Len(text)
  PROVE  PrefixOf(Written(file, text, m, n), text, n)
<1>1. m \in Nat /\ n \in Nat /\ m <= n /\ n <= Len(text) /\ Len(text) \in Nat
  BY DEF PrefixOf
<1>2. DOMAIN file = 1 .. m /\ Len(file) = m /\ \A i \in 1 .. m : file[i] = text[i]
  BY <1>1 DEF PrefixOf
<1>3. (IF n > Len(file) THEN n ELSE Len(file)) = n
  BY <1>1, <1>2
<1>4. Written(file, text, m, n) =
        [i \in 1 .. n |-> IF i \in m + 1 .. n THEN text[i]
                          ELSE IF i \in DOMAIN file THEN file[i] ELSE Hole]
  BY <1>3 DEF Written
<1>5. \A i \in 1 .. n : (IF i \in m + 1 .. n THEN text[i]
                         ELSE IF i \in DOMAIN file THEN file[i] ELSE Hole) = text[i]
  BY <1>1, <1>2
<1>6. Written(file, text, m, n) = [i \in 1 .. n |-> text[i]]
  BY <1>4, <1>5
<1> QED
  BY <1>1, <1>6 DEF PrefixOf

(* Whoever writes, and where, the file is of cells and holes. *)
LEMMA WrittenType ==
  ASSUME NEW file \in Seq(Cell \cup {Hole}), NEW text \in Seq(Cell), NEW m \in Nat,
         NEW n \in 0 .. Len(text)
  PROVE  Written(file, text, m, n) \in Seq(Cell \cup {Hole})
<1> DEFINE l == IF n > Len(file) THEN n ELSE Len(file)
           c(i) == IF i \in m + 1 .. n THEN text[i]
                   ELSE IF i \in DOMAIN file THEN file[i] ELSE Hole
<1>1. l \in Nat
  OBVIOUS
<1>2. ASSUME NEW i \in 1 .. l PROVE c(i) \in Cell \cup {Hole}
  <2>1. CASE i \in m + 1 .. n
    <3>1. i \in 1 .. Len(text)
      BY <2>1
    <3> QED
      BY <2>1, <3>1
  <2>2. CASE i \notin m + 1 .. n
    <3>1. DOMAIN file = 1 .. Len(file) /\ \A j \in 1 .. Len(file) : file[j] \in Cell \cup {Hole}
      OBVIOUS
    <3> QED
      BY <2>2, <3>1
  <2> QED
    BY <2>1, <2>2
<1>3. Written(file, text, m, n) = [i \in 1 .. l |-> c(i)]
  BY DEF Written
<1> HIDE DEF l, c
<1> QED
  BY <1>1, <1>2, <1>3

(* What is read from a file of whatever origin: rows. *)
LEMMA ReadingType ==
  ASSUME NEW file \in Seq(Cell \cup {Hole}), Readable(file), NEW list \in Readings(file)
  PROVE  /\ DOMAIN list = Starts(file) /\ Starts(file) \subseteq Nat
         /\ \A i \in Starts(file) : list[i] \in Row
<1>1. DOMAIN file = 1 .. Len(file) /\ Len(file) \in Nat
      /\ \A i \in 1 .. Len(file) : file[i] \in Cell \cup {Hole}
  OBVIOUS
<1>2. \A i \in DOMAIN file : file[i].part # "hole" => file[i] \in Cell
  BY <1>1 DEF Hole
<1>3. \A i \in DOMAIN file : file[i] \in Cell
  <2>1. \A i \in DOMAIN file : file[i].part \in {"line", "head", "tail"}
    BY DEF Readable, Joined
  <2> QED
    BY <1>2, <2>1
<1>4. ASSUME NEW i \in Starts(file) PROVE list[i] \in Row
  <2>1. i \in DOMAIN file /\ file[i].row \in Row
    BY <1>3 DEF Starts, Cell
  <2>2. EndRow(file, i) \in Row
    BY <1>3, <2>1 DEF EndRow, Joined, Cell
  <2>3. list[i] \in Mixes(file[i].row, EndRow(file, i))
    BY DEF Readings
  <2> QED
    BY <2>1, <2>2, <2>3 DEF Mixes, Row
<1>5. DOMAIN list = Starts(file)
  BY DEF Readings
<1>6. Starts(file) \subseteq Nat
  BY <1>1 DEF Starts
<1> QED
  BY <1>4, <1>5, <1>6

(* What is read from a file in order: what is on its lines. *)
LEMMA ReadingTidy ==
  ASSUME NEW file, Tidy(file), NEW list \in Readings(file)
  PROVE  \A i \in Starts(file) : list[i] = file[i].row
<1> SUFFICES ASSUME NEW i \in Starts(file) PROVE list[i] = file[i].row
  OBVIOUS
<1>1. i \in DOMAIN file /\ file[i] \in Cell
  BY DEF Tidy, Starts
<1>2. EndRow(file, i) = file[i].row
  <2>1. ASSUME Joined(file, i) PROVE file[i + 1].row = file[i].row
    <3>1. file[i + 1] = [part |-> "tail", row |-> file[i].row]
      BY <1>1, <2>1 DEF Joined, Tidy, Paired
    <3> QED
      BY <3>1
  <2> QED
    BY <2>1 DEF EndRow
<1>3. list[i] \in Mixes(file[i].row, file[i].row)
  BY <1>2 DEF Readings
<1> QED
  BY <1>1, <1>3 DEF Mixes, Cell, Row

-----------------------------------------------------------------------------
(* The merge. *)

(* Of the rows with one id the last one stays, so no id is left twice. *)
LEMMA LastByIdUnique ==
  ASSUME NEW list, DOMAIN list \subseteq Nat
  PROVE  /\ \A r \in LastById(list) : \E i \in DOMAIN list : r = list[i]
         /\ Unique(LastById(list))
<1>1. \A r \in LastById(list) : \E i \in DOMAIN list :
        r = list[i] /\ \A m \in DOMAIN list : m > i => list[m].id # list[i].id
  BY DEF LastById
<1>2. ASSUME NEW r \in LastById(list), NEW s \in LastById(list), r.id = s.id
      PROVE  r = s
  <2>1. PICK i \in DOMAIN list :
          r = list[i] /\ \A m \in DOMAIN list : m > i => list[m].id # list[i].id
    BY <1>1
  <2>2. PICK j \in DOMAIN list :
          s = list[j] /\ \A m \in DOMAIN list : m > j => list[m].id # list[j].id
    BY <1>1
  <2>3. i > j \/ j > i \/ i = j
    OBVIOUS
  <2> QED
    BY <1>2, <2>1, <2>2, <2>3
<1> QED
  BY <1>1, <1>2 DEF Unique

(* What an import brings: rows of its own kinds, of this import. *)
LEMMA BatchType ==
  ASSUME NEW own \in SUBSET Kind, NEW g, NEW seq \in Batches(own, g)
  PROVE  /\ DOMAIN seq \subseteq Nat
         /\ \A n \in DOMAIN seq : seq[n] \in Row /\ seq[n].kind \in own /\ seq[n].gen = g
<1>1. PICK len \in 0 .. MaxBatch : seq \in [1 .. len -> {r \in Rows(own) : r.gen = g}]
  BY DEF Batches
<1> QED
  BY <1>1 DEF Rows

(***************************************************************************)
(* A merge has each shape once; its rows of owned kinds are all of this    *)
(* import, and the others were read from the file.                         *)
(***************************************************************************)
LEMMA UpsertSound ==
  ASSUME NEW list, DOMAIN list \subseteq Nat, \A i \in DOMAIN list : list[i] \in Row,
         NEW own \in SUBSET Kind, NEW g, NEW seq \in Batches(own, g)
  PROVE  /\ Upsert(list, own, seq) \in SUBSET Row
         /\ Unique(Upsert(list, own, seq))
         /\ \A r \in Upsert(list, own, seq) :
              IF r.kind \in own THEN r \in LastById(seq) /\ r.gen = g
              ELSE \E i \in DOMAIN list : r = list[i]
<1> DEFINE kept == Kept(list, own)
           new == LastById(seq)
           old == {r \in LastById(kept) : r.id \notin Ids(new)}
<1>1. /\ DOMAIN kept \subseteq DOMAIN list
      /\ \A i \in DOMAIN kept : kept[i] = list[i] /\ list[i].kind \notin own
  BY DEF Kept
<1>2. /\ \A r \in LastById(kept) : \E i \in DOMAIN list : r = list[i] /\ r.kind \notin own
      /\ Unique(LastById(kept))
  BY <1>1, LastByIdUnique
<1>3. /\ \A r \in new : r \in Row /\ r.kind \in own /\ r.gen = g
      /\ Unique(new)
  <2>1. /\ DOMAIN seq \subseteq Nat
        /\ \A n \in DOMAIN seq : seq[n] \in Row /\ seq[n].kind \in own /\ seq[n].gen = g
    BY BatchType
  <2>2. (\A r \in new : \E i \in DOMAIN seq : r = seq[i]) /\ Unique(new)
    BY <2>1, LastByIdUnique
  <2> QED
    BY <2>1, <2>2
<1>4. Upsert(list, own, seq) = old \cup new
  BY DEF Upsert
<1>5. \A r \in old, s \in new : r.id # s.id
  BY DEF Ids
<1>6. \A r \in old : r \in LastById(kept)
  OBVIOUS
<1> HIDE DEF old, new, kept
<1>7. Unique(old \cup new)
  BY <1>2, <1>3, <1>5, <1>6 DEF Unique
<1>8. \A r \in old : r \in Row /\ r.kind \notin own /\ \E i \in DOMAIN list : r = list[i]
  BY <1>2, <1>6
<1>9. \A r \in old \cup new : IF r.kind \in own THEN r \in new /\ r.gen = g
                              ELSE \E i \in DOMAIN list : r = list[i]
  BY <1>3, <1>8
<1>10. old \cup new \in SUBSET Row
  BY <1>3, <1>8
<1> QED
  BY <1>4, <1>7, <1>9, <1>10 DEF new

(***************************************************************************)
(* The history: the newest import of a kind is what it was before, or one  *)
(* that has a row in the text, and nothing in the text is newer.           *)
(***************************************************************************)
LEMMA NewestInType ==
  ASSUME newest \in [Kind -> 0 .. MaxImports], NEW text \in Seq(Cell), NEW k \in Kind
  PROVE  /\ NewestIn(text, k) \in 0 .. MaxImports
         /\ \/ NewestIn(text, k) = newest[k]
            \/ \E i \in DOMAIN text : text[i].row.kind = k /\ NewestIn(text, k) = text[i].row.gen
<1> DEFINE gens == {newest[k]} \cup
                   {text[i].row.gen : i \in {j \in DOMAIN text : text[j].row.kind = k}}
<1>1. /\ MaxImports \in Nat /\ newest[k] \in 0 .. MaxImports
      /\ \A i \in DOMAIN text : text[i].row.gen \in 1 .. MaxImports
  <2>1. \A i \in DOMAIN text : text[i] \in Cell
    OBVIOUS
  <2>2. \A c \in Cell : c.row.gen \in 1 .. MaxImports
    BY DEF Cell, Row
  <2> QED
    BY <2>1, <2>2, BoundsAssumption
<1>2. gens \subseteq 0 .. MaxImports /\ newest[k] \in gens
  BY <1>1
<1>3. NewestIn(text, k) = CHOOSE g \in gens : \A h \in gens : h <= g
  BY DEF NewestIn
<1>4. \A g \in gens : \/ g = newest[k]
                      \/ \E i \in DOMAIN text : text[i].row.kind = k /\ g = text[i].row.gen
  OBVIOUS
<1> HIDE DEF gens
<1>5. \E g \in gens : \A h \in gens : h <= g
  <2> DEFINE T == {MaxImports - g : g \in gens}
  <2>1. T \subseteq Nat /\ T # {}
    BY <1>1, <1>2
  <2>2. PICK x \in T : \A y \in T : x <= y
    BY <2>1, LeastNatural
  <2>3. PICK g \in gens : x = MaxImports - g
    BY <2>2
  <2>4. ASSUME NEW h \in gens PROVE h <= g
    <3>1. MaxImports - g <= MaxImports - h
      BY <2>2, <2>3
    <3> QED
      BY <1>1, <1>2, <3>1
  <2> QED
    BY <2>4
<1>6. NewestIn(text, k) \in gens
  BY <1>3, <1>5
<1> QED
  BY <1>2, <1>4, <1>6

-----------------------------------------------------------------------------
(* Any number of importers. *)

ImpState == [at : {"idle", "merged", "writing"}, own : SUBSET Kind,
             text : Seq(Cell), offset : Nat]

(* What an importer has in hand. *)
GoodText(st) ==
  /\ st \in ImpState /\ Tidy(st.text) /\ Ended(st.text)
  /\ st.offset <= Len(st.text) /\ (st.at # "writing" => st.offset = 0)

(* The file, unless it was truncated under a writer at the last time. *)
Alone ==
  /\ Tidy(ledger)
  /\ \A p \in Importer : imp[p].at = "writing" =>
       /\ PrefixOf(ledger, imp[p].text, imp[p].offset)
       /\ \A q \in Importer : imp[q].at = "writing" => q = p

IInv ==
  /\ TypeOK
  /\ \A p \in Importer : GoodText(imp[p])
  /\ shared # "now" => Alone
  /\ shared = "never" => OneGen(ledger) /\ \A p \in Importer : OneGen(imp[p].text)

LEMMA IdleGood == GoodText(Idle) /\ OneGen(Idle.text) /\ Idle.at = "idle"
<1>1. << >> \in Seq(Cell) /\ DOMAIN << >> = {} /\ Len(<< >>) = 0
  OBVIOUS
<1>2. Tidy(<< >>) /\ Ended(<< >>) /\ OneGen(<< >>)
  BY <1>1 DEF Tidy, Paired, Starts, Ended, OneGen
<1> QED
  BY <1>1, <1>2 DEF Idle, GoodText, ImpState

LEMMA InitInvariant == Init => IInv
<1> SUFFICES ASSUME Init PROVE IInv
  OBVIOUS
<1>1. \A p \in Importer : imp[p] = Idle
  BY DEF Init
<1>2. Tidy(<< >>) /\ OneGen(<< >>) /\ Idle.at = "idle" /\ Idle.text = << >> /\ Idle \in ImpState
  BY IdleGood DEF GoodText, Idle
<1>3. TypeOK
  BY <1>2, BoundsAssumption DEF Init, TypeOK, ImpState
<1>4. Alone
  BY <1>1, <1>2 DEF Init, Alone
<1> QED
  BY <1>1, <1>2, <1>3, <1>4, IdleGood DEF Init, IInv

(* What is left in hand by one that read the list and brought seq. *)
InHand(p, own, list, seq) ==
  LET rows == Upsert(list, own, seq)
  IN  /\ imp' = [imp EXCEPT ![p] = [at |-> "merged", own |-> own,
                                    text |-> Text(rows), offset |-> 0]]
      /\ TextOf(Text(rows), rows, MaxId)
      /\ rows \in SUBSET Row
      /\ \A r \in rows : IF r.kind \in own THEN r \in LastById(seq) /\ r.gen = imports'
                         ELSE \E i \in Starts(ledger) : r = list[i]

LEMMA ReadAndMergeResult ==
  ASSUME IInv, NEW p \in Importer, ReadAndMerge(p)
  PROVE  /\ imports' = imports + 1 /\ imports' \in 1 .. MaxImports
         /\ UNCHANGED <<ledger, crashes, newest, shared>>
         /\ imp[p].at = "idle" /\ Readable(ledger)
         /\ \E own \in Owns, list \in Readings(ledger) : \E seq \in Batches(own, imports') :
              InHand(p, own, list, seq)
<1>1. imports' = imports + 1 /\ imports' \in 1 .. MaxImports
  BY BoundsAssumption DEF IInv, TypeOK, ReadAndMerge
<1>2. ledger \in Seq(Cell \cup {Hole}) /\ Readable(ledger)
  BY DEF IInv, TypeOK, ReadAndMerge
<1>3. PICK own \in Owns, list \in Readings(ledger) : \E seq \in Batches(own, imports') :
        imp' = [imp EXCEPT ![p] = [at |-> "merged", own |-> own,
                                   text |-> Text(Upsert(list, own, seq)), offset |-> 0]]
  BY DEF ReadAndMerge
<1>4. PICK seq \in Batches(own, imports') :
        imp' = [imp EXCEPT ![p] = [at |-> "merged", own |-> own,
                                   text |-> Text(Upsert(list, own, seq)), offset |-> 0]]
  BY <1>3
<1>5. own \in SUBSET Kind
  BY OwnsAssumption
<1>6. /\ DOMAIN list = Starts(ledger) /\ DOMAIN list \subseteq Nat
      /\ \A i \in DOMAIN list : list[i] \in Row
  BY <1>2, ReadingType
<1> DEFINE rows == Upsert(list, own, seq)
<1>7. /\ rows \in SUBSET Row /\ Unique(rows)
      /\ \A r \in rows : IF r.kind \in own THEN r \in LastById(seq) /\ r.gen = imports'
                         ELSE \E i \in Starts(ledger) : r = list[i]
  BY <1>5, <1>6, UpsertSound
<1>8. TextOf(Text(rows), rows, MaxId)
  BY <1>7, TextFacts
<1>9. InHand(p, own, list, seq)
  BY <1>4, <1>7, <1>8 DEF InHand
<1> QED
  BY <1>1, <1>2, <1>9 DEF ReadAndMerge

(* A merge of a file whose kinds are each of one import has that, too. *)
LEMMA MergeOneGen ==
  ASSUME NEW file, Tidy(file), OneGen(file), NEW list \in Readings(file),
         NEW own, NEW g, NEW rows, NEW text, TextOf(text, rows, MaxId),
         \A r \in rows : IF r.kind \in own THEN r.gen = g
                         ELSE \E i \in Starts(file) : r = list[i]
  PROVE  OneGen(text)
<1>1. \A i \in Starts(file) : list[i] = file[i].row /\ i \in DOMAIN file
  BY ReadingTidy DEF Starts
<1>2. ASSUME NEW r \in rows, NEW s \in rows, r.kind = s.kind PROVE r.gen = s.gen
  <2>1. CASE r.kind \in own
    BY <1>2, <2>1
  <2>2. CASE r.kind \notin own
    <3>1. PICK i \in Starts(file) : r = list[i]
      BY <2>2
    <3>2. PICK j \in Starts(file) : s = list[j]
      BY <1>2, <2>2
    <3> QED
      BY <1>1, <1>2, <3>1, <3>2 DEF OneGen
  <2> QED
    BY <2>1, <2>2
<1>3. \A i \in DOMAIN text : text[i].row \in rows
  BY DEF TextOf
<1> QED
  BY <1>2, <1>3 DEF OneGen

(* One importer's new state, if good, keeps the others'. *)
LEMMA ImpStep ==
  ASSUME IInv, NEW p \in Importer, NEW st, GoodText(st), imp' = [imp EXCEPT ![p] = st]
  PROVE  /\ imp' \in [Importer -> ImpState] /\ imp'[p] = st
         /\ \A q \in Importer : q # p => imp'[q] = imp[q]
         /\ \A q \in Importer : GoodText(imp'[q])
<1>1. imp \in [Importer -> ImpState] /\ st \in ImpState
  BY DEF IInv, TypeOK, ImpState, GoodText
<1> QED
  BY <1>1 DEF IInv

LEMMA StepInvariant == IInv /\ [Next]_vars => IInv'
<1> SUFFICES ASSUME IInv, [Next]_vars PROVE IInv'
  OBVIOUS
<1>1. /\ TypeOK /\ imp \in [Importer -> ImpState]
      /\ ledger \in Seq(Cell \cup {Hole}) /\ imports \in 0 .. MaxImports
      /\ crashes \in 0 .. MaxCrashes /\ newest \in [Kind -> 0 .. MaxImports]
      /\ shared \in {"never", "before", "now"}
  BY DEF IInv, TypeOK, ImpState
<1>2. ASSUME NEW p \in Importer, ReadAndMerge(p) PROVE IInv'
  <2>1. PICK own \in Owns, list \in Readings(ledger) : \E seq \in Batches(own, imports') :
          InHand(p, own, list, seq)
    BY <1>2, ReadAndMergeResult
  <2>2. PICK seq \in Batches(own, imports') : InHand(p, own, list, seq)
    BY <2>1
  <2> DEFINE rows == Upsert(list, own, seq)
             st == [at |-> "merged", own |-> own, text |-> Text(rows), offset |-> 0]
  <2>3. imp' = [imp EXCEPT ![p] = st] /\ TextOf(Text(rows), rows, MaxId)
    BY <2>2 DEF InHand
  <2>4. \A r \in rows : IF r.kind \in own THEN r.gen = imports'
                        ELSE \E i \in Starts(ledger) : r = list[i]
    BY <2>2 DEF InHand
  <2>5. /\ imports' \in 0 .. MaxImports /\ UNCHANGED <<ledger, crashes, newest, shared>>
        /\ imp[p].at = "idle"
    BY <1>2, ReadAndMergeResult
  <2> HIDE DEF rows
  <2>6. GoodText(st) /\ st.at = "merged" /\ st.text = Text(rows)
    <3>1. own \in SUBSET Kind /\ Text(rows) \in Seq(Cell) /\ Len(Text(rows)) \in Nat
      BY <2>3, OwnsAssumption DEF TextOf, Tidy
    <3> QED
      BY <2>3, <3>1 DEF GoodText, ImpState, TextOf
  <2> HIDE DEF st
  <2>7. /\ imp' \in [Importer -> ImpState] /\ imp'[p] = st
        /\ \A q \in Importer : q # p => imp'[q] = imp[q]
        /\ \A q \in Importer : GoodText(imp'[q])
    BY <2>3, <2>6, ImpStep
  <2>8. TypeOK'
    BY <1>1, <2>5, <2>7 DEF TypeOK, ImpState
  <2>9. ASSUME shared' # "now" PROVE Alone'
    BY <2>5, <2>6, <2>7, <2>9 DEF IInv, Alone
  <2>10. ASSUME shared' = "never" PROVE OneGen(ledger') /\ \A q \in Importer : OneGen(imp'[q].text)
    <3>1. /\ OneGen(ledger) /\ (\A q \in Importer : OneGen(imp[q].text)) /\ Tidy(ledger)
          /\ ledger' = ledger
      BY <2>5, <2>10 DEF IInv, Alone
    <3>2. PICK g, text : g = imports' /\ text = Text(rows)
      OBVIOUS
    <3>3. TextOf(text, rows, MaxId)
      BY <2>3, <3>2
    <3>4. \A r \in rows : IF r.kind \in own THEN r.gen = g
                          ELSE \E i \in Starts(ledger) : r = list[i]
      BY <2>4, <3>2
    <3>5. OneGen(text)
      BY <3>1, <3>3, <3>4, MergeOneGen
    <3> QED
      BY <2>6, <2>7, <3>1, <3>2, <3>5
  <2> QED
    BY <2>7, <2>8, <2>9, <2>10 DEF IInv
<1>3. ASSUME NEW p \in Importer, Raise(p) PROVE IInv'
  <2>1. imports' \in 0 .. MaxImports
    BY <1>1, <1>3, BoundsAssumption DEF Raise
  <2> QED
    BY <1>1, <1>3, <2>1 DEF Raise, IInv, TypeOK, Alone
<1>4. ASSUME NEW p \in Importer, OpenToWrite(p) PROVE IInv'
  <2> DEFINE st == [imp[p] EXCEPT !.at = "writing"]
  <2>1. imp[p].at = "merged" /\ imp[p] \in ImpState /\ GoodText(imp[p]) /\ imp[p].offset = 0
    BY <1>1, <1>4 DEF OpenToWrite, IInv, GoodText
  <2>2. GoodText(st) /\ st.at = "writing" /\ st.text = imp[p].text /\ st.offset = 0
    BY <2>1 DEF GoodText, ImpState
  <2>3. imp' = [imp EXCEPT ![p] = st] /\ ledger' = << >> /\ UNCHANGED <<imports, crashes, newest>>
    BY <1>1, <1>4 DEF OpenToWrite
  <2>4. shared' = IF Writing # {} THEN "now" ELSE IF shared = "never" THEN "never" ELSE "before"
    BY <1>4 DEF OpenToWrite
  <2> HIDE DEF st
  <2>5. /\ imp' \in [Importer -> ImpState] /\ imp'[p] = st
        /\ \A q \in Importer : q # p => imp'[q] = imp[q]
        /\ \A q \in Importer : GoodText(imp'[q])
    BY <2>2, <2>3, ImpStep
  <2>6. TypeOK'
    BY <1>1, <2>3, <2>4, <2>5 DEF TypeOK, ImpState
  <2>7. ASSUME shared' # "now" PROVE Alone'
    <3>1. Writing = {}
      BY <2>4, <2>7
    <3>2. \A q \in Importer : imp'[q].at = "writing" => q = p
      BY <2>5, <3>1 DEF Writing
    <3>3. Tidy(<< >>)
      BY IdleGood DEF GoodText, Idle
    <3>4. PrefixOf(ledger', imp'[p].text, imp'[p].offset)
      BY <2>2, <2>3, <2>5 DEF PrefixOf, GoodText, ImpState
    <3> QED
      BY <2>3, <3>2, <3>3, <3>4 DEF Alone
  <2>8. ASSUME shared' = "never" PROVE OneGen(ledger') /\ \A q \in Importer : OneGen(imp'[q].text)
    <3>1. shared = "never"
      BY <2>4, <2>8
    <3>2. \A q \in Importer : OneGen(imp[q].text)
      BY <3>1 DEF IInv
    <3>3. OneGen(<< >>)
      BY DEF OneGen
    <3> QED
      BY <2>2, <2>3, <2>5, <3>2, <3>3
  <2> QED
    BY <2>5, <2>6, <2>7, <2>8 DEF IInv
<1>5. ASSUME NEW p \in Importer, Flush(p) PROVE IInv'
  <2>1. PICK n \in imp[p].offset + 1 .. Len(imp[p].text) :
          /\ ledger' = Written(ledger, imp[p].text, imp[p].offset, n)
          /\ imp' = [imp EXCEPT ![p].offset = n]
    BY <1>5 DEF Flush
  <2> DEFINE st == [imp[p] EXCEPT !.offset = n]
  <2>2. /\ imp[p].at = "writing" /\ imp[p] \in ImpState /\ GoodText(imp[p])
        /\ imp[p].text \in Seq(Cell) /\ imp[p].offset \in Nat /\ Len(imp[p].text) \in Nat
    BY <1>1, <1>5 DEF Flush, IInv, ImpState
  <2>3. n \in Nat /\ n \in imp[p].offset .. Len(imp[p].text) /\ n \in 0 .. Len(imp[p].text)
    BY <2>1, <2>2
  <2>4. GoodText(st) /\ st.at = "writing" /\ st.text = imp[p].text /\ st.offset = n
    BY <2>2, <2>3 DEF GoodText, ImpState
  <2>5. imp' = [imp EXCEPT ![p] = st] /\ UNCHANGED <<imports, crashes, newest, shared>>
    BY <1>5, <2>1 DEF Flush
  <2> HIDE DEF st
  <2>6. /\ imp' \in [Importer -> ImpState] /\ imp'[p] = st
        /\ \A q \in Importer : q # p => imp'[q] = imp[q]
        /\ \A q \in Importer : GoodText(imp'[q])
    BY <2>4, <2>5, ImpStep
  <2>7. ledger' \in Seq(Cell \cup {Hole})
    BY <1>1, <2>1, <2>2, <2>3, WrittenType
  <2>8. TypeOK'
    BY <1>1, <2>5, <2>6, <2>7 DEF TypeOK, ImpState
  <2>9. ASSUME shared # "now"
        PROVE  /\ PrefixOf(ledger', imp[p].text, n) /\ Tidy(ledger')
               /\ \A q \in Importer : imp[q].at = "writing" => q = p
    <3>1. /\ PrefixOf(ledger, imp[p].text, imp[p].offset)
          /\ \A q \in Importer : imp[q].at = "writing" => q = p
      BY <2>2, <2>9 DEF IInv, Alone
    <3>2. PrefixOf(ledger', imp[p].text, n)
      BY <2>1, <2>2, <2>3, <3>1, PrefixGrows
    <3>3. Tidy(ledger')
      BY <2>2, <3>2, PrefixTidy DEF GoodText
    <3> QED
      BY <3>1, <3>2, <3>3
  <2>10. ASSUME shared' # "now" PROVE Alone'
    BY <2>4, <2>5, <2>6, <2>9, <2>10 DEF Alone
  <2>11. ASSUME shared' = "never" PROVE OneGen(ledger') /\ \A q \in Importer : OneGen(imp'[q].text)
    <3>1. shared = "never" /\ \A q \in Importer : OneGen(imp[q].text)
      BY <2>5, <2>11 DEF IInv
    <3>2. \A i \in DOMAIN ledger' : i \in DOMAIN imp[p].text /\ ledger'[i] = imp[p].text[i]
      BY <2>2, <2>3, <2>9, <3>1 DEF PrefixOf
    <3>3. OneGen(ledger')
      BY <3>1, <3>2 DEF OneGen
    <3> QED
      BY <2>4, <2>6, <3>1, <3>3
  <2> QED
    BY <2>6, <2>8, <2>10, <2>11 DEF IInv
<1>6. ASSUME NEW p \in Importer, Close(p) PROVE IInv'
  <2> DEFINE n == Len(imp[p].text)
  <2>1. /\ ledger' = Written(ledger, imp[p].text, imp[p].offset, n)
        /\ imp' = [imp EXCEPT ![p] = Idle] /\ UNCHANGED <<imports, crashes, shared>>
        /\ newest' = [k \in Kind |-> NewestIn(imp[p].text, k)]
    BY <1>6 DEF Close
  <2>2. /\ imp[p].at = "writing" /\ imp[p] \in ImpState /\ GoodText(imp[p])
        /\ imp[p].text \in Seq(Cell) /\ imp[p].offset \in Nat /\ n \in Nat
    BY <1>1, <1>6 DEF Close, IInv, ImpState
  <2>3. n \in imp[p].offset .. Len(imp[p].text) /\ n \in 0 .. Len(imp[p].text)
    BY <2>2 DEF GoodText
  <2> HIDE DEF n
  <2>4. /\ imp' \in [Importer -> ImpState] /\ imp'[p] = Idle
        /\ \A q \in Importer : q # p => imp'[q] = imp[q]
        /\ \A q \in Importer : GoodText(imp'[q])
    BY <2>1, IdleGood, ImpStep
  <2>5. ledger' \in Seq(Cell \cup {Hole})
    BY <1>1, <2>1, <2>2, <2>3, WrittenType
  <2>6. newest' \in [Kind -> 0 .. MaxImports]
    BY <1>1, <2>1, <2>2, NewestInType
  <2>7. TypeOK'
    BY <1>1, <2>1, <2>4, <2>5, <2>6 DEF TypeOK, ImpState
  <2>8. ASSUME shared # "now"
        PROVE  /\ PrefixOf(ledger', imp[p].text, n) /\ Tidy(ledger')
               /\ \A q \in Importer : imp[q].at = "writing" => q = p
    <3>1. /\ PrefixOf(ledger, imp[p].text, imp[p].offset)
          /\ \A q \in Importer : imp[q].at = "writing" => q = p
      BY <2>2, <2>8 DEF IInv, Alone
    <3>2. PrefixOf(ledger', imp[p].text, n)
      BY <2>1, <2>2, <2>3, <3>1, PrefixGrows
    <3>3. Tidy(ledger')
      BY <2>2, <3>2, PrefixTidy DEF GoodText
    <3> QED
      BY <3>1, <3>2, <3>3
  <2>9. ASSUME shared' # "now" PROVE Alone'
    BY <2>1, <2>4, <2>8, <2>9, IdleGood DEF Alone
  <2>10. ASSUME shared' = "never" PROVE OneGen(ledger') /\ \A q \in Importer : OneGen(imp'[q].text)
    <3>1. shared = "never" /\ \A q \in Importer : OneGen(imp[q].text)
      BY <2>1, <2>10 DEF IInv
    <3>2. \A i \in DOMAIN ledger' : i \in DOMAIN imp[p].text /\ ledger'[i] = imp[p].text[i]
      BY <2>2, <2>3, <2>8, <3>1 DEF PrefixOf
    <3>3. OneGen(ledger')
      BY <3>1, <3>2 DEF OneGen
    <3> QED
      BY <2>4, <3>1, <3>3, IdleGood
  <2> QED
    BY <2>4, <2>7, <2>9, <2>10 DEF IInv
<1>7. ASSUME NEW p \in Importer, Crash(p) PROVE IInv'
  <2>1. /\ imp' = [imp EXCEPT ![p] = Idle] /\ UNCHANGED <<ledger, imports, newest, shared>>
        /\ crashes' \in 0 .. MaxCrashes
    BY <1>1, <1>7, BoundsAssumption DEF Crash
  <2>2. /\ imp' \in [Importer -> ImpState] /\ imp'[p] = Idle
        /\ \A q \in Importer : q # p => imp'[q] = imp[q]
        /\ \A q \in Importer : GoodText(imp'[q])
    BY <2>1, IdleGood, ImpStep
  <2>3. TypeOK'
    BY <1>1, <2>1, <2>2 DEF TypeOK, ImpState
  <2>4. ASSUME shared' # "now" PROVE Alone'
    BY <2>1, <2>2, <2>4, IdleGood DEF IInv, Alone
  <2>5. ASSUME shared' = "never" PROVE OneGen(ledger') /\ \A q \in Importer : OneGen(imp'[q].text)
    BY <2>1, <2>2, <2>5, IdleGood DEF IInv
  <2> QED
    BY <2>2, <2>3, <2>4, <2>5 DEF IInv
<1>8. CASE UNCHANGED vars
  BY <1>1, <1>8 DEF vars, IInv, TypeOK, Alone
<1> QED
  BY <1>2, <1>3, <1>4, <1>5, <1>6, <1>7, <1>8 DEF Next

LEMMA Invariant == Spec => []IInv
BY InitInvariant, StepInvariant, PTL DEF Spec

(* Every reachable state is well typed, whatever the kinds, ids and bounds. *)
THEOREM TypeCorrect == Spec => []TypeOK
BY Invariant, PTL DEF IInv

(***************************************************************************)
(* common.py:176-178: however many importers overlap and are killed, only  *)
(* a file truncated under another writer can have a shape twice or a torn  *)
(* line inside, and the next rewrite that is alone makes up for it.        *)
(***************************************************************************)
THEOREM ShapesUnique == Spec => []UniqueShapes
<1>1. IInv => UniqueShapes
  <2> SUFFICES ASSUME Tidy(ledger)
               PROVE  /\ \A i, j \in Starts(ledger) : ledger[i].row.id = ledger[j].row.id => i = j
                      /\ \A i \in DOMAIN ledger :
                           \/ ledger[i].part = "line"
                           \/ ledger[i].part = "head" /\ (i < Len(ledger) => Joined(ledger, i))
                           \/ ledger[i].part = "tail" /\ i > 1 /\ Joined(ledger, i - 1)
    BY DEF IInv, Alone, UniqueShapes
  <2>1. ASSUME NEW i \in DOMAIN ledger
        PROVE  \/ ledger[i].part = "line"
               \/ ledger[i].part = "head" /\ (i < Len(ledger) => Joined(ledger, i))
               \/ ledger[i].part = "tail" /\ i > 1 /\ Joined(ledger, i - 1)
    <3>1. /\ ledger[i].part \in {"line", "head", "tail"}
          /\ DOMAIN ledger = 1 .. Len(ledger) /\ Len(ledger) \in Nat /\ i \in 1 .. Len(ledger)
      <4>1. ledger \in Seq(Cell)
        BY DEF Tidy
      <4>2. ledger[i] \in Cell
        BY <4>1
      <4> QED
        BY <4>1, <4>2 DEF Cell
    <3>2. ASSUME ledger[i].part = "head", i < Len(ledger) PROVE Joined(ledger, i)
      <4>1. i + 1 \in DOMAIN ledger
        BY <3>1, <3>2
      <4>2. ledger[i + 1] = [part |-> "tail", row |-> ledger[i].row]
        BY <3>2, <4>1 DEF Tidy, Paired
      <4> QED
        BY <3>2, <4>1, <4>2 DEF Joined
    <3>3. ASSUME ledger[i].part = "tail" PROVE i > 1 /\ Joined(ledger, i - 1)
      <4>1. i > 1 /\ ledger[i - 1] = [part |-> "head", row |-> ledger[i].row]
        BY <3>3 DEF Tidy, Paired
      <4>2. (i - 1) + 1 = i
        BY <3>1
      <4> QED
        BY <3>3, <4>1, <4>2 DEF Joined
    <3> QED
      BY <3>1, <3>2, <3>3
  <2> QED
    BY <2>1 DEF Tidy
<1> QED
  BY <1>1, Invariant, PTL

(***************************************************************************)
(* ledger_io.py:25: as long as no two rewrites overlap, no reading in      *)
(* between and no kill leaves rows of two imports under one kind, also     *)
(* when the importers own different sets of kinds.                         *)
(***************************************************************************)
THEOREM KindOfOneImport == Spec => []OneImportPerKind
<1>1. IInv => OneImportPerKind
  BY DEF IInv, OneGen, OneImportPerKind, Starts
<1> QED
  BY <1>1, Invariant, PTL

-----------------------------------------------------------------------------
(* One importer at a time. *)

Single == \A p, q \in Importer : p = q

(* No row is older than the newest complete import of its kind. *)
Fresh(file) ==
  \A i \in DOMAIN file :
    newest[file[i].row.kind] <= file[i].row.gen /\ file[i].row.gen <= imports

Freshness ==
  /\ shared = "never"
  /\ \A k \in Kind : newest[k] <= imports
  /\ Fresh(ledger)
  /\ \A p \in Importer : Fresh(imp[p].text)

(* What the file is after a flush or a close of the only importer. *)
LEMMA WriteIsPrefix ==
  ASSUME IInv, shared = "never", NEW p \in Importer, imp[p].at = "writing",
         NEW n \in imp[p].offset .. Len(imp[p].text)
  PROVE  /\ PrefixOf(Written(ledger, imp[p].text, imp[p].offset, n), imp[p].text, n)
         /\ imp[p].text \in Seq(Cell) /\ Tidy(imp[p].text) /\ OneGen(imp[p].text)
<1>1. /\ PrefixOf(ledger, imp[p].text, imp[p].offset)
      /\ imp[p].text \in Seq(Cell) /\ Tidy(imp[p].text) /\ OneGen(imp[p].text)
  BY DEF IInv, Alone, GoodText, Tidy
<1> QED
  BY <1>1, PrefixGrows

LEMMA FreshnessStep == Single /\ IInv /\ IInv' /\ Freshness /\ [Next]_vars => Freshness'
<1> SUFFICES ASSUME Single, IInv, IInv', Freshness, [Next]_vars PROVE Freshness'
  OBVIOUS
<1>1. /\ imp \in [Importer -> ImpState] /\ imports \in Nat
      /\ newest \in [Kind -> 0 .. MaxImports] /\ Tidy(ledger) /\ MaxImports \in Nat
      /\ \A p, q \in Importer : p = q
  BY BoundsAssumption DEF IInv, TypeOK, ImpState, Freshness, Alone, Single
<1>2. ASSUME NEW p \in Importer, ReadAndMerge(p) PROVE Freshness'
  <2>1. PICK own \in Owns, list \in Readings(ledger) : \E seq \in Batches(own, imports') :
          InHand(p, own, list, seq)
    BY <1>2, ReadAndMergeResult
  <2>2. PICK seq \in Batches(own, imports') : InHand(p, own, list, seq)
    BY <2>1
  <2> DEFINE rows == Upsert(list, own, seq)
  <2>3. /\ imp'[p].text = Text(rows) /\ TextOf(Text(rows), rows, MaxId)
        /\ rows \in SUBSET Row
        /\ \A r \in rows : r.gen = imports' \/ \E i \in Starts(ledger) : r = list[i]
    BY <1>1, <2>2 DEF InHand
  <2>4. /\ imports' = imports + 1 /\ UNCHANGED <<ledger, newest, shared>>
        /\ \A i \in Starts(ledger) : list[i] = ledger[i].row /\ i \in DOMAIN ledger
    BY <1>1, <1>2, ReadAndMergeResult, ReadingTidy DEF Starts
  <2> HIDE DEF rows
  <2>5. \A k \in Kind : newest[k] \in Nat /\ newest[k] <= imports
    BY <1>1 DEF Freshness
  <2>6. ASSUME NEW r \in rows PROVE newest[r.kind] <= r.gen /\ r.gen <= imports + 1
    <3>1. r.kind \in Kind /\ r.gen \in Nat
      BY <2>3 DEF Row
    <3>2. CASE r.gen = imports'
      BY <1>1, <2>4, <2>5, <3>1, <3>2
    <3>3. CASE \E i \in Starts(ledger) : r = list[i]
      <4>1. newest[r.kind] <= r.gen /\ r.gen <= imports
        BY <2>4, <3>3 DEF Freshness, Fresh
      <4> QED
        BY <1>1, <3>1, <4>1
    <3> QED
      BY <2>3, <3>2, <3>3
  <2>7. Fresh(imp[p].text)'
    BY <2>3, <2>4, <2>6 DEF Fresh, TextOf
  <2>8. Fresh(ledger)'
    <3>1. \A i \in DOMAIN ledger : ledger[i].row.gen \in Nat
      <4>1. \A i \in DOMAIN ledger : ledger[i] \in Cell
        BY <1>1 DEF Tidy
      <4> QED
        BY <4>1 DEF Cell, Row
    <3> QED
      BY <1>1, <2>4, <3>1 DEF Freshness, Fresh
  <2>9. \A k \in Kind : newest'[k] <= imports'
    BY <1>1, <2>4, <2>5
  <2>10. \A q \in Importer : Fresh(imp[q].text)'
    BY <1>1, <2>7
  <2> QED
    BY <2>4, <2>8, <2>9, <2>10 DEF Freshness
<1>3. ASSUME NEW p \in Importer, Raise(p) PROVE Freshness'
  <2>1. imports' = imports + 1 /\ UNCHANGED <<ledger, imp, newest, shared>>
    BY <1>3 DEF Raise
  <2>2. ASSUME NEW f, f \in Seq(Cell), Fresh(f)
        PROVE  \A i \in DOMAIN f : newest[f[i].row.kind] <= f[i].row.gen /\ f[i].row.gen <= imports + 1
    <3>1. \A i \in DOMAIN f : f[i] \in Cell
      BY <2>2
    <3>2. \A i \in DOMAIN f : f[i].row.gen \in Nat
      BY <3>1 DEF Cell, Row
    <3> QED
      BY <1>1, <2>2, <3>2 DEF Fresh
  <2>3. ledger \in Seq(Cell) /\ \A q \in Importer : imp[q].text \in Seq(Cell)
    BY <1>1 DEF Tidy, ImpState
  <2>4. Fresh(ledger)' /\ \A q \in Importer : Fresh(imp[q].text)'
    BY <2>1, <2>2, <2>3 DEF Freshness, Fresh
  <2>5. \A k \in Kind : newest[k] <= imports + 1
    BY <1>1 DEF Freshness
  <2> QED
    BY <2>1, <2>4, <2>5 DEF Freshness
<1>4. ASSUME NEW p \in Importer, OpenToWrite(p) PROVE Freshness'
  <2>1. imp[p].at = "merged" /\ ledger' = << >> /\ UNCHANGED <<imports, newest>>
        /\ imp' = [imp EXCEPT ![p].at = "writing"]
    BY <1>4 DEF OpenToWrite
  <2>2. \A q \in Importer : imp'[q].text = imp[q].text
    BY <1>1, <2>1 DEF ImpState
  <2>3. Writing = {}
    BY <1>1, <2>1 DEF Writing
  <2>4. shared' = "never"
    BY <1>4, <2>3 DEF OpenToWrite, Freshness
  <2> QED
    BY <2>1, <2>2, <2>4 DEF Freshness, Fresh
<1>5. ASSUME NEW p \in Importer, Flush(p) PROVE Freshness'
  <2>1. PICK n \in imp[p].offset + 1 .. Len(imp[p].text) :
          /\ ledger' = Written(ledger, imp[p].text, imp[p].offset, n)
          /\ imp' = [imp EXCEPT ![p].offset = n]
    BY <1>5 DEF Flush
  <2>2. imp[p].at = "writing" /\ UNCHANGED <<imports, newest, shared>>
    BY <1>5 DEF Flush
  <2>3. imp[p].offset \in Nat /\ Len(imp[p].text) \in Nat /\ n \in imp[p].offset .. Len(imp[p].text)
    BY <1>1, <2>1 DEF ImpState
  <2>4. PrefixOf(ledger', imp[p].text, n)
    BY <2>1, <2>2, <2>3, WriteIsPrefix DEF Freshness
  <2>5. \A i \in DOMAIN ledger' : i \in DOMAIN imp[p].text /\ ledger'[i] = imp[p].text[i]
    BY <1>1, <2>3, <2>4 DEF PrefixOf, ImpState
  <2>6. \A q \in Importer : imp'[q].text = imp[q].text
    BY <1>1, <2>1 DEF ImpState
  <2> QED
    BY <2>2, <2>5, <2>6 DEF Freshness, Fresh
<1>6. ASSUME NEW p \in Importer, Close(p) PROVE Freshness'
  <2> DEFINE text == imp[p].text
  <2>1. /\ imp[p].at = "writing" /\ UNCHANGED <<imports, shared>> /\ imp' = [imp EXCEPT ![p] = Idle]
        /\ ledger' = Written(ledger, text, imp[p].offset, Len(text))
        /\ newest' = [k \in Kind |-> NewestIn(text, k)]
    BY <1>6 DEF Close
  <2>2. imp[p].offset \in Nat /\ Len(text) \in Nat /\ Len(text) \in imp[p].offset .. Len(text)
    BY <1>1 DEF IInv, GoodText, ImpState
  <2>3. PrefixOf(ledger', text, Len(text)) /\ text \in Seq(Cell) /\ OneGen(text) /\ Fresh(text)
    BY <2>1, <2>2, WriteIsPrefix DEF Freshness
  <2>4. \A i \in DOMAIN ledger' : i \in DOMAIN text /\ ledger'[i] = text[i]
    BY <2>2, <2>3 DEF PrefixOf
  <2>5. \A q \in Importer : imp'[q].text = << >>
    BY <1>1, <2>1 DEF Idle
  <2> HIDE DEF text
  <2>6. ASSUME NEW k \in Kind PROVE newest'[k] <= imports
    <3>1. newest[k] <= imports
      BY DEF Freshness
    <3> QED
      BY <1>1, <2>1, <2>3, <3>1, NewestInType DEF Fresh
  <2>7. ASSUME NEW i \in DOMAIN text
        PROVE  newest'[text[i].row.kind] <= text[i].row.gen /\ text[i].row.gen <= imports
    <3>1. text[i] \in Cell
      BY <2>3
    <3>2. text[i].row.kind \in Kind /\ text[i].row.gen \in Nat
      BY <3>1 DEF Cell, Row
    <3>3. \/ NewestIn(text, text[i].row.kind) = newest[text[i].row.kind]
          \/ \E j \in DOMAIN text : /\ text[j].row.kind = text[i].row.kind
                                    /\ NewestIn(text, text[i].row.kind) = text[j].row.gen
      BY <1>1, <2>3, <3>2, NewestInType
    <3>4. \/ NewestIn(text, text[i].row.kind) = newest[text[i].row.kind]
          \/ NewestIn(text, text[i].row.kind) = text[i].row.gen
      BY <2>3, <3>3 DEF OneGen
    <3> QED
      BY <2>1, <2>3, <3>2, <3>4 DEF Fresh
  <2>8. Fresh(ledger)'
    BY <2>1, <2>4, <2>7 DEF Fresh
  <2> QED
    BY <2>1, <2>5, <2>6, <2>8 DEF Freshness, Fresh
<1>7. ASSUME NEW p \in Importer, Crash(p) PROVE Freshness'
  <2>1. imp' = [imp EXCEPT ![p] = Idle] /\ UNCHANGED <<ledger, imports, newest, shared>>
    BY <1>7 DEF Crash
  <2>2. \A q \in Importer : imp'[q].text = << >>
    BY <1>1, <2>1 DEF Idle
  <2> QED
    BY <2>1, <2>2 DEF Freshness, Fresh
<1>8. CASE UNCHANGED vars
  BY <1>8 DEF vars, Freshness, Fresh
<1> QED
  BY <1>2, <1>3, <1>4, <1>5, <1>6, <1>7, <1>8 DEF Next

LEMMA FreshnessInit == Init => Freshness
BY DEF Init, Freshness, Fresh, Idle

(***************************************************************************)
(* ledger_io.py:24-34: with importers run one after the other, no row that *)
(* a complete import replaced is seen again, whatever was killed since.    *)
(***************************************************************************)
THEOREM NeverStale ==
  ASSUME Single
  PROVE  Spec => []NoStaleRows
<1>1. IInv /\ Freshness => NoStaleRows
  <2> SUFFICES ASSUME IInv, Freshness, NEW i \in Starts(ledger)
               PROVE  ledger[i].row.gen >= newest[ledger[i].row.kind]
    BY DEF NoStaleRows
  <2>1. ledger \in Seq(Cell) /\ i \in DOMAIN ledger /\ newest \in [Kind -> 0 .. MaxImports]
    BY DEF IInv, TypeOK, Alone, Freshness, Tidy, Starts
  <2>2. ledger[i] \in Cell
    BY <2>1
  <2>3. ledger[i].row.gen \in Nat /\ newest[ledger[i].row.kind] \in Nat
    BY <2>1, <2>2 DEF Cell, Row
  <2> QED
    BY <2>1, <2>3 DEF Freshness, Fresh
<1> QED
  BY <1>1, Invariant, FreshnessInit, FreshnessStep, PTL DEF Spec

-----------------------------------------------------------------------------
(* The refinement, one importer at a time. *)

LEMMA CompleteIs ==
  ASSUME NEW file, Tidy(file), Ended(file) \/ Readable(file)
  PROVE  Complete(file) = {file[i].row : i \in Starts(file)}
<1>1. ASSUME NEW i \in DOMAIN file, file[i].part = "head" PROVE Joined(file, i)
  <2>1. i + 1 \in DOMAIN file
    BY <1>1 DEF Ended, Readable, Joined
  <2>2. file[i + 1] = [part |-> "tail", row |-> file[i].row]
    BY <1>1, <2>1 DEF Tidy, Paired
  <2> QED
    BY <1>1, <2>1, <2>2 DEF Joined
<1>2. \A i \in DOMAIN file : Joined(file, i) => file[i].part = "head"
  BY DEF Joined
<1>3. {j \in DOMAIN file : file[j].part = "line" \/ Joined(file, j)} = Starts(file)
  BY <1>1, <1>2 DEF Starts
<1> QED
  BY <1>3 DEF Complete

LEMMA TextComplete ==
  ASSUME NEW rows \in SUBSET Row, NEW text, TextOf(text, rows, MaxId)
  PROVE  Complete(text) = rows
<1>1. Complete(text) = {text[i].row : i \in Starts(text)}
  BY CompleteIs DEF TextOf
<1>2. \A i \in Starts(text) : text[i].row \in rows
  BY DEF TextOf, Starts
<1>3. \A r \in rows : \E i \in Starts(text) : text[i].row = r
  BY BoundsAssumption DEF TextOf, Row
<1> QED
  BY <1>1, <1>2, <1>3

LEMMA PrefixComplete ==
  ASSUME NEW text \in Seq(Cell), NEW n, NEW file, PrefixOf(file, text, n)
  PROVE  Complete(file) \subseteq Complete(text)
<1>1. \A i \in DOMAIN file : i \in DOMAIN text /\ file[i] = text[i]
  BY DEF PrefixOf
<1>2. \A i \in DOMAIN file : Joined(file, i) => Joined(text, i)
  BY <1>1 DEF Joined
<1> QED
  BY <1>1, <1>2 DEF Complete

(* A merge takes from the other kinds the shapes it has itself, and no more. *)
LEMMA MergeKeeps ==
  ASSUME NEW file, Tidy(file), Readable(file), NEW list \in Readings(file),
         NEW own \in SUBSET Kind, NEW g, NEW seq \in Batches(own, g), NEW r, r.kind \notin own
  PROVE  r \in Upsert(list, own, seq) <=>
           /\ r \in Complete(file)
           /\ \A s \in Upsert(list, own, seq) : s.kind \in own => s.id # r.id
<1> DEFINE kept == Kept(list, own)
           new == LastById(seq)
           old == {x \in LastById(kept) : x.id \notin Ids(new)}
<1>1. /\ DOMAIN list = Starts(file) /\ Starts(file) \subseteq Nat
      /\ \A i \in Starts(file) : list[i] = file[i].row
  <2>1. file \in Seq(Cell)
    BY DEF Tidy
  <2>2. DOMAIN list = Starts(file)
    BY DEF Readings
  <2>3. Starts(file) \subseteq Nat
    BY <2>1 DEF Starts
  <2> QED
    BY <2>2, <2>3, ReadingTidy
<1>2. /\ DOMAIN kept = {i \in Starts(file) : file[i].row.kind \notin own}
      /\ \A i \in DOMAIN kept : kept[i] = file[i].row
  BY <1>1 DEF Kept
<1>3. \A i, j \in DOMAIN kept : kept[i].id = kept[j].id => i = j
  BY <1>2 DEF Tidy
<1>4. Upsert(list, own, seq) = old \cup new
  BY DEF Upsert
<1>5. \A x \in new : x.kind \in own
  <2>1. /\ DOMAIN seq \subseteq Nat /\ \A n \in DOMAIN seq : seq[n].kind \in own
    BY BatchType
  <2>2. \A x \in new : \E i \in DOMAIN seq : x = seq[i]
    BY <2>1, LastByIdUnique
  <2> QED
    BY <2>1, <2>2
<1> HIDE DEF kept, new
<1>6. \A x : x \in LastById(kept) <=> \E i \in DOMAIN kept : x = kept[i]
  <2>1. \A i \in DOMAIN kept : i \in Nat
    BY <1>1, <1>2
  <2>2. \A i, m \in DOMAIN kept : m > i => kept[m].id # kept[i].id
    BY <1>3, <2>1
  <2> QED
    BY <2>2 DEF LastById
<1>7. \A x \in LastById(kept) : x.kind \notin own
  BY <1>2, <1>6
<1>8. Complete(file) = {file[i].row : i \in Starts(file)}
  BY CompleteIs
<1>9. r \in LastById(kept) <=> r \in Complete(file)
  BY <1>2, <1>6, <1>8
<1>10. \A s : s \in Upsert(list, own, seq) /\ s.kind \in own <=> s \in new
  BY <1>4, <1>5, <1>7
<1>11. r \in Upsert(list, own, seq) <=> r \in LastById(kept) /\ r.id \notin Ids(new)
  BY <1>4, <1>5
<1>12. r.id \notin Ids(new) <=> \A s \in new : s.id # r.id
  BY DEF Ids
<1> QED
  BY <1>9, <1>10, <1>11, <1>12

(* What an importer holds against what the file holds. *)
OthersKept ==
  \A p \in Importer :
    /\ imp[p].at # "idle" => imp[p].own \in Owns
    /\ imp[p].at = "merged" =>
         /\ Complete(imp[p].text) \subseteq Row
         /\ \A r \in Row : r.kind \notin imp[p].own =>
              (r \in Complete(imp[p].text) <=>
                 /\ r \in Complete(ledger)
                 /\ \A s \in Complete(imp[p].text) : s.kind \in imp[p].own => s.id # r.id)

LEMMA OthersKeptStep == Single /\ IInv /\ Freshness /\ OthersKept /\ [Next]_vars => OthersKept'
<1> SUFFICES ASSUME Single, IInv, Freshness, OthersKept, [Next]_vars PROVE OthersKept'
  OBVIOUS
<1>1. /\ imp \in [Importer -> ImpState] /\ Tidy(ledger)
      /\ \A p, q \in Importer : p = q
  BY DEF IInv, TypeOK, ImpState, Alone, Freshness, Single
<1>2. ASSUME NEW p \in Importer, ReadAndMerge(p) PROVE OthersKept'
  <2>1. PICK own \in Owns, list \in Readings(ledger) : \E seq \in Batches(own, imports') :
          InHand(p, own, list, seq)
    BY <1>2, ReadAndMergeResult
  <2>2. PICK g : g = imports'
    OBVIOUS
  <2>3. PICK seq \in Batches(own, g) : InHand(p, own, list, seq)
    BY <2>1, <2>2
  <2> DEFINE rows == Upsert(list, own, seq)
  <2>4. /\ imp'[p].at = "merged" /\ imp'[p].own = own /\ imp'[p].text = Text(rows)
        /\ TextOf(Text(rows), rows, MaxId) /\ rows \in SUBSET Row
    BY <1>1, <2>3 DEF InHand
  <2>5. Complete(Text(rows)) = rows
    BY <2>4, TextComplete
  <2>6. ledger' = ledger /\ Readable(ledger) /\ own \in SUBSET Kind
    BY <1>2, OwnsAssumption, ReadAndMergeResult
  <2>7. ASSUME NEW r \in Row, r.kind \notin own
        PROVE  r \in rows <=> r \in Complete(ledger) /\ \A s \in rows : s.kind \in own => s.id # r.id
    BY <1>1, <2>6, <2>7, MergeKeeps
  <2> HIDE DEF rows
  <2>8. Complete(imp'[p].text) = rows
    BY <2>4, <2>5
  <2>9. \A q \in Importer : q = p
    BY <1>1
  <2> QED
    BY <2>4, <2>6, <2>7, <2>8, <2>9 DEF OthersKept
<1>3. ASSUME NEW p \in Importer, OpenToWrite(p) PROVE OthersKept'
  <2>1. imp[p].at = "merged" /\ imp' = [imp EXCEPT ![p].at = "writing"]
    BY <1>3 DEF OpenToWrite
  <2>2. imp'[p].at = "writing" /\ imp'[p].own = imp[p].own
    BY <1>1, <2>1 DEF ImpState
  <2> QED
    BY <1>1, <2>1, <2>2 DEF OthersKept
<1>4. ASSUME NEW p \in Importer, Flush(p) PROVE OthersKept'
  <2>1. PICK n : imp' = [imp EXCEPT ![p].offset = n]
    BY <1>4 DEF Flush
  <2>2. imp[p].at = "writing" /\ imp'[p].at = "writing" /\ imp'[p].own = imp[p].own
    BY <1>1, <1>4, <2>1 DEF Flush, ImpState
  <2> QED
    BY <1>1, <2>2 DEF OthersKept
<1>5. ASSUME NEW p \in Importer, Close(p) \/ Crash(p) PROVE OthersKept'
  <2>1. imp' = [imp EXCEPT ![p] = Idle]
    BY <1>5 DEF Close, Crash
  <2>2. imp'[p].at = "idle"
    BY <1>1, <2>1 DEF Idle
  <2> QED
    BY <1>1, <2>2 DEF OthersKept
<1>6. CASE UNCHANGED <<ledger, imp>>
  BY <1>6 DEF OthersKept
<1> QED
  BY <1>2, <1>3, <1>4, <1>5, <1>6 DEF Next, Raise, vars

LEMMA OthersKeptInit == Init => OthersKept
<1> SUFFICES ASSUME Init PROVE OthersKept
  OBVIOUS
<1>1. \A p \in Importer : imp[p].at = "idle"
  BY DEF Init, Idle
<1> QED
  BY <1>1 DEF OthersKept

(* The content that the abstract ledger has. *)
LEMMA SettledIs ==
  ASSUME Single
  PROVE  /\ \A p \in Importer : imp[p].at # "writing" => settled = Complete(ledger)
         /\ \A p \in Importer : imp[p].at = "writing" => settled = Complete(imp[p].text)
<1>1. ASSUME NEW p \in Importer, imp[p].at = "writing" PROVE settled = Complete(imp[p].text)
  <2>1. Writing = {p}
    BY <1>1 DEF Single, Writing
  <2> QED
    BY <2>1 DEF settled
<1>2. ASSUME NEW p \in Importer, imp[p].at # "writing" PROVE settled = Complete(ledger)
  <2>1. Writing = {}
    BY <1>2 DEF Single, Writing
  <2> QED
    BY <2>1 DEF settled
<1> QED
  BY <1>1, <1>2

LEMMA SettledIsNext ==
  ASSUME Single
  PROVE  /\ \A p \in Importer : imp'[p].at # "writing" => settled' = Complete(ledger')
         /\ \A p \in Importer : imp'[p].at = "writing" => settled' = Complete(imp'[p].text)
<1>1. ASSUME NEW p \in Importer, imp'[p].at = "writing" PROVE settled' = Complete(imp'[p].text)
  <2>1. Writing' = {p}
    BY <1>1 DEF Single, Writing
  <2> QED
    BY <2>1 DEF settled
<1>2. ASSUME NEW p \in Importer, imp'[p].at # "writing" PROVE settled' = Complete(ledger')
  <2>1. Writing' = {}
    BY <1>2 DEF Single, Writing
  <2> QED
    BY <2>1 DEF settled
<1> QED
  BY <1>1, <1>2

(* A file of whatever origin has rows on its complete lines. *)
LEMMA CompleteType ==
  ASSUME NEW file \in Seq(Cell)
  PROVE  Complete(file) \in SUBSET Row
<1>1. \A i \in DOMAIN file : file[i] \in Cell
  OBVIOUS
<1> QED
  BY <1>1 DEF Complete, Cell

(* One step of the file is an import, a loss or nothing of the union. *)
LEMMA UnionStep ==
  ASSUME Single, IInv, Freshness, OthersKept, IInv', Freshness', [Next]_vars
  PROVE  [Union!Next]_(Union!vars)
<1> DEFINE Contrib(rows) == [k \in Kind |-> {r \in rows : r.kind = k}]
<1>1. /\ contribBar = Contrib(settled) /\ contribBar' = Contrib(settled')
      /\ imp \in [Importer -> ImpState] /\ imp' \in [Importer -> ImpState]
      /\ ledger \in Seq(Cell) /\ ledger' \in Seq(Cell)
  BY DEF contribBar, IInv, TypeOK, ImpState, Alone, Freshness, Tidy
<1>2. \A rows \in SUBSET Row : Contrib(rows) \in [Kind -> SUBSET Row]
  OBVIOUS
<1>3. ASSUME NEW p \in Importer, OpenToWrite(p) PROVE Union!Next
  <2>1. /\ imp[p].at = "merged" /\ imp'[p].at = "writing" /\ imp'[p].text = imp[p].text
        /\ UNCHANGED crashes
    BY <1>1, <1>3 DEF OpenToWrite, ImpState
  <2> DEFINE own == imp[p].own
             rows == Complete(imp[p].text)
  <2>2. settled = Complete(ledger) /\ settled' = rows
    BY <2>1, SettledIs, SettledIsNext
  <2>3. /\ own \in Owns /\ own \subseteq Kind /\ rows \in SUBSET Row
        /\ Complete(ledger) \in SUBSET Row
        /\ \A r \in Row : r.kind \notin own =>
             (r \in rows <=> /\ r \in Complete(ledger)
                             /\ \A s \in rows : s.kind \in own => s.id # r.id)
    BY <1>1, <2>1, CompleteType, OwnsAssumption DEF OthersKept
  <2> HIDE DEF own, rows
  <2> DEFINE taken == {r.id : r \in UNION {contribBar'[k] : k \in own}}
  <2>4. \A k \in Kind : /\ contribBar'[k] = {r \in rows : r.kind = k}
                        /\ contribBar[k] = {r \in Complete(ledger) : r.kind = k}
    BY <1>1, <2>2
  <2>5. UNION {contribBar'[k] : k \in own} = {s \in rows : s.kind \in own}
    BY <2>3, <2>4
  <2>6. \A i : i \notin taken <=> \A s \in rows : s.kind \in own => s.id # i
    BY <2>5
  <2> HIDE DEF taken
  <2>7. ASSUME NEW k \in Kind \ own
        PROVE  contribBar'[k] = {r \in contribBar[k] : r.id \notin taken}
    BY <2>3, <2>4, <2>6
  <2>8. contribBar' \in [Kind -> SUBSET Row]
    BY <1>1, <1>2, <2>2, <2>3
  <2>9. Union!Import(own)
    BY <2>1, <2>7, <2>8 DEF Union!Import, taken
  <2> QED
    BY <2>3, <2>9 DEF Union!Next
<1>4. ASSUME NEW p \in Importer, Crash(p) PROVE Union!Next
  <2>1. /\ imp[p].at = "writing" /\ UNCHANGED ledger /\ crashes' = crashes + 1
        /\ imp' = [imp EXCEPT ![p] = Idle]
    BY <1>4 DEF Crash
  <2>2. imp'[p].at # "writing"
    BY <1>1, <2>1 DEF Idle
  <2>3. settled = Complete(imp[p].text) /\ settled' = Complete(ledger)
    BY <2>1, <2>2, SettledIs, SettledIsNext
  <2>4. Complete(ledger) \subseteq Complete(imp[p].text)
    <3>1. PrefixOf(ledger, imp[p].text, imp[p].offset) /\ imp[p].text \in Seq(Cell)
      BY <2>1 DEF IInv, Alone, Freshness, GoodText, Tidy
    <3> QED
      BY <3>1, PrefixComplete
  <2>5. contribBar' \in [Kind -> SUBSET Row]
    BY <1>1, <1>2, <2>3, CompleteType
  <2>6. \A k \in Kind : contribBar'[k] \subseteq contribBar[k]
    BY <1>1, <2>3, <2>4
  <2> QED
    BY <2>1, <2>5, <2>6 DEF Union!Lose, Union!Next
<1>5. ASSUME settled' = settled, crashes' = crashes PROVE UNCHANGED Union!vars
  BY <1>1, <1>5 DEF Union!vars
<1> HIDE DEF Contrib
<1>6. ASSUME NEW p \in Importer, ReadAndMerge(p) PROVE UNCHANGED Union!vars
  <2>1. imp[p].at = "idle" /\ UNCHANGED <<ledger, crashes>> /\ imp'[p].at = "merged"
    BY <1>1, <1>6 DEF ReadAndMerge
  <2>2. settled' = settled
    BY <2>1, SettledIs, SettledIsNext
  <2> QED
    BY <1>5, <2>1, <2>2
<1>7. ASSUME NEW p \in Importer, Raise(p) PROVE UNCHANGED Union!vars
  BY <1>5, <1>7 DEF Raise, settled, Writing
<1>8. ASSUME NEW p \in Importer, Flush(p) PROVE UNCHANGED Union!vars
  <2>1. PICK n : imp' = [imp EXCEPT ![p].offset = n]
    BY <1>8 DEF Flush
  <2>2. /\ imp[p].at = "writing" /\ imp'[p].at = "writing" /\ imp'[p].text = imp[p].text
        /\ UNCHANGED crashes
    BY <1>1, <1>8, <2>1 DEF Flush, ImpState
  <2>3. settled' = settled
    BY <2>2, SettledIs, SettledIsNext
  <2> QED
    BY <1>5, <2>2, <2>3
<1>9. ASSUME NEW p \in Importer, Close(p) PROVE UNCHANGED Union!vars
  <2> DEFINE text == imp[p].text
  <2>1. /\ imp[p].at = "writing" /\ UNCHANGED crashes /\ imp' = [imp EXCEPT ![p] = Idle]
        /\ ledger' = Written(ledger, text, imp[p].offset, Len(text))
    BY <1>9 DEF Close
  <2>2. imp[p].offset \in Nat /\ Len(text) \in Nat /\ Len(text) \in imp[p].offset .. Len(text)
    BY <1>1 DEF IInv, GoodText, ImpState
  <2>3. PrefixOf(ledger', text, Len(text)) /\ text \in Seq(Cell)
    BY <2>1, <2>2, WriteIsPrefix DEF Freshness
  <2>4. ledger' = text
    BY <1>1, <2>3 DEF PrefixOf
  <2>5. imp'[p].at # "writing"
    BY <1>1, <2>1 DEF Idle
  <2>6. settled' = settled
    BY <2>1, <2>4, <2>5, SettledIs, SettledIsNext
  <2> QED
    BY <1>5, <2>1, <2>6
<1>10. CASE UNCHANGED vars
  BY <1>5, <1>10 DEF vars, settled, Writing
<1> QED
  BY <1>3, <1>4, <1>6, <1>7, <1>8, <1>9, <1>10 DEF Next

LEMMA UnionInit == Init => Union!Init
<1> SUFFICES ASSUME Init PROVE Union!Init
  OBVIOUS
<1>1. Writing = {} /\ ledger = << >> /\ crashes = 0
  BY DEF Init, Writing, Idle
<1>2. settled = {}
  BY <1>1 DEF settled, Complete
<1> QED
  BY <1>1, <1>2 DEF Union!Init, contribBar

(***************************************************************************)
(* shape_ledgers/README.md:5-6 and 90-91: for one importer at a time the   *)
(* file is the union of what its sources contributed, each shape its last  *)
(* writer's; an import changes nothing else, and only a kill takes rows    *)
(* away.                                                                   *)
(***************************************************************************)
THEOREM LedgerIsUnion ==
  ASSUME Single
  PROVE  Spec => ImplementsUnion
<1>1. IInv /\ Freshness /\ OthersKept /\ IInv' /\ Freshness' /\ [Next]_vars
        => [Union!Next]_(Union!vars)
  BY UnionStep
<1> QED
  BY <1>1, UnionInit, Invariant, FreshnessInit, FreshnessStep, OthersKeptInit, OthersKeptStep, PTL
     DEF Spec, ImplementsUnion, Union!Spec
=============================================================================
