----------------------------- MODULE ShapeLedger -----------------------------
(***************************************************************************)
(* One shape_ledger.jsonl and the importers that rewrite it through        *)
(* shape_ledgers/ledger_io.py.  An import reads the whole file, drops the  *)
(* rows of the kinds it owns, adds its own, validates, truncates the file  *)
(* and writes it again.  Nothing locks the file and nothing renames a      *)
(* finished copy over it, and every writer writes from an offset of its    *)
(* own: what a second one truncates or writes, the first one writes over.  *)
(*                                                                         *)
(* A row is its identity (shape_id), its source.kind and `gen', the import *)
(* that produced it, which stands for the rest of its content.  Ids are    *)
(* numbered in the order of the file's sort key.  The file is a sequence   *)
(* of cells of equal size.  A line takes one cell, or two if its id is in  *)
(* LongIds, so that the lines of two writers need not fall on one another. *)
(* Reading the file is one step: it is much shorter than an import.        *)
(***************************************************************************)
EXTENDS Naturals, Sequences

CONSTANTS
  Importer,    \* the importer processes
  Kind,        \* the values of source.kind in the schema
  Owns,        \* the sets of kinds one import may declare in replace_kinds
  IdsOf,       \* IdsOf[k]: the shape_ids that rows of kind k can have
  MaxId,       \* the shape_ids are 1 .. MaxId
  LongIds,     \* the ids whose lines are twice as long as the others'
  MaxBatch,    \* bound on the rows of one import
  MaxImports,  \* bound on the imports
  MaxCrashes   \* bound on the importers killed while they write

ASSUME OwnsAssumption == Owns \subseteq SUBSET Kind
ASSUME IdsOfAssumption == IdsOf \in [Kind -> SUBSET (1 .. MaxId)]
ASSUME BoundsAssumption ==
  /\ MaxId \in Nat /\ LongIds \subseteq 1 .. MaxId
  /\ MaxBatch \in Nat /\ MaxImports \in Nat /\ MaxCrashes \in Nat

(* What a line may say, and what an importer makes of it. *)
Row == [id : 1 .. MaxId, kind : Kind, gen : 1 .. MaxImports]

Rows(kinds) == {r \in Row : r.kind \in kinds /\ r.id \in IdsOf[r.kind]}

Cell == [part : {"line", "head", "tail"}, row : Row]

(* What a file reads as where nobody wrote: NULs. *)
Hole == [part |-> "hole"]

VARIABLES
  ledger,   \* the file: a sequence of cells and holes
  imp,      \* imp[p]: the state of importer p
  imports,  \* imports started so far
  crashes,  \* importers killed so far
  newest,   \* newest[k]: the latest import whose rows of kind k were complete
            \* in the file (history, read by no action)
  shared    \* whether the file was truncated while another importer had it
            \* open: "never", "before" or at the last time (history, too)

vars == <<ledger, imp, imports, crashes, newest, shared>>

Idle == [at |-> "idle", own |-> {}, text |-> << >>, offset |-> 0]

TypeOK ==
  /\ ledger \in Seq(Cell \cup {Hole})
  /\ imp \in [Importer -> [at : {"idle", "merged", "writing"}, own : SUBSET Kind,
                           text : Seq(Cell), offset : Nat]]
  /\ imports \in 0 .. MaxImports
  /\ crashes \in 0 .. MaxCrashes
  /\ newest \in [Kind -> 0 .. MaxImports]
  /\ shared \in {"never", "before", "now"}

Init ==
  /\ ledger = << >>
  /\ imp = [p \in Importer |-> Idle]
  /\ imports = 0
  /\ crashes = 0
  /\ newest = [k \in Kind |-> 0]
  /\ shared = "never"

-----------------------------------------------------------------------------
(* Lines and cells. *)

Line(r) == IF r.id \in LongIds THEN <<[part |-> "head", row |-> r], [part |-> "tail", row |-> r]>>
           ELSE <<[part |-> "line", row |-> r]>>

(* The lines of the rows with the ids 1 .. n, in the order of the sort key. *)
Text(rows) ==
  LET upTo[n \in 0 .. MaxId] ==
        IF n = 0 THEN << >>
        ELSE IF \E r \in rows : r.id = n
             THEN upTo[n - 1] \o Line(CHOOSE r \in rows : r.id = n)
             ELSE upTo[n - 1]
  IN  upTo[MaxId]

(* A file of which one writer has written the cells from + 1 .. to. *)
Written(file, text, from, to) ==
  [i \in 1 .. (IF to > Len(file) THEN to ELSE Len(file)) |->
     IF i \in from + 1 .. to THEN text[i]
     ELSE IF i \in DOMAIN file THEN file[i] ELSE Hole]

Starts(file) == {i \in DOMAIN file : file[i].part \in {"line", "head"}}

(* The head of a line and its rest follow one another. *)
Joined(file, i) == i + 1 \in DOMAIN file /\ file[i].part = "head" /\ file[i + 1].part = "tail"

Readable(file) ==
  \A i \in DOMAIN file :
    \/ file[i].part = "line"
    \/ Joined(file, i)
    \/ file[i].part = "tail" /\ i > 1 /\ Joined(file, i - 1)

EndRow(file, i) == IF Joined(file, i) THEN file[i + 1].row ELSE file[i].row

(***************************************************************************)
(* What read_jsonl can make of the lines.  A line that begins as one row   *)
(* and ends as another, if it parses at all, has fields of both.           *)
(***************************************************************************)
Mixes(r, s) == [id : {r.id, s.id}, kind : {r.kind, s.kind}, gen : {r.gen, s.gen}]

Readings(file) ==
  {rows \in [Starts(file) -> UNION {Mixes(file[i].row, EndRow(file, i)) : i \in Starts(file)}] :
     \A i \in Starts(file) : rows[i] \in Mixes(file[i].row, EndRow(file, i))}

-----------------------------------------------------------------------------
(* The merge of upsert_ledger, on lists of rows as functions of positions. *)

(* Mutants of Kept: nothing is dropped; the rows kept lose their kind. *)
KeptAll(list, own) == list

KeptUnnamed(list, own) ==
  [i \in {j \in DOMAIN list : list[j].kind \notin own} |-> [list[i] EXCEPT !.kind = ""]]

Kept(list, own) == [i \in {j \in DOMAIN list : list[j].kind \notin own} |-> list[i]]

(* The dict by_id over a list: of the rows with one id the last one stays. *)
LastById(list) ==
  {list[i] : i \in {n \in DOMAIN list :
                      \A m \in DOMAIN list : m > n => list[m].id # list[n].id}}

Ids(rows) == {r.id : r \in rows}

(* Mutant of Upsert: the plain rewrite. *)
UpsertOverwrite(list, own, seq) == LastById(seq)

(* kept + new_rows, the last writer of an id wins. *)
Upsert(list, own, seq) ==
  LET new == LastById(seq)
  IN  {r \in LastById(Kept(list, own)) : r.id \notin Ids(new)} \cup new

(* The rows an importer may come up with: all of kinds it declares. *)
Batches(own, n) ==
  UNION {[1 .. len -> {r \in Rows(own) : r.gen = n}] : len \in 0 .. MaxBatch}

Writing == {p \in Importer : imp[p].at = "writing"}

-----------------------------------------------------------------------------
(* One import, and the ways it ends. *)

(* read_jsonl, the merge in memory, and a validation that finds no error. *)
ReadAndMerge(p) ==
  /\ imp[p].at = "idle" /\ imports < MaxImports /\ Readable(ledger)
  /\ imports' = imports + 1
  /\ \E own \in Owns, list \in Readings(ledger) : \E seq \in Batches(own, imports') :
       imp' = [imp EXCEPT ![p] = [at |-> "merged", own |-> own,
                                  text |-> Text(Upsert(list, own, seq)), offset |-> 0]]
  /\ UNCHANGED <<ledger, crashes, newest, shared>>

(* read_jsonl meets a line that is none, or validation an error: raised    *)
(* with nothing written.                                                   *)
Raise(p) ==
  /\ imp[p].at = "idle" /\ imports < MaxImports
  /\ imports' = imports + 1
  /\ UNCHANGED <<ledger, imp, crashes, newest, shared>>

(* Mutant of OpenToWrite: the file is opened to update, and not truncated. *)
OpenToUpdate(p) ==
  /\ imp[p].at = "merged"
  /\ imp' = [imp EXCEPT ![p].at = "writing"]
  /\ shared' = IF Writing # {} THEN "now" ELSE IF shared = "never" THEN "never" ELSE "before"
  /\ UNCHANGED <<ledger, imports, crashes, newest>>

(* write_jsonl: open(path, "w") truncates what everybody else sees, and    *)
(* leaves the offsets of those who have the file open where they are.      *)
OpenToWrite(p) ==
  /\ imp[p].at = "merged"
  /\ ledger' = << >>
  /\ imp' = [imp EXCEPT ![p].at = "writing"]
  /\ shared' = IF Writing # {} THEN "now" ELSE IF shared = "never" THEN "never" ELSE "before"
  /\ UNCHANGED <<imports, crashes, newest>>

(* A buffer is flushed, at any place of any line. *)
Flush(p) ==
  /\ imp[p].at = "writing"
  /\ \E n \in imp[p].offset + 1 .. Len(imp[p].text) :
       /\ ledger' = Written(ledger, imp[p].text, imp[p].offset, n)
       /\ imp' = [imp EXCEPT ![p].offset = n]
  /\ UNCHANGED <<imports, crashes, newest, shared>>

NewestIn(text, k) ==
  LET gens == {newest[k]} \cup {text[i].row.gen : i \in {j \in DOMAIN text : text[j].row.kind = k}}
  IN  CHOOSE g \in gens : \A h \in gens : h <= g

(* The last flush and close. *)
Close(p) ==
  /\ imp[p].at = "writing"
  /\ ledger' = Written(ledger, imp[p].text, imp[p].offset, Len(imp[p].text))
  /\ imp' = [imp EXCEPT ![p] = Idle]
  /\ newest' = [k \in Kind |-> NewestIn(imp[p].text, k)]
  /\ UNCHANGED <<imports, crashes, shared>>

(* The importer is killed while it writes: the file stays as it is. *)
Crash(p) ==
  /\ imp[p].at = "writing" /\ crashes < MaxCrashes
  /\ crashes' = crashes + 1
  /\ imp' = [imp EXCEPT ![p] = Idle]
  /\ UNCHANGED <<ledger, imports, newest, shared>>

Next ==
  \E p \in Importer :
    \/ ReadAndMerge(p) \/ Raise(p) \/ OpenToWrite(p)
    \/ Flush(p) \/ Close(p) \/ Crash(p)

Spec == Init /\ [][Next]_vars

-----------------------------------------------------------------------------
(* Properties. *)

(***************************************************************************)
(* Importers that overlap harm the file only by opening it to write while  *)
(* another writes, and the next rewrite that nobody else joins heals it:   *)
(* unless it was truncated under a writer at the last time, no shape is on *)
(* two lines of the file and only its last line can be torn, whoever reads *)
(* or merges meanwhile, read the mixture earlier, or was killed.           *)
(***************************************************************************)
UniqueShapes ==
  shared # "now" =>
    /\ \A i, j \in Starts(ledger) : ledger[i].row.id = ledger[j].row.id => i = j
    /\ \A i \in DOMAIN ledger :
         \/ ledger[i].part = "line"
         \/ ledger[i].part = "head" /\ (i < Len(ledger) => Joined(ledger, i))
         \/ ledger[i].part = "tail" /\ i > 1 /\ Joined(ledger, i - 1)

(***************************************************************************)
(* An import replaces its kinds as a whole (ledger_io.py:25): as long as   *)
(* no two rewrites overlapped, the rows of one kind all stem from one      *)
(* import, so a re-run leaves none of its earlier rows behind, whoever     *)
(* read and merged meanwhile or was killed.                                *)
(***************************************************************************)
OneImportPerKind ==
  shared = "never" =>
    \A i, j \in Starts(ledger) :
      ledger[i].row.kind = ledger[j].row.kind => ledger[i].row.gen = ledger[j].row.gen

(***************************************************************************)
(* A kind never falls back: once an import's rows were complete in the     *)
(* file, no older rows of that kind are seen again, not even after an      *)
(* importer was killed in the middle of a rewrite.  (One importer at a     *)
(* time; two at once can lose each other's update.)                        *)
(***************************************************************************)
NoStaleRows == \A i \in Starts(ledger) : ledger[i].row.gen >= newest[ledger[i].row.kind]

-----------------------------------------------------------------------------
(* Refinement of the union of sources, for one importer at a time. *)

(* The rows on the complete lines. *)
Complete(file) ==
  {file[i].row : i \in {j \in DOMAIN file : file[j].part = "line" \/ Joined(file, j)}}

(* The content once the rewrite under way is through. *)
settled == IF Writing = {} THEN Complete(ledger)
           ELSE UNION {Complete(imp[p].text) : p \in Writing}

contribBar == [k \in Kind |-> {r \in settled : r.kind = k}]

Union == INSTANCE SourceUnion WITH contrib <- contribBar, lost <- crashes

(***************************************************************************)
(* "the ledger is the union of several independent sources"                *)
(* (shape_ledgers/README.md:5-6), with the collisions it leaves out and    *)
(* README.md:91 has: an import changes its own contribution, takes from    *)
(* the others' the rows of the shapes it has itself and no more, and only  *)
(* an importer that is killed loses rows of any.                           *)
(***************************************************************************)
ImplementsUnion == Union!Spec
=============================================================================
