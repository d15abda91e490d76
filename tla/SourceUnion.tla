----------------------------- MODULE SourceUnion -----------------------------
(***************************************************************************)
(* What shape_ledgers/README.md:3-6 and 80-93 say a shape ledger is: the   *)
(* union of several independent sources.  Each source kind has its own     *)
(* rows; one import replaces the rows of the kinds it owns and touches     *)
(* none of another kind, except that a shape which several sources have is *)
(* the last writer's.                                                      *)
(***************************************************************************)
EXTENDS Naturals

CONSTANTS
  Kind,  \* the values of source.kind
  Owns,  \* the sets of kinds that one import replaces
  Row    \* the ledger rows

VARIABLES
  contrib,  \* contrib[k]: the rows kind k has contributed
  lost      \* how often an import was killed

vars == <<contrib, lost>>

TypeOK == contrib \in [Kind -> SUBSET Row] /\ lost \in Nat

Init == contrib = [k \in Kind |-> {}] /\ lost = 0

(* One import replaces the contributions of the kinds it owns, and takes   *)
(* the shapes it has from the others.                                      *)
Import(own) ==
  /\ contrib' \in [Kind -> SUBSET Row]
  /\ LET taken == {r.id : r \in UNION {contrib'[k] : k \in own}}
     IN  \A k \in Kind \ own : contrib'[k] = {r \in contrib[k] : r.id \notin taken}
  /\ UNCHANGED lost

(* One that is killed may take rows of every kind with it, and adds none. *)
Lose ==
  /\ contrib' \in [Kind -> SUBSET Row]
  /\ \A k \in Kind : contrib'[k] \subseteq contrib[k]
  /\ lost' = lost + 1

Next == Lose \/ \E own \in Owns : Import(own)

Spec == Init /\ [][Next]_vars
=============================================================================
