---------------------------- MODULE MCShapeLedger ----------------------------
(* Instances of ShapeLedger for TLC. *)
EXTENDS ShapeLedger, TLC

(* The SGLang importer, and the manual importer with one or both options. *)
Kinds == {"sglang_trace", "synthetic", "diagnostic"}
OwnSets == {{"sglang_trace"}, {"synthetic"}, {"synthetic", "diagnostic"}}

(***************************************************************************)
(* Shape 2 comes from the log and from the command line; the others have   *)
(* one source.  stable_shape_id does not look at source.kind.              *)
(***************************************************************************)
SourceIds == ("sglang_trace" :> {1, 2} @@ "synthetic" :> {2} @@ "diagnostic" :> {3})

(***************************************************************************)
(* A server log and an ATOM anchor give the same decode shapes of the same *)
(* model.                                                                  *)
(***************************************************************************)
ServingKinds == {"sglang_trace", "atom_workload"}
ServingOwns  == {{"sglang_trace"}, {"atom_workload"}}
SharedIds    == ("sglang_trace" :> {1, 2} @@ "atom_workload" :> {2, 3})
=============================================================================
