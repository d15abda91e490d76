------------------------- MODULE MCMultishapeRunner -------------------------
(* Instances of MultishapeRunner for TLC. *)
EXTENDS MultishapeRunner

(***************************************************************************)
(* rmsnorm: flydsl caches by dims and dtype, aiter keeps nothing, ck is    *)
(* disabled.  The third shape is the first one in another model: equal     *)
(* dims come back after others in its ledger, too.                         *)
(***************************************************************************)
TwoModels == <<[dims |-> "32x512", dtype |-> "bf16"], [dims |-> "1x4096", dtype |-> "bf16"],
               [dims |-> "32x512", dtype |-> "bf16"]>>
RmsnormMatrix == <<"flydsl", "aiter", "ck">>

(* fused_rope_cache: one geometry in two dtypes, as in its ledger. *)
TwoDtypes == <<[dims |-> "T128", dtype |-> "bf16"], [dims |-> "T128", dtype |-> "f16"]>>
RopeMatrix == <<"flydsl", "ck", "aiter_triton">>
=============================================================================
