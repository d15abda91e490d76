------------------------------ MODULE MCGpuPool ------------------------------
(* Instances of GpuPool for TLC. *)
EXTENDS GpuPool

(***************************************************************************)
(* Four tests on fewer GPUs; the second is listed twice, so that two       *)
(* drivers have one result file, and has a result from an earlier sweep.   *)
(***************************************************************************)
FourTests   == <<"rmsnorm", "softmax", "gemm", "softmax">>
TwoLeftovers == {"softmax", "gemm"}
=============================================================================
