--------------------------- MODULE MCDashboardData ---------------------------
(* DashboardData with one example of each sort. *)
EXTENDS DashboardData

(* An op under its own name, a renamed one, and a renamed one that PATCH names. *)
Tests   == <<"pa", "rmsnorm", "hgemm_splitk">>
Ops     == [t \in {"pa", "rmsnorm", "hgemm_splitk"} |->
             CASE t = "pa" -> "pa_decode" [] t = "rmsnorm" -> "rmsnorm"
               [] t = "hgemm_splitk" -> "gemm"]
ByHand  == {"pa"}
=============================================================================
