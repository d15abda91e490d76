--------------------------- MODULE ProviderCatalog ---------------------------
(***************************************************************************)
(* What benchmarks/providers/ and benchmarks/ops.py say of every adapter   *)
(* that launches something, as records for LaunchTiming:                   *)
(*   key     the fields of a shape in the key of the adapter's _cache;     *)
(*   holds   those that what it caches depends on: inputs it keeps, copies *)
(*           of them, buffers of their size, compiled specialisations;     *)
(*   pinned  those that supports() admits one value of;                    *)
(*   stream  where the stream of the kernel is fetched: by every call, or  *)
(*           when the cache entry is built;                                *)
(*   sums    the kernel adds to its output, which run() zeroes first.      *)
(* The inputs of an operation are determined by its fields and a fixed     *)
(* seed.  Kernels, layouts and tolerances are not modelled.                *)
(***************************************************************************)

(* The fields each make_inputs reads. *)
RmsnormInputs    == {"M", "N", "dtype", "eps"}
LayernormInputs  == {"M", "N", "dtype", "eps"}
SoftmaxInputs    == {"M", "N", "dtype"}
GemmInputs       == {"M", "N", "K", "dtype"}
RopeInputs       == {"head_dim", "num_heads", "num_kv_heads", "T", "block_size",
                     "reuse", "max_pos", "dtype"}
MoeGemmInputs    == {"M", "E", "Dim1", "Dim2", "TopK"}
VecAddInputs     == {"n", "dtype"}
QuantInputs      == {"M", "N", "dtype"}
TopkInputs       == {"num_tokens", "num_experts", "topk", "dtype"}
MoeReduceInputs  == {"tokens", "topk", "model_dim", "use_mask", "dtype"}
PreshuffleInputs == {"M", "N", "K"}
BlockscaleInputs == {"M", "N", "K", "out_dtype"}
RowscaleInputs   == {"M", "N", "K"}
MoeBlockInputs   == {"M", "E", "Dim1", "Dim2", "TopK"}
FlashAttnInputs  == {"B", "S", "H", "D", "causal", "dtype"}
PaDecodeInputs   == {"num_q_heads", "num_kv_heads", "head_size", "context_length",
                     "batch", "query_length", "block_size", "quant_mode", "sliding_window"}
MlaDecodeInputs  == {"batch", "ctx_len", "decode_qlen"}

Keyed(key, holds) == [key |-> key, holds |-> holds, pinned |-> {},
                      stream |-> "call", sums |-> FALSE]

(* An adapter that keeps nothing and launches on the current stream. *)
Uncached == Keyed({}, {})

-----------------------------------------------------------------------------
(* Launchers and output buffers per key; the inputs come with each call. *)

RmsnormFlyDSL   == [Keyed({"M", "N", "dtype"}, RmsnormInputs) EXCEPT !.pinned = {"eps"}]
LayernormFlyDSL == [Keyed({"M", "N", "dtype"}, LayernormInputs) EXCEPT !.pinned = {"eps"}]
SoftmaxFlyDSL   == Keyed({"M", "N", "dtype"}, SoftmaxInputs)
GemmFlyDSL      == Keyed({"M", "N", "K", "dtype"}, GemmInputs)
GemmAiter       == Keyed({"M", "N", "dtype"}, GemmInputs \ {"K"})
QuantFlyDSL     == [Keyed({"M", "N"}, QuantInputs) EXCEPT !.pinned = {"dtype"}]
TopkFlyDSL      == Keyed({"num_experts", "topk", "dtype"}, TopkInputs \ {"num_tokens"})
MoeReduceFlyDSL == Keyed({"topk", "model_dim", "dtype", "use_mask", "tokens"}, MoeReduceInputs)
FlashAttnFlyDSL == Keyed({"B", "S", "H", "D", "causal", "dtype"}, FlashAttnInputs)

(* Mutant of RopeFlyDSL: "Omitting T would reuse a smaller-T shape's buffers". *)
RopeFlyDSLNoT ==
  LET key == {"head_dim", "num_heads", "num_kv_heads", "block_size", "flash",
              "dtype", "reuse", "pos_dtype"}
  IN  [Keyed(key, key \cup {"T"}) EXCEPT !.pinned = {"rotate_style"}]

RopeFlyDSL ==
  LET key == {"head_dim", "num_heads", "num_kv_heads", "T", "block_size", "flash",
              "dtype", "reuse", "pos_dtype"}
  IN  [Keyed(key, key) EXCEPT !.pinned = {"rotate_style"}]

(* Input a itself is wrapped and kept. *)
VecAddFlyDSL == [Keyed({"n"}, VecAddInputs) EXCEPT !.pinned = {"dtype"}]

-----------------------------------------------------------------------------
(* Inputs, or quantized and shuffled copies of them, are kept too. *)

RopeAiterTriton ==
  [Keyed({"head_dim", "num_heads", "num_kv_heads", "T", "flash"}, RopeInputs \cup {"flash"})
    EXCEPT !.pinned = {"rotate_style"}]

PreshuffleFlyDSL == Keyed({"M", "N", "K", "dtype"}, PreshuffleInputs)
PreshuffleAiter  == Keyed({"M", "N", "K", "dtype"}, PreshuffleInputs)
BlockscaleFlyDSL == Keyed({"M", "N", "K", "out_dtype"}, BlockscaleInputs)
BlockscaleAiter  == Keyed({"M", "N", "K", "out_dtype"}, BlockscaleInputs)
RowscaleFlyDSL   == Keyed({"M", "N", "K", "use_8w", "b_preshuffled"},
                          RowscaleInputs \cup {"use_8w", "b_preshuffled"})
PaDecodeFlyDSL   == [Keyed(PaDecodeInputs, PaDecodeInputs \cup {"dtype"})
                      EXCEPT !.pinned = {"dtype", "head_size", "block_size"}]
PaDecodeGluon    == [Keyed(PaDecodeInputs, PaDecodeInputs \cup {"dtype"})
                      EXCEPT !.pinned = {"dtype"}]

(***************************************************************************)
(* run of mla_decode.FlyDSL passes no stream (mla_decode.py:238-247), as   *)
(* the adapters of aiter and torch do, and the launch is taken to be on    *)
(* the current stream: a default of its wrapper, which is not in this      *)
(* repository.  Its checked-in graph times, which grow with the context    *)
(* from 29 to 117 us, are those of a graph with the kernel in it.          *)
(***************************************************************************)
MlaDecodeFlyDSL   == [Keyed({"batch", "ctx_len", "decode_qlen"}, MlaDecodeInputs \cup {"dtype"})
                       EXCEPT !.pinned = {"dtype"}]
MlaDecodeAiter    == [Keyed({"batch", "ctx_len", "decode_qlen"}, MlaDecodeInputs \cup {"dtype"})
                       EXCEPT !.pinned = {"dtype"}]
MlaDecodeAiterASM == [Keyed({"batch", "ctx_len", "decode_qlen"}, MlaDecodeInputs \cup {"dtype"})
                       EXCEPT !.pinned = {"dtype"}]

(* The fp8 weights are kept; aiter.fused_moe makes its own output. *)
MoeGemmAiter == Keyed({"Dim1", "Dim2", "E", "TopK", "M"}, MoeGemmInputs)

(* fmoe_fp8_blockscale_g1u1 adds to out_aiter. *)
MoeBlockAiter ==
  [Keyed({"Dim1", "Dim2", "E", "TopK", "M", "dtype"}, MoeBlockInputs \cup {"dtype"})
    EXCEPT !.sums = TRUE]

(* The stream is a part of what _build closes over. *)
MoeGemmFlyDSL ==
  [Keyed({"Dim1", "Dim2", "E", "TopK", "M", "dtype"}, MoeGemmInputs \cup {"dtype"})
    EXCEPT !.sums = TRUE, !.stream = "build"]
MoeBlockFlyDSL ==
  [Keyed({"Dim1", "Dim2", "E", "TopK", "M", "dtype"}, MoeBlockInputs \cup {"dtype"})
    EXCEPT !.sums = TRUE, !.stream = "build"]

-----------------------------------------------------------------------------
(* Adapters that keep nothing. *)

RmsnormAiter          == Uncached
RmsnormAiterTriton    == Uncached
RmsnormTriton         == Uncached
RmsnormPyTorch        == Uncached
LayernormPyTorch      == Uncached
LayernormAiter        == Uncached
LayernormAiterTriton  == Uncached
SoftmaxAiterTriton    == Uncached
SoftmaxTriton         == Uncached
SoftmaxPyTorch        == Uncached
GemmAiterTriton       == Uncached
GemmHipBLASLt         == Uncached
GemmPyTorch           == Uncached
RopePyTorch           == Uncached
FlashAttnPyTorch      == Uncached
FlashAttnAiter        == Uncached
FlashAttnAiterASM     == Uncached
FlashAttnAiterTriton  == Uncached
RowscalePyTorch       == Uncached
RowscaleAiter         == Uncached
RowscaleAiterTriton   == Uncached
RowscaleGluon         == Uncached
PreshufflePyTorch     == Uncached
BlockscalePyTorch     == Uncached
BlockscaleAiterTriton == Uncached
MoeReduceTriton       == Uncached
MoeReducePyTorch      == Uncached
QuantPyTorch          == Uncached
QuantAiter            == Uncached
QuantAiterTriton      == Uncached
QuantTriton           == Uncached
TopkPyTorch           == Uncached
TopkAiter             == Uncached
TopkAiterTriton       == Uncached
VecAddPyTorch         == Uncached
VecAddAiterTriton     == Uncached
PaDecodePyTorch       == Uncached
MoeGemmPyTorch        == Uncached
MlaDecodePyTorch      == Uncached
MoeBlockPyTorch       == Uncached

WithoutCache ==
  {RmsnormAiter, RmsnormAiterTriton, RmsnormTriton, RmsnormPyTorch,
   LayernormPyTorch, LayernormAiter, LayernormAiterTriton,
   SoftmaxAiterTriton, SoftmaxTriton, SoftmaxPyTorch, GemmAiterTriton,
   GemmHipBLASLt, GemmPyTorch, RopePyTorch, FlashAttnPyTorch,
   FlashAttnAiter, FlashAttnAiterASM, FlashAttnAiterTriton, RowscalePyTorch,
   RowscaleAiter, RowscaleAiterTriton, RowscaleGluon, PreshufflePyTorch,
   BlockscalePyTorch, BlockscaleAiterTriton, MoeReduceTriton,
   MoeReducePyTorch, QuantPyTorch, QuantAiter, QuantAiterTriton,
   QuantTriton, TopkPyTorch, TopkAiter, TopkAiterTriton, VecAddPyTorch,
   VecAddAiterTriton, PaDecodePyTorch, MlaDecodePyTorch, MoeGemmPyTorch, MoeBlockPyTorch}

WithCache ==
  {RmsnormFlyDSL, LayernormFlyDSL, SoftmaxFlyDSL, GemmFlyDSL, GemmAiter, QuantFlyDSL,
   TopkFlyDSL, MoeReduceFlyDSL, FlashAttnFlyDSL, RopeFlyDSL, VecAddFlyDSL,
   RopeAiterTriton, PreshuffleFlyDSL, PreshuffleAiter, BlockscaleFlyDSL,
   BlockscaleAiter, RowscaleFlyDSL, PaDecodeFlyDSL, PaDecodeGluon, MlaDecodeFlyDSL,
   MlaDecodeAiter, MlaDecodeAiterASM, MoeGemmAiter, MoeBlockAiter, MoeGemmFlyDSL,
   MoeBlockFlyDSL}
=============================================================================
