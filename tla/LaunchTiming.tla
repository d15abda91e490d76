---------------------------- MODULE LaunchTiming ----------------------------
(***************************************************************************)
(* common.measure_both around one adapter, shape by shape, as              *)
(* multishape_runner calls it: the output for the correctness check, the   *)
(* eager intervals of benchmark(), then the capture and the replays of     *)
(* benchmark_cudagraph() on a stream of its own.  The host puts operations *)
(* on streams; the device takes them off each stream in order, and in no   *)
(* order between streams, until a synchronize waits for all of them.       *)
(*                                                                         *)
(* A launch is that of an adapter's run(): buffers and compiled kernel are *)
(* taken from the adapter's cache or built; an accumulator is zeroed on    *)
(* the current stream; the kernel goes to the stream the adapter passes.   *)
(* A shape is the set of the fields in which it differs from a base shape. *)
(* The stream torch.cuda.graph captures on and `side' are one here: both   *)
(* are current streams other than the default one.                         *)
(***************************************************************************)
EXTENDS Integers, Sequences

CONSTANTS
  Adapters,  \* records [key, holds, pinned: sets of fields, stream, sums]
  Warm,      \* launches before either benchmark times anything, the estimate's too
  MaxLoops,  \* the most launches in an eager interval
  Repeat,    \* eager intervals
  SideWarm,  \* the launches on the side stream before the capture
  Replays    \* n_retries

Streams == {"default", "side"}
Fields  == UNION {a.key \cup a.holds \cup a.pinned : a \in Adapters}

AdapterType == [key : SUBSET Fields, holds : SUBSET Fields, pinned : SUBSET Fields,
                stream : {"call", "build"}, sums : BOOLEAN]

ASSUME AdaptersAssumption == Adapters \subseteq AdapterType
ASSUME CountsAssumption ==
  /\ Warm \in Nat \ {0} /\ SideWarm \in Nat
  /\ MaxLoops \in Nat \ {0} /\ Repeat \in Nat \ {0} /\ Replays \in Nat \ {0}

VARIABLES
  adapter,  \* the adapter under test
  ledger,   \* its two shapes
  i,        \* the shape being measured
  pc,       \* where measure_both is
  n, m,     \* loop counters: phase or interval, launch within an interval
  loops,    \* launches per eager interval
  cache,    \* the adapter's _cache: key, builder and stream of each entry
  queue,    \* the operations waiting on each stream
  graph,    \* the operations captured
  open,     \* the stream of the interval whose start event was recorded last
  inside,   \* kernels executed on it since: their number, and was the first cold
  cold,     \* L2 was flushed and no kernel ran since
  sum,      \* by builder: kernels added to its accumulator since it was zeroed
  samples,  \* what the end events of the present measurement closed over
  eager,    \* the samples of benchmark(), the result if the capture fails
  rows

host   == <<adapter, ledger, i, pc, n, m, loops, cache, graph, eager, rows>>
device == <<open, inside, cold, sum>>
vars   == <<adapter, ledger, i, pc, n, m, loops, cache, queue, graph, open,
            inside, cold, sum, samples, eager, rows>>

Ledgers(a) == {<<{}, {f} \ a.pinned>> : f \in a.key \cup a.holds}
                \cup {<<{}, {}>>}

Sample == [kernels : Nat, cold : BOOLEAN]
Row    == [timing : {"cudagraph", "eager_event", "failed"}, loops : Nat,
           samples : Seq(Sample)]
Op     == [do : {"zero", "kernel", "flush", "start", "end"}, on : Streams,
           for : {1, 2}, by : {1, 2}]

TypeOK ==
  /\ adapter \in Adapters /\ ledger \in Ledgers(adapter) /\ i \in 1 .. 3
  /\ pc \in {"check", "checked", "warm", "interval", "loop", "gwarm", "side",
             "replay", "end"}
  /\ n \in Nat /\ m \in 0 .. loops /\ loops \in 1 .. MaxLoops
  /\ cache \subseteq [key : SUBSET Fields, by : {1, 2}, stream : Streams]
  /\ queue \in [Streams -> Seq(Op)] /\ graph \in Seq(Op)
  /\ open \in Streams /\ inside \in Sample /\ cold \in BOOLEAN /\ sum \in [{1, 2} -> 0 .. 2]
  /\ samples \in Seq(Sample) /\ eager \in Seq(Sample) /\ rows \in Seq(Row)

Init ==
  /\ adapter \in Adapters /\ ledger \in Ledgers(adapter)
  /\ i = 1 /\ pc = "check" /\ n = 0 /\ m = 0 /\ loops = 1
  /\ cache = {}
  /\ queue = [s \in Streams |-> <<>>] /\ graph = <<>>
  /\ open = "default" /\ inside = [kernels |-> 0, cold |-> FALSE]
  /\ cold = FALSE /\ sum = [b \in {1, 2} |-> 0]
  /\ samples = <<>> /\ eager = <<>> /\ rows = <<>>

-----------------------------------------------------------------------------
(* One call of fn(), that is of adapter.run(shape, inputs). *)

Shape   == ledger[i]
Current == IF pc \in {"side", "replay"} THEN "side" ELSE "default"

Found == {e \in cache : e.key = Shape \cap adapter.key}
Entry == IF Found # {}
         THEN CHOOSE e \in Found : TRUE
         ELSE [key |-> Shape \cap adapter.key, by |-> i, stream |-> Current]

Do(what) == [do |-> what, on |-> Current, for |-> i, by |-> Entry.by]

Kernel == [Do("kernel") EXCEPT
             !.on = IF adapter.stream = "build" THEN Entry.stream ELSE Current]

(* Mutant of Zeroes: the accumulator is zeroed where it is built only. *)
ZeroesOnce == IF adapter.sums /\ Found = {} THEN <<Do("zero")>> ELSE <<>>

Zeroes == IF adapter.sums THEN <<Do("zero")>> ELSE <<>>

(* What the call puts on a stream. *)
Operations(s) ==
  (IF s = Current THEN Zeroes ELSE <<>>) \o (IF s = Kernel.on THEN <<Kernel>> ELSE <<>>)

Put(ops) == [queue EXCEPT ![Current] = @ \o ops]

Launch ==
  /\ cache' = cache \cup {Entry}
  /\ queue' = [s \in Streams |-> queue[s] \o Operations(s)]

-----------------------------------------------------------------------------
(* The device. *)

Execute(s) ==
  /\ queue[s] # <<>>
  /\ queue' = [queue EXCEPT ![s] = Tail(@)]
  /\ LET o == Head(queue[s])
     IN  /\ open' = IF o.do = "start" THEN s ELSE open
         /\ inside' = IF o.do = "start" THEN [kernels |-> 0, cold |-> FALSE]
                      ELSE IF o.do = "kernel" /\ s = open
                           THEN [kernels |-> inside.kernels + 1,
                                 cold |-> IF inside.kernels = 0 THEN cold ELSE inside.cold]
                           ELSE inside
         /\ cold' = IF o.do = "flush" THEN TRUE ELSE cold /\ o.do # "kernel"
         /\ sum' = IF o.do = "zero" THEN [sum EXCEPT ![o.by] = 0]
                   ELSE IF o.do = "kernel" /\ adapter.sums
                        THEN [sum EXCEPT ![o.by] = IF @ = 0 THEN 1 ELSE 2]
                        ELSE sum
         /\ samples' = IF o.do = "end" THEN Append(samples, inside) ELSE samples
  /\ UNCHANGED host

(* torch.cuda.synchronize(). *)
Synchronized == \A s \in Streams : queue[s] = <<>>

-----------------------------------------------------------------------------
(* check_correctness and benchmark(): the eager measurement. *)

(* The output, for the comparison with the reference. *)
Check ==
  /\ pc = "check"
  /\ Launch
  /\ pc' = "checked"
  /\ UNCHANGED <<adapter, ledger, i, n, m, loops, graph, samples, eager, rows, device>>

(* output() raises before it launches; the timing is tried all the same. *)
CheckRaises ==
  /\ pc = "check"
  /\ pc' = "checked"
  /\ UNCHANGED <<adapter, ledger, i, n, m, loops, cache, queue, graph, samples, eager, rows, device>>

(* benchmark() begins with a synchronize. *)
StartWarmUp ==
  /\ pc = "checked" /\ Synchronized
  /\ pc' = "warm" /\ n' = 0
  /\ UNCHANGED <<adapter, ledger, i, m, loops, cache, queue, graph, samples, eager, rows, device>>

(* Mutant of WarmUp: a loop that is never entered. *)
WarmUpSkipped ==
  /\ pc = "warm" /\ n < Warm
  /\ n' = Warm
  /\ UNCHANGED <<adapter, ledger, i, pc, m, loops, cache, queue, graph, samples, eager, rows, device>>

(* warmup_iters, and the launches that estimate the cost of one. *)
WarmUp ==
  /\ pc = "warm" /\ n < Warm
  /\ Launch
  /\ n' = n + 1
  /\ UNCHANGED <<adapter, ledger, i, pc, m, loops, graph, samples, eager, rows, device>>

(* Synchronize; loops is the clipped target_interval_us / est_us. *)
Estimate ==
  /\ pc = "warm" /\ n = Warm /\ Synchronized
  /\ loops' \in 1 .. MaxLoops
  /\ pc' = "interval" /\ n' = 0 /\ samples' = <<>>
  /\ UNCHANGED <<adapter, ledger, i, m, cache, queue, graph, eager, rows, device>>

(* Mutant of Begin: the flush is left to the estimate. *)
BeginUnflushed ==
  /\ pc = "interval" /\ n < Repeat
  /\ queue' = Put(<<Do("start")>>)
  /\ pc' = "loop" /\ m' = 0
  /\ UNCHANGED <<adapter, ledger, i, n, loops, cache, graph, samples, eager, rows, device>>

(* cache.zero_(); starts[i].record() *)
Begin ==
  /\ pc = "interval" /\ n < Repeat
  /\ queue' = Put(<<Do("flush"), Do("start")>>)
  /\ pc' = "loop" /\ m' = 0
  /\ UNCHANGED <<adapter, ledger, i, n, loops, cache, graph, samples, eager, rows, device>>

(* Mutant of Loop: one launch too many. *)
LoopOnceMore ==
  /\ pc = "loop" /\ m <= loops
  /\ Launch
  /\ m' = m + 1
  /\ UNCHANGED <<adapter, ledger, i, pc, n, loops, graph, samples, eager, rows, device>>

Loop ==
  /\ pc = "loop" /\ m < loops
  /\ Launch
  /\ m' = m + 1
  /\ UNCHANGED <<adapter, ledger, i, pc, n, loops, graph, samples, eager, rows, device>>

(* ends[i].record() *)
End ==
  /\ pc = "loop" /\ m = loops
  /\ queue' = Put(<<Do("end")>>)
  /\ pc' = "interval" /\ n' = n + 1
  /\ UNCHANGED <<adapter, ledger, i, m, loops, cache, graph, samples, eager, rows, device>>

(* Mutant of Elapsed: read without the synchronize. *)
ElapsedAtOnce ==
  /\ pc = "interval" /\ n = Repeat
  /\ eager' = samples
  /\ pc' = "gwarm" /\ n' = 0
  /\ UNCHANGED <<adapter, ledger, i, m, loops, cache, queue, graph, samples, rows, device>>

(* "REQUIRED before elapsed_time on ROCm", then every elapsed_time(). *)
Elapsed ==
  /\ pc = "interval" /\ n = Repeat /\ Synchronized
  /\ eager' = samples
  /\ pc' = "gwarm" /\ n' = 0
  /\ UNCHANGED <<adapter, ledger, i, m, loops, cache, queue, graph, samples, rows, device>>

-----------------------------------------------------------------------------
(* benchmark_cudagraph(). *)

(* warmup_iters and the estimate, on the default stream. *)
GraphWarmUp ==
  /\ pc = "gwarm" /\ n < Warm
  /\ Launch
  /\ n' = n + 1
  /\ UNCHANGED <<adapter, ledger, i, pc, m, loops, graph, samples, eager, rows, device>>

(* Synchronize, and with torch.cuda.stream(side). *)
EnterSide ==
  /\ pc = "gwarm" /\ n = Warm /\ Synchronized
  /\ pc' = "side" /\ n' = 0
  /\ UNCHANGED <<adapter, ledger, i, m, loops, cache, queue, graph, samples, eager, rows, device>>

SideWarmUp ==
  /\ pc = "side" /\ n < SideWarm
  /\ Launch
  /\ n' = n + 1
  /\ UNCHANGED <<adapter, ledger, i, pc, m, loops, graph, samples, eager, rows, device>>

(***************************************************************************)
(* with torch.cuda.graph(g), which synchronizes on entry: fn() is          *)
(* recorded, not run, as far as it goes to the capturing stream; what it   *)
(* puts on another stream is run and is not part of the graph.             *)
(***************************************************************************)
Capture ==
  /\ pc = "side" /\ n = SideWarm /\ Synchronized
  /\ cache' = cache \cup {Entry}
  /\ graph' = Operations(Current)
  /\ queue' = [s \in Streams |-> IF s = Current THEN queue[s] ELSE queue[s] \o Operations(s)]
  /\ pc' = "replay" /\ n' = 0 /\ samples' = <<>>
  /\ UNCHANGED <<adapter, ledger, i, m, loops, eager, rows, device>>

(* After a synchronize: flush, event, g.replay(), event. *)
Replay ==
  /\ pc = "replay" /\ n < Replays /\ Synchronized
  /\ queue' = Put(<<Do("flush"), Do("start")>> \o graph \o <<Do("end")>>)
  /\ n' = n + 1
  /\ UNCHANGED <<adapter, ledger, i, pc, m, loops, cache, graph, samples, eager, rows, device>>

-----------------------------------------------------------------------------
(* The result, and the next shape. *)

Result(row) ==
  /\ rows' = Append(rows, row)
  /\ i' = i + 1 /\ n' = 0 /\ m' = 0 /\ graph' = <<>>
  /\ pc' = IF i = 1 THEN "check" ELSE "end"
  /\ UNCHANGED <<adapter, ledger, loops, cache, queue, samples, eager, device>>

GraphResult ==
  /\ pc = "replay" /\ n = Replays /\ Synchronized
  /\ Result([timing |-> "cudagraph", loops |-> 1, samples |-> samples])

(* "capture not supported for this fn/shape", or any other exception. *)
GraphRaises ==
  /\ pc \in {"gwarm", "side", "replay"}
  /\ Result([timing |-> "eager_event", loops |-> loops, samples |-> eager])

(* The runner's `except' around the eager part: a row without a time. *)
EagerRaises ==
  /\ pc \in {"warm", "interval", "loop"}
  /\ Result([timing |-> "failed", loops |-> 0, samples |-> <<>>])

Finished == pc = "end" /\ Synchronized /\ UNCHANGED vars

Next ==
  \/ Check \/ CheckRaises \/ StartWarmUp \/ WarmUp \/ Estimate \/ Begin \/ Loop \/ End \/ Elapsed
  \/ GraphWarmUp \/ EnterSide \/ SideWarmUp \/ Capture \/ Replay
  \/ GraphResult \/ GraphRaises \/ EagerRaises
  \/ \E s \in Streams : Execute(s)
  \/ Finished

Spec == Init /\ [][Next]_vars

-----------------------------------------------------------------------------
(* Properties. *)

(***************************************************************************)
(* "every provider receives the EXACT same input tensors for a shape"      *)
(* (ops.py:3-4), and a launcher sized for another shape means an           *)
(* "out-of-bounds write -> GPU fault" (fused_rope_cache.py:85-87): every   *)
(* kernel on its way to the device works on a compiled launcher and        *)
(* buffers that agree with its shape in all they depend on.                *)
(***************************************************************************)
Waiting == UNION {{queue[s][l] : l \in DOMAIN queue[s]} : s \in Streams}

FreshBuffers ==
  \A o \in Waiting : o.do = "kernel" =>
    ledger[o.by] \cap adapter.holds = ledger[o.for] \cap adapter.holds

(***************************************************************************)
(* A time is that of the kernel: all events were recorded when it was      *)
(* computed, and each interval waited for exactly the launches its time is *)
(* divided by (common.py:332, 399).  With a graph this holds only when the *)
(* launches "land on the capture stream" (common.py:351-352).              *)
(***************************************************************************)
RowTimesItsKernels ==
  \A r \in DOMAIN rows :
    LET row == rows[r]
    IN  /\ row.timing = "cudagraph" => Len(row.samples) = Replays
        /\ row.timing = "eager_event" => Len(row.samples) = Repeat
        /\ \A l \in DOMAIN row.samples : row.samples[l].kernels = row.loops

(***************************************************************************)
(* "evict L2 so memory-bound kernels read cold" (common.py:327): whatever  *)
(* ran before, also on another stream, the first kernel of every interval  *)
(* finds the cache flushed.                                                *)
(***************************************************************************)
IntervalsStartCold ==
  \A r \in DOMAIN rows : \A l \in DOMAIN rows[r].samples : rows[r].samples[l].cold

(***************************************************************************)
(* "JIT/autotune is excluded by the warmup" (common.py:293): also after a  *)
(* check that raised early, no launch builds inside an interval, or while  *)
(* the stream is captured.                                                 *)
(***************************************************************************)
BuildsBeforeTiming == [][cache' # cache => pc \in {"check", "warm"}]_vars

(***************************************************************************)
(* "stage2 uses atomic accumulate -> must start zeroed" (moe_gemm.py:261): *)
(* no launch, warm-up, timed or replayed, adds to what another one left,   *)
(* as long as no graph attempt was given up with launches still on its     *)
(* stream: measure_both goes on without a synchronize then, and the next   *)
(* call of the same launcher runs beside them.                             *)
(***************************************************************************)
SumsFromZero ==
  (\A r \in DOMAIN rows : rows[r].timing # "eager_event")
    => \A b \in {1, 2} : sum[b] <= 1
=============================================================================
