------------------------- MODULE LaunchTimingProofs -------------------------
(***************************************************************************)
(* Types, FreshBuffers, and what is timed, for any adapters and counts.    *)
(* The premises are about the adapters alone, so that they can be read off *)
(* the catalogue.  KeysCover, of FreshBuffers: what a cache entry depends  *)
(* on is in its key, or pinned to one value by supports().  CallStream, of *)
(* what is said of the times: run() fetches the stream, so that a launch   *)
(* goes where the measurement's events go.  That no build is ever timed    *)
(* needs neither.  The catalogue's adapters are shown to meet both but for *)
(* the three that the findings are about.                                  *)
(***************************************************************************)
EXTENDS MCLaunchTiming, SequenceTheorems, TLAPS

KeysCover == \A a \in Adapters : a.holds \subseteq a.key \cup a.pinned

(* Where the host is. *)
Place ==
  /\ pc # "end" => i \in {1, 2}
  /\ pc \in {"check", "checked", "warm"} => m = 0

(* An entry's key is that of the shape it was built for. *)
Entries == \A e \in cache : e.key = ledger[e.by] \cap adapter.key

(* Operations on a launcher whose builder agrees with their shape. *)
Good == {o \in Op : ledger[o.by] \cap adapter.holds = ledger[o.for] \cap adapter.holds}

AllGood == queue \in [Streams -> Seq(Good)] /\ graph \in Seq(Good)

IInv == TypeOK /\ Place /\ Entries

FInv == IInv /\ AllGood

-----------------------------------------------------------------------------
(* The two shapes are sets of fields, none of them pinned. *)
LEMMA Shapes ==
  ASSUME TypeOK, NEW b \in {1, 2}
  PROVE  ledger[b] \in SUBSET Fields /\ ledger[b] \cap adapter.pinned = {}
<1>1. adapter \in AdapterType
  BY AdaptersAssumption DEF TypeOK
<1>2. ledger \in {<<{}, {f} \ adapter.pinned>> : f \in adapter.key \cup adapter.holds} \cup {<<{}, {}>>}
  BY DEF TypeOK, Ledgers
<1>3. CASE ledger = <<{}, {}>>
  BY <1>3
<1>4. CASE ledger # <<{}, {}>>
  <2>1. PICK f \in adapter.key \cup adapter.holds : ledger = <<{}, {f} \ adapter.pinned>>
    BY <1>2, <1>4
  <2>2. f \in Fields
    BY <1>1 DEF AdapterType
  <2> QED BY <2>1, <2>2
<1> QED BY <1>3, <1>4

CacheType == [key : SUBSET Fields, by : {1, 2}, stream : Streams]

(* The entry a call works with, found or built. *)
LEMMA EntryIsOfShape ==
  ASSUME TypeOK, Entries, i \in {1, 2}
  PROVE  /\ Entry \in CacheType /\ Entry.key = Shape \cap adapter.key
         /\ ledger[Entry.by] \cap adapter.key = Shape \cap adapter.key
<1>1. Shape \in SUBSET Fields
  BY Shapes DEF Shape
<1>2. Current \in Streams
  BY DEF Current, Streams
<1>3. CASE Found # {}
  <2>1. Entry \in Found
    BY <1>3 DEF Entry
  <2>2. Entry \in cache /\ Entry.key = Shape \cap adapter.key
    BY <2>1 DEF Found
  <2>3. Entry \in CacheType
    BY <2>2 DEF TypeOK, CacheType
  <2> QED BY <2>2, <2>3 DEF Entries
<1>4. CASE Found = {}
  <2>1. Entry = [key |-> Shape \cap adapter.key, by |-> i, stream |-> Current]
    BY <1>4 DEF Entry
  <2> QED BY <2>1, <1>1, <1>2 DEF CacheType, Shape
<1> QED BY <1>3, <1>4

(* What a call puts on a stream is typed. *)
LEMMA DoType ==
  ASSUME TypeOK, Entries, i \in {1, 2},
         NEW what \in {"zero", "kernel", "flush", "start", "end"}
  PROVE  Do(what) \in Op
<1>1. Entry.by \in {1, 2}
  BY EntryIsOfShape DEF CacheType
<1> QED BY <1>1 DEF Do, Op, Current, Streams

LEMMA KernelType ==
  ASSUME TypeOK, Entries, i \in {1, 2}
  PROVE  Kernel \in Op /\ Kernel.by = Entry.by /\ Kernel.for = i
<1>1. Entry.by \in {1, 2} /\ Entry.stream \in Streams
  BY EntryIsOfShape DEF CacheType
<1>2. Do("kernel") = [do |-> "kernel", on |-> Current, for |-> i, by |-> Entry.by]
  BY DEF Do
<1> QED BY <1>1, <1>2 DEF Kernel, Op, Current, Streams

(* With keys that cover what is kept, all of it is good. *)
LEMMA EntryAgrees ==
  ASSUME TypeOK, Entries, i \in {1, 2}, KeysCover
  PROVE  ledger[Entry.by] \cap adapter.holds = ledger[i] \cap adapter.holds
<1>1. Entry.by \in {1, 2} /\ ledger[Entry.by] \cap adapter.key = ledger[i] \cap adapter.key
  BY EntryIsOfShape DEF CacheType, Shape
<1>2. ledger[Entry.by] \cap adapter.pinned = {} /\ ledger[i] \cap adapter.pinned = {}
  BY <1>1, Shapes
<1>3. adapter.holds \subseteq adapter.key \cup adapter.pinned
  BY DEF KeysCover, TypeOK
<1> QED BY <1>1, <1>2, <1>3

LEMMA DoGood ==
  ASSUME TypeOK, Entries, i \in {1, 2}, KeysCover
  PROVE  /\ \A what \in {"zero", "kernel", "flush", "start", "end"} : Do(what) \in Good
         /\ Kernel \in Good
<1>1. ASSUME NEW what \in {"zero", "kernel", "flush", "start", "end"}
      PROVE  Do(what) \in Good
  <2>1. Do(what).by = Entry.by /\ Do(what).for = i
    BY DEF Do
  <2> QED BY <2>1, DoType, EntryAgrees DEF Good
<1>2. Kernel \in Good
  BY KernelType, EntryAgrees DEF Good
<1> QED BY <1>1, <1>2

LEMMA OperationsOf ==
  ASSUME NEW S, Do("zero") \in S, Kernel \in S, NEW s \in Streams
  PROVE  Operations(s) \in Seq(S)
<1>1. <<>> \in Seq(S) /\ Zeroes \in Seq(S) /\ <<Kernel>> \in Seq(S)
  BY DEF Zeroes
<1>2. (IF s = Current THEN Zeroes ELSE <<>>) \in Seq(S)
  BY <1>1
<1>3. (IF s = Kernel.on THEN <<Kernel>> ELSE <<>>) \in Seq(S)
  BY <1>1
<1> QED BY <1>2, <1>3, ConcatProperties DEF Operations

(* The queues after a call, and after a sequence put on the current stream. *)
LEMMA LaunchQueue ==
  ASSUME NEW S, Do("zero") \in S, Kernel \in S, queue \in [Streams -> Seq(S)]
  PROVE  [s \in Streams |-> queue[s] \o Operations(s)] \in [Streams -> Seq(S)]
<1>1. ASSUME NEW s \in Streams PROVE queue[s] \o Operations(s) \in Seq(S)
  BY OperationsOf, ConcatProperties
<1> QED BY <1>1

LEMMA PutQueue ==
  ASSUME NEW S, NEW ops \in Seq(S), queue \in [Streams -> Seq(S)]
  PROVE  Put(ops) \in [Streams -> Seq(S)]
<1>1. Current \in Streams
  BY DEF Current, Streams
<1>2. queue[Current] \o ops \in Seq(S)
  BY <1>1, ConcatProperties
<1> QED BY <1>1, <1>2 DEF Put

(* One call keeps the cache as the invariant has it. *)
LEMMA EntryKept ==
  ASSUME TypeOK, Entries, i \in {1, 2}, cache' = cache \cup {Entry}, UNCHANGED <<adapter, ledger>>
  PROVE  cache' \subseteq CacheType /\ Entries'
<1>1. Entry \in CacheType /\ Entry.key = ledger[Entry.by] \cap adapter.key
  BY EntryIsOfShape
<1> QED BY <1>1 DEF Entries, TypeOK, CacheType

LEMMA InitInvariant == Init => IInv
<1> SUFFICES ASSUME Init PROVE IInv
  OBVIOUS
<1>1. queue \in [Streams -> Seq(Op)] /\ graph \in Seq(Op) /\ sum \in [{1, 2} -> 0 .. 2]
  BY DEF Init
<1>2. inside \in Sample /\ open \in Streams
  BY DEF Init, Sample, Streams
<1>3. loops \in 1 .. MaxLoops /\ m \in 0 .. loops
  BY CountsAssumption DEF Init
<1>4. samples \in Seq(Sample) /\ eager \in Seq(Sample) /\ rows \in Seq(Row)
  BY DEF Init
<1>5. adapter \in Adapters /\ ledger \in Ledgers(adapter)
  BY DEF Init
<1>6. /\ i \in 1 .. 3 /\ n \in Nat
      /\ cold \in BOOLEAN
  <2>1. i \in 1 .. 3 /\ n \in Nat
    BY DEF Init
  <2>2. cold \in BOOLEAN
    BY Zenon DEF Init
  <2> QED BY <2>1, <2>2
<1>7. cache \subseteq [key : SUBSET Fields, by : {1, 2}, stream : Streams]
  BY DEF Init
<1>8. pc \in {"check", "checked", "warm", "interval", "loop", "gwarm", "side", "replay", "end"}
  BY DEF Init
<1>9. TypeOK
  BY <1>1, <1>2, <1>3, <1>4, <1>5, <1>6, <1>7, <1>8 DEF TypeOK
<1> QED BY <1>9 DEF Init, IInv, Place, Entries

(* What an operation leaves of the device's counters has their type. *)
LEMMA DeviceType ==
  ASSUME TypeOK, NEW s \in Streams, Execute(s)
  PROVE  TypeOK'
<1> USE DEF Execute, host
<1>1. Head(queue[s]) \in Op /\ Tail(queue[s]) \in Seq(Op)
  BY HeadTailProperties DEF TypeOK
<1>2. queue' \in [Streams -> Seq(Op)]
  BY <1>1 DEF TypeOK
<1>3. open' \in Streams /\ cold' \in BOOLEAN
  BY DEF TypeOK
<1>4. inside' \in Sample
  BY DEF TypeOK, Sample
<1>5. sum' \in [{1, 2} -> 0 .. 2]
  <2>1. Head(queue[s]).by \in {1, 2}
    BY <1>1 DEF Op
  <2> QED BY <2>1 DEF TypeOK
<1>6. samples' \in Seq(Sample)
  BY DEF TypeOK
<1> QED BY <1>2, <1>3, <1>4, <1>5, <1>6 DEF TypeOK

(* A row and what is reset with it. *)
LEMMA ResultType ==
  ASSUME IInv, i \in {1, 2}, NEW row \in Row, Result(row)
  PROVE  IInv'
<1> USE DEF Result, device
<1>1. rows' \in Seq(Row)
  BY DEF IInv, TypeOK
<1>2. i' \in 1 .. 3 /\ (pc' # "end" => i' \in {1, 2})
  BY DEF IInv, Place
<1>3. TypeOK'
  BY <1>1, <1>2 DEF IInv, TypeOK
<1> QED BY <1>2, <1>3 DEF IInv, Place, Entries

(* One call, with whatever the host counts. *)
LEMMA LaunchType ==
  ASSUME IInv, i \in {1, 2}, Launch, UNCHANGED <<adapter, ledger>>
  PROVE  /\ cache' \subseteq CacheType /\ Entries'
         /\ queue' \in [Streams -> Seq(Op)]
<1>1. Do("zero") \in Op /\ Kernel \in Op
  BY DoType, KernelType DEF IInv
<1>2. queue \in [Streams -> Seq(Op)]
  BY DEF IInv, TypeOK
<1> QED BY <1>1, <1>2, LaunchQueue, EntryKept DEF IInv, Launch

LEMMA StepInvariant == IInv /\ [Next]_vars => IInv'
<1> SUFFICES ASSUME IInv, [Next]_vars PROVE IInv'
  OBVIOUS
<1>1. CASE Check
  <2> USE <1>1 DEF Check
  <2>1. i \in {1, 2}
    BY DEF IInv, Place
  <2>2. cache' \subseteq CacheType /\ Entries' /\ queue' \in [Streams -> Seq(Op)]
    BY <2>1, LaunchType
  <2> QED BY <2>2 DEF IInv, TypeOK, Place, CacheType, device
<1>2. CASE CheckRaises
  BY <1>2 DEF CheckRaises, IInv, TypeOK, Place, Entries, device
<1>3. CASE StartWarmUp
  BY <1>3 DEF StartWarmUp, IInv, TypeOK, Place, Entries, device
<1>4. CASE WarmUp
  <2> USE <1>4 DEF WarmUp
  <2>1. i \in {1, 2}
    BY DEF IInv, Place
  <2>2. cache' \subseteq CacheType /\ Entries' /\ queue' \in [Streams -> Seq(Op)]
    BY <2>1, LaunchType
  <2> QED BY <2>2 DEF IInv, TypeOK, Place, CacheType, device
<1>5. CASE Estimate
  <2>1. m' \in 0 .. loops' /\ loops' \in 1 .. MaxLoops
    BY <1>5, CountsAssumption DEF Estimate, IInv, Place
  <2> QED BY <1>5, <2>1 DEF Estimate, IInv, TypeOK, Place, Entries, device
<1>6. CASE Begin
  <2>1. <<Do("flush"), Do("start")>> \in Seq(Op)
    BY <1>6, DoType DEF Begin, IInv, Place
  <2>2. queue' \in [Streams -> Seq(Op)]
    BY <1>6, <2>1, PutQueue DEF Begin, IInv, TypeOK
  <2>3. /\ pc' = "loop" /\ m' = 0
        /\ UNCHANGED <<adapter, ledger, i, n, loops, cache, graph, samples, eager, rows, device>>
        /\ pc = "interval"
    BY <1>6 DEF Begin
  <2> QED BY <2>2, <2>3, CountsAssumption DEF IInv, TypeOK, Place, Entries, device
<1>7. CASE Loop
  <2> USE <1>7 DEF Loop
  <2>1. i \in {1, 2}
    BY DEF IInv, Place
  <2>2. cache' \subseteq CacheType /\ Entries' /\ queue' \in [Streams -> Seq(Op)]
    BY <2>1, LaunchType
  <2>3. m' \in 0 .. loops
    BY CountsAssumption DEF IInv, TypeOK
  <2> QED BY <2>2, <2>3 DEF IInv, TypeOK, Place, CacheType, device
<1>8. CASE End
  <2>1. <<Do("end")>> \in Seq(Op)
    BY <1>8, DoType DEF End, IInv, Place
  <2>2. queue' \in [Streams -> Seq(Op)]
    BY <1>8, <2>1, PutQueue DEF End, IInv, TypeOK
  <2>3. /\ pc' = "interval" /\ n' = n + 1 /\ pc = "loop"
        /\ UNCHANGED <<adapter, ledger, i, m, loops, cache, graph, samples, eager, rows, device>>
    BY <1>8 DEF End
  <2> QED BY <2>2, <2>3 DEF IInv, TypeOK, Place, Entries, device
<1>9. CASE Elapsed
  BY <1>9 DEF Elapsed, IInv, TypeOK, Place, Entries, device
<1>10. CASE GraphWarmUp
  <2> USE <1>10 DEF GraphWarmUp
  <2>1. i \in {1, 2}
    BY DEF IInv, Place
  <2>2. cache' \subseteq CacheType /\ Entries' /\ queue' \in [Streams -> Seq(Op)]
    BY <2>1, LaunchType
  <2> QED BY <2>2 DEF IInv, TypeOK, Place, CacheType, device
<1>11. CASE EnterSide
  BY <1>11 DEF EnterSide, IInv, TypeOK, Place, Entries, device
<1>12. CASE SideWarmUp
  <2> USE <1>12 DEF SideWarmUp
  <2>1. i \in {1, 2}
    BY DEF IInv, Place
  <2>2. cache' \subseteq CacheType /\ Entries' /\ queue' \in [Streams -> Seq(Op)]
    BY <2>1, LaunchType
  <2> QED BY <2>2 DEF IInv, TypeOK, Place, CacheType, device
<1>13. CASE Capture
  <2> USE <1>13 DEF Capture
  <2>1. i \in {1, 2}
    BY DEF IInv, Place
  <2>2. cache' \subseteq CacheType /\ Entries'
    BY <2>1, EntryKept DEF IInv
  <2>3. Do("zero") \in Op /\ Kernel \in Op
    BY <2>1, DoType, KernelType DEF IInv
  <2>4. graph' \in Seq(Op) /\ queue' \in [Streams -> Seq(Op)]
    <3>1. ASSUME NEW s \in Streams PROVE Operations(s) \in Seq(Op)
      BY <2>3, OperationsOf
    <3>2. ASSUME NEW s \in Streams PROVE queue[s] \o Operations(s) \in Seq(Op)
      BY <3>1, ConcatProperties DEF IInv, TypeOK
    <3>3. Current \in Streams
      BY DEF Current, Streams
    <3> QED BY <3>1, <3>2, <3>3 DEF IInv, TypeOK
  <2> QED BY <2>2, <2>4 DEF IInv, TypeOK, Place, CacheType, device
<1>14. CASE Replay
  <2>1. <<Do("flush"), Do("start")>> \in Seq(Op) /\ <<Do("end")>> \in Seq(Op)
    BY <1>14, DoType DEF Replay, IInv, Place
  <2>2. <<Do("flush"), Do("start")>> \o graph \o <<Do("end")>> \in Seq(Op)
    BY <2>1, ConcatProperties DEF IInv, TypeOK
  <2>3. queue' \in [Streams -> Seq(Op)]
    BY <1>14, <2>2, PutQueue DEF Replay, IInv, TypeOK
  <2>4. /\ n' = n + 1 /\ pc = "replay"
        /\ UNCHANGED <<adapter, ledger, i, pc, m, loops, cache, graph, samples, eager, rows, device>>
    BY <1>14 DEF Replay
  <2> QED BY <2>3, <2>4 DEF IInv, TypeOK, Place, Entries, device
<1>15. CASE GraphResult
  <2>1. [timing |-> "cudagraph", loops |-> 1, samples |-> samples] \in Row /\ i \in {1, 2}
    BY <1>15 DEF GraphResult, IInv, TypeOK, Place, Row
  <2> QED BY <1>15, <2>1, ResultType DEF GraphResult
<1>16. CASE GraphRaises
  <2>1. [timing |-> "eager_event", loops |-> loops, samples |-> eager] \in Row /\ i \in {1, 2}
    BY <1>16, CountsAssumption DEF GraphRaises, IInv, TypeOK, Place, Row
  <2> QED BY <1>16, <2>1, ResultType DEF GraphRaises
<1>17. CASE EagerRaises
  <2>1. [timing |-> "failed", loops |-> 0, samples |-> <<>>] \in Row /\ i \in {1, 2}
    BY <1>17 DEF EagerRaises, IInv, Place, Row
  <2> QED BY <1>17, <2>1, ResultType DEF EagerRaises
<1>18. CASE \E s \in Streams : Execute(s)
  <2>1. PICK s \in Streams : Execute(s)
    BY <1>18
  <2>2. TypeOK'
    BY <2>1, DeviceType DEF IInv
  <2> QED BY <2>1, <2>2 DEF Execute, host, IInv, Place, Entries
<1>19. CASE UNCHANGED vars
  BY <1>19 DEF vars, IInv, TypeOK, Place, Entries
<1>20. CASE Finished
  BY <1>20, <1>19 DEF Finished
<1> QED BY <1>1, <1>2, <1>3, <1>4, <1>5, <1>6, <1>7, <1>8, <1>9, <1>10, <1>11, <1>12, <1>13,
           <1>14, <1>15, <1>16, <1>17, <1>18, <1>19, <1>20 DEF Next

(***************************************************************************)
(* Every reachable state is well typed, for any adapters and counts; among *)
(* other things an interval never waits for more launches than its time    *)
(* is divided by (m <= loops, common.py:321-334).                          *)
(***************************************************************************)
THEOREM TypeCorrect == Spec => []TypeOK
<1>1. IInv => TypeOK
  BY DEF IInv
<1> QED BY <1>1, InitInvariant, StepInvariant, PTL DEF Spec

-----------------------------------------------------------------------------
LEMMA CallIsGood ==
  ASSUME FInv, KeysCover, i \in {1, 2}
  PROVE  /\ \A s \in Streams : Operations(s) \in Seq(Good)
         /\ [s \in Streams |-> queue[s] \o Operations(s)] \in [Streams -> Seq(Good)]
<1>1. Do("zero") \in Good /\ Kernel \in Good
  BY DoGood DEF FInv, IInv
<1>2. queue \in [Streams -> Seq(Good)]
  BY DEF FInv, AllGood
<1> QED BY <1>1, <1>2, OperationsOf, LaunchQueue

LEMMA AllGoodStep ==
  ASSUME FInv, KeysCover, [Next]_vars
  PROVE  AllGood'
<1>1. Good' = Good
  BY DEF Next, vars, Check, CheckRaises, StartWarmUp, WarmUp, Estimate, Begin, Loop, End, Elapsed,
         GraphWarmUp, EnterSide, SideWarmUp, Capture, Replay, GraphResult, GraphRaises,
         EagerRaises, Result, Execute, host, Finished, Good, Op
<1>2. queue \in [Streams -> Seq(Good)] /\ graph \in Seq(Good)
  BY DEF FInv, AllGood
<1>3. pc # "end" => i \in {1, 2}
  BY DEF FInv, IInv, Place
<1>4. CASE Launch /\ UNCHANGED graph /\ pc # "end"
  <2>1. queue' \in [Streams -> Seq(Good)]
    BY <1>3, <1>4, CallIsGood DEF Launch
  <2> QED BY <1>1, <1>2, <1>4, <2>1 DEF AllGood
<1>5. CASE UNCHANGED queue /\ (UNCHANGED graph \/ graph' = <<>>)
  <2>1. graph' \in Seq(Good)
    BY <1>2, <1>5, EmptySeq
  <2>2. queue' \in [Streams -> Seq(Good)]
    BY <1>2, <1>5
  <2> QED BY <1>1, <2>1, <2>2 DEF AllGood
<1>6. ASSUME NEW ops \in Seq(Good), queue' = Put(ops), UNCHANGED graph
      PROVE  AllGood'
  BY <1>1, <1>2, <1>6, PutQueue DEF AllGood
<1>7. CASE Begin
  <2>1. <<Do("flush"), Do("start")>> \in Seq(Good)
    BY <1>3, <1>7, DoGood DEF Begin, FInv, IInv
  <2> QED BY <1>6, <1>7, <2>1 DEF Begin
<1>8. CASE End
  <2>1. <<Do("end")>> \in Seq(Good)
    BY <1>3, <1>8, DoGood DEF End, FInv, IInv
  <2> QED BY <1>6, <1>8, <2>1 DEF End
<1>9. CASE Replay
  <2>1. <<Do("flush"), Do("start")>> \in Seq(Good) /\ <<Do("end")>> \in Seq(Good)
    BY <1>3, <1>9, DoGood DEF Replay, FInv, IInv
  <2>2. <<Do("flush"), Do("start")>> \o graph \o <<Do("end")>> \in Seq(Good)
    BY <1>2, <2>1, ConcatProperties
  <2> QED BY <1>6, <1>9, <2>2 DEF Replay
<1>10. CASE Capture
  <2>1. \A s \in Streams : Operations(s) \in Seq(Good) /\ queue[s] \o Operations(s) \in Seq(Good)
    BY <1>2, <1>3, <1>10, CallIsGood, ConcatProperties DEF Capture
  <2>2. Current \in Streams
    BY DEF Current, Streams
  <2>3. graph' \in Seq(Good) /\ queue' \in [Streams -> Seq(Good)]
    BY <1>2, <1>10, <2>1, <2>2 DEF Capture
  <2> QED BY <1>1, <2>3 DEF AllGood
<1>11. CASE \E s \in Streams : Execute(s)
  <2>1. PICK s \in Streams : Execute(s)
    BY <1>11
  <2>2. Tail(queue[s]) \in Seq(Good)
    BY <1>2, <2>1, HeadTailProperties DEF Execute
  <2>3. queue' \in [Streams -> Seq(Good)]
    BY <1>2, <2>1, <2>2 DEF Execute
  <2> QED BY <1>1, <1>2, <2>1, <2>3 DEF Execute, host, AllGood
<1>12. CASE Check \/ WarmUp \/ Loop \/ GraphWarmUp \/ SideWarmUp
  BY <1>4, <1>12 DEF Check, WarmUp, Loop, GraphWarmUp, SideWarmUp
<1>13. CASE \/ CheckRaises \/ StartWarmUp \/ Estimate \/ Elapsed \/ EnterSide
            \/ GraphResult \/ GraphRaises \/ EagerRaises \/ Finished \/ UNCHANGED vars
  BY <1>5, <1>13 DEF CheckRaises, StartWarmUp, Estimate, Elapsed, EnterSide, GraphResult,
     GraphRaises, EagerRaises, Result, Finished, vars
<1> QED BY <1>7, <1>8, <1>9, <1>10, <1>11, <1>12, <1>13 DEF Next

(***************************************************************************)
(* If every adapter's key covers what its cache entries depend on, no      *)
(* kernel reaches the device with buffers of another shape, whichever      *)
(* calls raise and however the streams interleave (ops.py:3-4).            *)
(***************************************************************************)
THEOREM CoveringKeysGiveFreshBuffers == KeysCover => (Spec => []FreshBuffers)
<1> SUFFICES ASSUME KeysCover PROVE Spec => []FreshBuffers
  OBVIOUS
<1>1. Init => FInv
  <2> SUFFICES ASSUME Init PROVE AllGood
    BY InitInvariant DEF FInv
  <2> QED BY DEF Init, AllGood
<1>2. FInv /\ [Next]_vars => FInv'
  BY AllGoodStep, StepInvariant DEF FInv
<1>3. FInv => FreshBuffers
  <2> SUFFICES ASSUME FInv, NEW s \in Streams, NEW l \in DOMAIN queue[s],
                      queue[s][l].do = "kernel"
               PROVE  ledger[queue[s][l].by] \cap adapter.holds
                        = ledger[queue[s][l].for] \cap adapter.holds
    BY DEF FreshBuffers, Waiting
  <2>1. queue[s] \in Seq(Good)
    BY DEF FInv, AllGood
  <2>2. queue[s][l] \in Good
    BY <2>1, ElementOfSeq, LenProperties
  <2> QED BY <2>2 DEF Good
<1> QED BY <1>1, <1>2, <1>3, PTL DEF Spec

-----------------------------------------------------------------------------
(* Builds. *)

(* From the first launch of the warm-up on, the shape has its entry. *)
Built ==
  pc \in {"interval", "loop", "gwarm", "side", "replay"} \/ (pc = "warm" /\ n > 0)
    => Found # {}

LEMMA EntryIsFound ==
  ASSUME Found # {} PROVE cache \cup {Entry} = cache
<1>1. Entry \in Found
  BY DEF Entry
<1> QED BY <1>1 DEF Found

(* The entry a call leaves is found by the next one. *)
LEMMA FoundAfter ==
  ASSUME TypeOK, Entries, i \in {1, 2}, cache' = cache \cup {Entry},
         UNCHANGED <<adapter, ledger, i>>
  PROVE  Found' # {}
<1>1. Entry.key = Shape \cap adapter.key
  BY EntryIsOfShape
<1>2. Entry \in Found'
  BY <1>1 DEF Found, Shape
<1> QED BY <1>2

LEMMA BuiltStep ==
  ASSUME IInv, Built, [Next]_vars
  PROVE  Built' /\ (cache' # cache => pc \in {"check", "warm"})
<1>1. CASE Check \/ WarmUp
  <2>1. i \in {1, 2} /\ cache' = cache \cup {Entry} /\ UNCHANGED <<adapter, ledger, i>>
    BY <1>1 DEF Check, WarmUp, Launch, IInv, Place
  <2>2. Found' # {}
    BY <2>1, FoundAfter DEF IInv
  <2> QED BY <1>1, <2>2 DEF Built, Check, WarmUp
<1>2. CASE Loop \/ GraphWarmUp \/ SideWarmUp \/ Capture
  <2>1. Found # {} /\ cache' = cache \cup {Entry}
    BY <1>2 DEF Built, Loop, GraphWarmUp, SideWarmUp, Capture, Launch
  <2>2. cache' = cache
    BY <2>1, EntryIsFound
  <2>3. Found' = Found
    BY <1>2, <2>2 DEF Found, Shape, Loop, GraphWarmUp, SideWarmUp, Capture
  <2> QED BY <2>1, <2>2, <2>3 DEF Built
<1>3. CASE StartWarmUp \/ Estimate
  <2>1. cache' = cache /\ Found' = Found
    BY <1>3 DEF StartWarmUp, Estimate, Found, Shape
  <2>2. Estimate => Found # {}
    BY CountsAssumption DEF Estimate, Built
  <2> QED BY <1>3, <2>1, <2>2 DEF StartWarmUp, Estimate, Built
<1>4. CASE CheckRaises \/ GraphResult \/ GraphRaises \/ EagerRaises
  BY <1>4 DEF CheckRaises, GraphResult, GraphRaises, EagerRaises, Result, Built
<1>5. CASE Begin \/ End \/ Elapsed \/ EnterSide \/ Replay
  <2>1. cache' = cache /\ Found' = Found
    BY <1>5 DEF Begin, End, Elapsed, EnterSide, Replay, Found, Shape
  <2> QED BY <1>5, <2>1 DEF Begin, End, Elapsed, EnterSide, Replay, Built
<1>6. CASE \/ \E s \in Streams : Execute(s)
           \/ Finished \/ UNCHANGED vars
  <2>1. UNCHANGED <<cache, adapter, ledger, i, pc, n>>
    BY <1>6 DEF Execute, host, Finished, vars
  <2>2. cache' = cache /\ Found' = Found
    BY <2>1 DEF Found, Shape
  <2> QED BY <2>1, <2>2 DEF Built
<1> QED BY <1>1, <1>2, <1>3, <1>4, <1>5, <1>6 DEF Next

(***************************************************************************)
(* "JIT/autotune is excluded by the warmup" (common.py:293), whichever     *)
(* adapter, and also after a check that raised: since each benchmark       *)
(* launches before it times, if only to estimate the cost of a launch, no  *)
(* launch in an interval or under a capture builds.                        *)
(***************************************************************************)
THEOREM BuildsComeFirst == Spec => BuildsBeforeTiming
<1>1. Init => IInv /\ Built
  BY InitInvariant DEF Init, Built
<1>2. IInv /\ Built /\ [Next]_vars => (IInv /\ Built)'
  BY StepInvariant, BuiltStep
<1>3. IInv /\ Built /\ [Next]_vars => [cache' # cache => pc \in {"check", "warm"}]_vars
  BY BuiltStep
<1> QED BY <1>1, <1>2, <1>3, PTL DEF Spec, BuildsBeforeTiming

-----------------------------------------------------------------------------
(***************************************************************************)
(* Adapters that fetch the stream at call time: the premise of what        *)
(* follows, and the one that the adapters of GraphEscape do not meet.      *)
(* Their kernels go to the current stream, so that a call puts all of its  *)
(* operations on one stream, in a row, and no others come in between.      *)
(***************************************************************************)
CallStream == \A a \in Adapters : a.stream = "call"

Other == IF Current = "side" THEN "default" ELSE "side"

(* A call: its kernel, and before it the zeroing of what it adds to. *)
IsCall(ops) ==
  /\ Len(ops) = IF adapter.sums THEN 2 ELSE 1
  /\ ops[Len(ops)].do = "kernel"
  /\ adapter.sums => ops[1].do = "zero" /\ ops[1].by = ops[2].by

GraphIsCall == pc = "replay" => IsCall(graph)

WithCall(q, zero, kernel) ==
  IF adapter.sums THEN Append(Append(q, zero), kernel) ELSE Append(q, kernel)

LEMMA TwoStreams ==
  /\ Current \in Streams /\ Other \in Streams /\ Current # Other
  /\ \A s \in Streams : s = Current \/ s = Other
BY DEF Current, Other, Streams

LEMMA Pairs ==
  ASSUME NEW S, NEW a \in S, NEW b \in S
  PROVE  <<a>> \o <<b>> = <<a, b>> /\ <<>> \o <<b>> = <<b>>
<1>1. <<a>> \in Seq(S) /\ <<b>> \in Seq(S) /\ <<a, b>> \in Seq(S)
  OBVIOUS
<1>2. Len(<<a>>) = 1 /\ Len(<<b>>) = 1 /\ Len(<<a, b>>) = 2 /\ <<b>>[1] = b
  OBVIOUS
<1>3. /\ <<a>> \o <<b>> \in Seq(S) /\ Len(<<a>> \o <<b>>) = 2
      /\ \A k \in 1 .. 2 : (<<a>> \o <<b>>)[k] = IF k <= 1 THEN a ELSE <<b>>[k - 1]
  <2>1. \A k \in 1 .. 2 : (<<a>> \o <<b>>)[k] = IF k <= 1 THEN <<a>>[k] ELSE <<b>>[k - 1]
    BY <1>1, <1>2, ConcatProperties
  <2>2. \A k \in 1 .. 2 : k <= 1 => <<a>>[k] = a
    OBVIOUS
  <2> QED BY <1>1, <1>2, <2>1, <2>2, ConcatProperties
<1>4. \A k \in 1 .. 2 : (<<a>> \o <<b>>)[k] = <<a, b>>[k]
  <2>1. (<<a>> \o <<b>>)[1] = a /\ (<<a>> \o <<b>>)[2] = b
    BY <1>2, <1>3
  <2> QED BY <2>1
<1>5. <<a>> \o <<b>> = <<a, b>>
  BY <1>1, <1>2, <1>3, <1>4, SeqEqual
<1> QED BY <1>1, <1>5, ConcatEmptySeq

LEMMA TwoAppends ==
  ASSUME NEW S, NEW q \in Seq(S), NEW a \in S, NEW b \in S
  PROVE  q \o <<a>> = Append(q, a) /\ q \o <<a, b>> = Append(Append(q, a), b)
<1>1. q \o <<a>> = Append(q, a)
  BY AppendIsConcat
<1>2. <<a>> \in Seq(S) /\ <<b>> \in Seq(S)
  OBVIOUS
<1>3. q \o <<a, b>> = (q \o <<a>>) \o <<b>>
  <2>1. <<a>> \o <<b>> = <<a, b>>
    BY Pairs, Zenon
  <2>2. q \o (<<a>> \o <<b>>) = (q \o <<a>>) \o <<b>>
    BY <1>2, ConcatAssociative
  <2> QED BY <2>1, <2>2, Zenon
<1>4. Append(q, a) \in Seq(S)
  OBVIOUS
<1> QED BY <1>1, <1>3, <1>4, AppendIsConcat

LEMMA CallOperations ==
  ASSUME TypeOK, Entries, CallStream, i \in {1, 2}
  PROVE  /\ Operations(Current) = IF adapter.sums THEN <<Do("zero"), Kernel>> ELSE <<Kernel>>
         /\ Operations(Other) = <<>>
         /\ Kernel.do = "kernel" /\ Do("zero").do = "zero" /\ Do("zero").by = Kernel.by
         /\ Kernel \in Op /\ Do("zero") \in Op
<1>1. Kernel \in Op /\ Kernel.by = Entry.by /\ Do("zero") \in Op
  BY KernelType, DoType
<1>2. Kernel.on = Current /\ Kernel.do = "kernel"
  <2>1. adapter.stream = "call"
    BY DEF CallStream, TypeOK
  <2>2. Do("kernel") = [do |-> "kernel", on |-> Current, for |-> i, by |-> Entry.by]
    BY DEF Do
  <2> QED BY <2>1, <2>2 DEF Kernel
<1>3. Do("zero").do = "zero" /\ Do("zero").by = Entry.by
  BY DEF Do
<1>4. Operations(Current) = Zeroes \o <<Kernel>> /\ Operations(Other) = <<>> \o <<>>
  BY <1>2, TwoStreams DEF Operations
<1>5. Zeroes = IF adapter.sums THEN <<Do("zero")>> ELSE <<>>
  BY DEF Zeroes
<1>6. <<Do("zero")>> \o <<Kernel>> = <<Do("zero"), Kernel>> /\ <<>> \o <<Kernel>> = <<Kernel>>
  BY <1>1, Pairs
<1>7. <<>> \o <<>> = <<>>
  OBVIOUS
<1> QED BY <1>1, <1>2, <1>3, <1>4, <1>5, <1>6, <1>7

(* What a call appends, and where. *)
LEMMA LaunchAppends ==
  ASSUME IInv, CallStream, i \in {1, 2}, Launch
  PROVE  /\ queue'[Current] = WithCall(queue[Current], Do("zero"), Kernel)
         /\ queue'[Other] = queue[Other]
<1>1. queue[Current] \in Seq(Op) /\ queue[Other] \in Seq(Op)
  BY TwoStreams DEF IInv, TypeOK
<1>2. /\ queue'[Current] = queue[Current] \o Operations(Current)
      /\ queue'[Other] = queue[Other] \o Operations(Other)
  BY TwoStreams DEF Launch
<1>3. Kernel \in Op /\ Do("zero") \in Op
  BY CallOperations DEF IInv
<1>4. queue[Other] \o <<>> = queue[Other]
  BY <1>1, ConcatEmptySeq
<1>5. /\ queue[Current] \o <<Kernel>> = Append(queue[Current], Kernel)
      /\ queue[Current] \o <<Do("zero"), Kernel>> = Append(Append(queue[Current], Do("zero")), Kernel)
  BY <1>1, <1>3, TwoAppends
<1>6. /\ Operations(Current) = IF adapter.sums THEN <<Do("zero"), Kernel>> ELSE <<Kernel>>
      /\ Operations(Other) = <<>>
  BY CallOperations DEF IInv
<1> QED BY <1>2, <1>4, <1>5, <1>6 DEF WithCall

(* The same of a sequence that the host puts on the current stream. *)
LEMMA PutOnCurrent ==
  ASSUME IInv, NEW ops, queue' = Put(ops)
  PROVE  queue'[Current] = queue[Current] \o ops /\ queue'[Other] = queue[Other]
BY TwoStreams DEF IInv, TypeOK, Put

LEMMA EventOps ==
  ASSUME IInv, i \in {1, 2}
  PROVE  /\ Do("flush") \in Op /\ Do("flush").do = "flush"
         /\ Do("start") \in Op /\ Do("start").do = "start"
         /\ Do("end") \in Op /\ Do("end").do = "end"
BY DoType DEF Do, IInv

LEMMA BeginAppends ==
  ASSUME IInv, Begin
  PROVE  /\ queue'[Current] = Append(Append(queue[Current], Do("flush")), Do("start"))
         /\ queue'[Other] = queue[Other]
<1>1. i \in {1, 2} /\ queue' = Put(<<Do("flush"), Do("start")>>)
  BY DEF Begin, IInv, Place
<1>2. /\ queue'[Current] = queue[Current] \o <<Do("flush"), Do("start")>>
      /\ queue'[Other] = queue[Other]
  BY <1>1, PutOnCurrent
<1>3. Do("flush") \in Op /\ Do("start") \in Op
  BY <1>1, EventOps
<1>4. queue[Current] \in Seq(Op)
  BY TwoStreams DEF IInv, TypeOK
<1>5. queue[Current] \o <<Do("flush"), Do("start")>>
        = Append(Append(queue[Current], Do("flush")), Do("start"))
  BY <1>3, <1>4, TwoAppends
<1> QED BY <1>2, <1>5

LEMMA EndAppends ==
  ASSUME IInv, End
  PROVE  queue'[Current] = Append(queue[Current], Do("end")) /\ queue'[Other] = queue[Other]
<1>1. i \in {1, 2} /\ queue' = Put(<<Do("end")>>)
  BY DEF End, IInv, Place
<1>2. queue'[Current] = queue[Current] \o <<Do("end")>> /\ queue'[Other] = queue[Other]
  BY <1>1, PutOnCurrent
<1>3. Do("end") \in Op /\ queue[Current] \in Seq(Op)
  BY <1>1, EventOps, TwoStreams DEF IInv, TypeOK
<1>4. queue[Current] \o <<Do("end")>> = Append(queue[Current], Do("end"))
  BY <1>3, TwoAppends
<1> QED BY <1>2, <1>4

LEMMA ExecuteTakes ==
  ASSUME IInv, NEW s \in Streams, Execute(s)
  PROVE  /\ queue[s] # <<>> /\ queue'[s] = Tail(queue[s])
         /\ \A t \in Streams : t # s => queue'[t] = queue[t]
         /\ Current' = Current /\ Other' = Other
BY DEF IInv, TypeOK, Execute, host, Current, Other

(* From the synchronize before the warm-up on, the other stream is idle. *)
Quiet ==
  pc \in {"warm", "interval", "loop", "gwarm", "side", "replay"} => queue[Other] = <<>>

QInv == IInv /\ Quiet /\ GraphIsCall

LEMMA CurrentKept ==
  ASSUME Check \/ CheckRaises \/ StartWarmUp \/ WarmUp \/ Estimate \/ Begin \/ Loop \/ End \/ Elapsed
           \/ GraphWarmUp \/ SideWarmUp \/ Capture \/ Replay \/ EagerRaises \/ UNCHANGED vars
  PROVE  Current' = Current /\ Other' = Other
BY DEF Check, CheckRaises, StartWarmUp, WarmUp, Estimate, Begin, Loop, End, Elapsed, GraphWarmUp,
       SideWarmUp, Capture, Replay, EagerRaises, Result, vars, Current, Other

LEMMA QInvStep ==
  ASSUME QInv, CallStream, [Next]_vars
  PROVE  QInv'
<1>1. IInv /\ IInv'
  BY StepInvariant DEF QInv
<1>2. pc # "end" => i \in {1, 2}
  BY <1>1 DEF IInv, Place
<1>3. CASE WarmUp \/ Loop \/ GraphWarmUp \/ SideWarmUp
  <2>1. Launch /\ i \in {1, 2} /\ pc' = pc /\ pc # "replay" /\ Other' = Other
    BY <1>2, <1>3, CurrentKept DEF WarmUp, Loop, GraphWarmUp, SideWarmUp
  <2>2. queue'[Other] = queue[Other]
    BY <1>1, <2>1, LaunchAppends
  <2> QED BY <1>1, <2>1, <2>2 DEF QInv, Quiet, GraphIsCall
<1>4. CASE Begin \/ End \/ Replay
  <2>1. /\ Other' = Other /\ UNCHANGED <<graph, adapter>> /\ (pc' = "replay" => pc = "replay")
        /\ pc \in {"interval", "loop", "replay"}
    BY <1>4, CurrentKept DEF Begin, End, Replay
  <2>2. queue'[Other] = queue[Other]
    BY <1>1, <1>4, PutOnCurrent DEF Begin, End, Replay
  <2> QED BY <1>1, <2>1, <2>2 DEF QInv, Quiet, GraphIsCall, IsCall
<1>5. CASE StartWarmUp \/ EnterSide
  <2>1. pc' # "replay" /\ \A s \in Streams : queue'[s] = <<>>
    BY <1>5 DEF StartWarmUp, EnterSide, Synchronized
  <2>2. Other' \in Streams
    BY DEF Other, Streams
  <2> QED BY <1>1, <2>1, <2>2 DEF QInv, Quiet, GraphIsCall
<1>6. CASE Check \/ CheckRaises \/ GraphResult \/ GraphRaises \/ EagerRaises
  <2>1. pc' \in {"check", "checked", "end"}
    BY <1>6 DEF Check, CheckRaises, GraphResult, GraphRaises, EagerRaises, Result
  <2> QED BY <1>1, <2>1 DEF QInv, Quiet, GraphIsCall
<1>7. CASE Estimate \/ Elapsed
  <2>1. Other' = Other /\ queue' = queue /\ pc \in {"warm", "interval"} /\ pc' # "replay"
    BY <1>7, CurrentKept DEF Estimate, Elapsed
  <2> QED BY <1>1, <2>1 DEF QInv, Quiet, GraphIsCall
<1>8. CASE Capture
  <2>1. i \in {1, 2} /\ Other' = Other /\ queue[Other] = <<>>
    BY <1>2, <1>8, CurrentKept DEF Capture, QInv, Quiet
  <2>2. /\ graph' = IF adapter.sums THEN <<Do("zero"), Kernel>> ELSE <<Kernel>>
        /\ queue'[Other] = queue[Other] \o <<>>
    BY <1>1, <1>8, <2>1, CallOperations, TwoStreams DEF Capture, IInv
  <2>3. Kernel.do = "kernel" /\ Do("zero").do = "zero" /\ Do("zero").by = Kernel.by
    BY <1>1, <2>1, CallOperations DEF IInv
  <2>4. adapter' = adapter
    BY <1>8 DEF Capture
  <2>5. IsCall(graph)'
    <3>1. CASE adapter.sums
      <4>1. graph' = <<Do("zero"), Kernel>>
        BY <2>2, <3>1
      <4>2. Len(graph') = 2 /\ graph'[1] = Do("zero") /\ graph'[2] = Kernel
        BY <4>1
      <4> QED BY <2>3, <2>4, <3>1, <4>2 DEF IsCall
    <3>2. CASE ~ adapter.sums
      <4>1. graph' = <<Kernel>>
        BY <2>2, <3>2
      <4>2. Len(graph') = 1 /\ graph'[1] = Kernel
        BY <4>1
      <4> QED BY <2>3, <2>4, <3>2, <4>2 DEF IsCall
    <3> QED BY <3>1, <3>2
  <2>6. queue'[Other'] = <<>>
    BY <2>1, <2>2
  <2> QED BY <1>1, <2>5, <2>6 DEF QInv, Quiet, GraphIsCall
<1>9. CASE \E s \in Streams : Execute(s)
  <2>1. PICK s \in Streams : Execute(s)
    BY <1>9
  <2>2. Other' = Other /\ UNCHANGED <<pc, graph, adapter>>
    BY <1>1, <2>1, ExecuteTakes DEF Execute, host
  <2>3. queue[Other] = <<>> => queue'[Other] = <<>>
    BY <1>1, <2>1, ExecuteTakes, TwoStreams
  <2> QED BY <1>1, <2>2, <2>3 DEF QInv, Quiet, GraphIsCall, IsCall
<1>10. CASE Finished \/ UNCHANGED vars
  <2>1. UNCHANGED vars
    BY <1>10 DEF Finished
  <2>2. Other' = Other
    BY <2>1, CurrentKept
  <2> QED BY <1>1, <2>1, <2>2 DEF vars, QInv, Quiet, GraphIsCall, IsCall
<1> QED BY <1>3, <1>4, <1>5, <1>6, <1>7, <1>8, <1>9, <1>10 DEF Next

(* A replay is a call between two events, after a flush. *)
LEMMA ReplayAppends ==
  ASSUME QInv, Replay
  PROVE  \E zero, kernel \in Op :
           /\ zero.do = "zero" /\ kernel.do = "kernel" /\ zero.by = kernel.by
           /\ queue'[Current] =
                Append(WithCall(Append(Append(queue[Current], Do("flush")), Do("start")), zero, kernel),
                       Do("end"))
           /\ queue'[Other] = queue[Other]
<1>1. IInv /\ IsCall(graph) /\ pc = "replay" /\ i \in {1, 2}
  BY DEF QInv, GraphIsCall, Replay, IInv, Place
<1>2. /\ Do("flush") \in Op /\ Do("start") \in Op /\ Do("end") \in Op
      /\ graph \in Seq(Op) /\ queue[Current] = <<>>
  BY <1>1, DoType, TwoStreams DEF IInv, TypeOK, Replay, Synchronized
<1> DEFINE pre == Append(Append(queue[Current], Do("flush")), Do("start"))
           all == <<Do("flush"), Do("start")>> \o graph \o <<Do("end")>>
<1>3. <<Do("flush"), Do("start")>> = pre /\ pre \in Seq(Op)
  <2>1. <<>> \in Seq(Op) /\ <<Do("flush"), Do("start")>> \in Seq(Op)
    BY <1>2
  <2>2. <<>> \o <<Do("flush"), Do("start")>> = <<Do("flush"), Do("start")>>
    BY <2>1, ConcatEmptySeq
  <2>3. <<>> \o <<Do("flush"), Do("start")>> = pre
    BY <1>2, <2>1, TwoAppends
  <2> QED BY <2>1, <2>2, <2>3
<1>4. queue'[Current] = all /\ queue'[Other] = queue[Other]
  <2>1. queue'[Current] = <<>> \o all /\ queue'[Other] = queue[Other]
    BY <1>1, <1>2, PutOnCurrent DEF Replay
  <2>2. <<Do("flush"), Do("start")>> \in Seq(Op) /\ <<Do("end")>> \in Seq(Op)
    BY <1>2
  <2>3. all \in Seq(Op)
    BY <1>2, <2>2, ConcatProperties
  <2> HIDE DEF all
  <2> QED BY <2>1, <2>3, ConcatEmptySeq
<1> HIDE DEF pre
<1>5. pre \o graph \in Seq(Op) /\ all = Append(pre \o graph, Do("end"))
  <2>1. pre \o graph \in Seq(Op)
    BY <1>2, <1>3, ConcatProperties
  <2> QED BY <1>2, <1>3, <2>1, AppendIsConcat
<1>6. CASE adapter.sums
  <2>1. /\ Len(graph) = 2 /\ graph[1] \in Op /\ graph[2] \in Op
        /\ graph[1].do = "zero" /\ graph[2].do = "kernel" /\ graph[1].by = graph[2].by
    <3>1. /\ Len(graph) = 2 /\ graph[Len(graph)].do = "kernel"
          /\ graph[1].do = "zero" /\ graph[1].by = graph[2].by
      BY <1>1, <1>6 DEF IsCall
    <3>2. \A l \in 1 .. Len(graph) : graph[l] \in Op
      BY <1>2, ElementOfSeq
    <3>3. 1 \in 1 .. Len(graph) /\ 2 \in 1 .. Len(graph)
      BY <3>1
    <3>4. graph[1] \in Op /\ graph[2] \in Op
      BY <3>2, <3>3
    <3>5. graph[2].do = "kernel"
      BY <3>1
    <3> QED BY <3>1, <3>4, <3>5
  <2>2. graph = <<graph[1], graph[2]>>
    <3>1. <<graph[1], graph[2]>> \in Seq(Op) /\ Len(<<graph[1], graph[2]>>) = 2
      BY <2>1
    <3>2. \A l \in 1 .. 2 : graph[l] = <<graph[1], graph[2]>>[l]
      OBVIOUS
    <3> QED BY <1>2, <2>1, <3>1, <3>2, SeqEqual
  <2>3. pre \o <<graph[1], graph[2]>> = Append(Append(pre, graph[1]), graph[2])
    BY <1>3, <2>1, TwoAppends
  <2>4. queue'[Current] = Append(WithCall(pre, graph[1], graph[2]), Do("end"))
    BY <1>4, <1>5, <1>6, <2>2, <2>3, Zenon DEF WithCall
  <2> QED BY <1>4, <2>1, <2>4 DEF pre
<1>7. CASE ~ adapter.sums
  <2>1. Len(graph) = 1 /\ graph[1] \in Op /\ graph[1].do = "kernel"
    BY <1>1, <1>2, <1>7 DEF IsCall
  <2>2. graph = <<graph[1]>>
    <3>1. <<graph[1]>> \in Seq(Op) /\ Len(<<graph[1]>>) = 1
      BY <2>1
    <3>2. \A l \in 1 .. 1 : graph[l] = <<graph[1]>>[l]
      OBVIOUS
    <3> QED BY <1>2, <2>1, <3>1, <3>2, SeqEqual
  <2>3. pre \o <<graph[1]>> = Append(pre, graph[1])
    BY <1>3, <2>1, TwoAppends
  <2> DEFINE zero == [graph[1] EXCEPT !.do = "zero"]
  <2>4. zero \in Op /\ zero.do = "zero" /\ zero.by = graph[1].by
    BY <2>1 DEF Op
  <2>5. queue'[Current] = Append(WithCall(pre, zero, graph[1]), Do("end"))
    BY <1>4, <1>5, <1>7, <2>2, <2>3, Zenon DEF WithCall
  <2> QED BY <1>4, <2>1, <2>4, <2>5 DEF pre
<1> QED BY <1>6, <1>7

-----------------------------------------------------------------------------
(* Accumulators. *)

(* Every kernel comes right after the zeroing of its own accumulator. *)
Zeroed(q, sm) ==
  \A l \in 1 .. Len(q) : q[l].do = "kernel" =>
    IF l = 1 THEN sm[q[l].by] = 0 ELSE q[l - 1].do = "zero" /\ q[l - 1].by = q[l].by

NoneGivenUp == \A r \in DOMAIN rows : rows[r].timing # "eager_event"

Sums ==
  NoneGivenUp => /\ queue[Other] = <<>>
                 /\ adapter.sums => Zeroed(queue[Current], sum)
                 /\ \A b \in {1, 2} : sum[b] <= 1

SInv == QInv /\ Sums

LEMMA ZeroedAppend ==
  ASSUME NEW q \in Seq(Op), NEW sm, Zeroed(q, sm), NEW o \in Op, o.do # "kernel"
  PROVE  Zeroed(Append(q, o), sm)
<1> DEFINE p == Append(q, o)
<1>1. /\ Len(p) = Len(q) + 1 /\ Len(q) \in Nat
      /\ \A l \in 1 .. Len(q) : p[l] = q[l]
      /\ p[Len(q) + 1] = o
  BY AppendProperties, LenProperties
<1> HIDE DEF p
<1> SUFFICES ASSUME NEW l \in 1 .. Len(p), p[l].do = "kernel"
             PROVE  IF l = 1 THEN sm[p[l].by] = 0 ELSE p[l - 1].do = "zero" /\ p[l - 1].by = p[l].by
  BY DEF Zeroed, p
<1>2. l \in 1 .. Len(q)
  BY <1>1
<1>3. l # 1 => l - 1 \in 1 .. Len(q)
  BY <1>1, <1>2
<1>4. p[l] = q[l] /\ (l # 1 => p[l - 1] = q[l - 1])
  BY <1>1, <1>2, <1>3
<1> QED BY <1>2, <1>4 DEF Zeroed

LEMMA ZeroedCall ==
  ASSUME NEW q \in Seq(Op), NEW sm, Zeroed(q, sm), NEW zero \in Op, NEW kernel \in Op,
         zero.do = "zero", zero.by = kernel.by
  PROVE  Zeroed(Append(Append(q, zero), kernel), sm)
<1> DEFINE r == Append(q, zero)
           p == Append(r, kernel)
<1>1. r \in Seq(Op) /\ Zeroed(r, sm)
  BY ZeroedAppend
<1>2. /\ Len(r) = Len(q) + 1 /\ Len(q) \in Nat
      /\ r[Len(r)] = zero
  BY AppendProperties, LenProperties
<1> HIDE DEF r
<1>3. /\ Len(p) = Len(r) + 1
      /\ \A l \in 1 .. Len(r) : p[l] = r[l]
      /\ p[Len(r) + 1] = kernel
  BY <1>1, AppendProperties
<1> HIDE DEF p
<1> SUFFICES ASSUME NEW l \in 1 .. Len(p), p[l].do = "kernel"
             PROVE  IF l = 1 THEN sm[p[l].by] = 0 ELSE p[l - 1].do = "zero" /\ p[l - 1].by = p[l].by
  BY DEF Zeroed, p, r
<1>4. CASE l = Len(p)
  <2>1. l - 1 = Len(r) /\ l # 1 /\ l - 1 \in 1 .. Len(r) /\ l = Len(r) + 1
    BY <1>2, <1>3, <1>4
  <2>2. p[l] = kernel
    BY <1>3, <2>1
  <2>3. p[l - 1] = zero
    BY <1>2, <1>3, <2>1
  <2> QED BY <2>1, <2>2, <2>3
<1>5. CASE l # Len(p)
  <2>1. l \in 1 .. Len(r)
    BY <1>2, <1>3, <1>5
  <2>2. l # 1 => l - 1 \in 1 .. Len(r)
    BY <1>2, <2>1
  <2>3. p[l] = r[l] /\ (l # 1 => p[l - 1] = r[l - 1])
    BY <1>3, <2>1, <2>2
  <2> QED BY <1>1, <2>1, <2>3 DEF Zeroed
<1> QED BY <1>4, <1>5

LEMMA ZeroedTail ==
  ASSUME NEW q \in Seq(Op), q # <<>>, NEW sm \in [{1, 2} -> 0 .. 2], Zeroed(q, sm),
         \A b \in {1, 2} : sm[b] <= 1, NEW sn,
         sn = IF Head(q).do = "zero" THEN [sm EXCEPT ![Head(q).by] = 0]
              ELSE IF Head(q).do = "kernel"
                   THEN [sm EXCEPT ![Head(q).by] = IF @ = 0 THEN 1 ELSE 2]
                   ELSE sm
  PROVE  Zeroed(Tail(q), sn) /\ \A b \in {1, 2} : sn[b] <= 1
<1> DEFINE t == Tail(q)
<1>1. /\ Head(q) = q[1] /\ Head(q) \in Op /\ Len(q) \in Nat \ {0} /\ Len(t) = Len(q) - 1
      /\ \A l \in 1 .. Len(t) : t[l] = q[l + 1]
  BY HeadTailProperties, LenProperties, EmptySeq
<1> HIDE DEF t
<1>2. q[1].by \in {1, 2}
  BY <1>1 DEF Op
<1>3. q[1].do = "kernel" => sm[q[1].by] = 0
  BY <1>1 DEF Zeroed
<1>4. \A b \in {1, 2} : sn[b] <= 1
  BY <1>1, <1>2, <1>3
<1>5. q[1].do = "zero" => sn[q[1].by] = 0
  BY <1>1, <1>2
<1>6. ASSUME NEW l \in 1 .. Len(t), t[l].do = "kernel"
      PROVE  IF l = 1 THEN sn[t[l].by] = 0 ELSE t[l - 1].do = "zero" /\ t[l - 1].by = t[l].by
  <2>1. l + 1 \in 1 .. Len(q) /\ l + 1 # 1 /\ (l + 1) - 1 = l
    BY <1>1
  <2>2. t[l] = q[l + 1]
    BY <1>1
  <2>3. q[l].do = "zero" /\ q[l].by = q[l + 1].by
    <3>1. q[l + 1].do = "kernel"
      BY <1>6, <2>2
    <3>2. q[(l + 1) - 1].do = "zero" /\ q[(l + 1) - 1].by = q[l + 1].by
      BY <2>1, <3>1 DEF Zeroed
    <3> QED BY <2>1, <3>2
  <2>4. CASE l = 1
    BY <1>5, <2>2, <2>3, <2>4
  <2>5. CASE l # 1
    <3>1. l - 1 \in 1 .. Len(t) /\ (l - 1) + 1 = l
      BY <1>1, <2>5
    <3>2. t[l - 1] = q[l]
      BY <1>1, <3>1
    <3> QED BY <2>2, <2>3, <2>5, <3>2
  <2> QED BY <2>4, <2>5
<1> QED BY <1>4, <1>6 DEF Zeroed, t

LEMMA SumsKept ==
  ASSUME NEW q, Current' = Current, Other' = Other, UNCHANGED <<adapter, sum>>,
         \A r \in DOMAIN rows : r \in DOMAIN rows' /\ rows'[r] = rows[r],
         Sums, queue'[Other] = queue[Other],
         queue'[Current] = q, adapter.sums /\ NoneGivenUp => Zeroed(q, sum)
  PROVE  Sums'
<1>1. NoneGivenUp' => NoneGivenUp
  BY DEF NoneGivenUp
<1> QED BY <1>1 DEF Sums

LEMMA SumsStep ==
  ASSUME SInv, CallStream, [Next]_vars
  PROVE  Sums'
<1>1. IInv /\ QInv /\ Sums
  BY DEF SInv, QInv
<1>2. pc # "end" => i \in {1, 2}
  BY <1>1 DEF IInv, Place
<1>3. queue[Current] \in Seq(Op) /\ queue[Other] \in Seq(Op)
  BY <1>1, TwoStreams DEF IInv, TypeOK
<1>4. Zeroed(<<>>, sum)
  BY DEF Zeroed
<1>5. CASE Check \/ WarmUp \/ Loop \/ GraphWarmUp \/ SideWarmUp
  <2>1. Launch /\ i \in {1, 2} /\ UNCHANGED <<adapter, sum, rows>>
    BY <1>2, <1>5 DEF Check, WarmUp, Loop, GraphWarmUp, SideWarmUp, device
  <2>2. /\ queue'[Current] = WithCall(queue[Current], Do("zero"), Kernel)
        /\ queue'[Other] = queue[Other]
    BY <1>1, <2>1, LaunchAppends
  <2>3. adapter.sums /\ NoneGivenUp => Zeroed(WithCall(queue[Current], Do("zero"), Kernel), sum)
    <3>1. /\ Kernel \in Op /\ Do("zero") \in Op
          /\ Do("zero").do = "zero" /\ Do("zero").by = Kernel.by
      BY <1>1, <2>1, CallOperations DEF IInv
    <3>2. adapter.sums /\ NoneGivenUp => Zeroed(queue[Current], sum)
      BY <1>1 DEF Sums
    <3> QED BY <1>3, <3>1, <3>2, ZeroedCall DEF WithCall
  <2> QED BY <1>1, <1>5, <2>1, <2>2, <2>3, CurrentKept, SumsKept
<1>6. CASE Begin
  <2>1. i \in {1, 2} /\ UNCHANGED <<adapter, sum, rows>>
    BY <1>2, <1>6 DEF Begin, device
  <2>2. Do("flush") \in Op /\ Do("start") \in Op /\ Do("flush").do = "flush" /\ Do("start").do = "start"
    BY <1>1, <2>1, EventOps
  <2> DEFINE q == Append(Append(queue[Current], Do("flush")), Do("start"))
  <2>3. queue'[Current] = q /\ queue'[Other] = queue[Other]
    BY <1>1, <1>6, BeginAppends
  <2>4. Zeroed(queue[Current], sum) => Zeroed(q, sum)
    <3>1. Append(queue[Current], Do("flush")) \in Seq(Op)
      BY <1>3, <2>2
    <3> QED BY <1>3, <2>2, <3>1, ZeroedAppend
  <2>5. adapter.sums /\ NoneGivenUp => Zeroed(q, sum)
    BY <1>1, <2>4 DEF Sums
  <2> HIDE DEF q
  <2> QED BY <1>1, <1>6, <2>1, <2>3, <2>5, CurrentKept, SumsKept
<1>7. CASE End
  <2>1. i \in {1, 2} /\ UNCHANGED <<adapter, sum, rows>>
    BY <1>2, <1>7 DEF End, device
  <2>2. Do("end") \in Op /\ Do("end").do = "end"
    BY <1>1, <2>1, EventOps
  <2> DEFINE q == Append(queue[Current], Do("end"))
  <2>3. queue'[Current] = q /\ queue'[Other] = queue[Other]
    BY <1>1, <1>7, EndAppends
  <2>4. Zeroed(queue[Current], sum) => Zeroed(q, sum)
    BY <1>3, <2>2, ZeroedAppend
  <2>5. adapter.sums /\ NoneGivenUp => Zeroed(q, sum)
    BY <1>1, <2>4 DEF Sums
  <2> HIDE DEF q
  <2> QED BY <1>1, <1>7, <2>1, <2>3, <2>5, CurrentKept, SumsKept
<1>8. CASE Replay
  <2>1. i \in {1, 2} /\ UNCHANGED <<adapter, sum, rows>>
    BY <1>2, <1>8 DEF Replay, device
  <2>2. /\ Do("flush") \in Op /\ Do("start") \in Op /\ Do("end") \in Op
        /\ Do("flush").do = "flush" /\ Do("start").do = "start" /\ Do("end").do = "end"
    BY <1>1, <2>1, EventOps
  <2> DEFINE p == Append(Append(queue[Current], Do("flush")), Do("start"))
  <2>3. PICK zero, kernel \in Op :
           /\ zero.do = "zero" /\ kernel.do = "kernel" /\ zero.by = kernel.by
           /\ queue'[Current] = Append(WithCall(p, zero, kernel), Do("end"))
           /\ queue'[Other] = queue[Other]
    BY <1>1, <1>8, ReplayAppends
  <2>4. p \in Seq(Op) /\ (Zeroed(queue[Current], sum) => Zeroed(p, sum))
    <3>1. Append(queue[Current], Do("flush")) \in Seq(Op)
      BY <1>3, <2>2
    <3>2. p \in Seq(Op)
      BY <2>2, <3>1
    <3>3. Zeroed(queue[Current], sum) => Zeroed(p, sum)
      BY <1>3, <2>2, <3>1, ZeroedAppend
    <3> QED BY <3>2, <3>3
  <2> HIDE DEF p
  <2>5. /\ WithCall(p, zero, kernel) \in Seq(Op)
        /\ adapter.sums /\ Zeroed(p, sum) => Zeroed(WithCall(p, zero, kernel), sum)
    <3>1. Append(p, zero) \in Seq(Op) /\ Append(p, kernel) \in Seq(Op)
      BY <2>4
    <3>2. Append(Append(p, zero), kernel) \in Seq(Op)
      BY <3>1
    <3> QED BY <2>3, <2>4, <3>1, <3>2, ZeroedCall DEF WithCall
  <2> DEFINE c == WithCall(p, zero, kernel)
  <2> HIDE DEF c
  <2>6. adapter.sums /\ NoneGivenUp => Zeroed(Append(c, Do("end")), sum)
    <3>1. adapter.sums /\ NoneGivenUp => Zeroed(queue[Current], sum)
      BY <1>1 DEF Sums
    <3> QED BY <2>2, <2>4, <2>5, <3>1, ZeroedAppend DEF c
  <2> QED BY <1>1, <1>8, <2>1, <2>3, <2>6, CurrentKept, SumsKept DEF c
<1>9. CASE CheckRaises \/ Estimate \/ Elapsed \/ StartWarmUp \/ EagerRaises \/ UNCHANGED vars
  <2>1. UNCHANGED <<adapter, sum, queue>> /\ Current' = Current /\ Other' = Other
    BY <1>9, CurrentKept DEF CheckRaises, Estimate, Elapsed, StartWarmUp, EagerRaises, Result, vars, device
  <2>2. \A r \in DOMAIN rows : r \in DOMAIN rows' /\ rows'[r] = rows[r]
    <3>1. CASE ~ EagerRaises
      BY <1>9, <3>1 DEF CheckRaises, Estimate, Elapsed, StartWarmUp, vars
    <3>2. CASE EagerRaises
      <4>1. rows \in Seq(Row) /\ rows' = Append(rows, [timing |-> "failed", loops |-> 0, samples |-> <<>>])
        BY <1>1, <3>2 DEF EagerRaises, Result, IInv, TypeOK
      <4> QED BY <4>1
    <3> QED BY <3>1, <3>2
  <2>3. adapter.sums /\ NoneGivenUp => Zeroed(queue[Current], sum)
    BY <1>1 DEF Sums
  <2> QED BY <1>1, <2>1, <2>2, <2>3, SumsKept
<1>10. CASE EnterSide \/ GraphResult
  <2>1. \A s \in Streams : queue'[s] = <<>>
    BY <1>10 DEF EnterSide, GraphResult, Result, Synchronized
  <2>2. UNCHANGED <<adapter, sum>> /\ (NoneGivenUp' => NoneGivenUp)
    <3>1. CASE EnterSide
      BY <3>1 DEF EnterSide, device, NoneGivenUp
    <3>2. CASE GraphResult
      <4>1. rows \in Seq(Row) /\ rows' = Append(rows, [timing |-> "cudagraph", loops |-> 1, samples |-> samples])
        BY <1>1, <3>2 DEF GraphResult, Result, IInv, TypeOK
      <4>2. \A r \in DOMAIN rows : r \in DOMAIN rows' /\ rows'[r] = rows[r]
        BY <4>1
      <4> QED BY <3>2, <4>2 DEF GraphResult, Result, device, NoneGivenUp
    <3> QED BY <1>10, <3>1, <3>2
  <2>3. Current' \in Streams /\ Other' \in Streams
    BY DEF Current, Other, Streams
  <2>4. queue'[Current'] = <<>> /\ queue'[Other'] = <<>>
    BY <2>1, <2>3
  <2> QED BY <1>1, <1>4, <2>2, <2>4 DEF Sums
<1>11. CASE GraphRaises
  <2>1. rows \in Seq(Row) /\ rows' = Append(rows, [timing |-> "eager_event", loops |-> loops, samples |-> eager])
    BY <1>1, <1>11 DEF GraphRaises, Result, IInv, TypeOK
  <2>2. Len(rows) + 1 \in DOMAIN rows' /\ rows'[Len(rows) + 1].timing = "eager_event"
    BY <2>1
  <2> QED BY <2>2 DEF Sums, NoneGivenUp
<1>12. CASE Capture
  <2>1. i \in {1, 2} /\ UNCHANGED <<adapter, sum, rows>>
    BY <1>2, <1>12 DEF Capture, device
  <2>2. queue'[Current] = queue[Current] /\ queue'[Other] = queue[Other] \o <<>>
    BY <1>1, <1>12, <2>1, CallOperations, TwoStreams DEF Capture, IInv
  <2>3. queue'[Other] = queue[Other]
    BY <1>3, <2>2, ConcatEmptySeq
  <2>4. adapter.sums /\ NoneGivenUp => Zeroed(queue[Current], sum)
    BY <1>1 DEF Sums
  <2> QED BY <1>1, <1>12, <2>1, <2>2, <2>3, <2>4, CurrentKept, SumsKept
<1>13. CASE \E s \in Streams : Execute(s)
  <2>1. PICK s \in Streams : Execute(s)
    BY <1>13
  <2>2. /\ queue[s] # <<>> /\ queue'[s] = Tail(queue[s])
        /\ \A t \in Streams : t # s => queue'[t] = queue[t]
        /\ Current' = Current /\ Other' = Other
    BY <1>1, <2>1, ExecuteTakes
  <2> SUFFICES ASSUME NoneGivenUp'
               PROVE  /\ queue'[Other] = <<>>
                      /\ adapter'.sums => Zeroed(queue'[Current], sum')
                      /\ \A b \in {1, 2} : sum'[b] <= 1
    BY <2>2 DEF Sums
  <2>3. NoneGivenUp /\ adapter' = adapter
    BY <2>1 DEF NoneGivenUp, Execute, host
  <2>4. s = Current
    BY <1>1, <2>2, <2>3, TwoStreams DEF Sums
  <2>5. queue'[Other] = <<>>
    BY <1>1, <2>2, <2>3, <2>4, TwoStreams DEF Sums
  <2>6. sum \in [{1, 2} -> 0 .. 2] /\ \A b \in {1, 2} : sum[b] <= 1
    BY <1>1, <2>3 DEF IInv, TypeOK, Sums
  <2>7. CASE adapter.sums
    <3>1. sum' = IF Head(queue[s]).do = "zero" THEN [sum EXCEPT ![Head(queue[s]).by] = 0]
                 ELSE IF Head(queue[s]).do = "kernel"
                      THEN [sum EXCEPT ![Head(queue[s]).by] = IF @ = 0 THEN 1 ELSE 2]
                      ELSE sum
      BY <2>1, <2>7 DEF Execute
    <3>2. Zeroed(queue[s], sum)
      BY <1>1, <2>3, <2>4, <2>7 DEF Sums
    <3>3. Zeroed(Tail(queue[s]), sum') /\ \A b \in {1, 2} : sum'[b] <= 1
      BY <1>3, <2>2, <2>4, <2>6, <3>1, <3>2, ZeroedTail
    <3> QED BY <2>2, <2>4, <2>5, <3>3
  <2>8. CASE ~ adapter.sums
    <3>1. sum' = [sum EXCEPT ![Head(queue[s]).by] = 0] \/ sum' = sum
      BY <2>1, <2>8 DEF Execute
    <3>2. \A b \in {1, 2} : sum'[b] <= 1
      BY <2>6, <3>1
    <3> QED BY <2>3, <2>5, <2>8, <3>2
  <2> QED BY <2>7, <2>8
<1>14. CASE Finished
  BY <1>9, <1>14 DEF Finished
<1> QED BY <1>5, <1>6, <1>7, <1>8, <1>9, <1>10, <1>11, <1>12, <1>13, <1>14 DEF Next

(***************************************************************************)
(* "stage2 uses atomic accumulate -> must start zeroed" (moe_gemm.py:261): *)
(* if every adapter fetches the stream when it is called, no launch adds   *)
(* to what another one left, unless a graph attempt was given up, for any  *)
(* counts and whatever else raises: the zeroing and its kernel are next to *)
(* each other on the only busy stream.                                     *)
(***************************************************************************)
THEOREM AccumulatorsStartZeroed == CallStream => (Spec => []SumsFromZero)
<1> SUFFICES ASSUME CallStream PROVE Spec => []SumsFromZero
  OBVIOUS
<1>1. Init => SInv
  <2> SUFFICES ASSUME Init PROVE Quiet /\ GraphIsCall /\ Sums
    BY InitInvariant DEF SInv, QInv
  <2>1. queue[Current] = <<>> /\ queue[Other] = <<>>
    BY TwoStreams DEF Init
  <2>2. \A b \in {1, 2} : sum[b] <= 1
    BY DEF Init
  <2> QED BY <2>1, <2>2 DEF Init, Quiet, GraphIsCall, Sums, Zeroed
<1>2. SInv /\ [Next]_vars => SInv'
  BY QInvStep, SumsStep DEF SInv
<1>3. SInv => SumsFromZero
  BY DEF SInv, Sums, NoneGivenUp, SumsFromZero
<1> QED BY <1>1, <1>2, <1>3, PTL DEF Spec

-----------------------------------------------------------------------------
(***************************************************************************)
(* Times.  What the samples will be is decided when the host puts the      *)
(* events on the stream, but seen only when the device gets there.  So the *)
(* invariant foretells what the device will have come to when the current  *)
(* stream is empty: Leads(a, q, b, s, k) says that operations q, executed  *)
(* on stream s in state a, lead to b, and that each interval that ends on  *)
(* the way has had its k kernels, the first of them cold.                  *)
(***************************************************************************)
Label == [open : Streams, inside : Sample, cold : BOOLEAN, ends : Nat]

After(e, o, s) ==
  [open   |-> IF o.do = "start" THEN s ELSE e.open,
   inside |-> IF o.do = "start" THEN [kernels |-> 0, cold |-> FALSE]
              ELSE IF o.do = "kernel" /\ s = e.open
                   THEN [kernels |-> e.inside.kernels + 1,
                         cold |-> IF e.inside.kernels = 0 THEN e.cold ELSE e.inside.cold]
                   ELSE e.inside,
   cold   |-> IF o.do = "flush" THEN TRUE ELSE e.cold /\ o.do # "kernel",
   ends   |-> IF o.do = "end" THEN e.ends + 1 ELSE e.ends]

Whole(e, k) == e.inside.kernels = k /\ e.inside.cold

Run(c, q, s, k) ==
  /\ c \in [0 .. Len(q) -> Label]
  /\ \A l \in 1 .. Len(q) : /\ c[l] = After(c[l - 1], q[l], s)
                            /\ q[l].do = "end" => Whole(c[l - 1], k)

Leads(a, q, b, s, k) == \E c : Run(c, q, s, k) /\ c[0] = a /\ c[Len(q)] = b

LEMMA AfterType ==
  ASSUME NEW e \in Label, NEW o \in Op, NEW s \in Streams
  PROVE  After(e, o, s) \in Label
<1>1. e.open \in Streams /\ e.inside \in Sample /\ e.cold \in BOOLEAN /\ e.ends \in Nat
  BY DEF Label
<1>2. (IF o.do = "flush" THEN TRUE ELSE e.cold /\ o.do # "kernel") \in BOOLEAN
  OBVIOUS
<1>3. (IF o.do = "start" THEN [kernels |-> 0, cold |-> FALSE]
       ELSE IF o.do = "kernel" /\ s = e.open
            THEN [kernels |-> e.inside.kernels + 1,
                  cold |-> IF e.inside.kernels = 0 THEN e.cold ELSE e.inside.cold]
            ELSE e.inside) \in Sample
  BY <1>1 DEF Sample
<1>4. (IF o.do = "end" THEN e.ends + 1 ELSE e.ends) \in Nat /\ (IF o.do = "start" THEN s ELSE e.open) \in Streams
  BY <1>1
<1> QED BY <1>2, <1>3, <1>4 DEF After, Label

LEMMA LeadsEmpty ==
  ASSUME NEW a \in Label, NEW b, NEW s, NEW k
  PROVE  Leads(a, <<>>, b, s, k) <=> a = b
<1>1. Len(<<>>) = 0
  OBVIOUS
<1>2. ASSUME a = b PROVE Leads(a, <<>>, b, s, k)
  <2> DEFINE c == [l \in 0 .. 0 |-> a]
  <2>1. c \in [0 .. 0 -> Label] /\ c[0] = a
    OBVIOUS
  <2>2. Run(c, <<>>, s, k)
    BY <1>1, <2>1 DEF Run
  <2> QED BY <1>1, <1>2, <2>1, <2>2 DEF Leads
<1> QED BY <1>1, <1>2 DEF Leads

LEMMA LeadsAppend ==
  ASSUME NEW q \in Seq(Op), NEW s \in Streams, NEW k, NEW a, NEW b, Leads(a, q, b, s, k),
         NEW o \in Op, o.do = "end" => Whole(b, k)
  PROVE  /\ Leads(a, Append(q, o), After(b, o, s), s, k)
         /\ b \in Label /\ After(b, o, s) \in Label
<1>1. PICK c : Run(c, q, s, k) /\ c[0] = a /\ c[Len(q)] = b
  BY DEF Leads
<1> DEFINE p == Append(q, o)
           d == [l \in 0 .. Len(p) |-> IF l <= Len(q) THEN c[l] ELSE After(b, o, s)]
<1>2. Len(q) \in Nat /\ Len(p) = Len(q) + 1
      /\ (\A l \in 1 .. Len(q) : p[l] = q[l]) /\ p[Len(q) + 1] = o
  BY AppendProperties, LenProperties
<1> HIDE DEF p
<1>3. c \in [0 .. Len(q) -> Label]
  BY <1>1 DEF Run
<1>4. b \in Label /\ After(b, o, s) \in Label
  BY <1>1, <1>2, <1>3, AfterType
<1>5. d \in [0 .. Len(p) -> Label]
  BY <1>2, <1>3, <1>4
<1>6. (\A l \in 0 .. Len(q) : d[l] = c[l]) /\ d[Len(p)] = After(b, o, s)
  BY <1>2
<1> HIDE DEF d
<1>7. ASSUME NEW l \in 1 .. Len(p)
      PROVE  d[l] = After(d[l - 1], p[l], s) /\ (p[l].do = "end" => Whole(d[l - 1], k))
  <2>1. CASE l = Len(p)
    <3>1. l - 1 = Len(q) /\ p[l] = o /\ Len(q) \in 0 .. Len(q)
      BY <1>2, <2>1
    <3>2. d[l - 1] = b
      BY <1>1, <1>6, <3>1
    <3> QED BY <1>6, <2>1, <3>1, <3>2
  <2>2. CASE l # Len(p)
    <3>1. l \in 1 .. Len(q) /\ l \in 0 .. Len(q) /\ l - 1 \in 0 .. Len(q)
      BY <1>2, <2>2
    <3>2. d[l] = c[l] /\ d[l - 1] = c[l - 1] /\ p[l] = q[l]
      BY <1>2, <1>6, <3>1
    <3> QED BY <1>1, <3>1, <3>2 DEF Run
  <2> QED BY <2>1, <2>2
<1>8. d[0] = a
  <2>1. 0 \in 0 .. Len(q)
    BY <1>2
  <2> QED BY <1>1, <1>6, <2>1
<1>9. Run(d, p, s, k)
  BY <1>5, <1>7 DEF Run
<1> QED BY <1>4, <1>6, <1>8, <1>9 DEF Leads, p

LEMMA LeadsTail ==
  ASSUME NEW q \in Seq(Op), q # <<>>, NEW s \in Streams, NEW k, NEW a, NEW b, Leads(a, q, b, s, k)
  PROVE  /\ Leads(After(a, Head(q), s), Tail(q), b, s, k)
         /\ Head(q).do = "end" => Whole(a, k)
<1>1. PICK c : Run(c, q, s, k) /\ c[0] = a /\ c[Len(q)] = b
  BY DEF Leads
<1> DEFINE t == Tail(q)
           d == [l \in 0 .. Len(t) |-> c[l + 1]]
<1>2. /\ Head(q) = q[1] /\ Len(q) \in Nat \ {0} /\ Len(t) = Len(q) - 1
      /\ \A l \in 1 .. Len(t) : t[l] = q[l + 1]
  BY HeadTailProperties, LenProperties, EmptySeq
<1> HIDE DEF t
<1>3. c \in [0 .. Len(q) -> Label]
  BY <1>1 DEF Run
<1>4. d \in [0 .. Len(t) -> Label] /\ \A l \in 0 .. Len(t) : d[l] = c[l + 1]
  BY <1>2, <1>3
<1> HIDE DEF d
<1>5. ASSUME NEW l \in 1 .. Len(t)
      PROVE  d[l] = After(d[l - 1], t[l], s) /\ (t[l].do = "end" => Whole(d[l - 1], k))
  <2>1. /\ l + 1 \in 1 .. Len(q) /\ (l + 1) - 1 = l /\ (l - 1) + 1 = l
        /\ l \in 0 .. Len(t) /\ l - 1 \in 0 .. Len(t)
    BY <1>2
  <2>2. d[l] = c[l + 1] /\ d[l - 1] = c[l] /\ t[l] = q[l + 1]
    BY <1>2, <1>4, <2>1
  <2>3. c[l + 1] = After(c[l], q[l + 1], s) /\ (q[l + 1].do = "end" => Whole(c[l], k))
    BY <1>1, <2>1 DEF Run
  <2> QED BY <2>2, <2>3
<1>6. 1 \in 1 .. Len(q) /\ 0 \in 0 .. Len(t) /\ Len(t) \in 0 .. Len(t) /\ Len(t) + 1 = Len(q)
  BY <1>2
<1>7. c[1] = After(a, q[1], s) /\ (q[1].do = "end" => Whole(a, k))
  <2>1. c[1] = After(c[1 - 1], q[1], s) /\ (q[1].do = "end" => Whole(c[1 - 1], k))
    BY <1>1, <1>6 DEF Run
  <2>2. 1 - 1 = 0
    OBVIOUS
  <2> QED BY <1>1, <2>1, <2>2
<1>8. d[0] = c[1] /\ d[Len(t)] = b
  BY <1>1, <1>4, <1>6
<1>9. Run(d, t, s, k)
  BY <1>4, <1>5 DEF Run
<1> QED BY <1>2, <1>7, <1>8, <1>9 DEF Leads, t

LEMMA LeadsType ==
  ASSUME NEW q \in Seq(Op), NEW s, NEW k, NEW a, NEW b, Leads(a, q, b, s, k)
  PROVE  a \in Label /\ b \in Label
<1>1. PICK c : Run(c, q, s, k) /\ c[0] = a /\ c[Len(q)] = b
  BY DEF Leads
<1>2. 0 \in 0 .. Len(q) /\ Len(q) \in 0 .. Len(q)
  BY LenProperties
<1> QED BY <1>1, <1>2 DEF Run

(* What the operations of a call do to an interval that is open on s. *)
LEMMA CallLabel ==
  ASSUME NEW q \in Seq(Op), NEW s \in Streams, NEW k, NEW a, NEW b, Leads(a, q, b, s, k),
         NEW zero \in Op, NEW kernel \in Op, zero.do = "zero", kernel.do = "kernel"
  PROVE  \E e \in Label :
           /\ WithCall(q, zero, kernel) \in Seq(Op)
           /\ Leads(a, WithCall(q, zero, kernel), e, s, k)
           /\ e.open = b.open /\ e.ends = b.ends
           /\ b.open = s => /\ e.inside.kernels = b.inside.kernels + 1
                            /\ e.inside.cold = IF b.inside.kernels = 0 THEN b.cold ELSE b.inside.cold
<1> DEFINE KernelAfter(e, f) ==
             /\ e.open = f.open /\ e.ends = f.ends
             /\ f.open = s => /\ e.inside.kernels = f.inside.kernels + 1
                              /\ e.inside.cold = IF f.inside.kernels = 0 THEN f.cold ELSE f.inside.cold
<1>1. ASSUME NEW f PROVE KernelAfter(After(f, kernel, s), f)
  BY DEF After
<1>2. CASE ~ adapter.sums
  <2>1. Leads(a, Append(q, kernel), After(b, kernel, s), s, k) /\ After(b, kernel, s) \in Label
    BY LeadsAppend
  <2>2. Append(q, kernel) \in Seq(Op)
    BY AppendProperties
  <2> QED BY <1>1, <1>2, <2>1, <2>2 DEF WithCall
<1>3. CASE adapter.sums
  <2> DEFINE f == After(b, zero, s)
             r == Append(q, zero)
  <2>1. Leads(a, r, f, s, k) /\ r \in Seq(Op) /\ b \in Label
    BY LeadsAppend, AppendProperties
  <2>2. f.open = b.open /\ f.inside = b.inside /\ f.ends = b.ends /\ f.cold = b.cold
    BY <2>1 DEF After, Label
  <2> HIDE DEF f, r
  <2>3. Leads(a, Append(r, kernel), After(f, kernel, s), s, k) /\ After(f, kernel, s) \in Label
    BY <2>1, LeadsAppend
  <2>4. Append(r, kernel) \in Seq(Op)
    BY <2>1, AppendProperties
  <2>5. KernelAfter(After(f, kernel, s), b)
    BY <1>1, <2>2
  <2> QED BY <1>3, <2>3, <2>4, <2>5 DEF WithCall, r
<1> QED BY <1>2, <1>3

-----------------------------------------------------------------------------
(* The launches that an interval is divided by, and where the device is. *)
PerInterval == IF pc = "replay" THEN 1 ELSE loops
Device      == [open |-> open, inside |-> inside, cold |-> cold, ends |-> Len(samples)]

(* What the host has put on the stream, when it will all be done. *)
HostSays(e) ==
  /\ e.ends = n
  /\ pc = "loop" => /\ e.open = Current /\ e.inside.kernels = m
                    /\ IF m = 0 THEN e.cold ELSE e.inside.cold

Right(ss, k) == \A l \in DOMAIN ss : ss[l].kernels = k /\ ss[l].cold

Foretold ==
  pc \in {"interval", "loop", "replay"} =>
    \E e : Leads(Device, queue[Current], e, Current, PerInterval) /\ HostSays(e)

SamplesRight == pc \in {"interval", "loop", "replay"} => Right(samples, PerInterval)
EagerRight   == pc \in {"gwarm", "side", "replay"} => Len(eager) = Repeat /\ Right(eager, loops)

RowRight(row) ==
  /\ row.timing = "cudagraph" => Len(row.samples) = Replays
  /\ row.timing = "eager_event" => Len(row.samples) = Repeat
  /\ Right(row.samples, row.loops)

RowsRight == \A r \in DOMAIN rows : RowRight(rows[r])

TInv == QInv /\ Foretold /\ SamplesRight /\ EagerRight /\ RowsRight

LEMMA DeviceLabel ==
  ASSUME IInv PROVE Device \in Label
<1>1. Len(samples) \in Nat /\ open \in Streams /\ inside \in Sample /\ cold \in BOOLEAN
  BY LenProperties DEF IInv, TypeOK
<1> QED BY <1>1 DEF Device, Label

(* When the stream is empty it has all come true. *)
LEMMA NothingWaits ==
  ASSUME TInv, Synchronized, pc \in {"interval", "loop", "replay"}
  PROVE  HostSays(Device) /\ Len(samples) = n
<1>1. queue[Current] = <<>> /\ IInv
  BY TwoStreams DEF Synchronized, TInv, QInv
<1>2. PICK e : Leads(Device, <<>>, e, Current, PerInterval) /\ HostSays(e)
  BY <1>1 DEF TInv, Foretold
<1>3. e = Device
  BY <1>1, <1>2, DeviceLabel, LeadsEmpty
<1>4. HostSays(Device)
  BY <1>2, <1>3
<1> QED BY <1>4 DEF HostSays, Device

LEMMA ForetoldStep ==
  ASSUME TInv, CallStream, [Next]_vars
  PROVE  Foretold' /\ SamplesRight'
<1>1. IInv /\ IInv' /\ QInv
  BY StepInvariant DEF TInv, QInv
<1>2. /\ pc # "end" => i \in {1, 2}
      /\ n \in Nat /\ m \in 0 .. loops /\ loops \in Nat \ {0} /\ Repeat \in Nat
  BY <1>1, CountsAssumption DEF IInv, Place, TypeOK
<1>3. queue[Current] \in Seq(Op) /\ Current \in Streams
  BY <1>1, TwoStreams DEF IInv, TypeOK
<1> DEFINE k == PerInterval
<1>4. CASE pc' \notin {"interval", "loop", "replay"}
  BY <1>4 DEF Foretold, SamplesRight
<1>5. CASE Estimate \/ Capture
  <2>1. /\ samples' = <<>> /\ n' = 0 /\ pc' \in {"interval", "replay"}
        /\ Current' = Current
    BY <1>5, CurrentKept DEF Estimate, Capture
  <2>2. queue'[Current] = <<>>
    <3>1. CASE Estimate
      BY <1>3, <3>1 DEF Estimate, Synchronized
    <3>2. CASE Capture
      BY <1>1, <1>3, <3>2 DEF Capture, Synchronized, IInv, TypeOK
    <3> QED BY <1>5, <3>1, <3>2
  <2>3. Device' \in Label /\ Device'.ends = 0
    <3>1. Len(samples') = 0
      BY <2>1
    <3>2. open' \in Streams /\ inside' \in Sample /\ cold' \in BOOLEAN
      BY <1>1 DEF IInv, TypeOK
    <3> QED BY <3>1, <3>2 DEF Device, Label
  <2>4. Leads(Device', <<>>, Device', Current', PerInterval')
    BY <2>3, LeadsEmpty
  <2>5. HostSays(Device)'
    BY <2>1, <2>3 DEF HostSays
  <2>6. Foretold'
    BY <2>1, <2>2, <2>4, <2>5 DEF Foretold
  <2> QED BY <2>1, <2>6 DEF SamplesRight, Right
<1>6. ASSUME NEW e, Leads(Device, queue'[Current], e, Current, k), HostSays(e)',
             UNCHANGED <<device, samples, loops>>, Current' = Current,
             PerInterval' = PerInterval, pc \in {"interval", "loop", "replay"}
      PROVE  Foretold' /\ SamplesRight'
  <2>1. Device' = Device
    BY <1>6 DEF device, Device
  <2>2. Foretold'
    BY <1>6, <2>1 DEF Foretold
  <2> QED BY <1>6, <2>2 DEF SamplesRight, TInv
<1>7. CASE Begin
  <2>1. /\ i \in {1, 2} /\ Current' = Current /\ pc = "interval" /\ pc' = "loop" /\ m' = 0 /\ n' = n
        /\ UNCHANGED <<device, samples, loops>> /\ PerInterval' = PerInterval
    BY <1>2, <1>7, CurrentKept DEF Begin, PerInterval
  <2>2. PICK e : Leads(Device, queue[Current], e, Current, k) /\ HostSays(e)
    BY <2>1 DEF TInv, Foretold
  <2> DEFINE q == Append(queue[Current], Do("flush"))
             f == After(e, Do("flush"), Current)
  <2> HIDE DEF k
  <2>3. /\ Do("flush") \in Op /\ Do("flush").do = "flush"
        /\ Do("start") \in Op /\ Do("start").do = "start"
    BY <1>1, <2>1, EventOps
  <2>4. Leads(Device, q, f, Current, k) /\ q \in Seq(Op)
    <3>1. Do("flush").do # "end"
      BY <2>3
    <3> QED BY <1>3, <2>2, <2>3, <3>1, LeadsAppend, AppendProperties
  <2>5. f.cold = TRUE /\ f.ends = e.ends
    BY <2>3 DEF After
  <2> HIDE DEF q, f
  <2>6. PICK g : g = After(f, Do("start"), Current) /\ Leads(Device, Append(q, Do("start")), g, Current, k)
    <3>1. Do("start").do # "end"
      BY <2>3
    <3> QED BY <1>3, <2>3, <2>4, <3>1, LeadsAppend
  <2>7. g.open = Current /\ g.inside.kernels = 0 /\ g.cold = f.cold /\ g.ends = f.ends
    <3>1. g.cold = (f.cold /\ TRUE)
      BY <2>3, <2>6 DEF After
    <3> QED BY <2>3, <2>5, <2>6, <3>1 DEF After
  <2>8. HostSays(g)'
    BY <2>1, <2>2, <2>5, <2>7 DEF HostSays
  <2> QED BY <1>1, <1>6, <1>7, <2>1, <2>6, <2>8, BeginAppends DEF k, q
<1>8. CASE Loop
  <2>1. /\ i \in {1, 2} /\ Current' = Current /\ pc = "loop" /\ pc' = "loop" /\ m' = m + 1 /\ n' = n
        /\ Launch /\ UNCHANGED <<device, samples, loops>> /\ PerInterval' = PerInterval
    BY <1>2, <1>8, CurrentKept DEF Loop, PerInterval
  <2>2. PICK e : Leads(Device, queue[Current], e, Current, k) /\ HostSays(e)
    BY <2>1 DEF TInv, Foretold
  <2> HIDE DEF k
  <2>3. /\ Kernel \in Op /\ Do("zero") \in Op
        /\ Kernel.do = "kernel" /\ Do("zero").do = "zero"
    BY <1>1, <2>1, CallOperations DEF IInv
  <2>4. PICK f \in Label :
          /\ Leads(Device, WithCall(queue[Current], Do("zero"), Kernel), f, Current, k)
          /\ f.open = e.open /\ f.ends = e.ends
          /\ e.open = Current => /\ f.inside.kernels = e.inside.kernels + 1
                                 /\ f.inside.cold = IF e.inside.kernels = 0 THEN e.cold ELSE e.inside.cold
    BY <1>3, <2>2, <2>3, CallLabel
  <2>5. e.open = Current /\ e.inside.kernels = m /\ e.ends = n /\ IF m = 0 THEN e.cold ELSE e.inside.cold
    BY <2>1, <2>2 DEF HostSays
  <2>6. f.inside.kernels = m' /\ f.inside.cold /\ m' # 0
    BY <1>2, <2>1, <2>4, <2>5
  <2>7. HostSays(f)'
    BY <2>1, <2>4, <2>5, <2>6 DEF HostSays
  <2> QED BY <1>1, <1>6, <2>1, <2>4, <2>7, LaunchAppends DEF k
<1>9. CASE End
  <2>1. /\ i \in {1, 2} /\ Current' = Current /\ pc = "loop" /\ pc' = "interval" /\ m = loops /\ n' = n + 1
        /\ UNCHANGED <<device, samples, loops>> /\ PerInterval' = PerInterval /\ k = loops
    BY <1>2, <1>9, CurrentKept DEF End, PerInterval
  <2>2. PICK e : Leads(Device, queue[Current], e, Current, k) /\ HostSays(e)
    BY <2>1 DEF TInv, Foretold
  <2> HIDE DEF k
  <2>3. Do("end") \in Op /\ Do("end").do = "end"
    BY <1>1, <2>1, EventOps
  <2>4. Whole(e, k) /\ e.ends = n
    BY <1>2, <2>1, <2>2 DEF HostSays, Whole
  <2>5. PICK f : f = After(e, Do("end"), Current)
                 /\ Leads(Device, Append(queue[Current], Do("end")), f, Current, k)
    BY <1>3, <2>2, <2>3, <2>4, LeadsAppend
  <2>6. f.ends = n'
    BY <2>1, <2>3, <2>4, <2>5 DEF After
  <2>7. HostSays(f)'
    BY <2>1, <2>6 DEF HostSays
  <2> QED BY <1>1, <1>6, <1>9, <2>1, <2>5, <2>7, EndAppends DEF k
<1>10. CASE Replay
  <2>1. /\ i \in {1, 2} /\ Current' = Current /\ pc = "replay" /\ pc' = "replay" /\ n' = n + 1
        /\ UNCHANGED <<device, samples, loops>> /\ PerInterval' = PerInterval /\ k = 1
    BY <1>2, <1>10, CurrentKept DEF Replay, PerInterval
  <2>2. PICK e : Leads(Device, queue[Current], e, Current, k) /\ HostSays(e)
    BY <2>1 DEF TInv, Foretold
  <2> HIDE DEF k
  <2>3. /\ Do("flush") \in Op /\ Do("flush").do = "flush"
        /\ Do("start") \in Op /\ Do("start").do = "start"
        /\ Do("end") \in Op /\ Do("end").do = "end"
    BY <1>1, <2>1, EventOps
  <2> DEFINE q == Append(queue[Current], Do("flush"))
             r == Append(q, Do("start"))
             f == After(e, Do("flush"), Current)
             g == After(f, Do("start"), Current)
  <2>4. PICK zero, kernel \in Op :
           /\ zero.do = "zero" /\ kernel.do = "kernel" /\ zero.by = kernel.by
           /\ queue'[Current] = Append(WithCall(r, zero, kernel), Do("end"))
           /\ queue'[Other] = queue[Other]
    BY <1>1, <1>10, ReplayAppends
  <2>5. Leads(Device, q, f, Current, k) /\ q \in Seq(Op)
    <3>1. Do("flush").do # "end"
      BY <2>3
    <3> QED BY <1>3, <2>2, <2>3, <3>1, LeadsAppend, AppendProperties
  <2>6. f.cold = TRUE /\ f.ends = e.ends
    BY <2>3 DEF After
  <2> HIDE DEF q, f
  <2>7. Leads(Device, r, g, Current, k) /\ r \in Seq(Op)
    <3>1. Do("start").do # "end"
      BY <2>3
    <3> QED BY <1>3, <2>3, <2>5, <3>1, LeadsAppend, AppendProperties
  <2>8. g.open = Current /\ g.inside.kernels = 0 /\ g.cold = f.cold /\ g.ends = f.ends
    <3>1. g.cold = (f.cold /\ TRUE)
      BY <2>3 DEF After
    <3> QED BY <2>3, <2>6, <3>1 DEF After
  <2> HIDE DEF r, g
  <2>9. PICK h \in Label :
          /\ WithCall(r, zero, kernel) \in Seq(Op)
          /\ Leads(Device, WithCall(r, zero, kernel), h, Current, k)
          /\ h.open = g.open /\ h.ends = g.ends
          /\ g.open = Current => /\ h.inside.kernels = g.inside.kernels + 1
                                 /\ h.inside.cold = IF g.inside.kernels = 0 THEN g.cold ELSE g.inside.cold
    BY <1>3, <2>4, <2>7, CallLabel
  <2>10. h.inside.kernels = 1 /\ h.inside.cold = TRUE /\ h.ends = n
    BY <2>2, <2>6, <2>8, <2>9 DEF HostSays
  <2>11. Whole(h, k)
    BY <2>1, <2>10 DEF Whole
  <2> DEFINE c == WithCall(r, zero, kernel)
  <2>12. c \in Seq(Op) /\ Leads(Device, c, h, Current, k)
    BY <2>9
  <2> HIDE DEF c
  <2>13. PICK j : j = After(h, Do("end"), Current) /\ Leads(Device, Append(c, Do("end")), j, Current, k)
    BY <1>3, <2>3, <2>11, <2>12, LeadsAppend
  <2>14. j.ends = n'
    BY <2>1, <2>3, <2>10, <2>13 DEF After
  <2>15. HostSays(j)'
    BY <2>1, <2>14 DEF HostSays
  <2> QED BY <1>6, <2>1, <2>4, <2>13, <2>15 DEF k, c
<1>11. CASE /\ \E s \in Streams : Execute(s)
            /\ pc' \in {"interval", "loop", "replay"}
  <2>1. PICK s \in Streams : Execute(s)
    BY <1>11
  <2>2. /\ queue[s] # <<>> /\ queue'[s] = Tail(queue[s])
        /\ Current' = Current
    BY <1>1, <2>1, ExecuteTakes
  <2>3. /\ pc \in {"interval", "loop", "replay"} /\ PerInterval' = PerInterval
        /\ UNCHANGED <<pc, n, m>>
    BY <1>11, <2>1 DEF Execute, host, PerInterval
  <2>4. s = Current
    BY <1>1, <2>2, <2>3, TwoStreams DEF QInv, Quiet
  <2>5. PICK e : Leads(Device, queue[Current], e, Current, k) /\ HostSays(e)
    BY <2>3 DEF TInv, Foretold
  <2> HIDE DEF k
  <2> DEFINE o == Head(queue[s])
  <2>6. /\ Leads(After(Device, o, Current), Tail(queue[s]), e, Current, k)
        /\ o.do = "end" => Whole(Device, k)
    BY <1>3, <2>2, <2>4, <2>5, LeadsTail
  <2>7. Device' = After(Device, o, Current)
    <3>1. open' = IF o.do = "start" THEN Current ELSE open
      BY <2>1, <2>4 DEF Execute
    <3>2. inside' = IF o.do = "start" THEN [kernels |-> 0, cold |-> FALSE]
                    ELSE IF o.do = "kernel" /\ Current = open
                         THEN [kernels |-> inside.kernels + 1,
                               cold |-> IF inside.kernels = 0 THEN cold ELSE inside.cold]
                         ELSE inside
      BY <2>1, <2>4 DEF Execute
    <3>3. cold' = IF o.do = "flush" THEN TRUE ELSE cold /\ o.do # "kernel"
      BY <2>1 DEF Execute
    <3>4. Len(samples') = IF o.do = "end" THEN Len(samples) + 1 ELSE Len(samples)
      <4>1. samples' = IF o.do = "end" THEN Append(samples, inside) ELSE samples
        BY <2>1 DEF Execute
      <4>2. samples \in Seq(Sample) /\ inside \in Sample
        BY <1>1 DEF IInv, TypeOK
      <4> HIDE DEF o
      <4> QED BY <4>1, <4>2, AppendProperties
    <3> HIDE DEF o
    <3> QED BY <3>1, <3>2, <3>3, <3>4 DEF Device, After
  <2>8. HostSays(e)'
    BY <2>2, <2>3, <2>5 DEF HostSays
  <2>9. Foretold'
    <3>1. queue'[Current'] = Tail(queue[s])
      BY <2>2, <2>4
    <3>2. Leads(Device', queue'[Current'], e, Current', PerInterval')
      BY <2>2, <2>3, <2>6, <2>7, <3>1 DEF k
    <3> QED BY <2>8, <3>2 DEF Foretold
  <2>10. SamplesRight'
    <3>1. Right(samples, k) /\ samples \in Seq(Sample) /\ inside \in Sample
      BY <1>1, <2>3 DEF TInv, SamplesRight, IInv, TypeOK, k
    <3>2. CASE o.do # "end"
      <4>1. samples' = samples
        BY <2>1, <3>2 DEF Execute
      <4> QED BY <2>3, <3>1, <4>1 DEF SamplesRight, k
    <3>3. CASE o.do = "end"
      <4>1. samples' = Append(samples, inside)
        BY <2>1, <3>3 DEF Execute
      <4>2. inside.kernels = k /\ inside.cold
        BY <2>6, <3>3 DEF Whole, Device
      <4>3. Right(Append(samples, inside), k)
        BY <3>1, <4>2 DEF Right
      <4> QED BY <2>3, <4>1, <4>3 DEF SamplesRight, k
    <3> QED BY <3>2, <3>3
  <2> QED BY <2>9, <2>10
<1>12. CASE Finished \/ UNCHANGED vars
  <2>1. UNCHANGED vars
    BY <1>12 DEF Finished
  <2> QED BY <2>1 DEF vars, TInv, Foretold, SamplesRight, Right, HostSays, Device, PerInterval, Current
<1>13. CASE Check \/ CheckRaises \/ StartWarmUp \/ WarmUp \/ Elapsed \/ GraphWarmUp \/ EnterSide
              \/ SideWarmUp \/ GraphResult \/ GraphRaises \/ EagerRaises
  <2>1. pc' \notin {"interval", "loop", "replay"}
    BY <1>13 DEF Check, CheckRaises, StartWarmUp, WarmUp, Elapsed, GraphWarmUp, EnterSide, SideWarmUp,
       GraphResult, GraphRaises, EagerRaises, Result
  <2> QED BY <1>4, <2>1
<1> QED BY <1>4, <1>5, <1>7, <1>8, <1>9, <1>10, <1>11, <1>12, <1>13 DEF Next

(* A result takes the samples over as they are. *)
LEMMA RowsStep ==
  ASSUME TInv, [Next]_vars
  PROVE  EagerRight' /\ RowsRight'
<1>1. IInv
  BY DEF TInv, QInv
<1>2. ASSUME UNCHANGED rows PROVE RowsRight'
  BY <1>2 DEF TInv, RowsRight, RowRight, Right
<1>3. ASSUME NEW row \in Row, Result(row), RowRight(row) PROVE EagerRight' /\ RowsRight'
  <2>1. rows \in Seq(Row) /\ rows' = Append(rows, row) /\ pc' \in {"check", "end"}
    BY <1>1, <1>3 DEF Result, IInv, TypeOK
  <2>2. \A r \in DOMAIN rows' : RowRight(rows'[r])
    <3> SUFFICES ASSUME NEW r \in DOMAIN rows' PROVE RowRight(rows'[r])
      OBVIOUS
    <3>1. r \in 1 .. Len(rows) + 1 /\ Len(rows) \in Nat
      BY <2>1
    <3>2. CASE r = Len(rows) + 1
      BY <1>3, <2>1, <3>2
    <3>3. CASE r # Len(rows) + 1
      <4>1. r \in DOMAIN rows /\ rows'[r] = rows[r]
        BY <2>1, <3>1, <3>3
      <4> QED BY <4>1 DEF TInv, RowsRight
    <3> QED BY <3>2, <3>3
  <2> QED BY <2>1, <2>2 DEF EagerRight, RowsRight, RowRight, Right
<1>4. CASE GraphResult
  <2> DEFINE row == [timing |-> "cudagraph", loops |-> 1, samples |-> samples]
  <2>1. row \in Row
    BY <1>1 DEF IInv, TypeOK, Row
  <2>2. Len(samples) = Replays /\ Right(samples, 1)
    BY <1>4, NothingWaits DEF GraphResult, TInv, SamplesRight, PerInterval
  <2>3. RowRight(row)
    BY <2>2 DEF RowRight
  <2> QED BY <1>3, <1>4, <2>1, <2>3 DEF GraphResult
<1>5. CASE GraphRaises
  <2> DEFINE row == [timing |-> "eager_event", loops |-> loops, samples |-> eager]
  <2>1. row \in Row
    BY <1>1, CountsAssumption DEF IInv, TypeOK, Row
  <2>2. Len(eager) = Repeat /\ Right(eager, loops)
    BY <1>5 DEF GraphRaises, TInv, EagerRight
  <2>3. RowRight(row)
    BY <2>2 DEF RowRight
  <2> QED BY <1>3, <1>5, <2>1, <2>3 DEF GraphRaises
<1>6. CASE EagerRaises
  <2> DEFINE row == [timing |-> "failed", loops |-> 0, samples |-> <<>>]
  <2>1. row \in Row /\ RowRight(row)
    BY DEF Row, RowRight, Right
  <2> QED BY <1>3, <1>6, <2>1 DEF EagerRaises
<1>7. CASE Elapsed
  <2>1. Len(samples) = Repeat /\ Right(samples, loops)
    BY <1>7, NothingWaits DEF Elapsed, TInv, SamplesRight, PerInterval
  <2>2. eager' = samples /\ loops' = loops /\ rows' = rows
    BY <1>7 DEF Elapsed
  <2> QED BY <1>2, <2>1, <2>2 DEF EagerRight, Right
<1>8. CASE Check \/ CheckRaises \/ StartWarmUp \/ WarmUp \/ Estimate \/ Begin \/ Loop \/ End
  <2>1. rows' = rows /\ pc' \notin {"gwarm", "side", "replay"}
    BY <1>8 DEF Check, CheckRaises, StartWarmUp, WarmUp, Estimate, Begin, Loop, End
  <2> QED BY <1>2, <2>1 DEF EagerRight
<1>9. CASE GraphWarmUp \/ EnterSide \/ SideWarmUp \/ Capture \/ Replay \/ Finished \/ UNCHANGED vars
           \/ \E s \in Streams : Execute(s)
  <2>1. /\ UNCHANGED <<rows, eager, loops>>
        /\ pc' \in {"gwarm", "side", "replay"} => pc \in {"gwarm", "side", "replay"}
    BY <1>9 DEF GraphWarmUp, EnterSide, SideWarmUp, Capture, Replay, Finished, vars, Execute, host
  <2> QED BY <1>2, <2>1 DEF TInv, EagerRight, Right
<1> QED BY <1>4, <1>5, <1>6, <1>7, <1>8, <1>9 DEF Next

LEMMA TimingInvariant == CallStream => (Spec => []TInv)
<1> SUFFICES ASSUME CallStream PROVE Spec => []TInv
  OBVIOUS
<1>1. Init => TInv
  <2> SUFFICES ASSUME Init PROVE TInv
    OBVIOUS
  <2>1. pc = "check" /\ rows = <<>>
    BY DEF Init
  <2>2. QInv
    BY <2>1, InitInvariant DEF QInv, Quiet, GraphIsCall
  <2> QED BY <2>1, <2>2 DEF TInv, Foretold, SamplesRight, EagerRight, RowsRight
<1>2. TInv /\ [Next]_vars => TInv'
  BY QInvStep, ForetoldStep, RowsStep DEF TInv
<1> QED BY <1>1, <1>2, PTL DEF Spec

(***************************************************************************)
(* With launches that "land on the capture stream" (common.py:351-352), a  *)
(* time is always that of exactly the launches it is divided by, for any   *)
(* counts, any adapters, any delay of the device and any exception; and    *)
(* the fallback on an eager result has all its intervals.                  *)
(***************************************************************************)
THEOREM TimesAreOfTheirKernels == CallStream => (Spec => []RowTimesItsKernels)
<1>1. TInv => RowTimesItsKernels
  BY DEF TInv, RowsRight, RowRight, Right, RowTimesItsKernels
<1> QED BY <1>1, TimingInvariant, PTL

(***************************************************************************)
(* "evict L2 so memory-bound kernels read cold" (common.py:327): under the *)
(* same premise no operation comes between the flush and the first kernel  *)
(* of its interval, neither of the warm-up nor from another stream.        *)
(***************************************************************************)
THEOREM TimesAreCold == CallStream => (Spec => []IntervalsStartCold)
<1>1. TInv => IntervalsStartCold
  BY DEF TInv, RowsRight, RowRight, Right, IntervalsStartCold
<1> QED BY <1>1, TimingInvariant, PTL

-----------------------------------------------------------------------------
(***************************************************************************)
(* The catalogue.  The adapters of the code, but for the three that have a *)
(* finding, meet the premises: the fields that each one's entries depend   *)
(* on are in its key or pinned, and each fetches the stream at call time.  *)
(***************************************************************************)
Meets(a) == a.holds \subseteq a.key \cup a.pinned /\ a.stream = "call"

LEMMA WithoutCacheMeets == \A a \in WithoutCache : Meets(a)
<1>1. \A a \in WithoutCache : a = Uncached
  BY DEF WithoutCache, RmsnormAiter, RmsnormAiterTriton, RmsnormTriton, RmsnormPyTorch,
   LayernormPyTorch, LayernormAiter, LayernormAiterTriton,
   SoftmaxAiterTriton, SoftmaxTriton, SoftmaxPyTorch, GemmAiterTriton,
   GemmHipBLASLt, GemmPyTorch, RopePyTorch, FlashAttnPyTorch,
   FlashAttnAiter, FlashAttnAiterASM, FlashAttnAiterTriton, RowscalePyTorch,
   RowscaleAiter, RowscaleAiterTriton, RowscaleGluon, PreshufflePyTorch,
   BlockscalePyTorch, BlockscaleAiterTriton, MoeReduceTriton,
   MoeReducePyTorch, QuantPyTorch, QuantAiter, QuantAiterTriton,
   QuantTriton, TopkPyTorch, TopkAiter, TopkAiterTriton, VecAddPyTorch,
   VecAddAiterTriton, PaDecodePyTorch, MlaDecodePyTorch, MoeGemmPyTorch, MoeBlockPyTorch
<1> QED
  BY <1>1 DEF Uncached, Keyed, Meets

(* An adapter whose key has all that it holds, or all but what it pins. *)
LEMMA KeyedMeets ==
  ASSUME NEW key, NEW holds, NEW pinned
  PROVE  /\ holds \subseteq key => Meets(Keyed(key, holds))
         /\ holds \subseteq key \cup pinned => Meets([Keyed(key, holds) EXCEPT !.pinned = pinned])
         /\ holds \subseteq key => Meets([Keyed(key, holds) EXCEPT !.sums = TRUE])
BY DEF Keyed, Meets

LEMMA WithCacheMeets == \A a \in WithCache \ Outliers : Meets(a)
<1>1. Meets(SoftmaxFlyDSL) /\ Meets(GemmFlyDSL) /\ Meets(GemmAiter) /\ Meets(TopkFlyDSL)
  BY KeyedMeets DEF SoftmaxFlyDSL, SoftmaxInputs, GemmFlyDSL, GemmAiter, GemmInputs, TopkFlyDSL, TopkInputs
<1>2. Meets(MoeReduceFlyDSL) /\ Meets(FlashAttnFlyDSL) /\ Meets(PreshuffleFlyDSL) /\ Meets(PreshuffleAiter)
  BY KeyedMeets DEF MoeReduceFlyDSL, MoeReduceInputs, FlashAttnFlyDSL, FlashAttnInputs,
    PreshuffleFlyDSL, PreshuffleAiter, PreshuffleInputs
<1>3. Meets(BlockscaleFlyDSL) /\ Meets(BlockscaleAiter) /\ Meets(RowscaleFlyDSL) /\ Meets(MoeGemmAiter)
  BY KeyedMeets DEF BlockscaleFlyDSL, BlockscaleAiter, BlockscaleInputs, RowscaleFlyDSL, RowscaleInputs,
    MoeGemmAiter, MoeGemmInputs
<1>4. Meets(RmsnormFlyDSL) /\ Meets(LayernormFlyDSL) /\ Meets(QuantFlyDSL) /\ Meets(VecAddFlyDSL)
  BY KeyedMeets DEF RmsnormFlyDSL, RmsnormInputs, LayernormFlyDSL, LayernormInputs, QuantFlyDSL,
    QuantInputs, VecAddFlyDSL, VecAddInputs
<1>5. Meets(RopeFlyDSL)
  BY KeyedMeets DEF RopeFlyDSL
<1>6. Meets(PaDecodeFlyDSL) /\ Meets(PaDecodeGluon)
  BY KeyedMeets DEF PaDecodeFlyDSL, PaDecodeGluon, PaDecodeInputs
<1>7. Meets(MlaDecodeFlyDSL) /\ Meets(MlaDecodeAiter) /\ Meets(MlaDecodeAiterASM)
  BY KeyedMeets DEF MlaDecodeFlyDSL, MlaDecodeAiter, MlaDecodeAiterASM, MlaDecodeInputs
<1>8. Meets(MoeBlockAiter)
  BY KeyedMeets DEF MoeBlockAiter, MoeBlockInputs
<1> QED
  BY <1>1, <1>2, <1>3, <1>4, <1>5, <1>6, <1>7, <1>8 DEF WithCache, Outliers

(***************************************************************************)
(* With the adapters of the code, but for those three: no kernel works on  *)
(* the buffers of another shape, and every time is that of its kernels,    *)
(* from a cold cache, with accumulators that were zeroed, for any counts.  *)
(***************************************************************************)
THEOREM CatalogueIsMeasuredRight ==
  Adapters \subseteq SoundAdapters =>
    (Spec => [](FreshBuffers /\ RowTimesItsKernels /\ IntervalsStartCold /\ SumsFromZero))
<1> SUFFICES ASSUME Adapters \subseteq SoundAdapters
             PROVE  Spec => [](FreshBuffers /\ RowTimesItsKernels /\ IntervalsStartCold /\ SumsFromZero)
  OBVIOUS
<1>1. \A a \in Adapters : Meets(a)
  BY WithoutCacheMeets, WithCacheMeets DEF SoundAdapters
<1>2. KeysCover /\ CallStream
  BY <1>1 DEF Meets, KeysCover, CallStream
<1> QED
  BY <1>2, CoveringKeysGiveFreshBuffers, TimesAreOfTheirKernels, TimesAreCold,
     AccumulatorsStartZeroed, PTL
=============================================================================
