---------------------------- MODULE GpuPoolProofs ----------------------------
(***************************************************************************)
(* The GPU pool of tools/run_pool.py for every --tests list and every      *)
(* number of GPUs.  Exclusive allocation is not inductive by itself: it    *)
(* needs that a driver which is alive is still in `running' (the parent    *)
(* pops a job only after poll() saw it exit), that the free list has no    *)
(* repetition, and that it is disjoint from the GPUs in `running'.         *)
(***************************************************************************)
EXTENDS GpuPool, TLAPS

(* What `running', `gpu' and the drivers have to do with each other. *)
Bookkeeping ==
  /\ running \subseteq 1 .. launched
  /\ snapshot \subseteq running
  /\ Alive \subseteq running
  /\ \A j \in Jobs : gpu[j] \in Gpus <=> j \in running
  /\ pc = "complete" => launched = Len(Tests) /\ running = {}

(* No GPU is in two places. *)
Exclusive ==
  /\ \A j, k \in running : gpu[j] = gpu[k] => j = k
  /\ \A i, k \in 1 .. Len(free) : free[i] = free[k] => i = k
  /\ \A j \in running, i \in 1 .. Len(free) : gpu[j] # free[i]

(* No GPU is nowhere. *)
Conserved ==
  \A g \in Gpus : (\E j \in running : gpu[j] = g) \/ (\E i \in 1 .. Len(free) : free[i] = g)

Counted ==
  \A j \in Jobs : done[j] = IF j <= launched /\ j \notin running THEN 1 ELSE 0

IInv == TypeOK /\ Bookkeeping /\ Exclusive /\ Conserved /\ Counted

-----------------------------------------------------------------------------

LEMMA JobFacts ==
  /\ Len(Tests) \in Nat
  /\ NoGpu \notin Gpus
  /\ \A j \in Jobs : Tests[j] \in Stems /\ j \in Nat
BY TestsAssumption, NGpuAssumption DEF NoGpu, Gpus, Jobs, Stems

(* What popping the head of the free list leaves. *)
LEMMA TailFacts ==
  ASSUME NEW S, NEW s \in Seq(S), s # <<>>
  PROVE  /\ Head(s) \in S /\ Head(s) = s[1]
         /\ Tail(s) \in Seq(S)
         /\ Len(Tail(s)) = Len(s) - 1 /\ Len(s) \in Nat /\ Len(s) > 0
         /\ \A i \in 1 .. Len(Tail(s)) : Tail(s)[i] = s[i + 1]
OBVIOUS

(* What appending a GPU to the free list gives. *)
LEMMA AppendFacts ==
  ASSUME NEW S, NEW s \in Seq(S), NEW e \in S
  PROVE  /\ Append(s, e) \in Seq(S)
         /\ Len(Append(s, e)) = Len(s) + 1 /\ Len(s) \in Nat
         /\ \A i \in 1 .. Len(s) : Append(s, e)[i] = s[i]
         /\ Append(s, e)[Len(s) + 1] = e
OBVIOUS

LEMMA InitIInv == Init => IInv
<1> SUFFICES ASSUME Init PROVE IInv
  OBVIOUS
<1>1. /\ Len(free) = NGpu
      /\ free \in Seq(Gpus)
      /\ \A i \in 1 .. NGpu : free[i] = i - 1
  BY NGpuAssumption DEF Init, Gpus
<1>2. TypeOK
  BY <1>1, JobFacts
     DEF Init, TypeOK, FileState, ChildState, Absent, Whole, Unread, NoGpu, Jobs
<1>3. Bookkeeping
  BY JobFacts DEF Init, Bookkeeping, Alive, Jobs
<1>4. Exclusive
  BY <1>1, NGpuAssumption DEF Init, Exclusive
<1>5. Conserved
  <2> SUFFICES ASSUME NEW g \in Gpus PROVE \E i \in 1 .. Len(free) : free[i] = g
    BY DEF Conserved
  <2>1. g + 1 \in 1 .. NGpu /\ free[g + 1] = g
    BY <1>1, NGpuAssumption DEF Gpus
  <2> QED
    BY <1>1, <2>1
<1>6. Counted
  BY JobFacts DEF Init, Counted, Jobs
<1> QED
  BY <1>2, <1>3, <1>4, <1>5, <1>6 DEF IInv

LEMMA LaunchIInv == IInv /\ Launch => IInv'
<1> SUFFICES ASSUME IInv, Launch PROVE IInv'
  OBVIOUS
<1> DEFINE j == launched + 1
           g == Head(free)
<1>1. /\ launched \in Nat /\ j \in Jobs /\ j \notin running
      /\ launched' = j /\ running' = running \cup {j}
      /\ free' = Tail(free) /\ free # <<>> /\ free \in Seq(Gpus)
      /\ gpu' = [gpu EXCEPT ![j] = g] /\ child' = [child EXCEPT ![j] = "harness"]
      /\ UNCHANGED <<pc, snapshot, done, report, file>>
  BY JobFacts DEF IInv, TypeOK, Bookkeeping, Launch, QueueNotEmpty, Jobs
<1>2. /\ g \in Gpus /\ g = free[1] /\ Len(free) > 0 /\ Len(free) \in Nat
      /\ free' \in Seq(Gpus) /\ Len(free') = Len(free) - 1
      /\ \A i \in 1 .. Len(free') : free'[i] = free[i + 1]
  BY <1>1, TailFacts
<1>3. TypeOK'
  BY <1>1, <1>2, JobFacts DEF IInv, TypeOK, ChildState, Jobs
<1>4. \A k \in Jobs : gpu'[k] = IF k = j THEN g ELSE gpu[k]
  BY <1>1 DEF IInv, TypeOK
<1>5. \A k \in Jobs : child'[k] = IF k = j THEN "harness" ELSE child[k]
  BY <1>1 DEF IInv, TypeOK
<1>6. running \subseteq Jobs
  BY DEF IInv, TypeOK
<1>7. Bookkeeping'
  BY <1>1, <1>2, <1>4, <1>5, <1>6 DEF IInv, Bookkeeping, Alive, Launch
<1>8. Exclusive'
  BY <1>1, <1>2, <1>4, <1>6 DEF IInv, Exclusive
<1>9. Conserved'
  <2> SUFFICES ASSUME NEW h \in Gpus
               PROVE (\E k \in running' : gpu'[k] = h)
                     \/ (\E i \in 1 .. Len(free') : free'[i] = h)
    BY DEF Conserved
  <2>1. CASE \E k \in running : gpu[k] = h
    BY <1>1, <1>4, <1>6, <2>1
  <2>2. CASE \E i \in 1 .. Len(free) : free[i] = h
    <3> PICK i \in 1 .. Len(free) : free[i] = h
      BY <2>2
    <3>1. CASE i = 1
      BY <1>1, <1>2, <1>4, <3>1
    <3>2. CASE i # 1
      <4>1. i - 1 \in 1 .. Len(free') /\ free'[i - 1] = h
        BY <1>2, <3>2
      <4> QED
        BY <4>1
    <3> QED
      BY <3>1, <3>2
  <2> QED
    BY <2>1, <2>2 DEF IInv, Conserved
<1>10. Counted'
  BY <1>1 DEF IInv, Counted, Jobs
<1> QED
  BY <1>3, <1>7, <1>8, <1>9, <1>10 DEF IInv

LEMMA ReapIInv == ASSUME NEW j \in Jobs, IInv, Reap(j) PROVE IInv'
<1> DEFINE g == gpu[j]
<1>1. /\ j \in running /\ j \in snapshot /\ child[j] \notin {"harness", "writing", "wrote"}
      /\ pc \notin {"complete"}
      /\ snapshot' = snapshot \ {j} /\ running' = running \ {j}
      /\ free' = Append(free, g) /\ free \in Seq(Gpus) /\ g \in Gpus
      /\ gpu' = [gpu EXCEPT ![j] = NoGpu]
      /\ done' = [done EXCEPT ![j] = @ + 1]
      /\ report' = [report EXCEPT ![j] = file[Tests[j]]]
      /\ UNCHANGED <<pc, launched, child, file>>
  BY DEF IInv, TypeOK, Bookkeeping, Reap, IsNextPolled, Exited
<1>2. /\ free' \in Seq(Gpus) /\ Len(free') = Len(free) + 1 /\ Len(free) \in Nat
      /\ \A i \in 1 .. Len(free) : free'[i] = free[i]
      /\ free'[Len(free) + 1] = g
  BY <1>1, AppendFacts
<1>3. /\ running \subseteq Jobs /\ launched \in Nat /\ running \subseteq 1 .. launched
      /\ \A k \in Jobs : k \in Nat
  BY JobFacts DEF IInv, TypeOK, Bookkeeping
<1>4. TypeOK'
  <2>1. file[Tests[j]] \in FileState
    BY JobFacts DEF IInv, TypeOK
  <2> QED
    BY <1>1, <1>2, <2>1 DEF IInv, TypeOK
<1>5. \A k \in Jobs : gpu'[k] = IF k = j THEN NoGpu ELSE gpu[k]
  BY <1>1 DEF IInv, TypeOK
<1>6. Bookkeeping'
  BY <1>1, <1>3, <1>5, JobFacts DEF IInv, Bookkeeping, Alive
<1>7. Exclusive'
  BY <1>1, <1>2, <1>3, <1>5 DEF IInv, Exclusive
<1>8. Conserved'
  <2> SUFFICES ASSUME NEW h \in Gpus
               PROVE (\E k \in running' : gpu'[k] = h)
                     \/ (\E i \in 1 .. Len(free') : free'[i] = h)
    BY DEF Conserved
  <2>1. CASE h = g
    BY <1>2, <2>1
  <2>2. CASE h # g /\ \E k \in running : gpu[k] = h
    BY <1>1, <1>3, <1>5, <2>2
  <2>3. CASE \E i \in 1 .. Len(free) : free[i] = h
    BY <1>2, <2>3
  <2> QED
    BY <2>1, <2>2, <2>3 DEF IInv, Conserved
<1>9. Counted'
  <2>1. \A k \in Jobs : done'[k] = IF k = j THEN done[k] + 1 ELSE done[k]
    BY <1>1 DEF IInv, TypeOK
  <2> QED
    BY <1>1, <1>3, <2>1 DEF IInv, Counted
<1> QED
  BY <1>4, <1>6, <1>7, <1>8, <1>9 DEF IInv

(* A driver changes only its own state and its stem's file. *)
LEMMA DriverIInv == ASSUME NEW j \in Jobs, IInv, Driver(j) PROVE IInv'
<1>1. UNCHANGED poolVars /\ child[j] \in {"harness", "writing", "wrote"}
  BY DEF Driver, BeginWrite, EndWrite, ExitClean, Fail
<1>2. \E c \in ChildState : child' = [child EXCEPT ![j] = c]
  BY DEF Driver, BeginWrite, EndWrite, ExitClean, Fail, ChildState
<1>3. file' \in [Stems -> FileState]
  <2>1. file \in [Stems -> FileState] /\ Tests[j] \in Stems
    BY JobFacts DEF IInv, TypeOK
  <2>2. {Empty, Garbled, Whole(j)} \subseteq FileState
    BY DEF FileState
  <2>3. CASE BeginWrite(j)
    BY <2>1, <2>2, <2>3 DEF BeginWrite
  <2>4. CASE EndWrite(j)
    BY <2>1, <2>2, <2>4 DEF EndWrite
  <2>5. CASE ExitClean(j) \/ Fail(j)
    BY <2>1, <2>5 DEF ExitClean, Fail
  <2> QED
    BY <2>3, <2>4, <2>5 DEF Driver
<1>4. TypeOK'
  BY <1>1, <1>2, <1>3 DEF IInv, TypeOK, poolVars
<1>5. Alive' \subseteq running
  BY <1>1, <1>2 DEF IInv, TypeOK, Bookkeeping, Alive
<1>6. Bookkeeping'
  BY <1>1, <1>5 DEF IInv, Bookkeeping, poolVars
<1> QED
  BY <1>1, <1>4, <1>6 DEF IInv, Exclusive, Conserved, Counted, poolVars

LEMMA StepIInv == IInv /\ [Next]_vars => IInv'
<1> SUFFICES ASSUME IInv, [Next]_vars PROVE IInv'
  OBVIOUS
<1>1. CASE LoopTop
  <2>1. /\ pc' \in {"launch", "complete"}
        /\ pc' = "complete" => ~QueueNotEmpty /\ running = {}
        /\ UNCHANGED <<launched, free, running, gpu, snapshot, done, report, child, file>>
    BY <1>1 DEF LoopTop
  <2>2. ~QueueNotEmpty => launched = Len(Tests)
    BY JobFacts DEF IInv, TypeOK, QueueNotEmpty
  <2>3. TypeOK'
    BY <2>1 DEF IInv, TypeOK
  <2>4. Bookkeeping'
    BY <2>1, <2>2 DEF IInv, Bookkeeping, Alive
  <2> QED
    BY <2>1, <2>3, <2>4 DEF IInv, Exclusive, Conserved, Counted
<1>2. CASE Launch
  BY <1>2, LaunchIInv
<1>3. CASE EndLaunch
  BY <1>3 DEF IInv, TypeOK, Bookkeeping, Exclusive, Conserved, Counted, Alive, EndLaunch
<1>4. CASE Wake
  BY <1>4 DEF IInv, TypeOK, Bookkeeping, Exclusive, Conserved, Counted, Alive, Wake
<1>5. CASE \E j \in Jobs : StillRunning(j)
  BY <1>5 DEF IInv, TypeOK, Bookkeeping, Exclusive, Conserved, Counted, Alive, StillRunning
<1>6. CASE \E j \in Jobs : Reap(j)
  BY <1>6, ReapIInv
<1>7. CASE \E j \in Jobs : Driver(j)
  BY <1>7, DriverIInv
<1>8. CASE UNCHANGED vars
  BY <1>8 DEF IInv, TypeOK, Bookkeeping, Exclusive, Conserved, Counted, Alive, vars
<1> QED
  BY <1>1, <1>2, <1>3, <1>4, <1>5, <1>6, <1>7, <1>8 DEF Next, Pool, Terminated

(* The inductive invariant holds in every reachable state. *)
THEOREM Invariance == Safe => []IInv
<1> QED
  BY InitIInv, StepIInv, PTL DEF Safe

(* Type correctness of the pool, its drivers and the result files. *)
THEOREM TypeCorrect == Safe => []TypeOK
<1>1. IInv => TypeOK
  BY DEF IInv
<1> QED
  BY <1>1, Invariance, PTL

(***************************************************************************)
(* run_pool.py:4-5: for every list of tests and every number of GPUs two   *)
(* drivers that are alive never share a GPU, and the pool never offers the *)
(* GPU of a driver that is alive to the next test.                         *)
(***************************************************************************)
THEOREM Dedicated == Safe => []DedicatedGpu
<1>1. IInv => DedicatedGpu
  BY DEF IInv, TypeOK, Bookkeeping, Exclusive, DedicatedGpu, Alive
<1> QED
  BY <1>1, Invariance, PTL

(* No GPU is lost or handed out twice over the life of the pool. *)
THEOREM NoGpuLost == Safe => []FreeListExact
<1>1. IInv => FreeListExact
  BY DEF IInv, Exclusive, Conserved, FreeListExact
<1> QED
  BY <1>1, Invariance, PTL

(* Each position of --tests is in the queue, running, or done once. *)
THEOREM OneDoneLineEach == Safe => []EveryTestOnce
<1>1. IInv => EveryTestOnce
  BY DEF IInv, Bookkeeping, Counted, EveryTestOnce, Jobs
<1> QED
  BY <1>1, Invariance, PTL

-----------------------------------------------------------------------------
(* Every step of the pool is a step of the abstract pool or stutters. *)

LEMMA BarFacts ==
  ASSUME IInv
  PROVE  /\ \A j \in Jobs : heldBar[j] = IF j \in running THEN gpu[j] ELSE NoGpu
         /\ \A j \in Jobs : phaseBar[j] = IF j > launched THEN "waiting"
                              ELSE IF j \in running THEN "running" ELSE "finished"
BY DEF phaseBar, heldBar

LEMMA LaunchStarts == IInv /\ Launch => Abstract!Start(launched + 1)
<1> SUFFICES ASSUME IInv, Launch PROVE Abstract!Start(launched + 1)
  OBVIOUS
<1> DEFINE j == launched + 1
           g == Head(free)
<1>1. /\ launched \in Nat /\ j \in Jobs /\ j \notin running /\ running \subseteq Jobs
      /\ launched' = j /\ running' = running \cup {j} /\ running \subseteq 1 .. launched
      /\ free # <<>> /\ free \in Seq(Gpus) /\ gpu \in [Jobs -> Gpus \cup {NoGpu}]
      /\ gpu' = [gpu EXCEPT ![j] = g]
      /\ \A k \in Jobs : k \in Nat
  BY JobFacts DEF IInv, TypeOK, Bookkeeping, Launch, QueueNotEmpty, Jobs
<1>2. g \in Gpus /\ g = free[1] /\ 1 \in 1 .. Len(free)
  BY <1>1, TailFacts
<1>3. \A k \in running : gpu[k] # g
  BY <1>2 DEF IInv, Exclusive
<1>4. g \in Abstract!Available
  BY <1>2, <1>3, JobFacts DEF Abstract!Available, heldBar
<1>5. phaseBar[j] = "waiting"
  BY <1>1 DEF phaseBar
<1>6. phaseBar' = [phaseBar EXCEPT ![j] = "running"]
  <2>1. \A k \in Jobs : (k > j <=> k > launched /\ k # j)
    BY <1>1
  <2>2. \A k \in Jobs : phaseBar'[k] = IF k = j THEN "running" ELSE phaseBar[k]
    BY <1>1, <2>1 DEF phaseBar
  <2> QED
    BY <1>1, <2>2 DEF phaseBar
<1>7. heldBar' = [heldBar EXCEPT ![j] = g]
  BY <1>1 DEF heldBar
<1> QED
  BY <1>4, <1>5, <1>6, <1>7 DEF Abstract!Start

LEMMA ReapFinishes == ASSUME NEW j \in Jobs, IInv, Reap(j) PROVE Abstract!Finish(j)
<1>1. /\ j \in running /\ running' = running \ {j} /\ running \subseteq 1 .. launched
      /\ gpu' = [gpu EXCEPT ![j] = NoGpu] /\ launched' = launched /\ launched \in Nat
      /\ gpu \in [Jobs -> Gpus \cup {NoGpu}] /\ running \subseteq Jobs
      /\ \A k \in Jobs : k \in Nat
  BY JobFacts DEF IInv, TypeOK, Bookkeeping, Reap, IsNextPolled
<1>2. phaseBar[j] = "running"
  BY <1>1 DEF phaseBar
<1>3. phaseBar' = [phaseBar EXCEPT ![j] = "finished"]
  <2>1. ~(j > launched)
    BY <1>1
  <2>2. \A k \in Jobs : phaseBar'[k] = IF k = j THEN "finished" ELSE phaseBar[k]
    BY <1>1, <2>1 DEF phaseBar
  <2> QED
    BY <1>1, <2>2 DEF phaseBar
<1>4. heldBar' = [heldBar EXCEPT ![j] = NoGpu]
  BY <1>1 DEF heldBar
<1> QED
  BY <1>2, <1>3, <1>4 DEF Abstract!Finish

(***************************************************************************)
(* The pool implements the safety part of ResourcePool: launch and reap    *)
(* are Start and Finish, everything else is invisible.                     *)
(***************************************************************************)
THEOREM PoolRefines == Safe => Abstract!Safe
<1>1. Init => Abstract!Init
  BY JobFacts DEF Init, Abstract!Init, phaseBar, heldBar, Jobs
<1>2. IInv /\ [Next]_vars => [Abstract!Next]_(Abstract!vars)
  <2> SUFFICES ASSUME IInv, [Next]_vars
               PROVE Abstract!Next \/ UNCHANGED <<phaseBar, heldBar>>
    BY DEF Abstract!vars
  <2>1. CASE Launch
    <3>1. launched + 1 \in Jobs
      BY <2>1, JobFacts DEF IInv, TypeOK, Launch, QueueNotEmpty, Jobs
    <3> QED
      BY <2>1, <3>1, LaunchStarts DEF Abstract!Next
  <2>2. CASE \E j \in Jobs : Reap(j)
    BY <2>2, ReapFinishes DEF Abstract!Next
  <2>3. CASE UNCHANGED <<launched, running, gpu>>
    BY <2>3 DEF phaseBar, heldBar
  <2> QED
    BY <2>1, <2>2, <2>3
       DEF Next, Pool, LoopTop, EndLaunch, Wake, StillRunning, Driver, BeginWrite,
           EndWrite, ExitClean, Fail, Terminated, vars, poolVars
<1> QED
  BY <1>1, <1>2, Invariance, PTL DEF Safe, Abstract!Safe

-----------------------------------------------------------------------------
(***************************************************************************)
(* The result files.  What a DONE line quotes was in the file when the     *)
(* pool looked, so the invariant says of every place of a driver what is   *)
(* in the file of its stem: with twins, that it is of this sweep once any  *)
(* of them has truncated it; without, exactly what.                        *)
(***************************************************************************)

(* What drivers of this sweep may leave in the file of j's stem. *)
OfThisSweep(j) == {Empty, Garbled} \cup {Whole(k) : k \in {l \in Jobs : Tests[l] = Tests[j]}}

(* What was there before the sweep. *)
Before(s) == IF s \in Leftover THEN Whole(0) ELSE Absent

NotStarted == \A j \in Jobs : j > launched => child[j] = "none"

FileIsCurrent ==
  \A j \in Jobs : child[j] \in {"writing", "wrote", "clean"} => file[Tests[j]] \in OfThisSweep(j)

(* What is in the file of stem s while its only driver j is at a place c. *)
Contents(j, c, f) ==
  /\ c \in {"none", "harness"} => f = Before(Tests[j])
  /\ c = "writing" => f = Empty
  /\ c \in {"wrote", "clean"} => f = Whole(j)
  /\ c = "failed" => f \in {Before(Tests[j]), Empty, Whole(j)}

FileIsOwn == \A j \in Jobs : ListedOnce(j) => Contents(j, child[j], file[Tests[j]])

(* A DONE line is of a driver that is gone, and of the file as it was then. *)
Quoted ==
  \A j \in Jobs : done[j] > 0 =>
    /\ child[j] \in Exited
    /\ child[j] = "clean" => report[j] \in OfThisSweep(j)
    /\ ListedOnce(j) => report[j] = file[Tests[j]]

FInv == IInv /\ NotStarted /\ FileIsCurrent /\ FileIsOwn /\ Quoted

LEMMA InitFInv == Init => FInv
<1> SUFFICES ASSUME Init PROVE FInv
  OBVIOUS
<1>1. \A j \in Jobs : child[j] = "none" /\ done[j] = 0 /\ file[Tests[j]] = Before(Tests[j])
  BY JobFacts DEF Init, Before
<1> QED
  BY <1>1, InitIInv DEF FInv, NotStarted, FileIsCurrent, FileIsOwn, Contents, Quoted

LEMMA LaunchFInv == FInv /\ Launch => FInv'
<1> SUFFICES ASSUME FInv, Launch PROVE FInv'
  OBVIOUS
<1> DEFINE j == launched + 1
<1>1. IInv'
  BY LaunchIInv DEF FInv
<1>2. /\ launched \in Nat /\ j \in Jobs /\ launched' = j /\ child \in [Jobs -> ChildState]
      /\ child' = [child EXCEPT ![j] = "harness"]
      /\ UNCHANGED <<report, file, done>>
      /\ \A k \in Jobs : k \in Nat
  BY JobFacts DEF FInv, IInv, TypeOK, Launch, QueueNotEmpty, Jobs
<1>3. child[j] = "none" /\ child'[j] = "harness"
  BY <1>2 DEF FInv, NotStarted
<1>4. \A k \in Jobs : k # j => child'[k] = child[k]
  BY <1>2
<1>5. done[j] = 0
  BY <1>2 DEF FInv, IInv, Counted
<1>6. NotStarted'
  BY <1>2, <1>4 DEF FInv, NotStarted
<1>7. FileIsCurrent' /\ FileIsOwn' /\ Quoted'
  BY <1>2, <1>3, <1>4, <1>5 DEF FInv, FileIsCurrent, FileIsOwn, Contents, Quoted, OfThisSweep
<1> QED
  BY <1>1, <1>6, <1>7 DEF FInv

LEMMA ReapFInv == ASSUME NEW j \in Jobs, FInv, Reap(j) PROVE FInv'
<1>1. IInv'
  BY ReapIInv DEF FInv
<1>2. /\ child[j] \in Exited
      /\ report \in [Jobs -> FileState \cup {Unread}] /\ done \in [Jobs -> Nat]
      /\ report' = [report EXCEPT ![j] = file[Tests[j]]]
      /\ done' = [done EXCEPT ![j] = @ + 1]
      /\ UNCHANGED <<launched, child, file>>
  BY DEF FInv, IInv, TypeOK, Reap
<1>3. NotStarted' /\ FileIsCurrent' /\ FileIsOwn'
  BY <1>2 DEF FInv, NotStarted, FileIsCurrent, FileIsOwn, OfThisSweep
<1>4. report'[j] = file[Tests[j]] /\ (child[j] = "clean" => file[Tests[j]] \in OfThisSweep(j))
  BY <1>2 DEF FInv, FileIsCurrent
<1>5. \A k \in Jobs : k # j => report'[k] = report[k] /\ done'[k] = done[k]
  BY <1>2
<1>6. Quoted'
  BY <1>2, <1>4, <1>5 DEF FInv, Quoted, OfThisSweep
<1> QED
  BY <1>1, <1>3, <1>6 DEF FInv

(* What a step of a driver does to its place and to the file of its stem. *)
LEMMA DriverStep ==
  ASSUME NEW j \in Jobs, FInv, Driver(j)
  PROVE  /\ UNCHANGED poolVars
         /\ child[j] \in {"harness", "writing", "wrote"}
         /\ child'[j] \in ChildState \ {"none", "harness"}
         /\ \A k \in Jobs \ {j} : child'[k] = child[k]
         /\ \A s \in Stems \ {Tests[j]} : file'[s] = file[s]
         /\ \/ child'[j] = "writing" /\ file'[Tests[j]] = Empty
            \/ /\ child[j] = "writing" /\ child'[j] = "wrote"
               /\ file'[Tests[j]] \in {Whole(j), Garbled}
               /\ file[Tests[j]] = Empty => file'[Tests[j]] = Whole(j)
            \/ child[j] = "wrote" /\ child'[j] = "clean" /\ file' = file
            \/ child'[j] = "failed" /\ file' = file
<1>1. child \in [Jobs -> ChildState] /\ file \in [Stems -> FileState] /\ Tests[j] \in Stems
  BY JobFacts DEF FInv, IInv, TypeOK
<1>2. CASE BeginWrite(j)
  BY <1>1, <1>2 DEF BeginWrite, ChildState
<1>3. CASE EndWrite(j)
  BY <1>1, <1>3 DEF EndWrite, ChildState
<1>4. CASE ExitClean(j)
  BY <1>1, <1>4 DEF ExitClean, ChildState
<1>5. CASE Fail(j)
  BY <1>1, <1>5 DEF Fail, ChildState
<1> QED
  BY <1>2, <1>3, <1>4, <1>5 DEF Driver

LEMMA DriverFInv == ASSUME NEW j \in Jobs, FInv, Driver(j) PROVE FInv'
<1>1. IInv'
  BY DriverIInv DEF FInv
<1>2. \A k \in Jobs : Tests[k] \in Stems /\ k \in Nat
  BY JobFacts
<1>3. NotStarted'
  BY DriverStep DEF FInv, NotStarted, poolVars
<1>4. FileIsCurrent'
  <2> SUFFICES ASSUME NEW k \in Jobs, child'[k] \in {"writing", "wrote", "clean"}
               PROVE file'[Tests[k]] \in OfThisSweep(k)
    BY DEF FileIsCurrent, OfThisSweep
  <2>1. CASE Tests[k] # Tests[j]
    BY <1>2, <2>1, DriverStep DEF FInv, FileIsCurrent
  <2>2. CASE Tests[k] = Tests[j] /\ file' # file
    BY <2>2, DriverStep DEF OfThisSweep
  <2>3. CASE Tests[k] = Tests[j] /\ file' = file
    <3>1. child[k] \in {"writing", "wrote", "clean"} \/ file'[Tests[j]] = Empty
      BY <2>3, DriverStep
    <3> QED
      BY <2>3, <3>1 DEF FInv, FileIsCurrent, OfThisSweep
  <2> QED
    BY <2>1, <2>2, <2>3
<1>5. FileIsOwn'
  <2> SUFFICES ASSUME NEW k \in Jobs, ListedOnce(k)
               PROVE Contents(k, child'[k], file'[Tests[k]])
    BY DEF FileIsOwn, ListedOnce, Contents, Before
  <2>0. Contents(k, child[k], file[Tests[k]])
    BY DEF FInv, FileIsOwn
  <2>1. CASE k # j
    <3>1. Tests[k] # Tests[j]
      BY <2>1 DEF ListedOnce
    <3> QED
      BY <1>2, <2>0, <2>1, <3>1, DriverStep
  <2>2. CASE k = j
    BY <2>0, <2>2, DriverStep DEF Contents, ChildState
  <2> QED
    BY <2>1, <2>2
<1>6. Quoted'
  <2> SUFFICES ASSUME NEW k \in Jobs, done[k] > 0
               PROVE /\ child'[k] \in Exited
                     /\ child'[k] = "clean" => report[k] \in OfThisSweep(k)
                     /\ ListedOnce(k) => report[k] = file'[Tests[k]]
    BY DriverStep DEF Quoted, OfThisSweep, ListedOnce, poolVars
  <2>1. child[k] \in Exited /\ k # j /\ child'[k] = child[k]
    BY DriverStep DEF FInv, Quoted, Exited
  <2>2. ListedOnce(k) => file'[Tests[k]] = file[Tests[k]]
    BY <1>2, <2>1, DriverStep DEF ListedOnce
  <2> QED
    BY <2>1, <2>2 DEF FInv, Quoted
<1> QED
  BY <1>1, <1>3, <1>4, <1>5, <1>6 DEF FInv

LEMMA StepFInv == FInv /\ [Next]_vars => FInv'
<1> SUFFICES ASSUME FInv, [Next]_vars PROVE FInv'
  OBVIOUS
<1>1. IInv'
  BY StepIInv DEF FInv
<1>2. CASE Launch
  BY <1>2, LaunchFInv
<1>3. CASE \E j \in Jobs : Reap(j)
  BY <1>3, ReapFInv
<1>4. CASE \E j \in Jobs : Driver(j)
  BY <1>4, DriverFInv
<1>5. CASE UNCHANGED <<launched, done, report, child, file>>
  BY <1>1, <1>5 DEF FInv, NotStarted, FileIsCurrent, FileIsOwn, Quoted, OfThisSweep
<1> QED
  BY <1>2, <1>3, <1>4, <1>5
     DEF Next, Pool, LoopTop, EndLaunch, Wake, StillRunning, Terminated, vars

LEMMA FilesInvariance == Safe => []FInv
<1> QED
  BY InitFInv, StepFInv, PTL DEF Safe

(***************************************************************************)
(* run_pool.py:66-81: whatever the interleaving, the DONE line of a driver *)
(* that ran to its end quotes its own result, if its test is listed once;  *)
(* an older sweep's result is only ever quoted for a driver that failed.   *)
(***************************************************************************)
THEOREM OwnResultQuoted == Safe => []ReportIsOwn
<1>1. FInv => ReportIsOwn
  <2> SUFFICES ASSUME FInv, NEW j \in Jobs, done[j] > 0, ListedOnce(j)
               PROVE /\ child[j] = "clean" => report[j] = Whole(j)
                     /\ report[j] = Whole(0) => child[j] = "failed" /\ Tests[j] \in Leftover
    BY DEF ReportIsOwn
  <2>1. /\ report[j] = file[Tests[j]] /\ child[j] \in {"clean", "failed"}
        /\ Contents(j, child[j], file[Tests[j]])
    BY DEF FInv, FileIsOwn, Quoted, Exited
  <2>2. Whole(0) # Whole(j) /\ Whole(0) # Empty /\ Whole(0) # Absent
    BY JobFacts DEF Whole, Empty, Absent, Jobs
  <2> QED
    BY <2>1, <2>2 DEF Contents, Before
<1> QED
  BY <1>1, FilesInvariance, PTL

(***************************************************************************)
(* With a test listed twice: a driver that ran to its end is never         *)
(* reported with an older sweep's result or with another test's.           *)
(***************************************************************************)
THEOREM CurrentResultQuoted == Safe => []ReportIsCurrent
<1>1. FInv => ReportIsCurrent
  BY DEF FInv, Quoted, OfThisSweep, ReportIsCurrent
<1> QED
  BY <1>1, FilesInvariance, PTL
=============================================================================
