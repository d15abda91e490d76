------------------------- MODULE WaveLauncherProofs -------------------------
(***************************************************************************)
(* Types, the order of _status.log, and the exclusive allocation of        *)
(* run_all_pending.sh, for any number of kernels and any size of a wave.   *)
(* The allocation rests on one fact of arithmetic: the next residue is one *)
(* more, until it is 0 again, and there the script waits.                  *)
(***************************************************************************)
EXTENDS WaveLauncher, FiniteSets, FiniteSetTheorems, TLAPS

-----------------------------------------------------------------------------
(* Residues. *)

LEMMA QuotientUnique ==
  ASSUME NEW q \in Int, NEW p \in Int, NEW r \in Gpus, NEW s \in Gpus,
         NGpu * q + r = NGpu * p + s
  PROVE  r = s
<1>1. ASSUME NEW a \in Int, NEW b \in Int, NEW c \in Gpus, NEW d \in Gpus, a <= b - 1
      PROVE  NGpu * a + c # NGpu * b + d
  <2>1. NGpu * a <= NGpu * (b - 1)
    BY <1>1, NGpuAssumption
  <2>2. NGpu * (b - 1) = NGpu * b - NGpu
    BY NGpuAssumption
  <2> QED
    BY <2>1, <2>2, NGpuAssumption DEF Gpus
<1>2. ~ (q <= p - 1) /\ ~ (p <= q - 1)
  BY <1>1
<1>3. q = p
  BY <1>2
<1> QED
  BY <1>3, NGpuAssumption DEF Gpus

LEMMA ResidueInGpus == ASSUME NEW a \in Nat PROVE a % NGpu \in Gpus
BY NGpuAssumption DEF Gpus

LEMMA NextResidue ==
  ASSUME NEW a \in Nat
  PROVE  (a + 1) % NGpu = IF a % NGpu = NGpu - 1 THEN 0 ELSE (a % NGpu) + 1
<1> DEFINE q == a \div NGpu
           r == a % NGpu
           p == (a + 1) \div NGpu
           s == (a + 1) % NGpu
<1>1. q \in Int /\ r \in Gpus /\ a = NGpu * q + r
  BY NGpuAssumption DEF Gpus
<1>2. p \in Int /\ s \in Gpus /\ a + 1 = NGpu * p + s
  BY NGpuAssumption DEF Gpus
<1> HIDE DEF q, r, p, s
<1>3. CASE r = NGpu - 1
  <2>1. NGpu * (q + 1) + 0 = NGpu * p + s /\ 0 \in Gpus
    BY <1>1, <1>2, <1>3, NGpuAssumption DEF Gpus
  <2>2. s = 0
    BY <1>1, <1>2, <2>1, QuotientUnique
  <2> QED
    BY <1>3, <2>2 DEF r, s
<1>4. CASE r # NGpu - 1
  <2>1. NGpu * q + (r + 1) = NGpu * p + s /\ r + 1 \in Gpus
    BY <1>1, <1>2, <1>4, NGpuAssumption DEF Gpus
  <2>2. s = r + 1
    BY <1>1, <1>2, <2>1, QuotientUnique
  <2> QED
    BY <1>4, <2>2 DEF r, s
<1> QED
  BY <1>3, <1>4

-----------------------------------------------------------------------------
(* The inductive invariant. *)

Gone == {j \in Jobs : sub[j] = "gone"}

Started ==
  /\ \A j \in Jobs : sub[j] = "none" <=> j > i
  /\ pc \in {"last wait", "all done"} => i = NKernels

(* While the loop runs, the GPUs taken are those below the next one. *)
Exclusive ==
  /\ \A j \in Background : gpu[j] \in Gpus
  /\ \A j, k \in Background : gpu[j] = gpu[k] => j = k
  /\ pc = "loop" => \A j \in Background : gpu[j] < i % NGpu

(* One line for each subshell that is gone; then ALL_DONE, when all are. *)
Lines ==
  /\ \A j \in Gone : \E n \in 1 .. Len(status) : status[n] = j
  /\ pc # "all done" => /\ Len(status) = Cardinality(Gone)
                        /\ \A n \in 1 .. Len(status) : status[n] # 0
  /\ pc = "all done" => /\ Gone = Jobs /\ Len(status) = NKernels + 1
                        /\ \A n \in 1 .. NKernels : status[n] # 0

IInv == TypeOK /\ Started /\ Exclusive /\ Lines

LEMMA JobFacts ==
  /\ NKernels \in Nat /\ NoGpu \notin Gpus
  /\ IsFiniteSet(Jobs) /\ Cardinality(Jobs) = NKernels
  /\ \A S \in SUBSET Jobs : IsFiniteSet(S)
  /\ \A j \in Jobs : j # 0 /\ j \in Nat
<1>1. NKernels \in Nat /\ NoGpu \notin Gpus
  BY NKernelsAssumption, NGpuAssumption DEF NoGpu, Gpus
<1>2. IsFiniteSet(Jobs) /\ Cardinality(Jobs) = NKernels
  BY <1>1, FS_Interval DEF Jobs
<1>3. \A j \in Jobs : j # 0 /\ j \in Nat
  BY <1>1 DEF Jobs
<1> QED
  BY <1>1, <1>2, <1>3, FS_Subset

(* What appending a line to the log does. *)
LEMMA AppendFacts ==
  ASSUME NEW S, NEW s \in Seq(S), NEW e \in S
  PROVE  /\ Append(s, e) \in Seq(S)
         /\ Len(Append(s, e)) = Len(s) + 1 /\ Len(s) \in Nat
         /\ \A n \in 1 .. Len(s) : Append(s, e)[n] = s[n]
         /\ Append(s, e)[Len(s) + 1] = e
OBVIOUS

LEMMA InitIInv == Init => IInv
<1> SUFFICES ASSUME Init PROVE IInv
  OBVIOUS
<1>1. TypeOK
  BY JobFacts DEF Init, TypeOK
<1>2. Started /\ Exclusive
  BY JobFacts DEF Init, Started, Exclusive, Background, Jobs
<1>3. Gone = {} /\ Len(status) = 0 /\ pc = "loop"
  BY DEF Init, Gone
<1>4. Lines
  BY <1>3, FS_EmptySet DEF Lines
<1> QED
  BY <1>1, <1>2, <1>4 DEF IInv

LEMMA SpawnIInv == IInv /\ Spawn => IInv'
<1> SUFFICES ASSUME IInv, Spawn PROVE IInv'
  OBVIOUS
<1> DEFINE j == i + 1
           g == i % NGpu
<1>1. /\ i \in Nat /\ j \in Jobs /\ g \in Gpus /\ i' = j /\ pc = "loop" /\ i < NKernels
      /\ sub \in [Jobs -> {"none", "runner", "ended", "gone"}] /\ gpu \in [Jobs -> Gpus \cup {NoGpu}]
      /\ sub' = [sub EXCEPT ![j] = "runner"] /\ gpu' = [gpu EXCEPT ![j] = g]
      /\ pc' = IF i' % NGpu = 0 THEN "wait" ELSE "loop"
      /\ status' = status
  BY JobFacts, ResidueInGpus DEF IInv, TypeOK, Spawn, Jobs
<1>2. TypeOK'
  BY <1>1, JobFacts DEF IInv, TypeOK, Jobs
<1>3. sub[j] = "none"
  BY <1>1 DEF IInv, Started
<1>4. Started'
  BY <1>1, JobFacts DEF IInv, Started, Jobs
<1>5. Background' = Background \cup {j} /\ j \notin Background /\ Background \subseteq Jobs
  BY <1>1, <1>3 DEF Background
<1>6. \A k \in Jobs : gpu'[k] = IF k = j THEN g ELSE gpu[k]
  BY <1>1
<1>7. /\ \A k \in Background : gpu[k] \in Gpus /\ gpu[k] < g
      /\ \A k, l \in Background : gpu[k] = gpu[l] => k = l
      /\ \A h \in Gpus : h \in Int
  BY <1>1, NGpuAssumption DEF IInv, Exclusive, Gpus
<1>8. \A k \in Background : gpu[k] # g
  BY <1>1, <1>7
<1>9. pc' = "loop" => i' % NGpu = g + 1
  BY <1>1, NextResidue
<1>10. pc' = "loop" => \A k \in Background' : gpu'[k] < i' % NGpu
  <2> SUFFICES ASSUME pc' = "loop", NEW k \in Background' PROVE gpu'[k] < g + 1
    BY <1>9
  <2>1. CASE k = j
    BY <1>1, <1>6, <1>7, <2>1
  <2>2. CASE k # j
    BY <1>1, <1>5, <1>6, <1>7, <2>2
  <2> QED
    BY <2>1, <2>2
<1>11. Exclusive'
  BY <1>1, <1>5, <1>6, <1>7, <1>8, <1>10 DEF Exclusive
<1>12. Gone' = Gone
  BY <1>1, <1>3 DEF Gone
<1>13. Lines'
  BY <1>1, <1>12 DEF IInv, Lines
<1> QED
  BY <1>2, <1>4, <1>11, <1>13 DEF IInv

(* The script without Spawn: it waits, and says ALL_DONE. *)
LEMMA WaitIInv == IInv /\ (WaveEnds \/ LoopEnds \/ AllDone) => IInv'
<1> SUFFICES ASSUME IInv, WaveEnds \/ LoopEnds \/ AllDone PROVE IInv'
  OBVIOUS
<1>1. UNCHANGED <<i, sub, gpu>> /\ Background' = Background /\ Gone' = Gone
  BY DEF WaveEnds, LoopEnds, AllDone, Background, Gone
<1>2. status \in Seq(Jobs \cup {0})
  BY DEF IInv, TypeOK
<1>3. Started' /\ Exclusive'
  BY <1>1 DEF IInv, Started, Exclusive, WaveEnds, LoopEnds, AllDone
<1>4. CASE WaveEnds \/ LoopEnds
  BY <1>1, <1>3, <1>4 DEF IInv, TypeOK, Lines, WaveEnds, LoopEnds
<1>5. CASE AllDone
  <2>1. Gone = Jobs
    <3> SUFFICES ASSUME NEW j \in Jobs PROVE sub[j] = "gone"
      BY DEF Gone
    <3>1. sub[j] # "none"
      <4>1. i = NKernels
        BY <1>5 DEF IInv, Started, AllDone
      <4>2. ~ (j > i)
        BY <4>1, NKernelsAssumption DEF Jobs
      <4> QED
        BY <4>2 DEF IInv, Started
    <3>2. sub[j] \notin {"runner", "ended"}
      BY <1>5 DEF AllDone, Background
    <3> QED
      BY <3>1, <3>2 DEF IInv, TypeOK
  <2>2. /\ pc' = "all done" /\ Len(status) = NKernels
        /\ \A n \in 1 .. NKernels : status[n] # 0
    <3>1. pc # "all done" /\ pc' = "all done"
      BY <1>5 DEF AllDone
    <3>2. Len(status) = NKernels
      BY <2>1, <3>1, JobFacts DEF IInv, Lines
    <3> QED
      BY <3>1, <3>2 DEF IInv, Lines
  <2>3. /\ status' \in Seq(Jobs \cup {0}) /\ Len(status') = NKernels + 1
        /\ \A n \in 1 .. NKernels : status'[n] = status[n]
    <3>1. status' = Append(status, 0)
      BY <1>5 DEF AllDone
    <3>2. /\ status' \in Seq(Jobs \cup {0}) /\ Len(status') = Len(status) + 1
          /\ \A n \in 1 .. Len(status) : status'[n] = status[n]
      BY <1>2, <3>1, AppendFacts
    <3> QED
      BY <2>2, <3>2
  <2>4. TypeOK'
    BY <1>1, <2>2, <2>3 DEF IInv, TypeOK
  <2>5. \A j \in Gone : \E n \in 1 .. Len(status') : status'[n] = j
    <3> SUFFICES ASSUME NEW j \in Gone PROVE \E n \in 1 .. Len(status') : status'[n] = j
      OBVIOUS
    <3>1. PICK n \in 1 .. Len(status) : status[n] = j
      BY DEF IInv, Lines
    <3>2. Len(status) = NKernels
      BY <2>2
    <3>3. n \in 1 .. NKernels /\ status[n] = j
      BY <3>1, <3>2
    <3>4. Len(status') = NKernels + 1 /\ status'[n] = status[n]
      BY <2>3, <3>3
    <3>5. n \in 1 .. NKernels + 1
      BY <3>3, NKernelsAssumption
    <3> QED
      BY <3>3, <3>4, <3>5
  <2>6. Lines'
    BY <1>1, <2>1, <2>2, <2>3, <2>5 DEF Lines
  <2> QED
    BY <1>3, <2>4, <2>6 DEF IInv
<1> QED
  BY <1>4, <1>5

LEMMA RunnerIInv == ASSUME NEW j \in Jobs, IInv, RunnerEnds(j) PROVE IInv'
<1>1. /\ sub[j] = "runner" /\ sub' = [sub EXCEPT ![j] = "ended"]
      /\ UNCHANGED <<pc, i, gpu, status>>
      /\ sub \in [Jobs -> {"none", "runner", "ended", "gone"}]
  BY DEF IInv, TypeOK, RunnerEnds
<1>2. Background' = Background /\ Gone' = Gone
  BY <1>1 DEF Background, Gone
<1>3. TypeOK' /\ Started'
  BY <1>1 DEF IInv, TypeOK, Started
<1> QED
  BY <1>1, <1>2, <1>3 DEF IInv, Exclusive, Lines

LEMMA SubshellIInv == ASSUME NEW j \in Jobs, IInv, SubshellEnds(j) PROVE IInv'
<1>1. /\ sub[j] = "ended" /\ sub' = [sub EXCEPT ![j] = "gone"]
      /\ status' = Append(status, j) /\ UNCHANGED <<pc, i, gpu>>
      /\ sub \in [Jobs -> {"none", "runner", "ended", "gone"}]
      /\ status \in Seq(Jobs \cup {0}) /\ j # 0
  BY JobFacts DEF IInv, TypeOK, SubshellEnds
<1>2. Background' \subseteq Background
  BY <1>1 DEF Background
<1>3. Gone' = Gone \cup {j} /\ j \notin Gone /\ Gone \subseteq Jobs
  BY <1>1 DEF Gone
<1>4. /\ status' \in Seq(Jobs \cup {0}) /\ Len(status') = Len(status) + 1 /\ Len(status) \in Nat
      /\ \A n \in 1 .. Len(status) : status'[n] = status[n]
      /\ status'[Len(status) + 1] = j
  BY <1>1, AppendFacts
<1>5. TypeOK' /\ Started'
  BY <1>1, <1>4 DEF IInv, TypeOK, Started
<1>6. Exclusive'
  BY <1>1, <1>2 DEF IInv, Exclusive
<1>7. pc # "all done"
  BY <1>1 DEF IInv, Lines, Gone
<1>8. Cardinality(Gone') = Cardinality(Gone) + 1
  BY <1>3, JobFacts, FS_AddElement
<1>9. \A k \in Gone' : \E n \in 1 .. Len(status') : status'[n] = k
  <2> SUFFICES ASSUME NEW k \in Gone' PROVE \E n \in 1 .. Len(status') : status'[n] = k
    OBVIOUS
  <2>1. CASE k = j
    BY <1>4, <2>1
  <2>2. CASE k \in Gone
    <3>1. PICK n \in 1 .. Len(status) : status[n] = k
      BY <2>2 DEF IInv, Lines
    <3>2. n \in 1 .. Len(status') /\ status'[n] = k
      BY <1>4, <3>1
    <3> QED
      BY <3>2
  <2> QED
    BY <1>3, <2>1, <2>2
<1>10. \A n \in 1 .. Len(status') : status'[n] # 0
  <2>1. \A n \in 1 .. Len(status) : status[n] # 0
    BY <1>7 DEF IInv, Lines
  <2>2. \A n \in 1 .. Len(status') : n \in 1 .. Len(status) \/ n = Len(status) + 1
    BY <1>4
  <2> QED
    BY <1>1, <1>4, <2>1, <2>2
<1>11. Lines'
  BY <1>1, <1>4, <1>7, <1>8, <1>9, <1>10 DEF IInv, Lines
<1> QED
  BY <1>5, <1>6, <1>11 DEF IInv

LEMMA StepIInv == IInv /\ [Next]_vars => IInv'
<1> SUFFICES ASSUME IInv, UNCHANGED vars PROVE IInv'
  BY SpawnIInv, WaitIInv, RunnerIInv, SubshellIInv DEF Next, Script, Terminated
<1> QED
  BY DEF IInv, TypeOK, Started, Exclusive, Lines, Background, Gone, vars

(* The inductive invariant holds in every reachable state. *)
THEOREM Invariance == Spec => []IInv
<1> QED
  BY InitIInv, StepIInv, PTL DEF Spec

(* Type correctness of the script, its subshells and the log. *)
THEOREM TypeCorrect == Spec => []TypeOK
<1>1. IInv => TypeOK
  BY DEF IInv
<1> QED
  BY <1>1, Invariance, PTL

(***************************************************************************)
(* run_all_pending.sh:32-34: however many kernels the last wave has,       *)
(* ALL_DONE is written once, after the line of every kernel.               *)
(***************************************************************************)
THEOREM AllDoneComesLast == Spec => []AllDoneIsLast
<1>1. IInv => AllDoneIsLast
  <2> SUFFICES ASSUME IInv, NEW n \in 1 .. Len(status), status[n] = 0
               PROVE  /\ n = Len(status) /\ n = NKernels + 1
                      /\ \A j \in Jobs : \E m \in 1 .. n : status[m] = j
    BY DEF AllDoneIsLast
  <2>1. /\ pc = "all done" /\ Gone = Jobs /\ Len(status) = NKernels + 1
        /\ \A m \in 1 .. NKernels : status[m] # 0
    BY DEF IInv, Lines
  <2>2. n \notin 1 .. NKernels /\ n \in 1 .. NKernels + 1
    BY <2>1
  <2>3. n = NKernels + 1
    BY <2>2, NKernelsAssumption
  <2> QED
    BY <2>1, <2>3 DEF IInv, Lines
<1> QED
  BY <1>1, Invariance, PTL

-----------------------------------------------------------------------------
(* Every step of the script is a step of the abstract pool or stutters. *)

LEMMA SpawnStarts == IInv /\ Spawn => Abstract!Start(i + 1)
<1> SUFFICES ASSUME IInv, Spawn PROVE Abstract!Start(i + 1)
  OBVIOUS
<1> DEFINE j == i + 1
           g == i % NGpu
<1>1. /\ i \in Nat /\ j \in Jobs /\ g \in Gpus
      /\ sub \in [Jobs -> {"none", "runner", "ended", "gone"}] /\ gpu \in [Jobs -> Gpus \cup {NoGpu}]
      /\ sub' = [sub EXCEPT ![j] = "runner"] /\ gpu' = [gpu EXCEPT ![j] = g]
  BY JobFacts, ResidueInGpus DEF IInv, TypeOK, Spawn, Jobs
<1>2. sub[j] = "none"
  <2>1. j > i
    BY <1>1
  <2> QED
    BY <1>1, <2>1 DEF IInv, Started
<1>3. \A k \in Jobs : sub[k] = "runner" => gpu[k] # g
  <2> SUFFICES ASSUME NEW k \in Jobs, sub[k] = "runner" PROVE gpu[k] < g /\ gpu[k] \in Gpus
    BY <1>1, NGpuAssumption DEF Gpus
  <2> QED
    BY DEF IInv, Exclusive, Background, Spawn
<1>4. g \in Abstract!Available
  BY <1>1, <1>3, JobFacts DEF Abstract!Available, heldBar
<1>5. phaseBar[j] = "waiting"
  BY <1>1, <1>2 DEF phaseBar
<1>6. phaseBar' = [phaseBar EXCEPT ![j] = "running"]
  <2>1. \A k \in Jobs : phaseBar'[k] = IF k = j THEN "running" ELSE phaseBar[k]
    BY <1>1 DEF phaseBar
  <2> QED
    BY <1>1, <2>1 DEF phaseBar
<1>7. heldBar' = [heldBar EXCEPT ![j] = g]
  BY <1>1 DEF heldBar
<1> QED
  BY <1>4, <1>5, <1>6, <1>7 DEF Abstract!Start

LEMMA RunnerFinishes == ASSUME NEW j \in Jobs, IInv, RunnerEnds(j) PROVE Abstract!Finish(j)
<1>1. /\ sub[j] = "runner" /\ sub' = [sub EXCEPT ![j] = "ended"] /\ gpu' = gpu
      /\ sub \in [Jobs -> {"none", "runner", "ended", "gone"}]
  BY DEF IInv, TypeOK, RunnerEnds
<1>2. phaseBar[j] = "running"
  BY <1>1 DEF phaseBar
<1>3. phaseBar' = [phaseBar EXCEPT ![j] = "finished"]
  <2>1. \A k \in Jobs : phaseBar'[k] = IF k = j THEN "finished" ELSE phaseBar[k]
    BY <1>1 DEF phaseBar
  <2> QED
    BY <1>1, <2>1 DEF phaseBar
<1>4. heldBar' = [heldBar EXCEPT ![j] = NoGpu]
  BY <1>1 DEF heldBar
<1> QED
  BY <1>2, <1>3, <1>4 DEF Abstract!Finish

LEMMA SubshellStutters ==
  ASSUME NEW j \in Jobs, IInv, SubshellEnds(j)
  PROVE  UNCHANGED <<phaseBar, heldBar>>
<1>1. /\ sub[j] = "ended" /\ sub' = [sub EXCEPT ![j] = "gone"] /\ gpu' = gpu
      /\ sub \in [Jobs -> {"none", "runner", "ended", "gone"}]
  BY DEF IInv, TypeOK, SubshellEnds
<1>2. \A k \in Jobs : phaseBar'[k] = phaseBar[k] /\ heldBar'[k] = heldBar[k]
  BY <1>1 DEF phaseBar, heldBar
<1> QED
  BY <1>2 DEF phaseBar, heldBar

(***************************************************************************)
(* run_all_pending.sh:2-3, "each kernel exclusive on its GPU": the waves   *)
(* implement the safety part of ResourcePool.  A subshell starts a job and *)
(* the end of its runner finishes it; everything else is invisible.        *)
(***************************************************************************)
THEOREM WavesRefine == Spec => Abstract!Safe
<1>1. Init => Abstract!Init
  BY DEF Init, Abstract!Init, phaseBar, heldBar
<1>2. IInv /\ [Next]_vars => [Abstract!Next]_(Abstract!vars)
  <2> SUFFICES ASSUME IInv, [Next]_vars
               PROVE Abstract!Next \/ UNCHANGED <<phaseBar, heldBar>>
    BY DEF Abstract!vars
  <2>1. CASE Spawn
    <3>1. i + 1 \in Jobs
      BY <2>1, JobFacts DEF IInv, TypeOK, Spawn, Jobs
    <3> QED
      BY <2>1, <3>1, SpawnStarts DEF Abstract!Next
  <2>2. CASE \E j \in Jobs : RunnerEnds(j)
    BY <2>2, RunnerFinishes DEF Abstract!Next
  <2>3. CASE \E j \in Jobs : SubshellEnds(j)
    BY <2>3, SubshellStutters
  <2>4. CASE UNCHANGED <<sub, gpu>>
    BY <2>4 DEF phaseBar, heldBar
  <2> QED
    BY <2>1, <2>2, <2>3, <2>4 DEF Next, Script, WaveEnds, LoopEnds, AllDone, Terminated, vars
<1> QED
  BY <1>1, <1>2, Invariance, PTL DEF Spec, Abstract!Safe
=============================================================================
