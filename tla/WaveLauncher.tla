---------------------------- MODULE WaveLauncher ----------------------------
(***************************************************************************)
(* benchmarks/run_all_pending.sh: a shell script that starts the           *)
(* multi-shape runner of one kernel after the other in background          *)
(* subshells, kernel i on GPU i % 8, and waits for all of them after every *)
(* eighth.  Kernel i of the array is job i + 1.                            *)
(***************************************************************************)
EXTENDS Naturals, Sequences

CONSTANTS
  NKernels,  \* length of the array KERNELS (11 in the script)
  NGpu       \* the modulus of gpu and of the wave (8 in the script)

ASSUME NKernelsAssumption == NKernels \in Nat
ASSUME NGpuAssumption == NGpu \in Nat \ {0}

Jobs  == 1 .. NKernels
Gpus  == 0 .. NGpu - 1
NoGpu == NGpu

VARIABLES
  pc,      \* the script: "loop", "wait", "last wait" or "all done"
  i,       \* the counter of the loop
  sub,     \* sub[j]: "none", "runner", "ended" or "gone", job j's subshell
  gpu,     \* gpu[j]: HIP_VISIBLE_DEVICES of job j's subshell
  status   \* _status.log: the DONE lines by job, 0 for ALL_DONE

vars == <<pc, i, sub, gpu, status>>

TypeOK ==
  /\ pc \in {"loop", "wait", "last wait", "all done"}
  /\ i \in 0 .. NKernels
  /\ sub \in [Jobs -> {"none", "runner", "ended", "gone"}]
  /\ gpu \in [Jobs -> Gpus \cup {NoGpu}]
  /\ status \in Seq(Jobs \cup {0})

Init ==
  /\ pc = "loop"
  /\ i = 0
  /\ sub = [j \in Jobs |-> "none"]
  /\ gpu = [j \in Jobs |-> NoGpu]
  /\ status = <<>>

Background == {j \in Jobs : sub[j] \in {"runner", "ended"}}

(* Mutants of Spawn: no modulus; a wave that is one too long. *)
SpawnNoModulus ==
  /\ pc = "loop" /\ i < NKernels
  /\ sub' = [sub EXCEPT ![i + 1] = "runner"]
  /\ gpu' = [gpu EXCEPT ![i + 1] = i]
  /\ i' = i + 1
  /\ pc' = IF i' % NGpu = 0 THEN "wait" ELSE "loop"
  /\ UNCHANGED status

SpawnLongWave ==
  /\ pc = "loop" /\ i < NKernels
  /\ sub' = [sub EXCEPT ![i + 1] = "runner"]
  /\ gpu' = [gpu EXCEPT ![i + 1] = i % NGpu]
  /\ i' = i + 1
  /\ pc' = IF i > 0 /\ i % NGpu = 0 THEN "wait" ELSE "loop"
  /\ UNCHANGED status

(* One turn of the loop: a subshell in the background, then the counter. *)
Spawn ==
  /\ pc = "loop" /\ i < NKernels
  /\ sub' = [sub EXCEPT ![i + 1] = "runner"]
  /\ gpu' = [gpu EXCEPT ![i + 1] = i % NGpu]
  /\ i' = i + 1
  /\ pc' = IF i' % NGpu = 0 THEN "wait" ELSE "loop"
  /\ UNCHANGED status

(* `wait' inside the loop returns when no background subshell is left. *)
WaveEnds ==
  /\ pc = "wait" /\ Background = {}
  /\ pc' = "loop"
  /\ UNCHANGED <<i, sub, gpu, status>>

LoopEnds ==
  /\ pc = "loop" /\ i = NKernels
  /\ pc' = "last wait"
  /\ UNCHANGED <<i, sub, gpu, status>>

(* Mutant of AllDone: no `wait' after the loop. *)
AllDoneAtOnce ==
  /\ pc = "last wait"
  /\ pc' = "all done"
  /\ status' = Append(status, 0)
  /\ UNCHANGED <<i, sub, gpu>>

(* The `wait' after the loop, and ALL_DONE. *)
AllDone ==
  /\ pc = "last wait" /\ Background = {}
  /\ pc' = "all done"
  /\ status' = Append(status, 0)
  /\ UNCHANGED <<i, sub, gpu>>

(* Mutant of RunnerEnds: a runner that fails is started again and again. *)
RunnerRetries(j) ==
  /\ sub[j] = "runner"
  /\ sub' = [sub EXCEPT ![j] = "runner"]
  /\ UNCHANGED <<pc, i, gpu, status>>

(* The runner ends, or `timeout 1500' ends it. *)
RunnerEnds(j) ==
  /\ sub[j] = "runner"
  /\ sub' = [sub EXCEPT ![j] = "ended"]
  /\ UNCHANGED <<pc, i, gpu, status>>

(* The subshell appends its DONE line and exits. *)
SubshellEnds(j) ==
  /\ sub[j] = "ended"
  /\ sub' = [sub EXCEPT ![j] = "gone"]
  /\ status' = Append(status, j)
  /\ UNCHANGED <<pc, i, gpu>>

Script == Spawn \/ WaveEnds \/ LoopEnds \/ AllDone

Terminated == pc = "all done" /\ UNCHANGED vars

Next == Script \/ (\E j \in Jobs : RunnerEnds(j) \/ SubshellEnds(j)) \/ Terminated

(* The script and the subshells run on; a runner is under `timeout'. *)
Spec ==
  /\ Init /\ [][Next]_vars
  /\ WF_vars(Script)
  /\ \A j \in Jobs : WF_vars(RunnerEnds(j)) /\ WF_vars(SubshellEnds(j))

-----------------------------------------------------------------------------
(* Properties. *)

(***************************************************************************)
(* ALL_DONE is the last line, and by then every kernel has one DONE line:  *)
(* the wave of fewer than eight that the loop leaves behind is waited for. *)
(***************************************************************************)
AllDoneIsLast ==
  \A n \in 1 .. Len(status) : status[n] = 0 =>
    /\ n = Len(status) /\ n = NKernels + 1
    /\ \A j \in Jobs : \E m \in 1 .. n : status[m] = j

(* The script comes to its end. *)
ScriptEnds == <>(pc = "all done")

phaseBar == [j \in Jobs |-> IF sub[j] = "none" THEN "waiting"
                            ELSE IF sub[j] = "runner" THEN "running" ELSE "finished"]
heldBar  == [j \in Jobs |-> IF sub[j] = "runner" THEN gpu[j] ELSE NoGpu]

Abstract == INSTANCE ResourcePool
              WITH Job <- Jobs, Gpu <- Gpus, phase <- phaseBar, held <- heldBar

(***************************************************************************)
(* "each kernel exclusive on its GPU" (run_all_pending.sh:2-3): the waves  *)
(* implement the exclusive allocation of ResourcePool.  The residues i % 8 *)
(* of one wave are distinct, and no runner of an earlier wave is left when *)
(* its GPU comes round again.                                              *)
(***************************************************************************)
ImplementsPool == Abstract!Spec
=============================================================================
