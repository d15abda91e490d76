---------------------------- MODULE ResourcePool ----------------------------
(***************************************************************************)
(* What the two launchers of this repository promise: every job gets one   *)
(* GPU that no other job holds, keeps it for its lifetime, and gives it    *)
(* back when it ends ("Each kernel gets a dedicated GPU for its lifetime", *)
(* tools/run_pool.py:4; "each kernel exclusive on its GPU",                *)
(* benchmarks/run_all_pending.sh:2-3).  GpuPool and WaveLauncher are shown *)
(* to implement this specification.                                        *)
(***************************************************************************)

CONSTANTS
  Job,    \* the jobs to run
  Gpu,    \* the GPUs of the machine
  NoGpu   \* "holds no GPU", not in Gpu

VARIABLES
  phase,  \* phase[j]: "waiting", "running" or "finished"
  held    \* held[j]: the GPU job j holds while it runs

vars == <<phase, held>>

TypeOK ==
  /\ phase \in [Job -> {"waiting", "running", "finished"}]
  /\ held \in [Job -> Gpu \cup {NoGpu}]

Init ==
  /\ phase = [j \in Job |-> "waiting"]
  /\ held = [j \in Job |-> NoGpu]

Available == {g \in Gpu : \A j \in Job : held[j] # g}

Start(j) ==
  /\ phase[j] = "waiting"
  /\ \E g \in Available : held' = [held EXCEPT ![j] = g]
  /\ phase' = [phase EXCEPT ![j] = "running"]

Finish(j) ==
  /\ phase[j] = "running"
  /\ phase' = [phase EXCEPT ![j] = "finished"]
  /\ held' = [held EXCEPT ![j] = NoGpu]

Next == \E j \in Job : Start(j) \/ Finish(j)

Safe == Init /\ [][Next]_vars

(***************************************************************************)
(* A job that started ends, and a waiting job starts when a GPU is free    *)
(* again and again.                                                        *)
(***************************************************************************)
Spec == Safe /\ \A j \in Job : WF_vars(Finish(j)) /\ SF_vars(Start(j))
=============================================================================
