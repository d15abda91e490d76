------------------------------- MODULE GpuPool -------------------------------
(***************************************************************************)
(* tools/run_pool.py: one parent process that fans test harnesses out over *)
(* NGpu GPUs, one child driver per test (tools/run_sweep.py, or            *)
(* tools/att_capture.py with --att), and the result file the two sides     *)
(* share.                                                                  *)
(*                                                                         *)
(* Jobs are the positions of the --tests list.  The list is not            *)
(* deduplicated, so two jobs may name the same test and then share the     *)
(* result file of its stem.  The pool's queue is only popped from the      *)
(* front, hence `launched' (the number of pops) stands for it, and the     *)
(* insertion order of the dict `running' is the order of the job numbers.  *)
(***************************************************************************)
EXTENDS Naturals, Sequences

CONSTANTS
  Tests,     \* the --tests list: a sequence of test names
  NGpu,      \* --ngpu
  Leftover   \* the tests whose result file an earlier sweep left in outdir

ASSUME TestsAssumption == Tests \in Seq(STRING) /\ Leftover \subseteq STRING
ASSUME NGpuAssumption == NGpu \in Nat \ {0}

Jobs  == 1 .. Len(Tests)
Gpus  == 0 .. NGpu - 1
NoGpu == NGpu
Stems == {Tests[j] : j \in Jobs}

VARIABLES
  pc,        \* the pool: "launch", "sleep", "reap" or "complete"
  launched,  \* queue.pop(0) so far: the queue is launched + 1 .. Len(Tests)
  free,      \* the list of free GPUs
  running,   \* the jobs in the dict `running'
  gpu,       \* gpu[j]: the GPU stored with j in `running'
  snapshot,  \* what is left of list(running) in the reap loop
  done,      \* done[j]: how often j was appended to the list `done'
  report,    \* report[j]: the result file as read for j's DONE line
  child,     \* child[j]: how far j's driver process is
  file       \* file[s]: the result file of stem s

poolVars == <<pc, launched, free, running, gpu, snapshot, done, report>>
vars     == <<pc, launched, free, running, gpu, snapshot, done, report,
              child, file>>

(***************************************************************************)
(* A result file is missing, truncated by open(.., 'w'), unparseable, or a *)
(* whole JSON document.  Its writer is a job, or 0 for an earlier sweep.   *)
(***************************************************************************)
Absent   == [state |-> "absent",  by |-> 0]
Empty    == [state |-> "empty",   by |-> 0]
Garbled  == [state |-> "garbled", by |-> 0]
Whole(j) == [state |-> "whole",   by |-> j]
Unread   == [state |-> "unread",  by |-> 0]

FileState == {Absent, Empty, Garbled} \cup {Whole(j) : j \in Jobs \cup {0}}

(***************************************************************************)
(* A driver runs its harness, truncates the result file, writes it and     *)
(* exits.  "clean": it came to its last statement; "failed": it found no   *)
(* recipe, raised or was killed.                                           *)
(***************************************************************************)
ChildState == {"none", "harness", "writing", "wrote", "clean", "failed"}
Exited     == {"clean", "failed"}

TypeOK ==
  /\ pc \in {"launch", "sleep", "reap", "complete"}
  /\ launched \in 0 .. Len(Tests)
  /\ free \in Seq(Gpus)
  /\ running \subseteq Jobs
  /\ gpu \in [Jobs -> Gpus \cup {NoGpu}]
  /\ snapshot \subseteq Jobs
  /\ done \in [Jobs -> Nat]
  /\ report \in [Jobs -> FileState \cup {Unread}]
  /\ child \in [Jobs -> ChildState]
  /\ file \in [Stems -> FileState]

(* Mutant of Init: range(1, ngpu + 1). *)
InitFromOne ==
  /\ pc = "reap" /\ launched = 0 /\ running = {} /\ snapshot = {}
  /\ free = [i \in 1 .. NGpu |-> i]
  /\ gpu = [j \in Jobs |-> NoGpu]
  /\ done = [j \in Jobs |-> 0]
  /\ report = [j \in Jobs |-> Unread]
  /\ child = [j \in Jobs |-> "none"]
  /\ file = [s \in Stems |-> IF s \in Leftover THEN Whole(0) ELSE Absent]

Init ==
  /\ pc = "reap"
  /\ launched = 0
  /\ free = [i \in 1 .. NGpu |-> i - 1]
  /\ running = {}
  /\ gpu = [j \in Jobs |-> NoGpu]
  /\ snapshot = {}
  /\ done = [j \in Jobs |-> 0]
  /\ report = [j \in Jobs |-> Unread]
  /\ child = [j \in Jobs |-> "none"]
  /\ file = [s \in Stems |-> IF s \in Leftover THEN Whole(0) ELSE Absent]

-----------------------------------------------------------------------------
(* The parent process. *)

QueueNotEmpty == launched < Len(Tests)

(* `while queue or running', evaluated when the reap loop is through. *)
LoopTop ==
  /\ pc = "reap" /\ snapshot = {}
  /\ pc' = IF QueueNotEmpty \/ running # {} THEN "launch" ELSE "complete"
  /\ UNCHANGED <<launched, free, running, gpu, snapshot, done, report,
                 child, file>>

(* Mutants of Launch: free[0] for free.pop(0); GPUs handed out in turn. *)
LaunchPeek ==
  LET j == launched + 1 IN
  /\ pc = "launch" /\ QueueNotEmpty /\ free # <<>>
  /\ launched' = j
  /\ running' = running \cup {j}
  /\ gpu' = [gpu EXCEPT ![j] = Head(free)]
  /\ child' = [child EXCEPT ![j] = "harness"]
  /\ UNCHANGED <<pc, free, snapshot, done, report, file>>

LaunchInTurn ==
  LET j == launched + 1 IN
  /\ pc = "launch" /\ QueueNotEmpty /\ free # <<>>
  /\ launched' = j
  /\ free' = Tail(free)
  /\ running' = running \cup {j}
  /\ gpu' = [gpu EXCEPT ![j] = launched % NGpu]
  /\ child' = [child EXCEPT ![j] = "harness"]
  /\ UNCHANGED <<pc, snapshot, done, report, file>>

(* One turn of `while queue and free': pop a test and a GPU, start a driver. *)
Launch ==
  LET j == launched + 1 IN
  /\ pc = "launch" /\ QueueNotEmpty /\ free # <<>>
  /\ launched' = j
  /\ free' = Tail(free)
  /\ running' = running \cup {j}
  /\ gpu' = [gpu EXCEPT ![j] = Head(free)]
  /\ child' = [child EXCEPT ![j] = "harness"]
  /\ UNCHANGED <<pc, snapshot, done, report, file>>

(* Nothing more to start: the pool sleeps for two seconds. *)
EndLaunch ==
  /\ pc = "launch" /\ ~(QueueNotEmpty /\ free # <<>>)
  /\ pc' = "sleep"
  /\ UNCHANGED <<launched, free, running, gpu, snapshot, done, report,
                 child, file>>

(* Mutant of Wake: reaping is put off until the queue is empty. *)
WakeAfterQueue ==
  /\ pc = "sleep"
  /\ pc' = "reap"
  /\ snapshot' = IF QueueNotEmpty THEN {} ELSE running
  /\ UNCHANGED <<launched, free, running, gpu, done, report, child, file>>

(* The pool wakes up and takes list(running). *)
Wake ==
  /\ pc = "sleep"
  /\ pc' = "reap"
  /\ snapshot' = running
  /\ UNCHANGED <<launched, free, running, gpu, done, report, child, file>>

IsNextPolled(j) == pc = "reap" /\ j \in snapshot /\ \A k \in snapshot : j <= k

(* poll() is None: leave the job alone. *)
StillRunning(j) ==
  /\ IsNextPolled(j) /\ child[j] \notin Exited
  /\ snapshot' = snapshot \ {j}
  /\ UNCHANGED <<pc, launched, free, running, gpu, done, report, child, file>>

(***************************************************************************)
(* Mutants of Reap: the GPU is given back only with a result file; the     *)
(* process stays in `running'.                                             *)
(***************************************************************************)
ReapLosingGpu(j) ==
  /\ IsNextPolled(j) /\ child[j] \in Exited
  /\ snapshot' = snapshot \ {j}
  /\ running' = running \ {j}
  /\ free' = IF file[Tests[j]] = Absent THEN free ELSE Append(free, gpu[j])
  /\ report' = [report EXCEPT ![j] = file[Tests[j]]]
  /\ done' = [done EXCEPT ![j] = @ + 1]
  /\ gpu' = [gpu EXCEPT ![j] = NoGpu]
  /\ UNCHANGED <<pc, launched, child, file>>

ReapWithoutPop(j) ==
  /\ IsNextPolled(j) /\ child[j] \in Exited
  /\ snapshot' = snapshot \ {j}
  /\ report' = [report EXCEPT ![j] = file[Tests[j]]]
  /\ done' = [done EXCEPT ![j] = IF @ = 2 THEN 2 ELSE @ + 1]
  /\ UNCHANGED <<pc, launched, free, running, gpu, child, file>>

(***************************************************************************)
(* poll() is not None: forget the process, give its GPU back, read         *)
(* whatever result file is there, log the DONE line and append to done.    *)
(***************************************************************************)
Reap(j) ==
  /\ IsNextPolled(j) /\ child[j] \in Exited
  /\ snapshot' = snapshot \ {j}
  /\ running' = running \ {j}
  /\ free' = Append(free, gpu[j])
  /\ report' = [report EXCEPT ![j] = file[Tests[j]]]
  /\ done' = [done EXCEPT ![j] = @ + 1]
  /\ gpu' = [gpu EXCEPT ![j] = NoGpu]
  /\ UNCHANGED <<pc, launched, child, file>>

Pool ==
  \/ LoopTop \/ Launch \/ EndLaunch \/ Wake
  \/ \E j \in Jobs : StillRunning(j) \/ Reap(j)

-----------------------------------------------------------------------------
(* The drivers. *)

(* The harness is over (it ended, or --timeout killed it); open(resp, 'w'). *)
BeginWrite(j) ==
  /\ child[j] = "harness"
  /\ child' = [child EXCEPT ![j] = "writing"]
  /\ file' = [file EXCEPT ![Tests[j]] = Empty]
  /\ UNCHANGED poolVars

(***************************************************************************)
(* The buffered document reaches the file when it is closed.  It is whole  *)
(* if nobody wrote since the truncation; over another writer's document    *)
(* the longer tail of that one may stay behind it.                         *)
(***************************************************************************)
EndWrite(j) ==
  /\ child[j] = "writing"
  /\ child' = [child EXCEPT ![j] = "wrote"]
  /\ \E f \in {Whole(j)} \cup (IF file[Tests[j]] = Empty THEN {} ELSE {Garbled}) :
       file' = [file EXCEPT ![Tests[j]] = f]
  /\ UNCHANGED poolVars

(* Mutant of ExitClean: a harness without metrics leaves no result. *)
ExitCleanUnwritten(j) ==
  /\ child[j] \in {"harness", "wrote"}
  /\ child' = [child EXCEPT ![j] = "clean"]
  /\ UNCHANGED <<poolVars, file>>

(* The driver's last statement is behind it. *)
ExitClean(j) ==
  /\ child[j] = "wrote"
  /\ child' = [child EXCEPT ![j] = "clean"]
  /\ UNCHANGED <<poolVars, file>>

(***************************************************************************)
(* The driver ends early: no recipe (exit 2), an exception it does not     *)
(* catch, or a signal.                                                     *)
(***************************************************************************)
Fail(j) ==
  /\ child[j] \in {"harness", "writing", "wrote"}
  /\ child' = [child EXCEPT ![j] = "failed"]
  /\ UNCHANGED <<poolVars, file>>

Driver(j) == BeginWrite(j) \/ EndWrite(j) \/ ExitClean(j) \/ Fail(j)

Terminated == pc = "complete" /\ UNCHANGED vars

Next == Pool \/ (\E j \in Jobs : Driver(j)) \/ Terminated

(***************************************************************************)
(* The parent keeps stepping, and a driver comes to an end because every   *)
(* harness it starts runs under a timeout.                                 *)
(***************************************************************************)
Fairness == WF_vars(Pool) /\ \A j \in Jobs : WF_vars(Driver(j))

Safe == Init /\ [][Next]_vars
Spec == Safe /\ Fairness

-----------------------------------------------------------------------------
(* Properties. *)

Alive == {j \in Jobs : child[j] \in {"harness", "writing", "wrote"}}

(***************************************************************************)
(* "Each kernel gets a dedicated GPU for its lifetime; a GPU is returned   *)
(* to the pool only when its job exits" (run_pool.py:4-5): two drivers     *)
(* that are alive are on different GPUs, and neither is on a GPU that the  *)
(* pool would give to the next test.                                       *)
(***************************************************************************)
DedicatedGpu ==
  \A j \in Alive :
    /\ gpu[j] \in Gpus
    /\ \A k \in Alive \ {j} : gpu[j] # gpu[k]
    /\ \A i \in 1 .. Len(free) : gpu[j] # free[i]

(***************************************************************************)
(* No GPU is lost or minted: each is held by one running job or is in the  *)
(* free list once, so the pool is back to full strength when it completes. *)
(***************************************************************************)
FreeListExact ==
  /\ \A i, k \in 1 .. Len(free) : free[i] = free[k] => i = k
  /\ \A g \in Gpus :
       (\E i \in 1 .. Len(free) : free[i] = g) <=> (\A j \in running : gpu[j] # g)

(***************************************************************************)
(* A test is in the queue, running, or done once; the reap loop may pop    *)
(* from `running' while it iterates because it iterates over a copy        *)
(* (run_pool.py:60-62,82).  When the pool reports completion every test    *)
(* has exactly one DONE line.                                              *)
(***************************************************************************)
EveryTestOnce ==
  /\ \A j \in Jobs : done[j] = IF j <= launched /\ j \notin running THEN 1 ELSE 0
  /\ pc = "complete" => \A j \in Jobs : done[j] = 1

(* The test is on the command line once, so nobody shares its result file. *)
ListedOnce(j) == \A k \in Jobs : Tests[k] = Tests[j] => k = j

(***************************************************************************)
(* The DONE line of a driver that ran to its end quotes that driver's own  *)
(* result.  Only after a failed driver can it quote a leftover one         *)
(* (run_pool.py:66-81 reads the file without asking how old it is).        *)
(***************************************************************************)
ReportIsOwn ==
  \A j \in Jobs : done[j] > 0 /\ ListedOnce(j) =>
    /\ child[j] = "clean" => report[j] = Whole(j)
    /\ report[j] = Whole(0) => child[j] = "failed" /\ Tests[j] \in Leftover

(***************************************************************************)
(* With a test listed twice the two drivers truncate and write one file,   *)
(* and the DONE line of a driver that ran to its end may quote its twin's  *)
(* document or find the file unparseable, but never the leftover of an     *)
(* earlier sweep and never another test's result.                          *)
(***************************************************************************)
ReportIsCurrent ==
  \A j \in Jobs : done[j] > 0 /\ child[j] = "clean" =>
    \/ report[j] \in {Empty, Garbled}
    \/ \E k \in Jobs : Tests[k] = Tests[j] /\ report[j] = Whole(k)

(***************************************************************************)
(* Every test of the list ends with a DONE line, however few GPUs there    *)
(* are: the outer loop comes back to the queue after every reap.           *)
(***************************************************************************)
AllTestsFinish == <>(pc = "complete" /\ \A j \in Jobs : done[j] = 1)

-----------------------------------------------------------------------------
(* Refinement of the abstract pool. *)

phaseBar == [j \in Jobs |-> IF j > launched THEN "waiting"
                            ELSE IF j \in running THEN "running" ELSE "finished"]
heldBar  == [j \in Jobs |-> IF j \in running THEN gpu[j] ELSE NoGpu]

Abstract == INSTANCE ResourcePool
              WITH Job <- Jobs, Gpu <- Gpus, phase <- phaseBar, held <- heldBar

(***************************************************************************)
(* The pool implements the exclusive allocation of ResourcePool, and its   *)
(* fairness: launch and reap only ever do what Start and Finish allow.     *)
(***************************************************************************)
ImplementsPool == Abstract!Spec
=============================================================================
