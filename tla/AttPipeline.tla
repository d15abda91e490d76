---------------------------- MODULE AttPipeline ----------------------------
(***************************************************************************)
(* The trace pipeline of tools/README.md for one test, whose files all lie *)
(* in one directory, results/att/<stem>: att_capture.py, any number of     *)
(* times; then build_manifest.py; then the report, written by hand from    *)
(* the manifest; then build_bundles.py; and possibly another round.  A     *)
(* file is modelled by the capture it stems from, 0 where there is none.   *)
(*                                                                         *)
(* The driver dies of a subprocess timeout, which att_capture.py does not  *)
(* catch, or of a kill: its files stay as they are at that moment.  Its    *)
(* --tag names the hotspots and the counters it leaves, and only those of  *)
(* `big' are read by the manifest and copied to a bundle; the files of     *)
(* other tags, which nothing reads, are left out.  out_agent_info.csv      *)
(* comes and goes with the counters.                                       *)
(***************************************************************************)
EXTENDS Naturals, FiniteSets

CONSTANTS
  MaxCaptures,   \* bound: captures of the test
  MaxDeaths,     \* bound: captures that die
  MaxDispatches, \* bound: dispatch directories that one capture leaves
  MaxRank,       \* (waves, instructions, mapped) of a dispatch, as a rank
  Tags           \* the --tag of a capture: "big", which is the default, or another

ASSUME BoundsAssumption ==
  MaxCaptures \in Nat /\ MaxDeaths \in Nat /\ MaxDispatches \in Nat /\ MaxRank \in Nat \ {0}
ASSUME TagsAssumption == "big" \in Tags /\ "none" \notin Tags

Runs == 1 .. MaxCaptures
Captures == 0 .. MaxCaptures

(* A ui_output_agent_* directory; its name holds the process id, so it is
   not that of another capture.  Rank 0 is an empty shell. *)
Dispatch == [run : Runs, n : 1 .. MaxDispatches, rank : 0 .. MaxRank]
NoDir == [run |-> 0, n |-> 0, rank |-> 0]
Shell(d) == d.rank = 0

VARIABLES
  stage,     \* of the pipeline: "capture", "manifest", "report", "bundled"
  pc,        \* of the driver: "idle" when none is running
  exit,      \* how the last driver ended, "none" while one is running
  tag,       \* the --tag of the capture in progress
  run,       \* the last capture begun
  deaths,
  discover,  \* discover_kernel_stats.csv
  yaml,      \* input_trace.yaml
  att,       \* the dispatch directories in att/
  pmc,       \* whether att/out_results.json is there
  kept,      \* the dispatch chosen by this capture
  hotspot,   \* hotspot_big.txt
  counters,  \* big_out_results.json
  capture,   \* capture.json
  report,    \* REPORT.md beside it
  manifest,  \* the test's entry of analysis_manifest.json
  bundle     \* examples/<kernel>

driver == <<pc, exit, tag, run, deaths, discover, yaml, att, pmc, kept, hotspot, counters, capture>>
later  == <<stage, report, manifest, bundle>>
vars   == <<driver, later>>

(* What capture.json and a bundle can be; `names' and `readme' are the      *)
(* dispatch and the capture that the README of the bundle is written from. *)
Recording == [run : Captures, tag : Tags \cup {"none"},
              error : {"absent", "none", "no_kernel", "no_att"}, kept : Dispatch \cup {NoDir}]
Bundle == [trace : SUBSET Dispatch, names : Dispatch \cup {NoDir}, tag : Tags \cup {"none"},
           counters : Captures, discover : Captures, hotspot : Captures, yaml : Captures,
           report : Captures, readme : Captures]

NoCapture  == [run |-> 0, tag |-> "none", error |-> "absent", kept |-> NoDir]
NoManifest == [run |-> 0, ok |-> FALSE]
NoBundle   == [trace |-> {}, counters |-> 0, discover |-> 0, hotspot |-> 0, yaml |-> 0,
               report |-> 0, readme |-> 0, tag |-> "none", names |-> NoDir]

TypeOK ==
  /\ stage \in {"capture", "manifest", "report", "bundled"}
  /\ pc \in {"idle", "discover", "trace", "select", "analyze", "finish"}
  /\ exit \in {"none", "ok", "no_recipe", "no_kernel", "no_att", "died"}
  /\ tag \in Tags \cup {"none"}
  /\ run \in Captures /\ discover \in Captures /\ yaml \in Captures
  /\ hotspot \in Captures /\ counters \in Captures /\ report \in Captures
  /\ deaths \in 0 .. MaxDeaths
  /\ att \subseteq Dispatch /\ pmc \in BOOLEAN
  /\ kept \in Dispatch \cup {NoDir}
  /\ pc \in {"analyze", "finish"} => kept # NoDir
  /\ capture \in Recording
  /\ manifest \in [run : Captures, ok : BOOLEAN]
  /\ bundle \in Bundle

Init ==
  /\ stage = "capture" /\ pc = "idle" /\ exit = "none" /\ tag = "none"
  /\ run = 0 /\ deaths = 0
  /\ discover = 0 /\ yaml = 0 /\ hotspot = 0 /\ counters = 0 /\ report = 0
  /\ att = {} /\ pmc = FALSE /\ kept = NoDir
  /\ capture = NoCapture /\ manifest = NoManifest /\ bundle = NoBundle

-----------------------------------------------------------------------------
(* att_capture.py *)

(* The driver is started without a recipe for its test: exit 2, and no file is touched. *)
NoRecipe ==
  /\ stage = "capture" /\ pc = "idle"
  /\ exit' = "no_recipe"
  /\ UNCHANGED <<later, pc, tag, run, deaths, discover, yaml, att, pmc, kept, hotspot, counters,
                 capture>>

(* It is started with one; only its kernel cache is cleared. *)
Begin ==
  /\ stage = "capture" /\ pc = "idle" /\ run < MaxCaptures
  /\ run' = run + 1
  /\ tag' \in Tags
  /\ kept' = NoDir
  /\ pc' = "discover" /\ exit' = "none"
  /\ UNCHANGED <<later, deaths, discover, yaml, att, pmc, hotspot, counters, capture>>

(* rocprofv3 --stats returns, with or without new statistics. *)
Profiled == discover' \in {run, discover}

(* Mutant of NoKernel: exit 3 without a capture.json. *)
NoKernelSilent ==
  /\ pc = "discover"
  /\ Profiled
  /\ pc' = "idle" /\ exit' = "no_kernel"
  /\ UNCHANGED <<later, tag, run, deaths, yaml, att, pmc, kept, hotspot, counters, capture>>

(* No kernel in the statistics that are there: capture.json, exit 3. *)
NoKernel ==
  /\ pc = "discover"
  /\ Profiled
  /\ capture' = [NoCapture EXCEPT !.run = run, !.tag = tag, !.error = "no_kernel"]
  /\ pc' = "idle" /\ exit' = "no_kernel"
  /\ UNCHANGED <<later, tag, run, deaths, yaml, att, pmc, kept, hotspot, counters>>

(* Mutant of Choose: the directories of earlier captures stay. *)
ChooseOnTop ==
  /\ pc = "discover"
  /\ Profiled /\ discover' # 0
  /\ yaml' = run
  /\ pc' = "trace"
  /\ UNCHANGED <<later, exit, tag, run, deaths, att, pmc, kept, hotspot, counters, capture>>

(* A kernel is chosen from them; att/ is emptied and the yaml written. *)
Choose ==
  /\ pc = "discover"
  /\ Profiled /\ discover' # 0
  /\ att' = {} /\ pmc' = FALSE
  /\ yaml' = run
  /\ pc' = "trace"
  /\ UNCHANGED <<later, exit, tag, run, deaths, kept, hotspot, counters, capture>>

(* Directories of this capture, each name once. *)
Traces == UNION {{{[run |-> run, n |-> n, rank |-> f[n]] : n \in N} : f \in [N -> 0 .. MaxRank]} :
                   N \in SUBSET (1 .. MaxDispatches)}

(* The traced run returns, whatever its exit status. *)
Trace ==
  /\ pc = "trace"
  /\ \E dirs \in Traces : att' = att \cup dirs
  /\ pmc' \in BOOLEAN
  /\ pc' = "select"
  /\ UNCHANGED <<later, exit, tag, run, deaths, discover, yaml, kept, hotspot, counters, capture>>

(* Mutant of Best: the dispatch need not have waves and instructions. *)
BestOfAll == {d \in att : \A e \in att : e.rank <= d.rank}

(* The dispatches with waves and instructions that none exceeds. *)
Best == {d \in att : ~ Shell(d) /\ \A e \in att : e.rank <= d.rank}

(* Only empty shells: they go, capture.json, exit 4. *)
NoDispatch ==
  /\ pc = "select" /\ Best = {}
  /\ att' = {d \in att : ~ Shell(d)}
  /\ capture' = [NoCapture EXCEPT !.run = run, !.tag = tag, !.error = "no_att"]
  /\ pc' = "idle" /\ exit' = "no_att"
  /\ UNCHANGED <<later, tag, run, deaths, discover, yaml, pmc, kept, hotspot, counters>>

(* Mutant of Keep: `kept = d' is missing from the loop. *)
KeepNone ==
  /\ pc = "select" /\ Best # {}
  /\ att' = {d \in att : ~ Shell(d)}
  /\ pc' = "analyze"
  /\ UNCHANGED <<later, exit, tag, run, deaths, discover, yaml, pmc, kept, hotspot, counters, capture>>

(* The best one is kept, and the shells among the others go. *)
Keep ==
  /\ pc = "select"
  /\ kept' \in Best
  /\ att' = {d \in att : d = kept' \/ ~ Shell(d)}
  /\ pc' = "analyze"
  /\ UNCHANGED <<later, exit, tag, run, deaths, discover, yaml, pmc, hotspot, counters, capture>>

(* hotspot_analyzer.py on it, whose output goes to a file of this tag. *)
Analyze ==
  /\ pc = "analyze"
  /\ hotspot' = IF tag = "big" THEN run ELSE hotspot
  /\ pc' = "finish"
  /\ UNCHANGED <<later, exit, tag, run, deaths, discover, yaml, att, pmc, kept, counters, capture>>

(* The counters, if rocprofv3 left them, and capture.json. *)
Finish ==
  /\ pc = "finish"
  /\ counters' = IF pmc /\ tag = "big" THEN run ELSE counters
  /\ capture' = [run |-> run, tag |-> tag, error |-> "none", kept |-> kept]
  /\ pc' = "idle" /\ exit' = "ok"
  /\ UNCHANGED <<later, tag, run, deaths, discover, yaml, att, pmc, kept, hotspot>>

(* A timeout or a kill; one during the traced run leaves part of att/. *)
Die ==
  /\ pc # "idle" /\ deaths < MaxDeaths
  /\ deaths' = deaths + 1
  /\ \/ pc = "trace" /\ (\E dirs \in Traces : att' = att \cup dirs) /\ pmc' \in BOOLEAN
     \/ pc # "trace" /\ UNCHANGED <<att, pmc>>
  /\ pc' = "idle" /\ exit' = "died"
  /\ UNCHANGED <<later, tag, run, discover, yaml, kept, hotspot, counters, capture>>

-----------------------------------------------------------------------------
(* The stages after it. *)

(* build_manifest.py, when the drivers have ended. *)
BuildManifest ==
  /\ stage = "capture" /\ pc = "idle" /\ capture # NoCapture
  /\ manifest' = [run |-> capture.run, ok |-> capture.error = "none"]
  /\ stage' = "manifest"
  /\ UNCHANGED <<driver, report, bundle>>

(* The report: written from the entry, or not written. *)
WriteReport ==
  /\ stage = "manifest"
  /\ report' \in (IF manifest.ok THEN {manifest.run, report} ELSE {report})
  /\ stage' = "report"
  /\ UNCHANGED <<driver, manifest, bundle>>

(* cp: the file if it is there, else what the bundle has. *)
Copied(file, old) == IF file # 0 THEN file ELSE old

(* build_bundles.py: an entry with an error is passed over. *)
BuildBundle ==
  /\ stage = "report"
  /\ stage' = "bundled"
  /\ bundle' =
       IF ~ manifest.ok THEN bundle
       ELSE [trace    |-> bundle.trace \cup (att \cap {capture.kept}),
             counters |-> Copied(counters, bundle.counters),
             discover |-> Copied(discover, bundle.discover),
             hotspot  |-> Copied(hotspot, bundle.hotspot),
             yaml     |-> Copied(yaml, bundle.yaml),
             report   |-> Copied(report, bundle.report),
             readme   |-> manifest.run,
             tag      |-> capture.tag,
             names    |-> capture.kept]
  /\ UNCHANGED <<driver, report, manifest>>

NextRound ==
  /\ stage = "bundled" /\ run < MaxCaptures
  /\ stage' = "capture"
  /\ UNCHANGED <<driver, report, manifest, bundle>>

Driver ==
  \/ NoRecipe \/ Begin \/ NoKernel \/ Choose \/ Trace \/ NoDispatch \/ Keep \/ Analyze
  \/ Finish \/ Die

Next == Driver \/ BuildManifest \/ WriteReport \/ BuildBundle \/ NextRound

Spec == Init /\ [][Next]_vars

-----------------------------------------------------------------------------
(* Properties. *)

(* What the directory holds is of the last capture begun: capture.json, and *)
(* without an error the best dispatch, with no empty shell beside it, its   *)
(* yaml and, under the tag that is read later, its hotspots.                *)
Whole ==
  /\ capture.run = run
  /\ capture.error = "none" =>
       /\ capture.kept \in att /\ capture.kept.run = run
       /\ yaml = run /\ (capture.tag = "big" => hotspot = run)
       /\ \A d \in att : ~ Shell(d) /\ d.rank <= capture.kept.rank

(***************************************************************************)
(* A driver that ends by itself after it found its recipe, whether with 0, *)
(* 3 or 4, leaves the directory whole, whatever it was before.  The exit 2 *)
(* without a recipe leaves it as it is, so that it is whole then if none   *)
(* of the drivers died (att_capture.py:153-232).                           *)
(***************************************************************************)
CaptureIsWhole ==
  /\ exit \in {"ok", "no_kernel", "no_att"} => Whole
  /\ exit = "no_recipe" /\ run > 0 /\ deaths = 0 => Whole

(***************************************************************************)
(* Through deaths and rounds, a bundle never holds an empty shell, such as *)
(* those of a traced run that was cut off before the clean-up              *)
(* (att_capture.py:190-199, build_bundles.py:38-43).                       *)
(***************************************************************************)
NoShellPublished == \A d \in bundle.trace : ~ Shell(d)

(***************************************************************************)
(* What a bundle says of its trace is of that trace: the dispatch that its *)
(* README names is in it, and the numbers in the README, the dispatch, the *)
(* hotspots and the yaml stem from one capture (build_bundles.py:36-58,    *)
(* 85).  Counters, statistics and report are not among them.               *)
(***************************************************************************)
ReadmeOfItsTrace ==
  bundle.readme # 0 =>
    /\ bundle.names \in bundle.trace
    /\ bundle.names.run = bundle.readme
    /\ bundle.hotspot = bundle.readme /\ bundle.yaml = bundle.readme

(***************************************************************************)
(* As long as no driver has died, that holds of every bundle made from a   *)
(* capture under the tag `big', and of others but for the hotspots, which  *)
(* may be older.  The rest of a bundle is never newer than its README, but *)
(* it may be older: counters when rocprofv3 left none, statistics when the *)
(* profiled run left none, a report that was not written anew.  Failed     *)
(* discoveries, captures of nothing but shells and drivers without a       *)
(* recipe do no harm (att_capture.py:213-229, build_bundles.py:24-61).     *)
(***************************************************************************)
UndeadBundle ==
  deaths = 0 /\ bundle.readme # 0 =>
    /\ bundle.tag = "big" => ReadmeOfItsTrace
    /\ bundle.names \in bundle.trace /\ bundle.names.run = bundle.readme
    /\ bundle.yaml = bundle.readme
    /\ \A c \in {bundle.hotspot, bundle.counters, bundle.discover, bundle.report} :
         c <= bundle.readme
=============================================================================
