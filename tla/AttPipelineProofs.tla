-------------------------- MODULE AttPipelineProofs --------------------------
(***************************************************************************)
(* The safety properties of AttPipeline for any number of captures, deaths *)
(* and dispatches.  The invariant says what the driver has in hand at each *)
(* place of main(), and that the stages after it find the capture.json     *)
(* they were begun with.                                                   *)
(***************************************************************************)
EXTENDS AttPipeline, TLAPS

(* What this capture has done so far. *)
InHand ==
  /\ pc = "trace" => att = {}
  /\ pc = "select" => \A d \in att : d.run = run
  /\ pc \in {"trace", "select", "analyze", "finish"} => yaml = run
  /\ pc \in {"analyze", "finish"} =>
       /\ kept \in att /\ kept.run = run
       /\ \A d \in att : ~ Shell(d) /\ d.rank <= kept.rank
  /\ pc = "finish" => (tag = "big" => hotspot = run)
  /\ pc # "idle" => run > 0 /\ exit = "none" /\ stage = "capture"

(* What capture.json and the entry made from it can say. *)
Recorded ==
  /\ capture.error = "none" => run > 0 /\ capture.run # 0
  /\ capture.kept = NoDir \/ ~ Shell(capture.kept)
  /\ stage \in {"manifest", "report"} =>
       manifest = [run |-> capture.run, ok |-> capture.error = "none"]

(* The directory between two captures. *)
WholeBetween ==
  /\ CaptureIsWhole
  /\ pc = "idle" /\ run > 0 /\ deaths = 0 => Whole

(* No file of the directory is of a capture to come. *)
NoneToCome == \A c \in {hotspot, counters, discover, report} : c <= run

(* Nor is a capture that a manifest or a bundle speaks of; a bundle without *)
(* a README holds nothing.                                                  *)
Begun ==
  /\ capture.run <= run /\ manifest.run <= run /\ bundle.readme <= run
  /\ bundle.readme = 0 =>
       \A c \in {bundle.hotspot, bundle.counters, bundle.discover, bundle.report} : c = 0

IInv ==
  /\ TypeOK /\ InHand /\ Recorded /\ WholeBetween /\ NoneToCome /\ Begun
  /\ NoShellPublished /\ UndeadBundle

-----------------------------------------------------------------------------
(* A directory that is not there is none of those that are. *)
LEMMA NoDirIsNone == NoDir \notin Dispatch /\ \A d \in Dispatch : d # NoDir
BY DEF NoDir, Dispatch, Runs

(* The directories of a traced run are of this capture. *)
LEMMA TracesOfRun ==
  ASSUME run \in Runs, NEW dirs \in Traces
  PROVE  dirs \subseteq Dispatch /\ \A d \in dirs : d.run = run
<1>1. PICK N \in SUBSET (1 .. MaxDispatches) : \E f \in [N -> 0 .. MaxRank] :
        dirs = {[run |-> run, n |-> n, rank |-> f[n]] : n \in N}
  BY DEF Traces
<1>2. PICK f \in [N -> 0 .. MaxRank] : dirs = {[run |-> run, n |-> n, rank |-> f[n]] : n \in N}
  BY <1>1
<1>3. ASSUME NEW d \in dirs PROVE d \in Dispatch /\ d.run = run
  <2>1. PICK n \in N : d = [run |-> run, n |-> n, rank |-> f[n]]
    BY <1>2
  <2> QED BY <2>1 DEF Dispatch
<1> QED BY <1>3

(* The best dispatch is there, is none of the shells, and is exceeded by none. *)
LEMMA BestIsThere ==
  ASSUME TypeOK, NEW d \in Best
  PROVE  d \in att /\ d \in Dispatch /\ ~ Shell(d) /\ \A e \in att : e.rank <= d.rank
BY DEF TypeOK, Best

LEMMA InitInvariant == Init => IInv
<1> SUFFICES ASSUME Init PROVE IInv
  OBVIOUS
<1>1. TypeOK
  <2>1. NoCapture \in Recording
    BY BoundsAssumption DEF NoCapture, Captures, Recording
  <2>2. NoManifest \in [run : Captures, ok : BOOLEAN]
    BY BoundsAssumption DEF NoManifest, Captures
  <2>3. NoBundle \in Bundle
    BY BoundsAssumption DEF NoBundle, Captures, Bundle
  <2>4. 0 \in Captures /\ 0 \in 0 .. MaxDeaths
    BY BoundsAssumption DEF Captures
  <2> QED BY <2>1, <2>2, <2>3, <2>4 DEF Init, TypeOK
<1>2. InHand /\ Recorded /\ WholeBetween /\ NoneToCome /\ Begun
  BY DEF Init, InHand, Recorded, NoCapture, WholeBetween, CaptureIsWhole, NoneToCome, Begun,
         NoManifest, NoBundle
<1>3. NoShellPublished /\ UndeadBundle
  BY DEF Init, NoShellPublished, UndeadBundle, NoBundle
<1> QED BY <1>1, <1>2, <1>3 DEF IInv

(* A step of the driver keeps the types. *)
LEMMA DriverTypes == TypeOK /\ InHand /\ Driver => TypeOK'
<1> SUFFICES ASSUME TypeOK, InHand, Driver PROVE TypeOK'
  OBVIOUS
<1> USE DEF TypeOK, later
<1>1. CASE Begin
  BY <1>1, BoundsAssumption DEF Begin, Captures
<1>2. CASE NoKernel
  <2>1. capture' = [run |-> run, tag |-> tag, error |-> "no_kernel", kept |-> NoDir]
    BY <1>2 DEF NoKernel, NoCapture
  <2>2. capture' \in Recording
    BY <2>1 DEF Recording
  <2>3. discover' \in Captures
    BY <1>2 DEF NoKernel, Profiled
  <2> QED BY <1>2, <2>2, <2>3 DEF NoKernel
<1>3. CASE Choose
  BY <1>3 DEF Choose, Profiled
<1>4. CASE Trace
  <2>1. run \in Runs
    BY <1>4 DEF Trace, InHand, Captures, Runs
  <2>2. att' \subseteq Dispatch
    BY <1>4, <2>1, TracesOfRun DEF Trace
  <2> QED BY <1>4, <2>2 DEF Trace
<1>5. CASE NoDispatch
  <2>1. capture' = [run |-> run, tag |-> tag, error |-> "no_att", kept |-> NoDir]
    BY <1>5 DEF NoDispatch, NoCapture
  <2>2. capture' \in Recording
    BY <2>1 DEF Recording
  <2> QED BY <1>5, <2>2 DEF NoDispatch
<1>6. CASE Keep
  BY <1>6, BestIsThere, NoDirIsNone DEF Keep
<1>7. CASE Analyze
  BY <1>7 DEF Analyze
<1>8. CASE Finish
  BY <1>8 DEF Finish, Recording
<1>9. CASE Die
  <2>1. att' \subseteq Dispatch /\ pmc' \in BOOLEAN
    <3>1. CASE pc = "trace"
      <4>1. run \in Runs
        BY <3>1 DEF InHand, Captures, Runs
      <4> QED BY <1>9, <3>1, <4>1, TracesOfRun DEF Die
    <3>2. CASE pc # "trace"
      BY <1>9, <3>2 DEF Die
    <3> QED BY <3>1, <3>2
  <2>2. deaths' \in 0 .. MaxDeaths
    BY <1>9, BoundsAssumption DEF Die
  <2> QED BY <1>9, <2>1, <2>2 DEF Die
<1>10. CASE NoRecipe
  BY <1>10 DEF NoRecipe
<1> QED BY <1>1, <1>2, <1>3, <1>4, <1>5, <1>6, <1>7, <1>8, <1>9, <1>10 DEF Driver

(* So does a step of the stages after it. *)
LEMMA StageTypes ==
  TypeOK /\ (BuildManifest \/ WriteReport \/ BuildBundle \/ NextRound) => TypeOK'
<1> USE DEF TypeOK, driver
<1>1. TypeOK /\ BuildManifest => TypeOK'
  BY DEF BuildManifest, Recording
<1>2. TypeOK /\ WriteReport => TypeOK'
  BY DEF WriteReport
<1>3. TypeOK /\ BuildBundle => TypeOK'
  BY DEF BuildBundle, Copied, Recording, Bundle
<1>4. TypeOK /\ NextRound => TypeOK'
  BY DEF NextRound
<1> QED BY <1>1, <1>2, <1>3, <1>4

(* A step of the driver keeps what it has in hand and what it records. *)
LEMMA DriverStep ==
  IInv /\ Driver => InHand' /\ Recorded' /\ WholeBetween' /\ NoneToCome' /\ Begun'
<1> SUFFICES ASSUME IInv, Driver
             PROVE  InHand' /\ Recorded' /\ WholeBetween' /\ NoneToCome' /\ Begun'
  OBVIOUS
<1>1. TypeOK /\ InHand /\ Recorded /\ WholeBetween /\ NoneToCome /\ Begun
  BY DEF IInv
<1>2. /\ run \in Nat /\ deaths \in Nat
      /\ capture.run \in Nat /\ manifest.run \in Nat /\ bundle.readme \in Nat
      /\ \A c \in {hotspot, counters, discover, report} : c \in Nat
  BY <1>1, BoundsAssumption DEF TypeOK, Captures, Recording, Bundle
<1>3. pc # "idle" => run > 0 /\ stage = "capture" /\ exit = "none"
  BY <1>1 DEF InHand
<1> USE DEF later, InHand, Recorded, WholeBetween, CaptureIsWhole, Whole, NoneToCome, Begun
<1>4. CASE Begin
  BY <1>1, <1>2, <1>4 DEF Begin
<1>5. CASE NoKernel
  BY <1>1, <1>2, <1>3, <1>5 DEF NoKernel, NoCapture, Profiled
<1>6. CASE Choose
  BY <1>1, <1>2, <1>3, <1>6 DEF Choose, Profiled
<1>7. CASE Trace
  <2>1. pc = "trace" /\ run \in Runs
    BY <1>1, <1>2, <1>3, <1>7 DEF Trace, TypeOK, Captures, Runs
  <2>2. \A d \in att' : d.run = run
    BY <1>1, <1>7, <2>1, TracesOfRun DEF Trace
  <2> QED BY <1>1, <1>2, <1>3, <1>7, <2>2 DEF Trace
<1>8. CASE NoDispatch
  BY <1>1, <1>2, <1>3, <1>8 DEF NoDispatch, NoCapture
<1>9. CASE Keep
  <2>1. /\ kept' \in att /\ kept'.run = run /\ ~ Shell(kept')
        /\ \A e \in att : e.rank <= kept'.rank
    BY <1>1, <1>9, BestIsThere DEF Keep
  <2>2. \A d \in att' : ~ Shell(d) /\ d.rank <= kept'.rank
    BY <1>9, <2>1 DEF Keep
  <2> QED BY <1>1, <1>2, <1>3, <1>9, <2>1, <2>2 DEF Keep
<1>10. CASE Analyze
  BY <1>1, <1>2, <1>3, <1>10 DEF Analyze
<1>11. CASE Finish
  BY <1>1, <1>2, <1>3, <1>11 DEF Finish
<1>12. CASE Die
  BY <1>1, <1>2, <1>3, <1>12 DEF Die
<1>13. CASE NoRecipe
  BY <1>1, <1>2, <1>13 DEF NoRecipe
<1> QED BY <1>4, <1>5, <1>6, <1>7, <1>8, <1>9, <1>10, <1>11, <1>12, <1>13 DEF Driver

(* The bundle is made of what capture.json names. *)
LEMMA BundleStep ==
  ASSUME IInv, BuildBundle
  PROVE  NoShellPublished' /\ UndeadBundle'
<1>1. TypeOK /\ InHand /\ Recorded /\ WholeBetween /\ NoneToCome
  BY DEF IInv
<1>2. CASE ~ manifest.ok
  BY <1>2 DEF IInv, BuildBundle, driver, NoShellPublished, UndeadBundle, ReadmeOfItsTrace
<1>3. CASE manifest.ok
  <2>1. manifest.run = capture.run /\ capture.error = "none" /\ run > 0 /\ pc = "idle"
    <3>1. /\ manifest = [run |-> capture.run, ok |-> capture.error = "none"]
          /\ stage = "report" /\ (capture.error = "none" => run > 0)
      BY <1>1 DEF BuildBundle, Recorded
    <3>2. manifest.run = capture.run /\ manifest.ok = (capture.error = "none")
      BY <3>1
    <3> QED BY <1>1, <1>3, <3>1, <3>2 DEF InHand
  <2>2. /\ bundle' = [trace    |-> bundle.trace \cup (att \cap {capture.kept}),
                     counters |-> Copied(counters, bundle.counters),
                     discover |-> Copied(discover, bundle.discover),
                     hotspot  |-> Copied(hotspot, bundle.hotspot),
                     yaml     |-> Copied(yaml, bundle.yaml),
                     report   |-> Copied(report, bundle.report),
                     readme   |-> manifest.run,
                     tag      |-> capture.tag,
                     names    |-> capture.kept]
        /\ UNCHANGED driver
    BY <1>3 DEF BuildBundle
  <2>3. NoShellPublished'
    <3>1. capture.kept \notin att \/ ~ Shell(capture.kept)
      BY <1>1, NoDirIsNone DEF Recorded, TypeOK, Recording
    <3> QED BY <2>2, <3>1 DEF IInv, NoShellPublished
  <2>4. ASSUME deaths = 0 PROVE UndeadBundle'
    <3>1. /\ capture.run = run /\ capture.kept \in att /\ capture.kept.run = run
          /\ yaml = run /\ (capture.tag = "big" => hotspot = run)
      BY <1>1, <2>1, <2>4 DEF WholeBetween, Whole
    <3>2. /\ bundle'.names \in bundle'.trace /\ bundle'.names.run = bundle'.readme
          /\ bundle'.yaml = bundle'.readme /\ bundle'.readme = run
      BY <2>1, <2>2, <3>1 DEF Copied
    <3>3. bundle'.tag = "big" => bundle'.hotspot = bundle'.readme
      BY <2>1, <2>2, <3>1 DEF Copied
    <3>4. \A c \in {bundle'.hotspot, bundle'.counters, bundle'.discover, bundle'.report} :
            c <= bundle'.readme
      <4>1. \A f \in {hotspot, counters, discover, report} : f <= run /\ f \in Nat
        BY <1>1, BoundsAssumption DEF NoneToCome, TypeOK, Captures
      <4>2. \A b \in {bundle.hotspot, bundle.counters, bundle.discover, bundle.report} :
              b <= run /\ b \in Nat
        <5>1. /\ \A b \in {bundle.hotspot, bundle.counters, bundle.discover, bundle.report} :
                   b \in Nat
              /\ bundle.readme \in Nat /\ run \in Nat
          BY <1>1, BoundsAssumption DEF TypeOK, Captures, Recording, Bundle
        <5>2. bundle.readme = 0 => \A b \in {bundle.hotspot, bundle.counters, bundle.discover,
                                              bundle.report} : b = 0
          BY DEF IInv, Begun
        <5>3. bundle.readme <= run
          BY DEF IInv, Begun
        <5>4. bundle.readme # 0 => \A b \in {bundle.hotspot, bundle.counters, bundle.discover,
                                              bundle.report} : b <= bundle.readme
          BY <2>4 DEF IInv, UndeadBundle
        <5> QED BY <2>1, <5>1, <5>2, <5>3, <5>4
      <4> QED BY <2>2, <3>2, <4>1, <4>2 DEF Copied
    <3> QED BY <3>2, <3>3, <3>4 DEF UndeadBundle, ReadmeOfItsTrace
  <2>5. UNCHANGED deaths
    BY <2>2 DEF driver
  <2> QED BY <2>3, <2>4, <2>5 DEF UndeadBundle
<1> QED BY <1>2, <1>3

LEMMA StepInvariant == IInv /\ [Next]_vars => IInv'
<1> SUFFICES ASSUME IInv, [Next]_vars PROVE IInv'
  OBVIOUS
<1>1. CASE Driver
  <2>1. TypeOK' /\ InHand' /\ Recorded' /\ WholeBetween' /\ NoneToCome' /\ Begun'
    BY <1>1, DriverTypes, DriverStep DEF IInv
  <2>2. UNCHANGED bundle /\ (deaths' = 0 => deaths = 0)
    <3>1. deaths \in Nat
      BY BoundsAssumption DEF IInv, TypeOK
    <3> QED BY <1>1, <3>1 DEF Driver, NoRecipe, Begin, NoKernel, Choose, Trace, NoDispatch, Keep,
                              Analyze, Finish, Die, later
  <2>3. NoShellPublished' /\ UndeadBundle'
    BY <2>2 DEF IInv, NoShellPublished, UndeadBundle, ReadmeOfItsTrace
  <2> QED BY <2>1, <2>3 DEF IInv
<1> USE DEF InHand, Recorded, WholeBetween, CaptureIsWhole, Whole, NoneToCome
<1>2. CASE BuildManifest
  BY <1>2, StageTypes
     DEF IInv, BuildManifest, driver, NoShellPublished, UndeadBundle, ReadmeOfItsTrace, Begun
<1>3. CASE WriteReport
  <2>1. NoneToCome'
    <3>1. manifest.run <= run
      BY <1>3 DEF IInv, WriteReport, Begun
    <3> QED BY <1>3, <3>1 DEF IInv, WriteReport, driver
  <2>2. TypeOK' /\ NoShellPublished' /\ UndeadBundle' /\ Begun'
    BY <1>3, StageTypes
       DEF IInv, WriteReport, driver, NoShellPublished, UndeadBundle, ReadmeOfItsTrace, Begun
  <2>3. UNCHANGED <<pc, exit, tag, run, deaths, yaml, att, kept, hotspot, capture, manifest>>
    BY <1>3 DEF WriteReport, driver
  <2>4. pc = "idle" /\ stage = "manifest" /\ stage' = "report"
    BY <1>3 DEF IInv, WriteReport
  <2>5. InHand' /\ Recorded'
    BY <2>3, <2>4 DEF IInv
  <2>6. WholeBetween'
    BY <2>3 DEF IInv
  <2> QED BY <2>1, <2>2, <2>5, <2>6 DEF IInv
<1>4. CASE BuildBundle
  <2>1. Begun'
    <3>1. CASE manifest.ok
      <4>1. manifest = [run |-> capture.run, ok |-> capture.error = "none"]
        BY <1>4 DEF IInv, BuildBundle
      <4>2. manifest.ok = (capture.error = "none") /\ manifest.run = capture.run
        BY <4>1
      <4>3. bundle'.readme = manifest.run
        BY <1>4, <3>1 DEF BuildBundle
      <4>4. manifest.run # 0 /\ manifest.run <= run
        BY <3>1, <4>2 DEF IInv, Begun
      <4> QED BY <1>4, <4>3, <4>4 DEF IInv, BuildBundle, driver, Begun
    <3> QED BY <1>4, <3>1 DEF IInv, BuildBundle, driver, Begun
  <2> QED BY <1>4, <2>1, StageTypes, BundleStep DEF IInv, BuildBundle, driver
<1>5. CASE NextRound
  BY <1>5, StageTypes
     DEF IInv, NextRound, driver, NoShellPublished, UndeadBundle, ReadmeOfItsTrace, Begun
<1>6. CASE UNCHANGED vars
  BY <1>6 DEF IInv, vars, driver, later, TypeOK, NoShellPublished, UndeadBundle,
              ReadmeOfItsTrace, Begun
<1> QED BY <1>1, <1>2, <1>3, <1>4, <1>5, <1>6 DEF Next

LEMMA Invariant == Spec => []IInv
BY InitInvariant, StepInvariant, PTL DEF Spec

(* Every reachable state is well typed, whatever the bounds. *)
THEOREM TypeCorrect == Spec => []TypeOK
BY Invariant, PTL DEF IInv

(***************************************************************************)
(* att_capture.py:153-232: a driver that ends with 0, 3 or 4 leaves the    *)
(* directory whole, of its own capture, whatever deaths came before; one   *)
(* without a recipe leaves it whole if no driver died.                     *)
(***************************************************************************)
THEOREM WholeWhenEnded == Spec => []CaptureIsWhole
BY Invariant, PTL DEF IInv, WholeBetween

(* att_capture.py:190-199: no bundle holds a shell, also after drivers that died. *)
THEOREM BundlesFreeOfShells == Spec => []NoShellPublished
BY Invariant, PTL DEF IInv

(***************************************************************************)
(* build_bundles.py:24-61: as long as no driver died, the README, the yaml *)
(* and, under the tag `big', the hotspots are of the trace beside them,    *)
(* and nothing else in the bundle is newer, over any number of rounds in   *)
(* which captures fail and reports are or are not rewritten.               *)
(***************************************************************************)
THEOREM BundleIsOfItsTrace == Spec => []UndeadBundle
BY Invariant, PTL DEF IInv
=============================================================================
