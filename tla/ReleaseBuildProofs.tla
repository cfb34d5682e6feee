------------------------- MODULE ReleaseBuildProofs -------------------------
(***************************************************************************)
(* Proofs about ReleaseBuild, for every value of the bounds and every set  *)
(* of scripts the user runs.                                               *)
(***************************************************************************)
EXTENDS ReleaseBuild, TLAPS

(* Local commits come from runs (one per failed push at most), and nothing *)
(* ever fetches: the local branch lacks every foreign push; the BSP on    *)
(* disk has moved one version per edit.                                   *)
Counters == ahead <= runs /\ behind = foreign /\ bsp = edits + 1

TypeInv == TypeOK /\ Counters

-----------------------------------------------------------------------------
(* The push of a commit keeps the counters in their types: nothing is     *)
(* ahead after a push origin took, one more commit after a lost one, and   *)
(* a failure counts against MaxFailures.                                   *)
LEMMA PushedType ==
    ASSUME TypeInv, NEW s \in Variants, NEW e \in {0, 1}, Pushed(s, e),
           runs' = runs + 1
    PROVE  /\ ahead' \in 0 .. runs'
           /\ failures' \in 0 .. MaxFailures
           /\ outcome' \in [script : Variants \cup {"none"}, stage : Stages,
                            exit : {0, 1}]
<1> USE ReleaseBuildAssumption DEF TypeInv, TypeOK, Counters, Stages
<1>1. PICK r \in NetResults :
        /\ failures' = IF r = "ok" THEN failures ELSE failures + 1
        /\ ahead' = IF r # "lost" /\ behind = 0 THEN 0 ELSE ahead + 1
        /\ Report(s, IF r = "ok" /\ behind = 0 THEN "done" ELSE "push", e)
  BY DEF Pushed
<1>2. r = "ok" \/ failures < MaxFailures
  BY <1>1 DEF NetResults
<1>3. QED
  BY <1>1, <1>2 DEF Report

(* The publish step keeps the git part of the state in its type: HEAD gets *)
(* the BSP version and a descriptor.                                       *)
LEMMA PublishType ==
    ASSUME TypeInv, NEW s \in Variants, NEW j \in Descriptors, NEW z,
           NEW tmp, NEW e \in {0, 1},
           Publish(s, j, z, tmp, e), runs' = runs + 1
    PROVE  /\ headRoot' \in {0} \cup Versions
           /\ headJson' \in Descriptors \cup {NoJson}
           /\ ahead' \in 0 .. runs'
           /\ failures' \in 0 .. MaxFailures
           /\ outcome' \in [script : Variants \cup {"none"}, stage : Stages,
                            exit : {0, 1}]
<1>1. CASE ~(bsp # headRoot \/ j # headJson)
  BY <1>1, ReleaseBuildAssumption
     DEF Publish, Report, TypeInv, TypeOK, Counters, Stages
<1>2. CASE bsp # headRoot \/ j # headJson
  <2>1. headRoot' = bsp /\ headJson' = j /\ Pushed(s, e)
    BY <1>2 DEF Publish
  <2>2. QED
    BY <2>1, PushedType DEF TypeInv, TypeOK, Counters
<1>3. QED
  BY <1>1, <1>2

(* The initial states of the scripts' working copy are typed.             *)
LEMMA TypeInvInit == Init => TypeInv
<1> USE ReleaseBuildAssumption
<1>1. QED
  BY DEF Init, TypeInv, TypeOK, Counters, FlatBspZip, NoJson, Archives,
         Descriptors, Contents, OldContent, Versions, Stages

(* The five ends of a from_release run leave everything typed.             *)
LEMMA FromReleaseType ==
    ASSUME TypeInv, FromRelease PROVE TypeInv'
<1> USE ReleaseBuildAssumption
<1> DEFINE z == FreshBytes(runs + 1)
           j == FromReleaseJson(z)
<1>0. /\ "from_release" \in Variants /\ runs < MaxRuns /\ runs' = runs + 1
      /\ UNCHANGED <<bsp, release, template, gitignore, headBsp, headZip,
                     behind, edits, foreign>>
  BY DEF FromRelease
<1>1. z \in Archives /\ j \in Descriptors
  BY <1>0 DEF TypeInv, TypeOK, Archives, Descriptors, FreshBytes, Contents,
              FromReleaseJson
<1>2. CASE /\ UNCHANGED <<headRoot, headJson, ahead, failures>>
           /\ zip' \in {zip, z} /\ json' \in {json, j}
           /\ \E st \in Stages : Report("from_release", st, 0)
  <2>1. PICK st \in Stages : Report("from_release", st, 0)
    BY <1>2
  <2>2. QED
    BY <1>0, <1>1, <1>2, <2>1 DEF TypeInv, TypeOK, Counters, Report
<1>3. CASE zip' = z /\ json' = j /\ Publish("from_release", j, z, TRUE, 0)
  <2>1. /\ headRoot' \in {0} \cup Versions
        /\ headJson' \in Descriptors \cup {NoJson}
        /\ ahead' \in 0 .. runs'
        /\ failures' \in 0 .. MaxFailures
        /\ outcome' \in [script : Variants \cup {"none"}, stage : Stages,
                         exit : {0, 1}]
    BY <1>0, <1>1, <1>3, PublishType
  <2>2. QED
    BY <1>0, <1>1, <1>3, <2>1 DEF TypeInv, TypeOK, Counters
<1>4. QED
  BY <1>0, <1>2, <1>3 DEF FromRelease, Stages

(* Every run of a script, edit of the BSP and foreign push keeps each      *)
(* variable in its type and the counters in step.                          *)
LEMMA TypeInvStep == TypeInv /\ [Next]_vars => TypeInv'
<1> USE ReleaseBuildAssumption
<1> SUFFICES ASSUME TypeInv, [Next]_vars PROVE TypeInv'
  OBVIOUS
<1>1. CASE FromRelease
  BY <1>1, FromReleaseType
<1>2. CASE CompleteAuto
  <2>1. FlatBspZip \in Archives /\ AutoJson \in Descriptors
    BY DEF TypeInv, TypeOK, FlatBspZip, AutoJson, Archives, Descriptors,
           Contents
  <2>2. CASE ~template
    <3>1. /\ zip' = FlatBspZip
          /\ outcome' = [script |-> "auto", stage |-> "json", exit |-> 0]
          /\ runs' = runs + 1
          /\ "auto" \in Variants /\ runs < MaxRuns
          /\ UNCHANGED <<json, headRoot, headJson, ahead, failures>>
          /\ UNCHANGED <<bsp, release, template, gitignore, headBsp,
                         headZip, behind, edits, foreign>>
      BY <1>2, <2>2 DEF CompleteAuto, Report
    <3>2. QED
      BY <2>1, <3>1 DEF TypeInv, TypeOK, Counters, Stages
  <2>3. CASE template
    <3>1. /\ zip' = FlatBspZip /\ json' = AutoJson
          /\ Publish("auto", AutoJson, FlatBspZip, FALSE, 0)
          /\ runs' = runs + 1
          /\ "auto" \in Variants /\ runs < MaxRuns
          /\ UNCHANGED <<bsp, release, template, gitignore, headBsp,
                         headZip, behind, edits, foreign>>
      BY <1>2, <2>3 DEF CompleteAuto, AutoPublish
    <3>2. /\ headRoot' \in {0} \cup Versions
          /\ headJson' \in Descriptors \cup {NoJson}
          /\ ahead' \in 0 .. runs'
          /\ failures' \in 0 .. MaxFailures
          /\ outcome' \in [script : Variants \cup {"none"}, stage : Stages,
                           exit : {0, 1}]
      BY <2>1, <3>1, PublishType
    <3>3. QED
      BY <2>1, <3>1, <3>2 DEF TypeInv, TypeOK, Counters
  <2>4. QED
    BY <2>2, <2>3
<1>3. CASE Package
  <2>1. FreshBytes(runs + 1) \in Archives
    BY <1>3 DEF Package, FreshBytes, Archives, Contents, TypeInv, TypeOK
  <2>2. json # NoJson => PackageJson(FreshBytes(runs + 1)) \in Descriptors
    BY <2>1 DEF PackageJson, Archives, Descriptors, TypeInv, TypeOK
  <2>3. QED
    BY <1>3, <2>1, <2>2 DEF Package, Report, TypeInv, TypeOK, Counters,
                            Stages
<1>4. CASE EditBsp
  BY <1>4 DEF EditBsp, TypeInv, TypeOK, Counters, Versions
<1>5. CASE ForeignPush
  BY <1>5 DEF ForeignPush, TypeInv, TypeOK, Counters
<1>6. CASE UNCHANGED vars
  BY <1>6 DEF vars, TypeInv, TypeOK, Counters
<1>7. QED
  BY <1>1, <1>2, <1>3, <1>4, <1>5, <1>6 DEF Next

(* Every step keeps each variable in its type, for every bound.            *)
LEMMA TypeCorrect == Spec => []TypeOK
<1>1. TypeInv => TypeOK
  BY DEF TypeInv
<1>2. QED
  BY TypeInvInit, TypeInvStep, <1>1, PTL DEF Spec

-----------------------------------------------------------------------------
(* A publish that has something staged commits the new descriptor and     *)
(* ends in "done" or "push", never in the refused "commit".                *)
LEMMA PublishStaged ==
    ASSUME NEW s, NEW j, NEW z, NEW tmp, NEW e,
           Publish(s, j, z, tmp, e), bsp # headRoot \/ j # headJson
    PROVE  headJson' = j /\ outcome'.stage \in {"done", "push"}
BY DEF Publish, Pushed, Report

(* A publish commits the descriptor it is given or nothing, and reports    *)
(* under the name of the script that runs it.                             *)
LEMMA PublishEffect ==
    ASSUME NEW s, NEW j, NEW z, NEW tmp, NEW e, Publish(s, j, z, tmp, e)
    PROVE  headJson' \in {headJson, j} /\ outcome'.script = s
BY DEF Publish, Pushed, Report

-----------------------------------------------------------------------------
(* A descriptor committed to HEAD that names the ZIP of a run names it by  *)
(* a run number.                                                           *)
LEMMA HeadJsonRunNumber ==
    ASSUME TypeOK, headJson.zip.src = "run"
    PROVE  headJson.zip.n \in Nat
BY DEF TypeOK, Descriptors, NoJson, Contents, OldContent, Versions

(* No descriptor committed to HEAD names a ZIP of a run still to come.     *)
FreshUnpublished == headJson.zip.src = "run" => headJson.zip.n <= runs

CommitIInv == TypeInv /\ FreshUnpublished /\ CommitNeverRefused

(* No from_release_zip run ends at `git commit` refusing an empty commit,  *)
(* for every bound and whatever complete_auto and package_nuttyfi32 did    *)
(* before: it always stages a descriptor naming the ZIP of this run, which *)
(* no commit in HEAD names, since complete_auto commits descriptors of     *)
(* the BSP folder and package_nuttyfi32 never commits.                     *)
THEOREM CommitSafe == Spec => []CommitNeverRefused
<1>1. Init => CommitIInv
  BY TypeInvInit DEF Init, CommitIInv, FreshUnpublished, CommitNeverRefused,
                     NoJson, OldContent, FlatBspZip
<1>2. CommitIInv /\ [Next]_vars => CommitIInv'
  <2> SUFFICES ASSUME CommitIInv, [Next]_vars PROVE CommitIInv'
    OBVIOUS
  <2>1. TypeInv'
    BY TypeInvStep DEF CommitIInv
  <2>0. /\ runs \in Nat
        /\ headJson.zip.src = "run" => headJson.zip.n \in Nat
    BY HeadJsonRunNumber DEF CommitIInv, TypeInv, TypeOK
  <2>2. CASE FromRelease
    <3> DEFINE z == FreshBytes(runs + 1)
               j == FromReleaseJson(z)
    <3>0. runs' = runs + 1
      BY <2>2 DEF FromRelease
    <3>1. ASSUME NEW st \in {"extract", "zip", "json", "publish"},
                 Report("from_release", st, 0), UNCHANGED headJson
          PROVE  CommitIInv'
      BY <2>0, <2>1, <3>0, <3>1 DEF CommitIInv, FreshUnpublished,
                                    CommitNeverRefused, Report
    <3>2. CASE Publish("from_release", j, z, TRUE, 0)
      <4>1. j.zip = [src |-> "run", n |-> runs + 1]
        BY DEF FromReleaseJson, FreshBytes
      <4>2. j # headJson
        BY <2>0, <4>1 DEF CommitIInv, FreshUnpublished
      <4>3. headJson' = j /\ outcome'.stage \in {"done", "push"}
        BY <3>2, <4>2, PublishStaged
      <4>4. QED
        BY <2>0, <2>1, <3>0, <4>1, <4>3 DEF CommitIInv, FreshUnpublished,
                                            CommitNeverRefused
    <3>3. \/ Report("from_release", "extract", 0) /\ UNCHANGED headJson
          \/ Report("from_release", "zip", 0) /\ UNCHANGED headJson
          \/ Report("from_release", "json", 0) /\ UNCHANGED headJson
          \/ Report("from_release", "publish", 0) /\ UNCHANGED headJson
          \/ Publish("from_release", j, z, TRUE, 0)
      BY <2>2 DEF FromRelease
    <3>4. QED
      BY <3>1, <3>2, <3>3
  <2>3. CASE CompleteAuto
    <3>1. /\ headJson' \in {headJson, AutoJson}
          /\ outcome'.script = "auto" /\ runs' = runs + 1
      <4>1. CASE template
        <5>1. Publish("auto", AutoJson, FlatBspZip, FALSE, 0)
              /\ runs' = runs + 1
          BY <2>3, <4>1 DEF CompleteAuto, AutoPublish
        <5>2. QED
          BY <5>1, PublishEffect
      <4>2. CASE ~template
        BY <2>3, <4>2 DEF CompleteAuto, Report
      <4>3. QED
        BY <4>1, <4>2
    <3>2. QED
      BY <2>0, <2>1, <3>1 DEF CommitIInv, FreshUnpublished,
                              CommitNeverRefused, AutoJson, FlatBspZip
  <2>4. CASE Package
    <3>1. /\ outcome'.script = "package"
          /\ UNCHANGED headJson /\ runs' = runs + 1
      BY <2>4 DEF Package, Report
    <3>2. QED
      BY <2>0, <2>1, <3>1 DEF CommitIInv, FreshUnpublished,
                              CommitNeverRefused
  <2>5. CASE EditBsp \/ ForeignPush \/ UNCHANGED vars
    <3>1. UNCHANGED <<headJson, runs, outcome>>
      BY <2>5 DEF EditBsp, ForeignPush, vars
    <3>2. QED
      BY <2>1, <3>1 DEF CommitIInv, FreshUnpublished, CommitNeverRefused
  <2>6. QED
    BY <2>2, <2>3, <2>4, <2>5 DEF Next
<1>3. CommitIInv => CommitNeverRefused
  BY DEF CommitIInv
<1>4. QED
  BY <1>1, <1>2, <1>3, PTL DEF Spec
=============================================================================
