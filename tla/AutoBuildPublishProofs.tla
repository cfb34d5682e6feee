----------------------- MODULE AutoBuildPublishProofs -----------------------
(***************************************************************************)
(* Proofs about AutoBuildPublish, for every value of the constants.        *)
(***************************************************************************)
EXTENDS AutoBuildPublish, SequenceTheorems, TLAPS

(* Phases of a run that come after a successful sync_with_remote().        *)
SyncedPhases == {"check", "build", "zip", "zipping", "json", "stage",
                 "pushing"}

(* The local branch holds only commits of origin and unpushed commits:     *)
(* whatever both of them satisfy (membership in S), it satisfies.          *)
LEMMA LocalIn ==
    ASSUME NEW S, remote \in Seq(S), unpushed \in Seq(S),
           synced \in 0 .. Len(remote)
    PROVE  local \in Seq(S)
<1>1. SubSeq(remote, 1, synced) \in Seq(S)
  BY SubSeqProperties
<1>2. QED
  BY <1>1, ConcatProperties DEF local

-----------------------------------------------------------------------------
(* Every step keeps each variable in its type; the bound on commit ids is  *)
(* what keeps the commits of both branches in Commits.                     *)
LEMMA TypeCorrect == Spec => []TypeOK
<1> USE ConstantsAssumption DEF TypeOK
<1>1. Init => TypeOK
  <2> SUFFICES ASSUME Init PROVE TypeOK
    OBVIOUS
  <2>1. outZip \in Zips /\ json \in Zips
    BY DEF Init, Zips, NoZip, NoJson, Releases
  <2>2. remote \in Seq(Commits) /\ unpushed \in Seq(Commits)
    BY DEF Init
  <2>3. rebasing \in BOOLEAN
    BY DEF Init
  <2>4. QED
    BY <2>1, <2>2, <2>3 DEF Init, Phases, Releases
<1>2. TypeOK /\ [Next]_vars => TypeOK'
  <2> SUFFICES ASSUME TypeOK, [Next]_vars PROVE TypeOK'
    OBVIOUS
  <2>1. CASE StartRun
    BY <2>1 DEF StartRun, Phases
  <2>2. CASE EnsureGitReady
    BY <2>2 DEF EnsureGitReady, Phases
  <2>3. CASE SyncWithRemote
    BY <2>3 DEF SyncWithRemote, Phases
  <2>4. CASE CheckZip
    BY <2>4 DEF CheckZip, Phases
  <2>5. CASE PrepareSource
    BY <2>5 DEF PrepareSource, Phases
  <2>6. CASE ZipBegin
    BY <2>6 DEF ZipBegin, Phases, Zips
  <2>7. CASE ZipFinish
    BY <2>7 DEF ZipFinish, Fingerprint, Phases, Zips, NoZip
  <2>8. CASE UpdateJson
    BY <2>8 DEF UpdateJson, Phases
  <2>9. CASE StageAndCommit
    <3>1. CASE json = HeadJson(local)
      BY <2>9, <3>1 DEF StageAndCommit, Phases
    <3>2. CASE json # HeadJson(local)
      <4>1. [id |-> nextId, touches |-> TRUE, json |-> json] \in Commits
        BY <2>9, <3>2 DEF StageAndCommit, Commits, CommitIds
      <4>2. /\ nextId <= MaxCommits
            /\ unpushed' = Append(unpushed, [id |-> nextId, touches |-> TRUE,
                                             json |-> json])
            /\ nextId' = nextId + 1
            /\ pc' = "pushing"
            /\ UNCHANGED <<outcome, release, workSrc, outZip, storedHash,
                           json, remote, synced, rebasing>>
        BY <2>9, <3>2 DEF StageAndCommit
      <4>3. unpushed' \in Seq(Commits)
        BY <4>1, <4>2, AppendProperties
      <4>4. QED
        BY <4>2, <4>3 DEF Phases
    <3>3. QED
      BY <3>1, <3>2
  <2>10. CASE Push
    <3>1. local \in Seq(Commits)
      BY LocalIn
    <3>2. QED
      BY <2>10, <3>1, EmptySeq DEF Push, Phases
  <2>11. CASE SyncConflict
    BY <2>11 DEF SyncConflict, Phases
  <2>12. CASE Fail
    BY <2>12 DEF Fail, Phases
  <2>13. CASE NewRelease
    BY <2>13 DEF NewRelease, Releases
  <2>14. CASE ForeignPush
    <3>1. [id |-> nextId, touches |-> FALSE, json |-> NoJson] \in Commits
      BY <2>14 DEF ForeignPush, Commits, CommitIds, Zips, NoJson, NoZip,
                   Releases
    <3>2. QED
      BY <2>14, <3>1, AppendProperties DEF ForeignPush
  <2>15. CASE UNCHANGED vars
    BY <2>15 DEF vars
  <2>16. QED
    BY <2>1, <2>2, <2>3, <2>4, <2>5, <2>6, <2>7, <2>8, <2>9, <2>10,
       <2>11, <2>12, <2>13, <2>14, <2>15 DEF Next, Step
<1>3. QED
  BY <1>1, <1>2, PTL DEF Spec

-----------------------------------------------------------------------------
(***************************************************************************)
(* What the plain push may do.                                             *)
(***************************************************************************)
(* Past the point the local branch last synced, origin holds only other    *)
(* people's commits, and the commits only the local branch has are the     *)
(* script's own: a pull --rebase brings in all of origin, a push of ours   *)
(* hands origin the whole local branch, and only others push in between.  *)
SyncInv ==
    /\ \A i \in synced + 1 .. Len(remote) : ~remote[i].touches
    /\ \A i \in DOMAIN unpushed : unpushed[i].touches

LEMMA SyncSafe == Spec => []SyncInv
<1> USE ConstantsAssumption DEF SyncInv
<1>1. Init => SyncInv
  BY DEF Init
<1>2. TypeOK /\ SyncInv /\ [Next]_vars => SyncInv'
  <2> SUFFICES ASSUME TypeOK, SyncInv, [Next]_vars PROVE SyncInv'
    OBVIOUS
  <2>1. CASE SyncWithRemote
    BY <2>1 DEF SyncWithRemote
  <2>2. CASE StageAndCommit
    <3>1. CASE json = HeadJson(local)
      BY <2>2, <3>1 DEF StageAndCommit
    <3>2. CASE json # HeadJson(local)
      <4> DEFINE c == [id |-> nextId, touches |-> TRUE, json |-> json]
      <4>1. /\ unpushed' = Append(unpushed, c)
            /\ UNCHANGED <<remote, synced>>
        BY <2>2, <3>2 DEF StageAndCommit
      <4>2. c \in Commits
        BY <2>2, <3>2 DEF StageAndCommit, Commits, CommitIds, TypeOK
      <4>3. QED
        BY <4>1, <4>2, AppendProperties DEF TypeOK
    <3>3. QED
      BY <3>1, <3>2
  <2>3. CASE Push
    <3>1. local \in Seq(Commits)
      BY LocalIn DEF TypeOK
    <3>2. QED
      BY <2>3, <3>1, EmptySeq DEF Push
  <2>4. CASE ForeignPush
    <3> DEFINE c == [id |-> nextId, touches |-> FALSE, json |-> NoJson]
    <3>1. /\ remote' = Append(remote, c)
          /\ UNCHANGED <<synced, unpushed>>
      BY <2>4 DEF ForeignPush
    <3>2. c \in Commits
      BY <2>4 DEF ForeignPush, Commits, CommitIds, Zips, NoJson, NoZip,
                  Releases, TypeOK
    <3>3. QED
      BY <3>1, <3>2, AppendProperties DEF TypeOK
  <2>5. CASE StartRun \/ EnsureGitReady \/ CheckZip \/ PrepareSource
             \/ ZipBegin \/ ZipFinish \/ UpdateJson \/ SyncConflict \/ Fail
             \/ NewRelease \/ UNCHANGED vars
    BY <2>5 DEF StartRun, EnsureGitReady, CheckZip, PrepareSource, ZipBegin,
                ZipFinish, UpdateJson, SyncConflict, Fail, NewRelease, vars
  <2>6. QED
    BY <2>1, <2>2, <2>3, <2>4, <2>5 DEF Next, Step
<1>3. QED
  BY <1>1, <1>2, TypeCorrect, PTL DEF Spec

(* origin takes the local branch as a fast-forward only when the local     *)
(* branch has synced all of origin: a commit of origin it lacks is someone *)
(* else's and sits where the local branch has one of ours, or the local    *)
(* branch is too short.  The push then appends the unpushed commits.       *)
LEMMA FastForwardSynced ==
    ASSUME TypeOK, SyncInv, IsPrefixOf(remote, local)
    PROVE  /\ synced = Len(remote)
           /\ local = remote \o unpushed
<1> USE DEF TypeOK
<1>1. synced = Len(remote)
  <2>1. SUFFICES ASSUME synced < Len(remote) PROVE FALSE
    OBVIOUS
  <2>2. SubSeq(remote, 1, synced) \in Seq(Commits)
        /\ Len(SubSeq(remote, 1, synced)) = synced
    BY SubSeqProperties
  <2>3. Len(local) = synced + Len(unpushed)
    BY <2>2, ConcatProperties DEF local
  <2>4. Len(remote) <= Len(local) /\ SubSeq(local, 1, Len(remote)) = remote
    BY DEF IsPrefixOf
  <2>5. Len(unpushed) >= 1
    BY <2>1, <2>3, <2>4
  <2>6. local[synced + 1] = unpushed[1]
    BY <2>2, <2>5, ConcatProperties DEF local
  <2>7. local \in Seq(Commits)
    BY LocalIn
  <2>8. local[synced + 1] = remote[synced + 1]
    <3>1. SubSeq(local, 1, Len(remote))[synced + 1] = local[synced + 1]
      BY <2>1, <2>4, <2>7, SubSeqProperties
    <3>2. QED
      BY <2>4, <3>1
  <2>9. unpushed[1].touches /\ ~remote[synced + 1].touches
    BY <2>1, <2>5 DEF SyncInv
  <2>10. QED
    BY <2>6, <2>8, <2>9
<1>2. QED
  BY <1>1, SubSeqFull DEF local

-----------------------------------------------------------------------------
(* No build or push step runs while an interrupted rebase is in the        *)
(* repository, whatever the bounds: the rebase marker is only created by a *)
(* conflicting pull --rebase, which ends the run, and a run gets past      *)
(* sync_with_remote() only when no marker is left.  The invariant is       *)
(* inductive as it stands.                                                 *)
THEOREM RebaseNeverLeftBehind == Spec => []NoSyncedStepWhileRebasing
<1> USE DEF NoSyncedStepWhileRebasing
<1>1. Init => NoSyncedStepWhileRebasing
  BY DEF Init
<1>2. NoSyncedStepWhileRebasing /\ [Next]_vars => NoSyncedStepWhileRebasing'
  <2> SUFFICES ASSUME NoSyncedStepWhileRebasing, [Next]_vars
               PROVE  NoSyncedStepWhileRebasing'
    OBVIOUS
  <2>1. CASE StartRun
    BY <2>1 DEF StartRun
  <2>2. CASE EnsureGitReady
    BY <2>2 DEF EnsureGitReady
  <2>3. CASE SyncWithRemote
    BY <2>3 DEF SyncWithRemote
  <2>4. CASE CheckZip
    BY <2>4 DEF CheckZip
  <2>5. CASE PrepareSource
    BY <2>5 DEF PrepareSource
  <2>6. CASE ZipBegin
    BY <2>6 DEF ZipBegin
  <2>7. CASE ZipFinish
    BY <2>7 DEF ZipFinish
  <2>8. CASE UpdateJson
    BY <2>8 DEF UpdateJson
  <2>9. CASE StageAndCommit
    BY <2>9 DEF StageAndCommit
  <2>10. CASE Push
    BY <2>10 DEF Push
  <2>11. CASE SyncConflict
    BY <2>11 DEF SyncConflict
  <2>12. CASE Fail
    BY <2>12 DEF Fail
  <2>13. CASE NewRelease
    BY <2>13 DEF NewRelease
  <2>14. CASE ForeignPush
    BY <2>14 DEF ForeignPush
  <2>15. CASE UNCHANGED vars
    BY <2>15 DEF vars
  <2>16. QED
    BY <2>1, <2>2, <2>3, <2>4, <2>5, <2>6, <2>7, <2>8, <2>9, <2>10,
       <2>11, <2>12, <2>13, <2>14, <2>15 DEF Next, Step
<1>3. QED
  BY <1>1, <1>2, PTL DEF Spec

-----------------------------------------------------------------------------
-----------------------------------------------------------------------------
(***************************************************************************)
(* Pushed descriptors.                                                     *)
(***************************************************************************)
(* Commits whose descriptor, if they carry one, describes a complete ZIP,  *)
(* and commits that carry none (other people's).                           *)
CompleteCommits == {c \in Commits : c.touches => c.json.complete}
ForeignCommits == {c \in Commits : ~c.touches}

(* The strengthening of PushedDescriptorsComplete.  It is not inductive by *)
(* itself: StageAndCommit commits whatever `json` holds, so `json` must be *)
(* complete whenever a commit can be made, and while it is still the      *)
(* template (NoJson), no commit of the local branch carries a descriptor, *)
(* so the staged template is never a change.                               *)
DescInv ==
    (* update_json_with_zip_info() is reached only after the ZIP is closed *)
    /\ pc = "json" => outZip.complete
    /\ json.complete \/ json = NoJson
    /\ remote \in Seq(CompleteCommits)
    /\ unpushed \in Seq(CompleteCommits)
    /\ json = NoJson => /\ remote \in Seq(ForeignCommits)
                        /\ unpushed \in Seq(ForeignCommits)

(* A history without a commit that touches the descriptor has the         *)
(* template at its tip.                                                    *)
LEMMA HeadJsonForeign ==
    ASSUME NEW h \in Seq(ForeignCommits)
    PROVE  HeadJson(h) = NoJson
<1>1. \A i \in DOMAIN h : ~h[i].touches
  BY DEF ForeignCommits
<1>2. QED
  BY <1>1 DEF HeadJson

(* What git diff --cached lets through is a complete descriptor: while    *)
(* `json` is the template, no commit of the local branch carries one, so   *)
(* staging the template is no change.                                      *)
LEMMA StagedJsonComplete ==
    ASSUME TypeOK, DescInv, json # HeadJson(local)
    PROVE  json.complete
<1>1. json # NoJson
  <2>1. SUFFICES ASSUME json = NoJson PROVE FALSE
    OBVIOUS
  <2>2. local \in Seq(ForeignCommits)
    BY <2>1, LocalIn DEF DescInv, TypeOK
  <2>3. HeadJson(local) = NoJson
    BY <2>2, HeadJsonForeign
  <2>4. QED
    BY <2>1, <2>3
<1>2. QED
  BY <1>1 DEF DescInv

(* DescInv holds in every reachable state, whatever the bounds.            *)
LEMMA DescSafe == Spec => []DescInv
<1> USE ConstantsAssumption
<1>1. Init => DescInv
  BY EmptySeq DEF Init, DescInv, NoJson, NoZip
<1>2. TypeOK /\ DescInv /\ [Next]_vars => DescInv'
  <2> SUFFICES ASSUME TypeOK, DescInv, [Next]_vars PROVE DescInv'
    OBVIOUS
  <2> USE DEF DescInv
  <2>1. CASE StartRun
    BY <2>1 DEF StartRun
  <2>2. CASE EnsureGitReady
    BY <2>2 DEF EnsureGitReady
  <2>3. CASE SyncWithRemote
    BY <2>3 DEF SyncWithRemote
  <2>4. CASE CheckZip
    BY <2>4 DEF CheckZip
  <2>5. CASE PrepareSource
    BY <2>5 DEF PrepareSource
  <2>6. CASE ZipBegin
    BY <2>6 DEF ZipBegin
  <2>7. CASE ZipFinish
    BY <2>7 DEF ZipFinish
  <2>8. CASE UpdateJson
    BY <2>8 DEF UpdateJson, NoJson, NoZip
  <2>9. CASE StageAndCommit
    <3>1. CASE json = HeadJson(local)
      BY <2>9, <3>1 DEF StageAndCommit
    <3>2. CASE json # HeadJson(local)
      <4> DEFINE c == [id |-> nextId, touches |-> TRUE, json |-> json]
      <4>1. /\ nextId <= MaxCommits
            /\ unpushed' = Append(unpushed, c)
            /\ pc' = "pushing"
            /\ UNCHANGED <<outZip, json, remote>>
        BY <2>9, <3>2 DEF StageAndCommit
      <4>2. json.complete
        BY <3>2, StagedJsonComplete
      <4>3. c \in CompleteCommits
        BY <4>1, <4>2 DEF CompleteCommits, Commits, CommitIds, TypeOK
      <4>4. unpushed' \in Seq(CompleteCommits)
        BY <4>1, <4>3, AppendProperties
      <4>5. QED
        BY <4>1, <4>2, <4>4 DEF NoJson, NoZip
    <3>3. QED
      BY <3>1, <3>2
  <2>10. CASE Push
    <3>1. /\ remote' = local
          /\ unpushed' = << >>
          /\ pc' = "idle"
          /\ UNCHANGED <<outZip, json>>
      BY <2>10 DEF Push
    <3>2. remote' \in Seq(CompleteCommits)
      BY <3>1, LocalIn DEF TypeOK
    <3>3. json = NoJson => remote' \in Seq(ForeignCommits)
      BY <3>1, LocalIn DEF TypeOK
    <3>4. QED
      BY <3>1, <3>2, <3>3, EmptySeq
  <2>11. CASE SyncConflict
    BY <2>11 DEF SyncConflict
  <2>12. CASE Fail
    BY <2>12 DEF Fail
  <2>13. CASE NewRelease
    BY <2>13 DEF NewRelease
  <2>14. CASE ForeignPush
    <3> DEFINE c == [id |-> nextId, touches |-> FALSE, json |-> NoJson]
    <3>1. /\ remote' = Append(remote, c)
          /\ UNCHANGED <<pc, outZip, json, unpushed>>
      BY <2>14 DEF ForeignPush
    <3>2. c \in CompleteCommits /\ c \in ForeignCommits
      BY <2>14 DEF ForeignPush, CompleteCommits, ForeignCommits, Commits,
                   CommitIds, Zips, NoJson, NoZip, Releases, TypeOK
    <3>3. QED
      BY <3>1, <3>2, AppendProperties
  <2>15. CASE UNCHANGED vars
    BY <2>15 DEF vars
  <2>16. QED
    BY <2>1, <2>2, <2>3, <2>4, <2>5, <2>6, <2>7, <2>8, <2>9, <2>10,
       <2>11, <2>12, <2>13, <2>14, <2>15 DEF Next, Step
<1>3. QED
  BY <1>1, <1>2, TypeCorrect, PTL DEF Spec

(* Every descriptor the script has pushed to origin describes a completely *)
(* written ZIP, whatever the bounds and even when the release ZIP is       *)
(* replaced during a run or a run is cut off at any step: the checksum is  *)
(* written only after create_zip() closed the archive, and git diff        *)
(* --cached never lets the untouched template through as a change.         *)
THEOREM PushedDescriptorsSafe == Spec => []PushedDescriptorsComplete
<1>1. DescInv => PushedDescriptorsComplete
  BY DEF DescInv, PushedDescriptorsComplete, CompleteCommits, Rng
<1>2. QED
  BY <1>1, DescSafe, PTL

-----------------------------------------------------------------------------
(***************************************************************************)
(* origin's history.                                                       *)
(***************************************************************************)
(* A sequence is a prefix of itself followed by anything.                  *)
LEMMA PrefixOfConcat ==
    ASSUME NEW S, NEW s \in Seq(S), NEW t \in Seq(S)
    PROVE  IsPrefixOf(s, s \o t)
<1>1. Len(s) <= Len(s \o t)
  BY ConcatProperties
<1>2. CASE Len(s) = 0
  BY <1>2, EmptySeq, SubSeqEmpty DEF IsPrefixOf
<1>3. CASE Len(s) > 0
  <2>1. SubSeq(s \o t, 1, Len(s)) = SubSeq(s, 1, Len(s))
    BY <1>3, SubSeqOfConcat1
  <2>2. QED
    BY <1>1, <2>1, SubSeqFull DEF IsPrefixOf
<1>4. QED
  BY <1>2, <1>3

(* No step rewrites origin's history, whatever the bounds and whatever     *)
(* others push between the pull --rebase and the push: the script pushes  *)
(* without --force, so origin takes the local branch only when it extends *)
(* origin's branch, and other people's pushes append.                     *)
THEOREM RemoteOnlyExtended == Spec => RemoteNeverRewritten
<1>1. TypeOK /\ [Next]_vars => [IsPrefixOf(remote, remote')]_vars
  <2> SUFFICES ASSUME TypeOK, [Next]_vars PROVE IsPrefixOf(remote, remote')
    OBVIOUS
  <2>1. CASE Push
    BY <2>1 DEF Push
  <2>2. CASE ForeignPush
    <3> DEFINE c == [id |-> nextId, touches |-> FALSE, json |-> NoJson]
    <3>1. c \in Commits
      BY <2>2, ConstantsAssumption DEF ForeignPush, Commits, CommitIds, Zips,
                                       NoJson, NoZip, Releases, TypeOK
    <3>2. remote' = remote \o << c >>
      BY <2>2, <3>1, AppendIsConcat DEF ForeignPush, TypeOK
    <3>3. << c >> \in Seq(Commits)
      BY <3>1
    <3>4. QED
      BY <3>2, <3>3, PrefixOfConcat DEF TypeOK
  <2>3. CASE ~Push /\ ~ForeignPush
    <3>1. remote' = remote
      BY <2>3 DEF Next, Step, vars, StartRun, EnsureGitReady, SyncWithRemote,
                  CheckZip, PrepareSource, ZipBegin, ZipFinish, UpdateJson,
                  StageAndCommit, SyncConflict, Fail, NewRelease
    <3>2. remote \o << >> = remote
      BY ConcatEmptySeq DEF TypeOK
    <3>3. << >> \in Seq(Commits)
      BY EmptySeq
    <3>4. QED
      BY <3>1, <3>2, <3>3, PrefixOfConcat DEF TypeOK
  <2>4. QED
    BY <2>1, <2>2, <2>3
<1>2. QED
  BY <1>1, TypeCorrect, PTL DEF Spec, RemoteNeverRewritten

-----------------------------------------------------------------------------
(***************************************************************************)
(* The refinement: main() implements the Publish Workflow.                 *)
(***************************************************************************)
(* Each step of the script, of the user or of another pusher is a step of  *)
(* the Publish Workflow under the mapping, or leaves the mapped state      *)
(* alone.  The push needs NoSyncedStepWhileRebasing (no marker when the    *)
(* script pushes), and the commit needs DescInv (what is committed is a    *)
(* complete descriptor).                                                   *)
LEMMA WorkflowStep ==
    ASSUME TypeOK, NoSyncedStepWhileRebasing, DescInv, SyncInv, [Next]_vars
    PROVE  [Workflow!Next]_Workflow!wvars
<1> USE ConstantsAssumption
<1>1. CASE StartRun
  <2>1. Workflow!Begin
    BY <1>1 DEF StartRun, Workflow!Begin, WorkflowPhase
  <2>2. QED
    BY <2>1 DEF Workflow!Next
<1>2. CASE EnsureGitReady
  <2>1. Workflow!Clean
    BY <1>2 DEF EnsureGitReady, Workflow!Clean, WorkflowPhase
  <2>2. QED
    BY <2>1 DEF Workflow!Next
<1>3. CASE SyncWithRemote
  <2>1. Workflow!Rebase
    BY <1>3 DEF SyncWithRemote, Workflow!Rebase, WorkflowPhase
  <2>2. QED
    BY <2>1 DEF Workflow!Next
<1>4. CASE CheckZip \/ PrepareSource \/ ZipBegin \/ ZipFinish \/ UpdateJson
      \/ NewRelease
  <2>1. /\ pc \in {"check", "build", "zip", "zipping", "json"} \/ pc' = pc
        /\ pc' \in {"build", "zip", "zipping", "json", "stage"} \/ pc' = pc
        /\ UNCHANGED <<outcome, rebasing, remote, unpushed, synced>>
    BY <1>4 DEF CheckZip, PrepareSource, ZipBegin, ZipFinish, UpdateJson,
                NewRelease
  <2>2. UNCHANGED Workflow!wvars
    BY <2>1 DEF Workflow!wvars, WorkflowPhase
  <2>3. QED
    BY <2>2
<1>5. CASE StageAndCommit
  <2>1. CASE json = HeadJson(local)
    <3>1. Workflow!NoOp
      BY <1>5, <2>1 DEF StageAndCommit, Workflow!NoOp, WorkflowPhase
    <3>2. QED
      BY <3>1 DEF Workflow!Next
  <2>2. CASE json # HeadJson(local)
    <3> DEFINE c == [id |-> nextId, touches |-> TRUE, json |-> json]
    <3>1. /\ nextId <= MaxCommits
          /\ unpushed' = Append(unpushed, c)
          /\ pc' = "pushing" /\ pc = "stage"
          /\ UNCHANGED <<outcome, rebasing, remote, synced>>
      BY <1>5, <2>2 DEF StageAndCommit
    <3>2. json.complete
      BY <2>2, StagedJsonComplete
    <3>3. c \in {d \in Commits : d.touches /\ d.json.complete}
      BY <3>1, <3>2 DEF Commits, CommitIds, TypeOK
    <3>4. Workflow!Commit
      BY <3>1, <3>3 DEF Workflow!Commit, WorkflowPhase
    <3>5. QED
      BY <3>4 DEF Workflow!Next
  <2>3. QED
    BY <2>1, <2>2
<1>6. CASE Push
  <2>1. /\ pc = "pushing" /\ pc' = "idle"
        /\ remote' = local /\ synced' = Len(local) /\ unpushed' = << >>
        /\ outcome' \in {"ok", "failed"}
        /\ UNCHANGED rebasing
        /\ IsPrefixOf(remote, local)
    BY <1>6 DEF Push
  <2>5. synced = Len(remote) /\ remote' = remote \o unpushed
        /\ synced' = Len(remote')
    BY <2>1, FastForwardSynced
  <2>2. ~rebasing
    BY <2>1 DEF NoSyncedStepWhileRebasing
  <2>3. Workflow!Push
    BY <2>1, <2>2, <2>5 DEF Workflow!Push, WorkflowPhase
  <2>4. QED
    BY <2>3 DEF Workflow!Next
<1>7. CASE SyncConflict
  <2>1. Workflow!Conflict
    BY <1>7 DEF SyncConflict, Workflow!Conflict, WorkflowPhase
  <2>2. QED
    BY <2>1 DEF Workflow!Next
<1>8. CASE Fail
  <2>1. Workflow!Fail
    BY <1>8 DEF Fail, Workflow!Fail, WorkflowPhase
  <2>2. QED
    BY <2>1 DEF Workflow!Next
<1>9. CASE ForeignPush
  <2> DEFINE c == [id |-> nextId, touches |-> FALSE, json |-> NoJson]
  <2>1. /\ remote' = Append(remote, c)
        /\ UNCHANGED <<pc, outcome, rebasing, unpushed, synced>>
    BY <1>9 DEF ForeignPush
  <2>2. c \in {d \in Commits : ~d.touches}
    BY <1>9 DEF ForeignPush, Commits, CommitIds, Zips, NoJson, NoZip,
                Releases, TypeOK
  <2>3. synced' # Len(remote')
    BY <2>1 DEF TypeOK
  <2>4. Workflow!Others
    BY <2>1, <2>2, <2>3 DEF Workflow!Others, WorkflowPhase
  <2>5. QED
    BY <2>4 DEF Workflow!Next
<1>10. CASE UNCHANGED vars
  BY <1>10 DEF vars, Workflow!wvars, WorkflowPhase
<1>11. QED
  BY <1>1, <1>2, <1>3, <1>4, <1>5, <1>6, <1>7, <1>8, <1>9, <1>10
     DEF Next, Step

(* For every bound, every behaviour of main() and of the other pushers is  *)
(* a behaviour of the Publish Workflow of spec 4.5: it rebases before it   *)
(* stages, commits only complete descriptors, pushes only fast-forwards    *)
(* and never with a rebase marker, and fails on a conflict leaving the     *)
(* marker.                                                                 *)
THEOREM WorkflowRefinement == Spec => WorkflowImplemented
<1>1. Init => Workflow!Init
  BY DEF Init, Workflow!Init, WorkflowPhase
<1>2. QED
  BY <1>1, WorkflowStep, TypeCorrect, RebaseNeverLeftBehind, DescSafe,
     SyncSafe, PTL
     DEF Spec, WorkflowImplemented, Workflow!Spec
=============================================================================
