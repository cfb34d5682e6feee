-------------------------- MODULE GitPublishProofs --------------------------
(***************************************************************************)
(* Proofs about GitPublish, for every value of the bounds.                 *)
(***************************************************************************)
EXTENDS GitPublish, SequenceTheorems, TLAPS

Outcomes == [script : Scripts \cup {"none"}, result : Results]

(* The git part of the state a script run writes.                          *)
GitOK ==
    /\ origin \in Seq(Commits)
    /\ head \in Seq(Commits)
    /\ nextId \in 1 .. MaxCommits + 1
    /\ failures \in 0 .. MaxFailures
    /\ outcome \in Outcomes

(* Each edit raises one version on disk, and copying the BSP to the root   *)
(* copies a version: no path on disk is newer than the edits so far allow. *)
DiskBound == \A p \in Paths : disk[p] <= edits + 1

TypeInv == TypeOK /\ DiskBound

USE GitPublishAssumption

-----------------------------------------------------------------------------
(* git add, git add -f and git rm --cached map trees to trees.             *)
LEMMA TreeOps ==
    ASSUME NEW i \in Trees, NEW d \in Trees, NEW P, NEW g
    PROVE  /\ Added(i, P, d, g) \in Trees
           /\ ForceAdded(i, P, d) \in Trees
           /\ Unstaged(i, P) \in Trees
BY DEF Added, ForceAdded, Unstaged, Trees, Versions

(* The tree of a branch's tip is a tree.                                   *)
LEMMA TreeOfType ==
    ASSUME NEW h \in Seq(Commits)
    PROVE  TreeOf(h) \in Trees
<1>1. CASE h = << >>
  BY <1>1 DEF TreeOf, NoTree, Trees, Versions
<1>2. CASE h # << >>
  <2>1. Len(h) \in 1 .. Len(h)
    BY <1>2, EmptySeq
  <2>2. h[Len(h)] \in Commits
    BY <2>1, ElementOfSeq
  <2>3. QED
    BY <1>2, <2>2 DEF TreeOf, Tip, Commits
<1>3. QED
  BY <1>1, <1>2

(* git commit adds one commit of ours, whose tree is the index.            *)
LEMMA CommittedProps ==
    ASSUME nextId \in CommitIds, NEW i \in Trees, NEW h \in Seq(Commits)
    PROVE  /\ Committed(i, h) \in Seq(Commits)
           /\ TreeOf(Committed(i, h)) = i
           /\ Committed(i, h) = h \o << Tip(Committed(i, h)) >>
<1>1. [id |-> nextId, tree |-> i, by |-> "us"] \in Commits
  BY DEF Commits
<1>2. QED
  BY <1>1, AppendProperties, AppendIsConcat DEF Committed, TreeOf, Tip

(* Commit then push --force keeps the git part typed.                      *)
LEMMA ForcePushType ==
    ASSUME TypeOK, NEW s \in Scripts, NEW i \in Trees, NEW h \in Seq(Commits),
           CommitAndForcePush(s, i, h)
    PROVE  GitOK'
<1>0. nextId \in CommitIds
  BY DEF CommitAndForcePush, TypeOK, CommitIds
<1>1. head' \in Seq(Commits) /\ nextId' \in 1 .. MaxCommits + 1
  <2>1. Committed(i, h) \in Seq(Commits)
    BY <1>0, CommittedProps DEF TypeOK
  <2>2. QED
    BY <1>0, <2>1 DEF CommitAndForcePush, CommitIds
<1>2. PICK r \in NetResults :
        /\ origin' = ForcePushed(r, head')
        /\ CountFailure(r)
        /\ Report(s, IF r = "ok" THEN "ok" ELSE "fail")
  BY DEF CommitAndForcePush
<1>3. QED
  BY <1>1, <1>2 DEF GitOK, TypeOK, ForcePushed, CountFailure, Report,
                    NetResults, Outcomes, Results

(* Commit then plain push keeps the git part typed.                        *)
LEMMA PlainPushType ==
    ASSUME TypeOK, NEW s \in Scripts, NEW i \in Trees, CommitAndPush(s, i)
    PROVE  GitOK'
<1>0. nextId \in CommitIds
  BY DEF CommitAndPush, TypeOK, CommitIds
<1>1. head' \in Seq(Commits) /\ nextId' \in 1 .. MaxCommits + 1
  <2>1. Committed(i, head) \in Seq(Commits)
    BY <1>0, CommittedProps DEF TypeOK
  <2>2. QED
    BY <1>0, <2>1 DEF CommitAndPush, CommitIds
<1>2. PICK r \in NetResults :
        /\ origin' = IF r # "lost" /\ FastForward(head') THEN head' ELSE origin
        /\ CountFailure(r)
        /\ Report(s, IF r = "ok" /\ FastForward(head') THEN "ok" ELSE "fail")
  BY DEF CommitAndPush
<1>3. QED
  BY <1>1, <1>2 DEF GitOK, TypeOK, CountFailure, Report, NetResults,
                    Outcomes, Results

(* A refused commit only reports.                                          *)
LEMMA RefusedType ==
    ASSUME TypeOK, NEW s \in Scripts, NEW i, NEW h, CommitRefused(s, i, h),
           UNCHANGED head
    PROVE  GitOK'
BY DEF CommitRefused, GitOK, TypeOK, Report, Outcomes, Results

(* The first half of clean_and_push_simple.py and clean_and_push_correct.py *)
(* keeps the git part typed and empties the index.                         *)
LEMMA RemoveAllType ==
    ASSUME TypeOK, NEW s \in Scripts, NEW next,
           RemoveAllAndForcePush(s, next)
    PROVE  GitOK' /\ index' = NoTree
<1>1. CASE TrackedPaths(index) = {}
  <2>1. index = NoTree
    BY <1>1 DEF TrackedPaths, TypeOK, Trees, NoTree, Versions
  <2>2. QED
    BY <1>1, <2>1 DEF RemoveAllAndForcePush, GitOK, TypeOK, Report,
                      Outcomes, Results
<1>2. CASE TrackedPaths(index) # {}
  <2>1. /\ head' \in Seq(Commits)
        /\ nextId' \in 1 .. MaxCommits + 1
        /\ index' = NoTree
    <3>1. NoTree \in Trees
      BY DEF NoTree, Trees, Versions
    <3>2. nextId <= MaxCommits => nextId \in CommitIds
      BY DEF TypeOK, CommitIds
    <3>3. Committed(NoTree, head) \in Seq(Commits) \/ ~(nextId <= MaxCommits)
      BY <3>1, <3>2, CommittedProps DEF TypeOK
    <3>4. QED
      BY <1>2, <3>2, <3>3 DEF RemoveAllAndForcePush, TypeOK, CommitIds
  <2>2. PICK r \in NetResults :
          /\ origin' = ForcePushed(r, head')
          /\ CountFailure(r)
    BY <1>2 DEF RemoveAllAndForcePush
  <2>3. QED
    BY <1>2, <2>1, <2>2 DEF RemoveAllAndForcePush, GitOK, TypeOK,
                            ForcePushed, CountFailure, NetResults, Report,
                            Outcomes, Results
<1>3. QED
  BY <1>1, <1>2


(* The ways a script run ends in git: it reports without committing, its   *)
(* commit is refused, or it commits and pushes with or without --force,    *)
(* on the branch h (HEAD, or HEAD~1 after a reset).                        *)
GitStep(s, i, h) ==
    \/ /\ \E r \in Results : Report(s, r)
       /\ UNCHANGED <<origin, head, nextId, failures>>
    \/ CommitRefused(s, i, h) /\ head' \in {head, h}
    \/ CommitAndForcePush(s, i, h)
    \/ CommitAndPush(s, i)

LEMMA GitStepType ==
    ASSUME TypeOK, NEW s \in Scripts, NEW i \in Trees, NEW h \in Seq(Commits),
           GitStep(s, i, h)
    PROVE  GitOK'
<1>1. CASE \E r \in Results : Report(s, r)
             /\ UNCHANGED <<origin, head, nextId, failures>>
  BY <1>1 DEF GitOK, TypeOK, Report, Outcomes
<1>2. CASE CommitRefused(s, i, h) /\ head' \in {head, h}
  BY <1>2 DEF CommitRefused, GitOK, TypeOK, Report, Outcomes, Results
<1>3. CASE CommitAndForcePush(s, i, h)
  BY <1>3, ForcePushType
<1>4. CASE CommitAndPush(s, i)
  BY <1>4, PlainPushType
<1>5. QED
  BY <1>1, <1>2, <1>3, <1>4 DEF GitStep

(* A script step that leaves the disk and the bounds alone keeps TypeInv   *)
(* once its git part, its index, its .gitignore and its pc are typed.      *)
LEMMA RunFrame ==
    ASSUME TypeInv, GitOK', index' \in Trees, ignore' \in IgnoreStates,
           pc' \in {"idle", "simple_add", "correct_add"},
           UNCHANGED <<disk, foreign, edits, interrupts>>
    PROVE  TypeInv'
BY DEF TypeInv, TypeOK, GitOK, Outcomes, DiskBound

-----------------------------------------------------------------------------
(* The initial working copies are typed.                                   *)
LEMMA TypeInvInit == Init => TypeInv
<1> SUFFICES ASSUME Init PROVE TypeInv
  OBVIOUS
<1>1. PICK t \in InitTrees :
        /\ origin = <<[id |-> 1, tree |-> t, by |-> "us"]>>
        /\ head = origin
        /\ index = t
        /\ disk = [p \in Paths |-> IF p = "root" THEN t["root"] ELSE 1]
  BY DEF Init
<1>2. t \in Trees /\ disk \in Trees
  BY <1>1 DEF InitTrees, Trees, Versions
<1>3. [id |-> 1, tree |-> t, by |-> "us"] \in Commits
  BY <1>2 DEF Commits, CommitIds
<1>4. origin \in Seq(Commits)
  BY <1>1, <1>3
<1>5. DiskBound
  BY <1>1 DEF Init, DiskBound, InitTrees
<1>6. QED
  BY <1>1, <1>2, <1>4, <1>5 DEF Init, TypeInv, TypeOK, IgnoreStates,
                                Scripts, Results

(* Every script run, interrupt, foreign push and edit keeps the state    *)
(* typed and the disk within the edits made.                              *)
LEMMA TypeInvStep == TypeInv /\ [Next]_vars => TypeInv'
<1> SUFFICES ASSUME TypeInv, [Next]_vars PROVE TypeInv'
  OBVIOUS
<1>0. TypeOK
  BY DEF TypeInv
<1>1. CASE Run
  <2>1. CASE PushWithToken
    <3> DEFINE i == Added(index, {"bsp", "meta", "scripts"}, disk, ignore)
    <3>1. i \in Trees
      BY <1>0, TreeOps DEF TypeOK
    <3>2. /\ index' = i
          /\ UNCHANGED <<disk, ignore, pc, foreign, edits, interrupts>>
          /\ GitStep("push_with_token", i, head)
      BY <2>1 DEF PushWithToken, GitStep, Results
    <3>3. GitOK'
      BY <1>0, <3>1, <3>2, GitStepType DEF TypeOK, Scripts
    <3>4. QED
      BY <1>0, <3>1, <3>2, <3>3, RunFrame DEF TypeOK
  <2>2. CASE PushToGithub
    <3> DEFINE i == PushToGithubAdded(PushToGithubIgnore)
    <3>1. i \in Trees /\ PushToGithubIgnore \in IgnoreStates
      BY <1>0, TreeOps DEF TypeOK, PushToGithubAdded, PushToGithubIgnore,
                           IgnoreStates
    <3>2. /\ index' = i /\ ignore' = PushToGithubIgnore
          /\ UNCHANGED <<disk, pc, foreign, edits, interrupts>>
          /\ GitStep("push_to_github", i, head)
      BY <2>2 DEF PushToGithub, GitStep, Results
    <3>3. GitOK'
      BY <1>0, <3>1, <3>2, GitStepType DEF TypeOK, Scripts
    <3>4. QED
      BY <1>0, <3>1, <3>2, <3>3, RunFrame DEF TypeOK
  <2>3. CASE CompletePush
    <3> DEFINE i == CompleteAdded(CompleteIgnore)
    <3>1. i \in Trees /\ CompleteIgnore \in IgnoreStates
      BY <1>0, TreeOps DEF TypeOK, CompleteAdded, CompleteIgnore, IgnoreStates
    <3>2. /\ index' = i /\ ignore' = CompleteIgnore
          /\ UNCHANGED <<disk, pc, foreign, edits, interrupts>>
          /\ GitStep("build_nuttyfi32_complete", i, head)
      BY <2>3 DEF CompletePush, GitStep, Results
    <3>3. GitOK'
      BY <1>0, <3>1, <3>2, GitStepType DEF TypeOK, Scripts
    <3>4. QED
      BY <1>0, <3>1, <3>2, <3>3, RunFrame DEF TypeOK
  <2>4. CASE RetryPush
    <3>1. GitOK'
      BY <1>0, <2>4 DEF RetryPush, ForcePushed, CountFailure, Report,
                        NetResults, GitOK, TypeOK, Outcomes, Scripts, Results
    <3>2. QED
      BY <1>0, <2>4, <3>1, RunFrame DEF RetryPush, TypeOK
  <2>5. CASE FixTokenAndPush
    <3> DEFINE h == IF Len(head) > 1 THEN SubSeq(head, 1, Len(head) - 1)
                    ELSE head
               i == Added(index, {"scripts"}, disk, ignore)
    <3>1. h \in Seq(Commits)
      <4>1. CASE Len(head) > 1
        <5>1. \A k \in 1 .. Len(head) - 1 : head[k] \in Commits
          BY <1>0 DEF TypeOK
        <5>2. QED
          BY <1>0, <4>1, <5>1, SubSeqProperties DEF TypeOK
      <4>2. QED
        BY <1>0, <4>1 DEF TypeOK
    <3>2. i \in Trees
      BY <1>0, TreeOps DEF TypeOK
    <3>3. /\ index' = i
          /\ UNCHANGED <<disk, ignore, pc, foreign, edits, interrupts>>
          /\ GitStep("fix_token_and_push", i, h)
      BY <2>5 DEF FixTokenAndPush, GitStep
    <3>4. GitOK'
      BY <1>0, <3>1, <3>2, <3>3, GitStepType DEF TypeOK, Scripts
    <3>5. QED
      BY <1>0, <3>2, <3>3, <3>4, RunFrame DEF TypeOK
  <2>6. CASE CleanAndPushAll
    <3>1. TreeOf(head) \in Trees
      BY <1>0, TreeOfType DEF TypeOK
    <3>2. ForceAdded(TreeOf(head), {"bsp"}, disk) \in Trees
      BY <1>0, <3>1, TreeOps DEF TypeOK
    <3>3. CleanAllAdded \in Trees
      BY <1>0, <3>2, TreeOps DEF TypeOK, CleanAllAdded
    <3>4. /\ index' = CleanAllAdded
          /\ UNCHANGED <<disk, ignore, pc, foreign, edits, interrupts>>
          /\ GitStep("clean_and_push_all", CleanAllAdded, head)
      BY <2>6 DEF CleanAndPushAll, GitStep, Results
    <3>5. GitOK'
      BY <1>0, <3>3, <3>4, GitStepType DEF TypeOK, Scripts
    <3>6. QED
      BY <1>0, <3>3, <3>4, <3>5, RunFrame DEF TypeOK
  <2>7. CASE PushBspOnly \/ CleanRepoAndPushBspOnly
    <3>1. TreeOf(head) \in Trees
      BY <1>0, TreeOfType DEF TypeOK
    <3>2. /\ Unstaged(index, {"bsp"}) \in Trees
          /\ Unstaged(CleanedRepoIndex, {"bsp"}) \in Trees
      BY <1>0, <3>1, TreeOps DEF TypeOK, CleanedRepoIndex
    <3>3. /\ ForceAdded(Unstaged(index, {"bsp"}), {"bsp"}, disk) \in Trees
          /\ ForceAdded(Unstaged(CleanedRepoIndex, {"bsp"}), {"bsp"}, disk)
               \in Trees
      BY <1>0, <3>2, TreeOps DEF TypeOK
    <3>4. index' \in Trees
      BY <2>7, <3>3 DEF PushBspOnly, CleanRepoAndPushBspOnly
    <3>5. GitOK'
      BY <1>0, <2>7 DEF PushBspOnly, CleanRepoAndPushBspOnly, Report, GitOK,
                        TypeOK, Outcomes, Scripts, Results
    <3>6. QED
      BY <1>0, <2>7, <3>4, <3>5, RunFrame
         DEF PushBspOnly, CleanRepoAndPushBspOnly, TypeOK
  <2>8. CASE DeleteAllFromGithub
    <3>1. NoTree \in Trees
      BY DEF NoTree, Trees, Versions
    <3>2. /\ index' \in {index, NoTree}
          /\ UNCHANGED <<disk, ignore, pc, foreign, edits, interrupts>>
          /\ GitStep("delete_all_from_github", NoTree, head)
      BY <2>8 DEF DeleteAllFromGithub, GitStep, Results
    <3>3. GitOK'
      BY <1>0, <3>1, <3>2, GitStepType DEF TypeOK, Scripts
    <3>4. QED
      BY <1>0, <3>1, <3>2, <3>3, RunFrame DEF TypeOK
  <2>9. CASE CleanSimpleRemoveAll \/ CleanCorrectRemoveAll
    <3>1. GitOK' /\ index' = NoTree
      BY <1>0, <2>9, RemoveAllType DEF CleanSimpleRemoveAll,
                                       CleanCorrectRemoveAll, Scripts
    <3>2. NoTree \in Trees
      BY DEF NoTree, Trees, Versions
    <3>3. /\ pc' \in {"simple_add", "correct_add"}
          /\ UNCHANGED <<disk, ignore, foreign, edits, interrupts>>
      BY <2>9 DEF CleanSimpleRemoveAll, CleanCorrectRemoveAll,
                  RemoveAllAndForcePush
    <3>4. QED
      BY <1>0, <3>1, <3>2, <3>3, RunFrame DEF TypeOK
  <2>10. CASE CleanSimpleAdd
    <3> DEFINE i == ForceAdded(index, {"bsp"}, disk)
    <3>1. i \in Trees
      BY <1>0, TreeOps DEF TypeOK
    <3>2. /\ index' = i /\ pc' = "idle"
          /\ UNCHANGED <<disk, ignore, foreign, edits, interrupts>>
          /\ GitStep("clean_and_push_simple", i, head)
      BY <2>10 DEF CleanSimpleAdd, GitStep
    <3>3. GitOK'
      BY <1>0, <3>1, <3>2, GitStepType DEF TypeOK, Scripts
    <3>4. QED
      BY <1>0, <3>1, <3>2, <3>3, RunFrame DEF TypeOK
  <2>11. CASE CleanCorrectAdd
    <3> DEFINE d == [disk EXCEPT !["root"] = disk["bsp"]]
               i == ForceAdded(index, {"root", "meta"}, d)
    <3>1. d \in Trees /\ \A p \in Paths : d[p] <= edits + 1
      BY <1>0 DEF TypeInv, TypeOK, DiskBound, Trees, Paths
    <3>2. i \in Trees
      BY <1>0, <3>1, TreeOps DEF TypeOK
    <3>3. /\ disk' = d /\ index' = i /\ pc' = "idle"
          /\ UNCHANGED <<ignore, foreign, edits, interrupts>>
          /\ GitStep("clean_and_push_correct", i, head)
      BY <2>11 DEF CleanCorrectAdd, GitStep
    <3>4. GitOK'
      BY <1>0, <3>2, <3>3, GitStepType DEF TypeOK, Scripts
    <3>5. QED
      BY <1>0, <3>1, <3>2, <3>3, <3>4 DEF TypeInv, TypeOK, GitOK, Outcomes,
                                         DiskBound
  <2>12. QED
    BY <1>1, <2>1, <2>2, <2>3, <2>4, <2>5, <2>6, <2>7, <2>8, <2>9, <2>10,
       <2>11 DEF Run
<1>2. CASE Interrupt
  BY <1>0, <1>2 DEF Interrupt, Report, TypeInv, TypeOK, DiskBound, Results
<1>3. CASE ForeignPush
  <2> DEFINE c == [id |-> nextId, tree |-> TreeOf(origin), by |-> "them"]
  <2>1. TreeOf(origin) \in Trees
    BY <1>0, TreeOfType DEF TypeOK
  <2>2. c \in Commits
    BY <1>0, <1>3, <2>1 DEF ForeignPush, TypeOK, Commits, CommitIds
  <2>3. origin' \in Seq(Commits)
    BY <1>0, <1>3, <2>2, AppendProperties DEF ForeignPush, TypeOK
  <2>4. QED
    BY <1>0, <1>3, <2>3 DEF ForeignPush, TypeInv, TypeOK, DiskBound
<1>4. CASE Edit
  <2>1. PICK p \in {"bsp", "meta"} : disk' = [disk EXCEPT ![p] = @ + 1]
    BY <1>4 DEF Edit
  <2>2. edits < MaxEdits /\ edits' = edits + 1
    BY <1>4 DEF Edit
  <2>3. disk' \in Trees /\ DiskBound'
    BY <1>0, <2>1, <2>2 DEF TypeInv, TypeOK, DiskBound, Trees, Versions, Paths
  <2>4. QED
    BY <1>0, <1>4, <2>2, <2>3 DEF Edit, TypeInv, TypeOK
<1>5. CASE UNCHANGED vars
  BY <1>5 DEF vars, TypeInv, TypeOK, DiskBound
<1>6. QED
  BY <1>1, <1>2, <1>3, <1>4, <1>5 DEF Next

(* Every step keeps each variable in its type, for every bound.            *)
LEMMA TypeCorrect == Spec => []TypeOK
<1>1. TypeInv => TypeOK
  BY DEF TypeInv
<1>2. QED
  BY TypeInvInit, TypeInvStep, <1>1, PTL DEF Spec

-----------------------------------------------------------------------------
(***************************************************************************)
(* clean_and_push_simple.py and clean_and_push_correct.py.                 *)
(***************************************************************************)
(* A branch is a prefix of itself, and stays a prefix of a branch that     *)
(* grows.                                                                  *)
LEMMA PrefixRefl ==
    ASSUME NEW S, NEW s \in Seq(S)
    PROVE  IsPrefixOf(s, s)
BY SubSeqFull DEF IsPrefixOf

LEMMA PrefixExtend ==
    ASSUME NEW S, NEW s \in Seq(S), NEW t \in Seq(S), NEW u \in Seq(S),
           IsPrefixOf(s, t)
    PROVE  IsPrefixOf(s, t \o u)
<1>1. Len(s) <= Len(t \o u)
  BY ConcatProperties DEF IsPrefixOf
<1>2. CASE Len(s) = 0
  BY <1>2, EmptySeq, SubSeqEmpty DEF IsPrefixOf
<1>3. CASE Len(s) > 0
  <2>1. SubSeq(t \o u, 1, Len(s)) = SubSeq(t, 1, Len(s))
    BY <1>3, SubSeqOfConcat1 DEF IsPrefixOf
  <2>2. QED
    BY <1>1, <2>1 DEF IsPrefixOf
<1>4. QED
  BY <1>2, <1>3

(* A commit and plain push that reports success put the new commit, whose *)
(* tree is the index, on GitHub as its tip.                                *)
LEMMA PushReportedOk ==
    ASSUME TypeOK, NEW s, NEW i \in Trees, CommitAndPush(s, i),
           outcome'.result = "ok"
    PROVE  IsPrefixOf(head', origin') /\ TreeOf(head') = i
<1>1. nextId \in CommitIds
  BY DEF CommitAndPush, TypeOK, CommitIds
<1>2. head' \in Seq(Commits) /\ TreeOf(head') = i
  BY <1>1, CommittedProps DEF CommitAndPush, TypeOK
<1>3. origin' = head'
  BY DEF CommitAndPush, Report
<1>4. QED
  BY <1>2, <1>3, PrefixRefl

RepublishScripts == {"clean_and_push_simple", "clean_and_push_correct"}

(* The strengthening of RepublishDelivers.  Between the halves of the two  *)
(* scripts the index is empty (git rm -r --cached of everything, or        *)
(* nothing was tracked), and the BSP and the descriptor are on disk, so    *)
(* the second half's add -f stages exactly the promised paths.             *)
RepublishInv ==
    /\ TypeInv
    /\ pc # "idle" => index = NoTree
    /\ disk["bsp"] # 0 /\ disk["meta"] # 0
    /\ RepublishDelivers

(* When clean_and_push_simple.py or clean_and_push_correct.py exit 0, the  *)
(* commit they made is on GitHub and holds exactly the promised paths,     *)
(* for every bound: later foreign pushes only extend origin, every other   *)
(* script run replaces the report, and the second half starts from an      *)
(* empty index.                                                            *)
THEOREM RepublishSafe == Spec => []RepublishDelivers
<1>1. Init => RepublishInv
  <2> SUFFICES ASSUME Init PROVE RepublishInv
    OBVIOUS
  <2>1. TypeInv
    BY TypeInvInit
  <2>2. pc = "idle" /\ outcome.result = "none"
    BY DEF Init
  <2>3. disk["bsp"] = 1 /\ disk["meta"] = 1
    BY DEF Init, Paths
  <2>4. QED
    BY <2>1, <2>2, <2>3 DEF RepublishInv, RepublishDelivers
<1>2. RepublishInv /\ [Next]_vars => RepublishInv'
  <2> SUFFICES ASSUME RepublishInv, [Next]_vars PROVE RepublishInv'
    OBVIOUS
  <2>1. TypeInv'
    BY TypeInvStep DEF RepublishInv
  <2>2. TypeOK
    BY DEF RepublishInv, TypeInv
  (* The scripts that report under another name and stay idle.            *)
  <2>3. CASE \/ PushWithToken \/ PushToGithub \/ CompletePush \/ RetryPush
             \/ FixTokenAndPush \/ CleanAndPushAll \/ PushBspOnly
             \/ CleanRepoAndPushBspOnly \/ DeleteAllFromGithub
    <3>1. /\ outcome'.script \notin RepublishScripts
          /\ pc' = "idle" /\ disk' = disk
      BY <2>3 DEF PushWithToken, PushToGithub, CompletePush, RetryPush,
                  FixTokenAndPush, CleanAndPushAll, PushBspOnly,
                  CleanRepoAndPushBspOnly, DeleteAllFromGithub,
                  CommitRefused, CommitAndForcePush, CommitAndPush, Report,
                  RepublishScripts
    <3>2. QED
      BY <2>1, <3>1 DEF RepublishInv, RepublishDelivers, RepublishScripts
  <2>4. CASE CleanSimpleRemoveAll \/ CleanCorrectRemoveAll
    <3>1. index' = NoTree
      BY <2>2, <2>4, RemoveAllType DEF CleanSimpleRemoveAll,
                                       CleanCorrectRemoveAll, Scripts
    <3>2. outcome'.result = "none" /\ disk' = disk
      BY <2>4 DEF CleanSimpleRemoveAll, CleanCorrectRemoveAll,
                  RemoveAllAndForcePush, Report
    <3>3. QED
      BY <2>1, <3>1, <3>2 DEF RepublishInv, RepublishDelivers
  <2>5. CASE CleanSimpleAdd
    <3> DEFINE i == ForceAdded(index, {"bsp"}, disk)
    <3>1. index = NoTree /\ pc' = "idle" /\ disk' = disk
      BY <2>5 DEF CleanSimpleAdd, RepublishInv
    <3>2. i \in Trees /\ TrackedPaths(i) = {"bsp"}
      <4>1. i \in Trees
        BY <2>2, TreeOps DEF TypeOK
      <4>2. disk["bsp"] # 0
        BY DEF RepublishInv
      <4>3. \A p \in Paths : i[p] # 0 <=> p = "bsp"
        BY <3>1, <4>2 DEF ForceAdded, NoTree, Paths
      <4>4. QED
        BY <4>1, <4>3 DEF TrackedPaths, Paths
    <3>3. outcome'.script = "clean_and_push_simple"
      BY <2>5 DEF CleanSimpleAdd, CommitRefused, CommitAndPush, Report
    <3>4. outcome'.result = "ok" =>
            IsPrefixOf(head', origin') /\ TreeOf(head') = i
      <4>1. CASE CommitRefused("clean_and_push_simple", i, head)
        BY <4>1 DEF CommitRefused, Report
      <4>2. CASE CommitAndPush("clean_and_push_simple", i)
        BY <2>2, <3>2, <4>2, PushReportedOk
      <4>3. QED
        BY <2>5, <4>1, <4>2 DEF CleanSimpleAdd
    <3>5. QED
      BY <2>1, <3>1, <3>2, <3>3, <3>4 DEF RepublishInv, RepublishDelivers
  <2>6. CASE CleanCorrectAdd
    <3> DEFINE d == [disk EXCEPT !["root"] = disk["bsp"]]
               i == ForceAdded(index, {"root", "meta"}, d)
    <3>1. index = NoTree /\ pc' = "idle" /\ disk' = d
      BY <2>6 DEF CleanCorrectAdd, RepublishInv
    <3>2. d["bsp"] # 0 /\ d["meta"] # 0 /\ d["root"] # 0 /\ d \in Trees
      <4>1. disk["bsp"] # 0 /\ disk["meta"] # 0 /\ disk \in Trees
        BY <2>2 DEF RepublishInv, TypeOK
      <4>2. QED
        BY <4>1 DEF Trees, Paths
    <3>3. i \in Trees /\ TrackedPaths(i) = {"root", "meta"}
      <4>1. i \in Trees
        BY <2>2, <3>2, TreeOps DEF TypeOK
      <4>2. \A p \in Paths : i[p] # 0 <=> p \in {"root", "meta"}
        BY <3>1, <3>2 DEF ForceAdded, NoTree, Paths
      <4>3. QED
        BY <4>1, <4>2 DEF TrackedPaths, Paths
    <3>4. outcome'.script = "clean_and_push_correct"
      BY <2>6 DEF CleanCorrectAdd, CommitRefused, CommitAndPush, Report
    <3>5. outcome'.result = "ok" =>
            IsPrefixOf(head', origin') /\ TreeOf(head') = i
      <4>1. CASE CommitRefused("clean_and_push_correct", i, head)
        BY <4>1 DEF CommitRefused, Report
      <4>2. CASE CommitAndPush("clean_and_push_correct", i)
        BY <2>2, <3>3, <4>2, PushReportedOk
      <4>3. QED
        BY <2>6, <4>1, <4>2 DEF CleanCorrectAdd
    <3>6. QED
      BY <2>1, <3>1, <3>2, <3>3, <3>4, <3>5 DEF RepublishInv,
                                               RepublishDelivers
  <2>7. CASE Interrupt
    BY <2>1, <2>7 DEF Interrupt, Report, RepublishInv, RepublishDelivers
  <2>8. CASE ForeignPush
    <3> DEFINE c == [id |-> nextId, tree |-> TreeOf(origin), by |-> "them"]
    <3>0. TreeOf(origin) \in Trees
      BY <2>2, TreeOfType DEF TypeOK
    <3>1. c \in Commits
      BY <2>2, <2>8, <3>0 DEF ForeignPush, TypeOK, Commits, CommitIds
    <3>2. origin' = origin \o << c >>
      BY <2>2, <2>8, <3>1, AppendIsConcat DEF ForeignPush, TypeOK
    <3>3. IsPrefixOf(head, origin) => IsPrefixOf(head, origin')
      <4>1. << c >> \in Seq(Commits)
        BY <3>1
      <4>2. head \in Seq(Commits) /\ origin \in Seq(Commits)
        BY <2>2 DEF TypeOK
      <4>3. QED
        BY <3>2, <4>1, <4>2, PrefixExtend
    <3>4. QED
      BY <2>1, <2>8, <3>3 DEF ForeignPush, RepublishInv, RepublishDelivers
  <2>9. CASE Edit
    BY <2>1, <2>2, <2>9 DEF Edit, RepublishInv, RepublishDelivers, TypeOK,
                            Trees, Versions
  <2>10. CASE UNCHANGED vars
    BY <2>1, <2>10 DEF vars, RepublishInv, RepublishDelivers
  <2>11. QED
    BY <2>3, <2>4, <2>5, <2>6, <2>7, <2>8, <2>9, <2>10 DEF Next, Run
<1>3. RepublishInv => RepublishDelivers
  BY DEF RepublishInv
<1>4. QED
  BY <1>1, <1>2, <1>3, PTL DEF Spec
=============================================================================
