----------------------------- MODULE GitPublish -----------------------------
(***************************************************************************)
(* The stand-alone publish scripts of the repository, run one at a time by *)
(* the user against one working copy and one origin branch ("Master") that *)
(* others may push to as well:                                             *)
(*   push_with_token.py, push_to_github.py, retry_push.py,                 *)
(*   fix_token_and_push.py, clean_and_push_all.py, push_bsp_only.py,       *)
(*   clean_repo_and_push_bsp_only.py, delete_all_from_github.py,           *)
(*   clean_and_push_simple.py, clean_and_push_correct.py and the git part  *)
(*   of build_nuttyfi32_complete.py (commit_and_push_to_github).           *)
(* None of them fetches: the local branch only learns of origin through    *)
(* its own pushes.                                                         *)
(*                                                                         *)
(* Git is modelled at the level of top-level paths:                        *)
(*   "bsp"     arduino-esp32-master/                                       *)
(*   "root"    the BSP's items copied to the repository root               *)
(*   "meta"    package_nuttyfi32_index.json and the *.md files             *)
(*   "scripts" the *.py and *.bat files                                    *)
(* A tree (HEAD's, the index, the disk) maps each path to a content        *)
(* version, 0 meaning absent.  A commit is its id, its tree and who made   *)
(* it; a branch is a sequence of commits, oldest first.  .gitignore is     *)
(* modelled by what it says of arduino-esp32-master/ (variable ignore).    *)
(***************************************************************************)
EXTENDS Naturals, Sequences

CONSTANTS
    MaxCommits,     \* commit ids available (ours and foreign ones)
    MaxForeign,     \* pushes by others to origin
    MaxFailures,    \* pushes the network lets fail (timeout, 408, reset)
    MaxEdits,       \* changes to the BSP or the descriptor on disk
    MaxInterrupts   \* runs the user stops inside their first half

ASSUME GitPublishAssumption ==
    /\ MaxCommits \in Nat \ {0}
    /\ MaxForeign \in Nat
    /\ MaxFailures \in Nat
    /\ MaxEdits \in Nat
    /\ MaxInterrupts \in Nat

Paths == {"bsp", "root", "meta", "scripts"}
Versions == 0 .. MaxEdits + 1
Trees == [Paths -> Versions]
NoTree == [p \in Paths |-> 0]
CommitIds == 1 .. MaxCommits
Commits == [id : CommitIds, tree : Trees, by : {"us", "them"}]
(* What .gitignore says of arduino-esp32-master/: no file, ignored (the    *)
(* file push_to_github.py writes), or not ignored (the one                 *)
(* build_nuttyfi32_complete.py writes).                                    *)
IgnoreStates == {"none", "bsp_ignored", "bsp_allowed"}
Scripts == {"push_with_token", "push_to_github", "retry_push",
            "fix_token_and_push", "clean_and_push_all", "push_bsp_only",
            "clean_repo_and_push_bsp_only", "delete_all_from_github",
            "clean_and_push_simple", "clean_and_push_correct",
            "build_nuttyfi32_complete"}
(* What a script reports: exit 0, exit 1, or exit 1 after "No files        *)
(* staged!" (the BSP-only scripts).                                        *)
Results == {"none", "ok", "fail", "none_staged"}

Rng(s) == {s[i] : i \in DOMAIN s}
IsPrefixOf(s, t) == Len(s) <= Len(t) /\ SubSeq(t, 1, Len(s)) = s
Tip(h) == h[Len(h)]
TreeOf(h) == IF h = <<>> THEN NoTree ELSE Tip(h).tree

VARIABLES
    origin,     \* the Master branch on GitHub
    head,       \* the local Master branch
    index,      \* the staging area
    disk,       \* the working tree
    ignore,     \* what .gitignore says of arduino-esp32-master/
    pc,         \* "idle", or the second half of a two-push script
    outcome,    \* the last script run and what it reported
    nextId,     \* the next commit id
    failures,   \* pushes lost to the network so far
    foreign,    \* foreign pushes so far
    edits,      \* edits of the disk so far
    interrupts  \* runs stopped inside their first half so far

vars == <<origin, head, index, disk, ignore, pc, outcome, nextId, failures,
          foreign, edits, interrupts>>

----------------------------------------------------------------------------
(* Git, on these trees.                                                    *)

(* git add <p>... without -f, on disk d with .gitignore g: a path g       *)
(* ignores is only staged if it is already tracked (git then stages the    *)
(* tracked files' changes and exits 1, which every caller ignores).        *)
IgnoredPath(p, g) == p = "bsp" /\ g = "bsp_ignored"
Added(i, P, d, g) ==
    [p \in Paths |-> IF p \in P /\ d[p] # 0 /\ (~IgnoredPath(p, g) \/ i[p] # 0)
                     THEN d[p] ELSE i[p]]
(* git add -f <p>...                                                       *)
ForceAdded(i, P, d) == [p \in Paths |-> IF p \in P /\ d[p] # 0 THEN d[p] ELSE i[p]]
(* git rm -r --cached <p>...                                               *)
Unstaged(i, P) == [p \in Paths |-> IF p \in P THEN 0 ELSE i[p]]
(* git ls-files                                                            *)
TrackedPaths(i) == {p \in Paths : i[p] # 0}
(* git status --porcelain is not empty: a staged change, a change of a     *)
(* tracked path on disk, or an untracked path that is not ignored.         *)
Dirty(i, h, d, g) ==
    \/ i # TreeOf(h)
    \/ \E p \in Paths : d[p] # i[p] /\ ~(i[p] = 0 /\ IgnoredPath(p, g))
(* git commit succeeds iff the index differs from HEAD's tree.             *)
CanCommit(i, h) == i # TreeOf(h)
Committed(i, h) == Append(h, [id |-> nextId, tree |-> i, by |-> "us"])

(* A push reaches GitHub and is answered ("ok"), is lost (HTTP 408, a     *)
(* connection reset: origin untouched), or reaches GitHub but the answer   *)
(* comes after the subprocess timeout (TimeoutExpired: origin updated,     *)
(* the script reports a failure).  At most MaxFailures pushes fail.        *)
NetResults == IF failures < MaxFailures THEN {"ok", "lost", "late"} ELSE {"ok"}
CountFailure(r) == failures' = IF r = "ok" THEN failures ELSE failures + 1
(* git push --force: origin becomes the local branch, unless it is lost.  *)
ForcePushed(r, h) == IF r # "lost" THEN h ELSE origin
(* git push: accepted only as a fast-forward of origin.                    *)
FastForward(h) == IsPrefixOf(origin, h)

Report(s, r) == outcome' = [script |-> s, result |-> r]

(* git commit, then git push --force of the new branch.                    *)
CommitAndForcePush(s, i, h) ==
    /\ nextId <= MaxCommits
    /\ head' = Committed(i, h)
    /\ nextId' = nextId + 1
    /\ \E r \in NetResults :
          /\ origin' = ForcePushed(r, head')
          /\ CountFailure(r)
          /\ Report(s, IF r = "ok" THEN "ok" ELSE "fail")

CommitAndPushUnchecked(s, i) ==
    /\ nextId <= MaxCommits
    /\ head' = Committed(i, head)
    /\ nextId' = nextId + 1
    /\ \E r \in NetResults :
          /\ origin' = IF r # "lost" /\ FastForward(head') THEN head' ELSE origin
          /\ CountFailure(r)
          /\ Report(s, "ok")
(* git commit (check=True), then git push (check=True): rejected unless it *)
(* fast-forwards origin.                                                   *)
CommitAndPush(s, i) ==
    /\ nextId <= MaxCommits
    /\ head' = Committed(i, head)
    /\ nextId' = nextId + 1
    /\ \E r \in NetResults :
          /\ origin' = IF r # "lost" /\ FastForward(head') THEN head' ELSE origin
          /\ CountFailure(r)
          /\ Report(s, IF r = "ok" /\ FastForward(head') THEN "ok" ELSE "fail")

(* git commit with check=True and nothing staged: CalledProcessError, the  *)
(* script exits 1 with nothing committed or pushed.                        *)
CommitRefused(s, i, h) ==
    /\ ~CanCommit(i, h)
    /\ Report(s, "fail")
    /\ UNCHANGED <<origin, nextId, failures>>

----------------------------------------------------------------------------
(* The scripts.  A token is assumed to be found (a missing token makes each *)
(* script exit before it touches git) and the BSP folder to exist.         *)

(* push_with_token(): add the BSP folder (no -f) and the project files; an *)
(* empty git status returns True without pushing; otherwise commit and     *)
(* push --force.                                                           *)
PushWithToken ==
    /\ pc = "idle"
    /\ LET i == Added(index, {"bsp", "meta", "scripts"}, disk, ignore)
       IN  /\ index' = i
           /\ \/ /\ ~Dirty(i, head, disk, ignore)
                 /\ Report("push_with_token", "ok")
                 /\ UNCHANGED <<origin, head, nextId, failures>>
              \/ /\ Dirty(i, head, disk, ignore)
                 /\ CommitRefused("push_with_token", i, head)
                 /\ UNCHANGED head
              \/ /\ CanCommit(i, head)
                 /\ CommitAndForcePush("push_with_token", i, head)
    /\ UNCHANGED <<disk, ignore, pc, foreign, edits, interrupts>>

(* push_to_github.py main(): write .gitignore if there is none (it ignores *)
(* arduino-esp32-master/), add the INCLUDE_FILES and docs, commit; when    *)
(* commit_changes() fails (empty status or a refused commit) on an         *)
(* existing repository, return 0 without pushing; else push --force.       *)
PushToGithubIgnore == IF ignore = "none" THEN "bsp_ignored" ELSE ignore
PushToGithubAdded(g) == Added(index, {"meta", "scripts"}, disk, g)
PushToGithub ==
    /\ pc = "idle"
    /\ LET g == PushToGithubIgnore
           i == PushToGithubAdded(g)
       IN  /\ ignore' = g
           /\ index' = i
           /\ \/ /\ ~(Dirty(i, head, disk, g) /\ CanCommit(i, head))
                 /\ Report("push_to_github", "ok")
                 /\ UNCHANGED <<origin, head, nextId, failures>>
              \/ /\ CanCommit(i, head)
                 /\ CommitAndForcePush("push_to_github", i, head)
    /\ UNCHANGED <<disk, pc, foreign, edits, interrupts>>

(* build_nuttyfi32_complete.py commit_and_push_to_github(): overwrite      *)
(* .gitignore (it no longer ignores the BSP), add the BSP (no -f) and the  *)
(* project files; an empty status is "No changes to commit" (False),       *)
(* otherwise commit and push --force.                                      *)
CompleteIgnore == "bsp_allowed"
CompleteAdded(g) == Added(index, {"bsp", "meta", "scripts"}, disk, g)
CompletePush ==
    /\ pc = "idle"
    /\ LET g == CompleteIgnore
           i == CompleteAdded(g)
       IN  /\ ignore' = g
           /\ index' = i
           /\ \/ /\ ~Dirty(i, head, disk, g)
                 /\ Report("build_nuttyfi32_complete", "fail")
                 /\ UNCHANGED <<origin, head, nextId, failures>>
              \/ /\ Dirty(i, head, disk, g)
                 /\ CommitRefused("build_nuttyfi32_complete", i, head)
                 /\ UNCHANGED head
              \/ /\ CanCommit(i, head)
                 /\ CommitAndForcePush("build_nuttyfi32_complete", i, head)
    /\ UNCHANGED <<disk, pc, foreign, edits, interrupts>>

RetryPushPlain ==
    /\ pc = "idle"
    /\ \E r \in NetResults :
          /\ origin' = IF r # "lost" /\ FastForward(head) THEN head ELSE origin
          /\ CountFailure(r)
          /\ Report("retry_push", IF r = "ok" /\ FastForward(head) THEN "ok" ELSE "fail")
    /\ UNCHANGED <<head, index, disk, ignore, pc, nextId, foreign, edits, interrupts>>
(* retry_push(): push --force whatever the local branch holds.             *)
RetryPush ==
    /\ pc = "idle"
    /\ \E r \in NetResults :
          /\ origin' = ForcePushed(r, head)
          /\ CountFailure(r)
          /\ Report("retry_push", IF r = "ok" THEN "ok" ELSE "fail")
    /\ UNCHANGED <<head, index, disk, ignore, pc, nextId, foreign, edits, interrupts>>

(* fix_token_and_push.py: git reset --soft HEAD~1 (fails, ignored, on a    *)
(* branch of one commit), add the scripts, commit with check=True, push    *)
(* --force.                                                                *)
FixTokenAndPush ==
    /\ pc = "idle"
    /\ LET h == IF Len(head) > 1 THEN SubSeq(head, 1, Len(head) - 1) ELSE head
           i == Added(index, {"scripts"}, disk, ignore)
       IN  /\ index' = i
           /\ \/ /\ CommitRefused("fix_token_and_push", i, h)
                 /\ head' = h
              \/ /\ CanCommit(i, h)
                 /\ CommitAndForcePush("fix_token_and_push", i, h)
    /\ UNCHANGED <<disk, ignore, pc, foreign, edits, interrupts>>

(* clean_and_push_all.py: git rm -r --cached . then git reset (the index   *)
(* is HEAD's tree again), add .gitignore, add -f the BSP, add the project  *)
(* files; an empty status returns False; commit (check=True), push         *)
(* --force.                                                                *)
CleanAllAdded ==
    Added(ForceAdded(TreeOf(head), {"bsp"}, disk), {"meta", "scripts"}, disk, ignore)
CleanAndPushAll ==
    /\ pc = "idle"
    /\ LET i == CleanAllAdded
       IN  /\ index' = i
           /\ \/ /\ ~Dirty(i, head, disk, ignore)
                 /\ Report("clean_and_push_all", "fail")
                 /\ UNCHANGED <<origin, head, nextId, failures>>
              \/ /\ Dirty(i, head, disk, ignore)
                 /\ CommitRefused("clean_and_push_all", i, head)
                 /\ UNCHANGED head
              \/ /\ CanCommit(i, head)
                 /\ CommitAndForcePush("clean_and_push_all", i, head)
    /\ UNCHANGED <<disk, ignore, pc, foreign, edits, interrupts>>

(* push_bsp_only(): git rm -r --cached the BSP, git add -f it, then ask    *)
(* git status --porcelain --cached for what is staged.  git has no         *)
(* --cached option for status: it exits 129 with nothing on stdout, so the *)
(* script always prints "No files staged!" and returns False; its commit   *)
(* and push are never reached.                                             *)
PushBspOnly ==
    /\ pc = "idle"
    /\ index' = ForceAdded(Unstaged(index, {"bsp"}), {"bsp"}, disk)
    /\ Report("push_bsp_only", "none_staged")
    /\ UNCHANGED <<origin, head, disk, ignore, pc, nextId, failures, foreign,
                   edits, interrupts>>

(* clean_repo_and_push_bsp_only.py: clean_repo_completely() runs git rm    *)
(* --cached on every tracked file and then git reset, which stages them    *)
(* all again, so no "D " line is left to commit; push_only_bsp() then      *)
(* stages the BSP like push_bsp_only() and stops on the same empty         *)
(* git status --porcelain --cached.                                        *)
(* clean_repo_completely(): the index after git rm --cached of each file   *)
(* and git reset is HEAD's tree; with no staged deletion it commits        *)
(* nothing.                                                                *)
CleanedRepoIndex == TreeOf(head)
CleanRepoAndPushBspOnly ==
    /\ pc = "idle"
    /\ index' = ForceAdded(Unstaged(CleanedRepoIndex, {"bsp"}), {"bsp"}, disk)
    /\ Report("clean_repo_and_push_bsp_only", "none_staged")
    /\ UNCHANGED <<origin, head, disk, ignore, pc, nextId, failures, foreign,
                   edits, interrupts>>

(* delete_all_from_github.py: nothing tracked is "already empty" (True);   *)
(* otherwise git rm -r --cached every tracked file, commit (check=True),   *)
(* push --force.                                                           *)
DeleteAllFromGithub ==
    /\ pc = "idle"
    /\ \/ /\ TrackedPaths(index) = {}
          /\ Report("delete_all_from_github", "ok")
          /\ UNCHANGED <<origin, head, index, nextId, failures>>
       \/ /\ TrackedPaths(index) # {}
          /\ index' = NoTree
          /\ \/ /\ CommitRefused("delete_all_from_github", NoTree, head)
                /\ UNCHANGED head
             \/ /\ CanCommit(NoTree, head)
                /\ CommitAndForcePush("delete_all_from_github", NoTree, head)
    /\ UNCHANGED <<disk, ignore, pc, foreign, edits, interrupts>>

RemoveAllAndPlainPush(s, next) ==
    /\ pc = "idle"
    /\ pc' = next
    /\ Report(s, "none")
    /\ \/ /\ TrackedPaths(index) = {}
          /\ UNCHANGED <<origin, head, index, nextId, failures>>
       \/ /\ TrackedPaths(index) # {}
          /\ index' = NoTree
          /\ \/ /\ ~CanCommit(NoTree, head)
                /\ UNCHANGED <<head, nextId>>
             \/ /\ CanCommit(NoTree, head)
                /\ nextId <= MaxCommits
                /\ head' = Committed(NoTree, head)
                /\ nextId' = nextId + 1
          /\ \E r \in NetResults :
                /\ origin' = IF r # "lost" /\ FastForward(head') THEN head' ELSE origin
                /\ CountFailure(r)
    /\ UNCHANGED <<disk, ignore, foreign, edits, interrupts>>
(* The first half of clean_and_push_simple.py and clean_and_push_correct.py: *)
(* git rm -r --cached every tracked file, commit "Remove all files" and    *)
(* push --force, both with check=False (a refused commit or a failed push  *)
(* goes unnoticed), then go on to the second half; the script has not    *)
(* reported yet.                                                           *)
RemoveAllAndForcePush(s, next) ==
    /\ pc = "idle"
    /\ pc' = next
    /\ Report(s, "none")
    /\ \/ /\ TrackedPaths(index) = {}
          /\ UNCHANGED <<origin, head, index, nextId, failures>>
       \/ /\ TrackedPaths(index) # {}
          /\ index' = NoTree
          /\ \/ /\ ~CanCommit(NoTree, head)
                /\ UNCHANGED <<head, nextId>>
             \/ /\ CanCommit(NoTree, head)
                /\ nextId <= MaxCommits
                /\ head' = Committed(NoTree, head)
                /\ nextId' = nextId + 1
          /\ \E r \in NetResults :
                /\ origin' = ForcePushed(r, head')
                /\ CountFailure(r)
    /\ UNCHANGED <<disk, ignore, foreign, edits, interrupts>>

CleanSimpleRemoveAll == RemoveAllAndForcePush("clean_and_push_simple", "simple_add")
CleanCorrectRemoveAll == RemoveAllAndForcePush("clean_and_push_correct", "correct_add")

(* clean_and_push_simple.py, second half: git add -f the BSP (check=True), *)
(* commit (check=True), plain push.                                        *)
CleanSimpleAdd ==
    /\ pc = "simple_add"
    /\ pc' = "idle"
    /\ LET i == ForceAdded(index, {"bsp"}, disk)
       IN  /\ index' = i
           /\ \/ /\ CommitRefused("clean_and_push_simple", i, head)
                 /\ UNCHANGED head
              \/ /\ CanCommit(i, head)
                 /\ CommitAndPush("clean_and_push_simple", i)
    /\ UNCHANGED <<disk, ignore, foreign, edits, interrupts>>

CleanCorrectAddKeepsBsp ==
    /\ pc = "correct_add"
    /\ pc' = "idle"
    /\ LET d == [disk EXCEPT !["root"] = disk["bsp"]]
           i == ForceAdded(index, {"root", "meta", "bsp"}, d)
       IN  /\ disk' = d
           /\ index' = i
           /\ \/ /\ CommitRefused("clean_and_push_correct", i, head)
                 /\ UNCHANGED head
              \/ /\ CanCommit(i, head)
                 /\ CommitAndPush("clean_and_push_correct", i)
    /\ UNCHANGED <<ignore, foreign, edits, interrupts>>
(* clean_and_push_correct.py, second half: copy every non-hidden item of   *)
(* the BSP to the repository root (replacing what is there), git add -f    *)
(* every root item except arduino-esp32-master, hidden names and *.bat,    *)
(* *.py, *.zip; commit (check=True), plain push.                           *)
CleanCorrectAdd ==
    /\ pc = "correct_add"
    /\ pc' = "idle"
    /\ LET d == [disk EXCEPT !["root"] = disk["bsp"]]
           i == ForceAdded(index, {"root", "meta"}, d)
       IN  /\ disk' = d
           /\ index' = i
           /\ \/ /\ CommitRefused("clean_and_push_correct", i, head)
                 /\ UNCHANGED head
              \/ /\ CanCommit(i, head)
                 /\ CommitAndPush("clean_and_push_correct", i)
    /\ UNCHANGED <<ignore, foreign, edits, interrupts>>

(* The user stops a two-push script between its halves (Ctrl-C, or the    *)
(* add -f raising): the exception handler of __main__ exits 1.            *)
Interrupt ==
    /\ pc # "idle"
    /\ pc' = "idle"
    /\ Report(outcome.script, "fail")
    /\ UNCHANGED <<origin, head, index, disk, ignore, nextId, failures,
                   foreign, edits, interrupts>>

(* The user stops a two-push script inside its first half, after git rm    *)
(* -r --cached has emptied the index and before the commit: HEAD and       *)
(* origin are untouched, __main__ exits 1.  A later run finds nothing      *)
(* tracked, skips the delete, and may find its add -f changes nothing.     *)
RemoveAllInterrupted(s) ==
    /\ pc = "idle"
    /\ interrupts < MaxInterrupts
    /\ TrackedPaths(index) # {}
    /\ index' = NoTree
    /\ interrupts' = interrupts + 1
    /\ Report(s, "fail")
    /\ UNCHANGED <<origin, head, disk, ignore, pc, nextId, failures, foreign,
                   edits>>

----------------------------------------------------------------------------
(* The environment.                                                      *)

(* Someone else pushes to Master (another clone, an edit on GitHub); what *)
(* the commit changes is abstracted away, only that it is theirs matters.  *)
ForeignPush ==
    /\ foreign < MaxForeign
    /\ nextId <= MaxCommits
    /\ origin' = Append(origin, [id |-> nextId, tree |-> TreeOf(origin),
                                 by |-> "them"])
    /\ nextId' = nextId + 1
    /\ foreign' = foreign + 1
    /\ UNCHANGED <<head, index, disk, ignore, pc, outcome, failures, edits, interrupts>>

(* A build between two publish runs changes the BSP (boards.txt) or the    *)
(* descriptor on disk.                                                     *)
Edit ==
    /\ pc = "idle"
    /\ edits < MaxEdits
    /\ \E p \in {"bsp", "meta"} : disk' = [disk EXCEPT ![p] = @ + 1]
    /\ edits' = edits + 1
    /\ UNCHANGED <<origin, head, index, ignore, pc, outcome, nextId, failures,
                   foreign, interrupts>>

----------------------------------------------------------------------------
TypeOK ==
    /\ origin \in Seq(Commits)
    /\ head \in Seq(Commits)
    /\ index \in Trees
    /\ disk \in Trees
    /\ ignore \in IgnoreStates
    /\ pc \in {"idle", "simple_add", "correct_add"}
    /\ outcome \in [script : Scripts \cup {"none"}, result : Results]
    /\ nextId \in 1 .. MaxCommits + 1
    /\ failures \in 0 .. MaxFailures
    /\ foreign \in 0 .. MaxForeign
    /\ edits \in 0 .. MaxEdits
    /\ interrupts \in 0 .. MaxInterrupts

(* The working copy as the scripts find it: in step with origin, the BSP   *)
(* tracked in arduino-esp32-master/ or (after clean_and_push_correct) at   *)
(* the root, with any .gitignore.                                          *)
InitTrees ==
    {[p \in Paths |-> IF p = "root" THEN 0 ELSE 1],
     [p \in Paths |-> IF p = "bsp" THEN 0 ELSE 1]}

Init ==
    /\ \E t \in InitTrees :
          /\ origin = <<[id |-> 1, tree |-> t, by |-> "us"]>>
          /\ head = origin
          /\ index = t
          /\ disk = [p \in Paths |-> IF p = "root" THEN t["root"] ELSE 1]
    /\ ignore \in IgnoreStates
    /\ pc = "idle"
    /\ outcome = [script |-> "none", result |-> "none"]
    /\ nextId = 2
    /\ failures = 0
    /\ foreign = 0
    /\ edits = 0
    /\ interrupts = 0

Run ==
    \/ PushWithToken \/ PushToGithub \/ CompletePush \/ RetryPush
    \/ FixTokenAndPush \/ CleanAndPushAll \/ PushBspOnly
    \/ CleanRepoAndPushBspOnly \/ DeleteAllFromGithub
    \/ CleanSimpleRemoveAll \/ CleanSimpleAdd
    \/ CleanCorrectRemoveAll \/ CleanCorrectAdd

(* RemoveAllInterrupted is a step of the re-run specification only (see  *)
(* MCGitPublishRerun): it is the failed run that the user then re-runs.    *)
Next == Run \/ Interrupt \/ ForeignPush \/ Edit

Spec == Init /\ [][Next]_vars

----------------------------------------------------------------------------
(* The scripts that only add a commit on top of the branch: the spec (6)  *)
(* keeps force-push for rewriting history on purpose (bulk delete and     *)
(* republish, fixing the last commit).                                     *)
ExtendingScripts ==
    {"push_with_token", "push_to_github", "retry_push", "clean_and_push_all",
     "push_bsp_only", "clean_repo_and_push_bsp_only",
     "build_nuttyfi32_complete"}

(* A script that only extends history never takes a commit off origin: a  *)
(* commit someone else pushed since our last push survives our push (spec *)
(* 3, RemoteRepositoryState: local is rebased onto the remote tip first;  *)
(* spec 6: ordinary push unless history is being replaced).  Broken by    *)
(* every git push --force of these scripts, none of which fetches.        *)
ExtendingPushKeepsOrigin ==
    [][outcome'.script \in ExtendingScripts => IsPrefixOf(origin, origin')]_vars

(* When push_bsp_only.py or clean_repo_and_push_bsp_only.py report "No    *)
(* files staged!", nothing is staged: the index is HEAD's tree.  Broken   *)
(* by their git status --porcelain --cached, which always prints nothing. *)
StagedReportedTruthfully ==
    outcome.result = "none_staged" => index = TreeOf(head)

(* When clean_and_push_simple.py or clean_and_push_correct.py exit 0, the *)
(* commit they made is on GitHub and holds exactly what their docstrings  *)
(* promise: the arduino-esp32-master/ folder alone (simple), the BSP's    *)
(* items at the root with the descriptor and docs and without the folder  *)
(* or the scripts (correct); a foreign push between the delete push and   *)
(* the republish push, a lost push or an interrupt never lets either one  *)
(* report success on a partial result.                                     *)
RepublishDelivers ==
    outcome.result = "ok" /\
    outcome.script \in {"clean_and_push_simple", "clean_and_push_correct"}
        => /\ IsPrefixOf(head, origin)
           /\ TrackedPaths(TreeOf(head)) =
                 IF outcome.script = "clean_and_push_simple"
                 THEN {"bsp"} ELSE {"root", "meta"}

----------------------------------------------------------------------------
(* The user re-runs script A for as long as it reports failure (spec 5 and *)
(* 7: after a timeout "callers are expected to re-run"), and stops at the  *)
(* first exit 0; others may still push.  The network loses at most         *)
(* MaxFailures pushes, so a re-run whose push is attempted eventually gets *)
(* through.                                                                *)
(* MCGitPublish states the specification for each choice of A.           *)
Rerun(A) == outcome.result # "ok" /\ A

(* Re-running after a failure converges: the script eventually reports    *)
(* success and from then on everything committed locally is on GitHub.   *)
RetryConverges == <>[](outcome.result = "ok" /\ IsPrefixOf(head, origin))

=============================================================================
