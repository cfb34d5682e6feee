-------------------------- MODULE AutoBuildPublish --------------------------
(***************************************************************************)
(* The fully automated build-and-publish run of                            *)
(* src/build_nuttyfi32_complete_auto_final.py: one call of main() is a     *)
(* run, and a run is a sequence of steps, each of which may raise (or be   *)
(* interrupted) and end the run with whatever it has already written left  *)
(* on disk.  State that persists between runs: the release ZIP the build   *)
(* reads, the output ZIP, the .zip_hash fingerprint file, the package JSON *)
(* descriptor, and the local and remote git branches.                      *)
(*                                                                         *)
(* Data is abstracted to what the properties tell apart: a release ZIP is  *)
(* a version number (0 when RELEASE_ZIP does not exist), the fingerprint   *)
(* of a release ZIP is its version, an output ZIP is the source it was     *)
(* built from and whether it was completely written, the descriptor's      *)
(* checksum and size are the output ZIP they were computed from, and a     *)
(* commit is an id and the descriptor it carries.                          *)
(***************************************************************************)
EXTENDS Naturals, Sequences

CONSTANTS
    MaxRelease,     \* release ZIP versions the user may drop in: 1..MaxRelease
    MaxCommits,     \* bound on commit ids (ours and other people's)
    EditDuringRun   \* may the release ZIP be replaced while a run is going?

ASSUME ConstantsAssumption ==
    /\ MaxRelease \in Nat \ {0}
    /\ MaxCommits \in Nat \ {0}
    /\ EditDuringRun \in BOOLEAN

VARIABLES
    pc,          \* where main() is; "idle" between runs
    outcome,     \* how the last run ended: "none", "ok" or "failed"
    release,     \* version of RELEASE_ZIP on disk, 0 if absent
    workSrc,     \* what prepare_bsp_source() put in TEMP_DIR (0 = BSP folder)
    outZip,      \* OUTPUT_ZIP on disk
    storedHash,  \* content of .zip_hash, 0 if the file does not exist
    json,        \* the descriptor's checksum/size: the ZIP they describe
    remote,      \* origin's branch: sequence of commits
    synced,      \* local branch = the first synced commits of origin ...
    unpushed,    \* ... followed by these commits of ours
    rebasing,    \* .git/rebase-apply or .git/rebase-merge exists
    nextId       \* next fresh commit id

vars == <<pc, outcome, release, workSrc, outZip, storedHash, json,
          remote, synced, unpushed, rebasing, nextId>>

Releases == 0 .. MaxRelease
NoZip == [from |-> 0, complete |-> FALSE, exists |-> FALSE]
Zips == [from : Releases, complete : BOOLEAN, exists : {TRUE}] \cup {NoZip}
NoJson == NoZip                   \* no descriptor yet: only the template
CommitIds == 1 .. MaxCommits
(* A commit made by the script carries the descriptor it staged; a commit  *)
(* pushed by someone else leaves the descriptor alone (touches = FALSE).   *)
Commits == [id : CommitIds, touches : BOOLEAN, json : Zips]
Phases == {"idle", "ready", "sync", "check", "build", "zip", "zipping",
           "json", "stage", "pushing"}

TypeOK ==
    /\ pc \in Phases
    /\ outcome \in {"none", "ok", "failed"}
    /\ release \in Releases
    /\ workSrc \in Releases
    /\ outZip \in Zips
    /\ storedHash \in Releases
    /\ json \in Zips
    /\ remote \in Seq(Commits)
    /\ synced \in 0 .. Len(remote)
    /\ unpushed \in Seq(Commits)
    /\ rebasing \in BOOLEAN
    /\ nextId \in 1 .. MaxCommits + 1

-----------------------------------------------------------------------------
(* Helpers on commit sequences.                                            *)
Rng(s) == {s[i] : i \in DOMAIN s}
IsPrefixOf(s, t) == Len(s) <= Len(t) /\ SubSeq(t, 1, Len(s)) = s
(* The local branch: the commits of origin it had at its last successful  *)
(* pull --rebase, followed by the commits of ours that origin lacks.       *)
local == SubSeq(remote, 1, synced) \o unpushed
(* The descriptor in the tree of the tip of history h.                     *)
HeadJson(h) ==
    LET T == {i \in DOMAIN h : h[i].touches}
    IN  IF T = {} THEN NoJson
        ELSE h[CHOOSE i \in T : \A j \in T : j <= i].json

(* calculate_zip_hash(RELEASE_ZIP): None when the file does not exist,     *)
(* otherwise a digest of its (name, size, crc) entries; two release ZIPs   *)
(* have the same digest exactly when they have the same version here.     *)
Fingerprint(r) == r

(* check_if_zip_needs_update()                                             *)
NeedsUpdate ==
    \/ ~outZip.exists
    \/ release = 0                          \* rebuild from the local folder
    \/ storedHash # Fingerprint(release)    \* no stored hash, or it differs

-----------------------------------------------------------------------------
Init ==
    /\ pc = "idle"
    /\ outcome = "none"
    /\ release \in {0, 1}
    /\ workSrc = 0
    /\ outZip = NoZip
    /\ storedHash = 0
    /\ json = NoJson
    /\ remote = <<>>
    /\ synced = 0
    /\ unpushed = <<>>
    /\ rebasing = FALSE
    /\ nextId = 1

(* main(): the user starts the script; TEMP_DIR is recreated.              *)
StartRun ==
    /\ pc = "idle"
    /\ pc' = "ready"
    /\ UNCHANGED <<outcome, release, workSrc, outZip, storedHash, json,
                   remote, synced, unpushed, rebasing, nextId>>

(* ensure_git_ready(): abort a half-done rebase; the abort is run with     *)
(* allow_failure=True, so a failed abort leaves the marker in place.       *)
EnsureGitReady ==
    /\ pc = "ready"
    /\ pc' = "sync"
    /\ \/ rebasing /\ rebasing' = FALSE     \* git rebase --abort succeeds
       \/ UNCHANGED rebasing                \* no marker, or the abort failed
    /\ UNCHANGED <<outcome, release, workSrc, outZip, storedHash, json,
                   remote, synced, unpushed, nextId>>

(* Mutant: the result of git pull --rebase is ignored (allow_failure      *)
(* without the returncode check), so the run goes on mid-rebase.           *)
SyncConflictSwallowed ==
    /\ pc = "sync"
    /\ ~rebasing
    /\ unpushed # <<>>                    \* local has commits origin lacks
    /\ synced < Len(remote)               \* origin has commits local lacks
    /\ rebasing' = TRUE
    /\ pc' = "check"
    /\ UNCHANGED <<outcome, release, workSrc, outZip, storedHash, json,
                   remote, synced, unpushed, nextId>>

(* Mutant: only git fetch, without the pull --rebase that moves the local *)
(* branch onto origin.                                                     *)
SyncFetchOnly ==
    /\ pc = "sync"
    /\ ~rebasing
    /\ pc' = "check"
    /\ UNCHANGED <<outcome, release, workSrc, outZip, storedHash, json,
                   remote, synced, unpushed, rebasing, nextId>>

(* sync_with_remote(): git fetch, then git pull --rebase.  A successful    *)
(* rebase replays the unpushed local commits on top of origin.             *)
SyncWithRemote ==
    /\ pc = "sync"
    /\ ~rebasing
    /\ synced' = Len(remote)
    /\ pc' = "check"
    /\ UNCHANGED <<outcome, release, workSrc, outZip, storedHash, json,
                   remote, unpushed, rebasing, nextId>>

(* git pull --rebase stops on a conflict between unpushed local commits    *)
(* and new commits of origin: the rebase marker stays and the function     *)
(* raises RuntimeError, which ends the run.                                *)
SyncConflict ==
    /\ pc = "sync"
    /\ ~rebasing
    /\ unpushed # <<>>                    \* local has commits origin lacks
    /\ synced < Len(remote)               \* origin has commits local lacks
    /\ rebasing' = TRUE
    /\ pc' = "idle"
    /\ outcome' = "failed"
    /\ UNCHANGED <<release, workSrc, outZip, storedHash, json,
                   remote, synced, unpushed, nextId>>

(* Task 2: decide whether the ZIP must be rebuilt; if not, go straight to  *)
(* the push task.                                                          *)
CheckZip ==
    /\ pc = "check"
    /\ pc' = IF NeedsUpdate THEN "build" ELSE "stage"
    /\ UNCHANGED <<outcome, release, workSrc, outZip, storedHash, json,
                   remote, synced, unpushed, rebasing, nextId>>

(* Tasks 3 and 4: delete_old_zips() (never OUTPUT_ZIP), then               *)
(* prepare_bsp_source() extracts the release ZIP, or copies the local BSP  *)
(* folder when there is none, and rename_esp32_to_nuttyfi32() edits it.    *)
PrepareSource ==
    /\ pc = "build"
    /\ workSrc' = release
    /\ pc' = "zip"
    /\ UNCHANGED <<outcome, release, outZip, storedHash, json,
                   remote, synced, unpushed, rebasing, nextId>>

(* Mutant: the JSON is updated inside the "with ZipFile" block, before the *)
(* archive is closed.                                                      *)
ZipBeginJsonInside ==
    /\ pc = "zip"
    /\ outZip' = [from |-> workSrc, complete |-> FALSE, exists |-> TRUE]
    /\ pc' = "json"
    /\ UNCHANGED <<outcome, release, workSrc, storedHash, json,
                   remote, synced, unpushed, rebasing, nextId>>

(* create_zip(), first half: the old OUTPUT_ZIP is unlinked and the new    *)
(* one opened and written entry by entry.                                  *)
ZipBegin ==
    /\ pc = "zip"
    /\ outZip' = [from |-> workSrc, complete |-> FALSE, exists |-> TRUE]
    /\ pc' = "zipping"
    /\ UNCHANGED <<outcome, release, workSrc, storedHash, json,
                   remote, synced, unpushed, rebasing, nextId>>

(* create_zip(), second half: the ZIP is closed, then the fingerprint of   *)
(* RELEASE_ZIP as it is now is written to .zip_hash (if it exists).        *)
ZipFinish ==
    /\ pc = "zipping"
    /\ outZip' = [from |-> workSrc, complete |-> TRUE, exists |-> TRUE]
    /\ storedHash' = IF release # 0 THEN Fingerprint(release) ELSE storedHash
    /\ pc' = "json"
    /\ UNCHANGED <<outcome, release, workSrc, json, remote, synced,
                   unpushed, rebasing, nextId>>

(* update_json_with_zip_info(): checksum and size of OUTPUT_ZIP into       *)
(* packages[0].platforms[0], written to JSON_OUTPUT.                       *)
UpdateJson ==
    /\ pc = "json"
    /\ outZip.exists
    /\ json' = outZip
    /\ pc' = "stage"
    /\ UNCHANGED <<outcome, release, workSrc, outZip, storedHash,
                   remote, synced, unpushed, rebasing, nextId>>

(* push_bsp_to_github() up to the commit: the BSP files and JSON_OUTPUT    *)
(* are added; if git diff --cached is empty the function returns and the  *)
(* run succeeds without committing or pushing, otherwise it commits.       *)
StageAndCommit ==
    /\ pc = "stage"
    /\ IF json = HeadJson(local)
         THEN /\ pc' = "idle"
              /\ outcome' = "ok"
              /\ UNCHANGED <<unpushed, nextId>>
         ELSE /\ nextId <= MaxCommits
              /\ unpushed' = Append(unpushed, [id |-> nextId, touches |-> TRUE,
                                         json |-> json])
              /\ nextId' = nextId + 1
              /\ pc' = "pushing"
              /\ UNCHANGED outcome
    /\ UNCHANGED <<release, workSrc, outZip, storedHash, json, remote,
                   synced, rebasing>>

(* Mutant: git push --force, as the other publish scripts do.             *)
PushForce ==
    /\ pc = "pushing"
    /\ remote' = local
    /\ synced' = Len(local)
    /\ unpushed' = <<>>
    /\ pc' = "idle"
    /\ outcome' \in {"ok", "failed"}
    /\ UNCHANGED <<release, workSrc, outZip, storedHash, json,
                   rebasing, nextId>>

(* git push origin Master (no --force) sends the local branch, and origin  *)
(* takes it only as a fast-forward: when origin's branch is a prefix of   *)
(* it.  A rejected push raises (check) and ends the run through Fail.     *)
(* The push may also be accepted by origin and still time out locally      *)
(* (timeout=1800 raises TimeoutExpired): the run then ends as failed.      *)
Push ==
    /\ pc = "pushing"
    /\ IsPrefixOf(remote, local)
    /\ remote' = local
    /\ synced' = Len(local)
    /\ unpushed' = <<>>
    /\ pc' = "idle"
    /\ outcome' \in {"ok", "failed"}
    /\ UNCHANGED <<release, workSrc, outZip, storedHash, json,
                   rebasing, nextId>>

(* Any step may raise (missing file, git error, rejected or timed-out      *)
(* push, missing token) or be interrupted; main() catches the exception,   *)
(* removes TEMP_DIR and ends the run; everything already written stays.    *)
Fail ==
    /\ pc # "idle"
    /\ pc' = "idle"
    /\ outcome' = "failed"
    /\ UNCHANGED <<release, workSrc, outZip, storedHash, json, remote,
                   synced, unpushed, rebasing, nextId>>

-----------------------------------------------------------------------------
(* The environment: the user puts another release ZIP in place (an older  *)
(* one included) or removes it, and other people push to origin.           *)
NewRelease ==
    /\ pc = "idle" \/ EditDuringRun
    /\ release' \in Releases \ {release}
    /\ UNCHANGED <<pc, outcome, workSrc, outZip, storedHash, json,
                   remote, synced, unpushed, rebasing, nextId>>

ForeignPush ==
    /\ nextId <= MaxCommits
    /\ remote' = Append(remote, [id |-> nextId, touches |-> FALSE,
                                 json |-> NoJson])
    /\ nextId' = nextId + 1
    /\ UNCHANGED <<pc, outcome, release, workSrc, outZip, storedHash, json,
                   synced, unpushed, rebasing>>

Step ==
    \/ EnsureGitReady \/ SyncWithRemote \/ CheckZip \/ PrepareSource
    \/ ZipBegin \/ ZipFinish \/ UpdateJson \/ StageAndCommit \/ Push

Next ==
    \/ StartRun \/ Step \/ SyncConflict \/ Fail
    \/ NewRelease \/ ForeignPush

Spec == Init /\ [][Next]_vars

-----------------------------------------------------------------------------
(***************************************************************************)
(* Properties.                                                             *)
(***************************************************************************)

(* No step after sync_with_remote() runs while an interrupted rebase is    *)
(* left in the repository: a conflicting pull --rebase must end the run,   *)
(* and the next run must abort the rebase before it builds or pushes       *)
(* (ensure_git_ready, sync_with_remote, the order of tasks in main()).     *)
NoSyncedStepWhileRebasing ==
    pc \in {"check", "build", "zip", "zipping", "json", "stage", "pushing"}
        => ~rebasing

(* When check_if_zip_needs_update() would answer "up to date" (the output  *)
(* ZIP exists and .zip_hash holds the fingerprint of the current release   *)
(* ZIP), the output ZIP really was built, completely, from that release    *)
(* (spec 4.1: the fingerprint stands for the build it gated).              *)
UpToDateMeansBuilt ==
    (outZip.exists /\ release # 0 /\ storedHash = Fingerprint(release))
        => outZip.complete /\ outZip.from = release

(* Every descriptor the script has pushed to origin gives the checksum of  *)
(* a completely written ZIP: update_json_with_zip_info() runs only after   *)
(* create_zip() has closed the archive.                                    *)
PushedDescriptorsComplete ==
    \A c \in Rng(remote) : c.touches => c.json.complete

(* origin's history is only ever extended, never rewritten, whatever      *)
(* others push in between: the script pushes without --force, so a push   *)
(* that would drop a commit of origin is refused (spec 3, spec 6).         *)
RemoteNeverRewritten == [][IsPrefixOf(remote, remote')]_vars

(* A run that reports success leaves the descriptor describing the ZIP     *)
(* that is on disk (spec 4.1: the fingerprint is persisted only after the  *)
(* build it gated completes, so "up to date" is never reported on a       *)
(* partial failure).                                                       *)
DescriptorMatchesArchive ==
    (pc = "idle" /\ outcome = "ok") => json = outZip

(* A run that reports success has published every local commit to origin  *)
(* (spec 5 and 7: after a failed or timed-out push, re-running the publish *)
(* workflow is the way to recover).                                        *)
PublishedOnSuccess ==
    (pc = "idle" /\ outcome = "ok") => unpushed = <<>>

-----------------------------------------------------------------------------
(***************************************************************************)
(* The script implements the Publish Workflow of spec 4.5                  *)
(* (PublishWorkflow).  ensure_git_ready() is CLEAN -> SYNCING, a           *)
(* successful pull --rebase is SYNCING -> STAGING, and the build tasks     *)
(* between it and push_bsp_to_github() are stuttering steps of STAGING.    *)
(* The local branch is based on the remote tip when it has synced all of   *)
(* origin.  Our commits are those that touch the descriptor.               *)
(***************************************************************************)
WorkflowPhase ==
    CASE pc = "idle"    -> "IDLE"
      [] pc = "ready"   -> "CLEAN"
      [] pc = "sync"    -> "SYNCING"
      [] pc = "pushing" -> "COMMITTED"
      [] OTHER          -> "STAGING"

Workflow == INSTANCE PublishWorkflow
              WITH phase   <- WorkflowPhase,
                   marker  <- rebasing,
                   pending <- unpushed,
                   rebased <- (synced = Len(remote)),
                   Ours    <- {c \in Commits : c.touches /\ c.json.complete},
                   Theirs  <- {c \in Commits : ~c.touches}

(* Every behaviour of main() and of the other pushers is one of the       *)
(* Publish Workflow's: the run rebases before it stages, it commits only   *)
(* a descriptor of a completely built ZIP, it pushes only a fast-forward   *)
(* and never with a rebase marker, it ends in a no-op without committing,  *)
(* and a conflict leaves the marker and fails.                             *)
WorkflowImplemented == Workflow!Spec

=============================================================================
