# TLA+ verification of the nuttyfi32 BSP build and publish scripts

The repository is a set of Python scripts in `src/`. They turn the upstream
ESP32 Arduino board-support package (BSP) into the `nuttyfi32` package. The
steps are:

- extract a release ZIP or copy the `arduino-esp32-master/` folder;
- rename `esp32` to `nuttyfi32` in `package.json`, `platform.txt` and
  `boards.txt`;
- zip the result;
- write its SHA-256 and size into the package descriptor
  `package_nuttyfi32_index.json`;
- commit and push the tree to GitHub.

This directory models those scripts in TLA+. It holds the TLC configurations
that check the models, the TLAPS proofs about them, and `PROJECT.json`, which
lists every run, mutant, map entry, finding, hazard and theorem.

## 1. The system

### Parts and how they interact

| Part | Code | State it touches |
|------|------|------------------|
| Git helpers | `run_git`, `ensure_git_ready`, `sync_with_remote` (auto_final 33-71) | local branch, rebase marker, origin |
| Fingerprint engine | `calculate_zip_hash`, `check_if_zip_needs_update` (auto_final 104-165) | `.zip_hash`, release ZIP, output ZIP |
| Source preparation | `delete_old_zips`, `extract_zip`, `prepare_bsp_source` (auto_final 167-234) | `temp_build/` |
| Section transformer | `rename_esp32_to_nuttyfi32` (auto_final 252-361; complete 86-161) | `boards.txt`, `platform.txt`, `package.json` of a directory |
| Archive builder | `create_zip` (auto_final 363-401) | `nuttyfi32-1.0.0.zip`, `.zip_hash` |
| Descriptor synchronizer | `update_json_with_zip_info` (auto_final 403-440) | `package_nuttyfi32_index.json` |
| Publish workflow | `push_bsp_to_github` (auto_final 442-563) | index, local branch, origin |
| Variant drivers | `build_nuttyfi32_complete.py`, `build_and_push_complete.py`, `build_nuttyfi32_complete_auto.py`, `build_nuttyfi32_from_release_zip.py`, `build_nuttyfi32_package.py` | the same files, in different orders |
| Force-push and reset scripts | `retry_push.py`, `push_*.py`, `clean_*.py`, `delete_all_from_github.py`, `fix_token_and_push.py` | origin (with `--force`) |
| Diagnostics | `check_github_setup.py` | none (prints advice) |

One run of a driver is a sequence of these parts. The parts interact only
through files that persist between runs:

- the release ZIP;
- the BSP folder;
- the output ZIP and `.zip_hash`;
- the descriptor;
- the git repository and its remote.

Nothing runs concurrently inside a script. The concurrency that matters has
three sources:

- a script run can stop at any step, on an exception, Ctrl-C or a timeout, and
  leave whatever it has written on disk;
- the next run starts from that state;
- other people push to origin, and the user replaces the release ZIP, at any
  time.

### Behaviours that make it hard

- **Crash between two writes.** `create_zip` saves `.zip_hash` before
  `update_json_with_zip_info` runs. A failure between them leaves a
  fingerprint that says "up to date" over a descriptor that is not.
- **Check-then-act on a file that can change.** The release ZIP is hashed once
  by the gate and again when the hash is saved (auto_final 392-393).
- **Git state left by a failed run.** A conflicting `pull --rebase` leaves a
  rebase marker behind. A push that times out may still have been accepted.
  A commit whose push failed is not pushed by the next run when nothing new is
  staged (auto_final 544-546).
- **Repeated application.** `build_nuttyfi32_complete.py` edits its own input
  folder in place (complete 525-534).
- **The boards.txt section algorithm.** It has two loops and a fallback
  search that must agree with the spec's definition of a section.

## 2. Modules

### `AutoBuildPublish` — `src/build_nuttyfi32_complete_auto_final.py`, `main()`

The state persists across runs:

| Variable | What it holds |
|----------|---------------|
| `release` | Version of `RELEASE_ZIP`; 0 when it is absent. |
| `workSrc` | What `prepare_bsp_source` put in TEMP_DIR. |
| `outZip` | A record: the source it was built from, `complete`, `exists`. |
| `storedHash` | The content of `.zip_hash`. |
| `json` | The output ZIP the descriptor's checksum was taken from. |
| `remote` | Origin's branch: a sequence of commits. |
| `synced`, `unpushed` | The local branch is the first `synced` commits of origin followed by `unpushed`. |
| `rebasing` | The rebase marker exists. |
| `pc`, `outcome` | Where `main()` is, and how the last run ended. |

Data is abstracted to versions. The fingerprint of a release is its version:
`calculate_zip_hash` digests the name, size and CRC of every entry, so two
ZIPs with the same content get the same digest.

| Action | Code |
|--------|------|
| `StartRun` | `main()` prologue |
| `EnsureGitReady` | the abort may fail silently |
| `SyncWithRemote` / `SyncConflict` | pull --rebase succeeds, or it conflicts, leaves the marker and raises |
| `CheckZip` | `check_if_zip_needs_update` |
| `PrepareSource` | tasks 3-4 |
| `ZipBegin` / `ZipFinish` | the two halves of `create_zip`; a crash can fall between them |
| `UpdateJson` | `update_json_with_zip_info` |
| `StageAndCommit` | `git add`, the empty-diff early return, `git commit` |
| `Push` | non-forced push; only a fast-forward is accepted; it may report failure even after origin accepted |
| `Fail` | any exception, caught by `main()` |

`NewRelease` and `ForeignPush` are the environment. `NewRelease` puts any
other release ZIP in place (an older one included) or removes it. With
`EditDuringRun` FALSE the user does so only between runs. With it TRUE the user may
also replace it during a run.

### `PublishWorkflow` — the promise of spec 4.5

This is the abstract specification. It is not translated from code: it is
the Publish Workflow state machine of spec 4.5 and the RemoteRepositoryState
invariant of spec 3. Its state is:

- `phase`: one of IDLE, CLEAN, SYNCING, STAGING, COMMITTED;
- `outcome`;
- the rebase `marker`;
- the `remote` branch;
- our `pending` commits;
- whether the local branch is `rebased` on the remote tip.

The actions are:

- `Clean` aborts the marker, best effort.
- `Rebase` rebases, and only without a marker.
- `Conflict` fails and leaves the marker.
- `NoOp` ends with "ok" and no commit.
- `Commit` appends one of `Ours`.
- `Push` appends the pending commits to the remote. It happens only when
  rebased and with no marker.
- `Others` lets another pusher append one of `Theirs`.

`AutoBuildPublish` defines the refinement mapping `Workflow == INSTANCE
PublishWorkflow WITH ...`:

- `pc` maps to a phase. `ready` is CLEAN, `sync` is SYNCING, and `pushing`
  is COMMITTED. `check` through `stage` are STAGING, so the build tasks are
  stuttering steps.
- `rebasing` is the marker.
- `unpushed` is the pending list.
- `rebased` is `synced = Len(remote)`.
- `Ours` is the commits that carry a complete descriptor.
- `Theirs` is the commits that carry none.

### `SectionTransform` — the `boards.txt` part of `rename_esp32_to_nuttyfi32`

This is a pure algorithm, written as operators. A line, after `strip()`, is
blank, a comment, or a key line with its board prefix and key. `NameKeys` are
the keys that contain `.name=`, and `DevName` is the anchor.

| Operator | Code |
|----------|------|
| `SectionStart` | the first loop |
| `ScanEnd` / `EndsSection` | its `elif` branch |
| `FallbackEnd` | the `.name=` search |
| `NewSection` | the banner and the copy loop |
| `CopiedAt` / `Rank` | which lines the copy loop appends, and in which order |
| `DuplicateSection` | the splice `lines[end:end] = ...` |

The copy loop appends the section's key lines, renamed, and its blank and
comment lines, in their order. `NewSection` writes this as a function on
`1..n`: the k-th appended line is the copied line whose rank among the copied
indexes is k. This is the same sequence as a filter of the section, and TLC
checked the two forms equal on every section of up to 5 lines. The rank form
is used because the provers can reason about a cardinality but cannot unfold
the recursive function that defines `SelectSeq`.

A one-step machine (`Duplicate`) applies it to every `boards.txt` of up to
`MaxLines` lines. The module declares no RECURSIVE operator.

### `CompleteBuild` — `src/build_nuttyfi32_complete.py`, `main()`, over runs

The state is the `boards.txt` of:

- `BSP_SOURCE` (`folder`);
- the work copy (`work`);
- `OUTPUT_ZIP` (`outZip`);
- the pushed tree (`remote`).

It also records whether the folder exists. The ZIP source is present.

| Action | Code |
|--------|------|
| `StartRun` | tasks 1-2 |
| `PrepareWork` | task 3 |
| `ApplyChanges` | task 4: rename on the work copy, then on BSP_SOURCE; a failure of the second is only a warning |
| `CreateZip` | task 5 |
| `UpdateJsonAndCleanup` | tasks 6-7 |
| `PushForce` | `commit_and_push_to_github`, `git push --force` |
| `Fail` | any `return 1` or exception |

It uses `SectionTransform` through INSTANCE.

### `GitPublish` — the force-push and reset scripts, and `commit_and_push_to_github`

The state is:

- origin and the local branch, as sequences of commits (an id, a tree, and
  whether we or someone else made it);
- the index, the disk and the `.gitignore` in force;
- the script in progress (`pc`) between the two halves of a two-push script;
- the last outcome.

A tree records which of four paths it holds, and in which version:
the BSP folder, the BSP copied to the root, the descriptor, the scripts.

Each script is one action, or two when it pushes twice:

- `PushWithToken`, `RetryPush`, `FixTokenAndPush`, `PushToGithub`,
  `CompletePush`, `CleanAndPushAll`, `PushBspOnly`,
  `CleanRepoAndPushBspOnly` and `DeleteAllFromGithub` are single actions;
- `CleanSimpleRemoveAll`/`CleanSimpleAdd` and
  `CleanCorrectRemoveAll`/`CleanCorrectAdd` are the two halves of the clean
  scripts.

Each action contains:

- every `git add` with and without `-f` against the `.gitignore`;
- `rm --cached`;
- the empty-status exit;
- the refused commit (`check=True` with nothing staged);
- the commit;
- the plain or `--force` push, which may be lost, or may reach GitHub and
  still be reported as failed when the answer comes after the subprocess
  timeout (`TimeoutExpired`).

`Interrupt` stops a script between its halves. `RemoveAllInterrupted` stops a
clean script after `git rm --cached` and before its commit. `ForeignPush` and
`Edit` are the environment. `MCGitPublish` instantiates the module for the
safety runs. `MCGitPublishRerun` defines the re-run specification: the user
picks one script and re-runs it while it reports failure, with others pushing
meanwhile. An extra variable `script` holds the choice, fixed from the
initial state.

### `ReleaseBuild` — `build_nuttyfi32_from_release_zip.py`, `build_nuttyfi32_complete_auto.py`, `build_nuttyfi32_package.py`

The state is:

- the BSP folder's version;
- the release ZIP, which is absent, wrapped in one folder, or flat;
- whether the descriptor template exists;
- the output ZIP, as an id of its bytes: the ZIP of an earlier checkout, of
  the BSP folder in some version, or written by run n;
- the descriptor: whether it is the maintained one or a synthesised one, and
  which ZIP it names;
- the `.gitignore`;
- what HEAD holds;
- how far the local branch is ahead of origin and behind it.

| Action | Code |
|--------|------|
| `FromRelease` | `main()` of from_release_zip, with each way its single `try` can end: extract or rename raising (or no release), `create_zip` raising before the unlink or mid-write, `update_json_with_zip_info` (template or synthesised) raising, `push_bsp_to_github` raising before its commit, or the publish step; `main()` returns None, so the exit is always 0 |
| `CompleteAuto` | `main()` of complete_auto: flat ZIP of the BSP folder, descriptor (FileNotFoundError without the template, caught), `push_to_github` |
| `Package` | `main()` of package: BSP copy or `extracted_folders[0]`, `create_zip`, `update_json_with_checksum` of the descriptor in place; the no-folder and missing-descriptor exits (1) |
| `EditBsp`, `ForeignPush` | the environment |

`Publish` is the git part that the first two scripts share:

- `git add -f` of the descriptor and of the root items;
- the `git status --porcelain` test, which also shows untracked files;
- `git commit` with `check=True`;
- a plain push (`check=True`, timeout 1800), taken, lost or taken and
  reported as timed out (`Pushed`).

### Proofs: `AutoBuildPublishProofs`, `GitPublishProofs`, `ReleaseBuildProofs`, `SectionTransformProofs`

Each proof module EXTENDS the module it is about, and TLAPS. None of them
reaches a RECURSIVE operator. Section 5 lists what they prove.

## 3. Runs

All bounds come from the MC modules and the cfg files.

| Run | Checks | Result |
|-----|--------|--------|
| `autobuild_safety` (`MCAutoBuildPublish`, `AutoBuildPublish_safety.cfg`; MaxRelease 2, MaxCommits 4, no edit during a run) | `NoSyncedStepWhileRebasing`, `PushedDescriptorsComplete`, action property `RemoteNeverRewritten`, refinement `WorkflowImplemented` (`Workflow!Spec`) | pass, 1 187 398 states |
| `autobuild_stale_descriptor` | `DescriptorMatchesArchive` | violated |
| `autobuild_stranded_commit` | `PublishedOnSuccess` | violated |
| `autobuild_stale_fingerprint` (same bounds) | `UpToDateMeansBuilt` | violated |
| `section_algorithm` (`MCSectionTransform`; every file of ≤ 5 lines over 11 line kinds, 177 156 files) | `TypeOK`, `SectionEndAgrees`, `OriginalPreserved`, `KeysUniqueAfterOnce` | pass |
| `complete_rerun_duplicates` (`MCCompleteBuild`; 2 runs, pristine files of ≤ 3 lines) | `ZipKeysUnique` | violated |
| `gitpublish_safety` (`MCGitPublish`; every script, 6 commit ids, 1 foreign push, 1 lost push, 1 edit) | `RepublishDelivers` | pass, 883 967 states |
| `gitpublish_force_drops_foreign` | action property `ExtendingPushKeepsOrigin` | violated |
| `gitpublish_bsp_only_unstaged` | `StagedReportedTruthfully` | violated |
| `gitpublish_rerun_force` (`MCGitPublishRerun`; retry_push or a clean script, 15 ids, 2 foreign, 2 lost, 1 interrupted removal) | `RetryConverges` | pass, 22 482 states |
| `releasebuild_from_release` (`MCReleaseBuild`; all three scripts, 3 runs, 1 BSP edit, 1 foreign push, 1 failed push) | `CommitNeverRefused` | pass, 714 960 states |
| `releasebuild_synthesized_descriptor` | `MaintainedDescriptorKept` | violated |

Each run shows the following.

- `NoSyncedStepWhileRebasing`: no build, commit or push step runs while a
  rebase marker exists.
- `UpToDateMeansBuilt`: when the gate would answer "up to date", the output
  ZIP really was completely built from the current release. It fails: see
  section 4.
- `PushedDescriptorsComplete`: only descriptors of fully written ZIPs reach
  origin.
- `RemoteNeverRewritten`: origin's history only grows.
- `SectionEndAgrees`: the section-end search of the code (scan plus fallback)
  equals the spec's definition of the section. The fallback search can never
  decide.
- `OriginalPreserved`: the edit only inserts one block after the anchor.
- `KeysUniqueAfterOnce`: one application to a clean `boards.txt` defines every
  key once.
- `RepublishDelivers`: whenever a clean script exits 0, its commit is on
  origin, with exactly the layout that script promises.
- `RetryConverges`: re-running a script while it fails ends in an exit 0,
  with everything committed locally on origin.
- `CommitNeverRefused`: no from_release run fails at `git commit`, whatever
  complete_auto and package left in the working copy and in HEAD before it,
  and whichever stage of an earlier from_release run raised.
- `MaintainedDescriptorKept`: no step replaces the maintained descriptor by a
  synthesised one. It fails: see section 4.

**Why the bounds are enough.**

- *AutoBuildPublish.* Two release versions give a replacement after a build.
  Four commit ids allow two of our commits and two foreign ones, which is what
  a conflict, a stranded commit and a rejected push need. Every violation
  found is at depth ≤ 20, well inside the bound.
- *SectionTransform.* Five lines fit the anchor, a comment or blank line inside
  the section, a key after it, the ending line and a line after the end.
  Longer files are covered by the theorems of `SectionTransformProofs`.
- *CompleteBuild.* The duplication needs two runs.
- *GitPublish, safety.* Six commit ids let three scripts commit in a row
  after a foreign push. One lost push strands a commit. One edit gives a
  run something to stage. `Interrupt`, between the two halves of a script,
  is unbounded: it changes no commit.
- *GitPublish, re-runs.* Each failed run uses up a lost push or a foreign
  push, and makes at most two commits. So with two of each, 13 ids never
  disable a re-run, and 15 ids cover the extra run after one interrupted
  removal. The fairness is on the chosen script, not on any of the three:
  otherwise a stuck script would be masked by the user switching to
  another one. Only the bounds stop these runs, hence `CHECK_DEADLOCK FALSE`.
- *ReleaseBuild.* Three runs let from_release run after a complete_auto or
  package run and after one of its own runs that raised, with a BSP edit and
  a foreign or failed push in between. The synthesised descriptor is found
  in one run.

**Fairness.** The safety runs assume none: the scripts are started by hand,
so nothing in the code makes a run happen.

The re-run specification of `MCGitPublishRerun` assumes weak fairness of
re-running the chosen script while its last outcome is a failure. This
is the user behaviour that spec sections 5 and 7 prescribe after a timeout:
"callers are expected to re-run". The network loses at most `MaxFailures`
pushes (lost, or taken by origin and reported as timed out), so a push
that is tried again eventually goes through. Foreign
pushes and the interrupted removal get no fairness.

**Mutants.** Each property of a passing run has a mutant, listed in
`PROJECT.json`: a mapped definition changed the way a bug in that code
would change it (a dropped guard or step, a different git option). TLC
finds the property violated with the mutant in place, under the run's own
cfg. `SectionTransform`'s `TypeOK` is broken by a malformed renamed line.

| Mutant | Property it breaks |
|--------|--------------------|
| The pull-rebase result is ignored | `NoSyncedStepWhileRebasing` |
| The JSON is updated inside the open archive | `PushedDescriptorsComplete` |
| A `--force` push | `RemoteNeverRewritten` |
| Comments end the section | `SectionEndAgrees` |
| The splice overwrites the section | `OriginalPreserved` |
| The unrenamed line is appended | `KeysUniqueAfterOnce` |
| `clean_and_push_correct` also adds the BSP folder | `RepublishDelivers` |
| `retry_push` pushes without `--force` | `RetryConverges` (retry) |
| The clean scripts' first push is plain | `RetryConverges` (clean simple) |
| The commit is made with nothing staged | `RetryConverges` (clean correct) |
| The descriptor is not added before the status test | `CommitNeverRefused` |

## 4. Findings

1. **Stale descriptor after a partial failure**, auto_final 390-397.
   `create_zip` writes `.zip_hash` before the descriptor is updated. If
   `update_json_with_zip_info` then fails, every later run skips the rebuild
   and reports success with the old checksum.
2. **Stranded commit**, auto_final 544-546. After a failed push, the next run
   has nothing to stage and returns before pushing. It reports success while
   the commit stays local.
3. **Duplicate nuttyfi32 section**, complete 525-534. The script renames its
   own source folder, so its second run ships every nuttyfi32 key twice.
4. **Force push without fetching**, complete 365. The same happens in
   `push_with_token.py`, `push_to_github.py`, `retry_push.py` and
   `clean_and_push_all.py`. A script that only means to add a commit
   force-pushes a branch that never fetched, and takes a foreign commit off
   Master. Spec sections 3 and 6 reserve force for replacing history.
5. **`git status --porcelain --cached`**, push_bsp_only 95 and
   clean_repo_and_push_bsp_only 124. git rejects the option, and the empty
   output is read as "nothing staged". The script reports "No files
   staged!" while the BSP is staged, and exits 1, so neither script can push.
6. **Descriptor synthesised over the maintained one**, from_release 252.
   The template path is missing in the repository, so a minimal descriptor
   with no tools replaces `package_nuttyfi32_index.json`. Spec 4.4 allows
   synthesis only when no descriptor exists.
7. **Stale fingerprint trusted**, auto_final 390-397 and 137-156
   (`autobuild_stale_fingerprint`). `create_zip` writes `.zip_hash` only
   when the release ZIP exists, and nothing removes it when a build starts.
   TLC's trace: a build of release 1 completes; the release ZIP is removed
   and the next build, from the BSP folder, fails while writing the ZIP; the
   release ZIP is put back. `check_if_zip_needs_update` finds the old hash,
   answers "up to date", and the run publishes a truncated ZIP built from the
   folder. Spec 4.1 says the fingerprint is persisted only after the build
   it gated completes.

The model shows more disagreements. No violation run is kept for
them. No violation run is kept for
them. Each one was found with the constants or the specification named
below, and the property stays checked where it holds.

- **Fingerprint recomputed at save time**, auto_final 392-393. A release ZIP
  replaced during the build is recorded as built: a second way to finding 7,
  reached with `EditDuringRun` TRUE.
- **Stranded commit after a lost push**, push_with_token 103. This is the
  pattern of finding 2. Re-running push_with_token.py with weak fairness
  violates `RetryConverges`.
- **Stale descriptor with exit 0**, complete_auto 96. The ZIP is rebuilt,
  then the missing template raises an error that `main()` swallows: the
  `~template` branch of `CompleteAuto` ends with exit 0 and a descriptor
  naming another ZIP.
- **Refused commit instead of a no-op**, complete_auto 198-205. A re-run
  with nothing new still sees the untracked ZIP or BSP folder in
  `git status`, and `git commit` with `check=True` fails.
  This is why `CommitNeverRefused` is stated of from_release runs only.
- **Exit 0 whatever failed**, from_release 453-458. Every exception of the
  five stages is caught by `main()`, which returns normally, so the process
  exits 0: after `create_zip` raised, or `update_json_with_zip_info`, or the
  push. `FromRelease` models each of these ends; the exit code contradicts
  spec 6, but no run is spent on it.

## 5. What is proved

`AutoBuildPublishProofs` (TLAPS, all obligations checked) proves the following
for every value of the constants. The constants assumption is
`ConstantsAssumption`: both bounds are positive naturals, and `EditDuringRun`
is a Boolean.

- Lemma `TypeCorrect`: `Spec => []TypeOK`, used by the theorems below. It
  needs the commit-id bound in the guards of `StageAndCommit` and
  `ForeignPush`, and the lemma `LocalIn` (the local branch is a sequence of
  commits), from `SubSeqProperties` and `ConcatProperties`.
- `RebaseNeverLeftBehind`: `Spec => []NoSyncedStepWhileRebasing`. The
  invariant is inductive as it stands.
  - The marker is only created by `SyncConflict`, which ends the run.
  - `SyncWithRemote` requires no marker.

`AutoBuildPublishProofs` also proves the other properties of `autobuild_safety`,
and the refinement that the same run checks:

- `PushedDescriptorsSafe`: `Spec => []PushedDescriptorsComplete`, with no
  hypothesis, so also with `EditDuringRun`. The strengthening `DescInv`
  says where a complete descriptor comes from:
  - at `pc = "json"` the output ZIP is complete;
  - the descriptor on disk is complete or absent (`NoJson`);
  - every commit on the remote and every unpushed commit that touches the
    descriptor carries a complete one;
  - while there is no descriptor, no commit on the remote or waiting to be
    pushed touches one.

  The property alone is not inductive: a commit staged from a half-written
  descriptor would break it one step later.
- `RemoteOnlyExtended`: `Spec => RemoteNeverRewritten`, an action property.
  `Push` sends the whole local branch and origin accepts it only when the
  remote is a prefix of it (the fast-forward guard; the mutant `PushForce`
  drops it and breaks the property). `ForeignPush` appends one commit
  (lemma `PrefixOfConcat`).
- `WorkflowRefinement`: `Spec => WorkflowImplemented`, i.e.
  `Spec => Workflow!Spec`. The initial state maps to `Workflow!Init`. The
  lemma `WorkflowStep` shows that every step is a step of the abstract
  Next, or leaves the mapped state unchanged. It has one case per action,
  and the six build and environment steps are grouped as stutters. Three
  invariants are needed:
  - `Push` is an abstract push only because no marker exists at
    `pushing` (`RebaseNeverLeftBehind`);
  - a fast-forward push sends exactly the pending commits on top of the
    remote: lemma `FastForwardSynced`, from the invariant `SyncInv` of lemma
    `SyncSafe` (the remote commits past `synced` are foreign, those in
    `unpushed` are ours, so a remote that is a prefix of the local branch
    ends at `synced`);
  - `StageAndCommit` is an abstract commit of `Ours` only because the
    staged descriptor is complete (lemma `StagedJsonComplete`, from the
    invariant `DescInv` of lemma `DescSafe`).

  TLC checks the same refinement as a property of `autobuild_safety`. It
  also holds with `EditDuringRun` TRUE (30,475 states). The mutant
  `SyncFetchOnly` (fetch without pull --rebase) breaks it.

`GitPublishProofs` (TLAPS, 523 obligations) proves, from
`GitPublishAssumption` (the bounds are naturals, `MaxCommits > 0`):

- Lemma `TypeCorrect`: `Spec => []TypeOK`, from `TypeInv == TypeOK /\
  DiskBound`. `DiskBound` says no path on disk is at a version above
  `edits + 1`. It is needed because `Edit` raises a version and
  `clean_and_push_correct` copies one. The step proof has one case per script.
  Each case shows the index stays a tree (lemmas `TreeOps`, `TreeOfType`)
  and that the git part ends in one of the four ways of `GitStep`.
- `RepublishSafe`: `Spec => []RepublishDelivers`. The strengthening
  `RepublishInv` adds three facts:
  - between the two halves of the republish scripts (`pc # "idle"`), the
    index is empty;
  - the BSP folder and the descriptor are on disk;
  - `TypeInv`.

  With these, the second half's `git add -f` stages exactly the promised
  paths (lemma `PushReportedOk`). A foreign push only extends origin, so the
  reported commit stays a prefix of it (lemma `PrefixExtend`). TLC checked
  `RepublishInv` as an invariant of `MCGitPublish` before it was proved. A
  push that is reported as timed out although origin took it is a failure
  report, so it never makes the property's premise true.

`ReleaseBuildProofs` (TLAPS) proves from `ReleaseBuildAssumption`, for
every set of scripts the user runs. The type invariant `TypeInv` adds
`Counters` to `TypeOK`: local commits stay within the runs made, foreign
pushes are counted, and the BSP version is `edits + 1`; the lemmas
`PushedType`, `PublishType` and `FromReleaseType` carry it through the push,
the publish step and the five ends of a from_release run.

- `CommitSafe`: `Spec => []CommitNeverRefused`. The strengthening
  `CommitIInv` adds `FreshUnpublished`: a descriptor at HEAD that names the
  ZIP of a run names a run already made. complete_auto commits descriptors
  of the BSP folder and package never commits, so a from_release run that
  reaches the publish step always stages a descriptor no commit holds
  (lemmas `PublishStaged`, `PublishEffect`).

`SectionTransformProofs` (TLAPS, 699 obligations) proves the four properties
of `section_algorithm` for a `boards.txt` of any length, from
`SectionAssumption`: the anchor key is one of the `.name=` keys, which are
keys, and `MaxLines` is a natural. TLC only covers files of up to 5 lines. The argument has no induction over the file:

- Both loops of the code stop at the first index that passes a test. The
  model writes them as `MinOf` of a set of line numbers. Lemma `MinOfNat`
  gets their least element from the well-foundedness of `<` on `Nat`
  (`WFMin`, `NatLessThanWellFounded`). `SectionStartRange` and
  `SectionEndRange` bound the anchor and the end of the section.
- `RankRange`, `RankStrict` and `RankOnto` show that rank is an
  order-preserving bijection from the copied indexes onto `1..n`. It is
  injective because it is strictly increasing. It is onto because an
  injection between two finite sets of the same size is onto
  (`FS_Injection`). So the `CHOOSE` in `NewSection` picks exactly one line.
- `DuplicateParts` splits the result into prefix, copy and suffix.
  `SpliceKeeps` says what a splice `P \o N \o Q` keeps.

The theorems:

- `TypeCorrect`: `Spec => []TypeOK`. It is inductive as it stands, from
  `DuplicateType` (the result is a sequence of lines that is 5 + n longer).
- `SectionEndSafe`: `Spec => []SectionEndAgrees`. The code's two loops and
  the spec's definition of the end agree (`SectionEndIsSpecEnd`).
- `InsertOnlySafe`: `Spec => []OriginalPreserved`. The edit only inserts
  lines at the end of the section. The inductive invariant is `TypeOK /\
  OutIsEdit`: once the step is taken, `out = DuplicateSection(text)`
  (lemma `OutInvariant`). Lemma `EditInserts` gives the witness offset.
- `KeysUniqueSafe`: `Spec => []KeysUniqueAfterOnce`. If the keys of the
  input are unique and no key line is already on the new board, then the
  output's keys are unique. The proof uses the same `OutIsEdit`. Lemma
  `NewSectionKeys` shows that the copy holds only lines of the new board,
  at distinct indexes of distinct section lines. `ConcatUnique` and
  `ConcatApart` carry uniqueness through the splice.

**Only model-checked:**

- `RetryConverges` (`gitpublish_rerun_force`). It is liveness under weak
  fairness of the re-run, and TLAPS does not handle ENABLED here;
- the seven violations. They are counterexamples: TLC exhibits them, and there
  is nothing to prove.

## 6. Not modelled

- `package.json`, `platform.txt` and the template rename inside
  `rename_esp32_to_nuttyfi32`.
- `build_and_push_complete.py`. `main()` passes `total_tasks` at line 309
  and never defines it. The handler at line 355 raises the same NameError
  again, and `__main__` exits 1. No run reaches the fingerprint, ZIP or git
  steps, so no state change is reachable to model.
- The rename inside `build_nuttyfi32_package.py` and
  `build_nuttyfi32_from_release_zip.py`. `ReleaseBuild` abstracts it to
  "the ZIP of run n has new bytes". The `boards.txt` algorithm is
  `SectionTransform`'s.
- Which files an archive holds. `ReleaseBuild` only tells archives apart by
  their bytes: no property is about their contents, so the hidden files
  `build_nuttyfi32_package.py` keeps and the folders it drops with a flat
  release are not modelled.
- `check_github_setup.py`, which only reads.
- Tokens, credentials, printing and file contents other than `boards.txt`.
  These are out of scope: no property is about them.

## 7. Plan for the next work

1. Model the platform.txt edit and the package JSON rename, completing the
   transformer.
2. Compose `GitPublish` with `AutoBuildPublish` on one origin, so that the
   force-push scripts run between the stages of the auto build.
3. Show that the release-build scripts (`ReleaseBuild`) implement the same
   `PublishWorkflow`, with the publish step mapped to its phases.
