---------------------------- MODULE ReleaseBuild ----------------------------
(***************************************************************************)
(* The three build scripts that turn a BSP into nuttyfi32-1.0.0.zip and    *)
(* package_nuttyfi32_index.json without a fingerprint:                     *)
(*   build_nuttyfi32_from_release_zip.py  ("from_release"): extract        *)
(*     esp32-1.0.6.zip, rename, ZIP with one root folder, write the        *)
(*     descriptor, publish arduino-esp32-master to Master;                 *)
(*   build_nuttyfi32_complete_auto.py     ("auto"): ZIP arduino-esp32-     *)
(*     master flat, write the descriptor from the template, publish;       *)
(*   build_nuttyfi32_package.py           ("package"): extract the release *)
(*     (or copy the BSP), rename, ZIP flat, update the descriptor in       *)
(*     place; no git.                                                      *)
(* One run of a script is one step: the scripts run one at a time and      *)
(* each stage finishes before the next begins.                             *)
(*                                                                         *)
(* Data are abstracted to what the properties tell apart.  A release is *)
(* the set of its top-level items and whether one folder wraps them (the   *)
(* package script needs a folder).  An archive is an id of its bytes: no   *)
(* property looks into it.  A descriptor is the id of the archive it       *)
(* names and where its other fields (tools, boards, toolsDependencies)     *)
(* come from: the template, which is the maintained document, or the       *)
(* minimal one from_release synthesizes.  The boards.txt edit of the       *)
(* rename is SectionTransform's.                                           *)
(***************************************************************************)
EXTENDS Naturals, FiniteSets

CONSTANTS
    Variants,       \* the scripts the user runs
    MaxRuns,        \* script runs
    MaxEdits,       \* edits of arduino-esp32-master between runs
    MaxForeign,     \* pushes by others to Master
    MaxFailures     \* pushes lost to the network

ASSUME ReleaseBuildAssumption ==
    /\ Variants \subseteq {"from_release", "auto", "package"}
    /\ MaxRuns \in Nat
    /\ MaxEdits \in Nat
    /\ MaxForeign \in Nat
    /\ MaxFailures \in Nat

Dirs == {"cores", "tools"}
(* ".gitignore" stands for the hidden files at the top of a release.      *)
Items == Dirs \cup {".gitignore"}

(* esp32-1.0.6.zip: one folder holding the items, or the items at its top. *)
Releases == [wrapped : BOOLEAN, items : SUBSET Items \ {{}}]
NoRelease == [wrapped |-> FALSE, items |-> {}]

Versions == 1 .. MaxEdits + 1
(* The bytes of an archive: ZIP of arduino-esp32-master as it is (its      *)
(* files keep their mtimes, so equal versions give equal bytes), or of a   *)
(* tree extracted or rewritten during run n (fresh mtimes, new bytes).     *)
Contents == [src : {"bsp"}, n : Versions] \cup [src : {"run"}, n : 1 .. MaxRuns]
(* The ZIP of an earlier checkout, or none.                                *)
OldContent == [src |-> "old", n |-> 0]
Archives == Contents \cup {OldContent}
Descriptors == [other : {"maintained", "synth"}, zip : Contents \cup {OldContent}]
NoJson == [other |-> "none", zip |-> OldContent]
IgnoreStates == {"none", "bsp_ignored", "bsp_allowed"}
Stages == {"none", "done", "noop", "extract", "zip", "json", "publish", "commit",
           "push"}

VARIABLES
    bsp,            \* version of arduino-esp32-master on disk
    release,        \* esp32-1.0.6.zip, or NoRelease
    template,       \* package/package_nuttyfi32_index.template.json exists
    zip,            \* nuttyfi32-1.0.0.zip on disk
    json,           \* package_nuttyfi32_index.json on disk
    gitignore,      \* what .gitignore says of arduino-esp32-master/
    headBsp,        \* arduino-esp32-master/ in HEAD (0: untracked)
    headZip,        \* nuttyfi32-1.0.0.zip in HEAD (OldContent: untracked)
    headRoot,       \* the BSP copy at the root in HEAD (0: none)
    headJson,       \* the descriptor in HEAD
    ahead,          \* local commits not on Master
    behind,         \* commits on Master the local branch lacks
    outcome,        \* last run: script, the stage it ended in, exit code
    runs, edits, foreign, failures

vars == <<bsp, release, template, zip, json, gitignore, headBsp, headZip,
          headRoot, headJson, ahead, behind, outcome, runs, edits, foreign,
          failures>>

-----------------------------------------------------------------------------
(* The publish step of from_release and auto (push_bsp_to_github,          *)
(* push_to_github): copy arduino-esp32-master's items to the root, add -f  *)
(* the descriptor and every root item except arduino-esp32-master, hidden  *)
(* names, *.bat, *.py and *.zip; an empty git status returns (the stage    *)
(* still reports success); else commit (check=True) and plain push         *)
(* (check=True, no fetch).                                                 *)

(* What git status shows that these scripts never stage: the output ZIP   *)
(* unless HEAD holds the same bytes (no .gitignore of the repository       *)
(* ignores nuttyfi32-*.zip), temp_build/ during from_release's push when   *)
(* there is no .gitignore, arduino-esp32-master/ untracked and not         *)
(* ignored, or tracked and edited.                                         *)
ZipShows(z) == z # headZip
TempShows(tmp) == tmp /\ gitignore = "none"
BspShows == IF headBsp = 0 THEN gitignore # "bsp_ignored" ELSE headBsp # bsp

(* git push (check=True, timeout=1800): origin takes it, the network loses *)
(* it, or origin takes it and the answer comes after the timeout           *)
(* (TimeoutExpired).  Both failures count against MaxFailures.             *)
NetResults ==
    IF failures < MaxFailures THEN {"ok", "lost", "late"} ELSE {"ok"}

Report(s, st, e) == outcome' = [script |-> s, stage |-> st, exit |-> e]

(* The push of a commit: a plain push is rejected while Master has commits *)
(* the local branch lacks; a push origin took leaves nothing ahead, but    *)
(* only an answer in time is reported as done.                             *)
Pushed(s, e) ==
    \E r \in NetResults :
       /\ failures' = IF r = "ok" THEN failures ELSE failures + 1
       /\ ahead' = IF r # "lost" /\ behind = 0 THEN 0 ELSE ahead + 1
       /\ Report(s, IF r = "ok" /\ behind = 0 THEN "done" ELSE "push", e)

PublishWithoutJson(s, j, z, tmp, e) ==
    LET staged == bsp # headRoot
        status == staged \/ ZipShows(z) \/ TempShows(tmp) \/ BspShows
    IN  \/ /\ ~status
           /\ Report(s, "noop", e)
           /\ UNCHANGED <<headRoot, headJson, ahead, failures>>
        \/ /\ status /\ ~staged
           /\ Report(s, "commit", e)
           /\ UNCHANGED <<headRoot, headJson, ahead, failures>>
        \/ /\ staged
           /\ headRoot' = bsp
           /\ UNCHANGED headJson
           /\ Pushed(s, e)
(* s publishes with descriptor j and archive z on disk; tmp: temp_build/   *)
(* exists meanwhile; e: the exit code main() ends with.                    *)
Publish(s, j, z, tmp, e) ==
    LET staged == bsp # headRoot \/ j # headJson
        status == staged \/ ZipShows(z) \/ TempShows(tmp) \/ BspShows
    IN  \/ /\ ~status
           /\ Report(s, "noop", e)
           /\ UNCHANGED <<headRoot, headJson, ahead, failures>>
        \/ /\ status /\ ~staged
           /\ Report(s, "commit", e)
           /\ UNCHANGED <<headRoot, headJson, ahead, failures>>
        \/ /\ staged
           /\ headRoot' = bsp
           /\ headJson' = j
           /\ Pushed(s, e)

-----------------------------------------------------------------------------
(* build_nuttyfi32_from_release_zip.py.                                    *)

(* create_zip(): unlink the old ZIP and write every extracted, renamed     *)
(* file under one root folder.  Extraction gives every file a new mtime:   *)
(* the ZIP of run n has bytes no other run's ZIP has.                      *)
FreshBytes(n) == [src |-> "run", n |-> n]
(* update_json_with_zip_info(): load the template if it exists, else      *)
(* synthesize a minimal document (empty tools and toolsDependencies); set  *)
(* the five fields and write package_nuttyfi32_index.json.                 *)
FromReleaseJson(z) ==
    [other |-> IF template THEN "maintained" ELSE "synth", zip |-> z]

(* main(): the five stages in order inside one try.  The except prints     *)
(* FAILED and main() returns None, so the process exits 0 whatever stage   *)
(* raised:                                                                 *)
(*   extract: the release is missing, or extract_zip or the rename raise;  *)
(*     only temp_build/ was touched;                                       *)
(*   zip: create_zip raises, before the unlink (a locked file) or while    *)
(*     writing entries (a truncated ZIP of new bytes);                     *)
(*   json: update_json_with_zip_info raises with the new ZIP on disk;      *)
(*   publish: push_bsp_to_github raises before its commit (no token, a     *)
(*     failed set-url or copy); the copy to the root is not in HEAD;       *)
(*   then the publish step itself.                                         *)
FromRelease ==
    /\ "from_release" \in Variants
    /\ runs < MaxRuns
    /\ runs' = runs + 1
    /\ \/ /\ Report("from_release", "extract", 0)
          /\ UNCHANGED <<zip, json, headRoot, headJson, ahead, failures>>
       \/ LET z == FreshBytes(runs + 1)
              j == FromReleaseJson(z)
          IN  /\ release # NoRelease
              /\ \/ /\ zip' \in {zip, z}
                    /\ Report("from_release", "zip", 0)
                    /\ UNCHANGED <<json, headRoot, headJson, ahead, failures>>
                 \/ /\ zip' = z
                    /\ Report("from_release", "json", 0)
                    /\ UNCHANGED <<json, headRoot, headJson, ahead, failures>>
                 \/ /\ zip' = z
                    /\ json' = j
                    /\ Report("from_release", "publish", 0)
                    /\ UNCHANGED <<headRoot, headJson, ahead, failures>>
                 \/ /\ zip' = z
                    /\ json' = j
                    /\ Publish("from_release", j, z, TRUE, 0)
    /\ UNCHANGED <<bsp, release, template, gitignore, headBsp, headZip,
                   behind, edits, foreign>>

-----------------------------------------------------------------------------
(* build_nuttyfi32_complete_auto.py.                                       *)

(* create_zip_from_bsp(): a flat ZIP of arduino-esp32-master as it is     *)
(* (its files keep their mtimes: equal versions give equal bytes).         *)
FlatBspZip == [src |-> "bsp", n |-> bsp]

(* update_json_with_zip_info(): FileNotFoundError without the template;   *)
(* else load the template (not the descriptor on disk), set the five      *)
(* fields, write package_nuttyfi32_index.json.                             *)
AutoJson == [other |-> "maintained", zip |-> FlatBspZip]
(* push_to_github(): the publish step, without a temp_build/ directory.    *)
AutoPublish(j) == Publish("auto", j, FlatBspZip, FALSE, 0)

(* main(): ZIP, then the descriptor, then the publish step; main()         *)
(* returns None.                                                           *)
CompleteAuto ==
    /\ "auto" \in Variants
    /\ runs < MaxRuns
    /\ runs' = runs + 1
    /\ zip' = FlatBspZip
    /\ IF ~template
       THEN /\ Report("auto", "json", 0)
            /\ UNCHANGED <<json, headRoot, headJson, ahead, failures>>
       ELSE /\ json' = AutoJson
            /\ AutoPublish(AutoJson)
    /\ UNCHANGED <<bsp, release, template, gitignore, headBsp, headZip,
                   behind, edits, foreign>>

-----------------------------------------------------------------------------
(* build_nuttyfi32_package.py.                                             *)

(* main(): with esp32-1.0.6.zip, extract it and take the first folder      *)
(* temp_build/ lists (none: return 1); without it, copy arduino-esp32-     *)
(* master.                                                                 *)
PackageWorkDir ==
    release = NoRelease \/ release.wrapped \/ release.items \cap Dirs # {}
(* update_json_with_checksum(): load package_nuttyfi32_index.json (an      *)
(* exception if it is missing), set the five fields, write it back.        *)
PackageJson(z) == [json EXCEPT !.zip = z]

(* main(): create_zip() writes a flat ZIP of new bytes, then the           *)
(* descriptor; an exception returns 1.                                     *)
Package ==
    /\ "package" \in Variants
    /\ runs < MaxRuns
    /\ runs' = runs + 1
    /\ \/ /\ ~PackageWorkDir
          /\ Report("package", "extract", 1)
          /\ UNCHANGED <<zip, json>>
       \/ /\ PackageWorkDir
          /\ zip' = FreshBytes(runs + 1)
          /\ IF json = NoJson
             THEN Report("package", "json", 1) /\ UNCHANGED json
             ELSE json' = PackageJson(FreshBytes(runs + 1))
                  /\ Report("package", "done", 0)
    /\ UNCHANGED <<bsp, release, template, gitignore, headBsp, headZip,
                   headRoot, headJson, ahead, behind, edits, foreign, failures>>

-----------------------------------------------------------------------------
(* The environment: a build or a download changes arduino-esp32-master;   *)
(* someone else pushes to Master.                                         *)
EditBsp ==
    /\ edits < MaxEdits
    /\ bsp' = bsp + 1
    /\ edits' = edits + 1
    /\ UNCHANGED <<release, template, zip, json, gitignore, headBsp, headZip,
                   headRoot, headJson, ahead, behind, outcome, runs, foreign,
                   failures>>

ForeignPush ==
    /\ foreign < MaxForeign
    /\ behind' = behind + 1
    /\ foreign' = foreign + 1
    /\ UNCHANGED <<bsp, release, template, zip, json, gitignore, headBsp,
                   headZip, headRoot, headJson, ahead, outcome, runs, edits,
                   failures>>

TypeOK ==
    /\ bsp \in Versions
    /\ release \in Releases \cup {NoRelease}
    /\ template \in BOOLEAN
    /\ zip \in Archives
    /\ json \in Descriptors \cup {NoJson}
    /\ gitignore \in IgnoreStates
    /\ headBsp \in {0} \cup Versions
    /\ headZip \in Contents \cup {OldContent}
    /\ headRoot \in {0} \cup Versions
    /\ headJson \in Descriptors \cup {NoJson}
    /\ ahead \in 0 .. MaxRuns
    /\ behind \in 0 .. MaxForeign
    /\ outcome \in [script : Variants \cup {"none"}, stage : Stages, exit : {0, 1}]
    /\ runs \in 0 .. MaxRuns
    /\ edits \in 0 .. MaxEdits
    /\ foreign \in 0 .. MaxForeign
    /\ failures \in 0 .. MaxFailures

(* A working copy in step with Master: the ZIP of the last build of        *)
(* arduino-esp32-master committed, or no ZIP yet; the descriptor as        *)
(* committed, naming that ZIP (the maintained one or a synthesized one),   *)
(* or none before any build; arduino-esp32-master tracked or not; the BSP  *)
(* copy at the root committed or not.                                      *)
Init ==
    /\ bsp = 1
    /\ release \in Releases \cup {NoRelease}
    /\ template \in BOOLEAN
    /\ gitignore \in IgnoreStates
    /\ headBsp \in {0, 1}
    /\ headZip \in {OldContent, FlatBspZip}
    /\ zip = headZip
    /\ json \in [other : {"maintained", "synth"}, zip : {zip}]
                \cup (IF zip = OldContent THEN {NoJson} ELSE {})
    /\ headJson = json
    /\ headRoot \in {0, 1}
    /\ ahead = 0
    /\ behind = 0
    /\ outcome = [script |-> "none", stage |-> "none", exit |-> 0]
    /\ runs = 0
    /\ edits = 0
    /\ foreign = 0
    /\ failures = 0

Next == FromRelease \/ CompleteAuto \/ Package \/ EditBsp \/ ForeignPush

Spec == Init /\ [][Next]_vars

-----------------------------------------------------------------------------
(* A maintained descriptor keeps its tools, boards and toolsDependencies:  *)
(* no run replaces it by a synthesized one (spec 4.4: a minimal document   *)
(* only when no prior descriptor exists).                                  *)
MaintainedDescriptorKept ==
    [][json.other = "maintained" => json'.other = "maintained"]_vars

(* The commit of from_release's publish step is never refused: a run with *)
(* nothing to stage ends as a no-op, not as a failed commit (spec 4.5,     *)
(* spec 7 NoOp), whatever the other scripts left in the working copy and   *)
(* in HEAD.  (complete_auto reaches the refused commit: see README.)       *)
CommitNeverRefused ==
    outcome.script = "from_release" => outcome.stage # "commit"

=============================================================================
