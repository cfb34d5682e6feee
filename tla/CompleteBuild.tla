--------------------------- MODULE CompleteBuild ---------------------------
(***************************************************************************)
(* main() of src/build_nuttyfi32_complete.py, repeated over script runs,   *)
(* reduced to the boards.txt files it reads and writes: the one of the     *)
(* BSP_SOURCE folder (arduino-esp32-master/), the one of the work copy in  *)
(* TEMP_DIR, the one inside OUTPUT_ZIP and the one pushed to GitHub.       *)
(* The boards.txt edit is SectionTransform's DuplicateSection.  The ZIP    *)
(* source ZIP_SOURCE is present; its boards.txt is release.                *)
(***************************************************************************)
EXTENDS Naturals, Sequences

CONSTANTS Keys, NameKeys, DevName, MaxLines,
          MaxRuns   \* how many times the script is started

ST == INSTANCE SectionTransform WITH text <- <<>>, out <- <<>>, done <- FALSE

VARIABLES
    pc,         \* the task main() is at; "idle" between runs
    release,    \* boards.txt inside the ESP32 release ZIP (never changes)
    haveFolder, \* BSP_SOURCE exists and is a directory
    folder,     \* boards.txt of BSP_SOURCE
    work,       \* boards.txt of the work directory
    outZip,     \* boards.txt inside OUTPUT_ZIP (<<>>: no ZIP built yet)
    remote,     \* boards.txt of arduino-esp32-master/ on GitHub
    runs        \* script runs started

vars == <<pc, release, haveFolder, folder, work, outZip, remote, runs>>

(* rename_esp32_to_nuttyfi32() of this script, boards.txt part: the same  *)
(* section search, copy and insertion as in the auto build (only the       *)
(* banner's wording differs).                                              *)
RenameBoards(t) == ST!DuplicateSection(t)

(* Pristine upstream boards.txt files: with the anchor, unique keys and no *)
(* nuttyfi32 board.                                                        *)
Pristine ==
    {t \in ST!SeqUpTo(ST!Lines, MaxLines) :
        /\ ST!SectionStart(t) # 0
        /\ ST!UniqueKeys(t)
        /\ \A i \in DOMAIN t : t[i].board # "nuttyfi32"}

TypeOK ==
    /\ pc \in {"idle", "prepare", "apply", "zip", "json", "push"}
    /\ release \in Pristine
    /\ haveFolder \in BOOLEAN
    /\ \A b \in {folder, work, outZip, remote} : b \in Seq(ST!Lines)
    /\ runs \in 0 .. MaxRuns

Init ==
    /\ pc = "idle"
    /\ release \in Pristine
    /\ haveFolder \in BOOLEAN
    /\ folder = IF haveFolder THEN release ELSE <<>>
    /\ work = <<>>
    /\ outZip = <<>>
    /\ remote = <<>>
    /\ runs = 0

(* Tasks 1 and 2: clean_old_zips() (never OUTPUT_ZIP itself) and           *)
(* find_esp32_source(), which prefers the folder to the ZIP.               *)
StartRun ==
    /\ pc = "idle"
    /\ runs < MaxRuns
    /\ pc' = "prepare"
    /\ runs' = runs + 1
    /\ UNCHANGED <<release, haveFolder, folder, work, outZip, remote>>

(* Task 3: a fresh TEMP_DIR with a copy of the folder, else the extracted  *)
(* release ZIP.                                                            *)
PrepareWork ==
    /\ pc = "prepare"
    /\ work' = IF haveFolder THEN folder ELSE release
    /\ pc' = "apply"
    /\ UNCHANGED <<release, haveFolder, folder, outZip, remote, runs>>

(* Task 4: rename_esp32_to_nuttyfi32() on the work directory, then on     *)
(* BSP_SOURCE itself; an exception from the second is only a warning.      *)
ApplyChanges ==
    /\ pc = "apply"
    /\ work' = RenameBoards(work)
    /\ folder' \in IF haveFolder THEN {RenameBoards(folder), folder}
                                  ELSE {folder}
    /\ pc' = "zip"
    /\ UNCHANGED <<release, haveFolder, outZip, remote, runs>>

(* Task 5: create_zip(work_dir, OUTPUT_ZIP).                               *)
CreateZip ==
    /\ pc = "zip"
    /\ outZip' = work
    /\ pc' = "json"
    /\ UNCHANGED <<release, haveFolder, folder, work, remote, runs>>

(* Tasks 6 and 7: update_json_with_checksum() and removing TEMP_DIR.       *)
UpdateJsonAndCleanup ==
    /\ pc = "json"
    /\ pc' = "push"
    /\ UNCHANGED <<release, haveFolder, folder, work, outZip, remote, runs>>

(* Task 8: commit_and_push_to_github(): git add of arduino-esp32-master/  *)
(* and push --force; the push may fail.                                    *)
PushForce ==
    /\ pc = "push"
    /\ remote' \in {IF haveFolder THEN folder ELSE remote, remote}
    /\ pc' = "idle"
    /\ UNCHANGED <<release, haveFolder, folder, work, outZip, runs>>

(* An exception or a "return 1" ends the run at any task.                  *)
Fail ==
    /\ pc # "idle"
    /\ pc' = "idle"
    /\ UNCHANGED <<release, haveFolder, folder, work, outZip, remote, runs>>

Next ==
    \/ StartRun \/ PrepareWork \/ ApplyChanges \/ CreateZip
    \/ UpdateJsonAndCleanup \/ PushForce \/ Fail

Spec == Init /\ [][Next]_vars

-----------------------------------------------------------------------------
(* The boards.txt shipped in OUTPUT_ZIP defines every key once, on every   *)
(* run, so the Arduino IDE lists one nuttyfi32 board.  Spec section 4.2   *)
(* requires the boards.txt edit not to be applied twice to one file.       *)
ZipKeysUnique == ST!UniqueKeys(outZip)

=============================================================================
