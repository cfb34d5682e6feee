------------------------- MODULE MCGitPublishRerun -------------------------
(* Model-checking instance of GitPublish for re-runs: the user re-runs one *)
(* script until it exits 0.  Two foreign pushes and two lost pushes: every *)
(* run that fails uses up one of them and makes at most two commits.       *)
EXTENDS GitPublish

(* The script the user re-runs: retry_push.py, or one of the two clean    *)
(* scripts, whose first half force-pushes the emptied tree.                *)
VARIABLE script
ForcePushScripts == {"retry_push", "clean_and_push_simple", "clean_and_push_correct"}
ScriptRun(c) ==
    \/ c = "retry_push" /\ RetryPush
    \/ c = "clean_and_push_simple" /\ (CleanSimpleRemoveAll \/ CleanSimpleAdd)
    \/ c = "clean_and_push_correct" /\ (CleanCorrectRemoveAll \/ CleanCorrectAdd)
(* One of the failed runs of a clean script may have been stopped with     *)
(* Ctrl-C between git rm --cached and the commit (MaxInterrupts times at   *)
(* most); the run after it makes two more commits, so fifteen ids never    *)
(* disable a re-run.                                                       *)
MCInterruptCommits == 15
RerunStep ==
    \/ Rerun(ScriptRun(script))
    \/ ForeignPush
    \/ script # "retry_push" /\ Rerun(RemoveAllInterrupted(script))
(* The user picks one of the scripts and re-runs it for as long as its     *)
(* last run failed; others may push meanwhile.                             *)
RerunForcePusher ==
    /\ Init /\ script \in ForcePushScripts
    /\ [][RerunStep /\ UNCHANGED script]_<<vars, script>>
    /\ WF_<<vars, script>>(Rerun(ScriptRun(script)) /\ UNCHANGED script)
=============================================================================
