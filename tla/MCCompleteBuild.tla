--------------------------- MODULE MCCompleteBuild ---------------------------
(***************************************************************************)
(* Two runs of build_nuttyfi32_complete.py over every pristine boards.txt  *)
(* of at most three lines: the second run is the first to read a folder   *)
(* that the script itself has edited.                                      *)
(***************************************************************************)
EXTENDS CompleteBuild

MCKeys == {"dev", "other", "up"}
MCNameKeys == {"dev", "other"}

=============================================================================
