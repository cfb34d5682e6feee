--------------------------- MODULE MCReleaseBuild ---------------------------
(* Model-checking instance of ReleaseBuild.  Three runs let a script run   *)
(* twice after an edit of the BSP folder, with a foreign push or a lost    *)
(* push in between; the cfgs choose which scripts the user runs.           *)
EXTENDS ReleaseBuild

=============================================================================
