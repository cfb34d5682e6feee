--------------------------- MODULE MCGitPublish ----------------------------
(* Model-checking instance of GitPublish.  One foreign push is enough to   *)
(* be lost to a --force push or to land between the two pushes of a clean *)
(* script; one lost push strands a commit; one edit of the disk gives a    *)
(* run something to commit.                                               *)
EXTENDS GitPublish

(* With every script enabled at once, six ids already reach runs of three  *)
(* scripts in a row after the foreign push.                                *)
MCSafetyCommits == 6

=============================================================================
