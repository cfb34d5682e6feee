------------------------- MODULE MCAutoBuildPublish -------------------------
(* Model-checking instance of AutoBuildPublish.  Two release versions are  *)
(* enough for a release to change between runs (and, where allowed, during *)
(* one); four commit ids are enough for two of our commits (one stranded,  *)
(* one on top of it) and two foreign ones to interleave with them.         *)
EXTENDS AutoBuildPublish

MCMaxRelease == 2
MCMaxCommits == 4
=============================================================================
