------------------------- MODULE MCReleaseExecution -------------------------
(* Instances of ReleaseExecution for TLC.                                   *)
EXTENDS ReleaseExecution
=============================================================================
