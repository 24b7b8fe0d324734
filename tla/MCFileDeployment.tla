--------------------------- MODULE MCFileDeployment ---------------------------
(***************************************************************************)
(* Instances of FileDeployment for TLC.                                    *)
(***************************************************************************)
EXTENDS FileDeployment

CONSTANTS a, b   \* jobs
=============================================================================
