------------------------------ MODULE MCBuild ------------------------------
(***************************************************************************)
(* Build with two source files, the second of which is added later, and up *)
(* to three builds.                                                        *)
(***************************************************************************)
EXTENDS Build
=============================================================================
