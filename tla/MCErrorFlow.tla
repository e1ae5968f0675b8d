---------------------------- MODULE MCErrorFlow ----------------------------
(***************************************************************************)
(* ErrorFlow on stacks of at most three activations.                        *)
(***************************************************************************)
EXTENDS ErrorFlow
=============================================================================
