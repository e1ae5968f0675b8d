--------------------------- MODULE MCSocketPoller ---------------------------
(***************************************************************************)
(* Model-checking instances of SocketPoller; what the kernel and the       *)
(* program may do is chosen in the .cfg files.                             *)
(***************************************************************************)
EXTENDS SocketPoller
=============================================================================
