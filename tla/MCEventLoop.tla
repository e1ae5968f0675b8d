---------------------------- MODULE MCEventLoop ----------------------------
(***************************************************************************)
(* Model-checking instances of EventLoop; the bounds are in the .cfg files *)
(***************************************************************************)
EXTENDS EventLoop
=============================================================================
