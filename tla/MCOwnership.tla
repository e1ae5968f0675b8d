---------------------------- MODULE MCOwnership ----------------------------
(***************************************************************************)
(* Ownership with three names, three variables and three nested scopes.    *)
(***************************************************************************)
EXTENDS Ownership

Symmetry == Permutations(Name)
=============================================================================
