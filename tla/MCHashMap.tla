----------------------------- MODULE MCHashMap -----------------------------
(***************************************************************************)
(* HashMap with a table that grows from two slots; the keys collide in     *)
(* every table size, and one of them is negative.                          *)
(***************************************************************************)
EXTENDS HashMap

MCKey == {0, 1, 4, -4}
=============================================================================
