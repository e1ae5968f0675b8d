---------------------------- MODULE AbstractMap ----------------------------
(***************************************************************************)
(* What a map promises: the value last set for a key, until it is removed. *)
(***************************************************************************)
CONSTANTS Key, Value, None

VARIABLE contents

Init == contents = [k \in Key |-> None]

Set(k, v) == contents' = [contents EXCEPT ![k] = v]

Remove(k) == contents' = [contents EXCEPT ![k] = None]

Next == \E k \in Key : Remove(k) \/ \E v \in Value : Set(k, v)

Spec == Init /\ [][Next]_contents
=============================================================================
