------------------------------ MODULE HashMap ------------------------------
(***************************************************************************)
(* std::collections::map (std/collections/map.djinn): open addressing with *)
(* linear probing, removed entries marked and reused, growth by doubling.  *)
(***************************************************************************)
EXTENDS Integers, FiniteSets, FiniteSetsExt

CONSTANTS
    Key,      \* integers
    Value,
    None,     \* no value
    Capacity, \* of a new map (16)
    WordMod   \* number of values of the u32 that a key is converted to

ASSUME HashMapAssumption ==
    /\ Key \subseteq Int /\ IsFiniteSet(Key)
    /\ None \notin Value
    /\ Capacity \in Nat \ {0} /\ WordMod \in Nat \ {0}

VARIABLE table

\* states[i]: 0 never used, 1 in use, 2 removed.  Key and value of a slot
\* that is not in use are never read.
Free == [state |-> 0, key |-> None, value |-> None]

Removed == [state |-> 2, key |-> None, value |-> None]

Slot == {Free, Removed} \cup [state : {1}, key : Key, value : Value]

Empty(capacity) ==
    [slots |-> [i \in 0 .. capacity - 1 |-> Free], count |-> 0,
     capacity |-> capacity]

TypeOK ==
    /\ table.capacity \in Nat \ {0}
    /\ table.slots \in [0 .. table.capacity - 1 -> Slot]
    /\ table.count \in 0 .. table.capacity

Init == table = Empty(Capacity)

-----------------------------------------------------------------------------

\* _hash_index
HashIndex(t, k) == (k % WordMod) % t.capacity

\* The slot that the search for k visits after i others.
Probe(t, k, i) == (HashIndex(t, k) + i) % t.capacity

Steps(t) == 0 .. t.capacity - 1

\* The number of slots visited before one that was never used, or all.
Reach(t, k) ==
    LET stops == {i \in Steps(t) : t.slots[Probe(t, k, i)].state = 0}
    IN  IF stops = {} THEN t.capacity ELSE Min(stops)

\* The steps of the search at which k is found.
Hits(t, k) ==
    {i \in 0 .. Reach(t, k) - 1 :
        LET s == t.slots[Probe(t, k, i)] IN s.state = 1 /\ s.key = k}

Has(t, k) == Hits(t, k) # {}

Get(t, k) ==
    IF Has(t, k) THEN t.slots[Probe(t, k, Min(Hits(t, k)))].value ELSE None

\* Mutant: the first entry that is not in use is taken at once.
PutFirst(t, k, v) ==
    LET holes == {i \in Steps(t) : t.slots[Probe(t, k, i)].state # 1
                                   \/ t.slots[Probe(t, k, i)].key = k}
        i == Probe(t, k, Min(holes))
    IN  IF holes = {} THEN t
        ELSE [t EXCEPT !.slots[i] = [state |-> 1, key |-> k, value |-> v],
                       !.count = IF t.slots[i].state = 1 THEN @ ELSE @ + 1]

\* set, once there is room: the entry of k, or the first slot on the way that
\* is not in use.
Put(t, k, v) ==
    LET holes == {i \in Steps(t) : /\ i <= Reach(t, k)
                                   /\ t.slots[Probe(t, k, i)].state # 1}
        entry == [state |-> 1, key |-> k, value |-> v]
    IN  IF Has(t, k)
        THEN [t EXCEPT !.slots[Probe(t, k, Min(Hits(t, k)))] = entry]
        ELSE IF holes # {}
        THEN [t EXCEPT !.slots[Probe(t, k, Min(holes))] = entry,
                       !.count = @ + 1]
        ELSE t

\* Table c with the entry of t's slot i, if it is in use.
Copy(t, c, i) ==
    IF t.slots[i].state = 1 THEN Put(c, t.slots[i].key, t.slots[i].value)
    ELSE c

\* _grow: the entries in use are set one by one in a table of twice the size.
\* None of these calls grows again: fewer than t.capacity entries are in the
\* new table, which grows at 3/2 of that.
Grow(t) ==
    LET copied[i \in 0 .. t.capacity] ==
            IF i = 0 THEN Empty(2 * t.capacity)
            ELSE Copy(t, copied[i - 1], i - 1)
    IN  copied[t.capacity]

\* Mutant: the table grows one entry late.
SetLate(k, v) ==
    table' = Put(IF table.count * 4 > table.capacity * 3
                 THEN Grow(table) ELSE table, k, v)

Set(k, v) ==
    table' = Put(IF table.count * 4 >= table.capacity * 3
                 THEN Grow(table) ELSE table, k, v)

\* Mutant: the slot is free for the search to end at.
RemoveFree(k) ==
    /\ Has(table, k)
    /\ table' = [table EXCEPT
          !.slots[Probe(table, k, Min(Hits(table, k)))] = Free,
          !.count = @ - 1]

Remove(k) ==
    /\ Has(table, k)
    /\ table' = [table EXCEPT
          !.slots[Probe(table, k, Min(Hits(table, k)))] = Removed,
          !.count = @ - 1]

Next == \E k \in Key : Remove(k) \/ \E v \in Value : Set(k, v)

Spec == Init /\ [][Next]_table

-----------------------------------------------------------------------------

\* The slots in use for k, wherever they are.
Holding(k) ==
    {i \in DOMAIN table.slots :
        table.slots[i].state = 1 /\ table.slots[i].key = k}

\* A key has at most one entry, get and has find it wherever it is, and there
\* are as many entries as length says.
LookupExact ==
    /\ \A k \in Key :
          /\ Cardinality(Holding(k)) <= 1
          /\ Has(table, k) = (Holding(k) # {})
    /\ table.count = Cardinality({i \in DOMAIN table.slots :
                                     table.slots[i].state = 1})

\* The table is never fuller than three quarters and one entry, so that set
\* finds a slot for every key and searches stay short.
LoadBounded == (table.count - 1) * 4 < table.capacity * 3

\* The map is a map: through get, it implements AbstractMap.
Contents == [k \in Key |-> Get(table, k)]

Map == INSTANCE AbstractMap WITH contents <- Contents

ImplementsMap == Map!Spec
=============================================================================
