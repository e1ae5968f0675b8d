--------------------------- MODULE HashMapProofs ---------------------------
(***************************************************************************)
(* Proofs about the hash map, for any keys, capacity and history.          *)
(*                                                                         *)
(* A search ends at the first slot that was never used.  It finds every    *)
(* entry because no slot on the way from the hash of its key to the entry  *)
(* is such a slot: put takes the first slot not in use, and remove marks   *)
(* the slot instead of freeing it.  Growing copies the entries one by one; *)
(* the table that has i of the slots copied holds exactly their entries,   *)
(* which is proved by induction on i.  Induction is an appeal to the least *)
(* element of the set of exceptions (Least).                               *)
(***************************************************************************)
EXTENDS HashMap, FiniteSetTheorems, WellFoundedInduction, TLAPS

-----------------------------------------------------------------------------
(***************************************************************************)
(* The inductive invariant                                                 *)
(***************************************************************************)

SlotsOf(t) == 0 .. t.capacity - 1

\* Slot s of t is the entry of key k.
Holds(t, s, k) ==
    s \in SlotsOf(t) /\ t.slots[s].state = 1 /\ t.slots[s].key = k

Used(t) == {s \in SlotsOf(t) : t.slots[s].state = 1}

Shape(t) ==
    /\ t = [slots |-> t.slots, count |-> t.count, capacity |-> t.capacity]
    /\ t.capacity \in Nat \ {0}
    /\ t.slots \in [SlotsOf(t) -> Slot]
    /\ t.count \in Nat

Unique(t) ==
    \A k \in Key : \A r, s \in SlotsOf(t) :
        Holds(t, r, k) /\ Holds(t, s, k) => r = s

\* The search for k gets to step i.
Passes(t, k, i) == \A j \in 0 .. i - 1 : t.slots[Probe(t, k, j)].state # 0

\* The search for k gets to slot s.
Reaches(t, k, s) == \E i \in Steps(t) : Probe(t, k, i) = s /\ Passes(t, k, i)

Reachable(t) ==
    \A k \in Key : \A s \in SlotsOf(t) : Holds(t, s, k) => Reaches(t, k, s)

TableOK(t) ==
    /\ Shape(t)
    /\ Unique(t)
    /\ Reachable(t)
    /\ t.count = Cardinality(Used(t))

Inv == TableOK(table) /\ LoadBounded

\* The entry of k with value v, and that table t has it.
EntryOf(k, v) == [state |-> 1, key |-> k, value |-> v]

Entry(t, k, v) == \E s \in SlotsOf(t) : t.slots[s] = EntryOf(k, v)

-----------------------------------------------------------------------------
(***************************************************************************)
(* Least elements                                                          *)
(***************************************************************************)

LEMMA Least ==
    ASSUME NEW S, S \subseteq Nat, S # {}
    PROVE  \E n \in S : \A m \in S : n <= m
<1> DEFINE R == OpToRel(<, Nat)
<1>1. IsWellFoundedOn(R, Nat)
  BY NatLessThanWellFounded
<1>2. \A m, n \in Nat : <<m, n>> \in R <=> m < n
  BY DEF OpToRel
<1> HIDE DEF R
<1>3. PICK n \in S : \A m \in S : ~(<<m, n>> \in R)
  BY <1>1, WFMin
<1>4. ASSUME NEW m \in S PROVE n <= m
  <2>1. ~(<<m, n>> \in R)
    BY <1>3
  <2>2. m \in Nat /\ n \in Nat
    OBVIOUS
  <2>3. ~(m < n)
    BY <1>2, <2>1, <2>2
  <2> QED
    BY <2>2, <2>3
<1> QED
  BY <1>4

LEMMA MinLeast ==
    ASSUME NEW S, S \subseteq Nat, S # {}
    PROVE  Min(S) \in S /\ \A m \in S : Min(S) <= m
BY Least DEF Min

-----------------------------------------------------------------------------
(***************************************************************************)
(* Searching                                                               *)
(***************************************************************************)

LEMMA ModFacts ==
    ASSUME NEW c \in Nat \ {0}
    PROVE  /\ \A x \in Int : x % c \in 0 .. c - 1
           /\ \A x \in 0 .. c - 1 : x % c = x
           /\ \A x \in 0 .. c - 1 : (x + c) % c = x
<1>1. \A x \in Int : x % c \in 0 .. c - 1
  OBVIOUS
<1>2. \A x \in 0 .. c - 1 : x % c = x
  OBVIOUS
<1>3. \A x \in c .. 2 * c - 1 : x % c = x - c
  OBVIOUS
<1>4. \A x \in 0 .. c - 1 : x + c \in c .. 2 * c - 1 /\ (x + c) - c = x
  OBVIOUS
<1>5. \A x \in 0 .. c - 1 : (x + c) % c = x
  BY <1>3, <1>4
<1> QED
  BY <1>1, <1>2, <1>5

LEMMA HashType ==
    ASSUME NEW t, t.capacity \in Nat \ {0}, NEW k \in Key
    PROVE  HashIndex(t, k) \in 0 .. t.capacity - 1
<1>1. k \in Int /\ WordMod \in Nat \ {0}
  BY HashMapAssumption
<1>2. k % WordMod \in 0 .. WordMod - 1
  BY <1>1, ModFacts
<1>3. k % WordMod \in Int
  BY <1>1, <1>2
<1>4. (k % WordMod) % t.capacity \in 0 .. t.capacity - 1
  BY <1>3, ModFacts
<1> QED
  BY <1>4 DEF HashIndex

LEMMA ProbeType ==
    ASSUME NEW t, t.capacity \in Nat \ {0}, NEW k \in Key, NEW i \in Nat
    PROVE  Probe(t, k, i) \in SlotsOf(t)
<1>1. HashIndex(t, k) + i \in Int
  BY HashType
<1>2. (HashIndex(t, k) + i) % t.capacity \in 0 .. t.capacity - 1
  BY <1>1, ModFacts
<1> QED
  BY <1>2 DEF Probe, SlotsOf

\* The search visits every slot, if it does not end before.
LEMMA ProbeOnto ==
    ASSUME NEW t, t.capacity \in Nat \ {0}, NEW k \in Key,
           NEW s \in SlotsOf(t)
    PROVE  \E i \in Steps(t) : Probe(t, k, i) = s
<1> DEFINE c == t.capacity
           h == HashIndex(t, k)
<1>1. h \in 0 .. c - 1 /\ s \in 0 .. c - 1 /\ c \in Nat \ {0}
  BY HashType DEF SlotsOf
<1>2. Steps(t) = 0 .. c - 1 /\ \A i : Probe(t, k, i) = (h + i) % c
  BY DEF Steps, Probe
<1> HIDE DEF c, h
<1>3. CASE h <= s
  <2>1. s - h \in 0 .. c - 1 /\ h + (s - h) = s /\ s \in Int
    BY <1>1, <1>3
  <2>2. s % c = s
    BY <1>1, <2>1, ModFacts
  <2>3. (h + (s - h)) % c = s
    BY <2>1, <2>2
  <2> QED
    BY <1>2, <2>1, <2>3
<1>4. CASE s < h
  <2>1. s - h + c \in 0 .. c - 1 /\ h + (s - h + c) = s + c
    BY <1>1, <1>4
  <2>2. (s + c) % c = s
    BY <1>1, ModFacts
  <2>3. (h + (s - h + c)) % c = s
    BY <2>1, <2>2
  <2>4. Probe(t, k, s - h + c) = s
    BY <1>2, <2>3
  <2> QED
    BY <1>2, <2>1, <2>4
<1> QED
  BY <1>1, <1>3, <1>4

\* Where the search goes depends on the capacity alone.
LEMMA SameProbe ==
    ASSUME NEW t, NEW u, u.capacity = t.capacity
    PROVE  /\ \A k, i : Probe(u, k, i) = Probe(t, k, i)
           /\ Steps(u) = Steps(t) /\ SlotsOf(u) = SlotsOf(t)
BY DEF Probe, HashIndex, Steps, SlotsOf

LEMMA ReachFacts ==
    ASSUME NEW t, t.capacity \in Nat \ {0}, NEW k
    PROVE  /\ Reach(t, k) \in 0 .. t.capacity
           /\ Passes(t, k, Reach(t, k))
           /\ Reach(t, k) < t.capacity
                 => t.slots[Probe(t, k, Reach(t, k))].state = 0
<1> DEFINE stops == {i \in Steps(t) : t.slots[Probe(t, k, i)].state = 0}
<1>1. Steps(t) = 0 .. t.capacity - 1
  BY DEF Steps
<1>2. CASE stops = {}
  <2>1. Reach(t, k) = t.capacity
    BY <1>2 DEF Reach
  <2>2. \A i \in Steps(t) : t.slots[Probe(t, k, i)].state # 0
    BY <1>2
  <2> QED
    BY <1>1, <2>1, <2>2 DEF Passes
<1>3. CASE stops # {}
  <2>1. Reach(t, k) = Min(stops)
    BY <1>3 DEF Reach
  <2>2. stops \subseteq Nat
    BY <1>1
  <2>3. Min(stops) \in stops /\ \A m \in stops : Min(stops) <= m
    BY <1>3, <2>2, MinLeast
  <2>4. /\ Reach(t, k) \in Steps(t)
        /\ t.slots[Probe(t, k, Reach(t, k))].state = 0
        /\ \A m \in Steps(t) : t.slots[Probe(t, k, m)].state = 0
                                  => Reach(t, k) <= m
    BY <2>1, <2>3
  <2>5. \A j \in 0 .. Reach(t, k) - 1 : j \in Steps(t) /\ ~(Reach(t, k) <= j)
    BY <1>1, <2>4
  <2> QED
    BY <1>1, <2>4, <2>5 DEF Passes
<1> QED
  BY <1>2, <1>3

\* A search that gets to an entry of k finds one.
LEMMA HitFacts ==
    ASSUME NEW t, Shape(t), NEW k \in Key
    PROVE  /\ Has(t, k) => Holds(t, Probe(t, k, Min(Hits(t, k))), k)
           /\ \A s : Holds(t, s, k) /\ Reaches(t, k, s) => Has(t, k)
<1>1. t.capacity \in Nat \ {0} /\ Steps(t) = 0 .. t.capacity - 1
  BY DEF Shape, Steps
<1>2. Reach(t, k) \in 0 .. t.capacity
  BY <1>1, ReachFacts
<1>3. Hits(t, k) = {i \in 0 .. Reach(t, k) - 1 :
                       /\ t.slots[Probe(t, k, i)].state = 1
                       /\ t.slots[Probe(t, k, i)].key = k}
  BY DEF Hits
<1>4. ASSUME Has(t, k) PROVE Holds(t, Probe(t, k, Min(Hits(t, k))), k)
  <2>1. Hits(t, k) \subseteq Nat /\ Hits(t, k) # {}
    BY <1>2, <1>3, <1>4 DEF Has
  <2>2. Min(Hits(t, k)) \in Hits(t, k)
    BY <2>1, MinLeast
  <2>3. Probe(t, k, Min(Hits(t, k))) \in SlotsOf(t)
    BY <1>1, <2>1, <2>2, ProbeType
  <2> QED
    BY <1>3, <2>2, <2>3 DEF Holds
<1>5. ASSUME NEW s, Holds(t, s, k), Reaches(t, k, s) PROVE Has(t, k)
  <2>1. PICK i \in Steps(t) : Probe(t, k, i) = s /\ Passes(t, k, i)
    BY <1>5 DEF Reaches
  <2>2. t.slots[s].state = 1 /\ t.slots[s].key = k
    BY <1>5 DEF Holds
  <2>3. i < Reach(t, k)
    <3>1. SUFFICES ASSUME Reach(t, k) <= i PROVE FALSE
      BY <1>1, <1>2
    <3>2. t.slots[Probe(t, k, Reach(t, k))].state = 0
      BY <1>1, <1>2, <3>1, ReachFacts
    <3>3. Reach(t, k) = i \/ Reach(t, k) \in 0 .. i - 1
      BY <1>1, <1>2, <3>1
    <3> QED
      BY <2>1, <2>2, <3>2, <3>3 DEF Passes
  <2>4. i \in Hits(t, k)
    BY <1>1, <1>2, <1>3, <2>1, <2>2, <2>3
  <2> QED
    BY <2>4 DEF Has
<1> QED
  BY <1>4, <1>5

\* get and has find every entry.
LEMMA Lookup ==
    ASSUME NEW t, TableOK(t), NEW k \in Key
    PROVE  /\ Has(t, k) <=> \E s \in SlotsOf(t) : Holds(t, s, k)
           /\ \A s \in SlotsOf(t) :
                 Holds(t, s, k) => Get(t, k) = t.slots[s].value
           /\ (\A s \in SlotsOf(t) : ~Holds(t, s, k)) => Get(t, k) = None
<1>1. Shape(t) /\ Unique(t) /\ Reachable(t)
  BY DEF TableOK
<1>2. Has(t, k) <=> \E s \in SlotsOf(t) : Holds(t, s, k)
  BY <1>1, HitFacts DEF Reachable, Holds
<1>3. ASSUME NEW s \in SlotsOf(t), Holds(t, s, k)
      PROVE  Get(t, k) = t.slots[s].value
  <2>1. Has(t, k)
    BY <1>2, <1>3
  <2>2. Probe(t, k, Min(Hits(t, k))) = s
    BY <1>1, <1>3, <2>1, HitFacts DEF Unique, Holds
  <2> QED
    BY <2>1, <2>2 DEF Get
<1> QED
  BY <1>2, <1>3 DEF Get

-----------------------------------------------------------------------------
(***************************************************************************)
(* Changing one slot                                                       *)
(***************************************************************************)

\* Table u is t with e in slot s, and its count is n.
Changed(t, u, s, e, n) ==
    /\ u = [slots |-> u.slots, count |-> n, capacity |-> t.capacity]
    /\ u.count = n /\ u.capacity = t.capacity
    /\ u.slots \in [SlotsOf(t) -> Slot]
    /\ u.slots[s] = e
    /\ \A r \in SlotsOf(t) : r # s => u.slots[r] = t.slots[r]

LEMMA SlotFacts ==
    ASSUME NEW e \in Slot
    PROVE  /\ e.state \in {0, 1, 2}
           /\ e.state = 1 => /\ e.key \in Key /\ e.value \in Value
                             /\ e = EntryOf(e.key, e.value)
BY DEF Slot, Free, Removed, EntryOf

LEMMA EntryFacts ==
    ASSUME NEW k, NEW v
    PROVE  /\ EntryOf(k, v).state = 1 /\ EntryOf(k, v).key = k
           /\ EntryOf(k, v).value = v
           /\ k \in Key /\ v \in Value => EntryOf(k, v) \in Slot
BY DEF EntryOf, Slot

\* A table whose slots were used stays searchable if they stay used.
LEMMA ChangedReachable ==
    ASSUME NEW t, NEW u, NEW s, NEW e, NEW n,
           Shape(t), Reachable(t), Changed(t, u, s, e, n), e.state # 0,
           \A k \in Key : e.state = 1 /\ e.key = k => Reaches(t, k, s)
    PROVE  Reachable(u)
<1>1. /\ SlotsOf(u) = SlotsOf(t) /\ Steps(u) = Steps(t)
      /\ \A k, i : Probe(u, k, i) = Probe(t, k, i)
  BY SameProbe DEF Changed
<1>2. t.capacity \in Nat \ {0}
  BY DEF Shape
<1>3. ASSUME NEW k \in Key, NEW r \in SlotsOf(t), Reaches(t, k, r)
      PROVE  Reaches(u, k, r)
  <2>1. PICK i \in Steps(t) : Probe(t, k, i) = r /\ Passes(t, k, i)
    BY <1>3 DEF Reaches
  <2>2. ASSUME NEW j \in 0 .. i - 1
        PROVE  u.slots[Probe(t, k, j)].state # 0
    <3>1. i \in Nat /\ j \in Nat
      BY <1>2 DEF Steps
    <3>2. Probe(t, k, j) \in SlotsOf(t)
      BY <1>2, <3>1, ProbeType
    <3>3. t.slots[Probe(t, k, j)].state # 0
      BY <2>1 DEF Passes
    <3> QED
      BY <3>2, <3>3 DEF Changed
  <2>3. Passes(u, k, i)
    BY <1>1, <2>2 DEF Passes
  <2> QED
    BY <1>1, <2>1, <2>3 DEF Reaches
<1>4. ASSUME NEW k \in Key, NEW r \in SlotsOf(t), Holds(u, r, k)
      PROVE  Reaches(t, k, r)
  <2>1. CASE r = s
    BY <1>4, <2>1 DEF Holds, Changed
  <2>2. CASE r # s
    <3>1. Holds(t, r, k)
      BY <1>1, <1>4, <2>2 DEF Holds, Changed
    <3> QED
      BY <3>1 DEF Reachable
  <2> QED
    BY <2>1, <2>2
<1> QED
  BY <1>1, <1>3, <1>4 DEF Reachable

\* What the entries of the changed table are.
LEMMA ChangedEntries ==
    ASSUME NEW t, NEW u, NEW s \in SlotsOf(t), NEW e, NEW n,
           Changed(t, u, s, e, n)
    PROVE  \A k, v : Entry(u, k, v) <=>
              \/ e = EntryOf(k, v)
              \/ \E r \in SlotsOf(t) : r # s /\ t.slots[r] = EntryOf(k, v)
<1>1. SlotsOf(u) = SlotsOf(t)
  BY DEF Changed, SlotsOf
<1> QED
  BY <1>1 DEF Entry, Changed

LEMMA UsedFinite ==
    ASSUME NEW t, Shape(t)
    PROVE  /\ IsFiniteSet(Used(t)) /\ Cardinality(Used(t)) <= t.capacity
           /\ Cardinality(Used(t)) \in Nat
           /\ Cardinality(Used(t)) < t.capacity
                 => \E s \in SlotsOf(t) : t.slots[s].state # 1
<1>1. t.capacity \in Nat \ {0}
  BY DEF Shape
<1>2. IsFiniteSet(SlotsOf(t)) /\ Cardinality(SlotsOf(t)) = t.capacity
  <2>1. 0 \in Int /\ t.capacity - 1 \in Int /\ ~(0 > t.capacity - 1)
        /\ t.capacity - 1 - 0 + 1 = t.capacity
    BY <1>1
  <2>2. /\ IsFiniteSet(0 .. t.capacity - 1)
        /\ Cardinality(0 .. t.capacity - 1)
              = IF 0 > t.capacity - 1 THEN 0 ELSE t.capacity - 1 - 0 + 1
    BY <2>1, FS_Interval, Zenon
  <2> QED
    BY <2>1, <2>2 DEF SlotsOf
<1>3. Used(t) \subseteq SlotsOf(t)
  BY DEF Used
<1>4. /\ IsFiniteSet(Used(t)) /\ Cardinality(Used(t)) <= t.capacity
      /\ Used(t) = SlotsOf(t) \/ Cardinality(Used(t)) # t.capacity
  BY <1>2, <1>3, FS_Subset
<1>5. Cardinality(Used(t)) \in Nat
  BY <1>4, FS_CardinalityType
<1>6. Used(t) # SlotsOf(t) => \E s \in SlotsOf(t) : t.slots[s].state # 1
  BY DEF Used
<1>7. Used(t) = SlotsOf(t) => Cardinality(Used(t)) = t.capacity
  BY <1>2
<1> QED
  BY <1>1, <1>4, <1>5, <1>6, <1>7

-----------------------------------------------------------------------------
(***************************************************************************)
(* Setting a value                                                         *)
(***************************************************************************)

LEMMA Recount ==
    ASSUME NEW a, NEW n, NEW c, NEW m, NEW r,
           r = [slots |-> a, count |-> n, capacity |-> c]
    PROVE  [r EXCEPT !.count = m] = [slots |-> a, count |-> m, capacity |-> c]
<1> DEFINE q == [r EXCEPT !.count = m]
<1>1. DOMAIN q = {"slots", "count", "capacity"}
  OBVIOUS
<1>2. q.slots = a /\ q.count = m /\ q.capacity = c
  OBVIOUS
<1>3. q = [x \in DOMAIN q |-> q[x]]
  OBVIOUS
<1> HIDE DEF q
<1>4. q = [slots |-> a, count |-> m, capacity |-> c]
  BY <1>1, <1>2, <1>3
<1> QED
  BY <1>4 DEF q

\* A record with one slot and the count replaced.
LEMMA Writes ==
    ASSUME NEW t, Shape(t), NEW s \in SlotsOf(t), NEW e \in Slot
    PROVE  /\ Changed(t, [t EXCEPT !.slots[s] = e], s, e, t.count)
           /\ Changed(t, [t EXCEPT !.slots[s] = e, !.count = @ + 1], s, e,
                      t.count + 1)
           /\ Changed(t, [t EXCEPT !.slots[s] = e, !.count = @ - 1], s, e,
                      t.count - 1)
<1>1. t.slots \in [SlotsOf(t) -> Slot]
  BY DEF Shape
<1>2. t = [slots |-> t.slots, count |-> t.count, capacity |-> t.capacity]
  BY DEF Shape
<1> DEFINE ss == [t.slots EXCEPT ![s] = e]
           tt == [t EXCEPT !.slots[s] = e]
<1>3. /\ ss \in [SlotsOf(t) -> Slot] /\ ss[s] = e
      /\ \A r \in SlotsOf(t) : r # s => ss[r] = t.slots[r]
  BY <1>1
<1>4. tt = [slots |-> ss, count |-> t.count, capacity |-> t.capacity]
  BY <1>2
<1>5. [t EXCEPT !.slots[s] = e, !.count = @ + 1]
         = [slots |-> ss, count |-> t.count + 1, capacity |-> t.capacity]
  <2>1. [t EXCEPT !.slots[s] = e, !.count = @ + 1]
           = [tt EXCEPT !.count = t.count + 1]
    OBVIOUS
  <2> HIDE DEF ss, tt
  <2>2. [tt EXCEPT !.count = t.count + 1]
           = [slots |-> ss, count |-> t.count + 1, capacity |-> t.capacity]
    BY <1>4, Recount
  <2> QED
    BY <2>1, <2>2
<1>6. [t EXCEPT !.slots[s] = e, !.count = @ - 1]
         = [slots |-> ss, count |-> t.count - 1, capacity |-> t.capacity]
  <2>1. [t EXCEPT !.slots[s] = e, !.count = @ - 1]
           = [tt EXCEPT !.count = t.count - 1]
    OBVIOUS
  <2> HIDE DEF ss, tt
  <2>2. [tt EXCEPT !.count = t.count - 1]
           = [slots |-> ss, count |-> t.count - 1, capacity |-> t.capacity]
    BY <1>4, Recount
  <2> QED
    BY <2>1, <2>2
<1> HIDE DEF ss
<1>7. \A n : Changed(t, [slots |-> ss, count |-> n, capacity |-> t.capacity],
                     s, e, n)
  BY <1>3 DEF Changed
<1> QED
  BY <1>4, <1>5, <1>6, <1>7

\* There is a slot for a new key if the table is not full.
LEMMA HoleFacts ==
    ASSUME NEW t, Shape(t), NEW k \in Key, NEW holes,
           holes = {i \in Steps(t) : /\ i <= Reach(t, k)
                                     /\ t.slots[Probe(t, k, i)].state # 1},
           Cardinality(Used(t)) < t.capacity
    PROVE  /\ holes # {}
           /\ Probe(t, k, Min(holes)) \in SlotsOf(t)
           /\ t.slots[Probe(t, k, Min(holes))].state # 1
           /\ Reaches(t, k, Probe(t, k, Min(holes)))
<1>1. t.capacity \in Nat \ {0} /\ Steps(t) = 0 .. t.capacity - 1
  BY DEF Shape, Steps
<1>2. /\ Reach(t, k) \in 0 .. t.capacity /\ Passes(t, k, Reach(t, k))
      /\ Reach(t, k) < t.capacity
            => t.slots[Probe(t, k, Reach(t, k))].state = 0
  BY <1>1, ReachFacts
<1>3. PICK s \in SlotsOf(t) : t.slots[s].state # 1
  BY UsedFinite
<1>4. PICK i \in Steps(t) : Probe(t, k, i) = s
  BY <1>1, ProbeOnto
<1>5. holes # {}
  <2>1. CASE Reach(t, k) < t.capacity
    <3>1. Reach(t, k) \in Steps(t) /\ Reach(t, k) <= Reach(t, k)
      BY <1>1, <1>2, <2>1
    <3>2. Reach(t, k) \in holes
      BY <1>2, <2>1, <3>1
    <3> QED
      BY <3>2
  <2>2. CASE ~(Reach(t, k) < t.capacity)
    <3>1. i <= Reach(t, k)
      BY <1>1, <1>2, <2>2
    <3> QED
      BY <1>3, <1>4, <3>1
  <2> QED
    BY <2>1, <2>2
<1>6. holes \subseteq Nat
  BY <1>1
<1>7. Min(holes) \in holes
  BY <1>5, <1>6, MinLeast
<1> DEFINE m == Min(holes)
<1>8. /\ m \in Steps(t) /\ m \in Nat /\ m <= Reach(t, k)
      /\ t.slots[Probe(t, k, m)].state # 1
  BY <1>6, <1>7
<1> HIDE DEF m
<1>9. Passes(t, k, m)
  <2>1. \A j \in 0 .. m - 1 : j \in 0 .. Reach(t, k) - 1
    BY <1>2, <1>8
  <2> QED
    BY <1>2, <2>1 DEF Passes
<1>10. Probe(t, k, m) \in SlotsOf(t)
  BY <1>1, <1>8, ProbeType
<1> QED
  BY <1>5, <1>8, <1>9, <1>10 DEF m, Reaches

\* A table in which a key gets a value.
LEMMA PutOK ==
    ASSUME NEW t, TableOK(t), NEW k \in Key, NEW v \in Value,
           t.count < t.capacity
    PROVE  /\ TableOK(Put(t, k, v))
           /\ Put(t, k, v).capacity = t.capacity
           /\ Put(t, k, v).count \in {t.count, t.count + 1}
           /\ \A l, w : Entry(Put(t, k, v), l, w) <=>
                           \/ l = k /\ w = v
                           \/ l # k /\ Entry(t, l, w)
<1> DEFINE u == Put(t, k, v)
           e == EntryOf(k, v)
<1>1. Shape(t) /\ Unique(t) /\ Reachable(t) /\ t.count = Cardinality(Used(t))
  BY DEF TableOK
<1>2. e \in Slot /\ e.state = 1 /\ e.key = k
  BY EntryFacts
<1>3. \A l, w : e = EntryOf(l, w) <=> l = k /\ w = v
  BY EntryFacts
<1>4. /\ IsFiniteSet(Used(t)) /\ t.count \in Nat
  BY <1>1, UsedFinite
<1>5. t.slots \in [SlotsOf(t) -> Slot]
  BY <1>1 DEF Shape
<1>6. \A r \in SlotsOf(t) : \A l, w :
         t.slots[r] = EntryOf(l, w) /\ l \in Key => Holds(t, r, l)
  BY EntryFacts DEF Holds
<1>7. \A r \in SlotsOf(t) : \A l, w :
         t.slots[r] = EntryOf(l, w) => l \in Key
  BY <1>5, SlotFacts, EntryFacts
<1>8. CASE Has(t, k)
  <2> DEFINE s == Probe(t, k, Min(Hits(t, k)))
  <2>1. Holds(t, s, k)
    BY <1>1, <1>8, HitFacts
  <2>2. s \in SlotsOf(t) /\ t.slots[s].state = 1 /\ t.slots[s].key = k
    BY <2>1 DEF Holds
  <2>3. u = [t EXCEPT !.slots[s] = e]
    BY <1>8 DEF Put, EntryOf
  <2> HIDE DEF s, u, e
  <2>4. Changed(t, u, s, e, t.count)
    BY <1>1, <1>2, <2>2, <2>3, Writes
  <2>5. SlotsOf(u) = SlotsOf(t)
    BY <2>4 DEF Changed, SlotsOf
  <2>6. Shape(u)
    BY <1>1, <2>4, <2>5 DEF Shape, Changed
  <2>7. \A l, r : Holds(u, r, l) <=> Holds(t, r, l)
    BY <1>2, <2>2, <2>4, <2>5 DEF Holds, Changed
  <2>8. Unique(u)
    BY <1>1, <2>5, <2>7 DEF Unique
  <2>9. Reaches(t, k, s)
    BY <1>1, <2>1, <2>2 DEF Reachable
  <2>10. Reachable(u)
    BY <1>1, <1>2, <2>4, <2>9, ChangedReachable
  <2>11. Used(u) = Used(t)
    BY <1>2, <2>2, <2>4, <2>5 DEF Used, Changed
  <2>12. TableOK(u) /\ u.capacity = t.capacity /\ u.count = t.count
    BY <1>1, <2>4, <2>6, <2>8, <2>10, <2>11 DEF TableOK, Changed
  <2>13. ASSUME NEW l, NEW w, l # k
         PROVE  (\E r \in SlotsOf(t) : r # s /\ t.slots[r] = EntryOf(l, w))
                   <=> Entry(t, l, w)
    BY <2>2, <2>13, EntryFacts DEF Entry
  <2>14. ASSUME NEW w, NEW r \in SlotsOf(t), r # s,
                t.slots[r] = EntryOf(k, w)
         PROVE  FALSE
    BY <1>1, <1>6, <2>1, <2>2, <2>14 DEF Unique
  <2>15. \A l, w : Entry(u, l, w) <=>
            \/ l = k /\ w = v
            \/ \E r \in SlotsOf(t) : r # s /\ t.slots[r] = EntryOf(l, w)
    BY <1>3, <2>2, <2>4, ChangedEntries
  <2>16. \A l, w : Entry(u, l, w) <=> \/ l = k /\ w = v
                                      \/ l # k /\ Entry(t, l, w)
    BY <2>13, <2>14, <2>15
  <2> QED
    BY <2>12, <2>16 DEF u
<1>9. CASE ~Has(t, k)
  <2> DEFINE holes == {i \in Steps(t) :
                          /\ i <= Reach(t, k)
                          /\ t.slots[Probe(t, k, i)].state # 1}
             s == Probe(t, k, Min(holes))
  <2>1. /\ holes # {} /\ s \in SlotsOf(t) /\ t.slots[s].state # 1
        /\ Reaches(t, k, s)
    BY <1>1, HoleFacts
  <2>2. u = [t EXCEPT !.slots[s] = e, !.count = @ + 1]
    BY <1>9, <2>1 DEF Put, EntryOf
  <2> HIDE DEF holes, s, u, e
  <2>3. Changed(t, u, s, e, t.count + 1)
    BY <1>1, <1>2, <2>1, <2>2, Writes
  <2>4. SlotsOf(u) = SlotsOf(t)
    BY <2>3 DEF Changed, SlotsOf
  <2>5. Shape(u)
    BY <1>1, <1>4, <2>3, <2>4 DEF Shape, Changed
  <2>6. \A r : ~Holds(t, r, k)
    BY <1>9, Lookup DEF Holds
  <2>7. \A l, r : Holds(u, r, l) <=> Holds(t, r, l) \/ (r = s /\ l = k)
    BY <1>2, <2>1, <2>3, <2>4 DEF Holds, Changed
  <2>8. Unique(u)
    <3>1. \A l : ~Holds(t, s, l)
      BY <2>1 DEF Holds
    <3> QED
      BY <1>1, <2>4, <2>6, <2>7, <3>1 DEF Unique
  <2>9. Reachable(u)
    BY <1>1, <1>2, <2>1, <2>3, ChangedReachable
  <2>10. Used(u) = Used(t) \cup {s} /\ s \notin Used(t)
    BY <1>2, <2>1, <2>3, <2>4 DEF Used, Changed
  <2>11. Cardinality(Used(u)) = t.count + 1
    <3>1. Cardinality(Used(t) \cup {s}) = Cardinality(Used(t)) + 1
      BY <1>4, <2>10, FS_AddElement
    <3> QED
      BY <1>1, <2>10, <3>1
  <2>12. /\ TableOK(u) /\ u.capacity = t.capacity
         /\ u.count = t.count + 1
    BY <2>3, <2>5, <2>8, <2>9, <2>11 DEF TableOK, Changed
  <2>13. ASSUME NEW l, NEW w
         PROVE  (\E r \in SlotsOf(t) : r # s /\ t.slots[r] = EntryOf(l, w))
                   <=> Entry(t, l, w)
    BY <2>1, EntryFacts DEF Entry
  <2>14. \A w : ~Entry(t, k, w)
    BY <1>6, <2>6 DEF Entry
  <2>15. \A l, w : Entry(u, l, w) <=>
            \/ l = k /\ w = v
            \/ \E r \in SlotsOf(t) : r # s /\ t.slots[r] = EntryOf(l, w)
    BY <1>3, <2>1, <2>3, ChangedEntries
  <2>16. \A l, w : Entry(u, l, w) <=> \/ l = k /\ w = v
                                      \/ l # k /\ Entry(t, l, w)
    BY <2>13, <2>14, <2>15
  <2> QED
    BY <2>12, <2>16 DEF u
<1> QED
  BY <1>8, <1>9

-----------------------------------------------------------------------------
(***************************************************************************)
(* Removing a key                                                          *)
(***************************************************************************)

\* The entry is gone, and its slot is one that searches pass.
LEMMA RemoveOK ==
    ASSUME NEW t, TableOK(t), NEW k \in Key, Has(t, k), NEW u,
           Changed(t, u, Probe(t, k, Min(Hits(t, k))), Removed, t.count - 1)
    PROVE  /\ TableOK(u)
           /\ u.capacity = t.capacity /\ u.count = t.count - 1
           /\ \A l, w : Entry(u, l, w) <=> l # k /\ Entry(t, l, w)
<1> DEFINE s == Probe(t, k, Min(Hits(t, k)))
<1>1. Shape(t) /\ Unique(t) /\ Reachable(t) /\ t.count = Cardinality(Used(t))
  BY DEF TableOK
<1>2. Removed \in Slot /\ Removed.state = 2
  BY DEF Removed, Slot
<1>3. Holds(t, s, k)
  BY <1>1, HitFacts
<1>4. s \in SlotsOf(t) /\ t.slots[s].state = 1 /\ t.slots[s].key = k
  BY <1>3 DEF Holds
<1>5. Changed(t, u, s, Removed, t.count - 1)
  OBVIOUS
<1> HIDE DEF s
<1>6. IsFiniteSet(Used(t)) /\ Cardinality(Used(t)) \in Nat
  BY <1>1, UsedFinite
<1>7. SlotsOf(u) = SlotsOf(t)
  BY <1>5 DEF Changed, SlotsOf
<1>8. Used(u) = Used(t) \ {s} /\ s \in Used(t)
  BY <1>2, <1>4, <1>5, <1>7 DEF Used, Changed
<1>9. Cardinality(Used(u)) = t.count - 1
  <2>1. Cardinality(Used(t) \ {s}) = Cardinality(Used(t)) - 1
    BY <1>6, <1>8, FS_RemoveElement
  <2> QED
    BY <1>1, <1>8, <2>1
<1>10. t.count - 1 \in Nat
  <2>1. IsFiniteSet(Used(u))
    BY <1>6, <1>8, FS_RemoveElement
  <2> QED
    BY <1>9, <2>1, FS_CardinalityType
<1>11. Shape(u)
  BY <1>1, <1>5, <1>7, <1>10 DEF Shape, Changed
<1>12. \A l, r : Holds(u, r, l) <=> Holds(t, r, l) /\ r # s
  BY <1>2, <1>5, <1>7 DEF Holds, Changed
<1>13. Unique(u)
  BY <1>1, <1>7, <1>12 DEF Unique
<1>14. Reachable(u)
  BY <1>1, <1>2, <1>5, ChangedReachable
<1>15. TableOK(u) /\ u.capacity = t.capacity /\ u.count = t.count - 1
  BY <1>5, <1>9, <1>11, <1>13, <1>14 DEF TableOK, Changed
<1>16. ASSUME NEW l, NEW w, l # k
       PROVE  (\E r \in SlotsOf(t) : r # s /\ t.slots[r] = EntryOf(l, w))
                 <=> Entry(t, l, w)
  BY <1>4, <1>16, EntryFacts DEF Entry
<1>17. ASSUME NEW w, NEW r \in SlotsOf(t), r # s, t.slots[r] = EntryOf(k, w)
       PROVE  FALSE
  <2>1. Holds(t, r, k)
    BY <1>17, EntryFacts DEF Holds
  <2> QED
    BY <1>1, <1>3, <1>4, <1>17, <2>1 DEF Unique
<1>18. \A l, w : Removed # EntryOf(l, w)
  BY <1>2, EntryFacts
<1>19. \A l, w : Entry(u, l, w) <=>
          \E r \in SlotsOf(t) : r # s /\ t.slots[r] = EntryOf(l, w)
  BY <1>4, <1>5, <1>18, ChangedEntries
<1> QED
  BY <1>15, <1>16, <1>17, <1>19

-----------------------------------------------------------------------------
(***************************************************************************)
(* Growing                                                                 *)
(***************************************************************************)

LEMMA EmptyOK ==
    ASSUME NEW c \in Nat \ {0}
    PROVE  /\ TableOK(Empty(c))
           /\ Empty(c).capacity = c /\ Empty(c).count = 0
           /\ \A k, v : ~Entry(Empty(c), k, v)
<1> DEFINE t == Empty(c)
<1>1. /\ t.capacity = c /\ t.count = 0 /\ SlotsOf(t) = 0 .. c - 1
      /\ t.slots = [i \in 0 .. c - 1 |-> Free]
      /\ t = [slots |-> t.slots, count |-> t.count, capacity |-> t.capacity]
  BY DEF Empty, SlotsOf
<1>2. Free \in Slot /\ Free.state = 0
  BY DEF Slot, Free
<1> HIDE DEF t
<1>3. \A s \in SlotsOf(t) : t.slots[s] = Free
  BY <1>1
<1>4. Shape(t)
  BY <1>1, <1>2 DEF Shape
<1>5. \A s, k : ~Holds(t, s, k)
  BY <1>2, <1>3 DEF Holds
<1>6. Used(t) = {}
  BY <1>2, <1>3 DEF Used
<1>7. Cardinality(Used(t)) = 0
  BY <1>6, FS_EmptySet
<1>8. \A k, v : ~Entry(t, k, v)
  BY <1>2, <1>3, EntryFacts DEF Entry
<1>9. TableOK(t)
  BY <1>1, <1>4, <1>5, <1>7 DEF TableOK, Unique, Reachable
<1> QED
  BY <1>1, <1>8, <1>9 DEF t

\* f[i] is the new table after i slots of t have been copied, up to n.
Copies(t, f, n) ==
    f = [i \in 0 .. n |-> IF i = 0 THEN Empty(2 * t.capacity)
                          ELSE Copy(t, f[i - 1], i - 1)]

LEMMA CopiesExist ==
    ASSUME NEW t, NEW n \in Nat
    PROVE  \E f : Copies(t, f, n)
<1> DEFINE bad == {m \in Nat : ~ \E f : Copies(t, f, m)}
<1>1. SUFFICES ASSUME bad # {} PROVE FALSE
  OBVIOUS
<1>2. bad \subseteq Nat
  OBVIOUS
<1>3. PICK m \in bad : \A l \in bad : m <= l
  BY <1>1, <1>2, Least
<1>4. CASE m = 0
  <2> DEFINE f == [i \in 0 .. 0 |-> Empty(2 * t.capacity)]
  <2>1. f = [i \in 0 .. 0 |-> IF i = 0 THEN Empty(2 * t.capacity)
                              ELSE Copy(t, f[i - 1], i - 1)]
    OBVIOUS
  <2>2. Copies(t, f, 0)
    BY <2>1 DEF Copies
  <2> QED
    BY <1>4, <2>2
<1>5. CASE m # 0
  <2>1. m \in Nat /\ m - 1 \in Nat /\ ~(m <= m - 1)
    BY <1>5
  <2>2. PICK f : Copies(t, f, m - 1)
    BY <1>3, <2>1
  <2>3. \A i \in 0 .. m - 1 :
           /\ i = 0 => f[i] = Empty(2 * t.capacity)
           /\ i # 0 => f[i] = Copy(t, f[i - 1], i - 1)
    BY <2>2 DEF Copies
  <2> DEFINE g == [i \in 0 .. m |-> IF i = m THEN Copy(t, f[m - 1], m - 1)
                                    ELSE f[i]]
  <2>4. g[m] = Copy(t, f[m - 1], m - 1) /\ \A i \in 0 .. m - 1 : g[i] = f[i]
    BY <2>1
  <2>5. \A i \in 0 .. m : i # 0 => i - 1 \in 0 .. m - 1
    BY <2>1
  <2>6. \A i \in 0 .. m : i = m \/ i \in 0 .. m - 1
    BY <2>1
  <2>7. DOMAIN g = 0 .. m /\ g = [i \in 0 .. m |-> g[i]]
    OBVIOUS
  <2> HIDE DEF g
  <2>8. \A i \in 0 .. m :
           /\ i = 0 => g[i] = Empty(2 * t.capacity)
           /\ i # 0 => g[i] = Copy(t, g[i - 1], i - 1)
    BY <1>5, <2>3, <2>4, <2>5, <2>6
  <2>9. Copies(t, g, m)
    BY <2>7, <2>8 DEF Copies
  <2> QED
    BY <2>9
<1> QED
  BY <1>4, <1>5

LEMMA GrowDef ==
    ASSUME NEW t, t.capacity \in Nat
    PROVE  \E f : Copies(t, f, t.capacity) /\ Grow(t) = f[t.capacity]
<1> DEFINE F == CHOOSE f : f = [i \in 0 .. t.capacity |->
                                  IF i = 0 THEN Empty(2 * t.capacity)
                                  ELSE Copy(t, f[i - 1], i - 1)]
<1>1. \E f : Copies(t, f, t.capacity)
  BY CopiesExist
<1>2. Copies(t, F, t.capacity)
  BY <1>1 DEF Copies
<1>3. Grow(t) = F[t.capacity]
  BY DEF Grow
<1> QED
  BY <1>2, <1>3

\* Table c holds the entries of the first i slots of t.
Partial(t, c, i) ==
    /\ TableOK(c)
    /\ c.capacity = 2 * t.capacity /\ c.count <= i
    /\ \A k, v : Entry(c, k, v) <=>
                    \E s \in 0 .. i - 1 : t.slots[s] = EntryOf(k, v)

\* Copying one more slot; its key is not among those copied before.
LEMMA CopyOK ==
    ASSUME NEW t, TableOK(t), NEW i \in SlotsOf(t), NEW c, Partial(t, c, i)
    PROVE  Partial(t, Copy(t, c, i), i + 1)
<1>1. /\ Shape(t) /\ Unique(t) /\ t.capacity \in Nat \ {0}
      /\ t.slots \in [SlotsOf(t) -> Slot] /\ SlotsOf(t) = 0 .. t.capacity - 1
  BY DEF TableOK, Shape, SlotsOf
<1>2. i \in Nat /\ i < t.capacity
  BY <1>1
<1>3. c.count \in Nat /\ TableOK(c) /\ c.capacity = 2 * t.capacity
      /\ c.count <= i
  BY DEF Partial, TableOK, Shape
<1>4. \A s : s \in 0 .. (i + 1) - 1 <=> s \in 0 .. i - 1 \/ s = i
  BY <1>2
<1>5. CASE t.slots[i].state # 1
  <2>1. Copy(t, c, i) = c
    BY <1>5 DEF Copy
  <2>2. \A k, v : t.slots[i] # EntryOf(k, v)
    BY <1>5, EntryFacts
  <2>3. c.count <= i + 1
    BY <1>2, <1>3
  <2>4. \A k, v : Entry(c, k, v) <=>
           \E s \in 0 .. (i + 1) - 1 : t.slots[s] = EntryOf(k, v)
    BY <1>4, <2>2 DEF Partial
  <2> QED
    BY <1>3, <2>1, <2>3, <2>4 DEF Partial
<1>6. CASE t.slots[i].state = 1
  <2> DEFINE k == t.slots[i].key
             v == t.slots[i].value
             u == Put(c, k, v)
  <2>1. k \in Key /\ v \in Value /\ t.slots[i] = EntryOf(k, v)
    BY <1>1, <1>6, SlotFacts
  <2>2. Copy(t, c, i) = u
    BY <1>6 DEF Copy
  <2>3. Holds(t, i, k)
    BY <2>1, EntryFacts DEF Holds
  <2> HIDE DEF k, v, u
  <2>4. c.count < c.capacity
    BY <1>1, <1>2, <1>3
  <2>5. /\ TableOK(u) /\ u.capacity = c.capacity
        /\ u.count \in {c.count, c.count + 1}
        /\ \A l, w : Entry(u, l, w) <=> \/ l = k /\ w = v
                                        \/ l # k /\ Entry(c, l, w)
    BY <1>3, <2>1, <2>4, PutOK DEF u
  <2>6. u.count <= i + 1
    BY <1>2, <1>3, <2>5
  <2>7. ASSUME NEW s \in 0 .. i - 1, NEW w, t.slots[s] = EntryOf(k, w)
        PROVE  FALSE
    <3>1. s \in SlotsOf(t) /\ s # i
      BY <1>1, <1>2
    <3>2. Holds(t, s, k)
      BY <2>7, <3>1, EntryFacts DEF Holds
    <3> QED
      BY <1>1, <2>1, <2>3, <3>1, <3>2 DEF Unique
  <2>8. \A l, w : t.slots[i] = EntryOf(l, w) <=> l = k /\ w = v
    BY <2>1, EntryFacts
  <2>9. \A l, w : Entry(u, l, w) <=>
           \E s \in 0 .. (i + 1) - 1 : t.slots[s] = EntryOf(l, w)
    <3> TAKE l, w
    <3>1. Entry(c, l, w) <=> \E s \in 0 .. i - 1 : t.slots[s] = EntryOf(l, w)
      BY DEF Partial
    <3>2. (\E s \in 0 .. (i + 1) - 1 : t.slots[s] = EntryOf(l, w)) <=>
             \/ l = k /\ w = v
             \/ \E s \in 0 .. i - 1 : t.slots[s] = EntryOf(l, w)
      BY <1>4, <2>8
    <3>3. CASE l = k
      BY <2>5, <2>7, <3>2, <3>3
    <3>4. CASE l # k
      BY <2>5, <3>1, <3>2, <3>4
    <3> QED
      BY <3>3, <3>4
  <2> QED
    BY <1>3, <2>2, <2>5, <2>6, <2>9 DEF Partial
<1> QED
  BY <1>5, <1>6

\* The grown table holds the same entries.
LEMMA GrowOK ==
    ASSUME NEW t, TableOK(t)
    PROVE  /\ TableOK(Grow(t))
           /\ Grow(t).capacity = 2 * t.capacity
           /\ Grow(t).count <= t.capacity
           /\ \A k, v : Entry(Grow(t), k, v) <=> Entry(t, k, v)
<1>1. t.capacity \in Nat \ {0} /\ SlotsOf(t) = 0 .. t.capacity - 1
  BY DEF TableOK, Shape, SlotsOf
<1>2. PICK f : Copies(t, f, t.capacity) /\ Grow(t) = f[t.capacity]
  BY <1>1, GrowDef
<1>3. \A i \in 0 .. t.capacity :
         /\ i = 0 => f[i] = Empty(2 * t.capacity)
         /\ i # 0 => f[i] = Copy(t, f[i - 1], i - 1)
  BY <1>2 DEF Copies
<1> DEFINE bad == {i \in 0 .. t.capacity : ~Partial(t, f[i], i)}
<1>4. bad = {}
  <2>1. SUFFICES ASSUME bad # {} PROVE FALSE
    OBVIOUS
  <2>2. bad \subseteq Nat
    BY <1>1
  <2>3. PICK i \in bad : \A j \in bad : i <= j
    BY <2>1, <2>2, Least
  <2>4. i \in 0 .. t.capacity /\ ~Partial(t, f[i], i)
    OBVIOUS
  <2>5. CASE i = 0
    <3>1. f[i] = Empty(2 * t.capacity) /\ 2 * t.capacity \in Nat \ {0}
      BY <1>1, <1>3, <2>4, <2>5
    <3>2. /\ TableOK(f[i]) /\ f[i].capacity = 2 * t.capacity
          /\ f[i].count = 0 /\ \A k, v : ~Entry(f[i], k, v)
      BY <3>1, EmptyOK
    <3>3. 0 .. i - 1 = {} /\ f[i].count <= i
      BY <2>5, <3>2
    <3>4. Partial(t, f[i], i)
      BY <3>2, <3>3 DEF Partial
    <3> QED
      BY <2>4, <3>4
  <2>6. CASE i # 0
    <3>1. /\ i - 1 \in 0 .. t.capacity /\ i - 1 \in SlotsOf(t)
          /\ ~(i <= i - 1) /\ (i - 1) + 1 = i
      BY <1>1, <2>4, <2>6
    <3>2. Partial(t, f[i - 1], i - 1)
      BY <2>3, <3>1
    <3>3. Partial(t, Copy(t, f[i - 1], i - 1), (i - 1) + 1)
      BY <3>1, <3>2, CopyOK
    <3> QED
      BY <1>3, <2>4, <2>6, <3>1, <3>3
  <2> QED
    BY <2>5, <2>6
<1>5. Partial(t, Grow(t), t.capacity)
  BY <1>1, <1>2, <1>4
<1> QED
  BY <1>1, <1>5 DEF Partial, Entry

-----------------------------------------------------------------------------
(***************************************************************************)
(* The map                                                                 *)
(***************************************************************************)

\* get tells the entries.
LEMMA GetEntry ==
    ASSUME NEW t, TableOK(t), NEW k \in Key
    PROVE  /\ \A v : Entry(t, k, v) => Get(t, k) = v
           /\ (\A v : ~Entry(t, k, v)) => Get(t, k) = None
<1>1. t.slots \in [SlotsOf(t) -> Slot]
  BY DEF TableOK, Shape
<1>2. ASSUME NEW v, Entry(t, k, v) PROVE Get(t, k) = v
  <2>1. PICK s \in SlotsOf(t) : t.slots[s] = EntryOf(k, v)
    BY <1>2 DEF Entry
  <2>2. Holds(t, s, k) /\ t.slots[s].value = v
    BY <2>1, EntryFacts DEF Holds
  <2> QED
    BY <2>2, Lookup
<1>3. ASSUME \A v : ~Entry(t, k, v) PROVE Get(t, k) = None
  <2>1. ASSUME NEW s \in SlotsOf(t), Holds(t, s, k) PROVE FALSE
    <3>1. t.slots[s] = EntryOf(k, t.slots[s].value)
      BY <1>1, <2>1, SlotFacts DEF Holds
    <3> QED
      BY <1>3, <3>1 DEF Entry
  <2> QED
    BY <2>1, Lookup
<1> QED
  BY <1>2, <1>3

\* Tables with the same entries of k give the same value.
LEMMA SameGet ==
    ASSUME NEW t, NEW u, TableOK(t), TableOK(u), NEW k \in Key,
           \A v : Entry(u, k, v) <=> Entry(t, k, v)
    PROVE  Get(u, k) = Get(t, k)
<1>1. CASE \E v : Entry(t, k, v)
  BY <1>1, GetEntry
<1>2. CASE \A v : ~Entry(t, k, v)
  BY <1>2, GetEntry
<1> QED
  BY <1>1, <1>2

\* set: the load bound leaves room in the table that is put into.
LEMMA SetOK ==
    ASSUME Inv, NEW k \in Key, NEW v \in Value, Set(k, v)
    PROVE  /\ Inv'
           /\ Get(table', k) = v
           /\ \A l \in Key : l # k => Get(table', l) = Get(table, l)
<1> DEFINE t == IF table.count * 4 >= table.capacity * 3
                THEN Grow(table) ELSE table
<1>1. TableOK(table) /\ table.capacity \in Nat \ {0} /\ table.count \in Nat
  BY DEF Inv, TableOK, Shape
<1>2. /\ TableOK(t) /\ t.count < t.capacity /\ t.count * 4 < t.capacity * 3
      /\ \A l, w : Entry(t, l, w) <=> Entry(table, l, w)
  <2>1. CASE table.count * 4 >= table.capacity * 3
    <3>1. /\ TableOK(t) /\ t.capacity = 2 * table.capacity
          /\ t.count <= table.capacity
          /\ \A l, w : Entry(t, l, w) <=> Entry(table, l, w)
      BY <1>1, <2>1, GrowOK
    <3>2. t.count \in Nat
      BY <3>1 DEF TableOK, Shape
    <3> HIDE DEF t
    <3> QED
      BY <1>1, <3>1, <3>2
  <2>2. CASE ~(table.count * 4 >= table.capacity * 3)
    <3>1. t = table
      BY <2>2
    <3> HIDE DEF t
    <3> QED
      BY <1>1, <2>2, <3>1
  <2> QED
    BY <2>1, <2>2
<1>3. table' = Put(t, k, v)
  BY DEF Set
<1> HIDE DEF t
<1>4. /\ TableOK(table') /\ table'.capacity = t.capacity
      /\ table'.count \in {t.count, t.count + 1}
      /\ \A l, w : Entry(table', l, w) <=> \/ l = k /\ w = v
                                           \/ l # k /\ Entry(table, l, w)
  BY <1>2, <1>3, PutOK
<1>5. t.count \in Nat /\ t.capacity \in Nat
  BY <1>2 DEF TableOK, Shape
<1>6. (table'.count - 1) * 4 < table'.capacity * 3
  BY <1>2, <1>4, <1>5
<1>7. TableOK(table)'
  BY <1>4 DEF TableOK, Shape, Unique, Reachable, Used, Holds, Reaches, Passes,
             Probe, HashIndex, Steps, SlotsOf
<1>8. Inv'
  BY <1>6, <1>7 DEF Inv, LoadBounded
<1>9. Get(table', k) = v
  BY <1>4, GetEntry
<1>10. \A l \in Key : l # k => Get(table', l) = Get(table, l)
  BY <1>1, <1>4, SameGet
<1> QED
  BY <1>8, <1>9, <1>10

LEMMA RemovesOK ==
    ASSUME Inv, NEW k \in Key, Remove(k)
    PROVE  /\ Inv'
           /\ Get(table', k) = None
           /\ \A l \in Key : l # k => Get(table', l) = Get(table, l)
<1>1. TableOK(table) /\ table.capacity \in Nat \ {0} /\ table.count \in Nat
  BY DEF Inv, TableOK, Shape
<1>2. /\ TableOK(table') /\ table'.capacity = table.capacity
      /\ table'.count = table.count - 1
      /\ \A l, w : Entry(table', l, w) <=> l # k /\ Entry(table, l, w)
  <2>1. /\ Has(table, k)
        /\ table' = [table EXCEPT
              !.slots[Probe(table, k, Min(Hits(table, k)))] = Removed,
              !.count = @ - 1]
    BY DEF Remove
  <2>2. Probe(table, k, Min(Hits(table, k))) \in SlotsOf(table)
    BY <1>1, <2>1, HitFacts DEF TableOK, Holds
  <2>3. Removed \in Slot
    BY DEF Slot
  <2>4. Changed(table, table', Probe(table, k, Min(Hits(table, k))), Removed,
                table.count - 1)
    BY <1>1, <2>1, <2>2, <2>3, Writes DEF TableOK
  <2> QED
    BY <1>1, <2>1, <2>4, RemoveOK
<1>3. (table'.count - 1) * 4 < table'.capacity * 3
  BY <1>1, <1>2 DEF Inv, LoadBounded
<1>4. TableOK(table)'
  BY <1>2 DEF TableOK, Shape, Unique, Reachable, Used, Holds, Reaches, Passes,
             Probe, HashIndex, Steps, SlotsOf
<1>5. Inv'
  BY <1>3, <1>4 DEF Inv, LoadBounded
<1>6. Get(table', k) = None
  BY <1>2, GetEntry
<1>7. \A l \in Key : l # k => Get(table', l) = Get(table, l)
  BY <1>1, <1>2, SameGet
<1> QED
  BY <1>5, <1>6, <1>7

LEMMA Starts ==
    ASSUME Init
    PROVE  Inv /\ \A k \in Key : Get(table, k) = None
<1>1. /\ TableOK(table) /\ table.capacity = Capacity /\ table.count = 0
      /\ \A k, v : ~Entry(table, k, v)
  BY HashMapAssumption, EmptyOK DEF Init
<1>2. LoadBounded
  BY <1>1, HashMapAssumption DEF LoadBounded
<1> QED
  BY <1>1, <1>2, GetEntry DEF Inv

LEMMA Inductive == Spec => []Inv
<1>1. Init => Inv
  BY Starts
<1>2. Inv /\ [Next]_table => Inv'
  <2>1. SUFFICES ASSUME Inv, [Next]_table PROVE Inv'
    OBVIOUS
  <2>2. CASE Next
    BY <2>1, <2>2, SetOK, RemovesOK DEF Next
  <2>3. CASE UNCHANGED table
    BY <2>1, <2>3 DEF Inv, LoadBounded, TableOK, Shape, Unique, Reachable,
                      Used, Holds, Reaches, Passes, Probe, HashIndex, Steps,
                      SlotsOf
  <2> QED
    BY <2>1, <2>2, <2>3
<1> QED
  BY <1>1, <1>2, PTL DEF Spec

\* A key has at most one entry, get and has find it wherever it is, and there
\* are as many entries as length says: for any keys, however they collide, and
\* any sequence of set and remove (map.djinn).
THEOREM LookupsExact == Spec => []LookupExact
<1>1. Inv => LookupExact
  <2>1. SUFFICES ASSUME Inv PROVE LookupExact
    OBVIOUS
  <2>2. TableOK(table)
    BY <2>1 DEF Inv
  <2>3. DOMAIN table.slots = SlotsOf(table)
    BY <2>2 DEF TableOK, Shape
  <2>4. table.count = Cardinality({i \in DOMAIN table.slots :
                                      table.slots[i].state = 1})
    BY <2>2, <2>3 DEF TableOK, Used
  <2>5. ASSUME NEW k \in Key
        PROVE  Cardinality(Holding(k)) <= 1 /\ Has(table, k) = (Holding(k) # {})
    <3>1. \A s : s \in Holding(k) <=> s \in SlotsOf(table) /\ Holds(table, s, k)
      BY <2>3 DEF Holding, Holds
    <3>2. Has(table, k) <=> Holding(k) # {}
      BY <2>2, <3>1, Lookup
    <3>3. Cardinality(Holding(k)) <= 1
      <4>1. CASE Holding(k) = {}
        <5>1. Cardinality(Holding(k)) = 0
          BY <4>1, FS_EmptySet
        <5> QED
          BY <5>1
      <4>2. CASE Holding(k) # {}
        <5>1. PICK s : s \in Holding(k)
          BY <4>2
        <5>2. Holding(k) = {s}
          BY <2>2, <3>1, <5>1 DEF TableOK, Unique
        <5>3. Cardinality(Holding(k)) = 1
          BY <5>2, FS_Singleton
        <5> QED
          BY <5>3
      <4> QED
        BY <4>1, <4>2
    <3>4. Has(table, k) \in BOOLEAN
      BY DEF Has
    <3> QED
      BY <3>2, <3>3, <3>4
  <2> QED
    BY <2>4, <2>5 DEF LookupExact
<1> QED
  BY <1>1, Inductive, PTL

\* The table is never fuller than three quarters and one entry: _grow comes in
\* time, for any capacity to start with (map.djinn, set).
THEOREM LoadStaysBounded == Spec => []LoadBounded
<1>1. Inv => LoadBounded
  BY DEF Inv
<1> QED
  BY <1>1, Inductive, PTL

\* The hash map implements a map: seen through get, set(k, v) changes the value
\* of k alone, growing changes nothing, and remove(k) makes k unknown.
THEOREM RefinesMap == Spec => ImplementsMap
<1>1. Init => Map!Init
  <2>1. SUFFICES ASSUME Init PROVE Map!Init
    OBVIOUS
  <2>2. \A k \in Key : Get(table, k) = None
    BY <2>1, Starts
  <2> QED
    BY <2>2 DEF Map!Init, Contents
<1>2. Inv /\ [Next]_table => [Map!Next]_Contents
  <2>1. SUFFICES ASSUME Inv, [Next]_table PROVE [Map!Next]_Contents
    OBVIOUS
  <2>2. Contents' = [k \in Key |-> Get(table', k)]
    BY DEF Contents, Get, Has, Hits, Reach, Probe, HashIndex, Steps
  <2>3. ASSUME NEW k \in Key, NEW v \in Value, Set(k, v)
        PROVE  Map!Set(k, v)
    <3>1. /\ Get(table', k) = v
          /\ \A l \in Key : l # k => Get(table', l) = Get(table, l)
      BY <2>1, <2>3, SetOK
    <3>2. Contents' = [Contents EXCEPT ![k] = v]
      BY <2>2, <3>1 DEF Contents
    <3> QED
      BY <3>2 DEF Map!Set
  <2>4. ASSUME NEW k \in Key, Remove(k)
        PROVE  Map!Remove(k)
    <3>1. /\ Get(table', k) = None
          /\ \A l \in Key : l # k => Get(table', l) = Get(table, l)
      BY <2>1, <2>4, RemovesOK
    <3>2. Contents' = [Contents EXCEPT ![k] = None]
      BY <2>2, <3>1 DEF Contents
    <3> QED
      BY <3>2 DEF Map!Remove
  <2>5. CASE Next
    BY <2>3, <2>4, <2>5 DEF Next, Map!Next
  <2>6. CASE UNCHANGED table
    BY <2>2, <2>6 DEF Contents
  <2> QED
    BY <2>1, <2>5, <2>6
<1> QED
  BY <1>1, <1>2, Inductive, PTL DEF Spec, ImplementsMap, Map!Spec

=============================================================================
