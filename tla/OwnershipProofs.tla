-------------------------- MODULE OwnershipProofs --------------------------
(***************************************************************************)
(* Proofs about the use-after-move check, for programs with any names, any *)
(* number of variables and any nesting.                                    *)
(*                                                                         *)
(* The tracker knows names, the program moves variables.  Without "shadow" *)
(* a name stands for one variable at a time (OneHolder, Distinct), and the *)
(* properties come down to two relations between the entry of a name and   *)
(* the variable it stands for: a name that is marked moved stands for a    *)
(* variable that is suspect, that is, was moved on a path to this point or *)
(* on one that left before it (Sound), and a suspect variable is marked    *)
(* (Complete), also where the paths of a branch meet again                 *)
(* (BranchesComplete).  A return only turns what may have been moved into  *)
(* what was moved on a path that left: what is suspect stays.              *)
(***************************************************************************)
EXTENDS Ownership, TLAPS

\* Name n stands for variable v.
Binds(s, n, v) == \E i \in 1 .. Len(s) : s[i].symbols[n] = v

\* Only one scope defines a name, ...
OneHolder(s) ==
    \A i, j \in 1 .. Len(s) : \A n \in Name :
        s[i].symbols[n] # NoVar /\ s[j].symbols[n] # NoVar => i = j

\* ... no variable has two names, ...
Distinct(s) ==
    \A n, m \in Name : \A v \in Var : Binds(s, n, v) /\ Binds(s, m, v) => n = m

\* ... and the scopes know no variable that is yet to come.
Known(s, next) == \A n \in Name : \A v \in Var : Binds(s, n, v) => v < next

\* The scopes of a function, and what they may be.
Nested(s, fs) ==
    \A i \in 1 .. Len(s) :
        /\ s[i].kind = "function" => i = 1
        /\ i = 1 => s[i].kind = "function"
        /\ s[i].kind = "loop" => "loop" \in fs
        /\ s[i].kind = "else" => "else" \in fs

\* Where a scope began, only variables that are not copied may have been
\* moved.
Befores(s, next, cp) ==
    \A i \in 1 .. Len(s) : \A v \in s[i].before : v < next /\ v \notin cp

ScopesOK(s, next, cp, fs) ==
    /\ OneHolder(s) /\ Distinct(s) /\ Known(s, next)
    /\ Nested(s, fs)
    /\ Befores(s, next, cp)

\* The entry of a local variable has its kind.
Entries(s, tr, cp, ps) ==
    \A n \in Name : \A v \in Var : Binds(s, n, v) /\ v \notin ps =>
        /\ v \in cp => tr[n] = "copy"
        /\ v \notin cp => tr[n] \in {"owned", "moved"}

\* What is marked moved is one of mm.
Sound(s, tr, mm) ==
    \A n \in Name : \A v \in Var :
        Binds(s, n, v) /\ tr[n] = "moved" => v \in mm

\* What is one of mm is marked, unless the tracker does not know it.
Complete(s, tr, ps, mm) ==
    \A n \in Name : \A v \in mm :
        Binds(s, n, v) => tr[n] = "moved" \/ v \in ps

BranchesComplete(s, tr, ps) ==
    \A i \in 1 .. Len(s) :
        s[i].kind \in {"then", "else"} => Complete(s, tr, ps, s[i].before)

\* The invariant of programs without "shadow".
Core ==
    /\ TypeOK
    /\ ScopesOK(scopes, nextVar, copies, features)
    /\ "untold" \notin features => untold = {}
    /\ Entries(scopes, tracked, copies, untold)
    /\ "else" \notin features
          => Sound(scopes, tracked, Suspect \cup untold)
    /\ features \cap {"reinit", "loop"} = {}
          => /\ Complete(scopes, tracked, untold, Suspect)
             /\ BranchesComplete(scopes, tracked, untold)
             /\ missed \subseteq untold
    /\ NoFalseAlarm

Inv == "shadow" \notin features => Core

-----------------------------------------------------------------------------
(***************************************************************************)
(* Scopes                                                                  *)
(***************************************************************************)

LEMMA ScopeFacts ==
    ASSUME NEW s \in Seq(Scope), NEW i \in 1 .. Len(s)
    PROVE  /\ s[i] \in Scope
           /\ s[i].symbols \in [Name -> Var \cup {NoVar}]
           /\ s[i].before \in SUBSET Var
<1>1. s[i] \in Scope
    OBVIOUS
<1>2. QED
    BY <1>1 DEF Scope

LEMMA VarFacts ==
    /\ NoVar \notin Var
    /\ \A v \in Var : v \in Nat /\ 1 <= v /\ v <= MaxVars
    /\ \A v \in Nat : 1 <= v /\ v <= MaxVars => v \in Var
    /\ \A next \in Nat : \A v \in Var : v < next => v \in 1 .. next - 1
BY OwnershipAssumption DEF Var, NoVar

\* A scope is opened.
LEMMA ScopePushed ==
    ASSUME NEW s \in Seq(Scope), Len(s) >= 1,
           NEW next, NEW cp, NEW fs, ScopesOK(s, next, cp, fs),
           NEW kind \in {"block", "then", "else", "loop"},
           kind = "loop" => "loop" \in fs, kind = "else" => "else" \in fs,
           NEW before \in SUBSET Var,
           \A v \in before : v < next /\ v \notin cp
    PROVE  LET t == Append(s, NewScope(kind, before))
           IN  /\ t \in Seq(Scope) /\ Len(t) = Len(s) + 1
               /\ \A i \in 1 .. Len(s) : t[i] = s[i]
               /\ t[Len(s) + 1].kind = kind
               /\ t[Len(s) + 1].before = before
               /\ ScopesOK(t, next, cp, fs)
               /\ \A n \in Name : \A v \in Var :
                     Binds(t, n, v) <=> Binds(s, n, v)
<1> DEFINE k == Len(s)
           b == NewScope(kind, before)
           t == Append(s, b)
<1>0. k \in Nat \ {0}
    OBVIOUS
<1>1. /\ b \in Scope /\ b.kind = kind /\ b.before = before
      /\ \A n \in Name : b.symbols[n] = NoVar
    <2>1. Empty \in [Name -> Var \cup {NoVar}]
        BY DEF Empty
    <2>2. QED
        BY <2>1 DEF NewScope, Scope, Empty
<1> HIDE DEF b
<1>2. /\ t \in Seq(Scope) /\ Len(t) = k + 1 /\ t[k + 1] = b
      /\ \A i \in 1 .. k : t[i] = s[i]
    BY <1>1
<1>3. /\ \A i \in 1 .. k + 1 : i = k + 1 \/ i \in 1 .. k
      /\ \A i \in 1 .. k : i \in 1 .. k + 1 /\ i # k + 1
      /\ k + 1 \in 1 .. k + 1 /\ k + 1 # 1 /\ 1 \in 1 .. k
    BY <1>0
<1> HIDE DEF k, t
<1>4. \A n \in Name : \A v \in Var : Binds(t, n, v) <=> Binds(s, n, v)
    BY <1>1, <1>2, <1>3, VarFacts DEF Binds, k
<1>5. OneHolder(t)
    BY <1>1, <1>2, <1>3 DEF ScopesOK, OneHolder, k
<1>6. Distinct(t) /\ Known(t, next)
    BY <1>4 DEF ScopesOK, Distinct, Known
<1>7. Nested(t, fs)
    BY <1>1, <1>2, <1>3 DEF ScopesOK, Nested, k
<1>8. Befores(t, next, cp)
    BY <1>1, <1>2, <1>3 DEF ScopesOK, Befores, k
<1>9. ScopesOK(t, next, cp, fs)
    BY <1>5, <1>6, <1>7, <1>8 DEF ScopesOK
<1>10. QED
    BY <1>1, <1>2, <1>4, <1>9 DEF k, t, b

\* The innermost scope is closed.
LEMMA ScopePopped ==
    ASSUME NEW s \in Seq(Scope), Len(s) >= 2,
           NEW next, NEW cp, NEW fs, ScopesOK(s, next, cp, fs)
    PROVE  LET t == Front(s)
           IN  /\ t \in Seq(Scope) /\ Len(t) = Len(s) - 1
               /\ \A i \in 1 .. Len(t) : t[i] = s[i]
               /\ ScopesOK(t, next, cp, fs)
               /\ \A n \in Name : \A v \in Var :
                     Binds(t, n, v) => Binds(s, n, v)
<1> DEFINE k == Len(s) - 1
           t == Front(s)
<1>1. /\ k \in Nat \ {0} /\ t \in Seq(Scope) /\ Len(t) = k
      /\ \A i \in 1 .. k : t[i] = s[i]
    <2>1. Len(s) \in Nat
        OBVIOUS
    <2>2. \A m \in Nat : m >= 2 => m - 1 \in Nat \ {0} /\ m - 1 <= m
        OBVIOUS
    <2>3. k \in Nat \ {0} /\ k <= Len(s)
        BY <2>1, <2>2
    <2>4. t = SubSeq(s, 1, k)
        BY DEF Front
    <2> HIDE DEF t, k
    <2>5. QED
        BY <2>1, <2>3, <2>4
<1>2. \A i \in 1 .. k : i \in 1 .. Len(s)
    OBVIOUS
<1> HIDE DEF k, t
<1>3. \A n \in Name : \A v \in Var : Binds(t, n, v) => Binds(s, n, v)
    BY <1>1, <1>2 DEF Binds
<1>4. OneHolder(t)
    BY <1>1, <1>2 DEF ScopesOK, OneHolder
<1>5. Distinct(t) /\ Known(t, next)
    BY <1>3 DEF ScopesOK, Distinct, Known
<1>6. Nested(t, fs)
    BY <1>1, <1>2 DEF ScopesOK, Nested
<1>7. Befores(t, next, cp)
    BY <1>1, <1>2 DEF ScopesOK, Befores
<1>8. ScopesOK(t, next, cp, fs)
    BY <1>4, <1>5, <1>6, <1>7 DEF ScopesOK
<1>9. QED
    BY <1>1, <1>3, <1>8 DEF k, t

\* Bind, for any variable.
BoundTo(s, n, v) == [s EXCEPT ![Len(s)].symbols[n] = v]

\* The innermost scope defines a name that no scope defines.
LEMMA ScopeBound ==
    ASSUME NEW s \in Seq(Scope), Len(s) >= 1,
           NEW next \in Var, NEW cp, NEW fs, ScopesOK(s, next, cp, fs),
           NEW n \in Name, \A i \in 1 .. Len(s) : s[i].symbols[n] = NoVar,
           NEW cq, \A v \in cq : v \in cp \/ v = next
    PROVE  LET t == BoundTo(s, n, next)
           IN  /\ t \in Seq(Scope) /\ Len(t) = Len(s)
               /\ \A i \in 1 .. Len(s) : /\ t[i].kind = s[i].kind
                                         /\ t[i].before = s[i].before
               /\ ScopesOK(t, next + 1, cq, fs)
               /\ \A m \in Name : \A v \in Var :
                     Binds(t, m, v) <=> \/ m = n /\ v = next
                                        \/ m # n /\ Binds(s, m, v)
<1> DEFINE k == Len(s)
           b == [s[k] EXCEPT !.symbols[n] = next]
           t == BoundTo(s, n, next)
<1>0. k \in Nat \ {0} /\ k \in 1 .. k
    OBVIOUS
<1>1. /\ b \in Scope /\ b.kind = s[k].kind /\ b.before = s[k].before
      /\ \A m \in Name : b.symbols[m] = IF m = n THEN next
                                        ELSE s[k].symbols[m]
    BY <1>0, ScopeFacts DEF Scope
<1>2. t = [s EXCEPT ![k] = b]
    BY <1>0 DEF BoundTo
<1> HIDE DEF b, t
<1>3. /\ t \in Seq(Scope) /\ Len(t) = k
      /\ \A i \in 1 .. k : t[i] = IF i = k THEN b ELSE s[i]
    BY <1>0, <1>1, <1>2
<1> HIDE DEF k
<1>4. \A i \in 1 .. k : /\ t[i].kind = s[i].kind
                        /\ t[i].before = s[i].before
    BY <1>1, <1>3
<1>5. \A i \in 1 .. k : \A m \in Name :
          /\ m # n => t[i].symbols[m] = s[i].symbols[m]
          /\ i # k => t[i].symbols[m] = s[i].symbols[m]
    BY <1>1, <1>3
<1>6. t[k].symbols[n] = next
    BY <1>0, <1>1, <1>3
<1>7. \A i \in 1 .. k : t[i].symbols[n] = IF i = k THEN next ELSE NoVar
    BY <1>5, <1>6 DEF k
<1>8. \A m \in Name : \A v \in Var :
          Binds(t, m, v) <=> \/ m = n /\ v = next
                             \/ m # n /\ Binds(s, m, v)
    <2>1. ASSUME NEW v \in Var PROVE Binds(t, n, v) <=> v = next
        BY <1>0, <1>3, <1>7, VarFacts DEF Binds
    <2>2. ASSUME NEW m \in Name, m # n, NEW v \in Var
          PROVE  Binds(t, m, v) <=> Binds(s, m, v)
        BY <1>3, <1>5, <2>2 DEF Binds, k
    <2>3. QED
        BY <2>1, <2>2
<1>9. OneHolder(t)
    <2>1. ASSUME NEW i \in 1 .. k, NEW j \in 1 .. k, NEW m \in Name,
                 t[i].symbols[m] # NoVar, t[j].symbols[m] # NoVar
          PROVE  i = j
        <3>1. CASE m = n
            BY <1>7, <2>1, <3>1
        <3>2. CASE m # n
            BY <1>5, <2>1, <3>2 DEF ScopesOK, OneHolder, k
        <3>3. QED
            BY <3>1, <3>2
    <2>2. QED
        BY <1>3, <2>1 DEF OneHolder
<1>10. \A m \in Name : \A v \in Var : Binds(s, m, v) => v < next
    BY DEF ScopesOK, Known
<1>11. next \in Nat /\ ~(next < next)
    BY VarFacts
<1>12. Distinct(t)
    BY <1>8, <1>10, <1>11 DEF ScopesOK, Distinct
<1>13. Known(t, next + 1)
    <2>1. ASSUME NEW m \in Name, NEW v \in Var, Binds(t, m, v)
          PROVE  v < next + 1
        <3>1. v = next \/ v < next
            BY <1>8, <1>10, <2>1
        <3>2. QED
            BY <1>11, <3>1, VarFacts
    <2>2. QED
        BY <2>1 DEF Known
<1>14. Nested(t, fs)
    BY <1>3, <1>4 DEF ScopesOK, Nested, k
<1>15. Befores(t, next + 1, cq)
    <2>1. ASSUME NEW i \in 1 .. k, NEW v \in t[i].before
          PROVE  v < next + 1 /\ v \notin cq
        <3>1. v \in s[i].before
            BY <1>4
        <3>2. v < next /\ v \notin cp
            BY <3>1 DEF ScopesOK, Befores, k
        <3>3. v \in Nat
            BY <3>1, ScopeFacts, VarFacts DEF k
        <3>4. v < next + 1 /\ v # next
            BY <1>11, <3>2, <3>3
        <3>5. QED
            BY <3>2, <3>4
    <2>2. QED
        BY <1>3, <2>1 DEF Befores
<1>16. ScopesOK(t, next + 1, cq, fs)
    BY <1>9, <1>12, <1>13, <1>14, <1>15 DEF ScopesOK
<1>17. QED
    BY <1>3, <1>4, <1>8, <1>16 DEF k, t

-----------------------------------------------------------------------------
(***************************************************************************)
(* The state in the invariant                                              *)
(***************************************************************************)

LEMMA TypeFacts ==
    ASSUME TypeOK
    PROVE  /\ scopes \in Seq(Scope) /\ Len(scopes) \in Nat \ {0}
           /\ mayMoved \subseteq Suspect /\ left \subseteq Suspect
           /\ Len(scopes) \in 1 .. Len(scopes) /\ Len(scopes) <= MaxScopes
           /\ Inner = scopes[Len(scopes)]
           /\ nextVar \in Nat \ {0} /\ nextVar <= MaxVars + 1
           /\ \A v \in copies \cup untold \cup Suspect \cup missed :
                 v \in Var /\ v < nextVar
           /\ copies \cap mayMoved = {}
           /\ tracked \in [Name -> Entry]
<1>1. MaxVars \in Nat
    BY OwnershipAssumption
<1>2. \A s \in {copies, untold, mayMoved, left, missed} :
          s \subseteq 1 .. nextVar - 1
    BY DEF TypeOK
<1>3. nextVar \in Nat \ {0} /\ nextVar <= MaxVars + 1
    BY <1>1 DEF TypeOK
<1>4. \A v \in 1 .. nextVar - 1 : v \in Var /\ v < nextVar
    BY <1>1, <1>3 DEF Var
<1>5. /\ copies \subseteq 1 .. nextVar - 1 /\ untold \subseteq 1 .. nextVar - 1
      /\ mayMoved \subseteq 1 .. nextVar - 1 /\ left \subseteq 1 .. nextVar - 1
      /\ missed \subseteq 1 .. nextVar - 1
    BY <1>2
<1>6. \A v \in copies \cup untold \cup Suspect \cup missed :
          v \in Var /\ v < nextVar
    BY <1>4, <1>5 DEF Suspect
<1>7. /\ scopes \in Seq(Scope) /\ Len(scopes) \in Nat \ {0}
      /\ Len(scopes) \in 1 .. Len(scopes) /\ Len(scopes) <= MaxScopes
    BY OwnershipAssumption DEF TypeOK
<1>8. Inner = scopes[Len(scopes)]
    BY DEF Inner, Last
<1>9. QED
    BY <1>3, <1>6, <1>7, <1>8 DEF TypeOK, Suspect

\* The converse, for the next state.
LEMMA TypeIntro ==
    ASSUME features' \in FeatureSets, tracked' \in [Name -> Entry],
           scopes' \in Seq(Scope), Len(scopes') \in 1 .. MaxScopes,
           nextVar' \in Nat \ {0}, nextVar' <= MaxVars + 1,
           \A v \in copies' \cup untold' \cup mayMoved' \cup left' \cup missed' :
               v \in Var /\ v < nextVar',
           copies' \cap mayMoved' = {},
           status' \in {"binding", "rejected"}, alarm' \in Var \cup {NoVar}
    PROVE  TypeOK'
<1>1. MaxVars \in Nat
    BY OwnershipAssumption
<1>2. \A v \in Var : v < nextVar' => v \in 1 .. nextVar' - 1
    BY VarFacts
<1>3. /\ copies' \subseteq 1 .. nextVar' - 1 /\ untold' \subseteq 1 .. nextVar' - 1
      /\ mayMoved' \subseteq 1 .. nextVar' - 1
      /\ left' \subseteq 1 .. nextVar' - 1
      /\ missed' \subseteq 1 .. nextVar' - 1
    BY <1>2
<1>4. \A s \in {copies', untold', mayMoved', left', missed'} :
          s \subseteq 1 .. nextVar' - 1
    BY <1>3
<1>5. nextVar' \in 1 .. MaxVars + 1
    BY <1>1
<1>6. QED
    BY <1>4, <1>5 DEF TypeOK

\* lookupVariable finds the variable that the name stands for.
LEMMA LookupFacts ==
    ASSUME Core, NEW n \in Name
    PROVE  /\ Lookup(n) \in Var \cup {NoVar}
           /\ \A v \in Var : Binds(scopes, n, v) <=> Lookup(n) = v
           /\ ~Visible(n) =>
                 \A i \in 1 .. Len(scopes) : scopes[i].symbols[n] = NoVar
           /\ Visible(n) => /\ Lookup(n) \in Var /\ Lookup(n) < nextVar
                            /\ Binds(scopes, n, Lookup(n))
<1> DEFINE holders == {i \in DOMAIN scopes : scopes[i].symbols[n] # NoVar}
<1>1. /\ scopes \in Seq(Scope) /\ DOMAIN scopes = 1 .. Len(scopes)
      /\ Len(scopes) \in Nat
    BY TypeFacts DEF Core
<1>2. \A i \in 1 .. Len(scopes) : scopes[i].symbols[n] \in Var \cup {NoVar}
    BY <1>1, ScopeFacts
<1>3. \A i, j \in holders : i = j
    BY <1>1 DEF Core, ScopesOK, OneHolder
<1>4. CASE holders = {}
    <2>1. \A i \in 1 .. Len(scopes) : scopes[i].symbols[n] = NoVar
        BY <1>1, <1>4
    <2>2. Lookup(n) = NoVar
        BY <1>4 DEF Lookup
    <2>3. QED
        BY <2>1, <2>2, VarFacts DEF Binds, Visible
<1>5. CASE holders # {}
    <2>1. PICK k \in holders : TRUE
        BY <1>5
    <2>2. k \in 1 .. Len(scopes) /\ k \in Nat /\ scopes[k].symbols[n] # NoVar
        BY <1>1, <2>1
    <2>3. \A j \in holders : j <= k
        BY <1>3, <2>1, <2>2
    <2> DEFINE c == CHOOSE i \in holders : \A j \in holders : j <= i
    <2>4. c \in holders
        BY <2>1, <2>3
    <2>5. c = k
        BY <1>3, <2>1, <2>4
    <2>6. Lookup(n) = scopes[c].symbols[n]
        BY <1>5 DEF Lookup
    <2>7. Lookup(n) = scopes[k].symbols[n] /\ Lookup(n) \in Var
        BY <1>2, <2>2, <2>5, <2>6
    <2> HIDE DEF c
    <2>8. \A i \in 1 .. Len(scopes) : scopes[i].symbols[n] \in Var => i = k
        BY <1>1, <1>3, <2>1, VarFacts
    <2> HIDE DEF holders
    <2>9. \A v \in Var : Binds(scopes, n, v) <=> Lookup(n) = v
        BY <2>2, <2>7, <2>8 DEF Binds
    <2>10. Lookup(n) < nextVar
        BY <2>7, <2>9 DEF Core, ScopesOK, Known
    <2>11. QED
        BY <2>7, <2>9, <2>10, VarFacts DEF Visible
<1>6. QED
    BY <1>4, <1>5

\* The use of a name that is not marked meets a moved variable only if the
\* tracker does not know the variable.
LEMMA UseMissed ==
    ASSUME Core, NEW n \in Name, Visible(n), ~SaysMoved(n),
           features \cap {"reinit", "loop"} = {}
    PROVE  Lookup(n) \in mayMoved => Lookup(n) \in untold
BY LookupFacts DEF Core, Complete, SaysMoved, Suspect

\* The error about n is alarm if the tracker knows of the move.
LEMMA RejectInv ==
    ASSUME Core, "shadow" \notin features, NEW n \in Name, Visible(n),
           Reject(Lookup(n)), "assign" \in features \/ SaysMoved(n)
    PROVE  Core'
<1>1. status' = "rejected" /\ alarm' = Lookup(n)
    BY DEF Reject
<1>2. UNCHANGED <<features, tracked, scopes, nextVar, copies, untold, mayMoved,
                  left, missed>>
    BY DEF Reject
<1>3. TypeOK'
    <2>1. Lookup(n) \in Var
        BY LookupFacts
    <2>2. QED
        BY <1>1, <1>2, <2>1 DEF Core, TypeOK
<1>4. NoFalseAlarm'
    <2>1. ASSUME features \cap {"else", "shadow", "assign"} = {}
          PROVE  Lookup(n) \in Suspect \cup untold
        <3>1. SaysMoved(n) /\ "else" \notin features
            BY <2>1
        <3>2. QED
            BY <3>1, LookupFacts DEF Core, Sound, SaysMoved
    <2>2. QED
        BY <1>1, <1>2, <2>1 DEF NoFalseAlarm, Suspect
<1>5. QED
    BY <1>2, <1>3, <1>4 DEF Core, Suspect

-----------------------------------------------------------------------------
(***************************************************************************)
(* The steps                                                               *)
(***************************************************************************)

LEMMA InitInv ==
    ASSUME Init
    PROVE  Core
<1> DEFINE b == NewScope("function", {})
<1>1. /\ b \in Scope /\ b.kind = "function" /\ b.before = {}
      /\ \A n \in Name : b.symbols[n] = NoVar
    <2>1. Empty \in [Name -> Var \cup {NoVar}]
        BY DEF Empty
    <2>2. QED
        BY <2>1 DEF NewScope, Scope, Empty
<1>2. scopes = <<b>>
    BY DEF Init
<1> HIDE DEF b
<1>3. scopes \in Seq(Scope) /\ Len(scopes) = 1 /\ scopes[1] = b
    BY <1>1, <1>2
<1>4. /\ features \in FeatureSets /\ nextVar = 1 /\ copies = {} /\ untold = {}
      /\ mayMoved = {} /\ left = {} /\ Suspect = {} /\ status = "binding"
      /\ alarm = NoVar /\ missed = {}
    BY DEF Init, Suspect
<1>5. tracked \in [Name -> Entry]
    BY DEF Init, Entry
<1>6. TypeOK
    BY <1>3, <1>4, <1>5, OwnershipAssumption DEF TypeOK
<1>7. \A n \in Name : \A v \in Var : ~Binds(scopes, n, v)
    BY <1>1, <1>3, VarFacts DEF Binds
<1>8. ScopesOK(scopes, nextVar, copies, features)
    <2>1. OneHolder(scopes) /\ Nested(scopes, features)
        BY <1>1, <1>3 DEF OneHolder, Nested
    <2>2. Befores(scopes, nextVar, copies)
        BY <1>1, <1>3 DEF Befores
    <2>3. QED
        BY <1>7, <2>1, <2>2 DEF ScopesOK, Distinct, Known
<1>9. /\ Entries(scopes, tracked, copies, untold)
      /\ Sound(scopes, tracked, Suspect \cup untold)
    BY <1>7 DEF Entries, Sound
<1>10. /\ Complete(scopes, tracked, untold, Suspect)
       /\ BranchesComplete(scopes, tracked, untold)
    BY <1>1, <1>3, <1>4 DEF Complete, BranchesComplete
<1>11. NoFalseAlarm
    BY <1>4 DEF NoFalseAlarm
<1>12. QED
    BY <1>4, <1>6, <1>8, <1>9, <1>10, <1>11 DEF Core

LEMMA UseInv ==
    ASSUME Core, "shadow" \notin features, NEW n \in Name, Use(n)
    PROVE  Core'
<1> DEFINE v == Lookup(n)
<1>1. status = "binding" /\ Visible(n)
    BY DEF Use
<1>2. CASE SaysMoved(n)
    BY <1>1, <1>2, RejectInv DEF Use
<1>3. CASE ~SaysMoved(n)
    <2>1. /\ missed' = missed \cup ({v} \cap mayMoved)
          /\ UNCHANGED <<features, tracked, scopes, nextVar, copies, untold,
                         mayMoved, left, status, alarm>>
        BY <1>3 DEF Use, Accepted
    <2>2. Suspect' = Suspect
        BY <2>1 DEF Suspect
    <2>3. TypeOK'
        <3>1. \A w \in missed' : w \in missed \/ w \in mayMoved
            BY <2>1
        <3>2. missed' \subseteq 1 .. nextVar - 1
            BY <3>1 DEF Core, TypeOK
        <3>3. QED
            BY <2>1, <3>2 DEF Core, TypeOK
    <2>4. ASSUME features \cap {"reinit", "loop"} = {}
          PROVE  missed' \subseteq untold
        <3>1. v \in mayMoved => v \in untold
            BY <1>1, <1>3, <2>4, UseMissed
        <3>2. QED
            BY <2>1, <2>4, <3>1 DEF Core
    <2>5. NoFalseAlarm'
        BY <1>1, <2>1 DEF NoFalseAlarm
    <2>6. QED
        BY <2>1, <2>2, <2>3, <2>4, <2>5 DEF Core
<1>4. QED
    BY <1>2, <1>3

\* A new variable gets its name: what stays true of the others.
LEMMA NewFacts ==
    ASSUME Core, NEW n \in Name, nextVar <= MaxVars, ~Visible(n)
    PROVE  /\ nextVar \in Var /\ nextVar + 1 \in Nat \ {0}
           /\ nextVar + 1 <= MaxVars + 1
           /\ \A i \in 1 .. Len(scopes) : scopes[i].symbols[n] = NoVar
           /\ nextVar \notin copies \cup untold \cup Suspect \cup missed
           /\ \A i \in 1 .. Len(scopes) : nextVar \notin scopes[i].before
           /\ \A v \in Var : v < nextVar => v < nextVar + 1
           /\ nextVar < nextVar + 1
           /\ \A m \in Name : ~Binds(scopes, m, nextVar)
<1>2. nextVar \in Nat \ {0} /\ MaxVars \in Nat /\ ~(nextVar < nextVar)
    BY TypeFacts, OwnershipAssumption DEF Core
<1>3. nextVar \in Var
    BY <1>2, VarFacts
<1>4. nextVar + 1 \in Nat \ {0} /\ nextVar + 1 <= MaxVars + 1
      /\ nextVar < nextVar + 1
    BY <1>2
<1>5. \A v \in Var : v < nextVar => v < nextVar + 1
    BY <1>2, VarFacts
<1>6. \A i \in 1 .. Len(scopes) : scopes[i].symbols[n] = NoVar
    BY LookupFacts
<1>7. nextVar \notin copies \cup untold \cup Suspect \cup missed
    BY <1>2, TypeFacts DEF Core
<1>8. \A i \in 1 .. Len(scopes) : nextVar \notin scopes[i].before
    BY <1>2 DEF Core, ScopesOK, Befores
<1>9. \A m \in Name : ~Binds(scopes, m, nextVar)
    BY <1>2, <1>3 DEF Core, ScopesOK, Known
<1>10. QED
    BY <1>3, <1>4, <1>5, <1>6, <1>7, <1>8, <1>9

LEMMA DeclareInv ==
    ASSUME Core, "shadow" \notin features, NEW n \in Name,
           NEW isCopy \in BOOLEAN, Declare(n, isCopy)
    PROVE  Core'
<1>1. /\ status = "binding" /\ MayDefine(n)
      /\ nextVar' = nextVar + 1 /\ Suspect' = Suspect
      /\ UNCHANGED <<features, untold, mayMoved, left, status, alarm, missed>>
    BY DEF Declare, Suspect
<1>2. /\ tracked' \in [Name -> Entry]
      /\ \A m \in Name :
            tracked'[m] = IF m = n THEN IF isCopy THEN "copy" ELSE "owned"
                          ELSE tracked[m]
    BY TypeFacts DEF Declare, DefineVariable, Core, Entry
<1>3. copies' = IF isCopy THEN copies \cup {nextVar} ELSE copies
    BY DEF Declare
<1>4. /\ copies' \subseteq copies \cup {nextVar} /\ copies \subseteq copies'
      /\ nextVar \in copies' <=> isCopy
    BY <1>1, <1>3, NewFacts DEF MayDefine
<1>5. /\ scopes' \in Seq(Scope) /\ Len(scopes') = Len(scopes)
      /\ \A i \in 1 .. Len(scopes) : /\ scopes'[i].kind = scopes[i].kind
                                     /\ scopes'[i].before = scopes[i].before
      /\ ScopesOK(scopes', nextVar + 1, copies', features)
      /\ \A m \in Name : \A v \in Var :
            Binds(scopes', m, v) <=> \/ m = n /\ v = nextVar
                                     \/ m # n /\ Binds(scopes, m, v)
    <2>1. scopes' = BoundTo(scopes, n, nextVar)
        BY DEF Declare, Bind, BoundTo
    <2>2. scopes \in Seq(Scope) /\ Len(scopes) >= 1
        BY TypeFacts DEF Core
    <2>3. \A v \in copies' : v \in copies \/ v = nextVar
        BY <1>4
    <2>4. ScopesOK(scopes, nextVar, copies, features)
        BY DEF Core
    <2>5. /\ nextVar \in Var
          /\ \A i \in 1 .. Len(scopes) : scopes[i].symbols[n] = NoVar
        BY <1>1, NewFacts DEF MayDefine
    <2>6. QED
        BY <2>1, <2>2, <2>3, <2>4, <2>5, ScopeBound
<1>6. /\ nextVar \in Var /\ nextVar + 1 \in Nat \ {0}
      /\ nextVar + 1 <= MaxVars + 1
      /\ nextVar \notin copies \cup untold \cup Suspect \cup missed
      /\ \A i \in 1 .. Len(scopes) : nextVar \notin scopes[i].before
      /\ \A v \in Var : v < nextVar => v < nextVar + 1
      /\ nextVar < nextVar + 1
      /\ \A m \in Name : ~Binds(scopes, m, nextVar)
    BY <1>1, NewFacts DEF MayDefine
<1>7. TypeOK'
    <2>1. \A v \in copies' \cup untold \cup mayMoved \cup left \cup missed :
              v \in Var /\ v < nextVar + 1
        BY <1>4, <1>6, TypeFacts DEF Core
    <2>2. copies' \cap mayMoved = {}
        BY <1>4, <1>6, TypeFacts DEF Core
    <2>3. QED
        BY <1>1, <1>2, <1>5, <1>6, <2>1, <2>2, TypeIntro DEF Core, TypeOK
<1>9. Entries(scopes', tracked', copies', untold)
    BY <1>2, <1>4, <1>5, <1>6 DEF Core, Entries
<1>10. "else" \notin features => Sound(scopes', tracked', Suspect \cup untold)
    BY <1>2, <1>5 DEF Core, Sound
<1>11. ASSUME features \cap {"reinit", "loop"} = {}
       PROVE  /\ Complete(scopes', tracked', untold, Suspect)
              /\ BranchesComplete(scopes', tracked', untold)
              /\ missed \subseteq untold
    <2>1. /\ \A w \in Suspect : w \in Var
          /\ \A i \in 1 .. Len(scopes) : \A w \in scopes[i].before : w \in Var
        BY TypeFacts, ScopeFacts DEF Core
    <2>2. Complete(scopes', tracked', untold, Suspect)
        BY <1>2, <1>5, <1>6, <1>11, <2>1 DEF Core, Complete
    <2>3. BranchesComplete(scopes', tracked', untold)
        BY <1>2, <1>5, <1>6, <1>11, <2>1 DEF Core, BranchesComplete, Complete
    <2>4. QED
        BY <1>11, <2>2, <2>3 DEF Core
<1>12. NoFalseAlarm'
    BY <1>1 DEF NoFalseAlarm
<1>13. QED
    BY <1>1, <1>5, <1>7, <1>9, <1>10, <1>11, <1>12 DEF Core

LEMMA InitFromInv ==
    ASSUME Core, "shadow" \notin features, NEW n \in Name, NEW from \in Name,
           InitFrom(n, from)
    PROVE  Core'
<1> DEFINE v == Lookup(from)
           isCopy == v \in copies
<1>1. status = "binding" /\ MayDefine(n) /\ Visible(from)
    BY DEF InitFrom
<1>2. CASE SaysMoved(from)
    BY <1>1, <1>2, RejectInv DEF InitFrom
<1>3. CASE ~SaysMoved(from)
    <2>1. /\ missed' = missed \cup ({v} \cap mayMoved)
          /\ tracked' = DefineVariable(DoMove(tracked, from), n, isCopy)
          /\ scopes' = Bind(scopes, n)
          /\ nextVar' = nextVar + 1
          /\ UNCHANGED <<features, untold, left, status, alarm>>
        BY <1>3 DEF InitFrom, Accepted
    <2>2. /\ copies' = IF isCopy THEN copies \cup {nextVar} ELSE copies
          /\ mayMoved' = IF isCopy THEN mayMoved ELSE mayMoved \cup {v}
        BY <1>3 DEF InitFrom
    <2>3. /\ v \in Var /\ v < nextVar
          /\ \A m \in Name : Binds(scopes, m, v) => m = from
          /\ Binds(scopes, from, v)
          /\ \A w \in Var : Binds(scopes, from, w) => w = v
        BY <1>1, LookupFacts DEF Core, ScopesOK, Distinct
    <2>4. /\ nextVar \in Var /\ nextVar + 1 \in Nat \ {0}
          /\ nextVar + 1 <= MaxVars + 1
          /\ \A i \in 1 .. Len(scopes) : scopes[i].symbols[n] = NoVar
          /\ nextVar \notin copies \cup untold \cup Suspect \cup missed
          /\ \A i \in 1 .. Len(scopes) : nextVar \notin scopes[i].before
          /\ \A w \in Var : w < nextVar => w < nextVar + 1
          /\ nextVar < nextVar + 1
          /\ \A m \in Name : ~Binds(scopes, m, nextVar)
        BY <1>1, NewFacts DEF MayDefine
    <2>5. from # n
        BY <1>1, LookupFacts DEF MayDefine
    <2>6. /\ tracked' \in [Name -> Entry]
          /\ \A m \in Name :
                tracked'[m] =
                    IF m = n THEN IF isCopy THEN "copy" ELSE "owned"
                    ELSE IF m = from /\ tracked[from] = "owned" THEN "moved"
                    ELSE tracked[m]
        <3>1. tracked \in [Name -> Entry]
            BY TypeFacts DEF Core
        <3>2. QED
            BY <2>1, <3>1 DEF DefineVariable, DoMove, Entry
    <2> HIDE DEF v, isCopy
    <2>7. /\ copies' \subseteq copies \cup {nextVar} /\ copies \subseteq copies'
          /\ nextVar \in copies' <=> isCopy
        BY <2>2, <2>4
    <2>8. /\ scopes' \in Seq(Scope) /\ Len(scopes') = Len(scopes)
          /\ \A i \in 1 .. Len(scopes) : /\ scopes'[i].kind = scopes[i].kind
                                         /\ scopes'[i].before = scopes[i].before
          /\ ScopesOK(scopes', nextVar + 1, copies', features)
          /\ \A m \in Name : \A w \in Var :
                Binds(scopes', m, w) <=> \/ m = n /\ w = nextVar
                                         \/ m # n /\ Binds(scopes, m, w)
        <3>1. scopes \in Seq(Scope) /\ Len(scopes) >= 1
            BY TypeFacts DEF Core
        <3>2. scopes' = BoundTo(scopes, n, nextVar)
            BY <2>1 DEF Bind, BoundTo
        <3>3. \A w \in copies' : w \in copies \/ w = nextVar
            BY <2>7
        <3>4. ScopesOK(scopes, nextVar, copies, features)
            BY DEF Core
        <3>5. QED
            BY <2>4, <3>1, <3>2, <3>3, <3>4, ScopeBound
    <2>9. /\ \A w \in mayMoved' : w \in mayMoved \/ (w = v /\ ~isCopy)
          /\ \A w \in Suspect' : w \in Suspect \/ (w = v /\ ~isCopy)
          /\ Suspect \subseteq Suspect' /\ (~isCopy => v \in Suspect')
        BY <2>1, <2>2 DEF Suspect
    <2>10. TypeOK'
        <3>1. \A w \in copies' \cup untold \cup mayMoved' \cup left \cup missed' :
                  w \in Var /\ w < nextVar + 1
            BY <2>1, <2>3, <2>4, <2>7, <2>9, TypeFacts DEF Core
        <3>2. copies' \cap mayMoved' = {}
            <4>1. /\ copies \cap mayMoved = {} /\ v # nextVar
                  /\ nextVar \notin mayMoved
                BY <2>3, <2>4, TypeFacts DEF Core
            <4>2. QED
                BY <2>4, <2>7, <2>9, <4>1 DEF isCopy
        <3>3. QED
            BY <2>1, <2>4, <2>6, <2>8, <3>1, <3>2, TypeIntro DEF Core, TypeOK
    <2>12. /\ v \notin untold /\ isCopy => tracked[from] = "copy"
           /\ v \notin untold /\ ~isCopy => tracked[from] = "owned"
        BY <1>3, <2>3 DEF Core, Entries, isCopy, SaysMoved
    <2>13. Entries(scopes', tracked', copies', untold)
        <3>1. ASSUME NEW m \in Name, NEW w \in Var, Binds(scopes', m, w),
                     w \notin untold
              PROVE  /\ w \in copies' => tracked'[m] = "copy"
                     /\ w \notin copies' => tracked'[m] \in {"owned", "moved"}
            <4>1. CASE m = n
                BY <2>6, <2>7, <2>8, <3>1, <4>1
            <4>2. CASE m # n
                <5>1. Binds(scopes, m, w) /\ (w \in copies' <=> w \in copies)
                    BY <2>4, <2>7, <2>8, <3>1, <4>2
                <5>2. /\ w \in copies => tracked[m] = "copy"
                      /\ w \notin copies => tracked[m] \in {"owned", "moved"}
                    BY <3>1, <5>1 DEF Core, Entries
                <5>3. QED
                    BY <2>6, <4>2, <5>1, <5>2
            <4>3. QED
                BY <4>1, <4>2
        <3>2. QED
            BY <3>1 DEF Entries
    <2>14. ASSUME "else" \notin features
           PROVE  Sound(scopes', tracked', Suspect' \cup untold)
        <3>0. Sound(scopes, tracked, Suspect \cup untold)
            BY <2>14 DEF Core
        <3>1. ASSUME NEW m \in Name, NEW w \in Var, Binds(scopes', m, w),
                     tracked'[m] = "moved"
              PROVE  w \in Suspect' \cup untold
            <4>1. m # n /\ Binds(scopes, m, w)
                BY <2>6, <2>8, <3>1
            <4>2. CASE m = from
                BY <1>3, <2>3, <2>6, <2>9, <2>12, <3>1, <4>1, <4>2
                   DEF SaysMoved
            <4>3. CASE m # from
                BY <2>6, <2>9, <3>0, <3>1, <4>1, <4>3 DEF Sound
            <4>4. QED
                BY <4>2, <4>3
        <3>2. QED
            BY <3>1 DEF Sound
    <2>15. ASSUME features \cap {"reinit", "loop"} = {}
           PROVE  /\ Complete(scopes', tracked', untold, Suspect')
                  /\ BranchesComplete(scopes', tracked', untold)
                  /\ missed' \subseteq untold
        <3>0. /\ \A w \in Suspect : w \in Var
              /\ \A i \in 1 .. Len(scopes) : \A w \in scopes[i].before : w \in Var
            BY TypeFacts, ScopeFacts DEF Core
        <3>1. \A m \in Name : m # n /\ tracked[m] = "moved"
                                  => tracked'[m] = "moved"
            BY <2>6
        <3>2. Complete(scopes', tracked', untold, Suspect')
            <4>1. ASSUME NEW m \in Name, NEW w \in Suspect',
                         Binds(scopes', m, w), w \notin untold
                  PROVE  tracked'[m] = "moved"
                <5>1. w \in Var /\ w # nextVar
                    BY <2>3, <2>4, <2>9, <3>0
                <5>2. m # n /\ Binds(scopes, m, w)
                    BY <2>8, <4>1, <5>1
                <5>3. CASE w \in Suspect
                    BY <2>15, <3>1, <4>1, <5>2, <5>3 DEF Core, Complete
                <5>4. CASE w = v /\ ~isCopy
                    BY <2>3, <2>6, <2>12, <4>1, <5>2, <5>4
                <5>5. QED
                    BY <2>9, <5>3, <5>4
            <4>2. QED
                BY <4>1 DEF Complete
        <3>3. BranchesComplete(scopes', tracked', untold)
            <4>1. ASSUME NEW i \in 1 .. Len(scopes),
                         scopes[i].kind \in {"then", "else"},
                         NEW m \in Name, NEW w \in scopes[i].before,
                         Binds(scopes', m, w), w \notin untold
                  PROVE  tracked'[m] = "moved"
                <5>1. w \in Var /\ w # nextVar
                    BY <2>4, <3>0
                <5>2. m # n /\ Binds(scopes, m, w)
                    BY <2>8, <4>1, <5>1
                <5>3. QED
                    BY <2>15, <3>1, <4>1, <5>2
                       DEF Core, BranchesComplete, Complete
            <4>2. QED
                BY <2>8, <4>1 DEF BranchesComplete, Complete
        <3>4. v \in mayMoved => v \in untold
            BY <1>1, <1>3, <2>15, UseMissed DEF v
        <3>5. QED
            BY <2>1, <2>15, <3>2, <3>3, <3>4 DEF Core
    <2>16. NoFalseAlarm'
        BY <1>1, <2>1 DEF NoFalseAlarm
    <2>17. QED
        BY <2>1, <2>8, <2>10, <2>13, <2>14, <2>15, <2>16 DEF Core
<1>4. QED
    BY <1>2, <1>3

\* Name n is whole again; what else happens happens to variables that the
\* tracker does not know.  This is what the two kinds of assignment have in
\* common.
LEMMA AssignInv ==
    ASSUME Core, "shadow" \notin features, status = "binding",
           NEW n \in Name, Visible(n), MayAssign,
           tracked' = Reinitialize(tracked, n),
           NEW more, mayMoved' = (mayMoved \cup more) \ {Lookup(n)},
           left' = left \ {Lookup(n)},
           \A w \in more : w \in untold /\ w \notin copies,
           UNCHANGED <<features, scopes, nextVar, copies, untold, status,
                       alarm>>,
           \A w \in missed' : w \in missed \/ w \in mayMoved,
           features \cap {"reinit", "loop"} = {} => missed' \subseteq untold
    PROVE  Core'
<1> DEFINE u == Lookup(n)
<1>1. /\ u \in Var /\ Binds(scopes, n, u)
      /\ \A w \in Var : Binds(scopes, n, w) => w = u
      /\ \A m \in Name : Binds(scopes, m, u) => m = n
    BY LookupFacts DEF Core, ScopesOK, Distinct
<1>2. /\ tracked' \in [Name -> Entry]
      /\ \A m \in Name :
            tracked'[m] = IF m = n /\ tracked[n] = "moved" THEN "owned"
                          ELSE tracked[m]
    <2>1. tracked \in [Name -> Entry]
        BY TypeFacts DEF Core
    <2>2. QED
        BY <2>1 DEF Reinitialize, Entry
<1>4. /\ \A w \in mayMoved' : w \in mayMoved \/ (w \in untold /\ w \notin copies)
      /\ \A w \in Suspect' : (w \in Suspect \/ w \in untold) /\ w # u
      /\ \A w \in Suspect : w # u => w \in Suspect'
      /\ left' \subseteq left
    BY DEF Suspect
<1> HIDE DEF u
<1>5. \A w \in copies \cup untold \cup Suspect \cup missed :
          w \in Var /\ w < nextVar
    BY TypeFacts DEF Core
<1>6. TypeOK'
    <2>1. \A w \in copies \cup untold \cup mayMoved' \cup left' \cup missed' :
              w \in Var /\ w < nextVar
        BY <1>4, <1>5 DEF Suspect
    <2>2. copies \cap mayMoved' = {}
        BY <1>4, TypeFacts DEF Core
    <2>3. QED
        BY <1>2, <2>1, <2>2, TypeFacts, TypeIntro DEF Core, TypeOK
<1>7. Entries(scopes, tracked', copies, untold)
    BY <1>2 DEF Core, Entries
<1>8. ASSUME "else" \notin features
      PROVE  Sound(scopes, tracked', Suspect' \cup untold)
    <2>1. ASSUME NEW m \in Name, NEW w \in Var, Binds(scopes, m, w),
                 tracked'[m] = "moved"
          PROVE  w \in Suspect' \cup untold
        <3>1. m # n /\ tracked[m] = "moved"
            BY <1>2, <2>1
        <3>2. w \in Suspect \cup untold
            BY <1>8, <2>1, <3>1 DEF Core, Sound
        <3>3. w # u
            BY <1>1, <2>1, <3>1
        <3>4. QED
            BY <1>4, <3>2, <3>3
    <2>2. QED
        BY <2>1 DEF Sound
<1>9. ASSUME features \cap {"reinit", "loop"} = {}
      PROVE  /\ Complete(scopes, tracked', untold, Suspect')
             /\ BranchesComplete(scopes, tracked', untold)
    <2>1. ASSUME NEW m \in Name, NEW w \in Suspect', Binds(scopes, m, w),
                 w \notin untold
          PROVE  tracked'[m] = "moved"
        <3>1. w \in Suspect /\ w # u /\ w \in Var
            BY <1>4, <1>5, <2>1
        <3>2. m # n
            BY <1>1, <2>1, <3>1
        <3>3. QED
            BY <1>2, <1>9, <2>1, <3>1, <3>2 DEF Core, Complete
    <2>2. Complete(scopes, tracked', untold, Suspect')
        BY <2>1 DEF Complete
    <2>3. \A i \in 1 .. Len(scopes) : scopes[i].kind \notin {"then", "else"}
        <3>1. "reinit" \notin features /\ DOMAIN scopes = 1 .. Len(scopes)
            BY <1>9, TypeFacts DEF Core
        <3>2. QED
            BY <3>1 DEF MayAssign, Kinds
    <2>4. QED
        BY <2>2, <2>3 DEF BranchesComplete
<1>10. NoFalseAlarm'
    BY DEF NoFalseAlarm
<1>11. QED
    BY <1>6, <1>7, <1>8, <1>9, <1>10 DEF Core

LEMMA AssignNewInv ==
    ASSUME Core, "shadow" \notin features, NEW n \in Name, AssignNew(n)
    PROVE  Core'
<1>1. /\ status = "binding" /\ Visible(n) /\ MayAssign
      /\ tracked' = Reinitialize(tracked, n)
      /\ mayMoved' = mayMoved \ {Lookup(n)} /\ left' = left \ {Lookup(n)}
      /\ UNCHANGED <<features, scopes, nextVar, copies, untold, status, alarm,
                     missed>>
    BY DEF AssignNew
<1> DEFINE more == {}
<1>2. mayMoved' = (mayMoved \cup more) \ {Lookup(n)}
    BY <1>1
<1>3. /\ \A w \in more : w \in untold /\ w \notin copies
      /\ \A w \in missed' : w \in missed \/ w \in mayMoved
      /\ features \cap {"reinit", "loop"} = {} => missed' \subseteq untold
    BY <1>1 DEF Core
<1> HIDE DEF more
<1>4. QED
    BY <1>1, <1>2, <1>3, AssignInv

\* An assignment of a variable is accepted only if the variable is copied or
\* the tracker does not know it.
LEMMA AssignFromInv ==
    ASSUME Core, "shadow" \notin features, NEW n \in Name, NEW from \in Name,
           AssignFrom(n, from)
    PROVE  Core'
<1> DEFINE v == Lookup(from)
           u == Lookup(n)
           more == IF v \in copies THEN {} ELSE {v}
           map == DoMove(tracked, from)
<1>1. /\ "assign" \in features /\ status = "binding"
      /\ Visible(n) /\ Visible(from) /\ MayAssign
    BY DEF AssignFrom
<1>2. CASE map[from] = "moved"
    <2>1. Reject(v)
        BY <1>2 DEF AssignFrom
    <2>2. QED
        BY <1>1, <2>1, RejectInv
<1>3. CASE map[from] # "moved"
    <2>1. /\ missed' = missed \cup ({v} \cap mayMoved)
          /\ tracked' = Reinitialize(map, n)
          /\ mayMoved' = (IF v \in copies THEN mayMoved
                          ELSE mayMoved \cup {v}) \ {u}
          /\ left' = left \ {u}
          /\ UNCHANGED <<features, scopes, nextVar, copies, untold, status,
                         alarm>>
        BY <1>3 DEF AssignFrom, Accepted
    <2>2. tracked \in [Name -> Entry]
        BY TypeFacts DEF Core
    <2>3. tracked[from] \notin {"owned", "moved"} /\ map = tracked
        BY <1>3, <2>2 DEF DoMove
    <2>4. v \in Var
        BY <1>1, LookupFacts
    <2>5. v \in untold \/ v \in copies
        BY <1>1, <2>3, <2>4, LookupFacts DEF Core, Entries
    <2>6. mayMoved' = (mayMoved \cup more) \ {Lookup(n)}
        BY <2>1
    <2>7. \A w \in more : w \in untold /\ w \notin copies
        BY <2>5
    <2>8. \A w \in missed' : w \in missed \/ w \in mayMoved
        BY <2>1
    <2>9. ASSUME features \cap {"reinit", "loop"} = {}
          PROVE  missed' \subseteq untold
        <3>1. ~SaysMoved(from)
            BY <2>3 DEF SaysMoved
        <3>2. v \in mayMoved => v \in untold
            BY <1>1, <2>9, <3>1, UseMissed
        <3>3. QED
            BY <2>1, <2>9, <3>2 DEF Core
    <2>10. left' = left \ {Lookup(n)}
        BY <2>1
    <2> HIDE DEF v, u, more, map
    <2>11. tracked' = Reinitialize(tracked, n)
        BY <2>1, <2>3
    <2>12. QED
        BY <1>1, <2>1, <2>6, <2>7, <2>8, <2>9, <2>10, <2>11, AssignInv
<1>4. QED
    BY <1>2, <1>3

\* The variables of closed scopes are forgotten.
LEMMA PopFacts ==
    ASSUME Core, Inner.kind # "function"
    PROVE  /\ Len(scopes) >= 2
           /\ Front(scopes) \in Seq(Scope)
           /\ Len(Front(scopes)) \in 1 .. MaxScopes
           /\ Len(Front(scopes)) = Len(scopes) - 1
           /\ \A i \in 1 .. Len(Front(scopes)) :
                 i \in 1 .. Len(scopes) /\ Front(scopes)[i] = scopes[i]
           /\ ScopesOK(Front(scopes), nextVar, copies, features)
           /\ \A n \in Name : \A v \in Var :
                 Binds(Front(scopes), n, v) => Binds(scopes, n, v)
           /\ \A v \in Inner.before :
                 v \in Var /\ v < nextVar /\ v \notin copies
<1>1. /\ scopes \in Seq(Scope) /\ Len(scopes) \in Nat \ {0}
      /\ Inner = scopes[Len(scopes)] /\ Len(scopes) \in 1 .. Len(scopes)
      /\ Len(scopes) <= MaxScopes
      /\ ScopesOK(scopes, nextVar, copies, features)
    BY TypeFacts DEF Core
<1>2. Len(scopes) # 1
    BY <1>1 DEF ScopesOK, Nested
<1>3. Len(scopes) >= 2
    <2>1. \A k \in Nat \ {0} : k # 1 => k >= 2
        OBVIOUS
    <2>2. Len(scopes) \in Nat \ {0}
        BY <1>1
    <2>3. QED
        BY <1>2, <2>1, <2>2
<1>4. /\ Front(scopes) \in Seq(Scope)
      /\ Len(Front(scopes)) = Len(scopes) - 1
      /\ \A i \in 1 .. Len(Front(scopes)) : Front(scopes)[i] = scopes[i]
      /\ ScopesOK(Front(scopes), nextVar, copies, features)
      /\ \A n \in Name : \A v \in Var :
            Binds(Front(scopes), n, v) => Binds(scopes, n, v)
    BY <1>1, <1>3, ScopePopped
<1>5. /\ Len(Front(scopes)) \in 1 .. MaxScopes
      /\ \A i \in 1 .. Len(Front(scopes)) : i \in 1 .. Len(scopes)
    BY <1>1, <1>3, <1>4, OwnershipAssumption
<1>6. \A v \in Inner.before : v \in Var /\ v < nextVar /\ v \notin copies
    BY <1>1, ScopeFacts DEF ScopesOK, Befores
<1>7. QED
    BY <1>3, <1>4, <1>5, <1>6

\* CloseBlock, CloseBranch and CloseLoop: the scope is closed, and where it
\* began may be where it ends.
LEMMA CloseInv ==
    ASSUME Core, "shadow" \notin features, status = "binding",
           Inner.kind # "function", Pop, mayMoved \subseteq mayMoved',
           \A v \in mayMoved' : v \in mayMoved \/ v \in Inner.before,
           Inner.kind = "block" => mayMoved' = mayMoved,
           UNCHANGED <<features, tracked, nextVar, copies, untold, left, status,
                       alarm, missed>>
    PROVE  Core'
<1> DEFINE s == Front(scopes)
<1>1. /\ s \in Seq(Scope) /\ Len(s) \in 1 .. MaxScopes
      /\ \A i \in 1 .. Len(s) : i \in 1 .. Len(scopes) /\ s[i] = scopes[i]
      /\ ScopesOK(s, nextVar, copies, features)
      /\ \A n \in Name : \A v \in Var : Binds(s, n, v) => Binds(scopes, n, v)
      /\ \A v \in Inner.before : v \in Var /\ v < nextVar /\ v \notin copies
    BY PopFacts
<1>2. scopes' = s
    BY DEF Pop
<1> HIDE DEF s
<1>3. /\ \A w \in copies \cup untold \cup Suspect \cup missed :
            w \in Var /\ w < nextVar
      /\ mayMoved \subseteq Suspect /\ left \subseteq Suspect
      /\ \A i \in 1 .. Len(scopes) : \A w \in scopes[i].before : w \in Var
      /\ Len(scopes) \in 1 .. Len(scopes)
      /\ Inner = scopes[Len(scopes)]
    BY TypeFacts, ScopeFacts DEF Core
<1>a. /\ Suspect \subseteq Suspect'
      /\ \A v \in Suspect' : v \in Suspect \/ v \in mayMoved'
      /\ \A v \in Suspect' : v \in Suspect \/ v \in Inner.before
      /\ Inner.kind = "block" => Suspect' = Suspect
    BY DEF Suspect
<1>4. TypeOK'
    <2>1. \A w \in copies \cup untold \cup mayMoved' \cup left \cup missed :
              w \in Var /\ w < nextVar
        BY <1>1, <1>3
    <2>2. copies \cap mayMoved' = {}
        BY <1>1, TypeFacts DEF Core
    <2>3. QED
        BY <1>1, <1>2, <2>1, <2>2, TypeFacts, TypeIntro DEF Core, TypeOK
<1>5. Entries(s, tracked, copies, untold)
    BY <1>1 DEF Core, Entries
<1>6. "else" \notin features => Sound(s, tracked, Suspect' \cup untold)
    BY <1>1, <1>a DEF Core, Sound
<1>7. ASSUME features \cap {"reinit", "loop"} = {}
      PROVE  /\ Complete(s, tracked, untold, Suspect')
             /\ BranchesComplete(s, tracked, untold)
    <2>1. Complete(scopes, tracked, untold, Suspect')
        <3>1. Complete(scopes, tracked, untold, Suspect)
            BY <1>7 DEF Core
        <3>2. Inner.kind \in {"then", "else"}
                  => Complete(scopes, tracked, untold, Inner.before)
            BY <1>3, <1>7 DEF Core, BranchesComplete
        <3>3. Inner.kind \in {"block", "then", "else"}
            <4>1. Inner.kind # "loop"
                BY <1>3, <1>7 DEF Core, ScopesOK, Nested
            <4>2. Inner \in Scope
                BY <1>3, ScopeFacts, TypeFacts DEF Core
            <4>3. QED
                BY <4>1, <4>2 DEF Scope
        <3>4. QED
            BY <1>a, <3>1, <3>2, <3>3 DEF Complete
    <2>2. \A w \in Suspect' : w \in Var
        BY <1>1, <1>3, <1>a
    <2>3. Complete(s, tracked, untold, Suspect')
        BY <1>1, <2>1, <2>2 DEF Complete
    <2>4. BranchesComplete(s, tracked, untold)
        BY <1>1, <1>3, <1>7 DEF Core, BranchesComplete, Complete
    <2>5. QED
        BY <2>3, <2>4
<1>8. NoFalseAlarm'
    BY DEF NoFalseAlarm
<1>9. QED
    BY <1>1, <1>2, <1>4, <1>5, <1>6, <1>7, <1>8 DEF Core

\* A scope is opened on top of s: the scopes of the function, or these
\* without a then branch.
LEMMA OpenInv ==
    ASSUME Core, "shadow" \notin features, status = "binding",
           NEW s \in Seq(Scope), Len(s) \in 1 .. MaxScopes - 1,
           ScopesOK(s, nextVar, copies, features),
           \A n \in Name : \A v \in Var : Binds(s, n, v) => Binds(scopes, n, v),
           \A i \in 1 .. Len(s) : i \in 1 .. Len(scopes) /\ s[i] = scopes[i],
           NEW kind \in {"block", "then", "else", "loop"},
           kind = "loop" => "loop" \in features,
           kind = "else" => "else" \in features,
           scopes' = Append(s, NewScope(kind, mayMoved)),
           \/ mayMoved' = mayMoved
           \/ /\ kind = "else" /\ mayMoved' = Inner.before
              /\ Inner.kind = "then",
           UNCHANGED <<features, tracked, nextVar, copies, untold, left, status,
                       alarm, missed>>
    PROVE  Core'
<1>1. /\ \A w \in copies \cup untold \cup Suspect \cup missed :
            w \in Var /\ w < nextVar
      /\ mayMoved \subseteq Suspect /\ left \subseteq Suspect
      /\ \A i \in 1 .. Len(scopes) : \A w \in scopes[i].before :
            w \in Var /\ w < nextVar /\ w \notin copies
      /\ \A w \in mayMoved : w \notin copies
      /\ Len(scopes) \in 1 .. Len(scopes)
      /\ Inner = scopes[Len(scopes)]
    BY TypeFacts, ScopeFacts DEF Core, ScopesOK, Befores
<1>2. /\ scopes' \in Seq(Scope) /\ Len(scopes') = Len(s) + 1
      /\ \A i \in 1 .. Len(s) : scopes'[i] = s[i]
      /\ scopes'[Len(s) + 1].kind = kind
      /\ scopes'[Len(s) + 1].before = mayMoved
      /\ ScopesOK(scopes', nextVar, copies, features)
      /\ \A n \in Name : \A v \in Var : Binds(scopes', n, v) <=> Binds(s, n, v)
    <2>1. /\ mayMoved \in SUBSET Var
          /\ \A v \in mayMoved : v < nextVar /\ v \notin copies
        BY <1>1
    <2>2. Len(s) >= 1
        OBVIOUS
    <2>3. QED
        BY <2>1, <2>2, ScopePushed
<1>3. \A w \in mayMoved' : w \in Var /\ w < nextVar /\ w \notin copies
    BY <1>1
<1>a. /\ \A w \in Suspect' : w \in mayMoved' \/ w \in Suspect
      /\ \A w \in Suspect' : w \in Suspect \/ (/\ Inner.kind = "then"
                                              /\ w \in Inner.before)
      /\ mayMoved' = mayMoved => Suspect' = Suspect
    BY DEF Suspect
<1>4. TypeOK'
    <2>1. \A w \in copies \cup untold \cup mayMoved' \cup left \cup missed :
              w \in Var /\ w < nextVar
        BY <1>1, <1>3
    <2>2. copies \cap mayMoved' = {}
        BY <1>3
    <2>3. Len(scopes') \in 1 .. MaxScopes
        BY <1>2, OwnershipAssumption
    <2>4. QED
        BY <1>2, <2>1, <2>2, <2>3, TypeFacts, TypeIntro DEF Core, TypeOK
<1>5. \A n \in Name : \A v \in Var : Binds(scopes', n, v) => Binds(scopes, n, v)
    BY <1>2
<1>6. Entries(scopes', tracked, copies, untold)
    BY <1>5 DEF Core, Entries
<1>7. ASSUME "else" \notin features
      PROVE  Sound(scopes', tracked, Suspect' \cup untold)
    <2>1. Suspect' = Suspect
        BY <1>7, <1>a
    <2>2. QED
        BY <1>5, <1>7, <2>1 DEF Core, Sound
<1>8. ASSUME features \cap {"reinit", "loop"} = {}
      PROVE  /\ Complete(scopes', tracked, untold, Suspect')
             /\ BranchesComplete(scopes', tracked, untold)
             /\ missed \subseteq untold
    <2>1. Complete(scopes, tracked, untold, Suspect)
        BY <1>8 DEF Core
    <2>2. Complete(scopes, tracked, untold, Suspect')
        <3>1. Inner.kind = "then"
                  => Complete(scopes, tracked, untold, Inner.before)
            BY <1>1, <1>8 DEF Core, BranchesComplete
        <3>2. QED
            BY <1>a, <2>1, <3>1 DEF Complete
    <2>3. Complete(scopes', tracked, untold, Suspect')
        BY <1>1, <1>3, <1>5, <1>a, <2>2 DEF Complete
    <2>4. ASSUME NEW i \in 1 .. Len(scopes'),
                 scopes'[i].kind \in {"then", "else"}
          PROVE  Complete(scopes', tracked, untold, scopes'[i].before)
        <3>1. CASE i = Len(s) + 1
            BY <1>1, <1>2, <1>5, <2>1, <3>1 DEF Complete
        <3>2. CASE i # Len(s) + 1
            <4>1. i \in 1 .. Len(s)
                BY <1>2, <3>2
            <4>2. i \in 1 .. Len(scopes) /\ scopes'[i] = scopes[i]
                BY <1>2, <4>1
            <4>3. Complete(scopes, tracked, untold, scopes[i].before)
                BY <1>8, <2>4, <4>2 DEF Core, BranchesComplete
            <4>4. QED
                BY <1>1, <1>5, <4>2, <4>3 DEF Complete
        <3>3. QED
            BY <3>1, <3>2
    <2>5. QED
        BY <1>8, <2>3, <2>4 DEF Core, BranchesComplete
<1>9. NoFalseAlarm'
    BY DEF NoFalseAlarm
<1>10. QED
    BY <1>2, <1>4, <1>6, <1>7, <1>8, <1>9 DEF Core

\* A path leaves: what is suspect stays.
LEMMA LeaveFacts ==
    ASSUME mayMoved' = {}, left' = left \cup mayMoved
    PROVE  Suspect' = Suspect
BY DEF Suspect

LEMMA ReturnInv ==
    ASSUME Core, Return
    PROVE  Core'
<1>1. /\ status = "binding" /\ mayMoved' = {} /\ left' = left \cup mayMoved
      /\ UNCHANGED <<features, tracked, scopes, nextVar, copies, untold, status,
                     alarm, missed>>
    BY DEF Return
<1>2. Suspect' = Suspect
    BY <1>1, LeaveFacts
<1>3. TypeOK'
    <2>1. left' \subseteq 1 .. nextVar - 1
        BY <1>1 DEF Core, TypeOK
    <2>2. QED
        BY <1>1, <2>1 DEF Core, TypeOK
<1>4. NoFalseAlarm'
    BY <1>1 DEF NoFalseAlarm
<1>5. QED
    BY <1>1, <1>2, <1>3, <1>4 DEF Core

LEMMA JumpInv ==
    ASSUME Core, Jump
    PROVE  Core'
<1>1. /\ status = "binding" /\ mayMoved' = {} /\ left' = left \cup mayMoved
      /\ UNCHANGED <<features, tracked, nextVar, copies, untold, status, alarm,
                     missed>>
    BY DEF Jump
<1>2. PICK i \in DOMAIN scopes :
          /\ scopes[i].kind = "loop"
          /\ scopes' = [scopes EXCEPT ![i].before = @ \cup mayMoved]
    BY DEF Jump
<1>3. Suspect' = Suspect
    BY <1>1, LeaveFacts
<1>4. /\ scopes \in Seq(Scope) /\ DOMAIN scopes = 1 .. Len(scopes)
      /\ i \in 1 .. Len(scopes) /\ Len(scopes) \in 1 .. MaxScopes
      /\ \A v \in mayMoved : v \in Var /\ v < nextVar /\ v \notin copies
    BY <1>2, TypeFacts DEF Core, TypeOK, Suspect
<1> DEFINE b == [scopes[i] EXCEPT !.before = @ \cup mayMoved]
<1>5. /\ b \in Scope /\ b.kind = scopes[i].kind
      /\ b.symbols = scopes[i].symbols
      /\ b.before = scopes[i].before \cup mayMoved
    <2>1. scopes[i] \in Scope
        BY <1>4
    <2>2. QED
        BY <1>4, <2>1 DEF Scope
<1>6. scopes' = [scopes EXCEPT ![i] = b]
    BY <1>2
<1> HIDE DEF b
<1>7. /\ scopes' \in Seq(Scope) /\ Len(scopes') = Len(scopes)
      /\ \A j \in 1 .. Len(scopes) : scopes'[j] = IF j = i THEN b ELSE scopes[j]
    BY <1>4, <1>5, <1>6
<1>8. \A j \in 1 .. Len(scopes) : /\ scopes'[j].kind = scopes[j].kind
                                  /\ scopes'[j].symbols = scopes[j].symbols
    BY <1>5, <1>7
<1>9. \A n \in Name : \A v : Binds(scopes', n, v) <=> Binds(scopes, n, v)
    BY <1>7, <1>8 DEF Binds
<1>10. ScopesOK(scopes', nextVar, copies, features)
    <2>1. OneHolder(scopes')
        BY <1>7, <1>8 DEF Core, ScopesOK, OneHolder
    <2>2. Distinct(scopes') /\ Known(scopes', nextVar)
        BY <1>9 DEF Core, ScopesOK, Distinct, Known
    <2>3. Nested(scopes', features)
        BY <1>7, <1>8 DEF Core, ScopesOK, Nested
    <2>4. Befores(scopes', nextVar, copies)
        BY <1>4, <1>5, <1>7 DEF Core, ScopesOK, Befores
    <2>5. QED
        BY <2>1, <2>2, <2>3, <2>4 DEF ScopesOK
<1>11. TypeOK'
    <2>1. left' \subseteq 1 .. nextVar - 1
        BY <1>1 DEF Core, TypeOK
    <2>2. QED
        BY <1>1, <1>4, <1>7, <2>1 DEF Core, TypeOK
<1>12. "loop" \in features
    BY <1>2, <1>4 DEF Core, ScopesOK, Nested
<1>13. /\ Entries(scopes', tracked, copies, untold)
       /\ "else" \notin features
             => Sound(scopes', tracked, Suspect \cup untold)
    BY <1>9 DEF Core, Entries, Sound
<1>14. NoFalseAlarm'
    BY <1>1 DEF NoFalseAlarm
<1>15. QED
    BY <1>1, <1>3, <1>10, <1>11, <1>12, <1>13, <1>14 DEF Core

\* The innermost of the scopes s gets a variable that the tracker is not told
\* of; s are the scopes, or these with a new one for a loop.
LEMMA DefineSymbolInv ==
    ASSUME Core, "shadow" \notin features,
           NEW s \in Seq(Scope), Len(s) \in 1 .. MaxScopes,
           ScopesOK(s, nextVar, copies, features),
           \A m \in Name : \A v \in Var : Binds(s, m, v) <=> Binds(scopes, m, v),
           \A i \in 1 .. Len(s) : s[i].kind \in {"then", "else"} =>
               i \in 1 .. Len(scopes) /\ s[i] = scopes[i],
           NEW n \in Name, \A i \in 1 .. Len(s) : s[i].symbols[n] = NoVar,
           NEW isCopy \in BOOLEAN, DefineSymbol(s, n, isCopy)
    PROVE  Core'
<1>1. /\ "untold" \in features /\ status = "binding" /\ nextVar <= MaxVars
      /\ ~Visible(n)
      /\ nextVar' = nextVar + 1 /\ untold' = untold \cup {nextVar}
      /\ UNCHANGED <<features, tracked, mayMoved, left, status, alarm, missed>>
    BY DEF DefineSymbol
<1>2. /\ \A v \in copies' : v \in copies \/ v = nextVar
      /\ \A v \in copies : v \in copies'
    BY DEF DefineSymbol
<1>3. /\ nextVar \in Var /\ nextVar + 1 \in Nat \ {0}
      /\ nextVar + 1 <= MaxVars + 1
      /\ nextVar \notin copies \cup untold \cup Suspect \cup missed
      /\ \A i \in 1 .. Len(scopes) : nextVar \notin scopes[i].before
      /\ \A v \in Var : v < nextVar => v < nextVar + 1
      /\ nextVar < nextVar + 1
    BY <1>1, NewFacts
<1>4. /\ scopes' \in Seq(Scope) /\ Len(scopes') = Len(s)
      /\ \A i \in 1 .. Len(s) : /\ scopes'[i].kind = s[i].kind
                                /\ scopes'[i].before = s[i].before
      /\ ScopesOK(scopes', nextVar + 1, copies', features)
      /\ \A m \in Name : \A v \in Var :
            Binds(scopes', m, v) <=> \/ m = n /\ v = nextVar
                                     \/ m # n /\ Binds(s, m, v)
    <2>1. scopes' = BoundTo(s, n, nextVar)
        BY DEF DefineSymbol, Bind, BoundTo
    <2>2. Len(s) >= 1
        OBVIOUS
    <2>3. QED
        BY <1>2, <1>3, <2>1, <2>2, ScopeBound
<1>5. /\ \A w \in copies \cup untold \cup Suspect \cup missed :
            w \in Var /\ w < nextVar
      /\ mayMoved \subseteq Suspect /\ left \subseteq Suspect
      /\ copies \cap mayMoved = {} /\ tracked \in [Name -> Entry]
      /\ \A i \in 1 .. Len(scopes) : \A w \in scopes[i].before : w \in Var
    BY TypeFacts, ScopeFacts DEF Core
<1>6. Suspect' = Suspect
    BY <1>1 DEF Suspect
<1>7. TypeOK'
    <2>1. \A v \in copies' \cup untold' \cup mayMoved' \cup left' \cup missed' :
              v \in Var /\ v < nextVar + 1
        BY <1>1, <1>2, <1>3, <1>5
    <2>2. copies' \cap mayMoved' = {}
        BY <1>1, <1>2, <1>3, <1>5
    <2>3. QED
        BY <1>1, <1>3, <1>4, <1>5, <2>1, <2>2, TypeIntro DEF Core, TypeOK
<1>8. Entries(scopes', tracked, copies', untold')
    <2>1. ASSUME NEW m \in Name, NEW v \in Var, Binds(scopes', m, v),
                 v \notin untold'
          PROVE  /\ v \in copies' => tracked[m] = "copy"
                 /\ v \notin copies' => tracked[m] \in {"owned", "moved"}
        <3>1. /\ v # nextVar /\ v \notin untold /\ Binds(scopes, m, v)
              /\ v \in copies' <=> v \in copies
            BY <1>1, <1>2, <1>4, <2>1
        <3>2. QED
            BY <3>1 DEF Core, Entries
    <2>2. QED
        BY <2>1 DEF Entries
<1>9. ASSUME "else" \notin features
      PROVE  Sound(scopes', tracked, Suspect \cup untold')
    BY <1>1, <1>4, <1>9 DEF Core, Sound
<1>10. ASSUME features \cap {"reinit", "loop"} = {}
       PROVE  /\ Complete(scopes', tracked, untold', Suspect)
              /\ BranchesComplete(scopes', tracked, untold')
              /\ missed \subseteq untold'
    <2>1. Complete(scopes', tracked, untold', Suspect)
        BY <1>1, <1>3, <1>4, <1>5, <1>10 DEF Core, Complete
    <2>2. ASSUME NEW i \in 1 .. Len(scopes'),
                 scopes'[i].kind \in {"then", "else"}
          PROVE  Complete(scopes', tracked, untold', scopes'[i].before)
        <3>1. /\ i \in 1 .. Len(scopes) /\ s[i] = scopes[i]
              /\ scopes[i].kind \in {"then", "else"}
              /\ scopes'[i].before = scopes[i].before
            BY <1>4, <2>2
        <3>2. Complete(scopes, tracked, untold, scopes[i].before)
            BY <1>10, <3>1 DEF Core, BranchesComplete
        <3>3. QED
            BY <1>1, <1>3, <1>4, <1>5, <3>1, <3>2 DEF Complete
    <2>3. QED
        BY <1>1, <1>10, <2>1, <2>2 DEF Core, BranchesComplete
<1>11. NoFalseAlarm'
    BY <1>1 DEF NoFalseAlarm
<1>12. QED
    BY <1>1, <1>4, <1>6, <1>7, <1>8, <1>9, <1>10, <1>11 DEF Core

\* A type test, or a parameter.
LEMMA TypeTestInv ==
    ASSUME Core, "shadow" \notin features, NEW n \in Name,
           NEW isCopy \in BOOLEAN, DefineSymbol(scopes, n, isCopy)
    PROVE  Core'
<1>1. ~Visible(n)
    BY DEF DefineSymbol
<1>2. /\ scopes \in Seq(Scope) /\ Len(scopes) \in 1 .. MaxScopes
      /\ ScopesOK(scopes, nextVar, copies, features)
    BY DEF Core, TypeOK
<1>3. \A i \in 1 .. Len(scopes) : scopes[i].symbols[n] = NoVar
    BY <1>1, LookupFacts
<1>4. QED
    BY <1>2, <1>3, DefineSymbolInv

LEMMA RangeForInv ==
    ASSUME Core, "shadow" \notin features, NEW n \in Name,
           NEW isCopy \in BOOLEAN, RangeFor(n, isCopy)
    PROVE  Core'
<1> DEFINE b == NewScope("loop", mayMoved)
           s == Append(scopes, b)
           k == Len(scopes)
<1>1. /\ "loop" \in features /\ k < MaxScopes
      /\ DefineSymbol(s, n, isCopy)
    BY DEF RangeFor
<1>2. ~Visible(n)
    BY <1>1 DEF DefineSymbol
<1>3. /\ scopes \in Seq(Scope) /\ k \in Nat \ {0} /\ k >= 1
      /\ ScopesOK(scopes, nextVar, copies, features)
      /\ mayMoved \in SUBSET Var
      /\ \A v \in mayMoved : v < nextVar /\ v \notin copies
    BY TypeFacts DEF Core
<1>4. /\ s \in Seq(Scope) /\ Len(s) = k + 1
      /\ \A i \in 1 .. k : s[i] = scopes[i]
      /\ s[k + 1].kind = "loop"
      /\ ScopesOK(s, nextVar, copies, features)
      /\ \A m \in Name : \A v \in Var :
            Binds(s, m, v) <=> Binds(scopes, m, v)
    BY <1>1, <1>3, ScopePushed
<1>5. s[k + 1].symbols[n] = NoVar
    <2>1. s[k + 1] = b
        BY <1>3
    <2>2. QED
        BY <2>1 DEF NewScope, Empty
<1> HIDE DEF s, b
<1>6. \A i \in 1 .. k : scopes[i].symbols[n] = NoVar
    BY <1>2, LookupFacts
<1> HIDE DEF k
<1>7. /\ \A i \in 1 .. k + 1 : i \in 1 .. k \/ i = k + 1
      /\ k + 1 \in 1 .. MaxScopes
    BY <1>1, <1>3, OwnershipAssumption
<1>8. \A i \in 1 .. Len(s) : s[i].symbols[n] = NoVar
    BY <1>4, <1>5, <1>6, <1>7
<1>9. \A i \in 1 .. Len(s) : s[i].kind \in {"then", "else"} =>
          i \in 1 .. Len(scopes) /\ s[i] = scopes[i]
    BY <1>4, <1>7 DEF k
<1>10. QED
    BY <1>1, <1>4, <1>7, <1>8, <1>9, DefineSymbolInv

LEMMA NextFunctionInv ==
    ASSUME Core, NextFunction
    PROVE  Core'
<1> DEFINE b == NewScope("function", {})
<1>1. /\ status = "binding" /\ scopes' = <<b>> /\ mayMoved' = {} /\ left' = {}
      /\ UNCHANGED <<features, tracked, nextVar, copies, untold, status, alarm,
                     missed>>
    BY DEF NextFunction
<1>2. /\ b \in Scope /\ b.kind = "function" /\ b.before = {}
      /\ \A n \in Name : b.symbols[n] = NoVar
    <2>1. Empty \in [Name -> Var \cup {NoVar}]
        BY DEF Empty
    <2>2. QED
        BY <2>1 DEF NewScope, Scope, Empty
<1> HIDE DEF b
<1>3. scopes' \in Seq(Scope) /\ Len(scopes') = 1 /\ scopes'[1] = b
    BY <1>1, <1>2
<1>4. TypeOK'
    BY <1>1, <1>3, OwnershipAssumption DEF Core, TypeOK
<1>5. \A n \in Name : \A v \in Var : ~Binds(scopes', n, v)
    BY <1>2, <1>3, VarFacts DEF Binds
<1>6. ScopesOK(scopes', nextVar, copies, features)
    <2>1. OneHolder(scopes') /\ Nested(scopes', features)
        BY <1>2, <1>3 DEF OneHolder, Nested
    <2>2. Befores(scopes', nextVar, copies)
        BY <1>2, <1>3 DEF Befores
    <2>3. QED
        BY <1>5, <2>1, <2>2 DEF ScopesOK, Distinct, Known
<1>7. /\ Entries(scopes', tracked, copies, untold)
      /\ Sound(scopes', tracked, Suspect' \cup untold)
    BY <1>5 DEF Entries, Sound
<1>8. /\ Complete(scopes', tracked, untold, Suspect')
      /\ BranchesComplete(scopes', tracked, untold)
    <2>1. Suspect' = {}
        BY <1>1 DEF Suspect
    <2>2. QED
        BY <1>2, <1>3, <2>1 DEF Complete, BranchesComplete
<1>9. NoFalseAlarm'
    BY <1>1 DEF NoFalseAlarm
<1>10. QED
    BY <1>1, <1>4, <1>6, <1>7, <1>8, <1>9 DEF Core

LEMMA NextInv ==
    ASSUME Inv, [Next]_vars
    PROVE  Inv'
<1>0. features' = features
    BY DEF Next, vars, Use, AssignNew, Declare, InitFrom, AssignFrom, OpenScope,
           CloseBlock, CloseBranch, ElseBranch, CloseLoop, Return, Jump,
           TypeTest, Parameter, RangeFor, DefineSymbol, NextFunction, Reject
<1>a. SUFFICES ASSUME "shadow" \notin features
               PROVE  Core'
    BY <1>0 DEF Inv
<1>b. Core
    BY <1>a DEF Inv
<1>1. ASSUME NEW n \in Name, Use(n) PROVE Core'
    BY <1>1, <1>a, <1>b, UseInv
<1>2. ASSUME NEW n \in Name, AssignNew(n) PROVE Core'
    BY <1>2, <1>a, <1>b, AssignNewInv
<1>3. ASSUME NEW n \in Name, NEW isCopy \in BOOLEAN, Declare(n, isCopy)
      PROVE  Core'
    BY <1>3, <1>a, <1>b, DeclareInv
<1>4. ASSUME NEW n \in Name, NEW from \in Name, InitFrom(n, from) PROVE Core'
    BY <1>4, <1>a, <1>b, InitFromInv
<1>5. ASSUME NEW n \in Name, NEW from \in Name, AssignFrom(n, from) PROVE Core'
    BY <1>5, <1>a, <1>b, AssignFromInv
<1>6. ASSUME NEW kind \in {"block", "then", "loop"}, OpenScope(kind)
      PROVE  Core'
    <2>1. /\ status = "binding"
          /\ kind = "loop" => "loop" \in features
          /\ Len(scopes) < MaxScopes
          /\ scopes' = Append(scopes, NewScope(kind, mayMoved))
          /\ mayMoved' = mayMoved
          /\ UNCHANGED <<features, tracked, nextVar, copies, untold, left,
                         status, alarm, missed>>
        BY <1>6 DEF OpenScope
    <2>2. scopes \in Seq(Scope) /\ Len(scopes) \in 1 .. MaxScopes - 1
        BY <1>b, <2>1, TypeFacts, OwnershipAssumption DEF Core
    <2>3. ScopesOK(scopes, nextVar, copies, features)
        BY <1>b DEF Core
    <2>4. QED
        BY <1>a, <1>b, <2>1, <2>2, <2>3, OpenInv
<1>7. CASE CloseBlock
    BY <1>7, <1>a, <1>b, CloseInv DEF CloseBlock
<1>8. CASE CloseBranch \/ CloseLoop
    <2>1. /\ status = "binding" /\ Inner.kind \in {"then", "else", "loop"}
          /\ Pop /\ mayMoved' = mayMoved \cup Inner.before
          /\ UNCHANGED <<features, tracked, nextVar, copies, untold, left,
                         status, alarm, missed>>
        BY <1>8 DEF CloseBranch, CloseLoop
    <2>2. /\ mayMoved \subseteq mayMoved'
          /\ \A v \in mayMoved' : v \in mayMoved \/ v \in Inner.before
        BY <2>1
    <2>3. QED
        BY <1>a, <1>b, <2>1, <2>2, CloseInv
<1>9. CASE ElseBranch
    <2>1. /\ "else" \in features /\ status = "binding" /\ Inner.kind = "then"
          /\ scopes' = Append(Front(scopes), NewScope("else", mayMoved))
          /\ mayMoved' = Inner.before
          /\ UNCHANGED <<features, tracked, nextVar, copies, untold, left,
                         status, alarm, missed>>
        BY <1>9 DEF ElseBranch
    <2> DEFINE s == Front(scopes)
    <2>2. /\ s \in Seq(Scope) /\ Len(s) \in 1 .. MaxScopes
          /\ Len(s) = Len(scopes) - 1
          /\ \A i \in 1 .. Len(s) : i \in 1 .. Len(scopes) /\ s[i] = scopes[i]
          /\ ScopesOK(s, nextVar, copies, features)
          /\ \A n \in Name : \A v \in Var :
                Binds(s, n, v) => Binds(scopes, n, v)
        BY <1>b, <2>1, PopFacts
    <2>3. scopes' = Append(s, NewScope("else", mayMoved))
        BY <2>1
    <2> HIDE DEF s
    <2>4. Len(s) \in 1 .. MaxScopes - 1
        BY <1>b, <2>2, TypeFacts, OwnershipAssumption DEF Core
    <2>5. QED
        BY <1>a, <1>b, <2>1, <2>2, <2>3, <2>4, OpenInv
<1>10. CASE Return
    BY <1>10, <1>b, ReturnInv
<1>11. CASE Jump
    BY <1>11, <1>b, JumpInv
<1>12. ASSUME NEW n \in Name, NEW isCopy \in BOOLEAN,
              TypeTest(n, isCopy) \/ Parameter(n, isCopy)
       PROVE  Core'
    BY <1>12, <1>a, <1>b, TypeTestInv DEF TypeTest, Parameter
<1>13. ASSUME NEW n \in Name, NEW isCopy \in BOOLEAN, RangeFor(n, isCopy)
       PROVE  Core'
    BY <1>13, <1>a, <1>b, RangeForInv
<1>14. CASE NextFunction
    BY <1>14, <1>b, NextFunctionInv
<1>15. CASE UNCHANGED vars
    BY <1>15, <1>b DEF vars, Core, TypeOK, NoFalseAlarm, Suspect
<1>16. QED
    BY <1>1, <1>2, <1>3, <1>4, <1>5, <1>6, <1>7, <1>8, <1>9, <1>10, <1>11,
       <1>12, <1>13, <1>14, <1>15 DEF Next

LEMMA Invariance == Spec => []Inv
<1>1. Init => Inv
    BY InitInv DEF Inv
<1>2. Inv /\ [Next]_vars => Inv'
    BY NextInv
<1>3. QED
    BY <1>1, <1>2, PTL DEF Spec

-----------------------------------------------------------------------------
(***************************************************************************)
(* The theorems                                                            *)
(***************************************************************************)

\* The binder rejects a program without else branches, names that hide a name
\* and assignments of variables only for a variable that has been moved on some
\* path to this point or on one that left before it, or that the tracker was
\* not told of.
THEOREM NoFalseAlarms == Spec => []NoFalseAlarm
<1>1. Inv => NoFalseAlarm
    BY DEF Inv, Core, NoFalseAlarm
<1>2. QED
    BY <1>1, Invariance, PTL

\* It accepts no use of a variable that the tracker knows and that may have been
\* moved, unless the program redefines names, assigns in branches or has loops.
THEOREM NoMissedMoves == Spec => []NoMissedMove
<1>1. Inv => NoMissedMove
    BY DEF Inv, Core, NoMissedMove
<1>2. QED
    BY <1>1, Invariance, PTL

\* In programs with branches, returns and assignments of variables only, the
\* tracker marks a name exactly if the variable it stands for was moved on a
\* path to this point or on one that left before it.
THEOREM TracksExactly == Spec => []TrackerExact
<1>1. Inv => TrackerExact
    <2> SUFFICES ASSUME Inv, features \subseteq {"branch", "leave", "assign"},
                        NEW n \in Name, Visible(n)
                 PROVE  SaysMoved(n) = (Lookup(n) \in Suspect)
        BY DEF TrackerExact
    <2>1. /\ "shadow" \notin features /\ "untold" \notin features
          /\ "else" \notin features
          /\ features \cap {"reinit", "loop"} = {}
        OBVIOUS
    <2>2. Core
        BY <2>1 DEF Inv
    <2>3. Lookup(n) \in Var /\ Binds(scopes, n, Lookup(n)) /\ untold = {}
        BY <2>1, <2>2, LookupFacts DEF Core
    <2>4. SaysMoved(n) => Lookup(n) \in Suspect
        BY <2>1, <2>2, <2>3 DEF Core, Sound, SaysMoved
    <2>5. Lookup(n) \in Suspect => SaysMoved(n)
        BY <2>1, <2>2, <2>3 DEF Core, Complete, SaysMoved
    <2>6. QED
        BY <2>4, <2>5 DEF SaysMoved
<1>2. QED
    BY <1>1, Invariance, PTL

=============================================================================
