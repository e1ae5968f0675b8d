----------------------------- MODULE Ownership -----------------------------
(***************************************************************************)
(* The use-after-move check of the binder (binder/ownership,               *)
(* binder/expressions/VariableBinder.cpp).  The binder walks a program     *)
(* once, in source order; each action binds one statement of an arbitrary  *)
(* program.  The tracker knows variables by name, in one map for the whole *)
(* program; the symbol table knows them by scope.                          *)
(*                                                                         *)
(* Against what the binder believes stands what the program does: every    *)
(* definition makes a new variable, `mayMoved' holds the variables whose   *)
(* value has been moved on some path to this point, and `left' those that  *)
(* were moved on a path that has returned, thrown or jumped before it.     *)
(*                                                                         *)
(* Borrows are left out: nothing in the binder performs one.  A switch is  *)
(* to the tracker what an if with else branches is.                        *)
(***************************************************************************)
EXTENDS Naturals, Sequences, SequencesExt

CONSTANTS
    Name,      \* identifiers
    MaxVars,   \* bound: variables defined in one execution
    MaxScopes, \* bound: nested scopes
    FeatureSets \* the kinds of program: each is the set of what its programs
                \* may do beyond straight-line code with nested blocks and
                \* distinct names:
                \* "shadow" redefine a name of an enclosing scope
                \* "untold" define variables that the tracker is not told
                \*          of: parameters, the names of type tests and the
                \*          variables of range loops
                \* "branch" have if statements
                \* "else"   have else branches
                \* "reinit" assign to variables inside branches
                \* "loop"   have loops
                \* "leave"  return, throw, break or continue before the end
                \* "assign" assign a variable to a variable

ASSUME OwnershipAssumption ==
    /\ MaxVars \in Nat /\ MaxScopes \in Nat \ {0}
    /\ \A fs \in FeatureSets :
          fs \subseteq {"shadow", "untold", "branch", "else", "reinit",
                        "loop", "leave", "assign"}

Var == 1 .. MaxVars

NoVar == 0

VARIABLES
    features, \* of the program
    tracked,  \* OwnershipTracker::_variables
    scopes,   \* the symbol tables, innermost last
    nextVar,  \* the next variable
    copies,   \* variables whose type is copied
    untold,   \* variables that the tracker is not told of
    mayMoved, \* moved on some path to this point
    left,     \* moved on a path that left before this point
    status,   \* "binding" or, after an error, "rejected"
    alarm,    \* the variable that the error is about
    missed    \* the variables used although they may have been moved

vars == <<features, tracked, scopes, nextVar, copies, untold, mayMoved, left,
          status, alarm, missed>>

\* VariableOwnership, without its borrows: a variable of a copy type is never
\* marked moved, so that its type and its status make one value.
Entry == {"untracked", "copy", "owned", "moved"}

\* symbols: what the scope defines; before: mayMoved where the scope began
\* (for an else branch, where the then branch ended; for a loop, also where it
\* was left by a jump).
Scope == [kind : {"function", "block", "then", "else", "loop"},
          symbols : [Name -> Var \cup {NoVar}],
          before : SUBSET Var]

TypeOK ==
    /\ features \in FeatureSets
    /\ tracked \in [Name -> Entry]
    /\ scopes \in Seq(Scope) /\ Len(scopes) \in 1 .. MaxScopes
    /\ nextVar \in 1 .. MaxVars + 1
    /\ \A s \in {copies, untold, mayMoved, left, missed} :
          s \subseteq 1 .. nextVar - 1
    /\ copies \cap mayMoved = {}
    /\ status \in {"binding", "rejected"}
    /\ alarm \in Var \cup {NoVar}

Empty == [n \in Name |-> NoVar]

NewScope(kind, before) ==
    [kind |-> kind, symbols |-> Empty, before |-> before]

Init ==
    /\ features \in FeatureSets
    /\ tracked = [n \in Name |-> "untracked"]
    /\ scopes = <<NewScope("function", {})>>
    /\ nextVar = 1
    /\ copies = {} /\ untold = {} /\ mayMoved = {} /\ left = {}
    /\ status = "binding"
    /\ alarm = NoVar /\ missed = {}

-----------------------------------------------------------------------------

Inner == Last(scopes)

Kinds == {scopes[i].kind : i \in DOMAIN scopes}

\* SymbolTable::lookupVariable
Lookup(n) ==
    LET holders == {i \in DOMAIN scopes : scopes[i].symbols[n] # NoVar}
    IN  IF holders = {} THEN NoVar
        ELSE scopes[CHOOSE i \in holders : \A j \in holders : j <= i].symbols[n]

Visible(n) == Lookup(n) # NoVar

\* OwnershipTracker::checkUse, by name.
SaysMoved(n) == tracked[n] = "moved"

\* Mutant: copy types are marked too.
DoMoveAlways(map, n) ==
    IF map[n] = "untracked" THEN map ELSE [map EXCEPT ![n] = "moved"]

\* Mutant: nothing is marked.
DoMoveNever(map, n) == map

\* OwnershipTracker::doMove
DoMove(map, n) ==
    IF map[n] = "owned" THEN [map EXCEPT ![n] = "moved"] ELSE map

\* Mutant: the definition keeps an entry that is there already.
DefineVariableOnce(map, n, isCopy) ==
    IF map[n] = "untracked"
    THEN [map EXCEPT ![n] = IF isCopy THEN "copy" ELSE "owned"]
    ELSE map

\* OwnershipTracker::defineVariable, insert_or_assign
DefineVariable(map, n, isCopy) ==
    [map EXCEPT ![n] = IF isCopy THEN "copy" ELSE "owned"]

\* OwnershipTracker::reinitialize
Reinitialize(map, n) ==
    IF map[n] = "moved" THEN [map EXCEPT ![n] = "owned"] ELSE map

Reject(v) ==
    /\ status' = "rejected"
    /\ alarm' = v
    /\ UNCHANGED <<features, tracked, scopes, nextVar, copies, untold,
                   mayMoved, left, missed>>

\* What a use of v that the binder accepts means for the program.
Accepted(v) ==
    missed' = missed \cup ({v} \cap mayMoved)

\* n is new in this scope, and without "shadow" in the enclosing ones.
MayDefine(n) ==
    /\ nextVar <= MaxVars
    /\ Inner.symbols[n] = NoVar
    /\ Visible(n) => "shadow" \in features

\* Without "reinit" nothing is assigned inside a branch.
MayAssign == Kinds \cap {"then", "else"} # {} => "reinit" \in features

Bind(ss, n) == [ss EXCEPT ![Len(ss)].symbols[n] = nextVar]

\* bindIdentifier
Use(n) ==
    /\ status = "binding" /\ Visible(n)
    /\ IF SaysMoved(n) THEN Reject(Lookup(n))
       ELSE /\ Accepted(Lookup(n))
            /\ UNCHANGED <<features, tracked, scopes, nextVar, copies, untold,
                           mayMoved, left, status, alarm>>

\* bindVariableDeclaration, or bindVariableInit from an initializer.
Declare(n, isCopy) ==
    /\ status = "binding" /\ MayDefine(n)
    /\ tracked' = DefineVariable(tracked, n, isCopy)
    /\ scopes' = Bind(scopes, n)
    /\ nextVar' = nextVar + 1
    /\ copies' = IF isCopy THEN copies \cup {nextVar} ELSE copies
    /\ UNCHANGED <<features, untold, mayMoved, left, status, alarm, missed>>

\* bindVariableInit from a variable: bind it, move it, define the new one.
InitFrom(n, from) ==
    /\ status = "binding" /\ MayDefine(n) /\ Visible(from)
    /\ LET v == Lookup(from)
           isCopy == v \in copies
       IN  IF SaysMoved(from) THEN Reject(v)
           ELSE /\ Accepted(v)
                /\ tracked' = DefineVariable(DoMove(tracked, from), n, isCopy)
                /\ scopes' = Bind(scopes, n)
                /\ nextVar' = nextVar + 1
                /\ copies' = IF isCopy THEN copies \cup {nextVar} ELSE copies
                /\ mayMoved' = IF isCopy THEN mayMoved ELSE mayMoved \cup {v}
                /\ UNCHANGED <<features, untold, left, status, alarm>>

\* bindAssignment from an initializer: the variable is whole again.
AssignNew(n) ==
    /\ status = "binding" /\ Visible(n)
    /\ MayAssign
    /\ tracked' = Reinitialize(tracked, n)
    /\ mayMoved' = mayMoved \ {Lookup(n)}
    /\ left' = left \ {Lookup(n)}
    /\ UNCHANGED <<features, scopes, nextVar, copies, untold, status, alarm,
                   missed>>

\* bindAssignment from a variable: moved first and bound, that is used, then.
AssignFrom(n, from) ==
    /\ "assign" \in features
    /\ status = "binding" /\ Visible(n) /\ Visible(from) /\ MayAssign
    /\ (Lookup(n) \in copies) = (Lookup(from) \in copies)
    /\ LET v == Lookup(from)
           map == DoMove(tracked, from)
       IN  IF map[from] = "moved" THEN Reject(v)
           ELSE /\ Accepted(v)
                /\ tracked' = Reinitialize(map, n)
                /\ mayMoved' = (IF v \in copies THEN mayMoved
                                ELSE mayMoved \cup {v}) \ {Lookup(n)}
                /\ left' = left \ {Lookup(n)}
                /\ UNCHANGED <<features, scopes, nextVar, copies, untold,
                               status, alarm>>

-----------------------------------------------------------------------------

Pop == scopes' = Front(scopes)

OpenScope(kind) ==
    /\ status = "binding"
    /\ kind = "then" => "branch" \in features
    /\ kind = "loop" => "loop" \in features
    /\ Len(scopes) < MaxScopes
    /\ scopes' = Append(scopes, NewScope(kind, mayMoved))
    /\ UNCHANGED <<features, tracked, nextVar, copies, untold, mayMoved, left,
                   status, alarm, missed>>

CloseBlock ==
    /\ status = "binding" /\ Inner.kind = "block"
    /\ Pop
    /\ UNCHANGED <<features, tracked, nextVar, copies, untold, mayMoved, left,
                   status, alarm, missed>>

\* The end of a branch: the paths meet that have not left.  The tracker has
\* nothing to do.
CloseBranch ==
    /\ status = "binding" /\ Inner.kind \in {"then", "else"}
    /\ Pop
    /\ mayMoved' = mayMoved \cup Inner.before
    /\ UNCHANGED <<features, tracked, nextVar, copies, untold, left, status,
                   alarm, missed>>

\* The else branch follows the then branch in the source and replaces it on
\* the path.
ElseBranch ==
    /\ "else" \in features
    /\ status = "binding" /\ Inner.kind = "then"
    /\ scopes' = Append(Front(scopes), NewScope("else", mayMoved))
    /\ mayMoved' = Inner.before
    /\ UNCHANGED <<features, tracked, nextVar, copies, untold, left, status,
                   alarm, missed>>

\* The end of a loop, which may not have run at all.  The body is bound once;
\* what an iteration finds of the one before it is not followed here either,
\* so that mayMoved is what a first iteration can have moved.
CloseLoop ==
    /\ status = "binding" /\ Inner.kind = "loop"
    /\ Pop
    /\ mayMoved' = mayMoved \cup Inner.before
    /\ UNCHANGED <<features, tracked, nextVar, copies, untold, left, status,
                   alarm, missed>>

\* return and throw: no path goes on from here.  To the tracker they are
\* nothing, or the use of their value.
Return ==
    /\ "leave" \in features /\ status = "binding"
    /\ left' = left \cup mayMoved
    /\ mayMoved' = {}
    /\ UNCHANGED <<features, tracked, scopes, nextVar, copies, untold, status,
                   alarm, missed>>

\* break and continue: the path goes on at the end of the innermost loop.
Jump ==
    /\ "leave" \in features /\ status = "binding"
    /\ \E i \in DOMAIN scopes :
          /\ scopes[i].kind = "loop"
          /\ \A j \in i + 1 .. Len(scopes) : scopes[j].kind # "loop"
          /\ scopes' = [scopes EXCEPT ![i].before = @ \cup mayMoved]
    /\ left' = left \cup mayMoved
    /\ mayMoved' = {}
    /\ UNCHANGED <<features, tracked, nextVar, copies, untold, status, alarm,
                   missed>>

-----------------------------------------------------------------------------

\* SymbolTable::defineVariable and defineParameter without a word to the
\* tracker: in scopes ss, whose innermost one is to have n.
DefineSymbol(ss, n, isCopy) ==
    /\ "untold" \in features
    /\ status = "binding" /\ nextVar <= MaxVars
    /\ Visible(n) => "shadow" \in features
    /\ scopes' = Bind(ss, n)
    /\ nextVar' = nextVar + 1
    /\ untold' = untold \cup {nextVar}
    /\ copies' = IF isCopy THEN copies \cup {nextVar} ELSE copies
    /\ UNCHANGED <<features, tracked, mayMoved, left, status, alarm, missed>>

\* A type test, `e is T n': the name is there for the rest of the scope, and
\* nothing happens when the scope has it already.
TypeTest(n, isCopy) ==
    /\ Inner.symbols[n] = NoVar
    /\ DefineSymbol(scopes, n, isCopy)

\* bindRangeForStatement: the scope of the loop has the loop's variable.
RangeFor(n, isCopy) ==
    /\ "loop" \in features /\ Len(scopes) < MaxScopes
    /\ DefineSymbol(Append(scopes, NewScope("loop", mayMoved)), n, isCopy)

\* A parameter, in the scope of a function that has nothing else yet.
Parameter(n, isCopy) ==
    /\ Len(scopes) = 1
    /\ \A m \in Name : Inner.symbols[m] \in untold \cup {NoVar}
    /\ Inner.symbols[n] = NoVar
    /\ DefineSymbol(scopes, n, isCopy)

\* The next function.  The tracker keeps everything it has.
NextFunction ==
    /\ status = "binding" /\ Len(scopes) = 1
    /\ scopes' = <<NewScope("function", {})>>
    /\ mayMoved' = {} /\ left' = {}
    /\ UNCHANGED <<features, tracked, nextVar, copies, untold, status, alarm,
                   missed>>

Next ==
    \/ \E n \in Name : Use(n) \/ AssignNew(n)
    \/ \E n \in Name, isCopy \in BOOLEAN :
          \/ Declare(n, isCopy) \/ Parameter(n, isCopy)
          \/ TypeTest(n, isCopy) \/ RangeFor(n, isCopy)
    \/ \E n, from \in Name : InitFrom(n, from) \/ AssignFrom(n, from)
    \/ \E kind \in {"block", "then", "loop"} : OpenScope(kind)
    \/ CloseBlock \/ CloseBranch \/ ElseBranch \/ CloseLoop
    \/ Return \/ Jump
    \/ NextFunction
    \/ status = "rejected" /\ UNCHANGED vars

Spec == Init /\ [][Next]_vars

-----------------------------------------------------------------------------

\* Moved on a path to this point, or on one that left before it.
Suspect == mayMoved \cup left

\* The program is rejected only for a variable whose value has been moved on
\* some path to this point, or on one that left before it, a move the tracker
\* does not forget (`if (c) { Data d2 = d1; return; }' and d1 used after it is
\* rejected for nothing); or for a variable the tracker was not told of, which
\* finds the entry that an earlier one of its name has left.  That is so for
\* programs without else branches, which the tracker takes for successors of
\* the then branch, without names that hide a name, which share its entry, and
\* without assignments of variables, which are checked after the move they
\* make.
NoFalseAlarm ==
    status = "rejected" /\ features \cap {"else", "shadow", "assign"} = {}
        => alarm \in Suspect \cup untold

\* An accepted program uses no variable that the tracker knows and whose value
\* may have been moved (tests/memory/ownership.cpp: "Using a moved value should
\* produce an error"), unless it redefines names, assigns in a branch or has
\* loops, whose bodies are bound once and run again.
NoMissedMove ==
    features \cap {"shadow", "reinit", "loop"} = {} => missed \subseteq untold

\* In straight-line code and at the end of branches, those that return or throw
\* included, the tracker marks exactly the variables that were moved on a path
\* to this point or on one that left before it.
TrackerExact ==
    features \subseteq {"branch", "leave", "assign"} /\ status = "binding" =>
        \A n \in Name : Visible(n) =>
            SaysMoved(n) = (Lookup(n) \in Suspect)
=============================================================================
