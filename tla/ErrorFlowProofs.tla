-------------------------- MODULE ErrorFlowProofs --------------------------
(***************************************************************************)
(* Proofs about the errors of compiled code, for every set of errors and   *)
(* every bound.                                                            *)
(*                                                                         *)
(* The globals hold one error.  That is enough as long as at most one      *)
(* activation, or the call that has just returned, carries an error that   *)
(* is not yet caught, and as long as nothing between here and there clears *)
(* the flag.  The inductive invariant says which activations may carry one *)
(* (Err), that above such an activation nothing can throw or open an       *)
(* operand (Inert), and that the flag and the tag are those of the carrier *)
(* (Tells).                                                                *)
(***************************************************************************)
EXTENDS ErrorFlow, TLAPS

\* The error that activation a carries: on the way out the one it is left
\* with, before that the one that its innermost operand has met.
Err(a) ==
    IF a.phase = "cleanup" THEN a.exit
    ELSE IF a.ops = <<>> THEN None ELSE a.ops[Len(a.ops)].fail

\* An operand has failed only in a call, and an operand in which another one
\* is open has called nothing yet.
OpsOK(ops) ==
    \A k \in 1 .. Len(ops) :
        /\ ~ops[k].called => ops[k].fail = None
        /\ k < Len(ops) => ~ops[k].called
        /\ ops[k].kind = "fallback" => ops[k].caught = Error

\* An activation that does not throw ends without an error, and one that throws
\* looks at the flag.
ActOK(a) ==
    /\ OpsOK(a.ops)
    /\ a.phase = "cleanup" /\ ~a.throws => a.exit = None
    /\ a.dtor => ~a.throws
    /\ a.checks = a.throws

\* Activation a may still be told of an error by a function it called.
Expects(a) ==
    /\ a.phase = "run"
    /\ IF a.ops = <<>> THEN a.throws
       ELSE a.ops[Len(a.ops)].called /\ a.ops[Len(a.ops)].fail = None

\* Activation b runs on top of a, which called it, or destroys a variable.
Linked(a, b) ==
    /\ b.dtor = (a.phase = "cleanup")
    /\ a.phase = "run" => Err(a) = None
    /\ b.throws => Expects(a)

Linear(s) == \A i \in 1 .. Len(s) - 1 : Linked(s[i], s[i + 1])

\* Above an activation that carries an error nothing throws and nothing is
\* tried.
Inert(s) ==
    \A i \in 1 .. Len(s) : Err(s[i]) # None =>
        \A j \in i + 1 .. Len(s) : ~s[j].throws /\ s[j].ops = <<>>

StackOK(s) ==
    /\ \A i \in 1 .. Len(s) : ActOK(s[i])
    /\ Linear(s)
    /\ Inert(s)

\* A call has just returned: its caller waits for the outcome, and nobody
\* carries an error.
RetOK(s, r) ==
    r # None =>
        /\ r.throws /\ Expects(s[Len(s)])
        /\ \A i \in 1 .. Len(s) : Err(s[i]) = None

\* The flag and the tag are those of the error that somebody carries.
Tells(s, r, f, t) ==
    /\ \A i \in 1 .. Len(s) : Err(s[i]) # None => f /\ t = Err(s[i])
    /\ r # None => (r.exit # None => f /\ t = r.exit)
    /\ f => \/ \E i \in 1 .. Len(s) : Err(s[i]) # None
            \/ r # None /\ r.exit # None

Inv ==
    /\ TypeOK
    /\ StackOK(stack)
    /\ RetOK(stack, ret)
    /\ Tells(stack, ret, flag, tag)
    /\ ReportsTruly

-----------------------------------------------------------------------------
(***************************************************************************)
(* Stacks                                                                  *)
(***************************************************************************)

\* The innermost operand of an activation, and the operands without it.
LEMMA OperandFacts ==
    ASSUME NEW a \in Activation, a.ops # <<>>
    PROVE  /\ Len(a.ops) \in Nat \ {0}
           /\ Last(a.ops) = a.ops[Len(a.ops)]
           /\ a.ops[Len(a.ops)] \in Operand
           /\ Front(a.ops) \in Seq(Operand)
           /\ Len(Front(a.ops)) = Len(a.ops) - 1
           /\ \A k \in 1 .. Len(a.ops) - 1 : Front(a.ops)[k] = a.ops[k]
<1>1. a.ops \in Seq(Operand)
    BY DEF Activation
<1>2. QED
    BY <1>1 DEF Last, Front

\* The running activation, and the stack without it.
LEMMA TopFacts ==
    ASSUME NEW s \in Seq(Activation), Len(s) >= 1
    PROVE  /\ Len(s) \in Nat \ {0}
           /\ Last(s) = s[Len(s)]
           /\ \A i \in 1 .. Len(s) : s[i] \in Activation
           /\ Front(s) \in Seq(Activation)
           /\ Len(Front(s)) = Len(s) - 1
           /\ \A i \in 1 .. Len(s) - 1 : Front(s)[i] = s[i]
BY DEF Last, Front

\* An activation carries an error or none.
LEMMA ErrType ==
    ASSUME NEW a \in Activation
    PROVE  Err(a) \in Maybe
<1>1. CASE a.phase = "cleanup" \/ a.ops = <<>>
    BY <1>1 DEF Err, Activation, Maybe
<1>2. CASE ~(a.phase = "cleanup" \/ a.ops = <<>>)
    <2>1. a.ops[Len(a.ops)] \in Operand
        BY <1>2, OperandFacts
    <2>2. QED
        BY <1>2, <2>1 DEF Err, Operand
<1>3. QED
    BY <1>1, <1>2

\* Only a failed call in its innermost operand gives a running activation an
\* error.
LEMMA RunningErr ==
    ASSUME NEW a \in Activation, ActOK(a), a.phase = "run"
    PROVE  /\ a.ops = <<>> => Err(a) = None
           /\ a.ops # <<>> /\ ~a.ops[Len(a.ops)].called => Err(a) = None
           /\ a.ops # <<>> => Err(a) = a.ops[Len(a.ops)].fail
<1>1. a.ops = <<>> => Err(a) = None
    BY DEF Err
<1>2. a.ops # <<>> => Err(a) = a.ops[Len(a.ops)].fail
    BY DEF Err
<1>3. ASSUME a.ops # <<>>, ~a.ops[Len(a.ops)].called
      PROVE  Err(a) = None
    <2>1. Len(a.ops) \in 1 .. Len(a.ops)
        BY <1>3, OperandFacts
    <2>2. a.ops[Len(a.ops)].fail = None
        BY <1>3, <2>1 DEF ActOK, OpsOK
    <2>3. QED
        BY <1>2, <1>3, <2>2
<1>4. QED
    BY <1>1, <1>2, <1>3

\* The activation at the top changes.
LEMMA TopReplaced ==
    ASSUME NEW s \in Seq(Activation), NEW t \in Seq(Activation),
           NEW a \in Activation,
           Len(s) >= 1, StackOK(s),
           Len(t) = Len(s), t[Len(s)] = a,
           \A i \in 1 .. Len(s) - 1 : t[i] = s[i],
           ActOK(a), a.dtor = s[Len(s)].dtor, a.throws = s[Len(s)].throws,
           \/ a.ops = <<>>
           \/ \A i \in 1 .. Len(s) - 1 : Err(s[i]) = None
    PROVE  StackOK(t)
<1> DEFINE n == Len(s)
<1>0. n \in Nat \ {0}
    BY TopFacts
<1>1. /\ t \in Seq(Activation) /\ Len(t) = n /\ t[n] = a
      /\ \A i \in 1 .. n - 1 : t[i] = s[i]
    BY <1>0
<1> HIDE DEF n
<1>2. \A i \in 1 .. n : ActOK(t[i])
    <2>1. \A i \in 1 .. n : ActOK(s[i])
        BY DEF StackOK, n
    <2>2. QED
        BY <1>0, <1>1, <2>1
<1>3. Linear(t)
    <2>1. \A i \in 1 .. n - 1 : Linked(s[i], s[i + 1])
        BY DEF StackOK, Linear, n
    <2>2. ASSUME NEW i \in 1 .. n - 1
          PROVE  Linked(t[i], t[i + 1])
        <3>1. CASE i + 1 = n
            <4>1. Linked(s[i], s[n]) /\ t[i] = s[i] /\ t[i + 1] = a
                BY <1>0, <1>1, <2>1, <3>1
            <4>2. QED
                BY <4>1 DEF Linked, n
        <3>2. CASE i + 1 # n
            <4>1. i + 1 \in 1 .. n - 1
                BY <1>0, <3>2
            <4>2. QED
                BY <1>1, <2>1, <4>1
        <3>3. QED
            BY <3>1, <3>2
    <2>3. QED
        BY <1>1, <2>2 DEF Linear
<1>4. Inert(t)
    <2>1. ASSUME NEW i \in 1 .. n, Err(t[i]) # None, NEW j \in i + 1 .. n
          PROVE  ~t[j].throws /\ t[j].ops = <<>>
        <3>1. i \in 1 .. n - 1 /\ t[i] = s[i]
            BY <1>0, <1>1, <2>1
        <3>2. ~s[j].throws /\ s[j].ops = <<>>
            BY <2>1, <3>1 DEF StackOK, Inert, n
        <3>3. CASE j = n
            BY <1>1, <2>1, <3>1, <3>2, <3>3 DEF n
        <3>4. CASE j # n
            <4>1. t[j] = s[j]
                BY <1>0, <1>1, <2>1, <3>4
            <4>2. QED
                BY <3>2, <4>1
        <3>5. QED
            BY <3>3, <3>4
    <2>2. QED
        BY <1>1, <2>1 DEF Inert
<1>5. QED
    BY <1>1, <1>2, <1>3, <1>4 DEF StackOK, n

\* An activation that has just begun.
LEMMA FreshFacts ==
    ASSUME NEW throws \in BOOLEAN, NEW dtor \in BOOLEAN, dtor => ~throws
    PROVE  LET b == Fresh(throws, throws, dtor)
           IN  /\ b \in Activation /\ b.ops = <<>> /\ b.throws = throws
               /\ b.dtor = dtor /\ b.phase = "run"
               /\ Len(b.ops) = 0
               /\ Err(b) = None
               /\ ActOK(b)
<1> DEFINE b == Fresh(throws, throws, dtor)
<1>1. /\ b \in Activation /\ b.ops = <<>> /\ b.throws = throws
      /\ b.dtor = dtor /\ b.phase = "run" /\ b.checks = throws
    <2>1. <<>> \in Seq(Operand)
        OBVIOUS
    <2>2. QED
        BY <2>1 DEF Fresh, Activation, Maybe
<1> HIDE DEF b
<1>2. Err(b) = None
    BY <1>1 DEF Err
<1>3. OpsOK(b.ops) /\ Len(b.ops) = 0
    BY <1>1 DEF OpsOK
<1>4. ActOK(b)
    BY <1>1, <1>3 DEF ActOK
<1>5. QED
    BY <1>1, <1>2, <1>3, <1>4 DEF b

\* A throwing function that has found a zero among its parameters.
LEMMA ZeroFacts ==
    ASSUME NEW e \in Error
    PROVE  LET b == [Fresh(TRUE, TRUE, FALSE) EXCEPT !.phase = "cleanup", !.exit = e]
           IN  /\ b \in Activation /\ b.ops = <<>> /\ b.throws /\ ~b.dtor
               /\ Len(b.ops) = 0
               /\ Err(b) = e
               /\ ActOK(b)
<1> DEFINE b == [Fresh(TRUE, TRUE, FALSE) EXCEPT !.phase = "cleanup", !.exit = e]
<1>1. /\ b \in Activation /\ b.ops = <<>> /\ b.throws = TRUE
      /\ b.dtor = FALSE /\ b.phase = "cleanup" /\ b.checks = TRUE /\ b.exit = e
    <2>1. <<>> \in Seq(Operand)
        OBVIOUS
    <2>2. QED
        BY <2>1 DEF Fresh, Activation, Maybe
<1> HIDE DEF b
<1>2. Err(b) = e
    BY <1>1 DEF Err
<1>3. OpsOK(b.ops) /\ Len(b.ops) = 0
    BY <1>1 DEF OpsOK
<1>4. ActOK(b)
    BY <1>1, <1>3 DEF ActOK
<1>5. QED
    BY <1>1, <1>2, <1>3, <1>4 DEF b

\* A function is entered.
LEMMA TopPushed ==
    ASSUME NEW s \in Seq(Activation), Len(s) >= 1, StackOK(s),
           NEW b \in Activation, b.ops = <<>>, ActOK(b),
           Linked(s[Len(s)], b),
           b.throws => \A i \in 1 .. Len(s) : Err(s[i]) = None
    PROVE  LET t == Append(s, b)
           IN  /\ t \in Seq(Activation) /\ Len(t) = Len(s) + 1
               /\ \A i \in 1 .. Len(s) : t[i] = s[i]
               /\ t[Len(s) + 1] = b
               /\ StackOK(t)
<1> DEFINE n == Len(s)
           t == Append(s, b)
<1>0. n \in Nat \ {0}
    BY TopFacts
<1>a. b \in Activation /\ b.ops = <<>> /\ ActOK(b)
    OBVIOUS
<1>b. Linked(s[n], b)
    OBVIOUS
<1>1. /\ t \in Seq(Activation) /\ Len(t) = n + 1 /\ t[n + 1] = b
      /\ \A i \in 1 .. n : t[i] = s[i]
    BY <1>0, <1>a
<1> HIDE DEF n, t
<1>2. \A i \in 1 .. n + 1 : ActOK(t[i])
    <2>1. \A i \in 1 .. n : ActOK(s[i])
        BY DEF StackOK, n
    <2>2. QED
        BY <1>0, <1>1, <1>a, <2>1
<1>3. Linear(t)
    <2>1. \A i \in 1 .. n - 1 : Linked(s[i], s[i + 1])
        BY DEF StackOK, Linear, n
    <2>2. ASSUME NEW i \in 1 .. n
          PROVE  Linked(t[i], t[i + 1])
        <3>1. CASE i = n
            BY <1>0, <1>1, <1>b, <3>1
        <3>2. CASE i # n
            <4>1. i \in 1 .. n - 1 /\ i + 1 \in 1 .. n
                BY <1>0, <3>2
            <4>2. QED
                BY <1>1, <2>1, <4>1
        <3>3. QED
            BY <3>1, <3>2
    <2>3. Len(t) - 1 = n
        BY <1>0, <1>1
    <2>4. QED
        BY <2>2, <2>3 DEF Linear
<1>4. Inert(t)
    <2>1. ASSUME NEW i \in 1 .. n + 1, Err(t[i]) # None,
                 NEW j \in i + 1 .. n + 1
          PROVE  ~t[j].throws /\ t[j].ops = <<>>
        <3>1. i \in 1 .. n /\ t[i] = s[i]
            BY <1>0, <1>1, <1>a, <2>1
        <3>2. CASE j = n + 1
            BY <1>1, <1>a, <2>1, <3>1, <3>2 DEF n
        <3>3. CASE j # n + 1
            <4>1. j \in i + 1 .. n /\ t[j] = s[j]
                BY <1>0, <1>1, <2>1, <3>3
            <4>2. QED
                BY <2>1, <3>1, <4>1 DEF StackOK, Inert, n
        <3>4. QED
            BY <3>2, <3>3
    <2>2. QED
        BY <1>1, <2>1 DEF Inert
<1>5. StackOK(t)
    BY <1>1, <1>2, <1>3, <1>4 DEF StackOK
<1>6. QED
    BY <1>1, <1>5 DEF n, t

\* A function is left.
LEMMA TopPopped ==
    ASSUME NEW s \in Seq(Activation), Len(s) >= 2, StackOK(s)
    PROVE  StackOK(Front(s))
<1> DEFINE n == Len(s) - 1
           t == Front(s)
<1>1. /\ n \in Nat \ {0} /\ Len(t) = n /\ Len(s) = n + 1
      /\ \A i \in 1 .. n : t[i] = s[i]
    BY TopFacts
<1> HIDE DEF n, t
<1>2. \A i \in 1 .. n : ActOK(t[i])
    BY <1>1 DEF StackOK
<1>3. Linear(t)
    BY <1>1 DEF StackOK, Linear
<1>4. Inert(t)
    <2>1. ASSUME NEW i \in 1 .. n, Err(t[i]) # None, NEW j \in i + 1 .. n
          PROVE  ~t[j].throws /\ t[j].ops = <<>>
        <3>1. t[i] = s[i] /\ t[j] = s[j] /\ j \in i + 1 .. Len(s)
              /\ i \in 1 .. Len(s)
            BY <1>1
        <3>2. QED
            BY <2>1, <3>1 DEF StackOK, Inert
    <2>2. QED
        BY <1>1, <2>1 DEF Inert
<1>5. QED
    BY <1>1, <1>2, <1>3, <1>4 DEF StackOK, t

-----------------------------------------------------------------------------
(***************************************************************************)
(* The state in the invariant                                              *)
(***************************************************************************)

\* The running activation, and the errors below it.
LEMMA Setting ==
    ASSUME Inv
    PROVE  /\ Len(stack) \in Nat \ {0} /\ Len(stack) \in 1 .. Len(stack)
           /\ Top = stack[Len(stack)] /\ Top \in Activation /\ ActOK(Top)
           /\ Len(Top.ops) <= MaxNest
           /\ \A i \in 1 .. Len(stack) :
                 stack[i] \in Activation /\ Err(stack[i]) \in Maybe
           /\ Top.throws \/ Top.ops # <<>> =>
                 \A i \in 1 .. Len(stack) - 1 : Err(stack[i]) = None
<1>1. stack \in Seq(Activation) /\ Len(stack) >= 1
    BY DEF Inv, TypeOK
<1>2. /\ Len(stack) \in Nat \ {0} /\ Len(stack) \in 1 .. Len(stack)
      /\ Top = stack[Len(stack)] /\ Top \in Activation
      /\ \A i \in 1 .. Len(stack) : stack[i] \in Activation
    BY <1>1, TopFacts DEF Top
<1>3. ActOK(Top)
    BY <1>2 DEF Inv, StackOK
<1>4. Len(Top.ops) <= MaxNest
    BY <1>1, <1>2 DEF Inv, TypeOK
<1>5. \A i \in 1 .. Len(stack) : Err(stack[i]) \in Maybe
    BY <1>2, ErrType
<1>6. ASSUME NEW i \in 1 .. Len(stack) - 1, Err(stack[i]) # None
      PROVE  ~Top.throws /\ Top.ops = <<>>
    <2>1. i \in 1 .. Len(stack) /\ Len(stack) \in i + 1 .. Len(stack)
        BY <1>2
    <2>2. QED
        BY <1>2, <1>6, <2>1 DEF Inv, StackOK, Inert
<1>7. QED
    BY <1>2, <1>3, <1>4, <1>5, <1>6

\* Whose error the flag announces while an activation runs.
LEMMA FlagOf ==
    ASSUME Inv, ret = None, flag
    PROVE  \/ Err(Top) # None
           \/ \E i \in 1 .. Len(stack) - 1 : Err(stack[i]) # None
<1>1. PICK i \in 1 .. Len(stack) : Err(stack[i]) # None
    BY DEF Inv, Tells
<1>2. CASE i = Len(stack)
    BY <1>1, <1>2, Setting
<1>3. CASE i # Len(stack)
    BY <1>1, <1>3, Setting
<1>4. QED
    BY <1>2, <1>3

\* SetTop
LEMMA TopSet ==
    ASSUME Inv, NEW a \in Activation, SetTop(a), Len(a.ops) <= MaxNest,
           ActOK(a), a.dtor = Top.dtor, a.throws = Top.throws,
           \/ a.ops = <<>>
           \/ \A i \in 1 .. Len(stack) - 1 : Err(stack[i]) = None
    PROVE  /\ stack' \in Seq(Activation) /\ Len(stack') = Len(stack)
           /\ Len(stack') \in 1 .. MaxDepth
           /\ \A i \in DOMAIN stack' : Len(stack'[i].ops) <= MaxNest
           /\ stack'[Len(stack)] = a
           /\ \A i \in 1 .. Len(stack) - 1 : stack'[i] = stack[i]
           /\ StackOK(stack')
<1>1. stack \in Seq(Activation) /\ Len(stack) >= 1 /\ StackOK(stack)
    BY DEF Inv, TypeOK
<1>2. /\ stack' \in Seq(Activation) /\ Len(stack') = Len(stack)
      /\ stack'[Len(stack)] = a
      /\ \A i \in 1 .. Len(stack) - 1 : stack'[i] = stack[i]
      /\ StackOK(stack')
    <2>1. stack' = [stack EXCEPT ![Len(stack)] = a]
        BY DEF SetTop
    <2>2. a.dtor = stack[Len(stack)].dtor /\ a.throws = stack[Len(stack)].throws
        BY Setting
    <2>3. /\ stack' \in Seq(Activation) /\ Len(stack') = Len(stack)
          /\ stack'[Len(stack)] = a
          /\ \A i \in 1 .. Len(stack) - 1 : stack'[i] = stack[i]
        BY <1>1, <2>1
    <2> HIDE DEF SetTop
    <2>4. StackOK(stack')
        BY <1>1, <2>2, <2>3, TopReplaced
    <2>5. QED
        BY <2>3, <2>4
<1>3. \A i \in DOMAIN stack' : Len(stack'[i].ops) <= MaxNest
    <2>1. \A i \in 1 .. Len(stack) : Len(stack[i].ops) <= MaxNest
        BY <1>1 DEF Inv, TypeOK
    <2>2. DOMAIN stack' = 1 .. Len(stack)
        BY <1>2
    <2>3. QED
        BY <1>2, <2>1, <2>2
<1>4. Len(stack') \in 1 .. MaxDepth
    BY <1>2 DEF Inv, TypeOK
<1>5. QED
    BY <1>2, <1>3, <1>4

\* Unwind
LEMMA Unwound ==
    ASSUME Inv, NEW e \in Maybe, Unwind(e), Top.throws \/ e = None,
           Top.ops = <<>> \/ Top.throws
    PROVE  /\ stack' \in Seq(Activation) /\ Len(stack') = Len(stack)
           /\ Len(stack') \in 1 .. MaxDepth
           /\ \A i \in DOMAIN stack' : Len(stack'[i].ops) <= MaxNest
           /\ Err(stack'[Len(stack)]) = e
           /\ \A i \in 1 .. Len(stack) - 1 : stack'[i] = stack[i]
           /\ StackOK(stack')
<1> DEFINE a == [Top EXCEPT !.phase = "cleanup", !.exit = e]
<1>1. /\ a \in Activation /\ a.dtor = Top.dtor /\ a.throws = Top.throws
      /\ a.checks = Top.checks
      /\ a.ops = Top.ops /\ a.phase = "cleanup" /\ a.exit = e
    BY Setting DEF Activation
<1>2. SetTop(a)
    BY DEF Unwind
<1> HIDE DEF a
<1>3. ActOK(a)
    BY <1>1, Setting DEF ActOK
<1>4. Err(a) = e
    BY <1>1 DEF Err
<1>5. \/ a.ops = <<>>
      \/ \A i \in 1 .. Len(stack) - 1 : Err(stack[i]) = None
    BY <1>1, Setting
<1>6. Len(a.ops) <= MaxNest
    BY <1>1, Setting
<1>7. /\ stack' \in Seq(Activation) /\ Len(stack') = Len(stack)
      /\ Len(stack') \in 1 .. MaxDepth
      /\ \A i \in DOMAIN stack' : Len(stack'[i].ops) <= MaxNest
      /\ stack'[Len(stack)] = a
      /\ \A i \in 1 .. Len(stack) - 1 : stack'[i] = stack[i]
      /\ StackOK(stack')
    BY <1>1, <1>2, <1>3, <1>5, <1>6, TopSet
<1>8. QED
    BY <1>4, <1>7

\* PopOperand: what is left of the activation carries no error.
LEMMA Popped ==
    ASSUME Inv, Running, InOperand, PopOperand
    PROVE  /\ stack' \in Seq(Activation) /\ Len(stack') = Len(stack)
           /\ Len(stack') \in 1 .. MaxDepth
           /\ \A i \in DOMAIN stack' : Len(stack'[i].ops) <= MaxNest
           /\ \A i \in 1 .. Len(stack) : Err(stack'[i]) = None
           /\ StackOK(stack')
<1> DEFINE a == [Top EXCEPT !.ops = Front(Top.ops)]
<1>0. /\ Front(Top.ops) \in Seq(Operand)
      /\ Len(Top.ops) \in Nat \ {0}
      /\ Len(Front(Top.ops)) = Len(Top.ops) - 1
      /\ \A k \in 1 .. Len(Top.ops) - 1 : Front(Top.ops)[k] = Top.ops[k]
    BY Setting, OperandFacts DEF InOperand
<1>1. /\ a \in Activation /\ a.dtor = Top.dtor /\ a.throws = Top.throws
      /\ a.checks = Top.checks
      /\ a.ops = Front(Top.ops) /\ a.phase = Top.phase
    BY <1>0, Setting DEF Activation
<1>2. SetTop(a)
    BY DEF PopOperand
<1> HIDE DEF a
<1>3. OpsOK(Top.ops)
    BY Setting DEF ActOK
<1>4. \A k \in 1 .. Len(a.ops) :
          /\ ~a.ops[k].called /\ a.ops[k].fail = None
          /\ a.ops[k].kind = "fallback" => a.ops[k].caught = Error
    <2>1. ASSUME NEW k \in 1 .. Len(a.ops)
          PROVE  /\ ~a.ops[k].called /\ a.ops[k].fail = None
                 /\ a.ops[k].kind = "fallback" => a.ops[k].caught = Error
        <3>1. k \in 1 .. Len(Top.ops) /\ k < Len(Top.ops)
              /\ a.ops[k] = Top.ops[k]
            BY <1>0, <1>1
        <3>2. QED
            BY <1>3, <3>1 DEF OpsOK
    <2>2. QED
        BY <2>1
<1>5. ActOK(a) /\ Err(a) = None
    <2>1. OpsOK(a.ops)
        BY <1>4 DEF OpsOK
    <2>2. a.phase = "run"
        BY <1>1 DEF Running
    <2>3. ActOK(a)
        BY <1>1, <2>1, <2>2, Setting DEF ActOK
    <2>4. a.ops = <<>> \/ Len(a.ops) \in 1 .. Len(a.ops)
        BY <1>1, OperandFacts
    <2>5. QED
        BY <1>4, <2>2, <2>3, <2>4 DEF Err
<1>6. \A i \in 1 .. Len(stack) - 1 : Err(stack[i]) = None
    BY Setting DEF InOperand
<1>7. Len(a.ops) <= MaxNest
    <2>1. Len(Top.ops) <= MaxNest
        BY Setting
    <2>2. QED
        BY <1>0, <1>1, <2>1, ErrorFlowAssumption
<1>8. /\ stack' \in Seq(Activation) /\ Len(stack') = Len(stack)
      /\ Len(stack') \in 1 .. MaxDepth
      /\ \A i \in DOMAIN stack' : Len(stack'[i].ops) <= MaxNest
      /\ stack'[Len(stack)] = a
      /\ \A i \in 1 .. Len(stack) - 1 : stack'[i] = stack[i]
      /\ StackOK(stack')
    BY <1>1, <1>2, <1>5, <1>6, <1>7, TopSet
<1>9. \A i \in 1 .. Len(stack) : Err(stack'[i]) = None
    BY <1>5, <1>6, <1>8, Setting
<1>10. QED
    BY <1>8, <1>9

-----------------------------------------------------------------------------
(***************************************************************************)
(* The steps                                                               *)
(***************************************************************************)

\* What the binder accepts, of programs whose operands end with their first
\* throwing call, whose destroy methods do not try while an error propagates,
\* that pass zero for a non-zero parameter only to functions that throw, and
\* that have no methods of primitive types that throw.
Disciplined == Hazards \subseteq {"operator"}

LEMMA InitInv ==
    ASSUME Init
    PROVE  Inv
<1>1. PICK throws \in BOOLEAN : stack = <<Fresh(throws, throws, FALSE)>>
    BY DEF Init
<1> DEFINE b == Fresh(throws, throws, FALSE)
<1>2. b \in Activation /\ Len(b.ops) = 0 /\ Err(b) = None /\ ActOK(b)
    BY FreshFacts
<1> HIDE DEF b
<1>3. stack = <<b>>
    BY <1>1 DEF b
<1>4. stack \in Seq(Activation) /\ Len(stack) = 1 /\ stack[1] = b
    BY <1>2, <1>3
<1>5. TypeOK
    <2>0. DOMAIN stack = 1 .. 1
        BY <1>4
    <2>1. \A i \in DOMAIN stack : Len(stack[i].ops) <= MaxNest
        BY <1>2, <1>4, <2>0, ErrorFlowAssumption
    <2>2. /\ flag = FALSE /\ tag \in Maybe /\ ret = None /\ calls = 0
          /\ status = "running"
        BY DEF Init, Maybe
    <2>3. Len(stack) \in 1 .. MaxDepth /\ 0 \in 0 .. MaxCalls
        BY <1>4, ErrorFlowAssumption
    <2>4. QED
        BY <1>4, <2>1, <2>2, <2>3 DEF TypeOK
<1>6. StackOK(stack)
    BY <1>2, <1>4 DEF StackOK, Linear, Inert
<1>7. RetOK(stack, ret) /\ Tells(stack, ret, flag, tag) /\ ReportsTruly
    <2>1. \A i \in 1 .. Len(stack) : Err(stack[i]) = None
        BY <1>2, <1>4
    <2>2. flag = FALSE /\ ret = None /\ status = "running"
        BY DEF Init
    <2>3. QED
        BY <2>1, <2>2 DEF RetOK, Tells, ReportsTruly
<1>8. QED
    BY <1>5, <1>6, <1>7 DEF Inv

\* The steps after which an activation unwinds with the error that it carries
\* already, or with a new one.
LEMMA UnwindInv ==
    ASSUME Inv, NEW e \in Maybe, Unwind(e), Top.throws \/ e = None,
           Top.ops = <<>> \/ Top.throws,
           flag' \in BOOLEAN, tag' \in Maybe,
           ret' = None, status' = "running", calls' = calls,
           e # None => flag' /\ tag' = e,
           e = None => flag' = flag /\ tag' = tag,
           e = None => ret = None /\ Err(Top) = None
    PROVE  Inv'
<1>1. /\ stack' \in Seq(Activation) /\ Len(stack') = Len(stack)
      /\ Len(stack') \in 1 .. MaxDepth
      /\ \A i \in DOMAIN stack' : Len(stack'[i].ops) <= MaxNest
      /\ Err(stack'[Len(stack)]) = e
      /\ \A i \in 1 .. Len(stack) - 1 : stack'[i] = stack[i]
      /\ StackOK(stack')
    BY Unwound
<1>2. TypeOK'
    <2>1. calls \in 0 .. MaxCalls
        BY DEF Inv, TypeOK
    <2>2. QED
        BY <1>1, <2>1 DEF TypeOK
<1>3. RetOK(stack', ret')
    BY DEF RetOK
<1>4. /\ Len(stack) \in Nat \ {0} /\ Len(stack) \in 1 .. Len(stack)
      /\ Top = stack[Len(stack)]
    BY Setting
<1>5. Tells(stack', ret', flag', tag')
    <2>1. CASE e # None
        <3>1. \A i \in 1 .. Len(stack) - 1 : Err(stack[i]) = None
            BY <2>1, Setting
        <3>2. QED
            BY <1>1, <1>4, <2>1, <3>1 DEF Tells
    <2>2. CASE e = None
        <3>1. \A i \in 1 .. Len(stack) : Err(stack'[i]) = Err(stack[i])
            BY <1>1, <1>4, <2>2
        <3>2. QED
            BY <1>1, <2>2, <3>1 DEF Inv, Tells
    <2>3. QED
        BY <2>1, <2>2
<1>6. ReportsTruly'
    BY DEF ReportsTruly
<1>7. QED
    BY <1>1, <1>2, <1>3, <1>5, <1>6 DEF Inv

LEMMA ThrowInv ==
    ASSUME Inv, NEW e \in Error, Running, Top.throws,
           flag' = TRUE, tag' = e, Unwind(e), UNCHANGED <<ret, status, calls>>
    PROVE  Inv'
<1>1. e \in Maybe /\ e # None /\ ret' = None /\ status' = "running"
    BY ErrorFlowAssumption DEF Maybe, Running
<1>2. QED
    BY <1>1, UnwindInv

LEMMA FinishInv ==
    ASSUME Inv, Finish
    PROVE  Inv'
<1>1. /\ Running /\ ~InOperand /\ Unwind(None)
      /\ UNCHANGED <<flag, tag, ret, status, calls>>
    BY DEF Finish
<1>2. Top.ops = <<>> /\ Top.phase = "run" /\ ret = None /\ status = "running"
    BY <1>1 DEF Running, InOperand
<1>3. Err(Top) = None
    BY <1>2, Setting, RunningErr
<1>4. flag \in BOOLEAN /\ tag \in Maybe /\ None \in Maybe
    BY DEF Inv, TypeOK, Maybe
<1>5. QED
    BY <1>1, <1>2, <1>3, <1>4, UnwindInv

\* The error of the innermost operand is told by the flag and the tag.
LEMMA OperandTold ==
    ASSUME Inv, Running, InOperand
    PROVE  /\ Top.ops[Len(Top.ops)] = Last(Top.ops)
           /\ Last(Top.ops).fail \in Maybe
           /\ Err(Top) = Last(Top.ops).fail
           /\ flag <=> Last(Top.ops).fail # None
           /\ flag => tag = Last(Top.ops).fail
<1>1. /\ ret = None /\ Top.phase = "run" /\ Top.ops # <<>>
    BY DEF Running, InOperand
<1>2. /\ Top.ops[Len(Top.ops)] = Last(Top.ops)
      /\ Last(Top.ops) \in Operand
    BY <1>1, Setting, OperandFacts
<1>3. Err(Top) = Last(Top.ops).fail
    BY <1>1, <1>2, Setting, RunningErr
<1>4. flag => Err(Top) # None
    BY <1>1, FlagOf, Setting
<1>5. Err(Top) # None => flag /\ tag = Err(Top)
    BY Setting DEF Inv, Tells
<1>6. QED
    BY <1>2, <1>3, <1>4, <1>5 DEF Operand

LEMMA OperandFailsInv ==
    ASSUME Inv, OperandFails
    PROVE  Inv'
<1>1. /\ Running /\ InOperand /\ flag /\ UNCHANGED <<flag, tag, ret, calls>>
    BY DEF OperandFails, CloseOperand
<1>2. ret = None /\ status = "running" /\ Top.phase = "run"
    BY <1>1 DEF Running
<1>3. /\ Last(Top.ops).fail \in Maybe /\ Last(Top.ops).fail # None
      /\ tag = Last(Top.ops).fail
    BY <1>1, OperandTold
<1>0. Top.checks = Top.throws
    BY Setting DEF ActOK
<1>4. CASE Top.throws
    <2>1. Unwind(Last(Top.ops).fail) /\ UNCHANGED status
        BY <1>0, <1>4 DEF OperandFails
    <2>2. flag \in BOOLEAN /\ tag \in Maybe
        BY DEF Inv, TypeOK
    <2>3. QED
        BY <1>1, <1>2, <1>3, <1>4, <2>1, <2>2, UnwindInv
<1>5. CASE ~Top.throws
    <2>1. status' = "uncaught" /\ UNCHANGED stack
        BY <1>0, <1>5 DEF OperandFails
    <2>2. Top' = Top
        BY <2>1 DEF Top
    <2>3. ReportsTruly'
        BY <1>2, <1>3, <2>1, <2>2 DEF ReportsTruly
    <2>4. TypeOK'
        BY <1>1, <2>1 DEF Inv, TypeOK
    <2>5. QED
        BY <1>1, <2>1, <2>3, <2>4 DEF Inv
<1>6. QED
    BY <1>4, <1>5

LEMMA OperandPoppedInv ==
    ASSUME Inv, Running, InOperand, PopOperand, flag' = FALSE,
           UNCHANGED <<tag, ret, status, calls>>
    PROVE  Inv'
<1>1. /\ stack' \in Seq(Activation) /\ Len(stack') = Len(stack)
      /\ Len(stack') \in 1 .. MaxDepth
      /\ \A i \in DOMAIN stack' : Len(stack'[i].ops) <= MaxNest
      /\ \A i \in 1 .. Len(stack) : Err(stack'[i]) = None
      /\ StackOK(stack')
    BY Popped
<1>2. ret' = None /\ status' = "running"
    BY DEF Running
<1>3. TypeOK'
    BY <1>1, <1>2 DEF Inv, TypeOK
<1>4. RetOK(stack', ret') /\ ReportsTruly'
    BY <1>2 DEF RetOK, ReportsTruly
<1>5. Tells(stack', ret', flag', tag')
    BY <1>1, <1>2 DEF Tells
<1>6. QED
    BY <1>1, <1>3, <1>4, <1>5 DEF Inv

\* A step that ends the program and changes nothing else.
LEMMA EndInv ==
    ASSUME Inv, UNCHANGED <<stack, flag, tag, ret, calls>>,
           status' \in {"running", "ok", "uncaught", "trapped"}, ReportsTruly'
    PROVE  Inv'
<1>1. TypeOK'
    BY DEF Inv, TypeOK
<1>2. QED
    BY <1>1 DEF Inv

LEMMA LeaveMainInv ==
    ASSUME Inv, LeaveMain
    PROVE  Inv'
<1>1. /\ ret = None /\ Top.phase = "cleanup" /\ Len(stack) = 1
      /\ UNCHANGED <<stack, flag, tag, ret, calls>>
    BY DEF LeaveMain
<1>2. status' = IF flag THEN "uncaught" ELSE "ok"
    BY DEF LeaveMain
<1>3. Top' = Top
    BY <1>1 DEF Top
<1>4. Err(Top) = Top.exit
    BY <1>1 DEF Err
<1>5. flag => Top.exit # None
    BY <1>1, <1>4, FlagOf
<1>6. Top.exit # None => flag
    BY <1>4, Setting DEF Inv, Tells
<1>7. CASE flag
    <2>1. status' = "uncaught"
        BY <1>2, <1>7
    <2>2. ReportsTruly'
        BY <1>1, <1>3, <1>5, <1>7, <2>1 DEF ReportsTruly
    <2>3. QED
        BY <1>1, <2>1, <2>2, EndInv
<1>8. CASE ~flag
    <2>1. status' = "ok"
        BY <1>2, <1>8
    <2>2. ReportsTruly'
        BY <1>3, <1>6, <1>8, <2>1 DEF ReportsTruly
    <2>3. QED
        BY <1>1, <2>1, <2>2, EndInv
<1>9. QED
    BY <1>7, <1>8

LEMMA TrapInv ==
    ASSUME Inv, Trap
    PROVE  Inv'
<1>1. status' = "trapped" /\ UNCHANGED <<stack, flag, tag, ret, calls>>
    BY DEF Trap
<1>2. ReportsTruly'
    BY <1>1 DEF ReportsTruly
<1>3. QED
    BY <1>1, <1>2, EndInv

\* A call has returned to an operand, or outside one.
LEMMA AfterCallInv ==
    ASSUME Inv, AfterCall
    PROVE  Inv'
<1> DEFINE n == Len(stack)
<1>1. /\ status = "running" /\ ret # None /\ ret' = None
      /\ UNCHANGED <<flag, tag, status, calls>>
    BY DEF AfterCall
<1>2. Expects(Top) /\ ret.throws /\ \A i \in 1 .. n : Err(stack[i]) = None
    BY <1>1, Setting DEF Inv, RetOK
<1>3. ret \in Return /\ ret.exit \in Maybe
    BY <1>1 DEF Inv, TypeOK, Return
<1>4. /\ flag <=> ret.exit # None
      /\ flag => tag = ret.exit
    BY <1>1, <1>2 DEF Inv, Tells
<1>5. flag \in BOOLEAN /\ tag \in Maybe /\ calls \in 0 .. MaxCalls
    BY DEF Inv, TypeOK
<1>6. CASE ~InOperand
    <2>1. Top.ops = <<>> /\ Top.throws /\ Top.checks
        BY <1>2, <1>6, Setting DEF InOperand, Expects, ActOK
    <2>2. CASE flag
        <3>1. Unwind(ret.exit)
            BY <1>2, <1>6, <2>1, <2>2 DEF AfterCall
        <3>2. QED
            BY <1>1, <1>3, <1>4, <1>5, <2>1, <2>2, <3>1, UnwindInv
    <2>3. CASE ~flag
        <3>1. stack' = stack
            BY <1>6, <2>3 DEF AfterCall
        <3>2. TypeOK'
            BY <1>1, <3>1 DEF Inv, TypeOK
        <3>3. RetOK(stack', ret') /\ ReportsTruly'
            BY <1>1 DEF RetOK, ReportsTruly
        <3>4. Tells(stack', ret', flag', tag')
            BY <1>1, <1>2, <2>3, <3>1 DEF Tells
        <3>5. StackOK(stack')
            BY <3>1 DEF Inv
        <3>6. QED
            BY <3>2, <3>3, <3>4, <3>5 DEF Inv
    <2>4. QED
        BY <2>2, <2>3
<1>7. CASE InOperand
    <2> DEFINE m == Len(Top.ops)
               o == [Last(Top.ops) EXCEPT !.fail = ret.exit]
               a == [Top EXCEPT !.ops[m] = o]
    <2>1. /\ Top.ops \in Seq(Operand) /\ m \in Nat \ {0}
          /\ Last(Top.ops) = Top.ops[m] /\ Last(Top.ops) \in Operand
        BY <1>7, Setting, OperandFacts DEF InOperand, Activation
    <2>2. Top.phase = "run" /\ Top.ops[m].called /\ Top.ops[m].fail = None
        BY <1>2, <1>7 DEF InOperand, Expects
    <2>3. SetTop(a)
        BY <1>7, <2>1, <2>2 DEF AfterCall, SetOperand
    <2>4. /\ o \in Operand /\ o.called = Last(Top.ops).called
          /\ o.fail = ret.exit /\ o.kind = Last(Top.ops).kind
          /\ o.caught = Last(Top.ops).caught
        BY <1>3, <2>1 DEF Operand
    <2> HIDE DEF o
    <2>5. /\ a.dtor = Top.dtor /\ a.throws = Top.throws
          /\ a.checks = Top.checks
          /\ a.phase = Top.phase
          /\ a.ops = [Top.ops EXCEPT ![m] = o]
          /\ a \in Activation
        <3>1. [Top.ops EXCEPT ![m] = o] \in Seq(Operand)
            BY <2>1, <2>4
        <3>2. QED
            BY <3>1, Setting DEF Activation
    <2> HIDE DEF a
    <2>6. /\ Len(a.ops) = m /\ a.ops[m] = o
          /\ \A k \in 1 .. m - 1 : a.ops[k] = Top.ops[k]
        BY <2>1, <2>4, <2>5
    <2>7. ActOK(a) /\ Err(a) = ret.exit
        <3>1. OpsOK(Top.ops)
            BY Setting DEF ActOK
        <3>2. OpsOK(a.ops)
            <4>1. ASSUME NEW k \in 1 .. m
                  PROVE  /\ ~a.ops[k].called => a.ops[k].fail = None
                         /\ k < m => ~a.ops[k].called
                         /\ a.ops[k].kind = "fallback"
                               => a.ops[k].caught = Error
                <5>1. CASE k = m
                    BY <2>1, <2>2, <2>4, <2>6, <3>1, <5>1 DEF OpsOK
                <5>2. CASE k # m
                    <6>1. a.ops[k] = Top.ops[k]
                        BY <2>1, <2>6, <5>2
                    <6>2. QED
                        BY <3>1, <6>1 DEF OpsOK
                <5>3. QED
                    BY <5>1, <5>2
            <4>2. QED
                BY <2>6, <4>1 DEF OpsOK
        <3>3. ActOK(a)
            BY <2>2, <2>5, <3>2, Setting DEF ActOK
        <3>4. a.ops # <<>>
            BY <2>1, <2>6
        <3>5. QED
            BY <2>2, <2>4, <2>5, <2>6, <3>3, <3>4 DEF Err
    <2>8. n \in Nat \ {0} /\ m <= MaxNest
        BY Setting
    <2>9. \A i \in 1 .. n - 1 : Err(stack[i]) = None
        BY <1>2, <2>8
    <2>10. /\ stack' \in Seq(Activation) /\ Len(stack') = n
           /\ n \in 1 .. MaxDepth
           /\ \A i \in DOMAIN stack' : Len(stack'[i].ops) <= MaxNest
           /\ stack'[n] = a
           /\ \A i \in 1 .. n - 1 : stack'[i] = stack[i]
           /\ StackOK(stack')
        <3>1. Len(a.ops) <= MaxNest
            BY <2>6, <2>8
        <3>2. QED
            BY <2>3, <2>5, <2>7, <2>9, <3>1, TopSet
    <2>11. TypeOK'
        BY <1>1, <1>5, <2>10 DEF TypeOK
    <2>12. RetOK(stack', ret') /\ ReportsTruly'
        BY <1>1 DEF RetOK, ReportsTruly
    <2>13. Tells(stack', ret', flag', tag')
        <3>1. Err(stack'[n]) = ret.exit
              /\ \A i \in 1 .. n - 1 : Err(stack'[i]) = None
            BY <2>7, <2>9, <2>10
        <3>2. \A i \in 1 .. n : i = n \/ i \in 1 .. n - 1
            BY <2>8
        <3>3. n \in 1 .. n
            BY <2>8
        <3> HIDE DEF n
        <3>4. QED
            BY <1>1, <1>4, <2>10, <3>1, <3>2, <3>3 DEF Tells
    <2>14. QED
        BY <2>10, <2>11, <2>12, <2>13 DEF Inv
<1>8. QED
    BY <1>6, <1>7

\* try and switch.
LEMMA OpenOperandInv ==
    ASSUME Inv, Disciplined, NEW kind \in {"fallback", "bare", "switch"},
           NEW caught \in SUBSET Error, kind = "fallback" => caught = Error,
           OpenOperand(kind, caught)
    PROVE  Inv'
<1> DEFINE n == Len(stack)
           m == Len(Top.ops)
           o == [kind |-> kind, caught |-> caught, fail |-> None,
                 called |-> FALSE]
           a == [Top EXCEPT !.ops = Append(Top.ops, o)]
<1>1. /\ Running /\ MayGoOn /\ m < MaxNest /\ flag' = FALSE
      /\ UNCHANGED <<tag, ret, status, calls>>
    BY DEF OpenOperand
<1>2. ret = None /\ status = "running" /\ Top.phase = "run"
    BY <1>1 DEF Running
<1>3. Top.ops # <<>> => ~Top.ops[m].called
    <2>1. "args" \notin Hazards
        BY DEF Disciplined
    <2>2. QED
        BY <1>1, <2>1, Setting, OperandFacts DEF MayGoOn, InOperand
<1>4. Err(Top) = None
    BY <1>2, <1>3, Setting, RunningErr
<1>5. ~flag
    <2>1. SUFFICES ASSUME flag PROVE FALSE
        OBVIOUS
    <2>2. PICK i \in 1 .. n - 1 : Err(stack[i]) # None
        BY <1>2, <1>4, <2>1, FlagOf
    <2>3. Linked(stack[i], stack[i + 1])
        BY DEF Inv, StackOK, Linear
    <2>4. stack[i + 1].dtor
        <3>1. n \in Nat \ {0} /\ stack[i] \in Activation
            BY Setting
        <3>2. QED
            BY <2>2, <2>3, <3>1 DEF Linked, Activation
    <2>5. i + 1 \in DOMAIN stack
        BY Setting DEF Inv, TypeOK
    <2>6. QED
        BY <2>1, <2>4, <2>5 DEF OpenOperand, Disciplined
<1>6. \A i \in 1 .. n : Err(stack[i]) = None
    BY <1>5 DEF Inv, Tells
<1>7. SetTop(a)
    BY DEF OpenOperand
<1>8. o \in Operand
    BY DEF Operand, Maybe
<1>9. /\ o.kind = kind /\ o.caught = caught /\ o.fail = None /\ ~o.called
    OBVIOUS
<1> HIDE DEF o
<1>10. Top.ops \in Seq(Operand) /\ m \in Nat
    BY Setting DEF Activation
<1>11. /\ a \in Activation /\ a.dtor = Top.dtor /\ a.throws = Top.throws
       /\ a.checks = Top.checks
       /\ a.phase = "run" /\ a.ops = Append(Top.ops, o)
    <2>1. Append(Top.ops, o) \in Seq(Operand)
        BY <1>8, <1>10
    <2>2. QED
        BY <1>2, <2>1, Setting DEF Activation
<1> HIDE DEF a
<1>12. /\ Len(a.ops) = m + 1 /\ a.ops[m + 1] = o
       /\ \A k \in 1 .. m : a.ops[k] = Top.ops[k]
    BY <1>8, <1>10, <1>11
<1>13. ActOK(a) /\ Err(a) = None
    <2>1. OpsOK(Top.ops)
        BY Setting DEF ActOK
    <2>2. OpsOK(a.ops)
        <3>1. ASSUME NEW k \in 1 .. m + 1
              PROVE  /\ ~a.ops[k].called => a.ops[k].fail = None
                     /\ k < m + 1 => ~a.ops[k].called
                     /\ a.ops[k].kind = "fallback"
                           => a.ops[k].caught = Error
            <4>1. CASE k = m + 1
                BY <1>9, <1>12, <4>1
            <4>2. CASE k # m + 1
                <5>1. k \in 1 .. m /\ a.ops[k] = Top.ops[k]
                    BY <1>10, <1>12, <4>2
                <5>2. k = m \/ k < m
                    BY <1>10, <5>1
                <5>3. Top.ops # <<>>
                    BY <5>1
                <5>4. QED
                    BY <1>3, <2>1, <5>1, <5>2, <5>3 DEF OpsOK
            <4>3. QED
                BY <4>1, <4>2
        <3>2. QED
            BY <1>12, <3>1 DEF OpsOK
    <2>3. ActOK(a)
        BY <1>11, <2>2, Setting DEF ActOK
    <2>4. QED
        BY <1>9, <1>11, <1>12, <2>3 DEF Err
<1>14. n \in Nat \ {0}
    BY Setting
<1>15. /\ stack' \in Seq(Activation) /\ Len(stack') = n
       /\ n \in 1 .. MaxDepth
       /\ \A i \in DOMAIN stack' : Len(stack'[i].ops) <= MaxNest
       /\ stack'[n] = a
       /\ \A i \in 1 .. n - 1 : stack'[i] = stack[i]
       /\ StackOK(stack')
    <2>1. Len(a.ops) <= MaxNest
        BY <1>1, <1>10, <1>12, ErrorFlowAssumption
    <2>2. \A i \in 1 .. n - 1 : Err(stack[i]) = None
        BY <1>6, <1>14
    <2>3. QED
        BY <1>7, <1>11, <1>13, <2>1, <2>2, TopSet
<1>16. TypeOK'
    <2>1. flag' \in BOOLEAN
        BY <1>1
    <2>2. tag' \in Maybe /\ ret' = None /\ status' = "running"
          /\ calls' \in 0 .. MaxCalls
        BY <1>1, <1>2 DEF Inv, TypeOK
    <2>3. QED
        BY <1>15, <2>1, <2>2 DEF TypeOK
<1>17. RetOK(stack', ret') /\ ReportsTruly'
    BY <1>1, <1>2 DEF RetOK, ReportsTruly
<1>18. \A i \in 1 .. n : Err(stack'[i]) = None
    BY <1>6, <1>13, <1>14, <1>15
<1>19. Tells(stack', ret', flag', tag')
    BY <1>1, <1>2, <1>15, <1>18 DEF Tells
<1>20. QED
    BY <1>15, <1>16, <1>17, <1>19 DEF Inv

\* The operand that the call is made in has called a throwing function.
LEMMA CalledInOperand ==
    ASSUME Inv, Running, InOperand, ~Last(Top.ops).called
    PROVE  LET s == [stack EXCEPT
                        ![Len(stack)].ops[Len(Top.ops)].called = TRUE]
           IN  /\ s \in Seq(Activation) /\ Len(s) = Len(stack)
               /\ \A i \in 1 .. Len(s) : Len(s[i].ops) <= MaxNest
               /\ \A i \in 1 .. Len(s) : Err(s[i]) = None
               /\ Expects(s[Len(s)])
               /\ StackOK(s)
<1> DEFINE n == Len(stack)
           m == Len(Top.ops)
           s == [stack EXCEPT ![n].ops[m].called = TRUE]
           o == [Top.ops[m] EXCEPT !.called = TRUE]
           a == [Top EXCEPT !.ops[m] = o]
<1>1. /\ n \in Nat \ {0} /\ Top = stack[n] /\ Top \in Activation
      /\ Top.phase = "run"
    BY Setting DEF Running
<1>2. /\ Top.ops \in Seq(Operand) /\ m \in Nat \ {0}
      /\ Last(Top.ops) = Top.ops[m] /\ Top.ops[m] \in Operand
    BY Setting, OperandFacts DEF InOperand, Activation
<1>3. stack \in Seq(Activation) /\ Len(stack) >= 1 /\ StackOK(stack)
    BY DEF Inv, TypeOK
<1>4. Top.ops[m].fail = None
    BY <1>1, <1>2, Setting, RunningErr DEF InOperand
<1>5. s = [stack EXCEPT ![n] = a]
    BY <1>1, <1>2, <1>3
<1> HIDE DEF s
<1>6. /\ o \in Operand /\ o.called /\ o.fail = None
      /\ o.kind = Top.ops[m].kind /\ o.caught = Top.ops[m].caught
    BY <1>2, <1>4 DEF Operand
<1> HIDE DEF o
<1>7. /\ a \in Activation /\ a.dtor = Top.dtor /\ a.throws = Top.throws
      /\ a.checks = Top.checks
      /\ a.phase = "run" /\ a.ops = [Top.ops EXCEPT ![m] = o]
    <2>1. [Top.ops EXCEPT ![m] = o] \in Seq(Operand)
        BY <1>2, <1>6
    <2>2. QED
        BY <1>1, <2>1 DEF Activation
<1> HIDE DEF a
<1>8. /\ Len(a.ops) = m /\ a.ops[m] = o /\ a.ops # <<>>
      /\ \A k \in 1 .. m - 1 : a.ops[k] = Top.ops[k]
    BY <1>2, <1>6, <1>7
<1>9. OpsOK(a.ops)
    <2>1. OpsOK(Top.ops)
        BY Setting DEF ActOK
    <2>2. ASSUME NEW k \in 1 .. m
          PROVE  /\ ~a.ops[k].called => a.ops[k].fail = None
                 /\ k < m => ~a.ops[k].called
                 /\ a.ops[k].kind = "fallback" => a.ops[k].caught = Error
        <3>1. CASE k = m
            BY <1>2, <1>6, <1>8, <2>1, <3>1 DEF OpsOK
        <3>2. CASE k # m
            <4>1. a.ops[k] = Top.ops[k]
                BY <1>2, <1>8, <3>2
            <4>2. QED
                BY <2>1, <4>1 DEF OpsOK
        <3>3. QED
            BY <3>1, <3>2
    <2>3. QED
        BY <1>8, <2>2 DEF OpsOK
<1>10. ActOK(a) /\ Err(a) = None /\ Expects(a)
    <2>1. ActOK(a)
        BY <1>7, <1>9, Setting DEF ActOK
    <2>2. QED
        BY <1>6, <1>7, <1>8, <2>1 DEF Err, Expects
<1>11. \A i \in 1 .. n - 1 : Err(stack[i]) = None
    BY Setting DEF InOperand
<1>12. /\ s \in Seq(Activation) /\ Len(s) = n /\ s[n] = a
       /\ \A i \in 1 .. n - 1 : s[i] = stack[i]
    BY <1>1, <1>3, <1>5, <1>7
<1>13. StackOK(s)
    BY <1>1, <1>3, <1>7, <1>10, <1>11, <1>12, TopReplaced
<1>14. \A i \in 1 .. n : Len(s[i].ops) <= MaxNest
    <2>1. \A i \in 1 .. n : Len(stack[i].ops) <= MaxNest
        BY <1>3 DEF Inv, TypeOK
    <2>2. m <= MaxNest
        BY Setting
    <2>3. QED
        BY <1>8, <1>12, <2>1, <2>2
<1>15. \A i \in 1 .. n : Err(s[i]) = None
    BY <1>1, <1>10, <1>11, <1>12
<1>16. QED
    BY <1>10, <1>12, <1>13, <1>14, <1>15 DEF s

\* A function or a destroy method is entered on top of s, which is the stack
\* but for what the operand remembers of the call.
LEMMA EnterInv ==
    ASSUME Inv, NEW s \in Seq(Activation), Len(s) = Len(stack),
           \A i \in 1 .. Len(s) : Len(s[i].ops) <= MaxNest,
           \A i \in 1 .. Len(s) : Err(s[i]) = Err(stack[i]),
           StackOK(s),
           NEW b \in Activation, b.ops = <<>>, ActOK(b),
           Linked(s[Len(s)], b),
           b.throws => \A i \in 1 .. Len(s) : Err(s[i]) = None,
           status = "running", ret = None,
           Len(stack) < MaxDepth, calls < MaxCalls, calls' = calls + 1,
           stack' = Append(s, b),
           UNCHANGED <<ret, status>>,
           \/ Err(b) = None /\ UNCHANGED <<flag, tag>>
           \/ /\ Err(b) \in Error /\ b.throws
              /\ flag' = TRUE /\ tag' = Err(b)
    PROVE  Inv'
<1> DEFINE n == Len(stack)
<1>1. n \in Nat \ {0}
    BY Setting
<1>2. /\ stack' \in Seq(Activation) /\ Len(stack') = n + 1
      /\ \A i \in 1 .. n : stack'[i] = s[i]
      /\ stack'[n + 1] = b
      /\ StackOK(stack')
    BY <1>1, TopPushed
<1>3. TypeOK'
    <2>1. DOMAIN stack' = 1 .. n + 1
        BY <1>1, <1>2
    <2>2. Len(b.ops) = 0
        OBVIOUS
    <2>3. \A i \in DOMAIN stack' : Len(stack'[i].ops) <= MaxNest
        BY <1>1, <1>2, <2>1, <2>2, ErrorFlowAssumption
    <2>4. Len(stack') \in 1 .. MaxDepth
        BY <1>1, <1>2, ErrorFlowAssumption
    <2>5. calls' \in 0 .. MaxCalls
        BY ErrorFlowAssumption DEF Inv, TypeOK
    <2>6. flag' \in BOOLEAN /\ tag' \in Maybe /\ ret' = None
          /\ status' = "running"
        BY DEF Inv, TypeOK, Maybe
    <2>7. QED
        BY <1>2, <2>3, <2>4, <2>5, <2>6 DEF TypeOK
<1>4. RetOK(stack', ret') /\ ReportsTruly'
    BY DEF RetOK, ReportsTruly
<1>5. Tells(stack', ret', flag', tag')
    <2>1. \A i \in 1 .. n : Err(stack'[i]) = Err(stack[i])
        BY <1>2
    <2>2. \A i \in 1 .. n + 1 : i = n + 1 \/ i \in 1 .. n
        BY <1>1
    <2>3. \A i \in 1 .. n : i \in 1 .. n + 1
        BY <1>1
    <2>4. Tells(stack, ret, flag, tag) /\ n + 1 \in 1 .. n + 1
        BY <1>1 DEF Inv
    <2> HIDE DEF n
    <2>5. CASE Err(b) = None /\ UNCHANGED <<flag, tag>>
        BY <1>2, <2>1, <2>2, <2>3, <2>4, <2>5 DEF Tells, n
    <2>6. CASE /\ Err(b) \in Error /\ b.throws
               /\ flag' = TRUE /\ tag' = Err(b)
        <3>1. \A i \in 1 .. n : Err(stack'[i]) = None
            BY <1>2, <2>6 DEF n
        <3>2. Err(b) # None
            BY <2>6, ErrorFlowAssumption
        <3>3. QED
            BY <1>2, <2>2, <2>4, <2>6, <3>1, <3>2 DEF Tells
    <2>7. QED
        BY <2>5, <2>6
<1>6. QED
    BY <1>2, <1>3, <1>4, <1>5 DEF Inv

\* Enter
LEMMA EnteredInv ==
    ASSUME Inv, Disciplined, NEW b \in Activation, b.ops = <<>>, ActOK(b),
           ~b.dtor, Enter(b),
           \/ Err(b) = None /\ UNCHANGED <<flag, tag>>
           \/ /\ Err(b) \in Error /\ b.throws
              /\ flag' = TRUE /\ tag' = Err(b)
    PROVE  Inv'
<1> DEFINE n == Len(stack)
           throws == b.throws
<1>1. /\ Running /\ MayGoOn /\ (throws => Top.throws \/ InOperand)
      /\ n < MaxDepth /\ calls < MaxCalls /\ calls' = calls + 1
      /\ UNCHANGED <<ret, status>>
    BY DEF Enter
<1>2. ret = None /\ status = "running" /\ Top.phase = "run"
    BY <1>1 DEF Running
<1>3. /\ InOperand => ~Last(Top.ops).called
      /\ InOperand => Top.ops[Len(Top.ops)] = Last(Top.ops)
    <2>1. "args" \notin Hazards
        BY DEF Disciplined
    <2>2. QED
        BY <1>1, <2>1, Setting, OperandFacts DEF MayGoOn, InOperand
<1>4. Err(Top) = None
    BY <1>2, <1>3, Setting, RunningErr DEF InOperand
<1>5. b.dtor = FALSE /\ b.throws = throws /\ b.throws \in BOOLEAN
    BY DEF Activation
<1>6. stack \in Seq(Activation) /\ StackOK(stack)
    BY DEF Inv, TypeOK
<1>7. \A i \in 1 .. n : Len(stack[i].ops) <= MaxNest
    BY <1>6 DEF Inv, TypeOK
<1>8. n \in Nat \ {0} /\ Top = stack[n] /\ Top \in Activation
    BY Setting
<1>9. CASE throws /\ InOperand
    <2> DEFINE s == [stack EXCEPT ![n].ops[Len(Top.ops)].called = TRUE]
    <2>1. stack' = Append(s, b)
        BY <1>9 DEF Enter
    <2>2. /\ s \in Seq(Activation) /\ Len(s) = n
          /\ \A i \in 1 .. Len(s) : Len(s[i].ops) <= MaxNest
          /\ \A i \in 1 .. Len(s) : Err(s[i]) = None
          /\ Expects(s[Len(s)])
          /\ StackOK(s)
        BY <1>1, <1>3, <1>9, CalledInOperand
    <2> HIDE DEF s
    <2>3. Linked(s[Len(s)], b)
        <3>1. Err(s[Len(s)]) = None
            BY <1>8, <2>2
        <3>2. QED
            BY <1>5, <2>2, <3>1 DEF Linked, Expects
    <2>4. \A i \in 1 .. n : Err(stack[i]) = None
        BY <1>4, <1>8, <1>9, Setting DEF InOperand
    <2>5. \A i \in 1 .. Len(s) : Err(s[i]) = Err(stack[i])
        BY <2>2, <2>4
    <2>6. QED
        BY <1>1, <1>2, <2>1, <2>2, <2>3, <2>5, EnterInv
<1>10. CASE ~(throws /\ InOperand)
    <2>1. stack' = Append(stack, b)
        BY <1>10 DEF Enter
    <2>2. throws => Top.ops = <<>> /\ Top.throws
        BY <1>1, <1>10 DEF InOperand
    <2>3. Linked(stack[n], b)
        BY <1>2, <1>4, <1>5, <1>8, <2>2 DEF Linked, Expects
    <2>4. throws => \A i \in 1 .. n : Err(stack[i]) = None
        BY <1>4, <1>8, <2>2, Setting
    <2>5. QED
        BY <1>1, <1>2, <1>6, <1>7, <2>1, <2>3, <2>4, EnterInv
<1>11. QED
    BY <1>9, <1>10

LEMMA CallInv ==
    ASSUME Inv, Disciplined, NEW throws \in BOOLEAN, NEW checks \in BOOLEAN,
           Call(throws, checks)
    PROVE  Inv'
<1>1. checks = throws
    <2>1. Fresh(throws, checks, FALSE).checks = checks
          /\ Fresh(throws, checks, FALSE).throws = throws
        BY DEF Fresh
    <2>2. "impl" \notin Hazards
        BY DEF Disciplined
    <2>3. QED
        BY <2>1, <2>2 DEF Call, Enter
<1> DEFINE b == Fresh(throws, throws, FALSE)
<1>2. Enter(b) /\ UNCHANGED <<flag, tag>>
    BY <1>1 DEF Call
<1>3. /\ b \in Activation /\ b.ops = <<>> /\ ActOK(b) /\ b.dtor = FALSE
      /\ Err(b) = None
    BY FreshFacts
<1> HIDE DEF b
<1>4. QED
    BY <1>2, <1>3, EnteredInv

LEMMA CallZeroInv ==
    ASSUME Inv, Disciplined, NEW throws \in BOOLEAN, NEW checks \in BOOLEAN,
           NEW e \in BuiltinError, CallZero(throws, checks, e)
    PROVE  Inv'
<1> DEFINE c == [Fresh(throws, checks, FALSE) EXCEPT !.phase = "cleanup", !.exit = e]
           b == [Fresh(TRUE, TRUE, FALSE) EXCEPT !.phase = "cleanup", !.exit = e]
<1>1. throws /\ checks
    <2>1. c.checks = checks /\ c.throws = throws
        BY DEF Fresh
    <2>2. "impl" \notin Hazards /\ "nonzero" \notin Hazards
        BY DEF Disciplined
    <2>3. throws /\ Enter(c)
        BY <2>2 DEF CallZero
    <2> HIDE DEF c
    <2>4. c.checks = c.throws
        BY <2>2, <2>3 DEF Enter
    <2>5. QED
        BY <2>1, <2>3, <2>4
<1>2. Enter(b) /\ flag' = TRUE /\ tag' = e
    <2>1. throws = TRUE /\ checks = TRUE
        BY <1>1
    <2>2. QED
        BY <2>1 DEF CallZero
<1>3. e \in Error
    BY DEF Error
<1>4. /\ b \in Activation /\ b.ops = <<>> /\ ActOK(b) /\ ~b.dtor
      /\ b.throws /\ Err(b) = e
    BY <1>3, ZeroFacts
<1> HIDE DEF b
<1>5. QED
    BY <1>2, <1>3, <1>4, EnteredInv

LEMMA DestroyInv ==
    ASSUME Inv, Destroy
    PROVE  Inv'
<1> DEFINE n == Len(stack)
           b == Fresh(FALSE, FALSE, TRUE)
<1>1. /\ ret = None /\ status = "running" /\ Top.phase = "cleanup"
      /\ n < MaxDepth /\ calls < MaxCalls /\ calls' = calls + 1
      /\ stack' = Append(stack, b)
      /\ UNCHANGED <<flag, tag, ret, status>>
    BY DEF Destroy
<1>2. /\ b.dtor = TRUE /\ b.throws = FALSE /\ b \in Activation
      /\ b.ops = <<>> /\ ActOK(b) /\ Err(b) = None
    BY FreshFacts
<1> HIDE DEF b
<1>3. stack \in Seq(Activation) /\ StackOK(stack)
    BY DEF Inv, TypeOK
<1>4. \A i \in 1 .. n : Len(stack[i].ops) <= MaxNest
    BY <1>3 DEF Inv, TypeOK
<1>5. Linked(stack[n], b)
    BY <1>1, <1>2, Setting DEF Linked
<1>6. QED
    BY <1>1, <1>2, <1>3, <1>4, <1>5, EnterInv

LEMMA LeaveInv ==
    ASSUME Inv, Leave
    PROVE  Inv'
<1> DEFINE n == Len(stack) - 1
<1>1. /\ ret = None /\ status = "running" /\ Top.phase = "cleanup"
      /\ Len(stack) > 1 /\ stack' = Front(stack)
      /\ UNCHANGED <<flag, tag, status, calls>>
    BY DEF Leave
<1>2. ret' = IF Top.throws THEN [exit |-> Top.exit, throws |-> Top.throws] ELSE None
    BY <1>1, Setting DEF Leave, ActOK
<1>3. /\ stack \in Seq(Activation) /\ Len(stack) >= 2 /\ Len(stack) \in Nat
      /\ Len(stack) <= MaxDepth /\ StackOK(stack)
    BY <1>1, Setting DEF Inv, TypeOK
<1>4. /\ n \in Nat \ {0} /\ stack' \in Seq(Activation) /\ Len(stack') = n
      /\ Len(stack) = n + 1 /\ \A i \in 1 .. n : stack'[i] = stack[i]
    BY <1>1, <1>3, TopFacts
<1>5. StackOK(stack')
    BY <1>1, <1>3, TopPopped
<1>6. /\ Top = stack[n + 1] /\ Top \in Activation /\ ActOK(Top)
      /\ \A i \in 1 .. Len(stack) : i = n + 1 \/ i \in 1 .. n
      /\ \A i \in 1 .. n : i \in 1 .. Len(stack)
      /\ n + 1 \in 1 .. Len(stack)
    BY <1>4, Setting
<1>7. Err(Top) = Top.exit /\ Top.exit \in Maybe
    BY <1>1, <1>6 DEF Err, Activation
<1>8. Linked(stack'[n], Top)
    <2>1. Linked(stack[n], stack[n + 1])
        BY <1>3, <1>4 DEF StackOK, Linear
    <2>2. stack'[n] = stack[n]
        BY <1>4
    <2>3. QED
        BY <1>6, <2>1, <2>2
<1>9. ret' \in Return \cup {None}
    BY <1>2, <1>6, <1>7 DEF Return, Activation
<1>10. TypeOK'
    <2>1. DOMAIN stack' = 1 .. n
        BY <1>4
    <2>2. \A i \in 1 .. Len(stack) : Len(stack[i].ops) <= MaxNest
        BY <1>3 DEF Inv, TypeOK
    <2>3. \A i \in DOMAIN stack' : Len(stack'[i].ops) <= MaxNest
        BY <1>4, <1>6, <2>1, <2>2
    <2>4. Len(stack') \in 1 .. MaxDepth
        BY <1>3, <1>4, ErrorFlowAssumption
    <2>5. flag' \in BOOLEAN /\ tag' \in Maybe /\ status' = "running"
          /\ calls' \in 0 .. MaxCalls
        BY <1>1 DEF Inv, TypeOK
    <2>6. QED
        BY <1>4, <1>9, <2>3, <2>4, <2>5 DEF TypeOK
<1>11. ReportsTruly'
    BY <1>1 DEF ReportsTruly
<1>12. Tells(stack, None, flag, tag)
    BY <1>1 DEF Inv
<1> HIDE DEF n
<1>13. CASE Top.throws
    <2>1. \A i \in 1 .. n : Err(stack'[i]) = None
        BY <1>4, <1>13, Setting DEF n
    <2>3. ret' = [exit |-> Top.exit, throws |-> Top.throws]
        BY <1>2, <1>13
    <2>4. ret'.exit = Top.exit /\ ret'.throws
        BY <1>13, <2>3
    <2>2. RetOK(stack', ret')
        BY <1>4, <1>8, <1>13, <2>1, <2>4 DEF RetOK, Linked
    <2>5. ret' \in Return /\ ret' # None
        BY <1>6, <1>7, <2>3, ErrorFlowAssumption DEF Return, Activation
    <2>6. /\ Top.exit # None => flag /\ tag = Top.exit
          /\ flag => Top.exit # None
        BY <1>4, <1>6, <1>7, <1>12, <2>1 DEF Tells
    <2>7. Tells(stack', ret', flag', tag')
        BY <1>1, <1>4, <2>1, <2>4, <2>5, <2>6 DEF Tells
    <2>8. QED
        BY <1>5, <1>10, <1>11, <2>2, <2>7 DEF Inv
<1>14. CASE ~Top.throws
    <2>1. ret' = None /\ Err(Top) = None
        BY <1>1, <1>2, <1>6, <1>7, <1>14 DEF ActOK
    <2>2. RetOK(stack', ret')
        BY <2>1 DEF RetOK
    <2>3. Tells(stack', ret', flag', tag')
        BY <1>1, <1>4, <1>6, <1>12, <2>1 DEF Tells
    <2>4. QED
        BY <1>5, <1>10, <1>11, <2>2, <2>3 DEF Inv
<1>15. QED
    BY <1>13, <1>14

LEMMA NextInv ==
    ASSUME Inv, Disciplined, [Next]_vars
    PROVE  Inv'
<1>1. ASSUME NEW throws \in BOOLEAN, NEW checks \in BOOLEAN, Call(throws, checks)
      PROVE  Inv'
    BY <1>1, CallInv
<1>17. ASSUME NEW throws \in BOOLEAN, NEW checks \in BOOLEAN,
              NEW e \in BuiltinError, CallZero(throws, checks, e)
       PROVE  Inv'
    BY <1>17, CallZeroInv
<1>2. CASE AfterCall
    BY <1>2, AfterCallInv
<1>3. CASE Try
    <2>1. {} \in SUBSET Error /\ Error \in SUBSET Error
        OBVIOUS
    <2>2. QED
        BY <1>3, <2>1, OpenOperandInv DEF Try
<1>4. CASE Switch
    BY <1>4, OpenOperandInv DEF Switch
<1>5. CASE OperandSucceeds
    <2>1. /\ Running /\ InOperand /\ PopOperand
          /\ UNCHANGED <<tag, ret, status, calls>>
        BY <1>5 DEF OperandSucceeds, CloseOperand
    <2>2. flag' = flag /\ ~flag /\ flag \in BOOLEAN
        BY <1>5 DEF OperandSucceeds, Inv, TypeOK
    <2>3. flag' = FALSE
        BY <2>2
    <2>4. QED
        BY <2>1, <2>3, OperandPoppedInv
<1>6. CASE OperandCaught
    BY <1>6, OperandPoppedInv DEF OperandCaught, CloseOperand
<1>7. CASE OperandFails
    BY <1>7, OperandFailsInv
<1>8. ASSUME NEW e \in UserError, Throw(e) PROVE Inv'
    BY <1>8, ThrowInv DEF Throw, Error
<1>9. ASSUME NEW e \in BuiltinError, Raise(e) PROVE Inv'
    BY <1>9, Setting, ThrowInv DEF Raise, Error, ActOK
<1>10. CASE Trap
    BY <1>10, TrapInv
<1>11. CASE Finish
    BY <1>11, FinishInv
<1>12. CASE Destroy
    BY <1>12, DestroyInv
<1>13. CASE Leave
    BY <1>13, LeaveInv
<1>14. CASE LeaveMain
    BY <1>14, LeaveMainInv
<1>15. CASE UNCHANGED vars
    <2>1. UNCHANGED <<stack, flag, tag, ret, calls>> /\ status' = status
        BY <1>15 DEF vars
    <2>2. ReportsTruly' /\ status \in {"running", "ok", "uncaught", "trapped"}
        BY <2>1 DEF Inv, TypeOK, ReportsTruly, Top
    <2>3. QED
        BY <2>1, <2>2, EndInv
<1>16. QED
    BY <1>1, <1>2, <1>3, <1>4, <1>5, <1>6, <1>7, <1>8, <1>9, <1>10, <1>11,
       <1>12, <1>13, <1>14, <1>15, <1>17 DEF Next, Terminated

LEMMA Invariance ==
    ASSUME Disciplined
    PROVE  Spec => []Inv
<1>1. Init => Inv
    BY InitInv
<1>2. Inv /\ [Next]_vars => Inv'
    BY NextInv
<1>3. QED
    BY <1>1, <1>2, PTL DEF Spec

-----------------------------------------------------------------------------
(***************************************************************************)
(* The theorems                                                            *)
(***************************************************************************)

\* For programs of any depth and any set of errors whose operands end with
\* their first throwing call, whose destroy methods do not try while an error
\* propagates, and in which nothing fails that is not declared to throw (no
\* zero for a non-zero parameter of a function that does not throw) or does not
\* look at the flag (methods of primitive types): while an operand is evaluated, the flag and the tag tell
\* whether and with what one of its calls has failed.
THEOREM OperandsExact ==
    ASSUME Disciplined
    PROVE  Spec => []OperandExact
<1>1. Inv => OperandExact
    <2>1. SUFFICES ASSUME Inv, Running, InOperand
                   PROVE  Holds(Last(Top.ops).fail)
        BY DEF OperandExact
    <2>2. /\ flag <=> Last(Top.ops).fail # None
          /\ flag => tag = Last(Top.ops).fail
        BY <2>1, OperandTold
    <2>3. flag \in BOOLEAN
        BY <2>1 DEF Inv, TypeOK
    <2>4. QED
        BY <2>2, <2>3, Zenon DEF Holds
<1>2. QED
    BY <1>1, Invariance, PTL

\* When such a program leaves a throwing function, and when the caller looks
\* at the flag, flag and tag tell how the function really ended, whatever the
\* destroy methods of its variables have done in between.
THEOREM PropagatesExactly ==
    ASSUME Disciplined
    PROVE  Spec => []PropagationExact
<1>1. Inv => PropagationExact
    <2> SUFFICES ASSUME Inv PROVE PropagationExact
        OBVIOUS
    <2>0. flag \in BOOLEAN
        BY DEF Inv, TypeOK
    <2>1. ASSUME ret # None PROVE Holds(ret.exit)
        <3>1. \A i \in 1 .. Len(stack) : Err(stack[i]) = None
            BY <2>1 DEF Inv, RetOK
        <3>2. (flag <=> ret.exit # None) /\ (flag => tag = ret.exit)
            BY <2>1, <3>1 DEF Inv, Tells
        <3>3. QED
            BY <2>0, <3>2, Zenon DEF Holds
    <2>2. ASSUME Top.phase = "cleanup", Top.throws \/ Len(stack) = 1
          PROVE  Holds(Top.exit)
        <3>1. Err(Top) = Top.exit
            BY <2>2 DEF Err
        <3>2. ret = None
            BY <2>2, Setting DEF Inv, RetOK, Expects
        <3>3. \A i \in 1 .. Len(stack) - 1 : Err(stack[i]) = None
            <4>1. CASE Top.throws
                BY <4>1, Setting
            <4>2. CASE Len(stack) = 1
                BY <4>2
            <4>3. QED
                BY <2>2, <4>1, <4>2
        <3>4. flag => Top.exit # None
            BY <3>1, <3>2, <3>3, FlagOf
        <3>5. Top.exit # None => flag /\ tag = Top.exit
            BY <3>1, Setting DEF Inv, Tells
        <3>6. QED
            BY <2>0, <3>4, <3>5, Zenon DEF Holds
    <2>3. QED
        BY <2>1, <2>2 DEF PropagationExact
<1>2. QED
    BY <1>1, Invariance, PTL

\* Such a program reports an uncaught error only when an error has reached
\* main or a function that cannot pass it on, and ends well only if none has.
THEOREM Reports ==
    ASSUME Disciplined
    PROVE  Spec => []ReportsTruly
<1>1. Inv => ReportsTruly
    BY DEF Inv
<1>2. QED
    BY <1>1, Invariance, PTL
=============================================================================
