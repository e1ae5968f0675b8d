----------------------------- MODULE ErrorFlow -----------------------------
(***************************************************************************)
(* Errors in compiled code (generator/statements/GeneratorErrorHandling    *)
(* .cpp).  An error travels in globals of the program: a flag and a tag    *)
(* (its message is left out).  throw sets them and returns; a caller looks *)
(* at the flag after the call.  This runs the code emitted for an          *)
(* arbitrary program that the binder accepts: a stack of activations,      *)
(* each of which may call, throw, return, or evaluate the operand of a try *)
(* or a switch.                                                            *)
(*                                                                         *)
(* Beside the flag every activation remembers how it really ended and      *)
(* every operand which of its calls really failed first.  The properties   *)
(* compare the two.                                                        *)
(***************************************************************************)
EXTENDS Naturals, Sequences, SequencesExt

CONSTANTS
    UserError,    \* types of errors thrown by throw statements
    BuiltinError, \* DivisionByZero, Overflow, ContractViolation
    None,         \* no error
    MaxDepth,     \* bound: activations on the stack
    MaxNest,      \* bound: operands open in one activation
    MaxCalls,     \* bound: calls in one execution
    Hazards       \* what the program does:
                  \* "args"     evaluates more of an operand after a
                  \*            throwing call in it
                  \* "dtor"     uses try or switch in a destroy method that
                  \*            runs while an error propagates
                  \* "operator" has an operator that throws in an operand
                  \* "nonzero"  passes zero for a non-zero parameter of a
                  \*            function that does not throw
                  \* "impl"     has methods of primitive types that throw

Error == UserError \cup BuiltinError

Maybe == Error \cup {None}

\* The return of a function: whether it throws, and the error it really ended
\* with.
Return == [exit : Maybe, throws : BOOLEAN]

ASSUME ErrorFlowAssumption ==
    /\ MaxDepth \in Nat \ {0} /\ MaxNest \in Nat /\ MaxCalls \in Nat
    /\ UserError \cap BuiltinError = {}
    /\ None \notin Error \cup Return
    /\ Hazards \subseteq {"args", "dtor", "operator", "nonzero", "impl"}

VARIABLES
    stack,  \* the activations, main first
    flag,   \* __djinn_error_flag
    tag,    \* __djinn_error_tag, and the type name with it
    ret,    \* a call that has just returned, of a function that throws or
            \* that failed
    status, \* "running", "ok", "uncaught" or "trapped"
    calls

vars == <<stack, flag, tag, ret, status, calls>>

\* The operand of a try or switch: what it catches, the first error in it,
\* and whether a throwing function has been called in it.
Operand == [kind : {"fallback", "bare", "switch"}, caught : SUBSET Error,
            fail : Maybe, called : BOOLEAN]

\* throws: isThrowing of the symbol; checks: fn_.throws; phase "cleanup":
\* emit_all_scope_cleanup before ret; exit: the error the activation really
\* ended with.
Activation == [throws : BOOLEAN, checks : BOOLEAN, dtor : BOOLEAN,
               phase : {"run", "cleanup"}, exit : Maybe, ops : Seq(Operand)]

TypeOK ==
    /\ stack \in Seq(Activation) /\ Len(stack) \in 1 .. MaxDepth
    /\ \A i \in DOMAIN stack : Len(stack[i].ops) <= MaxNest
    /\ flag \in BOOLEAN
    /\ tag \in Maybe
    /\ ret \in Return \cup {None}
    /\ status \in {"running", "ok", "uncaught", "trapped"}
    /\ calls \in 0 .. MaxCalls

Fresh(throws, checks, dtor) ==
    [throws |-> throws, checks |-> checks, dtor |-> dtor, phase |-> "run",
     exit |-> None, ops |-> <<>>]

Init ==
    /\ \E throws \in BOOLEAN : stack = <<Fresh(throws, throws, FALSE)>>
    /\ flag = FALSE
    /\ tag = None
    /\ ret = None
    /\ status = "running"
    /\ calls = 0

-----------------------------------------------------------------------------

Top == Last(stack)

Running == status = "running" /\ ret = None /\ Top.phase = "run"

SetTop(a) == stack' = [stack EXCEPT ![Len(stack)] = a]

InOperand == Top.ops # <<>>

SetOperand(o) == SetTop([Top EXCEPT !.ops[Len(Top.ops)] = o])

\* More of the innermost operand may be evaluated.
MayGoOn == InOperand => "args" \in Hazards \/ ~Last(Top.ops).called

\* The activation leaves with error e, through the clean-up of its scopes.
Unwind(e) == SetTop([Top EXCEPT !.phase = "cleanup", !.exit = e])

\* A function is called.  The binder lets a throwing function be called from a
\* throwing function or inside an operand.  fn_.throws is not set for a method of
\* a primitive type.
Enter(callee) ==
    /\ Running /\ MayGoOn
    /\ callee.throws => Top.throws \/ InOperand
    /\ callee.checks # callee.throws => callee.throws /\ "impl" \in Hazards
    /\ Len(stack) < MaxDepth /\ calls < MaxCalls
    /\ calls' = calls + 1
    /\ stack' = Append(
          IF callee.throws /\ InOperand
          THEN [stack EXCEPT ![Len(stack)].ops[Len(Top.ops)].called = TRUE]
          ELSE stack,
          callee)
    /\ UNCHANGED <<ret, status>>

Call(throws, checks) ==
    /\ Enter(Fresh(throws, checks, FALSE))
    /\ UNCHANGED <<flag, tag>>

\* A non-zero parameter is zero: the callee sets the flag on entry, whether or
\* not it throws, and leaves.
CallZero(throws, checks, e) ==
    /\ throws \/ "nonzero" \in Hazards
    /\ Enter([Fresh(throws, checks, FALSE) EXCEPT !.phase = "cleanup", !.exit = e])
    /\ flag' = TRUE /\ tag' = e

\* Mutant: the caller does not look at the flag.
AfterCallUnchecked ==
    /\ status = "running" /\ ret # None
    /\ IF InOperand
       THEN SetOperand([Last(Top.ops) EXCEPT
                            !.fail = IF @ = None THEN ret.exit ELSE @])
       ELSE UNCHANGED stack
    /\ ret' = None
    /\ UNCHANGED <<flag, tag, status, calls>>

\* After a call: outside an operand a function that checks looks at the flag,
\* if the callee throws, and passes the error on; inside one nothing happens
\* yet.
AfterCall ==
    /\ status = "running" /\ ret # None
    /\ IF InOperand
       THEN SetOperand([Last(Top.ops) EXCEPT
                            !.fail = IF @ = None THEN ret.exit ELSE @])
       ELSE IF Top.checks /\ ret.throws /\ flag
            THEN Unwind(ret.exit) ELSE UNCHANGED stack
    /\ ret' = None
    /\ UNCHANGED <<flag, tag, status, calls>>

\* try and switch clear the flag before their operand is evaluated.
OpenOperand(kind, caught) ==
    /\ Running /\ MayGoOn
    /\ kind = "bare" => Top.throws
    /\ flag /\ (\E i \in DOMAIN stack : stack[i].dtor) => "dtor" \in Hazards
    /\ Len(Top.ops) < MaxNest
    /\ flag' = FALSE
    /\ SetTop([Top EXCEPT !.ops =
           Append(@, [kind |-> kind, caught |-> caught, fail |-> None,
                      called |-> FALSE])])
    /\ UNCHANGED <<tag, ret, status, calls>>

Try == OpenOperand("fallback", Error) \/ OpenOperand("bare", {})

Switch == \E caught \in SUBSET Error : OpenOperand("switch", caught)

PopOperand == SetTop([Top EXCEPT !.ops = Front(@)])

\* The binder rejects an operand without a throwing call; one in a branch of
\* ?: need not be reached.
CloseOperand ==
    /\ Running /\ InOperand
    /\ UNCHANGED <<tag, ret, calls>>

OperandSucceeds ==
    /\ CloseOperand /\ ~flag
    /\ PopOperand
    /\ UNCHANGED <<flag, status>>

\* Mutant: the handler leaves the flag set.
OperandCaughtKeep ==
    /\ CloseOperand /\ flag /\ tag \in Last(Top.ops).caught
    /\ PopOperand
    /\ UNCHANGED <<flag, status>>

\* The fallback, or the first arm whose tags hold the tag, takes the error.
OperandCaught ==
    /\ CloseOperand /\ flag /\ tag \in Last(Top.ops).caught
    /\ flag' = FALSE
    /\ PopOperand
    /\ UNCHANGED status

\* Nobody takes it: it propagates, or the program reports it and aborts.
OperandFails ==
    /\ CloseOperand /\ flag /\ tag \notin Last(Top.ops).caught
    /\ UNCHANGED flag
    /\ IF Top.checks
       THEN Unwind(Last(Top.ops).fail) /\ UNCHANGED status
       ELSE status' = "uncaught" /\ UNCHANGED stack

Throw(e) ==
    /\ Running /\ Top.throws /\ ~InOperand
    /\ flag' = TRUE /\ tag' = e
    /\ Unwind(e)
    /\ UNCHANGED <<ret, status, calls>>

\* A contract, or a checked operator or division by zero in a function that
\* throws: as throw.  A function with contracts throws.
Raise(e) ==
    /\ Running /\ Top.checks
    /\ InOperand => "operator" \in Hazards
    /\ flag' = TRUE /\ tag' = e
    /\ Unwind(e)
    /\ UNCHANGED <<ret, status, calls>>

\* An operator fails in a function that does not throw.
Trap ==
    /\ Running /\ ~Top.checks
    /\ status' = "trapped"
    /\ UNCHANGED <<stack, flag, tag, ret, calls>>

\* return: the scopes are cleaned up before the function is left.
Finish ==
    /\ Running /\ ~InOperand
    /\ Unwind(None)
    /\ UNCHANGED <<flag, tag, ret, status, calls>>

\* emit_all_scope_cleanup calls the destroy method of a local variable.
Destroy ==
    /\ status = "running" /\ ret = None /\ Top.phase = "cleanup"
    /\ Len(stack) < MaxDepth /\ calls < MaxCalls
    /\ calls' = calls + 1
    /\ stack' = Append(stack, Fresh(FALSE, FALSE, TRUE))
    /\ UNCHANGED <<flag, tag, ret, status>>

Leave ==
    /\ status = "running" /\ ret = None
    /\ Top.phase = "cleanup" /\ Len(stack) > 1
    /\ stack' = Front(stack)
    /\ ret' = IF Top.throws \/ Top.exit # None
              THEN [exit |-> Top.exit, throws |-> Top.throws] ELSE None
    /\ UNCHANGED <<flag, tag, status, calls>>

\* emit_uncaught_error_check, after the user's main.
LeaveMain ==
    /\ status = "running" /\ ret = None
    /\ Top.phase = "cleanup" /\ Len(stack) = 1
    /\ status' = IF flag THEN "uncaught" ELSE "ok"
    /\ UNCHANGED <<stack, flag, tag, ret, calls>>

Terminated == status # "running" /\ UNCHANGED vars

Next ==
    \/ \E throws, checks \in BOOLEAN : Call(throws, checks)
    \/ \E throws, checks \in BOOLEAN, e \in BuiltinError : CallZero(throws, checks, e)
    \/ AfterCall
    \/ Try \/ Switch
    \/ OperandSucceeds \/ OperandCaught \/ OperandFails
    \/ \E e \in UserError : Throw(e)
    \/ \E e \in BuiltinError : Raise(e)
    \/ Trap \/ Finish \/ Destroy \/ Leave \/ LeaveMain
    \/ Terminated

Spec == Init /\ [][Next]_vars

-----------------------------------------------------------------------------

\* The globals hold error e, or none.
Holds(e) == flag = (e # None) /\ (flag => tag = e)

\* While an operand is evaluated the flag tells whether one of its calls has
\* failed, and the tag with what: GRAMMAR.md promises that try "catches a
\* failed operand".
OperandExact == Running /\ InOperand => Holds(Last(Top.ops).fail)

\* When a throwing function is left, and when its caller looks, the flag and
\* the tag tell how it really ended: GRAMMAR.md promises that inside throws
\* functions "the error propagates automatically".
PropagationExact ==
    status = "running" =>
        /\ ret # None /\ ~InOperand => Holds(ret.exit)
        /\ Top.phase = "cleanup" /\ (Top.throws \/ Len(stack) = 1)
              => Holds(Top.exit)

\* An error met while the operand of a try with a fallback is evaluated ends
\* at that try: the function is not left from inside the operand.  GRAMMAR.md:
\* "`try expr ?: fallback` catches a failed operand and yields the fallback".
FallbackTaken ==
    Top.phase = "cleanup" /\ InOperand => Last(Top.ops).kind # "fallback"

\* The caller of a function that has failed catches the error or passes it on:
\* GRAMMAR.md, "A function with contracts is implicitly throwing: call sites
\* must use `try`", and a non-zero parameter is called such a contract.
FailureHandled ==
    ret # None /\ ret.exit # None => InOperand \/ (Top.checks /\ ret.throws)

\* The program reports an uncaught error only when one has really reached
\* the bottom of the stack or an activation that cannot pass it on.
ReportsTruly ==
    /\ status = "uncaught" =>
          IF Top.phase = "cleanup" THEN Top.exit # None
          ELSE Last(Top.ops).fail # None
    /\ status = "ok" => Top.exit = None
=============================================================================
