----------------------------- MODULE ConstEval -----------------------------
(***************************************************************************)
(* The compile-time evaluator: BytecodeCompiler and ConstEvaluator of      *)
(* evaluator/ConstEvaluator.cpp on top of ConstVM, and what a program      *)
(* means, to compare with what they compute.                               *)
(*                                                                         *)
(* A node of a source program is [op, n, m, a]: its kind, a number (a      *)
(* value, a name or a width), an overflow mode and its children.  Names of *)
(* variables, constants, functions and errors are numbers.                 *)
(*                                                                         *)
(* Expressions: int, hex, float, bool, id, field, the binary operators by  *)
(* their opcode, NEG_INT, LOGIC_NOT, NOT_INT, cast, fcast, call, likely,   *)
(* init, assign.  Statements: return, throw, if, while, for, block, expr.  *)
(* Any other op stands for what the evaluator does not support.  The second *)
(* child of an init is the declared type, "type" of n bits or "auto".       *)
(***************************************************************************)
EXTENDS ConstVM, SequencesExt

CONSTANTS
    Sources,   \* the source programs: [functions, constants, main]
    Depth      \* bound on the calls and iterations the reference follows

BinaryOps ==
    ArithmeticOps \cup DivisionOps \cup ComparisonOps \cup BitOps \cup LogicOps

-----------------------------------------------------------------------------
\* BytecodeCompiler.  Its state: the code, the slots of the function at hand
\* (the i-th name is in slot i - 1) and whether there was an error.

Emit(cs, op, n, m, v) ==
    [cs EXCEPT !.code = Append(@, [op |-> op, n |-> n, m |-> m, v |-> v])]

EmitOp(cs, op) == Emit(cs, op, 0, "none", ErrorValue)

EmitN(cs, op, n) == Emit(cs, op, n, "none", ErrorValue)

\* The instruction for a constant of each kind; other kinds are errors.
EmitValue(cs, v) ==
    CASE v.kind = "int"    -> Emit(cs, "PUSH_INT", 0, "none", v)
      [] v.kind = "int128" -> Emit(cs, "PUSH_INT128", 0, "none", v)
      [] v.kind = "float"  -> Emit(cs, "PUSH_FLOAT", 0, "none", v)
      [] v.kind = "bool"   -> Emit(cs, "PUSH_BOOL", 0, "none", v)
      [] OTHER             -> [cs EXCEPT !.err = TRUE]

Here(cs) == Len(cs.code) + 1

\* patchJump: the jump at `at' goes to where the code ends now.
Patch(cs, at) == [cs EXCEPT !.code[at].n = Here(cs)]

HasSlot(cs, name) == \E i \in DOMAIN cs.slots : cs.slots[i] = name

SlotOf(cs, name) == (CHOOSE i \in DOMAIN cs.slots : cs.slots[i] = name) - 1

\* getOrCreateLocal: one slot per name, whatever the scope.
WithSlot(cs, name) ==
    IF HasSlot(cs, name) THEN cs ELSE [cs EXCEPT !.slots = Append(@, name)]

\* compileIntegerLiteral: what does not fit the machine's integers is kept
\* whole if it is hexadecimal and refused otherwise.
CompileInteger(cs, e) ==
    CASE ~Overflows(e.n)                 -> EmitValue(cs, MakeInt(e.n, Narrow, TRUE))
      [] Overflows(e.n) /\ e.op = "hex"  -> EmitValue(cs, [kind |-> "int128", val |-> e.n,
                                                           bits |-> 2 * Word, signed |-> TRUE])
      [] OTHER                           -> [cs EXCEPT !.err = TRUE]

\* compileIdentifier: locals before constants; constants is a function from
\* names to values.
CompileIdentifier(cs, constants, name) ==
    CASE HasSlot(cs, name)         -> EmitN(cs, "LOAD_LOCAL", SlotOf(cs, name))
      [] ~HasSlot(cs, name) /\ name \in DOMAIN constants ->
                                      EmitValue(cs, constants[name])
      [] OTHER                     -> [cs EXCEPT !.err = TRUE]

\* env: [constants, functions], the functions by index with a body or none.
RECURSIVE CompileExpression(_, _, _), CompileAll(_, _, _)

\* compileExpression of each, left to right, until there is an error
CompileAll(cs, env, es) ==
    IF es = <<>> \/ cs.err THEN cs
    ELSE CompileAll(CompileExpression(cs, env, Head(es)), env, Tail(es))

\* After the operands, the instruction; nothing after an error.
Finish(cs, op, n, m, v) == IF cs.err THEN cs ELSE Emit(cs, op, n, m, v)

\* compileVariableInit: the value first, then the slot; the declared type plays
\* no part.
CompileInit(cs, name) ==
    LET declared == WithSlot(cs, name)
    IN  IF cs.err THEN cs
        ELSE EmitN(declared, "STORE_LOCAL", SlotOf(declared, name))

\* compileAssignment: it leaves no value, though it is an expression.
CompileAssignment(cs, name) ==
    IF cs.err \/ ~HasSlot(cs, name) THEN [cs EXCEPT !.err = TRUE]
    ELSE EmitN(cs, "STORE_LOCAL", SlotOf(cs, name))

\* compileFunctionCall: the arguments are not counted.
CompileCall(cs, env, e) ==
    IF e.n \notin DOMAIN env.functions THEN [cs EXCEPT !.err = TRUE]
    ELSE Finish(CompileAll(cs, env, e.a), "CALL", e.n, "none", ErrorValue)

CompileExpression(cs, env, e) ==
    CASE cs.err                     -> cs
      [] e.op \in {"int", "hex"}    -> CompileInteger(cs, e)
      [] e.op = "float"             -> EmitValue(cs, MakeFloat(e.n, Word))
      [] e.op = "bool"              -> EmitValue(cs, MakeBool(e.n = 1))
      [] e.op \in {"id", "field"}   -> CompileIdentifier(cs, env.constants, e.n)
      [] e.op \in BinaryOps         -> Finish(CompileAll(cs, env, e.a), e.op, 0, e.m, ErrorValue)
      [] e.op \in {"NEG_INT", "LOGIC_NOT", "NOT_INT"} ->
                                       Finish(CompileAll(cs, env, e.a), e.op, 0, e.m, ErrorValue)
      [] e.op = "cast"              -> Finish(CompileAll(cs, env, e.a), "CAST_INT", e.n, "none",
                                              MakeInt(0, e.n, e.m = "none"))
      [] e.op = "fcast"             -> Finish(CompileAll(cs, env, e.a), "CAST_FLOAT", e.n, "none",
                                              ErrorValue)
      [] e.op = "likely"            -> CompileAll(cs, env, e.a)
      [] e.op = "call"              -> CompileCall(cs, env, e)
      [] e.op = "init"              -> CompileInit(CompileExpression(cs, env, e.a[1]), e.n)
      [] e.op = "assign"            -> CompileAssignment(CompileAll(cs, env, e.a), e.n)
      [] OTHER                      -> [cs EXCEPT !.err = TRUE]

RECURSIVE CompileStatement(_, _, _), CompileBlock(_, _, _)

\* compileBlock: no scope of its own
CompileBlock(cs, env, stmts) ==
    IF stmts = <<>> \/ cs.err THEN cs
    ELSE CompileBlock(CompileStatement(cs, env, Head(stmts)), env, Tail(stmts))

\* compileReturnStatement
CompileReturn(cs, env, s) ==
    LET value == IF s.a = <<>> THEN EmitValue(cs, MakeInt(0, Narrow, TRUE))
                               ELSE CompileAll(cs, env, s.a)
    IN  EmitOp(value, "RET")

\* compileIfStatement: s.a = <<condition, then>> or <<condition, then, else>>
CompileIf(cs, env, s) ==
    LET test == CompileExpression(cs, env, s.a[1])
        toElse == Here(test)
        then == CompileBlock(EmitN(test, "JMP_IF_FALSE", 0), env, s.a[2].a)
        toEnd == Here(then)
        over == Patch(EmitN(then, "JMP", 0), toElse)
    IN  CASE test.err       -> test
          [] Len(s.a) = 2   -> Patch(then, toElse)
          [] Len(s.a) = 3   -> Patch(CompileBlock(over, env, s.a[3].a), toEnd)

\* compileWhileStatement
CompileWhile(cs, env, s) ==
    LET test == CompileExpression(cs, env, s.a[1])
        body == CompileBlock(EmitN(test, "JMP_IF_FALSE", 0), env, s.a[2].a)
    IN  IF test.err THEN test
        ELSE Patch(EmitN(body, "JMP", Here(cs)), Here(test))

\* compileForStatement: s.a = <<initializer, condition, body, postfix>>; the
\* values the initializer and the postfix leave stay on the stack.
CompileFor(cs, env, s) ==
    LET start == CompileExpression(cs, env, s.a[1])
        test == CompileExpression(start, env, s.a[2])
        body == CompileBlock(EmitN(test, "JMP_IF_FALSE", 0), env, s.a[3].a)
        next == CompileExpression(body, env, s.a[4])
    IN  IF test.err THEN test
        ELSE Patch(EmitN(next, "JMP", Here(start)), Here(test))

\* Mutant: the value is popped after a declaration or an assignment only.
CompileExpressionStatementKept(cs, env, e) == CompileExpression(cs, env, e)

\* compileExpressionStatement
CompileExpressionStatement(cs, env, e) ==
    LET done == CompileExpression(cs, env, e)
    IN  IF done.err \/ e.op \in {"init", "assign"} THEN done
        ELSE EmitOp(done, "POP")

CompileStatement(cs, env, s) ==
    CASE cs.err           -> cs
      [] s.op = "return"  -> CompileReturn(cs, env, s)
      [] s.op = "throw"   -> EmitN(cs, "THROW", s.n)
      [] s.op = "if"      -> CompileIf(cs, env, s)
      [] s.op = "while"   -> CompileWhile(cs, env, s)
      [] s.op = "for"     -> CompileFor(cs, env, s)
      [] s.op = "block"   -> CompileBlock(cs, env, s.a)
      [] s.op = "expr"    -> CompileExpressionStatement(cs, env, s.a[1])
      [] OTHER            -> [cs EXCEPT !.err = TRUE]

Fresh(code, names) == [code |-> code, slots |-> names, err |-> FALSE]

\* compileFunction: the parameters take the first slots.
CompileFunction(code, env, f) ==
    LET body == CompileBlock(Fresh(code, f.params), env, f.body)
    IN  EmitOp(EmitValue(body, MakeInt(0, Narrow, TRUE)), "RET")

\* A source program is [functions, constants, main], a function [params, types,
\* result, body] with the declared types of its parameters and its result: the
\* driver is the code of ConstEvaluator::evaluate for the expression main.
Env(src) == [constants |-> src.constants, functions |-> src.functions]

\* compileAllFunctions, after the driver's code
CompileFunctions(code, env, fs) ==
    FoldLeft(LAMBDA acc, f :
                LET cs == CompileFunction(acc.code, env, f)
                IN  [code |-> cs.code,
                     functions |-> Append(acc.functions,
                        [numParams |-> Len(f.params), numLocals |-> Len(cs.slots),
                         codeStart |-> IF cs.err THEN 0 ELSE Len(acc.code) + 1])],
             [code |-> code, functions |-> <<>>], fs)

\* BytecodeCompiler::compile for an expression; compileCallDriver for a call
\* with constant arguments makes the same code.
Driver(src) ==
    LET cs == CompileExpression(Fresh(<<>>, <<>>), Env(src), src.main)
    IN  IF cs.err THEN cs ELSE EmitOp(cs, "HALT")

Compiled(src) == CompileFunctions(Driver(src).code, Env(src), src.functions)

-----------------------------------------------------------------------------
\* What a program means.  Outcomes: [how, v, env] where how is "value",
\* "return", "next", "thrown", "error" or "deep", v a value and env the scopes,
\* innermost last, each a function from the names it declares to values.

Outcome(how, v, env) == [how |-> how, v |-> v, env |-> env]

None == [n \in {} |-> ErrorValue]

Declares(env, name) == {i \in DOMAIN env : name \in DOMAIN env[i]}

Bind(env, i, name, v) ==
    [env EXCEPT ![i] = [n \in DOMAIN @ \cup {name} |-> IF n = name THEN v ELSE @[n]]]

\* An integer type is a width and a sign; it holds the exact result of an
\* operation, or what the overflow mode asks for: an error, the nearest value,
\* or the value that is congruent to it.
Holds(bits, signed) ==
    IF signed THEN -(2^(bits - 1)) .. 2^(bits - 1) - 1 ELSE 0 .. 2^bits - 1

Represented(exact, bits, signed, mode) ==
    LET type == Holds(bits, signed)
    IN  CASE exact \in type -> MakeInt(exact, bits, signed)
          [] exact \notin type /\ mode \in {"trapped", "checked"} -> ErrorValue
          [] exact \notin type /\ mode = "saturating" ->
                MakeInt(IF exact < 0 THEN Min(type) ELSE Max(type), bits, signed)
          [] OTHER -> MakeInt(CHOOSE y \in type : (y - exact) % 2^bits = 0, bits, signed)

\* The remainder has the sign of the dividend.
Truncated(a, b) ==
    LET abs(x) == IF x < 0 THEN -x ELSE x
    IN  CHOOSE q \in -abs(a) .. abs(a) :
            LET rest == a - q * b
            IN  abs(rest) < abs(b) /\ (rest = 0 \/ (rest < 0) = (a < 0))

\* The value in halves.
Halves(v) == IF v.kind = "float" THEN v.val ELSE 2 * v.val

FloatMeaning(op, l, r) ==
    LET x == Halves(l)
        y == Halves(r)
    IN  CASE op = "ADD_INT" -> MakeFloat(x + y, Wider(l, r))
          [] op = "SUB_INT" -> MakeFloat(x - y, Wider(l, r))
          [] op = "MUL_INT" -> MakeFloat(Truncated(x * y, 2), Wider(l, r))
          [] op = "DIV_INT" -> IF y = 0 THEN ErrorValue ELSE MakeFloat(Truncated(2 * x, y), Wider(l, r))

\* The bits of the two operands that Keep chooses, as a number of their type.
Bitwise(l, r, Keep(_, _)) ==
    LET Bit(x, i) == (x \div 2^i) % 2 = 1
        set == {i \in 0 .. Wider(l, r) - 1 : Keep(Bit(l.val, i), Bit(r.val, i))}
    IN  Represented(MapThenSumSet(LAMBDA i : 2^i, set), Wider(l, r), BothSigned(l, r), "wrapped")

IntMeaning(op, m, l, r) ==
    LET x == l.val
        y == r.val
        Fits(exact) == Represented(exact, Wider(l, r), BothSigned(l, r), m)
    IN  CASE op = "ADD_INT" -> Fits(x + y)
          [] op = "SUB_INT" -> Fits(x - y)
          [] op = "MUL_INT" -> Fits(x * y)
          [] op = "DIV_INT" -> IF y = 0 THEN ErrorValue ELSE Fits(Truncated(x, y))
          [] op = "MOD_INT" -> IF y = 0 THEN ErrorValue ELSE Fits(x - y * Truncated(x, y))
          [] op = "SHL_INT" -> Represented(x * 2^y, l.bits, l.signed, "wrapped")
          [] op = "SHR_INT" -> Represented(x \div 2^y, l.bits, l.signed, "wrapped")
          [] op = "AND_INT" -> Bitwise(l, r, LAMBDA a, b : a /\ b)
          [] op = "OR_INT"  -> Bitwise(l, r, LAMBDA a, b : a \/ b)
          [] op = "XOR_INT" -> Bitwise(l, r, LAMBDA a, b : a # b)

\* An operation on values, by the arithmetic of the language: the exact result,
\* held by the wider of the operands' types.
MeaningBinary(op, m, l, r) ==
    CASE op = "CMP_EQ_INT" -> MakeBool(Halves(l) = Halves(r))
      [] op = "CMP_NE_INT" -> MakeBool(Halves(l) # Halves(r))
      [] op = "CMP_LT_INT" -> MakeBool(Halves(l) < Halves(r))
      [] op = "CMP_LE_INT" -> MakeBool(Halves(l) <= Halves(r))
      [] op = "CMP_GT_INT" -> MakeBool(Halves(l) > Halves(r))
      [] op = "CMP_GE_INT" -> MakeBool(Halves(l) >= Halves(r))
      [] op \notin ComparisonOps /\ "float" \in {l.kind, r.kind} -> FloatMeaning(op, l, r)
      [] OTHER -> IntMeaning(op, m, l, r)

\* The value as an integer type holds it.
Converted(v, bits, signed) ==
    Represented(IF v.kind = "float" THEN Truncated(v.val, 2) ELSE v.val, bits, signed, "wrapped")

MeaningUnary(e, v) ==
    CASE e.op = "NEG_INT" /\ v.kind = "float" -> MakeFloat(-v.val, v.bits)
      [] e.op = "NEG_INT" /\ v.kind # "float" -> Represented(-v.val, v.bits, v.signed, e.m)
      [] e.op = "NOT_INT"   -> Represented(-v.val - 1, v.bits, v.signed, "wrapped")
      [] e.op = "LOGIC_NOT" -> MakeBool(v.val = 0)
      [] e.op = "cast"      -> Converted(v, e.n, e.m = "none")
      [] e.op = "fcast"     -> MakeFloat(Halves(v), e.n)
      [] e.op = "likely"    -> v

\* A variable, a parameter and a result have the type they are declared with.
OfType(v, t) == IF t.op = "auto" THEN v ELSE Converted(v, t.n, t.m = "none")

\* A literal is an int if it fits, else as wide as it has to be.
WidthOf(n) == IF n \in Holds(Narrow, TRUE) THEN Narrow ELSE IF n \in Holds(Word, TRUE) THEN Word ELSE 2 * Word

LiteralMeaning(e) ==
    CASE WidthOf(e.n) <= Word -> MakeInt(e.n, WidthOf(e.n), TRUE)
      [] WidthOf(e.n) > Word /\ e.op = "hex" -> [MakeInt(e.n, 2 * Word, TRUE) EXCEPT !.kind = "int128"]
      [] OTHER -> ErrorValue

ValueOutcome(v, env) ==
    Outcome(IF v.kind = "error" THEN "error" ELSE "value", v, env)

RECURSIVE Meaning(_, _, _, _), MeaningAll(_, _, _, _), Run(_, _, _, _)

\* The values of es, left to right, in Outcome.v as a sequence.
MeaningAll(src, env, es, d) ==
    IF es = <<>> THEN Outcome("value", <<>>, env)
    ELSE LET first == Meaning(src, env, Head(es), d)
             rest == MeaningAll(src, first.env, Tail(es), d)
         IN  IF first.how # "value" THEN first
             ELSE IF rest.how # "value" THEN rest
             ELSE Outcome("value", <<first.v>> \o rest.v, rest.env)

Scoped(f, args) ==
    [p \in Range(f.params) |->
        LET i == CHOOSE i \in DOMAIN f.params : f.params[i] = p IN OfType(args[i], f.types[i])]

MeaningCall(src, env, e, d) ==
    LET args == MeaningAll(src, env, e.a, d)
        f == src.functions[e.n]
        out == Run(src, <<Scoped(f, args.v)>>, f.body, d - 1)
    IN  CASE args.how # "value"                -> args
          [] args.how = "value" /\ d = 0       -> Outcome("deep", ErrorValue, env)
          [] OTHER ->
                CASE out.how = "return" -> Outcome("value", OfType(out.v, f.result), args.env)
                  [] out.how = "next"   -> Outcome("value", OfType(MakeInt(0, Narrow, TRUE), f.result), args.env)
                  [] OTHER              -> out

Meaning(src, env, e, d) ==
    CASE e.op \in {"int", "hex"} -> ValueOutcome(LiteralMeaning(e), env)
      [] e.op = "float" -> Outcome("value", MakeFloat(e.n, Word), env)
      [] e.op = "bool"  -> Outcome("value", MakeBool(e.n = 1), env)
      [] e.op \in {"id", "field"} ->
            IF Declares(env, e.n) # {}
            THEN Outcome("value", env[Max(Declares(env, e.n))][e.n], env)
            ELSE IF e.n \in DOMAIN src.constants
            THEN Outcome("value", src.constants[e.n], env)
            ELSE Outcome("error", ErrorValue, env)
      [] e.op \in LogicOps ->
            LET l == Meaning(src, env, e.a[1], d)
                r == Meaning(src, l.env, e.a[2], d)
            IN  IF l.how # "value" THEN l
                ELSE IF ToBool(l.v) = (e.op = "LOGIC_OR")
                THEN Outcome("value", MakeBool(ToBool(l.v)), l.env)
                ELSE IF r.how # "value" THEN r
                ELSE Outcome("value", MakeBool(ToBool(r.v)), r.env)
      [] e.op \in BinaryOps \ LogicOps ->
            LET vs == MeaningAll(src, env, e.a, d)
            IN  IF vs.how # "value" THEN vs
                ELSE ValueOutcome(MeaningBinary(e.op, e.m, vs.v[1], vs.v[2]), vs.env)
      [] e.op \in {"NEG_INT", "LOGIC_NOT", "NOT_INT", "cast", "fcast", "likely"} ->
            LET x == Meaning(src, env, e.a[1], d)
            IN  IF x.how # "value" THEN x ELSE ValueOutcome(MeaningUnary(e, x.v), x.env)
      [] e.op = "call" ->
            IF e.n \in DOMAIN src.functions THEN MeaningCall(src, env, e, d)
            ELSE Outcome("error", ErrorValue, env)
      [] e.op = "init" ->
            LET x == Meaning(src, env, e.a[1], d)
                v == OfType(x.v, e.a[2])
            IN  IF x.how # "value" THEN x ELSE Outcome("value", v, Bind(x.env, Len(x.env), e.n, v))
      [] e.op = "assign" ->
            LET x == Meaning(src, env, e.a[1], d)
            IN  IF x.how # "value" THEN x
                ELSE IF Declares(x.env, e.n) = {} THEN Outcome("error", ErrorValue, env)
                ELSE Outcome("value", x.v, Bind(x.env, Max(Declares(x.env, e.n)), e.n, x.v))
      [] OTHER -> Outcome("error", ErrorValue, env)

\* A block: its declarations end with it.
MeaningBlock(src, env, stmts, d) ==
    LET out == Run(src, Append(env, None), stmts, d)
    IN  IF out.how = "next" THEN [out EXCEPT !.env = SubSeq(@, 1, Len(env))] ELSE out

RECURSIVE MeaningLoop(_, _, _, _, _, _)

\* While the condition holds, the body and then the postfix expressions.
MeaningLoop(src, env, cond, body, post, d) ==
    LET test == Meaning(src, env, cond, d)
        once == MeaningBlock(src, test.env, body, d)
        after == MeaningAll(src, once.env, post, d)
    IN  CASE d = 0                                        -> Outcome("deep", ErrorValue, env)
          [] d > 0 /\ test.how # "value"                  -> test
          [] d > 0 /\ test.how = "value" /\ ~ToBool(test.v) -> Outcome("next", ErrorValue, test.env)
          [] OTHER ->
                IF once.how # "next" THEN once
                ELSE IF after.how # "value" THEN after
                ELSE MeaningLoop(src, after.env, cond, body, post, d - 1)

MeaningStatement(src, env, s, d) ==
    CASE s.op = "return" ->
            LET x == MeaningAll(src, env, s.a, d)
            IN  IF x.how # "value" THEN x
                ELSE Outcome("return", IF s.a = <<>> THEN MakeInt(0, Narrow, TRUE) ELSE x.v[1], x.env)
      [] s.op = "throw" -> Outcome("thrown", MakeOther("thrown", s.n), env)
      [] s.op = "if" ->
            LET test == Meaning(src, env, s.a[1], d)
            IN  IF test.how # "value" THEN test
                ELSE IF ToBool(test.v) THEN MeaningBlock(src, test.env, s.a[2].a, d)
                ELSE IF Len(s.a) = 3 THEN MeaningBlock(src, test.env, s.a[3].a, d)
                ELSE Outcome("next", ErrorValue, test.env)
      [] s.op = "while" -> MeaningLoop(src, env, s.a[1], s.a[2].a, <<>>, d)
      [] s.op = "for" ->
            LET start == Meaning(src, Append(env, None), s.a[1], d)
                out == MeaningLoop(src, start.env, s.a[2], s.a[3].a, <<s.a[4]>>, d)
            IN  IF start.how # "value" THEN start
                ELSE IF out.how = "next" THEN [out EXCEPT !.env = SubSeq(@, 1, Len(env))] ELSE out
      [] s.op = "block" -> MeaningBlock(src, env, s.a, d)
      [] s.op = "expr" ->
            LET x == Meaning(src, env, s.a[1], d)
            IN  IF x.how # "value" THEN x ELSE Outcome("next", ErrorValue, x.env)
      [] OTHER -> Outcome("error", ErrorValue, env)

\* Statements in order, in the scopes env.
Run(src, env, stmts, d) ==
    IF stmts = <<>> THEN Outcome("next", ErrorValue, env)
    ELSE LET first == MeaningStatement(src, env, Head(stmts), d)
         IN  IF first.how # "next" THEN first
             ELSE Run(src, first.env, Tail(stmts), d)

\* What the program's main expression means.
Reference(src) == Meaning(src, <<None>>, src.main, Depth)

-----------------------------------------------------------------------------
\* The evaluation of one source program.

VARIABLE source

vars == <<source, vmVars>>

Compiles(src) == ~Driver(src).err

\* ConstEvaluator::evaluate: an error of the driver's code is the result; one
\* of a function's code only matters when it is called.
EvalInit ==
    /\ source \in Sources
    /\ Compiles(source)
    /\ InitVM(Compiled(source))

EvalNext == Next /\ UNCHANGED source

EvalSpec == EvalInit /\ [][EvalNext]_vars /\ WF_vars(Step /\ UNCHANGED source)

-----------------------------------------------------------------------------
\* The programs the evaluator gets right.

RECURSIVE Nodes(_)

Nodes(e) == {e} \cup UNION {Nodes(e.a[i]) : i \in DOMAIN e.a}

NodesOf(es) == UNION {Nodes(es[i]) : i \in DOMAIN es}

AllNodes(src) ==
    Nodes(src.main) \cup UNION {NodesOf(src.functions[f].body) : f \in DOMAIN src.functions}

Calls(nodes) == {e.n : e \in {x \in nodes : x.op = "call"}}

\* Every function calls only functions with at least as many locals: RET
\* leaves the caller as many locals as the callee had.
KeepsLocals(src) ==
    LET numLocals(f) == Compiled(src).functions[f].numLocals
    IN  \A f \in DOMAIN src.functions :
            \A g \in Calls(NodesOf(src.functions[f].body)) \cap DOMAIN src.functions :
                numLocals(g) >= numLocals(f)

RECURSIVE Declared(_)

\* The names the statements declare, one for each declaration.
Declared(es) ==
    IF es = <<>> THEN <<>>
    ELSE (IF Head(es).op = "init" THEN <<Head(es).n>> ELSE <<>>)
         \o Declared(Head(es).a) \o Declared(Tail(es))

\* No name is declared twice in a function: its slot would be shared.
NoShadowing(src) ==
    \A f \in DOMAIN src.functions :
        IsInjective(src.functions[f].params \o Declared(src.functions[f].body))

\* The value of an operation that traps is the function's or the program's: an
\* error that goes on as an operand counts as 0.
TrapsEnd(src) ==
    \A e \in AllNodes(src) :
        e.op \notin {"return", "NEG_INT"} =>
            \A i \in DOMAIN e.a : e.a[i].m \notin {"trapped", "checked"}

\* The constants the program uses.
Used(src) ==
    {src.constants[e.n] : e \in {x \in AllNodes(src) : x.op \in {"id", "field"} /\ x.n \in DOMAIN src.constants}}

\* No operation on integers wider than the machine's: they are cut to a word.
ComputesInWords(src) ==
    (\E e \in AllNodes(src) : e.op \in BinaryOps \cup {"NEG_INT", "NOT_INT", "cast", "fcast"})
        => /\ \A e \in AllNodes(src) : e.op = "hex" => WidthOf(e.n) <= Word
           /\ \A v \in Used(src) : v.kind # "int128"

\* No comparison or remainder of floats, and no arithmetic on floats of fewer
\* bits than the machine's.
ComparesInts(src) ==
    LET nodes == AllNodes(src)
    IN  /\ (\E e \in nodes : e.op \in ComparisonOps \cup {"MOD_INT"})
                => /\ \A e \in nodes : e.op \notin {"float", "fcast"}
                   /\ \A v \in Used(src) : v.kind # "float"
        /\ \A e \in nodes : e.op \in ArithmeticOps \cup {"DIV_INT"} =>
                \A i \in DOMAIN e.a : e.a[i].op = "fcast" => e.a[i].n >= Word

IsBoolean(e) == e.op \in {"bool", "LOGIC_NOT"} \cup ComparisonOps \cup LogicOps

\* No arithmetic on booleans: the machine takes them for integers of one bit.
ComputesNumbers(src) ==
    \A e \in AllNodes(src) :
        e.op \in ArithmeticOps \cup DivisionOps \cup BitOps \cup {"NEG_INT", "NOT_INT"} =>
            \A i \in DOMAIN e.a : ~IsBoolean(e.a[i])

\* All numbers are ints.
AllNarrow(src) ==
    /\ \A e \in AllNodes(src) :
          /\ e.op \in {"int", "hex"} => WidthOf(e.n) = Narrow
          /\ e.op \notin {"float", "cast", "fcast"}
    /\ \A v \in Used(src) : v.kind = "int" /\ v.bits = Narrow /\ v.signed

\* Operations on bits are on ints alone: their result is always an int.  A shift
\* to the left loses no bit, as its result is not cut to the width of an int,
\* and no shift is as wide as an int.
BitsAreInts(src) ==
    \A e \in AllNodes(src) :
        /\ e.op \in BitOps \cup {"NOT_INT"} => AllNarrow(src)
        /\ e.op \in {"SHL_INT", "SHR_INT"} => e.a[2].op = "int" /\ e.a[2].n \in 0 .. Narrow - 1
        /\ e.op = "SHL_INT" => e.a[1].op = "int" /\ e.a[1].n * 2^e.a[2].n \in Holds(Narrow, TRUE)

\* Declared types are ignored: every value has to have its variable's type by
\* itself.
TypesKept(src) ==
    LET inits == {e \in AllNodes(src) : e.op = "init" /\ e.a[2].op = "type"}
        signatures == UNION {Range(f.types) \cup {f.result} : f \in Range(src.functions)}
        declared == {e.a[2] : e \in inits} \cup {t \in signatures : t.op = "type"}
    IN  \/ declared = {}
        \/ /\ AllNarrow(src) /\ \A t \in declared : t.n = Narrow /\ t.m = "none"
           /\ \A e \in AllNodes(src) : e.op \in {"init", "assign", "call", "return"} =>
                 \A i \in DOMAIN e.a : ~IsBoolean(e.a[i])
        \/ /\ \A t \in signatures : t.op = "auto"
           /\ \A e \in inits : e.a[1].op = "cast" /\ e.a[1].n = e.a[2].n /\ e.a[1].m = e.a[2].m

\* No right operand of && or || that can fail: both operands are evaluated.
SafeOperands(src) ==
    \A e \in AllNodes(src) :
        e.op \in LogicOps =>
            \A x \in Nodes(e.a[2]) : x.op \notin DivisionOps \cup {"call"}

\* No cast to fewer bits than the machine's, or to an unsigned integer.
CastsWiden(src) ==
    \A e \in AllNodes(src) : e.op = "cast" => e.n >= Word /\ e.m = "none"

\* An assignment or a declaration used for its value: it has none.
UsesAssignment(src) ==
    \/ src.main.op \in {"init", "assign"}
    \/ \E e \in AllNodes(src) : \E i \in DOMAIN e.a :
          /\ e.a[i].op \in {"init", "assign"}
          /\ e.op # "expr" /\ (e.op = "for" => i \notin {1, 4})

Plain(src) ==
    /\ KeepsLocals(src) /\ NoShadowing(src) /\ TrapsEnd(src)
    /\ ComputesInWords(src) /\ ComparesInts(src) /\ ComputesNumbers(src) /\ BitsAreInts(src)
    /\ SafeOperands(src) /\ CastsWiden(src) /\ TypesKept(src) /\ ~UsesAssignment(src)

\* A loop that leaves a value on the stack: an initializer or a postfix
\* expression other than a declaration or an assignment.
Leaks(src) ==
    \E e \in AllNodes(src) :
        /\ e.op = "for"
        /\ \E i \in {1, 4} : e.a[i].op \notin {"init", "assign"}

-----------------------------------------------------------------------------
\* Properties

\* A limit of the machine ended the evaluation.
AtLimit ==
    \/ iterations > MaxIterations
    \/ Instr.op = "CALL" /\ Len(frames) = MaxCallDepth
    \/ Instr.op = "STORE_LOCAL" /\ base + Instr.n >= MaxLocals
    \/ result = <<Exception>> /\ Len(stack) = MaxStack


\* How many values there are before each instruction of p, from the first on:
\* what the first of the instructions before it that may lead there leaves.
Depths(p) ==
    LET From(d, i) == {j \in 1 .. i - 1 : d[j] # Unreached /\ i \in Follows(p, j)}
        After(d, j) == d[j] - Pops(p, p.code[j]) + Pushes(p.code[j])
        Starts == {1} \cup {p.functions[f].codeStart : f \in DOMAIN p.functions}
    IN  FoldLeft(LAMBDA d, i :
                    Append(d, CASE i \in Starts -> 0
                                [] i \notin Starts /\ From(d, i) # {} -> After(d, Min(From(d, i)))
                                [] OTHER -> Unreached),
                 <<>>, [i \in DOMAIN p.code |-> i])

\* The code is balanced where no assignment is used for its value: no
\* instruction finds too few operands, the exceptions of push and pop are left
\* to a full stack, and the program ends with its value alone on the stack and
\* no call open (BytecodeCompiler).  Where no loop leaves values, the code
\* itself shows it, whatever it is run with.
StackBalanced ==
    ~UsesAssignment(source) =>
        /\ result # <<>> =>
              /\ result = <<Exception>> => Len(stack) = MaxStack
              /\ iterations <= MaxIterations /\ Instr.op = "HALT" => frames = <<>>
        /\ ~Leaks(source) =>
              /\ OperandsThere
              /\ iterations = 0 =>
                    BalancedBy(program, Depths(program), Len(Driver(source).code))

\* Every evaluation ends, whatever the program does: maxIterations bounds it
\* (ConstVM::execute).
Terminates == <>(result # <<>>)
=============================================================================
