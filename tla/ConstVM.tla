------------------------------ MODULE ConstVM ------------------------------
(***************************************************************************)
(* The stack machine of the compile-time evaluator (class ConstVM of       *)
(* evaluator/ConstEvaluator.cpp): one action per group of instructions of  *)
(* ConstVM::execute.                                                       *)
(*                                                                         *)
(* An instruction carries its constant instead of an index into a pool,    *)
(* and the names of thrown errors are numbers.  A float is counted in      *)
(* halves and rounded towards zero.  The instructions the compiler never   *)
(* emits (the _FLOAT arithmetic and comparisons, the four conversions      *)
(* other than the casts, JMP_IF_TRUE) are left out.                        *)
(***************************************************************************)
EXTENDS Integers, Sequences, FiniteSets, FiniteSetsExt

CONSTANTS
    Narrow,        \* bits of an int: 32 in the code
    Word,          \* bits of the machine's integers: 64 in the code
    MaxStack,      \* maxStackSize
    MaxLocals,     \* maxLocals
    InitialLocals, \* the locals there are from the start: 256 in the code
    Slack,         \* the locals added when a store finds none: 64 in the code
    MaxCallDepth,  \* maxCallDepth
    MaxIterations, \* maxIterations
    Program        \* the compiled programs

ASSUME VMAssumption ==
    /\ Narrow \in Nat \ {0} /\ Word \in Nat /\ Narrow < Word
    /\ MaxStack \in Nat /\ MaxLocals \in Nat /\ MaxCallDepth \in Nat
    /\ InitialLocals \in 0 .. MaxLocals /\ Slack \in Nat \ {0}
    /\ MaxIterations \in Nat

\* val is the integer of an "int" or "int128", the halves of a "float", 0 or 1
\* for a "bool" and the error's number for "thrown".
Value == [kind : {"int", "int128", "float", "bool", "void", "thrown", "error"},
          val : Int, bits : Nat, signed : BOOLEAN]

Mode == {"none", "wrapped", "trapped", "checked", "saturating"}

Instruction == [op : STRING, n : Int, m : Mode, v : Value]

\* CompiledFunction; codeStart 0 stands for InvalidCodeStart.
Function == [numParams : Nat, numLocals : Nat, codeStart : Nat]

ASSUME ProgramAssumption ==
    \A p \in Program :
        /\ p.code \in Seq(Instruction)
        /\ p.functions \in Seq(Function)
        /\ \A f \in 1 .. Len(p.functions) :
              p.functions[f].numParams <= p.functions[f].numLocals
        /\ \A i \in 1 .. Len(p.code) :
              /\ p.code[i].op \in {"STORE_LOCAL", "LOAD_LOCAL", "CALL"}
                    => p.code[i].n \in Nat
              /\ p.code[i].op \in {"JMP", "JMP_IF_FALSE"}
                    => p.code[i].n \in Nat \ {0}

VARIABLES
    program,
    ip,         \* the next instruction, counted from 1
    stack,      \* _stack, top last
    locals,     \* _locals
    frames,     \* _callFrames, innermost last
    base,       \* _currentLocalsBase
    iterations,
    result      \* <<>> while running, else <<the value returned>> or
                \* <<Exception>>

vmVars == <<program, ip, stack, locals, frames, base, iterations, result>>

Frame == [returnIP : Nat, localsBase : Nat, numLocals : Nat]

-----------------------------------------------------------------------------
\* Values

MakeInt(v, bits, signed) ==
    [kind |-> "int", val |-> v, bits |-> bits, signed |-> signed]

MakeFloat(halves, bits) ==
    [kind |-> "float", val |-> halves, bits |-> bits, signed |-> TRUE]

MakeBool(b) ==
    [kind |-> "bool", val |-> IF b THEN 1 ELSE 0, bits |-> 1, signed |-> TRUE]

MakeOther(kind, v) ==
    [kind |-> kind, val |-> v, bits |-> Narrow, signed |-> TRUE]

ErrorValue == MakeOther("error", 0)

\* std::runtime_error, thrown by push and pop and caught by nobody.
Exception == MakeOther("void", 1)

\* Division of C++: towards zero.
Quotient(a, b) ==
    LET abs(x) == IF x < 0 THEN -x ELSE x
        q == abs(a) \div abs(b)
    IN  IF (a < 0) = (b < 0) THEN q ELSE -q

\* Two's complement.
Wrap(x, bits, signed) ==
    LET u == x % 2^bits
    IN  IF signed /\ u >= 2^(bits - 1) THEN u - 2^bits ELSE u

\* ConstValue::toInt
ToInt(v) ==
    CASE v.kind = "int"    -> v.val
      [] v.kind = "int128" -> Wrap(v.val, Word, TRUE)
      [] v.kind = "float"  -> Quotient(v.val, 2)
      [] v.kind = "bool"   -> v.val
      [] OTHER             -> 0

\* ConstValue::toFloat, in halves
ToFloat(v) ==
    CASE v.kind \in {"int", "int128", "bool"} -> 2 * v.val
      [] v.kind = "float"                     -> v.val
      [] OTHER                                -> 0

\* ConstValue::toBool
ToBool(v) == v.kind \in {"int", "int128", "float", "bool"} /\ v.val # 0

-----------------------------------------------------------------------------
\* Arithmetic

\* limitsFor
Limits(bits, signed) ==
    IF bits >= Word
    THEN [min |-> -(2^(Word - 1)), max |-> 2^(Word - 1) - 1, umax |-> 2^Word - 1]
    ELSE [min |-> IF signed THEN -(2^(bits - 1)) ELSE 0,
          max |-> IF signed THEN 2^(bits - 1) - 1 ELSE 2^bits - 1,
          umax |-> 2^bits - 1]

\* addOverflows64 and its like: the exact result is not a machine integer.
Overflows(exact) == exact < -(2^(Word - 1)) \/ exact >= 2^(Word - 1)

\* fitInt, of the exact result of an operation
FitInt(exact, hint, negative, bits, signed, mode) ==
    LET lim == Limits(bits, signed)
        raw == Wrap(exact, Word, TRUE)
        out == \/ hint
               \/ IF signed THEN raw < lim.min \/ raw > lim.max
                            ELSE raw % 2^Word > lim.umax
    IN  CASE out /\ mode \in {"trapped", "checked"} -> ErrorValue
          [] out /\ mode = "saturating" ->
                MakeInt(IF negative THEN lim.min ELSE lim.max, bits, signed)
          [] OTHER ->
                MakeInt(IF bits < Word THEN Wrap(raw, bits, signed) ELSE raw,
                        bits, signed)

Wider(l, r) == IF l.bits >= r.bits THEN l.bits ELSE r.bits

BothSigned(l, r) == l.signed /\ r.signed

\* ADD_INT, SUB_INT, MUL_INT
Arithmetic(op, mode, l, r) ==
    LET a == ToInt(l)
        b == ToInt(r)
        fl == ToFloat(l)
        fr == ToFloat(r)
        Fit(exact, negative) == FitInt(exact, Overflows(exact), negative,
                                       Wider(l, r), BothSigned(l, r), mode)
    IN  IF "float" \in {l.kind, r.kind}
        THEN MakeFloat(CASE op = "ADD_INT" -> fl + fr
                         [] op = "SUB_INT" -> fl - fr
                         [] op = "MUL_INT" -> Quotient(fl * fr, 2), Word)
        ELSE CASE op = "ADD_INT" -> Fit(a + b, a < 0 /\ b < 0)
               [] op = "SUB_INT" -> Fit(a - b, a < 0 /\ b > 0)
               [] op = "MUL_INT" -> Fit(a * b, (a < 0) # (b < 0))

\* DIV_INT and MOD_INT; MOD_INT takes floats for integers.
Divides(op, l, r) ==
    IF op = "DIV_INT" /\ "float" \in {l.kind, r.kind}
    THEN ToFloat(r) # 0
    ELSE ToInt(r) # 0

\* The outcome of a division that Divides: an error ends the evaluation.
Division(op, mode, l, r) ==
    LET a == ToInt(l)
        b == ToInt(r)
        q == Quotient(a, b)
    IN  CASE op = "DIV_INT" /\ "float" \in {l.kind, r.kind} ->
                MakeFloat(Quotient(2 * ToFloat(l), ToFloat(r)), Word)
          [] op = "DIV_INT" /\ Overflows(q) /\ mode \in {"trapped", "checked"} ->
                ErrorValue
          [] op = "DIV_INT" /\ Overflows(q) /\ mode = "saturating" ->
                MakeInt(2^(Word - 1) - 1, Wider(l, r), BothSigned(l, r))
          [] OTHER -> FitInt(IF op = "DIV_INT" THEN q ELSE a - b * q, FALSE, FALSE,
                             Wider(l, r), BothSigned(l, r), mode)

\* CMP_*_INT: floats are cut to integers before they are compared.
Comparison(op, l, r) ==
    LET a == ToInt(l)
        b == ToInt(r)
    IN  MakeBool(CASE op = "CMP_EQ_INT" -> a = b
                   [] op = "CMP_NE_INT" -> a # b
                   [] op = "CMP_LT_INT" -> a < b
                   [] op = "CMP_LE_INT" -> a <= b
                   [] op = "CMP_GT_INT" -> a > b
                   [] op = "CMP_GE_INT" -> a >= b)

BitsOf(x) == {i \in 0 .. Word - 1 : (x \div 2^i) % 2 = 1}

FromBits(S) == Wrap(MapThenSumSet(LAMBDA i : 2^i, S), Word, TRUE)

\* SHL_INT ... XOR_INT; the machine takes a shift modulo the word.
BitOperation(op, l, r) ==
    LET a == ToInt(l)
        b == ToInt(r)
    IN  MakeInt(CASE op = "SHL_INT" -> Wrap(a * 2^(b % Word), Word, TRUE)
                  [] op = "SHR_INT" -> a \div 2^(b % Word)
                  [] op = "AND_INT" -> FromBits(BitsOf(a) \cap BitsOf(b))
                  [] op = "OR_INT"  -> FromBits(BitsOf(a) \cup BitsOf(b))
                  [] op = "XOR_INT" -> FromBits((BitsOf(a) \cup BitsOf(b))
                                                \ (BitsOf(a) \cap BitsOf(b))),
                Narrow, TRUE)

\* LOGIC_AND, LOGIC_OR
Logic(op, l, r) ==
    MakeBool(IF op = "LOGIC_AND" THEN ToBool(l) /\ ToBool(r)
                                 ELSE ToBool(l) \/ ToBool(r))

\* NEG_INT
Negation(mode, v) ==
    LET x == ToInt(v)
        overflow == \/ x = -(2^(Word - 1))
                    \/ v.bits < Word /\ x = Limits(v.bits, v.signed).min
    IN  IF v.kind = "float"
        THEN MakeFloat(-v.val, v.bits)
        ELSE FitInt(-x, overflow, FALSE, v.bits, v.signed, mode)

\* LOGIC_NOT, NOT_INT, CAST_INT, CAST_FLOAT: the casts take their width from
\* the operand, and a cast to an integer keeps bits beyond that width.
Conversion(i, v) ==
    CASE i.op = "LOGIC_NOT"  -> MakeBool(~ToBool(v))
      [] i.op = "NOT_INT"    -> MakeInt(-ToInt(v) - 1, Narrow, TRUE)
      [] i.op = "CAST_INT"   -> MakeInt(ToInt(v), i.n, i.v.signed)
      [] i.op = "CAST_FLOAT" -> MakeFloat(ToFloat(v), i.n)

-----------------------------------------------------------------------------
\* The machine

\* ConstVM::execute, before its loop
InitVM(p) ==
    /\ program = p
    /\ ip = 1
    /\ stack = <<>> /\ frames = <<>> /\ base = 0
    /\ locals = [i \in 1 .. InitialLocals |-> MakeInt(0, Narrow, TRUE)]
    /\ iterations = 0
    /\ result = <<>>

Running == result = <<>>

Fetched == ip <= Len(program.code)

Instr == program.code[ip]

Top == stack[Len(stack)]

Second == stack[Len(stack) - 1]

Drop(n) == SubSeq(stack, 1, Len(stack) - n)

\* Mutant: a jump is not counted.
ExecutesFree(ops) ==
    /\ Running /\ Fetched /\ Instr.op \in ops
    /\ iterations < MaxIterations
    /\ iterations' = IF ops = {"JMP"} THEN 0 ELSE iterations + 1
    /\ UNCHANGED program

\* The instruction at ip is one of ops, and there are iterations left for it.
Executes(ops) ==
    /\ Running /\ Fetched /\ Instr.op \in ops
    /\ iterations < MaxIterations
    /\ iterations' = iterations + 1
    /\ UNCHANGED program

\* The evaluation ends with v; what the machine holds is of no use any more.
Return(v) ==
    /\ result' = <<v>>
    /\ UNCHANGED <<ip, stack, locals, frames, base>>

\* push and pop throw instead of growing past the limit or below zero.
Has(n) == Len(stack) >= n

Room(popped) == Len(stack) - popped < MaxStack

\* Takes `popped' values off the stack, pushes v and goes on.
Replace(popped, v) ==
    /\ stack' = Append(Drop(popped), v)
    /\ ip' = ip + 1
    /\ UNCHANGED <<locals, frames, base, result>>

PushOps == {"PUSH_INT", "PUSH_INT128", "PUSH_FLOAT", "PUSH_BOOL"}

ArithmeticOps == {"ADD_INT", "SUB_INT", "MUL_INT"}

DivisionOps == {"DIV_INT", "MOD_INT"}

ComparisonOps == {"CMP_EQ_INT", "CMP_NE_INT", "CMP_LT_INT", "CMP_LE_INT",
                  "CMP_GT_INT", "CMP_GE_INT"}

BitOps == {"SHL_INT", "SHR_INT", "AND_INT", "OR_INT", "XOR_INT"}

LogicOps == {"LOGIC_AND", "LOGIC_OR"}

UnaryOps == {"LOGIC_NOT", "NOT_INT", "CAST_INT", "CAST_FLOAT"}

\* The width of an integer constant follows its magnitude.
Pushed(i) ==
    IF i.op = "PUSH_INT"
    THEN MakeInt(i.v.val, IF /\ i.v.val >= -(2^(Narrow - 1))
                             /\ i.v.val < 2^(Narrow - 1)
                          THEN Narrow ELSE Word, TRUE)
    ELSE i.v

Push ==
    /\ Executes(PushOps) /\ Room(0)
    /\ Replace(0, Pushed(Instr))

Pop ==
    /\ Executes({"POP"}) /\ Has(1)
    /\ stack' = Drop(1) /\ ip' = ip + 1
    /\ UNCHANGED <<locals, frames, base, result>>

\* An error of Arithmetic is a value like any other: it goes on the stack.
Binary ==
    /\ Executes(ArithmeticOps \cup ComparisonOps \cup BitOps \cup LogicOps)
    /\ Has(2)
    /\ Replace(2, CASE Instr.op \in ArithmeticOps -> Arithmetic(Instr.op, Instr.m, Second, Top)
                    [] Instr.op \in ComparisonOps -> Comparison(Instr.op, Second, Top)
                    [] Instr.op \in BitOps        -> BitOperation(Instr.op, Second, Top)
                    [] Instr.op \in LogicOps      -> Logic(Instr.op, Second, Top))

Divide ==
    /\ Executes(DivisionOps) /\ Has(2)
    /\ IF ~Divides(Instr.op, Second, Top)
       THEN Return(ErrorValue)
       ELSE LET v == Division(Instr.op, Instr.m, Second, Top)
            IN  IF Instr.op = "DIV_INT" /\ v = ErrorValue
                   /\ Overflows(Quotient(ToInt(Second), ToInt(Top)))
                THEN Return(ErrorValue)
                ELSE Replace(2, v)

Negate ==
    /\ Executes({"NEG_INT"}) /\ Has(1)
    /\ LET v == Negation(Instr.m, Top)
       IN  IF v.kind = "error" THEN Return(v) ELSE Replace(1, v)

Convert ==
    /\ Executes(UnaryOps) /\ Has(1)
    /\ Replace(1, Conversion(Instr, Top))

\* std::vector::resize
Resize(s, n, v) == [i \in 1 .. n |-> IF i <= Len(s) THEN s[i] ELSE v]

StoreLocal ==
    /\ Executes({"STORE_LOCAL"}) /\ Has(1)
    /\ LET slot == base + Instr.n
           grown == IF slot >= Len(locals)
                    THEN Resize(locals, slot + Slack, MakeInt(0, Narrow, TRUE))
                    ELSE locals
       IN  IF slot >= MaxLocals
           THEN Return(ErrorValue)
           ELSE /\ locals' = [grown EXCEPT ![slot + 1] = Top]
                /\ stack' = Drop(1) /\ ip' = ip + 1
                /\ UNCHANGED <<frames, base, result>>

LoadLocal ==
    /\ Executes({"LOAD_LOCAL"})
    /\ LET slot == base + Instr.n
       IN  IF slot >= Len(locals)
           THEN Return(ErrorValue)
           ELSE Room(0) /\ Replace(0, locals[slot + 1])

Jump ==
    /\ Executes({"JMP"})
    /\ ip' = Instr.n
    /\ UNCHANGED <<stack, locals, frames, base, result>>

JumpIfFalse ==
    /\ Executes({"JMP_IF_FALSE"}) /\ Has(1)
    /\ ip' = IF ToBool(Top) THEN ip + 1 ELSE Instr.n
    /\ stack' = Drop(1)
    /\ UNCHANGED <<locals, frames, base, result>>


\* The locals of a call start where all others end, its arguments first.
Enter(f) ==
    /\ base' = Len(locals)
    /\ locals' = [i \in 1 .. Len(locals) + f.numLocals |->
                    IF i <= Len(locals) THEN locals[i]
                    ELSE IF i <= Len(locals) + f.numParams
                    THEN stack[Len(stack) - f.numParams + i - Len(locals)]
                    ELSE MakeInt(0, Narrow, TRUE)]

\* What CALL rejects: an unknown function, one that did not compile, and a
\* call too deep.
MayCall(n) ==
    /\ n \in 1 .. Len(program.functions)
    /\ program.functions[n].codeStart # 0
    /\ Len(frames) < MaxCallDepth

Call ==
    /\ Executes({"CALL"})
    /\ IF ~MayCall(Instr.n)
       THEN Return(ErrorValue)
       ELSE LET f == program.functions[Instr.n]
            IN  /\ Has(f.numParams)
                /\ frames' = Append(frames, [returnIP |-> ip + 1, localsBase |-> base,
                                             numLocals |-> f.numLocals])
                /\ Enter(f)
                /\ stack' = Drop(f.numParams)
                /\ ip' = f.codeStart
                /\ UNCHANGED result

\* Mutant: all locals from the caller's base on are dropped.
LeaveShort(frame) ==
    /\ base' = frame.localsBase
    /\ locals' = Resize(locals, frame.localsBase, ErrorValue)

\* Back to the caller's locals, as many as the callee had.
Leave(frame) ==
    /\ base' = frame.localsBase
    /\ locals' = Resize(locals, frame.localsBase + frame.numLocals, ErrorValue)

Ret ==
    /\ Executes({"RET"}) /\ Has(1)
    /\ IF frames = <<>>
       THEN Return(Top)
       ELSE LET frame == frames[Len(frames)]
            IN  /\ frames' = SubSeq(frames, 1, Len(frames) - 1)
                /\ Leave(frame)
                /\ ip' = frame.returnIP
                /\ UNCHANGED <<stack, result>>

Halt ==
    /\ Executes({"HALT"})
    /\ Return(IF stack = <<>> THEN MakeOther("void", 0) ELSE Top)

Throw ==
    /\ Executes({"THROW"})
    /\ Return(MakeOther("thrown", Instr.n))

\* How many values the instruction takes, and how many it then puts back.
Takes(i) ==
    CASE i.op \in {"POP", "NEG_INT", "STORE_LOCAL", "JMP_IF_FALSE", "RET"} \cup UnaryOps -> 1
      [] i.op \in ArithmeticOps \cup DivisionOps \cup ComparisonOps \cup BitOps
                  \cup LogicOps -> 2
      [] i.op = "CALL" /\ MayCall(i.n) -> program.functions[i.n].numParams
      [] OTHER -> 0

Underflows == ~Has(Takes(Instr))

StackFull ==
    /\ Instr.op \in PushOps \cup {"LOAD_LOCAL"} /\ ~Room(0)
    /\ Instr.op = "LOAD_LOCAL" => base + Instr.n < Len(locals)

\* push or pop throws, and the compiler dies.
Raise ==
    /\ Executes({Instr.op}) /\ (Underflows \/ StackFull)
    /\ Return(Exception)

\* maxIterations is used up.
Exhaust ==
    /\ Running /\ Fetched /\ iterations = MaxIterations
    /\ iterations' = iterations + 1
    /\ Return(ErrorValue)
    /\ UNCHANGED program

Step ==
    \/ Push \/ Pop \/ Binary \/ Divide \/ Negate \/ Convert
    \/ StoreLocal \/ LoadLocal \/ Jump \/ JumpIfFalse
    \/ Call \/ Ret \/ Halt \/ Throw
    \/ Raise \/ Exhaust

\* The evaluation has ended.
Done == ~Running /\ UNCHANGED vmVars

Next == Step \/ Done

Init == \E p \in Program : InitVM(p)

Spec == Init /\ [][Next]_vmVars

-----------------------------------------------------------------------------

TypeOK ==
    /\ ip \in Nat
    /\ stack \in Seq(Value) /\ Len(stack) <= MaxStack
    /\ locals \in Seq(Value)
    /\ frames \in Seq(Frame) /\ Len(frames) <= MaxCallDepth
    /\ base \in Nat
    /\ iterations \in 0 .. MaxIterations + 1
    /\ result \in Seq(Value) /\ Len(result) <= 1

-----------------------------------------------------------------------------
\* Balanced code.  d[i] is how many values the activation that runs instruction
\* i has on the stack before it, or Unreached; the first k instructions are the
\* driver's, the others those of functions.

Unreached == -1

\* The instructions that may come after the i-th: a call counts as one step.
Follows(p, i) ==
    LET c == p.code[i]
    IN  CASE c.op = "JMP"                      -> {c.n}
          [] c.op = "JMP_IF_FALSE"             -> {i + 1, c.n}
          [] c.op \in {"RET", "HALT", "THROW"} -> {}
          [] OTHER                             -> {i + 1}

\* What instruction c of p takes, whether or not a call is made, and puts back.
Pops(p, c) ==
    CASE c.op \in {"POP", "NEG_INT", "STORE_LOCAL", "JMP_IF_FALSE", "RET"} \cup UnaryOps -> 1
      [] c.op \in ArithmeticOps \cup DivisionOps \cup ComparisonOps \cup BitOps
                  \cup LogicOps -> 2
      [] c.op = "CALL" /\ c.n \in 1 .. Len(p.functions) -> p.functions[c.n].numParams
      [] OTHER -> 0

Pushes(c) == IF c.op \in {"POP", "STORE_LOCAL", "JMP", "JMP_IF_FALSE"} THEN 0 ELSE 1

BalancedBy(p, d, k) ==
    LET positions == 1 .. Len(p.code)
    IN  /\ d \in [positions -> Nat \cup {Unreached}]
        /\ k \in positions /\ d[1] = 0
        /\ \A f \in 1 .. Len(p.functions) :
              LET start == p.functions[f].codeStart
              IN  start # 0 => start \in positions /\ start > k /\ d[start] = 0
        /\ \A i \in positions : d[i] # Unreached =>
              /\ d[i] >= Pops(p, p.code[i])
              /\ p.code[i].op = "RET" => i > k /\ d[i] = 1
              /\ p.code[i].op = "HALT" => i <= k /\ d[i] = 1
              /\ \A j \in Follows(p, i) :
                    /\ j \in positions /\ (j <= k) = (i <= k)
                    /\ d[j] = d[i] - Pops(p, p.code[i]) + Pushes(p.code[i])

Balanced(p) == \E d, k : BalancedBy(p, d, k)

\* The machine always has an instruction to run and the operands it takes, and
\* ends, outside all calls, with one value (ConstVM::execute, push and pop).
OperandsThere ==
    /\ Running => Fetched /\ ~Underflows
    /\ Fetched /\ Instr.op = "HALT" => frames = <<>> /\ Len(stack) = 1
    /\ Len(stack) <= MaxStack
-----------------------------------------------------------------------------
\* The locals of calls that are open.

\* How many locals the function has that the i-th instruction is of: none for
\* the driver's.
LocalsAt(p) ==
    [i \in 1 .. Len(p.code) |->
        LET before == {f \in 1 .. Len(p.functions) : p.functions[f].codeStart \in 1 .. i}
        IN  IF before = {} THEN 0
            ELSE p.functions[CHOOSE f \in before : \A g \in before :
                                p.functions[g].codeStart <= p.functions[f].codeStart].numLocals]

\* The code stays in its function and uses the slots of that function, and no
\* function calls one with fewer locals: RET cuts the locals to as many as the
\* callee had, counted from the caller's base.
LocalsKept(p) ==
    LET positions == 1 .. Len(p.code)
        n == LocalsAt(p)
    IN  /\ 1 \in positions /\ n \in [positions -> Nat] /\ n[1] = 0
        /\ \A f \in 1 .. Len(p.functions) :
              LET start == p.functions[f].codeStart
              IN  start # 0 => start \in positions /\ n[start] = p.functions[f].numLocals
        /\ \A i \in positions :
              /\ \A j \in Follows(p, i) : j \in positions /\ n[j] = n[i]
              /\ p.code[i].op \in {"LOAD_LOCAL", "STORE_LOCAL"} => p.code[i].n < n[i]
              /\ p.code[i].op = "CALL" /\ p.code[i].n \in 1 .. Len(p.functions) =>
                    n[i] <= p.functions[p.code[i].n].numLocals

\* Every frame returns to just behind a call and holds what that call needs, and
\* the bases rise (ConstVM::execute, CALL and RET).  Where no function calls one
\* with fewer locals, the locals of the open calls lie apart, each call's below
\* the base of the one it made, and all of them are there: no activation reads
\* or writes the locals of another.
FramesNested ==
    LET Above(i) == IF i = Len(frames) THEN base ELSE frames[i + 1].localsBase
        n == LocalsAt(program)
    IN  /\ base <= Len(locals)
        /\ \A i \in 1 .. Len(frames) :
              /\ frames[i].localsBase <= Above(i)
              /\ frames[i].returnIP - 1 \in 1 .. Len(program.code)
              /\ LET c == program.code[frames[i].returnIP - 1]
                 IN  /\ c.op = "CALL" /\ c.n \in 1 .. Len(program.functions)
                     /\ frames[i].numLocals = program.functions[c.n].numLocals
        /\ LocalsKept(program) =>
              /\ base + n[ip] <= Len(locals)
              /\ \A i \in 1 .. Len(frames) :
                    frames[i].localsBase + n[frames[i].returnIP - 1] <= Above(i)
=============================================================================
