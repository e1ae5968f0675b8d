--------------------------- MODULE ConstVMProofs ---------------------------
(***************************************************************************)
(* Proofs about the stack machine of the compile-time evaluator, for any   *)
(* program and any limits.  The values are of no importance here: a frame  *)
(* is right because only CALL makes one, at an instruction of the program, *)
(* and because the locals of a call begin where all others end.  The       *)
(* second part is about balanced code, for which the height of the stack   *)
(* is known at every instruction and below every frame.                    *)
(***************************************************************************)
EXTENDS ConstVM, TLAPS

-----------------------------------------------------------------------------
(***************************************************************************)
(* The inductive invariant                                                 *)
(***************************************************************************)

MachineOK ==
    /\ program \in Program
    /\ ip \in Nat \ {0}
    /\ base \in Nat
    /\ Len(locals) \in Nat /\ DOMAIN locals = 1 .. Len(locals)
    /\ frames \in Seq(Frame)

\* Frame f belongs to a call of the program, and to locals below the limit.
FrameOK(f, limit) ==
    /\ f.localsBase <= limit
    /\ f.returnIP - 1 \in 1 .. Len(program.code)
    /\ program.code[f.returnIP - 1].op = "CALL"
    /\ program.code[f.returnIP - 1].n \in 1 .. Len(program.functions)
    /\ f.numLocals
          = program.functions[program.code[f.returnIP - 1].n].numLocals

\* The base of the activation that frame i of fs has called; b is that of the
\* last one.
BaseAbove(fs, i, b) == IF i = Len(fs) THEN b ELSE fs[i + 1].localsBase

FramesOK(fs, b) == \A i \in 1 .. Len(fs) : FrameOK(fs[i], BaseAbove(fs, i, b))

Inv ==
    /\ MachineOK
    /\ base <= Len(locals)
    /\ FramesOK(frames, base)

-----------------------------------------------------------------------------
(***************************************************************************)
(* Sequences                                                               *)
(***************************************************************************)

LEMMA Lengths ==
    ASSUME NEW s, NEW n \in Nat, DOMAIN s = 1 .. n
    PROVE  Len(s) = n
OBVIOUS

LEMMA PushFrame ==
    ASSUME MachineOK, NEW f \in Frame, NEW b,
           FramesOK(frames, f.localsBase), FrameOK(f, b)
    PROVE  FramesOK(Append(frames, f), b)
<1> DEFINE fs == Append(frames, f)
           n == Len(frames)
<1>1. /\ frames \in Seq(Frame) /\ n \in Nat /\ Len(fs) = n + 1
      /\ fs[n + 1] = f /\ \A i \in 1 .. n : fs[i] = frames[i]
  BY DEF MachineOK
<1> HIDE DEF fs
<1>2. ASSUME NEW i \in 1 .. n
      PROVE  FrameOK(fs[i], BaseAbove(fs, i, b))
  <2>1. BaseAbove(fs, i, b) = BaseAbove(frames, i, f.localsBase)
    <3>1. CASE i = n
      BY <1>1, <3>1 DEF BaseAbove
    <3>2. CASE i # n
      <4>1. i + 1 \in 1 .. n /\ i # n + 1
        BY <1>1, <3>2
      <4> QED
        BY <1>1, <3>2, <4>1 DEF BaseAbove
    <3> QED
      BY <3>1, <3>2
  <2>2. FrameOK(frames[i], BaseAbove(frames, i, f.localsBase))
    BY DEF FramesOK
  <2> QED
    BY <1>1, <2>1, <2>2
<1>3. FrameOK(fs[n + 1], BaseAbove(fs, n + 1, b))
  BY <1>1 DEF BaseAbove
<1>4. \A i \in 1 .. n + 1 : i \in 1 .. n \/ i = n + 1
  BY <1>1
<1>5. FramesOK(fs, b)
  BY <1>1, <1>2, <1>3, <1>4 DEF FramesOK
<1> QED
  BY <1>5 DEF fs

LEMMA AllButLast ==
    ASSUME NEW S, NEW s \in Seq(S), Len(s) # 0
    PROVE  /\ SubSeq(s, 1, Len(s) - 1) \in Seq(S)
           /\ Len(SubSeq(s, 1, Len(s) - 1)) = Len(s) - 1
           /\ \A i \in 1 .. Len(s) - 1 : SubSeq(s, 1, Len(s) - 1)[i] = s[i]
<1> DEFINE n == Len(s) - 1
<1>1. n \in Nat /\ \A i \in 1 .. n : s[i] \in S
  OBVIOUS
<1>2. SubSeq(s, 1, n) = [i \in 1 .. n |-> s[i]]
  BY <1>1
<1>3. SubSeq(s, 1, n) \in Seq(S)
  BY <1>1, <1>2
<1>4. Len(SubSeq(s, 1, n)) = n
  BY <1>1, <1>2, Lengths
<1> QED
  BY <1>2, <1>3, <1>4

LEMMA PopFrame ==
    ASSUME MachineOK, frames # <<>>, FramesOK(frames, base)
    PROVE  /\ Len(frames) \in Nat \ {0}
           /\ frames[Len(frames)] \in Frame
           /\ FrameOK(frames[Len(frames)], base)
           /\ SubSeq(frames, 1, Len(frames) - 1) \in Seq(Frame)
           /\ FramesOK(SubSeq(frames, 1, Len(frames) - 1),
                       frames[Len(frames)].localsBase)
<1> DEFINE n == Len(frames)
           fs == SubSeq(frames, 1, n - 1)
<1>1. frames \in Seq(Frame) /\ n \in Nat \ {0} /\ frames[n] \in Frame
  <2>1. frames \in Seq(Frame) /\ n \in Nat
    BY DEF MachineOK
  <2>2. n # 0
    BY <2>1
  <2> QED
    BY <2>1, <2>2
<1>2. /\ fs \in Seq(Frame) /\ Len(fs) = n - 1
      /\ \A i \in 1 .. n - 1 : fs[i] = frames[i]
  BY <1>1, AllButLast
<1>3. FrameOK(frames[n], base)
  BY <1>1 DEF FramesOK, BaseAbove
<1> HIDE DEF fs
<1>4. ASSUME NEW i \in 1 .. n - 1
      PROVE  FrameOK(fs[i], BaseAbove(fs, i, frames[n].localsBase))
  <2>1. BaseAbove(fs, i, frames[n].localsBase) = BaseAbove(frames, i, base)
    <3>1. CASE i = n - 1
      BY <1>1, <1>2, <3>1 DEF BaseAbove
    <3>2. CASE i # n - 1
      <4>1. i + 1 \in 1 .. n - 1 /\ i # n
        BY <1>1, <3>2
      <4> QED
        BY <1>2, <3>2, <4>1 DEF BaseAbove
    <3> QED
      BY <3>1, <3>2
  <2>2. i \in 1 .. n
    BY <1>1
  <2> QED
    BY <1>2, <2>1, <2>2 DEF FramesOK
<1>5. FramesOK(fs, frames[n].localsBase)
  BY <1>2, <1>4 DEF FramesOK
<1> QED
  BY <1>1, <1>2, <1>3, <1>5 DEF fs

-----------------------------------------------------------------------------
(***************************************************************************)
(* The instructions                                                        *)
(***************************************************************************)

\* A step that makes and ends no call keeps the frames, and does not take
\* locals away.
LEMMA QuietStep ==
    ASSUME Inv, UNCHANGED <<program, frames, base>>, ip' \in Nat \ {0},
           Len(locals') \in Nat /\ DOMAIN locals' = 1 .. Len(locals'),
           Len(locals) <= Len(locals')
    PROVE  Inv'
<1>1. program' = program /\ frames' = frames /\ base' = base
  OBVIOUS
<1>2. MachineOK'
  BY <1>1 DEF Inv, MachineOK
<1>3. (base <= Len(locals))'
  BY <1>1 DEF Inv, MachineOK
<1>4. FramesOK(frames, base)'
  BY <1>1 DEF Inv, FramesOK, FrameOK, BaseAbove
<1> QED
  BY <1>2, <1>3, <1>4 DEF Inv

LEMMA SameLocals ==
    ASSUME Inv, UNCHANGED <<program, frames, base, locals>>,
           ip' \in Nat \ {0}
    PROVE  Inv'
<1>1. locals' = locals /\ Len(locals) \in Nat
      /\ DOMAIN locals = 1 .. Len(locals)
  BY DEF Inv, MachineOK
<1> QED
  BY <1>1, QuietStep

\* What the instruction that is fetched is.
LEMMA Fetch ==
    ASSUME Inv, Fetched
    PROVE  /\ ip \in 1 .. Len(program.code) /\ ip + 1 \in Nat \ {0}
           /\ Instr.op \in {"STORE_LOCAL", "LOAD_LOCAL", "CALL"}
                 => Instr.n \in Nat
           /\ Instr.op \in {"JMP", "JMP_IF_FALSE"} => Instr.n \in Nat \ {0}
<1>1. /\ program \in Program /\ ip \in Nat \ {0}
  BY DEF Inv, MachineOK
<1>2. Len(program.code) \in Nat
  BY <1>1, ProgramAssumption
<1>3. ip \in 1 .. Len(program.code)
  BY <1>1, <1>2 DEF Fetched
<1> QED
  BY <1>1, <1>3, ProgramAssumption DEF Instr

LEMMA StoresOK ==
    ASSUME Inv, StoreLocal
    PROVE  Inv' /\ Len(locals) <= Len(locals')
<1>1. /\ Fetched /\ Instr.op = "STORE_LOCAL" /\ program' = program
  BY DEF StoreLocal, Executes
<1>2. ip + 1 \in Nat \ {0} /\ Instr.n \in Nat /\ ip \in Nat \ {0}
  BY <1>1, Fetch DEF Inv, MachineOK
<1>3. /\ base \in Nat /\ Len(locals) \in Nat /\ Slack \in Nat \ {0}
      /\ DOMAIN locals = 1 .. Len(locals)
  BY VMAssumption DEF Inv, MachineOK
<1> DEFINE slot == base + Instr.n
           zero == MakeInt(0, Narrow, TRUE)
           grown == IF slot >= Len(locals)
                    THEN Resize(locals, slot + Slack, zero)
                    ELSE locals
<1>4. \/ UNCHANGED <<ip, locals, frames, base>>
      \/ /\ locals' = [grown EXCEPT ![slot + 1] = Top]
         /\ ip' = ip + 1 /\ UNCHANGED <<frames, base>>
  BY DEF StoreLocal, Return
<1>5. slot \in Nat /\ slot + Slack \in Nat
  BY <1>2, <1>3
<1> HIDE DEF slot, zero
<1>6. /\ DOMAIN grown = 1 .. Len(grown) /\ Len(grown) \in Nat
      /\ Len(locals) <= Len(grown)
  <2>1. CASE slot >= Len(locals)
    <3>1. DOMAIN grown = 1 .. slot + Slack
      BY <2>1 DEF Resize
    <3>2. Len(grown) = slot + Slack
      BY <1>5, <3>1, Lengths
    <3> HIDE DEF grown
    <3> QED
      BY <1>3, <1>5, <2>1, <3>1, <3>2
  <2>2. CASE ~(slot >= Len(locals))
    BY <1>3, <2>2
  <2> QED
    BY <2>1, <2>2
<1> HIDE DEF grown
<1>7. CASE UNCHANGED <<ip, locals, frames, base>>
  BY <1>1, <1>2, <1>3, <1>7, SameLocals
<1>8. CASE /\ locals' = [grown EXCEPT ![slot + 1] = Top]
           /\ ip' = ip + 1 /\ UNCHANGED <<frames, base>>
  <2>1. DOMAIN locals' = 1 .. Len(grown)
    BY <1>6, <1>8
  <2>2. Len(locals') = Len(grown)
    BY <1>6, <2>1, Lengths
  <2> QED
    BY <1>1, <1>2, <1>6, <1>8, <2>1, <2>2, QuietStep
<1> QED
  BY <1>4, <1>7, <1>8

\* CALL makes a frame for itself.
LEMMA CallsOK ==
    ASSUME Inv, Call
    PROVE  Inv'
<1>1. Fetched /\ Instr.op = "CALL" /\ program' = program
  BY DEF Call, Executes
<1>2. /\ ip \in 1 .. Len(program.code) /\ ip + 1 \in Nat \ {0}
      /\ ip \in Nat \ {0}
  BY <1>1, Fetch DEF Inv, MachineOK
<1>3. CASE ~MayCall(Instr.n)
  BY <1>1, <1>2, <1>3, SameLocals DEF Call, Return
<1>4. CASE MayCall(Instr.n)
  <2> DEFINE f == program.functions[Instr.n]
             frame == [returnIP |-> ip + 1, localsBase |-> base,
                       numLocals |-> f.numLocals]
  <2>1. /\ Instr.n \in 1 .. Len(program.functions) /\ f.codeStart # 0
    BY <1>4 DEF MayCall
  <2>2. f \in Function
    <3>1. program.functions \in Seq(Function)
      BY ProgramAssumption DEF Inv, MachineOK
    <3> QED
      BY <2>1, <3>1
  <2>3. f.codeStart \in Nat \ {0} /\ f.numLocals \in Nat
    BY <2>1, <2>2 DEF Function
  <2>4. /\ frames' = Append(frames, frame)
        /\ ip' = f.codeStart /\ base' = Len(locals)
        /\ DOMAIN locals' = 1 .. Len(locals) + f.numLocals
    BY <1>4 DEF Call, Enter
  <2>5. Instr.op = "CALL" /\ Instr = program.code[(ip + 1) - 1]
    BY <1>1, <1>2 DEF Instr
  <2>6. /\ frame.returnIP = ip + 1 /\ frame.localsBase = base
        /\ frame.numLocals = f.numLocals
    OBVIOUS
  <2>7. f = program.functions[program.code[(ip + 1) - 1].n]
    BY <2>5
  <2>8. /\ MachineOK /\ base \in Nat /\ Len(locals) \in Nat
        /\ base <= Len(locals) /\ FramesOK(frames, base)
        /\ frames \in Seq(Frame)
    BY DEF Inv, MachineOK
  <2>9. frame \in Frame
    BY <1>2, <2>3, <2>8 DEF Frame
  <2> HIDE DEF f, frame
  <2>10. (ip + 1) - 1 = ip
    BY <1>2
  <2>11. FrameOK(frame, Len(locals))
    BY <1>2, <2>1, <2>5, <2>6, <2>7, <2>8, <2>10 DEF FrameOK
  <2>12. FramesOK(Append(frames, frame), Len(locals))
    BY <2>6, <2>8, <2>9, <2>11, PushFrame
  <2>13. Len(locals') = Len(locals) + f.numLocals
    BY <2>3, <2>4, <2>8, Lengths
  <2>14. MachineOK' /\ (base <= Len(locals))'
    <3>1. Append(frames, frame) \in Seq(Frame)
      BY <2>8, <2>9
    <3>2. Len(locals') \in Nat /\ Len(locals) <= Len(locals')
      BY <2>3, <2>8, <2>13
    <3> QED
      BY <1>1, <2>3, <2>4, <2>8, <2>13, <3>1, <3>2 DEF MachineOK
  <2>15. FramesOK(frames, base)'
    BY <1>1, <2>4, <2>12 DEF FramesOK, FrameOK, BaseAbove
  <2> QED
    BY <2>14, <2>15 DEF Inv
<1> QED
  BY <1>3, <1>4

\* RET goes back to the base of the caller.
LEMMA RetsOK ==
    ASSUME Inv, Ret
    PROVE  Inv'
<1>1. Fetched /\ program' = program
  BY DEF Ret, Executes
<1>2. ip \in Nat \ {0} /\ MachineOK /\ FramesOK(frames, base)
  BY DEF Inv, MachineOK
<1>3. CASE frames = <<>>
  BY <1>1, <1>2, <1>3, SameLocals DEF Ret, Return
<1>4. CASE frames # <<>>
  <2> DEFINE frame == frames[Len(frames)]
             fs == SubSeq(frames, 1, Len(frames) - 1)
             n == frame.localsBase + frame.numLocals
  <2>1. /\ frame \in Frame /\ FrameOK(frame, base) /\ fs \in Seq(Frame)
        /\ FramesOK(fs, frame.localsBase)
    BY <1>2, <1>4, PopFrame
  <2>2. /\ frame.localsBase \in Nat /\ frame.numLocals \in Nat
        /\ frame.returnIP \in Nat
    BY <2>1 DEF Frame
  <2>3. frame.returnIP \in Nat \ {0}
    BY <2>1, <2>2 DEF FrameOK
  <2>4. /\ frames' = fs /\ ip' = frame.returnIP
        /\ base' = frame.localsBase /\ DOMAIN locals' = 1 .. n
    BY <1>4 DEF Ret, Leave, Resize
  <2>5. n \in Nat /\ frame.localsBase <= n
    BY <2>2
  <2> HIDE DEF frame, fs, n
  <2>6. Len(locals') = n
    BY <2>4, <2>5, Lengths
  <2>7. MachineOK' /\ (base <= Len(locals))'
    BY <1>1, <1>2, <2>1, <2>2, <2>3, <2>4, <2>5, <2>6 DEF MachineOK
  <2>8. FramesOK(frames, base)'
    BY <1>1, <2>1, <2>4 DEF FramesOK, FrameOK, BaseAbove
  <2> QED
    BY <2>7, <2>8 DEF Inv
<1> QED
  BY <1>3, <1>4

LEMMA StepsOK ==
    ASSUME Inv, Next
    PROVE  Inv'
<1>1. ip \in Nat \ {0}
  BY DEF Inv, MachineOK
<1>2. ASSUME NEW ops, Executes(ops) PROVE Fetched /\ program' = program
  BY <1>2 DEF Executes
<1>3. ASSUME program' = program, NEW v, Return(v) PROVE Inv'
  BY <1>1, <1>3, SameLocals DEF Return
<1>4. ASSUME Fetched, program' = program, NEW n, NEW v, Replace(n, v)
      PROVE  Inv'
  BY <1>4, Fetch, SameLocals DEF Replace
<1>5. CASE Push
  BY <1>2, <1>4, <1>5 DEF Push
<1>6. CASE Pop
  BY <1>2, <1>6, Fetch, SameLocals DEF Pop
<1>7. CASE Binary
  BY <1>2, <1>4, <1>7 DEF Binary
<1>8. CASE Divide
  BY <1>2, <1>3, <1>4, <1>8 DEF Divide
<1>9. CASE Negate
  BY <1>2, <1>3, <1>4, <1>9 DEF Negate
<1>10. CASE Convert
  BY <1>2, <1>4, <1>10 DEF Convert
<1>11. CASE StoreLocal
  BY <1>11, StoresOK
<1>12. CASE LoadLocal
  BY <1>2, <1>3, <1>4, <1>12 DEF LoadLocal
<1>13. CASE Jump
  <2>1. Fetched /\ program' = program /\ Instr.op = "JMP"
    BY <1>13 DEF Jump, Executes
  <2> QED
    BY <1>13, <2>1, Fetch, SameLocals DEF Jump
<1>14. CASE JumpIfFalse
  <2>1. Fetched /\ program' = program /\ Instr.op = "JMP_IF_FALSE"
    BY <1>14 DEF JumpIfFalse, Executes
  <2>2. ip' \in {ip + 1, Instr.n}
    BY <1>14 DEF JumpIfFalse
  <2> QED
    BY <1>14, <2>1, <2>2, Fetch, SameLocals DEF JumpIfFalse
<1>15. CASE Call
  BY <1>15, CallsOK
<1>16. CASE Ret
  BY <1>16, RetsOK
<1>17. CASE Halt \/ Throw \/ Raise
  BY <1>2, <1>3, <1>17 DEF Halt, Throw, Raise
<1>18. CASE Exhaust
  BY <1>3, <1>18 DEF Exhaust
<1>19. CASE Done
  BY <1>1, <1>19, SameLocals DEF Done, vmVars
<1> QED
  BY <1>5, <1>6, <1>7, <1>8, <1>9, <1>10, <1>11, <1>12, <1>13, <1>14, <1>15,
     <1>16, <1>17, <1>18, <1>19 DEF Next, Step

LEMMA StartOK ==
    ASSUME Init
    PROVE  Inv
<1>1. /\ program \in Program /\ ip = 1 /\ base = 0 /\ frames = <<>>
      /\ DOMAIN locals = 1 .. InitialLocals
  BY DEF Init, InitVM
<1>2. InitialLocals \in Nat
  BY VMAssumption
<1>3. Len(locals) = InitialLocals
  BY <1>1, <1>2, Lengths
<1>4. frames \in Seq(Frame) /\ Len(frames) = 0
  BY <1>1
<1> QED
  BY <1>1, <1>2, <1>3, <1>4 DEF Inv, MachineOK, FramesOK

-----------------------------------------------------------------------------
(***************************************************************************)
(* Balanced code: the height of the stack                                  *)
(***************************************************************************)

\* hs[i + 1] is the height of the stack below the activation that frame i has
\* called: what its caller had, less the arguments.
CallHeight(d, k, hs, i) ==
    LET c == frames[i].returnIP - 1
    IN  /\ d[c] # Unreached /\ (c <= k) = (i = 1)
        /\ hs[i + 1] = hs[i] + d[c] - Pops(program, program.code[c])

Heights(d, k, hs) ==
    /\ ip \in 1 .. Len(program.code) /\ d[ip] # Unreached
    /\ (ip <= k) = (Len(frames) = 0)
    /\ hs \in [1 .. Len(frames) + 1 -> Nat] /\ hs[1] = 0
    /\ \A i \in 1 .. Len(frames) : CallHeight(d, k, hs, i)
    /\ Len(stack) = hs[Len(frames) + 1] + d[ip]

StackOK == (\E S : stack \in Seq(S)) /\ Len(stack) <= MaxStack

BalancedInv ==
    /\ Inv /\ StackOK
    /\ Balanced(program) =>
          \E d, k, hs : BalancedBy(program, d, k) /\ Heights(d, k, hs)

LEMMA DropFacts ==
    ASSUME NEW S, stack \in Seq(S), NEW n \in 0 .. Len(stack)
    PROVE  Drop(n) \in Seq(S) /\ Len(Drop(n)) = Len(stack) - n
<1> DEFINE m == Len(stack) - n
<1>1. m \in Nat /\ \A i \in 1 .. m : stack[i] \in S
  OBVIOUS
<1>2. SubSeq(stack, 1, m) = [i \in 1 .. m |-> stack[i]]
  BY <1>1
<1>3. SubSeq(stack, 1, m) \in Seq(S)
  BY <1>1, <1>2
<1>4. Len(SubSeq(stack, 1, m)) = m
  BY <1>1, <1>2, Lengths
<1> QED
  BY <1>3, <1>4 DEF Drop

LEMMA ReplaceFacts ==
    ASSUME StackOK, NEW n \in 0 .. Len(stack), NEW v, Replace(n, v)
    PROVE  (\E S : stack' \in Seq(S)) /\ Len(stack') = Len(stack) - n + 1
<1>1. PICK S : stack \in Seq(S)
  BY DEF StackOK
<1>2. Drop(n) \in Seq(S) /\ Len(Drop(n)) = Len(stack) - n
  BY <1>1, DropFacts
<1>3. Drop(n) \in Seq(S \cup {v}) /\ v \in S \cup {v} /\ stack' = Append(Drop(n), v)
  BY <1>2 DEF Replace
<1> DEFINE T == S \cup {v}
<1> HIDE DEF T
<1>4. stack' \in Seq(T) /\ Len(stack') = Len(Drop(n)) + 1
  BY <1>3 DEF T
<1>5. Len(stack) \in Nat
  BY <1>1
<1> QED
  BY <1>2, <1>4, <1>5

\* What the instructions take, put back and lead to.
LEMMA OneResult ==
    ASSUME NEW p, NEW i
    PROVE  /\ p.code[i].op \in PushOps \cup {"LOAD_LOCAL"} =>
                 Pops(p, p.code[i]) = 0 /\ Pushes(p.code[i]) = 1 /\ Follows(p, i) = {i + 1}
           /\ p.code[i].op \in {"NEG_INT"} \cup UnaryOps =>
                 Pops(p, p.code[i]) = 1 /\ Pushes(p.code[i]) = 1 /\ Follows(p, i) = {i + 1}
<1> DEFINE c == p.code[i]
<1>1. ASSUME c.op \in PushOps \cup {"LOAD_LOCAL"}
      PROVE  Pops(p, c) = 0 /\ Pushes(c) = 1 /\ Follows(p, i) = {i + 1}
  <2>1. c.op \notin {"POP", "NEG_INT", "STORE_LOCAL", "JMP_IF_FALSE", "RET"} \cup UnaryOps
    BY <1>1 DEF UnaryOps, PushOps
  <2>2. c.op \notin ArithmeticOps \cup DivisionOps \cup ComparisonOps \cup BitOps \cup LogicOps
    BY <1>1 DEF ArithmeticOps, DivisionOps, ComparisonOps, BitOps, LogicOps, PushOps
  <2>3. c.op \notin {"POP", "STORE_LOCAL", "JMP", "JMP_IF_FALSE", "RET", "HALT", "THROW", "CALL"}
    BY <1>1 DEF PushOps
  <2>4. Pops(p, c) = 0
    BY <2>1, <2>2, <2>3 DEF Pops
  <2> QED
    BY <2>3, <2>4 DEF Pushes, Follows
<1>2. ASSUME c.op \in {"NEG_INT"} \cup UnaryOps
      PROVE  Pops(p, c) = 1 /\ Pushes(c) = 1 /\ Follows(p, i) = {i + 1}
  <2>1. c.op \in {"POP", "NEG_INT", "STORE_LOCAL", "JMP_IF_FALSE", "RET"} \cup UnaryOps
    BY <1>2
  <2>2. c.op \notin ArithmeticOps \cup DivisionOps \cup ComparisonOps \cup BitOps \cup LogicOps
    BY <1>2 DEF ArithmeticOps, DivisionOps, ComparisonOps, BitOps, LogicOps, UnaryOps
  <2>3. c.op \notin {"POP", "STORE_LOCAL", "JMP", "JMP_IF_FALSE", "RET", "HALT", "THROW", "CALL"}
    BY <1>2 DEF UnaryOps
  <2>4. Pops(p, c) = 1
    BY <2>1, <2>2, <2>3 DEF Pops
  <2> QED
    BY <2>3, <2>4 DEF Pushes, Follows
<1> QED
  BY <1>1, <1>2

LEMMA TwoOperands ==
    ASSUME NEW p, NEW i,
           p.code[i].op \in ArithmeticOps \cup DivisionOps \cup ComparisonOps \cup BitOps
                            \cup LogicOps
    PROVE  Pops(p, p.code[i]) = 2 /\ Pushes(p.code[i]) = 1 /\ Follows(p, i) = {i + 1}
<1> DEFINE c == p.code[i]
<1>1. c.op \notin {"POP", "NEG_INT", "STORE_LOCAL", "JMP_IF_FALSE", "RET"} \cup UnaryOps
  BY DEF UnaryOps, ArithmeticOps, DivisionOps, ComparisonOps, BitOps, LogicOps
<1>2. c.op \notin {"POP", "STORE_LOCAL", "JMP", "JMP_IF_FALSE", "RET", "HALT", "THROW"}
  BY DEF ArithmeticOps, DivisionOps, ComparisonOps, BitOps, LogicOps
<1>3. c.op # "CALL"
  BY DEF ArithmeticOps, DivisionOps, ComparisonOps, BitOps, LogicOps
<1>4. Pops(p, c) = 2
  BY <1>1, <1>3 DEF Pops
<1> QED
  BY <1>2, <1>4 DEF Pushes, Follows

LEMMA OtherEffects ==
    ASSUME NEW p, NEW i
    PROVE  /\ p.code[i].op \in {"POP", "STORE_LOCAL"} =>
                 Pops(p, p.code[i]) = 1 /\ Pushes(p.code[i]) = 0 /\ Follows(p, i) = {i + 1}
           /\ p.code[i].op = "JMP" => /\ Pops(p, p.code[i]) = 0 /\ Pushes(p.code[i]) = 0
                                      /\ Follows(p, i) = {p.code[i].n}
           /\ p.code[i].op = "JMP_IF_FALSE" =>
                 /\ Pops(p, p.code[i]) = 1 /\ Pushes(p.code[i]) = 0
                 /\ Follows(p, i) = {i + 1, p.code[i].n}
           /\ p.code[i].op = "RET" => Pops(p, p.code[i]) = 1
           /\ p.code[i].op = "CALL" /\ p.code[i].n \in 1 .. Len(p.functions) =>
                 /\ Pops(p, p.code[i]) = p.functions[p.code[i].n].numParams
                 /\ Pushes(p.code[i]) = 1 /\ Follows(p, i) = {i + 1}
BY DEF Pops, Pushes, Follows, UnaryOps, ArithmeticOps, DivisionOps, ComparisonOps, BitOps, LogicOps

\* What an instruction takes, a call too, is a number.
LEMMA PopsNumber ==
    ASSUME Inv, NEW i \in 1 .. Len(program.code)
    PROVE  /\ Pops(program, program.code[i]) \in Nat
           /\ Pushes(program.code[i]) \in 0 .. 1
<1> DEFINE c == program.code[i]
<1>1. program.functions \in Seq(Function)
  BY ProgramAssumption DEF Inv, MachineOK
<1>2. ASSUME c.n \in 1 .. Len(program.functions)
      PROVE  program.functions[c.n].numParams \in Nat
  <2>1. program.functions[c.n] \in Function
    BY <1>1, <1>2
  <2> QED
    BY <2>1 DEF Function
<1>3. \/ Pops(program, c) \in {0, 1, 2}
      \/ /\ c.n \in 1 .. Len(program.functions)
         /\ Pops(program, c) = program.functions[c.n].numParams
  BY DEF Pops
<1>4. Pops(program, c) \in Nat
  BY <1>2, <1>3
<1> QED
  BY <1>4 DEF Pushes

\* One instruction that makes and ends no call.
LEMMA LocalStep ==
    ASSUME Inv, Fetched, program' = program, frames' = frames,
           NEW d, NEW k, NEW hs, BalancedBy(program, d, k), Heights(d, k, hs),
           ip' \in Follows(program, ip),
           Len(stack') = Len(stack) - Pops(program, Instr) + Pushes(Instr)
    PROVE  Heights(d, k, hs)'
<1> DEFINE c == program.code[ip]
           h == hs[Len(frames) + 1]
           a == Pops(program, c)
           b == Pushes(c)
<1>1. /\ ip \in 1 .. Len(program.code) /\ d[ip] # Unreached
      /\ (ip <= k) = (Len(frames) = 0)
      /\ hs \in [1 .. Len(frames) + 1 -> Nat] /\ hs[1] = 0
      /\ \A i \in 1 .. Len(frames) : CallHeight(d, k, hs, i)
      /\ Len(stack) = h + d[ip]
  BY DEF Heights
<1>2. /\ ip' \in 1 .. Len(program.code) /\ (ip' <= k) = (ip <= k)
      /\ d[ip'] = d[ip] - a + b
      /\ d[ip] \in Nat /\ d[ip] >= a
  <2>1. /\ d \in [1 .. Len(program.code) -> Nat \cup {Unreached}]
        /\ d[ip] >= a
        /\ \A j \in Follows(program, ip) :
              /\ j \in 1 .. Len(program.code) /\ (j <= k) = (ip <= k)
              /\ d[j] = d[ip] - a + b
    BY <1>1 DEF BalancedBy
  <2> QED
    BY <1>1, <2>1
<1>3. a \in Nat /\ b \in 0 .. 1
  BY <1>1, PopsNumber
<1>4. h \in Nat
  <2>1. Len(frames) \in Nat
    BY DEF Inv, MachineOK
  <2>2. Len(frames) + 1 \in 1 .. Len(frames) + 1
    BY <2>1
  <2> QED
    BY <1>1, <2>2
<1>5. Len(stack') = Len(stack) - a + b
  BY DEF Instr
<1> HIDE DEF a, b, h
<1>6. Len(stack') = h + d[ip'] /\ d[ip'] # Unreached
  <2>1. PICK x \in Nat, y \in Int : x = d[ip] /\ y = d[ip']
    <3>1. PICK x \in Nat : x = d[ip]
      BY <1>2
    <3>2. d[ip'] = x - a + b /\ x - a + b \in Int
      BY <1>2, <1>3, <3>1
    <3> QED
      BY <3>1, <3>2
  <2>2. /\ Len(stack') = (h + x) - a + b /\ y = x - a + b /\ x >= a
    BY <1>1, <1>2, <1>5, <2>1
  <2>3. h + y = (h + x) - a + b /\ y # -1
    BY <1>3, <1>4, <2>2
  <2> QED
    BY <2>1, <2>2, <2>3 DEF Unreached
<1>7. \A i \in 1 .. Len(frames) : CallHeight(d, k, hs, i)'
  BY <1>1 DEF CallHeight
<1> QED
  BY <1>1, <1>2, <1>6, <1>7 DEF Heights, h

LEMMA Advance ==
    ASSUME BalancedInv, Inv', Fetched, program' = program, frames' = frames,
           ip' \in Follows(program, ip), \E S : stack' \in Seq(S),
           Len(stack') = Len(stack) - Pops(program, Instr) + Pushes(Instr),
           Len(stack') <= MaxStack
    PROVE  BalancedInv'
<1>1. StackOK'
  BY DEF StackOK
<1>2. ASSUME Balanced(program)'
      PROVE  \E d, k, hs : (BalancedBy(program, d, k) /\ Heights(d, k, hs))'
  <2>1. Inv /\ Balanced(program)
    BY <1>2 DEF BalancedInv
  <2>2. PICK d, k, hs : BalancedBy(program, d, k) /\ Heights(d, k, hs)
    BY <2>1 DEF BalancedInv
  <2>3. Heights(d, k, hs)'
    BY <2>1, <2>2, LocalStep
  <2> QED
    BY <2>2, <2>3
<1> QED
  BY <1>1, <1>2 DEF BalancedInv

\* The end of the evaluation leaves the machine as it was.
LEMMA Stays ==
    ASSUME BalancedInv, Inv', UNCHANGED <<program, ip, stack, frames>>
    PROVE  BalancedInv'
<1>1. program' = program /\ ip' = ip /\ stack' = stack /\ frames' = frames
  OBVIOUS
<1>2. StackOK'
  BY <1>1 DEF BalancedInv, StackOK
<1>3. ASSUME Balanced(program)'
      PROVE  \E d, k, hs : (BalancedBy(program, d, k) /\ Heights(d, k, hs))'
  <2>1. PICK d, k, hs : BalancedBy(program, d, k) /\ Heights(d, k, hs)
    BY <1>1, <1>3 DEF BalancedInv
  <2>2. Heights(d, k, hs)'
    BY <1>1, <2>1 DEF Heights, CallHeight
  <2> QED
    BY <1>1, <2>1, <2>2
<1> QED
  BY <1>2, <1>3 DEF BalancedInv

LEMMA Replaces ==
    ASSUME BalancedInv, Inv', Fetched, program' = program, NEW n \in 0 .. 2,
           Pops(program, Instr) = n, Pushes(Instr) = 1,
           Follows(program, ip) = {ip + 1},
           Has(n), n = 0 => Room(0), NEW v, Replace(n, v)
    PROVE  BalancedInv'
<1>1. StackOK /\ Len(stack) \in Nat /\ Len(stack) <= MaxStack /\ MaxStack \in Nat
  BY VMAssumption DEF BalancedInv, StackOK
<1>2. n \in 0 .. Len(stack)
  BY <1>1 DEF Has
<1>3. (\E S : stack' \in Seq(S)) /\ Len(stack') = Len(stack) - n + 1
  BY <1>1, <1>2, ReplaceFacts
<1>4. Len(stack') <= MaxStack
  BY <1>1, <1>2, <1>3 DEF Room
<1>5. ip' \in Follows(program, ip) /\ frames' = frames
  BY DEF Replace
<1> QED
  BY <1>3, <1>4, <1>5, Advance

LEMMA Drops ==
    ASSUME BalancedInv, Inv', Fetched, program' = program, frames' = frames,
           Pops(program, Instr) = 1, Pushes(Instr) = 0,
           ip' \in Follows(program, ip), Has(1), stack' = Drop(1)
    PROVE  BalancedInv'
<1>1. PICK S : stack \in Seq(S)
  BY DEF BalancedInv, StackOK
<1>2. /\ Len(stack) \in Nat /\ Len(stack) <= MaxStack /\ MaxStack \in Nat
      /\ 1 \in 0 .. Len(stack)
  BY <1>1, VMAssumption DEF BalancedInv, StackOK, Has
<1>3. stack' \in Seq(S) /\ Len(stack') = Len(stack) - 1
  BY <1>1, <1>2, DropFacts
<1>4. Len(stack') <= MaxStack /\ Len(stack') = Len(stack) - 1 + 0
  BY <1>2, <1>3
<1> QED
  BY <1>3, <1>4, Advance

\* The activation of a call starts with nothing of its own on the stack.
LEMMA CallHeights ==
    ASSUME Inv, StackOK, Call, MayCall(Instr.n),
           NEW d, NEW k, NEW hs, BalancedBy(program, d, k), Heights(d, k, hs)
    PROVE  \E h2 : Heights(d, k, h2)'
<1>1. Fetched /\ Instr.op = "CALL" /\ program' = program
  BY DEF Call, Executes
<1> DEFINE f == program.functions[Instr.n]
           frame == [returnIP |-> ip + 1, localsBase |-> base,
                     numLocals |-> f.numLocals]
<1>2. /\ frames' = Append(frames, frame) /\ ip' = f.codeStart
      /\ stack' = Drop(f.numParams) /\ Has(f.numParams)
  BY DEF Call
<1>3. frames \in Seq(Frame)
  BY DEF Inv, MachineOK
<1>4. PICK n \in Nat : n = Len(frames)
  BY <1>3
<1>5. /\ ip \in 1 .. Len(program.code) /\ d[ip] # Unreached
      /\ (ip <= k) = (n = 0)
      /\ hs \in [1 .. n + 1 -> Nat] /\ hs[1] = 0
      /\ \A i \in 1 .. n : CallHeight(d, k, hs, i)
      /\ Len(stack) = hs[n + 1] + d[ip]
  BY <1>4 DEF Heights
<1>6. /\ Instr.n \in 1 .. Len(program.functions) /\ f.codeStart # 0
  BY DEF MayCall
<1>7. Pops(program, program.code[ip]) = f.numParams
  BY <1>1, <1>6, OtherEffects DEF Instr
<1>8. f.numParams \in Nat
  BY <1>5, <1>7, PopsNumber
<1>9. /\ f.codeStart \in 1 .. Len(program.code) /\ f.codeStart > k
      /\ d[f.codeStart] = 0 /\ d[ip] \in Nat /\ d[ip] >= f.numParams
      /\ k \in 1 .. Len(program.code)
  <2>1. /\ d \in [1 .. Len(program.code) -> Nat \cup {Unreached}]
        /\ d[ip] >= Pops(program, program.code[ip])
        /\ k \in 1 .. Len(program.code)
        /\ f.codeStart \in 1 .. Len(program.code) /\ f.codeStart > k
        /\ d[f.codeStart] = 0
    BY <1>5, <1>6 DEF BalancedBy
  <2> QED
    BY <1>5, <1>7, <2>1
<1>10. PICK h, x \in Nat : h = hs[n + 1] /\ x = d[ip] /\ h \in Nat
  <2>1. n + 1 \in 1 .. n + 1
    OBVIOUS
  <2> QED
    BY <1>5, <1>9, <2>1
<1>11. PICK m \in Nat : m = f.numParams
  BY <1>8
<1>12. PICK top \in Nat : top = h + x - m
  BY <1>9, <1>10, <1>11
<1>13. PICK h2 : h2 = [i \in 1 .. n + 2 |-> IF i <= n + 1 THEN hs[i] ELSE top]
  OBVIOUS
<1>14. /\ h2 \in [1 .. n + 2 -> Nat] /\ h2[n + 2] = top /\ h2[1] = 0
       /\ \A i \in 1 .. n + 1 : h2[i] = hs[i]
  <2>1. \A i \in 1 .. n + 1 : h2[i] = hs[i] /\ hs[i] \in Nat
    BY <1>5, <1>13
  <2>2. h2[n + 2] = top /\ 1 \in 1 .. n + 1
    BY <1>13
  <2>3. \A i \in 1 .. n + 2 : i \in 1 .. n + 1 \/ i = n + 2
    OBVIOUS
  <2>4. \A i \in 1 .. n + 2 : h2[i] \in Nat
    BY <2>1, <2>2, <2>3
  <2> QED
    BY <1>5, <1>13, <2>1, <2>2, <2>4
<1>15. /\ Len(frames') = n + 1 /\ frames'[n + 1].returnIP = ip + 1
       /\ \A i \in 1 .. n : frames'[i] = frames[i]
  <2>1. Len(frames') = n + 1 /\ frames'[n + 1] = frame
        /\ \A i \in 1 .. n : frames'[i] = frames[i]
    BY <1>2, <1>3, <1>4
  <2> QED
    BY <2>1
<1>16. Len(stack') = top
  <2>1. PICK S : stack \in Seq(S)
    BY DEF StackOK
  <2>2. m \in 0 .. Len(stack) /\ Len(stack) \in Nat
    BY <1>2, <1>11, <2>1 DEF Has
  <2>3. Len(stack') = Len(stack) - m
    BY <1>2, <1>11, <2>1, <2>2, DropFacts
  <2>4. Len(stack) = h + x
    BY <1>5, <1>10
  <2> QED
    BY <1>12, <2>3, <2>4
<1>17. ASSUME NEW i \in 1 .. n
       PROVE  CallHeight(d, k, h2, i)'
  <2>1. i \in 1 .. n + 1 /\ i + 1 \in 1 .. n + 1
    OBVIOUS
  <2>2. h2[i] = hs[i] /\ h2[i + 1] = hs[i + 1] /\ frames'[i] = frames[i]
    BY <1>14, <1>15, <2>1
  <2>3. CallHeight(d, k, hs, i)
    BY <1>5
  <2> QED
    BY <1>1, <2>2, <2>3 DEF CallHeight
<1>18. CallHeight(d, k, h2, n + 1)'
  <2>1. frames'[n + 1].returnIP - 1 = ip /\ (n + 1) + 1 = n + 2
    BY <1>5, <1>15
  <2>2. h2[n + 1] = h /\ h2[n + 2] = h + x - m
    <3>1. n + 1 \in 1 .. n + 1
      OBVIOUS
    <3> QED
      BY <1>10, <1>12, <1>14, <3>1
  <2>3. (ip <= k) = (n + 1 = 1)
    BY <1>5
  <2>4. x = d[ip] /\ m = Pops(program, program.code[ip]) /\ d[ip] # Unreached
    BY <1>5, <1>7, <1>10, <1>11
  <2> QED
    BY <1>1, <2>1, <2>2, <2>3, <2>4 DEF CallHeight
<1>19. \A i \in 1 .. n + 1 : CallHeight(d, k, h2, i)'
  <2>1. \A i \in 1 .. n + 1 : i \in 1 .. n \/ i = n + 1
    OBVIOUS
  <2> QED
    BY <1>17, <1>18, <2>1
<1>20. /\ ip' \in 1 .. Len(program.code) /\ d[ip'] # Unreached
       /\ (ip' <= k) = (Len(frames') = 0) /\ Len(frames') + 1 = n + 2
       /\ Len(stack') = h2[n + 2] + d[ip']
  <2>1. ~(ip' <= k) /\ Len(frames') # 0 /\ Len(frames') + 1 = n + 2
    BY <1>2, <1>9, <1>15
  <2>2. d[ip'] = 0
    BY <1>2, <1>9
  <2>3. Len(stack') = h2[n + 2] + d[ip']
    BY <1>14, <1>16, <2>2
  <2> QED
    BY <1>2, <1>9, <2>1, <2>2, <2>3 DEF Unreached
<1>21. Heights(d, k, h2)'
  BY <1>1, <1>14, <1>15, <1>19, <1>20 DEF Heights
<1> QED
  BY <1>21

\* The caller finds its own values, less the arguments, and the result.
LEMMA RetHeights ==
    ASSUME Inv, Ret, frames # <<>>,
           NEW d, NEW k, NEW hs, BalancedBy(program, d, k), Heights(d, k, hs)
    PROVE  \E h2 : Heights(d, k, h2)'
<1>1. Fetched /\ Instr.op = "RET" /\ program' = program
  BY DEF Ret, Executes
<1>2. /\ frames' = SubSeq(frames, 1, Len(frames) - 1)
      /\ ip' = frames[Len(frames)].returnIP /\ stack' = stack
  BY DEF Ret
<1>3. /\ frames \in Seq(Frame) /\ FrameOK(frames[Len(frames)], base)
      /\ Len(frames) \in Nat \ {0} /\ frames[Len(frames)] \in Frame
  BY PopFrame DEF Inv, MachineOK
<1>4. PICK n \in Nat : n + 1 = Len(frames)
  <2>1. Len(frames) - 1 \in Nat /\ (Len(frames) - 1) + 1 = Len(frames)
    BY <1>3
  <2> QED
    BY <2>1
<1>5. /\ Len(frames') = n /\ \A i \in 1 .. n : frames'[i] = frames[i]
  <2>1. Len(frames) - 1 = n /\ Len(frames) # 0
    BY <1>3, <1>4
  <2> QED
    BY <1>2, <1>3, <2>1, AllButLast
<1>6. PICK c \in 1 .. Len(program.code) :
         /\ c + 1 = ip' /\ c = frames[n + 1].returnIP - 1
         /\ program.code[c].op = "CALL"
         /\ program.code[c].n \in 1 .. Len(program.functions)
  <2>1. frames[n + 1].returnIP \in Nat
    BY <1>3, <1>4 DEF Frame
  <2>2. frames[n + 1].returnIP - 1 + 1 = frames[n + 1].returnIP
    BY <2>1
  <2> QED
    BY <1>2, <1>3, <1>4, <2>2 DEF FrameOK
<1>7. /\ d[ip] # Unreached /\ ip \in 1 .. Len(program.code)
      /\ hs \in [1 .. (n + 1) + 1 -> Nat] /\ hs[1] = 0
      /\ \A i \in 1 .. n + 1 : CallHeight(d, k, hs, i)
      /\ Len(stack) = hs[(n + 1) + 1] + d[ip]
  BY <1>4 DEF Heights
<1>8. /\ d[c] # Unreached /\ (c <= k) = (n + 1 = 1)
      /\ hs[(n + 1) + 1] = hs[n + 1] + d[c] - Pops(program, program.code[c])
  <2>1. n + 1 \in 1 .. n + 1
    OBVIOUS
  <2> QED
    BY <1>6, <1>7, <2>1 DEF CallHeight
<1>9. Pushes(program.code[c]) = 1 /\ Follows(program, c) = {c + 1}
  BY <1>6, OtherEffects
<1>10. /\ c + 1 \in 1 .. Len(program.code) /\ ((c + 1) <= k) = (c <= k)
       /\ d[c + 1] = d[c] - Pops(program, program.code[c]) + 1
       /\ d[c] >= Pops(program, program.code[c]) /\ d[c] \in Nat /\ d[ip] = 1
  <2>1. /\ d \in [1 .. Len(program.code) -> Nat \cup {Unreached}]
        /\ d[c] >= Pops(program, program.code[c])
        /\ \A j \in Follows(program, c) :
              /\ j \in 1 .. Len(program.code) /\ (j <= k) = (c <= k)
              /\ d[j] = d[c] - Pops(program, program.code[c]) + Pushes(program.code[c])
    BY <1>8 DEF BalancedBy
  <2>2. program.code[ip].op = "RET" => d[ip] = 1
    BY <1>7 DEF BalancedBy
  <2> QED
    BY <1>1, <1>8, <1>9, <2>1, <2>2 DEF Instr
<1>11. PICK m, x, h \in Nat : /\ m = Pops(program, program.code[c]) /\ x = d[c]
                             /\ h = hs[n + 1]
  <2>1. n + 1 \in 1 .. (n + 1) + 1
    OBVIOUS
  <2>2. hs[n + 1] \in Nat
    BY <1>7, <2>1
  <2>3. Pops(program, program.code[c]) \in Nat
    BY PopsNumber
  <2> QED
    BY <1>10, <2>2, <2>3
<1>12. PICK h2 : h2 = [i \in 1 .. n + 1 |-> hs[i]]
  OBVIOUS
<1>13. /\ h2 \in [1 .. n + 1 -> Nat] /\ h2[1] = 0 /\ h2[n + 1] = h
       /\ \A i \in 1 .. n + 1 : h2[i] = hs[i]
  <2>1. \A i \in 1 .. n + 1 : h2[i] = hs[i] /\ hs[i] \in Nat
    BY <1>7, <1>12
  <2>2. 1 \in 1 .. n + 1 /\ n + 1 \in 1 .. n + 1
    OBVIOUS
  <2> QED
    BY <1>7, <1>11, <1>12, <2>1, <2>2
<1>14. \A i \in 1 .. n : CallHeight(d, k, h2, i)'
  <2>1. SUFFICES ASSUME NEW i \in 1 .. n PROVE CallHeight(d, k, h2, i)'
    OBVIOUS
  <2>2. i \in 1 .. n + 1 /\ i + 1 \in 1 .. n + 1
    OBVIOUS
  <2>3. h2[i] = hs[i] /\ h2[i + 1] = hs[i + 1] /\ frames'[i] = frames[i]
    BY <1>5, <1>13, <2>2
  <2>4. CallHeight(d, k, hs, i)
    BY <1>7, <2>2
  <2> QED
    BY <1>1, <2>3, <2>4 DEF CallHeight
<1>15. Len(stack') = h2[n + 1] + d[ip'] /\ d[ip'] # Unreached
  <2>1. PICK y : y = d[c + 1]
    OBVIOUS
  <2>2. /\ Len(stack) = (h + x - m) + 1 /\ y = x - m + 1 /\ x >= m
    BY <1>7, <1>8, <1>10, <1>11, <2>1
  <2>3. (h + x - m) + 1 = h + y /\ y # -1
    BY <2>2
  <2> QED
    BY <1>2, <1>6, <1>13, <2>1, <2>2, <2>3 DEF Unreached
<1>16. (ip' <= k) = (Len(frames') = 0) /\ ip' \in 1 .. Len(program.code)
  <2>1. (n + 1 = 1) = (n = 0)
    OBVIOUS
  <2> QED
    BY <1>5, <1>6, <1>8, <1>10, <2>1
<1>17. Heights(d, k, h2)'
  BY <1>1, <1>5, <1>13, <1>14, <1>15, <1>16 DEF Heights
<1> QED
  BY <1>17

LEMMA CallsBalanced ==
    ASSUME BalancedInv, Inv', Call
    PROVE  BalancedInv'
<1>1. Fetched /\ Instr.op = "CALL" /\ program' = program /\ Inv /\ StackOK
  BY DEF Call, Executes, BalancedInv
<1>2. CASE ~MayCall(Instr.n)
  BY <1>1, <1>2, Stays DEF Call, Return
<1>3. CASE MayCall(Instr.n)
  <2> DEFINE f == program.functions[Instr.n]
  <2>1. stack' = Drop(f.numParams) /\ Has(f.numParams)
    BY <1>3 DEF Call
  <2>2. f.numParams \in Nat
    <3>1. program.functions \in Seq(Function) /\ Instr.n \in 1 .. Len(program.functions)
      BY <1>1, <1>3, ProgramAssumption DEF Inv, MachineOK, MayCall
    <3>2. f \in Function
      BY <3>1
    <3> QED
      BY <3>2 DEF Function
  <2>3. PICK S : stack \in Seq(S)
    BY <1>1 DEF StackOK
  <2>4. /\ Len(stack) \in Nat /\ Len(stack) <= MaxStack /\ MaxStack \in Nat
        /\ f.numParams \in 0 .. Len(stack)
    BY <1>1, <2>1, <2>2, <2>3, VMAssumption DEF StackOK, Has
  <2>5. stack' \in Seq(S) /\ Len(stack') = Len(stack) - f.numParams
    BY <2>1, <2>3, <2>4, DropFacts
  <2>6. Len(stack') <= MaxStack
    BY <2>2, <2>4, <2>5
  <2>7. StackOK'
    BY <2>5, <2>6 DEF StackOK
  <2>8. ASSUME Balanced(program)'
        PROVE  \E d, k, hs : (BalancedBy(program, d, k) /\ Heights(d, k, hs))'
    <3>1. PICK d, k, hs : BalancedBy(program, d, k) /\ Heights(d, k, hs)
      BY <1>1, <2>8 DEF BalancedInv
    <3>2. PICK h2 : Heights(d, k, h2)'
      BY <1>1, <1>3, <3>1, CallHeights
    <3> QED
      BY <1>1, <3>1, <3>2
  <2> QED
    BY <2>7, <2>8 DEF BalancedInv
<1> QED
  BY <1>2, <1>3

LEMMA RetsBalanced ==
    ASSUME BalancedInv, Inv', Ret
    PROVE  BalancedInv'
<1>1. program' = program /\ Inv /\ StackOK
  BY DEF Ret, Executes, BalancedInv
<1>2. CASE frames = <<>>
  BY <1>1, <1>2, Stays DEF Ret, Return
<1>3. CASE frames # <<>>
  <2>1. StackOK'
    BY <1>1, <1>3 DEF StackOK, Ret
  <2>2. ASSUME Balanced(program)'
        PROVE  \E d, k, hs : (BalancedBy(program, d, k) /\ Heights(d, k, hs))'
    <3>1. PICK d, k, hs : BalancedBy(program, d, k) /\ Heights(d, k, hs)
      BY <1>1, <2>2 DEF BalancedInv
    <3>2. PICK h2 : Heights(d, k, h2)'
      BY <1>1, <1>3, <3>1, RetHeights
    <3> QED
      BY <1>1, <3>1, <3>2
  <2> QED
    BY <2>1, <2>2 DEF BalancedInv
<1> QED
  BY <1>2, <1>3

\* What the next instruction takes and puts back, of those that make no call.
LEMMA Effect ==
    ASSUME NEW ops, Executes(ops)
    PROVE  /\ Fetched /\ program' = program
           /\ ops \subseteq PushOps \cup {"LOAD_LOCAL"} =>
                 /\ Pops(program, Instr) = 0 /\ Pushes(Instr) = 1
                 /\ Follows(program, ip) = {ip + 1}
           /\ ops \subseteq {"NEG_INT"} \cup UnaryOps =>
                 /\ Pops(program, Instr) = 1 /\ Pushes(Instr) = 1
                 /\ Follows(program, ip) = {ip + 1}
           /\ ops \subseteq ArithmeticOps \cup DivisionOps \cup ComparisonOps
                            \cup BitOps \cup LogicOps =>
                 /\ Pops(program, Instr) = 2 /\ Pushes(Instr) = 1
                 /\ Follows(program, ip) = {ip + 1}
           /\ ops \subseteq {"POP", "STORE_LOCAL"} =>
                 /\ Pops(program, Instr) = 1 /\ Pushes(Instr) = 0
                 /\ Follows(program, ip) = {ip + 1}
           /\ ops = {"JMP"} =>
                 /\ Pops(program, Instr) = 0 /\ Pushes(Instr) = 0
                 /\ Follows(program, ip) = {Instr.n}
           /\ ops = {"JMP_IF_FALSE"} =>
                 /\ Pops(program, Instr) = 1 /\ Pushes(Instr) = 0
                 /\ Follows(program, ip) = {ip + 1, Instr.n}
<1>1. Fetched /\ program' = program /\ Instr.op \in ops /\ Instr = program.code[ip]
  BY DEF Executes, Instr
<1>2. ASSUME ops \subseteq PushOps \cup {"LOAD_LOCAL"}
      PROVE  /\ Pops(program, Instr) = 0 /\ Pushes(Instr) = 1
             /\ Follows(program, ip) = {ip + 1}
  BY <1>1, <1>2, OneResult
<1>3. ASSUME ops \subseteq {"NEG_INT"} \cup UnaryOps
      PROVE  /\ Pops(program, Instr) = 1 /\ Pushes(Instr) = 1
             /\ Follows(program, ip) = {ip + 1}
  BY <1>1, <1>3, OneResult
<1>4. ASSUME ops \subseteq ArithmeticOps \cup DivisionOps \cup ComparisonOps
                           \cup BitOps \cup LogicOps
      PROVE  /\ Pops(program, Instr) = 2 /\ Pushes(Instr) = 1
             /\ Follows(program, ip) = {ip + 1}
  BY <1>1, <1>4, TwoOperands
<1>5. /\ ops \subseteq {"POP", "STORE_LOCAL"} =>
            /\ Pops(program, Instr) = 1 /\ Pushes(Instr) = 0
            /\ Follows(program, ip) = {ip + 1}
      /\ ops = {"JMP"} =>
            /\ Pops(program, Instr) = 0 /\ Pushes(Instr) = 0
            /\ Follows(program, ip) = {Instr.n}
      /\ ops = {"JMP_IF_FALSE"} =>
            /\ Pops(program, Instr) = 1 /\ Pushes(Instr) = 0
            /\ Follows(program, ip) = {ip + 1, Instr.n}
  BY <1>1, OtherEffects
<1> QED
  BY <1>1, <1>2, <1>3, <1>4, <1>5

LEMMA StepsBalanced ==
    ASSUME BalancedInv, Inv', Next
    PROVE  BalancedInv'
<1>1. ASSUME program' = program, NEW v, Return(v) PROVE BalancedInv'
  BY <1>1, Stays DEF Return
<1>2. CASE Push
  <2>1. Executes(PushOps) /\ Room(0) /\ Replace(0, Pushed(Instr)) /\ Has(0)
    BY <1>2, VMAssumption DEF Push, Has, BalancedInv, StackOK
  <2> QED
    BY <2>1, Effect, Replaces
<1>3. CASE Pop
  <2>1. /\ Executes({"POP"}) /\ Has(1) /\ stack' = Drop(1) /\ ip' = ip + 1
        /\ frames' = frames
    BY <1>3 DEF Pop
  <2> QED
    BY <2>1, Effect, Drops
<1>4. CASE Binary
  <2> DEFINE ops == ArithmeticOps \cup ComparisonOps \cup BitOps \cup LogicOps
  <2>1. /\ Executes(ops) /\ Has(2) /\ \E v : Replace(2, v)
    BY <1>4 DEF Binary
  <2>2. ops \subseteq ArithmeticOps \cup DivisionOps \cup ComparisonOps
                      \cup BitOps \cup LogicOps
    OBVIOUS
  <2> HIDE DEF ops
  <2> QED
    BY <2>1, <2>2, Effect, Replaces
<1>5. CASE Divide
  <2>1. /\ Executes(DivisionOps) /\ Has(2)
        /\ (\E v : Return(v)) \/ (\E v : Replace(2, v))
    BY <1>5 DEF Divide
  <2>2. /\ Fetched /\ program' = program /\ Pops(program, Instr) = 2
        /\ Pushes(Instr) = 1 /\ Follows(program, ip) = {ip + 1}
    BY <2>1, Effect
  <2> QED
    BY <1>1, <2>1, <2>2, Replaces
<1>6. CASE Negate
  <2>1. /\ Executes({"NEG_INT"}) /\ Has(1)
        /\ (\E v : Return(v)) \/ (\E v : Replace(1, v))
    BY <1>6 DEF Negate
  <2>2. /\ Fetched /\ program' = program /\ Pops(program, Instr) = 1
        /\ Pushes(Instr) = 1 /\ Follows(program, ip) = {ip + 1}
    BY <2>1, Effect
  <2> QED
    BY <1>1, <2>1, <2>2, Replaces
<1>7. CASE Convert
  <2>1. Executes(UnaryOps) /\ Has(1) /\ Replace(1, Conversion(Instr, Top))
    BY <1>7 DEF Convert
  <2>2. /\ Fetched /\ program' = program /\ Pops(program, Instr) = 1
        /\ Pushes(Instr) = 1 /\ Follows(program, ip) = {ip + 1}
    BY <2>1, Effect
  <2> QED
    BY <2>1, <2>2, Replaces
<1>8. CASE StoreLocal
  <2>1. /\ Executes({"STORE_LOCAL"}) /\ Has(1)
        /\ \/ \E v : Return(v)
           \/ stack' = Drop(1) /\ ip' = ip + 1 /\ frames' = frames
    BY <1>8 DEF StoreLocal
  <2>2. /\ Fetched /\ program' = program /\ Pops(program, Instr) = 1
        /\ Pushes(Instr) = 0 /\ Follows(program, ip) = {ip + 1}
    BY <2>1, Effect
  <2> QED
    BY <1>1, <2>1, <2>2, Drops
<1>9. CASE LoadLocal
  <2>1. /\ Executes({"LOAD_LOCAL"}) /\ Has(0)
        /\ (\E v : Return(v)) \/ (Room(0) /\ \E v : Replace(0, v))
    BY <1>9, VMAssumption DEF LoadLocal, Has, BalancedInv, StackOK
  <2>2. /\ Fetched /\ program' = program /\ Pops(program, Instr) = 0
        /\ Pushes(Instr) = 1 /\ Follows(program, ip) = {ip + 1}
    BY <2>1, Effect
  <2> QED
    BY <1>1, <2>1, <2>2, Replaces
<1>10. CASE Jump
  <2>1. Executes({"JMP"}) /\ ip' = Instr.n /\ UNCHANGED <<stack, frames>>
    BY <1>10 DEF Jump
  <2>2. /\ Fetched /\ program' = program /\ Pops(program, Instr) = 0
        /\ Pushes(Instr) = 0 /\ Follows(program, ip) = {Instr.n}
    BY <2>1, Effect
  <2>3. /\ Len(stack') = Len(stack) - 0 + 0 /\ Len(stack') <= MaxStack
        /\ \E S : stack' \in Seq(S)
    BY <2>1 DEF BalancedInv, StackOK
  <2> QED
    BY <2>1, <2>2, <2>3, Advance
<1>11. CASE JumpIfFalse
  <2>1. /\ Executes({"JMP_IF_FALSE"}) /\ Has(1) /\ ip' \in {ip + 1, Instr.n}
        /\ stack' = Drop(1) /\ frames' = frames
    BY <1>11 DEF JumpIfFalse
  <2> QED
    BY <2>1, Effect, Drops
<1>12. CASE Call
  BY <1>12, CallsBalanced
<1>13. CASE Ret
  BY <1>13, RetsBalanced
<1>14. CASE Halt \/ Throw \/ Raise
  BY <1>1, <1>14 DEF Halt, Throw, Raise, Executes
<1>15. CASE Exhaust
  BY <1>1, <1>15 DEF Exhaust
<1>16. CASE Done
  BY <1>16, Stays DEF Done, vmVars
<1> QED
  BY <1>2, <1>3, <1>4, <1>5, <1>6, <1>7, <1>8, <1>9, <1>10, <1>11, <1>12,
     <1>13, <1>14, <1>15, <1>16 DEF Next, Step

\* What an instruction needs is there.
LEMMA Operands ==
    ASSUME BalancedInv, Balanced(program)
    PROVE  OperandsThere
<1>1. PICK d, k, hs : BalancedBy(program, d, k) /\ Heights(d, k, hs)
  BY DEF BalancedInv
<1>2. /\ ip \in 1 .. Len(program.code) /\ d[ip] # Unreached
      /\ (ip <= k) = (Len(frames) = 0)
      /\ hs \in [1 .. Len(frames) + 1 -> Nat] /\ hs[1] = 0
      /\ Len(stack) = hs[Len(frames) + 1] + d[ip]
  BY <1>1 DEF Heights
<1>3. /\ d[ip] \in Nat /\ d[ip] >= Pops(program, Instr)
      /\ Instr.op = "HALT" => ip <= k /\ d[ip] = 1
  <2>1. /\ d \in [1 .. Len(program.code) -> Nat \cup {Unreached}]
        /\ d[ip] >= Pops(program, program.code[ip])
        /\ program.code[ip].op = "HALT" => ip <= k /\ d[ip] = 1
    BY <1>1, <1>2 DEF BalancedBy
  <2> QED
    BY <1>2, <2>1 DEF Instr
<1>4. /\ Len(program.code) \in Nat /\ frames \in Seq(Frame) /\ Inv
  BY ProgramAssumption DEF BalancedInv, Inv, MachineOK
<1>5. Fetched
  BY <1>2, <1>4 DEF Fetched
<1>6. Pops(program, Instr) \in Nat
  BY <1>2, <1>4, PopsNumber DEF Instr
<1>7. Takes(Instr) \in {0, Pops(program, Instr)}
  <2>1. CASE Instr.op = "CALL" /\ Instr.n \in 1 .. Len(program.functions) /\ ~MayCall(Instr.n)
    <3>1. Takes(Instr) = 0
      BY <2>1 DEF Takes, UnaryOps, ArithmeticOps, DivisionOps, ComparisonOps, BitOps, LogicOps
    <3> QED
      BY <3>1
  <2>2. CASE ~(Instr.op = "CALL" /\ Instr.n \in 1 .. Len(program.functions) /\ ~MayCall(Instr.n))
    <3>1. (Instr.op = "CALL" /\ MayCall(Instr.n))
            = (Instr.op = "CALL" /\ Instr.n \in 1 .. Len(program.functions))
      BY <2>2 DEF MayCall
    <3> QED
      BY <3>1 DEF Takes, Pops
  <2> QED
    BY <2>1, <2>2
<1>8. PICK h, x \in Nat : h = hs[Len(frames) + 1] /\ x = d[ip]
  <2>1. Len(frames) + 1 \in 1 .. Len(frames) + 1
    BY <1>4
  <2> QED
    BY <1>2, <1>3, <2>1
<1>9. ~Underflows
  <2>1. Len(stack) = h + x /\ x >= Pops(program, Instr)
    BY <1>2, <1>3, <1>8
  <2>2. Len(stack) >= 0 /\ Len(stack) >= Pops(program, Instr)
    BY <1>6, <2>1
  <2> QED
    BY <1>7, <2>2 DEF Underflows, Has
<1>10. ASSUME Instr.op = "HALT"
       PROVE  frames = <<>> /\ Len(stack) = 1
  <2>1. Len(frames) = 0 /\ d[ip] = 1
    BY <1>2, <1>3, <1>10
  <2>2. frames = <<>>
    BY <1>4, <2>1
  <2>3. Len(stack) = hs[0 + 1] + 1
    BY <1>2, <2>1
  <2> QED
    BY <1>2, <2>2, <2>3
<1>11. Len(stack) <= MaxStack
  BY DEF BalancedInv, StackOK
<1> QED
  BY <1>5, <1>9, <1>10, <1>11 DEF OperandsThere

\* Code that is balanced, as the compiler's is, never runs off its end, never
\* pops from an empty stack whatever calls are nested when a limit strikes, and
\* halts outside all calls with exactly its result on the stack: for every
\* program and all limits (ConstVM::execute, push and pop).
THEOREM OperandsPresent == Spec => [](Balanced(program) => OperandsThere)
<1>1. Init => BalancedInv
  <2>1. SUFFICES ASSUME Init PROVE BalancedInv
    OBVIOUS
  <2>2. Inv
    BY <2>1, StartOK
  <2>3. ip = 1 /\ Len(stack) = 0 /\ stack \in Seq({}) /\ Len(frames) = 0
    <3>1. ip = 1 /\ stack = <<>> /\ frames = <<>>
      BY <2>1 DEF Init, InitVM
    <3> QED
      BY <3>1
  <2>4. StackOK
    BY <2>3, VMAssumption DEF StackOK
  <2>5. ASSUME Balanced(program)
        PROVE  \E d, k, hs : BalancedBy(program, d, k) /\ Heights(d, k, hs)
    <3>1. PICK d, k : BalancedBy(program, d, k)
      BY <2>5 DEF Balanced
    <3>2. k \in 1 .. Len(program.code) /\ d[1] = 0
      BY <3>1 DEF BalancedBy
    <3>3. PICK hs : hs = [i \in 1 .. 0 + 1 |-> 0]
      OBVIOUS
    <3>4. hs \in [1 .. 0 + 1 -> Nat] /\ hs[1] = 0 /\ hs[0 + 1] = 0
      BY <3>3
    <3>5. Len(program.code) \in Nat
      BY <2>2, ProgramAssumption DEF Inv, MachineOK
    <3>6. 1 \in 1 .. Len(program.code) /\ 1 <= k
      BY <3>2, <3>5
    <3>7. \A i \in 1 .. 0 : CallHeight(d, k, hs, i)
      OBVIOUS
    <3>8. Heights(d, k, hs)
      BY <2>3, <3>2, <3>4, <3>6, <3>7 DEF Heights, Unreached
    <3> QED
      BY <3>1, <3>8
  <2> QED
    BY <2>2, <2>4, <2>5 DEF BalancedInv
<1>2. BalancedInv /\ [Next]_vmVars => BalancedInv'
  <2>1. SUFFICES ASSUME BalancedInv, [Next]_vmVars PROVE BalancedInv'
    OBVIOUS
  <2>2. Inv /\ ip \in Nat \ {0}
    BY <2>1 DEF BalancedInv, Inv, MachineOK
  <2>3. CASE UNCHANGED vmVars
    <3>1. Inv'
      BY <2>2, <2>3, SameLocals DEF vmVars
    <3> QED
      BY <2>1, <2>3, <3>1, Stays DEF vmVars
  <2>4. CASE Next
    BY <2>1, <2>2, <2>4, StepsOK, StepsBalanced
  <2> QED
    BY <2>1, <2>3, <2>4
<1>3. BalancedInv => (Balanced(program) => OperandsThere)
  BY Operands
<1> QED
  BY <1>1, <1>2, <1>3, PTL DEF Spec

-----------------------------------------------------------------------------
(***************************************************************************)
(* The locals of the open calls                                            *)
(***************************************************************************)

\* LocalsKept with the number of locals at each instruction as a parameter.
KeptBy(p, n) ==
    LET positions == 1 .. Len(p.code)
    IN  /\ 1 \in positions /\ n \in [positions -> Nat] /\ n[1] = 0
        /\ \A f \in 1 .. Len(p.functions) :
              LET start == p.functions[f].codeStart
              IN  start # 0 => start \in positions /\ n[start] = p.functions[f].numLocals
        /\ \A i \in positions :
              /\ \A j \in Follows(p, i) : j \in positions /\ n[j] = n[i]
              /\ p.code[i].op = "CALL" /\ p.code[i].n \in 1 .. Len(p.functions) =>
                    n[i] <= p.functions[p.code[i].n].numLocals

\* What frame f needs of the locals ends below the limit.
FitsBelow(f, n, limit) == f.localsBase + n[f.returnIP - 1] <= limit

LocalsOK(n) ==
    /\ ip \in 1 .. Len(program.code)
    /\ base + n[ip] <= Len(locals)
    /\ \A i \in 1 .. Len(frames) : FitsBelow(frames[i], n, BaseAbove(frames, i, base))

LocalsInv == Inv /\ (LocalsKept(program) => LocalsOK(LocalsAt(program)))

LEMMA KeptCode ==
    ASSUME NEW p, LocalsKept(p)
    PROVE  KeptBy(p, LocalsAt(p))
BY DEF LocalsKept, KeptBy

\* A step within an activation does not take locals away and stays in its
\* function.
LEMMA QuietLocals ==
    ASSUME Inv, NEW n, KeptBy(program, n), LocalsOK(n),
           UNCHANGED <<program, frames, base>>,
           ip' = ip \/ ip' \in Follows(program, ip),
           Len(locals') \in Nat, Len(locals) <= Len(locals')
    PROVE  LocalsOK(n)'
<1>1. program' = program /\ frames' = frames /\ base' = base
  OBVIOUS
<1>2. /\ ip \in 1 .. Len(program.code) /\ base + n[ip] <= Len(locals)
      /\ \A i \in 1 .. Len(frames) : FitsBelow(frames[i], n, BaseAbove(frames, i, base))
  BY DEF LocalsOK
<1>3. ip' \in 1 .. Len(program.code) /\ n[ip'] = n[ip]
  BY <1>2 DEF KeptBy
<1>4. n[ip] \in Nat /\ base \in Nat /\ Len(locals) \in Nat
  BY <1>2 DEF KeptBy, Inv, MachineOK
<1>5. base + n[ip] <= Len(locals')
  BY <1>2, <1>4
<1>6. (\A i \in 1 .. Len(frames) : FitsBelow(frames[i], n, BaseAbove(frames, i, base)))'
  BY <1>1, <1>2 DEF FitsBelow, BaseAbove
<1> QED
  BY <1>1, <1>3, <1>5, <1>6 DEF LocalsOK

\* The locals of a call begin behind all of its caller's.
LEMMA CallLocals ==
    ASSUME Inv, Inv', NEW n, KeptBy(program, n), LocalsOK(n), Call, MayCall(Instr.n)
    PROVE  LocalsOK(n)'
<1> DEFINE f == program.functions[Instr.n]
           frame == [returnIP |-> ip + 1, localsBase |-> base, numLocals |-> f.numLocals]
           top == Len(frames)
<1>1. /\ ip \in 1 .. Len(program.code) /\ base + n[ip] <= Len(locals)
      /\ \A i \in 1 .. top : FitsBelow(frames[i], n, BaseAbove(frames, i, base))
  BY DEF LocalsOK
<1>2. /\ program' = program /\ frames' = Append(frames, frame)
      /\ ip' = f.codeStart /\ base' = Len(locals)
      /\ DOMAIN locals' = 1 .. Len(locals) + f.numLocals
  BY DEF Call, Enter, Executes
<1>3. f.codeStart \in 1 .. Len(program.code) /\ n[f.codeStart] = f.numLocals
  BY DEF MayCall, KeptBy
<1>4. /\ frames \in Seq(Frame) /\ top \in Nat /\ Len(locals) \in Nat /\ ip \in Nat
      /\ base \in Nat
  BY DEF Inv, MachineOK
<1>5. f.numLocals \in Nat
  BY <1>3 DEF KeptBy
<1>6. Len(locals') = Len(locals) + f.numLocals
  BY <1>2, <1>4, <1>5, Lengths
<1>7. frame \in Frame /\ frame.returnIP = ip + 1 /\ frame.localsBase = base
  BY <1>4, <1>5 DEF Frame
<1> HIDE DEF frame, f
<1>8. /\ Len(frames') = top + 1 /\ frames'[top + 1] = frame
      /\ \A i \in 1 .. top : frames'[i] = frames[i]
  BY <1>2, <1>4, <1>7
<1>9. FitsBelow(frames'[top + 1], n, BaseAbove(frames', top + 1, base'))
  <2>1. (ip + 1) - 1 = ip
    BY <1>4
  <2> QED
    BY <1>1, <1>2, <1>7, <1>8, <2>1 DEF FitsBelow, BaseAbove
<1>10. ASSUME NEW i \in 1 .. top
       PROVE  FitsBelow(frames'[i], n, BaseAbove(frames', i, base'))
  <2>1. BaseAbove(frames', i, base') = BaseAbove(frames, i, base)
    <3>1. CASE i = top
      <4>1. i # top + 1 /\ frames'[i + 1] = frame
        BY <1>4, <1>8, <3>1
      <4> QED
        BY <1>7, <1>8, <3>1, <4>1 DEF BaseAbove
    <3>2. CASE i # top
      <4>1. i + 1 \in 1 .. top /\ i # top + 1
        BY <1>4, <3>2
      <4> QED
        BY <1>8, <3>2, <4>1 DEF BaseAbove
    <3> QED
      BY <3>1, <3>2
  <2> QED
    BY <1>1, <1>8, <2>1
<1>11. \A i \in 1 .. top + 1 : i \in 1 .. top \/ i = top + 1
  BY <1>4
<1>12. (\A i \in 1 .. Len(frames) : FitsBelow(frames[i], n, BaseAbove(frames, i, base)))'
  BY <1>8, <1>9, <1>10, <1>11 DEF FitsBelow, BaseAbove
<1>14. base' + n[ip'] <= Len(locals')
  BY <1>2, <1>3, <1>4, <1>5, <1>6
<1> QED
  BY <1>2, <1>3, <1>12, <1>14 DEF LocalsOK

\* A caller finds as many locals as the callee had, which is enough for it.
LEMMA RetLocals ==
    ASSUME Inv, Inv', NEW n, KeptBy(program, n), LocalsOK(n), Ret, frames # <<>>
    PROVE  LocalsOK(n)'
<1> DEFINE top == Len(frames)
           frame == frames[top]
           c == frame.returnIP - 1
           size == frame.localsBase + frame.numLocals
<1>1. /\ MachineOK /\ FramesOK(frames, base) /\ program' = program
      /\ \A i \in 1 .. top : FitsBelow(frames[i], n, BaseAbove(frames, i, base))
  BY DEF Inv, LocalsOK, Ret, Executes
<1>2. /\ top \in Nat \ {0} /\ frame \in Frame /\ FrameOK(frame, base)
      /\ frames \in Seq(Frame)
  BY <1>1, PopFrame DEF MachineOK
<1>3. /\ frames' = SubSeq(frames, 1, top - 1) /\ ip' = frame.returnIP
      /\ base' = frame.localsBase /\ DOMAIN locals' = 1 .. size
  BY DEF Ret, Leave, Resize
<1>4. /\ frame.localsBase \in Nat /\ frame.numLocals \in Nat /\ frame.returnIP \in Nat
  BY <1>2 DEF Frame
<1>5. Len(frames') = top - 1 /\ \A i \in 1 .. top - 1 : frames'[i] = frames[i]
  BY <1>2, <1>3, AllButLast
<1>6. /\ c \in 1 .. Len(program.code) /\ program.code[c].op = "CALL"
      /\ program.code[c].n \in 1 .. Len(program.functions)
      /\ frame.numLocals = program.functions[program.code[c].n].numLocals
  BY <1>2 DEF FrameOK
<1>7. Follows(program, c) = {c + 1} /\ c + 1 = frame.returnIP
  BY <1>4, <1>6 DEF Follows
<1>8. /\ frame.returnIP \in 1 .. Len(program.code) /\ n[frame.returnIP] = n[c]
      /\ n[c] <= frame.numLocals /\ n[c] \in Nat
  BY <1>6, <1>7 DEF KeptBy
<1> HIDE DEF frame, c, size
<1>9. Len(locals') = size
  BY <1>3, <1>4, Lengths DEF size
<1>10. base' + n[ip'] <= Len(locals')
  BY <1>3, <1>4, <1>8, <1>9 DEF size
<1>11. ASSUME NEW i \in 1 .. top - 1
       PROVE  FitsBelow(frames'[i], n, BaseAbove(frames', i, base'))
  <2>1. i \in 1 .. top /\ i # top
    BY <1>2
  <2>2. BaseAbove(frames', i, base') = BaseAbove(frames, i, base)
    <3>1. CASE i = top - 1
      <4>1. i + 1 = top
        BY <1>2, <3>1
      <4> QED
        BY <1>3, <1>5, <2>1, <3>1, <4>1 DEF BaseAbove, frame
    <3>2. CASE i # top - 1
      <4>1. i + 1 \in 1 .. top - 1
        BY <1>2, <3>2
      <4> QED
        BY <1>5, <2>1, <3>2, <4>1 DEF BaseAbove
    <3> QED
      BY <3>1, <3>2
  <2> QED
    BY <1>1, <1>5, <2>1, <2>2
<1>12. (\A i \in 1 .. Len(frames) : FitsBelow(frames[i], n, BaseAbove(frames, i, base)))'
  BY <1>5, <1>11 DEF FitsBelow, BaseAbove
<1> QED
  BY <1>1, <1>3, <1>8, <1>10, <1>12 DEF LocalsOK

LEMMA StepsKeepLocals ==
    ASSUME Inv, Inv', Next, NEW n, KeptBy(program, n), LocalsOK(n)
    PROVE  program' = program /\ LocalsOK(n)'
<1>1. Len(locals) \in Nat /\ Len(locals') \in Nat
  BY DEF Inv, MachineOK
<1>2. ASSUME program' = program, NEW v, Return(v)
      PROVE  program' = program /\ LocalsOK(n)'
  BY <1>1, <1>2, QuietLocals DEF Return
<1>3. ASSUME program' = program, UNCHANGED <<locals, frames, base>>,
             ip' \in Follows(program, ip)
      PROVE  program' = program /\ LocalsOK(n)'
  BY <1>1, <1>3, QuietLocals
<1>4. ASSUME NEW v, NEW k, Replace(k, v), program' = program,
             Follows(program, ip) = {ip + 1}
      PROVE  program' = program /\ LocalsOK(n)'
  BY <1>3, <1>4 DEF Replace
<1>5. CASE Push
  <2>1. Executes(PushOps) /\ Replace(0, Pushed(Instr))
    BY <1>5 DEF Push
  <2> QED
    BY <1>4, <2>1, Effect
<1>6. CASE Pop
  <2>1. Executes({"POP"}) /\ ip' = ip + 1 /\ UNCHANGED <<locals, frames, base>>
    BY <1>6 DEF Pop
  <2> QED
    BY <1>3, <2>1, Effect
<1>7. CASE Binary
  <2> DEFINE ops == ArithmeticOps \cup ComparisonOps \cup BitOps \cup LogicOps
  <2>1. Executes(ops) /\ \E v : Replace(2, v)
    BY <1>7 DEF Binary
  <2>2. ops \subseteq ArithmeticOps \cup DivisionOps \cup ComparisonOps
                      \cup BitOps \cup LogicOps
    OBVIOUS
  <2> HIDE DEF ops
  <2> QED
    BY <1>4, <2>1, <2>2, Effect
<1>8. CASE Divide
  <2>1. Executes(DivisionOps) /\ ((\E v : Return(v)) \/ (\E v : Replace(2, v)))
    BY <1>8 DEF Divide
  <2>2. program' = program /\ Follows(program, ip) = {ip + 1}
    BY <2>1, Effect
  <2> QED
    BY <1>2, <1>4, <2>1, <2>2
<1>9. CASE Negate
  <2>1. Executes({"NEG_INT"}) /\ ((\E v : Return(v)) \/ (\E v : Replace(1, v)))
    BY <1>9 DEF Negate
  <2>2. program' = program /\ Follows(program, ip) = {ip + 1}
    BY <2>1, Effect
  <2> QED
    BY <1>2, <1>4, <2>1, <2>2
<1>10. CASE Convert
  <2>1. Executes(UnaryOps) /\ Replace(1, Conversion(Instr, Top))
    BY <1>10 DEF Convert
  <2>2. program' = program /\ Follows(program, ip) = {ip + 1}
    BY <2>1, Effect
  <2> QED
    BY <1>4, <2>1, <2>2
<1>11. CASE StoreLocal
  <2>1. /\ Executes({"STORE_LOCAL"}) /\ UNCHANGED <<frames, base>>
        /\ ip' = ip \/ ip' = ip + 1
    BY <1>11 DEF StoreLocal, Return
  <2>2. program' = program /\ Follows(program, ip) = {ip + 1}
    BY <2>1, Effect
  <2>3. Len(locals) <= Len(locals')
    BY <1>11, StoresOK
  <2> QED
    BY <1>1, <2>1, <2>2, <2>3, QuietLocals
<1>12. CASE LoadLocal
  <2>1. Executes({"LOAD_LOCAL"}) /\ ((\E v : Return(v)) \/ (\E v : Replace(0, v)))
    BY <1>12 DEF LoadLocal
  <2>2. program' = program /\ Follows(program, ip) = {ip + 1}
    BY <2>1, Effect
  <2> QED
    BY <1>2, <1>4, <2>1, <2>2
<1>13. CASE Jump
  <2>1. Executes({"JMP"}) /\ ip' = Instr.n /\ UNCHANGED <<locals, frames, base>>
    BY <1>13 DEF Jump
  <2> QED
    BY <1>3, <2>1, Effect
<1>14. CASE JumpIfFalse
  <2>1. /\ Executes({"JMP_IF_FALSE"}) /\ ip' \in {ip + 1, Instr.n}
        /\ UNCHANGED <<locals, frames, base>>
    BY <1>14 DEF JumpIfFalse
  <2> QED
    BY <1>3, <2>1, Effect
<1>15. CASE Call
  <2>1. program' = program
    BY <1>15 DEF Call, Executes
  <2>2. CASE MayCall(Instr.n)
    BY <1>15, <2>1, <2>2, CallLocals
  <2>3. CASE ~MayCall(Instr.n)
    BY <1>2, <1>15, <2>1, <2>3 DEF Call
  <2> QED
    BY <2>2, <2>3
<1>16. CASE Ret
  <2>1. program' = program
    BY <1>16 DEF Ret, Executes
  <2>2. CASE frames # <<>>
    BY <1>16, <2>1, <2>2, RetLocals
  <2>3. CASE frames = <<>>
    BY <1>2, <1>16, <2>1, <2>3 DEF Ret
  <2> QED
    BY <2>2, <2>3
<1>17. CASE Halt \/ Throw \/ Raise
  BY <1>2, <1>17 DEF Halt, Throw, Raise, Executes
<1>18. CASE Exhaust
  BY <1>2, <1>18 DEF Exhaust
<1>19. CASE Done
  BY <1>1, <1>19, QuietLocals DEF Done, vmVars
<1> QED
  BY <1>5, <1>6, <1>7, <1>8, <1>9, <1>10, <1>11, <1>12, <1>13, <1>14, <1>15,
     <1>16, <1>17, <1>18, <1>19 DEF Next, Step

\* Every frame of the machine returns to just behind a call of the program and
\* gives back the locals of that call, and the bases of the frames rise.  In a
\* program in which no function calls one with fewer locals, the locals of the
\* open calls lie apart and are all there, so none reads or writes another's:
\* for every program and whatever the limits of stack, locals, calls and
\* iterations are (ConstVM::execute, CALL and RET).
THEOREM FramesStayNested == Spec => []FramesNested
<1>1. Init => LocalsInv
  <2>1. SUFFICES ASSUME Init PROVE LocalsInv
    OBVIOUS
  <2>2. Inv /\ ip = 1 /\ base = 0 /\ Len(frames) = 0
    BY <2>1, StartOK DEF Init, InitVM
  <2>3. ASSUME LocalsKept(program) PROVE LocalsOK(LocalsAt(program))
    <3>1. PICK n : n = LocalsAt(program) /\ KeptBy(program, n)
      BY <2>3, KeptCode
    <3>2. ip \in 1 .. Len(program.code) /\ n[ip] = 0
      BY <2>2, <3>1 DEF KeptBy
    <3>3. base + n[ip] <= Len(locals)
      BY <2>2, <3>2 DEF Inv, MachineOK
    <3>4. LocalsOK(n)
      BY <2>2, <3>2, <3>3 DEF LocalsOK
    <3> QED
      BY <3>1, <3>4
  <2> QED
    BY <2>2, <2>3 DEF LocalsInv
<1>2. LocalsInv /\ [Next]_vmVars => LocalsInv'
  <2>1. SUFFICES ASSUME LocalsInv, [Next]_vmVars PROVE LocalsInv'
    OBVIOUS
  <2>2. Inv /\ ip \in Nat \ {0} /\ Len(locals) \in Nat
    BY <2>1 DEF LocalsInv, Inv, MachineOK
  <2>3. CASE UNCHANGED vmVars
    <3>1. Inv' /\ program' = program
      BY <2>2, <2>3, SameLocals DEF vmVars
    <3>2. ASSUME LocalsKept(program)' PROVE LocalsOK(LocalsAt(program))'
      <4>1. PICK n : n = LocalsAt(program) /\ KeptBy(program, n) /\ LocalsOK(n)
        BY <2>1, <3>1, <3>2, KeptCode DEF LocalsInv
      <4>2. LocalsOK(n)'
        BY <2>2, <2>3, <4>1, QuietLocals DEF vmVars
      <4> QED
        BY <3>1, <4>1, <4>2
    <3> QED
      BY <3>1, <3>2 DEF LocalsInv
  <2>4. CASE Next
    <3>1. Inv'
      BY <2>2, <2>4, StepsOK
    <3>2. program' = program
      BY <2>4 DEF Next, Step, Push, Pop, Binary, Divide, Negate, Convert,
         StoreLocal, LoadLocal, Jump, JumpIfFalse, Call, Ret, Halt, Throw,
         Raise, Executes, Exhaust, Done, vmVars
    <3>3. ASSUME LocalsKept(program)' PROVE LocalsOK(LocalsAt(program))'
      <4>1. PICK n : n = LocalsAt(program) /\ KeptBy(program, n) /\ LocalsOK(n)
        BY <2>1, <3>2, <3>3, KeptCode DEF LocalsInv
      <4>2. LocalsOK(n)'
        BY <2>2, <2>4, <3>1, <4>1, StepsKeepLocals
      <4> QED
        BY <3>2, <4>1, <4>2
    <3> QED
      BY <3>1, <3>3 DEF LocalsInv
  <2> QED
    BY <2>1, <2>3, <2>4
<1>3. LocalsInv => FramesNested
  BY DEF LocalsInv, LocalsOK, FitsBelow, Inv, FramesNested, FramesOK, FrameOK,
     BaseAbove
<1> QED
  BY <1>1, <1>2, <1>3, PTL DEF Spec
=============================================================================
