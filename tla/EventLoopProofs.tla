-------------------------- MODULE EventLoopProofs --------------------------
(***************************************************************************)
(* Proofs about EventLoop, for every value of its constants: the types,    *)
(* the waiting set, who resumes a coroutine, and who destroys it.          *)
(***************************************************************************)
EXTENDS EventLoop, FiniteSetTheorems, TLAPS

-----------------------------------------------------------------------------
(***************************************************************************)
(* The waiting set                                                         *)
(***************************************************************************)

LEMMA MarkType ==
    ASSUME NEW w \in Seq(Coro), NEW c \in Coro
    PROVE  mark_waiting(w, c) \in Seq(Coro)
  BY EventLoopAssumption DEF mark_waiting

LEMMA RemoveType ==
    ASSUME NEW w \in Seq(Coro), NEW c \in Handle
    PROVE  remove_from_waiting(w, c) \in Seq(Coro)
<1> DEFINE i == CHOOSE k \in 1 .. Len(w) :
                   /\ w[k] = c
                   /\ \A j \in 1 .. k - 1 : w[j] # c
           r == [j \in 1 .. Len(w) - 1 |-> IF j = i THEN w[Len(w)] ELSE w[j]]
<1>1. CASE ~is_in_waiting_set(w, c)
  BY <1>1 DEF remove_from_waiting
<1>2. CASE is_in_waiting_set(w, c)
  <2>1. Len(w) \in Nat /\ Len(w) >= 1
    BY <1>2 DEF is_in_waiting_set
  <2>2. \A j \in 1 .. Len(w) : w[j] \in Coro
    OBVIOUS
  <2>3. Len(w) - 1 \in Nat
    BY <2>1
  <2>4. r \in [1 .. Len(w) - 1 -> Coro]
    BY <2>1, <2>2
  <2>5. r \in Seq(Coro)
    BY <2>3, <2>4
  <2> QED
    BY <1>2, <2>5 DEF remove_from_waiting
<1> QED
  BY <1>1, <1>2

LEMMA RemoveEmpty ==
    ASSUME NEW c
    PROVE  /\ ~is_in_waiting_set(<<>>, c)
           /\ remove_from_waiting(<<>>, c) = <<>>
  BY DEF is_in_waiting_set, remove_from_waiting

LEMMA RemoveOnly ==
    ASSUME NEW c \in Coro
    PROVE  /\ is_in_waiting_set(<<c>>, c)
           /\ remove_from_waiting(<<c>>, c) = <<>>
<1>1. Len(<<c>>) = 1 /\ <<c>>[1] = c
  OBVIOUS
<1>2. is_in_waiting_set(<<c>>, c)
  BY <1>1 DEF is_in_waiting_set
<1> DEFINE i == CHOOSE k \in 1 .. Len(<<c>>) :
                   /\ <<c>>[k] = c
                   /\ \A j \in 1 .. k - 1 : <<c>>[j] # c
           r == [j \in 1 .. Len(<<c>>) - 1 |->
                    IF j = i THEN <<c>>[Len(<<c>>)] ELSE <<c>>[j]]
<1>3. r \in Seq(Coro) /\ Len(r) = 0
  <2>1. 1 .. Len(<<c>>) - 1 = {}
    BY <1>1
  <2>2. r \in [1 .. 0 -> Coro]
    BY <2>1
  <2> QED
    BY <2>1, <2>2
<1>4. r = <<>>
  BY <1>3
<1> QED
  BY <1>2, <1>4 DEF remove_from_waiting

LEMMA MarkEmpty ==
    ASSUME NEW c \in Coro
    PROVE  mark_waiting(<<>>, c) = <<c>>
  BY EventLoopAssumption DEF mark_waiting

-----------------------------------------------------------------------------
(***************************************************************************)
(* Type correctness                                                        *)
(***************************************************************************)

\* What the types leave out: a loop on the stack has a main coroutine, and a
\* current one while a body runs or has just given control back; only the
\* innermost loop is anywhere else than inside a body; ...
StackInv ==
    /\ \A d \in 1 .. depth : loop[d].main \in Coro
    /\ \A d \in 1 .. depth :
          loop[d].pc \in {"body", "resumed"} => loop[d].cur \in Coro
    /\ \A d \in 1 .. depth : d < depth => loop[d].pc = "body"

\* ... and the I/O thread serves a request of a coroutine.
RequestInv == ioPc = "work" => ioReq \in Coro

TypeInv == TypeOK /\ StackInv /\ RequestInv

LEMMA NumberTypes ==
    /\ MaxCoros \in Nat /\ MaxOps \in Nat
    /\ MaxDepth \in Nat /\ MaxDepth >= 1
    /\ Coro \subseteq Nat /\ None \notin Coro
  BY EventLoopAssumption DEF Coro, None

LEMMA SetFrame ==
    ASSUME NEW l \in [1 .. MaxDepth -> Frame], NEW n \in 1 .. MaxDepth,
           NEW f \in Frame,
           NEW m, m = [l EXCEPT ![n] = f]
    PROVE  /\ m \in [1 .. MaxDepth -> Frame]
           /\ m[n] = f
           /\ \A d \in 1 .. MaxDepth : d # n => m[d] = l[d]
  OBVIOUS

LEMMA StackStep ==
    ASSUME TypeInv, depth \in 1 .. MaxDepth, depth' = depth,
           \A d \in 1 .. MaxDepth : d # depth => loop'[d] = loop[d],
           loop'[depth].main = loop[depth].main,
           loop'[depth].pc \in {"body", "resumed"} => loop'[depth].cur \in Coro
    PROVE  StackInv'
  BY NumberTypes DEF TypeInv, TypeOK, StackInv

LEMMA TypeInit == Init => TypeInv
<1> SUFFICES ASSUME Init PROVE TypeInv
  OBVIOUS
<1>1. NoFrame \in Frame
  BY DEF NoFrame, Frame, Handle
<1>2. loop \in [1 .. MaxDepth -> Frame]
  BY <1>1 DEF Init
<1>3. /\ child \in [Coro -> Handle] /\ continuation \in [Coro -> Handle]
      /\ ioReq \in Handle
  BY DEF Init, Handle
<1>4. co \in [Coro -> CoroState]
  BY DEF Init, CoroState
<1>5. TypeOK
  <2>1. <<>> \in Seq(Coro)
    OBVIOUS
  <2>2. 0 \in 0 .. MaxDepth /\ 0 \in 0 .. MaxOps
    BY NumberTypes
  <2> QED
    BY <1>2, <1>3, <1>4, <2>1, <2>2 DEF Init, TypeOK
<1> QED
  BY <1>5, NumberTypes DEF Init, TypeInv, StackInv, RequestInv

LEMMA PushType ==
    ASSUME TypeInv, depth < MaxDepth, NEW c \in Coro, PushLoop(c)
    PROVE  /\ depth' \in 0 .. MaxDepth
           /\ loop' \in [1 .. MaxDepth -> Frame]
           /\ ready' \in Seq(Coro)
           /\ (\A d \in 1 .. depth : d < depth \/ loop[d].pc = "body")
                  => StackInv'
<1> DEFINE f == [main |-> c, pc |-> "top", cur |-> None, drain |-> FALSE]
<1>1. f \in Frame
  BY DEF Frame, Handle
<1>2. /\ depth' = depth + 1
      /\ depth' \in 1 .. MaxDepth
      /\ loop' = [loop EXCEPT ![depth'] = f]
  BY NumberTypes DEF PushLoop, TypeInv, TypeOK
<1>3. /\ loop' \in [1 .. MaxDepth -> Frame]
      /\ loop'[depth'] = f
      /\ \A d \in 1 .. MaxDepth : d # depth' => loop'[d] = loop[d]
  BY <1>1, <1>2, SetFrame DEF TypeInv, TypeOK
<1>4. f.main = c /\ f.pc = "top"
  OBVIOUS
<1>5. ready' \in Seq(Coro)
  BY DEF PushLoop, TypeInv, TypeOK
<1> HIDE DEF f
<1> QED
  BY <1>2, <1>3, <1>4, <1>5, NumberTypes DEF StackInv, TypeInv, TypeOK

LEMMA TypeHost == TypeInv /\ HostNext => TypeInv'
<1> SUFFICES ASSUME TypeInv, HostNext PROVE TypeInv'
  OBVIOUS
<1> USE NumberTypes DEF TypeInv, TypeOK, RequestInv, InHost, ioVars
<1>1. CASE HostSpawn
  BY <1>1 DEF HostSpawn, CoroState, StackInv
<1>2. CASE HostAwait
  BY <1>2, PushType DEF HostAwait, CoroState
<1>3. CASE HostShutdown
  BY <1>3 DEF HostShutdown, StackInv
<1>4. CASE HostJoin
  BY <1>4 DEF HostJoin, StackInv
<1>5. CASE HostFree
  BY <1>5 DEF HostFree, StackInv
<1> QED
  BY <1>1, <1>2, <1>3, <1>4, <1>5 DEF HostNext

LEMMA CompletedType ==
    ASSUME TypeInv, NEW h \in Coro, NEW q \in Seq(Coro),
           process_completed_coro(h, q)
    PROVE  /\ continuation' \in [Coro -> Handle]
           /\ waiting' \in Seq(Coro)
           /\ ready' \in Seq(Coro)
           /\ co' \in [Coro -> CoroState]
<1>1. h \in Handle /\ continuation[h] \in Handle
  BY DEF TypeInv, TypeOK, Handle
<1>2. waiting' \in Seq(Coro)
  BY <1>1, RemoveType DEF process_completed_coro, TypeInv, TypeOK
<1> QED
  BY <1>1, <1>2 DEF process_completed_coro, TypeInv, TypeOK, Handle, CoroState

LEMMA GotoType ==
    ASSUME TypeInv, depth \in 1 .. MaxDepth, depth' = depth,
           NEW p \in {"top", "body", "resumed", "check"}, Goto(p),
           p \in {"body", "resumed"} => Cur \in Coro
    PROVE  loop' \in [1 .. MaxDepth -> Frame] /\ StackInv'
<1>1. /\ loop' \in [1 .. MaxDepth -> Frame]
      /\ loop'[depth].pc = p /\ loop'[depth].cur = Cur
      /\ loop'[depth].main = loop[depth].main
      /\ \A d \in 1 .. MaxDepth : d # depth => loop'[d] = loop[d]
  <2>1. loop \in [1 .. MaxDepth -> Frame] /\ Cur = loop[depth].cur
    BY DEF TypeInv, TypeOK, Cur, Top
  <2>2. loop' = [loop EXCEPT ![depth].pc = p]
    BY DEF Goto
  <2> QED
    BY <2>1, <2>2 DEF Frame
<1> QED
  BY <1>1, StackStep

LEMMA TypeLoop == TypeInv /\ LoopNext => TypeInv'
<1> SUFFICES ASSUME TypeInv, LoopNext PROVE TypeInv'
  OBVIOUS
<1>1. depth \in 1 .. MaxDepth /\ depth' \in 0 .. MaxDepth
  BY NumberTypes DEF LoopNext, LoopDequeue, LoopResumed, LoopSpin, LoopCheck,
     LoopReturn, InLoop, TypeInv, TypeOK
<1>2. AfterTask \in {"top", "check"}
  BY DEF AfterTask
<1>3. CASE LoopDequeue
  <2> DEFINE h == Head(ready)
  <2>1. h \in Coro /\ Tail(ready) \in Seq(Coro)
    BY <1>3 DEF LoopDequeue, TypeInv, TypeOK
  <2>2. /\ UNCHANGED <<host, running, depth, child, pending, ioPc, ioReq, ops>>
    BY <1>3 DEF LoopDequeue, ioVars
  <2>3. CASE /\ co' = [co EXCEPT ![h] = Resumed(h)]
             /\ loop' = [loop EXCEPT ![depth].pc = "body", ![depth].cur = h]
             /\ ready' = Tail(ready)
             /\ UNCHANGED <<waiting, continuation, fault>>
    <3>1. /\ loop' \in [1 .. MaxDepth -> Frame]
          /\ loop'[depth].pc = "body" /\ loop'[depth].cur = h
          /\ loop'[depth].main = loop[depth].main
          /\ \A d \in 1 .. MaxDepth : d # depth => loop'[d] = loop[d]
      <4>1. loop \in [1 .. MaxDepth -> Frame] /\ h \in Handle
        BY <2>1 DEF TypeInv, TypeOK, Handle
      <4>2. loop' = [loop EXCEPT ![depth].pc = "body", ![depth].cur = h]
        BY <2>3
      <4> QED
        BY <1>1, <4>1, <4>2 DEF Frame
    <3>2. StackInv'
      BY <1>1, <2>1, <2>2, <3>1, StackStep
    <3> QED
      BY <2>1, <2>2, <2>3, <3>1, <3>2
      DEF TypeInv, TypeOK, RequestInv, Resumed, CoroState
  <2>4. CASE /\ process_completed_coro(h, Tail(ready))
             /\ Goto(AfterTask)
             /\ UNCHANGED fault
    <3>1. loop' \in [1 .. MaxDepth -> Frame] /\ StackInv'
      BY <1>1, <1>2, <2>2, <2>4, GotoType
    <3> QED
      BY <2>1, <2>2, <2>4, <3>1, CompletedType
      DEF TypeInv, TypeOK, RequestInv
  <2>5. CASE fault' = TRUE /\ UNCHANGED <<co, loop, ready, waiting, continuation>>
    BY <2>2, <2>5 DEF TypeInv, TypeOK, StackInv, RequestInv
  <2> QED
    BY <1>3, <2>3, <2>4, <2>5 DEF LoopDequeue
<1>4. CASE LoopResumed
  <2>1. Cur \in Coro
    BY <1>1, <1>4 DEF LoopResumed, InLoop, Top, Cur, TypeInv, StackInv
  <2>2. loop' \in [1 .. MaxDepth -> Frame] /\ StackInv'
    BY <1>1, <1>2, <1>4, GotoType DEF LoopResumed
  <2>3. /\ continuation' \in [Coro -> Handle]
        /\ waiting' \in Seq(Coro)
        /\ ready' \in Seq(Coro)
        /\ co' \in [Coro -> CoroState]
    <3>1. CASE process_completed_coro(Cur, ready)
      BY <2>1, <3>1, CompletedType DEF TypeInv, TypeOK
    <3>2. CASE /\ waiting' = remove_from_waiting(waiting, Cur)
               /\ ready' = IF is_in_waiting_set(waiting, Cur) THEN ready
                           ELSE Append(ready, Cur)
               /\ UNCHANGED <<co, continuation>>
      <4>1. waiting' \in Seq(Coro)
        BY <2>1, <3>2, RemoveType DEF TypeInv, TypeOK, Handle
      <4>2. ready' \in Seq(Coro)
        BY <2>1, <3>2 DEF TypeInv, TypeOK
      <4> QED
        BY <3>2, <4>1, <4>2 DEF TypeInv, TypeOK
    <3> QED
      BY <1>4, <3>1, <3>2 DEF LoopResumed
  <2> QED
    BY <1>4, <2>2, <2>3
    DEF LoopResumed, TypeInv, TypeOK, RequestInv, ioVars
<1>5. CASE LoopSpin
  <2>1. loop' \in [1 .. MaxDepth -> Frame] /\ StackInv'
    BY <1>1, <1>5, GotoType DEF LoopSpin
  <2> QED
    BY <1>5, <2>1 DEF LoopSpin, TypeInv, TypeOK, RequestInv, ioVars
<1>6. CASE LoopCheck
  <2> DEFINE b == co[Top.main] = "done"
  <2>1. /\ loop' \in [1 .. MaxDepth -> Frame]
        /\ loop'[depth].pc = "top"
        /\ loop'[depth].main = loop[depth].main
        /\ \A d \in 1 .. MaxDepth : d # depth => loop'[d] = loop[d]
    <3>1. b \in BOOLEAN
      OBVIOUS
    <3>2. loop' = [loop EXCEPT ![depth].pc = "top", ![depth].drain = b]
      BY <1>6 DEF LoopCheck
    <3> HIDE DEF b
    <3> QED
      <4>1. loop \in [1 .. MaxDepth -> Frame]
        BY DEF TypeInv, TypeOK
      <4> QED
        BY <1>1, <3>1, <3>2, <4>1 DEF Frame
  <2>2. StackInv'
    BY <1>1, <1>6, <2>1, StackStep DEF LoopCheck
  <2> QED
    BY <1>6, <2>1, <2>2 DEF LoopCheck, TypeInv, TypeOK, RequestInv, ioVars
<1>7. CASE LoopReturn
  <2>1. NoFrame \in Frame
    BY DEF NoFrame, Frame, Handle
  <2>2. /\ loop' \in [1 .. MaxDepth -> Frame]
        /\ \A d \in 1 .. MaxDepth : d # depth => loop'[d] = loop[d]
    BY <1>1, <1>7, <2>1, SetFrame DEF LoopReturn, TypeInv, TypeOK
  <2>3. StackInv'
    BY <1>1, <1>7, <2>2, NumberTypes DEF LoopReturn, TypeInv, StackInv
  <2>4. co' \in [Coro -> CoroState]
    BY <1>7 DEF LoopReturn, TypeInv, TypeOK, CoroState
  <2> QED
    BY <1>1, <1>7, <2>2, <2>3, <2>4
    DEF LoopReturn, TypeInv, TypeOK, RequestInv, ioVars
<1> QED
  BY <1>3, <1>4, <1>5, <1>6, <1>7 DEF LoopNext

LEMMA TypeBody == TypeInv /\ BodyNext => TypeInv'
<1> SUFFICES ASSUME TypeInv, BodyNext PROVE TypeInv'
  OBVIOUS
<1>1. depth \in 1 .. MaxDepth /\ loop[depth].pc = "body" /\ Cur \in Coro
  <2>1. InLoop("body")
    BY DEF BodyNext, BodySpawn, BodyAwait, BodyAwaitReady, BodySyncAwait,
       BodySubmitIo, BodySuspendIo, BodyYield, BodyReturn, InBody
  <2> QED
    BY <2>1, NumberTypes DEF InLoop, Top, Cur, TypeInv, TypeOK, StackInv
<1> USE <1>1, NumberTypes DEF TypeInv, TypeOK, RequestInv, ioVars
<1>2. CASE BodySpawn
  BY <1>2 DEF BodySpawn, CoroState, StackInv
<1>3. CASE BodyAwait
  <2>1. PICK c \in Coro :
            /\ co' = [co EXCEPT ![c] = "init", ![Cur] = "await"]
            /\ child' = [child EXCEPT ![Cur] = c]
            /\ continuation' = [continuation EXCEPT ![c] = Cur]
            /\ ready' = IF is_in_waiting_set(waiting', c) THEN ready
                        ELSE Append(ready, c)
    BY <1>3 DEF BodyAwait
  <2>2. waiting' \in Seq(Coro)
    BY <1>3, MarkType DEF BodyAwait
  <2>3. loop' \in [1 .. MaxDepth -> Frame] /\ StackInv'
    BY <1>3, GotoType DEF BodyAwait
  <2>4. ready' \in Seq(Coro)
    BY <2>1
  <2>5. co' \in [Coro -> CoroState]
    BY <2>1 DEF CoroState
  <2>6. child' \in [Coro -> Handle] /\ continuation' \in [Coro -> Handle]
    BY <2>1 DEF Handle
  <2> QED
    BY <1>3, <2>2, <2>3, <2>4, <2>5, <2>6 DEF BodyAwait
<1>4. CASE BodyAwaitReady
  BY <1>4 DEF BodyAwaitReady, CoroState, Handle, StackInv
<1>5. CASE BodySyncAwait
  <2>1. PICK c \in Coro :
            co' = [co EXCEPT ![c] = "init", ![Cur] = "sync"] /\ PushLoop(c)
    BY <1>5 DEF BodySyncAwait
  <2>2. co' \in [Coro -> CoroState]
    BY <2>1 DEF CoroState
  <2>3. depth < MaxDepth
    BY <1>5 DEF BodySyncAwait
  <2>4. \A d \in 1 .. depth : d < depth \/ loop[d].pc = "body"
    OBVIOUS
  <2>5. /\ depth' \in 0 .. MaxDepth
        /\ loop' \in [1 .. MaxDepth -> Frame]
        /\ ready' \in Seq(Coro)
        /\ StackInv'
    BY <2>1, <2>3, <2>4, PushType
  <2> QED
    BY <1>5, <2>2, <2>5 DEF BodySyncAwait
<1>6. CASE BodySubmitIo
  BY <1>6 DEF BodySubmitIo, CoroState, StackInv
<1>7. CASE BodySuspendIo
  BY <1>7, MarkType, GotoType DEF BodySuspendIo, CoroState
<1>8. CASE BodyYield
  <2>1. loop' \in [1 .. MaxDepth -> Frame] /\ StackInv'
    BY <1>8, GotoType DEF BodyYield
  <2>2. co' \in [Coro -> CoroState] /\ ops' \in 0 .. MaxOps
    BY <1>8 DEF BodyYield, CoroState
  <2> QED
    BY <1>8, <2>1, <2>2 DEF BodyYield
<1>9. CASE BodyReturn
  BY <1>9, GotoType DEF BodyReturn, CoroState
<1> QED
  BY <1>2, <1>3, <1>4, <1>5, <1>6, <1>7, <1>8, <1>9 DEF BodyNext

LEMMA TypeIo == TypeInv /\ IoThread => TypeInv'
<1> SUFFICES ASSUME TypeInv, IoThread PROVE TypeInv'
  OBVIOUS
<1> USE NumberTypes DEF TypeInv, TypeOK, StackInv, RequestInv, Handle
<1>1. CASE IoCheck
  BY <1>1 DEF IoCheck
<1>2. CASE IoTake
  <2>1. CASE pending = <<>>
    BY <1>2, <2>1 DEF IoTake
  <2>2. CASE pending # <<>>
    <3>1. Head(pending) \in Coro /\ Tail(pending) \in Seq(Coro)
      BY <2>2
    <3> QED
      BY <1>2, <2>2, <3>1 DEF IoTake
  <2> QED
    BY <2>1, <2>2
<1>3. CASE IoComplete
  BY <1>3 DEF IoComplete
<1> QED
  BY <1>1, <1>2, <1>3 DEF IoThread

LEMMA TypeStep == TypeInv /\ [Next]_vars => TypeInv'
<1> SUFFICES ASSUME TypeInv, [Next]_vars PROVE TypeInv'
  OBVIOUS
<1>1. CASE MainThread
  BY <1>1, TypeHost, TypeLoop, TypeBody DEF MainThread
<1>2. CASE IoThread
  BY <1>2, TypeIo
<1>3. CASE Terminated \/ UNCHANGED vars
  BY <1>3 DEF Terminated, vars, TypeInv, TypeOK, StackInv, RequestInv
<1> QED
  BY <1>1, <1>2, <1>3 DEF Next

\* Every reachable state of the runtime has the types TypeOK gives.
THEOREM TypeCorrect == Spec => []TypeOK
<1>1. TypeInv => TypeOK
  BY DEF TypeInv
<1> QED
  BY TypeInit, TypeStep, <1>1, PTL DEF Spec

-----------------------------------------------------------------------------
(***************************************************************************)
(* The waiting set never holds two handles                                 *)
(***************************************************************************)

LEMMA WaitHost == TypeInv /\ WaitingExact /\ HostNext => WaitingExact'
<1> SUFFICES ASSUME TypeInv, WaitingExact, HostNext PROVE WaitingExact'
  OBVIOUS
<1>1. waiting' = waiting /\ waiting = <<>>
  BY DEF HostNext, HostSpawn, HostAwait, HostShutdown, HostJoin, HostFree,
     InHost, WaitingExact, JustMarked
<1>2. ~JustMarked'
  <2>1. CASE HostAwait
    <3>1. PICK c \in Coro : PushLoop(c)
      BY <2>1 DEF HostAwait
    <3>2. depth' = 1 /\ loop'[1].pc = "top"
      BY <2>1, <3>1, NumberTypes
      DEF HostAwait, PushLoop, InHost, TypeInv, TypeOK
    <3> QED
      BY <3>2 DEF JustMarked, Top
  <2>2. CASE ~HostAwait
    <3>1. depth' = 0
      BY <2>2 DEF HostNext, HostSpawn, HostShutdown, HostJoin, HostFree, InHost
    <3> QED
      BY <3>1 DEF JustMarked
  <2> QED
    BY <2>1, <2>2
<1> QED
  BY <1>1, <1>2 DEF WaitingExact

LEMMA WaitLoop == TypeInv /\ WaitingExact /\ LoopNext => WaitingExact'
<1> SUFFICES ASSUME TypeInv, WaitingExact, LoopNext PROVE WaitingExact'
  OBVIOUS
<1>1. depth \in 1 .. MaxDepth /\ loop \in [1 .. MaxDepth -> Frame]
  BY NumberTypes DEF LoopNext, LoopDequeue, LoopResumed, LoopSpin, LoopCheck,
     LoopReturn, InLoop, TypeInv, TypeOK
<1>2. AfterTask \in {"top", "check"}
  BY DEF AfterTask
<1>3. ASSUME NEW p \in {"top", "body", "check"}, depth' = depth,
             loop'[depth].pc = p
      PROVE  ~JustMarked'
  BY <1>3 DEF JustMarked, Top
<1>4. CASE LoopDequeue
  <2>1. waiting = <<>>
    BY <1>4 DEF LoopDequeue, InLoop, WaitingExact, JustMarked
  <2>2. waiting' = <<>>
    BY <1>4, <2>1, RemoveEmpty DEF LoopDequeue, process_completed_coro
  <2>3. loop'[depth].pc \in {"top", "body", "check"}
    BY <1>1, <1>2, <1>4 DEF LoopDequeue, Goto, InLoop, Top, Frame
  <2>4. ~JustMarked'
    BY <1>3, <1>4, <2>3 DEF LoopDequeue
  <2> QED
    BY <2>2, <2>4 DEF WaitingExact
<1>5. CASE LoopResumed
  <2>1. Cur \in Coro
    BY <1>1, <1>5 DEF LoopResumed, InLoop, Top, Cur, TypeInv, StackInv
  <2>2. waiting' = <<>>
    <3>1. CASE JustMarked
      <4>1. waiting = <<Cur>>
        BY <3>1 DEF WaitingExact
      <4>2. waiting' = remove_from_waiting(waiting, Cur)
        BY <1>5, <3>1 DEF LoopResumed, JustMarked
      <4> QED
        BY <2>1, <4>1, <4>2, RemoveOnly
    <3>2. CASE ~JustMarked
      <4>1. waiting = <<>>
        BY <3>2 DEF WaitingExact
      <4> QED
        BY <1>5, <4>1, RemoveEmpty DEF LoopResumed, process_completed_coro
    <3> QED
      BY <3>1, <3>2
  <2>3. loop'[depth].pc \in {"top", "check"} /\ depth' = depth
    BY <1>1, <1>2, <1>5 DEF LoopResumed, Goto
  <2> QED
    BY <1>3, <2>2, <2>3 DEF WaitingExact
<1>6. CASE LoopSpin
  <2>1. waiting' = <<>>
    BY <1>6 DEF LoopSpin, InLoop, WaitingExact, JustMarked
  <2>2. loop'[depth].pc = "check" /\ depth' = depth
    BY <1>1, <1>6 DEF LoopSpin, Goto
  <2> QED
    BY <1>3, <2>1, <2>2 DEF WaitingExact
<1>7. CASE LoopCheck
  <2>1. waiting' = <<>>
    BY <1>7 DEF LoopCheck, InLoop, WaitingExact, JustMarked
  <2>2. loop'[depth].pc = "top" /\ depth' = depth
    BY <1>1, <1>7 DEF LoopCheck, Frame
  <2> QED
    BY <1>3, <2>1, <2>2 DEF WaitingExact
<1>8. CASE LoopReturn
  <2>1. waiting' = <<>>
    BY <1>8 DEF LoopReturn, InLoop, WaitingExact, JustMarked
  <2>2. depth' = depth - 1
    BY <1>8 DEF LoopReturn
  <2>3. depth' > 0 => loop'[depth'].pc = "body"
    BY <1>1, <1>8, <2>2, NumberTypes DEF LoopReturn, TypeInv, TypeOK, StackInv
  <2>4. ~JustMarked'
    BY <2>3 DEF JustMarked, Top
  <2> QED
    BY <2>1, <2>4 DEF WaitingExact
<1> QED
  BY <1>4, <1>5, <1>6, <1>7, <1>8 DEF LoopNext

LEMMA WaitBody == TypeInv /\ WaitingExact /\ BodyNext => WaitingExact'
<1> SUFFICES ASSUME TypeInv, WaitingExact, BodyNext PROVE WaitingExact'
  OBVIOUS
<1>1. InLoop("body")
  BY DEF BodyNext, BodySpawn, BodyAwait, BodyAwaitReady, BodySyncAwait,
     BodySubmitIo, BodySuspendIo, BodyYield, BodyReturn, InBody
<1>2. /\ depth \in 1 .. MaxDepth /\ loop \in [1 .. MaxDepth -> Frame]
      /\ loop[depth].pc = "body" /\ Cur = loop[depth].cur /\ Cur \in Coro
  BY <1>1, NumberTypes DEF InLoop, Top, Cur, TypeInv, TypeOK, StackInv
<1>3. waiting = <<>>
  BY <1>1 DEF InLoop, WaitingExact, JustMarked
<1>4. co \in [Coro -> CoroState]
  BY DEF TypeInv, TypeOK
<1>5. ASSUME Goto("resumed"), depth' = depth
      PROVE  depth' > 0 /\ Top'.pc = "resumed" /\ Cur' = Cur
  BY <1>2, <1>5 DEF Goto, Top, Cur, Frame
<1>6. CASE BodySpawn \/ BodyAwaitReady \/ BodySubmitIo
  <2>1. waiting' = <<>> /\ loop' = loop /\ depth' = depth
    BY <1>3, <1>6 DEF BodySpawn, BodyAwaitReady, BodySubmitIo
  <2> QED
    BY <1>2, <2>1 DEF WaitingExact, JustMarked, Top
<1>7. CASE BodyAwait
  <2>1. PICK c \in Coro :
            /\ co[c] = "none"
            /\ co' = [co EXCEPT ![c] = "init", ![Cur] = "await"]
    BY <1>7 DEF BodyAwait, Fresh
  <2>2. co'[Cur] = "await"
    BY <1>2, <1>4, <2>1
  <2>3. waiting' = <<Cur>>
    BY <1>2, <1>3, <1>7, MarkEmpty DEF BodyAwait
  <2>4. depth' > 0 /\ Top'.pc = "resumed" /\ Cur' = Cur
    BY <1>5, <1>7 DEF BodyAwait
  <2>5. JustMarked'
    BY <2>2, <2>4 DEF JustMarked
  <2> QED
    BY <2>3, <2>4, <2>5 DEF WaitingExact
<1>8. CASE BodySyncAwait
  <2>1. PICK c \in Coro : PushLoop(c)
    BY <1>8 DEF BodySyncAwait
  <2>2. depth' \in 1 .. MaxDepth /\ loop'[depth'].pc = "top"
    BY <1>2, <1>8, <2>1, NumberTypes DEF BodySyncAwait, PushLoop
  <2>3. ~JustMarked'
    BY <2>2 DEF JustMarked, Top
  <2> QED
    BY <1>3, <1>8, <2>3 DEF BodySyncAwait, WaitingExact
<1>9. CASE BodySuspendIo
  <2>1. co'[Cur] = "io"
    BY <1>2, <1>4, <1>9 DEF BodySuspendIo
  <2>2. depth' > 0 /\ Top'.pc = "resumed" /\ Cur' = Cur
    BY <1>5, <1>9 DEF BodySuspendIo
  <2>3. JustMarked' <=> SuspendMarks
    BY <2>1, <2>2, EventLoopAssumption DEF JustMarked
  <2>4. waiting' = IF SuspendMarks THEN <<Cur>> ELSE <<>>
    BY <1>2, <1>3, <1>9, MarkEmpty DEF BodySuspendIo
  <2> QED
    BY <2>2, <2>3, <2>4 DEF WaitingExact
<1>10. CASE BodyYield \/ BodyReturn
  <2>1. co'[Cur] \in {"yield", "done"}
    BY <1>2, <1>4, <1>10 DEF BodyYield, BodyReturn
  <2>2. depth' > 0 /\ Top'.pc = "resumed" /\ Cur' = Cur
    BY <1>5, <1>10 DEF BodyYield, BodyReturn
  <2>3. ~JustMarked'
    BY <2>1, <2>2 DEF JustMarked
  <2> QED
    BY <1>3, <1>10, <2>3 DEF BodyYield, BodyReturn, WaitingExact
<1> QED
  BY <1>6, <1>7, <1>8, <1>9, <1>10 DEF BodyNext

LEMMA WaitIo ==
    WaitingExact /\ (IoThread \/ Terminated \/ UNCHANGED vars) => WaitingExact'
<1> SUFFICES ASSUME WaitingExact, IoThread \/ Terminated \/ UNCHANGED vars
             PROVE  WaitingExact'
  OBVIOUS
<1>1. UNCHANGED <<depth, loop, co, waiting>>
  BY DEF IoThread, IoCheck, IoTake, IoComplete, Terminated, vars
<1> QED
  BY <1>1 DEF WaitingExact, JustMarked, Top, Cur

\* waiting_handles holds the handle of the coroutine that has just suspended
\* for an await or for I/O, and nothing at any other time, however deeply
\* event loops nest and whatever DJINN_MAX_WAITING is.
THEOREM WaitingSet == Spec => []WaitingExact
<1>1. Init => WaitingExact
  BY DEF Init, WaitingExact, JustMarked
<1>2. TypeInv /\ WaitingExact /\ [Next]_vars => WaitingExact'
  BY WaitHost, WaitLoop, WaitBody, WaitIo DEF Next, MainThread
<1> QED
  BY TypeInit, TypeStep, <1>1, <1>2, PTL DEF Spec

-----------------------------------------------------------------------------
(***************************************************************************)
(* Counting                                                                *)
(***************************************************************************)

LEMMA OccurrencesType ==
    ASSUME NEW s \in Seq(Coro), NEW c
    PROVE  /\ IsFiniteSet({i \in 1 .. Len(s) : s[i] = c})
           /\ Occurrences(s, c) \in Nat
           /\ Occurrences(s, c) = 0 <=> \A i \in 1 .. Len(s) : s[i] # c
<1> DEFINE S == {i \in 1 .. Len(s) : s[i] = c}
<1>1. IsFiniteSet(1 .. Len(s)) /\ S \in SUBSET (1 .. Len(s))
  BY FS_Interval
<1>2. IsFiniteSet(S)
  BY <1>1, FS_Subset
<1>3. Cardinality(S) \in Nat /\ (Cardinality(S) = 0 <=> S = {})
  BY <1>2, FS_CardinalityType, FS_EmptySet
<1> QED
  BY <1>2, <1>3 DEF Occurrences

LEMMA OccurrencesEmpty ==
    ASSUME NEW c PROVE Occurrences(<<>>, c) = 0
<1>1. {i \in 1 .. Len(<<>>) : <<>>[i] = c} = {}
  OBVIOUS
<1> QED
  BY <1>1, FS_EmptySet DEF Occurrences

LEMMA OccurrencesAppend ==
    ASSUME NEW s \in Seq(Coro), NEW x \in Coro, NEW c
    PROVE  Occurrences(Append(s, x), c)
               = Occurrences(s, c) + (IF x = c THEN 1 ELSE 0)
<1> DEFINE S == {i \in 1 .. Len(s) : s[i] = c}
           t == Append(s, x)
           T == {i \in 1 .. Len(t) : t[i] = c}
           n == Len(s) + 1
<1>1. n \notin S
  OBVIOUS
<1>3. IsFiniteSet(S) /\ Cardinality(S) \in Nat
  BY OccurrencesType DEF Occurrences
<1>2. T = IF x = c THEN S \cup {n} ELSE S
  <2>1. Len(t) = n /\ t[n] = x /\ \A i \in 1 .. Len(s) : t[i] = s[i]
    OBVIOUS
  <2> QED
    BY <2>1
<1>4. Cardinality(S \cup {n}) = Cardinality(S) + 1
  BY <1>1, <1>3, FS_AddElement
<1>5. Cardinality(T) = Cardinality(S) + (IF x = c THEN 1 ELSE 0)
  <2> HIDE DEF S, T
  <2> QED
    BY <1>2, <1>3, <1>4
<1> QED
  BY <1>5 DEF Occurrences

\* A request put in front of the list counts like one put behind it.
LEMMA OccurrencesShift ==
    ASSUME NEW s \in Seq(Coro), NEW t \in Seq(Coro), NEW c,
           Len(t) = Len(s) + 1, \A i \in 1 .. Len(s) : t[i + 1] = s[i]
    PROVE  Occurrences(t, c) = Occurrences(s, c) + (IF t[1] = c THEN 1 ELSE 0)
<1> DEFINE S == {i \in 1 .. Len(s) : s[i] = c}
           T == {i \in 1 .. Len(t) : t[i] = c}
           f == [i \in S |-> i + 1]
<1>1. /\ IsFiniteSet(S) /\ Cardinality(S) \in Nat
      /\ IsFiniteSet(T) /\ Cardinality(T) \in Nat
  BY OccurrencesType DEF Occurrences
<1>2. f \in Bijection(S, T \ {1})
  <2>1. f \in Injection(S, T \ {1})
    BY DEF Injection, IsInjective
  <2>2. \A j \in T \ {1} : \E i \in S : f[i] = j
    <3> SUFFICES ASSUME NEW j \in T \ {1} PROVE \E i \in S : f[i] = j
      OBVIOUS
    <3>1. j - 1 \in S
      OBVIOUS
    <3> QED
      BY <3>1
  <2> QED
    BY <2>1, <2>2 DEF Bijection, Surjection, Injection
<1>3. Cardinality(T \ {1}) = Cardinality(S)
  BY <1>1, <1>2, FS_Bijection DEF ExistsBijection
<1>4. Cardinality(T \ {1})
          = IF 1 \in T THEN Cardinality(T) - 1 ELSE Cardinality(T)
  BY <1>1, FS_RemoveElement
<1>5. 1 \in T <=> t[1] = c
  OBVIOUS
<1> QED
  BY <1>1, <1>3, <1>4, <1>5 DEF Occurrences

LEMMA OccurrencesTail ==
    ASSUME NEW s \in Seq(Coro), s # <<>>, NEW c
    PROVE  Occurrences(s, c)
               = Occurrences(Tail(s), c) + (IF Head(s) = c THEN 1 ELSE 0)
<1>1. /\ Tail(s) \in Seq(Coro) /\ Len(s) = Len(Tail(s)) + 1
      /\ \A i \in 1 .. Len(Tail(s)) : s[i + 1] = Tail(s)[i]
      /\ Head(s) = s[1]
  OBVIOUS
<1> QED
  BY <1>1, OccurrencesShift

LEMMA OccurrencesCons ==
    ASSUME NEW s \in Seq(Coro), NEW x \in Coro, NEW c
    PROVE  Occurrences(<<x>> \o s, c)
               = Occurrences(s, c) + (IF x = c THEN 1 ELSE 0)
<1> DEFINE t == <<x>> \o s
<1>1. /\ t \in Seq(Coro) /\ Len(t) = Len(s) + 1 /\ t[1] = x
      /\ \A i \in 1 .. Len(s) : t[i + 1] = s[i]
  OBVIOUS
<1> HIDE DEF t
<1>2. Occurrences(t, c) = Occurrences(s, c) + (IF x = c THEN 1 ELSE 0)
  BY <1>1, OccurrencesShift
<1> QED
  BY <1>2 DEF t

\* How many children wake c when they complete.
Waiters(cont, c) == Cardinality({k \in Coro : cont[k] = c})

LEMMA WaitersType ==
    ASSUME NEW cont \in [Coro -> Handle], NEW c
    PROVE  /\ IsFiniteSet({k \in Coro : cont[k] = c})
           /\ Waiters(cont, c) \in Nat
           /\ Waiters(cont, c) = 0 <=> \A k \in Coro : cont[k] # c
<1> DEFINE S == {k \in Coro : cont[k] = c}
<1>1. IsFiniteSet(Coro) /\ S \in SUBSET Coro
  BY FS_Interval, NumberTypes DEF Coro
<1>2. IsFiniteSet(S)
  BY <1>1, FS_Subset
<1>3. Cardinality(S) \in Nat /\ (Cardinality(S) = 0 <=> S = {})
  BY <1>2, FS_CardinalityType, FS_EmptySet
<1> QED
  BY <1>2, <1>3 DEF Waiters

LEMMA WaitersSame ==
    ASSUME NEW old \in [Coro -> Handle], NEW new \in [Coro -> Handle], NEW c,
           \A j \in Coro : new[j] = c <=> old[j] = c
    PROVE  Waiters(new, c) = Waiters(old, c)
<1>1. {j \in Coro : new[j] = c} = {j \in Coro : old[j] = c}
  OBVIOUS
<1> QED
  BY <1>1 DEF Waiters

LEMMA WaitersAdd ==
    ASSUME NEW old \in [Coro -> Handle], NEW new \in [Coro -> Handle], NEW c,
           NEW k \in Coro, old[k] # c, new[k] = c,
           \A j \in Coro : j # k => new[j] = old[j]
    PROVE  Waiters(new, c) = Waiters(old, c) + 1
<1> DEFINE S == {j \in Coro : old[j] = c}
           T == {j \in Coro : new[j] = c}
<1>1. IsFiniteSet(S)
  <2>1. IsFiniteSet(Coro) /\ S \in SUBSET Coro
    BY FS_Interval, NumberTypes DEF Coro
  <2> QED
    BY <2>1, FS_Subset
<1>2. T = S \cup {k} /\ k \notin S
  OBVIOUS
<1>3. Cardinality(T) = Cardinality(S) + 1
  <2> HIDE DEF S, T
  <2> QED
    BY <1>1, <1>2, FS_AddElement
<1> QED
  BY <1>3 DEF Waiters

-----------------------------------------------------------------------------
(***************************************************************************)
(* The inductive invariant                                                 *)
(***************************************************************************)

\* c has just given control back to the loop that resumed it.
Back(c) == depth > 0 /\ Top.pc = "resumed" /\ Cur = c

Active == {"run", "submitted", "awaited"}

\* One coroutine runs, the one the innermost loop has resumed; the current
\* coroutines of the other loops, and only those, are inside a nested loop.
BodyInv ==
    /\ \A c \in Coro :
          co[c] \in Active => depth > 0 /\ Top.pc = "body" /\ Cur = c
    /\ depth > 0 /\ Top.pc = "body" => co[Cur] \in Active
    /\ depth > 0 /\ Top.pc = "resumed"
          => co[Cur] \in {"await", "io", "yield", "done"}
    /\ \A d \in 1 .. depth : d < depth => co[loop[d].cur] = "sync"
    /\ \A c \in Coro :
          co[c] = "sync" => \E d \in 1 .. depth : d < depth /\ loop[d].cur = c
    /\ \A d, e \in 1 .. depth :
          d < e /\ e < depth => loop[d].cur # loop[e].cur

\* The coroutine a loop was started for exists, has ended once the loop
\* drains the queue, and is nobody's child.
MainInv ==
    \A d \in 1 .. depth :
        /\ co[loop[d].main] # "none"
        /\ loop[d].drain => co[loop[d].main] \in {"done", "freed"}
        /\ \A p \in Coro : child[p] # loop[d].main

\* The child of p will wake p, or it has ended and has done so.
Linked(p) ==
    \/ /\ co[p] = "await" /\ continuation[child[p]] = p
       /\ co[child[p]] \notin {"none", "freed"}
       /\ co[child[p]] = "done" => Back(child[p])
    \/ /\ continuation[child[p]] = None
       /\ co[child[p]] = "done" /\ ~Back(child[p])

\* Awaiting coroutines and their children are linked, one to one.
AwaitInv ==
    \A p \in Coro :
        /\ child[p] # None <=> co[p] \in {"await", "awaited"}
        /\ child[p] # None => Linked(p)
        /\ continuation[p] # None => child[continuation[p]] = p
        /\ \A q \in Coro : child[p] = child[q] /\ child[p] # None => p = q

\* A frame at its final suspend has somebody who will destroy it.
DoneInv ==
    \A c \in Coro :
        co[c] = "done" =>
            \/ Back(c)
            \/ \E d \in 1 .. depth : loop[d].main = c
            \/ \E p \in Coro : child[p] = c

\* Requests belong to coroutines that have submitted one, and the I/O thread
\* has ended before anything is freed.
IoInv ==
    /\ \A i \in 1 .. Len(pending) : co[pending[i]] \in {"submitted", "io"}
    /\ ioReq # None => co[ioReq] \in {"submitted", "io"}
    /\ ioPc # "work" => ioReq = None
    /\ host \in {"free", "exited"} => ioPc = "exited"
    /\ host # "run" => depth = 0

OwnerInv == BodyInv /\ MainInv /\ AwaitInv /\ DoneInv

WakeInv == OwnerInv /\ IoInv /\ Quiescent /\ OneWakeup

Inv == TypeInv /\ WaitingExact /\ WakeInv

\* The other two parts of Wakes.
Served(c) == IF ioReq = c THEN 1 ELSE 0

Soon(c) == IF AboutToReenqueue(c) THEN 1 ELSE 0

\* All parts are counts, and Wakes adds them up.
Counts(c) ==
    /\ Occurrences(ready, c) \in Nat /\ Occurrences(pending, c) \in Nat
    /\ Served(c) \in Nat /\ Waiters(continuation, c) \in Nat /\ Soon(c) \in Nat
    /\ Wakes(c) = Occurrences(ready, c) + Occurrences(pending, c)
                  + Served(c) + Waiters(continuation, c) + Soon(c)

LEMMA CountsNow ==
    ASSUME TypeOK, NEW c \in Coro PROVE Counts(c)
  BY OccurrencesType, WaitersType
  DEF TypeOK, Wakes, Waiters, Served, Soon, Counts

LEMMA CountsNext ==
    ASSUME TypeOK', NEW c \in Coro PROVE Counts(c)'
  BY OccurrencesType, WaitersType
  DEF TypeOK, Wakes, Waiters, Served, Soon, Counts

\* The number of things that should resume c.
Due(c) == IF co[c] \in Suspended \cup {"submitted"} THEN 1 ELSE 0

LEMMA NotWoken ==
    ASSUME Inv, host # "exited", NEW c \in Coro,
           co[c] \notin Suspended \cup {"submitted"}
    PROVE  /\ \A i \in 1 .. Len(ready) : ready[i] # c
           /\ \A i \in 1 .. Len(pending) : pending[i] # c
           /\ ioReq # c
           /\ \A k \in Coro : continuation[k] # c
           /\ ~AboutToReenqueue(c)
<1>1. Wakes(c) = 0
  BY DEF Inv, WakeInv, OneWakeup
<1>2. TypeOK
  BY DEF Inv, TypeInv
<1>3. /\ Occurrences(ready, c) = 0 /\ Occurrences(pending, c) = 0
      /\ ioReq # c /\ Waiters(continuation, c) = 0 /\ ~AboutToReenqueue(c)
  <2>1. /\ Occurrences(ready, c) = 0 /\ Occurrences(pending, c) = 0
        /\ Served(c) = 0 /\ Waiters(continuation, c) = 0 /\ Soon(c) = 0
    BY <1>1, <1>2, CountsNow DEF Counts
  <2> QED
    BY <2>1 DEF Served, Soon
<1> QED
  BY <1>2, <1>3, OccurrencesType, WaitersType DEF TypeOK

LEMMA HeadWoken ==
    ASSUME Inv, host # "exited", ready # <<>>,
           NEW h \in Coro, h = Head(ready)
    PROVE  /\ co[h] \in Suspended \cup {"submitted"}
           /\ Occurrences(ready, h) = 1 /\ Occurrences(pending, h) = 0
           /\ \A i \in 1 .. Len(pending) : pending[i] # h
           /\ ioReq # h
           /\ \A k \in Coro : continuation[k] # h
           /\ ~AboutToReenqueue(h)
<1>1. TypeOK
  BY DEF Inv, TypeInv
<1>2. Occurrences(ready, h) # 0
  <2>1. ready \in Seq(Coro) /\ 1 \in 1 .. Len(ready) /\ ready[1] = h
    BY <1>1 DEF TypeOK
  <2> QED
    BY <2>1, OccurrencesType
<1>3. Wakes(h) = IF co[h] \in Suspended \cup {"submitted"} THEN 1 ELSE 0
  BY DEF Inv, WakeInv, OneWakeup
<1>4. /\ co[h] \in Suspended \cup {"submitted"}
      /\ Occurrences(ready, h) = 1 /\ Occurrences(pending, h) = 0
      /\ ioReq # h /\ Waiters(continuation, h) = 0 /\ ~AboutToReenqueue(h)
  <2>1. /\ co[h] \in Suspended \cup {"submitted"}
        /\ Occurrences(ready, h) = 1 /\ Occurrences(pending, h) = 0
        /\ Served(h) = 0 /\ Waiters(continuation, h) = 0 /\ Soon(h) = 0
    BY <1>1, <1>2, <1>3, CountsNow DEF Counts
  <2> QED
    BY <2>1 DEF Served, Soon
<1> QED
  BY <1>1, <1>4, OccurrencesType, WaitersType DEF TypeOK

LEMMA InvInit == Init => Inv
<1> SUFFICES ASSUME Init PROVE Inv
  OBVIOUS
<1>1. TypeInv
  BY TypeInit
<1>2. WaitingExact
  BY DEF Init, WaitingExact, JustMarked
<1>3. OwnerInv
  BY NumberTypes DEF Init, OwnerInv, BodyInv, MainInv, AwaitInv, DoneInv, Active
<1>4. IoInv /\ Quiescent
  BY DEF Init, IoInv, Quiescent
<1>5. OneWakeup
  <2> SUFFICES ASSUME NEW c \in Coro PROVE Wakes(c) = 0
    BY DEF Init, OneWakeup, Suspended
  <2>1. Occurrences(ready, c) = 0 /\ Occurrences(pending, c) = 0
    BY OccurrencesEmpty DEF Init
  <2>2. Waiters(continuation, c) = 0
    BY WaitersType, NumberTypes DEF Init, Handle
  <2>3. ioReq # c /\ ~AboutToReenqueue(c)
    BY NumberTypes DEF Init, AboutToReenqueue
  <2> QED
    BY <1>1, <2>1, <2>2, <2>3, CountsNow DEF TypeInv, Counts, Served, Soon
<1> QED
  BY <1>1, <1>2, <1>3, <1>4, <1>5 DEF Inv, WakeInv

-----------------------------------------------------------------------------
(***************************************************************************)
(* What the steps of the proof share                                       *)
(***************************************************************************)

\* A step keeps OneWakeup if it changes what resumes a coroutine as it changes
\* what should.
LEMMA WakeupKept ==
    ASSUME Inv, TypeInv', host # "exited",
           \A c \in Coro : Counts(c) /\ Counts(c)' /\ Wakes(c) = Due(c)
                               => Wakes(c)' = Due(c)'
    PROVE  OneWakeup'
<1> SUFFICES ASSUME NEW c \in Coro PROVE Wakes(c)' = Due(c)'
  BY DEF OneWakeup, Due
<1>1. Wakes(c) = Due(c)
  BY DEF Inv, WakeInv, OneWakeup, Due
<1> QED
  BY <1>1, CountsNow, CountsNext DEF Inv, TypeInv

\* The innermost loop moves to p.
LEMMA GotoFacts ==
    ASSUME TypeInv, depth \in 1 .. MaxDepth, depth' = depth, NEW p, Goto(p)
    PROVE  /\ Top'.pc = p /\ Cur' = Cur
           /\ \A d \in 1 .. depth :
                 /\ loop'[d].main = loop[d].main
                 /\ loop'[d].cur = loop[d].cur
                 /\ loop'[d].drain = loop[d].drain
<1>1. loop \in [1 .. MaxDepth -> Frame] /\ loop' = [loop EXCEPT ![depth].pc = p]
  BY DEF TypeInv, TypeOK, Goto
<1>2. \A d \in 1 .. depth : d \in 1 .. MaxDepth
  BY NumberTypes
<1> QED
  BY <1>1, <1>2 DEF Frame, Top, Cur

LEMMA BodyFacts ==
    ASSUME Inv, InLoop("body")
    PROVE  /\ depth \in 1 .. MaxDepth /\ Top.pc = "body" /\ Cur \in Coro
           /\ host = "run"
           /\ co \in [Coro -> CoroState]
           /\ child \in [Coro -> Handle] /\ continuation \in [Coro -> Handle]
           /\ Cur = loop[depth].cur
           /\ \A d \in 1 .. depth : loop[d].main \in Coro
           /\ \A d \in 1 .. depth : d < depth => loop[d].cur \in Coro
           /\ \A c : ~Back(c) /\ ~AboutToReenqueue(c)
           /\ waiting = <<>>
<1>1. depth \in 1 .. MaxDepth /\ Top.pc = "body"
  BY NumberTypes DEF Inv, TypeInv, TypeOK, InLoop
<1>2. Cur = loop[depth].cur /\ Cur \in Coro
  BY <1>1, NumberTypes DEF Inv, TypeInv, StackInv, Top, Cur
<1>3. host = "run"
  BY <1>1 DEF Inv, WakeInv, IoInv
<1>4. /\ \A d \in 1 .. depth : loop[d].main \in Coro
      /\ \A d \in 1 .. depth : d < depth => loop[d].cur \in Coro
  BY DEF Inv, TypeInv, StackInv
<1>5. \A c : ~Back(c) /\ ~AboutToReenqueue(c)
  BY <1>1 DEF Back, AboutToReenqueue
<1>6. waiting = <<>>
  BY <1>1 DEF Inv, WaitingExact, JustMarked
<1> QED
  BY <1>1, <1>2, <1>3, <1>4, <1>5, <1>6 DEF Inv, TypeInv, TypeOK

-----------------------------------------------------------------------------
(***************************************************************************)
(* The body of a coroutine                                                 *)
(***************************************************************************)

\* The running coroutine suspends or ends, and nothing else changes hands.
LEMMA GiveBack ==
    ASSUME Inv, InBody("run"), NEW s \in {"yield", "done"},
           co' = [co EXCEPT ![Cur] = s], Goto("resumed"),
           UNCHANGED <<depth, child, continuation>>
    PROVE  OwnerInv'
<1>1. InLoop("body") /\ co[Cur] = "run"
  BY DEF InBody
<1> USE <1>1, BodyFacts
<1>2. /\ Top'.pc = "resumed" /\ Cur' = Cur
      /\ \A d \in 1 .. depth :
            /\ loop'[d].main = loop[d].main
            /\ loop'[d].cur = loop[d].cur
            /\ loop'[d].drain = loop[d].drain
  BY GotoFacts DEF Inv
<1>3. \A c : Back(c)' <=> c = Cur
  BY <1>2, NumberTypes DEF Back
<1>4. \A c \in Coro : co'[c] = IF c = Cur THEN s ELSE co[c]
  OBVIOUS
<1>5. child' = child /\ continuation' = continuation /\ depth' = depth
  OBVIOUS
<1>6. BodyInv'
  BY <1>2, <1>4, <1>5 DEF Inv, WakeInv, OwnerInv, BodyInv, Active
<1>7. MainInv'
  BY <1>2, <1>4, <1>5 DEF Inv, WakeInv, OwnerInv, MainInv
<1>8. AwaitInv'
  BY <1>3, <1>4, <1>5 DEF Inv, WakeInv, OwnerInv, AwaitInv, Linked, Handle
<1>9. DoneInv'
  BY <1>2, <1>3, <1>4, <1>5 DEF Inv, WakeInv, OwnerInv, DoneInv
<1> QED
  BY <1>6, <1>7, <1>8, <1>9 DEF OwnerInv

LEMMA BodyYieldStep ==
    ASSUME Inv, TypeInv', BodyYield PROVE WakeInv'
<1>1. InBody("run") /\ InLoop("body") /\ co[Cur] = "run"
  BY DEF BodyYield, InBody
<1>2. OwnerInv'
  BY <1>1, GiveBack DEF BodyYield
<1> USE <1>1, BodyFacts
<1>3. \A c \in Coro : co'[c] = IF c = Cur THEN "yield" ELSE co[c]
  BY DEF BodyYield
<1>4. /\ depth' > 0 /\ depth' = depth /\ host' = host /\ Top'.pc = "resumed"
      /\ Cur' = Cur
      /\ UNCHANGED <<ready, pending, continuation, ioPc, ioReq>>
  BY GotoFacts, NumberTypes DEF Inv, BodyYield, ioVars
<1>5. IoInv'
  BY <1>3, <1>4 DEF Inv, WakeInv, IoInv, TypeInv, TypeOK, Handle
<1>6. OneWakeup'
  <2>1. ASSUME NEW c \in Coro, Counts(c), Counts(c)', Wakes(c) = Due(c)
        PROVE  Wakes(c)' = Due(c)'
    <3>1. /\ Soon(c) = 0 /\ Served(c)' = Served(c)
          /\ Soon(c)' = IF c = Cur THEN 1 ELSE 0
      BY <1>3, <1>4 DEF Soon, Served, AboutToReenqueue
    <3>2. Wakes(c)' = Wakes(c) + Soon(c)'
      BY <1>4, <2>1, <3>1 DEF Counts
    <3> QED
      BY <1>3, <2>1, <3>1, <3>2 DEF Due, Suspended
  <2> QED
    BY <2>1, WakeupKept
<1>7. Quiescent'
  BY <1>4 DEF Quiescent
<1> QED
  BY <1>2, <1>5, <1>6, <1>7 DEF WakeInv

LEMMA BodyReturnStep ==
    ASSUME Inv, TypeInv', BodyReturn PROVE WakeInv'
<1>1. InBody("run") /\ InLoop("body") /\ co[Cur] = "run"
  BY DEF BodyReturn, InBody
<1>2. OwnerInv'
  BY <1>1, GiveBack DEF BodyReturn
<1> USE <1>1, BodyFacts
<1>3. \A c \in Coro : co'[c] = IF c = Cur THEN "done" ELSE co[c]
  BY DEF BodyReturn
<1>4. /\ depth' > 0 /\ depth' = depth /\ host' = host /\ Top'.pc = "resumed"
      /\ Cur' = Cur
      /\ UNCHANGED <<ready, pending, continuation, ioPc, ioReq>>
  BY GotoFacts, NumberTypes DEF Inv, BodyReturn, ioVars
<1>5. IoInv'
  BY <1>3, <1>4 DEF Inv, WakeInv, IoInv, TypeInv, TypeOK, Handle
<1>6. OneWakeup'
  <2>1. ASSUME NEW c \in Coro, Counts(c), Counts(c)', Wakes(c) = Due(c)
        PROVE  Wakes(c)' = Due(c)'
    <3>1. Soon(c) = 0 /\ Served(c)' = Served(c) /\ Soon(c)' = 0
      BY <1>3, <1>4 DEF Soon, Served, AboutToReenqueue
    <3>2. Wakes(c)' = Wakes(c)
      BY <1>4, <2>1, <3>1 DEF Counts
    <3> QED
      BY <1>3, <2>1, <3>2 DEF Due, Suspended
  <2> QED
    BY <2>1, WakeupKept
<1>7. Quiescent'
  BY <1>4 DEF Quiescent
<1> QED
  BY <1>2, <1>5, <1>6, <1>7 DEF WakeInv

\* A request is put in front of the others and belongs to a coroutine that
\* runs until it suspends for it.
LEMMA BodySubmitIoStep ==
    ASSUME Inv, TypeInv', BodySubmitIo PROVE WakeInv'
<1>1. InLoop("body") /\ co[Cur] = "run"
  BY DEF BodySubmitIo, InBody
<1> USE <1>1, BodyFacts
<1>2. \A c \in Coro : co'[c] = IF c = Cur THEN "submitted" ELSE co[c]
  BY DEF BodySubmitIo
<1>3. /\ UNCHANGED <<host, depth, loop, child, continuation, ready, ioPc, ioReq>>
      /\ Top' = Top /\ Cur' = Cur /\ pending' = <<Cur>> \o pending
      /\ depth > 0
  BY NumberTypes DEF BodySubmitIo, ioVars, Top, Cur
<1>4. \A c : ~Back(c)'
  BY <1>3 DEF Back
<1>5. OwnerInv'
  <2>1. BodyInv'
    BY <1>2, <1>3 DEF Inv, WakeInv, OwnerInv, BodyInv, Active
  <2>2. MainInv'
    BY <1>2, <1>3 DEF Inv, WakeInv, OwnerInv, MainInv
  <2>3. AwaitInv'
    BY <1>2, <1>3, <1>4 DEF Inv, WakeInv, OwnerInv, AwaitInv, Linked, Handle
  <2>4. DoneInv'
    BY <1>2, <1>3, <1>4 DEF Inv, WakeInv, OwnerInv, DoneInv
  <2> QED
    BY <2>1, <2>2, <2>3, <2>4 DEF OwnerInv
<1>6. IoInv'
  <2>1. pending \in Seq(Coro) /\ ioReq \in Handle
    BY DEF Inv, TypeInv, TypeOK
  <2>2. /\ Len(pending') = Len(pending) + 1 /\ pending'[1] = Cur
        /\ \A i \in 2 .. Len(pending') : pending'[i] = pending[i - 1]
    BY <1>3, <2>1
  <2>3. \A i \in 1 .. Len(pending') : co'[pending'[i]] \in {"submitted", "io"}
    BY <1>2, <2>1, <2>2 DEF Inv, WakeInv, IoInv
  <2> QED
    BY <1>2, <1>3, <2>1, <2>3 DEF Inv, WakeInv, IoInv, Handle
<1>7. OneWakeup'
  <2>1. ASSUME NEW c \in Coro, Counts(c), Counts(c)', Wakes(c) = Due(c)
        PROVE  Wakes(c)' = Due(c)'
    <3>1. Soon(c) = 0 /\ Served(c)' = Served(c) /\ Soon(c)' = 0
      BY <1>2, <1>3 DEF Soon, Served, AboutToReenqueue
    <3>2. Occurrences(pending', c)
              = Occurrences(pending, c) + (IF c = Cur THEN 1 ELSE 0)
      BY <1>3, OccurrencesCons DEF Inv, TypeInv, TypeOK
    <3>3. Wakes(c)' = Wakes(c) + (IF c = Cur THEN 1 ELSE 0)
      BY <1>3, <2>1, <3>1, <3>2 DEF Counts
    <3> QED
      BY <1>2, <2>1, <3>3 DEF Due, Suspended
  <2> QED
    BY <2>1, WakeupKept
<1>8. Quiescent'
  BY <1>3 DEF Quiescent
<1> QED
  BY <1>5, <1>6, <1>7, <1>8 DEF WakeInv

\* coro.suspend() marks the coroutine, so that the loop leaves it alone.
LEMMA BodySuspendIoStep ==
    ASSUME Inv, TypeInv', SuspendMarks, BodySuspendIo PROVE WakeInv'
<1>1. InLoop("body") /\ co[Cur] = "submitted"
  BY DEF BodySuspendIo, InBody
<1> USE <1>1, BodyFacts
<1>2. \A c \in Coro : co'[c] = IF c = Cur THEN "io" ELSE co[c]
  BY DEF BodySuspendIo
<1>3. /\ UNCHANGED <<host, depth, child, continuation, ready, pending, ioPc, ioReq>>
      /\ depth > 0
  BY NumberTypes DEF BodySuspendIo, ioVars
<1>4. /\ Top'.pc = "resumed" /\ Cur' = Cur
      /\ \A d \in 1 .. depth :
            /\ loop'[d].main = loop[d].main
            /\ loop'[d].cur = loop[d].cur
            /\ loop'[d].drain = loop[d].drain
  BY <1>3, GotoFacts DEF Inv, BodySuspendIo
<1>5. \A c : Back(c)' <=> c = Cur
  BY <1>3, <1>4 DEF Back
<1>6. OwnerInv'
  <2>1. BodyInv'
    BY <1>2, <1>3, <1>4 DEF Inv, WakeInv, OwnerInv, BodyInv, Active
  <2>2. MainInv'
    BY <1>2, <1>3, <1>4 DEF Inv, WakeInv, OwnerInv, MainInv
  <2>3. AwaitInv'
    BY <1>2, <1>3, <1>5 DEF Inv, WakeInv, OwnerInv, AwaitInv, Linked, Handle
  <2>4. DoneInv'
    BY <1>2, <1>3, <1>4, <1>5 DEF Inv, WakeInv, OwnerInv, DoneInv
  <2> QED
    BY <2>1, <2>2, <2>3, <2>4 DEF OwnerInv
<1>7. IoInv'
  BY <1>2, <1>3 DEF Inv, WakeInv, IoInv, TypeInv, TypeOK, Handle
<1>8. OneWakeup'
  <2>1. ASSUME NEW c \in Coro, Counts(c), Counts(c)', Wakes(c) = Due(c)
        PROVE  Wakes(c)' = Due(c)'
    <3>1. Soon(c) = 0 /\ Served(c)' = Served(c) /\ Soon(c)' = 0
      BY <1>2, <1>3, <1>4 DEF Soon, Served, AboutToReenqueue
    <3>2. Wakes(c)' = Wakes(c)
      BY <1>3, <2>1, <3>1 DEF Counts
    <3> QED
      BY <1>2, <2>1, <3>2 DEF Due, Suspended
  <2> QED
    BY <2>1, WakeupKept
<1>9. Quiescent'
  BY <1>3 DEF Quiescent
<1> QED
  BY <1>6, <1>7, <1>8, <1>9 DEF WakeInv

-----------------------------------------------------------------------------
(***************************************************************************)
(* New coroutines                                                          *)
(***************************************************************************)

\* Nothing refers to a handle that was not allocated yet.
LEMMA FreshFacts ==
    ASSUME Inv, host # "exited", NEW c \in Coro, Fresh(c)
    PROVE  /\ co[c] = "none" /\ child[c] = None /\ continuation[c] = None
           /\ \A p \in Coro : child[p] # c /\ continuation[p] # c
           /\ \A d \in 1 .. depth : loop[d].main # c
           /\ \A d \in 1 .. depth : d < depth => loop[d].cur # c
           /\ ~Back(c)
<1>1. co[c] = "none" /\ child \in [Coro -> Handle]
      /\ continuation \in [Coro -> Handle]
  BY DEF Fresh, Inv, TypeInv, TypeOK
<1>2. \A p \in Coro : child[p] # c
  BY <1>1, NumberTypes DEF Inv, WakeInv, OwnerInv, AwaitInv, Linked
<1>3. child[c] = None /\ continuation[c] = None
  BY <1>1, <1>2 DEF Inv, WakeInv, OwnerInv, AwaitInv, Handle
<1>4. \A p \in Coro : continuation[p] # c
  BY <1>1, NotWoken DEF Suspended
<1>5. /\ \A d \in 1 .. depth : loop[d].main # c
      /\ \A d \in 1 .. depth : d < depth => loop[d].cur # c
      /\ ~Back(c)
  BY <1>1 DEF Inv, WakeInv, OwnerInv, MainInv, BodyInv, Back
<1> QED
  BY <1>1, <1>2, <1>3, <1>4, <1>5

\* A coroutine is created and enqueued.
LEMMA SpawnStep ==
    ASSUME Inv, TypeInv', host = "run", NEW k \in Coro, Fresh(k),
           co' = [co EXCEPT ![k] = "init"], ready' = Append(ready, k),
           UNCHANGED <<host, depth, loop, child, continuation, pending,
                       ioPc, ioReq>>
    PROVE  WakeInv'
<1>0. /\ co[k] = "none" /\ child[k] = None /\ continuation[k] = None
      /\ \A p \in Coro : child[p] # k /\ continuation[p] # k
      /\ \A d \in 1 .. depth : loop[d].main # k
      /\ \A d \in 1 .. depth : d < depth => loop[d].cur # k
      /\ ~Back(k)
  BY FreshFacts
<1>1. \A c \in Coro : co'[c] = IF c = k THEN "init" ELSE co[c]
  BY DEF Inv, TypeInv, TypeOK
<1>2. Top' = Top /\ Cur' = Cur /\ \A c : Back(c)' <=> Back(c)
  BY DEF Top, Cur, Back
<1>3. /\ child \in [Coro -> Handle] /\ continuation \in [Coro -> Handle]
      /\ ioReq \in Handle /\ pending \in Seq(Coro) /\ ready \in Seq(Coro)
      /\ depth \in Nat
      /\ \A d \in 1 .. depth : loop[d].main \in Coro
      /\ \A d \in 1 .. depth : d < depth => loop[d].cur \in Coro
  <2>1. depth \in Nat
    BY NumberTypes DEF Inv, TypeInv, TypeOK
  <2>2. /\ \A d \in 1 .. depth : loop[d].main \in Coro
        /\ \A d \in 1 .. depth : d < depth => loop[d].cur \in Coro
    BY DEF Inv, TypeInv, StackInv
  <2> QED
    BY <2>1, <2>2 DEF Inv, TypeInv, TypeOK
<1>8. depth > 0 /\ Top.pc \in {"body", "resumed"} => Cur \in Coro
  BY <1>3, NumberTypes DEF Inv, TypeInv, StackInv, Top, Cur
<1>4. OwnerInv'
  <2>1. BodyInv'
    BY <1>0, <1>1, <1>2, <1>3, <1>8 DEF Inv, WakeInv, OwnerInv, BodyInv, Active
  <2>2. MainInv'
    BY <1>0, <1>1, <1>3 DEF Inv, WakeInv, OwnerInv, MainInv
  <2>3. AwaitInv'
    BY <1>0, <1>1, <1>2, <1>3 DEF Inv, WakeInv, OwnerInv, AwaitInv, Linked, Handle
  <2>4. DoneInv'
    BY <1>0, <1>1, <1>2 DEF Inv, WakeInv, OwnerInv, DoneInv
  <2> QED
    BY <2>1, <2>2, <2>3, <2>4 DEF OwnerInv
<1>5. IoInv'
  BY <1>0, <1>1, <1>3 DEF Inv, WakeInv, IoInv, Handle
<1>6. OneWakeup'
  <2>1. ASSUME NEW c \in Coro, Counts(c), Counts(c)', Wakes(c) = Due(c)
        PROVE  Wakes(c)' = Due(c)'
    <3>1. Soon(c)' = Soon(c) /\ Served(c)' = Served(c)
      BY <1>0, <1>1, <1>2 DEF Soon, Back, Served, AboutToReenqueue
    <3>2. Occurrences(ready', c)
              = Occurrences(ready, c) + (IF c = k THEN 1 ELSE 0)
      BY <1>3, OccurrencesAppend
    <3>3. Wakes(c)' = Wakes(c) + (IF c = k THEN 1 ELSE 0)
      BY <2>1, <3>1, <3>2 DEF Counts
    <3> QED
      BY <1>0, <1>1, <2>1, <3>3 DEF Due, Suspended
  <2> QED
    BY <2>1, WakeupKept
<1>7. Quiescent'
  BY <1>0, <1>1, <1>3 DEF Inv, WakeInv, Quiescent, OwnerInv, AwaitInv, Handle
<1> QED
  BY <1>4, <1>5, <1>6, <1>7 DEF WakeInv

LEMMA BodySpawnStep ==
    ASSUME Inv, TypeInv', BodySpawn PROVE WakeInv'
<1>1. PICK k \in Coro : /\ Fresh(k) /\ co' = [co EXCEPT ![k] = "init"]
                        /\ ready' = Append(ready, k)
  BY DEF BodySpawn
<1>2. InLoop("body")
  BY DEF BodySpawn, InBody
<1> QED
  BY <1>1, <1>2, BodyFacts, SpawnStep DEF BodySpawn, ioVars

LEMMA HostSpawnStep ==
    ASSUME Inv, TypeInv', HostSpawn PROVE WakeInv'
<1>1. PICK k \in Coro : /\ Fresh(k) /\ co' = [co EXCEPT ![k] = "init"]
                        /\ ready' = Append(ready, k)
  BY DEF HostSpawn
<1> QED
  BY <1>1, SpawnStep DEF HostSpawn, InHost, ioVars

\* The running coroutine awaits a new one, which will wake it.
LEMMA BodyAwaitStep ==
    ASSUME Inv, TypeInv', BodyAwait PROVE WakeInv'
<1>1. InLoop("body") /\ co[Cur] = "run"
  BY DEF BodyAwait, InBody
<1>2. PICK k \in Coro :
          /\ Fresh(k)
          /\ co' = [co EXCEPT ![k] = "init", ![Cur] = "await"]
          /\ child' = [child EXCEPT ![Cur] = k]
          /\ continuation' = [continuation EXCEPT ![k] = Cur]
          /\ waiting' = mark_waiting(waiting, Cur)
          /\ ready' = IF is_in_waiting_set(waiting', k) THEN ready
                      ELSE Append(ready, k)
  BY DEF BodyAwait
<1> USE <1>1, BodyFacts
<1>3. k # Cur
  BY <1>2 DEF Fresh
<1>4. /\ child[k] = None /\ continuation[k] = None /\ co[k] = "none"
      /\ \A p \in Coro : child[p] # k /\ continuation[p] # k
      /\ \A d \in 1 .. depth : loop[d].main # k
      /\ \A d \in 1 .. depth : d < depth => loop[d].cur # k
  BY <1>2, FreshFacts
<1>5. /\ \A c \in Coro : co'[c] = IF c = Cur THEN "await"
                                ELSE IF c = k THEN "init" ELSE co[c]
      /\ \A c \in Coro : child'[c] = IF c = Cur THEN k ELSE child[c]
      /\ \A c \in Coro :
            continuation'[c] = IF c = k THEN Cur ELSE continuation[c]
  BY <1>2, <1>3
<1>6. /\ UNCHANGED <<host, depth, pending, ioPc, ioReq>>
      /\ depth > 0
  BY NumberTypes DEF BodyAwait, ioVars
<1>7. /\ Top'.pc = "resumed" /\ Cur' = Cur
      /\ \A d \in 1 .. depth :
            /\ loop'[d].main = loop[d].main
            /\ loop'[d].cur = loop[d].cur
            /\ loop'[d].drain = loop[d].drain
  BY <1>6, GotoFacts DEF Inv, BodyAwait
<1>8. \A c : Back(c)' <=> c = Cur
  BY <1>6, <1>7 DEF Back
<1>9. ready' = Append(ready, k)
  <2>1. waiting' = <<Cur>>
    BY <1>2, MarkEmpty
  <2>2. ~is_in_waiting_set(<<Cur>>, k)
    BY <1>3 DEF is_in_waiting_set
  <2> QED
    BY <1>2, <2>1, <2>2
<1>10. OwnerInv'
  <2>1. BodyInv'
    BY <1>4, <1>5, <1>6, <1>7 DEF Inv, WakeInv, OwnerInv, BodyInv, Active
  <2>2. MainInv'
    BY <1>4, <1>5, <1>6, <1>7 DEF Inv, WakeInv, OwnerInv, MainInv
  <2>3. AwaitInv'
    <3>1. child[Cur] = None
      BY DEF Inv, WakeInv, OwnerInv, AwaitInv, Handle
    <3>2. ASSUME NEW p \in Coro PROVE child'[p] # None => Linked(p)'
      <4>1. CASE p = Cur
        BY <1>3, <1>5, <4>1 DEF Linked
      <4>2. CASE p # Cur /\ child[p] # None
        <5>1. Linked(p) /\ child[p] \in Coro /\ child[p] # k
              /\ child'[p] = child[p]
          BY <1>4, <1>5, <4>2 DEF Inv, WakeInv, OwnerInv, AwaitInv, Handle
        <5>2. co[p] = "await" => p # k
          BY <1>4
        <5>3. child[p] # Cur \/ co[Cur] # "done"
          OBVIOUS
        <5> QED
          BY <1>4, <1>5, <1>8, <4>2, <5>1, <5>2 DEF Linked
      <4> QED
        BY <1>5, <4>1, <4>2
    <3>3. ASSUME NEW p \in Coro
          PROVE  /\ child'[p] # None <=> co'[p] \in {"await", "awaited"}
                 /\ continuation'[p] # None => child'[continuation'[p]] = p
                 /\ \A q \in Coro : child'[p] = child'[q] /\ child'[p] # None
                                      => p = q
      <4>1. child'[p] # None <=> co'[p] \in {"await", "awaited"}
        BY <1>3, <1>4, <1>5, NumberTypes
        DEF Inv, WakeInv, OwnerInv, AwaitInv
      <4>2. continuation'[p] # None => child'[continuation'[p]] = p
        <5>1. continuation[p] # None
                  => /\ child[continuation[p]] = p /\ continuation[p] # Cur
                     /\ continuation[p] \in Coro
          BY <3>1, NumberTypes DEF Inv, WakeInv, OwnerInv, AwaitInv, Handle
        <5> QED
          BY <1>3, <1>5, <5>1
      <4>3. \A q \in Coro :
                child'[p] = child'[q] /\ child'[p] # None => p = q
        BY <1>4, <1>5 DEF Inv, WakeInv, OwnerInv, AwaitInv
      <4> QED
        BY <4>1, <4>2, <4>3
    <3> QED
      BY <3>2, <3>3 DEF AwaitInv
  <2>4. DoneInv'
    BY <1>4, <1>5, <1>6, <1>7, <1>8
    DEF Inv, WakeInv, OwnerInv, DoneInv, AwaitInv
  <2> QED
    BY <2>1, <2>2, <2>3, <2>4 DEF OwnerInv
<1>11. IoInv'
  <2>1. pending \in Seq(Coro) /\ ioReq \in Handle
    BY DEF Inv, TypeInv, TypeOK
  <2>2. \A c \in Coro : co[c] \in {"submitted", "io"} => co'[c] = co[c]
    BY <1>4, <1>5
  <2> QED
    BY <1>6, <2>1, <2>2 DEF Inv, WakeInv, IoInv, Handle
<1>12. OneWakeup'
  <2>1. ASSUME NEW c \in Coro, Counts(c), Counts(c)', Wakes(c) = Due(c)
        PROVE  Wakes(c)' = Due(c)'
    <3>1. Soon(c) = 0 /\ Served(c)' = Served(c) /\ Soon(c)' = 0
      BY <1>5, <1>6, <1>7 DEF Soon, Served, AboutToReenqueue
    <3>2. Occurrences(ready', c)
              = Occurrences(ready, c) + (IF c = k THEN 1 ELSE 0)
      BY <1>9, OccurrencesAppend DEF Inv, TypeInv, TypeOK
    <3>3. continuation[k] # c
      BY <1>4, NumberTypes
    <3>4. /\ Cur = c => Waiters(continuation', c) = Waiters(continuation, c) + 1
          /\ Cur # c => Waiters(continuation', c) = Waiters(continuation, c)
      <4>1. /\ continuation' \in [Coro -> Handle]
            /\ continuation \in [Coro -> Handle] /\ Cur \in Handle
        BY DEF Handle, TypeInv, TypeOK
      <4>2. Cur = c => Waiters(continuation', c) = Waiters(continuation, c) + 1
        BY <1>5, <3>3, <4>1, WaitersAdd
      <4>3. Cur # c => Waiters(continuation', c) = Waiters(continuation, c)
        BY <1>5, <3>3, <4>1, WaitersSame
      <4> QED
        BY <4>2, <4>3
    <3>5. CASE c = Cur
      <4>1. Wakes(c)' = Wakes(c) + 1
        BY <1>3, <1>6, <2>1, <3>1, <3>2, <3>4, <3>5 DEF Counts
      <4> QED
        BY <1>5, <2>1, <3>5, <4>1 DEF Due, Suspended
    <3>6. CASE c # Cur
      <4>1. Wakes(c)' = Wakes(c) + (IF c = k THEN 1 ELSE 0)
        BY <1>6, <2>1, <3>1, <3>2, <3>4, <3>6 DEF Counts
      <4> QED
        BY <1>3, <1>4, <1>5, <2>1, <3>6, <4>1 DEF Due, Suspended
    <3> QED
      BY <3>5, <3>6
  <2> QED
    BY <2>1, WakeupKept
<1>13. Quiescent'
  BY <1>6 DEF Quiescent
<1> QED
  BY <1>10, <1>11, <1>12, <1>13 DEF WakeInv

\* await.ready: the child has ended, has woken its parent and nobody else
\* knows it, so its parent may destroy it.
LEMMA BodyAwaitReadyStep ==
    ASSUME Inv, TypeInv', BodyAwaitReady PROVE WakeInv'
<1>1. InLoop("body") /\ co[Cur] = "awaited"
  BY DEF BodyAwaitReady, InBody
<1> USE <1>1, BodyFacts
<1> DEFINE k == child[Cur]
<1>2. /\ k \in Coro /\ k # Cur /\ co[k] = "done" /\ continuation[k] = None
      /\ \A p \in Coro : child[p] = k => p = Cur
      /\ \A d \in 1 .. depth : loop[d].main # k
  <2>1. child[Cur] # None /\ Linked(Cur)
    BY DEF Inv, WakeInv, OwnerInv, AwaitInv
  <2> QED
    BY <2>1 DEF Inv, WakeInv, OwnerInv, AwaitInv, MainInv, Linked, Handle
<1>3. /\ \A c \in Coro : co'[c] = IF c = k THEN "freed"
                                  ELSE IF c = Cur THEN "run" ELSE co[c]
      /\ \A c \in Coro : child'[c] = IF c = Cur THEN None ELSE child[c]
  BY <1>2 DEF BodyAwaitReady
<1>4. /\ UNCHANGED <<host, depth, loop, continuation, ready, pending,
                     ioPc, ioReq>>
      /\ Top' = Top /\ Cur' = Cur /\ depth > 0
  BY NumberTypes DEF BodyAwaitReady, ioVars, Top, Cur
<1>5. \A c : ~Back(c)'
  BY <1>4 DEF Back
<1> HIDE DEF k
<1>6. OwnerInv'
  <2>1. BodyInv'
    BY <1>2, <1>3, <1>4 DEF Inv, WakeInv, OwnerInv, BodyInv, Active
  <2>2. MainInv'
    <3> SUFFICES ASSUME NEW d \in 1 .. depth
                 PROVE  /\ co'[loop[d].main] # "none"
                        /\ loop[d].drain
                              => co'[loop[d].main] \in {"done", "freed"}
                        /\ \A p \in Coro : child'[p] # loop[d].main
      BY <1>4 DEF MainInv
    <3>1. /\ loop[d].main \in Coro /\ co[loop[d].main] # "none"
          /\ loop[d].drain => co[loop[d].main] \in {"done", "freed"}
          /\ \A p \in Coro : child[p] # loop[d].main
      BY DEF Inv, WakeInv, OwnerInv, MainInv
    <3> QED
      BY <1>3, <3>1, NumberTypes
  <2>3. AwaitInv'
    <3>1. ASSUME NEW p \in Coro, child'[p] # None PROVE Linked(p)'
      <4>1. p # Cur /\ child'[p] = child[p] /\ child[p] # k /\ child[p] \in Coro
        BY <1>2, <1>3, <3>1 DEF Handle
      <4>2. Linked(p)
        BY <3>1, <4>1 DEF Inv, WakeInv, OwnerInv, AwaitInv
      <4>3. co[p] = "await" => co'[p] = "await"
        BY <1>2, <1>3
      <4> QED
        BY <1>3, <1>4, <1>5, <4>1, <4>2, <4>3 DEF Linked
    <3>2. ASSUME NEW p \in Coro
          PROVE  /\ child'[p] # None <=> co'[p] \in {"await", "awaited"}
                 /\ continuation'[p] # None => child'[continuation'[p]] = p
                 /\ \A q \in Coro : child'[p] = child'[q] /\ child'[p] # None
                                      => p = q
      BY <1>2, <1>3, <1>4, NumberTypes
      DEF Inv, WakeInv, OwnerInv, AwaitInv, Handle, k
    <3> QED
      BY <3>1, <3>2 DEF AwaitInv
  <2>4. DoneInv'
    <3> SUFFICES ASSUME NEW c \in Coro, co'[c] = "done"
                 PROVE  \/ \E d \in 1 .. depth : loop[d].main = c
                        \/ \E p \in Coro : child'[p] = c
      BY <1>4 DEF DoneInv
    <3>1. co[c] = "done" /\ c # k
      BY <1>3
    <3>2. \/ \E d \in 1 .. depth : loop[d].main = c
          \/ \E p \in Coro : child[p] = c
      BY <3>1 DEF Inv, WakeInv, OwnerInv, DoneInv
    <3> QED
      BY <1>3, <3>1, <3>2 DEF k
  <2> QED
    BY <2>1, <2>2, <2>3, <2>4 DEF OwnerInv
<1>7. IoInv'
  <2>1. pending \in Seq(Coro) /\ ioReq \in Handle
    BY DEF Inv, TypeInv, TypeOK
  <2>2. \A c \in Coro : co[c] \in {"submitted", "io"} => co'[c] = co[c]
    BY <1>2, <1>3
  <2> QED
    BY <1>4, <2>1, <2>2 DEF Inv, WakeInv, IoInv, Handle
<1>8. OneWakeup'
  <2>1. ASSUME NEW c \in Coro, Counts(c), Counts(c)', Wakes(c) = Due(c)
        PROVE  Wakes(c)' = Due(c)'
    <3>1. Soon(c) = 0 /\ Served(c)' = Served(c) /\ Soon(c)' = 0
      BY <1>3, <1>4 DEF Soon, Served, AboutToReenqueue
    <3>2. Wakes(c)' = Wakes(c)
      BY <1>4, <2>1, <3>1 DEF Counts
    <3> QED
      BY <1>2, <1>3, <2>1, <3>2 DEF Due, Suspended
  <2> QED
    BY <2>1, WakeupKept
<1>9. Quiescent'
  BY <1>4 DEF Quiescent
<1> QED
  BY <1>6, <1>7, <1>8, <1>9 DEF WakeInv

\* An event loop is started for a new coroutine: by the host, or by a body,
\* which then waits on the C stack.
LEMMA PushStep ==
    ASSUME Inv, TypeInv', host = "run", waiting = <<>>, depth < MaxDepth,
           NEW k \in Coro, Fresh(k), PushLoop(k),
           depth > 0 => Top.pc = "body" /\ co[Cur] = "run",
           \A c \in Coro : co'[c] = IF c = k THEN "init"
                                    ELSE IF depth > 0 /\ c = Cur THEN "sync"
                                    ELSE co[c],
           UNCHANGED <<host, child, continuation, pending, ioPc, ioReq>>
    PROVE  WakeInv'
<1>1. /\ co[k] = "none" /\ child[k] = None /\ continuation[k] = None
      /\ \A p \in Coro : child[p] # k /\ continuation[p] # k
      /\ \A d \in 1 .. depth : loop[d].main # k
      /\ \A d \in 1 .. depth : d < depth => loop[d].cur # k
  BY FreshFacts
<1>2. /\ depth \in Nat /\ depth + 1 \in 1 .. MaxDepth /\ depth' = depth + 1
      /\ loop \in [1 .. MaxDepth -> Frame]
  BY NumberTypes DEF Inv, TypeInv, TypeOK, PushLoop
<1>3. /\ loop'[depth'].main = k /\ loop'[depth'].pc = "top"
      /\ loop'[depth'].drain = FALSE
      /\ \A d \in 1 .. depth : loop'[d] = loop[d]
  BY <1>2, NumberTypes DEF PushLoop
<1>4. ready' = Append(ready, k)
  BY RemoveEmpty DEF PushLoop
<1>5. /\ child \in [Coro -> Handle] /\ continuation \in [Coro -> Handle]
      /\ pending \in Seq(Coro) /\ ioReq \in Handle /\ ready \in Seq(Coro)
  BY DEF Inv, TypeInv, TypeOK
<1>6. /\ \A d \in 1 .. depth : loop[d].main \in Coro
      /\ \A d \in 1 .. depth : d < depth => loop[d].cur \in Coro
      /\ depth > 0 => Cur \in Coro /\ Cur = loop[depth].cur
  BY <1>2 DEF Inv, TypeInv, StackInv, Top, Cur
<1>7. (\A c : ~Back(c) /\ ~Back(c)') /\ depth' > 0
  BY <1>2, <1>3 DEF Back, Top
<1>8. BodyInv'
  <2>1. \A c \in Coro : co'[c] \notin Active
    BY <1>6 DEF Inv, WakeInv, OwnerInv, BodyInv, Active
  <2>2. Top'.pc = "top"
    BY <1>3 DEF Top
  <2>3. \A d \in 1 .. depth :
            loop[d].cur \in Coro /\ loop[d].cur # k /\ co'[loop[d].cur] = "sync"
    <3> SUFFICES ASSUME NEW d \in 1 .. depth
                 PROVE  /\ loop[d].cur \in Coro /\ loop[d].cur # k
                        /\ co'[loop[d].cur] = "sync"
      OBVIOUS
    <3>1. d < depth \/ (d = depth /\ depth > 0)
      BY <1>2
    <3> QED
      BY <1>1, <1>2, <1>6, <3>1 DEF Inv, WakeInv, OwnerInv, BodyInv
  <2>4. \A d \in 1 .. depth' : d < depth' => d \in 1 .. depth
    BY <1>2
  <2>5. \A d, e \in 1 .. depth : d < e => loop[d].cur # loop[e].cur
    <3> SUFFICES ASSUME NEW d \in 1 .. depth, NEW e \in 1 .. depth, d < e
                 PROVE  loop[d].cur # loop[e].cur
      OBVIOUS
    <3>1. e < depth \/ (e = depth /\ depth > 0 /\ d < depth)
      BY <1>2
    <3> QED
      BY <1>2, <1>6, <3>1 DEF Inv, WakeInv, OwnerInv, BodyInv
  <2>6. ASSUME NEW c \in Coro, co'[c] = "sync"
        PROVE  \E d \in 1 .. depth' : d < depth' /\ loop'[d].cur = c
    <3>1. \E d \in 1 .. depth : loop[d].cur = c
      <4>1. CASE depth > 0 /\ c = Cur
        BY <1>2, <1>6, <4>1
      <4>2. CASE ~(depth > 0 /\ c = Cur)
        BY <2>6, <4>2 DEF Inv, WakeInv, OwnerInv, BodyInv
      <4> QED
        BY <4>1, <4>2
    <3>2. PICK d \in 1 .. depth : loop[d].cur = c
      BY <3>1
    <3> QED
      BY <1>2, <1>3, <3>2
  <2>7. \A d \in 1 .. depth' : d < depth' => co'[loop'[d].cur] = "sync"
    BY <1>3, <2>3, <2>4
  <2>8. \A d, e \in 1 .. depth' :
            d < e /\ e < depth' => loop'[d].cur # loop'[e].cur
    <3> SUFFICES ASSUME NEW d \in 1 .. depth', NEW e \in 1 .. depth',
                        d < e, e < depth'
                 PROVE  loop'[d].cur # loop'[e].cur
      OBVIOUS
    <3>1. d \in 1 .. depth /\ e \in 1 .. depth
      BY <1>2
    <3> QED
      BY <1>3, <2>5, <3>1
  <2> QED
    BY <2>1, <2>2, <2>6, <2>7, <2>8 DEF BodyInv
<1>9. MainInv'
  <2> SUFFICES ASSUME NEW d \in 1 .. depth'
               PROVE  /\ co'[loop'[d].main] # "none"
                      /\ loop'[d].drain
                            => co'[loop'[d].main] \in {"done", "freed"}
                      /\ \A p \in Coro : child[p] # loop'[d].main
    BY DEF MainInv
  <2>1. d \in 1 .. depth \/ d = depth'
    BY <1>2
  <2> QED
    BY <1>1, <1>2, <1>3, <1>6, <2>1 DEF Inv, WakeInv, OwnerInv, MainInv
<1>10. AwaitInv'
  BY <1>1, <1>5, <1>7 DEF Inv, WakeInv, OwnerInv, AwaitInv, Linked, Handle
<1>11. DoneInv'
  <2> SUFFICES ASSUME NEW c \in Coro, co'[c] = "done"
               PROVE  \/ \E d \in 1 .. depth' : loop'[d].main = c
                      \/ \E p \in Coro : child[p] = c
    BY DEF DoneInv
  <2>1. \/ \E d \in 1 .. depth : loop[d].main = c
        \/ \E p \in Coro : child[p] = c
    BY <1>7 DEF Inv, WakeInv, OwnerInv, DoneInv
  <2>2. \A d \in 1 .. depth : d \in 1 .. depth' /\ loop'[d] = loop[d]
    BY <1>2, <1>3
  <2> QED
    BY <2>1, <2>2
<1>12. IoInv'
  <2>1. \A c \in Coro : co[c] \in {"submitted", "io"} => co'[c] = co[c]
    BY <1>1
  <2> QED
    BY <1>5, <2>1 DEF Inv, WakeInv, IoInv, Handle
<1>13. OneWakeup'
  <2>1. ASSUME NEW c \in Coro, Counts(c), Counts(c)', Wakes(c) = Due(c)
        PROVE  Wakes(c)' = Due(c)'
    <3>1. Soon(c) = 0 /\ Served(c)' = Served(c) /\ Soon(c)' = 0
      BY <1>7 DEF Soon, Served, AboutToReenqueue, Back
    <3>2. Occurrences(ready', c)
              = Occurrences(ready, c) + (IF c = k THEN 1 ELSE 0)
      BY <1>4, <1>5, OccurrencesAppend
    <3>3. Wakes(c)' = Wakes(c) + (IF c = k THEN 1 ELSE 0)
      BY <2>1, <3>1, <3>2 DEF Counts
    <3> QED
      BY <1>1, <2>1, <3>3 DEF Due, Suspended
  <2> QED
    BY <2>1, WakeupKept
<1>14. Quiescent'
  BY <1>7 DEF Quiescent
<1> QED
  BY <1>8, <1>9, <1>10, <1>11, <1>12, <1>13, <1>14 DEF WakeInv, OwnerInv

LEMMA BodySyncAwaitStep ==
    ASSUME Inv, TypeInv', BodySyncAwait PROVE WakeInv'
<1>1. InLoop("body") /\ co[Cur] = "run" /\ depth < MaxDepth
  BY DEF BodySyncAwait, InBody
<1>2. PICK k \in Coro :
          /\ Fresh(k) /\ PushLoop(k)
          /\ co' = [co EXCEPT ![k] = "init", ![Cur] = "sync"]
  BY DEF BodySyncAwait
<1>3. k # Cur
  BY <1>1, <1>2 DEF Fresh
<1>4. /\ host = "run" /\ waiting = <<>> /\ depth > 0 /\ Top.pc = "body"
      /\ Cur \in Coro /\ co \in [Coro -> CoroState]
  BY <1>1, BodyFacts, NumberTypes
<1>5. \A c \in Coro : co'[c] = IF c = k THEN "init"
                               ELSE IF depth > 0 /\ c = Cur THEN "sync"
                               ELSE co[c]
  BY <1>2, <1>3, <1>4
<1> QED
  BY <1>1, <1>2, <1>4, <1>5, PushStep DEF BodySyncAwait, ioVars

LEMMA HostAwaitStep ==
    ASSUME Inv, TypeInv', HostAwait PROVE WakeInv'
<1>1. PICK k \in Coro :
          Fresh(k) /\ PushLoop(k) /\ co' = [co EXCEPT ![k] = "init"]
  BY DEF HostAwait
<1>2. host = "run" /\ depth = 0 /\ waiting = <<>> /\ depth < MaxDepth
  BY NumberTypes DEF HostAwait, InHost, Inv, WaitingExact, JustMarked
<1>3. co \in [Coro -> CoroState]
  BY DEF Inv, TypeInv, TypeOK
<1>4. \A c \in Coro : co'[c] = IF c = k THEN "init"
                               ELSE IF depth > 0 /\ c = Cur THEN "sync"
                               ELSE co[c]
  BY <1>1, <1>2, <1>3
<1> QED
  BY <1>1, <1>2, <1>4, PushStep DEF HostAwait, ioVars

-----------------------------------------------------------------------------
(***************************************************************************)
(* The event loop                                                          *)
(***************************************************************************)

LEMMA LoopFacts ==
    ASSUME Inv, NEW pc, pc # "body", InLoop(pc)
    PROVE  /\ depth \in 1 .. MaxDepth /\ depth > 0 /\ Top.pc = pc
           /\ host = "run"
           /\ co \in [Coro -> CoroState]
           /\ child \in [Coro -> Handle] /\ continuation \in [Coro -> Handle]
           /\ ready \in Seq(Coro) /\ pending \in Seq(Coro) /\ ioReq \in Handle
           /\ Top = loop[depth] /\ Cur = loop[depth].cur
           /\ \A d \in 1 .. depth : loop[d].main \in Coro
           /\ \A d \in 1 .. depth : d < depth => loop[d].cur \in Coro
           /\ \A c \in Coro : co[c] \notin Active
<1>1. depth \in 1 .. MaxDepth /\ Top.pc = pc /\ depth > 0
  BY NumberTypes DEF Inv, TypeInv, TypeOK, InLoop
<1>2. host = "run"
  BY <1>1 DEF Inv, WakeInv, IoInv
<1>3. /\ \A d \in 1 .. depth : loop[d].main \in Coro
      /\ \A d \in 1 .. depth : d < depth => loop[d].cur \in Coro
  BY DEF Inv, TypeInv, StackInv
<1>4. \A c \in Coro : co[c] \notin Active
  BY <1>1 DEF Inv, WakeInv, OwnerInv, BodyInv
<1> QED
  BY <1>1, <1>2, <1>3, <1>4 DEF Inv, TypeInv, TypeOK, Top, Cur

\* The loop goes from one of its own points to another.
LEMMA MoveStep ==
    ASSUME Inv, TypeInv', NEW pc \in {"top", "check"}, InLoop(pc),
           Top'.pc \in {"top", "check"},
           \A d \in 1 .. depth :
               /\ loop'[d].main = loop[d].main
               /\ loop'[d].cur = loop[d].cur
               /\ loop'[d].drain
                     => loop[d].drain \/ co[loop[d].main] = "done",
           UNCHANGED <<host, depth, co, child, ready, continuation, pending,
                       ioPc, ioReq>>
    PROVE  WakeInv'
<1>1. /\ depth \in 1 .. MaxDepth /\ depth > 0 /\ host = "run"
      /\ \A c \in Coro : co[c] \notin Active
  BY LoopFacts
<1>2. \A c : ~Back(c) /\ ~Back(c)'
  BY DEF InLoop, Back
<1>3. BodyInv'
  BY <1>1 DEF Inv, WakeInv, OwnerInv, BodyInv
<1>4. MainInv'
  BY DEF Inv, WakeInv, OwnerInv, MainInv
<1>5. AwaitInv'
  BY <1>2 DEF Inv, WakeInv, OwnerInv, AwaitInv, Linked
<1>6. DoneInv'
  BY <1>2 DEF Inv, WakeInv, OwnerInv, DoneInv
<1>7. IoInv'
  BY DEF Inv, WakeInv, IoInv
<1>8. OneWakeup'
  <2>1. ASSUME NEW c \in Coro, Counts(c), Counts(c)', Wakes(c) = Due(c)
        PROVE  Wakes(c)' = Due(c)'
    <3>1. Soon(c) = 0 /\ Served(c)' = Served(c) /\ Soon(c)' = 0
      BY <1>2 DEF Soon, Served, AboutToReenqueue, Back
    <3>2. Wakes(c)' = Wakes(c)
      BY <2>1, <3>1 DEF Counts
    <3> QED
      BY <2>1, <3>2 DEF Due
  <2> QED
    BY <1>1, <2>1, WakeupKept
<1>9. Quiescent'
  BY <1>1 DEF Quiescent
<1> QED
  BY <1>3, <1>4, <1>5, <1>6, <1>7, <1>8, <1>9 DEF WakeInv, OwnerInv

LEMMA LoopSpinStep ==
    ASSUME Inv, TypeInv', LoopSpin PROVE WakeInv'
<1>1. InLoop("top") /\ Goto("check") /\ depth' = depth
  BY DEF LoopSpin
<1>2. depth \in 1 .. MaxDepth
  BY <1>1, LoopFacts
<1>3. /\ Top'.pc = "check"
      /\ \A d \in 1 .. depth :
            /\ loop'[d].main = loop[d].main
            /\ loop'[d].cur = loop[d].cur
            /\ loop'[d].drain = loop[d].drain
  BY <1>1, <1>2, GotoFacts DEF Inv
<1> QED
  BY <1>1, <1>3, MoveStep DEF LoopSpin, ioVars

\* The loop drains the queue only once its main coroutine has ended.
LEMMA LoopCheckStep ==
    ASSUME Inv, TypeInv', LoopCheck PROVE WakeInv'
<1> DEFINE b == co[Top.main] = "done"
<1>1. InLoop("check") /\ depth' = depth
      /\ loop' = [loop EXCEPT ![depth].pc = "top", ![depth].drain = b]
  BY DEF LoopCheck
<1>2. /\ depth \in 1 .. MaxDepth /\ Top = loop[depth]
      /\ loop \in [1 .. MaxDepth -> Frame]
  BY <1>1, LoopFacts DEF Inv, TypeInv, TypeOK
<1>3. b \in BOOLEAN /\ \A d \in 1 .. depth : d \in 1 .. MaxDepth
  BY <1>2, NumberTypes
<1> HIDE DEF b
<1>4. /\ loop'[depth].pc = "top"
      /\ \A d \in 1 .. depth :
            /\ loop'[d].main = loop[d].main
            /\ loop'[d].cur = loop[d].cur
            /\ loop'[d].drain = IF d = depth THEN b ELSE loop[d].drain
  BY <1>1, <1>2, <1>3 DEF Frame
<1>5. /\ Top'.pc = "top"
      /\ \A d \in 1 .. depth :
            /\ loop'[d].main = loop[d].main
            /\ loop'[d].cur = loop[d].cur
            /\ loop'[d].drain => loop[d].drain \/ co[loop[d].main] = "done"
  BY <1>1, <1>2, <1>4 DEF Top, b
<1> QED
  BY <1>1, <1>5, MoveStep DEF LoopCheck, ioVars

\* The handle at the head of the queue is suspended and has no other wakeup:
\* the loop may resume it.
LEMMA DequeueFacts ==
    ASSUME Inv, InLoop("top"), ready # <<>>, NEW h, h = Head(ready)
    PROVE  /\ h \in Coro /\ co[h] \in Suspended
           /\ Occurrences(ready, h) = 1
           /\ \A i \in 1 .. Len(pending) : pending[i] # h
           /\ ioReq # h
           /\ \A k \in Coro : continuation[k] # h
<1>1. /\ host = "run" /\ ready \in Seq(Coro)
      /\ \A c \in Coro : co[c] \notin Active
  BY LoopFacts
<1>2. h \in Coro
  BY <1>1
<1> QED
  BY <1>1, <1>2, HeadWoken DEF Active

LEMMA LoopDequeueStep ==
    ASSUME Inv, TypeInv', LoopDequeue PROVE WakeInv'
<1> DEFINE h == Head(ready)
<1>1. InLoop("top") /\ ready # <<>>
  BY DEF LoopDequeue
<1>2. /\ depth \in 1 .. MaxDepth /\ depth > 0 /\ Top.pc = "top" /\ host = "run"
      /\ co \in [Coro -> CoroState]
      /\ child \in [Coro -> Handle] /\ continuation \in [Coro -> Handle]
      /\ ready \in Seq(Coro) /\ pending \in Seq(Coro) /\ ioReq \in Handle
      /\ \A d \in 1 .. depth : loop[d].main \in Coro
      /\ \A d \in 1 .. depth : d < depth => loop[d].cur \in Coro
      /\ \A c \in Coro : co[c] \notin Active
  BY <1>1, LoopFacts
<1>3. /\ h \in Coro /\ co[h] \in Suspended
      /\ Occurrences(ready, h) = 1
      /\ \A i \in 1 .. Len(pending) : pending[i] # h
      /\ ioReq # h
      /\ \A k \in Coro : continuation[k] # h
  BY <1>1, DequeueFacts
<1>0. /\ co' = [co EXCEPT ![h] = Resumed(h)]
      /\ loop' = [loop EXCEPT ![depth].pc = "body", ![depth].cur = h]
      /\ ready' = Tail(ready)
      /\ UNCHANGED <<host, depth, child, continuation, pending, ioPc, ioReq>>
  BY <1>3 DEF LoopDequeue, ioVars, Suspended, OnStack
<1>4. /\ ready' = Tail(ready)
      /\ UNCHANGED <<host, depth, child, continuation, pending, ioPc, ioReq>>
  BY <1>0
<1> HIDE DEF h
<1>5. \A c \in Coro :
          co'[c] = IF c = h THEN IF co[h] = "await" THEN "awaited" ELSE "run"
                   ELSE co[c]
  BY <1>0, <1>2 DEF Resumed
<1>6. /\ Top'.pc = "body" /\ Cur' = h /\ loop'[depth].main = loop[depth].main
      /\ loop'[depth].drain = loop[depth].drain
      /\ \A d \in 1 .. depth : d # depth => loop'[d] = loop[d]
  <2>1. loop \in [1 .. MaxDepth -> Frame] /\ h \in Handle
        /\ \A d \in 1 .. depth : d \in 1 .. MaxDepth
    BY <1>2, <1>3, NumberTypes DEF Inv, TypeInv, TypeOK, Handle
  <2> QED
    BY <1>0, <1>2, <2>1 DEF Frame, Top, Cur
<1>7. /\ \A d \in 1 .. depth : /\ loop'[d].main = loop[d].main
                               /\ loop'[d].drain = loop[d].drain
      /\ \A d \in 1 .. depth : d < depth => loop'[d].cur = loop[d].cur
  BY <1>2, <1>6
<1>8. \A c : ~Back(c) /\ ~Back(c)'
  BY <1>2, <1>6 DEF Back
<1>9. BodyInv'
  <2>1. \A d \in 1 .. depth : d < depth => loop[d].cur # h
    BY <1>3 DEF Inv, WakeInv, OwnerInv, BodyInv, Suspended
  <2>2. \A c \in Coro : co'[c] \in Active <=> c = h
    BY <1>2, <1>3, <1>5 DEF Active
  <2>3. \A d \in 1 .. depth' : d < depth' => co'[loop'[d].cur] = "sync"
    BY <1>2, <1>4, <1>5, <1>7, <2>1 DEF Inv, WakeInv, OwnerInv, BodyInv
  <2>4. \A c \in Coro : co'[c] = "sync" => co[c] = "sync"
    BY <1>5
  <2>5. \A c \in Coro :
            co'[c] = "sync" => \E d \in 1 .. depth' : d < depth' /\ loop'[d].cur = c
    BY <1>4, <1>7, <2>4 DEF Inv, WakeInv, OwnerInv, BodyInv
  <2>6. \A d, e \in 1 .. depth' :
            d < e /\ e < depth' => loop'[d].cur # loop'[e].cur
    <3> SUFFICES ASSUME NEW d \in 1 .. depth, NEW e \in 1 .. depth,
                        d < e, e < depth
                 PROVE  loop'[d].cur # loop'[e].cur
      BY <1>4
    <3>1. d < depth
      BY <1>2
    <3> QED
      BY <1>7, <3>1 DEF Inv, WakeInv, OwnerInv, BodyInv
  <2> QED
    BY <1>2, <1>3, <1>4, <1>6, <2>2, <2>3, <2>5, <2>6 DEF BodyInv
<1>10. MainInv'
  <2>1. ASSUME NEW c \in Coro
        PROVE  /\ co[c] # "none" => co'[c] # "none"
               /\ co[c] \in {"done", "freed"} => co'[c] = co[c]
    BY <1>3, <1>5 DEF Suspended
  <2> QED
    BY <1>2, <1>4, <1>7, <2>1 DEF Inv, WakeInv, OwnerInv, MainInv
<1>11. AwaitInv'
  <2>1. ASSUME NEW p \in Coro, child[p] # None PROVE Linked(p)'
    <3>1. Linked(p) /\ child[p] \in Coro
      BY <1>2, <2>1 DEF Inv, WakeInv, OwnerInv, AwaitInv, Handle
    <3>2. CASE co[p] = "await" /\ continuation[child[p]] = p
      <4>1. p # h
        BY <1>3, <3>1, <3>2
      <4>2. co[child[p]] \notin {"none", "freed", "done"}
        BY <1>8, <3>1, <3>2, NumberTypes DEF Linked
      <4> QED
        BY <1>4, <1>5, <3>1, <3>2, <4>1, <4>2 DEF Linked
    <3>3. CASE ~(co[p] = "await" /\ continuation[child[p]] = p)
      <4>1. continuation[child[p]] = None /\ co[child[p]] = "done"
        BY <3>1, <3>3 DEF Linked
      <4>2. child[p] # h
        BY <1>3, <4>1 DEF Suspended
      <4> QED
        BY <1>4, <1>5, <1>8, <3>1, <4>1, <4>2 DEF Linked
    <3> QED
      BY <3>2, <3>3
  <2>2. \A p \in Coro :
            co'[p] \in {"await", "awaited"} <=> co[p] \in {"await", "awaited"}
    BY <1>2, <1>3, <1>5 DEF Suspended
  <2> QED
    BY <1>4, <2>1, <2>2 DEF Inv, WakeInv, OwnerInv, AwaitInv
<1>12. DoneInv'
  BY <1>4, <1>5, <1>7, <1>8 DEF Inv, WakeInv, OwnerInv, DoneInv
<1>13. IoInv'
  <2>1. \A c \in Coro : c # h => co'[c] = co[c]
    BY <1>5
  <2> QED
    BY <1>2, <1>3, <1>4, <2>1 DEF Inv, WakeInv, IoInv, Handle
<1>14. OneWakeup'
  <2>1. ASSUME NEW c \in Coro, Counts(c), Counts(c)', Wakes(c) = Due(c)
        PROVE  Wakes(c)' = Due(c)'
    <3>1. Soon(c) = 0 /\ Served(c)' = Served(c) /\ Soon(c)' = 0
      BY <1>4, <1>8 DEF Soon, Served, AboutToReenqueue, Back
    <3>2. Occurrences(ready, c)
              = Occurrences(ready', c) + (IF h = c THEN 1 ELSE 0)
      BY <1>1, <1>2, <1>4, OccurrencesTail DEF h
    <3>3. CASE c = h
      <4>1. Wakes(c) = Wakes(c)' + 1
        BY <1>4, <2>1, <3>1, <3>2, <3>3 DEF Counts
      <4>2. Due(c) = 1 /\ Due(c)' = 0
        BY <1>3, <1>5, <3>3 DEF Due, Suspended
      <4>3. Wakes(c)' \in Nat
        BY <2>1 DEF Counts
      <4>4. Wakes(c) = 1
        BY <2>1, <4>2
      <4> QED
        BY <4>1, <4>2, <4>3, <4>4
    <3>4. CASE c # h
      <4>1. Wakes(c)' = Wakes(c)
        BY <1>4, <2>1, <3>1, <3>2, <3>4 DEF Counts
      <4> QED
        BY <1>5, <2>1, <3>4, <4>1 DEF Due
    <3> QED
      BY <3>3, <3>4
  <2> QED
    BY <1>2, <2>1, WakeupKept
<1>15. Quiescent'
  BY <1>2, <1>4 DEF Quiescent
<1> QED
  BY <1>9, <1>10, <1>11, <1>12, <1>13, <1>14, <1>15 DEF WakeInv, OwnerInv

\* The coroutine the loop resumed has suspended: it is enqueued again unless
\* it has marked itself.
LEMMA SuspendedStep ==
    ASSUME Inv, TypeInv', SuspendMarks, LoopResumed, co[Cur] # "done"
    PROVE  WakeInv'
<1>1. InLoop("resumed")
  BY DEF LoopResumed
<1>2. /\ depth \in 1 .. MaxDepth /\ depth > 0 /\ Top.pc = "resumed"
      /\ host = "run" /\ ready \in Seq(Coro)
      /\ \A c \in Coro : co[c] \notin Active
      /\ child \in [Coro -> Handle]
  BY <1>1, LoopFacts
<1>3. Cur \in Coro
  BY <1>2 DEF Inv, TypeInv, StackInv, Top, Cur
<1>4. UNCHANGED <<host, depth, co, child, continuation, pending, ioPc, ioReq>>
  BY DEF LoopResumed, ioVars
<1>5. Goto(AfterTask) /\ AfterTask \in {"top", "check"}
  BY DEF LoopResumed, AfterTask
<1>6. /\ Top'.pc \in {"top", "check"}
      /\ \A d \in 1 .. depth :
            /\ loop'[d].main = loop[d].main
            /\ loop'[d].cur = loop[d].cur
            /\ loop'[d].drain = loop[d].drain
  BY <1>2, <1>4, <1>5, GotoFacts DEF Inv
<1>7. /\ \A c : Back(c) <=> c = Cur
      /\ \A c : ~Back(c)'
  BY <1>2, <1>6 DEF Back
<1>8. ready' = IF co[Cur] = "yield" THEN Append(ready, Cur) ELSE ready
  <2>1. co[Cur] \in {"await", "io", "yield"}
    BY <1>2 DEF Inv, WakeInv, OwnerInv, BodyInv
  <2>2. ready' = IF is_in_waiting_set(waiting, Cur) THEN ready
                 ELSE Append(ready, Cur)
    BY DEF LoopResumed
  <2>3. CASE co[Cur] = "yield"
    <3>1. waiting = <<>>
      BY <2>3 DEF Inv, WaitingExact, JustMarked
    <3> QED
      BY <2>2, <2>3, <3>1, RemoveEmpty
  <2>4. CASE co[Cur] # "yield"
    <3>1. waiting = <<Cur>>
      BY <1>2, <2>1, <2>4 DEF Inv, WaitingExact, JustMarked
    <3> QED
      BY <1>3, <2>2, <2>4, <3>1, RemoveOnly
  <2> QED
    BY <2>3, <2>4
<1>9. BodyInv'
  BY <1>2, <1>4, <1>6 DEF Inv, WakeInv, OwnerInv, BodyInv
<1>10. MainInv'
  BY <1>4, <1>6 DEF Inv, WakeInv, OwnerInv, MainInv
<1>11. AwaitInv'
  <2>1. ASSUME NEW p \in Coro, child[p] # None PROVE Linked(p)'
    <3>1. Linked(p) /\ (co[child[p]] = "done" => ~Back(child[p]))
      BY <1>7, <2>1 DEF Inv, WakeInv, OwnerInv, AwaitInv
    <3> QED
      BY <1>4, <1>7, <3>1 DEF Linked
  <2> QED
    BY <1>4, <2>1 DEF Inv, WakeInv, OwnerInv, AwaitInv
<1>12. DoneInv'
  BY <1>4, <1>6, <1>7 DEF Inv, WakeInv, OwnerInv, DoneInv
<1>13. IoInv'
  BY <1>4 DEF Inv, WakeInv, IoInv
<1>14. OneWakeup'
  <2>1. ASSUME NEW c \in Coro, Counts(c), Counts(c)', Wakes(c) = Due(c)
        PROVE  Wakes(c)' = Due(c)'
    <3>1. /\ Soon(c) = IF c = Cur /\ co[Cur] = "yield" THEN 1 ELSE 0
          /\ Served(c)' = Served(c) /\ Soon(c)' = 0
      BY <1>4, <1>7 DEF Soon, Served, AboutToReenqueue, Back
    <3>2. CASE c = Cur /\ co[Cur] = "yield"
      <4>1. Occurrences(ready', c) = Occurrences(ready, c) + 1
        BY <1>2, <1>3, <1>8, <3>2, OccurrencesAppend
      <4>2. Wakes(c)' = Wakes(c)
        BY <1>4, <2>1, <3>1, <3>2, <4>1 DEF Counts
      <4> QED
        BY <1>4, <2>1, <4>2 DEF Due
    <3>3. CASE ~(c = Cur /\ co[Cur] = "yield")
      <4>1. Occurrences(ready', c) = Occurrences(ready, c)
        <5>1. CASE co[Cur] = "yield"
          <6>1. Occurrences(Append(ready, Cur), c) = Occurrences(ready, c) + 0
            BY <1>2, <1>3, <3>3, <5>1, OccurrencesAppend
          <6> QED
            BY <1>8, <2>1, <5>1, <6>1 DEF Counts
        <5>2. CASE co[Cur] # "yield"
          BY <1>8, <5>2
        <5> QED
          BY <5>1, <5>2
      <4>2. Wakes(c)' = Wakes(c)
        BY <1>4, <2>1, <3>1, <3>3, <4>1 DEF Counts
      <4> QED
        BY <1>4, <2>1, <4>2 DEF Due
    <3> QED
      BY <3>2, <3>3
  <2> QED
    BY <1>2, <2>1, WakeupKept
<1>15. Quiescent'
  BY <1>2, <1>4 DEF Quiescent
<1> QED
  BY <1>9, <1>10, <1>11, <1>12, <1>13, <1>14, <1>15 DEF WakeInv, OwnerInv

\* The coroutine the loop resumed has ended: its parent is woken, or else the
\* frame is destroyed or left to whoever started the loop.
LEMMA CompletedStep ==
    ASSUME Inv, TypeInv', LoopResumed, co[Cur] = "done"
    PROVE  WakeInv'
<1> DEFINE parent == continuation[Cur]
<1>1. InLoop("resumed")
  BY DEF LoopResumed
<1>2. /\ depth \in 1 .. MaxDepth /\ depth > 0 /\ Top.pc = "resumed"
      /\ host = "run" /\ ready \in Seq(Coro) /\ co \in [Coro -> CoroState]
      /\ child \in [Coro -> Handle] /\ continuation \in [Coro -> Handle]
      /\ pending \in Seq(Coro) /\ ioReq \in Handle
      /\ Top = loop[depth]
      /\ \A d \in 1 .. depth : loop[d].main \in Coro
      /\ \A d \in 1 .. depth : d < depth => loop[d].cur \in Coro
      /\ \A c \in Coro : co[c] \notin Active
  BY <1>1, LoopFacts
<1>3. Cur \in Coro
  BY <1>2 DEF Inv, TypeInv, StackInv, Top, Cur
<1>0. process_completed_coro(Cur, ready)
  BY DEF LoopResumed
<1>4. UNCHANGED <<host, depth, child, pending, ioPc, ioReq>>
  BY DEF LoopResumed, ioVars
<1>5. Goto(AfterTask) /\ AfterTask \in {"top", "check"}
  BY DEF LoopResumed, AfterTask
<1>6. /\ Top'.pc \in {"top", "check"}
      /\ \A d \in 1 .. depth :
            /\ loop'[d].main = loop[d].main
            /\ loop'[d].cur = loop[d].cur
            /\ loop'[d].drain = loop[d].drain
  BY <1>2, <1>4, <1>5, GotoFacts DEF Inv
<1>7. /\ \A c : Back(c) <=> c = Cur
      /\ \A c : ~Back(c)'
  BY <1>2, <1>6 DEF Back
<1>8. /\ \A c \in Coro :
            continuation'[c] = IF c = Cur THEN None ELSE continuation[c]
      /\ ready' = IF parent # None THEN Append(ready, parent) ELSE ready
      /\ \A c \in Coro :
            co'[c] = IF c = Cur /\ parent = None /\ Cur # Top.main
                     THEN "freed" ELSE co[c]
  BY <1>0, <1>2, <1>3 DEF process_completed_coro
<1>9. \A p \in Coro :
          child[p] = Cur => parent = p /\ co[p] = "await"
  <2> SUFFICES ASSUME NEW p \in Coro, child[p] = Cur
               PROVE  parent = p /\ co[p] = "await"
    OBVIOUS
  <2>1. Linked(p)
    BY <1>3, NumberTypes DEF Inv, WakeInv, OwnerInv, AwaitInv
  <2> QED
    BY <1>7, <2>1 DEF Linked
<1>10. parent # None => parent \in Coro /\ child[parent] = Cur
  BY <1>2, <1>3 DEF Inv, WakeInv, OwnerInv, AwaitInv, Handle
<1> HIDE DEF parent
<1>11. BodyInv'
  BY <1>2, <1>4, <1>6, <1>8 DEF Inv, WakeInv, OwnerInv, BodyInv, Active
<1>12. MainInv'
  <2>1. ASSUME NEW c \in Coro
        PROVE  /\ co[c] # "none" => co'[c] # "none"
               /\ co[c] \in {"done", "freed"} => co'[c] \in {"done", "freed"}
    BY <1>8
  <2> QED
    BY <1>2, <1>4, <1>6, <2>1 DEF Inv, WakeInv, OwnerInv, MainInv
<1>13. AwaitInv'
  <2>1. ASSUME NEW p \in Coro, child[p] # None PROVE Linked(p)'
    <3>1. Linked(p) /\ child[p] \in Coro
      BY <1>2, <2>1 DEF Inv, WakeInv, OwnerInv, AwaitInv, Handle
    <3>2. CASE child[p] = Cur
      <4>1. parent # None
        BY <1>9, <3>2, NumberTypes
      <4>2. continuation'[Cur] = None /\ co'[Cur] = "done"
        BY <1>3, <1>8, <4>1
      <4> QED
        BY <1>4, <1>7, <3>2, <4>2 DEF Linked
    <3>3. CASE child[p] # Cur
      <4>1. /\ continuation'[child[p]] = continuation[child[p]]
            /\ co'[child[p]] = co[child[p]]
        BY <1>8, <3>1, <3>3
      <4>2. co[p] = "await" => co'[p] = "await"
        BY <1>8
      <4> QED
        BY <1>4, <1>7, <3>1, <3>3, <4>1, <4>2 DEF Linked
    <3> QED
      BY <3>2, <3>3
  <2>2. \A p \in Coro :
            co'[p] \in {"await", "awaited"} <=> co[p] \in {"await", "awaited"}
    BY <1>8
  <2>3. \A p \in Coro : continuation'[p] # None
                            => continuation'[p] = continuation[p]
    BY <1>8
  <2> QED
    BY <1>4, <2>1, <2>2, <2>3 DEF Inv, WakeInv, OwnerInv, AwaitInv
<1>14. DoneInv'
  <2> SUFFICES ASSUME NEW c \in Coro, co'[c] = "done"
               PROVE  \/ \E d \in 1 .. depth : loop[d].main = c
                      \/ \E p \in Coro : child[p] = c
    BY <1>4, <1>6 DEF DoneInv
  <2>1. co[c] = "done"
    BY <1>8
  <2>2. CASE c = Cur
    BY <1>2, <1>8, <1>10, <2>2
  <2>3. CASE c # Cur
    BY <1>7, <2>1, <2>3 DEF Inv, WakeInv, OwnerInv, DoneInv
  <2> QED
    BY <2>2, <2>3
<1>15. IoInv'
  <2>1. \A c \in Coro : co[c] \in {"submitted", "io"} => co'[c] = co[c]
    BY <1>8
  <2> QED
    BY <1>2, <1>4, <2>1 DEF Inv, WakeInv, IoInv, Handle
<1>16. OneWakeup'
  <2>1. ASSUME NEW c \in Coro, Counts(c), Counts(c)', Wakes(c) = Due(c)
        PROVE  Wakes(c)' = Due(c)'
    <3>1. Soon(c) = 0 /\ Served(c)' = Served(c) /\ Soon(c)' = 0
      BY <1>4, <1>7 DEF Soon, Served, AboutToReenqueue, Back
    <3>2. Due(c)' = Due(c)
      BY <1>8 DEF Due, Suspended
    <3>3. continuation' \in [Coro -> Handle] /\ c # None
      BY NumberTypes DEF TypeInv, TypeOK
    <3>4. CASE c = parent
      <4>1. Occurrences(ready', c) = Occurrences(ready, c) + 1
        BY <1>2, <1>8, <3>3, <3>4, OccurrencesAppend
      <4>2. continuation[Cur] = c /\ continuation'[Cur] # c
        BY <1>3, <1>8, <3>3, <3>4 DEF parent
      <4>3. Waiters(continuation, c) = Waiters(continuation', c) + 1
        BY <1>2, <1>3, <1>8, <3>3, <4>2, WaitersAdd
      <4>4. Wakes(c)' = Wakes(c)
        BY <1>4, <2>1, <3>1, <4>1, <4>3 DEF Counts
      <4> QED
        BY <2>1, <3>2, <4>4
    <3>5. CASE c # parent
      <4>1. Occurrences(ready', c) = Occurrences(ready, c)
        <5>1. CASE parent # None
          <6>1. Occurrences(Append(ready, parent), c)
                    = Occurrences(ready, c) + 0
            BY <1>2, <1>10, <3>5, <5>1, OccurrencesAppend
          <6> QED
            BY <1>8, <2>1, <5>1, <6>1 DEF Counts
        <5>2. CASE parent = None
          BY <1>8, <5>2
        <5> QED
          BY <5>1, <5>2
      <4>2. \A j \in Coro : continuation'[j] = c <=> continuation[j] = c
        BY <1>8, <3>3, <3>5 DEF parent
      <4>3. Waiters(continuation', c) = Waiters(continuation, c)
        BY <1>2, <3>3, <4>2, WaitersSame
      <4>4. Wakes(c)' = Wakes(c)
        BY <1>4, <2>1, <3>1, <4>1, <4>3 DEF Counts
      <4> QED
        BY <2>1, <3>2, <4>4
    <3> QED
      BY <3>4, <3>5
  <2> QED
    BY <1>2, <2>1, WakeupKept
<1>17. Quiescent'
  BY <1>2, <1>4 DEF Quiescent
<1> QED
  BY <1>11, <1>12, <1>13, <1>14, <1>15, <1>16, <1>17 DEF WakeInv, OwnerInv

\* When the queue is empty, a suspended coroutine waits for I/O or for a
\* child that has not ended.
LEMMA Stalled ==
    ASSUME Inv, InLoop("top"), ready = <<>>, NEW c \in Coro,
           co[c] \in Suspended, co[c] # "io"
    PROVE  co[c] = "await" /\ continuation[child[c]] = c
<1>1. /\ host = "run" /\ pending \in Seq(Coro) /\ ioReq \in Handle
      /\ continuation \in [Coro -> Handle]
  BY LoopFacts
<1>2. Wakes(c) = 1 /\ Counts(c)
  BY <1>1, CountsNow DEF Inv, TypeInv, WakeInv, OneWakeup
<1>3. Occurrences(ready, c) = 0
  BY OccurrencesEmpty
<1>4. Occurrences(pending, c) = 0
  <2>1. \A i \in 1 .. Len(pending) : pending[i] # c
    BY DEF Inv, WakeInv, IoInv, Suspended
  <2> QED
    BY <1>1, <2>1, OccurrencesType
<1>5. Served(c) = 0 /\ Soon(c) = 0
  BY NumberTypes
  DEF Inv, WakeInv, IoInv, Suspended, InLoop, Served, Soon, AboutToReenqueue
<1>6. Waiters(continuation, c) # 0
  BY <1>2, <1>3, <1>4, <1>5 DEF Counts
<1>7. PICK k \in Coro : continuation[k] = c
  BY <1>1, <1>6, WaitersType
<1>8. child[c] = k
  BY <1>7, NumberTypes DEF Inv, WakeInv, OwnerInv, AwaitInv
<1> QED
  BY <1>7, <1>8, NumberTypes
  DEF Inv, WakeInv, OwnerInv, AwaitInv, Suspended

\* The drained loop returns: whoever started it destroys its main coroutine
\* and goes on.
LEMMA LoopReturnStep ==
    ASSUME Inv, TypeInv', LoopReturn PROVE WakeInv'
<1> DEFINE m == Top.main
           r == loop[depth - 1].cur
<1>1. InLoop("top") /\ ready = <<>> /\ Top.drain
  BY DEF LoopReturn
<1>2. /\ depth \in 1 .. MaxDepth /\ depth > 0 /\ Top.pc = "top"
      /\ host = "run" /\ ready \in Seq(Coro) /\ co \in [Coro -> CoroState]
      /\ child \in [Coro -> Handle] /\ continuation \in [Coro -> Handle]
      /\ pending \in Seq(Coro) /\ ioReq \in Handle
      /\ Top = loop[depth]
      /\ \A d \in 1 .. depth : loop[d].main \in Coro
      /\ \A d \in 1 .. depth : d < depth => loop[d].cur \in Coro
      /\ \A c \in Coro : co[c] \notin Active
  BY <1>1, LoopFacts
<1>3. /\ m \in Coro /\ co[m] \in {"done", "freed"}
      /\ m = loop[depth].main /\ \A p \in Coro : child[p] # m
  BY <1>1, <1>2 DEF Inv, WakeInv, OwnerInv, MainInv
<1>4. /\ UNCHANGED <<host, child, continuation, ready, pending, ioPc, ioReq>>
      /\ depth' = depth - 1
  BY DEF LoopReturn, ioVars
<1>5. \A d \in 1 .. depth' : d \in 1 .. depth /\ d < depth /\ loop'[d] = loop[d]
  <2>1. loop' = [loop EXCEPT ![depth] = NoFrame]
        /\ loop \in [1 .. MaxDepth -> Frame]
    BY DEF LoopReturn, Inv, TypeInv, TypeOK
  <2> QED
    BY <1>2, <1>4, <2>1, NumberTypes
<1>6. /\ depth' > 0 => /\ Top' = loop[depth - 1] /\ Top'.pc = "body" /\ Cur' = r
                       /\ r \in Coro /\ co[r] = "sync"
                       /\ depth - 1 \in 1 .. depth /\ depth > 1
      /\ depth' \in Nat
  <2>1. depth' \in Nat /\ (depth' > 0 => depth - 1 \in 1 .. depth')
    BY <1>2, <1>4
  <2>2. depth' > 0 => Top' = loop[depth - 1]
    BY <1>4, <1>5, <2>1 DEF Top
  <2>3. depth' > 0 => /\ depth - 1 \in 1 .. depth /\ depth - 1 < depth
                      /\ depth > 1
    BY <1>2, <1>4
  <2>4. depth' > 0 => /\ loop[depth - 1].pc = "body" /\ r \in Coro
                      /\ co[r] = "sync"
    BY <1>2, <2>3 DEF Inv, TypeInv, StackInv, WakeInv, OwnerInv, BodyInv
  <2> QED
    BY <2>1, <2>2, <2>3, <2>4 DEF Cur
<1>9. depth > 1 <=> depth' > 0
  BY <1>2, <1>4
<1>7. \A c \in Coro : co'[c] = IF c = m THEN "freed"
                               ELSE IF depth > 1 /\ c = r THEN "run"
                               ELSE co[c]
  <2> SUFFICES ASSUME NEW c \in Coro
               PROVE  co'[c] = IF c = m THEN "freed"
                               ELSE IF depth > 1 /\ c = r THEN "run"
                               ELSE co[c]
    OBVIOUS
  <2>1. co'[c] = CASE c = m -> "freed"
                   [] depth > 1 /\ c = r -> "run"
                   [] OTHER -> co[c]
    BY DEF LoopReturn
  <2>2. ~(c = m /\ depth > 1 /\ c = r)
    BY <1>3, <1>6, <1>9
  <2> HIDE DEF m, r
  <2> QED
    BY <2>1, <2>2
<1>8. \A c : ~Back(c) /\ ~Back(c)'
  BY <1>2, <1>6 DEF Back
<1> HIDE DEF m, r
<1>10. BodyInv'
  <2>1. \A c \in Coro : co'[c] \in Active <=> depth > 1 /\ c = r
    BY <1>2, <1>3, <1>6, <1>7, <1>9 DEF Active
  <2>2. \A d \in 1 .. depth' : d < depth' => loop[d].cur # r
    <3> SUFFICES ASSUME NEW d \in 1 .. depth', d < depth'
                 PROVE  loop[d].cur # loop[depth - 1].cur
      BY DEF r
    <3>1. d \in 1 .. depth /\ depth - 1 \in 1 .. depth /\ d < depth - 1
          /\ depth - 1 < depth
      BY <1>2, <1>4
    <3> QED
      BY <3>1 DEF Inv, WakeInv, OwnerInv, BodyInv
  <2>3. \A d \in 1 .. depth' : d < depth' => co'[loop'[d].cur] = "sync"
    <3> SUFFICES ASSUME NEW d \in 1 .. depth', d < depth'
                 PROVE  co'[loop[d].cur] = "sync"
      BY <1>5
    <3>1. loop[d].cur \in Coro /\ co[loop[d].cur] = "sync" /\ loop[d].cur # r
      BY <1>2, <1>5, <2>2 DEF Inv, WakeInv, OwnerInv, BodyInv
    <3> QED
      BY <1>3, <1>7, <3>1
  <2>4. ASSUME NEW c \in Coro, co'[c] = "sync"
        PROVE  \E d \in 1 .. depth' : d < depth' /\ loop'[d].cur = c
    <3>1. co[c] = "sync" /\ ~(depth > 1 /\ c = r)
      BY <1>7, <2>4
    <3>2. PICK d \in 1 .. depth : d < depth /\ loop[d].cur = c
      BY <3>1 DEF Inv, WakeInv, OwnerInv, BodyInv
    <3>3. d # depth - 1
      BY <1>2, <3>1, <3>2 DEF r
    <3>4. d \in 1 .. depth' /\ d < depth'
      BY <1>2, <1>4, <3>2, <3>3
    <3> QED
      BY <1>5, <3>2, <3>4
  <2>5. \A d, e \in 1 .. depth' :
            d < e /\ e < depth' => loop'[d].cur # loop'[e].cur
    <3> SUFFICES ASSUME NEW d \in 1 .. depth', NEW e \in 1 .. depth',
                        d < e, e < depth'
                 PROVE  loop[d].cur # loop[e].cur
      BY <1>5
    <3> QED
      BY <1>5 DEF Inv, WakeInv, OwnerInv, BodyInv
  <2> QED
    BY <1>6, <1>9, <2>1, <2>3, <2>4, <2>5 DEF BodyInv
<1>11. MainInv'
  <2> SUFFICES ASSUME NEW d \in 1 .. depth'
               PROVE  /\ co'[loop[d].main] # "none"
                      /\ loop[d].drain
                            => co'[loop[d].main] \in {"done", "freed"}
                      /\ \A p \in Coro : child[p] # loop[d].main
    BY <1>4, <1>5 DEF MainInv
  <2>1. /\ loop[d].main \in Coro /\ co[loop[d].main] # "none"
        /\ loop[d].drain => co[loop[d].main] \in {"done", "freed"}
        /\ \A p \in Coro : child[p] # loop[d].main
    BY <1>2, <1>5 DEF Inv, WakeInv, OwnerInv, MainInv
  <2> QED
    BY <1>6, <1>7, <1>9, <2>1
<1>12. AwaitInv'
  <2>1. ASSUME NEW p \in Coro, child[p] # None PROVE Linked(p)'
    <3>1. /\ Linked(p) /\ child[p] \in Coro /\ child[p] # m
          /\ co[p] \in {"await", "awaited"}
      BY <1>2, <1>3, <2>1 DEF Inv, WakeInv, OwnerInv, AwaitInv, Handle
    <3>2. co'[p] = co[p]
      BY <1>3, <1>6, <1>7, <1>9, <3>1
    <3>3. /\ co[child[p]] = "done" => co'[child[p]] = "done"
          /\ co[child[p]] \notin {"none", "freed", "done"}
                => co'[child[p]] \notin {"none", "freed", "done"}
      BY <1>6, <1>7, <1>9, <3>1
    <3> QED
      BY <1>4, <1>8, <3>1, <3>2, <3>3 DEF Linked
  <2>2. \A p \in Coro :
            co'[p] \in {"await", "awaited"} <=> co[p] \in {"await", "awaited"}
    BY <1>3, <1>6, <1>7, <1>9
  <2> QED
    BY <1>4, <2>1, <2>2 DEF Inv, WakeInv, OwnerInv, AwaitInv
<1>13. DoneInv'
  <2> SUFFICES ASSUME NEW c \in Coro, co'[c] = "done"
               PROVE  \/ \E d \in 1 .. depth' : loop'[d].main = c
                      \/ \E p \in Coro : child[p] = c
    BY <1>4 DEF DoneInv
  <2>1. co[c] = "done" /\ c # m
    BY <1>7
  <2>2. CASE \E p \in Coro : child[p] = c
    BY <2>2
  <2>3. CASE \E d \in 1 .. depth : loop[d].main = c
    <3>1. PICK d \in 1 .. depth : loop[d].main = c
      BY <2>3
    <3>2. d # depth
      BY <1>3, <2>1, <3>1
    <3>3. d \in 1 .. depth'
      BY <1>2, <1>4, <3>2
    <3> QED
      BY <1>5, <3>1, <3>3
  <2> QED
    BY <1>8, <2>1, <2>2, <2>3 DEF Inv, WakeInv, OwnerInv, DoneInv
<1>14. IoInv'
  <2>1. \A c \in Coro : co[c] \in {"submitted", "io"} => co'[c] = co[c]
    BY <1>3, <1>6, <1>7, <1>9
  <2> QED
    BY <1>2, <1>4, <2>1 DEF Inv, WakeInv, IoInv, Handle
<1>15. OneWakeup'
  <2>1. ASSUME NEW c \in Coro, Counts(c), Counts(c)', Wakes(c) = Due(c)
        PROVE  Wakes(c)' = Due(c)'
    <3>1. Soon(c) = 0 /\ Served(c)' = Served(c) /\ Soon(c)' = 0
      BY <1>4, <1>8 DEF Soon, Served, AboutToReenqueue, Back
    <3>2. Wakes(c)' = Wakes(c)
      BY <1>4, <2>1, <3>1 DEF Counts
    <3>3. Due(c)' = Due(c)
      BY <1>3, <1>6, <1>7, <1>9 DEF Due, Suspended
    <3> QED
      BY <2>1, <3>2, <3>3
  <2> QED
    BY <1>2, <2>1, WakeupKept
<1>16. Quiescent'
  <2> SUFFICES ASSUME depth' = 0, NEW c \in Coro
               PROVE  /\ co'[c] \in {"none", "init", "io", "await", "freed"}
                      /\ co'[c] = "await"
                            => co'[child[c]] \in {"io", "await"}
    BY <1>4 DEF Quiescent
  <2>1. depth = 1
    BY <1>2, <1>4
  <2>2. \A k \in Coro : co[k] # "sync"
    <3> SUFFICES ASSUME NEW k \in Coro, co[k] = "sync" PROVE FALSE
      OBVIOUS
    <3>1. PICK d \in 1 .. depth : d < depth
      BY DEF Inv, WakeInv, OwnerInv, BodyInv
    <3> QED
      BY <2>1, <3>1
  <2>3. \A k \in Coro : co'[k] = IF k = m THEN "freed" ELSE co[k]
    BY <1>7, <2>1
  <2>4. ASSUME NEW k \in Coro, co[k] \in {"await", "awaited"}
        PROVE  /\ co[k] = "await" /\ child[k] \in Coro
               /\ co[child[k]] \in Suspended
    <3>1. co[k] = "await" /\ continuation[child[k]] = k
      BY <1>1, <1>2, <2>4, Stalled DEF Suspended, Active
    <3>2. child[k] \in Coro /\ Linked(k)
      BY <1>2, <2>4 DEF Inv, WakeInv, OwnerInv, AwaitInv, Handle
    <3>3. co[child[k]] \notin {"none", "freed", "done"}
      BY <1>8, <3>1, <3>2, NumberTypes DEF Linked
    <3> QED
      BY <1>2, <2>2, <3>1, <3>2, <3>3 DEF Suspended, Active, CoroState
  <2>5. \A k \in Coro : co[k] \in Suspended => co[k] \in {"io", "await"}
    BY <1>1, Stalled
  <2>6. co[c] = "done" => c = m
    <3> SUFFICES ASSUME co[c] = "done" PROVE c = m
      OBVIOUS
    <3>1. CASE \E p \in Coro : child[p] = c
      <4>1. PICK p \in Coro : child[p] = c
        BY <3>1
      <4>2. co[p] \in {"await", "awaited"}
        BY <4>1, NumberTypes DEF Inv, WakeInv, OwnerInv, AwaitInv
      <4> QED
        BY <2>4, <4>1, <4>2 DEF Suspended
    <3>2. CASE \E d \in 1 .. depth : loop[d].main = c
      BY <1>3, <2>1, <3>2
    <3> QED
      BY <1>8, <3>1, <3>2 DEF Inv, WakeInv, OwnerInv, DoneInv
  <2>7. co'[c] \in {"none", "init", "io", "await", "freed"}
    BY <1>2, <2>2, <2>3, <2>5, <2>6 DEF CoroState, Suspended, Active
  <2>8. ASSUME co'[c] = "await" PROVE co'[child[c]] \in {"io", "await"}
    <3>1. co[c] = "await"
      BY <2>3, <2>8
    <3>2. child[c] \in Coro /\ co[child[c]] \in Suspended /\ child[c] # m
      BY <1>3, <2>4, <3>1
    <3> QED
      BY <2>3, <2>5, <3>2
  <2> QED
    BY <2>7, <2>8
<1> QED
  BY <1>10, <1>11, <1>12, <1>13, <1>14, <1>15, <1>16 DEF WakeInv, OwnerInv

-----------------------------------------------------------------------------
(***************************************************************************)
(* The host program and the file I/O thread                                *)
(***************************************************************************)

\* Steps that leave coroutines and loops alone.
LEMMA OtherFrame ==
    ASSUME Inv, UNCHANGED <<depth, loop, co, child, continuation>>
    PROVE  /\ OwnerInv' /\ Quiescent'
           /\ \A c \in Coro : Soon(c)' = Soon(c) /\ Due(c)' = Due(c)
<1>1. Top' = Top /\ Cur' = Cur /\ \A c : Back(c)' <=> Back(c)
  BY DEF Top, Cur, Back
<1>2. BodyInv'
  BY <1>1 DEF Inv, WakeInv, OwnerInv, BodyInv
<1>3. MainInv'
  BY DEF Inv, WakeInv, OwnerInv, MainInv
<1>4. AwaitInv'
  BY <1>1 DEF Inv, WakeInv, OwnerInv, AwaitInv, Linked
<1>5. DoneInv'
  BY <1>1 DEF Inv, WakeInv, OwnerInv, DoneInv
<1>6. Quiescent'
  BY DEF Inv, WakeInv, Quiescent
<1>7. \A c \in Coro : Soon(c)' = Soon(c) /\ Due(c)' = Due(c)
  BY <1>1 DEF Soon, Due, AboutToReenqueue
<1> QED
  BY <1>2, <1>3, <1>4, <1>5, <1>6, <1>7 DEF OwnerInv

LEMMA HostEndStep ==
    ASSUME Inv, TypeInv', HostShutdown \/ HostJoin \/ HostFree PROVE WakeInv'
<1>1. UNCHANGED <<depth, loop, co, child, continuation, ioPc, ioReq>>
      /\ depth = 0 /\ host # "exited"
  BY DEF HostShutdown, HostJoin, HostFree, InHost, ioVars
<1>2. OwnerInv' /\ Quiescent'
  BY <1>1, OtherFrame
<1>3. CASE HostShutdown \/ HostJoin
  <2>1. UNCHANGED <<ready, pending>>
    BY <1>3 DEF HostShutdown, HostJoin
  <2>2. OneWakeup'
    <3>1. ASSUME NEW c \in Coro, Counts(c), Counts(c)', Wakes(c) = Due(c)
          PROVE  Wakes(c)' = Due(c)'
      <4>1. /\ Soon(c)' = Soon(c) /\ Due(c)' = Due(c)
            /\ Served(c)' = Served(c)
        BY <1>1, OtherFrame DEF Served
      <4>2. Wakes(c)' = Wakes(c)
        BY <1>1, <2>1, <3>1, <4>1 DEF Counts
      <4> QED
        BY <3>1, <4>1, <4>2
    <3> QED
      BY <1>1, <3>1, WakeupKept
  <2>3. IoInv'
    BY <1>1, <1>3, <2>1 DEF Inv, WakeInv, IoInv, HostShutdown, HostJoin
  <2> QED
    BY <1>2, <2>2, <2>3 DEF WakeInv
<1>4. CASE HostFree
  <2>1. host' = "exited" /\ pending' = <<>> /\ host = "free"
    BY <1>4 DEF HostFree, InHost
  <2>2. OneWakeup'
    BY <2>1 DEF OneWakeup
  <2>3. IoInv'
    BY <1>1, <2>1 DEF Inv, WakeInv, IoInv
  <2> QED
    BY <1>2, <2>2, <2>3 DEF WakeInv
<1> QED
  BY <1>3, <1>4

LEMMA IoStep ==
    ASSUME Inv, TypeInv', IoThread PROVE WakeInv'
<1>1. UNCHANGED <<host, depth, loop, co, child, continuation>>
      /\ ioPc # "exited"
  BY DEF IoThread, IoCheck, IoTake, IoComplete
<1>2. OwnerInv' /\ Quiescent'
  BY <1>1, OtherFrame
<1>3. host \notin {"free", "exited"}
  BY <1>1 DEF Inv, WakeInv, IoInv
<1>4. ready \in Seq(Coro) /\ pending \in Seq(Coro) /\ ioReq \in Handle
  BY DEF Inv, TypeInv, TypeOK
<1>5. CASE IoCheck \/ (IoTake /\ pending = <<>>)
  <2>1. UNCHANGED <<ready, pending, ioReq>> /\ ioPc # "work" /\ ioPc' # "work"
    BY <1>5 DEF IoCheck, IoTake
  <2>2. OneWakeup'
    <3>1. ASSUME NEW c \in Coro, Counts(c), Counts(c)', Wakes(c) = Due(c)
          PROVE  Wakes(c)' = Due(c)'
      <4>1. /\ Soon(c)' = Soon(c) /\ Due(c)' = Due(c)
            /\ Served(c)' = Served(c)
        BY <1>1, <2>1, OtherFrame DEF Served
      <4>2. Wakes(c)' = Wakes(c)
        BY <1>1, <2>1, <3>1, <4>1 DEF Counts
      <4> QED
        BY <3>1, <4>1, <4>2
    <3> QED
      BY <1>3, <3>1, WakeupKept
  <2>3. IoInv'
    BY <1>1, <1>3, <2>1 DEF Inv, WakeInv, IoInv
  <2> QED
    BY <1>2, <2>2, <2>3 DEF WakeInv
<1>6. CASE IoTake /\ pending # <<>>
  <2>1. /\ ready' = ready /\ ioPc = "take" /\ ioPc' = "work"
        /\ ioReq' = Head(pending) /\ pending' = Tail(pending)
    BY <1>6 DEF IoTake
  <2>2. ioReq = None
    BY <2>1 DEF Inv, WakeInv, IoInv
  <2>3. /\ Head(pending) \in Coro /\ Head(pending) = pending[1]
        /\ Len(pending') = Len(pending) - 1 /\ 1 \in 1 .. Len(pending)
        /\ \A i \in 1 .. Len(pending') : pending'[i] = pending[i + 1]
    BY <1>4, <1>6, <2>1
  <2>4. OneWakeup'
    <3>1. ASSUME NEW c \in Coro, Counts(c), Counts(c)', Wakes(c) = Due(c)
          PROVE  Wakes(c)' = Due(c)'
      <4>1. /\ Soon(c)' = Soon(c) /\ Due(c)' = Due(c) /\ Served(c) = 0
            /\ Served(c)' = IF Head(pending) = c THEN 1 ELSE 0
        BY <1>1, <2>1, <2>2, OtherFrame, NumberTypes DEF Served
      <4>2. Occurrences(pending, c)
                = Occurrences(pending', c) + (IF Head(pending) = c THEN 1 ELSE 0)
        BY <1>4, <1>6, <2>1, OccurrencesTail
      <4>3. Wakes(c)' = Wakes(c)
        BY <1>1, <2>1, <3>1, <4>1, <4>2 DEF Counts
      <4> QED
        BY <3>1, <4>1, <4>3
    <3> QED
      BY <1>3, <3>1, WakeupKept
  <2>5. IoInv'
    <3>1. \A i \in 1 .. Len(pending') : i + 1 \in 1 .. Len(pending)
      BY <1>4, <2>3
    <3> QED
      BY <1>1, <1>3, <2>1, <2>3, <3>1 DEF Inv, WakeInv, IoInv
  <2> QED
    BY <1>2, <2>4, <2>5 DEF WakeInv
<1>7. CASE IoComplete
  <2>1. /\ ready' = Append(ready, ioReq) /\ ioPc = "work" /\ ioPc' = "check"
        /\ ioReq' = None /\ pending' = pending
    BY <1>7 DEF IoComplete
  <2>2. ioReq \in Coro
    BY <2>1 DEF Inv, TypeInv, RequestInv
  <2>3. OneWakeup'
    <3>1. ASSUME NEW c \in Coro, Counts(c), Counts(c)', Wakes(c) = Due(c)
          PROVE  Wakes(c)' = Due(c)'
      <4>1. /\ Soon(c)' = Soon(c) /\ Due(c)' = Due(c) /\ Served(c)' = 0
            /\ Served(c) = IF ioReq = c THEN 1 ELSE 0
        BY <1>1, <2>1, OtherFrame, NumberTypes DEF Served
      <4>2. Occurrences(ready', c)
                = Occurrences(ready, c) + (IF ioReq = c THEN 1 ELSE 0)
        BY <1>4, <2>1, <2>2, OccurrencesAppend
      <4>3. Wakes(c)' = Wakes(c)
        BY <1>1, <2>1, <3>1, <4>1, <4>2 DEF Counts
      <4> QED
        BY <3>1, <4>1, <4>3
    <3> QED
      BY <1>3, <3>1, WakeupKept
  <2>4. IoInv'
    BY <1>1, <1>3, <2>1 DEF Inv, WakeInv, IoInv
  <2> QED
    BY <1>2, <2>3, <2>4 DEF WakeInv
<1> QED
  BY <1>5, <1>6, <1>7 DEF IoThread

-----------------------------------------------------------------------------
(***************************************************************************)
(* The theorems                                                            *)
(***************************************************************************)

LEMMA InvStep ==
    ASSUME SuspendMarks, Inv, [Next]_vars PROVE Inv'
<1>1. TypeInv'
  BY TypeStep DEF Inv
<1>2. WaitingExact'
  BY WaitHost, WaitLoop, WaitBody, WaitIo DEF Inv, Next, MainThread
<1>3. WakeInv'
  <2>1. CASE HostNext
    BY <1>1, <2>1, HostSpawnStep, HostAwaitStep, HostEndStep DEF HostNext
  <2>2. CASE LoopNext
    BY <1>1, <2>2, LoopDequeueStep, SuspendedStep, CompletedStep,
       LoopSpinStep, LoopCheckStep, LoopReturnStep DEF LoopNext
  <2>3. CASE BodyNext
    BY <1>1, <2>3, BodySpawnStep, BodyAwaitStep, BodyAwaitReadyStep,
       BodySyncAwaitStep, BodySubmitIoStep, BodySuspendIoStep, BodyYieldStep,
       BodyReturnStep DEF BodyNext
  <2>4. CASE IoThread
    BY <1>1, <2>4, IoStep
  <2>5. CASE Terminated \/ UNCHANGED vars
    <3>1. UNCHANGED vars
      BY <2>5 DEF Terminated
    <3>2. OwnerInv' /\ Quiescent'
      BY <3>1, OtherFrame DEF vars
    <3>3. IoInv'
      BY <3>1 DEF vars, Inv, WakeInv, IoInv
    <3>4. OneWakeup'
      BY <3>1 DEF vars, Inv, WakeInv, OneWakeup, Wakes, Occurrences,
         AboutToReenqueue, Top, Cur
    <3> QED
      BY <3>2, <3>3, <3>4 DEF WakeInv
  <2> QED
    BY <2>1, <2>2, <2>3, <2>4, <2>5 DEF Next, MainThread
<1> QED
  BY <1>1, <1>2, <1>3 DEF Inv

\* With the stage 0 generator's coro.suspend(), which marks the coroutine, a
\* suspended coroutine always has exactly one thing that will resume it and
\* any other coroutine has none, however many coroutines there are, however
\* deeply loops nest, and whatever the I/O thread does in between.
THEOREM Wakeups ==
    ASSUME SuspendMarks PROVE Spec => []OneWakeup
<1>1. Inv /\ [Next]_vars => Inv'
  BY InvStep
<1>2. Inv => OneWakeup
  BY DEF Inv, WakeInv
<1> QED
  BY InvInit, <1>1, <1>2, PTL DEF Spec

\* When no event loop is on the stack, no coroutine is left half way: the
\* drain of the ready queue resumes every one that can run and destroys every
\* one that has ended.
THEOREM QuiescentBetweenLoops ==
    ASSUME SuspendMarks PROVE Spec => []Quiescent
<1>1. Inv /\ [Next]_vars => Inv'
  BY InvStep
<1>2. Inv => Quiescent
  BY DEF Inv, WakeInv
<1> QED
  BY InvInit, <1>1, <1>2, PTL DEF Spec

\* No step resumes a coroutine whose request the I/O thread still holds.
THEOREM ResumedAfterIo ==
    ASSUME SuspendMarks PROVE Spec => NoEarlyResume
<1> DEFINE Late(c) == Occurrences(pending, c) = 0 /\ ioReq # c
<1>1. Inv /\ [Next]_vars => Inv'
  BY InvStep
<1>2. ASSUME Inv, [Next]_vars, NEW c \in Coro, co[c] = "io", co'[c] = "run"
      PROVE  Late(c)
  <2>1. co \in [Coro -> CoroState]
    BY <1>2 DEF Inv, TypeInv, TypeOK
  <2>2. CASE HostNext
    BY <1>2, <2>1, <2>2 DEF HostNext, HostSpawn, HostAwait, HostShutdown,
       HostJoin, HostFree, Fresh
  <2>3. CASE LoopDequeue
    <3>1. InLoop("top") /\ ready # <<>> /\ host = "run" /\ pending \in Seq(Coro)
      BY <1>2, <2>3, LoopFacts DEF LoopDequeue
    <3>2. c = Head(ready)
      BY <1>2, <2>1, <2>3, DequeueFacts
      DEF LoopDequeue, process_completed_coro, Suspended, OnStack
    <3> QED
      BY <1>2, <3>1, <3>2, HeadWoken
  <2>4. CASE LoopResumed
    BY <1>2, <2>1, <2>4 DEF LoopResumed, process_completed_coro
  <2>5. CASE LoopSpin \/ LoopCheck
    BY <1>2, <2>5 DEF LoopSpin, LoopCheck
  <2>6. CASE LoopReturn
    <3>1. InLoop("top") /\ depth \in 1 .. MaxDepth
      BY <1>2, <2>6, LoopFacts DEF LoopReturn
    <3>2. depth > 1 => co[loop[depth - 1].cur] = "sync"
      <4>1. depth > 1 => depth - 1 \in 1 .. depth /\ depth - 1 < depth
        BY <3>1
      <4> QED
        BY <1>2, <4>1 DEF Inv, WakeInv, OwnerInv, BodyInv
    <3>3. co'[c] = CASE c = Top.main -> "freed"
                     [] depth > 1 /\ c = loop[depth - 1].cur -> "run"
                     [] OTHER -> co[c]
      BY <2>6 DEF LoopReturn
    <3>4. ~(depth > 1 /\ c = loop[depth - 1].cur)
      BY <1>2, <3>2
    <3> QED
      BY <1>2, <3>3, <3>4
  <2>7. CASE BodyNext
    <3>1. InLoop("body")
      BY <2>7 DEF BodyNext, BodySpawn, BodyAwait, BodyAwaitReady,
         BodySyncAwait, BodySubmitIo, BodySuspendIo, BodyYield, BodyReturn,
         InBody
    <3>2. co[Cur] # "io" /\ Cur \in Coro
      BY <1>2, <3>1, BodyFacts
      DEF Inv, WakeInv, OwnerInv, BodyInv, Active, InLoop
    <3>3. co'[c] \in {co[c], "init", "freed"} \/ c = Cur
      BY <2>1, <2>7 DEF BodyNext, BodySpawn, BodyAwait, BodyAwaitReady,
         BodySyncAwait, BodySubmitIo, BodySuspendIo, BodyYield, BodyReturn
    <3> QED
      BY <1>2, <3>2, <3>3
  <2>8. CASE IoThread \/ Terminated \/ UNCHANGED vars
    BY <1>2, <2>8 DEF IoThread, IoCheck, IoTake, IoComplete, Terminated, vars
  <2> QED
    BY <1>2, <2>2, <2>3, <2>4, <2>5, <2>6, <2>7, <2>8
    DEF Next, MainThread, LoopNext
<1>3. Inv /\ [Next]_vars
          => [\A c \in Coro : co[c] = "io" /\ co'[c] = "run"
                 => Occurrences(pending, c) = 0 /\ ioReq # c]_vars
  BY <1>2
<1> QED
  BY InvInit, <1>1, <1>3, PTL DEF Spec, NoEarlyResume

\* No memory has been misused, and the frame a loop was started for is there
\* until the loop returns.
FaultInv ==
    /\ ~fault
    /\ depth > 0 => co[Top.main] # "freed"

LEMMA FaultStep ==
    ASSUME MaxDepth = 1, Inv, FaultInv, [Next]_vars PROVE FaultInv'
<1>1. co \in [Coro -> CoroState] /\ depth \in 0 .. 1
      /\ loop \in [1 .. 1 -> Frame] /\ child \in [Coro -> Handle]
  BY DEF Inv, TypeInv, TypeOK
<1>2. depth > 0 => /\ depth = 1 /\ Top = loop[1] /\ Top.main \in Coro
                   /\ \A p \in Coro : child[p] # Top.main
                   /\ Top.drain => co[Top.main] \in {"done", "freed"}
                   /\ co[Top.main] # "none"
  BY <1>1 DEF Inv, TypeInv, StackInv, WakeInv, OwnerInv, MainInv, Top
<1>3. CASE HostNext
  <2>1. ~fault' /\ depth = 0
    BY <1>3 DEF HostNext, HostSpawn, HostAwait, HostShutdown, HostJoin,
       HostFree, InHost, FaultInv
  <2>2. CASE HostAwait
    <3>1. PICK k \in Coro : co' = [co EXCEPT ![k] = "init"] /\ PushLoop(k)
      BY <2>2 DEF HostAwait
    <3>2. depth' = 1 /\ loop'[1].main = k
      BY <1>1, <2>1, <3>1 DEF PushLoop
    <3>3. co'[k] = "init"
      BY <1>1, <3>1
    <3> QED
      BY <2>1, <3>2, <3>3 DEF FaultInv, Top
  <2>3. CASE ~HostAwait
    <3>1. depth' = 0
      BY <1>3, <2>1, <2>3 DEF HostNext, HostSpawn, HostShutdown, HostJoin, HostFree
    <3> QED
      BY <2>1, <3>1 DEF FaultInv
  <2> QED
    BY <2>2, <2>3
<1>4. ASSUME LoopNext \/ BodyNext, depth' = depth, depth > 0
      PROVE  Top'.main = Top.main
  <2>1. CASE LoopNext
    BY <1>1, <1>2, <1>4, <2>1
    DEF LoopNext, LoopDequeue, LoopResumed, LoopSpin, LoopCheck, LoopReturn,
        Goto, Top, Frame
  <2>2. CASE BodyNext
    BY <1>1, <1>2, <1>4, <2>2
    DEF BodyNext, BodySpawn, BodyAwait, BodyAwaitReady, BodySyncAwait,
        BodySubmitIo, BodySuspendIo, BodyYield, BodyReturn, PushLoop,
        Goto, Top, Frame
  <2> QED
    BY <1>4, <2>1, <2>2
<1>5. CASE LoopNext /\ ~LoopReturn
  <2>1. depth' = depth /\ depth > 0
    BY <1>5 DEF LoopNext, LoopDequeue, LoopResumed, LoopSpin, LoopCheck, InLoop
  <2>2. ~fault'
    <3>1. CASE LoopDequeue
      <4>1. InLoop("top") /\ ready # <<>>
        BY <3>1 DEF LoopDequeue
      <4>2. co[Head(ready)] \in Suspended
        BY <4>1, DequeueFacts
      <4> QED
        BY <3>1, <4>2 DEF LoopDequeue, Suspended, OnStack, FaultInv
    <3>2. CASE ~LoopDequeue
      BY <1>5, <2>1, <3>2
      DEF LoopNext, LoopResumed, LoopSpin, LoopCheck, FaultInv
    <3> QED
      BY <3>1, <3>2
  <2>3. co'[Top.main] # "freed"
    BY <1>1, <1>2, <1>5, <2>1
    DEF LoopNext, LoopDequeue, LoopResumed, LoopSpin, LoopCheck,
        process_completed_coro, Resumed, FaultInv
  <2> QED
    BY <1>4, <1>5, <2>1, <2>2, <2>3 DEF FaultInv
<1>6. CASE LoopReturn
  <2>1. Top.drain /\ depth > 0 /\ fault' = (co[Top.main] # "done")
        /\ depth' = depth - 1
    BY <1>6 DEF LoopReturn, InLoop
  <2>2. co[Top.main] = "done" /\ depth = 1
    BY <1>2, <2>1 DEF FaultInv
  <2>3. depth' = 0
    BY <2>1, <2>2
  <2>4. ~fault'
    BY <2>1, <2>2, Zenon
  <2> QED
    BY <2>3, <2>4 DEF FaultInv
<1>7. CASE BodyNext
  <2>1. InLoop("body") /\ ~BodySyncAwait
    BY <1>1, <1>7 DEF BodyNext, BodySpawn, BodyAwait, BodyAwaitReady,
       BodySyncAwait, BodySubmitIo, BodySuspendIo, BodyYield, BodyReturn,
       InBody, InLoop
  <2>2. depth' = depth /\ depth > 0 /\ Cur \in Coro
    BY <1>7, <2>1, BodyFacts
    DEF BodyNext, BodySpawn, BodyAwait, BodyAwaitReady, BodySubmitIo,
        BodySuspendIo, BodyYield, BodyReturn, InLoop
  <2>3. CASE BodyAwaitReady
    <3>1. co[Cur] = "awaited"
      BY <2>3 DEF BodyAwaitReady, InBody
    <3>2. child[Cur] # None /\ Linked(Cur)
      BY <2>2, <3>1 DEF Inv, WakeInv, OwnerInv, AwaitInv
    <3>3. co[child[Cur]] = "done"
      BY <3>1, <3>2 DEF Linked
    <3>4. ~fault'
      BY <2>3, <3>3 DEF BodyAwaitReady
    <3>5. co'[Top.main] # "freed"
      BY <1>1, <1>2, <2>2, <2>3 DEF BodyAwaitReady, FaultInv
    <3> QED
      BY <1>4, <1>7, <2>2, <3>4, <3>5 DEF FaultInv
  <2>4. CASE ~BodyAwaitReady
    <3>1. ~fault' /\ co'[Top.main] # "freed"
      BY <1>1, <1>2, <1>7, <2>1, <2>2, <2>4
      DEF BodyNext, BodySpawn, BodyAwait, BodySubmitIo, BodySuspendIo,
          BodyYield, BodyReturn, FaultInv
    <3> QED
      BY <1>4, <1>7, <2>2, <3>1 DEF FaultInv
  <2> QED
    BY <2>3, <2>4
<1>8. CASE IoThread \/ Terminated \/ UNCHANGED vars
  <2>1. UNCHANGED <<depth, loop, co>>
    BY <1>8 DEF IoThread, IoCheck, IoTake, IoComplete, Terminated, vars
  <2>2. ~fault'
    BY <1>8 DEF IoThread, IoCheck, IoTake, IoComplete, Terminated, vars,
       FaultInv, Inv, WakeInv, IoInv
  <2> QED
    BY <2>1, <2>2 DEF FaultInv, Top
<1> QED
  BY <1>3, <1>5, <1>6, <1>7, <1>8 DEF Next, MainThread, LoopNext

\* In a program whose event loops do not nest (no function that is not async
\* awaits below a coroutine), no frame is used after coro.destroy, destroyed
\* twice, resumed while it runs or read before it is done, and the I/O thread
\* does not touch the queue once the runtime has freed it.
THEOREM NoFaults ==
    ASSUME SuspendMarks, MaxDepth = 1 PROVE Spec => []NoFault
<1>1. Init => FaultInv
  BY DEF Init, FaultInv
<1>2. Inv /\ [Next]_vars => Inv'
  BY InvStep
<1>3. Inv /\ FaultInv /\ [Next]_vars => FaultInv'
  BY FaultStep
<1>4. FaultInv => NoFault
  BY DEF FaultInv, NoFault
<1> QED
  BY InvInit, <1>1, <1>2, <1>3, <1>4, PTL DEF Spec
=============================================================================
