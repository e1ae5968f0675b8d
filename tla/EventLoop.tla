----------------------------- MODULE EventLoop -----------------------------
(***************************************************************************)
(* The asynchronous core of the Djinn runtime (runtime/djinn_runtime.c)    *)
(* together with the code the generator emits around it                    *)
(* (generator/expressions/AwaitExpression.cpp, IntrinsicMethods.cpp,       *)
(* generator/Generator.cpp).                                               *)
(*                                                                         *)
(* Two threads share the ready queue and the list of pending requests: the *)
(* main thread, which runs the host program, the event loops nested on its *)
(* C stack and the coroutine bodies, and the file I/O thread.              *)
(*                                                                         *)
(* A coroutine is a heap frame.  What its body computes is abstracted to   *)
(* the calls it makes into the runtime; any such sequence may happen, up   *)
(* to MaxCoros coroutines and MaxOps suspensions that are not awaits.      *)
(***************************************************************************)
EXTENDS Naturals, Sequences, FiniteSets

CONSTANTS MaxCoros,      \* bound: coroutine frames ever allocated
          MaxOps,        \* bound: yields and I/O requests of one execution
          MaxDepth,      \* bound: event loops nested on the C stack
          MaxWaiting,    \* DJINN_MAX_WAITING, size of waiting_handles
          SuspendMarks   \* TRUE: coro.suspend() also calls
                         \* __djinn_mark_waiting (stage 0 generator);
                         \* FALSE: it does not (the self-hosted generator)

ASSUME EventLoopAssumption ==
    /\ MaxCoros \in Nat \ {0}
    /\ MaxOps \in Nat
    /\ MaxDepth \in Nat \ {0}
    /\ MaxWaiting \in Nat \ {0}
    /\ SuspendMarks \in BOOLEAN

Coro == 1 .. MaxCoros
None == 0
Handle == Coro \cup {None}

\* "none": not allocated yet.  "init": created, suspended at its initial
\* suspend.  "run", "submitted", "awaited", "sync": running on the C stack
\* (submitted: between __djinn_async_read and coro.suspend; awaited: past the
\* suspend of an await, before the child's promise is read; sync: inside a
\* nested event loop).  "await", "io", "yield": suspended.  "done": at its
\* final suspend.  "freed": coro.destroy was called.
CoroState == {"none", "init", "run", "submitted", "awaited", "sync",
              "await", "io", "yield", "done", "freed"}
OnStack == {"run", "submitted", "awaited", "sync"}
Suspended == {"init", "await", "io", "yield"}

VARIABLES
    host,          \* main(): "run", then the phases of the shutdown
    running,       \* runtime.running
    depth,         \* number of event loops on the C stack
    loop,          \* loop[d]: locals of the d-th run_event_loop_core
    co,            \* co[c]: state of the coroutine frame c
    child,         \* child[c]: the handle that c awaits
    ready,         \* runtime.ready_queue
    waiting,       \* waiting_handles[0 .. waiting_count - 1]
    continuation,  \* continuation[c]: the parent to wake when c completes
    pending,       \* runtime.io_pending, newest request first
    ioPc,          \* program counter of the file I/O thread
    ioReq,         \* the coroutine of the request being served
    ops,           \* yields and I/O requests so far
    fault          \* memory was used after free, resumed twice, or a queue
                   \* was used after it was destroyed

ioVars == <<ioPc, ioReq>>
vars == <<host, running, depth, loop, co, child, ready, waiting,
          continuation, pending, ioPc, ioReq, ops, fault>>

Frame == [main : Handle, pc : {"top", "body", "resumed", "check"},
          cur : Handle, drain : BOOLEAN]

TypeOK ==
    /\ host \in {"run", "join", "free", "exited"}
    /\ running \in BOOLEAN
    /\ depth \in 0 .. MaxDepth
    /\ loop \in [1 .. MaxDepth -> Frame]
    /\ co \in [Coro -> CoroState]
    /\ child \in [Coro -> Handle]
    /\ ready \in Seq(Coro)
    /\ waiting \in Seq(Coro)
    /\ continuation \in [Coro -> Handle]
    /\ pending \in Seq(Coro)
    /\ ioPc \in {"check", "take", "work", "exited"}
    /\ ioReq \in Handle
    /\ ops \in 0 .. MaxOps
    /\ fault \in BOOLEAN

NoFrame == [main |-> None, pc |-> "top", cur |-> None, drain |-> FALSE]

Init ==
    /\ host = "run"
    /\ running = TRUE
    /\ depth = 0
    /\ loop = [d \in 1 .. MaxDepth |-> NoFrame]
    /\ co = [c \in Coro |-> "none"]
    /\ child = [c \in Coro |-> None]
    /\ ready = <<>>
    /\ waiting = <<>>
    /\ continuation = [c \in Coro |-> None]
    /\ pending = <<>>
    /\ ioPc = "check"
    /\ ioReq = None
    /\ ops = 0
    /\ fault = FALSE

-----------------------------------------------------------------------------
(***************************************************************************)
(* The set of coroutines that must not be re-enqueued when they suspend.   *)
(***************************************************************************)

\* A full array drops the mark without a trace.
mark_waiting(w, c) == IF Len(w) < MaxWaiting THEN Append(w, c) ELSE w

is_in_waiting_set(w, c) == \E i \in 1 .. Len(w) : w[i] = c

\* Mutant: is_waiting only looks.
KeepWaiting(w, c) == w

\* is_waiting and remove_from_waiting: the last entry replaces the first
\* entry that holds c.
remove_from_waiting(w, c) ==
    IF is_in_waiting_set(w, c)
    THEN LET i == CHOOSE k \in 1 .. Len(w) :
                      /\ w[k] = c
                      /\ \A j \in 1 .. k - 1 : w[j] # c
         IN  [j \in 1 .. Len(w) - 1 |-> IF j = i THEN w[Len(w)] ELSE w[j]]
    ELSE w

-----------------------------------------------------------------------------
(***************************************************************************)
(* The locals of the innermost event loop.                                 *)
(***************************************************************************)

Top == loop[depth]
Cur == Top.cur

\* Where the main thread is: in main, at a point of the innermost loop, or in
\* the body that loop resumed.  Once memory is corrupted the model stops.
InHost(phase) == ~fault /\ depth = 0 /\ host = phase
InLoop(pc) == ~fault /\ depth > 0 /\ Top.pc = pc
InBody(state) == InLoop("body") /\ co[Cur] = state

\* run_event_loop_core(m): a new loop, which starts by enqueueing m.
PushLoop(m) ==
    /\ depth' = depth + 1
    /\ loop' = [loop EXCEPT ![depth + 1] =
                   [main |-> m, pc |-> "top", cur |-> None, drain |-> FALSE]]
    /\ ready' = IF is_in_waiting_set(waiting, m) THEN ready
                ELSE Append(ready, m)

\* Handles are allocated in order; a freed one is never reused, so that a
\* dangling handle stays recognizable.
Fresh(c) == co[c] = "none" /\ \A d \in Coro : d < c => co[d] # "none"

Goto(pc) == loop' = [loop EXCEPT ![depth].pc = pc]

-----------------------------------------------------------------------------
(***************************************************************************)
(* The host program: a synchronous main that spawns and awaits, or the     *)
(* wrapper of an asynchronous main, which awaits it once; then shutdown.   *)
(***************************************************************************)

HostSpawn ==
    /\ InHost("run")
    /\ \E c \in Coro :
          /\ Fresh(c)
          /\ co' = [co EXCEPT ![c] = "init"]
          /\ ready' = Append(ready, c)
    /\ UNCHANGED <<host, running, depth, loop, child, waiting, continuation,
                   pending, ioVars, ops, fault>>

HostAwait ==
    /\ InHost("run")
    /\ \E c \in Coro :
          /\ Fresh(c)
          /\ co' = [co EXCEPT ![c] = "init"]
          /\ PushLoop(c)
    /\ UNCHANGED <<host, running, child, waiting, continuation, pending,
                   ioVars, ops, fault>>

\* __djinn_runtime_shutdown lowers the flags, ...
HostShutdown ==
    /\ InHost("run")
    /\ host' = "join"
    /\ running' = FALSE
    /\ UNCHANGED <<depth, loop, co, child, ready, waiting, continuation,
                   pending, ioVars, ops, fault>>

\* ... joins the threads, ...
HostJoin ==
    /\ InHost("join")
    /\ ioPc = "exited"
    /\ host' = "free"
    /\ UNCHANGED <<running, depth, loop, co, child, ready, waiting,
                   continuation, pending, ioVars, ops, fault>>

\* ... and frees the queue and the requests still pending.
HostFree ==
    /\ InHost("free")
    /\ host' = "exited"
    /\ ready' = <<>>
    /\ pending' = <<>>
    /\ UNCHANGED <<running, depth, loop, co, child, waiting, continuation,
                   ioVars, ops, fault>>

-----------------------------------------------------------------------------
(***************************************************************************)
(* The event loop.                                                         *)
(***************************************************************************)

\* Mutant: pop_continuation's NULL is not tested.
CompleteUnchecked(h, q) ==
    /\ ready' = Append(q, continuation[h])
    /\ continuation' = [continuation EXCEPT ![h] = None]
    /\ UNCHANGED <<waiting, co>>

\* Mutant: the coroutine the loop was started for is destroyed too.
CompleteFreesMain(h, q) ==
    LET parent == continuation[h]
    IN  /\ ready' = IF parent # None THEN Append(q, parent) ELSE q
        /\ co' = IF parent = None THEN [co EXCEPT ![h] = "freed"] ELSE co
        /\ continuation' = [continuation EXCEPT ![h] = None]
        /\ UNCHANGED waiting

\* What happens to a coroutine h seen done, q being the ready queue: its
\* awaiting parent is enqueued, or else h is destroyed unless it is the
\* coroutine this loop was started for.
process_completed_coro(h, q) ==
    LET parent == continuation[h]
    IN  /\ continuation' = [continuation EXCEPT ![h] = None]
        /\ waiting' = remove_from_waiting(remove_from_waiting(waiting, h),
                                          parent)
        /\ ready' = IF parent # None THEN Append(q, parent) ELSE q
        /\ co' = IF parent = None /\ h # Top.main
                 THEN [co EXCEPT ![h] = "freed"] ELSE co

\* Where the loop goes once it has dealt with a task.
AfterTask == IF Top.drain THEN "top" ELSE "check"

\* The state of the frame h once __djinn_coro_resume has entered it.
Resumed(h) == IF co[h] = "await" THEN "awaited" ELSE "run"

LoopDequeue ==
    /\ InLoop("top") /\ ready # <<>>
    /\ LET h == Head(ready)
       IN  \/ /\ co[h] \in Suspended
              /\ co' = [co EXCEPT ![h] = Resumed(h)]
              /\ loop' = [loop EXCEPT ![depth].pc = "body",
                                      ![depth].cur = h]
              /\ ready' = Tail(ready)
              /\ UNCHANGED <<waiting, continuation, fault>>
           \/ /\ co[h] = "done"
              /\ process_completed_coro(h, Tail(ready))
              /\ Goto(AfterTask)
              /\ UNCHANGED fault
           \/ /\ co[h] \in OnStack \cup {"none", "freed"}
              /\ fault' = TRUE
              /\ UNCHANGED <<co, loop, ready, waiting, continuation>>
    /\ UNCHANGED <<host, running, depth, child, pending, ioVars, ops>>

\* The resumed body gave control back to the loop.
LoopResumed ==
    /\ InLoop("resumed")
    /\ \/ /\ co[Cur] = "done"
          /\ process_completed_coro(Cur, ready)
       \/ /\ co[Cur] # "done"
          /\ waiting' = remove_from_waiting(waiting, Cur)
          /\ ready' = IF is_in_waiting_set(waiting, Cur) THEN ready
                      ELSE Append(ready, Cur)
          /\ UNCHANGED <<co, continuation>>
    /\ Goto(AfterTask)
    /\ UNCHANGED <<host, running, depth, child, pending, ioVars, ops, fault>>

\* An empty queue: a loop that is not draining goes round.
LoopSpin ==
    /\ InLoop("top") /\ ready = <<>> /\ ~Top.drain
    /\ Goto("check")
    /\ UNCHANGED <<host, running, depth, co, child, ready, waiting,
                   continuation, pending, ioVars, ops, fault>>

\* Mutant: the loop stops without draining the queue.
CheckNoDrain ==
    /\ InLoop("check")
    /\ IF co[Top.main] = "done"
       THEN /\ depth' = depth - 1
            /\ co' = [co EXCEPT ![Top.main] = "freed"]
            /\ loop' = [loop EXCEPT ![depth] = NoFrame]
       ELSE /\ Goto("top")
            /\ UNCHANGED <<depth, co>>
    /\ UNCHANGED <<host, running, child, ready, waiting, continuation,
                   pending, ioVars, ops, fault>>

\* __djinn_coro_done(main_handle), after every round.
LoopCheck ==
    /\ InLoop("check")
    /\ fault' = (co[Top.main] = "freed")
    /\ loop' = [loop EXCEPT ![depth].pc = "top",
                            ![depth].drain = (co[Top.main] = "done")]
    /\ UNCHANGED <<host, running, depth, co, child, ready, waiting,
                   continuation, pending, ioVars, ops>>

\* The drained loop returns to the code generate_await_loop emits, which
\* reads the promise of the awaited coroutine and destroys its frame.
LoopReturn ==
    /\ InLoop("top") /\ ready = <<>> /\ Top.drain
    /\ fault' = (co[Top.main] # "done")
    /\ depth' = depth - 1
    /\ loop' = [loop EXCEPT ![depth] = NoFrame]
    /\ co' = [c \in Coro |->
                 CASE c = Top.main -> "freed"
                   [] depth > 1 /\ c = loop[depth - 1].cur -> "run"
                   [] OTHER -> co[c]]
    /\ UNCHANGED <<host, running, child, ready, waiting, continuation,
                   pending, ioVars, ops>>

-----------------------------------------------------------------------------
(***************************************************************************)
(* The body of the coroutine that the innermost loop resumed.              *)
(***************************************************************************)

BodySpawn ==
    /\ InBody("run")
    /\ \E c \in Coro :
          /\ Fresh(c)
          /\ co' = [co EXCEPT ![c] = "init"]
          /\ ready' = Append(ready, c)
    /\ UNCHANGED <<host, running, depth, loop, child, waiting, continuation,
                   pending, ioVars, ops, fault>>

\* Mutant: __djinn_await registers the continuation only.
AwaitNoEnqueue ==
    /\ InBody("run")
    /\ \E c \in Coro :
          /\ Fresh(c)
          /\ co' = [co EXCEPT ![c] = "init", ![Cur] = "await"]
          /\ child' = [child EXCEPT ![Cur] = c]
          /\ continuation' = [continuation EXCEPT ![c] = Cur]
          /\ waiting' = mark_waiting(waiting, Cur)
    /\ Goto("resumed")
    /\ UNCHANGED <<host, running, depth, ready, pending, ioVars, ops, fault>>

\* await f() in an async function: __djinn_await, then coro.suspend.
BodyAwait ==
    /\ InBody("run")
    /\ \E c \in Coro :
          /\ Fresh(c)
          /\ co' = [co EXCEPT ![c] = "init", ![Cur] = "await"]
          /\ child' = [child EXCEPT ![Cur] = c]
          /\ continuation' = [continuation EXCEPT ![c] = Cur]
          /\ waiting' = mark_waiting(waiting, Cur)
          /\ ready' = IF is_in_waiting_set(waiting', c) THEN ready
                      ELSE Append(ready, c)
    /\ Goto("resumed")
    /\ UNCHANGED <<host, running, depth, pending, ioVars, ops, fault>>

\* await.ready: read the child's promise, destroy the child.
BodyAwaitReady ==
    /\ InBody("awaited")
    /\ fault' = (co[child[Cur]] # "done")
    /\ co' = [co EXCEPT ![Cur] = "run", ![child[Cur]] = "freed"]
    /\ child' = [child EXCEPT ![Cur] = None]
    /\ UNCHANGED <<host, running, depth, loop, ready, waiting, continuation,
                   pending, ioVars, ops>>

\* await f() in a function that is not async, called from an async one: an
\* event loop inside the event loop.
BodySyncAwait ==
    /\ InBody("run") /\ depth < MaxDepth
    /\ \E c \in Coro :
          /\ Fresh(c)
          /\ co' = [co EXCEPT ![c] = "init", ![Cur] = "sync"]
          /\ PushLoop(c)
    /\ UNCHANGED <<host, running, child, waiting, continuation, pending,
                   ioVars, ops, fault>>

\* __djinn_async_read and __djinn_async_write: the newest request is served
\* first.
BodySubmitIo ==
    /\ InBody("run") /\ ops < MaxOps
    /\ ops' = ops + 1
    /\ pending' = <<Cur>> \o pending
    /\ co' = [co EXCEPT ![Cur] = "submitted"]
    /\ UNCHANGED <<host, running, depth, loop, child, ready, waiting,
                   continuation, ioVars, fault>>

\* Mutant: coro.suspend() without __djinn_mark_waiting.
SuspendUnmarked ==
    /\ InBody("submitted")
    /\ co' = [co EXCEPT ![Cur] = "io"]
    /\ Goto("resumed")
    /\ UNCHANGED <<host, running, depth, child, ready, waiting, continuation,
                   pending, ioVars, ops, fault>>

\* coro.suspend()
BodySuspendIo ==
    /\ InBody("submitted")
    /\ waiting' = IF SuspendMarks THEN mark_waiting(waiting, Cur)
                  ELSE waiting
    /\ co' = [co EXCEPT ![Cur] = "io"]
    /\ Goto("resumed")
    /\ UNCHANGED <<host, running, depth, child, ready, continuation, pending,
                   ioVars, ops, fault>>

BodyYield ==
    /\ InBody("run") /\ ops < MaxOps
    /\ ops' = ops + 1
    /\ co' = [co EXCEPT ![Cur] = "yield"]
    /\ Goto("resumed")
    /\ UNCHANGED <<host, running, depth, child, ready, waiting, continuation,
                   pending, ioVars, fault>>

\* The body stores its result in the promise and reaches its final suspend.
BodyReturn ==
    /\ InBody("run")
    /\ co' = [co EXCEPT ![Cur] = "done"]
    /\ Goto("resumed")
    /\ UNCHANGED <<host, running, depth, child, ready, waiting, continuation,
                   pending, ioVars, ops, fault>>

-----------------------------------------------------------------------------
(***************************************************************************)
(* The file I/O thread.  The flag is read outside the lock, so a request   *)
(* may still be taken after the flag was lowered.                          *)
(***************************************************************************)

\* Mutant: the thread does not look at the flag.
IoCheckForever ==
    /\ ~fault /\ ioPc = "check"
    /\ ioPc' = "take"
    /\ UNCHANGED <<host, running, depth, loop, co, child, ready, waiting,
                   continuation, pending, ioReq, ops, fault>>

IoCheck ==
    /\ ~fault /\ ioPc = "check"
    /\ ioPc' = IF running THEN "take" ELSE "exited"
    /\ UNCHANGED <<host, running, depth, loop, co, child, ready, waiting,
                   continuation, pending, ioReq, ops, fault>>

IoTake ==
    /\ ~fault /\ ioPc = "take"
    /\ IF pending = <<>>
       THEN ioPc' = "check" /\ UNCHANGED <<pending, ioReq>>
       ELSE /\ ioPc' = "work"
            /\ ioReq' = Head(pending)
            /\ pending' = Tail(pending)
    /\ UNCHANGED <<host, running, depth, loop, co, child, ready, waiting,
                   continuation, ops, fault>>

\* The system call returned, with data or an error: the coroutine is woken
\* either way.
IoComplete ==
    /\ ~fault /\ ioPc = "work"
    /\ ioPc' = "check"
    /\ ioReq' = None
    /\ ready' = Append(ready, ioReq)
    /\ fault' = (host \in {"free", "exited"})
    /\ UNCHANGED <<host, running, depth, loop, co, child, waiting,
                   continuation, pending, ops>>

-----------------------------------------------------------------------------

HostNext == HostSpawn \/ HostAwait \/ HostShutdown \/ HostJoin \/ HostFree

LoopNext == LoopDequeue \/ LoopResumed \/ LoopSpin \/ LoopCheck \/ LoopReturn

BodyNext ==
    \/ BodySpawn \/ BodyAwait \/ BodyAwaitReady \/ BodySyncAwait
    \/ BodySubmitIo \/ BodySuspendIo \/ BodyYield \/ BodyReturn

MainThread == HostNext \/ LoopNext \/ BodyNext

IoThread == IoCheck \/ IoTake \/ IoComplete

Terminated == (host = "exited" \/ fault) /\ UNCHANGED vars

Next == MainThread \/ IoThread \/ Terminated

Spec == Init /\ [][Next]_vars

\* Both threads are scheduled by the operating system, and every read and
\* write system call returns.
FairSpec == Spec /\ WF_vars(MainThread) /\ WF_vars(IoThread)
-----------------------------------------------------------------------------
(***************************************************************************)
(* Properties                                                              *)
(***************************************************************************)

\* No frame is used after coro.destroy, destroyed twice, resumed while it
\* runs or read before it is done, and no queue is used once destroyed.
\* process_completed_coro, the event loop, the code emitted for await and
\* __djinn_runtime_shutdown must agree on who owns a frame for this to hold.
NoFault == ~fault

\* waiting_handles holds a handle only from __djinn_mark_waiting to the
\* is_waiting that follows the same suspension, so it never holds two: the
\* silent drop at DJINN_MAX_WAITING in __djinn_mark_waiting never happens.
JustMarked ==
    /\ depth > 0 /\ Top.pc = "resumed"
    /\ co[Cur] \in (IF SuspendMarks THEN {"await", "io"} ELSE {"await"})

WaitingExact == waiting = (IF JustMarked THEN <<Cur>> ELSE <<>>)

\* How many things will resume c: its places in the two lists, the request
\* the I/O thread is serving, a child that will complete, and the
\* re-enqueueing the loop is about to do.
Occurrences(s, c) == Cardinality({i \in 1 .. Len(s) : s[i] = c})

AboutToReenqueue(c) ==
    /\ depth > 0 /\ Top.pc = "resumed" /\ Cur = c
    /\ co[c] \in (IF SuspendMarks THEN {"yield"} ELSE {"yield", "io"})

Wakes(c) ==
    Occurrences(ready, c) + Occurrences(pending, c)
    + (IF ioReq = c THEN 1 ELSE 0)
    + Cardinality({k \in Coro : continuation[k] = c})
    + (IF AboutToReenqueue(c) THEN 1 ELSE 0)

\* A suspended coroutine has exactly one thing that will resume it: with
\* none it would be lost, with two it would be resumed behind the back of
\* the operation it waits for.  One that is not suspended has none.
OneWakeup ==
    host # "exited" =>
        \A c \in Coro :
            Wakes(c) = (IF co[c] \in Suspended \cup {"submitted"}
                        THEN 1 ELSE 0)

\* A coroutine suspended for I/O is resumed only after the I/O thread served
\* its request: until then the request points into the coroutine's buffers.
NoEarlyResume ==
    [][\A c \in Coro :
          (co[c] = "io" /\ co'[c] = "run")
              => Occurrences(pending, c) = 0 /\ ioReq # c]_vars

\* drain_ready_queue: between two event loops of the host nothing is left
\* half way.  Apart from coroutines the host spawned since, only those are
\* alive that wait for I/O, or for a child that does; every completed frame
\* was destroyed.
Quiescent ==
    depth = 0 =>
        \A c \in Coro :
            /\ co[c] \in {"none", "init", "io", "await", "freed"}
            /\ co[c] = "await" => co[child[c]] \in {"io", "await"}

\* Every event loop returns: the coroutine it was started for is always
\* resumed again, and the drain that follows ends.
LoopReturns == depth > 0 ~> depth = 0

\* __djinn_runtime_shutdown terminates: the file I/O thread sees the flag.
ShutdownEnds == host = "join" ~> host = "exited"
=============================================================================
