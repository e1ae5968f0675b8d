---------------------------- MODULE SocketPoller ----------------------------
(***************************************************************************)
(* Socket operations of the runtime on Linux (runtime/djinn_runtime.c):    *)
(* the main thread registers a request with epoll and suspends the         *)
(* coroutine (std/net/socket.djinn); the poller thread performs the        *)
(* operation when the socket is ready, writes the result where the         *)
(* coroutine will look for it and enqueues the coroutine.                  *)
(*                                                                         *)
(* A request is identified with the coroutine that waits for it, since a   *)
(* suspended coroutine submits nothing.  The kernel is external: it keeps  *)
(* one registration per socket, disarms it when it reports it              *)
(* (EPOLLONESHOT), and reports sockets that are ready.                     *)
(***************************************************************************)
EXTENDS Integers, Sequences, FiniteSets

CONSTANTS
    Coro,      \* coroutines
    Socket,    \* file descriptors of stream sockets
    Listener,  \* those that listen
    MaxOps,    \* bound: operations submitted in one execution
    MaxEvents, \* capacity of the array given to epoll_wait (64)
    None,      \* no request, no registration, no answer
    HazardSets \* what the kernel and the program may do, one set for each
               \* kind of environment:
               \* "spurious"  a socket reported ready has nothing to receive
               \* "immediate" connect succeeds at once
               \* "refused"   connect fails at once
               \* "shared"    two coroutines use a socket at the same time

Op == {"accept", "connect", "recv", "send"}

Request == [op : Op, sock : Socket]
Registration == [req : Coro, armed : BOOLEAN]

ASSUME SocketPollerAssumption ==
    /\ IsFiniteSet(Coro) /\ IsFiniteSet(Socket)
    /\ Listener \subseteq Socket
    /\ None \notin Request \cup Registration
    /\ MaxOps \in Nat /\ MaxEvents \in Nat \ {0}
    /\ \A hs \in HazardSets :
          hs \subseteq {"spurious", "immediate", "refused", "shared"}

\* -1 is the failure of a system call and the initial value of the variable
\* that receives the result; 0 is success, or the end of the stream; 1 is a
\* number of bytes or an accepted descriptor.
Result == {-1, 0, 1}

VARIABLES
    hazards,    \* of this execution
    co,         \* "run", "wait" (suspended), "ready" (in the ready queue),
                \* "abort" (a failed Debug.assert)
    req,        \* req[c]: the live request of c
    out,        \* out[c]: the local variable of c that receives the result
    outcome,    \* outcome[c]: what the kernel answered (history)
    reg,        \* reg[s]: the epoll registration of s
    events,     \* events returned by epoll_wait and not yet served
    pc,         \* of the poller thread
    connected,  \* the field of the Socket
    ready,      \* ready[s]: the kernel has something for s
    running,    \* runtime.running
    ops

vars == <<hazards, co, req, out, outcome, reg, events, pc, connected, ready,
          running, ops>>

TypeOK ==
    /\ hazards \in HazardSets
    /\ co \in [Coro -> {"run", "wait", "ready", "abort"}]
    /\ req \in [Coro -> Request \cup {None}]
    /\ out \in [Coro -> Result]
    /\ outcome \in [Coro -> Result \cup {None}]
    /\ reg \in [Socket -> Registration \cup {None}]
    /\ events \in Seq(Coro)
    /\ pc \in {"wait", "operate", "delete", "deliver", "exited"}
    /\ connected \in [Socket -> BOOLEAN]
    /\ ready \in [Socket -> BOOLEAN]
    /\ running \in BOOLEAN
    /\ ops \in 0 .. MaxOps

Init ==
    /\ hazards \in HazardSets
    /\ co = [c \in Coro |-> "run"]
    /\ req = [c \in Coro |-> None]
    /\ out = [c \in Coro |-> -1]
    /\ outcome = [c \in Coro |-> None]
    /\ reg = [s \in Socket |-> None]
    /\ events = <<>>
    /\ pc = "wait"
    /\ connected = [s \in Socket |-> TRUE]
    /\ ready = [s \in Socket |-> FALSE]
    /\ running = TRUE
    /\ ops = 0

-----------------------------------------------------------------------------
(***************************************************************************)
(* The kernel: the socket becomes ready for what is asked of it.           *)
(***************************************************************************)

BecomeReady(s) ==
    /\ ~ready[s]
    /\ ready' = [ready EXCEPT ![s] = TRUE]
    /\ UNCHANGED <<hazards, co, req, out, outcome, reg, events, pc, connected,
                   running, ops>>

-----------------------------------------------------------------------------
(***************************************************************************)
(* The main thread.  A submission and the coro.suspend() after it are one  *)
(* step; EventLoop has the races between them.                             *)
(***************************************************************************)

\* Whether c may use s: with exclusive sockets nobody else waits on it.
MayUse(s) ==
    \/ "shared" \in hazards
    \/ \A d \in Coro : req[d] # None => req[d].sock # s

Suspend(c) ==
    /\ running /\ co[c] = "run" /\ ops < MaxOps
    /\ ops' = ops + 1
    /\ out' = [out EXCEPT ![c] = -1]
    /\ co' = [co EXCEPT ![c] = "wait"]
    /\ UNCHANGED <<hazards, events, pc, connected, running>>

\* EPOLL_CTL_ADD, or EPOLL_CTL_MOD when s is registered already: either way
\* the registration of s now points at c's request.
Register(c, op, s) ==
    /\ req' = [req EXCEPT ![c] = [op |-> op, sock |-> s]]
    /\ reg' = [reg EXCEPT ![s] = [req |-> c, armed |-> TRUE]]
    /\ outcome' = [outcome EXCEPT ![c] = None]
    /\ UNCHANGED ready

Accept(c, s) ==
    /\ s \in Listener /\ MayUse(s)
    /\ Suspend(c)
    /\ Register(c, "accept", s)

Send(c, s) ==
    /\ s \notin Listener /\ connected[s] /\ MayUse(s)
    /\ Suspend(c)
    /\ Register(c, "send", s)

Recv(c, s) ==
    /\ s \notin Listener /\ connected[s] /\ MayUse(s)
    /\ Suspend(c)
    /\ Register(c, "recv", s)

\* send and recv assert that the socket is connected.
UseClosed(c, s) ==
    /\ running /\ co[c] = "run"
    /\ s \notin Listener /\ ~connected[s]
    /\ co' = [co EXCEPT ![c] = "abort"]
    /\ UNCHANGED <<hazards, req, out, outcome, reg, events, pc, connected,
                   ready, running, ops>>

\* connect in progress: EPOLL_CTL_ADD, and no EPOLL_CTL_MOD.
Connect(c, s) ==
    /\ s \notin Listener /\ MayUse(s) /\ reg[s] = None
    /\ Suspend(c)
    /\ Register(c, "connect", s)

\* Mutant: the request is registered first and freed when connect fails.
SubmitFailsRegistered(c, s) ==
    /\ s \notin Listener /\ "refused" \in hazards
    /\ Suspend(c)
    /\ outcome' = [outcome EXCEPT ![c] = -1]
    /\ reg' = [reg EXCEPT ![s] = [req |-> c, armed |-> TRUE]]
    /\ UNCHANGED <<hazards, req, ready>>

\* The submission fails: the request is freed and -1 returned, which the
\* methods of Socket do not look at before they suspend.
SubmitFails(c, s) ==
    /\ s \notin Listener
    /\ "refused" \in hazards \/ (reg[s] # None /\ MayUse(s))
    /\ Suspend(c)
    /\ outcome' = [outcome EXCEPT ![c] = -1]
    /\ UNCHANGED <<hazards, req, reg, ready>>

\* connect returns 0: the coroutine is enqueued, its result is not written.
ConnectImmediate(c, s) ==
    /\ "immediate" \in hazards
    /\ s \notin Listener /\ MayUse(s)
    /\ running /\ co[c] = "run" /\ ops < MaxOps
    /\ ops' = ops + 1
    /\ out' = [out EXCEPT ![c] = -1]
    /\ co' = [co EXCEPT ![c] = "ready"]
    /\ outcome' = [outcome EXCEPT ![c] = 0]
    /\ UNCHANGED <<hazards, req, reg, events, pc, connected, ready, running>>

\* The resumed coroutine reads the result.
Resume(c) ==
    /\ running /\ co[c] = "ready"
    /\ LET r == req[c]
       IN  /\ co' = [co EXCEPT ![c] =
                 IF r # None /\ r.op = "accept" /\ out[c] = -1
                 THEN "abort" ELSE "run"]
           /\ connected' = IF r # None /\ r.op = "recv" /\ out[c] <= 0
                           THEN [connected EXCEPT ![r.sock] = FALSE]
                           ELSE connected
    /\ req' = [req EXCEPT ![c] = None]
    /\ UNCHANGED <<hazards, out, outcome, reg, events, pc, ready, running,
                   ops>>

\* The main coroutine is done: __djinn_runtime_shutdown.
Shutdown ==
    /\ running
    /\ running' = FALSE
    /\ UNCHANGED <<hazards, co, req, out, outcome, reg, events, pc, connected,
                   ready, ops>>

-----------------------------------------------------------------------------
(***************************************************************************)
(* The poller thread.                                                      *)
(***************************************************************************)

Reportable == {s \in Socket : reg[s] # None /\ reg[s].armed /\ ready[s]}

\* The request that is being served.
Req == req[Head(events)]

\* Mutant: only the first event of the batch is looked at.
PollerWaitFirst ==
    /\ pc = "wait" /\ running
    /\ \E batch \in SUBSET Reportable \ {{}} :
          /\ Cardinality(batch) <= MaxEvents
          /\ \E s \in batch : events' = <<reg[s].req>>
          /\ reg' = [s \in Socket |-> IF s \in batch
                                      THEN [reg[s] EXCEPT !.armed = FALSE]
                                      ELSE reg[s]]
    /\ pc' = "operate"
    /\ UNCHANGED <<hazards, co, req, out, outcome, connected, ready, running,
                   ops>>

\* epoll_wait: some of the ready sockets, in some order, each disarmed.
PollerWait ==
    /\ pc = "wait" /\ running
    /\ \E batch \in SUBSET Reportable \ {{}} :
          /\ Cardinality(batch) <= MaxEvents
          /\ \E order \in [1 .. Cardinality(batch) -> batch] :
                /\ \A s \in batch : \E i \in DOMAIN order : order[i] = s
                /\ events' = [i \in DOMAIN order |-> reg[order[i]].req]
          /\ reg' = [s \in Socket |-> IF s \in batch
                                      THEN [reg[s] EXCEPT !.armed = FALSE]
                                      ELSE reg[s]]
    /\ pc' = "operate"
    /\ UNCHANGED <<hazards, co, req, out, outcome, connected, ready, running,
                   ops>>

PollerExit ==
    /\ pc = "wait" /\ ~running
    /\ pc' = "exited"
    /\ UNCHANGED <<hazards, co, req, out, outcome, reg, events, connected,
                   ready, running, ops>>

\* What accept4, getsockopt(SO_ERROR), recv and send may answer; without a
\* connection waiting accept4 fails, recv and send have no answer (EAGAIN).
Answers(op, isReady) ==
    CASE ~isReady -> IF op = "accept" THEN {-1} ELSE {}
      [] op = "accept"  -> {-1, 1}
      [] op = "connect" -> {-1, 0}
      [] op = "recv"    -> {-1, 0, 1}
      [] op = "send"    -> {-1, 1}

PollerOperate ==
    /\ pc = "operate" /\ events # <<>>
    /\ \E r \in Answers(Req.op, ready[Req.sock]) :
          outcome' = [outcome EXCEPT ![Head(events)] = r]
    /\ ready' = [ready EXCEPT ![Req.sock] = FALSE]
    /\ pc' = "delete"
    /\ UNCHANGED <<hazards, co, req, out, reg, events, connected, running,
                   ops>>

\* EAGAIN: the request is put aside, its registration still disarmed.
PollerAgain ==
    /\ pc = "operate" /\ events # <<>>
    /\ "spurious" \in hazards \/ ~ready[Req.sock]
    /\ Req.op \in {"recv", "send"}
    /\ events' = Tail(events)
    /\ UNCHANGED <<hazards, co, req, out, outcome, reg, pc, connected, ready,
                   running, ops>>

PollerNext ==
    /\ pc = "operate" /\ events = <<>>
    /\ pc' = "wait"
    /\ UNCHANGED <<hazards, co, req, out, outcome, reg, events, connected,
                   ready, running, ops>>

\* Mutant: the registration is left in place.
PollerKeep ==
    /\ pc = "delete"
    /\ pc' = "deliver"
    /\ UNCHANGED <<hazards, co, req, out, outcome, reg, events, connected,
                   ready, running, ops>>

\* EPOLL_CTL_DEL
PollerDelete ==
    /\ pc = "delete"
    /\ reg' = [reg EXCEPT ![Req.sock] = None]
    /\ pc' = "deliver"
    /\ UNCHANGED <<hazards, co, req, out, outcome, events, connected, ready,
                   running, ops>>

\* Mutant: the coroutine is woken before the result is stored, and runs.
PollerDeliverLate ==
    /\ pc = "deliver"
    /\ co' = [co EXCEPT ![Head(events)] = "ready"]
    /\ events' = Tail(events)
    /\ pc' = "operate"
    /\ UNCHANGED <<hazards, req, out, outcome, reg, connected, ready, running,
                   ops>>

\* Mutant: the result is stored and nobody is woken.
PollerDeliverSilent ==
    /\ pc = "deliver"
    /\ out' = [out EXCEPT ![Head(events)] = outcome[Head(events)]]
    /\ events' = Tail(events)
    /\ pc' = "operate"
    /\ UNCHANGED <<hazards, co, req, outcome, reg, connected, ready, running,
                   ops>>

PollerDeliver ==
    /\ pc = "deliver"
    /\ out' = [out EXCEPT ![Head(events)] = outcome[Head(events)]]
    /\ co' = [co EXCEPT ![Head(events)] = "ready"]
    /\ events' = Tail(events)
    /\ pc' = "operate"
    /\ UNCHANGED <<hazards, req, outcome, reg, connected, ready, running,
                   ops>>

-----------------------------------------------------------------------------

Kernel == \E s \in Socket : BecomeReady(s)

Main ==
    \/ \E c \in Coro, s \in Socket :
          \/ Accept(c, s) \/ Send(c, s) \/ Recv(c, s) \/ Connect(c, s)
          \/ SubmitFails(c, s) \/ ConnectImmediate(c, s) \/ UseClosed(c, s)
    \/ \E c \in Coro : Resume(c)
    \/ Shutdown

Poller ==
    \/ PollerWait \/ PollerExit \/ PollerOperate \/ PollerAgain
    \/ PollerNext \/ PollerDelete \/ PollerDeliver

Terminated == ~running /\ pc = "exited" /\ UNCHANGED vars

Next == Kernel \/ Main \/ Poller \/ Terminated

Spec == Init /\ [][Next]_vars

\* The poller thread is scheduled, and the event loop resumes what is ready.
FairSpec ==
    /\ Spec
    /\ WF_vars(Poller)
    /\ \A c \in Coro : WF_vars(Resume(c))

-----------------------------------------------------------------------------

\* Something will resume a suspended coroutine: its request is armed in epoll
\* under its own name, or reported and not yet served.
InFlight(c) ==
    \/ \E s \in Socket : reg[s] # None /\ reg[s].req = c /\ reg[s].armed
    \/ \E i \in 1 .. Len(events) : events[i] = c

\* djinn_io_request_t.waiting_coro is documented as the "coroutine to resume
\* when done"; no coroutine is suspended without something to resume it.
NoneLost == \A c \in Coro : co[c] = "wait" => InFlight(c)

\* That is so when a report is followed by an answer, no submission is refused
\* and no socket is used by two coroutines at a time.
NoLostRequest ==
    hazards \cap {"spurious", "refused", "shared"} = {} => NoneLost

\* The result the coroutine reads when it is resumed is what the kernel
\* answered (out_result is documented as "pointer to write result back to
\* caller before resume"), unless connect succeeds at once.
ResultDelivered ==
    "immediate" \notin hazards =>
        \A c \in Coro : co[c] = "ready" => out[c] = outcome[c]

\* Whatever happens, the poller's list never names a request twice, nor one
\* that was freed.
EventsLive ==
    /\ \A i \in 1 .. Len(events) :
          req[events[i]] # None /\ co[events[i]] = "wait"
    /\ \A i, j \in 1 .. Len(events) : events[i] = events[j] => i = j

\* A registration outlives its request by no more than the poller's current
\* step, so that a later ADD on the descriptor finds it clean, even if
\* coroutines share sockets.
RegistrationFresh ==
    \A s \in Socket :
        reg[s] # None =>
            /\ co[reg[s].req] = "wait"
            /\ req[reg[s].req] # None /\ req[reg[s].req].sock = s

\* A coroutine whose socket is ready is resumed, unless the program ends.
ReadyIsServed ==
    hazards \cap {"spurious", "refused", "shared"} = {} =>
        \A c \in Coro :
            (co[c] = "wait" /\ req[c] # None /\ ready[req[c].sock])
                ~> (co[c] # "wait" \/ ~running)
=============================================================================
