------------------------- MODULE SocketPollerProofs -------------------------
(***************************************************************************)
(* Proofs about SocketPoller, for any number of coroutines, sockets and    *)
(* operations and every environment.                                       *)
(***************************************************************************)
EXTENDS SocketPoller, FiniteSetTheorems, TLAPS

-----------------------------------------------------------------------------
(***************************************************************************)
(* The inductive invariant                                                 *)
(***************************************************************************)

\* What the poller knows at each point: nothing is being served while it
\* waits, an answer exists once it has operated, ...
PcInv ==
    /\ pc \in {"wait", "exited"} => events = <<>>
    /\ pc \in {"delete", "deliver"}
          => events # <<>> /\ outcome[Head(events)] \in Result

\* ... and nothing in epoll refers to the request it is about to free.
DeletedInv ==
    pc = "deliver" =>
        \A s \in Socket : reg[s] # None => reg[s].req # Head(events)

TypeInv == TypeOK /\ PcInv

SafeInv == EventsLive /\ RegistrationFresh /\ DeletedInv

\* An environment in which nothing is lost.
Calm == hazards \cap {"spurious", "refused", "shared"} = {}

\* No two requests are for the same socket, ...
Exclusive ==
    \A c, d \in Coro :
        req[c] # None /\ req[d] # None /\ req[c].sock = req[d].sock => c = d

\* ... and the sockets of the reported requests stay ready until they are
\* operated on.
StillReady ==
    \A i \in 1 .. Len(events) :
        i > 1 \/ pc = "operate" => ready[req[events[i]].sock]

CalmInv == Calm => Exclusive /\ StillReady /\ NoneLost

Inv == TypeInv /\ SafeInv /\ ResultDelivered /\ CalmInv

-----------------------------------------------------------------------------
(***************************************************************************)
(* Facts shared by the steps                                               *)
(***************************************************************************)

\* The first event of the batch and the rest.
LEMMA HeadFacts ==
    ASSUME TypeOK, events # <<>>
    PROVE  /\ Head(events) \in Coro /\ Head(events) = events[1]
           /\ 1 \in 1 .. Len(events) /\ Len(events) \in Nat
           /\ Tail(events) \in Seq(Coro)
           /\ Len(Tail(events)) = Len(events) - 1
           /\ \A i \in 1 .. Len(Tail(events)) :
                 Tail(events)[i] = events[i + 1] /\ i + 1 \in 1 .. Len(events)
<1>1. events \in Seq(Coro)
  BY DEF TypeOK
<1> QED
  BY <1>1

\* The request being served is that of a suspended coroutine.
LEMMA ServedFacts ==
    ASSUME Inv, events # <<>>
    PROVE  /\ co[Head(events)] = "wait" /\ req[Head(events)] # None
           /\ Req = req[Head(events)] /\ Req \in Request
           /\ Req.sock \in Socket /\ Req.op \in Op
<1>1. Head(events) \in Coro /\ Head(events) = events[1] /\ 1 \in 1 .. Len(events)
  BY HeadFacts DEF Inv, TypeInv
<1>2. co[Head(events)] = "wait" /\ req[Head(events)] # None
  BY <1>1 DEF Inv, SafeInv, EventsLive
<1>3. Req = req[Head(events)] /\ Req \in Request
  BY <1>1, <1>2 DEF Inv, TypeInv, TypeOK, Req
<1> QED
  BY <1>2, <1>3 DEF Request

\* What is said of a coroutine that runs: nobody knows it.
LEMMA RunningFacts ==
    ASSUME Inv, NEW c \in Coro, co[c] # "wait"
    PROVE  /\ \A i \in 1 .. Len(events) : events[i] # c
           /\ \A s \in Socket : reg[s] # None => reg[s].req # c
           /\ events # <<>> => Head(events) # c
<1>1. \A i \in 1 .. Len(events) : events[i] # c
  BY DEF Inv, SafeInv, EventsLive
<1>2. \A s \in Socket : reg[s] # None => reg[s].req # c
  BY DEF Inv, SafeInv, RegistrationFresh
<1> QED
  BY <1>1, <1>2, HeadFacts DEF Inv, TypeInv

LEMMA InvInit == Init => Inv
<1> SUFFICES ASSUME Init PROVE Inv
  OBVIOUS
<1>1. TypeInv
  <2>1. <<>> \in Seq(Coro) /\ 0 \in 0 .. MaxOps
    BY SocketPollerAssumption
  <2> QED
    BY <2>1 DEF Init, TypeInv, TypeOK, PcInv, Result
<1>2. SafeInv /\ ResultDelivered
  BY DEF Init, SafeInv, EventsLive, RegistrationFresh, DeletedInv,
     ResultDelivered
<1>3. CalmInv
  BY DEF Init, CalmInv, Exclusive, StillReady, NoneLost
<1> QED
  BY <1>1, <1>2, <1>3 DEF Inv

-----------------------------------------------------------------------------
(***************************************************************************)
(* The main thread                                                         *)
(***************************************************************************)

\* A request is registered for a socket the coroutine may use.
LEMMA RegisterStep ==
    ASSUME Inv, NEW c \in Coro, NEW s \in Socket, NEW op \in Op,
           MayUse(s), Suspend(c), Register(c, op, s)
    PROVE  Inv'
<1> DEFINE rq == [op |-> op, sock |-> s]
           rg == [req |-> c, armed |-> TRUE]
<1>1. TypeOK /\ PcInv
  BY DEF Inv, TypeInv
<1>2. /\ rq \in Request /\ rq # None /\ rq.sock = s
      /\ rg \in Registration /\ rg # None /\ rg.req = c /\ rg.armed
  <2>1. /\ rq \in Request /\ rq.sock = s
        /\ rg \in Registration /\ rg.req = c /\ rg.armed
    BY DEF Request, Registration
  <2> HIDE DEF rq, rg
  <2> QED
    BY <2>1, SocketPollerAssumption
<1> HIDE DEF rq, rg
<1>3. /\ running /\ co[c] = "run" /\ ops < MaxOps /\ ops' = ops + 1
      /\ UNCHANGED <<hazards, events, pc, connected, running, ready>>
  BY DEF Suspend, Register
<1>4. TypeOK'
  <2>1. /\ co' = [co EXCEPT ![c] = "wait"] /\ out' = [out EXCEPT ![c] = -1]
        /\ req' = [req EXCEPT ![c] = rq] /\ reg' = [reg EXCEPT ![s] = rg]
        /\ outcome' = [outcome EXCEPT ![c] = None]
    BY DEF Suspend, Register, rq, rg
  <2>2. ops' \in 0 .. MaxOps
    BY <1>1, <1>3, SocketPollerAssumption DEF TypeOK
  <2>3. /\ co' \in [Coro -> {"run", "wait", "ready", "abort"}]
        /\ out' \in [Coro -> Result]
    BY <1>1, <2>1 DEF TypeOK, Result
  <2>4. /\ req' \in [Coro -> Request \cup {None}]
        /\ reg' \in [Socket -> Registration \cup {None}]
        /\ outcome' \in [Coro -> Result \cup {None}]
    BY <1>1, <1>2, <2>1 DEF TypeOK
  <2> QED
    BY <1>1, <1>3, <2>2, <2>3, <2>4 DEF TypeOK
<1>5. /\ \A d \in Coro : co'[d] = IF d = c THEN "wait" ELSE co[d]
      /\ \A d \in Coro : req'[d] = IF d = c THEN rq ELSE req[d]
      /\ \A d \in Coro : outcome'[d] = IF d = c THEN None ELSE outcome[d]
      /\ \A d \in Coro : out'[d] = IF d = c THEN -1 ELSE out[d]
      /\ \A t \in Socket : reg'[t] = IF t = s THEN rg ELSE reg[t]
  BY <1>1 DEF TypeOK, Suspend, Register, rq, rg
<1>6. /\ \A i \in 1 .. Len(events) : events[i] # c /\ events[i] \in Coro
      /\ \A t \in Socket : reg[t] # None => reg[t].req # c /\ reg[t].req \in Coro
      /\ events # <<>> => Head(events) # c /\ Head(events) \in Coro
  BY <1>1, <1>3, RunningFacts, HeadFacts DEF TypeOK, Registration
<1>7. PcInv'
  BY <1>1, <1>3, <1>5, <1>6 DEF PcInv
<1>8. EventsLive'
  BY <1>3, <1>5, <1>6 DEF Inv, SafeInv, EventsLive
<1>9. RegistrationFresh'
  BY <1>2, <1>5, <1>6 DEF Inv, SafeInv, RegistrationFresh
<1>10. DeletedInv'
  BY <1>1, <1>2, <1>3, <1>5, <1>6 DEF Inv, SafeInv, DeletedInv, PcInv
<1>11. ResultDelivered'
  BY <1>3, <1>5 DEF Inv, ResultDelivered
<1>12. CalmInv'
  <2> SUFFICES ASSUME Calm PROVE Exclusive' /\ StillReady' /\ NoneLost'
    BY <1>3 DEF CalmInv, Calm
  <2>1. \A d \in Coro : req[d] # None => req[d].sock # s
    BY DEF MayUse, Calm
  <2>2. reg[s] = None
    BY <1>6, <2>1 DEF Inv, SafeInv, RegistrationFresh
  <2>3. Exclusive'
    BY <1>2, <1>5, <2>1 DEF Inv, CalmInv, Exclusive
  <2>4. StillReady'
    BY <1>3, <1>5, <1>6 DEF Inv, CalmInv, StillReady
  <2>5. NoneLost'
    <3> SUFFICES ASSUME NEW d \in Coro, co'[d] = "wait" PROVE InFlight(d)'
      BY DEF NoneLost
    <3>1. CASE d = c
      BY <1>2, <1>5, <3>1 DEF InFlight
    <3>2. CASE d # c
      <4>1. InFlight(d)
        BY <1>5, <3>2 DEF Inv, CalmInv, NoneLost
      <4> QED
        BY <1>3, <1>5, <2>2, <4>1 DEF InFlight
    <3> QED
      BY <3>1, <3>2
  <2> QED
    BY <2>3, <2>4, <2>5
<1> QED
  BY <1>4, <1>7, <1>8, <1>9, <1>10, <1>11, <1>12 DEF Inv, TypeInv, SafeInv

\* Steps of the main thread after which a coroutine that was running, or was
\* in the ready queue, still has nobody who knows it.
LEMMA MainFrame ==
    ASSUME Inv, TypeOK', NEW c \in Coro, co[c] # "wait",
           \A d \in Coro : d # c => co'[d] = co[d] /\ req'[d] = req[d]
                                    /\ out'[d] = out[d]
                                    /\ outcome'[d] = outcome[d],
           req'[c] \in {req[c], None},
           co'[c] = "ready" => "immediate" \in hazards,
           co'[c] = "wait" => ~Calm,
           UNCHANGED <<hazards, reg, events, pc, ready>>
    PROVE  Inv'
<1>1. TypeOK /\ PcInv
  BY DEF Inv, TypeInv
<1>2. /\ \A i \in 1 .. Len(events) : events[i] # c /\ events[i] \in Coro
      /\ \A t \in Socket : reg[t] # None => reg[t].req # c /\ reg[t].req \in Coro
      /\ events # <<>> => Head(events) # c /\ Head(events) \in Coro
  BY <1>1, RunningFacts, HeadFacts DEF TypeOK, Registration
<1>3. PcInv'
  BY <1>1, <1>2 DEF PcInv
<1>4. EventsLive'
  BY <1>2 DEF Inv, SafeInv, EventsLive
<1>5. RegistrationFresh' /\ DeletedInv'
  BY <1>2 DEF Inv, SafeInv, RegistrationFresh, DeletedInv
<1>6. ResultDelivered'
  BY DEF Inv, ResultDelivered
<1>7. CalmInv'
  <2> SUFFICES ASSUME Calm PROVE Exclusive' /\ StillReady' /\ NoneLost'
    BY DEF CalmInv, Calm
  <2>1. Exclusive'
    BY DEF Inv, CalmInv, Exclusive
  <2>2. StillReady'
    BY <1>2 DEF Inv, CalmInv, StillReady
  <2>3. NoneLost'
    BY DEF Inv, CalmInv, NoneLost, InFlight
  <2> QED
    BY <2>1, <2>2, <2>3
<1> QED
  BY <1>3, <1>4, <1>5, <1>6, <1>7 DEF Inv, TypeInv, SafeInv

LEMMA SubmitFailsStep ==
    ASSUME Inv, NEW c \in Coro, NEW s \in Socket, SubmitFails(c, s)
    PROVE  Inv'
<1>1. TypeOK
  BY DEF Inv, TypeInv
<1>2. /\ co[c] = "run" /\ ops < MaxOps /\ ops' = ops + 1
      /\ co' = [co EXCEPT ![c] = "wait"] /\ out' = [out EXCEPT ![c] = -1]
      /\ outcome' = [outcome EXCEPT ![c] = -1]
      /\ UNCHANGED <<hazards, req, reg, events, pc, connected, running, ready>>
  BY DEF SubmitFails, Suspend
<1>3. TypeOK'
  <2>1. ops' \in 0 .. MaxOps
    BY <1>1, <1>2, SocketPollerAssumption DEF TypeOK
  <2> QED
    BY <1>1, <1>2, <2>1 DEF TypeOK, Result
<1>4. ~Calm
  <2>1. CASE "refused" \in hazards
    BY <2>1 DEF Calm
  <2>2. CASE reg[s] # None /\ MayUse(s)
    <3>1. reg[s].req \in Coro
      BY <1>1, <2>2 DEF TypeOK, Registration
    <3>2. req[reg[s].req] # None /\ req[reg[s].req].sock = s
      BY <2>2 DEF Inv, SafeInv, RegistrationFresh
    <3> QED
      BY <2>2, <3>1, <3>2 DEF MayUse, Calm
  <2> QED
    BY <2>1, <2>2 DEF SubmitFails
<1>5. \A d \in Coro : /\ co'[d] = IF d = c THEN "wait" ELSE co[d]
                      /\ out'[d] = IF d = c THEN -1 ELSE out[d]
                      /\ outcome'[d] = IF d = c THEN -1 ELSE outcome[d]
  BY <1>1, <1>2 DEF TypeOK
<1>6. UNCHANGED <<hazards, req, reg, events, pc, ready>> /\ co[c] # "wait"
  BY <1>2
<1> QED
  BY <1>3, <1>4, <1>5, <1>6, MainFrame

LEMMA ConnectImmediateStep ==
    ASSUME Inv, NEW c \in Coro, NEW s \in Socket, ConnectImmediate(c, s)
    PROVE  Inv'
<1>1. TypeOK
  BY DEF Inv, TypeInv
<1>2. /\ co[c] = "run" /\ ops < MaxOps /\ ops' = ops + 1
      /\ co' = [co EXCEPT ![c] = "ready"] /\ out' = [out EXCEPT ![c] = -1]
      /\ outcome' = [outcome EXCEPT ![c] = 0]
      /\ UNCHANGED <<hazards, req, reg, events, pc, connected, running, ready>>
  BY DEF ConnectImmediate
<1>3. TypeOK'
  <2>1. ops' \in 0 .. MaxOps
    BY <1>1, <1>2, SocketPollerAssumption DEF TypeOK
  <2> QED
    BY <1>1, <1>2, <2>1 DEF TypeOK, Result
<1>4. "immediate" \in hazards
  BY DEF ConnectImmediate
<1>5. \A d \in Coro : /\ co'[d] = IF d = c THEN "ready" ELSE co[d]
                      /\ out'[d] = IF d = c THEN -1 ELSE out[d]
                      /\ outcome'[d] = IF d = c THEN 0 ELSE outcome[d]
  BY <1>1, <1>2 DEF TypeOK
<1>6. UNCHANGED <<hazards, req, reg, events, pc, ready>> /\ co[c] # "wait"
  BY <1>2
<1> QED
  BY <1>3, <1>4, <1>5, <1>6, MainFrame

LEMMA UseClosedStep ==
    ASSUME Inv, NEW c \in Coro, NEW s \in Socket, UseClosed(c, s)
    PROVE  Inv'
<1>1. TypeOK
  BY DEF Inv, TypeInv
<1>2. TypeOK'
  BY <1>1 DEF TypeOK, UseClosed
<1>3. \A d \in Coro : co'[d] = IF d = c THEN "abort" ELSE co[d]
  BY <1>1 DEF TypeOK, UseClosed
<1>4. /\ UNCHANGED <<hazards, req, out, outcome, reg, events, pc, ready>>
      /\ co[c] # "wait"
  BY DEF UseClosed
<1> QED
  BY <1>2, <1>3, <1>4, MainFrame

\* The request of a resumed coroutine is gone from epoll and from the batch.
LEMMA ResumeStep ==
    ASSUME Inv, NEW c \in Coro, Resume(c)
    PROVE  Inv'
<1>1. TypeOK
  BY DEF Inv, TypeInv
<1>2. TypeOK'
  <2>1. co' \in [Coro -> {"run", "wait", "ready", "abort"}]
    BY <1>1 DEF TypeOK, Resume
  <2>2. req' \in [Coro -> Request \cup {None}]
    BY <1>1 DEF TypeOK, Resume
  <2>3. connected' \in [Socket -> BOOLEAN]
    BY <1>1 DEF TypeOK, Resume
  <2> QED
    BY <1>1, <2>1, <2>2, <2>3 DEF TypeOK, Resume
<1>3. /\ \A d \in Coro : d # c => co'[d] = co[d]
      /\ co'[c] \in {"run", "abort"}
      /\ \A d \in Coro : req'[d] = IF d = c THEN None ELSE req[d]
  BY <1>1 DEF TypeOK, Resume
<1>4. UNCHANGED <<hazards, out, outcome, reg, events, pc, ready>>
      /\ co[c] # "wait"
  BY DEF Resume
<1> QED
  BY <1>2, <1>3, <1>4, MainFrame

\* Steps that leave coroutines, requests and the poller alone.
LEMMA EnvironmentStep ==
    ASSUME Inv, TypeOK', \A s \in Socket : ready[s] => ready'[s],
           UNCHANGED <<hazards, co, req, out, outcome, reg, events, pc>>
    PROVE  Inv'
<1>1. TypeOK /\ PcInv
  BY DEF Inv, TypeInv
<1>2. PcInv'
  BY <1>1 DEF PcInv
<1>3. SafeInv' /\ ResultDelivered'
  BY DEF Inv, SafeInv, EventsLive, RegistrationFresh, DeletedInv,
     ResultDelivered
<1>4. CalmInv'
  <2> SUFFICES ASSUME Calm PROVE Exclusive' /\ StillReady' /\ NoneLost'
    BY DEF CalmInv, Calm
  <2>1. Exclusive'
    BY DEF Inv, CalmInv, Exclusive
  <2>2. StillReady'
    <3>1. \A i \in 1 .. Len(events) : req[events[i]].sock \in Socket
      BY <1>1 DEF Inv, SafeInv, EventsLive, TypeOK, Request
    <3> QED
      BY <3>1 DEF Inv, CalmInv, StillReady
  <2>3. NoneLost'
    BY DEF Inv, CalmInv, NoneLost, InFlight
  <2> QED
    BY <2>1, <2>2, <2>3
<1> QED
  BY <1>2, <1>3, <1>4 DEF Inv, TypeInv

-----------------------------------------------------------------------------
(***************************************************************************)
(* The poller thread                                                       *)
(***************************************************************************)

\* Steps of the poller that keep coroutines, requests and registrations.
LEMMA PollerExitStep ==
    ASSUME Inv, PollerExit \/ PollerNext PROVE Inv'
<1>1. TypeOK /\ PcInv
  BY DEF Inv, TypeInv
<1>2. /\ UNCHANGED <<hazards, co, req, out, outcome, reg, events, connected,
                     ready, running, ops>>
      /\ events = <<>> /\ pc' \in {"wait", "exited"}
  BY <1>1 DEF PollerExit, PollerNext, PcInv
<1>3. TypeOK' /\ PcInv'
  BY <1>1, <1>2 DEF TypeOK, PcInv
<1>4. SafeInv' /\ ResultDelivered'
  BY <1>2 DEF Inv, SafeInv, EventsLive, RegistrationFresh, DeletedInv,
     ResultDelivered
<1>5. CalmInv'
  <2> SUFFICES ASSUME Calm PROVE Exclusive' /\ StillReady' /\ NoneLost'
    BY <1>2 DEF CalmInv, Calm
  <2>1. Exclusive'
    BY <1>2 DEF Inv, CalmInv, Exclusive
  <2>2. StillReady'
    BY <1>2 DEF StillReady
  <2>3. NoneLost'
    BY <1>2 DEF Inv, CalmInv, NoneLost, InFlight
  <2> QED
    BY <2>1, <2>2, <2>3
<1> QED
  BY <1>3, <1>4, <1>5 DEF Inv, TypeInv

LEMMA AnswerType ==
    ASSUME NEW op \in Op, NEW b \in BOOLEAN, NEW r \in Answers(op, b)
    PROVE  r \in Result
  BY DEF Answers, Op, Result

LEMMA PollerOperateStep ==
    ASSUME Inv, PollerOperate PROVE Inv'
<1> DEFINE h == Head(events)
           t == req[h].sock
<1>1. TypeOK /\ PcInv /\ events # <<>> /\ pc = "operate"
  BY DEF Inv, TypeInv, PollerOperate
<1>2. /\ h \in Coro /\ co[h] = "wait" /\ t \in Socket /\ Req.op \in Op
      /\ Req.sock = t
  BY <1>1, HeadFacts, ServedFacts
<1>3. PICK r \in Answers(Req.op, ready[Req.sock]) :
          outcome' = [outcome EXCEPT ![h] = r]
  BY DEF PollerOperate
<1>4. r \in Result
  BY <1>1, <1>2, <1>3, AnswerType DEF TypeOK
<1>5. /\ UNCHANGED <<hazards, co, req, out, reg, events, connected, running,
                     ops>>
      /\ ready' = [ready EXCEPT ![t] = FALSE] /\ pc' = "delete"
  BY <1>2 DEF PollerOperate
<1>6. TypeOK' /\ PcInv'
  BY <1>1, <1>2, <1>3, <1>4, <1>5 DEF TypeOK, PcInv
<1>7. \A d \in Coro : outcome'[d] = IF d = h THEN r ELSE outcome[d]
  BY <1>1, <1>3 DEF TypeOK
<1>8. \A s \in Socket : ready'[s] = IF s = t THEN FALSE ELSE ready[s]
  BY <1>1, <1>5 DEF TypeOK
<1>9. UNCHANGED <<hazards, co, req, out, reg, events>> /\ pc' = "delete"
  BY <1>5
<1> HIDE DEF t
<1>10. SafeInv' /\ ResultDelivered'
  BY <1>2, <1>7, <1>9 DEF Inv, SafeInv, EventsLive, RegistrationFresh,
     DeletedInv, ResultDelivered
<1>11. CalmInv'
  <2> SUFFICES ASSUME Calm PROVE Exclusive' /\ StillReady' /\ NoneLost'
    BY <1>9 DEF CalmInv, Calm
  <2>1. Exclusive'
    BY <1>9 DEF Inv, CalmInv, Exclusive
  <2>2. StillReady'
    <3> SUFFICES ASSUME NEW i \in 1 .. Len(events), i > 1
                 PROVE  ready'[req[events[i]].sock]
      BY <1>9 DEF StillReady
    <3>1. events[1] = h /\ 1 \in 1 .. Len(events) /\ events[i] \in Coro
          /\ events \in Seq(Coro)
      BY <1>1, HeadFacts DEF TypeOK
    <3>2. events[i] # h /\ req[events[i]] # None /\ req[h] # None
      BY <3>1 DEF Inv, SafeInv, EventsLive
    <3>3. req[events[i]].sock # t /\ req[events[i]].sock \in Socket
      BY <1>1, <1>2, <3>1, <3>2
      DEF Inv, CalmInv, Exclusive, t, TypeOK, Request
    <3>4. ready[req[events[i]].sock]
      BY DEF Inv, CalmInv, StillReady
    <3> QED
      BY <1>8, <3>3, <3>4
  <2>3. NoneLost'
    BY <1>9 DEF Inv, CalmInv, NoneLost, InFlight
  <2> QED
    BY <2>1, <2>2, <2>3
<1> QED
  BY <1>6, <1>10, <1>11 DEF Inv, TypeInv

\* The answer "not now" is given only to a socket that is not ready, or in an
\* environment with spurious reports.
LEMMA PollerAgainStep ==
    ASSUME Inv, PollerAgain PROVE Inv'
<1>1. TypeOK /\ PcInv /\ events # <<>> /\ pc = "operate"
  BY DEF Inv, TypeInv, PollerAgain
<1>2. /\ UNCHANGED <<hazards, co, req, out, outcome, reg, pc, connected, ready,
                     running, ops>>
      /\ events' = Tail(events)
  BY DEF PollerAgain
<1>3. /\ Head(events) = events[1] /\ 1 \in 1 .. Len(events)
      /\ Len(events) \in Nat /\ Len(events') = Len(events) - 1
      /\ \A i \in 1 .. Len(events') :
            events'[i] = events[i + 1] /\ i + 1 \in 1 .. Len(events)
      /\ events' \in Seq(Coro)
  BY <1>1, <1>2, HeadFacts
<1>4. TypeOK' /\ PcInv'
  BY <1>1, <1>2, <1>3 DEF TypeOK, PcInv
<1>5. EventsLive'
  <2>1. \A i \in 1 .. Len(events') :
            req'[events'[i]] # None /\ co'[events'[i]] = "wait"
    BY <1>2, <1>3 DEF Inv, SafeInv, EventsLive
  <2>2. \A i, j \in 1 .. Len(events') : events'[i] = events'[j] => i = j
    <3> SUFFICES ASSUME NEW i \in 1 .. Len(events'), NEW j \in 1 .. Len(events'),
                        events'[i] = events'[j]
                 PROVE  i = j
      OBVIOUS
    <3>1. i + 1 = j + 1
      BY <1>3 DEF Inv, SafeInv, EventsLive
    <3> QED
      BY <1>3, <3>1
  <2> QED
    BY <2>1, <2>2 DEF EventsLive
<1>6. RegistrationFresh' /\ DeletedInv' /\ ResultDelivered'
  BY <1>1, <1>2 DEF Inv, SafeInv, RegistrationFresh, DeletedInv,
     ResultDelivered
<1>7. ~Calm
  <2> SUFFICES ASSUME Calm PROVE FALSE
    OBVIOUS
  <2>1. ready[Req.sock]
    BY <1>1, <1>3 DEF Inv, CalmInv, StillReady, Req
  <2> QED
    BY <2>1 DEF PollerAgain, Calm
<1> QED
  BY <1>2, <1>4, <1>5, <1>6, <1>7 DEF Inv, TypeInv, SafeInv, CalmInv, Calm

\* EPOLL_CTL_DEL removes the only registration that may refer to the request.
LEMMA PollerDeleteStep ==
    ASSUME Inv, PollerDelete PROVE Inv'
<1> DEFINE h == Head(events)
           t == req[h].sock
<1>1. TypeOK /\ PcInv /\ pc = "delete" /\ events # <<>>
  BY DEF Inv, TypeInv, PollerDelete, PcInv
<1>2. /\ h \in Coro /\ t \in Socket /\ Req.sock = t /\ h = events[1]
      /\ 1 \in 1 .. Len(events) /\ req[h] # None
  BY <1>1, HeadFacts, ServedFacts
<1>3. /\ UNCHANGED <<hazards, co, req, out, outcome, events, connected, ready,
                     running, ops>>
      /\ reg' = [reg EXCEPT ![t] = None] /\ pc' = "deliver"
  BY <1>2 DEF PollerDelete
<1>4. TypeOK' /\ PcInv'
  BY <1>1, <1>2, <1>3 DEF TypeOK, PcInv
<1>5. \A s \in Socket : reg'[s] = IF s = t THEN None ELSE reg[s]
  BY <1>1, <1>3 DEF TypeOK
<1>6. UNCHANGED <<hazards, co, req, out, outcome, events, ready>>
      /\ pc' = "deliver"
  BY <1>3
<1>7. EventsLive' /\ RegistrationFresh' /\ ResultDelivered'
  BY <1>5, <1>6 DEF Inv, SafeInv, EventsLive, RegistrationFresh,
     ResultDelivered
<1>8. DeletedInv'
  BY <1>5, <1>6 DEF Inv, SafeInv, RegistrationFresh, DeletedInv
<1> HIDE DEF t, h
<1>9. CalmInv'
  <2> SUFFICES ASSUME Calm PROVE Exclusive' /\ StillReady' /\ NoneLost'
    BY <1>6 DEF CalmInv, Calm
  <2>1. Exclusive'
    BY <1>6 DEF Inv, CalmInv, Exclusive
  <2>2. StillReady'
    BY <1>6 DEF Inv, CalmInv, StillReady
  <2>3. NoneLost'
    <3> SUFFICES ASSUME NEW c \in Coro, co[c] = "wait" PROVE InFlight(c)'
      BY <1>6 DEF NoneLost
    <3>1. InFlight(c)
      BY DEF Inv, CalmInv, NoneLost
    <3>2. CASE c = h
      BY <1>2, <1>6, <3>2 DEF InFlight
    <3>3. CASE c # h
      <4>1. reg[t] # None => reg[t].req # c
        BY <1>2, <3>3
        DEF Inv, SafeInv, RegistrationFresh, CalmInv, Exclusive, t
      <4> QED
        BY <1>5, <1>6, <3>1, <4>1 DEF InFlight
    <3> QED
      BY <3>2, <3>3
  <2> QED
    BY <2>1, <2>2, <2>3
<1> QED
  BY <1>4, <1>7, <1>8, <1>9 DEF Inv, TypeInv, SafeInv

\* The result is stored, then the coroutine is enqueued.
LEMMA PollerDeliverStep ==
    ASSUME Inv, PollerDeliver PROVE Inv'
<1> DEFINE h == Head(events)
<1>1. TypeOK /\ PcInv /\ pc = "deliver" /\ events # <<>>
  BY DEF Inv, TypeInv, PollerDeliver, PcInv
<1>2. /\ UNCHANGED <<hazards, req, outcome, reg, connected, ready, running,
                     ops>>
      /\ out' = [out EXCEPT ![h] = outcome[h]]
      /\ co' = [co EXCEPT ![h] = "ready"]
      /\ events' = Tail(events) /\ pc' = "operate"
  BY DEF PollerDeliver
<1>3. /\ h \in Coro /\ h = events[1] /\ 1 \in 1 .. Len(events)
      /\ Len(events) \in Nat /\ Len(events') = Len(events) - 1
      /\ \A i \in 1 .. Len(events') :
            events'[i] = events[i + 1] /\ i + 1 \in 1 .. Len(events)
      /\ events' \in Seq(Coro)
  BY <1>1, <1>2, HeadFacts
<1>4. TypeOK' /\ PcInv'
  <2>1. outcome[h] \in Result
    BY <1>1 DEF PcInv
  <2> QED
    BY <1>1, <1>2, <1>3, <2>1 DEF TypeOK, PcInv
<1>5. \A d \in Coro : /\ co'[d] = IF d = h THEN "ready" ELSE co[d]
                      /\ out'[d] = IF d = h THEN outcome[h] ELSE out[d]
  BY <1>1, <1>2 DEF TypeOK
<1>6. UNCHANGED <<hazards, req, outcome, reg, ready>> /\ pc' = "operate"
  BY <1>2
<1> HIDE DEF h
<1>7. \A i \in 1 .. Len(events') : events'[i] # h /\ events'[i] \in Coro
  <2> SUFFICES ASSUME NEW i \in 1 .. Len(events') PROVE events'[i] # h
    BY <1>3
  <2>1. i + 1 # 1
    OBVIOUS
  <2> QED
    BY <1>3, <2>1 DEF Inv, SafeInv, EventsLive
<1>8. EventsLive'
  <2>1. \A i \in 1 .. Len(events') :
            req'[events'[i]] # None /\ co'[events'[i]] = "wait"
    BY <1>3, <1>5, <1>6, <1>7 DEF Inv, SafeInv, EventsLive
  <2>2. \A i, j \in 1 .. Len(events') : events'[i] = events'[j] => i = j
    <3> SUFFICES ASSUME NEW i \in 1 .. Len(events'), NEW j \in 1 .. Len(events'),
                        events'[i] = events'[j]
                 PROVE  i = j
      OBVIOUS
    <3>1. i + 1 = j + 1
      BY <1>3 DEF Inv, SafeInv, EventsLive
    <3> QED
      BY <1>3, <3>1
  <2> QED
    BY <2>1, <2>2 DEF EventsLive
<1>9. RegistrationFresh' /\ DeletedInv'
  <2>1. \A s \in Socket : reg[s] # None => reg[s].req # h /\ reg[s].req \in Coro
    BY <1>1 DEF Inv, SafeInv, DeletedInv, TypeOK, Registration, h
  <2> QED
    BY <1>5, <1>6, <2>1 DEF Inv, SafeInv, RegistrationFresh, DeletedInv
<1>10. ResultDelivered'
  BY <1>5, <1>6 DEF Inv, ResultDelivered
<1>11. CalmInv'
  <2> SUFFICES ASSUME Calm PROVE Exclusive' /\ StillReady' /\ NoneLost'
    BY <1>6 DEF CalmInv, Calm
  <2>1. Exclusive'
    BY <1>6 DEF Inv, CalmInv, Exclusive
  <2>2. StillReady'
    <3> SUFFICES ASSUME NEW i \in 1 .. Len(events')
                 PROVE  ready[req[events'[i]].sock]
      BY <1>6 DEF StillReady
    <3>1. i + 1 > 1
      OBVIOUS
    <3> QED
      BY <1>3, <3>1 DEF Inv, CalmInv, StillReady
  <2>3. NoneLost'
    <3> SUFFICES ASSUME NEW c \in Coro, co'[c] = "wait" PROVE InFlight(c)'
      BY DEF NoneLost
    <3>1. co[c] = "wait" /\ c # h
      BY <1>5
    <3>2. InFlight(c)
      BY <3>1 DEF Inv, CalmInv, NoneLost
    <3>3. ASSUME NEW i \in 1 .. Len(events), events[i] = c
          PROVE  \E j \in 1 .. Len(events') : events'[j] = c
      <4>1. i # 1
        BY <1>3, <3>1, <3>3
      <4>2. i - 1 \in 1 .. Len(events') /\ (i - 1) + 1 = i
        BY <1>3, <4>1
      <4> QED
        BY <1>3, <3>3, <4>2
    <3> QED
      BY <1>6, <3>2, <3>3 DEF InFlight
  <2> QED
    BY <2>1, <2>2, <2>3
<1> QED
  BY <1>4, <1>8, <1>9, <1>10, <1>11 DEF Inv, TypeInv, SafeInv

\* epoll_wait returns each ready registration once, so each of its requests
\* once: a registration is for the socket of its request.
LEMMA PollerWaitStep ==
    ASSUME Inv, PollerWait PROVE Inv'
<1>1. TypeOK /\ PcInv /\ pc = "wait" /\ events = <<>>
  BY DEF Inv, TypeInv, PcInv, PollerWait
<1>0. PICK batch \in SUBSET Reportable \ {{}} :
          /\ \E order \in [1 .. Cardinality(batch) -> batch] :
                /\ \A s \in batch : \E i \in DOMAIN order : order[i] = s
                /\ events' = [i \in DOMAIN order |-> reg[order[i]].req]
          /\ reg' = [s \in Socket |-> IF s \in batch
                                      THEN [reg[s] EXCEPT !.armed = FALSE]
                                      ELSE reg[s]]
  BY DEF PollerWait
<1>2. PICK order \in [1 .. Cardinality(batch) -> batch] :
          /\ \A s \in batch : \E i \in DOMAIN order : order[i] = s
          /\ events' = [i \in DOMAIN order |-> reg[order[i]].req]
  BY <1>0
<1> DEFINE n == Cardinality(batch)
<1>3. /\ UNCHANGED <<hazards, co, req, out, outcome, connected, ready, running,
                     ops>>
      /\ pc' = "operate"
  BY DEF PollerWait
<1>4. \A s \in batch : /\ s \in Socket /\ reg[s] # None /\ reg[s].armed
                       /\ ready[s] /\ reg[s] \in Registration
                       /\ reg[s].req \in Coro
  BY <1>1, <1>2 DEF Reportable, TypeOK, Registration
<1>5. IsFiniteSet(batch) /\ n \in Nat
  <2>1. IsFiniteSet(Socket) /\ batch \in SUBSET Socket
    BY <1>4, SocketPollerAssumption
  <2> QED
    BY <2>1, FS_Subset, FS_CardinalityType
<1>6. \A i, j \in 1 .. n : order[i] = order[j] => i = j
  <2>1. order \in Surjection(1 .. n, batch)
    BY <1>2 DEF Surjection
  <2>2. IsFiniteSet(1 .. n) /\ Cardinality(1 .. n) = n
    BY <1>5, FS_Interval
  <2>3. order \in Injection(1 .. n, batch)
    BY <2>1, <2>2, FS_SurjSameCardinalityImpliesInj
  <2> QED
    BY <2>3 DEF Injection, IsInjective
<1>7. /\ events' \in Seq(Coro) /\ Len(events') = n
      /\ \A i \in 1 .. n : events'[i] = reg[order[i]].req /\ order[i] \in batch
  <2>1. DOMAIN order = 1 .. n /\ \A i \in 1 .. n : order[i] \in batch
    BY <1>2
  <2>2. events' = [i \in 1 .. n |-> reg[order[i]].req]
    BY <1>2, <2>1
  <2>3. events' \in [1 .. n -> Coro]
    BY <1>4, <2>1, <2>2
  <2>4. events' \in Seq(Coro) /\ Len(events') = n
    <3> HIDE DEF n
    <3> QED
      BY <1>5, <2>3
  <2> QED
    BY <2>1, <2>2, <2>4
<1>8. \A s \in Socket : /\ s \in batch => reg'[s] = [reg[s] EXCEPT !.armed = FALSE]
                        /\ s \notin batch => reg'[s] = reg[s]
  BY <1>0
<1>9. ASSUME NEW s \in batch
      PROVE  /\ reg'[s] \in Registration /\ reg'[s] # None
             /\ reg'[s].req = reg[s].req
  <2>1. reg[s] \in Registration /\ reg'[s] = [reg[s] EXCEPT !.armed = FALSE]
    BY <1>4, <1>8
  <2>2. reg'[s] \in Registration /\ reg'[s].req = reg[s].req
    BY <2>1 DEF Registration
  <2> QED
    BY <2>2, SocketPollerAssumption
<1>10. reg' \in [Socket -> Registration \cup {None}]
  <2>1. \A s \in Socket : reg'[s] \in Registration \cup {None}
    BY <1>1, <1>8, <1>9 DEF TypeOK
  <2>2. reg' = [s \in Socket |-> reg'[s]]
    BY <1>0
  <2> QED
    BY <2>1, <2>2
<1> HIDE DEF n
<1>11. TypeOK' /\ PcInv'
  BY <1>1, <1>3, <1>7, <1>10 DEF TypeOK, PcInv
<1>12. \A s \in batch : /\ co[reg[s].req] = "wait" /\ req[reg[s].req] # None
                        /\ req[reg[s].req].sock = s
  BY <1>4 DEF Inv, SafeInv, RegistrationFresh
<1>13. EventsLive'
  <2>1. \A i \in 1 .. Len(events') :
            req'[events'[i]] # None /\ co'[events'[i]] = "wait"
    BY <1>3, <1>7, <1>12
  <2>2. \A i, j \in 1 .. Len(events') : events'[i] = events'[j] => i = j
    <3> SUFFICES ASSUME NEW i \in 1 .. n, NEW j \in 1 .. n,
                        events'[i] = events'[j]
                 PROVE  i = j
      BY <1>7
    <3>1. reg[order[i]].req = reg[order[j]].req
          /\ order[i] \in batch /\ order[j] \in batch
      BY <1>7
    <3>2. order[i] = order[j]
      BY <1>12, <3>1
    <3> QED
      BY <1>6, <3>2
  <2> QED
    BY <2>1, <2>2 DEF EventsLive
<1>14. RegistrationFresh'
  <2> SUFFICES ASSUME NEW s \in Socket, reg'[s] # None
               PROVE  /\ co[reg'[s].req] = "wait"
                      /\ req[reg'[s].req] # None /\ req[reg'[s].req].sock = s
    BY <1>3 DEF RegistrationFresh
  <2>1. CASE s \in batch
    BY <1>9, <1>12, <2>1
  <2>2. CASE s \notin batch
    BY <1>8, <2>2 DEF Inv, SafeInv, RegistrationFresh
  <2> QED
    BY <2>1, <2>2
<1>15. DeletedInv' /\ ResultDelivered'
  BY <1>3 DEF DeletedInv, Inv, ResultDelivered
<1>16. CalmInv'
  <2> SUFFICES ASSUME Calm PROVE Exclusive' /\ StillReady' /\ NoneLost'
    BY <1>3 DEF CalmInv, Calm
  <2>1. Exclusive'
    BY <1>3 DEF Inv, CalmInv, Exclusive
  <2>2. StillReady'
    BY <1>3, <1>4, <1>7, <1>12 DEF StillReady
  <2>3. NoneLost'
    <3> SUFFICES ASSUME NEW c \in Coro, co[c] = "wait" PROVE InFlight(c)'
      BY <1>3 DEF NoneLost
    <3>1. InFlight(c)
      BY DEF Inv, CalmInv, NoneLost
    <3>2. PICK s \in Socket : reg[s] # None /\ reg[s].req = c /\ reg[s].armed
      BY <1>1, <3>1 DEF InFlight
    <3>3. CASE s \in batch
      <4>1. PICK i \in 1 .. n : order[i] = s
        BY <1>2, <3>3 DEF n
      <4>2. i \in 1 .. Len(events') /\ events'[i] = c
        BY <1>7, <3>2, <4>1
      <4> QED
        BY <4>2 DEF InFlight
    <3>4. CASE s \notin batch
      <4>1. reg'[s] = reg[s]
        BY <1>8, <3>4
      <4> QED
        BY <3>2, <4>1 DEF InFlight
    <3> QED
      BY <3>3, <3>4
  <2> QED
    BY <2>1, <2>2, <2>3
<1> QED
  BY <1>11, <1>13, <1>14, <1>15, <1>16 DEF Inv, TypeInv, SafeInv

-----------------------------------------------------------------------------
(***************************************************************************)
(* The theorems                                                            *)
(***************************************************************************)

LEMMA InvStep == Inv /\ [Next]_vars => Inv'
<1> SUFFICES ASSUME Inv, [Next]_vars PROVE Inv'
  OBVIOUS
<1>1. TypeOK
  BY DEF Inv, TypeInv
<1>2. CASE Kernel
  <2>1. PICK s \in Socket : BecomeReady(s)
    BY <1>2 DEF Kernel
  <2>2. TypeOK' /\ \A t \in Socket : ready[t] => ready'[t]
    BY <1>1, <2>1 DEF BecomeReady, TypeOK
  <2> QED
    BY <2>1, <2>2, EnvironmentStep DEF BecomeReady
<1>3. CASE Main
  <2>1. ASSUME NEW c \in Coro, NEW s \in Socket,
               Accept(c, s) \/ Send(c, s) \/ Recv(c, s) \/ Connect(c, s)
        PROVE  Inv'
    <3>1. /\ MayUse(s) /\ Suspend(c)
          /\ \/ Register(c, "accept", s) \/ Register(c, "send", s)
             \/ Register(c, "recv", s) \/ Register(c, "connect", s)
      BY <2>1 DEF Accept, Send, Recv, Connect
    <3>2. {"accept", "connect", "recv", "send"} = Op
      BY DEF Op
    <3> QED
      BY <3>1, <3>2, RegisterStep
  <2>2. CASE Shutdown
    <3>1. TypeOK' /\ UNCHANGED <<hazards, co, req, out, outcome, reg, events,
                                 pc, ready>>
      BY <1>1, <2>2 DEF Shutdown, TypeOK
    <3> QED
      BY <3>1, EnvironmentStep
  <2> QED
    BY <1>3, <2>1, <2>2, SubmitFailsStep, ConnectImmediateStep, UseClosedStep,
       ResumeStep DEF Main
<1>4. CASE Poller
  BY <1>4, PollerWaitStep, PollerExitStep, PollerOperateStep, PollerAgainStep,
     PollerDeleteStep, PollerDeliverStep DEF Poller
<1>5. CASE Terminated \/ UNCHANGED vars
  <2>1. TypeOK' /\ UNCHANGED <<hazards, co, req, out, outcome, reg, events,
                               pc, ready>>
    BY <1>1, <1>5 DEF Terminated, vars, TypeOK
  <2> QED
    BY <2>1, EnvironmentStep
<1> QED
  BY <1>2, <1>3, <1>4, <1>5 DEF Next

\* Every reachable state of the poller and its clients has the types TypeOK
\* gives; in particular only answers of the kernel reach a coroutine.
THEOREM PollerTypes == Spec => []TypeOK
<1>1. Inv => TypeOK
  BY DEF Inv, TypeInv
<1> QED
  BY InvInit, InvStep, <1>1, PTL DEF Spec

\* Whatever the kernel and the program do, the poller's batch names no
\* request twice and none that was freed.
THEOREM BatchLive == Spec => []EventsLive
<1>1. Inv => EventsLive
  BY DEF Inv, SafeInv
<1> QED
  BY InvInit, InvStep, <1>1, PTL DEF Spec

\* Whatever the kernel and the program do, a descriptor is registered only
\* for the live request of a suspended coroutine that is about it.
THEOREM RegistrationsFresh == Spec => []RegistrationFresh
<1>1. Inv => RegistrationFresh
  BY DEF Inv, SafeInv
<1> QED
  BY InvInit, InvStep, <1>1, PTL DEF Spec

\* A coroutine reads the answer of the kernel to its own request, unless
\* connect succeeds at once.
THEOREM ResultsDelivered == Spec => []ResultDelivered
<1>1. Inv => ResultDelivered
  BY DEF Inv
<1> QED
  BY InvInit, InvStep, <1>1, PTL DEF Spec

\* Without spurious reports, refused submissions and shared sockets, every
\* suspended coroutine is armed in epoll under its own name or reported.
THEOREM RequestsKept == Spec => []NoLostRequest
<1>1. Inv => NoLostRequest
  BY DEF Inv, CalmInv, Calm, NoLostRequest
<1> QED
  BY InvInit, InvStep, <1>1, PTL DEF Spec
=============================================================================
