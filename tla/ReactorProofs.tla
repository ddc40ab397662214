--------------------------- MODULE ReactorProofs ----------------------------
(***************************************************************************)
(* Theorems about Reactor, for any number of sessions and waiters, any      *)
(* fifo sizes and both threading models.                                   *)
(***************************************************************************)
EXTENDS Reactor, TLAPS

-----------------------------------------------------------------------------
(* The Notify operations keep the Notify part well typed.                    *)

LEMMA NotifyEachType ==
    ASSUME NotifyTypeOK, NEW k, NotifyEach(k), UNCHANGED held
    PROVE  NotifyTypeOK'
BY DEF NotifyTypeOK, NotifyEach, Woken, Queue

LEMMA DropNotifiedType ==
    ASSUME NotifyTypeOK, NEW w \in Waiters, DropNotified(w)
    PROVE  /\ permit' \in [NotifyIds -> BOOLEAN]
           /\ queued' \subseteq Waiters
           /\ notified' \subseteq Waiters
           /\ ahead' \in [Waiters -> SUBSET Waiters]
<1> DEFINE next == {v \in Queue(held[w]) : ahead[v] = {}}
<1>1. next \subseteq Waiters
  BY DEF NotifyTypeOK, Queue
<1>2. CASE w \in notified
  <2>1. permit' = [permit EXCEPT ![held[w]] = @ \/ next = {}]
    BY <1>2 DEF DropNotified
  <2>2. permit' \in [NotifyIds -> BOOLEAN]
    BY <2>1, Zenon DEF NotifyTypeOK
  <2>3. queued' \subseteq Waiters /\ notified' \subseteq Waiters
    BY <1>1, <1>2 DEF NotifyTypeOK, DropNotified
  <2>4. ahead' \in [Waiters -> SUBSET Waiters]
    BY <1>1, <1>2 DEF NotifyTypeOK, DropNotified
  <2> QED BY <2>2, <2>3, <2>4
<1>3. CASE w \notin notified
  BY <1>3 DEF NotifyTypeOK, DropNotified
<1> QED BY <1>2, <1>3

LEMMA TakeEnqueueType ==
    ASSUME NotifyTypeOK, NEW w \in Waiters,
           TakePermit(w) \/ TakeNotified(w) \/ Enqueue(w)
    PROVE  /\ permit' \in [NotifyIds -> BOOLEAN]
           /\ queued' \subseteq Waiters
           /\ notified' \subseteq Waiters
           /\ ahead' \in [Waiters -> SUBSET Waiters]
<1>1. CASE TakePermit(w)
  BY <1>1, Zenon DEF NotifyTypeOK, TakePermit
<1>2. CASE TakeNotified(w)
  BY <1>2 DEF NotifyTypeOK, TakeNotified
<1>3. CASE Enqueue(w)
  BY <1>3 DEF NotifyTypeOK, Enqueue, Queue
<1> QED BY <1>1, <1>2, <1>3

-----------------------------------------------------------------------------
(* Type correctness.                                                         *)

LEMMA TypeInit == Init => TypeOK
<1> SUFFICES ASSUME Init PROVE TypeOK
  OBVIOUS
<1>1. NotifyTypeOK
  BY DEF Init, NotifyInit, NotifyTypeOK
<1>2. sess \in [Waiters -> Sessions]
  BY DEF Init
<1>3. rx \in [Sessions -> 0..MaxRx] /\ tx \in [Sessions -> 0..MaxTx]
  BY ReactorAssumption DEF Init
<1>4. /\ hasEvent \in [Sessions -> BOOLEAN]
      /\ edge \in BOOLEAN /\ ready \in BOOLEAN /\ appRef \in BOOLEAN
  BY Zenon DEF Init
<1> QED BY <1>1, <1>2, <1>3, <1>4 DEF Init, TypeOK, PCs, Transports

(* An event posted by VPP is one of a session's two kinds.                   *)
LEMMA PostType ==
    ASSUME TypeOK, NEW s \in Sessions, NEW d \in {"in", "out"},
           Post(s, d) \/ UNCHANGED <<mq, edge>>
    PROVE  mq' \subseteq Sessions \X {"in", "out"} /\ edge' \in BOOLEAN
<1>1. <<s, d>> \in Sessions \X {"in", "out"}
  OBVIOUS
<1>2. mq' = mq \cup {<<s, d>>} \/ mq' = mq
  BY Zenon DEF Post
<1>3. edge' = edge \/ edge' = TRUE
  BY Zenon DEF Post
<1>4. edge' \in BOOLEAN
  BY <1>3, Zenon DEF TypeOK
<1>5. mq' \subseteq Sessions \X {"in", "out"}
  BY <1>1, <1>2 DEF TypeOK
<1> QED BY <1>4, <1>5

LEMMA TypeNext == TypeOK /\ [Next]_vars => TypeOK'
<1> SUFFICES ASSUME TypeOK, [Next]_vars PROVE TypeOK'
  OBVIOUS
<1> USE ReactorAssumption DEF Transports
<1>1. ASSUME NEW s \in Sessions, VppEnqueue(s) PROVE TypeOK'
  <2>1. mq' \subseteq Sessions \X {"in", "out"} /\ edge' \in BOOLEAN
    BY <1>1, PostType DEF VppEnqueue
  <2>2. rx' \in [Sessions -> 0..MaxRx] /\ hasEvent' \in [Sessions -> BOOLEAN]
    BY <1>1 DEF VppEnqueue, TypeOK
  <2> QED BY <1>1, <2>1, <2>2 DEF TypeOK, NotifyTypeOK, VppEnqueue, notifyVars, coreVars,
        sockVars, opVars
<1>2. ASSUME NEW s \in Sessions, VppDequeue(s) PROVE TypeOK'
  <2>1. mq' \subseteq Sessions \X {"in", "out"} /\ edge' \in BOOLEAN
    BY <1>2, PostType DEF VppDequeue
  <2>2. tx' \in [Sessions -> 0..MaxTx]
    BY <1>2 DEF VppDequeue, TypeOK
  <2> QED BY <1>2, <2>1, <2>2 DEF TypeOK, NotifyTypeOK, VppDequeue, notifyVars, coreVars,
        sockVars, opVars
<1>3. ASSUME NEW s \in Sessions, NEW c \in {"up", "closed"}, VppTransport(s, c) PROVE TypeOK'
  <2>1. mq' \subseteq Sessions \X {"in", "out"} /\ edge' \in BOOLEAN
    BY <1>3, PostType DEF VppTransport
  <2> QED BY <1>3, <2>1 DEF TypeOK, NotifyTypeOK, VppTransport, notifyVars, coreVars,
        sockVars, opVars
<1>4. ASSUME IoDriver PROVE TypeOK'
  BY <1>4, Zenon DEF TypeOK, NotifyTypeOK, IoDriver, notifyVars, vppVars, coreVars, sockVars, opVars
<1>5. ASSUME NEW s \in Sessions, NEW k \in {"udp", "listener"}, Bind(s, k) PROVE TypeOK'
  BY <1>5 DEF TypeOK, NotifyTypeOK, Bind, CreateAndRegister, notifyVars, fdVars, coreVars, opVars
<1>6. ASSUME NEW s \in Sessions, DropSocket(s) PROVE TypeOK'
  BY <1>6 DEF TypeOK, NotifyTypeOK, DropSocket, Deregister, notifyVars, fdVars, opVars
<1>7. ASSUME NEW s \in Sessions, CloseSocket(s) PROVE TypeOK'
  BY <1>7 DEF TypeOK, NotifyTypeOK, CloseSocket, CloseSession, DropAll, StoredIn,
        fdVars, coreVars, PCs
<1>8. ASSUME DropReactor PROVE TypeOK'
  BY <1>8, Zenon DEF TypeOK, NotifyTypeOK, DropReactor, notifyVars, vppVars, fdVars, sockVars, opVars
<1>9. ASSUME TickDrain PROVE TypeOK'
  <2>1. NotifyTypeOK'
    BY <1>9, NotifyEachType DEF TickDrain, DrainEvents, TypeOK
  <2> QED BY <1>9, <2>1 DEF TypeOK, TickDrain, DrainEvents, fdVars, sockVars, opVars
<1>10. ASSUME TickNotify PROVE TypeOK'
  <2>1. NotifyTypeOK'
    BY <1>10, NotifyEachType DEF TickNotify, TypeOK
  <2> QED BY <1>10, <2>1 DEF TypeOK, TickNotify, vppVars, fdVars, sockVars, opVars
<1>11. ASSUME TickExit PROVE TypeOK'
  BY <1>11 DEF TypeOK, NotifyTypeOK, TickExit, notifyVars, vppVars, fdVars, sockVars, opVars
<1>12. ASSUME NEW w \in Waiters, NEW s \in Sessions, NEW k \in OpKinds, Start(w, s, k) PROVE TypeOK'
  BY <1>12 DEF TypeOK, NotifyTypeOK, Start, notifyVars, vppVars, fdVars, coreVars, sockVars, PCs
<1>13. ASSUME NEW w \in Waiters, NEW s \in Sessions, ConnectAsync(w, s) PROVE TypeOK'
  BY <1>13 DEF TypeOK, NotifyTypeOK, ConnectAsync, CreateAndRegister, notifyVars, fdVars,
        coreVars, PCs, AllOps
<1>14. ASSUME NEW w \in Waiters, TryRead(w) PROVE TypeOK'
  BY <1>14 DEF TypeOK, NotifyTypeOK, TryRead, Take, Goto, notifyVars, fdVars, coreVars,
        sockVars, PCs
<1>15. ASSUME NEW w \in Waiters, NEW c \in Sessions, TryAccept(w, c) PROVE TypeOK'
  BY <1>15 DEF TypeOK, NotifyTypeOK, TryAccept, Take, CreateAndRegister, Goto, notifyVars,
        fdVars, coreVars, PCs
<1>16. ASSUME NEW w \in Waiters, AcceptFails(w) PROVE TypeOK'
  BY <1>16 DEF TypeOK, NotifyTypeOK, AcceptFails, Take, Goto, notifyVars, fdVars, coreVars,
        sockVars, PCs
<1>17. ASSUME NEW w \in Waiters, WriteDone(w) \/ WriteMore(w) PROVE TypeOK'
  BY <1>17 DEF TypeOK, NotifyTypeOK, WriteDone, WriteMore, Put, Goto, notifyVars, fdVars,
        coreVars, sockVars, PCs
<1>18. ASSUME NEW w \in Waiters, TryClosed(w) \/ TryBlock(w) PROVE TypeOK'
  BY <1>18 DEF TypeOK, NotifyTypeOK, TryClosed, TryBlock, Goto, notifyVars, vppVars, fdVars,
        coreVars, sockVars, PCs
<1>19. ASSUME NEW w \in Waiters, WaitEnter(w) PROVE TypeOK'
  <2>1. waiters' \in [Sessions -> NotifyIds \cup {NoNotify}]
    BY <1>19 DEF TypeOK, WaitEnter, Entry, InsertNotify
  <2>2. held' \in [Waiters -> NotifyIds \cup {NoNotify}]
    BY <1>19 DEF TypeOK, NotifyTypeOK, WaitEnter, Entry, InsertNotify
  <2>3. permit' \in [NotifyIds -> BOOLEAN]
    BY <1>19, Zenon DEF TypeOK, NotifyTypeOK, WaitEnter, Entry, InsertNotify
  <2> QED BY <1>19, <2>1, <2>2, <2>3, Zenon DEF TypeOK, NotifyTypeOK, WaitEnter, Goto, vppVars,
        fdVars, sockVars, PCs
<1>20. ASSUME NEW w \in Waiters, SelectPark(w) \/ RecheckPark(w) PROVE TypeOK'
  <2>1. NotifyTypeOK'
    BY <1>20, TakeEnqueueType DEF TypeOK, NotifyTypeOK, SelectPark, RecheckPark
  <2> QED BY <1>20, <2>1 DEF TypeOK, SelectPark, RecheckPark, Goto, vppVars, fdVars,
        coreVars, sockVars, PCs
<1>21. ASSUME NEW w \in Waiters, SelectNotified(w) \/ RecheckOk(w) PROVE TypeOK'
  <2>1. ReturnOk(w) /\ (TakePermit(w) \/ TakeNotified(w))
    BY <1>21 DEF SelectNotified, RecheckOk
  <2>2. NotifyTypeOK'
    BY <2>1, TakeEnqueueType DEF TypeOK, NotifyTypeOK, ReturnOk
  <2> QED BY <2>1, <2>2 DEF TypeOK, ReturnOk, Goto, vppVars, fdVars, coreVars, PCs
<1>22. ASSUME NEW w \in Waiters, SelectMq(w) PROVE TypeOK'
  <2>1. NotifyTypeOK'
    BY <1>22, DropNotifiedType DEF TypeOK, NotifyTypeOK, SelectMq
  <2> QED BY <1>22, <2>1 DEF TypeOK, SelectMq, Goto, vppVars, coreVars, sockVars, PCs
<1>23. ASSUME NEW w \in Waiters, WaitDrain(w) PROVE TypeOK'
  <2>1. NotifyTypeOK'
    BY <1>23, NotifyEachType DEF WaitDrain, DrainEvents, TypeOK
  <2> QED BY <1>23, <2>1 DEF TypeOK, WaitDrain, DrainEvents, Goto, fdVars, coreVars,
        sockVars, PCs
<1>24. ASSUME NEW w \in Waiters, ClearReady(w) PROVE TypeOK'
  BY <1>24 DEF TypeOK, NotifyTypeOK, ClearReady, Goto, notifyVars, vppVars, coreVars,
        sockVars, PCs
<1>25. ASSUME NEW w \in Waiters, RecheckElapsed(w) PROVE TypeOK'
  <2>1. NotifyTypeOK'
    BY <1>25, DropNotifiedType DEF TypeOK, NotifyTypeOK, RecheckElapsed
  <2> QED BY <1>25, <2>1 DEF TypeOK, RecheckElapsed, Goto, vppVars, fdVars, coreVars,
        sockVars, PCs
<1>26. ASSUME NEW w \in Waiters, NEW l \in {"idle", "try"}, GiveUp(w, l) PROVE TypeOK'
  <2>1. NotifyTypeOK'
    BY <1>26, DropNotifiedType DEF TypeOK, NotifyTypeOK, GiveUp
  <2>2. CASE op[w] = "connect_async"
    <3>1. CloseSession(sess[w]) /\ sess[w] \in Sessions
      BY <1>26, <2>2 DEF TypeOK, GiveUp
    <3>2. /\ rx' \in [Sessions -> 0..MaxRx] /\ tx' \in [Sessions -> 0..MaxTx]
          /\ hasEvent' \in [Sessions -> BOOLEAN]
      BY <3>1 DEF TypeOK, CloseSession
    <3>3. /\ conn' \in [Sessions -> Transports]
          /\ sock' \in [Sessions -> {"free", "connecting", "open", "dropping"}]
          /\ kind' \in [Sessions -> {"udp", "listener", "stream"}]
          /\ vep' \subseteq Sessions
          /\ mq' \subseteq Sessions \X {"in", "out"}
      BY <3>1 DEF TypeOK, CloseSession
    <3> QED BY <1>26, <2>1, <3>2, <3>3 DEF TypeOK, GiveUp, Goto, fdVars, coreVars, PCs
  <2>3. CASE op[w] # "connect_async"
    BY <1>26, <2>1, <2>3 DEF TypeOK, GiveUp, Goto, vppVars, fdVars, coreVars, sockVars, PCs
  <2> QED BY <2>2, <2>3
<1>27. ASSUME NEW w \in Waiters, Abandon(w) \/ Repoll(w) PROVE TypeOK'
  BY <1>27 DEF TypeOK, NotifyTypeOK, Abandon, Repoll, notifyVars, vppVars, fdVars, coreVars,
        sockVars
<1>28. ASSUME UNCHANGED vars PROVE TypeOK'
  BY <1>28 DEF TypeOK, NotifyTypeOK, vars, notifyVars, vppVars, fdVars, coreVars, sockVars,
        opVars
<1>29. ASSUME NEW w \in Waiters, SelectTimeout(w) \/ Cancel(w) PROVE TypeOK'
  BY <1>26, <1>29 DEF SelectTimeout, Cancel
<1>30. ASSUME NEW s \in Sessions, Shutdown(s) PROVE TypeOK'
  BY <1>30 DEF TypeOK, NotifyTypeOK, Shutdown, notifyVars, fdVars, coreVars, sockVars, opVars
<1> QED
  BY <1>1, <1>2, <1>3, <1>4, <1>5, <1>6, <1>7, <1>8, <1>9, <1>10, <1>11, <1>12, <1>13,
     <1>14, <1>15, <1>16, <1>17, <1>18, <1>19, <1>20, <1>21, <1>22, <1>23, <1>24, <1>25,
     <1>27, <1>28, <1>29, <1>30
  DEF Next, Vpp, Driver, Ticker, Owner, Run, Caller

(* Every variable of the reactor model keeps its type: in particular fifos   *)
(* never under- or overflow and a wait always refers to an existing Notify.  *)
THEOREM TypeCorrect == Spec => []TypeOK
BY TypeInit, TypeNext, PTL DEF Spec

-----------------------------------------------------------------------------
(* The inductive invariant.  WaitersReachable and TickerOutlivesSockets need  *)
(* to know who may be using a session in which state: only stored waits      *)
(* survive into a Drop, a pending connect_async is alone on its session, a   *)
(* wait really holds a Notify, and a ticker that has exited left nobody who  *)
(* could make a socket.                                                      *)
Own(w) ==
    /\ InWait(w) /\ sock[sess[w]] # "dropping" => held[w] = waiters[sess[w]]
    /\ InWait(w) => held[w] # NoNotify
    /\ Parked(w) => w \in queued \cup notified
    /\ pc[w] # "idle" => sock[sess[w]] # "free"
    /\ pc[w] # "idle" /\ w \notin stored => sock[sess[w]] \in {"connecting", "open"}
    /\ w \in stored => Parked(w) /\ op[w] \in StoringOps
    /\ op[w] = "connect_async" => pc[w] # "idle" /\ sock[sess[w]] = "connecting"

Alone ==
    \A w, v \in Waiters :
        op[w] = "connect_async" /\ pc[v] # "idle" /\ v # w => sess[v] # sess[w]

TickerLast == ticker = "exited" => ~appRef /\ \A s \in Sessions : sock[s] = "free"

Core == (\A w \in Waiters : Own(w)) /\ Alone /\ TickerLast

(* A step that leaves a waiter and all it depends on alone.                  *)
Framed(v) ==
    /\ pc'[v] = pc[v] /\ op'[v] = op[v] /\ sess'[v] = sess[v] /\ held'[v] = held[v]
    /\ v \in stored' <=> v \in stored
    /\ v \in queued \cup notified => v \in queued' \cup notified'
    /\ pc[v] # "idle" => sock'[sess[v]] = sock[sess[v]]
    /\ InWait(v) => waiters'[sess[v]] = waiters[sess[v]]

LEMMA OwnFramed ==
    ASSUME NEW v \in Waiters, Own(v), Framed(v)
    PROVE  Own(v)'
<1>1. (InWait(v)' <=> InWait(v)) /\ (Parked(v)' <=> Parked(v))
  BY DEF Framed, InWait, Parked
<1>2. CASE pc[v] = "idle"
  <2>1. ~InWait(v) /\ ~Parked(v)
    BY <1>2 DEF InWait, Parked
  <2> QED BY <1>1, <1>2, <2>1 DEF Own, Framed
<1>3. CASE pc[v] # "idle"
  BY <1>1, <1>3 DEF Own, Framed
<1> QED BY <1>2, <1>3

(* A step that frames every waiter.                                          *)
LEMMA AllFramed ==
    ASSUME Core, \A v \in Waiters : Framed(v), TickerLast'
    PROVE  Core'
<1>1. \A v \in Waiters : Own(v)'
  BY OwnFramed DEF Core
<1>2. Alone'
  BY DEF Core, Alone, Framed
<1> QED BY <1>1, <1>2 DEF Core

(* A step of one busy waiter that frames the others.                         *)
LEMMA WaiterStep ==
    ASSUME Core, NEW w \in Waiters, \A v \in Waiters \ {w} : Framed(v), Own(w)', TickerLast',
           pc[w] # "idle", sess'[w] = sess[w], op'[w] \in {op[w], NoOp}
    PROVE  Core'
<1>1. \A v \in Waiters : Own(v)'
  <2> SUFFICES ASSUME NEW v \in Waiters, v # w PROVE Own(v)'
    OBVIOUS
  <2> QED BY OwnFramed DEF Core
<1>2. Alone'
  <2> SUFFICES ASSUME NEW u \in Waiters, NEW v \in Waiters,
                      op'[u] = "connect_async", pc'[v] # "idle", v # u
               PROVE  sess'[v] # sess'[u]
    BY DEF Alone
  <2>1. op[u] = "connect_async" /\ sess'[u] = sess[u]
    BY DEF Framed, NoOp
  <2>2. pc[v] # "idle" /\ sess'[v] = sess[v]
    BY DEF Framed
  <2> QED BY <2>1, <2>2 DEF Core, Alone
<1> QED BY <1>1, <1>2 DEF Core

(* A step of one busy waiter, not stored, that changes only its control      *)
(* point, its Notify and its own place in the FIFO.                          *)
LEMMA StepCore ==
    ASSUME TypeOK, Core, NEW w \in Waiters, w \notin stored, pc[w] # "idle",
           NEW l \in PCs, Goto(w, l),
           l \notin {"idle", "try", "enter"} =>
               held'[w] = waiters[sess[w]] /\ held'[w] # NoNotify,
           l \in {"parked", "rechecking"} => w \in queued' \cup notified',
           \A v \in Waiters \ {w} :
               /\ held'[v] = held[v]
               /\ v \in queued \cup notified => v \in queued' \cup notified',
           UNCHANGED <<waiters, sock, sess, stored, appRef, ticker>>
    PROVE  Core'
<1>1. pc'[w] = l /\ (op'[w] = IF l = "idle" THEN NoOp ELSE op[w])
  BY DEF Goto, TypeOK
<1>2. \A v \in Waiters \ {w} : pc'[v] = pc[v] /\ op'[v] = op[v]
  BY DEF Goto, TypeOK
<1>3. \A v \in Waiters \ {w} : Framed(v)
  BY <1>2 DEF Framed
<1>4. Own(w)
  BY Zenon DEF Core
<1>5. Own(w)'
  BY <1>1, <1>4, Zenon DEF Own, InWait, Parked, NoOp
<1>6. TickerLast'
  BY Zenon DEF Core, TickerLast
<1> QED BY <1>1, <1>3, <1>5, <1>6, WaiterStep

(* connect_async ends: its session, which no other waiter uses, becomes open *)
(* or is closed.                                                             *)
LEMMA ConnectEnds ==
    ASSUME TypeOK, Core, NEW w \in Waiters, w \notin stored, pc[w] # "idle",
           op[w] = "connect_async", Goto(w, "idle"),
           NEW x, sock' = [sock EXCEPT ![sess[w]] = x],
           \A v \in Waiters \ {w} :
               /\ held'[v] = held[v]
               /\ v \in queued \cup notified => v \in queued' \cup notified',
           UNCHANGED <<waiters, sess, stored, appRef, ticker>>
    PROVE  Core'
<1>1. pc'[w] = "idle" /\ op'[w] = NoOp
  BY DEF Goto, TypeOK
<1>2. \A v \in Waiters \ {w} : pc'[v] = pc[v] /\ op'[v] = op[v]
  BY DEF Goto, TypeOK
<1>3. ASSUME NEW v \in Waiters, v # w, pc[v] # "idle" PROVE sock'[sess[v]] = sock[sess[v]]
  <2>1. sess[v] # sess[w] /\ sess[v] \in Sessions
    BY <1>3, Zenon DEF Core, Alone, TypeOK
  <2> QED BY <2>1 DEF TypeOK
<1>4. \A v \in Waiters \ {w} : Framed(v)
  BY <1>2, <1>3, Zenon DEF Framed
<1>5. Own(w)'
  BY <1>1, Zenon DEF Own, InWait, Parked, NoOp
<1>6. ticker # "exited"
  BY DEF Core, Own, TickerLast, TypeOK
<1>7. TickerLast'
  BY <1>6, Zenon DEF TickerLast
<1> QED BY <1>1, <1>4, <1>5, <1>7, WaiterStep

(* notify_one moves futures from the FIFO to the signalled ones; dropping a  *)
(* future takes away only that future.                                       *)
LEMMA NotifyEachKeeps ==
    ASSUME NEW k, NotifyEach(k)
    PROVE  queued' \cup notified' = queued \cup notified
BY DEF NotifyEach, Woken

LEMMA DropNotifiedKeeps ==
    ASSUME NEW w, DropNotified(w), NEW v \in queued \cup notified, v # w
    PROVE  v \in queued' \cup notified'
BY DEF DropNotified, Queue

LEMMA CoreInit == Init => Core
BY DEF Init, NotifyInit, Core, Own, Alone, TickerLast, InWait, Parked, NoOp

LEMMA CoreNext == TypeOK /\ Core /\ [Next]_vars => Core'
<1> SUFFICES ASSUME TypeOK, Core, [Next]_vars PROVE Core'
  OBVIOUS
<1>1. ASSUME UNCHANGED <<held, waiters, sock, pc, op, sess, stored, appRef>>,
             queued' \cup notified' = queued \cup notified,
             ticker' # "exited" \/ ticker' = ticker
      PROVE  Core'
  <2>1. \A v \in Waiters : Framed(v)
    BY <1>1 DEF Framed
  <2>2. TickerLast'
    BY <1>1 DEF Core, TickerLast
  <2> QED BY <2>1, <2>2, AllFramed
<1>2. ASSUME NEW s \in Sessions, NEW c \in {"up", "closed"},
             VppEnqueue(s) \/ VppDequeue(s) \/ VppTransport(s, c)
      PROVE  Core'
  BY <1>1, <1>2, Zenon DEF VppEnqueue, VppDequeue, VppTransport, notifyVars, coreVars, sockVars, opVars
<1>3. ASSUME IoDriver \/ \E s \in Sessions : Shutdown(s) PROVE Core'
  BY <1>1, <1>3 DEF IoDriver, Shutdown, notifyVars, coreVars, sockVars, opVars
<1>4. ASSUME TickDrain PROVE Core'
  <2>1. queued' \cup notified' = queued \cup notified
    BY <1>4, NotifyEachKeeps DEF TickDrain, DrainEvents
  <2> QED BY <1>1, <1>4, <2>1 DEF TickDrain, sockVars, opVars
<1>5. ASSUME TickNotify PROVE Core'
  <2>1. queued' \cup notified' = queued \cup notified
    BY <1>5, NotifyEachKeeps DEF TickNotify
  <2> QED BY <1>1, <1>5, <2>1 DEF TickNotify, sockVars, opVars
<1>6. ASSUME TickExit \/ DropReactor PROVE Core'
  <2>1. UNCHANGED <<notifyVars, waiters, sockVars, opVars>>
    BY <1>6 DEF TickExit, DropReactor
  <2>2. \A v \in Waiters : Framed(v)
    BY <2>1 DEF Framed, notifyVars, sockVars, opVars
  <2>3. TickerLast'
    BY <1>6, <2>1 DEF TickExit, DropReactor, Alive, Core, TickerLast, sockVars
  <2> QED BY <2>2, <2>3, AllFramed
<1>7. ASSUME NEW s \in Sessions, sock[s] = "free", NEW x, sock' = [sock EXCEPT ![s] = x]
      PROVE  /\ sock'[s] = x
             /\ \A v \in Waiters : pc[v] # "idle" =>
                   sess[v] # s /\ sock'[sess[v]] = sock[sess[v]]
  <2>1. sock'[s] = x /\ \A r \in Sessions \ {s} : sock'[r] = sock[r]
    BY <1>7 DEF TypeOK
  <2>2. \A v \in Waiters : pc[v] # "idle" => sess[v] \in Sessions \ {s}
    BY <1>7 DEF Core, Own, TypeOK
  <2> QED BY <2>1, <2>2
<1>8. ASSUME NEW s \in Sessions, NEW k \in {"udp", "listener"}, Bind(s, k) PROVE Core'
  <2>1. sock[s] = "free" /\ sock' = [sock EXCEPT ![s] = "open"]
    BY <1>8 DEF Bind, CreateAndRegister
  <2>2. UNCHANGED <<notifyVars, coreVars, opVars>>
    BY <1>8 DEF Bind
  <2>3. \A v \in Waiters : Framed(v)
    BY <1>7, <2>1, <2>2, Zenon DEF Framed, notifyVars, coreVars, opVars
  <2>4. ticker # "exited"
    BY <1>8 DEF Bind, Alive, Core, TickerLast
  <2> QED BY <2>2, <2>3, <2>4, AllFramed DEF TickerLast, coreVars
<1>9. ASSUME NEW s \in Sessions, DropSocket(s) PROVE Core'
  <2>1. \A r \in Sessions \ {s} : sock'[r] = sock[r] /\ waiters'[r] = waiters[r]
    BY <1>9 DEF DropSocket, Deregister, TypeOK
  <2>2. sock'[s] = "dropping" /\ sock[s] = "open"
    BY <1>9 DEF DropSocket, TypeOK
  <2>3. UNCHANGED <<held, queued, notified, appRef, ticker, pc, op, sess, stored>>
    BY <1>9 DEF DropSocket, notifyVars, opVars
  <2>4. ASSUME NEW v \in Waiters PROVE Own(v)'
    <3>1. Own(v) /\ sess[v] \in Sessions
      BY DEF Core, TypeOK
    <3>2. CASE sess[v] # s \/ pc[v] = "idle"
      <4>1. Framed(v)
        BY <2>1, <2>3, <3>1, <3>2 DEF Framed, InWait
      <4> QED BY <3>1, <4>1, OwnFramed
    <3>3. CASE sess[v] = s /\ pc[v] # "idle"
      <4>1. v \in stored
        BY <1>9, <3>3 DEF DropSocket, Borrowed
      <4> QED BY <2>2, <2>3, <3>1, <3>3, <4>1, Zenon DEF Own, InWait, Parked, StoringOps
    <3> QED BY <3>2, <3>3
  <2>5. Alone'
    BY <2>3 DEF Core, Alone
  <2>6. TickerLast'
    BY <2>2, <2>3 DEF Core, TickerLast
  <2> QED BY <2>4, <2>5, <2>6 DEF Core
<1>10. ASSUME NEW s \in Sessions, CloseSocket(s) PROVE Core'
  <2>1. sock[s] = "dropping" /\ sock' = [sock EXCEPT ![s] = "free"]
    BY <1>10 DEF CloseSocket, CloseSession
  <2>2. sock'[s] = "free" /\ \A r \in Sessions \ {s} : sock'[r] = sock[r]
    BY <2>1 DEF TypeOK
  <2>3. \A v \in StoredIn(s) : pc'[v] = "idle" /\ op'[v] = NoOp /\ v \notin stored'
    BY <1>10 DEF CloseSocket, StoredIn, TypeOK
  <2>4. \A v \in Waiters \ StoredIn(s) :
           /\ pc'[v] = pc[v] /\ op'[v] = op[v] /\ held'[v] = held[v]
           /\ v \in stored' <=> v \in stored
           /\ v \in queued \cup notified => v \in queued' \cup notified'
    BY <1>10, Zenon DEF CloseSocket, DropAll
  <2>5. UNCHANGED <<waiters, appRef, ticker, sess>>
    BY <1>10, Zenon DEF CloseSocket, coreVars
  <2>6. ASSUME NEW v \in Waiters PROVE Own(v)'
    <3>1. Own(v) /\ sess[v] \in Sessions
      BY DEF Core, TypeOK
    <3>2. CASE v \in StoredIn(s)
      BY <2>3, <3>2, Zenon DEF Own, InWait, Parked, NoOp
    <3>3. CASE v \notin StoredIn(s)
      <4>1. pc[v] # "idle" => sess[v] # s
        BY <2>1, <3>1, <3>3, Zenon DEF Own, StoredIn
      <4>2. Framed(v)
        BY <2>2, <2>4, <2>5, <3>1, <3>3, <4>1, Zenon DEF Framed
      <4> QED BY <3>1, <4>2, OwnFramed
    <3> QED BY <3>2, <3>3
  <2>7. \A v \in Waiters : (pc'[v] # "idle" => pc[v] # "idle") /\ op'[v] \in {op[v], NoOp}
    BY <2>3, <2>4, Zenon
  <2>8. Alone'
    BY <2>5, <2>7 DEF Core, Alone, NoOp
  <2>9. TickerLast'
    BY <2>1, <2>5 DEF Core, TickerLast
  <2> QED BY <2>6, <2>8, <2>9 DEF Core
<1>11. ASSUME NEW w \in Waiters, NEW s \in Sessions, NEW k \in OpKinds, Start(w, s, k)
       PROVE  Core'
  <2>1. pc[w] = "idle" /\ sock[s] = "open" /\ k # "connect_async"
    BY <1>11 DEF Start, OpsOf
  <2>2. pc'[w] \in {"try", "enter"} /\ op'[w] = k /\ sess'[w] = s
    BY <1>11, Zenon DEF Start, TypeOK
  <2>3. UNCHANGED <<notifyVars, waiters, appRef, ticker, sock, stored>>
    BY <1>11 DEF Start, coreVars, sockVars
  <2>4. ASSUME NEW v \in Waiters, v # w PROVE Framed(v)
    BY <1>11, <2>3, <2>4, Zenon DEF Start, Framed, notifyVars, TypeOK
  <2>5. Own(w)'
    <3>1. w \notin stored
      BY <2>1 DEF Core, Own, Parked
    <3> QED BY <2>1, <2>2, <2>3, <3>1, Zenon DEF Own, InWait, Parked
  <2>6. \A v \in Waiters : Own(v)'
    BY <2>4, <2>5, OwnFramed DEF Core
  <2>7. Alone'
    <3> SUFFICES ASSUME NEW u \in Waiters, NEW v \in Waiters,
                        op'[u] = "connect_async", pc'[v] # "idle", v # u
                 PROVE  sess'[v] # sess'[u]
      BY DEF Alone
    <3>1. u # w
      BY <2>1, <2>2
    <3>2. op[u] = "connect_async" /\ sess'[u] = sess[u] /\ sock[sess[u]] = "connecting"
      BY <2>4, <3>1 DEF Framed, Core, Own
    <3>3. CASE v = w
      BY <2>1, <2>2, <3>2, <3>3
    <3>4. CASE v # w
      <4>1. pc[v] # "idle" /\ sess'[v] = sess[v]
        BY <2>4, <3>4 DEF Framed
      <4> QED BY <3>2, <4>1 DEF Core, Alone
    <3> QED BY <3>3, <3>4
  <2>8. TickerLast'
    BY <2>3 DEF Core, TickerLast
  <2> QED BY <2>6, <2>7, <2>8 DEF Core
<1>12. ASSUME NEW w \in Waiters, NEW s \in Sessions, ConnectAsync(w, s) PROVE Core'
  <2>1. /\ pc[w] = "idle" /\ sock[s] = "free" /\ ticker # "exited"
        /\ sock' = [sock EXCEPT ![s] = "connecting"]
        /\ UNCHANGED <<notifyVars, coreVars, stored>>
    BY <1>12 DEF ConnectAsync, CreateAndRegister, Alive, Core, TickerLast
  <2>2. pc'[w] = "enter" /\ op'[w] = "connect_async" /\ sess'[w] = s
    BY <1>12 DEF ConnectAsync, TypeOK
  <2>3. \A v \in Waiters \ {w} : pc'[v] = pc[v] /\ op'[v] = op[v] /\ sess'[v] = sess[v]
    BY <1>12 DEF ConnectAsync, TypeOK
  <2>4. /\ sock'[s] = "connecting"
        /\ \A v \in Waiters : pc[v] # "idle" =>
              sess[v] # s /\ sock'[sess[v]] = sock[sess[v]]
    BY <1>7, <2>1, Zenon
  <2>5. ASSUME NEW v \in Waiters, v # w PROVE Framed(v)
    BY <2>1, <2>3, <2>4, <2>5, Zenon DEF Framed, notifyVars, coreVars
  <2>6. Own(w)'
    <3>1. w \notin stored
      BY <2>1 DEF Core, Own, Parked
    <3> QED BY <2>1, <2>2, <2>4, <3>1, Zenon DEF Own, InWait, Parked
  <2>7. \A v \in Waiters : Own(v)'
    BY <2>5, <2>6, OwnFramed DEF Core
  <2>8. Alone'
    <3> SUFFICES ASSUME NEW u \in Waiters, NEW v \in Waiters,
                        op'[u] = "connect_async", pc'[v] # "idle", v # u
                 PROVE  sess'[v] # sess'[u]
      BY DEF Alone
    <3>1. \A x \in Waiters \ {w} : pc'[x] # "idle" => sess'[x] # s
      BY <2>3, <2>4, Zenon
    <3>2. CASE u = w
      BY <2>2, <3>1, <3>2
    <3>3. CASE u # w
      <4>1. op[u] = "connect_async" /\ pc[u] # "idle" /\ pc'[u] = pc[u] /\ sess'[u] = sess[u]
        BY <2>3, <3>3 DEF Core, Own
      <4>2. CASE v = w
        BY <2>2, <3>1, <3>3, <4>1, <4>2, Zenon
      <4>3. CASE v # w
        BY <2>3, <4>1, <4>3 DEF Core, Alone
      <4> QED BY <4>2, <4>3, Zenon
    <3> QED BY <3>2, <3>3
  <2>9. TickerLast'
    BY <2>1 DEF TickerLast, coreVars
  <2> QED BY <2>7, <2>8, <2>9 DEF Core
<1>13. ASSUME NEW w \in Waiters, pc[w] = "try" PROVE w \notin stored
  BY <1>13, Zenon DEF Core, Own, Parked
<1>14. ASSUME NEW w \in Waiters,
              TryRead(w) \/ AcceptFails(w) \/ WriteDone(w) \/ WriteMore(w) \/ TryClosed(w)
                \/ TryBlock(w)
       PROVE  Core'
  <2>1. pc[w] = "try" /\ UNCHANGED <<notifyVars, coreVars, sockVars, sess, stored>>
    BY <1>14, Zenon DEF TryRead, AcceptFails, WriteDone, WriteMore, Put, TryClosed, TryBlock
  <2>2. Goto(w, "idle") \/ Goto(w, "try") \/ Goto(w, "enter")
    BY <1>14, Zenon DEF TryRead, AcceptFails, WriteDone, WriteMore, TryClosed, TryBlock
  <2> QED BY <1>13, <2>1, <2>2, StepCore DEF notifyVars, coreVars, sockVars, PCs
<1>15. ASSUME NEW w \in Waiters, NEW c \in Sessions, TryAccept(w, c) PROVE Core'
  <2>1. /\ pc[w] = "try" /\ sock[c] = "free" /\ w \notin stored
        /\ sock' = [sock EXCEPT ![c] = "open"]
        /\ Goto(w, "idle")
        /\ UNCHANGED <<notifyVars, coreVars, sess, stored>>
    BY <1>15, <1>13 DEF TryAccept, CreateAndRegister
  <2>2. pc'[w] = "idle" /\ op'[w] = NoOp
    BY <2>1 DEF Goto, TypeOK
  <2>3. \A v \in Waiters \ {w} : pc'[v] = pc[v] /\ op'[v] = op[v]
    BY <2>1 DEF Goto, TypeOK
  <2>4. \A v \in Waiters : pc[v] # "idle" => sock'[sess[v]] = sock[sess[v]]
    BY <1>7, <2>1, Zenon
  <2>5. \A v \in Waiters \ {w} : Framed(v)
    BY <2>1, <2>3, <2>4, Zenon DEF Framed, notifyVars, coreVars
  <2>6. Own(w)'
    BY <2>1, <2>2, Zenon DEF Own, InWait, Parked, NoOp
  <2>7. ticker # "exited"
    BY <2>1 DEF Core, Own, TickerLast, TypeOK
  <2>8. TickerLast'
    BY <2>1, <2>7, Zenon DEF TickerLast, coreVars
  <2> QED BY <2>1, <2>2, <2>5, <2>6, <2>8, WaiterStep
<1>16. ASSUME NEW w \in Waiters, WaitEnter(w) PROVE Core'
  <2>1. /\ pc[w] = "enter" /\ Goto(w, "select") /\ Entry(w, sess[w])
        /\ UNCHANGED <<queued, notified, appRef, ticker, sock, sess, stored>>
    BY <1>16, Zenon DEF WaitEnter, sockVars
  <2>2. w \notin stored /\ sess[w] \in Sessions /\ Own(w)
    BY <2>1 DEF Core, Own, Parked, TypeOK
  <2>3. CASE waiters[sess[w]] # NoNotify
    <3>1. held' = [held EXCEPT ![w] = waiters[sess[w]]] /\ UNCHANGED waiters
      BY <2>1, <2>3, Zenon DEF Entry
    <3>2. held'[w] = waiters[sess[w]] /\ \A v \in Waiters \ {w} : held'[v] = held[v]
      BY <3>1 DEF TypeOK, NotifyTypeOK
    <3> QED BY <2>1, <2>2, <2>3, <3>1, <3>2, StepCore, Zenon DEF PCs
  <2>4. CASE waiters[sess[w]] = NoNotify
    <3>1. PICK n \in NotifyIds : /\ waiters' = [waiters EXCEPT ![sess[w]] = n]
                                 /\ held' = [held EXCEPT ![w] = n]
      BY <2>1, <2>4 DEF Entry, InsertNotify
    <3>2. n # NoNotify
      BY NotifyAssumption, Zenon
    <3>3. held'[w] = n /\ waiters'[sess[w]] = n /\ \A v \in Waiters \ {w} : held'[v] = held[v]
      BY <2>2, <3>1, Zenon DEF TypeOK, NotifyTypeOK
    <3>4. \A r \in Sessions \ {sess[w]} : waiters'[r] = waiters[r]
      BY <3>1 DEF TypeOK
    <3>5. pc'[w] = "select" /\ op'[w] = op[w] /\
          \A v \in Waiters \ {w} : pc'[v] = pc[v] /\ op'[v] = op[v]
      BY <2>1, Zenon DEF Goto, TypeOK
    <3>6. sock[sess[w]] # "dropping"
      BY <2>1, <2>2 DEF Own
    <3>7. ASSUME NEW v \in Waiters, InWait(v) PROVE waiters'[sess[v]] = waiters[sess[v]]
      <4>1. Own(v) /\ sess[v] \in Sessions
        BY DEF Core, TypeOK
      <4>2. sess[v] # sess[w]
        BY <2>4, <3>6, <3>7, <4>1, Zenon DEF Own
      <4> QED BY <3>4, <4>1, <4>2
    <3>8. \A v \in Waiters \ {w} : Framed(v)
      BY <2>1, <3>3, <3>5, <3>7, Zenon DEF Framed
    <3>9. Own(w)'
      BY <2>1, <2>2, <3>2, <3>3, <3>5, Zenon DEF Own, InWait, Parked
    <3>10. TickerLast'
      BY <2>1, Zenon DEF Core, TickerLast
    <3> QED BY <2>1, <3>5, <3>8, <3>9, <3>10, WaiterStep, Zenon
  <2> QED BY <2>3, <2>4
<1>17. ASSUME NEW w \in Waiters, SelectPark(w) \/ RecheckPark(w) PROVE Core'
  <2>1. /\ pc[w] \in {"select", "recheck"} /\ Enqueue(w)
        /\ UNCHANGED <<held, coreVars, sockVars, sess, stored>>
    BY <1>17 DEF SelectPark, RecheckPark
  <2>2. Goto(w, "parked") \/ Goto(w, "rechecking")
    BY <1>17 DEF SelectPark, RecheckPark
  <2>3. w \notin stored /\ held[w] = waiters[sess[w]] /\ held[w] # NoNotify
    BY <2>1 DEF Core, Own, Parked, InWait
  <2>4. w \in queued' /\ \A v \in queued \cup notified : v \in queued' \cup notified'
    BY <2>1 DEF Enqueue
  <2> QED BY <2>1, <2>2, <2>3, <2>4, StepCore DEF coreVars, sockVars, PCs
<1>18. ASSUME NEW w \in Waiters, SelectNotified(w) \/ RecheckOk(w) PROVE Core'
  <2>1. /\ pc[w] # "idle" /\ w \notin stored /\ ReturnOk(w)
        /\ TakePermit(w) \/ TakeNotified(w)
    BY <1>18 DEF SelectNotified, RecheckOk, Polled
  <2>2. \A v \in Waiters \ {w} :
           /\ held'[v] = held[v]
           /\ v \in queued \cup notified => v \in queued' \cup notified'
    BY <2>1 DEF ReturnOk, TakePermit, TakeNotified, TypeOK, NotifyTypeOK
  <2>3. CASE op[w] # "connect_async"
    <3>1. /\ Goto(w, "try") \/ Goto(w, "idle")
          /\ UNCHANGED <<waiters, sock, sess, stored, appRef, ticker>>
      BY <2>1, <2>3, Zenon DEF ReturnOk, coreVars
    <3> QED BY <2>1, <2>2, <3>1, StepCore, Zenon DEF PCs
  <2>4. CASE op[w] = "connect_async"
    <3>1. /\ Goto(w, "idle") /\ sock' = [sock EXCEPT ![sess[w]] = "open"]
          /\ UNCHANGED <<waiters, sess, stored, appRef, ticker>>
      BY <2>1, <2>4, Zenon DEF ReturnOk, coreVars
    <3> QED BY <2>1, <2>2, <2>4, <3>1, ConnectEnds, Zenon
  <2> QED BY <2>3, <2>4
<1>19. ASSUME NEW w \in Waiters, SelectMq(w) \/ RecheckElapsed(w) PROVE Core'
  <2>1. /\ InWait(w) /\ pc[w] # "idle" /\ w \notin stored /\ DropNotified(w)
        /\ UNCHANGED <<held, coreVars, sockVars, sess, stored>>
    BY <1>19 DEF SelectMq, RecheckElapsed, InWait, Polled
  <2>2. Goto(w, "drain") \/ Goto(w, "select")
    BY <1>19 DEF SelectMq, RecheckElapsed
  <2>3. held[w] = waiters[sess[w]] /\ held[w] # NoNotify
    BY <2>1 DEF Core, Own
  <2>4. \A v \in Waiters \ {w} : v \in queued \cup notified => v \in queued' \cup notified'
    BY <2>1, DropNotifiedKeeps, Zenon
  <2> QED BY <2>1, <2>2, <2>3, <2>4, StepCore DEF coreVars, sockVars, PCs
<1>20. ASSUME NEW w \in Waiters, WaitDrain(w) \/ ClearReady(w) PROVE Core'
  <2>1. /\ pc[w] \in {"drain", "clear"}
        /\ UNCHANGED <<held, coreVars, sockVars, sess, stored>>
    BY <1>20 DEF WaitDrain, ClearReady, notifyVars
  <2>2. Goto(w, "clear") \/ Goto(w, "recheck")
    BY <1>20 DEF WaitDrain, ClearReady
  <2>3. w \notin stored /\ held[w] = waiters[sess[w]] /\ held[w] # NoNotify
    BY <2>1 DEF Core, Own, Parked, InWait
  <2>4. queued' \cup notified' = queued \cup notified
    BY <1>20, NotifyEachKeeps DEF WaitDrain, ClearReady, DrainEvents, notifyVars
  <2> QED BY <2>1, <2>2, <2>3, <2>4, StepCore DEF coreVars, sockVars, PCs
<1>21. ASSUME NEW w \in Waiters, SelectTimeout(w) \/ Cancel(w) PROVE Core'
  <2>1. pc[w] # "idle" /\ w \notin stored
    BY <1>21 DEF SelectTimeout, Cancel, Suspended, Parked, Polled
  <2>2. PICK l \in {"idle", "try"} : GiveUp(w, l) /\ (op[w] = "connect_async" => l = "idle")
    BY <1>21 DEF SelectTimeout, Cancel, RearmOps
  <2>3. \A v \in Waiters \ {w} :
           /\ held'[v] = held[v]
           /\ v \in queued \cup notified => v \in queued' \cup notified'
    BY <2>2, DropNotifiedKeeps DEF GiveUp, TypeOK, NotifyTypeOK
  <2>4. CASE op[w] # "connect_async"
    <3>1. Goto(w, l) /\ UNCHANGED <<waiters, sock, sess, stored, appRef, ticker>>
      BY <2>2, <2>4, Zenon DEF GiveUp, coreVars, sockVars
    <3> QED BY <2>1, <2>3, <3>1, StepCore, Zenon DEF PCs
  <2>5. CASE op[w] = "connect_async"
    <3>1. /\ Goto(w, "idle") /\ sock' = [sock EXCEPT ![sess[w]] = "free"]
          /\ UNCHANGED <<waiters, sess, stored, appRef, ticker>>
      BY <2>2, <2>5, Zenon DEF GiveUp, CloseSession, coreVars
    <3> QED BY <2>1, <2>3, <2>5, <3>1, ConnectEnds, Zenon
  <2> QED BY <2>4, <2>5
<1>22. ASSUME NEW w \in Waiters, Abandon(w) \/ Repoll(w) PROVE Core'
  <2>1. /\ Parked(w) /\ pc[w] # "idle" /\ op[w] \in StoringOps /\ Own(w)
        /\ UNCHANGED <<notifyVars, coreVars, sockVars, pc, op, sess>>
    BY <1>22, Zenon DEF Abandon, Repoll, Suspended, Parked, Core, Own
  <2>2. stored' = stored \cup {w} \/ (stored' = stored \ {w} /\ sock[sess[w]] = "open")
    BY <1>22, Zenon DEF Abandon, Repoll
  <2>3. \A v \in Waiters \ {w} : Framed(v)
    BY <2>1, <2>2 DEF Framed, notifyVars, coreVars, sockVars
  <2>4. UNCHANGED <<held, waiters, queued, notified, appRef, ticker, sock, pc, op, sess>>
    BY <2>1, Zenon DEF notifyVars, coreVars, sockVars
  <2>5. Own(w)'
    BY <2>1, <2>2, <2>4, Zenon DEF Own, InWait, Parked, StoringOps
  <2>6. TickerLast'
    BY <2>4 DEF Core, TickerLast
  <2> QED BY <2>1, <2>3, <2>4, <2>5, <2>6, WaiterStep, Zenon
<1>23. CASE UNCHANGED vars
  BY <1>1, <1>23 DEF vars, notifyVars, coreVars, sockVars, opVars
<1> QED
  BY <1>2, <1>3, <1>4, <1>5, <1>6, <1>8, <1>9, <1>10, <1>11, <1>12, <1>14,
     <1>15, <1>16, <1>17, <1>18, <1>19, <1>20, <1>21, <1>22, <1>23
  DEF Next, Vpp, Driver, Ticker, Owner, Run, Caller

LEMMA InvAlways == Spec => [](TypeOK /\ Core)
<1>1. Init => TypeOK /\ Core
  BY TypeInit, CoreInit
<1>2. TypeOK /\ Core /\ [Next]_vars => (TypeOK /\ Core)'
  BY TypeNext, CoreNext
<1> QED BY <1>1, <1>2, PTL DEF Spec

(* A task waiting in wait_event is always parked on the Notify that the      *)
(* reactor's map has for its session, and is still in its FIFO or already    *)
(* signalled: drains and ticks always reach it.                              *)
THEOREM Reachable == Spec => []WaitersReachable
<1>1. TypeOK /\ Core => WaitersReachable
  BY Zenon DEF Core, Own, WaitersReachable
<1> QED BY <1>1, InvAlways, PTL

(* The weakly held periodic task never exits before the last socket is gone, *)
(* and no operation runs on a closed session.                                *)
THEOREM TickerOutlives == Spec => []TickerOutlivesSockets
<1>1. TypeOK /\ Core => TickerOutlivesSockets
  BY Zenon DEF Core, Own, TickerLast, TickerOutlivesSockets
<1> QED BY <1>1, InvAlways, PTL
=============================================================================
