----------------------------- MODULE TickProofs -----------------------------
(***************************************************************************)
(* For any number of sessions, waits and Notify objects: every tick of the *)
(* periodic task signals a wait of every live session that has parked      *)
(* ones.                                                                   *)
(***************************************************************************)
EXTENDS ReactorProofs, FiniteSetTheorems

-----------------------------------------------------------------------------
(* The order of the parked futures.  Each is queued or signalled, not both;  *)
(* those ahead of a queued one are queued on the same Notify, and whoever is *)
(* ahead of them is ahead of it; of two queued on one Notify one is ahead.   *)
QueuedParked ==
    /\ queued \cap notified = {}
    /\ \A w \in queued \cup notified : Parked(w)

QueuesOrdered ==
    \A w \in queued :
        /\ w \notin ahead[w]
        /\ \A v \in ahead[w] : v \in queued /\ held[v] = held[w] /\ ahead[v] \subseteq ahead[w]

QueuesTotal ==
    \A u, v \in queued : held[u] = held[v] => u = v \/ u \in ahead[v] \/ v \in ahead[u]

Fifo == QueuedParked /\ QueuesOrdered /\ QueuesTotal

(* A Notify of the map belongs to one session, and only waits on that        *)
(* session hold it.                                                          *)
MapInjective ==
    \A s, r \in Sessions : waiters[s] = waiters[r] /\ waiters[s] # NoNotify => s = r

HeldBySession ==
    \A w \in Waiters, s \in Sessions :
        InWait(w) /\ waiters[s] # NoNotify /\ held[w] = waiters[s] => sess[w] = s

Map == MapInjective /\ HeldBySession

(* A non-empty FIFO has a head.                                              *)
LEMMA QueueHead ==
    ASSUME TypeOK, Fifo, NEW w \in queued
    PROVE  \E u \in queued : held[u] = held[w] /\ ahead[u] = {}
<1> DEFINE Q == Queue(held[w])
           T == {ahead[u] : u \in Q}
           R == StrictSubsetOrdering(Waiters)
<1>1. Q \subseteq Waiters /\ w \in Q /\ ahead \in [Waiters -> SUBSET Waiters]
  BY DEF Queue, TypeOK, NotifyTypeOK
<1>2. IsWellFoundedOn(R, FiniteSubsetsOf(Waiters))
  BY FS_StrictSubsetOrderingWellFounded
<1>3. T \subseteq FiniteSubsetsOf(Waiters)
  <2> SUFFICES ASSUME NEW u \in Q PROVE ahead[u] \in FiniteSubsetsOf(Waiters)
    OBVIOUS
  <2>1. ahead[u] \in SUBSET Waiters
    BY <1>1
  <2> QED BY <2>1, NotifyAssumption, FS_Subset DEF FiniteSubsetsOf
<1>4. T # {}
  BY <1>1
<1>5. PICK x \in T : \A y \in T : ~(<<y, x>> \in R)
  <2> HIDE DEF T, R
  <2> QED BY <1>2, <1>3, <1>4, WFMin
<1>6. PICK u \in Q : x = ahead[u]
  BY <1>5
<1>7. ASSUME NEW v \in ahead[u] PROVE FALSE
  <2>1. u \in queued /\ held[u] = held[w]
    BY <1>6 DEF Queue
  <2>2. v \in Q /\ ahead[v] \subseteq ahead[u] /\ v \notin ahead[v]
    BY <2>1, <1>7 DEF Fifo, QueuesOrdered, Queue
  <2>3. <<ahead[v], ahead[u]>> \in R
    BY <1>1, <1>6, <1>7, <2>2 DEF StrictSubsetOrdering
  <2>4. ahead[v] \in T
    BY <2>2
  <2> QED BY <1>5, <1>6, <2>3, <2>4
<1> QED BY <1>6, <1>7 DEF Queue

-----------------------------------------------------------------------------
(* Steps that take futures out of the FIFOs.                                 *)
LEMMA FifoShrink ==
    ASSUME TypeOK, Fifo, NEW R, queued' = queued \ R,
           \A v \in queued' : ahead'[v] = ahead[v] \ R /\ held'[v] = held[v],
           queued' \cap notified' = {},
           \A v \in queued' \cup notified' : Parked(v)'
    PROVE  Fifo'
<1>1. QueuedParked'
  BY DEF QueuedParked
<1>2. ASSUME NEW w \in queued', NEW v \in ahead'[w]
      PROVE  v \in queued' /\ held'[v] = held'[w] /\ ahead'[v] \subseteq ahead'[w]
  <2>1. w \in queued /\ v \in ahead[w] /\ v \notin R
    BY <1>2
  <2>2. v \in queued /\ held[v] = held[w] /\ ahead[v] \subseteq ahead[w]
    BY <2>1 DEF Fifo, QueuesOrdered
  <2>3. v \in queued'
    BY <2>1, <2>2
  <2> QED BY <1>2, <2>2, <2>3
<1>3. ASSUME NEW w \in queued' PROVE w \notin ahead'[w]
  BY <1>3 DEF Fifo, QueuesOrdered
<1>4. QueuesOrdered'
  BY <1>2, <1>3 DEF QueuesOrdered
<1>5. QueuesTotal'
  BY DEF Fifo, QueuesTotal
<1> QED BY <1>1, <1>4, <1>5 DEF Fifo

(* Steps that leave the parked futures alone.                                *)
LEMMA FifoFramed ==
    ASSUME TypeOK, Fifo, UNCHANGED <<queued, notified, ahead>>,
           \A v \in queued \cup notified : pc'[v] = pc[v] /\ held'[v] = held[v]
    PROVE  Fifo'
<1>1. queued' = queued \ {} /\ queued' \cap notified' = {}
  BY DEF Fifo, QueuedParked
<1>2. \A v \in queued' : ahead'[v] = ahead[v] \ {} /\ held'[v] = held[v]
  OBVIOUS
<1>3. \A v \in queued' \cup notified' : Parked(v)'
  BY DEF Fifo, QueuedParked, Parked
<1> QED BY <1>1, <1>2, <1>3, FifoShrink, Zenon

(* notify_one on any Notifies.                                               *)
LEMMA FifoNotify ==
    ASSUME TypeOK, Fifo, NEW k, NotifyEach(k), UNCHANGED held,
           \A v \in queued \cup notified : pc'[v] = pc[v]
    PROVE  Fifo'
<1>1. queued \subseteq Waiters
  BY DEF TypeOK, NotifyTypeOK
<1>2. queued' = queued \ Woken(k) /\ notified' = notified \cup Woken(k) /\ Woken(k) \subseteq queued
  BY DEF NotifyEach, Woken
<1>3. \A v \in queued' : ahead'[v] = ahead[v] \ Woken(k) /\ held'[v] = held[v]
  BY <1>1, <1>2 DEF NotifyEach
<1>4. queued' \cap notified' = {}
  BY <1>2 DEF Fifo, QueuedParked
<1>5. \A v \in queued' \cup notified' : Parked(v)'
  BY <1>2 DEF Fifo, QueuedParked, Parked
<1> QED BY <1>2, <1>3, <1>4, <1>5, FifoShrink

(* A Notified future is dropped.                                             *)
LEMMA FifoDrop ==
    ASSUME TypeOK, Fifo, NEW w \in Waiters, DropNotified(w),
           \A v \in Waiters \ {w} : pc'[v] = pc[v] /\ held'[v] = held[v]
    PROVE  Fifo'
<1>1. queued \subseteq Waiters /\ notified \subseteq Waiters /\ queued \cap notified = {}
  BY DEF TypeOK, NotifyTypeOK, Fifo, QueuedParked
<1> DEFINE next == {v \in Queue(held[w]) : ahead[v] = {}}
<1>2. next \subseteq queued
  BY DEF Queue
<1>3. CASE w \in notified
  <2>1. /\ queued' = queued \ next /\ notified' = (notified \ {w}) \cup next
        /\ ahead' = [v \in Waiters |-> ahead[v] \ next]
    BY <1>3 DEF DropNotified
  <2> HIDE DEF next
  <2>2. w \notin queued
    BY <1>1, <1>3
  <2>3. \A v \in queued' : ahead'[v] = ahead[v] \ next /\ held'[v] = held[v]
    BY <1>1, <2>1, <2>2
  <2>4. queued' \cap notified' = {}
    BY <1>1, <2>1
  <2>5. \A v \in queued' \cup notified' : Parked(v)'
    BY <1>1, <1>2, <2>1, <2>2 DEF Fifo, QueuedParked, Parked
  <2> QED BY <2>1, <2>3, <2>4, <2>5, FifoShrink
<1>4. CASE w \notin notified
  <2>1. /\ queued' = queued \ {w} /\ notified' = notified
        /\ ahead' = [v \in Waiters |-> IF v = w THEN {} ELSE ahead[v] \ {w}]
    BY <1>4 DEF DropNotified
  <2>2. \A v \in queued' : ahead'[v] = ahead[v] \ {w} /\ held'[v] = held[v]
    BY <1>1, <2>1
  <2>3. queued' \cap notified' = {}
    BY <1>1, <2>1
  <2>4. \A v \in queued' \cup notified' : Parked(v)'
    BY <1>1, <1>4, <2>1 DEF Fifo, QueuedParked, Parked
  <2> QED BY <2>1, <2>2, <2>3, <2>4, FifoShrink, Zenon
<1> QED BY <1>3, <1>4

(* A future completes.                                                       *)
LEMMA FifoTake ==
    ASSUME TypeOK, Fifo, NEW w \in Waiters,
           (TakePermit(w) /\ ~Parked(w)) \/ TakeNotified(w),
           \A v \in Waiters \ {w} : pc'[v] = pc[v] /\ held'[v] = held[v]
    PROVE  Fifo'
<1>1. queued \subseteq Waiters /\ notified \subseteq Waiters /\ queued \cap notified = {}
  BY DEF TypeOK, NotifyTypeOK, Fifo, QueuedParked
<1>2. w \notin queued /\ UNCHANGED <<queued, ahead>> /\ notified' = notified \ {w}
  BY <1>1 DEF TakePermit, TakeNotified, Fifo, QueuedParked
<1>3. queued' = queued \ {} /\ queued' \cap notified' = {}
  BY <1>1, <1>2
<1>4. \A v \in queued' : ahead'[v] = ahead[v] \ {} /\ held'[v] = held[v]
  BY <1>1, <1>2
<1>5. \A v \in queued' \cup notified' : Parked(v)'
  BY <1>1, <1>2 DEF Fifo, QueuedParked, Parked
<1> QED BY <1>3, <1>4, <1>5, FifoShrink, Zenon

(* A future parks at the back.                                               *)
LEMMA FifoPark ==
    ASSUME TypeOK, Fifo, NEW w \in Waiters, ~Parked(w), Enqueue(w), UNCHANGED held,
           Parked(w)', \A v \in Waiters \ {w} : pc'[v] = pc[v]
    PROVE  Fifo'
<1>1. queued \subseteq Waiters /\ notified \subseteq Waiters /\ queued \cap notified = {}
      /\ w \notin queued \cup notified
  BY DEF TypeOK, NotifyTypeOK, Fifo, QueuedParked
<1>2. /\ queued' = queued \cup {w} /\ notified' = notified
      /\ ahead'[w] = Queue(held[w]) /\ \A v \in Waiters \ {w} : ahead'[v] = ahead[v]
  BY DEF Enqueue, TypeOK, NotifyTypeOK
<1>3. QueuedParked'
  BY <1>1, <1>2 DEF Fifo, QueuedParked, Parked
<1>4. ASSUME NEW u \in queued', NEW v \in ahead'[u]
      PROVE  v \in queued' /\ held'[v] = held'[u] /\ ahead'[v] \subseteq ahead'[u]
  <2>1. CASE u = w
    <3>1. v \in queued /\ held[v] = held[w] /\ v # w
      BY <1>1, <1>2, <1>4, <2>1 DEF Queue
    <3>2. ahead[v] \subseteq Queue(held[w])
      BY <3>1 DEF Fifo, QueuesOrdered, Queue
    <3>3. ahead'[v] = ahead[v] /\ v \in queued'
      BY <1>1, <1>2, <3>1
    <3> QED BY <1>2, <2>1, <3>1, <3>2, <3>3
  <2>2. CASE u # w
    <3>1. u \in queued /\ ahead'[u] = ahead[u]
      BY <1>1, <1>2, <1>4, <2>2
    <3>2. v \in queued /\ held[v] = held[u] /\ ahead[v] \subseteq ahead[u]
      BY <1>4, <3>1 DEF Fifo, QueuesOrdered
    <3>3. ahead'[v] = ahead[v]
      BY <1>1, <1>2, <3>2
    <3> QED BY <1>2, <3>1, <3>2, <3>3
  <2> QED BY <2>1, <2>2
<1>5. ASSUME NEW u \in queued' PROVE u \notin ahead'[u]
  <2>1. CASE u = w
    BY <1>1, <1>2, <2>1 DEF Queue
  <2>2. CASE u # w
    BY <1>1, <1>2, <1>5, <2>2 DEF Fifo, QueuesOrdered
  <2> QED BY <2>1, <2>2
<1>6. QueuesOrdered'
  BY <1>4, <1>5 DEF QueuesOrdered
<1>7. QueuesTotal'
  BY <1>1, <1>2 DEF Fifo, QueuesTotal, Queue
<1> QED BY <1>3, <1>6, <1>7 DEF Fifo

LEMMA FifoNext == TypeOK /\ Core /\ Fifo /\ [Next]_vars => Fifo'
<1> SUFFICES ASSUME TypeOK, Core, Fifo, [Next]_vars PROVE Fifo'
  OBVIOUS
<1>1. \A w \in Waiters : ~Parked(w) => w \notin queued \cup notified
  BY DEF Fifo, QueuedParked
<1>2. queued \subseteq Waiters /\ notified \subseteq Waiters
  BY DEF TypeOK, NotifyTypeOK
<1>3. ASSUME UNCHANGED <<notifyVars, pc>> PROVE Fifo'
  BY <1>3, FifoFramed DEF notifyVars
<1>4. ASSUME NEW w \in Waiters, ~Parked(w), UNCHANGED <<queued, notified, ahead>>,
             \A v \in Waiters \ {w} : pc'[v] = pc[v] /\ held'[v] = held[v]
      PROVE  Fifo'
  BY <1>1, <1>2, <1>4, FifoFramed
<1>5. ASSUME NEW w \in Waiters, NEW l, Goto(w, l)
      PROVE  pc'[w] = l /\ \A v \in Waiters \ {w} : pc'[v] = pc[v]
  BY <1>5, Zenon DEF Goto, TypeOK
<1>6. ASSUME NEW s \in Sessions,
             \/ VppEnqueue(s) \/ VppDequeue(s) \/ (\E c \in {"up", "closed"} : VppTransport(s, c))
             \/ Shutdown(s) \/ (\E k \in {"udp", "listener"} : Bind(s, k)) \/ DropSocket(s)
      PROVE  Fifo'
  BY <1>3, <1>6 DEF VppEnqueue, VppDequeue, VppTransport, Shutdown, Bind, DropSocket, opVars
<1>7. ASSUME IoDriver \/ DropReactor \/ TickExit \/ UNCHANGED vars PROVE Fifo'
  BY <1>3, <1>7 DEF IoDriver, DropReactor, TickExit, vars, opVars
<1>8. ASSUME NEW s \in Sessions, CloseSocket(s) PROVE Fifo'
  <2> DEFINE S == StoredIn(s)
  <2>1. /\ queued' = queued \ S /\ notified' = notified \ S
        /\ ahead' = [v \in Waiters |-> IF v \in S THEN {} ELSE ahead[v] \ S]
    BY <1>8 DEF CloseSocket, DropAll
  <2>2. \A v \in Waiters \ S : pc'[v] = pc[v] /\ held'[v] = held[v]
    BY <1>8 DEF CloseSocket
  <2> HIDE DEF S
  <2>3. \A v \in queued' : ahead'[v] = ahead[v] \ S /\ held'[v] = held[v]
    BY <1>2, <2>1, <2>2
  <2>4. queued' \cap notified' = {} /\ \A v \in queued' \cup notified' : Parked(v)'
    BY <1>2, <2>1, <2>2 DEF Fifo, QueuedParked, Parked
  <2> QED BY <2>1, <2>3, <2>4, FifoShrink, Zenon
<1>9. ASSUME TickDrain \/ TickNotify PROVE Fifo'
  <2>1. PICK k : NotifyEach(k) /\ UNCHANGED <<held, pc>>
    BY <1>9 DEF TickDrain, DrainEvents, TickNotify, opVars
  <2> QED BY <2>1, FifoNotify
<1>10. ASSUME NEW w \in Waiters, NEW s \in Sessions,
              ConnectAsync(w, s) \/ \E k \in OpKinds : Start(w, s, k)
       PROVE  Fifo'
  <2>1. /\ pc[w] = "idle" /\ UNCHANGED notifyVars
        /\ \A v \in Waiters \ {w} : pc'[v] = pc[v]
    BY <1>10 DEF Start, ConnectAsync, TypeOK
  <2> QED BY <1>4, <2>1 DEF notifyVars, Parked
<1>11. ASSUME NEW w \in Waiters,
              \/ TryRead(w) \/ AcceptFails(w) \/ WriteDone(w) \/ WriteMore(w) \/ TryClosed(w)
              \/ TryBlock(w) \/ ClearReady(w) \/ \E c \in Sessions : TryAccept(w, c)
       PROVE  Fifo'
  <2>1. pc[w] \in {"try", "clear"} /\ UNCHANGED notifyVars /\ \E l : Goto(w, l)
    BY <1>11, Zenon DEF TryRead, AcceptFails, WriteDone, WriteMore, Put, TryClosed, TryBlock,
          ClearReady, TryAccept
  <2> QED BY <1>4, <1>5, <2>1, Zenon DEF notifyVars, Parked
<1>12. ASSUME NEW w \in Waiters, WaitEnter(w) PROVE Fifo'
  <2>1. /\ pc[w] = "enter" /\ UNCHANGED <<queued, notified, ahead>>
        /\ Goto(w, "select") /\ \E n : held' = [held EXCEPT ![w] = n]
    BY <1>12 DEF WaitEnter, Entry, InsertNotify
  <2>2. \A v \in Waiters \ {w} : held'[v] = held[v]
    BY <2>1 DEF TypeOK, NotifyTypeOK
  <2> QED BY <1>4, <1>5, <2>1, <2>2 DEF Parked
<1>13. ASSUME NEW w \in Waiters, SelectPark(w) \/ RecheckPark(w) PROVE Fifo'
  <2>1. /\ pc[w] \in {"select", "recheck"} /\ Enqueue(w) /\ UNCHANGED held
        /\ Goto(w, "parked") \/ Goto(w, "rechecking")
    BY <1>13 DEF SelectPark, RecheckPark
  <2>2. ~Parked(w) /\ Parked(w)' /\ \A v \in Waiters \ {w} : pc'[v] = pc[v]
    BY <1>5, <2>1 DEF Parked
  <2> QED BY <2>1, <2>2, FifoPark
<1>14. ASSUME NEW w \in Waiters, SelectNotified(w) \/ RecheckOk(w) PROVE Fifo'
  <2>1. /\ (TakePermit(w) /\ ~Parked(w)) \/ TakeNotified(w)
        /\ ReturnOk(w)
    BY <1>14 DEF SelectNotified, RecheckOk, Parked
  <2>2. \A v \in Waiters \ {w} : held'[v] = held[v]
    BY <2>1 DEF ReturnOk, TypeOK, NotifyTypeOK
  <2>3. \A v \in Waiters \ {w} : pc'[v] = pc[v]
    BY <1>5, <2>1 DEF ReturnOk
  <2> QED BY <2>1, <2>2, <2>3, FifoTake
<1>15. ASSUME NEW w \in Waiters, NEW l, DropNotified(w), Goto(w, l),
              UNCHANGED held \/ held' = [held EXCEPT ![w] = NoNotify]
       PROVE  Fifo'
  <2>1. \A v \in Waiters \ {w} : held'[v] = held[v]
    BY <1>15 DEF TypeOK, NotifyTypeOK
  <2> QED BY <1>5, <1>15, <2>1, FifoDrop
<1>16. ASSUME NEW w \in Waiters,
              SelectMq(w) \/ RecheckElapsed(w) \/ SelectTimeout(w) \/ Cancel(w)
       PROVE  Fifo'
  BY <1>15, <1>16 DEF SelectMq, RecheckElapsed, SelectTimeout, Cancel, GiveUp
<1>17. ASSUME NEW w \in Waiters, WaitDrain(w) PROVE Fifo'
  <2>1. pc[w] = "drain" /\ Goto(w, "clear") /\ UNCHANGED held /\ \E k : NotifyEach(k)
    BY <1>17 DEF WaitDrain, DrainEvents
  <2>2. \A v \in queued \cup notified : pc'[v] = pc[v]
    BY <1>1, <1>2, <1>5, <2>1 DEF Parked
  <2> QED BY <2>1, <2>2, FifoNotify
<1>18. ASSUME NEW w \in Waiters, Abandon(w) \/ Repoll(w) PROVE Fifo'
  BY <1>3, <1>18 DEF Abandon, Repoll
<1> QED
  BY <1>6, <1>7, <1>8, <1>9, <1>10, <1>11, <1>12, <1>13, <1>14, <1>16, <1>17, <1>18, Zenon
  DEF Next, Vpp, Driver, Ticker, Owner, Run, Caller

-----------------------------------------------------------------------------
(* Steps that add no entry to the map and start no wait.                     *)
LEMMA MapShrink ==
    ASSUME Map,
           \A s \in Sessions : waiters'[s] \in {waiters[s], NoNotify},
           \A v \in Waiters : InWait(v)' =>
               InWait(v) /\ sess'[v] = sess[v] /\ held'[v] \in {held[v], NoNotify}
    PROVE  Map'
<1>1. MapInjective'
  BY DEF Map, MapInjective
<1>2. HeldBySession'
  BY DEF Map, HeldBySession
<1> QED BY <1>1, <1>2 DEF Map

LEMMA MapNext == TypeOK /\ Map /\ [Next]_vars => Map'
<1> SUFFICES ASSUME TypeOK, Map, [Next]_vars PROVE Map'
  OBVIOUS
<1>1. ASSUME UNCHANGED <<waiters, held, pc, sess>> PROVE Map'
  BY <1>1, MapShrink DEF InWait
<1>2. ASSUME NEW w \in Waiters, UNCHANGED waiters,
             \A v \in Waiters \ {w} : UNCHANGED <<pc[v], held[v], sess[v]>>,
             InWait(w)' => InWait(w) /\ sess'[w] = sess[w] /\ held'[w] = held[w]
      PROVE  Map'
  <2>1. \A v \in Waiters : InWait(v)' =>
            InWait(v) /\ sess'[v] = sess[v] /\ held'[v] \in {held[v], NoNotify}
    BY <1>2 DEF InWait
  <2> QED BY <1>2, <2>1, MapShrink
<1>3. ASSUME NEW w \in Waiters, NEW l, Goto(w, l), UNCHANGED <<waiters, sess>>,
             \/ UNCHANGED held /\ (l \in {"idle", "try", "enter"} \/ InWait(w))
             \/ held' = [held EXCEPT ![w] = NoNotify] /\ l \in {"idle", "try"}
      PROVE  Map'
  <2>1. pc'[w] = l /\ \A v \in Waiters \ {w} : UNCHANGED <<pc[v], held[v], sess[v]>>
    BY <1>3 DEF Goto, TypeOK, NotifyTypeOK
  <2>2. InWait(w)' => InWait(w) /\ sess'[w] = sess[w] /\ held'[w] = held[w]
    BY <1>3, <2>1, Zenon DEF InWait
  <2> QED BY <1>2, <1>3, <2>1, <2>2
<1>4. ASSUME NEW s \in Sessions,
             \/ VppEnqueue(s) \/ VppDequeue(s) \/ (\E c \in {"up", "closed"} : VppTransport(s, c))
             \/ Shutdown(s) \/ (\E k \in {"udp", "listener"} : Bind(s, k))
      PROVE  Map'
  BY <1>1, <1>4
  DEF VppEnqueue, VppDequeue, VppTransport, Shutdown, Bind, opVars, coreVars, notifyVars
<1>5. ASSUME IoDriver \/ DropReactor \/ TickExit \/ TickDrain \/ TickNotify \/ UNCHANGED vars
      PROVE  Map'
  BY <1>1, <1>5 DEF IoDriver, DropReactor, TickExit, TickDrain, TickNotify, vars, opVars,
     coreVars, notifyVars
<1>6. ASSUME NEW s \in Sessions, DropSocket(s) PROVE Map'
  <2>1. \A r \in Sessions : waiters'[r] \in {waiters[r], NoNotify}
    BY <1>6 DEF DropSocket, Deregister, TypeOK
  <2>2. UNCHANGED <<held, pc, sess>>
    BY <1>6, Zenon DEF DropSocket, opVars, notifyVars
  <2> QED BY <2>1, <2>2, MapShrink DEF InWait
<1>7. ASSUME NEW s \in Sessions, CloseSocket(s) PROVE Map'
  <2>1. UNCHANGED <<waiters, sess>>
    BY <1>7 DEF CloseSocket, coreVars
  <2>2. \A v \in Waiters : InWait(v)' => InWait(v) /\ held'[v] = held[v]
    BY <1>7 DEF CloseSocket, InWait
  <2> QED BY <2>1, <2>2, MapShrink
<1>8. ASSUME NEW w \in Waiters, NEW s \in Sessions,
             ConnectAsync(w, s) \/ \E k \in OpKinds : Start(w, s, k)
      PROVE  Map'
  <2>1. /\ UNCHANGED <<waiters, held>> /\ pc'[w] \in {"try", "enter"}
        /\ \A v \in Waiters \ {w} : pc'[v] = pc[v] /\ sess'[v] = sess[v]
    BY <1>8 DEF Start, ConnectAsync, TypeOK, coreVars, notifyVars
  <2> QED BY <1>2, <2>1 DEF InWait
<1>9. ASSUME NEW w \in Waiters,
             \/ TryRead(w) \/ AcceptFails(w) \/ WriteDone(w) \/ WriteMore(w) \/ TryClosed(w)
             \/ TryBlock(w) \/ \E c \in Sessions : TryAccept(w, c)
      PROVE  Map'
  <2>1. /\ UNCHANGED <<waiters, held, sess>>
        /\ Goto(w, "idle") \/ Goto(w, "try") \/ Goto(w, "enter")
    BY <1>9, Zenon DEF TryRead, AcceptFails, WriteDone, WriteMore, Put, TryClosed, TryBlock,
          TryAccept, coreVars, notifyVars
  <2> QED BY <1>3, <2>1
<1>10. ASSUME NEW w \in Waiters, WaitEnter(w) PROVE Map'
  <2>1. /\ sess'[w] = sess[w] /\ sess[w] \in Sessions
        /\ \A v \in Waiters \ {w} : UNCHANGED <<pc[v], held[v], sess[v]>>
    BY <1>10 DEF WaitEnter, Goto, Entry, InsertNotify, TypeOK, NotifyTypeOK
  <2>2. CASE waiters[sess[w]] = NoNotify
    <3>1. PICK n \in NotifyIds : /\ IsFresh(n) /\ waiters' = [waiters EXCEPT ![sess[w]] = n]
                                 /\ held' = [held EXCEPT ![w] = n]
      BY <1>10, <2>2, Zenon DEF WaitEnter, Entry, InsertNotify
    <3>2. waiters'[sess[w]] = n /\ \A s \in Sessions \ {sess[w]} : waiters'[s] = waiters[s]
      BY <2>1, <3>1 DEF TypeOK
    <3>3. held'[w] = n
      BY <3>1 DEF TypeOK, NotifyTypeOK
    <3>4. MapInjective'
      BY <3>1, <3>2 DEF Map, MapInjective, IsFresh
    <3>5. HeldBySession'
      BY <2>1, <3>1, <3>2, <3>3 DEF Map, HeldBySession, IsFresh, InWait
    <3> QED BY <3>4, <3>5 DEF Map
  <2>3. CASE waiters[sess[w]] # NoNotify
    <3>1. held'[w] = waiters[sess[w]] /\ UNCHANGED waiters
      BY <1>10, <2>3 DEF WaitEnter, Entry, TypeOK, NotifyTypeOK
    <3>2. MapInjective'
      BY <3>1 DEF Map, MapInjective
    <3>3. HeldBySession'
      BY <2>1, <3>1 DEF Map, HeldBySession, MapInjective, InWait
    <3> QED BY <3>2, <3>3 DEF Map
  <2> QED BY <2>2, <2>3
<1>11. ASSUME NEW w \in Waiters, SelectNotified(w) \/ RecheckOk(w) PROVE Map'
  BY <1>3, <1>11 DEF SelectNotified, RecheckOk, ReturnOk, coreVars
<1>12. ASSUME NEW w \in Waiters,
              \/ SelectPark(w) \/ RecheckPark(w) \/ RecheckElapsed(w) \/ SelectMq(w)
              \/ WaitDrain(w) \/ ClearReady(w)
       PROVE  Map'
  <2>1. InWait(w) /\ UNCHANGED <<waiters, held, sess>> /\ \E l : Goto(w, l)
    BY <1>12 DEF SelectPark, RecheckPark, RecheckElapsed, SelectMq, WaitDrain, ClearReady,
          InWait, coreVars, notifyVars
  <2> QED BY <1>3, <2>1
<1>13. ASSUME NEW w \in Waiters, SelectTimeout(w) \/ Cancel(w) PROVE Map'
  BY <1>3, <1>13, Zenon DEF SelectTimeout, Cancel, GiveUp, coreVars
<1>14. ASSUME NEW w \in Waiters, Abandon(w) \/ Repoll(w) PROVE Map'
  BY <1>1, <1>14 DEF Abandon, Repoll, coreVars, notifyVars
<1> QED
  BY <1>4, <1>5, <1>6, <1>7, <1>8, <1>9, <1>10, <1>11, <1>12, <1>13, <1>14, Zenon
  DEF Next, Vpp, Driver, Ticker, Owner, Run, Caller

-----------------------------------------------------------------------------
LEMMA QueuesInit == Init => Fifo /\ Map
<1> SUFFICES ASSUME Init PROVE Fifo /\ Map
  OBVIOUS
<1>1. queued = {} /\ notified = {} /\ \A w \in Waiters : pc[w] = "idle"
  BY DEF Init, NotifyInit
<1>2. \A s \in Sessions : waiters[s] = NoNotify
  BY DEF Init
<1>3. Fifo
  BY <1>1 DEF Fifo, QueuedParked, QueuesOrdered, QueuesTotal
<1>4. Map
  BY <1>1, <1>2 DEF Map, MapInjective, HeldBySession
<1> QED BY <1>3, <1>4

LEMMA QueuesAlways == Spec => [](TypeOK /\ Core /\ Fifo /\ Map)
<1>1. Init => TypeOK /\ Core /\ Fifo /\ Map
  BY TypeInit, CoreInit, QueuesInit
<1>2. TypeOK /\ Core /\ Fifo /\ Map /\ [Next]_vars => (TypeOK /\ Core /\ Fifo /\ Map)'
  BY TypeNext, CoreNext, FifoNext, MapNext
<1> QED BY <1>1, <1>2, PTL DEF Spec

(* Only the second half of a tick takes the ticker back to sleep.            *)
LEMMA TickStep ==
    ASSUME TypeOK, Next, ticker = "notify", ticker' = "sleeping" PROVE TickNotify
<1>1. UNCHANGED ticker => FALSE
  OBVIOUS
<1>2. ASSUME NEW w \in Waiters, Run(w) \/ Caller(w) PROVE FALSE
  <2>1. CASE Caller(w)
    BY <1>1, <2>1, Zenon DEF Caller, Start, ConnectAsync, SelectTimeout, Cancel, GiveUp, Abandon,
       Repoll, coreVars
  <2>2. CASE Run(w)
    BY <1>1, <2>2, Zenon DEF Run, TryRead, WriteDone, WriteMore, Put, TryClosed, TryBlock, AcceptFails,
       TryAccept, WaitEnter, SelectPark, SelectNotified, SelectMq, WaitDrain, ClearReady,
       RecheckOk, RecheckPark, RecheckElapsed, ReturnOk, coreVars
  <2> QED BY <1>2, <2>1, <2>2
<1>3. ASSUME Vpp \/ Driver \/ Owner PROVE FALSE
  BY <1>1, <1>3, Zenon DEF Vpp, VppEnqueue, VppDequeue, VppTransport, Driver, IoDriver, Owner,
     DropReactor, Bind, Shutdown, DropSocket, CloseSocket, coreVars
<1> QED BY <1>2, <1>3 DEF Next, Ticker, TickDrain, TickExit

(* Every tick of the periodic task signals a wait of every live session that *)
(* has parked ones, whatever order waits have parked, been signalled and     *)
(* been dropped in, and however many share the session's Notify.             *)
THEOREM TickWakesAlways == Spec => TickWakes
<1> DEFINE Step == ticker = "notify" /\ ticker' = "sleeping" =>
                      \A w \in Waiters :
                         Parked(w) /\ sock[sess[w]] # "dropping" =>
                             \E v \in notified' : sess[v] = sess[w]
<1>1. ASSUME TypeOK, Core, Fifo, Map, Next, ticker = "notify", ticker' = "sleeping",
             NEW w \in Waiters, Parked(w), sock[sess[w]] # "dropping"
      PROVE  \E v \in notified' : sess[v] = sess[w]
  <2> DEFINE n == held[w]
             k == [m \in NotifyIds |-> Cardinality(EntriesFor(m))]
  <2>1. notified' = notified \cup Woken(k)
    BY <1>1, TickStep DEF TickNotify, NotifyEach
  <2>2. CASE w \in notified
    BY <2>1, <2>2
  <2>3. CASE w \notin notified
    <3>1. n = waiters[sess[w]] /\ n # NoNotify /\ w \in queued /\ sess[w] \in Sessions
      BY <1>1, <2>3 DEF Core, Own, InWait, Parked, TypeOK
    <3>2. n \in NotifyIds
      BY <1>1, <3>1 DEF TypeOK, NotifyTypeOK
    <3>3. PICK u \in queued : held[u] = n /\ ahead[u] = {}
      BY <1>1, <3>1, QueueHead
    <3>4. Cardinality(EntriesFor(n)) \in Nat \ {0}
      <4>1. IsFiniteSet(EntriesFor(n))
        BY ReactorAssumption, FS_Subset DEF EntriesFor
      <4>2. EntriesFor(n) # {}
        BY <3>1 DEF EntriesFor
      <4> QED BY <4>1, <4>2, FS_CardinalityType, FS_EmptySet
    <3>5. Cardinality(ahead[u]) < k[held[u]]
      BY <3>2, <3>3, <3>4, FS_EmptySet
    <3>6. u \in notified'
      BY <2>1, <3>3, <3>5 DEF Woken
    <3>7. u \in Waiters /\ InWait(u)
      BY <1>1, <3>3 DEF TypeOK, NotifyTypeOK, Fifo, QueuedParked, Parked, InWait
    <3>8. sess[u] = sess[w]
      BY <1>1, <3>1, <3>3, <3>7 DEF Map, HeldBySession
    <3> QED BY <3>6, <3>8
  <2> QED BY <2>2, <2>3
<1>2. TypeOK /\ Core /\ Fifo /\ Map /\ [Next]_vars => [Step]_vars
  BY <1>1
<1>3. Spec => [][Step]_vars
  BY <1>2, QueuesAlways, PTL DEF Spec
<1> QED BY <1>3 DEF TickWakes
=============================================================================
