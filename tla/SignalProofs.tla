---------------------------- MODULE SignalProofs ----------------------------
(***************************************************************************)
(* For any number of sessions, waits and Notify objects: Reactor, with its *)
(* map of Arc<Notify>, implements WaitSignals.                             *)
(***************************************************************************)
EXTENDS TickProofs

(* Deregister comes first in a Drop: a dropped socket has no entry.          *)
Dropped == \A s \in Sessions : sock[s] = "dropping" => waiters[s] = NoNotify

LEMMA DroppedNext == TypeOK /\ Core /\ Dropped /\ [Next]_vars => Dropped'
<1> SUFFICES ASSUME TypeOK, Core, Dropped, [Next]_vars PROVE Dropped'
  OBVIOUS
<1>1. ASSUME UNCHANGED <<waiters, sock>> PROVE Dropped'
  BY <1>1 DEF Dropped
<1>2. ASSUME NEW s \in Sessions, NEW x \in {"free", "connecting", "open"},
             sock' = [sock EXCEPT ![s] = x], UNCHANGED waiters
      PROVE  Dropped'
  BY <1>2 DEF Dropped, TypeOK
<1>3. ASSUME NEW s \in Sessions, DropSocket(s) PROVE Dropped'
  BY <1>3 DEF DropSocket, Deregister, Dropped, TypeOK
<1>4. ASSUME NEW s \in Sessions, CloseSocket(s) PROVE Dropped'
  BY <1>2, <1>4, Zenon DEF CloseSocket, CloseSession, coreVars
<1>5. ASSUME NEW s \in Sessions, \E k \in {"udp", "listener"} : Bind(s, k) PROVE Dropped'
  BY <1>2, <1>5, Zenon DEF Bind, CreateAndRegister, coreVars
<1>6. ASSUME NEW w \in Waiters, NEW s \in Sessions, TryAccept(w, s) \/ ConnectAsync(w, s)
      PROVE  Dropped'
  BY <1>2, <1>6 DEF TryAccept, ConnectAsync, CreateAndRegister, coreVars
<1>7. ASSUME NEW w \in Waiters,
             SelectNotified(w) \/ RecheckOk(w) \/ SelectTimeout(w) \/ Cancel(w)
      PROVE  Dropped'
  <2>1. UNCHANGED waiters /\ sess[w] \in Sessions
    BY <1>7 DEF SelectNotified, RecheckOk, SelectTimeout, Cancel, ReturnOk, GiveUp, coreVars, TypeOK
  <2>2. \/ UNCHANGED sock \/ sock' = [sock EXCEPT ![sess[w]] = "open"]
        \/ sock' = [sock EXCEPT ![sess[w]] = "free"]
    BY <1>7 DEF SelectNotified, RecheckOk, SelectTimeout, Cancel, ReturnOk, GiveUp, CloseSession,
       sockVars
  <2> QED BY <1>1, <1>2, <2>1, <2>2
<1>8. ASSUME NEW w \in Waiters, WaitEnter(w) PROVE Dropped'
  <2>1. pc[w] = "enter" /\ UNCHANGED sock /\ \E n : waiters' = [waiters EXCEPT ![sess[w]] = n]
    <3>1. waiters = [waiters EXCEPT ![sess[w]] = waiters[sess[w]]]
      BY DEF TypeOK
    <3> QED BY <1>8, <3>1 DEF WaitEnter, Entry, InsertNotify, sockVars
  <2>2. sock[sess[w]] # "dropping"
    BY <2>1 DEF Core, Own, Parked
  <2> QED BY <2>1, <2>2 DEF Dropped, TypeOK
<1>9. ASSUME NEW s \in Sessions,
             \/ VppEnqueue(s) \/ VppDequeue(s) \/ (\E c \in {"up", "closed"} : VppTransport(s, c))
             \/ Shutdown(s)
      PROVE  Dropped'
  BY <1>1, <1>9 DEF VppEnqueue, VppDequeue, VppTransport, Shutdown, coreVars, sockVars
<1>10. ASSUME IoDriver \/ DropReactor \/ TickExit \/ TickDrain \/ TickNotify \/ UNCHANGED vars
       PROVE  Dropped'
  BY <1>1, <1>10 DEF IoDriver, DropReactor, TickExit, TickDrain, TickNotify, vars, coreVars, sockVars
<1>11. ASSUME NEW w \in Waiters,
              \/ (\E s \in Sessions, k \in OpKinds : Start(w, s, k)) \/ Abandon(w) \/ Repoll(w)
              \/ TryRead(w) \/ AcceptFails(w) \/ WriteDone(w) \/ WriteMore(w) \/ TryClosed(w)
              \/ TryBlock(w) \/ SelectPark(w) \/ SelectMq(w) \/ WaitDrain(w) \/ ClearReady(w)
              \/ RecheckPark(w) \/ RecheckElapsed(w)
       PROVE  Dropped'
  BY <1>1, <1>11, Zenon DEF Start, Abandon, Repoll, TryRead, AcceptFails, WriteDone, WriteMore, Put,
     TryClosed, TryBlock, SelectPark, SelectMq, WaitDrain, ClearReady, RecheckPark, RecheckElapsed,
     coreVars, sockVars
<1> QED
  BY <1>3, <1>4, <1>5, <1>6, <1>7, <1>8, <1>9, <1>10, <1>11, Zenon
  DEF Next, Vpp, Driver, Ticker, Owner, Run, Caller

Good == TypeOK /\ Core /\ Fifo /\ Map /\ Dropped

LEMMA GoodAlways == Spec => []Good
<1>1. Init => Dropped
  BY DEF Init, Dropped
<1>2. Dropped /\ TypeOK /\ Core /\ [Next]_vars => Dropped'
  BY DroppedNext
<1> QED BY <1>1, <1>2, QueuesAlways, PTL DEF Spec, Good

-----------------------------------------------------------------------------
(* Without connect_async no entry of the map outlives its session.           *)
NoConnect == \A w \in Waiters : op[w] # "connect_async"

LEMMA NoConnectNext ==
    ASSUME TypeOK, NoConnect, "connect_async" \notin OpKinds, [Next]_vars
    PROVE  NoConnect'
<1>1. ASSUME UNCHANGED op PROVE NoConnect'
  BY <1>1 DEF NoConnect
<1>2. ASSUME NEW w \in Waiters, NEW k \in OpKinds \cup {NoOp, op[w]}, op' = [op EXCEPT ![w] = k]
      PROVE  NoConnect'
  BY <1>2 DEF NoConnect, NoOp, TypeOK
<1>3. ASSUME NEW w \in Waiters, NEW l, Goto(w, l) PROVE NoConnect'
  BY <1>2, <1>3, Zenon DEF Goto
<1>4. ASSUME NEW w \in Waiters, Run(w) PROVE NoConnect'
  BY <1>3, <1>4, Zenon DEF Run, TryRead, WriteDone, WriteMore, TryClosed, TryBlock, AcceptFails,
     TryAccept, WaitEnter, SelectPark, SelectNotified, SelectMq, WaitDrain, ClearReady, RecheckOk,
     RecheckPark, RecheckElapsed, ReturnOk
<1>5. ASSUME NEW w \in Waiters, Caller(w) PROVE NoConnect'
  <2>1. CASE \E s \in Sessions, k \in OpKinds : Start(w, s, k)
    BY <1>2, <2>1, Zenon DEF Start
  <2>2. CASE SelectTimeout(w) \/ Cancel(w)
    BY <1>3, <2>2, Zenon DEF SelectTimeout, Cancel, GiveUp
  <2>3. CASE Abandon(w) \/ Repoll(w)
    BY <1>1, <2>3 DEF Abandon, Repoll
  <2> QED BY <1>5, <2>1, <2>2, <2>3 DEF Caller, ConnectAsync
<1>6. ASSUME NEW s \in Sessions, CloseSocket(s) PROVE NoConnect'
  BY <1>6 DEF CloseSocket, NoConnect, NoOp
<1>7. ASSUME Vpp \/ Driver \/ Ticker \/ Owner \/ UNCHANGED vars PROVE NoConnect'
  BY <1>1, <1>6, <1>7, Zenon DEF Vpp, Driver, Ticker, Owner, VppEnqueue, VppDequeue, VppTransport,
     IoDriver, TickDrain, TickNotify, TickExit, DropReactor, Bind, Shutdown, DropSocket, vars, opVars
<1> QED BY <1>4, <1>5, <1>7 DEF Next

LEMMA NoLeakNext ==
    ASSUME Good, NoConnect, NoWaiterLeak, "connect_async" \notin OpKinds, [Next]_vars
    PROVE  NoWaiterLeak'
<1> USE DEF Good
<1>1. ASSUME UNCHANGED <<waiters, sock>> PROVE NoWaiterLeak'
  BY <1>1 DEF NoWaiterLeak
<1>2. ASSUME NEW s \in Sessions, sock' = [sock EXCEPT ![s] = "open"], UNCHANGED waiters
      PROVE  NoWaiterLeak'
  BY <1>2 DEF NoWaiterLeak, TypeOK
<1>3. ASSUME NEW s \in Sessions, DropSocket(s) PROVE NoWaiterLeak'
  BY <1>3 DEF DropSocket, Deregister, NoWaiterLeak, TypeOK
<1>4. ASSUME NEW s \in Sessions, CloseSocket(s) PROVE NoWaiterLeak'
  BY <1>4 DEF CloseSocket, CloseSession, NoWaiterLeak, Dropped, coreVars, TypeOK
<1>5. ASSUME NEW s \in Sessions, \E k \in {"udp", "listener"} : Bind(s, k) PROVE NoWaiterLeak'
  BY <1>2, <1>5, Zenon DEF Bind, CreateAndRegister, coreVars
<1>6. ASSUME NEW w \in Waiters, WaitEnter(w) PROVE NoWaiterLeak'
  <2>1. pc[w] = "enter" /\ UNCHANGED sock /\ \E n : waiters' = [waiters EXCEPT ![sess[w]] = n]
    <3>1. waiters = [waiters EXCEPT ![sess[w]] = waiters[sess[w]]]
      BY DEF TypeOK
    <3> QED BY <1>6, <3>1 DEF WaitEnter, Entry, InsertNotify, sockVars
  <2>2. sock[sess[w]] # "free"
    BY <2>1 DEF Core, Own
  <2> QED BY <2>1, <2>2 DEF NoWaiterLeak, TypeOK
<1>7. ASSUME NEW w \in Waiters, NEW s \in Sessions, TryAccept(w, s) PROVE NoWaiterLeak'
  BY <1>2, <1>7, Zenon DEF TryAccept, CreateAndRegister, coreVars
<1>8. ASSUME NEW w \in Waiters,
             SelectNotified(w) \/ RecheckOk(w) \/ SelectTimeout(w) \/ Cancel(w)
      PROVE  NoWaiterLeak'
  <2>1. op[w] # "connect_async"
    BY DEF NoConnect
  <2> QED
    BY <1>1, <1>8, <2>1 DEF SelectNotified, RecheckOk, SelectTimeout, Cancel, ReturnOk, GiveUp,
       coreVars, sockVars
<1>9. ASSUME NEW w \in Waiters, Run(w) PROVE NoWaiterLeak'
  <2>1. CASE \/ TryRead(w) \/ AcceptFails(w) \/ WriteDone(w) \/ WriteMore(w) \/ TryClosed(w)
             \/ TryBlock(w) \/ SelectPark(w) \/ SelectMq(w) \/ WaitDrain(w) \/ ClearReady(w)
             \/ RecheckPark(w) \/ RecheckElapsed(w)
    BY <1>1, <2>1, Zenon DEF TryRead, AcceptFails, WriteDone, WriteMore, Put, TryClosed, TryBlock,
       SelectPark, SelectMq, WaitDrain, ClearReady, RecheckPark, RecheckElapsed, coreVars, sockVars
  <2> QED BY <1>6, <1>7, <1>8, <1>9, <2>1, Zenon DEF Run
<1>10. ASSUME NEW w \in Waiters, Caller(w) PROVE NoWaiterLeak'
  <2>1. CASE (\E s \in Sessions, k \in OpKinds : Start(w, s, k)) \/ Abandon(w) \/ Repoll(w)
    BY <1>1, <2>1, Zenon DEF Start, Abandon, Repoll, coreVars, sockVars
  <2> QED BY <1>8, <1>10, <2>1, Zenon DEF Caller, ConnectAsync
<1>11. ASSUME Vpp \/ Driver \/ Ticker \/ UNCHANGED vars PROVE NoWaiterLeak'
  BY <1>1, <1>11, Zenon DEF Vpp, Driver, Ticker, VppEnqueue, VppDequeue, VppTransport, IoDriver,
     TickDrain, TickNotify, TickExit, vars, coreVars, sockVars
<1>12. ASSUME Owner PROVE NoWaiterLeak'
  BY <1>1, <1>3, <1>4, <1>5, <1>12, Zenon DEF Owner, DropReactor, Shutdown, coreVars, sockVars
<1> QED BY <1>9, <1>10, <1>11, <1>12 DEF Next

(* A program that never calls connect_async leaks no entry of the waiters    *)
(* map (reactor.rs:229-240, 258-264): each is removed by its socket's Drop,  *)
(* before libvppcom can hand the session's handle out again.                 *)
THEOREM LeaksOnlyByConnect == Spec => []LeakOnlyByConnect
<1> DEFINE Entries == "connect_async" \notin OpKinds => NoConnect /\ NoWaiterLeak
<1>1. Init => Entries
  BY DEF Init, NoConnect, NoWaiterLeak, NoOp
<1>2. Good /\ Entries /\ [Next]_vars => Entries'
  BY NoConnectNext, NoLeakNext DEF Good
<1>3. Entries => LeakOnlyByConnect
  BY DEF LeakOnlyByConnect
<1> QED BY <1>1, <1>2, <1>3, GoodAlways, PTL DEF Spec

-----------------------------------------------------------------------------
(* Who waits on what.                                                        *)
LEMMA SameWaits ==
    ASSUME \A w \in Waiters : (InWait(w)' <=> InWait(w)) /\ (InWait(w) => sess'[w] = sess[w])
    PROVE  Waits' = Waits
<1>1. \A s \in Sessions : {w \in Waiters : InWait(w)' /\ sess'[w] = s}
                              = {w \in Waiters : InWait(w) /\ sess[w] = s}
  OBVIOUS
<1> QED BY <1>1, Zenon DEF Waits

LEMMA LeaveWait ==
    ASSUME TypeOK, NEW w \in Waiters, InWait(w), ~InWait(w)', UNCHANGED sess,
           \A v \in Waiters \ {w} : pc'[v] = pc[v]
    PROVE  Signals!Leave(w, sess[w])
<1> DEFINE s == sess[w]
<1>1. \A v \in Waiters \ {w} : InWait(v)' <=> InWait(v)
  BY DEF InWait
<1>2. \A r \in Sessions : {v \in Waiters : InWait(v)' /\ sess'[v] = r}
          = IF r = s THEN {v \in Waiters : InWait(v) /\ sess[v] = r} \ {w}
                     ELSE {v \in Waiters : InWait(v) /\ sess[v] = r}
  BY <1>1
<1>3. s \in Sessions /\ w \in Waits[s]
  BY DEF TypeOK, Waits
<1>4. Waits' = [Waits EXCEPT ![s] = @ \ {w}]
  <2>1. \A r \in Sessions : Waits'[r] = IF r = s THEN Waits[r] \ {w} ELSE Waits[r]
    BY <1>2, Zenon DEF Waits
  <2>2. Waits' = [r \in Sessions |-> Waits'[r]] /\ Waits = [r \in Sessions |-> Waits[r]]
    BY DEF Waits
  <2> HIDE DEF s
  <2> QED BY <1>3, <2>1, <2>2
<1> QED BY <1>3, <1>4 DEF Signals!Leave

LEMMA WaitingOn ==
    ASSUME TypeOK, NEW w \in Waiters, NEW s \in Sessions
    PROVE  w \in Waits[s] <=> InWait(w) /\ sess[w] = s
BY DEF Waits

(* A polled wait is on a live session and holds the Notify of the map.       *)
LEMMA WaitLive ==
    ASSUME TypeOK, Core, NEW w \in Waiters, InWait(w), w \notin stored
    PROVE  /\ sess[w] \in Live /\ sess[w] \in Sessions
           /\ held[w] = waiters[sess[w]] /\ held[w] # NoNotify /\ held[w] \in NotifyIds
<1>1. Own(w) /\ pc[w] # "idle"
  BY DEF Core, InWait
<1>2. sess[w] \in Sessions /\ held[w] \in NotifyIds \cup {NoNotify}
  BY DEF TypeOK, NotifyTypeOK
<1> QED BY <1>1, <1>2 DEF Own, Live

-----------------------------------------------------------------------------
(* Signals handed on, taken and posted.                                      *)
LEMMA DropHandsOn ==
    ASSUME Good, NEW w \in Waiters, InWait(w), w \notin stored, DropNotified(w), UNCHANGED waiters
    PROVE  Signals!HandOn(w, sess[w])
<1> DEFINE s == sess[w]
           n == held[w]
           next == {v \in Queue(n) : ahead[v] = {}}
<1>1. s \in Live /\ s \in Sessions /\ n = waiters[s] /\ n # NoNotify /\ n \in NotifyIds
  BY WaitLive DEF Good
<1>2. CASE w \notin notified
  BY <1>2 DEF DropNotified, Signals!HandOn, Kept
<1>3. CASE w \in notified /\ next = {}
  <2>1. permit' = [permit EXCEPT ![n] = TRUE] /\ notified' = notified \ {w}
    <3>1. permit' = [permit EXCEPT ![n] = @ \/ next = {}] /\ notified' = (notified \ {w}) \cup next
      BY <1>3 DEF DropNotified
    <3> HIDE DEF next
    <3> QED BY <1>3, <3>1, Zenon
  <2>2. permit'[n] /\ \A m \in NotifyIds \ {n} : permit'[m] = permit[m]
    BY <1>1, <2>1 DEF Good, TypeOK, NotifyTypeOK
  <2>3. \A r \in Sessions \ {s} : waiters[r] # n /\ waiters[r] \in NotifyIds \cup {NoNotify}
    BY <1>1 DEF Good, Map, MapInjective, TypeOK
  <2>4. Kept' = Kept \cup {s}
    BY <1>1, <2>2, <2>3, Zenon DEF Kept
  <2> QED BY <1>3, <2>1, <2>4 DEF Signals!HandOn
<1>4. CASE w \in notified /\ next # {}
  <2>1. PICK v \in queued : held[v] = n /\ ahead[v] = {}
    BY <1>4 DEF Queue
  <2>2. v \in Waiters /\ InWait(v) /\ v \notin notified
    BY <2>1 DEF Good, TypeOK, NotifyTypeOK, Fifo, QueuedParked, Parked, InWait
  <2>3. v \in Waits[s]
    BY <1>1, <2>1, <2>2, WaitingOn DEF Good, Map, HeldBySession
  <2>4. next = {v}
    BY <2>1 DEF Good, Fifo, QueuesTotal, Queue
  <2>5. permit' = permit
    <3>1. permit' = [permit EXCEPT ![n] = @ \/ next = {}]
      BY <1>4 DEF DropNotified
    <3>2. next # {}
      BY <1>4
    <3> HIDE DEF next
    <3>3. permit[n] \in BOOLEAN /\ permit \in [NotifyIds -> BOOLEAN]
      BY <1>1 DEF Good, TypeOK, NotifyTypeOK
    <3>4. (permit[n] \/ next = {}) = permit[n]
      BY <3>2, <3>3
    <3>5. permit' = [permit EXCEPT ![n] = permit[n]]
      BY <3>1, <3>4, Zenon
    <3> QED BY <3>3, <3>5
  <2>6. notified' = (notified \ {w}) \cup {v}
    <3>1. notified' = (notified \ {w}) \cup next
      BY <1>4 DEF DropNotified
    <3> HIDE DEF next
    <3> QED BY <2>4, <3>1
  <2>7. Kept' = Kept
    BY <2>5 DEF Kept
  <2> HIDE DEF next
  <2> QED BY <1>4, <2>2, <2>3, <2>6, <2>7 DEF Signals!HandOn
<1> QED BY <1>2, <1>3, <1>4

(* notify_one for Notifies of the map.                                       *)
LEMMA NotifySignals ==
    ASSUME Good, NEW k, NotifyEach(k), UNCHANGED <<waiters, sock>>, Waits' = Waits,
           \A n \in NotifyIds : k[n] \in Nat /\ (k[n] # 0 => \E s \in Sessions : waiters[s] = n)
    PROVE  Signals!Signal
<1>1. ASSUME NEW w \in Woken(k) PROVE \E s \in Live : w \in Waits[s]
  <2>1. w \in queued /\ w \in Waiters /\ InWait(w) /\ Cardinality(ahead[w]) < k[held[w]]
    BY DEF Woken, Good, TypeOK, NotifyTypeOK, Fifo, QueuedParked, Parked, InWait
  <2>2. Own(w) /\ held[w] \in NotifyIds /\ ahead[w] \in SUBSET Waiters
    BY <2>1 DEF Good, Core, Own, TypeOK, NotifyTypeOK
  <2>3. Cardinality(ahead[w]) \in Nat
    BY <2>2, NotifyAssumption, FS_Subset, FS_CardinalityType
  <2>4. k[held[w]] # 0
    BY <2>1, <2>2, <2>3
  <2>5. PICK s \in Sessions : waiters[s] = held[w]
    BY <2>2, <2>4
  <2>6. sess[w] = s /\ waiters[s] # NoNotify
    BY <2>1, <2>2, <2>5 DEF Good, Map, HeldBySession, Own
  <2>7. sock[s] # "dropping" /\ sock[s] # "free"
    BY <2>1, <2>2, <2>6 DEF Good, Dropped, Own, InWait
  <2>8. s \in Live
    BY <2>7 DEF Live, Good, TypeOK
  <2> QED BY <2>1, <2>6, <2>8, WaitingOn DEF Good
<1>2. notified' = notified \cup Woken(k) /\ Woken(k) \in SUBSET UNION {Waits[s] : s \in Live}
  BY <1>1 DEF NotifyEach
<1>3. \A n \in NotifyIds : permit[n] => permit'[n]
  BY Zenon DEF NotifyEach
<1>4. \A s \in Sessions : waiters[s] # NoNotify => waiters[s] \in NotifyIds
  BY DEF Good, TypeOK
<1>5. Kept \subseteq Kept' /\ Kept' \subseteq Sessions
  BY <1>3, <1>4, Zenon DEF Kept
<1>6. Kept' = Kept \cup (Kept' \ Kept) /\ Kept' \ Kept \in SUBSET Sessions
  BY <1>5
<1>7. Live' = Live
  BY DEF Live
<1> QED BY <1>2, <1>6, <1>7, Zenon DEF Signals!Signal

LEMMA SomeEvent ==
    ASSUME TypeOK, NEW n \in NotifyIds
    PROVE  /\ Cardinality(EventsFor(n)) \in Nat
           /\ Cardinality(EventsFor(n)) # 0 => \E s \in Sessions : waiters[s] = n
<1>1. IsFiniteSet({"in", "out"})
  <2>1. IsFiniteSet({} \cup {"in"})
    BY FS_EmptySet, FS_AddElement
  <2>2. IsFiniteSet(({} \cup {"in"}) \cup {"out"})
    BY <2>1, FS_AddElement
  <2>3. ({} \cup {"in"}) \cup {"out"} = {"in", "out"}
    OBVIOUS
  <2> QED BY <2>2, <2>3
<1>2. IsFiniteSet(Sessions \X {"in", "out"})
  BY <1>1, ReactorAssumption, FS_Product
<1>3. IsFiniteSet(EventsFor(n))
  BY <1>2, FS_Subset DEF EventsFor, TypeOK
<1>4. EventsFor(n) # {} => \E s \in Sessions : waiters[s] = n
  BY DEF EventsFor, TypeOK
<1> QED BY <1>3, <1>4, FS_CardinalityType, FS_EmptySet

LEMMA SomeEntry ==
    ASSUME NEW n
    PROVE  /\ Cardinality(EntriesFor(n)) \in Nat
           /\ Cardinality(EntriesFor(n)) # 0 <=> \E s \in Sessions : waiters[s] = n
<1>1. IsFiniteSet(EntriesFor(n))
  BY ReactorAssumption, FS_Subset DEF EntriesFor
<1>2. EntriesFor(n) # {} <=> \E s \in Sessions : waiters[s] = n
  BY DEF EntriesFor
<1> QED BY <1>1, <1>2, FS_CardinalityType, FS_EmptySet

LEMMA DrainSignals ==
    ASSUME Good, DrainEvents, UNCHANGED <<waiters, sock>>, Waits' = Waits
    PROVE  Signals!Signal
<1> DEFINE k == [n \in NotifyIds |-> Cardinality(EventsFor(n))]
<1>1. NotifyEach(k)
  BY DEF DrainEvents
<1>2. \A n \in NotifyIds : k[n] \in Nat /\ (k[n] # 0 => \E s \in Sessions : waiters[s] = n)
  BY SomeEvent DEF Good
<1> HIDE DEF k
<1> QED BY <1>1, <1>2, NotifySignals

(* The tick's notify_one on every entry leaves a signal with each live       *)
(* session somebody waits on.                                                *)
LEMMA TickSweeps ==
    ASSUME Good, TickNotify
    PROVE  Signals!Sweep
<1> DEFINE k == [n \in NotifyIds |-> Cardinality(EntriesFor(n))]
<1>1. NotifyEach(k) /\ UNCHANGED <<waiters, sock, pc, sess>> /\ Due /\ ~Due'
  BY DEF TickNotify, Due, sockVars, opVars
<1>2. Waits' = Waits
  BY <1>1, SameWaits DEF InWait
<1>3. \A n \in NotifyIds : k[n] \in Nat /\ (k[n] # 0 <=> \E s \in Sessions : waiters[s] = n)
  BY SomeEntry
<1>4. Signals!Signal
  <2> HIDE DEF k
  <2> QED BY <1>1, <1>2, <1>3, NotifySignals
<1>5. ASSUME NEW s \in Live, NEW w \in Waits[s]
      PROVE  s \in Kept' \/ Waits[s] \cap notified' # {}
  <2> DEFINE n == waiters[s]
  <2>1. s \in Sessions /\ sock[s] # "dropping" /\ w \in Waiters /\ InWait(w) /\ sess[w] = s
    BY DEF Live, Waits
  <2>2. held[w] = n /\ n # NoNotify /\ n \in NotifyIds
    BY <2>1 DEF Good, Core, Own, TypeOK, NotifyTypeOK
  <2>3. k[n] \in Nat /\ k[n] # 0
    BY <1>3, <2>1, <2>2
  <2> HIDE DEF k
  <2>4. CASE Queue(n) = {}
    <3>1. Cardinality(Queue(n)) < k[n]
      BY <2>3, <2>4, FS_EmptySet
    <3>2. permit'[n] = (permit[n] \/ Cardinality(Queue(n)) < k[n])
      BY <1>1, <2>2 DEF NotifyEach
    <3>3. permit'[waiters'[s]] /\ waiters'[s] # NoNotify
      BY <1>1, <2>2, <3>1, <3>2, Zenon
    <3> QED BY <2>1, <3>3 DEF Kept
  <2>5. CASE Queue(n) # {}
    <3>1. PICK v \in queued : held[v] = n
      BY <2>5 DEF Queue
    <3>2. PICK u \in queued : held[u] = n /\ ahead[u] = {}
      BY <3>1, QueueHead DEF Good
    <3>3. u \in notified'
      <4>1. Cardinality(ahead[u]) = 0
        BY <3>2, FS_EmptySet
      <4>2. Cardinality(ahead[u]) < k[held[u]]
        BY <2>3, <3>2, <4>1
      <4> QED BY <1>1, <3>2, <4>2, Zenon DEF NotifyEach, Woken
    <3>4. u \in Waiters /\ InWait(u)
      BY <3>2 DEF Good, TypeOK, NotifyTypeOK, Fifo, QueuedParked, Parked, InWait
    <3>5. u \in Waits[s]
      BY <2>1, <2>2, <3>2, <3>4, WaitingOn DEF Good, Map, HeldBySession
    <3> QED BY <3>3, <3>5
  <2> QED BY <2>4, <2>5
<1>6. \A s \in Live : Waits[s] # {} => s \in Kept' \/ Waits[s] \cap notified' # {}
  BY <1>5
<1>7. Due = TRUE /\ Due' = FALSE
  BY <1>1 DEF Due
<1> QED BY <1>4, <1>6, <1>7 DEF Signals!Sweep

-----------------------------------------------------------------------------
(* The steps of wait_event, and those of a socket's life.                    *)
LEMMA GotoWaits ==
    ASSUME TypeOK, NEW w \in Waiters, NEW l, Goto(w, l), UNCHANGED sess,
           InWait(w) <=> l \notin {"idle", "try", "enter"}
    PROVE  Waits' = Waits
<1>1. pc'[w] = l /\ \A v \in Waiters \ {w} : pc'[v] = pc[v]
  BY DEF Goto, TypeOK
<1>2. \A v \in Waiters : InWait(v)' <=> InWait(v)
  BY <1>1 DEF InWait
<1> QED BY <1>2, SameWaits

LEMMA GotoLeaves ==
    ASSUME TypeOK, NEW w \in Waiters, NEW l \in {"idle", "try"}, Goto(w, l), UNCHANGED sess, InWait(w)
    PROVE  Signals!Leave(w, sess[w])
<1>1. pc'[w] = l /\ \A v \in Waiters \ {w} : pc'[v] = pc[v]
  BY DEF Goto, TypeOK
<1>2. ~InWait(w)'
  BY <1>1 DEF InWait
<1> QED BY <1>1, <1>2, LeaveWait

LEMMA OpenStep ==
    ASSUME Good, NEW s \in Sessions, sock[s] = "free", NEW x \in {"connecting", "open"},
           sock' = [sock EXCEPT ![s] = x], Waits' = Waits,
           UNCHANGED <<notified, waiters, permit, ticker>>
    PROVE  Signals!Open(s)
<1>1. s \notin Live /\ Live' = Live \cup {s}
  BY DEF Live, Good, TypeOK
<1>2. ASSUME NEW w \in Waits[s] PROVE FALSE
  <2>1. w \in Waiters /\ InWait(w) /\ sess[w] = s
    BY DEF Waits
  <2> QED BY <2>1 DEF Good, Core, Own, InWait
<1>3. Kept' = Kept /\ Due' = Due
  BY DEF Kept, Due
<1> QED BY <1>1, <1>2, <1>3 DEF Signals!Open

LEMMA EnterStep ==
    ASSUME Good, NEW w \in Waiters, WaitEnter(w)
    PROVE  Signals!Enter(w, sess[w])
<1> DEFINE s == sess[w]
<1>1. /\ pc[w] = "enter" /\ s \in Sessions /\ UNCHANGED <<sess, sock, ticker, notified>>
      /\ pc'[w] = "select" /\ \A v \in Waiters \ {w} : pc'[v] = pc[v]
  BY DEF WaitEnter, Goto, Good, TypeOK, sockVars
<1>2. s \in Live
  BY <1>1 DEF Good, Core, Own, Parked, Live
<1>3. ~InWait(w) /\ InWait(w)' /\ \A v \in Waiters \ {w} : InWait(v)' <=> InWait(v)
  BY <1>1 DEF InWait
<1>4. \A r \in Sessions : w \notin Waits[r]
  BY <1>3 DEF Waits
<1>5. Waits' = [Waits EXCEPT ![s] = @ \cup {w}]
  <2>1. \A r \in Sessions : {v \in Waiters : InWait(v)' /\ sess'[v] = r}
          = IF r = s THEN {v \in Waiters : InWait(v) /\ sess[v] = r} \cup {w}
                     ELSE {v \in Waiters : InWait(v) /\ sess[v] = r}
    BY <1>1, <1>3
  <2>2. \A r \in Sessions : Waits'[r] = IF r = s THEN Waits[r] \cup {w} ELSE Waits[r]
    BY <2>1, Zenon DEF Waits
  <2>3. Waits' = [r \in Sessions |-> Waits'[r]] /\ Waits = [r \in Sessions |-> Waits[r]]
    BY DEF Waits
  <2>4. s \in Sessions
    BY <1>1
  <2> HIDE DEF s
  <2> QED BY <2>2, <2>3, <2>4
<1>6. Kept' = Kept
  <2>1. CASE waiters[s] = NoNotify
    <3>1. PICK n \in NotifyIds : /\ IsFresh(n) /\ waiters' = [waiters EXCEPT ![s] = n]
                                 /\ permit' = [permit EXCEPT ![n] = FALSE]
      BY <2>1, Zenon DEF WaitEnter, Entry, InsertNotify
    <3>2. waiters'[s] = n /\ ~permit'[n] /\ \A m \in NotifyIds \ {n} : permit'[m] = permit[m]
      BY <1>1, <3>1 DEF Good, TypeOK, NotifyTypeOK
    <3>3. \A r \in Sessions \ {s} : /\ waiters'[r] = waiters[r] /\ waiters[r] # n
                                     /\ waiters[r] \in NotifyIds \cup {NoNotify}
      BY <1>1, <3>1 DEF Good, TypeOK, IsFresh
    <3>4. s \notin Kept /\ s \notin Kept'
      BY <2>1, <3>2, Zenon DEF Kept
    <3>5. ASSUME NEW r \in Sessions, r # s PROVE r \in Kept' <=> r \in Kept
      BY <3>3, <3>2, <3>5, Zenon DEF Kept
    <3>6. Kept \subseteq Sessions /\ Kept' \subseteq Sessions
      BY DEF Kept
    <3> QED BY <3>4, <3>5, <3>6
  <2>2. CASE waiters[s] # NoNotify
    BY <2>2 DEF WaitEnter, Entry, Kept
  <2> QED BY <2>1, <2>2
<1>7. Live' = Live /\ Due' = Due
  BY <1>1 DEF Live, Due
<1> QED BY <1>1, <1>2, <1>4, <1>5, <1>6, <1>7 DEF Signals!Enter

LEMMA OkStep ==
    ASSUME Good, NEW w \in Waiters, SelectNotified(w) \/ RecheckOk(w)
    PROVE  Signals!Ok(w, sess[w])
<1> DEFINE s == sess[w]
           n == held[w]
<1>1. /\ w \notin stored /\ InWait(w) /\ ReturnOk(w)
      /\ (TakePermit(w) /\ ~Parked(w)) \/ TakeNotified(w)
  BY DEF SelectNotified, RecheckOk, Polled, InWait, Parked
<1>2. s \in Live /\ s \in Sessions /\ n = waiters[s] /\ n # NoNotify /\ n \in NotifyIds
  BY <1>1, WaitLive DEF Good
<1>3. UNCHANGED <<waiters, ticker, sess>> /\ \E l \in {"idle", "try"} : Goto(w, l)
  BY <1>1 DEF ReturnOk, coreVars
<1>4. Signals!Leave(w, s)
  BY <1>1, <1>3, GotoLeaves DEF Good
<1>5. Live' = Live /\ Due' = Due
  <2>1. UNCHANGED sock \/ sock' = [sock EXCEPT ![s] = "open"]
    BY <1>1 DEF ReturnOk
  <2>2. Live' = Live
    BY <1>2, <2>1 DEF Live, Good, TypeOK
  <2> QED BY <1>3, <2>2 DEF Due
<1>6. CASE TakePermit(w) /\ ~Parked(w)
  <2>1. w \notin notified /\ UNCHANGED notified
    BY <1>6 DEF Good, Fifo, QueuedParked, TakePermit
  <2>2. permit[n] /\ ~permit'[n] /\ \A m \in NotifyIds \ {n} : permit'[m] = permit[m]
    BY <1>2, <1>6 DEF Good, TypeOK, NotifyTypeOK, TakePermit
  <2>3. \A r \in Sessions \ {s} : waiters[r] # n /\ waiters[r] \in NotifyIds \cup {NoNotify}
    BY <1>2 DEF Good, Map, MapInjective, TypeOK
  <2>4. s \in Kept /\ Kept' = Kept \ {s}
    BY <1>2, <1>3, <2>2, <2>3, Zenon DEF Kept
  <2> QED BY <1>2, <1>4, <1>5, <2>1, <2>4 DEF Signals!Ok
<1>7. CASE TakeNotified(w)
  <2>1. Kept' = Kept
    BY <1>3, <1>7 DEF TakeNotified, Kept
  <2> QED BY <1>2, <1>4, <1>5, <1>7, <2>1 DEF Signals!Ok, TakeNotified
<1> QED BY <1>1, <1>6, <1>7

LEMMA GoRoundStep ==
    ASSUME Good, NEW w \in Waiters, SelectMq(w)
    PROVE  Signals!GoRound(w, sess[w])
<1>1. /\ w \notin stored /\ InWait(w) /\ DropNotified(w) /\ Goto(w, "drain")
      /\ UNCHANGED <<waiters, ticker, sock, sess>>
  BY DEF SelectMq, Polled, InWait, coreVars, sockVars
<1>2. sess[w] \in Live /\ sess[w] \in Sessions
  BY <1>1, WaitLive DEF Good
<1>3. Waits' = Waits /\ w \in Waits[sess[w]]
  BY <1>1, <1>2, GotoWaits, WaitingOn DEF Good
<1>4. Signals!HandOn(w, sess[w])
  BY <1>1, DropHandsOn
<1>5. Live' = Live /\ Due' = Due
  BY <1>1 DEF Live, Due
<1> QED BY <1>2, <1>3, <1>4, <1>5 DEF Signals!GoRound

LEMMA GiveUpStep ==
    ASSUME Good, NEW w \in Waiters, SelectTimeout(w) \/ Cancel(w)
    PROVE  Signals!GiveUp(w, sess[w])
<1> DEFINE s == sess[w]
<1>1. /\ w \notin stored /\ InWait(w) /\ DropNotified(w) /\ UNCHANGED <<waiters, ticker, sess>>
      /\ \E l \in {"idle", "try"} : Goto(w, l)
      /\ IF op[w] = "connect_async" THEN sock' = [sock EXCEPT ![s] = "free"] ELSE UNCHANGED sock
  BY DEF SelectTimeout, Cancel, GiveUp, Suspended, Polled, Parked, InWait, coreVars, sockVars,
     CloseSession
<1>2. s \in Live /\ s \in Sessions
  BY <1>1, WaitLive DEF Good
<1>3. Signals!Leave(w, s) /\ Signals!HandOn(w, s)
  BY <1>1, DropHandsOn, GotoLeaves DEF Good
<1>4. CASE op[w] = "connect_async"
  <2>1. \A v \in Waiters : InWait(v) /\ sess[v] = s <=> v = w
    BY <1>1, <1>4 DEF Good, Core, Alone, InWait
  <2>2. Waits[s] = {w}
    BY <1>2, <2>1, WaitingOn DEF Waits
  <2>3. Live' = Live \ {s}
    BY <1>1, <1>2, <1>4 DEF Live, Good, TypeOK
  <2> QED BY <1>1, <1>2, <1>3, <2>2, <2>3 DEF Signals!GiveUp, Due
<1>5. CASE op[w] # "connect_async"
  BY <1>1, <1>2, <1>3, <1>5 DEF Signals!GiveUp, Due, Live
<1> QED BY <1>4, <1>5

LEMMA DropStep ==
    ASSUME Good, NEW s \in Sessions, DropSocket(s)
    PROVE  Signals!Drop(s)
<1>1. /\ sock[s] = "open" /\ sock' = [sock EXCEPT ![s] = "dropping"]
      /\ waiters' = [waiters EXCEPT ![s] = NoNotify]
      /\ UNCHANGED <<permit, notified, ticker, pc, sess>>
  BY DEF DropSocket, Deregister, notifyVars, opVars
<1>2. s \in Live /\ Live' = Live \ {s}
  BY <1>1 DEF Live, Good, TypeOK
<1>3. Waits' = Waits
  BY <1>1, SameWaits DEF InWait
<1>4. waiters'[s] = NoNotify /\ \A r \in Sessions \ {s} : waiters'[r] = waiters[r]
  BY <1>1 DEF Good, TypeOK
<1>5. Kept' = Kept \ {s}
  BY <1>1, <1>4, Zenon DEF Kept
<1> QED BY <1>1, <1>2, <1>3, <1>5 DEF Signals!Drop, Due

LEMMA CloseStep ==
    ASSUME Good, NEW s \in Sessions, CloseSocket(s)
    PROVE  Signals!Close(s)
<1> DEFINE S == StoredIn(s)
<1>1. /\ sock[s] = "dropping" /\ sock' = [sock EXCEPT ![s] = "free"]
      /\ notified' = notified \ S /\ UNCHANGED <<permit, waiters, ticker, sess>>
  BY DEF CloseSocket, CloseSession, DropAll, coreVars
<1>2. \A w \in Waiters : pc'[w] = IF w \in S THEN "idle" ELSE pc[w]
  BY DEF CloseSocket
<1>3. \A w \in Waiters : w \in S <=> InWait(w) /\ sess[w] = s
  <2> SUFFICES ASSUME NEW w \in Waiters PROVE w \in S <=> InWait(w) /\ sess[w] = s
    OBVIOUS
  <2>1. Own(w)
    BY DEF Good, Core
  <2> QED BY <1>1, <2>1 DEF StoredIn, Own, InWait, Parked
<1>4. S = Waits[s]
  BY <1>3 DEF StoredIn, Waits, Good, TypeOK
<1> HIDE DEF S
<1>5. s \notin Live /\ Live' = Live
  BY <1>1 DEF Live, Good, TypeOK
<1>6. \A w \in Waiters : InWait(w)' <=> InWait(w) /\ sess[w] # s
  BY <1>2, <1>3 DEF InWait
<1>7. Waits' = [Waits EXCEPT ![s] = {}]
  <2>1. \A r \in Sessions : {v \in Waiters : InWait(v)' /\ sess'[v] = r}
          = IF r = s THEN {} ELSE {v \in Waiters : InWait(v) /\ sess[v] = r}
    BY <1>1, <1>6
  <2>2. \A r \in Sessions : Waits'[r] = IF r = s THEN {} ELSE Waits[r]
    BY <2>1, Zenon DEF Waits
  <2>3. Waits' = [r \in Sessions |-> Waits'[r]] /\ Waits = [r \in Sessions |-> Waits[r]]
    BY DEF Waits
  <2> QED BY <2>2, <2>3
<1>8. Kept' = Kept /\ Due' = Due
  BY <1>1 DEF Kept, Due
<1> QED BY <1>1, <1>4, <1>5, <1>7, <1>8 DEF Signals!Close

-----------------------------------------------------------------------------
(* Every step of the reactor is a step of WaitSignals or leaves what it      *)
(* speaks of alone.                                                          *)
LEMMA SignalsNext == Good /\ [Next]_vars => [Signals!Next]_(Signals!vars)
<1> SUFFICES ASSUME Good, [Next]_vars PROVE [Signals!Next]_(Signals!vars)
  OBVIOUS
<1>1. ASSUME UNCHANGED <<sock, waiters, permit, notified>>, Due' = Due, Waits' = Waits
      PROVE  UNCHANGED Signals!vars
  BY <1>1 DEF Signals!vars, Live, Kept
<1>2. ASSUME UNCHANGED <<sock, waiters, permit, notified, pc, sess>>, Due' = Due
      PROVE  UNCHANGED Signals!vars
  BY <1>1, <1>2, SameWaits DEF InWait
<1>3. ASSUME NEW s \in Sessions,
             \/ VppEnqueue(s) \/ VppDequeue(s) \/ (\E c \in {"up", "closed"} : VppTransport(s, c))
             \/ Shutdown(s)
      PROVE  UNCHANGED Signals!vars
  BY <1>2, <1>3 DEF VppEnqueue, VppDequeue, VppTransport, Shutdown, notifyVars, coreVars, sockVars,
     opVars, Due
<1>4. ASSUME IoDriver \/ DropReactor \/ TickExit \/ UNCHANGED vars
      PROVE  UNCHANGED Signals!vars
  BY <1>2, <1>4 DEF IoDriver, DropReactor, TickExit, vars, notifyVars, coreVars, sockVars, opVars, Due
<1>5. ASSUME NEW w \in Waiters, Abandon(w) \/ Repoll(w) PROVE UNCHANGED Signals!vars
  BY <1>2, <1>5, Zenon DEF Abandon, Repoll, notifyVars, coreVars, sockVars, Due
<1>6. ASSUME NEW w \in Waiters, NEW s \in Sessions, NEW k \in OpKinds, Start(w, s, k)
      PROVE  UNCHANGED Signals!vars
  <2>1. /\ pc[w] = "idle" /\ pc'[w] \in {"try", "enter"}
        /\ \A v \in Waiters \ {w} : pc'[v] = pc[v] /\ sess'[v] = sess[v]
    BY <1>6 DEF Start, Good, TypeOK
  <2>2. Waits' = Waits
    BY <2>1, SameWaits, Zenon DEF InWait
  <2> QED BY <1>1, <1>6, <2>2, Zenon DEF Start, notifyVars, coreVars, sockVars, Due
<1>7. ASSUME NEW w \in Waiters,
             \/ TryRead(w) \/ AcceptFails(w) \/ WriteDone(w) \/ WriteMore(w) \/ TryClosed(w)
             \/ TryBlock(w)
      PROVE  UNCHANGED Signals!vars
  <2>1. /\ ~InWait(w) /\ UNCHANGED <<sock, waiters, permit, notified, sess, ticker>>
        /\ \E l \in {"idle", "try", "enter"} : Goto(w, l)
    BY <1>7, Zenon DEF TryRead, AcceptFails, WriteDone, WriteMore, Put, TryClosed, TryBlock, InWait,
       notifyVars, coreVars, sockVars
  <2>2. Waits' = Waits
    BY <2>1, GotoWaits DEF Good
  <2> QED BY <1>1, <2>1, <2>2 DEF Due
<1>8. ASSUME NEW w \in Waiters,
             SelectPark(w) \/ RecheckPark(w) \/ ClearReady(w) \/ RecheckElapsed(w)
      PROVE  UNCHANGED Signals!vars
  <2>1. /\ InWait(w) /\ UNCHANGED <<sock, waiters, permit, notified, sess, ticker>>
        /\ \E l \in {"parked", "rechecking", "recheck", "select"} : Goto(w, l)
    BY <1>8, Zenon DEF SelectPark, RecheckPark, ClearReady, RecheckElapsed, Enqueue, DropNotified, InWait,
       notifyVars, coreVars, sockVars
  <2>2. Waits' = Waits
    BY <2>1, GotoWaits DEF Good
  <2> QED BY <1>1, <2>1, <2>2 DEF Due
<1>9. ASSUME NEW s \in Sessions, \E k \in {"udp", "listener"} : Bind(s, k) PROVE Signals!Open(s)
  <2>1. /\ sock[s] = "free" /\ sock' = [sock EXCEPT ![s] = "open"]
        /\ UNCHANGED <<waiters, permit, notified, pc, sess, ticker>>
    BY <1>9 DEF Bind, CreateAndRegister, notifyVars, coreVars, opVars
  <2>2. Waits' = Waits
    BY <2>1, SameWaits DEF InWait
  <2> QED BY <2>1, <2>2, OpenStep, Zenon
<1>10. ASSUME NEW w \in Waiters, NEW s \in Sessions, TryAccept(w, s) PROVE Signals!Open(s)
  <2>1. /\ sock[s] = "free" /\ sock' = [sock EXCEPT ![s] = "open"] /\ ~InWait(w)
        /\ UNCHANGED <<waiters, permit, notified, sess, ticker>> /\ Goto(w, "idle")
    BY <1>10, Zenon DEF TryAccept, CreateAndRegister, InWait, notifyVars, coreVars
  <2>2. Waits' = Waits
    BY <2>1, GotoWaits DEF Good
  <2> QED BY <2>1, <2>2, OpenStep, Zenon
<1>11. ASSUME NEW w \in Waiters, NEW s \in Sessions, ConnectAsync(w, s) PROVE Signals!Open(s)
  <2>1. /\ sock[s] = "free" /\ sock' = [sock EXCEPT ![s] = "connecting"]
        /\ UNCHANGED <<waiters, permit, notified, ticker>>
    BY <1>11 DEF ConnectAsync, CreateAndRegister, notifyVars, coreVars
  <2>2. /\ pc[w] = "idle" /\ pc'[w] = "enter"
        /\ \A v \in Waiters \ {w} : pc'[v] = pc[v] /\ sess'[v] = sess[v]
    BY <1>11 DEF ConnectAsync, Good, TypeOK
  <2>3. Waits' = Waits
    BY <2>2, SameWaits DEF InWait
  <2> QED BY <2>1, <2>3, OpenStep, Zenon
<1>12. ASSUME NEW w \in Waiters, WaitDrain(w) PROVE Signals!Drain
  <2>1. /\ InWait(w) /\ DrainEvents /\ UNCHANGED <<waiters, sock, sess, ticker>> /\ Goto(w, "clear")
    BY <1>12 DEF WaitDrain, InWait, coreVars, sockVars
  <2>2. Waits' = Waits
    BY <2>1, GotoWaits DEF Good
  <2> QED BY <2>1, <2>2, DrainSignals DEF Signals!Drain, Due
<1>13. ASSUME TickDrain PROVE Signals!Drain
  <2>1. DrainEvents /\ UNCHANGED <<waiters, sock, pc, sess>> /\ Due' = TRUE
    BY <1>13 DEF TickDrain, sockVars, opVars, Due
  <2>2. Waits' = Waits
    BY <2>1, SameWaits DEF InWait
  <2> QED BY <2>1, <2>2, DrainSignals DEF Signals!Drain
<1>14. ASSUME NEW w \in Waiters PROVE sess[w] \in Sessions
  BY DEF Good, TypeOK
<1>15. ASSUME NEW w \in Waiters, Run(w) PROVE [Signals!Next]_(Signals!vars)
  BY <1>7, <1>8, <1>10, <1>12, <1>14, <1>15, EnterStep, OkStep, GoRoundStep, Zenon
  DEF Run, Signals!Next
<1>16. ASSUME NEW w \in Waiters, Caller(w) PROVE [Signals!Next]_(Signals!vars)
  BY <1>5, <1>6, <1>11, <1>14, <1>16, GiveUpStep, Zenon DEF Caller, Signals!Next
<1>17. ASSUME Vpp \/ Driver \/ Ticker \/ UNCHANGED vars PROVE [Signals!Next]_(Signals!vars)
  BY <1>3, <1>4, <1>13, <1>17, TickSweeps, Zenon DEF Vpp, Driver, Ticker, Signals!Next
<1>18. ASSUME Owner PROVE [Signals!Next]_(Signals!vars)
  BY <1>3, <1>4, <1>9, <1>18, DropStep, CloseStep, Zenon DEF Owner, Signals!Next
<1> QED BY <1>15, <1>16, <1>17, <1>18 DEF Next

(* The reactor implements WaitSignals (reactor.rs:179-185, 229-326):         *)
(* whatever waits share a session, however they end and whenever events are  *)
(* drained, a signal reaches one wait of its own session or stays with it    *)
(* until the socket is dropped, and each tick leaves one with every live     *)
(* session somebody waits on.                                                *)
THEOREM ReactorImplementsSignals == Spec => ImplementsSignals
<1>1. Init => Signals!Init
  <2> SUFFICES ASSUME Init PROVE Signals!Init
    OBVIOUS
  <2>1. /\ \A s \in Sessions : sock[s] = "free" /\ waiters[s] = NoNotify
        /\ \A w \in Waiters : ~InWait(w)
        /\ notified = {} /\ ticker = "sleeping"
    BY DEF Init, NotifyInit, InWait
  <2>2. Waits = [s \in Sessions |-> {}]
    BY <2>1 DEF Waits
  <2>3. Live = {} /\ Kept = {} /\ Due = FALSE
    BY <2>1, Zenon DEF Live, Kept, Due
  <2> QED BY <2>1, <2>2, <2>3 DEF Signals!Init
<1> QED BY <1>1, SignalsNext, GoodAlways, PTL DEF Spec, ImplementsSignals, Signals!Spec
=============================================================================
