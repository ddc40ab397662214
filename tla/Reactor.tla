------------------------------ MODULE Reactor -------------------------------
(***************************************************************************)
(* src/src/reactor.rs: VclReactor, with the sockets that register with it  *)
(* and the retry loops of their operations (VclDgramSocket::recv_from,     *)
(* try_recv_from, wait_readable and send_to, VclListener::accept,          *)
(* VclStream::read, write_all, poll_read, poll_write, poll_shutdown and    *)
(* connect_async).                                                         *)
(*                                                                         *)
(* VPP runs beside the program: it fills RX fifos, drains TX fifos,        *)
(* finishes handshakes, hangs up, and posts events to the message queue,   *)
(* unreliably.  A critical section of the reactor's Mutex is one step, an  *)
(* FFI call is one step.  VPP may run between any two steps; other tasks   *)
(* run between two awaits, or anywhere when they have threads of their own *)
(* (CurrentThread = FALSE).  Operators named Bug... are faults of the      *)
(* code, used only to show that a property would notice them.              *)
(***************************************************************************)
EXTENDS Notify

CONSTANTS
    Sessions,   \* the session handles libvppcom hands out and reuses
    OpKinds,    \* the operations the waiters perform (a subset of AllOps)
    MaxRx,      \* bound: units in an RX fifo
    MaxTx,      \* the capacity of a TX fifo, in units
    CurrentThread \* the tasks share one thread (tokio's current_thread runtime)

ReadOps == {"recv_from", "try_recv_from", "wait_readable", "accept", "read", "poll_read"}
WriteOps == {"send_to", "write_all", "poll_write"}
AllOps == ReadOps \cup WriteOps \cup {"connect_async", "poll_shutdown"}
NoOp == "none"
RearmOps == {"recv_from", "accept"}         \* swallow Err(Timeout) and re-arm
StoringOps == {"poll_read", "poll_write"}   \* keep the wait in the VclStream

OpsOf(k) == CASE k = "udp" -> {"recv_from", "try_recv_from", "wait_readable", "send_to"}
              [] k = "listener" -> {"accept"}
              [] OTHER -> {"read", "write_all", "poll_read", "poll_write"}

ASSUME ReactorAssumption ==
    /\ IsFiniteSet(Sessions) /\ OpKinds \subseteq AllOps
    /\ MaxRx \in Nat /\ MaxTx \in Nat
    /\ CurrentThread \in BOOLEAN

VARIABLES
    \* VPP and libvppcom
    rx, tx,     \* [Sessions -> Nat]: units in the fifos
    hasEvent,   \* [Sessions -> BOOLEAN]: the RX fifo's has_event flag
    conn,       \* [Sessions -> Transports]
    vep,        \* sessions in the reactor's VCL epoll set
    mq,         \* pending message-queue events, <<session, "in"/"out">>
    \* tokio's view of the message-queue eventfd
    edge,       \* the eventfd has an edge the I/O driver has not seen
    ready,      \* AsyncFd's cached readiness
    seen,       \* waiters whose readiness guard is still the latest
    \* ReactorInner, its reference count and the periodic task
    waiters,    \* [Sessions -> NotifyIds or NoNotify]: the HashMap
    appRef,     \* the application still holds its VclReactor clone
    ticker,     \* the periodic task: "sleeping", "notify" or "exited"
    \* sockets and the operations on them
    sock,       \* [Sessions -> {"free", "connecting", "open", "dropping"}]
    kind,       \* [Sessions -> {"udp", "listener", "stream"}]
    pc, op, sess, \* per waiter: control point, operation, session handle
    stored      \* waits kept in a VclStream that nobody polls at present

vppVars == <<rx, tx, hasEvent, conn, vep, mq>>
fdVars == <<edge, ready, seen>>
coreVars == <<waiters, appRef, ticker>>
sockVars == <<sock, kind>>
opVars == <<pc, op, sess, stored>>
vars == <<notifyVars, vppVars, fdVars, coreVars, sockVars, opVars>>

PCs == {"idle", "try", "enter", "select", "parked", "drain", "clear",
        "recheck", "rechecking"}

(* "shut": our side of the stream is closed, the peer's is not.              *)
Transports == {"syn", "up", "shut", "closed"}

InWait(w) == pc[w] \notin {"idle", "try", "enter"}
Parked(w) == pc[w] \in {"parked", "rechecking"}

TypeOK ==
    /\ NotifyTypeOK
    /\ rx \in [Sessions -> 0..MaxRx]
    /\ tx \in [Sessions -> 0..MaxTx]
    /\ hasEvent \in [Sessions -> BOOLEAN]
    /\ conn \in [Sessions -> Transports]
    /\ vep \subseteq Sessions
    /\ mq \subseteq Sessions \X {"in", "out"}
    /\ edge \in BOOLEAN /\ ready \in BOOLEAN
    /\ seen \subseteq Waiters
    /\ waiters \in [Sessions -> NotifyIds \cup {NoNotify}]
    /\ appRef \in BOOLEAN
    /\ ticker \in {"sleeping", "notify", "exited"}
    /\ sock \in [Sessions -> {"free", "connecting", "open", "dropping"}]
    /\ kind \in [Sessions -> {"udp", "listener", "stream"}]
    /\ pc \in [Waiters -> PCs]
    /\ op \in [Waiters -> AllOps \cup {NoOp}]
    /\ sess \in [Waiters -> Sessions]
    /\ stored \subseteq Waiters

(* VclReactor::new: an empty waiters map, an empty epoll set, the ticker     *)
(* spawned; the application holds the only clone.  The sess of an idle       *)
(* waiter means nothing.                                                     *)
Init ==
    /\ NotifyInit
    /\ rx = [s \in Sessions |-> 0]
    /\ tx = [s \in Sessions |-> 0]
    /\ hasEvent = [s \in Sessions |-> FALSE]
    /\ conn = [s \in Sessions |-> "closed"]
    /\ vep = {} /\ mq = {}
    /\ edge = FALSE /\ ready = FALSE /\ seen = {}
    /\ waiters = [s \in Sessions |-> NoNotify]
    /\ appRef = TRUE
    /\ ticker = "sleeping"
    /\ sock = [s \in Sessions |-> "free"]
    /\ kind = [s \in Sessions |-> "stream"]
    /\ pc = [w \in Waiters |-> "idle"]
    /\ op = [w \in Waiters |-> NoOp]
    /\ \E s \in Sessions : sess = [w \in Waiters |-> s]
    /\ stored = {}

-----------------------------------------------------------------------------
(* VPP.                                                                      *)

(* An event reaches the queue and raises the eventfd, or its edge is missed, *)
(* or it is lost ("VPP's cross-worker MQ event delivery is unreliable").     *)
Post(s, d) ==
    \/ mq' = mq \cup {<<s, d>>} /\ edge' \in {edge, TRUE}
    \/ UNCHANGED <<mq, edge>>

(* Data, a datagram or a connection arrives.  While has_event is set no      *)
(* further event is generated.                                               *)
VppEnqueue(s) ==
    /\ sock[s] # "free" /\ conn[s] \in {"up", "shut"} /\ rx[s] < MaxRx
    /\ rx' = [rx EXCEPT ![s] = @ + 1]
    /\ hasEvent' = [hasEvent EXCEPT ![s] = TRUE]
    /\ IF hasEvent[s] THEN UNCHANGED <<mq, edge>> ELSE Post(s, "in")
    /\ UNCHANGED <<notifyVars, tx, conn, vep, ready, seen, coreVars, sockVars,
                   opVars>>

VppDequeue(s) ==
    /\ sock[s] # "free" /\ tx[s] > 0
    /\ tx' = [tx EXCEPT ![s] = @ - 1]
    /\ Post(s, "out")
    /\ UNCHANGED <<notifyVars, rx, hasEvent, conn, vep, ready, seen, coreVars,
                   sockVars, opVars>>

(* The handshake completes, or the peer refuses, resets or closes.           *)
VppTransport(s, c) ==
    /\ sock[s] # "free" /\ kind[s] = "stream"
    /\ c = "up" => conn[s] = "syn"
    /\ conn[s] # "closed"
    /\ conn' = [conn EXCEPT ![s] = c]
    /\ Post(s, IF c = "up" THEN "out" ELSE "in")
    /\ UNCHANGED <<notifyVars, rx, tx, hasEvent, vep, ready, seen, coreVars,
                   sockVars, opVars>>

(* Tokio's I/O driver turns the edge into cached readiness; guards obtained  *)
(* before it no longer clear that readiness (clear_ready compares ticks).    *)
IoDriver ==
    /\ edge
    /\ edge' = FALSE /\ ready' = TRUE /\ seen' = {}
    /\ UNCHANGED <<notifyVars, vppVars, coreVars, sockVars, opVars>>

-----------------------------------------------------------------------------
(* Sockets: register and deregister, and who keeps the reactor alive.        *)

(* Some clone of the reactor exists: the application's, or a socket's.       *)
BugAlive == appRef
Alive == appRef \/ \E s \in Sessions : sock[s] # "free"

(* libvppcom hands out a session; register puts it into the epoll set.       *)
CreateAndRegister(s, k, c, l) ==
    /\ sock[s] = "free"
    /\ conn' = [conn EXCEPT ![s] = c]
    /\ kind' = [kind EXCEPT ![s] = k]
    /\ sock' = [sock EXCEPT ![s] = l]
    /\ vep' = vep \cup {s}

(* VclDgramSocket::bind, VclListener::bind.  When a call fails the handle is *)
(* closed again and nothing has changed.                                     *)
Bind(s, k) ==
    /\ Alive /\ OpsOf(k) \cap OpKinds # {}
    /\ CreateAndRegister(s, k, "up", "open")
    /\ UNCHANGED <<notifyVars, rx, tx, hasEvent, mq, fdVars, coreVars, opVars>>

BugDeregister(s) ==
    /\ vep' = vep \ {s}
    /\ UNCHANGED waiters

Deregister(s) ==
    /\ waiters' = [waiters EXCEPT ![s] = NoNotify]
    /\ vep' = vep \ {s}

(* The Drop of a socket deregisters first.  A future that borrows the socket *)
(* keeps it from being dropped, a wait stored inside a VclStream does not.   *)
Borrowed(s) == \E w \in Waiters \ stored : sess[w] = s /\ pc[w] # "idle"

DropSocket(s) ==
    /\ sock[s] = "open" /\ ~Borrowed(s)
    /\ Deregister(s)
    /\ sock' = [sock EXCEPT ![s] = "dropping"]
    /\ UNCHANGED <<notifyVars, rx, tx, hasEvent, conn, mq, fdVars, appRef,
                   ticker, kind, opVars>>

(* SessionHandle::drop: libvppcom frees the fifos, forgets the session's     *)
(* events and takes it out of the epoll set.                                 *)
CloseSession(s) ==
    /\ sock' = [sock EXCEPT ![s] = "free"]
    /\ rx' = [rx EXCEPT ![s] = 0]
    /\ tx' = [tx EXCEPT ![s] = 0]
    /\ hasEvent' = [hasEvent EXCEPT ![s] = FALSE]
    /\ conn' = [conn EXCEPT ![s] = "closed"]
    /\ kind' = [kind EXCEPT ![s] = "stream"]
    /\ mq' = {e \in mq : e[1] # s}
    /\ vep' = vep \ {s}

(* Then the fields go: the session is closed and the stored waits are        *)
(* dropped with the stream.                                                  *)
StoredIn(s) == {w \in stored : sess[w] = s}

CloseSocket(s) ==
    /\ sock[s] = "dropping"
    /\ CloseSession(s)
    /\ DropAll(StoredIn(s))
    /\ held' = [w \in Waiters |-> IF w \in StoredIn(s) THEN NoNotify ELSE held[w]]
    /\ pc' = [w \in Waiters |-> IF w \in StoredIn(s) THEN "idle" ELSE pc[w]]
    /\ op' = [w \in Waiters |-> IF w \in StoredIn(s) THEN NoOp ELSE op[w]]
    /\ stored' = stored \ StoredIn(s)
    /\ UNCHANGED <<fdVars, coreVars, sess>>

DropReactor ==
    /\ appRef
    /\ appRef' = FALSE
    /\ UNCHANGED <<notifyVars, vppVars, fdVars, waiters, ticker, sockVars, opVars>>

-----------------------------------------------------------------------------
(* Draining.  drain_events_with_inner takes every pending event (batches of  *)
(* 64 until a short one) and calls notify_one for each event whose session   *)
(* is in the epoll set and has a Notify in the map.                          *)

EventsFor(n) == {e \in mq : e[1] \in vep /\ waiters[e[1]] = n}

DrainEvents ==
    /\ NotifyEach([n \in NotifyIds |-> Cardinality(EventsFor(n))])
    /\ mq' = {}

(* The periodic task drains, then in a second critical section calls         *)
(* notify_one on every Notify of the map; it returns once the reactor is     *)
(* gone.                                                                     *)
TickDrain ==
    /\ ticker = "sleeping" /\ Alive
    /\ DrainEvents
    /\ ticker' = "notify"
    /\ UNCHANGED <<held, rx, tx, hasEvent, conn, vep, fdVars, waiters, appRef,
                   sockVars, opVars>>

EntriesFor(n) == {s \in Sessions : waiters[s] = n}

BugTickNotify ==
    /\ ticker = "notify"
    /\ ticker' = "sleeping"
    /\ UNCHANGED <<notifyVars, vppVars, fdVars, waiters, appRef, sockVars, opVars>>

TickNotify ==
    /\ ticker = "notify"
    /\ NotifyEach([n \in NotifyIds |-> Cardinality(EntriesFor(n))])
    /\ ticker' = "sleeping"
    /\ UNCHANGED <<held, vppVars, fdVars, waiters, appRef, sockVars, opVars>>

TickExit ==
    /\ ticker = "sleeping" /\ ~Alive
    /\ ticker' = "exited"
    /\ UNCHANGED <<notifyVars, vppVars, fdVars, waiters, appRef, sockVars, opVars>>

-----------------------------------------------------------------------------
(* Operations: make the call, wait on the reactor while it would block.      *)

(* The locals of an operation die with it.                                   *)
Goto(w, l) ==
    /\ pc' = [pc EXCEPT ![w] = l]
    /\ op' = [op EXCEPT ![w] = IF l = "idle" THEN NoOp ELSE @]

(* An operation starts on an open socket: wait_readable waits, the others    *)
(* make their call first.  A VclStream keeps one pending read wait and one   *)
(* pending write wait.                                                       *)
Start(w, s, k) ==
    /\ pc[w] = "idle" /\ sock[s] = "open"
    /\ k \in OpsOf(kind[s]) \cap OpKinds
    /\ k \in StoringOps =>
          \A v \in Waiters : ~(sess[v] = s /\ op[v] = k /\ pc[v] # "idle")
    /\ pc' = [pc EXCEPT ![w] = IF k = "wait_readable" THEN "enter" ELSE "try"]
    /\ op' = [op EXCEPT ![w] = k]
    /\ sess' = [sess EXCEPT ![w] = s]
    /\ UNCHANGED <<notifyVars, vppVars, fdVars, coreVars, sockVars, stored>>

(* VclStream::connect_async: create, register, connect, then wait_writable.  *)
(* When one of the calls fails the handle is closed and nothing has changed. *)
ConnectAsync(w, s) ==
    /\ pc[w] = "idle" /\ Alive /\ "connect_async" \in OpKinds
    /\ CreateAndRegister(s, "stream", "syn", "connecting")
    /\ pc' = [pc EXCEPT ![w] = "enter"]
    /\ op' = [op EXCEPT ![w] = "connect_async"]
    /\ sess' = [sess EXCEPT ![w] = s]
    /\ UNCHANGED <<notifyVars, rx, tx, hasEvent, mq, fdVars, coreVars, stored>>

(* The calls need something in the RX fifo or room in the TX fifo.  On a     *)
(* closed transport, and for a write after a shutdown, they return at once,  *)
(* with Closed; during the handshake they report NotConnected, which is      *)
(* retried like WouldBlock.                                                  *)
CanRead(s) == conn[s] = "closed" \/ (conn[s] # "syn" /\ rx[s] > 0)
CanWrite(s) == conn[s] \in {"shut", "closed"} \/ (conn[s] = "up" /\ tx[s] < MaxTx)
CanDo(w) == IF op[w] \in ReadOps THEN CanRead(sess[w]) ELSE CanWrite(sess[w])

BugTake(s, n) ==
    /\ rx' = [rx EXCEPT ![s] = @ - (n + 1)]
    /\ hasEvent' = [hasEvent EXCEPT ![s] = @ /\ n < rx[s]]

(* Taking n units clears has_event only when that empties the fifo.          *)
Take(s, n) ==
    /\ rx' = [rx EXCEPT ![s] = @ - n]
    /\ hasEvent' = [hasEvent EXCEPT ![s] = @ /\ n < rx[s]]

(* recvfrom takes one datagram, read as much as its buffer holds.            *)
TryRead(w) ==
    /\ pc[w] = "try" /\ op[w] \in ReadOps \ {"accept"}
    /\ rx[sess[w]] > 0 /\ conn[sess[w]] # "syn"
    /\ \E n \in 1..rx[sess[w]] :
          (op[w] \in {"recv_from", "try_recv_from"} => n = 1) /\ Take(sess[w], n)
    /\ Goto(w, "idle")
    /\ UNCHANGED <<notifyVars, tx, conn, vep, mq, fdVars, coreVars, sockVars,
                   sess, stored>>

(* accept takes one connection, registers its session with the reactor and   *)
(* makes it a non-blocking VclStream ...                                     *)
TryAccept(w, c) ==
    /\ pc[w] = "try" /\ op[w] = "accept" /\ rx[sess[w]] > 0
    /\ Take(sess[w], 1)
    /\ CreateAndRegister(c, "stream", "up", "open")
    /\ Goto(w, "idle")
    /\ UNCHANGED <<notifyVars, tx, mq, fdVars, coreVars, sess, stored>>

(* ... or closes it and fails.                                               *)
AcceptFails(w) ==
    /\ pc[w] = "try" /\ op[w] = "accept" /\ rx[sess[w]] > 0
    /\ Take(sess[w], 1)
    /\ Goto(w, "idle")
    /\ UNCHANGED <<notifyVars, tx, conn, vep, mq, fdVars, coreVars, sockVars,
                   sess, stored>>

(* A write puts some of the buffer in; write_all goes round again while      *)
(* bytes are left.                                                           *)
Put(w) ==
    /\ pc[w] = "try" /\ op[w] \in WriteOps /\ conn[sess[w]] = "up"
    /\ \E n \in 1..(MaxTx - tx[sess[w]]) :
          tx' = [tx EXCEPT ![sess[w]] = @ + n]
    /\ UNCHANGED <<notifyVars, rx, hasEvent, conn, vep, mq, fdVars, coreVars,
                   sockVars, sess, stored>>

WriteDone(w) == Put(w) /\ Goto(w, "idle")
WriteMore(w) == Put(w) /\ op[w] = "write_all" /\ Goto(w, "try")

(* End of file, or Err(Closed).                                              *)
TryClosed(w) ==
    /\ pc[w] = "try"
    /\ IF op[w] \in ReadOps THEN conn[sess[w]] = "closed" /\ rx[sess[w]] = 0
       ELSE conn[sess[w]] \in {"shut", "closed"}
    /\ Goto(w, "idle")
    /\ UNCHANGED <<notifyVars, vppVars, fdVars, coreVars, sockVars, sess,
                   stored>>

(* The call would block: wait, except that try_recv_from reports Ok(None).   *)
TryBlock(w) ==
    /\ pc[w] = "try" /\ ~CanDo(w)
    /\ Goto(w, IF op[w] = "try_recv_from" THEN "idle" ELSE "enter")
    /\ UNCHANGED <<notifyVars, vppVars, fdVars, coreVars, sockVars, sess,
                   stored>>

(* poll_shutdown closes our side of an established stream.  It takes the     *)
(* stream by &mut: the only waits then pending are those stored in it.       *)
Shutdown(s) ==
    /\ "poll_shutdown" \in OpKinds
    /\ sock[s] = "open" /\ kind[s] = "stream" /\ conn[s] = "up"
    /\ \A w \in Waiters :
          sess[w] = s /\ pc[w] # "idle" => op[w] \in StoringOps /\ Parked(w)
    /\ conn' = [conn EXCEPT ![s] = "shut"]
    /\ UNCHANGED <<notifyVars, rx, tx, hasEvent, vep, mq, fdVars, coreVars,
                   sockVars, opVars>>

-----------------------------------------------------------------------------
(* wait_event.                                                               *)

(* A Notify that neither the map nor a waiter refers to.                     *)
IsFresh(n) ==
    /\ \A s \in Sessions : waiters[s] # n
    /\ \A w \in Waiters : held[w] # n

InsertNotify(w, s) ==
    \E n \in NotifyIds :
        /\ IsFresh(n)
        /\ \A m \in NotifyIds : IsFresh(m) => n <= m
        /\ waiters' = [waiters EXCEPT ![s] = n]
        /\ held' = [held EXCEPT ![w] = n]
        /\ permit' = [permit EXCEPT ![n] = FALSE]

BugEntry(w, s) == InsertNotify(w, s)

(* The map's entry for the session, or_insert_with a new Notify.             *)
Entry(w, s) ==
    \/ waiters[s] = NoNotify /\ InsertNotify(w, s)
    \/ /\ waiters[s] # NoNotify
       /\ held' = [held EXCEPT ![w] = waiters[s]]
       /\ UNCHANGED <<waiters, permit>>

WaitEnter(w) ==
    /\ pc[w] = "enter"
    /\ Entry(w, sess[w])
    /\ Goto(w, "select")
    /\ UNCHANGED <<queued, notified, ahead, vppVars, fdVars, appRef, ticker,
                   sockVars, sess, stored>>

(* wait_event returns Ok(()) and releases its Arc; connect_async hands out    *)
(* the stream, wait_readable passes the Ok on, every other caller tries its  *)
(* call again.                                                               *)
ReturnOk(w) ==
    /\ held' = [held EXCEPT ![w] = NoNotify]
    /\ IF op[w] = "connect_async"
       THEN Goto(w, "idle") /\ sock' = [sock EXCEPT ![sess[w]] = "open"]
       ELSE /\ Goto(w, IF op[w] = "wait_readable" THEN "idle" ELSE "try")
            /\ UNCHANGED sock
    /\ UNCHANGED <<vppVars, fdVars, coreVars, kind, sess, stored>>

Polled(w) == w \notin stored

(* select!, no branch ready: notified() parks on the Notify.                 *)
SelectPark(w) ==
    /\ pc[w] = "select"
    /\ Enqueue(w)
    /\ Goto(w, "parked")
    /\ UNCHANGED <<held, vppVars, fdVars, coreVars, sockVars, sess, stored>>

(* select!, branch notify.notified().                                        *)
SelectNotified(w) ==
    /\ Polled(w)
    /\ \/ pc[w] = "select" /\ TakePermit(w)
       \/ pc[w] = "parked" /\ TakeNotified(w)
    /\ ReturnOk(w)

(* select!, branch mq_fd.readable(): the other branches' futures are dropped *)
(* before its handler drains, clears the readiness and looks for a signal.   *)
SelectMq(w) ==
    /\ pc[w] \in {"select", "parked"} /\ Polled(w) /\ ready
    /\ DropNotified(w)
    /\ seen' = seen \cup {w}
    /\ Goto(w, "drain")
    /\ UNCHANGED <<held, vppVars, edge, ready, coreVars, sockVars, sess,
                   stored>>

WaitDrain(w) ==
    /\ pc[w] = "drain"
    /\ DrainEvents
    /\ Goto(w, "clear")
    /\ UNCHANGED <<held, rx, tx, hasEvent, conn, vep, fdVars, coreVars, sockVars,
                   sess, stored>>

ClearReady(w) ==
    /\ pc[w] = "clear"
    /\ ready' = (ready /\ w \notin seen)
    /\ seen' = seen \ {w}
    /\ Goto(w, "recheck")
    /\ UNCHANGED <<notifyVars, vppVars, edge, coreVars, sockVars, sess, stored>>

BugRecheckOk(w) ==
    /\ Polled(w)
    /\ \/ pc[w] = "recheck" /\ TakePermit(w)
       \/ pc[w] = "rechecking" /\ TakeNotified(w)
    /\ Goto(w, "select")
    /\ UNCHANGED <<held, vppVars, fdVars, coreVars, sockVars, sess, stored>>

(* timeout(0 ms, notified()).  The timer wheel rounds up to a millisecond,   *)
(* so without a permit the future parks once more for a moment.  Each poll   *)
(* looks at notified() before the timer.                                     *)
RecheckOk(w) ==
    /\ Polled(w)
    /\ \/ pc[w] = "recheck" /\ TakePermit(w)
       \/ pc[w] = "rechecking" /\ TakeNotified(w)
    /\ ReturnOk(w)

RecheckPark(w) ==
    /\ pc[w] = "recheck"
    /\ Enqueue(w)
    /\ Goto(w, "rechecking")
    /\ UNCHANGED <<held, vppVars, fdVars, coreVars, sockVars, sess, stored>>

RecheckElapsed(w) ==
    /\ pc[w] = "rechecking" /\ Polled(w) /\ w \notin notified
    /\ DropNotified(w)
    /\ Goto(w, "select")
    /\ UNCHANGED <<held, vppVars, fdVars, coreVars, sockVars, sess, stored>>

(* The wait ends without a signal.  A failed or cancelled connect_async      *)
(* drops its SessionHandle and does not deregister: no VclStream exists yet. *)
GiveUp(w, l) ==
    /\ DropNotified(w)
    /\ held' = [held EXCEPT ![w] = NoNotify]
    /\ Goto(w, l)
    /\ IF op[w] = "connect_async" THEN CloseSession(sess[w])
       ELSE UNCHANGED <<vppVars, sockVars>>
    /\ UNCHANGED <<fdVars, coreVars, sess, stored>>

(* select!, branch sleep_until(deadline): Err(Timeout), of which            *)
(* wait_readable makes Ok(()).  The 300 s of all but connect_async do not    *)
(* pass within the poll that set the deadline.                               *)
SelectTimeout(w) ==
    /\ pc[w] = "parked" \/ (pc[w] = "select" /\ op[w] = "connect_async")
    /\ Polled(w)
    /\ GiveUp(w, IF op[w] \in RearmOps THEN "try" ELSE "idle")

(* A suspended task drops the operation it awaits.  The wait of a poll_read  *)
(* or poll_write lives on in the stream, parked and polled by nobody, until  *)
(* the next poll of the same kind.                                           *)
Suspended(w) == Parked(w) /\ Polled(w)

Cancel(w) ==
    /\ Suspended(w) /\ op[w] \notin StoringOps
    /\ GiveUp(w, "idle")

Abandon(w) ==
    /\ Suspended(w) /\ op[w] \in StoringOps
    /\ stored' = stored \cup {w}
    /\ UNCHANGED <<notifyVars, vppVars, fdVars, coreVars, sockVars, pc, op, sess>>

Repoll(w) ==
    /\ w \in stored /\ sock[sess[w]] = "open"
    /\ stored' = stored \ {w}
    /\ UNCHANGED <<notifyVars, vppVars, fdVars, coreVars, sockVars, pc, op, sess>>

-----------------------------------------------------------------------------
(* Whoever is between two awaits occupies the thread it runs on.             *)
Running ==
    {w \in Waiters : pc[w] \notin {"idle", "parked", "rechecking"}}
        \cup {s \in Sessions : sock[s] = "dropping"}
        \cup {t \in {"ticker"} : ticker = "notify"}

MayRun(a) == CurrentThread => Running \subseteq {a}

Vpp ==
    \E s \in Sessions :
        \/ VppEnqueue(s) \/ VppDequeue(s)
        \/ \E c \in {"up", "closed"} : VppTransport(s, c)

Driver == MayRun("driver") /\ IoDriver

Ticker == MayRun("ticker") /\ (TickDrain \/ TickNotify \/ TickExit)

Owner ==
    \/ MayRun("owner") /\ DropReactor
    \/ \E s \in Sessions :
          /\ MayRun(s)
          /\ \/ \E k \in {"udp", "listener"} : Bind(s, k)
             \/ Shutdown(s) \/ DropSocket(s) \/ CloseSocket(s)

(* The steps a task takes whenever it is polled.                             *)
Run(w) ==
    /\ MayRun(w)
    /\ \/ TryRead(w) \/ WriteDone(w) \/ WriteMore(w)
       \/ TryClosed(w) \/ TryBlock(w)
       \/ AcceptFails(w) \/ \E c \in Sessions : TryAccept(w, c)
       \/ WaitEnter(w) \/ SelectPark(w) \/ SelectNotified(w) \/ SelectMq(w)
       \/ WaitDrain(w) \/ ClearReady(w)
       \/ RecheckOk(w) \/ RecheckPark(w) \/ RecheckElapsed(w)

(* What the application and the clock decide.                                *)
Caller(w) ==
    /\ MayRun(w)
    /\ \/ \E s \in Sessions, k \in OpKinds : Start(w, s, k)
       \/ \E s \in Sessions : ConnectAsync(w, s)
       \/ SelectTimeout(w) \/ Cancel(w) \/ Abandon(w) \/ Repoll(w)

Next ==
    \/ Vpp \/ Driver \/ Ticker \/ Owner
    \/ \E w \in Waiters : Run(w) \/ Caller(w)

Spec == Init /\ [][Next]_vars

(* Tokio's scheduler is fair: a runnable task is polled (strong fairness,     *)
(* for the thread is taken and released all the time) and the interval       *)
(* fires.  Two choices are not made against a waiter for ever: the branch    *)
(* select! polls first is random, and the clock does not look at who heads a *)
(* Notify's FIFO when it ticks.  Nothing is assumed of VPP, of the eventfd,  *)
(* of the application or of deadlines.  (The model has no size for a         *)
(* write_all's buffer: progress is checked for the other operations.)        *)
AtHead(w) == w \in queued /\ ahead[w] = {}

Fairness ==
    /\ WF_vars(Ticker)
    /\ \A s \in Sessions : WF_vars(CloseSocket(s))
    /\ \A w \in Waiters :
          /\ SF_vars(Run(w))
          /\ SF_vars(MayRun(w) /\ SelectNotified(w))
          /\ SF_vars(AtHead(w) /\ Ticker)

FairSpec == Spec /\ Fairness

-----------------------------------------------------------------------------
(* A future inside wait_event on a session that is not being dropped holds    *)
(* the very Notify the map has for the session, so drain_events and the       *)
(* tick's sweep over the map (reactor.rs:183-185, 318-320) reach it; and     *)
(* while parked it is in that Notify's FIFO or already signalled.  No        *)
(* deregister, reused handle, failed connect_async or drop of a sibling      *)
(* future leaves a task parked where nobody will ever signal it.             *)
WaitersReachable ==
    \A w \in Waiters :
        /\ InWait(w) /\ sock[sess[w]] # "dropping" => held[w] = waiters[sess[w]]
        /\ Parked(w) => w \in queued \cup notified

(* A tick (reactor.rs:180-193) leaves at least one wait of every live session *)
(* that has parked waits signalled, so one of them can retry its call.       *)
TickWakes ==
    [][ticker = "notify" /\ ticker' = "sleeping" =>
          \A w \in Waiters :
             Parked(w) /\ sock[sess[w]] # "dropping" =>
                 \E v \in notified' : sess[v] = sess[w]]_vars

(* The periodic task, which holds the reactor only weakly, never exits while *)
(* a socket or a pending connect may still need it (reactor.rs:116-118,      *)
(* 174-178), and no operation outlives its socket.                           *)
TickerOutlivesSockets ==
    /\ ticker = "exited" => \A s \in Sessions : sock[s] = "free"
    /\ \A w \in Waiters : pc[w] # "idle" => sock[sess[w]] # "free"

(* No operation stalls for ever while its session could serve it: what the   *)
(* module comment of reactor.rs (16-40) promises of the tick, in spite of    *)
(* has_event, lost events, and reads, writes and abandoned waits sharing one *)
(* Notify.                                                                   *)
NoStall ==
    \A w \in Waiters : []<>~(pc[w] # "idle" /\ Polled(w) /\ CanDo(w))

(* The comment in VclStream::drop (stream.rs:255-259): the reactor's waiters *)
(* map "doesn't leak entries", i.e. has none for a closed session.           *)
NoWaiterLeak ==
    \A s \in Sessions : waiters[s] # NoNotify => sock[s] # "free"

(* What the comment needs to be true: only connect_async, which makes its    *)
(* session without the VclStream whose Drop deregisters it (stream.rs:255-   *)
(* 262), leaves entries behind; sockets that are bound or accepted do not.   *)
LeakOnlyByConnect == "connect_async" \notin OpKinds => NoWaiterLeak

(* Reactor as WaitSignals sees it: the Notify the map has for a session is   *)
(* the session's signal, a signalled future is a wait that has been handed   *)
(* one.                                                                      *)
Live == {s \in Sessions : sock[s] \in {"connecting", "open"}}
Waits == [s \in Sessions |-> {w \in Waiters : InWait(w) /\ sess[w] = s}]
Kept == {s \in Sessions : waiters[s] # NoNotify /\ permit[waiters[s]]}
Due == ticker = "notify"

Signals == INSTANCE WaitSignals
           WITH live <- Live, waits <- Waits, woken <- notified, kept <- Kept, due <- Due

(* wait_event, drain_events and the tick (reactor.rs:179-185, 229-326), with *)
(* the map of Arc<Notify> that operations clone, deregister removes and a    *)
(* failed connect_async leaves behind, implement WaitSignals: a signal wakes *)
(* only a wait of its own session, one wait each, and is never lost by a     *)
(* wait that is cancelled, times out or is served by the message queue.      *)
ImplementsSignals == Signals!Spec
=============================================================================
