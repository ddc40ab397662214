# A TLA+ model of vcl-rs

vcl-rs is a tokio binding for libvppcom, the client library of VPP's session
layer. This directory holds TLA+ modules translated from `src/src/*.rs`, the TLC
configurations that check them on small instances, and TLAPS proofs of the
properties that matter most. `PROJECT.json` maps every definition to its lines.

## The system

| Part | Source | State | Operations |
|---|---|---|---|
| Application | `app.rs` | `INITIALIZED`, `REGISTER_LOCK`, thread-local `REGISTERED`, prewarm's barrier | `init`, drop, `register_worker_thread`, `prewarm` |
| Reactor | `reactor.rs` | `waiters` map of `Arc<Notify>`, VCL epoll set, `AsyncFd` readiness, weakly held ticker | `new`, `register`, `deregister`, `wait_event`, drain, tick |
| Sockets | `stream.rs`, `listener.rs`, `dgram.rs` | session handle, reactor clone, the waits stored in a `VclStream` | bind, accept, connect, read, write, poll, shutdown, drop |
| Bind check, source probe | `dgram.rs` | a session, a temporary epoll set, a 200 ms window | `verify_bind_or_err`, `bind_random_ephemeral`, `probe_local_source` |
| Sync UDP clients | `dgram.rs` | a session and its deadline | `VclUdpSyncSocket`, `query_udp_sync` |
| TCP DNS clients | `dgram.rs` | a session, an `EpollGuard`, frame and response buffers | `query_tcp_dns_sync`, `query_tcp_dns_async`, framing |
| Handles, errors, FFI | `session.rs`, `error.rs`, `ffi.rs` | none beyond the handle | marshalling, `from_rc`, bindings |

How they interact: every thread registers with the application before it uses a
session. Sockets register their session with a reactor and hold a clone of it.
An operation makes its FFI call and, when that would block, awaits `wait_event`,
which races the message-queue eventfd, the session's `Notify` and a deadline.
The ticker drains the queue and signals every `Notify` of the map every 10 ms.
The synchronous clients use no reactor: they poll their session on a thread.
`VclStream::connect` takes a detour over tokio's blocking pool: its session is
made, and its blocking connect runs, on a thread that registers for the purpose.
Every return code goes through `from_rc`, every address through a
`vppcom_endpt_t`.

What is hard here: VPP loses events and masks them with `has_event`; the tasks of
one session share one `Notify`, whose signal wakes one of them; futures are
dropped at any await; handles are reused at once; epoll sets and sessions share
one handle pool; VPP's verdict on a bind is seen only while the queue is drained;
blocking threads come and go; late datagrams outlive the query they answer.
`hazards` in `PROJECT.json` lists these at the line where they bite.

## Modules

| Module | Models | Its state and actions in the code |
|---|---|---|
| `Notify` | `tokio::sync::Notify` (external) | permit, FIFO of parked futures, `notify_one`, `notified()`, the drop of a future that passes its signal on |
| `Reactor` | `reactor.rs` and the operation loops of the sockets | `pc` follows an operation: `try` (the FFI call), `enter` (the map's entry), `select`/`parked` (`select!`), `drain`, `clear`, `recheck`/`rechecking` (the zero timeout). A mutex section or an FFI call is one step. VPP is `Vpp...`, the I/O driver `IoDriver`, the periodic task `Tick...` |
| `App` | `app.rs` | `pc` of each thread through `init`, drop, `register_worker_thread`, a prewarm closure or a job with session calls |
| `Connect` | `VclStream::connect`, composed with `App` | `phase` of a call, `at` the thread of the runtime its task last ran on, `job` of its closure on the pool, the two sessions and the thread that owns each. A call begins on the main thread; after the await it goes on, or is dropped, on any thread of the runtime. `AppStep` is a step of `App` as the calls meet it |
| `Bind` | the binds, `verify_bind_or_err`, `probe_local_source` | `pc` of one bind or probe, the handle pool with reuse, VPP's verdict |
| `Endpoint` | `endpoint_into_buf`, `addr_from_endpoint` | operators: octets, buffer, byte order |
| `UdpQuery` | the synchronous UDP clients, on `Endpoint` | the receive loop, the FIFOs, a network that delays, loses, duplicates and reorders |
| `ErrorMap` | `VclError::from_rc` | operators: the table of codes, what is retried, what is fatal |
| `TcpDns` | both TCP DNS clients and the framing, on `ErrorMap` | each loop of a call, the source ports, the handshake, and a server that parses the frames. `api` says which client runs; `connect_async`, `write_all` and `read_exact` are the steps of the async one |
| `DnsExchange` | abstract: what a DNS client promises | the query is heard at most once, answered at most once, and the call ends with that answer or an error |
| `WaitSignals` | abstract: what the reactor promises those who wait | sessions, the waits on them, the signals handed to a wait or kept with a session, the sweep of the ticker; no map, no Notify, no eventfd |
| `ReactorProofs`, `TickProofs`, `SignalProofs`, `AppProofs`, `ConnectProofs`, `BindProofs`, `UdpProofs`, `TcpProofs` | theorems | |
| `MC...` | symmetry sets and inputs for TLC | |

Operators named `Bug...` are deliberate faults. `PROJECT.json` pairs each property
with the fault that violates it; no specification uses them.

Abstractions: fifos in `Reactor` count units and carry no bytes; `TcpDns` has
bytes in base 2, so that a two-digit prefix overflows at length 4, and
`Endpoint` has them too, with one octet for IPv4 and two for IPv6; time is a
deadline that may pass at any moment; the reactor appears in `TcpDns` as what
`Reactor` shows of its waits, which end within a tick or time out;
logging is left out. libvppcom, VPP, tokio and the network are external, and
modelled from how the crate uses them and from what its comments say of them.

## Runs that pass

| Run | Bounds | Shows |
|---|---|---|
| `reactor_stream` | 1 session, 2 tasks, RX 2, TX 1, 2 Notify objects, multi-thread | `WaitersReachable`: a wait holds the Notify the map has for its session. `TickerOutlivesSockets`. `TickWakes`: a tick leaves a signalled wait on every session that has parked ones. |
| `reactor_accept` | 2 sessions, 2 tasks, RX 1, current-thread | with a listener, the streams it accepts (opened and dropped only) and UDP sockets, `ImplementsSignals`: the reactor implements `WaitSignals`; `LeakOnlyByConnect`: without `connect_async` no entry of the map outlives its socket |
| `reactor_progress` | 1 session, 2 tasks, fifos of 1, current-thread | `NoStall`: `wait_readable`, `send_to`, `read` and `poll_read` never stay in a wait while the session could serve them, with a sibling or an abandoned wait on the same Notify, and after a half-close |
| `connect_workers` | pool of 2, main and another thread of the runtime, `prewarm(2)`, 1 init, 2 connects, 1 session per worker | `RegisterExclusive`, `NoSlotLeak`, `OneApp`; `RegisteredHasWorker`: the flag that skips a registration tells the truth; `PrewarmReturns`; `QuietAfterPrewarm` as long as no registration was refused and no thread replaced; `BarrierFills`: the closures of `prewarm` never all wait for each other; `WorkerUnlessUnsettled`: under the first `VclApp` a refused registration or a replaced thread is the only way to a session call without a worker; `HandlesLive`: with the same reservation, a handle of a call names an open session, and no other handle names it; `LeaksOnlyThere`: the four places where a connect leaves a session behind are the only ones, and a call that fails on the thread it began on leaves none; `ConnectReturns` |
| `bind_sockets` | 3 handles, 2 sockets, 2 ports, 2 tries, window 1 | `NoHandleLeak`, `BindReturns`, probes included; `StepsWindDown`: each step of a call brings its return closer; `SocketsLive` as long as VPP's verdicts come within the window |
| `udpquery_calls` | 3 peers and 5 hosts of both families, 2 ports, 2 queries, 3 deliveries | `AnswerFromPeer`, `AddressesExact`, `OneShotFresh`, `QueryReturns`; `ReadyAnswerTaken`: a datagram that is in the FIFO before a `recvfrom` and that the call accepts is returned, also past the deadline; `RecvLoopEnds`: past the deadline each step returns or uses up a datagram |
| `tcpdns_exchange` | base 2, queries up to length 5, bodies up to 3, 2 source ports | `ServerGetsQuery`, `BodyExact`, `HandlesClosed`; `Returns` for the synchronous client, and `DeadlineBinds`: past its deadline it takes at most as many steps as it has bytes to write, and three more; `Answered` for a call that meets no failure; `ClosedEnds`: a dead connection ends the call or the attempt; `ImplementsExchange` |

`TypeOK` (`WellTyped` in `connect_workers`) is checked once for each module.

Why the bounds are enough: the reactor's hazards need two futures on one Notify
(a sibling takes or drops the signal) and a handle that is reused, which one
session shows by closing and reopening; the second session of `reactor_accept`
adds the entry of another session. Two NotifyIds let an old Notify live beside a
new one. RX 2 allows a partial read. Two pool threads and the main one give a
lock holder, a waiter and a thread at the barrier; two connects on two pool
threads compete for both, and a session per worker can run out. Two source ports
are a first attempt and a retry. A port and its byte swap, and an IPv6 address
that begins with an IPv4 one, are among the addresses. Three handles hold a socket, a bind in
progress and its epoll set, and both sockets between binds. Two queries are a
late answer and its victim. Where the theorems below apply, the bounds do not
matter.

Deadlock is not checked where a system may rest: a reactor whose ticker has
exited, an application that no longer initialises, a finished query. `Bind` is
checked for it.

## Runs that are violated

Each states a sentence of the repository's docs or comments that the code does
not keep. `findings` quotes the sentence.

| Run | Property | What the code does |
|---|---|---|
| `reactor_leak` | `NoWaiterLeak` | a `connect_async` that fails or is cancelled in its wait leaves its entry in the map |
| `app_refused` | `SessionHasWorker` | a refused registration is not reported, session calls follow |
| `connect_owner` | `SessionOpsOnOwner` | the stream `connect` returns holds a session of a pool thread's worker |
| `bind_double_close` | `ClosedOnce` | a rejected bind closes its handle twice |
| `udpquery_stale` | `LateAnswersDiscarded` | a late answer of the same peer is accepted |

For two of them a passing run says how far the sentence does hold: `LeakOnlyByConnect`
that no other operation leaves an entry behind, `WorkerUnlessUnsettled` that under the first
`VclApp` nothing but a refusal or a replaced thread lets a session call through.

`bind_double_close` and `SocketsLive` belong together: the handle is closed twice,
but both closes run on the thread that binds, with no allocation in between, so
no other socket of the same worker loses its session. That argument ends when a
verdict misses the window (`missed`): a late rejection frees the handle under a
live socket, and the next bind may be given it.

Smaller disagreements that the models contain but no run singles out:

- `init` with a NUL in the name leaves `INITIALIZED` set (`app.rs:59`), so later
  calls report "VCL already initialized".
- `REGISTERED` outlives the app: `drop` resets `INITIALIZED` (`app.rs:186`), and
  after another `init` a thread skips its registration. The doc of `init` asks for
  one call per process.
- "no further registrations happen" after `prewarm` (`app.rs:31-33`) needs pool
  threads that never expire; tokio's default keep-alive is 10 s.
- "the wall-clock cost is the failure case only" (`dgram.rs:42-44`): the drain loop
  looks only at the clock, so every bind takes the whole 200 ms.
- `query` waits "up to `timeout`" (`dgram.rs:866-867`): a stray datagram skips the
  deadline check (`dgram.rs:888`), so `QueryReturns` needs traffic that pauses.
- An answer that arrives between an empty `recvfrom` and the look at the clock
  (`dgram.rs:881`, `895`) is given up to the timeout; a `VclUdpSyncSocket` keeps it in
  its FIFO for the next query. `ReadyAnswerTaken` speaks of what came before.
- On a multi-thread runtime `connect` may go on on another thread after its await.
  If it then fails or is dropped, closing its first handle there does nothing
  (`stream.rs:96`, `dgram.rs:629-632`): the fourth disjunct of `LeaksOnlyThere`.
- `connect_async` hands back a "ready-to-use" stream (`stream.rs:116-119`): a tick
  ends its wait during the handshake, and the first call on the stream waits on.
- "Deregister" in the drop of a stream (`stream.rs:255-256`) speaks of a session
  registered with the reactor; `connect` never registers its own.
- `connect` ignores its `timeout` argument.
- `wait_readable`'s timeout is "silently re-armed" (`dgram.rs:241`); it returns `Ok`.
- `probe_local_source` is documented with a `sendto` (`dgram.rs:742-745`); the code
  calls `connect` (`dgram.rs:788`).
- `query_tcp_dns_async` bounds only its connects by `timeout`. Its reads wait 300 s,
  and each tick starts those anew: a server that stays silent holds the call.
- The module comment of `reactor.rs` says 50 ms where the code ticks at 10 ms.

## Fairness

- `Reactor`: the ticker runs (tokio's interval fires); a runnable task is polled,
  with strong fairness because the thread is taken and released all the time. Two
  assumptions concern chance: `select!` picks the branch it polls first at random,
  so a signalled future is not passed over for ever; and the tick's time does
  not depend on who heads a Notify's FIFO. Nothing is assumed of VPP, the eventfd,
  the application or deadlines. `write_all` is left out of the progress runs
  since its buffer has no size in the model.
- `Connect` (with `App`): threads run; a thread that waits for `REGISTER_LOCK` while
  others come and go gets it in the end, and a queued closure gets a thread,
  both by strong fairness since the resource is taken and released in between; VPP
  answers a blocking connect; the awaiting task is polled, on some thread of the
  runtime. The steps of one thread, and those of one call, share a condition. Nobody has to drop a
  call or a stream, and nothing is assumed of refusals or of threads that expire.
- `Bind`, `UdpQuery`, `TcpDns`: the calling thread (or the task, woken by the
  ticker) runs and time passes. A call of `TcpDns` that meets no failure
  (`reliable`) also has a server that goes on. `WaitTimeout` has no fairness.

## Implementations

`TcpDns` implements `DnsExchange` (`ImplementsExchange`, by TLC and by proof): `heard` is the
message the server can parse, `result` the body of a successful return. An attempt
from another source port is a stutter, because the frame is written only after
the last of them.

`Reactor` implements `WaitSignals` (`ImplementsSignals`, by TLC and by proof). There a
signal belongs to a session: it is handed to one of the session's waits or kept for
the next; exactly one wait of that session uses it up, by returning `Ok`; a wait
that is cancelled, times out or goes round through the message-queue branch hands
it to another wait or leaves it with the session; dropping the socket alone loses
it; and each sweep leaves one with every live session somebody waits on. In
`Reactor` the signal is the permit of the `Notify` that the map has for the session
(`Kept`) and the futures that have been signalled; what the mapping shows is that the
`Arc`s that waits keep, entries that `deregister` removes and handles that are
reused never carry a signal from one session's waits to another's. One exception
is part of `WaitSignals`, because the code has it: the entry that a failed
`connect_async` leaves in the map keeps its signal for the next user of the handle,
whose first wait may return at once. (`reactor_accept` has no `connect_async`; the theorem
covers it.)

`Connect` implements `App` (`ConnectImplementsApp`, by proof): it shares `App`'s
variables, each of its steps is a step of `App` or leaves them alone, and so what
is proved of `App` holds while connects run.

## Proofs

TLAPS proves, for every value of the constants that the named `ASSUME`s allow:

| Theorem | States |
|---|---|
| `ReactorProofs!TypeCorrect` | `Spec => []TypeOK` |
| `ReactorProofs!Reachable` | `Spec => []WaitersReachable` |
| `ReactorProofs!TickerOutlives` | `Spec => []TickerOutlivesSockets` |
| `TickProofs!TickWakesAlways` | `Spec => TickWakes` |
| `SignalProofs!ReactorImplementsSignals` | `Spec => ImplementsSignals` |
| `SignalProofs!LeaksOnlyByConnect` | `Spec => []LeakOnlyByConnect` |
| `AppProofs!AppTypeCorrect` | `Spec => []TypeOK` |
| `AppProofs!RegistrationExclusive` | `Spec => []RegisterExclusive` |
| `AppProofs!SlotsReturned` | `Spec => []NoSlotLeak` |
| `AppProofs!SingleApp` | `Spec => []OneApp` |
| `AppProofs!FlagIsTrue` | `Spec => []RegisteredHasWorker` |
| `AppProofs!PrewarmNeverStuck` | `Spec => []BarrierFills` |
| `AppProofs!PrewarmQuiets` | `Spec => []QuietAfterPrewarm` |
| `AppProofs!SessionsHaveWorkers` | `Spec => []WorkerUnlessUnsettled` |
| `ConnectProofs!ConnectImplementsApp` | `ConnectSpec => Spec` |
| `ConnectProofs!OnlyFourLeaks` | `ConnectSpec => LeaksOnlyThere` |
| `ConnectProofs!ConnectTypeCorrect` | `ConnectSpec => []WellTyped` |
| `ConnectProofs!HandlesStayLive` | `ConnectSpec => []HandlesLive` |
| `BindProofs!NothingLeaks` | `Spec => []NoHandleLeak` |
| `BindProofs!SocketsStayLive` | `Spec => []SocketsLive` |
| `BindProofs!BindTypeCorrect` | `Spec => []TypeOK` |
| `BindProofs!BindWindsDown` | `Spec => StepsWindDown` |
| `UdpProofs!AddressesAlwaysExact` | `Spec => []AddressesExact` |
| `UdpProofs!AnswersFromPeer` | `Spec => []AnswerFromPeer` |
| `UdpProofs!OneShotsFresh` | `Spec => []OneShotFresh` |
| `UdpProofs!ReadyAnswersTaken` | `Spec => ReadyAnswerTaken` |
| `UdpProofs!UdpTypeCorrect` | `Spec => []TypeOK` |
| `UdpProofs!RecvLoopsEnd` | `Spec => RecvLoopEnds` |
| `TcpProofs!ServerAlwaysGetsQuery` | `Spec => []ServerGetsQuery` |
| `TcpProofs!BodyAlwaysExact` | `Spec => []BodyExact` |
| `TcpProofs!HandlesAlwaysClosed` | `Spec => []HandlesClosed` |
| `TcpProofs!ClientImplementsExchange` | `Spec => ImplementsExchange` |
| `TcpProofs!TcpTypeCorrect` | `Spec => []TypeOK` |
| `TcpProofs!DeadlineAlwaysBinds` | `Spec => DeadlineBinds` |

`Reactor`. Neither invariant is inductive. `deregister` empties a map entry, and
a failed connect closes a session, so one must know who can be using the session
then. `Core` therefore says, for each waiter, `Own` (its Notify is the map's, it
is reachable there, its session is not closed, and only a wait stored in a
stream survives into that stream's drop), together with `Alone` (a pending
connect has its session to itself) and `TickerLast` (the ticker exits only after
the application's clone and every socket are gone, so no socket can be created
later). A step that changes nothing a waiter depends on (`Framed`) keeps its
`Own`. `AllFramed` covers the steps that frame every waiter, `WaiterStep`,
`StepCore` and `ConnectEnds` the steps of one waiter; starting an operation and
dropping or closing a socket have cases of their own.

`TickWakes` asks that a signal sent to a Notify reaches a wait of the right
session. `Fifo` says that a parked wait is queued or signalled, not both, and
that `ahead` is a strict total order on the waits queued on one Notify, so that a
finite non-empty queue has one head for `notify_one` to wake (`QueueHead`). `Map` says
that no two sessions of the map share a Notify, and that whoever holds a Notify
of the map waits on its session. `TickStep` puts them together with `Core`.

`WaitSignals`. The refinement needs these invariants and one more, `Dropped`: a
socket that is being dropped has no entry, so no signal is sent to its waits.
`DropHandsOn` says that tokio's drop of a future is the abstract hand-over (the total
order makes it one wait), `NotifySignals` that any notify_one for entries of the map
is a signal to waits of live sessions, `TickSweeps` that the tick's is a sweep.
Each action of `wait_event` and of a socket's life then has a lemma of its own, and
`SignalsNext` collects them; the calls on the session, VPP and the I/O driver are
stutters. `Dropped` with `NoConnect` (no operation is a `connect_async`) also gives
`LeakOnlyByConnect`.

`App`. `AppCore` says that a thread holds `REGISTER_LOCK` exactly while it is
between the lock and its release, that it sets `REGISTERED` only with a worker,
that a slot without a worker is the lock holder's, and that `INITIALIZED` covers
the single init or drop in progress. `FlagCore` adds that before the first
`vppcom_app_create` nobody has registered or is about to. `WarmCore` places the closures
of `prewarm`, and `WarmCount` counts: the closures not yet taken up, and the threads
that run one (`Occupied`), are those `prewarm` still waits for. A pool of at least N threads
therefore has an idle one while a closure is left, which gives `BarrierFills`; and at the
barrier every thread of a pool of at most N has a closure of its own, hence a
worker, which `Warmed` keeps, for `QuietAfterPrewarm`. (A pool of more than N threads has
some that `prewarm` does not reach.)

`Connect`. `ConnectCore` says which phases and jobs hold a handle, that a call's
first session is the main thread's, and that the closure runs on a pool thread,
which owns its session until it returns: a handle is then closed on the thread
that can close it, except by the stream and by a task that has moved. `LostWasHeld` then says that a step can only lose a session
that was held before it, and each action is examined for the handles it gives up.
`HandlesLive` is inductive beside `ConnectCore` once `WorkersKept` says that workers, and
so their sessions, go only with the app while no thread is replaced.

`UdpQuery`. `RecvExact` and `SendExact` say that marshalling followed by what the other
side does with the bytes is the identity; they rest on `SwapTwice`, the byte swap
of a two-digit number, for any base. `Addressed` says that the answers under way
to the latest query come from its peer, and nothing is numbered beyond it. The
datagram a running query sees is the head of its FIFO (`HeadExact`). `Fresh` says
that only open sessions have a FIFO, that a running `query_udp_sync` has a session
to itself, and that what reaches it answers it, or nothing, unless something was
under way to its port when it bound. `UdpRest` bounds the FIFOs and completes the type
invariant. `ReadyAnswerTaken` needs that what arrives, and what is taken from the head,
leaves the other datagrams in the FIFO (`FifoKeeps`).

`Bind`. `Places` says at which steps a call owns a session and an epoll set, `Owned`
that everything allocated belongs to the call or to a socket. `SocketsLive` needs
more, because a rejected handle is closed again later: `Judged` follows what is
under the call's handle from `listen` to the comparison of the ports, and `Apart`
says that no socket's handle is the call's. `Apart` is claimed only while no verdict
was missed (`MissedNext`), which is where the late rejection described above ends it.
`StepsWindDown` is the termination argument of `BindReturns` as an action property: `Rank`
adds up the attempts, the stages and the window that are left, and every step
lowers it, wakeups of the drain loop between two ticks of the clock excepted.

`TcpDns`. `Shapes` reduces every step to what it does to the data and the result.
`Sending` says that the server has received the first `sent` bytes of the frame, and
`ParseFrame` that such a part parses only when it is the whole; it rests on
`PrefixValue`, that the prefix of a length below `Base^2` has that value. `Stream` says
that the prefix read, the body read, the RX FIFO and what the server still has
to send are, in this order, the answer's frame and its trailer (`Split`); `Cut`, `Glue`
and `Move` say that reads and segments keep this. `BodyRead` concludes that the body
loop ends with the answer. `HandleInv` says at which steps a session and an epoll
set are open and when the guard covers the latter. The refinement follows from the
first two and `Shapes`. `Control` says which client is where and what it has left, and
with `Sending` gives the type invariant and `DeadlineBinds`.

Assumptions: `NotifyAssumption` and `ReactorAssumption` (finitely many waiters,
bounds that are naturals), `AppAssumption` (a finite pool without the main
thread), `ConnectAssumption` (the runtime's other threads are not those of `App`),
`EndpointAssumption` and `UdpQueryAssumption` (at least two values of a byte,
an IPv4 address shorter than the buffer, addresses in range), `BindAssumption`
(ports and bounds that are positive), `TcpDnsAssumption` (at least two values of
a byte, answers that fit the prefix; queries may be longer). TLC evaluates them
in every run of their module.

Only model-checked: the liveness properties `NoStall`, `PrewarmReturns`, `ConnectReturns`,
`BindReturns`, `QueryReturns`, `Returns`, `Answered` and `ClosedEnds`, since liveness under
fairness is outside the prover's reach. For four of them the safety half of the
argument is proved: `BarrierFills` (nobody waits for everybody), `StepsWindDown`,
`RecvLoopEnds` and `DeadlineBinds` (a measure that falls with each step). Every invariant,
action property and refinement that a passing run checks is also a theorem.

## Not modelled

- `ffi.rs`, `lib.rs`, the example and the fuzz target: declarations,
  documentation and harnesses. What libvppcom does is the external part of every
  module.
- The error returns of `VclReactor::new`, the stall warning and the alive log:
  no state follows from them.
- `set_nodelay`, whose result is ignored, `peer_addr`, and the addresses that
  `accept` and `local_addr` return: they pass through the `addr_from_endpoint` that
  `UdpQuery` checks on `recvfrom`. `poll_flush` does nothing.
- That every bind spends the whole 200 ms of its drain: a cost, visible in `Bind`
  as `DrainEnd`, with no wrong state to state.
- Where a connect begins: on the main thread, after `prewarm`. The runtime's other
  threads appear in `Connect` only as the place where a task goes on or is dropped. They
  are taken to have a worker, from `on_thread_start` (`app.rs:37-39`).
- Errors of `mq_fd.readable()` and fatal codes of a call other than a closed
  session: an operation that ends with one leaves what `Cancel` or `TryClosed` leaves.
- A second `init` in one process is in `App` but not in the bounds of
  `connect_workers`; the theorems on `App` cover any number.

## Plan

1. Built: `Notify`, `Reactor`, `WaitSignals`, `App`, `Connect`, `Bind`, `Endpoint`, `UdpQuery`,
   `ErrorMap`, `TcpDns`, `DnsExchange`, their runs, and the proofs listed above.
2. `TcpDns` over `WaitSignals`, in place of the wait that it assumes.
3. A composition of `Connect` and `Bind` on several threads, where handles name
   workers.
