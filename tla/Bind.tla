-------------------------------- MODULE Bind --------------------------------
(***************************************************************************)
(* VclDgramSocket::bind, bind_ephemeral_v4/_v6, VclListener::bind,         *)
(* verify_bind_or_err and probe_local_source: who owns which libvppcom     *)
(* handle on which path.                                                   *)
(*                                                                         *)
(* One worker thread binds and drops sockets.  libvppcom (external) hands  *)
(* out handles from one pool for sessions and epoll sets, reuses closed    *)
(* ones, and learns VPP's verdict on a bind only while the message queue   *)
(* is drained.  Operators named Bug... are faults of the code, used only   *)
(* to show that a property would notice them.                              *)
(***************************************************************************)
EXTENDS Integers

CONSTANTS
    Handles,   \* libvppcom's handle pool of this worker
    Sockets,   \* sockets and listeners the application may hold at once
    Ports,     \* ports a caller may ask for
    Tries,     \* attempts of bind_random_ephemeral and of the probe (8 in the code)
    Window     \* length of the 200 ms drain window, in clock steps

NoHandle == "none"
NoPort == 0

ASSUME BindAssumption ==
    /\ NoHandle \notin Handles
    /\ Ports \subseteq Nat \ {NoPort}
    /\ Tries \in Nat \ {0} /\ Window \in Nat \ {0}

VARIABLES
    sess,     \* [Handles -> state of what libvppcom has under the handle]
    port,     \* [Handles -> port VPP bound, NoPort before its verdict]
    closes,   \* [Handles -> vppcom_session_close calls since allocation, up to 2]
    taken,    \* ports other applications listen on
    pc,       \* where the running bind is
    cur, vep, \* the handles it owns
    want,     \* the port it asked for
    tries,    \* attempts left
    elapsed,  \* clock steps spent in verify_bind_or_err's drain
    held,     \* [Sockets -> the handle inside the socket, or NoHandle]
    asked,    \* [Sockets -> the port it was bound to]
    watched,  \* sessions in the reactor's epoll set
    missed    \* some socket was returned before VPP's verdict on its bind

pool == <<sess, port, closes>>
vars == <<pool, taken, pc, cur, vep, want, tries, elapsed, held, asked, watched, missed>>

States == {"free", "new", "asked", "live", "epoll"}
PCs == {"idle", "create", "bind", "listen", "epoll_create", "epoll_add", "drain",
        "epoll_close", "local_addr", "temp_drop", "compare", "register", "drop",
        "probe_create", "probe_bind", "probe_connect", "probe_drop"}

TypeOK ==
    /\ sess \in [Handles -> States]
    /\ port \in [Handles -> Ports \cup {NoPort}]
    /\ closes \in [Handles -> 0..2]
    /\ taken \subseteq Ports
    /\ pc \in PCs
    /\ cur \in Handles \cup {NoHandle} /\ vep \in Handles \cup {NoHandle}
    /\ want \in Ports
    /\ tries \in 0..Tries /\ elapsed \in 0..Window
    /\ held \in [Sockets -> Handles \cup {NoHandle}]
    /\ asked \in [Sockets -> Ports \cup {NoPort}]
    /\ watched \subseteq Handles /\ missed \in BOOLEAN

Init ==
    /\ sess = [h \in Handles |-> "free"]
    /\ port = [h \in Handles |-> NoPort]
    /\ closes = [h \in Handles |-> 0]
    /\ taken \in SUBSET Ports
    /\ pc = "idle" /\ cur = NoHandle /\ vep = NoHandle
    /\ want \in Ports /\ tries = 0 /\ elapsed = 0
    /\ held = [k \in Sockets |-> NoHandle]
    /\ asked = [k \in Sockets |-> NoPort]
    /\ watched = {} /\ missed = FALSE

-----------------------------------------------------------------------------
(* libvppcom's handle pool.                                                  *)

Alloc(h, s) ==
    /\ sess[h] = "free"
    /\ sess' = [sess EXCEPT ![h] = s]
    /\ port' = [port EXCEPT ![h] = NoPort]
    /\ closes' = [closes EXCEPT ![h] = 0]

(* vppcom_session_close, on whatever the handle denotes by now.              *)
Close(h) ==
    /\ sess' = [sess EXCEPT ![h] = "free"]
    /\ port' = [port EXCEPT ![h] = NoPort]
    /\ closes' = [closes EXCEPT ![h] = IF @ < 2 THEN @ + 1 ELSE 2]

Listening(p) == p \in taken \/ \E h \in Handles : port[h] = p

(* VPP's verdict reaches bound_handler: the port asked for, another one, or  *)
(* a rejection, for which libvppcom closes the session itself.               *)
Verdict(h) ==
    \/ /\ sess' = [sess EXCEPT ![h] = "live"]
       /\ \E p \in Ports : /\ ~Listening(p)
                           /\ port' = [port EXCEPT ![h] = p]
    \/ /\ sess' = [sess EXCEPT ![h] = "free"]
       /\ UNCHANGED port

-----------------------------------------------------------------------------
(* SocketAddr to bind: the caller's own, or a random one per attempt.        *)
BindCall ==
    /\ pc = "idle" /\ \E k \in Sockets : held[k] = NoHandle
    /\ pc' = "create"
    /\ want' \in Ports
    /\ tries' \in {1, Tries}
    /\ UNCHANGED <<pool, taken, cur, vep, elapsed, held, asked, watched, missed>>

Fail(l) == pc' = l /\ UNCHANGED pool

(* bind_random_ephemeral draws another port and tries again; bind gives up.  *)
BugRetryCount ==
    /\ tries' = tries - 1
    /\ \/ tries > 0 /\ pc' = "create" /\ want' \in Ports
       \/ tries = 0 /\ pc' = "idle" /\ UNCHANGED want

BugRetry ==
    \/ tries > 0 /\ pc' = "create" /\ want' \in Ports /\ UNCHANGED tries
    \/ tries = 0 /\ pc' = "idle" /\ UNCHANGED <<want, tries>>

Retry ==
    /\ tries' = tries - 1
    /\ \/ tries > 1 /\ pc' = "create" /\ want' \in Ports
       \/ tries = 1 /\ pc' = "idle" /\ UNCHANGED want

(* SessionHandle::create_udp / create_tcp: on error there is nothing to drop.*)
Create ==
    /\ pc = "create"
    /\ \/ /\ \E h \in Handles : Alloc(h, "new") /\ cur' = h
          /\ pc' = "bind"
          /\ UNCHANGED <<want, tries>>
       \/ Retry /\ UNCHANGED <<pool, cur>>
    /\ UNCHANGED <<taken, vep, elapsed, held, asked, watched, missed>>

(* handle.bind and handle.listen: each may fail at once.                     *)
SessionBind ==
    /\ pc = "bind"
    /\ Fail("listen") \/ Fail("drop")
    /\ UNCHANGED <<taken, cur, vep, want, tries, elapsed, held, asked, watched, missed>>

SessionListen ==
    /\ pc = "listen"
    /\ \/ /\ sess' = [sess EXCEPT ![cur] = "asked"]
          /\ pc' = "epoll_create"
          /\ UNCHANGED <<port, closes>>
       \/ Fail("drop")
    /\ UNCHANGED <<taken, cur, vep, want, tries, elapsed, held, asked, watched, missed>>

EpollCreate ==
    /\ pc = "epoll_create"
    /\ \/ /\ \E h \in Handles : Alloc(h, "epoll") /\ vep' = h
          /\ pc' = "epoll_add"
       \/ Fail("drop") /\ UNCHANGED vep
    /\ UNCHANGED <<taken, cur, want, tries, elapsed, held, asked, watched, missed>>

(* vppcom_epoll_ctl ADD; when it fails the epoll set is closed before the    *)
(* error is returned.                                                        *)
BugEpollAdd ==
    /\ pc = "epoll_add"
    /\ elapsed' = 0
    /\ \/ pc' = "drain" /\ UNCHANGED <<pool, vep>>
       \/ Fail("drop") /\ vep' = NoHandle
    /\ UNCHANGED <<taken, cur, want, tries, held, asked, watched, missed>>

EpollAdd ==
    /\ pc = "epoll_add"
    /\ elapsed' = 0
    /\ \/ pc' = "drain" /\ UNCHANGED <<pool, vep>>
       \/ Close(vep) /\ pc' = "drop" /\ vep' = NoHandle
    /\ UNCHANGED <<taken, cur, want, tries, held, asked, watched, missed>>

(* One vppcom_epoll_wait: it returns on an event or after 30 ms and may run  *)
(* bound_handler.  The loop asks only for the time.                          *)
Drain ==
    /\ pc = "drain" /\ elapsed < Window
    /\ elapsed' \in {elapsed, elapsed + 1}
    /\ \/ sess[cur] = "asked" /\ Verdict(cur)
       \/ UNCHANGED <<sess, port>>
    /\ UNCHANGED <<closes, taken, pc, cur, vep, want, tries, held, asked, watched, missed>>

DrainEnd ==
    /\ pc = "drain" /\ elapsed = Window
    /\ pc' = "epoll_close"
    /\ UNCHANGED <<pool, taken, cur, vep, want, tries, elapsed, held, asked, watched, missed>>

EpollClose ==
    /\ pc = "epoll_close"
    /\ Close(vep)
    /\ vep' = NoHandle
    /\ pc' = "local_addr"
    /\ UNCHANGED <<taken, cur, want, tries, elapsed, held, asked, watched, missed>>

(* local_addr fails on a closed session; the `?` then leaves with the        *)
(* temporary SessionHandle still to be dropped.  An unanswered session       *)
(* reports the port it asked for.                                            *)
LocalAddr ==
    /\ pc = "local_addr"
    /\ pc' = IF sess[cur] = "free" THEN "temp_drop" ELSE "compare"
    /\ UNCHANGED <<pool, taken, cur, vep, want, tries, elapsed, held, asked, watched, missed>>

TempDrop ==
    /\ pc = "temp_drop"
    /\ Close(cur)
    /\ pc' = "drop"
    /\ UNCHANGED <<taken, cur, vep, want, tries, elapsed, held, asked, watched, missed>>

BugComparePorts ==
    /\ pc = "compare"
    /\ pc' = "register"
    /\ UNCHANGED <<pool, taken, cur, vep, want, tries, elapsed, held, asked, watched, missed>>

ComparePorts ==
    /\ pc = "compare"
    /\ pc' = IF port[cur] \in {want, NoPort} THEN "register" ELSE "drop"
    /\ UNCHANGED <<pool, taken, cur, vep, want, tries, elapsed, held, asked, watched, missed>>

(* reactor.register, then the socket owns the handle.                        *)
Register ==
    /\ pc = "register"
    /\ \/ /\ watched' = watched \cup {cur}
          /\ \E k \in Sockets : /\ held[k] = NoHandle
                                /\ held' = [held EXCEPT ![k] = cur]
                                /\ asked' = [asked EXCEPT ![k] = want]
          /\ missed' = (missed \/ sess[cur] = "asked")
          /\ pc' = "idle" /\ cur' = NoHandle /\ tries' = 0
       \/ pc' = "drop" /\ UNCHANGED <<watched, held, asked, missed, cur, tries>>
    /\ UNCHANGED <<pool, taken, vep, want, elapsed>>

(* The error path of bind: its SessionHandle is dropped.                     *)
Drop ==
    /\ pc = "drop"
    /\ Close(cur)
    /\ cur' = NoHandle
    /\ Retry
    /\ UNCHANGED <<taken, vep, elapsed, held, asked, watched, missed>>

(* VclDgramSocket / VclListener drop: deregister, then close the session.    *)
DropSocket(k) ==
    /\ pc = "idle" /\ held[k] # NoHandle
    /\ watched' = watched \ {held[k]}
    /\ Close(held[k])
    /\ held' = [held EXCEPT ![k] = NoHandle]
    /\ asked' = [asked EXCEPT ![k] = NoPort]
    /\ UNCHANGED <<taken, pc, cur, vep, want, tries, elapsed, missed>>

(* A verdict that missed the window is taken from the queue by the reactor.  *)
LateVerdict(k) ==
    /\ pc = "idle" /\ held[k] # NoHandle /\ sess[held[k]] = "asked"
    /\ Verdict(held[k])
    /\ UNCHANGED <<closes, taken, pc, cur, vep, want, tries, elapsed, held, asked, watched, missed>>

(* Another application starts or stops listening.                            *)
OtherApp ==
    /\ \E p \in Ports :
          \/ ~Listening(p) /\ taken' = taken \cup {p}
          \/ p \in taken /\ taken' = taken \ {p}
    /\ UNCHANGED <<pool, pc, cur, vep, want, tries, elapsed, held, asked, watched, missed>>

-----------------------------------------------------------------------------
(* probe_local_source: a blocking UDP session on a wildcard address and a    *)
(* random port, redrawn on the same session while bind refuses ...           *)
ProbeCall ==
    /\ pc = "idle"
    /\ pc' = "probe_create" /\ tries' = Tries
    /\ UNCHANGED <<pool, taken, cur, vep, want, elapsed, held, asked, watched, missed>>

ProbeCreate ==
    /\ pc = "probe_create"
    /\ \/ (\E h \in Handles : Alloc(h, "new") /\ cur' = h) /\ pc' = "probe_bind" /\ UNCHANGED tries
       \/ Fail("idle") /\ tries' = 0 /\ UNCHANGED cur
    /\ UNCHANGED <<taken, vep, want, elapsed, held, asked, watched, missed>>

ProbeBind ==
    /\ pc = "probe_bind"
    /\ \/ pc' = "probe_connect" /\ UNCHANGED tries
       \/ tries' = tries - 1 /\ pc' = IF tries = 1 THEN "probe_drop" ELSE "probe_bind"
    /\ UNCHANGED <<pool, taken, cur, vep, want, elapsed, held, asked, watched, missed>>

(* ... then connect, which makes VPP choose a source, and local_addr: when   *)
(* either fails, and when neither does, the session is dropped.              *)
ProbeConnect ==
    /\ pc = "probe_connect"
    /\ pc' = "probe_drop"
    /\ UNCHANGED <<pool, taken, cur, vep, want, tries, elapsed, held, asked, watched, missed>>

ProbeDrop ==
    /\ pc = "probe_drop"
    /\ Close(cur)
    /\ cur' = NoHandle /\ tries' = 0 /\ pc' = "idle"
    /\ UNCHANGED <<taken, vep, want, elapsed, held, asked, watched, missed>>

-----------------------------------------------------------------------------
Step ==
    \/ Create \/ SessionBind \/ SessionListen \/ EpollCreate \/ EpollAdd
    \/ Drain \/ DrainEnd \/ EpollClose \/ LocalAddr \/ TempDrop
    \/ ComparePorts \/ Register \/ Drop
    \/ ProbeCreate \/ ProbeBind \/ ProbeConnect \/ ProbeDrop

Next ==
    \/ BindCall \/ ProbeCall \/ Step \/ OtherApp
    \/ \E k \in Sockets : DropSocket(k) \/ LateVerdict(k)

Spec == Init /\ [][Next]_vars

(* The binding thread runs, and time passes while it waits.                  *)
FairSpec == Spec /\ WF_vars(Step) /\ WF_vars(Drain /\ elapsed' > elapsed)

-----------------------------------------------------------------------------
(* Every handle is given back: between calls the only things allocated in    *)
(* libvppcom are the sessions inside sockets (dgram.rs:71-76, 89-91,         *)
(* session.rs:244-248), whichever step of a bind, a retry or a probe failed. *)
NoHandleLeak ==
    pc = "idle" => \A h \in Handles : sess[h] # "free" => \E k \in Sockets : held[k] = h

(* Dropping one handle never takes away another's session: while VPP has     *)
(* answered every bind within its window every socket has a live session of  *)
(* its own on the port it asked for, watched by the reactor                  *)
(* (dgram.rs:130-149, listener.rs:18-32).                                    *)
SocketsLive ==
    ~missed => \A k \in Sockets : held[k] # NoHandle =>
        /\ sess[held[k]] = "live" /\ port[held[k]] = asked[k]
        /\ held[k] \in watched
        /\ \A j \in Sockets : held[j] = held[k] => j = k

(* A bind always returns, whatever fails and however often                   *)
(* bind_random_ephemeral or the probe retries (dgram.rs:79-88, 177-188,      *)
(* 773-779).                                                                 *)
BindReturns == pc # "idle" ~> pc = "idle"

(* What a running call has before it: the stages of this attempt, the part   *)
(* of the drain window that has not passed, and the attempts left.           *)
StagesLeft ==
    [idle |-> 0, create |-> 12, bind |-> 11, listen |-> 10, epoll_create |-> 9, epoll_add |-> 8,
     drain |-> 7, epoll_close |-> 6, local_addr |-> 5, temp_drop |-> 4, compare |-> 4,
     register |-> 3, drop |-> 2,
     probe_create |-> 4, probe_bind |-> 3, probe_connect |-> 2, probe_drop |-> 1]

WindowLeft ==
    IF pc \in {"create", "bind", "listen", "epoll_create", "epoll_add"} THEN Window
    ELSE IF pc = "drain" THEN Window - elapsed
    ELSE 0

Rank == tries * (Window + 13) + StagesLeft[pc] + WindowLeft

(* Nothing in bind, bind_random_ephemeral or the probe starts over for free  *)
(* (dgram.rs:79-88, 177-188, 773-779): every step of a running call, failed  *)
(* ones included, brings its return closer, save one wakeup of the drain     *)
(* loop before the clock has moved.                                          *)
StepsWindDown ==
    [][Step => \/ Rank' < Rank
               \/ pc = "drain" /\ pc' = pc /\ elapsed' = elapsed]_vars

(* dgram.rs:108: "Don't run the handle's Drop -- caller still owns it": the   *)
(* session is closed once.                                                   *)
ClosedOnce == \A h \in Handles : closes[h] <= 1
=============================================================================
