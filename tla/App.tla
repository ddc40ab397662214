-------------------------------- MODULE App ---------------------------------
(***************************************************************************)
(* src/src/app.rs: VclApp::init and drop, register_worker_thread, prewarm, *)
(* and the jobs that register their thread and then use VCL sessions.      *)
(*                                                                         *)
(* Threads are the main thread and tokio's blocking pool.  The atomic      *)
(* INITIALIZED, the REGISTER_LOCK mutex, the REGISTERED thread-locals and  *)
(* the barrier of prewarm are the shared state; libvppcom's worker pool is *)
(* external.  Operators named Bug... are faults of the code, used only to  *)
(* show that a property would notice them.                                 *)
(***************************************************************************)
EXTENDS Integers, FiniteSets

CONSTANTS
    Pool,       \* threads of tokio's blocking pool
    Main,       \* the thread that awaits prewarm
    N,          \* prewarm's argument
    MaxInits    \* bound: how often vppcom_app_create succeeds

Threads == Pool \cup {Main}
NoThread == "nobody"

ASSUME AppAssumption ==
    /\ IsFiniteSet(Pool) /\ Main \notin Pool /\ NoThread \notin Threads
    /\ N \in Nat /\ MaxInits \in Nat

VARIABLES
    initialized, \* the static INITIALIZED
    handle,      \* a VclApp value exists
    inits,       \* successful vppcom_app_create calls so far
    registered,  \* [Threads -> BOOLEAN]: the thread-local REGISTERED
    lock,        \* holder of REGISTER_LOCK, or NoThread
    worker,      \* [Threads -> BOOLEAN]: libvppcom has a usable worker
    slot,        \* [Threads -> BOOLEAN]: a slot of the local worker pool is taken
    unsettled,   \* a registration was refused, or a pool thread replaced
    pc,          \* [Threads -> PCs]
    after,       \* [Threads -> PCs]: what follows register_worker_thread
    prewarm,     \* "no", "waiting" or "done"
    tasks,       \* closures of prewarm not yet on a thread
    left         \* closures of prewarm that have not passed the barrier

initVars == <<initialized, handle, inits>>
regVars == <<registered, lock, worker, slot, unsettled>>
warmVars == <<prewarm, tasks, left>>
vars == <<initVars, regVars, warmVars, pc, after>>

PCs == {"idle", "name", "create", "destroy", "check", "lock", "ffi", "failed",
        "set", "barrier", "session"}

TypeOK ==
    /\ initialized \in BOOLEAN /\ handle \in BOOLEAN /\ inits \in 0..MaxInits
    /\ registered \in [Threads -> BOOLEAN]
    /\ lock \in Threads \cup {NoThread}
    /\ worker \in [Threads -> BOOLEAN]
    /\ slot \in [Threads -> BOOLEAN]
    /\ unsettled \in BOOLEAN
    /\ pc \in [Threads -> PCs]
    /\ after \in [Threads -> {"idle", "barrier", "session"}]
    /\ prewarm \in {"no", "waiting", "done"}
    /\ tasks \in 0..N /\ left \in 0..N

Init ==
    /\ initialized = FALSE /\ handle = FALSE /\ inits = 0
    /\ registered = [t \in Threads |-> FALSE]
    /\ lock = NoThread
    /\ worker = [t \in Threads |-> FALSE]
    /\ slot = [t \in Threads |-> FALSE]
    /\ unsettled = FALSE
    /\ pc = [t \in Threads |-> "idle"]
    /\ after = [t \in Threads |-> "idle"]
    /\ prewarm = "no" /\ tasks = 0 /\ left = 0

Goto(t, l) == pc' = [pc EXCEPT ![t] = l]

-----------------------------------------------------------------------------
(* VclApp::init and its Drop.                                                *)

(* INITIALIZED.swap(true): when it was set, init returns Err at once.        *)
BugInitSwap(t) ==
    /\ pc[t] = "idle"
    /\ initialized' = TRUE
    /\ Goto(t, "name")
    /\ UNCHANGED <<handle, inits, regVars, warmVars, after>>

InitSwap(t) ==
    /\ pc[t] = "idle" /\ ~initialized
    /\ initialized' = TRUE
    /\ Goto(t, "name")
    /\ UNCHANGED <<handle, inits, regVars, warmVars, after>>

(* CString::new(app_name): a name with a NUL makes init return Err.          *)
InitName(t) ==
    /\ pc[t] = "name"
    /\ Goto(t, "create") \/ Goto(t, "idle")
    /\ UNCHANGED <<initVars, regVars, warmVars, after>>

(* vppcom_app_create makes the calling thread worker-0, or fails.            *)
InitCreate(t) ==
    /\ pc[t] = "create"
    /\ Goto(t, "idle")
    /\ \/ /\ inits < MaxInits
          /\ handle' = TRUE /\ inits' = inits + 1
          /\ worker' = [worker EXCEPT ![t] = TRUE]
          /\ slot' = [slot EXCEPT ![t] = TRUE]
          /\ UNCHANGED initialized
       \/ /\ initialized' = FALSE
          /\ UNCHANGED <<handle, inits, worker, slot>>
    /\ UNCHANGED <<registered, lock, unsettled, warmVars, after>>

(* The application drops its VclApp last: vppcom_app_destroy frees every     *)
(* worker, then INITIALIZED is reset.                                        *)
DropDestroy(t) ==
    /\ handle /\ prewarm # "waiting" /\ \A u \in Threads : pc[u] = "idle"
    /\ handle' = FALSE
    /\ worker' = [u \in Threads |-> FALSE]
    /\ slot' = [u \in Threads |-> FALSE]
    /\ prewarm' = "no"
    /\ Goto(t, "destroy")
    /\ UNCHANGED <<initialized, inits, registered, lock, unsettled, tasks, left, after>>

DropReset(t) ==
    /\ pc[t] = "destroy"
    /\ initialized' = FALSE
    /\ Goto(t, "idle")
    /\ UNCHANGED <<handle, inits, regVars, warmVars, after>>

-----------------------------------------------------------------------------
(* register_worker_thread.                                                   *)

BugRegisterCheck(t) ==
    /\ pc[t] = "check"
    /\ Goto(t, after[t])
    /\ UNCHANGED <<initVars, regVars, warmVars, after>>

RegisterCheck(t) ==
    /\ pc[t] = "check"
    /\ Goto(t, IF registered[t] THEN after[t] ELSE "lock")
    /\ UNCHANGED <<initVars, regVars, warmVars, after>>

BugRegisterLock(t) ==
    /\ pc[t] = "lock"
    /\ lock' = t
    /\ Goto(t, "ffi")
    /\ UNCHANGED <<initVars, registered, worker, slot, unsettled, warmVars, after>>

RegisterLock(t) ==
    /\ pc[t] = "lock" /\ lock = NoThread
    /\ lock' = t
    /\ Goto(t, "ffi")
    /\ UNCHANGED <<initVars, registered, worker, slot, unsettled, warmVars, after>>

(* vppcom_worker_register takes a slot of the local pool (a thread that has  *)
(* a worker keeps it) and asks VPP; vppcom_worker_index tells the outcome.   *)
RegisterFfi(t) ==
    /\ pc[t] = "ffi"
    /\ slot' = [slot EXCEPT ![t] = TRUE]
    /\ \/ worker' = [worker EXCEPT ![t] = TRUE] /\ Goto(t, "set") /\ UNCHANGED unsettled
       \/ /\ ~worker[t]
          /\ unsettled' = TRUE /\ Goto(t, "failed") /\ UNCHANGED worker
    /\ UNCHANGED <<initVars, registered, lock, warmVars, after>>

(* The refused registration gives its slot back and leaves REGISTERED clear; *)
(* the function returns () all the same and its caller goes on.              *)
BugRegisterFailed(t) ==
    /\ pc[t] = "failed"
    /\ lock' = NoThread
    /\ Goto(t, after[t])
    /\ UNCHANGED <<initVars, registered, worker, slot, unsettled, warmVars, after>>

BugRegisterAnyway(t) ==
    /\ pc[t] = "failed"
    /\ registered' = [registered EXCEPT ![t] = TRUE]
    /\ slot' = [slot EXCEPT ![t] = FALSE]
    /\ lock' = NoThread
    /\ Goto(t, after[t])
    /\ UNCHANGED <<initVars, worker, unsettled, warmVars, after>>

BugRegisterGivesUp(t) ==
    /\ pc[t] = "failed"
    /\ slot' = [slot EXCEPT ![t] = FALSE]
    /\ lock' = NoThread
    /\ Goto(t, "idle")
    /\ UNCHANGED <<initVars, registered, worker, unsettled, warmVars, after>>

RegisterFailed(t) ==
    /\ pc[t] = "failed"
    /\ slot' = [slot EXCEPT ![t] = FALSE]
    /\ lock' = NoThread
    /\ Goto(t, after[t])
    /\ UNCHANGED <<initVars, registered, worker, unsettled, warmVars, after>>

RegisterSet(t) ==
    /\ pc[t] = "set"
    /\ registered' = [registered EXCEPT ![t] = TRUE]
    /\ lock' = NoThread
    /\ Goto(t, after[t])
    /\ UNCHANGED <<initVars, worker, slot, unsettled, warmVars, after>>

-----------------------------------------------------------------------------
(* prewarm: N blocking closures, each registers its thread and waits on a    *)
(* barrier of N, so that N distinct threads are forced into being.           *)

PrewarmStart ==
    /\ prewarm = "no" /\ handle /\ pc[Main] = "idle"
    /\ prewarm' = "waiting" /\ tasks' = N /\ left' = N
    /\ UNCHANGED <<initVars, regVars, pc, after>>

PrewarmTask(t) ==
    /\ t \in Pool /\ pc[t] = "idle" /\ tasks > 0
    /\ tasks' = tasks - 1
    /\ after' = [after EXCEPT ![t] = "barrier"]
    /\ Goto(t, "check")
    /\ UNCHANGED <<initVars, regVars, prewarm, left>>

AtBarrier == {t \in Threads : pc[t] = "barrier"}

(* The N-th arrival releases everyone.                                       *)
BugBarrier ==
    /\ Cardinality(AtBarrier) = N + 1 /\ AtBarrier # {}
    /\ left' = 0
    /\ pc' = [t \in Threads |-> IF t \in AtBarrier THEN "idle" ELSE pc[t]]
    /\ UNCHANGED <<initVars, regVars, prewarm, tasks, after>>

Barrier ==
    /\ Cardinality(AtBarrier) = N /\ AtBarrier # {}
    /\ left' = 0
    /\ pc' = [t \in Threads |-> IF t \in AtBarrier THEN "idle" ELSE pc[t]]
    /\ UNCHANGED <<initVars, regVars, prewarm, tasks, after>>

BugPrewarmDone ==
    /\ prewarm = "waiting" /\ tasks = 0
    /\ prewarm' = "done"
    /\ UNCHANGED <<initVars, regVars, tasks, left, pc, after>>

PrewarmDone ==
    /\ prewarm = "waiting" /\ left = 0
    /\ prewarm' = "done"
    /\ UNCHANGED <<initVars, regVars, tasks, left, pc, after>>

-----------------------------------------------------------------------------
(* A job (query_udp_sync, connect, bind, ...) registers its thread and then  *)
(* makes session calls.  Main does so while it is not awaiting prewarm, the  *)
(* pool after prewarm, as prewarm asks of its callers.                       *)
JobStart(t) ==
    /\ pc[t] = "idle" /\ handle
    /\ IF t = Main THEN prewarm # "waiting" ELSE prewarm = "done"
    /\ after' = [after EXCEPT ![t] = "session"]
    /\ Goto(t, "check")
    /\ UNCHANGED <<initVars, regVars, warmVars>>

JobEnd(t) ==
    /\ pc[t] = "session"
    /\ Goto(t, "idle")
    /\ UNCHANGED <<initVars, regVars, warmVars, after>>

(* An idle pool thread exits; the thread that takes its place starts without *)
(* a worker and with a fresh thread-local.                                   *)
ThreadReplaced(t) ==
    /\ t \in Pool /\ pc[t] = "idle" /\ registered[t]
    /\ registered' = [registered EXCEPT ![t] = FALSE]
    /\ worker' = [worker EXCEPT ![t] = FALSE]
    /\ slot' = [slot EXCEPT ![t] = FALSE]
    /\ unsettled' = TRUE
    /\ UNCHANGED <<initVars, lock, warmVars, pc, after>>

-----------------------------------------------------------------------------
Register(t) ==
    \/ RegisterCheck(t) \/ RegisterLock(t) \/ RegisterFfi(t)
    \/ RegisterFailed(t) \/ RegisterSet(t)

Next ==
    \/ PrewarmStart \/ Barrier \/ PrewarmDone
    \/ \E t \in Threads :
          \/ InitSwap(t) \/ InitName(t) \/ InitCreate(t)
          \/ DropDestroy(t) \/ DropReset(t)
          \/ Register(t) \/ PrewarmTask(t)
          \/ JobStart(t) \/ JobEnd(t) \/ ThreadReplaced(t)

Spec == Init /\ [][Next]_vars

-----------------------------------------------------------------------------
InRegister(t) == pc[t] \in {"ffi", "failed", "set"}

(* REGISTER_LOCK (app.rs:24-34, 103): no two threads are ever inside         *)
(* libvppcom's unsafe worker-pool growth, and the lock is never left behind. *)
RegisterExclusive ==
    /\ \A t, u \in Threads : InRegister(t) /\ InRegister(u) => t = u
    /\ lock # NoThread => InRegister(lock)

(* A refused registration costs no slot of the local pool, however often it  *)
(* is retried (app.rs:91-97, 110-122): outside register_worker_thread a slot *)
(* is taken only by a usable worker.                                         *)
NoSlotLeak == \A t \in Threads : slot[t] => worker[t] \/ lock = t

(* REGISTERED tells the truth while the first VclApp lives: a thread that    *)
(* skips the registration (app.rs:100-102) has a usable worker, whatever VPP *)
(* refused and whichever threads tokio replaced.  (The flag outlives the     *)
(* VclApp: a second init finds it set on threads that have no worker.)       *)
RegisteredHasWorker ==
    handle /\ inits = 1 => \A t \in Threads : registered[t] => worker[t]

(* INITIALIZED (app.rs:55-57) admits one init at a time and none while a     *)
(* VclApp exists.                                                            *)
OneApp ==
    \A t, u \in Threads :
        pc[t] \in {"name", "create"} =>
            ~handle /\ (pc[u] \in {"name", "create", "destroy"} => t = u)

Grows(t) == pc[t] = "ffi" /\ ~worker[t]

(* What prewarm is for (app.rs:31-33, 145-159): once it has returned, no     *)
(* thread makes libvppcom's worker vector grow under the feet of session     *)
(* calls, unless VPP had refused a registration or tokio had replaced a      *)
(* thread.  prewarm fills a blocking pool of at most N threads; a thread     *)
(* outside it registers when it starts.                                      *)
QuietAfterPrewarm ==
    prewarm = "done" /\ ~unsettled /\ Cardinality(Pool) <= N => \A t \in Pool : ~Grows(t)

(* The closures of prewarm cannot end up waiting for each other              *)
(* (app.rs:157-179): while it is awaited, the barrier is passed or full, or  *)
(* an idle thread can take a closure that is left, or some closure goes on,  *)
(* REGISTER_LOCK being free if that is what it waits for.  The pool has N    *)
(* threads, as prewarm asks of its caller.                                   *)
BarrierFills ==
    prewarm = "waiting" /\ N <= Cardinality(Pool) =>
        \/ left = 0
        \/ Cardinality(AtBarrier) = N
        \/ tasks > 0 /\ \E t \in Pool : pc[t] = "idle"
        \/ \E t \in Pool : pc[t] \in {"check", "ffi", "failed", "set"}
        \/ lock = NoThread /\ \E t \in Pool : pc[t] = "lock"

(* prewarm always returns when the pool has N threads (app.rs:160-179), even *)
(* if VPP refuses registrations: nobody waits on the barrier or on           *)
(* REGISTER_LOCK for ever.                                                   *)
PrewarmReturns == prewarm = "waiting" ~> prewarm = "done"

(* app.rs:82-84: a thread "must call this before making a VCL call or         *)
(* libvppcom will SEGV": every session call is made with a worker.           *)
SessionHasWorker == \A t \in Threads : pc[t] = "session" => worker[t]

(* How far SessionHasWorker does hold (app.rs:98-140): under the first       *)
(* VclApp a thread gets to its session calls without a worker only if VPP    *)
(* had refused a registration or tokio had replaced a thread, however the    *)
(* thread-locals, the lock and prewarm are interleaved.                      *)
WorkerUnlessUnsettled == inits = 1 /\ ~unsettled => SessionHasWorker
=============================================================================
