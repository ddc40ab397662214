------------------------------ MODULE Connect -------------------------------
(***************************************************************************)
(* src/src/stream.rs: VclStream::connect on top of app.rs.  A call makes   *)
(* one session on the main thread, a second one on a thread of the         *)
(* blocking pool, where the blocking connect runs, and hands out a stream  *)
(* on the second.  A task may drop the call it awaits, and the closure     *)
(* then runs on by itself.  Calls begin on the main thread; after the      *)
(* await tokio goes on with the task there or, in a multi-thread runtime,  *)
(* on another of its threads, which registered when it started             *)
(* (app.rs:37-38) and is not followed further.                             *)
(*                                                                         *)
(* A session belongs to the worker of the thread that created it, which    *)
(* its handle names: on any other thread its calls, vppcom_session_close   *)
(* included, report VPPCOM_EBADFD (dgram.rs:629-632).  A session call on a *)
(* thread without a worker kills the process: the thread stays where it is *)
(* (Crashed).                                                              *)
(* Operators named Bug... are faults of the code, used only to show that a *)
(* property would notice them.                                             *)
(***************************************************************************)
EXTENDS App

CONSTANTS
    Others,     \* threads on which tokio runs tasks, Main aside
    Calls,      \* the tasks that call connect
    Slots       \* bound: the sessions a worker has room for

ASSUME ConnectAssumption == Others \cap Threads = {}

Runtime == {Main} \cup Others
Sessions == Threads \X Slots
NoSession == <<>>

VARIABLES
    open,       \* the open sessions
    phase,      \* [Calls -> {"idle", "enter", "await", "stream"}]
    at,         \* [Calls -> Runtime]: where the task last ran
    first,      \* [Calls -> Sessions or NoSession]: the call's own handle
    second,     \* [Calls -> Sessions or NoSession]: the closure's, then the stream's
    job,        \* [Calls -> Jobs]: the closure given to spawn_blocking
    thread      \* [Calls -> Pool or NoThread]: where the closure runs

connectVars == <<open, phase, at, first, second, job, thread>>
allVars == <<vars, connectVars>>

Jobs == {"none", "queued", "register", "connecting", "ok", "err"}

ConnectTypeOK ==
    /\ open \subseteq Sessions
    /\ phase \in [Calls -> {"idle", "enter", "await", "stream"}]
    /\ at \in [Calls -> Runtime]
    /\ first \in [Calls -> Sessions \cup {NoSession}]
    /\ second \in [Calls -> Sessions \cup {NoSession}]
    /\ job \in [Calls -> Jobs]
    /\ thread \in [Calls -> Pool \cup {NoThread}]

(* The state of app.rs and of the calls of VclStream::connect on it is well  *)
(* typed (app.rs:20-41, stream.rs:50-102).                                   *)
WellTyped == TypeOK /\ ConnectTypeOK

ConnectInit ==
    /\ Init
    /\ open = {}
    /\ phase = [c \in Calls |-> "idle"]
    /\ at = [c \in Calls |-> Main]
    /\ first = [c \in Calls |-> NoSession]
    /\ second = [c \in Calls |-> NoSession]
    /\ job = [c \in Calls |-> "none"]
    /\ thread = [c \in Calls |-> NoThread]

(* vppcom_session_create and vppcom_session_close on thread t.               *)
Create(s, t) ==
    /\ s[1] = t /\ s \notin open
    /\ open' = open \cup {s}

Close(s, t) == open' = IF s[1] = t THEN open \ {s} ELSE open

-----------------------------------------------------------------------------
(* The call, made after prewarm, registers the main thread ...               *)
ConnectEnter(c) ==
    /\ phase[c] = "idle" /\ job[c] = "none" /\ prewarm = "done"
    /\ JobStart(Main)
    /\ phase' = [phase EXCEPT ![c] = "enter"]
    /\ at' = [at EXCEPT ![c] = Main]
    /\ UNCHANGED <<open, first, second, job, thread>>

(* ... creates a session, binds it to the source and spawns the closure, or  *)
(* fails: the session was not created, or is closed again.                   *)
ConnectBegin(c) ==
    /\ phase[c] = "enter" /\ pc[Main] = "session" /\ worker[Main]
    /\ JobEnd(Main)
    /\ \/ /\ \E s \in Sessions : Create(s, Main) /\ first' = [first EXCEPT ![c] = s]
          /\ phase' = [phase EXCEPT ![c] = "await"]
          /\ job' = [job EXCEPT ![c] = "queued"]
       \/ /\ phase' = [phase EXCEPT ![c] = "idle"]
          /\ UNCHANGED <<open, first, job>>
    /\ UNCHANGED <<at, second, thread>>

(* The closure gets a thread of the pool and registers it.                   *)
BugClosureStart(c, t) ==
    /\ job[c] = "queued"
    /\ JobStart(t)
    /\ job' = [job EXCEPT ![c] = "register"]
    /\ thread' = [thread EXCEPT ![c] = t]
    /\ UNCHANGED <<open, phase, at, first, second>>

ClosureStart(c, t) ==
    /\ t \in Pool /\ job[c] = "queued"
    /\ JobStart(t)
    /\ job' = [job EXCEPT ![c] = "register"]
    /\ thread' = [thread EXCEPT ![c] = t]
    /\ UNCHANGED <<open, phase, at, first, second>>

(* The closure returns r; a cancelled call has no use for it.                *)
BugClosureReturns(c, r) ==
    /\ JobEnd(thread[c])
    /\ thread' = [thread EXCEPT ![c] = NoThread]
    /\ job' = [job EXCEPT ![c] = IF phase[c] = "await" THEN r ELSE "none"]
    /\ second' = [second EXCEPT ![c] = IF phase[c] = "await" THEN @ ELSE NoSession]
    /\ UNCHANGED <<phase, at, first>>

ClosureReturns(c, r) ==
    /\ JobEnd(thread[c])
    /\ thread' = [thread EXCEPT ![c] = NoThread]
    /\ job' = [job EXCEPT ![c] = IF phase[c] = "await" THEN r ELSE "none"]
    /\ second' = [second EXCEPT ![c] = IF phase[c] = "await" /\ r = "ok" THEN @ ELSE NoSession]
    /\ UNCHANGED <<phase, at, first>>

ClosureCreate(c) ==
    /\ job[c] = "register" /\ pc[thread[c]] = "session" /\ worker[thread[c]]
    /\ \/ /\ \E s \in Sessions : Create(s, thread[c]) /\ second' = [second EXCEPT ![c] = s]
          /\ job' = [job EXCEPT ![c] = "connecting"]
          /\ UNCHANGED <<vars, phase, at, first, thread>>
       \/ ClosureReturns(c, "err") /\ UNCHANGED open

(* VPP answers the blocking connect; a refused session is closed.            *)
BugClosureConnect(c) ==
    /\ job[c] = "connecting"
    /\ UNCHANGED open
    /\ \E r \in {"ok", "err"} : ClosureReturns(c, r)

ClosureConnect(c) ==
    /\ job[c] = "connecting"
    /\ \/ ClosureReturns(c, "ok") /\ UNCHANGED open
       \/ ClosureReturns(c, "err") /\ Close(second[c], thread[c])

(* The task goes on, on a thread of the runtime.                             *)
Resumes(c, t) ==
    /\ t = Main => pc[Main] = "idle"
    /\ at' = [at EXCEPT ![c] = t]

(* The await ends: on success the first handle is forgotten, not closed, and *)
(* the second becomes the stream's; on failure the first is dropped.         *)
BugJoin(c, t) ==
    /\ phase[c] = "await" /\ Resumes(c, t) /\ job[c] = "ok"
    /\ phase' = [phase EXCEPT ![c] = "stream"]
    /\ first' = [first EXCEPT ![c] = NoSession]
    /\ job' = [job EXCEPT ![c] = "none"]
    /\ UNCHANGED <<vars, open, second, thread>>

Join(c, t) ==
    /\ phase[c] = "await" /\ Resumes(c, t)
    /\ \/ /\ job[c] = "ok"
          /\ phase' = [phase EXCEPT ![c] = "stream"]
          /\ UNCHANGED open
       \/ /\ job[c] = "err"
          /\ phase' = [phase EXCEPT ![c] = "idle"]
          /\ Close(first[c], t)
    /\ first' = [first EXCEPT ![c] = NoSession]
    /\ job' = [job EXCEPT ![c] = "none"]
    /\ UNCHANGED <<vars, second, thread>>

(* The awaiting task drops the call: the first handle is closed; a result    *)
(* that is already there is dropped, a closure still to finish is not told.  *)
Cancel(c, t) ==
    /\ phase[c] = "await" /\ Resumes(c, t)
    /\ Close(first[c], t)
    /\ phase' = [phase EXCEPT ![c] = "idle"]
    /\ first' = [first EXCEPT ![c] = NoSession]
    /\ IF job[c] \in {"ok", "err"}
       THEN /\ job' = [job EXCEPT ![c] = "none"]
            /\ second' = [second EXCEPT ![c] = NoSession]
       ELSE UNCHANGED <<job, second>>
    /\ UNCHANGED <<vars, thread>>

(* VclStream::drop, by the task like every use of the stream.                *)
StreamDrop(c, t) ==
    /\ phase[c] = "stream" /\ Resumes(c, t)
    /\ Close(second[c], t)
    /\ phase' = [phase EXCEPT ![c] = "idle"]
    /\ second' = [second EXCEPT ![c] = NoSession]
    /\ UNCHANGED <<vars, first, job, thread>>

-----------------------------------------------------------------------------
(* A thread makes its session calls where connect says so.                   *)
Busy(t) ==
    \/ t = Main /\ \E c \in Calls : phase[c] = "enter"
    \/ \E c \in Calls : thread[c] = t

InUse == \E c \in Calls : phase[c] # "idle" \/ job[c] # "none"

(* What a step of app.rs means here.  Sessions end with the worker they      *)
(* belong to; the application drops its VclApp after its streams.            *)
Composed ==
    /\ \A t \in Threads : Busy(t) /\ pc[t] = "session" => pc'[t] = "session"
    /\ handle /\ ~handle' => ~InUse
    /\ open' = {s \in open : worker[s[1]] => worker'[s[1]]}
    /\ UNCHANGED <<phase, at, first, second, job, thread>>

AppStep == Next /\ Composed

Closure(c) ==
    (\E t \in Threads : ClosureStart(c, t)) \/ ClosureCreate(c) \/ ClosureConnect(c)

ConnectNext ==
    \/ AppStep
    \/ \E c \in Calls :
          \/ ConnectEnter(c) \/ ConnectBegin(c) \/ Closure(c)
          \/ \E t \in Runtime : Join(c, t) \/ Cancel(c, t) \/ StreamDrop(c, t)

(* The step that a call, or its closure, has to take next.                   *)
Proceed(c) == ConnectBegin(c) \/ Closure(c) \/ \E t \in Runtime : Join(c, t)

(* Threads run, and one that waits for REGISTER_LOCK while others come and   *)
(* go gets it in the end; the pool picks up queued closures; VPP answers a   *)
(* blocking connect; a task that awaits a finished closure gets its turn.    *)
(* Nobody has to drop a call or a stream.                                    *)
ConnectSpec ==
    /\ ConnectInit /\ [][ConnectNext]_allVars
    /\ WF_allVars((Barrier \/ PrewarmDone) /\ Composed)
    /\ \A t \in Threads :
          SF_allVars((Register(t) \/ PrewarmTask(t) \/ JobEnd(t)) /\ Composed)
    /\ \A c \in Calls : SF_allVars(Proceed(c))

-----------------------------------------------------------------------------
Held == {first[c] : c \in Calls} \cup {second[c] : c \in Calls}
Lost == open \ Held
Crashed == \E t \in Threads : pc[t] = "session" /\ ~worker[t]

(* Where VclStream::connect leaves a session open that nobody can close any  *)
(* more: a successful call forgets its first handle (stream.rs:100), the     *)
(* stream is dropped on a thread that does not own its session, a cancelled  *)
(* call's closure connects all the same (stream.rs:75-95), and a call that   *)
(* fails or is dropped after the await moved it to another thread closes its *)
(* first handle there in vain (stream.rs:96).  A call that stays on the      *)
(* thread it began on leaves nothing behind when it fails, at whatever step. *)
LeaksOnlyThere ==
    [][\A s \in Lost' \ Lost :
          \E c \in Calls :
             \/ s = first[c] /\ phase[c] = "await" /\ phase'[c] = "stream"
             \/ s = second[c] /\ phase[c] = "stream" /\ phase'[c] = "idle"
             \/ s = second[c] /\ phase'[c] = "idle" /\ job[c] \in {"connecting", "ok"}
             \/ /\ s = first[c] /\ phase[c] = "await" /\ phase'[c] = "idle"
                /\ at'[c] # Main]_allVars

Handles(c) == {first[c], second[c]} \ {NoSession}

(* No handle outlives its session and no two handles name the same one       *)
(* (stream.rs:55-101, session.rs:244-248): nobody closes or reads a session  *)
(* that was closed and given to somebody else, whichever calls fail or       *)
(* are cancelled.  A replaced pool thread takes its sessions with it, so the *)
(* claim ends there.                                                         *)
HandlesLive ==
    ~unsettled =>
        \A c \in Calls :
            /\ Handles(c) \subseteq open
            /\ first[c] = second[c] => first[c] = NoSession
            /\ \A d \in Calls \ {c} : Handles(c) \cap Handles(d) = {}

(* An awaited connect comes back (stream.rs:75-96) although its closure has  *)
(* to find a thread of a pool that other connects, cancelled ones included,  *)
(* prewarm and the pool's other jobs occupy, unless the process dies for     *)
(* want of a worker.                                                         *)
ConnectReturns ==
    \A c \in Calls : phase[c] = "await" ~> (phase[c] # "await" \/ Crashed)

(* The worker-per-thread rule (stream.rs:122-124): "every session op must    *)
(* run on the OS thread that owns the worker context".  The thread on which  *)
(* the call hands out its stream owns the stream's session.                  *)
SessionOpsOnOwner ==
    \A c \in Calls : phase[c] = "stream" => second[c][1] = at[c]
=============================================================================
