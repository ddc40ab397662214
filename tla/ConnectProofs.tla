--------------------------- MODULE ConnectProofs ----------------------------
(***************************************************************************)
(* For any number of pool threads, connect calls and sessions: connect on  *)
(* top of app.rs is still app.rs, and the places where it loses a session  *)
(* are the four that LeaksOnlyThere names.                                 *)
(***************************************************************************)
EXTENDS Connect, AppProofs

(* Who holds what in which phase: the first handle lives while the call      *)
(* awaits and is the main thread's; the second lives from its creation to    *)
(* the closure's failure, the call's cancellation or the stream's drop, and  *)
(* is the closure's thread's while the closure uses it.                      *)
Phases(c) ==
    /\ phase[c] # "await" => first[c] = NoSession
    /\ phase[c] = "await" => first[c][1] = Main
    /\ phase[c] # "stream" /\ job[c] \notin {"connecting", "ok"} => second[c] = NoSession
    /\ phase[c] \in {"enter", "stream"} => job[c] = "none"
    /\ job[c] \in {"ok", "err"} => phase[c] = "await"
    /\ job[c] \in {"register", "connecting"} => thread[c] \in Pool
    /\ job[c] = "connecting" => second[c][1] = thread[c]

ConnectCore == ConnectTypeOK /\ \A c \in Calls : Phases(c)

LEMMA ConnectCoreInit == ConnectInit => ConnectCore
  BY DEF ConnectInit, ConnectCore, ConnectTypeOK, Phases, Jobs, Runtime

LEMMA ConnectTypeNext ==
    ASSUME ConnectCore, [ConnectNext]_allVars PROVE ConnectTypeOK'
<1> USE DEF ConnectCore, ConnectTypeOK
<1>1. CASE AppStep
  BY <1>1 DEF AppStep, Composed
<1>2. ASSUME NEW c \in Calls, ConnectEnter(c) PROVE ConnectTypeOK'
  BY <1>2 DEF ConnectEnter, Runtime
<1>3. ASSUME NEW c \in Calls, ConnectBegin(c) PROVE ConnectTypeOK'
  BY <1>3 DEF ConnectBegin, Create, Jobs
<1>4. ASSUME NEW c \in Calls, NEW t \in Threads, ClosureStart(c, t) PROVE ConnectTypeOK'
  BY <1>4 DEF ClosureStart, Jobs
<1>5. ASSUME NEW c \in Calls, ClosureCreate(c) PROVE ConnectTypeOK'
  BY <1>5 DEF ClosureCreate, ClosureReturns, Create, Jobs
<1>6. ASSUME NEW c \in Calls, ClosureConnect(c) PROVE ConnectTypeOK'
  BY <1>6 DEF ClosureConnect, ClosureReturns, Close, Jobs
<1>7. ASSUME NEW c \in Calls, NEW t \in Runtime, Join(c, t) PROVE ConnectTypeOK'
  BY <1>7 DEF Join, Resumes, Close, Jobs
<1>8. ASSUME NEW c \in Calls, NEW t \in Runtime, Cancel(c, t) PROVE ConnectTypeOK'
  BY <1>8 DEF Cancel, Resumes, Close, Jobs
<1>9. ASSUME NEW c \in Calls, NEW t \in Runtime, StreamDrop(c, t) PROVE ConnectTypeOK'
  BY <1>9 DEF StreamDrop, Resumes, Close
<1>10. CASE UNCHANGED allVars
  BY <1>10 DEF allVars, connectVars
<1> QED
  BY <1>1, <1>2, <1>3, <1>4, <1>5, <1>6, <1>7, <1>8, <1>9, <1>10 DEF ConnectNext, Closure

(* A step of call c leaves the other calls alone.                            *)
LEMMA OthersFramed ==
    ASSUME ConnectCore, NEW c \in Calls,
           \A d \in Calls \ {c} :
               UNCHANGED <<phase[d], first[d], second[d], job[d], thread[d]>>,
           Phases(c)'
    PROVE  \A d \in Calls : Phases(d)'
  BY DEF ConnectCore, Phases

LEMMA ConnectCoreNext == ConnectCore /\ [ConnectNext]_allVars => ConnectCore'
<1> SUFFICES ASSUME ConnectCore, [ConnectNext]_allVars PROVE ConnectCore'
  OBVIOUS
<1>0. ConnectTypeOK'
  BY ConnectTypeNext
<1> SUFFICES \A d \in Calls : Phases(d)'
  BY <1>0 DEF ConnectCore
<1>1. CASE AppStep \/ UNCHANGED allVars
  BY <1>1 DEF ConnectCore, Phases, AppStep, Composed, allVars, connectVars
<1>2. ASSUME NEW c \in Calls, ConnectEnter(c) \/ ConnectBegin(c) PROVE \A d \in Calls : Phases(d)'
  <2>1. Phases(c)'
    BY <1>2 DEF ConnectEnter, ConnectBegin, Create, ConnectCore, ConnectTypeOK, Phases
  <2> QED BY <1>2, <2>1, OthersFramed DEF ConnectEnter, ConnectBegin, ConnectCore, ConnectTypeOK
<1>3. ASSUME NEW c \in Calls, Closure(c) PROVE \A d \in Calls : Phases(d)'
  <2> USE DEF ConnectCore, ConnectTypeOK
  <2>1. CASE \E t \in Threads : ClosureStart(c, t)
    <3>1. Phases(c)'
      BY <2>1 DEF ClosureStart, Phases
    <3> QED BY <2>1, <3>1, OthersFramed DEF ClosureStart
  <2>2. CASE ClosureCreate(c)
    <3>1. Phases(c)'
      BY <2>2 DEF ClosureCreate, ClosureReturns, Create, Phases
    <3> QED BY <2>2, <3>1, OthersFramed DEF ClosureCreate, ClosureReturns
  <2>3. CASE ClosureConnect(c)
    <3>1. Phases(c)'
      BY <2>3 DEF ClosureConnect, ClosureReturns, Phases
    <3> QED BY <2>3, <3>1, OthersFramed DEF ClosureConnect, ClosureReturns
  <2> QED BY <1>3, <2>1, <2>2, <2>3 DEF Closure
<1>4. ASSUME NEW c \in Calls, NEW t \in Runtime, Join(c, t) \/ Cancel(c, t) \/ StreamDrop(c, t)
      PROVE  \A d \in Calls : Phases(d)'
  <2>1. Phases(c)'
    BY <1>4 DEF Join, Cancel, StreamDrop, ConnectCore, ConnectTypeOK, Phases
  <2> QED BY <1>4, <2>1, OthersFramed DEF Join, Cancel, StreamDrop, ConnectCore, ConnectTypeOK
<1> QED BY <1>1, <1>2, <1>3, <1>4 DEF ConnectNext

LEMMA ConnectCoreAlways == ConnectSpec => []ConnectCore
  BY ConnectCoreInit, ConnectCoreNext, PTL DEF ConnectSpec

-----------------------------------------------------------------------------
(* connect uses app.rs only through register_worker_thread and session calls *)
(* on registered threads: every behaviour of the composition is one of App,  *)
(* whose theorems therefore hold of it.                                      *)
THEOREM ConnectImplementsApp == ConnectSpec => Spec
<1>1. ConnectInit => Init
  BY DEF ConnectInit
<1>2. ConnectCore /\ [ConnectNext]_allVars => [Next]_vars
  <2> SUFFICES ASSUME ConnectCore, [ConnectNext]_allVars PROVE [Next]_vars
    OBVIOUS
  <2>1. ASSUME NEW t \in Threads, JobStart(t) \/ JobEnd(t) PROVE Next
    BY <2>1 DEF Next
  <2>2. Main \in Threads /\ Pool \subseteq Threads
    BY DEF Threads
  <2>3. ASSUME NEW c \in Calls, ConnectEnter(c) \/ ConnectBegin(c) PROVE Next
    BY <2>1, <2>2, <2>3 DEF ConnectEnter, ConnectBegin
  <2>4. ASSUME NEW c \in Calls, Closure(c) PROVE Next \/ UNCHANGED vars
    <3>1. job[c] \in {"register", "connecting"} => thread[c] \in Threads
      BY <2>2 DEF ConnectCore, Phases
    <3> QED BY <2>1, <2>4, <3>1
        DEF Closure, ClosureStart, ClosureCreate, ClosureConnect, ClosureReturns
  <2>5. ASSUME NEW c \in Calls, NEW t \in Runtime, Join(c, t) \/ Cancel(c, t) \/ StreamDrop(c, t)
        PROVE  UNCHANGED vars
    BY <2>5 DEF Join, Cancel, StreamDrop
  <2>6. CASE UNCHANGED allVars
    BY <2>6 DEF allVars
  <2> QED BY <2>3, <2>4, <2>5, <2>6 DEF ConnectNext, AppStep
<1> QED BY <1>1, <1>2, ConnectCoreAlways, PTL DEF ConnectSpec, Spec

-----------------------------------------------------------------------------
(* A session that becomes lost was a handle some call gave up.               *)
LEMMA LostWasHeld ==
    ASSUME ConnectTypeOK, NEW s \in Lost' \ Lost, s \in open
    PROVE  /\ s # NoSession
           /\ \E d \in Calls : \/ s = first[d] /\ first'[d] # s
                               \/ s = second[d] /\ second'[d] # s
<1>1. s \in Threads \X Slots
  BY DEF ConnectTypeOK, Sessions
<1>2. s # <<>>
  <2>1. PICK t \in Threads, k \in Slots : s = <<t, k>>
    BY <1>1
  <2> QED BY <2>1
<1>3. s \in Held /\ s \notin Held'
  BY DEF Lost
<1> QED BY <1>2, <1>3 DEF Held, NoSession

(* Four places of stream.rs lose a session: the forgotten first handle of a  *)
(* successful connect, a dropped stream, whose session is another thread's,  *)
(* the connection a cancelled call's closure makes, and the first handle of  *)
(* a call that fails or is cancelled on another thread than it began on.  No *)
(* failing call that stays on its thread loses one, at whatever step and     *)
(* beside whichever other calls.                                             *)
THEOREM OnlyFourLeaks == ConnectSpec => LeaksOnlyThere
<1> DEFINE Leak(s) == \E c \in Calls :
               \/ s = first[c] /\ phase[c] = "await" /\ phase'[c] = "stream"
               \/ s = second[c] /\ phase[c] = "stream" /\ phase'[c] = "idle"
               \/ s = second[c] /\ phase'[c] = "idle" /\ job[c] \in {"connecting", "ok"}
               \/ /\ s = first[c] /\ phase[c] = "await" /\ phase'[c] = "idle"
                  /\ at'[c] # Main
<1>1. ASSUME ConnectCore, ConnectNext, NEW s \in Lost' \ Lost PROVE Leak(s)
  <2> USE <1>1 DEF ConnectCore, ConnectTypeOK
  <2>1. s \in open' /\ s \notin Held'
    BY DEF Lost
  <2>2. ASSUME s \in open, UNCHANGED <<first, second>> PROVE FALSE
    BY <2>2, LostWasHeld
  <2>3. ASSUME AppStep PROVE FALSE
    BY <2>1, <2>2, <2>3 DEF AppStep, Composed
  <2>4. ASSUME NEW c \in Calls, ConnectEnter(c) \/ \E t \in Threads : ClosureStart(c, t)
        PROVE  FALSE
    BY <2>1, <2>2, <2>4 DEF ConnectEnter, ClosureStart
  <2>5. ASSUME NEW c \in Calls, ConnectBegin(c) PROVE FALSE
    <3>1. CASE UNCHANGED <<open, first>>
      BY <2>1, <2>2, <2>5, <3>1 DEF ConnectBegin
    <3>2. CASE ~UNCHANGED <<open, first>>
      <4>1. PICK r \in Sessions : open' = open \cup {r} /\ first' = [first EXCEPT ![c] = r]
        BY <2>5, <3>2 DEF ConnectBegin, Create
      <4>2. first'[c] = r /\ r \in Held' /\ UNCHANGED second
        BY <2>5, <4>1 DEF Held, ConnectBegin
      <4>3. s \in open /\ first[c] = NoSession
        BY <2>1, <2>5, <4>1, <4>2 DEF ConnectBegin, Phases
      <4> QED BY <4>1, <4>2, <4>3, LostWasHeld
    <3> QED BY <3>1, <3>2
  <2>6. ASSUME NEW c \in Calls, ClosureCreate(c) PROVE FALSE
    <3>0. second[c] = NoSession
      BY <2>6 DEF ClosureCreate, Phases
    <3>1. CASE ClosureReturns(c, "err") /\ UNCHANGED open
      <4>1. UNCHANGED <<first, second>>
        BY <3>0, <3>1 DEF ClosureReturns
      <4> QED BY <2>1, <2>2, <3>1, <4>1
    <3>2. CASE ~(ClosureReturns(c, "err") /\ UNCHANGED open)
      <4>1. PICK r \in Sessions : open' = open \cup {r} /\ second' = [second EXCEPT ![c] = r]
        BY <2>6, <3>2 DEF ClosureCreate, Create
      <4>2. second'[c] = r /\ r \in Held' /\ UNCHANGED first
        BY <2>6, <3>2, <4>1 DEF Held, ClosureCreate
      <4>3. s \in open
        BY <2>1, <4>1, <4>2
      <4> QED BY <3>0, <4>1, <4>2, <4>3, LostWasHeld
    <3> QED BY <3>1, <3>2
  <2>7. ASSUME NEW c \in Calls, ClosureConnect(c) PROVE Leak(s)
    <3>1. /\ s \in open /\ UNCHANGED first /\ job[c] = "connecting"
          /\ UNCHANGED phase /\ \A d \in Calls \ {c} : second'[d] = second[d]
      BY <2>1, <2>7 DEF ClosureConnect, ClosureReturns, Close
    <3>2. s = second[c] /\ second'[c] # s
      BY <3>1, LostWasHeld
    <3>3. CASE ClosureReturns(c, "ok") /\ UNCHANGED open
      <4>1. phase[c] # "await"
        BY <3>2, <3>3 DEF ClosureReturns
      <4> QED BY <3>1, <3>2, <4>1 DEF Phases
    <3>4. CASE Close(second[c], thread[c])
      BY <2>1, <3>1, <3>2, <3>4 DEF Close, Phases
    <3> QED BY <2>7, <3>3, <3>4 DEF ClosureConnect
  <2>8. ASSUME NEW c \in Calls, NEW t \in Runtime, Join(c, t) PROVE Leak(s)
    <3>1. s \in open /\ UNCHANGED second /\ \A d \in Calls \ {c} : first'[d] = first[d]
      BY <2>1, <2>8 DEF Join, Close
    <3>2. s = first[c] /\ phase[c] = "await"
      BY <2>8, <3>1, LostWasHeld DEF Join
    <3>3. at'[c] = t
      BY <2>8 DEF Join, Resumes
    <3>4. ~Close(first[c], Main)
      BY <2>1, <3>2 DEF Close, Phases
    <3> QED BY <2>8, <3>2, <3>3, <3>4 DEF Join
  <2>9. ASSUME NEW c \in Calls, NEW t \in Runtime, Cancel(c, t) PROVE Leak(s)
    <3>1. /\ s \in open /\ phase[c] = "await" /\ phase'[c] = "idle" /\ at'[c] = t
          /\ \A d \in Calls \ {c} : first'[d] = first[d] /\ second'[d] = second[d]
      BY <2>1, <2>9 DEF Cancel, Resumes, Close
    <3>2. CASE s = first[c]
      <4>1. ~Close(first[c], Main)
        BY <2>1, <3>1, <3>2 DEF Close, Phases
      <4>2. t # Main
        BY <2>9, <4>1 DEF Cancel
      <4> QED BY <3>1, <3>2, <4>2
    <3>3. CASE s # first[c]
      <4>1. s = second[c] /\ second'[c] # s /\ s # NoSession
        BY <3>1, <3>3, LostWasHeld
      <4>2. job[c] = "ok"
        BY <2>9, <4>1 DEF Cancel, Phases
      <4> QED BY <3>1, <4>1, <4>2
    <3> QED BY <3>2, <3>3
  <2>10. ASSUME NEW c \in Calls, NEW t \in Runtime, StreamDrop(c, t) PROVE Leak(s)
    <3>1. /\ s \in open /\ UNCHANGED first /\ phase[c] = "stream" /\ phase'[c] = "idle"
          /\ \A d \in Calls \ {c} : second'[d] = second[d]
      BY <2>1, <2>10 DEF StreamDrop, Close
    <3> QED BY <3>1, LostWasHeld
  <2> QED BY <2>3, <2>4, <2>5, <2>6, <2>7, <2>8, <2>9, <2>10 DEF ConnectNext, Closure
<1>2. ConnectCore /\ [ConnectNext]_allVars => [\A s \in Lost' \ Lost : Leak(s)]_allVars
  BY <1>1
<1>3. ConnectSpec => [][\A s \in Lost' \ Lost : Leak(s)]_allVars
  BY <1>2, ConnectCoreAlways, PTL DEF ConnectSpec
<1> QED BY <1>3 DEF LeaksOnlyThere

-----------------------------------------------------------------------------
(* Every reachable state of the composition is well typed.                   *)
THEOREM ConnectTypeCorrect == ConnectSpec => []WellTyped
<1>1. ConnectCore /\ TypeOK => WellTyped
  BY DEF ConnectCore, WellTyped
<1> QED BY <1>1, ConnectCoreAlways, ConnectImplementsApp, AppTypeCorrect, PTL

(* While nothing is unsettled a worker is lost only with the VclApp, and     *)
(* what is unsettled stays so.                                               *)
LEMMA WorkersKept ==
    ASSUME TypeOK, [Next]_vars, ~unsettled'
    PROVE  ~unsettled /\ ((handle /\ ~handle') \/ \A t \in Threads : worker[t] => worker'[t])
<1> USE DEF TypeOK, initVars, regVars, warmVars
<1>1. CASE PrewarmStart \/ Barrier \/ PrewarmDone
  BY <1>1 DEF PrewarmStart, Barrier, PrewarmDone
<1>2. ASSUME NEW t \in Threads,
             InitSwap(t) \/ InitName(t) \/ InitCreate(t) \/ DropDestroy(t) \/ DropReset(t)
      PROVE  ~unsettled /\ ((handle /\ ~handle') \/ \A u \in Threads : worker[u] => worker'[u])
  BY <1>2 DEF InitSwap, InitName, InitCreate, DropDestroy, DropReset
<1>3. ASSUME NEW t \in Threads,
             \/ Register(t) \/ PrewarmTask(t) \/ JobStart(t) \/ JobEnd(t) \/ ThreadReplaced(t)
      PROVE  ~unsettled /\ \A u \in Threads : worker[u] => worker'[u]
  BY <1>3 DEF Register, RegisterCheck, RegisterLock, RegisterFfi, RegisterFailed, RegisterSet,
     PrewarmTask, JobStart, JobEnd, ThreadReplaced
<1>4. CASE UNCHANGED vars
  BY <1>4 DEF vars
<1> QED BY <1>1, <1>2, <1>3, <1>4, Zenon DEF Next

LEMMA HandlesLiveNext ==
    TypeOK /\ ConnectCore /\ HandlesLive /\ [Next]_vars /\ [ConnectNext]_allVars => HandlesLive'
<1> SUFFICES ASSUME TypeOK, ConnectCore, HandlesLive, [Next]_vars, [ConnectNext]_allVars,
                    ~unsettled'
             PROVE  HandlesLive'
  BY DEF HandlesLive
<1>0. ~unsettled /\ ((handle /\ ~handle') \/ \A t \in Threads : worker[t] => worker'[t])
  BY WorkersKept
<1> USE <1>0 DEF HandlesLive, Handles, ConnectCore, ConnectTypeOK
<1>a. ASSUME NEW c \in Calls, NEW s \in {first[c], second[c]},
             first'[c] \in {first[c], NoSession}, second'[c] \in {second[c], NoSession},
             \A d \in Calls \ {c} : first'[d] = first[d] /\ second'[d] = second[d],
             s \notin Handles(c)', open \ {s} \subseteq open'
      PROVE  HandlesLive'
  <2>1. Handles(c)' \subseteq Handles(c) \ {s} /\ \A d \in Calls \ {c} : Handles(d)' = Handles(d)
    BY <1>a
  <2>2. \A d \in Calls \ {c} : s \notin Handles(d)
    BY <1>a
  <2>3. \A d \in Calls : Handles(d)' \subseteq open'
    BY <1>a, <2>1, <2>2
  <2>4. first'[c] = second'[c] => first'[c] = NoSession
    BY <1>a
  <2>5. \A d \in Calls \ {c} : first'[d] = second'[d] => first'[d] = NoSession
    BY <1>a
  <2>6. \A d \in Calls : Handles(d)' \subseteq Handles(d)
    BY <2>1
  <2>7. \A d \in Calls, e \in Calls : d # e => Handles(d) \cap Handles(e) = {}
    OBVIOUS
  <2> HIDE DEF Handles
  <2>8. \A d \in Calls, e \in Calls : d # e => Handles(d)' \cap Handles(e)' = {}
    BY <2>6, <2>7, Zenon
  <2> QED BY <2>3, <2>4, <2>5, <2>8, Zenon
<1>1. CASE AppStep
  <2>1. CASE handle /\ ~handle'
    <3>1. \A c \in Calls : first'[c] = NoSession /\ second'[c] = NoSession
      BY <1>1, <2>1 DEF AppStep, Composed, InUse, Phases
    <3>2. \A c \in Calls : Handles(c)' = {}
      BY <3>1
    <3> HIDE DEF Handles
    <3> QED BY <3>1, <3>2
  <2>2. CASE \A t \in Threads : worker[t] => worker'[t]
    <3>1. open' = open
      BY <1>1, <2>2 DEF AppStep, Composed, Sessions
    <3> QED BY <1>1, <3>1 DEF AppStep, Composed
  <2> QED BY <2>1, <2>2
<1>2. ASSUME NEW c \in Calls, ConnectEnter(c) PROVE HandlesLive'
  BY <1>2 DEF ConnectEnter
<1>3. ASSUME NEW c \in Calls, ConnectBegin(c) PROVE HandlesLive'
  BY <1>3 DEF ConnectBegin, Create
<1>4. ASSUME NEW c \in Calls, NEW t \in Threads, ClosureStart(c, t) PROVE HandlesLive'
  BY <1>4 DEF ClosureStart
<1>5. ASSUME NEW c \in Calls, ClosureCreate(c) PROVE HandlesLive'
  <2>1. ASSUME NEW s \in Sessions, s \notin open, open' = open \cup {s}, UNCHANGED first,
               second' = [second EXCEPT ![c] = s]
        PROVE  HandlesLive'
    <3>1. second'[c] = s /\ \A d \in Calls \ {c} : second'[d] = second[d]
      BY <2>1
    <3>2. \A d \in Calls : s \notin Handles(d) /\ Handles(d) \subseteq open
      BY <2>1
    <3>3. Handles(c)' \subseteq Handles(c) \cup {s} /\ \A d \in Calls \ {c} : Handles(d)' = Handles(d)
      BY <2>1, <3>1
    <3>4. \A d \in Calls : Handles(d)' \subseteq open'
      BY <2>1, <3>2, <3>3, Zenon
    <3>5. first'[c] = second'[c] => first'[c] = NoSession
      BY <2>1, <3>1, <3>2
    <3>6. \A d \in Calls \ {c} : first'[d] = second'[d] => first'[d] = NoSession
      BY <2>1, <3>1
    <3>7. ASSUME NEW d \in Calls, NEW e \in Calls \ {d} PROVE Handles(d)' \cap Handles(e)' = {}
      <4>1. Handles(d) \cap Handles(e) = {} /\ s \notin Handles(d) /\ s \notin Handles(e)
        BY <3>2, <3>7
      <4>2. Handles(d)' \cap Handles(e)' \subseteq (Handles(d) \cap Handles(e))
                  \cup ({s} \cap (Handles(d) \cup Handles(e)))
        BY <3>1, <3>3, <3>7
      <4> QED BY <4>1, <4>2, Zenon
    <3> QED BY <3>4, <3>5, <3>6, <3>7, Zenon
  <2>2. CASE ClosureReturns(c, "err") /\ UNCHANGED open
    <3>1. second' = [second EXCEPT ![c] = NoSession] /\ first' = first
      BY <2>2 DEF ClosureReturns
    <3>2. second'[c] = NoSession /\ \A d \in Calls \ {c} : second'[d] = second[d]
      BY <3>1
    <3>3. second[c] \notin Handles(c)'
      BY <3>1, <3>2
    <3> QED BY <1>a, <2>2, <3>1, <3>2, <3>3
  <2> QED BY <1>5, <2>1, <2>2, Zenon DEF ClosureCreate, Create
<1>6. ASSUME NEW c \in Calls, ClosureConnect(c) PROVE HandlesLive'
  <2>1. CASE ClosureReturns(c, "ok") /\ UNCHANGED open
    BY <2>1 DEF ClosureReturns
  <2>2. CASE ClosureReturns(c, "err") /\ Close(second[c], thread[c])
    <3>1. second' = [second EXCEPT ![c] = NoSession] /\ first' = first
      BY <2>2 DEF ClosureReturns
    <3>2. second'[c] = NoSession /\ \A d \in Calls \ {c} : second'[d] = second[d]
      BY <3>1
    <3>3. open \ {second[c]} \subseteq open'
      BY <2>2 DEF Close
    <3>4. second[c] \notin Handles(c)'
      BY <3>1, <3>2
    <3> QED BY <1>a, <3>1, <3>2, <3>3, <3>4
  <2> QED BY <1>6, <2>1, <2>2, Zenon DEF ClosureConnect
<1>7. ASSUME NEW c \in Calls, NEW t \in Runtime, Join(c, t) \/ Cancel(c, t) PROVE HandlesLive'
  <2>1. first' = [first EXCEPT ![c] = NoSession]
        /\ second' \in {second, [second EXCEPT ![c] = NoSession]}
    BY <1>7, Zenon DEF Join, Cancel
  <2>2. /\ first'[c] = NoSession /\ second'[c] \in {second[c], NoSession}
        /\ \A d \in Calls \ {c} : first'[d] = first[d] /\ second'[d] = second[d]
    BY <2>1
  <2>3. open \ {first[c]} \subseteq open'
    BY <1>7 DEF Join, Cancel, Close
  <2>4. first[c] \notin Handles(c)'
    BY <2>2
  <2> QED BY <1>a, <2>2, <2>3, <2>4
<1>8. ASSUME NEW c \in Calls, NEW t \in Runtime, StreamDrop(c, t) PROVE HandlesLive'
  <2>1. first' = first /\ second' = [second EXCEPT ![c] = NoSession]
    BY <1>8, Zenon DEF StreamDrop
  <2>2. second'[c] = NoSession /\ \A d \in Calls \ {c} : second'[d] = second[d]
    BY <2>1
  <2>3. open \ {second[c]} \subseteq open'
    BY <1>8 DEF StreamDrop, Close
  <2>4. second[c] \notin Handles(c)'
    BY <2>1, <2>2
  <2> QED BY <1>a, <2>1, <2>2, <2>3, <2>4
<1>9. CASE UNCHANGED allVars
  BY <1>9 DEF allVars, connectVars
<1> QED
  BY <1>1, <1>2, <1>3, <1>4, <1>5, <1>6, <1>7, <1>8, <1>9, Zenon DEF ConnectNext, Closure

(* For any number of calls, threads and slots, a handle of connect names an  *)
(* open session that no other handle names.                                  *)
THEOREM HandlesStayLive == ConnectSpec => []HandlesLive
<1>1. ConnectInit => HandlesLive
  BY DEF ConnectInit, HandlesLive, Handles
<1>2. ConnectSpec => [][Next]_vars
  BY ConnectImplementsApp, PTL DEF Spec
<1> QED
  BY <1>1, <1>2, ConnectImplementsApp, AppTypeCorrect, ConnectCoreAlways, HandlesLiveNext, PTL
  DEF ConnectSpec
=============================================================================
