----------------------------- MODULE AppProofs ------------------------------
(***************************************************************************)
(* For every pool, every N and every number of inits: registrations        *)
(* exclude each other, refused ones cost no slot, there is one app, and    *)
(* prewarm's closures fill its barrier and leave a quiet pool.             *)
(***************************************************************************)
EXTENDS App, FiniteSetTheorems, TLAPS

InInit(t) == pc[t] \in {"name", "create", "destroy"}

(* The inductive invariant of the lock and of INITIALIZED: a thread holds    *)
(* REGISTER_LOCK exactly inside the critical section, it leaves that section *)
(* to set REGISTERED only with a worker, a slot without a worker is the      *)
(* lock holder's, and INITIALIZED covers the one init or drop in progress.   *)
AppCore ==
    /\ TypeOK
    /\ \A t \in Threads : InRegister(t) <=> lock = t
    /\ \A t \in Threads : pc[t] = "set" => worker[t]
    /\ NoSlotLeak
    /\ handle => initialized
    /\ \A t \in Threads : InInit(t) => initialized /\ ~handle
    /\ \A t, u \in Threads : InInit(t) /\ InInit(u) => t = u

(* Every action keeps every variable of App in its type.                     *)
LEMMA AppTypeInit == Init => TypeOK
<1> SUFFICES ASSUME Init PROVE TypeOK
  OBVIOUS
<1>1. 0 \in 0..N /\ 0 \in 0..MaxInits
  BY AppAssumption
<1>2. /\ pc \in [Threads -> PCs] /\ prewarm \in {"no", "waiting", "done"}
      /\ after \in [Threads -> {"idle", "barrier", "session"}]
  BY DEF Init, PCs
<1> QED
  BY <1>1, <1>2, Zenon DEF Init, TypeOK

LEMMA AppTypeNext == TypeOK /\ [Next]_vars => TypeOK'
<1> SUFFICES ASSUME TypeOK, [Next]_vars PROVE TypeOK'
  OBVIOUS
<1> USE AppAssumption DEF TypeOK, PCs, Goto, initVars, regVars, warmVars
<1>1. CASE PrewarmStart
  BY <1>1 DEF PrewarmStart
<1>2. CASE Barrier
  BY <1>2 DEF Barrier
<1>3. CASE PrewarmDone
  BY <1>3 DEF PrewarmDone
<1>4. ASSUME NEW t \in Threads, InitSwap(t) PROVE TypeOK'
  BY <1>4 DEF InitSwap
<1>5. ASSUME NEW t \in Threads, InitName(t) PROVE TypeOK'
  BY <1>5 DEF InitName
<1>6. ASSUME NEW t \in Threads, InitCreate(t) PROVE TypeOK'
  <2>1. inits' \in 0..MaxInits
    BY <1>6 DEF InitCreate
  <2> QED
    BY <1>6, <2>1, Zenon DEF InitCreate
<1>7. ASSUME NEW t \in Threads, DropDestroy(t) PROVE TypeOK'
  BY <1>7, Zenon DEF DropDestroy
<1>8. ASSUME NEW t \in Threads, DropReset(t) PROVE TypeOK'
  BY <1>8, Zenon DEF DropReset
<1>9. ASSUME NEW t \in Threads, RegisterCheck(t) PROVE TypeOK'
  BY <1>9 DEF RegisterCheck
<1>10. ASSUME NEW t \in Threads, RegisterLock(t) PROVE TypeOK'
  BY <1>10 DEF RegisterLock
<1>11. ASSUME NEW t \in Threads, RegisterFfi(t) PROVE TypeOK'
  BY <1>11, Zenon DEF RegisterFfi
<1>12. ASSUME NEW t \in Threads, RegisterFailed(t) PROVE TypeOK'
  BY <1>12 DEF RegisterFailed
<1>13. ASSUME NEW t \in Threads, RegisterSet(t) PROVE TypeOK'
  BY <1>13 DEF RegisterSet
<1>14. ASSUME NEW t \in Threads, PrewarmTask(t) PROVE TypeOK'
  BY <1>14 DEF PrewarmTask
<1>15. ASSUME NEW t \in Threads, JobStart(t) PROVE TypeOK'
  BY <1>15 DEF JobStart
<1>16. ASSUME NEW t \in Threads, JobEnd(t) PROVE TypeOK'
  BY <1>16 DEF JobEnd
<1>17. ASSUME NEW t \in Threads, ThreadReplaced(t) PROVE TypeOK'
  BY <1>17 DEF ThreadReplaced
<1>18. CASE UNCHANGED vars
  BY <1>18 DEF vars
<1> QED
  BY <1>1, <1>2, <1>3, <1>4, <1>5, <1>6, <1>7, <1>8, <1>9, <1>10, <1>11, <1>12,
     <1>13, <1>14, <1>15, <1>16, <1>17, <1>18 DEF Next, Register

(* The lock and initialization facts hold at the start.                      *)
LEMMA AppCoreInit == Init => AppCore
  BY AppTypeInit, AppAssumption
  DEF Init, AppCore, InInit, InRegister, NoSlotLeak, TypeOK

(* No action breaks them: only RegisterLock enters the critical section, and *)
(* only InitSwap and DropDestroy start an init or a drop.                    *)
LEMMA AppCoreNext == AppCore /\ [Next]_vars => AppCore'
<1> SUFFICES ASSUME AppCore, [Next]_vars PROVE AppCore'
  OBVIOUS
<1>0. TypeOK'
  BY AppTypeNext DEF AppCore
<1> USE <1>0, AppAssumption
    DEF AppCore, TypeOK, InInit, InRegister, NoSlotLeak, Goto, initVars, regVars, warmVars
<1>1. CASE PrewarmStart
  BY <1>1 DEF PrewarmStart, AtBarrier
<1>2. CASE Barrier
  BY <1>2 DEF Barrier, AtBarrier
<1>3. CASE PrewarmDone
  BY <1>3 DEF PrewarmDone, AtBarrier
<1>4. ASSUME NEW t \in Threads, InitSwap(t) PROVE AppCore'
  BY <1>4 DEF InitSwap
<1>5. ASSUME NEW t \in Threads, InitName(t) PROVE AppCore'
  BY <1>5 DEF InitName
<1>6. ASSUME NEW t \in Threads, InitCreate(t) PROVE AppCore'
  BY <1>6 DEF InitCreate
<1>7. ASSUME NEW t \in Threads, DropDestroy(t) PROVE AppCore'
  BY <1>7 DEF DropDestroy
<1>8. ASSUME NEW t \in Threads, DropReset(t) PROVE AppCore'
  BY <1>8 DEF DropReset
<1>9. ASSUME NEW t \in Threads, RegisterCheck(t) PROVE AppCore'
  BY <1>9 DEF RegisterCheck
<1>10. ASSUME NEW t \in Threads, RegisterLock(t) PROVE AppCore'
  BY <1>10 DEF RegisterLock
<1>11. ASSUME NEW t \in Threads, RegisterFfi(t) PROVE AppCore'
  BY <1>11 DEF RegisterFfi
<1>12. ASSUME NEW t \in Threads, RegisterFailed(t) PROVE AppCore'
  BY <1>12 DEF RegisterFailed
<1>13. ASSUME NEW t \in Threads, RegisterSet(t) PROVE AppCore'
  BY <1>13 DEF RegisterSet
<1>14. ASSUME NEW t \in Threads, PrewarmTask(t) PROVE AppCore'
  BY <1>14 DEF PrewarmTask
<1>15. ASSUME NEW t \in Threads, JobStart(t) PROVE AppCore'
  BY <1>15 DEF JobStart
<1>16. ASSUME NEW t \in Threads, JobEnd(t) PROVE AppCore'
  BY <1>16 DEF JobEnd
<1>17. ASSUME NEW t \in Threads, ThreadReplaced(t) PROVE AppCore'
  BY <1>17 DEF ThreadReplaced
<1>18. CASE UNCHANGED vars
  BY <1>18 DEF vars
<1> QED
  BY <1>1, <1>2, <1>3, <1>4, <1>5, <1>6, <1>7, <1>8, <1>9, <1>10, <1>11, <1>12, <1>13, <1>14, <1>15, <1>16, <1>17, <1>18, Zenon
  DEF Next, Register

(* App's inductive invariant holds in every reachable state.                 *)
LEMMA AppCoreAlways == Spec => []AppCore
  BY AppCoreInit, AppCoreNext, PTL DEF Spec

(* Every reachable state of app.rs's state machine is well typed, for every  *)
(* pool size and every bound on inits.                                       *)
THEOREM AppTypeCorrect == Spec => []TypeOK
<1>1. AppCore => TypeOK
  BY DEF AppCore
<1> QED
  BY AppCoreAlways, <1>1, PTL

(* REGISTER_LOCK keeps any two of any number of threads out of               *)
(* vppcom_worker_register at once, and is always given back.                 *)
THEOREM RegistrationExclusive == Spec => []RegisterExclusive
<1>1. AppCore => RegisterExclusive
  BY AppAssumption DEF AppCore, RegisterExclusive, TypeOK
<1> QED
  BY AppCoreAlways, <1>1, PTL

(* However often VPP refuses a worker, register_worker_thread returns the    *)
(* slot it took.                                                             *)
THEOREM SlotsReturned == Spec => []NoSlotLeak
<1>1. AppCore => NoSlotLeak
  BY DEF AppCore
<1> QED
  BY AppCoreAlways, <1>1, PTL

(* INITIALIZED lets one init run at a time, and none beside a live VclApp.   *)
THEOREM SingleApp == Spec => []OneApp
<1>1. AppCore => OneApp
  BY DEF AppCore, OneApp, InInit
<1> QED
  BY AppCoreAlways, <1>1, PTL

(* Before the first vppcom_app_create nobody has registered, or is about to; *)
(* while its VclApp lives REGISTERED implies a worker.                       *)
FlagCore ==
    /\ inits = 0 => /\ ~handle /\ tasks = 0
                    /\ \A t \in Threads : ~registered[t] /\ pc[t] \in {"idle", "name", "create"}
    /\ RegisteredHasWorker

LEMMA FlagCoreNext == AppCore /\ FlagCore /\ [Next]_vars => FlagCore'
<1> SUFFICES ASSUME AppCore, FlagCore, [Next]_vars PROVE FlagCore'
  OBVIOUS
<1> USE AppAssumption
    DEF AppCore, FlagCore, RegisteredHasWorker, TypeOK, Goto, initVars, regVars, warmVars
<1>1. CASE PrewarmStart \/ Barrier \/ PrewarmDone
  BY <1>1 DEF PrewarmStart, Barrier, PrewarmDone, AtBarrier
<1>2. ASSUME NEW t \in Threads, InitSwap(t) \/ InitName(t) PROVE FlagCore'
  BY <1>2 DEF InitSwap, InitName
<1>3. ASSUME NEW t \in Threads, InitCreate(t) PROVE FlagCore'
  BY <1>3 DEF InitCreate, InInit
<1>4. ASSUME NEW t \in Threads, DropDestroy(t) \/ DropReset(t) PROVE FlagCore'
  BY <1>4 DEF DropDestroy, DropReset
<1>5. ASSUME NEW t \in Threads, RegisterCheck(t) \/ RegisterLock(t) \/ RegisterFfi(t)
      PROVE  FlagCore'
  BY <1>5 DEF RegisterCheck, RegisterLock, RegisterFfi
<1>6. ASSUME NEW t \in Threads, RegisterFailed(t) \/ RegisterSet(t) PROVE FlagCore'
  BY <1>6 DEF RegisterFailed, RegisterSet
<1>7. ASSUME NEW t \in Threads, PrewarmTask(t) \/ JobStart(t) \/ JobEnd(t) PROVE FlagCore'
  BY <1>7 DEF PrewarmTask, JobStart, JobEnd
<1>8. ASSUME NEW t \in Threads, ThreadReplaced(t) PROVE FlagCore'
  BY <1>8 DEF ThreadReplaced
<1>9. CASE UNCHANGED vars
  BY <1>9 DEF vars
<1> QED
  BY <1>1, <1>2, <1>3, <1>4, <1>5, <1>6, <1>7, <1>8, <1>9, Zenon DEF Next, Register

(* While the first VclApp lives, a thread whose REGISTERED flag makes it     *)
(* skip the registration has a worker, whatever VPP refuses and whichever    *)
(* pool threads tokio replaces.                                              *)
THEOREM FlagIsTrue == Spec => []RegisteredHasWorker
<1>1. Init => FlagCore
  BY DEF Init, FlagCore, RegisteredHasWorker
<1>2. FlagCore => RegisteredHasWorker
  BY DEF FlagCore
<1> QED
  BY <1>1, <1>2, AppCoreAlways, FlagCoreNext, PTL DEF Spec
-----------------------------------------------------------------------------
Working(t) == pc[t] \in {"check", "lock", "ffi", "failed", "set", "barrier", "session"}
Occupied == {t \in Threads : pc[t] # "idle"}

(* Who is where around prewarm: jobs and closures run under a VclApp, the    *)
(* pool runs closures while prewarm is awaited and nothing before it, and a  *)
(* thread at the barrier is registered unless VPP refused it or it was       *)
(* replaced.                                                                 *)
WarmCore ==
    /\ \A t \in Threads : Working(t) => handle
    /\ prewarm = "waiting" => handle
    /\ prewarm # "waiting" => tasks = 0 /\ \A t \in Threads : pc[t] # "barrier"
    /\ prewarm = "no" => \A t \in Pool : ~Working(t)
    /\ \A t \in Threads : Working(t) =>
          after[t] \in (IF prewarm = "waiting" THEN {"barrier"} ELSE {"session"})
    /\ \A t \in Threads : pc[t] = "session" => prewarm # "waiting"
    /\ \A t \in Threads : Working(t) /\ prewarm = "waiting" => t \in Pool
    /\ \A t \in Threads : pc[t] = "barrier" => registered[t] \/ unsettled
    /\ \A t \in Threads : pc[t] = "failed" => unsettled
    /\ \A t \in Threads : pc[t] \in {"lock", "ffi", "failed"} => ~registered[t]

(* Every closure of prewarm is waiting for a thread or on one, until the     *)
(* barrier has let all of them go.                                           *)
WarmCount ==
    prewarm = "waiting" => left \in {0, N} /\ Cardinality(Occupied) + tasks = left

LEMMA OccupiedFinite == TypeOK => IsFiniteSet(Occupied) /\ Cardinality(Occupied) \in Nat
<1>1. IsFiniteSet(Threads)
  BY FS_AddElement, AppAssumption DEF Threads
<1> QED
  BY <1>1, FS_Subset, FS_CardinalityType DEF Occupied

(* Once the barrier is passed no thread is in a closure.                     *)
LEMMA WarmPassed ==
    TypeOK /\ WarmCount /\ prewarm = "waiting" /\ left = 0 => tasks = 0 /\ Occupied = {}
<1> SUFFICES ASSUME TypeOK, WarmCount, prewarm = "waiting", left = 0
             PROVE  tasks = 0 /\ Occupied = {}
  OBVIOUS
<1>1. tasks \in Nat
  BY AppAssumption DEF TypeOK
<1>2. tasks = 0 /\ Cardinality(Occupied) = 0
  BY <1>1, OccupiedFinite DEF WarmCount
<1> QED
  BY <1>2, OccupiedFinite, FS_EmptySet

(* No action breaks WarmCore: closures start only while prewarm is awaited,  *)
(* the pool's other jobs only after it.                                      *)
LEMMA WarmCoreNext == AppCore /\ WarmCore /\ WarmCount /\ [Next]_vars => WarmCore'
<1> SUFFICES ASSUME AppCore, WarmCore, WarmCount, [Next]_vars PROVE WarmCore'
  OBVIOUS
<1>0. prewarm = "waiting" /\ left = 0 => tasks = 0 /\ Occupied = {}
  BY WarmPassed DEF AppCore
<1> USE AppAssumption
    DEF AppCore, WarmCore, Working, TypeOK, PCs, InInit, Threads, Goto, initVars, regVars, warmVars
<1>1. CASE PrewarmStart
  BY <1>1 DEF PrewarmStart
<1>2. CASE Barrier
  BY <1>2 DEF Barrier, AtBarrier
<1>3. CASE PrewarmDone
  BY <1>0, <1>3 DEF PrewarmDone, Occupied
<1>4. ASSUME NEW t \in Threads, InitSwap(t) \/ InitName(t) PROVE WarmCore'
  <2>1. CASE InitSwap(t)
    BY <2>1 DEF InitSwap
  <2>2. CASE InitName(t) /\ Goto(t, "create")
    BY <2>2 DEF InitName
  <2>3. CASE InitName(t) /\ Goto(t, "idle")
    BY <2>3 DEF InitName
  <2> QED
    BY <1>4, <2>1, <2>2, <2>3, Zenon DEF InitName
<1>5. ASSUME NEW t \in Threads, InitCreate(t) PROVE WarmCore'
  BY <1>5 DEF InitCreate
<1>6. ASSUME NEW t \in Threads, DropDestroy(t) \/ DropReset(t) PROVE WarmCore'
  BY <1>6 DEF DropDestroy, DropReset
<1>7. ASSUME NEW t \in Threads, RegisterCheck(t) \/ RegisterLock(t) PROVE WarmCore'
  BY <1>7 DEF RegisterCheck, RegisterLock
<1>8. ASSUME NEW t \in Threads, RegisterFfi(t) PROVE WarmCore'
  BY <1>8 DEF RegisterFfi
<1>9. ASSUME NEW t \in Threads, RegisterFailed(t) \/ RegisterSet(t) PROVE WarmCore'
  BY <1>9 DEF RegisterFailed, RegisterSet
<1>10. ASSUME NEW t \in Threads, PrewarmTask(t) PROVE WarmCore'
  BY <1>10 DEF PrewarmTask
<1>11. ASSUME NEW t \in Threads, JobStart(t) \/ JobEnd(t) PROVE WarmCore'
  BY <1>11 DEF JobStart, JobEnd
<1>12. ASSUME NEW t \in Threads, ThreadReplaced(t) PROVE WarmCore'
  BY <1>12 DEF ThreadReplaced
<1>13. CASE UNCHANGED vars
  BY <1>13 DEF vars
<1> QED
  BY <1>1, <1>2, <1>3, <1>4, <1>5, <1>6, <1>7, <1>8, <1>9, <1>10, <1>11, <1>12, <1>13, Zenon
  DEF Next, Register

(* A closure that starts makes one more busy thread, and the barrier, which  *)
(* only N closures fill, makes all of them idle.                             *)
LEMMA WarmCountNext ==
    AppCore /\ WarmCore /\ WarmCount /\ [Next]_vars => WarmCount'
<1> SUFFICES ASSUME AppCore, WarmCore, WarmCount, [Next]_vars, prewarm' = "waiting"
             PROVE  left' \in {0, N} /\ Cardinality(Occupied') + tasks' = left'
  BY DEF WarmCount
<1>0. /\ TypeOK /\ IsFiniteSet(Occupied) /\ Cardinality(Occupied) \in Nat
      /\ tasks \in Nat /\ left \in Nat
  BY OccupiedFinite, AppAssumption DEF AppCore, TypeOK
<1> USE DEF Goto, initVars, regVars, warmVars
<1>1. CASE PrewarmStart
  <2>1. \A t \in Threads : pc[t] = "idle"
    BY <1>1 DEF PrewarmStart, AppCore, WarmCore, InInit, Working, TypeOK, PCs, Threads
  <2>2. Occupied' = {}
    BY <1>1, <2>1 DEF PrewarmStart, Occupied
  <2> QED
    BY <1>1, <2>2, FS_EmptySet, AppAssumption DEF PrewarmStart
<1>2. CASE Barrier
  <2>1. prewarm = "waiting" /\ left = N /\ left \in Nat
    BY <1>0, <1>2, WarmPassed DEF Barrier, WarmCount, AtBarrier, Occupied
  <2>2. AtBarrier \subseteq Occupied
    BY DEF AtBarrier, Occupied
  <2>3. Cardinality(AtBarrier) = N
    BY <1>2 DEF Barrier
  <2>4. Cardinality(AtBarrier) <= Cardinality(Occupied)
    BY <1>0, <2>2, FS_Subset
  <2>5. tasks = 0 /\ Cardinality(Occupied) = Cardinality(AtBarrier)
    BY <1>0, <2>1, <2>3, <2>4 DEF WarmCount
  <2>6. AtBarrier = Occupied
    BY <1>0, <2>2, <2>5, FS_Subset
  <2>7. Occupied' = {} /\ tasks' = 0 /\ left' = 0
    BY <1>2, <2>5, <2>6 DEF Barrier, Occupied
  <2> QED
    BY <2>7, FS_EmptySet
<1>3. ASSUME NEW t \in Threads, PrewarmTask(t)
      PROVE  left' \in {0, N} /\ Cardinality(Occupied') + tasks' = left'
  <2>1. Occupied' = Occupied \cup {t} /\ t \notin Occupied
    BY <1>0, <1>3 DEF PrewarmTask, Occupied, TypeOK
  <2>2. Cardinality(Occupied') = Cardinality(Occupied) + 1
    BY <1>0, <2>1, FS_AddElement
  <2> QED
    BY <1>0, <1>3, <2>2 DEF PrewarmTask, WarmCount
<1>4. ASSUME NEW t \in Threads, Register(t)
      PROVE  left' \in {0, N} /\ Cardinality(Occupied') + tasks' = left'
  <2>1. prewarm = "waiting" /\ left' = left /\ tasks' = tasks
    BY <1>4 DEF Register, RegisterCheck, RegisterLock, RegisterFfi, RegisterFailed, RegisterSet
  <2>2. after[t] = "barrier" /\ pc[t] # "idle"
    BY <1>4, <2>1, Zenon DEF Register, RegisterCheck, RegisterLock, RegisterFfi, RegisterFailed,
       RegisterSet, WarmCore, Working
  <2>3. \E l \in PCs \ {"idle"} : pc' = [pc EXCEPT ![t] = l]
    BY <1>4, <2>2 DEF Register, RegisterCheck, RegisterLock, RegisterFfi, RegisterFailed,
       RegisterSet, PCs
  <2>4. Occupied' = Occupied
    BY <1>0, <2>2, <2>3 DEF Occupied, TypeOK
  <2> QED
    BY <2>1, <2>4 DEF WarmCount
<1>5. CASE PrewarmDone
  BY <1>5 DEF PrewarmDone
<1>6. ASSUME NEW t \in Threads,
             InitSwap(t) \/ InitName(t) \/ InitCreate(t) \/ DropDestroy(t) \/ DropReset(t)
      PROVE  FALSE
  <2>1. prewarm = "waiting"
    BY <1>6 DEF InitSwap, InitName, InitCreate, DropDestroy, DropReset
  <2>2. handle /\ initialized /\ ~InInit(t)
    BY <2>1 DEF AppCore, WarmCore
  <2> QED
    BY <1>6, <2>1, <2>2, Zenon DEF InitSwap, InitName, InitCreate, DropDestroy, DropReset, InInit
<1>7. ASSUME NEW t \in Threads, JobStart(t) \/ JobEnd(t) PROVE FALSE
  BY <1>7 DEF JobStart, JobEnd, WarmCore, Threads
<1>8. ASSUME NEW t \in Threads, ThreadReplaced(t)
      PROVE  left' \in {0, N} /\ Cardinality(Occupied') + tasks' = left'
  BY <1>8 DEF ThreadReplaced, Occupied, WarmCount
<1>9. CASE UNCHANGED vars
  BY <1>9 DEF vars, Occupied, WarmCount
<1> QED
  BY <1>1, <1>2, <1>3, <1>4, <1>5, <1>6, <1>7, <1>8, <1>9, Zenon DEF Next

(* Both facts about prewarm hold in every reachable state.                   *)
LEMMA WarmAlways == Spec => [](AppCore /\ WarmCore /\ WarmCount)
<1>1. Init => WarmCore /\ WarmCount
  BY DEF Init, WarmCore, WarmCount, Working, Threads
<1> QED
  BY <1>1, AppCoreAlways, WarmCoreNext, WarmCountNext, PTL DEF Spec

(* While prewarm is awaited on a pool of N threads its closures always have  *)
(* a way on: a full barrier, a free thread for a closure that is left, or a  *)
(* closure that REGISTER_LOCK does not hold up.                              *)
THEOREM PrewarmNeverStuck == Spec => []BarrierFills
<1>1. ASSUME AppCore, WarmCore, WarmCount PROVE BarrierFills
  <2> SUFFICES ASSUME prewarm = "waiting", N <= Cardinality(Pool), left # 0,
                      Cardinality(AtBarrier) # N,
                      ~(tasks > 0 /\ \E t \in Pool : pc[t] = "idle"),
                      ~(\E t \in Pool : pc[t] \in {"check", "ffi", "failed", "set"})
               PROVE  lock = NoThread /\ \E t \in Pool : pc[t] = "lock"
    BY DEF BarrierFills
  <2>1. /\ IsFiniteSet(Occupied) /\ Cardinality(Occupied) \in Nat /\ tasks \in Nat /\ N \in Nat
        /\ Cardinality(Occupied) + tasks = N /\ Cardinality(Pool) \in Nat
    BY <1>1, OccupiedFinite, FS_CardinalityType, AppAssumption DEF AppCore, TypeOK, WarmCount
  <2>2. \A t \in Occupied : t \in Pool /\ pc[t] \in {"check", "lock", "ffi", "failed", "set", "barrier"}
    BY <1>1 DEF AppCore, WarmCore, Occupied, TypeOK, PCs, InInit, Working
  <2>3. tasks = 0
    <3> SUFFICES ASSUME tasks # 0 PROVE FALSE
      OBVIOUS
    <3>1. Pool \subseteq Occupied
      BY <2>1 DEF Occupied, Threads
    <3>2. Cardinality(Pool) <= Cardinality(Occupied)
      BY <2>1, <3>1, FS_Subset
    <3> QED
      BY <2>1, <3>2
  <2>4. Occupied # AtBarrier
    BY <2>1, <2>3
  <2>5. PICK t \in Occupied : pc[t] # "barrier"
    BY <2>4 DEF Occupied, AtBarrier
  <2>6. pc[t] = "lock" /\ t \in Pool
    BY <2>2, <2>5
  <2>7. lock = NoThread
    <3> SUFFICES ASSUME lock \in Threads PROVE FALSE
      BY <1>1 DEF AppCore, TypeOK
    <3>1. InRegister(lock)
      BY <1>1 DEF AppCore
    <3> QED
      BY <2>2, <3>1 DEF InRegister, Occupied
  <2> QED
    BY <2>6, <2>7
<1> QED
  BY <1>1, WarmAlways, PTL

(* When prewarm's barrier has opened on a pool of at most N threads, all of  *)
(* them have registered, unless VPP refused or tokio replaced one.           *)
Warmed ==
    /\ (prewarm = "waiting" /\ left = 0) \/ prewarm = "done"
    /\ ~unsettled /\ Cardinality(Pool) <= N
    => \A t \in Pool : registered[t]

LEMMA WarmedNext == AppCore /\ WarmCore /\ Warmed /\ [Next]_vars => Warmed'
<1> SUFFICES ASSUME AppCore, WarmCore, Warmed, [Next]_vars,
                    (prewarm' = "waiting" /\ left' = 0) \/ prewarm' = "done",
                    ~unsettled', Cardinality(Pool) <= N
             PROVE  \A t \in Pool : registered'[t]
  BY DEF Warmed
<1>0. TypeOK /\ Pool \subseteq Threads
  BY DEF AppCore, Threads
<1> USE DEF initVars, regVars, warmVars
<1>1. CASE PrewarmStart
  <2>1. Cardinality(Pool) = 0
    BY <1>1, FS_CardinalityType, AppAssumption DEF PrewarmStart
  <2> QED
    BY <2>1, FS_EmptySet, AppAssumption
<1>2. CASE Barrier
  <2>1. AtBarrier \subseteq Pool
    BY <1>2 DEF WarmCore, Working, AtBarrier
  <2>2. Pool = AtBarrier
    <3>1. Cardinality(AtBarrier) <= Cardinality(Pool) /\ Cardinality(Pool) \in Nat
      BY <2>1, FS_Subset, FS_CardinalityType, AppAssumption
    <3>2. Cardinality(AtBarrier) = Cardinality(Pool)
      BY <1>2, <3>1, AppAssumption DEF Barrier
    <3> QED
      BY <2>1, <3>2, FS_Subset, AppAssumption
  <2> QED
    BY <1>2, <2>2 DEF Barrier, AtBarrier, WarmCore
<1>3. CASE PrewarmDone
  BY <1>3 DEF PrewarmDone, Warmed
<1>4. ASSUME NEW t \in Threads,
             \/ InitSwap(t) \/ InitName(t) \/ InitCreate(t) \/ DropDestroy(t) \/ DropReset(t)
             \/ PrewarmTask(t) \/ JobStart(t) \/ JobEnd(t)
             \/ RegisterCheck(t) \/ RegisterLock(t) \/ RegisterFailed(t)
      PROVE  \A u \in Pool : registered'[u]
  BY <1>4 DEF InitSwap, InitName, InitCreate, DropDestroy, DropReset, PrewarmTask, JobStart,
     JobEnd, RegisterCheck, RegisterLock, RegisterFailed, Warmed
<1>5. ASSUME NEW t \in Threads, RegisterFfi(t) \/ RegisterSet(t) \/ ThreadReplaced(t)
      PROVE  \A u \in Pool : registered'[u]
  BY <1>0, <1>5 DEF RegisterFfi, RegisterSet, ThreadReplaced, Warmed, TypeOK
<1>6. CASE UNCHANGED vars
  BY <1>6 DEF vars, Warmed
<1> QED
  BY <1>1, <1>2, <1>3, <1>4, <1>5, <1>6, Zenon DEF Next, Register

(* After prewarm no thread of the pool makes the worker vector grow.         *)
THEOREM PrewarmQuiets == Spec => []QuietAfterPrewarm
<1>1. Init => Warmed
  BY DEF Init, Warmed
<1>2. AppCore /\ WarmCore /\ Warmed => QuietAfterPrewarm
  BY DEF AppCore, WarmCore, Warmed, QuietAfterPrewarm, Grows, Threads
<1> QED
  BY <1>1, <1>2, WarmAlways, WarmedNext, PTL DEF Spec

(* The worker of a session under the first VclApp is lost only with it.      *)
LEMMA SessionWorkerNext ==
    AppCore /\ WarmCore /\ FlagCore /\ WorkerUnlessUnsettled /\ [Next]_vars
        => WorkerUnlessUnsettled'
<1> SUFFICES ASSUME AppCore, WarmCore, FlagCore, WorkerUnlessUnsettled, [Next]_vars,
                    inits' = 1, ~unsettled',
                    NEW u \in Threads, pc'[u] = "session"
             PROVE  worker'[u]
  BY DEF WorkerUnlessUnsettled, SessionHasWorker
<1>0. TypeOK
  BY DEF AppCore
<1> USE <1>0 DEF initVars, regVars, warmVars, Goto, WorkerUnlessUnsettled, SessionHasWorker, TypeOK
<1>1. CASE PrewarmStart \/ Barrier \/ PrewarmDone
  BY <1>1 DEF PrewarmStart, Barrier, PrewarmDone
<1>2. ASSUME NEW t \in Threads, InitSwap(t) \/ InitName(t) \/ DropReset(t) PROVE worker'[u]
  BY <1>2 DEF InitSwap, InitName, DropReset
<1>3. ASSUME NEW t \in Threads, InitCreate(t) PROVE worker'[u]
  BY <1>3 DEF InitCreate, FlagCore
<1>4. ASSUME NEW t \in Threads, DropDestroy(t) PROVE worker'[u]
  BY <1>4 DEF DropDestroy
<1>5. ASSUME NEW t \in Threads, RegisterCheck(t) PROVE worker'[u]
  <2>1. registered[t] => worker[t]
    BY <1>5 DEF RegisterCheck, FlagCore, RegisteredHasWorker, WarmCore, Working
  <2> QED
    BY <1>5, <2>1 DEF RegisterCheck
<1>6. ASSUME NEW t \in Threads, RegisterLock(t) \/ RegisterFfi(t) PROVE worker'[u]
  BY <1>6 DEF RegisterLock, RegisterFfi
<1>7. ASSUME NEW t \in Threads, RegisterFailed(t) \/ RegisterSet(t) PROVE worker'[u]
  BY <1>7 DEF RegisterFailed, RegisterSet, WarmCore, AppCore
<1>8. ASSUME NEW t \in Threads, PrewarmTask(t) \/ JobStart(t) \/ JobEnd(t) PROVE worker'[u]
  BY <1>8 DEF PrewarmTask, JobStart, JobEnd
<1>9. ASSUME NEW t \in Threads, ThreadReplaced(t) PROVE worker'[u]
  BY <1>9 DEF ThreadReplaced
<1>10. CASE UNCHANGED vars
  BY <1>10 DEF vars
<1> QED
  BY <1>1, <1>2, <1>3, <1>4, <1>5, <1>6, <1>7, <1>8, <1>9, <1>10, Zenon DEF Next, Register

(* A session call of the first VclApp's threads has a worker unless VPP      *)
(* refused a registration or tokio replaced a thread.                        *)
THEOREM SessionsHaveWorkers == Spec => []WorkerUnlessUnsettled
<1>1. Init => FlagCore /\ WorkerUnlessUnsettled
  BY DEF Init, FlagCore, RegisteredHasWorker, WorkerUnlessUnsettled
<1> QED
  BY <1>1, WarmAlways, FlagCoreNext, SessionWorkerNext, PTL DEF Spec
=============================================================================
