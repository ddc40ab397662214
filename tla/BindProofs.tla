----------------------------- MODULE BindProofs -----------------------------
(***************************************************************************)
(* For any number of handles, sockets, ports and retries and any length of *)
(* the drain window: binds and probes give back every handle they do not   *)
(* hand out, and the sockets they hand out have sessions of their own as   *)
(* long as VPP's verdicts come in time.                                    *)
(***************************************************************************)
EXTENDS Bind, TLAPS

(* Which handles a running call owns, and how many attempts it has left.     *)
CurPCs == PCs \ {"idle", "create", "probe_create"}
VepPCs == {"epoll_add", "drain", "epoll_close"}

Places ==
    /\ cur \in Handles <=> pc \in CurPCs
    /\ vep \in Handles <=> pc \in VepPCs
    /\ pc \notin {"idle", "probe_drop"} => tries # 0

(* The types the arguments use.                                              *)
Types ==
    /\ sess \in [Handles -> States]
    /\ port \in [Handles -> Ports \cup {NoPort}]
    /\ pc \in PCs
    /\ cur \in Handles \cup {NoHandle} /\ vep \in Handles \cup {NoHandle}
    /\ want \in Ports
    /\ tries \in 0..Tries
    /\ held \in [Sockets -> Handles \cup {NoHandle}]
    /\ asked \in [Sockets -> Ports \cup {NoPort}]

(* Everything allocated has an owner.                                        *)
Owned ==
    \A h \in Handles : sess[h] # "free" =>
        h = cur \/ h = vep \/ \E k \in Sockets : held[k] = h

LEMMA PlacesInit == Init => Types /\ Places /\ Owned
  BY BindAssumption DEF Init, Types, Places, Owned, CurPCs, VepPCs, PCs, States, NoPort

LEMMA TypeNext == Types /\ Places /\ [Next]_vars => Types'
<1> SUFFICES ASSUME Types, Places, [Next]_vars PROVE Types'
  OBVIOUS
<1> USE BindAssumption DEF Types, Places, CurPCs, VepPCs, PCs, States, pool
<1>1. CASE BindCall \/ ProbeCall
  BY <1>1 DEF BindCall, ProbeCall
<1>2. CASE Create
  BY <1>2 DEF Create, Alloc, Retry
<1>3. CASE SessionBind \/ SessionListen
  BY <1>3 DEF SessionBind, SessionListen, Fail
<1>4. CASE EpollCreate \/ EpollAdd
  BY <1>4 DEF EpollCreate, EpollAdd, Fail, Alloc, Close
<1>5. ASSUME NEW h \in Handles, Verdict(h)
      PROVE  sess' \in [Handles -> States] /\ port' \in [Handles -> Ports \cup {NoPort}]
  BY <1>5 DEF Verdict
<1>6. CASE Drain
  BY <1>5, <1>6 DEF Drain
<1>7. CASE DrainEnd \/ EpollClose
  BY <1>7 DEF DrainEnd, EpollClose, Close
<1>8. CASE LocalAddr \/ TempDrop \/ ComparePorts
  BY <1>8 DEF LocalAddr, TempDrop, ComparePorts, Close
<1>9. CASE Register
  BY <1>9 DEF Register
<1>10. CASE Drop
  BY <1>10 DEF Drop, Close, Retry
<1>11. CASE ProbeCreate \/ ProbeBind
  BY <1>11 DEF ProbeCreate, ProbeBind, Alloc, Fail
<1>12. CASE ProbeConnect \/ ProbeDrop
  BY <1>12 DEF ProbeConnect, ProbeDrop, Close
<1>13. ASSUME NEW k \in Sockets, DropSocket(k) PROVE Types'
  BY <1>13 DEF DropSocket, Close
<1>14. ASSUME NEW k \in Sockets, LateVerdict(k) PROVE Types'
  BY <1>5, <1>14 DEF LateVerdict
<1>15. CASE OtherApp \/ UNCHANGED vars
  BY <1>15 DEF OtherApp, vars
<1> QED
  BY <1>1, <1>2, <1>3, <1>4, <1>6, <1>7, <1>8, <1>9, <1>10, <1>11, <1>12, <1>13, <1>14, <1>15
  DEF Next, Step

LEMMA OwnedNext == Types /\ Places /\ Owned /\ [Next]_vars => Places' /\ Owned'
<1> SUFFICES ASSUME Types, Places, Owned, [Next]_vars PROVE Places' /\ Owned'
  OBVIOUS
<1> USE BindAssumption DEF Types, Places, Owned, CurPCs, VepPCs, PCs, pool
<1>1. CASE BindCall \/ ProbeCall
  BY <1>1 DEF BindCall, ProbeCall
<1>2. CASE Create
  BY <1>2 DEF Create, Alloc, Retry
<1>3. CASE SessionBind \/ SessionListen
  BY <1>3 DEF SessionBind, SessionListen, Fail
<1>4. CASE EpollCreate \/ EpollAdd
  BY <1>4 DEF EpollCreate, EpollAdd, Fail, Alloc, Close
<1>5. ASSUME NEW h \in Handles, Verdict(h)
      PROVE  \A g \in Handles : sess'[g] # "free" => g = h \/ sess[g] # "free"
  BY <1>5 DEF Verdict
<1>6. CASE Drain
  BY <1>5, <1>6 DEF Drain
<1>7. CASE DrainEnd \/ EpollClose
  BY <1>7 DEF DrainEnd, EpollClose, Close
<1>8. CASE LocalAddr \/ TempDrop \/ ComparePorts
  BY <1>8 DEF LocalAddr, TempDrop, ComparePorts, Close
<1>9. CASE Register
  BY <1>9 DEF Register
<1>10. CASE Drop
  BY <1>10 DEF Drop, Close, Retry
<1>11. CASE ProbeCreate \/ ProbeBind
  BY <1>11 DEF ProbeCreate, ProbeBind, Alloc, Fail
<1>12. CASE ProbeConnect \/ ProbeDrop
  BY <1>12 DEF ProbeConnect, ProbeDrop, Close
<1>13. ASSUME NEW k \in Sockets, DropSocket(k) PROVE Places' /\ Owned'
  BY <1>13 DEF DropSocket, Close
<1>14. ASSUME NEW k \in Sockets, LateVerdict(k) PROVE Places' /\ Owned'
  BY <1>5, <1>14 DEF LateVerdict
<1>15. CASE OtherApp \/ UNCHANGED vars
  BY <1>15 DEF OtherApp, vars
<1> QED
  BY <1>1, <1>2, <1>3, <1>4, <1>6, <1>7, <1>8, <1>9, <1>10, <1>11, <1>12, <1>13, <1>14, <1>15
  DEF Next, Step
-----------------------------------------------------------------------------
(* Every handle is given back (session.rs:244-248, dgram.rs:71-91, 773-790): *)
(* whatever step of a bind, a retry or a probe fails, between calls only     *)
(* sockets own sessions, late verdicts and reused handles included.          *)
THEOREM NothingLeaks == Spec => []NoHandleLeak
<1>1. Init => Types /\ Places /\ Owned
  BY PlacesInit
<1>2. Types /\ Places /\ Owned /\ [Next]_vars => (Types /\ Places /\ Owned)'
  BY TypeNext, OwnedNext
<1>3. Types /\ Places /\ Owned => NoHandleLeak
  BY BindAssumption DEF Places, Owned, NoHandleLeak, CurPCs, VepPCs
<1> QED
  BY <1>1, <1>2, <1>3, PTL DEF Spec

-----------------------------------------------------------------------------
(* What libvppcom has under the handles of the running call, from listen to  *)
(* the end of the comparison with the port asked for.                        *)
Judged ==
    /\ pc \in {"epoll_create", "epoll_add"} => sess[cur] = "asked"
    /\ pc \in {"drain", "epoll_close", "local_addr"} => sess[cur] \in {"asked", "live", "free"}
    /\ pc = "compare" => sess[cur] \in {"asked", "live"}
    /\ pc = "register" => sess[cur] = "asked" \/ (sess[cur] = "live" /\ port[cur] = want)
    /\ pc \in VepPCs => vep # cur
    /\ \A h \in Handles : sess[h] = "live" => port[h] # NoPort

(* No socket shares its session, not even with the running call.             *)
Apart ==
    \A k \in Sockets : held[k] # NoHandle =>
        /\ sess[held[k]] = "live" /\ port[held[k]] = asked[k]
        /\ held[k] \in watched
        /\ held[k] # cur /\ held[k] # vep
        /\ \A j \in Sockets : held[j] = held[k] => j = k

LEMMA JudgedNext == Types /\ Places /\ Judged /\ [Next]_vars => Judged'
<1> SUFFICES ASSUME Types, Places, Judged, [Next]_vars PROVE Judged'
  OBVIOUS
<1> USE BindAssumption DEF Types, Places, Judged, CurPCs, VepPCs, PCs, pool
<1>1. CASE BindCall \/ ProbeCall
  BY <1>1 DEF BindCall, ProbeCall
<1>2. CASE Create
  BY <1>2 DEF Create, Alloc, Retry
<1>3. CASE SessionBind \/ SessionListen
  BY <1>3 DEF SessionBind, SessionListen, Fail
<1>4. CASE EpollCreate \/ EpollAdd
  BY <1>4 DEF EpollCreate, EpollAdd, Fail, Alloc, Close
<1>5. ASSUME NEW h \in Handles, Verdict(h)
      PROVE  /\ sess'[h] \in {"live", "free"}
             /\ \A g \in Handles : sess'[g] = "live" => port'[g] # NoPort
  BY <1>5 DEF Verdict
<1>6. CASE Drain
  BY <1>5, <1>6 DEF Drain
<1>7. CASE DrainEnd \/ EpollClose
  BY <1>7 DEF DrainEnd, EpollClose, Close
<1>8. CASE LocalAddr \/ TempDrop \/ ComparePorts
  BY <1>8 DEF LocalAddr, TempDrop, ComparePorts, Close
<1>9. CASE Register
  BY <1>9 DEF Register
<1>10. CASE Drop
  BY <1>10 DEF Drop, Close, Retry
<1>11. CASE ProbeCreate \/ ProbeBind
  BY <1>11 DEF ProbeCreate, ProbeBind, Alloc, Fail
<1>12. CASE ProbeConnect \/ ProbeDrop
  BY <1>12 DEF ProbeConnect, ProbeDrop, Close
<1>13. ASSUME NEW k \in Sockets, DropSocket(k) PROVE Judged'
  BY <1>13 DEF DropSocket, Close
<1>14. ASSUME NEW k \in Sockets, LateVerdict(k) PROVE Judged'
  BY <1>5, <1>14 DEF LateVerdict
<1>15. CASE OtherApp \/ UNCHANGED vars
  BY <1>15 DEF OtherApp, vars
<1> QED
  BY <1>1, <1>2, <1>3, <1>4, <1>6, <1>7, <1>8, <1>9, <1>10, <1>11, <1>12, <1>13, <1>14, <1>15
  DEF Next, Step

(* Only a bind that returns before its verdict sets `missed', and nothing    *)
(* clears it.                                                                *)
LEMMA MissedNext ==
  ASSUME [Next]_vars, ~missed'
  PROVE  ~missed /\ (Register => pc' = "drop" \/ sess[cur] # "asked")
<1>1. CASE Register
  <2>1. CASE missed' = (missed \/ sess[cur] = "asked")
    <3>1. ~(missed \/ sess[cur] = "asked")
      BY <2>1, Zenon
    <3> QED
      BY <3>1
  <2>2. CASE pc' = "drop" /\ missed' = missed
    BY <2>2
  <2> QED
    BY <1>1, <2>1, <2>2 DEF Register
<1>2. CASE ~Register
  <2>1. missed' = missed
    BY <1>2 DEF Next, Step, vars, BindCall, ProbeCall, OtherApp, DropSocket, LateVerdict, Create,
       SessionBind, SessionListen, EpollCreate, EpollAdd, Drain, DrainEnd, EpollClose, LocalAddr,
       TempDrop, ComparePorts, Drop, ProbeCreate, ProbeBind, ProbeConnect, ProbeDrop
  <2> QED
    BY <1>2, <2>1
<1> QED
  BY <1>1, <1>2

LEMMA ApartNext ==
  ASSUME Types, Places, Judged, Apart, [Next]_vars,
         Register => pc' = "drop" \/ sess[cur] # "asked"
  PROVE  Apart'
<1> USE BindAssumption DEF Types, Places, Judged, Apart, CurPCs, VepPCs, PCs, pool
<1>1. CASE BindCall \/ ProbeCall
  BY <1>1 DEF BindCall, ProbeCall
<1>2. CASE Create
  BY <1>2 DEF Create, Alloc, Retry
<1>3. CASE SessionBind \/ SessionListen
  BY <1>3 DEF SessionBind, SessionListen, Fail
<1>4. CASE EpollCreate \/ EpollAdd
  BY <1>4 DEF EpollCreate, EpollAdd, Fail, Alloc, Close
<1>5. ASSUME NEW h \in Handles, Verdict(h)
      PROVE  \A g \in Handles \ {h} : sess'[g] = sess[g] /\ port'[g] = port[g]
  BY <1>5 DEF Verdict
<1>6. CASE Drain
  BY <1>5, <1>6 DEF Drain
<1>7. CASE DrainEnd \/ EpollClose
  BY <1>7 DEF DrainEnd, EpollClose, Close
<1>8. CASE LocalAddr \/ TempDrop \/ ComparePorts
  BY <1>8 DEF LocalAddr, TempDrop, ComparePorts, Close
<1>9. CASE Register
  BY <1>9 DEF Register
<1>10. CASE Drop
  BY <1>10 DEF Drop, Close, Retry
<1>11. CASE ProbeCreate \/ ProbeBind
  BY <1>11 DEF ProbeCreate, ProbeBind, Alloc, Fail
<1>12. CASE ProbeConnect \/ ProbeDrop
  BY <1>12 DEF ProbeConnect, ProbeDrop, Close
<1>13. ASSUME NEW k \in Sockets, DropSocket(k) PROVE Apart'
  BY <1>13 DEF DropSocket, Close
<1>14. ASSUME NEW k \in Sockets PROVE ~LateVerdict(k)
  BY DEF LateVerdict
<1>15. CASE OtherApp \/ UNCHANGED vars
  BY <1>15 DEF OtherApp, vars
<1> QED
  BY <1>1, <1>2, <1>3, <1>4, <1>6, <1>7, <1>8, <1>9, <1>10, <1>11, <1>12, <1>13, <1>14, <1>15
  DEF Next, Step

(* No close of a bind, a retry, a probe or another socket ever takes away a  *)
(* socket's session (dgram.rs:89-149, listener.rs:18-32): while VPP has      *)
(* answered every bind within the drain window, every socket has a live      *)
(* session of its own on the port it asked for, watched by the reactor.      *)
THEOREM SocketsStayLive == Spec => []SocketsLive
<1> DEFINE IInv == Types /\ Places /\ Owned /\ Judged /\ (~missed => Apart)
<1>1. Init => IInv
  <2> SUFFICES ASSUME Init PROVE IInv
    OBVIOUS
  <2>1. Types /\ Places /\ Owned
    BY PlacesInit
  <2>2. Judged /\ Apart
    BY DEF Init, Judged, Apart, VepPCs
  <2> QED
    BY <2>1, <2>2
<1>2. IInv /\ [Next]_vars => IInv'
  <2> SUFFICES ASSUME IInv, [Next]_vars PROVE IInv'
    OBVIOUS
  <2>1. Types' /\ Places' /\ Owned' /\ Judged'
    BY TypeNext, OwnedNext, JudgedNext
  <2>2. ASSUME ~missed' PROVE Apart'
    BY <2>2, MissedNext, ApartNext
  <2> QED
    BY <2>1, <2>2
<1>3. IInv => SocketsLive
  BY DEF Apart, SocketsLive
<1> QED
  BY <1>1, <1>2, <1>3, PTL DEF Spec

-----------------------------------------------------------------------------
(* The rest of the state's type.                                             *)
Rest ==
    /\ closes \in [Handles -> 0..2]
    /\ taken \subseteq Ports
    /\ elapsed \in 0..Window
    /\ watched \subseteq Handles /\ missed \in BOOLEAN

LEMMA RestNext == Types /\ Places /\ Rest /\ [Next]_vars => Rest'
<1> SUFFICES ASSUME Types, Places, Rest, [Next]_vars PROVE Rest'
  OBVIOUS
<1> USE BindAssumption DEF Types, Places, Rest, CurPCs, VepPCs, PCs, pool
<1>1. ASSUME NEW h \in Handles, Close(h) PROVE closes' \in [Handles -> 0..2]
  BY <1>1 DEF Close
<1>2. ASSUME NEW h \in Handles, NEW s, Alloc(h, s) PROVE closes' \in [Handles -> 0..2]
  BY <1>2 DEF Alloc
<1>3. CASE BindCall \/ ProbeCall \/ Create \/ SessionBind \/ SessionListen
  BY <1>2, <1>3, Zenon DEF BindCall, ProbeCall, Create, SessionBind, SessionListen, Fail
<1>4. CASE EpollCreate \/ EpollAdd
  <2>1. CASE EpollCreate
    BY <1>2, <2>1 DEF EpollCreate, Fail
  <2>2. CASE EpollAdd
    <3>1. closes' \in [Handles -> 0..2]
      BY <1>1, <2>2 DEF EpollAdd, Fail
    <3>2. 0 \in 0..Window
      OBVIOUS
    <3> QED
      BY <2>2, <3>1, <3>2, Zenon DEF EpollAdd
  <2> QED
    BY <1>4, <2>1, <2>2
<1>5. CASE Drain
  BY <1>5 DEF Drain
<1>6. CASE DrainEnd \/ EpollClose \/ LocalAddr \/ TempDrop \/ ComparePorts \/ Drop
  BY <1>1, <1>6, Zenon DEF DrainEnd, EpollClose, LocalAddr, TempDrop, ComparePorts, Drop
<1>7. CASE Register
  BY <1>7, Zenon DEF Register
<1>8. CASE ProbeCreate \/ ProbeBind \/ ProbeConnect \/ ProbeDrop
  BY <1>1, <1>2, <1>8, Zenon DEF ProbeCreate, ProbeBind, ProbeConnect, ProbeDrop, Fail
<1>9. ASSUME NEW k \in Sockets, DropSocket(k) \/ LateVerdict(k) PROVE Rest'
  BY <1>1, <1>9, Zenon DEF DropSocket, LateVerdict
<1>10. CASE OtherApp
  BY <1>10, Zenon DEF OtherApp
<1>11. CASE UNCHANGED vars
  BY <1>11 DEF vars
<1> QED
  BY <1>3, <1>4, <1>5, <1>6, <1>7, <1>8, <1>9, <1>10, <1>11 DEF Next, Step

(* What a run of binds, probes and drops keeps throughout.                   *)
LEMMA BindCore == Spec => [](Types /\ Places /\ Rest)
<1>1. Init => Types /\ Places /\ Owned /\ Rest
  <2>1. 0 \in 0..2 /\ 0 \in 0..Window
    BY BindAssumption
  <2>2. Init => Rest
    BY <2>1, Zenon DEF Init, Rest
  <2> QED
    BY <2>2, PlacesInit
<1>2. Types /\ Places /\ Owned /\ Rest /\ [Next]_vars => (Types /\ Places /\ Owned /\ Rest)'
  BY TypeNext, OwnedNext, RestNext
<1> QED
  BY <1>1, <1>2, PTL DEF Spec

(* Every reachable state of the binding thread is well typed, the attempts   *)
(* and the drain's clock staying within their bounds.                        *)
THEOREM BindTypeCorrect == Spec => []TypeOK
<1>1. Types /\ Rest => TypeOK
  BY DEF Types, Rest, TypeOK
<1> QED
  BY <1>1, BindCore, PTL

(* For any number of attempts and any window, a call that keeps taking steps *)
(* returns: each one lowers a natural number.                                *)
THEOREM BindWindsDown == Spec => StepsWindDown
<1> DEFINE Down == \/ Rank' < Rank
                   \/ pc = "drain" /\ pc' = pc /\ elapsed' = elapsed
<1>1. ASSUME Types, Places, Rest, Step PROVE Down
  <2>0. tries \in Nat /\ Window \in Nat /\ elapsed \in 0..Window /\ tries \in 0..Tries
    BY <1>1, BindAssumption DEF Types, Rest
  <2>n. /\ StagesLeft["idle"] = 0 /\ StagesLeft["create"] = 12 /\ StagesLeft["bind"] = 11
        /\ StagesLeft["listen"] = 10 /\ StagesLeft["epoll_create"] = 9 /\ StagesLeft["epoll_add"] = 8
        /\ StagesLeft["drain"] = 7 /\ StagesLeft["epoll_close"] = 6 /\ StagesLeft["local_addr"] = 5
        /\ StagesLeft["temp_drop"] = 4 /\ StagesLeft["compare"] = 4 /\ StagesLeft["register"] = 3
        /\ StagesLeft["drop"] = 2 /\ StagesLeft["probe_create"] = 4 /\ StagesLeft["probe_bind"] = 3
        /\ StagesLeft["probe_connect"] = 2 /\ StagesLeft["probe_drop"] = 1
    BY DEF StagesLeft
  <2>r. ASSUME tries' = tries - 1, tries > 0, pc' \in {"create", "idle"},
               pc \in {"create", "drop"}
        PROVE  Rank' < Rank
    <3> DEFINE M == tries * (Window + 13)
               L == (tries - 1) * (Window + 13)
    <3>1. M \in Int /\ L \in Int /\ L = M - (Window + 13)
      BY <2>0
    <3>2. Rank = M + (StagesLeft[pc] + WindowLeft) /\ StagesLeft[pc] + WindowLeft \in Nat \ {0}
      BY <2>r, <2>0, <2>n, <3>1 DEF Rank, WindowLeft
    <3>3. Rank' = L + (StagesLeft[pc'] + WindowLeft')
      BY <2>r, <2>0, <2>n, <3>1 DEF Rank, WindowLeft
    <3>4. StagesLeft[pc'] + WindowLeft' \in 0..12 + Window
      BY <2>r, <2>0, <2>n DEF WindowLeft
    <3> HIDE DEF M, L
    <3> QED
      BY <2>0, <3>1, <3>2, <3>3, <3>4
  <2>s. ASSUME tries' \in {tries, 0} \/ (tries' = tries - 1 /\ tries > 0),
               StagesLeft[pc] \in Nat, WindowLeft \in Nat,
               StagesLeft[pc'] \in Nat, WindowLeft' \in Nat,
               \/ StagesLeft[pc'] + WindowLeft' < StagesLeft[pc] + WindowLeft
               \/ tries' # tries /\ tries > 0 /\ StagesLeft[pc'] + WindowLeft' <= StagesLeft[pc] + WindowLeft
        PROVE  Rank' < Rank
    <3> DEFINE M == tries * (Window + 13)
               L == tries' * (Window + 13)
    <3>1. M \in Int /\ L \in Int /\ (tries' = tries => L = M) /\ (tries' # tries /\ tries > 0 => L < M)
      <4>1. CASE tries' = tries
        BY <2>0, <4>1
      <4>2. CASE tries' = 0 /\ tries > 0
        <5>1. L = 0 /\ M \in Int /\ M = (tries - 1) * (Window + 13) + (Window + 13)
          BY <2>0, <4>2
        <5>2. (tries - 1) * (Window + 13) \in Nat
          BY <2>0, <4>2
        <5> QED
          BY <2>0, <5>1, <5>2
      <4>3. CASE tries' = tries - 1 /\ tries > 0
        <5>1. L \in Int /\ M = L + (Window + 13)
          BY <2>0, <4>3
        <5> QED
          BY <2>0, <5>1
      <4> QED
        BY <2>0, <2>s, <4>1, <4>2, <4>3
    <3>2. Rank = M + StagesLeft[pc] + WindowLeft /\ Rank' = L + StagesLeft[pc'] + WindowLeft'
      BY DEF Rank
    <3>3. tries' = tries \/ tries > 0
      BY <2>0, <2>s
    <3> HIDE DEF M, L
    <3> QED
      BY <2>s, <3>1, <3>2, <3>3
  <2> USE <2>0, <2>n DEF WindowLeft
  <2>1. CASE Create
    BY <1>1, <2>1, <2>r, <2>s DEF Create, Retry, Places
  <2>2. CASE Drop
    BY <1>1, <2>2, <2>r, <2>s DEF Drop, Retry, Places
  <2>3. CASE SessionBind \/ SessionListen
    BY <2>3, <2>s DEF SessionBind, SessionListen, Fail
  <2>4. CASE EpollCreate \/ EpollAdd
    BY <2>4, <2>s DEF EpollCreate, EpollAdd, Fail
  <2>5. CASE Drain \/ DrainEnd \/ EpollClose
    BY <2>5, <2>s DEF Drain, DrainEnd, EpollClose
  <2>6. CASE LocalAddr \/ TempDrop \/ ComparePorts
    <3>1. CASE LocalAddr
      BY <2>s, <3>1 DEF LocalAddr
    <3>2. CASE TempDrop
      BY <2>s, <3>2 DEF TempDrop
    <3>3. CASE ComparePorts
      BY <2>s, <3>3 DEF ComparePorts
    <3> QED
      BY <2>6, <3>1, <3>2, <3>3
  <2>7. CASE Register
    <3>1. pc = "register" /\ ((pc' = "idle" /\ tries' = 0) \/ (pc' = "drop" /\ tries' = tries))
      BY <2>7, Zenon DEF Register
    <3> QED
      BY <2>s, <3>1
  <2>8. CASE ProbeCreate \/ ProbeConnect \/ ProbeDrop
    BY <2>8, <2>s DEF ProbeCreate, ProbeConnect, ProbeDrop, Fail
  <2>9. CASE ProbeBind
    BY <1>1, <2>9, <2>s DEF ProbeBind, Places
  <2> QED
    BY <1>1, <2>1, <2>2, <2>3, <2>4, <2>5, <2>6, <2>7, <2>8, <2>9 DEF Step
<1>2. Types /\ Places /\ Rest /\ [Next]_vars => [Step => Down]_vars
  BY <1>1
<1>3. Spec => [][Step => Down]_vars
  BY <1>2, BindCore, PTL DEF Spec
<1> QED
  BY <1>3 DEF StepsWindDown
=============================================================================
