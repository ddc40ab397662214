----------------------------- MODULE TcpProofs ------------------------------
(***************************************************************************)
(* For every base, query, answer, number of source ports and every way the *)
(* writes and reads are cut: what the TCP DNS clients send is parsed as    *)
(* the query, what they return is the answer, and what they open they      *)
(* close.                                                                  *)
(***************************************************************************)
EXTENDS TcpDns, SequenceTheorems, TLAPS

-----------------------------------------------------------------------------
(* The length prefix.                                                        *)

(* to_be_bytes and from_be_bytes are inverse on lengths that fit.            *)
LEMMA PrefixValue ==
  ASSUME NEW n \in Nat, n < Base * Base
  PROVE  /\ Prefix(n) \in Seq(Bytes) /\ Len(Prefix(n)) = 2
         /\ Prefix(n)[1] * Base + Prefix(n)[2] = n
<1> DEFINE d == n \div Base
           r == n % Base
<1>1. Base \in Nat /\ Base > 1
  BY TcpDnsAssumption
<1>2. d \in Nat /\ r \in 0..Base-1 /\ n = d * Base + r
  BY <1>1
<1>3. d < Base
  <2> SUFFICES ASSUME d >= Base PROVE FALSE
    BY <1>1, <1>2
  <2> HIDE DEF d, r
  <2>1. d * Base >= Base * Base
    BY <1>1, <1>2
  <2> QED
    BY <1>1, <1>2, <2>1
<1>4. d % Base = d
  <2> HIDE DEF d
  <2> QED
    BY <1>1, <1>2, <1>3
<1>5. Prefix(n) = <<d, r>>
  BY <1>4 DEF Prefix
<1>6. d \in Bytes /\ r \in Bytes
  BY <1>1, <1>2, <1>3 DEF Bytes
<1> HIDE DEF d, r
<1>7. <<d, r>> \in Seq(Bytes) /\ Len(<<d, r>>) = 2 /\ <<d, r>>[1] = d /\ <<d, r>>[2] = r
  BY <1>6
<1> QED
  BY <1>2, <1>5, <1>7, Zenon

LEMMA ConcatFacts ==
  ASSUME NEW s \in Seq(Bytes), NEW t \in Seq(Bytes)
  PROVE  /\ s \o t \in Seq(Bytes) /\ Len(s \o t) = Len(s) + Len(t)
         /\ \A i \in 1 .. Len(s) + Len(t) : (s \o t)[i] = IF i <= Len(s) THEN s[i] ELSE t[i - Len(s)]
  BY ConcatProperties, Zenon

LEMMA ConcatTail ==
  ASSUME NEW s \in Seq(Bytes), NEW t \in Seq(Bytes),
         NEW m \in Len(s) + 1 .. Len(s) + Len(t), NEW n \in Len(s) + 1 .. Len(s) + Len(t)
  PROVE  SubSeq(s \o t, m, n) = SubSeq(t, m - Len(s), n - Len(s))
  BY SubSeqOfConcat2, Zenon

LEMMA SubSeqFacts ==
  ASSUME NEW s \in Seq(Bytes), NEW m \in 1 .. Len(s) + 1, NEW n \in m - 1 .. Len(s)
  PROVE  /\ SubSeq(s, m, n) \in Seq(Bytes)
         /\ Len(SubSeq(s, m, n)) = n - m + 1
         /\ \A i \in 1 .. n - m + 1 : SubSeq(s, m, n)[i] = s[m + i - 1]
<1>1. m \in Int /\ n \in Int /\ \A i \in m .. n : s[i] \in Bytes
  BY LenProperties
<1> QED
  BY <1>1, SubSeqProperties

LEMMA FrameFacts ==
  ASSUME NEW q \in Seq(Bytes), Frameable(q)
  PROVE  /\ Frame(q) \in Seq(Bytes) /\ Len(Frame(q)) = 2 + Len(q)
         /\ Value(Frame(q)) = Len(q)
         /\ SubSeq(Frame(q), 3, 2 + Len(q)) = q
<1> DEFINE p == Prefix(Len(q))
<1>1. Len(q) \in Nat /\ Len(q) < Base * Base
  BY DEF Frameable
<1>2. /\ p \in Seq(Bytes) /\ Len(p) = 2
      /\ p[1] * Base + p[2] = Len(q)
  BY <1>1, PrefixValue
<1> HIDE DEF p
<1>3. /\ p \o q \in Seq(Bytes) /\ Len(p \o q) = 2 + Len(q)
      /\ \A i \in 1 .. 2 + Len(q) : (p \o q)[i] = IF i <= 2 THEN p[i] ELSE q[i - 2]
  <2>1. /\ p \o q \in Seq(Bytes) /\ Len(p \o q) = Len(p) + Len(q)
        /\ \A i \in 1 .. Len(p) + Len(q) : (p \o q)[i] = IF i <= Len(p) THEN p[i] ELSE q[i - Len(p)]
    BY <1>2, ConcatFacts, Zenon
  <2> QED
    BY <1>2, <2>1
<1>4. (p \o q)[1] = p[1] /\ (p \o q)[2] = p[2]
  BY <1>1, <1>3
<1>5. SubSeq(p \o q, 3, 2 + Len(q)) = q
  <2>1. CASE Len(q) = 0
    <3>1. SubSeq(p \o q, 3, 2 + Len(q)) = <<>>
      BY <2>1, SubSeqEmpty
    <3> QED
      BY <2>1, <3>1, EmptySeq
  <2>2. CASE Len(q) > 0
    <3>1. SubSeq(p \o q, 3, 2 + Len(q)) = SubSeq(q, 1, Len(q))
      <4> DEFINE m == 3
                 n == 2 + Len(q)
      <4>1. /\ m \in Len(p) + 1 .. Len(p) + Len(q) /\ n \in Len(p) + 1 .. Len(p) + Len(q)
            /\ m - Len(p) = 1 /\ n - Len(p) = Len(q)
        BY <1>1, <1>2, <2>2
      <4> HIDE DEF m, n
      <4>2. SubSeq(p \o q, m, n) = SubSeq(q, m - Len(p), n - Len(p))
        BY <1>2, <4>1, ConcatTail, Zenon
      <4> QED
        BY <4>1, <4>2 DEF m, n
    <3> QED
      BY <3>1, SubSeqFull, Zenon
  <2>3. Len(q) = 0 \/ Len(q) > 0
    BY <1>1
  <2> QED
    BY <2>1, <2>2, <2>3, Zenon
<1> QED
  BY <1>2, <1>3, <1>4, <1>5 DEF Frame, Value, p

-----------------------------------------------------------------------------
(* What a step may do to the data and to the result of the call.             *)

data == <<sent, wire, reply, served, rx, lenbuf, resp>>

Before == {"create", "bind", "epoll", "add", "connect", "attempt", "settle"}

Quiet ==
    /\ UNCHANGED <<query, outcome, data>>
    /\ \/ pc' = pc
       \/ pc \in Before /\ pc' \in Before
       \/ pc \in Before /\ pc' = "write" /\ Frameable(query)
       \/ pc = "len" /\ pc' = "body" /\ Missing = 0 /\ DecodeLen(lenbuf) # 0

Failed ==
    /\ pc # "done" /\ pc' = "done" /\ outcome' \in VclErrors
    /\ UNCHANGED <<query, data>>

Restarted ==
    /\ pc \in Before /\ pc' = "attempt" /\ sent' = 0 /\ wire' = <<>>
    /\ UNCHANGED <<query, outcome, reply, served, rx, lenbuf, resp>>

LEMMA FromRcError == \A rc : FromRc(rc) \in VclErrors
  BY DEF FromRc, VclErrors

LEMMA ExitFails ==
  ASSUME pc # "done", NEW e \in VclErrors, Exit(e)
  PROVE  Failed
  BY DEF Exit, Failed, argVars, netVars, dataVars, data

LEMMA NextPortShape ==
  ASSUME pc \in Before, NEW e \in VclErrors, NextPort(e)
  PROVE  Failed \/ Restarted
<1>1. CASE Exit(e)
  BY <1>1, ExitFails DEF Before
<1>2. CASE ~Exit(e)
  BY <1>2 DEF NextPort, Restarted, argVars
<1> QED
  BY <1>1, <1>2

LEMMA Shapes ==
  ASSUME [Next]_vars
  PROVE  \/ Quiet \/ Failed \/ Restarted \/ BodyDone
         \/ WriteSome \/ ReadLen \/ ReadBody \/ Segment
         \/ \E b \in Bodies, more \in {<<>>, <<1>>} : ServerAnswers(b, more)
<1> USE DEF argVars, callVars, netVars, dataVars, data
<1>0. {"Api", "Timeout", "Closed"} \subseteq VclErrors
  BY DEF VclErrors
<1>1. CASE Create \/ BindSource \/ EpollCreate
  <2>1. CASE Exit("Api")
    BY <1>0, <1>1, <2>1, ExitFails DEF Create, BindSource, EpollCreate
  <2>2. CASE ~Exit("Api")
    BY <1>1, <2>2 DEF Create, BindSource, EpollCreate, Goto, Quiet, Before
  <2> QED
    BY <2>1, <2>2
<1>2. CASE EpollAdd
  BY <1>0, <1>2 DEF EpollAdd, Goto, Quiet, Failed, Before
<1>3. CASE Connect
  <2>1. CASE \E e \in VclErrors : Exit(e)
    BY <1>3, <2>1, ExitFails DEF Connect
  <2>2. CASE ~\E e \in VclErrors : Exit(e)
    BY <1>0, <1>3, <2>2, FromRcError DEF Connect, Quiet, Before
  <2> QED
    BY <2>1, <2>2
<1>4. CASE Attempt \/ Settle
  <2>0. pc \in Before /\ pc # "done"
    BY <1>4 DEF Attempt, Settle, Before
  <2>1. CASE \E e \in VclErrors : Exit(e) \/ NextPort(e)
    BY <2>0, <2>1, ExitFails, NextPortShape
  <2>2. CASE ~\E e \in VclErrors : Exit(e) \/ NextPort(e)
    BY <1>0, <1>4, <2>2, FromRcError DEF Attempt, Settle, Quiet, Before
  <2> QED
    BY <2>1, <2>2
<1>5. CASE WriteBlocked \/ WriteError \/ WaitTimeout \/ ReadTimeout \/ ReadBlocked \/ ReadClosed \/ LenDone
  <2>0. pc # "done"
    BY <1>5 DEF WriteBlocked, WriteError, WaitTimeout, ReadTimeout, ReadBlocked, ReadClosed, LenDone,
       Reading, Missing
  <2>1. CASE \E e \in VclErrors : Exit(e)
    BY <2>0, <2>1, ExitFails
  <2>2. CASE ~\E e \in VclErrors : Exit(e)
    BY <1>0, <1>5, <2>2, FromRcError DEF WriteBlocked, WriteError, WaitTimeout, ReadTimeout,
       ReadBlocked, ReadClosed, LenDone, Again, Goto, Quiet
  <2> QED
    BY <2>1, <2>2
<1>6. CASE Handshake \/ PeerCloses \/ Expire \/ UNCHANGED vars
  BY <1>6 DEF Handshake, PeerCloses, Expire, Quiet, vars
<1> QED
  BY <1>1, <1>2, <1>3, <1>4, <1>5, <1>6 DEF Next, Caller, Server

-----------------------------------------------------------------------------
(* What the server has received is what was written of the frame, and        *)
(* nothing is written before frame_tcp_dns_query has accepted the query.     *)
Sending ==
    /\ query \in Queries
    /\ sent = 0 \/ Frameable(query)
    /\ pc = "write" => Frameable(query)
    /\ pc \in Before => sent = 0
    /\ sent \in 0 .. 2 + Len(query)
    /\ wire = SubSeq(Frame(query), 1, sent)

LEMMA WriteAmount ==
  ASSUME Sending, pc = "write", NEW n \in WriteRcs, n > 0
  PROVE  /\ query \in Seq(Bytes) /\ Frameable(query) /\ Len(query) \in Nat
         /\ Frame(query) \in Seq(Bytes) /\ Len(Frame(query)) = 2 + Len(query)
         /\ n \in 1 .. 2 + Len(query) - sent
<1>1. /\ query \in Seq(Bytes) /\ Frameable(query) /\ Len(query) \in Nat
      /\ Frame(query) \in Seq(Bytes) /\ Len(Frame(query)) = 2 + Len(query)
  BY TcpDnsAssumption, FrameFacts DEF Sending
<1>2. n \in 1 .. 2 + Len(query) - sent
  BY <1>1 DEF Sending, WriteRcs, EAGAIN, EPIPE, ECONNRESET, ENOTCONN
<1> QED
  BY <1>1, <1>2

LEMMA SendingNext == Sending /\ [Next]_vars => Sending'
<1> SUFFICES ASSUME Sending, [Next]_vars PROVE Sending'
  OBVIOUS
<1> USE DEF Sending
<1>1. CASE Quiet \/ Failed \/ BodyDone
  BY <1>1 DEF Quiet, Failed, BodyDone, Exit, data, argVars, netVars, dataVars, Before, Frameable
<1>2. CASE Restarted
  <2>1. SubSeq(Frame(query), 1, 0) = <<>>
    BY SubSeqEmpty
  <2> QED
    BY <1>2, <2>1, TcpDnsAssumption DEF Restarted
<1>3. CASE WriteSome
  <2>1. PICK n \in WriteRcs : /\ n > 0 /\ sent' = sent + n
                              /\ wire' = wire \o SubSeq(Frame(query), sent + 1, sent + n)
    BY <1>3, Zenon DEF WriteSome
  <2>2. /\ pc = "write" /\ query' = query
        /\ pc' \in {"write", "len"}
    BY <1>3 DEF WriteSome, callVars, argVars
  <2>3. /\ query \in Seq(Bytes) /\ Frameable(query) /\ Len(query) \in Nat
        /\ Frame(query) \in Seq(Bytes) /\ Len(Frame(query)) = 2 + Len(query)
    BY <2>1, <2>2, WriteAmount
  <2>4. n \in 1 .. 2 + Len(query) - sent
    BY <2>1, <2>2, WriteAmount
  <2>5. wire' = SubSeq(Frame(query), 1, sent + n)
    <3> DEFINE m == 1
               e == sent + n
               L == Len(Frame(query))
    <3>1. m \in 1 .. L + 1 /\ sent \in m - 1 .. L /\ e \in sent .. L
      BY <2>3, <2>4
    <3> HIDE DEF m, e, L
    <3>2. SubSeq(Frame(query), m, sent) \o SubSeq(Frame(query), sent + 1, e)
            = SubSeq(Frame(query), m, e)
      BY <2>3, <3>1, ConcatAdjacentSubSeq, Zenon DEF L
    <3> QED
      BY <2>1, <3>2, Zenon DEF m, e
  <2>6. sent' \in 0 .. 2 + Len(query)
    BY <2>1, <2>3, <2>4
  <2> QED
    BY <2>1, <2>2, <2>3, <2>5, <2>6 DEF Before, Frameable
<1>4. CASE ReadLen \/ ReadBody \/ Segment \/ \E b \in Bodies, more \in {<<>>, <<1>>} : ServerAnswers(b, more)
  BY <1>4 DEF ReadLen, ReadBody, Segment, ServerAnswers, callVars, argVars, netVars, dataVars, Frameable
<1> QED
  BY <1>1, <1>2, <1>3, <1>4, Shapes

LEMMA SendingInit == Init => Sending
<1> SUFFICES ASSUME Init PROVE Sending
  OBVIOUS
<1>1. SubSeq(Frame(query), 1, 0) = <<>>
  BY SubSeqEmpty
<1>2. Len(query) \in Nat
  BY TcpDnsAssumption DEF Init
<1> QED
  BY <1>1, <1>2 DEF Init, Sending, Before

(* A receiver of the first n bytes of a frame has a message when it has all  *)
(* of the frame, and not before.                                             *)
Parses(w, q, n) ==
    /\ Len(w) = n
    /\ (Len(w) >= 2 /\ Len(w) >= 2 + Value(w)) <=> n = 2 + Len(q)
    /\ n = 2 + Len(q) => SubSeq(w, 3, 2 + Value(w)) = q

LEMMA ParseFrame ==
  ASSUME NEW q \in Seq(Bytes), Frameable(q), NEW n \in 0 .. 2 + Len(q)
  PROVE  Parses(SubSeq(Frame(q), 1, n), q, n)
<1> DEFINE w == SubSeq(Frame(q), 1, n)
<1>0. Len(q) \in Nat
  OBVIOUS
<1>1. /\ Frame(q) \in Seq(Bytes) /\ Len(Frame(q)) = 2 + Len(q)
      /\ Value(Frame(q)) = Len(q)
      /\ SubSeq(Frame(q), 3, 2 + Len(q)) = q
  BY FrameFacts
<1>2. Len(w) = n /\ \A i \in 1 .. n : w[i] = Frame(q)[i]
  BY <1>0, <1>1, SubSeqFacts
<1>3. n >= 2 => Value(w) = Len(q)
  BY <1>0, <1>1, <1>2 DEF Value
<1>4. n = 2 + Len(q) => w = Frame(q)
  <2>1. SubSeq(Frame(q), 1, Len(Frame(q))) = Frame(q)
    BY <1>1, SubSeqFull
  <2> QED
    BY <1>1, <2>1
<1> HIDE DEF w
<1>5. Parses(w, q, n)
  BY <1>0, <1>1, <1>2, <1>3, <1>4 DEF Parses
<1> QED
  BY <1>5 DEF w

(* The server has a message when the whole frame was written, and not        *)
(* before.                                                                   *)
LEMMA WholeFrame ==
  ASSUME Sending
  PROVE  /\ HasMessage <=> sent = 2 + Len(query)
         /\ HasMessage => Message = query /\ Len(wire) = 2 + Len(query) /\ Frameable(query)
<1> USE DEF Sending
<1>0. query \in Seq(Bytes) /\ Len(query) \in Nat
  BY TcpDnsAssumption
<1>1. CASE sent = 0
  <2>1. wire = <<>>
    BY <1>1, SubSeqEmpty
  <2>2. Len(wire) = 0
    BY <2>1
  <2> QED
    BY <1>0, <1>1, <2>2 DEF HasMessage
<1>2. CASE Frameable(query)
  <2>1. Parses(wire, query, sent)
    BY <1>0, <1>2, ParseFrame
  <2> QED
    BY <1>2, <2>1, Zenon DEF Parses, HasMessage, Message
<1> QED
  BY <1>1, <1>2

(* The prefix never desynchronises the channel (dgram.rs:278-297, 522-558;   *)
(* stream.rs:221-237): for every query, base and way of cutting the writes   *)
(* the server parses exactly the query.                                      *)
THEOREM ServerAlwaysGetsQuery == Spec => []ServerGetsQuery
<1>1. Sending => ServerGetsQuery
  BY WholeFrame DEF ServerGetsQuery
<1> QED
  BY <1>1, SendingInit, SendingNext, PTL DEF Spec

-----------------------------------------------------------------------------
(* One session from its creation to the return or the next source port; an   *)
(* epoll set only between its creation and the return, under the guard as    *)
(* soon as the session was added to it.                                      *)
HandleInv ==
    /\ sessions = IF pc \in {"create", "attempt", "done"} THEN 0 ELSE 1
    /\ vep => pc = "add" \/ guard
    /\ pc \in {"create", "bind", "epoll", "attempt", "settle", "done"} => ~vep

LEMMA ExitCloses ==
  ASSUME NEW e, HandleInv, pc \notin {"add", "done"}, Exit(e)
  PROVE  HandleInv'
<1>1. sessions' = 0 /\ pc' = "done"
  BY DEF HandleInv, Exit, CloseSession
<1>2. ~vep'
  BY Zenon DEF HandleInv, Exit
<1> QED
  BY <1>1, <1>2 DEF HandleInv

LEMMA NextPortCloses ==
  ASSUME NEW e, HandleInv, pc \in {"attempt", "settle"}, NextPort(e)
  PROVE  HandleInv'
<1>1. CASE Exit(e)
  BY <1>1, ExitCloses
<1>2. CASE ~Exit(e)
  <2>1. pc' = "attempt" /\ sessions' = 0
    BY <1>2 DEF NextPort, HandleInv, CloseSession
  <2>2. vep' = vep /\ ~vep
    BY <1>2 DEF NextPort, HandleInv
  <2> QED
    BY <2>1, <2>2 DEF HandleInv
<1> QED
  BY <1>1, <1>2

LEMMA HandlesNext == HandleInv /\ [Next]_vars => HandleInv'
<1> SUFFICES ASSUME HandleInv, [Next]_vars PROVE HandleInv'
  OBVIOUS
<1> USE DEF argVars, callVars
<1>1. CASE \E e \in VclErrors \cup {"ok"} : Exit(e) /\ pc \notin {"add", "done"}
  BY <1>1, ExitCloses
<1>2. CASE \E e \in VclErrors : NextPort(e) /\ pc \in {"attempt", "settle"}
  BY <1>2, NextPortCloses
<1>3. ASSUME ~\E e \in VclErrors \cup {"ok"} : Exit(e) /\ pc \notin {"add", "done"},
             ~\E e \in VclErrors : NextPort(e) /\ pc \in {"attempt", "settle"}
      PROVE  HandleInv'
  <2>0. {"Api", "Timeout", "Closed"} \subseteq VclErrors
    BY DEF VclErrors
  <2>1. CASE Create \/ BindSource \/ EpollCreate
    BY <1>3, <2>0, <2>1 DEF Create, BindSource, EpollCreate, Goto, HandleInv
  <2>2. CASE EpollAdd
    BY <2>2 DEF EpollAdd, Goto, CloseSession, HandleInv
  <2>3. CASE Connect
    BY <1>3, <2>0, <2>3, FromRcError DEF Connect, HandleInv
  <2>4. CASE Attempt \/ Settle
    BY <1>3, <2>0, <2>4, FromRcError DEF Attempt, Settle, HandleInv
  <2>5. CASE WriteSome \/ ReadLen \/ ReadBody \/ BodyDone \/ LenDone
    BY <1>3, <2>0, <2>5 DEF WriteSome, ReadLen, ReadBody, BodyDone, LenDone, Goto, HandleInv
  <2>6. CASE WriteBlocked \/ WriteError \/ WaitTimeout \/ ReadTimeout \/ ReadBlocked \/ ReadClosed
    BY <1>3, <2>0, <2>6, FromRcError DEF WriteBlocked, WriteError, WaitTimeout, ReadTimeout,
       ReadBlocked, ReadClosed, Reading, Missing, Again, HandleInv
  <2>7. CASE Server \/ PeerCloses \/ Expire \/ UNCHANGED vars
    BY <2>7 DEF Server, Handshake, Segment, ServerAnswers, PeerCloses, Expire, vars, HandleInv
  <2> QED
    BY <2>1, <2>2, <2>3, <2>4, <2>5, <2>6, <2>7 DEF Next, Caller
<1> QED
  BY <1>1, <1>2, <1>3

(* Every return path closes what the call opened (dgram.rs:458-463, 479-492, *)
(* 360-369): one session per source port tried, and the epoll set, which has *)
(* no guard until the session is in it.                                      *)
THEOREM HandlesAlwaysClosed == Spec => []HandlesClosed
<1>1. Init => HandleInv
  BY DEF Init, HandleInv
<1>2. HandleInv => HandlesClosed
  BY DEF HandleInv, HandlesClosed
<1> QED
  BY <1>1, <1>2, HandlesNext, PTL DEF Spec

-----------------------------------------------------------------------------
(* Cutting a part of a sequence in two, and moving its first element to the  *)
(* part before it.                                                           *)
LEMMA Cut ==
  ASSUME NEW S \in Seq(Bytes), NEW c \in Nat, NEW d \in c .. Len(S), NEW n \in 1 .. d - c
  PROVE  /\ SubSeq(SubSeq(S, c + 1, d), 1, n) = SubSeq(S, c + 1, c + n)
         /\ SubSeq(SubSeq(S, c + 1, d), n + 1, d - c) = SubSeq(S, c + n + 1, d)
<1>0. Len(S) \in Nat
  OBVIOUS
<1>1. c + 1 \in 1 .. Len(S) /\ d \in 1 .. Len(S) /\ 1 \in 1 .. d - (c + 1) + 1 /\ n \in 1 .. d - (c + 1) + 1
  BY <1>0
<1>2. SubSeq(SubSeq(S, c + 1, d), 1, n) = SubSeq(S, c + 1, c + n)
  <2>1. SubSeq(SubSeq(S, c + 1, d), 1, n) = SubSeq(S, c + 1 + 1 - 1, c + 1 + n - 1)
    BY <1>1, SubSeqOfSubSeq
  <2> QED
    BY <2>1
<1>3. CASE n < d - c
  <2>1. n + 1 \in 1 .. d - (c + 1) + 1 /\ d - c \in 1 .. d - (c + 1) + 1
    BY <1>0, <1>3
  <2>2. SubSeq(SubSeq(S, c + 1, d), n + 1, d - c) = SubSeq(S, c + 1 + (n + 1) - 1, c + 1 + (d - c) - 1)
    BY <1>1, <2>1, SubSeqOfSubSeq
  <2>3. c + 1 + (n + 1) - 1 = c + n + 1 /\ c + 1 + (d - c) - 1 = d
    BY <1>0
  <2> QED
    BY <1>2, <2>2, <2>3
<1>4. CASE n = d - c
  <2>1. SubSeq(SubSeq(S, c + 1, d), n + 1, d - c) = <<>>
    BY <1>4, SubSeqEmpty
  <2>2. SubSeq(S, c + n + 1, d) = <<>>
    BY <1>0, <1>4, SubSeqEmpty
  <2> QED
    BY <1>2, <2>1, <2>2
<1> QED
  BY <1>0, <1>3, <1>4

LEMMA Glue ==
  ASSUME NEW S \in Seq(Bytes), NEW a \in Nat, NEW c \in a .. Len(S), NEW n \in Nat, c + n <= Len(S)
  PROVE  SubSeq(S, a + 1, c) \o SubSeq(S, c + 1, c + n) = SubSeq(S, a + 1, c + n)
<1>1. Len(S) \in Nat
  OBVIOUS
<1>2. a + 1 \in 1 .. Len(S) + 1 /\ c \in (a + 1) - 1 .. Len(S) /\ c + n \in c .. Len(S)
  BY <1>1
<1> QED
  BY <1>2, ConcatAdjacentSubSeq

LEMMA Move ==
  ASSUME NEW S \in Seq(Bytes), NEW c \in Nat, NEW d \in c .. Len(S), d < Len(S)
  PROVE  /\ Append(SubSeq(S, c + 1, d), Head(SubSeq(S, d + 1, Len(S)))) = SubSeq(S, c + 1, d + 1)
         /\ Tail(SubSeq(S, d + 1, Len(S))) = SubSeq(S, d + 2, Len(S))
<1>0. Len(S) \in Nat
  OBVIOUS
<1>1. d + 1 \in 1 .. Len(S) /\ Len(S) \in d + 1 .. Len(S) /\ S[d + 1] \in Bytes
  BY <1>0
<1>2. /\ Head(SubSeq(S, d + 1, Len(S))) = S[d + 1]
      /\ Tail(SubSeq(S, d + 1, Len(S))) = SubSeq(S, d + 2, Len(S))
  <2>1. Tail(SubSeq(S, d + 1, Len(S))) = SubSeq(S, (d + 1) + 1, Len(S))
    BY <1>1, HeadTailOfSubSeq
  <2>2. Head(SubSeq(S, d + 1, Len(S))) = S[d + 1]
    BY <1>1, HeadTailOfSubSeq
  <2>3. (d + 1) + 1 = d + 2
    BY <1>0
  <2> QED
    BY <2>1, <2>2, <2>3
<1>3. SubSeq(S, c + 1, d) \in Seq(Bytes)
  BY <1>0, SubSeqFacts
<1>4. Append(SubSeq(S, c + 1, d), S[d + 1]) = SubSeq(S, c + 1, d) \o <<S[d + 1]>>
  BY <1>1, <1>3, AppendIsConcat
<1>5. SubSeq(S, c + 1, d + 1) = SubSeq(S, c + 1, d) \o <<S[d + 1]>>
  <2>1. c + 1 \in 1 .. Len(S) /\ d + 1 \in c + 1 .. Len(S)
    BY <1>0
  <2>2. SubSeq(S, c + 1, d + 1) = SubSeq(S, c + 1, (d + 1) - 1) \o <<S[d + 1]>>
    BY <2>1, SubSeqRecursiveSecond
  <2>3. (d + 1) - 1 = d
    BY <1>0
  <2> QED
    BY <2>2, <2>3
<1> QED
  BY <1>2, <1>4, <1>5

-----------------------------------------------------------------------------
(* What may follow an answer.                                                *)
Trailers == {<<>>, <<1>>}

(* An answer on the wire, perhaps followed by more.                          *)
LEMMA AnswerFacts ==
  ASSUME NEW b \in Bodies, NEW more \in Trailers
  PROVE  /\ b \in Seq(Bytes) /\ Len(b) \in Nat
         /\ Frame(b) \o more \in Seq(Bytes)
         /\ Len(Frame(b) \o more) \in Nat /\ Len(Frame(b) \o more) >= 2 + Len(b)
         /\ Value(SubSeq(Frame(b) \o more, 1, 2)) = Len(b)
         /\ SubSeq(Frame(b) \o more, 3, 2 + Len(b)) = b
<1> DEFINE F == Frame(b)
<1>0. b \in Seq(Bytes) /\ Frameable(b) /\ Len(b) \in Nat
  BY TcpDnsAssumption DEF Frameable
<1>1. /\ F \in Seq(Bytes) /\ Len(F) = 2 + Len(b)
      /\ Value(F) = Len(b)
      /\ SubSeq(F, 3, 2 + Len(b)) = b
  BY <1>0, FrameFacts
<1>2. more \in Seq(Bytes) /\ Len(more) \in Nat
  <2>1. 1 \in Bytes
    BY TcpDnsAssumption DEF Bytes
  <2>2. CASE more = <<>>
    BY <2>2
  <2>3. CASE more = <<1>>
    BY <2>1, <2>3
  <2> QED
    BY <2>2, <2>3 DEF Trailers
<1> HIDE DEF F
<1>3. /\ F \o more \in Seq(Bytes) /\ Len(F \o more) = Len(F) + Len(more)
      /\ \A i \in 1 .. Len(F) + Len(more) : (F \o more)[i] = IF i <= Len(F) THEN F[i] ELSE more[i - Len(F)]
  BY <1>1, <1>2, ConcatFacts, Zenon
<1>4. (F \o more)[1] = F[1] /\ (F \o more)[2] = F[2]
  BY <1>0, <1>1, <1>2, <1>3
<1>5. Value(SubSeq(F \o more, 1, 2)) = Len(b)
  <2> DEFINE S == F \o more
  <2>1. S \in Seq(Bytes) /\ Len(S) >= 2 /\ Len(S) \in Nat /\ S[1] = F[1] /\ S[2] = F[2]
    BY <1>0, <1>1, <1>2, <1>3, <1>4
  <2> HIDE DEF S
  <2>2. SubSeq(S, 1, 2)[1] = S[1] /\ SubSeq(S, 1, 2)[2] = S[2]
    BY <2>1, SubSeqFacts
  <2> QED
    BY <1>1, <2>1, <2>2 DEF Value, S
<1>6. SubSeq(F \o more, 3, 2 + Len(b)) = b
  <2>1. CASE Len(b) = 0
    <3>1. SubSeq(F \o more, 3, 2 + Len(b)) = <<>> /\ SubSeq(F, 3, 2 + Len(b)) = <<>>
      BY <2>1, SubSeqEmpty
    <3> QED
      BY <1>1, <3>1
  <2>2. CASE Len(b) > 0
    <3> DEFINE m == 3
               n == 2 + Len(b)
    <3>1. m \in 1 .. Len(F) /\ n \in 1 .. Len(F)
      BY <1>0, <1>1, <2>2
    <3> HIDE DEF m, n
    <3>2. SubSeq(F \o more, m, n) = SubSeq(F, m, n)
      BY <1>1, <1>2, <3>1, SubSeqOfConcat1, Zenon
    <3> QED
      BY <1>1, <3>2 DEF m, n
  <2>3. Len(b) = 0 \/ Len(b) > 0
    BY <1>0
  <2> QED
    BY <2>1, <2>2, <2>3, Zenon
<1>7. Len(F \o more) \in Nat /\ Len(F \o more) >= 2 + Len(b)
  BY <1>0, <1>1, <1>2, <1>3
<1> QED
  BY <1>0, <1>3, <1>5, <1>6, <1>7 DEF F

(* The bytes of the answer, in order: read as the prefix, read as the body,  *)
(* in the RX FIFO, still to be sent.                                         *)
Split(S, a, c, d) ==
    /\ a \in 0 .. 2 /\ c \in a .. Len(S) /\ d \in c .. Len(S)
    /\ lenbuf = SubSeq(S, 1, a)
    /\ resp = SubSeq(S, a + 1, c)
    /\ rx = SubSeq(S, c + 1, d)
    /\ reply = SubSeq(S, d + 1, Len(S))

(* The body is read only after the whole prefix, and no further than the     *)
(* prefix says.                                                              *)
Answering(b, more, a, c, d) ==
    /\ served = {b}
    /\ Split(Frame(b) \o more, a, c, d)
    /\ pc \notin {"body", "done"} => c = a
    /\ pc = "body" => a = 2 /\ Len(b) # 0
    /\ c <= a + Len(b)

Silent == served = {} /\ lenbuf = <<>> /\ resp = <<>> /\ rx = <<>> /\ reply = <<>> /\ pc # "body"

Stream ==
    \/ Silent
    \/ \E b \in Bodies, more \in Trailers, a, c, d \in Nat : Answering(b, more, a, c, d)

Ended ==
    /\ outcome # "none" <=> pc = "done"
    /\ outcome = "ok" => served = {resp} /\ resp # <<>>

LEMMA SilentNext == Silent /\ [Next]_vars => Stream'
<1> SUFFICES ASSUME Silent, [Next]_vars PROVE Stream'
  OBVIOUS
<1>1. CASE Quiet
  <2>1. pc = "len" => Missing = 2
    BY DEF Missing, Silent
  <2> QED
    BY <1>1, <2>1 DEF Quiet, data, Silent, Stream, Before
<1>2. CASE Failed \/ Restarted \/ BodyDone \/ WriteSome
  BY <1>2 DEF Failed, Restarted, BodyDone, WriteSome, data, callVars, Silent, Stream
<1>3. ~ReadLen /\ ~ReadBody /\ ~Segment
  BY DEF Silent, ReadLen, ReadBody, Segment, ReadRcs, EAGAIN, ECONNRESET, ENOTCONN
<1>4. ASSUME NEW b \in Bodies, NEW more \in Trailers, ServerAnswers(b, more)
      PROVE  Stream'
  <2> DEFINE S == Frame(b) \o more
  <2>0. S \in Seq(Bytes) /\ Len(S) \in Nat
    BY AnswerFacts
  <2>1. /\ served' = {b} /\ reply' = S
        /\ lenbuf' = <<>> /\ resp' = <<>> /\ rx' = <<>> /\ pc' # "body"
    BY <1>4 DEF ServerAnswers, dataVars, Silent
  <2> HIDE DEF S
  <2>2. SubSeq(S, 1, 0) = <<>> /\ SubSeq(S, 1, Len(S)) = S
    BY <2>0, SubSeqEmpty, SubSeqFull
  <2>3. Answering(b, more, 0, 0, 0)'
    BY <2>0, <2>1, <2>2 DEF Answering, Split, S
  <2> QED
    BY <2>3 DEF Stream
<1> QED
  BY <1>1, <1>2, <1>3, <1>4, Shapes DEF Trailers

(* What is known of the buffers while the answer is under way.               *)
LEMMA AnsweringFacts ==
  ASSUME NEW b \in Bodies, NEW more \in Trailers, NEW a \in Nat, NEW c \in Nat, NEW d \in Nat,
         Answering(b, more, a, c, d)
  PROVE  /\ Frame(b) \o more \in Seq(Bytes) /\ Len(Frame(b) \o more) \in Nat
         /\ Len(lenbuf) = a /\ Len(resp) = c - a /\ Len(rx) = d - c
         /\ a = 2 => DecodeLen(lenbuf) = Len(b)
         /\ Len(reply) = Len(Frame(b) \o more) - d
         /\ Len(b) \in Nat
<1> DEFINE S == Frame(b) \o more
<1>1. /\ S \in Seq(Bytes) /\ Len(S) \in Nat /\ Value(SubSeq(S, 1, 2)) = Len(b)
      /\ Len(b) \in Nat /\ Len(S) >= 2 + Len(b)
  BY AnswerFacts
<1>2. /\ a \in 0 .. 2 /\ c \in a .. Len(S) /\ d \in c .. Len(S)
      /\ lenbuf = SubSeq(S, 1, a) /\ resp = SubSeq(S, a + 1, c)
      /\ rx = SubSeq(S, c + 1, d) /\ reply = SubSeq(S, d + 1, Len(S))
  BY DEF Answering, Split
<1> HIDE DEF S
<1>3. Len(lenbuf) = a
  BY <1>1, <1>2, SubSeqFacts
<1>4. Len(resp) = c - a
  BY <1>1, <1>2, SubSeqFacts
<1>5. Len(rx) = d - c
  BY <1>1, <1>2, SubSeqFacts
<1>6. Len(reply) = Len(S) - d
  BY <1>1, <1>2, SubSeqFacts
<1> QED
  BY <1>1, <1>2, <1>3, <1>4, <1>5, <1>6 DEF DecodeLen, S

LEMMA AnsweringNext ==
  ASSUME NEW b \in Bodies, NEW more \in Trailers, NEW a \in Nat, NEW c \in Nat, NEW d \in Nat,
         Answering(b, more, a, c, d), [Next]_vars
  PROVE  Stream'
<1> DEFINE S == Frame(b) \o more
<1>0. /\ S \in Seq(Bytes) /\ Len(S) \in Nat
      /\ Len(lenbuf) = a /\ Len(resp) = c - a /\ Len(rx) = d - c
      /\ a = 2 => DecodeLen(lenbuf) = Len(b)
      /\ Len(b) \in Nat
  BY AnsweringFacts
<1>1. /\ a \in 0 .. 2 /\ c \in a .. Len(S) /\ d \in c .. Len(S)
      /\ lenbuf = SubSeq(S, 1, a) /\ resp = SubSeq(S, a + 1, c)
      /\ rx = SubSeq(S, c + 1, d) /\ reply = SubSeq(S, d + 1, Len(S))
      /\ served = {b}
      /\ pc \notin {"body", "done"} => c = a
      /\ pc = "body" => a = 2 /\ Len(b) # 0 /\ c <= 2 + Len(b)
  BY DEF Answering, Split
<1>2. SUFFICES \E x, y, z \in Nat : Answering(b, more, x, y, z)'
  BY DEF Stream
<1> HIDE DEF S
<1>3. CASE Quiet
  <2>1. pc = "len" /\ Missing = 0 /\ DecodeLen(lenbuf) # 0 => a = 2 /\ c = 2 /\ Len(b) # 0
    BY <1>0, <1>1 DEF Missing
  <2>2. UNCHANGED <<served, lenbuf, resp, rx, reply>>
    BY <1>3 DEF Quiet, data
  <2>3. /\ pc' \notin {"body", "done"} => c = a
        /\ pc' = "body" => a = 2 /\ Len(b) # 0 /\ c <= 2 + Len(b)
    <3>1. CASE pc' = pc
      BY <1>1, <3>1
    <3>2. CASE pc \in Before /\ pc' \in Before \cup {"write"}
      BY <1>1, <3>2 DEF Before
    <3>3. CASE pc = "len" /\ pc' = "body" /\ Missing = 0 /\ DecodeLen(lenbuf) # 0
      BY <1>0, <2>1, <3>3
    <3> QED
      BY <1>3, <3>1, <3>2, <3>3 DEF Quiet
  <2>4. Answering(b, more, a, c, d)'
    BY <1>1, <2>2, <2>3 DEF Answering, Split, S
  <2> QED
    BY <2>4
<1>4. CASE Failed \/ Restarted \/ BodyDone \/ WriteSome
  <2>1. UNCHANGED <<served, lenbuf, resp, rx, reply>>
    BY <1>4 DEF Failed, Restarted, BodyDone, WriteSome, Exit, data, netVars, dataVars
  <2>2. \/ pc' = "done"
        \/ pc \notin {"body", "done"} /\ pc' # "body"
    BY <1>4 DEF Failed, Restarted, BodyDone, WriteSome, Exit, Before
  <2>3. Answering(b, more, a, c, d)'
    BY <1>0, <1>1, <2>1, <2>2 DEF Answering, Split, S
  <2> QED
    BY <2>3
<1>5. CASE ReadLen
  <2>1. PICK n \in ReadRcs : /\ n > 0 /\ lenbuf' = lenbuf \o SubSeq(rx, 1, n)
                             /\ rx' = SubSeq(rx, n + 1, Len(rx))
    BY <1>5, Zenon DEF ReadLen
  <2>2. pc = "len" /\ UNCHANGED <<pc, served, resp, reply>> /\ c = a
    BY <1>1, <1>5 DEF ReadLen, netVars
  <2>3. n \in 1 .. d - c /\ a + n \in 0 .. 2
    <3>1. Missing = 2 - a
      BY <1>0, <1>1, <2>2 DEF Missing
    <3>2. n = Least(Missing, Len(rx))
      BY <2>1 DEF ReadRcs, EAGAIN, ECONNRESET, ENOTCONN
    <3>3. Missing \in Int /\ Len(rx) \in Int
      BY <1>0, <1>1, <3>1
    <3>4. n \in Int /\ n <= Missing /\ n <= Len(rx)
      BY <3>2, <3>3 DEF Least
    <3> QED
      BY <1>0, <1>1, <2>1, <2>2, <3>1, <3>4
  <2>4. lenbuf' = SubSeq(S, 1, a + n)
    <3>1. SubSeq(rx, 1, n) = SubSeq(S, c + 1, c + n)
      BY <1>0, <1>1, <2>3, Cut
    <3> DEFINE z == 0
    <3>2. z \in Nat /\ c \in z .. Len(S) /\ n \in Nat /\ c + n <= Len(S) /\ z + 1 = 1
      BY <1>0, <1>1, <2>3
    <3> HIDE DEF z
    <3>3. SubSeq(S, z + 1, c) \o SubSeq(S, c + 1, c + n) = SubSeq(S, z + 1, c + n)
      BY <1>0, <3>2, Glue
    <3> QED
      BY <1>1, <2>1, <2>2, <3>1, <3>2, <3>3, Zenon
  <2>5. rx' = SubSeq(S, a + n + 1, d)
    BY <1>0, <1>1, <2>1, <2>2, <2>3, Cut
  <2>6. resp' = SubSeq(S, a + n + 1, a + n)
    <3>1. SubSeq(S, a + n + 1, a + n) = <<>> /\ SubSeq(S, a + 1, a) = <<>>
      BY <1>1, <2>3, SubSeqEmpty
    <3> QED
      BY <1>1, <2>2, <3>1, Zenon
  <2>7. a + n \in Nat /\ a + n \in a + n .. Len(S) /\ d \in a + n .. Len(S)
    BY <1>0, <1>1, <2>2, <2>3
  <2>8. Answering(b, more, a + n, a + n, d)'
    BY <1>1, <2>2, <2>3, <2>4, <2>5, <2>6, <2>7 DEF Answering, Split, S
  <2> QED
    BY <2>7, <2>8
<1>6. CASE ReadBody
  <2>1. PICK n \in ReadRcs : /\ n > 0 /\ resp' = resp \o SubSeq(rx, 1, n)
                             /\ rx' = SubSeq(rx, n + 1, Len(rx))
    BY <1>6, Zenon DEF ReadBody
  <2>2. pc = "body" /\ UNCHANGED <<pc, served, lenbuf, reply>>
    BY <1>6 DEF ReadBody, netVars
  <2>3. n \in 1 .. d - c /\ c + n <= 2 + Len(b)
    <3>1. Missing = Len(b) - (c - 2)
      BY <1>0, <1>1, <2>2 DEF Missing
    <3>2. n = Least(Missing, Len(rx))
      BY <2>1 DEF ReadRcs, EAGAIN, ECONNRESET, ENOTCONN
    <3>3. Missing \in Int /\ Len(rx) \in Int
      BY <1>0, <1>1, <3>1
    <3>4. n \in Int /\ n <= Missing /\ n <= Len(rx)
      BY <3>2, <3>3 DEF Least
    <3> QED
      BY <1>0, <1>1, <2>1, <2>2, <3>1, <3>4
  <2>4. resp' = SubSeq(S, a + 1, c + n)
    <3>1. SubSeq(rx, 1, n) = SubSeq(S, c + 1, c + n)
      BY <1>0, <1>1, <2>3, Cut
    <3>2. n \in Nat /\ c + n <= Len(S)
      BY <1>0, <1>1, <2>3
    <3>3. SubSeq(S, a + 1, c) \o SubSeq(S, c + 1, c + n) = SubSeq(S, a + 1, c + n)
      BY <1>0, <1>1, <3>2, Glue, Zenon
    <3> QED
      BY <1>1, <2>1, <3>1, <3>3, Zenon
  <2>5. rx' = SubSeq(S, c + n + 1, d)
    <3>1. SubSeq(rx, n + 1, d - c) = SubSeq(S, c + n + 1, d)
      BY <1>0, <1>1, <2>3, Cut, Zenon
    <3> QED
      BY <1>0, <2>1, <3>1, Zenon
  <2>6. c + n \in Nat /\ c + n \in a .. Len(S) /\ d \in c + n .. Len(S)
    BY <1>0, <1>1, <2>3
  <2>7. Answering(b, more, a, c + n, d)'
    BY <1>1, <2>2, <2>3, <2>4, <2>5, <2>6 DEF Answering, Split, S
  <2> QED
    BY <2>6, <2>7
<1>7. CASE Segment
  <2>1. /\ rx' = Append(rx, Head(reply)) /\ reply' = Tail(reply) /\ reply # <<>>
        /\ UNCHANGED <<pc, served, lenbuf, resp>>
    BY <1>7 DEF Segment, dataVars
  <2>2. d < Len(S)
    <3>1. CASE d = Len(S)
      <4>1. SubSeq(S, d + 1, Len(S)) = <<>>
        BY <1>0, <3>1, SubSeqEmpty
      <4> QED
        BY <1>1, <2>1, <4>1
    <3> QED
      BY <1>0, <1>1, <3>1
  <2>3. rx' = SubSeq(S, c + 1, d + 1) /\ reply' = SubSeq(S, d + 2, Len(S))
    BY <1>0, <1>1, <2>1, <2>2, Move, Zenon
  <2>4. d + 1 \in Nat /\ d + 1 \in c .. Len(S) /\ (d + 1) + 1 = d + 2
    BY <1>0, <1>1, <2>2
  <2>5. Answering(b, more, a, c, d + 1)'
    BY <1>1, <2>1, <2>3, <2>4, Zenon DEF Answering, Split, S
  <2> QED
    BY <2>4, <2>5
<1>8. ~\E x \in Bodies, y \in Trailers : ServerAnswers(x, y)
  BY <1>1 DEF ServerAnswers
<1> QED
  BY <1>3, <1>4, <1>5, <1>6, <1>7, <1>8, Shapes DEF Trailers

LEMMA StreamNext == Stream /\ [Next]_vars => Stream'
  BY SilentNext, AnsweringNext DEF Stream

(* When the body loop ends the buffer holds the answer.                      *)
LEMMA BodyRead ==
  ASSUME NEW b \in Bodies, NEW more \in Trailers, NEW a \in Nat, NEW c \in Nat, NEW d \in Nat,
         Answering(b, more, a, c, d), pc = "body", Missing <= 0
  PROVE  served = {resp} /\ resp # <<>>
<1>1. /\ Len(resp) = c - a /\ (a = 2 => DecodeLen(lenbuf) = Len(b))
      /\ b \in Seq(Bytes) /\ Len(b) \in Nat
      /\ SubSeq(Frame(b) \o more, 3, 2 + Len(b)) = b
  <2>1. Len(resp) = c - a /\ (a = 2 => DecodeLen(lenbuf) = Len(b))
    BY AnsweringFacts
  <2>2. /\ b \in Seq(Bytes) /\ Len(b) \in Nat
        /\ SubSeq(Frame(b) \o more, 3, 2 + Len(b)) = b
    BY AnswerFacts
  <2> QED
    BY <2>1, <2>2, Zenon
<1>2. /\ served = {b} /\ a = 2 /\ Len(b) # 0 /\ c <= 2 + Len(b)
      /\ resp = SubSeq(Frame(b) \o more, a + 1, c)
  BY DEF Answering, Split
<1>3. Missing = Len(b) - (c - 2)
  BY <1>1, <1>2 DEF Missing
<1>4. c = 2 + Len(b)
  BY <1>1, <1>2, <1>3
<1>5. resp = b
  <2>1. a + 1 = 3
    BY <1>2
  <2> QED
    BY <1>1, <1>2, <1>4, <2>1, Zenon
<1> QED
  BY <1>1, <1>2, <1>5, Zenon

LEMMA BodyComplete ==
  ASSUME Stream, pc = "body", Missing <= 0
  PROVE  served = {resp} /\ resp # <<>>
  BY BodyRead DEF Stream, Silent

LEMMA EndedNext == Stream /\ Ended /\ [Next]_vars => Ended'
<1> SUFFICES ASSUME Stream, Ended, [Next]_vars PROVE Ended'
  OBVIOUS
<1>1. CASE Quiet
  BY <1>1 DEF Quiet, data, Ended, Before
<1>2. CASE Failed \/ Restarted
  BY <1>2 DEF Failed, Restarted, Ended, Before, VclErrors
<1>3. CASE BodyDone
  BY <1>3, BodyComplete DEF BodyDone, Exit, netVars, dataVars, Ended
<1>4. CASE WriteSome \/ ReadLen \/ ReadBody \/ Segment
           \/ \E b \in Bodies, more \in {<<>>, <<1>>} : ServerAnswers(b, more)
  BY <1>4 DEF WriteSome, ReadLen, ReadBody, Segment, ServerAnswers, Ended
<1> QED
  BY <1>1, <1>2, <1>3, <1>4, Shapes

TcpInv == Sending /\ Stream /\ Ended

LEMMA TcpInvAlways == Spec => []TcpInv
<1>1. Init => TcpInv
  <2>1. Init => Stream /\ Ended
    BY DEF Init, Stream, Silent, Ended
  <2> QED
    BY <2>1, SendingInit DEF TcpInv
<1>2. TcpInv /\ [Next]_vars => TcpInv'
  BY SendingNext, StreamNext, EndedNext DEF TcpInv
<1> QED
  BY <1>1, <1>2, PTL DEF Spec

(* A successful call returns exactly the body the server framed              *)
(* (dgram.rs:565-614, 378-384; stream.rs:210-217): however the reads are     *)
(* cut, for every answer that fits the prefix and whatever follows it.       *)
THEOREM BodyAlwaysExact == Spec => []BodyExact
<1>1. TcpInv => BodyExact
  BY DEF TcpInv, Ended, BodyExact
<1> QED
  BY <1>1, TcpInvAlways, PTL

-----------------------------------------------------------------------------
LEMMA SameHeard ==
  ASSUME wire' = wire
  PROVE  Heard' = Heard
  BY DEF Heard, HasMessage, Message

LEMMA Running ==
  ASSUME Ended, pc # "done"
  PROVE  outcome = "none" /\ Call = "running" /\ Result = {}
  BY DEF Ended, Call, Result

(* The server hears the query with the last byte of the frame.               *)
LEMMA WriteHears ==
  ASSUME Sending, Sending', WriteSome
  PROVE  Heard = {} /\ Heard' \in {{}, {query}}
<1>1. /\ pc = "write" /\ query' = query /\ sent \in Nat /\ sent' > sent
      /\ Len(query) \in Nat /\ query \in Seq(Bytes) /\ Frameable(query)
  <2>1. PICK n \in WriteRcs : n > 0 /\ sent' = sent + n
    BY DEF WriteSome
  <2>2. pc = "write" /\ query' = query
    BY DEF WriteSome, callVars, argVars
  <2>3. /\ query \in Seq(Bytes) /\ Frameable(query) /\ Len(query) \in Nat
        /\ n \in 1 .. 2 + Len(query) - sent
    BY <2>1, <2>2, WriteAmount
  <2>4. sent \in Nat
    BY <2>3 DEF Sending
  <2> QED
    BY <2>1, <2>2, <2>3, <2>4
<1>2. sent' \in 0 .. 2 + Len(query) /\ wire' = SubSeq(Frame(query), 1, sent')
  BY <1>1 DEF Sending
<1>3. Parses(wire', query, sent')
  BY <1>1, <1>2, ParseFrame
<1>4. ~HasMessage
  BY <1>1, <1>2, WholeFrame
<1> QED
  BY <1>3, <1>4, Zenon DEF Heard, HasMessage, Message, Parses

(* Both TCP DNS clients implement DnsExchange (dgram.rs:322-386, 396-623):   *)
(* whatever fails and however the bytes are cut, a server hears the query at *)
(* most once and unaltered, source ports retried included, and the call ends *)
(* with exactly its answer or with an error.                                 *)
THEOREM ClientImplementsExchange == Spec => ImplementsExchange
<1> USE DEF Exchange!vars
<1>1. Init => Exchange!Init
  <2> SUFFICES ASSUME Init PROVE Exchange!Init
    OBVIOUS
  <2>1. Len(wire) = 0 /\ outcome = "none" /\ served = {} /\ query \in Queries
    BY DEF Init
  <2> QED
    BY <2>1 DEF Exchange!Init, Heard, HasMessage, Result, Call
<1>2. TcpInv /\ TcpInv' /\ [Next]_vars => [Exchange!Next]_Exchange!vars
  <2> SUFFICES ASSUME TcpInv, TcpInv', [Next]_vars PROVE [Exchange!Next]_Exchange!vars
    OBVIOUS
  <2>0. Sending /\ Stream /\ Ended /\ Sending'
    BY DEF TcpInv
  <2>1. CASE Quiet
    <3>1. UNCHANGED <<query, outcome, wire, served, resp>>
      BY <2>1 DEF Quiet, data
    <3> QED
      BY <3>1, SameHeard DEF Result, Call
  <2>2. CASE Failed
    <3>1. UNCHANGED <<query, wire, served>> /\ outcome' \notin {"none", "ok"}
      BY <2>2 DEF Failed, data, VclErrors
    <3>2. Call = "running" /\ Result = {} /\ Call' = "failed" /\ Result' = {}
      BY <2>0, <2>2, <3>1, Running DEF Failed, Call, Result
    <3> QED
      BY <3>1, <3>2, SameHeard DEF Exchange!Next, Exchange!Fail
  <2>3. CASE Restarted
    <3>1. UNCHANGED <<query, outcome, served, resp>> /\ Len(wire') = 0 /\ sent = 0
      BY <2>0, <2>3 DEF Restarted, Sending
    <3>2. ~HasMessage
      BY <2>0, <3>1, WholeFrame, TcpDnsAssumption DEF Sending
    <3>3. Heard = {} /\ Heard' = {}
      BY <3>1, <3>2 DEF Heard, HasMessage
    <3> QED
      BY <3>1, <3>3 DEF Result, Call
  <2>4. CASE BodyDone
    <3>1. /\ UNCHANGED <<query, wire, served, resp>> /\ outcome' = "ok" /\ pc # "done"
          /\ served = {resp} /\ resp # <<>>
      BY <2>0, <2>4, BodyComplete DEF BodyDone, Exit, argVars, netVars, dataVars
    <3>2. Call = "running" /\ Call' = "ok" /\ Result' = {resp}
      BY <2>0, <3>1, Running DEF Call, Result
    <3>3. served \notin {{}, {<<>>}}
      BY <3>1
    <3> QED
      BY <3>1, <3>2, <3>3, SameHeard DEF Exchange!Next, Exchange!Succeed
  <2>5. CASE WriteSome
    <3>1. UNCHANGED <<query, outcome, served, resp>> /\ pc # "done"
      BY <2>5 DEF WriteSome, callVars, argVars
    <3>2. Heard = {} /\ Heard' \in {{}, {query}}
      BY <2>0, <2>5, WriteHears
    <3>3. Call = "running" /\ UNCHANGED <<Call, Result>>
      BY <2>0, <3>1, Running DEF Call, Result
    <3> QED
      BY <3>1, <3>2, <3>3 DEF Exchange!Next, Exchange!Hear
  <2>6. CASE ReadLen \/ ReadBody \/ Segment
    <3>1. UNCHANGED <<query, wire, served, outcome>> /\ pc # "done"
      BY <2>6 DEF ReadLen, ReadBody, Segment, callVars, argVars, netVars
    <3>2. UNCHANGED <<Call, Result>>
      BY <2>0, <3>1, Running DEF Call, Result
    <3> QED
      BY <3>1, <3>2, SameHeard
  <2>7. ASSUME NEW b \in Bodies, NEW more \in Trailers, ServerAnswers(b, more)
        PROVE  Exchange!Next
    <3>1. /\ UNCHANGED <<query, wire, outcome, resp>> /\ pc # "done"
          /\ HasMessage /\ served = {} /\ served' = {b}
      BY <2>7 DEF ServerAnswers, callVars, argVars, dataVars
    <3>2. Call = "running" /\ UNCHANGED <<Call, Result>>
      BY <2>0, <3>1, Running DEF Call, Result
    <3>3. Heard # {}
      BY <3>1 DEF Heard
    <3> QED
      BY <3>1, <3>2, <3>3, SameHeard DEF Exchange!Next, Exchange!Serve
  <2> QED
    BY <2>1, <2>2, <2>3, <2>4, <2>5, <2>6, <2>7, Shapes DEF Trailers
<1> QED
  BY <1>1, <1>2, TcpInvAlways, PTL DEF Spec, ImplementsExchange, Exchange!Spec

-----------------------------------------------------------------------------
(* The control of a call: which client is where, the source ports it has     *)
(* left, and that only its exchange outlasts the deadline.                   *)
Control ==
    /\ api \in {"sync", "async"} /\ source \in BOOLEAN /\ reliable \in BOOLEAN
    /\ pc \in PCs /\ draws \in 1..PortDraws
    /\ vep \in BOOLEAN /\ guard \in BOOLEAN
    /\ conn \in {"none", "syn", "up", "closed", "reset"}
    /\ known \in BOOLEAN /\ expired \in BOOLEAN
    /\ outcome \in {"none", "ok"} \cup VclErrors
    /\ api = "sync" => pc \notin {"attempt", "settle"}
    /\ api = "sync" /\ expired => pc \in {"write", "len", "body", "done"}

LEMMA ControlInit == Init => Control
<1>1. PortDraws \in 1..PortDraws
  BY TcpDnsAssumption
<1> QED
  BY <1>1, Zenon DEF Init, Control, PCs

LEMMA ExitControl ==
  ASSUME Control, NEW e \in {"ok"} \cup VclErrors, Exit(e)
  PROVE  Control'
<1>1. pc' \in PCs /\ vep' \in BOOLEAN /\ guard' \in BOOLEAN
  BY Zenon DEF Exit, PCs
<1> QED
  BY <1>1, Zenon DEF Control, Exit, argVars, netVars

LEMMA ControlNext == Control /\ [Next]_vars => Control'
<1> SUFFICES ASSUME Control, [Next]_vars PROVE Control'
  OBVIOUS
<1> USE DEF argVars, callVars, netVars
<1>0. /\ {"Api", "Timeout", "Closed"} \subseteq {"ok"} \cup VclErrors
      /\ \A rc : FromRc(rc) \in {"ok"} \cup VclErrors
  BY FromRcError DEF VclErrors
<1>1. CASE \E e \in {"ok"} \cup VclErrors : Exit(e)
  BY <1>1, ExitControl
<1>2. ASSUME ~\E e \in {"ok"} \cup VclErrors : Exit(e) PROVE Control'
  <2>0. ASSUME NEW e \in {"ok"} \cup VclErrors PROVE ~Exit(e)
    BY <1>2
  <2>1. ASSUME NEW e \in {"ok"} \cup VclErrors, NextPort(e), api # "sync" PROVE Control'
    <3>1. draws' \in 1..PortDraws
      BY <2>0, <2>1, TcpDnsAssumption DEF NextPort, Control
    <3> QED
      BY <2>0, <2>1, <3>1, Zenon DEF NextPort, Control, PCs
  <2>f. ASSUME UNCHANGED <<argVars, draws, known, expired>>, pc' = pc, UNCHANGED <<vep, guard>>,
               conn' \in {"none", "syn", "up", "closed", "reset"}, UNCHANGED outcome
        PROVE  Control'
    BY <2>f, Zenon DEF Control
  <2>g. ASSUME NEW l, Goto(l), l \in {"bind", "epoll", "add", "connect"}, pc \in {"create", "bind", "epoll", "add"},
               UNCHANGED <<argVars, draws>>, vep' \in {vep, TRUE}, guard' \in {guard, TRUE}
        PROVE  Control'
    <3>1. pc' \in PCs /\ pc' \notin {"attempt", "settle"} /\ ~(api = "sync" /\ expired)
      BY <2>g DEF Goto, Control, PCs
    <3>2. vep' \in BOOLEAN /\ guard' \in BOOLEAN
      BY <2>g, Zenon DEF Control
    <3> QED
      BY <2>g, <3>1, <3>2, Zenon DEF Goto, Control
  <2>h. ASSUME UNCHANGED <<argVars, draws, vep, guard, conn, known, outcome>>,
               pc' \in {"write", "len", "body"}, expired' \in BOOLEAN
        PROVE  Control'
    <3>1. /\ api' = api /\ source' = source /\ reliable' = reliable /\ draws' = draws
          /\ vep' = vep /\ guard' = guard /\ conn' = conn /\ known' = known /\ outcome' = outcome
      BY <2>h, Zenon
    <3>2. pc' \in PCs /\ pc' \notin {"attempt", "settle"} /\ pc' \in {"write", "len", "body", "done"}
      BY <2>h DEF PCs
    <3> QED
      BY <2>h, <3>1, <3>2, Zenon DEF Control
  <2>2. CASE Create \/ BindSource \/ EpollCreate
    BY <1>0, <2>0, <2>2, <2>g, Zenon DEF Create, BindSource, EpollCreate
  <2>3. CASE EpollAdd
    <3>1. CASE pc' = "done"
      BY <1>0, <2>3, <3>1, Zenon DEF EpollAdd, Goto, Control, PCs
    <3>2. CASE pc' # "done"
      BY <2>3, <2>g, <3>2, Zenon DEF EpollAdd
    <3> QED
      BY <3>1, <3>2
  <2>4. CASE Connect
    BY <1>0, <2>0, <2>4, Zenon DEF Connect, Control, PCs
  <2>5. CASE Attempt
    <3>1. api # "sync"
      BY <2>5 DEF Attempt, Control
    <3> QED
      BY <1>0, <2>0, <2>1, <2>5, <3>1, Zenon DEF Attempt, Control, PCs
  <2>6. CASE Settle
    <3>1. api # "sync"
      BY <2>6 DEF Settle, Control
    <3> QED
      BY <1>0, <2>0, <2>1, <2>6, <3>1, Zenon DEF Settle, DrainMq, Control, PCs
  <2>7. CASE WriteSome
    <3>1. UNCHANGED <<argVars, draws, vep, guard, conn, known, outcome>> /\ expired' = expired
      BY <2>7, Zenon DEF WriteSome
    <3>2. pc' \in {"write", "len", "body"}
      BY <2>7, Zenon DEF WriteSome
    <3>3. expired' \in BOOLEAN
      BY <3>1, Zenon DEF Control
    <3> QED
      BY <2>h, <3>1, <3>2, <3>3, Zenon
  <2>8. CASE WriteBlocked \/ ReadBlocked
    <3>1. Again
      BY <1>0, <2>0, <2>8, Zenon DEF WriteBlocked, ReadBlocked
    <3>2. known' \in BOOLEAN
      BY <3>1, Zenon DEF Again, DrainMq
    <3> QED
      BY <3>1, <3>2, Zenon DEF Again, Control
  <2>9. CASE WriteError \/ ReadTimeout \/ ReadClosed \/ WaitTimeout \/ BodyDone
    BY <1>0, <2>0, <2>9, Zenon DEF WriteError, ReadTimeout, ReadClosed, WaitTimeout, BodyDone
  <2>10. CASE LenDone
    <3>1. Goto("body") /\ UNCHANGED callVars
      BY <1>0, <2>0, <2>10, Zenon DEF LenDone
    <3>2. expired' \in BOOLEAN
      BY <3>1, Zenon DEF Goto, Control
    <3> QED
      BY <2>h, <3>1, <3>2, Zenon DEF Goto
  <2>11. CASE ReadLen \/ ReadBody
    <3>1. conn \in {"none", "syn", "up", "closed", "reset"}
      BY Zenon DEF Control
    <3> QED
      BY <2>11, <2>f, <3>1, Zenon DEF ReadLen, ReadBody
  <2>12. CASE Handshake \/ PeerCloses
    BY <2>12, <2>f, Zenon DEF Handshake, PeerCloses
  <2>13. CASE Expire
    <3>1. CASE pc \in {"write", "len", "body"}
      BY <2>13, <2>h, <3>1, Zenon DEF Expire
    <3>2. CASE pc \in {"attempt", "settle"}
      <4>1. api # "sync"
        BY <3>2, Zenon DEF Control
      <4> QED
        BY <2>13, <4>1, Zenon DEF Expire, Control
    <3> QED
      BY <2>13, <3>1, <3>2, Zenon DEF Expire
  <2>14. CASE Segment \/ \E b \in Bodies, more \in Trailers : ServerAnswers(b, more)
    BY <2>14, <2>f, Zenon DEF Segment, ServerAnswers, Control
  <2>15. CASE UNCHANGED vars
    <3>1. conn \in {"none", "syn", "up", "closed", "reset"}
      BY Zenon DEF Control
    <3> QED
      BY <2>15, <2>f, <3>1, Zenon DEF vars
  <2> QED
    BY <2>2, <2>3, <2>4, <2>5, <2>6, <2>7, <2>8, <2>9, <2>10, <2>11, <2>12, <2>13, <2>14, <2>15,
       Zenon
    DEF Next, Caller, Server, Trailers
<1> QED
  BY <1>1, <1>2

LEMMA TcpControlAlways == Spec => [](TcpInv /\ HandleInv /\ Control)
<1>1. Init => HandleInv
  BY DEF Init, HandleInv
<1> QED
  BY <1>1, TcpInvAlways, HandlesNext, ControlInit, ControlNext, PTL DEF Spec

(* Every reachable state of the two clients is well typed: they never write  *)
(* past the frame nor read more than two bytes of prefix and the body it     *)
(* announces.                                                                *)
THEOREM TcpTypeCorrect == Spec => []TypeOK
<1>1. ASSUME TcpInv, HandleInv, Control PROVE TypeOK
  <2> USE <1>1 DEF TcpInv
  <2>1. query \in Seq(Bytes) /\ Len(query) \in Nat /\ sent \in 0..(Len(query) + 2)
    BY TcpDnsAssumption DEF Sending
  <2>2. wire \in Seq(Bytes)
    <3>1. CASE sent = 0
      BY <3>1, SubSeqEmpty DEF Sending
    <3>2. CASE Frameable(query)
      <4>1. Frame(query) \in Seq(Bytes) /\ Len(Frame(query)) = 2 + Len(query)
        BY <2>1, <3>2, FrameFacts
      <4>2. 1 \in 1 .. Len(Frame(query)) + 1 /\ sent \in 1 - 1 .. Len(Frame(query))
        BY <2>1, <4>1
      <4> QED
        BY <4>1, <4>2, SubSeqFacts DEF Sending
    <3> QED
      BY <3>1, <3>2 DEF Sending
  <2>3. sessions \in 0..PortDraws
    BY TcpDnsAssumption DEF HandleInv
  <2>4. /\ reply \in Seq(Bytes) /\ rx \in Seq(Bytes) /\ served \subseteq Bodies
        /\ lenbuf \in Seq(Bytes) /\ Len(lenbuf) <= 2
        /\ resp \in Seq(Bytes) /\ Len(resp) < Base * Base
    <3>1. CASE Silent
      <4>1. Base * Base > 0
        BY TcpDnsAssumption
      <4> QED
        BY <3>1, <4>1 DEF Silent
    <3>2. ASSUME NEW b \in Bodies, NEW more \in Trailers, NEW a \in Nat, NEW c \in Nat, NEW d \in Nat,
                 Answering(b, more, a, c, d)
          PROVE  /\ reply \in Seq(Bytes) /\ rx \in Seq(Bytes) /\ served \subseteq Bodies
                 /\ lenbuf \in Seq(Bytes) /\ Len(lenbuf) <= 2
                 /\ resp \in Seq(Bytes) /\ Len(resp) < Base * Base
      <4> DEFINE S == Frame(b) \o more
      <4>1. S \in Seq(Bytes) /\ Len(S) \in Nat /\ Len(lenbuf) = a /\ Len(resp) = c - a /\ Len(b) \in Nat
        BY <3>2, AnsweringFacts
      <4> HIDE DEF S
      <4>2. /\ served = {b} /\ a \in 0 .. 2 /\ c \in a .. Len(S) /\ d \in c .. Len(S) /\ c <= a + Len(b)
            /\ lenbuf = SubSeq(S, 1, a) /\ resp = SubSeq(S, a + 1, c)
            /\ rx = SubSeq(S, c + 1, d) /\ reply = SubSeq(S, d + 1, Len(S))
        BY <3>2 DEF Answering, Split, S
      <4>3. ASSUME NEW m \in Nat, NEW n \in m .. Len(S) PROVE SubSeq(S, m + 1, n) \in Seq(Bytes)
        <5>1. m + 1 \in 1 .. Len(S) + 1 /\ n \in (m + 1) - 1 .. Len(S)
          BY <4>1, <4>3
        <5> QED
          BY <4>1, <5>1, SubSeqFacts
      <4>4. reply \in Seq(Bytes) /\ rx \in Seq(Bytes) /\ resp \in Seq(Bytes)
        <5>1. /\ d \in Nat /\ Len(S) \in d .. Len(S) /\ c \in Nat /\ d \in c .. Len(S)
              /\ a \in Nat /\ c \in a .. Len(S)
          BY <4>1, <4>2
        <5> QED
          BY <4>2, <4>3, <5>1, Zenon
      <4>5. lenbuf \in Seq(Bytes)
        <5>1. 0 \in Nat /\ a \in 0 .. Len(S) /\ 0 + 1 = 1
          BY <4>1, <4>2
        <5> QED
          BY <4>2, <4>3, <5>1, Zenon
      <4>6. Len(b) < Base * Base /\ Base * Base \in Nat
        BY TcpDnsAssumption
      <4> QED
        BY <4>1, <4>2, <4>4, <4>5, <4>6
    <3> QED
      BY <3>1, <3>2 DEF Stream
  <2> QED
    BY <2>1, <2>2, <2>3, <2>4, Zenon DEF TypeOK, Control, Sending
<1> QED
  BY <1>1, TcpControlAlways, PTL

(* For every query, answer and cutting of the writes and reads: once its     *)
(* deadline has passed query_tcp_dns_sync is a bounded number of steps from  *)
(* its return.                                                               *)
THEOREM DeadlineAlwaysBinds == Spec => DeadlineBinds
<1> DEFINE Down == Caller /\ api = "sync" /\ expired => DeadlineBudget' < DeadlineBudget
<1>1. ASSUME TcpInv, Control, Caller, api = "sync", expired PROVE DeadlineBudget' < DeadlineBudget
  <2>0. pc \in {"write", "len", "body", "done"} /\ PastDeadline
    BY <1>1 DEF Control, PastDeadline
  <2>1. pc = "write" => /\ Len(Frame(query)) = 2 + Len(query) /\ Len(query) \in Nat
                        /\ sent \in 0 .. 2 + Len(query)
    BY <1>1, FrameFacts, TcpDnsAssumption DEF TcpInv, Sending
  <2>2. pc # "done" => DeadlineBudget \in Nat \ {0}
    BY <2>0, <2>1 DEF DeadlineBudget
  <2>3. ASSUME NEW e, Exit(e), pc # "done" PROVE DeadlineBudget' < DeadlineBudget
    <3>1. DeadlineBudget' = 0
      BY <2>3 DEF Exit, DeadlineBudget
    <3> QED
      BY <2>2, <2>3, <3>1
  <2>4. CASE WriteSome
    <3>1. PICK n \in WriteRcs : n > 0 /\ sent' = sent + n
      BY <2>4 DEF WriteSome
    <3>2. /\ pc = "write" /\ query' = query
          /\ pc' = IF sent' = Len(Frame(query)) THEN "len" ELSE "write"
      BY <2>4 DEF WriteSome, callVars, argVars
    <3>3. n \in 1 .. 2 + Len(query) - sent
      BY <1>1, <3>1, <3>2, WriteAmount DEF TcpInv
    <3>4. Len(Frame(query')) = Len(Frame(query))
      BY <3>2
    <3> QED
      BY <2>1, <3>1, <3>2, <3>3, <3>4 DEF DeadlineBudget
  <2>5. CASE WriteBlocked \/ WriteError \/ ReadTimeout
    BY <2>0, <2>3, <2>5 DEF WriteBlocked, WriteError, ReadTimeout, Missing
  <2>6. CASE ReadBlocked \/ ReadClosed \/ ReadLen \/ ReadBody
    BY <2>0, <2>6 DEF ReadBlocked, ReadClosed, ReadLen, ReadBody, Reading
  <2>7. CASE LenDone
    <3>1. CASE Exit("Api")
      BY <2>3, <2>7, <3>1 DEF LenDone
    <3>2. CASE ~Exit("Api")
      BY <2>7, <3>2 DEF LenDone, Goto, DeadlineBudget
    <3> QED
      BY <3>1, <3>2
  <2>8. CASE BodyDone
    BY <2>3, <2>8 DEF BodyDone
  <2> QED
    BY <1>1, <2>0, <2>4, <2>5, <2>6, <2>7, <2>8, Zenon
    DEF Caller, Create, BindSource, EpollCreate, EpollAdd, Connect, Attempt, Settle
<1>2. TcpInv /\ Control /\ [Next]_vars => [Down]_vars
  BY <1>1
<1>3. Spec => [][Down]_vars
  BY <1>2, TcpControlAlways, PTL DEF Spec
<1> QED
  BY <1>3 DEF DeadlineBinds
=============================================================================
