------------------------------- MODULE TcpDns -------------------------------
(***************************************************************************)
(* The TCP DNS clients of src/src/dgram.rs, query_tcp_dns_sync and         *)
(* query_tcp_dns_async, with frame_tcp_dns_query and decode_tcp_dns_len,   *)
(* and the parts of VclStream the latter is made of (connect_async,        *)
(* write_all, read_exact): one DNS query over a TCP session whose writes   *)
(* and reads are cut anywhere, against a server that parses RFC 1035       *)
(* framing.                                                                *)
(*                                                                         *)
(* A byte is a digit in base Base, so the length prefix is a two-digit     *)
(* number below Base^2 (256 and 2^16 in the code).  The async client's     *)
(* reactor waits are what module Reactor shows of them: they return Ok     *)
(* within a tick, whatever the session does, or time out.  Operators named *)
(* Bug... are faults of the code, used only to show that a property would  *)
(* notice them.                                                            *)
(***************************************************************************)
EXTENDS ErrorMap, Sequences

CONSTANTS
    Base,       \* values of a byte
    Queries,    \* query bodies a caller passes
    Bodies,     \* response bodies the server may send
    PortDraws   \* source ports query_tcp_dns_async tries (8 in the code)

Bytes == 0..Base-1

ASSUME TcpDnsAssumption ==
    /\ Base \in Nat \ {0, 1}
    /\ Queries \subseteq Seq(Bytes)
    /\ Bodies \subseteq Seq(Bytes) /\ \A b \in Bodies : Len(b) < Base * Base
    /\ PortDraws \in Nat \ {0}

VARIABLES
    api,        \* "sync" or "async"
    pc,         \* step of the call
    query,      \* its argument
    source,     \* a source address was passed
    draws,      \* source ports query_tcp_dns_async has left
    sessions, vep, guard, \* sessions open, epoll set open, EpollGuard built
    conn,       \* the connection as VPP has it
    known,      \* libvppcom has drained the CONNECTED event
    expired,    \* the deadline has passed
    sent,       \* bytes of the frame written
    wire,       \* bytes the server has received
    reply,      \* bytes the server still has to send
    served,     \* set holding the body the server answered with
    rx,         \* RX FIFO
    lenbuf, resp, \* bytes read of the prefix and of the body
    outcome,    \* how the call returned
    reliable    \* this call meets no error, no close and no deadline

argVars == <<api, query, source, reliable>>
callVars == <<argVars, draws, sessions, vep, guard>>
netVars == <<conn, wire, reply, served>>
dataVars == <<sent, lenbuf, resp>>
vars == <<pc, callVars, netVars, known, expired, dataVars, rx, outcome>>

PCs == {"create", "bind", "epoll", "add", "connect", "attempt", "settle",
        "write", "len", "body", "done"}

TypeOK ==
    /\ api \in {"sync", "async"} /\ source \in BOOLEAN /\ reliable \in BOOLEAN
    /\ pc \in PCs /\ query \in Queries /\ draws \in 1..PortDraws
    /\ sessions \in 0..PortDraws /\ vep \in BOOLEAN /\ guard \in BOOLEAN
    /\ conn \in {"none", "syn", "up", "closed", "reset"} /\ known \in BOOLEAN
    /\ expired \in BOOLEAN
    /\ sent \in 0..(Len(query) + 2)
    /\ wire \in Seq(Bytes) /\ reply \in Seq(Bytes) /\ served \subseteq Bodies
    /\ rx \in Seq(Bytes)
    /\ lenbuf \in Seq(Bytes) /\ Len(lenbuf) <= 2
    /\ resp \in Seq(Bytes) /\ Len(resp) < Base * Base
    /\ outcome \in {"none", "ok"} \cup VclErrors

Init ==
    /\ api \in {"sync", "async"} /\ source \in BOOLEAN /\ reliable \in BOOLEAN
    /\ pc = IF api = "sync" THEN "create" ELSE "attempt"
    /\ query \in Queries /\ draws = PortDraws
    /\ sessions = 0 /\ vep = FALSE /\ guard = FALSE
    /\ conn = "none" /\ known = FALSE /\ expired = FALSE
    /\ sent = 0 /\ wire = <<>> /\ reply = <<>> /\ served = {}
    /\ rx = <<>> /\ lenbuf = <<>> /\ resp = <<>>
    /\ outcome = "none"

Prefix(n) == <<(n \div Base) % Base, n % Base>>
Value(p) == p[1] * Base + p[2]

(* frame_tcp_dns_query: u16::try_from refuses a longer query.                *)
BugFrameable(q) == TRUE
Frameable(q) == Len(q) < Base * Base
Frame(q) == Prefix(Len(q)) \o q

(* decode_tcp_dns_len: zero is the one invalid length.                       *)
DecodeLen(p) == Value(p)

-----------------------------------------------------------------------------
(* The SessionHandle in scope, if there is one, is dropped.                  *)
CloseSession == sessions' = IF sessions = 0 THEN 0 ELSE sessions - 1

(* Every return drops _vep_guard, if it exists, and then the SessionHandle   *)
(* or the VclStream.                                                         *)
Exit(out) ==
    /\ pc' = "done" /\ outcome' = out
    /\ CloseSession
    /\ vep' = (vep /\ ~guard) /\ guard' = FALSE
    /\ UNCHANGED <<argVars, draws, netVars, known, expired, dataVars, rx>>

Goto(l) == pc' = l /\ UNCHANGED <<netVars, known, expired, dataVars, rx, outcome>>

MayFail == ~reliable

-----------------------------------------------------------------------------
(* query_tcp_dns_sync up to the write loop.                                  *)

Create ==
    /\ pc = "create"
    /\ \/ /\ Goto("bind") /\ sessions' = sessions + 1
          /\ UNCHANGED <<argVars, draws, vep, guard>>
       \/ MayFail /\ Exit("Api")

(* The optional source bind: wrong family, or eight ports in use.            *)
BindSource ==
    /\ pc = "bind"
    /\ \/ Goto("epoll") /\ UNCHANGED callVars
       \/ source /\ MayFail /\ Exit("Api")

EpollCreate ==
    /\ pc = "epoll"
    /\ \/ Goto("add") /\ vep' = TRUE /\ UNCHANGED <<argVars, draws, sessions, guard>>
       \/ MayFail /\ Exit("Api")

(* vppcom_epoll_ctl ADD.  EpollGuard is built only after it; on failure the  *)
(* set is closed by hand.                                                    *)
BugEpollAdd ==
    /\ pc = "add"
    /\ \/ Goto("connect") /\ guard' = TRUE /\ UNCHANGED <<argVars, draws, sessions, vep>>
       \/ MayFail /\ Exit("Api")

EpollAdd ==
    /\ pc = "add"
    /\ \/ Goto("connect") /\ guard' = TRUE /\ UNCHANGED <<argVars, draws, sessions, vep>>
       \/ /\ MayFail
          /\ pc' = "done" /\ outcome' = "Api"
          /\ vep' = FALSE /\ CloseSession
          /\ UNCHANGED <<argVars, draws, guard, netVars, known, expired, dataVars, rx>>

(* vppcom_session_connect of a non-blocking session (external).              *)
ConnectRcs == {0, -EINPROGRESS} \cup IF MayFail THEN {-ECONNREFUSED} ELSE {}

(* Ok and WouldBlock both mean "in progress".                                *)
InProgress(rc) == rc >= 0 \/ FromRc(rc) = "WouldBlock"

(* handle.connect; the frame is built next, and a query that does not fit    *)
(* ends the call.                                                            *)
Connect ==
    /\ pc = "connect"
    /\ \E rc \in ConnectRcs :
          \/ /\ InProgress(rc) /\ Frameable(query)
             /\ pc' = "write" /\ conn' = "syn"
             /\ UNCHANGED <<callVars, wire, reply, served, known, expired, dataVars, rx, outcome>>
          \/ InProgress(rc) /\ ~Frameable(query) /\ Exit("Api")
          \/ ~InProgress(rc) /\ Exit(FromRc(rc))

-----------------------------------------------------------------------------
(* query_tcp_dns_async up to write_all.                                      *)

(* An attempt to connect failed and its session is closed: the next source   *)
(* port, or the last error.                                                  *)
NextPort(err) ==
    \/ /\ source /\ draws > 1
       /\ pc' = "attempt" /\ draws' = draws - 1
       /\ CloseSession
       /\ conn' = "none" /\ known' = FALSE /\ wire' = <<>> /\ sent' = 0
       /\ UNCHANGED <<argVars, vep, guard, reply, served, expired, lenbuf, resp, rx, outcome>>
    \/ ~(source /\ draws > 1) /\ Exit(err)

(* The deadline is looked at before every attempt with a source, and the     *)
(* family before the first.  connect_async: create, bind, register, connect. *)
Attempt ==
    /\ pc = "attempt"
    /\ \/ source /\ draws = PortDraws /\ MayFail /\ Exit("Api")
       \/ source /\ expired /\ Exit("Timeout")
       \/ /\ ~(source /\ expired)
          /\ \E rc \in ConnectRcs :
                \/ /\ InProgress(rc)
                   /\ pc' = "settle" /\ conn' = "syn" /\ sessions' = sessions + 1
                   /\ UNCHANGED <<argVars, draws, vep, guard, wire, reply, served,
                                  known, expired, dataVars, rx, outcome>>
                \/ ~InProgress(rc) /\ NextPort(FromRc(rc))

(* drain_mq(5.0), or the drain of the reactor's ticker: libvppcom sees the   *)
(* state VPP has reached.                                                    *)
DrainMq == known' = (conn # "syn")

(* Its wait_writable(remaining): Ok on any signal, or Timeout at the         *)
(* deadline.  With the stream in hand the frame is built.                    *)
Settle ==
    /\ pc = "settle"
    /\ \/ /\ Frameable(query)
          /\ pc' = "write" /\ DrainMq
          /\ UNCHANGED <<callVars, netVars, expired, dataVars, rx, outcome>>
       \/ ~Frameable(query) /\ Exit("Api")
       \/ expired /\ NextPort("Timeout")

-----------------------------------------------------------------------------
(* The exchange.                                                             *)

(* The check of the deadline in the loops of query_tcp_dns_sync; write_all   *)
(* and read_exact have none.                                                 *)
BugPastDeadline == FALSE
PastDeadline == api = "sync" /\ expired

(* A call that has nothing to do yet: query_tcp_dns_sync drains the queue, a *)
(* VclStream waits for the reactor, and both try again.                      *)
Again == DrainMq /\ UNCHANGED <<pc, callVars, netVars, expired, dataVars, rx, outcome>>

(* vppcom_session_write (external).  ENOTCONN until the event is drained,    *)
(* EAGAIN while the TX FIFO is full.                                         *)
WriteRcs ==
    IF ~known THEN {-ENOTCONN}
    ELSE IF conn = "closed" THEN {-EPIPE}
    ELSE IF conn = "reset" THEN {-ECONNRESET}
    ELSE (1..(Len(Frame(query)) - sent)) \cup IF MayFail THEN {-EAGAIN} ELSE {}

WriteSome ==
    /\ pc = "write"
    /\ \E n \in WriteRcs :
          /\ n > 0
          /\ sent' = sent + n
          /\ wire' = wire \o SubSeq(Frame(query), sent + 1, sent + n)
    /\ pc' = IF sent' = Len(Frame(query)) THEN "len" ELSE "write"
    /\ UNCHANGED <<callVars, conn, reply, served, known, expired, lenbuf, resp, rx, outcome>>

(* query_tcp_dns_sync looks at the deadline before it drains.                *)
WriteBlocked ==
    /\ pc = "write" /\ \E rc \in WriteRcs : Retryable(rc)
    /\ \/ PastDeadline /\ Exit("Timeout")
       \/ ~PastDeadline /\ Again

WriteError ==
    /\ pc = "write"
    /\ \E rc \in WriteRcs : Fatal(rc) /\ Exit(FromRc(rc))

-----------------------------------------------------------------------------
Least(m, n) == IF m < n THEN m ELSE n

(* The loops for the two bytes of the prefix and for the body: what is still *)
(* missing.                                                                  *)
Missing ==
    CASE pc = "len" -> 2 - Len(lenbuf)
      [] pc = "body" -> DecodeLen(lenbuf) - Len(resp)
      [] OTHER -> 0

(* vppcom_session_read (external): what there is, up to what is missing.     *)
ReadRcs ==
    IF rx # <<>> THEN {Least(Missing, Len(rx))}
    ELSE IF conn = "closed" THEN {0}
    ELSE IF conn = "reset" THEN {-ECONNRESET}
    ELSE {-EAGAIN} \cup IF MayFail THEN {-ENOTCONN} ELSE {}

(* One pass of either loop: the deadline first.                              *)
ReadTimeout == Missing > 0 /\ PastDeadline /\ Exit("Timeout")

Reading == Missing > 0 /\ ~PastDeadline

ReadBlocked == Reading /\ \E rc \in ReadRcs : Retryable(rc) /\ Again

(* A wait of write_all or read_exact reaches its 300 s.  Every tick ends the *)
(* wait and starts those 300 s again, so this happens only to a task that    *)
(* was not polled for as long: it may happen, and nothing makes it happen.   *)
WaitTimeout ==
    /\ api = "async" /\ MayFail
    /\ \/ pc = "write" /\ \E rc \in WriteRcs : Retryable(rc)
       \/ Reading /\ \E rc \in ReadRcs : Retryable(rc)
    /\ Exit("Timeout")

(* Ok(0) is Closed.                                                          *)
BugReadClosed ==
    /\ Reading
    /\ \E rc \in ReadRcs :
          \/ rc = 0 /\ NextPort("Closed")
          \/ Fatal(rc) /\ NextPort(FromRc(rc))

ReadClosed ==
    /\ Reading
    /\ \E rc \in ReadRcs :
          \/ rc = 0 /\ Exit("Closed")
          \/ Fatal(rc) /\ Exit(FromRc(rc))

BugReadLen ==
    /\ pc = "len" /\ Reading /\ rx # <<>>
    /\ lenbuf' = lenbuf \o rx /\ rx' = <<>>
    /\ UNCHANGED <<pc, callVars, netVars, known, expired, sent, resp, outcome>>

ReadLen ==
    /\ pc = "len" /\ Reading
    /\ \E n \in ReadRcs :
          /\ n > 0
          /\ lenbuf' = lenbuf \o SubSeq(rx, 1, n)
          /\ rx' = SubSeq(rx, n + 1, Len(rx))
    /\ UNCHANGED <<pc, callVars, netVars, known, expired, sent, resp, outcome>>

LenDone ==
    /\ pc = "len" /\ Missing = 0
    /\ \/ DecodeLen(lenbuf) = 0 /\ Exit("Api")
       \/ DecodeLen(lenbuf) # 0 /\ Goto("body") /\ UNCHANGED callVars

ReadBody ==
    /\ pc = "body" /\ Reading
    /\ \E n \in ReadRcs :
          /\ n > 0
          /\ resp' = resp \o SubSeq(rx, 1, n)
          /\ rx' = SubSeq(rx, n + 1, Len(rx))
    /\ UNCHANGED <<pc, callVars, netVars, known, expired, sent, lenbuf, outcome>>

BugBodyDone == pc = "body" /\ resp # <<>> /\ Exit("ok")
BodyDone == pc = "body" /\ Missing <= 0 /\ Exit("ok")

-----------------------------------------------------------------------------
(* VPP, the clock and the server (external).                                 *)

Handshake ==
    /\ conn = "syn" /\ pc # "done"
    /\ conn' \in IF reliable THEN {"up"} ELSE {"up", "reset"}
    /\ UNCHANGED <<pc, callVars, wire, reply, served, known, expired, dataVars, rx, outcome>>

PeerCloses ==
    /\ MayFail /\ conn = "up" /\ pc # "done"
    /\ conn' \in {"closed", "reset"}
    /\ UNCHANGED <<pc, callVars, wire, reply, served, known, expired, dataVars, rx, outcome>>

Expire ==
    /\ MayFail /\ ~expired
    /\ pc \in {"attempt", "settle", "write", "len", "body"}
    /\ expired' = TRUE
    /\ UNCHANGED <<pc, callVars, netVars, known, dataVars, rx, outcome>>

(* The server has a whole message in hand.                                   *)
HasMessage == Len(wire) >= 2 /\ Len(wire) >= 2 + Value(wire)
Message == SubSeq(wire, 3, 2 + Value(wire))

(* It answers once, perhaps followed by the start of another message.        *)
ServerAnswers(b, more) ==
    /\ conn = "up" /\ HasMessage /\ served = {} /\ pc # "done"
    /\ served' = {b}
    /\ reply' = Frame(b) \o more
    /\ UNCHANGED <<pc, callVars, conn, wire, known, expired, dataVars, rx, outcome>>

Segment ==
    /\ conn = "up" /\ reply # <<>> /\ pc # "done"
    /\ rx' = Append(rx, Head(reply)) /\ reply' = Tail(reply)
    /\ UNCHANGED <<pc, callVars, conn, wire, served, known, expired, dataVars, outcome>>

-----------------------------------------------------------------------------
Caller ==
    \/ Create \/ BindSource \/ EpollCreate \/ EpollAdd \/ Connect
    \/ Attempt \/ Settle \/ WriteSome \/ WriteBlocked \/ WriteError
    \/ ReadTimeout \/ ReadBlocked \/ ReadClosed \/ ReadLen \/ LenDone \/ ReadBody \/ BodyDone

Server ==
    \/ Handshake \/ Segment
    \/ \E b \in Bodies, more \in {<<>>, <<1>>} : ServerAnswers(b, more)

Next == Caller \/ WaitTimeout \/ Server \/ PeerCloses \/ Expire

Spec == Init /\ [][Next]_vars

(* The thread (or the task, woken by the ticker) runs and time passes; a     *)
(* reliable server keeps answering.                                          *)
FairSpec ==
    /\ Spec /\ WF_vars(Caller) /\ WF_vars(Expire)
    /\ WF_vars(reliable /\ Server)

-----------------------------------------------------------------------------
(* The server parses exactly the query, however the writes are cut and       *)
(* whatever its length (dgram.rs:278-297, 522-558; stream.rs:221-237): the   *)
(* prefix never desynchronises the channel.                                  *)
ServerGetsQuery == HasMessage => Message = query /\ Len(wire) = 2 + Len(query)

(* A successful call returns exactly the body the server framed, however the *)
(* reads are cut and whatever follows it (dgram.rs:565-614, 378-384;         *)
(* stream.rs:210-217).                                                       *)
BodyExact == outcome = "ok" => served = {resp} /\ resp # <<>>

(* On every return path every session opened, one per source port tried, and *)
(* the epoll set are closed (dgram.rs:458-463, 479-492, 360-369).            *)
HandlesClosed == pc = "done" => sessions = 0 /\ ~vep

(* query_tcp_dns_sync always returns: no loop outlives the deadline          *)
(* (dgram.rs:541, 566, 596).                                                 *)
Returns == api = "sync" => <>(pc = "done")

(* What query_tcp_dns_sync may still do once its deadline has passed.        *)
DeadlineBudget ==
    CASE pc = "write" -> 3 + Len(Frame(query)) - sent
      [] pc = "len" -> 2
      [] pc = "body" -> 1
      [] OTHER -> 0

(* Why it returns (dgram.rs:522-614): after the deadline every step of the   *)
(* call that does not return at once has written a byte or left a loop, so   *)
(* the call lasts at most as many steps as bytes are left to write, and      *)
(* three more, whatever the session and the server do meanwhile.             *)
DeadlineBinds ==
    [][Caller /\ api = "sync" /\ expired => DeadlineBudget' < DeadlineBudget]_vars

(* Without a failure and before the deadline either client's query is        *)
(* answered: the CONNECTED event does not stay in the queue while write is   *)
(* polled, and NotConnected is not taken for a close (dgram.rs:436-445, 551; *)
(* stream.rs:229-233; error.rs:25-33).                                       *)
Answered ==
    reliable /\ Frameable(query) => <>(outcome = "ok" \/ served = {<<>>})

(* A connection that is refused or closed ends the call, or the attempt: no  *)
(* loop polls a dead session for ever (error.rs:35-37, 62-64 "either spins   *)
(* forever or declares EOF mid-handshake"; dgram.rs:553-557, 577-587;        *)
(* stream.rs:192, 203, 234).                                                 *)
ClosedEnds ==
    conn \in {"closed", "reset"} ~> (pc = "done" \/ conn \notin {"closed", "reset"})

(* What DnsExchange sees of a call.                                          *)
Heard == IF HasMessage THEN {Message} ELSE {}
Result == IF outcome = "ok" THEN {resp} ELSE {}
Call == IF outcome = "none" THEN "running" ELSE IF outcome = "ok" THEN "ok" ELSE "failed"

Exchange == INSTANCE DnsExchange WITH heard <- Heard, result <- Result, call <- Call

(* Both clients implement DnsExchange: the query reaches a server at most    *)
(* once, also when query_tcp_dns_async goes through several source ports     *)
(* (dgram.rs:353-369), and the call ends with that server's answer or fails. *)
ImplementsExchange == Exchange!Spec
=============================================================================
