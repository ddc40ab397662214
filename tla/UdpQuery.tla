------------------------------ MODULE UdpQuery ------------------------------
(***************************************************************************)
(* The synchronous UDP clients of src/src/dgram.rs: VclUdpSyncSocket (one  *)
(* long-lived session, many queries) and query_udp_sync (a session of its  *)
(* own for each query), over a network that delays, loses, duplicates and  *)
(* reorders.                                                               *)
(*                                                                         *)
(* One thread makes one call at a time.  A datagram is who sent it, the    *)
(* local port it goes to and the query it answers (0: none); addresses     *)
(* pass through the endpoints of module Endpoint on every call.  Operators *)
(* named Bug... are faults of the code, used only to show that a property  *)
(* would notice them.                                                      *)
(***************************************************************************)
EXTENDS Endpoint

CONSTANTS
    Peers,         \* addresses that are queried
    Hosts,         \* addresses that send datagrams
    Ports,         \* ephemeral ports the random draw chooses from
    MaxQueries,    \* bound: calls made
    MaxFifo,       \* datagrams an RX FIFO holds; VPP drops the rest
    MaxDeliveries  \* bound: datagrams that reach the host

NoPort == "none"

ASSUME UdpQueryAssumption ==
    /\ NoPort \notin Ports
    /\ Peers \subseteq Hosts /\ Hosts \subseteq SocketAddrs
    /\ MaxQueries \in Nat /\ MaxFifo \in Nat /\ MaxDeliveries \in Nat

Datagrams == [from : SocketAddrs, to : Ports, id : 0..MaxQueries]

VARIABLES
    fifo,       \* [Ports -> Seq(Datagrams)]: RX FIFO of the session on a port
    sock,       \* port of the VclUdpSyncSocket, or NoPort
    sockV4,     \* its family
    pc,         \* "idle", "recv" (about to call recvfrom), "blocked" (it said
                \* WouldBlock, the clock is not yet read) or "sleep"
    port,       \* port of the session the running call uses
    peer,       \* its peer
    expired,    \* its deadline has passed
    oneShot,    \* it is a query_udp_sync
    late,       \* an older answer was under way to its port when it began
    qid,        \* number of the running (or last) query
    net,        \* answers on their way
    deliveries, \* datagrams delivered
    outcome,    \* how the last call returned
    answer      \* set holding the datagram and the sender it returned, if any

callVars == <<port, peer, qid, oneShot, late>>
netVars == <<net, deliveries>>
vars == <<fifo, sock, sockV4, pc, callVars, expired, netVars, outcome, answer>>

TypeOK ==
    /\ fifo \in [Ports -> Seq(Datagrams)] /\ \A p \in Ports : Len(fifo[p]) <= MaxFifo
    /\ sock \in Ports \cup {NoPort} /\ sockV4 \in BOOLEAN
    /\ pc \in {"idle", "recv", "blocked", "sleep"}
    /\ port \in Ports \cup {NoPort} /\ peer \in Peers
    /\ expired \in BOOLEAN /\ oneShot \in BOOLEAN /\ late \in BOOLEAN
    /\ qid \in 0..MaxQueries
    /\ net \subseteq Datagrams
    /\ deliveries \in 0..MaxDeliveries
    /\ outcome \in {"none", "ok", "timeout", "error"}
    /\ answer \in SUBSET [datagram : Datagrams, from : SocketAddrs]

Init ==
    /\ fifo = [p \in Ports |-> <<>>]
    /\ sock = NoPort /\ sockV4 = TRUE
    /\ pc = "idle" /\ port = NoPort /\ peer \in Peers
    /\ expired = FALSE /\ oneShot = FALSE /\ late = FALSE
    /\ qid = 0
    /\ net = {} /\ deliveries = 0
    /\ outcome = "none" /\ answer = {}

(* Ports with an open session, and the family of the session.                *)
Open == ({sock} \cup IF pc = "idle" THEN {} ELSE {port}) \ {NoPort}
IsV4(q) == IF q = sock THEN sockV4 ELSE peer.ip.v4

-----------------------------------------------------------------------------
(* The network (external).                                                   *)

Counted ==
    /\ deliveries < MaxDeliveries
    /\ deliveries' = deliveries + 1

BugEnqueue(d) ==
    fifo' = IF d.to \in Open THEN [fifo EXCEPT ![d.to] = Append(@, d)] ELSE fifo

Enqueue(d) ==
    fifo' = IF /\ d.to \in Open /\ d.from.ip.v4 = IsV4(d.to)
               /\ Len(fifo[d.to]) < MaxFifo
              THEN [fifo EXCEPT ![d.to] = Append(@, d)]
              ELSE fifo

(* An answer arrives; it may be a duplicate with more to come.               *)
Deliver(d) ==
    /\ Counted
    /\ Enqueue(d)
    /\ net' \in {net, net \ {d}}
    /\ UNCHANGED <<sock, sockV4, pc, callVars, expired, outcome, answer>>

(* Somebody sends something that answers no query.                           *)
Stray(p, q) ==
    /\ Counted
    /\ Enqueue([from |-> p, to |-> q, id |-> 0])
    /\ UNCHANGED <<sock, sockV4, pc, callVars, expired, net, outcome, answer>>

-----------------------------------------------------------------------------
(* The draw of a port for handle.bind: eight attempts find a free one, or    *)
(* the call fails.                                                           *)
FreePort(q) == q \notin Open

(* The choice of bind_ip: the wildcard of the family, or a source address    *)
(* that must have it.                                                        *)
Sources == {"none", "v4", "v6"}
SourceFits(source, v4) == source \in {"none", IF v4 THEN "v4" ELSE "v6"}

(* VclUdpSyncSocket::bind.  Its failures leave nothing behind.               *)
SocketBind(source, v4) ==
    /\ pc = "idle" /\ sock = NoPort
    /\ SourceFits(source, v4)
    /\ \E q \in Ports : FreePort(q) /\ sock' = q
    /\ sockV4' = v4
    /\ UNCHANGED <<fifo, pc, callVars, expired, netVars, outcome, answer>>

(* The socket is dropped: its session and FIFO go.                           *)
SocketDrop ==
    /\ pc = "idle" /\ sock # NoPort
    /\ sock' = NoPort
    /\ fifo' = [fifo EXCEPT ![sock] = <<>>]
    /\ UNCHANGED <<sockV4, pc, callVars, expired, netVars, outcome, answer>>

(* sendto: the request goes to whomever the endpoint names, and an answer    *)
(* may come back from there; or it fails, as it does for another family.     *)
Sendto(p, q, fits) ==
    /\ pc = "idle" /\ qid < MaxQueries
    /\ port' = q /\ peer' = p /\ qid' = qid + 1
    /\ expired' = FALSE /\ answer' = {}
    /\ \/ /\ fits
          /\ net' = net \cup {[from |-> VppReads(EndpointIntoBuf(p, ZeroBuf)),
                               to |-> q, id |-> qid']}
          /\ pc' = "recv" /\ outcome' = "none"
       \/ UNCHANGED <<net, pc>> /\ outcome' = "error"
    /\ UNCHANGED <<sock, sockV4, deliveries>>

(* VclUdpSyncSocket::query.                                                  *)
SocketQuery(p) ==
    /\ sock # NoPort
    /\ Sendto(p, sock, p.ip.v4 = sockV4)
    /\ oneShot' = FALSE /\ late' = FALSE
    /\ UNCHANGED fifo

(* query_udp_sync: create, bind, listen, sendto.                             *)
OneShotQuery(p, q, source) ==
    /\ FreePort(q)
    /\ Sendto(p, q, SourceFits(source, p.ip.v4))
    /\ oneShot' = TRUE /\ late' = (\E d \in net : d.to = q)
    /\ UNCHANGED fifo

(* The call returns, with rest left in the FIFO; the SessionHandle of        *)
(* query_udp_sync is dropped.                                                *)
BugReturn(out, ds, rest) ==
    /\ pc' = "idle" /\ outcome' = out /\ answer' = ds
    /\ fifo' = [fifo EXCEPT ![port] = rest]
    /\ UNCHANGED <<sock, sockV4, callVars, expired, netVars>>

Return(out, ds, rest) ==
    /\ pc' = "idle" /\ outcome' = out /\ answer' = ds
    /\ fifo' = [fifo EXCEPT ![port] = IF oneShot THEN <<>> ELSE rest]
    /\ UNCHANGED <<sock, sockV4, callVars, expired, netVars>>

(* recvfrom: the sender as addr_from_endpoint makes it out.                  *)
From(d) == AddrFromEndpoint(VppFills(d.from, ZeroBuf))

(* recvfrom returns a datagram.  query keeps the one from its peer's IP and  *)
(* goes back to recvfrom for any other; query_udp_sync takes the first.      *)
BugAccepts(d) == From(d).ip.octets[1] = peer.ip.octets[1]

Accepts(d) == oneShot \/ From(d).ip = peer.ip

RecvOk ==
    /\ pc = "recv" /\ fifo[port] # <<>>
    /\ Accepts(Head(fifo[port]))
    /\ LET d == Head(fifo[port])
       IN  Return("ok", {[datagram |-> d, from |-> From(d)]}, Tail(fifo[port]))

RecvStray ==
    /\ pc = "recv" /\ fifo[port] # <<>>
    /\ ~Accepts(Head(fifo[port]))
    /\ fifo' = [fifo EXCEPT ![port] = Tail(@)]
    /\ UNCHANGED <<sock, sockV4, pc, callVars, expired, netVars, outcome, answer>>

(* recvfrom says WouldBlock.                                                 *)
RecvWouldBlock ==
    /\ pc = "recv" /\ fifo[port] = <<>>
    /\ pc' = "blocked"
    /\ UNCHANGED <<fifo, sock, sockV4, callVars, expired, netVars, outcome, answer>>

(* recvfrom fails for good.                                                  *)
RecvError == pc = "recv" /\ Return("error", {}, fifo[port])

(* Only then is the clock read: past the deadline the call gives up, though  *)
(* a datagram may have come in since recvfrom; before it, it sleeps.         *)
BugDeadlinePassed ==
    /\ pc \in {"recv", "blocked"} /\ expired
    /\ Return("timeout", {}, fifo[port])

DeadlinePassed ==
    /\ pc = "blocked" /\ expired
    /\ Return("timeout", {}, fifo[port])

BugDeadlineAhead ==
    /\ pc = "blocked"
    /\ pc' = "sleep"
    /\ UNCHANGED <<fifo, sock, sockV4, callVars, expired, netVars, outcome, answer>>

DeadlineAhead ==
    /\ pc = "blocked" /\ ~expired
    /\ pc' = "sleep"
    /\ UNCHANGED <<fifo, sock, sockV4, callVars, expired, netVars, outcome, answer>>

(* thread::sleep(5 ms) ends.                                                 *)
Wake ==
    /\ pc = "sleep"
    /\ pc' = "recv"
    /\ UNCHANGED <<fifo, sock, sockV4, callVars, expired, netVars, outcome, answer>>

(* The clock passes the deadline.                                            *)
Expire ==
    /\ pc # "idle" /\ ~expired
    /\ expired' = TRUE
    /\ UNCHANGED <<fifo, sock, sockV4, pc, callVars, netVars, outcome, answer>>

Loop ==
    \/ RecvOk \/ RecvStray \/ RecvWouldBlock
    \/ DeadlinePassed \/ DeadlineAhead \/ Wake

Next ==
    \/ \E d \in net : Deliver(d)
    \/ \E p \in Hosts, q \in Ports : Stray(p, q)
    \/ \E p \in Peers, q \in Ports, source \in Sources : OneShotQuery(p, q, source)
    \/ \E p \in Peers : SocketQuery(p)
    \/ \E source \in Sources, v4 \in BOOLEAN : SocketBind(source, v4)
    \/ SocketDrop \/ Loop \/ RecvError \/ Expire

Spec == Init /\ [][Next]_vars

(* The calling thread runs and time passes; nothing is assumed of the        *)
(* network.                                                                  *)
FairSpec == Spec /\ WF_vars(Loop) /\ WF_vars(Expire)

-----------------------------------------------------------------------------
(* VclUdpSyncSocket::query returns only datagrams of the peer it asked       *)
(* (dgram.rs:866-869, 883-889), whatever is still in the FIFO or in flight   *)
(* from queries to others.                                                   *)
AnswerFromPeer == ~oneShot => \A a \in answer : a.datagram.from.ip = peer.ip

(* Addresses survive the endpoints in both directions (session.rs:104-148,   *)
(* 259-291): the request of a call goes to exactly the peer it was given,    *)
(* address, family and port, and the sender handed back is the sender.       *)
AddressesExact ==
    /\ \A d \in net : d.id = qid => d.from = peer
    /\ \A a \in answer : a.from = a.datagram.from

(* query_udp_sync's session is its own and dies with the call (dgram.rs:655, *)
(* 685-698; session.rs:244-248): it returns an answer to an earlier query    *)
(* only if that was still under way to the very port it drew, never one that *)
(* had already arrived.                                                      *)
OneShotFresh ==
    oneShot /\ ~late => \A a \in answer : a.datagram.id \in {0, qid}

(* A datagram the call would accept is in its FIFO, and recvfrom is called   *)
(* again before the clock is read.                                           *)
AnswerReady ==
    /\ pc \in {"recv", "sleep"}
    /\ \E i \in 1..Len(fifo[port]) : Accepts(fifo[port][i])

(* The clock is read only after recvfrom found nothing (dgram.rs:707-717,    *)
(* 881-899): a datagram the call accepts that arrives before the recvfrom,   *)
(* be it during the sleep and past the deadline, behind any number of        *)
(* strays, is returned, or recvfrom fails.  One that comes between an empty  *)
(* recvfrom and the look at the clock may be given up to the timeout.        *)
ReadyAnswerTaken ==
    [][AnswerReady => AnswerReady' \/ outcome' \in {"ok", "error"}]_vars

(* Every call returns (dgram.rs:706-720, 880-902) once traffic pauses: the   *)
(* number of datagrams is finite, their order and timing are not restricted. *)
QueryReturns == pc # "idle" ~> pc = "idle"

RecvsLeft ==
    Len(fifo[port]) + CASE pc = "sleep" -> 2 [] pc = "recv" -> 1 [] OTHER -> 0

(* Why it does (dgram.rs:711-719, 893-901): after the deadline a call that   *)
(* does not return has taken a datagram out of its FIFO, woken up for the    *)
(* last time or found the FIFO empty for the last time, so it lasts about as *)
(* many steps as datagrams await it.                                         *)
RecvLoopEnds ==
    [][Loop /\ expired => pc' = "idle" \/ RecvsLeft' < RecvsLeft]_vars

(* dgram.rs:867-869: "Stray responses (e.g. late arrivals from a previous    *)
(* query that timed out on this socket) are discarded."                      *)
LateAnswersDiscarded ==
    ~oneShot => \A a \in answer : a.datagram.id \in {0, qid}
=============================================================================
