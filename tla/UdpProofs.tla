------------------------------ MODULE UdpProofs -----------------------------
(***************************************************************************)
(* For every width of a byte and of an address, and any peers, hosts,      *)
(* ports and number of queries: addresses pass through the endpoints of    *)
(* session.rs unchanged, so the UDP clients send where they were told to,  *)
(* know who answered, and take no leftovers for an answer.                 *)
(***************************************************************************)
EXTENDS UdpQuery, TLAPS

(* The two digits of a two-digit number.                                     *)
LEMMA Digits ==
    ASSUME NEW q \in Octet, NEW r \in Octet
    PROVE  (q * Base + r) % Base = r /\ (q * Base + r) \div Base = q
  BY EndpointAssumption DEF Octet

(* Division with remainder.                                                  *)
LEMMA DivMod ==
    ASSUME NEW B \in Nat \ {0}, NEW p \in Nat
    PROVE  \E q \in Nat, r \in 0..B-1 : p \div B = q /\ p % B = r /\ p = q * B + r
<1>1. p % B \in 0..B-1 /\ p \div B \in Int
  OBVIOUS
<1>2. p = B * (p \div B) + (p % B)
  BY Z3
<1>3. PICK q \in Int, r \in 0..B-1 : p \div B = q /\ p % B = r
  BY <1>1, Zenon
<1>4. p = B * q + r
  BY <1>2, <1>3, Zenon
<1>5. q \in Nat /\ p = q * B + r
  BY <1>4
<1> QED BY <1>3, <1>5, Zenon

(* A port is two bytes.                                                      *)
LEMMA PortDigits ==
    ASSUME NEW p \in 0..Base*Base-1
    PROVE  \E q, r \in Octet : p \div Base = q /\ p % Base = r /\ p = q * Base + r
<1>1. Base \in Nat \ {0} /\ p \in Nat /\ p < Base * Base
  BY EndpointAssumption
<1>2. PICK q \in Nat, r \in 0..Base-1 : p \div Base = q /\ p % Base = r /\ p = q * Base + r
  BY <1>1, DivMod, Zenon
<1>3. q < Base
  <2>1. ASSUME q >= Base PROVE FALSE
    <3>1. q * Base >= Base * Base
      BY <1>1, <2>1
    <3>2. p >= q * Base
      BY <1>1, <1>2
    <3>3. q * Base \in Int /\ Base * Base \in Int
      BY <1>1
    <3> QED BY <1>1, <3>1, <3>2, <3>3
  <2> QED BY <1>1, <2>1
<1>4. q \in Octet /\ r \in Octet
  BY <1>1, <1>3 DEF Octet
<1> QED BY <1>2, <1>4, Zenon

(* Swapping the bytes of a port twice gives the port.                        *)
LEMMA SwapTwice ==
    ASSUME NEW p \in 0..Base*Base-1
    PROVE  FromBe(ToBe(p)) = p
<1>1. PICK q \in Octet, r \in Octet :
          p \div Base = q /\ p % Base = r /\ p = q * Base + r
  BY PortDigits, Zenon
<1>2. (r * Base + q) % Base = q /\ (r * Base + q) \div Base = r
  BY Digits, Zenon
<1>3. ToBe(p) = r * Base + q
  BY <1>1, Zenon DEF ToBe
<1> QED BY <1>1, <1>2, <1>3, Zenon DEF FromBe

-----------------------------------------------------------------------------
(* What endpoint_into_buf builds, libvppcom takes for the address it was     *)
(* built from, whatever the buffer held before.                              *)
LEMMA SendExact ==
    ASSUME NEW a \in SocketAddrs, NEW buf \in Bufs
    PROVE  VppReads(EndpointIntoBuf(a, buf)) = a
<1> DEFINE ep == EndpointIntoBuf(a, buf)
<1>1. a.ip \in IpAddrs /\ a.port \in 0..Base*Base-1 /\ a = [ip |-> a.ip, port |-> a.port]
  BY DEF SocketAddrs
<1>2. VppReads(ep).port = a.port
  <2>1. FromBe(ToBe(a.port)) = a.port
    BY <1>1, SwapTwice
  <2> QED BY <2>1, Zenon DEF VppReads, EndpointIntoBuf, FromBe
<1>3. VppReads(ep).ip = a.ip
  <2>1. CASE a.ip.v4
    <3>1. a.ip = [v4 |-> TRUE, octets |-> a.ip.octets] /\ a.ip.octets \in [1..V4Len -> Octet]
      BY <1>1, <2>1, Zenon DEF IpAddrs
    <3>2. \A i \in 1..V4Len : i \in 1..BufLen /\ ~(i > V4Len)
      BY EndpointAssumption
    <3>3. \A i \in 1..V4Len : ep.ip[i] = a.ip.octets[i]
      BY <2>1, <3>2, Zenon DEF EndpointIntoBuf
    <3>4. [i \in 1..V4Len |-> ep.ip[i]] = a.ip.octets
      BY <3>1, <3>3, Zenon
    <3> QED BY <2>1, <3>1, <3>4, Zenon DEF VppReads, EndpointIntoBuf
  <2>2. CASE ~a.ip.v4
    <3>1. a.ip = [v4 |-> FALSE, octets |-> a.ip.octets] /\ a.ip.octets \in [1..BufLen -> Octet]
      BY <1>1, <2>2, Zenon DEF IpAddrs
    <3>2. ep.ip = a.ip.octets
      BY <2>2, <3>1, Zenon DEF EndpointIntoBuf
    <3> QED BY <2>2, <3>1, <3>2, Zenon DEF VppReads, EndpointIntoBuf
  <2> QED BY <2>1, <2>2
<1>4. VppReads(ep) = [ip |-> VppReads(ep).ip, port |-> VppReads(ep).port]
  BY DEF VppReads
<1> QED BY <1>1, <1>2, <1>3, <1>4

(* What libvppcom fills in, addr_from_endpoint reads as the sender.          *)
LEMMA RecvExact ==
    ASSUME NEW a \in SocketAddrs, NEW buf \in Bufs
    PROVE  AddrFromEndpoint(VppFills(a, buf)) = a
<1> DEFINE ep == VppFills(a, buf)
<1>1. a.ip \in IpAddrs /\ a.port \in 0..Base*Base-1 /\ a = [ip |-> a.ip, port |-> a.port]
  BY DEF SocketAddrs
<1>2. AddrFromEndpoint(ep).port = a.port
  <2>1. FromBe(ToBe(a.port)) = a.port
    BY <1>1, SwapTwice
  <2> QED BY <2>1, Zenon DEF AddrFromEndpoint, VppFills, ToBe
<1>3. AddrFromEndpoint(ep).ip = a.ip
  <2>1. CASE a.ip.v4
    <3>1. a.ip = [v4 |-> TRUE, octets |-> a.ip.octets] /\ a.ip.octets \in [1..V4Len -> Octet]
      BY <1>1, <2>1, Zenon DEF IpAddrs
    <3>2. \A i \in 1..V4Len : i \in 1..BufLen /\ ~(i > V4Len)
      BY EndpointAssumption
    <3>3. \A i \in 1..V4Len : ep.ip[i] = a.ip.octets[i]
      BY <2>1, <3>2, Zenon DEF VppFills
    <3>4. [i \in 1..V4Len |-> ep.ip[i]] = a.ip.octets
      BY <3>1, <3>3, Zenon
    <3> QED BY <2>1, <3>1, <3>4, Zenon DEF AddrFromEndpoint, VppFills
  <2>2. CASE ~a.ip.v4
    <3>1. a.ip = [v4 |-> FALSE, octets |-> a.ip.octets] /\ a.ip.octets \in [1..BufLen -> Octet]
      BY <1>1, <2>2, Zenon DEF IpAddrs
    <3>2. [i \in 1..BufLen |-> ep.ip[i]] = a.ip.octets
      BY <2>2, <3>1, Zenon DEF VppFills
    <3> QED BY <2>2, <3>1, <3>2, Zenon DEF AddrFromEndpoint, VppFills
  <2> QED BY <2>1, <2>2
<1>4. AddrFromEndpoint(ep) = [ip |-> AddrFromEndpoint(ep).ip, port |-> AddrFromEndpoint(ep).port]
  BY DEF AddrFromEndpoint
<1> QED BY <1>1, <1>2, <1>3, <1>4

-----------------------------------------------------------------------------
(* The inductive invariant: datagrams carry real addresses wherever they     *)
(* are, a running call has a session, and no answer on its way is to a query *)
(* not yet made.                                                             *)
Addressed ==
    /\ fifo \in [Ports -> Seq(Datagrams)]
    /\ sock \in Ports \cup {NoPort} /\ (pc # "idle" => port \in Ports)
    /\ peer \in Peers /\ qid \in 0..MaxQueries
    /\ net \subseteq Datagrams /\ \A d \in net : d.id <= qid
    /\ AddressesExact

(* recvfrom names the sender of the datagram it returns.                     *)
LEMMA HeadExact ==
    ASSUME Addressed, pc # "idle", fifo[port] # <<>>
    PROVE  Head(fifo[port]) \in Datagrams /\ From(Head(fifo[port])) = Head(fifo[port]).from
<1> DEFINE d == Head(fifo[port])
<1>1. d \in Datagrams
  BY DEF Addressed
<1>2. d.from \in SocketAddrs /\ ZeroBuf \in Bufs
  BY <1>1, EndpointAssumption DEF Datagrams, ZeroBuf, Bufs, Octet
<1> QED BY <1>1, <1>2, RecvExact DEF From

LEMMA AddressedNext == Addressed /\ [Next]_vars => Addressed'
<1> SUFFICES ASSUME Addressed, [Next]_vars PROVE Addressed'
  OBVIOUS
<1>1. ASSUME UNCHANGED <<net, peer, qid, answer, port>>, sock' \in Ports \cup {NoPort},
             fifo' \in [Ports -> Seq(Datagrams)], pc' # "idle" => pc # "idle"
      PROVE  Addressed'
  BY <1>1 DEF Addressed, AddressesExact
<1>2. \A s \in Seq(Datagrams) : s # <<>> => Head(s) \in Datagrams /\ Tail(s) \in Seq(Datagrams)
  OBVIOUS
<1>3. ASSUME NEW d \in Datagrams, Enqueue(d) PROVE fifo' \in [Ports -> Seq(Datagrams)]
  <2>1. fifo \in [Ports -> Seq(Datagrams)] /\ d.to \in Ports
    BY Zenon DEF Addressed, Datagrams
  <2>2. Append(fifo[d.to], d) \in Seq(Datagrams)
    BY <2>1
  <2>3. fifo' \in {fifo, [fifo EXCEPT ![d.to] = Append(fifo[d.to], d)]}
    BY <1>3, Zenon DEF Enqueue
  <2> QED BY <2>1, <2>2, <2>3, Zenon
<1>4. ASSUME NEW d \in net, Deliver(d) PROVE Addressed'
  <2>1. fifo' \in [Ports -> Seq(Datagrams)]
    BY <1>3, <1>4 DEF Addressed, Deliver
  <2>2. net' \subseteq net /\ UNCHANGED <<sock, pc, port, peer, qid, answer>>
    BY <1>4 DEF Deliver, callVars
  <2> QED BY <2>1, <2>2 DEF Addressed, AddressesExact
<1>5. ASSUME NEW p \in Hosts, NEW q \in Ports, Stray(p, q) PROVE Addressed'
  <2>1. [from |-> p, to |-> q, id |-> 0] \in Datagrams
    BY UdpQueryAssumption DEF Datagrams
  <2> QED BY <1>1, <1>3, <1>5, <2>1 DEF Stray, callVars, Addressed
<1>6. ASSUME NEW p \in Peers, NEW q \in Ports, NEW fits, Sendto(p, q, fits), UNCHANGED fifo
      PROVE  Addressed'
  <2> DEFINE d == [from |-> VppReads(EndpointIntoBuf(p, ZeroBuf)), to |-> q, id |-> qid']
  <2>1. p \in SocketAddrs /\ ZeroBuf \in Bufs
    BY UdpQueryAssumption, EndpointAssumption DEF ZeroBuf, Bufs, Octet
  <2>2. VppReads(EndpointIntoBuf(p, ZeroBuf)) = p
    BY <2>1, SendExact
  <2>3. /\ qid' = qid + 1 /\ qid' \in 0..MaxQueries /\ qid \in Int
        /\ peer' = p /\ answer' = {} /\ port' = q /\ UNCHANGED sock
        /\ net' = net \cup {d} \/ net' = net
    BY <1>6, UdpQueryAssumption DEF Sendto, Addressed
  <2>4. d \in Datagrams /\ d.id = qid' /\ d.from = peer'
    BY <2>1, <2>2, <2>3 DEF Datagrams
  <2> HIDE DEF d
  <2>5. \A e \in net : e.id \in Int /\ e.id < qid'
    BY <2>3 DEF Addressed, Datagrams
  <2>6. net' \subseteq Datagrams /\ \A e \in net' : e.id <= qid' /\ (e.id = qid' => e.from = peer')
    BY <2>3, <2>4, <2>5 DEF Addressed
  <2> QED BY <1>6, <2>3, <2>6 DEF Addressed, AddressesExact
<1>7. ASSUME NEW p \in Peers, SocketQuery(p) PROVE Addressed'
  BY <1>6, <1>7 DEF SocketQuery, Addressed
<1>8. ASSUME NEW p \in Peers, NEW q \in Ports, NEW s \in Sources, OneShotQuery(p, q, s)
      PROVE  Addressed'
  BY <1>6, <1>8 DEF OneShotQuery
<1>9. ASSUME NEW s \in Sources, NEW v \in BOOLEAN, SocketBind(s, v) PROVE Addressed'
  BY <1>1, <1>9 DEF SocketBind, callVars, netVars, Addressed
<1>10. ASSUME SocketDrop PROVE Addressed'
  BY <1>1, <1>10 DEF SocketDrop, callVars, netVars, Addressed
<1>11. ASSUME NEW out, NEW ds, NEW rest \in Seq(Datagrams), Return(out, ds, rest), pc # "idle",
              \A a \in ds : a.from = a.datagram.from
       PROVE  Addressed'
  <2>1. <<>> \in Seq(Datagrams) /\ fifo \in [Ports -> Seq(Datagrams)]
    BY DEF Addressed
  <2>2. fifo' \in [Ports -> Seq(Datagrams)]
    BY <1>11, <2>1, Zenon DEF Return
  <2> QED BY <1>11, <2>2 DEF Return, callVars, netVars, Addressed, AddressesExact
<1>12. ASSUME RecvOk PROVE Addressed'
  <2> DEFINE d == Head(fifo[port])
             ds == {[datagram |-> d, from |-> From(d)]}
  <2>1. From(d) = d.from
    BY <1>12, HeadExact DEF RecvOk
  <2>2. Return("ok", ds, Tail(fifo[port])) /\ pc # "idle"
    BY <1>12 DEF RecvOk
  <2>3. Tail(fifo[port]) \in Seq(Datagrams)
    BY <1>2, <1>12 DEF RecvOk, Addressed
  <2>4. \A a \in ds : a.from = a.datagram.from
    BY <2>1
  <2> HIDE DEF ds
  <2> QED BY <1>11, <2>2, <2>3, <2>4, Zenon
<1>13. ASSUME DeadlinePassed \/ RecvError PROVE Addressed'
  BY <1>11, <1>13 DEF DeadlinePassed, RecvError, Addressed
<1>14. ASSUME RecvStray PROVE Addressed'
  BY <1>1, <1>2, <1>14 DEF RecvStray, callVars, netVars, Addressed
<1>15. ASSUME RecvWouldBlock \/ DeadlineAhead \/ Wake \/ Expire \/ UNCHANGED vars PROVE Addressed'
  BY <1>1, <1>15 DEF RecvWouldBlock, DeadlineAhead, Wake, Expire, vars, callVars, netVars, Addressed
<1> QED
  BY <1>4, <1>5, <1>7, <1>8, <1>9, <1>10, <1>12, <1>13, <1>14, <1>15 DEF Next, Loop

LEMMA AddressedAlways == Spec => []Addressed
<1>1. Init => Addressed
  BY UdpQueryAssumption DEF Init, Addressed, AddressesExact
<1> QED BY <1>1, AddressedNext, PTL DEF Spec

(* Whatever the addresses, the request of every query goes to exactly the    *)
(* peer it was given and every sender reported is the sender: marshalling    *)
(* swaps no port, cuts no address and mistakes no family.                    *)
THEOREM AddressesAlwaysExact == Spec => []AddressesExact
<1>1. Addressed => AddressesExact
  BY DEF Addressed
<1> QED BY <1>1, AddressedAlways, PTL

-----------------------------------------------------------------------------
(* Whatever is left over in the FIFO or still under way, query returns only  *)
(* datagrams of the peer it asked: its comparison of IPs sees the real ones. *)
THEOREM AnswersFromPeer == Spec => []AnswerFromPeer
<1>1. Init => AnswerFromPeer
  BY DEF Init, AnswerFromPeer
<1>2. AnswerFromPeer /\ Addressed /\ [Next]_vars => AnswerFromPeer'
  <2> SUFFICES ASSUME AnswerFromPeer, Addressed, [Next]_vars PROVE AnswerFromPeer'
    OBVIOUS
  <2>1. ASSUME UNCHANGED <<oneShot, peer, answer>> PROVE AnswerFromPeer'
    BY <2>1 DEF AnswerFromPeer
  <2>2. ASSUME answer' = {} PROVE AnswerFromPeer'
    BY <2>2 DEF AnswerFromPeer
  <2>3. ASSUME RecvOk PROVE AnswerFromPeer'
    <3> DEFINE d == Head(fifo[port])
    <3>1. From(d) = d.from
      BY <2>3, HeadExact DEF RecvOk
    <3>2. /\ answer' = {[datagram |-> d, from |-> From(d)]} /\ UNCHANGED <<oneShot, peer>>
          /\ oneShot \/ From(d).ip = peer.ip
      BY <2>3 DEF RecvOk, Return, Accepts, callVars
    <3> HIDE DEF d
    <3> QED BY <3>1, <3>2 DEF AnswerFromPeer
  <2>4. ASSUME NEW p, NEW q, NEW fits, Sendto(p, q, fits) PROVE AnswerFromPeer'
    BY <2>2, <2>4 DEF Sendto
  <2> QED BY <2>1, <2>2, <2>3, <2>4, Zenon
      DEF Next, Loop, Deliver, Stray, OneShotQuery, SocketQuery, SocketBind, SocketDrop,
          RecvStray, DeadlinePassed, DeadlineAhead, RecvWouldBlock, RecvError, Return, Wake, Expire, vars, callVars
<1> QED BY <1>1, <1>2, AddressedAlways, PTL DEF Spec

(* What arrives keeps a FIFO's datagrams where they are, and taking the      *)
(* first leaves all others.                                                  *)
LEMMA FifoKeeps ==
    ASSUME NEW s \in Seq(Datagrams), NEW i \in 1..Len(s), NEW d \in Datagrams
    PROVE  /\ i \in 1..Len(Append(s, d)) /\ Append(s, d)[i] = s[i]
           /\ i # 1 => i - 1 \in 1..Len(Tail(s)) /\ Tail(s)[i - 1] = s[i]
           /\ s # <<>> /\ Head(s) = s[1]
  OBVIOUS

(* A datagram the call accepts and that is in the FIFO when recvfrom is next *)
(* called is never given up to a timeout, however late it came and whatever  *)
(* strays are ahead of it.                                                   *)
THEOREM ReadyAnswersTaken == Spec => ReadyAnswerTaken
<1>1. ASSUME Addressed, [Next]_vars, AnswerReady
      PROVE  AnswerReady' \/ outcome' \in {"ok", "error"}
  <2>0. /\ port \in Ports /\ fifo \in [Ports -> Seq(Datagrams)] /\ fifo[port] \in Seq(Datagrams)
        /\ pc \in {"recv", "sleep"} /\ net \subseteq Datagrams
    BY <1>1 DEF AnswerReady, Addressed
  <2>1. PICK i \in 1..Len(fifo[port]) : Accepts(fifo[port][i])
    BY <1>1 DEF AnswerReady
  <2>2. ASSUME UNCHANGED callVars, pc' \in {"recv", "sleep"},
               NEW j \in 1..Len(fifo'[port]), fifo'[port][j] = fifo[port][i]
        PROVE  AnswerReady'
    BY <2>1, <2>2 DEF AnswerReady, Accepts, callVars
  <2>3. ASSUME UNCHANGED <<callVars, fifo>>, pc' \in {"recv", "sleep"} PROVE AnswerReady'
    BY <2>1, <2>2, <2>3
  <2>4. ASSUME NEW d \in Datagrams, Enqueue(d), UNCHANGED <<callVars, pc>> PROVE AnswerReady'
    <3>1. fifo' \in {fifo, [fifo EXCEPT ![d.to] = Append(fifo[d.to], d)]}
      BY <2>4, Zenon DEF Enqueue
    <3>2. fifo'[port] \in {fifo[port], Append(fifo[port], d)}
      BY <2>0, <3>1, Zenon
    <3>3. i \in 1..Len(fifo'[port]) /\ fifo'[port][i] = fifo[port][i]
      BY <2>0, <2>1, <3>2, FifoKeeps
    <3> QED BY <2>0, <2>2, <2>4, <3>3
  <2>5. ASSUME NEW d \in net, Deliver(d) PROVE AnswerReady'
    BY <2>0, <2>4, <2>5 DEF Deliver
  <2>6. ASSUME NEW p \in Hosts, NEW q \in Ports, Stray(p, q) PROVE AnswerReady'
    <3>1. [from |-> p, to |-> q, id |-> 0] \in Datagrams
      BY UdpQueryAssumption DEF Datagrams
    <3> QED BY <2>4, <2>6, <3>1 DEF Stray
  <2>7. ASSUME RecvStray PROVE AnswerReady'
    <3>1. ~Accepts(Head(fifo[port])) /\ fifo' = [fifo EXCEPT ![port] = Tail(fifo[port])]
          /\ UNCHANGED callVars /\ pc' \in {"recv", "sleep"}
      BY <2>0, <2>7 DEF RecvStray
    <3>2. PICK d : d \in Datagrams
      BY <2>0, <2>1
    <3>3. i # 1
      BY <2>0, <2>1, <3>1, <3>2, FifoKeeps, Zenon
    <3>4. i - 1 \in 1..Len(Tail(fifo[port])) /\ Tail(fifo[port])[i - 1] = fifo[port][i]
      BY <2>0, <2>1, <3>2, <3>3, FifoKeeps
    <3>5. fifo'[port] = Tail(fifo[port])
      BY <2>0, <3>1, Zenon
    <3> QED BY <2>2, <3>1, <3>4, <3>5
  <2>8. ASSUME RecvWouldBlock PROVE FALSE
    BY <2>0, <2>1, <2>8 DEF RecvWouldBlock
  <2>9. ASSUME Wake \/ Expire \/ UNCHANGED vars PROVE AnswerReady'
    BY <2>0, <2>3, <2>9 DEF Wake, Expire, vars
  <2>10. ASSUME RecvOk \/ RecvError PROVE outcome' \in {"ok", "error"}
    BY <2>10, Zenon DEF RecvOk, RecvError, Return
  <2> QED
    BY <1>1, <2>0, <2>5, <2>6, <2>7, <2>8, <2>9, <2>10, Zenon
    DEF Next, Loop, OneShotQuery, SocketQuery, Sendto, SocketBind, SocketDrop,
        DeadlinePassed, DeadlineAhead
<1>2. Addressed /\ [Next]_vars
      => [AnswerReady => AnswerReady' \/ outcome' \in {"ok", "error"}]_vars
  BY <1>1
<1> QED BY <1>2, AddressedAlways, PTL DEF Spec, ReadyAnswerTaken

-----------------------------------------------------------------------------
(* Only open sessions have a FIFO; a running query_udp_sync has a session of *)
(* its own, a running query the socket's.  Unless something was under way to *)
(* its port, all that reaches query_udp_sync answers it, or nothing at all.  *)
Fresh ==
    /\ \A p \in Ports \ Open : fifo[p] = <<>>
    /\ pc # "idle" => (oneShot <=> port # sock)
    /\ pc # "idle" /\ oneShot /\ ~late =>
          /\ \A d \in net : d.to = port => d.id = qid
          /\ \A i \in 1..Len(fifo[port]) : fifo[port][i].id \in {0, qid}
    /\ OneShotFresh

LEMMA FreshNext == Addressed /\ Addressed' /\ Fresh /\ [Next]_vars => Fresh'
<1> SUFFICES ASSUME Addressed, Addressed', Fresh, [Next]_vars PROVE Fresh'
  OBVIOUS
<1> USE UdpQueryAssumption DEF Addressed, Fresh, OneShotFresh, Open, callVars, netVars
<1>1. ASSUME NEW d \in Datagrams, Enqueue(d), net' \subseteq net, d.id = 0 \/ d \in net,
             UNCHANGED <<sock, pc, callVars, answer>>
      PROVE  Fresh'
  <2>1. CASE UNCHANGED fifo
    BY <1>1, <2>1
  <2>2. CASE fifo' # fifo
    <3>1. d.to \in Open /\ d.to \in Ports /\ fifo' = [fifo EXCEPT ![d.to] = Append(fifo[d.to], d)]
      BY <1>1, <2>2, Zenon DEF Enqueue, Datagrams
    <3>2. \A p \in Ports \ Open' : fifo'[p] = <<>>
      BY <1>1, <3>1
    <3>3. ASSUME pc # "idle", oneShot, ~late, NEW i \in 1..Len(fifo'[port])
          PROVE  fifo'[port][i].id \in {0, qid}
      <4>1. CASE d.to # port
        BY <3>1, <3>3, <4>1
      <4>2. CASE d.to = port
        <5>1. fifo[port] \in Seq(Datagrams) /\ fifo'[port] = Append(fifo[port], d)
          BY <3>1, <3>3, <4>2
        <5>2. d.id \in {0, qid}
          BY <1>1, <3>3, <4>2
        <5>3. i \in 1..Len(fifo[port]) \/ fifo'[port][i] = d
          BY <3>3, <5>1
        <5>4. i \in 1..Len(fifo[port]) => fifo'[port][i] = fifo[port][i]
          BY <5>1
        <5> QED BY <3>3, <5>2, <5>3, <5>4
      <4> QED BY <4>1, <4>2
    <3> QED BY <1>1, <3>2, <3>3
  <2> QED BY <2>1, <2>2
<1>2. ASSUME NEW d \in net, Deliver(d) PROVE Fresh'
  BY <1>1, <1>2 DEF Deliver
<1>3. ASSUME NEW p \in Hosts, NEW q \in Ports, Stray(p, q) PROVE Fresh'
  <2>1. [from |-> p, to |-> q, id |-> 0] \in Datagrams
    BY DEF Datagrams
  <2> QED BY <1>1, <1>3, <2>1, Zenon DEF Stray
<1>4. ASSUME NEW p \in Peers, NEW q \in Ports, NEW s \in Sources, OneShotQuery(p, q, s)
      PROVE  Fresh'
  <2>1. fifo[q] = <<>> /\ q # sock /\ UNCHANGED <<fifo, sock>> /\ port' = q /\ oneShot'
    BY <1>4 DEF OneShotQuery, Sendto, FreePort
  <2>2. answer' = {} /\ pc = "idle" /\ pc' \in {"idle", "recv"} /\ qid' = qid + 1
    BY <1>4 DEF OneShotQuery, Sendto
  <2>3. \A d \in net' : d \in net \/ d.id = qid'
    BY <1>4 DEF OneShotQuery, Sendto
  <2>4. ~late' => \A d \in net : d.to # q
    BY <1>4 DEF OneShotQuery
  <2> QED BY <2>1, <2>2, <2>3, <2>4
<1>5. ASSUME NEW p \in Peers, SocketQuery(p) PROVE Fresh'
  BY <1>5 DEF SocketQuery, Sendto
<1>6. ASSUME NEW s \in Sources, NEW v \in BOOLEAN, SocketBind(s, v) PROVE Fresh'
  BY <1>6 DEF SocketBind, FreePort
<1>7. ASSUME SocketDrop PROVE Fresh'
  BY <1>7 DEF SocketDrop
<1>8. ASSUME NEW out, NEW ds, NEW rest \in Seq(Datagrams), Return(out, ds, rest), pc # "idle",
             oneShot /\ ~late => \A a \in ds : a.datagram.id \in {0, qid}
      PROVE  Fresh'
  BY <1>8 DEF Return
<1>9. ASSUME RecvOk PROVE Fresh'
  <2>1. fifo[port] \in Seq(Datagrams) /\ fifo[port] # <<>>
    BY <1>9 DEF RecvOk
  <2>2. Head(fifo[port]) = fifo[port][1] /\ 1 \in 1..Len(fifo[port])
    BY <2>1
  <2>3. oneShot /\ ~late => Head(fifo[port]).id \in {0, qid}
    BY <1>9, <2>2 DEF RecvOk
  <2>4. Tail(fifo[port]) \in Seq(Datagrams)
    BY <2>1
  <2> DEFINE ds == {[datagram |-> Head(fifo[port]), from |-> From(Head(fifo[port]))]}
  <2>5. oneShot /\ ~late => \A a \in ds : a.datagram.id \in {0, qid}
    BY <2>3
  <2>6. Return("ok", ds, Tail(fifo[port])) /\ pc # "idle"
    BY <1>9 DEF RecvOk
  <2> HIDE DEF ds
  <2> QED BY <1>8, <2>4, <2>5, <2>6, Zenon
<1>10. ASSUME DeadlinePassed \/ RecvError PROVE Fresh'
  BY <1>8, <1>10 DEF DeadlinePassed, RecvError
<1>11. ASSUME RecvStray PROVE Fresh'
  BY <1>11 DEF RecvStray, Accepts
<1>12. ASSUME RecvWouldBlock \/ DeadlineAhead \/ Wake \/ Expire \/ UNCHANGED vars PROVE Fresh'
  BY <1>12 DEF RecvWouldBlock, DeadlineAhead, Wake, Expire, vars
<1> QED
  BY <1>2, <1>3, <1>4, <1>5, <1>6, <1>7, <1>9, <1>10, <1>11, <1>12, Zenon DEF Next, Loop

(* The session of query_udp_sync dies with the call, so what an earlier call *)
(* left in a FIFO never answers a later one that draws the same port.        *)
THEOREM OneShotsFresh == Spec => []OneShotFresh
<1>1. Init => Fresh
  BY DEF Init, Fresh, OneShotFresh
<1>2. Fresh => OneShotFresh
  BY DEF Fresh
<1> QED BY <1>1, <1>2, AddressedAlways, FreshNext, PTL DEF Spec

-----------------------------------------------------------------------------
(* The rest of the state's type: no FIFO outgrows its capacity, and what a   *)
(* call returned is a datagram and a socket address.                         *)
UdpRest ==
    /\ \A p \in Ports : Len(fifo[p]) <= MaxFifo
    /\ sockV4 \in BOOLEAN
    /\ pc \in {"idle", "recv", "blocked", "sleep"}
    /\ port \in Ports \cup {NoPort}
    /\ expired \in BOOLEAN /\ oneShot \in BOOLEAN /\ late \in BOOLEAN
    /\ deliveries \in 0..MaxDeliveries
    /\ outcome \in {"none", "ok", "timeout", "error"}
    /\ answer \in SUBSET [datagram : Datagrams, from : SocketAddrs]

LEMMA UdpRestNext == Addressed /\ UdpRest /\ [Next]_vars => UdpRest'
<1> SUFFICES ASSUME Addressed, UdpRest, [Next]_vars PROVE UdpRest'
  OBVIOUS
<1> USE DEF callVars, netVars
<1>0. fifo \in [Ports -> Seq(Datagrams)] /\ MaxFifo \in Nat
  BY UdpQueryAssumption DEF Addressed
<1>1. ASSUME NEW d \in Datagrams, Enqueue(d) PROVE \A p \in Ports : Len(fifo'[p]) <= MaxFifo
  <2>1. d.to \in Ports
    BY DEF Datagrams
  <2>2. CASE fifo' = fifo
    BY <2>2 DEF UdpRest
  <2>3. CASE fifo' # fifo
    <3>1. fifo' = [fifo EXCEPT ![d.to] = Append(fifo[d.to], d)] /\ Len(fifo[d.to]) < MaxFifo
      BY <1>1, <2>3, Zenon DEF Enqueue
    <3>2. Len(Append(fifo[d.to], d)) = Len(fifo[d.to]) + 1 /\ Len(fifo[d.to]) \in Nat
      BY <1>0, <2>1
    <3>3. \A p \in Ports : fifo'[p] = IF p = d.to THEN Append(fifo[d.to], d) ELSE fifo[p]
      BY <1>0, <3>1
    <3> QED BY <1>0, <3>1, <3>2, <3>3 DEF UdpRest
  <2> QED BY <2>2, <2>3
<1>2. ASSUME Counted PROVE deliveries' \in 0..MaxDeliveries
  BY <1>2, UdpQueryAssumption DEF Counted, UdpRest
<1>3. ASSUME NEW d \in net, Deliver(d) PROVE UdpRest'
  <2>1. \A p \in Ports : Len(fifo'[p]) <= MaxFifo
    BY <1>1, <1>3 DEF Deliver, Addressed
  <2> QED BY <1>2, <1>3, <2>1, Zenon DEF Deliver, UdpRest
<1>4. ASSUME NEW p \in Hosts, NEW q \in Ports, Stray(p, q) PROVE UdpRest'
  <2>1. [from |-> p, to |-> q, id |-> 0] \in Datagrams
    BY UdpQueryAssumption DEF Datagrams
  <2>2. \A r \in Ports : Len(fifo'[r]) <= MaxFifo
    BY <1>1, <1>4, <2>1 DEF Stray
  <2> QED BY <1>2, <1>4, <2>2, Zenon DEF Stray, UdpRest
<1>5. ASSUME NEW p \in Peers, NEW q \in Ports, NEW fits, Sendto(p, q, fits), UNCHANGED fifo,
             oneShot' \in BOOLEAN, late' \in BOOLEAN
      PROVE  UdpRest'
  BY <1>5, Zenon DEF Sendto, UdpRest
<1>6. ASSUME NEW p \in Peers, SocketQuery(p) PROVE UdpRest'
  <2>1. sock \in Ports
    BY <1>6 DEF SocketQuery, Addressed
  <2> QED BY <1>5, <1>6, <2>1, Zenon DEF SocketQuery
<1>7. ASSUME NEW p \in Peers, NEW q \in Ports, NEW s \in Sources, OneShotQuery(p, q, s)
      PROVE  UdpRest'
  BY <1>5, <1>7, Zenon DEF OneShotQuery
<1>8. ASSUME NEW s \in Sources, NEW v \in BOOLEAN, SocketBind(s, v) PROVE UdpRest'
  BY <1>8, Zenon DEF SocketBind, UdpRest
<1>9. ASSUME NEW s \in {<<>>, Tail(fifo[port])}, port \in Ports, fifo[port] = <<>> => s = <<>>
      PROVE  Len(s) <= MaxFifo
  <2>1. fifo[port] # <<>> => Len(Tail(fifo[port])) <= Len(fifo[port])
    BY <1>0, <1>9
  <2> QED BY <1>0, <1>9, <2>1 DEF UdpRest
<1>10. ASSUME SocketDrop PROVE UdpRest'
  <2>1. \A p \in Ports : fifo'[p] \in {fifo[p], <<>>}
    BY <1>0, <1>10 DEF SocketDrop
  <2>2. \A p \in Ports : Len(fifo'[p]) <= MaxFifo
    BY <1>0, <2>1 DEF UdpRest
  <2> QED BY <1>10, <2>2, Zenon DEF SocketDrop, UdpRest
<1>11. ASSUME NEW out \in {"ok", "timeout", "error"},
              NEW ds \in SUBSET [datagram : Datagrams, from : SocketAddrs],
              NEW rest \in Seq(Datagrams), Len(rest) <= MaxFifo,
              Return(out, ds, rest), pc # "idle"
       PROVE  UdpRest'
  <2>1. port \in Ports
    BY <1>11 DEF Addressed
  <2>2. PICK s : fifo' = [fifo EXCEPT ![port] = s] /\ s = IF oneShot THEN <<>> ELSE rest
    BY <1>11, Zenon DEF Return
  <2>3. Len(s) <= MaxFifo
    BY <1>0, <1>11, <2>2
  <2>4. \A p \in Ports : Len(fifo'[p]) <= MaxFifo
    BY <1>0, <2>1, <2>2, <2>3 DEF UdpRest
  <2> QED BY <1>11, <2>4, Zenon DEF Return, UdpRest
<1>12. ASSUME RecvOk PROVE UdpRest'
  <2> DEFINE d == Head(fifo[port])
  <2>1. d \in Datagrams /\ From(d) = d.from
    BY <1>12, HeadExact DEF RecvOk
  <2>2. d.from \in SocketAddrs
    BY <2>1 DEF Datagrams
  <2>3. [datagram |-> d, from |-> From(d)] \in [datagram : Datagrams, from : SocketAddrs]
    BY <2>1, <2>2
  <2>4. port \in Ports /\ fifo[port] # <<>> /\ fifo[port] \in Seq(Datagrams)
    BY <1>12 DEF RecvOk, Addressed
  <2>5. Tail(fifo[port]) \in Seq(Datagrams) /\ Len(Tail(fifo[port])) <= MaxFifo
    BY <1>9, <2>4
  <2> QED BY <1>11, <1>12, <2>3, <2>5 DEF RecvOk
<1>13. ASSUME DeadlinePassed \/ RecvError PROVE UdpRest'
  <2>1. port \in Ports /\ fifo[port] \in Seq(Datagrams) /\ Len(fifo[port]) <= MaxFifo
    BY <1>13 DEF DeadlinePassed, RecvError, Addressed, UdpRest
  <2> QED BY <1>11, <1>13, <2>1 DEF DeadlinePassed, RecvError
<1>14. ASSUME RecvStray PROVE UdpRest'
  <2>1. port \in Ports /\ fifo[port] # <<>> /\ fifo' = [fifo EXCEPT ![port] = Tail(fifo[port])]
    BY <1>14 DEF RecvStray, Addressed
  <2>2. Len(Tail(fifo[port])) <= MaxFifo
    BY <1>9, <2>1
  <2>3. \A p \in Ports : Len(fifo'[p]) <= MaxFifo
    BY <1>0, <2>1, <2>2 DEF UdpRest
  <2> QED BY <1>14, <2>3, Zenon DEF RecvStray, UdpRest
<1>15. ASSUME RecvWouldBlock \/ DeadlineAhead \/ Wake \/ Expire \/ UNCHANGED vars PROVE UdpRest'
  BY <1>15, Zenon DEF RecvWouldBlock, DeadlineAhead, Wake, Expire, vars, UdpRest
<1> QED
  BY <1>3, <1>4, <1>6, <1>7, <1>8, <1>10, <1>12, <1>13, <1>14, <1>15 DEF Next, Loop

(* Every reachable state of the UDP clients is well typed, no FIFO holding   *)
(* more than VPP keeps.                                                      *)
THEOREM UdpTypeCorrect == Spec => []TypeOK
<1>1. Init => UdpRest
  <2>1. Len(<<>>) = 0 /\ 0 \in 0..MaxDeliveries /\ 0 <= MaxFifo
    BY UdpQueryAssumption
  <2> QED BY <2>1, Zenon DEF Init, UdpRest
<1>2. Addressed /\ UdpRest => TypeOK
  BY Zenon DEF Addressed, UdpRest, TypeOK
<1> QED BY <1>1, <1>2, AddressedAlways, UdpRestNext, PTL DEF Spec

(* Whatever the FIFO holds, a call whose deadline has passed only empties it *)
(* and returns: neither recvfrom loop can go round for nothing.              *)
THEOREM RecvLoopsEnd == Spec => RecvLoopEnds
<1>1. ASSUME Addressed, Loop, expired PROVE pc' = "idle" \/ RecvsLeft' < RecvsLeft
  <2>0. pc # "idle" => port \in Ports /\ fifo[port] \in Seq(Datagrams) /\ Len(fifo[port]) \in Nat
    BY <1>1 DEF Addressed
  <2>1. CASE RecvOk \/ DeadlinePassed
    BY <2>1 DEF RecvOk, DeadlinePassed, Return
  <2>2. CASE RecvStray
    <3>1. /\ fifo[port] # <<>> /\ port' = port /\ pc = "recv" /\ pc' = pc
          /\ fifo' = [fifo EXCEPT ![port] = Tail(fifo[port])]
      BY <2>2 DEF RecvStray, callVars
    <3>2. Len(fifo'[port']) = Len(fifo[port]) - 1 /\ Len(fifo[port]) \in Nat
      BY <1>1, <2>0, <3>1 DEF Addressed
    <3> QED BY <3>1, <3>2 DEF RecvsLeft
  <2>3. CASE RecvWouldBlock
    BY <2>0, <2>3 DEF RecvWouldBlock, RecvsLeft, callVars
  <2>4. CASE Wake
    BY <2>0, <2>4 DEF Wake, RecvsLeft, callVars
  <2>5. CASE DeadlineAhead
    BY <1>1, <2>5 DEF DeadlineAhead
  <2> QED BY <1>1, <2>1, <2>2, <2>3, <2>4, <2>5 DEF Loop
<1>2. Addressed /\ [Next]_vars => [Loop /\ expired => pc' = "idle" \/ RecvsLeft' < RecvsLeft]_vars
  BY <1>1
<1> QED BY <1>2, AddressedAlways, PTL DEF Spec, RecvLoopEnds
=============================================================================
