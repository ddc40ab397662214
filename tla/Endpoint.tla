------------------------------ MODULE Endpoint ------------------------------
(***************************************************************************)
(* The address marshalling of src/src/session.rs: endpoint_into_buf builds *)
(* the vppcom_endpt_t libvppcom reads, addr_from_endpoint reads the one it *)
(* fills.  Operators named Bug... are faults of the code, used only to     *)
(* show that a property would notice them.                                 *)
(***************************************************************************)
EXTENDS Integers, Sequences

CONSTANTS
    Base,       \* values of a byte (256)
    V4Len,      \* octets of an IPv4 address (4)
    BufLen      \* octets of ip_buf and of an IPv6 address (16)

ASSUME EndpointAssumption ==
    /\ Base \in Nat \ {0, 1}
    /\ V4Len \in Nat \ {0} /\ BufLen \in Nat /\ V4Len < BufLen

Octet == 0..Base-1
IpAddrs == [v4 : {TRUE}, octets : [1..V4Len -> Octet]]
             \cup [v4 : {FALSE}, octets : [1..BufLen -> Octet]]
SocketAddrs == [ip : IpAddrs, port : 0..Base*Base-1]
Bufs == [1..BufLen -> Octet]
ZeroBuf == [i \in 1..BufLen |-> 0]

(* u16::to_be and u16::from_be on a little-endian host: the bytes change     *)
(* places.                                                                   *)
ToBe(p) == (p % Base) * Base + p \div Base
FromBe(p) == (p % Base) * Base + p \div Base

(* endpoint_into_buf: an IPv4 address overwrites only the prefix of ip_buf.  *)
BugEndpointIntoBuf(addr, buf) ==
    [is_ip4 |-> addr.ip.v4,
     ip |-> [i \in 1..BufLen |-> IF addr.ip.v4 /\ i > V4Len THEN buf[i] ELSE addr.ip.octets[i]],
     port |-> addr.port]

EndpointIntoBuf(addr, buf) ==
    [is_ip4 |-> addr.ip.v4,
     ip |-> [i \in 1..BufLen |-> IF addr.ip.v4 /\ i > V4Len THEN buf[i] ELSE addr.ip.octets[i]],
     port |-> ToBe(addr.port)]

(* addr_from_endpoint: is_ip4 says how much of the buffer is the address.    *)
AddrFromEndpoint(ep) ==
    [ip |-> [v4 |-> ep.is_ip4,
             octets |-> [i \in 1..(IF ep.is_ip4 THEN V4Len ELSE BufLen) |-> ep.ip[i]]],
     port |-> FromBe(ep.port)]

(* What libvppcom takes an endpoint for, and how it fills one (external):    *)
(* the port field holds the port in network byte order.                      *)
VppReads(ep) ==
    [ip |-> [v4 |-> ep.is_ip4,
             octets |-> IF ep.is_ip4 THEN [i \in 1..V4Len |-> ep.ip[i]] ELSE ep.ip],
     port |-> (ep.port % Base) * Base + ep.port \div Base]

VppFills(addr, buf) ==
    [is_ip4 |-> addr.ip.v4,
     ip |-> [i \in 1..BufLen |-> IF addr.ip.v4 /\ i > V4Len THEN buf[i] ELSE addr.ip.octets[i]],
     port |-> (addr.port % Base) * Base + addr.port \div Base]
=============================================================================
