----------------------------- MODULE MCUdpQuery -----------------------------
(***************************************************************************)
(* The instance of UdpQuery that the UdpQuery_*.cfg files check.  With     *)
(* one-octet IPv4 and two-octet IPv6 addresses, the IPv6 peer begins with  *)
(* the octet of an IPv4 one, and a host shares an address but not a port   *)
(* with a peer.  Port 1 and port 2 are each other's byte swap.             *)
(***************************************************************************)
EXTENDS UdpQuery, TLC

V4(o, p) == [ip |-> [v4 |-> TRUE, octets |-> <<o>>], port |-> p]
V6(o1, o2, p) == [ip |-> [v4 |-> FALSE, octets |-> <<o1, o2>>], port |-> p]

MCPeers == {V4(0, 1), V4(1, 1), V6(1, 0, 1)}
MCHosts == MCPeers \cup {V4(1, 2), V6(1, 1, 1)}

Symmetry == Permutations(Ports)
=============================================================================
