----------------------------- MODULE MCTcpDns -------------------------------
(***************************************************************************)
(* Byte strings for the TcpDns_*.cfg files: in base 2 a length prefix      *)
(* holds 0..3, so the queries of length 4 and 5 do not fit.                *)
(***************************************************************************)
EXTENDS TcpDns

Strings(n) == UNION {[1..k -> Bytes] : k \in 0..n}
MCQueries == Strings(2) \cup {<<1, 0, 1>>, <<1, 1, 0, 1>>, <<0, 1, 1, 0, 1>>}
MCBodies == {<<>>, <<1>>, <<1, 0>>, <<0, 1, 1>>}
=============================================================================
