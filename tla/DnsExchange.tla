---------------------------- MODULE DnsExchange -----------------------------
(***************************************************************************)
(* What a TCP DNS client promises, whatever happens below it: the server   *)
(* hears the query at most once and unaltered, answers at most once, and   *)
(* the call ends with exactly that answer or with an error.  TcpDns is     *)
(* shown to implement this for query_tcp_dns_sync and query_tcp_dns_async. *)
(***************************************************************************)
CONSTANTS Queries, Bodies

VARIABLES
    query,      \* what the caller asks
    heard,      \* set holding the message the server has received, if any
    served,     \* set holding its answer, if any
    result,     \* set holding the body returned, if any
    call        \* "running", "ok" or "failed"

vars == <<query, heard, served, result, call>>

Init ==
    /\ query \in Queries
    /\ heard = {} /\ served = {} /\ result = {} /\ call = "running"

Hear ==
    /\ call = "running" /\ heard = {}
    /\ heard' = {query}
    /\ UNCHANGED <<query, served, result, call>>

Serve ==
    /\ call = "running" /\ heard # {} /\ served = {}
    /\ \E b \in Bodies : served' = {b}
    /\ UNCHANGED <<query, heard, result, call>>

Succeed ==
    /\ call = "running" /\ served \notin {{}, {<<>>}}
    /\ call' = "ok" /\ result' = served
    /\ UNCHANGED <<query, heard, served>>

Fail ==
    /\ call = "running" /\ call' = "failed"
    /\ UNCHANGED <<query, heard, served, result>>

Next == Hear \/ Serve \/ Succeed \/ Fail

Spec == Init /\ [][Next]_vars
=============================================================================
