---------------------------- MODULE WaitSignals -----------------------------
(***************************************************************************)
(* What VclReactor promises to the operations that wait on it, in terms of *)
(* sessions and waits alone.  A signal for a session is handed to one of   *)
(* its waits or kept for the next one.  It is used up by exactly one wait, *)
(* of that session, which returns Ok; a wait that ends otherwise, or goes  *)
(* round again, hands its signal to another wait or leaves it with the     *)
(* session.  Only dropping the socket loses a signal.  Every sweep of the  *)
(* periodic task leaves a signal with each live session somebody waits on. *)
(* A handle is reused with whatever signal its last use left behind.       *)
(*                                                                         *)
(* Reactor is shown to implement this with its map of Arc<Notify>.         *)
(***************************************************************************)
CONSTANTS Sessions, Waiters

VARIABLES
    live,       \* the sessions of sockets and pending connects
    waits,      \* [Sessions -> SUBSET Waiters]: the waits on each session
    woken,      \* the waits that have been handed a signal
    kept,       \* the sessions that keep a signal for the next wait
    due         \* the periodic task has yet to sweep

vars == <<live, waits, woken, kept, due>>

Init ==
    /\ live = {} /\ waits = [s \in Sessions |-> {}]
    /\ woken = {} /\ kept = {} /\ due = FALSE

Open(s) ==
    /\ s \notin live /\ waits[s] = {}
    /\ live' = live \cup {s}
    /\ UNCHANGED <<waits, woken, kept, due>>

Enter(w, s) ==
    /\ s \in live /\ \A r \in Sessions : w \notin waits[r]
    /\ waits' = [waits EXCEPT ![s] = @ \cup {w}]
    /\ UNCHANGED <<live, woken, kept, due>>

(* Events are drained, at any time and for any sessions.                     *)
Signal ==
    /\ UNCHANGED <<live, waits>>
    /\ \E W \in SUBSET UNION {waits[s] : s \in live} : woken' = woken \cup W
    /\ \E K \in SUBSET Sessions : kept' = kept \cup K

Drain == Signal /\ due' \in {due, TRUE}

Sweep ==
    /\ due /\ due' = FALSE
    /\ Signal
    /\ \A s \in live : waits[s] # {} => s \in kept' \/ waits[s] \cap woken' # {}

Leave(w, s) ==
    /\ w \in waits[s]
    /\ waits' = [waits EXCEPT ![s] = @ \ {w}]

Ok(w, s) ==
    /\ s \in live /\ Leave(w, s)
    /\ \/ w \in woken /\ woken' = woken \ {w} /\ UNCHANGED kept
       \/ w \notin woken /\ s \in kept /\ kept' = kept \ {s} /\ UNCHANGED woken
    /\ UNCHANGED <<live, due>>

(* w lets go of what it has been handed.                                     *)
HandOn(w, s) ==
    \/ w \notin woken /\ UNCHANGED <<woken, kept>>
    \/ /\ w \in woken /\ UNCHANGED kept
       /\ \E v \in waits[s] \ woken : woken' = (woken \ {w}) \cup {v}
    \/ w \in woken /\ woken' = woken \ {w} /\ kept' = kept \cup {s}

GoRound(w, s) ==
    /\ s \in live /\ w \in waits[s]
    /\ HandOn(w, s)
    /\ UNCHANGED <<live, waits, due>>

GiveUp(w, s) ==
    /\ s \in live /\ Leave(w, s)
    /\ HandOn(w, s)
    /\ live' = live \/ (waits[s] = {w} /\ live' = live \ {s})
    /\ UNCHANGED due

(* A dropped socket: its signal goes, then the waits it still had.           *)
Drop(s) ==
    /\ s \in live
    /\ live' = live \ {s} /\ kept' = kept \ {s}
    /\ UNCHANGED <<waits, woken, due>>

Close(s) ==
    /\ s \notin live
    /\ waits' = [waits EXCEPT ![s] = {}] /\ woken' = woken \ waits[s]
    /\ UNCHANGED <<live, kept, due>>

Next ==
    \/ Drain \/ Sweep
    \/ \E s \in Sessions :
          \/ Open(s) \/ Drop(s) \/ Close(s)
          \/ \E w \in Waiters : Enter(w, s) \/ Ok(w, s) \/ GoRound(w, s) \/ GiveUp(w, s)

Spec == Init /\ [][Next]_vars
=============================================================================
