------------------------------- MODULE Notify -------------------------------
(***************************************************************************)
(* tokio::sync::Notify as src/reactor.rs uses it (external: modelled from  *)
(* the calls notify_one(), notified() and the drop of a Notified future).  *)
(*                                                                         *)
(* A Notify holds at most one permit and a FIFO of parked futures.  The    *)
(* FIFO is kept as "who is ahead of me": ahead[w] is the set of waiters    *)
(* that were parked on the same Notify before w and are parked still.      *)
(***************************************************************************)
EXTENDS Integers, FiniteSets

CONSTANTS
    Waiters,    \* the futures that may call wait_event
    NotifyIds   \* the identities of the Notify objects

NoNotify == 0

ASSUME NotifyAssumption ==
    /\ IsFiniteSet(Waiters)
    /\ NotifyIds \subseteq Nat \ {NoNotify}

VARIABLES
    permit,     \* [NotifyIds -> BOOLEAN]: a stored notify_one()
    held,       \* the Arc<Notify> each waiter's wait_event has cloned
    queued,     \* waiters whose Notified future is parked, not yet signalled
    notified,   \* waiters whose parked Notified future has been signalled
    ahead       \* [Waiters -> SUBSET Waiters]: FIFO order of the parked

notifyVars == <<permit, held, queued, notified, ahead>>

NotifyInit ==
    /\ permit = [n \in NotifyIds |-> FALSE]
    /\ held = [w \in Waiters |-> NoNotify]
    /\ queued = {}
    /\ notified = {}
    /\ ahead = [w \in Waiters |-> {}]

NotifyTypeOK ==
    /\ permit \in [NotifyIds -> BOOLEAN]
    /\ held \in [Waiters -> NotifyIds \cup {NoNotify}]
    /\ queued \subseteq Waiters
    /\ notified \subseteq Waiters
    /\ ahead \in [Waiters -> SUBSET Waiters]

Queue(n) == {w \in queued : held[w] = n}

(* notify_one() called k[n] times on every Notify n: each call signals the  *)
(* waiter at the head of n's FIFO, or leaves a permit if nobody is parked.  *)
Woken(k) == {w \in queued : Cardinality(ahead[w]) < k[held[w]]}

NotifyEach(k) ==
    /\ permit' = [n \in NotifyIds |-> permit[n] \/ Cardinality(Queue(n)) < k[n]]
    /\ queued' = queued \ Woken(k)
    /\ notified' = notified \cup Woken(k)
    /\ ahead' = [w \in Waiters |-> ahead[w] \ Woken(k)]

(* The first poll of notified() that finds a permit takes it.               *)
TakePermit(w) ==
    /\ permit[held[w]]
    /\ permit' = [permit EXCEPT ![held[w]] = FALSE]
    /\ UNCHANGED <<queued, notified, ahead>>

(* The first poll of notified() that finds none parks at the back.          *)
Enqueue(w) ==
    /\ ~permit[held[w]]
    /\ queued' = queued \cup {w}
    /\ ahead' = [ahead EXCEPT ![w] = Queue(held[w])]
    /\ UNCHANGED <<permit, notified>>

(* A later poll that finds the future signalled completes it.               *)
TakeNotified(w) ==
    /\ w \in notified
    /\ notified' = notified \ {w}
    /\ UNCHANGED <<permit, queued, ahead>>

(* Dropping a Notified future: an unsignalled one leaves the FIFO; a        *)
(* signalled one that was never completed passes the signal on.             *)
DropNotified(w) ==
    LET next == {v \in Queue(held[w]) : ahead[v] = {}}
    IN  IF w \in notified
        THEN /\ permit' = [permit EXCEPT ![held[w]] = @ \/ next = {}]
             /\ queued' = queued \ next
             /\ notified' = (notified \ {w}) \cup next
             /\ ahead' = [v \in Waiters |-> ahead[v] \ next]
        ELSE /\ queued' = queued \ {w}
             /\ ahead' = [v \in Waiters |-> IF v = w THEN {} ELSE ahead[v] \ {w}]
             /\ UNCHANGED <<permit, notified>>

(* Dropping all the futures of a set that shares its Notify with nobody     *)
(* else: whatever they had been signalled goes with the Notify.             *)
DropAll(S) ==
    /\ queued' = queued \ S
    /\ notified' = notified \ S
    /\ ahead' = [v \in Waiters |-> IF v \in S THEN {} ELSE ahead[v] \ S]
    /\ UNCHANGED permit
=============================================================================
