------------------------------ MODULE ErrorMap ------------------------------
(***************************************************************************)
(* src/src/error.rs: how the return code of a libvppcom call becomes a     *)
(* VclError, and which of those the retry loops wait for.  Operators named *)
(* Bug... are faults of the code, used only to show that a property would  *)
(* notice them.                                                            *)
(***************************************************************************)
EXTENDS Integers

(* libc's numbers on Linux; EWOULDBLOCK is EAGAIN there.                     *)
EAGAIN == 11
EPIPE == 32
ECONNRESET == 104
ENOTCONN == 107
ECONNREFUSED == 111
EINPROGRESS == 115

VclErrors == {"Api", "Closed", "NotConnected", "WouldBlock", "Timeout"}

(* VclError::from_rc.                                                        *)
BugFromRc(rc) ==
    CASE rc \in {-EAGAIN, -EINPROGRESS} -> "WouldBlock"
      [] rc \in {-ENOTCONN, -ECONNRESET, -EPIPE} -> "Closed"
      [] OTHER -> "Api"

BugFromRcSpin(rc) ==
    CASE rc \in {-EAGAIN, -EINPROGRESS, -EPIPE} -> "WouldBlock"
      [] rc = -ENOTCONN -> "NotConnected"
      [] rc = -ECONNRESET -> "Closed"
      [] OTHER -> "Api"

FromRc(rc) ==
    CASE rc \in {-EAGAIN, -EINPROGRESS} -> "WouldBlock"
      [] rc = -ENOTCONN -> "NotConnected"
      [] rc \in {-ECONNRESET, -EPIPE} -> "Closed"
      [] OTHER -> "Api"

(* What read, write_all, poll_read, poll_write and query_tcp_dns_sync wait   *)
(* for instead of returning.                                                 *)
Retryable(rc) == rc < 0 /\ FromRc(rc) \in {"WouldBlock", "NotConnected"}
Fatal(rc) == rc < 0 /\ ~Retryable(rc)
=============================================================================
