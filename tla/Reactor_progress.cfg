SPECIFICATION FairSpec
CONSTANTS
    NotifyIds = {1}
    Sessions = {s1}
    Waiters = {w1, w2}
    OpKinds = {"wait_readable", "send_to", "poll_read", "read", "connect_async", "poll_shutdown"}
    MaxRx = 1
    MaxTx = 1
    CurrentThread = TRUE
PROPERTY NoStall
CHECK_DEADLOCK FALSE
