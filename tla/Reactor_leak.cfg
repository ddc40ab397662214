SPECIFICATION Spec
CONSTANTS
    NotifyIds = {1}
    Sessions = {s1}
    Waiters = {w1, w2}
    OpKinds = {"connect_async"}
    MaxRx = 1
    MaxTx = 1
    CurrentThread = TRUE
INVARIANT NoWaiterLeak
CHECK_DEADLOCK FALSE
