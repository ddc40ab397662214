SPECIFICATION Spec
CONSTANTS
    NotifyIds = {1, 2}
    Sessions = {s1}
    Waiters = {w1, w2}
    OpKinds = {"read", "write_all", "poll_read", "connect_async", "poll_shutdown"}
    MaxRx = 2
    MaxTx = 1
    CurrentThread = FALSE
SYMMETRY Symmetry
INVARIANTS TypeOK WaitersReachable TickerOutlivesSockets
PROPERTY TickWakes
CHECK_DEADLOCK FALSE
