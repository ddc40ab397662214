SPECIFICATION Spec
CONSTANTS
    NotifyIds = {1, 2}
    Sessions = {s1, s2}
    Waiters = {w1, w2}
    OpKinds = {"accept", "recv_from", "try_recv_from"}
    MaxRx = 1
    MaxTx = 0
    CurrentThread = TRUE
SYMMETRY Symmetry
INVARIANT LeakOnlyByConnect
PROPERTY ImplementsSignals
CHECK_DEADLOCK FALSE
