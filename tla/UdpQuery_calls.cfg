SPECIFICATION FairSpec
CONSTANTS
    Base = 2
    V4Len = 1
    BufLen = 2
    Peers <- MCPeers
    Hosts <- MCHosts
    Ports = {q1, q2}
    MaxQueries = 2
    MaxFifo = 2
    MaxDeliveries = 3
INVARIANTS TypeOK AnswerFromPeer AddressesExact OneShotFresh
PROPERTIES ReadyAnswerTaken RecvLoopEnds QueryReturns
CHECK_DEADLOCK FALSE
