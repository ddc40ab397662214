SPECIFICATION FairSpec
CONSTANTS
    Base = 2
    Queries <- MCQueries
    Bodies <- MCBodies
    PortDraws = 2
INVARIANTS TypeOK ServerGetsQuery BodyExact HandlesClosed
PROPERTIES Returns DeadlineBinds Answered ClosedEnds ImplementsExchange
CHECK_DEADLOCK FALSE
