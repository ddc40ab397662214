SPECIFICATION FairSpec
CONSTANTS
    Handles = {h1, h2, h3}
    Sockets = {k1, k2}
    Ports = {1, 2}
    Tries = 2
    Window = 1
INVARIANTS TypeOK NoHandleLeak SocketsLive
PROPERTIES BindReturns StepsWindDown
