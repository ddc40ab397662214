SPECIFICATION ConnectSpec
CONSTANTS
    Pool = {p1, p2}
    Main = main
    N = 2
    MaxInits = 1
    Others = {other}
    Calls = {c1}
    Slots = {1}
SYMMETRY Symmetry
INVARIANT SessionOpsOnOwner
CHECK_DEADLOCK FALSE
