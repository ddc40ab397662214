SPECIFICATION Spec
CONSTANTS
    Pool = {p1, p2}
    Main = main
    N = 2
    MaxInits = 1
SYMMETRY Symmetry
INVARIANT SessionHasWorker
CHECK_DEADLOCK FALSE
