SPECIFICATION Spec
CONSTANTS
    Handles = {h1, h2, h3, h4}
    Sockets = {k1, k2}
    Ports = {1, 2, 3}
    Tries = 2
    Window = 2
SYMMETRY Symmetry
INVARIANT ClosedOnce
