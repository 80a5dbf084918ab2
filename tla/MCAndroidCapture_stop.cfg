SPECIFICATION Spec
CONSTANTS
    Apps = {a1}
    Calls = {g1, g2}
    Conns = {c1}
    MaxPid = 1
    None = None
SYMMETRY Symmetry
\* The calls are used up, and the apps need not run.
CHECK_DEADLOCK FALSE
INVARIANTS
    ListenersAreReleased
