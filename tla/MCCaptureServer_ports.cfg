SPECIFICATION Spec
CONSTANTS
    Devices = {d1, d2}
    Ports = {p1, p2}
    Calls = {g1, g2}
    Conns = {c1}
    None = None
\* A server may be stopped for good, and Calls and Conns are used up.
CHECK_DEADLOCK FALSE
SYMMETRY Symmetry
INVARIANTS
    TypeOK
    Inv
    RunningServersListen
    RunningServersAreServed
PROPERTIES
    ImplementsPortOwnership
