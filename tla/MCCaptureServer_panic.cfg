SPECIFICATION Spec
CONSTANTS
    Devices = {d1}
    Ports = {p1}
    Calls = {g1}
    Conns = {c1}
    None = None
\* A server may be stopped for good, and Calls and Conns are used up.
CHECK_DEADLOCK FALSE
INVARIANTS
    NoNilDereference
