SPECIFICATION Spec
CONSTANTS
    Sessions = {s1, s2}
    MaxPid = 2
    User = User
    None = None
\* The calls of startCapture are used up, and nobody has to press a button.
CHECK_DEADLOCK FALSE
SYMMETRY Symmetry
INVARIANTS
    StopEndsCapture
