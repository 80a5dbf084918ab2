SPECIFICATION FairSpec
CONSTANTS
    Sessions = {s1, s2}
    MaxPid = 2
    User = User
    None = None
\* The calls of startCapture are used up, and nobody has to press a button.
CHECK_DEADLOCK FALSE
INVARIANTS
    TypeOK
    SessionsAreRegistered
    WatchersAreRegistered
    MarkerFollowsTail
PROPERTIES
    StopsReturn
