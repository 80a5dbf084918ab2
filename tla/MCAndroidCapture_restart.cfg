SPECIFICATION FairSpec
CONSTANTS
    Apps = {a1}
    Calls = {g1}
    Conns = {c1}
    MaxPid = 3
    None = None
\* The calls are used up, and the apps need not run.
CHECK_DEADLOCK FALSE
PROPERTIES
    SwitchesFollowTheAgent
    
