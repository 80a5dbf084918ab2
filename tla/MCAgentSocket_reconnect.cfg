SPECIFICATION FairSpec
CONSTANTS
    MaxMessages = 1
    MaxQueue = 1
    Sockets = {k1, k2}
    None = None
PROPERTIES
    ReconnectsWithoutMessage
