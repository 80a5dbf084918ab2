SPECIFICATION FairSpec
CONSTANTS
    MaxMessages = 4
    MaxQueue = 2
    Sockets = {k1, k2}
    None = None
INVARIANTS
    TypeOK
    QueueBounded
    SentInOrder
    NothingVanishes
PROPERTIES
    BacklogIsDelivered
