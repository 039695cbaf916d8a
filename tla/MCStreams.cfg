SPECIFICATION FairSpec
CONSTANTS
    c1 = c1
    c2 = c2
    Conn = {c1, c2}
    Protocol <- Sending
    MaxMessages = 1
    MaxSends = 3
INVARIANTS
    LiveTaskIsReachable
    SendOrder
    EndIsAnnounced
PROPERTIES
    ImplementsChannel
    EndedLeavesRegistry
CHECK_DEADLOCK FALSE
