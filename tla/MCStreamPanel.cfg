SPECIFICATION FairPanelSpec
CONSTANTS
    c1 = c1
    c2 = c2
    Conn = {c1, c2}
    NoConn = NoConn
    Protocol <- Panel
    MaxMessages = 0
    MaxSends = 0
INVARIANTS
    RacesBoundLeaks
PROPERTIES
    ClosingStops
CHECK_DEADLOCK FALSE
