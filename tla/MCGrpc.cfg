SPECIFICATION Spec
CONSTANTS
    Services = {"greet", "chat", "watch"}
    Files = {"g", "c", "r", "w"}
    Declares <- DeclaresIn
    Imports <- ImportsIn
    KindOf <- Kind
    Ends <- EndsIn
    Undecodable = {3}
    Links <- SomeLinks
    MaxRequests = 2
INVARIANTS
    DiscoveryIsComplete
    VerdictIsTheServers
    ResponsesInOrder
    SentCallSeesVerdict
PROPERTIES
    KeepsContract
    CallEnds
CHECK_DEADLOCK FALSE
