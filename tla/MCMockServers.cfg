SPECIFICATION Spec
CONSTANTS
    s1 = s1
    s2 = s2
    k1 = k1
    k2 = k2
    k3 = k3
    p1 = p1
    AnyPort = AnyPort
    NoStart = NoStart
    Servers <- TwoServers
    Starts <- ThreeStarts
    Ports = {p1}
SYMMETRY Symmetry
INVARIANTS
    RunningIsListening
PROPERTIES
    OnlyRacesStrand
