SPECIFICATION FairSpec
CONSTANTS
    MaxWs = 4
    MaxCrashes = 2
INVARIANTS
    AtMostOneActive
PROPERTIES
    OnlyStaleSwitchDeactivates
    RecoversActive
