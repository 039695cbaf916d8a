SPECIFICATION CertSpec
CONSTANTS
    MaxSaves = 3
INVARIANTS
    MaskIsBacked
PROPERTIES
    SendsWhatTheRowSays
