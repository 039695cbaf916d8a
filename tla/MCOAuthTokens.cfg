SPECIFICATION Spec
CONSTANTS
    s1 = s1
    s2 = s2
    a1 = a1
    a2 = a2
    Sends <- TwoSends
    SignIns <- TwoSignIns
    MaxTokens = 3
SYMMETRY Symmetry
INVARIANTS
    ExpiryIsOfToken
    GoneLeavesNoToken
PROPERTIES
    OnlyOvertakenForgets
