SPECIFICATION Spec
CONSTANTS
    InOrder = TRUE
    IsNormal = TRUE
    MayUpdate = TRUE
    MayRefresh = TRUE
    MaxVersion = 2
    MaxInbox = 2
    MaxLost = 0
    MaxFaults = 0
INVARIANTS
    AlteredCircuitIsAuthorized
