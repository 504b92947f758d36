SPECIFICATION Spec
CONSTANTS
    InOrder = FALSE
    IsNormal = TRUE
    MayUpdate = FALSE
    MayRefresh = TRUE
    MaxVersion = 1
    MaxInbox = 3
    MaxLost = 2
    MaxFaults = 1
PROPERTIES
    ReadingHealsTheRow
