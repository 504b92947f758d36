SPECIFICATION FairSpec
CONSTANTS
    InOrder = TRUE
    IsNormal = TRUE
    MayUpdate = TRUE
    MayRefresh = TRUE
    MaxVersion = 2
    MaxInbox = 2
    MaxLost = 0
    MaxFaults = 1
INVARIANTS
    TypeOK
    ProvisionNeedsApproval
    RowTellsTheTruth
    CommittedVersionIsRead
    CancelledStaysCancelled
PROPERTIES
    VersionNeverDecreases
    CancelIsConfirmed
    AuthorizedIsProvisioned
