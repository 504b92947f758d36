SPECIFICATION Spec
CONSTANTS
    NumDomains = 2
    Known = {1,2}
    Nodes <- MCNodes
    Kind <- MCKind
    Yes <- MCYes
    No <- MCNo
    Manager <- MCManager
    Start <- MCStart
    Policy <- MCPolicy
    Requester = "req"
    Workers = {w1, w2}
    Ids = {i1, i2, i3}
    MaxRequests = 3
SYMMETRY Symmetry
CHECK_DEADLOCK FALSE
INVARIANTS
    VerdictIsAnswered
PROPERTIES
    SerialImplements
