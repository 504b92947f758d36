SPECIFICATION Spec
CONSTANTS
    NumDomains = 3
    Known = {1,2,3}
    Nodes <- MCNodes
    Kind <- MCKind
    Yes <- MCYesRequesterFirst
    No <- MCNo
    Manager <- MCManager
    Start <- MCStart
    Policy <- MCPolicy
    Requester = "req"
    LateAnswers = FALSE
    MayDisable = FALSE
INVARIANTS
    AuthorizedByAll
