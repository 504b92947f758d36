SPECIFICATION AuthorizationSpec
CONSTANTS
    None = None
    Auths = {"a1", "a2"}
    MaxOpen = 2
INVARIANT OnlyTheConfirmedIsAnswered
CHECK_DEADLOCK FALSE
