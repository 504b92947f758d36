SPECIFICATION EditorSpec
CONSTANTS
    Kinds = {"New_Request","Domain","Accept_Automatically"}
    Ids = {i1, i2, i3}
    i1 = i1
    i2 = i2
    i3 = i3
    None = None
SYMMETRY EditorSymmetry
INVARIANT ListsAgree WorkflowsEnd SavedIsWhole
PROPERTY LoadRestores
CHECK_DEADLOCK FALSE
