SPECIFICATION ReservationSpec
CONSTANTS
    None = None
    Sites = {"A"}
    MaxPoints = 2
    MaxClicks = 3
    MaxAsked = 3
INVARIANT PostedPathIsFilled
CHECK_DEADLOCK FALSE
