SPECIFICATION Spec
CONSTANTS
    u1 = u1  u2 = u2
    User = {u1, u2}
    localuser = u1
    NULL = NULL
    MaxTexts = 3
    MaxTrips = 1
INVARIANTS
    PreviousDeleted
CHECK_DEADLOCK FALSE
