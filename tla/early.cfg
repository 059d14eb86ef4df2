CONSTANTS
    FreePlaces = {p1}
    FreeSizes = {s1}
    AnimSteps = 2
    SnapOnMap = FALSE
SPECIFICATION Spec
INVARIANT EarlyRequestIsRecorded
CHECK_DEADLOCK FALSE
