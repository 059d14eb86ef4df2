CONSTANTS
    FreePlaces = {p1, p2}
    FreeSizes = {s1, s2}
    AnimSteps = 2
    SnapOnMap = TRUE
SPECIFICATION HSpec
CONSTRAINT Unhurried
INVARIANT RestorePointIsHome
PROPERTY LeavingLayoutGoesHome
CHECK_DEADLOCK FALSE
