CONSTANTS
    FreePlaces = {p1}
    FreeSizes = {s1}
    AnimSteps = 2
    SnapOnMap = FALSE
SPECIFICATION HSpec
INVARIANT SnapRestoreIsNoTile
CHECK_DEADLOCK FALSE
