CONSTANTS
    FreePlaces = {p1}
    FreeSizes = {s1}
    AnimSteps = 2
    SnapOnMap = FALSE
SPECIFICATION HSpec
PROPERTY FramesLeaveMaximized
CHECK_DEADLOCK FALSE
