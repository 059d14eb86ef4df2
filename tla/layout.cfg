CONSTANTS
    FreePlaces = {p1}
    FreeSizes = {s1}
    AnimSteps = 2
    SnapOnMap = FALSE
SPECIFICATION Spec
INVARIANTS
    TypeOK
    RestoreAgreesWithLayout
    PendingIsWanted
    OnlyMappedIsDriven
PROPERTY AnimationEnds
CHECK_DEADLOCK FALSE
