\* Each of the parts, one at a time.
SPECIFICATION Spec
CONSTANTS
    XIds = {"x1", "x2"}
    Resizable = {"x1"}
    Desks = {0, 1}
    Native = "native"
    Empty = "empty"
    Keyboards = {"k1", "k2"}
    Pointers = {"p1"}
    Versions = {0, 1}
    Virtual = "virtual"
    NoKeyboard = "none"
    Screens = {"o1", "o2"}
    NightDay = 6
    NightWindows <- TwoNights
    Temps = {3, 4}
    DisplayPrograms = {"settings", "control"}
    OutputList <- TwoOutputs
    Offered <- MonitorOffers
    Common <- TwoModes
    Scales = {200}
    Places = {3}
    MaxSettings = 1
    NumWindows = 2
    Blank = ""
    Titles = {"t"}
    MaxWire = 3
    MaxAsked = 1
    MaxTitles = 1
    TitleLetters = {"a", "b"}
    MaxPattern = 3
    RulePrograms = {"settings"}
    MaxBusy = 2
    MaxSaves = 2
    MaxEdits = 1
INVARIANTS
    XWindowsAreConsistent
    InputIsConsistent
    LightIsRecent
    UntouchedApplyKeeps
    TaskbarIsCurrent
    WordsAreUnderstood
PROPERTIES
    SaveIsExact
\* Saves and windows stop at their bounds; a reader reads once.
CHECK_DEADLOCK FALSE
