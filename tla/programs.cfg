\* Each of the programs, one at a time.
SPECIFICATION Spec
CONSTANTS
    Absent = Absent
    MinuteValues = {1}
    HourValues = {0}
    DayValues = {0, 2}
    MonthValues = {0, 1}
    WeekDays <- MCWeekDays
    MaxTasks = 2
    MaxRanKeys = 2
    MaxMinute = 2
    MaxEdits = 2
    FileDirs = {"a", "b"}
    Bases = {"x"}
    Copies = {1, 2}
    AtFirst <- MCAtFirst
    MaxJobs = 4
    Partial <- MCPartial
    Watched = {"home"}
    Deep = {"deep"}
    FileNames = {"a", "c"}
    Words = {"a", "b"}
    Queries <- MCQueries
    MaxTreeChanges = 2
    MonthStarts <- MCMonthStarts
    WeekLength = 2
    GridCells = 4
    MinutesADay = 1
    MaxEventId = 2
    MaxEvents = 2
    MaxTyped = 3
    PtyRoom = 1
    MaxPrinted = 3
    PadPages = {"html", "txt"}
    HtmlPages = {"html"}
    PaintImages = {"png"}
    StickyNotes = {"n"}
    MaxDocChanges = 2
    Folders = {"/", "/h", "/h/a"}
    Parent <- MCParent
    HomeFolder = "/h"
    PlainFile = "file"
    MaxVisited = 3
    FieldLengths = {0, 3}
    MinuteHalves = 4
    DayMinutes = 1
    MaxAlarms = 2
    MaxNow = 7
    AppKinds <- MCAppKinds
    DesktopApps = {"a", "b"}
    MaxListed = 1
    MaxBrightness = 3
    SliderPositions = {0, 60}
    MaxOutside = 1
    NetDevices <- MCNetDevices
    Conns = {"c1", "c2"}
    MaxNetEvents = 4
    Hosts = {"h", "bad"}
    BadHosts = {"bad"}
    BlankField = "blank"
    ShotWidth = 3
    ShotHeight = 2
    Drags <- MCDrags
    LeastSide = 2
    ShotViews <- MCShotViews
    TitleHeight = 1
    Countdown = 2
    MaxPolls = 1
    ViewerFiles <- MCViewerFiles
    PageSide = 8
    ViewSide = 4
    StoreIds <- MCStoreIds
    MaxInstalls = 1
    Keymaps = {"us", "de"}
    MaxLost = 1
    NumberKeys = {0, 2}
    OperatorKeys = {"+", "/"}
    MaxPressed = 6
INVARIANTS
    EditKeepsSchedule
    FilesAreSafe
    SearchIsCurrent
    CalendarIsCurrent
    TerminalIsTransparent
    DocumentsAreTheirFiles
    TimesAreTrue
    PagesTellTheTruth
    SessionCanBeEnded
    ShownIsTheValue
    ToolsDoAsAsked
PROPERTIES
    OncePerMinute
    HistoryIsKept
\* Programs are closed, and stop at the bounds on what is done with them.
CHECK_DEADLOCK FALSE
