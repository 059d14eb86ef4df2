\* Each of the components that run with the session, one at a time.
SPECIFICATION Spec
CONSTANTS
    OutputNames = {"o1", "o2"}
    Panels = {"bar"}
    Widths = {8}
    Heights = {6}
    DefaultWidth = 4
    DefaultHeight = 4
    Scales = {2}
    Places = {3}
    Zone = 1
    FrameLimit = 2
    MaxRequests = 2
    Lockers = {"c1", "c2"}
    Nobody = "nobody"
    MaxTyped = 1
    Programs = {"p"}
    Paths = {1, 2}
    MaxInbox = 3
    MaxHistory = 1
    MaxEntries = 3
    Contents = {1, 2, 3, 4}
    MaxNotes = 2
    Nothing = 0
INVARIANTS
    UsableIsCurrent
    LockIsReleased
    TrayIsCurrent
    HistoryFollowsClipboard
PROPERTIES
    BackgroundCatchesUp
    PopupEnds
    PlaybackEnds
    DriversStop
\* The recorder, the audio pages and the lists stop at their bounds.
CHECK_DEADLOCK FALSE
