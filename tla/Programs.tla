------------------------------- MODULE Programs -------------------------------
(***************************************************************************)
(* The programs of the desktop, other than those that wait for the audio   *)
(* service (Services): the tasks, the file manager, the trash and the      *)
(* search, the calendar, the terminal, the documents of the word pad, the  *)
(* paint program and the sticky notes, the clock, the pages of the         *)
(* settings and of the control panel, the remote desktop, the screenshots, *)
(* the viewer, the software centre, the on-screen keyboard and the         *)
(* calculator.                                                             *)
(*                                                                         *)
(* As in CompositorParts a behaviour runs one of them.  Programs that      *)
(* share a file or a service (the two that change settings, the file       *)
(* manager and the trash, the tasks' window and their daemon) are in one   *)
(* module and run together.                                                *)
(***************************************************************************)
EXTENDS Integers, Sequences

CONSTANTS
    Absent,                                        \* no file, no program, no connection
    MinuteValues, HourValues, DayValues, MonthValues, WeekDays, MaxTasks, MaxRanKeys,
    MaxMinute, MaxEdits,                           \* Tasks
    FileDirs, Bases, Copies, AtFirst, MaxJobs, Partial,               \* Files
    Watched, Deep, FileNames, Words, Queries, MaxTreeChanges,         \* FileSearch
    MonthStarts, WeekLength, GridCells, MinutesADay, MaxEventId, MaxEvents,  \* Calendar
    MaxTyped, PtyRoom, MaxPrinted,                                    \* Terminal
    PadPages, HtmlPages, PaintImages, StickyNotes, MaxDocChanges,     \* Documents
    Folders, Parent, HomeFolder, PlainFile, MaxVisited,               \* Explorer
    FieldLengths, MinuteHalves, DayMinutes, MaxAlarms, MaxNow,        \* Clock
    AppKinds, DesktopApps, MaxListed,              \* DefaultApps
    MaxBrightness, SliderPositions, MaxOutside,    \* SystemPages
    NetDevices, Conns, MaxNetEvents,               \* NetworkPage
    Hosts, BadHosts, BlankField,                   \* RemoteDesktop
    ShotWidth, ShotHeight, Drags, LeastSide, ShotViews, TitleHeight, Countdown, MaxPolls,
                                                   \* Screenshot
    ViewerFiles, PageSide, ViewSide,               \* Viewer
    StoreIds, MaxInstalls,                         \* Store
    Keymaps, MaxLost,                              \* ScreenKeyboard
    NumberKeys, OperatorKeys, MaxPressed           \* Calculator

\* What the dialog's controls may be set to: a time of the day, a day and a month of
\* which 0 stands for any, a day of the week of which -1 does; and the daemon remembers
\* at least the tasks of one minute.
ASSUME TasksAssumption ==
    /\ MinuteValues \subseteq Nat /\ HourValues \subseteq Nat
    /\ DayValues \subseteq Nat /\ MonthValues \subseteq Nat /\ WeekDays \subseteq Nat \union {-1}
    /\ MaxTasks \in Nat /\ MaxRanKeys \in Nat /\ MaxTasks <= MaxRanKeys

\* The number that makes a file's name free is looked for among numbers, and the
\* countdown is set to a length of time.
ASSUME FilesAssumption == Copies \subseteq Nat
ASSUME ClockAssumption == FieldLengths \subseteq Nat

\* Months have days and follow each other, and the grid has room for a month that
\* starts on the last day of a week.
ASSUME CalendarAssumption ==
    /\ MonthStarts \in Seq(Nat) /\ WeekLength \in Nat \ {0} /\ GridCells \in Nat
    /\ \A m \in 1..(Len(MonthStarts) - 1) :
          /\ MonthStarts[m] < MonthStarts[m + 1]
          /\ WeekLength - 1 + MonthStarts[m + 1] - MonthStarts[m] <= GridCells

\* What is typed into the search box is words.
ASSUME SearchAssumption == Queries \subseteq Seq(Words)

\* What the kernel has room for is a number of bytes.
ASSUME TerminalAssumption == PtyRoom \in Nat

\* No file has the name of none, and each program has files of its own kind.
ASSUME DocumentsAssumption ==
    /\ Absent \notin PadPages \union PaintImages \union StickyNotes
    /\ PadPages \intersect PaintImages = {} /\ PadPages \intersect StickyNotes = {}
    /\ PaintImages \intersect StickyNotes = {}

\* A folder is in a folder.
ASSUME FoldersAssumption == HomeFolder \in Folders /\ Parent \in [Folders -> Folders]

\* The kinds of files are those the pages know, and no program is not one.
ASSUME AppsAssumption ==
    /\ AppKinds \in Seq({"browser", "mail", "filemanager", "viewer"})
    /\ Absent \notin DesktopApps

\* A backlight has levels, and a slider goes to a hundred.
ASSUME BacklightAssumption == MaxBrightness \in Nat \ {0} /\ SliderPositions \subseteq 0..100

\* The devices are listed.
ASSUME NetworkAssumption == NetDevices \in Seq({NetDevices[i] : i \in DOMAIN NetDevices})

\* A rectangle has a place and a size.
ASSUME ShotAssumption ==
    /\ ShotWidth \in Nat /\ ShotHeight \in Nat /\ TitleHeight \in Nat
    /\ Drags \subseteq Int \X Int \X Nat \X Nat
    /\ ShotViews \subseteq Int \X Int \X Nat \X Nat

\* There is an application, and none is not one.
ASSUME StoreAssumption ==
    /\ StoreIds \in Seq({StoreIds[i] : i \in DOMAIN StoreIds}) /\ StoreIds # <<>>
    /\ \A i \in DOMAIN StoreIds : StoreIds[i] # Absent

\* A key has a digit or one of the four operators.
ASSUME CalculatorAssumption ==
    NumberKeys \subseteq Nat /\ OperatorKeys \subseteq {"+", "-", "*", "/"}

VARIABLES
    component,                                                   \* the one that runs
    taskNow, tasks, daemon, ranKeys, toSave, started, taskWindow, taskRows,
    reload, taskEdits                                            \* Tasks

VARIABLES
    home, trash, info, tmp, clip, cut, explorer, bin, reported, purged, jobs, bare,  \* Files
    tree, quiet, treeChanges, phase, todo, snapshot, index, notices, pendingDirs, noticed,
    query, searchActive, debounce, results,                      \* FileSearch
    today, minute, store, month, selected, cells, marks, list, row,
    allDayNotified, notifiedIds,                                 \* Calendar
    masterOpen, child, typed, pendingOut, toShell, got, writeNotifier, printed,
    toWindow, parser, pendingUtf8, document, exitShown,          \* Terminal
    disk, pad, paint, note, changes,                             \* Documents
    dirs, current, back, forward, address, navButtons,           \* Explorer
    now, field, countdown, stopwatch, alarms, lastAlarmKey, measured,        \* Clock
    mimeapps, installed, appPages, appChanges,                   \* DefaultApps
    backlight, adapter, autostart, systemSettings, dialog, outside,          \* SystemPages
    nm, look, shown, carried, events,                            \* NetworkPage
    client, proc, rdpWindow, form, saved,                        \* RemoteDesktop
    overlay, mode, selection, dragging, delay, ticks, dialogs, grab, pictures,  \* Screenshot
    path, view, text, image, doc, page, scale, rendered, label, actions,     \* Viewer
    desktopFiles, listed, filter, chosen, canUninstall, question, stale, removing,
    storeStatus, storeChanges,                                   \* Store
    open, heldMods, shiftPressed, capsLocked, labels, checked, oskStatus, keymap,
    injectKeymap, down, caps, pending, parted, losses,           \* ScreenKeyboard
    acc, pendingOp, input, fresh, error, display, line, carry, plain, keys   \* Calculator

Task == INSTANCE Tasks WITH
         MaxKeys <- MaxRanKeys, now <- taskNow, file <- tasks, window <- taskWindow,
         rows <- taskRows, edits <- taskEdits
FileOps == INSTANCE Files WITH Dirs <- FileDirs
Search == INSTANCE FileSearch WITH
         Names <- FileNames, MaxChanges <- MaxTreeChanges, disk <- tree,
         changes <- treeChanges, reported <- noticed
Cal == INSTANCE Calendar WITH
         Starts <- MonthStarts, Week <- WeekLength, Cells <- GridCells,
         Minutes <- MinutesADay
Term == INSTANCE Terminal WITH Room <- PtyRoom
Docs == INSTANCE Documents WITH
         Pages <- PadPages, Html <- HtmlPages, Images <- PaintImages, Notes <- StickyNotes,
         Nothing <- Absent, MaxChanges <- MaxDocChanges
Browse == INSTANCE Explorer WITH
         Home <- HomeFolder, File <- PlainFile, MaxHistory <- MaxVisited,
         buttons <- navButtons
Time == INSTANCE Clock WITH Lengths <- FieldLengths
Apps == INSTANCE DefaultApps WITH
         Kinds <- AppKinds, Apps <- DesktopApps, Unset <- Absent,
         MaxChanges <- MaxListed, list <- mimeapps, pages <- appPages, changes <- appChanges
System == INSTANCE SystemPages WITH
         Positions <- SliderPositions, settings <- systemSettings
Net == INSTANCE NetworkPage WITH
         Devices <- NetDevices, None <- Absent, MaxChanges <- MaxNetEvents,
         query <- look
Rdp == INSTANCE RemoteDesktop WITH Blank <- BlankField, window <- rdpWindow
Shot == INSTANCE Screenshot WITH
         Width <- ShotWidth, Height <- ShotHeight, Least <- LeastSide, Views <- ShotViews,
         Title <- TitleHeight, Seconds <- Countdown, Polls <- MaxPolls
View == INSTANCE Viewer WITH Files <- ViewerFiles, NoFile <- Absent
Software == INSTANCE Store WITH
         Ids <- StoreIds, NoApp <- Absent, MaxChanges <- MaxInstalls,
         disk <- desktopFiles, apps <- listed, selected <- chosen, proc <- removing,
         status <- storeStatus, changes <- storeChanges
Osk == INSTANCE ScreenKeyboard WITH status <- oskStatus
Calc == INSTANCE Calculator WITH
         Digits <- NumberKeys, Operators <- OperatorKeys, MaxKeys <- MaxPressed

tasksVars     == <<taskNow, tasks, daemon, ranKeys, toSave, started, taskWindow,
                   taskRows, reload, taskEdits>>
filesVars     == <<home, trash, info, tmp, clip, cut, explorer, bin, reported,
                   purged, jobs, bare>>
searchVars    == <<tree, quiet, treeChanges, phase, todo, snapshot, index, notices,
                   pendingDirs, noticed, query, searchActive, debounce, results>>
calendarVars  == <<today, minute, store, month, selected, cells, marks, list,
                   row, allDayNotified, notifiedIds>>
terminalVars  == <<masterOpen, child, typed, pendingOut, toShell, got,
                   writeNotifier, printed, toWindow, parser, pendingUtf8,
                   document, exitShown>>
documentsVars == <<disk, pad, paint, note, changes>>
explorerVars  == <<dirs, current, back, forward, address, navButtons>>
clockVars     == <<now, field, countdown, stopwatch, alarms, lastAlarmKey,
                   measured>>
appsVars      == <<mimeapps, installed, appPages, appChanges>>
systemVars    == <<backlight, adapter, autostart, systemSettings, dialog,
                   outside>>
networkVars   == <<nm, look, shown, carried, events>>
rdpVars       == <<client, proc, rdpWindow, form, saved>>
shotVars      == <<overlay, mode, selection, dragging, delay, ticks, dialogs, grab,
                   pictures>>
viewerVars    == <<path, view, text, image, doc, page, scale, rendered, label, actions>>
storeVars     == <<desktopFiles, listed, filter, chosen, canUninstall, question, stale,
                   removing, storeStatus, storeChanges>>
oskVars       == <<open, heldMods, shiftPressed, capsLocked, labels, checked, oskStatus,
                   keymap, injectKeymap, down, caps, pending, parted, losses>>
calcVars      == <<acc, pendingOp, input, fresh, error, display, line, carry, plain,
                   keys>>

vars == <<component, tasksVars, filesVars, searchVars, calendarVars, terminalVars,
          documentsVars, explorerVars, clockVars, appsVars, systemVars, networkVars, rdpVars,
          shotVars, viewerVars, storeVars, oskVars, calcVars>>

-----------------------------------------------------------------------------
\* A component that does not run has one of its initial states.
Init ==
    /\ component \in {"tasks", "files", "search", "calendar", "terminal", "documents",
                      "explorer", "clock", "apps", "system", "network", "rdp",
                      "screenshot", "viewer", "store", "keyboard", "calculator"}
    /\ Task!Init /\ FileOps!Init /\ Search!Init /\ Term!Init /\ Docs!Init /\ Browse!Init
    /\ Net!Init /\ Rdp!Init /\ Shot!Init /\ View!Init /\ Software!Init /\ Calc!Init
    /\ Cal!Init    /\ (component # "calendar" => today = 1)
    /\ Time!Init   /\ (component # "clock"    => field = CHOOSE l \in FieldLengths : TRUE)
    /\ Apps!Init   /\ (component # "apps"     => mimeapps = CHOOSE l \in Apps!FirstLists : TRUE)
    /\ System!Init /\ (component # "system"   => backlight.level = -1)
    /\ Osk!Init    /\ (component # "keyboard" => keymap = CHOOSE k \in Keymaps : TRUE)

Alone(c) ==
    /\ component = c /\ UNCHANGED component
    /\ \/ c = "tasks"     \/ UNCHANGED tasksVars
    /\ \/ c = "files"     \/ UNCHANGED filesVars
    /\ \/ c = "search"    \/ UNCHANGED searchVars
    /\ \/ c = "calendar"  \/ UNCHANGED calendarVars
    /\ \/ c = "terminal"  \/ UNCHANGED terminalVars
    /\ \/ c = "documents" \/ UNCHANGED documentsVars
    /\ \/ c = "explorer"  \/ UNCHANGED explorerVars
    /\ \/ c = "clock"     \/ UNCHANGED clockVars
    /\ \/ c = "apps"      \/ UNCHANGED appsVars
    /\ \/ c = "system"    \/ UNCHANGED systemVars
    /\ \/ c = "network"   \/ UNCHANGED networkVars
    /\ \/ c = "rdp"       \/ UNCHANGED rdpVars
    /\ \/ c = "screenshot" \/ UNCHANGED shotVars
    /\ \/ c = "viewer"    \/ UNCHANGED viewerVars
    /\ \/ c = "store"     \/ UNCHANGED storeVars
    /\ \/ c = "keyboard"  \/ UNCHANGED oskVars
    /\ \/ c = "calculator" \/ UNCHANGED calcVars

TasksStep     == Alone("tasks")    /\ Task!Next
FilesStep     == Alone("files")    /\ FileOps!Next
SearchStep    == Alone("search")   /\ Search!Next
CalendarStep  == Alone("calendar") /\ Cal!Next
TerminalStep  == Alone("terminal") /\ Term!Next
DocumentsStep == Alone("documents") /\ Docs!Next
ExplorerStep  == Alone("explorer") /\ Browse!Next
ClockStep     == Alone("clock")    /\ Time!Next
AppsStep      == Alone("apps")     /\ Apps!Next
SystemStep    == Alone("system")   /\ System!Next
NetworkStep   == Alone("network")  /\ Net!Next
RemoteStep    == Alone("rdp")      /\ Rdp!Next
ShotStep      == Alone("screenshot") /\ Shot!Next
ViewerStep    == Alone("viewer")   /\ View!Next
StoreStep     == Alone("store")    /\ Software!Next
KeyboardStep  == Alone("keyboard") /\ Osk!Next
CalcStep      == Alone("calculator") /\ Calc!Next

Next == \/ TasksStep \/ FilesStep \/ SearchStep \/ CalendarStep \/ TerminalStep \/ DocumentsStep
        \/ ExplorerStep \/ ClockStep \/ AppsStep \/ SystemStep \/ NetworkStep \/ RemoteStep
        \/ ShotStep \/ ViewerStep \/ StoreStep \/ KeyboardStep \/ CalcStep

Spec == Init /\ [][Next]_vars

-----------------------------------------------------------------------------
(* What the modules state of their components, each there.                 *)

\* Tasks: the daemon implements TaskPromise.
OncePerMinute == Task!OncePerMinute
\* Tasks: accepting a dialog unchanged changes nothing.
EditKeepsSchedule == Task!EditKeepsSchedule
\* Files: what is in the trash can be restored, and nothing is lost.
FilesAreSafe == FileOps!FilesAreSafe
\* FileSearch: the results are those of the files there are.
SearchIsCurrent == Search!SearchIsCurrent
\* Calendar: grid, marks and list show the events of the day and month.
CalendarIsCurrent == Cal!CalendarIsCurrent
\* Terminal: the shell gets what was typed, the window what it printed.
TerminalIsTransparent == Term!TypedInOrder /\ Term!TextIsWhole
\* Documents, Viewer: a document without a mark is the one on disk, and the viewer
\* has the file in its title.
DocumentsAreTheirFiles == Docs!UnmarkedIsSaved /\ View!ShownIsTheFile
\* Explorer: Back and Forward move along one list of folders.
HistoryIsKept == Browse!HistoryIsKept
\* Clock: a countdown, a stopwatch and the alarms count real time.
TimesAreTrue == Time!TimesAreTrue
\* DefaultApps, SystemPages, NetworkPage: what a page applied is in the file for every
\* kind, the controls show the system they were read from, and an address belongs to a
\* device that carried it.
PagesTellTheTruth ==
    Apps!AppliedIsWhole /\ System!ControlsTellTheTruth /\ Net!AddressOfItsDevice
\* RemoteDesktop: a session that runs can be ended from its window.
SessionCanBeEnded == Rdp!SessionCanBeEnded
\* Calculator: the display has the value of the keys.
ShownIsTheValue == Calc!ShownIsTheValue
\* Screenshot, Store, ScreenKeyboard: a picture is that of its region, the selected
\* application is one of the list, and the keys of letters show what they type, the
\* others while Caps Lock is off.
ToolsDoAsAsked ==
    Shot!PictureIsItsRegion /\ Software!SelectedIsListed /\ Osk!LabelsAreTyped
=============================================================================
