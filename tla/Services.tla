------------------------------- MODULE Services -------------------------------
(***************************************************************************)
(* The parts of the desktop that wait for an answer from outside: the      *)
(* compositor's outputs for their frames, the session lock for its client, *)
(* the shell's tray and panels for other programs and timers, the recorder *)
(* and the sound pages for the audio service.  What they promise is mostly *)
(* that something happens in the end, so this composition states fairness. *)
(*                                                                         *)
(* They share no state, so their behaviours need no product: a behaviour   *)
(* of this module picks one of them and runs it, the others stay where     *)
(* they began.  Every fact checked here is one about a single component.   *)
(***************************************************************************)
EXTENDS Integers, Sequences, FiniteSets

CONSTANTS
    OutputNames, Panels, Widths, Heights, DefaultWidth, DefaultHeight, Scales, Places,
    Zone, FrameLimit, MaxRequests,                 \* Outputs
    Lockers, Nobody, MaxTyped,                     \* SessionLock
    Programs, Paths, MaxInbox,                     \* Tray
    MaxHistory, MaxEntries, Contents, MaxNotes, Nothing                \* ShellPanels

\* The modes an output may be set to, and the one it starts with.
Modes       == Widths \X Heights
DefaultMode == <<DefaultWidth, DefaultHeight>>

\* A mode has a width and a height, and there are finitely many panels.
ASSUME OutputAssumption ==
    /\ Widths \subseteq Nat /\ Heights \subseteq Nat
    /\ DefaultWidth \in Nat /\ DefaultHeight \in Nat
    /\ Scales \subseteq Nat \ {0}
    /\ IsFiniteSet(Panels) /\ Zone \in Nat

\* The null pointer is no lock screen, and an empty clipboard is no content.
ASSUME LockAssumption == Nobody \notin Lockers
ASSUME ClipboardAssumption == Nothing \notin Contents /\ MaxEntries \in Nat \ {0}

VARIABLES
    component,                                     \* the one that runs
    outputs, mode, scale, placed, background, usable, panels, pending, frames, limit,
    bus, requests, ended,                          \* Outputs
    sessionLock, lockSurface, lockScene, locked, lockKeys, hooks, locks, surfaces,
    wire, inbox, locker, asserted                  \* SessionLock

VARIABLES
    watching, running, drawing, trayInbox, items, icons,               \* Tray
    nextId, history, popup, popupTimer, center, rows, clipboard, signals, entries,
    panel, panelRows,                              \* ShellPanels
    context, connecting, connectTimer, streams, recordStream, playStream, drainOp,
    draining, playBytes, buffered, files, recorderWindow,              \* Recorder
    audio, page, program, service, refreshes       \* Audio

Out == INSTANCE Outputs
Lock == INSTANCE SessionLock
Icons == INSTANCE Tray WITH inbox <- trayInbox
Shell == INSTANCE ShellPanels
Rec == INSTANCE Recorder WITH
         Streams <- {"s1", "s2"}, MaxFiles <- 1, NoStream <- "none", window <- recorderWindow
Aud == INSTANCE Audio WITH MaxSinks <- 1, MaxBatch <- 2, MaxRefreshes <- 2

outVars   == <<outputs, mode, scale, placed, background, usable, panels, pending,
               frames, limit, bus, requests, ended>>
lockVars  == <<sessionLock, lockSurface, lockScene, locked, lockKeys, hooks, locks,
               surfaces, wire, inbox, locker, asserted>>
trayVars  == <<watching, running, drawing, trayInbox, items, icons>>
panelVars == <<nextId, history, popup, popupTimer, center, rows, clipboard, signals,
               entries, panel, panelRows>>
recVars   == <<context, connecting, connectTimer, streams, recordStream, playStream,
               drainOp, draining, playBytes, buffered, files, recorderWindow>>
audioVars == <<audio, page, program, service, refreshes>>

vars == <<component, outVars, lockVars, trayVars, panelVars, recVars, audioVars>>

-----------------------------------------------------------------------------
\* A component that does not run has one of its initial states.
Init ==
    /\ component \in {"outputs", "lock", "tray", "panels", "recorder", "audio"}
    /\ Out!Init   /\ (component # "outputs"  => limit = 0)
    /\ Lock!Init
    /\ Icons!Init /\ (component # "tray"     => watching)
    /\ Shell!Init
    /\ Rec!Init   /\ (component # "recorder" => files = 0)
    /\ Aud!Init   /\ (component # "audio"    => program = "settings" /\ service)

Alone(c) ==
    /\ component = c /\ UNCHANGED component
    /\ \/ c = "outputs"  \/ UNCHANGED outVars
    /\ \/ c = "lock"     \/ UNCHANGED lockVars
    /\ \/ c = "tray"     \/ UNCHANGED trayVars
    /\ \/ c = "panels"   \/ UNCHANGED panelVars
    /\ \/ c = "recorder" \/ UNCHANGED recVars
    /\ \/ c = "audio"    \/ UNCHANGED audioVars

OutputsStep  == Alone("outputs")  /\ Out!Next
LockStep     == Alone("lock")     /\ Lock!Next
TrayStep     == Alone("tray")     /\ Icons!Next
PanelsStep   == Alone("panels")   /\ Shell!Next
RecorderStep == Alone("recorder") /\ Rec!Next
AudioStep    == Alone("audio")    /\ Aud!Next

Next == OutputsStep \/ LockStep \/ TrayStep \/ PanelsStep \/ RecorderStep \/ AudioStep

\* What each component's own specification assumes: an output that is due gets
\* its frame, the timers fire, the audio service answers.
Fairness ==
    /\ \A o \in OutputNames : WF_vars(Alone("outputs") /\ Out!Frame(o))
    /\ WF_vars(Alone("panels") /\ Shell!PopupTimeout)
    /\ \A s \in {"s1", "s2"} : WF_vars(Alone("recorder") /\ Rec!Progress(s))
    /\ WF_vars(Alone("audio") /\ Aud!ConnectTimeout)
    /\ WF_vars(Alone("audio") /\ Aud!AudioTimeout)
    /\ \A k \in Aud!Lists : WF_vars(Alone("audio") /\ Aud!Drain(k))

Spec == Init /\ [][Next]_vars /\ Fairness

-----------------------------------------------------------------------------
(* What the modules state of their components, each there.                 *)

\* Outputs: the area left for windows is the current one.
UsableIsCurrent == Out!UsableIsCurrent
\* Outputs: the background follows its output.
BackgroundCatchesUp == Out!BackgroundCatchesUp
\* SessionLock: no listener outlives what it listens to, and the desktop comes
\* back with the end of the lock that hid it, however it ended.
LockIsReleased == Lock!LockIsReleased
\* Tray: an icon stands for a program that runs.
TrayIsCurrent == Icons!TrayIsCurrent
\* ShellPanels: the clipboard history and the rows of its panel.
HistoryFollowsClipboard == Shell!HistoryFollowsClipboard
\* ShellPanels: a popup goes away.
PopupEnds == Shell!PopupEnds
\* Recorder: playing a recording ends.
PlaybackEnds == Rec!PlaybackEnds
\* Audio: no timer drives the audio loop for ever.
DriversStop == Aud!DriversStop
=============================================================================
