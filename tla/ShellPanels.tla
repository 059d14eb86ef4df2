---------------------------- MODULE ShellPanels ----------------------------
(***************************************************************************)
(* What the shell pops up: notifications (the D-Bus service, its history,  *)
(* the popup with its timer, the notification center) and the clipboard    *)
(* history with its panel, as src/src/shell/main.cpp connects them.        *)
(***************************************************************************)
EXTENDS Integers, Sequences, SequencesExt

CONSTANTS
    MaxHistory,    \* NotificationService::kMaxHistory (50)
    MaxEntries,    \* ClipboardHistory::kMaxEntries (20)
    Contents,      \* what programs copy: texts and images
    MaxNotes,      \* bound on notifications
    Nothing        \* a clipboard with neither, no notification

VARIABLES
    nextId,        \* nextId_
    history,       \* history_, the ids, oldest first
    popup,         \* the notification in the popup, Nothing while it is hidden
    popupTimer,    \* popupTimer->isActive()
    center,        \* the notification center is shown
    rows,          \* the ids it lists while it is shown, newest first
    clipboard,     \* the content of the system clipboard
    signals,       \* a dataChanged is on its way
    entries,       \* entries_, newest first
    panel,         \* the clipboard panel is shown
    panelRows      \* the entries it lists while it is shown

noteVars  == <<nextId, history, popup, popupTimer, center, rows>>
clipVars  == <<clipboard, signals, entries, panel, panelRows>>
panelVars == <<nextId, history, popup, popupTimer, center, rows,
               clipboard, signals, entries, panel, panelRows>>

Init ==
    /\ nextId = 1 /\ history = <<>> /\ popup = Nothing /\ popupTimer = FALSE
    /\ center = FALSE /\ rows = <<>>
    /\ clipboard = Nothing /\ signals = FALSE /\ entries = <<>>
    /\ panel = FALSE /\ panelRows = <<>>

-----------------------------------------------------------------------------
(* Notifications.                                                          *)

Latest(s, n) == IF Len(s) > n THEN SubSeq(s, Len(s) - n + 1, Len(s)) ELSE s

\* Mutant of Notify: the popup's timer is started for the first one only.
NotifyOnce ==
    /\ nextId <= MaxNotes
    /\ nextId' = nextId + 1
    /\ history' = Latest(Append(history, nextId), MaxHistory)
    /\ popup' = nextId /\ popupTimer' = (popupTimer \/ nextId = 1)
    /\ UNCHANGED <<center, rows>> /\ UNCHANGED clipVars

\* A replaced notification is added like any other.
Notify ==
    /\ nextId <= MaxNotes
    /\ nextId' = nextId + 1
    /\ history' = Latest(Append(history, nextId), MaxHistory)
    /\ popup' = nextId /\ popupTimer' = TRUE
    /\ UNCHANGED <<center, rows>> /\ UNCHANGED clipVars

\* The popup and the center keep what they show.
CloseNotification(id) ==
    /\ id \in ToSet(history)
    /\ history' = SelectSeq(history, LAMBDA n : n # id)
    /\ UNCHANGED <<nextId, popup, popupTimer, center, rows>> /\ UNCHANGED clipVars

PopupTimeout ==
    /\ popupTimer
    /\ popupTimer' = FALSE /\ popup' = Nothing
    /\ UNCHANGED <<nextId, history, center, rows>> /\ UNCHANGED clipVars

\* The timer goes on.
ClickPopup ==
    /\ popup # Nothing
    /\ popup' = Nothing /\ center' = TRUE /\ rows' = Reverse(history)
    /\ UNCHANGED <<nextId, history, popupTimer>> /\ UNCHANGED clipVars

EscapeCenter ==
    /\ center /\ center' = FALSE /\ rows' = <<>>
    /\ UNCHANGED <<nextId, history, popup, popupTimer>> /\ UNCHANGED clipVars

-----------------------------------------------------------------------------
(* The clipboard.                                                          *)

Copy(c) ==
    /\ clipboard' = c /\ signals' = TRUE
    /\ UNCHANGED <<entries, panel, panelRows>> /\ UNCHANGED noteVars

\* Mutant of Pushed: compared with the newest entry only.
PushedNext(c) ==
    IF entries # <<>> /\ entries[1] = c THEN entries
    ELSE SubSeq(<<c>> \o entries, 1, IF Len(entries) < MaxEntries THEN Len(entries) + 1
                                     ELSE MaxEntries)

\* pushEntry: an entry that is known moves to the top.
Pushed(c) ==
    LET known == {i \in DOMAIN entries : entries[i] = c}
        first == CHOOSE i \in known : \A j \in known : i <= j
    IN  IF known # {} THEN <<c>> \o RemoveAt(entries, first)
        ELSE SubSeq(<<c>> \o entries, 1, IF Len(entries) < MaxEntries THEN Len(entries) + 1
                                         ELSE MaxEntries)

\* onClipboardChanged reads the clipboard as it is now, and an open panel follows.
DataChanged ==
    /\ signals /\ signals' = FALSE
    /\ IF clipboard = Nothing THEN UNCHANGED <<entries, panelRows>>
       ELSE /\ entries' = Pushed(clipboard)
            /\ panelRows' = IF panel THEN entries' ELSE panelRows
    /\ UNCHANGED <<clipboard, panel>> /\ UNCHANGED noteVars

Toggle ==
    /\ panel' = ~panel
    /\ panelRows' = IF panel THEN <<>> ELSE entries
    /\ UNCHANGED <<clipboard, signals, entries>> /\ UNCHANGED noteVars

\* A click on a row writes its content back and closes the panel.
Pick(i) ==
    /\ panel /\ i \in DOMAIN panelRows
    /\ clipboard' = panelRows[i] /\ signals' = TRUE
    /\ panel' = FALSE /\ panelRows' = <<>>
    /\ UNCHANGED entries /\ UNCHANGED noteVars

EscapePanel ==
    /\ panel /\ panel' = FALSE /\ panelRows' = <<>>
    /\ UNCHANGED <<clipboard, signals, entries>> /\ UNCHANGED noteVars

Next ==
    \/ Notify \/ PopupTimeout \/ ClickPopup \/ EscapeCenter
    \/ \E id \in 1..MaxNotes : CloseNotification(id)
    \/ \E c \in Contents \union {Nothing} : Copy(c)
    \/ DataChanged \/ Toggle \/ EscapePanel
    \/ \E i \in 1..MaxEntries : Pick(i)

Fairness == WF_panelVars(PopupTimeout)
Spec     == Init /\ [][Next]_panelVars /\ Fairness

-----------------------------------------------------------------------------
(* A popup goes away by itself, also when notifications follow each other  *)
(* while an earlier one's timer runs, or was clicked away before it fired. *)
PopupEnds == popup # Nothing ~> popup = Nothing

(* The history lists no content twice and, once the change is handled,     *)
(* begins with what the clipboard holds; an open panel lists the history,  *)
(* so that a row stands for the entry the user sees.                       *)
HistoryFollowsClipboard ==
    /\ IsInjective(entries)
    /\ Len(entries) <= MaxEntries
    /\ ~signals /\ clipboard # Nothing => entries # <<>> /\ entries[1] = clipboard
    /\ panel => panelRows = entries
=============================================================================
