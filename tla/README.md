# A formal model of Win10DE

Win10DE is a Wayland desktop in C++: a wlroots compositor, a Qt shell (taskbar,
start menu, tray, notifications), a lock client and some twenty small Qt
applications. This directory holds TLA+ modules of its state machines, the TLC
configurations that check them, and machine-checked proofs of most of what the
runs check.
`PROJECT.json` maps every definition to the lines it models and lists the runs,
the mutants, the hazards, the findings and the theorems.

    tlc -workers 2 -config layout.cfg WindowLayout
    tlc -workers 2 -config services.cfg Services
    tlapm DesktopProofs.tla

## 1. Inventory

Paths are below `src/src/`. Every process is a single-threaded event loop,
except where a worker is named: the interleavings are those of events.

| component | state it keeps | operations | hard behaviour | what makes it correct |
|---|---|---|---|---|
| `compositor/view` one xdg toplevel | mapped, maximized, snap flags, restore geometry, animation, deferred fullscreen | client requests, map/unmap/commit, layout commands, frames | sizes are requests the client answers later; layouts share one restore geometry; requests before the first commit | flags and restore geometry agree; the window comes back to where it floated; animations end |
| `compositor/server` all windows | `views_` (z-order), scene order, current workspace | add/remove/raise, switch workspace | two orders to keep equal, focus after a switch | complete lists, a visible window gets the keyboard |
| `compositor/seat` focus | focused view, focused surface, drag, activation | key and button handlers, focus/unfocus, begin/end of a drag | calls nest (activate, switch, refocus); `View*` kept across events | keyboard follows focus; one active window; no dead reference |
| `compositor/seat` devices | keyboards, pointers, their settings, held and injected keys | plug, unplug, configure, key, inject | any order of devices and settings; two choosers that take keys | live references, last settings everywhere, one chooser |
| `compositor/alttab`, `snaplayout` | a copied window list and a selection; a target window | show, next, prev, apply, hide | the windows may go away meanwhile | the references die with the windows |
| `compositor/layer_shell` panels | mapped, keyboard wish, exclusive zone | map, unmap, commit | hides while it has the keyboard | the keyboard returns to a window, the usable area is current |
| `compositor/xview` X11 windows | as view, with association and override-redirect | the same | two kinds of window share one focus | what is drawn should be visible, nothing gone is held |
| `compositor/output`, `dbus_service` | modes, scales, places, usable areas, background | frame, set mode/scale/position | first output is the clock; partial failure of a mode change | areas current, the background follows |
| `compositor/server` night light | settings, timer, gamma of each output | timer, reload, output changes, failed commits | interval across midnight, half-applied ramps | the light is the one for the time |
| `compositor/server` session lock, `lock/` | lock, its surface, listeners, keyboard; password attempts | new lock, surface, map, unlock, destroy; type, enter | either end may die between any two steps | no listener outlives its object, hidden only while held |
| `ipc/config` and its readers | the rows of the file and the pending changes | load, set, save; parse | several processes rewrite one file | a save is exact; words mean what was written |
| `shell/ipc/foreigntoplevel`, taskbar | mirror of the window list | events, done, clicks | events for windows already gone | the mirror converges |
| `shell/tray` | registered items, icons | register, owner changes | disappearance by another name | icons stand for running programs |
| notifications, clipboard panel | history, popup, timer, entries | notify, close, expire, copy, pick | replace and expiry, limits | popups end, the panel's rows are the history |
| `shell/ipc/fileindex`, start menu | index (worker thread), pending notices, query | scan, watch, query | query while indexing, batches | results are those of the files there are |
| `systemapps/tasks` | the task file, keys that ran | minute timer, edit, save | two writers, restart, timer drift | each matching minute runs once |
| `systemapps/{trash,explorer}` | files, info files, clipboard, history | trash, restore, empty, paste, navigate | two processes, crash between two steps | nothing lost, trashed means restorable |
| `systemapps/calendar`, `clock` | events, reminders; countdown, stopwatch, alarms | edit, tick, remind | ticks that come late | shown once; times are true |
| `systemapps/{pad,paint,sticky,viewer}` | the open document, its mark of change | open, save, close | failing writes, undo | unmarked means saved |
| `systemapps/term` | queue to the shell, parser state | key, readable, writable, exit | partial writes, cut sequences | transparent in both directions |
| `systemapps/{recorder,rdp,screenshot,osk,software}` | a connection, a child process, a blocking call | callbacks, kill, timeouts | late and lost answers | what is offered and shown is what there is |
| `systemapps/settings`, `control` | pages that show what they read once | load, choose, apply, refresh | two programs over one file or service | pages tell the truth |
| `systemapps/calculator` | accumulator, pending operator, entry | keys | state of the entry after each key | the value of the keys |
| `systemapps/appipc` | D-Bus name | activate or register | two starts at once | one instance |
| monitors, disks, devices, cleanup, charmap | forms over system commands | - | no second actor | - |

Interactions: clients and the shell talk to the compositor by Wayland requests;
it answers with configure events that the client acknowledges by a commit, at
its own pace. The shell's taskbar drives windows through the foreign-toplevel
protocol. Inside the compositor everything is a direct call on the same stack,
and several components keep raw `View*` or `wlr_surface*` pointers from one
event to the next: that is where its hazards are. The settings and the control
panel reach the compositor by D-Bus and by the configuration file. The
applications interact with their own background daemons, and the file manager
with the trash, only through files. The hazards are listed with their lines in
`PROJECT.json`.

## 2. The modules

Windows:

| module | models |
|---|---|
| `WindowLayout` | one `View`: layouts, restore geometry, animation, drag, chooser, handshake |
| `WindowLayoutHome` | the same with history variables, to say what a restore point ought to be |
| `Desktop` | all windows: life cycle, z-order, workspaces, focus, activation, drag, chooser, Alt+Tab, a panel |

What `Services` composes, the parts that wait for an answer and need fairness:

| module | models |
|---|---|
| `Outputs` | modes, scales and places of outputs, the usable area, the background and its frames, the D-Bus requests |
| `SessionLock` | both ends of ext-session-lock, in-order wires between them, the client's death at any moment |
| `Tray` | `SniWatcher`, `TrayArea`, the bus that delivers in order |
| `ShellPanels` | notifications with history, popup and timer; the clipboard history and its panel |
| `Recorder` | the engine and its callbacks, recording, playing, draining |
| `Audio` | `AudioInfo`: a connection iterated by timers, numbered queries, the pages over it |

What `CompositorParts` composes:

| module | models |
|---|---|
| `XWindows` | `XView`: association, override-redirect, focus, desks, drags |
| `SeatInput` | devices, settings, held and injected keys, the two choosers |
| `NightLight` | interval, timer, gamma of each output, failing commits |
| `DisplayPages` | the display page of both programs over one service that may fail |
| `Taskbar` | the compositor's handles, the events on the wire, the buttons |
| `ConfigReaders` | shortcuts, wildcards, rules, intervals: each parser against a reference |
| `ConfigFile` | rows, pending changes, load, set, save by several processes |

What `Programs` composes:

| module | models |
|---|---|
| `Tasks`, `TaskPromise` | daemon, timer, keys, restarts, window, the file both rewrite; its abstract promise |
| `Files` | file manager and trash, two processes, a crash after any step |
| `Explorer`, `FileSearch` | navigation with history; the index, its worker, notices and queries |
| `Calendar`, `Clock` | months, events, reminders; countdown, stopwatch, alarms |
| `Terminal` | `TerminalPty` and the parser of `TerminalEdit` |
| `Documents`, `Viewer` | word pad, paint, sticky notes; the three views of the viewer |
| `DefaultApps`, `SystemPages`, `NetworkPage` | pages of the settings and of the control panel |
| `RemoteDesktop`, `Screenshot`, `Store`, `ScreenKeyboard`, `Calculator` | the program of that name |

Values for TLC: the configurations give the constants their values, and
`MCPrograms` and the end of `CompositorParts` those that a configuration cannot write
(pairs, sequences, functions, records).

Proofs, which hold for every value of the constants:

| module | proves things about |
|---|---|
| `WindowLayoutProofs` | `WindowLayout` and `WindowLayoutHome` |
| `DesktopProofs` | `Desktop` |
| `CompositorPartsProofs` | `XWindows`, `SeatInput`, `NightLight`, `DisplayPages`, `Taskbar`, `ConfigReaders`, `ConfigFile` |
| `ServicesProofs` | `Outputs`, `SessionLock`, `Tray`, `ShellPanels` |
| `ProgramsProofs` | `Files`, `FileSearch`, `Explorer`, `Documents`, `Viewer`, `Calculator` |
| `SettingsProofs` | `Tasks`, `SystemPages`, `NetworkPage`, `DefaultApps`, `Calendar` |
| `ToolsProofs` | `Clock`, `RemoteDesktop`, `Store`, `ScreenKeyboard`, `Screenshot`, `Terminal` |
| `ListTheorems` | what they all need of numbers, lists and functions computed step by step |

### The three compositions

The components of `Services`, `CompositorParts` and `Programs` share no state
among each other: what does share state (a daemon and its window, two processes
over one file, the two ends of a protocol) is in one module. Their product would
only multiply states, so a behaviour of a composition chooses one `component`
in its initial state and runs that; the others stay as they began. Each
property of a composition is one that a module states of its component, and the
run checks it over all of that component's behaviours. The first comment of each
module tells what it leaves out. The compositions declare the constants of their
parts, and assume of them, by name, what the code makes sure of (`OutputAssumption`,
`InputAssumption`, `FilesAssumption`, ...); the runs evaluate those assumptions.

### WindowLayout

`view` is the record of the `View` members (`view.h:169-201`); its fields have
the members' names, except that `hasRestoreGeometry_` and `animActive_` are the
values `NoRestore` and `NoAnim`. A position or a size is abstract: the model
keeps which of them the code can tell apart: the positions and sizes given by users,
clients and rules (constants), and the ones computed by layouts (`Origin`, `Full`,
`Half`, ...). `size` is what `width()/height()` return, the client's
last commit; `asked` is what `resize()` last requested. `ClientCommit`, the only
external action, lets the client adopt `asked` at any later time.

Methods of `View` are operators from a view to a view (`SetMaximized`, `Unsnap`,
`SnapTo`, ...). A handler is one action that composes all the calls it makes; `Map`,
for instance, is `handleMap` with the rules, the cascade, the deferred
fullscreen, the maximized geometry and the `--snap-test` option, in that order.
`KeyMaximize` to `KeySnapLayout` are the cases of `Seat::dispatchShortcut`;
`MaxButton` is the title bar's button; `ChooserApply` is
`SnapLayoutSwitcher::apply`; `Tick` is a frame of the first output.
`aborted` becomes true where wlroots would assert (a configure scheduled on an
uninitialized surface); nothing follows it.

Left out: the fade-in (opacity only), decorations, the close request (the
client answers with an unmap), wlroots' own bookkeeping.

### Desktop

`desk` bundles the compositor's and the seat's state so that the methods, which
call each other, can be operators from a desk to a desk: `FtlActivate` is
`Present(SwitchWorkspace(desk, ...), w)` just as `handleFtlActivate` calls
`switchWorkspace`, `focusView`, `raiseView`. `views` is `views_`, `draw` the
order of scene nodes (the two are changed by different handlers), `focused` is
`focusedView_`, `keys` the surface that has the keyboard, `active` the windows
whose last `setActivated` was true. `entries`/`chosen` are the Alt+Tab
switcher's copy of the window list, `panel` a layer surface that wants the
keyboard (start menu, clipboard history).

Geometry is abstracted: a press may hit any window for which `viewAt` could
return it (`Hit`), so any arrangement of windows is covered. A press on content
also needs a shown surface under the pointer.

The session is unlocked and no X11 window exists; those are in `SessionLock` and
`XWindows`. Popups and their grabs, hover, touch,
key injection (`SeatInput`), the on-screen keyboard's exemption from focus, closing requests
and `moveViewToWorkspace` (no caller) are left out. Each window identity is
created and destroyed once; unmapping and mapping again is unlimited.

### Both ends of a protocol

`SessionLock`, `Taskbar`, `Tray` and `Outputs` keep a queue per direction and
deliver in order, as Wayland and D-Bus do; nothing is lost, but either end may
go away with messages still on the wire. In `SessionLock` `sessionLock`,
`lockSurface`, `locked` are the members of `Compositor`, `hooks` the
`wl_listener`s that are linked, and `asserted` becomes true where wlroots would
find a listener on an object it destroys. A handler is an operator on the record
of these (`LockUnlock`, `LockDestroyed`, `SurfaceDestroyed`), because wlroots
calls several of them for one request (`DestroyLock`).

### Files on disk

`Files`, `Tasks`, `ConfigFile` and `Documents` have one action per system call
that another process can see; a crash may come between any two. A file's content
is a value that is copied, never computed. `Tasks` and `ConfigFile` truncate and
rewrite, as the code does. Writes may fail where the code does not look: an info file of
the trash is landed without its text (`StartTrash` of `Files`; an info file is a pair of
the place it is for and whether it says so). In `FileSearch` other programs make, move
and delete files, of which the watched directories give notice, and write them in place
(`Write`), of which nobody hears; `quiet` are the files so written since their directory
was read. In `Explorer` Back and Forward need no enabled button, for Alt+Left and
Alt+Right do not look at it, and New Folder and Paste make the window's own folder
again when it is gone (`Made`).

### Undefined and foreign behaviour

A reference into a list that was replaced reads anything: `Yes` of `Store` then removes
any application. What another library does with its input is a definition of its own, and
not the program's: `Typed` of `ScreenKeyboard` is xkb's choice of a key's level, with
which the labels are compared; `Answers` of `Audio` are the lists libpulse may hand over,
and the error it may report instead of one.

## 3. What the runs check

| run | bounds | states | what it shows |
|---|---|---|---|
| `layout` | 1 free position, 1 free size, 2-frame animations | 251 000 | one window's layouts |
| `home` | 2 positions, 2 sizes, `--snap-test` on, until the first hasty restore point | 365 000 | restore points are home |
| `desktop` | 2 windows, 2 workspaces, rules sending windows to workspace 1 and/or on top | 490 000 | references, lists, focus |
| `services` | `services.cfg` | 73 000 | outputs, lock, tray, panels, recorder, audio: safety and liveness |
| `compositorparts` | `compositorparts.cfg` | 824 000 | X11, devices, night light, displays, taskbar, configuration |
| `programs` | `programs.cfg`, `MCPrograms` | 1 093 000 | the programs |
| `snap_restore`, `frames_leave`, `early` | as `layout` | - | findings |
| `focused_visible`, `hit_order` | as `desktop` | - | findings |
| `saved_value` | as in `compositorparts`, one component | - | finding |

`layout`:
- `RestoreAgreesWithLayout`: a half-screen snap has a restore point and is not
  maximized; a restore point exists only for a window in some layout. Each of the
  layout commands consumes or saves the one restore geometry, and the
  next one relies on the agreement.
- `PendingIsWanted`: a fullscreen request deferred to the map is still what the client
  wants.
- `OnlyMappedIsDriven`: no animation, drag or chooser of an unmapped window.
- `AnimationEnds`: unless commands keep coming for ever, animations end.

`home`: `RestorePointIsHome` and `LeavingLayoutGoesHome` relate the restore
geometry to the geometry the window really floated at, recorded in the history
variable `home` whenever it floats at rest. `hasty` marks a
restore point that was saved while the window was still moving or its client
had not answered; those are not claimed to be home (the finding
`snap_restore` is exactly that case), and the run's constraint ends a history there.
The comments at `view.cpp:338-339` and `:421` want just this; that at `:352-353` says that
a window snapped already gets its snapped geometry as its restore point, which line 354
does not do. Of the two the properties follow the code.

`desktop`:
- `KeyboardFollowsFocus`: the keyboard is on the focused window, which is
  mapped, or on the mapped panel, or nowhere.
- `DrivenAreMapped`: the drag and the chooser point to mapped windows only.
- `ListsAreComplete`: `views_` and the scene hold every window once and no dead one.
- `FocusMovesActivation`: when the focus moves to a window no other listed window
  stays active.
- `SwitchFindsFocus`: after a workspace switch the keyboard is on a visible
  window, if there is one.

`services`:
- `UsableIsCurrent`, `BackgroundCatchesUp`: whatever order modes, scales, panels and
  requests come in, the area left for windows is that of the output as it is, and
  an output gets its background.
- `LockIsReleased`: no listener is left on what wlroots destroys, and the desktop is
  hidden only while somebody holds the lock, however a lock screen ends. That the desktop
  comes back when the lock client dies is what `handleLockDestroy` does and its comments
  say; `ext-session-lock-v1.xml:111` forbids it, which is among the findings.
- `TrayIsCurrent`: once the bus is read, an icon stands for a program that runs (but
  for items named without a path, a finding).
- `HistoryFollowsClipboard`, `PopupEnds`: the panel shows the history; a popup goes.
- `PlaybackEnds`, `DriversStop`: playing ends, and no timer drives a loop for ever,
  with every order of callbacks, timeouts and lost services, unless the service answers
  a query with an error (`Refused`), after which the timer runs until the connection
  ends (a finding).

`compositorparts`:
- `XWindowsAreConsistent`, `InputIsConsistent`: references, devices, focus.
- `LightIsRecent`: every output whose commits were accepted has the light of this minute
  or of one of the two before it.
- `UntouchedApplyKeeps`: applying a page that was not touched changes nothing of the
  first output, when it is not scaled (of the others it does, a finding).
- `TaskbarIsCurrent`: with the wire empty, the buttons are the windows.
- `WordsAreUnderstood`: the parsers against a declarative meaning, over all bindings of
  at most three parts, all titles and patterns of at most `MaxPattern` letters, all rules
  of the dialog and all intervals of a day of `NightDay` minutes.
- `SaveIsExact`: a save changes what its page changed, and nothing else.

`programs`: `OncePerMinute` is a refinement, `Task!Spec` implements `TaskPromise`
with `started` as its counters and the clock as its minute (`INSTANCE ... WITH` in
`Tasks`). `EditKeepsSchedule`, `FilesAreSafe`, `SearchIsCurrent`,
`CalendarIsCurrent`, `TerminalIsTransparent`, `DocumentsAreTheirFiles`,
`HistoryIsKept`, `TimesAreTrue`, `PagesTellTheTruth`, `SessionCanBeEnded`,
`ShownIsTheValue` and `ToolsDoAsAsked` say what their comments in `Programs` and
in the modules say. Four of them have exceptions that are findings, named in the property:
- `FilesAreSafe`: nothing is lost, and what was reported as moved to the trash has the
  info file written for it; it goes back by it unless that write was lost.
- `SearchIsCurrent`: the index has the files there are and the words each had when its
  directory was last read (`IndexIsCurrent`); the list has every file with all the words
  typed, said without the loop that searches (`HaveAll`), and no other but in the case of
  three words with an empty intersection (`ListIsCurrent`).
- `ToolsDoAsAsked`: a picture is its region; the application that the software centre
  has selected, and asks about, is one of its list, until the list is replaced under the
  question (`SelectedIsListed`); a key types what it shows, but for the keys without a
  letter under Caps Lock (`LabelsAreTyped`).
- `HistoryIsKept`: Back and Forward rewrite nothing but entries whose folder is gone.

A page's slider and its backlight are not claimed to have the
same percentage: neither rounds to the other exactly, so the property says that one
of them is the other rounded.

Bounds. Layout properties compare values only for equality, so one position
and one size beside the computed ones distinguish every case but
"another free geometry", for which `home` has two; the code's nine animation
steps differ from two only in the number of identical frames. Desktop's properties
relate a window with at most one other, and a workspace with the current one.
The counters of the other modules (`MaxEdits`, `MaxJobs`,
`MaxChanges`, `MaxRequests`, ...) bound how often the user or the outside acts,
not what the code does; each is large enough for one actor to act in the middle
of another's operation and once more after it. `MaxPattern` is three letters: a prefix,
a star and a suffix. `MaxSaves` lets a second save rewrite what the first one wrote,
with `MaxBusy` handlers in progress at once. The terminal has `MaxTyped` keys and
`MaxPrinted` units for a pty with room for `PtyRoom` bytes, so a write is taken in part
and a sequence is cut anywhere; the calendar has a month longer and a month shorter
than the day that is selected (`MonthStarts`); `MaxPressed` keys of the calculator are
two numbers, an operator, `=` and what follows. No depth is bounded: each run explores
its whole state space.

Deadlock is not checked (`CHECK_DEADLOCK FALSE`): after an assertion the
compositor is gone, in `Desktop` a session whose windows are all destroyed may
stay as it is, and in the compositions the bounded actions run out.

Fairness: `WindowLayout!Spec` has weak fairness of `Tick` only.
`Output::handleFrame` ends by scheduling the next frame unconditionally
(`output.cpp:235`), so frames keep coming while an output has a mode. `Services`
has weak fairness of a frame of an output that is due, of Qt timers that were
started (the popup's, the audio connection's), and of the audio library's
progress: of the event loops, never of a user, a client or a service that may
stay silent. `Desktop`, `CompositorParts` and `Programs` have no fairness and only
safety properties.

### Findings

Six statements of the repository's comments do not hold of the code; each is a
run with one property and a counterexample of a few steps:
1. `snap_restore`: the restore point of a snap may be the maximized size.
2. `frames_leave`: frames of a snap layout's animation move a maximized window.
3. `early`: a maximize request before the first commit hits the assertion the
   fullscreen handler guards against.
4. `focused_visible`: a minimized window keeps the keyboard.
5. `hit_order`: with always-on-top windows, clicks go to the window below.
6. `saved_value`: a changed key is written twice, and its old value is the one loaded.

`PROJECT.json` lists some thirty more disagreements between the code and its
comments, or the protocols it implements, that were met while translating it, each with both lines. The models
do what the code does there. Some behaviours contradict no comment but are worth
knowing, and the models have them too:
- two programs that load, change and save the configuration lose one of the
  updates (`config.cpp:122`);
- an output that is unplugged has no destroy listener (`output.cpp:143`), and a
  gamma commit that failed is not tried again before the next change
  (`server.cpp:391`);
- an X11 window that stops being override-redirect gets a new taskbar handle without
  its state (`xview.cpp`), hit tests do not skip minimized X11 windows, and raising one
  does not raise the always-on-top windows again (`server.cpp:679`);
- `pendingDecoration_` holds one window only (`server.cpp:776`), and only the first
  keyboard that is plugged is used;
- closing a notification by D-Bus leaves its popup and its row in the center;
- audio settings that wait for a connection cannot be asked for from the pages;
- the viewer fits a picture by its already scaled size (`viewerwindow.cpp:363`);
- in the software centre the message that an application was removed is replaced at
  once when the list is rebuilt, and a second removal is ignored while one runs
  (`storewindow.cpp:249`);
- the on-screen keyboard leaves its modifiers down when it is closed.

## 4. What is proved

Every theorem is about every value of the constants that the named assumptions
allow; the runs show the same property on the small instances of the table above.
The compositions take their properties from the modules by INSTANCE, so the theorem
that names `LockIsReleased` is about the very formula that the run `services` checks.
35 of the 40 properties that the passing runs check are theorems, among them every
invariant; the five others are liveness (see "Only model-checked").

A property is seldom inductive. Each section says what has to be known beside it.
The proofs go the way the code goes: a lemma for each method or handler says what it
keeps and what it leaves alone, and the step of an action cites the lemmas of the
methods that the action calls.

### Layouts

`WindowLayoutProofs`, from `LayoutAssumption` (the computed positions and sizes are
none of the free ones, the sets are not empty, an animation has a frame):

| theorem | statement |
|---|---|
| `TypeCorrect`, `Invariance` | `Spec => []TypeOK`, `Spec => []Inv` |
| `RestoreAgreement` | `Spec => []RestoreAgreesWithLayout` |
| `WithdrawnStaysWithdrawn` | `Spec => []PendingIsWanted` |
| `DrivenIsMapped` | `Spec => []OnlyMappedIsDriven` |
| `RestoreIsHome`, `HomeInvariance` | `HSpec => []RestorePointIsHome`, `HSpec => []HomeInv` |
| `LeavingGoesHome` | `HSpec => LeavingLayoutGoesHome` |

`RestoreAgreesWithLayout` alone is not inductive: a step keeps it only for a view
that is well typed and sane, and it is `Map` and `Unmap` that bring a view in and
out of the states where the layout commands may run. `Inv` conjoins the types and
the three properties with `Good(view)` (an animated view is mapped, a mapped one is
initialized and has a size) and `MapConsumesPending` (a mapped window has no
deferred fullscreen request).

`HomeInv` is `Inv` with: a restore point that was not saved in haste is `home`; and
the `home` of a floating window at rest is its geometry. Every method is shown
`Faithful`: it never replaces a restore point, never saves anything but the geometry
the window has at that moment, and when it consumes the restore point of a window
that does not move, it sends the window there. The run `home` stops a history at its
first hasty restore point; the theorems have no such constraint.

### Windows and focus

`DesktopProofs`, from `DesktopAssumption`:

| theorem | statement |
|---|---|
| `FocusIsSafe` | `Spec => []KeyboardFollowsFocus` |
| `ReferencesAreSafe` | `Spec => []DrivenAreMapped` |
| `ActivationIsUnique` | `Spec => FocusMovesActivation` |
| `SwitchIsComplete` | `Spec => SwitchFindsFocus` |
| `ListsStayComplete` | `Spec => []ListsAreComplete` |

`Inv` says of a desk that it is well typed, that the focused window is mapped and has
the keyboard, that drag and chooser point to mapped windows, that every mapped window
is listed, and that a panel has the keyboard only while it is mapped.
`SwitchIsComplete` needs the part about lists: `focusWorkspaceTop` searches `views_`,
and would not find a mapped window that is not in it. `ListInv` adds that `views_`
and the scene hold the same windows, each once, and that the switcher's choice is one
of its entries. `raiseView` raises a window and then every always-on-top window in the
order of the list: its loop (`Raised`) and the filter of Alt+Tab (`Those`) are
recursive functions, and what they yield is proved for lists of any length.

### The compositor's other parts

`CompositorPartsProofs`, from `XAssumption`, `InputAssumption`, `NightAssumption`,
`DisplayAssumption`, `TaskbarAssumption`, `ReadersAssumption` and `ConfigAssumption`:

| theorem | statement | what the invariant adds |
|---|---|---|
| `XWindowsStayConsistent` | `[]XWindowsAreConsistent` | `XFine`: what is drawn is what should be visible, what is held is listed, the lists hold a window once |
| `InputStaysConsistent` | `[]InputIsConsistent` | types; it is inductive with them |
| `LightStaysRecent` | `[]LightIsRecent` | `NightInv`: `active` is what the interval said at one of the last minutes, the timer runs exactly when the light is enabled, and the tables of the outputs that accepted their commits are those of `active` |
| `UntouchedApplyAlwaysKeeps` | `[]UntouchedApplyKeeps` | `PageFine`: until it is touched, each box of a page has the row of what was read, also where the output has no modes or an unlisted scale |
| `TaskbarStaysCurrent` | `[]TaskbarIsCurrent` | `BarKept`: for each window, in which order its events are on the wire, and that its last title, its last state and a `done` after them have arrived or are under way |
| `WordsStayUnderstood` | `[]WordsAreUnderstood` | nothing: the text does not change, and the lemmas say what the readers make of it |
| `SaveStaysExact` | `SaveIsExact` | `ConfigInv`: every entry of the file stands below a head (`Filed`); the copy of each handler in progress is `Prepared`; an open page holds a table of rules |

The proof about the taskbar is the longest: for every prefix of the wire that is read, the
buttons have to be on their way to the windows that there are, and the click of the user
comes back on another wire.

What a reader of text computes is proved for texts of any length. `ModifiersAre` and
`BindingUnderstood` say that the loop of `parseShortcut` accepts exactly the sequences
of different modifiers that end in a key; `StarMatchIs` that a prefix and a suffix
that fit without overlap are what a pattern with one star asks for; `RuleUnderstood` that
the loops of `parseRuleLine` give back every rule as the dialog wrote it;
`NightUnderstood` does the arithmetic of a day around midnight.

A copy is `Prepared` when no key that its page did not touch was removed or added, and,
when its page clears a section first, each key that it touched and the file had is
removed and has a value only if the page wants one. Nothing relates the copy to
the file as it is now: another program may have renamed its own over it, which is why
`SaveIsExact` speaks of the rows the copy was loaded from.
`Config::save` runs its loop over these rows twice, and leaves rows that a later load
reads in order, the last row of a key winning. `FirstLoop` and `SecondLoop` are the
invariants of the two passes: they relate what a load makes of the rows written so far to
what it makes of the rows read so far, for each key apart by whether it is still pending,
new or removed. `SavedIs` is what follows: a load of the file that was saved finds the
keys that were there and not removed as they were, and the values that were set for
all others. The first pass replaces the row of each key; the second goes through the same
rows again, and with nothing pending it keeps them, so the old value comes last: this is
the finding `saved_value`, and the reason why only pages that clear their section save
what they show.

### The session's services

`ServicesProofs`, from `OutputAssumption`, `LockAssumption` and `ClipboardAssumption`:

| theorem | statement | what the invariant adds |
|---|---|---|
| `LockStaysReleased` | `[]LockIsReleased` | `Sound`: the hooks are those of the lock the compositor points at and of its surface (`HooksOf`), both exist; and, on the wire, a client asks for one lock in its life, before anything else |
| `AreasStayCurrent` | `[]UsableIsCurrent` | `OutInv`: the usable area of each output is what its mapped panels leave of its present mode and scale; mapped panels are on outputs that are plugged |
| `TrayStaysCurrent` | `[]TrayIsCurrent` | `Stands`: an item's program runs, or its end is still to be read, behind the registration if that is still to be read too |
| `HistoryStaysCurrent` | `[]HistoryFollowsClipboard` | the history holds no content twice and at most `MaxEntries`, and begins with the clipboard's when the change signals are not blocked; an open panel has its rows |

The proof about the lock goes through wlroots' order of destruction
(`DestroySurfaceSound`, `DestroyLockSound`) and then one lemma per request and per
step of a client.

### Programs over files

`ProgramsProofs`, from `FilesAssumption`, `FoldersAssumption`, `SearchAssumption`,
`DocumentsAssumption` and `CalculatorAssumption`:

| theorem | statement | what the invariant adds |
|---|---|---|
| `FilesStaySafe` | `[]FilesAreSafe` | each process in the middle of its operation: a file on its way to the trash has its info file and was not reported; a source is removed only when there is a copy; an info file about to be removed exists and is not that of a reported file (so emptying in one process cannot break a move in the other) |
| `SearchStaysCurrent` | `[]SearchIsCurrent` | only watched directories give notice, and only of a ready index; a directory whose notices were handled is in the index as it is but for `quiet` (`Agrees`); when the typing has settled, what it searched for is shown; and of any text the search finds the files that have all words, but in the excepted case (`SearchIs`, from `NarrowedIs`, by induction over the words) |
| `HistoryStaysKept` | `HistoryIsKept` | back, current and forward, one after the other, are one list (`ListOf`); they hold folders, whatever becomes of these |
| `DocumentsStayTheirFiles` | `[]DocumentsAreTheirFiles` | one part per program; for the viewer, the label shows the page, at the scale, of the document that is loaded |
| `DisplayStaysTrue` | `[]ShownIsTheValue` | `Settled`: the accumulator is the value of the keys before the number being typed, the waiting operator is the last one pressed, and the entry is fresh exactly when no digit follows it |

The meaning of a line of keys (`Value`, `Number`) is a function over its positions, so a
further key adds one step to it: lines that begin alike have the same values there
(`ValuesAgree`), a digit changes the last number only (`SettledDigit`), an operator
completes what is before it (`OperatorEnds`), and `CE` takes the digits at the end back
(`SettledCut`).

### Tasks and pages

`SettingsProofs`, from `TasksAssumption`, `AppsAssumption`, `BacklightAssumption`,
`NetworkAssumption` and `CalendarAssumption`:

| theorem | statement | what the invariant adds |
|---|---|---|
| `EditsStayHarmless` | `[]EditKeepsSchedule` | types: a schedule is one the templates or the fields can produce, and every task of every list has one |
| `TasksRunOnce` | `Spec => OncePerMinute` | the refinement of `TaskPromise`: a task that was started in this minute has its key remembered (`Known`), no key is of a later minute |
| `PagesStayTrue` | `[]PagesTellTheTruth` | default programs: a page that wrote n kinds with nobody beside it (`Whole`): these open as chosen, all else as before, and what it read for the next kind is still the list. Controls: a slider that is not held and a switch that was just read show what the device has. Network: while a look goes on, the device asked for its address carried the connection (`Backed`) |
| `CalendarStaysCurrent` | `[]CalendarIsCurrent` | `CalInv`: the month on the page, its selected day, its cells, dots and list are those of the store; the store is a list of events |

`CalendarAssumption` is what is true of every calendar: months begin one after the other,
and the grid has room for the longest of them behind the days of a week. That a page is
shown again after every change is in `PageBuilt`; `SameDayIsThere` is about the day
that the next month may not have. `DayHasEvents` says that a day's list is empty
exactly when no event is on that day, which the dots are drawn by.

The daemon drops keys when it remembers too many. `Known` survives that because the
keys it keeps are the latest ones, and `TasksAssumption` has it remember at least the
tasks of one minute (`MaxRanKeys` is 1024, `tasks/main.cpp:76`). The pass of the timer
over the tasks is a recursive function (`Visited`); what it has started and remembered
after any number of tasks is proved with `ListTheorems`.

### Tools

`ToolsProofs`, from `ClockAssumption`, `ShotAssumption`, `StoreAssumption` and
`TerminalAssumption`:

| theorem | statement | what the invariant adds |
|---|---|---|
| `TimesStayTrue` | `[]TimesAreTrue` | the stored target and base against the time that passed; an alarm that rang has left its key |
| `SessionStaysEndable` | `[]SessionCanBeEnded` | the button that is offered tells whether there is a process, and only a window that is up has one |
| `ToolsStayTrue` | `[]ToolsDoAsAsked` | screenshot: the buffer converted row by row from either end and cropped is the region's part of the screen, for every region. Software: a rebuilt list selects its first application, and the button is that one's (`RebuiltKeeps`). Keyboard: until an answer is lost, the record of the keyboard and that of the compositor agree on each modifier, and on the lock that a release under way completes (`OskAgrees`), so that the label, chosen by Shift xor Caps Lock, is what xkb types of a letter |
| `TerminalStaysTransparent` | `[]TerminalIsTransparent` | `KeysInv`: what the shell got, what is in the pty and what waits are the keys typed, in that order. `OutInv`: if the automaton read on from what is shown through the half of a character and all that is on its way, it would show the text of what was printed |

`OutInv` is an invariant about the future of the parser, because where a read cuts the
output is not known before: `RunConcat` (reading a list and then another is reading both)
carries it over every cut. A clear is excepted, as in the property.

### Induction over lists

The library's induction theorems take an operator as a parameter, which no installed
prover can instantiate. `ListTheorems` gets by without: `SmallestExists` (a set of
numbers has a smallest one, from the well-foundedness of `<`) turns an induction into
the smallest counterexample, and `Reached`, `Values` and `Computed` state once what
follows for a function computed step by step. `Run` is such a function for any step and
list, and `RunConcat` says that it goes through two lists one after the other. The
loops of the code that proofs are about (`Raised`, `Those`, `Visited`, `Modifiers`,
`Reading`, `Writing`, `Ended`, `Value`) are therefore recursive functions over
positions, not recursive operators.

### Only model-checked

- Liveness under fairness, out of the prover's reach: `AnimationEnds`,
  `BackgroundCatchesUp`, `PopupEnds`, `PlaybackEnds`, `DriversStop`.
- The six findings are counterexamples of TLC.

Working on the model for the proofs changed it where it said less than it seemed to:
`Tick` of the daemon saves only when something started; the slider's property held
only of the three levels of its run and is now stated for every number of levels; and a
brightness that cannot be written leaves the control panel's slider as it was. The months
of the calendar are given by their first days, as `QDate` gives them, and a removed
event leaves the others in their order; the value of a calculator's line is now that of
each of its beginnings, which is what the error and the display are compared with;
rows above the first head belong to no section (`NoSection`).

## 5. What is left

To prove next: the properties of `Audio` and `Recorder` that are safety in disguise (what
a callback may still find), which the liveness of `PlaybackEnds` and `DriversStop` rests
on; and that of the configuration file the rows of comments are kept.

To model next: popups and their grabs; touch and hover; decorations; the list of
windows over D-Bus; an output that goes away, once the code handles it.

### Not modelled

- Drawing: title texts, shadows, themes, desktop icons, widgets of the panels. No
  protocol state.
- Monitor, devices, disks, cleanup and the character map read files and commands of
  the system when a timer or a button says so and show them: one actor, and state for
  one refresh only.
- The single instance helper: two D-Bus calls. Two starts that both find no
  instance race for the name, and the loser leaves without passing on its path; it
  is listed as a hazard.
- Start-up: option parsing and the session's shell script.
- `moveViewToWorkspace`, `moveXViewToWorkspace` and `XView::animateMoveTo`: no caller.
- wlroots and stb are vendored; what the code relies on is in the guards of the
  actions.
