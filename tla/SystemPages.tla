------------------------------ MODULE SystemPages ------------------------------
(***************************************************************************)
(* The power and system pages of the settings and the system and hardware  *)
(* dialogs of the control panel: the slider over the backlight             *)
(* (PowerInfo), the switch over the Bluetooth adapter (BluetoothInfo) and  *)
(* the box over the autostart file.  A page knows what it read when it     *)
(* last looked; the two programs and the rest of the system change the     *)
(* same things.  The settings build a Bluetooth page too but never put it  *)
(* among their pages, so only the dialog's switch is ever used.            *)
(***************************************************************************)
EXTENDS Integers

CONSTANTS
    MaxBrightness,   \* of the backlight
    Positions,       \* where the user puts a slider, of 0..100
    MaxOutside       \* bound on what the rest of the system changes

VARIABLES
    backlight,       \* [level, writable], level -1 without a backlight
    adapter,         \* the Bluetooth adapter: "absent", "off" or "on"
    autostart,       \* w10de.desktop is there
    settings,        \* SettingsWindow
    dialog,          \* the open dialog of the control panel
    outside

pageVars == <<backlight, adapter, autostart, settings, dialog, outside>>

Present == backlight.level >= 0
Percent(level) == (level * 100) \div MaxBrightness
Level(percent) == (percent * MaxBrightness) \div 100

\* device: the page knows a backlight.  fresh (history): nothing that the page
\* shows was changed, by anyone but itself, since it last looked.
NoSlider == [device |-> FALSE, enabled |-> FALSE, value |-> 0, down |-> FALSE, fresh |-> TRUE]
NoSwitch == [enabled |-> FALSE, checked |-> FALSE, fresh |-> TRUE]

\* A refresh sets the slider with its signals blocked: nothing is written back.
RefreshPower(slider) ==
    IF Present THEN [slider EXCEPT !.device = TRUE, !.enabled = backlight.writable,
                                   !.value = Percent(backlight.level), !.fresh = TRUE]
    ELSE [slider EXCEPT !.device = FALSE, !.enabled = FALSE, !.fresh = TRUE]

\* Without the service the switch keeps what it showed.
RefreshBluetooth(switch, state) ==
    IF state = "absent" THEN [switch EXCEPT !.enabled = FALSE, !.fresh = TRUE]
    ELSE [enabled |-> TRUE, checked |-> state = "on", fresh |-> TRUE]

NoDialog == [up |-> "none", slider |-> NoSlider, switch |-> NoSwitch, box |-> FALSE]

Init ==
    /\ backlight \in {[level |-> l, writable |-> TRUE] : l \in {-1, MaxBrightness - 1}}
    /\ adapter = "off" /\ autostart = FALSE
    /\ settings = [slider |-> RefreshPower(NoSlider), box |-> FALSE, page |-> "other"]
    /\ dialog = NoDialog
    /\ outside = 0

Outside == outside < MaxOutside /\ outside' = outside + 1

-----------------------------------------------------------------------------
(* The rest of the system.                                                 *)

SystemDims(l, writable) ==
    /\ Outside /\ l \in -1..MaxBrightness
    /\ backlight' = [level |-> l, writable |-> writable]
    /\ settings' = [settings EXCEPT !.slider.fresh = FALSE]
    /\ dialog' = [dialog EXCEPT !.slider.fresh = FALSE]
    /\ UNCHANGED <<adapter, autostart>>

SystemPowers(state) ==
    /\ Outside /\ state # adapter /\ adapter' = state
    /\ dialog' = [dialog EXCEPT !.switch.fresh = FALSE]
    /\ UNCHANGED <<backlight, autostart, settings>>

-----------------------------------------------------------------------------
(* The sliders.                                                            *)

SliderOf(p) == IF p = "settings" THEN settings.slider ELSE dialog.slider
IsShown(p)  == IF p = "settings" THEN settings.page = "power" ELSE dialog.up = "system"

\* A page's slider becomes s; others' sliders are told nothing of what was written.
SetSlider(p, s, wrote) ==
    /\ settings' = IF p = "settings" THEN [settings EXCEPT !.slider = s]
                   ELSE [settings EXCEPT !.slider.fresh = @ /\ ~wrote]
    /\ dialog' = IF p = "settings" THEN [dialog EXCEPT !.slider.fresh = @ /\ ~wrote]
                 ELSE [dialog EXCEPT !.slider = s]
    /\ UNCHANGED <<adapter, autostart, outside>>

\* The level for a slider at v is written; the settings disable a slider whose
\* write fails, the dialog does not look.
ApplyBrightness(p, s) ==
    IF ~s.device THEN SetSlider(p, s, FALSE) /\ UNCHANGED backlight
    ELSE IF Present /\ backlight.writable
    THEN SetSlider(p, s, TRUE) /\ backlight' = [backlight EXCEPT !.level = Level(s.value)]
    ELSE /\ SetSlider(p, [s EXCEPT !.enabled = @ /\ p = "control"], FALSE)
         /\ UNCHANGED backlight

Press(p) ==
    /\ IsShown(p) /\ SliderOf(p).enabled /\ ~SliderOf(p).down
    /\ SetSlider(p, [SliderOf(p) EXCEPT !.down = TRUE], FALSE)
    /\ UNCHANGED backlight

Drag(p, v) ==
    /\ SliderOf(p).down /\ v # SliderOf(p).value
    /\ SetSlider(p, [SliderOf(p) EXCEPT !.value = v], FALSE)
    /\ UNCHANGED backlight

\* Mutant of Release: nothing is written.
ReleaseOnly(p) ==
    /\ SliderOf(p).down
    /\ SetSlider(p, [SliderOf(p) EXCEPT !.down = FALSE], FALSE)
    /\ UNCHANGED backlight

\* Moving a held slider writes nothing; its release does.
Release(p) ==
    /\ SliderOf(p).down
    /\ ApplyBrightness(p, [SliderOf(p) EXCEPT !.down = FALSE])

\* A key moves the slider without holding it.
SliderKey(p, v) ==
    /\ IsShown(p) /\ SliderOf(p).enabled /\ ~SliderOf(p).down /\ v # SliderOf(p).value
    /\ ApplyBrightness(p, [SliderOf(p) EXCEPT !.value = v])

-----------------------------------------------------------------------------
(* The settings.                                                           *)

\* Coming to the power page looks again, as its button does.
ShowPower ==
    /\ ~settings.slider.down
    /\ settings' = [settings EXCEPT !.page = "power", !.slider = RefreshPower(@)]
    /\ UNCHANGED <<backlight, adapter, autostart, dialog, outside>>

LeavePower ==
    /\ settings.page = "power" /\ ~settings.slider.down
    /\ settings' = [settings EXCEPT !.page = "other"]
    /\ UNCHANGED <<backlight, adapter, autostart, dialog, outside>>

\* The box of the settings writes at once; the file may fail to be written.
ToggleAutostart ==
    /\ settings.page = "other"
    /\ settings' = [settings EXCEPT !.box = ~@]
    /\ autostart' \in IF settings.box THEN {FALSE} ELSE {TRUE, autostart}
    /\ UNCHANGED <<backlight, adapter, dialog, outside>>

-----------------------------------------------------------------------------
(* The dialogs.                                                            *)

OpenSystem ==
    /\ dialog.up = "none"
    /\ dialog' = [NoDialog EXCEPT !.up = "system", !.box = autostart,
                                  !.slider = RefreshPower(NoSlider)]
    /\ UNCHANGED <<backlight, adapter, autostart, settings, outside>>

OpenHardware ==
    /\ dialog.up = "none"
    /\ dialog' = [NoDialog EXCEPT !.up = "hardware", !.switch = RefreshBluetooth(NoSwitch, adapter)]
    /\ UNCHANGED <<backlight, adapter, autostart, settings, outside>>

CheckAutostart ==
    /\ dialog.up = "system" /\ dialog' = [dialog EXCEPT !.box = ~@]
    /\ UNCHANGED <<backlight, adapter, autostart, settings, outside>>

\* The adapter may refuse; what it does then is read back.
ToggleBluetooth ==
    /\ dialog.up = "hardware" /\ dialog.switch.enabled
    /\ adapter' \in IF adapter = "absent" THEN {adapter}
                    ELSE {adapter, IF dialog.switch.checked THEN "off" ELSE "on"}
    /\ dialog' = [dialog EXCEPT !.switch =
                      RefreshBluetooth([dialog.switch EXCEPT !.checked = ~@], adapter')]
    /\ UNCHANGED <<backlight, autostart, settings, outside>>

\* Apply, or OK; only a difference is written, and OK keeps open what failed.
SaveSystem(close) ==
    /\ dialog.up = "system" /\ ~dialog.slider.down
    /\ \E failed \in IF dialog.box /\ ~autostart THEN BOOLEAN ELSE {FALSE} :
           /\ autostart' = IF failed THEN autostart ELSE dialog.box
           /\ dialog' = IF close /\ ~failed THEN NoDialog ELSE dialog
    /\ UNCHANGED <<backlight, adapter, settings, outside>>

CloseDialog ==
    /\ dialog.up # "none" /\ ~dialog.slider.down
    /\ dialog' = NoDialog
    /\ UNCHANGED <<backlight, adapter, autostart, settings, outside>>

Next ==
    \/ \E l \in -1..MaxBrightness, w \in BOOLEAN : SystemDims(l, w)
    \/ \E state \in {"absent", "off", "on"} : SystemPowers(state)
    \/ \E p \in {"settings", "control"} :
            \/ Press(p) \/ Release(p)
            \/ \E v \in Positions : Drag(p, v) \/ SliderKey(p, v)
    \/ ShowPower \/ LeavePower \/ ToggleAutostart
    \/ OpenSystem \/ OpenHardware \/ CheckAutostart \/ ToggleBluetooth
    \/ \E close \in BOOLEAN : SaveSystem(close)
    \/ CloseDialog

Spec == Init /\ [][Next]_pageVars

-----------------------------------------------------------------------------
\* A slider that can be moved stands for the level of the backlight, and the
\* switch for the state of the adapter, as long as only the page itself acted
\* since it looked: whatever was dragged, typed or refused, the control and the
\* device have not come apart.  A level has no exact percentage and a percentage no
\* exact level, so the one is the other rounded in the direction of the last move.
ControlsTellTheTruth ==
    /\ \A p \in {"settings", "control"} :
           LET s == SliderOf(p)
           IN  s.enabled /\ s.fresh /\ ~s.down =>
                   backlight.level = Level(s.value) \/ s.value = Percent(backlight.level)
    /\ dialog.switch.enabled /\ dialog.switch.fresh =>
           dialog.switch.checked = (adapter = "on")
=============================================================================
