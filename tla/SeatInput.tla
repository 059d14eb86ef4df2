----------------------------- MODULE SeatInput -----------------------------
(***************************************************************************)
(* The input side of class Seat: keyboards and pointers that come and go,  *)
(* the synthetic keyboard that stands in when there is none, the input     *)
(* settings and whom they were applied to, the order in which a key press  *)
(* is offered to the snap layout chooser, the Alt+Tab switcher, the        *)
(* shortcuts and the client, and keys that the on-screen keyboard injects. *)
(*                                                                         *)
(* Which window has the focus and what the choosers do with it is in       *)
(* Desktop; what a client is told of keys is left out.                     *)
(***************************************************************************)
EXTENDS Integers, FiniteSets

CONSTANTS
    Keyboards,     \* keyboard devices
    Pointers,      \* pointer devices
    Versions,      \* input settings, numbered; the file has the first, 0
    Virtual,       \* virtualKeyboard_
    NoKeyboard

\* win+z is SnapLayout, win+x any other shortcut, x any other key.
Keys == {"alt", "tab", "win", "z", "x"}

VARIABLES
    plugged,       \* devices that exist
    keyboard,      \* keyboard_
    seatKeyboard,  \* wlr_seat_get_keyboard
    pointers,      \* pointerDevices_
    settings,      \* inputSettings_
    applied,       \* settings each plugged device last got
    held,          \* keys that are down on keyboard_
    injected,      \* keys that are down in injectState_
    layoutOf,      \* whose keymap injectState_ was made for
    window,        \* focusedView_ # null
    switcher,      \* alttab_->active()
    chooser        \* snaplayout_->active()

seatVars == <<plugged, keyboard, seatKeyboard, pointers, settings, applied, held,
              injected, layoutOf, window, switcher, chooser>>
deviceState == <<plugged, keyboard, seatKeyboard, pointers, settings, applied>>
keyState    == <<held, injected, layoutOf, window, switcher, chooser>>

Mods == held \intersect {"alt", "win"}

-----------------------------------------------------------------------------
(* Devices.                                                                *)

Init ==
    /\ plugged = {} /\ keyboard = NoKeyboard /\ seatKeyboard = Virtual
    /\ pointers = {} /\ settings = 0
    /\ applied = [d \in Keyboards \union Pointers |-> 0]
    /\ held = {} /\ injected = {} /\ layoutOf = NoKeyboard
    /\ window = FALSE /\ switcher = FALSE /\ chooser = FALSE

\* Only the first keyboard is used.
NewKeyboard(k) ==
    /\ k \notin plugged
    /\ plugged' = plugged \union {k}
    /\ IF keyboard # NoKeyboard
       THEN UNCHANGED <<keyboard, seatKeyboard, applied>>
       ELSE /\ keyboard' = k /\ seatKeyboard' = k
            /\ applied' = [applied EXCEPT ![k] = settings]
    /\ UNCHANGED <<pointers, settings>> /\ UNCHANGED keyState

\* Mutant of NewPointer: the device is remembered but not set up.
NewPointerUnset(p) ==
    /\ p \notin plugged
    /\ plugged' = plugged \union {p} /\ pointers' = pointers \union {p}
    /\ UNCHANGED <<keyboard, seatKeyboard, settings, applied>>
    /\ UNCHANGED keyState

NewPointer(p) ==
    /\ p \notin plugged
    /\ plugged' = plugged \union {p} /\ pointers' = pointers \union {p}
    /\ applied' = [applied EXCEPT ![p] = settings]
    /\ UNCHANGED <<keyboard, seatKeyboard, settings>>
    /\ UNCHANGED keyState

\* wlr_seat keeps its keyboard until it is told: first none, then the synthetic
\* one.  A device that goes away comes back as a new one.
KeyboardDestroy(k) ==
    /\ k \in plugged
    /\ plugged' = plugged \ {k} /\ applied' = [applied EXCEPT ![k] = 0]
    /\ IF k # keyboard
       THEN UNCHANGED <<keyboard, seatKeyboard, held>>
       ELSE keyboard' = NoKeyboard /\ seatKeyboard' = Virtual /\ held' = {}
    /\ UNCHANGED <<pointers, settings, injected, layoutOf, window, switcher, chooser>>

PointerDestroy(p) ==
    /\ p \in plugged
    /\ plugged' = plugged \ {p} /\ pointers' = pointers \ {p}
    /\ applied' = [applied EXCEPT ![p] = 0]
    /\ UNCHANGED <<keyboard, seatKeyboard, settings>>
    /\ UNCHANGED keyState

\* The settings program through the D-Bus service.
ApplyInputSettings(v) ==
    /\ v # settings
    /\ settings' = v
    /\ applied' = [d \in Keyboards \union Pointers |->
                     IF d \in pointers \union {keyboard} THEN v ELSE applied[d]]
    /\ UNCHANGED <<plugged, keyboard, seatKeyboard, pointers>>
    /\ UNCHANGED keyState

-----------------------------------------------------------------------------
(* Keys.                                                                   *)

\* While the chooser is open it takes every key, and tells the client of none.
ChooserKey(k, press) ==
    /\ chooser
    /\ chooser' \in IF press /\ k = "z" /\ Mods = {"win"} THEN {FALSE}
                    ELSE IF press /\ k = "x" THEN BOOLEAN       \* Enter, Escape
                    ELSE {TRUE}
    /\ UNCHANGED <<window, switcher>>

AltTabKey ==
    /\ ~chooser
    /\ switcher' \in {switcher, TRUE}   \* show (if there is a window), prev or next
    /\ UNCHANGED <<window, chooser>>

\* Mutant of Shortcut: the chooser opens on top of the switcher.
ShortcutOver(k) ==
    /\ ~chooser
    /\ chooser' = (k = "z" /\ window)
    /\ window' \in IF k = "x" THEN BOOLEAN ELSE {window}
    /\ UNCHANGED switcher

\* dispatchShortcut: one action opens the chooser, others may change the focus.
Shortcut(k) ==
    /\ ~chooser
    /\ chooser' = (k = "z" /\ window /\ ~switcher)
    /\ window' \in IF k = "x" THEN BOOLEAN ELSE {window}
    /\ UNCHANGED switcher

KeyPress(k) ==
    /\ keyboard # NoKeyboard /\ k \notin held
    /\ held' = held \union {k}
    /\ \/ ChooserKey(k, TRUE)
       \/ k = "tab" /\ "alt" \in Mods /\ AltTabKey
       \/ k \in {"z", "x"} /\ Mods = {"win"} /\ Shortcut(k)
       \/ /\ ~chooser /\ ~(k = "tab" /\ "alt" \in Mods)
          /\ ~(k \in {"z", "x"} /\ Mods = {"win"})
          /\ UNCHANGED <<window, switcher, chooser>>
    /\ UNCHANGED <<injected, layoutOf>> /\ UNCHANGED deviceState

\* Releasing Alt applies what the switcher chose.
KeyRelease(k) ==
    /\ k \in held
    /\ held' = held \ {k}
    /\ \/ ChooserKey(k, FALSE)
       \/ /\ ~chooser
          /\ switcher' = (switcher /\ k # "alt")
          /\ window' \in IF switcher /\ k = "alt" THEN BOOLEAN ELSE {window}
          /\ UNCHANGED chooser
    /\ UNCHANGED <<injected, layoutOf>> /\ UNCHANGED deviceState

\* injectKey: from the on-screen keyboard straight to the client.  A state made
\* for another keymap is thrown away, with the keys that were down in it.
InjectKey(k) ==
    /\ LET now  == IF keyboard # NoKeyboard THEN keyboard ELSE Virtual
           kept == IF layoutOf = now THEN injected ELSE {}
       IN \E press \in BOOLEAN :
            /\ layoutOf' = now
            /\ injected' = IF press THEN kept \union {k} ELSE kept \ {k}
    /\ seatKeyboard' = IF keyboard = NoKeyboard /\ seatKeyboard = NoKeyboard
                       THEN Virtual ELSE seatKeyboard
    /\ UNCHANGED <<plugged, keyboard, pointers, settings, applied>>
    /\ UNCHANGED <<held, window, switcher, chooser>>

\* The focus changes hands; a window that goes closes the chooser opened for it.
Refocus ==
    /\ window' = ~window
    /\ chooser' \in {chooser, FALSE}
    /\ UNCHANGED <<held, injected, layoutOf, switcher>>
    /\ UNCHANGED deviceState

Next ==
    \/ \E k \in Keyboards : NewKeyboard(k) \/ KeyboardDestroy(k)
    \/ \E p \in Pointers : NewPointer(p) \/ PointerDestroy(p)
    \/ \E v \in Versions : ApplyInputSettings(v)
    \/ \E k \in Keys : KeyPress(k) \/ KeyRelease(k)
    \/ InjectKey("x")
    \/ Refocus

Spec == Init /\ [][Next]_seatVars

-----------------------------------------------------------------------------
(* The seat refers only to devices that exist, always has a keyboard for   *)
(* its clients, and every device in use has the settings last applied,     *)
(* whichever of the settings and the device came first.                    *)
DevicesAgree ==
    /\ pointers = plugged \intersect Pointers
    /\ keyboard \in plugged \union {NoKeyboard}
    /\ seatKeyboard = IF keyboard = NoKeyboard THEN Virtual ELSE keyboard
    /\ \A d \in pointers \union ({keyboard} \ {NoKeyboard}) : applied[d] = settings

(* The snap layout chooser and the Alt+Tab switcher are never open         *)
(* together: each takes keys that the other waits for.                     *)
ChoosersExclude == ~(chooser /\ switcher)

(* Both.                                                                   *)
InputIsConsistent == DevicesAgree /\ ChoosersExclude
=============================================================================
