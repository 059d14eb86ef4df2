---------------------------- MODULE ScreenKeyboard ----------------------------
(***************************************************************************)
(* The on-screen keyboard (class OskWindow and osk.cpp) and the state the  *)
(* compositor keeps for the keys it injects (Seat::injectKey): two records *)
(* of which modifiers are down, kept equal by one blocking call per key.   *)
(*                                                                         *)
(* A call may be refused when the service is gone, and its answer may not  *)
(* come within the second it is waited for although the key was injected.  *)
(***************************************************************************)
EXTENDS Integers

CONSTANTS
    Keymaps,   \* keymaps of real keyboards, and the default one
    MaxLost    \* bound on calls refused or not answered in time, and on restarts

\* Keys of each kind; the others behave as these.
Shifts == {"Shift_L", "Shift_R"}
Modifiers == Shifts \union {"Ctrl"}
Chars == {"a", "1"}
Letters == {"a"}

VARIABLES
    open,         \* the keyboard's window is up
    heldMods,     \* heldMods_
    shiftPressed, \* shiftPressed_
    capsLocked,   \* capsLocked_
    labels,       \* text on the character keys
    checked,      \* buttons of modifiers drawn as pressed
    status,
    keymap,       \* the seat's keymap
    injectKeymap, \* injectStateKeymap_, or ""
    down,         \* modifiers down in injectState_, with how often
    caps,         \* Caps Lock in injectState_: locked, how often down, what its release does
    pending,      \* the rest of the click that is under way: <<key, press>>, or <<>>
    parted,       \* history: why the two records may differ
    losses

oskVars == <<open, heldMods, shiftPressed, capsLocked, labels, checked, status>>
seatKeys == <<keymap, injectKeymap, down, caps>>
keyboardVars == <<oskVars, seatKeys, pending, parted, losses>>

-----------------------------------------------------------------------------
(* The keys.                                                               *)

\* layout(shifted): only the labels of characters depend on it.
Layout(shifted) ==
    [k \in Chars |-> CASE k = "a" -> IF shifted THEN "A" ELSE "a"
                       [] k = "1" -> IF shifted THEN "!" ELSE "1"]

IsModifier(k) == k \in Modifiers

\* What xkbcommon makes of a key: Shift chooses the upper level of every key, Caps Lock
\* that of a letter, and together they leave a letter small.
Typed(k, shift, lock) ==
    CASE k = "a" -> IF shift # lock THEN "A" ELSE "a"
      [] k = "1" -> IF shift THEN "!" ELSE "1"

NoneDown == [m \in Modifiers |-> 0]
NoCaps   == [locked |-> FALSE, down |-> 0, unlocks |-> FALSE]

Init ==
    /\ open = TRUE /\ heldMods = {} /\ shiftPressed = FALSE /\ capsLocked = FALSE
    /\ labels = Layout(FALSE) /\ checked = {} /\ status = "none"
    /\ keymap \in Keymaps /\ injectKeymap = "" /\ down = NoneDown /\ caps = NoCaps
    /\ pending = <<>> /\ parted = FALSE /\ losses = 0

\* xkbcommon: Caps Lock locks when it is pressed, and the press that finds it locked
\* unlocks it when it is released; of presses that overlap the last release counts.
CapsAfter(c, press) ==
    IF press THEN IF c.down > 0 THEN [c EXCEPT !.down = @ + 1]
                  ELSE [locked |-> TRUE, down |-> 1, unlocks |-> c.locked]
    ELSE IF c.down > 1 THEN [c EXCEPT !.down = @ - 1]
    ELSE [locked |-> c.locked /\ ~(c.down = 1 /\ c.unlocks), down |-> 0, unlocks |-> FALSE]

\* Seat::injectKey: a state made for another keymap is thrown away with what was
\* down in it; a modifier is down as often as it was pressed and not released.
SeatInjectKey(k, press) ==
    LET kept == IF injectKeymap = keymap THEN down ELSE NoneDown
        lock == IF injectKeymap = keymap THEN caps ELSE NoCaps
    IN  /\ injectKeymap' = keymap /\ UNCHANGED keymap
        /\ down' = IF ~IsModifier(k) THEN kept
                   ELSE [kept EXCEPT ![k] = IF press THEN @ + 1 ELSE IF @ > 0 THEN @ - 1 ELSE 0]
        /\ caps' = IF k = "Caps_Lock" THEN CapsAfter(lock, press) ELSE lock

\* injectKey: whether the call was answered.  A refused call changes nothing, one
\* answered too late has done its work.
InjectKey(k, press, answered) ==
    \/ answered /\ SeatInjectKey(k, press) /\ UNCHANGED <<parted, losses>>
    \/ /\ ~answered /\ losses < MaxLost /\ losses' = losses + 1
       /\ \/ UNCHANGED seatKeys
             /\ parted' = (parted \/ (k = "Caps_Lock" /\ ~press))
          \/ SeatInjectKey(k, press) /\ parted' = TRUE

-----------------------------------------------------------------------------
(* Clicks.                                                                 *)

Failed == status' = "failed"

Idle == open /\ pending = <<>>

\* The button itself changes its check mark with every click.
Toggled(k) == checked' = IF k \in checked THEN checked \ {k} ELSE checked \union {k}

ClickModifier(k) ==
    /\ Idle /\ IsModifier(k) /\ Toggled(k)
    /\ \E answered \in BOOLEAN :
        /\ InjectKey(k, k \notin heldMods, answered)
        /\ IF ~answered
           THEN Failed /\ UNCHANGED <<heldMods, shiftPressed, labels>>
           ELSE /\ heldMods' = IF k \in heldMods THEN heldMods \ {k} ELSE heldMods \union {k}
                /\ shiftPressed' = (heldMods' \intersect Shifts # {})
                /\ labels' = IF k \in Shifts THEN Layout(shiftPressed' # capsLocked) ELSE labels
                /\ UNCHANGED status
    /\ UNCHANGED <<open, capsLocked, pending>>

\* Mutant: a lock that could not be injected is shown all the same.
ClickCapsKept ==
    /\ Idle
    /\ \E answered \in BOOLEAN :
        /\ InjectKey("Caps_Lock", TRUE, answered)
        /\ capsLocked' = ~capsLocked /\ labels' = Layout(shiftPressed # capsLocked')
        /\ IF answered THEN pending' = <<"Caps_Lock", FALSE>> /\ UNCHANGED status
           ELSE Failed /\ UNCHANGED pending
    /\ UNCHANGED <<open, heldMods, shiftPressed, checked>>

\* The layer changes first, and changes back when the key was not injected.
ClickCaps ==
    /\ Idle
    /\ \E answered \in BOOLEAN :
        /\ InjectKey("Caps_Lock", TRUE, answered)
        /\ IF answered
           THEN /\ capsLocked' = ~capsLocked /\ labels' = Layout(shiftPressed # capsLocked')
                /\ pending' = <<"Caps_Lock", FALSE>> /\ UNCHANGED status
           ELSE Failed /\ UNCHANGED <<capsLocked, labels, pending>>
    /\ UNCHANGED <<open, heldMods, shiftPressed, checked>>

ClickChar(k) ==
    /\ Idle /\ k \in Chars
    /\ \E answered \in BOOLEAN :
        /\ InjectKey(k, TRUE, answered)
        /\ IF answered THEN pending' = <<k, FALSE>> /\ UNCHANGED status
           ELSE Failed /\ UNCHANGED pending
    /\ UNCHANGED <<open, heldMods, shiftPressed, capsLocked, labels, checked>>

\* The second call of a click; nobody looks whether Caps Lock was released.
Release ==
    /\ pending # <<>>
    /\ \E answered \in BOOLEAN :
        /\ InjectKey(pending[1], FALSE, answered)
        /\ status' = IF pending[1] = "Caps_Lock" THEN status
                     ELSE IF answered THEN "sent" ELSE "failed"
    /\ pending' = <<>>
    /\ UNCHANGED <<open, heldMods, shiftPressed, capsLocked, labels, checked>>

\* The program ends without releasing anything, and starts without asking.
CloseAndStart ==
    /\ Idle /\ losses < MaxLost /\ losses' = losses + 1
    /\ heldMods' = {} /\ shiftPressed' = FALSE /\ capsLocked' = FALSE
    /\ labels' = Layout(FALSE) /\ checked' = {} /\ status' = "none"
    /\ parted' = (parted \/ heldMods # {} \/ capsLocked)
    /\ UNCHANGED <<open, seatKeys, pending>>

\* A keyboard is plugged in or taken out.
ChangeKeymap(m) ==
    /\ m # keymap /\ keymap' = m
    /\ parted' = (parted \/ injectKeymap = keymap)
    /\ UNCHANGED <<oskVars, injectKeymap, down, caps, pending, losses>>

Next ==
    \/ \E k \in Modifiers : ClickModifier(k)
    \/ ClickCaps \/ Release \/ CloseAndStart
    \/ \E k \in Chars : ClickChar(k)
    \/ \E m \in Keymaps : ChangeKeymap(m)

Spec == Init /\ [][Next]_keyboardVars

-----------------------------------------------------------------------------
\* Keyboard and compositor agree on the modifiers that are down and on Caps Lock, and a
\* key shows what it types, through every click whose call was refused; they part only
\* when a call was carried out but not answered in time, when the release of Caps Lock
\* was refused, when the keyboard's program ended with a key down or locked, or when the
\* seat changed its keymap and threw away the state.  Of the keys without a letter it is
\* so only while Caps Lock is off: oskwindow.cpp:141 shows them as if it were Shift.
LabelsAreTyped ==
    LET shift == \E s \in Shifts : down[s] > 0
    IN  ~parted /\ pending = <<>> =>
            /\ \A m \in Modifiers : down[m] = IF m \in heldMods THEN 1 ELSE 0
            /\ caps.locked = capsLocked
            /\ \A k \in Chars : k \in Letters \/ ~caps.locked =>
                   labels[k] = Typed(k, shift, caps.locked)
=============================================================================
