---------------------------- MODULE CompositorParts ----------------------------
(***************************************************************************)
(* Parts of the compositor beside its windows, and those that work with    *)
(* it: X11 windows, input devices, the night light, the pages that set up  *)
(* displays, the taskbar's list of windows, the configuration file that    *)
(* the compositor shares with the programs, and its readers.               *)
(*                                                                         *)
(* They share no state here, so their behaviours need no product: a        *)
(* behaviour of this module picks one of them and runs it, the others stay *)
(* where they began.  Nothing of it needs fairness.                        *)
(***************************************************************************)
EXTENDS Integers, Sequences

CONSTANTS
    XIds, Resizable, Desks, Native, Empty,                               \* XWindows
    Keyboards, Pointers, Versions, Virtual, NoKeyboard,                  \* SeatInput
    Screens, NightDay, NightWindows, Temps,                              \* NightLight
    DisplayPrograms, OutputList, Offered, Common, Scales, Places, MaxSettings,
                                                                         \* DisplayPages
    NumWindows, Blank, Titles, MaxWire, MaxAsked, MaxTitles,             \* Taskbar
    TitleLetters, MaxPattern,                                            \* ConfigReaders
    RulePrograms, MaxBusy, MaxSaves, MaxEdits                            \* ConfigFile

\* There is a first workspace, and neither the xdg window nor nothing is an X11 window.
ASSUME XAssumption == 0 \in Desks /\ {Native, Empty} \intersect XIds = {}

\* A device is a keyboard or a pointer, and no keyboard is the null pointer.
ASSUME InputAssumption ==
    Keyboards \intersect Pointers = {} /\ NoKeyboard \notin Keyboards

\* A day has at least two minutes.
ASSUME NightAssumption == NightDay \in Nat \ {0, 1}

\* There is an output; a mode has a width and a scale is a percentage.
ASSUME DisplayAssumption ==
    /\ OutputList \in Seq({OutputList[i] : i \in DOMAIN OutputList}) /\ OutputList # <<>>
    /\ \A i \in DOMAIN OutputList : Offered[OutputList[i]] \in Seq(Nat)
    /\ Common \in Seq(Nat) /\ Common # <<>>
    /\ Scales \subseteq Nat \ {0}

\* There are finitely many windows.
ASSUME TaskbarAssumption == NumWindows \in Nat

\* Titles and patterns are not longer than some number of letters.
ASSUME ReadersAssumption == MaxPattern \in Nat

\* Two programs have a window rules page.
ASSUME ConfigAssumption == RulePrograms \subseteq {"settings", "control"}

VARIABLES
    component,                                                   \* the one that runs
    xs, xsAborted,                                               \* XWindows
    plugged, keyboard, seatKeyboard, pointers, inputSettings, deviceApplied, held,
    injected, layoutOf, focused, switcher, chooser,              \* SeatInput
    nightNow, night, active, applied, timer, late, lit, gamma, failed,       \* NightLight
    mode, scale, place, service, displayPages, displaySettings,  \* DisplayPages
    tops, dirty, wire, listening, handles, buttons, asked, retitled,         \* Taskbar
    case,                                                        \* ConfigReaders
    file, writer, rulesPage, saves, edits                        \* ConfigFile

X11 == INSTANCE XWindows
Input == INSTANCE SeatInput WITH
         settings <- inputSettings, applied <- deviceApplied, window <- focused
Night == INSTANCE NightLight WITH
         Day <- NightDay, Windows <- NightWindows, now <- nightNow
Display == INSTANCE DisplayPages WITH
         Programs <- DisplayPrograms, pages <- displayPages, settings <- displaySettings
Bar == INSTANCE Taskbar
Readers == INSTANCE ConfigReaders WITH
         Day <- NightDay, Letters <- TitleLetters, MaxText <- MaxPattern
Cfg == INSTANCE ConfigFile WITH Editors <- RulePrograms

x11Vars       == <<xs, xsAborted>>
inputVars     == <<plugged, keyboard, seatKeyboard, pointers, inputSettings,
                   deviceApplied, held, injected, layoutOf, focused, switcher,
                   chooser>>
nightVars     == <<nightNow, night, active, applied, timer, late, lit, gamma,
                   failed>>
displayVars   == <<mode, scale, place, service, displayPages, displaySettings>>
taskbarVars   == <<tops, dirty, wire, listening, handles, buttons, asked,
                   retitled>>
configVars    == <<file, writer, rulesPage, saves, edits>>

vars == <<component, x11Vars, inputVars, nightVars, displayVars, taskbarVars, case, configVars>>

-----------------------------------------------------------------------------
FirstNight == CHOOSE c \in Night!Settings : ~c.enabled

\* A component that does not run has one of its initial states.
Init ==
    /\ component \in {"x11", "input", "night", "display", "taskbar", "readers", "config"}
    /\ X11!Init /\ Input!Init /\ Display!Init /\ Bar!Init
    /\ Night!Init /\ (component # "night" => nightNow = 0 /\ lit = {} /\ night = FirstNight)
    /\ IF component = "readers" THEN Readers!Init ELSE case = [of |-> "none"]
    /\ Cfg!Init /\ (component # "config" => file = <<>>)

Alone(c) ==
    /\ component = c /\ UNCHANGED component
    /\ \/ c = "x11"     \/ UNCHANGED x11Vars
    /\ \/ c = "input"   \/ UNCHANGED inputVars
    /\ \/ c = "night"   \/ UNCHANGED nightVars
    /\ \/ c = "display" \/ UNCHANGED displayVars
    /\ \/ c = "taskbar" \/ UNCHANGED taskbarVars
    /\ \/ c = "readers" \/ UNCHANGED case
    /\ \/ c = "config"  \/ UNCHANGED configVars

XStep         == Alone("x11")      /\ X11!Next
InputStep     == Alone("input")    /\ Input!Next
NightStep     == Alone("night")    /\ Night!Next
DisplayStep   == Alone("display")  /\ Display!Next
TaskbarStep   == Alone("taskbar")  /\ Bar!Next
ReadersStep   == Alone("readers")  /\ Readers!Next
ConfigStep    == Alone("config")   /\ Cfg!Next

Next == XStep \/ InputStep \/ NightStep \/ DisplayStep \/ TaskbarStep \/ ReadersStep \/ ConfigStep

Spec == Init /\ [][Next]_vars

-----------------------------------------------------------------------------
(* What the modules state of their components, each there.                 *)

\* XWindows: what is drawn of a window is what should be visible, and the seat
\* holds on to no window that is gone.
XWindowsAreConsistent == X11!DrawnIsVisible /\ X11!HeldAreListed
\* SeatInput: the seat's devices are those plugged in, with the settings last
\* applied, and only one of the two choosers takes the keys.
InputIsConsistent == Input!InputIsConsistent
\* NightLight: the light is the one for the time and the settings.
LightIsRecent == Night!LightIsRecent
\* DisplayPages: applying an untouched page changes no output.
UntouchedApplyKeeps == Display!UntouchedApplyKeeps
\* Taskbar: the buttons show the windows there are, once all is delivered.
TaskbarIsCurrent == Bar!TaskbarIsCurrent
\* ConfigReaders: a binding, a pattern, a rule and a night mean what was written.
WordsAreUnderstood ==
    /\ Readers!BindingIsUnderstood /\ Readers!StarStandsForAnyText
    /\ Readers!RuleSurvivesSave /\ Readers!NightIsAnInterval
\* ConfigFile: a save changes what its page changed and nothing else.
SaveIsExact == Cfg!SaveIsExact
-----------------------------------------------------------------------------
(* Values for a configuration, which cannot write pairs, sequences and     *)
(* functions.                                                              *)

\* An interval within a day, and one over midnight.
TwoNights == {<<1, 4>>, <<5, 2>>}

\* An output of a nested session, which offers no modes, and a monitor.
TwoOutputs == <<"o1", "o2">>
TwoModes   == <<8, 4>>
MonitorOffers == [o \in {"o1", "o2"} |-> IF o = "o1" THEN <<>> ELSE <<8, 4>>]
=============================================================================
