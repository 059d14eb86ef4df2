-------------------------- MODULE CompositorPartsProofs --------------------------
(***************************************************************************)
(* Proofs about the parts of the compositor, each for every value of its   *)
(* constants.  An invariant of a component is kept by the steps of that    *)
(* component, and by the others because they leave its variables alone.    *)
(***************************************************************************)
EXTENDS CompositorParts, ListTheorems, TLAPS, SequenceTheorems, FiniteSetTheorems

-----------------------------------------------------------------------------
(* SeatInput: any number of keyboards and pointers, plugged, unplugged and *)
(* reconfigured in any order.                                              *)

\* Steps of the composition are steps of the seat.
LEMMA InputAlone ==
    ASSUME [Next]_vars
    PROVE  [Input!Next]_inputVars
BY DEF Next, vars, XStep, InputStep, NightStep, DisplayStep, TaskbarStep, ReadersStep,
       ConfigStep, Alone, inputVars

InputTypes ==
    /\ plugged \subseteq Keyboards \union Pointers
    /\ keyboard \in Keyboards \union {NoKeyboard}
    /\ deviceApplied = [d \in Keyboards \union Pointers |-> deviceApplied[d]]

\* The invariant, with the types that its steps need.
InputInv == InputTypes /\ Input!DevicesAgree /\ Input!ChoosersExclude

\* Keyboards that come, and go.
LEMMA KeyboardsKeep ==
    ASSUME InputInv, NEW k \in Keyboards, Input!NewKeyboard(k) \/ Input!KeyboardDestroy(k)
    PROVE  InputInv'
<1>1. CASE Input!NewKeyboard(k)
  <2>1. InputTypes' /\ Input!DevicesAgree'
    BY <1>1, InputAssumption DEF Input!NewKeyboard, InputInv, InputTypes, Input!DevicesAgree, InputAssumption
  <2>2. Input!ChoosersExclude'
    BY <1>1 DEF Input!NewKeyboard, Input!keyState, InputInv, Input!ChoosersExclude
  <2>3. QED
    BY <2>1, <2>2 DEF InputInv
<1>2. CASE Input!KeyboardDestroy(k)
  <2>1. InputTypes' /\ Input!DevicesAgree'
    BY <1>2, InputAssumption DEF Input!KeyboardDestroy, InputInv, InputTypes, Input!DevicesAgree, InputAssumption
  <2>2. Input!ChoosersExclude'
    BY <1>2 DEF Input!KeyboardDestroy, InputInv, Input!ChoosersExclude
  <2>3. QED
    BY <2>1, <2>2 DEF InputInv
<1>3. QED
  BY <1>1, <1>2

\* Pointers.
LEMMA PointersKeep ==
    ASSUME InputInv, NEW p \in Pointers, Input!NewPointer(p) \/ Input!PointerDestroy(p)
    PROVE  InputInv'
<1>1. CASE Input!NewPointer(p)
  <2>1. InputTypes' /\ Input!DevicesAgree'
    BY <1>1, InputAssumption DEF Input!NewPointer, InputInv, InputTypes, Input!DevicesAgree, InputAssumption
  <2>2. Input!ChoosersExclude'
    BY <1>1 DEF Input!NewPointer, Input!keyState, InputInv, Input!ChoosersExclude
  <2>3. QED
    BY <2>1, <2>2 DEF InputInv
<1>2. CASE Input!PointerDestroy(p)
  <2>1. InputTypes' /\ Input!DevicesAgree'
    <3>1. /\ plugged' = plugged \ {p} /\ pointers' = pointers \ {p}
          /\ deviceApplied' = [deviceApplied EXCEPT ![p] = 0]
          /\ UNCHANGED <<keyboard, seatKeyboard, inputSettings>>
      BY <1>2 DEF Input!PointerDestroy
    <3>2. p = keyboard => keyboard = NoKeyboard
      BY InputAssumption DEF InputInv, InputTypes, InputAssumption
    <3>3. InputTypes'
      BY <3>1 DEF InputInv, InputTypes
    <3>4. \A d \in Keyboards \union Pointers : d # p => deviceApplied'[d] = deviceApplied[d]
      BY <3>1 DEF InputInv, InputTypes
    <3>5. \A d \in pointers' \union ({keyboard'} \ {NoKeyboard}) :
              /\ d \in pointers \union ({keyboard} \ {NoKeyboard})
              /\ d # p /\ d \in Keyboards \union Pointers
      BY <3>1, <3>2 DEF InputInv, InputTypes, Input!DevicesAgree
    <3>6. Input!DevicesAgree'
      BY <3>1, <3>2, <3>4, <3>5 DEF InputInv, Input!DevicesAgree
    <3>7. QED
      BY <3>3, <3>6
  <2>2. Input!ChoosersExclude'
    BY <1>2 DEF Input!PointerDestroy, Input!keyState, InputInv, Input!ChoosersExclude
  <2>3. QED
    BY <2>1, <2>2 DEF InputInv
<1>3. QED
  BY <1>1, <1>2

\* New settings reach every device in use.
LEMMA SettingsKeep ==
    ASSUME InputInv, NEW v \in Versions, Input!ApplyInputSettings(v)
    PROVE  InputInv'
<1>1. InputTypes' /\ Input!DevicesAgree'
  BY InputAssumption DEF Input!ApplyInputSettings, InputInv, InputTypes, Input!DevicesAgree, InputAssumption
<1>2. Input!ChoosersExclude'
  BY DEF Input!ApplyInputSettings, Input!keyState, InputInv, Input!ChoosersExclude
<1>3. QED
  BY <1>1, <1>2 DEF InputInv

\* A step that leaves the devices alone.
LEMMA DevicesStay ==
    ASSUME InputInv, UNCHANGED Input!deviceState
    PROVE  InputTypes' /\ Input!DevicesAgree'
BY DEF InputInv, Input!deviceState, InputTypes, Input!DevicesAgree

\* Keys: what takes one of them never opens a second chooser.
LEMMA KeysKeep ==
    ASSUME InputInv, NEW k \in Input!Keys, Input!KeyPress(k) \/ Input!KeyRelease(k)
    PROVE  InputInv'
<1>1. UNCHANGED Input!deviceState
  BY DEF Input!KeyPress, Input!KeyRelease
<1>2. Input!ChoosersExclude'
  BY DEF Input!KeyPress, Input!KeyRelease, Input!ChooserKey, Input!AltTabKey, Input!Shortcut, InputInv, Input!ChoosersExclude
<1>3. QED
  BY <1>1, <1>2, DevicesStay DEF InputInv

\* An injected key finds a keyboard to be sent from.
LEMMA InjectKeeps ==
    ASSUME InputInv, NEW k, Input!InjectKey(k)
    PROVE  InputInv'
<1>1. UNCHANGED <<plugged, keyboard, pointers, inputSettings, deviceApplied, focused, switcher, chooser>>
  BY DEF Input!InjectKey
<1>2. seatKeyboard' = seatKeyboard
  BY InputAssumption DEF Input!InjectKey, InputInv, Input!DevicesAgree, InputAssumption
<1>3. QED
  BY <1>1, <1>2 DEF InputInv, InputTypes, Input!DevicesAgree, Input!ChoosersExclude

\* Every step keeps the invariant.
LEMMA InputInvHolds == Spec => []InputInv
<1>1. Init => InputInv
  BY DEF Init, Input!Init, InputInv, InputTypes, Input!DevicesAgree, Input!ChoosersExclude
<1>2. InputInv /\ [Next]_vars => InputInv'
  <2> SUFFICES ASSUME InputInv, [Next]_vars PROVE InputInv'
    OBVIOUS
  <2>0. [Input!Next]_inputVars
    BY InputAlone
  <2>1. CASE UNCHANGED inputVars
    BY <2>1 DEF inputVars, InputInv, InputTypes, Input!DevicesAgree, Input!ChoosersExclude
  <2>2. CASE Input!Refocus
    <3>1. Input!ChoosersExclude'
      BY <2>2 DEF Input!Refocus, InputInv, Input!ChoosersExclude
    <3>2. QED
      BY <2>2, <3>1, DevicesStay DEF Input!Refocus, InputInv
  <2>3. QED
    BY <2>0, <2>1, <2>2, KeyboardsKeep, PointersKeep, SettingsKeep, KeysKeep, InjectKeeps
       DEF Input!Next
<1>3. QED
  BY <1>1, <1>2, PTL DEF Spec

\* Whatever is plugged, unplugged or changed in the settings, and in whatever order: the
\* seat refers to devices that exist, its clients always have a keyboard, the devices in
\* use have the settings last applied, and only one chooser takes the keys.
THEOREM InputStaysConsistent == Spec => []InputIsConsistent
<1>1. InputInv => InputIsConsistent
  BY DEF InputInv, InputIsConsistent, Input!InputIsConsistent
<1>2. QED
  BY <1>1, InputInvHolds, PTL

-----------------------------------------------------------------------------
(* NightLight: any set of outputs, and a day of any length over a minute.  *)

\* Steps of the composition are steps of the night light.
LEMMA NightAlone ==
    ASSUME [Next]_vars
    PROVE  [Night!Next]_nightVars
BY DEF Next, vars, XStep, InputStep, NightStep, DisplayStep, TaskbarStep, ReadersStep,
       ConfigStep, Alone, nightVars

\* The light of a setting that is or is not in its interval.
Light(on) == IF on THEN night.temp ELSE Night!Reset

\* The minute k minutes before.
Before(m, k) == (m - k) % NightDay

\* active is what the interval said when the timer was last called or later, and
\* an output that took its last table has the light of active.
NightInv ==
    /\ nightNow \in 0 .. (NightDay - 1) /\ late \in 0..3
    /\ lit \subseteq Screens /\ night.enabled \in BOOLEAN /\ timer = night.enabled
    /\ applied = TRUE
    /\ night.enabled = TRUE =>
          late < 3 /\ \E k \in 0..late : active = Night!IsActive(night, Before(nightNow, k))
    /\ night.enabled = FALSE => active = FALSE
    /\ \A o \in lit \ failed : gamma[o] = Light(active)

\* A disabled night light is never active.
LEMMA DisabledIsOff ==
    ASSUME NEW c, c.enabled = FALSE, NEW m
    PROVE  Night!IsActive(c, m) = FALSE
BY DEF Night!IsActive

\* Minutes before one in the first days are minutes of the day before.
LEMMA BeforeWraps ==
    ASSUME NEW m \in 0 .. (NightDay - 1), NEW k \in 0..2
    PROVE  Before(m, k) = IF k <= m THEN m - k ELSE m - k + NightDay
<1>1. NightDay \in Nat /\ NightDay > 1
  BY NightAssumption DEF NightAssumption
<1>2. CASE k <= m
  <2>1. m - k \in Int /\ 0 <= m - k /\ m - k < NightDay
    BY <1>1, <1>2
  <2>2. QED
    BY <1>1, <1>2, <2>1 DEF Before
<1>3. CASE ~(k <= m)
  <2> DEFINE x == m - k + NightDay
  <2>1. x \in Int /\ 0 <= x /\ x < NightDay /\ m - k = x - NightDay
    BY <1>1, <1>3
  <2>2. (x - NightDay) % NightDay = x
    <3> HIDE DEF x
    <3>1. QED
      BY <1>1, <2>1
  <2>3. QED
    BY <1>3, <2>1, <2>2 DEF Before
<1>4. QED
  BY <1>2, <1>3

\* A minute later the same minute is one more minute before.
LEMMA BeforeMoves ==
    ASSUME NEW m \in 0 .. (NightDay - 1), NEW k \in 0..1
    PROVE  /\ (m + 1) % NightDay \in 0 .. (NightDay - 1)
           /\ Before((m + 1) % NightDay, k + 1) = Before(m, k)
<1> DEFINE n == (m + 1) % NightDay
<1>1. NightDay \in Nat /\ NightDay > 1
  BY NightAssumption DEF NightAssumption
<1>2. n = IF m + 1 < NightDay THEN m + 1 ELSE 0
  <2>1. CASE m + 1 < NightDay
    BY <1>1, <2>1
  <2>2. CASE ~(m + 1 < NightDay)
    <3>1. m + 1 = NightDay
      BY <1>1, <2>2
    <3>2. QED
      BY <1>1, <2>2, <3>1
  <2>3. QED
    BY <2>1, <2>2
<1> HIDE DEF n
<1>3. n \in 0 .. (NightDay - 1)
  BY <1>1, <1>2
<1>4. Before(n, k + 1) = IF k + 1 <= n THEN n - (k + 1) ELSE n - (k + 1) + NightDay
  BY <1>3, BeforeWraps
<1>5. Before(m, k) = IF k <= m THEN m - k ELSE m - k + NightDay
  BY BeforeWraps
<1>6. QED
  BY <1>1, <1>2, <1>3, <1>4, <1>5 DEF n

\* A time of day is no minute before itself.
LEMMA BeforeNone ==
    ASSUME NEW m \in 0 .. (NightDay - 1)
    PROVE  Before(m, 0) = m
<1>1. 0 \in 0..2 /\ 0 <= m /\ m - 0 = m
  BY NightAssumption DEF NightAssumption
<1>2. QED
  BY <1>1, BeforeWraps

\* applyNightLight leaves the light of the setting in every output that took it.
LEMMA ApplyLights ==
    ASSUME NightInv, NEW c, NEW on \in SUBSET Screens, NEW force \in BOOLEAN,
           Night!Apply(c, on, force), force = FALSE => c = night /\ on = lit
    PROVE  /\ active' = Night!IsActive(c, nightNow) /\ applied' = TRUE
           /\ \A o \in on \ failed' :
                 gamma'[o] = IF active' THEN c.temp ELSE Night!Reset
<1>1. CASE ~force /\ Night!IsActive(c, nightNow) = active /\ applied
  BY <1>1 DEF Night!Apply, NightInv, Light
<1>2. CASE ~(~force /\ Night!IsActive(c, nightNow) = active /\ applied)
  <2>1. active' = Night!IsActive(c, nightNow) /\ applied' = TRUE
    BY <1>2 DEF Night!Apply
  <2>2. PICK bad \in SUBSET on :
            /\ gamma' = [o \in Screens |-> IF o \in on \ bad THEN Night!Table(c, nightNow)
                                           ELSE gamma[o]]
            /\ failed' = (failed \ on) \union bad
    BY <1>2 DEF Night!Apply, Night!CommitTables
  <2>3. \A o \in on \ failed' : gamma'[o] = Night!Table(c, nightNow)
    BY <2>2
  <2>4. QED
    BY <2>1, <2>3 DEF Night!Table
<1>3. QED
  BY <1>1, <1>2

\* A minute passes.
LEMMA MinuteKeeps ==
    ASSUME NightInv, Night!Minute
    PROVE  NightInv'
<1>1. /\ nightNow' = (nightNow + 1) % NightDay /\ (timer => late < 2)
      /\ late' = IF late < 3 THEN late + 1 ELSE 3
      /\ UNCHANGED <<night, active, applied, timer, lit, gamma, failed>>
  BY DEF Night!Minute
<1>2. nightNow' \in 0 .. (NightDay - 1)
  <2>1. 0 \in 0..1 /\ nightNow \in 0 .. (NightDay - 1)
    BY DEF NightInv
  <2>2. QED
    BY <1>1, <2>1, BeforeMoves
<1>3. late' \in 0..3
  BY <1>1 DEF NightInv
<1>4. ASSUME night'.enabled = TRUE
      PROVE  late' < 3 /\ \E k \in 0..late' : active' = Night!IsActive(night', Before(nightNow', k))
  <2>1. late \in 0..1 /\ late' = late + 1
    BY <1>1, <1>4 DEF NightInv
  <2>2. PICK k \in 0..late : active = Night!IsActive(night, Before(nightNow, k))
    BY <1>1, <1>4 DEF NightInv
  <2>3. k \in 0..1 /\ nightNow \in 0 .. (NightDay - 1)
    BY <2>1 DEF NightInv
  <2>4. Before(nightNow', k + 1) = Before(nightNow, k)
    BY <1>1, <2>3, BeforeMoves
  <2>5. k + 1 \in 0..late'
    BY <2>1
  <2>6. QED
    BY <1>1, <2>1, <2>2, <2>4, <2>5
<1>5. QED
  BY <1>1, <1>2, <1>3, <1>4 DEF NightInv, Light

\* What applies a setting with what is there now keeps the invariant.
LEMMA AppliedKeeps ==
    ASSUME NightInv, late' \in 0..3, late' < 3 \/ ~night'.enabled, UNCHANGED nightNow,
           night'.enabled \in BOOLEAN, timer' = night'.enabled, lit' \subseteq Screens,
           active' = Night!IsActive(night', nightNow), applied' = TRUE,
           \A o \in lit' \ failed' : gamma'[o] = IF active' THEN night'.temp ELSE Night!Reset
    PROVE  NightInv'
<1>1. nightNow' \in 0 .. (NightDay - 1) /\ Before(nightNow', 0) = nightNow
  BY BeforeNone DEF NightInv
<1>2. 0 \in 0..late'
  OBVIOUS
<1>3. night'.enabled = FALSE => active' = FALSE
  BY DisabledIsOff
<1>4. \E k \in 0..late' : active' = Night!IsActive(night', Before(nightNow', k))
  BY <1>1, <1>2
<1>5. QED
  BY <1>1, <1>3, <1>4 DEF NightInv, Light

\* Every step keeps the invariant.
LEMMA NightInvHolds == Spec => []NightInv
<1>1. ASSUME Init PROVE NightInv
  <2>1. /\ night \in Night!Settings /\ nightNow \in 0 .. (NightDay - 1) /\ lit \subseteq Screens
        /\ active = Night!IsActive(night, nightNow) /\ applied = TRUE /\ timer = night.enabled
        /\ late = 0 /\ failed = {}
        /\ gamma = [o \in Screens |-> IF o \in lit THEN Night!Table(night, nightNow)
                                       ELSE Night!Reset]
    BY <1>1 DEF Init, Night!Init
  <2>2. night.enabled \in BOOLEAN
    BY <2>1 DEF Night!Settings
  <2>3. \A o \in lit \ failed : gamma[o] = Light(active)
    BY <2>1 DEF Light, Night!Table
  <2>4. 0 \in 0..late /\ Before(nightNow, 0) = nightNow
    BY <2>1, BeforeNone
  <2>5. night.enabled = FALSE => active = FALSE
    BY <2>1, DisabledIsOff
  <2>6. QED
    BY <2>1, <2>2, <2>3, <2>4, <2>5 DEF NightInv
<1>2. NightInv /\ [Next]_vars => NightInv'
  <2> SUFFICES ASSUME NightInv, [Next]_vars PROVE NightInv'
    OBVIOUS
  <2>0. [Night!Next]_nightVars
    BY NightAlone
  <2>1. CASE UNCHANGED nightVars
    BY <2>1 DEF nightVars, NightInv, Light
  <2>2. CASE Night!TimerCallback
    <3>1. /\ UNCHANGED <<nightNow, night, timer, lit>> /\ late' = 0
          /\ Night!Apply(night, lit, FALSE)
      BY <2>2 DEF Night!TimerCallback
    <3>2. /\ active' = Night!IsActive(night, nightNow) /\ applied' = TRUE
          /\ \A o \in lit \ failed' : gamma'[o] = IF active' THEN night.temp ELSE Night!Reset
      BY <3>1, ApplyLights DEF NightInv
    <3>3. /\ late' \in 0..3 /\ late' < 3 /\ night'.enabled \in BOOLEAN
          /\ timer' = night'.enabled /\ lit' \subseteq Screens
      BY <3>1 DEF NightInv
    <3>4. QED
      BY <3>1, <3>2, <3>3, AppliedKeeps
  <2>3. ASSUME NEW o \in Screens, Night!NewOutput(o) PROVE NightInv'
    <3>1. /\ UNCHANGED <<nightNow, night, timer, late>> /\ lit' \in SUBSET Screens
          /\ Night!Apply(night, lit', TRUE)
      BY <2>3 DEF Night!NewOutput, NightInv
    <3>2. /\ active' = Night!IsActive(night, nightNow) /\ applied' = TRUE
          /\ \A p \in lit' \ failed' : gamma'[p] = IF active' THEN night.temp ELSE Night!Reset
      BY <3>1, ApplyLights
    <3>3. /\ late' \in 0..3 /\ (late' < 3 \/ ~night'.enabled) /\ night'.enabled \in BOOLEAN
          /\ timer' = night'.enabled /\ lit' \subseteq Screens
      BY <3>1 DEF NightInv
    <3>4. QED
      BY <3>1, <3>2, <3>3, AppliedKeeps
  <2>4. ASSUME NEW c \in Night!Settings, Night!SetNightLight(c) PROVE NightInv'
    <3>1. /\ UNCHANGED <<nightNow, lit>> /\ late' = 0 /\ night' = c /\ timer' = c.enabled
          /\ Night!Apply(c, lit, TRUE)
      BY <2>4 DEF Night!SetNightLight
    <3>2. c.enabled \in BOOLEAN
      BY DEF Night!Settings
    <3>3. /\ active' = Night!IsActive(c, nightNow) /\ applied' = TRUE
          /\ \A p \in lit \ failed' : gamma'[p] = IF active' THEN c.temp ELSE Night!Reset
      BY <3>1, ApplyLights DEF NightInv
    <3>4. /\ late' \in 0..3 /\ late' < 3 /\ night'.enabled \in BOOLEAN
          /\ timer' = night'.enabled /\ lit' \subseteq Screens
      BY <3>1, <3>2 DEF NightInv
    <3>5. QED
      BY <3>1, <3>3, <3>4, AppliedKeeps
  <2>5. QED
    BY <2>0, <2>1, <2>2, <2>3, <2>4, MinuteKeeps DEF Night!Next, Night!SaveFails, nightVars,
       Night!nightVars
<1>3. QED
  BY <1>1, <1>2, PTL DEF Spec

\* Whenever outputs come, the setting changes, the clock wraps or a commit of a table
\* fails: an output whose commits were accepted has the light of this minute or of one
\* of the two before it.
THEOREM LightStaysRecent == Spec => []LightIsRecent
<1>1. ASSUME NightInv PROVE LightIsRecent
  <2>1. SUFFICES ASSUME NEW o \in lit \ failed
                 PROVE  \E k \in 0..2 : gamma[o] = Night!Table(night, Before(nightNow, k))
    BY DEF LightIsRecent, Night!LightIsRecent, Before
  <2>2. gamma[o] = Light(active)
    BY <1>1 DEF NightInv
  <2>3. CASE night.enabled = TRUE
    <3>1. PICK k \in 0..late : active = Night!IsActive(night, Before(nightNow, k))
      BY <1>1, <2>3 DEF NightInv
    <3>2. k \in 0..2
      BY <1>1, <2>3 DEF NightInv
    <3>3. QED
      BY <2>2, <3>1, <3>2 DEF Light, Night!Table
  <2>4. CASE night.enabled = FALSE
    <3>1. active = FALSE /\ Night!IsActive(night, Before(nightNow, 0)) = FALSE
      BY <1>1, <2>4, DisabledIsOff DEF NightInv
    <3>2. QED
      BY <2>2, <3>1 DEF Light, Night!Table
  <2>5. QED
    BY <1>1, <2>3, <2>4 DEF NightInv
<1>2. QED
  BY <1>1, NightInvHolds, PTL

-----------------------------------------------------------------------------
(* DisplayPages: any outputs, modes, scales and programs.                  *)

\* Steps of the composition are steps of the display pages.
LEMMA DisplayAlone ==
    ASSUME [Next]_vars
    PROVE  [Display!Next]_displayVars
BY DEF Next, vars, XStep, InputStep, NightStep, DisplayStep, TaskbarStep, ReadersStep,
       ConfigStep, Alone, displayVars

Modes  == [Display!OutputNames -> Nat]
Scaled == [Display!OutputNames -> Nat \ {0}]
First  == OutputList[1]

\* The type of a page, but for what the widget and the reading hold.
PageTyped(page) ==
    page \in [names : {<<>>, OutputList}, cur : [width : Nat, scale : Nat \ {0}],
              modes : Seq(Nat), row : Nat, pick : Nat,
              scalePick : Nat \ {0}, dragged : {page.dragged}, changed : {page.changed},
              touched : {page.touched}, read : {page.read}]

\* The current size and scale are those of the first output as it was read.
CurIsFirst(page) ==
    page.cur = [width |-> (page.read.mode[First] * 100) \div page.read.scale[First],
                scale |-> page.read.scale[First]]

\* The boxes name what is current until something is picked.
BoxesAreCurrent(page) ==
    page.modes[page.pick] = page.cur.width /\ page.scalePick = page.cur.scale

PageFine(page) ==
    /\ PageTyped(page) /\ page.row \in 0 .. Len(OutputList)
    /\ page.names = <<>> <=> page.row = 0
    /\ page.row # 0 => /\ CurIsFirst(page) /\ page.pick \in DOMAIN page.modes
                       /\ ~page.touched => BoxesAreCurrent(page)

DisplayInv ==
    /\ mode \in Modes /\ scale \in Scaled
    /\ \A p \in DisplayPrograms : PageFine(displayPages[p])
    /\ displayPages = [p \in DisplayPrograms |-> displayPages[p]]

\* The list of outputs is a sequence of them.
LEMMA OutputListIsSeq ==
    /\ Len(OutputList) \in Nat \ {0} /\ DOMAIN OutputList = 1 .. Len(OutputList)
    /\ \A i \in 1 .. Len(OutputList) : OutputList[i] \in Display!OutputNames
    /\ First \in Display!OutputNames /\ OutputList # <<>>
<1>1. /\ OutputList \in Seq({OutputList[i] : i \in DOMAIN OutputList}) /\ OutputList # <<>>
  BY DisplayAssumption DEF DisplayAssumption
<1>2. Len(OutputList) \in Nat \ {0} /\ DOMAIN OutputList = 1 .. Len(OutputList)
  BY <1>1, EmptySeq, LenProperties
<1>3. \A i \in 1 .. Len(OutputList) : OutputList[i] \in Display!OutputNames
  BY <1>2 DEF Display!OutputNames, Display!ToSet
<1>4. QED
  BY <1>1, <1>2, <1>3 DEF First

\* What an output offers, or the common list, is a sequence of widths.
LEMMA ListedIsSeq ==
    ASSUME NEW o \in Display!OutputNames
    PROVE  (IF Offered[o] = <<>> THEN Common ELSE Offered[o]) \in Seq(Nat)
<1>1. PICK i \in DOMAIN OutputList : o = OutputList[i]
  BY OutputListIsSeq DEF Display!OutputNames, Display!ToSet
<1>2. QED
  BY <1>1, DisplayAssumption DEF DisplayAssumption

\* loadOutputDetails makes the boxes current.
LEMMA LoadOutputDetailsFine ==
    ASSUME NEW page, PageTyped(page), page.names = OutputList, CurIsFirst(page),
           NEW row \in 1 .. Len(OutputList)
    PROVE  PageFine(Display!LoadOutputDetails(page, row))
<1> DEFINE o      == page.names[row]
           listed == IF Offered[o] = <<>> THEN Common ELSE Offered[o]
           modes  == IF Display!Contains(listed, page.cur.width) THEN listed
                     ELSE Append(listed, page.cur.width)
           pick   == CHOOSE i \in DOMAIN modes : modes[i] = page.cur.width
           e      == [page EXCEPT !.row = row, !.modes = modes, !.scalePick = page.cur.scale,
                                  !.touched = FALSE, !.pick = pick]
<1>1. Display!LoadOutputDetails(page, row) = e
  BY DEF Display!LoadOutputDetails
<1>2. page.cur.width \in Nat /\ page.cur.scale \in Nat \ {0}
  BY DEF PageTyped
<1>3. listed \in Seq(Nat)
  BY OutputListIsSeq, ListedIsSeq
<1> HIDE DEF listed
<1>4. /\ modes \in Seq(Nat) /\ \E i \in DOMAIN modes : modes[i] = page.cur.width
  <2>1. CASE Display!Contains(listed, page.cur.width)
    BY <1>3, <2>1, LenProperties DEF Display!Contains
  <2>2. CASE ~Display!Contains(listed, page.cur.width)
    <3>1. modes = Append(listed, page.cur.width)
      BY <2>2
    <3>2. /\ Append(listed, page.cur.width) \in Seq(Nat)
          /\ Len(listed) + 1 \in DOMAIN Append(listed, page.cur.width)
          /\ Append(listed, page.cur.width)[Len(listed) + 1] = page.cur.width
      BY <1>2, <1>3, AppendProperties, LenProperties
    <3>3. QED
      BY <3>1, <3>2
  <2>3. QED
    BY <2>1, <2>2
<1> HIDE DEF modes
<1>5. pick \in DOMAIN modes /\ modes[pick] = page.cur.width
  BY <1>4
<1>6. pick \in Nat
  BY <1>4, <1>5, LenProperties
<1> HIDE DEF pick
<1>7. row \in Nat
  BY OutputListIsSeq
<1>8. /\ PageTyped(e) /\ e.names = page.names /\ e.row = row /\ e.cur = page.cur
      /\ e.modes = modes /\ e.pick = pick /\ e.scalePick = page.cur.scale
      /\ e.read = page.read
  BY <1>2, <1>4, <1>6, <1>7 DEF PageTyped
<1> HIDE DEF e
<1>9. CurIsFirst(e) /\ BoxesAreCurrent(e)
  BY <1>5, <1>8 DEF CurIsFirst, BoxesAreCurrent
<1>10. e.names # <<>>
  BY <1>8, OutputListIsSeq
<1>11. QED
  BY <1>1, <1>5, <1>8, <1>9, <1>10, OutputListIsSeq DEF PageFine

\* refreshOutputs leaves a page whose boxes are current.
LEMMA RefreshedFine ==
    ASSUME NEW page, PageTyped(page), NEW m \in Modes, NEW s \in Scaled, NEW x
    PROVE  PageFine(Display!Refreshed(page, m, s, x))
<1> DEFINE cur  == [width |-> (m[First] * 100) \div s[First], scale |-> s[First]]
           read == [mode |-> m, scale |-> s]
           e    == [page EXCEPT !.names = OutputList, !.dragged = x, !.changed = FALSE,
                                !.cur = cur, !.read = read]
<1>1. Display!Refreshed(page, m, s, x) = Display!LoadOutputDetails(e, 1)
  BY DEF Display!Refreshed, Display!FirstOf, First
<1>2. m[First] \in Nat /\ s[First] \in Nat \ {0}
  BY OutputListIsSeq DEF Modes, Scaled
<1>3. cur \in [width : Nat, scale : Nat \ {0}]
  BY <1>2
<1>4. read.mode = m /\ read.scale = s
  OBVIOUS
<1> HIDE DEF read
<1>5. CurIsFirst([page EXCEPT !.names = OutputList, !.dragged = x, !.changed = FALSE,
                              !.cur = cur, !.read = read])
  BY <1>4 DEF PageTyped, CurIsFirst
<1> HIDE DEF cur
<1>6. PageTyped(e) /\ e.names = OutputList
  BY <1>3 DEF PageTyped
<1>7. CurIsFirst(e) /\ 1 \in 1 .. Len(OutputList)
  BY <1>5, OutputListIsSeq
<1> HIDE DEF e
<1>8. QED
  BY <1>1, <1>6, <1>7, LoadOutputDetailsFine

\* One page changes, and not the compositor.
LEMMA PageBecomes ==
    ASSUME DisplayInv, NEW p \in DisplayPrograms, NEW page, PageFine(page),
           displayPages' = [displayPages EXCEPT ![p] = page],
           mode' \in Modes, scale' \in Scaled
    PROVE  DisplayInv'
<1>1. \A q \in DisplayPrograms : displayPages'[q] = IF q = p THEN page ELSE displayPages[q]
  BY DEF DisplayInv
<1>2. \A q \in DisplayPrograms : PageFine(displayPages'[q])
  BY <1>1 DEF DisplayInv
<1>3. displayPages' = [q \in DisplayPrograms |-> displayPages'[q]]
  BY DEF DisplayInv
<1>4. QED
  BY <1>2, <1>3 DEF DisplayInv, PageFine, PageTyped, CurIsFirst, BoxesAreCurrent

\* A page that is read, or not served.
LEMMA RefreshKeeps ==
    ASSUME DisplayInv, NEW p \in DisplayPrograms, Display!Refresh(p)
    PROVE  DisplayInv'
<1> DEFINE page == displayPages[p]
           e    == [page EXCEPT !.names = <<>>, !.row = 0]
<1>1. /\ displayPages' = [displayPages EXCEPT ![p] =
             IF service THEN Display!Refreshed(page, mode, scale, place) ELSE e]
      /\ UNCHANGED <<mode, scale>>
  BY DEF Display!Refresh, Display!compositor, Display!Unserved
<1>2. PageFine(page) /\ mode \in Modes /\ scale \in Scaled
  BY DEF DisplayInv
<1>3. PageFine(Display!Refreshed(page, mode, scale, place))
  BY <1>2, RefreshedFine DEF PageFine
<1>4. PageFine(e)
  <2>1. PageTyped(e) /\ e.names = <<>> /\ e.row = 0
    BY <1>2 DEF PageFine, PageTyped
  <2> HIDE DEF e
  <2>2. QED
    BY <2>1, OutputListIsSeq DEF PageFine
<1> HIDE DEF e
<1>5. QED
  BY <1>1, <1>2, <1>3, <1>4, PageBecomes

\* Another output, a mode, a scale, or a dragged output.
LEMMA ChoiceKeeps ==
    ASSUME DisplayInv, NEW p \in DisplayPrograms,
           \/ \E row \in 1 .. Len(OutputList) : Display!SelectOutput(p, row)
           \/ \E i \in 1 .. 3 : Display!PickMode(p, i)
           \/ \E percent \in Scales : Display!PickScale(p, percent)
           \/ \E o \in Display!OutputNames, x \in Places : Display!Drag(p, o, x)
    PROVE  DisplayInv'
<1> DEFINE page == displayPages[p]
<1>1. PageFine(page) /\ mode \in Modes /\ scale \in Scaled
  BY DEF DisplayInv
<1>2. UNCHANGED <<mode, scale>>
  BY DEF Display!SelectOutput, Display!PickMode, Display!PickScale, Display!Drag,
         Display!compositor
<1>3. ASSUME NEW row \in 1 .. Len(OutputList), Display!SelectOutput(p, row)
      PROVE  DisplayInv'
  <2> DEFINE e == [page EXCEPT !.row = row]
  <2>1. /\ displayPages' = [displayPages EXCEPT ![p] =
               IF service THEN Display!LoadOutputDetails(page, row) ELSE e]
        /\ row \in DOMAIN page.names
    BY <1>3 DEF Display!SelectOutput
  <2>2. page.names = OutputList /\ page.names # <<>>
    BY <1>1, <2>1, OutputListIsSeq DEF PageFine, PageTyped
  <2>3. PageTyped(page) /\ CurIsFirst(page)
    BY <1>1, <2>2 DEF PageFine
  <2>4. PageFine(Display!LoadOutputDetails(page, row))
    BY <2>2, <2>3, LoadOutputDetailsFine
  <2>5. PageFine(e)
    <3>0. row \in Nat
      BY OutputListIsSeq
    <3>1. /\ PageTyped(e) /\ e.names = page.names /\ e.row = row /\ e.cur = page.cur
          /\ e.modes = page.modes /\ e.pick = page.pick /\ e.scalePick = page.scalePick
          /\ e.read = page.read /\ e.touched = page.touched
      BY <2>3, <3>0 DEF PageTyped
    <3> HIDE DEF e
    <3>2. row # 0
      BY OutputListIsSeq
    <3>3. QED
      BY <1>1, <2>2, <2>3, <3>1, <3>2 DEF PageFine, CurIsFirst, BoxesAreCurrent
  <2> HIDE DEF e
  <2>6. QED
    BY <1>1, <1>2, <2>1, <2>4, <2>5, PageBecomes
<1>4. ASSUME NEW i \in 1 .. 3, Display!PickMode(p, i) PROVE DisplayInv'
  <2> DEFINE e == [page EXCEPT !.pick = i, !.touched = TRUE]
  <2>0. i \in Nat
    OBVIOUS
  <2>1. displayPages' = [displayPages EXCEPT ![p] = e] /\ i \in DOMAIN page.modes
    BY <1>4 DEF Display!PickMode
  <2>2. /\ PageTyped(e) /\ e.names = page.names /\ e.row = page.row /\ e.cur = page.cur
        /\ e.modes = page.modes /\ e.pick = i /\ e.read = page.read /\ e.touched = TRUE
    BY <1>1, <2>0, <2>1 DEF PageFine, PageTyped
  <2> HIDE DEF e
  <2>3. PageFine(e)
    BY <1>1, <2>1, <2>2 DEF PageFine, CurIsFirst
  <2>4. QED
    BY <1>1, <1>2, <2>1, <2>3, PageBecomes
<1>5. ASSUME NEW percent \in Scales, Display!PickScale(p, percent) PROVE DisplayInv'
  <2> DEFINE e == [page EXCEPT !.scalePick = percent, !.touched = TRUE]
  <2>1. displayPages' = [displayPages EXCEPT ![p] = e] /\ percent \in Nat \ {0}
    BY <1>5, DisplayAssumption DEF Display!PickScale, DisplayAssumption
  <2>2. /\ PageTyped(e) /\ e.names = page.names /\ e.row = page.row /\ e.cur = page.cur
        /\ e.modes = page.modes /\ e.pick = page.pick /\ e.read = page.read
        /\ e.touched = TRUE
    BY <1>1, <2>1 DEF PageFine, PageTyped
  <2> HIDE DEF e
  <2>3. PageFine(e)
    BY <1>1, <2>2 DEF PageFine, CurIsFirst
  <2>4. QED
    BY <1>1, <1>2, <2>1, <2>3, PageBecomes
<1>6. ASSUME NEW o, NEW x, Display!Drag(p, o, x) PROVE DisplayInv'
  <2> DEFINE dragged == [page.dragged EXCEPT ![o] = x]
             e == [page EXCEPT !.dragged = dragged, !.changed = TRUE]
  <2>1. displayPages' = [displayPages EXCEPT ![p] = e]
    BY <1>6 DEF Display!Drag
  <2> HIDE DEF dragged
  <2>2. /\ PageTyped(e) /\ e.names = page.names /\ e.row = page.row /\ e.cur = page.cur
        /\ e.modes = page.modes /\ e.pick = page.pick /\ e.scalePick = page.scalePick
        /\ e.read = page.read /\ e.touched = page.touched
    BY <1>1 DEF PageFine, PageTyped
  <2> HIDE DEF e
  <2>3. PageFine(e)
    BY <1>1, <2>2 DEF PageFine, CurIsFirst, BoxesAreCurrent
  <2>4. QED
    BY <1>1, <1>2, <2>1, <2>3, PageBecomes
<1>7. QED
  BY <1>3, <1>4, <1>5, <1>6

\* Apply: carried out in part, or in whole and read back.
LEMMA ApplyKeeps ==
    ASSUME DisplayInv, NEW p \in DisplayPrograms, Display!Apply(p)
    PROVE  DisplayInv'
<1> DEFINE page  == displayPages[p]
           o     == page.names[page.row]
           width == page.modes[page.pick]
           m     == [mode EXCEPT ![o] = width]
           s     == [scale EXCEPT ![o] = page.scalePick]
           cur   == [width |-> width, scale |-> page.scalePick]
           done  == [page EXCEPT !.cur = cur]
<1>1. /\ page.names # <<>> /\ page.row # 0
      /\ \/ UNCHANGED <<mode, scale, displayPages>>
         \/ mode' = m /\ UNCHANGED <<scale, displayPages>>
         \/ /\ mode' = m /\ scale' = s
            /\ displayPages' = [displayPages EXCEPT ![p] = Display!Refreshed(done, m, s, place)]
  BY DEF Display!Apply
<1>2. PageFine(page) /\ mode \in Modes /\ scale \in Scaled
  BY DEF DisplayInv
<1>3. width \in Nat /\ page.scalePick \in Nat \ {0}
  <2>1. page.modes \in Seq(Nat) /\ page.pick \in DOMAIN page.modes
        /\ page.scalePick \in Nat \ {0}
    BY <1>1, <1>2 DEF PageFine, PageTyped
  <2>2. QED
    BY <2>1, ElementOfSeq, LenProperties
<1>4. PageTyped(done)
  <2>1. cur \in [width : Nat, scale : Nat \ {0}]
    BY <1>3
  <2> HIDE DEF cur
  <2>2. QED
    BY <1>2, <2>1 DEF PageFine, PageTyped
<1> HIDE DEF width, done
<1>5. m \in Modes /\ s \in Scaled
  BY <1>2, <1>3 DEF Modes, Scaled
<1> HIDE DEF m, s
<1>6. PageFine(Display!Refreshed(done, m, s, place))
  BY <1>4, <1>5, RefreshedFine
<1>7. CASE displayPages' = displayPages /\ mode' \in Modes /\ scale' \in Scaled
  BY <1>7 DEF DisplayInv
<1>8. QED
  BY <1>1, <1>2, <1>5, <1>6, <1>7, PageBecomes

\* The arrangement: the places that were carried out are read back.
LEMMA ArrangementKeeps ==
    ASSUME DisplayInv, NEW p \in DisplayPrograms, Display!ApplyArrangement(p)
    PROVE  DisplayInv'
<1>1. UNCHANGED <<mode, scale>>
  BY DEF Display!ApplyArrangement
<1>2. PICK x : \/ displayPages' = displayPages
               \/ displayPages' = [displayPages EXCEPT
                     ![p] = Display!Refreshed(displayPages[p], mode, scale, x)]
  BY Zenon DEF Display!ApplyArrangement
<1>3. PageFine(displayPages[p]) /\ mode \in Modes /\ scale \in Scaled
  BY DEF DisplayInv
<1>4. PageFine(Display!Refreshed(displayPages[p], mode, scale, x))
  BY <1>3, RefreshedFine DEF PageFine
<1>5. CASE displayPages' = displayPages
  BY <1>1, <1>5 DEF DisplayInv
<1>6. QED
  BY <1>1, <1>2, <1>3, <1>4, <1>5, PageBecomes

\* Every step keeps the invariant.
LEMMA DisplayInvHolds == Spec => []DisplayInv
<1>1. ASSUME Init PROVE DisplayInv
  <2> DEFINE e == Display!EmptyPage
  <2>1. /\ mode = [o \in Display!OutputNames |-> Common[1]]
        /\ scale = [o \in Display!OutputNames |-> 100]
        /\ displayPages = [p \in DisplayPrograms |-> e]
    BY <1>1 DEF Init, Display!Init
  <2>2. Common[1] \in Nat
    BY DisplayAssumption, EmptySeq, ElementOfSeq, LenProperties DEF DisplayAssumption
  <2>3. PageTyped(e) /\ e.names = <<>> /\ e.row = 0
    <3>1. <<>> \in Seq(Nat) /\ 0 \in 0 .. Len(OutputList)
      BY OutputListIsSeq
    <3>2. QED
      BY <3>1 DEF Display!EmptyPage, PageTyped
  <2> HIDE DEF e
  <2>4. PageFine(e)
    BY <2>3, OutputListIsSeq DEF PageFine
  <2>5. QED
    BY <2>1, <2>2, <2>4 DEF DisplayInv, Modes, Scaled
<1>2. DisplayInv /\ [Next]_vars => DisplayInv'
  <2> SUFFICES ASSUME DisplayInv, [Next]_vars PROVE DisplayInv'
    OBVIOUS
  <2>0. [Display!Next]_displayVars
    BY DisplayAlone
  <2>1. CASE UNCHANGED <<mode, scale, displayPages>>
    BY <2>1 DEF DisplayInv
  <2>2. QED
    BY <2>0, <2>1, RefreshKeeps, ChoiceKeeps, ApplyKeeps, ArrangementKeeps
       DEF Display!Next, Display!ServiceEnds, displayVars
<1>3. QED
  BY <1>1, <1>2, PTL DEF Spec

\* Whichever program set the mode and the scale, however often a page was read and
\* whatever was picked, dragged, refused or left unserved before: pressing Apply on a
\* page that has just been read keeps the first output as it is.
THEOREM UntouchedApplyAlwaysKeeps == Spec => []UntouchedApplyKeeps
<1>1. ASSUME DisplayInv PROVE UntouchedApplyKeeps
  <2>1. SUFFICES
          ASSUME NEW p \in DisplayPrograms, displayPages[p].row = 1,
                 ~displayPages[p].touched, scale[First] = 100,
                 displayPages[p].read = [mode |-> mode, scale |-> scale]
          PROVE  /\ displayPages[p].modes[displayPages[p].pick] = mode[First]
                 /\ displayPages[p].scalePick = 100
    BY DEF UntouchedApplyKeeps, Display!UntouchedApplyKeeps, First
  <2>2. CurIsFirst(displayPages[p]) /\ BoxesAreCurrent(displayPages[p])
    BY <1>1, <2>1 DEF DisplayInv, PageFine, PageTyped
  <2>3. displayPages[p].cur = [width |-> (mode[First] * 100) \div 100, scale |-> 100]
    BY <2>1, <2>2 DEF CurIsFirst
  <2>4. mode[First] \in Nat
    BY <1>1, OutputListIsSeq DEF DisplayInv, Modes
  <2>5. (mode[First] * 100) \div 100 = mode[First]
    BY <2>4
  <2>6. QED
    BY <2>2, <2>3, <2>5 DEF BoxesAreCurrent
<1>2. QED
  BY <1>1, DisplayInvHolds, PTL

-----------------------------------------------------------------------------
(* XWindows: any number of X11 windows and workspaces.                     *)

\* Steps of the composition are steps of the X11 windows.
LEMMA XAlone ==
    ASSUME [Next]_vars
    PROVE  [X11!Next]_x11Vars
BY DEF Next, vars, XStep, InputStep, NightStep, DisplayStep, TaskbarStep, ReadersStep,
       ConfigStep, Alone, x11Vars

\* Taking a window out of a list that has no window twice takes out that window only.
LEMMA WithoutXKeeps ==
    ASSUME NEW s \in Seq(XIds), X11!Once(s), NEW w
    PROVE  LET r == X11!WithoutX(s, w)
           IN  /\ r \in Seq(XIds) /\ X11!Once(r)
               /\ {r[i] : i \in DOMAIN r} = {s[i] : i \in DOMAIN s} \ {w}
<1> DEFINE at == {i \in DOMAIN s : s[i] = w}
           n  == CHOOSE i \in at : TRUE
           r  == [i \in 1..(Len(s) - 1) |-> IF i < n THEN s[i] ELSE s[i + 1]]
<1>1. CASE at = {}
  <2>1. X11!WithoutX(s, w) = s
    BY <1>1 DEF X11!WithoutX
  <2>2. {s[i] : i \in DOMAIN s} = {s[i] : i \in DOMAIN s} \ {w}
    BY <1>1
  <2>3. QED
    BY <2>1, <2>2
<1>2. CASE at # {}
  <2>1. X11!WithoutX(s, w) = r
    BY <1>2 DEF X11!WithoutX
  <2>2. n \in 1..Len(s) /\ s[n] = w /\ Len(s) \in Nat /\ DOMAIN s = 1..Len(s)
    BY <1>2, LenProperties
  <2>3. DOMAIN r = 1..(Len(s) - 1)
        /\ \A j \in 1..(Len(s) - 1) : r[j] = IF j < n THEN s[j] ELSE s[j + 1]
    OBVIOUS
  <2>4. \A j \in 1..(Len(s) - 1) : j \in 1..Len(s) /\ j + 1 \in 1..Len(s) /\ j \in Int
    BY <2>2
  <2>5. \A i \in 1..Len(s) : s[i] \in XIds
    BY <2>2, ElementOfSeq
  <2>6. \A j \in 1..(Len(s) - 1) : r[j] \in XIds
    BY <2>3, <2>4, <2>5
  <2>7. r \in Seq(XIds)
    <3>1. r \in [1..(Len(s) - 1) -> XIds] /\ Len(s) - 1 \in Nat
      BY <2>2, <2>6
    <3> HIDE DEF r
    <3>2. r \in UNION {[1..k -> XIds] : k \in Nat}
      BY <3>1, Zenon
    <3>3. QED
      BY <3>2, SeqDef, Zenon
  <2> HIDE DEF r, n, at
  <2>8. X11!Once(r)
    <3>1. SUFFICES ASSUME NEW i \in 1..(Len(s) - 1), NEW j \in 1..(Len(s) - 1), r[i] = r[j]
                   PROVE  i = j
      BY <2>3 DEF X11!Once
    <3>2. \A k, m \in 1..Len(s) : s[k] = s[m] => k = m
      BY <2>2 DEF X11!Once
    <3>3. n \in Int /\ i \in Int /\ j \in Int
      BY <2>2, <2>4
    <3>4. CASE i < n /\ j < n
      <4>1. s[i] = s[j]
        BY <2>3, <3>1, <3>4
      <4>2. QED
        BY <2>4, <3>2, <4>1
    <3>5. CASE i < n /\ ~(j < n)
      <4>1. s[i] = s[j + 1]
        BY <2>3, <3>1, <3>5
      <4>2. i = j + 1
        BY <2>4, <3>2, <4>1
      <4>3. QED
        BY <3>3, <3>5, <4>2
    <3>6. CASE ~(i < n) /\ j < n
      <4>1. s[i + 1] = s[j]
        BY <2>3, <3>1, <3>6
      <4>2. i + 1 = j
        BY <2>4, <3>2, <4>1
      <4>3. QED
        BY <3>3, <3>6, <4>2
    <3>7. CASE ~(i < n) /\ ~(j < n)
      <4>1. s[i + 1] = s[j + 1]
        BY <2>3, <3>1, <3>7
      <4>2. i + 1 = j + 1
        BY <2>4, <3>2, <4>1
      <4>3. QED
        BY <3>3, <4>2
    <3>8. QED
      BY <3>4, <3>5, <3>6, <3>7
  <2>9. \A i \in 1..Len(s) : s[i] # w => \E j \in 1..(Len(s) - 1) : r[j] = s[i]
    <3>1. SUFFICES ASSUME NEW i \in 1..Len(s), s[i] # w
                   PROVE  \E j \in 1..(Len(s) - 1) : r[j] = s[i]
      OBVIOUS
    <3>2. i # n /\ i \in Int /\ n \in Int /\ 1 <= i /\ i <= Len(s) /\ 1 <= n /\ n <= Len(s)
          /\ Len(s) \in Int
      BY <2>2, <3>1
    <3>3. CASE i < n
      <4>1. i \in 1..(Len(s) - 1)
        BY <3>2, <3>3
      <4>2. QED
        BY <2>3, <3>3, <4>1
    <3>4. CASE n < i
      <4>1. i - 1 \in 1..(Len(s) - 1) /\ ~(i - 1 < n) /\ (i - 1) + 1 = i
        BY <3>2, <3>4
      <4>2. r[i - 1] = s[(i - 1) + 1]
        BY <2>3, <4>1
      <4>3. QED
        BY <4>1, <4>2
    <3>5. i < n \/ n < i
      BY <3>2
    <3>6. QED
      BY <3>3, <3>4, <3>5
  <2>10. \A j \in 1..(Len(s) - 1) : r[j] # w /\ \E i \in 1..Len(s) : r[j] = s[i]
    <3>1. SUFFICES ASSUME NEW j \in 1..(Len(s) - 1)
                   PROVE  r[j] # w /\ \E i \in 1..Len(s) : r[j] = s[i]
      OBVIOUS
    <3>2. \A k \in 1..Len(s) : s[k] = w => k = n
      BY <2>2 DEF X11!Once
    <3>3. n \in Int /\ j \in Int /\ j \in 1..Len(s) /\ j + 1 \in 1..Len(s)
      BY <2>2, <2>4
    <3>4. CASE j < n
      BY <2>3, <3>2, <3>3, <3>4
    <3>5. CASE ~(j < n)
      <4>1. r[j] = s[j + 1] /\ j + 1 # n
        BY <2>3, <3>3, <3>5
      <4>2. QED
        BY <3>2, <3>3, <4>1
    <3>6. QED
      BY <3>4, <3>5
  <2>11. {r[j] : j \in DOMAIN r} = {s[i] : i \in DOMAIN s} \ {w}
    <3>1. ASSUME NEW x \in {r[j] : j \in DOMAIN r} PROVE x \in {s[i] : i \in DOMAIN s} \ {w}
      BY <2>2, <2>3, <2>10
    <3>2. ASSUME NEW x \in {s[i] : i \in DOMAIN s} \ {w} PROVE x \in {r[j] : j \in DOMAIN r}
      <4>1. PICK i \in 1..Len(s) : x = s[i] /\ s[i] # w
        BY <2>2
      <4>2. PICK j \in 1..(Len(s) - 1) : r[j] = s[i]
        BY <2>9, <4>1
      <4>3. QED
        BY <2>3, <4>1, <4>2
    <3>3. QED
      BY <3>1, <3>2
  <2>12. QED
    BY <2>1, <2>7, <2>8, <2>11
<1>3. QED
  BY <1>1, <1>2

\* Appending a window that is not in a list.
LEMMA AppendXKeeps ==
    ASSUME NEW s \in Seq(XIds), X11!Once(s), NEW w \in XIds,
           w \notin {s[i] : i \in DOMAIN s}
    PROVE  LET r == Append(s, w)
           IN  /\ r \in Seq(XIds) /\ X11!Once(r)
               /\ {r[i] : i \in DOMAIN r} = {s[i] : i \in DOMAIN s} \union {w}
<1> DEFINE r == Append(s, w)
<1>1. /\ r \in Seq(XIds) /\ DOMAIN r = 1..(Len(s) + 1) /\ DOMAIN s = 1..Len(s)
      /\ Len(s) \in Nat /\ r[Len(s) + 1] = w
      /\ \A i \in 1..Len(s) : r[i] = s[i]
  BY AppendProperties, LenProperties
<1> HIDE DEF r
<1>2. \A i \in 1..(Len(s) + 1) : i \in 1..Len(s) \/ i = Len(s) + 1
  BY <1>1
<1>3. \A i \in 1..Len(s) : i \in 1..(Len(s) + 1)
  BY <1>1
<1>4. Len(s) + 1 \in 1..(Len(s) + 1)
  BY <1>1
<1>5. \A i, j \in 1..Len(s) : s[i] = s[j] => i = j
  BY <1>1 DEF X11!Once
<1>6. \A i \in 1..Len(s) : s[i] # w
  BY <1>1
<1>7. X11!Once(r)
  BY <1>1, <1>2, <1>5, <1>6 DEF X11!Once
<1>8. {r[i] : i \in DOMAIN r} = {s[i] : i \in DOMAIN s} \union {w}
  BY <1>1, <1>2, <1>3, <1>4
<1>9. QED
  BY <1>1, <1>7, <1>8 DEF r

\* What an operation may not change of a compositor, for its windows to stay as
\* they are on the screen.
SameScene(d, e) ==
    /\ e.alive = d.alive /\ e.bare = d.bare /\ e.surface = d.surface /\ e.linked = d.linked
    /\ e.mapped = d.mapped /\ e.minimized = d.minimized /\ e.desk = d.desk
    /\ e.content = d.content /\ e.title = d.title /\ e.current = d.current

\* The lists, and the steps from the X window to its place among the mapped ones.
XShape(d) ==
    /\ d \in X11!XDesk /\ X11!Once(d.order)
    /\ d.mapped \subseteq d.surface /\ d.surface \subseteq d.alive
    /\ d.linked \subseteq d.surface
    /\ d.mapped \subseteq X11!InOrder(d)

\* What is drawn of each window, alive or not.
XSeen(d, w) == IF X11!IsVisible(d, w) THEN "shown" ELSE "hidden"
XDrawnAt(d, w) == d.content[w] \in {"none", XSeen(d, w)} /\ d.title[w] \in {"none", XSeen(d, w)}
XDrawn(d) == \A w \in XIds : XDrawnAt(d, w)

XHeld(d) == {d.drag, d.hover} \ {Empty} \subseteq X11!InOrder(d) \intersect d.mapped

XFine(d) == XShape(d) /\ XDrawn(d) /\ XHeld(d)

\* An operation that only passes on the focus, the highlight and the drag.
XCalm(d, e) ==
    /\ e \in X11!XDesk /\ X11!Once(e.order) /\ X11!InOrder(e) = X11!InOrder(d)
    /\ SameScene(d, e) /\ e.hover = d.hover /\ e.drag \in {d.drag, Empty}

\* What is drawn depends on the scene only.
LEMMA SceneIsDrawn ==
    ASSUME NEW d, NEW e, SameScene(d, e), XDrawn(d)
    PROVE  XDrawn(e)
<1>1. \A w : XSeen(e, w) = XSeen(d, w)
  BY DEF SameScene, XSeen, X11!IsVisible
<1>2. e.content = d.content /\ e.title = d.title
  BY DEF SameScene
<1>3. ASSUME NEW v \in XIds PROVE XDrawnAt(e, v)
  <2>1. XDrawnAt(d, v)
    BY DEF XDrawn
  <2>2. XSeen(e, v) = XSeen(d, v)
    BY <1>1
  <2>3. QED
    BY <1>2, <2>1, <2>2 DEF XDrawnAt
<1>4. QED
  BY <1>3, Zenon DEF XDrawn

\* What such an operation keeps.
LEMMA XCalmKeeps ==
    ASSUME NEW d, NEW e, XCalm(d, e)
    PROVE  /\ XShape(d) => XShape(e)
           /\ XDrawn(d) => XDrawn(e)
           /\ XHeld(d) => XHeld(e)
<1>1. XShape(d) => XShape(e)
  BY DEF XCalm, SameScene, XShape
<1>2. XDrawn(d) => XDrawn(e)
  BY SceneIsDrawn DEF XCalm
<1>3. XHeld(d) => XHeld(e)
  BY DEF XCalm, SameScene, XHeld
<1>4. QED
  BY <1>1, <1>2, <1>3

\* Two such operations are one.
LEMMA XCalmTwice ==
    ASSUME NEW d, NEW e, NEW f, XCalm(d, e), XCalm(e, f)
    PROVE  XCalm(d, f)
BY DEF XCalm, SameScene

\* activate(false).
LEMMA DeactivatedCalm ==
    ASSUME NEW d \in X11!XDesk, X11!Once(d.order), NEW S
    PROVE  XCalm(d, X11!Deactivated(d, S))
<1> DEFINE entry  == [w \in XIds |-> IF w \in S THEN X11!Told(d.entry[w], "activated", FALSE)
                                     ELSE d.entry[w]]
           told == d.active \ S
<1>1. entry \in [XIds -> SUBSET X11!Marks]
  BY DEF X11!XDesk, X11!Told, X11!NoEntry
<1>2. told \in SUBSET (XIds \union {Native})
  BY DEF X11!XDesk
<1>3. X11!Deactivated(d, S) = [d EXCEPT !.active = told, !.entry = entry]
  BY DEF X11!Deactivated
<1> HIDE DEF entry, told
<1>4. X11!Deactivated(d, S) \in X11!XDesk
  BY <1>1, <1>2, <1>3 DEF X11!XDesk
<1>5. QED
  BY <1>3, <1>4 DEF XCalm, X11!XDesk, X11!InOrder, SameScene

\* The focus goes to the xdg window.
LEMMA FocusNativeCalm ==
    ASSUME NEW d \in X11!XDesk, X11!Once(d.order)
    PROVE  XCalm(d, X11!FocusNative(d))
<1> DEFINE told == d.active \union {Native}
           e == [d EXCEPT !.focused = TRUE, !.keys = Native, !.active = told]
<1>1. XCalm(d, d)
  BY DEF XCalm, SameScene
<1>2. told \in SUBSET (XIds \union {Native})
  BY DEF X11!XDesk
<1> HIDE DEF told
<1>0. e \in X11!XDesk
  BY <1>2 DEF X11!XDesk
<1>3. XCalm(d, e) /\ e \in X11!XDesk
  BY <1>0 DEF XCalm, X11!XDesk, X11!InOrder, SameScene
<1>4. X11!Once(e.order)
  BY <1>3 DEF XCalm
<1>5. X11!FocusNative(d) = IF d.focused THEN d ELSE X11!Deactivated(e, X11!InOrder(d))
  BY DEF X11!FocusNative, told
<1> HIDE DEF e
<1>6. QED
  BY <1>1, <1>3, <1>4, <1>5, DeactivatedCalm, XCalmTwice

\* The focus goes to an X11 window, or to nothing.
LEMMA FocusCalm ==
    ASSUME NEW d \in X11!XDesk, X11!Once(d.order), NEW w \in XIds \union {Native, Empty},
           NEW S
    PROVE  XCalm(d, X11!Deactivated([d EXCEPT !.focused = FALSE, !.keys = w], S))
<1> DEFINE e == [d EXCEPT !.focused = FALSE, !.keys = w]
<1>0. e \in X11!XDesk
  BY DEF X11!XDesk
<1>1. XCalm(d, e) /\ e \in X11!XDesk
  BY <1>0 DEF XCalm, X11!XDesk, X11!InOrder, SameScene
<1>2. X11!Once(e.order)
  BY <1>1 DEF XCalm
<1> HIDE DEF e
<1>3. XCalm(d, X11!Deactivated(e, S))
  BY <1>1, <1>2, DeactivatedCalm, XCalmTwice
<1>4. QED
  BY <1>3 DEF e

\* A drag ends.
LEMMA EndInteractiveCalm ==
    ASSUME NEW d \in X11!XDesk, X11!Once(d.order)
    PROVE  XCalm(d, X11!EndInteractive(d)) /\ X11!EndInteractive(d).drag = Empty
BY DEF XCalm, X11!XDesk, X11!InOrder, SameScene, X11!EndInteractive

\* Nothing has the focus.
LEMMA UnfocusAllCalm ==
    ASSUME NEW d \in X11!XDesk, X11!Once(d.order)
    PROVE  XCalm(d, X11!UnfocusAll(d))
<1> DEFINE S == X11!InOrder(d) \union {Native}
           e == X11!Deactivated([d EXCEPT !.focused = FALSE, !.keys = Empty], S)
<1>0. Empty \in XIds \union {Native, Empty}
  OBVIOUS
<1> HIDE DEF S
<1>1. XCalm(d, e)
  BY <1>0, FocusCalm, Zenon
<1>2. e \in X11!XDesk /\ X11!Once(e.order)
  BY <1>1 DEF XCalm
<1>3. X11!UnfocusAll(d) = X11!EndInteractive(e)
  BY DEF X11!UnfocusAll, S
<1> HIDE DEF e
<1>4. QED
  BY <1>1, <1>2, <1>3, EndInteractiveCalm, XCalmTwice

\* A window comes to the top.
LEMMA RaiseXCalm ==
    ASSUME NEW d \in X11!XDesk, X11!Once(d.order), NEW w
    PROVE  XCalm(d, X11!RaiseX(d, w))
<1>1. CASE w \notin X11!InOrder(d)
  BY <1>1 DEF XCalm, SameScene, X11!RaiseX
<1>2. CASE w \in X11!InOrder(d)
  <2> DEFINE s == X11!WithoutX(d.order, w)
             r == Append(s, w)
  <2>1. d.order \in Seq(XIds) /\ X11!InOrder(d) = {d.order[i] : i \in DOMAIN d.order}
    BY DEF X11!XDesk, X11!InOrder
  <2>2. w \in XIds
    <3>1. DOMAIN d.order = 1..Len(d.order)
      BY <2>1, LenProperties
    <3>2. QED
      BY <1>2, <2>1, <3>1, ElementOfSeq
  <2>3. s \in Seq(XIds) /\ X11!Once(s)
        /\ {s[i] : i \in DOMAIN s} = {d.order[i] : i \in DOMAIN d.order} \ {w}
    BY <2>1, WithoutXKeeps
  <2>4. w \notin {s[i] : i \in DOMAIN s}
    BY <2>3
  <2> HIDE DEF s
  <2>5. r \in Seq(XIds) /\ X11!Once(r)
        /\ {r[i] : i \in DOMAIN r} = {s[i] : i \in DOMAIN s} \union {w}
    BY <2>2, <2>3, <2>4, AppendXKeeps
  <2>6. {r[i] : i \in DOMAIN r} = X11!InOrder(d)
    BY <1>2, <2>1, <2>3, <2>5
  <2>7. X11!RaiseX(d, w) = [d EXCEPT !.order = r]
    BY <1>2 DEF X11!RaiseX, s
  <2> HIDE DEF r
  <2>8. X11!RaiseX(d, w) \in X11!XDesk /\ X11!RaiseX(d, w).order = r
    BY <2>5, <2>7 DEF X11!XDesk
  <2>9. SameScene(d, X11!RaiseX(d, w)) /\ X11!RaiseX(d, w).hover = d.hover
        /\ X11!RaiseX(d, w).drag = d.drag
    BY <2>7 DEF SameScene, X11!XDesk
  <2>10. X11!InOrder(X11!RaiseX(d, w)) = X11!InOrder(d)
    BY <2>6, <2>8 DEF X11!InOrder
  <2>11. QED
    BY <2>5, <2>8, <2>9, <2>10 DEF XCalm
<1>3. QED
  BY <1>1, <1>2

\* Activating a window, whichever it is.
LEMMA ActivateXCalm ==
    ASSUME NEW d \in X11!XDesk, X11!Once(d.order), NEW w
    PROVE  XCalm(d, X11!ActivateX(d, w))
<1>1. CASE ~(w \in d.mapped /\ w \in d.surface)
  BY <1>1, DeactivatedCalm DEF X11!ActivateX
<1>2. CASE w \in d.mapped /\ w \in d.surface
  <2>1. w \in XIds
    BY <1>2 DEF X11!XDesk
  <2> DEFINE e == X11!FocusSurface(d, w)
             told == e.active \union {w}
             entry  == [e.entry EXCEPT ![w] = X11!Told(e.entry[w], "activated", TRUE)]
             f == [e EXCEPT !.active = told, !.entry = entry]
  <2>2. XCalm(d, e)
    <3>1. w \in XIds \union {Native, Empty}
      BY <2>1
    <3> DEFINE S == X11!InOrder(d) \union {Native}
    <3>2. e = X11!Deactivated([d EXCEPT !.focused = FALSE, !.keys = w], S)
      BY DEF X11!FocusSurface
    <3> HIDE DEF e, S
    <3>3. QED
      BY <3>1, <3>2, FocusCalm, Zenon
  <2>3. e \in X11!XDesk /\ X11!Once(e.order)
    BY <2>2 DEF XCalm
  <2> HIDE DEF e
  <2>4. told \in SUBSET (XIds \union {Native})
    BY <2>1, <2>3 DEF X11!XDesk
  <2>5. entry \in [XIds -> SUBSET X11!Marks]
    BY <2>1, <2>3 DEF X11!XDesk, X11!Told, X11!NoEntry, X11!Marks
  <2>6. f = [e EXCEPT !.active = @ \union {w}, !.entry[w] = X11!Told(@, "activated", TRUE)]
    OBVIOUS
  <2>7. X11!ActivateX(d, w) = X11!RaiseX(f, w)
    BY <1>2 DEF X11!ActivateX, e
  <2> HIDE DEF told, entry
  <2>0. f \in X11!XDesk
    BY <2>3, <2>4, <2>5 DEF X11!XDesk
  <2>8. XCalm(e, f) /\ f \in X11!XDesk
    BY <2>0, <2>3 DEF XCalm, X11!XDesk, X11!InOrder, SameScene
  <2>9. X11!Once(f.order)
    BY <2>8 DEF XCalm
  <2> HIDE DEF f
  <2>10. QED
    BY <2>2, <2>7, <2>8, <2>9, RaiseXCalm, XCalmTwice
<1>3. QED
  BY <1>1, <1>2

\* The window that a workspace had on top gets the focus.
LEMMA FocusDeskTopCalm ==
    ASSUME NEW d \in X11!XDesk, X11!Once(d.order)
    PROVE  XCalm(d, X11!FocusDeskTop(d))
<1> DEFINE shown == SelectSeq(d.order, LAMBDA w : X11!IsVisible(d, w))
<1>1. CASE d.current = 0
  BY <1>1, FocusNativeCalm DEF X11!FocusDeskTop
<1>2. CASE d.current # 0 /\ shown # <<>>
  <2>1. X11!FocusDeskTop(d) = X11!ActivateX(d, shown[Len(shown)])
    BY <1>2 DEF X11!FocusDeskTop
  <2> HIDE DEF shown
  <2>2. QED
    BY <2>1, ActivateXCalm
<1>3. CASE d.current # 0 /\ shown = <<>>
  BY <1>3, UnfocusAllCalm DEF X11!FocusDeskTop
<1>4. QED
  BY <1>1, <1>2, <1>3

\* The taskbar hears that a window is maximized or not.
LEMMA SetMaximizedXCalm ==
    ASSUME NEW d \in X11!XDesk, X11!Once(d.order), NEW w \in XIds, NEW on
    PROVE  XCalm(d, X11!SetMaximizedX(d, w, on))
<1> DEFINE maximized == IF on THEN d.maximized \union {w} ELSE d.maximized \ {w}
           entry     == [d.entry EXCEPT ![w] = X11!Told(d.entry[w], "maximized", on)]
<1>1. maximized \in SUBSET XIds
  BY DEF X11!XDesk
<1>2. entry \in [XIds -> SUBSET X11!Marks]
  BY DEF X11!XDesk, X11!Told, X11!NoEntry, X11!Marks
<1> DEFINE e == [d EXCEPT !.maximized = maximized, !.entry = entry]
<1>3. X11!SetMaximizedX(d, w, on) = e
  BY DEF X11!SetMaximizedX
<1> HIDE DEF maximized, entry
<1>4. e \in X11!XDesk
  BY <1>1, <1>2 DEF X11!XDesk
<1>5. XCalm(d, e)
  BY <1>4 DEF XCalm, X11!XDesk, X11!InOrder, SameScene
<1> HIDE DEF e
<1>6. QED
  BY <1>3, <1>5

\* An operation may leave one window to be drawn, or to be let go, by the next.
XDrawnBut(d, w) == \A v \in XIds \ {w} : XDrawnAt(d, v)
XHeldBut(d, w) == {d.drag, d.hover} \ {Empty, w} \subseteq X11!InOrder(d) \intersect d.mapped

\* The rest of a compositor, when one window is drawn anew.
LEMMA ApplyVisibilityKeeps ==
    ASSUME NEW d, NEW w \in XIds, XShape(d), XDrawnBut(d, w)
    PROVE  LET e == X11!ApplyVisibility(d, w)
           IN  /\ XShape(e) /\ XDrawn(e)
               /\ XHeld(d) => XHeld(e)
               /\ XHeldBut(d, w) => XHeldBut(e, w)
               /\ e.mapped = d.mapped
<1> DEFINE content == [d.content EXCEPT ![w] = X11!Drawn(d.content[w], X11!IsVisible(d, w))]
           title   == [d.title EXCEPT ![w] = X11!Drawn(d.title[w], X11!IsVisible(d, w))]
           e == [d EXCEPT !.content = content, !.title = title]
<1>1. d \in X11!XDesk
  BY DEF XShape
<1>2. /\ d.content \in [XIds -> X11!Parts] /\ d.title \in [XIds -> X11!Parts]
  BY <1>1 DEF X11!XDesk
<1>3. ASSUME NEW part \in X11!Parts
      PROVE  X11!Drawn(part, X11!IsVisible(d, w)) \in {"none", XSeen(d, w)}
  <2>1. CASE X11!IsVisible(d, w)
    BY <2>1 DEF X11!Drawn, X11!Parts, XSeen
  <2>2. CASE ~X11!IsVisible(d, w)
    BY <2>2 DEF X11!Drawn, X11!Parts, XSeen
  <2>3. QED
    BY <2>1, <2>2
<1>4. XSeen(d, w) \in X11!Parts
  BY DEF XSeen, X11!Parts
<1>5. /\ content[w] \in {"none", XSeen(d, w)} /\ title[w] \in {"none", XSeen(d, w)}
      /\ \A v \in XIds \ {w} : content[v] = d.content[v] /\ title[v] = d.title[v]
  BY <1>2, <1>3
<1>6. content \in [XIds -> X11!Parts] /\ title \in [XIds -> X11!Parts]
  BY <1>2, <1>3, <1>4 DEF X11!Parts
<1>7. X11!ApplyVisibility(d, w) = e
  <2>1. e = [d EXCEPT !.content[w] = X11!Drawn(@, X11!IsVisible(d, w)),
                      !.title[w]   = X11!Drawn(@, X11!IsVisible(d, w))]
    OBVIOUS
  <2> HIDE DEF e
  <2>2. QED
    BY <2>1 DEF X11!ApplyVisibility
<1> HIDE DEF content, title
<1>8. e \in X11!XDesk
  BY <1>1, <1>6 DEF X11!XDesk
<1>9. /\ e.content = content /\ e.title = title /\ e.alive = d.alive /\ e.surface = d.surface
      /\ e.linked = d.linked /\ e.mapped = d.mapped /\ e.minimized = d.minimized
      /\ e.desk = d.desk /\ e.current = d.current /\ e.order = d.order
      /\ e.drag = d.drag /\ e.hover = d.hover
  BY <1>1 DEF X11!XDesk
<1> HIDE DEF e
<1>10. \A v : XSeen(e, v) = XSeen(d, v)
  BY <1>9 DEF XSeen, X11!IsVisible
<1>11. XDrawn(e)
  <2>1. SUFFICES ASSUME NEW v \in XIds PROVE XDrawnAt(e, v)
    BY DEF XDrawn
  <2>2. CASE v = w
    BY <1>5, <1>9, <1>10, <2>2 DEF XDrawnAt
  <2>3. CASE v # w
    <3>1. XDrawnAt(d, v)
      BY <2>3 DEF XDrawnBut
    <3>2. QED
      BY <1>5, <1>9, <1>10, <2>3, <3>1 DEF XDrawnAt
  <2>4. QED
    BY <2>2, <2>3
<1>12. X11!InOrder(e) = X11!InOrder(d)
  BY <1>9 DEF X11!InOrder
<1>13. XShape(e)
  BY <1>8, <1>9, <1>12 DEF XShape
<1>14. (XHeld(d) => XHeld(e)) /\ (XHeldBut(d, w) => XHeldBut(e, w))
  BY <1>9, <1>12 DEF XHeld, XHeldBut
<1>15. QED
  BY <1>7, <1>9, <1>11, <1>13, <1>14

\* What ends a handler: the hovered window is one of those the hit test considers.
LEMMA DoneFine ==
    ASSUME NEW d, XFine(d), X11!Done(d)
    PROVE  XFine(xs') /\ UNCHANGED xsAborted
<1>1. PICK h \in IF d.rehover THEN X11!Hit(d) \union {Empty} ELSE {d.hover} :
          xs' = [d EXCEPT !.hover = h, !.rehover = FALSE]
  BY Zenon DEF X11!Done
<1>2. d \in X11!XDesk
  BY DEF XFine, XShape
<1>3. h = Empty \/ h \in X11!InOrder(d) \intersect d.mapped
  BY <1>1 DEF XFine, XHeld, X11!Hit
<1>4. h \in XIds \union {Empty}
  BY <1>2, <1>3 DEF X11!XDesk
<1> DEFINE e == [d EXCEPT !.hover = h, !.rehover = FALSE]
<1>5. e \in X11!XDesk
  BY <1>2, <1>4 DEF X11!XDesk
<1>6. SameScene(d, e) /\ e.order = d.order /\ e.drag = d.drag /\ e.hover = h
  BY <1>2 DEF SameScene, X11!XDesk
<1> HIDE DEF e
<1>7. X11!InOrder(e) = X11!InOrder(d)
  BY <1>6 DEF X11!InOrder
<1>8. XShape(e)
  BY <1>5, <1>6, <1>7 DEF XFine, XShape, SameScene
<1>9. XDrawn(e)
  BY <1>6, SceneIsDrawn DEF XFine
<1>10. XHeld(e)
  BY <1>3, <1>6, <1>7 DEF XFine, XHeld, SameScene
<1>11. xs' = e /\ UNCHANGED xsAborted
  BY <1>1 DEF X11!Done, e
<1>12. QED
  BY <1>8, <1>9, <1>10, <1>11 DEF XFine

\* The hover is to be computed anew.
LEMMA RehoverFine ==
    ASSUME NEW d, XFine(d)
    PROVE  XFine([d EXCEPT !.rehover = TRUE])
<1> DEFINE e == [d EXCEPT !.rehover = TRUE]
<1>1. d \in X11!XDesk /\ X11!Once(d.order)
  BY DEF XFine, XShape
<1>2. e \in X11!XDesk
  BY <1>1 DEF X11!XDesk
<1>3. XCalm(d, e)
  BY <1>1, <1>2 DEF XCalm, SameScene, X11!XDesk, X11!InOrder
<1> HIDE DEF e
<1>4. XFine(e)
  BY <1>3, XCalmKeeps DEF XFine
<1>5. QED
  BY <1>4 DEF e

\* removeXView, then the seat lets go of the window.
LEMMA RemoveXFine ==
    ASSUME NEW d, NEW w \in XIds, XShape(d), XDrawn(d), XHeldBut(d, w), w \notin d.mapped
    PROVE  XFine(X11!RemoveX(d, w)) /\ SameScene(d, X11!RemoveX(d, w))
<1> DEFINE order == X11!WithoutX(d.order, w)
           e == [d EXCEPT !.order = order]
           f == IF e.drag = w THEN X11!EndInteractive(e) ELSE e
           hover == IF f.hover = w THEN Empty ELSE f.hover
           g == [f EXCEPT !.hover = hover]
<1>1. d \in X11!XDesk /\ X11!Once(d.order) /\ d.order \in Seq(XIds)
  BY DEF XShape, X11!XDesk
<1>2. order \in Seq(XIds) /\ X11!Once(order)
      /\ {order[i] : i \in DOMAIN order} = {d.order[i] : i \in DOMAIN d.order} \ {w}
  BY <1>1, WithoutXKeeps
<1>3. X11!RemoveX(d, w) = g
  BY DEF X11!RemoveX, X11!ForgetX
<1> HIDE DEF order
<1>4. e \in X11!XDesk
  BY <1>1, <1>2 DEF X11!XDesk
<1>5. SameScene(d, e) /\ e.order = order /\ e.drag = d.drag /\ e.hover = d.hover
  BY <1>1 DEF SameScene, X11!XDesk
<1> HIDE DEF e
<1>6. X11!Once(e.order) /\ X11!InOrder(e) = X11!InOrder(d) \ {w}
  BY <1>2, <1>5 DEF X11!InOrder
<1>7. XShape(e)
  BY <1>4, <1>5, <1>6 DEF XShape, SameScene
<1>8. XDrawn(e)
  BY <1>5, SceneIsDrawn
<1>9. XCalm(e, f) /\ f.drag \in {Empty, d.drag} \ ({w} \ {Empty})
  <2>1. CASE e.drag = w
    BY <1>4, <1>6, <2>1, EndInteractiveCalm
  <2>2. CASE e.drag # w
    BY <1>4, <1>5, <1>6, <2>2 DEF XCalm, SameScene
  <2>3. QED
    BY <2>1, <2>2
<1> HIDE DEF f
<1>10. XShape(f) /\ XDrawn(f) /\ f \in X11!XDesk /\ X11!InOrder(f) = X11!InOrder(d) \ {w}
       /\ f.hover = d.hover /\ f.mapped = d.mapped
  BY <1>5, <1>6, <1>7, <1>8, <1>9, XCalmKeeps DEF XCalm, SameScene
<1>11. hover \in {Empty, d.hover} \ ({w} \ {Empty})
  BY <1>10
<1> HIDE DEF hover
<1>12. hover \in XIds \union {Empty}
  BY <1>1, <1>11 DEF X11!XDesk
<1>13. g \in X11!XDesk
  BY <1>10, <1>12 DEF X11!XDesk
<1>14. SameScene(f, g) /\ g.order = f.order /\ g.drag = f.drag /\ g.hover = hover
  BY <1>10 DEF SameScene, X11!XDesk
<1> HIDE DEF g
<1>15. X11!InOrder(g) = X11!InOrder(f)
  BY <1>14 DEF X11!InOrder
<1>16. XShape(g)
  BY <1>10, <1>13, <1>14, <1>15 DEF XShape, SameScene
<1>17. XDrawn(g)
  BY <1>10, <1>14, SceneIsDrawn
<1>18. XHeld(g)
  BY <1>9, <1>10, <1>11, <1>14, <1>15 DEF XHeld, XHeldBut, SameScene
<1>19. SameScene(d, g)
  BY <1>5, <1>9, <1>14 DEF XCalm, SameScene
<1>20. QED
  BY <1>3, <1>16, <1>17, <1>18, <1>19 DEF XFine

\* The windows of another workspace are shown, and the focus follows.
LEMMA SwitchDeskFine ==
    ASSUME NEW d, NEW k \in Desks, XFine(d)
    PROVE  XFine(X11!SwitchDesk(d, k)) /\ X11!SwitchDesk(d, k) \in X11!XDesk
<1>1. d \in X11!XDesk
  BY DEF XFine, XShape
<1>2. CASE k = d.current
  BY <1>1, <1>2 DEF X11!SwitchDesk
<1>3. CASE k # d.current
  <2> DEFINE e == [d EXCEPT !.current = k, !.rehover = TRUE]
             drawn(parts) == [w \in XIds |-> IF w \in X11!InOrder(e)
                                             THEN X11!Drawn(parts[w], X11!IsVisible(e, w))
                                             ELSE parts[w]]
             content == drawn(d.content)
             title   == drawn(d.title)
             f == [e EXCEPT !.content = content, !.title = title]
  <2>1. X11!SwitchDesk(d, k) = X11!FocusDeskTop(f)
    <3>1. e.content = d.content /\ e.title = d.title
      BY <1>1 DEF X11!XDesk
    <3>2. X11!SwitchDesk(d, k) =
              X11!FocusDeskTop([e EXCEPT !.content = drawn(@), !.title = drawn(@)])
      BY <1>3 DEF X11!SwitchDesk
    <3> HIDE DEF e
    <3>3. [e EXCEPT !.content = drawn(@), !.title = drawn(@)] = f
      BY <3>1
    <3>4. QED
      BY <3>2, <3>3
  <2>2. e \in X11!XDesk
    BY <1>1 DEF X11!XDesk
  <2>3. /\ e.content = d.content /\ e.title = d.title /\ e.alive = d.alive
        /\ e.surface = d.surface /\ e.linked = d.linked /\ e.mapped = d.mapped
        /\ e.minimized = d.minimized /\ e.desk = d.desk /\ e.order = d.order
        /\ e.drag = d.drag /\ e.hover = d.hover
    BY <1>1 DEF X11!XDesk
  <2> HIDE DEF e
  <2>4. X11!InOrder(e) = X11!InOrder(d)
    BY <2>3 DEF X11!InOrder
  <2>5. /\ d.content \in [XIds -> X11!Parts] /\ d.title \in [XIds -> X11!Parts]
    BY <1>1 DEF X11!XDesk
  <2>6. \A w : XSeen(e, w) \in X11!Parts
    BY DEF XSeen, X11!Parts
  <2>7. ASSUME NEW w \in XIds, NEW part \in X11!Parts
        PROVE  X11!Drawn(part, X11!IsVisible(e, w)) \in {"none", XSeen(e, w)}
    <3>1. CASE X11!IsVisible(e, w)
      BY <2>7, <3>1 DEF X11!Drawn, X11!Parts, XSeen
    <3>2. CASE ~X11!IsVisible(e, w)
      BY <2>7, <3>2 DEF X11!Drawn, X11!Parts, XSeen
    <3>3. QED
      BY <3>1, <3>2
  <2>8. ASSUME NEW w \in XIds
        PROVE  content[w] \in {"none", XSeen(e, w)} /\ title[w] \in {"none", XSeen(e, w)}
    <3>1. CASE w \in X11!InOrder(e)
      <4>1. content[w] = X11!Drawn(d.content[w], X11!IsVisible(e, w))
            /\ title[w] = X11!Drawn(d.title[w], X11!IsVisible(e, w))
        BY <3>1
      <4>2. d.content[w] \in X11!Parts /\ d.title[w] \in X11!Parts
        BY <2>5
      <4> HIDE DEF content, title
      <4>3. QED
        BY <2>7, <4>1, <4>2
    <3>2. CASE w \notin X11!InOrder(e)
      <4>1. content[w] = d.content[w] /\ title[w] = d.title[w]
        BY <3>2
      <4> HIDE DEF content, title
      <4>2. w \notin d.mapped /\ w \notin e.mapped
        BY <2>3, <2>4, <3>2 DEF XFine, XShape
      <4>3. XSeen(e, w) = "hidden" /\ XSeen(d, w) = "hidden"
        BY <4>2 DEF XSeen, X11!IsVisible
      <4>4. XDrawnAt(d, w)
        BY DEF XFine, XDrawn
      <4>5. QED
        BY <4>1, <4>3, <4>4 DEF XDrawnAt
    <3>3. QED
      BY <3>1, <3>2
  <2>9. content \in [XIds -> X11!Parts] /\ title \in [XIds -> X11!Parts]
    <3>1. DOMAIN content = XIds /\ DOMAIN title = XIds
          /\ content = [w \in XIds |-> content[w]] /\ title = [w \in XIds |-> title[w]]
      OBVIOUS
    <3> HIDE DEF content, title
    <3>2. ASSUME NEW v \in XIds PROVE content[v] \in X11!Parts /\ title[v] \in X11!Parts
      <4>1. "none" \in X11!Parts
        BY DEF X11!Parts
      <4>2. QED
        BY <2>6, <2>8, <4>1
    <3>3. QED
      BY <3>1, <3>2
  <2> HIDE DEF content, title
  <2>10. f \in X11!XDesk
    BY <2>2, <2>9 DEF X11!XDesk
  <2>11. /\ f.content = content /\ f.title = title /\ f.alive = e.alive
         /\ f.surface = e.surface /\ f.linked = e.linked /\ f.mapped = e.mapped
         /\ f.minimized = e.minimized /\ f.desk = e.desk /\ f.current = e.current
         /\ f.order = e.order /\ f.drag = e.drag /\ f.hover = e.hover
    BY <2>2 DEF X11!XDesk
  <2> HIDE DEF f
  <2>12. X11!InOrder(f) = X11!InOrder(d)
    BY <2>3, <2>11 DEF X11!InOrder
  <2>13. XShape(f)
    BY <2>3, <2>10, <2>11, <2>12 DEF XFine, XShape
  <2>14. \A w : XSeen(f, w) = XSeen(e, w)
    BY <2>11 DEF XSeen, X11!IsVisible
  <2>15. XDrawn(f)
    <3>1. SUFFICES ASSUME NEW v \in XIds PROVE XDrawnAt(f, v)
      BY DEF XDrawn
    <3>2. QED
      BY <2>8, <2>11, <2>14 DEF XDrawnAt
  <2>16. XHeld(f)
    BY <2>3, <2>11, <2>12 DEF XFine, XHeld
  <2>17. XCalm(f, X11!FocusDeskTop(f))
    BY <2>10, <2>13, FocusDeskTopCalm DEF XShape
  <2>18. QED
    BY <2>1, <2>13, <2>15, <2>16, <2>17, XCalmKeeps DEF XFine, XCalm
<1>4. QED
  BY <1>2, <1>3

\* A window is hidden or shown again, and the taskbar hears it.
LEMMA SetMinimizedXFine ==
    ASSUME NEW d, NEW w \in XIds, NEW on, XFine(d)
    PROVE  XFine(X11!SetMinimizedX(d, w, on)) /\ X11!SetMinimizedX(d, w, on) \in X11!XDesk
<1> DEFINE minimized == IF on THEN d.minimized \union {w} ELSE d.minimized \ {w}
           m == [d EXCEPT !.minimized = minimized]
           a == IF on THEN X11!Deactivated(m, {w}) ELSE m
           entry == [a.entry EXCEPT ![w] = X11!Told(a.entry[w], "minimized", on)]
           b == [a EXCEPT !.entry = entry]
<1>1. d \in X11!XDesk
  BY DEF XFine, XShape
<1>2. minimized \in SUBSET XIds /\ \A v \in XIds \ {w} : v \in minimized <=> v \in d.minimized
  BY <1>1 DEF X11!XDesk
<1>3. X11!SetMinimizedX(d, w, on) = X11!ApplyVisibility(b, w)
  BY DEF X11!SetMinimizedX
<1> HIDE DEF minimized
<1>4. m \in X11!XDesk
  BY <1>1, <1>2 DEF X11!XDesk
<1>5. /\ m.content = d.content /\ m.title = d.title /\ m.alive = d.alive
      /\ m.surface = d.surface /\ m.linked = d.linked /\ m.mapped = d.mapped
      /\ m.minimized = minimized /\ m.desk = d.desk /\ m.current = d.current
      /\ m.order = d.order /\ m.drag = d.drag /\ m.hover = d.hover
  BY <1>1 DEF X11!XDesk
<1> HIDE DEF m
<1>6. X11!InOrder(m) = X11!InOrder(d) /\ X11!Once(m.order)
  BY <1>5 DEF X11!InOrder, XFine, XShape
<1>7. XShape(m) /\ XHeld(m)
  BY <1>4, <1>5, <1>6 DEF XFine, XShape, XHeld
<1>8. XCalm(m, a)
  BY <1>4, <1>6, DeactivatedCalm DEF XCalm, SameScene
<1> HIDE DEF a
<1>9. a \in X11!XDesk /\ X11!Once(a.order)
  BY <1>8 DEF XCalm
<1>10. entry \in [XIds -> SUBSET X11!Marks]
  BY <1>9 DEF X11!XDesk, X11!Told, X11!NoEntry, X11!Marks
<1> HIDE DEF entry
<1>11. b \in X11!XDesk
  BY <1>9, <1>10 DEF X11!XDesk
<1>12. XCalm(a, b)
  BY <1>9, <1>11 DEF XCalm, SameScene, X11!InOrder, X11!XDesk
<1> HIDE DEF b
<1>13. XCalm(m, b)
  BY <1>8, <1>12, XCalmTwice
<1>14. XShape(b) /\ XHeld(b)
  BY <1>7, <1>13, XCalmKeeps
<1>15. XDrawnBut(b, w)
  <2>1. SUFFICES ASSUME NEW v \in XIds \ {w} PROVE XDrawnAt(b, v)
    BY Zenon DEF XDrawnBut
  <2>2. XDrawnAt(d, v)
    BY DEF XFine, XDrawn
  <2>3. XSeen(m, v) = XSeen(d, v)
    BY <1>2, <1>5 DEF XSeen, X11!IsVisible
  <2>4. XSeen(b, v) = XSeen(m, v)
    BY <1>13 DEF XCalm, SameScene, XSeen, X11!IsVisible
  <2>5. b.content = d.content /\ b.title = d.title
    BY <1>5, <1>13 DEF XCalm, SameScene
  <2>6. QED
    BY <2>2, <2>3, <2>4, <2>5 DEF XDrawnAt
<1>16. QED
  BY <1>3, <1>14, <1>15, ApplyVisibilityKeeps DEF XFine, XShape

\* The invariant.
XInv == XFine(xs) /\ ~xsAborted

\* Windows that come, get their surface and lose it, and go.
LEMMA XLifeKeeps ==
    ASSUME XInv, NEW w \in XIds,
           \/ X11!NewXSurface(w) \/ X11!Associate(w) \/ X11!Dissociate(w) \/ X11!DestroyX(w)
    PROVE  XInv'
<1>1. xs \in X11!XDesk /\ X11!Once(xs.order) /\ XShape(xs) /\ XDrawn(xs) /\ XHeld(xs)
  BY DEF XInv, XFine, XShape
<1>2. CASE X11!NewXSurface(w)
  <2>1. PICK override \in BOOLEAN :
            X11!Done([xs EXCEPT !.alive    = @ \union {w},
                                !.bare     = IF override THEN @ \union {w} ELSE @,
                                !.desk[w]  = xs.current,
                                !.title[w] = IF override THEN "none" ELSE "hidden",
                                !.entry[w] = IF override THEN X11!NoEntry ELSE X11!Fresh])
    BY <1>2, Zenon DEF X11!NewXSurface
  <2> DEFINE alive == xs.alive \union {w}
             bare  == IF override THEN xs.bare \union {w} ELSE xs.bare
             desk  == [xs.desk EXCEPT ![w] = xs.current]
             title == [xs.title EXCEPT ![w] = IF override THEN "none" ELSE "hidden"]
             entry == [xs.entry EXCEPT ![w] = IF override THEN X11!NoEntry ELSE X11!Fresh]
             e == [xs EXCEPT !.alive = alive, !.bare = bare, !.desk = desk, !.title = title,
                             !.entry = entry]
  <2>2. X11!Done(e)
    BY <2>1
  <2>3. alive \in SUBSET XIds /\ bare \in SUBSET XIds /\ desk \in [XIds -> Desks]
    BY <1>1 DEF X11!XDesk
  <2>4. title \in [XIds -> X11!Parts]
    BY <1>1 DEF X11!XDesk, X11!Parts
  <2>5. entry \in [XIds -> SUBSET X11!Marks]
    BY <1>1 DEF X11!XDesk, X11!NoEntry, X11!Fresh, X11!Marks
  <2>6. title[w] \in {"none", "hidden"}
        /\ \A v \in XIds \ {w} : title[v] = xs.title[v] /\ desk[v] = xs.desk[v]
    BY <1>1 DEF X11!XDesk
  <2>7. alive = xs.alive \union {w}
    OBVIOUS
  <2> HIDE DEF alive, bare, desk, title, entry
  <2>8. e \in X11!XDesk
    BY <1>1, <2>3, <2>4, <2>5 DEF X11!XDesk
  <2>9. /\ e.content = xs.content /\ e.title = title /\ e.alive = alive
        /\ e.surface = xs.surface /\ e.linked = xs.linked /\ e.mapped = xs.mapped
        /\ e.minimized = xs.minimized /\ e.desk = desk /\ e.current = xs.current
        /\ e.order = xs.order /\ e.drag = xs.drag /\ e.hover = xs.hover
    BY <1>1 DEF X11!XDesk
  <2> HIDE DEF e
  <2>10. X11!InOrder(e) = X11!InOrder(xs)
    BY <2>9 DEF X11!InOrder
  <2>11. XShape(e)
    BY <1>1, <2>7, <2>8, <2>9, <2>10 DEF XShape
  <2>12. XHeld(e)
    BY <1>1, <2>9, <2>10 DEF XHeld
  <2>13. w \notin xs.mapped
    <3>1. w \notin xs.alive
      BY <1>2, Zenon DEF X11!NewXSurface
    <3>2. QED
      BY <1>1, <3>1 DEF XShape
  <2>14. XDrawn(e)
    <3>1. SUFFICES ASSUME NEW v \in XIds PROVE XDrawnAt(e, v)
      BY Zenon DEF XDrawn
    <3>2. XDrawnAt(xs, v)
      BY <1>1 DEF XDrawn
    <3>3. CASE v = w
      <4>1. XSeen(e, w) = "hidden" /\ XSeen(xs, w) = "hidden"
        BY <2>9, <2>13 DEF XSeen, X11!IsVisible
      <4>2. QED
        BY <2>6, <2>9, <3>2, <3>3, <4>1 DEF XDrawnAt
    <3>4. CASE v # w
      <4>1. XSeen(e, v) = XSeen(xs, v)
        BY <2>6, <2>9, <3>4 DEF XSeen, X11!IsVisible
      <4>2. QED
        BY <2>6, <2>9, <3>2, <3>4, <4>1 DEF XDrawnAt
    <3>5. QED
      BY <3>3, <3>4
  <2>15. QED
    BY <2>2, <2>11, <2>12, <2>14, DoneFine DEF XFine, XInv
<1>3. CASE X11!Associate(w)
  <2> DEFINE surface == xs.surface \union {w}
             linked  == xs.linked \union {w}
             content == [xs.content EXCEPT ![w] = "shown"]
             e == [xs EXCEPT !.surface = surface, !.content = content, !.linked = linked]
  <2>1. xs' = X11!ApplyVisibility(e, w) /\ w \in xs.alive \ xs.surface
        /\ xsAborted' = (xsAborted \/ w \in xs.linked)
    BY <1>3 DEF X11!Associate
  <2>2. surface \in SUBSET XIds /\ linked \in SUBSET XIds
    BY <1>1 DEF X11!XDesk
  <2>3. content \in [XIds -> X11!Parts] /\ \A v \in XIds \ {w} : content[v] = xs.content[v]
    BY <1>1 DEF X11!XDesk, X11!Parts
  <2>4. surface = xs.surface \union {w} /\ linked = xs.linked \union {w}
    OBVIOUS
  <2> HIDE DEF surface, linked, content
  <2>5. e \in X11!XDesk
    BY <1>1, <2>2, <2>3 DEF X11!XDesk
  <2>6. /\ e.content = content /\ e.title = xs.title /\ e.alive = xs.alive
        /\ e.surface = surface /\ e.linked = linked /\ e.mapped = xs.mapped
        /\ e.minimized = xs.minimized /\ e.desk = xs.desk /\ e.current = xs.current
        /\ e.order = xs.order /\ e.drag = xs.drag /\ e.hover = xs.hover
    BY <1>1 DEF X11!XDesk
  <2> HIDE DEF e
  <2>7. X11!InOrder(e) = X11!InOrder(xs)
    BY <2>6 DEF X11!InOrder
  <2>8. XShape(e) /\ XHeld(e)
    BY <1>1, <2>1, <2>4, <2>5, <2>6, <2>7 DEF XShape, XHeld
  <2>9. XDrawnBut(e, w)
    <3>1. SUFFICES ASSUME NEW v \in XIds \ {w} PROVE XDrawnAt(e, v)
      BY Zenon DEF XDrawnBut
    <3>2. XDrawnAt(xs, v)
      BY <1>1 DEF XDrawn
    <3>3. XSeen(e, v) = XSeen(xs, v)
      BY <2>6 DEF XSeen, X11!IsVisible
    <3>4. QED
      BY <2>3, <2>6, <3>2, <3>3 DEF XDrawnAt
  <2>10. w \notin xs.linked
    BY <1>1, <2>1 DEF XShape
  <2>11. XFine(xs')
    BY <2>1, <2>8, <2>9, ApplyVisibilityKeeps DEF XFine
  <2>12. QED
    BY <2>1, <2>10, <2>11 DEF XInv
<1>4. CASE X11!Dissociate(w)
  <2> DEFINE surface == xs.surface \ {w}
             linked  == xs.linked \ {w}
             content == [xs.content EXCEPT ![w] = "none"]
             e == [xs EXCEPT !.surface = surface, !.linked = linked, !.content = content]
             f == X11!ApplyVisibility(e, w)
  <2>1. X11!Done(X11!RemoveX(f, w)) /\ w \in xs.surface \ xs.mapped
    BY <1>4 DEF X11!Dissociate
  <2>2. surface \in SUBSET XIds /\ linked \in SUBSET XIds
    BY <1>1 DEF X11!XDesk
  <2>3. content \in [XIds -> X11!Parts] /\ \A v \in XIds \ {w} : content[v] = xs.content[v]
    BY <1>1 DEF X11!XDesk, X11!Parts
  <2>4. surface = xs.surface \ {w} /\ linked = xs.linked \ {w}
    OBVIOUS
  <2> HIDE DEF surface, linked, content
  <2>5. e \in X11!XDesk
    BY <1>1, <2>2, <2>3 DEF X11!XDesk
  <2>6. /\ e.content = content /\ e.title = xs.title /\ e.alive = xs.alive
        /\ e.surface = surface /\ e.linked = linked /\ e.mapped = xs.mapped
        /\ e.minimized = xs.minimized /\ e.desk = xs.desk /\ e.current = xs.current
        /\ e.order = xs.order /\ e.drag = xs.drag /\ e.hover = xs.hover
    BY <1>1 DEF X11!XDesk
  <2> HIDE DEF e
  <2>7. X11!InOrder(e) = X11!InOrder(xs)
    BY <2>6 DEF X11!InOrder
  <2>8. XShape(e)
    BY <1>1, <2>1, <2>4, <2>5, <2>6, <2>7 DEF XShape
  <2>9. XHeldBut(e, w)
    BY <1>1, <2>6, <2>7 DEF XHeld, XHeldBut
  <2>10. XDrawnBut(e, w)
    <3>1. SUFFICES ASSUME NEW v \in XIds \ {w} PROVE XDrawnAt(e, v)
      BY Zenon DEF XDrawnBut
    <3>2. XDrawnAt(xs, v)
      BY <1>1 DEF XDrawn
    <3>3. XSeen(e, v) = XSeen(xs, v)
      BY <2>6 DEF XSeen, X11!IsVisible
    <3>4. QED
      BY <2>3, <2>6, <3>2, <3>3 DEF XDrawnAt
  <2>11. XShape(f) /\ XDrawn(f) /\ XHeldBut(f, w) /\ w \notin f.mapped
    BY <2>1, <2>6, <2>8, <2>9, <2>10, ApplyVisibilityKeeps
  <2> HIDE DEF f
  <2>12. XFine(X11!RemoveX(f, w))
    BY <2>11, RemoveXFine
  <2>13. QED
    BY <2>1, <2>12, DoneFine DEF XInv
<1>5. CASE X11!DestroyX(w)
  <2> DEFINE r == X11!RemoveX(xs, w)
             alive     == r.alive \ {w}
             bare      == r.bare \ {w}
             minimized == r.minimized \ {w}
             maximized == r.maximized \ {w}
             told      == r.active \ {w}
             desk      == [r.desk EXCEPT ![w] = 0]
             title     == [r.title EXCEPT ![w] = "none"]
             entry     == [r.entry EXCEPT ![w] = X11!NoEntry]
             e == [r EXCEPT !.alive = alive, !.bare = bare, !.minimized = minimized,
                            !.maximized = maximized, !.active = told, !.desk = desk,
                            !.title = title, !.entry = entry]
  <2>1. X11!Done(e) /\ w \in xs.alive \ xs.surface
    BY <1>5 DEF X11!DestroyX
  <2>2. w \notin xs.mapped /\ XHeldBut(xs, w)
    BY <1>1, <2>1 DEF XShape, XHeld, XHeldBut
  <2>3. XFine(r) /\ SameScene(xs, r)
    BY <1>1, <2>2, RemoveXFine
  <2> HIDE DEF r
  <2>4. r \in X11!XDesk
    BY <2>3 DEF XFine, XShape
  <2>5. alive \in SUBSET XIds /\ bare \in SUBSET XIds /\ minimized \in SUBSET XIds
        /\ maximized \in SUBSET XIds
    BY <2>4 DEF X11!XDesk
  <2>6. told \in SUBSET (XIds \union {Native})
    BY <2>4 DEF X11!XDesk
  <2>7. desk \in [XIds -> Desks] /\ title \in [XIds -> X11!Parts]
    BY <2>4, XAssumption DEF X11!XDesk, X11!Parts, XAssumption
  <2>8. entry \in [XIds -> SUBSET X11!Marks]
    BY <2>4 DEF X11!XDesk, X11!NoEntry
  <2>9. title[w] = "none"
        /\ \A v \in XIds \ {w} : /\ title[v] = r.title[v] /\ desk[v] = r.desk[v]
                                 /\ v \in minimized <=> v \in r.minimized
    BY <2>4 DEF X11!XDesk
  <2>10. alive = r.alive \ {w}
    OBVIOUS
  <2> HIDE DEF alive, bare, minimized, maximized, told, desk, title, entry
  <2>11. e \in X11!XDesk
    BY <2>4, <2>5, <2>6, <2>7, <2>8 DEF X11!XDesk
  <2>12. /\ e.content = r.content /\ e.title = title /\ e.alive = alive
         /\ e.surface = r.surface /\ e.linked = r.linked /\ e.mapped = r.mapped
         /\ e.minimized = minimized /\ e.desk = desk /\ e.current = r.current
         /\ e.order = r.order /\ e.drag = r.drag /\ e.hover = r.hover
    BY <2>4 DEF X11!XDesk
  <2> HIDE DEF e
  <2>13. X11!InOrder(e) = X11!InOrder(r)
    BY <2>12 DEF X11!InOrder
  <2>14. w \notin r.mapped /\ w \notin r.surface
    BY <2>1, <2>2, <2>3 DEF SameScene
  <2>15. XShape(e) /\ XHeld(e)
    BY <2>3, <2>10, <2>11, <2>12, <2>13, <2>14 DEF XFine, XShape, XHeld
  <2>16. XDrawn(e)
    <3>1. SUFFICES ASSUME NEW v \in XIds PROVE XDrawnAt(e, v)
      BY Zenon DEF XDrawn
    <3>2. XDrawnAt(r, v)
      BY <2>3 DEF XFine, XDrawn
    <3>3. CASE v = w
      <4>1. XSeen(e, w) = "hidden" /\ XSeen(r, w) = "hidden"
        BY <2>12, <2>14 DEF XSeen, X11!IsVisible
      <4>2. QED
        BY <2>9, <2>12, <3>2, <3>3, <4>1 DEF XDrawnAt
    <3>4. CASE v # w
      <4>1. XSeen(e, v) = XSeen(r, v)
        BY <2>9, <2>12, <3>4 DEF XSeen, X11!IsVisible
      <4>2. QED
        BY <2>9, <2>12, <3>2, <3>4, <4>1 DEF XDrawnAt
    <3>5. QED
      BY <3>3, <3>4
  <2>17. QED
    BY <2>1, <2>15, <2>16, DoneFine DEF XFine, XInv
<1>6. QED
  BY <1>2, <1>3, <1>4, <1>5

\* Windows that are mapped and unmapped, and change to override-redirect and back.
LEMMA XMapKeeps ==
    ASSUME XInv, NEW w \in XIds,
           X11!HandleMap(w) \/ X11!HandleUnmap(w) \/ X11!SetOverrideRedirect(w)
    PROVE  XInv'
<1>1. xs \in X11!XDesk /\ X11!Once(xs.order) /\ XShape(xs) /\ XDrawn(xs) /\ XHeld(xs)
  BY DEF XInv, XFine, XShape
<1>2. CASE X11!HandleMap(w)
  <2> DEFINE mapped == xs.mapped \union {w}
             m == [xs EXCEPT !.mapped = mapped]
             order == IF w \in X11!InOrder(m) THEN m.order ELSE Append(m.order, w)
             e == [m EXCEPT !.order = order]
             f == X11!ApplyVisibility(e, w)
  <2>1. w \in xs.surface \ xs.mapped
    BY <1>2 DEF X11!HandleMap
  <2>2. mapped \in SUBSET XIds /\ mapped = xs.mapped \union {w}
    BY <1>1 DEF X11!XDesk
  <2>3. X11!Done(X11!RaiseX(f, w))
    <3>1. CASE w \in X11!InOrder(m)
      <4>1. e = m
        <5>1. m \in X11!XDesk
          BY <1>1, <2>2 DEF X11!XDesk
        <5> HIDE DEF m
        <5>2. QED
          BY <3>1, <5>1 DEF X11!XDesk
      <4>2. X11!Done(X11!RaiseX(X11!ApplyVisibility(m, w), w))
        BY <1>2, <3>1 DEF X11!HandleMap
      <4> HIDE DEF m, e
      <4>3. QED
        BY <4>1, <4>2
    <3>2. CASE w \notin X11!InOrder(m)
      <4>1. X11!Done(X11!RaiseX(X11!ApplyVisibility([m EXCEPT !.order = Append(@, w)], w), w))
        BY <1>2, <3>2 DEF X11!HandleMap
      <4> HIDE DEF m
      <4>2. e = [m EXCEPT !.order = Append(@, w)]
        BY <3>2
      <4> HIDE DEF e
      <4>3. QED
        BY <4>1, <4>2
    <3>3. QED
      BY <3>1, <3>2
  <2> HIDE DEF mapped
  <2>4. /\ m.content = xs.content /\ m.title = xs.title /\ m.alive = xs.alive
        /\ m.surface = xs.surface /\ m.linked = xs.linked /\ m.mapped = mapped
        /\ m.minimized = xs.minimized /\ m.desk = xs.desk /\ m.current = xs.current
        /\ m.order = xs.order /\ m.drag = xs.drag /\ m.hover = xs.hover
    BY <1>1 DEF X11!XDesk
  <2>5. m \in X11!XDesk
    BY <1>1, <2>2 DEF X11!XDesk
  <2> HIDE DEF m
  <2>6. X11!InOrder(m) = {m.order[i] : i \in DOMAIN m.order} /\ m.order \in Seq(XIds)
        /\ X11!InOrder(m) = X11!InOrder(xs) /\ X11!Once(m.order)
    BY <1>1, <2>4, <2>5 DEF X11!InOrder, X11!XDesk
  <2>7. /\ order \in Seq(XIds) /\ X11!Once(order)
        /\ {order[i] : i \in DOMAIN order} = X11!InOrder(xs) \union {w}
    <3>1. CASE w \in X11!InOrder(m)
      BY <2>6, <3>1
    <3>2. CASE w \notin X11!InOrder(m)
      <4>1. order = Append(m.order, w) /\ w \notin {m.order[i] : i \in DOMAIN m.order}
        BY <2>6, <3>2
      <4> HIDE DEF order
      <4>2. LET r == Append(m.order, w)
            IN  /\ r \in Seq(XIds) /\ X11!Once(r)
                /\ {r[i] : i \in DOMAIN r} = {m.order[i] : i \in DOMAIN m.order} \union {w}
        BY <2>6, <4>1, AppendXKeeps
      <4>3. QED
        BY <2>6, <4>1, <4>2
    <3>3. QED
      BY <3>1, <3>2
  <2> HIDE DEF order
  <2>8. e \in X11!XDesk
    BY <2>5, <2>7 DEF X11!XDesk
  <2>9. /\ e.content = m.content /\ e.title = m.title /\ e.alive = m.alive
        /\ e.surface = m.surface /\ e.linked = m.linked /\ e.mapped = m.mapped
        /\ e.minimized = m.minimized /\ e.desk = m.desk /\ e.current = m.current
        /\ e.order = order /\ e.drag = m.drag /\ e.hover = m.hover
    BY <2>5 DEF X11!XDesk
  <2> HIDE DEF e
  <2>10. X11!InOrder(e) = X11!InOrder(xs) \union {w}
    BY <2>7, <2>9 DEF X11!InOrder
  <2>11. XShape(e) /\ XHeld(e)
    BY <1>1, <2>1, <2>2, <2>4, <2>7, <2>8, <2>9, <2>10 DEF XShape, XHeld
  <2>12. XDrawnBut(e, w)
    <3>1. SUFFICES ASSUME NEW v \in XIds \ {w} PROVE XDrawnAt(e, v)
      BY Zenon DEF XDrawnBut
    <3>2. XDrawnAt(xs, v)
      BY <1>1 DEF XDrawn
    <3>3. XSeen(e, v) = XSeen(xs, v)
      BY <2>2, <2>4, <2>9 DEF XSeen, X11!IsVisible
    <3>4. QED
      BY <2>4, <2>9, <3>2, <3>3 DEF XDrawnAt
  <2>13. XShape(f) /\ XDrawn(f) /\ XHeld(f)
    BY <2>11, <2>12, ApplyVisibilityKeeps
  <2> HIDE DEF f
  <2>14. XFine(X11!RaiseX(f, w))
    BY <2>13, RaiseXCalm, XCalmKeeps DEF XFine, XShape
  <2>15. QED
    BY <2>3, <2>14, DoneFine DEF XInv
<1>3. CASE X11!HandleUnmap(w)
  <2> DEFINE mapped == xs.mapped \ {w}
             e == [xs EXCEPT !.mapped = mapped]
             f == X11!ApplyVisibility(e, w)
             r == X11!RemoveX(f, w)
             u == IF r.keys = w THEN X11!UnfocusAll(r) ELSE r
  <2>1. X11!Done([u EXCEPT !.rehover = TRUE])
    BY <1>3 DEF X11!HandleUnmap
  <2>2. mapped \in SUBSET XIds /\ mapped = xs.mapped \ {w}
    BY <1>1 DEF X11!XDesk
  <2> HIDE DEF mapped
  <2>3. /\ e.content = xs.content /\ e.title = xs.title /\ e.alive = xs.alive
        /\ e.surface = xs.surface /\ e.linked = xs.linked /\ e.mapped = mapped
        /\ e.minimized = xs.minimized /\ e.desk = xs.desk /\ e.current = xs.current
        /\ e.order = xs.order /\ e.drag = xs.drag /\ e.hover = xs.hover
    BY <1>1 DEF X11!XDesk
  <2>4. e \in X11!XDesk
    BY <1>1, <2>2 DEF X11!XDesk
  <2> HIDE DEF e
  <2>5. X11!InOrder(e) = X11!InOrder(xs)
    BY <2>3 DEF X11!InOrder
  <2>6. XShape(e) /\ XHeldBut(e, w)
    BY <1>1, <2>2, <2>3, <2>4, <2>5 DEF XShape, XHeld, XHeldBut
  <2>7. XDrawnBut(e, w)
    <3>1. SUFFICES ASSUME NEW v \in XIds \ {w} PROVE XDrawnAt(e, v)
      BY Zenon DEF XDrawnBut
    <3>2. XDrawnAt(xs, v)
      BY <1>1 DEF XDrawn
    <3>3. XSeen(e, v) = XSeen(xs, v)
      BY <2>2, <2>3 DEF XSeen, X11!IsVisible
    <3>4. QED
      BY <2>3, <3>2, <3>3 DEF XDrawnAt
  <2>8. XShape(f) /\ XDrawn(f) /\ XHeldBut(f, w) /\ w \notin f.mapped
    BY <2>2, <2>3, <2>6, <2>7, ApplyVisibilityKeeps
  <2> HIDE DEF f
  <2>9. XFine(r)
    BY <2>8, RemoveXFine
  <2> HIDE DEF r
  <2>10. XFine(u)
    BY <2>9, UnfocusAllCalm, XCalmKeeps DEF XFine, XShape
  <2> HIDE DEF u
  <2>11. XFine([u EXCEPT !.rehover = TRUE])
    BY <2>10, RehoverFine
  <2>12. QED
    BY <2>1, <2>11, DoneFine DEF XInv
<1>4. CASE X11!SetOverrideRedirect(w)
  <2> DEFINE bare  == IF w \in xs.bare THEN xs.bare \ {w} ELSE xs.bare \union {w}
             title == [xs.title EXCEPT ![w] = IF w \in xs.bare THEN "hidden" ELSE "none"]
             entry == [xs.entry EXCEPT ![w] = IF w \in xs.bare THEN X11!Fresh ELSE X11!NoEntry]
             e == [xs EXCEPT !.bare = bare, !.title = title, !.entry = entry]
  <2>1. X11!Done(X11!ApplyVisibility(e, w))
    <3>1. CASE w \in xs.bare
      <4>1. X11!Done(X11!ApplyVisibility([xs EXCEPT !.bare = @ \ {w}, !.title[w] = "hidden",
                                                    !.entry[w] = X11!Fresh], w))
        BY <1>4, <3>1 DEF X11!SetOverrideRedirect
      <4>2. QED
        BY <3>1, <4>1
    <3>2. CASE w \notin xs.bare
      <4>1. X11!Done(X11!ApplyVisibility([xs EXCEPT !.bare = @ \union {w}, !.title[w] = "none",
                                                    !.entry[w] = X11!NoEntry], w))
        BY <1>4, <3>2 DEF X11!SetOverrideRedirect
      <4>2. QED
        BY <3>2, <4>1
    <3>3. QED
      BY <3>1, <3>2
  <2>2. bare \in SUBSET XIds
    BY <1>1 DEF X11!XDesk
  <2>3. title \in [XIds -> X11!Parts] /\ entry \in [XIds -> SUBSET X11!Marks]
        /\ \A v \in XIds \ {w} : title[v] = xs.title[v]
    BY <1>1 DEF X11!XDesk, X11!Parts, X11!Marks, X11!Fresh, X11!NoEntry
  <2> HIDE DEF bare, title, entry
  <2>4. e \in X11!XDesk
    BY <1>1, <2>2, <2>3 DEF X11!XDesk
  <2>5. /\ e.content = xs.content /\ e.title = title /\ e.alive = xs.alive
        /\ e.surface = xs.surface /\ e.linked = xs.linked /\ e.mapped = xs.mapped
        /\ e.minimized = xs.minimized /\ e.desk = xs.desk /\ e.current = xs.current
        /\ e.order = xs.order /\ e.drag = xs.drag /\ e.hover = xs.hover
    BY <1>1 DEF X11!XDesk
  <2> HIDE DEF e
  <2>6. X11!InOrder(e) = X11!InOrder(xs)
    BY <2>5 DEF X11!InOrder
  <2>7. XShape(e) /\ XHeld(e)
    BY <1>1, <2>4, <2>5, <2>6 DEF XShape, XHeld
  <2>8. XDrawnBut(e, w)
    <3>1. SUFFICES ASSUME NEW v \in XIds \ {w} PROVE XDrawnAt(e, v)
      BY Zenon DEF XDrawnBut
    <3>2. XDrawnAt(xs, v)
      BY <1>1 DEF XDrawn
    <3>3. XSeen(e, v) = XSeen(xs, v)
      BY <2>5 DEF XSeen, X11!IsVisible
    <3>4. QED
      BY <2>3, <2>5, <3>2, <3>3 DEF XDrawnAt
  <2>9. XFine(X11!ApplyVisibility(e, w))
    BY <2>7, <2>8, ApplyVisibilityKeeps DEF XFine
  <2>10. QED
    BY <2>1, <2>9, DoneFine DEF XInv
<1>5. QED
  BY <1>2, <1>3, <1>4

\* What clients and the taskbar ask for.
LEMMA XRequestKeeps ==
    ASSUME XInv, NEW w \in XIds,
           \/ X11!RequestActivate(w) \/ X11!RequestMinimize(w) \/ X11!RequestMaximize(w)
           \/ X11!EntryActivate(w) \/ X11!EntryMaximize(w)
    PROVE  XInv'
<1>1. xs \in X11!XDesk /\ X11!Once(xs.order) /\ XFine(xs)
  BY DEF XInv, XFine, XShape
<1>2. ASSUME NEW d, X11!Done(d), XFine(d) PROVE XInv'
  BY <1>2, DoneFine DEF XInv
<1>3. ASSUME NEW d, NEW e, XFine(d), XCalm(d, e) PROVE XFine(e)
  BY <1>3, XCalmKeeps DEF XFine
<1>4. ASSUME NEW d, XFine(d) PROVE d \in X11!XDesk /\ X11!Once(d.order)
  BY <1>4 DEF XFine, XShape
<1>5. CASE X11!RequestActivate(w)
  BY <1>1, <1>2, <1>3, <1>5, ActivateXCalm DEF X11!RequestActivate
<1>6. CASE X11!RequestMinimize(w)
  <2>1. PICK on \in BOOLEAN : X11!Done(X11!SetMinimizedX(xs, w, on))
    BY <1>6, Zenon DEF X11!RequestMinimize
  <2>2. QED
    BY <1>1, <1>2, <2>1, SetMinimizedXFine
<1>7. CASE X11!RequestMaximize(w) \/ X11!EntryMaximize(w)
  <2>1. PICK on \in BOOLEAN : X11!Done(X11!SetMaximizedX(xs, w, on))
    BY <1>7, Zenon DEF X11!RequestMaximize, X11!EntryMaximize
  <2>2. QED
    BY <1>1, <1>2, <1>3, <2>1, SetMaximizedXCalm
<1>8. CASE X11!EntryActivate(w)
  <2> DEFINE s == X11!SwitchDesk(xs, xs.desk[w])
             m == IF w \in s.minimized THEN X11!SetMinimizedX(s, w, FALSE) ELSE s
             a == X11!ActivateX(m, w)
  <2>1. X11!Done(X11!RaiseX(a, w))
    BY <1>8 DEF X11!EntryActivate
  <2>2. xs.desk[w] \in Desks
    BY <1>1 DEF X11!XDesk
  <2>3. XFine(s)
    BY <1>1, <2>2, SwitchDeskFine
  <2> HIDE DEF s
  <2>4. XFine(m)
    BY <2>3, SetMinimizedXFine
  <2> HIDE DEF m
  <2>5. XFine(a)
    BY <1>3, <1>4, <2>4, ActivateXCalm
  <2> HIDE DEF a
  <2>6. XFine(X11!RaiseX(a, w))
    BY <1>3, <1>4, <2>5, RaiseXCalm
  <2>7. QED
    BY <1>2, <2>1, <2>6
<1>9. QED
  BY <1>5, <1>6, <1>7, <1>8

\* The pointer, and the shortcut for a workspace.
LEMMA XPointerKeeps ==
    ASSUME XInv,
           \/ \E w \in XIds : X11!PressTitle(w) \/ X11!PressContent(w)
           \/ X11!PressNative \/ X11!Release \/ X11!Motion \/ X11!ShowDesk
    PROVE  XInv'
<1>1. xs \in X11!XDesk /\ X11!Once(xs.order) /\ XFine(xs)
  BY DEF XInv, XFine, XShape
<1>2. ASSUME NEW d, X11!Done(d), XFine(d) PROVE XInv'
  BY <1>2, DoneFine DEF XInv
<1>3. ASSUME NEW d, NEW e, XFine(d), XCalm(d, e) PROVE XFine(e)
  BY <1>3, XCalmKeeps DEF XFine
<1>4. ASSUME NEW d, XFine(d) PROVE d \in X11!XDesk /\ X11!Once(d.order)
  BY <1>4 DEF XFine, XShape
<1>5. ASSUME NEW w \in XIds, X11!PressTitle(w) PROVE XInv'
  <2> DEFINE b == X11!ActivateX(xs, w)
             a == X11!RaiseX(b, w)
             e == [a EXCEPT !.drag = w]
  <2>1. w \in X11!Hit(xs)
    BY <1>5 DEF X11!PressTitle
  <2>2. \/ X11!Done(a) \/ X11!Done(e)
        \/ X11!Done(X11!SetMinimizedX(a, w, w \notin a.minimized))
        \/ X11!Done(X11!SetMaximizedX(a, w, w \notin a.maximized))
    BY <1>5, Zenon DEF X11!PressTitle
  <2>3. XCalm(xs, b)
    BY <1>1, ActivateXCalm
  <2> HIDE DEF b
  <2>4. b \in X11!XDesk /\ X11!Once(b.order)
    BY <2>3 DEF XCalm
  <2>5. XCalm(xs, a)
    BY <2>3, <2>4, RaiseXCalm, XCalmTwice
  <2> HIDE DEF a
  <2>6. XFine(a) /\ a \in X11!XDesk /\ X11!Once(a.order)
    BY <1>1, <1>3, <2>5 DEF XCalm
  <2>7. XFine(e)
    <3>1. w \in X11!InOrder(a) \intersect a.mapped
      BY <2>1, <2>5 DEF X11!Hit, XCalm, SameScene
    <3>2. e \in X11!XDesk
      BY <2>6 DEF X11!XDesk
    <3>3. SameScene(a, e) /\ e.order = a.order /\ e.hover = a.hover /\ e.drag = w
      BY <2>6 DEF SameScene, X11!XDesk
    <3> HIDE DEF e
    <3>4. X11!InOrder(e) = X11!InOrder(a)
      BY <3>3 DEF X11!InOrder
    <3>5. XShape(e) /\ XHeld(e)
      BY <2>6, <3>1, <3>2, <3>3, <3>4 DEF XFine, XShape, XHeld, SameScene
    <3>6. XDrawn(e)
      BY <2>6, <3>3, SceneIsDrawn DEF XFine
    <3>7. QED
      BY <3>5, <3>6 DEF XFine
  <2> HIDE DEF e
  <2>8. CASE X11!Done(a) \/ X11!Done(e)
    BY <1>2, <2>6, <2>7, <2>8
  <2>9. CASE X11!Done(X11!SetMinimizedX(a, w, w \notin a.minimized))
    <3> DEFINE on == w \notin a.minimized
    <3> HIDE DEF on
    <3>1. XFine(X11!SetMinimizedX(a, w, on))
      BY <2>6, SetMinimizedXFine
    <3>2. QED
      BY <1>2, <2>9, <3>1 DEF on
  <2>10. CASE X11!Done(X11!SetMaximizedX(a, w, w \notin a.maximized))
    <3> DEFINE on == w \notin a.maximized
    <3> HIDE DEF on
    <3>1. XFine(X11!SetMaximizedX(a, w, on))
      BY <1>3, <2>6, SetMaximizedXCalm
    <3>2. QED
      BY <1>2, <2>10, <3>1 DEF on
  <2>11. QED
    BY <2>2, <2>8, <2>9, <2>10
<1>6. ASSUME NEW w \in XIds, X11!PressContent(w) PROVE XInv'
  <2> DEFINE S == X11!InOrder(xs) \union {Native}
             a == X11!Deactivated([xs EXCEPT !.focused = FALSE, !.keys = w], S)
  <2>1. X11!Done(X11!RaiseX(a, w))
    BY <1>6, Zenon DEF X11!PressContent, X11!FocusSurface
  <2>2. w \in XIds \union {Native, Empty}
    OBVIOUS
  <2> HIDE DEF S
  <2>3. XCalm(xs, a)
    BY <1>1, <2>2, FocusCalm, Zenon
  <2> HIDE DEF a
  <2>4. XFine(a)
    BY <1>1, <1>3, <2>3
  <2>5. XFine(X11!RaiseX(a, w))
    BY <1>3, <1>4, <2>4, RaiseXCalm
  <2>6. QED
    BY <1>2, <2>1, <2>5
<1>7. CASE X11!PressNative
  BY <1>1, <1>2, <1>3, <1>7, FocusNativeCalm DEF X11!PressNative
<1>8. CASE X11!Release
  BY <1>1, <1>2, <1>3, <1>8, EndInteractiveCalm DEF X11!Release
<1>9. CASE X11!Motion
  BY <1>1, <1>2, <1>9, RehoverFine DEF X11!Motion
<1>10. CASE X11!ShowDesk
  <2>1. PICK k \in Desks : X11!Done(X11!SwitchDesk(xs, k))
    BY <1>10, Zenon DEF X11!ShowDesk
  <2>2. QED
    BY <1>1, <1>2, <2>1, SwitchDeskFine
<1>11. QED
  BY <1>5, <1>6, <1>7, <1>8, <1>9, <1>10

\* Every step keeps the invariant.
LEMMA XInvHolds == Spec => []XInv
<1>1. Init => XInv
  <2> SUFFICES ASSUME Init PROVE XInv
    OBVIOUS
  <2>1. /\ xs.alive = {} /\ xs.bare = {} /\ xs.surface = {} /\ xs.linked = {} /\ xs.mapped = {}
        /\ xs.content = [w \in XIds |-> "none"] /\ xs.title = [w \in XIds |-> "none"]
        /\ xs.order = <<>> /\ xs.drag = Empty /\ xs.hover = Empty /\ ~xsAborted
    BY DEF Init, X11!Init
  <2>2. xs \in X11!XDesk
    <3>1. /\ [w \in XIds |-> 0] \in [XIds -> Desks]
          /\ [w \in XIds |-> "none"] \in [XIds -> X11!Parts]
          /\ [w \in XIds |-> X11!NoEntry] \in [XIds -> SUBSET X11!Marks]
          /\ <<>> \in Seq(XIds)
      BY XAssumption DEF XAssumption, X11!Parts, X11!NoEntry
    <3> DEFINE desk == [w \in XIds |-> 0]
               part == [w \in XIds |-> "none"]
               entry == [w \in XIds |-> X11!NoEntry]
    <3>2. xs = [alive |-> {}, bare |-> {}, surface |-> {}, linked |-> {}, mapped |-> {},
                minimized |-> {}, maximized |-> {}, active |-> {}, desk |-> desk,
                content |-> part, title |-> part, entry |-> entry, order |-> <<>>,
                keys |-> Empty, focused |-> FALSE, current |-> 0, drag |-> Empty,
                hover |-> Empty, rehover |-> FALSE]
      BY DEF Init, X11!Init
    <3> HIDE DEF desk, part, entry
    <3>3. QED
      BY <3>1, <3>2, XAssumption DEF X11!XDesk, XAssumption, desk, part, entry
  <2>3. X11!Once(xs.order) /\ XShape(xs)
    BY <2>1, <2>2 DEF X11!Once, XShape
  <2>4. XDrawn(xs)
    <3>1. SUFFICES ASSUME NEW v \in XIds PROVE XDrawnAt(xs, v)
      BY Zenon DEF XDrawn
    <3>2. QED
      BY <2>1 DEF XDrawnAt
  <2>5. XHeld(xs)
    BY <2>1 DEF XHeld
  <2>6. QED
    BY <2>1, <2>3, <2>4, <2>5 DEF XInv, XFine
<1>2. XInv /\ [Next]_vars => XInv'
  <2> SUFFICES ASSUME XInv, [Next]_vars PROVE XInv'
    OBVIOUS
  <2>1. [X11!Next]_x11Vars
    BY XAlone
  <2>2. CASE UNCHANGED x11Vars
    <3>1. xs' = xs /\ xsAborted' = xsAborted
      BY <2>2 DEF x11Vars
    <3>2. QED
      BY <3>1 DEF XInv
  <2>3. CASE X11!Next
    BY <2>3, XLifeKeeps, XMapKeeps, XRequestKeeps, XPointerKeeps DEF X11!Next
  <2>4. QED
    BY <2>1, <2>2, <2>3
<1>3. QED
  BY <1>1, <1>2, PTL DEF Spec

\* Whatever clients, the taskbar, the pointer and the shortcuts do, in any order: what
\* is on the screen of an X11 window is what should be visible of it, the seat drags and
\* highlights only windows that are mapped and listed, none is listed twice, and no
\* listener is linked twice.
THEOREM XWindowsStayConsistent == Spec => []XWindowsAreConsistent
<1>1. ASSUME XInv PROVE XWindowsAreConsistent
  <2>1. X11!HeldAreListed
    BY <1>1 DEF XInv, XFine, XShape, XHeld, X11!HeldAreListed
  <2>2. X11!DrawnIsVisible
    <3>1. SUFFICES ASSUME NEW v \in xs.alive
                   PROVE  /\ xs.content[v] # "none" =>
                                 (xs.content[v] = "shown") = X11!IsVisible(xs, v)
                          /\ xs.title[v] # "none" =>
                                 (xs.title[v] = "shown") = X11!IsVisible(xs, v)
      BY Zenon DEF X11!DrawnIsVisible
    <3>2. XDrawnAt(xs, v)
      BY <1>1 DEF XInv, XFine, XShape, XDrawn, X11!XDesk
    <3>3. X11!IsVisible(xs, v) \in BOOLEAN
      BY DEF X11!IsVisible
    <3>4. CASE X11!IsVisible(xs, v)
      BY <3>2, <3>3, <3>4 DEF XDrawnAt, XSeen
    <3>5. CASE ~X11!IsVisible(xs, v)
      BY <3>2, <3>3, <3>5 DEF XDrawnAt, XSeen
    <3>6. QED
      BY <3>4, <3>5
  <2>3. QED
    BY <2>1, <2>2 DEF XWindowsAreConsistent
<1>2. QED
  BY <1>1, XInvHolds, PTL

-----------------------------------------------------------------------------
(* Taskbar: any number of windows, titles and events under way.            *)

\* Steps of the composition are steps of the taskbar.
LEMMA BarAlone ==
    ASSUME [Next]_vars
    PROVE  [Bar!Next]_taskbarVars
BY DEF Next, vars, XStep, InputStep, NightStep, DisplayStep, TaskbarStep, ReadersStep,
       ConfigStep, Alone, taskbarVars

\* Below, w is a window, t what the compositor has of it, s the events under way, h the
\* shell's handles, b its buttons and due the handles that will get a "done".
Lives(t) == t.phase \in {"created", "mapped"}
Gets(s, i, w, kind) == s[i][1] = kind /\ s[i][2] = w
Known(w, s, h) == w \in DOMAIN h \/ \E i \in 1..Len(s) : Gets(s, i, w, "toplevel")

\* A window's first event is "toplevel", and it is its only one.
BarOrder(w, s, h) ==
    \A i \in 1..Len(s) : s[i][2] = w =>
        IF s[i][1] = "toplevel"
        THEN w \notin DOMAIN h /\ \A j \in 1..Len(s) : j < i => s[j][2] # w
        ELSE w \in DOMAIN h \/ \E j \in 1..Len(s) : j < i /\ Gets(s, j, w, "toplevel")

\* "closed" is the last one.
BarEnd(w, s) ==
    \A i \in 1..Len(s) : Gets(s, i, w, "closed") => \A j \in 1..Len(s) : i < j => s[j][2] # w

\* The shell knows the windows that there are, and will hear of those that are gone.
BarLife(w, t, s, h) ==
    /\ t.phase = "never" => w \notin DOMAIN h /\ \A i \in 1..Len(s) : s[i][2] # w
    /\ Lives(t) => Known(w, s, h) /\ \A i \in 1..Len(s) : ~Gets(s, i, w, "closed")
    /\ ~Lives(t) /\ Known(w, s, h) => \E i \in 1..Len(s) : Gets(s, i, w, "closed")

\* From some event on, if not from the handle on, the shell hears the title there is now.
BarTitle(w, t, s, h) ==
    \/ \E i \in 1..Len(s) :
           /\ Gets(s, i, w, "title")
           /\ \A j \in 1..Len(s) : i <= j /\ Gets(s, j, w, "title") => s[j][3] = t.title
    \/ /\ w \in DOMAIN h /\ h[w].title = t.title
       /\ \A i \in 1..Len(s) : ~Gets(s, i, w, "title")

\* So with the state.
BarState(w, t, s, h) ==
    \/ \E i \in 1..Len(s) :
           /\ Gets(s, i, w, "state")
           /\ \A j \in 1..Len(s) : i <= j /\ Gets(s, j, w, "state") => s[j][3] = Bar!StateOf(t)
    \/ /\ w \in DOMAIN h /\ Bar!StateOf(h[w]) = Bar!StateOf(t)
       /\ \A i \in 1..Len(s) : ~Gets(s, i, w, "state")

\* The last event is the "done" that draws the button, or it is drawn already.
BarDone(w, s, h, b) ==
    \/ \E i \in 1..Len(s) :
           Gets(s, i, w, "done") /\ \A j \in 1..Len(s) : i < j => s[j][2] # w
    \/ /\ w \in DOMAIN h /\ b[w] = Bar!UpdateFromHandle(h[w])
       /\ \A i \in 1..Len(s) : s[i][2] # w

BarOf(w, t, s, h, b, due) ==
    /\ BarOrder(w, s, h) /\ BarEnd(w, s) /\ BarLife(w, t, s, h)
    /\ Lives(t) => BarTitle(w, t, s, h) /\ BarState(w, t, s, h)
    /\ Lives(t) /\ w \notin due => BarDone(w, s, h, b)

\* The places of a sequence that was added to.
LEMMA PlacesOf ==
    ASSUME NEW E, NEW s \in Seq(E), NEW e \in Seq(E)
    PROVE  LET r == s \o e
           IN  /\ r \in Seq(E) /\ Len(s) \in Nat /\ Len(e) \in Nat
               /\ Len(r) = Len(s) + Len(e)
               /\ \A i \in 1..Len(s) : r[i] = s[i] /\ i \in 1..Len(r)
               /\ \A i \in 1..Len(e) : r[Len(s) + i] = e[i] /\ Len(s) + i \in 1..Len(r)
               /\ \A i \in 1..Len(r) :
                      i \in 1..Len(s) \/ (i > Len(s) /\ i - Len(s) \in 1..Len(e)
                                          /\ r[i] = e[i - Len(s)])
<1> DEFINE r == s \o e
<1>1. r \in Seq(E) /\ Len(s) \in Nat /\ Len(e) \in Nat /\ Len(r) = Len(s) + Len(e)
      /\ \A i \in 1..(Len(s) + Len(e)) :
             r[i] = IF i <= Len(s) THEN s[i] ELSE e[i - Len(s)]
  BY ConcatProperties, LenProperties
<1> HIDE DEF r
<1>2. \A i \in 1..Len(s) : r[i] = s[i] /\ i \in 1..Len(r)
  BY <1>1
<1>3. ASSUME NEW i \in 1..Len(e) PROVE r[Len(s) + i] = e[i] /\ Len(s) + i \in 1..Len(r)
  <2>1. Len(s) + i \in 1..(Len(s) + Len(e)) /\ ~(Len(s) + i <= Len(s))
        /\ (Len(s) + i) - Len(s) = i
    BY <1>1
  <2>2. QED
    BY <1>1, <2>1
<1>4. ASSUME NEW i \in 1..Len(r)
      PROVE  i \in 1..Len(s) \/ (i > Len(s) /\ i - Len(s) \in 1..Len(e) /\ r[i] = e[i - Len(s)])
  BY <1>1
<1>5. QED
  BY <1>1, <1>2, <1>3, <1>4 DEF r

\* Events that are added come after the window's first.
LEMMA PushOrder ==
    ASSUME NEW E, NEW s \in Seq(E), NEW e \in Seq(E), NEW w, NEW h, BarOrder(w, s, h),
           \A i \in 1..Len(e) : e[i][2] = w => e[i][1] # "toplevel" /\ Known(w, s, h)
    PROVE  BarOrder(w, s \o e, h)
<1> DEFINE r == s \o e
           n == Len(s)
<1>1. /\ n \in Nat
      /\ \A i \in 1..n : r[i] = s[i] /\ i \in 1..Len(r)
      /\ \A i \in 1..Len(r) : i \in 1..n \/ (i > n /\ i - n \in 1..Len(e) /\ r[i] = e[i - n])
  BY PlacesOf
<1> HIDE DEF r
<1>2. SUFFICES ASSUME NEW i \in 1..Len(r), r[i][2] = w
               PROVE  IF r[i][1] = "toplevel"
                      THEN w \notin DOMAIN h /\ \A j \in 1..Len(r) : j < i => r[j][2] # w
                      ELSE w \in DOMAIN h \/ \E j \in 1..Len(r) : j < i /\ Gets(r, j, w, "toplevel")
  BY DEF BarOrder, r
<1>3. CASE i \in 1..n
  <2>1. s[i][2] = w /\ s[i] = r[i]
    BY <1>1, <1>2, <1>3
  <2>2. \A j \in 1..Len(r) : j < i => j \in 1..n
    BY <1>1, <1>3
  <2>3. QED
    BY <1>1, <1>3, <2>1, <2>2 DEF BarOrder, Gets
<1>4. CASE i \notin 1..n
  <2>1. i > n /\ r[i][1] # "toplevel" /\ Known(w, s, h)
    BY <1>1, <1>2, <1>4
  <2>2. \A j \in 1..n : j < i
    BY <1>1, <2>1
  <2>3. QED
    BY <1>1, <2>1, <2>2 DEF Known, Gets
<1>5. QED
  BY <1>3, <1>4

\* Nothing is added after "closed".
LEMMA PushEnd ==
    ASSUME NEW E, NEW s \in Seq(E), NEW e \in Seq(E), NEW w, BarEnd(w, s),
           \A i \in 1..Len(e) : e[i][2] = w => /\ \A k \in 1..Len(s) : ~Gets(s, k, w, "closed")
                                               /\ e[i][1] # "closed" \/ i = Len(e)
    PROVE  BarEnd(w, s \o e)
<1> DEFINE r == s \o e
           n == Len(s)
<1>1. /\ n \in Nat /\ Len(e) \in Nat /\ Len(r) = n + Len(e)
      /\ \A i \in 1..n : r[i] = s[i] /\ i \in 1..Len(r)
      /\ \A i \in 1..Len(r) : i \in 1..n \/ (i > n /\ i - n \in 1..Len(e) /\ r[i] = e[i - n])
  BY PlacesOf
<1> HIDE DEF r
<1>2. ASSUME NEW i \in 1..Len(r), Gets(r, i, w, "closed"),
             NEW j \in 1..Len(r), i < j, r[j][2] = w
      PROVE  FALSE
  <2>1. CASE i \in 1..n
    <3>1. Gets(s, i, w, "closed")
      BY <1>1, <1>2, <2>1 DEF Gets
    <3>2. j \in 1..n
      BY <1>1, <1>2, <2>1, <3>1
    <3>3. QED
      BY <1>1, <1>2, <2>1, <3>1, <3>2 DEF BarEnd
  <2>2. CASE i \notin 1..n
    <3>1. i - n \in 1..Len(e) /\ Gets(e, i - n, w, "closed")
      BY <1>1, <1>2, <2>2 DEF Gets
    <3>2. i - n = Len(e)
      BY <3>1 DEF Gets
    <3>3. QED
      BY <1>1, <1>2, <3>2
  <2>3. QED
    BY <2>1, <2>2
<1>3. QED
  BY <1>2 DEF BarEnd, r

\* A window that is known stays so.
LEMMA PushKnown ==
    ASSUME NEW E, NEW s \in Seq(E), NEW e \in Seq(E), NEW w, NEW h,
           \A i \in 1..Len(e) : e[i][2] = w => e[i][1] # "toplevel"
    PROVE  Known(w, s \o e, h) <=> Known(w, s, h)
<1> DEFINE r == s \o e
           n == Len(s)
<1>1. /\ \A i \in 1..n : r[i] = s[i] /\ i \in 1..Len(r)
      /\ \A i \in 1..Len(r) : i \in 1..n \/ (i > n /\ i - n \in 1..Len(e) /\ r[i] = e[i - n])
  BY PlacesOf
<1> HIDE DEF r
<1>2. ASSUME NEW i \in 1..Len(r), Gets(r, i, w, "toplevel")
      PROVE  i \in 1..n /\ Gets(s, i, w, "toplevel")
  BY <1>1, <1>2 DEF Gets
<1>3. ASSUME NEW i \in 1..n, Gets(s, i, w, "toplevel")
      PROVE  i \in 1..Len(r) /\ Gets(r, i, w, "toplevel")
  BY <1>1, <1>3 DEF Gets
<1>4. Known(w, r, h) <=> Known(w, s, h)
  BY <1>2, <1>3 DEF Known
<1>5. QED
  BY <1>4 DEF r

\* Events of other kinds leave the title to come.
LEMMA PushTitle ==
    ASSUME NEW E, NEW s \in Seq(E), NEW e \in Seq(E), NEW w, NEW h, NEW t, NEW u,
           BarTitle(w, t, s, h), u.title = t.title,
           \A i \in 1..Len(e) : e[i][2] = w => e[i][1] # "title"
    PROVE  BarTitle(w, u, s \o e, h)
<1> DEFINE r == s \o e
           n == Len(s)
<1>1. /\ \A i \in 1..n : r[i] = s[i] /\ i \in 1..Len(r)
      /\ \A i \in 1..Len(r) : i \in 1..n \/ (i > n /\ i - n \in 1..Len(e) /\ r[i] = e[i - n])
  BY PlacesOf
<1> HIDE DEF r
<1>2. \A i \in 1..Len(r) : Gets(r, i, w, "title") =>
          i \in 1..n /\ Gets(s, i, w, "title") /\ r[i] = s[i]
  BY <1>1 DEF Gets
<1>3. \A i \in 1..n : Gets(s, i, w, "title") => i \in 1..Len(r) /\ Gets(r, i, w, "title")
  BY <1>1 DEF Gets
<1>4. BarTitle(w, u, r, h)
  <2>1. CASE \E i \in 1..n : /\ Gets(s, i, w, "title")
                             /\ \A j \in 1..n : i <= j /\ Gets(s, j, w, "title") => s[j][3] = t.title
    <3>1. PICK i \in 1..n : /\ Gets(s, i, w, "title")
                            /\ \A j \in 1..n : i <= j /\ Gets(s, j, w, "title") => s[j][3] = t.title
      BY <2>1
    <3>2. \A j \in 1..Len(r) : i <= j /\ Gets(r, j, w, "title") => r[j][3] = u.title
      BY <1>2, <3>1
    <3>3. QED
      BY <1>3, <3>1, <3>2 DEF BarTitle
  <2>2. CASE w \in DOMAIN h /\ h[w].title = t.title /\ \A i \in 1..n : ~Gets(s, i, w, "title")
    BY <1>2, <2>2 DEF BarTitle
  <2>3. QED
    BY <2>1, <2>2 DEF BarTitle
<1>5. QED
  BY <1>4 DEF r

\* Events of other kinds leave the state to come.
LEMMA PushState ==
    ASSUME NEW E, NEW s \in Seq(E), NEW e \in Seq(E), NEW w, NEW h, NEW t, NEW u,
           BarState(w, t, s, h), Bar!StateOf(u) = Bar!StateOf(t),
           \A i \in 1..Len(e) : e[i][2] = w => e[i][1] # "state"
    PROVE  BarState(w, u, s \o e, h)
<1> DEFINE r == s \o e
           n == Len(s)
<1>1. /\ \A i \in 1..n : r[i] = s[i] /\ i \in 1..Len(r)
      /\ \A i \in 1..Len(r) : i \in 1..n \/ (i > n /\ i - n \in 1..Len(e) /\ r[i] = e[i - n])
  BY PlacesOf
<1> HIDE DEF r
<1>2. \A i \in 1..Len(r) : Gets(r, i, w, "state") =>
          i \in 1..n /\ Gets(s, i, w, "state") /\ r[i] = s[i]
  BY <1>1 DEF Gets
<1>3. \A i \in 1..n : Gets(s, i, w, "state") => i \in 1..Len(r) /\ Gets(r, i, w, "state")
  BY <1>1 DEF Gets
<1>4. BarState(w, u, r, h)
  <2>1. CASE \E i \in 1..n :
                 /\ Gets(s, i, w, "state")
                 /\ \A j \in 1..n : i <= j /\ Gets(s, j, w, "state") => s[j][3] = Bar!StateOf(t)
    <3>1. PICK i \in 1..n :
                 /\ Gets(s, i, w, "state")
                 /\ \A j \in 1..n : i <= j /\ Gets(s, j, w, "state") => s[j][3] = Bar!StateOf(t)
      BY <2>1
    <3>2. \A j \in 1..Len(r) : i <= j /\ Gets(r, j, w, "state") => r[j][3] = Bar!StateOf(u)
      BY <1>2, <3>1
    <3>3. QED
      BY <1>3, <3>1, <3>2 DEF BarState
  <2>2. CASE /\ w \in DOMAIN h /\ Bar!StateOf(h[w]) = Bar!StateOf(t)
             /\ \A i \in 1..n : ~Gets(s, i, w, "state")
    BY <1>2, <2>2 DEF BarState
  <2>3. QED
    BY <2>1, <2>2 DEF BarState
<1>5. QED
  BY <1>4 DEF r

\* Events of a window that stays.
LEMMA PushLife ==
    ASSUME NEW E, NEW s \in Seq(E), NEW e \in Seq(E), NEW w, NEW h, NEW t, NEW u,
           BarLife(w, t, s, h), Lives(u) <=> Lives(t), u.phase = "never" <=> t.phase = "never",
           \A i \in 1..Len(e) : e[i][2] = w => e[i][1] \notin {"toplevel", "closed"}
                                               /\ Lives(t)
    PROVE  BarLife(w, u, s \o e, h)
<1> DEFINE r == s \o e
           n == Len(s)
<1>1. /\ \A i \in 1..n : r[i] = s[i] /\ i \in 1..Len(r)
      /\ \A i \in 1..Len(r) : i \in 1..n \/ (i > n /\ i - n \in 1..Len(e) /\ r[i] = e[i - n])
  BY PlacesOf
<1>2. Known(w, r, h) <=> Known(w, s, h)
  BY PushKnown
<1> HIDE DEF r
<1>3. u.phase = "never" => w \notin DOMAIN h /\ \A i \in 1..Len(r) : r[i][2] # w
  BY <1>1 DEF BarLife, Lives
<1>4. Lives(u) => Known(w, r, h) /\ \A i \in 1..Len(r) : ~Gets(r, i, w, "closed")
  BY <1>1, <1>2 DEF BarLife, Gets
<1>5. ~Lives(u) /\ Known(w, r, h) => \E i \in 1..Len(r) : Gets(r, i, w, "closed")
  BY <1>1, <1>2 DEF BarLife, Gets
<1>6. QED
  BY <1>3, <1>4, <1>5 DEF BarLife, r

\* A button that is drawn, or will be, without events about its window.
LEMMA PushDone ==
    ASSUME NEW E, NEW s \in Seq(E), NEW e \in Seq(E), NEW w, NEW h, NEW b,
           BarDone(w, s, h, b), \A i \in 1..Len(e) : e[i][2] # w
    PROVE  BarDone(w, s \o e, h, b)
<1> DEFINE r == s \o e
           n == Len(s)
<1>1. /\ \A i \in 1..n : r[i] = s[i] /\ i \in 1..Len(r)
      /\ \A i \in 1..Len(r) : i \in 1..n \/ (i > n /\ i - n \in 1..Len(e) /\ r[i] = e[i - n])
  BY PlacesOf
<1> HIDE DEF r
<1>2. \A i \in 1..Len(r) : r[i][2] = w => i \in 1..n /\ r[i] = s[i]
  BY <1>1
<1>3. BarDone(w, r, h, b)
  <2>1. CASE \E i \in 1..n :
                 Gets(s, i, w, "done") /\ \A j \in 1..n : i < j => s[j][2] # w
    <3>1. PICK i \in 1..n : Gets(s, i, w, "done") /\ \A j \in 1..n : i < j => s[j][2] # w
      BY <2>1
    <3>2. \A j \in 1..Len(r) : i < j => r[j][2] # w
      BY <1>2, <3>1
    <3>3. i \in 1..Len(r) /\ Gets(r, i, w, "done")
      BY <1>1, <3>1 DEF Gets
    <3>4. QED
      BY <3>2, <3>3 DEF BarDone
  <2>2. CASE /\ w \in DOMAIN h /\ b[w] = Bar!UpdateFromHandle(h[w])
             /\ \A i \in 1..n : s[i][2] # w
    BY <1>2, <2>2 DEF BarDone
  <2>3. QED
    BY <2>1, <2>2 DEF BarDone
<1>4. QED
  BY <1>3 DEF r

\* The title there is now, sent.
LEMMA GainTitle ==
    ASSUME NEW E, NEW s \in Seq(E), NEW e \in Seq(E), NEW w, NEW h, NEW u,
           \E i \in 1..Len(e) : Gets(e, i, w, "title"),
           \A i \in 1..Len(e) : Gets(e, i, w, "title") => e[i][3] = u.title
    PROVE  BarTitle(w, u, s \o e, h)
<1> DEFINE r == s \o e
           n == Len(s)
<1>1. /\ n \in Nat /\ Len(e) \in Nat
      /\ \A i \in 1..Len(e) : r[n + i] = e[i] /\ n + i \in 1..Len(r)
      /\ \A i \in 1..Len(r) : i \in 1..n \/ (i > n /\ i - n \in 1..Len(e) /\ r[i] = e[i - n])
  BY PlacesOf
<1> HIDE DEF r
<1>2. PICK k \in 1..Len(e) : Gets(e, k, w, "title")
  OBVIOUS
<1>3. n + k \in 1..Len(r) /\ Gets(r, n + k, w, "title")
  BY <1>1, <1>2 DEF Gets
<1>4. ASSUME NEW j \in 1..Len(r), n + k <= j, Gets(r, j, w, "title")
      PROVE  r[j][3] = u.title
  <2>1. j \notin 1..n
    BY <1>1, <1>2, <1>4
  <2>2. j - n \in 1..Len(e) /\ r[j] = e[j - n]
    BY <1>1, <2>1
  <2> DEFINE m == j - n
  <2>3. m \in 1..Len(e) /\ r[j] = e[m] /\ Gets(e, m, w, "title")
    BY <1>4, <2>2 DEF Gets
  <2> HIDE DEF m
  <2>4. QED
    BY <2>3
<1>5. BarTitle(w, u, r, h)
  BY <1>3, <1>4 DEF BarTitle
<1>6. QED
  BY <1>5 DEF r

\* The state there is now, sent.
LEMMA GainState ==
    ASSUME NEW E, NEW s \in Seq(E), NEW e \in Seq(E), NEW w, NEW h, NEW u,
           \E i \in 1..Len(e) : Gets(e, i, w, "state"),
           \A i \in 1..Len(e) : Gets(e, i, w, "state") => e[i][3] = Bar!StateOf(u)
    PROVE  BarState(w, u, s \o e, h)
<1> DEFINE r == s \o e
           n == Len(s)
<1>1. /\ n \in Nat /\ Len(e) \in Nat
      /\ \A i \in 1..Len(e) : r[n + i] = e[i] /\ n + i \in 1..Len(r)
      /\ \A i \in 1..Len(r) : i \in 1..n \/ (i > n /\ i - n \in 1..Len(e) /\ r[i] = e[i - n])
  BY PlacesOf
<1> HIDE DEF r
<1>2. PICK k \in 1..Len(e) : Gets(e, k, w, "state")
  OBVIOUS
<1>3. n + k \in 1..Len(r) /\ Gets(r, n + k, w, "state")
  BY <1>1, <1>2 DEF Gets
<1>4. ASSUME NEW j \in 1..Len(r), n + k <= j, Gets(r, j, w, "state")
      PROVE  r[j][3] = Bar!StateOf(u)
  <2>1. j \notin 1..n
    BY <1>1, <1>2, <1>4
  <2>2. j - n \in 1..Len(e) /\ r[j] = e[j - n]
    BY <1>1, <2>1
  <2> DEFINE m == j - n
  <2>3. m \in 1..Len(e) /\ r[j] = e[m] /\ Gets(e, m, w, "state")
    BY <1>4, <2>2 DEF Gets
  <2> HIDE DEF m
  <2>4. QED
    BY <2>3
<1>5. BarState(w, u, r, h)
  BY <1>3, <1>4 DEF BarState
<1>6. QED
  BY <1>5 DEF r

\* Events of other windows leave a window as it was.
LEMMA PushOther ==
    ASSUME NEW E, NEW s \in Seq(E), NEW e \in Seq(E), NEW w, NEW t, NEW u, NEW h, NEW b,
           NEW due, NEW now,
           BarOf(w, t, s, h, b, due), \A i \in 1..Len(e) : e[i][2] # w,
           Lives(u) <=> Lives(t), u.phase = "never" <=> t.phase = "never",
           u.title = t.title, Bar!StateOf(u) = Bar!StateOf(t), w \notin now => w \notin due
    PROVE  BarOf(w, u, s \o e, h, b, now)
<1>1. BarOrder(w, s \o e, h) /\ BarEnd(w, s \o e)
  BY PushOrder, PushEnd DEF BarOf
<1>2. BarLife(w, u, s \o e, h)
  BY PushLife DEF BarOf
<1>3. Lives(u) => BarTitle(w, u, s \o e, h) /\ BarState(w, u, s \o e, h)
  BY PushTitle, PushState DEF BarOf
<1>4. Lives(u) /\ w \notin now => BarDone(w, s \o e, h, b)
  BY PushDone DEF BarOf
<1>5. QED
  BY <1>1, <1>2, <1>3, <1>4 DEF BarOf

\* What the compositor changes of a window it sends, and a "done" is due.
LEMMA PushOwn ==
    ASSUME NEW E, NEW s \in Seq(E), NEW e \in Seq(E), NEW w, NEW t, NEW u, NEW h, NEW b,
           NEW due, NEW now,
           BarOf(w, t, s, h, b, due), Lives(t), Lives(u), w \in now,
           \A i \in 1..Len(e) : e[i][2] = w =>
               \/ e[i][1] = "title" /\ e[i][3] = u.title
               \/ e[i][1] = "state" /\ e[i][3] = Bar!StateOf(u),
           u.title = t.title \/ \E i \in 1..Len(e) : Gets(e, i, w, "title"),
           Bar!StateOf(u) = Bar!StateOf(t) \/ \E i \in 1..Len(e) : Gets(e, i, w, "state")
    PROVE  BarOf(w, u, s \o e, h, b, now)
<1>1. Known(w, s, h)
  BY DEF BarOf, BarLife
<1>2. \A i \in 1..Len(e) : e[i][2] = w => e[i][1] \notin {"toplevel", "closed"}
  OBVIOUS
<1>3. BarOrder(w, s \o e, h) /\ BarEnd(w, s \o e)
  <2>1. \A k \in 1..Len(s) : ~Gets(s, k, w, "closed")
    BY DEF BarOf, BarLife
  <2>2. QED
    BY <1>1, <1>2, <2>1, PushOrder, PushEnd DEF BarOf
<1>4. u.phase = "never" <=> t.phase = "never"
  BY DEF Lives
<1>5. BarLife(w, u, s \o e, h)
  BY <1>2, <1>4, PushLife DEF BarOf
<1>6. BarTitle(w, u, s \o e, h)
  <2>1. CASE \E i \in 1..Len(e) : Gets(e, i, w, "title")
    <3>1. \A i \in 1..Len(e) : Gets(e, i, w, "title") => e[i][3] = u.title
      BY DEF Gets
    <3>2. QED
      BY <2>1, <3>1, GainTitle
  <2>2. CASE ~ \E i \in 1..Len(e) : Gets(e, i, w, "title")
    <3>1. \A i \in 1..Len(e) : e[i][2] = w => e[i][1] # "title"
      BY <2>2 DEF Gets
    <3>2. QED
      BY <2>2, <3>1, PushTitle DEF BarOf
  <2>3. QED
    BY <2>1, <2>2
<1>7. BarState(w, u, s \o e, h)
  <2>1. CASE \E i \in 1..Len(e) : Gets(e, i, w, "state")
    <3>1. \A i \in 1..Len(e) : Gets(e, i, w, "state") => e[i][3] = Bar!StateOf(u)
      BY DEF Gets
    <3>2. QED
      BY <2>1, <3>1, GainState
  <2>2. CASE ~ \E i \in 1..Len(e) : Gets(e, i, w, "state")
    <3>1. \A i \in 1..Len(e) : e[i][2] = w => e[i][1] # "state"
      BY <2>2 DEF Gets
    <3>2. QED
      BY <2>2, <3>1, PushState DEF BarOf
  <2>3. QED
    BY <2>1, <2>2
<1>8. QED
  BY <1>3, <1>5, <1>6, <1>7 DEF BarOf

\* A window is announced, with its title and without a state.
LEMMA PushBirth ==
    ASSUME NEW E, NEW s \in Seq(E), NEW e \in Seq(E), NEW w, NEW t, NEW u, NEW h, NEW b,
           NEW due, NEW now,
           BarOf(w, t, s, h, b, due), t.phase = "never", Lives(u), w \in now, 1..Len(e) = {1, 2, 3},
           Gets(e, 1, w, "toplevel"), Gets(e, 2, w, "title"), Gets(e, 3, w, "state"),
           e[2][3] = u.title, e[3][3] = Bar!StateOf(u)
    PROVE  BarOf(w, u, s \o e, h, b, now)
<1> DEFINE r == s \o e
           n == Len(s)
<1>0. w \notin DOMAIN h /\ \A i \in 1..n : s[i][2] # w
  BY DEF BarOf, BarLife
<1>1. /\ n \in Nat
      /\ \A i \in 1..n : r[i] = s[i] /\ i \in 1..Len(r)
      /\ \A i \in 1..Len(e) : r[n + i] = e[i] /\ n + i \in 1..Len(r)
      /\ \A i \in 1..Len(r) : i \in 1..n \/ (i > n /\ i - n \in 1..Len(e) /\ r[i] = e[i - n])
  BY PlacesOf
<1>2. BarTitle(w, u, r, h)
  <2>1. \E i \in 1..Len(e) : Gets(e, i, w, "title")
    OBVIOUS
  <2>2. \A i \in 1..Len(e) : Gets(e, i, w, "title") => e[i][3] = u.title
    BY DEF Gets
  <2>3. QED
    BY <2>1, <2>2, GainTitle
<1>3. BarState(w, u, r, h)
  <2>1. \E i \in 1..Len(e) : Gets(e, i, w, "state")
    OBVIOUS
  <2>2. \A i \in 1..Len(e) : Gets(e, i, w, "state") => e[i][3] = Bar!StateOf(u)
    BY DEF Gets
  <2>3. QED
    BY <2>1, <2>2, GainState
<1> HIDE DEF r, n
<1>4. /\ n + 1 \in 1..Len(r) /\ Gets(r, n + 1, w, "toplevel")
      /\ n + 2 \in 1..Len(r) /\ Gets(r, n + 2, w, "title")
      /\ n + 3 \in 1..Len(r) /\ Gets(r, n + 3, w, "state")
  BY <1>1 DEF Gets
<1>5. ASSUME NEW i \in 1..Len(r), r[i][2] = w PROVE i = n + 1 \/ i = n + 2 \/ i = n + 3
  <2>1. i \notin 1..n
    BY <1>0, <1>1, <1>5
  <2>2. i - n \in {1, 2, 3}
    BY <1>1, <2>1
  <2>3. QED
    BY <1>1, <2>2
<1>6. BarOrder(w, r, h)
  <2>1. SUFFICES ASSUME NEW i \in 1..Len(r), r[i][2] = w
                 PROVE  IF r[i][1] = "toplevel"
                        THEN w \notin DOMAIN h /\ \A j \in 1..Len(r) : j < i => r[j][2] # w
                        ELSE \E j \in 1..Len(r) : j < i /\ Gets(r, j, w, "toplevel")
    BY DEF BarOrder
  <2>2. CASE i = n + 1
    <3>1. r[i][1] = "toplevel"
      BY <1>4, <2>2 DEF Gets
    <3>2. \A j \in 1..Len(r) : j < i => r[j][2] # w
      BY <1>1, <1>5, <2>2
    <3>3. QED
      BY <1>0, <3>1, <3>2
  <2>3. CASE i # n + 1
    <3>1. r[i][1] # "toplevel" /\ n + 1 < i
      BY <1>1, <1>4, <1>5, <2>1, <2>3 DEF Gets
    <3>2. QED
      BY <1>4, <3>1
  <2>4. QED
    BY <2>2, <2>3
<1>7. BarLife(w, u, r, h)
  <2>1. Known(w, r, h)
    BY <1>4 DEF Known
  <2>2. \A i \in 1..Len(r) : ~Gets(r, i, w, "closed")
    BY <1>4, <1>5 DEF Gets
  <2>3. QED
    BY <2>1, <2>2 DEF BarLife, Lives
<1>8. BarEnd(w, r)
  BY <1>4, <1>5 DEF BarEnd, Gets
<1>9. QED
  BY <1>2, <1>3, <1>6, <1>7, <1>8 DEF BarOf, r

\* A window is gone.
LEMMA PushClosed ==
    ASSUME NEW E, NEW s \in Seq(E), NEW e \in Seq(E), NEW w, NEW t, NEW u, NEW h, NEW b,
           NEW due, NEW now,
           BarOf(w, t, s, h, b, due), Lives(t), ~Lives(u), u.phase # "never", Len(e) = 1,
           Gets(e, 1, w, "closed")
    PROVE  BarOf(w, u, s \o e, h, b, now)
<1> DEFINE r == s \o e
           n == Len(s)
<1>0. \A i \in 1..Len(e) : r[n + i] = e[i] /\ n + i \in 1..Len(r)
  BY PlacesOf
<1>1. n + 1 \in 1..Len(r) /\ r[n + 1] = e[1]
  BY <1>0
<1>2. Known(w, s, h)
  BY DEF BarOf, BarLife
<1>3. \A i \in 1..Len(e) : e[i][2] = w => e[i][1] # "toplevel" /\ Known(w, s, h)
  BY <1>2 DEF Gets
<1>4. BarOrder(w, r, h)
  BY <1>3, PushOrder DEF BarOf
<1>7. BarEnd(w, r)
  <2>1. \A k \in 1..Len(s) : ~Gets(s, k, w, "closed")
    BY DEF BarOf, BarLife
  <2>2. \A i \in 1..Len(e) : i = Len(e)
    OBVIOUS
  <2>3. QED
    BY <2>1, <2>2, PushEnd DEF BarOf
<1> HIDE DEF r
<1>5. Gets(r, n + 1, w, "closed")
  BY <1>1 DEF Gets
<1>6. BarLife(w, u, r, h)
  BY <1>1, <1>5 DEF BarLife
<1>8. QED
  BY <1>4, <1>6, <1>7 DEF BarOf, r

\* The compositor has told all there was to tell of a window.
LEMMA PushSettled ==
    ASSUME NEW E, NEW s \in Seq(E), NEW e \in Seq(E), NEW w, NEW t, NEW h, NEW b,
           NEW due, NEW now,
           BarOf(w, t, s, h, b, due), Lives(t), Len(e) = 1, Gets(e, 1, w, "done")
    PROVE  BarOf(w, t, s \o e, h, b, now)
<1> DEFINE r == s \o e
           n == Len(s)
<1>0. /\ n \in Nat /\ Len(r) = n + Len(e)
      /\ \A i \in 1..Len(e) : r[n + i] = e[i] /\ n + i \in 1..Len(r)
  BY PlacesOf
<1>1. /\ n \in Nat /\ n + 1 \in 1..Len(r) /\ r[n + 1] = e[1] /\ Len(r) = n + 1
  BY <1>0
<1>2. Known(w, s, h)
  BY DEF BarOf, BarLife
<1>3. \A i \in 1..Len(e) : e[i][2] = w => e[i][1] = "done" /\ Known(w, s, h)
  BY <1>2 DEF Gets
<1>4. BarOrder(w, r, h) /\ BarLife(w, t, r, h)
  BY <1>3, PushOrder, PushLife DEF BarOf
<1>9. BarEnd(w, r)
  <2>1. \A k \in 1..Len(s) : ~Gets(s, k, w, "closed")
    BY DEF BarOf, BarLife
  <2>2. QED
    BY <1>3, <2>1, PushEnd DEF BarOf
<1>5. BarTitle(w, t, r, h) /\ BarState(w, t, r, h)
  BY <1>3, PushTitle, PushState DEF BarOf
<1> HIDE DEF r
<1>6. Gets(r, n + 1, w, "done") /\ \A j \in 1..Len(r) : ~(n + 1 < j)
  BY <1>1 DEF Gets
<1>7. BarDone(w, r, h, b)
  BY <1>1, <1>6 DEF BarDone
<1>8. QED
  BY <1>4, <1>5, <1>7, <1>9 DEF BarOf, r

\* The places of what is left when the first event is taken.
LEMMA TailPlaces ==
    ASSUME NEW E, NEW s \in Seq(E), s # <<>>
    PROVE  LET r == Tail(s)
           IN  /\ r \in Seq(E) /\ Len(r) \in Nat /\ Len(s) = Len(r) + 1 /\ 1 \in 1..Len(s)
               /\ Head(s) = s[1]
               /\ \A i \in 1..Len(r) : r[i] = s[i + 1] /\ i + 1 \in 1..Len(s)
               /\ \A i \in 1..Len(s) : i = 1 \/ (i - 1 \in 1..Len(r) /\ s[i] = r[i - 1])
<1> DEFINE r == Tail(s)
<1>1. /\ r \in Seq(E) /\ Len(s) \in Nat /\ Len(s) # 0 /\ Len(r) = Len(s) - 1
      /\ Head(s) = s[1] /\ \A i \in 1..Len(r) : r[i] = s[i + 1]
  BY HeadTailProperties, LenProperties, EmptySeq
<1> HIDE DEF r
<1>2. Len(r) \in Nat /\ Len(s) = Len(r) + 1 /\ 1 \in 1..Len(s)
  BY <1>1
<1>3. \A i \in 1..Len(r) : i + 1 \in 1..Len(s)
  BY <1>2
<1>4. ASSUME NEW i \in 1..Len(s), i # 1 PROVE i - 1 \in 1..Len(r) /\ s[i] = r[i - 1]
  <2>1. i - 1 \in 1..Len(r) /\ (i - 1) + 1 = i
    BY <1>2, <1>4
  <2>2. r[i - 1] = s[(i - 1) + 1]
    BY <1>1, <2>1
  <2>3. QED
    BY <2>1, <2>2
<1>5. QED
  BY <1>1, <1>2, <1>3, <1>4 DEF r

\* The order of what is left.
LEMMA PopOrder ==
    ASSUME NEW E, NEW s \in Seq(E), s # <<>>, NEW w, NEW h, NEW g,
           BarOrder(w, s, h), BarEnd(w, s),
           \/ s[1][2] # w /\ (w \in DOMAIN g <=> w \in DOMAIN h)
           \/ Gets(s, 1, w, "toplevel") /\ w \in DOMAIN g
           \/ s[1][2] = w /\ s[1][1] \notin {"toplevel", "closed"}
              /\ (w \in DOMAIN g <=> w \in DOMAIN h)
           \/ Gets(s, 1, w, "closed") /\ w \notin DOMAIN g
    PROVE  BarOrder(w, Tail(s), g) /\ BarEnd(w, Tail(s))
<1> DEFINE r == Tail(s)
<1>1. /\ Len(r) \in Nat /\ Len(s) = Len(r) + 1 /\ 1 \in 1..Len(s)
      /\ \A i \in 1..Len(r) : r[i] = s[i + 1] /\ i + 1 \in 1..Len(s)
      /\ \A i \in 1..Len(s) : i = 1 \/ (i - 1 \in 1..Len(r) /\ s[i] = r[i - 1])
  BY TailPlaces
<1> HIDE DEF r
<1>2. BarEnd(w, r)
  <2>1. SUFFICES ASSUME NEW i \in 1..Len(r), Gets(r, i, w, "closed"),
                        NEW j \in 1..Len(r), i < j
                 PROVE  r[j][2] # w
    BY DEF BarEnd
  <2>2. i + 1 \in 1..Len(s) /\ j + 1 \in 1..Len(s) /\ i + 1 < j + 1
        /\ Gets(s, i + 1, w, "closed") /\ r[j] = s[j + 1]
    BY <1>1, <2>1 DEF Gets
  <2>3. QED
    BY <2>2 DEF BarEnd
<1>3. SUFFICES ASSUME NEW i \in 1..Len(r), r[i][2] = w
               PROVE  IF r[i][1] = "toplevel"
                      THEN w \notin DOMAIN g /\ \A j \in 1..Len(r) : j < i => r[j][2] # w
                      ELSE w \in DOMAIN g \/ \E j \in 1..Len(r) : j < i /\ Gets(r, j, w, "toplevel")
  BY <1>2 DEF BarOrder, r
<1> DEFINE m == i + 1
<1>4. m \in 1..Len(s) /\ s[m] = r[i] /\ s[m][2] = w /\ 1 < m /\ 1 \in 1..Len(s)
  BY <1>1, <1>3
<1>5. CASE s[1][2] # w /\ (w \in DOMAIN g <=> w \in DOMAIN h)
  <2>1. CASE r[i][1] = "toplevel"
    <3>1. w \notin DOMAIN h /\ \A j \in 1..Len(s) : j < m => s[j][2] # w
      BY <1>4, <2>1 DEF BarOrder
    <3>2. \A j \in 1..Len(r) : j < i => j + 1 \in 1..Len(s) /\ j + 1 < m /\ r[j] = s[j + 1]
      BY <1>1
    <3>3. QED
      BY <1>5, <2>1, <3>1, <3>2
  <2>2. CASE r[i][1] # "toplevel"
    <3>1. w \in DOMAIN h \/ \E j \in 1..Len(s) : j < m /\ Gets(s, j, w, "toplevel")
      BY <1>4, <2>2 DEF BarOrder
    <3>2. ASSUME NEW j \in 1..Len(s), j < m, Gets(s, j, w, "toplevel")
          PROVE  j - 1 \in 1..Len(r) /\ j - 1 < i /\ Gets(r, j - 1, w, "toplevel")
      BY <1>1, <1>5, <3>2 DEF Gets
    <3>3. QED
      BY <1>5, <2>2, <3>1, <3>2
  <2>3. QED
    BY <2>1, <2>2
<1>6. CASE Gets(s, 1, w, "toplevel") /\ w \in DOMAIN g
  <2>1. r[i][1] # "toplevel"
    BY <1>4, <1>6 DEF BarOrder, Gets
  <2>2. QED
    BY <1>6, <2>1
<1>7. CASE s[1][2] = w /\ s[1][1] \notin {"toplevel", "closed"}
           /\ (w \in DOMAIN g <=> w \in DOMAIN h)
  <2>1. r[i][1] # "toplevel"
    BY <1>4, <1>7 DEF BarOrder
  <2>2. \A j \in 1..Len(s) : ~(j < 1)
    BY <1>1
  <2>3. w \in DOMAIN h
    BY <1>4, <1>7, <2>2 DEF BarOrder
  <2>4. QED
    BY <1>7, <2>1, <2>3
<1>8. CASE Gets(s, 1, w, "closed")
  BY <1>4, <1>8 DEF BarEnd
<1>9. QED
  BY <1>5, <1>6, <1>7, <1>8

\* An event about a window, other than its "toplevel", finds the handle there.
LEMMA HeadIsKnown ==
    ASSUME NEW E, NEW s \in Seq(E), s # <<>>, NEW w, NEW h, BarOrder(w, s, h), s[1][2] = w
    PROVE  IF s[1][1] = "toplevel" THEN w \notin DOMAIN h ELSE w \in DOMAIN h
<1>1. 1 \in 1..Len(s) /\ \A j \in 1..Len(s) : ~(j < 1)
  BY TailPlaces
<1>2. QED
  BY <1>1 DEF BarOrder

\* What the shell knows, and will hear of.
LEMMA PopLife ==
    ASSUME NEW E, NEW s \in Seq(E), s # <<>>, NEW w, NEW t, NEW h, NEW g,
           BarOrder(w, s, h), BarEnd(w, s), BarLife(w, t, s, h),
           \/ s[1][2] # w /\ (w \in DOMAIN g <=> w \in DOMAIN h)
           \/ Gets(s, 1, w, "toplevel") /\ w \in DOMAIN g
           \/ s[1][2] = w /\ s[1][1] \notin {"toplevel", "closed"}
              /\ (w \in DOMAIN g <=> w \in DOMAIN h)
           \/ Gets(s, 1, w, "closed") /\ w \notin DOMAIN g
    PROVE  BarLife(w, t, Tail(s), g)
<1> DEFINE r == Tail(s)
<1>1. /\ Len(r) \in Nat /\ Len(s) = Len(r) + 1 /\ 1 \in 1..Len(s)
      /\ \A i \in 1..Len(r) : r[i] = s[i + 1] /\ i + 1 \in 1..Len(s)
      /\ \A i \in 1..Len(s) : i = 1 \/ (i - 1 \in 1..Len(r) /\ s[i] = r[i - 1])
  BY TailPlaces
<1> HIDE DEF r
<1>2. ASSUME NEW i \in 1..Len(r), NEW k, Gets(r, i, w, k)
      PROVE  i + 1 \in 1..Len(s) /\ 1 < i + 1 /\ Gets(s, i + 1, w, k)
  BY <1>1, <1>2 DEF Gets
<1>3. ASSUME NEW i \in 1..Len(s), NEW k, Gets(s, i, w, k), i # 1
      PROVE  i - 1 \in 1..Len(r) /\ Gets(r, i - 1, w, k)
  BY <1>1, <1>3 DEF Gets
<1>4. t.phase = "never" => w \notin DOMAIN g /\ \A i \in 1..Len(r) : r[i][2] # w
  BY <1>1 DEF BarLife, Gets
<1>5. Lives(t) => \A i \in 1..Len(r) : ~Gets(r, i, w, "closed")
  BY <1>2 DEF BarLife
<1>6. ASSUME Lives(t) PROVE Known(w, r, g)
  <2>1. Known(w, s, h) /\ ~Gets(s, 1, w, "closed")
    BY <1>1, <1>6 DEF BarLife
  <2>2. CASE w \in DOMAIN h
    BY <2>1, <2>2 DEF Known
  <2>3. CASE \E i \in 1..Len(s) : Gets(s, i, w, "toplevel")
    <3>1. PICK i \in 1..Len(s) : Gets(s, i, w, "toplevel")
      BY <2>3
    <3>2. CASE i = 1
      BY <3>1, <3>2 DEF Known, Gets
    <3>3. CASE i # 1
      BY <1>3, <3>1, <3>3 DEF Known
    <3>4. QED
      BY <3>2, <3>3
  <2>4. QED
    BY <2>1, <2>2, <2>3 DEF Known
<1>7. ASSUME ~Lives(t), Known(w, r, g) PROVE \E i \in 1..Len(r) : Gets(r, i, w, "closed")
  <2>1. Known(w, s, h)
    <3>1. CASE w \in DOMAIN g
      BY <1>1, <3>1 DEF Known
    <3>2. CASE \E i \in 1..Len(r) : Gets(r, i, w, "toplevel")
      BY <1>2, <3>2 DEF Known
    <3>3. QED
      BY <1>7, <3>1, <3>2 DEF Known
  <2>2. PICK i \in 1..Len(s) : Gets(s, i, w, "closed")
    BY <1>7, <2>1 DEF BarLife
  <2>3. CASE i # 1
    BY <1>3, <2>2, <2>3
  <2>4. CASE i = 1
    <3>1. w \notin DOMAIN g /\ Gets(s, 1, w, "closed")
      BY <2>2, <2>4 DEF Gets
    <3>2. PICK j \in 1..Len(r) : Gets(r, j, w, "toplevel")
      BY <1>7, <3>1 DEF Known
    <3>3. j + 1 \in 1..Len(s) /\ 1 < j + 1 /\ s[j + 1][2] = w
      BY <1>2, <3>2 DEF Gets
    <3>4. QED
      BY <1>1, <3>1, <3>3 DEF BarEnd
  <2>5. QED
    BY <2>3, <2>4
<1>8. QED
  BY <1>4, <1>5, <1>6, <1>7 DEF BarLife, r

\* The title to come, when the shell has read an event.
LEMMA PopTitle ==
    ASSUME NEW E, NEW s \in Seq(E), s # <<>>, NEW w, NEW t, NEW h, NEW g,
           BarTitle(w, t, s, h),
           \/ ~Gets(s, 1, w, "title") /\ (w \in DOMAIN h => w \in DOMAIN g /\ g[w].title = h[w].title)
           \/ Gets(s, 1, w, "title") /\ w \in DOMAIN g /\ g[w].title = s[1][3]
    PROVE  BarTitle(w, t, Tail(s), g)
<1> DEFINE r == Tail(s)
<1>1. /\ Len(r) \in Nat /\ Len(s) = Len(r) + 1 /\ 1 \in 1..Len(s)
      /\ \A i \in 1..Len(r) : r[i] = s[i + 1] /\ i + 1 \in 1..Len(s)
      /\ \A i \in 1..Len(s) : i = 1 \/ (i - 1 \in 1..Len(r) /\ s[i] = r[i - 1])
  BY TailPlaces
<1> HIDE DEF r
<1>2. ASSUME NEW i \in 1..Len(r), Gets(r, i, w, "title")
      PROVE  i + 1 \in 1..Len(s) /\ Gets(s, i + 1, w, "title") /\ r[i] = s[i + 1]
  BY <1>1, <1>2 DEF Gets
<1>3. ASSUME NEW i \in 1..Len(s), Gets(s, i, w, "title"), i # 1
      PROVE  i - 1 \in 1..Len(r) /\ Gets(r, i - 1, w, "title") /\ s[i] = r[i - 1]
  BY <1>1, <1>3 DEF Gets
<1>4. CASE \E i \in 1..Len(s) :
               /\ Gets(s, i, w, "title")
               /\ \A j \in 1..Len(s) : i <= j /\ Gets(s, j, w, "title") => s[j][3] = t.title
  <2>1. PICK i \in 1..Len(s) :
               /\ Gets(s, i, w, "title")
               /\ \A j \in 1..Len(s) : i <= j /\ Gets(s, j, w, "title") => s[j][3] = t.title
    BY <1>4
  <2>2. ASSUME NEW j \in 1..Len(r), i <= j + 1, Gets(r, j, w, "title") PROVE r[j][3] = t.title
    BY <1>2, <2>1, <2>2
  <2>3. CASE i # 1
    <3>1. i - 1 \in 1..Len(r) /\ Gets(r, i - 1, w, "title")
      BY <1>3, <2>1, <2>3
    <3>2. \A j \in 1..Len(r) : i - 1 <= j => i <= j + 1
      BY <1>1
    <3>3. BarTitle(w, t, r, g)
      BY <2>2, <3>1, <3>2 DEF BarTitle
    <3>4. QED
      BY <3>3 DEF r
  <2>4. CASE i = 1
    <3>1. w \in DOMAIN g /\ g[w].title = t.title
      BY <1>1, <2>1, <2>4
    <3>2. \A j \in 1..Len(r) : i <= j + 1
      BY <1>1, <2>4
    <3>3. CASE \E j \in 1..Len(r) : Gets(r, j, w, "title")
      <4>1. BarTitle(w, t, r, g)
        BY <2>2, <3>2, <3>3 DEF BarTitle
      <4>2. QED
        BY <4>1 DEF r
    <3>4. CASE ~ \E j \in 1..Len(r) : Gets(r, j, w, "title")
      BY <3>1, <3>4 DEF BarTitle, r
    <3>5. QED
      BY <3>3, <3>4
  <2>5. QED
    BY <2>3, <2>4
<1>5. CASE /\ w \in DOMAIN h /\ h[w].title = t.title
           /\ \A i \in 1..Len(s) : ~Gets(s, i, w, "title")
  <2>1. \A i \in 1..Len(r) : ~Gets(r, i, w, "title")
    BY <1>2, <1>5
  <2>2. w \in DOMAIN g /\ g[w].title = t.title
    BY <1>1, <1>5
  <2>3. QED
    BY <2>1, <2>2 DEF BarTitle, r
<1>6. QED
  BY <1>4, <1>5 DEF BarTitle

\* The state to come.
LEMMA PopState ==
    ASSUME NEW E, NEW s \in Seq(E), s # <<>>, NEW w, NEW t, NEW h, NEW g,
           BarState(w, t, s, h),
           \/ /\ ~Gets(s, 1, w, "state")
              /\ w \in DOMAIN h => w \in DOMAIN g /\ Bar!StateOf(g[w]) = Bar!StateOf(h[w])
           \/ Gets(s, 1, w, "state") /\ w \in DOMAIN g /\ Bar!StateOf(g[w]) = s[1][3]
    PROVE  BarState(w, t, Tail(s), g)
<1> DEFINE r == Tail(s)
<1>1. /\ Len(r) \in Nat /\ Len(s) = Len(r) + 1 /\ 1 \in 1..Len(s)
      /\ \A i \in 1..Len(r) : r[i] = s[i + 1] /\ i + 1 \in 1..Len(s)
      /\ \A i \in 1..Len(s) : i = 1 \/ (i - 1 \in 1..Len(r) /\ s[i] = r[i - 1])
  BY TailPlaces
<1> HIDE DEF r
<1>2. ASSUME NEW i \in 1..Len(r), Gets(r, i, w, "state")
      PROVE  i + 1 \in 1..Len(s) /\ Gets(s, i + 1, w, "state") /\ r[i] = s[i + 1]
  BY <1>1, <1>2 DEF Gets
<1>3. ASSUME NEW i \in 1..Len(s), Gets(s, i, w, "state"), i # 1
      PROVE  i - 1 \in 1..Len(r) /\ Gets(r, i - 1, w, "state") /\ s[i] = r[i - 1]
  BY <1>1, <1>3 DEF Gets
<1>4. CASE \E i \in 1..Len(s) :
               /\ Gets(s, i, w, "state")
               /\ \A j \in 1..Len(s) : i <= j /\ Gets(s, j, w, "state") => s[j][3] = Bar!StateOf(t)
  <2>1. PICK i \in 1..Len(s) :
               /\ Gets(s, i, w, "state")
               /\ \A j \in 1..Len(s) : i <= j /\ Gets(s, j, w, "state") => s[j][3] = Bar!StateOf(t)
    BY <1>4
  <2>2. ASSUME NEW j \in 1..Len(r), i <= j + 1, Gets(r, j, w, "state")
        PROVE  r[j][3] = Bar!StateOf(t)
    BY <1>2, <2>1, <2>2
  <2>3. CASE i # 1
    <3>1. i - 1 \in 1..Len(r) /\ Gets(r, i - 1, w, "state")
      BY <1>3, <2>1, <2>3
    <3>2. \A j \in 1..Len(r) : i - 1 <= j => i <= j + 1
      BY <1>1
    <3>3. BarState(w, t, r, g)
      BY <2>2, <3>1, <3>2 DEF BarState
    <3>4. QED
      BY <3>3 DEF r
  <2>4. CASE i = 1
    <3>1. w \in DOMAIN g /\ Bar!StateOf(g[w]) = Bar!StateOf(t)
      BY <1>1, <2>1, <2>4
    <3>2. \A j \in 1..Len(r) : i <= j + 1
      BY <1>1, <2>4
    <3>3. CASE \E j \in 1..Len(r) : Gets(r, j, w, "state")
      <4>1. BarState(w, t, r, g)
        BY <2>2, <3>2, <3>3 DEF BarState
      <4>2. QED
        BY <4>1 DEF r
    <3>4. CASE ~ \E j \in 1..Len(r) : Gets(r, j, w, "state")
      BY <3>1, <3>4 DEF BarState, r
    <3>5. QED
      BY <3>3, <3>4
  <2>5. QED
    BY <2>3, <2>4
<1>5. CASE /\ w \in DOMAIN h /\ Bar!StateOf(h[w]) = Bar!StateOf(t)
           /\ \A i \in 1..Len(s) : ~Gets(s, i, w, "state")
  <2>1. \A i \in 1..Len(r) : ~Gets(r, i, w, "state")
    BY <1>2, <1>5
  <2>2. w \in DOMAIN g /\ Bar!StateOf(g[w]) = Bar!StateOf(t)
    BY <1>1, <1>5
  <2>3. QED
    BY <2>1, <2>2 DEF BarState, r
<1>6. QED
  BY <1>4, <1>5 DEF BarState

\* The drawing to come.
LEMMA PopDone ==
    ASSUME NEW E, NEW s \in Seq(E), s # <<>>, NEW w, NEW h, NEW g, NEW b, NEW c,
           BarDone(w, s, h, b),
           \/ s[1][2] # w /\ (w \in DOMAIN h => w \in DOMAIN g) /\ g[w] = h[w] /\ c[w] = b[w]
           \/ s[1][2] = w /\ s[1][1] # "done"
           \/ Gets(s, 1, w, "done") /\ w \in DOMAIN g /\ c[w] = Bar!UpdateFromHandle(g[w])
    PROVE  BarDone(w, Tail(s), g, c)
<1> DEFINE r == Tail(s)
<1>1. /\ Len(r) \in Nat /\ Len(s) = Len(r) + 1 /\ 1 \in 1..Len(s)
      /\ \A i \in 1..Len(r) : r[i] = s[i + 1] /\ i + 1 \in 1..Len(s)
      /\ \A i \in 1..Len(s) : i = 1 \/ (i - 1 \in 1..Len(r) /\ s[i] = r[i - 1])
  BY TailPlaces
<1> HIDE DEF r
<1>2. CASE \E i \in 1..Len(s) :
               Gets(s, i, w, "done") /\ \A j \in 1..Len(s) : i < j => s[j][2] # w
  <2>1. PICK i \in 1..Len(s) :
               Gets(s, i, w, "done") /\ \A j \in 1..Len(s) : i < j => s[j][2] # w
    BY <1>2
  <2>2. \A j \in 1..Len(r) : i < j + 1 => r[j][2] # w
    BY <1>1, <2>1
  <2>3. CASE i # 1
    <3>1. i - 1 \in 1..Len(r) /\ Gets(r, i - 1, w, "done")
      BY <1>1, <2>1, <2>3 DEF Gets
    <3>2. \A j \in 1..Len(r) : i - 1 < j => i < j + 1
      BY <1>1
    <3>3. BarDone(w, r, g, c)
      BY <2>2, <3>1, <3>2 DEF BarDone
    <3>4. QED
      BY <3>3 DEF r
  <2>4. CASE i = 1
    <3>1. w \in DOMAIN g /\ c[w] = Bar!UpdateFromHandle(g[w])
      BY <2>1, <2>4 DEF Gets
    <3>2. \A j \in 1..Len(r) : i < j + 1
      BY <1>1, <2>4
    <3>3. QED
      BY <2>2, <3>1, <3>2 DEF BarDone, r
  <2>5. QED
    BY <2>3, <2>4
<1>3. CASE /\ w \in DOMAIN h /\ b[w] = Bar!UpdateFromHandle(h[w])
           /\ \A i \in 1..Len(s) : s[i][2] # w
  <2>1. \A i \in 1..Len(r) : r[i][2] # w
    BY <1>1, <1>3
  <2>2. w \in DOMAIN g /\ c[w] = Bar!UpdateFromHandle(g[w])
    BY <1>1, <1>3 DEF Gets
  <2>3. QED
    BY <2>1, <2>2 DEF BarDone, r
<1>4. QED
  BY <1>2, <1>3 DEF BarDone

BarTitles == Titles \union {Blank}
BarTop == [phase : {"never", "created", "mapped", "gone"}, title : BarTitles,
           minimized : BOOLEAN, activated : BOOLEAN]
BarHandle == [title : BarTitles, activated : BOOLEAN, minimized : BOOLEAN]
BarStates == SUBSET {"activated", "minimized"}
BarEvent == {<<k, w>> : k \in {"toplevel", "done", "closed"}, w \in Bar!Windows}
            \union {<<"title", w, t>> : w \in Bar!Windows, t \in BarTitles}
            \union {<<"state", w, z>> : w \in Bar!Windows, z \in BarStates}

\* The invariant: every window is where BarOf says, and a shell that does not run has
\* nothing.
BarKept(ts, s, h, b, due) ==
    \A w \in Bar!Windows : BarOf(w, ts[w], s, h, b, due)
BarTyped(ts, h) ==
    /\ ts \in [Bar!Windows -> BarTop]
    /\ \A w \in Bar!Windows : Lives(ts[w]) \/ ~(ts[w].activated \/ ts[w].minimized)
    /\ DOMAIN h \subseteq Bar!Windows /\ \A w \in DOMAIN h : h[w] \in BarHandle
BarInv ==
    /\ BarTyped(tops, handles) /\ wire \in Seq(BarEvent) /\ asked \in Seq(Bar!Windows)
    /\ DOMAIN buttons = DOMAIN handles
    /\ listening \in BOOLEAN
    /\ \A w \in Bar!Windows : w \in dirty => Lives(tops[w])
    /\ listening => BarKept(tops, wire, handles, buttons, dirty)
    /\ ~listening => wire = <<>> /\ DOMAIN handles = {} /\ dirty = {}

\* What an event is about.
LEMMA EventFacts ==
    ASSUME NEW e \in BarEvent
    PROVE  /\ e[2] \in Bar!Windows
           /\ e[1] = "title" => e[3] \in BarTitles
           /\ e[1] = "state" => e[3] \in BarStates
           /\ e[1] \in {"toplevel", "title", "state", "done", "closed"}
<1>1. CASE e \in {<<k, w>> : k \in {"toplevel", "done", "closed"}, w \in Bar!Windows}
  <2>1. PICK k \in {"toplevel", "done", "closed"}, w \in Bar!Windows : e = <<k, w>>
    BY <1>1
  <2>2. e[1] = k /\ e[2] = w
    BY <2>1
  <2>3. QED
    BY <2>2
<1>2. CASE e \in {<<"title", w, t>> : w \in Bar!Windows, t \in BarTitles}
  BY <1>2
<1>3. CASE e \in {<<"state", w, z>> : w \in Bar!Windows, z \in BarStates}
  BY <1>3
<1>4. QED
  BY <1>1, <1>2, <1>3 DEF BarEvent

\* The events that are sent.
LEMMA EventsAre ==
    ASSUME NEW w \in Bar!Windows, NEW t \in BarTitles, NEW z \in BarStates
    PROVE  /\ <<"toplevel", w>> \in BarEvent /\ <<"done", w>> \in BarEvent
           /\ <<"closed", w>> \in BarEvent
           /\ <<"title", w, t>> \in BarEvent /\ <<"state", w, z>> \in BarEvent
<1>1. \A k \in {"toplevel", "done", "closed"} : <<k, w>> \in BarEvent
  BY DEF BarEvent
<1>2. <<"title", w, t>> \in BarEvent
  BY DEF BarEvent
<1>3. <<"state", w, z>> \in BarEvent
  BY DEF BarEvent
<1>4. QED
  BY <1>1, <1>2, <1>3

\* The state of a window, and of a handle, is told by the two names.
LEMMA StateIs ==
    ASSUME NEW t, t.activated \in BOOLEAN, t.minimized \in BOOLEAN
    PROVE  /\ Bar!StateOf(t) \in BarStates
           /\ "activated" \in Bar!StateOf(t) <=> t.activated
           /\ "minimized" \in Bar!StateOf(t) <=> t.minimized
<1>1. \A s \in {"activated", "minimized"} : s \in Bar!StateOf(t) <=> t[s]
  BY DEF Bar!StateOf
<1>2. t["activated"] = t.activated /\ t["minimized"] = t.minimized
  OBVIOUS
<1>3. Bar!StateOf(t) \in BarStates
  BY DEF Bar!StateOf, BarStates
<1>4. QED
  BY <1>1, <1>2, <1>3

\* A change of the compositor's that sends what it must.
LEMMA BarSent ==
    ASSUME BarInv, NEW ts, NEW e \in Seq(BarEvent), NEW due,
           BarTyped(ts, handles), \A w \in Bar!Windows : w \in due => Lives(ts[w]),
           tops' = ts, Bar!Sends(e, due), Bar!ShellUnchanged, asked' \in Seq(Bar!Windows),
           BarKept(tops, wire, handles, buttons, dirty) =>
               BarKept(ts, wire \o e, handles, buttons, due)
    PROVE  BarInv'
<1>1. handles' = handles /\ buttons' = buttons /\ listening' = listening
  BY DEF Bar!ShellUnchanged
<1>2. BarTyped(tops', handles')
  BY <1>1
<1>3. CASE listening
  <2>1. wire' = wire \o e /\ dirty' = due
    BY <1>3 DEF Bar!Sends
  <2>2. wire' \in Seq(BarEvent)
    BY <2>1, PlacesOf DEF BarInv
  <2>3. BarKept(tops', wire', handles', buttons', dirty')
    BY <1>1, <1>3, <2>1 DEF BarInv
  <2>4. QED
    BY <1>1, <1>2, <1>3, <2>1, <2>2, <2>3 DEF BarInv, BarTyped, BarKept
<1>4. CASE ~listening
  <2>1. wire' = wire /\ dirty' = {}
    BY <1>4 DEF Bar!Sends
  <2>2. QED
    BY <1>1, <1>2, <1>4, <2>1 DEF BarInv, BarTyped
<1>5. QED
  BY <1>3, <1>4 DEF BarInv

\* The instance counts as the composition does.
LEMMA CountsAlike ==
    ASSUME NEW S
    PROVE  Bar!Cardinality(S) = Cardinality(S)
BY Zenon DEF Bar!Cardinality, Cardinality, Bar!IsFiniteSet, IsFiniteSet

\* An order of a set has each of its members.
LEMMA OrdersAre ==
    ASSUME NEW S, NEW o \in Bar!Orders(S)
    PROVE  /\ o \in [1..Cardinality(S) -> S]
           /\ \A w \in S : \E i \in DOMAIN o : o[i] = w
BY CountsAlike DEF Bar!Orders

\* A change of states: every window that changed is sent once, in some order.
LEMMA BarSentStates ==
    ASSUME BarInv, NEW ts, tops' = ts, Bar!SendsStates(ts), Bar!ShellUnchanged,
           asked' \in Seq(Bar!Windows), BarTyped(ts, handles),
           \A w \in Bar!Windows : /\ ts[w].title = tops[w].title
                                  /\ Lives(ts[w]) <=> Lives(tops[w])
                                  /\ ts[w].phase = "never" <=> tops[w].phase = "never"
    PROVE  BarInv'
<1> DEFINE changed == {x \in Bar!Windows : Bar!StateOf(ts[x]) # Bar!StateOf(tops[x])}
<1>1. PICK order \in Bar!Orders(changed) :
          Bar!Sends(Bar!StateEvents(ts, order), dirty \union changed)
  BY DEF Bar!SendsStates
<1> DEFINE e == Bar!StateEvents(ts, order)
           due == dirty \union changed
           n == Cardinality(changed)
<1>2. n \in Nat
  <2>1. IsFiniteSet(Bar!Windows)
    BY FS_Interval, TaskbarAssumption DEF Bar!Windows
  <2>2. QED
    BY <2>1, FS_Subset, FS_CardinalityType
<1>3. /\ order \in [1..n -> changed]
      /\ \A w \in changed : \E i \in DOMAIN order : order[i] = w
  <2> HIDE DEF changed, n
  <2>1. QED
    BY <1>1, OrdersAre DEF n
<1>4. \A w \in Bar!Windows : /\ ts[w] \in BarTop /\ tops[w] \in BarTop
                             /\ Bar!StateOf(ts[w]) \in BarStates
                             /\ Lives(tops[w]) \/ w \notin changed
  <2>1. SUFFICES ASSUME NEW w \in Bar!Windows
                 PROVE  /\ ts[w] \in BarTop /\ tops[w] \in BarTop
                        /\ Bar!StateOf(ts[w]) \in BarStates
                        /\ Lives(tops[w]) \/ w \notin changed
    OBVIOUS
  <2>2. ts[w] \in BarTop /\ tops[w] \in BarTop
    BY DEF BarInv, BarTyped
  <2>3. /\ ts[w].activated \in BOOLEAN /\ ts[w].minimized \in BOOLEAN
        /\ tops[w].activated \in BOOLEAN /\ tops[w].minimized \in BOOLEAN
    BY <2>2 DEF BarTop
  <2>4. Bar!StateOf(ts[w]) \in BarStates
    BY <2>3, StateIs
  <2>5. ASSUME ~Lives(tops[w]) PROVE Bar!StateOf(ts[w]) = Bar!StateOf(tops[w])
    <3>1. /\ ~ts[w].activated /\ ~ts[w].minimized
          /\ ~tops[w].activated /\ ~tops[w].minimized
      BY <2>5 DEF BarInv, BarTyped
    <3>2. Bar!StateOf(ts[w]) = {} /\ Bar!StateOf(tops[w]) = {}
      BY <2>3, <3>1, StateIs DEF BarStates
    <3>3. QED
      BY <3>2
  <2>6. QED
    BY <2>2, <2>4, <2>5
<1> HIDE DEF changed, n
<1>5. e \in Seq(BarEvent) /\ Len(e) = n
      /\ \A i \in 1..n : /\ order[i] \in changed /\ order[i] \in Bar!Windows
                         /\ e[i][1] = "state" /\ e[i][2] = order[i]
                         /\ e[i][3] = Bar!StateOf(ts[order[i]])
  <2>0. DOMAIN order = 1..n /\ \A i \in 1..n : order[i] \in changed
    BY <1>3
  <2>1. \A i \in 1..n : order[i] \in Bar!Windows
    BY <2>0 DEF changed
  <2>2. /\ e = [i \in 1..n |-> <<"state", order[i], Bar!StateOf(ts[order[i]])>>]
    BY <2>0 DEF Bar!StateEvents
  <2>3. \A i \in 1..n : <<"state", order[i], Bar!StateOf(ts[order[i]])>> \in BarEvent
    BY <1>4, <2>1 DEF BarEvent
  <2>4. e \in [1..n -> BarEvent]
    BY <2>2, <2>3
  <2>5. e \in Seq(BarEvent) /\ Len(e) = n
    BY <1>2, <2>4, ElementOfSeq, LenProperties, SeqDef
  <2>6. ASSUME NEW i \in 1..n
        PROVE  e[i][1] = "state" /\ e[i][2] = order[i] /\ e[i][3] = Bar!StateOf(ts[order[i]])
    <3>1. e[i] = <<"state", order[i], Bar!StateOf(ts[order[i]])>>
      BY <2>2
    <3>2. QED
      BY <3>1
  <2>7. QED
    BY <2>0, <2>1, <2>5, <2>6
<1> HIDE DEF e
<1>6. \A w \in Bar!Windows : w \in due => Lives(ts[w])
  BY <1>4 DEF BarInv
<1>7. ASSUME BarKept(tops, wire, handles, buttons, dirty)
      PROVE  BarKept(ts, wire \o e, handles, buttons, due)
  <2>1. SUFFICES ASSUME NEW w \in Bar!Windows
                 PROVE  BarOf(w, ts[w], wire \o e, handles, buttons, due)
    BY DEF BarKept
  <2>2. BarOf(w, tops[w], wire, handles, buttons, dirty) /\ wire \in Seq(BarEvent)
    BY <1>7 DEF BarKept, BarInv
  <2>3. CASE w \in changed
    <3>1. Lives(tops[w]) /\ Lives(ts[w]) /\ w \in due
      BY <1>4, <2>3
    <3>2. \A i \in 1..Len(e) : e[i][2] = w => e[i][1] = "state" /\ e[i][3] = Bar!StateOf(ts[w])
      BY <1>5
    <3>3. \E i \in 1..Len(e) : Gets(e, i, w, "state")
      BY <1>3, <1>5, <2>3 DEF Gets
    <3>4. QED
      BY <1>5, <2>2, <3>1, <3>2, <3>3, PushOwn
  <2>4. CASE w \notin changed
    <3>1. \A i \in 1..Len(e) : e[i][2] # w
      BY <1>5, <2>4
    <3>2. Bar!StateOf(ts[w]) = Bar!StateOf(tops[w])
      BY <2>4 DEF changed
    <3>3. QED
      BY <1>5, <2>2, <3>1, <3>2, PushOther
  <2>5. QED
    BY <2>3, <2>4
<1>8. QED
  BY <1>1, <1>5, <1>6, <1>7, BarSent DEF e

\* The places and the value of a list of one event.
LEMMA OneEvent ==
    ASSUME NEW E, NEW x \in E
    PROVE  <<x>> \in Seq(E) /\ 1..Len(<<x>>) = {1} /\ Len(<<x>>) = 1 /\ <<x>>[1] = x
OBVIOUS

\* The places and the values of a list of three events.
LEMMA ThreeEvents ==
    ASSUME NEW E, NEW x \in E, NEW y \in E, NEW z \in E
    PROVE  /\ <<x, y, z>> \in Seq(E) /\ 1..Len(<<x, y, z>>) = {1, 2, 3}
           /\ <<x, y, z>>[1] = x /\ <<x, y, z>>[2] = y /\ <<x, y, z>>[3] = z
OBVIOUS

\* Equal flags are equal states.
LEMMA SameState ==
    ASSUME NEW t, NEW u, t.activated = u.activated, t.minimized = u.minimized
    PROVE  Bar!StateOf(t) = Bar!StateOf(u)
<1>1. \A s \in {"activated", "minimized"} : t[s] = u[s]
  OBVIOUS
<1>2. QED
  BY <1>1 DEF Bar!StateOf

\* A window is created.
LEMMA BarCreates ==
    ASSUME BarInv, NEW w \in Bar!Windows, NEW t \in BarTitles, Bar!CreateForeignToplevel(w, t)
    PROVE  BarInv'
<1> DEFINE u == [tops[w] EXCEPT !.phase = "created", !.title = t]
           ts == [tops EXCEPT ![w] = u]
           e == << <<"toplevel", w>>, <<"title", w, t>>, <<"state", w, {}>> >>
           due == dirty \union {w}
<1>1. /\ tops[w].phase = "never" /\ tops' = ts /\ Bar!Sends(e, due) /\ Bar!ShellUnchanged
      /\ asked' = asked
  BY DEF Bar!CreateForeignToplevel
<1>2. e \in Seq(BarEvent) /\ 1..Len(e) = {1, 2, 3}
  <2>1. <<"toplevel", w>> \in BarEvent /\ <<"title", w, t>> \in BarEvent
        /\ <<"state", w, {}>> \in BarEvent
    BY EventsAre DEF BarStates
  <2>2. QED
    BY <2>1, ThreeEvents
<1>3. /\ tops \in [Bar!Windows -> BarTop] /\ tops[w] \in BarTop
      /\ ~(tops[w].activated \/ tops[w].minimized)
  BY <1>1 DEF BarInv, BarTyped, Lives
<1>4. /\ u \in BarTop /\ Lives(u) /\ u.title = t
      /\ ~u.activated /\ ~u.minimized /\ u.activated \in BOOLEAN /\ u.minimized \in BOOLEAN
  BY <1>3 DEF BarTop, Lives
<1>5. Bar!StateOf(u) = {}
  <2> HIDE DEF u
  <2>1. QED
    BY <1>4, StateIs DEF BarStates
<1>6. /\ Gets(e, 1, w, "toplevel") /\ Gets(e, 2, w, "title") /\ Gets(e, 3, w, "state")
      /\ e[2][3] = t /\ e[3][3] = {}
      /\ \A i \in 1..Len(e) : e[i][2] = w
  BY <1>2 DEF Gets
<1> HIDE DEF u, e
<1>7. /\ ts \in [Bar!Windows -> BarTop] /\ ts[w] = u
      /\ \A x \in Bar!Windows : x # w => ts[x] = tops[x]
  BY <1>3, <1>4
<1> HIDE DEF ts
<1>8. BarTyped(ts, handles)
  <2>1. \A x \in Bar!Windows : Lives(ts[x]) \/ ~(ts[x].activated \/ ts[x].minimized)
    BY <1>4, <1>7 DEF BarInv, BarTyped
  <2>2. QED
    BY <1>7, <2>1 DEF BarInv, BarTyped
<1>9. \A x \in Bar!Windows : x \in due => Lives(ts[x])
  BY <1>4, <1>7 DEF BarInv
<1>10. ASSUME BarKept(tops, wire, handles, buttons, dirty)
       PROVE  BarKept(ts, wire \o e, handles, buttons, due)
  <2>1. SUFFICES ASSUME NEW x \in Bar!Windows
                 PROVE  BarOf(x, ts[x], wire \o e, handles, buttons, due)
    BY DEF BarKept
  <2>2. BarOf(x, tops[x], wire, handles, buttons, dirty) /\ wire \in Seq(BarEvent)
    BY <1>10 DEF BarKept, BarInv
  <2>3. CASE x = w
    <3>1. w \in due
      OBVIOUS
    <3>2. e[2][3] = u.title /\ e[3][3] = Bar!StateOf(u)
      BY <1>4, <1>5, <1>6
    <3>3. BarOf(w, tops[w], wire, handles, buttons, dirty) /\ tops[w].phase = "never"
      BY <1>1, <2>2, <2>3
    <3> HIDE DEF due
    <3>4. BarOf(w, u, wire \o e, handles, buttons, due)
      BY <1>2, <1>4, <1>6, <2>2, <3>1, <3>2, <3>3, PushBirth
    <3>5. QED
      BY <1>7, <2>3, <3>4
  <2>4. CASE x # w
    <3>1. ts[x] = tops[x] /\ \A i \in 1..Len(e) : e[i][2] # x
      BY <1>6, <1>7, <2>4
    <3>2. QED
      BY <1>2, <2>2, <2>4, <3>1, PushOther
  <2>5. QED
    BY <2>3, <2>4
<1>11. asked' \in Seq(Bar!Windows)
  BY <1>1 DEF BarInv
<1>12. QED
  BY <1>1, <1>2, <1>8, <1>9, <1>10, <1>11, BarSent

\* A window gets another title.
LEMMA BarRetitles ==
    ASSUME BarInv, NEW w \in Bar!Windows, NEW t \in BarTitles, Bar!SetTitle(w, t)
    PROVE  BarInv'
<1> DEFINE u == [tops[w] EXCEPT !.title = t]
           ts == [tops EXCEPT ![w] = u]
           e == << <<"title", w, t>> >>
           due == dirty \union {w}
<1>1. /\ Bar!Alive(w) /\ tops' = ts /\ Bar!Sends(e, due) /\ Bar!ShellUnchanged
      /\ asked' = asked
  BY DEF Bar!SetTitle
<1>2. e \in Seq(BarEvent) /\ 1..Len(e) = {1}
  <2>1. <<"title", w, t>> \in BarEvent
    BY EventsAre DEF BarStates, BarTitles
  <2>2. QED
    BY <2>1, OneEvent
<1>3. tops \in [Bar!Windows -> BarTop] /\ tops[w] \in BarTop /\ Lives(tops[w])
  BY <1>1 DEF BarInv, BarTyped, Lives, Bar!Alive
<1>4. /\ u \in BarTop /\ Lives(u) /\ u.title = t
      /\ u.activated = tops[w].activated /\ u.minimized = tops[w].minimized
      /\ u.activated \in BOOLEAN /\ u.minimized \in BOOLEAN
  BY <1>3 DEF BarTop, Lives
<1>5. Bar!StateOf(u) = Bar!StateOf(tops[w])
  <2> HIDE DEF u
  <2>1. QED
    BY <1>4, SameState
<1>6. Gets(e, 1, w, "title") /\ e[1][3] = t /\ \A i \in 1..Len(e) : e[i][2] = w
  BY <1>2 DEF Gets
<1> HIDE DEF u, e
<1>7. /\ ts \in [Bar!Windows -> BarTop] /\ ts[w] = u
      /\ \A x \in Bar!Windows : x # w => ts[x] = tops[x]
  BY <1>3, <1>4
<1> HIDE DEF ts
<1>8. BarTyped(ts, handles)
  <2>1. \A x \in Bar!Windows : Lives(ts[x]) \/ ~(ts[x].activated \/ ts[x].minimized)
    BY <1>4, <1>7 DEF BarInv, BarTyped
  <2>2. QED
    BY <1>7, <2>1 DEF BarInv, BarTyped
<1>9. \A x \in Bar!Windows : x \in due => Lives(ts[x])
  BY <1>4, <1>7 DEF BarInv
<1>10. ASSUME BarKept(tops, wire, handles, buttons, dirty)
       PROVE  BarKept(ts, wire \o e, handles, buttons, due)
  <2>1. SUFFICES ASSUME NEW x \in Bar!Windows
                 PROVE  BarOf(x, ts[x], wire \o e, handles, buttons, due)
    BY DEF BarKept
  <2>2. BarOf(x, tops[x], wire, handles, buttons, dirty) /\ wire \in Seq(BarEvent)
    BY <1>10 DEF BarKept, BarInv
  <2>3. CASE x = w
    <3>1. \A i \in 1..Len(e) : e[i][1] = "title" /\ e[i][3] = u.title
      BY <1>2, <1>4, <1>6 DEF Gets
    <3>2. \E i \in 1..Len(e) : Gets(e, i, x, "title")
      BY <1>2, <1>6, <2>3
    <3>3. w \in due
      OBVIOUS
    <3>4. QED
      BY <1>2, <1>3, <1>4, <1>5, <1>7, <2>2, <2>3, <3>1, <3>2, <3>3, PushOwn
  <2>4. CASE x # w
    <3>1. ts[x] = tops[x] /\ \A i \in 1..Len(e) : e[i][2] # x
      BY <1>6, <1>7, <2>4
    <3>2. QED
      BY <1>2, <2>2, <2>4, <3>1, PushOther
  <2>5. QED
    BY <2>3, <2>4
<1>11. asked' \in Seq(Bar!Windows)
  BY <1>1 DEF BarInv
<1>12. QED
  BY <1>1, <1>2, <1>8, <1>9, <1>10, <1>11, BarSent

\* A window is gone.
LEMMA BarDestroys ==
    ASSUME BarInv, NEW w \in Bar!Windows, Bar!DestroyForeignToplevel(w)
    PROVE  BarInv'
<1> DEFINE u == [Bar!NotYet EXCEPT !.phase = "gone"]
           ts == [tops EXCEPT ![w] = u]
           e == << <<"closed", w>> >>
           due == dirty \ {w}
<1>1. /\ Bar!Alive(w) /\ tops' = ts /\ Bar!Sends(e, due) /\ Bar!ShellUnchanged
      /\ asked' = asked
  BY DEF Bar!DestroyForeignToplevel
<1>2. e \in Seq(BarEvent) /\ 1..Len(e) = {1} /\ Len(e) = 1
  <2>1. <<"closed", w>> \in BarEvent
    BY EventsAre DEF BarStates, BarTitles
  <2>2. QED
    BY <2>1, OneEvent
<1>3. tops \in [Bar!Windows -> BarTop] /\ Lives(tops[w])
  BY <1>1 DEF BarInv, BarTyped, Lives, Bar!Alive
<1>4. u \in BarTop /\ ~Lives(u) /\ u.phase # "never" /\ ~u.activated /\ ~u.minimized
  BY DEF BarTop, BarTitles, Lives, Bar!NotYet
<1>6. Gets(e, 1, w, "closed") /\ \A i \in 1..Len(e) : e[i][2] = w
  BY <1>2 DEF Gets
<1> HIDE DEF u, e
<1>7. /\ ts \in [Bar!Windows -> BarTop] /\ ts[w] = u
      /\ \A x \in Bar!Windows : x # w => ts[x] = tops[x]
  BY <1>3, <1>4
<1> HIDE DEF ts
<1>8. BarTyped(ts, handles)
  <2>1. \A x \in Bar!Windows : Lives(ts[x]) \/ ~(ts[x].activated \/ ts[x].minimized)
    BY <1>4, <1>7 DEF BarInv, BarTyped
  <2>2. QED
    BY <1>7, <2>1 DEF BarInv, BarTyped
<1>9. \A x \in Bar!Windows : x \in due => Lives(ts[x])
  BY <1>4, <1>7 DEF BarInv
<1>10. ASSUME BarKept(tops, wire, handles, buttons, dirty)
       PROVE  BarKept(ts, wire \o e, handles, buttons, due)
  <2>1. SUFFICES ASSUME NEW x \in Bar!Windows
                 PROVE  BarOf(x, ts[x], wire \o e, handles, buttons, due)
    BY DEF BarKept
  <2>2. BarOf(x, tops[x], wire, handles, buttons, dirty) /\ wire \in Seq(BarEvent)
    BY <1>10 DEF BarKept, BarInv
  <2>3. CASE x = w
    BY <1>2, <1>3, <1>4, <1>6, <1>7, <2>2, <2>3, PushClosed
  <2>4. CASE x # w
    <3>1. ts[x] = tops[x] /\ \A i \in 1..Len(e) : e[i][2] # x
      BY <1>6, <1>7, <2>4
    <3>2. QED
      BY <1>2, <2>2, <2>4, <3>1, PushOther
  <2>5. QED
    BY <2>3, <2>4
<1>11. asked' \in Seq(Bar!Windows)
  BY <1>1 DEF BarInv
<1>12. QED
  BY <1>1, <1>2, <1>8, <1>9, <1>10, <1>11, BarSent

\* All is told of a window.
LEMMA BarSettles ==
    ASSUME BarInv, NEW w \in Bar!Windows, Bar!SendDone(w)
    PROVE  BarInv'
<1> DEFINE e == << <<"done", w>> >>
           due == dirty \ {w}
<1>1. /\ w \in dirty /\ tops' = tops /\ Bar!Sends(e, due) /\ Bar!ShellUnchanged
      /\ asked' = asked
  BY DEF Bar!SendDone
<1>2. e \in Seq(BarEvent) /\ 1..Len(e) = {1} /\ Len(e) = 1
  <2>1. <<"done", w>> \in BarEvent
    BY EventsAre DEF BarStates, BarTitles
  <2>2. QED
    BY <2>1, OneEvent
<1>3. Lives(tops[w])
  BY <1>1 DEF BarInv
<1>6. Gets(e, 1, w, "done") /\ \A i \in 1..Len(e) : e[i][2] = w
  BY <1>2 DEF Gets
<1> HIDE DEF e
<1>10. ASSUME BarKept(tops, wire, handles, buttons, dirty)
       PROVE  BarKept(tops, wire \o e, handles, buttons, due)
  <2>1. SUFFICES ASSUME NEW x \in Bar!Windows
                 PROVE  BarOf(x, tops[x], wire \o e, handles, buttons, due)
    BY DEF BarKept
  <2>2. BarOf(x, tops[x], wire, handles, buttons, dirty) /\ wire \in Seq(BarEvent)
    BY <1>10 DEF BarKept, BarInv
  <2>3. CASE x = w
    BY <1>2, <1>3, <1>6, <2>2, <2>3, PushSettled
  <2>4. CASE x # w
    <3>1. \A i \in 1..Len(e) : e[i][2] # x
      BY <1>6, <2>4
    <3>2. x \notin due => x \notin dirty
      BY <2>4
    <3>3. QED
      BY <1>2, <2>2, <3>1, <3>2, PushOther
  <2>5. QED
    BY <2>3, <2>4
<1>11. asked' \in Seq(Bar!Windows) /\ BarTyped(tops, handles)
       /\ \A x \in Bar!Windows : x \in due => Lives(tops[x])
  BY <1>1 DEF BarInv
<1>12. QED
  BY <1>1, <1>2, <1>10, <1>11, BarSent

\* Activating a window changes flags, and of windows that exist.
LEMMA ActivatedIs ==
    ASSUME BarInv, NEW w
    PROVE  LET ts == Bar!Activated(w)
           IN  /\ BarTyped(ts, handles)
               /\ \A x \in Bar!Windows : /\ ts[x].title = tops[x].title
                                         /\ ts[x].phase = tops[x].phase
<1> DEFINE ts == Bar!Activated(w)
<1>1. ASSUME NEW x \in Bar!Windows
      PROVE  /\ ts[x] \in BarTop
             /\ ts[x].title = tops[x].title /\ ts[x].phase = tops[x].phase
             /\ Lives(ts[x]) \/ ~(ts[x].activated \/ ts[x].minimized)
  <2> DEFINE lights == Bar!Alive(x) /\ x = w
             hides == tops[x].minimized /\ x # w
  <2>1. ts[x] = [tops[x] EXCEPT !.activated = lights, !.minimized = hides]
    BY DEF Bar!Activated
  <2>2. tops[x] \in BarTop
    BY DEF BarInv, BarTyped
  <2>3. lights \in BOOLEAN /\ hides \in BOOLEAN
    OBVIOUS
  <2>4. ~Lives(tops[x]) => ~lights /\ ~hides
    BY DEF BarInv, BarTyped, Bar!Alive, Lives
  <2> HIDE DEF lights, hides, ts
  <2>5. ts[x] \in BarTop
    BY <2>1, <2>2, <2>3 DEF BarTop
  <2>6. /\ ts[x].title = tops[x].title /\ ts[x].phase = tops[x].phase
        /\ ts[x].activated = lights /\ ts[x].minimized = hides
    BY <2>1, <2>2 DEF BarTop
  <2>7. QED
    BY <2>4, <2>5, <2>6 DEF Lives
<1>2. ts = [x \in Bar!Windows |-> ts[x]]
  BY DEF Bar!Activated
<1> HIDE DEF ts
<1>3. ts \in [Bar!Windows -> BarTop]
  BY <1>1, <1>2
<1>4. BarTyped(ts, handles)
  BY <1>1, <1>3 DEF BarInv, BarTyped
<1>5. QED
  BY <1>1, <1>4 DEF ts

\* A window is mapped, and becomes the active one.
LEMMA BarMaps ==
    ASSUME BarInv, NEW w \in Bar!Windows, Bar!Map(w)
    PROVE  BarInv'
<1> DEFINE as == Bar!Activated(w)
           ts == [as EXCEPT ![w].phase = "mapped"]
<1>1. /\ tops[w].phase = "created" /\ tops' = ts /\ Bar!SendsStates(ts)
      /\ Bar!ShellUnchanged /\ asked' = asked
  BY DEF Bar!Map
<1>2. /\ BarTyped(as, handles)
      /\ \A x \in Bar!Windows : as[x].title = tops[x].title /\ as[x].phase = tops[x].phase
  BY ActivatedIs
<1> HIDE DEF as
<1>3. as \in [Bar!Windows -> BarTop]
  BY <1>2 DEF BarTyped
<1> DEFINE u == [as[w] EXCEPT !.phase = "mapped"]
<1>4. u \in BarTop
  BY <1>3 DEF BarTop
<1>5. u.title = tops[w].title /\ Lives(u) /\ u.phase # "never"
  BY <1>2, <1>3 DEF BarTop, Lives
<1> HIDE DEF u
<1>6. /\ ts \in [Bar!Windows -> BarTop] /\ ts[w] = u
      /\ \A x \in Bar!Windows : x # w => ts[x] = as[x]
  BY <1>3, <1>4 DEF u
<1> HIDE DEF ts
<1>7. BarTyped(ts, handles)
  BY <1>2, <1>5, <1>6 DEF BarTyped
<1>8. ASSUME NEW x \in Bar!Windows
      PROVE  /\ ts[x].title = tops[x].title
             /\ Lives(ts[x]) <=> Lives(tops[x])
             /\ ts[x].phase = "never" <=> tops[x].phase = "never"
  BY <1>1, <1>2, <1>5, <1>6 DEF Lives
<1>9. asked' \in Seq(Bar!Windows)
  BY <1>1 DEF BarInv
<1>10. QED
  BY <1>1, <1>7, <1>8, <1>9, BarSentStates

\* A window is minimized.
LEMMA BarMinimizes ==
    ASSUME BarInv, NEW w \in Bar!Windows, Bar!SetMinimized(w)
    PROVE  BarInv'
<1> DEFINE ts == [tops EXCEPT ![w].minimized = TRUE, ![w].activated = FALSE]
<1>1. /\ tops[w].phase = "mapped" /\ tops' = ts /\ Bar!SendsStates(ts)
      /\ Bar!ShellUnchanged /\ asked' = asked
  BY DEF Bar!SetMinimized
<1>3. tops \in [Bar!Windows -> BarTop] /\ tops[w] \in BarTop
  BY DEF BarInv, BarTyped
<1> DEFINE u == [tops[w] EXCEPT !.minimized = TRUE, !.activated = FALSE]
<1>4. u \in BarTop
  BY <1>3 DEF BarTop
<1>5. u.title = tops[w].title /\ u.phase = tops[w].phase /\ Lives(u)
  BY <1>1, <1>3 DEF BarTop, Lives
<1> HIDE DEF u
<1>6. /\ ts \in [Bar!Windows -> BarTop] /\ ts[w] = u
      /\ \A x \in Bar!Windows : x # w => ts[x] = tops[x]
  BY <1>3, <1>4 DEF u
<1> HIDE DEF ts
<1>7. BarTyped(ts, handles)
  BY <1>5, <1>6 DEF BarTyped, BarInv
<1>8. ASSUME NEW x \in Bar!Windows
      PROVE  /\ ts[x].title = tops[x].title
             /\ Lives(ts[x]) <=> Lives(tops[x])
             /\ ts[x].phase = "never" <=> tops[x].phase = "never"
  BY <1>5, <1>6 DEF Lives
<1>9. asked' \in Seq(Bar!Windows)
  BY <1>1 DEF BarInv
<1>10. QED
  BY <1>1, <1>7, <1>8, <1>9, BarSentStates

\* A request arrives.
LEMMA BarActivates ==
    ASSUME BarInv, Bar!HandleFtlActivate
    PROVE  BarInv'
<1> DEFINE w == Head(asked)
           ts == Bar!Activated(w)
<1>1. asked # <<>> /\ asked' = Tail(asked) /\ Bar!ShellUnchanged
  BY DEF Bar!HandleFtlActivate
<1>2. asked' \in Seq(Bar!Windows)
  BY <1>1, HeadTailProperties DEF BarInv
<1>3. CASE tops[w].phase = "mapped"
  <2>1. tops' = ts /\ Bar!SendsStates(ts)
    BY <1>3 DEF Bar!HandleFtlActivate
  <2>2. /\ BarTyped(ts, handles)
        /\ \A x \in Bar!Windows : ts[x].title = tops[x].title /\ ts[x].phase = tops[x].phase
    BY ActivatedIs
  <2> HIDE DEF ts
  <2>3. QED
    BY <1>1, <1>2, <2>1, <2>2, BarSentStates DEF Lives
<1>4. CASE tops[w].phase # "mapped"
  <2>1. UNCHANGED <<tops, wire, dirty, handles, buttons, listening>>
    BY <1>1, <1>4 DEF Bar!HandleFtlActivate, Bar!ShellUnchanged
  <2>2. QED
    BY <1>2, <2>1 DEF BarInv, BarTyped, BarKept
<1>5. QED
  BY <1>3, <1>4

\* A button is clicked.
LEMMA BarClicks ==
    ASSUME BarInv, NEW w \in Bar!Windows, Bar!Click(w)
    PROVE  BarInv'
<1>1. /\ asked' = Append(asked, w)
      /\ UNCHANGED <<tops, dirty, wire, listening, handles, buttons>>
  BY DEF Bar!Click
<1>2. asked' \in Seq(Bar!Windows)
  BY <1>1, AppendProperties DEF BarInv
<1>3. QED
  BY <1>1, <1>2 DEF BarInv, BarTyped, BarKept

\* The shell goes.
LEMMA BarStops ==
    ASSUME BarInv, Bar!ShellStops
    PROVE  BarInv'
<1>1. /\ listening' = FALSE /\ wire' = <<>> /\ asked' = <<>> /\ dirty' = {}
      /\ handles' = <<>> /\ buttons' = <<>> /\ tops' = tops
  BY DEF Bar!ShellStops
<1>2. DOMAIN handles' = {} /\ DOMAIN buttons' = {}
  BY <1>1
<1>3. wire' \in Seq(BarEvent) /\ asked' \in Seq(Bar!Windows)
  BY <1>1
<1>4. BarTyped(tops', handles')
  BY <1>1, <1>2 DEF BarInv, BarTyped
<1>5. QED
  BY <1>1, <1>2, <1>3, <1>4 DEF BarInv

\* A function on the first m numbers is a sequence of length m.
LEMMA FunctionIsSeq ==
    ASSUME NEW E, NEW m \in Nat, NEW f \in [1..m -> E]
    PROVE  f \in Seq(E) /\ Len(f) = m
BY ElementOfSeq, LenProperties, SeqDef

\* Four events each, one after the other.
LEMMA FourPlaces ==
    ASSUME NEW n \in Nat, NEW i \in 1..(4 * n)
    PROVE  LET q == ((i - 1) \div 4) + 1
               k == ((i - 1) % 4) + 1
           IN  q \in 1..n /\ k \in {1, 2, 3, 4} /\ i = 4 * (q - 1) + k
<1> DEFINE d == (i - 1) \div 4
           m == (i - 1) % 4
<1>1. i - 1 \in Nat /\ i - 1 < 4 * n
  OBVIOUS
<1>2. d \in Nat /\ m \in 0..3 /\ i - 1 = 4 * d + m
  BY <1>1
<1> HIDE DEF d, m
<1>3. d + 1 \in 1..n /\ m + 1 \in {1, 2, 3, 4} /\ i = 4 * ((d + 1) - 1) + (m + 1)
  BY <1>1, <1>2
<1>4. QED
  BY <1>3 DEF d, m

\* What the events of an order are.
LEMMA BarStartsWith ==
    ASSUME BarInv, NEW order \in Bar!Orders({w \in Bar!Windows : Bar!Alive(w)}),
           wire' = [i \in 1..(4 * Len(order)) |->
                        Bar!Introduced(order[((i - 1) \div 4) + 1])[((i - 1) % 4) + 1]]
    PROVE  LET n == Len(order)
           IN  /\ n \in Nat /\ wire' \in Seq(BarEvent) /\ Len(wire') = 4 * n
               /\ \A p, q \in 1..n : order[p] = order[q] => p = q
               /\ \A p \in 1..n : order[p] \in Bar!Windows /\ Lives(tops[order[p]])
               /\ \A w \in Bar!Windows : Lives(tops[w]) => \E p \in 1..n : order[p] = w
               /\ \A i \in 1..Len(wire') : \E p \in 1..n, k \in {1, 2, 3, 4} :
                      i = 4 * (p - 1) + k
               /\ \A p \in 1..n, k \in {1, 2, 3, 4} :
                      /\ 4 * (p - 1) + k \in 1..Len(wire')
                      /\ wire'[4 * (p - 1) + k] = Bar!Introduced(order[p])[k]
<1> DEFINE living == {w \in Bar!Windows : Bar!Alive(w)}
           n == Cardinality(living)
<1>1. n \in Nat /\ IsFiniteSet(living)
  <2>1. IsFiniteSet(Bar!Windows)
    BY FS_Interval, TaskbarAssumption DEF Bar!Windows
  <2>2. QED
    BY <2>1, FS_Subset, FS_CardinalityType
<1>2. \A w : w \in living <=> w \in Bar!Windows /\ Lives(tops[w])
  BY DEF Bar!Alive, Lives
<1> HIDE DEF living
<1>3. order \in [1..n -> living] /\ \A w \in living : \E i \in DOMAIN order : order[i] = w
  BY OrdersAre DEF living
<1> HIDE DEF n
<1>4. Len(order) = n /\ DOMAIN order = 1..n
  BY <1>1, <1>3, ElementOfSeq, LenProperties, SeqDef
<1>5. \A p, q \in 1..n : order[p] = order[q] => p = q
  <2>1. IsFiniteSet(1..n) /\ Cardinality(1..n) = n
    BY <1>1, FS_Interval
  <2>2. order \in Surjection(1..n, living)
    BY <1>3, <1>4 DEF Surjection
  <2>3. order \in Injection(1..n, living)
    BY <2>1, <2>2, FS_SurjSameCardinalityImpliesInj, Zenon DEF n
  <2>4. QED
    BY <2>3, <1>4 DEF Injection, IsInjective
<1>6. \A p \in 1..n : order[p] \in living
  BY <1>3
<1>7. wire' = [i \in 1..(4 * n) |->
                   Bar!Introduced(order[((i - 1) \div 4) + 1])[((i - 1) % 4) + 1]]
  BY <1>4
<1>8. ASSUME NEW p \in 1..n, NEW k \in {1, 2, 3, 4}
      PROVE  /\ 4 * (p - 1) + k \in 1..(4 * n)
             /\ wire'[4 * (p - 1) + k] = Bar!Introduced(order[p])[k]
  <2> DEFINE i == 4 * (p - 1) + k
  <2>1. i \in 1..(4 * n) /\ i - 1 = 4 * (p - 1) + (k - 1) /\ k - 1 \in 0..3 /\ p - 1 \in Nat
    BY <1>1
  <2>2. (i - 1) \div 4 = p - 1 /\ (i - 1) % 4 = k - 1
    BY <2>1
  <2>3. ((i - 1) \div 4) + 1 = p /\ ((i - 1) % 4) + 1 = k
    BY <1>1, <2>2
  <2> HIDE DEF i
  <2>4. wire'[i] = Bar!Introduced(order[p])[k]
    BY <1>7, <2>1, <2>3
  <2>5. QED
    BY <2>1, <2>4 DEF i
<1>9. ASSUME NEW i \in 1..(4 * n)
      PROVE  \E p \in 1..n, k \in {1, 2, 3, 4} : i = 4 * (p - 1) + k
  BY <1>1, FourPlaces
<1>10. \A p \in 1..n, k \in {1, 2, 3, 4} : Bar!Introduced(order[p])[k] \in BarEvent
  <2>1. SUFFICES ASSUME NEW p \in 1..n
                 PROVE  \A k \in {1, 2, 3, 4} : Bar!Introduced(order[p])[k] \in BarEvent
    OBVIOUS
  <2> DEFINE w == order[p]
  <2>2. w \in Bar!Windows /\ tops[w] \in BarTop
    BY <1>2, <1>6 DEF BarInv, BarTyped
  <2>3. tops[w].title \in BarTitles /\ tops[w].activated \in BOOLEAN /\ tops[w].minimized \in BOOLEAN
    BY <2>2 DEF BarTop
  <2>4. Bar!StateOf(tops[w]) \in BarStates
    BY <2>3, StateIs
  <2> HIDE DEF w
  <2>5. /\ <<"toplevel", w>> \in BarEvent /\ <<"done", w>> \in BarEvent
        /\ <<"title", w, tops[w].title>> \in BarEvent
        /\ <<"state", w, Bar!StateOf(tops[w])>> \in BarEvent
    BY <2>2, <2>3, <2>4, EventsAre
  <2>6. \A k \in {1, 2, 3, 4} : Bar!Introduced(w)[k] \in BarEvent
    <3>1. /\ Bar!Introduced(w)[1] = <<"toplevel", w>>
          /\ Bar!Introduced(w)[2] = <<"title", w, tops[w].title>>
          /\ Bar!Introduced(w)[3] = <<"state", w, Bar!StateOf(tops[w])>>
          /\ Bar!Introduced(w)[4] = <<"done", w>>
      BY DEF Bar!Introduced
    <3>2. QED
      BY <2>5, <3>1
  <2>7. QED
    BY <2>6 DEF w
<1>11. wire' \in [1..(4 * n) -> BarEvent]
  BY <1>7, <1>8, <1>9, <1>10
<1>12. 4 * n \in Nat
  BY <1>1
<1>13. wire' \in Seq(BarEvent) /\ Len(wire') = 4 * n
  BY <1>11, <1>12, FunctionIsSeq
<1>14. \A w \in Bar!Windows : Lives(tops[w]) => \E p \in 1..n : order[p] = w
  BY <1>2, <1>3, <1>4
<1>15. \A i \in 1..Len(wire') : \E p \in 1..n, k \in {1, 2, 3, 4} : i = 4 * (p - 1) + k
  BY <1>9, <1>13
<1>16. \A p \in 1..n, k \in {1, 2, 3, 4} :
           /\ 4 * (p - 1) + k \in 1..Len(wire')
           /\ wire'[4 * (p - 1) + k] = Bar!Introduced(order[p])[k]
  BY <1>8, <1>13
<1>17. \A p \in 1..n : order[p] \in Bar!Windows /\ Lives(tops[order[p]])
  BY <1>2, <1>6
<1>18. Len(order) = n
  BY <1>4
<1>19. QED
  BY <1>1, <1>5, <1>13, <1>14, <1>15, <1>16, <1>17, <1>18, Zenon

\* A window that is introduced.
LEMMA IntroducedIsKept ==
    ASSUME NEW r, NEW w, NEW t, NEW h, NEW b, NEW due, NEW n \in Nat,
           w \notin DOMAIN h, Lives(t), Len(r) \in Nat,
           n + 1 \in 1..Len(r), Gets(r, n + 1, w, "toplevel"),
           n + 2 \in 1..Len(r), Gets(r, n + 2, w, "title"), r[n + 2][3] = t.title,
           n + 3 \in 1..Len(r), Gets(r, n + 3, w, "state"), r[n + 3][3] = Bar!StateOf(t),
           n + 4 \in 1..Len(r), Gets(r, n + 4, w, "done"),
           \A i \in 1..Len(r) : r[i][2] = w => i \in {n + 1, n + 2, n + 3, n + 4}
    PROVE  BarOf(w, t, r, h, b, due)
<1>1. BarOrder(w, r, h)
  <2>1. SUFFICES ASSUME NEW i \in 1..Len(r), r[i][2] = w
                 PROVE  IF r[i][1] = "toplevel"
                        THEN \A j \in 1..Len(r) : j < i => r[j][2] # w
                        ELSE \E j \in 1..Len(r) : j < i /\ Gets(r, j, w, "toplevel")
    BY DEF BarOrder
  <2>2. CASE i = n + 1
    <3>1. r[i][1] = "toplevel"
      BY <2>2 DEF Gets
    <3>2. \A j \in 1..Len(r) : j < i => r[j][2] # w
      BY <2>2
    <3>3. QED
      BY <3>1, <3>2
  <2>3. CASE i # n + 1
    <3>1. r[i][1] # "toplevel" /\ n + 1 < i
      BY <2>1, <2>3 DEF Gets
    <3>2. QED
      BY <3>1
  <2>4. QED
    BY <2>2, <2>3
<1>2. \A i \in 1..Len(r) : ~Gets(r, i, w, "closed")
  BY DEF Gets
<1>3. BarEnd(w, r)
  BY <1>2 DEF BarEnd
<1>4. Known(w, r, h)
  BY DEF Known
<1>5. BarLife(w, t, r, h)
  BY <1>2, <1>4 DEF BarLife, Lives
<1>6. BarTitle(w, t, r, h)
  <2>1. \A j \in 1..Len(r) : Gets(r, j, w, "title") => j = n + 2
    BY DEF Gets
  <2>2. QED
    BY <2>1 DEF BarTitle
<1>7. BarState(w, t, r, h)
  <2>1. \A j \in 1..Len(r) : Gets(r, j, w, "state") => j = n + 3
    BY DEF Gets
  <2>2. QED
    BY <2>1 DEF BarState
<1>8. BarDone(w, r, h, b)
  <2>1. \A j \in 1..Len(r) : n + 4 < j => r[j][2] # w
    OBVIOUS
  <2>2. QED
    BY <2>1 DEF BarDone
<1>9. QED
  BY <1>1, <1>3, <1>5, <1>6, <1>7, <1>8 DEF BarOf

\* The shell comes.
LEMMA BarStarts ==
    ASSUME BarInv, Bar!ShellStarts
    PROVE  BarInv'
<1>1. /\ ~listening /\ listening' = TRUE
      /\ UNCHANGED <<tops, dirty, handles, buttons, asked>>
  BY DEF Bar!ShellStarts
<1>2. PICK order \in Bar!Orders({w \in Bar!Windows : Bar!Alive(w)}) :
          wire' = [i \in 1..(4 * Len(order)) |->
                       Bar!Introduced(order[((i - 1) \div 4) + 1])[((i - 1) % 4) + 1]]
  BY Zenon DEF Bar!ShellStarts
<1> DEFINE n == Len(order)
           r == wire'
<1>3. /\ n \in Nat /\ r \in Seq(BarEvent) /\ Len(r) = 4 * n
      /\ \A p, q \in 1..n : order[p] = order[q] => p = q
      /\ \A p \in 1..n : order[p] \in Bar!Windows /\ Lives(tops[order[p]])
      /\ \A w \in Bar!Windows : Lives(tops[w]) => \E p \in 1..n : order[p] = w
      /\ \A i \in 1..Len(r) : \E p \in 1..n, k \in {1, 2, 3, 4} : i = 4 * (p - 1) + k
      /\ \A p \in 1..n, k \in {1, 2, 3, 4} :
             /\ 4 * (p - 1) + k \in 1..Len(r)
             /\ r[4 * (p - 1) + k] = Bar!Introduced(order[p])[k]
  BY <1>2, BarStartsWith, Zenon
<1>4. DOMAIN handles = {} /\ dirty = {}
  BY <1>1 DEF BarInv
<1> HIDE DEF n, r
<1>5. ASSUME NEW v, NEW k \in {1, 2, 3, 4}
      PROVE  /\ Bar!Introduced(v)[k][2] = v
             /\ Bar!Introduced(v)[1][1] = "toplevel"
             /\ Bar!Introduced(v)[2][1] = "title" /\ Bar!Introduced(v)[2][3] = tops[v].title
             /\ Bar!Introduced(v)[3][1] = "state"
             /\ Bar!Introduced(v)[3][3] = Bar!StateOf(tops[v])
             /\ Bar!Introduced(v)[4][1] = "done"
  <2>1. /\ Bar!Introduced(v)[1] = <<"toplevel", v>>
        /\ Bar!Introduced(v)[2] = <<"title", v, tops[v].title>>
        /\ Bar!Introduced(v)[3] = <<"state", v, Bar!StateOf(tops[v])>>
        /\ Bar!Introduced(v)[4] = <<"done", v>>
    BY DEF Bar!Introduced
  <2>2. QED
    BY <2>1
<1>6. ASSUME NEW w \in Bar!Windows
      PROVE  BarOf(w, tops[w], r, handles, buttons, dirty)
  <2>1. CASE Lives(tops[w])
    <3>1. PICK p \in 1..n : order[p] = w
      BY <1>3, <2>1
    <3> DEFINE m == 4 * (p - 1)
    <3>2. m \in Nat /\ Len(r) \in Nat
      BY <1>3
    <3>3. \A k \in {1, 2, 3, 4} : m + k \in 1..Len(r) /\ r[m + k] = Bar!Introduced(w)[k]
      BY <1>3, <3>1
    <3>4. ASSUME NEW i \in 1..Len(r), r[i][2] = w PROVE i \in {m + 1, m + 2, m + 3, m + 4}
      <4>1. PICK q \in 1..n, k \in {1, 2, 3, 4} : i = 4 * (q - 1) + k
        BY <1>3
      <4>2. r[i] = Bar!Introduced(order[q])[k]
        BY <1>3, <4>1
      <4>3. order[q] = w
        BY <1>5, <3>4, <4>2
      <4>4. q = p
        BY <1>3, <3>1, <4>1, <4>3
      <4>5. QED
        BY <4>1, <4>4
    <3> HIDE DEF m
    <3>5. /\ m + 1 \in 1..Len(r) /\ r[m + 1] = Bar!Introduced(w)[1]
          /\ m + 2 \in 1..Len(r) /\ r[m + 2] = Bar!Introduced(w)[2]
          /\ m + 3 \in 1..Len(r) /\ r[m + 3] = Bar!Introduced(w)[3]
          /\ m + 4 \in 1..Len(r) /\ r[m + 4] = Bar!Introduced(w)[4]
      BY <3>3
    <3>6. /\ Gets(r, m + 1, w, "toplevel")
          /\ Gets(r, m + 2, w, "title") /\ r[m + 2][3] = tops[w].title
          /\ Gets(r, m + 3, w, "state") /\ r[m + 3][3] = Bar!StateOf(tops[w])
          /\ Gets(r, m + 4, w, "done")
      BY <1>5, <3>5 DEF Gets
    <3>7. QED
      BY <1>4, <2>1, <3>2, <3>4, <3>5, <3>6, IntroducedIsKept
  <2>2. CASE ~Lives(tops[w])
    <3>1. ASSUME NEW i \in 1..Len(r), r[i][2] = w PROVE FALSE
      <4>1. PICK q \in 1..n, k \in {1, 2, 3, 4} : i = 4 * (q - 1) + k
        BY <1>3
      <4>2. r[i] = Bar!Introduced(order[q])[k]
        BY <1>3, <4>1
      <4>3. order[q] = w
        BY <1>5, <3>1, <4>2
      <4>4. QED
        BY <1>3, <2>2, <4>3
    <3>2. QED
      BY <1>4, <2>2, <3>1 DEF BarOf, BarOrder, BarEnd, BarLife, Known, Gets
  <2>3. QED
    BY <2>1, <2>2
<1>7. BarKept(tops', wire', handles', buttons', dirty')
  BY <1>1, <1>6 DEF BarKept, r
<1>8. wire' \in Seq(BarEvent)
  BY <1>3 DEF r
<1>9. QED
  BY <1>1, <1>4, <1>7, <1>8 DEF BarInv, BarTyped

\* An event about another window.
LEMMA PopOther ==
    ASSUME NEW E, NEW s \in Seq(E), s # <<>>, NEW w, NEW t, NEW h, NEW g, NEW b, NEW c, NEW due,
           BarOf(w, t, s, h, b, due), s[1][2] # w,
           w \in DOMAIN g <=> w \in DOMAIN h, w \in DOMAIN h => g[w] = h[w] /\ c[w] = b[w]
    PROVE  BarOf(w, t, Tail(s), g, c, due)
<1>1. ~Gets(s, 1, w, "title") /\ ~Gets(s, 1, w, "state")
  BY DEF Gets
<1>2. BarOrder(w, Tail(s), g) /\ BarEnd(w, Tail(s))
  BY PopOrder DEF BarOf
<1>3. BarLife(w, t, Tail(s), g)
  BY PopLife DEF BarOf
<1>4. Lives(t) => BarTitle(w, t, Tail(s), g)
  BY <1>1, PopTitle DEF BarOf
<1>5. Lives(t) => BarState(w, t, Tail(s), g)
  BY <1>1, PopState DEF BarOf
<1>6. Lives(t) /\ w \notin due => BarDone(w, Tail(s), g, c)
  <2>1. SUFFICES ASSUME Lives(t), w \notin due PROVE BarDone(w, Tail(s), g, c)
    OBVIOUS
  <2>2. BarDone(w, s, h, b)
    BY <2>1 DEF BarOf
  <2>3. CASE w \in DOMAIN h
    BY <2>2, <2>3, PopDone
  <2>4. CASE w \notin DOMAIN h
    <3>1. PICK i \in 1..Len(s) : Gets(s, i, w, "done") /\ \A j \in 1..Len(s) : i < j => s[j][2] # w
      BY <2>2, <2>4 DEF BarDone
    <3>2. i - 1 \in 1..Len(Tail(s)) /\ Gets(Tail(s), i - 1, w, "done")
      BY <3>1, TailPlaces DEF Gets
    <3>3. \A j \in 1..Len(Tail(s)) : i - 1 < j => Tail(s)[j][2] # w
      <4>1. SUFFICES ASSUME NEW j \in 1..Len(Tail(s)), i - 1 < j PROVE Tail(s)[j][2] # w
        OBVIOUS
      <4>2. j + 1 \in 1..Len(s) /\ i < j + 1 /\ Tail(s)[j] = s[j + 1]
        BY <3>1, <4>1, TailPlaces
      <4>3. QED
        BY <3>1, <4>2
    <3>4. QED
      BY <3>2, <3>3 DEF BarDone
  <2>5. QED
    BY <2>3, <2>4
<1>7. QED
  BY <1>2, <1>3, <1>4, <1>5, <1>6 DEF BarOf

\* An event about the window.
LEMMA PopOwn ==
    ASSUME NEW E, NEW s \in Seq(E), s # <<>>, NEW w, NEW t, NEW h, NEW g, NEW b, NEW c, NEW due,
           BarOf(w, t, s, h, b, due), s[1][2] = w,
           \/ s[1][1] = "toplevel" /\ w \in DOMAIN g
           \/ /\ s[1][1] = "title" /\ (w \in DOMAIN g <=> w \in DOMAIN h)
              /\ w \in DOMAIN h => g[w].title = s[1][3] /\ Bar!StateOf(g[w]) = Bar!StateOf(h[w])
           \/ /\ s[1][1] = "state" /\ (w \in DOMAIN g <=> w \in DOMAIN h)
              /\ w \in DOMAIN h => g[w].title = h[w].title /\ Bar!StateOf(g[w]) = s[1][3]
           \/ /\ s[1][1] = "done" /\ (w \in DOMAIN g <=> w \in DOMAIN h)
              /\ w \in DOMAIN h => g[w] = h[w] /\ c[w] = Bar!UpdateFromHandle(g[w])
           \/ s[1][1] = "closed" /\ w \notin DOMAIN g
    PROVE  BarOf(w, t, Tail(s), g, c, due)
<1>1. IF s[1][1] = "toplevel" THEN w \notin DOMAIN h ELSE w \in DOMAIN h
  BY HeadIsKnown DEF BarOf
<1>2. BarOrder(w, Tail(s), g) /\ BarEnd(w, Tail(s))
  BY PopOrder DEF BarOf, Gets
<1>3. BarLife(w, t, Tail(s), g)
  BY PopLife DEF BarOf, Gets
<1>4. CASE s[1][1] = "closed"
  <2>1. ~Lives(t)
    BY <1>4, TailPlaces DEF BarOf, BarLife, Gets
  <2>2. QED
    BY <1>2, <1>3, <2>1 DEF BarOf
<1>5. CASE s[1][1] # "closed"
  <2>1. w \in DOMAIN g
    BY <1>1, <1>5
  <2>2. Lives(t) => BarTitle(w, t, Tail(s), g)
    BY <1>1, <1>5, <2>1, PopTitle DEF BarOf, Gets
  <2>3. Lives(t) => BarState(w, t, Tail(s), g)
    BY <1>1, <1>5, <2>1, PopState DEF BarOf, Gets
  <2>4. Lives(t) /\ w \notin due => BarDone(w, Tail(s), g, c)
    BY <1>1, <1>5, <2>1, PopDone DEF BarOf, Gets
  <2>5. QED
    BY <1>2, <1>3, <2>2, <2>3, <2>4 DEF BarOf
<1>6. QED
  BY <1>4, <1>5

\* The shell takes the first event.
LEMMA BarTakes ==
    ASSUME BarInv, NEW kind, Bar!Arrives(kind)
    PROVE  /\ wire \in Seq(BarEvent) /\ wire # <<>> /\ wire' = Tail(wire) /\ wire' \in Seq(BarEvent)
           /\ wire[1] \in BarEvent /\ wire[1][1] = kind /\ Bar!About = wire[1][2]
           /\ Head(wire) = wire[1] /\ listening
           /\ UNCHANGED <<tops, dirty, listening, asked>>
<1>1. /\ wire # <<>> /\ Head(wire)[1] = kind /\ wire' = Tail(wire)
      /\ UNCHANGED <<tops, dirty, listening, asked>>
  BY DEF Bar!Arrives
<1>2. wire \in Seq(BarEvent)
  BY DEF BarInv
<1>3. wire' \in Seq(BarEvent) /\ Head(wire) = wire[1] /\ 1 \in 1..Len(wire)
  BY <1>1, <1>2, TailPlaces
<1>4. wire[1] \in BarEvent
  BY <1>2, <1>3, ElementOfSeq
<1>5. QED
  BY <1>1, <1>2, <1>3, <1>4 DEF BarInv, Bar!About

\* Once an event is handled, the mirror of every window has the shape it needs.
LEMMA BarTaken ==
    ASSUME BarInv, NEW kind, Bar!Arrives(kind),
           DOMAIN buttons' = DOMAIN handles', DOMAIN handles' \subseteq Bar!Windows,
           \A w \in DOMAIN handles' : handles'[w] \in BarHandle,
           \A w \in Bar!Windows :
               BarOf(w, tops[w], wire, handles, buttons, dirty) =>
                   BarOf(w, tops[w], Tail(wire), handles', buttons', dirty)
    PROVE  BarInv'
<1>1. /\ wire' = Tail(wire) /\ wire' \in Seq(BarEvent) /\ listening
      /\ UNCHANGED <<tops, dirty, listening, asked>>
  BY BarTakes
<1>2. BarKept(tops', wire', handles', buttons', dirty')
  BY <1>1 DEF BarKept, BarInv
<1>3. QED
  BY <1>1, <1>2 DEF BarInv, BarTyped

\* A handle, and its button, are made.
LEMMA BarToplevel ==
    ASSUME BarInv, Bar!ManagerToplevel
    PROVE  BarInv'
<1> DEFINE v == wire[1][2]
<1>1. Bar!Arrives("toplevel")
  BY DEF Bar!ManagerToplevel
<1>2. /\ wire \in Seq(BarEvent) /\ wire # <<>> /\ wire[1] \in BarEvent
      /\ wire[1][1] = "toplevel" /\ Bar!About = v
  BY <1>1, BarTakes
<1>3. v \in Bar!Windows
  BY <1>2, EventFacts
<1>4. /\ handles' = Bar!With(handles, v, Bar!NoHandle)
      /\ buttons' = Bar!With(buttons, v, Bar!UpdateFromHandle(Bar!NoHandle))
  BY <1>2 DEF Bar!ManagerToplevel
<1> HIDE DEF v
<1>5. /\ DOMAIN handles' = DOMAIN handles \union {v} /\ DOMAIN buttons' = DOMAIN buttons \union {v}
      /\ handles'[v] = Bar!NoHandle
      /\ \A w \in DOMAIN handles : w # v => handles'[w] = handles[w]
      /\ \A w \in DOMAIN buttons : w # v => buttons'[w] = buttons[w]
  BY <1>4 DEF Bar!With
<1>6. Bar!NoHandle \in BarHandle
  BY DEF Bar!NoHandle, BarHandle, BarTitles
<1>7. /\ DOMAIN buttons' = DOMAIN handles' /\ DOMAIN handles' \subseteq Bar!Windows
      /\ \A w \in DOMAIN handles' : handles'[w] \in BarHandle
  BY <1>3, <1>5, <1>6 DEF BarInv, BarTyped
<1>8. ASSUME NEW w \in Bar!Windows, BarOf(w, tops[w], wire, handles, buttons, dirty)
      PROVE  BarOf(w, tops[w], Tail(wire), handles', buttons', dirty)
  <2>1. CASE w = v
    BY <1>2, <1>5, <1>8, <2>1, PopOwn DEF v
  <2>2. CASE w # v
    <3>1. /\ wire[1][2] # w /\ (w \in DOMAIN handles' <=> w \in DOMAIN handles)
          /\ w \in DOMAIN handles => handles'[w] = handles[w] /\ buttons'[w] = buttons[w]
      BY <1>5, <2>2 DEF v, BarInv
    <3>2. QED
      BY <1>2, <1>8, <3>1, PopOther
  <2>3. QED
    BY <2>1, <2>2
<1>9. QED
  BY <1>1, <1>7, <1>8, BarTaken

\* A title arrives.
LEMMA BarOnTitle ==
    ASSUME BarInv, Bar!OnTitle
    PROVE  BarInv'
<1> DEFINE v == wire[1][2]
           t == wire[1][3]
<1>1. Bar!Arrives("title")
  BY DEF Bar!OnTitle
<1>2. /\ wire \in Seq(BarEvent) /\ wire # <<>> /\ wire[1] \in BarEvent
      /\ wire[1][1] = "title" /\ Bar!About = v /\ Head(wire) = wire[1]
  BY <1>1, BarTakes
<1>3. t \in BarTitles
  BY <1>2, EventFacts
<1>4. handles' = [handles EXCEPT ![v].title = t] /\ buttons' = buttons
  BY <1>2 DEF Bar!OnTitle
<1> HIDE DEF v, t
<1> DEFINE u == [handles[v] EXCEPT !.title = t]
<1>5. /\ DOMAIN handles' = DOMAIN handles
      /\ v \in DOMAIN handles => handles'[v] = u
      /\ \A w \in DOMAIN handles : w # v => handles'[w] = handles[w]
  BY <1>4
<1>6. ASSUME v \in DOMAIN handles PROVE u \in BarHandle
  <2>1. handles[v] \in BarHandle
    BY <1>6 DEF BarInv, BarTyped
  <2>2. QED
    BY <1>3, <2>1 DEF BarHandle
<1>7. ASSUME v \in DOMAIN handles PROVE u.title = t /\ Bar!StateOf(u) = Bar!StateOf(handles[v])
  <2>1. handles[v] \in BarHandle
    BY <1>7 DEF BarInv, BarTyped
  <2>2. u.title = t /\ u.activated = handles[v].activated /\ u.minimized = handles[v].minimized
    BY <2>1 DEF BarHandle
  <2> HIDE DEF u
  <2>3. QED
    BY <2>2, SameState
<1> HIDE DEF u
<1>8. /\ DOMAIN buttons' = DOMAIN handles' /\ DOMAIN handles' \subseteq Bar!Windows
      /\ \A w \in DOMAIN handles' : handles'[w] \in BarHandle
  BY <1>4, <1>5, <1>6 DEF BarInv, BarTyped
<1>9. ASSUME NEW w \in Bar!Windows, BarOf(w, tops[w], wire, handles, buttons, dirty)
      PROVE  BarOf(w, tops[w], Tail(wire), handles', buttons', dirty)
  <2>1. CASE w = v
    <3>1. /\ wire[1][2] = w /\ wire[1][1] = "title"
          /\ w \in DOMAIN handles' <=> w \in DOMAIN handles
          /\ w \in DOMAIN handles => /\ handles'[w].title = wire[1][3]
                                     /\ Bar!StateOf(handles'[w]) = Bar!StateOf(handles[w])
      BY <1>2, <1>5, <1>7, <2>1 DEF v, t
    <3>2. QED
      BY <1>2, <1>9, <3>1, PopOwn
  <2>2. CASE w # v
    <3>1. /\ wire[1][2] # w /\ (w \in DOMAIN handles' <=> w \in DOMAIN handles)
          /\ w \in DOMAIN handles => handles'[w] = handles[w] /\ buttons'[w] = buttons[w]
      BY <1>4, <1>5, <2>2 DEF v, BarInv
    <3>2. QED
      BY <1>2, <1>9, <3>1, PopOther
  <2>3. QED
    BY <2>1, <2>2
<1>10. QED
  BY <1>1, <1>8, <1>9, BarTaken

\* A state arrives.
LEMMA BarOnState ==
    ASSUME BarInv, Bar!OnState
    PROVE  BarInv'
<1> DEFINE v == wire[1][2]
           z == wire[1][3]
<1>1. Bar!Arrives("state")
  BY DEF Bar!OnState
<1>2. /\ wire \in Seq(BarEvent) /\ wire # <<>> /\ wire[1] \in BarEvent
      /\ wire[1][1] = "state" /\ Bar!About = v /\ Head(wire) = wire[1]
  BY <1>1, BarTakes
<1>3. z \in BarStates
  BY <1>2, EventFacts
<1>4. handles' = [handles EXCEPT ![v] = Bar!StateRead(@, z)] /\ buttons' = buttons
  BY <1>2 DEF Bar!OnState
<1> HIDE DEF v, z
<1> DEFINE u == Bar!StateRead(handles[v], z)
<1>5. /\ DOMAIN handles' = DOMAIN handles
      /\ v \in DOMAIN handles => handles'[v] = u
      /\ \A w \in DOMAIN handles : w # v => handles'[w] = handles[w]
  BY <1>4
<1>6. ASSUME v \in DOMAIN handles
      PROVE  u \in BarHandle /\ u.title = handles[v].title /\ Bar!StateOf(u) = z
  <2> DEFINE lights == "activated" \in z
             hides == "minimized" \in z
  <2>1. handles[v] \in BarHandle
    BY <1>6 DEF BarInv, BarTyped
  <2>2. u = [handles[v] EXCEPT !.activated = lights, !.minimized = hides]
    BY DEF Bar!StateRead
  <2>3. lights \in BOOLEAN /\ hides \in BOOLEAN
    OBVIOUS
  <2> HIDE DEF lights, hides, u
  <2>4. u \in BarHandle
    BY <2>1, <2>2, <2>3 DEF BarHandle
  <2>5. u.title = handles[v].title /\ u.activated = lights /\ u.minimized = hides
    BY <2>1, <2>2 DEF BarHandle
  <2>6. /\ Bar!StateOf(u) \in BarStates
        /\ "activated" \in Bar!StateOf(u) <=> lights
        /\ "minimized" \in Bar!StateOf(u) <=> hides
    BY <2>3, <2>5, StateIs
  <2>7. Bar!StateOf(u) = z
    <3>1. \A s : s \in Bar!StateOf(u) => s = "activated" \/ s = "minimized"
      BY <2>6 DEF BarStates
    <3>2. \A s : s \in z => s = "activated" \/ s = "minimized"
      BY <1>3 DEF BarStates
    <3>3. \A s : s \in Bar!StateOf(u) <=> s \in z
      BY <2>6, <3>1, <3>2 DEF lights, hides
    <3>4. QED
      BY <3>3
  <2>8. QED
    BY <2>4, <2>5, <2>7
<1> HIDE DEF u
<1>8. /\ DOMAIN buttons' = DOMAIN handles' /\ DOMAIN handles' \subseteq Bar!Windows
      /\ \A w \in DOMAIN handles' : handles'[w] \in BarHandle
  BY <1>4, <1>5, <1>6 DEF BarInv, BarTyped
<1>9. ASSUME NEW w \in Bar!Windows, BarOf(w, tops[w], wire, handles, buttons, dirty)
      PROVE  BarOf(w, tops[w], Tail(wire), handles', buttons', dirty)
  <2>1. CASE w = v
    <3>1. /\ wire[1][2] = w /\ wire[1][1] = "state"
          /\ w \in DOMAIN handles' <=> w \in DOMAIN handles
          /\ w \in DOMAIN handles => /\ handles'[w].title = handles[w].title
                                     /\ Bar!StateOf(handles'[w]) = wire[1][3]
      BY <1>2, <1>5, <1>6, <2>1 DEF v, z
    <3>2. QED
      BY <1>2, <1>9, <3>1, PopOwn
  <2>2. CASE w # v
    <3>1. /\ wire[1][2] # w /\ (w \in DOMAIN handles' <=> w \in DOMAIN handles)
          /\ w \in DOMAIN handles => handles'[w] = handles[w] /\ buttons'[w] = buttons[w]
      BY <1>4, <1>5, <2>2 DEF v, BarInv
    <3>2. QED
      BY <1>2, <1>9, <3>1, PopOther
  <2>3. QED
    BY <2>1, <2>2
<1>10. QED
  BY <1>1, <1>8, <1>9, BarTaken

\* The button is drawn.
LEMMA BarOnDone ==
    ASSUME BarInv, Bar!OnDone
    PROVE  BarInv'
<1> DEFINE v == wire[1][2]
<1>1. Bar!Arrives("done")
  BY DEF Bar!OnDone
<1>2. /\ wire \in Seq(BarEvent) /\ wire # <<>> /\ wire[1] \in BarEvent
      /\ wire[1][1] = "done" /\ Bar!About = v
  BY <1>1, BarTakes
<1>4. handles' = handles
      /\ buttons' = [buttons EXCEPT ![v] = Bar!UpdateFromHandle(handles[v])]
  BY <1>2 DEF Bar!OnDone
<1> HIDE DEF v
<1>5. /\ DOMAIN buttons' = DOMAIN buttons
      /\ v \in DOMAIN buttons => buttons'[v] = Bar!UpdateFromHandle(handles[v])
      /\ \A w \in DOMAIN buttons : w # v => buttons'[w] = buttons[w]
  BY <1>4
<1>8. /\ DOMAIN buttons' = DOMAIN handles' /\ DOMAIN handles' \subseteq Bar!Windows
      /\ \A w \in DOMAIN handles' : handles'[w] \in BarHandle
  BY <1>4, <1>5 DEF BarInv, BarTyped
<1>9. ASSUME NEW w \in Bar!Windows, BarOf(w, tops[w], wire, handles, buttons, dirty)
      PROVE  BarOf(w, tops[w], Tail(wire), handles', buttons', dirty)
  <2>1. CASE w = v
    <3>1. /\ wire[1][2] = w /\ wire[1][1] = "done"
          /\ w \in DOMAIN handles' <=> w \in DOMAIN handles
          /\ w \in DOMAIN handles => /\ handles'[w] = handles[w]
                                     /\ buttons'[w] = Bar!UpdateFromHandle(handles'[w])
      BY <1>2, <1>4, <1>5, <2>1 DEF v, BarInv
    <3>2. QED
      BY <1>2, <1>9, <3>1, PopOwn
  <2>2. CASE w # v
    <3>1. /\ wire[1][2] # w /\ (w \in DOMAIN handles' <=> w \in DOMAIN handles)
          /\ w \in DOMAIN handles => handles'[w] = handles[w] /\ buttons'[w] = buttons[w]
      BY <1>4, <1>5, <2>2 DEF v, BarInv
    <3>2. QED
      BY <1>2, <1>9, <3>1, PopOther
  <2>3. QED
    BY <2>1, <2>2
<1>10. QED
  BY <1>1, <1>8, <1>9, BarTaken

\* The handle and the button go.
LEMMA BarOnClosed ==
    ASSUME BarInv, Bar!OnClosed
    PROVE  BarInv'
<1> DEFINE v == wire[1][2]
<1>1. Bar!Arrives("closed")
  BY DEF Bar!OnClosed
<1>2. /\ wire \in Seq(BarEvent) /\ wire # <<>> /\ wire[1] \in BarEvent
      /\ wire[1][1] = "closed" /\ Bar!About = v
  BY <1>1, BarTakes
<1>4. handles' = Bar!Without(handles, v) /\ buttons' = Bar!Without(buttons, v)
  BY <1>2 DEF Bar!OnClosed
<1> HIDE DEF v
<1>5. /\ DOMAIN handles' = DOMAIN handles \ {v} /\ DOMAIN buttons' = DOMAIN buttons \ {v}
      /\ \A w \in DOMAIN handles : w # v => handles'[w] = handles[w]
      /\ \A w \in DOMAIN buttons : w # v => buttons'[w] = buttons[w]
  BY <1>4 DEF Bar!Without
<1>8. /\ DOMAIN buttons' = DOMAIN handles' /\ DOMAIN handles' \subseteq Bar!Windows
      /\ \A w \in DOMAIN handles' : handles'[w] \in BarHandle
  BY <1>5 DEF BarInv, BarTyped
<1>9. ASSUME NEW w \in Bar!Windows, BarOf(w, tops[w], wire, handles, buttons, dirty)
      PROVE  BarOf(w, tops[w], Tail(wire), handles', buttons', dirty)
  <2>1. CASE w = v
    <3>1. wire[1][2] = w /\ wire[1][1] = "closed" /\ w \notin DOMAIN handles'
      BY <1>2, <1>5, <2>1 DEF v
    <3>2. QED
      BY <1>2, <1>9, <3>1, PopOwn
  <2>2. CASE w # v
    <3>1. /\ wire[1][2] # w /\ (w \in DOMAIN handles' <=> w \in DOMAIN handles)
          /\ w \in DOMAIN handles => handles'[w] = handles[w] /\ buttons'[w] = buttons[w]
      BY <1>5, <2>2 DEF v, BarInv
    <3>2. QED
      BY <1>2, <1>9, <3>1, PopOther
  <2>3. QED
    BY <2>1, <2>2
<1>10. QED
  BY <1>1, <1>8, <1>9, BarTaken

\* The invariant holds.
LEMMA BarInvHolds == Spec => []BarInv
<1>1. Init => BarInv
  <2> SUFFICES ASSUME Init PROVE BarInv
    OBVIOUS
  <2>1. /\ tops = [w \in Bar!Windows |-> Bar!NotYet] /\ dirty = {} /\ wire = <<>>
        /\ asked = <<>> /\ listening = FALSE /\ handles = <<>> /\ buttons = <<>>
    BY DEF Init, Bar!Init
  <2>2. Bar!NotYet \in BarTop /\ ~Bar!NotYet.activated /\ ~Bar!NotYet.minimized
    BY DEF Bar!NotYet, BarTop, BarTitles
  <2>3. DOMAIN handles = {} /\ DOMAIN buttons = {}
    BY <2>1
  <2>4. BarTyped(tops, handles)
    BY <2>1, <2>2, <2>3 DEF BarTyped
  <2>5. wire \in Seq(BarEvent) /\ asked \in Seq(Bar!Windows)
    BY <2>1
  <2>6. QED
    BY <2>1, <2>3, <2>4, <2>5 DEF BarInv
<1>2. BarInv /\ [Next]_vars => BarInv'
  <2> SUFFICES ASSUME BarInv, [Next]_vars PROVE BarInv'
    OBVIOUS
  <2>1. [Bar!Next]_taskbarVars
    BY BarAlone
  <2>2. ASSUME NEW w \in Bar!Windows, NEW t \in Titles \union {Blank},
               Bar!CreateForeignToplevel(w, t) \/ Bar!SetTitle(w, t)
        PROVE  BarInv'
    BY <2>2, BarCreates, BarRetitles DEF BarTitles
  <2>3. ASSUME NEW w \in Bar!Windows,
               \/ Bar!Map(w) \/ Bar!SetMinimized(w) \/ Bar!DestroyForeignToplevel(w)
               \/ Bar!SendDone(w) \/ Bar!Click(w)
        PROVE  BarInv'
    BY <2>3, BarMaps, BarMinimizes, BarDestroys, BarSettles, BarClicks
  <2>4. CASE Bar!HandleFtlActivate
    BY <2>4, BarActivates
  <2>5. CASE Bar!ShellStarts
    BY <2>5, BarStarts
  <2>6. CASE Bar!ShellStops
    BY <2>6, BarStops
  <2>7. CASE Bar!ManagerToplevel
    BY <2>7, BarToplevel
  <2>8. CASE Bar!OnTitle
    BY <2>8, BarOnTitle
  <2>9. CASE Bar!OnState
    BY <2>9, BarOnState
  <2>10. CASE Bar!OnDone
    BY <2>10, BarOnDone
  <2>11. CASE Bar!OnClosed
    BY <2>11, BarOnClosed
  <2>12. CASE UNCHANGED taskbarVars
    BY <2>12 DEF taskbarVars, BarInv, BarTyped, BarKept
  <2>13. QED
    BY <2>1, <2>2, <2>3, <2>4, <2>5, <2>6, <2>7, <2>8, <2>9, <2>10, <2>11, <2>12 DEF Bar!Next
<1>3. QED
  BY <1>1, <1>2, PTL DEF Spec

\* With every event arrived, the taskbar shows the windows that exist, each with its
\* title and the active one lit, for any number of windows and any events under way.
THEOREM TaskbarStaysCurrent == Spec => []TaskbarIsCurrent
<1>1. BarInv => TaskbarIsCurrent
  <2> SUFFICES ASSUME BarInv, listening, wire = <<>>, dirty = {}
               PROVE  /\ DOMAIN buttons = {w \in Bar!Windows : Bar!Alive(w)}
                      /\ \A w \in DOMAIN buttons :
                             buttons[w] = [label |-> tops[w].title, lit |-> tops[w].activated]
    BY DEF TaskbarIsCurrent, Bar!TaskbarIsCurrent
  <2>1. \A i \in 1..Len(wire) : FALSE
    OBVIOUS
  <2>2. ASSUME NEW w \in Bar!Windows
        PROVE  /\ w \in DOMAIN handles <=> Bar!Alive(w)
               /\ Bar!Alive(w) =>
                      buttons[w] = [label |-> tops[w].title, lit |-> tops[w].activated]
    <3>1. BarOf(w, tops[w], wire, handles, buttons, dirty)
      BY DEF BarInv, BarKept
    <3>2. w \in DOMAIN handles <=> Bar!Alive(w)
      BY <2>1, <3>1 DEF BarOf, BarLife, Known, Lives, Bar!Alive
    <3>3. ASSUME Bar!Alive(w)
          PROVE  buttons[w] = [label |-> tops[w].title, lit |-> tops[w].activated]
      <4>1. BarTitle(w, tops[w], wire, handles) /\ BarState(w, tops[w], wire, handles)
            /\ BarDone(w, wire, handles, buttons)
        BY <3>1, <3>3 DEF BarOf, Lives, Bar!Alive
      <4>2. /\ handles[w].title = tops[w].title /\ Bar!StateOf(handles[w]) = Bar!StateOf(tops[w])
            /\ buttons[w] = Bar!UpdateFromHandle(handles[w])
        BY <2>1, <4>1 DEF BarTitle, BarState, BarDone
      <4>3. handles[w] \in BarHandle /\ tops[w] \in BarTop
        BY <3>2, <3>3 DEF BarInv, BarTyped
      <4>4. /\ handles[w].activated \in BOOLEAN /\ handles[w].minimized \in BOOLEAN
            /\ tops[w].activated \in BOOLEAN /\ tops[w].minimized \in BOOLEAN
        BY <4>3 DEF BarHandle, BarTop
      <4>5. handles[w].activated <=> tops[w].activated
        BY <4>2, <4>4, StateIs
      <4>6. handles[w].activated = tops[w].activated
        BY <4>4, <4>5
      <4>7. QED
        BY <4>2, <4>6 DEF Bar!UpdateFromHandle
    <3>4. QED
      BY <3>2, <3>3
  <2>3. DOMAIN buttons = DOMAIN handles /\ DOMAIN handles \subseteq Bar!Windows
    BY DEF BarInv, BarTyped
  <2>4. QED
    BY <2>2, <2>3
<1>2. QED
  BY <1>1, BarInvHolds, PTL

-----------------------------------------------------------------------------
(* ConfigReaders: texts of any length, and every minute of a day.          *)

\* What a modifier is: the names that stand for one.
ModifierNames == DOMAIN Readers!ModFlag
ModState == [ok : BOOLEAN, mods : SUBSET {Readers!ModFlag[x] : x \in ModifierNames}, names : {{}}]
ModStart == [ok |-> TRUE, mods |-> {}, names |-> {}]

\* One turn of the loop keeps the form of what it has read.
LEMMA AddModifierTyped ==
    ASSUME NEW acc \in ModState, NEW name
    PROVE  Readers!AddModifier(acc, name) \in ModState
BY DEF ModState, Readers!AddModifier, ModifierNames

\* The loop, turn by turn.
Turns(f, parts) ==
    /\ f[0] = ModStart
    /\ \A n \in 1..(Len(parts) - 1) : f[n] = Readers!AddModifier(f[n - 1], parts[n])
    /\ \A n \in 0..(Len(parts) - 1) : f[n] \in ModState

\* The loop ends, with a turn for each part but the last.
LEMMA ModifiersAre ==
    ASSUME NEW parts, Len(parts) \in Nat, Len(parts) >= 2
    PROVE  Turns(Readers!Modifiers(parts), parts)
<1> DEFINE m == Len(parts) - 1
           F == [x \in ModState \X (1..m) |-> Readers!AddModifier(x[1], parts[x[2]])]
           Read(f) == f = [n \in 0..m |->
                          IF n = 0 THEN [ok |-> TRUE, mods |-> {}, names |-> {}]
                                   ELSE Readers!AddModifier(f[n - 1], parts[n])]
<1>1. m \in Nat /\ 0 \in 0..m /\ \A n \in 1..m : n \in 0..m /\ n - 1 \in 0..m /\ n # 0
  OBVIOUS
<1>2. ModStart \in ModState
  BY DEF ModStart, ModState
<1>3. F \in [ModState \X (1..m) -> ModState]
  BY AddModifierTyped
<1>4. \A a \in ModState, n \in 1..m : F[<<a, n>>] = Readers!AddModifier(a, parts[n])
  BY Zenon
<1> HIDE DEF F
<1>5. PICK g : Values(g, ModState, ModStart, m, F)
  <2> HIDE DEF m
  <2>1. QED
    BY <1>1, <1>2, <1>3, Computed, Zenon
<1>6. /\ g \in [0..m -> ModState] /\ g[0] = ModStart
      /\ \A n \in 1..m : g[n] = Readers!AddModifier(g[n - 1], parts[n])
  <2> HIDE DEF m
  <2>1. g \in [0..m -> ModState] /\ g[0] = ModStart /\ \A n \in 1..m : g[n] = F[<<g[n - 1], n>>]
    BY <1>5, Zenon DEF Values
  <2>2. \A n \in 1..m : g[n - 1] \in ModState
    BY <1>1, <2>1, Zenon
  <2>3. QED
    BY <1>4, <2>1, <2>2, Zenon
<1> DEFINE step(n) == IF n = 0 THEN ModStart ELSE Readers!AddModifier(g[n - 1], parts[n])
<1>7. Read(g)
  <2> HIDE DEF m
  <2>1. DOMAIN g = 0..m /\ g = [n \in 0..m |-> g[n]]
    BY <1>6
  <2>2. \A n \in 0..m : g[n] = step(n)
    <3>1. \A n \in 0..m : n = 0 \/ n \in 1..m
      BY <1>1
    <3>2. QED
      BY <1>1, <1>6, <3>1, Zenon
  <2> DEFINE h == [n \in 0..m |-> step(n)]
  <2>3. g = h
    <3> HIDE DEF step
    <3>1. QED
      BY <2>1, <2>2
  <2>4. QED
    BY <2>3, Zenon DEF ModStart
<1> DEFINE f == CHOOSE h : Read(h)
<1>8. Read(f)
  BY <1>7, Zenon
<1>9. Readers!Modifiers(parts) = f
  BY Zenon DEF Readers!Modifiers
<1> HIDE DEF f
<1>10. f[0] = ModStart /\ \A n \in 1..m : f[n] = Readers!AddModifier(f[n - 1], parts[n])
  <2> HIDE DEF m
  <2> DEFINE new(n) == IF n = 0 THEN ModStart ELSE Readers!AddModifier(f[n - 1], parts[n])
  <2>1. f = [n \in 0..m |-> new(n)]
    BY <1>8, Zenon DEF ModStart
  <2> HIDE DEF new
  <2>2. \A n \in 0..m : f[n] = new(n)
    BY <2>1
  <2>3. QED
    BY <1>1, <2>2, Zenon DEF new
<1>11. \A n \in 0..m : f[n] \in ModState
  <2>1. \A n \in 1..m : f[n - 1] \in ModState => f[n] \in ModState
    BY <1>10, AddModifierTyped, Zenon
  <2> HIDE DEF m
  <2>2. QED
    BY <1>1, <1>2, <1>10, <2>1, Reached, Zenon
<1>12. QED
  BY <1>9, <1>10, <1>11, Zenon DEF Turns

\* The first n parts are modifiers, all different.
AllModifiers(parts, n) ==
    /\ \A i \in 1..n : parts[i] \in ModifierNames
    /\ \A i, j \in 1..n : i # j => Readers!ModFlag[parts[i]] # Readers!ModFlag[parts[j]]

FlagsOf(parts, n) == {Readers!ModFlag[parts[i]] : i \in 1..n}

\* After n turns: whether all was well, and what was read.
TurnMeans(a, parts, n) ==
    /\ a.ok <=> AllModifiers(parts, n)
    /\ a.ok => a.mods = FlagsOf(parts, n)

\* One turn keeps that.
LEMMA TurnKeeps ==
    ASSUME NEW parts, NEW n \in Nat, NEW a \in ModState, TurnMeans(a, parts, n)
    PROVE  TurnMeans(Readers!AddModifier(a, parts[n + 1]), parts, n + 1)
<1> DEFINE name == parts[n + 1]
           new == Readers!AddModifier(a, name)
           fits == name \in ModifierNames /\ Readers!ModFlag[name] \notin FlagsOf(parts, n)
<1>1. \A i \in 1..(n + 1) : i = n + 1 \/ i \in 1..n
  OBVIOUS
<1>2. n + 1 \in 1..(n + 1) /\ n + 1 \notin 1..n /\ \A i \in 1..n : i \in 1..(n + 1)
  OBVIOUS
<1>3. AllModifiers(parts, n + 1) <=> AllModifiers(parts, n) /\ fits
  <2>1. ASSUME AllModifiers(parts, n), fits PROVE AllModifiers(parts, n + 1)
    <3>1. \A i \in 1..(n + 1) : parts[i] \in ModifierNames
      BY <1>1, <2>1, Zenon DEF AllModifiers
    <3>2. \A i \in 1..n : Readers!ModFlag[parts[i]] # Readers!ModFlag[parts[n + 1]]
      BY <2>1, Zenon DEF FlagsOf
    <3>3. ASSUME NEW i \in 1..(n + 1), NEW j \in 1..(n + 1), i # j
          PROVE  Readers!ModFlag[parts[i]] # Readers!ModFlag[parts[j]]
      BY <1>1, <2>1, <3>2, <3>3, Zenon DEF AllModifiers
    <3>4. QED
      BY <3>1, <3>3, Zenon DEF AllModifiers
  <2>2. ASSUME AllModifiers(parts, n + 1) PROVE AllModifiers(parts, n) /\ fits
    <3>1. AllModifiers(parts, n)
      BY <1>2, <2>2, Zenon DEF AllModifiers
    <3>2. \A i \in 1..n : i # n + 1
      BY <1>2, Zenon
    <3>3. fits
      BY <1>2, <2>2, <3>2, Zenon DEF AllModifiers, FlagsOf
    <3>4. QED
      BY <3>1, <3>3
  <2>3. QED
    BY <2>1, <2>2
<1>4. FlagsOf(parts, n + 1) = FlagsOf(parts, n) \union {Readers!ModFlag[name]}
  BY <1>1, <1>2, Zenon DEF FlagsOf
<1>5. CASE a.ok /\ fits
  <2>1. a.mods = FlagsOf(parts, n) /\ AllModifiers(parts, n)
    BY <1>5 DEF TurnMeans
  <2>2. new = [a EXCEPT !.mods = @ \union {Readers!ModFlag[name]}]
    BY <1>5, <2>1, Zenon DEF Readers!AddModifier, ModifierNames
  <2>3. new.ok = a.ok /\ new.mods = a.mods \union {Readers!ModFlag[name]}
    <3> HIDE DEF new, fits, name
    <3>1. QED
      BY <2>2 DEF ModState
  <2>4. QED
    <3> HIDE DEF new, fits
    <3>1. QED
      BY <1>3, <1>4, <1>5, <2>1, <2>3, Zenon DEF TurnMeans, new
<1>6. CASE ~(a.ok /\ fits)
  <2>1. a.ok => a.mods = FlagsOf(parts, n)
    BY DEF TurnMeans
  <2>2. new = [a EXCEPT !.ok = FALSE]
    BY <1>6, <2>1, Zenon DEF Readers!AddModifier, ModifierNames
  <2>3. ~new.ok
    <3> HIDE DEF new, fits, name
    <3>1. QED
      BY <2>2 DEF ModState
  <2>4. ~AllModifiers(parts, n + 1)
    BY <1>3, <1>6 DEF TurnMeans
  <2>5. QED
    <3> HIDE DEF new, fits
    <3>1. QED
      BY <2>3, <2>4, Zenon DEF TurnMeans, new
<1>7. QED
  BY <1>5, <1>6

\* After every turn.
LEMMA TurnsMean ==
    ASSUME NEW parts, Len(parts) \in Nat, Len(parts) >= 2, NEW f, Turns(f, parts),
           NEW n \in 0..(Len(parts) - 1)
    PROVE  TurnMeans(f[n], parts, n)
<1> DEFINE m == Len(parts) - 1
           g == [k \in 0..m |-> TurnMeans(f[k], parts, k)]
<1>1. m \in Nat /\ 0 \in 0..m /\ n \in 0..m
      /\ \A k \in 1..m : k \in 0..m /\ k - 1 \in 0..m /\ k - 1 \in Nat /\ (k - 1) + 1 = k
  OBVIOUS
<1>2. /\ f[0] = ModStart /\ \A k \in 1..m : f[k] = Readers!AddModifier(f[k - 1], parts[k])
      /\ \A k \in 0..m : f[k] \in ModState
  BY DEF Turns
<1>3. TurnMeans(f[0], parts, 0)
  <2>1. f[0].ok /\ f[0].mods = {}
    BY <1>2 DEF ModStart
  <2>2. AllModifiers(parts, 0) /\ FlagsOf(parts, 0) = {}
    BY DEF AllModifiers, FlagsOf
  <2>3. QED
    BY <2>1, <2>2 DEF TurnMeans
<1> HIDE DEF m
<1>4. ASSUME NEW k \in 1..m, TurnMeans(f[k - 1], parts, k - 1) PROVE TurnMeans(f[k], parts, k)
  <2>1. f[k - 1] \in ModState
    BY <1>1, <1>2, Zenon
  <2>2. TurnMeans(Readers!AddModifier(f[k - 1], parts[(k - 1) + 1]), parts, (k - 1) + 1)
    BY <1>1, <1>4, <2>1, TurnKeeps, Zenon
  <2>3. TurnMeans(Readers!AddModifier(f[k - 1], parts[k]), parts, k)
    BY <1>1, <2>2, Zenon
  <2>4. QED
    BY <1>2, <2>3, Zenon
<1>5. g[0] \in {TRUE} /\ \A k \in 1..m : g[k - 1] \in {TRUE} => g[k] \in {TRUE}
  <2>1. g[0] = TurnMeans(f[0], parts, 0)
        /\ \A k \in 1..m : g[k] = TurnMeans(f[k], parts, k)
                           /\ g[k - 1] = TurnMeans(f[k - 1], parts, k - 1)
    BY <1>1, Zenon
  <2> HIDE DEF g
  <2>2. g[0] = TRUE
    BY <1>3, <2>1, Zenon
  <2>3. ASSUME NEW k \in 1..m, g[k - 1] = TRUE PROVE g[k] = TRUE
    BY <1>4, <2>1, <2>3, Zenon
  <2>4. QED
    BY <2>2, <2>3
<1> HIDE DEF g
<1>6. \A k \in 0..m : g[k] \in {TRUE}
  BY <1>1, <1>5, Reached, Zenon
<1>7. QED
  BY <1>1, <1>6, Zenon DEF g

\* A text is accepted exactly when it is a binding, and stands for its modifiers and key.
LEMMA BindingUnderstood ==
    ASSUME NEW parts, Len(parts) \in Nat
    PROVE  LET b == Readers!ParseShortcut(parts)
           IN IF Readers!IsBinding(parts)
              THEN b.sym = Readers!Last(parts)
                   /\ b.mods = {Readers!ModFlag[parts[i]] : i \in 1..Len(parts) - 1}
              ELSE b = Readers!Invalid
<1> DEFINE b == Readers!ParseShortcut(parts)
           m == Len(parts) - 1
           acc == Readers!Modifiers(parts)[m]
           key == Readers!Last(parts)
<1>1. CASE Len(parts) < 2
  <2>1. ~(Len(parts) >= 2)
    BY <1>1
  <2>2. b = Readers!Invalid /\ ~Readers!IsBinding(parts)
    BY <2>1, Zenon DEF Readers!ParseShortcut, Readers!IsBinding
  <2>3. QED
    BY <2>2, Zenon
<1>2. CASE Len(parts) >= 2
  <2>1. Turns(Readers!Modifiers(parts), parts)
    BY <1>2, ModifiersAre
  <2>2. m \in 0..(Len(parts) - 1)
    BY <1>2
  <2>3. TurnMeans(acc, parts, m)
    BY <1>2, <2>1, <2>2, TurnsMean, Zenon
  <2>4. Readers!IsBinding(parts) <=> acc.ok /\ key \in Readers!KeyNames
    BY <1>2, <2>3, Zenon DEF Readers!IsBinding, TurnMeans, AllModifiers, ModifierNames
  <2>5. b = IF acc.ok /\ key \in Readers!KeyNames THEN [mods |-> acc.mods, sym |-> key]
            ELSE Readers!Invalid
    BY <1>2, Zenon DEF Readers!ParseShortcut
  <2>6. acc.ok => acc.mods = {Readers!ModFlag[parts[i]] : i \in 1..Len(parts) - 1}
    BY <2>3, Zenon DEF TurnMeans, FlagsOf
  <2> HIDE DEF b, acc, key
  <2>7. QED
    <3>1. CASE Readers!IsBinding(parts)
      <4>1. b = [mods |-> acc.mods, sym |-> key] /\ acc.ok
        BY <2>4, <2>5, <3>1, Zenon
      <4>2. b.sym = key /\ b.mods = acc.mods
        BY <4>1
      <4>3. QED
        BY <2>6, <3>1, <4>1, <4>2, Zenon DEF b, key
    <3>2. CASE ~Readers!IsBinding(parts)
      BY <2>4, <2>5, <3>2, Zenon DEF b
    <3>3. QED
      BY <3>1, <3>2, Zenon
<1>3. QED
  BY <1>1, <1>2

-----------------------------------------------------------------------------
(* Patterns.                                                               *)

\* A sequence begins with another one.
LEMMA PrefixIs ==
    ASSUME NEW S, NEW a \in Seq(S), NEW v \in Seq(S)
    PROVE  Readers!IsPrefix(a, v) <=> Len(a) <= Len(v) /\ \A i \in 1..Len(a) : a[i] = v[i]
<1> DEFINE n == Len(a)
           x == SubSeq(a, 1, n)
           y == SubSeq(v, 1, n)
<1>1. n \in Nat /\ Len(v) \in Nat
  OBVIOUS
<1>2. Readers!IsPrefix(a, v) <=> n <= Len(v) /\ x = y
  BY Zenon DEF Readers!IsPrefix
<1>3. x \in Seq(S) /\ Len(x) = n /\ \A i \in 1..n : x[i] = a[i]
  <2>1. n <= Len(a)
    BY <1>1
  <2>2. QED
    BY <1>1, <2>1, BeginningOf
<1>4. ASSUME n <= Len(v)
      PROVE  y \in Seq(S) /\ Len(y) = n /\ \A i \in 1..n : y[i] = v[i]
  BY <1>1, <1>4, BeginningOf
<1> HIDE DEF n, x, y
<1>5. CASE n <= Len(v)
  <2>1. x = y <=> \A i \in 1..n : a[i] = v[i]
    <3>1. ASSUME \A i \in 1..n : a[i] = v[i] PROVE x = y
      <4>1. Len(x) = Len(y) /\ \A i \in 1..Len(x) : x[i] = y[i]
        BY <1>3, <1>4, <1>5, <3>1
      <4>2. QED
        BY <1>3, <1>4, <1>5, <4>1, SeqEqual
    <3>2. ASSUME x = y PROVE \A i \in 1..n : a[i] = v[i]
      BY <1>3, <1>4, <1>5, <3>2
    <3>3. QED
      BY <3>1, <3>2
  <2>2. QED
    BY <1>2, <1>5, <2>1, Zenon DEF n
<1>6. CASE ~(n <= Len(v))
  BY <1>2, <1>6, Zenon DEF n
<1>7. QED
  BY <1>5, <1>6

\* A sequence ends with another one.
LEMMA SuffixIs ==
    ASSUME NEW S, NEW b \in Seq(S), NEW v \in Seq(S)
    PROVE  Readers!IsSuffix(b, v) <=>
               /\ Len(b) <= Len(v)
               /\ \A i \in 1..Len(b) : b[i] = v[Len(v) - Len(b) + i]
<1> DEFINE n == Len(b)
           m == Len(v)
           x == [i \in 1..n |-> b[(n - i) + 1]]
           y == [i \in 1..m |-> v[(m - i) + 1]]
<1>1. n \in Nat /\ m \in Nat
  OBVIOUS
<1>2. x \in Seq(S) /\ Len(x) = n /\ \A i \in 1..n : x[i] = b[(n - i) + 1]
  <2>1. \A i \in 1..n : (n - i) + 1 \in 1..n
    BY <1>1
  <2>2. \A i \in 1..n : b[(n - i) + 1] \in S
    BY <2>1, ElementOfSeq
  <2> HIDE DEF n
  <2>3. QED
    BY <1>1, <2>2
<1>3. y \in Seq(S) /\ Len(y) = m /\ \A i \in 1..m : y[i] = v[(m - i) + 1]
  <2>1. \A i \in 1..m : (m - i) + 1 \in 1..m
    BY <1>1
  <2>2. \A i \in 1..m : v[(m - i) + 1] \in S
    BY <2>1, ElementOfSeq
  <2> HIDE DEF m
  <2>3. QED
    BY <1>1, <2>2
<1>4. Readers!IsSuffix(b, v) <=> Readers!IsPrefix(x, y)
  BY Zenon DEF Readers!IsSuffix, Readers!Reverse
<1> HIDE DEF x, y
<1>5. Readers!IsPrefix(x, y) <=> n <= m /\ \A i \in 1..n : x[i] = y[i]
  BY <1>2, <1>3, PrefixIs
<1> HIDE DEF n, m
<1>6. ASSUME n <= m
      PROVE  (\A i \in 1..n : x[i] = y[i]) <=> (\A i \in 1..n : b[i] = v[m - n + i])
  <2>1. ASSUME \A i \in 1..n : x[i] = y[i], NEW i \in 1..n PROVE b[i] = v[m - n + i]
    <3> DEFINE j == (n - i) + 1
    <3>1. j \in 1..n /\ j \in 1..m /\ (n - j) + 1 = i /\ (m - j) + 1 = m - n + i
      BY <1>1, <1>6
    <3> HIDE DEF j
    <3>2. x[j] = b[(n - j) + 1] /\ y[j] = v[(m - j) + 1] /\ x[j] = y[j]
      BY <1>2, <1>3, <2>1, <3>1, Zenon
    <3>3. QED
      BY <3>1, <3>2, Zenon
  <2>2. ASSUME \A i \in 1..n : b[i] = v[m - n + i], NEW i \in 1..n PROVE x[i] = y[i]
    <3> DEFINE j == (n - i) + 1
    <3>1. j \in 1..n /\ i \in 1..m /\ m - n + j = (m - i) + 1
      BY <1>1, <1>6
    <3>2. b[j] = v[m - n + j]
      BY <2>2, <3>1, Zenon
    <3>3. QED
      BY <1>2, <1>3, <3>1, <3>2, Zenon
  <2>3. QED
    BY <2>1, <2>2
<1>7. QED
  BY <1>4, <1>5, <1>6, Zenon DEF n, m

\* What is said of a title and the two parts of a pattern.
StarMeans(T, N, a, b, v) ==
    Readers!StarMatch(a, b, v) <=> \E text \in Readers!Words(T, N) : v = a \o text \o b

\* A title that begins and ends as a pattern says has some text in between.
LEMMA StarMatchIs ==
    ASSUME NEW S, NEW T, T \subseteq S, NEW N \in Nat, NEW a \in Seq(S), NEW b \in Seq(S),
           NEW v \in Seq(T), Len(v) <= N
    PROVE  StarMeans(T, N, a, b, v)
<1> DEFINE p == Len(a)
           q == Len(b)
           m == Len(v)
<1>1. p \in Nat /\ q \in Nat /\ m \in Nat /\ v \in Seq(S) /\ m <= N
  <2>1. \A i \in 1..Len(v) : v[i] \in S
    BY ElementOfSeq
  <2>2. v \in Seq(S)
    BY <2>1
  <2>3. QED
    BY <2>2
<1>2. Readers!StarMatch(a, b, v) <=>
          /\ m >= p + q
          /\ \A i \in 1..p : a[i] = v[i]
          /\ \A i \in 1..q : b[i] = v[m - q + i]
  <2>1. /\ Readers!IsPrefix(a, v) <=> p <= m /\ \A i \in 1..p : a[i] = v[i]
        /\ Readers!IsSuffix(b, v) <=> q <= m /\ \A i \in 1..q : b[i] = v[m - q + i]
    <3>1. Readers!IsPrefix(a, v) <=> Len(a) <= Len(v) /\ \A i \in 1..Len(a) : a[i] = v[i]
      BY <1>1, PrefixIs
    <3>2. Readers!IsSuffix(b, v) <=>
              /\ Len(b) <= Len(v)
              /\ \A i \in 1..Len(b) : b[i] = v[Len(v) - Len(b) + i]
      BY <1>1, SuffixIs
    <3>3. QED
      BY <3>1, <3>2, Zenon
  <2>2. m >= p + q => p <= m /\ q <= m
    BY <1>1
  <2>3. QED
    BY <2>1, <2>2, Zenon DEF Readers!StarMatch
<1>3. ASSUME NEW t \in Seq(S)
      PROVE  /\ a \o t \o b \in Seq(S) /\ Len(a \o t \o b) = p + Len(t) + q
             /\ \A i \in 1..(p + Len(t) + q) :
                    (a \o t \o b)[i] = IF i <= p THEN a[i]
                                       ELSE IF i <= p + Len(t) THEN t[i - p]
                                       ELSE b[i - (p + Len(t))]
  <2> DEFINE c == a \o t
             d == c \o b
             n == Len(t)
  <2>0. n \in Nat
    OBVIOUS
  <2>1. c \in Seq(S) /\ Len(c) = p + n
        /\ \A i \in 1..(p + n) : c[i] = IF i <= p THEN a[i] ELSE t[i - p]
    BY ConcatProperties
  <2> HIDE DEF c
  <2>2. d \in Seq(S) /\ Len(d) = Len(c) + q
        /\ \A i \in 1..(Len(c) + q) : d[i] = IF i <= Len(c) THEN c[i] ELSE b[i - Len(c)]
    <3>1. c \in Seq(S)
      BY <2>1
    <3>2. QED
      BY <3>1, ConcatProperties
  <2> HIDE DEF d, p, q, n
  <2>3. d \in Seq(S) /\ Len(d) = p + n + q
        /\ \A i \in 1..(p + n + q) :
              d[i] = IF i <= p THEN a[i] ELSE IF i <= p + n THEN t[i - p] ELSE b[i - (p + n)]
    BY <1>1, <2>0, <2>1, <2>2
  <2>4. QED
    BY <2>3, Zenon DEF d, c, n
<1>4. ASSUME NEW t \in Readers!Words(T, N)
      PROVE  t \in Seq(S)
  <2>1. PICK k \in 0..N : t \in [1..k -> T]
    BY <1>4, Zenon DEF Readers!Words
  <2>2. \A i \in 1..k : t[i] \in S
    BY <2>1
  <2>3. QED
    BY <2>1, <2>2
<1>5. ASSUME NEW t \in Readers!Words(T, N), v = a \o t \o b
      PROVE  Readers!StarMatch(a, b, v)
  <2> DEFINE n == Len(t)
  <2>1. /\ n \in Nat /\ m = p + n + q
        /\ \A i \in 1..(p + n + q) :
              v[i] = IF i <= p THEN a[i] ELSE IF i <= p + n THEN t[i - p] ELSE b[i - (p + n)]
    BY <1>3, <1>4, <1>5
  <2> HIDE DEF n, p, q, m
  <2>2. m >= p + q /\ \A i \in 1..p : a[i] = v[i]
    BY <1>1, <2>1
  <2>3. ASSUME NEW i \in 1..q PROVE b[i] = v[m - q + i]
    <3>1. m - q + i \in 1..(p + n + q) /\ ~(m - q + i <= p) /\ ~(m - q + i <= p + n)
          /\ (m - q + i) - (p + n) = i
      BY <1>1, <2>1
    <3>2. QED
      BY <2>1, <3>1, Zenon
  <2>4. QED
    BY <1>2, <2>2, <2>3, Zenon
<1>6. ASSUME Readers!StarMatch(a, b, v)
      PROVE  \E t \in Readers!Words(T, N) : v = a \o t \o b
  <2> DEFINE t == SubSeq(v, p + 1, m - q)
             n == m - q - p
             w == a \o t \o b
  <2>1. m >= p + q /\ (\A i \in 1..p : a[i] = v[i]) /\ \A i \in 1..q : b[i] = v[m - q + i]
    BY <1>2, <1>6
  <2>2. p + 1 \in Nat /\ m - q \in Nat /\ 1 <= p + 1 /\ p + 1 <= (m - q) + 1 /\ m - q <= Len(v)
        /\ n \in Nat /\ n = (m - q) - (p + 1) + 1 /\ n <= N
    BY <1>1, <2>1
  <2>3. t \in Seq(T) /\ Len(t) = n /\ \A i \in 1..n : t[i] = v[(p + 1) + i - 1]
    <3> HIDE DEF p, q, m, n
    <3>1. QED
      BY <2>2, PartOf
  <2>4. t \in Readers!Words(T, N) /\ t \in Seq(S)
    <3> HIDE DEF t
    <3>0. n \in 0..N
      BY <2>2
    <3>1. n \in 0..N /\ t \in [1..n -> T]
      <4> HIDE DEF n
      <4>1. QED
        BY <2>3, <3>0
    <3>2. t \in Readers!Words(T, N)
      BY <3>1, Zenon DEF Readers!Words
    <3>3. QED
      BY <1>4, <3>2
  <2>5. w \in Seq(S) /\ Len(w) = p + Len(t) + q
        /\ \A i \in 1..(p + Len(t) + q) :
                    w[i] = IF i <= p THEN a[i]
                           ELSE IF i <= p + Len(t) THEN t[i - p]
                           ELSE b[i - (p + Len(t))]
    BY <1>3, <2>4, Zenon
  <2> HIDE DEF t, w, p, q, m, n
  <2>6. n = m - q - p
    BY DEF n
  <2>7. Len(w) = m /\ p + n + q = m
    BY <1>1, <2>2, <2>3, <2>5, <2>6
  <2>8. ASSUME NEW i \in 1..m PROVE w[i] = v[i]
    <3>1. w[i] = IF i <= p THEN a[i] ELSE IF i <= p + n THEN t[i - p] ELSE b[i - (p + n)]
      BY <2>3, <2>5, <2>7, Zenon
    <3>2. CASE i <= p
      BY <1>1, <2>1, <3>1, <3>2
    <3>3. CASE ~(i <= p) /\ i <= p + n
      <4>1. i - p \in 1..n /\ (p + 1) + (i - p) - 1 = i
        BY <1>1, <2>2, <3>3
      <4>2. QED
        BY <2>3, <3>1, <3>3, <4>1, Zenon
    <3>4. CASE ~(i <= p) /\ ~(i <= p + n)
      <4>1. i - (p + n) \in 1..q /\ m - q + (i - (p + n)) = i
        BY <1>1, <2>2, <2>6, <3>4
      <4>2. QED
        BY <2>1, <3>1, <3>4, <4>1, Zenon
    <3>5. QED
      BY <3>2, <3>3, <3>4, Zenon
  <2>9. w = v
    <3>1. Len(w) = Len(v) /\ \A i \in 1..Len(w) : w[i] = v[i]
      BY <2>7, <2>8, Zenon DEF m
    <3>2. QED
      BY <1>1, <2>5, <3>1, SeqEqual, Zenon
  <2>10. QED
    BY <2>4, <2>9, Zenon DEF w
<1>7. QED
  BY <1>5, <1>6, Zenon DEF StarMeans

\* The first star of a pattern that has one.
LEMMA FirstStarIs ==
    ASSUME NEW S, NEW p \in Seq(S), \E i \in DOMAIN p : p[i] = Readers!Star
    PROVE  Readers!FirstStar(p) \in 1..Len(p)
<1> DEFINE D == {i \in DOMAIN p : p[i] = Readers!Star}
<1>1. D \subseteq Nat /\ D # {} /\ DOMAIN p = 1..Len(p)
  OBVIOUS
<1>2. PICK i \in D : \A j \in D : i <= j
  BY <1>1, SmallestExists
<1>3. \A j \in 1..i-1 : p[j] # Readers!Star
  <2>1. SUFFICES ASSUME NEW j \in 1..i-1, p[j] = Readers!Star PROVE FALSE
    OBVIOUS
  <2>2. j \in DOMAIN p /\ ~(i <= j)
    BY <1>1
  <2>3. QED
    BY <1>2, <2>1, <2>2
<1>4. \E k \in DOMAIN p : p[k] = Readers!Star /\ \A j \in 1..k-1 : p[j] # Readers!Star
  BY <1>3
<1>5. Readers!FirstStar(p) \in DOMAIN p
  BY <1>4, Zenon DEF Readers!FirstStar
<1>6. QED
  BY <1>1, <1>5

\* A pattern means what it promises, for letters and lengths of any kind.
LEMMA PatternUnderstood ==
    ASSUME NEW T, NEW N \in Nat, NEW p \in Seq(T \union {Readers!Star}), NEW v \in Seq(T),
           Len(v) <= N, p # <<>>, v # <<>>
    PROVE  LET stars == {i \in DOMAIN p : p[i] = Readers!Star}
               first == Readers!FirstStar(p)
           IN Readers!MatchPattern(p, v) <=>
              IF stars = {} THEN Readers!Occurs(v, p)
              ELSE \E text \in Readers!Words(T, N) :
                      v = SubSeq(p, 1, first - 1) \o text \o SubSeq(p, first + 1, Len(p))
<1> DEFINE S == T \union {Readers!Star}
           first == Readers!FirstStar(p)
           a == SubSeq(p, 1, first - 1)
           b == SubSeq(p, first + 1, Len(p))
           some == \E i \in DOMAIN p : p[i] = Readers!Star
<1>1. some <=> {i \in DOMAIN p : p[i] = Readers!Star} # {}
  BY Zenon
<1>2. Readers!MatchPattern(p, v) <=>
          IF some THEN Readers!StarMatch(a, b, v) ELSE Readers!Occurs(v, p)
  BY Zenon DEF Readers!MatchPattern
<1>3. ASSUME some
      PROVE  Readers!StarMatch(a, b, v) <=> \E text \in Readers!Words(T, N) : v = a \o text \o b
  <2>1. first \in 1..Len(p) /\ Len(p) \in Nat
    <3>1. p \in Seq(S)
      OBVIOUS
    <3> HIDE DEF S
    <3>2. QED
      BY <1>3, <3>1, FirstStarIs
  <2>2. a \in Seq(S) /\ b \in Seq(S)
    <3> HIDE DEF first
    <3>1. /\ 1 \in Nat /\ first - 1 \in Nat /\ first + 1 \in Nat /\ 1 <= (first - 1) + 1
          /\ first - 1 <= Len(p) /\ 1 <= first + 1 /\ first + 1 <= Len(p) + 1 /\ Len(p) <= Len(p)
      BY <2>1
    <3>2. p \in Seq(S)
      OBVIOUS
    <3> HIDE DEF S
    <3>3. QED
      BY <2>1, <3>1, <3>2, PartOf
  <2>3. T \subseteq S
    OBVIOUS
  <2> HIDE DEF a, b, S
  <2>4. v \in Seq(T) /\ Len(v) <= N /\ N \in Nat
    OBVIOUS
  <2>5. QED
    <3>1. StarMeans(T, N, a, b, v)
      BY <2>2, <2>3, <2>4, StarMatchIs
    <3>2. QED
      BY <3>1, Zenon DEF StarMeans
<1> DEFINE between == \E text \in Readers!Words(T, N) : v = a \o text \o b
<1>4. Readers!MatchPattern(p, v) <=> IF some THEN between ELSE Readers!Occurs(v, p)
  <2>1. some => (Readers!StarMatch(a, b, v) <=> between)
    BY <1>3, Zenon
  <2> HIDE DEF some, between, a, b
  <2>2. QED
    BY <1>2, <2>1, Zenon
<1>5. CASE some
  <2>1. Readers!MatchPattern(p, v) <=> between
    BY <1>4, <1>5, Zenon
  <2>2. {i \in DOMAIN p : p[i] = Readers!Star} # {}
    BY <1>1, <1>5, Zenon
  <2> HIDE DEF some
  <2>3. QED
    BY <2>1, <2>2, Zenon
<1>6. CASE ~some
  <2>1. Readers!MatchPattern(p, v) <=> Readers!Occurs(v, p)
    BY <1>4, <1>6, Zenon
  <2>2. {i \in DOMAIN p : p[i] = Readers!Star} = {}
    BY <1>1, <1>6, Zenon
  <2> HIDE DEF some
  <2>3. QED
    BY <2>1, <2>2, Zenon
<1>7. QED
  BY <1>5, <1>6

-----------------------------------------------------------------------------
(* The night.                                                              *)

\* How far a minute of the day is from another one, going forward.
LEMMA Forward ==
    ASSUME NEW x \in 0..(NightDay - 1), NEW y \in 0..(NightDay - 1)
    PROVE  (x - y) % NightDay = IF y <= x THEN x - y ELSE x - y + NightDay
<1>1. NightDay \in Nat /\ NightDay > 1
  BY NightAssumption DEF NightAssumption
<1>2. CASE y <= x
  <2>1. x - y \in Int /\ 0 <= x - y /\ x - y < NightDay
    BY <1>1, <1>2
  <2>2. (x - y) % NightDay = x - y
    BY <1>1, <2>1
  <2>3. QED
    BY <1>2, <2>2
<1>3. CASE ~(y <= x)
  <2> DEFINE d == x - y + NightDay
  <2>1. d \in Int /\ 0 <= d /\ d < NightDay /\ x - y = d - NightDay
    BY <1>1, <1>3
  <2> HIDE DEF d
  <2>2. (d - NightDay) % NightDay = d
    BY <1>1, <2>1
  <2>3. QED
    BY <1>3, <2>1, <2>2 DEF d
<1>4. QED
  BY <1>2, <1>3

\* What is said of a night and a minute.
NightMeans(text, now) ==
    LET c == Readers!LoadNightLight(text)
    IN /\ c.start # c.end
       /\ Readers!IsNightActive(c, now) <=>
            c.enabled /\ (now - c.start) % NightDay < (c.end - c.start) % NightDay

\* A night that was read lasts from its start to its end, and not the whole day.
LEMMA NightUnderstood ==
    ASSUME NEW text, text.enabled \in BOOLEAN, NEW now \in 0..(NightDay - 1)
    PROVE  NightMeans(text, now)
<1> DEFINE c == Readers!LoadNightLight(text)
           Day == 0..(NightDay - 1)
           evening == (3 * NightDay) \div 4
           morning == NightDay \div 4
           from == Readers!ParseTime(text.start, evening)
           to == Readers!ParseTime(text.end, morning)
<1>1. NightDay \in Nat /\ NightDay > 1
  BY NightAssumption DEF NightAssumption
<1>2. evening \in Day /\ morning \in Day /\ evening # morning
  BY <1>1
<1>3. from \in Day /\ to \in Day
  <2> HIDE DEF evening, morning
  <2>1. QED
    BY <1>2, Zenon DEF Readers!ParseTime
<1>4. c.start = (IF from = to THEN evening ELSE from)
      /\ c.end = (IF from = to THEN morning ELSE to) /\ c.enabled = text.enabled
  <2> HIDE DEF evening, morning, from, to
  <2>1. c = [enabled |-> text.enabled, temperature |-> Readers!Clamp(text.temperature, 1, 8),
             start |-> IF from = to THEN evening ELSE from,
             end |-> IF from = to THEN morning ELSE to]
    BY Zenon DEF Readers!LoadNightLight, from, to, evening, morning
  <2> HIDE DEF c
  <2>2. QED
    BY <2>1
<1> HIDE DEF evening, morning, from, to, c
<1>5. c.start \in Day /\ c.end \in Day /\ c.start # c.end /\ now \in Day
  BY <1>2, <1>3, <1>4, Zenon
<1>6. /\ (now - c.start) % NightDay =
             IF c.start <= now THEN now - c.start ELSE now - c.start + NightDay
      /\ (c.end - c.start) % NightDay =
             IF c.start <= c.end THEN c.end - c.start ELSE c.end - c.start + NightDay
  BY <1>5, Forward, Zenon
<1> DEFINE u == (now - c.start) % NightDay
           w == (c.end - c.start) % NightDay
           s == c.start
           e == c.end
<1>7. Readers!IsNightActive(c, now) <=>
          c.enabled /\ IF s < e THEN s <= now /\ now < e ELSE s <= now \/ now < e
  BY <1>5, Zenon DEF Readers!IsNightActive
<1> HIDE DEF u, w, s, e
<1>8. u < w <=> IF s < e THEN s <= now /\ now < e ELSE s <= now \/ now < e
  <2>1. s \in Day /\ e \in Day /\ s # e
    BY <1>5, Zenon DEF s, e
  <2>2. /\ u = IF s <= now THEN now - s ELSE now - s + NightDay
        /\ w = IF s <= e THEN e - s ELSE e - s + NightDay
    BY <1>6, Zenon DEF u, w, s, e
  <2>3. QED
    BY <1>1, <1>5, <2>1, <2>2
<1>9. QED
  <2>1. Readers!IsNightActive(c, now) <=> c.enabled /\ u < w
    BY <1>7, <1>8, Zenon
  <2>2. QED
    BY <1>5, <2>1, Zenon DEF NightMeans, c, u, w

-----------------------------------------------------------------------------
(* Rules.                                                                  *)

\* A rule made of its parts.
RuleWith(r, acts, ws, geo) ==
    [app |-> r.app, title |-> r.title, actions |-> acts, workspace |-> ws, geometry |-> geo]

\* What a rule is made of.
LEMMA RuleParts ==
    ASSUME NEW r \in Readers!RuleFields
    PROVE  /\ r = RuleWith(r, r.actions, r.workspace, r.geometry)
           /\ r.actions \subseteq Readers!Flags /\ r.workspace \in -1..3
           /\ r.geometry = <<>> \/ r.geometry \in {0, 9} \X {0, 5}
BY DEF Readers!RuleFields, RuleWith

\* A rule that was read is not one that was rejected.
LEMMA RuleIsARule ==
    ASSUME NEW r, NEW acts, NEW ws, NEW geo
    PROVE  RuleWith(r, acts, ws, geo) # Readers!Rejected
<1> DEFINE x == RuleWith(r, acts, ws, geo)
<1>1. "app" \in DOMAIN x
  BY DEF RuleWith
<1>2. DOMAIN Readers!Rejected = {"rejected"}
  BY DEF Readers!Rejected
<1> HIDE DEF x
<1>3. x # Readers!Rejected
  BY <1>1, <1>2
<1>4. QED
  BY <1>3 DEF x

\* What reading an action makes of a rule.
ReadsActions(r, acts, ws, geo) ==
    LET x == RuleWith(r, acts, ws, geo)
    IN  /\ \A f \in Readers!Flags :
              Readers!ParseAction(x, <<f>>) = RuleWith(r, acts \union {f}, ws, geo)
        /\ \A n \in 0..3 :
              Readers!ParseAction(x, <<"workspace", n>>) = RuleWith(r, acts, n, geo)
        /\ \A g : g[1] > 0 /\ g[2] > 0 =>
              Readers!ParseAction(x, <<"geometry", g>>) = RuleWith(r, acts, ws, g)

\* The kinds of actions.
LEMMA ActionsRead ==
    ASSUME NEW r, NEW acts, NEW ws, NEW geo
    PROVE  ReadsActions(r, acts, ws, geo)
<1> DEFINE x == RuleWith(r, acts, ws, geo)
<1>1. x # Readers!Rejected
  BY RuleIsARule, Zenon
<1>2. "workspace" \notin Readers!Flags /\ "geometry" \notin Readers!Flags
  BY DEF Readers!Flags
<1>3. ASSUME NEW f \in Readers!Flags
      PROVE  Readers!ParseAction(x, <<f>>) = RuleWith(r, acts \union {f}, ws, geo)
  <2> DEFINE a == <<f>>
  <2>1. a[1] = f
    OBVIOUS
  <2> HIDE DEF a, x
  <2>2. Readers!ParseAction(x, a) = [x EXCEPT !.actions = @ \union {f}]
    BY <1>1, <2>1, Zenon DEF Readers!ParseAction
  <2>3. QED
    BY <2>2 DEF x, a, RuleWith
<1>4. ASSUME NEW n \in 0..3
      PROVE  Readers!ParseAction(x, <<"workspace", n>>) = RuleWith(r, acts, n, geo)
  <2> DEFINE a == <<"workspace", n>>
  <2>1. a[1] = "workspace" /\ a[2] = n
    OBVIOUS
  <2> HIDE DEF a, x
  <2>2. Readers!ParseAction(x, a) = [x EXCEPT !.workspace = n]
    BY <1>1, <1>2, <2>1, Zenon DEF Readers!ParseAction
  <2>3. QED
    BY <2>2 DEF x, a, RuleWith
<1>5. ASSUME NEW g, g[1] > 0, g[2] > 0
      PROVE  Readers!ParseAction(x, <<"geometry", g>>) = RuleWith(r, acts, ws, g)
  <2> DEFINE a == <<"geometry", g>>
  <2>1. a[1] = "geometry" /\ a[2] = g /\ "geometry" # "workspace"
    OBVIOUS
  <2> HIDE DEF a, x
  <2>2. Readers!ParseAction(x, a) = [x EXCEPT !.geometry = g]
    BY <1>1, <1>2, <1>5, <2>1, Zenon DEF Readers!ParseAction
  <2>3. QED
    BY <2>2 DEF x, a, RuleWith
<1>6. QED
  BY <1>3, <1>4, <1>5, Zenon DEF ReadsActions

\* The conditions of a rule are those that were written.
LEMMA ConditionsRead ==
    ASSUME NEW r, r.app # Readers!NoText \/ r.title # Readers!NoText
    PROVE  Readers!ParseMatch(Readers!SerializeRule(r).match) = RuleWith(r, {}, -1, <<>>)
<1> DEFINE app == <<"app_id", r.app>>
           title == <<"title", r.title>>
           first == Readers!When(r.app # Readers!NoText, app)
           second == Readers!When(r.title # Readers!NoText, title)
           m == first \o second
<1>0. app[1] = "app_id" /\ app[2] = r.app /\ title[1] = "title" /\ title[2] = r.title
      /\ "app_id" # "title"
  OBVIOUS
<1> HIDE DEF app, title
<1>1. Readers!SerializeRule(r).match = m
  <2> DEFINE acts == Readers!SerializeRule(r).actions
  <2>1. \E y : Readers!SerializeRule(r) = [match |-> m, actions |-> y]
    BY Zenon DEF Readers!SerializeRule, app, title
  <2> HIDE DEF m
  <2>2. QED
    BY <2>1
<1> DEFINE Made(x) == /\ x # <<>> /\ ~(Len(x) = 2 /\ x[1][1] = x[2][1])
                      /\ Readers!Given(x, "app_id") = r.app /\ Readers!Given(x, "title") = r.title
<1>2. ASSUME r.app # Readers!NoText /\ r.title # Readers!NoText
      PROVE  Made(m)
  <2>1. first = <<app>> /\ second = <<title>>
    BY <1>2, Zenon DEF Readers!When
  <2>2. DOMAIN m = {1, 2} /\ m[1] = app /\ m[2] = title /\ m # <<>> /\ Len(m) = 2
    <3> HIDE DEF first, second
    <3>1. QED
      BY <2>1
  <2> HIDE DEF m
  <2>3. /\ \A i \in DOMAIN m : m[i][1] = "app_id" <=> i = 1
        /\ \A i \in DOMAIN m : m[i][1] = "title" <=> i = 2
    BY <1>0, <2>2
  <2>4. /\ (CHOOSE i \in DOMAIN m : m[i][1] = "app_id") = 1
        /\ (CHOOSE i \in DOMAIN m : m[i][1] = "title") = 2
    BY <2>2, <2>3, Zenon
  <2>5. Readers!Given(m, "app_id") = m[1][2] /\ Readers!Given(m, "title") = m[2][2]
    BY <2>2, <2>3, <2>4, Zenon DEF Readers!Given
  <2>6. QED
    BY <1>0, <2>2, <2>5
<1>3. ASSUME r.app # Readers!NoText /\ r.title = Readers!NoText
      PROVE  Made(m)
  <2>1. first = <<app>> /\ second = <<>>
    BY <1>3, Zenon DEF Readers!When
  <2>2. DOMAIN m = {1} /\ m[1] = app /\ m # <<>> /\ Len(m) = 1
    <3> HIDE DEF first, second
    <3>1. QED
      BY <2>1
  <2> HIDE DEF m
  <2>3. \A i \in DOMAIN m : m[i][1] = "app_id" /\ m[i][1] # "title" /\ i = 1
    BY <1>0, <2>2
  <2>4. (CHOOSE i \in DOMAIN m : m[i][1] = "app_id") = 1
    BY <2>2, <2>3, Zenon
  <2>5. Readers!Given(m, "app_id") = m[1][2] /\ Readers!Given(m, "title") = Readers!NoText
    BY <2>2, <2>3, <2>4, Zenon DEF Readers!Given
  <2>6. QED
    BY <1>0, <1>3, <2>2, <2>5
<1>4. ASSUME r.app = Readers!NoText /\ r.title # Readers!NoText
      PROVE  Made(m)
  <2>1. first = <<>> /\ second = <<title>>
    BY <1>4, Zenon DEF Readers!When
  <2>2. DOMAIN m = {1} /\ m[1] = title /\ m # <<>> /\ Len(m) = 1
    <3> HIDE DEF first, second
    <3>1. QED
      BY <2>1
  <2> HIDE DEF m
  <2>3. \A i \in DOMAIN m : m[i][1] # "app_id" /\ m[i][1] = "title" /\ i = 1
    BY <1>0, <2>2
  <2>4. (CHOOSE i \in DOMAIN m : m[i][1] = "title") = 1
    BY <2>2, <2>3, Zenon
  <2>5. Readers!Given(m, "app_id") = Readers!NoText /\ Readers!Given(m, "title") = m[1][2]
    BY <2>2, <2>3, <2>4, Zenon DEF Readers!Given
  <2>6. QED
    BY <1>0, <1>4, <2>2, <2>5
<1> HIDE DEF m
<1>5. Made(m)
  BY <1>2, <1>3, <1>4
<1>6. Readers!ParseMatch(m) = [Readers!NoRule EXCEPT !.app = r.app, !.title = r.title]
  BY <1>5, Zenon DEF Readers!ParseMatch
<1>7. QED
  <2>1. [Readers!NoRule EXCEPT !.app = r.app, !.title = r.title] = RuleWith(r, {}, -1, <<>>)
    <3> DEFINE x == r.app
               y == r.title
    <3> HIDE DEF x, y
    <3>1. [Readers!NoRule EXCEPT !.app = x, !.title = y]
          = [app |-> x, title |-> y, actions |-> {}, workspace |-> -1, geometry |-> <<>>]
      <4> DEFINE none == <<>>
                 n(a, b) == [app |-> a, title |-> b, actions |-> {}, workspace |-> -1,
                             geometry |-> none]
      <4> HIDE DEF none
      <4>0. \A a, b : [n(a, b) EXCEPT !.app = x] = n(x, b)
        OBVIOUS
      <4>1. \A a, b : [n(a, b) EXCEPT !.title = y] = n(a, y)
        OBVIOUS
      <4>2. Readers!NoRule = n(Readers!NoText, Readers!NoText)
        BY Zenon DEF Readers!NoRule, none
      <4> HIDE DEF n
      <4> DEFINE half == [Readers!NoRule EXCEPT !.app = x]
      <4>3. half = n(x, Readers!NoText)
        BY <4>0, <4>2, Zenon
      <4> HIDE DEF half
      <4>5. [half EXCEPT !.title = y] = n(x, y)
        BY <4>1, <4>3, Zenon
      <4>6. QED
        BY <4>5, Zenon DEF half, n, none
    <3>2. QED
      BY <3>1, Zenon DEF x, y, RuleWith
  <2>2. QED
    BY <1>1, <1>6, <2>1, Zenon

\* Where each of four lists is in all of them together.
FourParts(A, a, b, c, d) ==
    /\ Len(A) = Len(a) + Len(b) + Len(c) + Len(d)
    /\ \A i \in 1..Len(a) : A[i] = a[i]
    /\ \A i \in 1..Len(b) : A[Len(a) + i] = b[i]
    /\ \A i \in 1..Len(c) : A[Len(a) + Len(b) + i] = c[i]
    /\ \A i \in 1..Len(d) : A[Len(a) + Len(b) + Len(c) + i] = d[i]

\* They are there.
LEMMA FourPartsAre ==
    ASSUME NEW S, NEW a \in Seq(S), NEW b \in Seq(S), NEW c \in Seq(S), NEW d \in Seq(S)
    PROVE  a \o b \o c \o d \in Seq(S) /\ FourParts(a \o b \o c \o d, a, b, c, d)
<1> DEFINE x == a \o b
           y == x \o c
           z == y \o d
<1>1. x \in Seq(S) /\ Len(x) = Len(a) + Len(b)
      /\ \A i \in 1..(Len(a) + Len(b)) : x[i] = IF i <= Len(a) THEN a[i] ELSE b[i - Len(a)]
  BY ConcatProperties
<1> HIDE DEF x
<1>2. y \in Seq(S) /\ Len(y) = Len(x) + Len(c)
      /\ \A i \in 1..(Len(x) + Len(c)) : y[i] = IF i <= Len(x) THEN x[i] ELSE c[i - Len(x)]
  <2>1. x \in Seq(S)
    BY <1>1
  <2>2. QED
    BY <2>1, ConcatProperties
<1> HIDE DEF y
<1>3. z \in Seq(S) /\ Len(z) = Len(y) + Len(d)
      /\ \A i \in 1..(Len(y) + Len(d)) : z[i] = IF i <= Len(y) THEN y[i] ELSE d[i - Len(y)]
  <2>1. y \in Seq(S)
    BY <1>2
  <2>2. QED
    BY <2>1, ConcatProperties
<1> HIDE DEF z
<1> DEFINE k == Len(a)
           l == Len(b)
           m == Len(c)
           n == Len(d)
<1>4. k \in Nat /\ l \in Nat /\ m \in Nat /\ n \in Nat
  OBVIOUS
<1> HIDE DEF k, l, m, n
<1>5. /\ Len(x) = k + l /\ Len(y) = k + l + m /\ Len(z) = k + l + m + n
      /\ \A i \in 1..(k + l) : x[i] = IF i <= k THEN a[i] ELSE b[i - k]
      /\ \A i \in 1..(k + l + m) : y[i] = IF i <= k + l THEN x[i] ELSE c[i - (k + l)]
      /\ \A i \in 1..(k + l + m + n) : z[i] = IF i <= k + l + m THEN y[i] ELSE d[i - (k + l + m)]
  BY <1>1, <1>2, <1>3, Zenon DEF k, l, m, n
<1>6. /\ \A i \in 1..k : z[i] = a[i]
      /\ \A i \in 1..l : z[k + i] = b[i]
  <2>1. \A i \in 1..(k + l) : z[i] = x[i]
    BY <1>4, <1>5
  <2>2. \A i \in 1..k : i \in 1..(k + l) /\ i <= k
    BY <1>4
  <2>3. \A i \in 1..l : k + i \in 1..(k + l) /\ ~(k + i <= k) /\ (k + i) - k = i
    BY <1>4
  <2>4. QED
    BY <1>5, <2>1, <2>2, <2>3, Zenon
<1>7. \A i \in 1..m : z[k + l + i] = c[i]
  <2>1. \A i \in 1..m : /\ k + l + i \in 1..(k + l + m) /\ k + l + i \in 1..(k + l + m + n)
                        /\ k + l + i <= k + l + m /\ ~(k + l + i <= k + l)
                        /\ (k + l + i) - (k + l) = i
    BY <1>4
  <2>2. QED
    BY <1>5, <2>1, Zenon
<1>8. \A i \in 1..n : z[k + l + m + i] = d[i]
  <2>1. \A i \in 1..n : /\ k + l + m + i \in 1..(k + l + m + n) /\ ~(k + l + m + i <= k + l + m)
                        /\ (k + l + m + i) - (k + l + m) = i
    BY <1>4
  <2>2. QED
    BY <1>5, <2>1, Zenon
<1>9. QED
  BY <1>3, <1>5, <1>6, <1>7, <1>8, Zenon DEF FourParts, x, y, z, k, l, m, n

\* A list that is empty or has one element.
LEMMA WhenIs ==
    ASSUME NEW S, NEW b, NEW x, b => x \in S
    PROVE  LET w == Readers!When(b, x)
           IN  /\ w \in Seq(S)
               /\ b => Len(w) = 1 /\ 1 \in 1..Len(w) /\ w[1] = x
               /\ ~b => Len(w) = 0
<1> DEFINE w == Readers!When(b, x)
<1>1. CASE b
  <2>1. w = <<x>>
    BY <1>1, Zenon DEF Readers!When
  <2> HIDE DEF w
  <2>2. w \in Seq(S) /\ Len(w) = 1 /\ 1 \in 1..Len(w) /\ w[1] = x
    BY <1>1, <2>1
  <2>3. QED
    BY <1>1, <2>2, Zenon DEF w
<1>2. CASE ~b
  <2>1. w = <<>>
    BY <1>2, Zenon DEF Readers!When
  <2> HIDE DEF w
  <2>2. w \in Seq(S) /\ Len(w) = 0
    BY <2>1
  <2>3. QED
    BY <1>2, <2>2, Zenon DEF w
<1>3. QED
  BY <1>1, <1>2

\* The actions that a rule is written with, and what may be read on the way.
WrittenActions(r) == {<<f>> : f \in Readers!Flags}
                     \union (IF r.workspace >= 0 THEN {<<"workspace", r.workspace>>} ELSE {})
                     \union (IF r.geometry # <<>> THEN {<<"geometry", r.geometry>>} ELSE {})
ReadRules(r) == {RuleWith(r, x[1], x[2], x[3]) :
                    x \in (SUBSET Readers!Flags) \X (-1..3) \X {<<>>, r.geometry}}

\* Reading an action yields one of those rules.
LEMMA ActionTyped ==
    ASSUME NEW r \in Readers!RuleFields, Readers!DialogAccepts(r),
           NEW x \in ReadRules(r), NEW a \in WrittenActions(r)
    PROVE  Readers!ParseAction(x, a) \in ReadRules(r)
<1>1. PICK u \in (SUBSET Readers!Flags) \X (-1..3) \X {<<>>, r.geometry} :
             x = RuleWith(r, u[1], u[2], u[3])
  BY Zenon DEF ReadRules
<1>2. u[1] \subseteq Readers!Flags /\ u[2] \in -1..3 /\ u[3] \in {<<>>, r.geometry}
  BY <1>1
<1>3. \A b \in SUBSET Readers!Flags, n \in -1..3, g \in {<<>>, r.geometry} :
         RuleWith(r, b, n, g) \in ReadRules(r)
  <2>1. SUFFICES ASSUME NEW b \in SUBSET Readers!Flags, NEW n \in -1..3, NEW g \in {<<>>, r.geometry}
                 PROVE  RuleWith(r, b, n, g) \in ReadRules(r)
    OBVIOUS
  <2> DEFINE w == <<b, n, g>>
  <2>2. w \in (SUBSET Readers!Flags) \X (-1..3) \X {<<>>, r.geometry}
        /\ w[1] = b /\ w[2] = n /\ w[3] = g
    OBVIOUS
  <2> HIDE DEF w
  <2>3. QED
    BY <2>2, Zenon DEF ReadRules
<1> DEFINE b == u[1]
           n == u[2]
           g == u[3]
<1>8. ReadsActions(r, b, n, g)
  BY ActionsRead, Zenon
<1>9. x = RuleWith(r, b, n, g) /\ b \subseteq Readers!Flags /\ n \in -1..3
      /\ g \in {<<>>, r.geometry}
  BY <1>1, <1>2, Zenon
<1> HIDE DEF b, n, g
<1>10. /\ \A f \in Readers!Flags : Readers!ParseAction(x, <<f>>) = RuleWith(r, b \union {f}, n, g)
       /\ \A k \in 0..3 : Readers!ParseAction(x, <<"workspace", k>>) = RuleWith(r, b, k, g)
       /\ \A h : h[1] > 0 /\ h[2] > 0 =>
             Readers!ParseAction(x, <<"geometry", h>>) = RuleWith(r, b, n, h)
  BY <1>8, <1>9, Zenon DEF ReadsActions
<1>4. CASE \E f \in Readers!Flags : a = <<f>>
  <2>1. PICK f \in Readers!Flags : a = <<f>>
    BY <1>4
  <2>2. Readers!ParseAction(x, a) = RuleWith(r, b \union {f}, n, g)
    BY <1>10, <2>1, Zenon
  <2>3. b \union {f} \in SUBSET Readers!Flags
    BY <1>9
  <2>4. QED
    BY <1>9, <1>3, <2>2, <2>3, Zenon
<1>5. CASE r.workspace >= 0 /\ a = <<"workspace", r.workspace>>
  <2>1. r.workspace \in 0..3 /\ r.workspace \in -1..3
    BY <1>5, RuleParts
  <2>2. Readers!ParseAction(x, a) = RuleWith(r, b, r.workspace, g)
    BY <1>5, <1>10, <2>1, Zenon
  <2>3. QED
    BY <1>9, <1>3, <2>1, <2>2, Zenon
<1>6. CASE r.geometry # <<>> /\ a = <<"geometry", r.geometry>>
  <2>1. r.geometry[1] > 0 /\ r.geometry[2] > 0
    BY <1>6, Zenon DEF Readers!DialogAccepts
  <2>2. Readers!ParseAction(x, a) = RuleWith(r, b, n, r.geometry)
    BY <1>6, <1>10, <2>1, Zenon
  <2>3. QED
    BY <1>9, <1>3, <2>2, Zenon
<1>7. QED
  BY <1>4, <1>5, <1>6, Zenon DEF WrittenActions

\* The actions of a line, one after the other.
ReadsLine(f, start, A) ==
    f[0] = start /\ \A n \in 1..Len(A) : f[n] = Readers!ParseAction(f[n - 1], A[n])

\* A line is read to its end.
LEMMA LineRead ==
    ASSUME NEW r \in Readers!RuleFields, Readers!DialogAccepts(r), NEW line,
           Readers!ParseMatch(line.match) \in ReadRules(r), line.actions \in Seq(WrittenActions(r))
    PROVE  \E f : /\ ReadsLine(f, Readers!ParseMatch(line.match), line.actions)
                  /\ Readers!ParseRuleLine(line) = f[Len(line.actions)]
<1> DEFINE A == line.actions
           start == Readers!ParseMatch(line.match)
           m == Len(A)
           X == ReadRules(r)
           F == [x \in X \X (1..m) |-> Readers!ParseAction(x[1], A[x[2]])]
           Read(f) == f = [n \in 0..m |->
                          IF n = 0 THEN start ELSE Readers!ParseAction(f[n - 1], A[n])]
<1>1. m \in Nat /\ 0 \in 0..m /\ \A n \in 1..m : n \in 0..m /\ n - 1 \in 0..m /\ n # 0
  OBVIOUS
<1>2. \A n \in 1..m : A[n] \in WrittenActions(r)
  BY ElementOfSeq
<1>3. \A x \in X, n \in 1..m : Readers!ParseAction(x, A[n]) \in X
  BY <1>2, ActionTyped, Zenon
<1> HIDE DEF A, m, X, start
<1>4. F \in [X \X (1..m) -> X]
  BY <1>3
<1>5. \A x \in X, n \in 1..m : F[<<x, n>>] = Readers!ParseAction(x, A[n])
  BY Zenon
<1> HIDE DEF F
<1>6. start \in X
  BY Zenon DEF start, X
<1>7. PICK g : Values(g, X, start, m, F)
  BY <1>1, <1>4, <1>6, Computed, Zenon
<1>8. /\ g \in [0..m -> X] /\ g[0] = start
      /\ \A n \in 1..m : g[n] = Readers!ParseAction(g[n - 1], A[n])
  <2>1. g \in [0..m -> X] /\ g[0] = start /\ \A n \in 1..m : g[n] = F[<<g[n - 1], n>>]
    BY <1>7, Zenon DEF Values
  <2>2. \A n \in 1..m : g[n - 1] \in X
    BY <1>1, <2>1, Zenon
  <2>3. QED
    BY <1>5, <2>1, <2>2, Zenon
<1>9. Read(g)
  <2> DEFINE step(n) == IF n = 0 THEN start ELSE Readers!ParseAction(g[n - 1], A[n])
  <2>1. DOMAIN g = 0..m /\ g = [n \in 0..m |-> g[n]]
    BY <1>8
  <2>2. \A n \in 0..m : g[n] = step(n)
    <3>1. \A n \in 0..m : n = 0 \/ n \in 1..m
      BY <1>1
    <3>2. QED
      BY <1>1, <1>8, <3>1, Zenon
  <2>3. g = [n \in 0..m |-> step(n)]
    <3> HIDE DEF step
    <3>1. QED
      BY <2>1, <2>2
  <2>4. QED
    BY <2>3, Zenon
<1> DEFINE f == CHOOSE h : Read(h)
<1>10. Read(f)
  BY <1>9, Zenon
<1>11. Readers!ParseRuleLine(line) = f[m]
  BY Zenon DEF Readers!ParseRuleLine, A, m, start
<1> HIDE DEF f
<1>12. f[0] = start /\ \A n \in 1..m : f[n] = Readers!ParseAction(f[n - 1], A[n])
  <2> DEFINE new(n) == IF n = 0 THEN start ELSE Readers!ParseAction(f[n - 1], A[n])
  <2>1. f = [n \in 0..m |-> new(n)]
    BY <1>10, Zenon
  <2> HIDE DEF new
  <2>2. \A n \in 0..m : f[n] = new(n)
    BY <2>1
  <2>3. QED
    BY <1>1, <2>2, Zenon DEF new
<1>13. QED
  BY <1>11, <1>12, Zenon DEF ReadsLine, A, m, start

\* An action that is written from place k on, under a condition, and how it is read there.
WrittenAt(A, b, x, k) ==
    /\ k \in Nat /\ Len(A) \in Nat /\ k + Len(Readers!When(b, x)) <= Len(A)
    /\ \A i \in 1..Len(Readers!When(b, x)) : A[k + i] = Readers!When(b, x)[i]
ReadAt(f, b, x, k) ==
    f[k + Len(Readers!When(b, x))] = IF b THEN Readers!ParseAction(f[k], x) ELSE f[k]

\* It is read when it is written.
LEMMA ActionPassed ==
    ASSUME NEW f, NEW start, NEW A, ReadsLine(f, start, A), NEW b, NEW x, NEW k,
           WrittenAt(A, b, x, k)
    PROVE  ReadAt(f, b, x, k)
<1> DEFINE w == Readers!When(b, x)
<1>1. /\ b => Len(w) = 1 /\ 1 \in 1..Len(w) /\ w[1] = x
      /\ ~b => Len(w) = 0
  <2>1. /\ b => w = <<x>>
        /\ ~b => w = <<>>
    BY Zenon DEF Readers!When
  <2> HIDE DEF w
  <2>2. QED
    BY <2>1
<1> HIDE DEF w
<1>2. /\ k \in Nat /\ Len(A) \in Nat /\ k + Len(w) <= Len(A)
      /\ \A i \in 1..Len(w) : A[k + i] = w[i]
  BY Zenon DEF w, WrittenAt
<1>3. CASE b
  <2>1. Len(w) = 1 /\ A[k + 1] = x /\ k + 1 <= Len(A)
    BY <1>1, <1>2, <1>3, Zenon
  <2>2. k + 1 \in 1..Len(A) /\ (k + 1) - 1 = k
    BY <1>2, <2>1
  <2>3. f[k + 1] = Readers!ParseAction(f[k], x)
    BY <2>1, <2>2, Zenon DEF ReadsLine
  <2>4. QED
    BY <1>3, <2>1, <2>3, Zenon DEF w, ReadAt
<1>4. CASE ~b
  <2>1. k + Len(w) = k
    BY <1>1, <1>2, <1>4
  <2>2. QED
    BY <1>4, <2>1, Zenon DEF w, ReadAt
<1>5. QED
  BY <1>3, <1>4

\* A rule that the dialog accepts is the one that is read.
LEMMA RuleUnderstood ==
    ASSUME NEW r \in Readers!RuleFields, Readers!DialogAccepts(r)
    PROVE  Readers!ParseRuleLine(Readers!SerializeRule(r)) = r
<1> DEFINE line == Readers!SerializeRule(r)
           start == Readers!ParseMatch(line.match)
           top == "top" \in r.actions
           bare == "borderless" \in r.actions
           placed == r.workspace >= 0
           sized == r.geometry # <<>>
           a == Readers!When(top, <<"top">>)
           b == Readers!When(bare, <<"borderless">>)
           c == Readers!When(placed, <<"workspace", r.workspace>>)
           d == Readers!When(sized, <<"geometry", r.geometry>>)
           A == a \o b \o c \o d
           S == WrittenActions(r)
<1>1. line.actions = A
  <2> DEFINE m == line.match
  <2>1. \E y : line = [match |-> y, actions |-> A]
    BY Zenon DEF Readers!SerializeRule
  <2> HIDE DEF A, line
  <2>2. QED
    BY <2>1
<1>2. /\ r = RuleWith(r, r.actions, r.workspace, r.geometry)
      /\ r.actions \subseteq Readers!Flags /\ r.workspace \in -1..3
  BY RuleParts
<1>3. "top" \in Readers!Flags /\ "borderless" \in Readers!Flags
      /\ Readers!Flags = {"top", "borderless"}
  BY DEF Readers!Flags
<1>4. start = RuleWith(r, {}, -1, <<>>)
  <2>1. r.app # Readers!NoText \/ r.title # Readers!NoText
    BY Zenon DEF Readers!DialogAccepts
  <2>2. QED
    BY <2>1, ConditionsRead, Zenon
<1>5. start \in ReadRules(r)
  <2> DEFINE x == <<{}, -1, <<>>>>
  <2>1. x \in (SUBSET Readers!Flags) \X (-1..3) \X {<<>>, r.geometry}
        /\ x[1] = {} /\ x[2] = -1 /\ x[3] = <<>>
    OBVIOUS
  <2> HIDE DEF x, start
  <2>2. QED
    BY <1>4, <2>1, Zenon DEF ReadRules
<1>6. /\ <<"top">> \in S /\ <<"borderless">> \in S
      /\ placed => <<"workspace", r.workspace>> \in S
      /\ sized => <<"geometry", r.geometry>> \in S
  BY <1>3, Zenon DEF WrittenActions
<1>7. a \in Seq(S) /\ b \in Seq(S) /\ c \in Seq(S) /\ d \in Seq(S)
  <2> HIDE DEF S
  <2>1. QED
    BY <1>6, WhenIs, Zenon
<1>8. A \in Seq(S) /\ FourParts(A, a, b, c, d)
  <2> HIDE DEF a, b, c, d, S
  <2>1. QED
    BY <1>7, FourPartsAre
<1>9. PICK f : ReadsLine(f, start, A) /\ Readers!ParseRuleLine(line) = f[Len(A)]
  <2> HIDE DEF line, A
  <2>1. Readers!ParseMatch(line.match) \in ReadRules(r) /\ line.actions \in Seq(WrittenActions(r))
    BY <1>1, <1>5, <1>8, Zenon
  <2>2. \E f : /\ ReadsLine(f, Readers!ParseMatch(line.match), line.actions)
               /\ Readers!ParseRuleLine(line) = f[Len(line.actions)]
    BY <2>1, LineRead, Zenon
  <2>3. QED
    BY <1>1, <2>2, Zenon
<1> HIDE DEF line, start, A
<1> DEFINE i1 == Len(a)
           i2 == i1 + Len(b)
           i3 == i2 + Len(c)
           i4 == i3 + Len(d)
           n == Len(A)
<1>10. /\ Len(a) \in Nat /\ Len(b) \in Nat /\ Len(c) \in Nat /\ Len(d) \in Nat /\ n \in Nat
       /\ i1 \in Nat /\ i2 \in Nat /\ i3 \in Nat /\ i4 \in Nat
       /\ 0 + Len(a) = i1 /\ i4 = n /\ i1 <= n /\ i2 <= n /\ i3 <= n
  <2>1. Len(A) = Len(a) + Len(b) + Len(c) + Len(d)
    BY <1>8, Zenon DEF FourParts
  <2> HIDE DEF a, b, c, d, S
  <2>2. Len(a) \in Nat /\ Len(b) \in Nat /\ Len(c) \in Nat /\ Len(d) \in Nat
    BY <1>7, LenProperties, Zenon
  <2>3. QED
    BY <2>1, <2>2
<1>11. /\ \A i \in 1..Len(a) : A[0 + i] = a[i]
       /\ \A i \in 1..Len(b) : A[i1 + i] = b[i]
       /\ \A i \in 1..Len(c) : A[i2 + i] = c[i]
       /\ \A i \in 1..Len(d) : A[i3 + i] = d[i]
  <2>1. \A i \in 1..Len(a) : 0 + i = i
    BY <1>10
  <2>2. QED
    BY <1>8, <2>1, Zenon DEF FourParts
<1> HIDE DEF i1, i2, i3, i4, n
<1>12. /\ f[i1] = IF top THEN Readers!ParseAction(f[0], <<"top">>) ELSE f[0]
       /\ f[i2] = IF bare THEN Readers!ParseAction(f[i1], <<"borderless">>) ELSE f[i1]
       /\ f[i3] = IF placed THEN Readers!ParseAction(f[i2], <<"workspace", r.workspace>>) ELSE f[i2]
       /\ f[i4] = IF sized THEN Readers!ParseAction(f[i3], <<"geometry", r.geometry>>) ELSE f[i3]
  <2>1. f[0 + Len(a)] = IF top THEN Readers!ParseAction(f[0], <<"top">>) ELSE f[0]
    <3>1. 0 \in Nat /\ 0 + Len(a) <= Len(A) /\ Len(A) \in Nat
      BY <1>10, Zenon DEF n
    <3>2. WrittenAt(A, top, <<"top">>, 0)
      BY <1>11, <3>1, Zenon DEF WrittenAt
    <3>3. ReadAt(f, top, <<"top">>, 0)
      BY <1>9, <3>2, ActionPassed
    <3>4. QED
      BY <3>3, Zenon DEF ReadAt
  <2>2. f[i1 + Len(b)] = IF bare THEN Readers!ParseAction(f[i1], <<"borderless">>) ELSE f[i1]
    <3>1. i1 \in Nat /\ i1 + Len(b) <= Len(A) /\ Len(A) \in Nat
      BY <1>10, Zenon DEF n, i2
    <3>2. WrittenAt(A, bare, <<"borderless">>, i1)
      BY <1>11, <3>1, Zenon DEF WrittenAt
    <3>3. ReadAt(f, bare, <<"borderless">>, i1)
      BY <1>9, <3>2, ActionPassed
    <3>4. QED
      BY <3>3, Zenon DEF ReadAt
  <2>3. f[i2 + Len(c)] = IF placed THEN Readers!ParseAction(f[i2], <<"workspace", r.workspace>>)
                         ELSE f[i2]
    <3>1. i2 \in Nat /\ i2 + Len(c) <= Len(A) /\ Len(A) \in Nat
      BY <1>10, Zenon DEF n, i3
    <3>2. WrittenAt(A, placed, <<"workspace", r.workspace>>, i2)
      BY <1>11, <3>1, Zenon DEF WrittenAt
    <3>3. ReadAt(f, placed, <<"workspace", r.workspace>>, i2)
      BY <1>9, <3>2, ActionPassed
    <3>4. QED
      BY <3>3, Zenon DEF ReadAt
  <2>4. f[i3 + Len(d)] = IF sized THEN Readers!ParseAction(f[i3], <<"geometry", r.geometry>>)
                         ELSE f[i3]
    <3>0. n <= n
      BY <1>10
    <3>1. i3 \in Nat /\ i3 + Len(d) <= Len(A) /\ Len(A) \in Nat
      BY <1>10, <3>0, Zenon DEF n, i4
    <3>2. WrittenAt(A, sized, <<"geometry", r.geometry>>, i3)
      BY <1>11, <3>1, Zenon DEF WrittenAt
    <3>3. ReadAt(f, sized, <<"geometry", r.geometry>>, i3)
      BY <1>9, <3>2, ActionPassed
    <3>4. QED
      BY <3>3, Zenon DEF ReadAt
  <2>5. QED
    BY <1>10, <2>1, <2>2, <2>3, <2>4, Zenon DEF i2, i3, i4
<1>13. f[0] = start
  BY <1>9, Zenon DEF ReadsLine
<1> DEFINE acts1 == IF top THEN {"top"} ELSE {}
           acts2 == IF bare THEN acts1 \union {"borderless"} ELSE acts1
<1>14. f[i1] = RuleWith(r, acts1, -1, <<>>)
  <2>1. ReadsActions(r, {}, -1, <<>>)
    BY ActionsRead, Zenon
  <2>2. {} \union {"top"} = {"top"}
    OBVIOUS
  <2>3. Readers!ParseAction(start, <<"top">>) = RuleWith(r, {} \union {"top"}, -1, <<>>)
    BY <1>3, <1>4, <2>1, Zenon DEF ReadsActions
  <2> HIDE DEF top
  <2>4. CASE top
    BY <1>12, <1>13, <2>2, <2>3, <2>4, Zenon
  <2>5. CASE ~top
    BY <1>4, <1>12, <1>13, <2>5, Zenon
  <2>6. QED
    BY <2>4, <2>5, Zenon
<1>15. f[i2] = RuleWith(r, acts2, -1, <<>>)
  <2> HIDE DEF acts1, bare
  <2>1. ReadsActions(r, acts1, -1, <<>>)
    BY ActionsRead, Zenon
  <2>2. Readers!ParseAction(f[i1], <<"borderless">>)
        = RuleWith(r, acts1 \union {"borderless"}, -1, <<>>)
    BY <1>3, <1>14, <2>1, Zenon DEF ReadsActions
  <2>3. CASE bare
    BY <1>12, <2>2, <2>3, Zenon
  <2>4. CASE ~bare
    BY <1>12, <1>14, <2>4, Zenon
  <2>5. QED
    BY <2>3, <2>4, Zenon
<1>16. f[i3] = RuleWith(r, acts2, r.workspace, <<>>)
  <2> HIDE DEF acts2
  <2>1. ReadsActions(r, acts2, -1, <<>>)
    BY ActionsRead, Zenon
  <2>2. CASE placed
    <3>1. r.workspace \in 0..3
      BY <1>2, <2>2
    <3>2. Readers!ParseAction(f[i2], <<"workspace", r.workspace>>)
          = RuleWith(r, acts2, r.workspace, <<>>)
      BY <1>15, <2>1, <3>1, Zenon DEF ReadsActions
    <3> HIDE DEF placed
    <3>3. QED
      BY <1>12, <2>2, <3>2, Zenon
  <2>3. CASE ~placed
    <3>1. r.workspace = -1
      BY <1>2, <2>3
    <3> HIDE DEF placed
    <3>2. QED
      BY <1>12, <1>15, <2>3, <3>1, Zenon
  <2>4. QED
    BY <2>2, <2>3, Zenon
<1>17. f[i4] = RuleWith(r, acts2, r.workspace, r.geometry)
  <2> HIDE DEF acts2
  <2> DEFINE ws == r.workspace
  <2>1. ReadsActions(r, acts2, ws, <<>>)
    BY ActionsRead, Zenon
  <2>2. CASE sized
    <3>1. r.geometry[1] > 0 /\ r.geometry[2] > 0
      BY <2>2, Zenon DEF Readers!DialogAccepts
    <3>2. Readers!ParseAction(f[i3], <<"geometry", r.geometry>>)
          = RuleWith(r, acts2, ws, r.geometry)
      BY <1>16, <2>1, <3>1, Zenon DEF ReadsActions
    <3> HIDE DEF sized
    <3>3. QED
      BY <1>12, <2>2, <3>2, Zenon
  <2>3. CASE ~sized
    <3>1. r.geometry = <<>>
      BY <2>3
    <3> HIDE DEF sized
    <3>2. QED
      BY <1>12, <1>16, <2>3, <3>1, Zenon
  <2>4. QED
    BY <2>2, <2>3, Zenon
<1>18. acts2 = r.actions
  BY <1>2, <1>3
<1>19. QED
  BY <1>2, <1>9, <1>10, <1>17, <1>18, Zenon DEF n, line

-----------------------------------------------------------------------------
(* All cases.                                                              *)

\* A text of the kind that the cases are made of.
LEMMA WordIs ==
    ASSUME NEW S, NEW n \in Nat, NEW w \in Readers!Words(S, n)
    PROVE  w \in Seq(S) /\ Len(w) \in Nat /\ Len(w) <= n
<1>1. PICK k \in 0..n : w \in [1..k -> S]
  BY Zenon DEF Readers!Words
<1>2. QED
  BY <1>1

\* The case under examination is one of them, or there is none.
CaseInv == case \in Readers!Cases \/ case = [of |-> "none"]

\* It stays what it is.
LEMMA CaseInvHolds == Spec => []CaseInv
<1>1. Init => CaseInv
  BY DEF Init, CaseInv, Readers!Init
<1>2. CaseInv /\ [Next]_vars => CaseInv'
  BY DEF CaseInv, Next, vars, XStep, InputStep, NightStep, DisplayStep, TaskbarStep,
         ReadersStep, ConfigStep, Alone, Readers!Next
<1>3. QED
  BY <1>1, <1>2, PTL DEF Spec

\* A binding, a pattern, a rule and a night mean what was written: bindings of up to three
\* parts (the lemmas about the loop have no such bound), patterns and titles of any
\* letters and length, every rule of the dialog, and every interval of a day of any length.
THEOREM WordsStayUnderstood == Spec => []WordsAreUnderstood
<1>1. ASSUME CaseInv PROVE WordsAreUnderstood
  <2>1. CASE case = [of |-> "none"]
    <3>1. case.of # "binding" /\ case.of # "pattern" /\ case.of # "rule" /\ case.of # "night"
      BY <2>1
    <3>2. QED
      BY <3>1, Zenon DEF WordsAreUnderstood, Readers!BindingIsUnderstood,
                  Readers!StarStandsForAnyText, Readers!RuleSurvivesSave, Readers!NightIsAnInterval
  <2>2. CASE case \in Readers!Cases
    <3>1. Readers!BindingIsUnderstood
      <4>1. SUFFICES ASSUME case.of = "binding"
                     PROVE  LET b == Readers!ParseShortcut(case.parts)
                            IN IF Readers!IsBinding(case.parts)
                               THEN b.sym = Readers!Last(case.parts)
                                    /\ b.mods = {Readers!ModFlag[case.parts[i]] :
                                                    i \in 1..Len(case.parts) - 1}
                               ELSE b = Readers!Invalid
        BY Zenon DEF Readers!BindingIsUnderstood
      <4>2. \E S : case.parts \in Readers!Words(S, 3)
        BY <2>2, <4>1 DEF Readers!Cases, Readers!Bindings, Readers!Patterns, Readers!Rules,
               Readers!Nights
      <4>3. Len(case.parts) \in Nat
        BY <4>2, WordIs
      <4>4. QED
        BY <4>3, BindingUnderstood, Zenon
    <3>2. Readers!StarStandsForAnyText
      <4> DEFINE T == TitleLetters
                 p == case.pattern
                 v == case.value
      <4>1. SUFFICES ASSUME case.of = "pattern", p # <<>>, v # <<>>
            PROVE  LET stars == {i \in DOMAIN p : p[i] = Readers!Star}
                       first == Readers!FirstStar(p)
                   IN Readers!MatchPattern(p, v) <=>
                      IF stars = {} THEN Readers!Occurs(v, p)
                      ELSE \E text \in Readers!Words(T, MaxPattern) :
                              v = SubSeq(p, 1, first - 1) \o text \o SubSeq(p, first + 1, Len(p))
        BY Zenon DEF Readers!StarStandsForAnyText
      <4>2. /\ p \in Readers!Words(T \union {Readers!Star}, MaxPattern)
            /\ v \in Readers!Words(T, MaxPattern)
        <5> DEFINE P == Readers!Words(TitleLetters \union {Readers!Star}, MaxPattern)
                   V == Readers!Words(TitleLetters, MaxPattern)
                   some == \E q \in P, w \in V : case = [of |-> "pattern", pattern |-> q, value |-> w]
        <5>1. case.of = "binding" \/ some \/ case.of = "rule" \/ case.of = "night"
          <6>1. case \in Readers!Patterns => some
            BY DEF Readers!Patterns
          <6>2. /\ case \in Readers!Bindings => case.of = "binding"
                /\ case \in Readers!Rules => case.of = "rule"
                /\ case \in Readers!Nights => case.of = "night"
            BY DEF Readers!Bindings, Readers!Rules, Readers!Nights
          <6> HIDE DEF some
          <6>3. QED
            BY <2>2, <6>1, <6>2, Zenon DEF Readers!Cases
        <5>2. some
          <6> HIDE DEF some
          <6>1. QED
            BY <4>1, <5>1
        <5> HIDE DEF P, V
        <5>3. case.pattern \in P /\ case.value \in V
          BY <5>2
        <5>4. QED
          BY <5>3, Zenon DEF P, V
      <4>3. MaxPattern \in Nat
        BY ReadersAssumption DEF ReadersAssumption
      <4> HIDE DEF p, v, T
      <4>4. p \in Seq(T \union {Readers!Star}) /\ v \in Seq(T) /\ Len(v) <= MaxPattern
        BY <4>2, <4>3, WordIs, Zenon
      <4>5. QED
        BY <4>1, <4>3, <4>4, PatternUnderstood, Zenon
    <3>3. Readers!RuleSurvivesSave
      <4>1. SUFFICES ASSUME case.of = "rule", Readers!DialogAccepts(case.rule)
                     PROVE  Readers!ParseRuleLine(Readers!SerializeRule(case.rule)) = case.rule
        BY Zenon DEF Readers!RuleSurvivesSave
      <4>2. case.rule \in Readers!RuleFields
        BY <2>2, <4>1 DEF Readers!Cases, Readers!Bindings, Readers!Patterns, Readers!Rules,
               Readers!Nights
      <4>3. QED
        BY <4>1, <4>2, RuleUnderstood, Zenon
    <3>4. Readers!NightIsAnInterval
      <4>1. SUFFICES ASSUME case.of = "night"
                     PROVE  LET c == Readers!LoadNightLight(case.text)
                            IN /\ c.start # c.end
                               /\ Readers!IsNightActive(c, case.now) <=>
                                    c.enabled /\ (case.now - c.start) % NightDay
                                                 < (c.end - c.start) % NightDay
        BY Zenon DEF Readers!NightIsAnInterval
      <4>2. case.text.enabled \in BOOLEAN /\ case.now \in 0..(NightDay - 1)
        BY <2>2, <4>1 DEF Readers!Cases, Readers!Bindings, Readers!Patterns, Readers!Rules,
               Readers!Nights
      <4> DEFINE text == case.text
                 now == case.now
      <4> HIDE DEF text, now
      <4>3. NightMeans(text, now)
        BY <4>2, NightUnderstood DEF text, now
      <4>4. QED
        BY <4>1, <4>3, Zenon DEF NightMeans, text, now
    <3>5. QED
      BY <3>1, <3>2, <3>3, <3>4, Zenon DEF WordsAreUnderstood
  <2>3. QED
    BY <1>1, <2>1, <2>2 DEF CaseInv
<1>2. QED
  BY <1>1, CaseInvHolds, PTL

-----------------------------------------------------------------------------
(* ConfigFile: files of any length.                                        *)

Names == {k[2] : k \in Cfg!Keys}
Sects == {Cfg!SectionOf(k) : k \in Cfg!Keys}
Pairs == Sects \X Names

\* The rows of a file.
Row == [note : {TRUE}] \union [head : Sects] \union [key : Names, value : Cfg!Values]

\* The keys of the model.
LEMMA KeysAre ==
    /\ Cfg!Keys \subseteq Pairs /\ Cfg!NoSection \notin Sects
    /\ IsFiniteSet(Names) /\ IsFiniteSet(Sects)
    /\ "shortcuts" \in Sects /\ "window_rules" \in Sects
    /\ Cfg!RuleNames \subseteq Names
    /\ \A n \in Names : Cfg!Rule(n) \in Pairs /\ Cfg!Rule(n)[1] = "window_rules" /\ Cfg!Rule(n)[2] = n
<1> DEFINE sects == {"theme", "wallpaper", "night_light", "input", "shortcuts", "window_rules"}
           names == {"mode", "path", "start_time", "pointer_speed", "close", "r2"}
<1>1. Cfg!Keys = {<<"theme", "mode">>, <<"wallpaper", "path">>, <<"night_light", "start_time">>,
                  <<"input", "pointer_speed">>, <<"shortcuts", "close">>,
                  <<"window_rules", "mode">>, <<"window_rules", "r2">>}
  BY DEF Cfg!Keys, Cfg!Mode, Cfg!Wallpaper, Cfg!Night, Cfg!Input, Cfg!Close, Cfg!Rule, Cfg!RuleNames
<1>2. Sects = sects
  BY <1>1 DEF Sects, Cfg!SectionOf
<1>3. Names = names
  BY <1>1 DEF Names
<1>4. Cfg!Keys \subseteq Pairs
  BY <1>1, <1>2, <1>3 DEF Pairs
<1>5. Cfg!NoSection \notin Sects
  BY <1>2 DEF Cfg!NoSection
<1>6. IsFiniteSet(sects) /\ IsFiniteSet(names)
  <2> DEFINE f == <<"theme", "wallpaper", "night_light", "input", "shortcuts", "window_rules">>
             g == <<"mode", "path", "start_time", "pointer_speed", "close", "r2">>
  <2>0. 1 \in Int /\ 6 \in Int
    OBVIOUS
  <2>1. IsFiniteSet(1..6)
    <3>1. \A m, n \in Int : IsFiniteSet(m..n)
      BY FS_Interval, Zenon
    <3>2. QED
      BY <2>0, <3>1, Zenon
  <2>2. f \in Surjection(1..6, sects) /\ g \in Surjection(1..6, names)
    BY DEF Surjection
  <2>3. QED
    BY <2>1, <2>2, FS_Surjection
<1>7. "shortcuts" \in Sects /\ "window_rules" \in Sects /\ Cfg!RuleNames \subseteq Names
  BY <1>2, <1>3 DEF Cfg!RuleNames
<1>8. \A n \in Names : Cfg!Rule(n) \in Pairs /\ Cfg!Rule(n)[1] = "window_rules" /\ Cfg!Rule(n)[2] = n
  BY <1>7 DEF Cfg!Rule, Pairs
<1>9. QED
  BY <1>2, <1>3, <1>4, <1>5, <1>6, <1>7, <1>8

\* What a row is.
Headed(r)  == Cfg!IsHead(r) /\ ~Cfg!IsEntry(r) /\ r.head \in Sects
Entered(r) == ~Cfg!IsHead(r) /\ Cfg!IsEntry(r) /\ r.key \in Names /\ r.value \in Cfg!Values
Noted(r)   == ~Cfg!IsHead(r) /\ ~Cfg!IsEntry(r)

\* A row is a head, an entry or neither.
LEMMA RowKinds ==
    ASSUME NEW r \in Row
    PROVE  Headed(r) \/ Entered(r) \/ Noted(r)
<1>1. CASE r \in [note : {TRUE}]
  BY <1>1 DEF Noted, Cfg!IsHead, Cfg!IsEntry
<1>2. CASE r \in [head : Sects]
  BY <1>2 DEF Headed, Cfg!IsHead, Cfg!IsEntry
<1>3. CASE r \in [key : Names, value : Cfg!Values]
  BY <1>3 DEF Entered, Cfg!IsHead, Cfg!IsEntry
<1>4. QED
  BY <1>1, <1>2, <1>3 DEF Row

\* Rows that are written.
LEMMA RowsAre ==
    /\ Cfg!Other \in Row /\ Noted(Cfg!Other)
    /\ \A s \in Sects : Cfg!Section(s) \in Row /\ Headed(Cfg!Section(s)) /\ Cfg!Section(s).head = s
    /\ \A k \in Pairs, v \in Cfg!Values :
          /\ Cfg!Entry(k, v) \in Row /\ Entered(Cfg!Entry(k, v))
          /\ Cfg!Entry(k, v).key = k[2] /\ Cfg!Entry(k, v).value = v
<1>1. Cfg!Other \in Row /\ Noted(Cfg!Other)
  <2>1. Cfg!Other = [note |-> TRUE]
    BY DEF Cfg!Other
  <2>2. QED
    BY <2>1 DEF Noted, Cfg!IsHead, Cfg!IsEntry, Row
<1>2. ASSUME NEW s \in Sects
      PROVE  Cfg!Section(s) \in Row /\ Headed(Cfg!Section(s)) /\ Cfg!Section(s).head = s
  <2>1. Cfg!Section(s) = [head |-> s]
    BY DEF Cfg!Section
  <2>2. QED
    BY <2>1 DEF Headed, Cfg!IsHead, Cfg!IsEntry, Row
<1>3. ASSUME NEW k \in Pairs, NEW v \in Cfg!Values
      PROVE  /\ Cfg!Entry(k, v) \in Row /\ Entered(Cfg!Entry(k, v))
             /\ Cfg!Entry(k, v).key = k[2] /\ Cfg!Entry(k, v).value = v
  <2> DEFINE e == Cfg!Entry(k, v)
  <2>0. k[2] \in Names
    BY DEF Pairs
  <2> DEFINE n == k[2]
  <2>1. e = [key |-> n, value |-> v]
    BY Zenon DEF Cfg!Entry
  <2> HIDE DEF e, n
  <2>2. e \in Row /\ e.key = n /\ e.value = v
    BY <2>0, <2>1 DEF n, Row
  <2>3. Entered(e)
    <3>1. DOMAIN e = {"key", "value"}
      BY <2>1
    <3>2. n \in Names
      BY <2>0 DEF n
    <3>3. QED
      BY <2>2, <3>1, <3>2 DEF Entered, Cfg!IsHead, Cfg!IsEntry
  <2>4. QED
    BY <2>2, <2>3, Zenon DEF e, n
<1>4. QED
  BY <1>1, <1>2, <1>3, Zenon
-----------------------------------------------------------------------------
(* ConfigFile: what is read.                                               *)

AllSects == Sects \union {Cfg!NoSection}
Standing   == AllSects \X Names

\* What may be known of a file while its rows are read.
LoadedValues == UNION {[D -> Cfg!Values] : D \in SUBSET Standing}
LoadState    == [section : AllSects, values : LoadedValues]
LoadStart    == [section |-> Cfg!NoSection, values |-> Cfg!Nothing]

\* A value for some keys.
LEMMA ValuesAre ==
    ASSUME NEW f
    PROVE  f \in LoadedValues <=> f \in [DOMAIN f -> Cfg!Values] /\ DOMAIN f \subseteq Standing
<1>1. ASSUME f \in LoadedValues
      PROVE  f \in [DOMAIN f -> Cfg!Values] /\ DOMAIN f \subseteq Standing
  <2>1. PICK D \in SUBSET Standing : f \in [D -> Cfg!Values]
    BY <1>1 DEF LoadedValues
  <2>2. DOMAIN f = D
    BY <2>1
  <2>3. QED
    BY <2>1, <2>2
<1>2. ASSUME f \in [DOMAIN f -> Cfg!Values], DOMAIN f \subseteq Standing
      PROVE  f \in LoadedValues
  <2> DEFINE D == DOMAIN f
  <2>1. D \in SUBSET Standing /\ f \in [D -> Cfg!Values]
    BY <1>2
  <2> HIDE DEF D
  <2>2. QED
    BY <2>1 DEF LoadedValues
<1>3. QED
  BY <1>1, <1>2

\* Nothing is known at the start.
LEMMA NothingIs ==
    /\ Cfg!Nothing \in LoadedValues /\ DOMAIN Cfg!Nothing = {}
    /\ LoadStart \in LoadState /\ LoadStart.section = Cfg!NoSection /\ LoadStart.values = Cfg!Nothing
<1>1. DOMAIN Cfg!Nothing = {} /\ Cfg!Nothing \in [{} -> Cfg!Values]
  BY DEF Cfg!Nothing
<1>2. Cfg!Nothing \in LoadedValues
  BY <1>1, ValuesAre
<1>3. QED
  BY <1>1, <1>2 DEF LoadStart, LoadState, AllSects

\* One value more.
LEMMA WithIs ==
    ASSUME NEW f \in LoadedValues, NEW k \in Standing, NEW v \in Cfg!Values
    PROVE  /\ Cfg!With(f, k, v) \in LoadedValues
           /\ DOMAIN Cfg!With(f, k, v) = DOMAIN f \union {k}
           /\ Cfg!With(f, k, v)[k] = v
           /\ \A x \in DOMAIN f : x # k => Cfg!With(f, k, v)[x] = f[x]
<1>1. f \in [DOMAIN f -> Cfg!Values] /\ DOMAIN f \subseteq Standing
  BY ValuesAre
<1> DEFINE g == Cfg!With(f, k, v)
<1>2. /\ DOMAIN g = DOMAIN f \union {k} /\ g[k] = v
      /\ \A x \in DOMAIN f : x # k => g[x] = f[x]
      /\ g \in [DOMAIN f \union {k} -> Cfg!Values]
  BY <1>1 DEF Cfg!With
<1> HIDE DEF g
<1>3. g \in [DOMAIN g -> Cfg!Values] /\ DOMAIN g \subseteq Standing
  BY <1>1, <1>2
<1>4. g \in LoadedValues
  BY <1>3, ValuesAre
<1>5. QED
  BY <1>2, <1>4, Zenon DEF g

\* Where an entry stands.
LEMMA StandingIs ==
    ASSUME NEW a \in LoadState, NEW r \in Row, Entered(r)
    PROVE  <<a.section, r.key>> \in Standing
BY DEF LoadState, Standing, Entered

\* What one row says.
LEMMA RowRead ==
    ASSUME NEW a \in LoadState, NEW r \in Row
    PROVE  /\ Cfg!ReadRow(a, r) \in LoadState
           /\ Headed(r) => /\ Cfg!ReadRow(a, r).section = r.head
                           /\ Cfg!ReadRow(a, r).values = a.values
           /\ Entered(r) => /\ Cfg!ReadRow(a, r).section = a.section
                            /\ Cfg!ReadRow(a, r).values = Cfg!With(a.values, <<a.section, r.key>>, r.value)
           /\ Noted(r) => Cfg!ReadRow(a, r) = a
<1> DEFINE b == Cfg!ReadRow(a, r)
<1>0. /\ a.section \in AllSects /\ a.values \in LoadedValues
      /\ a = [section |-> a.section, values |-> a.values]
  BY DEF LoadState
<1>1. CASE Headed(r)
  <2>1. b = [a EXCEPT !.section = r.head] /\ r.head \in AllSects
    BY <1>1 DEF Headed, Cfg!ReadRow, AllSects
  <2> HIDE DEF b
  <2>2. b \in LoadState /\ b.section = r.head /\ b.values = a.values
    BY <1>0, <2>1 DEF LoadState
  <2>3. QED
    BY <1>1, <2>2 DEF Headed, Entered, Noted, b
<1>2. CASE Entered(r)
  <2> DEFINE new == Cfg!With(a.values, <<a.section, r.key>>, r.value)
  <2>1. b = [a EXCEPT !.values = new]
    BY <1>2 DEF Entered, Cfg!ReadRow
  <2>2. r.value \in Cfg!Values
    BY <1>2 DEF Entered
  <2>3. new \in LoadedValues
    BY <1>0, <1>2, <2>2, StandingIs, WithIs
  <2> HIDE DEF b, new
  <2>4. b \in LoadState /\ b.section = a.section /\ b.values = new
    BY <1>0, <2>1, <2>3 DEF LoadState
  <2>5. QED
    BY <1>2, <2>4 DEF Headed, Entered, Noted, b, new
<1>3. CASE Noted(r)
  BY <1>3 DEF Headed, Entered, Noted, Cfg!ReadRow
<1>4. QED
  BY <1>1, <1>2, <1>3, RowKinds

ReadStep == [p \in LoadState \X Row |-> Cfg!ReadRow(p[1], p[2])]

\* What is known after some rows.
After(rows) == Run(ReadStep, LoadStart, rows)

\* The steps of a load.
LEMMA ReadSteps ==
    /\ IsStep(ReadStep, LoadState, Row)
    /\ \A a \in LoadState, r \in Row : ReadStep[<<a, r>>] = Cfg!ReadRow(a, r)
<1>1. \A a \in LoadState, r \in Row : Cfg!ReadRow(a, r) \in LoadState
  BY RowRead
<1>2. QED
  BY <1>1 DEF ReadStep, IsStep

Reads(f, rows) ==
    /\ f[0] = LoadStart
    /\ \A n \in 1..Len(rows) : f[n] = Cfg!ReadRow(f[n - 1], rows[n])
    /\ \A n \in 0..Len(rows) : f[n] \in LoadState

\* The loop of a load ends, with a step for each row.
LEMMA ReadingIs ==
    ASSUME NEW rows \in Seq(Row)
    PROVE  Reads(Cfg!Reading(rows), rows) /\ Cfg!Loaded(rows) = After(rows).values
<1> DEFINE m == Len(rows)
           new(f, n) == IF n = 0 THEN LoadStart ELSE Cfg!ReadRow(f[n - 1], rows[n])
           Read(f) == f = [n \in 0..m |-> new(f, n)]
<1>1. /\ m \in Nat /\ 0 \in 0..m /\ m \in 0..m
      /\ \A n \in 1..m : n \in 0..m /\ n - 1 \in 0..m /\ n # 0
      /\ \A n \in 0..m : n = 0 \/ n \in 1..m
  OBVIOUS
<1>2. \A n \in 1..m : rows[n] \in Row
  BY LenProperties, ElementOfSeq
<1>3. LoadStart \in LoadState
  BY NothingIs
<1>4. PICK g : Way(g, ReadStep, LoadState, LoadStart, rows)
  BY <1>3, ReadSteps, RunSteps, Zenon
<1>5. g \in [0..m -> LoadState] /\ Goes(g, ReadStep, LoadStart, rows)
  BY <1>4, Zenon DEF Way
<1>6. g[0] = LoadStart /\ \A n \in 1..m : g[n] = Cfg!ReadRow(g[n - 1], rows[n])
  <2>1. g[0] = LoadStart /\ \A n \in 1..m : g[n] = ReadStep[<<g[n - 1], rows[n]>>]
    BY <1>5, Zenon DEF Goes
  <2>2. \A n \in 1..m : g[n - 1] \in LoadState
    <3> HIDE DEF m
    <3>1. QED
      BY <1>1, <1>5, Zenon
  <2>3. QED
    BY <1>2, <2>1, <2>2, ReadSteps, Zenon
<1>7. Read(g)
  <2> HIDE DEF m
  <2>1. DOMAIN g = 0..m /\ g = [n \in 0..m |-> g[n]]
    BY <1>5
  <2>2. \A n \in 0..m : g[n] = new(g, n)
    BY <1>1, <1>6, Zenon
  <2>3. g = [n \in 0..m |-> new(g, n)]
    <3> HIDE DEF new
    <3>1. QED
      BY <2>1, <2>2
  <2>4. QED
    BY <2>3, Zenon
<1> DEFINE f == CHOOSE h : Read(h)
<1>8. Read(f)
  BY <1>7, Zenon
<1>9. Cfg!Reading(rows) = f
  BY Zenon DEF Cfg!Reading, LoadStart
<1> HIDE DEF f
<1>10. f[0] = LoadStart /\ \A n \in 1..m : f[n] = Cfg!ReadRow(f[n - 1], rows[n])
  <2> HIDE DEF m
  <2>1. f = [n \in 0..m |-> new(f, n)]
    BY <1>8, Zenon
  <2> HIDE DEF new
  <2>2. \A n \in 0..m : f[n] = new(f, n)
    BY <2>1
  <2>3. QED
    BY <1>1, <2>2, Zenon DEF new
<1>11. \A n \in 0..m : f[n] \in LoadState
  <2>1. \A n \in 1..m : f[n - 1] \in LoadState => f[n] \in LoadState
    BY <1>2, <1>10, RowRead, Zenon
  <2> HIDE DEF m
  <2>2. QED
    BY <1>1, <1>3, <1>10, <2>1, Reached, Zenon
<1>12. Goes(f, ReadStep, LoadStart, rows)
  <2>1. \A n \in 1..m : f[n - 1] \in LoadState
    <3> HIDE DEF m
    <3>1. QED
      BY <1>1, <1>11, Zenon
  <2>2. \A n \in 1..m : f[n] = ReadStep[<<f[n - 1], rows[n]>>]
    BY <1>2, <1>10, <2>1, ReadSteps, Zenon
  <2>3. QED
    BY <1>10, <2>2, Zenon DEF Goes
<1>13. f[m] = After(rows)
  <2>1. IsStep(ReadStep, LoadState, Row)
    BY ReadSteps
  <2>2. f[Len(rows)] = Run(ReadStep, LoadStart, rows)
    BY <1>3, <1>12, <2>1, RunIs
  <2>3. QED
    BY <2>2, Zenon DEF After
<1>14. Cfg!Loaded(rows) = f[m].values
  BY <1>9, Zenon DEF Cfg!Loaded
<1>15. QED
  BY <1>9, <1>10, <1>11, <1>13, <1>14, Zenon DEF Reads

\* What is known after no rows, a row more, and more rows.
LEMMA AfterIs ==
    /\ After(<<>>) = LoadStart
    /\ \A rows \in Seq(Row) : After(rows) \in LoadState
    /\ \A rows \in Seq(Row), r \in Row : After(Append(rows, r)) = Cfg!ReadRow(After(rows), r)
    /\ \A rows, more \in Seq(Row) : After(rows \o more) = Run(ReadStep, After(rows), more)
<1>1. LoadStart \in LoadState
  BY NothingIs
<1>2. After(<<>>) = LoadStart
  BY <1>1, ReadSteps, RunEmpty, Zenon DEF After
<1>3. \A rows \in Seq(Row) : After(rows) \in LoadState
  BY <1>1, ReadSteps, RunStays, Zenon DEF After
<1>4. \A rows \in Seq(Row), r \in Row : After(Append(rows, r)) = Cfg!ReadRow(After(rows), r)
  <2>0. IsStep(ReadStep, LoadState, Row)
    BY ReadSteps
  <2>1. ASSUME NEW rows \in Seq(Row), NEW r \in Row
        PROVE  After(Append(rows, r)) = ReadStep[<<After(rows), r>>]
    BY <1>1, <2>0, RunAppend DEF After
  <2>2. QED
    BY <1>3, <2>1, ReadSteps, Zenon
<1>5. ASSUME NEW rows \in Seq(Row), NEW more \in Seq(Row)
      PROVE  After(rows \o more) = Run(ReadStep, After(rows), more)
  <2>1. IsStep(ReadStep, LoadState, Row)
    BY ReadSteps
  <2>2. QED
    BY <1>1, <2>1, RunConcat DEF After
<1>6. QED
  BY <1>2, <1>3, <1>4, <1>5, Zenon

\* A finite set as a list.
LEMMA Listed ==
    ASSUME NEW S, IsFiniteSet(S)
    PROVE  /\ Cfg!SetToSeq(S) \in Seq(S)
           /\ \A e \in S : \E i \in 1..Len(Cfg!SetToSeq(S)) : Cfg!SetToSeq(S)[i] = e
<1> DEFINE n == Cardinality(S)
           s == Cfg!SetToSeq(S)
           One(f) == f \in [1..n -> S] /\ Cfg!IsInjective(f)
<1>1. Cfg!Cardinality(S) = n
  BY DEF Cfg!Cardinality, Cardinality
<1>2. n \in Nat /\ ExistsBijection(1..n, S)
  BY FS_CardinalityType
<1>3. \E f : One(f)
  <2>1. PICK f : f \in Bijection(1..n, S)
    BY <1>2, Zenon DEF ExistsBijection
  <2>2. One(f)
    BY <2>1 DEF Bijection, Injection, Cfg!IsInjective, IsInjective
  <2>3. QED
    BY <2>2
<1>4. s = CHOOSE f \in [1..n -> S] : Cfg!IsInjective(f)
  BY <1>1, Zenon DEF Cfg!SetToSeq
<1> HIDE DEF n, s
<1>5. s \in [1..n -> S] /\ Cfg!IsInjective(s)
  BY <1>3, <1>4, Zenon
<1>6. s \in Injection(1..n, S)
  BY <1>5 DEF Injection, Cfg!IsInjective, IsInjective
<1>7. IsFiniteSet(1..n) /\ Cardinality(1..n) = n
  BY <1>2, FS_Interval
<1>8. s \in Surjection(1..n, S)
  BY <1>6, <1>7, FS_Injection DEF n
<1>9. s \in Seq(S) /\ Len(s) = n
  BY <1>2, <1>5
<1>10. \A e \in S : \E i \in 1..n : s[i] = e
  BY <1>8 DEF Surjection
<1>11. QED
  BY <1>9, <1>10, Zenon DEF s

\* The entries of some keys, listed.
LEMMA EntriesAre ==
    ASSUME NEW vals, NEW S \in SUBSET Pairs, \A k \in S : vals[k] \in Cfg!Values
    PROVE  LET list == Cfg!Entries(vals, S)
           IN  /\ list \in Seq(Row)
               /\ \A i \in 1..Len(list) : \E k \in S : list[i] = Cfg!Entry(k, vals[k])
               /\ \A k \in S : \E i \in 1..Len(list) : list[i] = Cfg!Entry(k, vals[k])
<1> DEFINE E == {Cfg!Entry(k, vals[k]) : k \in S}
           f == [k \in S |-> Cfg!Entry(k, vals[k])]
           list == Cfg!Entries(vals, S)
<1>1. IsFiniteSet(S)
  BY KeysAre, FS_Product, FS_Subset DEF Pairs
<1>2. f \in Surjection(S, E)
  BY DEF Surjection
<1>3. IsFiniteSet(E)
  <2> HIDE DEF f, E
  <2>1. QED
    BY <1>1, <1>2, FS_Surjection
<1>4. list = Cfg!SetToSeq(E)
  BY Zenon DEF Cfg!Entries
<1>5. \A e \in E : e \in Row
  BY RowsAre, Zenon
<1>6. \A k \in S : Cfg!Entry(k, vals[k]) \in E
  OBVIOUS
<1>7. \A e \in E : \E k \in S : e = Cfg!Entry(k, vals[k])
  OBVIOUS
<1> HIDE DEF list, E, f
<1>8. list \in Seq(E) /\ \A e \in E : \E i \in 1..Len(list) : list[i] = e
  BY <1>3, <1>4, Listed, Zenon
<1>9. Len(list) \in Nat /\ \A i \in 1..Len(list) : list[i] \in E
  BY <1>8
<1>10. list \in Seq(Row)
  BY <1>5, <1>8
<1>11. QED
  BY <1>6, <1>7, <1>8, <1>9, <1>10, Zenon DEF list

\* One entry written for a key of the current section.
LEMMA EntryRead ==
    ASSUME NEW x \in LoadState, NEW k \in Pairs, NEW v \in Cfg!Values, k[1] = x.section
    PROVE  LET y == Cfg!ReadRow(x, Cfg!Entry(k, v))
           IN  /\ y \in LoadState /\ y.section = x.section
               /\ DOMAIN y.values = DOMAIN x.values \union {k} /\ y.values[k] = v
               /\ \A l \in DOMAIN x.values : l # k => y.values[l] = x.values[l]
<1> DEFINE e == Cfg!Entry(k, v)
           y == Cfg!ReadRow(x, e)
<1>1. e \in Row /\ Entered(e) /\ e.key = k[2] /\ e.value = v
  BY RowsAre
<1>2. <<x.section, k[2]>> = k /\ k \in Standing
  BY DEF Pairs, Standing, AllSects
<1> HIDE DEF e
<1>3. /\ y \in LoadState /\ y.section = x.section
      /\ y.values = Cfg!With(x.values, <<x.section, e.key>>, e.value)
  BY <1>1, RowRead, Zenon
<1>4. y.values = Cfg!With(x.values, k, v)
  BY <1>1, <1>2, <1>3, Zenon
<1>5. x.values \in LoadedValues
  BY DEF LoadState
<1> HIDE DEF y
<1>6. /\ DOMAIN y.values = DOMAIN x.values \union {k} /\ y.values[k] = v
      /\ \A l \in DOMAIN x.values : l # k => y.values[l] = x.values[l]
  <2> DEFINE w == Cfg!With(x.values, k, v)
  <2>1. /\ DOMAIN w = DOMAIN x.values \union {k} /\ w[k] = v
        /\ \A l \in DOMAIN x.values : l # k => w[l] = x.values[l]
    <3>1. k \in Standing
      BY <1>2
    <3>2. QED
      BY <1>5, <3>1, WithIs, Zenon
  <2> HIDE DEF w
  <2>2. y.values = w
    BY <1>4, Zenon DEF w
  <2>3. QED
    BY <2>1, <2>2
<1>7. QED
  BY <1>3, <1>6, Zenon DEF y, e

\* The values g are the values f, with those of some keys.
Puts(f, g, vals, S) ==
    /\ DOMAIN g = DOMAIN f \union S
    /\ \A k \in S : g[k] = vals[k]
    /\ \A k \in DOMAIN f \ S : g[k] = f[k]

\* What y knows is what x knows, with the values of some keys.
Adds(x, y, vals, S) ==
    y \in LoadState /\ y.section = x.section /\ Puts(x.values, y.values, vals, S)

\* The entries of some keys, read below their section.
LEMMA EntriesRead ==
    ASSUME NEW x \in LoadState, NEW vals, NEW S \in SUBSET Pairs,
           \A k \in S : k[1] = x.section /\ vals[k] \in Cfg!Values
    PROVE  Adds(x, Run(ReadStep, x, Cfg!Entries(vals, S)), vals, S)
<1> DEFINE list == Cfg!Entries(vals, S)
           m == Len(list)
           y == Run(ReadStep, x, list)
<1>1. /\ list \in Seq(Row)
      /\ \A i \in 1..m : \E k \in S : list[i] = Cfg!Entry(k, vals[k])
      /\ \A k \in S : \E i \in 1..m : list[i] = Cfg!Entry(k, vals[k])
  BY EntriesAre
<1>2. m \in Nat /\ \A i \in 1..m : list[i] \in Row
  BY <1>1, LenProperties, ElementOfSeq
<1> HIDE DEF list
<1>3. PICK h : Way(h, ReadStep, LoadState, x, list)
  <2>1. IsStep(ReadStep, LoadState, Row)
    BY ReadSteps
  <2>2. QED
    BY <1>1, <2>1, RunSteps
<1>4. /\ h \in [0..m -> LoadState] /\ h[0] = x /\ h[m] = y
      /\ \A n \in 1..m : h[n] = ReadStep[<<h[n - 1], list[n]>>]
  BY <1>3, Zenon DEF Way, Goes
<1> DEFINE Good(n) ==
             /\ h[n].section = x.section
             /\ DOMAIN x.values \subseteq DOMAIN h[n].values
             /\ DOMAIN h[n].values \subseteq DOMAIN x.values \union S
             /\ \A k \in DOMAIN x.values \ S : h[n].values[k] = x.values[k]
             /\ \A k \in S : \A i \in 1..n : list[i] = Cfg!Entry(k, vals[k]) =>
                   k \in DOMAIN h[n].values /\ h[n].values[k] = vals[k]
           good == {n \in 0..m : Good(n)}
<1> HIDE DEF m, y
<1>5. 0 \in good
  BY <1>2, <1>4
<1>6. ASSUME NEW n \in 1..m, n - 1 \in good
      PROVE  n \in good
  <2>1. n \in 0..m /\ n - 1 \in 0..m /\ Good(n - 1)
    BY <1>2, <1>6
  <2>2. PICK k \in S : list[n] = Cfg!Entry(k, vals[k])
    BY <1>1
  <2> DEFINE a == h[n - 1]
             b == h[n]
  <2>3. a \in LoadState /\ b = Cfg!ReadRow(a, Cfg!Entry(k, vals[k]))
    <3>1. a \in LoadState
      BY <1>4, <2>1
    <3>2. b = ReadStep[<<a, list[n]>>] /\ list[n] \in Row
      BY <1>2, <1>4
    <3>3. QED
      BY <2>2, <3>1, <3>2, ReadSteps
  <2>4. a.section = x.section /\ k[1] = a.section /\ vals[k] \in Cfg!Values /\ k \in Pairs
    BY <2>1
  <2> HIDE DEF a, b
  <2>5. /\ b \in LoadState /\ b.section = a.section
        /\ DOMAIN b.values = DOMAIN a.values \union {k} /\ b.values[k] = vals[k]
        /\ \A l \in DOMAIN a.values : l # k => b.values[l] = a.values[l]
    BY <2>3, <2>4, EntryRead, Zenon
  <2>6. \A l \in S : \A i \in 1..n : list[i] = Cfg!Entry(l, vals[l]) =>
           l \in DOMAIN b.values /\ b.values[l] = vals[l]
    <3>1. SUFFICES ASSUME NEW l \in S, NEW i \in 1..n, list[i] = Cfg!Entry(l, vals[l])
                   PROVE  l \in DOMAIN b.values /\ b.values[l] = vals[l]
      BY Zenon
    <3>2. CASE i = n
      <4>1. Cfg!Entry(l, vals[l]) = Cfg!Entry(k, vals[k]) /\ l \in Pairs
        BY <2>2, <3>1, <3>2
      <4>2. l[2] = k[2]
        <5>1. Cfg!Entry(l, vals[l]).key = l[2] /\ Cfg!Entry(k, vals[k]).key = k[2]
          BY <2>4, <4>1, RowsAre
        <5>2. QED
          BY <4>1, <5>1, Zenon
      <4>3. l[1] = k[1]
        BY <2>4
      <4>4. l = k
        BY <2>4, <4>1, <4>2, <4>3 DEF Pairs
      <4>5. QED
        BY <2>5, <4>4
    <3>3. CASE i # n
      <4>1. i \in 1..(n - 1)
        BY <1>2, <3>3
      <4>2. l \in DOMAIN a.values /\ a.values[l] = vals[l]
        BY <2>1, <3>1, <4>1 DEF a
      <4>3. QED
        BY <2>5, <4>2
    <3>4. QED
      BY <3>2, <3>3
  <2>7. Good(n)
    <3>1. /\ a.section = x.section
          /\ DOMAIN x.values \subseteq DOMAIN a.values
          /\ DOMAIN a.values \subseteq DOMAIN x.values \union S
          /\ \A l \in DOMAIN x.values \ S : a.values[l] = x.values[l]
      BY <2>1 DEF a
    <3>2. /\ b.section = x.section
          /\ DOMAIN x.values \subseteq DOMAIN b.values
          /\ DOMAIN b.values \subseteq DOMAIN x.values \union S
          /\ \A l \in DOMAIN x.values \ S : b.values[l] = x.values[l]
      BY <2>5, <3>1
    <3>3. QED
      BY <2>6, <3>2 DEF b
  <2>8. QED
    BY <2>1, <2>7
<1>7. \A n \in 0..m : n \in good
  <2> HIDE DEF good
  <2>1. QED
    BY <1>2, <1>5, <1>6, GoesOn
<1>8. m \in 0..m /\ Good(m) /\ y \in LoadState
  BY <1>2, <1>4, <1>7
<1>9. /\ y.section = x.section
      /\ DOMAIN x.values \subseteq DOMAIN y.values
      /\ DOMAIN y.values \subseteq DOMAIN x.values \union S
      /\ \A k \in DOMAIN x.values \ S : y.values[k] = x.values[k]
      /\ \A k \in S : \A i \in 1..m : list[i] = Cfg!Entry(k, vals[k]) =>
            k \in DOMAIN y.values /\ y.values[k] = vals[k]
  BY <1>4, <1>8
<1>10. \A k \in S : k \in DOMAIN y.values /\ y.values[k] = vals[k]
  BY <1>1, <1>9 DEF m
<1>11. DOMAIN y.values = DOMAIN x.values \union S
  BY <1>9, <1>10
<1>12. Adds(x, y, vals, S)
  BY <1>8, <1>9, <1>10, <1>11, Zenon DEF Adds, Puts
<1>13. QED
  BY <1>12, Zenon DEF y, list

-----------------------------------------------------------------------------
(* ConfigFile: what is written.                                            *)

\* A file that was loaded and the values it is to hold.
Copied(c) ==
    /\ c.rows \in Seq(Row) /\ c.original = DOMAIN Cfg!Loaded(c.rows)
    /\ c.original \subseteq Pairs
    /\ c.values \in [DOMAIN c.values -> Cfg!Values] /\ DOMAIN c.values \subseteq Pairs

WriteState(c) == [section : AllSects, pending : SUBSET DOMAIN c.values,
                  fresh : SUBSET DOMAIN c.values, out : Seq(Row)]

\* What one row does to what is written so far, and to what is read of it.
HeadWritten(c, a, r, b) ==
    /\ b.section = r.head /\ b.pending = a.pending
    /\ b.fresh = {k \in a.fresh : k[1] # r.head}
    /\ After(b.out).section = r.head
    /\ Puts(After(a.out).values, After(b.out).values, c.values, {k \in a.fresh : k[1] = r.head})

EntryWritten(c, a, r, b, k) ==
    /\ b.section = a.section /\ b.fresh = a.fresh /\ After(b.out).section = a.section
    /\ k \in a.pending =>
          /\ b.pending = a.pending \ {k}
          /\ Puts(After(a.out).values, After(b.out).values, c.values, {k})
    /\ k \notin a.pending =>
          /\ b.pending = a.pending
          /\ k \in c.removed => After(b.out).values = After(a.out).values
          /\ k \notin c.removed => /\ DOMAIN After(b.out).values = DOMAIN After(a.out).values \union {k}
                                   /\ After(b.out).values[k] = r.value
                                   /\ \A l \in DOMAIN After(a.out).values :
                                         l # k => After(b.out).values[l] = After(a.out).values[l]

NoteWritten(a, b) ==
    /\ b.section = a.section /\ b.fresh = a.fresh /\ b.pending = a.pending
    /\ After(b.out) = After(a.out)

\* A row added to what is written.
LEMMA RowAdded ==
    ASSUME NEW out \in Seq(Row), NEW r \in Row
    PROVE  /\ Append(out, r) \in Seq(Row) /\ out \o <<r>> = Append(out, r)
           /\ After(Append(out, r)) = Cfg!ReadRow(After(out), r)
<1>1. Append(out, r) \in Seq(Row)
  OBVIOUS
<1>2. out \o <<r>> = Append(out, r)
  BY AppendIsConcat, Zenon
<1>3. After(Append(out, r)) = Cfg!ReadRow(After(out), r)
  BY AfterIs, Zenon
<1>4. QED
  BY <1>1, <1>2, <1>3, Zenon

\* The head of a section is followed by its new keys.
LEMMA HeadIsWritten ==
    ASSUME NEW c, Copied(c), NEW a \in WriteState(c), NEW r \in Row, Headed(r)
    PROVE  LET b == Cfg!WriteRow(c, a, r)
           IN  b \in WriteState(c) /\ HeadWritten(c, a, r, b)
<1> DEFINE b == Cfg!WriteRow(c, a, r)
           S == {k \in a.fresh : k[1] = r.head}
           left == {k \in a.fresh : k[1] # r.head}
           list == Cfg!Entries(c.values, S)
           row == Append(a.out, r)
           z == After(row)
           y == After(row \o list)
<1>1. /\ a.section \in AllSects /\ a.pending \subseteq DOMAIN c.values
      /\ a.fresh \subseteq DOMAIN c.values /\ a.out \in Seq(Row)
      /\ a = [section |-> a.section, pending |-> a.pending, fresh |-> a.fresh, out |-> a.out]
  BY DEF WriteState
<1>2. Cfg!IsHead(r) /\ r.head \in Sects
  BY DEF Headed
<1>3. b = [a EXCEPT !.section = r.head, !.fresh = left, !.out = @ \o <<r>> \o list]
  BY <1>2, Zenon DEF Cfg!WriteRow
<1>4. row \in Seq(Row) /\ a.out \o <<r>> = row /\ z = Cfg!ReadRow(After(a.out), r)
  BY <1>1, RowAdded, Zenon
<1>5. S \in SUBSET Pairs /\ \A k \in S : c.values[k] \in Cfg!Values
  BY <1>1 DEF Copied
<1>6. list \in Seq(Row)
  <2> HIDE DEF S
  <2>1. QED
    BY <1>5, EntriesAre, Zenon
<1>7. b = [section |-> r.head, pending |-> a.pending, fresh |-> left, out |-> row \o list]
  <2> DEFINE out == a.out \o <<r>> \o list
  <2>1. b = [a EXCEPT !.section = r.head, !.fresh = left, !.out = out]
    BY <1>3, Zenon
  <2>2. out = row \o list
    BY <1>4, Zenon
  <2> HIDE DEF out, left, b
  <2>3. b = [section |-> r.head, pending |-> a.pending, fresh |-> left, out |-> out]
    BY <1>1, <2>1
  <2>4. QED
    BY <2>2, <2>3, Zenon
<1>8. z \in LoadState /\ z.section = r.head /\ z.values = After(a.out).values
  <2>1. After(a.out) \in LoadState
    BY <1>1, AfterIs, Zenon
  <2>2. QED
    BY <1>4, <2>1, RowRead, Zenon
<1>9. y = Run(ReadStep, z, list)
  BY <1>4, <1>6, AfterIs, Zenon
<1>10. Adds(z, y, c.values, S)
  <2>1. \A k \in S : k[1] = z.section /\ c.values[k] \in Cfg!Values
    BY <1>5, <1>8
  <2> HIDE DEF S, z, y
  <2>2. QED
    BY <1>5, <1>8, <1>9, <2>1, EntriesRead, Zenon DEF list
<1>11. y.section = r.head /\ Puts(After(a.out).values, y.values, c.values, S)
  <2> HIDE DEF z, y, S
  <2>1. QED
    BY <1>8, <1>10, Zenon DEF Adds
<1>12. row \o list \in Seq(Row)
  <2> HIDE DEF row, list
  <2>1. QED
    BY <1>4, <1>6
<1>13. b \in WriteState(c)
  <2>1. r.head \in AllSects /\ left \subseteq DOMAIN c.values
    BY <1>1, <1>2 DEF AllSects
  <2> HIDE DEF b, row, list, left
  <2>2. QED
    BY <1>1, <1>7, <1>12, <2>1 DEF WriteState
<1>14. b.section = r.head /\ b.pending = a.pending /\ b.fresh = left /\ b.out = row \o list
  <2> HIDE DEF b, row, list, left
  <2>1. QED
    BY <1>7
<1>15. QED
  <2> HIDE DEF row, list
  <2>1. QED
    BY <1>11, <1>13, <1>14, Zenon DEF HeadWritten

\* An entry is replaced by the value of its key, left out or kept.
LEMMA EntryIsWritten ==
    ASSUME NEW c, Copied(c), NEW a \in WriteState(c), NEW r \in Row, Entered(r),
           After(a.out).section = a.section
    PROVE  LET b == Cfg!WriteRow(c, a, r)
           IN  b \in WriteState(c) /\ EntryWritten(c, a, r, b, <<a.section, r.key>>)
<1> DEFINE k == <<a.section, r.key>>
           b == Cfg!WriteRow(c, a, r)
           x == After(a.out)
<1>1. /\ a.section \in AllSects /\ a.pending \subseteq DOMAIN c.values
      /\ a.fresh \subseteq DOMAIN c.values /\ a.out \in Seq(Row)
      /\ a = [section |-> a.section, pending |-> a.pending, fresh |-> a.fresh, out |-> a.out]
  BY DEF WriteState
<1>2. ~Cfg!IsHead(r) /\ Cfg!IsEntry(r) /\ r.key \in Names /\ r.value \in Cfg!Values
  BY DEF Entered
<1>3. x \in LoadState /\ x.section = a.section
  BY <1>1, AfterIs, Zenon
<1>4. b = IF k \in a.pending
          THEN [a EXCEPT !.out = Append(@, Cfg!Entry(k, c.values[k])), !.pending = @ \ {k}]
          ELSE IF k \in c.removed THEN a ELSE [a EXCEPT !.out = Append(@, r)]
  BY <1>2, Zenon DEF Cfg!WriteRow, Cfg!Dropped
<1> HIDE DEF k, b, x
<1>5. ASSUME k \in a.pending
      PROVE  b \in WriteState(c) /\ EntryWritten(c, a, r, b, k)
  <2> DEFINE e == Cfg!Entry(k, c.values[k])
             out == Append(a.out, e)
             left == a.pending \ {k}
             y == After(out)
  <2>1. k \in Pairs /\ c.values[k] \in Cfg!Values
    BY <1>1, <1>5 DEF Copied
  <2>2. e \in Row
    BY <2>1, RowsAre
  <2>3. out \in Seq(Row) /\ y = Cfg!ReadRow(x, e)
    BY <1>1, <2>2, RowAdded, Zenon DEF x
  <2>4. k[1] = x.section
    BY <1>3 DEF k
  <2>5. /\ y \in LoadState /\ y.section = x.section
        /\ DOMAIN y.values = DOMAIN x.values \union {k} /\ y.values[k] = c.values[k]
        /\ \A l \in DOMAIN x.values : l # k => y.values[l] = x.values[l]
    <3> HIDE DEF y
    <3>1. QED
      BY <1>3, <2>1, <2>3, <2>4, EntryRead, Zenon DEF e
  <2>6. b = [section |-> a.section, pending |-> left, fresh |-> a.fresh, out |-> out]
    <3>1. b = [a EXCEPT !.out = out, !.pending = left]
      BY <1>4, <1>5, Zenon
    <3> HIDE DEF out, left
    <3>2. QED
      BY <1>1, <3>1
  <2>7. b \in WriteState(c)
    <3>1. left \subseteq DOMAIN c.values
      BY <1>1
    <3> HIDE DEF out, left
    <3>2. QED
      BY <1>1, <2>3, <2>6, <3>1 DEF WriteState
  <2> HIDE DEF out, y
  <2>8. b.section = a.section /\ b.pending = left /\ b.fresh = a.fresh /\ b.out = out
    BY <2>6
  <2>9. Puts(x.values, y.values, c.values, {k})
    BY <2>5 DEF Puts
  <2>10. QED
    BY <1>3, <1>5, <2>5, <2>7, <2>8, <2>9, Zenon DEF EntryWritten, x, y
<1>6. ASSUME k \notin a.pending, k \in c.removed
      PROVE  b \in WriteState(c) /\ EntryWritten(c, a, r, b, k)
  <2>1. b = a
    BY <1>4, <1>6, Zenon
  <2>2. QED
    BY <1>3, <1>6, <2>1, Zenon DEF EntryWritten, x
<1>7. ASSUME k \notin a.pending, k \notin c.removed
      PROVE  b \in WriteState(c) /\ EntryWritten(c, a, r, b, k)
  <2> DEFINE out == Append(a.out, r)
             y == After(out)
             new == Cfg!With(x.values, k, r.value)
  <2>1. b = [a EXCEPT !.out = Append(@, r)]
    BY <1>4, <1>7, Zenon
  <2>2. out \in Seq(Row) /\ y = Cfg!ReadRow(x, r)
    BY <1>1, RowAdded, Zenon DEF x
  <2>3. y \in LoadState /\ y.section = a.section /\ y.values = new
    <3>1. y.values = Cfg!With(x.values, <<x.section, r.key>>, r.value)
      <4> HIDE DEF y
      <4>1. QED
        BY <1>3, <2>2, RowRead, Zenon
    <3>2. y \in LoadState /\ y.section = x.section
      <4> HIDE DEF y
      <4>1. QED
        BY <1>3, <2>2, RowRead, Zenon
    <3>3. QED
      BY <1>3, <3>1, <3>2, Zenon DEF k
  <2>4. k \in Standing /\ x.values \in LoadedValues
    BY <1>1, <1>2, <1>3 DEF k, Standing, LoadState
  <2>5. /\ DOMAIN new = DOMAIN x.values \union {k} /\ new[k] = r.value
        /\ \A l \in DOMAIN x.values : l # k => new[l] = x.values[l]
    BY <1>2, <2>4, WithIs, Zenon
  <2>6. b = [section |-> a.section, pending |-> a.pending, fresh |-> a.fresh, out |-> out]
    BY <1>1, <2>1
  <2>7. b \in WriteState(c)
    <3> HIDE DEF out
    <3>1. QED
      BY <1>1, <2>2, <2>6 DEF WriteState
  <2> HIDE DEF out, y, new
  <2>8. b.section = a.section /\ b.pending = a.pending /\ b.fresh = a.fresh /\ b.out = out
    BY <2>6
  <2>9. QED
    BY <1>7, <2>3, <2>5, <2>7, <2>8, Zenon DEF EntryWritten, x, y
<1>8. QED
  BY <1>5, <1>6, <1>7, Zenon DEF b, k

\* Any other row is kept.
LEMMA NoteIsWritten ==
    ASSUME NEW c, Copied(c), NEW a \in WriteState(c), NEW r \in Row, Noted(r)
    PROVE  LET b == Cfg!WriteRow(c, a, r)
           IN  b \in WriteState(c) /\ NoteWritten(a, b)
<1> DEFINE b == Cfg!WriteRow(c, a, r)
           out == Append(a.out, r)
<1>1. /\ a.section \in AllSects /\ a.pending \subseteq DOMAIN c.values
      /\ a.fresh \subseteq DOMAIN c.values /\ a.out \in Seq(Row)
      /\ a = [section |-> a.section, pending |-> a.pending, fresh |-> a.fresh, out |-> a.out]
  BY DEF WriteState
<1>2. b = [a EXCEPT !.out = Append(@, r)]
  BY Zenon DEF Noted, Cfg!WriteRow
<1>3. out \in Seq(Row) /\ After(out) = Cfg!ReadRow(After(a.out), r) /\ After(a.out) \in LoadState
  BY <1>1, RowAdded, AfterIs, Zenon
<1>4. After(out) = After(a.out)
  <2> HIDE DEF out
  <2>1. QED
    BY <1>3, RowRead, Zenon
<1>5. b = [section |-> a.section, pending |-> a.pending, fresh |-> a.fresh, out |-> out]
  BY <1>1, <1>2
<1> HIDE DEF b, out
<1>6. b \in WriteState(c)
  BY <1>1, <1>3, <1>5 DEF WriteState
<1>7. b.section = a.section /\ b.pending = a.pending /\ b.fresh = a.fresh /\ b.out = out
  BY <1>5
<1>8. QED
  BY <1>4, <1>6, <1>7, Zenon DEF NoteWritten, b

\* What is read of what is written so far is in the section that is written.
Written(c) == {a \in WriteState(c) : After(a.out).section = a.section}

WriteStep(c) == [p \in Written(c) \X Row |-> Cfg!WriteRow(c, p[1], p[2])]

Writes(f, c, start) ==
    /\ f[0] = start
    /\ \A n \in 1..Len(c.rows) : f[n] = Cfg!WriteRow(c, f[n - 1], c.rows[n])
    /\ \A n \in 0..Len(c.rows) : f[n] \in Written(c)

\* Writing a row keeps it so.
LEMMA WriteSteps ==
    ASSUME NEW c, Copied(c)
    PROVE  /\ IsStep(WriteStep(c), Written(c), Row)
           /\ \A a \in Written(c), r \in Row :
                 WriteStep(c)[<<a, r>>] = Cfg!WriteRow(c, a, r) /\ Cfg!WriteRow(c, a, r) \in Written(c)
<1>1. ASSUME NEW a \in Written(c), NEW r \in Row
      PROVE  Cfg!WriteRow(c, a, r) \in Written(c)
  <2> DEFINE b == Cfg!WriteRow(c, a, r)
  <2>1. a \in WriteState(c) /\ After(a.out).section = a.section
    BY Zenon DEF Written
  <2>2. CASE Headed(r)
    <3>1. b \in WriteState(c) /\ HeadWritten(c, a, r, b)
      BY <2>1, <2>2, HeadIsWritten, Zenon
    <3>2. QED
      BY <3>1, Zenon DEF HeadWritten, Written
  <2>3. CASE Entered(r)
    <3>1. b \in WriteState(c) /\ EntryWritten(c, a, r, b, <<a.section, r.key>>)
      BY <2>1, <2>3, EntryIsWritten, Zenon
    <3>2. QED
      BY <3>1, Zenon DEF EntryWritten, Written
  <2>4. CASE Noted(r)
    <3>1. b \in WriteState(c) /\ NoteWritten(a, b)
      BY <2>1, <2>4, NoteIsWritten, Zenon
    <3>2. QED
      BY <2>1, <3>1, Zenon DEF NoteWritten, Written
  <2>5. QED
    BY <2>2, <2>3, <2>4, RowKinds, Zenon
<1>2. QED
  BY <1>1 DEF WriteStep, IsStep

\* Each of the two loops ends, with a step for each row.
LEMMA WritingIs ==
    ASSUME NEW c, Copied(c), NEW start \in Written(c)
    PROVE  Writes(Cfg!Writing(c, start), c, start)
<1> DEFINE rows == c.rows
           m == Len(rows)
           new(f, n) == IF n = 0 THEN start ELSE Cfg!WriteRow(c, f[n - 1], rows[n])
           Write(f) == f = [n \in 0..m |-> new(f, n)]
<1>0. rows \in Seq(Row)
  BY DEF Copied
<1> HIDE DEF rows
<1>1. /\ m \in Nat /\ 0 \in 0..m
      /\ \A n \in 1..m : n \in 0..m /\ n - 1 \in 0..m /\ n # 0
      /\ \A n \in 0..m : n = 0 \/ n \in 1..m
  BY <1>0
<1>2. \A n \in 1..m : rows[n] \in Row
  BY <1>0, LenProperties, ElementOfSeq
<1>3. PICK g : Way(g, WriteStep(c), Written(c), start, rows)
  <2>1. IsStep(WriteStep(c), Written(c), Row)
    BY WriteSteps
  <2>2. QED
    BY <1>0, <2>1, RunSteps
<1>4. g \in [0..m -> Written(c)] /\ Goes(g, WriteStep(c), start, rows)
  BY <1>3, Zenon DEF Way
<1>5. g[0] = start /\ \A n \in 1..m : g[n] = Cfg!WriteRow(c, g[n - 1], rows[n])
  <2>1. g[0] = start /\ \A n \in 1..m : g[n] = WriteStep(c)[<<g[n - 1], rows[n]>>]
    BY <1>4, Zenon DEF Goes
  <2>2. \A n \in 1..m : g[n - 1] \in Written(c)
    <3> HIDE DEF m
    <3>1. QED
      BY <1>1, <1>4, Zenon
  <2>3. QED
    BY <1>2, <2>1, <2>2, WriteSteps, Zenon
<1>6. Write(g)
  <2> HIDE DEF m
  <2>1. DOMAIN g = 0..m /\ g = [n \in 0..m |-> g[n]]
    BY <1>4
  <2>2. \A n \in 0..m : g[n] = new(g, n)
    BY <1>1, <1>5, Zenon
  <2>3. g = [n \in 0..m |-> new(g, n)]
    <3> HIDE DEF new
    <3>1. QED
      BY <2>1, <2>2
  <2>4. QED
    BY <2>3, Zenon
<1> DEFINE f == CHOOSE h : Write(h)
<1>7. Write(f)
  BY <1>6, Zenon
<1>8. Cfg!Writing(c, start) = f
  BY Zenon DEF Cfg!Writing, rows
<1> HIDE DEF f
<1>9. f[0] = start /\ \A n \in 1..m : f[n] = Cfg!WriteRow(c, f[n - 1], rows[n])
  <2> HIDE DEF m
  <2>1. f = [n \in 0..m |-> new(f, n)]
    BY <1>7, Zenon
  <2> HIDE DEF new
  <2>2. \A n \in 0..m : f[n] = new(f, n)
    BY <2>1
  <2>3. QED
    BY <1>1, <2>2, Zenon DEF new
<1>10. \A n \in 0..m : f[n] \in Written(c)
  <2>1. \A n \in 1..m : f[n - 1] \in Written(c) => f[n] \in Written(c)
    BY <1>2, <1>9, WriteSteps, Zenon
  <2> HIDE DEF m
  <2>2. QED
    BY <1>1, <1>9, <2>1, Reached, Zenon
<1>11. QED
  BY <1>8, <1>9, <1>10, Zenon DEF Writes, rows

\* What is known of a file only grows while its rows are read.
LEMMA ReadGrows ==
    ASSUME NEW rows \in Seq(Row), NEW h, Reads(h, rows)
    PROVE  \A n \in 0..Len(rows) : DOMAIN h[n].values \subseteq DOMAIN h[Len(rows)].values
<1> DEFINE m == Len(rows)
           S == {i \in 0..m : DOMAIN h[m - i].values \subseteq DOMAIN h[m].values}
<1>1. m \in Nat /\ \A n \in 1..m : rows[n] \in Row
  BY LenProperties, ElementOfSeq
<1>2. /\ \A n \in 1..m : h[n] = Cfg!ReadRow(h[n - 1], rows[n])
      /\ \A n \in 0..m : h[n] \in LoadState
  BY Zenon DEF Reads
<1> HIDE DEF m
<1>3. ASSUME NEW n \in 1..m
      PROVE  DOMAIN h[n - 1].values \subseteq DOMAIN h[n].values
  <2> DEFINE a == h[n - 1]
             b == h[n]
  <2>1. n - 1 \in 0..m
    BY <1>1
  <2>2. a \in LoadState /\ b = Cfg!ReadRow(a, rows[n]) /\ rows[n] \in Row
    BY <1>1, <1>2, <2>1, Zenon
  <2> HIDE DEF a, b
  <2>3. CASE Entered(rows[n])
    <3> DEFINE k == <<a.section, rows[n].key>>
               v == rows[n].value
    <3>1. b.values = Cfg!With(a.values, k, v)
      BY <2>2, <2>3, RowRead, Zenon
    <3>2. k \in Standing
      BY <2>2, <2>3, StandingIs, Zenon
    <3>3. a.values \in LoadedValues /\ v \in Cfg!Values
      BY <2>2, <2>3 DEF LoadState, Entered
    <3> HIDE DEF k, v
    <3>4. DOMAIN Cfg!With(a.values, k, v) = DOMAIN a.values \union {k}
      BY <3>2, <3>3, WithIs, Zenon
    <3>5. DOMAIN a.values \subseteq DOMAIN b.values
      BY <3>1, <3>4
    <3>6. QED
      BY <3>5, Zenon DEF a, b
  <2>4. CASE ~Entered(rows[n])
    <3>1. b.values = a.values
      BY <2>2, <2>4, RowRead, RowKinds, Zenon
    <3>2. QED
      BY <3>1 DEF a, b
  <2>5. QED
    BY <2>3, <2>4
<1>4. 0 \in S
  BY <1>1
<1>5. ASSUME NEW i \in 1..m, i - 1 \in S PROVE i \in S
  <2>1. i \in 0..m /\ m - i + 1 \in 1..m /\ m - (i - 1) = m - i + 1 /\ (m - i + 1) - 1 = m - i
    BY <1>1
  <2>2. DOMAIN h[m - (i - 1)].values \subseteq DOMAIN h[m].values
    BY <1>5
  <2>3. DOMAIN h[(m - i + 1) - 1].values \subseteq DOMAIN h[m - i + 1].values
    BY <1>3, <2>1
  <2>4. DOMAIN h[m - i].values \subseteq DOMAIN h[m - i + 1].values
    BY <2>1, <2>3
  <2>5. DOMAIN h[m - i].values \subseteq DOMAIN h[m].values
    BY <2>1, <2>2, <2>4
  <2>6. QED
    BY <2>1, <2>5
<1>6. \A i \in 0..m : i \in S
  <2> HIDE DEF S
  <2>1. QED
    BY <1>1, <1>4, <1>5, GoesOn
<1>7. ASSUME NEW n \in 0..m PROVE DOMAIN h[n].values \subseteq DOMAIN h[m].values
  <2>1. m - n \in 0..m /\ m - (m - n) = n
    BY <1>1
  <2>2. DOMAIN h[m - (m - n)].values \subseteq DOMAIN h[m].values
    BY <1>6, <2>1
  <2>3. QED
    BY <2>1, <2>2
<1>8. QED
  BY <1>7, Zenon DEF m

\* What one row does to what is known of the file.
HeadKnown(g, h, r) == h.section = r.head /\ h.values = g.values

EntryKnown(g, h, r, k) ==
    /\ h.section = g.section
    /\ DOMAIN h.values = DOMAIN g.values \union {k} /\ h.values[k] = r.value
    /\ \A l \in DOMAIN g.values : l # k => h.values[l] = g.values[l]

\* The rows of a file that was loaded: each entry stands below a head.
LEMMA RowKnown ==
    ASSUME NEW c, Copied(c), NEW n \in 1..Len(c.rows)
    PROVE  LET g == Cfg!Reading(c.rows)[n - 1]
               h == Cfg!Reading(c.rows)[n]
               r == c.rows[n]
           IN  /\ g \in LoadState /\ h \in LoadState /\ r \in Row
               /\ DOMAIN g.values \subseteq c.original /\ DOMAIN h.values \subseteq c.original
               /\ Headed(r) => HeadKnown(g, h, r)
               /\ Entered(r) => /\ EntryKnown(g, h, r, <<g.section, r.key>>)
                                /\ <<g.section, r.key>> \in c.original
                                /\ g.section \in Sects
               /\ Noted(r) => h = g
<1> DEFINE f == Cfg!Reading(c.rows)
           m == Len(c.rows)
           g == f[n - 1]
           h == f[n]
           r == c.rows[n]
<1>1. c.rows \in Seq(Row) /\ c.original = DOMAIN Cfg!Loaded(c.rows) /\ c.original \subseteq Pairs
  BY DEF Copied
<1>2. Reads(f, c.rows)
  BY <1>1, ReadingIs, Zenon
<1>3. Cfg!Loaded(c.rows) = f[m].values
  BY Zenon DEF Cfg!Loaded
<1>4. m \in Nat /\ r \in Row
  BY <1>1, LenProperties, ElementOfSeq
<1>5. \A i \in 0..m : DOMAIN f[i].values \subseteq c.original
  BY <1>1, <1>2, <1>3, ReadGrows, Zenon
<1>6. n \in 0..m /\ n - 1 \in 0..m
  BY <1>4
<1>7. g \in LoadState /\ h \in LoadState /\ h = Cfg!ReadRow(g, r)
  BY <1>2, <1>6, Zenon DEF Reads
<1>8. DOMAIN g.values \subseteq c.original /\ DOMAIN h.values \subseteq c.original
  BY <1>5, <1>6, Zenon
<1> HIDE DEF f, r, m, g, h
<1>9. Headed(r) => HeadKnown(g, h, r)
  BY <1>4, <1>7, RowRead, Zenon DEF HeadKnown
<1>10. Noted(r) => h = g
  BY <1>4, <1>7, RowRead, Zenon
<1>11. ASSUME Entered(r)
       PROVE  /\ EntryKnown(g, h, r, <<g.section, r.key>>)
              /\ <<g.section, r.key>> \in c.original /\ g.section \in Sects
  <2> DEFINE k == <<g.section, r.key>>
             v == r.value
  <2>1. h.section = g.section /\ h.values = Cfg!With(g.values, k, v)
    BY <1>4, <1>7, <1>11, RowRead, Zenon
  <2>2. k \in Standing
    BY <1>4, <1>7, <1>11, StandingIs, Zenon
  <2>3. g.values \in LoadedValues /\ v \in Cfg!Values
    BY <1>7, <1>11 DEF LoadState, Entered
  <2>4. k[1] = g.section
    OBVIOUS
  <2> HIDE DEF k, v
  <2>5. /\ DOMAIN Cfg!With(g.values, k, v) = DOMAIN g.values \union {k}
        /\ Cfg!With(g.values, k, v)[k] = v
        /\ \A l \in DOMAIN g.values : l # k => Cfg!With(g.values, k, v)[l] = g.values[l]
    BY <2>2, <2>3, WithIs, Zenon
  <2>6. /\ DOMAIN h.values = DOMAIN g.values \union {k} /\ h.values[k] = v
        /\ \A l \in DOMAIN g.values : l # k => h.values[l] = g.values[l]
    BY <2>1, <2>5, Zenon
  <2>7. k \in c.original
    BY <1>8, <2>6
  <2>8. g.section \in Sects
    BY <1>1, <2>4, <2>7 DEF Pairs
  <2>9. EntryKnown(g, h, r, k)
    BY <2>1, <2>6, Zenon DEF EntryKnown, v
  <2>10. QED
    BY <2>7, <2>8, <2>9, Zenon DEF k
<1>12. QED
  BY <1>4, <1>7, <1>8, <1>9, <1>10, <1>11, Zenon DEF f, r, m, g, h

\* What the first loop has done: a key that has a value and was met in the file
\* is written; of a key that was removed nothing is left but its new value.
FirstLoop(c, h, a) ==
    LET x == After(a.out).values
    IN  /\ a.section = h.section /\ a.fresh = {}
        /\ a.pending = DOMAIN c.values \ DOMAIN h.values
        /\ DOMAIN x \subseteq DOMAIN h.values
        /\ \A k \in c.removed \intersect DOMAIN h.values :
              /\ k \in DOMAIN x <=> k \in DOMAIN c.values
              /\ k \in DOMAIN x => x[k] = c.values[k]

\* What the second loop has done: the keys of the file are as they were read, but
\* for the removed ones, and each new key is written, or waits for its section.
SecondLoop(c, h, a) ==
    LET x == After(a.out).values
    IN  /\ h.section # Cfg!NoSection => a.section = h.section
        /\ a.pending = DOMAIN c.values \ c.original
        /\ a.fresh \subseteq DOMAIN c.values \ c.original
        /\ DOMAIN x \subseteq c.original \union DOMAIN c.values
        /\ \A k \in c.original \intersect c.removed :
              /\ k \in DOMAIN x <=> k \in DOMAIN c.values
              /\ k \in DOMAIN x => x[k] = c.values[k]
        /\ \A k \in DOMAIN h.values \ c.removed : k \in DOMAIN x /\ x[k] = h.values[k]
        /\ \A k \in (DOMAIN c.values \ c.original) \ a.fresh : k \in DOMAIN x /\ x[k] = c.values[k]

\* A turn of the first loop.
LEMMA FirstTurn ==
    ASSUME NEW c, Copied(c), NEW n \in 1..Len(c.rows), NEW a \in Written(c),
           FirstLoop(c, Cfg!Reading(c.rows)[n - 1], a)
    PROVE  FirstLoop(c, Cfg!Reading(c.rows)[n], Cfg!WriteRow(c, a, c.rows[n]))
<1> DEFINE g == Cfg!Reading(c.rows)[n - 1]
           h == Cfg!Reading(c.rows)[n]
           r == c.rows[n]
           b == Cfg!WriteRow(c, a, r)
           x == After(a.out).values
           y == After(b.out).values
           k == <<g.section, r.key>>
<1>1. /\ g \in LoadState /\ h \in LoadState /\ r \in Row
      /\ DOMAIN g.values \subseteq c.original /\ DOMAIN h.values \subseteq c.original
      /\ Headed(r) => HeadKnown(g, h, r)
      /\ Entered(r) => EntryKnown(g, h, r, k)
      /\ Noted(r) => h = g
  BY RowKnown, Zenon
<1>2. a \in WriteState(c) /\ After(a.out).section = a.section
  BY Zenon DEF Written
<1>3. Headed(r) => HeadWritten(c, a, r, b)
  BY <1>1, <1>2, HeadIsWritten, Zenon
<1>4. Entered(r) => EntryWritten(c, a, r, b, <<a.section, r.key>>)
  BY <1>1, <1>2, EntryIsWritten, Zenon
<1>5. Noted(r) => NoteWritten(a, b)
  BY <1>1, <1>2, NoteIsWritten, Zenon
<1>6. /\ a.section = g.section /\ a.fresh = {}
      /\ a.pending = DOMAIN c.values \ DOMAIN g.values
      /\ DOMAIN x \subseteq DOMAIN g.values
      /\ \A l \in c.removed \intersect DOMAIN g.values :
            /\ l \in DOMAIN x <=> l \in DOMAIN c.values
            /\ l \in DOMAIN x => x[l] = c.values[l]
  BY Zenon DEF FirstLoop
<1>7. SUFFICES
        /\ b.section = h.section /\ b.fresh = {}
        /\ b.pending = DOMAIN c.values \ DOMAIN h.values
        /\ DOMAIN y \subseteq DOMAIN h.values
        /\ \A l \in c.removed \intersect DOMAIN h.values :
              /\ l \in DOMAIN y <=> l \in DOMAIN c.values
              /\ l \in DOMAIN y => y[l] = c.values[l]
  BY Zenon DEF FirstLoop
<1> HIDE DEF g, h, r, b
<1>8. CASE Headed(r)
  <2>1. /\ b.section = r.head /\ b.pending = a.pending
        /\ b.fresh = {l \in a.fresh : l[1] # r.head}
        /\ Puts(x, y, c.values, {l \in a.fresh : l[1] = r.head})
        /\ h.section = r.head /\ h.values = g.values
    BY <1>1, <1>3, <1>8, Zenon DEF HeadWritten, HeadKnown
  <2> HIDE DEF x, y
  <2>2. {l \in a.fresh : l[1] # r.head} = {} /\ {l \in a.fresh : l[1] = r.head} = {}
    BY <1>6
  <2>3. Puts(x, y, c.values, {}) /\ b.fresh = {}
    BY <2>1, <2>2, Zenon
  <2>4. DOMAIN y = DOMAIN x /\ \A l \in DOMAIN x : y[l] = x[l]
    BY <2>3 DEF Puts
  <2>5. QED
    BY <1>6, <2>1, <2>3, <2>4
<1>9. CASE Entered(r)
  <2>1. EntryKnown(g, h, r, k) /\ EntryWritten(c, a, r, b, k)
    BY <1>1, <1>4, <1>6, <1>9, Zenon
  <2>2. /\ b.section = a.section /\ b.fresh = a.fresh
        /\ k \in a.pending => b.pending = a.pending \ {k} /\ Puts(x, y, c.values, {k})
        /\ k \notin a.pending =>
              /\ b.pending = a.pending
              /\ k \in c.removed => y = x
              /\ k \notin c.removed => /\ DOMAIN y = DOMAIN x \union {k}
                                       /\ \A l \in DOMAIN x : l # k => y[l] = x[l]
    BY <2>1, Zenon DEF EntryWritten
  <2>3. h.section = g.section /\ DOMAIN h.values = DOMAIN g.values \union {k}
    BY <2>1, Zenon DEF EntryKnown
  <2> HIDE DEF x, y, k
  <2>4. CASE k \in a.pending
    <3>1. /\ DOMAIN y = DOMAIN x \union {k} /\ y[k] = c.values[k]
          /\ \A l \in DOMAIN x : l # k => y[l] = x[l]
      BY <2>2, <2>4 DEF Puts
    <3>2. k \in DOMAIN c.values
      BY <1>6, <2>4
    <3>3. QED
      BY <1>6, <2>2, <2>3, <2>4, <3>1, <3>2
  <2>5. CASE k \notin a.pending /\ k \in c.removed
    BY <1>6, <2>2, <2>3, <2>5
  <2>6. CASE k \notin a.pending /\ k \notin c.removed
    BY <1>6, <2>2, <2>3, <2>6
  <2>7. QED
    BY <2>4, <2>5, <2>6
<1>10. CASE Noted(r)
  <2>1. NoteWritten(a, b) /\ h = g
    BY <1>1, <1>5, <1>10, Zenon
  <2>2. QED
    BY <1>6, <2>1, Zenon DEF NoteWritten
<1>11. QED
  BY <1>1, <1>8, <1>9, <1>10, RowKinds, Zenon

\* A turn of the second loop.
LEMMA SecondTurn ==
    ASSUME NEW c, Copied(c), NEW n \in 1..Len(c.rows), NEW a \in Written(c),
           SecondLoop(c, Cfg!Reading(c.rows)[n - 1], a)
    PROVE  SecondLoop(c, Cfg!Reading(c.rows)[n], Cfg!WriteRow(c, a, c.rows[n]))
<1> DEFINE g == Cfg!Reading(c.rows)[n - 1]
           h == Cfg!Reading(c.rows)[n]
           r == c.rows[n]
           b == Cfg!WriteRow(c, a, r)
           x == After(a.out).values
           y == After(b.out).values
           k == <<g.section, r.key>>
           V == DOMAIN c.values
           O == c.original
<1>1. /\ g \in LoadState /\ h \in LoadState /\ r \in Row
      /\ DOMAIN g.values \subseteq O /\ DOMAIN h.values \subseteq O
      /\ Headed(r) => HeadKnown(g, h, r)
      /\ Entered(r) => EntryKnown(g, h, r, k) /\ k \in O /\ g.section \in Sects
      /\ Noted(r) => h = g
  BY RowKnown, Zenon
<1>2. a \in WriteState(c) /\ After(a.out).section = a.section
  BY Zenon DEF Written
<1>3. Headed(r) => HeadWritten(c, a, r, b)
  BY <1>1, <1>2, HeadIsWritten, Zenon
<1>4. Entered(r) => EntryWritten(c, a, r, b, <<a.section, r.key>>)
  BY <1>1, <1>2, EntryIsWritten, Zenon
<1>5. Noted(r) => NoteWritten(a, b)
  BY <1>1, <1>2, NoteIsWritten, Zenon
<1>6. /\ g.section # Cfg!NoSection => a.section = g.section
      /\ a.pending = V \ O /\ a.fresh \subseteq V \ O
      /\ DOMAIN x \subseteq O \union V
      /\ \A l \in O \intersect c.removed :
            /\ l \in DOMAIN x <=> l \in V
            /\ l \in DOMAIN x => x[l] = c.values[l]
      /\ \A l \in DOMAIN g.values \ c.removed : l \in DOMAIN x /\ x[l] = g.values[l]
      /\ \A l \in (V \ O) \ a.fresh : l \in DOMAIN x /\ x[l] = c.values[l]
  BY Zenon DEF SecondLoop
<1>7. SUFFICES
      /\ h.section # Cfg!NoSection => b.section = h.section
      /\ b.pending = V \ O /\ b.fresh \subseteq V \ O
      /\ DOMAIN y \subseteq O \union V
      /\ \A l \in O \intersect c.removed :
            /\ l \in DOMAIN y <=> l \in V
            /\ l \in DOMAIN y => y[l] = c.values[l]
      /\ \A l \in DOMAIN h.values \ c.removed : l \in DOMAIN y /\ y[l] = h.values[l]
      /\ \A l \in (V \ O) \ b.fresh : l \in DOMAIN y /\ y[l] = c.values[l]
  BY Zenon DEF SecondLoop
<1> HIDE DEF g, h, r, b, V, O
<1>8. CASE Headed(r)
  <2> DEFINE S == {l \in a.fresh : l[1] = r.head}
  <2>1. /\ b.section = r.head /\ b.pending = a.pending
        /\ b.fresh = {l \in a.fresh : l[1] # r.head}
        /\ Puts(x, y, c.values, S)
        /\ h.section = r.head /\ h.values = g.values
    BY <1>1, <1>3, <1>8, Zenon DEF HeadWritten, HeadKnown
  <2> HIDE DEF x, y
  <2>2. b.fresh = a.fresh \ S /\ S \subseteq V \ O
    BY <1>6, <2>1
  <2> HIDE DEF S
  <2>3. /\ DOMAIN y = DOMAIN x \union S
        /\ \A l \in S : y[l] = c.values[l]
        /\ \A l \in DOMAIN x \ S : y[l] = x[l]
    BY <2>1, Zenon DEF Puts
  <2>4. b.fresh \subseteq V \ O /\ DOMAIN y \subseteq O \union V
    BY <1>6, <2>2, <2>3
  <2>5. \A l \in O \intersect c.removed :
            /\ l \in DOMAIN y <=> l \in V
            /\ l \in DOMAIN y => y[l] = c.values[l]
    BY <1>6, <2>2, <2>3
  <2>6. \A l \in DOMAIN h.values \ c.removed : l \in DOMAIN y /\ y[l] = h.values[l]
    BY <1>1, <1>6, <2>1, <2>2, <2>3
  <2>7. \A l \in (V \ O) \ b.fresh : l \in DOMAIN y /\ y[l] = c.values[l]
    BY <1>6, <2>2, <2>3
  <2>8. QED
    BY <1>6, <2>1, <2>4, <2>5, <2>6, <2>7, Zenon
<1>9. CASE Entered(r)
  <2>0. g.section # Cfg!NoSection
    BY <1>1, <1>9, KeysAre
  <2>1. EntryKnown(g, h, r, k) /\ EntryWritten(c, a, r, b, k) /\ k \in O
    BY <1>1, <1>4, <1>6, <1>9, <2>0, Zenon
  <2>2. k \notin a.pending
    BY <1>6, <2>1
  <2>3. /\ b.section = a.section /\ b.fresh = a.fresh /\ b.pending = a.pending
        /\ k \in c.removed => y = x
        /\ k \notin c.removed => /\ DOMAIN y = DOMAIN x \union {k} /\ y[k] = r.value
                                 /\ \A l \in DOMAIN x : l # k => y[l] = x[l]
    BY <2>1, <2>2, Zenon DEF EntryWritten
  <2>4. /\ h.section = g.section
        /\ DOMAIN h.values = DOMAIN g.values \union {k} /\ h.values[k] = r.value
        /\ \A l \in DOMAIN g.values : l # k => h.values[l] = g.values[l]
    BY <2>1, Zenon DEF EntryKnown
  <2> HIDE DEF x, y, k
  <2>5. CASE k \in c.removed
    <3>1. \A l \in DOMAIN h.values \ c.removed : l \in DOMAIN y /\ y[l] = h.values[l]
      BY <1>6, <2>3, <2>4, <2>5
    <3>2. QED
      BY <1>6, <2>3, <2>4, <2>5, <3>1, Zenon
  <2>6. CASE k \notin c.removed
    <3>1. DOMAIN y \subseteq O \union V
      BY <1>6, <2>1, <2>3, <2>6
    <3>2. \A l \in O \intersect c.removed :
            /\ l \in DOMAIN y <=> l \in V
            /\ l \in DOMAIN y => y[l] = c.values[l]
      BY <1>6, <2>3, <2>6
    <3>3. \A l \in DOMAIN h.values \ c.removed : l \in DOMAIN y /\ y[l] = h.values[l]
      BY <1>6, <2>3, <2>4, <2>6
    <3>4. \A l \in (V \ O) \ b.fresh : l \in DOMAIN y /\ y[l] = c.values[l]
      BY <1>6, <2>1, <2>3, <2>6
    <3>5. QED
      BY <1>6, <2>3, <2>4, <3>1, <3>2, <3>3, <3>4, Zenon
  <2>7. QED
    BY <2>5, <2>6
<1>10. CASE Noted(r)
  <2>1. NoteWritten(a, b) /\ h = g
    BY <1>1, <1>5, <1>10, Zenon
  <2>2. QED
    BY <1>6, <2>1, Zenon DEF NoteWritten
<1>11. QED
  BY <1>1, <1>8, <1>9, <1>10, RowKinds, Zenon

FirstStart(c) == [section |-> Cfg!NoSection, pending |-> DOMAIN c.values, fresh |-> {}, out |-> <<>>]
FirstEnd(c)   == Cfg!Writing(c, FirstStart(c))[Len(c.rows)]
SecondEnd(c)  == Cfg!Writing(c, [FirstEnd(c) EXCEPT !.fresh = FirstEnd(c).pending \ c.original])[Len(c.rows)]

\* The two loops of a save, as they end.
LEMMA LoopsEnd ==
    ASSUME NEW c, Copied(c)
    PROVE  SecondEnd(c) \in Written(c) /\ SecondLoop(c, Cfg!Reading(c.rows)[Len(c.rows)], SecondEnd(c))
<1> DEFINE m == Len(c.rows)
           h == Cfg!Reading(c.rows)
           start == FirstStart(c)
           f == Cfg!Writing(c, start)
           first == f[m]
           again == [first EXCEPT !.fresh = first.pending \ c.original]
           s == Cfg!Writing(c, again)
           V == DOMAIN c.values
           O == c.original
<1>1. c.rows \in Seq(Row) /\ O = DOMAIN Cfg!Loaded(c.rows) /\ O \subseteq Pairs
  BY DEF Copied
<1>2. /\ m \in Nat /\ 0 \in 0..m /\ m \in 0..m
      /\ \A n \in 1..m : n - 1 \in 0..m /\ n \in 0..m
  BY <1>1
<1>3. Reads(h, c.rows) /\ h[m].values = Cfg!Loaded(c.rows)
  BY <1>1, ReadingIs, Zenon DEF Cfg!Loaded
<1>4. h[0] = LoadStart /\ DOMAIN h[m].values = O
  BY <1>1, <1>3, Zenon DEF Reads
<1>5. start \in Written(c) /\ FirstLoop(c, h[0], start)
  <2>1. <<>> \in Seq(Row) /\ After(<<>>) = LoadStart
    BY AfterIs, EmptySeq
  <2>2. LoadStart.section = Cfg!NoSection /\ DOMAIN LoadStart.values = {}
    BY NothingIs
  <2>3. /\ start.section = Cfg!NoSection /\ start.pending = V /\ start.fresh = {}
        /\ start.out = <<>>
    BY DEF FirstStart
  <2>4. start \in WriteState(c)
    BY <2>1 DEF FirstStart, WriteState, AllSects
  <2> HIDE DEF start, V
  <2>5. start \in Written(c)
    BY <2>1, <2>2, <2>3, <2>4, Zenon DEF Written
  <2>6. DOMAIN After(start.out).values = {} /\ DOMAIN h[0].values = {} /\ h[0].section = Cfg!NoSection
    BY <1>4, <2>1, <2>2, <2>3, Zenon
  <2>7. FirstLoop(c, h[0], start)
    BY <2>3, <2>6 DEF FirstLoop, V
  <2>8. QED
    BY <2>5, <2>7
<1>6. Writes(f, c, start)
  BY <1>5, WritingIs, Zenon
<1>7. first \in Written(c) /\ FirstLoop(c, h[m], first)
  <2> DEFINE S == {n \in 0..m : FirstLoop(c, h[n], f[n])}
  <2>1. /\ f[0] = start /\ \A n \in 1..m : f[n] = Cfg!WriteRow(c, f[n - 1], c.rows[n])
        /\ \A n \in 0..m : f[n] \in Written(c)
    BY <1>6, Zenon DEF Writes
  <2> HIDE DEF m, f, h, start
  <2>2. 0 \in S
    BY <1>2, <1>5, <2>1
  <2>3. ASSUME NEW n \in 1..m, n - 1 \in S PROVE n \in S
    <3>1. FirstLoop(c, h[n - 1], f[n - 1]) /\ f[n - 1] \in Written(c)
      BY <1>2, <2>1, <2>3
    <3>2. FirstLoop(c, h[n], Cfg!WriteRow(c, f[n - 1], c.rows[n]))
      BY <3>1, FirstTurn, Zenon DEF h, m
    <3>3. FirstLoop(c, h[n], f[n])
      BY <2>1, <3>2, Zenon
    <3>4. QED
      BY <1>2, <3>3
  <2>4. \A n \in 0..m : n \in S
    <3> HIDE DEF S
    <3>1. QED
      BY <1>2, <2>2, <2>3, GoesOn
  <2>5. QED
    BY <1>2, <2>1, <2>4
<1>8. again \in Written(c) /\ SecondLoop(c, h[0], again)
  <2> DEFINE x == After(first.out).values
  <2>1. /\ first.fresh = {} /\ first.pending = V \ O /\ DOMAIN x \subseteq O
        /\ \A k \in c.removed \intersect O :
              /\ k \in DOMAIN x <=> k \in V
              /\ k \in DOMAIN x => x[k] = c.values[k]
    BY <1>4, <1>7, Zenon DEF FirstLoop
  <2>2. first \in WriteState(c) /\ After(first.out).section = first.section
    BY <1>7, Zenon DEF Written
  <2> HIDE DEF first, h, O
  <2>3. /\ first.section \in AllSects /\ first.pending \subseteq DOMAIN c.values
        /\ first.out \in Seq(Row)
        /\ first = [section |-> first.section, pending |-> first.pending,
                    fresh |-> first.fresh, out |-> first.out]
    BY <2>2 DEF WriteState
  <2>4. /\ again.section = first.section /\ again.pending = first.pending
        /\ again.fresh = first.pending \ c.original /\ again.out = first.out
        /\ again = [section |-> first.section, pending |-> first.pending,
                    fresh |-> first.pending \ c.original, out |-> first.out]
    <3> DEFINE new == first.pending \ c.original
    <3>1. again = [first EXCEPT !.fresh = new]
      BY Zenon
    <3> HIDE DEF again, new
    <3>2. again = [section |-> first.section, pending |-> first.pending, fresh |-> new, out |-> first.out]
      BY <2>3, <3>1
    <3>3. /\ again.section = first.section /\ again.pending = first.pending
          /\ again.fresh = new /\ again.out = first.out
      BY <3>2
    <3>4. QED
      BY <3>2, <3>3, Zenon DEF new
  <2> HIDE DEF again
  <2>5. again \in WriteState(c)
    BY <2>3, <2>4 DEF WriteState
  <2>6. again \in Written(c)
    BY <2>2, <2>4, <2>5, Zenon DEF Written
  <2>7. h[0].section = Cfg!NoSection /\ DOMAIN h[0].values = {}
    BY <1>4, NothingIs
  <2>8. again.fresh = V \ O
    BY <2>1, <2>4 DEF O
  <2>9. SecondLoop(c, h[0], again)
    <3>1. After(again.out).values = x
      BY <2>4, Zenon
    <3> HIDE DEF x
    <3>2. QED
      BY <2>1, <2>4, <2>7, <2>8, <3>1 DEF SecondLoop, O
  <2>10. QED
    BY <2>6, <2>9
<1>9. Writes(s, c, again)
  <2> HIDE DEF again
  <2>1. QED
    BY <1>8, WritingIs, Zenon
<1>10. s[m] \in Written(c) /\ SecondLoop(c, h[m], s[m])
  <2> DEFINE S == {n \in 0..m : SecondLoop(c, h[n], s[n])}
  <2> HIDE DEF again
  <2>1. /\ s[0] = again /\ \A n \in 1..m : s[n] = Cfg!WriteRow(c, s[n - 1], c.rows[n])
        /\ \A n \in 0..m : s[n] \in Written(c)
    BY <1>9, Zenon DEF Writes
  <2> HIDE DEF m, s, h
  <2>2. 0 \in S
    BY <1>2, <1>8, <2>1
  <2>3. ASSUME NEW n \in 1..m, n - 1 \in S PROVE n \in S
    <3>1. SecondLoop(c, h[n - 1], s[n - 1]) /\ s[n - 1] \in Written(c)
      BY <1>2, <2>1, <2>3
    <3>2. SecondLoop(c, h[n], Cfg!WriteRow(c, s[n - 1], c.rows[n]))
      BY <3>1, SecondTurn, Zenon DEF h, m
    <3>3. SecondLoop(c, h[n], s[n])
      BY <2>1, <3>2, Zenon
    <3>4. QED
      BY <1>2, <3>3
  <2>4. \A n \in 0..m : n \in S
    <3> HIDE DEF S
    <3>1. QED
      BY <1>2, <2>2, <2>3, GoesOn
  <2>5. QED
    BY <1>2, <2>1, <2>4
<1>11. SecondEnd(c) = s[m]
  BY Zenon DEF SecondEnd, FirstEnd
<1>12. QED
  BY <1>10, <1>11, Zenon

\* A new section in front of its entries.
LEMMA SectionAdded ==
    ASSUME NEW c, Copied(c), NEW out \in Seq(Row), NEW s \in Sects,
           NEW S \in SUBSET DOMAIN c.values, \A k \in S : k[1] = s
    PROVE  LET more == <<Cfg!Other, Cfg!Section(s)>> \o Cfg!Entries(c.values, S)
           IN  /\ more \in Seq(Row) /\ Cfg!Entries(c.values, S) \in Seq(Row)
               /\ Puts(After(out).values, After(out \o more).values, c.values, S)
<1> DEFINE two == <<Cfg!Other, Cfg!Section(s)>>
           list == Cfg!Entries(c.values, S)
           w == Append(out, Cfg!Other)
           v == Append(w, Cfg!Section(s))
           x == After(out)
           z == After(v)
           y == After(v \o list)
<1>1. Cfg!Other \in Row /\ Noted(Cfg!Other)
  BY RowsAre
<1>2. Cfg!Section(s) \in Row /\ Headed(Cfg!Section(s)) /\ Cfg!Section(s).head = s
  BY RowsAre
<1>3. S \in SUBSET Pairs /\ \A k \in S : c.values[k] \in Cfg!Values
  BY DEF Copied
<1>4. list \in Seq(Row)
  BY <1>3, EntriesAre, Zenon
<1>5. w \in Seq(Row) /\ After(w) = Cfg!ReadRow(x, Cfg!Other) /\ x \in LoadState
  BY <1>1, RowAdded, AfterIs, Zenon
<1>6. After(w) = x
  <2> HIDE DEF w, x
  <2>1. QED
    BY <1>1, <1>5, RowRead, Zenon
<1>7. v \in Seq(Row) /\ z = Cfg!ReadRow(After(w), Cfg!Section(s))
  <2> HIDE DEF w
  <2>1. QED
    BY <1>2, <1>5, RowAdded, Zenon
<1>8. z \in LoadState /\ z.section = s /\ z.values = x.values
  <2> HIDE DEF w, x, z
  <2>1. QED
    BY <1>2, <1>5, <1>6, <1>7, RowRead, Zenon
<1>9. y = Run(ReadStep, z, list)
  <2> HIDE DEF v, list
  <2>1. QED
    BY <1>4, <1>7, AfterIs, Zenon
<1>10. Adds(z, y, c.values, S)
  <2>1. \A k \in S : k[1] = z.section /\ c.values[k] \in Cfg!Values
    BY <1>3, <1>8
  <2> HIDE DEF z, y
  <2>2. QED
    BY <1>3, <1>8, <1>9, <2>1, EntriesRead, Zenon DEF list
<1>11. Puts(x.values, y.values, c.values, S)
  <2> HIDE DEF x, y, z
  <2>1. QED
    BY <1>8, <1>10, Zenon DEF Adds
<1>12. two \in Seq(Row) /\ out \o two = v
  <2>1. two \in Seq(Row)
    BY <1>1, <1>2
  <2> DEFINE a == Cfg!Other
             b == Cfg!Section(s)
  <2>2. a \in Row /\ b \in Row
    BY <1>1, <1>2
  <2> HIDE DEF a, b
  <2>3. out \o <<a, b>> = Append(Append(out, a), b)
    BY <2>2
  <2>4. QED
    BY <2>1, <2>3, Zenon DEF a, b
<1> HIDE DEF two, list, v
<1>13. two \o list \in Seq(Row) /\ out \o (two \o list) = v \o list
  <2>1. two \o list \in Seq(Row)
    BY <1>4, <1>12
  <2>2. (out \o two) \o list = out \o (two \o list)
    <3>1. Associates(out, two, list)
      BY <1>4, <1>12, ConcatsAssociate
    <3>2. QED
      BY <3>1, Zenon DEF Associates
  <2>3. QED
    BY <1>12, <2>1, <2>2, Zenon
<1>14. QED
  BY <1>4, <1>11, <1>13, Zenon DEF two, list

SectionsWritten(f, c, fresh, order) ==
    /\ f[0] = <<>>
    /\ \A n \in 1..Len(order) :
          f[n] = f[n - 1] \o <<Cfg!Other, Cfg!Section(order[n])>>
                 \o Cfg!Entries(c.values, {k \in fresh : Cfg!SectionOf(k) = order[n]})
    /\ \A n \in 0..Len(order) : f[n] \in Seq(Row)

\* The loop over the new sections ends, with a step for each of them.
LEMMA NewSectionsAre ==
    ASSUME NEW c, Copied(c), NEW fresh \in SUBSET DOMAIN c.values
    PROVE  \E f : \E order \in Seq(Sects) :
              /\ SectionsWritten(f, c, fresh, order)
              /\ \A k \in fresh : \E i \in 1..Len(order) : order[i] = k[1]
              /\ Cfg!NewSections(c, fresh) = f[Len(order)]
<1> DEFINE all == {Cfg!SectionOf(k) : k \in fresh}
           order == Cfg!SetToSeq(all)
           m == Len(order)
           part(n) == {k \in fresh : Cfg!SectionOf(k) = order[n]}
           list(n) == Cfg!Entries(c.values, part(n))
           more(n) == <<Cfg!Other, Cfg!Section(order[n])>> \o list(n)
           step(p, n) == p \o <<Cfg!Other, Cfg!Section(order[n])>> \o list(n)
           F == [x \in Seq(Row) \X (1..m) |-> step(x[1], x[2])]
           new(f, n) == IF n = 0 THEN <<>> ELSE step(f[n - 1], n)
           Write(f) == f = [n \in 0..m |-> new(f, n)]
<1>1. all \subseteq Sects /\ \A k \in fresh : k[1] \in all
  BY DEF Copied, Pairs, Cfg!SectionOf
<1>2. IsFiniteSet(all)
  <2> HIDE DEF all
  <2>1. QED
    BY <1>1, KeysAre, FS_Subset
<1>3. order \in Seq(all) /\ \A e \in all : \E i \in 1..m : order[i] = e
  <2> HIDE DEF all
  <2>1. QED
    BY <1>2, Listed, Zenon
<1>4. /\ order \in Seq(Sects) /\ m \in Nat /\ \A n \in 1..m : order[n] \in Sects
      /\ \A k \in fresh : \E i \in 1..m : order[i] = k[1]
  <2> HIDE DEF order, all
  <2>1. m \in Nat /\ \A n \in 1..m : order[n] \in all
    BY <1>3
  <2>2. \A n \in 1..m : order[n] \in Sects
    BY <1>1, <2>1
  <2>3. order \in Seq(Sects)
    BY <1>1, <1>3, <2>1, <2>2
  <2>4. QED
    BY <1>1, <1>3, <2>1, <2>2, <2>3, Zenon
<1> HIDE DEF order
<1>5. /\ 0 \in 0..m /\ m \in 0..m
      /\ \A n \in 1..m : n \in 0..m /\ n - 1 \in 0..m /\ n # 0
      /\ \A n \in 0..m : n = 0 \/ n \in 1..m
  BY <1>4
<1>6. ASSUME NEW p \in Seq(Row), NEW n \in 1..m PROVE step(p, n) \in Seq(Row)
  <2> DEFINE S == part(n)
             s == order[n]
             two == <<Cfg!Other, Cfg!Section(s)>>
  <2>1. s \in Sects /\ S \in SUBSET Pairs /\ \A k \in S : c.values[k] \in Cfg!Values
    BY <1>4 DEF Copied
  <2> HIDE DEF S, s
  <2>2. Cfg!Entries(c.values, S) \in Seq(Row)
    BY <2>1, EntriesAre, Zenon
  <2>3. two \in Seq(Row)
    BY <2>1, RowsAre
  <2> HIDE DEF two
  <2>4. p \o two \o Cfg!Entries(c.values, S) \in Seq(Row)
    BY <2>2, <2>3
  <2>5. QED
    BY <2>4, Zenon DEF two, S, s
<1>7. <<>> \in Seq(Row)
  BY EmptySeq
<1>8. F \in [Seq(Row) \X (1..m) -> Seq(Row)] /\ \A p \in Seq(Row), n \in 1..m : F[<<p, n>>] = step(p, n)
  <2> HIDE DEF m, step
  <2>1. QED
    BY <1>6
<1> HIDE DEF F
<1>9. PICK g : Values(g, Seq(Row), <<>>, m, F)
  <2> HIDE DEF m
  <2>1. QED
    BY <1>4, <1>7, <1>8, Computed, Zenon
<1> HIDE DEF step
<1>10. /\ g \in [0..m -> Seq(Row)] /\ g[0] = <<>>
       /\ \A n \in 1..m : g[n] = step(g[n - 1], n)
  <2> HIDE DEF m
  <2>1. g \in [0..m -> Seq(Row)] /\ g[0] = <<>> /\ \A n \in 1..m : g[n] = F[<<g[n - 1], n>>]
    BY <1>9, Zenon DEF Values
  <2>2. \A n \in 1..m : g[n - 1] \in Seq(Row)
    BY <1>5, <2>1, Zenon
  <2>3. QED
    BY <1>8, <2>1, <2>2, Zenon
<1>11. Write(g)
  <2> HIDE DEF m
  <2>1. DOMAIN g = 0..m /\ g = [n \in 0..m |-> g[n]]
    BY <1>10
  <2>2. \A n \in 0..m : g[n] = new(g, n)
    BY <1>5, <1>10, Zenon
  <2>3. g = [n \in 0..m |-> new(g, n)]
    <3> HIDE DEF new
    <3>1. QED
      BY <2>1, <2>2
  <2>4. QED
    BY <2>3, Zenon
<1> DEFINE f == CHOOSE h : Write(h)
<1>12. Write(f)
  BY <1>11, Zenon
<1>13. Cfg!NewSections(c, fresh) = f[m]
  BY Zenon DEF Cfg!NewSections, order, step
<1> HIDE DEF f
<1>14. f[0] = <<>> /\ \A n \in 1..m : f[n] = step(f[n - 1], n)
  <2> HIDE DEF m
  <2>1. f = [n \in 0..m |-> new(f, n)]
    BY <1>12, Zenon
  <2> HIDE DEF new
  <2>2. \A n \in 0..m : f[n] = new(f, n)
    BY <2>1
  <2>3. QED
    BY <1>5, <2>2, Zenon DEF new
<1>15. \A n \in 0..m : f[n] \in Seq(Row)
  <2>1. \A n \in 1..m : f[n - 1] \in Seq(Row) => f[n] \in Seq(Row)
    BY <1>6, <1>14, Zenon
  <2> HIDE DEF m
  <2>2. QED
    BY <1>4, <1>7, <1>14, <2>1, Reached, Zenon
<1>16. SectionsWritten(f, c, fresh, order)
  BY <1>14, <1>15, Zenon DEF SectionsWritten, step
<1>17. QED
  BY <1>4, <1>13, <1>16, Zenon

\* What is read of the new sections: the values of their keys.
LEMMA SectionsRead ==
    ASSUME NEW c, Copied(c), NEW out \in Seq(Row), NEW fresh \in SUBSET DOMAIN c.values,
           NEW order \in Seq(Sects), NEW f, SectionsWritten(f, c, fresh, order),
           \A k \in fresh : \E i \in 1..Len(order) : order[i] = k[1]
    PROVE  Puts(After(out).values, After(out \o f[Len(order)]).values, c.values, fresh)
<1> DEFINE m == Len(order)
           X == DOMAIN After(out).values
           part(n) == {k \in fresh : Cfg!SectionOf(k) = order[n]}
           two(n) == <<Cfg!Other, Cfg!Section(order[n])>>
           list(n) == Cfg!Entries(c.values, part(n))
           y(n) == After(out \o f[n]).values
           Good(n) == /\ X \subseteq DOMAIN y(n) /\ DOMAIN y(n) \subseteq X \union fresh
                      /\ \A k \in X \ fresh : y(n)[k] = After(out).values[k]
                      /\ \A k \in fresh : \A i \in 1..n : order[i] = k[1] =>
                            k \in DOMAIN y(n) /\ y(n)[k] = c.values[k]
           good == {n \in 0..m : Good(n)}
<1>1. /\ f[0] = <<>>
      /\ \A n \in 1..m : f[n] = f[n - 1] \o two(n) \o list(n)
      /\ \A n \in 0..m : f[n] \in Seq(Row)
  BY Zenon DEF SectionsWritten
<1>2. /\ m \in Nat /\ \A n \in 1..m : order[n] \in Sects
  BY LenProperties, ElementOfSeq
<1> HIDE DEF m, X, y
<1>3. 0 \in good
  <2>1. out \o <<>> = out
    BY ConcatEmptySeq
  <2>2. y(0) = After(out).values
    BY <1>1, <2>1, Zenon DEF y
  <2>3. Good(0)
    BY <2>2 DEF X
  <2>4. QED
    BY <1>2, <2>3
<1>4. ASSUME NEW n \in 1..m, n - 1 \in good PROVE n \in good
  <2> DEFINE S == part(n)
             p == f[n - 1]
             more == two(n) \o list(n)
             a == y(n - 1)
             b == y(n)
             pre == out \o p
  <2>1. n \in 0..m /\ n - 1 \in 0..m /\ Good(n - 1)
    BY <1>2, <1>4
  <2>2. p \in Seq(Row) /\ f[n] = p \o two(n) \o list(n) /\ order[n] \in Sects
    BY <1>1, <1>2, <2>1, Zenon
  <2>3. pre \in Seq(Row)
    BY <2>2
  <2>4. S \in SUBSET DOMAIN c.values /\ \A k \in S : k[1] = order[n]
    BY DEF Cfg!SectionOf
  <2>5. /\ more \in Seq(Row) /\ list(n) \in Seq(Row)
        /\ Puts(After(pre).values, After(pre \o more).values, c.values, S)
    <3> HIDE DEF S, pre
    <3>1. QED
      BY <2>2, <2>3, <2>4, SectionAdded, Zenon DEF S
  <2>6. two(n) \in Seq(Row)
    BY <2>2, RowsAre
  <2>7. out \o f[n] = pre \o more
    <3> DEFINE t == two(n)
               l == list(n)
    <3>1. t \in Seq(Row) /\ l \in Seq(Row)
      BY <2>5, <2>6, Zenon
    <3> HIDE DEF t, l, p
    <3>2. Associates(p, t, l) /\ Associates(out, p, t \o l)
      <4>1. t \o l \in Seq(Row)
        BY <3>1
      <4>2. QED
        BY <2>2, <3>1, <4>1, ConcatsAssociate
    <3>3. f[n] = (p \o t) \o l
      BY <2>2, Zenon DEF t, l
    <3>4. QED
      BY <3>2, <3>3, Zenon DEF Associates, t, l
  <2>8. Puts(a, b, c.values, S)
    <3> HIDE DEF S, p, more
    <3>1. QED
      BY <2>5, <2>7, Zenon DEF y, p
  <2>9. /\ DOMAIN b = DOMAIN a \union S
        /\ \A k \in S : b[k] = c.values[k]
        /\ \A k \in DOMAIN a \ S : b[k] = a[k]
    BY <2>8, Zenon DEF Puts
  <2>10. \A k \in fresh : k[1] = order[n] <=> k \in S
    BY DEF Cfg!SectionOf
  <2>11. S \subseteq fresh
    OBVIOUS
  <2> HIDE DEF S, p, more
  <2>12. /\ X \subseteq DOMAIN a /\ DOMAIN a \subseteq X \union fresh
         /\ \A k \in X \ fresh : a[k] = After(out).values[k]
         /\ \A k \in fresh : \A i \in 1..(n - 1) : order[i] = k[1] =>
               k \in DOMAIN a /\ a[k] = c.values[k]
    BY <2>1, Zenon
  <2> HIDE DEF a, b
  <2>13. /\ X \subseteq DOMAIN b /\ DOMAIN b \subseteq X \union fresh
         /\ \A k \in X \ fresh : b[k] = After(out).values[k]
    BY <2>9, <2>11, <2>12
  <2>14. \A k \in fresh : \A i \in 1..n : order[i] = k[1] => k \in DOMAIN b /\ b[k] = c.values[k]
    <3>1. SUFFICES ASSUME NEW k \in fresh, NEW i \in 1..n, order[i] = k[1]
                   PROVE  k \in DOMAIN b /\ b[k] = c.values[k]
      BY Zenon
    <3>2. CASE k \in S
      BY <2>9, <3>2
    <3>3. CASE k \notin S
      <4>1. i \in 1..(n - 1)
        <5>1. i # n
          BY <2>10, <3>1, <3>3
        <5>2. QED
          BY <1>2, <5>1
      <4>2. k \in DOMAIN a /\ a[k] = c.values[k]
        BY <2>12, <3>1, <4>1, Zenon
      <4>3. QED
        BY <2>9, <3>3, <4>2
    <3>4. QED
      BY <3>2, <3>3
  <2>15. Good(n)
    BY <2>13, <2>14, Zenon DEF b
  <2>16. QED
    BY <2>1, <2>15
<1>5. \A n \in 0..m : n \in good
  <2> HIDE DEF good
  <2>1. QED
    BY <1>2, <1>3, <1>4, GoesOn
<1>6. m \in 0..m
  BY <1>2
<1>7. Good(m)
  BY <1>5, <1>6
<1> DEFINE z == y(m)
<1>8. /\ X \subseteq DOMAIN z /\ DOMAIN z \subseteq X \union fresh
      /\ \A k \in X \ fresh : z[k] = After(out).values[k]
      /\ \A k \in fresh : \A i \in 1..m : order[i] = k[1] => k \in DOMAIN z /\ z[k] = c.values[k]
  BY <1>7, Zenon
<1> HIDE DEF z
<1>9. \A k \in fresh : k \in DOMAIN z /\ z[k] = c.values[k]
  BY <1>8, Zenon DEF m
<1>10. DOMAIN z = X \union fresh
  BY <1>8, <1>9
<1>11. QED
  BY <1>8, <1>9, <1>10, Zenon DEF Puts, X, z, y, m

\* What is read of the file a save writes: the keys of the file that were not
\* removed as they were, and the values that are set for all the others.
SavedMeans(c) ==
    LET old  == Cfg!Loaded(c.rows)
        new  == Cfg!Loaded(Cfg!Saved(c))
        kept == c.original \ c.removed
    IN  /\ DOMAIN new = kept \union DOMAIN c.values
        /\ \A k \in kept : new[k] = old[k]
        /\ \A k \in DOMAIN c.values \ kept : new[k] = c.values[k]

\* The rows a save writes are rows of a file, and are read so.
LEMMA SavedIs ==
    ASSUME NEW c, Copied(c)
    PROVE  Cfg!Saved(c) \in Seq(Row) /\ SavedMeans(c)
<1> DEFINE s == SecondEnd(c)
           h == Cfg!Reading(c.rows)[Len(c.rows)]
           x == After(s.out).values
           V == DOMAIN c.values
           O == c.original
           old == Cfg!Loaded(c.rows)
<1>1. s \in Written(c) /\ SecondLoop(c, h, s)
  BY LoopsEnd, Zenon
<1>2. s \in WriteState(c)
  BY <1>1, Zenon DEF Written
<1>3. s.out \in Seq(Row) /\ s.fresh \in SUBSET V
  <2> HIDE DEF s
  <2>1. QED
    BY <1>2 DEF WriteState
<1>4. Cfg!Saved(c) = s.out \o Cfg!NewSections(c, s.fresh)
  BY Zenon DEF Cfg!Saved, SecondEnd, FirstEnd, FirstStart
<1> HIDE DEF s
<1>5. PICK f : \E order \in Seq(Sects) :
              /\ SectionsWritten(f, c, s.fresh, order)
              /\ \A k \in s.fresh : \E i \in 1..Len(order) : order[i] = k[1]
              /\ Cfg!NewSections(c, s.fresh) = f[Len(order)]
  BY <1>3, NewSectionsAre
<1>6. PICK order \in Seq(Sects) :
              /\ SectionsWritten(f, c, s.fresh, order)
              /\ \A k \in s.fresh : \E i \in 1..Len(order) : order[i] = k[1]
              /\ Cfg!NewSections(c, s.fresh) = f[Len(order)]
  BY <1>5
<1> DEFINE end == f[Len(order)]
           new == Cfg!Loaded(Cfg!Saved(c))
<1>7. end \in Seq(Row)
  <2>1. Len(order) \in 0..Len(order)
    BY LenProperties
  <2>2. QED
    BY <1>6, <2>1, Zenon DEF SectionsWritten
<1>8. Puts(x, After(s.out \o end).values, c.values, s.fresh)
  BY <1>3, <1>6, SectionsRead, Zenon
<1>9. Cfg!Saved(c) = s.out \o end /\ Cfg!Saved(c) \in Seq(Row)
  <2>1. Cfg!Saved(c) = s.out \o end
    BY <1>4, <1>6, Zenon
  <2> HIDE DEF end
  <2>2. s.out \o end \in Seq(Row)
    BY <1>3, <1>7
  <2>3. QED
    BY <2>1, <2>2, Zenon
<1>10. new = After(s.out \o end).values
  <2> HIDE DEF end
  <2>1. new = After(Cfg!Saved(c)).values
    BY <1>9, ReadingIs, Zenon
  <2>2. QED
    BY <1>9, <2>1, Zenon
<1>11. h.values = old /\ DOMAIN old = O
  BY Zenon DEF Cfg!Loaded, Copied
<1>12. /\ s.fresh \subseteq V \ O
       /\ DOMAIN x \subseteq O \union V
       /\ \A k \in O \intersect c.removed :
            /\ k \in DOMAIN x <=> k \in V
            /\ k \in DOMAIN x => x[k] = c.values[k]
       /\ \A k \in DOMAIN h.values \ c.removed : k \in DOMAIN x /\ x[k] = h.values[k]
       /\ \A k \in (V \ O) \ s.fresh : k \in DOMAIN x /\ x[k] = c.values[k]
  BY <1>1, Zenon DEF SecondLoop
<1>13. Puts(x, new, c.values, s.fresh)
  BY <1>8, <1>10, Zenon
<1> HIDE DEF new, x, h, V, O, old
<1>14. /\ DOMAIN new = DOMAIN x \union s.fresh
       /\ \A k \in s.fresh : new[k] = c.values[k]
       /\ \A k \in DOMAIN x \ s.fresh : new[k] = x[k]
  BY <1>13, Zenon DEF Puts
<1> DEFINE kept == O \ c.removed
<1>15. \A k \in kept : k \in DOMAIN new /\ new[k] = old[k]
  BY <1>11, <1>12, <1>14
<1>16. \A k \in V \ kept : k \in DOMAIN new /\ new[k] = c.values[k]
  BY <1>12, <1>14
<1>17. DOMAIN new \subseteq kept \union V
  BY <1>12, <1>14 DEF V
<1>18. DOMAIN new = kept \union V
  BY <1>15, <1>16, <1>17
<1>19. QED
  BY <1>9, <1>15, <1>16, <1>18, Zenon DEF SavedMeans, new, old, V, O

-----------------------------------------------------------------------------
(* ConfigFile: the handlers.                                               *)

\* The pages that clear a section before they set it.
Clearing == {"shortcuts", "window_rules"}

\* A copy that is ready to be saved.  A key its page did not touch is as it was
\* loaded; if the page cleared its section, a key it touched is removed and has
\* no value but the one the page wants.
Prepared(w) ==
    /\ w.pc = "edited" /\ Copied(w.cfg)
    /\ \A k \in Cfg!Keys \ w.touched :
          /\ k \notin w.cfg.removed
          /\ k \in DOMAIN w.cfg.values <=> k \in w.cfg.original
    /\ Cfg!SectionOf(CHOOSE k \in w.touched : TRUE) \in Clearing =>
          \A k \in w.touched :
             /\ k \in w.cfg.original => k \in w.cfg.removed
             /\ k \in DOMAIN w.cfg.values <=> k \in DOMAIN w.want
             /\ k \in DOMAIN w.want => w.cfg.values[k] = w.want[k]

\* A file whose entries all stand below a head.
Filed(rows) == rows \in Seq(Row) /\ DOMAIN Cfg!Loaded(rows) \subseteq Pairs

\* The values a page wants.
Wishes(want) == want \in [DOMAIN want -> Cfg!Values] /\ DOMAIN want \subseteq Pairs

\* A file is loaded as it is.
LEMMA LoadIs ==
    ASSUME NEW rows, Filed(rows)
    PROVE  LET c == Cfg!Load(rows)
           IN  /\ Copied(c) /\ c.rows = rows /\ c.removed = {}
               /\ DOMAIN c.values = c.original /\ c.original \subseteq Pairs
<1> DEFINE c == Cfg!Load(rows)
           f == Cfg!Loaded(rows)
<1>1. rows \in Seq(Row) /\ DOMAIN f \subseteq Pairs
  BY Zenon DEF Filed
<1>2. f \in LoadedValues
  <2>1. f = After(rows).values /\ After(rows) \in LoadState
    BY <1>1, ReadingIs, AfterIs, Zenon
  <2> HIDE DEF f
  <2>2. QED
    BY <2>1 DEF LoadState
<1>3. f \in [DOMAIN f -> Cfg!Values]
  BY <1>2, ValuesAre, Zenon
<1> HIDE DEF f
<1>4. c = [rows |-> rows, values |-> f, original |-> DOMAIN f, removed |-> {}]
  BY Zenon DEF Cfg!Load, f
<1> HIDE DEF c
<1>5. c.rows = rows /\ c.values = f /\ c.original = DOMAIN f /\ c.removed = {}
  BY <1>4
<1>6. Copied(c)
  BY <1>1, <1>3, <1>5 DEF Copied, f
<1>7. QED
  BY <1>1, <1>5, <1>6, Zenon DEF c

\* Values that are set in a copy.
LEMMA SetIs ==
    ASSUME NEW c, Copied(c), NEW want, Wishes(want),
           c = [rows |-> c.rows, values |-> c.values, original |-> c.original, removed |-> c.removed]
    PROVE  LET d == Cfg!Set(c, want)
           IN  /\ Copied(d) /\ d.original = c.original /\ d.removed = c.removed
               /\ DOMAIN d.values = DOMAIN c.values \union DOMAIN want
               /\ \A k \in DOMAIN want : d.values[k] = want[k]
<1> DEFINE d == Cfg!Set(c, want)
           V == c.values
           f == [k \in DOMAIN V \union DOMAIN want |-> IF k \in DOMAIN want THEN want[k] ELSE V[k]]
<1>1. d = [c EXCEPT !.values = f]
  BY Zenon DEF Cfg!Set
<1>2. /\ V \in [DOMAIN V -> Cfg!Values] /\ DOMAIN V \subseteq Pairs
      /\ want \in [DOMAIN want -> Cfg!Values] /\ DOMAIN want \subseteq Pairs
      /\ c.rows \in Seq(Row) /\ c.original = DOMAIN Cfg!Loaded(c.rows) /\ c.original \subseteq Pairs
  BY Zenon DEF Copied, Wishes
<1>3. /\ DOMAIN f = DOMAIN V \union DOMAIN want /\ f \in [DOMAIN f -> Cfg!Values]
      /\ DOMAIN f \subseteq Pairs /\ \A k \in DOMAIN want : f[k] = want[k]
  <2> HIDE DEF V
  <2>1. QED
    BY <1>2
<1> HIDE DEF d, f
<1>4. d = [rows |-> c.rows, values |-> f, original |-> c.original, removed |-> c.removed]
  BY <1>1
<1>5. d.rows = c.rows /\ d.values = f /\ d.original = c.original /\ d.removed = c.removed
  BY <1>4
<1>6. Copied(d)
  BY <1>2, <1>3, <1>5, Zenon DEF Copied
<1>7. QED
  BY <1>3, <1>5, <1>6, Zenon DEF d, V

\* A section that is cleared in a copy.
LEMMA ClearIs ==
    ASSUME NEW rows, Filed(rows), NEW section
    PROVE  LET c == Cfg!Load(rows)
               d == Cfg!Clear(c, section)
               gone == {k \in c.original : k[1] = section}
           IN  /\ Copied(d) /\ d.original = c.original /\ d.removed = gone
               /\ DOMAIN d.values = c.original \ gone
               /\ d = [rows |-> d.rows, values |-> d.values, original |-> d.original, removed |-> d.removed]
<1> DEFINE c == Cfg!Load(rows)
           d == Cfg!Clear(c, section)
           gone == {k \in c.original : k[1] = section}
           V == c.values
           f == [k \in DOMAIN V \ gone |-> V[k]]
<1>1. /\ Copied(c) /\ c.removed = {} /\ DOMAIN c.values = c.original
      /\ c = [rows |-> c.rows, values |-> c.values, original |-> c.original, removed |-> c.removed]
  <2>1. c = [rows |-> c.rows, values |-> c.values, original |-> c.original, removed |-> c.removed]
    BY DEF Cfg!Load
  <2>2. QED
    BY <2>1, LoadIs, Zenon
<1> HIDE DEF c
<1>2. /\ V \in [DOMAIN V -> Cfg!Values] /\ DOMAIN V \subseteq Pairs
      /\ c.rows \in Seq(Row) /\ c.original = DOMAIN Cfg!Loaded(c.rows) /\ c.original \subseteq Pairs
  BY <1>1, Zenon DEF Copied
<1>3. Cfg!SectionKeys(c, section) \intersect DOMAIN c.values = gone
  BY <1>1 DEF Cfg!SectionKeys, Cfg!SectionOf
<1>4. d = [c EXCEPT !.values = f, !.removed = @ \union gone]
  BY <1>3, Zenon DEF Cfg!Clear, Cfg!Unset
<1>5. DOMAIN f = c.original \ gone /\ f \in [DOMAIN f -> Cfg!Values] /\ DOMAIN f \subseteq Pairs
  <2> HIDE DEF V, gone
  <2>1. QED
    BY <1>1, <1>2 DEF V
<1>6. d = [rows |-> c.rows, values |-> f, original |-> c.original, removed |-> gone]
  <2> HIDE DEF d, f, gone
  <2>1. d = [[c EXCEPT !.values = f] EXCEPT !.removed = {} \union gone]
    BY <1>1, <1>4
  <2> DEFINE e == [c EXCEPT !.values = f]
  <2>2. e = [rows |-> c.rows, values |-> f, original |-> c.original, removed |-> c.removed]
    BY <1>1
  <2>3. d = [e EXCEPT !.removed = {} \union gone]
    BY <2>1, Zenon
  <2> HIDE DEF e
  <2>4. {} \union gone = gone
    OBVIOUS
  <2>5. QED
    BY <2>2, <2>3, <2>4
<1> HIDE DEF d, f, gone
<1>7. /\ d.rows = c.rows /\ d.values = f /\ d.original = c.original /\ d.removed = gone
  BY <1>6
<1>8. Copied(d)
  BY <1>2, <1>5, <1>7, Zenon DEF Copied
<1>9. d = [rows |-> d.rows, values |-> d.values, original |-> d.original, removed |-> d.removed]
  BY <1>6, <1>7, Zenon
<1>10. QED
  BY <1>5, <1>7, <1>8, <1>9, Zenon DEF c, d, gone

Copy(c, want, touched) == [pc |-> "edited", cfg |-> c, want |-> want, touched |-> touched]

\* Some keys of other sections are set.
LEMMA AssignedIs ==
    ASSUME NEW rows, Filed(rows), NEW keys \in SUBSET Cfg!Keys, keys # {},
           \A k \in keys : Cfg!SectionOf(k) \notin Clearing
    PROVE  LET want == [k \in keys |-> "new"]
           IN  Prepared(Copy(Cfg!Set(Cfg!Load(rows), want), want, keys))
<1> DEFINE want == [k \in keys |-> "new"]
           c == Cfg!Load(rows)
           d == Cfg!Set(c, want)
           w == Copy(d, want, keys)
<1>1. /\ Copied(c) /\ c.removed = {} /\ DOMAIN c.values = c.original
      /\ c = [rows |-> c.rows, values |-> c.values, original |-> c.original, removed |-> c.removed]
  <2>1. c = [rows |-> c.rows, values |-> c.values, original |-> c.original, removed |-> c.removed]
    BY DEF Cfg!Load
  <2>2. QED
    BY <2>1, LoadIs, Zenon
<1>2. Wishes(want) /\ DOMAIN want = keys
  BY KeysAre DEF Wishes, Cfg!Values
<1> HIDE DEF c, want
<1>3. /\ Copied(d) /\ d.original = c.original /\ d.removed = {}
      /\ DOMAIN d.values = c.original \union keys
  BY <1>1, <1>2, SetIs, Zenon
<1> HIDE DEF d
<1>4. w.pc = "edited" /\ w.cfg = d /\ w.want = want /\ w.touched = keys
  BY DEF Copy
<1> HIDE DEF w
<1>5. \A k \in Cfg!Keys \ keys : k \notin d.removed /\ (k \in DOMAIN d.values <=> k \in d.original)
  BY <1>3
<1>6. Cfg!SectionOf(CHOOSE k \in keys : TRUE) \notin Clearing
  <2>1. (CHOOSE k \in keys : TRUE) \in keys
    OBVIOUS
  <2>2. QED
    BY <2>1, Zenon
<1>7. Prepared(w)
  BY <1>3, <1>4, <1>5, <1>6, Zenon DEF Prepared
<1>8. QED
  BY <1>7, Zenon DEF w, d, c, want

\* A section is cleared, and set again.
LEMMA ClearedIs ==
    ASSUME NEW rows, Filed(rows), NEW section \in Clearing,
           NEW want, Wishes(want), \A k \in DOMAIN want : k[1] = section
    PROVE  Prepared(Copy(Cfg!Set(Cfg!Clear(Cfg!Load(rows), section), want), want,
                         {k \in Cfg!Keys : k[1] = section}))
<1> DEFINE c == Cfg!Load(rows)
           e == Cfg!Clear(c, section)
           d == Cfg!Set(e, want)
           touched == {k \in Cfg!Keys : k[1] = section}
           gone == {k \in c.original : k[1] = section}
           w == Copy(d, want, touched)
<1>1. /\ Copied(e) /\ e.original = c.original /\ e.removed = gone
      /\ DOMAIN e.values = c.original \ gone
      /\ e = [rows |-> e.rows, values |-> e.values, original |-> e.original, removed |-> e.removed]
  BY ClearIs, Zenon
<1> HIDE DEF c, e
<1>2. /\ Copied(d) /\ d.original = c.original /\ d.removed = gone
      /\ DOMAIN d.values = (c.original \ gone) \union DOMAIN want
      /\ \A k \in DOMAIN want : d.values[k] = want[k]
  <2>1. /\ Copied(e)
        /\ e = [rows |-> e.rows, values |-> e.values, original |-> e.original, removed |-> e.removed]
    BY <1>1, Zenon
  <2>2. /\ Copied(d) /\ d.original = e.original /\ d.removed = e.removed
        /\ DOMAIN d.values = DOMAIN e.values \union DOMAIN want
        /\ \A k \in DOMAIN want : d.values[k] = want[k]
    <3>1. Wishes(want)
      OBVIOUS
    <3>2. QED
      BY <2>1, <3>1, SetIs
  <2> HIDE DEF gone, d
  <2>3. QED
    BY <1>1, <2>2
<1> HIDE DEF d
<1>3. w.pc = "edited" /\ w.cfg = d /\ w.want = want /\ w.touched = touched
  BY DEF Copy
<1> HIDE DEF w
<1>4. \A k \in Cfg!Keys \ touched : k \notin d.removed /\ (k \in DOMAIN d.values <=> k \in d.original)
  BY <1>2
<1>5. \A k \in touched :
          /\ k \in d.original => k \in d.removed
          /\ k \in DOMAIN d.values <=> k \in DOMAIN want
          /\ k \in DOMAIN want => d.values[k] = want[k]
  BY <1>2
<1> HIDE DEF touched
<1>6. Prepared(w)
  BY <1>2, <1>3, <1>4, <1>5, Zenon DEF Prepared
<1>7. QED
  BY <1>6, Zenon DEF w, d, e, c, touched

\* What a copy that is ready loads as, when it is saved.
LEMMA SaveIs ==
    ASSUME NEW w, Prepared(w)
    PROVE  LET new == Cfg!Saved(w.cfg)
           IN  /\ Filed(new)
               /\ \A k \in Cfg!Keys \ w.touched :
                     Cfg!ValueIn(new, k) = Cfg!ValueIn(w.cfg.rows, k)
               /\ Cfg!SectionOf(CHOOSE k \in w.touched : TRUE) \in Clearing =>
                     \A k \in w.touched :
                        Cfg!ValueIn(new, k) = IF k \in DOMAIN w.want THEN w.want[k] ELSE "none"
<1> DEFINE c == w.cfg
           new == Cfg!Saved(c)
           f == Cfg!Loaded(new)
           old == Cfg!Loaded(c.rows)
           kept == c.original \ c.removed
           V == DOMAIN c.values
<1>1. /\ Copied(c)
      /\ \A k \in Cfg!Keys \ w.touched : k \notin c.removed /\ (k \in V <=> k \in c.original)
      /\ Cfg!SectionOf(CHOOSE k \in w.touched : TRUE) \in Clearing =>
            \A k \in w.touched :
               /\ k \in c.original => k \in c.removed
               /\ k \in V <=> k \in DOMAIN w.want
               /\ k \in DOMAIN w.want => c.values[k] = w.want[k]
  BY Zenon DEF Prepared
<1>2. c.original = DOMAIN old /\ c.original \subseteq Pairs /\ V \subseteq Pairs
  BY <1>1, Zenon DEF Copied
<1> HIDE DEF c
<1>3. /\ new \in Seq(Row)
      /\ DOMAIN f = kept \union V
      /\ \A k \in kept : f[k] = old[k]
      /\ \A k \in V \ kept : f[k] = c.values[k]
  BY <1>1, SavedIs, Zenon DEF SavedMeans
<1>4. Filed(new)
  <2> HIDE DEF new, V
  <2>1. DOMAIN f \subseteq Pairs
    BY <1>2, <1>3
  <2>2. QED
    BY <1>3, <2>1, Zenon DEF Filed
<1>5. \A k : Cfg!ValueIn(new, k) = IF k \in DOMAIN f THEN f[k] ELSE "none"
  BY Zenon DEF Cfg!ValueIn
<1>6. \A k : Cfg!ValueIn(c.rows, k) = IF k \in DOMAIN old THEN old[k] ELSE "none"
  BY Zenon DEF Cfg!ValueIn
<1> HIDE DEF new, f, old, V
<1>7. ASSUME NEW k \in Cfg!Keys \ w.touched
      PROVE  Cfg!ValueIn(new, k) = Cfg!ValueIn(c.rows, k)
  <2>1. CASE k \in c.original
    <3>1. k \in DOMAIN f /\ f[k] = old[k] /\ k \in DOMAIN old
      BY <1>1, <1>2, <1>3, <2>1
    <3>2. QED
      BY <1>5, <1>6, <3>1, Zenon
  <2>2. CASE k \notin c.original
    <3>1. k \notin DOMAIN f /\ k \notin DOMAIN old
      BY <1>1, <1>2, <1>3, <2>2
    <3>2. QED
      BY <1>5, <1>6, <3>1, Zenon
  <2>3. QED
    BY <2>1, <2>2
<1>8. ASSUME Cfg!SectionOf(CHOOSE k \in w.touched : TRUE) \in Clearing, NEW k \in w.touched
      PROVE  Cfg!ValueIn(new, k) = IF k \in DOMAIN w.want THEN w.want[k] ELSE "none"
  <2>1. k \notin kept /\ (k \in V <=> k \in DOMAIN w.want) /\ (k \in DOMAIN w.want => c.values[k] = w.want[k])
    BY <1>1, <1>8
  <2>2. CASE k \in DOMAIN w.want
    <3>1. k \in DOMAIN f /\ f[k] = w.want[k]
      BY <1>3, <2>1, <2>2
    <3>2. QED
      BY <1>5, <2>2, <3>1, Zenon
  <2>3. CASE k \notin DOMAIN w.want
    <3>1. k \notin DOMAIN f
      BY <1>3, <2>1, <2>3
    <3>2. QED
      BY <1>5, <2>3, <3>1, Zenon
  <2>4. QED
    BY <2>2, <2>3
<1>9. QED
  BY <1>4, <1>7, <1>8, Zenon DEF new, c

\* A row of a rules page, and what is known while the rules are read.
RuleRow   == [name : Names, value : Cfg!Values]
RuleState == [section : AllSects, rules : Seq(RuleRow)]
RuleStart == [section |-> Cfg!NoSection, rules |-> <<>>]
RuleStep  == [p \in RuleState \X Row |-> Cfg!ReadRule(p[1], p[2])]

\* One row more is read.
LEMMA RuleRead ==
    ASSUME NEW a \in RuleState, NEW r \in Row
    PROVE  Cfg!ReadRule(a, r) \in RuleState
<1> DEFINE b == Cfg!ReadRule(a, r)
<1>1. /\ a.section \in AllSects /\ a.rules \in Seq(RuleRow)
      /\ a = [section |-> a.section, rules |-> a.rules]
  BY DEF RuleState
<1>2. CASE Headed(r)
  <2>1. b = [a EXCEPT !.section = r.head] /\ r.head \in AllSects
    BY <1>2 DEF Headed, Cfg!ReadRule, AllSects
  <2> HIDE DEF b
  <2>2. QED
    BY <1>1, <2>1 DEF RuleState, b
<1>3. CASE Entered(r) /\ a.section = "window_rules"
  <2> DEFINE row == [name |-> r.key, value |-> r.value]
             rules == Append(a.rules, row)
  <2>1. b = [a EXCEPT !.rules = Append(@, row)]
    BY <1>3, Zenon DEF Entered, Cfg!ReadRule
  <2>2. row \in RuleRow
    BY <1>3 DEF Entered, RuleRow
  <2> HIDE DEF row
  <2>3. rules \in Seq(RuleRow)
    BY <1>1, <2>2
  <2>4. b = [a EXCEPT !.rules = rules]
    BY <2>1, Zenon
  <2> HIDE DEF b, rules
  <2>5. QED
    BY <1>1, <2>3, <2>4 DEF RuleState, b
<1>4. CASE (Entered(r) /\ a.section # "window_rules") \/ Noted(r)
  BY <1>4 DEF Entered, Noted, Cfg!ReadRule
<1>5. QED
  BY <1>2, <1>3, <1>4, RowKinds, Zenon

\* The rules of a file are rows of a page.
LEMMA RulesAre ==
    ASSUME NEW rows \in Seq(Row)
    PROVE  Cfg!RulesIn(rows) \in Seq(RuleRow)
<1> DEFINE m == Len(rows)
           new(f, n) == IF n = 0 THEN RuleStart ELSE Cfg!ReadRule(f[n - 1], rows[n])
           Read(f) == f = [n \in 0..m |-> new(f, n)]
<1>1. /\ m \in Nat /\ 0 \in 0..m /\ m \in 0..m
      /\ \A n \in 1..m : n \in 0..m /\ n - 1 \in 0..m /\ n # 0
      /\ \A n \in 0..m : n = 0 \/ n \in 1..m
  OBVIOUS
<1>2. \A n \in 1..m : rows[n] \in Row
  BY LenProperties, ElementOfSeq
<1>3. RuleStart \in RuleState
  BY EmptySeq DEF RuleStart, RuleState, AllSects
<1>4. IsStep(RuleStep, RuleState, Row) /\ \A a \in RuleState, r \in Row : RuleStep[<<a, r>>] = Cfg!ReadRule(a, r)
  BY RuleRead DEF RuleStep, IsStep
<1>5. PICK g : Way(g, RuleStep, RuleState, RuleStart, rows)
  <2>1. IsStep(RuleStep, RuleState, Row)
    BY <1>4
  <2>2. QED
    BY <1>3, <2>1, RunSteps
<1>6. g \in [0..m -> RuleState] /\ Goes(g, RuleStep, RuleStart, rows)
  BY <1>5, Zenon DEF Way
<1>7. g[0] = RuleStart /\ \A n \in 1..m : g[n] = Cfg!ReadRule(g[n - 1], rows[n])
  <2>1. g[0] = RuleStart /\ \A n \in 1..m : g[n] = RuleStep[<<g[n - 1], rows[n]>>]
    BY <1>6, Zenon DEF Goes
  <2>2. \A n \in 1..m : g[n - 1] \in RuleState
    <3> HIDE DEF m
    <3>1. QED
      BY <1>1, <1>6, Zenon
  <2>3. QED
    BY <1>2, <1>4, <2>1, <2>2, Zenon
<1>8. Read(g)
  <2> HIDE DEF m
  <2>1. DOMAIN g = 0..m /\ g = [n \in 0..m |-> g[n]]
    BY <1>6
  <2>2. \A n \in 0..m : g[n] = new(g, n)
    BY <1>1, <1>7, Zenon
  <2>3. g = [n \in 0..m |-> new(g, n)]
    <3> HIDE DEF new
    <3>1. QED
      BY <2>1, <2>2
  <2>4. QED
    BY <2>3, Zenon
<1> DEFINE f == CHOOSE h : Read(h)
<1>9. Read(f)
  BY <1>8, Zenon
<1>10. Cfg!RulesIn(rows) = f[m].rules
  BY Zenon DEF Cfg!RulesIn, RuleStart
<1> HIDE DEF f
<1>11. f[0] = RuleStart /\ \A n \in 1..m : f[n] = Cfg!ReadRule(f[n - 1], rows[n])
  <2> HIDE DEF m
  <2>1. f = [n \in 0..m |-> new(f, n)]
    BY <1>9, Zenon
  <2> HIDE DEF new
  <2>2. \A n \in 0..m : f[n] = new(f, n)
    BY <2>1
  <2>3. QED
    BY <1>1, <2>2, Zenon DEF new
<1>12. \A n \in 0..m : f[n] \in RuleState
  <2>1. \A n \in 1..m : f[n - 1] \in RuleState => f[n] \in RuleState
    BY <1>2, <1>11, RuleRead, Zenon
  <2> HIDE DEF m
  <2>2. QED
    BY <1>1, <1>3, <1>11, <2>1, Reached, Zenon
<1>13. f[m] \in RuleState
  <2> HIDE DEF m
  <2>1. QED
    BY <1>1, <1>12, Zenon
<1>14. f[m].rules \in Seq(RuleRow)
  <2> DEFINE e == f[m]
  <2> HIDE DEF e
  <2>1. e \in RuleState
    BY <1>13, Zenon DEF e
  <2>2. e.rules \in Seq(RuleRow)
    BY <2>1 DEF RuleState
  <2>3. QED
    BY <2>2, Zenon DEF e
<1>15. QED
  BY <1>10, <1>14, Zenon

\* What a page's table wants are values for rules.
LEMMA WantedIs ==
    ASSUME NEW rules \in Seq(RuleRow)
    PROVE  Wishes(Cfg!Wanted(rules)) /\ \A k \in DOMAIN Cfg!Wanted(rules) : k[1] = "window_rules"
<1> DEFINE K == {Cfg!Rule(rules[i].name) : i \in DOMAIN rules}
           last(n) == CHOOSE i \in DOMAIN rules :
                         /\ rules[i].name = n
                         /\ \A j \in DOMAIN rules : rules[j].name = n => j <= i
           want == Cfg!Wanted(rules)
<1>1. /\ DOMAIN rules = 1..Len(rules) /\ Len(rules) \in Nat
      /\ \A i \in DOMAIN rules : rules[i].name \in Names /\ rules[i].value \in Cfg!Values
  <2>1. DOMAIN rules = 1..Len(rules) /\ Len(rules) \in Nat
    BY LenProperties
  <2>2. \A i \in DOMAIN rules : rules[i] \in RuleRow
    BY <2>1, ElementOfSeq
  <2>3. QED
    BY <2>1, <2>2 DEF RuleRow
<1>2. \A k \in K : k \in Pairs /\ k[1] = "window_rules" /\ \E i \in DOMAIN rules : rules[i].name = k[2]
  <2>1. \A i \in DOMAIN rules :
            /\ Cfg!Rule(rules[i].name) \in Pairs /\ Cfg!Rule(rules[i].name)[1] = "window_rules"
            /\ Cfg!Rule(rules[i].name)[2] = rules[i].name
    BY <1>1, KeysAre, Zenon
  <2>2. QED
    BY <2>1, Zenon
<1>3. want = [k \in K |-> rules[last(k[2])].value]
  BY Zenon DEF Cfg!Wanted
<1>4. ASSUME NEW k \in K PROVE last(k[2]) \in DOMAIN rules
  <2> DEFINE S == {i \in DOMAIN rules : rules[i].name = k[2]}
  <2>1. S # {} /\ S \in SUBSET (1..Len(rules))
    BY <1>1, <1>2
  <2>2. PICK i \in S : \A j \in S : j <= i
    <3> HIDE DEF S
    <3>1. QED
      BY <1>1, <2>1, LastPlace
  <2>3. i \in DOMAIN rules /\ rules[i].name = k[2] /\ \A j \in DOMAIN rules : rules[j].name = k[2] => j <= i
    BY <2>2
  <2>4. QED
    BY <2>3, Zenon
<1> HIDE DEF K, last, want
<1>5. \A k \in K : rules[last(k[2])].value \in Cfg!Values
  BY <1>1, <1>4, Zenon
<1>6. DOMAIN want = K /\ want \in [K -> Cfg!Values]
  BY <1>3, <1>5
<1>7. K \subseteq Pairs
  BY <1>2
<1>8. QED
  BY <1>2, <1>6, <1>7, Zenon DEF Wishes, want

\* A row that is taken from a table.
LEMMA TakenIs ==
    ASSUME NEW rules \in Seq(RuleRow), NEW i \in DOMAIN rules
    PROVE  Cfg!RemoveAt(rules, i) \in Seq(RuleRow)
<1> DEFINE a == SubSeq(rules, 1, i - 1)
           b == SubSeq(rules, i + 1, Len(rules))
<1>1. DOMAIN rules = 1..Len(rules) /\ Len(rules) \in Nat
  BY LenProperties
<1>2. i - 1 \in Nat /\ i + 1 \in Nat /\ i - 1 <= Len(rules) /\ 1 <= i + 1 /\ i + 1 <= Len(rules) + 1
  BY <1>1
<1>3. a \in Seq(RuleRow)
  BY <1>2, BeginningOf
<1>4. b \in Seq(RuleRow)
  BY <1>1, <1>2, PartOf
<1>5. Cfg!RemoveAt(rules, i) = a \o b
  BY Zenon DEF Cfg!RemoveAt
<1> HIDE DEF a, b
<1>6. a \o b \in Seq(RuleRow)
  BY <1>3, <1>4
<1>7. QED
  BY <1>5, <1>6, Zenon

\* Steps of the composition are steps of the file.
LEMMA ConfigAlone ==
    ASSUME [Next]_vars
    PROVE  [Cfg!Next]_configVars
BY DEF Next, vars, XStep, InputStep, NightStep, DisplayStep, TaskbarStep, ReadersStep,
       ConfigStep, Alone, configVars

\* The entries of the file stand below heads, each copy is ready to be saved and each
\* open page holds a table of rules.
ConfigPages ==
    /\ rulesPage = [p \in Cfg!Programs |-> rulesPage[p]]
    /\ \A p \in Cfg!Programs : rulesPage[p] \in [open : BOOLEAN, rules : Seq(RuleRow)]

ConfigCopies ==
    /\ writer = [p \in Cfg!Programs |-> writer[p]]
    /\ \A p \in Cfg!Programs : writer[p] = Cfg!Idle \/ Prepared(writer[p])

ConfigInv == Filed(file) /\ ConfigCopies /\ ConfigPages

\* The files there are at the start.
LEMMA StartIsFiled == Filed(<<>>) /\ Filed(Cfg!StartRows)
<1>1. Filed(<<>>)
  <2>1. <<>> \in Seq(Row)
    BY EmptySeq
  <2>2. Cfg!Loaded(<<>>) = Cfg!Nothing
    BY <2>1, ReadingIs, AfterIs, NothingIs, Zenon
  <2>3. QED
    BY <2>1, <2>2, NothingIs DEF Filed
<1>2. Filed(Cfg!StartRows)
  <2> DEFINE mode1 == Cfg!Mode
             rule1 == Cfg!Rule("mode")
             r1 == Cfg!Other
             r2 == Cfg!Section("theme")
             r3 == Cfg!Entry(mode1, "old")
             r4 == Cfg!Section("window_rules")
             r5 == Cfg!Entry(rule1, "old")
             s1 == Append(<<>>, r1)
             s2 == Append(s1, r2)
             s3 == Append(s2, r3)
             s4 == Append(s3, r4)
             s5 == Append(s4, r5)
  <2>1. /\ mode1 \in Pairs /\ mode1[1] = "theme" /\ rule1 \in Pairs /\ rule1[1] = "window_rules"
        /\ "old" \in Cfg!Values /\ "theme" \in Sects /\ "window_rules" \in Sects
    <3>1. mode1 \in Cfg!Keys /\ rule1 \in Cfg!Keys
      BY DEF Cfg!Keys, Cfg!RuleNames
    <3>2. mode1[1] = "theme" /\ rule1[1] = "window_rules"
      BY DEF Cfg!Mode, Cfg!Rule
    <3>3. mode1 \in Pairs /\ rule1 \in Pairs
      BY <3>1, KeysAre
    <3>4. "theme" \in Sects /\ "window_rules" \in Sects
      BY <3>1, <3>2 DEF Sects, Cfg!SectionOf
    <3>5. QED
      BY <3>2, <3>3, <3>4 DEF Cfg!Values
  <2> HIDE DEF mode1, rule1
  <2>2. /\ r1 \in Row /\ r2 \in Row /\ r3 \in Row /\ r4 \in Row /\ r5 \in Row
        /\ Noted(r1) /\ Headed(r2) /\ r2.head = "theme" /\ Headed(r4) /\ r4.head = "window_rules"
    BY <2>1, RowsAre
  <2> HIDE DEF r1, r2, r4
  <2>3. <<>> \in Seq(Row) /\ After(<<>>) = LoadStart /\ LoadStart \in LoadState
    BY EmptySeq, AfterIs, NothingIs
  <2>4. s1 \in Seq(Row) /\ After(s1) = Cfg!ReadRow(LoadStart, r1)
    BY <2>2, <2>3, RowAdded, Zenon
  <2>5. After(s1) = LoadStart
    BY <2>2, <2>3, <2>4, RowRead, Zenon
  <2> HIDE DEF s1
  <2>6. s2 \in Seq(Row) /\ After(s2) = Cfg!ReadRow(LoadStart, r2)
    BY <2>2, <2>4, <2>5, RowAdded, Zenon
  <2> HIDE DEF s2
  <2> DEFINE a2 == After(s2)
  <2> HIDE DEF a2
  <2>7. a2 \in LoadState /\ a2.section = "theme" /\ a2.values = Cfg!Nothing
    <3>1. a2 = Cfg!ReadRow(LoadStart, r2)
      BY <2>6, Zenon DEF a2
    <3>2. a2 \in LoadState /\ a2.section = r2.head /\ a2.values = LoadStart.values
      BY <2>2, <2>3, <3>1, RowRead, Zenon
    <3>3. QED
      BY <2>2, <3>2, NothingIs, Zenon
  <2>8. s3 \in Seq(Row) /\ After(s3) = Cfg!ReadRow(a2, Cfg!Entry(mode1, "old"))
    BY <2>2, <2>6, RowAdded, Zenon DEF a2
  <2> DEFINE a3 == After(s3)
  <2> HIDE DEF s3, a3
  <2>9. a3 \in LoadState /\ DOMAIN a3.values = DOMAIN a2.values \union {mode1}
    <3>1. a3 = Cfg!ReadRow(a2, Cfg!Entry(mode1, "old"))
      BY <2>8, Zenon DEF a3
    <3>2. QED
      BY <2>1, <2>7, <3>1, EntryRead
  <2>10. s4 \in Seq(Row) /\ After(s4) = Cfg!ReadRow(a3, r4)
    BY <2>2, <2>8, RowAdded, Zenon DEF a3
  <2> DEFINE a4 == After(s4)
  <2> HIDE DEF s4, a4
  <2>11. a4 \in LoadState /\ a4.section = "window_rules" /\ a4.values = a3.values
    <3>1. a4 = Cfg!ReadRow(a3, r4)
      BY <2>10, Zenon DEF a4
    <3>2. a4 \in LoadState /\ a4.section = r4.head /\ a4.values = a3.values
      BY <2>2, <2>9, <3>1, RowRead, Zenon
    <3>3. QED
      BY <2>2, <3>2, Zenon
  <2>12. s5 \in Seq(Row) /\ After(s5) = Cfg!ReadRow(a4, Cfg!Entry(rule1, "old"))
    BY <2>2, <2>10, RowAdded, Zenon DEF a4
  <2> DEFINE a5 == After(s5)
  <2> HIDE DEF s5, a5
  <2>13. DOMAIN a5.values = DOMAIN a4.values \union {rule1}
    <3>1. a5 = Cfg!ReadRow(a4, Cfg!Entry(rule1, "old"))
      BY <2>12, Zenon DEF a5
    <3>2. QED
      BY <2>1, <2>11, <3>1, EntryRead
  <2>14. DOMAIN After(s5).values = {mode1, rule1}
    <3>1. DOMAIN a5.values = {mode1, rule1}
      BY <2>7, <2>9, <2>11, <2>13, NothingIs
    <3>2. QED
      BY <3>1, Zenon DEF a5
  <2>15. Cfg!StartRows = s5
    <3> HIDE DEF r3, r5
    <3>1. <<r1, r2, r3, r4, r5>> = Append(Append(Append(Append(Append(<<>>, r1), r2), r3), r4), r5)
      OBVIOUS
    <3>2. QED
      BY <3>1, Zenon DEF Cfg!StartRows, r1, r2, r3, r4, r5, s1, s2, s3, s4, s5, mode1, rule1
  <2>16. Cfg!Loaded(s5) = After(s5).values
    BY <2>12, ReadingIs, Zenon
  <2>17. Filed(s5)
    BY <2>1, <2>12, <2>14, <2>16 DEF Filed
  <2>18. QED
    BY <2>15, <2>17, Zenon
<1>3. QED
  BY <1>1, <1>2

\* A handler that leaves a copy that is ready.
LEMMA EditKeeps ==
    ASSUME ConfigInv, NEW p \in Cfg!Programs, NEW c, NEW want, NEW touched,
           Cfg!Edit(p, c, want, touched), Prepared(Copy(c, want, touched)), UNCHANGED rulesPage
    PROVE  ConfigInv'
<1> DEFINE w == Copy(c, want, touched)
<1>1. file' = file /\ writer' = [writer EXCEPT ![p] = w] /\ rulesPage' = rulesPage
  BY Zenon DEF Cfg!Edit, Copy
<1>2. ConfigCopies'
  <2>1. ConfigCopies /\ Prepared(w)
    BY DEF ConfigInv
  <2> HIDE DEF w
  <2>2. /\ writer' = [q \in Cfg!Programs |-> writer'[q]]
        /\ \A q \in Cfg!Programs : writer'[q] = IF q = p THEN w ELSE writer[q]
    BY <1>1, <2>1 DEF ConfigCopies
  <2>3. \A q \in Cfg!Programs : writer'[q] = Cfg!Idle \/ Prepared(writer'[q])
    BY <2>1, <2>2, Zenon DEF ConfigCopies
  <2>4. QED
    BY <2>2, <2>3, Zenon DEF ConfigCopies
<1>3. QED
  BY <1>1, <1>2, Zenon DEF ConfigInv, ConfigPages

\* The handlers that set keys of other sections.
LEMMA AssignKeeps ==
    ASSUME ConfigInv, NEW p \in Cfg!Programs, NEW keys \in SUBSET Cfg!Keys, keys # {},
           \A k \in keys : Cfg!SectionOf(k) \notin Clearing, Cfg!Assign(p, keys)
    PROVE  ConfigInv'
<1> DEFINE want == [k \in keys |-> "new"]
           c == Cfg!Set(Cfg!Load(file), want)
<1>1. Prepared(Copy(c, want, keys))
  BY AssignedIs, Zenon DEF ConfigInv
<1>2. Cfg!Edit(p, c, want, keys) /\ UNCHANGED rulesPage
  BY Zenon DEF Cfg!Assign
<1> HIDE DEF c, want
<1>3. QED
  BY <1>1, <1>2, EditKeeps

\* The keys each of them sets.
LEMMA AssignedKeys ==
    LET open(keys) == /\ keys \in SUBSET Cfg!Keys /\ keys # {}
                      /\ \A k \in keys : Cfg!SectionOf(k) \notin Clearing
    IN  /\ open({Cfg!Mode}) /\ open({Cfg!Wallpaper}) /\ open({Cfg!Night}) /\ open({Cfg!Input})
        /\ open({Cfg!Mode, Cfg!Wallpaper, Cfg!Night})
<1>1. {Cfg!Mode, Cfg!Wallpaper, Cfg!Night, Cfg!Input} \subseteq Cfg!Keys
  BY DEF Cfg!Keys
<1>2. \A k \in {Cfg!Mode, Cfg!Wallpaper, Cfg!Night, Cfg!Input} : Cfg!SectionOf(k) \notin Clearing
  BY DEF Cfg!Mode, Cfg!Wallpaper, Cfg!Night, Cfg!Input, Cfg!SectionOf, Clearing
<1>3. QED
  BY <1>1, <1>2

\* The keys of the two sections that are cleared.
LEMMA ClearedKeys ==
    /\ {k \in Cfg!Keys : k[1] = "shortcuts"} = {Cfg!Close}
    /\ {k \in Cfg!Keys : k[1] = "window_rules"} = {Cfg!Rule(n) : n \in Cfg!RuleNames}
BY DEF Cfg!Keys, Cfg!RuleNames, Cfg!Mode, Cfg!Wallpaper, Cfg!Night, Cfg!Input, Cfg!Close, Cfg!Rule

\* The shortcuts page clears its section, and sets a binding or none.
LEMMA ShortcutsKeep ==
    ASSUME ConfigInv, NEW p \in Cfg!Programs, Cfg!SaveShortcuts(p)
    PROVE  ConfigInv'
<1>1. PICK want \in {Cfg!Nothing, [k \in {Cfg!Close} |-> "new"]} :
         /\ Cfg!Edit(p, Cfg!Set(Cfg!Clear(Cfg!Load(file), "shortcuts"), want), want, {Cfg!Close})
         /\ UNCHANGED rulesPage
  BY DEF Cfg!SaveShortcuts
<1>2. Cfg!Close \in Pairs /\ Cfg!Close[1] = "shortcuts"
  BY KeysAre DEF Cfg!Keys, Cfg!Close
<1>3. Wishes(want) /\ \A k \in DOMAIN want : k[1] = "shortcuts"
  <2>1. CASE want = Cfg!Nothing
    BY <2>1, NothingIs DEF Wishes, Cfg!Nothing
  <2>2. CASE want = [k \in {Cfg!Close} |-> "new"]
    BY <1>2, <2>2 DEF Wishes, Cfg!Values
  <2>3. QED
    BY <1>1, <2>1, <2>2
<1> DEFINE c == Cfg!Set(Cfg!Clear(Cfg!Load(file), "shortcuts"), want)
<1>4. Prepared(Copy(c, want, {k \in Cfg!Keys : k[1] = "shortcuts"}))
  <2>1. Filed(file) /\ "shortcuts" \in Clearing
    BY DEF ConfigInv, Clearing
  <2>2. QED
    BY <1>3, <2>1, ClearedIs, Zenon
<1>5. Prepared(Copy(c, want, {Cfg!Close}))
  BY <1>4, ClearedKeys, Zenon
<1> HIDE DEF c
<1>6. Cfg!Edit(p, c, want, {Cfg!Close}) /\ UNCHANGED rulesPage
  BY <1>1, Zenon DEF c
<1>7. QED
  BY <1>5, <1>6, EditKeeps

\* The rules page clears its section, and sets what its table says.
LEMMA RulesKeep ==
    ASSUME ConfigInv, NEW p \in Cfg!Programs, Cfg!SaveRules(p)
    PROVE  ConfigInv'
<1> DEFINE want == Cfg!Wanted(rulesPage[p].rules)
           c == Cfg!Set(Cfg!Clear(Cfg!Load(file), "window_rules"), want)
           touched == {Cfg!Rule(n) : n \in Cfg!RuleNames}
<1>1. Cfg!Edit(p, c, want, touched) /\ UNCHANGED rulesPage
  BY Zenon DEF Cfg!SaveRules
<1>2. rulesPage[p].rules \in Seq(RuleRow)
  BY DEF ConfigInv, ConfigPages
<1>3. Wishes(want) /\ \A k \in DOMAIN want : k[1] = "window_rules"
  BY <1>2, WantedIs, Zenon
<1> HIDE DEF want
<1>4. Prepared(Copy(c, want, {k \in Cfg!Keys : k[1] = "window_rules"}))
  <2>1. Filed(file) /\ "window_rules" \in Clearing
    BY DEF ConfigInv, Clearing
  <2>2. QED
    BY <1>3, <2>1, ClearedIs, Zenon
<1>5. Prepared(Copy(c, want, touched))
  BY <1>4, ClearedKeys, Zenon
<1> HIDE DEF c, touched
<1>6. QED
  BY <1>1, <1>5, EditKeeps

\* The rules pages.
LEMMA PagesKeep ==
    ASSUME ConfigInv, NEW p \in Cfg!Programs,
           \/ Cfg!OpenRulesPage(p) \/ Cfg!CloseRulesPage(p)
           \/ Cfg!AddRule(p) \/ Cfg!EditRule(p) \/ Cfg!RemoveRule(p)
    PROVE  ConfigInv'
<1> DEFINE Fine(page) == page \in [open : BOOLEAN, rules : Seq(RuleRow)]
           rules == rulesPage[p].rules
<1>1. Filed(file) /\ ConfigPages /\ rules \in Seq(RuleRow)
  BY DEF ConfigInv, ConfigPages
<1>2. ASSUME NEW page, Fine(page), rulesPage' = [rulesPage EXCEPT ![p] = page],
             UNCHANGED <<file, writer>>
      PROVE  ConfigInv'
  <2>1. ConfigPages'
    BY <1>1, <1>2 DEF ConfigPages
  <2>2. QED
    BY <1>2, <2>1 DEF ConfigInv, ConfigCopies
<1>3. ASSUME NEW table \in Seq(RuleRow), Cfg!EditTable(p, table)
      PROVE  ConfigInv'
  <2> DEFINE page == [rulesPage[p] EXCEPT !.rules = table]
  <2>1. Fine(page)
    BY <1>1 DEF ConfigPages
  <2>2. rulesPage' = [rulesPage EXCEPT ![p] = page] /\ UNCHANGED <<file, writer>>
    BY <1>3 DEF Cfg!EditTable
  <2> HIDE DEF page, Fine
  <2>3. QED
    BY <1>2, <2>1, <2>2
<1>4. \A n \in Cfg!RuleNames : [name |-> n, value |-> "new"] \in RuleRow
  BY KeysAre DEF RuleRow, Cfg!Values
<1>5. CASE Cfg!OpenRulesPage(p)
  <2> DEFINE page == [open |-> TRUE, rules |-> Cfg!RulesIn(file)]
  <2>1. Cfg!RulesIn(file) \in Seq(RuleRow)
    BY <1>1, RulesAre DEF Filed
  <2>2. rulesPage' = [rulesPage EXCEPT ![p] = page] /\ UNCHANGED <<file, writer>>
    BY <1>5 DEF Cfg!OpenRulesPage
  <2>3. Fine(page)
    BY <2>1
  <2> HIDE DEF page, Fine
  <2>4. QED
    BY <1>2, <2>2, <2>3
<1>6. CASE Cfg!CloseRulesPage(p)
  <2>1. <<>> \in Seq(RuleRow)
    BY EmptySeq
  <2>2. rulesPage' = [rulesPage EXCEPT ![p] = Cfg!Closed] /\ UNCHANGED <<file, writer>>
    BY <1>6 DEF Cfg!CloseRulesPage
  <2>3. Fine(Cfg!Closed)
    BY <2>1 DEF Cfg!Closed
  <2> HIDE DEF Fine
  <2>4. QED
    BY <1>2, <2>2, <2>3
<1>7. CASE Cfg!AddRule(p)
  <2>1. PICK n \in Cfg!RuleNames : Cfg!EditTable(p, Append(rules, [name |-> n, value |-> "new"]))
    BY <1>7 DEF Cfg!AddRule
  <2> DEFINE row == [name |-> n, value |-> "new"]
  <2>2. row \in RuleRow
    BY <1>4
  <2> HIDE DEF row, rules
  <2>3. Append(rules, row) \in Seq(RuleRow)
    BY <1>1, <2>2
  <2>4. Cfg!EditTable(p, Append(rules, row))
    BY <2>1, Zenon DEF row
  <2>5. QED
    BY <1>3, <2>3, <2>4, Zenon
<1>8. CASE Cfg!EditRule(p)
  <2>1. PICK n \in Cfg!RuleNames, i \in DOMAIN rules :
               Cfg!EditTable(p, [rules EXCEPT ![i] = [name |-> n, value |-> "new"]])
    BY <1>8 DEF Cfg!EditRule
  <2> DEFINE row == [name |-> n, value |-> "new"]
             table == [rules EXCEPT ![i] = row]
  <2>2. row \in RuleRow
    BY <1>4
  <2> HIDE DEF row, rules
  <2>3. table \in Seq(RuleRow)
    BY <1>1, <2>2, ExceptSeq
  <2>4. Cfg!EditTable(p, table)
    BY <2>1, Zenon DEF row
  <2> HIDE DEF table
  <2>5. QED
    BY <1>3, <2>3, <2>4, Zenon
<1>9. CASE Cfg!RemoveRule(p)
  <2>1. PICK i \in DOMAIN rules : Cfg!EditTable(p, Cfg!RemoveAt(rules, i))
    BY <1>9 DEF Cfg!RemoveRule
  <2>2. Cfg!RemoveAt(rules, i) \in Seq(RuleRow)
    BY <1>1, TakenIs
  <2>3. QED
    BY <1>3, <2>1, <2>2, Zenon
<1>10. QED
  BY <1>5, <1>6, <1>7, <1>8, <1>9

\* A save ends, or fails.
LEMMA EndsKeep ==
    ASSUME ConfigInv, NEW p \in Cfg!Programs, Cfg!RenameTmp(p) \/ Cfg!GiveUp(p)
    PROVE  ConfigInv'
<1>1. writer' = [writer EXCEPT ![p] = Cfg!Idle] /\ rulesPage' = rulesPage
  BY DEF Cfg!RenameTmp, Cfg!GiveUp
<1>2. ConfigCopies'
  BY <1>1 DEF ConfigInv, ConfigCopies
<1>3. Filed(file)'
  <2>1. CASE Cfg!GiveUp(p)
    <3>1. file' = file
      BY <2>1, Zenon DEF Cfg!GiveUp
    <3>2. QED
      BY <3>1, Zenon DEF ConfigInv
  <2>2. CASE Cfg!RenameTmp(p)
    <3>1. file' = Cfg!Saved(writer[p].cfg) /\ writer[p].pc = "edited"
      BY <2>2, Zenon DEF Cfg!RenameTmp
    <3>2. writer[p] # Cfg!Idle
      BY <3>1 DEF Cfg!Idle
    <3>3. Prepared(writer[p])
      BY <3>2, Zenon DEF ConfigInv, ConfigCopies
    <3>4. Filed(Cfg!Saved(writer[p].cfg))
      BY <3>3, SaveIs, Zenon
    <3>5. QED
      BY <3>1, <3>4, Zenon
  <2>3. QED
    BY <2>1, <2>2
<1>4. QED
  BY <1>1, <1>2, <1>3, Zenon DEF ConfigInv, ConfigPages

\* Each step of the file keeps its invariant.
LEMMA ConfigInvKept ==
    ASSUME ConfigInv, [Cfg!Next]_configVars
    PROVE  ConfigInv'
<1>1. RulePrograms \subseteq Cfg!Programs /\ {"settings", "control", "compositor"} = Cfg!Programs
  BY ConfigAssumption DEF ConfigAssumption, Cfg!Programs
<1>2. CASE Cfg!Next
  <2>1. CASE Cfg!SaveTheme \/ Cfg!ApplyWallpaper \/ Cfg!SaveNightLight \/ Cfg!SaveAppearance
             \/ Cfg!SetNightLight \/ \E p \in {"settings", "control"} : Cfg!SaveInput(p)
    <3>1. PICK p \in Cfg!Programs, keys \in {{Cfg!Mode}, {Cfg!Wallpaper}, {Cfg!Night}, {Cfg!Input},
                                             {Cfg!Mode, Cfg!Wallpaper, Cfg!Night}} :
                 Cfg!Assign(p, keys)
      <4>1. "settings" \in Cfg!Programs /\ "control" \in Cfg!Programs /\ "compositor" \in Cfg!Programs
        BY <1>1
      <4>2. QED
        BY <2>1, <4>1, Zenon DEF Cfg!SaveTheme, Cfg!ApplyWallpaper, Cfg!SaveNightLight,
               Cfg!SaveAppearance, Cfg!SetNightLight, Cfg!SaveInput
    <3>2. /\ keys \in SUBSET Cfg!Keys /\ keys # {}
          /\ \A k \in keys : Cfg!SectionOf(k) \notin Clearing
      BY AssignedKeys, Zenon
    <3>3. QED
      BY <3>1, <3>2, AssignKeeps
  <2>2. CASE \E p \in RulePrograms :
               \/ Cfg!SaveShortcuts(p) \/ Cfg!OpenRulesPage(p) \/ Cfg!CloseRulesPage(p)
               \/ Cfg!AddRule(p) \/ Cfg!EditRule(p) \/ Cfg!RemoveRule(p) \/ Cfg!SaveRules(p)
    BY <1>1, <2>2, ShortcutsKeep, PagesKeep, RulesKeep
  <2>3. CASE \E p \in Cfg!Programs : Cfg!RenameTmp(p) \/ Cfg!GiveUp(p)
    BY <2>3, EndsKeep
  <2>4. QED
    BY <1>2, <2>1, <2>2, <2>3, Zenon DEF Cfg!Next
<1>3. CASE UNCHANGED configVars
  <2>1. file' = file /\ writer' = writer /\ rulesPage' = rulesPage
    BY <1>3 DEF configVars
  <2>2. QED
    BY <2>1, Zenon DEF ConfigInv, ConfigCopies, ConfigPages
<1>4. QED
  BY <1>2, <1>3

\* So it always holds.
LEMMA ConfigInvHolds == Spec => []ConfigInv
<1>1. Init => ConfigInv
  <2> SUFFICES ASSUME Init PROVE ConfigInv
    OBVIOUS
  <2>1. /\ file \in {<<>>, Cfg!StartRows}
        /\ writer = [p \in Cfg!Programs |-> Cfg!Idle]
        /\ rulesPage = [p \in Cfg!Programs |-> Cfg!Closed]
    BY Zenon DEF Init, Cfg!Init
  <2>2. Filed(file)
    BY <2>1, StartIsFiled
  <2>3. ConfigCopies
    BY <2>1 DEF ConfigCopies
  <2>4. Cfg!Closed \in [open : BOOLEAN, rules : Seq(RuleRow)]
    BY EmptySeq DEF Cfg!Closed
  <2>5. ConfigPages
    BY <2>1, <2>4 DEF ConfigPages
  <2>6. QED
    BY <2>2, <2>3, <2>5 DEF ConfigInv
<1>2. ConfigInv /\ [Next]_vars => ConfigInv'
  BY ConfigAlone, ConfigInvKept
<1>3. QED
  BY <1>1, <1>2, PTL DEF Spec

\* Whatever the file holds and whoever wrote to it since it was loaded: a save changes
\* what its page changed and nothing else, and after a page that clears its section the
\* file loads as that page's table.
THEOREM SaveStaysExact == Spec => SaveIsExact
<1> DEFINE Exact(p) == Cfg!Saves(p) =>
                          Cfg!KeepsTheRest(p) /\ (Cfg!Rewrites(p) => Cfg!LoadsAsWanted(p))
<1>1. ASSUME ConfigInv, [Cfg!Next]_configVars, NEW p \in Cfg!Programs PROVE Exact(p)
  <2>1. SUFFICES ASSUME Cfg!Saves(p)
                 PROVE  Cfg!KeepsTheRest(p) /\ (Cfg!Rewrites(p) => Cfg!LoadsAsWanted(p))
    OBVIOUS
  <2>2. writer[p].pc = "edited" /\ writer'[p].pc = "idle" /\ saves' # saves
    BY <2>1, Zenon DEF Cfg!Saves
  <2>3. \E q \in Cfg!Programs : Cfg!RenameTmp(q)
    BY <1>1, <2>2 DEF Cfg!Next, configVars, Cfg!SaveTheme, Cfg!ApplyWallpaper, Cfg!SaveNightLight,
       Cfg!SaveAppearance, Cfg!SetNightLight, Cfg!SaveInput, Cfg!Assign, Cfg!Edit,
       Cfg!SaveShortcuts, Cfg!OpenRulesPage, Cfg!CloseRulesPage, Cfg!AddRule, Cfg!EditRule,
       Cfg!RemoveRule, Cfg!EditTable, Cfg!SaveRules, Cfg!GiveUp
  <2>4. PICK q \in Cfg!Programs : Cfg!RenameTmp(q)
    BY <2>3
  <2>5. /\ file' = Cfg!Saved(writer[q].cfg)
        /\ writer' = [writer EXCEPT ![q] = Cfg!Idle]
    BY <2>4, Zenon DEF Cfg!RenameTmp
  <2>6. p = q
    <3>1. SUFFICES ASSUME p # q PROVE FALSE
      OBVIOUS
    <3>2. writer'[p] = writer[p]
      BY <1>1, <2>5, <3>1 DEF ConfigInv, ConfigCopies
    <3>3. QED
      BY <2>2, <3>2
  <2> DEFINE w == writer[p]
  <2>7. Prepared(w) /\ file' = Cfg!Saved(w.cfg)
    <3>1. w # Cfg!Idle
      BY <2>2 DEF Cfg!Idle
    <3>2. QED
      BY <1>1, <2>5, <2>6, <3>1, Zenon DEF ConfigInv, ConfigCopies
  <2> HIDE DEF w
  <2>8. /\ \A k \in Cfg!Keys \ w.touched :
              Cfg!ValueIn(file', k) = Cfg!ValueIn(w.cfg.rows, k)
        /\ Cfg!SectionOf(CHOOSE k \in w.touched : TRUE) \in Clearing =>
              \A k \in w.touched :
                 Cfg!ValueIn(file', k) = IF k \in DOMAIN w.want THEN w.want[k] ELSE "none"
    BY <2>7, SaveIs, Zenon
  <2>9. QED
    BY <2>8, Zenon DEF Cfg!KeepsTheRest, Cfg!Rewrites, Cfg!LoadsAsWanted, Clearing, w
<1>2. ConfigInv /\ [Next]_vars => [\A p \in Cfg!Programs : Exact(p)]_configVars
  <2> SUFFICES ASSUME ConfigInv, [Next]_vars PROVE \A p \in Cfg!Programs : Exact(p)
    OBVIOUS
  <2>1. [Cfg!Next]_configVars
    BY ConfigAlone
  <2> HIDE DEF Exact
  <2>2. QED
    BY <1>1, <2>1
<1>3. ConfigInv /\ [Next]_vars => [\A p \in Cfg!Programs : Cfg!Saves(p) =>
          Cfg!KeepsTheRest(p) /\ (Cfg!Rewrites(p) => Cfg!LoadsAsWanted(p))]_Cfg!cfgVars
  BY <1>2, Zenon DEF configVars, Cfg!cfgVars
<1>4. QED
  BY <1>3, ConfigInvHolds, PTL DEF Spec, SaveIsExact, Cfg!SaveIsExact
==============================================================================
