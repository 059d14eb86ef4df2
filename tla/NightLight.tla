----------------------------- MODULE NightLight -----------------------------
(***************************************************************************)
(* The night light in the compositor: the minute timer, the interval, the  *)
(* gamma tables committed to outputs that come at any time, and the        *)
(* setting that arrives over D-Bus (Compositor::applyNightLight,           *)
(* setNightLight, nightLightTimerCallback).                                *)
(*                                                                         *)
(* The clock counts minutes of a day of Day minutes.  The timer is armed   *)
(* again when its callback ends, so now and then a minute of the clock has *)
(* no callback; two in a row always have one.                              *)
(***************************************************************************)
EXTENDS Integers, FiniteSets

CONSTANTS
    Screens,     \* outputs with gamma control
    Day,         \* minutes of a day (1440)
    Windows,     \* the intervals <<start, end>> that are set, start # end
    Temps        \* colour temperatures

VARIABLES
    now,         \* minute of the day
    night,       \* nightLight_: [enabled, temp, start, end]
    active,      \* nightLightActive_
    applied,     \* appliedOnce_
    timer,       \* nightLightTimer_ exists
    late,        \* minutes since the callback or the start, up to 3
    lit,         \* outputs_
    gamma,       \* the table of each output: a temperature, or Reset
    failed       \* outputs whose last commit of a table failed

nightVars == <<now, night, active, applied, timer, late, lit, gamma, failed>>

Reset    == 0
Settings == {[enabled |-> b, temp |-> t, start |-> w[1], end |-> w[2]] :
               b \in BOOLEAN, t \in Temps, w \in Windows}

\* isNightActive.
IsActive(c, m) ==
    c.enabled /\ IF c.start < c.end THEN c.start <= m /\ m < c.end
                                    ELSE c.start <= m \/ m < c.end

Table(c, m) == IF IsActive(c, m) THEN c.temp ELSE Reset

\* The loop over the outputs: each commit succeeds or fails on its own.
CommitTables(c, on) ==
    \E bad \in SUBSET on :
      /\ gamma' = [o \in Screens |-> IF o \in on \ bad THEN Table(c, now) ELSE gamma[o]]
      /\ failed' = (failed \ on) \union bad

\* Mutant: a hot-plugged output and a new setting are skipped like a quiet minute.
ApplyUnforced(c, on, force) ==
    IF IsActive(c, now) = active /\ applied
    THEN UNCHANGED <<active, applied, gamma, failed>>
    ELSE /\ active' = IsActive(c, now) /\ applied' = TRUE
         /\ CommitTables(c, on)

\* applyNightLight: nothing is done while nothing changes, unless forced.
Apply(c, on, force) ==
    IF ~force /\ IsActive(c, now) = active /\ applied
    THEN UNCHANGED <<active, applied, gamma, failed>>
    ELSE /\ active' = IsActive(c, now) /\ applied' = TRUE
         /\ CommitTables(c, on)

\* Compositor::init after the backend started: the outputs of the start are
\* there, the timer exists only for an enabled night light.
Init ==
    /\ now \in 0..Day - 1
    /\ night \in Settings
    /\ lit \in SUBSET Screens
    /\ active = IsActive(night, now) /\ applied = TRUE
    /\ timer = night.enabled
    /\ late = 0
    /\ gamma = [o \in Screens |-> IF o \in lit THEN Table(night, now) ELSE Reset]
    /\ failed = {}

\* A minute passes.
Minute ==
    /\ timer => late < 2
    /\ now' = (now + 1) % Day
    /\ late' = IF late < 3 THEN late + 1 ELSE 3
    /\ UNCHANGED <<night, active, applied, timer, lit, gamma, failed>>

\* nightLightTimerCallback.
TimerCallback ==
    /\ timer /\ late > 0
    /\ Apply(night, lit, FALSE)
    /\ late' = 0
    /\ UNCHANGED <<now, night, timer, lit>>

\* handleNewOutput.
NewOutput(o) ==
    /\ o \notin lit
    /\ lit' = lit \union {o}
    /\ Apply(night, lit', TRUE)
    /\ UNCHANGED <<now, night, timer, late>>

\* setNightLight: nothing happens unless the setting could be saved; the timer
\* is made or removed with it.
SetNightLight(c) ==
    /\ night' = c
    /\ timer' = c.enabled
    /\ Apply(c, lit, TRUE)
    /\ late' = 0
    /\ UNCHANGED <<now, lit>>

SaveFails == UNCHANGED nightVars

Next ==
    \/ Minute \/ TimerCallback
    \/ \E o \in Screens : NewOutput(o)
    \/ \E c \in Settings : SetNightLight(c)
    \/ SaveFails

Spec == Init /\ [][Next]_nightVars

\* Every output whose commits were accepted shows the light that the setting in
\* force asks for at this minute or at one of the two before it, whenever it was
\* plugged in and however the setting changed (server.cpp:728 and :382).
LightIsRecent == \A o \in lit \ failed :
    \E k \in 0..2 : gamma[o] = Table(night, (now - k) % Day)
=============================================================================
