--------------------------------- MODULE Clock ---------------------------------
(***************************************************************************)
(* The alarm clock program: the countdown, the stopwatch and the alarms of *)
(* ClockWindow, all driven by one timer that ticks every second.  Time is  *)
(* in half seconds, so that buttons can be pressed between two ticks.      *)
(***************************************************************************)
EXTENDS Integers, Sequences, SequencesExt

CONSTANTS
    Lengths,       \* what the time field of the countdown is set to, in half seconds
    MinuteHalves,  \* half seconds in a minute
    DayMinutes,    \* minutes in a day
    MaxAlarms, MaxNow   \* bounds on alarms and on time

VARIABLES
    now,           \* the clock of the computer
    field,         \* timerTargetEdit_
    countdown,     \* timerRunning_, timerTargetMs_, timerRemainingMs_
    stopwatch,     \* stopwatchStartedMs_, or -1 for none, and stopwatchBaseMs_
    alarms,        \* alarmList_, each its minute of the day
    lastAlarmKey,  \* the day and minute of the last alarm, or -1
    measured       \* observer: what a countdown and a stopwatch should have counted

clockVars == <<now, field, countdown, stopwatch, alarms, lastAlarmKey, measured>>

Minute == (now \div MinuteHalves) % DayMinutes
Key    == now \div MinuteHalves

Init ==
    /\ now = 0 /\ field \in Lengths
    /\ countdown = [running |-> FALSE, target |-> 0, remaining |-> 0]
    /\ stopwatch = [started |-> -1, base |-> 0]
    /\ alarms = <<>> /\ lastAlarmKey = -1
    /\ measured = [left |-> 0, watch |-> 0, rings |-> 0]

-----------------------------------------------------------------------------
(* The countdown.  measured.left is what is left of it, 0 for none.        *)

\* onTimerTick: the countdown ends at the first tick at or after its target.
TimerTicked(c, t) == IF c.target <= t THEN [c EXCEPT !.running = FALSE] ELSE c

SetField(l) ==
    /\ field' = l
    /\ UNCHANGED <<now, countdown, stopwatch, alarms, lastAlarmKey, measured>>

\* A paused countdown goes on; a running one, or none, begins anew.
StartTimer ==
    /\ LET length == IF countdown.remaining > 0 THEN countdown.remaining ELSE field
       IN  countdown' = TimerTicked([running |-> TRUE, target |-> now + length, remaining |-> 0], now)
    /\ measured' = [measured EXCEPT !.left = IF countdown.running \/ @ = 0 THEN field ELSE @]
    /\ UNCHANGED <<now, field, stopwatch, alarms, lastAlarmKey>>

\* Mutant of PauseTimer: what is left is not kept.
PauseTimerForgetting ==
    /\ countdown.running
    /\ countdown' = [countdown EXCEPT !.running = FALSE]
    /\ UNCHANGED <<now, field, stopwatch, alarms, lastAlarmKey, measured>>

\* Paused between its target and the next tick, a countdown ends without a sound.
PauseTimer ==
    /\ countdown.running
    /\ countdown' = [countdown EXCEPT !.running = FALSE,
                        !.remaining = IF countdown.target > now THEN countdown.target - now ELSE 0]
    /\ UNCHANGED <<now, field, stopwatch, alarms, lastAlarmKey, measured>>

ResetTimer ==
    /\ countdown' = [countdown EXCEPT !.running = FALSE, !.remaining = 0]
    /\ measured' = [measured EXCEPT !.left = 0]
    /\ UNCHANGED <<now, field, stopwatch, alarms, lastAlarmKey>>

-----------------------------------------------------------------------------
(* The stopwatch.                                                          *)

StopwatchTotal == stopwatch.base + IF stopwatch.started = -1 THEN 0 ELSE now - stopwatch.started

\* One button starts and pauses.
StartStopwatch ==
    /\ stopwatch' = IF stopwatch.started = -1 THEN [stopwatch EXCEPT !.started = now]
                    ELSE [started |-> -1, base |-> StopwatchTotal]
    /\ UNCHANGED <<now, field, countdown, alarms, lastAlarmKey, measured>>

ResetStopwatch ==
    /\ stopwatch' = [started |-> -1, base |-> 0]
    /\ measured' = [measured EXCEPT !.watch = 0]
    /\ UNCHANGED <<now, field, countdown, alarms, lastAlarmKey>>

-----------------------------------------------------------------------------
(* The alarms and the tick.                                                *)

AddAlarm(m) ==
    /\ Len(alarms) < MaxAlarms /\ alarms' = Append(alarms, m)
    /\ UNCHANGED <<now, field, countdown, stopwatch, lastAlarmKey, measured>>

DeleteAlarm(i) ==
    /\ alarms' = RemoveAt(alarms, i)
    /\ UNCHANGED <<now, field, countdown, stopwatch, lastAlarmKey, measured>>

\* alarmDue for one of the alarms: the first of a minute rings, the others find the
\* key of their minute taken.
Rings == Key' # lastAlarmKey /\ \E i \in DOMAIN alarms : alarms[i] = Minute'

AlarmTick == lastAlarmKey' = IF Rings THEN Key' ELSE lastAlarmKey

\* Half a second passes; every other time the window's timer ticks.
Half ==
    /\ now < MaxNow /\ now' = now + 1
    /\ LET tick == now' % 2 = 0 IN
       /\ IF tick THEN AlarmTick ELSE UNCHANGED lastAlarmKey
       /\ countdown' = IF tick /\ countdown.running THEN TimerTicked(countdown, now') ELSE countdown
       /\ measured' =
            [left  |-> IF countdown.running /\ measured.left > 0 THEN measured.left - 1
                       ELSE measured.left,
             watch |-> measured.watch + IF stopwatch.started = -1 THEN 0 ELSE 1,
             rings |-> (IF Key' = Key THEN measured.rings ELSE 0)
                         + IF tick /\ Rings THEN 1 ELSE 0]
    /\ UNCHANGED <<field, stopwatch, alarms>>

Next ==
    \/ \E l \in Lengths : SetField(l)
    \/ StartTimer \/ PauseTimer \/ ResetTimer
    \/ StartStopwatch \/ ResetStopwatch
    \/ \E m \in 0..(DayMinutes - 1) : AddAlarm(m)
    \/ \E i \in DOMAIN alarms : DeleteAlarm(i)
    \/ Half

Spec == Init /\ [][Next]_clockVars

-----------------------------------------------------------------------------

\* The countdown has as much time left as its length less the time it ran, however
\* often it is paused and whatever the field is set to meanwhile (startTimer,
\* pauseTimer); the stopwatch shows the time it ran; and no alarm rings twice in a
\* minute, nor two alarms of one minute one after the other (alarmDue).
TimesAreTrue ==
    /\ countdown.running => measured.left = IF countdown.target > now THEN countdown.target - now ELSE 0
    /\ ~countdown.running /\ countdown.remaining > 0 => measured.left = countdown.remaining
    /\ ~countdown.running /\ countdown.remaining = 0 => measured.left = 0
    /\ measured.watch = StopwatchTotal
    /\ measured.rings <= 1
=============================================================================
