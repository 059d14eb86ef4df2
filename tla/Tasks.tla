------------------------------- MODULE Tasks --------------------------------
(***************************************************************************)
(* The task scheduler w10tasks: the daemon (class TaskDaemon) reads the    *)
(* list from tasks.ini at each tick of its timer and at each Reload call,  *)
(* starts what is due and writes the time of the run back; the window      *)
(* (class TaskWindow) edits the same file and asks for a reload.  Writing  *)
(* truncates the file first.                                               *)
(*                                                                         *)
(* A task is [id, enabled, when, lastRun]; names, commands and the result  *)
(* text are left out, the wall clock only moves forward.                   *)
(***************************************************************************)
EXTENDS Integers, Sequences, SequencesExt, FiniteSets, FiniteSetsExt

CONSTANTS
    MinuteValues, HourValues, DayValues, MonthValues, WeekDays,
                   \* what the task dialog's controls are set to
    MaxTasks,      \* bound on the tasks in the window
    MaxKeys,       \* how many keys ranKeys_ keeps (1024)
    MaxMinute,     \* bound on the clock
    MaxEdits       \* bound on the user's changes

Ids == 1 .. MaxTasks
None == 0 - 1

VARIABLES
    now,           \* the minute of the wall clock
    file,          \* tasks.ini
    daemon,        \* "off", "idle", or how far a tick got: "run", "truncated"
    ranKeys,       \* ranKeys_: pairs <<minute, id>>
    toSave,        \* the daemon's changed list, to be written
    started,       \* what this daemon started in this minute (history)
    window,        \* "closed", "idle", "merged", "truncated", "calling"
    rows,          \* tasks_ of the window
    reload,        \* a Reload call is on its way or being handled
    edits

taskVars == <<now, file, daemon, ranKeys, toSave, started, window, rows, reload, edits>>
daemonVars == <<daemon, ranKeys, toSave, started>>
windowVars == <<window, rows, edits>>

-----------------------------------------------------------------------------
(* When a task is due.                                                     *)

Whenever == [minute |-> None, hour |-> None, day |-> None, month |-> None, week |-> None]

\* A small calendar: two minutes to the hour and one hour to the day; days
\* count from 1, and the week has as many days as the dialog offers.
At(t) == [minute |-> t % 2, hour |-> 0, day |-> 1 + t \div 2, month |-> 1,
          week |-> (t \div 2) % 2]

\* taskMatches: with a day of the month and of the week, either will do.
Due(when, at) ==
    LET dayOk  == when.day < 0 \/ when.day = at.day
        weekOk == when.week < 0 \/ when.week = at.week
    IN /\ when.minute \in {None, at.minute}
       /\ when.hour \in {None, at.hour}
       /\ when.month \in {None, at.month}
       /\ IF when.day >= 0 /\ when.week >= 0 THEN dayOk \/ weekOk ELSE dayOk /\ weekOk

(* The dialog: a template, and controls the template reads some of.        *)

Controls == [minute : MinuteValues, hour : HourValues, time : MinuteValues \X HourValues,
             day : DayValues, month : MonthValues, week : WeekDays]
Templates == {"EveryMinute", "Hourly", "Daily", "Weekly", "Monthly", "Custom"}

OrIgnored(v) == IF v = 0 THEN None ELSE v

\* makeTaskDialog's accepted handler.
Chosen(template, c) ==
    LET daily == [Whenever EXCEPT !.minute = c.time[1], !.hour = c.time[2]]
    IN CASE template = "EveryMinute" -> Whenever
         [] template = "Hourly" -> [Whenever EXCEPT !.minute = c.minute]
         [] template = "Daily" -> daily
         [] template = "Weekly" -> [daily EXCEPT !.week = c.week]
         [] template = "Monthly" -> [daily EXCEPT !.day = c.day]
         [] template = "Custom" ->
               [minute |-> c.minute, hour |-> c.hour, day |-> OrIgnored(c.day),
                month |-> OrIgnored(c.month), week |-> c.week]

\* Mutant of InferTemplate: the month is not looked at.
InferTemplateMonthless(when) ==
    IF when.day < 0 /\ when.week < 0
    THEN IF when.hour >= 0 THEN "Daily" ELSE IF when.minute >= 0 THEN "Hourly" ELSE "EveryMinute"
    ELSE IF when.day < 0 THEN "Weekly" ELSE IF when.week < 0 THEN "Monthly" ELSE "Custom"

\* inferTemplate: what an edited task's dialog is opened with.
InferTemplate(when) ==
    IF when.month >= 0 \/ (when.day >= 0 /\ when.week >= 0) THEN "Custom"
    ELSE IF when.week >= 0 THEN "Weekly"
    ELSE IF when.day >= 0 THEN "Monthly"
    ELSE IF when.hour >= 0 THEN "Daily"
    ELSE IF when.minute >= 0 THEN "Hourly" ELSE "EveryMinute"

\* ... and its controls.
OrZero(v) == IF v < 0 THEN 0 ELSE v
ShownControls(when) ==
    [minute |-> OrZero(when.minute), hour |-> OrZero(when.hour),
     time |-> <<OrZero(when.minute), OrZero(when.hour)>>,
     day |-> OrZero(when.day), month |-> OrZero(when.month), week |-> when.week]

-----------------------------------------------------------------------------
Init ==
    /\ now = 0 /\ file = <<>> /\ daemon = "off" /\ ranKeys = {} /\ toSave = <<>>
    /\ started = [i \in Ids |-> 0]
    /\ window = "closed" /\ rows = <<>> /\ reload = FALSE /\ edits = 0

(* The daemon.                                                             *)

\* The std::set is sorted by minute first: its begin() is the oldest key.
Older(k, l) == k[1] < l[1] \/ (k[1] = l[1] /\ k[2] < l[2])

\* Mutant of Kept: the newest key goes.
KeptOldest(keys) ==
    IF Cardinality(keys) <= MaxKeys THEN keys
    ELSE keys \ {CHOOSE k \in keys : \A l \in keys \ {k} : Older(l, k)}

Kept(keys) ==
    IF Cardinality(keys) <= MaxKeys THEN keys
    ELSE keys \ {CHOOSE k \in keys : \A l \in keys \ {k} : Older(k, l)}

\* What is due is noted, started and gets the time of the run.
Visited(acc, t) ==
    IF t.enabled /\ Due(t.when, At(now)) /\ <<now, t.id>> \notin acc.keys
    THEN [keys   |-> Kept(acc.keys \union {<<now, t.id>>}),
          starts |-> [acc.starts EXCEPT ![t.id] = @ + 1],
          list   |-> Append(acc.list, [t EXCEPT !.lastRun = now])]
    ELSE [acc EXCEPT !.list = Append(@, t)]

\* One pass over the list: the keys, the starts and the list as it is changed.
Ticked(list) ==
    LET pass[n \in 0 .. Len(list)] ==
            IF n = 0 THEN [keys |-> ranKeys, starts |-> started, list |-> <<>>]
            ELSE Visited(pass[n - 1], list[n])
    IN pass[Len(list)]

\* tick, by the timer or for a Reload call; it writes when something ran.
Tick ==
    /\ daemon = "idle"
    /\ LET ticked == Ticked(file)
       IN /\ ranKeys' = ticked.keys /\ started' = ticked.starts
          /\ IF ticked.starts = started
             THEN daemon' = "idle" /\ UNCHANGED toSave
             ELSE daemon' = "run" /\ toSave' = ticked.list

TimerTick == Tick /\ UNCHANGED <<now, file, reload>> /\ UNCHANGED windowVars

\* The call returns when the tick is over.
ReloadTick ==
    /\ reload /\ Tick /\ reload' = FALSE
    /\ UNCHANGED <<now, file>> /\ UNCHANGED windowVars

DaemonSaves ==
    /\ \/ daemon = "run" /\ daemon' = "truncated" /\ file' = <<>>
          /\ UNCHANGED toSave
       \/ daemon = "truncated" /\ daemon' = "idle" /\ file' = toSave /\ toSave' = <<>>
    /\ UNCHANGED <<now, ranKeys, started, reload>> /\ UNCHANGED windowVars

\* The session starts the daemon; it may end at any step.
DaemonStarts ==
    /\ daemon = "off" /\ daemon' = "idle" /\ ranKeys' = {} /\ toSave' = <<>>
    /\ started' = [i \in Ids |-> 0]
    /\ UNCHANGED <<now, file, reload>> /\ UNCHANGED windowVars

DaemonEnds ==
    /\ daemon # "off" /\ daemon' = "off" /\ toSave' = <<>> /\ ranKeys' = {} /\ reload' = FALSE
    /\ started' = [i \in Ids |-> 0]
    /\ UNCHANGED <<now, file>> /\ UNCHANGED windowVars

MinutePasses ==
    /\ now < MaxMinute /\ now' = now + 1 /\ started' = [i \in Ids |-> 0]
    /\ UNCHANGED <<file, daemon, ranKeys, toSave, reload>> /\ UNCHANGED windowVars

(* The window.                                                             *)

WindowFrame == UNCHANGED now /\ UNCHANGED daemonVars

OpenWindow ==
    /\ window = "closed" /\ window' = "idle" /\ rows' = file
    /\ UNCHANGED <<file, reload, edits>> /\ WindowFrame

CloseWindow ==
    /\ window = "idle" /\ window' = "closed" /\ rows' = <<>>
    /\ UNCHANGED <<file, reload, edits>> /\ WindowFrame

\* saveToDisk first reads the file for what the daemon wrote of the runs.
Merged(list) ==
    [k \in DOMAIN list |->
       IF \E t \in ToSet(file) : t.id = list[k].id
       THEN [list[k] EXCEPT !.lastRun =
               (CHOOSE t \in ToSet(file) : t.id = list[k].id).lastRun]
       ELSE list[k]]

SaveToDisk(list) ==
    /\ window = "idle" /\ window' = "merged" /\ rows' = Merged(list)
    /\ edits < MaxEdits /\ edits' = edits + 1
    /\ UNCHANGED <<file, reload>> /\ WindowFrame

NewTask(template, c) ==
    /\ Len(rows) < MaxTasks
    /\ LET id == Max({0} \union {rows[k].id : k \in DOMAIN rows}) + 1
       IN id \in Ids /\ SaveToDisk(Append(rows, [id |-> id, enabled |-> TRUE,
                                                 when |-> Chosen(template, c), lastRun |-> None]))

\* The dialog of an edited task, accepted with another template or as it is.
EditTask(k, template) ==
    LET when == rows[k].when
    IN SaveToDisk([rows EXCEPT ![k].when = Chosen(template, ShownControls(when))])

DeleteTask(k) == SaveToDisk(RemoveAt(rows, k))
ToggleTask(k) == SaveToDisk([rows EXCEPT ![k].enabled = ~@])

\* The window starts the command itself; the time it notes is merged away.
RunNow(k) == SaveToDisk([rows EXCEPT ![k].lastRun = now])

WindowSaves ==
    /\ \/ window = "merged" /\ window' = "truncated" /\ file' = <<>> /\ UNCHANGED <<rows, reload>>
       \/ window = "truncated" /\ file' = rows /\ UNCHANGED rows
          /\ window' = "calling" /\ reload' = (daemon # "off")
       \/ window = "calling" /\ ~reload /\ daemon \in {"off", "idle"}
          /\ window' = "idle" /\ rows' = file /\ UNCHANGED <<file, reload>>
    /\ UNCHANGED edits /\ WindowFrame

UserStep ==
    \/ OpenWindow \/ CloseWindow
    \/ \E template \in Templates, c \in Controls : NewTask(template, c)
    \/ \E k \in DOMAIN rows :
          DeleteTask(k) \/ ToggleTask(k) \/ RunNow(k) \/ \E tpl \in Templates : EditTask(k, tpl)

Next ==
    \/ TimerTick \/ ReloadTick \/ DaemonSaves \/ DaemonStarts \/ DaemonEnds
    \/ MinutePasses \/ UserStep \/ WindowSaves

Spec == Init /\ [][Next]_taskVars

-----------------------------------------------------------------------------
(* However the timer, reload calls, edits and lost writes fall, a daemon   *)
(* starts a task at most once in a minute, though it keeps only so many    *)
(* keys of past runs.                                                      *)
Promise == INSTANCE TaskPromise WITH minute <- now
OncePerMinute == Promise!Spec

\* A task the dialog made keeps its schedule when its dialog is opened and
\* accepted unchanged, whichever template it is then shown under.
EditKeepsSchedule ==
    \A k \in DOMAIN rows :
        LET when == rows[k].when
        IN Chosen(InferTemplate(when), ShownControls(when)) = when
=============================================================================
