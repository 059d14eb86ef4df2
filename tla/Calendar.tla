------------------------------ MODULE Calendar ------------------------------
(***************************************************************************)
(* The calendar: its event store (class EventStore), the month and the     *)
(* event list the window shows (class CalendarWindow) and the reminders    *)
(* its minute timer gives.                                                 *)
(*                                                                         *)
(* Days are numbered from the first day of a short calendar of months, an  *)
(* event is its id, day and time: titles and details are left out, an      *)
(* empty title is an edit that is refused.                                 *)
(***************************************************************************)
EXTENDS Integers, Sequences, FiniteSets, FiniteSetsExt

CONSTANTS
    Starts,      \* first days of the months, in order, and of the one after them
    Week,        \* days in a row of the grid
    Cells,       \* cells of the grid: at least a month and a week
    Minutes,     \* minutes of a day
    MaxEventId,  \* kMaxEventId
    MaxEvents    \* bound on the events

AllDay == 0                          \* the time of an event without one
Times  == {AllDay} \union (1 .. Minutes)
Months == 1 .. (Len(Starts) - 1)
First(m)  == Starts[m]
DaysOf(m) == First(m) .. (First(m + 1) - 1)
MonthOf(d) == CHOOSE m \in Months : d \in DaysOf(m)
Dates == UNION {DaysOf(m) : m \in Months}

VARIABLES
    today, minute,    \* the wall clock
    store,            \* the events of calendar.ini, in file order
    month, selected,  \* current_ and selected_
    cells, marks,     \* the days of the grid, those marked with a dot
    list, row,        \* ids in the event list, its selected row (0 if none)
    allDayNotified,   \* allDayNotifiedDate_, or 0
    notifiedIds       \* notifiedIds_: date, time and id

clockVars  == <<today, minute>>
remindVars == <<allDayNotified, notifiedIds>>
calVars == <<clockVars, store, month, selected, cells, marks, list, row, remindVars>>

-----------------------------------------------------------------------------
(* EventStore and the grid.                                                *)

\* The events at the places on, in the order Before.
Picked(events, on, Before(_, _)) ==
    [k \in 1..Cardinality(on) |->
        events[CHOOSE i \in on : Cardinality({j \in on : Before(j, i)}) = k - 1]]

\* The events of a day, those without a time first (eventsForDate sorts by
\* time; of equal times the first in the file comes first).
EventsForDate(events, d) ==
    LET on == {i \in DOMAIN events : events[i].date = d}
        Before(i, j) == \/ events[i].time < events[j].time
                        \/ events[i].time = events[j].time /\ i < j
    IN Picked(events, on, Before)

MonthDates(events, m) == {events[i].date : i \in DOMAIN events} \intersect DaysOf(m)

\* monthCells: the grid starts on the first day of the week of the month's
\* first day and may show days of both neighbours.
MonthCells(m) == LET start == First(m) - (First(m) % Week)
                 IN start .. (start + Cells - 1)

\* dueEvents: the events of this very minute nobody was reminded of.
DueEvents(d, t) == {i \in DOMAIN store :
    /\ store[i].date = d /\ store[i].time = t
    /\ <<store[i].date, store[i].time, store[i].id>> \notin notifiedIds}

NextId == Max({0} \union {store[i].id : i \in DOMAIN store}) + 1

-----------------------------------------------------------------------------
(* CalendarWindow.                                                         *)

\* refreshEvents: the list is filled again and has no selected row.
RefreshEvents(events, d) ==
    /\ list' = [k \in DOMAIN EventsForDate(events, d) |-> EventsForDate(events, d)[k].id]
    /\ row' = 0

\* rebuildGrid of month m, then refreshEvents of day d.
RebuildGrid(events, m, d) ==
    /\ month' = m /\ selected' = d
    /\ cells' = MonthCells(m) /\ marks' = MonthDates(events, m)
    /\ RefreshEvents(events, d)

Init ==
    /\ today \in Dates /\ minute = 1
    /\ store = <<>>
    /\ month = MonthOf(today) /\ selected = today
    /\ cells = MonthCells(month) /\ marks = {}
    /\ list = <<>> /\ row = 0
    /\ allDayNotified = today /\ notifiedIds = {}

\* The timer, a minute apart or more: a minute may pass without it, or see two.
CheckReminders ==
    /\ allDayNotified' = today
    /\ notifiedIds' = notifiedIds \union
          {<<store[i].date, store[i].time, store[i].id>> : i \in DueEvents(today, minute)}
    /\ UNCHANGED <<clockVars, store, month, selected, cells, marks, list, row>>

MinutePasses ==
    /\ IF minute < Minutes THEN minute' = minute + 1 /\ today' = today
       ELSE /\ today + 1 \in Dates
            /\ today' = today + 1 /\ minute' = 1
    /\ UNCHANGED <<store, month, selected, cells, marks, list, row, remindVars>>

\* Mutant: the day of the month is kept, whatever the month's length.
SameDayUnclamped(m) == First(m) + (selected - First(month))

\* The selected day's number in month m, or its last day.
SameDay(m) == First(m) + Min({selected - First(month), First(m + 1) - 1 - First(m)})

Turn(m) ==
    /\ m \in Months
    /\ RebuildGrid(store, m, SameDay(m))
    /\ UNCHANGED <<clockVars, store, remindVars>>

OnPrevMonth == Turn(month - 1)
OnNextMonth == Turn(month + 1)

OnToday ==
    /\ RebuildGrid(store, MonthOf(today), today)
    /\ UNCHANGED <<clockVars, store, remindVars>>

\* A day of another month turns the page to it.
OnCellClicked(d) ==
    /\ d \in cells
    /\ IF d \in DaysOf(month)
       THEN /\ selected' = d
            /\ RefreshEvents(store, d)
            /\ UNCHANGED <<month, cells, marks>>
       ELSE RebuildGrid(store, MonthOf(d), d)
    /\ UNCHANGED <<clockVars, store, remindVars>>

SelectRow ==
    /\ row' \in DOMAIN list
    /\ UNCHANGED <<clockVars, store, month, selected, cells, marks, list, remindVars>>

\* The store was written and the window is rebuilt around the selected day.
Written(events) ==
    /\ store' = events
    /\ RebuildGrid(events, month, selected)
    /\ UNCHANGED <<clockVars, remindVars>>

OnAdd(t) ==
    /\ Len(store) < MaxEvents /\ NextId <= MaxEventId
    /\ Written(Append(store, [id |-> NextId, date |-> selected, time |-> t]))

\* The dialog changes time and texts, never the date.
OnEdit(t) ==
    /\ row # 0
    /\ Written([i \in DOMAIN store |->
                   IF store[i].id = list[row] THEN [store[i] EXCEPT !.time = t] ELSE store[i]])

OnDelete ==
    /\ row # 0
    /\ Written(Picked(store, {i \in DOMAIN store : store[i].id # list[row]}, <))

Next ==
    \/ CheckReminders \/ MinutePasses
    \/ OnPrevMonth \/ OnNextMonth \/ OnToday \/ SelectRow \/ OnDelete
    \/ \E d \in Dates : OnCellClicked(d)
    \/ \E t \in Times : OnAdd(t) \/ OnEdit(t)

Spec == Init /\ [][Next]_calVars

-----------------------------------------------------------------------------

\* The window never shows a stale page: whatever was clicked, added, edited or
\* deleted, the selected day is a day of the month on the page and one of its
\* cells, every event of the month is marked with a dot and nothing else is,
\* and the list holds the selected day's events, all-day ones first.
CalendarIsCurrent ==
    /\ selected \in DaysOf(month) \intersect cells
    /\ marks = {d \in DaysOf(month) : EventsForDate(store, d) # <<>>}
    /\ list = [k \in DOMAIN EventsForDate(store, selected) |-> EventsForDate(store, selected)[k].id]
    /\ DaysOf(month) \subseteq cells
=============================================================================
