--------------------------- MODULE SettingsProofs ---------------------------
(***************************************************************************)
(* Proofs about what the user sets: scheduled tasks, the pages of the      *)
(* settings and of the control panel, and the calendar, for every value of *)
(* their constants that the assumptions of Programs allow.                 *)
(***************************************************************************)
EXTENDS Programs, ListTheorems, TLAPS, SequenceTheorems, FiniteSetTheorems

-----------------------------------------------------------------------------
(* Tasks: every value of the controls of the dialog, and every number of    *)
(* tasks and of remembered keys.                                           *)

\* Steps of the composition are steps of the daemon and of the window.
LEMMA TasksAlone ==
    ASSUME [Next]_vars
    PROVE  [Task!Next]_tasksVars
BY Zenon DEF Next, vars, TasksStep, FilesStep, SearchStep, CalendarStep, TerminalStep,
       DocumentsStep, ExplorerStep, ClockStep, AppsStep, SystemStep, NetworkStep, RemoteStep,
       ShotStep, ViewerStep, StoreStep, KeyboardStep, CalcStep, Alone

-----------------------------------------------------------------------------
(* What a task may be.                                                     *)

Field == Nat \union {-1}

\* A task at some hour is at some minute, one on some days at some hour; a month is only
\* in a schedule of one's own, which has no day 0 either.
Schedules ==
    {when \in [minute : Field, hour : Field, day : Field, month : Field, week : Field] :
       /\ when.hour >= 0 => when.minute >= 0
       /\ when.day >= 0 \/ when.week >= 0 \/ when.month >= 0 => when.hour >= 0
       /\ when.month # 0
       /\ when.day = 0 => when.month = -1 /\ when.week = -1}

Listed == [id : Task!Ids, enabled : BOOLEAN, when : Schedules, lastRun : Field]

\* Controls as they are offered, or as the dialog of a task shows them.
Shown == [minute : Nat, hour : Nat, time : Nat \X Nat, day : Nat, month : Nat, week : Field]


\* What the dialog offers are controls.
LEMMA OfferedIsShown == Task!Controls \subseteq Shown
<1>1. SUFFICES ASSUME NEW c \in Task!Controls PROVE c \in Shown
  OBVIOUS
<1>2. /\ c = [minute |-> c.minute, hour |-> c.hour, time |-> c.time, day |-> c.day,
              month |-> c.month, week |-> c.week]
      /\ c.minute \in MinuteValues /\ c.hour \in HourValues
      /\ c.time \in MinuteValues \X HourValues /\ c.day \in DayValues
      /\ c.month \in MonthValues /\ c.week \in WeekDays
  BY DEF Task!Controls
<1>3. /\ c.minute \in Nat /\ c.hour \in Nat /\ c.time \in Nat \X Nat /\ c.day \in Nat
      /\ c.month \in Nat /\ c.week \in Field
  BY <1>2, TasksAssumption DEF TasksAssumption, Field
<1>4. QED
  BY <1>2, <1>3 DEF Shown

\* A task's dialog shows controls.
LEMMA ShownIsShown ==
    ASSUME NEW when \in Schedules
    PROVE  Task!ShownControls(when) \in Shown
BY DEF Task!ShownControls, Task!OrZero, Schedules, Shown, Field

At(minu, hour, day, mont, week) ==
    [minute |-> minu, hour |-> hour, day |-> day, month |-> mont, week |-> week]

\* What each template makes of the controls.
LEMMA TemplateMakes ==
    ASSUME NEW c
    PROVE  /\ Task!Chosen("EveryMinute", c) = At(-1, -1, -1, -1, -1)
           /\ Task!Chosen("Hourly", c) = At(c.minute, -1, -1, -1, -1)
           /\ Task!Chosen("Daily", c) = At(c.time[1], c.time[2], -1, -1, -1)
           /\ Task!Chosen("Weekly", c) = At(c.time[1], c.time[2], -1, -1, c.week)
           /\ Task!Chosen("Monthly", c) = At(c.time[1], c.time[2], c.day, -1, -1)
           /\ Task!Chosen("Custom", c) = At(c.minute, c.hour, Task!OrIgnored(c.day),
                                            Task!OrIgnored(c.month), c.week)
<1> DEFINE w == Task!Whenever
           daily == [w EXCEPT !.minute = c.time[1], !.hour = c.time[2]]
           hourly == [w EXCEPT !.minute = c.minute]
           weekly == [daily EXCEPT !.week = c.week]
           monthly == [daily EXCEPT !.day = c.day]
           custom == [minute |-> c.minute, hour |-> c.hour, day |-> Task!OrIgnored(c.day),
                      month |-> Task!OrIgnored(c.month), week |-> c.week]
<1>1. w = At(-1, -1, -1, -1, -1)
  <2>1. Task!None = -1
    BY DEF Task!None
  <2>2. QED
    BY <2>1, Zenon DEF Task!Whenever, At
<1>2. /\ Task!Chosen("EveryMinute", c) = w
      /\ Task!Chosen("Hourly", c) = hourly
      /\ Task!Chosen("Daily", c) = daily
      /\ Task!Chosen("Weekly", c) = weekly
      /\ Task!Chosen("Monthly", c) = monthly
      /\ Task!Chosen("Custom", c) = custom
  BY DEF Task!Chosen
<1> HIDE DEF w
<1>3. daily = At(c.time[1], c.time[2], -1, -1, -1) /\ hourly = At(c.minute, -1, -1, -1, -1)
  <2>1. \A x : [w EXCEPT !.minute = x] = At(x, -1, -1, -1, -1)
    BY <1>1 DEF At
  <2>2. \A x, y : [At(x, -1, -1, -1, -1) EXCEPT !.hour = y] = At(x, y, -1, -1, -1)
    BY DEF At
  <2>3. daily = [[w EXCEPT !.minute = c.time[1]] EXCEPT !.hour = c.time[2]]
    BY Zenon
  <2>4. QED
    BY <2>1, <2>2, <2>3, Zenon
<1> HIDE DEF daily
<1>4. /\ weekly = At(c.time[1], c.time[2], -1, -1, c.week)
      /\ monthly = At(c.time[1], c.time[2], c.day, -1, -1)
  BY <1>3 DEF At
<1>5. custom = At(c.minute, c.hour, Task!OrIgnored(c.day), Task!OrIgnored(c.month), c.week)
  BY DEF At
<1>6. QED
  BY <1>1, <1>2, <1>3, <1>4, <1>5

\* What is chosen from controls is a schedule.
LEMMA ChosenIsSchedule ==
    ASSUME NEW template \in Task!Templates, NEW c \in Shown
    PROVE  Task!Chosen(template, c) \in Schedules
<1> DEFINE m == c.minute
           h == c.hour
           tm == c.time[1]
           th == c.time[2]
           d == c.day
           mo == c.month
           wk == c.week
           r == Task!Chosen(template, c)
<1>1. /\ m \in Nat /\ h \in Nat /\ tm \in Nat /\ th \in Nat /\ d \in Nat /\ mo \in Nat
      /\ wk \in Field
  BY DEF Shown
<1>2. template \in {"EveryMinute", "Hourly", "Daily", "Weekly", "Monthly", "Custom"}
  BY DEF Task!Templates
<1>3. /\ Task!OrIgnored(d) = IF d = 0 THEN -1 ELSE d
      /\ Task!OrIgnored(mo) = IF mo = 0 THEN -1 ELSE mo
  BY DEF Task!OrIgnored, Task!None
<1>4. \/ r = At(-1, -1, -1, -1, -1) \/ r = At(m, -1, -1, -1, -1)
      \/ r = At(tm, th, -1, -1, -1) \/ r = At(tm, th, -1, -1, wk)
      \/ r = At(tm, th, d, -1, -1)
      \/ r = At(m, h, Task!OrIgnored(d), Task!OrIgnored(mo), wk)
  BY <1>2, TemplateMakes, Zenon
<1> HIDE DEF m, h, tm, th, d, mo, wk, r
<1>5. \A a, b, x, y, z \in Field :
        /\ b >= 0 => a >= 0
        /\ x >= 0 \/ z >= 0 \/ y >= 0 => b >= 0
        /\ y # 0
        /\ x = 0 => y = -1 /\ z = -1
        => At(a, b, x, y, z) \in Schedules
  BY DEF Schedules, At
<1> DEFINE dd == Task!OrIgnored(d)
           mm == Task!OrIgnored(mo)
<1>6. dd \in Field \ {0} /\ mm \in Field \ {0} /\ -1 \in Field
  BY <1>1, <1>3 DEF Field
<1> HIDE DEF dd, mm
<1>7. /\ At(-1, -1, -1, -1, -1) \in Schedules /\ At(m, -1, -1, -1, -1) \in Schedules
      /\ At(tm, th, -1, -1, -1) \in Schedules /\ At(tm, th, -1, -1, wk) \in Schedules
      /\ At(tm, th, d, -1, -1) \in Schedules
  BY <1>1, <1>5, <1>6 DEF Field
<1>8. At(m, h, dd, mm, wk) \in Schedules
  BY <1>1, <1>5, <1>6 DEF Field
<1>9. QED
  BY <1>4, <1>7, <1>8, Zenon DEF r, dd, mm

\* What the dialog of a schedule shows is that schedule.
LEMMA DialogKeeps ==
    ASSUME NEW when \in Schedules
    PROVE  Task!Chosen(Task!InferTemplate(when), Task!ShownControls(when)) = when
<1> DEFINE m == when.minute
           h == when.hour
           d == when.day
           mo == when.month
           wk == when.week
           t == Task!InferTemplate(when)
           c == Task!ShownControls(when)
           r == Task!Chosen(t, c)
           Z(v) == IF v < 0 THEN 0 ELSE v
<1>1. /\ when = At(m, h, d, mo, wk)
      /\ m \in Field /\ h \in Field /\ d \in Field /\ mo \in Field /\ wk \in Field
      /\ h >= 0 => m >= 0
      /\ d >= 0 \/ wk >= 0 \/ mo >= 0 => h >= 0
      /\ mo # 0
      /\ d = 0 => mo = -1 /\ wk = -1
  BY DEF Schedules, At
<1>2. /\ c.minute = Z(m) /\ c.hour = Z(h) /\ c.time[1] = Z(m) /\ c.time[2] = Z(h)
      /\ c.day = Z(d) /\ c.month = Z(mo) /\ c.week = wk
  BY DEF Task!ShownControls, Task!OrZero
<1>3. t = IF mo >= 0 \/ (d >= 0 /\ wk >= 0) THEN "Custom"
          ELSE IF wk >= 0 THEN "Weekly"
          ELSE IF d >= 0 THEN "Monthly"
          ELSE IF h >= 0 THEN "Daily"
          ELSE IF m >= 0 THEN "Hourly" ELSE "EveryMinute"
  BY DEF Task!InferTemplate
<1> HIDE DEF m, h, d, mo, wk, t, c
<1>4. /\ t = "EveryMinute" => r = At(-1, -1, -1, -1, -1)
      /\ t = "Hourly" => r = At(Z(m), -1, -1, -1, -1)
      /\ t = "Daily" => r = At(Z(m), Z(h), -1, -1, -1)
      /\ t = "Weekly" => r = At(Z(m), Z(h), -1, -1, wk)
      /\ t = "Monthly" => r = At(Z(m), Z(h), Z(d), -1, -1)
      /\ t = "Custom" => r = At(Z(m), Z(h), Task!OrIgnored(Z(d)), Task!OrIgnored(Z(mo)), wk)
  BY <1>2, TemplateMakes, Zenon
<1>5. \A v \in Field : /\ v >= 0 => Z(v) = v
                       /\ v # 0 => Task!OrIgnored(Z(v)) = v
                       /\ ~(v >= 0) => v = -1
  BY DEF Field, Task!OrIgnored, Task!None
<1> HIDE DEF r, Z
<1>6. CASE mo >= 0 \/ (d >= 0 /\ wk >= 0)
  <2>1. d # 0 /\ h >= 0 /\ m >= 0
    BY <1>1, <1>6 DEF Field
  <2>2. r = At(Z(m), Z(h), Task!OrIgnored(Z(d)), Task!OrIgnored(Z(mo)), wk)
    BY <1>3, <1>4, <1>6
  <2>3. Z(m) = m /\ Z(h) = h /\ Task!OrIgnored(Z(d)) = d /\ Task!OrIgnored(Z(mo)) = mo
    BY <1>1, <1>5, <2>1
  <2>4. QED
    BY <1>1, <2>2, <2>3, Zenon DEF r, t, c
<1>7. CASE ~(mo >= 0 \/ (d >= 0 /\ wk >= 0)) /\ wk >= 0
  <2>1. h >= 0 /\ m >= 0 /\ ~(d >= 0) /\ ~(mo >= 0)
    BY <1>1, <1>7
  <2>2. r = At(Z(m), Z(h), -1, -1, wk)
    BY <1>3, <1>4, <1>7
  <2>3. Z(m) = m /\ Z(h) = h /\ d = -1 /\ mo = -1
    BY <1>1, <1>5, <2>1
  <2>4. QED
    BY <1>1, <2>2, <2>3, Zenon DEF r, t, c
<1>8. CASE ~(mo >= 0) /\ ~(wk >= 0) /\ d >= 0
  <2>1. h >= 0 /\ m >= 0
    BY <1>1, <1>8
  <2>2. r = At(Z(m), Z(h), Z(d), -1, -1)
    BY <1>3, <1>4, <1>8
  <2>3. Z(m) = m /\ Z(h) = h /\ Z(d) = d /\ mo = -1 /\ wk = -1
    BY <1>1, <1>5, <1>8, <2>1
  <2>4. QED
    BY <1>1, <2>2, <2>3, Zenon DEF r, t, c
<1>9. CASE ~(mo >= 0) /\ ~(wk >= 0) /\ ~(d >= 0)
  <2>1. mo = -1 /\ wk = -1 /\ d = -1
    BY <1>1, <1>5, <1>9
  <2>2. CASE h >= 0
    <3>1. r = At(Z(m), Z(h), -1, -1, -1)
      BY <1>3, <1>4, <1>9, <2>2
    <3>2. Z(m) = m /\ Z(h) = h
      BY <1>1, <1>5, <2>2
    <3>3. QED
      BY <1>1, <2>1, <3>1, <3>2, Zenon DEF r, t, c
  <2>3. CASE ~(h >= 0) /\ m >= 0
    <3>1. r = At(Z(m), -1, -1, -1, -1)
      BY <1>3, <1>4, <1>9, <2>3
    <3>2. Z(m) = m /\ h = -1
      BY <1>1, <1>5, <2>3
    <3>3. QED
      BY <1>1, <2>1, <3>1, <3>2, Zenon DEF r, t, c
  <2>4. CASE ~(h >= 0) /\ ~(m >= 0)
    <3>1. r = At(-1, -1, -1, -1, -1)
      BY <1>3, <1>4, <1>9, <2>4
    <3>2. m = -1 /\ h = -1
      BY <1>1, <1>5, <2>4
    <3>3. QED
      BY <1>1, <2>1, <3>1, <3>2, Zenon DEF r, t, c
  <2>5. QED
    BY <2>2, <2>3, <2>4
<1>10. QED
  BY <1>6, <1>7, <1>8, <1>9

\* Counting is the same in the module of the tasks.
LEMMA CountsAlike ==
    ASSUME NEW S
    PROVE  Task!Cardinality(S) = Cardinality(S)
BY Zenon DEF Task!Cardinality, Cardinality, Task!IsFiniteSet, IsFiniteSet

-----------------------------------------------------------------------------
(* The daemon's pass over the list.                                        *)

\* Keys of no later minute than this one.
KeySets(t) == SUBSET ((0..t) \X Task!Ids)

\* Among some keys there is an oldest.
LEMMA OldestExists ==
    ASSUME NEW t \in Nat, NEW ks \in KeySets(t), ks # {}
    PROVE  \E k \in ks : \A l \in ks \ {k} : Task!Older(k, l)
<1> DEFINE minutes == {k[1] : k \in ks}
<1>1. \A k \in ks : k[1] \in 0..t /\ k[2] \in 1..MaxTasks /\ k = <<k[1], k[2]>>
  BY DEF KeySets, Task!Ids
<1>2. minutes \subseteq Nat /\ minutes # {}
  BY <1>1
<1> HIDE DEF minutes
<1>3. PICK x \in minutes : \A y \in minutes : x <= y
  BY <1>2, SmallestExists
<1> DEFINE ids == {k[2] : k \in {l \in ks : l[1] = x}}
<1>4. ids \subseteq Nat /\ ids # {}
  BY <1>1, <1>3 DEF minutes
<1> HIDE DEF ids
<1>5. PICK i \in ids : \A j \in ids : i <= j
  BY <1>4, SmallestExists
<1>6. PICK k \in ks : k[1] = x /\ k[2] = i
  BY <1>5 DEF ids
<1>7. ASSUME NEW l \in ks \ {k} PROVE Task!Older(k, l)
  <2>1. x <= l[1] /\ (l[1] = x => i <= l[2])
    BY <1>3, <1>5 DEF minutes, ids
  <2>2. l[1] # x \/ l[2] # i
    BY <1>1, <1>6, <1>7, Zenon
  <2>3. x \in Nat /\ i \in Nat /\ l[1] \in Nat /\ l[2] \in Nat
    BY <1>1, <1>2, <1>3, <1>4, <1>5
  <2>4. QED
    BY <1>6, <2>1, <2>2, <2>3 DEF Task!Older
<1>8. QED
  BY <1>7, Zenon

\* The keys of one minute are few enough to be kept.
LEMMA MinuteFits ==
    ASSUME NEW t \in Nat, NEW ks, ks \subseteq {t} \X Task!Ids
    PROVE  Cardinality(ks) <= MaxRanKeys
<1>1. MaxTasks \in Nat /\ MaxRanKeys \in Nat /\ MaxTasks <= MaxRanKeys
  BY TasksAssumption DEF TasksAssumption
<1>2. IsFiniteSet(Task!Ids) /\ Cardinality(Task!Ids) = MaxTasks
  BY <1>1, FS_Interval DEF Task!Ids
<1>3. IsFiniteSet({t}) /\ Cardinality({t}) = 1
  BY FS_Singleton, Zenon
<1>4. /\ IsFiniteSet({t} \X Task!Ids)
      /\ Cardinality({t} \X Task!Ids) = Cardinality({t}) * Cardinality(Task!Ids)
  BY <1>2, <1>3, FS_Product, Zenon
<1>5. ks \in SUBSET ({t} \X Task!Ids)
  OBVIOUS
<1>6. IsFiniteSet(ks) /\ Cardinality(ks) <= Cardinality({t} \X Task!Ids)
  BY <1>4, <1>5, FS_Subset, Zenon
<1>7. Cardinality({t} \X Task!Ids) = MaxTasks
  BY <1>1, <1>2, <1>3, <1>4
<1>8. Cardinality(ks) \in Nat
  BY <1>6, FS_CardinalityType
<1>9. QED
  BY <1>1, <1>6, <1>7, <1>8

\* The key that is forgotten is never one of this minute.
LEMMA KeptKeeps ==
    ASSUME NEW t \in Nat, NEW ks \in KeySets(t)
    PROVE  /\ Task!Kept(ks) \in KeySets(t)
           /\ \A i \in Task!Ids : <<t, i>> \in ks => <<t, i>> \in Task!Kept(ks)
<1>1. CASE Cardinality(ks) <= MaxRanKeys
  BY <1>1, CountsAlike DEF Task!Kept
<1>2. CASE ~(Cardinality(ks) <= MaxRanKeys)
  <2> DEFINE old == CHOOSE k \in ks : \A l \in ks \ {k} : Task!Older(k, l)
  <2>1. Task!Kept(ks) = ks \ {old}
    BY <1>2, CountsAlike DEF Task!Kept
  <2>2. ks # {}
    <3>1. {} \subseteq {t} \X Task!Ids
      OBVIOUS
    <3>2. QED
      BY <1>2, <3>1, MinuteFits
  <2>3. old \in ks /\ \A l \in ks \ {old} : Task!Older(old, l)
    BY <2>2, OldestExists, Zenon
  <2> HIDE DEF old
  <2>4. old[1] # t
    <3>1. SUFFICES ASSUME old[1] = t PROVE FALSE
      OBVIOUS
    <3>2. \A l \in ks : l[1] \in 0..t /\ l[2] \in Task!Ids /\ l = <<l[1], l[2]>>
      BY DEF KeySets
    <3>3. \A l \in ks : l[1] = t
      BY <2>3, <3>1, <3>2 DEF Task!Older
    <3>4. ks \subseteq {t} \X Task!Ids
      BY <3>2, <3>3
    <3>5. QED
      BY <1>2, <3>4, MinuteFits
  <2>5. \A i : <<t, i>> # old
    BY <2>4
  <2>6. Task!Kept(ks) \in KeySets(t)
    BY <2>1 DEF KeySets
  <2>7. QED
    BY <2>1, <2>5, <2>6
<1>3. QED
  BY <1>1, <1>2

Pass == [keys : KeySets(taskNow), starts : [Task!Ids -> {0, 1}], list : Seq(Listed)]

\* What was started in this minute is known, and what was started before stays started.
Fair(a, before) ==
    /\ a \in Pass
    /\ \A i \in Task!Ids : a.starts[i] = 1 => <<taskNow, i>> \in a.keys
    /\ \A i \in Task!Ids : before[i] = 1 => a.starts[i] = 1

\* A task that is due is started unless it was in this minute.
LEMMA VisitedFair ==
    ASSUME taskNow \in Nat, NEW before, NEW a, Fair(a, before), NEW t \in Listed
    PROVE  Fair(Task!Visited(a, t), before)
<1> DEFINE key == <<taskNow, t.id>>
           due == t.enabled /\ Task!Due(t.when, Task!At(taskNow)) /\ key \notin a.keys
           ran == [t EXCEPT !.lastRun = taskNow]
           kept == Task!Kept(a.keys \union {key})
           starts == [a.starts EXCEPT ![t.id] = @ + 1]
           r == Task!Visited(a, t)
<1>1. /\ a = [keys |-> a.keys, starts |-> a.starts, list |-> a.list]
      /\ a.keys \in KeySets(taskNow) /\ a.starts \in [Task!Ids -> {0, 1}]
      /\ a.list \in Seq(Listed)
  BY DEF Fair, Pass
<1>2. t.id \in Task!Ids /\ ran \in Listed
  BY DEF Listed, Field
<1>3. CASE due
  <2>1. r = [keys |-> kept, starts |-> starts, list |-> Append(a.list, ran)]
    BY <1>3, Zenon DEF Task!Visited
  <2>2. a.keys \union {key} \in KeySets(taskNow)
    BY <1>1, <1>2 DEF KeySets
  <2>3. /\ kept \in KeySets(taskNow)
        /\ \A i \in Task!Ids : <<taskNow, i>> \in a.keys \union {key} => <<taskNow, i>> \in kept
    BY <2>2, KeptKeeps, Zenon
  <2>4. a.starts[t.id] # 1
    BY <1>2, <1>3 DEF Fair
  <2>5. a.starts[t.id] = 0
    BY <1>1, <1>2, <2>4
  <2>6. starts = [i \in Task!Ids |-> IF i = t.id THEN 1 ELSE a.starts[i]]
    BY <1>1, <1>2, <2>5
  <2>7. Append(a.list, ran) \in Seq(Listed)
    BY <1>1, <1>2, AppendProperties, Zenon
  <2> HIDE DEF kept, starts, ran, r
  <2>8. starts \in [Task!Ids -> {0, 1}]
    BY <1>1, <2>6
  <2>9. r \in Pass /\ r.keys = kept /\ r.starts = starts
    BY <2>1, <2>3, <2>7, <2>8 DEF Pass
  <2>10. \A i \in Task!Ids : starts[i] = 1 => <<taskNow, i>> \in kept
    BY <2>3, <2>6 DEF Fair
  <2>11. \A i \in Task!Ids : before[i] = 1 => starts[i] = 1
    BY <2>6 DEF Fair
  <2>12. QED
    BY <2>9, <2>10, <2>11, Zenon DEF Fair, r
<1>4. CASE ~due
  <2>1. r = [a EXCEPT !.list = Append(@, t)]
    BY <1>4, Zenon DEF Task!Visited
  <2>2. Append(a.list, t) \in Seq(Listed)
    BY <1>1, AppendProperties, Zenon
  <2> DEFINE more == Append(a.list, t)
  <2>3. r = [a EXCEPT !.list = more]
    BY <2>1
  <2> HIDE DEF more, r
  <2>4. r = [keys |-> a.keys, starts |-> a.starts, list |-> more]
    BY <1>1, <2>3
  <2>5. r \in Pass /\ r.keys = a.keys /\ r.starts = a.starts
    BY <1>1, <2>2, <2>4 DEF Pass, more
  <2>6. QED
    BY <2>5, Zenon DEF Fair, r
<1>5. QED
  BY <1>3, <1>4

\* The whole pass.
LEMMA TickedFair ==
    ASSUME taskNow \in Nat, NEW s \in Seq(Listed), started \in [Task!Ids -> {0, 1}],
           ranKeys \in KeySets(taskNow),
           \A i \in Task!Ids : started[i] = 1 => <<taskNow, i>> \in ranKeys
    PROVE  Fair(Task!Ticked(s), started)
<1> DEFINE m == Len(s)
           x == [keys |-> ranKeys, starts |-> started, list |-> <<>>]
           P == {a \in Pass : Fair(a, started)}
           F == [p \in P \X (1..m) |-> Task!Visited(p[1], s[p[2]])]
           Step(h) == [n \in 0..m |-> IF n = 0 THEN x ELSE Task!Visited(h[n - 1], s[n])]
           done == CHOOSE h : h = Step(h)
<1>1. m \in Nat /\ DOMAIN s = 1..m /\ \A n \in 1..m : s[n] \in Listed
  BY LenProperties, ElementOfSeq
<1>2. x \in P
  <2>1. x \in Pass /\ x.keys = ranKeys /\ x.starts = started
    BY DEF Pass
  <2> HIDE DEF x
  <2>2. QED
    BY <2>1, Zenon DEF Fair
<1> HIDE DEF x
<1>3. \A a \in P, n \in 1..m : Task!Visited(a, s[n]) \in P
  <2>1. SUFFICES ASSUME NEW a \in P, NEW n \in 1..m
        PROVE  Task!Visited(a, s[n]) \in P
    BY Zenon
  <2>2. Fair(a, started) /\ s[n] \in Listed
    BY <1>1
  <2>3. Fair(Task!Visited(a, s[n]), started)
    BY <2>2, VisitedFair, Zenon
  <2>4. QED
    BY <2>3, Zenon DEF Fair
<1> HIDE DEF P
<1>4. F \in [P \X (1..m) -> P]
  BY <1>3
<1>5. \A a \in P, n \in 1..m : F[<<a, n>>] = Task!Visited(a, s[n])
  OBVIOUS
<1> HIDE DEF F, m
<1>6. PICK g \in [0..m -> P] : g[0] = x /\ \A n \in 1..m : g[n] = F[<<g[n - 1], n>>]
  <2>1. \E g : Values(g, P, x, m, F)
    BY <1>1, <1>2, <1>4, Computed, Zenon
  <2>2. QED
    BY <2>1, Zenon DEF Values
<1>7. \A n \in 0..m : n = 0 \/ (n \in 1..m /\ n - 1 \in 0..m)
  BY <1>1
<1>8. g = Step(g)
  <2>1. \A n \in 0..m : g[n] = IF n = 0 THEN x ELSE Task!Visited(g[n - 1], s[n])
    BY <1>5, <1>6, <1>7
  <2>2. QED
    BY <2>1
<1>9. done = Step(done)
  BY <1>8, Zenon
<1>10. Task!Ticked(s) = done[m]
  BY Zenon DEF Task!Ticked, m, x
<1> HIDE DEF done
<1>11. done[0] \in P
  BY <1>1, <1>2, <1>9
<1>12. \A n \in 1..m : done[n - 1] \in P => done[n] \in P
  <2>1. \A n \in 1..m : n \in 0..m /\ n # 0
    BY <1>1
  <2>2. \A n \in 1..m : done[n] = Task!Visited(done[n - 1], s[n])
    BY <1>9, <2>1
  <2>3. QED
    BY <1>3, <2>2, Zenon
<1>13. \A n \in 0..m : done[n] \in P
  BY <1>1, <1>11, <1>12, Reached, Zenon
<1>14. done[m] \in P
  BY <1>1, <1>13
<1>15. QED
  BY <1>10, <1>14, Zenon DEF P

-----------------------------------------------------------------------------
(* The window's list.                                                      *)

\* A list may be given as a function.
LEMMA FunctionIsList ==
    ASSUME NEW n \in Nat, NEW f, f = [k \in 1..n |-> f[k]], \A k \in 1..n : f[k] \in Listed
    PROVE  f \in Seq(Listed)
<1>1. f \in [1..n -> Listed]
  OBVIOUS
<1>2. QED
  BY <1>1, SeqDef, Zenon

\* What the file says of the runs goes into the list.
LEMMA MergedIsList ==
    ASSUME tasks \in Seq(Listed), NEW s \in Seq(Listed)
    PROVE  Task!Merged(s) \in Seq(Listed)
<1> DEFINE Old(k) == CHOOSE t \in Task!ToSet(tasks) : t.id = s[k].id
           f == Task!Merged(s)
<1>1. Len(s) \in Nat /\ DOMAIN s = 1..Len(s) /\ \A k \in 1..Len(s) : s[k] \in Listed
  BY LenProperties, ElementOfSeq
<1>2. f = [k \in 1..Len(s) |->
             IF \E t \in Task!ToSet(tasks) : t.id = s[k].id
             THEN [s[k] EXCEPT !.lastRun = Old(k).lastRun] ELSE s[k]]
  BY <1>1 DEF Task!Merged
<1>3. Task!ToSet(tasks) \subseteq Listed
  <2>1. \A k \in DOMAIN tasks : tasks[k] \in Listed
    BY LenProperties, ElementOfSeq
  <2>2. QED
    BY <2>1 DEF Task!ToSet
<1> HIDE DEF f
<1>4. ASSUME NEW k \in 1..Len(s) PROVE f[k] \in Listed
  <2>1. CASE \E t \in Task!ToSet(tasks) : t.id = s[k].id
    <3>1. Old(k) \in Listed
      BY <1>3, <2>1
    <3> HIDE DEF Old
    <3>2. f[k] = [s[k] EXCEPT !.lastRun = Old(k).lastRun]
      BY <1>2, <2>1
    <3>3. QED
      BY <1>1, <3>1, <3>2 DEF Listed
  <2>2. CASE ~\E t \in Task!ToSet(tasks) : t.id = s[k].id
    <3>1. f[k] = s[k]
      BY <1>2, <2>2
    <3>2. QED
      BY <1>1, <3>1
  <2>3. QED
    BY <2>1, <2>2
<1>5. f = [k \in 1..Len(s) |-> f[k]]
  BY <1>2
<1>6. QED
  BY <1>1, <1>4, <1>5, FunctionIsList DEF f

\* One task is taken off the list.
LEMMA RemovedIsList ==
    ASSUME NEW s \in Seq(Listed), NEW k \in DOMAIN s
    PROVE  Task!RemoveAt(s, k) \in Seq(Listed)
<1> DEFINE n == Len(s)
<1>1. n \in Nat /\ k \in 1..n
  BY LenProperties
<1> HIDE DEF n
<1>2. k - 1 \in Nat /\ k + 1 \in Nat /\ 1 \in Nat /\ 1 <= k /\ 1 <= k + 1 /\ k - 1 <= n /\ k <= n
  BY <1>1
<1>3. SubSeq(s, 1, k - 1) \in Seq(Listed)
  <2>1. 1 <= 1 /\ 1 <= (k - 1) + 1
    BY <1>2
  <2>2. k - 1 <= Len(s)
    BY <1>2, Zenon DEF n
  <2>3. QED
    BY <1>2, <2>1, <2>2, PartOf, Zenon
<1>4. SubSeq(s, k + 1, n) \in Seq(Listed)
  <2>1. k + 1 <= n + 1 /\ n <= n
    BY <1>1, <1>2
  <2>2. n <= Len(s)
    BY <2>1, Zenon DEF n
  <2>3. QED
    BY <1>1, <1>2, <2>1, <2>2, PartOf, Zenon
<1>5. SubSeq(s, 1, k - 1) \o SubSeq(s, k + 1, n) \in Seq(Listed)
  BY <1>3, <1>4, ConcatProperties, Zenon
<1>6. QED
  BY <1>5, Zenon DEF Task!RemoveAt, n

\* One task of the list becomes another.
LEMMA ChangedIsList ==
    ASSUME NEW s \in Seq(Listed), NEW k \in DOMAIN s, NEW t \in Listed
    PROVE  [s EXCEPT ![k] = t] \in Seq(Listed)
<1> DEFINE f == [s EXCEPT ![k] = t]
<1>1. /\ Len(s) \in Nat /\ DOMAIN s = 1..Len(s) /\ s = [i \in 1..Len(s) |-> s[i]]
      /\ \A i \in 1..Len(s) : s[i] \in Listed
  BY LenProperties, ElementOfSeq, Zenon
<1>2. f = [i \in 1..Len(s) |-> f[i]] /\ \A i \in 1..Len(s) : f[i] \in Listed
  BY <1>1
<1> HIDE DEF f
<1>3. QED
  BY <1>1, <1>2, FunctionIsList, Zenon DEF f

-----------------------------------------------------------------------------
(* What holds at every step.                                               *)

Known == \A i \in Task!Ids : started[i] = 1 => <<taskNow, i>> \in ranKeys

TasksInv ==
    /\ taskNow \in Nat
    /\ tasks \in Seq(Listed) /\ toSave \in Seq(Listed) /\ taskRows \in Seq(Listed)
    /\ started \in [Task!Ids -> {0, 1}] /\ ranKeys \in KeySets(taskNow) /\ Known

\* At first there is no task.
LEMMA TasksStart ==
    ASSUME Init
    PROVE  TasksInv /\ Task!Promise!Init
<1>1. /\ taskNow = 0 /\ tasks = <<>> /\ toSave = <<>> /\ taskRows = <<>> /\ ranKeys = {}
      /\ started = [i \in Task!Ids |-> 0]
  BY DEF Init, Task!Init
<1>2. TasksInv
  BY <1>1 DEF TasksInv, Known, KeySets
<1>3. QED
  BY <1>1, <1>2 DEF Task!Promise!Init

\* A tick, whatever it finds.
LEMMA TickKeeps ==
    ASSUME TasksInv, Task!Tick, UNCHANGED <<taskNow, tasks, taskRows>>
    PROVE  TasksInv' /\ Task!Promise!Next
<1> DEFINE ticked == Task!Ticked(tasks)
<1>1. Fair(ticked, started)
  BY TickedFair DEF TasksInv, Known
<1>2. /\ ranKeys' = ticked.keys /\ started' = ticked.starts
      /\ toSave' = toSave \/ toSave' = ticked.list
  BY DEF Task!Tick
<1> HIDE DEF ticked
<1>3. /\ ranKeys' \in KeySets(taskNow) /\ started' \in [Task!Ids -> {0, 1}]
      /\ toSave' \in Seq(Listed)
      /\ \A i \in Task!Ids : started'[i] = 1 => <<taskNow, i>> \in ranKeys'
      /\ \A i \in Task!Ids : started[i] = 1 => started'[i] = 1
  BY <1>1, <1>2 DEF Fair, Pass, TasksInv
<1>4. TasksInv'
  BY <1>3 DEF TasksInv, Known, KeySets
<1> DEFINE some == {i \in Task!Ids : started[i] = 0 /\ started'[i] = 1}
<1>5. started' = [i \in Task!Ids |-> IF i \in some THEN 1 ELSE started[i]]
  BY <1>3 DEF TasksInv
<1>6. some \in SUBSET Task!Ids /\ \A i \in some : started[i] = 0
  OBVIOUS
<1> HIDE DEF some
<1>7. Task!Promise!Start(some)
  BY <1>5, <1>6, Zenon DEF Task!Promise!Start
<1>8. QED
  BY <1>4, <1>6, <1>7, Zenon DEF Task!Promise!Next

\* No tasks are a list as well.
LEMMA NoTasks == <<>> \in Seq(Listed)
OBVIOUS

\* What a window's step leaves alone.
WindowOnly == UNCHANGED <<taskNow, toSave, started, ranKeys>>

\* The window's lists are lists.
LEMMA WindowKeeps ==
    ASSUME TasksInv, WindowOnly, tasks' \in Seq(Listed), taskRows' \in Seq(Listed)
    PROVE  TasksInv' /\ UNCHANGED <<started, taskNow>>
BY DEF TasksInv, Known, KeySets, WindowOnly

\* Saving a list the user changed.
LEMMA SaveKeeps ==
    ASSUME TasksInv, NEW s \in Seq(Listed), Task!SaveToDisk(s)
    PROVE  TasksInv' /\ UNCHANGED <<started, taskNow>>
<1>1. taskRows' = Task!Merged(s) /\ tasks' = tasks /\ WindowOnly
  BY DEF Task!SaveToDisk, Task!WindowFrame, Task!daemonVars, WindowOnly
<1>2. taskRows' \in Seq(Listed)
  BY <1>1, MergedIsList DEF TasksInv
<1>3. QED
  BY <1>1, <1>2, WindowKeeps DEF TasksInv

\* What the user does in the window.
LEMMA UserKeeps ==
    ASSUME TasksInv, Task!UserStep
    PROVE  TasksInv' /\ UNCHANGED <<started, taskNow>>
<1>1. taskRows \in Seq(Listed) /\ tasks \in Seq(Listed)
  BY DEF TasksInv
<1>2. CASE Task!OpenWindow \/ Task!CloseWindow
  <2>1. WindowOnly /\ tasks' = tasks /\ (taskRows' = tasks \/ taskRows' = <<>>)
    BY <1>2, Zenon DEF Task!OpenWindow, Task!CloseWindow, Task!WindowFrame, Task!daemonVars, WindowOnly
  <2>2. taskRows' \in Seq(Listed)
    BY <1>1, <2>1, NoTasks, Zenon
  <2>3. QED
    BY <1>1, <2>1, <2>2, WindowKeeps
<1>3. ASSUME NEW template \in Task!Templates, NEW c \in Task!Controls, Task!NewTask(template, c)
      PROVE  TasksInv' /\ UNCHANGED <<started, taskNow>>
  <2> DEFINE id == Task!Max({0} \union {taskRows[k].id : k \in DOMAIN taskRows}) + 1
             t == [id |-> id, enabled |-> TRUE, when |-> Task!Chosen(template, c),
                   lastRun |-> Task!None]
  <2>1. id \in Task!Ids /\ Task!SaveToDisk(Append(taskRows, t))
    BY <1>3 DEF Task!NewTask
  <2> HIDE DEF id
  <2>2. Task!Chosen(template, c) \in Schedules
    BY ChosenIsSchedule, OfferedIsShown
  <2>3. t \in Listed
    BY <2>1, <2>2 DEF Listed, Field, Task!None
  <2> HIDE DEF t
  <2>4. Append(taskRows, t) \in Seq(Listed)
    BY <1>1, <2>3, AppendProperties, Zenon
  <2>5. QED
    BY <2>1, <2>4, SaveKeeps, Zenon
<1>4. ASSUME NEW k \in DOMAIN taskRows,
             \/ Task!DeleteTask(k) \/ Task!ToggleTask(k) \/ Task!RunNow(k)
             \/ \E template \in Task!Templates : Task!EditTask(k, template)
      PROVE  TasksInv' /\ UNCHANGED <<started, taskNow>>
  <2>1. taskRows[k] \in Listed /\ taskNow \in Field
    <3>1. taskRows[k] \in Listed
      BY <1>1, LenProperties, ElementOfSeq
    <3>2. QED
      BY <3>1 DEF TasksInv, Field
  <2>2. CASE Task!DeleteTask(k)
    <3>1. Task!RemoveAt(taskRows, k) \in Seq(Listed)
      BY <1>1, RemovedIsList
    <3>2. QED
      BY <2>2, <3>1, SaveKeeps, Zenon DEF Task!DeleteTask
  <2>3. CASE Task!ToggleTask(k)
    <3> DEFINE t == [taskRows[k] EXCEPT !.enabled = ~@]
               s == [taskRows EXCEPT ![k] = t]
    <3>1. t \in Listed
      BY <2>1 DEF Listed
    <3>2. [taskRows EXCEPT ![k].enabled = ~@] = s
      OBVIOUS
    <3> HIDE DEF t
    <3>3. s \in Seq(Listed)
      BY <1>1, <3>1, ChangedIsList
    <3>4. Task!SaveToDisk(s)
      BY <2>3, <3>2, Zenon DEF Task!ToggleTask
    <3>5. QED
      BY <3>3, <3>4, SaveKeeps, Zenon
  <2>4. CASE Task!RunNow(k)
    <3> DEFINE t == [taskRows[k] EXCEPT !.lastRun = taskNow]
               s == [taskRows EXCEPT ![k] = t]
    <3>1. t \in Listed
      BY <2>1 DEF Listed
    <3>2. [taskRows EXCEPT ![k].lastRun = taskNow] = s
      OBVIOUS
    <3> HIDE DEF t
    <3>3. s \in Seq(Listed)
      BY <1>1, <3>1, ChangedIsList
    <3>4. Task!SaveToDisk(s)
      BY <2>4, <3>2, Zenon DEF Task!RunNow
    <3>5. QED
      BY <3>3, <3>4, SaveKeeps, Zenon
  <2>5. ASSUME NEW template \in Task!Templates, Task!EditTask(k, template)
        PROVE  TasksInv' /\ UNCHANGED <<started, taskNow>>
    <3> DEFINE new == Task!Chosen(template, Task!ShownControls(taskRows[k].when))
               t == [taskRows[k] EXCEPT !.when = new]
               s == [taskRows EXCEPT ![k] = t]
    <3>1. taskRows[k].when \in Schedules
      BY <2>1 DEF Listed
    <3>2. new \in Schedules
      BY <3>1, ShownIsShown, ChosenIsSchedule
    <3>3. [taskRows EXCEPT ![k].when = new] = s
      BY Zenon
    <3>4. Task!SaveToDisk(s)
      BY <2>5, <3>3, Zenon DEF Task!EditTask
    <3> HIDE DEF new
    <3>5. t \in Listed
      BY <2>1, <3>2 DEF Listed
    <3> HIDE DEF t
    <3>6. s \in Seq(Listed)
      BY <1>1, <3>5, ChangedIsList
    <3>7. QED
      BY <3>4, <3>6, SaveKeeps, Zenon
  <2>6. QED
    BY <1>4, <2>2, <2>3, <2>4, <2>5, Zenon
<1>5. QED
  BY <1>2, <1>3, <1>4, Zenon DEF Task!UserStep

\* Each step keeps the lists and starts a task once.
LEMMA TasksStepKeeps ==
    ASSUME TasksInv, [Task!Next]_tasksVars
    PROVE  TasksInv' /\ [Task!Promise!Next]_<<started, taskNow>>
<1>1. CASE Task!TimerTick
  <2>1. Task!Tick /\ UNCHANGED <<taskNow, tasks, taskRows>>
    BY <1>1, Zenon DEF Task!TimerTick, Task!windowVars
  <2>2. QED
    BY <2>1, TickKeeps, Zenon
<1>2. CASE Task!ReloadTick
  <2>1. Task!Tick /\ UNCHANGED <<taskNow, tasks, taskRows>>
    BY <1>2, Zenon DEF Task!ReloadTick, Task!windowVars
  <2>2. QED
    BY <2>1, TickKeeps, Zenon
<1>3. CASE Task!DaemonSaves
  <2>1. /\ UNCHANGED <<taskNow, ranKeys, started, taskRows>>
        /\ (tasks' = <<>> /\ toSave' = toSave) \/ (tasks' = toSave /\ toSave' = <<>>)
    BY <1>3, Zenon DEF Task!DaemonSaves, Task!windowVars
  <2>2. tasks' \in Seq(Listed) /\ toSave' \in Seq(Listed)
    BY <2>1, NoTasks, Zenon DEF TasksInv
  <2>3. QED
    BY <2>1, <2>2 DEF TasksInv, Known, KeySets
<1>4. CASE Task!DaemonStarts \/ Task!DaemonEnds
  <2>1. /\ UNCHANGED <<taskNow, tasks, taskRows>> /\ ranKeys' = {} /\ toSave' = <<>>
        /\ started' = [i \in Task!Ids |-> 0]
    BY <1>4 DEF Task!DaemonStarts, Task!DaemonEnds, Task!windowVars
  <2>2. TasksInv'
    BY <2>1 DEF TasksInv, Known, KeySets
  <2>3. QED
    BY <2>1, <2>2 DEF Task!Promise!Next, Task!Promise!Anew
<1>5. CASE Task!MinutePasses
  <2>1. /\ UNCHANGED <<tasks, taskRows, toSave, ranKeys>> /\ taskNow' = taskNow + 1
        /\ started' = [i \in Task!Ids |-> 0]
    BY <1>5 DEF Task!MinutePasses, Task!windowVars
  <2>2. TasksInv'
    BY <2>1 DEF TasksInv, Known, KeySets
  <2>3. QED
    BY <2>1, <2>2 DEF Task!Promise!Next, Task!Promise!MinutePasses
<1>6. CASE Task!UserStep
  BY <1>6, UserKeeps
<1>7. CASE Task!WindowSaves
  <2>1. /\ WindowOnly
        /\ tasks' = <<>> \/ tasks' = tasks \/ tasks' = taskRows
        /\ taskRows' = taskRows \/ taskRows' = tasks
    BY <1>7, Zenon DEF Task!WindowSaves, Task!WindowFrame, Task!daemonVars, WindowOnly
  <2>2. tasks' \in Seq(Listed) /\ taskRows' \in Seq(Listed)
    BY <2>1, NoTasks, Zenon DEF TasksInv
  <2>3. QED
    BY <2>1, <2>2, WindowKeeps
<1>8. CASE UNCHANGED tasksVars
  BY <1>8 DEF tasksVars, TasksInv, Known, KeySets
<1>9. QED
  BY <1>1, <1>2, <1>3, <1>4, <1>5, <1>6, <1>7, <1>8, Zenon DEF Task!Next

\* A list of schedules opens unchanged in its dialogs.
LEMMA ScheduledKeeps ==
    ASSUME TasksInv
    PROVE  EditKeepsSchedule
<1>1. SUFFICES ASSUME NEW k \in DOMAIN taskRows
      PROVE  LET when == taskRows[k].when
             IN  Task!Chosen(Task!InferTemplate(when), Task!ShownControls(when)) = when
  BY Zenon DEF EditKeepsSchedule, Task!EditKeepsSchedule
<1>2. taskRows[k] \in Listed
  BY LenProperties, ElementOfSeq DEF TasksInv
<1>3. taskRows[k].when \in Schedules
  BY <1>2 DEF Listed
<1>4. QED
  BY <1>3, DialogKeeps, Zenon

\* However often a task is made, edited through its dialog under any template, switched,
\* run, merged with what the daemon wrote or read back, opening its dialog and accepting it
\* unchanged leaves its schedule as it is.
THEOREM EditsStayHarmless == Spec => []EditKeepsSchedule
<1>1. Init => TasksInv
  BY TasksStart
<1>2. TasksInv /\ [Next]_vars => TasksInv'
  BY TasksAlone, TasksStepKeeps
<1>3. TasksInv => EditKeepsSchedule
  BY ScheduledKeeps
<1>4. QED
  BY <1>1, <1>2, <1>3, PTL DEF Spec

\* The daemon implements TaskPromise: however timer ticks, reload calls, edits, truncated
\* files and restarts fall, it starts a task at most once in a minute, though it remembers
\* only the last keys of past runs.
THEOREM TasksRunOnce == Spec => OncePerMinute
<1>1. Init => TasksInv /\ Task!Promise!Init
  BY TasksStart
<1>2. TasksInv /\ [Next]_vars => TasksInv' /\ [Task!Promise!Next]_<<started, taskNow>>
  BY TasksAlone, TasksStepKeeps
<1>3. QED
  BY <1>1, <1>2, PTL DEF Spec, OncePerMinute, Task!OncePerMinute, Task!Promise!Spec

-----------------------------------------------------------------------------
(* The slider over the backlight and the switch over the adapter.          *)

\* A slider, and what it says of a backlight when it can be moved and nobody else wrote.
SliderShape(s) ==
    /\ DOMAIN s = {"device", "enabled", "value", "down", "fresh"}
    /\ s.device \in BOOLEAN /\ s.enabled \in BOOLEAN /\ s.down \in BOOLEAN /\ s.fresh \in BOOLEAN
    /\ s.value \in Nat

SliderTrue(s, b) ==
    /\ s.enabled => s.device
    /\ s.enabled /\ s.fresh => b.level >= 0 /\ b.writable
    /\ s.enabled /\ s.fresh /\ ~s.down =>
           b.level = System!Level(s.value) \/ s.value = System!Percent(b.level)

BacklightShape(b) ==
    DOMAIN b = {"level", "writable"} /\ b.writable \in BOOLEAN /\ b.level \in Int

SwitchTrue(s, a) == s.enabled /\ s.fresh => s.checked = (a = "on")

\* What holds of the two pages.
SystemInv ==
    /\ BacklightShape(backlight)
    /\ SliderShape(systemSettings.slider) /\ SliderTrue(systemSettings.slider, backlight)
    /\ SliderShape(dialog.slider) /\ SliderTrue(dialog.slider, backlight)
    /\ SwitchTrue(dialog.switch, adapter)
    /\ DOMAIN dialog.switch = {"enabled", "checked", "fresh"}
    /\ DOMAIN systemSettings = {"slider", "box", "page"}
    /\ DOMAIN dialog = {"up", "slider", "switch", "box"}

\* A share of a number is a number.
LEMMA Quotient ==
    ASSUME NEW m \in Nat, NEW n \in Nat \ {0}
    PROVE  m \div n \in Nat
OBVIOUS

\* What is written for a number is one.
LEMMA LevelIsNumber ==
    ASSUME NEW v \in Nat
    PROVE  System!Level(v) \in Nat
<1>1. v * MaxBrightness \in Nat
  BY BacklightAssumption DEF BacklightAssumption
<1>2. QED
  BY <1>1, Quotient DEF System!Level

\* A look shows what is there.
LEMMA LookIsTrue ==
    ASSUME NEW s, SliderShape(s), ~s.down, BacklightShape(backlight)
    PROVE  /\ SliderShape(System!RefreshPower(s))
           /\ SliderTrue(System!RefreshPower(s), backlight)
<1>1. backlight.level >= 0 => System!Percent(backlight.level) \in Nat
  BY BacklightAssumption, Quotient DEF BacklightShape, BacklightAssumption, System!Percent
<1>2. QED
  BY <1>1 DEF SliderShape, SliderTrue, BacklightShape, System!RefreshPower, System!Present

\* The slider of a program that is not open is one.
LEMMA NoSliderShape == SliderShape(System!NoSlider) /\ ~System!NoSlider.down
BY DEF SliderShape, System!NoSlider

\* Initially the settings show what is there.
LEMMA SystemStart ==
    ASSUME System!Init
    PROVE  SystemInv
<1>1. BacklightShape(backlight)
  <2>1. PICK l \in {-1, MaxBrightness - 1} : backlight = [level |-> l, writable |-> TRUE]
    BY Zenon DEF System!Init
  <2>2. l \in Int
    BY BacklightAssumption DEF BacklightAssumption
  <2>3. QED
    BY <2>1, <2>2 DEF BacklightShape
<1>2. /\ SliderShape(System!RefreshPower(System!NoSlider))
      /\ SliderTrue(System!RefreshPower(System!NoSlider), backlight)
  BY <1>1, NoSliderShape, LookIsTrue
<1>3. systemSettings.slider = System!RefreshPower(System!NoSlider)
  BY DEF System!Init
<1>4. /\ DOMAIN systemSettings = {"slider", "box", "page"}
      /\ DOMAIN dialog = {"up", "slider", "switch", "box"}
      /\ dialog.slider = System!NoSlider /\ dialog.switch = System!NoSwitch
  BY DEF System!Init, System!NoDialog
<1>5. SliderShape(System!NoSlider) /\ SliderTrue(System!NoSlider, backlight)
  BY NoSliderShape DEF SliderTrue, System!NoSlider
<1>6. /\ SwitchTrue(System!NoSwitch, adapter)
      /\ DOMAIN System!NoSwitch = {"enabled", "checked", "fresh"}
  BY DEF SwitchTrue, System!NoSwitch
<1>7. QED
  BY <1>1, <1>2, <1>3, <1>4, <1>5, <1>6, Zenon DEF SystemInv

\* A control that did not tell the backlight its new level is not fresh.
LEMMA DoubtedIsTrue ==
    ASSUME NEW s, NEW b, NEW c, NEW wrote \in BOOLEAN,
           SliderShape(s), SliderTrue(s, b), wrote \/ c = b
    PROVE  /\ SliderShape([s EXCEPT !.fresh = @ /\ ~wrote])
           /\ SliderTrue([s EXCEPT !.fresh = @ /\ ~wrote], c)
<1> DEFINE r == [s EXCEPT !.fresh = @ /\ ~wrote]
<1>1. /\ DOMAIN r = {"device", "enabled", "value", "down", "fresh"}
      /\ r.device = s.device /\ r.enabled = s.enabled /\ r.value = s.value /\ r.down = s.down
      /\ r.fresh = (s.fresh /\ ~wrote)
  BY DEF SliderShape
<1>2. r.fresh \in BOOLEAN /\ (r.fresh => s.fresh /\ c = b)
  BY <1>1 DEF SliderShape
<1> HIDE DEF r
<1>3. SliderShape(r)
  BY <1>1, <1>2, Zenon DEF SliderShape
<1>4. SliderTrue(r, c)
  BY <1>1, <1>2, Zenon DEF SliderTrue
<1>5. QED
  BY <1>3, <1>4 DEF r

\* A page's slider becomes a true one.
LEMMA SetKeeps ==
    ASSUME SystemInv, NEW p \in {"settings", "control"}, NEW s, NEW wrote \in BOOLEAN,
           SliderShape(s), SliderTrue(s, backlight'), BacklightShape(backlight'),
           wrote \/ backlight' = backlight, System!SetSlider(p, s, wrote)
    PROVE  SystemInv'
<1> DEFINE a == [systemSettings.slider EXCEPT !.fresh = @ /\ ~wrote]
           c == [dialog.slider EXCEPT !.fresh = @ /\ ~wrote]
<1>1. /\ SliderShape(a) /\ SliderTrue(a, backlight')
      /\ SliderShape(c) /\ SliderTrue(c, backlight')
  BY DoubtedIsTrue DEF SystemInv
<1>2. /\ [systemSettings EXCEPT !.slider.fresh = @ /\ ~wrote] = [systemSettings EXCEPT !.slider = a]
      /\ [dialog EXCEPT !.slider.fresh = @ /\ ~wrote] = [dialog EXCEPT !.slider = c]
  BY DEF SystemInv
<1> HIDE DEF a, c
<1>3. /\ systemSettings' = [systemSettings EXCEPT !.slider = s]
      /\ dialog' = [dialog EXCEPT !.slider = c]
      \/ /\ systemSettings' = [systemSettings EXCEPT !.slider = a]
         /\ dialog' = [dialog EXCEPT !.slider = s]
  BY <1>2 DEF System!SetSlider
<1>4. /\ DOMAIN systemSettings' = {"slider", "box", "page"}
      /\ DOMAIN dialog' = {"up", "slider", "switch", "box"}
      /\ systemSettings'.slider \in {s, a} /\ dialog'.slider \in {s, c}
      /\ dialog'.switch = dialog.switch
  BY <1>3 DEF SystemInv
<1>5. adapter' = adapter
  BY DEF System!SetSlider
<1>6. /\ SliderShape(systemSettings'.slider) /\ SliderTrue(systemSettings'.slider, backlight')
      /\ SliderShape(dialog'.slider) /\ SliderTrue(dialog'.slider, backlight')
  BY <1>1, <1>4
<1>7. QED
  BY <1>4, <1>5, <1>6 DEF SystemInv

\* The level written for a slider is what the slider says; a refused write leaves the
\* settings' slider disabled.
LEMMA WrittenKeeps ==
    ASSUME SystemInv, NEW p \in {"settings", "control"}, NEW s, SliderShape(s), ~s.down,
           s.device = System!SliderOf(p).device, s.enabled = System!SliderOf(p).enabled,
           s.fresh = System!SliderOf(p).fresh, System!ApplyBrightness(p, s)
    PROVE  SystemInv'
<1> DEFINE was == System!SliderOf(p)
<1>1. SliderShape(was) /\ SliderTrue(was, backlight)
  BY DEF SystemInv, System!SliderOf
<1> HIDE DEF was
<1>2. s.device = was.device /\ s.enabled = was.enabled /\ s.fresh = was.fresh
  BY DEF was
<1>3. CASE ~s.device
  <2>1. System!SetSlider(p, s, FALSE) /\ backlight' = backlight
    BY <1>3, Zenon DEF System!ApplyBrightness
  <2>2. SliderTrue(s, backlight)
    BY <1>1, <1>2, <1>3 DEF SliderTrue
  <2>3. BacklightShape(backlight')
    BY <2>1, Zenon DEF SystemInv
  <2>4. QED
    BY <2>1, <2>2, <2>3, SetKeeps, Zenon
<1>4. CASE s.device /\ System!Present /\ backlight.writable
  <2>1. /\ System!SetSlider(p, s, TRUE)
        /\ backlight' = [backlight EXCEPT !.level = System!Level(s.value)]
    BY <1>4, Zenon DEF System!ApplyBrightness
  <2>2. /\ DOMAIN backlight' = {"level", "writable"}
        /\ backlight'.level = System!Level(s.value) /\ backlight'.writable = TRUE
        /\ System!Level(s.value) \in Nat
    BY <2>1, <1>4, LevelIsNumber DEF SystemInv, BacklightShape, SliderShape
  <2>3. SliderTrue(s, backlight')
    BY <1>1, <1>2, <2>2 DEF SliderTrue
  <2>4. BacklightShape(backlight')
    <3>1. backlight'.level \in Int
      BY <2>2
    <3>2. QED
      BY <2>2, <3>1, Zenon DEF BacklightShape
  <2>5. QED
    BY <2>1, <2>3, <2>4, SetKeeps, Zenon
<1>5. CASE s.device /\ ~(System!Present /\ backlight.writable)
  <2> DEFINE r == [s EXCEPT !.enabled = @ /\ p = "control"]
  <2>1. System!SetSlider(p, r, FALSE) /\ backlight' = backlight
    BY <1>5, Zenon DEF System!ApplyBrightness
  <2>2. /\ DOMAIN r = {"device", "enabled", "value", "down", "fresh"}
        /\ r.device = s.device /\ r.value = s.value /\ r.down = s.down /\ r.fresh = s.fresh
        /\ r.enabled = (s.enabled /\ p = "control")
    BY DEF SliderShape
  <2>3. r.enabled \in BOOLEAN /\ (r.enabled => was.enabled)
    BY <1>2, <2>2, Zenon
  <2> HIDE DEF r
  <2>4. SliderShape(r)
    BY <2>2, Zenon DEF SliderShape
  <2>5. SliderTrue(r, backlight)
    BY <1>1, <1>2, <1>5, <2>2, <2>3 DEF SliderTrue, System!Present
  <2>6. BacklightShape(backlight')
    BY <2>1, Zenon DEF SystemInv
  <2>7. QED
    BY <2>1, <2>4, <2>5, <2>6, SetKeeps, Zenon
<1>6. QED
  BY <1>3, <1>4, <1>5

\* Each step of the two programs and of the rest of the system keeps the pages true.
LEMMA SystemStepKeeps ==
    ASSUME SystemInv, [System!Next]_systemVars
    PROVE  SystemInv'
<1>1. ASSUME NEW l \in -1..MaxBrightness, NEW w \in BOOLEAN, System!SystemDims(l, w)
      PROVE  SystemInv'
  <2> DEFINE a == [systemSettings.slider EXCEPT !.fresh = FALSE]
             c == [dialog.slider EXCEPT !.fresh = FALSE]
  <2>1. /\ systemSettings' = [systemSettings EXCEPT !.slider.fresh = FALSE]
        /\ dialog' = [dialog EXCEPT !.slider.fresh = FALSE] /\ adapter' = adapter
        /\ backlight' = [level |-> l, writable |-> w]
    BY <1>1 DEF System!SystemDims
  <2>2. /\ systemSettings' = [systemSettings EXCEPT !.slider = a]
        /\ dialog' = [dialog EXCEPT !.slider = c]
    BY <2>1 DEF SystemInv
  <2>3. /\ SliderShape(a) /\ SliderTrue(a, backlight')
        /\ SliderShape(c) /\ SliderTrue(c, backlight')
    BY DEF SystemInv, SliderShape, SliderTrue
  <2>4. BacklightShape(backlight')
    <3>1. l \in Int
      BY BacklightAssumption DEF BacklightAssumption
    <3>2. QED
      BY <2>1, <3>1 DEF BacklightShape
  <2> HIDE DEF a, c
  <2>5. /\ DOMAIN systemSettings' = {"slider", "box", "page"}
        /\ DOMAIN dialog' = {"up", "slider", "switch", "box"}
        /\ systemSettings'.slider = a /\ dialog'.slider = c
        /\ dialog'.switch = dialog.switch
    BY <2>2 DEF SystemInv
  <2>6. SwitchTrue(dialog.switch, adapter) /\ DOMAIN dialog.switch = {"enabled", "checked", "fresh"}
    BY DEF SystemInv
  <2>7. QED
    BY <2>1, <2>3, <2>4, <2>5, <2>6, Zenon DEF SystemInv
<1>2. ASSUME NEW state, System!SystemPowers(state) PROVE SystemInv'
  <2>1. /\ UNCHANGED <<systemSettings, backlight>>
        /\ dialog' = [dialog EXCEPT !.switch.fresh = FALSE]
    BY <1>2 DEF System!SystemPowers
  <2>2. /\ DOMAIN dialog' = {"up", "slider", "switch", "box"}
        /\ dialog'.slider = dialog.slider
        /\ dialog'.switch = [dialog.switch EXCEPT !.fresh = FALSE]
    BY <2>1 DEF SystemInv
  <2>3. /\ DOMAIN dialog'.switch = {"enabled", "checked", "fresh"}
        /\ ~dialog'.switch.fresh
    BY <2>2 DEF SystemInv
  <2>4. QED
    BY <2>1, <2>2, <2>3 DEF SystemInv, SwitchTrue
<1>3. ASSUME NEW p \in {"settings", "control"}, System!Press(p) PROVE SystemInv'
  <2> DEFINE s == System!SliderOf(p)
             r == [s EXCEPT !.down = TRUE]
  <2>1. SliderShape(s) /\ SliderTrue(s, backlight)
    BY DEF SystemInv, System!SliderOf
  <2>2. System!SetSlider(p, r, FALSE) /\ backlight' = backlight
    BY <1>3, Zenon DEF System!Press
  <2> HIDE DEF s
  <2>3. SliderShape(r) /\ SliderTrue(r, backlight)
    BY <2>1 DEF SliderShape, SliderTrue
  <2> HIDE DEF r
  <2>4. QED
    BY <2>2, <2>3, SetKeeps DEF SystemInv
<1>4. ASSUME NEW p \in {"settings", "control"}, NEW v \in SliderPositions, System!Drag(p, v)
      PROVE  SystemInv'
  <2> DEFINE s == System!SliderOf(p)
             r == [s EXCEPT !.value = v]
  <2>0. v \in Nat
    BY BacklightAssumption DEF BacklightAssumption
  <2>1. SliderShape(s) /\ SliderTrue(s, backlight)
    BY DEF SystemInv, System!SliderOf
  <2>2. System!SetSlider(p, r, FALSE) /\ backlight' = backlight /\ s.down
    BY <1>4, Zenon DEF System!Drag
  <2> HIDE DEF s
  <2>3. SliderShape(r) /\ r.down /\ r.device = s.device /\ r.enabled = s.enabled /\ r.fresh = s.fresh
    BY <2>0, <2>1, <2>2 DEF SliderShape
  <2> HIDE DEF r
  <2>5. SliderTrue(r, backlight)
    BY <2>1, <2>3, Zenon DEF SliderTrue
  <2>6. BacklightShape(backlight')
    BY <2>2, Zenon DEF SystemInv
  <2>7. QED
    BY <2>2, <2>3, <2>5, <2>6, SetKeeps, Zenon
<1>5. ASSUME NEW p \in {"settings", "control"}, System!Release(p) PROVE SystemInv'
  <2> DEFINE s == System!SliderOf(p)
             r == [s EXCEPT !.down = FALSE]
  <2>1. SliderShape(s)
    BY DEF SystemInv, System!SliderOf
  <2>2. System!ApplyBrightness(p, r)
    BY <1>5, Zenon DEF System!Release
  <2> HIDE DEF s
  <2>3. /\ SliderShape(r) /\ ~r.down /\ r.device = s.device /\ r.enabled = s.enabled
        /\ r.fresh = s.fresh
    BY <2>1 DEF SliderShape
  <2> HIDE DEF r
  <2>4. QED
    BY <2>2, <2>3, WrittenKeeps DEF s
<1>6. ASSUME NEW p \in {"settings", "control"}, NEW v \in SliderPositions, System!SliderKey(p, v)
      PROVE  SystemInv'
  <2> DEFINE s == System!SliderOf(p)
             r == [s EXCEPT !.value = v]
  <2>0. v \in Nat
    BY BacklightAssumption DEF BacklightAssumption
  <2>1. SliderShape(s)
    BY DEF SystemInv, System!SliderOf
  <2>2. System!ApplyBrightness(p, r) /\ ~s.down
    BY <1>6, Zenon DEF System!SliderKey
  <2> HIDE DEF s
  <2>3. /\ SliderShape(r) /\ ~r.down /\ r.device = s.device /\ r.enabled = s.enabled
        /\ r.fresh = s.fresh
    BY <2>0, <2>1, <2>2 DEF SliderShape
  <2> HIDE DEF r
  <2>4. QED
    BY <2>2, <2>3, WrittenKeeps DEF s
<1>7. CASE System!ShowPower
  <2> DEFINE r == System!RefreshPower(systemSettings.slider)
  <2>1. /\ systemSettings' = [systemSettings EXCEPT !.page = "power", !.slider = r]
        /\ UNCHANGED <<backlight, adapter, dialog>> /\ ~systemSettings.slider.down
    BY <1>7, Zenon DEF System!ShowPower
  <2>2. SliderShape(r) /\ SliderTrue(r, backlight)
    BY <2>1, LookIsTrue DEF SystemInv
  <2> HIDE DEF r
  <2>3. QED
    BY <2>1, <2>2 DEF SystemInv
<1>8. CASE System!LeavePower \/ System!ToggleAutostart
  BY <1>8 DEF System!LeavePower, System!ToggleAutostart, SystemInv
<1>9. CASE System!OpenSystem
  <2> DEFINE r == System!RefreshPower(System!NoSlider)
  <2>1. SliderShape(r) /\ SliderTrue(r, backlight)
    BY NoSliderShape, LookIsTrue DEF SystemInv
  <2>2. /\ dialog' = [System!NoDialog EXCEPT !.up = "system", !.box = autostart, !.slider = r]
        /\ UNCHANGED <<backlight, adapter, systemSettings>>
    BY <1>9, Zenon DEF System!OpenSystem
  <2> HIDE DEF r
  <2>3. QED
    BY <2>1, <2>2 DEF SystemInv, System!NoDialog, System!NoSwitch, SwitchTrue
<1>10. CASE System!OpenHardware
  <2> DEFINE r == System!RefreshBluetooth(System!NoSwitch, adapter)
  <2>1. DOMAIN r = {"enabled", "checked", "fresh"} /\ SwitchTrue(r, adapter)
    BY DEF System!RefreshBluetooth, System!NoSwitch, SwitchTrue
  <2>2. /\ dialog' = [System!NoDialog EXCEPT !.up = "hardware", !.switch = r]
        /\ UNCHANGED <<backlight, adapter, systemSettings>>
    BY <1>10, Zenon DEF System!OpenHardware
  <2> HIDE DEF r
  <2>3. /\ dialog'.switch = r /\ dialog'.slider = System!NoSlider
        /\ DOMAIN dialog' = {"up", "slider", "switch", "box"}
    BY <2>2 DEF System!NoDialog
  <2>4. SliderShape(System!NoSlider) /\ SliderTrue(System!NoSlider, backlight)
    BY NoSliderShape DEF SliderTrue, System!NoSlider
  <2>5. QED
    BY <2>1, <2>2, <2>3, <2>4, Zenon DEF SystemInv
<1>11. CASE System!ToggleBluetooth
  <2> DEFINE q == [dialog.switch EXCEPT !.checked = ~dialog.switch.checked]
             r == System!RefreshBluetooth(q, adapter')
  <2>1. DOMAIN q = {"enabled", "checked", "fresh"}
    BY DEF SystemInv
  <2>2. /\ dialog' = [dialog EXCEPT !.switch = r]
        /\ UNCHANGED <<backlight, systemSettings>>
    BY <1>11, Zenon DEF System!ToggleBluetooth
  <2> HIDE DEF q
  <2>3. DOMAIN r = {"enabled", "checked", "fresh"} /\ SwitchTrue(r, adapter')
    BY <2>1 DEF System!RefreshBluetooth, SwitchTrue
  <2> HIDE DEF r
  <2>4. /\ dialog'.switch = r /\ dialog'.slider = dialog.slider
        /\ DOMAIN dialog' = {"up", "slider", "switch", "box"}
    BY <2>2 DEF SystemInv
  <2>5. QED
    BY <2>2, <2>3, <2>4, Zenon DEF SystemInv
<1>12. CASE \/ System!CheckAutostart \/ System!CloseDialog
            \/ \E close \in BOOLEAN : System!SaveSystem(close)
  <2>1. UNCHANGED <<backlight, adapter, systemSettings>>
    BY <1>12, Zenon DEF System!CheckAutostart, System!CloseDialog, System!SaveSystem
  <2>2. \/ dialog' = dialog \/ dialog' = System!NoDialog
        \/ dialog' = [dialog EXCEPT !.box = ~@]
    BY <1>12, Zenon DEF System!CheckAutostart, System!CloseDialog, System!SaveSystem
  <2>3. CASE dialog' = System!NoDialog
    <3>1. /\ dialog'.switch = System!NoSwitch /\ dialog'.slider = System!NoSlider
          /\ DOMAIN dialog' = {"up", "slider", "switch", "box"}
      BY <2>3 DEF System!NoDialog
    <3>2. SliderShape(System!NoSlider) /\ SliderTrue(System!NoSlider, backlight)
      BY NoSliderShape DEF SliderTrue, System!NoSlider
    <3>3. /\ SwitchTrue(System!NoSwitch, adapter)
          /\ DOMAIN System!NoSwitch = {"enabled", "checked", "fresh"}
      BY DEF System!NoSwitch, SwitchTrue
    <3>4. QED
      BY <2>1, <3>1, <3>2, <3>3, Zenon DEF SystemInv
  <2>4. CASE dialog' = dialog
    BY <2>1, <2>4, Zenon DEF SystemInv
  <2>5. CASE dialog' = [dialog EXCEPT !.box = ~@]
    <3>1. /\ dialog'.switch = dialog.switch /\ dialog'.slider = dialog.slider
          /\ DOMAIN dialog' = {"up", "slider", "switch", "box"}
      BY <2>5 DEF SystemInv
    <3>2. QED
      BY <2>1, <3>1, Zenon DEF SystemInv
  <2>6. QED
    BY <2>2, <2>3, <2>4, <2>5
<1>13. CASE UNCHANGED systemVars
  BY <1>13, Zenon DEF systemVars, SystemInv
<1>14. QED
  BY <1>1, <1>2, <1>3, <1>4, <1>5, <1>6, <1>7, <1>8, <1>9, <1>10, <1>11, <1>12, <1>13, Zenon
     DEF System!Next

\* The controls of true pages are true.
LEMMA SystemTrue ==
    ASSUME SystemInv
    PROVE  System!ControlsTellTheTruth
BY Zenon DEF SystemInv, SliderTrue, SwitchTrue, System!ControlsTellTheTruth, System!SliderOf

-----------------------------------------------------------------------------
(* The look at the network.                                                *)

\* An address read for a connection belongs to a device that carried it since the look began.
Backed(lines, pairs) ==
    \A c \in DOMAIN lines : lines[c] # Absent => <<lines[c][1], c>> \in pairs

\* While a look goes on, what the devices carry is among what they carried, and the device
\* asked for its address carried the connection that the address is for.
NetInv ==
    /\ look.at \in {"none", "connections", "device", "config", "address", "done"}
    /\ DOMAIN look = {"at", "text", "lines", "device", "active", "config"}
    /\ look.device \in 0..Len(NetDevices)
    /\ look.at \in {"device", "config", "address"} => look.device \in 1..Len(NetDevices)
    /\ look.at # "none" => /\ \A d \in Net!DeviceSet : <<d, nm.carries[d]>> \in carried
                           /\ Backed(look.lines, carried)
    /\ look.at \in {"config", "address"} =>
           <<Net!Device, look.active>> \in carried
    /\ look.at = "address" => look.config[1] = Net!Device
    /\ Backed(shown.lines, shown.carried)

\* Initially nothing was looked at.
LEMMA NetStart ==
    ASSUME Net!Init
    PROVE  NetInv
BY DEF Net!Init, NetInv, Backed, Net!NoQuery, Net!NoLines

\* What the network does keeps what was read.
LEMMA NetworkKeeps ==
    ASSUME NetInv, Net!NetworkStep
    PROVE  NetInv'
<1>1. CASE look.at = "none"
  <2>1. carried' = carried /\ UNCHANGED <<look, shown>>
    BY <1>1 DEF Net!NetworkStep
  <2>2. QED
    BY <1>1, <2>1 DEF NetInv, Net!Device
<1>2. CASE look.at # "none"
  <2>1. carried' = carried \union Net!Carrying /\ UNCHANGED <<look, shown>>
    BY <1>2 DEF Net!NetworkStep
  <2>2. \A d \in Net!DeviceSet : <<d, nm'.carries[d]>> \in carried'
    BY <2>1, Zenon DEF Net!Carrying
  <2>3. \A lines : Backed(lines, carried) => Backed(lines, carried')
    BY <2>1, Zenon DEF Backed
  <2>4. QED
    BY <1>2, <2>1, <2>2, <2>3 DEF NetInv, Net!Device
<1>3. QED
  BY <1>1, <1>2

\* The next device of a look is one, and nothing was read of it yet.
LEMMA NextIsDevice ==
    ASSUME NEW q, DOMAIN q = {"at", "text", "lines", "device", "active", "config"},
           q.device \in 0..Len(NetDevices)
    PROVE  LET r == Net!NextDevice(q)
           IN  /\ DOMAIN r = {"at", "text", "lines", "device", "active", "config"}
               /\ (r.at = "device" /\ r.device \in 1..Len(NetDevices)) \/ r.at = "done"
               /\ r.device \in 0..Len(NetDevices) /\ r.lines = q.lines
<1>1. Len(NetDevices) \in Nat
  BY NetworkAssumption, LenProperties DEF NetworkAssumption
<1>2. QED
  BY <1>1 DEF Net!NextDevice

\* A look that goes on.
LEMMA LookKeeps ==
    ASSUME NetInv, NEW q, Net!Look(q), look.at # "none",
           q.at \in {"connections", "device", "config", "address", "done"},
           DOMAIN q = {"at", "text", "lines", "device", "active", "config"},
           q.device \in 0..Len(NetDevices),
           q.at \in {"device", "config", "address"} => q.device \in 1..Len(NetDevices),
           Backed(q.lines, carried),
           q.at \in {"config", "address"} =>
               <<NetDevices[q.device], q.active>> \in carried,
           q.at = "address" => q.config[1] = NetDevices[q.device]
    PROVE  NetInv'
<1>1. look' = q /\ UNCHANGED <<nm, shown, carried>>
  BY DEF Net!Look
<1>2. QED
  BY <1>1 DEF NetInv, Net!Device

\* Each call of a look, and all that the network does between the calls, keeps what was read
\* true.
LEMMA NetStepKeeps ==
    ASSUME NetInv, [Net!Next]_networkVars
    PROVE  NetInv'
<1>1. CASE \/ \E d \in Net!DeviceSet : \/ \E c \in Conns : Net!Activate(d, c)
                                       \/ Net!Obtain(d) \/ Net!Deactivate(d)
           \/ Net!ServiceStops
  <2>1. Net!NetworkStep
    BY <1>1, Zenon DEF Net!Activate, Net!Obtain, Net!Deactivate, Net!ServiceStops
  <2>2. QED
    BY <2>1, NetworkKeeps
<1>2. CASE Net!Refresh
  <2>1. CASE nm.up
    <3>1. /\ look' = [Net!NoQuery EXCEPT !.at = "connections",
                 !.text = IF Net!Active # {} THEN "connected" ELSE "not connected"]
          /\ carried' = {<<d, nm.carries[d]>> : d \in Net!DeviceSet}
          /\ UNCHANGED <<nm, shown>>
      BY <1>2, <2>1, Zenon DEF Net!Refresh
    <3>2. /\ DOMAIN look' = {"at", "text", "lines", "device", "active", "config"}
          /\ look'.at = "connections" /\ look'.lines = Net!NoLines /\ look'.device = 0
      BY <3>1 DEF Net!NoQuery
    <3>3. \A d \in Net!DeviceSet : <<d, nm'.carries[d]>> \in carried'
      BY <3>1, Zenon
    <3>4. Backed(Net!NoLines, carried')
      BY DEF Backed, Net!NoLines
    <3>5. QED
      BY <3>1, <3>2, <3>3, <3>4 DEF NetInv
  <2>2. CASE ~nm.up
    <3>1. /\ shown' = [text |-> "unavailable", lines |-> Net!NoLines, carried |-> {}]
          /\ UNCHANGED <<nm, look, carried>>
      BY <1>2, <2>2, Zenon DEF Net!Refresh
    <3>2. Backed(shown'.lines, shown'.carried)
      BY <3>1 DEF Backed, Net!NoLines
    <3>3. QED
      BY <3>1, <3>2, Zenon DEF NetInv, Net!Device
  <2>3. QED
    BY <2>1, <2>2
<1>3. CASE Net!GetConnections
  <2> DEFINE q == [look EXCEPT !.lines = [c \in IF nm.up THEN Net!Active ELSE {} |-> Absent]]
  <2>1. look.at = "connections" /\ Net!Look(Net!NextDevice(q))
    BY <1>3, Zenon DEF Net!GetConnections
  <2>2. /\ DOMAIN q = {"at", "text", "lines", "device", "active", "config"}
        /\ q.device = look.device
        /\ q.lines = [c \in IF nm.up THEN Net!Active ELSE {} |-> Absent]
    BY DEF NetInv
  <2> HIDE DEF q
  <2>3. Backed(q.lines, carried)
    BY <2>2 DEF Backed
  <2> DEFINE r == Net!NextDevice(q)
  <2>4. /\ DOMAIN r = {"at", "text", "lines", "device", "active", "config"}
        /\ (r.at = "device" /\ r.device \in 1..Len(NetDevices)) \/ r.at = "done"
        /\ r.device \in 0..Len(NetDevices) /\ r.lines = q.lines
    BY <2>2, NextIsDevice DEF NetInv
  <2> HIDE DEF r
  <2>5. QED
    BY <2>1, <2>3, <2>4, LookKeeps DEF r
<1>4. CASE Net!GetActiveConnection
  <2> DEFINE c == IF nm.up THEN Net!Match(look, nm.carries[Net!Device]) ELSE Absent
  <2>1. /\ look.at = "device" /\ Net!Look(IF c = Absent THEN Net!NextDevice(look)
                  ELSE [look EXCEPT !.at = "config", !.active = c])
    BY <1>4, Zenon DEF Net!GetActiveConnection
  <2>2. Backed(look.lines, carried)
    BY <2>1 DEF NetInv
  <2>3. CASE c = Absent
    <3> DEFINE r == Net!NextDevice(look)
    <3>1. /\ DOMAIN r = {"at", "text", "lines", "device", "active", "config"}
          /\ (r.at = "device" /\ r.device \in 1..Len(NetDevices)) \/ r.at = "done"
          /\ r.device \in 0..Len(NetDevices) /\ r.lines = look.lines
      BY NextIsDevice DEF NetInv
    <3> HIDE DEF r
    <3>2. QED
      BY <2>1, <2>2, <2>3, <3>1, LookKeeps DEF r
  <2>4. CASE c # Absent
    <3> DEFINE r == [look EXCEPT !.at = "config", !.active = c]
    <3>1. c = nm.carries[Net!Device]
      BY <2>4 DEF Net!Match
    <3>2. Net!Device \in Net!DeviceSet
      BY <2>1, NetworkAssumption, LenProperties
      DEF NetInv, Net!Device, Net!DeviceSet, NetworkAssumption
    <3>3. <<NetDevices[look.device], c>> \in carried
      BY <2>1, <3>1, <3>2 DEF NetInv, Net!Device
    <3> HIDE DEF c
    <3>4. /\ DOMAIN r = {"at", "text", "lines", "device", "active", "config"}
          /\ r.at = "config" /\ r.device = look.device /\ r.lines = look.lines /\ r.active = c
      BY DEF NetInv
    <3>5. Net!Look(r)
      BY <2>1, <2>4
    <3> HIDE DEF r
    <3>6. look.device \in 1..Len(NetDevices) /\ look.device \in 0..Len(NetDevices)
      BY <2>1 DEF NetInv
    <3>7. QED
      BY <2>1, <2>2, <2>4, <3>3, <3>4, <3>5, <3>6, LookKeeps
  <2>5. QED
    BY <2>3, <2>4
<1>5. CASE Net!GetConfig
  <2>1. look.at = "config"
    BY <1>5 DEF Net!GetConfig
  <2>2. Backed(look.lines, carried)
    BY <2>1 DEF NetInv
  <2>3. CASE nm.up /\ nm.addressed[Net!Device]
    <3> DEFINE x == Net!Address(Net!Device, nm.carries[Net!Device])
               r == [look EXCEPT !.at = "address", !.config = x]
    <3>1. Net!Look(r)
      BY <1>5, <2>3, Zenon DEF Net!GetConfig
    <3>2. x[1] = NetDevices[look.device]
      BY DEF Net!Address, Net!Device
    <3> HIDE DEF x
    <3>3. /\ DOMAIN r = {"at", "text", "lines", "device", "active", "config"}
          /\ r.at = "address" /\ r.device = look.device /\ r.lines = look.lines
          /\ r.active = look.active /\ r.config = x
      BY DEF NetInv
    <3> HIDE DEF r
    <3>4. look.device \in 1..Len(NetDevices) /\ look.device \in 0..Len(NetDevices)
      BY <2>1 DEF NetInv
    <3>5. <<NetDevices[look.device], look.active>> \in carried
      BY <2>1 DEF NetInv, Net!Device
    <3>6. QED
      BY <2>1, <2>2, <3>1, <3>2, <3>3, <3>4, <3>5, LookKeeps
  <2>4. CASE ~(nm.up /\ nm.addressed[Net!Device])
    <3> DEFINE r == Net!NextDevice(look)
    <3>1. /\ DOMAIN r = {"at", "text", "lines", "device", "active", "config"}
          /\ (r.at = "device" /\ r.device \in 1..Len(NetDevices)) \/ r.at = "done"
          /\ r.device \in 0..Len(NetDevices) /\ r.lines = look.lines
      BY NextIsDevice DEF NetInv
    <3>2. Net!Look(r)
      BY <1>5, <2>4, Zenon DEF Net!GetConfig
    <3> HIDE DEF r
    <3>3. QED
      BY <2>1, <2>2, <3>1, <3>2, LookKeeps
  <2>5. QED
    BY <2>3, <2>4
<1>6. CASE Net!GetAddress
  <2> DEFINE read == nm.up /\ nm.addressed[Net!Device]
                     /\ look.config = Net!Address(Net!Device, nm.carries[Net!Device])
             q == IF read THEN [look EXCEPT !.lines[look.active] = look.config] ELSE look
             r == Net!NextDevice(q)
  <2>1. look.at = "address" /\ Net!Look(r)
    BY <1>6, Zenon DEF Net!GetAddress
  <2>2. Backed(look.lines, carried)
    BY <2>1 DEF NetInv
  <2>3. /\ DOMAIN q = {"at", "text", "lines", "device", "active", "config"}
        /\ q.device = look.device
        /\ q.lines = IF read THEN [look.lines EXCEPT ![look.active] = look.config] ELSE look.lines
    BY DEF NetInv
  <2>4. look.config[1] = Net!Device /\ <<Net!Device, look.active>> \in carried
    BY <2>1 DEF NetInv
  <2> HIDE DEF q, read
  <2>5. Backed([look.lines EXCEPT ![look.active] = look.config], carried)
    BY <2>2, <2>4 DEF Backed
  <2>6. Backed(q.lines, carried)
    BY <2>2, <2>3, <2>5
  <2>7. /\ DOMAIN r = {"at", "text", "lines", "device", "active", "config"}
        /\ (r.at = "device" /\ r.device \in 1..Len(NetDevices)) \/ r.at = "done"
        /\ r.device \in 0..Len(NetDevices) /\ r.lines = q.lines
    BY <2>3, NextIsDevice DEF NetInv
  <2> HIDE DEF r
  <2>8. QED
    BY <2>1, <2>6, <2>7, LookKeeps
<1>7. CASE Net!Show
  <2>1. /\ look.at = "done" /\ UNCHANGED nm
        /\ shown' = [text |-> look.text, lines |-> look.lines, carried |-> carried]
        /\ look' = Net!NoQuery /\ carried' = {}
    BY <1>7, Zenon DEF Net!Show
  <2>2. Backed(look.lines, carried)
    BY <2>1 DEF NetInv
  <2>3. /\ DOMAIN Net!NoQuery = {"at", "text", "lines", "device", "active", "config"}
        /\ Net!NoQuery.at = "none" /\ Net!NoQuery.device = 0 /\ 0 \in 0..Len(NetDevices)
    BY NetworkAssumption, LenProperties DEF Net!NoQuery, NetworkAssumption
  <2>4. Backed(shown'.lines, shown'.carried)
    BY <2>1, <2>2
  <2>5. QED
    BY <2>1, <2>3, <2>4 DEF NetInv
<1>8. CASE UNCHANGED networkVars
  BY <1>8, Zenon DEF networkVars, NetInv, Net!Device
<1>9. QED
  BY <1>1, <1>2, <1>3, <1>4, <1>5, <1>6, <1>7, <1>8, Zenon DEF Net!Next

\* A shown address is one of a device that carried the connection.
LEMMA NetTrue ==
    ASSUME NetInv
    PROVE  Net!AddressOfItsDevice
BY Zenon DEF NetInv, Backed, Net!AddressOfItsDevice

-----------------------------------------------------------------------------
(* The default programs.                                                   *)

KindNames == {"browser", "mail", "filemanager", "viewer"}

\* No type belongs to two kinds.
LEMMA TypesApart ==
    ASSUME NEW k \in KindNames, NEW j \in KindNames, NEW m, m \in Apps!Types(k), m \in Apps!Types(j)
    PROVE  k = j
<1>1. /\ Apps!Types("browser") = {"http", "https"} /\ Apps!Types("mail") = {"mailto"}
      /\ Apps!Types("filemanager") = {"directory"}
      /\ Apps!Types("viewer") = {"image/png", "text/plain"}
  BY DEF Apps!Types, Apps!MimesOf
<1>2. QED
  BY <1>1 DEF KindNames

\* What is loaded opens what the list says.
LEMMA LoadOpens ==
    ASSUME NEW l, NEW m
    PROVE  Apps!Opens(Apps!Load(l), m) = Apps!Opens(l.defaults, m)
BY DEF Apps!Opens, Apps!Load

\* The types of one kind are changed, all of them and no other.
LEMMA SetDefaultOpens ==
    ASSUME NEW d, NEW k, NEW a, NEW m
    PROVE  Apps!Opens(Apps!SetDefault(d, k, a), m) =
               IF m \in Apps!Types(k) THEN a ELSE Apps!Opens(d, m)
<1> DEFINE T == Apps!Types(k)
<1> HIDE DEF T
<1>1. CASE a = Absent
  BY <1>1 DEF Apps!Opens, Apps!SetDefault, T
<1>2. CASE a # Absent
  BY <1>2 DEF Apps!Opens, Apps!SetDefault, T
<1>3. QED
  BY <1>1, <1>2

PageFields == {"up", "apps", "combo", "todo", "loaded", "reading", "closing", "status", "alone",
               "before"}

\* The kinds left after the first n.
KindsAfter(n) == SubSeq(AppKinds, n + 1, Len(AppKinds))

\* A page that wrote n kinds and nobody beside it: these open as chosen, the types of no
\* kind as before, and what it loaded for the next kind is still what the list says.
Whole(q, l, n) ==
    /\ q.todo = KindsAfter(n)
    /\ \A i \in 1..n : \A m \in Apps!Types(AppKinds[i]) :
          Apps!Opens(l.defaults, m) = q.combo[AppKinds[i]]
    /\ \A m \in Apps!Mimes \ UNION {Apps!Types(k) : k \in Apps!KindSet} :
           Apps!Opens(l.defaults, m) = Apps!Opens(q.before, m)
    /\ q.todo # <<>> /\ ~q.reading => \A m : Apps!Opens(q.loaded, m) = Apps!Opens(l.defaults, m)

PageInv(q, l) ==
    /\ DOMAIN q = PageFields
    /\ q.alone => \E n \in 0..Len(AppKinds) : Whole(q, l, n)

AppsInv ==
    /\ DOMAIN appPages = {"settings", "control"}
    /\ DOMAIN mimeapps = {"defaults", "others", "remarks"}
    /\ \A p \in {"settings", "control"} : PageInv(appPages[p], mimeapps)

\* The kinds are a list of names.
LEMMA KindsListed ==
    /\ AppKinds \in Seq(KindNames) /\ Len(AppKinds) \in Nat /\ DOMAIN AppKinds = 1..Len(AppKinds)
    /\ Apps!KindSet \subseteq KindNames /\ \A i \in 1..Len(AppKinds) : AppKinds[i] \in KindNames
BY AppsAssumption, LenProperties, ElementOfSeq DEF AppsAssumption, KindNames, Apps!KindSet

\* The kinds left, one by one.
LEMMA KindsLeft ==
    /\ KindsAfter(0) = AppKinds /\ KindsAfter(Len(AppKinds)) = <<>>
    /\ \A n \in 0..Len(AppKinds) : KindsAfter(n) = <<>> => n = Len(AppKinds)
    /\ \A n \in 0..Len(AppKinds) : KindsAfter(n) # <<>> =>
           /\ n + 1 \in 1..Len(AppKinds) /\ Head(KindsAfter(n)) = AppKinds[n + 1]
           /\ Tail(KindsAfter(n)) = KindsAfter(n + 1)
<1> DEFINE k == Len(AppKinds)
<1>1. k \in Nat /\ 0 \in 0..k /\ k \in 0..k
  BY KindsListed
<1>2. \A n \in 0..k :
         /\ n = 0 => KindsAfter(n) = AppKinds
         /\ n = k => KindsAfter(n) = <<>>
         /\ n < k => /\ KindsAfter(n) # <<>>
                     /\ Head(KindsAfter(n)) = AppKinds[n + 1]
                     /\ Tail(KindsAfter(n)) = KindsAfter(n + 1)
  BY <1>1, KindsListed, RestGoesOn, Zenon DEF KindsAfter
<1> HIDE DEF k
<1>3. \A n \in 0..k : n = k \/ (n < k /\ n + 1 \in 1..k)
  BY <1>1
<1>4. QED
  BY <1>1, <1>2, <1>3, Zenon DEF k

\* Initially no page applied anything.
LEMMA AppsStart ==
    ASSUME Apps!Init
    PROVE  AppsInv
<1>1. DOMAIN Apps!Opened = PageFields /\ Apps!Opened.alone = FALSE
  BY DEF Apps!Opened, Apps!Closed, PageFields
<1>2. DOMAIN Apps!Closed = PageFields /\ Apps!Closed.alone = FALSE
  BY DEF Apps!Closed, PageFields
<1>3. /\ DOMAIN appPages = {"settings", "control"}
      /\ appPages["settings"] = Apps!Opened /\ appPages["control"] = Apps!Closed
  BY DEF Apps!Init, Apps!Settings, Apps!Control
<1>4. DOMAIN mimeapps = {"defaults", "others", "remarks"}
  BY DEF Apps!Init, Apps!FirstLists
<1>5. QED
  BY <1>1, <1>2, <1>3, <1>4, Zenon DEF AppsInv, PageInv

\* Nothing is claimed of a page once another wrote the list.
LEMMA DoubtedPage ==
    ASSUME NEW q, DOMAIN q = PageFields, NEW l
    PROVE  PageInv(Apps!Doubted(q), l) /\ Apps!Doubted(q).alone = FALSE
<1> DEFINE r == Apps!Doubted(q)
<1>1. DOMAIN r = PageFields /\ r.alone = FALSE
  BY DEF Apps!Doubted, PageFields
<1>2. QED
  BY <1>1, Zenon DEF PageInv

\* A page whose list is still the one there is, and which changed nothing that matters.
LEMMA OnePage ==
    ASSUME AppsInv, NEW p \in {"settings", "control"}, NEW q, PageInv(q, mimeapps),
           appPages' = [appPages EXCEPT ![p] = q], mimeapps' = mimeapps
    PROVE  AppsInv'
<1>1. DOMAIN appPages' = {"settings", "control"} /\ appPages'[p] = q
      /\ \A o \in {"settings", "control"} : o # p => appPages'[o] = appPages[o]
  BY DEF AppsInv
<1>2. \A o \in {"settings", "control"} : PageInv(appPages'[o], mimeapps)
  BY <1>1, Zenon DEF AppsInv
<1>3. QED
  BY <1>1, <1>2 DEF AppsInv

\* A page of which nothing is claimed.
LEMMA NewPage ==
    ASSUME NEW l
    PROVE  PageInv(Apps!Opened, l) /\ PageInv(Apps!Closed, l)
<1>1. DOMAIN Apps!Opened = PageFields /\ Apps!Opened.alone = FALSE
  BY DEF Apps!Opened, Apps!Closed, PageFields
<1>2. DOMAIN Apps!Closed = PageFields /\ Apps!Closed.alone = FALSE
  BY DEF Apps!Closed, PageFields
<1>3. QED
  BY <1>1, <1>2, Zenon DEF PageInv

\* A page that begins to apply has written no kind.
LEMMA ApplyKeeps ==
    ASSUME AppsInv, NEW p \in DOMAIN appPages, NEW close \in BOOLEAN, Apps!Apply(p, close)
    PROVE  AppsInv'
<1> DEFINE q == [appPages[p] EXCEPT !.todo = AppKinds, !.closing = close, !.reading = TRUE,
                                    !.alone = TRUE, !.before = Apps!Load(mimeapps)]
<1>1. p \in {"settings", "control"} /\ DOMAIN appPages[p] = PageFields
  BY DEF AppsInv, PageInv
<1>2. appPages' = [appPages EXCEPT ![p] = q] /\ mimeapps' = mimeapps
  BY <1>1 DEF Apps!Apply, AppsInv
<1>3. /\ DOMAIN q = PageFields /\ q.todo = AppKinds /\ q.reading = TRUE
      /\ q.before = Apps!Load(mimeapps)
  BY <1>1 DEF PageFields
<1> HIDE DEF q
<1>4. 0 \in 0..Len(AppKinds) /\ 1..0 = {}
  BY KindsListed
<1>5. \A m : Apps!Opens(mimeapps.defaults, m) = Apps!Opens(q.before, m)
  BY <1>3, LoadOpens, Zenon
<1>6. Whole(q, mimeapps, 0)
  BY <1>3, <1>4, <1>5, KindsLeft, Zenon DEF Whole
<1>7. PageInv(q, mimeapps)
  BY <1>3, <1>4, <1>6, Zenon DEF PageInv
<1>8. QED
  BY <1>1, <1>2, <1>7, OnePage, Zenon

\* What a page loads is what the list says.
LEMMA LoadKindKeeps ==
    ASSUME AppsInv, NEW p \in DOMAIN appPages, Apps!LoadKind(p)
    PROVE  AppsInv'
<1> DEFINE was == appPages[p]
           q == [was EXCEPT !.loaded = Apps!Load(mimeapps), !.reading = FALSE]
<1>1. p \in {"settings", "control"} /\ DOMAIN was = PageFields /\ PageInv(was, mimeapps)
  BY DEF AppsInv, PageInv
<1>2. appPages' = [appPages EXCEPT ![p] = q] /\ mimeapps' = mimeapps
  BY <1>1 DEF Apps!LoadKind, AppsInv
<1> HIDE DEF was
<1>3. /\ DOMAIN q = PageFields /\ q.todo = was.todo /\ q.combo = was.combo
      /\ q.before = was.before /\ q.alone = was.alone /\ q.loaded = Apps!Load(mimeapps)
  BY <1>1 DEF PageFields
<1> HIDE DEF q
<1>4. \A m : Apps!Opens(q.loaded, m) = Apps!Opens(mimeapps.defaults, m)
  BY <1>3, LoadOpens, Zenon
<1>5. ASSUME NEW n, Whole(was, mimeapps, n) PROVE Whole(q, mimeapps, n)
  BY <1>3, <1>4, <1>5, Zenon DEF Whole
<1>6. PageInv(q, mimeapps)
  BY <1>1, <1>3, <1>5, Zenon DEF PageInv
<1>7. QED
  BY <1>1, <1>2, <1>6, OnePage, Zenon DEF was

\* A kind that was written opens as chosen, and no other type opens otherwise.
LEMMA WrittenKind ==
    ASSUME NEW q, NEW r, NEW l, NEW n \in 0..Len(AppKinds), Whole(q, l, n),
           q.todo # <<>>, ~q.reading,
           r.todo = Tail(q.todo), r.combo = q.combo, r.before = q.before,
           r.todo # <<>> => r.reading
    PROVE  LET k == Head(q.todo)
           IN  Whole(r, Apps!Saved(l, Apps!SetDefault(q.loaded, k, q.combo[k])), n + 1)
<1> DEFINE k == Head(q.todo)
           new == Apps!Saved(l, Apps!SetDefault(q.loaded, k, q.combo[k]))
<1>1. /\ n + 1 \in 1..Len(AppKinds) /\ k = AppKinds[n + 1] /\ r.todo = KindsAfter(n + 1)
  BY KindsLeft, Zenon DEF Whole
<1>2. new.defaults = Apps!SetDefault(q.loaded, k, q.combo[k])
  BY DEF Apps!Saved
<1> HIDE DEF new, k
<1>3. \A m : Apps!Opens(new.defaults, m) =
                IF m \in Apps!Types(k) THEN q.combo[k] ELSE Apps!Opens(l.defaults, m)
  <2>1. TAKE m
  <2>2. Apps!Opens(q.loaded, m) = Apps!Opens(l.defaults, m)
    BY Zenon DEF Whole
  <2>3. Apps!Opens(Apps!SetDefault(q.loaded, k, q.combo[k]), m) =
            IF m \in Apps!Types(k) THEN q.combo[k] ELSE Apps!Opens(q.loaded, m)
    BY SetDefaultOpens
  <2>4. QED
    BY <1>2, <2>2, <2>3
<1>4. k \in KindNames /\ k \in Apps!KindSet
  BY <1>1, KindsListed DEF Apps!KindSet
<1>5. ASSUME NEW i \in 1..(n + 1), NEW m \in Apps!Types(AppKinds[i])
      PROVE  Apps!Opens(new.defaults, m) = r.combo[AppKinds[i]]
  <2>1. i \in 1..Len(AppKinds) /\ AppKinds[i] \in KindNames
    BY <1>1, KindsListed
  <2>2. CASE AppKinds[i] = k
    BY <1>3, <2>2, Zenon
  <2>3. CASE AppKinds[i] # k
    <3>1. m \notin Apps!Types(k)
      BY <1>4, <2>1, <2>3, TypesApart
    <3>2. i \in 1..n
      BY <1>1, <2>3
    <3>3. Apps!Opens(l.defaults, m) = q.combo[AppKinds[i]]
      BY <3>2, Zenon DEF Whole
    <3>4. QED
      BY <1>3, <3>1, <3>3, Zenon
  <2>4. QED
    BY <2>2, <2>3
<1>6. ASSUME NEW m \in Apps!Mimes \ UNION {Apps!Types(x) : x \in Apps!KindSet}
      PROVE  Apps!Opens(new.defaults, m) = Apps!Opens(r.before, m)
  <2>1. m \notin Apps!Types(k)
    BY <1>4, Zenon
  <2>2. Apps!Opens(l.defaults, m) = Apps!Opens(q.before, m)
    BY <1>6, Zenon DEF Whole
  <2>3. QED
    BY <1>3, <2>1, <2>2, Zenon
<1>7. Whole(r, new, n + 1)
  BY <1>1, <1>5, <1>6, Zenon DEF Whole
<1>8. QED
  BY <1>7 DEF new, k

\* A page that wrote a kind, or failed to.
LEMMA SaveKindKeeps ==
    ASSUME AppsInv, NEW p \in DOMAIN appPages, Apps!SaveKind(p)
    PROVE  AppsInv'
<1> DEFINE was == appPages[p]
           k == Head(was.todo)
           rest == Tail(was.todo)
           done == [was EXCEPT !.todo = rest, !.loaded = Apps!NoDefaults,
                               !.reading = rest # <<>>,
                               !.status = IF rest = <<>> THEN "applied" ELSE @]
           written == Apps!Saved(mimeapps, Apps!SetDefault(was.loaded, k, was.combo[k]))
           failed == [Apps!Doubted(was) EXCEPT !.todo = <<>>, !.loaded = Apps!NoDefaults,
                                             !.status = "failed"]
           end == IF rest = <<>> /\ done.closing THEN Apps!Closed ELSE done
<1>1. p \in {"settings", "control"} /\ DOMAIN was = PageFields /\ PageInv(was, mimeapps)
  BY DEF AppsInv, PageInv
<1>2. was.todo # <<>> /\ ~was.reading
  BY DEF Apps!SaveKind
<1>3. \/ mimeapps' = written /\ appPages' = [Apps!Intruded(p) EXCEPT ![p] = end]
      \/ mimeapps' = mimeapps /\ appPages' = [appPages EXCEPT ![p] = failed]
  BY Zenon DEF Apps!SaveKind
<1>4. CASE mimeapps' = mimeapps /\ appPages' = [appPages EXCEPT ![p] = failed]
  <2>1. DOMAIN Apps!Doubted(was) = PageFields /\ Apps!Doubted(was).alone = FALSE
    BY <1>1 DEF Apps!Doubted, PageFields
  <2>2. DOMAIN failed = PageFields /\ failed.alone = FALSE
    BY <2>1 DEF PageFields
  <2> HIDE DEF failed
  <2>3. PageInv(failed, mimeapps)
    BY <2>2, Zenon DEF PageInv
  <2>4. QED
    BY <1>1, <1>4, <2>3, OnePage, Zenon
<1>5. CASE mimeapps' = written /\ appPages' = [Apps!Intruded(p) EXCEPT ![p] = end]
  <2>1. DOMAIN written = {"defaults", "others", "remarks"}
    BY DEF Apps!Saved
  <2>2. /\ DOMAIN done = PageFields /\ done.todo = rest /\ done.combo = was.combo
        /\ done.before = was.before /\ done.alone = was.alone
        /\ done.reading = (rest # <<>>)
    BY <1>1 DEF PageFields
  <2> HIDE DEF done
  <2>3. ASSUME NEW n \in 0..Len(AppKinds), Whole(was, mimeapps, n)
        PROVE  n + 1 \in 0..Len(AppKinds) /\ Whole(done, written, n + 1)
    <3>1. n + 1 \in 1..Len(AppKinds)
      BY <1>2, <2>3, KindsLeft, Zenon DEF Whole
    <3>2. n + 1 \in 0..Len(AppKinds)
      BY <3>1
    <3>3. Whole(done, written, n + 1)
      BY <1>2, <2>2, <2>3, WrittenKind, Zenon
    <3>4. QED
      BY <3>2, <3>3
  <2> HIDE DEF was, rest, k
  <2>4. PageInv(done, written)
    BY <1>1, <2>2, <2>3, Zenon DEF PageInv
  <2> HIDE DEF written
  <2>5. PageInv(end, written)
    BY <2>4, NewPage, Zenon
  <2> HIDE DEF end
  <2>6. DOMAIN Apps!Intruded(p) = {"settings", "control"}
    BY DEF Apps!Intruded, AppsInv
  <2>7. /\ DOMAIN appPages' = {"settings", "control"} /\ appPages'[p] = end
        /\ \A o \in {"settings", "control"} : o # p => appPages'[o] = Apps!Doubted(appPages[o])
    BY <1>1, <1>5, <2>6 DEF Apps!Intruded, AppsInv
  <2>8. \A o \in {"settings", "control"} : PageInv(Apps!Doubted(appPages[o]), written)
    BY DoubtedPage, Zenon DEF AppsInv, PageInv
  <2>9. \A o \in {"settings", "control"} : PageInv(appPages'[o], written)
    BY <2>5, <2>7, <2>8, Zenon
  <2>10. QED
    BY <1>5, <2>1, <2>7, <2>9, Zenon DEF AppsInv
<1>6. QED
  BY <1>3, <1>4, <1>5

\* Each step of the pages and of other programs keeps what a page applied.
LEMMA AppsStepKeeps ==
    ASSUME AppsInv, [Apps!Next]_appsVars
    PROVE  AppsInv'
<1>1. ASSUME NEW m, NEW s, Apps!Associate(m, s) PROVE AppsInv'
  <2>1. /\ DOMAIN mimeapps' = {"defaults", "others", "remarks"}
        /\ appPages' = Apps!Intruded("other")
    BY <1>1 DEF Apps!Associate, AppsInv
  <2>2. /\ DOMAIN appPages' = {"settings", "control"}
        /\ \A o \in {"settings", "control"} : appPages'[o] = Apps!Doubted(appPages[o])
    BY <2>1 DEF Apps!Intruded, AppsInv
  <2>3. \A o \in {"settings", "control"} : PageInv(Apps!Doubted(appPages[o]), mimeapps')
    BY DoubtedPage, Zenon DEF AppsInv, PageInv
  <2>4. QED
    BY <2>1, <2>2, <2>3, Zenon DEF AppsInv
<1>2. CASE Apps!AddAssociation
  <2>1. /\ DOMAIN mimeapps' = {"defaults", "others", "remarks"}
        /\ mimeapps'.defaults = mimeapps.defaults /\ appPages' = appPages
    BY <1>2 DEF Apps!AddAssociation, AppsInv
  <2>2. \A q : PageInv(q, mimeapps) => PageInv(q, mimeapps')
    <3>1. ASSUME NEW q, NEW n, Whole(q, mimeapps, n) PROVE Whole(q, mimeapps', n)
      <4>1. \A m : Apps!Opens(mimeapps'.defaults, m) = Apps!Opens(mimeapps.defaults, m)
        BY <2>1
      <4>2. QED
        BY <3>1, <4>1 DEF Whole
    <3>2. QED
      BY <3>1, Zenon DEF PageInv
  <2>3. QED
    BY <2>1, <2>2, Zenon DEF AppsInv
<1>3. ASSUME NEW a, NEW dir, Apps!Uninstall(a, dir) PROVE AppsInv'
  BY <1>3, Zenon DEF Apps!Uninstall, AppsInv
<1>4. CASE Apps!OpenDialog \/ Apps!Cancel
  <2>1. PICK q \in {Apps!Opened, Apps!Closed} : appPages' = [appPages EXCEPT !["control"] = q]
    BY <1>4, Zenon DEF Apps!OpenDialog, Apps!Cancel, Apps!Control
  <2>2. mimeapps' = mimeapps
    BY <1>4, Zenon DEF Apps!OpenDialog, Apps!Cancel
  <2>3. PageInv(q, mimeapps)
    BY NewPage, Zenon
  <2>4. QED
    BY <2>1, <2>2, <2>3, OnePage, Zenon
<1>5. ASSUME NEW p \in DOMAIN appPages, NEW kind, NEW a, Apps!Choose(p, kind, a) PROVE AppsInv'
  <2> DEFINE d == Apps!Doubted(appPages[p])
             q == [d EXCEPT !.combo[kind] = a]
  <2>1. p \in {"settings", "control"} /\ DOMAIN appPages[p] = PageFields
    BY DEF AppsInv, PageInv
  <2>2. DOMAIN d = PageFields /\ d.alone = FALSE
    BY <2>1 DEF Apps!Doubted, PageFields
  <2>3. appPages' = [appPages EXCEPT ![p] = q] /\ mimeapps' = mimeapps
    BY <1>5 DEF Apps!Choose
  <2> HIDE DEF d
  <2>4. DOMAIN q = PageFields /\ q.alone = FALSE
    BY <2>2 DEF PageFields
  <2> HIDE DEF q
  <2>5. PageInv(q, mimeapps)
    BY <2>4, Zenon DEF PageInv
  <2>6. QED
    BY <2>1, <2>3, <2>5, OnePage, Zenon
<1>6. CASE UNCHANGED appsVars
  BY <1>6, Zenon DEF appsVars, AppsInv
<1>7. QED
  BY <1>1, <1>2, <1>3, <1>4, <1>5, <1>6, ApplyKeeps, LoadKindKeeps, SaveKindKeeps, Zenon
     DEF Apps!Next

\* A page that says applied, and wrote every kind alone, has all of them in the list.
LEMMA AppsTrue ==
    ASSUME AppsInv
    PROVE  Apps!AppliedIsWhole
<1>1. SUFFICES ASSUME NEW p \in DOMAIN appPages, appPages[p].alone, appPages[p].todo = <<>>
      PROVE  /\ \A k \in Apps!KindSet : \A m \in Apps!Types(k) :
                    Apps!Opens(mimeapps.defaults, m) = appPages[p].combo[k]
             /\ \A m \in Apps!Mimes \ UNION {Apps!Types(k) : k \in Apps!KindSet} :
                    Apps!Opens(mimeapps.defaults, m) = Apps!Opens(appPages[p].before, m)
  BY Zenon DEF Apps!AppliedIsWhole
<1>2. PICK n \in 0..Len(AppKinds) : Whole(appPages[p], mimeapps, n)
  BY <1>1, Zenon DEF AppsInv, PageInv
<1>3. n = Len(AppKinds)
  BY <1>1, <1>2, KindsLeft, Zenon DEF Whole
<1>4. \A k \in Apps!KindSet : \E i \in 1..n : k = AppKinds[i]
  BY <1>3, KindsListed DEF Apps!KindSet
<1>5. ASSUME NEW k \in Apps!KindSet, NEW m \in Apps!Types(k)
      PROVE  Apps!Opens(mimeapps.defaults, m) = appPages[p].combo[k]
  <2>1. PICK i \in 1..n : k = AppKinds[i]
    BY <1>4
  <2>2. m \in Apps!Types(AppKinds[i])
    BY <2>1
  <2>3. Apps!Opens(mimeapps.defaults, m) = appPages[p].combo[AppKinds[i]]
    BY <1>2, <2>2, Zenon DEF Whole
  <2>4. QED
    BY <2>1, <2>3
<1>6. QED
  BY <1>2, <1>5, Zenon DEF Whole

-----------------------------------------------------------------------------
(* The pages together.                                                     *)

PagesInv == AppsInv /\ SystemInv /\ NetInv

\* Steps of the composition are steps of each of the pages.
LEMMA PagesAlone ==
    ASSUME [Next]_vars
    PROVE  [Apps!Next]_appsVars /\ [System!Next]_systemVars /\ [Net!Next]_networkVars
BY Zenon DEF Next, vars, TasksStep, FilesStep, SearchStep, CalendarStep, TerminalStep,
       DocumentsStep, ExplorerStep, ClockStep, AppsStep, SystemStep, NetworkStep, RemoteStep,
       ShotStep, ViewerStep, StoreStep, KeyboardStep, CalcStep, Alone

\* However the pages, other programs and the rest of the system take turns: a page that says
\* its choices are applied has every type of every kind in the list, a control that can be
\* moved shows the device it moves, and an address shown with a connection is one of a device
\* that carried the connection.
THEOREM PagesStayTrue == Spec => []PagesTellTheTruth
<1>1. Init => PagesInv
  BY AppsStart, SystemStart, NetStart, Zenon DEF Init, PagesInv
<1>2. PagesInv /\ [Next]_vars => PagesInv'
  BY PagesAlone, AppsStepKeeps, SystemStepKeeps, NetStepKeeps, Zenon DEF PagesInv
<1>3. PagesInv => PagesTellTheTruth
  BY AppsTrue, SystemTrue, NetTrue, Zenon DEF PagesInv, PagesTellTheTruth
<1>4. QED
  BY <1>1, <1>2, <1>3, PTL DEF Spec

-----------------------------------------------------------------------------
(* The calendar: every division of the days into months and weeks, and any  *)
(* number of events.                                                       *)

\* A list, of whatever is in it.
IsAList(s) == s \in Seq({s[i] : i \in DOMAIN s})

\* A list is known by the places it has.
LEMMA ListsArePlaces ==
    ASSUME NEW s, NEW n \in Nat, s = [i \in 1..n |-> s[i]]
    PROVE  IsAList(s)
BY DEF IsAList

\* One more element makes a list again.
LEMMA LongerList ==
    ASSUME NEW s, NEW e, IsAList(s)
    PROVE  IsAList(Append(s, e))
<1> DEFINE S == {s[i] : i \in DOMAIN s} \union {e}
<1>1. s \in Seq(S)
  BY DEF IsAList
<1> HIDE DEF S
<1>2. e \in S
  BY DEF S
<1>3. Append(s, e) \in Seq(S)
  BY <1>1, <1>2
<1> DEFINE t == Append(s, e)
<1> HIDE DEF t
<1>4. t \in Seq(S)
  BY <1>3, Zenon DEF t
<1>5. IsAList(t)
  BY <1>4 DEF IsAList
<1>6. QED
  BY <1>5, Zenon DEF t

\* The places of a list are finite in number.
LEMMA PlacesFinite ==
    ASSUME NEW s, IsAList(s), NEW on, on \subseteq DOMAIN s
    PROVE  IsFiniteSet(on) /\ Cardinality(on) \in Nat /\ (Cardinality(on) = 0 <=> on = {})
<1>1. DOMAIN s = 1..Len(s) /\ Len(s) \in Nat
  BY DEF IsAList
<1>2. IsFiniteSet(DOMAIN s)
  BY <1>1, FS_Interval
<1>3. QED
  BY <1>2, FS_Subset, FS_CardinalityType, FS_EmptySet, Zenon

\* The calendar counts as everyone does.
LEMMA CalCounts == \A S : Cal!Cardinality(S) = Cardinality(S)
BY Zenon DEF Cal!Cardinality, Cardinality

\* There are events on a day when an event of the list is on it.
LEMMA DayHasEvents ==
    ASSUME NEW s, IsAList(s), NEW d
    PROVE  Cal!EventsForDate(s, d) # <<>> <=> \E i \in DOMAIN s : s[i].date = d
<1> DEFINE on == {i \in DOMAIN s : s[i].date = d}
           c == Cardinality(on)
<1>1. c \in Nat /\ (c = 0 <=> on = {})
  BY PlacesFinite, Zenon
<1>2. DOMAIN Cal!EventsForDate(s, d) = 1..c
  BY CalCounts DEF Cal!EventsForDate, Cal!Picked
<1>3. on = {} <=> ~(\E i \in DOMAIN s : s[i].date = d)
  OBVIOUS
<1> HIDE DEF on
<1> HIDE DEF c
<1> DEFINE shownThen == Cal!EventsForDate(s, d)
<1>4. shownThen = [k \in DOMAIN shownThen |-> shownThen[k]]
  BY DEF Cal!EventsForDate, Cal!Picked
<1> HIDE DEF shownThen
<1>5. DOMAIN shownThen = 1..c
  BY <1>2, Zenon DEF shownThen
<1>6. shownThen # <<>> <=> c # 0
  BY <1>1, <1>4, <1>5
<1>7. QED
  BY <1>1, <1>3, <1>6, Zenon DEF shownThen

\* What the window shows of a list of events, a month and a day.
Marked(s, m) == {d \in Cal!DaysOf(m) : Cal!EventsForDate(s, d) # <<>>}
DayList(s, d) == [k \in DOMAIN Cal!EventsForDate(s, d) |-> Cal!EventsForDate(s, d)[k].id]

\* The dots are on the days that have events.
LEMMA DotsAreEvents ==
    ASSUME NEW s, IsAList(s), NEW m
    PROVE  Cal!MonthDates(s, m) = Marked(s, m)
<1>1. \A d : Cal!EventsForDate(s, d) # <<>> <=> \E i \in DOMAIN s : s[i].date = d
  BY DayHasEvents, Zenon
<1>2. QED
  BY <1>1 DEF Cal!MonthDates, Marked

\* A month has days, and they are in the grid that starts on the week of its first.
LEMMA MonthFits ==
    ASSUME NEW m \in Cal!Months
    PROVE  /\ Cal!First(m) \in Nat /\ Cal!First(m + 1) \in Nat
           /\ Cal!First(m) < Cal!First(m + 1)
           /\ Cal!DaysOf(m) \subseteq Cal!MonthCells(m)
<1>1. /\ MonthStarts[m] \in Nat /\ MonthStarts[m + 1] \in Nat
      /\ MonthStarts[m] < MonthStarts[m + 1]
      /\ WeekLength - 1 + MonthStarts[m + 1] - MonthStarts[m] <= GridCells
  BY CalendarAssumption DEF Cal!Months
<1> DEFINE f == MonthStarts[m]
           u == MonthStarts[m + 1]
           w == f % WeekLength
<1>2. f \in Nat /\ u \in Nat /\ f < u /\ WeekLength - 1 + u - f <= GridCells
  BY <1>1
<1> HIDE DEF f
<1> HIDE DEF u
<1>3. w \in 0..(WeekLength - 1)
  BY <1>2, CalendarAssumption
<1> HIDE DEF w
<1>4. f..(u - 1) \subseteq (f - w)..(f - w + GridCells - 1)
  BY <1>2, <1>3, CalendarAssumption
<1>5. QED
  BY <1>2, <1>4 DEF f, u, w, Cal!First, Cal!DaysOf, Cal!MonthCells

\* Of two numbers the smaller is one of them and not above the other.
LEMMA SmallerOfTwo ==
    ASSUME NEW a \in Int, NEW b \in Int
    PROVE  /\ Cal!Min({a, b}) \in {a, b} /\ Cal!Min({a, b}) <= a /\ Cal!Min({a, b}) <= b
BY DEF Cal!Min

\* The page shows the store: its month and day, the dots and the day's list.
CalInv ==
    /\ today \in Cal!Dates
    /\ month \in Cal!Months
    /\ IsAList(store)
    /\ selected \in Cal!DaysOf(month)
    /\ cells = Cal!MonthCells(month)
    /\ marks = Marked(store, month)
    /\ list = DayList(store, selected)

\* A page built again, of a month, one of its days and a list of events.
LEMMA PageBuilt ==
    ASSUME NEW s, IsAList(s), NEW m \in Cal!Months, NEW d \in Cal!DaysOf(m),
           store' = s, Cal!RebuildGrid(s, m, d), today' \in Cal!Dates
    PROVE  CalInv'
<1>1. Cal!MonthDates(s, m) = Marked(s, m)
  BY DotsAreEvents, Zenon
<1>2. /\ month' = m /\ selected' = d /\ cells' = Cal!MonthCells(m)
      /\ marks' = Marked(s, m) /\ list' = DayList(s, d)
  BY <1>1, Zenon DEF Cal!RebuildGrid, Cal!RefreshEvents, DayList
<1>3. QED
  BY <1>2, Zenon DEF CalInv

\* Each day is in a month.
LEMMA DayInMonth ==
    ASSUME NEW d \in Cal!Dates
    PROVE  Cal!MonthOf(d) \in Cal!Months /\ d \in Cal!DaysOf(Cal!MonthOf(d))
BY Zenon DEF Cal!Dates, Cal!MonthOf

\* The page starts on today's month, with no events.
LEMMA CalStart ==
    ASSUME Init
    PROVE  CalInv
<1>1. /\ today \in Cal!Dates /\ store = <<>> /\ month = Cal!MonthOf(today) /\ selected = today
      /\ cells = Cal!MonthCells(month) /\ marks = {} /\ list = <<>>
  BY Zenon DEF Init, Cal!Init
<1>2. month \in Cal!Months /\ selected \in Cal!DaysOf(month)
  BY <1>1, DayInMonth, Zenon
<1>3. IsAList(<<>>)
  BY DEF IsAList
<1>4. \A d : Cal!EventsForDate(<<>>, d) = <<>>
  BY <1>3, DayHasEvents
<1>5. Marked(<<>>, month) = {} /\ DayList(<<>>, selected) = <<>>
  BY <1>4 DEF Marked, DayList
<1>6. QED
  BY <1>1, <1>2, <1>3, <1>5, Zenon DEF CalInv

\* The same day of another month, or its last one, is one of its days.
LEMMA SameDayIsThere ==
    ASSUME month \in Cal!Months, selected \in Cal!DaysOf(month), NEW m \in Cal!Months
    PROVE  Cal!SameDay(m) \in Cal!DaysOf(m)
<1> DEFINE a == selected - Cal!First(month)
           b == Cal!First(m + 1) - 1 - Cal!First(m)
<1>1. a \in Nat
  BY MonthFits DEF Cal!DaysOf
<1>2. b \in Nat /\ Cal!First(m) \in Nat /\ Cal!First(m + 1) \in Nat
  BY MonthFits
<1>3. Cal!Min({a, b}) \in {a, b} /\ Cal!Min({a, b}) <= a /\ Cal!Min({a, b}) <= b
  <2>1. a \in Int /\ b \in Int
    BY <1>1, <1>2
  <2> HIDE DEF a, b
  <2>2. QED
    BY <2>1, SmallerOfTwo, Zenon
<1> DEFINE x == Cal!Min({a, b})
<1>4. x \in Nat /\ x <= Cal!First(m + 1) - 1 - Cal!First(m)
  BY <1>1, <1>2, <1>3
<1>5. Cal!SameDay(m) = Cal!First(m) + x
  BY Zenon DEF Cal!SameDay
<1> HIDE DEF x
<1>6. QED
  BY <1>2, <1>4, <1>5 DEF Cal!DaysOf

\* Each step of the window, of its timer and of the clock leaves the page true.
LEMMA CalStepKeeps ==
    ASSUME CalInv, [Cal!Next]_calendarVars
    PROVE  CalInv'
<1>1. ASSUME UNCHANGED <<store, month, selected, cells, marks, list>>, today' \in Cal!Dates
      PROVE  CalInv'
  BY <1>1, Zenon DEF CalInv
<1>2. CASE Cal!CheckReminders \/ Cal!SelectRow
  BY <1>1, <1>2, Zenon DEF Cal!CheckReminders, Cal!SelectRow, Cal!clockVars, CalInv
<1>3. CASE Cal!MinutePasses
  BY <1>1, <1>3, Zenon DEF Cal!MinutePasses, CalInv
<1>4. ASSUME NEW m, Cal!Turn(m) PROVE CalInv'
  <2>1. m \in Cal!Months /\ Cal!SameDay(m) \in Cal!DaysOf(m)
    BY <1>4, SameDayIsThere, Zenon DEF Cal!Turn, CalInv
  <2>2. Cal!RebuildGrid(store, m, Cal!SameDay(m)) /\ store' = store /\ today' = today
    BY <1>4, Zenon DEF Cal!Turn, Cal!clockVars
  <2>3. QED
    BY <2>1, <2>2, PageBuilt, Zenon DEF CalInv
<1>5. CASE Cal!OnToday
  <2>1. Cal!RebuildGrid(store, Cal!MonthOf(today), today) /\ store' = store /\ today' = today
    BY <1>5, Zenon DEF Cal!OnToday, Cal!clockVars
  <2>2. QED
    BY <2>1, DayInMonth, PageBuilt, Zenon DEF CalInv
<1>6. ASSUME NEW d \in Cal!Dates, Cal!OnCellClicked(d) PROVE CalInv'
  <2>1. store' = store /\ today' = today
    BY <1>6, Zenon DEF Cal!OnCellClicked, Cal!clockVars
  <2>2. CASE d \in Cal!DaysOf(month)
    <3>1. selected' = d /\ list' = DayList(store, d) /\ UNCHANGED <<month, cells, marks>>
      BY <1>6, <2>2, Zenon DEF Cal!OnCellClicked, Cal!RefreshEvents, DayList
    <3>2. QED
      BY <2>1, <2>2, <3>1, Zenon DEF CalInv
  <2>3. CASE d \notin Cal!DaysOf(month)
    <3>1. Cal!RebuildGrid(store, Cal!MonthOf(d), d)
      BY <1>6, <2>3, Zenon DEF Cal!OnCellClicked
    <3>2. QED
      BY <2>1, <3>1, DayInMonth, PageBuilt, Zenon DEF CalInv
  <2>4. QED
    BY <2>2, <2>3
<1>7. ASSUME NEW s, IsAList(s), Cal!Written(s) PROVE CalInv'
  BY <1>7, PageBuilt, Zenon DEF Cal!Written, Cal!clockVars, CalInv
<1>8. ASSUME NEW t, Cal!OnAdd(t) PROVE CalInv'
  BY <1>7, <1>8, LongerList, Zenon DEF Cal!OnAdd, CalInv
<1>9. DOMAIN store = 1..Len(store) /\ Len(store) \in Nat
  BY DEF CalInv, IsAList
<1>10. ASSUME NEW t, Cal!OnEdit(t) PROVE CalInv'
  <2> DEFINE F(i) == IF store[i].id = list[row] THEN [store[i] EXCEPT !.time = t] ELSE store[i]
             s == [i \in DOMAIN store |-> F(i)]
  <2>1. Cal!Written(s)
    BY <1>10, Zenon DEF Cal!OnEdit
  <2>2. IsAList(s)
    BY <1>9 DEF IsAList
  <2> HIDE DEF s
  <2>3. QED
    BY <1>7, <2>1, <2>2, Zenon
<1>11. CASE Cal!OnDelete
  <2> DEFINE on == {i \in DOMAIN store : store[i].id # list[row]}
             s == Cal!Picked(store, on, <)
  <2>1. Cal!Written(s)
    BY <1>11, Zenon DEF Cal!OnDelete
  <2> DEFINE n == Cardinality(on)
  <2>2. n \in Nat
    BY PlacesFinite, Zenon DEF CalInv
  <2>3. s = [i \in 1..n |-> s[i]]
    <3> HIDE DEF on
    <3>1. Cal!Cardinality(on) = n
      BY CalCounts, Zenon
    <3> HIDE DEF n
    <3>2. QED
      BY <3>1 DEF Cal!Picked
  <2> HIDE DEF n
  <2>4. IsAList(s)
    <3> HIDE DEF s
    <3>1. QED
      BY <2>2, <2>3, ListsArePlaces, Zenon
  <2> HIDE DEF s
  <2>5. QED
    BY <1>7, <2>1, <2>4, Zenon
<1>12. CASE UNCHANGED calendarVars
  BY <1>12, Zenon DEF calendarVars, CalInv
<1>13. QED
  BY <1>2, <1>3, <1>4, <1>5, <1>6, <1>8, <1>10, <1>11, <1>12, Zenon
     DEF Cal!Next, Cal!OnPrevMonth, Cal!OnNextMonth

\* Steps of the composition are steps of the calendar.
LEMMA CalAlone ==
    ASSUME [Next]_vars
    PROVE  [Cal!Next]_calendarVars
BY Zenon DEF Next, vars, TasksStep, FilesStep, SearchStep, CalendarStep, TerminalStep,
       DocumentsStep, ExplorerStep, ClockStep, AppsStep, SystemStep, NetworkStep, RemoteStep,
       ShotStep, ViewerStep, StoreStep, KeyboardStep, CalcStep, Alone

\* What the window shows is what the store has.
LEMMA CalTrue ==
    ASSUME CalInv
    PROVE  CalendarIsCurrent
<1>1. Cal!DaysOf(month) \subseteq Cal!MonthCells(month)
  BY MonthFits, Zenon DEF CalInv
<1>2. QED
  BY <1>1, Zenon DEF CalInv, CalendarIsCurrent, Cal!CalendarIsCurrent, Marked, DayList

\* Whatever is clicked, added, edited and deleted, and however the days pass: the selected
\* day is one of the month on the page and has a cell, the dots are on the days that have
\* events, and the list is that of the selected day.
THEOREM CalendarStaysCurrent == Spec => []CalendarIsCurrent
<1>1. Init => CalInv
  BY CalStart, Zenon
<1>2. CalInv /\ [Next]_vars => CalInv'
  BY CalAlone, CalStepKeeps, Zenon
<1>3. CalInv => CalendarIsCurrent
  BY CalTrue, Zenon
<1>4. QED
  BY <1>1, <1>2, <1>3, PTL DEF Spec


==============================================================================
