----------------------------- MODULE ToolsProofs -----------------------------
(***************************************************************************)
(* Proofs about the clock, the remote desktop, the software centre, the    *)
(* on-screen keyboard, the screenshot and the terminal, each for every     *)
(* value of its constants that the assumptions of Programs allow.          *)
(***************************************************************************)
EXTENDS Programs, ListTheorems, TLAPS, SequenceTheorems, FiniteSetTheorems

-----------------------------------------------------------------------------
(* Clock: every length of countdown, of the minute and of the day, and     *)
(* every number of alarms, at any time.                                    *)

\* Steps of the composition are steps of the clock.
LEMMA ClockAlone ==
    ASSUME [Next]_vars
    PROVE  [Time!Next]_clockVars
BY DEF Next, vars, TasksStep, FilesStep, SearchStep, CalendarStep, TerminalStep, DocumentsStep,
       ExplorerStep, ClockStep, AppsStep, SystemStep, NetworkStep, RemoteStep, ShotStep,
       ViewerStep, StoreStep, KeyboardStep, CalcStep, Alone

ClockTypes ==
    /\ now \in Nat /\ field \in Nat
    /\ countdown \in [running : BOOLEAN, target : Nat, remaining : Nat]
    /\ stopwatch \in [started : Nat \union {-1}, base : Int]
    /\ measured \in [left : Nat, watch : Int, rings : {0, 1}]

\* What the countdown and the stopwatch show is what they ran.
CountsAreTrue ==
    /\ countdown.running => countdown.remaining = 0
    /\ countdown.running => measured.left = IF countdown.target > now THEN countdown.target - now ELSE 0
    /\ ~countdown.running => measured.left = countdown.remaining
    /\ measured.watch = Time!StopwatchTotal

\* An alarm that rang in this minute has taken the key of the minute.
RungIsKept == measured.rings = 1 => lastAlarmKey = Time!Key

ClockInv == ClockTypes /\ CountsAreTrue /\ RungIsKept

-----------------------------------------------------------------------------
Countdowns == [running : BOOLEAN, target : Nat, remaining : Nat]

\* A tick ends a countdown whose time has come, and changes nothing else.
LEMMA TimerTickedEffect ==
    ASSUME NEW c \in Countdowns, NEW t \in Nat
    PROVE  LET d == Time!TimerTicked(c, t)
           IN /\ d \in Countdowns /\ d.target = c.target /\ d.remaining = c.remaining
              /\ c.target <= t => ~d.running
              /\ c.target > t => d = c
<1>1. CASE c.target <= t
  <2>1. Time!TimerTicked(c, t) = [c EXCEPT !.running = FALSE]
    BY <1>1 DEF Time!TimerTicked
  <2>2. c.target \in Nat /\ c \in [running : BOOLEAN, target : Nat, remaining : Nat]
    BY DEF Countdowns
  <2>3. LET d == [c EXCEPT !.running = FALSE]
        IN /\ d \in [running : BOOLEAN, target : Nat, remaining : Nat]
           /\ d.target = c.target /\ d.remaining = c.remaining /\ ~d.running
    BY <2>2
  <2>4. QED
    BY <1>1, <2>1, <2>2, <2>3 DEF Countdowns
<1>2. CASE ~(c.target <= t)
  BY <1>2 DEF Time!TimerTicked
<1>3. QED
  BY <1>1, <1>2

\* The buttons of the countdown.
LEMMA CountdownKeeps ==
    ASSUME ClockInv, Time!StartTimer \/ Time!PauseTimer \/ Time!ResetTimer
    PROVE  ClockInv'
<1>1. UNCHANGED <<now, field, stopwatch, lastAlarmKey>>
  BY DEF Time!StartTimer, Time!PauseTimer, Time!ResetTimer
<1>2. CASE Time!StartTimer
  <2> DEFINE length == IF countdown.remaining > 0 THEN countdown.remaining ELSE field
             left == IF countdown.running \/ measured.left = 0 THEN field ELSE measured.left
  <2>1. length \in Nat /\ left = length
    BY DEF ClockInv, ClockTypes, CountsAreTrue
  <2>2. measured' = [measured EXCEPT !.left = left]
    BY <1>2 DEF Time!StartTimer
  <2> DEFINE c == [running |-> TRUE, target |-> now + length, remaining |-> 0]
  <2>3. countdown' = Time!TimerTicked(c, now)
    BY <1>2 DEF Time!StartTimer
  <2> HIDE DEF length, left
  <2>4. /\ c \in Countdowns /\ c.running /\ c.target = now + length /\ c.remaining = 0
        /\ now \in Nat
    BY <2>1 DEF ClockInv, ClockTypes, Countdowns
  <2> HIDE DEF c
  <2>5. /\ countdown' \in Countdowns /\ countdown'.remaining = 0
        /\ countdown'.running => length > 0 /\ countdown'.target = now + length
        /\ ~countdown'.running => length = 0
    <3>1. LET d == Time!TimerTicked(c, now)
          IN /\ d \in Countdowns /\ d.target = c.target /\ d.remaining = c.remaining
             /\ c.target <= now => ~d.running
             /\ c.target > now => d = c
      BY <2>4, TimerTickedEffect
    <3>2. CASE length = 0
      BY <2>3, <2>4, <3>1, <3>2
    <3>3. CASE length > 0
      <4>1. c.target > now
        BY <2>1, <2>4, <3>3
      <4>2. countdown' = c
        BY <2>3, <3>1, <4>1
      <4>3. QED
        BY <2>4, <3>3, <4>2
    <3>4. QED
      BY <2>1, <3>2, <3>3
  <2>6. /\ measured' \in [left : Nat, watch : Int, rings : {0, 1}]
        /\ measured'.left = length /\ measured'.watch = measured.watch
        /\ measured'.rings = measured.rings
    BY <2>1, <2>2 DEF ClockInv, ClockTypes
  <2>7. ClockTypes'
    BY <1>1, <2>5, <2>6 DEF ClockInv, ClockTypes, Countdowns
  <2>8. CountsAreTrue'
    BY <1>1, <2>1, <2>4, <2>5, <2>6 DEF ClockInv, CountsAreTrue, Time!StopwatchTotal
  <2>9. QED
    BY <1>1, <2>6, <2>7, <2>8 DEF ClockInv, RungIsKept, Time!Key
<1>3. CASE Time!PauseTimer
  BY <1>1, <1>3 DEF Time!PauseTimer, ClockInv, ClockTypes, CountsAreTrue, Time!StopwatchTotal, RungIsKept, Time!Key
<1>4. CASE Time!ResetTimer
  BY <1>1, <1>4 DEF Time!ResetTimer, ClockInv, ClockTypes, CountsAreTrue, Time!StopwatchTotal, RungIsKept, Time!Key
<1>5. QED
  BY <1>2, <1>3, <1>4

\* The buttons of the stopwatch, and what changes no time.
LEMMA OtherButtonsKeep ==
    ASSUME ClockInv,
           \/ Time!StartStopwatch \/ Time!ResetStopwatch
           \/ \E l \in FieldLengths : Time!SetField(l)
           \/ \E m \in 0..(DayMinutes - 1) : Time!AddAlarm(m)
           \/ \E i \in DOMAIN alarms : Time!DeleteAlarm(i)
    PROVE  ClockInv'
<1>1. CASE Time!StartStopwatch
  <2>1. UNCHANGED <<now, field, countdown, lastAlarmKey, measured>>
    BY <1>1 DEF Time!StartStopwatch
  <2>2. Time!StopwatchTotal \in Int
    BY DEF ClockInv, ClockTypes, Time!StopwatchTotal
  <2>3. stopwatch' \in [started : Nat \union {-1}, base : Int]
    BY <1>1, <2>2 DEF Time!StartStopwatch, ClockInv, ClockTypes
  <2>4. Time!StopwatchTotal' = Time!StopwatchTotal
    BY <1>1, <2>1, <2>2 DEF Time!StartStopwatch, ClockInv, ClockTypes, Time!StopwatchTotal
  <2>5. QED
    BY <2>1, <2>3, <2>4 DEF ClockInv, ClockTypes, CountsAreTrue, RungIsKept, Time!Key
<1>2. CASE Time!ResetStopwatch
  BY <1>2 DEF Time!ResetStopwatch, ClockInv, ClockTypes, CountsAreTrue, Time!StopwatchTotal, RungIsKept, Time!Key
<1>3. ASSUME NEW l \in FieldLengths, Time!SetField(l) PROVE ClockInv'
  BY <1>3, ClockAssumption DEF ClockAssumption, Time!SetField, ClockInv, ClockTypes, CountsAreTrue, Time!StopwatchTotal, RungIsKept, Time!Key
<1>4. ASSUME UNCHANGED <<now, field, countdown, stopwatch, lastAlarmKey, measured>> PROVE ClockInv'
  BY <1>4 DEF ClockInv, ClockTypes, CountsAreTrue, Time!StopwatchTotal, RungIsKept, Time!Key
<1>5. QED
  BY <1>1, <1>2, <1>3, <1>4 DEF Time!AddAlarm, Time!DeleteAlarm

\* Half a second passes.
LEMMA HalfKeeps ==
    ASSUME ClockInv, Time!Half
    PROVE  ClockInv'
<1> DEFINE tick == now' % 2 = 0
           again == IF Time!Key' = Time!Key THEN measured.rings ELSE 0
           rung == tick /\ Time!Rings
<1>1. now' = now + 1 /\ UNCHANGED <<field, stopwatch>>
  BY DEF Time!Half
<1>2. IF tick THEN Time!AlarmTick ELSE UNCHANGED lastAlarmKey
  BY DEF Time!Half
<1>3. countdown' = IF tick /\ countdown.running THEN Time!TimerTicked(countdown, now') ELSE countdown
  BY DEF Time!Half
<1>4. /\ measured'.left = IF countdown.running /\ measured.left > 0 THEN measured.left - 1
                          ELSE measured.left
      /\ measured'.watch = measured.watch + IF stopwatch.started = -1 THEN 0 ELSE 1
      /\ measured'.rings = again + IF rung THEN 1 ELSE 0
      /\ measured' = [left |-> measured'.left, watch |-> measured'.watch, rings |-> measured'.rings]
  BY DEF Time!Half
<1>5. lastAlarmKey' = IF rung THEN Time!Key' ELSE lastAlarmKey
  BY <1>2 DEF Time!AlarmTick
<1>6. rung => Time!Key' # lastAlarmKey
  BY DEF Time!Rings
<1>7. measured'.rings \in {0, 1} /\ (measured'.rings = 1 => lastAlarmKey' = Time!Key')
  <2>1. measured.rings \in {0, 1} /\ (measured.rings = 1 => lastAlarmKey = Time!Key)
    BY DEF ClockInv, ClockTypes, RungIsKept
  <2> HIDE DEF rung
  <2>2. QED
    BY <1>4, <1>5, <1>6, <2>1
<1>8. countdown' \in [running : BOOLEAN, target : Nat, remaining : Nat]
  BY <1>3 DEF Time!TimerTicked, ClockInv, ClockTypes
<1>9. measured'.left \in Nat /\ measured'.watch \in Int
  BY <1>4 DEF ClockInv, ClockTypes
<1>10. CountsAreTrue'
  <2>1. measured'.watch = Time!StopwatchTotal'
    BY <1>1, <1>4 DEF ClockInv, ClockTypes, CountsAreTrue, Time!StopwatchTotal
  <2> HIDE DEF tick, again, rung
  <2>2. CASE countdown.running
    BY <1>1, <1>3, <1>4, <2>1, <2>2 DEF Time!TimerTicked, ClockInv, ClockTypes, CountsAreTrue
  <2>3. CASE ~countdown.running
    BY <1>1, <1>3, <1>4, <2>1, <2>3 DEF ClockInv, ClockTypes, CountsAreTrue
  <2>4. QED
    BY <2>2, <2>3
<1>11. ClockTypes'
  <2> HIDE DEF tick, again, rung
  <2>1. measured' \in [left : Nat, watch : Int, rings : {0, 1}]
    BY <1>4, <1>7, <1>9
  <2>2. QED
    BY <1>1, <1>8, <2>1 DEF ClockInv, ClockTypes
<1>12. QED
  BY <1>7, <1>10, <1>11 DEF ClockInv, RungIsKept

\* The invariant holds.
LEMMA ClockInvHolds == Spec => []ClockInv
<1>1. Init => ClockInv
  BY ClockAssumption DEF ClockAssumption, Init, Time!Init, ClockInv, ClockTypes, CountsAreTrue, Time!StopwatchTotal, RungIsKept
<1>2. ClockInv /\ [Next]_vars => ClockInv'
  <2>1. SUFFICES ASSUME ClockInv, [Time!Next]_clockVars PROVE ClockInv'
    BY ClockAlone
  <2>2. CASE UNCHANGED clockVars
    BY <2>1, <2>2 DEF clockVars, ClockInv, ClockTypes, CountsAreTrue, Time!StopwatchTotal, RungIsKept, Time!Key
  <2>3. CASE Time!Next
    BY <2>1, <2>3, CountdownKeeps, OtherButtonsKeep, HalfKeeps DEF Time!Next
  <2>4. QED
    BY <2>1, <2>2, <2>3
<1>3. QED
  BY <1>1, <1>2, PTL DEF Spec

\* The countdown has left its length less the time it ran, the stopwatch shows the
\* time it ran, and the alarms of a minute ring once (startTimer, pauseTimer,
\* onTimerTick, startStopwatch and alarmDue of ClockWindow).
THEOREM TimesStayTrue == Spec => []TimesAreTrue
<1>1. ClockInv => TimesAreTrue
  BY DEF TimesAreTrue, ClockInv, ClockTypes, CountsAreTrue, Time!TimesAreTrue
<1>2. QED
  BY <1>1, ClockInvHolds, PTL

-----------------------------------------------------------------------------
(* RemoteDesktop: any hosts that may be typed.                             *)

\* Steps of the composition are steps of the remote desktop.
LEMMA RdpAlone ==
    ASSUME [Next]_vars
    PROVE  [Rdp!Next]_rdpVars
BY DEF Next, vars, TasksStep, FilesStep, SearchStep, CalendarStep, TerminalStep, DocumentsStep,
       ExplorerStep, ClockStep, AppsStep, SystemStep, NetworkStep, RemoteStep, ShotStep,
       ViewerStep, StoreStep, KeyboardStep, CalcStep, Alone

\* The button that is offered tells whether there is a process, and only a window
\* that is up asks whether to close, or has a process behind it.
RdpInv ==
    /\ client \in {"present", "broken", "absent"}
    /\ proc \in {"none", "starting", "running"}
    /\ rdpWindow \in [up : BOOLEAN, asking : BOOLEAN, connect : BOOLEAN, disconnect : BOOLEAN]
    /\ rdpWindow.disconnect = ~rdpWindow.connect
    /\ proc # "none" \/ rdpWindow.asking => rdpWindow.up
    /\ proc # "none" => rdpWindow.disconnect

\* What the user and the client process do.
LEMMA ProcessKeeps ==
    ASSUME RdpInv,
           \/ \E c \in {"present", "broken", "absent"} : Rdp!Install(c)
           \/ \E h \in Hosts \union {BlankField}, p \in {BlankField, "password"}, remember \in BOOLEAN :
                 Rdp!Fill(h, p, remember)
           \/ Rdp!Started \/ Rdp!FailedToStart \/ Rdp!Finished
    PROVE  RdpInv'
<1>1. ASSUME NEW c \in {"present", "broken", "absent"}, Rdp!Install(c) PROVE RdpInv'
  BY <1>1 DEF Rdp!Install, RdpInv
<1>2. ASSUME NEW h, NEW p, NEW remember, Rdp!Fill(h, p, remember) PROVE RdpInv'
  BY <1>2 DEF Rdp!Fill, RdpInv
<1>3. CASE Rdp!Started
  BY <1>3 DEF Rdp!Started, RdpInv
<1>4. CASE Rdp!FailedToStart
  BY <1>4 DEF Rdp!FailedToStart, RdpInv
<1>5. CASE Rdp!Finished
  BY <1>5 DEF Rdp!Finished, Rdp!UpdateUi, RdpInv
<1>6. QED
  BY <1>1, <1>2, <1>3, <1>4, <1>5

\* What the window does.
LEMMA WindowKeeps ==
    ASSUME RdpInv,
           \/ Rdp!OnConnect \/ Rdp!OnDisconnect \/ Rdp!OnSave \/ Rdp!CloseEvent
           \/ \E yes \in BOOLEAN : Rdp!Answer(yes)
           \/ Rdp!Open
    PROVE  RdpInv'
<1>1. CASE Rdp!OnConnect
  <2>1. UNCHANGED client
    BY <1>1 DEF Rdp!OnConnect
  <2>2. CASE UNCHANGED <<proc, rdpWindow>>
    BY <2>1, <2>2 DEF RdpInv
  <2>3. CASE ~UNCHANGED <<proc, rdpWindow>>
    <3>1. rdpWindow.connect /\ rdpWindow.up
      BY <1>1 DEF Rdp!OnConnect, Rdp!Works
    <3>2. proc = "none"
      BY <3>1 DEF RdpInv
    <3>3. proc' = "starting" /\ rdpWindow' = Rdp!UpdateUi(rdpWindow, "starting")
      BY <1>1, <2>3, <3>2 DEF Rdp!OnConnect, Rdp!Stopped
    <3>4. QED
      BY <2>1, <3>1, <3>3 DEF Rdp!UpdateUi, RdpInv
  <2>4. QED
    BY <2>2, <2>3
<1>2. CASE Rdp!OnDisconnect
  <2>1. UNCHANGED client /\ rdpWindow.up /\ proc' \in {"none", "running"}
    BY <1>2 DEF Rdp!OnDisconnect, Rdp!Works, Rdp!Stopped
  <2>2. rdpWindow' = Rdp!UpdateUi(rdpWindow, proc')
    BY <1>2 DEF Rdp!OnDisconnect
  <2>3. QED
    BY <2>1, <2>2 DEF Rdp!UpdateUi, RdpInv
<1>3. CASE Rdp!OnSave
  BY <1>3 DEF Rdp!OnSave, RdpInv
<1>4. CASE Rdp!CloseEvent
  BY <1>4 DEF Rdp!CloseEvent, Rdp!Works, RdpInv
<1>5. ASSUME NEW yes \in BOOLEAN, Rdp!Answer(yes) PROVE RdpInv'
  <2>1. CASE yes = TRUE
    BY <1>5, <2>1 DEF Rdp!Answer, RdpInv
  <2>2. CASE yes = FALSE
    BY <1>5, <2>2 DEF Rdp!Answer, RdpInv
  <2>3. QED
    BY <2>1, <2>2
<1>6. CASE Rdp!Open
  BY <1>6 DEF Rdp!Open, Rdp!NewWindow, RdpInv
<1>7. QED
  BY <1>1, <1>2, <1>3, <1>4, <1>5, <1>6

\* The invariant holds.
LEMMA RdpInvHolds == Spec => []RdpInv
<1>1. Init => RdpInv
  <2>1. Rdp!NewWindow \in [up : BOOLEAN, asking : BOOLEAN, connect : BOOLEAN, disconnect : BOOLEAN]
    BY DEF Rdp!NewWindow
  <2>2. Rdp!NewWindow.up /\ ~Rdp!NewWindow.asking /\ Rdp!NewWindow.connect = TRUE /\ Rdp!NewWindow.disconnect = FALSE
    BY DEF Rdp!NewWindow
  <2>3. QED
    BY <2>1, <2>2 DEF Init, Rdp!Init, RdpInv
<1>2. RdpInv /\ [Next]_vars => RdpInv'
  <2>1. SUFFICES ASSUME RdpInv, [Rdp!Next]_rdpVars PROVE RdpInv'
    BY RdpAlone
  <2>2. CASE UNCHANGED rdpVars
    BY <2>1, <2>2 DEF rdpVars, RdpInv
  <2>3. CASE Rdp!Next
    BY <2>1, <2>3, ProcessKeeps, WindowKeeps DEF Rdp!Next
  <2>4. QED
    BY <2>1, <2>2, <2>3
<1>3. QED
  BY <1>1, <1>2, PTL DEF Spec

\* A client process, also one that outlives being killed, can always be ended from a
\* window that offers it, and no second one is started beside it (RdpWindow::onConnect,
\* onDisconnect, closeEvent and updateUi, RdpClient::stop).
THEOREM SessionStaysEndable == Spec => []SessionCanBeEnded
<1>1. RdpInv => SessionCanBeEnded
  BY DEF SessionCanBeEnded, RdpInv, Rdp!SessionCanBeEnded
<1>2. QED
  BY <1>1, RdpInvHolds, PTL

-----------------------------------------------------------------------------
(* The software centre.                                                    *)

StoreIdSet == {StoreIds[i] : i \in DOMAIN StoreIds}

\* What is listed is an application in one of the directories; one that is shown is
\* selected, the button is that of the selected one unless a removal failed, and a question
\* is about the selected one, a Flatpak, while the list under it is still there.
StoreInv ==
    /\ \A id \in DOMAIN listed : id \in StoreIdSet /\ \E n \in 1..4 : listed[id] = Software!Dirs[n]
    /\ IF DOMAIN listed \intersect filter = {} THEN chosen = Absent
       ELSE chosen \in DOMAIN listed \intersect filter
    /\ canUninstall /\ storeStatus \notin {"failed", "refused"} =>
           chosen # Absent /\ listed[chosen] \in Software!Flatpaks
    /\ question # Absent /\ ~stale => question = chosen /\ listed[chosen] \in Software!Flatpaks

\* The smallest number with a property.
LEMMA SoftwareMin ==
    ASSUME NEW S, S \subseteq Nat, S # {}
    PROVE  Software!Min(S) \in S /\ \A n \in S : Software!Min(S) <= n
<1>1. \E x \in S : \A y \in S : x <= y
  BY SmallestExists
<1>2. QED
  BY <1>1 DEF Software!Min

\* The list of what is installed has applications of the directories.
LEMMA InstalledListed ==
    ASSUME NEW d
    PROVE  \A id \in DOMAIN Software!ListInstalled(d) :
               id \in StoreIdSet /\ \E n \in 1..4 : Software!ListInstalled(d)[id] = Software!Dirs[n]
<1> DEFINE Has(id) == {n \in DOMAIN Software!Dirs : <<Software!Dirs[n], id>> \in DOMAIN d}
           found == {id \in Software!Range(StoreIds) :
                       \E n \in DOMAIN Software!Dirs : <<Software!Dirs[n], id>> \in DOMAIN d}
           L == Software!ListInstalled(d)
<1>1. /\ DOMAIN L \subseteq found
      /\ \A id \in DOMAIN L : L[id] = Software!Dirs[Software!Min(Has(id))]
  BY DEF Software!ListInstalled
<1>2. DOMAIN Software!Dirs = 1..4
  BY DEF Software!Dirs
<1>3. Software!Range(StoreIds) = StoreIdSet
  BY DEF Software!Range, StoreIdSet
<1>4. ASSUME NEW id \in DOMAIN L PROVE id \in StoreIdSet /\ \E n \in 1..4 : L[id] = Software!Dirs[n]
  <2>1. Has(id) # {} /\ Has(id) \subseteq 1..4 /\ Has(id) \subseteq Nat
    BY <1>1, <1>2
  <2> HIDE DEF Has
  <2>2. Software!Min(Has(id)) \in 1..4
    BY <2>1, SoftwareMin
  <2>3. QED
    BY <1>1, <1>3, <2>2
<1>5. QED
  BY <1>4

\* A set of listed applications has a first one.
LEMMA FirstExists ==
    ASSUME NEW S, S # {},
           \A id \in S : id \in StoreIdSet /\ \E n \in 1..4 : listed'[id] = Software!Dirs[n]
    PROVE  Software!FirstOf(S) \in S
<1> DEFINE P(i) == {n \in DOMAIN Software!Dirs : Software!Dirs[n] = listed'[i]}
           Q(i) == {n \in DOMAIN StoreIds : StoreIds[n] = i}
           D(i) == Software!Min(P(i))
           N(i) == Software!Min(Q(i))
<1>1. DOMAIN Software!Dirs = 1..4
  BY DEF Software!Dirs
<1>2. DOMAIN StoreIds = 1..Len(StoreIds) /\ Len(StoreIds) \in Nat
  BY StoreAssumption, LenProperties DEF StoreAssumption
<1>3. ASSUME NEW i \in S PROVE D(i) \in Nat /\ N(i) \in Nat
  <2>1. P(i) # {} /\ P(i) \subseteq Nat
    BY <1>1
  <2>2. Q(i) # {} /\ Q(i) \subseteq Nat
    BY <1>2 DEF StoreIdSet
  <2> HIDE DEF P, Q
  <2>3. QED
    BY <2>1, <2>2, SoftwareMin
<1> HIDE DEF D, N
<1> DEFINE Ds == {D(i) : i \in S}
<1>4. Ds \subseteq Nat /\ Ds # {}
  BY <1>3
<1>5. PICK d \in Ds : \A e \in Ds : d <= e
  BY <1>4, SmallestExists
<1> DEFINE T == {i \in S : D(i) = d}
           Ns == {N(i) : i \in T}
<1>6. Ns \subseteq Nat /\ Ns # {}
  BY <1>3, <1>5
<1>7. PICK n \in Ns : \A m \in Ns : n <= m
  BY <1>6, SmallestExists
<1>8. PICK id \in T : N(id) = n
  BY <1>7
<1>9. ASSUME NEW other \in S PROVE D(id) < D(other) \/ (D(id) = D(other) /\ N(id) <= N(other))
  <2>1. D(id) <= D(other) /\ D(id) \in Nat /\ D(other) \in Nat
    BY <1>3, <1>5, <1>8
  <2>2. CASE D(other) = d
    BY <1>7, <1>8, <2>2
  <2>3. CASE D(other) # d
    BY <1>8, <2>1, <2>3
  <2>4. QED
    BY <2>2, <2>3
<1>10. \E x \in S : \A other \in S : D(x) < D(other) \/ (D(x) = D(other) /\ N(x) <= N(other))
  BY <1>8, <1>9
<1>11. QED
  BY <1>10, Zenon DEF Software!FirstOf, D, N

\* Initially every application is a Flatpak, and the first one is selected.
LEMMA StoreStart ==
    ASSUME Software!Init
    PROVE  StoreInv
<1> DEFINE Has(id) ==
             {n \in DOMAIN Software!Dirs : <<Software!Dirs[n], id>> \in DOMAIN desktopFiles}
           first == StoreIds[1]
<1>1. /\ desktopFiles = [f \in {<<"flatpak", id>> : id \in Software!Range(StoreIds)} |-> TRUE]
      /\ listed = Software!ListInstalled(desktopFiles) /\ filter = Software!Range(StoreIds)
      /\ chosen = first /\ question = Absent
  BY Zenon DEF Software!Init
<1>2. DOMAIN StoreIds = 1..Len(StoreIds) /\ Len(StoreIds) \in Nat /\ Len(StoreIds) # 0
  BY StoreAssumption, LenProperties, EmptySeq DEF StoreAssumption
<1>3. first \in Software!Range(StoreIds)
  BY <1>2 DEF Software!Range
<1>4. DOMAIN Software!Dirs = 1..4 /\ Software!Dirs[3] = "flatpak"
  BY DEF Software!Dirs
<1>5. Has(first) # {} /\ Has(first) \subseteq Nat
  <2>1. <<Software!Dirs[3], first>> \in DOMAIN desktopFiles
    BY <1>1, <1>3, <1>4
  <2>2. QED
    BY <1>4, <2>1
<1>6. first \in DOMAIN listed
  <2>1. Software!Min(Has(first)) \in Has(first)
    BY <1>5, SoftwareMin
  <2>2. desktopFiles[<<Software!Dirs[Software!Min(Has(first))], first>>]
    BY <1>1, <2>1
  <2>3. \E n \in DOMAIN Software!Dirs : <<Software!Dirs[n], first>> \in DOMAIN desktopFiles
    BY <1>5
  <2>4. QED
    BY <1>1, <1>3, <2>2, <2>3, Zenon DEF Software!ListInstalled
<1>7. listed[first] \in Software!Flatpaks
  <2>1. listed[first] = Software!Dirs[Software!Min(Has(first))]
    BY <1>1, <1>6, Zenon DEF Software!ListInstalled
  <2>2. Software!Min(Has(first)) \in Has(first)
    BY <1>5, SoftwareMin
  <2>3. Software!Dirs[Software!Min(Has(first))] = "flatpak"
    BY <1>1, <2>2
  <2>4. QED
    BY <2>1, <2>3 DEF Software!Flatpaks
<1>8. first # Absent
  BY <1>2, StoreAssumption DEF StoreAssumption
<1>9. DOMAIN listed \intersect filter # {} /\ chosen \in DOMAIN listed \intersect filter
  BY <1>1, <1>3, <1>6
<1>10. \A id \in DOMAIN listed :
         id \in StoreIdSet /\ \E n \in 1..4 : listed[id] = Software!Dirs[n]
  BY <1>1, InstalledListed, Zenon
<1>11. QED
  BY <1>1, <1>7, <1>8, <1>9, <1>10, Zenon DEF StoreInv

\* Filling the list anew selects one of it, if there is one, and the button is its.
LEMMA RebuiltKeeps ==
    ASSUME NEW s, Software!RebuildList(s),
           \A id \in DOMAIN listed' :
             id \in StoreIdSet /\ \E n \in 1..4 : listed'[id] = Software!Dirs[n]
    PROVE  /\ IF DOMAIN listed' \intersect filter' = {} THEN chosen' = Absent
              ELSE chosen' \in DOMAIN listed' \intersect filter'
           /\ canUninstall' => chosen' # Absent /\ listed'[chosen'] \in Software!Flatpaks
<1> DEFINE L == DOMAIN listed' \intersect filter'
<1>1. CASE L = {}
  <2>1. chosen' = Absent /\ canUninstall' = FALSE
    BY <1>1, Zenon DEF Software!RebuildList
  <2>2. QED
    BY <1>1, <2>1
<1>2. CASE L # {}
  <2>1. /\ chosen' = Software!FirstOf(L)
        /\ canUninstall' = (listed'[chosen'] \in Software!Flatpaks)
    BY <1>2, Zenon DEF Software!RebuildList, Software!Select, Software!Removable
  <2>2. Software!FirstOf(L) \in L
    BY <1>2, FirstExists
  <2>3. chosen' \in StoreIdSet
    BY <2>1, <2>2
  <2>4. chosen' # Absent
    BY <2>3, StoreAssumption DEF StoreAssumption, StoreIdSet
  <2>5. QED
    BY <1>2, <2>1, <2>2, <2>4, Zenon
<1>3. QED
  BY <1>1, <1>2

\* Each step of the window, of the process and of others keeps it.
LEMMA StoreStepKeeps ==
    ASSUME StoreInv, [Software!Next]_storeVars
    PROVE  StoreInv'
<1>1. ASSUME NEW ids, Software!Search(ids) PROVE StoreInv'
  <2>1. /\ UNCHANGED <<listed, question>> /\ question = Absent
        /\ Software!RebuildList(storeStatus)
    BY <1>1, Zenon DEF Software!Search, Software!Input
  <2>2. \A id \in DOMAIN listed' :
          id \in StoreIdSet /\ \E n \in 1..4 : listed'[id] = Software!Dirs[n]
    BY <2>1, Zenon DEF StoreInv
  <2>3. QED
    BY <2>1, <2>2, RebuiltKeeps, Zenon DEF StoreInv
<1>2. ASSUME NEW id, Software!OnAppSelected(id) PROVE StoreInv'
  <2>1. /\ UNCHANGED <<listed, filter, question>> /\ question = Absent /\ chosen' = id
        /\ id \in DOMAIN listed \intersect filter
        /\ canUninstall' = (listed'[id] \in Software!Flatpaks)
    BY <1>2, Zenon DEF Software!OnAppSelected, Software!Input, Software!Select,
           Software!Removable
  <2>2. id # Absent
    <3>1. id \in StoreIdSet
      BY <2>1 DEF StoreInv
    <3>2. QED
      BY <3>1, StoreAssumption DEF StoreAssumption, StoreIdSet
  <2>3. QED
    BY <2>1, <2>2 DEF StoreInv
<1>3. CASE Software!PressUninstall
  <2>1. UNCHANGED <<listed, filter, chosen, canUninstall>> /\ question = Absent
    BY <1>3, Zenon DEF Software!PressUninstall, Software!Input
  <2>2. \/ /\ question' = chosen /\ listed[chosen] \in Software!Flatpaks
           /\ UNCHANGED storeStatus
        \/ UNCHANGED question /\ storeStatus' = "refused"
    BY <1>3, Zenon DEF Software!PressUninstall
  <2>3. QED
    BY <2>1, <2>2 DEF StoreInv
<1>4. CASE Software!No
  <2>1. UNCHANGED <<listed, filter, chosen, canUninstall, storeStatus>> /\ question' = Absent
    BY <1>4, Zenon DEF Software!No
  <2>2. QED
    BY <2>1 DEF StoreInv
<1>5. CASE Software!Yes
  <2>1. /\ UNCHANGED <<listed, filter, chosen>> /\ question' = Absent
        /\ canUninstall' = FALSE
    BY <1>5, Zenon DEF Software!Yes
  <2>2. QED
    BY <2>1 DEF StoreInv
<1>6. ASSUME NEW ok \in BOOLEAN, Software!OnUninstallFinished(ok) PROVE StoreInv'
  <2>1. question' = question
    BY <1>6, Zenon DEF Software!OnUninstallFinished
  <2>2. CASE ok
    <3>1. /\ listed' = Software!ListInstalled(desktopFiles') /\ Software!RebuildList("removed")
          /\ stale' = TRUE
      BY <1>6, <2>2, Zenon DEF Software!OnUninstallFinished
    <3>2. \A id \in DOMAIN listed' :
            id \in StoreIdSet /\ \E n \in 1..4 : listed'[id] = Software!Dirs[n]
      BY <3>1, InstalledListed, Zenon
    <3>3. QED
      BY <3>1, <3>2, RebuiltKeeps, Zenon DEF StoreInv
  <2>3. CASE ~ok
    <3>1. UNCHANGED <<listed, filter, chosen, stale>> /\ storeStatus' = "failed"
      BY <1>6, <2>3, Zenon DEF Software!OnUninstallFinished
    <3>2. QED
      BY <2>1, <3>1 DEF StoreInv
  <2>4. QED
    BY <2>2, <2>3
<1>7. ASSUME UNCHANGED <<listed, filter, chosen, canUninstall, question, stale, storeStatus>>
      PROVE  StoreInv'
  BY <1>7 DEF StoreInv
<1>8. CASE Software!FailedToStart
  BY <1>7, <1>8, Zenon DEF Software!FailedToStart
<1>9. ASSUME NEW dir, NEW id, NEW s, Software!Install(dir, id, s) PROVE StoreInv'
  BY <1>7, <1>9, Zenon DEF Software!Install
<1>10. CASE UNCHANGED storeVars
  BY <1>7, <1>10, Zenon DEF storeVars
<1>11. QED
  BY <1>1, <1>2, <1>3, <1>4, <1>5, <1>6, <1>8, <1>9, <1>10, Zenon DEF Software!Next

\* What is selected is one of the list, and the button and the question are about it.
LEMMA StoreTrue ==
    ASSUME StoreInv
    PROVE  Software!SelectedIsListed
BY Zenon DEF StoreInv, Software!SelectedIsListed

-----------------------------------------------------------------------------
(* The on-screen keyboard.                                                 *)

\* The lock that a press made stays while the press is down.
CapsLocked(c, on) == c = [locked |-> on, down |-> 0, unlocks |-> FALSE]
CapsDown(c, on)   == c = [locked |-> TRUE, down |-> 1, unlocks |-> ~on]

CapsKey == "Caps_Lock"
KeyUp(k) == <<k, FALSE>>

\* Until the two records part they agree: on each modifier, and on the lock, which the
\* release under way completes; a record of another keymap holds nothing.
OskAgrees ==
    /\ injectKeymap = keymap \/ (down = Osk!NoneDown /\ caps = Osk!NoCaps)
    /\ \A m \in Osk!Modifiers : down[m] = IF m \in heldMods THEN 1 ELSE 0
    /\ pending = KeyUp(CapsKey) => CapsDown(caps, capsLocked)
    /\ pending # KeyUp(CapsKey) => CapsLocked(caps, capsLocked)

OskInv ==
    /\ DOMAIN down = Osk!Modifiers
    /\ heldMods \subseteq Osk!Modifiers
    /\ capsLocked \in BOOLEAN /\ parted \in BOOLEAN
    /\ pending = <<>> \/ \E k \in Osk!Chars \union {CapsKey} : pending = KeyUp(k)
    /\ shiftPressed = (heldMods \intersect Osk!Shifts # {})
    /\ labels = Osk!Layout(shiftPressed # capsLocked)
    /\ ~parted => OskAgrees

\* Initially nothing is held.
LEMMA OskStart ==
    ASSUME Osk!Init
    PROVE  OskInv
<1>1. /\ heldMods = {} /\ parted = FALSE /\ shiftPressed = FALSE /\ capsLocked = FALSE
      /\ labels = Osk!Layout(FALSE)
      /\ down = Osk!NoneDown /\ caps = Osk!NoCaps /\ pending = <<>>
  BY Zenon DEF Osk!Init
<1>2. DOMAIN down = Osk!Modifiers /\ \A m \in Osk!Modifiers : down[m] = 0
  BY <1>1, Zenon DEF Osk!NoneDown
<1>3. (shiftPressed # capsLocked) = FALSE
  <2>1. (FALSE # FALSE) = FALSE
    OBVIOUS
  <2>2. QED
    BY <1>1, <2>1, Zenon
<1>4. Osk!Layout(shiftPressed # capsLocked) = Osk!Layout(FALSE)
  BY <1>3, Zenon
<1>5. shiftPressed = (heldMods \intersect Osk!Shifts # {})
  BY <1>1
<1>6. CapsLocked(caps, capsLocked)
  BY <1>1, Zenon DEF CapsLocked, Osk!NoCaps
<1>7. pending # KeyUp(CapsKey)
  BY <1>1 DEF KeyUp
<1>8. OskAgrees
  BY <1>1, <1>2, <1>6, <1>7, Zenon DEF OskAgrees
<1>9. QED
  BY <1>1, <1>2, <1>4, <1>5, <1>8 DEF OskInv

\* What a call that is carried out does to a record that agrees: nothing is thrown away.
LEMMA Injected ==
    ASSUME DOMAIN down = Osk!Modifiers, OskAgrees, NEW k, NEW press \in BOOLEAN,
           Osk!SeatInjectKey(k, press)
    PROVE  /\ injectKeymap' = keymap' /\ keymap' = keymap
           /\ down' = IF ~Osk!IsModifier(k) THEN down
                      ELSE [down EXCEPT ![k] = IF press THEN @ + 1 ELSE IF @ > 0 THEN @ - 1 ELSE 0]
           /\ caps' = IF k = CapsKey THEN Osk!CapsAfter(caps, press) ELSE caps
<1>1. /\ (IF injectKeymap = keymap THEN down ELSE Osk!NoneDown) = down
      /\ (IF injectKeymap = keymap THEN caps ELSE Osk!NoCaps) = caps
  BY Zenon DEF OskAgrees
<1>2. QED
  BY <1>1, Zenon DEF Osk!SeatInjectKey, CapsKey

\* The record is one of the modifiers, whatever is injected.
LEMMA ModifiersStay ==
    ASSUME DOMAIN down = Osk!Modifiers, NEW k, NEW press \in BOOLEAN, NEW answered \in BOOLEAN,
           Osk!InjectKey(k, press, answered)
    PROVE  DOMAIN down' = Osk!Modifiers
<1>1. CASE Osk!SeatInjectKey(k, press)
  BY <1>1 DEF Osk!SeatInjectKey, Osk!NoneDown
<1>2. CASE UNCHANGED Osk!seatKeys
  BY <1>2, Zenon DEF Osk!seatKeys
<1>3. QED
  BY <1>1, <1>2, Zenon DEF Osk!InjectKey

\* Parted is true or false.
LEMMA PartedStays ==
    ASSUME parted \in BOOLEAN, NEW k, NEW press \in BOOLEAN, NEW answered \in BOOLEAN,
           Osk!InjectKey(k, press, answered)
    PROVE  parted' \in BOOLEAN
<1>1. \/ parted' = parted \/ parted' = TRUE
      \/ parted' = (parted \/ (k = "Caps_Lock" /\ ~press))
  BY Zenon DEF Osk!InjectKey
<1>2. QED
  BY <1>1

\* A call that is refused, or not answered in time.
LEMMA Unanswered ==
    ASSUME NEW k, NEW press \in BOOLEAN, Osk!InjectKey(k, press, FALSE), parted \in BOOLEAN
    PROVE  \/ parted'
           \/ /\ UNCHANGED Osk!seatKeys /\ parted' = parted
              /\ ~(k = CapsKey /\ ~press)
<1>1. CASE k = CapsKey /\ ~press
  BY <1>1, Zenon DEF Osk!InjectKey, CapsKey
<1>2. CASE ~(k = CapsKey /\ ~press)
  <2>1. \/ parted' = TRUE
        \/ UNCHANGED Osk!seatKeys /\ parted' = (parted \/ FALSE)
    BY <1>2, Zenon DEF Osk!InjectKey, CapsKey
  <2>2. (parted \/ FALSE) = parted
    OBVIOUS
  <2>3. QED
    BY <1>2, <2>1, <2>2, Zenon
<1>3. QED
  BY <1>1, <1>2

\* A call that is answered was carried out.
LEMMA Answered ==
    ASSUME NEW k, NEW press \in BOOLEAN, Osk!InjectKey(k, press, TRUE)
    PROVE  Osk!SeatInjectKey(k, press) /\ parted' = parted
BY DEF Osk!InjectKey

\* Caps Lock pressed: what its release does depends on what it found.
LEMMA CapsPressed ==
    ASSUME NEW c, NEW on \in BOOLEAN, CapsLocked(c, on)
    PROVE  CapsDown(Osk!CapsAfter(c, TRUE), ~on)
<1>1. c.down = 0 /\ c.locked = on
  BY DEF CapsLocked
<1>2. Osk!CapsAfter(c, TRUE) = [locked |-> TRUE, down |-> 1, unlocks |-> on]
  BY <1>1 DEF Osk!CapsAfter
<1>3. (~~on) = on
  OBVIOUS
<1>4. QED
  BY <1>2, <1>3, Zenon DEF CapsDown

\* Caps Lock released.
LEMMA CapsReleased ==
    ASSUME NEW c, NEW on \in BOOLEAN, CapsDown(c, on)
    PROVE  CapsLocked(Osk!CapsAfter(c, FALSE), on)
<1>1. c.down = 1 /\ c.locked = TRUE /\ c.unlocks = ~on
  BY DEF CapsDown
<1>2. Osk!CapsAfter(c, FALSE) =
          [locked |-> c.locked /\ ~(c.down = 1 /\ c.unlocks), down |-> 0, unlocks |-> FALSE]
  BY <1>1 DEF Osk!CapsAfter
<1>3. (c.locked /\ ~(c.down = 1 /\ c.unlocks)) = on
  <2>1. CASE on = TRUE
    <3>1. c.unlocks = FALSE
      BY <1>1, <2>1
    <3>2. QED
      BY <1>1, <2>1, <3>1
  <2>2. CASE on = FALSE
    <3>1. c.unlocks = TRUE
      BY <1>1, <2>2
    <3>2. QED
      BY <1>1, <2>2, <3>1
  <2>3. QED
    BY <2>1, <2>2
<1>4. QED
  BY <1>2, <1>3, Zenon DEF CapsLocked

\* A modifier clicked: both records hold it, or neither does.
LEMMA ModifierKeeps ==
    ASSUME OskInv, NEW k, Osk!ClickModifier(k)
    PROVE  OskInv'
<1>1. PICK answered \in BOOLEAN :
         /\ Osk!InjectKey(k, k \notin heldMods, answered)
         /\ IF ~answered THEN UNCHANGED <<heldMods, shiftPressed, labels>>
            ELSE /\ heldMods' = IF k \in heldMods THEN heldMods \ {k} ELSE heldMods \union {k}
                 /\ shiftPressed' = (heldMods' \intersect Osk!Shifts # {})
                 /\ labels' = IF k \in Osk!Shifts THEN Osk!Layout(shiftPressed' # capsLocked)
                              ELSE labels
  BY Zenon DEF Osk!ClickModifier
<1>2. /\ pending = <<>> /\ pending' = pending /\ capsLocked' = capsLocked /\ k \in Osk!Modifiers
      /\ pending # KeyUp(CapsKey)
  <2>1. /\ pending = <<>> /\ pending' = pending /\ capsLocked' = capsLocked /\ k \in Osk!Modifiers
    BY Zenon DEF Osk!ClickModifier, Osk!Idle, Osk!IsModifier
  <2>2. QED
    BY <2>1 DEF KeyUp
<1>3. DOMAIN down' = Osk!Modifiers
  BY <1>1, ModifiersStay, Zenon DEF OskInv
<1>4. CASE ~answered
  <2>1. Osk!InjectKey(k, k \notin heldMods, FALSE)
    <3>1. answered = FALSE
      BY <1>4
    <3>2. QED
      BY <1>1, <3>1, Zenon
  <2>2. parted' \in BOOLEAN /\ (parted' \/ (UNCHANGED Osk!seatKeys /\ parted' = parted))
    <3>1. parted \in BOOLEAN /\ (k \notin heldMods) \in BOOLEAN
      BY DEF OskInv
    <3>2. parted' \in BOOLEAN
      BY <2>1, <3>1, PartedStays, Zenon
    <3>3. QED
      BY <2>1, <3>1, <3>2, Unanswered, Zenon
  <2>3. OskAgrees /\ UNCHANGED Osk!seatKeys => OskAgrees'
    BY <1>1, <1>2, <1>4, Zenon DEF OskAgrees, Osk!seatKeys
  <2>4. ASSUME ~parted' PROVE OskAgrees'
    <3>1. UNCHANGED Osk!seatKeys /\ parted' = parted
      BY <2>2, <2>4
    <3>2. ~parted
      BY <2>4, <3>1
    <3>3. QED
      BY <2>3, <3>1, <3>2, Zenon DEF OskInv
  <2>5. UNCHANGED <<heldMods, shiftPressed, labels>>
    BY <1>1, <1>4
  <2>6. QED
    BY <1>2, <1>3, <2>2, <2>4, <2>5, Zenon DEF OskInv
<1>5. CASE answered
  <2>0. Osk!InjectKey(k, k \notin heldMods, TRUE) /\ (k \notin heldMods) \in BOOLEAN
    <3>1. answered = TRUE /\ (k \notin heldMods) \in BOOLEAN
      BY <1>5
    <3>2. QED
      BY <1>1, <3>1, Zenon
  <2>1. Osk!SeatInjectKey(k, k \notin heldMods) /\ parted' = parted
    BY <2>0, Answered, Zenon
  <2>2. heldMods' = IF k \in heldMods THEN heldMods \ {k} ELSE heldMods \union {k}
    BY <1>1, <1>5
  <2>3. heldMods' \subseteq Osk!Modifiers
    BY <1>2, <2>2 DEF OskInv
  <2>4. shiftPressed' = (heldMods' \intersect Osk!Shifts # {})
    BY <1>1, <1>5
  <2>5. labels' = Osk!Layout(shiftPressed' # capsLocked')
    <3>1. CASE k \in Osk!Shifts
      BY <1>1, <1>2, <1>5, <3>1, Zenon
    <3>2. CASE k \notin Osk!Shifts
      <4>1. heldMods' \intersect Osk!Shifts = heldMods \intersect Osk!Shifts
        BY <2>2, <3>2
      <4>2. shiftPressed' = shiftPressed
        BY <2>4, <4>1, Zenon DEF OskInv
      <4>3. labels' = labels
        BY <1>1, <1>5, <3>2
      <4>4. QED
        BY <1>2, <4>2, <4>3, Zenon DEF OskInv
    <3>3. QED
      BY <3>1, <3>2
  <2>6. ASSUME ~parted PROVE OskAgrees'
    <3>1. OskAgrees
      BY <2>6, Zenon DEF OskInv
    <3>2. /\ injectKeymap' = keymap'
          /\ down' = IF ~Osk!IsModifier(k) THEN down
                     ELSE [down EXCEPT ![k] = IF k \notin heldMods THEN @ + 1
                                              ELSE IF @ > 0 THEN @ - 1 ELSE 0]
          /\ caps' = IF k = CapsKey THEN Osk!CapsAfter(caps, k \notin heldMods) ELSE caps
      <4>1. DOMAIN down = Osk!Modifiers /\ (k \notin heldMods) \in BOOLEAN
        BY DEF OskInv
      <4>2. QED
        BY <2>1, <3>1, <4>1, Injected, Zenon
    <3>3. caps' = caps
      BY <1>2, <3>2 DEF Osk!Modifiers, Osk!Shifts, CapsKey
    <3>4. \A m \in Osk!Modifiers : down[m] = IF m \in heldMods THEN 1 ELSE 0
      BY <3>1 DEF OskAgrees
    <3>5. \A m \in Osk!Modifiers : down'[m] = IF m \in heldMods' THEN 1 ELSE 0
      <4>1. down' = [down EXCEPT ![k] = IF k \notin heldMods THEN @ + 1
                                        ELSE IF @ > 0 THEN @ - 1 ELSE 0]
        BY <1>2, <3>2 DEF Osk!IsModifier
      <4>2. down'[k] = IF k \in heldMods' THEN 1 ELSE 0
        BY <1>2, <2>2, <3>4, <4>1 DEF OskInv
      <4>3. ASSUME NEW m \in Osk!Modifiers, m # k PROVE down'[m] = IF m \in heldMods' THEN 1 ELSE 0
        BY <2>2, <3>4, <4>1, <4>3 DEF OskInv
      <4>4. QED
        BY <4>2, <4>3
    <3>6. CapsLocked(caps, capsLocked)
      BY <1>2, <3>1, Zenon DEF OskAgrees
    <3>7. QED
      BY <1>2, <3>2, <3>3, <3>5, <3>6, Zenon DEF OskAgrees
  <2>7. QED
    BY <1>2, <1>3, <2>1, <2>3, <2>4, <2>5, <2>6, Zenon DEF OskInv
<1>6. QED
  BY <1>4, <1>5

\* Caps Lock clicked: locked on both sides until its release is carried out, or on neither.
LEMMA CapsKeeps ==
    ASSUME OskInv, Osk!ClickCaps
    PROVE  OskInv'
<1>1. PICK answered \in BOOLEAN :
         /\ Osk!InjectKey(CapsKey, TRUE, answered)
         /\ IF answered
            THEN /\ capsLocked' = ~capsLocked /\ labels' = Osk!Layout(shiftPressed # capsLocked')
                 /\ pending' = KeyUp(CapsKey)
            ELSE UNCHANGED <<capsLocked, labels, pending>>
  BY Zenon DEF Osk!ClickCaps, CapsKey, KeyUp
<1>2. pending # KeyUp(CapsKey) /\ heldMods' = heldMods /\ shiftPressed' = shiftPressed
  <2>1. pending = <<>> /\ heldMods' = heldMods /\ shiftPressed' = shiftPressed
    BY Zenon DEF Osk!ClickCaps, Osk!Idle
  <2>2. QED
    BY <2>1 DEF KeyUp
<1>3. DOMAIN down' = Osk!Modifiers /\ parted' \in BOOLEAN
  <2>1. parted \in BOOLEAN /\ DOMAIN down = Osk!Modifiers
    BY DEF OskInv
  <2>2. parted' \in BOOLEAN
    BY <1>1, <2>1, PartedStays, Zenon
  <2>3. QED
    BY <1>1, <2>1, <2>2, ModifiersStay, Zenon
<1>4. CASE ~answered
  <2>1. Osk!InjectKey(CapsKey, TRUE, FALSE)
    <3>1. answered = FALSE
      BY <1>4
    <3>2. QED
      BY <1>1, <3>1, Zenon
  <2>2. parted' \/ (UNCHANGED Osk!seatKeys /\ parted' = parted)
    BY <2>1, Unanswered, Zenon DEF OskInv
  <2>3. UNCHANGED <<capsLocked, labels, pending>>
    BY <1>1, <1>4
  <2>4. ASSUME ~parted' PROVE OskAgrees'
    <3>1. UNCHANGED Osk!seatKeys /\ parted' = parted
      BY <2>2, <2>4
    <3>2. ~parted
      BY <2>4, <3>1
    <3>3. OskAgrees
      BY <3>2, Zenon DEF OskInv
    <3>4. QED
      BY <1>2, <2>3, <3>1, <3>3, Zenon DEF OskAgrees, Osk!seatKeys
  <2>5. QED
    BY <1>2, <1>3, <2>3, <2>4, Zenon DEF OskInv
<1>5. CASE answered
  <2>0. Osk!InjectKey(CapsKey, TRUE, TRUE)
    <3>1. answered = TRUE
      BY <1>5
    <3>2. QED
      BY <1>1, <3>1, Zenon
  <2>1. Osk!SeatInjectKey(CapsKey, TRUE) /\ parted' = parted
    BY <2>0, Answered, Zenon
  <2>2. /\ capsLocked' = ~capsLocked /\ labels' = Osk!Layout(shiftPressed # capsLocked')
        /\ pending' = KeyUp(CapsKey)
    BY <1>1, <1>5
  <2>3. capsLocked' \in BOOLEAN /\ capsLocked \in BOOLEAN
    BY <2>2 DEF OskInv
  <2>4. ASSUME ~parted PROVE OskAgrees'
    <3>1. OskAgrees /\ DOMAIN down = Osk!Modifiers
      BY <2>4, Zenon DEF OskInv
    <3>2. /\ injectKeymap' = keymap' /\ caps' = Osk!CapsAfter(caps, TRUE)
          /\ down' = IF ~Osk!IsModifier(CapsKey) THEN down
                     ELSE [down EXCEPT ![CapsKey] = IF TRUE THEN @ + 1
                                              ELSE IF @ > 0 THEN @ - 1 ELSE 0]
      BY <2>1, <3>1, Injected
    <3>3. down' = down
      BY <3>2 DEF Osk!IsModifier, Osk!Modifiers, Osk!Shifts, CapsKey
    <3>4. CapsLocked(caps, capsLocked)
      BY <1>2, <3>1, Zenon DEF OskAgrees
    <3>5. CapsDown(caps', capsLocked')
      <4>1. CapsDown(Osk!CapsAfter(caps, TRUE), ~capsLocked)
        BY <2>3, <3>4, CapsPressed
      <4>2. QED
        BY <2>2, <3>2, <4>1, Zenon
    <3>6. QED
      BY <1>2, <2>2, <3>1, <3>2, <3>3, <3>5, Zenon DEF OskAgrees
  <2>5. labels' = Osk!Layout(shiftPressed' # capsLocked')
    BY <1>2, <2>2, Zenon
  <2>6. QED
    BY <1>2, <1>3, <2>1, <2>2, <2>3, <2>4, <2>5, Zenon DEF OskInv
<1>6. QED
  BY <1>4, <1>5

\* A character clicked changes nothing that the two records hold.
LEMMA CharKeeps ==
    ASSUME OskInv, NEW k, Osk!ClickChar(k)
    PROVE  OskInv'
<1>1. PICK answered \in BOOLEAN :
         /\ Osk!InjectKey(k, TRUE, answered)
         /\ IF answered THEN pending' = KeyUp(k) ELSE UNCHANGED pending
  BY Zenon DEF Osk!ClickChar, KeyUp
<1>2. /\ UNCHANGED <<heldMods, shiftPressed, capsLocked, labels>> /\ pending = <<>>
      /\ k \in Osk!Chars
  BY Zenon DEF Osk!ClickChar, Osk!Idle
<1>3. k # CapsKey /\ ~Osk!IsModifier(k)
  BY <1>2 DEF Osk!Chars, Osk!IsModifier, Osk!Modifiers, Osk!Shifts, CapsKey
<1>4. pending # KeyUp(CapsKey) /\ pending' # KeyUp(CapsKey)
  <2>1. <<>> # KeyUp(CapsKey) /\ KeyUp(k) # KeyUp(CapsKey)
    BY <1>3 DEF KeyUp
  <2>2. pending' = KeyUp(k) \/ pending' = pending
    BY <1>1
  <2>3. QED
    BY <1>2, <2>1, <2>2, Zenon
<1>5. parted \in BOOLEAN /\ DOMAIN down = Osk!Modifiers
  BY DEF OskInv
<1>6. parted' \in BOOLEAN /\ DOMAIN down' = Osk!Modifiers
  <2>1. parted' \in BOOLEAN
    BY <1>1, <1>5, PartedStays, Zenon
  <2>2. QED
    BY <1>1, <1>5, <2>1, ModifiersStay, Zenon
<1>7. ASSUME ~parted' PROVE OskAgrees'
  <2>1. parted' = parted /\ (UNCHANGED Osk!seatKeys \/ Osk!SeatInjectKey(k, TRUE))
    <3>1. CASE answered = TRUE
      BY <1>1, <3>1, Answered, Zenon
    <3>2. CASE answered = FALSE
      BY <1>1, <1>5, <1>7, <3>2, Unanswered, Zenon
    <3>3. QED
      BY <3>1, <3>2
  <2>2. OskAgrees
    BY <1>7, <2>1 DEF OskInv
  <2>3. CASE UNCHANGED Osk!seatKeys
    BY <1>2, <1>4, <2>2, <2>3, Zenon DEF OskAgrees, Osk!seatKeys
  <2>4. CASE Osk!SeatInjectKey(k, TRUE)
    <3>1. injectKeymap' = keymap' /\ down' = down /\ caps' = caps
      BY <1>3, <1>5, <2>2, <2>4, Injected
    <3>2. QED
      BY <1>2, <1>4, <2>2, <3>1, Zenon DEF OskAgrees
  <2>5. QED
    BY <2>1, <2>3, <2>4
<1>8. pending' = <<>> \/ \E x \in Osk!Chars \union {CapsKey} : pending' = KeyUp(x)
  BY <1>1, <1>2
<1>9. QED
  BY <1>2, <1>6, <1>7, <1>8, Zenon DEF OskInv

\* The rest of a click completes it.
LEMMA ReleaseKeeps ==
    ASSUME OskInv, Osk!Release
    PROVE  OskInv'
<1>1. PICK k \in Osk!Chars \union {CapsKey} : pending = KeyUp(k)
  BY Zenon DEF Osk!Release, OskInv
<1>2. pending[1] = k /\ (pending = KeyUp(CapsKey) <=> k = CapsKey)
  BY <1>1 DEF KeyUp
<1>3. PICK answered \in BOOLEAN : Osk!InjectKey(k, FALSE, answered)
  BY <1>2, Zenon DEF Osk!Release
<1>4. /\ UNCHANGED <<heldMods, shiftPressed, capsLocked, labels>> /\ pending' = <<>>
      /\ pending' # KeyUp(CapsKey)
  <2>1. UNCHANGED <<heldMods, shiftPressed, capsLocked, labels>> /\ pending' = <<>>
    BY Zenon DEF Osk!Release
  <2>2. QED
    BY <2>1 DEF KeyUp
<1>5. parted \in BOOLEAN /\ DOMAIN down = Osk!Modifiers /\ capsLocked \in BOOLEAN
  BY DEF OskInv
<1>6. parted' \in BOOLEAN /\ DOMAIN down' = Osk!Modifiers
  <2>1. parted' \in BOOLEAN
    BY <1>3, <1>5, PartedStays, Zenon
  <2>2. QED
    BY <1>3, <1>5, <2>1, ModifiersStay, Zenon
<1>7. ~Osk!IsModifier(k)
  BY <1>1 DEF Osk!Chars, Osk!IsModifier, Osk!Modifiers, Osk!Shifts, CapsKey
<1>8. ASSUME ~parted' PROVE OskAgrees'
  <2>1. /\ parted' = parted
        /\ (UNCHANGED Osk!seatKeys /\ k # CapsKey) \/ Osk!SeatInjectKey(k, FALSE)
    <3>1. CASE answered = TRUE
      BY <1>3, <3>1, Answered, Zenon
    <3>2. CASE answered = FALSE
      BY <1>3, <1>5, <1>8, <3>2, Unanswered, Zenon
    <3>3. QED
      BY <3>1, <3>2
  <2>2. OskAgrees
    BY <1>8, <2>1 DEF OskInv
  <2>3. CASE UNCHANGED Osk!seatKeys /\ k # CapsKey
    BY <1>2, <1>4, <2>2, <2>3, Zenon DEF OskAgrees, Osk!seatKeys
  <2>4. CASE Osk!SeatInjectKey(k, FALSE)
    <3>1. /\ injectKeymap' = keymap' /\ down' = down
          /\ caps' = IF k = CapsKey THEN Osk!CapsAfter(caps, FALSE) ELSE caps
      BY <1>5, <1>7, <2>2, <2>4, Injected
    <3>2. CapsLocked(caps', capsLocked')
      <4>1. CASE k = CapsKey
        <5>1. CapsDown(caps, capsLocked)
          BY <1>2, <2>2, <4>1, Zenon DEF OskAgrees
        <5>2. QED
          BY <1>4, <1>5, <3>1, <4>1, <5>1, CapsReleased
      <4>2. CASE k # CapsKey
        BY <1>2, <1>4, <2>2, <3>1, <4>2, Zenon DEF OskAgrees
      <4>3. QED
        BY <4>1, <4>2
    <3>3. QED
      BY <1>4, <2>2, <3>1, <3>2, Zenon DEF OskAgrees
  <2>5. QED
    BY <2>1, <2>3, <2>4
<1>9. QED
  BY <1>4, <1>6, <1>8, Zenon DEF OskInv

\* The program started anew holds nothing.
LEMMA StartedKeeps ==
    ASSUME OskInv, Osk!CloseAndStart
    PROVE  OskInv'
<1>1. /\ heldMods' = {} /\ shiftPressed' = FALSE /\ capsLocked' = FALSE
      /\ labels' = Osk!Layout(FALSE) /\ UNCHANGED <<injectKeymap, keymap, down, caps, pending>>
      /\ parted' = (parted \/ heldMods # {} \/ capsLocked) /\ pending = <<>>
  BY Zenon DEF Osk!CloseAndStart, Osk!Idle, Osk!seatKeys
<1>2. parted' \in BOOLEAN
  BY <1>1
<1>3. (shiftPressed' # capsLocked') = FALSE
  <2>1. (FALSE # FALSE) = FALSE
    OBVIOUS
  <2>2. QED
    BY <1>1, <2>1, Zenon
<1>4. shiftPressed' = (heldMods' \intersect Osk!Shifts # {})
  BY <1>1
<1>5. ASSUME ~parted' PROVE OskAgrees'
  <2>1. parted \in BOOLEAN /\ capsLocked \in BOOLEAN
    BY DEF OskInv
  <2>2. ~parted /\ heldMods = {} /\ capsLocked = FALSE
    BY <1>1, <1>5, <2>1
  <2>3. OskAgrees
    BY <2>2, Zenon DEF OskInv
  <2>4. capsLocked' = capsLocked /\ heldMods' = heldMods
    BY <1>1, <2>2
  <2>5. QED
    BY <1>1, <2>3, <2>4, Zenon DEF OskAgrees
<1>6. heldMods' \subseteq Osk!Modifiers /\ capsLocked' \in BOOLEAN
  BY <1>1
<1>7. labels' = Osk!Layout(shiftPressed' # capsLocked')
  BY <1>1, <1>3, Zenon
<1>8. QED
  BY <1>1, <1>2, <1>4, <1>5, <1>6, <1>7, Zenon DEF OskInv

\* Another keymap throws away a record that is not empty.
LEMMA KeymapKeeps ==
    ASSUME OskInv, NEW m, Osk!ChangeKeymap(m)
    PROVE  OskInv'
<1>1. /\ UNCHANGED <<heldMods, shiftPressed, capsLocked, labels, injectKeymap, down, caps, pending>>
      /\ parted' = (parted \/ injectKeymap = keymap)
  BY Zenon DEF Osk!ChangeKeymap, Osk!oskVars
<1>2. parted' \in BOOLEAN
  BY <1>1
<1>3. ASSUME ~parted' PROVE OskAgrees'
  <2>1. parted \in BOOLEAN
    BY DEF OskInv
  <2>2. ~parted /\ injectKeymap # keymap
    BY <1>1, <1>3, <2>1
  <2>3. OskAgrees
    BY <2>2, Zenon DEF OskInv
  <2>4. down = Osk!NoneDown /\ caps = Osk!NoCaps
    BY <2>2, <2>3, Zenon DEF OskAgrees
  <2>5. QED
    BY <1>1, <2>3, <2>4, Zenon DEF OskAgrees
<1>4. QED
  BY <1>1, <1>2, <1>3, Zenon DEF OskInv

\* Each click, answered or not, and each change of the seat keeps the two records equal or
\* notes that they parted.
LEMMA OskStepKeeps ==
    ASSUME OskInv, [Osk!Next]_oskVars
    PROVE  OskInv'
<1>1. CASE UNCHANGED oskVars
  BY <1>1, Zenon DEF oskVars, OskInv, OskAgrees
<1>2. QED
  BY <1>1, ModifierKeeps, CapsKeeps, CharKeeps, ReleaseKeeps, StartedKeeps, KeymapKeeps, Zenon
     DEF Osk!Next

\* Records that agree, and a keyboard that shows its layer, show what is typed.
LEMMA OskTrue ==
    ASSUME OskInv
    PROVE  Osk!LabelsAreTyped
<1> DEFINE shift == \E s \in Osk!Shifts : down[s] > 0
<1>1. SUFFICES ASSUME ~parted, pending = <<>>
      PROVE  /\ \A m \in Osk!Modifiers : down[m] = IF m \in heldMods THEN 1 ELSE 0
             /\ caps.locked = capsLocked
             /\ \A k \in Osk!Chars : k \in Osk!Letters \/ ~caps.locked =>
                    labels[k] = Osk!Typed(k, shift, caps.locked)
  BY Zenon DEF Osk!LabelsAreTyped
<1>2. OskAgrees /\ pending # KeyUp(CapsKey)
  <2>1. pending # KeyUp(CapsKey)
    BY <1>1 DEF KeyUp
  <2>2. QED
    BY <1>1, <2>1 DEF OskInv
<1>3. CapsLocked(caps, capsLocked)
  BY <1>2, Zenon DEF OskAgrees
<1>4. caps.locked = capsLocked
  BY <1>3 DEF CapsLocked
<1>5. \A m \in Osk!Modifiers : down[m] = IF m \in heldMods THEN 1 ELSE 0
  BY <1>2, Zenon DEF OskAgrees
<1>6. shift = (heldMods \intersect Osk!Shifts # {})
  <2>1. ASSUME NEW s \in Osk!Shifts PROVE down[s] > 0 <=> s \in heldMods
    <3>1. s \in Osk!Modifiers
      BY DEF Osk!Modifiers
    <3>2. QED
      BY <1>5, <3>1
  <2>2. CASE heldMods \intersect Osk!Shifts # {}
    <3>1. shift
      BY <2>1, <2>2, Zenon
    <3>2. QED
      BY <2>2, <3>1
  <2>3. CASE heldMods \intersect Osk!Shifts = {}
    <3>1. ~shift
      BY <2>1, <2>3, Zenon
    <3>2. QED
      BY <2>3, <3>1
  <2>4. QED
    BY <2>2, <2>3
<1>7. shift = shiftPressed
  BY <1>6, Zenon DEF OskInv
<1> HIDE DEF shift
<1>8. labels = Osk!Layout(shift # caps.locked)
  BY <1>4, <1>7, Zenon DEF OskInv
<1>9. shift \in BOOLEAN /\ caps.locked \in BOOLEAN
  BY <1>4, <1>7 DEF OskInv
<1>10. labels["a"] = Osk!Typed("a", shift, caps.locked)
  BY <1>8 DEF Osk!Layout, Osk!Typed, Osk!Chars
<1>11. ASSUME ~caps.locked PROVE labels["1"] = Osk!Typed("1", shift, caps.locked)
  <2>1. (shift # caps.locked) = shift
    BY <1>9, <1>11
  <2>2. labels = Osk!Layout(shift)
    BY <1>8, <2>1, Zenon
  <2>3. QED
    BY <2>2 DEF Osk!Layout, Osk!Typed, Osk!Chars
<1>12. \A k \in Osk!Chars : k \in Osk!Letters \/ ~caps.locked =>
           labels[k] = Osk!Typed(k, shift, caps.locked)
  BY <1>10, <1>11 DEF Osk!Chars, Osk!Letters
<1>13. QED
  BY <1>4, <1>5, <1>12 DEF shift

-----------------------------------------------------------------------------
(* The screenshot.                                                         *)

Regions == Int \X Int \X Nat \X Nat

\* What a picture is to hold.
IsItsRegion(p) ==
    LET Xs == {x \in 0 .. ShotWidth - 1  : p.region[1] <= x /\ x < p.region[1] + p.region[3]}
        Ys == {y \in 0 .. ShotHeight - 1 : p.region[2] <= y /\ y < p.region[2] + p.region[4]}
    IN  /\ Len(p.rows) * Len(p.rows[1]) = Shot!Cardinality(Xs \X Ys)
        /\ \A i \in DOMAIN p.rows : \A j \in DOMAIN p.rows[i] :
                p.rows[i][j] = <<Shot!Min(Xs) + j - 1, Shot!Min(Ys) + i - 1>>

GrabFields == {"phase", "region", "buffer", "invert", "silent", "onFailure"}

\* Regions are rectangles, and pictures are those of their regions.
ShotInv ==
    /\ DOMAIN grab = GrabFields /\ grab.region \in Regions
    /\ selection \in Regions \union {<<>>}
    /\ \A p \in pictures : IsItsRegion(p)

\* Sets are counted there as here.
LEMMA CountsHere ==
    ASSUME NEW S
    PROVE  Shot!Cardinality(S) = Cardinality(S)
BY Zenon DEF Shot!Cardinality, Cardinality, Shot!IsFiniteSet, IsFiniteSet

\* The larger and the smaller of two numbers.
LEMMA OfTwo ==
    ASSUME NEW a \in Int, NEW b \in Int
    PROVE  /\ Shot!Max({a, b}) = IF a >= b THEN a ELSE b
           /\ Shot!Min({a, b}) = IF a <= b THEN a ELSE b
<1>1. \E x \in {a, b} : \A y \in {a, b} : x >= y
  OBVIOUS
<1>2. \E x \in {a, b} : \A y \in {a, b} : x <= y
  OBVIOUS
<1>3. Shot!Max({a, b}) \in {a, b} /\ \A y \in {a, b} : Shot!Max({a, b}) >= y
  BY <1>1, Zenon DEF Shot!Max
<1>4. Shot!Min({a, b}) \in {a, b} /\ \A y \in {a, b} : Shot!Min({a, b}) <= y
  BY <1>2, Zenon DEF Shot!Min
<1>5. QED
  BY <1>3, <1>4

\* A stretch of w points from a on a line of size points: where it begins, how much of it
\* is on the line, and which points those are.
Near(a) == Shot!Max({0, a})
Room(size, a, w) == Shot!Min({size, a + w}) - Shot!Max({0, a})
Points(size, a, w) == {x \in 0 .. size - 1 : a <= x /\ x < a + w}

\* What is cut is what is on the line.
LEMMA PartOnLine ==
    ASSUME NEW a \in Int, NEW w \in Nat, NEW size \in Nat, ~(Room(size, a, w) <= 0)
    PROVE  /\ Near(a) \in Nat /\ Room(size, a, w) \in Nat /\ Near(a) + Room(size, a, w) <= size
           /\ IsFiniteSet(Points(size, a, w)) /\ Cardinality(Points(size, a, w)) = Room(size, a, w)
           /\ Shot!Min(Points(size, a, w)) = Near(a)
<1> DEFINE first == Shot!Max({0, a})
           end == Shot!Min({size, a + w})
           n == end - first
           S == {x \in 0 .. size - 1 : a <= x /\ x < a + w}
<1>1. first = IF 0 >= a THEN 0 ELSE a
  BY OfTwo
<1>2. end = IF size <= a + w THEN size ELSE a + w
  <2>1. size \in Int /\ a + w \in Int
    OBVIOUS
  <2>2. QED
    BY <2>1, OfTwo
<1>0. n = Room(size, a, w) /\ ~(n <= 0)
  BY DEF Room
<1> HIDE DEF n
<1>3. n = end - first /\ ~(n <= 0)
  BY <1>0 DEF n
<1> HIDE DEF first, end
<1>4. /\ first \in Nat /\ n \in Nat /\ first + n <= size /\ n > 0
      /\ end \in Int /\ first \in Int
  BY <1>1, <1>2, <1>3
<1>5. S = first .. (end - 1)
  BY <1>1, <1>2, <1>4
<1>6. IsFiniteSet(S) /\ Cardinality(S) = n
  <2>1. /\ IsFiniteSet(first .. (end - 1))
        /\ Cardinality(first .. (end - 1)) = IF first > end - 1 THEN 0 ELSE (end - 1) - first + 1
    <3>1. first \in Int /\ end - 1 \in Int
      BY <1>4
    <3>2. QED
      BY <3>1, FS_Interval, Zenon
  <2>2. (IF first > end - 1 THEN 0 ELSE (end - 1) - first + 1) = n
    BY <1>3, <1>4
  <2>3. QED
    BY <1>5, <2>1, <2>2, Zenon
<1>7. Shot!Min(S) = first
  <2>1. first \in S /\ \A y \in S : y \in Int /\ first <= y
    BY <1>3, <1>4, <1>5
  <2> HIDE DEF S
  <2>2. Shot!Min(S) \in S /\ \A y \in S : Shot!Min(S) <= y
    BY <2>1, Zenon DEF Shot!Min
  <2> DEFINE least == Shot!Min(S)
  <2>3. least \in Int /\ first <= least /\ least <= first
    BY <2>1, <2>2, Zenon
  <2> HIDE DEF least
  <2>4. least = first
    BY <1>4, <2>3
  <2>5. QED
    BY <2>4 DEF least
<1>8. QED
  BY <1>0, <1>4, <1>6, <1>7, Zenon DEF first, Near, Points

\* Whichever i was written first, the picture has each pixel in its place.
LEMMA RowsInPlace ==
    ASSUME NEW invert,
           NEW x \in 0 .. ShotWidth - 1, NEW y \in 0 .. ShotHeight - 1
    PROVE  Shot!ConvertToRgba(Shot!Memory(invert), invert)[<<x, y>>] = <<x, y>>
<1> DEFINE P == (0 .. ShotWidth - 1) \X (0 .. ShotHeight - 1)
           z == ShotHeight - 1 - y
           m == Shot!Memory(invert)
<1>1. z \in 0 .. ShotHeight - 1 /\ ShotHeight - 1 - z = y
  BY ShotAssumption DEF ShotAssumption
<1>2. <<x, y>> \in P /\ <<x, z>> \in P
  BY <1>1
<1>3. /\ DOMAIN m = P
      /\ m[<<x, y>>] = IF invert THEN <<x, z>> ELSE <<x, y>>
      /\ m[<<x, z>>] = IF invert THEN <<x, ShotHeight - 1 - z>> ELSE <<x, z>>
  BY <1>2 DEF Shot!Memory
<1> HIDE DEF m, P, z
<1>4. Shot!ConvertToRgba(m, invert)[<<x, y>>] =
          IF invert THEN m[<<x, ShotHeight - 1 - y>>] ELSE m[<<x, y>>]
  BY <1>2, <1>3 DEF Shot!ConvertToRgba
<1>5. ShotHeight - 1 - y = z
  BY DEF z
<1>6. Shot!ConvertToRgba(m, invert)[<<x, y>>] = <<x, y>>
  BY <1>1, <1>3, <1>4, <1>5
<1>7. QED
  BY <1>6 DEF m

\* What is cut out of the output is its region.
LEMMA CutIsRegion ==
    ASSUME NEW invert, NEW r \in Regions, NEW rows, rows # <<>>,
           rows = Shot!CropRgba(Shot!ConvertToRgba(Shot!Memory(invert), invert), r)
    PROVE  IsItsRegion([region |-> r, rows |-> rows])
<1> DEFINE rgba == Shot!ConvertToRgba(Shot!Memory(invert), invert)
           x0 == Near(r[1])
           y0 == Near(r[2])
           cw == Room(ShotWidth, r[1], r[3])
           ch == Room(ShotHeight, r[2], r[4])
           Xs == Points(ShotWidth, r[1], r[3])
           Ys == Points(ShotHeight, r[2], r[4])
<1>1. r[1] \in Int /\ r[2] \in Int /\ r[3] \in Nat /\ r[4] \in Nat
  BY DEF Regions
<1>2. ShotWidth \in Nat /\ ShotHeight \in Nat
  BY ShotAssumption DEF ShotAssumption
<1> HIDE DEF rgba
<1>3. /\ ~(cw <= 0) /\ ~(ch <= 0)
      /\ rows = [i \in 1 .. ch |-> [j \in 1 .. cw |-> rgba[<<x0 + j - 1, y0 + i - 1>>]]]
  <2>1. rows = IF cw <= 0 \/ ch <= 0 THEN <<>>
               ELSE [i \in 1 .. ch |-> [j \in 1 .. cw |-> rgba[<<x0 + j - 1, y0 + i - 1>>]]]
    BY Zenon DEF Shot!CropRgba, rgba, Near, Room
  <2>2. QED
    BY <2>1, Zenon
<1>4. /\ x0 \in Nat /\ cw \in Nat /\ x0 + cw <= ShotWidth
      /\ IsFiniteSet(Xs) /\ Cardinality(Xs) = cw /\ Shot!Min(Xs) = x0
  BY <1>1, <1>2, <1>3, PartOnLine, Zenon
<1>5. /\ y0 \in Nat /\ ch \in Nat /\ y0 + ch <= ShotHeight
      /\ IsFiniteSet(Ys) /\ Cardinality(Ys) = ch /\ Shot!Min(Ys) = y0
  BY <1>1, <1>2, <1>3, PartOnLine, Zenon
<1> HIDE DEF x0, y0, cw, ch, Xs, Ys
<1>6. Len(rows) = ch /\ Len(rows[1]) = cw
  BY <1>3, <1>4, <1>5
<1>7. Shot!Cardinality(Xs \X Ys) = cw * ch
  BY <1>4, <1>5, FS_Product, CountsHere, Zenon
<1>8. Len(rows) * Len(rows[1]) = Shot!Cardinality(Xs \X Ys)
  BY <1>4, <1>5, <1>6, <1>7
<1>9. ASSUME NEW i \in DOMAIN rows, NEW j \in DOMAIN rows[i]
      PROVE  rows[i][j] = <<Shot!Min(Xs) + j - 1, Shot!Min(Ys) + i - 1>>
  <2>1. i \in 1 .. ch /\ j \in 1 .. cw
    BY <1>3
  <2>2. rows[i][j] = rgba[<<x0 + j - 1, y0 + i - 1>>]
    BY <1>3, <2>1
  <2>3. x0 + j - 1 \in 0 .. ShotWidth - 1 /\ y0 + i - 1 \in 0 .. ShotHeight - 1
    BY <1>2, <1>4, <1>5, <2>1
  <2>4. rgba[<<x0 + j - 1, y0 + i - 1>>] = <<x0 + j - 1, y0 + i - 1>>
    BY <2>3, RowsInPlace, Zenon DEF rgba
  <2>5. QED
    BY <1>4, <1>5, <2>2, <2>4, Zenon
<1>10. QED
  BY <1>8, <1>9, Zenon DEF IsItsRegion, Xs, Ys, Points

\* A place on the output, and a region, are regions.
LEMMA ScreenIsRegion == Shot!Screen \in Regions
BY ShotAssumption DEF ShotAssumption, Shot!Screen, Regions

\* Initially nothing was taken.
LEMMA ShotStart ==
    ASSUME Shot!Init
    PROVE  ShotInv
<1>1. /\ grab = Shot!NoGrab /\ selection = <<>> /\ pictures = {}
  BY DEF Shot!Init
<1>2. DOMAIN Shot!NoGrab = GrabFields /\ Shot!NoGrab.region = Shot!Screen
  BY DEF Shot!NoGrab, GrabFields
<1>3. QED
  BY <1>1, <1>2, ScreenIsRegion DEF ShotInv

\* A capture that begins is one of a region.
LEMMA CaptureIsRegion ==
    ASSUME NEW r \in Regions, NEW then, Shot!Capture(r, then)
    PROVE  DOMAIN grab' = GrabFields /\ grab'.region \in Regions
<1>1. grab' = [Shot!NoGrab EXCEPT !.phase = "connect", !.region = r, !.onFailure = then]
  BY DEF Shot!Capture
<1>2. QED
  BY <1>1 DEF Shot!NoGrab, GrabFields

\* So is one that the overlay begins.
LEMMA OverlayCaptures ==
    ASSUME ShotInv, selection' \in Regions \union {<<>>}, Shot!CaptureAndSave
    PROVE  DOMAIN grab' = GrabFields /\ grab'.region \in Regions
<1>1. Shot!Region \in Regions
  BY ScreenIsRegion DEF Shot!Region
<1>2. grab' = grab \/ Shot!Capture(Shot!Region, "close")
  BY Zenon DEF Shot!CaptureAndSave
<1>3. QED
  BY <1>1, <1>2, CaptureIsRegion, Zenon DEF ShotInv

\* The capture takes a picture of its region, or none.
LEMMA GrabKeeps ==
    ASSUME ShotInv,
           \/ Shot!Connect \/ Shot!HandleFrameBuffer \/ Shot!LinuxDmabuf \/ Shot!HandleFrameBufferDone
           \/ Shot!HandleFrameReady \/ Shot!HandleFrameFailed \/ Shot!Silence \/ Shot!Fail \/ Shot!Finish
    PROVE  ShotInv'
<1>1. /\ DOMAIN grab = GrabFields /\ grab.region \in Regions
  BY DEF ShotInv
<1>2. ASSUME selection' = selection, DOMAIN grab' = GrabFields, grab'.region \in Regions,
             pictures' = pictures
      PROVE  ShotInv'
  BY <1>2, Zenon DEF ShotInv
<1>3. DOMAIN Shot!NoGrab = GrabFields /\ Shot!NoGrab.region \in Regions
  BY ScreenIsRegion DEF Shot!NoGrab, GrabFields
<1>4. CASE Shot!Connect
  <2>1. /\ \E p \in {"asked", "failed"} : grab' = [grab EXCEPT !.phase = p]
        /\ selection' = selection /\ pictures' = pictures
    BY <1>4, Zenon DEF Shot!Connect, Shot!uiVars
  <2>2. DOMAIN grab' = GrabFields /\ grab'.region = grab.region
    BY <1>1, <2>1 DEF GrabFields
  <2>3. QED
    BY <1>1, <1>2, <2>1, <2>2
<1>5. CASE Shot!HandleFrameBuffer
  <2>1. /\ grab' = [grab EXCEPT !.buffer = TRUE] \/ grab' = [grab EXCEPT !.phase = "failed"]
        /\ selection' = selection /\ pictures' = pictures
    BY <1>5, Zenon DEF Shot!HandleFrameBuffer, Shot!uiVars
  <2>2. DOMAIN grab' = GrabFields /\ grab'.region = grab.region
    BY <1>1, <2>1 DEF GrabFields
  <2>3. QED
    BY <1>1, <1>2, <2>1, <2>2
<1>6. CASE Shot!LinuxDmabuf
  BY <1>1, <1>2, <1>6, Zenon DEF Shot!LinuxDmabuf
<1>7. CASE Shot!HandleFrameBufferDone \/ Shot!HandleFrameFailed
  <2>1. /\ \E p \in {"copying", "failed"} : grab' = [grab EXCEPT !.phase = p]
        /\ selection' = selection /\ pictures' = pictures
    BY <1>7, Zenon DEF Shot!HandleFrameBufferDone, Shot!HandleFrameFailed, Shot!uiVars
  <2>2. DOMAIN grab' = GrabFields /\ grab'.region = grab.region
    BY <1>1, <2>1 DEF GrabFields
  <2>3. QED
    BY <1>1, <1>2, <2>1, <2>2
<1>8. CASE Shot!HandleFrameReady
  <2>1. /\ \E flags \in BOOLEAN : grab' = [grab EXCEPT !.phase = "ready", !.invert = flags]
        /\ selection' = selection /\ pictures' = pictures
    BY <1>8, Zenon DEF Shot!HandleFrameReady, Shot!uiVars
  <2>2. DOMAIN grab' = GrabFields /\ grab'.region = grab.region
    BY <1>1, <2>1 DEF GrabFields
  <2>3. QED
    BY <1>1, <1>2, <2>1, <2>2
<1>9. CASE Shot!Silence
  <2>1. /\ grab' = [grab EXCEPT !.silent = @ + 1,
                        !.phase = IF grab.silent + 1 >= MaxPolls THEN "failed" ELSE @]
        /\ selection' = selection /\ pictures' = pictures
    BY <1>9, Zenon DEF Shot!Silence, Shot!uiVars
  <2>2. DOMAIN grab' = GrabFields /\ grab'.region = grab.region
    BY <1>1, <2>1 DEF GrabFields
  <2>3. QED
    BY <1>1, <1>2, <2>1, <2>2
<1>10. CASE Shot!Fail
  BY <1>2, <1>3, <1>10, Zenon DEF Shot!Fail
<1>11. CASE Shot!Finish
  <2> DEFINE rows == Shot!CropRgba(Shot!ConvertToRgba(Shot!Memory(grab.invert), grab.invert),
                                   grab.region)
             p == [region |-> grab.region, rows |-> rows]
  <2>1. /\ grab' = Shot!NoGrab /\ selection' = selection
        /\ (rows # <<>> /\ pictures' = pictures \union {p}) \/ pictures' = pictures
    BY <1>11, Zenon DEF Shot!Finish
  <2>2. rows # <<>> => IsItsRegion(p)
    BY <1>1, CutIsRegion
  <2> HIDE DEF rows, p
  <2>3. \A q \in pictures' : IsItsRegion(q)
    BY <2>1, <2>2, Zenon DEF ShotInv
  <2>4. QED
    BY <1>3, <2>1, <2>3, Zenon DEF ShotInv
<1>12. QED
  BY <1>4, <1>5, <1>6, <1>7, <1>8, <1>9, <1>10, <1>11, Zenon

\* What the overlay does takes no picture, and asks for one of a region only.
LEMMA OverlayKeeps ==
    ASSUME ShotInv, pictures' = pictures, selection' \in Regions \union {<<>>},
           grab' = grab \/ Shot!CaptureAndSave
    PROVE  ShotInv'
<1>1. DOMAIN grab' = GrabFields /\ grab'.region \in Regions
  BY OverlayCaptures, Zenon DEF ShotInv
<1>2. QED
  BY <1>1, Zenon DEF ShotInv

\* Each step of the program keeps its pictures.
LEMMA ShotStepKeeps ==
    ASSUME ShotInv, [Shot!Next]_shotVars
    PROVE  ShotInv'
<1>1. selection \in Regions \union {<<>>} /\ <<>> \in Regions \union {<<>>}
  BY DEF ShotInv
<1>2. CASE Shot!PressFullscreen
  <2>1. /\ pictures' = pictures /\ Shot!CaptureAndSave
        /\ selection' = selection \/ selection' = <<>>
    BY <1>2, Zenon DEF Shot!PressFullscreen, Shot!SetMode
  <2>2. QED
    BY <1>1, <2>1, OverlayKeeps, Zenon
<1>3. CASE Shot!PressRegion \/ Shot!PressWindow \/ Shot!ToggleDelay \/ Shot!Escape
  <2>1. /\ pictures' = pictures /\ grab' = grab
        /\ selection' = selection \/ selection' = <<>>
    BY <1>3, Zenon DEF Shot!PressRegion, Shot!PressWindow, Shot!ToggleDelay, Shot!Escape, Shot!SetMode
  <2>2. QED
    BY <1>1, <2>1, OverlayKeeps, Zenon
<1>4. ASSUME NEW r \in Drags, Shot!MousePress(r) \/ Shot!MouseMove(r) \/ Shot!MouseRelease(r)
      PROVE  ShotInv'
  <2>1. r \in Regions
    BY ShotAssumption DEF ShotAssumption, Regions
  <2>2. /\ pictures' = pictures /\ (grab' = grab \/ Shot!CaptureAndSave)
        /\ selection' = r \/ selection' = <<>>
    BY <1>4, Zenon DEF Shot!MousePress, Shot!MouseMove, Shot!MouseRelease
  <2>3. selection' \in Regions \union {<<>>}
    BY <1>1, <2>1, <2>2, Zenon
  <2>4. QED
    BY <2>2, <2>3, OverlayKeeps, Zenon
<1>5. CASE Shot!OnCountdownTick
  <2>1. /\ pictures' = pictures /\ selection' = selection
        /\ grab' = grab \/ Shot!Capture(Shot!Region, "close")
    BY <1>5, Zenon DEF Shot!OnCountdownTick
  <2>2. Shot!Region \in Regions
    BY <1>1, <2>1, ScreenIsRegion DEF Shot!Region
  <2>3. DOMAIN grab' = GrabFields /\ grab'.region \in Regions
    BY <2>1, <2>2, CaptureIsRegion, Zenon DEF ShotInv
  <2>4. QED
    BY <2>1, <2>3, Zenon DEF ShotInv
<1>6. CASE Shot!CloseDialog
  <2>1. pictures' = pictures /\ selection' = selection
    BY <1>6, Zenon DEF Shot!CloseDialog
  <2>2. \/ grab' = grab \/ Shot!CaptureAndSave
        \/ \E v \in ShotViews :
             Shot!Capture(<<v[1], v[2] - TitleHeight, v[3], v[4] + TitleHeight>>, "stay")
    BY <1>6 DEF Shot!CloseDialog
  <2>3. ASSUME NEW v \in ShotViews
        PROVE  <<v[1], v[2] - TitleHeight, v[3], v[4] + TitleHeight>> \in Regions
    BY ShotAssumption DEF ShotAssumption, Regions
  <2>4. DOMAIN grab' = GrabFields /\ grab'.region \in Regions
    <3>1. selection' \in Regions \union {<<>>}
      BY <1>1, <2>1, Zenon
    <3>2. QED
      BY <2>2, <2>3, <3>1, OverlayCaptures, CaptureIsRegion, Zenon DEF ShotInv
  <2>5. QED
    BY <2>1, <2>4, Zenon DEF ShotInv
<1>7. CASE UNCHANGED shotVars
  BY <1>7, Zenon DEF shotVars, ShotInv
<1>8. QED
  BY <1>2, <1>3, <1>4, <1>5, <1>6, <1>7, GrabKeeps, Zenon DEF Shot!Next

\* The pictures are those of their regions.
LEMMA ShotTrue ==
    ASSUME ShotInv
    PROVE  Shot!PictureIsItsRegion
BY Zenon DEF ShotInv, IsItsRegion, Shot!PictureIsItsRegion

-----------------------------------------------------------------------------
(* The tools together.                                                     *)

ToolsInv == ShotInv /\ StoreInv /\ OskInv

\* Steps of the composition are steps of each of the tools.
LEMMA ToolsAlone ==
    ASSUME [Next]_vars
    PROVE  [Shot!Next]_shotVars /\ [Software!Next]_storeVars /\ [Osk!Next]_oskVars
BY Zenon DEF Next, vars, TasksStep, FilesStep, SearchStep, CalendarStep, TerminalStep,
       DocumentsStep, ExplorerStep, ClockStep, AppsStep, SystemStep, NetworkStep, RemoteStep,
       ShotStep, ViewerStep, StoreStep, KeyboardStep, CalcStep, Alone

\* Whatever is dragged, counted down, refused or broken off: a picture holds exactly the
\* pixels of its region, whichever row came first; the application that is selected, and
\* that the button and a question of the software centre are about, is one of the list,
\* until the list is replaced under the question; and a letter on the on-screen keyboard
\* is the one it types, as is every other key while Caps Lock is off, unless the two
\* records of what is down have parted (Screenshot, Store and ScreenKeyboard say when).
THEOREM ToolsStayTrue == Spec => []ToolsDoAsAsked
<1>1. Init => ToolsInv
  BY ShotStart, StoreStart, OskStart, Zenon DEF Init, ToolsInv
<1>2. ToolsInv /\ [Next]_vars => ToolsInv'
  BY ToolsAlone, ShotStepKeeps, StoreStepKeeps, OskStepKeeps, Zenon DEF ToolsInv
<1>3. ToolsInv => ToolsDoAsAsked
  BY ShotTrue, StoreTrue, OskTrue, Zenon DEF ToolsInv, ToolsDoAsAsked
<1>4. QED
  BY <1>1, <1>2, <1>3, PTL DEF Spec

-----------------------------------------------------------------------------
(* Terminal: every room in the kernel, and any number of keys and of units *)
(* of output, cut into any pieces.                                         *)

\* Steps of the composition are steps of the terminal.
LEMMA TermAlone ==
    ASSUME [Next]_vars
    PROVE  [Term!Next]_terminalVars
BY DEF Next, vars, TasksStep, FilesStep, SearchStep, CalendarStep, TerminalStep, DocumentsStep,
       ExplorerStep, ClockStep, AppsStep, SystemStep, NetworkStep, RemoteStep, ShotStep,
       ViewerStep, StoreStep, KeyboardStep, CalcStep, Alone

Bytes == {"a", "h", "t", "bs", "esc", "[", "m", "]", "bel", "J"}
ParserStates == {"text", "escape", "osc", "csi"}
Accs  == [state : ParserStates, text : Seq(Bytes), shown : Seq(Bytes)]
Sights == [state : ParserStates, all : Seq(Bytes)]

\* What the reader has at the end: the document with the text on its way to it.
Sight(a) == [state |-> a.state, all |-> a.shown \o a.text]

\* The automaton as a reader sees it.
Sees(v, b) ==
    CASE v.state = "text" -> [state |-> IF b = "esc" THEN "escape" ELSE "text",
                              all   |-> IF b = "bs" THEN Shorter(v.all)
                                        ELSE IF b \in {"esc", "h"} THEN v.all
                                        ELSE Append(v.all, b)]
      [] v.state = "escape" -> [state |-> IF b = "[" THEN "csi" ELSE IF b = "]" THEN "osc"
                                          ELSE "text",
                                all |-> v.all]
      [] v.state = "osc" -> [state |-> IF b = "bel" THEN "text" ELSE "osc", all |-> v.all]
      [] v.state = "csi" -> [state |-> "text", all |-> v.all]

ShowStep == [p \in Accs \X Bytes |-> Term!Shows(p[1], p[2])]
SeeStep  == [p \in Sights \X Bytes |-> Sees(p[1], p[2])]
Seen     == [a \in Accs |-> Sight(a)]

-----------------------------------------------------------------------------
(* The automaton and what the reader sees.                                 *)

\* The two parts of the text without the last character.
LEMMA EraseIs ==
    ASSUME NEW a \in Accs
    PROVE  /\ Term!Erase(a) \in Accs /\ Term!Erase(a).state = a.state
           /\ Sight(Term!Erase(a)).all = Shorter(a.shown \o a.text)
<1>1. a.text \in Seq(Bytes) /\ a.shown \in Seq(Bytes) /\ a.state \in ParserStates
  BY DEF Accs
<1>2. Shorter(a.text) \in Seq(Bytes) /\ Shorter(a.shown) \in Seq(Bytes)
  BY <1>1, ShorterIs
<1>3. CASE a.text # <<>>
  <2> DEFINE less == Shorter(a.text)
  <2>1. Term!Erase(a) = [a EXCEPT !.text = less]
    BY <1>3 DEF Term!Erase, Shorter
  <2>2. a.shown \o less = Shorter(a.shown \o a.text)
    BY <1>1, <1>3, ShorterWhole
  <2>3. less \in Seq(Bytes)
    BY <1>2
  <2> HIDE DEF less
  <2>4. LET e == [a EXCEPT !.text = less]
        IN  e \in Accs /\ e.state = a.state /\ e.text = less /\ e.shown = a.shown
    BY <2>3 DEF Accs
  <2>5. QED
    BY <2>1, <2>2, <2>4 DEF Sight
<1>4. CASE a.text = <<>> /\ a.shown # <<>>
  <2> DEFINE less == Shorter(a.shown)
  <2>1. Term!Erase(a) = [a EXCEPT !.shown = less]
    BY <1>4 DEF Term!Erase, Shorter
  <2>2. less \in Seq(Bytes)
    BY <1>2
  <2>3. less \o a.text = less /\ a.shown \o a.text = a.shown
    BY <1>1, <1>4, <2>2, ShorterWhole
  <2>4. less = Shorter(a.shown)
    OBVIOUS
  <2> HIDE DEF less
  <2>5. LET e == [a EXCEPT !.shown = less]
        IN  e \in Accs /\ e.state = a.state /\ e.text = a.text /\ e.shown = less
    BY <2>2 DEF Accs
  <2>6. QED
    BY <2>1, <2>3, <2>4, <2>5 DEF Sight
<1>5. CASE a.text = <<>> /\ a.shown = <<>>
  <2>1. Term!Erase(a) = a
    BY <1>5 DEF Term!Erase
  <2>2. a.shown \o a.text = <<>>
    BY <1>1, <1>5, ShorterWhole
  <2>3. Shorter(<<>>) = <<>>
    BY <1>1, <1>5, ShorterIs
  <2>4. QED
    BY <2>1, <2>2, <2>3 DEF Sight
<1>6. QED
  BY <1>3, <1>4, <1>5

\* One step of the automaton, as the reader sees it.  A "J" would clear the document.
LEMMA ShowsIs ==
    ASSUME NEW a \in Accs, NEW b \in Bytes
    PROVE  /\ Term!Shows(a, b) \in Accs
           /\ b # "J" => Sight(Term!Shows(a, b)) = Sees(Sight(a), b)
<1>1. /\ a.text \in Seq(Bytes) /\ a.shown \in Seq(Bytes) /\ a.state \in ParserStates
      /\ Append(a.text, b) \in Seq(Bytes) /\ <<>> \in Seq(Bytes)
  BY AppendProperties, EmptySeq DEF Accs
<1>2. Sight(a).state = a.state /\ Sight(a).all = a.shown \o a.text
  BY DEF Sight
<1>3. CASE a.state = "text" /\ b = "bs"
  <2> DEFINE e == Term!Erase(a)
  <2>1. Term!Shows(a, b) = e
    BY <1>3 DEF Term!Shows
  <2>2. e \in Accs /\ e.state = a.state /\ Sight(e).all = Shorter(a.shown \o a.text)
    BY EraseIs
  <2> HIDE DEF e
  <2>3. Sees(Sight(a), b) = [state |-> "text", all |-> Shorter(a.shown \o a.text)]
    BY <1>2, <1>3 DEF Sees
  <2>4. QED
    BY <1>3, <2>1, <2>2, <2>3 DEF Sight
<1>4. CASE a.state = "text" /\ b \notin {"esc", "bs", "h"}
  <2> DEFINE more == Append(a.text, b)
  <2>1. Term!Shows(a, b) = [a EXCEPT !.text = more]
    BY <1>4 DEF Term!Shows
  <2>2. a.shown \o more = Append(a.shown \o a.text, b)
    <3> DEFINE x == a.shown
               y == a.text
    <3> HIDE DEF x, y
    <3>1. x \in Seq(Bytes) /\ y \in Seq(Bytes)
      BY <1>1 DEF x, y
    <3>2. x \o Append(y, b) = Append(x \o y, b)
      BY <3>1, AppendWhole, SMT
    <3>3. QED
      BY <3>2 DEF x, y
  <2>3. more \in Seq(Bytes)
    BY <1>1
  <2> HIDE DEF more
  <2>4. LET e == [a EXCEPT !.text = more]
        IN  e \in Accs /\ e.state = a.state /\ e.text = more /\ e.shown = a.shown
    BY <2>3 DEF Accs
  <2>5. Sees(Sight(a), b) = [state |-> "text", all |-> Append(a.shown \o a.text, b)]
    BY <1>2, <1>4 DEF Sees
  <2>6. QED
    BY <1>4, <2>1, <2>2, <2>4, <2>5 DEF Sight
<1>5. CASE a.state = "csi" /\ b = "J"
  <2>1. Term!Shows(a, b) = [a EXCEPT !.state = "text", !.shown = <<>>]
    BY <1>5 DEF Term!Shows
  <2>2. QED
    BY <1>1, <1>5, <2>1 DEF Accs, ParserStates
<1>6. ASSUME NEW st \in ParserStates, Term!Shows(a, b) = [a EXCEPT !.state = st],
             Sees(Sight(a), b) = [state |-> st, all |-> a.shown \o a.text]
      PROVE  /\ Term!Shows(a, b) \in Accs
             /\ Sight(Term!Shows(a, b)) = Sees(Sight(a), b)
  <2>1. LET e == [a EXCEPT !.state = st]
        IN  e \in Accs /\ e.state = st /\ e.text = a.text /\ e.shown = a.shown
    BY DEF Accs
  <2>2. QED
    BY <1>6, <2>1 DEF Sight
<1>7. CASE a.state = "text" /\ b = "esc"
  <2>1. Term!Shows(a, b) = [a EXCEPT !.state = "escape"]
    BY <1>7 DEF Term!Shows
  <2>2. Sees(Sight(a), b) = [state |-> "escape", all |-> a.shown \o a.text]
    BY <1>2, <1>7 DEF Sees
  <2>3. QED
    BY <1>6, <2>1, <2>2 DEF ParserStates
<1>8. CASE a.state = "text" /\ b = "h"
  <2>1. Term!Shows(a, b) = a
    BY <1>8 DEF Term!Shows
  <2>2. Sees(Sight(a), b) = [state |-> "text", all |-> a.shown \o a.text]
    BY <1>2, <1>8 DEF Sees
  <2>3. QED
    BY <1>8, <2>1, <2>2 DEF Sight
<1>9. CASE a.state = "escape"
  <2> DEFINE st == IF b = "[" THEN "csi" ELSE IF b = "]" THEN "osc" ELSE "text"
  <2>1. Term!Shows(a, b) = [a EXCEPT !.state = st]
    BY <1>9 DEF Term!Shows
  <2>2. Sees(Sight(a), b) = [state |-> st, all |-> a.shown \o a.text]
    BY <1>2, <1>9 DEF Sees
  <2>3. st \in ParserStates
    BY DEF ParserStates
  <2> HIDE DEF st
  <2>4. QED
    BY <1>6, <2>1, <2>2, <2>3
<1>10. CASE a.state = "osc"
  <2>0. a.state # "text" /\ a.state # "escape" /\ a.state # "csi"
    BY <1>10
  <2>1. CASE b = "bel"
    <3>1. Term!Shows(a, b) = [a EXCEPT !.state = "text"]
      BY <1>10, <2>0, <2>1 DEF Term!Shows
    <3>2. Sees(Sight(a), b) = [state |-> "text", all |-> a.shown \o a.text]
      BY <1>2, <1>10, <2>0, <2>1 DEF Sees
    <3>3. QED
      BY <1>6, <3>1, <3>2 DEF ParserStates
  <2>2. CASE b # "bel"
    <3>1. Term!Shows(a, b) = a
      BY <1>10, <2>0, <2>2 DEF Term!Shows
    <3>2. Sees(Sight(a), b) = [state |-> "osc", all |-> a.shown \o a.text]
      BY <1>2, <1>10, <2>0, <2>2 DEF Sees
    <3>3. QED
      BY <1>10, <3>1, <3>2 DEF Sight
  <2>3. QED
    BY <2>1, <2>2
<1>11. CASE a.state = "csi" /\ b # "J"
  <2>1. Term!Shows(a, b) = [a EXCEPT !.state = "text"]
    BY <1>11 DEF Term!Shows
  <2>2. Sees(Sight(a), b) = [state |-> "text", all |-> a.shown \o a.text]
    BY <1>2, <1>11 DEF Sees
  <2>3. QED
    BY <1>6, <2>1, <2>2 DEF ParserStates
<1>12. QED
  BY <1>1, <1>3, <1>4, <1>5, <1>7, <1>8, <1>9, <1>10, <1>11 DEF ParserStates

\* What is seen is text, and the state one of the parser's.
LEMMA SeesStays ==
    ASSUME NEW v \in Sights, NEW b \in Bytes
    PROVE  Sees(v, b) \in Sights
<1>1. v.state \in ParserStates /\ v.all \in Seq(Bytes)
  BY DEF Sights
<1>2. Shorter(v.all) \in Seq(Bytes) /\ Append(v.all, b) \in Seq(Bytes)
  BY <1>1, ShorterIs, AppendProperties
<1>3. QED
  BY <1>1, <1>2 DEF Sees, Sights, ParserStates

\* What is seen of a reader.
LEMMA SightIs ==
    ASSUME NEW a \in Accs
    PROVE  Sight(a) \in Sights
BY ConcatProperties DEF Accs, Sights, Sight

\* The steps of the reader and of what is seen are steps over bytes.
LEMMA StepsAreSteps ==
    /\ IsStep(ShowStep, Accs, Bytes) /\ IsStep(SeeStep, Sights, Bytes) /\ Seen \in [Accs -> Sights]
    /\ \A a \in Accs, b \in Bytes : ShowStep[<<a, b>>] = Term!Shows(a, b)
    /\ \A v \in Sights, b \in Bytes : SeeStep[<<v, b>>] = Sees(v, b)
    /\ \A a \in Accs, b \in Bytes \ {"J"} : Seen[ShowStep[<<a, b>>]] = SeeStep[<<Seen[a], b>>]
<1>1. IsStep(ShowStep, Accs, Bytes)
  BY ShowsIs DEF IsStep, ShowStep
<1>2. IsStep(SeeStep, Sights, Bytes)
  BY SeesStays DEF IsStep, SeeStep
<1>3. Seen \in [Accs -> Sights] /\ \A a \in Accs : Seen[a] = Sight(a)
  BY SightIs DEF Seen
<1>4. \A a \in Accs, b \in Bytes : ShowStep[<<a, b>>] = Term!Shows(a, b)
  BY DEF ShowStep
<1>5. \A v \in Sights, b \in Bytes : SeeStep[<<v, b>>] = Sees(v, b)
  BY DEF SeeStep
<1>6. ASSUME NEW a \in Accs, NEW b \in Bytes \ {"J"}
      PROVE  Seen[ShowStep[<<a, b>>]] = SeeStep[<<Seen[a], b>>]
  <2>1. Term!Shows(a, b) \in Accs /\ Sight(Term!Shows(a, b)) = Sees(Sight(a), b)
    BY ShowsIs
  <2>2. Sight(a) \in Sights /\ b \in Bytes
    BY SightIs
  <2>3. QED
    BY <1>3, <1>4, <1>5, <2>1, <2>2
<1>7. QED
  BY <1>1, <1>2, <1>3, <1>4, <1>5, <1>6

-----------------------------------------------------------------------------
(* A whole piece of output.                                                *)

\* The automaton's end is that of going over the bytes.
LEMMA EndedIs ==
    ASSUME NEW a \in Accs, NEW s \in Seq(Bytes)
    PROVE  Term!Ended(a, s) = Run(ShowStep, a, s)
<1> DEFINE m == Len(s)
           After(h) == [n \in 0..m |-> IF n = 0 THEN a ELSE Term!Shows(h[n - 1], s[n])]
           after == CHOOSE h : h = After(h)
<1>1. m \in Nat /\ \A n \in 1..m : s[n] \in Bytes /\ n \in 0..m /\ n # 0 /\ n - 1 \in 0..m
  BY LenProperties, ElementOfSeq
<1>2. PICK g : Way(g, ShowStep, Accs, a, s)
  BY StepsAreSteps, RunSteps, Zenon
<1>3. /\ g \in [0..m -> Accs]
      /\ g[0] = a
      /\ \A n \in 1..m : g[n] = ShowStep[<<g[n - 1], s[n]>>]
  BY <1>2, Zenon DEF Way, Goes, m
<1> HIDE DEF m
<1>4. g = After(g)
  <2>1. \A n \in 1..m : g[n] = Term!Shows(g[n - 1], s[n])
    BY <1>1, <1>3, StepsAreSteps
  <2>2. \A n \in 0..m : n = 0 \/ n \in 1..m
    BY <1>1
  <2>3. \A n \in 0..m : g[n] = IF n = 0 THEN a ELSE Term!Shows(g[n - 1], s[n])
    BY <1>3, <2>1, <2>2
  <2>4. QED
    BY <1>3, <2>3
<1>5. after = After(after)
  BY <1>4, Zenon
<1>6. Term!Ended(a, s) = after[m]
  BY Zenon DEF Term!Ended, m
<1> HIDE DEF after
<1>7. after[0] = a /\ \A n \in 1..m : after[n] = Term!Shows(after[n - 1], s[n])
  BY <1>1, <1>5
<1>8. \A n \in 1..m : after[n - 1] \in Accs => after[n] \in Accs
  BY <1>1, <1>7, ShowsIs
<1>9. \A n \in 0..m : after[n] \in Accs
  <2>1. after[0] \in Accs
    BY <1>7
  <2>2. QED
    BY <1>1, <1>8, <2>1, Reached
<1>10. Goes(after, ShowStep, a, s)
  <2>1. \A n \in 1..m : after[n] = ShowStep[<<after[n - 1], s[n]>>]
    BY <1>1, <1>7, <1>9, StepsAreSteps
  <2>2. QED
    BY <1>7, <2>1 DEF Goes, m
<1>11. after[Len(s)] = Run(ShowStep, a, s)
  BY <1>10, StepsAreSteps, RunIs
<1>12. QED
  BY <1>6, <1>11 DEF m

\* What a unit does to the text.
Texts    == Seq(Bytes)
UnitStep == [p \in Texts \X Term!Units |-> Term!WithUnit(p[1], p[2])]

\* A text with one more unit is a text.
LEMMA WithUnitIs ==
    ASSUME NEW s \in Texts, NEW u \in Term!Units
    PROVE  Term!WithUnit(s, u) \in Texts
<1>1. Shorter(s) \in Seq(Bytes)
  BY ShorterIs DEF Texts
<1>2. Append(s, "a") \in Seq(Bytes) /\ Append(s, "t") \in Seq(Bytes)
  <2>1. "a" \in Bytes /\ "t" \in Bytes
    BY DEF Bytes
  <2>2. QED
    BY <2>1, AppendProperties DEF Texts
<1>3. CASE u = <<"bs">>
  BY <1>1, <1>3 DEF Term!WithUnit, Shorter, Texts
<1>4. CASE u = <<"a">>
  <2>1. u # <<"bs">> /\ u[Len(u)] = "a"
    BY <1>4
  <2>2. QED
    BY <1>2, <1>4, <2>1 DEF Term!WithUnit, Texts
<1>5. CASE u = <<"h", "t">>
  <2>1. u # <<"bs">> /\ u[Len(u)] = "t"
    BY <1>5
  <2>2. QED
    BY <1>2, <1>5, <2>1 DEF Term!WithUnit, Texts
<1>6. CASE u \notin {<<"bs">>, <<"a">>, <<"h", "t">>}
  BY <1>6 DEF Term!WithUnit
<1>7. QED
  BY <1>3, <1>4, <1>5, <1>6

\* Units are added to a text step by step.
LEMMA UnitSteps ==
    /\ IsStep(UnitStep, Texts, Term!Units) /\ <<>> \in Texts
    /\ \A s \in Texts, u \in Term!Units : UnitStep[<<s, u>>] = Term!WithUnit(s, u)
<1>1. IsStep(UnitStep, Texts, Term!Units)
  BY WithUnitIs DEF IsStep, UnitStep
<1>2. <<>> \in Texts
  BY EmptySeq DEF Texts
<1>3. QED
  BY <1>1, <1>2 DEF UnitStep

\* The text of the units is what the steps make of them.
LEMMA TextOfIs ==
    ASSUME NEW s \in Seq(Term!Units)
    PROVE  Term!TextOf(s) = Run(UnitStep, <<>>, s)
<1> DEFINE m == Len(s)
           a == <<>>
           Text(h) == [n \in 0..m |-> IF n = 0 THEN a ELSE Term!WithUnit(h[n - 1], s[n])]
           last == CHOOSE h : h = Text(h)
<1>1. m \in Nat /\ \A n \in 1..m : s[n] \in Term!Units /\ n \in 0..m /\ n # 0 /\ n - 1 \in 0..m
  BY LenProperties, ElementOfSeq
<1>2. a \in Texts
  BY UnitSteps
<1>2a. PICK g : Way(g, UnitStep, Texts, a, s)
  BY <1>2, UnitSteps, RunSteps, Zenon
<1>3. /\ g \in [0..m -> Texts]
      /\ g[0] = a
      /\ \A n \in 1..m : g[n] = UnitStep[<<g[n - 1], s[n]>>]
  BY <1>2a, Zenon DEF Way, Goes, m
<1> HIDE DEF m
<1>4. g = Text(g)
  <2>1. \A n \in 1..m : g[n] = Term!WithUnit(g[n - 1], s[n])
    BY <1>1, <1>3, UnitSteps
  <2>2. \A n \in 0..m : n = 0 \/ n \in 1..m
    BY <1>1
  <2>3. \A n \in 0..m : g[n] = IF n = 0 THEN a ELSE Term!WithUnit(g[n - 1], s[n])
    BY <1>3, <2>1, <2>2
  <2>4. QED
    BY <1>3, <2>3
<1>5. last = Text(last)
  BY <1>4, Zenon
<1>6. Term!TextOf(s) = last[m]
  BY Zenon DEF Term!TextOf, m
<1> HIDE DEF last
<1>7. last[0] = a /\ \A n \in 1..m : last[n] = Term!WithUnit(last[n - 1], s[n])
  BY <1>1, <1>5
<1>8. \A n \in 1..m : last[n - 1] \in Texts => last[n] \in Texts
  BY <1>1, <1>7, WithUnitIs
<1>9. \A n \in 0..m : last[n] \in Texts
  <2>1. last[0] \in Texts
    BY <1>2, <1>7
  <2>2. QED
    BY <1>1, <1>8, <2>1, Reached
<1>10. Goes(last, UnitStep, a, s)
  <2>1. \A n \in 1..m : last[n] = UnitStep[<<last[n - 1], s[n]>>]
    BY <1>1, <1>7, <1>9, UnitSteps
  <2>2. QED
    BY <1>7, <2>1 DEF Goes, m
<1>11. last[Len(s)] = Run(UnitStep, a, s)
  BY <1>2, <1>10, UnitSteps, RunIs
<1>12. QED
  BY <1>6, <1>11 DEF m

\* A reader of the text who sees a unit sees what the unit stands for.
AsText(s) == [state |-> "text", all |-> s]

\* The bytes of a unit show it.
LEMMA UnitIsSeen ==
    ASSUME NEW s \in Texts, NEW u \in Term!Units, u # Term!Clear
    PROVE  /\ u \in Seq(Bytes)
           /\ Run(SeeStep, AsText(s), u) = AsText(Term!WithUnit(s, u))
<1>0. /\ \A v \in Sights, b \in Bytes : SeeStep[<<v, b>>] = Sees(v, b) /\ Sees(v, b) \in Sights
      /\ IsStep(SeeStep, Sights, Bytes)
  BY StepsAreSteps, SeesStays
<1>1. \A x \in Texts : AsText(x) \in Sights
  BY DEF AsText, Sights, ParserStates, Texts
<1>2. ASSUME NEW v \in Sights, NEW b \in Bytes PROVE Run(SeeStep, v, <<b>>) = Sees(v, b)
  <2>1. Run(SeeStep, v, <<b>>) = SeeStep[<<v, b>>]
    BY <1>0, RunOne
  <2>2. QED
    BY <1>0, <2>1
<1>3. ASSUME NEW v \in Sights, NEW t \in Seq(Bytes), NEW b \in Bytes
      PROVE  Run(SeeStep, v, Append(t, b)) = Sees(Run(SeeStep, v, t), b)
  <2>1. Run(SeeStep, v, t) \in Sights
    BY <1>0, RunStays, Zenon
  <2>2. Run(SeeStep, v, Append(t, b)) = SeeStep[<<Run(SeeStep, v, t), b>>]
    BY <1>0, RunAppend
  <2>3. QED
    BY <1>0, <2>1, <2>2
<1>4. AsText(s).state = "text" /\ AsText(s).all = s
  BY DEF AsText
<1>5. {"a", "h", "t", "bs", "esc", "[", "m", "]", "bel"} \subseteq Bytes
  BY DEF Bytes
<1> DEFINE v0 == AsText(s)
<1>6. v0 \in Sights
  BY <1>1
<1> HIDE DEF v0
<1>7. CASE u = <<"bs">>
  <2>1. Run(SeeStep, v0, u) = Sees(v0, "bs")
    BY <1>2, <1>5, <1>6, <1>7
  <2>2. Sees(v0, "bs") = AsText(Shorter(s))
    BY <1>4 DEF Sees, AsText, v0
  <2>3. Term!WithUnit(s, u) = Shorter(s)
    BY <1>7 DEF Term!WithUnit, Shorter
  <2>4. u \in Seq(Bytes)
    BY <1>5, <1>7
  <2>5. QED
    BY <2>1, <2>2, <2>3, <2>4 DEF v0
<1>8. CASE u = <<"a">>
  <2>1. Run(SeeStep, v0, u) = Sees(v0, "a")
    BY <1>2, <1>5, <1>6, <1>8
  <2>2. Sees(v0, "a") = AsText(Append(s, "a"))
    BY <1>4 DEF Sees, AsText, v0
  <2>3. u # <<"bs">> /\ u[Len(u)] = "a"
    BY <1>8
  <2>4. Term!WithUnit(s, u) = Append(s, "a")
    BY <1>8, <2>3 DEF Term!WithUnit
  <2>5. u \in Seq(Bytes)
    BY <1>5, <1>8
  <2>6. QED
    BY <2>1, <2>2, <2>4, <2>5 DEF v0
<1>9. CASE u = <<"h", "t">>
  <2> DEFINE x == <<"h">>
  <2>1. u = Append(x, "t") /\ x \in Seq(Bytes)
    BY <1>5, <1>9
  <2>2. Run(SeeStep, v0, x) = Sees(v0, "h")
    BY <1>2, <1>5, <1>6
  <2> HIDE DEF x
  <2>3. Run(SeeStep, v0, u) = Sees(Sees(v0, "h"), "t")
    BY <1>3, <1>5, <1>6, <2>1, <2>2
  <2>4. Sees(v0, "h") = v0
    BY <1>4 DEF Sees, AsText, v0
  <2>5. Sees(v0, "t") = AsText(Append(s, "t"))
    BY <1>4 DEF Sees, AsText, v0
  <2>6. u # <<"bs">> /\ u[Len(u)] = "t" /\ u \in Seq(Bytes)
    BY <1>5, <1>9
  <2>7. Term!WithUnit(s, u) = Append(s, "t")
    BY <1>9, <2>6 DEF Term!WithUnit
  <2>8. QED
    BY <2>3, <2>4, <2>5, <2>6, <2>7 DEF v0
<1>10. CASE u = <<"esc", "[", "m">>
  <2> DEFINE x == <<"esc">>
             y == <<"esc", "[">>
  <2>1. u = Append(y, "m") /\ y = Append(x, "[") /\ x \in Seq(Bytes) /\ y \in Seq(Bytes)
    BY <1>5, <1>10
  <2>2. Run(SeeStep, v0, x) = Sees(v0, "esc")
    BY <1>2, <1>5, <1>6
  <2> HIDE DEF x, y
  <2>3. /\ Run(SeeStep, v0, y) = Sees(Run(SeeStep, v0, x), "[")
        /\ Run(SeeStep, v0, u) = Sees(Run(SeeStep, v0, y), "m")
    BY <1>3, <1>5, <1>6, <2>1
  <2> DEFINE v1 == [state |-> "escape", all |-> s]
             v2 == [state |-> "csi", all |-> s]
  <2>4. Sees(v0, "esc") = v1
    BY <1>4 DEF Sees, AsText, v0
  <2>5. Sees(v1, "[") = v2
    BY DEF Sees
  <2>6. Sees(v2, "m") = AsText(s)
    BY DEF Sees, AsText
  <2> HIDE DEF v1, v2
  <2>7. u \notin {<<"bs">>, <<"a">>, <<"h", "t">>} /\ u \in Seq(Bytes)
    BY <1>5, <1>10
  <2>8. Term!WithUnit(s, u) = s
    BY <2>7 DEF Term!WithUnit
  <2>9. QED
    BY <2>2, <2>3, <2>4, <2>5, <2>6, <2>7, <2>8 DEF v0
<1>11. CASE u = <<"esc", "]", "a", "bel">>
  <2> DEFINE x == <<"esc">>
             y == <<"esc", "]">>
             z == <<"esc", "]", "a">>
  <2>1. /\ u = Append(z, "bel") /\ z = Append(y, "a") /\ y = Append(x, "]")
        /\ x \in Seq(Bytes) /\ y \in Seq(Bytes) /\ z \in Seq(Bytes)
    BY <1>5, <1>11
  <2>2. Run(SeeStep, v0, x) = Sees(v0, "esc")
    BY <1>2, <1>5, <1>6
  <2> HIDE DEF x, y, z
  <2>3. /\ Run(SeeStep, v0, y) = Sees(Run(SeeStep, v0, x), "]")
        /\ Run(SeeStep, v0, z) = Sees(Run(SeeStep, v0, y), "a")
        /\ Run(SeeStep, v0, u) = Sees(Run(SeeStep, v0, z), "bel")
    <3>1. Run(SeeStep, v0, y) = Sees(Run(SeeStep, v0, x), "]")
      BY <1>3, <1>5, <1>6, <2>1
    <3>2. Run(SeeStep, v0, z) = Sees(Run(SeeStep, v0, y), "a")
      BY <1>3, <1>5, <1>6, <2>1
    <3>3. Run(SeeStep, v0, u) = Sees(Run(SeeStep, v0, z), "bel")
      BY <1>3, <1>5, <1>6, <2>1
    <3>4. QED
      BY <3>1, <3>2, <3>3
  <2> DEFINE v1 == [state |-> "escape", all |-> s]
             v2 == [state |-> "osc", all |-> s]
  <2>4. Sees(v0, "esc") = v1
    BY <1>4 DEF Sees, AsText, v0
  <2>5. Sees(v1, "]") = v2
    BY DEF Sees
  <2>6. Sees(v2, "a") = v2
    BY DEF Sees
  <2>7. Sees(v2, "bel") = AsText(s)
    BY DEF Sees, AsText
  <2> HIDE DEF v1, v2
  <2>8. u \notin {<<"bs">>, <<"a">>, <<"h", "t">>} /\ u \in Seq(Bytes)
    BY <1>5, <1>11
  <2>9. Term!WithUnit(s, u) = s
    BY <2>8 DEF Term!WithUnit
  <2>10. QED
    BY <2>2, <2>3, <2>4, <2>5, <2>6, <2>7, <2>8, <2>9 DEF v0
<1>12. QED
  BY <1>7, <1>8, <1>9, <1>10, <1>11 DEF Term!Units, Term!Clear

-----------------------------------------------------------------------------
(* The keys: what the shell got, what is in the kernel and what waits are  *)
(* the keys typed.                                                         *)

KeyTypes ==
    /\ typed \in Nat /\ got \in Seq(Nat) /\ toShell \in Seq(Nat) /\ pendingOut \in Seq(Nat)
    /\ Len(toShell) <= PtyRoom

KeysInv == KeyTypes /\ Term!TypedInOrder

\* The smaller of two numbers.
LEMMA LeastOfTwo ==
    ASSUME NEW i \in Int, NEW j \in Int
    PROVE  Term!Min({i, j}) = IF i <= j THEN i ELSE j
BY DEF Term!Min

\* What the kernel takes and the rest are the data, and it has room for it.
LEMMA TakenAndRest ==
    ASSUME KeyTypes, NEW d \in Seq(Nat)
    PROVE  /\ Term!Taken(d) \in Seq(Nat) /\ Term!Rest(d) \in Seq(Nat)
           /\ Term!Taken(d) \o Term!Rest(d) = d
           /\ Len(toShell) + Len(Term!Taken(d)) <= PtyRoom
<1> DEFINE k == Term!Fits(d)
<1>1. /\ Len(d) \in Nat /\ Len(toShell) \in Nat /\ PtyRoom - Len(toShell) \in Nat
      /\ PtyRoom \in Nat
  <2>1. Len(toShell) \in Nat /\ Len(d) \in Nat
    BY LenProperties DEF KeyTypes
  <2>2. QED
    BY <2>1, TerminalAssumption DEF KeyTypes
<1>2. k = IF Len(d) <= PtyRoom - Len(toShell) THEN Len(d) ELSE PtyRoom - Len(toShell)
  BY <1>1, LeastOfTwo DEF Term!Fits
<1> HIDE DEF k
<1>3. k \in 0..Len(d) /\ Len(toShell) + k <= PtyRoom
  BY <1>1, <1>2
<1> DEFINE a == SubSeq(d, 1, k)
           b == SubSeq(d, k + 1, Len(d))
<1>4. Term!Taken(d) = a /\ Term!Rest(d) = b
  BY Zenon DEF Term!Taken, Term!Rest, k
<1>5. a \in Seq(Nat) /\ b \in Seq(Nat) /\ Len(a) = k /\ a \o b = d
  BY <1>3, TwoParts
<1> HIDE DEF a, b
<1>6. QED
  BY <1>3, <1>4, <1>5

\* A key is typed, with an empty list of keys that wait and with others before it.
LEMMA KeyKeeps ==
    ASSUME KeysInv, Term!KeyPress
    PROVE  KeysInv'
<1> DEFINE all == (got \o toShell) \o pendingOut
           key == typed + 1
<1>0. KeyTypes /\ Term!TypedInOrder
  BY DEF KeysInv
<1>1. /\ typed' = key /\ got' = got /\ masterOpen' = masterOpen /\ child' = child
      /\ Term!Write(key)
  <2>1. typed' = typed + 1 /\ Term!Write(typed') /\ UNCHANGED <<masterOpen, child, got, exitShown>>
    BY Zenon DEF Term!KeyPress
  <2>2. Term!Write(typed + 1)
    BY <2>1 DEF Term!Write
  <2>3. QED
    BY <2>1, <2>2
<1>2. /\ typed \in Nat /\ got \in Seq(Nat) /\ toShell \in Seq(Nat) /\ pendingOut \in Seq(Nat)
      /\ Len(toShell) <= PtyRoom /\ key \in Nat
  BY <1>0 DEF KeyTypes
<1>3. Append(pendingOut, key) \in Seq(Nat) /\ pendingOut \o <<key>> = Append(pendingOut, key)
  BY <1>2, AppendProperties, AppendIsConcat
<1>4. /\ toShell' \in Seq(Nat) /\ pendingOut' \in Seq(Nat) /\ Len(toShell') <= PtyRoom
      /\ (got \o toShell') \o pendingOut' = Append(all, key)
  <2>1. CASE pendingOut # <<>>
    <3>1. pendingOut' = Append(pendingOut, key) /\ toShell' = toShell
      BY <1>1, <2>1 DEF Term!Write
    <3>2. PartAdded(got, toShell, pendingOut, key)
      BY <1>2, ThreeParts, Zenon
    <3>3. QED
      BY <1>2, <1>3, <3>1, <3>2 DEF PartAdded
  <2>2. CASE pendingOut = <<>>
    <3> DEFINE one == <<key>>
    <3>1. one \in Seq(Nat)
      BY <1>2
    <3>2. toShell' = toShell \o Term!Taken(one) /\ pendingOut' = Term!Rest(one)
      BY <1>1, <2>2 DEF Term!Write
    <3>3. Append(pendingOut, key) = one
      BY <2>2
    <3> HIDE DEF one
    <3>4. /\ Term!Taken(one) \in Seq(Nat) /\ Term!Rest(one) \in Seq(Nat)
          /\ Term!Taken(one) \o Term!Rest(one) = one
          /\ Len(toShell) + Len(Term!Taken(one)) <= PtyRoom
      BY <1>0, <3>1, TakenAndRest
    <3> DEFINE b == Term!Taken(one)
               c == Term!Rest(one)
    <3>5. /\ toShell \o b \in Seq(Nat) /\ Len(toShell \o b) = Len(toShell) + Len(b)
      BY <1>2, <3>4, ConcatProperties
    <3> HIDE DEF b, c
    <3>6. b \in Seq(Nat) /\ c \in Seq(Nat) /\ b \o c = one
      BY <3>4 DEF b, c
    <3>7. (got \o (toShell \o b)) \o c = (got \o toShell) \o one
      <4>1. PartMoved(got, toShell, b, c)
        BY <1>2, <3>6, ThreeParts, Zenon
      <4>2. QED
        BY <3>6, <4>1, Zenon DEF PartMoved
    <3>8. (got \o toShell) \o one = Append(all, key)
      <4>1. PartAdded(got, toShell, pendingOut, key)
        BY <1>2, ThreeParts, Zenon
      <4>2. QED
        BY <3>3, <4>1, Zenon DEF PartAdded
    <3>9. QED
      BY <3>2, <3>4, <3>5, <3>7, <3>8 DEF b, c
  <2>3. QED
    BY <2>1, <2>2
<1>5. writeNotifier' = (writeNotifier \/ pendingOut' # <<>>)
  BY <1>1 DEF Term!Write
<1>6. KeyTypes'
  BY <1>1, <1>2, <1>4 DEF KeyTypes
<1>7. ASSUME masterOpen', child' = "running"
      PROVE  (got' \o toShell') \o pendingOut' = UpTo(typed') /\ (pendingOut' # <<>> => writeNotifier')
  <2>1. all = UpTo(typed)
    BY <1>0, <1>1, <1>7 DEF Term!TypedInOrder, UpTo
  <2>2. Append(UpTo(typed), key) = UpTo(key)
    BY <1>2, UpToGrows
  <2>3. QED
    BY <1>1, <1>4, <1>5, <2>1, <2>2
<1>8. Term!TypedInOrder'
  BY <1>7 DEF Term!TypedInOrder, UpTo
<1>9. QED
  BY <1>6, <1>8 DEF KeysInv

\* The kernel takes more of what waits, or the write fails.
LEMMA WritableKeeps ==
    ASSUME KeysInv, Term!OnWritable
    PROVE  KeysInv'
<1>0. KeyTypes /\ Term!TypedInOrder
  BY DEF KeysInv
<1>1. /\ typed' = typed /\ got' = got /\ masterOpen' = masterOpen /\ child' = child
      /\ writeNotifier' = (pendingOut' # <<>>)
  BY DEF Term!OnWritable
<1>2. /\ typed \in Nat /\ got \in Seq(Nat) /\ toShell \in Seq(Nat) /\ pendingOut \in Seq(Nat)
      /\ Len(toShell) <= PtyRoom
  BY <1>0 DEF KeyTypes
<1>3. /\ toShell' \in Seq(Nat) /\ pendingOut' \in Seq(Nat) /\ Len(toShell') <= PtyRoom
      /\ child = "running" => (got \o toShell') \o pendingOut' = (got \o toShell) \o pendingOut
  <2>1. CASE child # "running"
    <3>1. pendingOut' = <<>> /\ toShell' = toShell
      BY <2>1 DEF Term!OnWritable
    <3>2. QED
      BY <1>2, <2>1, <3>1, EmptySeq
  <2>2. CASE child = "running"
    <3> DEFINE b == Term!Taken(pendingOut)
               c == Term!Rest(pendingOut)
    <3>1. toShell' = toShell \o b /\ pendingOut' = c
      BY <2>2 DEF Term!OnWritable
    <3>2. /\ b \in Seq(Nat) /\ c \in Seq(Nat) /\ b \o c = pendingOut
          /\ Len(toShell) + Len(b) <= PtyRoom
      BY <1>0, <1>2, TakenAndRest
    <3> HIDE DEF b, c
    <3>3. toShell \o b \in Seq(Nat) /\ Len(toShell \o b) = Len(toShell) + Len(b)
      BY <1>2, <3>2, ConcatProperties
    <3>4. PartMoved(got, toShell, b, c)
      BY <1>2, <3>2, ThreeParts, Zenon
    <3>5. (got \o (toShell \o b)) \o c = (got \o toShell) \o pendingOut
      BY <3>2, <3>4, Zenon DEF PartMoved
    <3>6. QED
      BY <3>1, <3>2, <3>3, <3>5
  <2>3. QED
    BY <2>1, <2>2
<1>4. KeyTypes'
  BY <1>1, <1>2, <1>3 DEF KeyTypes
<1>5. Term!TypedInOrder'
  BY <1>0, <1>1, <1>3 DEF Term!TypedInOrder
<1>6. QED
  BY <1>4, <1>5 DEF KeysInv

\* The shell reads the first key.
LEMMA ReadsKeeps ==
    ASSUME KeysInv, Term!ShellReads
    PROVE  KeysInv'
<1>0. KeyTypes /\ Term!TypedInOrder
  BY DEF KeysInv
<1>1. /\ typed' = typed /\ pendingOut' = pendingOut /\ masterOpen' = masterOpen /\ child' = child
      /\ writeNotifier' = writeNotifier /\ toShell # <<>>
      /\ got' = Append(got, toShell[1]) /\ toShell' = Tail(toShell)
  BY DEF Term!ShellReads
<1>2. /\ typed \in Nat /\ got \in Seq(Nat) /\ toShell \in Seq(Nat) /\ pendingOut \in Seq(Nat)
      /\ Len(toShell) <= PtyRoom
  BY <1>0 DEF KeyTypes
<1>3. Len(toShell) \in Nat \ {0}
  BY <1>1, <1>2, EmptySeq
<1>4. toShell[1] \in Nat
  BY <1>2, <1>3, ElementOfSeq
<1>5. /\ got' \in Seq(Nat) /\ toShell' \in Seq(Nat) /\ Len(toShell') = Len(toShell) - 1
  <2>1. Append(got, toShell[1]) \in Seq(Nat)
    BY <1>2, <1>4, AppendProperties
  <2>2. Tail(toShell) \in Seq(Nat) /\ Len(Tail(toShell)) = Len(toShell) - 1
    BY <1>1, <1>2, HeadTailProperties
  <2>3. QED
    BY <1>1, <2>1, <2>2
<1>6. KeyTypes'
  <2>1. Len(toShell') <= PtyRoom
    BY <1>2, <1>3, <1>5, TerminalAssumption
  <2>2. QED
    BY <1>0, <1>1, <1>5, <2>1, Zenon DEF KeyTypes
<1>7. PartRead(got, toShell, pendingOut)
  BY <1>1, <1>2, ThreeParts, Zenon
<1>8. (got' \o toShell') \o pendingOut' = (got \o toShell) \o pendingOut
  BY <1>1, <1>7, Zenon DEF PartRead
<1>9. Term!TypedInOrder'
  BY <1>0, <1>1, <1>8 DEF Term!TypedInOrder
<1>10. QED
  BY <1>6, <1>9 DEF KeysInv

\* The other steps leave the keys alone, or end the conversation.
LEMMA KeysInvHolds == Spec => []KeysInv
<1>1. ASSUME Init PROVE KeysInv
  <2>1. Term!Init
    BY <1>1 DEF Init
  <2>2. /\ typed = 0 /\ pendingOut = <<>> /\ toShell = <<>> /\ got = <<>>
    BY <2>1 DEF Term!Init
  <2>3. <<>> \in Seq(Nat) /\ Len(<<>>) = 0 /\ <<>> \o <<>> = <<>> /\ UpTo(0) = <<>>
    BY EmptySeq, ConcatEmptySeq DEF UpTo
  <2>4. KeyTypes
    BY <2>2, <2>3, TerminalAssumption DEF KeyTypes
  <2>5. (got \o toShell) \o pendingOut = UpTo(typed)
    BY <2>2, <2>3
  <2>6. QED
    BY <2>2, <2>4, <2>5, Zenon DEF KeysInv, Term!TypedInOrder, UpTo
<1>2. ASSUME KeysInv, [Next]_vars PROVE KeysInv'
  <2>1. CASE Term!KeyPress
    BY <1>2, <2>1, KeyKeeps
  <2>2. CASE Term!OnWritable
    BY <1>2, <2>2, WritableKeeps
  <2>3. CASE Term!ShellReads
    BY <1>2, <2>3, ReadsKeeps
  <2>4. ASSUME typed' = typed, got' = got, toShell' = toShell,
               \/ pendingOut' = pendingOut /\ writeNotifier' = writeNotifier
                  /\ (masterOpen' => masterOpen) /\ (child' = "running" => child = "running")
               \/ pendingOut' = <<>> /\ masterOpen' = FALSE
        PROVE  KeysInv'
    <3>1. pendingOut' \in Seq(Nat)
      BY <1>2, <2>4, EmptySeq DEF KeysInv, KeyTypes
    <3>2. KeyTypes'
      BY <1>2, <2>4, <3>1 DEF KeysInv, KeyTypes
    <3>3. Term!TypedInOrder'
      BY <1>2, <2>4, Zenon DEF KeysInv, Term!TypedInOrder
    <3>4. QED
      BY <3>2, <3>3 DEF KeysInv
  <2>5. CASE Term!OnEof
    <3>1. UNCHANGED Term!inputVars /\ masterOpen' = FALSE
      BY <2>5, Zenon DEF Term!OnEof
    <3>2. QED
      BY <2>4, <2>5, <3>1 DEF Term!OnEof, Term!ReapChild, Term!inputVars
  <2>6. CASE \E n \in 1..Len(toWindow) : Term!OnReadable(n)
    <3>1. UNCHANGED <<masterOpen, child, Term!inputVars>>
      BY <2>6, Zenon DEF Term!OnReadable
    <3>2. QED
      BY <2>4, <3>1 DEF Term!inputVars
  <2>7. CASE Term!ShellEnds
    <3>1. UNCHANGED <<masterOpen, Term!inputVars>> /\ child' # "running"
      BY <2>7 DEF Term!ShellEnds
    <3>2. QED
      BY <2>4, <3>1 DEF Term!inputVars
  <2>8. CASE Term!CloseWindow
    BY <2>4, <2>8 DEF Term!CloseWindow
  <2>9. CASE \E u \in Term!Units : Term!ShellPrints(u)
    <3>1. UNCHANGED <<masterOpen, child, Term!inputVars>>
      BY <2>9, Zenon DEF Term!ShellPrints
    <3>2. QED
      BY <2>4, <3>1 DEF Term!inputVars
  <2>10. CASE UNCHANGED terminalVars
    BY <2>4, <2>10 DEF terminalVars
  <2>11. QED
    BY <1>2, <2>1, <2>2, <2>3, <2>5, <2>6, <2>7, <2>8, <2>9, <2>10, TermAlone, Zenon
       DEF Term!Next
<1>3. QED
  BY <1>1, <1>2, PTL DEF Spec

-----------------------------------------------------------------------------
(* The output: what the reader will see once the bytes in the kernel and   *)
(* the first half of a character have been read is the text of the units.  *)

Coming    == pendingUtf8 \o toWindow
Plain(s)  == \A i \in DOMAIN s : s[i] # "J"
Closed(s) == s # <<>> => s[Len(s)] # "h"
Cleared   == \E i \in DOMAIN printed : printed[i] = Term!Clear

OutTypes ==
    /\ printed \in Seq(Term!Units) /\ toWindow \in Seq(Bytes) /\ parser \in ParserStates
    /\ pendingUtf8 \in {<<>>, <<"h">>} /\ document \in Seq(Bytes)

Reads(v, s) == Run(SeeStep, v, s) = AsText(Term!TextOf(printed))

OutInv ==
    /\ OutTypes
    /\ ~Cleared => Plain(Coming) /\ Closed(Coming) /\ Reads([state |-> parser, all |-> document], Coming)

\* The lists that the invariant is about.
LEMMA OutLists ==
    ASSUME OutTypes
    PROVE  /\ pendingUtf8 \in Seq(Bytes) /\ Coming \in Seq(Bytes)
           /\ [state |-> parser, all |-> document] \in Sights
           /\ Term!TextOf(printed) \in Texts
<1>1. pendingUtf8 \in Seq(Bytes)
  <2>1. <<>> \in Seq(Bytes)
    BY EmptySeq
  <2>2. <<"h">> \in Seq(Bytes)
    BY DEF Bytes
  <2>3. QED
    BY <2>1, <2>2 DEF OutTypes
<1>2. Coming \in Seq(Bytes)
  BY <1>1, ConcatProperties DEF OutTypes, Coming
<1>3. [state |-> parser, all |-> document] \in Sights
  BY DEF OutTypes, Sights
<1>4. printed \in Seq(Term!Units)
  BY DEF OutTypes
<1>5. Run(UnitStep, <<>>, printed) \in Texts
  BY <1>4, UnitSteps, RunStays, Zenon
<1>6. Term!TextOf(printed) \in Texts
  BY <1>4, <1>5, TextOfIs
<1>7. QED
  BY <1>1, <1>2, <1>3, <1>6, Zenon

\* A list that ends with another one, and one that goes on.
LEMMA PlainEnds ==
    ASSUME NEW s \in Seq(Bytes), NEW t \in Seq(Bytes)
    PROVE  /\ Plain(s \o t) <=> Plain(s) /\ Plain(t)
           /\ t # <<>> => (Closed(s \o t) <=> Closed(t))
<1> DEFINE u == s \o t
<1>1. Len(s) \in Nat /\ Len(t) \in Nat /\ DOMAIN s = 1..Len(s) /\ DOMAIN t = 1..Len(t)
  BY LenProperties
<1>2. /\ u \in Seq(Bytes) /\ Len(u) = Len(s) + Len(t)
      /\ \A i \in 1..(Len(s) + Len(t)) : u[i] = IF i <= Len(s) THEN s[i] ELSE t[i - Len(s)]
  BY ConcatProperties
<1> HIDE DEF u
<1>3. DOMAIN u = 1..(Len(s) + Len(t))
  BY <1>2, LenProperties
<1>4. ASSUME Plain(u) PROVE Plain(s) /\ Plain(t)
  <2>1. ASSUME NEW i \in DOMAIN s PROVE s[i] # "J"
    <3>1. i \in DOMAIN u /\ u[i] = s[i]
      BY <1>1, <1>2, <1>3
    <3>2. QED
      BY <1>4, <3>1 DEF Plain
  <2>2. ASSUME NEW i \in DOMAIN t PROVE t[i] # "J"
    <3>1. Len(s) + i \in DOMAIN u /\ ~(Len(s) + i <= Len(s)) /\ (Len(s) + i) - Len(s) = i
      BY <1>1, <1>3
    <3>2. u[Len(s) + i] = t[i]
      BY <1>2, <1>3, <3>1
    <3>3. QED
      BY <1>4, <3>1, <3>2 DEF Plain
  <2>3. QED
    BY <2>1, <2>2 DEF Plain
<1>5. ASSUME Plain(s), Plain(t) PROVE Plain(u)
  <2>1. SUFFICES ASSUME NEW i \in DOMAIN u PROVE u[i] # "J"
    BY DEF Plain
  <2>2. CASE i <= Len(s)
    BY <1>1, <1>2, <1>3, <1>5, <2>2 DEF Plain
  <2>3. CASE ~(i <= Len(s))
    <3>1. i - Len(s) \in DOMAIN t
      BY <1>1, <1>3, <2>3
    <3>2. QED
      BY <1>2, <1>3, <1>5, <2>3, <3>1 DEF Plain
  <2>4. QED
    BY <2>2, <2>3
<1>6. ASSUME t # <<>> PROVE Closed(u) <=> Closed(t)
  <2>1. Len(t) # 0
    BY <1>6, EmptySeq
  <2>2. Len(u) \in 1..(Len(s) + Len(t)) /\ ~(Len(u) <= Len(s)) /\ Len(u) - Len(s) = Len(t)
    BY <1>1, <1>2, <2>1
  <2>3. u[Len(u)] = t[Len(t)]
    BY <1>2, <2>2
  <2>4. u # <<>>
    BY <1>2, <2>2, EmptySeq
  <2>5. QED
    BY <1>6, <2>3, <2>4 DEF Closed
<1>7. QED
  BY <1>4, <1>5, <1>6 DEF u

\* A unit is whole, and only the one that clears holds a "J".
LEMMA UnitBytes ==
    ASSUME NEW u \in Term!Units
    PROVE  u \in Seq(Bytes) /\ u # <<>> /\ Closed(u) /\ (u # Term!Clear => Plain(u))
<1>1. {"a", "h", "t", "bs", "esc", "[", "m", "]", "bel", "J"} \subseteq Bytes
  BY DEF Bytes
<1>2. CASE u = <<"a">>
  BY <1>1, <1>2 DEF Closed, Plain
<1>3. CASE u = <<"h", "t">>
  BY <1>1, <1>3 DEF Closed, Plain
<1>4. CASE u = <<"bs">>
  BY <1>1, <1>4 DEF Closed, Plain
<1>5. CASE u = <<"esc", "[", "m">>
  BY <1>1, <1>5 DEF Closed, Plain
<1>6. CASE u = <<"esc", "]", "a", "bel">>
  BY <1>1, <1>6 DEF Closed, Plain
<1>7. CASE u = <<"esc", "[", "J">>
  BY <1>1, <1>7 DEF Closed, Term!Clear
<1>8. QED
  BY <1>2, <1>3, <1>4, <1>5, <1>6, <1>7 DEF Term!Units

\* The shell prints a unit.
LEMMA PrintKeeps ==
    ASSUME OutInv, NEW u \in Term!Units, Term!ShellPrints(u)
    PROVE  OutInv'
<1> DEFINE v == [state |-> parser, all |-> document]
           t == Term!TextOf(printed)
           more == Append(printed, u)
           s == Coming
<1>1. /\ printed' = more /\ toWindow' = toWindow \o u
      /\ parser' = parser /\ pendingUtf8' = pendingUtf8 /\ document' = document
  BY DEF Term!ShellPrints
<1>2. /\ printed \in Seq(Term!Units) /\ toWindow \in Seq(Bytes) /\ OutTypes
      /\ pendingUtf8 \in Seq(Bytes) /\ s \in Seq(Bytes) /\ v \in Sights /\ t \in Texts
  BY OutLists DEF OutInv, OutTypes
<1>3. u \in Seq(Bytes) /\ u # <<>> /\ Closed(u) /\ (u # Term!Clear => Plain(u))
  BY UnitBytes
<1>4. /\ more \in Seq(Term!Units) /\ Len(more) = Len(printed) + 1 /\ more[Len(printed) + 1] = u
      /\ \A i \in 1..Len(printed) : more[i] = printed[i]
      /\ Len(printed) \in Nat /\ DOMAIN printed = 1..Len(printed)
      /\ DOMAIN more = 1..(Len(printed) + 1)
  <2>1. /\ more \in Seq(Term!Units) /\ Len(more) = Len(printed) + 1 /\ more[Len(printed) + 1] = u
        /\ \A i \in 1..Len(printed) : more[i] = printed[i]
    BY <1>2, AppendProperties
  <2>2. Len(printed) \in Nat /\ DOMAIN printed = 1..Len(printed)
    BY <1>2, LenProperties
  <2> HIDE DEF more
  <2>3. DOMAIN more = 1..(Len(printed) + 1)
    BY <2>1, LenProperties
  <2>4. QED
    BY <2>1, <2>2, <2>3
<1>5. Term!TextOf(more) = Term!WithUnit(t, u)
  <2>1. Run(UnitStep, <<>>, more) = UnitStep[<<Run(UnitStep, <<>>, printed), u>>]
    BY <1>2, UnitSteps, RunAppend
  <2>2. Run(UnitStep, <<>>, printed) = t /\ Run(UnitStep, <<>>, more) = Term!TextOf(more)
    BY <1>2, <1>4, TextOfIs
  <2>3. QED
    BY <1>2, <2>1, <2>2, UnitSteps
<1>6. Coming' = s \o u
  <2>1. Associates(pendingUtf8, toWindow, u)
    BY <1>2, <1>3, ConcatsAssociate, Zenon
  <2>2. Coming' = pendingUtf8 \o (toWindow \o u)
    BY <1>1, Zenon DEF Coming
  <2>3. QED
    BY <2>1, <2>2, Zenon DEF Associates, Coming
<1>7. toWindow' \in Seq(Bytes)
  BY <1>1, <1>2, <1>3, ConcatProperties
<1>8. OutTypes'
  BY <1>1, <1>2, <1>4, <1>7 DEF OutTypes
<1> HIDE DEF s, t, more
<1>9. ASSUME ~Cleared'
      PROVE  Plain(Coming') /\ Closed(Coming') /\ Run(SeeStep, v, Coming') = AsText(Term!TextOf(more))
  <2>1. u # Term!Clear /\ ~Cleared
    <3>1. \A i \in DOMAIN more : more[i] # Term!Clear
      BY <1>1, <1>9 DEF Cleared
    <3>2. u # Term!Clear
      BY <1>4, <3>1
    <3>3. \A i \in 1..Len(printed) : printed[i] # Term!Clear
      BY <1>4, <3>1
    <3>4. QED
      BY <1>4, <3>2, <3>3 DEF Cleared
  <2>2. Plain(s) /\ Run(SeeStep, v, s) = AsText(t)
    BY <2>1 DEF OutInv, Reads, s, t
  <2>3. Plain(s \o u) /\ Closed(s \o u)
    BY <1>2, <1>3, <2>1, <2>2, PlainEnds
  <2>4. Run(SeeStep, v, s \o u) = Run(SeeStep, AsText(t), u)
    <3>1. Run(SeeStep, v, s \o u) = Run(SeeStep, Run(SeeStep, v, s), u)
      BY <1>2, <1>3, StepsAreSteps, RunConcat
    <3>2. QED
      BY <2>2, <3>1
  <2>5. Run(SeeStep, AsText(t), u) = AsText(Term!WithUnit(t, u))
    BY <1>2, <2>1, UnitIsSeen
  <2>6. QED
    BY <1>5, <1>6, <2>3, <2>4, <2>5
<1>10. QED
  BY <1>1, <1>8, <1>9 DEF OutInv, Reads

\* What a read leaves: all of the piece but the first half of a character at its end.
LEMMA LeftIs ==
    ASSUME NEW f \in Seq(Bytes)
    PROVE  /\ Term!Whole(f) \in 0..Len(f)
           /\ SubSeq(f, Term!Whole(f) + 1, Len(f)) \in {<<>>, <<"h">>}
<1> DEFINE m == Len(f)
           k == Term!Whole(f)
           r == SubSeq(f, k + 1, m)
<1>1. m \in Nat
  BY LenProperties
<1>2. CASE f # <<>> /\ f[m] = "h"
  <2>1. m \in Nat \ {0} /\ k = m - 1
    BY <1>2, EmptySeq DEF Term!Whole
  <2>2. k \in 0..m /\ m - k = 1 /\ k + 1 = m
    BY <2>1
  <2> HIDE DEF k
  <2>3. r \in Seq(Bytes) /\ Len(r) = 1 /\ r[1] = f[m]
    <3>1. r \in Seq(Bytes) /\ Len(r) = m - k /\ \A i \in 1..(m - k) : r[i] = f[k + i]
      BY <1>1, <2>2, RestOf
    <3> HIDE DEF r
    <3>2. QED
      BY <2>2, <3>1
  <2> HIDE DEF r
  <2>4. r = <<"h">>
    BY <1>2, <2>3
  <2>5. QED
    BY <2>2, <2>4 DEF r, k
<1>3. CASE ~(f # <<>> /\ f[m] = "h")
  <2>1. k = m
    BY <1>3 DEF Term!Whole
  <2>2. r = <<>>
    <3>1. m < k + 1 /\ k + 1 \in Int /\ m \in Int
      BY <1>1, <2>1
    <3>2. QED
      BY <3>1, SubSeqEmpty
  <2>3. QED
    BY <1>1, <2>1, <2>2
<1>4. QED
  BY <1>2, <1>3

\* A piece is read.
LEMMA ReadKeeps ==
    ASSUME OutInv, NEW n \in 1..Len(toWindow), Term!OnReadable(n)
    PROVE  OutInv'
<1> DEFINE v == [state |-> parser, all |-> document]
           full == pendingUtf8 \o SubSeq(toWindow, 1, n)
           k == Term!Whole(full)
           front == SubSeq(full, 1, k)
           left == SubSeq(full, k + 1, Len(full))
           rest == SubSeq(toWindow, n + 1, Len(toWindow))
           a == [state |-> parser, text |-> <<>>, shown |-> document]
           e == Term!Ended(a, front)
           u == left \o rest
<1>1. /\ pendingUtf8' = left /\ toWindow' = rest /\ printed' = printed
      /\ parser' = e.state /\ document' = e.shown \o e.text
  BY Zenon DEF Term!OnReadable, Term!AppendAnsi
<1>2. /\ OutTypes /\ toWindow \in Seq(Bytes) /\ pendingUtf8 \in Seq(Bytes) /\ v \in Sights
      /\ n \in 0..Len(toWindow) /\ parser \in ParserStates /\ document \in Seq(Bytes)
  <2>1. OutTypes
    BY DEF OutInv
  <2>2. /\ toWindow \in Seq(Bytes) /\ pendingUtf8 \in Seq(Bytes) /\ v \in Sights
        /\ parser \in ParserStates /\ document \in Seq(Bytes)
    BY <2>1, OutLists DEF OutTypes
  <2>3. n \in 0..Len(toWindow)
    BY <2>2, LenProperties
  <2>4. QED
    BY <2>1, <2>2, <2>3
<1>3. full \in Seq(Bytes)
  <2>1. SubSeq(toWindow, 1, n) \in Seq(Bytes)
    BY <1>2, TwoParts
  <2>2. QED
    BY <1>2, <2>1, ConcatProperties
<1>4. k \in 0..Len(full) /\ left \in {<<>>, <<"h">>}
  BY <1>3, LeftIs
<1>5. /\ front \in Seq(Bytes) /\ left \in Seq(Bytes) /\ rest \in Seq(Bytes)
      /\ front \o u = Coming
  <2>1. k \in 0..Len(pendingUtf8 \o SubSeq(toWindow, 1, n))
    BY <1>4
  <2> HIDE DEF k
  <2>2. CutFine(Bytes, pendingUtf8, toWindow, n, k)
    BY <1>2, <2>1, CutAnywhere
  <2>3. QED
    BY <2>2, Zenon DEF CutFine, Coming
<1>6. a \in Accs /\ Sight(a) = v
  <2>1. <<>> \in Seq(Bytes) /\ document \o <<>> = document
    BY <1>2, EmptySeq, ConcatEmptySeq
  <2>2. QED
    BY <1>2, <2>1 DEF Accs, Sight
<1> HIDE DEF full, k, front, left, rest, a, v
<1>7. u \in Seq(Bytes) /\ Coming' = u
  BY <1>1, <1>5, ConcatProperties DEF Coming
<1>8. e = Run(ShowStep, a, front) /\ e \in Accs
  <2>1. e = Run(ShowStep, a, front)
    BY <1>5, <1>6, EndedIs
  <2>2. Run(ShowStep, a, front) \in Accs
    BY <1>5, <1>6, StepsAreSteps, RunStays, Zenon
  <2>3. QED
    BY <2>1, <2>2
<1> HIDE DEF e, u
<1>9. parser' \in ParserStates /\ document' \in Seq(Bytes)
  BY <1>1, <1>8, ConcatProperties DEF Accs
<1>10. OutTypes'
  BY <1>1, <1>2, <1>4, <1>5, <1>9 DEF OutTypes
<1>11. [state |-> parser', all |-> document'] = Sight(e)
  BY <1>1 DEF Sight
<1>12. ASSUME ~Cleared'
       PROVE  /\ Plain(u) /\ Closed(u)
              /\ Run(SeeStep, Sight(e), u) = AsText(Term!TextOf(printed))
  <2>1. ~Cleared
    BY <1>1, <1>12 DEF Cleared
  <2>2. /\ Plain(Coming) /\ Closed(Coming)
        /\ Run(SeeStep, v, Coming) = AsText(Term!TextOf(printed))
    BY <2>1 DEF OutInv, Reads, v
  <2>3. Plain(front) /\ Plain(u) /\ (u # <<>> => Closed(u))
    BY <1>5, <1>7, <2>2, PlainEnds
  <2>4. Closed(u)
    BY <2>3 DEF Closed
  <2> DEFINE Z == Bytes \ {"J"}
  <2>5. \A i \in DOMAIN front : front[i] \in Z
    <3>1. \A i \in DOMAIN front : front[i] \in Bytes
      BY <1>5, LenProperties, ElementOfSeq
    <3>2. QED
      BY <2>3, <3>1 DEF Plain
  <2>6. Z \in SUBSET Bytes /\ Follows(Seen, ShowStep, SeeStep, Accs, Z)
    BY StepsAreSteps DEF Follows
  <2>6a. /\ IsStep(ShowStep, Accs, Bytes) /\ IsStep(SeeStep, Sights, Bytes)
         /\ Seen \in [Accs -> Sights]
    BY StepsAreSteps
  <2> HIDE DEF Z
  <2>7. SameEnd(Seen, ShowStep, SeeStep, a, front)
    BY <1>5, <1>6, <2>5, <2>6, <2>6a, RunFollows
  <2>8. Sight(e) = Run(SeeStep, v, front)
    BY <1>6, <1>8, <2>7 DEF Seen, SameEnd
  <2>9. v \in Sights /\ front \in Seq(Bytes) /\ u \in Seq(Bytes)
    BY <1>2, <1>5, <1>7
  <2>10. Run(SeeStep, v, front \o u) = Run(SeeStep, Run(SeeStep, v, front), u)
    BY <2>6a, <2>9, RunConcat
  <2>11. QED
    BY <1>5, <2>2, <2>3, <2>4, <2>8, <2>10
<1>13. QED
  BY <1>1, <1>7, <1>10, <1>11, <1>12 DEF OutInv, Reads

\* The other steps leave the output alone.
LEMMA OutInvHolds == Spec => []OutInv
<1>1. ASSUME Init PROVE OutInv
  <2>1. Term!Init
    BY <1>1 DEF Init
  <2>2. /\ printed = <<>> /\ toWindow = <<>> /\ parser = "text" /\ pendingUtf8 = <<>>
        /\ document = <<>>
    BY <2>1 DEF Term!Init
  <2>3. /\ <<>> \in Seq(Bytes) /\ <<>> \in Seq(Term!Units) /\ Len(<<>>) = 0
        /\ <<>> \o <<>> = <<>> /\ DOMAIN <<>> = {}
    BY EmptySeq, ConcatEmptySeq
  <2>4. OutTypes
    BY <2>2, <2>3 DEF OutTypes, ParserStates
  <2>5. Coming = <<>> /\ Plain(Coming) /\ Closed(Coming)
    BY <2>2, <2>3 DEF Coming, Plain, Closed
  <2>6. Term!TextOf(printed) = <<>>
    BY <2>2, <2>3, TextOfIs, UnitSteps, RunEmpty
  <2> DEFINE v == [state |-> parser, all |-> document]
  <2>7. v \in Sights
    BY <2>4, OutLists
  <2>8. v = AsText(Term!TextOf(printed))
    BY <2>2, <2>6 DEF AsText
  <2> HIDE DEF v
  <2>9. Run(SeeStep, v, <<>>) = v
    BY <2>7, StepsAreSteps, RunEmpty
  <2>10. Reads(v, Coming)
    BY <2>5, <2>8, <2>9 DEF Reads
  <2>11. QED
    BY <2>4, <2>5, <2>10 DEF OutInv, v
<1>2. ASSUME OutInv, UNCHANGED Term!outputVars PROVE OutInv'
  <2>1. UNCHANGED <<printed, toWindow, parser, pendingUtf8, document>>
    BY <1>2, Zenon DEF Term!outputVars
  <2>2. QED
    BY <1>2, <2>1, Zenon DEF OutInv, OutTypes, Reads, Cleared, Coming
<1>3. ASSUME OutInv, [Next]_vars PROVE OutInv'
  <2>1. CASE \E n \in 1..Len(toWindow) : Term!OnReadable(n)
    BY <1>3, <2>1, ReadKeeps, Zenon
  <2>2. CASE \E u \in Term!Units : Term!ShellPrints(u)
    BY <1>3, <2>2, PrintKeeps, Zenon
  <2>3. CASE \/ Term!KeyPress \/ Term!OnWritable \/ Term!OnEof \/ Term!ShellReads
             \/ Term!ShellEnds \/ Term!CloseWindow \/ UNCHANGED terminalVars
    <3>1. Term!KeyPress => UNCHANGED Term!outputVars
      BY Zenon DEF Term!KeyPress
    <3>2. Term!OnWritable => UNCHANGED Term!outputVars
      BY Zenon DEF Term!OnWritable
    <3>3. Term!OnEof => UNCHANGED Term!outputVars
      BY Zenon DEF Term!OnEof
    <3>4. Term!ShellReads => UNCHANGED Term!outputVars
      BY Zenon DEF Term!ShellReads
    <3>5. Term!ShellEnds => UNCHANGED Term!outputVars
      BY Zenon DEF Term!ShellEnds
    <3>6. Term!CloseWindow => UNCHANGED Term!outputVars
      BY Zenon DEF Term!CloseWindow
    <3>7. UNCHANGED terminalVars => UNCHANGED Term!outputVars
      BY DEF terminalVars, Term!outputVars
    <3>8. QED
      BY <1>2, <1>3, <2>3, <3>1, <3>2, <3>3, <3>4, <3>5, <3>6, <3>7, Zenon
  <2>4. QED
    BY <1>3, <2>1, <2>2, <2>3, TermAlone, Zenon DEF Term!Next
<1>4. QED
  BY <1>1, <1>3, PTL DEF Spec

\* The terminal hides the kernel's buffer and the pieces: whatever room there is, however
\* many keys are typed and units printed and wherever the output is cut, a running shell
\* gets the keys in order, and the window shows the text that was printed.
THEOREM TerminalStaysTransparent == Spec => []TerminalIsTransparent
<1>1. ASSUME KeysInv, OutInv PROVE TerminalIsTransparent
  <2>1. Term!TypedInOrder
    BY <1>1 DEF KeysInv
  <2>2. ASSUME toWindow = <<>>, ~Term!Contains(printed, Term!Clear)
        PROVE  parser = "text" /\ pendingUtf8 = <<>> /\ document = Term!TextOf(printed)
    <3> DEFINE v == [state |-> parser, all |-> document]
    <3>1. OutTypes /\ pendingUtf8 \in Seq(Bytes) /\ v \in Sights
      BY <1>1, OutLists DEF OutInv
    <3>2. Coming = pendingUtf8
      BY <2>2, <3>1, ConcatEmptySeq DEF Coming
    <3>3. ~Cleared
      <4>1. DOMAIN printed = 1..Len(printed)
        BY <3>1, LenProperties DEF OutTypes
      <4>2. QED
        BY <2>2, <4>1 DEF Cleared, Term!Contains
    <3>4. Closed(pendingUtf8) /\ Run(SeeStep, v, pendingUtf8) = AsText(Term!TextOf(printed))
      BY <1>1, <3>2, <3>3 DEF OutInv, Reads
    <3>5. pendingUtf8 = <<>>
      <4>1. pendingUtf8 # <<"h">>
        BY <3>4 DEF Closed
      <4>2. QED
        BY <3>1, <4>1 DEF OutTypes
    <3> HIDE DEF v
    <3>6. Run(SeeStep, v, <<>>) = v
      BY <3>1, StepsAreSteps, RunEmpty
    <3>7. v = AsText(Term!TextOf(printed))
      BY <3>4, <3>5, <3>6
    <3>8. QED
      BY <3>5, <3>7 DEF v, AsText
  <2>3. Term!TextIsWhole
    BY <2>2 DEF Term!TextIsWhole
  <2>4. QED
    BY <2>1, <2>3 DEF TerminalIsTransparent
<1>2. QED
  BY <1>1, KeysInvHolds, OutInvHolds, PTL
==============================================================================
