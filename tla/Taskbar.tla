-------------------------------- MODULE Taskbar --------------------------------
(***************************************************************************)
(* The window list of the taskbar: the compositor keeps a handle for every *)
(* window (View::createForeignToplevel) and tells the shell of it by       *)
(* events, which arrive one by one and in order; ForeignToplevelHandle     *)
(* collects them, and "done" makes its TaskbarButton draw what it has.  A  *)
(* click asks the compositor to activate a window, which may have closed   *)
(* by then.  A window's handle is never used again.                        *)
(***************************************************************************)
EXTENDS Integers, Sequences, FiniteSets

CONSTANTS
    NumWindows,    \* all windows there will ever be
    Blank,         \* an empty title, or program name
    Titles,        \* other titles
    MaxWire,       \* bound on events under way
    MaxAsked,      \* bound on requests under way
    MaxTitles      \* bound on title changes

VARIABLES
    tops,          \* the compositor's windows
    dirty,         \* handles whose "done" wlroots still has to send
    wire,          \* events on their way to the shell
    listening,     \* the shell runs and its manager is bound
    handles,       \* ForeignToplevelManager::handles_
    buttons,       \* TaskbarWindow's buttons, as drawn
    asked,         \* activate requests on their way to the compositor
    retitled

barVars == <<tops, dirty, wire, listening, handles, buttons, asked, retitled>>

NotYet == [phase |-> "never", title |-> Blank, minimized |-> FALSE, activated |-> FALSE]
Alive(w) == tops[w].phase \in {"created", "mapped"}
Windows == 1..NumWindows
StateOf(t) == {s \in {"activated", "minimized"} : t[s]}

\* createForeignToplevel and the other senders: an event only goes to a shell that listens.
Sends(events, due) ==
    /\ wire' = IF listening THEN wire \o events ELSE wire
    /\ dirty' = IF listening THEN due ELSE {}

Init ==
    /\ tops = [w \in Windows |-> NotYet]
    /\ dirty = {} /\ wire = <<>> /\ asked = <<>> /\ retitled = 0
    /\ listening = FALSE
    /\ handles = <<>> /\ buttons = <<>>

Fits(n) == Len(wire) + n <= MaxWire
ShellUnchanged == UNCHANGED <<listening, handles, buttons>>

-----------------------------------------------------------------------------
(* The compositor.                                                         *)

\* A window has its handle, and so its button, before it is mapped.
CreateForeignToplevel(w, title) ==
    /\ tops[w].phase = "never" /\ Fits(3)
    /\ tops' = [tops EXCEPT ![w].phase = "created", ![w].title = title]
    /\ Sends(<< <<"toplevel", w>>, <<"title", w, title>>, <<"state", w, {}>> >>, dirty \union {w})
    /\ ShellUnchanged /\ UNCHANGED <<asked, retitled>>

SetTitle(w, title) ==
    /\ Alive(w) /\ title # tops[w].title /\ Fits(1)
    /\ retitled < MaxTitles /\ retitled' = retitled + 1
    /\ tops' = [tops EXCEPT ![w].title = title]
    /\ Sends(<< <<"title", w, title>> >>, dirty \union {w})
    /\ ShellUnchanged /\ UNCHANGED asked

\* The windows of S in the order of a list of the compositor.
Orders(S) == {s \in [1..Cardinality(S) -> S] : \A w \in S : \E i \in DOMAIN s : s[i] = w}

\* setActivated on every window, and setMinimized: only a change sends, the whole state.
Activated(w) ==
    [x \in Windows |-> [tops[x] EXCEPT !.activated = Alive(x) /\ x = w,
                                       !.minimized = @ /\ x # w]]
StateEvents(ts, order) ==
    [i \in DOMAIN order |-> <<"state", order[i], StateOf(ts[order[i]])>>]
SendsStates(ts) ==
    LET changed == {x \in Windows : StateOf(ts[x]) # StateOf(tops[x])}
    IN  /\ Fits(Cardinality(changed))
        /\ \E order \in Orders(changed) :
               Sends(StateEvents(ts, order), dirty \union changed)

Map(w) ==
    /\ tops[w].phase = "created"
    /\ LET ts == [Activated(w) EXCEPT ![w].phase = "mapped"]
       IN  tops' = ts /\ SendsStates(ts)
    /\ ShellUnchanged /\ UNCHANGED <<asked, retitled>>

SetMinimized(w) ==
    /\ tops[w].phase = "mapped" /\ ~tops[w].minimized
    /\ LET ts == [tops EXCEPT ![w].minimized = TRUE, ![w].activated = FALSE]
       IN  tops' = ts /\ SendsStates(ts)
    /\ ShellUnchanged /\ UNCHANGED <<asked, retitled>>

DestroyForeignToplevel(w) ==
    /\ Alive(w) /\ Fits(1)
    /\ tops' = [tops EXCEPT ![w] = [NotYet EXCEPT !.phase = "gone"]]
    /\ Sends(<< <<"closed", w>> >>, dirty \ {w})
    /\ ShellUnchanged /\ UNCHANGED <<asked, retitled>>

\* The handle's "done", once the compositor has nothing else to do.
SendDone(w) ==
    /\ w \in dirty /\ Fits(1)
    /\ Sends(<< <<"done", w>> >>, dirty \ {w})
    /\ ShellUnchanged /\ UNCHANGED <<tops, asked, retitled>>

\* A request for a handle that is gone does nothing, and only a mapped window
\* is activated.
HandleFtlActivate ==
    /\ asked # <<>> /\ asked' = Tail(asked)
    /\ LET w == Head(asked)
           ts == Activated(w)
       IN  IF tops[w].phase = "mapped" THEN tops' = ts /\ SendsStates(ts)
           ELSE UNCHANGED <<tops, wire, dirty>>
    /\ ShellUnchanged /\ UNCHANGED retitled

-----------------------------------------------------------------------------
(* The shell.                                                              *)

NoHandle == [title |-> Blank, activated |-> FALSE, minimized |-> FALSE]

\* Binding the manager brings the windows that are there, each with its "done".
Introduced(w) == << <<"toplevel", w>>, <<"title", w, tops[w].title>>,
                    <<"state", w, StateOf(tops[w])>>, <<"done", w>> >>
ShellStarts ==
    /\ ~listening /\ listening' = TRUE
    /\ \E order \in Orders({w \in Windows : Alive(w)}) :
           wire' = [i \in 1..(4 * Len(order)) |->
                        Introduced(order[((i - 1) \div 4) + 1])[((i - 1) % 4) + 1]]
    /\ UNCHANGED <<tops, dirty, handles, buttons, asked, retitled>>

ShellStops ==
    /\ listening /\ listening' = FALSE
    /\ wire' = <<>> /\ asked' = <<>> /\ dirty' = {}
    /\ handles' = <<>> /\ buttons' = <<>>
    /\ UNCHANGED <<tops, retitled>>

Arrives(kind) ==
    /\ wire # <<>> /\ Head(wire)[1] = kind /\ wire' = Tail(wire)
    /\ UNCHANGED <<tops, dirty, listening, asked, retitled>>
About == Head(wire)[2]
With(f, x, v) == [y \in DOMAIN f \union {x} |-> IF y = x THEN v ELSE f[y]]
Without(f, x) == [y \in DOMAIN f \ {x} |-> f[y]]

\* A button draws the title and the highlight; it is drawn when it is made, too.
UpdateFromHandle(h) == [label |-> h.title, lit |-> h.activated]

ManagerToplevel ==
    /\ Arrives("toplevel")
    /\ handles' = With(handles, About, NoHandle)
    /\ buttons' = With(buttons, About, UpdateFromHandle(NoHandle))

OnTitle ==
    /\ Arrives("title")
    /\ handles' = [handles EXCEPT ![About].title = Head(wire)[3]]
    /\ UNCHANGED buttons

\* Mutant of StateRead: states are only added.
StateAdded(h, set) ==
    [h EXCEPT !.activated = @ \/ "activated" \in set, !.minimized = @ \/ "minimized" \in set]

\* What the new state does not name is over.
StateRead(h, set) ==
    [h EXCEPT !.activated = "activated" \in set, !.minimized = "minimized" \in set]

OnState ==
    /\ Arrives("state")
    /\ handles' = [handles EXCEPT ![About] = StateRead(@, Head(wire)[3])]
    /\ UNCHANGED buttons

OnDone ==
    /\ Arrives("done")
    /\ buttons' = [buttons EXCEPT ![About] = UpdateFromHandle(handles[About])]
    /\ UNCHANGED handles

\* The handle leaves the list, then the button that shows it is found and deleted.
OnClosed ==
    /\ Arrives("closed")
    /\ handles' = Without(handles, About)
    /\ buttons' = Without(buttons, About)

Click(w) ==
    /\ w \in DOMAIN buttons /\ Len(asked) < MaxAsked
    /\ asked' = Append(asked, w)
    /\ UNCHANGED <<tops, dirty, wire, listening, handles, buttons, retitled>>

Next ==
    \/ \E w \in Windows : \/ \E t \in Titles \union {Blank} : CreateForeignToplevel(w, t) \/ SetTitle(w, t)
                          \/ Map(w) \/ SetMinimized(w) \/ DestroyForeignToplevel(w) \/ SendDone(w)
                          \/ Click(w)
    \/ HandleFtlActivate
    \/ ShellStarts \/ ShellStops
    \/ ManagerToplevel \/ OnTitle \/ OnState \/ OnDone \/ OnClosed

Spec == Init /\ [][Next]_barVars

-----------------------------------------------------------------------------
\* Once every event has arrived, the taskbar has exactly one button per window
\* that exists, with the title the window has now and lit when and only when the
\* window is the active one, whatever was opened, renamed, minimized, activated
\* by a click or closed while events were under way, and wherever the shell began.
TaskbarIsCurrent ==
    listening /\ wire = <<>> /\ dirty = {} =>
        /\ DOMAIN buttons = {w \in Windows : Alive(w)}
        /\ \A w \in DOMAIN buttons :
               buttons[w] = [label |-> tops[w].title, lit |-> tops[w].activated]
=============================================================================
