------------------------------ MODULE XWindows ------------------------------
(***************************************************************************)
(* X11 windows (class XView) beside one xdg window: the two-step life      *)
(* cycle that Xwayland gives them (the X window, then the surface it is    *)
(* associated with), override-redirect windows that have no title bar and  *)
(* no taskbar entry, what of a window is drawn, the taskbar's handle, the  *)
(* focus that both kinds of windows share, and the drag and the hovered    *)
(* title bar button.                                                       *)
(*                                                                         *)
(* As in Desktop a method is an operator from a state of the compositor to *)
(* the next, and an event handler one action.  Positions are left out: the *)
(* pointer may be on any window that the hit test considers.               *)
(***************************************************************************)
EXTENDS Integers, Sequences, FiniteSets

CONSTANTS
    XIds,        \* the X11 windows that clients create
    Resizable,   \* those that somebody maximizes
    Desks,       \* workspaces; the first one is 0
    Native,      \* the xdg window, always open on workspace 0
    Empty        \* no surface, no window

VARIABLES
    xs,          \* the compositor, see XDesk
    xsAborted    \* a listener was added twice to a signal

xsVars == <<xs, xsAborted>>

Parts   == {"none", "hidden", "shown"}     \* of a scene node: it may not exist
Marks   == {"listed", "activated", "minimized", "maximized"}
NoEntry == {}
Fresh   == {"listed"}

\* The taskbar is told a state of the window; a window may have no entry.
Told(entry, mark, on) ==
    IF entry = NoEntry THEN NoEntry
    ELSE IF on THEN entry \union {mark} ELSE entry \ {mark}

XDesk == [alive     : SUBSET XIds,               \* the XView exists
          bare      : SUBSET XIds,               \* ~hasDecoration_
          surface   : SUBSET XIds,               \* associated with a wl_surface
          linked    : SUBSET XIds,               \* map_, unmap_, commit_ are linked
          mapped    : SUBSET XIds,
          minimized : SUBSET XIds,
          maximized : SUBSET XIds,
          active    : SUBSET (XIds \union {Native}),  \* told to be activated
          desk      : [XIds -> Desks],           \* workspace_
          content   : [XIds -> Parts],           \* sceneSurface_
          title     : [XIds -> Parts],           \* decorationTree_
          entry     : [XIds -> SUBSET Marks],    \* what ftHandle_ tells
          order     : Seq(XIds),                 \* xviews_, topmost last
          keys      : XIds \union {Native, Empty},
          focused   : BOOLEAN,                   \* focusedView_ is Native
          current   : Desks,
          drag      : XIds \union {Empty},       \* dragXView_
          hover     : XIds \union {Empty},       \* hoverXView_
          rehover   : BOOLEAN]                   \* the handler calls updateHover

InOrder(d) == {d.order[i] : i \in DOMAIN d.order}

\* A list without the place of w: no window is listed twice.
WithoutX(s, w) ==
    LET at == {i \in DOMAIN s : s[i] = w}
        n  == CHOOSE i \in at : TRUE
    IN IF at = {} THEN s
       ELSE [i \in 1..(Len(s) - 1) |-> IF i < n THEN s[i] ELSE s[i + 1]]

IsVisible(d, w) == w \in d.mapped \ d.minimized /\ d.desk[w] = d.current
\* What the hit tests consider: they do not look at minimized_.
Hit(d) == {w \in InOrder(d) \intersect d.mapped : d.desk[w] = d.current}

-----------------------------------------------------------------------------
(* The methods.                                                            *)

Drawn(part, visible) ==
    CASE part = "none"              -> "none"
      [] part # "none" /\ visible   -> "shown"
      [] part # "none" /\ ~visible  -> "hidden"

ApplyVisibility(d, w) ==
    [d EXCEPT !.content[w] = Drawn(@, IsVisible(d, w)),
              !.title[w]   = Drawn(@, IsVisible(d, w))]

\* activate(false) on the windows S.
Deactivated(d, S) ==
    [d EXCEPT !.active = @ \ S,
              !.entry  = [w \in XIds |-> IF w \in S THEN Told(d.entry[w], "activated", FALSE)
                                         ELSE d.entry[w]]]

FocusNative(d) ==
    IF d.focused THEN d
    ELSE Deactivated([d EXCEPT !.focused = TRUE, !.keys = Native,
                               !.active = @ \union {Native}], InOrder(d))

FocusSurface(d, w) ==
    Deactivated([d EXCEPT !.focused = FALSE, !.keys = w], InOrder(d) \union {Native})

EndInteractive(d) ==
    IF d.drag = Empty THEN d ELSE [d EXCEPT !.drag = Empty, !.rehover = TRUE]

UnfocusAll(d) ==
    EndInteractive(Deactivated([d EXCEPT !.focused = FALSE, !.keys = Empty],
                               InOrder(d) \union {Native}))

RaiseX(d, w) ==
    IF w \in InOrder(d) THEN [d EXCEPT !.order = Append(WithoutX(@, w), w)] ELSE d

\* Mutant of ForgetX: the drag goes on.
ForgetXHover(d, w) == [d EXCEPT !.hover = IF @ = w THEN Empty ELSE @]

\* Seat::onXViewDestroyed.
ForgetX(d, w) ==
    LET e == IF d.drag = w THEN EndInteractive(d) ELSE d
    IN [e EXCEPT !.hover = IF @ = w THEN Empty ELSE @]

RemoveX(d, w) == ForgetX([d EXCEPT !.order = WithoutX(@, w)], w)

ActivateX(d, w) ==
    IF w \in d.mapped /\ w \in d.surface
    THEN LET e == FocusSurface(d, w)
         IN RaiseX([e EXCEPT !.active   = @ \union {w},
                             !.entry[w] = Told(@, "activated", TRUE)], w)
    ELSE Deactivated(d, {w})

SetMinimizedX(d, w, on) ==
    LET m == [d EXCEPT !.minimized = IF on THEN @ \union {w} ELSE @ \ {w}]
        a == IF on THEN Deactivated(m, {w}) ELSE m
    IN ApplyVisibility([a EXCEPT !.entry[w] = Told(@, "minimized", on)], w)

SetMaximizedX(d, w, on) ==
    [d EXCEPT !.maximized = IF on THEN @ \union {w} ELSE @ \ {w},
              !.entry[w]  = Told(@, "maximized", on)]

\* focusWorkspaceTop: the xdg window first, then the topmost X11 window.
FocusDeskTop(d) ==
    LET shown == SelectSeq(d.order, LAMBDA w : IsVisible(d, w))
    IN CASE d.current = 0                      -> FocusNative(d)
         [] d.current # 0 /\ shown # <<>>      -> ActivateX(d, shown[Len(shown)])
         [] d.current # 0 /\ shown = <<>>      -> UnfocusAll(d)

\* Mutant of SwitchDesk: what was drawn stays drawn.
SwitchDeskOnly(d, k) ==
    IF k = d.current THEN d
    ELSE FocusDeskTop([d EXCEPT !.current = k, !.rehover = TRUE])

\* switchWorkspace refreshes the windows it has in its list.
SwitchDesk(d, k) ==
    IF k = d.current THEN d
    ELSE LET e     == [d EXCEPT !.current = k, !.rehover = TRUE]
             drawn(parts) == [w \in XIds |-> IF w \in InOrder(e)
                                             THEN Drawn(parts[w], IsVisible(e, w))
                                             ELSE parts[w]]
         IN FocusDeskTop([e EXCEPT !.content = drawn(@), !.title = drawn(@)])

\* Where the pointer is decides what a recomputed hover finds.
Done(d) ==
    /\ \E h \in IF d.rehover THEN Hit(d) \union {Empty} ELSE {d.hover} :
           xs' = [d EXCEPT !.hover = h, !.rehover = FALSE]
    /\ UNCHANGED xsAborted

-----------------------------------------------------------------------------
Init ==
    /\ xs = [alive |-> {}, bare |-> {}, surface |-> {}, linked |-> {}, mapped |-> {},
             minimized |-> {}, maximized |-> {}, active |-> {},
             desk |-> [w \in XIds |-> 0], content |-> [w \in XIds |-> "none"],
             title |-> [w \in XIds |-> "none"], entry |-> [w \in XIds |-> NoEntry],
             order |-> <<>>, keys |-> Empty, focused |-> FALSE, current |-> 0,
             drag |-> Empty, hover |-> Empty, rehover |-> FALSE]
    /\ xsAborted = FALSE

\* XView::XView: a window without override-redirect gets a title bar, hidden,
\* and a taskbar entry.
NewXSurface(w) ==
    /\ w \notin xs.alive
    /\ \E override \in BOOLEAN :
           Done([xs EXCEPT !.alive    = @ \union {w},
                           !.bare     = IF override THEN @ \union {w} ELSE @,
                           !.desk[w]  = xs.current,
                           !.title[w] = IF override THEN "none" ELSE "hidden",
                           !.entry[w] = IF override THEN NoEntry ELSE Fresh])

\* handleAssociate: the new content node is shown until its visibility is applied.
Associate(w) ==
    /\ w \in xs.alive \ xs.surface
    /\ xs' = ApplyVisibility([xs EXCEPT !.surface    = @ \union {w},
                                        !.content[w] = "shown",
                                        !.linked     = @ \union {w}], w)
    /\ xsAborted' = (xsAborted \/ w \in xs.linked)

HandleMap(w) ==
    /\ w \in xs.surface \ xs.mapped
    /\ LET m == [xs EXCEPT !.mapped = @ \union {w}]
           a == IF w \in InOrder(m) THEN m ELSE [m EXCEPT !.order = Append(@, w)]
       IN Done(RaiseX(ApplyVisibility(a, w), w))

\* handleUnmap: the window leaves the list before the focus is cleared.
HandleUnmap(w) ==
    /\ w \in xs.mapped
    /\ LET m == ApplyVisibility([xs EXCEPT !.mapped = @ \ {w}], w)
           r == RemoveX(m, w)
           u == IF r.keys = w THEN UnfocusAll(r) ELSE r
       IN Done([u EXCEPT !.rehover = TRUE])

\* handleDissociate, which Xwayland's hiding of a window leads to after the unmap.
Dissociate(w) ==
    /\ w \in xs.surface \ xs.mapped
    /\ Done(RemoveX(ApplyVisibility([xs EXCEPT !.surface    = @ \ {w},
                                               !.linked     = @ \ {w},
                                               !.content[w] = "none"], w), w))

\* ~XView.
DestroyX(w) ==
    /\ w \in xs.alive \ xs.surface
    /\ Done([RemoveX(xs, w) EXCEPT !.alive = @ \ {w}, !.bare = @ \ {w},
                 !.minimized = @ \ {w}, !.maximized = @ \ {w}, !.active = @ \ {w},
                 !.desk[w] = 0, !.title[w] = "none", !.entry[w] = NoEntry])

\* handleSetOverrideRedirect.
SetOverrideRedirect(w) ==
    /\ w \in xs.alive
    /\ IF w \in xs.bare
       THEN Done(ApplyVisibility([xs EXCEPT !.bare = @ \ {w}, !.title[w] = "hidden",
                                            !.entry[w] = Fresh], w))
       ELSE Done(ApplyVisibility([xs EXCEPT !.bare = @ \union {w}, !.title[w] = "none",
                                            !.entry[w] = NoEntry], w))

\* Requests of the client, and of the taskbar through the entry.
RequestActivate(w) == w \in xs.alive /\ Done(ActivateX(xs, w))
RequestMinimize(w) == w \in xs.alive /\ \E on \in BOOLEAN : Done(SetMinimizedX(xs, w, on))
RequestMaximize(w) == w \in xs.alive \intersect Resizable /\ Done(SetMaximizedX(xs, w, TRUE))

EntryActivate(w) ==
    /\ xs.entry[w] # NoEntry /\ w \in xs.mapped
    /\ LET s == SwitchDesk(xs, xs.desk[w])
           m == IF w \in s.minimized THEN SetMinimizedX(s, w, FALSE) ELSE s
       IN Done(RaiseX(ActivateX(m, w), w))

EntryMaximize(w) ==      \* request_maximize, request_fullscreen
    /\ xs.entry[w] # NoEntry /\ w \in Resizable
    /\ \E on \in BOOLEAN : Done(SetMaximizedX(xs, w, on))

\* A press on a title bar: the close button leaves the rest to the client.
PressTitle(w) ==
    /\ xs.drag = Empty /\ w \in Hit(xs) \ xs.bare
    /\ LET a == RaiseX(ActivateX(xs, w), w)
       IN \/ Done(a)                                           \* CloseButton
          \/ Done(SetMinimizedX(a, w, w \notin a.minimized))   \* MinButton
          \/ /\ w \in Resizable                                 \* MaxButton
             /\ Done(SetMaximizedX(a, w, w \notin a.maximized))
          \/ Done([a EXCEPT !.drag = w])                       \* beginMoveXView

\* A press on the content focuses without activating.
PressContent(w) ==
    /\ xs.drag = Empty /\ w \in Hit(xs)
    /\ Done(RaiseX(FocusSurface(xs, w), w))

PressNative == xs.drag = Empty /\ xs.current = 0 /\ Done(FocusNative(xs))
Release     == xs.drag # Empty /\ Done(EndInteractive(xs))
Motion      == xs.drag = Empty /\ Done([xs EXCEPT !.rehover = TRUE])
ShowDesk    == \E k \in Desks : k # xs.current /\ Done(SwitchDesk(xs, k))

Next ==
    \/ \E w \in XIds :
           \/ NewXSurface(w) \/ Associate(w) \/ HandleMap(w) \/ HandleUnmap(w)
           \/ Dissociate(w) \/ DestroyX(w) \/ SetOverrideRedirect(w)
           \/ RequestActivate(w) \/ RequestMinimize(w) \/ RequestMaximize(w)
           \/ EntryActivate(w) \/ EntryMaximize(w) \/ PressTitle(w) \/ PressContent(w)
    \/ PressNative \/ Release \/ Motion \/ ShowDesk

Spec == Init /\ [][Next]_xsVars

-----------------------------------------------------------------------------
(* Every window that has something on the screen has all of it there, and  *)
(* only while it is mapped, not minimized and on the shown workspace, also *)
(* when its content node or its title bar was rebuilt in between           *)
(* (applyVisibility at every change, xview.cpp).                           *)
DrawnIsVisible ==
    \A w \in xs.alive :
        /\ xs.content[w] # "none" => (xs.content[w] = "shown") = IsVisible(xs, w)
        /\ xs.title[w]   # "none" => (xs.title[w] = "shown")   = IsVisible(xs, w)

Once(s) == \A i, j \in DOMAIN s : s[i] = s[j] => i = j

(* The seat drags and highlights only windows that are mapped and listed,  *)
(* none is listed twice, and an association never links listeners that are *)
(* still linked (onXViewDestroyed, handleMap; the self-ring that           *)
(* handleDissociate guards against).                                       *)
HeldAreListed ==
    /\ xs \in XDesk /\ Once(xs.order)
    /\ {xs.drag, xs.hover} \ {Empty} \subseteq InOrder(xs) \intersect xs.mapped
    /\ ~xsAborted
=============================================================================
