------------------------------ MODULE Desktop ------------------------------
(***************************************************************************)
(* All windows of a session: life cycle, z-order, workspaces, minimize,    *)
(* keyboard focus and activation (Compositor's view list and class Seat),  *)
(* and what holds a reference to a window across events: a drag, the snap  *)
(* layout chooser, the Alt+Tab switcher.                                   *)
(*                                                                         *)
(* Handlers call each other (an activation may switch the workspace, which *)
(* refocuses, which ...), so each method of the code is an operator from a *)
(* desk to a desk and a handler is one action that composes them.  The     *)
(* session is unlocked and has no X11 window.                              *)
(***************************************************************************)
EXTENDS Integers, Sequences, FiniteSets

CONSTANTS
    Windows,         \* the xdg toplevels that clients create, each once
    WorkspaceCount,  \* kWorkspaceCount (4 in the code)
    RuleWorkspaces,  \* workspaces that window rules send windows to
    RuleOnTop,       \* whether window rules set always_on_top
    None,            \* a null View* or wlr_surface*
    Panel            \* the surface of a layer panel (start menu, clipboard)

Workspaces == 0..(WorkspaceCount - 1)
Stay       == -1          \* a window rule without a workspace, or no rule

ASSUME DesktopAssumption ==
    /\ WorkspaceCount \in Nat \ {0}
    /\ RuleWorkspaces \subseteq Workspaces
    /\ RuleOnTop \subseteq BOOLEAN
    /\ None \notin Windows \union {Panel} /\ Panel \notin Windows

VARIABLES
    desk,      \* the compositor's and the seat's state, see Desk below
    born,      \* windows that were created so far
    entries,   \* AltTabSwitcher::entries_, empty when it is not active
    chosen,    \* AltTabSwitcher::current_ (from 1; 0 when not active)
    panel      \* the panel is mapped

vars == <<desk, born, entries, chosen, panel>>

Desk == [live      : SUBSET Windows,     \* the View object exists
         ready     : SUBSET Windows,     \* its xdg_surface is initialized
         mapped    : SUBSET Windows,
         minimized : SUBSET Windows,
         onTop     : SUBSET Windows,     \* alwaysOnTop_
         active    : SUBSET Windows,     \* last setActivated, the taskbar's view
         ws        : [Windows -> Workspaces],
         views     : Seq(Windows),       \* views_, topmost last
         draw      : Seq(Windows),       \* scene nodes, topmost last
         focused   : Windows \union {None},           \* focusedView_
         keys      : Windows \union {None, Panel},    \* the focused surface
         current   : Workspaces,
         drag      : Windows \union {None},           \* dragView_
         chooser   : Windows \union {None},           \* the chooser's target_
         aborted   : BOOLEAN]            \* a wlroots assertion or a dead View

Listed(d) == {d.views[i] : i \in DOMAIN d.views}

\* A list without the place of w: no window is listed twice (ListsAreComplete).
Without(s, w) ==
    LET at == {i \in DOMAIN s : s[i] = w}
        n  == CHOOSE i \in at : TRUE
    IN IF at = {} THEN s
       ELSE [i \in 1..(Len(s) - 1) |-> IF i < n THEN s[i] ELSE s[i + 1]]

ToTop(s, w)   == Append(Without(s, w), w)
Visible(d)    == {w \in d.mapped \ d.minimized : d.ws[w] = d.current}

-----------------------------------------------------------------------------
(* The methods.                                                            *)

\* Mutant of Activated: the other windows stay active.
ActivatedToo(d, S) ==
    [d EXCEPT !.active  = d.active \union (S \intersect Listed(d)),
              !.aborted = @ \/ ~(Listed(d) \subseteq d.ready)]

\* setActivated on every listed window; on a surface that is not initialized
\* wlroots asserts.
Activated(d, S) ==
    [d EXCEPT !.active  = (d.active \ Listed(d)) \union (S \intersect Listed(d)),
              !.aborted = @ \/ ~(Listed(d) \subseteq d.ready)]

FocusView(d, w) ==
    IF d.focused = w THEN d
    ELSE Activated([d EXCEPT !.focused = w, !.keys = w], {w})

FocusPanel(d) == Activated([d EXCEPT !.focused = None, !.keys = Panel], {})

UnfocusView(d, w) ==
    IF d.focused = w THEN [d EXCEPT !.focused = None, !.keys = None] ELSE d

UnfocusAll(d) ==
    Activated([d EXCEPT !.focused = None, !.keys = None, !.drag = None], {})

\* Mutant of AddView: listed again on the map.
AddViewAgain(d, w) == [d EXCEPT !.views = Append(@, w)]

AddView(d, w) ==
    IF w \in Listed(d) THEN d ELSE [d EXCEPT !.views = Append(@, w)]

\* Mutant of ForgetView: the chooser keeps its target.
ForgetViewButChooser(d, w) ==
    UnfocusView([d EXCEPT !.drag = IF @ = w THEN None ELSE @], w)

\* Seat::onViewDestroyed.
ForgetView(d, w) ==
    UnfocusView([d EXCEPT !.drag    = IF @ = w THEN None ELSE @,
                          !.chooser = IF @ = w THEN None ELSE @], w)

RemoveView(d, w) == ForgetView([d EXCEPT !.views = Without(@, w)], w)

\* The scene after every listed window of tops was raised, in list order.
Raised(draw, views, tops) ==
    LET drawn[n \in 0..Len(views)] ==
            IF n = 0 THEN draw
            ELSE IF views[n] \in tops THEN ToTop(drawn[n - 1], views[n])
            ELSE drawn[n - 1]
    IN drawn[Len(views)]

\* always_on_top windows are drawn above the raised one, in list order.
RaiseView(d, w) ==
    LET views == IF w \in Listed(d) THEN ToTop(d.views, w) ELSE d.views
        tops  == (d.onTop \intersect d.mapped) \ {w}
    IN [d EXCEPT !.views = views, !.draw = Raised(ToTop(d.draw, w), views, tops)]

SetMinimized(d, w, minimize) ==
    IF minimize
    THEN [d EXCEPT !.minimized = @ \union {w}, !.active = @ \ {w},
                   !.aborted = @ \/ w \notin d.ready]
    ELSE [d EXCEPT !.minimized = @ \ {w}]

\* The listed windows that are in S, in list order.
Those(views, S) ==
    LET copied[n \in 0..Len(views)] ==
            IF n = 0 THEN <<>>
            ELSE IF views[n] \in S THEN Append(copied[n - 1], views[n])
            ELSE copied[n - 1]
    IN copied[Len(views)]

\* Places in the list of the windows that are visible, and the topmost of them.
Shown(d)   == {i \in DOMAIN d.views : d.views[i] \in Visible(d)}
Topmost(d) == d.views[CHOOSE i \in Shown(d) : \A j \in Shown(d) : j <= i]

\* Mutant of FocusWorkspaceTop: the focused window stays, wherever it is.
FocusWorkspaceTopKeeps(d) ==
    IF d.focused \in d.mapped \ d.minimized THEN d
    ELSE IF Shown(d) # {} THEN FocusView(d, Topmost(d)) ELSE UnfocusAll(d)

\* Keep the focused window if it is visible, else take the topmost visible.
FocusWorkspaceTop(d) ==
    IF d.focused \in Visible(d) THEN d
    ELSE IF Shown(d) # {} THEN FocusView(d, Topmost(d)) ELSE UnfocusAll(d)

SwitchWorkspace(d, ws) ==
    IF ws = d.current THEN d ELSE FocusWorkspaceTop([d EXCEPT !.current = ws])

\* The first matching [window_rules] rule.
ApplyRules(d, w, ws, onTop) ==
    LET placed == [d EXCEPT !.ws[w] = IF ws = Stay THEN @ ELSE ws]
    IN IF onTop THEN [placed EXCEPT !.onTop = @ \union {w}, !.draw = ToTop(@, w)]
                ELSE placed

\* Bring a window to the user: Alt+Tab, and the taskbar's activation.
Present(d, w) == RaiseView(FocusView(SetMinimized(d, w, FALSE), w), w)

-----------------------------------------------------------------------------
Init ==
    /\ desk = [live |-> {}, ready |-> {}, mapped |-> {}, minimized |-> {},
               onTop |-> {}, active |-> {}, ws |-> [w \in Windows |-> 0],
               views |-> <<>>, draw |-> <<>>, focused |-> None, keys |-> None,
               current |-> 0, drag |-> None, chooser |-> None,
               aborted |-> FALSE]
    /\ born = {} /\ entries = <<>> /\ chosen = 0 /\ panel = FALSE

Becomes(d) == desk' = d /\ UNCHANGED <<born, entries, chosen, panel>>

(* What the clients do.                                                    *)

\* handleNewToplevel: in the list, and in the scene, before any map.
NewToplevel(w) ==
    /\ w \notin born
    /\ born' = born \union {w}
    /\ desk' = AddView([desk EXCEPT !.live = @ \union {w}, !.draw = Append(@, w),
                                    !.ws[w] = desk.current], w)
    /\ UNCHANGED <<entries, chosen, panel>>

InitialCommit(w) ==
    /\ w \in desk.live \ desk.ready
    /\ Becomes([desk EXCEPT !.ready = @ \union {w}])

\* handleMap.  A window that a rule, or its remap, puts on another workspace
\* takes neither activation nor focus nor the top.
Map(w, ws, onTop) ==
    /\ w \in desk.ready \ desk.mapped
    /\ LET m == SetMinimized([desk EXCEPT !.mapped = @ \union {w}], w, FALSE)
           r == ApplyRules(AddView(m, w), w, ws, onTop)
           a == [r EXCEPT !.active = @ \union {w}]
       IN Becomes(IF w \in Visible(r) THEN RaiseView(FocusView(a, w), w) ELSE r)

\* handleUnmap; wlroots resets the surface, the next map needs a new commit.
Unmapped(d, w) ==
    LET u == [d EXCEPT !.mapped = @ \ {w}, !.ready = @ \ {w}]
    IN UnfocusView(RemoveView(u, w), w)

Unmap(w) ==
    /\ w \in desk.mapped
    /\ Becomes(Unmapped(desk, w))

\* The toplevel goes away (wlroots unmaps it first) and ~View runs.
Destroy(w) ==
    /\ w \in desk.live
    /\ LET d == IF w \in desk.mapped THEN Unmapped(desk, w)
                                     ELSE RemoveView(desk, w)
       IN Becomes([d EXCEPT !.live = @ \ {w}, !.ready = @ \ {w},
                            !.minimized = @ \ {w}, !.onTop = @ \ {w},
                            !.active = @ \ {w}, !.ws[w] = 0,
                            !.draw = Without(@, w)])

\* handleRequestMinimize, by the client, and handleFtlMinimize, by the taskbar.
RequestMinimize(w, minimize) ==
    /\ w \in desk.live
    /\ Becomes(SetMinimized(desk, w, minimize))

\* handleFtlActivate.
FtlActivate(w) ==
    /\ w \in desk.mapped
    /\ Becomes(Present(SwitchWorkspace(desk, desk.ws[w]), w))

\* A panel maps; the clipboard history panel asks for the keyboard.
PanelMap(grab) ==
    /\ ~panel
    /\ panel' = TRUE
    /\ desk' = IF grab THEN FocusPanel(desk) ELSE desk
    /\ UNCHANGED <<born, entries, chosen>>

\* Mutant of PanelUnmap: the keyboard stays on the hidden surface.
PanelUnmapKeepsKeys ==
    /\ panel
    /\ panel' = FALSE
    /\ UNCHANGED <<desk, born, entries, chosen>>

\* The keyboard of a panel that hides goes back to a window.
PanelUnmap ==
    /\ panel
    /\ panel' = FALSE
    /\ desk' = IF desk.keys = Panel THEN FocusWorkspaceTop(desk) ELSE desk
    /\ UNCHANGED <<born, entries, chosen>>

-----------------------------------------------------------------------------
(* What the user does.  The chooser swallows every key.                    *)

KeyReaches == desk.chooser = None

KeyMinimize ==
    /\ KeyReaches /\ desk.focused # None
    /\ Becomes(SetMinimized(desk, desk.focused,
                            desk.focused \notin desk.minimized))

KeyWorkspace(ws) ==
    /\ KeyReaches /\ ws # desk.current
    /\ Becomes(SwitchWorkspace(desk, ws))

KeySnapLayout ==
    /\ KeyReaches /\ desk.focused # None /\ entries = <<>>
    /\ Becomes([desk EXCEPT !.chooser = desk.focused])

ChooserClose ==
    /\ desk.chooser # None
    /\ Becomes([desk EXCEPT !.chooser = None])

\* The first Alt+Tab: the candidates are copied, the focused one is selected.
AltTabShow ==
    /\ KeyReaches /\ entries = <<>>
    /\ LET shown == Those(desk.views, Visible(desk))
           at    == {i \in DOMAIN shown : shown[i] = desk.focused}
       IN /\ shown # <<>>
          /\ entries' = shown
          /\ chosen' = IF at = {} THEN 1 ELSE CHOOSE i \in at : TRUE
    /\ UNCHANGED <<desk, born, panel>>

\* Mutant of AltTabNext: no wrap at the last entry.
AltTabNextRunsOff ==
    /\ KeyReaches /\ entries # <<>>
    /\ chosen' = chosen + 1
    /\ UNCHANGED <<desk, born, entries, panel>>

AltTabNext ==
    /\ KeyReaches /\ entries # <<>>
    /\ chosen' = (chosen % Len(entries)) + 1
    /\ UNCHANGED <<desk, born, entries, panel>>

AltTabPrev ==
    /\ KeyReaches /\ entries # <<>>
    /\ chosen' = ((chosen + Len(entries) - 2) % Len(entries)) + 1
    /\ UNCHANGED <<desk, born, entries, panel>>

\* Alt is released.  The copy may name a window that is gone by now.
AltTabApply ==
    /\ KeyReaches /\ entries # <<>>
    /\ LET w == entries[chosen]
       IN desk' = CASE w \notin desk.live   -> [desk EXCEPT !.aborted = TRUE]
                    [] w \in desk.mapped    -> Present(desk, w)
                    [] w \in desk.live \ desk.mapped -> desk
    /\ entries' = <<>> /\ chosen' = 0
    /\ UNCHANGED <<born, panel>>

\* A left press that hits a window: viewAt takes any mapped window of the
\* current workspace, a minimized one too.  No press gets through during a drag.
Above(s, v, w) == \E i, j \in DOMAIN s : i > j /\ s[i] = v /\ s[j] = w
Hit(w) == w \in desk.mapped /\ desk.ws[w] = desk.current /\ desk.drag = None
Front(w) == RaiseView(FocusView(desk, w), w)

\* On content there is also a shown surface under the pointer.
ClickContent(w)   ==
    /\ Hit(w) /\ \E v \in Visible(desk) : v = w \/ Above(desk.views, w, v)
    /\ Becomes(Front(w))

ClickTitleBar(w)  == Hit(w) /\ Becomes([Front(w) EXCEPT !.drag = w])
ClickMinButton(w) ==
    Hit(w) /\ Becomes(SetMinimized(Front(w), w, w \notin desk.minimized))

\* A press on a panel that wants the keyboard.
ClickPanel ==
    /\ panel /\ desk.drag = None
    /\ Becomes(FocusPanel(desk))

\* A client starts an interactive move or resize of its window.
BeginDrag(w) ==
    /\ w \in desk.mapped
    /\ Becomes([desk EXCEPT !.drag = w])

EndDrag ==
    /\ desk.drag # None
    /\ Becomes([desk EXCEPT !.drag = None])

ClientStep ==
    \/ \E w \in Windows :
          \/ NewToplevel(w) \/ InitialCommit(w) \/ Unmap(w) \/ Destroy(w)
          \/ BeginDrag(w)
          \/ \E ws \in RuleWorkspaces \union {Stay}, top \in RuleOnTop :
                Map(w, ws, top)
          \/ \E b \in BOOLEAN : RequestMinimize(w, b)
    \/ \E grab \in BOOLEAN : PanelMap(grab)
    \/ PanelUnmap

UserStep ==
    \/ KeyMinimize \/ KeySnapLayout \/ ChooserClose
    \/ \E ws \in Workspaces : KeyWorkspace(ws)
    \/ AltTabShow \/ AltTabNext \/ AltTabPrev \/ AltTabApply
    \/ \E w \in Windows :
          \/ FtlActivate(w) \/ ClickContent(w)
          \/ ClickTitleBar(w) \/ ClickMinButton(w)
    \/ ClickPanel \/ EndDrag

Next == ~desk.aborted /\ (ClientStep \/ UserStep)

Spec == Init /\ [][Next]_vars

-----------------------------------------------------------------------------
\* The keyboard goes where focusedView_ says, and never to a surface that is no
\* longer mapped: neither to a closed window nor to a hidden panel.
KeyboardFollowsFocus ==
    /\ desk.focused # None =>
         desk.focused \in desk.mapped /\ desk.keys = desk.focused
    /\ desk.focused = None => desk.keys \in {None, Panel}
    /\ desk.keys = Panel => panel

\* The drag and the chooser, which keep a View* across events, only point to
\* mapped windows, whatever order windows come, hide and go in.
DrivenAreMapped == {desk.drag, desk.chooser} \subseteq desk.mapped \union {None}

\* views_ is complete and without duplicates: every mapped window can be hit and
\* listed, once, and nothing in it is dead; the scene shows the same windows; the
\* choice of the Alt+Tab strip is one of its entries, however often it was moved;
\* and the rest of the state is of its type.
ListsAreComplete ==
    /\ desk \in Desk
    /\ desk.mapped \subseteq Listed(desk) /\ Listed(desk) \subseteq desk.live
    /\ Len(desk.views) = Cardinality(Listed(desk))
    /\ {desk.draw[i] : i \in DOMAIN desk.draw} = desk.live
    /\ Len(desk.draw) = Cardinality(desk.live)
    /\ entries # <<>> => chosen \in DOMAIN entries

\* Whenever the focus moves to another window, no other listed window is still
\* shown as active (seat.cpp:503: the activation is unique).
FocusMovesActivation ==
    [][desk'.focused \notin {None, desk.focused} =>
         desk'.active \intersect Listed(desk') \subseteq {desk'.focused}]_vars

\* After a workspace switch some window of the new workspace has the focus, if
\* there is one: the user can always type on after Win+1..4.
SwitchFindsFocus ==
    [][desk'.current # desk.current =>
         \/ desk'.focused \in Visible(desk')
         \/ Visible(desk') = {} /\ desk'.focused = None]_vars

\* view.cpp:882-883: no input to a window that is not visible.
FocusedIsVisible == desk.focused # None => desk.focused \in Visible(desk)

\* server.h:128 and view.cpp:891-892: views_ is the z-order, so a click on two
\* overlapping windows hits the one drawn above.
HitOrderIsDrawOrder ==
    \A v, w \in Visible(desk) : Above(desk.views, v, w) => Above(desk.draw, v, w)

=============================================================================
