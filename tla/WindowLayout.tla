---------------------------- MODULE WindowLayout ----------------------------
(***************************************************************************)
(* The layout of one xdg toplevel (class View): maximize, half-screen      *)
(* snap, the 3x3 snap layout, the restore geometry they share, the move    *)
(* animation, interactive move/resize, and the asynchronous resize         *)
(* handshake with the client.                                              *)
(*                                                                         *)
(* A position or a size is an abstract value; what is kept is which ones   *)
(* the code can tell apart.  `size' is what width()/height() return: the   *)
(* geometry the client last committed.  resize() only asks for another one *)
(* (`asked'), which a later client commit may adopt.                       *)
(***************************************************************************)
EXTENDS Naturals

CONSTANTS
    FreePlaces,   \* positions a user, a rule or the cascade gives a window
    FreeSizes,    \* sizes a client, a rule or a resize drag gives a window
    AnimSteps,    \* frames an animation takes (9 in the code: kStep = 0.12)
    SnapOnMap     \* the --snap-test option: snap left on every map

Origin    == "origin"     \* (0, 0): maximized, left half, top-left cell
RightHalf == "rightHalf"  \* (outW - halfW, 0)
MidCell   == "midCell"    \* any other cell of the 3x3 grid
InFlight  == "inFlight"   \* an interpolated position of an animation
Nowhere   == "nowhere"
Places    == FreePlaces \union {Origin, RightHalf, MidCell, InFlight}

Full      == "full"       \* the usable area below the title bar
Half      == "half"
Cell      == "cell"
NoSize    == "noSize"     \* geometry of a surface without content
AnySize   == "anySize"    \* configure 0x0: the client chooses
LayoutSizes == {Full, Half, Cell}
Sizes     == FreeSizes \union LayoutSizes

Edges     == {"none", "left", "right"}
Geometry  == [pos : Places, size : Sizes]
NoRestore == [pos |-> Nowhere, size |-> NoSize]  \* hasRestoreGeometry_ = false
Animation == [to : Places, far : BOOLEAN, t : 0..AnimSteps]
NoAnim    == [to |-> Nowhere, far |-> FALSE, t |-> 0]  \* animActive_ = false
NoRule    == [applies |-> FALSE]
Rules     == {NoRule} \union
             [applies : {TRUE}, pos : FreePlaces, size : FreeSizes]

ASSUME LayoutAssumption ==
    /\ FreePlaces # {} /\ FreeSizes # {}
    /\ FreePlaces \cap {Origin, RightHalf, MidCell, InFlight, Nowhere} = {}
    /\ FreeSizes \cap (LayoutSizes \union {NoSize, AnySize}) = {}
    /\ AnimSteps \in Nat \ {0}
    /\ SnapOnMap \in BOOLEAN

VARIABLES
    view,         \* the View object, see the type View below
    drag,         \* Seat::dragMode_ with dragView_ = this view
    chooser,      \* SnapLayoutSwitcher active with target_ = this view
    usable,       \* outputUsableSize(firstOutput()) succeeds
    wantsFull,    \* wlroots' toplevel->requested.fullscreen
    aborted       \* wlroots asserted: a configure before initialization

vars == <<view, drag, chooser, usable, wantsFull, aborted>>

View == [initialized   : BOOLEAN,           \* xdg_surface had its first commit
         mapped        : BOOLEAN,
         maximized     : BOOLEAN,
         snapEdge      : Edges,
         layoutSnapped : BOOLEAN,
         restore       : Geometry \union {NoRestore},
         pos           : Places,
         size          : Sizes \union {NoSize},
         asked         : Sizes \union {AnySize},
         anim          : Animation \union {NoAnim},
         placed        : BOOLEAN,           \* positionInitialized_
         pendingFull   : BOOLEAN]           \* pendingFullscreen_

TypeOK ==
    /\ view \in View
    /\ drag \in {"none", "move", "resize"}
    /\ chooser \in BOOLEAN
    /\ usable \in BOOLEAN
    /\ wantsFull \in BOOLEAN
    /\ aborted \in BOOLEAN

-----------------------------------------------------------------------------
(* The methods of View, as functions from a view to a view.                *)

HasRestore(v) == v.restore # NoRestore
Animating(v)  == v.anim # NoAnim
Geom(v)       == [pos |-> v.pos, size |-> v.size]

MoveTo(v, p)       == [v EXCEPT !.pos = p]
Resize(v, s)       == [v EXCEPT !.asked = s]
CancelAnimation(v) == [v EXCEPT !.anim = NoAnim]
KeepRestore(v)     == IF HasRestore(v) THEN v ELSE [v EXCEPT !.restore = Geom(v)]

\* An unmapped window is placed at once.
AnimateMoveTo(v, p) ==
    IF v.mapped THEN [v EXCEPT !.anim = [to |-> p, far |-> v.pos # p, t |-> 0]]
                ELSE MoveTo(v, p)

\* moveTo(0, 0), and the usable area as the size to ask for when there is one.
FillUsable(v, out) == LET w == MoveTo(v, Origin)
                      IN IF out THEN Resize(w, Full) ELSE w

\* Mutant of LeaveEdge: the snap flag survives maximizing.
LeaveEdgeKeepsFlag(v, maximize) ==
    IF maximize /\ v.snapEdge # "none" THEN CancelAnimation(v) ELSE v

\* M8: maximizing leaves the half-screen snap but keeps its restore point.
LeaveEdge(v, maximize) ==
    IF maximize /\ v.snapEdge # "none"
    THEN [CancelAnimation(v) EXCEPT !.snapEdge = "none"] ELSE v

\* Mutant of Unmaximize: no test for a restore geometry.
UnmaximizeAlwaysMoves(v) ==
    IF v.mapped
    THEN Resize([v EXCEPT !.maximized = FALSE, !.restore = NoRestore,
                          !.pos = v.restore.pos], v.restore.size)
    ELSE [v EXCEPT !.maximized = FALSE, !.restore = NoRestore]

Unmaximize(v) ==
    LET w == [v EXCEPT !.maximized = FALSE, !.restore = NoRestore]
    IN IF v.mapped /\ HasRestore(v)
       THEN Resize(MoveTo(w, v.restore.pos), v.restore.size) ELSE w

SetMaximized(v, maximize, out) ==
    LET w == LeaveEdge(v, maximize)
        m == [w EXCEPT !.maximized = TRUE]
    IN CASE w.maximized = maximize   -> w
         [] w.maximized /\ ~maximize -> Unmaximize(w)
         [] ~w.maximized /\ maximize ->
              IF w.mapped THEN FillUsable(KeepRestore(m), out) ELSE m

\* Mutant of Unsnap: the position is restored, the size is not.
UnsnapKeepsSize(v) ==
    LET w == [v EXCEPT !.snapEdge = "none", !.layoutSnapped = FALSE,
                       !.restore = NoRestore]
    IN CASE v.snapEdge = "none" /\ ~v.layoutSnapped -> v
         [] v.snapEdge # "none" \/ v.layoutSnapped ->
              IF HasRestore(v) THEN AnimateMoveTo(w, v.restore.pos) ELSE w

Unsnap(v) ==
    LET w == [v EXCEPT !.snapEdge = "none", !.layoutSnapped = FALSE,
                       !.restore = NoRestore]
    IN CASE v.snapEdge = "none" /\ ~v.layoutSnapped -> v
         [] v.snapEdge # "none" \/ v.layoutSnapped ->
              IF HasRestore(v)
              THEN Resize(AnimateMoveTo(w, v.restore.pos), v.restore.size) ELSE w

\* Mutant of EnterTile: the restore geometry that un-maximizing consumed is not put
\* back, and what is saved in its place still has the maximized size.
EnterTileFromMaximized(v, out) ==
    KeepRestore(IF v.maximized THEN SetMaximized(v, FALSE, out) ELSE v)

\* The prologue of snapTo and snapToRect: un-maximizing consumes the restore
\* geometry, so it is put back; without one the current geometry is saved.
EnterTile(v, out) ==
    LET w == IF v.maximized THEN SetMaximized(v, FALSE, out) ELSE v
    IN KeepRestore(IF v.maximized /\ HasRestore(v)
                   THEN [w EXCEPT !.restore = v.restore] ELSE w)

EdgePlace(edge) == IF edge = "left" THEN Origin ELSE RightHalf

SnapTo(v, edge, out) ==
    LET w == [EnterTile(v, out) EXCEPT !.snapEdge = edge]
    IN IF out THEN Resize(AnimateMoveTo(w, EdgePlace(edge)), Half)
              ELSE Unsnap(w)

SnapToRect(v, place, out) ==
    Resize(AnimateMoveTo([EnterTile(v, out) EXCEPT !.layoutSnapped = TRUE],
                         place), Cell)

\* Mutant of TickAnimation: the last frame leaves the animation active.
TickAnimationForever(v) ==
    IF v.anim.t + 1 >= AnimSteps
    THEN MoveTo(v, v.anim.to)
    ELSE [v EXCEPT !.pos = IF v.anim.far THEN InFlight ELSE v.anim.to,
                   !.anim.t = @ + 1]

TickAnimation(v) ==
    IF v.anim.t + 1 >= AnimSteps
    THEN CancelAnimation(MoveTo(v, v.anim.to))
    ELSE [v EXCEPT !.pos = IF v.anim.far THEN InFlight ELSE v.anim.to,
                   !.anim.t = @ + 1]

-----------------------------------------------------------------------------
(* What the client does.                                                   *)

Init ==
    /\ view = [initialized |-> FALSE, mapped |-> FALSE, maximized |-> FALSE,
               snapEdge |-> "none", layoutSnapped |-> FALSE,
               restore |-> NoRestore, pos |-> Origin, size |-> NoSize,
               asked |-> AnySize, anim |-> NoAnim, placed |-> FALSE,
               pendingFull |-> FALSE]
    /\ drag = "none" /\ chooser = FALSE
    /\ usable \in BOOLEAN
    /\ wantsFull = FALSE /\ aborted = FALSE

\* handleCommit, initial_commit: the size is left to the client.
InitialCommit ==
    /\ ~view.initialized
    /\ view' = [Resize(view, AnySize) EXCEPT !.initialized = TRUE]
    /\ UNCHANGED <<drag, chooser, usable, wantsFull, aborted>>

\* applyRules, the geometry part of the first matching [window_rules] rule.
ApplyRules(v, rule) ==
    IF rule.applies
    THEN [Resize(MoveTo(v, rule.pos), rule.size) EXCEPT !.placed = TRUE] ELSE v

Cascade(v, place) ==
    IF v.placed THEN v ELSE [MoveTo(v, place) EXCEPT !.placed = TRUE]

PendingFullscreen(v, out) ==
    IF v.pendingFull
    THEN SetMaximized([v EXCEPT !.pendingFull = FALSE], TRUE, out) ELSE v

ApplyMaximizedOnMap(v, out) ==
    IF v.maximized /\ out THEN FillUsable(KeepRestore(v), out) ELSE v

\* handleMap.  visible: the window is on the current workspace (viewVisible).
Map(size, place, rule, visible) ==
    /\ view.initialized /\ ~view.mapped
    /\ LET v == [view EXCEPT !.mapped = TRUE, !.size = size]
           p == Cascade(ApplyRules(v, rule), place)
           m == ApplyMaximizedOnMap(PendingFullscreen(p, usable), usable)
       IN view' = IF visible /\ SnapOnMap THEN SnapTo(m, "left", usable) ELSE m
    /\ UNCHANGED <<drag, chooser, usable, wantsFull, aborted>>

\* Mutant of Unmap: the animation of a hidden window goes on.
UnmapKeepsAnimation ==
    /\ view.mapped
    /\ view' = [view EXCEPT !.mapped = FALSE, !.initialized = FALSE,
                            !.size = NoSize, !.asked = AnySize]
    /\ drag' = "none" /\ chooser' = FALSE /\ wantsFull' = FALSE
    /\ UNCHANGED <<usable, aborted>>

\* handleUnmap; removeView ends a drag and closes the chooser
\* (Seat::onViewDestroyed); wlroots resets the surface with its requests.
Unmap ==
    /\ view.mapped
    /\ view' = [CancelAnimation(view) EXCEPT !.mapped = FALSE,
                  !.initialized = FALSE, !.size = NoSize, !.asked = AnySize]
    /\ drag' = "none" /\ chooser' = FALSE /\ wantsFull' = FALSE
    /\ UNCHANGED <<usable, aborted>>

\* The client adopts the size it was last asked for, at its own pace.
ClientCommit ==
    /\ view.mapped /\ view.asked \in Sizes \ {view.size}
    /\ view' = [view EXCEPT !.size = view.asked]
    /\ UNCHANGED <<drag, chooser, usable, wantsFull, aborted>>

\* Every setMaximized() schedules a configure, which wlroots only accepts
\* on an initialized surface.
DoSetMaximized(v, maximize) ==
    IF v.initialized
    THEN view' = SetMaximized(v, maximize, usable) /\ UNCHANGED aborted
    ELSE aborted' = TRUE /\ UNCHANGED view

\* handleRequestMaximize; handleFtlMaximize and handleFtlFullscreen (the
\* taskbar's handle exists since the constructor).
RequestMaximize(maximize) ==
    /\ DoSetMaximized(view, maximize)
    /\ UNCHANGED <<drag, chooser, usable, wantsFull>>

\* handleRequestFullscreen before the first commit: remembered for the map.
DeferFullscreen(fs) ==
    /\ ~view.initialized
    /\ wantsFull' = fs
    /\ view' = [view EXCEPT !.pendingFull = fs]
    /\ UNCHANGED <<drag, chooser, usable, aborted>>

\* Mutant of RequestFullscreen: a deferred request is not cleared.
RequestFullscreenKeepsPending(fs) ==
    /\ view.initialized
    /\ wantsFull' = fs
    /\ view' = SetMaximized(view, fs, usable)
    /\ UNCHANGED <<drag, chooser, usable, aborted>>

RequestFullscreen(fs) ==
    /\ view.initialized
    /\ wantsFull' = fs
    /\ view' = SetMaximized([view EXCEPT !.pendingFull = FALSE], fs, usable)
    /\ UNCHANGED <<drag, chooser, usable, aborted>>

-----------------------------------------------------------------------------
(* What the user does.  Keys reach the focused, hence mapped, window and   *)
(* are swallowed while the chooser is shown; a drag does not block them.   *)

KeyReaches == view.mapped /\ ~chooser
Command(v) == view' = v /\ UNCHANGED <<drag, chooser, usable, wantsFull, aborted>>

KeyMaximize == KeyReaches /\ Command(SetMaximized(view, ~view.maximized, usable))

KeySnap(edge) ==
    /\ KeyReaches
    /\ Command(IF view.snapEdge = edge THEN Unsnap(view)
                                       ELSE SnapTo(view, edge, usable))

KeySnapUp == KeyReaches /\ Command(SetMaximized(view, TRUE, usable))

KeySnapDown ==
    /\ KeyReaches
    /\ view.maximized \/ view.snapEdge # "none" \/ view.layoutSnapped
    /\ Command(IF view.maximized THEN SetMaximized(view, FALSE, usable)
                                 ELSE Unsnap(view))

KeySnapLayout ==
    /\ KeyReaches
    /\ chooser' = TRUE
    /\ UNCHANGED <<view, drag, usable, wantsFull, aborted>>

ChooserApply(place) ==
    /\ chooser
    /\ view' = IF usable THEN SnapToRect(view, place, usable) ELSE view
    /\ chooser' = FALSE
    /\ UNCHANGED <<drag, usable, wantsFull, aborted>>

ChooserHide ==
    /\ chooser
    /\ chooser' = FALSE
    /\ UNCHANGED <<view, drag, usable, wantsFull, aborted>>

\* The title bar's maximize button; a press during a drag is dropped.
MaxButton ==
    /\ view.mapped /\ drag = "none"
    /\ Command(SetMaximized(view, ~view.maximized, usable))

\* beginMove / beginResize, from the title bar or at the client's request.
BeginDrag(mode) ==
    /\ view.mapped
    /\ drag' = mode
    /\ view' = CancelAnimation(view)
    /\ UNCHANGED <<chooser, usable, wantsFull, aborted>>

DragMotion(place, size) ==
    /\ drag # "none"
    /\ Command(IF drag = "move" THEN MoveTo(view, place)
                                ELSE Resize(MoveTo(view, place), size))

EndDrag ==
    /\ drag # "none"
    /\ drag' = "none"
    /\ UNCHANGED <<view, chooser, usable, wantsFull, aborted>>

-----------------------------------------------------------------------------
(* What the output does: a frame ticks every animation.                    *)

Tick ==
    /\ usable /\ Animating(view)
    /\ Command(TickAnimation(view))

OutputGetsMode ==
    /\ ~usable
    /\ usable' = TRUE
    /\ UNCHANGED <<view, drag, chooser, wantsFull, aborted>>

ClientStep ==
    \/ InitialCommit \/ Unmap \/ ClientCommit
    \/ \E s \in FreeSizes, p \in FreePlaces, r \in Rules, b \in BOOLEAN :
          Map(s, p, r, b)
    \/ \E b \in BOOLEAN :
          RequestMaximize(b) \/ DeferFullscreen(b) \/ RequestFullscreen(b)

UserStep ==
    \/ KeyMaximize \/ KeySnapUp \/ KeySnapDown \/ KeySnapLayout
    \/ \E edge \in Edges \ {"none"} : KeySnap(edge)
    \/ \E p \in {Origin, MidCell} : ChooserApply(p)
    \/ ChooserHide \/ MaxButton \/ EndDrag
    \/ \E mode \in {"move", "resize"} : BeginDrag(mode)
    \/ \E p \in FreePlaces, s \in FreeSizes : DragMotion(p, s)

Next == ~aborted /\ (ClientStep \/ UserStep \/ Tick \/ OutputGetsMode)

\* handleFrame schedules the next frame unconditionally, so ticks keep coming.
Spec == Init /\ [][Next]_vars /\ WF_vars(Tick)

-----------------------------------------------------------------------------
\* Half-screen snap and maximize exclude each other and a snapped window has a
\* restore point; a restore point is kept only for a window in some layout, so
\* that the next layout command never returns to a stale one (M2, S1, L4).
Agrees(v) ==
    /\ v.snapEdge # "none" => HasRestore(v) /\ ~v.maximized
    /\ HasRestore(v) => v.maximized \/ v.snapEdge # "none" \/ v.layoutSnapped

RestoreAgreesWithLayout == Agrees(view)

\* A fullscreen request deferred to the map is one the client still stands by
\* (M5 review of G2: a withdrawn one must not maximize the window at map).
PendingIsWanted == view.pendingFull => wantsFull

\* No animation of a window that is not mapped, no drag and no chooser either:
\* handleUnmap reaches all three.
OnlyMappedIsDriven ==
    Animating(view) \/ drag # "none" \/ chooser => view.mapped

\* view.cpp:194-196: a request that comes before the map (a program that starts
\* maximized) is only recorded, to be applied by the map; view.cpp:973-976 says
\* what happens when it reaches an uninitialized surface.
EarlyRequestIsRecorded == ~aborted

\* The frame loop ends every animation: unless commands keep coming for ever, no
\* window of a live output is left animating.
AnimationEnds ==
    \/ []<><<ClientStep \/ UserStep>>_vars
    \/ <>[](usable => ~Animating(view))

=============================================================================
