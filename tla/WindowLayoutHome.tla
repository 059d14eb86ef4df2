-------------------------- MODULE WindowLayoutHome --------------------------
(***************************************************************************)
(* WindowLayout with two history variables, to say what a restore point    *)
(* ought to be.  They record the past and never restrict a step.           *)
(***************************************************************************)
EXTENDS WindowLayout

VARIABLES
    home,    \* the geometry the window last had while floating and at rest
    hasty    \* the restore point was saved from a floating window in motion

hvars == <<vars, home, hasty>>

Floating(v) == ~HasRestore(v)   \* no layout owns its geometry
AtRest(v)   == v.mapped /\ ~Animating(v) /\ v.asked \in {v.size, AnySize}

HInit == Init /\ home = NoRestore /\ hasty = FALSE

\* A window mapped straight into a layout has its home where the map put it.
MappedIntoLayout ==
    ~view.mapped /\ view'.mapped /\ ~HasRestore(view) /\ HasRestore(view')

HNext ==
    /\ Next
    /\ home' = CASE Floating(view') /\ AtRest(view') -> Geom(view')
                 [] MappedIntoLayout -> view'.restore
                 [] OTHER -> home
    /\ hasty' = IF Floating(view) /\ HasRestore(view')
                THEN ~AtRest(view) /\ ~MappedIntoLayout ELSE hasty

HSpec == HInit /\ [][HNext]_hvars

\* The bound of the home run: histories end with the first hasty restore point.
Unhurried == ~hasty

-----------------------------------------------------------------------------
\* A restore point is the floating geometry, whatever sequence of maximize, snap, snap
\* layout, drag, unmap and remap went before: what the comments at view.cpp:338-339
\* and :421 say.  The comment at :352-353 says of a window that is snapped already that
\* its snapped geometry replaces the restore point; the test in :354 does the contrary.
\* (Stated for the windows at rest when the restore point was saved.)
RestorePointIsHome ==
    view.mapped /\ HasRestore(view) /\ ~hasty => view.restore = home

\* Leaving a layout takes the window back home: the position it moves to and
\* the size it is asked to take are the floating ones, also after several layouts in
\* a row (by the comment at view.cpp:352-353 they would be those of the last but one).
LeavingLayoutGoesHome ==
    [][view.mapped /\ view'.mapped /\ HasRestore(view) /\ ~HasRestore(view')
         /\ ~hasty /\ ~Animating(view) =>
       /\ home = [pos  |-> IF Animating(view') THEN view'.anim.to ELSE view'.pos,
                  size |-> view'.asked]]_hvars

\* view.cpp:340-343 without the exception: the restore point of a snapped window
\* is a floating geometry, "not a half-screen or maximized size".
SnapRestoreIsNoTile ==
    view.snapEdge # "none" => view.restore.size \notin LayoutSizes

\* view.cpp:174-176: maximizing cancels the animation, so that no frame moves a
\* maximized window off its place.
FramesLeaveMaximized ==
    [][Tick => ~view.maximized \/ view'.pos = view.pos]_hvars

=============================================================================
