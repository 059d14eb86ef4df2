------------------------------ MODULE Outputs ------------------------------
(***************************************************************************)
(* The compositor's outputs: their modes, scales and places in the layout, *)
(* the background rectangle drawn under each, the part of each that panels *)
(* leave to windows, the frame loop, and the D-Bus service through which   *)
(* the settings program changes them (class Output, class LayerSurface,    *)
(* Compositor::arrangeLayers, class CompositorDbus).                       *)
(*                                                                         *)
(* Of the layout only the x axis is kept, of the areas only what panels    *)
(* take of the height.  The gamma tables are in NightLight, the focus that *)
(* panels take and give back is in Desktop.                                *)
(***************************************************************************)
EXTENDS Integers, Sequences, FiniteSets, FiniteSetsExt

CONSTANTS
    OutputNames,   \* the displays that may be plugged in
    Panels,        \* layer surfaces with an exclusive zone
    Modes,         \* <<width, height>>, the first mode is DefaultMode
    DefaultMode,
    Scales,
    Places,        \* x coordinates that SetPosition asks for
    Zone,          \* height a panel reserves
    FrameLimit,    \* --frames
    MaxRequests    \* bound on D-Bus requests

VARIABLES
    outputs,       \* outputs_, in the order they were plugged in
    mode, scale,   \* of each output
    placed,        \* its manual x in the layout, or Auto
    background,    \* its background rectangle: [x, size]
    usable,        \* usableAreas_: the height left, or NoArea
    panels,        \* layer surfaces: their stage and output
    pending,       \* outputs a frame is scheduled for
    frames,        \* framesRendered_, up to FrameLimit
    limit,         \* options.frames
    bus,           \* the D-Bus service: "none", "serving" or "closed"
    requests,      \* D-Bus requests so far
    ended          \* wl_display_terminate was called

outVars == <<outputs, mode, scale, placed, background, usable, panels, pending,
             frames, limit, bus, requests, ended>>
display == <<mode, scale, placed>>

Auto    == -1
NoArea  == -1
NoPanel == [stage |-> "none", on |-> ""]
Unknown == "unknown"        \* a name that no output has

Plugged == {outputs[i] : i \in DOMAIN outputs}
First   == outputs[1]       \* firstOutput()
Area(m, s) == <<m[1] \div s, m[2] \div s>>    \* wlr_output_effective_resolution

\* wlr_output_layout: outputs without a place stand right of those that have one.
LayoutX(o, m, s, p) ==
    LET right(q) == p[q] + Area(m[q], s[q])[1]
        manual   == {q \in Plugged : p[q] # Auto}
        before   == {outputs[i] : i \in {j \in DOMAIN outputs :
                                           \E k \in DOMAIN outputs : outputs[k] = o /\ j < k}}
    IN IF p[o] # Auto THEN p[o]
       ELSE (IF manual = {} THEN 0 ELSE Max({right(q) : q \in manual}))
            + MapThenSumSet(LAMBDA q : Area(m[q], s[q])[1], before \ manual)

Box(o, m, s, p) == [x |-> LayoutX(o, m, s, p), size |-> Area(m[o], s[o])]

\* What arranging the mapped panels of an output leaves to windows, if anything.
Left(o, m, s, l) ==
    LET height == Area(m[o], s[o])[2]
        taken  == Zone * Cardinality({p \in Panels : l[p].stage = "mapped" /\ l[p].on = o})
    IN  IF taken < height THEN height - taken ELSE 0

\* Mutant: the areas of the other outputs only.
ArrangeOthers(m, s, l) ==
    [o \in OutputNames |-> IF o \in Plugged \ {First} THEN Left(o, m, s, l) ELSE usable[o]]

\* arrangeLayers.
Arrange(m, s, l) ==
    [o \in OutputNames |-> IF o \in Plugged THEN Left(o, m, s, l) ELSE usable[o]]

Init ==
    /\ outputs = <<>>
    /\ mode = [o \in OutputNames |-> DefaultMode]
    /\ scale = [o \in OutputNames |-> 1]
    /\ placed = [o \in OutputNames |-> Auto]
    /\ background = [o \in OutputNames |-> [x |-> 0, size |-> <<0, 0>>]]
    /\ usable = [o \in OutputNames |-> NoArea]
    /\ panels = [p \in Panels |-> NoPanel]
    /\ pending = {}
    /\ frames = [o \in OutputNames |-> 0]
    /\ limit \in {0, FrameLimit}
    /\ bus = "none"
    /\ requests = 0
    /\ ended = FALSE

-----------------------------------------------------------------------------
(* Output: construction, commits and frames.                               *)

\* handleNewOutput with an Output that could be configured: it is placed by the
\* layout, gets its background, and its first frame follows.
Plug(o) ==
    /\ ~ended /\ o \notin Plugged
    /\ outputs' = Append(outputs, o)
    /\ background' = [background EXCEPT ![o] =
           [x    |-> MapThenSumSet(LAMBDA q : Area(mode[q], scale[q])[1],
                                   {q \in Plugged : placed[q] = Auto})
                     + Max({0} \union {placed[q] + Area(mode[q], scale[q])[1] :
                                         q \in {r \in Plugged : placed[r] # Auto}}),
            size |-> Area(mode[o], scale[o])]]
    /\ pending' = pending \union {o}
    /\ UNCHANGED <<display, usable, panels, frames, limit, bus, requests, ended>>

\* Mutant: the rectangle is resized and stays where it is.
CommittedInPlace(b, o, m, s, p) == [b EXCEPT ![o].size = Area(m[o], s[o])]

\* Output::handleCommit, after the layout's own listener.
Committed(b, o, m, s, p) == [b EXCEPT ![o] = Box(o, m, s, p)]

AtLimit(o) == limit > 0 /\ frames'[o] >= limit

\* The first output at the frame limit is not scheduled again.
Stops(o) == AtLimit(o) /\ o = First

\* The end of handleFrame: count, stop the compositor or ask for the next frame.
FrameDone(o) ==
    /\ frames' = [frames EXCEPT ![o] = IF limit = 0 THEN 0 ELSE IF @ < limit THEN @ + 1 ELSE @]
    /\ ended' = (AtLimit(o) /\ o = First)
    /\ pending' = IF Stops(o) THEN pending \ {o} ELSE pending
    /\ UNCHANGED <<outputs, display, usable, panels, limit, bus, requests>>

Frame(o) ==
    /\ ~ended /\ o \in pending
    /\ background' = Committed(background, o, mode, scale, placed)
    /\ FrameDone(o)

\* wlr_scene_output_commit failed: the loop goes on.
FrameFails(o) ==
    /\ ~ended /\ o \in pending
    /\ FrameDone(o)
    /\ UNCHANGED background

-----------------------------------------------------------------------------
(* LayerSurface: the life of a panel.                                      *)

\* A panel without an output of its own gets the first one; without any output
\* it is never configured.
NewPanel(p) ==
    /\ ~ended /\ outputs # <<>> /\ panels[p].stage = "none"
    /\ \E o \in Plugged : panels' = [panels EXCEPT ![p] = [stage |-> "created", on |-> o]]
    /\ UNCHANGED <<outputs, display, background, usable, pending, frames, limit, bus,
                   requests, ended>>

\* The surface reaches a stage and everything is arranged (handleMap,
\* handleUnmap and handleCommit end with it).
Reaches(p, stage) ==
    LET l == [panels EXCEPT ![p].stage = stage]
    IN /\ panels' = l
       /\ usable' = Arrange(mode, scale, l)
       /\ UNCHANGED <<outputs, display, background, pending, frames, limit, bus, requests, ended>>

PanelCommit(p) ==
    /\ ~ended /\ panels[p].stage = "created"
    /\ Reaches(p, "initialized")

PanelMap(p) ==
    /\ ~ended /\ panels[p].stage = "initialized"
    /\ Reaches(p, "mapped")

PanelUnmap(p) ==
    /\ ~ended /\ panels[p].stage = "mapped"
    /\ Reaches(p, "created")

\* handleDestroy: a mapped surface was unmapped first; removeLayerSurface alone
\* arranges nothing.
PanelDestroy(p) ==
    /\ ~ended /\ panels[p].stage # "none"
    /\ LET l == [panels EXCEPT ![p] = NoPanel]
       IN /\ panels' = l
          /\ usable' = IF panels[p].stage = "mapped" THEN Arrange(mode, scale, l) ELSE usable
    /\ UNCHANGED <<outputs, display, background, pending, frames, limit, bus, requests, ended>>

-----------------------------------------------------------------------------
(* CompositorDbus.                                                         *)

\* CompositorDbus::init: the name may be taken, the descriptor refused.
BusStart ==
    /\ ~ended /\ bus = "none"
    /\ \E ok \in BOOLEAN : bus' = IF ok THEN "serving" ELSE "closed"
    /\ UNCHANGED <<outputs, display, background, usable, panels, pending, frames, limit,
                   requests, ended>>

\* onReadable on a closed connection: the service is gone for the session.
BusLost ==
    /\ ~ended /\ bus = "serving"
    /\ bus' = "closed"
    /\ UNCHANGED <<outputs, display, background, usable, panels, pending, frames, limit,
                   requests, ended>>

\* A setting of output o is committed, then everything is arranged.
Configured(o, m, s) ==
    /\ mode' = m /\ scale' = s
    /\ background' = Committed(background, o, m, s, placed)
    /\ usable' = Arrange(m, s, panels)
    /\ UNCHANGED placed

Refused == UNCHANGED <<display, background, usable>>

Request ==
    /\ ~ended /\ bus = "serving" /\ requests < MaxRequests
    /\ requests' = requests + 1
    /\ UNCHANGED <<outputs, panels, pending, frames, limit, bus, ended>>

SetMode(o, m) ==
    /\ Request
    /\ \/ o \in Plugged /\ Configured(o, [mode EXCEPT ![o] = m], scale)
       \/ Refused      \* no such output, or the commit failed

SetScale(o, s) ==
    /\ Request
    /\ \/ o \in Plugged /\ Configured(o, mode, [scale EXCEPT ![o] = s])
       \/ Refused

\* Only the layout changes: the rectangle follows with the next commit.
SetPosition(o, x) ==
    /\ Request
    /\ IF o \in Plugged
       THEN /\ placed' = [placed EXCEPT ![o] = x]
            /\ usable' = Arrange(mode, scale, panels)
            /\ UNCHANGED <<mode, scale, background>>
       ELSE Refused

Bus == \/ BusStart \/ BusLost
       \/ \E o \in OutputNames \union {Unknown} :
            \/ \E m \in Modes : SetMode(o, m)
            \/ \E s \in Scales : SetScale(o, s)
            \/ \E x \in Places : SetPosition(o, x)

PanelStep(p) == NewPanel(p) \/ PanelCommit(p) \/ PanelMap(p) \/ PanelUnmap(p) \/ PanelDestroy(p)

Stopped == ended /\ UNCHANGED outVars

Next ==
    \/ \E o \in OutputNames : Plug(o) \/ Frame(o) \/ FrameFails(o)
    \/ \E p \in Panels : PanelStep(p)
    \/ Bus
    \/ Stopped

\* The frame of an output that is due is rendered, and not every commit fails.
Fairness == \A o \in OutputNames : WF_outVars(Frame(o))

Spec == Init /\ [][Next]_outVars /\ Fairness

-----------------------------------------------------------------------------

\* The area kept for windows of each output is the one its mapped panels leave,
\* through every change of a mode, a scale, a panel and the set of outputs; an
\* output never arranged is whole (outputUsableSize falls back to its size).
UsableIsCurrent == \A o \in Plugged :
    (IF usable[o] = NoArea THEN Area(mode[o], scale[o])[2] ELSE usable[o])
        = Left(o, mode, scale, panels)

\* The background of every output ends up where the output is, also when another
\* one was moved or resized beside it, unless the session is over first.
BackgroundCatchesUp ==
    \A o \in OutputNames :
      [](o \in Plugged => <>(ended \/ background[o] = Box(o, mode, scale, placed)))
=============================================================================
