------------------------- MODULE WindowLayoutProofs -------------------------
(***************************************************************************)
(* Proofs about WindowLayout, for all sets of positions and sizes.         *)
(***************************************************************************)
EXTENDS WindowLayoutHome, TLAPS

\* What a command may rely on: the view is well typed; it only animates while
\* mapped; when mapped it is initialized and has the size of its content.
Sane(v) ==
    /\ v \in View
    /\ Animating(v) => v.mapped
    /\ v.mapped => v.initialized /\ v.size \in Sizes

Good(v) == Sane(v) /\ Agrees(v)

\* A layout command changes neither the life cycle nor a deferred request.
SameLife(w, v) ==
    /\ w.mapped = v.mapped /\ w.initialized = v.initialized
    /\ w.pendingFull = v.pendingFull

\* The layout flags and the restore point, which is all that Agrees is about.
SameLayout(w, v) ==
    /\ w.maximized = v.maximized /\ w.snapEdge = v.snapEdge
    /\ w.layoutSnapped = v.layoutSnapped /\ w.restore = v.restore

\* The map consumes a deferred fullscreen request.
MapConsumesPending == view.mapped => ~view.pendingFull

Inv ==
    /\ TypeOK
    /\ Good(view)
    /\ MapConsumesPending
    /\ PendingIsWanted
    /\ OnlyMappedIsDriven

-----------------------------------------------------------------------------
(* The geometry helpers.                                                   *)

\* A geometry is never mistaken for the absence of one.
LEMMA GeomIsRestore ==
    ASSUME NEW v, Sane(v), v.mapped
    PROVE  Geom(v) \in Geometry /\ Geom(v) # NoRestore
BY LayoutAssumption
   DEF LayoutAssumption, Sane, View, Geom, Geometry, NoRestore, Places, Origin,
       RightHalf, MidCell, InFlight, Nowhere

\* Moving and asking for a size leave layout and life cycle alone.
LEMMA MoveToSane ==
    ASSUME NEW v, Sane(v), NEW p \in Places
    PROVE  /\ Sane(MoveTo(v, p))
           /\ SameLife(MoveTo(v, p), v) /\ SameLayout(MoveTo(v, p), v)
BY DEF MoveTo, Sane, View, Animating, SameLife, SameLayout

\* Asking for a size changes only what is asked.
LEMMA ResizeSane ==
    ASSUME NEW v, Sane(v), NEW s \in Sizes
    PROVE  /\ Sane(Resize(v, s))
           /\ SameLife(Resize(v, s), v) /\ SameLayout(Resize(v, s), v)
BY DEF Resize, Sane, View, Animating, SameLife, SameLayout

\* Cancelling leaves no animation and the layout alone.
LEMMA CancelAnimationSane ==
    ASSUME NEW v, Sane(v)
    PROVE  /\ Sane(CancelAnimation(v)) /\ ~Animating(CancelAnimation(v))
           /\ SameLife(CancelAnimation(v), v)
           /\ SameLayout(CancelAnimation(v), v)
BY DEF CancelAnimation, Sane, View, Animating, SameLife, SameLayout

\* An animated move, of a window mapped or not, leaves the layout alone.
LEMMA AnimateMoveToSane ==
    ASSUME NEW v, Sane(v), NEW p \in Places
    PROVE  /\ Sane(AnimateMoveTo(v, p))
           /\ SameLife(AnimateMoveTo(v, p), v)
           /\ SameLayout(AnimateMoveTo(v, p), v)
<1>1. CASE v.mapped
  <2>1. [to |-> p, far |-> v.pos # p, t |-> 0] \in Animation
    BY LayoutAssumption DEF LayoutAssumption, Animation
  <2>2. QED
    BY <1>1, <2>1 DEF AnimateMoveTo, Sane, View, Animating, SameLife, SameLayout
<1>2. CASE ~v.mapped
  BY <1>2, MoveToSane DEF AnimateMoveTo
<1>3. QED BY <1>1, <1>2

\* Taking the usable area leaves the layout flags alone.
LEMMA FillUsableSane ==
    ASSUME NEW v, Sane(v), NEW out \in BOOLEAN
    PROVE  /\ Sane(FillUsable(v, out))
           /\ SameLife(FillUsable(v, out), v)
           /\ SameLayout(FillUsable(v, out), v)
<1>1. Origin \in Places /\ Full \in Sizes
  BY DEF Places, Sizes, LayoutSizes
<1>2. /\ Sane(MoveTo(v, Origin)) /\ SameLife(MoveTo(v, Origin), v)
      /\ SameLayout(MoveTo(v, Origin), v)
  BY <1>1, MoveToSane
<1>3. QED
  BY <1>1, <1>2, ResizeSane DEF FillUsable, SameLife, SameLayout

\* KeepRestore saves a restore point and changes nothing else.
LEMMA KeepRestoreSane ==
    ASSUME NEW v, Sane(v), v.mapped
    PROVE  LET w == KeepRestore(v)
           IN /\ Sane(w) /\ SameLife(w, v) /\ HasRestore(w)
              /\ w.maximized = v.maximized /\ w.snapEdge = v.snapEdge
              /\ w.layoutSnapped = v.layoutSnapped
BY GeomIsRestore DEF KeepRestore, HasRestore, Sane, View, Animating, SameLife

-----------------------------------------------------------------------------
(* The layout commands keep a good view good.                              *)

\* Taking back maximize consumes the restore point.
LEMMA UnmaximizeSane ==
    ASSUME NEW v, Sane(v)
    PROVE  LET w == Unmaximize(v)
           IN /\ Sane(w) /\ SameLife(w, v)
              /\ w.maximized = FALSE /\ ~HasRestore(w)
              /\ w.snapEdge = v.snapEdge /\ w.layoutSnapped = v.layoutSnapped
<1> DEFINE u == [v EXCEPT !.maximized = FALSE, !.restore = NoRestore]
<1>1. /\ Sane(u) /\ SameLife(u, v) /\ u.maximized = FALSE /\ ~HasRestore(u)
      /\ u.snapEdge = v.snapEdge /\ u.layoutSnapped = v.layoutSnapped
  BY DEF Sane, View, Animating, SameLife, HasRestore
<1>2. CASE v.mapped /\ HasRestore(v)
  <2>1. v.restore.pos \in Places /\ v.restore.size \in Sizes
    BY <1>2 DEF Sane, View, HasRestore, Geometry
  <2>2. /\ Sane(MoveTo(u, v.restore.pos))
        /\ SameLife(MoveTo(u, v.restore.pos), u)
        /\ SameLayout(MoveTo(u, v.restore.pos), u)
    BY <1>1, <2>1, MoveToSane
  <2> DEFINE x == MoveTo(u, v.restore.pos)
             y == Resize(x, v.restore.size)
  <2>3. Unmaximize(v) = y
    BY <1>2 DEF Unmaximize
  <2> HIDE DEF u, x
  <2>4. Sane(x) /\ SameLife(x, u) /\ SameLayout(x, u)
    BY <2>2 DEF x
  <2>5. Sane(y) /\ SameLife(y, x) /\ SameLayout(y, x)
    BY <2>1, <2>4, ResizeSane
  <2> HIDE DEF y
  <2>6. QED
    BY <1>1, <2>3, <2>4, <2>5 DEF SameLife, SameLayout, HasRestore
<1>3. CASE ~(v.mapped /\ HasRestore(v))
  BY <1>1, <1>3 DEF Unmaximize
<1>4. QED BY <1>2, <1>3

\* setMaximized: snap and maximize exclude each other, and the restore point is
\* there whenever a mapped window is maximized by it.
LEMMA SetMaximizedGood ==
    ASSUME NEW v, Good(v), NEW maximize \in BOOLEAN, NEW out \in BOOLEAN
    PROVE  LET w == SetMaximized(v, maximize, out)
           IN Good(w) /\ SameLife(w, v) /\ w.maximized = maximize
<1> DEFINE e == LeaveEdge(v, maximize)
           m == [e EXCEPT !.maximized = TRUE]
<1>1. /\ Sane(e) /\ SameLife(e, v) /\ e.restore = v.restore
      /\ e.maximized = v.maximized /\ e.layoutSnapped = v.layoutSnapped
      /\ e.snapEdge = IF maximize THEN "none" ELSE v.snapEdge
  <2>1. CASE maximize /\ v.snapEdge # "none"
    <3>1. e = [CancelAnimation(v) EXCEPT !.snapEdge = "none"]
      BY <2>1 DEF LeaveEdge
    <3>2. QED
      BY <2>1, <3>1
         DEF Good, CancelAnimation, Sane, View, Animating, SameLife, Edges
  <2>2. CASE ~(maximize /\ v.snapEdge # "none")
    <3>1. e = v
      BY <2>2 DEF LeaveEdge
    <3>2. QED BY <2>2, <3>1 DEF Good, SameLife
  <2>3. QED BY <2>1, <2>2
<1>2. CASE e.maximized = maximize
  <2>1. SetMaximized(v, maximize, out) = e
    BY <1>2 DEF SetMaximized
  <2>2. Agrees(e)
    BY <1>1, <1>2 DEF Good, Agrees, HasRestore
  <2>3. QED BY <1>1, <1>2, <2>1, <2>2 DEF Good
<1>3. CASE e.maximized /\ ~maximize
  <2>1. SetMaximized(v, maximize, out) = Unmaximize(e)
    BY <1>3 DEF SetMaximized
  <2>2. e.snapEdge = "none" /\ maximize = FALSE
    BY <1>1, <1>3 DEF Good, Agrees
  <2>3. LET w == Unmaximize(e)
        IN /\ Sane(w) /\ SameLife(w, e) /\ w.maximized = FALSE
           /\ ~HasRestore(w) /\ w.snapEdge = "none"
    BY <1>1, <2>2, UnmaximizeSane
  <2>4. QED BY <1>1, <2>1, <2>2, <2>3 DEF Good, Agrees, SameLife
<1>4. CASE ~e.maximized /\ maximize
  <2>1. /\ Sane(m) /\ SameLife(m, v) /\ m.maximized = TRUE
        /\ m.snapEdge = "none" /\ m.restore = v.restore
    BY <1>1, <1>4 DEF Sane, View, Animating, SameLife
  <2> HIDE DEF m
  <2>2. CASE e.mapped
    <3>1. SetMaximized(v, maximize, out) = FillUsable(KeepRestore(m), out)
      BY <1>4, <2>2 DEF SetMaximized, m
    <3>2. m.mapped
      BY <1>1, <2>1, <2>2 DEF SameLife
    <3>3. LET k == KeepRestore(m)
          IN /\ Sane(k) /\ SameLife(k, v)
             /\ k.maximized = TRUE /\ k.snapEdge = "none"
      BY <2>1, <3>2, KeepRestoreSane DEF SameLife
    <3>4. LET k == KeepRestore(m)
          IN /\ Sane(FillUsable(k, out)) /\ SameLife(FillUsable(k, out), k)
             /\ SameLayout(FillUsable(k, out), k)
      BY <3>3, FillUsableSane
    <3>5. maximize = TRUE
      BY <1>4
    <3>6. QED
      BY <3>1, <3>3, <3>4, <3>5 DEF Good, Agrees, SameLife, SameLayout
  <2>3. CASE ~e.mapped
    <3>1. SetMaximized(v, maximize, out) = m
      BY <1>4, <2>3 DEF SetMaximized, m
    <3>2. maximize = TRUE
      BY <1>4
    <3>3. QED BY <2>1, <3>1, <3>2 DEF Good, Agrees
  <2>4. QED BY <2>2, <2>3
<1>5. QED
  <2>1. e.maximized \in BOOLEAN
    BY <1>1 DEF Sane, View
  <2>2. QED BY <1>2, <1>3, <1>4, <2>1

\* unsnap leaves no layout flag and, unless it had nothing to leave, no restore
\* point.
LEMMA UnsnapSane ==
    ASSUME NEW v, Sane(v)
    PROVE  LET w == Unsnap(v)
           IN /\ Sane(w) /\ SameLife(w, v) /\ w.snapEdge = "none"
              /\ ~w.layoutSnapped /\ w.maximized = v.maximized
              /\ \/ ~HasRestore(w)
                 \/ w = v
<1> DEFINE u == [v EXCEPT !.snapEdge = "none", !.layoutSnapped = FALSE,
                          !.restore = NoRestore]
<1>1. /\ Sane(u) /\ SameLife(u, v) /\ u.snapEdge = "none"
      /\ ~u.layoutSnapped /\ u.maximized = v.maximized /\ ~HasRestore(u)
  BY DEF Sane, View, Animating, SameLife, HasRestore, Edges
<1>2. CASE v.snapEdge = "none" /\ ~v.layoutSnapped
  BY <1>2 DEF Unsnap, SameLife
<1>3. CASE v.snapEdge # "none" \/ v.layoutSnapped
  <2> HIDE DEF u
  <2>1. CASE HasRestore(v)
    <3>1. v.restore.pos \in Places /\ v.restore.size \in Sizes
      BY <2>1 DEF Sane, View, HasRestore, Geometry
    <3>2. Unsnap(v) = Resize(AnimateMoveTo(u, v.restore.pos), v.restore.size)
      BY <1>3, <2>1 DEF Unsnap, u
    <3>3. LET a == AnimateMoveTo(u, v.restore.pos)
          IN Sane(a) /\ SameLife(a, v) /\ SameLayout(a, u)
      BY <1>1, <3>1, AnimateMoveToSane DEF SameLife
    <3>4. QED
      BY <1>1, <3>1, <3>2, <3>3, ResizeSane DEF SameLife, SameLayout, HasRestore
  <2>2. CASE ~HasRestore(v)
    BY <1>1, <1>3, <2>2 DEF Unsnap, u
  <2>3. QED BY <2>1, <2>2
<1>4. QED BY <1>2, <1>3

\* unsnap keeps a good view good.
LEMMA UnsnapGood ==
    ASSUME NEW v, Good(v)
    PROVE  Good(Unsnap(v)) /\ SameLife(Unsnap(v), v)
BY UnsnapSane DEF Good, Agrees

\* The prologue of a snap: afterwards the window is not maximized and has a
\* restore point; a snapped edge is still the one it was.
LEMMA EnterTileSane ==
    ASSUME NEW v, Good(v), v.mapped, NEW out \in BOOLEAN
    PROVE  LET w == EnterTile(v, out)
           IN /\ Sane(w) /\ SameLife(w, v)
              /\ w.maximized = FALSE /\ HasRestore(w)
<1> DEFINE w == IF v.maximized THEN SetMaximized(v, FALSE, out) ELSE v
           r == IF v.maximized /\ HasRestore(v)
                THEN [w EXCEPT !.restore = v.restore] ELSE w
<1>1. Sane(w) /\ SameLife(w, v) /\ w.maximized = FALSE
  <2>1. CASE v.maximized
    BY <2>1, SetMaximizedGood DEF Good
  <2>2. CASE ~v.maximized
    BY <2>2 DEF Good, Sane, View, SameLife
  <2>3. QED BY <2>1, <2>2
<1> HIDE DEF w
<1>2. Sane(r) /\ SameLife(r, v) /\ r.maximized = FALSE
  <2>1. CASE v.maximized /\ HasRestore(v)
    <3>1. r = [w EXCEPT !.restore = v.restore]
      BY <2>1
    <3>2. v.restore \in Geometry \union {NoRestore}
      BY DEF Good, Sane, View
    <3>3. QED BY <1>1, <3>1, <3>2 DEF Sane, View, Animating, SameLife
  <2>2. CASE ~(v.maximized /\ HasRestore(v))
    BY <1>1, <2>2
  <2>3. QED BY <2>1, <2>2
<1>3. EnterTile(v, out) = KeepRestore(r)
  BY DEF EnterTile, w
<1> HIDE DEF r
<1>4. QED BY <1>2, <1>3, KeepRestoreSane DEF SameLife

\* snapTo keeps a good view good: with an output it snaps next to a restore
\* point, without one it takes the snap back.
LEMMA SnapToGood ==
    ASSUME NEW v, Good(v), v.mapped,
           NEW edge \in Edges \ {"none"}, NEW out \in BOOLEAN
    PROVE  Good(SnapTo(v, edge, out)) /\ SameLife(SnapTo(v, edge, out), v)
<1> DEFINE t == EnterTile(v, out)
           w == [t EXCEPT !.snapEdge = edge]
           a == AnimateMoveTo(w, EdgePlace(edge))
<1>1. Sane(t) /\ SameLife(t, v) /\ t.maximized = FALSE /\ HasRestore(t)
  BY EnterTileSane
<1>2. /\ Good(w) /\ SameLife(w, v)
      /\ w.maximized = FALSE /\ w.snapEdge # "none" /\ HasRestore(w)
  BY <1>1 DEF Good, Sane, View, Animating, Agrees, SameLife, HasRestore
<1> HIDE DEF w
<1>3. CASE out
  <2>1. EdgePlace(edge) \in Places /\ Half \in Sizes
    BY DEF EdgePlace, Places, Sizes, LayoutSizes
  <2>2. Sane(a) /\ SameLife(a, w) /\ SameLayout(a, w)
    BY <1>2, <2>1, AnimateMoveToSane DEF Good
  <2>3. SnapTo(v, edge, out) = Resize(a, Half)
    BY <1>3 DEF SnapTo, w
  <2> HIDE DEF a
  <2>4. /\ Sane(Resize(a, Half)) /\ SameLife(Resize(a, Half), a)
        /\ SameLayout(Resize(a, Half), a)
    BY <2>1, <2>2, ResizeSane
  <2>5. QED
    BY <1>2, <2>2, <2>3, <2>4
       DEF Good, Agrees, SameLife, SameLayout, HasRestore
<1>4. CASE ~out
  <2>1. SnapTo(v, edge, out) = Unsnap(w)
    BY <1>4 DEF SnapTo, w
  <2>2. QED BY <1>2, <2>1, UnsnapGood DEF SameLife
<1>5. QED BY <1>3, <1>4

\* snapToRect keeps a good view good.
LEMMA SnapToRectGood ==
    ASSUME NEW v, Good(v), v.mapped,
           NEW place \in Places, NEW out \in BOOLEAN
    PROVE  /\ Good(SnapToRect(v, place, out))
           /\ SameLife(SnapToRect(v, place, out), v)
<1> DEFINE t == EnterTile(v, out)
           w == [t EXCEPT !.layoutSnapped = TRUE]
           a == AnimateMoveTo(w, place)
<1>1. Sane(t) /\ SameLife(t, v) /\ t.maximized = FALSE /\ HasRestore(t)
  BY EnterTileSane
<1>2. /\ Sane(w) /\ SameLife(w, v)
      /\ w.maximized = FALSE /\ w.layoutSnapped = TRUE /\ HasRestore(w)
  BY <1>1 DEF Sane, View, Animating, SameLife, HasRestore
<1> HIDE DEF w
<1>3. Sane(a) /\ SameLife(a, w) /\ SameLayout(a, w)
  BY <1>2, AnimateMoveToSane
<1>4. SnapToRect(v, place, out) = Resize(a, Cell)
  BY DEF SnapToRect, w
<1> HIDE DEF a
<1>5. Cell \in Sizes
  BY DEF Sizes, LayoutSizes
<1>6. /\ Sane(Resize(a, Cell)) /\ SameLife(Resize(a, Cell), a)
      /\ SameLayout(Resize(a, Cell), a)
  BY <1>3, <1>5, ResizeSane
<1>7. QED
  BY <1>2, <1>3, <1>4, <1>6 DEF Good, Agrees, SameLife, SameLayout, HasRestore

\* A frame moves the window and nothing else.
LEMMA TickGood ==
    ASSUME NEW v, Good(v), Animating(v)
    PROVE  Good(TickAnimation(v)) /\ SameLife(TickAnimation(v), v)
<1>1. v.anim \in Animation
  BY DEF Good, Sane, View, Animating
<1>2. v.anim.to \in Places /\ v.anim.t \in 0..AnimSteps
  BY <1>1 DEF Animation
<1>3. CASE v.anim.t + 1 >= AnimSteps
  <2>1. LET m == MoveTo(v, v.anim.to)
        IN Sane(m) /\ SameLife(m, v) /\ SameLayout(m, v)
    BY <1>2, MoveToSane DEF Good
  <2>2. QED
    BY <1>3, <2>1, CancelAnimationSane
       DEF TickAnimation, Good, Agrees, SameLife, SameLayout, HasRestore
<1>4. CASE ~(v.anim.t + 1 >= AnimSteps)
  <2> DEFINE p == IF v.anim.far THEN InFlight ELSE v.anim.to
             n == [v.anim EXCEPT !.t = @ + 1]
  <2>1. p \in Places
    BY <1>2 DEF Places
  <2>2. n \in Animation
    BY <1>1, <1>2, <1>4, LayoutAssumption DEF Animation, LayoutAssumption
  <2>3. TickAnimation(v) = [v EXCEPT !.pos = p, !.anim = n]
    BY <1>4 DEF TickAnimation
  <2> HIDE DEF p, n
  <2>4. QED
    BY <2>1, <2>2, <2>3
       DEF Good, Sane, View, Animating, Agrees, SameLife, HasRestore
<1>5. QED BY <1>3, <1>4

-----------------------------------------------------------------------------
(* The steps handleMap is made of.                                         *)

\* What a step of handleMap preserves: the view is good, mapped, and the
\* deferred request is left or consumed.
MapStage(w) == Good(w) /\ w.mapped

\* Applying a window rule is a step of the map.
LEMMA ApplyRulesStage ==
    ASSUME NEW v, MapStage(v), NEW rule \in Rules
    PROVE  MapStage(ApplyRules(v, rule))
                /\ ApplyRules(v, rule).pendingFull = v.pendingFull
<1>1. CASE rule.applies
  <2>1. rule.pos \in Places /\ rule.size \in Sizes
    <3>1. rule # NoRule
      BY <1>1 DEF NoRule
    <3>2. rule \in [applies : {TRUE}, pos : FreePlaces, size : FreeSizes]
      BY <3>1 DEF Rules
    <3>3. QED BY <3>2 DEF Places, Sizes
  <2>2. ApplyRules(v, rule) =
          [v EXCEPT !.pos = rule.pos, !.asked = rule.size, !.placed = TRUE]
    BY <1>1 DEF ApplyRules, Resize, MoveTo
  <2>3. QED
    BY <2>1, <2>2
       DEF MapStage, Good, Sane, View, Animating, Agrees, HasRestore
<1>2. CASE ~rule.applies
  BY <1>2 DEF ApplyRules
<1>3. QED BY <1>1, <1>2

\* The cascade placement is a step of the map.
LEMMA CascadeStage ==
    ASSUME NEW v, MapStage(v), NEW place \in FreePlaces
    PROVE  MapStage(Cascade(v, place))
                /\ Cascade(v, place).pendingFull = v.pendingFull
<1>1. CASE v.placed
  BY <1>1 DEF Cascade
<1>2. CASE ~v.placed
  <2>1. place \in Places
    BY DEF Places
  <2>2. Cascade(v, place) = [v EXCEPT !.pos = place, !.placed = TRUE]
    BY <1>2 DEF Cascade, MoveTo
  <2>3. QED
    BY <2>1, <2>2
       DEF MapStage, Good, Sane, View, Animating, Agrees, HasRestore
<1>3. QED BY <1>1, <1>2

\* Consuming a deferred fullscreen request is a step of the map.
LEMMA PendingFullscreenStage ==
    ASSUME NEW v, MapStage(v), NEW out \in BOOLEAN
    PROVE  MapStage(PendingFullscreen(v, out))
                /\ ~PendingFullscreen(v, out).pendingFull
<1>1. CASE v.pendingFull
  <2> DEFINE w == [v EXCEPT !.pendingFull = FALSE]
  <2>1. Good(w) /\ w.mapped /\ w.pendingFull = FALSE
    BY DEF MapStage, Good, Sane, View, Animating, Agrees, HasRestore
  <2>2. PendingFullscreen(v, out) = SetMaximized(w, TRUE, out)
    BY <1>1 DEF PendingFullscreen
  <2> HIDE DEF w
  <2>3. LET m == SetMaximized(w, TRUE, out)
        IN Good(m) /\ SameLife(m, w)
    BY <2>1, SetMaximizedGood
  <2>4. QED BY <2>1, <2>2, <2>3 DEF MapStage, SameLife
<1>2. CASE ~v.pendingFull
  BY <1>2 DEF PendingFullscreen
<1>3. QED BY <1>1, <1>2

\* Filling the usable area on the map is a step of the map.
LEMMA ApplyMaximizedStage ==
    ASSUME NEW v, MapStage(v), ~v.pendingFull, NEW out \in BOOLEAN
    PROVE  MapStage(ApplyMaximizedOnMap(v, out))
                /\ ~ApplyMaximizedOnMap(v, out).pendingFull
<1> DEFINE k == KeepRestore(v)
<1>1. CASE v.maximized /\ out
  <2>1. /\ Sane(k) /\ SameLife(k, v) /\ HasRestore(k)
        /\ k.maximized = v.maximized /\ k.snapEdge = v.snapEdge
    BY KeepRestoreSane DEF MapStage, Good
  <2>2. ApplyMaximizedOnMap(v, out) = FillUsable(k, out)
    BY <1>1 DEF ApplyMaximizedOnMap
  <2> HIDE DEF k
  <2>3. LET f == FillUsable(k, out)
        IN Sane(f) /\ SameLife(f, k) /\ SameLayout(f, k)
    BY <2>1, FillUsableSane
  <2>4. QED
    BY <1>1, <2>1, <2>2, <2>3
       DEF MapStage, Good, Agrees, SameLife, SameLayout, HasRestore
<1>2. CASE ~(v.maximized /\ out)
  BY <1>2 DEF ApplyMaximizedOnMap
<1>3. QED BY <1>1, <1>2

-----------------------------------------------------------------------------
(* The invariant is inductive.                                             *)

\* The initial state satisfies the invariant.
LEMMA InitInv == Init => Inv
<1> SUFFICES ASSUME Init PROVE Inv
  OBVIOUS
<1>1. view \in View
  BY LayoutAssumption
     DEF Init, View, Edges, Places, NoRestore, NoAnim, LayoutAssumption
<1>2. QED
  BY <1>1 DEF Init, Inv, TypeOK, Good, Sane, Agrees, HasRestore, Animating,
              PendingIsWanted, OnlyMappedIsDriven, MapConsumesPending

\* A layout command given to a window that stays in its life-cycle state.
LEMMA CommandInv ==
    ASSUME Inv, NEW w, Good(w), SameLife(w, view), Command(w)
    PROVE  Inv'
BY DEF Inv, TypeOK, Command, Good, Sane, Agrees, HasRestore, Animating,
       SameLife, PendingIsWanted, OnlyMappedIsDriven, MapConsumesPending, View

\* handleMap preserves the invariant, through its stages.
LEMMA MapInv ==
    ASSUME Inv, NEW s \in FreeSizes, NEW p \in FreePlaces, NEW r \in Rules,
           NEW b \in BOOLEAN, Map(s, p, r, b)
    PROVE  Inv'
<1> DEFINE v == [view EXCEPT !.mapped = TRUE, !.size = s]
           c == Cascade(ApplyRules(v, r), p)
           m == ApplyMaximizedOnMap(PendingFullscreen(c, usable), usable)
<1>1. MapStage(v)
  BY DEF Inv, TypeOK, Map, MapStage, Good, Sane, View, Animating, Agrees,
         HasRestore, Sizes
<1> HIDE DEF v
<1>2. usable \in BOOLEAN
  BY DEF Inv, TypeOK
<1>3. MapStage(c)
  BY <1>1, ApplyRulesStage, CascadeStage
<1> HIDE DEF c
<1>4. MapStage(m) /\ ~m.pendingFull
  BY <1>2, <1>3, PendingFullscreenStage, ApplyMaximizedStage
<1>5. view' = IF b /\ SnapOnMap THEN SnapTo(m, "left", usable) ELSE m
  BY DEF Map, v, c
<1> HIDE DEF m
<1>6. MapStage(view') /\ ~view'.pendingFull
  <2>1. CASE b /\ SnapOnMap
    BY <1>2, <1>4, <1>5, <2>1, SnapToGood DEF MapStage, SameLife, Edges
  <2>2. CASE ~(b /\ SnapOnMap)
    BY <1>4, <1>5, <2>2
  <2>3. QED BY <2>1, <2>2
<1>7. Good(view)'
  BY <1>6 DEF MapStage, Good, Sane, Agrees, HasRestore, Animating
<1>8. QED
  BY <1>6, <1>7
     DEF Inv, TypeOK, Map, MapStage, Good, Sane, PendingIsWanted,
         OnlyMappedIsDriven, MapConsumesPending

\* Every step of the client preserves the invariant.
LEMMA ClientStepInv == Inv /\ ClientStep => Inv'
<1> SUFFICES ASSUME Inv, ClientStep PROVE Inv'
  OBVIOUS
<1>1. Good(view) /\ usable \in BOOLEAN
  BY DEF Inv, TypeOK
<1>2. CASE InitialCommit
  BY <1>2 DEF Inv, TypeOK, InitialCommit, Resize, Good, Sane, Agrees,
              HasRestore, Animating, PendingIsWanted, OnlyMappedIsDriven,
              MapConsumesPending, View
<1>3. CASE Unmap
  <2>1. ~view.pendingFull
    BY <1>3 DEF Inv, MapConsumesPending, Unmap
  <2>2. view' \in View
    BY <1>1, <1>3 DEF Unmap, CancelAnimation, Good, Sane, View
  <2>3. /\ ~Animating(view') /\ view'.pendingFull = view.pendingFull
        /\ Agrees(view') /\ view'.mapped = FALSE
    BY <1>1, <1>3
       DEF Unmap, CancelAnimation, Good, Sane, View, Animating, Agrees,
           HasRestore
  <2>4. QED
    BY <1>3, <2>1, <2>2, <2>3
       DEF Inv, TypeOK, Unmap, Good, Sane, Agrees, HasRestore, Animating,
           PendingIsWanted, OnlyMappedIsDriven, MapConsumesPending
<1>4. CASE ClientCommit
  BY <1>4 DEF Inv, TypeOK, ClientCommit, Good, Sane, Agrees, HasRestore,
              Animating, PendingIsWanted, OnlyMappedIsDriven,
              MapConsumesPending, View
<1>5. ASSUME NEW s \in FreeSizes, NEW p \in FreePlaces, NEW r \in Rules,
             NEW b \in BOOLEAN, Map(s, p, r, b)
      PROVE  Inv'
  BY <1>5, MapInv
<1>6. ASSUME NEW b \in BOOLEAN, RequestMaximize(b) PROVE Inv'
  <2>1. CASE view.initialized
    <3>1. Command(SetMaximized(view, b, usable))
      BY <1>6, <2>1 DEF RequestMaximize, DoSetMaximized, Command
    <3>2. QED BY <1>1, <3>1, SetMaximizedGood, CommandInv
  <2>2. CASE ~view.initialized
    BY <1>6, <2>2
       DEF RequestMaximize, DoSetMaximized, Inv, TypeOK, Good, Sane, Agrees,
           HasRestore, Animating, PendingIsWanted, OnlyMappedIsDriven,
           MapConsumesPending
  <2>3. QED BY <2>1, <2>2
<1>7. ASSUME NEW b \in BOOLEAN, DeferFullscreen(b) PROVE Inv'
  BY <1>7 DEF DeferFullscreen, Inv, TypeOK, Good, Sane, Agrees, HasRestore,
              Animating, PendingIsWanted, OnlyMappedIsDriven,
              MapConsumesPending, View
<1>8. ASSUME NEW b \in BOOLEAN, RequestFullscreen(b) PROVE Inv'
  <2> DEFINE w == [view EXCEPT !.pendingFull = FALSE]
  <2>1. /\ Good(w) /\ w.pendingFull = FALSE /\ w.mapped = view.mapped
    BY <1>1 DEF Good, Sane, View, Agrees, HasRestore, Animating
  <2>2. view' = SetMaximized(w, b, usable)
    BY <1>8 DEF RequestFullscreen
  <2> HIDE DEF w
  <2>3. /\ Good(view') /\ view'.pendingFull = FALSE
        /\ view'.mapped = view.mapped
    BY <1>1, <2>1, <2>2, SetMaximizedGood DEF SameLife
  <2>4. QED
    BY <1>8, <2>3
       DEF RequestFullscreen, Inv, TypeOK, Good, Sane, Agrees, HasRestore,
           Animating, PendingIsWanted, OnlyMappedIsDriven, MapConsumesPending
<1>9. QED BY <1>2, <1>3, <1>4, <1>5, <1>6, <1>7, <1>8 DEF ClientStep

\* Every command of the user preserves the invariant.
LEMMA UserStepInv == Inv /\ UserStep => Inv'
<1> SUFFICES ASSUME Inv, UserStep PROVE Inv'
  OBVIOUS
<1>1. Good(view) /\ usable \in BOOLEAN /\ (~view.maximized) \in BOOLEAN
  BY DEF Inv, TypeOK
<1> DEFINE toggled == SetMaximized(view, ~view.maximized, usable)
<1>2. Good(toggled) /\ SameLife(toggled, view)
  BY <1>1, SetMaximizedGood
<1>3. CASE KeyMaximize
  BY <1>2, <1>3, CommandInv DEF KeyMaximize
<1>4. CASE MaxButton
  BY <1>2, <1>4, CommandInv DEF MaxButton
<1> HIDE DEF toggled
<1>5. ASSUME NEW edge \in Edges \ {"none"}, KeySnap(edge) PROVE Inv'
  <2>1. CASE view.snapEdge = edge
    BY <1>1, <1>5, <2>1, UnsnapGood, CommandInv DEF KeySnap
  <2>2. CASE view.snapEdge # edge
    BY <1>1, <1>5, <2>2, SnapToGood, CommandInv DEF KeySnap, KeyReaches
  <2>3. QED BY <2>1, <2>2
<1>6. CASE KeySnapUp
  BY <1>1, <1>6, SetMaximizedGood, CommandInv DEF KeySnapUp
<1>7. CASE KeySnapDown
  <2>1. CASE view.maximized
    BY <1>1, <1>7, <2>1, SetMaximizedGood, CommandInv DEF KeySnapDown
  <2>2. CASE ~view.maximized
    BY <1>1, <1>7, <2>2, UnsnapGood, CommandInv DEF KeySnapDown
  <2>3. QED BY <2>1, <2>2
<1>8. ASSUME NEW p \in {Origin, MidCell}, ChooserApply(p) PROVE Inv'
  <2>1. view.mapped
    BY <1>8 DEF ChooserApply, Inv, OnlyMappedIsDriven
  <2>2. Good(view') /\ SameLife(view', view)
    <3>1. p \in Places
      BY DEF Places
    <3>2. CASE usable
      BY <1>1, <1>8, <2>1, <3>1, <3>2, SnapToRectGood DEF ChooserApply
    <3>3. CASE ~usable
      BY <1>1, <1>8, <3>3 DEF ChooserApply, SameLife
    <3>4. QED BY <3>2, <3>3
  <2>3. QED
    BY <1>8, <2>2
       DEF ChooserApply, Inv, TypeOK, Good, Sane, Agrees, HasRestore,
           Animating, SameLife, PendingIsWanted, OnlyMappedIsDriven,
           MapConsumesPending
<1>9. CASE KeySnapLayout \/ ChooserHide \/ EndDrag
  BY <1>9 DEF KeySnapLayout, KeyReaches, ChooserHide, EndDrag, Inv, TypeOK,
              Good, Sane, Agrees, HasRestore, Animating, PendingIsWanted,
              OnlyMappedIsDriven, MapConsumesPending
<1>10. ASSUME NEW mode \in {"move", "resize"}, BeginDrag(mode) PROVE Inv'
  <2>1. Good(view') /\ SameLife(view', view)
    BY <1>1, <1>10, CancelAnimationSane
       DEF BeginDrag, Good, Agrees, SameLife, SameLayout, HasRestore
  <2>2. QED
    BY <1>10, <2>1
       DEF BeginDrag, Inv, TypeOK, Good, Sane, Agrees, HasRestore,
           Animating, SameLife, PendingIsWanted, OnlyMappedIsDriven,
           MapConsumesPending
<1>11. ASSUME NEW p \in FreePlaces, NEW s \in FreeSizes, DragMotion(p, s)
       PROVE  Inv'
  <2> DEFINE m == MoveTo(view, p)
  <2>1. p \in Places /\ s \in Sizes
    BY DEF Places, Sizes
  <2>2. Sane(m) /\ SameLife(m, view) /\ SameLayout(m, view)
    BY <1>1, <2>1, MoveToSane DEF Good
  <2>3. /\ Sane(Resize(m, s)) /\ SameLife(Resize(m, s), m)
        /\ SameLayout(Resize(m, s), m)
    BY <2>1, <2>2, ResizeSane
  <2>4. /\ Good(m) /\ SameLife(m, view)
        /\ Good(Resize(m, s)) /\ SameLife(Resize(m, s), view)
    BY <1>1, <2>2, <2>3
       DEF Good, Agrees, SameLife, SameLayout, HasRestore
  <2>5. QED BY <1>11, <2>4, CommandInv DEF DragMotion
<1>12. QED
  BY <1>3, <1>4, <1>5, <1>6, <1>7, <1>8, <1>9, <1>10, <1>11 DEF UserStep

\* Every step preserves the invariant.
LEMMA NextInv == Inv /\ [Next]_vars => Inv'
<1> SUFFICES ASSUME Inv, [Next]_vars PROVE Inv'
  OBVIOUS
<1>1. CASE ClientStep
  BY <1>1, ClientStepInv
<1>2. CASE UserStep
  BY <1>2, UserStepInv
<1>3. CASE Tick
  BY <1>3, TickGood, CommandInv DEF Tick, Inv
<1>4. CASE OutputGetsMode
  BY <1>4 DEF OutputGetsMode, Inv, TypeOK, Good, Sane, Agrees, HasRestore,
              Animating, PendingIsWanted, OnlyMappedIsDriven, MapConsumesPending
<1>5. CASE UNCHANGED vars
  BY <1>5 DEF vars, Inv, TypeOK, Good, Sane, Agrees, HasRestore, Animating,
              PendingIsWanted, OnlyMappedIsDriven, MapConsumesPending
<1>6. QED BY <1>1, <1>2, <1>3, <1>4, <1>5 DEF Next

-----------------------------------------------------------------------------
\* The inductive invariant holds in every reachable state.
THEOREM Invariance == Spec => []Inv
BY InitInv, NextInv, PTL DEF Spec

\* Every reachable state is well typed: in particular a window that is asked
\* to restore is asked for the size of some content, never for 0x0.
THEOREM TypeCorrect == Spec => []TypeOK
<1>1. Inv => TypeOK
  BY DEF Inv
<1>2. QED BY Invariance, <1>1, PTL

\* Snap and maximize exclude each other and a restore point exists exactly as
\* long as some layout may need it, for every set of positions and sizes and
\* every length of animation.
THEOREM RestoreAgreement == Spec => []RestoreAgreesWithLayout
<1>1. Inv => RestoreAgreesWithLayout
  BY DEF Inv, Good, RestoreAgreesWithLayout
<1>2. QED BY Invariance, <1>1, PTL

\* A fullscreen request that the client took back never reaches the map.
THEOREM WithdrawnStaysWithdrawn == Spec => []PendingIsWanted
<1>1. Inv => PendingIsWanted
  BY DEF Inv
<1>2. QED BY Invariance, <1>1, PTL

\* Only a mapped window is animated, dragged or the target of the chooser.
THEOREM DrivenIsMapped == Spec => []OnlyMappedIsDriven
<1>1. Inv => OnlyMappedIsDriven
  BY DEF Inv
<1>2. QED BY Invariance, <1>1, PTL

-----------------------------------------------------------------------------
(* A restore point is home, whatever the positions, the sizes, the length  *)
(* of animations and the sequence of commands (WindowLayoutHome).          *)

\* A command neither replaces a restore point, nor saves anything but the
\* geometry the window has.
SavesHome(w, v) ==
    /\ HasRestore(v) /\ HasRestore(w) => w.restore = v.restore
    /\ v.mapped /\ ~HasRestore(v) /\ HasRestore(w) => w.restore = Geom(v)

\* Where a window is going: the end of its animation, the size it is asked for.
Target(w) == [pos  |-> IF Animating(w) THEN w.anim.to ELSE w.pos,
              size |-> w.asked]

\* A command that consumes the restore point of a window that does not move
\* sends it there.
GoesHome(w, v) ==
    v.mapped /\ HasRestore(v) /\ ~HasRestore(w) /\ ~Animating(v) =>
      Target(w) = v.restore

Faithful(w, v) == SavesHome(w, v) /\ GoesHome(w, v)

\* What makes RestorePointIsHome inductive: the home of a floating window at
\* rest is where it is, and a restore point survives the unmapping.
HomeInv ==
    /\ Inv
    /\ HasRestore(view) /\ ~hasty => view.restore = home
    /\ Floating(view) /\ AtRest(view) => home = Geom(view)

-----------------------------------------------------------------------------
(* The methods.                                                            *)

\* A method that leaves the restore point alone is faithful.
LEMMA SameRestoreFaithful ==
    ASSUME NEW v, NEW w, w.restore = v.restore
    PROVE  Faithful(w, v)
BY DEF Faithful, SavesHome, GoesHome, HasRestore

\* A restore point is a record of a position and a size.
LEMMA RestoreIsGeometry ==
    ASSUME NEW v, Sane(v), HasRestore(v)
    PROVE  /\ v.restore = [pos |-> v.restore.pos, size |-> v.restore.size]
           /\ v.restore.pos \in Places /\ v.restore.size \in Sizes
BY DEF Sane, View, HasRestore, Geometry

\* An animation that was just started is one.
LEMMA AnimateMoveToTarget ==
    ASSUME NEW v, Sane(v), v.mapped, NEW p \in Places, NEW s \in Sizes
    PROVE  Target(Resize(AnimateMoveTo(v, p), s)) = [pos |-> p, size |-> s]
<1> DEFINE w == Resize(AnimateMoveTo(v, p), s)
<1>1. w = [v EXCEPT !.anim = [to |-> p, far |-> v.pos # p, t |-> 0],
                    !.asked = s]
  BY DEF AnimateMoveTo, Resize
<1>2. w.anim.to = p /\ w.asked = s
  BY <1>1 DEF Sane, View
<1>3. p # Nowhere
  BY LayoutAssumption
     DEF LayoutAssumption, Places, Origin, RightHalf, MidCell, InFlight, Nowhere
<1>4. Animating(w)
  BY <1>2, <1>3 DEF Animating, NoAnim
<1> HIDE DEF w
<1>5. QED BY <1>2, <1>4 DEF Target, w

\* Taking back maximize goes home.
LEMMA UnmaximizeFaithful ==
    ASSUME NEW v, Sane(v)
    PROVE  Faithful(Unmaximize(v), v)
<1>1. ~HasRestore(Unmaximize(v))
  BY UnmaximizeSane
<1>2. ASSUME v.mapped, HasRestore(v), ~Animating(v)
      PROVE  Target(Unmaximize(v)) = v.restore
  <2>1. Unmaximize(v) =
          [v EXCEPT !.maximized = FALSE, !.restore = NoRestore,
                    !.pos = v.restore.pos, !.asked = v.restore.size]
    BY <1>2 DEF Unmaximize, MoveTo, Resize, Sane, View
  <2>2. /\ ~Animating(Unmaximize(v))
        /\ Unmaximize(v).pos = v.restore.pos
        /\ Unmaximize(v).asked = v.restore.size
    BY <1>2, <2>1 DEF Animating, Sane, View
  <2>3. QED BY <1>2, <2>2, RestoreIsGeometry DEF Target
<1>3. QED BY <1>1, <1>2 DEF Faithful, SavesHome, GoesHome

\* setMaximized is faithful, and maximizing keeps a restore point.
LEMMA SetMaximizedFaithful ==
    ASSUME NEW v, Good(v), NEW maximize \in BOOLEAN, NEW out \in BOOLEAN
    PROVE  LET w == SetMaximized(v, maximize, out)
           IN /\ Faithful(w, v)
              /\ maximize /\ HasRestore(v) => w.restore = v.restore
              /\ ~maximize /\ ~HasRestore(v) =>
                   /\ Geom(w) = Geom(v) /\ ~HasRestore(w)
<1> DEFINE e == LeaveEdge(v, maximize)
           m == [e EXCEPT !.maximized = TRUE]
           w == SetMaximized(v, maximize, out)
<1>1. /\ e.restore = v.restore /\ e.mapped = v.mapped
      /\ e.pos = v.pos /\ e.size = v.size /\ e \in View
      /\ e.maximized = v.maximized
      /\ ~maximize => e = v
  <2>1. CASE maximize /\ v.snapEdge # "none"
    <3>1. e = [v EXCEPT !.anim = NoAnim, !.snapEdge = "none"]
      BY <2>1 DEF LeaveEdge, CancelAnimation, Good, Sane, View
    <3>2. QED BY <2>1, <3>1 DEF Good, Sane, View, Edges
  <2>2. CASE ~(maximize /\ v.snapEdge # "none")
    <3>1. e = v
      BY <2>2 DEF LeaveEdge
    <3>2. QED BY <2>2, <3>1 DEF Good, Sane
  <2>3. QED BY <2>1, <2>2
<1>2. CASE e.maximized = maximize
  <2>1. w = e
    BY <1>2 DEF SetMaximized
  <2>2. QED
    BY <1>1, <2>1, SameRestoreFaithful DEF Geom, HasRestore
<1>3. CASE e.maximized /\ ~maximize
  <2>1. w = Unmaximize(v)
    BY <1>1, <1>3 DEF SetMaximized
  <2>2. Faithful(w, v)
    BY <2>1, UnmaximizeFaithful DEF Good
  <2>3. ~HasRestore(w)
    BY <2>1, UnmaximizeSane DEF Good
  <2>4. ~HasRestore(v) => w.pos = v.pos /\ w.size = v.size
    BY <2>1 DEF Unmaximize, Good, Sane, View
  <2>5. QED BY <1>3, <2>2, <2>3, <2>4 DEF Geom
<1>4. CASE ~e.maximized /\ maximize
  <2>1. /\ m.restore = v.restore /\ m.mapped = v.mapped
        /\ m.pos = v.pos /\ m.size = v.size /\ m \in View
    BY <1>1 DEF View
  <2> HIDE DEF m, e
  <2>2. CASE ~v.mapped
    <3>1. w = m
      BY <1>1, <1>4, <2>2 DEF SetMaximized, m, e
    <3>2. QED BY <1>4, <2>1, <3>1, SameRestoreFaithful
  <2>3. CASE v.mapped
    <3>1. w = FillUsable(KeepRestore(m), out)
      BY <1>1, <1>4, <2>3 DEF SetMaximized, m, e
    <3>2. w.restore = KeepRestore(m).restore
      BY <2>1, <3>1
         DEF FillUsable, MoveTo, Resize, KeepRestore, View
    <3>3. KeepRestore(m).restore = IF HasRestore(v) THEN v.restore ELSE Geom(v)
      BY <2>1 DEF KeepRestore, HasRestore, Geom, View
    <3>4. HasRestore(w)
      BY <2>3, <3>2, <3>3, GeomIsRestore DEF HasRestore, Good
    <3> HIDE DEF w
    <3>5. QED
      BY <1>4, <3>2, <3>3, <3>4 DEF Faithful, SavesHome, GoesHome, w
  <2>4. QED BY <2>2, <2>3
<1>5. QED
  <2>1. e.maximized \in BOOLEAN
    BY <1>1 DEF View
  <2>2. QED BY <1>2, <1>3, <1>4, <2>1

\* unsnap goes home, even from an animation.
LEMMA UnsnapFaithful ==
    ASSUME NEW v, Sane(v)
    PROVE  LET w == Unsnap(v)
           IN /\ Faithful(w, v)
              /\ HasRestore(w) => w.restore = v.restore
              /\ v.mapped /\ HasRestore(v) /\ ~HasRestore(w) =>
                   Target(w) = v.restore
<1> DEFINE u == [v EXCEPT !.snapEdge = "none", !.layoutSnapped = FALSE,
                          !.restore = NoRestore]
           w == Unsnap(v)
<1>1. HasRestore(w) => w = v
  BY UnsnapSane
<1>2. ASSUME v.mapped, HasRestore(v), ~HasRestore(w)
      PROVE  Target(w) = v.restore
  <2>1. w = Resize(AnimateMoveTo(u, v.restore.pos), v.restore.size)
    BY <1>2 DEF Unsnap
  <2>2. Sane(u) /\ u.mapped
    BY <1>2 DEF Sane, View, Animating, Edges
  <2> HIDE DEF u, w
  <2>3. QED
    BY <1>2, <2>1, <2>2, RestoreIsGeometry, AnimateMoveToTarget
<1> HIDE DEF w
<1>3. QED BY <1>1, <1>2 DEF Faithful, SavesHome, GoesHome, w

\* The prologue of a snap ends with the restore point it began with, or with
\* the geometry of the window when there was none.
LEMMA EnterTileRestore ==
    ASSUME NEW v, Good(v), v.mapped, NEW out \in BOOLEAN
    PROVE  EnterTile(v, out).restore =
             IF HasRestore(v) THEN v.restore ELSE Geom(v)
<1> DEFINE w == IF v.maximized THEN SetMaximized(v, FALSE, out) ELSE v
           r == IF v.maximized /\ HasRestore(v)
                THEN [w EXCEPT !.restore = v.restore] ELSE w
<1>1. w \in View /\ (~HasRestore(v) => Geom(w) = Geom(v) /\ ~HasRestore(w))
  <2>1. CASE v.maximized
    BY <2>1, SetMaximizedGood, SetMaximizedFaithful DEF Good, Sane
  <2>2. CASE ~v.maximized
    BY <2>2 DEF Good, Sane
  <2>3. QED BY <2>1, <2>2
<1>2. ~v.maximized => w = v
  OBVIOUS
<1> HIDE DEF w
<1>3. EnterTile(v, out) = KeepRestore(r)
  BY DEF EnterTile, w
<1>4. CASE HasRestore(v)
  <2>1. r.restore = v.restore /\ r \in View
    BY <1>1, <1>2, <1>4 DEF View, Good, Sane
  <2>2. KeepRestore(r) = r
    BY <1>4, <2>1 DEF KeepRestore, HasRestore
  <2>3. QED BY <1>3, <1>4, <2>1, <2>2
<1>5. CASE ~HasRestore(v)
  <2>1. r = w
    BY <1>5
  <2>2. KeepRestore(w) = [w EXCEPT !.restore = Geom(w)]
    BY <1>1, <1>5 DEF KeepRestore
  <2>3. QED BY <1>1, <1>3, <1>5, <2>1, <2>2 DEF View
<1>6. QED BY <1>4, <1>5

\* A window whose restore point is, or was just saved as, the prologue's.
LEMMA TileFaithful ==
    ASSUME NEW v, Good(v), v.mapped, NEW out \in BOOLEAN, NEW w,
           w.restore = EnterTile(v, out).restore
    PROVE  Faithful(w, v) /\ HasRestore(w)
<1>1. HasRestore(w)
  BY EnterTileSane DEF HasRestore
<1>2. QED
  BY <1>1, EnterTileRestore DEF Faithful, SavesHome, GoesHome

\* snapTo is faithful, with an output or without.
LEMMA SnapToFaithful ==
    ASSUME NEW v, Good(v), v.mapped,
           NEW edge \in Edges \ {"none"}, NEW out \in BOOLEAN
    PROVE  Faithful(SnapTo(v, edge, out), v)
<1> DEFINE t == EnterTile(v, out)
           w == [t EXCEPT !.snapEdge = edge]
<1>1. Sane(t) /\ SameLife(t, v) /\ HasRestore(t)
  BY EnterTileSane
<1>2. Sane(w) /\ w.mapped /\ HasRestore(w) /\ w.restore = t.restore
  BY <1>1 DEF Sane, View, Animating, SameLife, HasRestore
<1> HIDE DEF w
<1>3. CASE out
  <2>1. SnapTo(v, edge, out) = Resize(AnimateMoveTo(w, EdgePlace(edge)), Half)
    BY <1>3 DEF SnapTo, w
  <2>2. SnapTo(v, edge, out).restore = t.restore
    BY <1>2, <2>1 DEF Resize, AnimateMoveTo, Sane, View
  <2>3. QED BY <2>2, TileFaithful
<1>4. CASE ~out
  <2> DEFINE u == Unsnap(w)
  <2>1. SnapTo(v, edge, out) = u
    BY <1>4 DEF SnapTo, w
  <2>2. /\ HasRestore(u) => u.restore = t.restore
        /\ ~HasRestore(u) => Target(u) = t.restore
    BY <1>2, UnsnapFaithful
  <2> HIDE DEF u
  <2>3. QED
    BY <2>1, <2>2, EnterTileRestore DEF Faithful, SavesHome, GoesHome
<1>5. QED BY <1>3, <1>4

\* snapToRect is faithful.
LEMMA SnapToRectFaithful ==
    ASSUME NEW v, Good(v), v.mapped, NEW place \in Places, NEW out \in BOOLEAN
    PROVE  Faithful(SnapToRect(v, place, out), v)
<1> DEFINE t == EnterTile(v, out)
           w == [t EXCEPT !.layoutSnapped = TRUE]
<1>1. w \in View /\ w.mapped /\ w.restore = t.restore
  <2>1. Sane(t) /\ SameLife(t, v)
    BY EnterTileSane
  <2> HIDE DEF t
  <2>2. QED BY <2>1 DEF Sane, View, SameLife
<1>2. SnapToRect(v, place, out) = Resize(AnimateMoveTo(w, place), Cell)
  BY DEF SnapToRect
<1> HIDE DEF w
<1>3. SnapToRect(v, place, out).restore = t.restore
  BY <1>1, <1>2 DEF Resize, AnimateMoveTo, View
<1>4. QED BY <1>3, TileFaithful

-----------------------------------------------------------------------------
(* The steps.                                                              *)

\* Every step that does not map the window is faithful to it.
LEMMA UserStepFaithful ==
    ASSUME Inv, UserStep
    PROVE  Faithful(view', view) /\ view'.mapped = view.mapped
<1>1. Good(view) /\ usable \in BOOLEAN /\ (~view.maximized) \in BOOLEAN
  BY DEF Inv, TypeOK
<1>2. Faithful(view, view)
  BY SameRestoreFaithful
<1>3. CASE KeyMaximize \/ MaxButton
  <2> DEFINE toggled == SetMaximized(view, ~view.maximized, usable)
  <2>1. view' = toggled
    BY <1>3 DEF KeyMaximize, MaxButton, Command
  <2>2. SameLife(toggled, view) /\ Faithful(toggled, view)
    BY <1>1, SetMaximizedGood, SetMaximizedFaithful
  <2> HIDE DEF toggled
  <2>3. QED BY <2>1, <2>2 DEF SameLife
<1>4. ASSUME NEW edge \in Edges \ {"none"}, KeySnap(edge)
      PROVE  Faithful(view', view) /\ view'.mapped = view.mapped
  <2>1. CASE view.snapEdge = edge
    BY <1>1, <1>4, <2>1, UnsnapGood, UnsnapFaithful
       DEF KeySnap, Command, SameLife, Good
  <2>2. CASE view.snapEdge # edge
    BY <1>1, <1>4, <2>2, SnapToGood, SnapToFaithful
       DEF KeySnap, KeyReaches, Command, SameLife
  <2>3. QED BY <2>1, <2>2
<1>5. CASE KeySnapUp
  BY <1>1, <1>5, SetMaximizedGood, SetMaximizedFaithful
     DEF KeySnapUp, Command, SameLife
<1>6. CASE KeySnapDown
  <2>1. CASE view.maximized
    BY <1>1, <1>6, <2>1, SetMaximizedGood, SetMaximizedFaithful
       DEF KeySnapDown, Command, SameLife
  <2>2. CASE ~view.maximized
    BY <1>1, <1>6, <2>2, UnsnapGood, UnsnapFaithful
       DEF KeySnapDown, Command, SameLife, Good
  <2>3. QED BY <2>1, <2>2
<1>7. ASSUME NEW p \in {Origin, MidCell}, ChooserApply(p)
      PROVE  Faithful(view', view) /\ view'.mapped = view.mapped
  <2>1. view.mapped /\ p \in Places
    BY <1>7 DEF ChooserApply, Inv, OnlyMappedIsDriven, Places
  <2>2. CASE usable
    BY <1>1, <1>7, <2>1, <2>2, SnapToRectGood, SnapToRectFaithful
       DEF ChooserApply, SameLife
  <2>3. CASE ~usable
    BY <1>2, <1>7, <2>3 DEF ChooserApply
  <2>4. QED BY <2>2, <2>3
<1>8. CASE KeySnapLayout \/ ChooserHide \/ EndDrag
  BY <1>2, <1>8 DEF KeySnapLayout, ChooserHide, EndDrag
<1>9. ASSUME NEW mode \in {"move", "resize"}, BeginDrag(mode)
      PROVE  Faithful(view', view) /\ view'.mapped = view.mapped
  <2>1. view'.restore = view.restore /\ view'.mapped = view.mapped
    BY <1>1, <1>9 DEF BeginDrag, CancelAnimation, Good, Sane, View
  <2>2. QED BY <2>1, SameRestoreFaithful
<1>10. ASSUME NEW p \in FreePlaces, NEW s \in FreeSizes, DragMotion(p, s)
       PROVE  Faithful(view', view) /\ view'.mapped = view.mapped
  <2>1. view'.restore = view.restore /\ view'.mapped = view.mapped
    BY <1>1, <1>10
       DEF DragMotion, Command, MoveTo, Resize, Good, Sane, View
  <2>2. QED BY <2>1, SameRestoreFaithful
<1>11. QED
  BY <1>3, <1>4, <1>5, <1>6, <1>7, <1>8, <1>9, <1>10 DEF UserStep

\* handleMap keeps the restore point that the window brought along.
LEMMA MapSavesHome ==
    ASSUME Inv, NEW s \in FreeSizes, NEW p \in FreePlaces, NEW r \in Rules,
           NEW b \in BOOLEAN, Map(s, p, r, b)
    PROVE  SavesHome(view', view)
<1> DEFINE v == [view EXCEPT !.mapped = TRUE, !.size = s]
           a == ApplyRules(v, r)
           c == Cascade(a, p)
           f == PendingFullscreen(c, usable)
           m == ApplyMaximizedOnMap(f, usable)
<1>1. /\ MapStage(v) /\ v.restore = view.restore
      /\ usable \in BOOLEAN /\ ~view.mapped
  BY DEF Inv, TypeOK, Map, MapStage, Good, Sane, View, Animating, Agrees,
         HasRestore, Sizes
<1>2. view' = IF b /\ SnapOnMap THEN SnapTo(m, "left", usable) ELSE m
  BY DEF Map
<1> HIDE DEF v
<1>3. MapStage(a) /\ a.restore = view.restore
  <2>1. MapStage(a)
    BY <1>1, ApplyRulesStage
  <2>2. a.restore = v.restore
    BY <1>1
       DEF ApplyRules, Resize, MoveTo, MapStage, Good, Sane, View
  <2>3. QED BY <1>1, <2>1, <2>2
<1> HIDE DEF a
<1>4. MapStage(c) /\ c.restore = view.restore
  <2>1. MapStage(c)
    BY <1>3, CascadeStage
  <2>2. c.restore = a.restore
    BY <1>3 DEF Cascade, MoveTo, MapStage, Good, Sane, View
  <2>3. QED BY <1>3, <2>1, <2>2
<1> HIDE DEF c
<1>5. /\ MapStage(f) /\ ~f.pendingFull
      /\ HasRestore(view) => f.restore = view.restore
  <2>1. MapStage(f) /\ ~f.pendingFull
    BY <1>1, <1>4, PendingFullscreenStage
  <2>2. CASE c.pendingFull
    <3> DEFINE w == [c EXCEPT !.pendingFull = FALSE]
    <3>1. Good(w) /\ w.restore = c.restore
      BY <1>4 DEF MapStage, Good, Sane, View, Animating, Agrees, HasRestore
    <3>2. f = SetMaximized(w, TRUE, usable)
      BY <2>2 DEF PendingFullscreen
    <3> HIDE DEF w
    <3>3. HasRestore(w) => f.restore = w.restore
      BY <1>1, <3>1, <3>2, SetMaximizedFaithful
    <3>4. QED BY <1>4, <2>1, <3>1, <3>3 DEF HasRestore
  <2>3. CASE ~c.pendingFull
    BY <1>4, <2>1, <2>3 DEF PendingFullscreen
  <2>4. QED BY <2>2, <2>3
<1> HIDE DEF f
<1>6. /\ MapStage(m)
      /\ HasRestore(view) => m.restore = view.restore
  <2>1. MapStage(m)
    BY <1>1, <1>5, ApplyMaximizedStage
  <2>2. HasRestore(f) => m.restore = f.restore
    BY <1>5
       DEF ApplyMaximizedOnMap, KeepRestore, FillUsable, MoveTo, Resize,
           MapStage, Good, Sane, View
  <2>3. QED BY <1>5, <2>1, <2>2 DEF HasRestore
<1> HIDE DEF m
<1>7. CASE b /\ SnapOnMap
  <2>1. Faithful(SnapTo(m, "left", usable), m)
    BY <1>1, <1>6, SnapToFaithful DEF MapStage, Edges
  <2>2. QED
    BY <1>1, <1>2, <1>6, <1>7, <2>1 DEF Faithful, SavesHome, HasRestore
<1>8. CASE ~(b /\ SnapOnMap)
  BY <1>1, <1>2, <1>6, <1>8 DEF SavesHome, HasRestore
<1>9. QED BY <1>7, <1>8

\* Every step keeps or saves the restore point; a step of a window that stays
\* mapped is faithful to it.
LEMMA StepFaithful ==
    ASSUME Inv, Next
    PROVE  /\ SavesHome(view', view)
           /\ view.mapped /\ view'.mapped => Faithful(view', view)
<1>1. Good(view) /\ usable \in BOOLEAN
  BY DEF Inv, TypeOK
<1>2. CASE UserStep
  BY <1>2, UserStepFaithful DEF Faithful
<1>3. CASE InitialCommit \/ Unmap \/ ClientCommit
  <2>1. view'.restore = view.restore
    BY <1>1, <1>3
       DEF InitialCommit, Resize, Unmap, CancelAnimation, ClientCommit,
           Good, Sane, View
  <2>2. QED BY <2>1, SameRestoreFaithful DEF Faithful
<1>4. ASSUME NEW s \in FreeSizes, NEW p \in FreePlaces, NEW r \in Rules,
             NEW b \in BOOLEAN, Map(s, p, r, b)
      PROVE  SavesHome(view', view) /\ ~view.mapped
  BY <1>4, MapSavesHome DEF Map
<1>5. ASSUME NEW b \in BOOLEAN, RequestMaximize(b)
      PROVE  Faithful(view', view)
  <2>1. CASE view.initialized
    BY <1>1, <1>5, <2>1, SetMaximizedFaithful
       DEF RequestMaximize, DoSetMaximized
  <2>2. CASE ~view.initialized
    BY <1>5, <2>2, SameRestoreFaithful DEF RequestMaximize, DoSetMaximized
  <2>3. QED BY <2>1, <2>2
<1>6. ASSUME NEW b \in BOOLEAN, DeferFullscreen(b)
      PROVE  Faithful(view', view)
  <2>1. view'.restore = view.restore
    BY <1>1, <1>6 DEF DeferFullscreen, Good, Sane, View
  <2>2. QED BY <2>1, SameRestoreFaithful
<1>7. ASSUME NEW b \in BOOLEAN, RequestFullscreen(b)
      PROVE  Faithful(view', view)
  <2> DEFINE w == [view EXCEPT !.pendingFull = FALSE]
  <2>1. /\ Good(w) /\ w.restore = view.restore /\ w.mapped = view.mapped
        /\ Geom(w) = Geom(view) /\ w.anim = view.anim
    BY <1>1 DEF Good, Sane, View, Agrees, HasRestore, Animating, Geom
  <2>2. view' = SetMaximized(w, b, usable)
    BY <1>7 DEF RequestFullscreen
  <2> HIDE DEF w
  <2>3. Faithful(view', w)
    BY <1>1, <2>1, <2>2, SetMaximizedFaithful
  <2>4. QED
    BY <2>1, <2>3 DEF Faithful, SavesHome, GoesHome, HasRestore, Animating
<1>8. CASE Tick
  <2>1. view'.restore = view.restore
    BY <1>1, <1>8
       DEF Tick, Command, TickAnimation, CancelAnimation, MoveTo,
           Good, Sane, View
  <2>2. QED BY <2>1, SameRestoreFaithful DEF Faithful
<1>9. CASE OutputGetsMode
  BY <1>9, SameRestoreFaithful DEF OutputGetsMode, Faithful
<1>10. QED
  BY <1>2, <1>3, <1>4, <1>5, <1>6, <1>7, <1>8, <1>9
     DEF Next, ClientStep, Faithful

-----------------------------------------------------------------------------
(* The history variables.                                                  *)

\* Initially no window has a home.
LEMMA HomeInit == HInit => HomeInv
<1> SUFFICES ASSUME HInit PROVE HomeInv
  OBVIOUS
<1>1. Inv
  BY InitInv DEF HInit
<1>2. ~HasRestore(view) /\ ~view.mapped
  BY DEF HInit, Init, HasRestore
<1>3. QED BY <1>1, <1>2 DEF HomeInv, AtRest

\* A restore point is still home after any step.
LEMMA HomeStep == HomeInv /\ [HNext]_hvars => HomeInv'
<1> SUFFICES ASSUME HomeInv, [HNext]_hvars PROVE HomeInv'
  OBVIOUS
<1>1. CASE UNCHANGED hvars
  <2>1. Inv'
    BY <1>1, NextInv DEF hvars, HomeInv
  <2>2. QED
    BY <1>1, <2>1 DEF hvars, vars, HomeInv, HasRestore, Floating, AtRest,
                      Animating, Geom
<1>2. CASE HNext
  <2>1. Inv' /\ SavesHome(view', view)
    BY <1>2, NextInv, StepFaithful DEF HNext, HomeInv
  <2>2. ASSUME Floating(view'), AtRest(view')
        PROVE  home' = Geom(view')
    BY <1>2, <2>2 DEF HNext, Floating, MappedIntoLayout
  <2>3. ASSUME HasRestore(view'), ~hasty'
        PROVE  view'.restore = home'
    <3>1. CASE HasRestore(view)
      <4>1. ~hasty /\ home' = home
        BY <1>2, <2>3, <3>1 DEF HNext, Floating, MappedIntoLayout
      <4>2. QED BY <2>1, <2>3, <3>1, <4>1 DEF HomeInv, SavesHome
    <3>2. CASE MappedIntoLayout
      BY <1>2, <2>3, <3>2 DEF HNext, Floating
    <3>3. CASE ~HasRestore(view) /\ ~MappedIntoLayout
      <4>1. AtRest(view) /\ home' = home
        BY <1>2, <2>3, <3>3 DEF HNext, Floating
      <4>2. view.mapped /\ home = Geom(view)
        BY <3>3, <4>1 DEF HomeInv, Floating, AtRest
      <4>3. QED BY <2>1, <2>3, <3>3, <4>1, <4>2 DEF SavesHome
    <3>4. QED BY <3>1, <3>2, <3>3
  <2>4. QED
    BY <2>1, <2>2, <2>3 DEF HomeInv, HasRestore, Floating, AtRest, Animating,
                            Geom
<1>3. QED BY <1>1, <1>2

\* The history variables never forget where home is.
THEOREM HomeInvariance == HSpec => []HomeInv
BY HomeInit, HomeStep, PTL DEF HSpec

\* snapTo's promise: the restore point of a window is the geometry it floated
\* with, for every sequence of layout commands, drags, unmaps and remaps.
THEOREM RestoreIsHome == HSpec => []RestorePointIsHome
<1>1. HomeInv => RestorePointIsHome
  BY DEF HomeInv, RestorePointIsHome
<1>2. QED BY HomeInvariance, <1>1, PTL

\* Win+Down, un-maximizing and a repeated Win+Left/Right take a window back
\* to the position and the size it floated with.
THEOREM LeavingGoesHome == HSpec => LeavingLayoutGoesHome
<1>1. ASSUME HomeInv, [HNext]_hvars
      PROVE  [view.mapped /\ view'.mapped /\ HasRestore(view)
                /\ ~HasRestore(view') /\ ~hasty /\ ~Animating(view) =>
               home = Target(view')]_hvars
  <2>1. CASE HNext
    BY <1>1, <2>1, StepFaithful DEF HNext, HomeInv, Faithful, GoesHome
  <2>2. CASE UNCHANGED hvars
    BY <2>2
  <2>3. QED BY <1>1, <2>1, <2>2
<1>2. QED
  BY HomeInvariance, <1>1, PTL DEF HSpec, LeavingLayoutGoesHome, Target

=============================================================================
