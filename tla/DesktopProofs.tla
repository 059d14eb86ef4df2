---------------------------- MODULE DesktopProofs ----------------------------
(***************************************************************************)
(* Proofs about Desktop, for any set of windows and number of workspaces.  *)
(***************************************************************************)
EXTENDS Desktop, ListTheorems, TLAPS, SequenceTheorems, FiniteSetTheorems

\* The type of a desk, but for the order of drawing (see Lists below).
Typed(d) ==
    d \in [live : SUBSET Windows, ready : SUBSET Windows, mapped : SUBSET Windows,
           minimized : SUBSET Windows, onTop : SUBSET Windows, active : SUBSET Windows,
           ws : [Windows -> Workspaces], views : Seq(Windows), draw : {d.draw},
           focused : Windows \union {None}, keys : Windows \union {None, Panel},
           current : Workspaces, drag : Windows \union {None},
           chooser : Windows \union {None}, aborted : BOOLEAN]

\* What the properties are about, of one desk.
Focus(d) ==
    /\ d.focused # None => d.focused \in d.mapped /\ d.keys = d.focused
    /\ d.focused = None => d.keys \in {None, Panel}
Driven(d) == {d.drag, d.chooser} \subseteq d.mapped \union {None}
Complete(d) == d.mapped \subseteq Listed(d)

Good(d) == Typed(d) /\ Focus(d) /\ Driven(d) /\ Complete(d)

\* KeyboardFollowsFocus and DrivenAreMapped lean on each other only through the
\* windows that are mapped; SwitchFindsFocus needs that those are listed.
Inv == Good(desk) /\ (desk.keys = Panel => panel)

-----------------------------------------------------------------------------
(* Lists of windows.                                                       *)

\* Taking a window out of a list leaves the others in it.
LEMMA WithoutKeeps ==
    ASSUME NEW s \in Seq(Windows), NEW w
    PROVE  /\ Without(s, w) \in Seq(Windows)
           /\ \A i \in DOMAIN s : s[i] # w => \E j \in DOMAIN Without(s, w) : Without(s, w)[j] = s[i]
           /\ \A j \in DOMAIN Without(s, w) : \E i \in DOMAIN s : Without(s, w)[j] = s[i]
<1> DEFINE at == {i \in DOMAIN s : s[i] = w}
           n  == CHOOSE i \in at : TRUE
           r  == [i \in 1..(Len(s) - 1) |-> IF i < n THEN s[i] ELSE s[i + 1]]
<1>1. CASE at = {}
  <2>1. Without(s, w) = s
    BY <1>1 DEF Without
  <2>2. QED
    BY <2>1
<1>2. CASE at # {}
  <2>1. Without(s, w) = r
    BY <1>2 DEF Without
  <2>2. n \in 1..Len(s) /\ s[n] = w /\ Len(s) \in Nat /\ DOMAIN s = 1..Len(s)
    BY <1>2, LenProperties
  <2>3. /\ \A i \in 1..(Len(s) - 1) : i \in 1..Len(s) /\ i + 1 \in 1..Len(s)
        /\ \A i \in 1..Len(s) : s[i] \in Windows
        /\ Len(s) - 1 \in Nat
    BY <2>2, ElementOfSeq
  <2>4. \A i \in 1..(Len(s) - 1) : r[i] \in Windows /\ \E k \in 1..Len(s) : r[i] = s[k]
    BY <2>3
  <2>5. r \in Seq(Windows) /\ DOMAIN r = 1..(Len(s) - 1)
    <3>1. r \in [1..(Len(s) - 1) -> Windows] /\ DOMAIN r = 1..(Len(s) - 1)
      BY <2>4
    <3> HIDE DEF r
    <3>2. r \in UNION {[1..k -> Windows] : k \in Nat}
      BY <3>1, <2>3, Zenon
    <3>3. r \in Seq(Windows)
      BY <3>2, SeqDef, Zenon
    <3>4. QED
      BY <3>1, <3>3
  <2>6. ASSUME NEW i \in 1..Len(s), s[i] # w
        PROVE  \E j \in 1..(Len(s) - 1) : r[j] = s[i]
    <3>0. \A j \in 1..(Len(s) - 1) : r[j] = IF j < n THEN s[j] ELSE s[j + 1]
      OBVIOUS
    <3>1. i # n
      BY <2>2, <2>6
    <3> HIDE DEF n, r
    <3>2. n \in Int /\ i \in Int /\ Len(s) \in Nat /\ 1 <= i /\ i <= Len(s)
          /\ 1 <= n /\ n <= Len(s)
      BY <2>2
    <3>3. CASE i < n
      <4>1. i \in 1..(Len(s) - 1)
        BY <3>2, <3>3
      <4>2. QED
        BY <3>0, <3>3, <4>1
    <3>4. CASE n < i
      <4>1. i - 1 \in 1..(Len(s) - 1) /\ ~(i - 1 < n) /\ (i - 1) + 1 = i
        BY <3>2, <3>4
      <4>2. r[i - 1] = s[(i - 1) + 1]
        BY <3>0, <4>1
      <4>3. QED
        BY <4>1, <4>2
    <3>5. i < n \/ n < i
      BY <3>1, <3>2
    <3>6. QED
      BY <3>3, <3>4, <3>5
  <2> HIDE DEF r
  <2>7. QED
    BY <2>1, <2>2, <2>4, <2>5, <2>6
<1>3. QED
  BY <1>1, <1>2

\* Moving a listed window to the top lists the same windows.
LEMMA ToTopKeeps ==
    ASSUME NEW s \in Seq(Windows), NEW w \in Windows, \E i \in DOMAIN s : s[i] = w
    PROVE  /\ ToTop(s, w) \in Seq(Windows)
           /\ {ToTop(s, w)[i] : i \in DOMAIN ToTop(s, w)} = {s[i] : i \in DOMAIN s}
<1> DEFINE u == Without(s, w)
<1>1. /\ u \in Seq(Windows)
      /\ \A i \in DOMAIN s : s[i] # w => \E j \in DOMAIN u : u[j] = s[i]
      /\ \A j \in DOMAIN u : \E i \in DOMAIN s : u[j] = s[i]
  BY WithoutKeeps
<1>2. /\ ToTop(s, w) \in Seq(Windows)
      /\ DOMAIN ToTop(s, w) = 1..(Len(u) + 1) /\ DOMAIN u = 1..Len(u) /\ Len(u) \in Nat
      /\ \A i \in 1..Len(u) : ToTop(s, w)[i] = u[i]
      /\ ToTop(s, w)[Len(u) + 1] = w
  BY <1>1, AppendProperties, LenProperties DEF ToTop
<1>3. \A i \in DOMAIN s : \E j \in DOMAIN ToTop(s, w) : ToTop(s, w)[j] = s[i]
  <2>1. TAKE i \in DOMAIN s
  <2>2. CASE s[i] = w
    BY <2>2, <1>2
  <2>3. CASE s[i] # w
    BY <2>3, <1>1, <1>2
  <2>4. QED
    BY <2>2, <2>3
<1>4. \A j \in DOMAIN ToTop(s, w) : \E i \in DOMAIN s : ToTop(s, w)[j] = s[i]
  <2>1. TAKE j \in DOMAIN ToTop(s, w)
  <2>2. CASE j = Len(u) + 1
    BY <2>2, <1>2
  <2>3. CASE j # Len(u) + 1
    <3>1. j \in DOMAIN u
      BY <2>3, <1>2
    <3>2. QED
      BY <3>1, <1>1, <1>2
  <2>4. QED
    BY <2>2, <2>3
<1>5. QED
  BY <1>2, <1>3, <1>4

\* The topmost visible window is visible.
LEMMA TopmostIsVisible ==
    ASSUME NEW d, Typed(d), Shown(d) # {}
    PROVE  Topmost(d) \in Visible(d) /\ Topmost(d) \in Windows
<1>1. /\ d.views \in Seq(Windows) /\ Len(d.views) \in Nat
      /\ Shown(d) \subseteq 1..Len(d.views)
  BY LenProperties DEF Typed, Shown
<1>2. \E i \in Shown(d) : \A j \in Shown(d) : j <= i
  BY <1>1, LastPlace
<1>3. \E i \in Shown(d) : Topmost(d) = d.views[i]
  BY <1>2 DEF Topmost
<1>4. QED
  BY <1>3, Typed(d) DEF Shown, Visible, Typed

-----------------------------------------------------------------------------
(* The methods: what each changes, and what it leaves alone.               *)

\* The windows, but for their order and for which one is active.
SameWindows(e, d) ==
    /\ e.mapped = d.mapped /\ e.minimized = d.minimized /\ e.ws = d.ws
    /\ e.live = d.live /\ e.current = d.current /\ e.chooser = d.chooser
    /\ Listed(e) = Listed(d)

\* Who has the keyboard and who is active.
SameFocus(e, d) ==
    e.focused = d.focused /\ e.keys = d.keys /\ e.active = d.active /\ e.drag = d.drag

\* Activating one of some windows concerns the listed ones only.
LEMMA ActivatedEffect ==
    ASSUME NEW d, Typed(d), NEW S \in SUBSET Windows
    PROVE  LET e == Activated(d, S)
           IN /\ Typed(e) /\ SameWindows(e, d)
              /\ e.focused = d.focused /\ e.keys = d.keys /\ e.drag = d.drag
              /\ e.active \intersect Listed(e) \subseteq S
BY DEF Typed, Activated, SameWindows, Listed

\* focusView: focus, keyboard and activation move together.
LEMMA FocusViewEffect ==
    ASSUME NEW d, Typed(d), NEW w \in Windows
    PROVE  LET e == FocusView(d, w)
           IN /\ Typed(e) /\ SameWindows(e, d) /\ e.drag = d.drag /\ e.focused = w
              /\ d.focused = w => e = d
              /\ d.focused # w => e.keys = w /\ e.active \intersect Listed(e) \subseteq {w}
<1>1. CASE d.focused = w
  BY <1>1 DEF FocusView, SameWindows
<1>2. CASE d.focused # w
  <2> DEFINE f == [d EXCEPT !.focused = w, !.keys = w]
  <2>1. Typed(f) /\ SameWindows(f, d) /\ f.drag = d.drag /\ f.focused = w /\ f.keys = w
    BY DEF Typed, SameWindows, Listed
  <2>2. FocusView(d, w) = Activated(f, {w})
    BY <1>2 DEF FocusView
  <2> HIDE DEF f
  <2>3. QED
    BY <1>2, <2>1, <2>2, ActivatedEffect DEF SameWindows
<1>3. QED
  BY <1>1, <1>2

\* unfocusAll: nobody has the keyboard, and nothing is dragged.
LEMMA UnfocusAllEffect ==
    ASSUME NEW d, Typed(d)
    PROVE  LET e == UnfocusAll(d)
           IN /\ Typed(e) /\ SameWindows(e, d)
              /\ e.focused = None /\ e.keys = None /\ e.drag = None
<1> DEFINE f == [d EXCEPT !.focused = None, !.keys = None, !.drag = None]
<1>1. /\ Typed(f) /\ SameWindows(f, d)
      /\ f.focused = None /\ f.keys = None /\ f.drag = None
  BY DEF Typed, SameWindows, Listed
<1>2. UnfocusAll(d) = Activated(f, {})
  BY DEF UnfocusAll
<1> HIDE DEF f
<1>3. QED
  BY <1>1, <1>2, ActivatedEffect DEF SameWindows

\* A panel that asks for the keyboard gets it.
LEMMA FocusPanelEffect ==
    ASSUME NEW d, Typed(d)
    PROVE  LET e == FocusPanel(d)
           IN /\ Typed(e) /\ SameWindows(e, d)
              /\ e.focused = None /\ e.keys = Panel /\ e.drag = d.drag
<1> DEFINE f == [d EXCEPT !.focused = None, !.keys = Panel]
<1>1. /\ Typed(f) /\ SameWindows(f, d)
      /\ f.focused = None /\ f.keys = Panel /\ f.drag = d.drag
  BY DEF Typed, SameWindows, Listed
<1>2. FocusPanel(d) = Activated(f, {})
  BY DEF FocusPanel
<1> HIDE DEF f
<1>3. QED
  BY <1>1, <1>2, ActivatedEffect DEF SameWindows

\* raiseView changes the order only.
LEMMA RaiseViewEffect ==
    ASSUME NEW d, Typed(d), NEW w \in Windows
    PROVE  /\ Typed(RaiseView(d, w)) /\ SameWindows(RaiseView(d, w), d)
           /\ SameFocus(RaiseView(d, w), d)
<1> DEFINE views == IF w \in Listed(d) THEN ToTop(d.views, w) ELSE d.views
<1>1. views \in Seq(Windows) /\ {views[i] : i \in DOMAIN views} = Listed(d)
  <2>1. d.views \in Seq(Windows)
    BY DEF Typed
  <2>2. CASE w \in Listed(d)
    <3>1. \E i \in DOMAIN d.views : d.views[i] = w
      BY <2>2 DEF Listed
    <3>2. QED
      <4>1. /\ ToTop(d.views, w) \in Seq(Windows)
            /\ {ToTop(d.views, w)[i] : i \in DOMAIN ToTop(d.views, w)}
                   = {d.views[i] : i \in DOMAIN d.views}
        BY <2>1, <3>1, ToTopKeeps
      <4>2. views = ToTop(d.views, w)
        BY <2>2
      <4> HIDE DEF views
      <4>3. QED
        BY <4>1, <4>2 DEF Listed
  <2>3. CASE w \notin Listed(d)
    BY <2>1, <2>3 DEF Listed
  <2>4. QED
    BY <2>2, <2>3
<1>2. PICK o : RaiseView(d, w) = [d EXCEPT !.views = views, !.draw = o]
  BY DEF RaiseView
<1> HIDE DEF views
<1> DEFINE e == [d EXCEPT !.views = views, !.draw = o]
<1>3. Typed(e) /\ e.views = views
  BY <1>1 DEF Typed
<1>4. Listed(e) = Listed(d)
  BY <1>1, <1>3 DEF Listed
<1>5. SameWindows(e, d) /\ SameFocus(e, d)
  BY <1>4 DEF Typed, SameWindows, SameFocus
<1>6. QED
  BY <1>2, <1>3, <1>5

\* setMinimized changes who is minimized, and takes the activation of the window.
LEMMA SetMinimizedEffect ==
    ASSUME NEW d, Typed(d), NEW w \in Windows, NEW b \in BOOLEAN
    PROVE  LET e == SetMinimized(d, w, b)
           IN /\ Typed(e)
              /\ e.minimized = IF b THEN d.minimized \union {w} ELSE d.minimized \ {w}
              /\ e.mapped = d.mapped /\ e.ws = d.ws /\ e.current = d.current
              /\ e.live = d.live /\ Listed(e) = Listed(d) /\ e.chooser = d.chooser
              /\ e.focused = d.focused /\ e.keys = d.keys /\ e.drag = d.drag
              /\ e.active \subseteq d.active
BY DEF Typed, SetMinimized, Listed

-----------------------------------------------------------------------------
(* The methods together.                                                   *)

\* The two action properties, of the desk before and after.
Moves(d, e) ==
    e.focused \notin {None, d.focused} => e.active \intersect Listed(e) \subseteq {e.focused}
Finds(d, e) ==
    e.current # d.current =>
        \/ e.focused \in Visible(e)
        \/ Visible(e) = {} /\ e.focused = None

\* focusWorkspaceTop leaves a good desk on which a visible window is focused if there
\* is one.
LEMMA FocusWorkspaceTopGood ==
    ASSUME NEW d, Good(d)
    PROVE  LET e == FocusWorkspaceTop(d)
           IN /\ Good(e) /\ SameWindows(e, d) /\ e.keys # Panel /\ Moves(d, e)
              /\ \/ e.focused \in Visible(e)
                 \/ Visible(e) = {} /\ e.focused = None
<1> DEFINE e == FocusWorkspaceTop(d)
<1>1. Typed(d) /\ Visible(d) \subseteq Windows /\ Visible(d) \subseteq d.mapped
  BY DEF Good, Typed, Visible
<1>2. None \notin Windows /\ Panel \notin Windows /\ None # Panel
  BY DesktopAssumption DEF DesktopAssumption
<1>3. CASE d.focused \in Visible(d)
  BY <1>1, <1>2, <1>3 DEF FocusWorkspaceTop, Good, Focus, SameWindows, Moves
<1>4. CASE d.focused \notin Visible(d) /\ Shown(d) # {}
  <2> DEFINE w == Topmost(d)
  <2>1. w \in Visible(d) /\ w \in Windows /\ d.focused # w
    BY <1>1, <1>4, TopmostIsVisible
  <2>2. e = FocusView(d, w)
    BY <1>4 DEF FocusWorkspaceTop
  <2> HIDE DEF e, w
  <2>3. /\ Typed(e) /\ SameWindows(e, d) /\ e.drag = d.drag
        /\ e.focused = w /\ e.keys = w /\ e.active \intersect Listed(e) \subseteq {w}
    BY <1>1, <2>1, <2>2, FocusViewEffect
  <2>4. Visible(e) = Visible(d)
    BY <2>3 DEF SameWindows, Visible
  <2>5. Focus(e) /\ Driven(e) /\ Complete(e)
    BY <1>1, <1>2, <2>1, <2>3 DEF Good, Focus, Driven, Complete, SameWindows
  <2>6. QED
    BY <1>2, <2>1, <2>3, <2>4, <2>5 DEF Good, Moves, e
<1>5. CASE d.focused \notin Visible(d) /\ Shown(d) = {}
  <2>1. e = UnfocusAll(d)
    BY <1>5 DEF FocusWorkspaceTop
  <2> HIDE DEF e
  <2>2. /\ Typed(e) /\ SameWindows(e, d)
        /\ e.focused = None /\ e.keys = None /\ e.drag = None
    BY <1>1, <2>1, UnfocusAllEffect
  <2>3. Visible(e) = {}
    <3>1. Visible(d) = {}
      BY <1>1, <1>5 DEF Good, Complete, Shown, Listed
    <3>2. QED
      BY <3>1, <2>2 DEF SameWindows, Visible
  <2>4. Focus(e) /\ Driven(e) /\ Complete(e)
    BY <2>2 DEF Good, Focus, Driven, Complete, SameWindows
  <2>5. QED
    BY <1>2, <2>2, <2>3, <2>4 DEF Good, Moves, e
<1>6. QED
  BY <1>3, <1>4, <1>5

\* Switching the workspace.
LEMMA SwitchWorkspaceGood ==
    ASSUME NEW d, Good(d), NEW ws \in Workspaces
    PROVE  LET e == SwitchWorkspace(d, ws)
           IN /\ Good(e) /\ e.current = ws /\ e.ws = d.ws /\ e.mapped = d.mapped
              /\ Moves(d, e) /\ Finds(d, e) /\ (e.keys = Panel => d.keys = Panel)
<1>1. CASE ws = d.current
  BY <1>1 DEF SwitchWorkspace, Moves, Finds
<1>2. CASE ws # d.current
  <2> DEFINE f == [d EXCEPT !.current = ws]
  <2>1. /\ Good(f) /\ f.current = ws /\ f.ws = d.ws /\ f.mapped = d.mapped
        /\ f.focused = d.focused
    BY DEF Good, Typed, Focus, Driven, Complete, Listed
  <2>2. SwitchWorkspace(d, ws) = FocusWorkspaceTop(f)
    BY <1>2 DEF SwitchWorkspace
  <2> HIDE DEF f
  <2>3. QED
    BY <2>1, <2>2, FocusWorkspaceTopGood DEF SameWindows, Moves, Finds
<1>3. QED
  BY <1>1, <1>2

\* A mapped window is focused and raised.
LEMMA FrontGood ==
    ASSUME NEW d, Good(d), NEW w \in d.mapped
    PROVE  LET e == RaiseView(FocusView(d, w), w)
           IN /\ Good(e) /\ SameWindows(e, d) /\ e.focused = w /\ e.keys # Panel
              /\ e.drag = d.drag /\ Moves(d, e)
              /\ d.focused = w => e.active = d.active
<1> DEFINE f == FocusView(d, w)
           e == RaiseView(f, w)
<1>1. Typed(d) /\ w \in Windows
  BY DEF Good, Typed
<1>2. None \notin Windows /\ Panel \notin Windows
  BY DesktopAssumption DEF DesktopAssumption
<1>3. /\ Typed(f) /\ SameWindows(f, d) /\ f.drag = d.drag /\ f.focused = w
      /\ d.focused = w => f = d
      /\ d.focused # w => f.keys = w /\ f.active \intersect Listed(f) \subseteq {w}
  BY <1>1, FocusViewEffect
<1> HIDE DEF f
<1>4. Typed(e) /\ SameWindows(e, f) /\ SameFocus(e, f)
  BY <1>1, <1>3, RaiseViewEffect
<1> HIDE DEF e
<1>5. SameWindows(e, d) /\ e.drag = d.drag /\ e.focused = w
  BY <1>3, <1>4 DEF SameWindows, SameFocus
<1>6. e.keys = w
  BY <1>1, <1>2, <1>3, <1>4 DEF Good, Focus, SameFocus
<1>7. Focus(e) /\ Driven(e) /\ Complete(e)
  BY <1>1, <1>2, <1>5, <1>6 DEF Good, Focus, Driven, Complete, SameWindows
<1>8. Moves(d, e) /\ (d.focused = w => e.active = d.active)
  BY <1>3, <1>4 DEF Moves, SameWindows, SameFocus
<1>9. QED
  BY <1>1, <1>2, <1>4, <1>5, <1>6, <1>7, <1>8 DEF Good, e, f

\* Minimizing, or taking it back, leaves focus and references alone.
LEMMA SetMinimizedGood ==
    ASSUME NEW d, Good(d), NEW w \in Windows, NEW b \in BOOLEAN
    PROVE  Good(SetMinimized(d, w, b))
<1> DEFINE e == SetMinimized(d, w, b)
<1>1. /\ Typed(e) /\ e.mapped = d.mapped /\ Listed(e) = Listed(d) /\ e.chooser = d.chooser
      /\ e.focused = d.focused /\ e.keys = d.keys /\ e.drag = d.drag
  <2>1. Typed(d)
    BY DEF Good
  <2>2. CASE b = TRUE
    BY <2>1, <2>2, SetMinimizedEffect
  <2>3. CASE b = FALSE
    BY <2>1, <2>3, SetMinimizedEffect
  <2>4. QED
    BY <2>2, <2>3
<1> HIDE DEF e
<1>2. QED
  BY <1>1 DEF Good, Focus, Driven, Complete, e

\* Bringing a mapped window to the user.
LEMMA PresentGood ==
    ASSUME NEW d, Good(d), NEW w \in d.mapped
    PROVE  LET e == Present(d, w)
           IN /\ Good(e) /\ e.focused = w /\ e.keys # Panel /\ Moves(d, e)
              /\ e.current = d.current /\ e.ws = d.ws /\ e.mapped = d.mapped
              /\ Listed(e) = Listed(d) /\ w \notin e.minimized
              /\ d.focused = w => e.active \subseteq d.active
<1> DEFINE m == SetMinimized(d, w, FALSE)
<1>1. w \in Windows
  BY DEF Good, Typed
<1>2. /\ Good(m) /\ m.minimized = d.minimized \ {w}
      /\ m.mapped = d.mapped /\ m.ws = d.ws /\ m.current = d.current
      /\ Listed(m) = Listed(d) /\ m.focused = d.focused /\ m.active \subseteq d.active
  <2>1. Good(m)
    BY <1>1, SetMinimizedGood
  <2>2. Typed(d)
    BY DEF Good
  <2>3. /\ m.minimized = IF FALSE THEN d.minimized \union {w} ELSE d.minimized \ {w}
        /\ m.mapped = d.mapped /\ m.ws = d.ws /\ m.current = d.current
        /\ Listed(m) = Listed(d) /\ m.focused = d.focused /\ m.active \subseteq d.active
    BY <1>1, <2>2, SetMinimizedEffect
  <2> HIDE DEF m
  <2>4. QED
    BY <2>1, <2>3
<1>3. Present(d, w) = RaiseView(FocusView(m, w), w)
  BY DEF Present
<1> HIDE DEF m
<1>4. QED
  BY <1>2, <1>3, FrontGood DEF SameWindows, Moves

\* addView lists the window, unless it is listed.
LEMMA AddViewEffect ==
    ASSUME NEW d, Typed(d), NEW w \in Windows
    PROVE  LET e == AddView(d, w)
           IN /\ Typed(e) /\ SameFocus(e, d) /\ Listed(e) = Listed(d) \union {w}
              /\ e.mapped = d.mapped /\ e.minimized = d.minimized /\ e.ws = d.ws
              /\ e.current = d.current /\ e.chooser = d.chooser
<1>1. CASE w \in Listed(d)
  BY <1>1 DEF AddView, SameFocus
<1>2. CASE w \notin Listed(d)
  <2> DEFINE s == Append(d.views, w)
             e == [d EXCEPT !.views = s]
  <2>1. d.views \in Seq(Windows)
    BY DEF Typed
  <2>2. /\ s \in Seq(Windows) /\ DOMAIN s = 1..(Len(d.views) + 1)
        /\ DOMAIN d.views = 1..Len(d.views) /\ Len(d.views) \in Nat
        /\ \A i \in 1..Len(d.views) : s[i] = d.views[i]
        /\ s[Len(d.views) + 1] = w
    BY <2>1, AppendProperties, LenProperties
  <2>3. {s[i] : i \in DOMAIN s} = Listed(d) \union {w}
    <3>1. \A i \in DOMAIN s : s[i] \in Listed(d) \union {w}
      BY <2>2 DEF Listed
    <3>2. \A v \in Listed(d) \union {w} : \E i \in DOMAIN s : s[i] = v
      BY <2>2 DEF Listed
    <3>3. QED
      BY <3>1, <3>2
  <2>4. AddView(d, w) = e
    BY <1>2 DEF AddView
  <2> HIDE DEF s
  <2>5. Typed(e) /\ SameFocus(e, d) /\ e.views = s
        /\ e.mapped = d.mapped /\ e.minimized = d.minimized /\ e.ws = d.ws
        /\ e.current = d.current /\ e.chooser = d.chooser
    BY <2>2 DEF Typed, SameFocus
  <2>6. Listed(e) = Listed(d) \union {w}
    BY <2>3, <2>5 DEF Listed
  <2>7. QED
    BY <2>4, <2>5, <2>6
<1>3. QED
  BY <1>1, <1>2

\* A window rule changes the workspace and the layer of its window.
LEMMA ApplyRulesEffect ==
    ASSUME NEW d, Typed(d), NEW w \in Windows, NEW ws \in Workspaces \union {Stay},
           NEW onTop \in BOOLEAN
    PROVE  LET e == ApplyRules(d, w, ws, onTop)
           IN /\ Typed(e) /\ SameFocus(e, d) /\ Listed(e) = Listed(d)
              /\ e.mapped = d.mapped /\ e.minimized = d.minimized
              /\ e.current = d.current /\ e.chooser = d.chooser
<1> DEFINE x == IF ws = Stay THEN d.ws[w] ELSE ws
           p == [d EXCEPT !.ws[w] = x]
<1>1. x \in Workspaces
  BY DEF Typed
<1>2. /\ Typed(p) /\ SameFocus(p, d) /\ Listed(p) = Listed(d)
      /\ p.mapped = d.mapped /\ p.minimized = d.minimized
      /\ p.current = d.current /\ p.chooser = d.chooser
  BY <1>1 DEF Typed, SameFocus, Listed
<1>3. p = [d EXCEPT !.ws[w] = IF ws = Stay THEN @ ELSE ws]
  OBVIOUS
<1>4. ApplyRules(d, w, ws, onTop)
        = IF onTop THEN [p EXCEPT !.onTop = @ \union {w}, !.draw = ToTop(@, w)] ELSE p
  BY <1>3 DEF ApplyRules
<1> HIDE DEF p
<1>5. ASSUME NEW o
      PROVE  LET e == [p EXCEPT !.onTop = @ \union {w}, !.draw = o]
             IN /\ Typed(e) /\ SameFocus(e, d) /\ Listed(e) = Listed(d)
                /\ e.mapped = d.mapped /\ e.minimized = d.minimized
                /\ e.current = d.current /\ e.chooser = d.chooser
  BY <1>2 DEF Typed, SameFocus, Listed
<1>6. QED
  BY <1>2, <1>4, <1>5

\* removeView forgets every reference to the window, and only to it.
LEMMA RemoveViewEffect ==
    ASSUME NEW d, Typed(d), NEW w \in Windows
    PROVE  LET e == RemoveView(d, w)
           IN /\ Typed(e) /\ e.mapped = d.mapped /\ e.minimized = d.minimized
              /\ e.ws = d.ws /\ e.current = d.current /\ e.active = d.active
              /\ e.focused = IF d.focused = w THEN None ELSE d.focused
              /\ e.keys = IF d.focused = w THEN None ELSE d.keys
              /\ e.drag = IF d.drag = w THEN None ELSE d.drag
              /\ e.chooser = IF d.chooser = w THEN None ELSE d.chooser
              /\ Listed(d) \ {w} \subseteq Listed(e)
<1> DEFINE s == Without(d.views, w)
<1>1. d.views \in Seq(Windows)
  BY DEF Typed
<1>2. /\ s \in Seq(Windows)
      /\ \A i \in DOMAIN d.views : d.views[i] # w => \E j \in DOMAIN s : s[j] = d.views[i]
  BY <1>1, WithoutKeeps
<1>3. RemoveView(d, w) = ForgetView([d EXCEPT !.views = s], w)
  BY DEF RemoveView
<1> HIDE DEF s
<1>4. LET e == ForgetView([d EXCEPT !.views = s], w)
      IN /\ Typed(e) /\ e.mapped = d.mapped /\ e.minimized = d.minimized
         /\ e.ws = d.ws /\ e.current = d.current /\ e.active = d.active
         /\ e.focused = IF d.focused = w THEN None ELSE d.focused
         /\ e.keys = IF d.focused = w THEN None ELSE d.keys
         /\ e.drag = IF d.drag = w THEN None ELSE d.drag
         /\ e.chooser = IF d.chooser = w THEN None ELSE d.chooser
         /\ e.views = s
  <2> DEFINE o == [d EXCEPT !.views = s]
             drag == IF o.drag = w THEN None ELSE o.drag
             chooser == IF o.chooser = w THEN None ELSE o.chooser
             f == [o EXCEPT !.drag = drag, !.chooser = chooser]
             g == [f EXCEPT !.focused = None, !.keys = None]
  <2>1. /\ Typed(o) /\ o.mapped = d.mapped /\ o.minimized = d.minimized
        /\ o.ws = d.ws /\ o.current = d.current /\ o.active = d.active
        /\ o.focused = d.focused /\ o.keys = d.keys /\ o.drag = d.drag
        /\ o.chooser = d.chooser /\ o.views = s
    BY <1>2 DEF Typed
  <2>2. ForgetView(o, w) = UnfocusView(f, w)
    BY DEF ForgetView
  <2> HIDE DEF o
  <2>3. drag \in Windows \union {None} /\ chooser \in Windows \union {None}
    BY <2>1 DEF Typed
  <2>4. drag = (IF d.drag = w THEN None ELSE d.drag)
        /\ chooser = (IF d.chooser = w THEN None ELSE d.chooser)
    BY <2>1
  <2> HIDE DEF drag, chooser
  <2>5. /\ Typed(f) /\ f.mapped = d.mapped /\ f.minimized = d.minimized
        /\ f.ws = d.ws /\ f.current = d.current /\ f.active = d.active
        /\ f.focused = d.focused /\ f.keys = d.keys /\ f.drag = drag
        /\ f.chooser = chooser /\ f.views = s
    BY <2>1, <2>3 DEF Typed
  <2> HIDE DEF f
  <2>6. /\ Typed(g) /\ g.mapped = d.mapped /\ g.minimized = d.minimized
        /\ g.ws = d.ws /\ g.current = d.current /\ g.active = d.active
        /\ g.focused = None /\ g.keys = None /\ g.drag = drag
        /\ g.chooser = chooser /\ g.views = s
    BY <2>5 DEF Typed
  <2>7. UnfocusView(f, w) = IF d.focused = w THEN g ELSE f
    BY <2>5 DEF UnfocusView
  <2> HIDE DEF g
  <2>8. CASE d.focused = w
    BY <2>2, <2>4, <2>6, <2>7, <2>8 DEF o
  <2>9. CASE d.focused # w
    BY <2>2, <2>4, <2>5, <2>7, <2>9 DEF o
  <2>10. QED
    BY <2>8, <2>9
<1>5. Listed(d) \ {w} \subseteq {s[j] : j \in DOMAIN s}
  BY <1>2 DEF Listed
<1>6. QED
  BY <1>3, <1>4, <1>5 DEF Listed

\* A window that is no longer mapped leaves a good desk when it is removed.
LEMMA RemoveViewGood ==
    ASSUME NEW d, Good(d), NEW w \in Windows,
           NEW u, Typed(u), u.mapped = d.mapped \ {w}, u.views = d.views,
           u.focused = d.focused, u.keys = d.keys, u.drag = d.drag, u.chooser = d.chooser,
           u.current = d.current
    PROVE  LET e == RemoveView(u, w)
           IN /\ Good(e) /\ e.mapped = u.mapped /\ e.current = d.current
              /\ e.focused \in {None, d.focused} \ {w}
              /\ (e.keys = Panel => d.keys = Panel)
<1> DEFINE e == RemoveView(u, w)
<1>1. None \notin Windows /\ Panel \notin Windows /\ None # Panel
  BY DesktopAssumption DEF DesktopAssumption
<1>2. /\ Typed(e) /\ e.mapped = u.mapped /\ e.current = u.current
      /\ e.focused = IF u.focused = w THEN None ELSE u.focused
      /\ e.keys = IF u.focused = w THEN None ELSE u.keys
      /\ e.drag = IF u.drag = w THEN None ELSE u.drag
      /\ e.chooser = IF u.chooser = w THEN None ELSE u.chooser
      /\ Listed(u) \ {w} \subseteq Listed(e)
  BY RemoveViewEffect
<1> HIDE DEF e
<1>3. Listed(u) = Listed(d)
  BY DEF Listed
<1>4. Focus(e) /\ Driven(e) /\ Complete(e)
  BY <1>1, <1>2, <1>3 DEF Good, Focus, Driven, Complete
<1>5. QED
  BY <1>1, <1>2, <1>4 DEF Good, e

\* A window is unmapped.
LEMMA UnmappedGood ==
    ASSUME NEW d, Good(d), NEW w \in Windows
    PROVE  LET e == Unmapped(d, w)
           IN /\ Good(e) /\ w \notin e.mapped /\ e.current = d.current
              /\ e.focused \in {None, d.focused} /\ (e.keys = Panel => d.keys = Panel)
<1> DEFINE u == [d EXCEPT !.mapped = @ \ {w}, !.ready = @ \ {w}]
           r == RemoveView(u, w)
<1>1. /\ Typed(u) /\ u.mapped = d.mapped \ {w} /\ u.views = d.views
      /\ u.focused = d.focused /\ u.keys = d.keys /\ u.drag = d.drag
      /\ u.chooser = d.chooser /\ u.current = d.current
  BY DEF Good, Typed
<1>2. Unmapped(d, w) = UnfocusView(r, w)
  BY DEF Unmapped
<1> HIDE DEF u
<1>3. /\ Good(r) /\ r.mapped = u.mapped /\ r.current = d.current
      /\ r.focused \in {None, d.focused} \ {w} /\ (r.keys = Panel => d.keys = Panel)
  BY <1>1, RemoveViewGood
<1> HIDE DEF r
<1>4. Unmapped(d, w) = r
  BY <1>2, <1>3 DEF UnfocusView
<1>5. QED
  BY <1>1, <1>3, <1>4

-----------------------------------------------------------------------------
(* The handlers.                                                           *)

\* What a step from desk d to desk e, with the panel mapped or not after it, keeps.
Fine(d, e, p) == Good(e) /\ (e.keys = Panel => p) /\ Moves(d, e) /\ Finds(d, e)

\* A step that moves neither the focus to another window nor the workspace.
LEMMA Quiet ==
    ASSUME NEW d, NEW e, NEW p, Good(e), e.keys = Panel => p,
           e.focused \in {None, d.focused}, e.current = d.current
    PROVE  Fine(d, e, p)
BY DEF Fine, Moves, Finds

\* A created window is listed, and nobody refers to it.
LEMMA NewToplevelFine ==
    ASSUME Inv, NEW w \in Windows, NewToplevel(w)
    PROVE  Fine(desk, desk', panel')
<1> DEFINE d == [desk EXCEPT !.live = @ \union {w}, !.draw = Append(@, w),
                             !.ws[w] = desk.current]
<1>1. /\ Typed(d) /\ Listed(d) = Listed(desk) /\ d.mapped = desk.mapped
      /\ d.focused = desk.focused /\ d.keys = desk.keys /\ d.drag = desk.drag
      /\ d.chooser = desk.chooser /\ d.current = desk.current
  BY DEF Inv, Good, Typed, Listed
<1>2. desk' = AddView(d, w) /\ panel' = panel
  BY DEF NewToplevel
<1> HIDE DEF d
<1>3. Good(desk') /\ desk'.focused = desk.focused /\ desk'.keys = desk.keys
      /\ desk'.current = desk.current
  BY <1>1, <1>2, AddViewEffect DEF Inv, Good, Focus, Driven, Complete, SameFocus
<1>4. QED
  BY <1>2, <1>3, Quiet DEF Inv

\* A mapped window is listed; only one that is visible gets focus and activation.
LEMMA MapFine ==
    ASSUME Inv, NEW w \in Windows, NEW ws \in RuleWorkspaces \union {Stay},
           NEW onTop \in RuleOnTop, Map(w, ws, onTop)
    PROVE  Fine(desk, desk', panel')
<1> DEFINE x == [desk EXCEPT !.mapped = @ \union {w}]
           m == SetMinimized(x, w, FALSE)
           l == AddView(m, w)
           r == ApplyRules(l, w, ws, onTop)
           a == [r EXCEPT !.active = @ \union {w}]
<1>1. ws \in Workspaces \union {Stay} /\ onTop \in BOOLEAN
  BY DesktopAssumption DEF DesktopAssumption
<1>2. /\ Typed(x) /\ Listed(x) = Listed(desk) /\ x.mapped = desk.mapped \union {w}
      /\ x.focused = desk.focused /\ x.keys = desk.keys /\ x.drag = desk.drag
      /\ x.chooser = desk.chooser /\ x.current = desk.current
  BY DEF Inv, Good, Typed, Listed
<1>3. /\ desk' = IF w \in Visible(r) THEN RaiseView(FocusView(a, w), w) ELSE r
      /\ panel' = panel
  BY DEF Map, Becomes
<1> HIDE DEF x
<1>4. /\ Typed(m) /\ Listed(m) = Listed(x) /\ m.mapped = x.mapped
      /\ m.focused = x.focused /\ m.keys = x.keys /\ m.drag = x.drag
      /\ m.chooser = x.chooser /\ m.current = x.current
  BY <1>2, SetMinimizedEffect
<1> HIDE DEF m
<1>5. /\ Typed(l) /\ Listed(l) = Listed(m) \union {w} /\ l.mapped = m.mapped
      /\ l.focused = m.focused /\ l.keys = m.keys /\ l.drag = m.drag
      /\ l.chooser = m.chooser /\ l.current = m.current
  BY <1>4, AddViewEffect DEF SameFocus
<1> HIDE DEF l
<1>6. /\ Typed(r) /\ Listed(r) = Listed(l) /\ r.mapped = l.mapped
      /\ r.focused = l.focused /\ r.keys = l.keys /\ r.drag = l.drag
      /\ r.chooser = l.chooser /\ r.current = l.current
  <2>1. Typed(l) /\ ws \in Workspaces \union {Stay} /\ onTop \in BOOLEAN
    BY <1>1, <1>5
  <2>2. CASE onTop = TRUE
    <3>1. /\ Typed(r) /\ SameFocus(r, l) /\ Listed(r) = Listed(l)
          /\ r.mapped = l.mapped /\ r.current = l.current /\ r.chooser = l.chooser
      BY <2>1, <2>2, ApplyRulesEffect
    <3> HIDE DEF r
    <3>2. QED
      BY <3>1 DEF SameFocus
  <2>3. CASE onTop = FALSE
    <3>1. /\ Typed(r) /\ SameFocus(r, l) /\ Listed(r) = Listed(l)
          /\ r.mapped = l.mapped /\ r.current = l.current /\ r.chooser = l.chooser
      BY <2>1, <2>3, ApplyRulesEffect
    <3> HIDE DEF r
    <3>2. QED
      BY <3>1 DEF SameFocus
  <2>4. QED
    BY <2>1, <2>2, <2>3
<1> HIDE DEF r
<1>7. Good(r) /\ r.focused = desk.focused /\ r.keys = desk.keys /\ r.current = desk.current
  BY <1>2, <1>4, <1>5, <1>6 DEF Inv, Good, Focus, Driven, Complete
<1>8. CASE w \in Visible(r)
  <2>1. /\ Typed(a) /\ Listed(a) = Listed(r) /\ a.mapped = r.mapped
        /\ a.focused = r.focused /\ a.keys = r.keys /\ a.drag = r.drag
        /\ a.chooser = r.chooser /\ a.current = r.current
    BY <1>6 DEF Typed, Listed
  <2> HIDE DEF a
  <2>2. Good(a) /\ w \in a.mapped
    BY <1>7, <1>8, <2>1 DEF Good, Focus, Driven, Complete, Visible
  <2>3. desk' = RaiseView(FocusView(a, w), w)
    BY <1>3, <1>8
  <2>4. /\ Good(desk') /\ SameWindows(desk', a) /\ desk'.focused = w /\ desk'.keys # Panel
        /\ Moves(a, desk')
    BY <2>2, <2>3, FrontGood
  <2>5. QED
    BY <1>7, <2>1, <2>4 DEF Fine, Moves, Finds, SameWindows
<1>9. CASE w \notin Visible(r)
  BY <1>3, <1>7, <1>9, Quiet DEF Inv
<1>10. QED
  BY <1>8, <1>9

\* Nobody refers to a window that goes away.
LEMMA DestroyFine ==
    ASSUME Inv, NEW w \in Windows, Destroy(w)
    PROVE  Fine(desk, desk', panel')
<1> DEFINE d == IF w \in desk.mapped THEN Unmapped(desk, w) ELSE RemoveView(desk, w)
<1>1. /\ Good(d) /\ w \notin d.mapped /\ d.current = desk.current
      /\ d.focused \in {None, desk.focused} /\ (d.keys = Panel => desk.keys = Panel)
  <2>1. CASE w \in desk.mapped
    BY <2>1, UnmappedGood DEF Inv
  <2>2. CASE w \notin desk.mapped
    <3>1. desk.mapped = desk.mapped \ {w} /\ Typed(desk)
      BY <2>2 DEF Inv, Good
    <3>2. QED
      BY <2>2, <3>1, RemoveViewGood DEF Inv
  <2>3. QED
    BY <2>1, <2>2
<1>2. 0 \in Workspaces
  BY DesktopAssumption DEF DesktopAssumption, Workspaces
<1>3. PICK o : desk' = [d EXCEPT !.live = @ \ {w}, !.ready = @ \ {w},
                                 !.minimized = @ \ {w}, !.onTop = @ \ {w},
                                 !.active = @ \ {w}, !.ws[w] = 0, !.draw = o]
  BY DEF Destroy, Becomes
<1>4. panel' = panel
  BY DEF Destroy, Becomes
<1> HIDE DEF d
<1>5. Good(desk') /\ desk'.focused = d.focused /\ desk'.keys = d.keys
      /\ desk'.current = d.current
  <2>1. Typed(d)
    BY <1>1 DEF Good
  <2>2. /\ desk'.mapped = d.mapped /\ desk'.views = d.views
        /\ desk'.focused = d.focused /\ desk'.keys = d.keys /\ desk'.drag = d.drag
        /\ desk'.chooser = d.chooser /\ desk'.current = d.current
    BY <1>3, <2>1 DEF Typed
  <2>3. Typed(desk')
    <3>1. [d.ws EXCEPT ![w] = 0] \in [Windows -> Workspaces]
      BY <1>2, <2>1 DEF Typed
    <3>2. QED
      BY <1>3, <2>1, <3>1 DEF Typed
  <2>4. QED
    BY <1>1, <2>2, <2>3 DEF Good, Focus, Driven, Complete, Listed
<1>6. QED
  BY <1>1, <1>4, <1>5, Quiet DEF Inv

\* What else a client does.
LEMMA ClientStepFine ==
    ASSUME Inv, ClientStep
    PROVE  Fine(desk, desk', panel')
<1>1. ASSUME NEW w \in Windows, InitialCommit(w) PROVE Fine(desk, desk', panel')
  <2>1. Good(desk') /\ desk'.focused = desk.focused /\ desk'.keys = desk.keys
        /\ desk'.current = desk.current /\ panel' = panel
    <3>1. desk' = [desk EXCEPT !.ready = @ \union {w}] /\ panel' = panel
      BY <1>1 DEF InitialCommit, Becomes
    <3>2. /\ Typed(desk') /\ desk'.mapped = desk.mapped /\ desk'.views = desk.views
          /\ desk'.focused = desk.focused /\ desk'.keys = desk.keys
          /\ desk'.current = desk.current /\ desk'.drag = desk.drag
          /\ desk'.chooser = desk.chooser
      BY <3>1 DEF Inv, Good, Typed
    <3>3. QED
      BY <3>1, <3>2 DEF Inv, Good, Focus, Driven, Complete, Listed
  <2>2. QED
    BY <2>1, Quiet DEF Inv
<1>2. ASSUME NEW w \in Windows, Unmap(w) PROVE Fine(desk, desk', panel')
  BY <1>2, UnmappedGood, Quiet DEF Unmap, Becomes, Inv
<1>3. ASSUME NEW w \in Windows, BeginDrag(w) PROVE Fine(desk, desk', panel')
  <2>1. Good(desk') /\ desk'.focused = desk.focused /\ desk'.keys = desk.keys
        /\ desk'.current = desk.current /\ panel' = panel
    <3>1. desk' = [desk EXCEPT !.drag = w] /\ panel' = panel /\ w \in desk.mapped
      BY <1>3 DEF BeginDrag, Becomes
    <3>2. /\ Typed(desk') /\ desk'.mapped = desk.mapped /\ desk'.views = desk.views
          /\ desk'.focused = desk.focused /\ desk'.keys = desk.keys
          /\ desk'.current = desk.current /\ desk'.drag = w
          /\ desk'.chooser = desk.chooser
      BY <3>1 DEF Inv, Good, Typed
    <3>3. QED
      BY <3>1, <3>2 DEF Inv, Good, Focus, Driven, Complete, Listed
  <2>2. QED
    BY <2>1, Quiet DEF Inv
<1>4. ASSUME NEW w \in Windows, NEW b \in BOOLEAN, RequestMinimize(w, b)
      PROVE  Fine(desk, desk', panel')
  <2>1. desk' = SetMinimized(desk, w, b) /\ panel' = panel
    BY <1>4 DEF RequestMinimize, Becomes
  <2>2. Good(SetMinimized(desk, w, b))
    BY SetMinimizedGood DEF Inv
  <2>3. desk'.focused = desk.focused /\ desk'.keys = desk.keys /\ desk'.current = desk.current
    BY <2>1 DEF SetMinimized, Inv, Good, Typed
  <2>4. QED
    BY <2>1, <2>2, <2>3, Quiet DEF Inv
<1>5. ASSUME NEW grab \in BOOLEAN, PanelMap(grab) PROVE Fine(desk, desk', panel')
  <2>1. CASE grab
    <3>1. desk' = FocusPanel(desk) /\ panel' = TRUE
      BY <1>5, <2>1 DEF PanelMap
    <3>2. /\ Typed(desk') /\ SameWindows(desk', desk)
          /\ desk'.focused = None /\ desk'.keys = Panel /\ desk'.drag = desk.drag
      BY <3>1, FocusPanelEffect DEF Inv, Good
    <3>3. QED
      BY <3>1, <3>2, Quiet DEF Inv, Good, Focus, Driven, Complete, SameWindows
  <2>2. CASE ~grab
    BY <1>5, <2>2, Quiet DEF PanelMap, Inv
  <2>3. QED
    BY <2>1, <2>2
<1>6. ASSUME PanelUnmap PROVE Fine(desk, desk', panel')
  <2>1. CASE desk.keys = Panel
    <3>1. desk' = FocusWorkspaceTop(desk)
      BY <1>6, <2>1 DEF PanelUnmap
    <3>2. Good(desk') /\ SameWindows(desk', desk) /\ desk'.keys # Panel /\ Moves(desk, desk')
      BY <3>1, FocusWorkspaceTopGood DEF Inv
    <3>3. QED
      BY <3>2 DEF Fine, Finds, SameWindows
  <2>2. CASE desk.keys # Panel
    BY <1>6, <2>2, Quiet DEF PanelUnmap, Inv
  <2>3. QED
    BY <2>1, <2>2
<1>7. QED
  BY <1>1, <1>2, <1>3, <1>4, <1>5, <1>6, NewToplevelFine, MapFine, DestroyFine
     DEF ClientStep

\* The taskbar brings a window to the user, from whatever workspace it is on.
LEMMA FtlActivateFine ==
    ASSUME Inv, NEW w \in Windows, FtlActivate(w)
    PROVE  Fine(desk, desk', panel')
<1> DEFINE s == SwitchWorkspace(desk, desk.ws[w])
<1>1. /\ desk' = Present(s, w) /\ panel' = panel /\ w \in desk.mapped
      /\ desk.ws[w] \in Workspaces
  BY DEF FtlActivate, Becomes, Inv, Good, Typed
<1>2. /\ Good(s) /\ s.current = desk.ws[w] /\ s.ws = desk.ws /\ s.mapped = desk.mapped
      /\ Moves(desk, s)
  BY <1>1, SwitchWorkspaceGood DEF Inv
<1> HIDE DEF s
<1>3. /\ Good(desk') /\ desk'.focused = w /\ desk'.keys # Panel /\ Moves(s, desk')
      /\ desk'.current = s.current /\ desk'.ws = s.ws /\ desk'.mapped = s.mapped
      /\ Listed(desk') = Listed(s) /\ w \notin desk'.minimized
      /\ s.focused = w => desk'.active \subseteq s.active
  BY <1>1, <1>2, PresentGood
<1>4. Moves(desk, desk')
  BY <1>2, <1>3 DEF Moves
<1>5. Finds(desk, desk')
  BY <1>1, <1>2, <1>3 DEF Finds, Visible
<1>6. QED
  BY <1>3, <1>4, <1>5 DEF Fine

\* The switcher brings the chosen window to the user, if it is still mapped.
LEMMA AltTabApplyFine ==
    ASSUME Inv, AltTabApply
    PROVE  Fine(desk, desk', panel')
<1> DEFINE w == entries[chosen]
           x == [desk EXCEPT !.aborted = TRUE]
<1>1. panel' = panel
  BY DEF AltTabApply
<1>2. ASSUME w \in desk.mapped PROVE Fine(desk, Present(desk, w), panel')
  BY <1>2, PresentGood DEF Inv, Fine, Finds
<1>3. Fine(desk, x, panel')
  <2>1. Good(x) /\ x.focused = desk.focused /\ x.keys = desk.keys /\ x.current = desk.current
    <3>1. /\ Typed(x) /\ x.mapped = desk.mapped /\ x.views = desk.views
          /\ x.focused = desk.focused /\ x.keys = desk.keys
          /\ x.current = desk.current /\ x.drag = desk.drag
          /\ x.chooser = desk.chooser
      BY DEF Inv, Good, Typed
    <3> HIDE DEF x
    <3>2. QED
      BY <3>1 DEF Inv, Good, Focus, Driven, Complete, Listed
  <2> HIDE DEF x
  <2>2. QED
    BY <1>1, <2>1, Quiet DEF Inv
<1>4. Fine(desk, desk, panel')
  BY <1>1, Quiet DEF Inv
<1>5. CASE w \notin desk.live /\ desk' = x
  BY <1>3, <1>5
<1>6. CASE w \in desk.mapped /\ desk' = Present(desk, w)
  BY <1>2, <1>6
<1>7. CASE desk' = desk
  BY <1>4, <1>7
<1>8. \/ w \notin desk.live /\ desk' = x
      \/ w \in desk.mapped /\ desk' = Present(desk, w)
      \/ desk' = desk
  <2>1. (w \notin desk.live) \/ w \in desk.mapped \/ (w \in desk.live \ desk.mapped)
    OBVIOUS
  <2>2. desk' = CASE w \notin desk.live   -> x
                  [] w \in desk.mapped    -> Present(desk, w)
                  [] w \in desk.live \ desk.mapped -> desk
    BY DEF AltTabApply
  <2> HIDE DEF x, w
  <2>3. QED
    BY <2>1, <2>2
<1>9. QED
  BY <1>5, <1>6, <1>7, <1>8

\* What else the user does.
LEMMA UserStepFine ==
    ASSUME Inv, UserStep
    PROVE  Fine(desk, desk', panel')
<1>0. Good(desk) /\ Typed(desk)
  BY DEF Inv, Good
<1>1. ASSUME KeyMinimize PROVE Fine(desk, desk', panel')
  <2> DEFINE b == desk.focused \notin desk.minimized
  <2>1. /\ desk' = SetMinimized(desk, desk.focused, b) /\ panel' = panel
        /\ desk.focused \in Windows
    BY <1>0, <1>1 DEF KeyMinimize, Becomes, Typed
  <2>2. b \in BOOLEAN
    OBVIOUS
  <2> HIDE DEF b
  <2>3. Good(desk')
    BY <1>0, <2>1, <2>2, SetMinimizedGood
  <2>4. desk'.focused = desk.focused /\ desk'.keys = desk.keys /\ desk'.current = desk.current
    BY <1>0, <2>1 DEF SetMinimized, Typed
  <2>5. QED
    BY <2>1, <2>3, <2>4, Quiet DEF Inv
<1>2. ASSUME KeySnapLayout \/ ChooserClose \/ EndDrag PROVE Fine(desk, desk', panel')
  <2>1. Good(desk') /\ desk'.focused = desk.focused /\ desk'.keys = desk.keys
        /\ desk'.current = desk.current /\ panel' = panel
    BY <1>0, <1>2 DEF KeySnapLayout, ChooserClose, EndDrag, Becomes,
                      Good, Typed, Focus, Driven, Complete, Listed
  <2>2. QED
    BY <2>1, Quiet DEF Inv
<1>3. ASSUME NEW ws \in Workspaces, KeyWorkspace(ws) PROVE Fine(desk, desk', panel')
  BY <1>3, SwitchWorkspaceGood DEF KeyWorkspace, Becomes, Inv, Fine
<1>4. ASSUME AltTabShow \/ AltTabNext \/ AltTabPrev PROVE Fine(desk, desk', panel')
  <2>1. desk' = desk /\ panel' = panel
    BY <1>4 DEF AltTabShow, AltTabNext, AltTabPrev
  <2>2. QED
    BY <2>1, Quiet DEF Inv
<1>5. ASSUME NEW w \in desk.mapped
      PROVE  /\ Good(Front(w)) /\ SameWindows(Front(w), desk) /\ Front(w).focused = w
             /\ Front(w).keys # Panel /\ Moves(desk, Front(w))
  BY <1>0, FrontGood DEF Front
<1>6. ASSUME NEW w \in Windows, ClickContent(w) PROVE Fine(desk, desk', panel')
  <2>1. w \in desk.mapped /\ desk' = Front(w)
    BY <1>6 DEF ClickContent, Hit, Becomes
  <2>2. QED
    BY <1>5, <2>1 DEF Fine, Finds, SameWindows
<1>7. ASSUME NEW w \in Windows, ClickTitleBar(w) PROVE Fine(desk, desk', panel')
  <2> DEFINE f == Front(w)
  <2>1. w \in desk.mapped /\ desk' = [f EXCEPT !.drag = w]
    BY <1>7 DEF ClickTitleBar, Hit, Becomes
  <2>2. /\ Good(f) /\ SameWindows(f, desk) /\ f.focused = w
        /\ f.keys # Panel /\ Moves(desk, f)
    BY <1>5, <2>1
  <2> HIDE DEF f
  <2>3. /\ Good(desk') /\ desk'.focused = w /\ desk'.keys # Panel
        /\ desk'.active = f.active /\ Listed(desk') = Listed(f)
        /\ desk'.current = f.current
    <3>1. /\ Typed(desk') /\ desk'.mapped = f.mapped /\ desk'.views = f.views
          /\ desk'.focused = f.focused /\ desk'.keys = f.keys
          /\ desk'.current = f.current /\ desk'.drag = w
          /\ desk'.chooser = f.chooser /\ desk'.active = f.active
      BY <2>1, <2>2 DEF Good, Typed
    <3>2. w \in f.mapped
      BY <2>1, <2>2 DEF SameWindows
    <3>3. QED
      BY <2>2, <3>1, <3>2 DEF Good, Focus, Driven, Complete, Listed
  <2>4. QED
    BY <2>2, <2>3 DEF Fine, Moves, Finds, SameWindows
<1>8. ASSUME NEW w \in Windows, ClickMinButton(w) PROVE Fine(desk, desk', panel')
  <2> DEFINE f == Front(w)
             b == w \notin desk.minimized
  <2>1. w \in desk.mapped /\ desk' = SetMinimized(f, w, b)
    BY <1>8 DEF ClickMinButton, Hit, Becomes
  <2>2. /\ Good(f) /\ SameWindows(f, desk) /\ f.focused = w
        /\ f.keys # Panel /\ Moves(desk, f)
    BY <1>5, <2>1
  <2>3. b \in BOOLEAN
    OBVIOUS
  <2> HIDE DEF f, b
  <2>4. Good(desk')
    BY <2>1, <2>2, <2>3, SetMinimizedGood
  <2>5. /\ desk'.focused = f.focused /\ desk'.keys = f.keys /\ desk'.current = f.current
        /\ desk'.active \subseteq f.active /\ Listed(desk') = Listed(f)
    BY <2>1, <2>2 DEF SetMinimized, Good, Typed, Listed
  <2>6. QED
    BY <2>2, <2>4, <2>5 DEF Fine, Moves, Finds, SameWindows
<1>9. ASSUME ClickPanel PROVE Fine(desk, desk', panel')
  <2>1. desk' = FocusPanel(desk) /\ panel /\ panel' = panel
    BY <1>9 DEF ClickPanel, Becomes
  <2>2. /\ Typed(desk') /\ SameWindows(desk', desk)
        /\ desk'.focused = None /\ desk'.keys = Panel /\ desk'.drag = desk.drag
    BY <1>0, <2>1, FocusPanelEffect
  <2>3. QED
    BY <1>0, <2>1, <2>2, Quiet DEF Good, Focus, Driven, Complete, SameWindows
<1>10. QED
  BY <1>1, <1>2, <1>3, <1>4, <1>6, <1>7, <1>8, <1>9, FtlActivateFine, AltTabApplyFine
     DEF UserStep

\* At the start there is no window.
LEMMA InitGood == Init => Inv
<1>1. None # Panel /\ 0 \in Workspaces
  BY DesktopAssumption DEF DesktopAssumption, Workspaces
<1>2. SUFFICES ASSUME Init PROVE Inv
  OBVIOUS
<1>3. <<>> \in Seq(Windows)
  BY EmptySeq
<1>4. QED
  BY <1>1, <1>2, <1>3 DEF Init, Inv, Good, Typed, Focus, Driven, Complete, Listed

\* Inv is inductive, and every step has the two action properties.
LEMMA StepGood == Inv /\ [Next]_vars => Inv' /\ Moves(desk, desk') /\ Finds(desk, desk')
<1>1. SUFFICES ASSUME Inv, [Next]_vars
               PROVE  Inv' /\ Moves(desk, desk') /\ Finds(desk, desk')
  OBVIOUS
<1>2. Fine(desk, desk', panel')
  <2>1. CASE UNCHANGED vars
    <3>1. desk' = desk /\ panel' = panel
      BY <2>1 DEF vars
    <3>2. QED
      BY <1>1, <3>1, Quiet DEF Inv
  <2>2. CASE Next
    BY <1>1, <2>2, ClientStepFine, UserStepFine DEF Next
  <2>3. QED
    BY <1>1, <2>1, <2>2
<1>3. QED
  BY <1>2 DEF Inv, Fine

\* The invariant that the theorems rest on holds.
LEMMA InvHolds == Spec => []Inv
<1>1. QED
  BY InitGood, StepGood, PTL DEF Spec

\* The keyboard goes to the focused window, which is mapped, or to a panel that is
\* shown: whatever the clients and the user do, and in whatever order (Seat::focusView,
\* focusSurface, onViewDestroyed; handleMap, handleUnmap, ~View).
THEOREM FocusIsSafe == Spec => []KeyboardFollowsFocus
<1>1. Inv => KeyboardFollowsFocus
  BY DEF Inv, Good, Focus, KeyboardFollowsFocus
<1>2. QED
  BY <1>1, InvHolds, PTL

\* The drag and the snap layout chooser never point to a window that is unmapped or
\* gone (Seat::onViewDestroyed).
THEOREM ReferencesAreSafe == Spec => []DrivenAreMapped
<1>1. Inv => DrivenAreMapped
  BY DEF Inv, Good, Driven, DrivenAreMapped
<1>2. QED
  BY <1>1, InvHolds, PTL

\* When the focus moves to another window, no other listed window stays active
\* (Seat::focusView, seat.cpp:503).
THEOREM ActivationIsUnique == Spec => FocusMovesActivation
<1>1. Inv /\ [Next]_vars =>
        [desk'.focused \notin {None, desk.focused} =>
           desk'.active \intersect Listed(desk') \subseteq {desk'.focused}]_vars
  BY StepGood DEF Moves
<1>2. QED
  BY <1>1, InvHolds, PTL DEF Spec, FocusMovesActivation

\* A workspace switch leaves the focus on a window of the new workspace, if it shows
\* one (Compositor::switchWorkspace, focusWorkspaceTop, handleFtlActivate).
THEOREM SwitchIsComplete == Spec => SwitchFindsFocus
<1>1. Inv /\ [Next]_vars =>
        [desk'.current # desk.current =>
           \/ desk'.focused \in Visible(desk')
           \/ Visible(desk') = {} /\ desk'.focused = None]_vars
  BY StepGood DEF Finds
<1>2. QED
  BY <1>1, InvHolds, PTL DEF Spec, SwitchFindsFocus


-----------------------------------------------------------------------------
(* The list of the windows and the order of drawing.                       *)

\* No window is twice in a list; the windows that are in it.
Once(s) == \A i, j \in DOMAIN s : s[i] = s[j] => i = j
Within(s) == {s[i] : i \in DOMAIN s}

\* Taking a window out of a list takes its only place.
LEMMA WithoutOnce ==
    ASSUME NEW s \in Seq(Windows), Once(s), NEW w
    PROVE  LET r == Without(s, w)
           IN  /\ r \in Seq(Windows) /\ Once(r)
               /\ Within(r) = Within(s) \ {w}
<1> DEFINE at == {i \in DOMAIN s : s[i] = w}
           n  == CHOOSE i \in at : TRUE
           r  == [i \in 1..(Len(s) - 1) |-> IF i < n THEN s[i] ELSE s[i + 1]]
<1>1. CASE at = {}
  <2>1. Without(s, w) = s
    BY <1>1 DEF Without
  <2>2. Within(s) = Within(s) \ {w}
    BY <1>1 DEF Within
  <2>3. QED
    BY <2>1, <2>2
<1>2. CASE at # {}
  <2>1. Without(s, w) = r
    BY <1>2 DEF Without
  <2>2. n \in 1..Len(s) /\ s[n] = w /\ Len(s) \in Nat /\ DOMAIN s = 1..Len(s)
    BY <1>2, LenProperties
  <2>3. DOMAIN r = 1..(Len(s) - 1)
        /\ \A j \in 1..(Len(s) - 1) : r[j] = IF j < n THEN s[j] ELSE s[j + 1]
    OBVIOUS
  <2>4. \A j \in 1..(Len(s) - 1) : j \in 1..Len(s) /\ j + 1 \in 1..Len(s) /\ j \in Int
    BY <2>2
  <2>5. \A i \in 1..Len(s) : s[i] \in Windows
    BY <2>2, ElementOfSeq
  <2>6. \A j \in 1..(Len(s) - 1) : r[j] \in Windows
    BY <2>3, <2>4, <2>5
  <2>7. r \in Seq(Windows)
    <3>1. r \in [1..(Len(s) - 1) -> Windows] /\ Len(s) - 1 \in Nat
      BY <2>2, <2>6
    <3> HIDE DEF r
    <3>2. r \in UNION {[1..k -> Windows] : k \in Nat}
      BY <3>1, Zenon
    <3>3. QED
      BY <3>2, SeqDef, Zenon
  <2> HIDE DEF r, n, at
  <2>8. Once(r)
    <3>1. SUFFICES ASSUME NEW i \in 1..(Len(s) - 1), NEW j \in 1..(Len(s) - 1), r[i] = r[j]
                   PROVE  i = j
      BY <2>3 DEF Once
    <3>2. \A k, m \in 1..Len(s) : s[k] = s[m] => k = m
      BY <2>2 DEF Once
    <3>3. n \in Int /\ i \in Int /\ j \in Int
      BY <2>2, <2>4
    <3>4. CASE i < n /\ j < n
      <4>1. s[i] = s[j]
        BY <2>3, <3>1, <3>4
      <4>2. QED
        BY <2>4, <3>2, <4>1
    <3>5. CASE i < n /\ ~(j < n)
      <4>1. s[i] = s[j + 1]
        BY <2>3, <3>1, <3>5
      <4>2. i = j + 1
        BY <2>4, <3>2, <4>1
      <4>3. QED
        BY <3>3, <3>5, <4>2
    <3>6. CASE ~(i < n) /\ j < n
      <4>1. s[i + 1] = s[j]
        BY <2>3, <3>1, <3>6
      <4>2. i + 1 = j
        BY <2>4, <3>2, <4>1
      <4>3. QED
        BY <3>3, <3>6, <4>2
    <3>7. CASE ~(i < n) /\ ~(j < n)
      <4>1. s[i + 1] = s[j + 1]
        BY <2>3, <3>1, <3>7
      <4>2. i + 1 = j + 1
        BY <2>4, <3>2, <4>1
      <4>3. QED
        BY <3>3, <4>2
    <3>8. QED
      BY <3>4, <3>5, <3>6, <3>7
  <2>9. \A i \in 1..Len(s) : s[i] # w => \E j \in 1..(Len(s) - 1) : r[j] = s[i]
    <3>1. SUFFICES ASSUME NEW i \in 1..Len(s), s[i] # w
                   PROVE  \E j \in 1..(Len(s) - 1) : r[j] = s[i]
      OBVIOUS
    <3>2. i # n /\ i \in Int /\ n \in Int /\ 1 <= i /\ i <= Len(s) /\ 1 <= n /\ n <= Len(s)
          /\ Len(s) \in Int
      BY <2>2, <3>1
    <3>3. CASE i < n
      <4>1. i \in 1..(Len(s) - 1)
        BY <3>2, <3>3
      <4>2. QED
        BY <2>3, <3>3, <4>1
    <3>4. CASE n < i
      <4>1. i - 1 \in 1..(Len(s) - 1) /\ ~(i - 1 < n) /\ (i - 1) + 1 = i
        BY <3>2, <3>4
      <4>2. r[i - 1] = s[(i - 1) + 1]
        BY <2>3, <4>1
      <4>3. QED
        BY <4>1, <4>2
    <3>5. i < n \/ n < i
      BY <3>2
    <3>6. QED
      BY <3>3, <3>4, <3>5
  <2>10. \A j \in 1..(Len(s) - 1) : r[j] # w /\ \E i \in 1..Len(s) : r[j] = s[i]
    <3>1. SUFFICES ASSUME NEW j \in 1..(Len(s) - 1)
                   PROVE  r[j] # w /\ \E i \in 1..Len(s) : r[j] = s[i]
      OBVIOUS
    <3>2. \A k \in 1..Len(s) : s[k] = w => k = n
      BY <2>2 DEF Once
    <3>3. n \in Int /\ j \in Int /\ j \in 1..Len(s) /\ j + 1 \in 1..Len(s)
      BY <2>2, <2>4
    <3>4. CASE j < n
      BY <2>3, <3>2, <3>3, <3>4
    <3>5. CASE ~(j < n)
      <4>1. r[j] = s[j + 1] /\ j + 1 # n
        BY <2>3, <3>3, <3>5
      <4>2. QED
        BY <3>2, <3>3, <4>1
    <3>6. QED
      BY <3>4, <3>5
  <2>11. Within(r) = Within(s) \ {w}
    <3>1. ASSUME NEW x \in Within(r) PROVE x \in Within(s) \ {w}
      BY <2>2, <2>3, <2>10 DEF Within
    <3>2. ASSUME NEW x \in Within(s) \ {w} PROVE x \in Within(r)
      <4>1. PICK i \in 1..Len(s) : x = s[i] /\ s[i] # w
        BY <2>2 DEF Within
      <4>2. PICK j \in 1..(Len(s) - 1) : r[j] = s[i]
        BY <2>9, <4>1
      <4>3. QED
        BY <2>3, <4>1, <4>2 DEF Within
    <3>3. QED
      BY <3>1, <3>2
  <2>12. QED
    BY <2>1, <2>7, <2>8, <2>11
<1>3. QED
  BY <1>1, <1>2

\* Appending a window that is not in a list.
LEMMA AppendOnce ==
    ASSUME NEW s \in Seq(Windows), Once(s), NEW w \in Windows,
           w \notin Within(s)
    PROVE  LET r == Append(s, w)
           IN  /\ r \in Seq(Windows) /\ Once(r)
               /\ Within(r) = Within(s) \union {w}
<1> DEFINE r == Append(s, w)
<1>1. /\ r \in Seq(Windows) /\ DOMAIN r = 1..(Len(s) + 1) /\ DOMAIN s = 1..Len(s)
      /\ Len(s) \in Nat /\ r[Len(s) + 1] = w
      /\ \A i \in 1..Len(s) : r[i] = s[i]
  BY AppendProperties, LenProperties
<1> HIDE DEF r
<1>2. \A i \in 1..(Len(s) + 1) : i \in 1..Len(s) \/ i = Len(s) + 1
  BY <1>1
<1>3. \A i \in 1..Len(s) : i \in 1..(Len(s) + 1)
  BY <1>1
<1>4. Len(s) + 1 \in 1..(Len(s) + 1)
  BY <1>1
<1>5. \A i, j \in 1..Len(s) : s[i] = s[j] => i = j
  BY <1>1 DEF Once
<1>6. \A i \in 1..Len(s) : s[i] # w
  BY <1>1 DEF Within
<1>7. Once(r)
  BY <1>1, <1>2, <1>5, <1>6 DEF Once
<1>8. Within(r) = Within(s) \union {w}
  BY <1>1, <1>2, <1>3, <1>4 DEF Within
<1>9. QED
  BY <1>1, <1>7, <1>8 DEF r

\* Moving a window to the top, listed or not.
LEMMA ToTopOnce ==
    ASSUME NEW s \in Seq(Windows), Once(s), NEW w \in Windows
    PROVE  LET r == ToTop(s, w)
           IN  r \in Seq(Windows) /\ Once(r) /\ Within(r) = Within(s) \union {w}
<1> DEFINE u == Without(s, w)
           r == Append(u, w)
<1>1. u \in Seq(Windows) /\ Once(u) /\ Within(u) = Within(s) \ {w}
  BY WithoutOnce
<1> HIDE DEF u
<1>2. r \in Seq(Windows) /\ Once(r) /\ Within(r) = Within(u) \union {w}
  BY <1>1, AppendOnce
<1> HIDE DEF r
<1>3. Within(r) = Within(s) \union {w}
  BY <1>1, <1>2
<1>4. ToTop(s, w) = r
  BY DEF ToTop, r, u
<1>5. QED
  BY <1>2, <1>3, <1>4

\* A list without duplicates is as long as the set of its members is large.
LEMMA OnceCounts ==
    ASSUME NEW s \in Seq(Windows), Once(s)
    PROVE  Len(s) = Cardinality(Within(s))
<1>1. Len(s) \in Nat /\ DOMAIN s = 1..Len(s) /\ s \in [1..Len(s) -> Windows]
  BY LenProperties
<1>2. s \in Bijection(1..Len(s), Within(s))
  <2>1. s \in [1..Len(s) -> Within(s)]
    BY <1>1 DEF Within
  <2>2. s \in Injection(1..Len(s), Within(s))
    BY <1>1, <2>1 DEF Injection, IsInjective, Once
  <2>3. \A x \in Within(s) : \E i \in 1..Len(s) : s[i] = x
    BY <1>1 DEF Within
  <2>4. s \in Surjection(1..Len(s), Within(s))
    BY <2>1, <2>3 DEF Surjection
  <2>5. QED
    BY <2>2, <2>4 DEF Bijection
<1>3. ExistsBijection(1..Len(s), Within(s))
  BY <1>2 DEF ExistsBijection
<1>4. IsFiniteSet(1..Len(s)) /\ Cardinality(1..Len(s)) = Len(s)
  <2>1. /\ IsFiniteSet(1..Len(s))
        /\ Cardinality(1..Len(s)) = IF 1 > Len(s) THEN 0 ELSE Len(s) - 1 + 1
    <3>1. 1 \in Int /\ Len(s) \in Int
      BY <1>1
    <3>2. QED
      BY <3>1, FS_Interval, Zenon
  <2>2. QED
    BY <1>1, <2>1
<1>5. QED
  BY <1>3, <1>4, FS_Bijection

\* Moving a window to the top of a list of windows gives a list of windows.
LEMMA ToTopIsList ==
    ASSUME NEW s \in Seq(Windows), NEW w \in Windows
    PROVE  ToTop(s, w) \in Seq(Windows)
<1>1. Without(s, w) \in Seq(Windows)
  BY WithoutKeeps
<1>2. QED
  BY <1>1, AppendProperties DEF ToTop

\* Raising listed windows that are drawn, one after the other, draws each window as
\* before, once.
LEMMA RaisedKeeps ==
    ASSUME NEW draw \in Seq(Windows), Once(draw), NEW views \in Seq(Windows), NEW tops,
           \A i \in DOMAIN views : views[i] \in tops => views[i] \in Within(draw)
    PROVE  LET r == Raised(draw, views, tops)
           IN  r \in Seq(Windows) /\ Once(r) /\ Within(r) = Within(draw)
<1> DEFINE m == Len(views)
           F == [p \in Seq(Windows) \X (1..m) |->
                   IF views[p[2]] \in tops THEN ToTop(p[1], views[p[2]]) ELSE p[1]]
           Step(h) == [n \in 0..m |-> IF n = 0 THEN draw
                                      ELSE IF views[n] \in tops
                                           THEN ToTop(h[n - 1], views[n])
                                      ELSE h[n - 1]]
           drawn == CHOOSE h : h = Step(h)
           P == {s \in Seq(Windows) : Once(s) /\ Within(s) = Within(draw)}
<1>1. m \in Nat /\ DOMAIN views = 1..m /\ \A n \in 1..m : views[n] \in Windows
  BY LenProperties, ElementOfSeq
<1>2. F \in [Seq(Windows) \X (1..m) -> Seq(Windows)]
  BY <1>1, ToTopIsList
<1>3. \A s \in Seq(Windows), n \in 1..m :
        F[<<s, n>>] = IF views[n] \in tops THEN ToTop(s, views[n]) ELSE s
  OBVIOUS
<1> HIDE DEF F, m
<1>4. PICK g \in [0..m -> Seq(Windows)] :
             g[0] = draw /\ \A n \in 1..m : g[n] = F[<<g[n - 1], n>>]
  <2>1. draw \in Seq(Windows)
    OBVIOUS
  <2>2. \E g : Values(g, Seq(Windows), draw, m, F)
    BY <1>1, <1>2, <2>1, Computed, Zenon
  <2>3. QED
    BY <2>2, Zenon DEF Values
<1>5. \A n \in 0..m : n = 0 \/ (n \in 1..m /\ n - 1 \in 0..m)
  BY <1>1
<1>6. g = Step(g)
  <2>1. \A n \in 0..m : g[n] = IF n = 0 THEN draw
                               ELSE IF views[n] \in tops THEN ToTop(g[n - 1], views[n])
                               ELSE g[n - 1]
    BY <1>3, <1>4, <1>5
  <2>2. QED
    BY <2>1
<1>7. drawn = Step(drawn)
  BY <1>6, Zenon
<1>8. Raised(draw, views, tops) = drawn[m]
  BY Zenon DEF Raised, m
<1> HIDE DEF drawn
<1>9. \A n \in 1..m : drawn[n] = IF views[n] \in tops THEN ToTop(drawn[n - 1], views[n])
                                 ELSE drawn[n - 1]
  <2>1. \A n \in 1..m : n \in 0..m /\ n # 0
    BY <1>1
  <2>2. QED
    BY <1>7, <2>1
<1>10. drawn[0] = draw
  BY <1>1, <1>7
<1> HIDE DEF P
<1>11. drawn[0] \in P
  BY <1>10 DEF P
<1>12. ASSUME NEW n \in 1..m, drawn[n - 1] \in P PROVE drawn[n] \in P
  <2> DEFINE s == drawn[n - 1]
  <2>1. s \in Seq(Windows) /\ Once(s) /\ Within(s) = Within(draw)
    BY <1>12 DEF P
  <2> HIDE DEF s
  <2>2. CASE views[n] \in tops
    <3>1. drawn[n] = ToTop(s, views[n])
      BY <1>9, <2>2 DEF s
    <3>2. views[n] \in Within(draw) /\ views[n] \in Windows
      BY <1>1, <2>2
    <3>3. /\ ToTop(s, views[n]) \in Seq(Windows) /\ Once(ToTop(s, views[n]))
          /\ Within(ToTop(s, views[n])) = Within(s) \union {views[n]}
      BY <2>1, <3>2, ToTopOnce
    <3>4. Within(s) \union {views[n]} = Within(draw)
      BY <2>1, <3>2
    <3>5. QED
      BY <3>1, <3>3, <3>4 DEF P
  <2>3. CASE views[n] \notin tops
    BY <1>9, <1>12, <2>3
  <2>4. QED
    BY <2>2, <2>3
<1>13. m \in 0..m
  BY <1>1
<1>14. drawn[m] \in P
  <2>1. \A n \in 0..m : drawn[n] \in P
    BY <1>1, <1>11, <1>12, Reached
  <2>2. QED
    BY <1>13, <2>1
<1>15. QED
  BY <1>8, <1>14 DEF P

\* What is copied of a list of windows is a list of windows.
LEMMA ThoseIsList ==
    ASSUME NEW views \in Seq(Windows), NEW S
    PROVE  Those(views, S) \in Seq(Windows)
<1> DEFINE m == Len(views)
           F == [p \in Seq(Windows) \X (1..m) |->
                   IF views[p[2]] \in S THEN Append(p[1], views[p[2]]) ELSE p[1]]
           Step(h) == [n \in 0..m |-> IF n = 0 THEN <<>>
                                      ELSE IF views[n] \in S
                                           THEN Append(h[n - 1], views[n])
                                      ELSE h[n - 1]]
           copied == CHOOSE h : h = Step(h)
<1>1. m \in Nat /\ DOMAIN views = 1..m /\ \A n \in 1..m : views[n] \in Windows
  BY LenProperties, ElementOfSeq
<1>2. F \in [Seq(Windows) \X (1..m) -> Seq(Windows)]
  BY <1>1, AppendProperties
<1>3. \A s \in Seq(Windows), n \in 1..m :
        F[<<s, n>>] = IF views[n] \in S THEN Append(s, views[n]) ELSE s
  OBVIOUS
<1>4. <<>> \in Seq(Windows)
  BY EmptySeq
<1> HIDE DEF F, m
<1>5. PICK g \in [0..m -> Seq(Windows)] :
             g[0] = <<>> /\ \A n \in 1..m : g[n] = F[<<g[n - 1], n>>]
  <2>1. \E g : Values(g, Seq(Windows), <<>>, m, F)
    BY <1>1, <1>2, <1>4, Computed, Zenon
  <2>2. QED
    BY <2>1, Zenon DEF Values
<1>6. \A n \in 0..m : n = 0 \/ (n \in 1..m /\ n - 1 \in 0..m)
  BY <1>1
<1>7. g = Step(g)
  <2>1. \A n \in 0..m : g[n] = IF n = 0 THEN <<>>
                               ELSE IF views[n] \in S THEN Append(g[n - 1], views[n])
                               ELSE g[n - 1]
    BY <1>3, <1>5, <1>6
  <2>2. QED
    BY <2>1
<1>8. copied = Step(copied)
  BY <1>7, Zenon
<1>9. Those(views, S) = copied[m]
  BY Zenon DEF Those, m
<1> HIDE DEF copied
<1>10. copied[0] = <<>>
  BY <1>1, <1>8
<1>11. ASSUME NEW n \in 1..m, copied[n - 1] \in Seq(Windows) PROVE copied[n] \in Seq(Windows)
  <2>1. n \in 0..m /\ n # 0
    BY <1>1
  <2>2. copied[n] = IF views[n] \in S THEN Append(copied[n - 1], views[n]) ELSE copied[n - 1]
    BY <1>8, <2>1
  <2>3. Append(copied[n - 1], views[n]) \in Seq(Windows)
    BY <1>1, <1>11, AppendProperties
  <2>4. QED
    BY <1>11, <2>2, <2>3
<1>12. \A n \in 0..m : copied[n] \in Seq(Windows)
  BY <1>1, <1>4, <1>10, <1>11, Reached
<1>13. m \in 0..m
  BY <1>1
<1>14. QED
  BY <1>9, <1>12, <1>13

\* What ListsAreComplete says of the lists of one desk; a window's surface is only
\* initialized while the window lives.
Lists(d) ==
    /\ d.draw \in Seq(Windows)
    /\ Once(d.views) /\ Once(d.draw)
    /\ Listed(d) \subseteq d.live /\ d.ready \subseteq d.live
    /\ Within(d.draw) = d.live

SameLists(e, d) ==
    e.views = d.views /\ e.draw = d.draw /\ e.live = d.live /\ e.ready = d.ready

\* A window that was never created is in no list, and the strip of the switcher has
\* a chosen entry whenever it shows.
ListInv ==
    /\ Lists(desk) /\ desk.live \subseteq born
    /\ entries \in Seq(Windows)
    /\ entries # <<>> => chosen \in DOMAIN entries

\* A desk with the same lists.
LEMMA ListsAlike ==
    ASSUME NEW d, NEW e, Lists(d), SameLists(e, d)
    PROVE  Lists(e) /\ e.live = d.live
BY DEF Lists, SameLists, Listed, Within

\* The methods that only move the focus or the activation leave the lists alone.
LEMMA FocusKeepsLists ==
    ASSUME NEW d, Typed(d), NEW w, NEW S
    PROVE  /\ SameLists(Activated(d, S), d) /\ SameLists(FocusView(d, w), d)
           /\ SameLists(FocusPanel(d), d) /\ SameLists(UnfocusView(d, w), d)
           /\ SameLists(UnfocusAll(d), d) /\ SameLists(FocusWorkspaceTop(d), d)
<1>1. ASSUME NEW f, NEW R, f.views = d.views /\ f.draw = d.draw /\ f.live = d.live
                           /\ f.ready = d.ready, DOMAIN f = DOMAIN d
      PROVE  SameLists(Activated(f, R), d)
  BY <1>1 DEF Activated, SameLists, Typed
<1>2. ASSUME NEW v PROVE SameLists(FocusView(d, v), d)
  <2> DEFINE f == [d EXCEPT !.focused = v, !.keys = v]
  <2>1. /\ f.views = d.views /\ f.draw = d.draw /\ f.live = d.live /\ f.ready = d.ready
        /\ DOMAIN f = DOMAIN d
    BY DEF Typed
  <2>2. FocusView(d, v) = IF d.focused = v THEN d ELSE Activated(f, {v})
    BY DEF FocusView
  <2> HIDE DEF f
  <2>3. QED
    BY <1>1, <2>1, <2>2 DEF SameLists
<1>3. SameLists(FocusPanel(d), d)
  <2> DEFINE f == [d EXCEPT !.focused = None, !.keys = Panel]
  <2>1. /\ f.views = d.views /\ f.draw = d.draw /\ f.live = d.live /\ f.ready = d.ready
        /\ DOMAIN f = DOMAIN d
    BY DEF Typed
  <2>2. FocusPanel(d) = Activated(f, {})
    BY DEF FocusPanel
  <2> HIDE DEF f
  <2>3. QED
    BY <1>1, <2>1, <2>2
<1>4. SameLists(UnfocusAll(d), d)
  <2> DEFINE f == [d EXCEPT !.focused = None, !.keys = None, !.drag = None]
  <2>1. /\ f.views = d.views /\ f.draw = d.draw /\ f.live = d.live /\ f.ready = d.ready
        /\ DOMAIN f = DOMAIN d
    BY DEF Typed
  <2>2. UnfocusAll(d) = Activated(f, {})
    BY DEF UnfocusAll
  <2> HIDE DEF f
  <2>3. QED
    BY <1>1, <2>1, <2>2
<1>5. SameLists(UnfocusView(d, w), d)
  BY DEF UnfocusView, SameLists, Typed
<1>6. SameLists(FocusWorkspaceTop(d), d)
  BY <1>2, <1>4 DEF FocusWorkspaceTop, SameLists
<1>7. SameLists(Activated(d, S), d)
  BY <1>1
<1>8. QED
  BY <1>2, <1>3, <1>4, <1>5, <1>6, <1>7

\* Minimizing and switching the workspace leave the lists alone, too.
LEMMA OthersKeepLists ==
    ASSUME NEW d, Typed(d), NEW w, NEW b \in BOOLEAN, NEW ws \in Workspaces
    PROVE  SameLists(SetMinimized(d, w, b), d) /\ SameLists(SwitchWorkspace(d, ws), d)
<1>1. SameLists(SetMinimized(d, w, b), d)
  BY DEF SetMinimized, SameLists, Typed
<1>2. SameLists(SwitchWorkspace(d, ws), d)
  <2> DEFINE f == [d EXCEPT !.current = ws]
  <2>1. Typed(f) /\ SameLists(f, d)
    BY DEF Typed, SameLists
  <2>2. SwitchWorkspace(d, ws) = IF ws = d.current THEN d ELSE FocusWorkspaceTop(f)
    BY DEF SwitchWorkspace
  <2> HIDE DEF f
  <2>3. SameLists(FocusWorkspaceTop(f), f)
    BY <2>1, FocusKeepsLists
  <2>4. QED
    BY <2>1, <2>2, <2>3 DEF SameLists
<1>3. QED
  BY <1>1, <1>2

\* Raising a mapped window, and the ones that stay above it.
LEMMA RaiseKeepsLists ==
    ASSUME NEW d, Typed(d), Complete(d), Lists(d), NEW w \in d.mapped
    PROVE  Lists(RaiseView(d, w)) /\ RaiseView(d, w).live = d.live
<1> DEFINE views == ToTop(d.views, w)
           top == ToTop(d.draw, w)
           tops == (d.onTop \intersect d.mapped) \ {w}
           draw == Raised(top, views, tops)
<1>1. /\ w \in Windows /\ w \in Listed(d) /\ d.views \in Seq(Windows)
      /\ Listed(d) = Within(d.views)
  BY DEF Typed, Complete, Listed, Within
<1>2. /\ views \in Seq(Windows) /\ Once(views) /\ Within(views) = Within(d.views) \union {w}
  BY <1>1, ToTopOnce DEF Lists
<1>3. /\ top \in Seq(Windows) /\ Once(top) /\ Within(top) = Within(d.draw) \union {w}
  BY <1>1, ToTopOnce DEF Lists
<1>4. Within(views) = Listed(d) /\ Within(top) = d.live
  BY <1>1, <1>2, <1>3 DEF Lists
<1> HIDE DEF views, top, tops
<1>5. \A i \in DOMAIN views : views[i] \in tops => views[i] \in Within(top)
  <2>1. \A i \in DOMAIN views : views[i] \in Within(views)
    BY DEF Within
  <2>2. QED
    BY <1>4, <2>1 DEF Lists
<1>6. draw \in Seq(Windows) /\ Once(draw) /\ Within(draw) = d.live
  BY <1>2, <1>3, <1>4, <1>5, RaisedKeeps
<1>7. RaiseView(d, w) = [d EXCEPT !.views = views, !.draw = draw]
  BY <1>1 DEF RaiseView, views, top, tops
<1> HIDE DEF draw
<1>8. /\ RaiseView(d, w).views = views /\ RaiseView(d, w).draw = draw
      /\ RaiseView(d, w).live = d.live /\ RaiseView(d, w).ready = d.ready
  BY <1>7 DEF Typed
<1>9. Listed(RaiseView(d, w)) = Listed(d)
  BY <1>4, <1>8 DEF Listed, Within
<1>10. QED
  BY <1>2, <1>6, <1>8, <1>9 DEF Lists

\* Focusing and raising a mapped window.
LEMMA FrontKeepsLists ==
    ASSUME NEW d, Typed(d), Complete(d), Lists(d), NEW w \in d.mapped
    PROVE  LET e == RaiseView(FocusView(d, w), w) IN Lists(e) /\ e.live = d.live
<1> DEFINE f == FocusView(d, w)
<1>1. w \in Windows
  BY DEF Typed
<1>2. Typed(f) /\ SameWindows(f, d)
  BY <1>1, FocusViewEffect
<1>3. SameLists(f, d)
  BY FocusKeepsLists
<1> HIDE DEF f
<1>4. Lists(f) /\ f.live = d.live
  BY <1>3, ListsAlike
<1>5. Complete(f) /\ w \in f.mapped
  BY <1>2 DEF Complete, SameWindows
<1>6. QED
  BY <1>2, <1>4, <1>5, RaiseKeepsLists DEF f

\* Bringing a mapped window to the user.
LEMMA PresentKeepsLists ==
    ASSUME NEW d, Good(d), Lists(d), NEW w \in d.mapped
    PROVE  Lists(Present(d, w)) /\ Present(d, w).live = d.live
<1> DEFINE m == SetMinimized(d, w, FALSE)
<1>1. w \in Windows /\ Typed(d)
  BY DEF Good, Typed
<1>2. SameLists(m, d)
  BY <1>1, OthersKeepLists DEF Typed
<1>3. Good(m)
  BY <1>1, SetMinimizedGood
<1>4. m.mapped = d.mapped
  BY <1>1 DEF SetMinimized, Typed
<1>5. Present(d, w) = RaiseView(FocusView(m, w), w)
  BY DEF Present
<1> HIDE DEF m
<1>6. Lists(m) /\ m.live = d.live
  BY <1>2, ListsAlike
<1>7. Typed(m) /\ Complete(m)
  BY <1>3 DEF Good
<1>8. QED
  BY <1>4, <1>5, <1>6, <1>7, FrontKeepsLists

\* Listing a window that lives.
LEMMA AddViewLists ==
    ASSUME NEW d, Typed(d), Lists(d), NEW w \in Windows, w \in d.live
    PROVE  Lists(AddView(d, w)) /\ AddView(d, w).live = d.live
<1>1. CASE w \in Listed(d)
  BY <1>1 DEF AddView
<1>2. CASE w \notin Listed(d)
  <2> DEFINE s == Append(d.views, w)
             e == [d EXCEPT !.views = s]
  <2>1. d.views \in Seq(Windows) /\ Within(d.views) = Listed(d) /\ Once(d.views)
    BY DEF Typed, Within, Listed, Lists
  <2>2. s \in Seq(Windows) /\ Once(s) /\ Within(s) = Within(d.views) \union {w}
    <3>1. w \notin Within(d.views)
      BY <1>2, <2>1
    <3>2. QED
      BY <2>1, <3>1, AppendOnce DEF Within
  <2>3. AddView(d, w) = e
    BY <1>2 DEF AddView
  <2> HIDE DEF s
  <2>4. e.views = s /\ e.draw = d.draw /\ e.live = d.live /\ e.ready = d.ready
    BY DEF Typed
  <2> HIDE DEF e
  <2>5. Listed(e) = Within(s)
    BY <2>4 DEF Listed, Within
  <2>6. QED
    BY <2>1, <2>2, <2>3, <2>4, <2>5 DEF Lists
<1>3. QED
  BY <1>1, <1>2

\* A window rule may raise the window in the scene.
LEMMA RulesKeepLists ==
    ASSUME NEW d, Typed(d), Lists(d), NEW w \in Windows, w \in d.live, NEW ws,
           NEW onTop \in BOOLEAN
    PROVE  Lists(ApplyRules(d, w, ws, onTop)) /\ ApplyRules(d, w, ws, onTop).live = d.live
<1> DEFINE p == [d EXCEPT !.ws[w] = IF ws = Stay THEN @ ELSE ws]
           s == ToTop(p.draw, w)
           top == p.onTop \union {w}
           e == [p EXCEPT !.onTop = top, !.draw = s]
<1>1. SameLists(p, d) /\ DOMAIN p = DOMAIN d
  BY DEF Typed, SameLists
<1>2. ApplyRules(d, w, ws, onTop) = IF onTop THEN e ELSE p
  BY DEF ApplyRules
<1> HIDE DEF p
<1>3. Lists(p) /\ p.live = d.live
  BY <1>1, ListsAlike
<1>4. s \in Seq(Windows) /\ Once(s) /\ Within(s) = Within(p.draw) \union {w}
  BY <1>3, ToTopOnce DEF Lists
<1> HIDE DEF s, top
<1>5. e.views = p.views /\ e.draw = s /\ e.live = p.live /\ e.ready = p.ready
  BY <1>1 DEF Typed
<1> HIDE DEF e
<1>6. Within(s) = p.live
  BY <1>3, <1>4 DEF Lists
<1>7. Listed(e) = Listed(p)
  BY <1>5 DEF Listed
<1>8. Lists(e) /\ e.live = d.live
  BY <1>3, <1>4, <1>5, <1>6, <1>7 DEF Lists
<1>9. QED
  BY <1>2, <1>3, <1>8

\* A window that is removed is not listed any more.
LEMMA RemoveViewLists ==
    ASSUME NEW d, Typed(d), Lists(d), NEW w \in Windows
    PROVE  LET e == RemoveView(d, w)
           IN Lists(e) /\ e.live = d.live /\ e.ready = d.ready /\ e.draw = d.draw
              /\ Listed(e) = Listed(d) \ {w}
<1> DEFINE s == Without(d.views, w)
           o == [d EXCEPT !.views = s]
           drag == IF o.drag = w THEN None ELSE o.drag
           chooser == IF o.chooser = w THEN None ELSE o.chooser
           f == [o EXCEPT !.drag = drag, !.chooser = chooser]
           e == UnfocusView(f, w)
<1>1. d.views \in Seq(Windows) /\ Within(d.views) = Listed(d) /\ Once(d.views)
  BY DEF Typed, Within, Listed, Lists
<1>2. s \in Seq(Windows) /\ Once(s) /\ Within(s) = Within(d.views) \ {w}
  BY <1>1, WithoutOnce
<1>3. RemoveView(d, w) = e
  BY DEF RemoveView, ForgetView
<1> HIDE DEF s
<1>4. o.views = s /\ o.draw = d.draw /\ o.live = d.live /\ o.ready = d.ready
      /\ DOMAIN o = DOMAIN d
  BY DEF Typed
<1> HIDE DEF o, drag, chooser
<1>5. f.views = s /\ f.draw = d.draw /\ f.live = d.live /\ f.ready = d.ready
      /\ DOMAIN f = DOMAIN d
  BY <1>4 DEF Typed
<1> HIDE DEF f
<1>6. e.views = s /\ e.draw = d.draw /\ e.live = d.live /\ e.ready = d.ready
  BY <1>5 DEF UnfocusView, Typed
<1> HIDE DEF e
<1>7. Listed(e) = Listed(d) \ {w}
  BY <1>1, <1>2, <1>6 DEF Listed, Within
<1>8. QED
  BY <1>2, <1>3, <1>6, <1>7 DEF Lists

\* A window that is unmapped is not listed any more.
LEMMA UnmappedLists ==
    ASSUME NEW d, Good(d), Lists(d), NEW w \in Windows
    PROVE  LET e == Unmapped(d, w)
           IN Lists(e) /\ e.live = d.live /\ e.draw = d.draw /\ Listed(e) = Listed(d) \ {w}
<1> DEFINE u == [d EXCEPT !.mapped = @ \ {w}, !.ready = @ \ {w}]
           r == RemoveView(u, w)
<1>1. /\ Typed(u) /\ u.views = d.views /\ u.draw = d.draw /\ u.live = d.live
      /\ u.ready = d.ready \ {w}
  BY DEF Good, Typed
<1>2. Unmapped(d, w) = UnfocusView(r, w)
  BY DEF Unmapped
<1> HIDE DEF u
<1>3. Lists(u) /\ Listed(u) = Listed(d)
  BY <1>1 DEF Lists, Listed
<1>4. /\ Lists(r) /\ r.live = u.live /\ r.draw = u.draw /\ Listed(r) = Listed(u) \ {w}
  BY <1>1, <1>3, RemoveViewLists
<1>5. Typed(r)
  BY <1>1, RemoveViewEffect
<1> HIDE DEF r
<1>6. SameLists(UnfocusView(r, w), r)
  BY <1>5, FocusKeepsLists
<1>7. QED
  BY <1>1, <1>2, <1>3, <1>4, <1>6, ListsAlike DEF SameLists, Listed

\* A step that leaves the lists and the switcher alone.
SameStrip == UNCHANGED <<born, entries, chosen>>

\* A created window is new to both lists.
LEMMA NewToplevelLists ==
    ASSUME Inv, ListInv, NEW w \in Windows, NewToplevel(w)
    PROVE  ListInv'
<1> DEFINE s == Append(desk.draw, w)
           d == [desk EXCEPT !.live = @ \union {w}, !.draw = s, !.ws[w] = desk.current]
<1>1. /\ w \notin born /\ born' = born \union {w} /\ desk' = AddView(d, w)
      /\ entries' = entries /\ chosen' = chosen
  BY DEF NewToplevel
<1>2. /\ desk.draw \in Seq(Windows) /\ Once(desk.draw) /\ Within(desk.draw) = desk.live
      /\ w \notin desk.live
  BY <1>1 DEF ListInv, Lists
<1>3. s \in Seq(Windows) /\ Once(s) /\ Within(s) = Within(desk.draw) \union {w}
  <2>1. w \notin Within(desk.draw)
    BY <1>2
  <2>2. QED
    BY <1>2, <2>1, AppendOnce DEF Within
<1> HIDE DEF s
<1>4. /\ Typed(d) /\ d.views = desk.views /\ d.draw = s /\ d.live = desk.live \union {w}
      /\ d.ready = desk.ready
  BY DEF Inv, Good, Typed
<1> HIDE DEF d
<1>5. Lists(d) /\ w \in d.live
  <2>1. Listed(d) = Listed(desk)
    BY <1>4 DEF Listed
  <2>2. QED
    BY <1>2, <1>3, <1>4, <2>1 DEF ListInv, Lists
<1>6. Lists(desk') /\ desk'.live = d.live
  BY <1>1, <1>4, <1>5, AddViewLists
<1>7. QED
  BY <1>1, <1>4, <1>6 DEF ListInv

\* A window that is mapped is listed, once, whatever a rule does with it.
LEMMA MapLists ==
    ASSUME Inv, ListInv, NEW w \in Windows, NEW ws \in RuleWorkspaces \union {Stay},
           NEW onTop \in RuleOnTop, Map(w, ws, onTop)
    PROVE  ListInv'
<1> DEFINE x == [desk EXCEPT !.mapped = @ \union {w}]
           m == SetMinimized(x, w, FALSE)
           l == AddView(m, w)
           r == ApplyRules(l, w, ws, onTop)
           a == [r EXCEPT !.active = @ \union {w}]
<1>1. ws \in Workspaces \union {Stay} /\ onTop \in BOOLEAN
  BY DesktopAssumption DEF DesktopAssumption
<1>2. Typed(x) /\ SameLists(x, desk) /\ Listed(x) = Listed(desk)
      /\ x.mapped = desk.mapped \union {w}
  BY DEF Inv, Good, Typed, SameLists, Listed
<1>3. /\ desk' = IF w \in Visible(r) THEN RaiseView(FocusView(a, w), w) ELSE r
      /\ born' = born /\ entries' = entries /\ chosen' = chosen /\ w \in desk.ready
  BY DEF Map, Becomes
<1> HIDE DEF x
<1>4. Lists(x) /\ x.live = desk.live
  BY <1>2, ListsAlike DEF ListInv
<1>5. SameLists(m, x) /\ Typed(m) /\ Listed(m) = Listed(x) /\ m.mapped = x.mapped
  <2>1. SameLists(m, x)
    BY <1>2, OthersKeepLists DEF Typed
  <2>2. /\ Typed(m) /\ Listed(m) = Listed(x) /\ m.mapped = x.mapped
    BY <1>2, SetMinimizedEffect
  <2>3. QED
    BY <2>1, <2>2
<1> HIDE DEF m
<1>6. Lists(m) /\ m.live = desk.live
  BY <1>4, <1>5, ListsAlike
<1>7. w \in m.live
  BY <1>3, <1>6 DEF ListInv, Lists
<1>8. Lists(l) /\ l.live = m.live
  BY <1>5, <1>6, <1>7, AddViewLists
<1>9. Typed(l) /\ Listed(l) = Listed(m) \union {w} /\ l.mapped = m.mapped
  BY <1>5, AddViewEffect
<1> HIDE DEF l
<1>10. Lists(r) /\ r.live = l.live
  BY <1>1, <1>6, <1>7, <1>8, <1>9, RulesKeepLists
<1>11. Typed(r) /\ Listed(r) = Listed(l) /\ r.mapped = l.mapped
  <2>1. CASE onTop = TRUE
    BY <1>1, <1>9, <2>1, ApplyRulesEffect
  <2>2. CASE onTop = FALSE
    BY <1>1, <1>9, <2>2, ApplyRulesEffect
  <2>3. QED
    BY <1>1, <2>1, <2>2
<1> HIDE DEF r
<1>12. Complete(desk)
  BY DEF Inv, Good
<1>13. Typed(a) /\ SameLists(a, r) /\ a.mapped = r.mapped /\ Listed(a) = Listed(r)
  BY <1>11 DEF Typed, SameLists, Listed
<1> HIDE DEF a
<1>14. Lists(a) /\ a.live = r.live
  BY <1>10, <1>13, ListsAlike
<1>15. Complete(a) /\ w \in a.mapped
  BY <1>2, <1>5, <1>9, <1>11, <1>12, <1>13 DEF Complete
<1>16. Lists(RaiseView(FocusView(a, w), w)) /\ RaiseView(FocusView(a, w), w).live = a.live
  BY <1>13, <1>14, <1>15, FrontKeepsLists
<1>17. Lists(desk') /\ desk'.live = desk.live
  BY <1>3, <1>6, <1>8, <1>10, <1>14, <1>16
<1>18. QED
  BY <1>3, <1>17 DEF ListInv

\* A window that goes away leaves both lists.
LEMMA DestroyLists ==
    ASSUME Inv, ListInv, NEW w \in Windows, Destroy(w)
    PROVE  ListInv'
<1> DEFINE d == IF w \in desk.mapped THEN Unmapped(desk, w) ELSE RemoveView(desk, w)
           s == Without(d.draw, w)
<1>1. Typed(desk) /\ Good(desk) /\ Lists(desk)
  BY DEF Inv, Good, ListInv
<1>2. /\ Lists(d) /\ d.live = desk.live /\ d.draw = desk.draw
      /\ Listed(d) = Listed(desk) \ {w}
  <2>1. CASE w \in desk.mapped
    BY <1>1, <2>1, UnmappedLists
  <2>2. CASE w \notin desk.mapped
    BY <1>1, <2>2, RemoveViewLists
  <2>3. QED
    BY <2>1, <2>2
<1>3. Typed(d)
  <2>1. CASE w \in desk.mapped
    <3>1. Good(Unmapped(desk, w))
      BY <1>1, UnmappedGood
    <3>2. QED
      BY <2>1, <3>1 DEF Good
  <2>2. CASE w \notin desk.mapped
    BY <1>1, <2>2, RemoveViewEffect
  <2>3. QED
    BY <2>1, <2>2
<1>4. desk' = [d EXCEPT !.live = @ \ {w}, !.ready = @ \ {w},
                        !.minimized = @ \ {w}, !.onTop = @ \ {w},
                        !.active = @ \ {w}, !.ws[w] = 0, !.draw = s]
      /\ born' = born /\ entries' = entries /\ chosen' = chosen
  BY DEF Destroy, Becomes
<1> HIDE DEF d
<1>5. s \in Seq(Windows) /\ Once(s) /\ Within(s) = Within(d.draw) \ {w}
  BY <1>2, WithoutOnce DEF Lists
<1> HIDE DEF s
<1>6. /\ desk'.views = d.views /\ desk'.draw = s /\ desk'.live = d.live \ {w}
      /\ desk'.ready = d.ready \ {w}
  BY <1>3, <1>4 DEF Typed
<1>7. Listed(desk') = Listed(d)
  BY <1>6 DEF Listed
<1>8. Lists(desk')
  BY <1>2, <1>5, <1>6, <1>7 DEF Lists
<1>9. QED
  BY <1>2, <1>4, <1>6, <1>8 DEF ListInv

\* A step that only changes other state of the desk.
LEMMA QuietLists ==
    ASSUME ListInv, SameLists(desk', desk), SameStrip
    PROVE  ListInv'
<1>1. Lists(desk') /\ desk'.live = desk.live
  BY ListsAlike DEF ListInv
<1>2. QED
  BY <1>1 DEF ListInv, SameStrip

\* What a client does keeps the lists.
LEMMA ClientStepLists ==
    ASSUME Inv, ListInv, ClientStep
    PROVE  ListInv'
<1>0. Typed(desk) /\ Good(desk) /\ Lists(desk)
  BY DEF Inv, Good, ListInv
<1>1. ASSUME NEW w \in Windows, InitialCommit(w) PROVE ListInv'
  <2>1. /\ desk' = [desk EXCEPT !.ready = @ \union {w}] /\ w \in desk.live
        /\ born' = born /\ entries' = entries /\ chosen' = chosen
    BY <1>1 DEF InitialCommit, Becomes
  <2>2. /\ desk'.views = desk.views /\ desk'.draw = desk.draw /\ desk'.live = desk.live
        /\ desk'.ready = desk.ready \union {w}
    BY <1>0, <2>1 DEF Typed
  <2>3. Listed(desk') = Listed(desk)
    BY <2>2 DEF Listed
  <2>4. Lists(desk')
    BY <1>0, <2>1, <2>2, <2>3 DEF Lists
  <2>5. QED
    BY <2>1, <2>2, <2>4 DEF ListInv
<1>2. ASSUME NEW w \in Windows, Unmap(w) PROVE ListInv'
  <2>1. /\ desk' = Unmapped(desk, w) /\ born' = born /\ entries' = entries /\ chosen' = chosen
    BY <1>2 DEF Unmap, Becomes
  <2>2. Lists(desk') /\ desk'.live = desk.live
    BY <1>0, <2>1, UnmappedLists
  <2>3. QED
    BY <2>1, <2>2 DEF ListInv
<1>3. ASSUME NEW w \in Windows, BeginDrag(w) PROVE ListInv'
  <2>1. SameLists(desk', desk) /\ SameStrip
    BY <1>0, <1>3 DEF BeginDrag, Becomes, SameLists, SameStrip, Typed
  <2>2. QED
    BY <2>1, QuietLists
<1>4. ASSUME NEW w \in Windows, NEW b \in BOOLEAN, RequestMinimize(w, b) PROVE ListInv'
  <2>1. desk' = SetMinimized(desk, w, b) /\ SameStrip
    BY <1>4 DEF RequestMinimize, Becomes, SameStrip
  <2>2. SameLists(desk', desk)
    BY <1>0, <2>1, OthersKeepLists DEF Typed
  <2>3. QED
    BY <2>1, <2>2, QuietLists
<1>5. ASSUME NEW grab \in BOOLEAN, PanelMap(grab) PROVE ListInv'
  <2>1. SameStrip /\ (desk' = FocusPanel(desk) \/ desk' = desk)
    BY <1>5 DEF PanelMap, SameStrip
  <2>2. SameLists(desk', desk)
    BY <1>0, <2>1, FocusKeepsLists DEF SameLists
  <2>3. QED
    BY <2>1, <2>2, QuietLists
<1>6. ASSUME PanelUnmap PROVE ListInv'
  <2>1. SameStrip /\ (desk' = FocusWorkspaceTop(desk) \/ desk' = desk)
    BY <1>6 DEF PanelUnmap, SameStrip
  <2>2. SameLists(desk', desk)
    BY <1>0, <2>1, FocusKeepsLists DEF SameLists
  <2>3. QED
    BY <2>1, <2>2, QuietLists
<1>7. QED
  BY <1>1, <1>2, <1>3, <1>4, <1>5, <1>6, NewToplevelLists, MapLists, DestroyLists
     DEF ClientStep

\* The strip of the switcher: what it shows is chosen from, around and around.
LEMMA StripLists ==
    ASSUME Inv, ListInv, AltTabShow \/ AltTabNext \/ AltTabPrev
    PROVE  ListInv'
<1>1. Typed(desk) /\ desk.views \in Seq(Windows)
  BY DEF Inv, Good, Typed
<1>2. CASE AltTabShow
  <2> DEFINE shown == Those(desk.views, Visible(desk))
             at == {i \in DOMAIN shown : shown[i] = desk.focused}
  <2>1. shown \in Seq(Windows)
    BY <1>1, ThoseIsList
  <2>2. /\ shown # <<>> /\ entries' = shown /\ desk' = desk /\ born' = born
        /\ chosen' = IF at = {} THEN 1 ELSE CHOOSE i \in at : TRUE
    BY <1>2 DEF AltTabShow
  <2> HIDE DEF shown
  <2>3. 1 \in DOMAIN shown
    <3>1. Len(shown) \in Nat /\ Len(shown) # 0 /\ DOMAIN shown = 1..Len(shown)
      BY <2>1, <2>2, LenProperties, EmptySeq
    <3>2. QED
      BY <3>1
  <2>4. chosen' \in DOMAIN shown
    BY <2>2, <2>3
  <2>5. QED
    BY <2>1, <2>2, <2>4 DEF ListInv
<1>3. CASE AltTabNext \/ AltTabPrev
  <2> DEFINE n == Len(entries)
  <2>1. /\ entries # <<>> /\ desk' = desk /\ born' = born /\ entries' = entries
        /\ \/ chosen' = (chosen % n) + 1
           \/ chosen' = ((chosen + n - 2) % n) + 1
    BY <1>3 DEF AltTabNext, AltTabPrev
  <2>2. entries \in Seq(Windows) /\ n \in Nat /\ n # 0 /\ DOMAIN entries = 1..n
        /\ chosen \in 1..n
    BY <2>1, LenProperties, EmptySeq DEF ListInv
  <2> HIDE DEF n
  <2>3. chosen % n \in 0..(n - 1) /\ (chosen + n - 2) % n \in 0..(n - 1)
    BY <2>2
  <2>4. chosen' \in 1..n
    BY <2>1, <2>2, <2>3
  <2>5. QED
    BY <2>1, <2>2, <2>4 DEF ListInv
<1>4. QED
  BY <1>2, <1>3

\* The switcher, and the taskbar, bring a window to the user.
LEMMA BroughtLists ==
    ASSUME Inv, ListInv, AltTabApply \/ \E w \in Windows : FtlActivate(w)
    PROVE  ListInv'
<1>0. Typed(desk) /\ Good(desk) /\ Lists(desk)
  BY DEF Inv, Good, ListInv
<1>1. CASE AltTabApply
  <2> DEFINE w == entries[chosen]
             x == [desk EXCEPT !.aborted = TRUE]
  <2>1. entries' = <<>> /\ chosen' = 0 /\ born' = born
    BY <1>1 DEF AltTabApply
  <2>2. \/ desk' = x
        \/ w \in desk.mapped /\ desk' = Present(desk, w)
        \/ desk' = desk
    <3>1. (w \notin desk.live) \/ w \in desk.mapped \/ (w \in desk.live \ desk.mapped)
      OBVIOUS
    <3>2. desk' = CASE w \notin desk.live   -> x
                    [] w \in desk.mapped    -> Present(desk, w)
                    [] w \in desk.live \ desk.mapped -> desk
      BY <1>1 DEF AltTabApply
    <3> HIDE DEF x, w
    <3>3. QED
      BY <3>1, <3>2
  <2>3. SameLists(x, desk)
    BY <1>0 DEF SameLists, Typed
  <2> HIDE DEF x, w
  <2>4. Lists(desk') /\ desk'.live = desk.live
    <3>1. CASE desk' = x
      BY <1>0, <2>3, <3>1, ListsAlike
    <3>2. CASE w \in desk.mapped /\ desk' = Present(desk, w)
      BY <1>0, <3>2, PresentKeepsLists
    <3>3. CASE desk' = desk
      BY <1>0, <3>3
    <3>4. QED
      BY <2>2, <3>1, <3>2, <3>3
  <2>5. <<>> \in Seq(Windows)
    BY EmptySeq
  <2>6. QED
    BY <2>1, <2>4, <2>5 DEF ListInv
<1>2. CASE \E w \in Windows : FtlActivate(w)
  <2>1. PICK w \in Windows : FtlActivate(w)
    BY <1>2
  <2> DEFINE s == SwitchWorkspace(desk, desk.ws[w])
  <2>2. /\ desk' = Present(s, w) /\ w \in desk.mapped /\ desk.ws[w] \in Workspaces
        /\ born' = born /\ entries' = entries /\ chosen' = chosen
    BY <1>0, <2>1 DEF FtlActivate, Becomes, Typed
  <2>3. Good(s) /\ s.mapped = desk.mapped
    BY <1>0, <2>2, SwitchWorkspaceGood
  <2>4. SameLists(s, desk)
    BY <1>0, <2>2, OthersKeepLists
  <2> HIDE DEF s
  <2>5. Lists(s) /\ s.live = desk.live
    BY <1>0, <2>4, ListsAlike
  <2>6. Lists(desk') /\ desk'.live = desk.live
    BY <2>2, <2>3, <2>5, PresentKeepsLists
  <2>7. QED
    BY <2>2, <2>6 DEF ListInv
<1>3. QED
  BY <1>1, <1>2

\* A press brings the window to the front.
LEMMA ClickLists ==
    ASSUME Inv, ListInv, NEW w \in Windows,
           ClickContent(w) \/ ClickTitleBar(w) \/ ClickMinButton(w)
    PROVE  ListInv'
<1> DEFINE f == Front(w)
           b == w \notin desk.minimized
<1>0. Typed(desk) /\ Good(desk) /\ Lists(desk) /\ Complete(desk)
  BY DEF Inv, Good, ListInv
<1>1. /\ w \in desk.mapped /\ born' = born /\ entries' = entries /\ chosen' = chosen
      /\ \/ desk' = f
         \/ desk' = [f EXCEPT !.drag = w]
         \/ desk' = SetMinimized(f, w, b)
  BY DEF ClickContent, ClickTitleBar, ClickMinButton, Hit, Becomes
<1>2. Lists(f) /\ f.live = desk.live
  BY <1>0, <1>1, FrontKeepsLists DEF Front
<1>3. Typed(f)
  BY <1>0, <1>1, FrontGood DEF Front, Good
<1>4. b \in BOOLEAN
  OBVIOUS
<1> HIDE DEF f, b
<1>5. SameLists(desk', f)
  <2>1. SameLists(f, f) /\ SameLists([f EXCEPT !.drag = w], f)
    BY <1>3 DEF SameLists, Typed
  <2>2. SameLists(SetMinimized(f, w, b), f)
    BY <1>3, <1>4, OthersKeepLists DEF Typed
  <2>3. QED
    BY <1>1, <2>1, <2>2
<1>6. Lists(desk') /\ desk'.live = desk.live
  BY <1>2, <1>5, ListsAlike
<1>7. QED
  BY <1>1, <1>6 DEF ListInv

\* What the user does keeps the lists.
LEMMA UserStepLists ==
    ASSUME Inv, ListInv, UserStep
    PROVE  ListInv'
<1>0. Typed(desk)
  BY DEF Inv, Good
<1>1. ASSUME KeyMinimize PROVE ListInv'
  <2> DEFINE b == desk.focused \notin desk.minimized
  <2>1. desk' = SetMinimized(desk, desk.focused, b) /\ SameStrip /\ b \in BOOLEAN
    BY <1>1 DEF KeyMinimize, Becomes, SameStrip
  <2> HIDE DEF b
  <2>2. SameLists(desk', desk)
    BY <1>0, <2>1, OthersKeepLists DEF Typed
  <2>3. QED
    BY <2>1, <2>2, QuietLists
<1>2. ASSUME KeySnapLayout \/ ChooserClose \/ EndDrag PROVE ListInv'
  <2>1. SameLists(desk', desk) /\ SameStrip
    BY <1>0, <1>2 DEF KeySnapLayout, ChooserClose, EndDrag, Becomes, SameLists,
                      SameStrip, Typed
  <2>2. QED
    BY <2>1, QuietLists
<1>3. ASSUME NEW ws \in Workspaces, KeyWorkspace(ws) PROVE ListInv'
  <2>1. desk' = SwitchWorkspace(desk, ws) /\ SameStrip
    BY <1>3 DEF KeyWorkspace, Becomes, SameStrip
  <2>2. SameLists(desk', desk)
    BY <1>0, <2>1, OthersKeepLists
  <2>3. QED
    BY <2>1, <2>2, QuietLists
<1>4. ASSUME ClickPanel PROVE ListInv'
  <2>1. desk' = FocusPanel(desk) /\ SameStrip
    BY <1>4 DEF ClickPanel, Becomes, SameStrip
  <2>2. SameLists(desk', desk)
    BY <1>0, <2>1, FocusKeepsLists
  <2>3. QED
    BY <2>1, <2>2, QuietLists
<1>5. QED
  BY <1>1, <1>2, <1>3, <1>4, StripLists, BroughtLists, ClickLists DEF UserStep

\* At the start both lists are empty.
LEMMA InitLists == Init => ListInv
<1>1. <<>> \in Seq(Windows)
  BY EmptySeq
<1>2. SUFFICES ASSUME Init PROVE ListInv
  OBVIOUS
<1>3. /\ desk.views = <<>> /\ desk.draw = <<>> /\ desk.live = {} /\ desk.ready = {}
      /\ born = {} /\ entries = <<>>
  BY <1>2 DEF Init
<1>4. Listed(desk) = {} /\ Within(desk.draw) = {}
  BY <1>3 DEF Listed, Within
<1>5. Once(desk.views) /\ Once(desk.draw)
  BY <1>3 DEF Once
<1>6. QED
  BY <1>1, <1>3, <1>4, <1>5 DEF ListInv, Lists

\* The lists are kept by every step.
LEMMA StepLists == Inv /\ ListInv /\ [Next]_vars => ListInv'
<1>1. SUFFICES ASSUME Inv, ListInv, [Next]_vars PROVE ListInv'
  OBVIOUS
<1>2. CASE UNCHANGED vars
  BY <1>1, <1>2, QuietLists DEF vars, SameLists, SameStrip
<1>3. CASE Next
  BY <1>1, <1>3, ClientStepLists, UserStepLists DEF Next
<1>4. QED
  BY <1>1, <1>2, <1>3

\* views_ holds every mapped window once and nothing that is dead, the scene draws the
\* same windows, once, however often they are raised, and the switcher's choice is one
\* of its entries (Compositor::addView, removeView, raiseView; AltTabSwitcher).
THEOREM ListsStayComplete == Spec => []ListsAreComplete
<1>1. Inv /\ ListInv => ListsAreComplete
  <2>1. SUFFICES ASSUME Inv, ListInv PROVE ListsAreComplete
    OBVIOUS
  <2>2. /\ Typed(desk) /\ Complete(desk) /\ Lists(desk)
        /\ entries # <<>> => chosen \in DOMAIN entries
    BY <2>1 DEF Inv, Good, ListInv
  <2>3. desk \in Desk
    BY <2>2 DEF Typed, Desk, Lists
  <2>4. desk.views \in Seq(Windows) /\ Within(desk.views) = Listed(desk)
    BY <2>3 DEF Desk, Within, Listed
  <2>5. Len(desk.views) = Cardinality(Listed(desk))
    BY <2>2, <2>4, OnceCounts DEF Lists
  <2>6. Len(desk.draw) = Cardinality(desk.live) /\ Within(desk.draw) = desk.live
    BY <2>2, OnceCounts DEF Lists
  <2>7. QED
    BY <2>2, <2>3, <2>5, <2>6 DEF ListsAreComplete, Complete, Lists, Within
<1>2. Spec => []ListInv
  BY InvHolds, InitLists, StepLists, PTL DEF Spec
<1>3. QED
  BY <1>1, <1>2, InvHolds, PTL
==============================================================================
