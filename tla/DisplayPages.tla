---------------------------- MODULE DisplayPages ----------------------------
(***************************************************************************)
(* The display pages of the settings and of the control program, as        *)
(* clients of the compositor's D-Bus service: the lists of outputs, modes  *)
(* and scales, Apply, and the widget in which outputs are dragged to their *)
(* places (MonitorArrangementWidget).                                      *)
(*                                                                         *)
(* Of sizes and places the horizontal one is kept, a mode is its width.    *)
(* What the compositor does with a setting is in Outputs.                  *)
(***************************************************************************)
EXTENDS Integers, Sequences, FiniteSets, SequencesExt

CONSTANTS
    Programs,      \* programs with a display page
    OutputList,    \* the compositor's outputs, first output first
    Offered,       \* modes each output offers, none for a headless one
    Common,        \* modes listed for an output that offers none
    Scales,        \* percentages the page offers
    Places,        \* x coordinates outputs are dragged to
    MaxSettings    \* bound on the settings carried out

VARIABLES
    mode, scale, place,   \* the compositor's outputs
    service,              \* org.w10de.Compositor answers
    pages,                \* each program's page, see EmptyPage
    settings

displayVars == <<mode, scale, place, service, pages, settings>>
compositor  == <<mode, scale, place, service, settings>>

OutputNames == ToSet(OutputList)
Effective(o) == (mode[o] * 100) \div scale[o]     \* wlr_output_effective_resolution

\* names: outputNames_; cur: curWidth_ and curScalePercent_; modes: modeMap_;
\* row, pick, scalePick: the three combo boxes; dragged: the widget's places;
\* touched: a mode or scale was picked; read: mode and scale when it was read.
EmptyPage == [names |-> <<>>, cur |-> [width |-> 0, scale |-> 100], modes |-> <<>>,
              row |-> 0, pick |-> 0, scalePick |-> 100,
              dragged |-> place, changed |-> FALSE, touched |-> FALSE,
              read |-> [mode |-> mode, scale |-> scale]]

Init ==
    /\ mode = [o \in OutputNames |-> Common[1]]
    /\ scale = [o \in OutputNames |-> 100]
    /\ place = [o \in OutputNames |-> 0]
    /\ service = TRUE
    /\ pages = [p \in Programs |-> EmptyPage]
    /\ settings = 0

-----------------------------------------------------------------------------
(* Reading.  Each is given the page and the compositor's state after it.   *)

\* loadOutputDetails: the modes of the row's output, and of them the one
\* curWidth_ names, appended if the output does not offer it.
LoadOutputDetails(page, row) ==
    LET o      == page.names[row]
        listed == IF Offered[o] = <<>> THEN Common ELSE Offered[o]
        modes  == IF Contains(listed, page.cur.width) THEN listed
                  ELSE Append(listed, page.cur.width)
    IN [page EXCEPT !.row = row, !.modes = modes, !.scalePick = page.cur.scale, !.touched = FALSE,
                    !.pick = CHOOSE i \in DOMAIN modes : modes[i] = page.cur.width]

\* Mutant: the current size is kept from the reading before.
FirstUnlessKnown(page, width, percent) ==
    IF page.cur.width = 0 THEN [width |-> width, scale |-> percent] ELSE page.cur

\* The first output's size and scale, as GetOutputs gives them.
FirstOf(page, width, percent) == [width |-> width, scale |-> percent]

\* refreshOutputs after a GetOutputs that reported mode m, scale s, places x.
Refreshed(page, m, s, x) ==
    LET o == OutputList[1]
    IN LoadOutputDetails([page EXCEPT !.names = OutputList, !.dragged = x, !.changed = FALSE,
                                      !.cur = FirstOf(page, (m[o] * 100) \div s[o], s[o]),
                                      !.read = [mode |-> m, scale |-> s]], 1)

\* Without a service the outputs are forgotten, the widget keeps them.
Unserved(page) == [page EXCEPT !.names = <<>>, !.row = 0]

Refresh(p) ==
    /\ pages' = [pages EXCEPT ![p] =
           IF service THEN Refreshed(@, mode, scale, place) ELSE Unserved(@)]
    /\ UNCHANGED compositor

\* The output box: its details are loaded again, if the service is there.
SelectOutput(p, row) ==
    /\ row \in DOMAIN pages[p].names
    /\ pages' = [pages EXCEPT ![p] =
           IF service THEN LoadOutputDetails(@, row) ELSE [@ EXCEPT !.row = row]]
    /\ UNCHANGED compositor

PickMode(p, i) ==
    /\ i \in DOMAIN pages[p].modes
    /\ pages' = [pages EXCEPT ![p].pick = i, ![p].touched = TRUE]
    /\ UNCHANGED compositor

PickScale(p, percent) ==
    /\ pages' = [pages EXCEPT ![p].scalePick = percent, ![p].touched = TRUE]
    /\ UNCHANGED compositor

-----------------------------------------------------------------------------
(* Applying.                                                               *)

\* applyDisplaySettings: SetMode, then SetScale unless it was refused; the page
\* is read again when both were carried out.
Apply(p) ==
    LET page  == pages[p]
        o     == page.names[page.row]
        width == page.modes[page.pick]
        m     == [mode EXCEPT ![o] = width]
        s     == [scale EXCEPT ![o] = page.scalePick]
        done  == [page EXCEPT !.cur = [width |-> width, scale |-> page.scalePick]]
    IN /\ page.names # <<>> /\ page.row # 0 /\ service /\ settings < MaxSettings
       /\ settings' = settings + 1
       /\ \/ UNCHANGED <<mode, scale, pages>>            \* SetMode failed
          \/ mode' = m /\ UNCHANGED <<scale, pages>>     \* SetScale failed
          \/ /\ mode' = m /\ scale' = s
             /\ pages' = [pages EXCEPT ![p] = Refreshed(done, m, s, place)]
       /\ UNCHANGED <<place, service>>

\* mouseMoveEvent in the widget.
Drag(p, o, x) ==
    /\ pages[p].names # <<>>
    /\ pages' = [pages EXCEPT ![p].dragged[o] = x, ![p].changed = TRUE]
    /\ UNCHANGED compositor

\* applyArrangement: every output's place in turn, up to the first refusal; what
\* was carried out is read back.
ApplyArrangement(p) ==
    /\ pages[p].changed /\ service /\ settings < MaxSettings
    /\ settings' = settings + 1
    /\ \E n \in 0 .. Len(OutputList) :
          LET x == [o \in OutputNames |->
                       IF \E i \in 1 .. n : OutputList[i] = o THEN pages[p].dragged[o] ELSE place[o]]
          IN /\ place' = x
             /\ pages' = IF n = 0 THEN pages
                         ELSE [pages EXCEPT ![p] = Refreshed(@, mode, scale, x)]
    /\ UNCHANGED <<mode, scale, service>>

\* The compositor's service ends for good (onReadable on a closed connection).
ServiceEnds == service' = FALSE /\ UNCHANGED <<mode, scale, place, pages, settings>>

Next ==
    \/ ServiceEnds
    \/ \E p \in Programs :
          \/ Refresh(p) \/ Apply(p) \/ ApplyArrangement(p)
          \/ \E row \in 1 .. Len(OutputList) : SelectOutput(p, row)
          \/ \E i \in 1 .. 3 : PickMode(p, i)
          \/ \E percent \in Scales : PickScale(p, percent)
          \/ \E o \in OutputNames, x \in Places : Drag(p, o, x)

Spec == Init /\ [][Next]_displayVars

-----------------------------------------------------------------------------

\* Apply, when nothing was picked since the page was read, changes nothing: the
\* boxes name the mode and the scale of the first output, whoever set them and
\* however often the page was read.  (Of an output that is not scaled: of a
\* scaled one, and of any but the first, the boxes name another size.)
UntouchedApplyKeeps == \A p \in Programs :
    LET page == pages[p]
        o    == OutputList[1]
    IN page.row = 1 /\ ~page.touched /\ page.read = [mode |-> mode, scale |-> scale] /\ scale[o] = 100
       => page.modes[page.pick] = mode[o] /\ page.scalePick = 100
=============================================================================
