------------------------------ MODULE Screenshot ------------------------------
(***************************************************************************)
(* The screenshot program: the overlay with its modes, drags and countdown *)
(* (class ScreenshotWindow), the dialogs it opens in nested event loops,   *)
(* and the capture (capture.cpp): a Wayland client of its own, whose calls *)
(* block the program until the compositor has sent the frame or 5 s of     *)
(* silence went by, and which cuts the region out of the output.           *)
(*                                                                         *)
(* A pixel is its position on the output, a rectangle is <<x, y, w, h>>.   *)
(* A timer that fires while the overlay hides fires just before or after.  *)
(***************************************************************************)
EXTENDS Integers, Sequences, FiniteSets, SequencesExt, FiniteSetsExt

CONSTANTS
    Width, Height,   \* of the first output
    Drags,           \* rectangles a drag can span; one pixel is among them
    Least,           \* side of the smallest selection
    Views,           \* geometry of the windows, without title bars
    Title,           \* height of a title bar
    Seconds,         \* of the countdown
    Polls            \* silent polls until the capture gives up

VARIABLES
    overlay,     \* "shown", "hidden" or "closed"
    mode,        \* mode_
    selection,   \* selection_, or <<>>
    dragging, delay,
    ticks,       \* countdownSeconds_ of a running countdown, or 0
    dialogs,     \* open dialogs, the last on top: what is done when it closes
    grab,        \* the capture going on
    pictures     \* history: the pictures saved

uiVars   == <<overlay, mode, selection, dragging, delay, ticks, dialogs>>
shotVars == <<uiVars, grab, pictures>>

Screen == <<0, 0, Width, Height>>
NoGrab == [phase |-> "none", region |-> Screen, buffer |-> FALSE, invert |-> FALSE,
           silent |-> 0, onFailure |-> "close"]

Init ==
    /\ overlay = "shown" /\ mode = "full" /\ selection = <<>>
    /\ dragging = FALSE /\ delay = FALSE /\ ticks = 0
    /\ dialogs = <<>> /\ grab = NoGrab /\ pictures = {}

-----------------------------------------------------------------------------
(* The picture.                                                            *)

\* What the compositor writes: the rows of the output, maybe the last first.
Memory(invert) ==
    [p \in (0 .. Width - 1) \X (0 .. Height - 1) |->
        IF invert THEN <<p[1], Height - 1 - p[2]>> ELSE p]

\* Mutant: the rows are taken as they are.
ConvertAsIs(memory, invert) == memory

ConvertToRgba(memory, invert) ==
    [p \in DOMAIN memory |-> IF invert THEN memory[<<p[1], Height - 1 - p[2]>>] ELSE memory[p]]

\* Mutant: a region that begins left of the output keeps its width.
CropKeepingWidth(rgba, r) ==
    LET x0 == Max({0, r[1]})  cw == Min({Width - x0, r[3]})
        y0 == Max({0, r[2]})  ch == Min({Height, r[2] + r[4]}) - y0
    IN  IF cw <= 0 \/ ch <= 0 THEN <<>>
        ELSE [row \in 1 .. ch |-> [col \in 1 .. cw |-> rgba[<<x0 + col - 1, y0 + row - 1>>]]]

\* The part of the region on the output, row by row; nothing when there is none.
CropRgba(rgba, r) ==
    LET x0 == Max({0, r[1]})  cw == Min({Width, r[1] + r[3]}) - x0
        y0 == Max({0, r[2]})  ch == Min({Height, r[2] + r[4]}) - y0
    IN  IF cw <= 0 \/ ch <= 0 THEN <<>>
        ELSE [row \in 1 .. ch |-> [col \in 1 .. cw |-> rgba[<<x0 + col - 1, y0 + row - 1>>]]]

-----------------------------------------------------------------------------
(* The capture: nothing else of the program runs while it goes on.         *)

Idle == overlay # "closed" /\ grab.phase = "none"

\* hide() comes first, or the overlay would be in the picture.
Capture(r, onFailure) ==
    /\ overlay' = "hidden"
    /\ grab' = [NoGrab EXCEPT !.phase = "connect", !.region = r, !.onFailure = onFailure]

\* A display, wl_shm, the manager and an output are needed; then the frame is asked for.
Connect ==
    /\ grab.phase = "connect"
    /\ grab' \in {[grab EXCEPT !.phase = p] : p \in {"asked", "failed"}}
    /\ UNCHANGED uiVars /\ UNCHANGED pictures

\* A format other than the two, or shared memory that cannot be made, fails.
HandleFrameBuffer ==
    /\ grab.phase = "asked" /\ ~grab.buffer
    /\ grab' \in {[grab EXCEPT !.buffer = TRUE], [grab EXCEPT !.phase = "failed"]}
    /\ UNCHANGED uiVars /\ UNCHANGED pictures

\* The listener has no handler for linux_dmabuf, which libwayland answers by abort():
\* an output whose allocator makes dma-bufs cannot be captured.
LinuxDmabuf ==
    /\ grab.phase = "asked" /\ grab.buffer
    /\ overlay' = "closed"
    /\ UNCHANGED <<mode, selection, dragging, delay, ticks, dialogs, grab, pictures>>

HandleFrameBufferDone ==
    /\ grab.phase = "asked" /\ grab.buffer
    /\ grab' = [grab EXCEPT !.phase = "copying"]
    /\ UNCHANGED uiVars /\ UNCHANGED pictures

HandleFrameReady ==
    /\ grab.phase = "copying"
    /\ \E flags \in BOOLEAN : grab' = [grab EXCEPT !.phase = "ready", !.invert = flags]
    /\ UNCHANGED uiVars /\ UNCHANGED pictures

\* The compositor refuses, or the connection breaks.
HandleFrameFailed ==
    /\ grab.phase \in {"asked", "copying"}
    /\ grab' = [grab EXCEPT !.phase = "failed"]
    /\ UNCHANGED uiVars /\ UNCHANGED pictures

\* A quarter of a second without an event.
Silence ==
    /\ grab.phase \in {"asked", "copying"}
    /\ grab' = [grab EXCEPT !.silent = @ + 1,
                            !.phase = IF grab.silent + 1 >= Polls THEN "failed" ELSE @]
    /\ UNCHANGED uiVars /\ UNCHANGED pictures

Say(then) == dialogs' = Append(dialogs, then)

\* The window mode stays open after a failure, the others close.
Fail ==
    /\ grab.phase = "failed"
    /\ Say(grab.onFailure) /\ grab' = NoGrab
    /\ UNCHANGED <<overlay, mode, selection, dragging, delay, ticks, pictures>>

\* The picture is cut and written, which may fail too.
Finish ==
    /\ grab.phase = "ready"
    /\ LET rows == CropRgba(ConvertToRgba(Memory(grab.invert), grab.invert), grab.region)
       IN  \/ /\ rows # <<>>
              /\ pictures' = pictures \union {[region |-> grab.region, rows |-> rows]}
              /\ Say("close")
           \/ /\ Say(grab.onFailure) /\ UNCHANGED pictures
    /\ grab' = NoGrab
    /\ UNCHANGED <<overlay, mode, selection, dragging, delay, ticks>>

-----------------------------------------------------------------------------
(* The overlay.                                                            *)

Input == Idle /\ overlay = "shown" /\ dialogs = <<>>

Region == IF mode' = "region" /\ selection' # <<>> THEN selection' ELSE Screen

\* With the delay the overlay is shown again, to be closed or used.
CaptureAndSave ==
    IF delay THEN ticks' = Seconds /\ overlay' = "shown" /\ UNCHANGED grab
    ELSE Capture(Region, "close") /\ UNCHANGED ticks

SetMode(m) == mode' = m /\ selection' = IF m = "region" THEN selection ELSE <<>>

PressFullscreen ==
    /\ Input /\ SetMode("full") /\ CaptureAndSave
    /\ UNCHANGED <<dragging, delay, dialogs, pictures>>

PressRegion ==
    /\ Input /\ SetMode("region")
    /\ UNCHANGED <<overlay, dragging, delay, ticks, dialogs, grab, pictures>>

\* Without a list of windows, a warning and then the whole screen.
PressWindow ==
    /\ Input /\ SetMode("window")
    /\ \E then \in {"choose", "capture"} : Say(then)
    /\ UNCHANGED <<overlay, dragging, delay, ticks, grab, pictures>>

ToggleDelay ==
    /\ Input /\ delay' = ~delay
    /\ UNCHANGED <<overlay, mode, selection, dragging, ticks, dialogs, grab, pictures>>

MousePress(r) ==
    /\ Input /\ mode = "region" /\ ~dragging /\ r[3] = 1 /\ r[4] = 1
    /\ dragging' = TRUE /\ selection' = r
    /\ UNCHANGED <<overlay, mode, delay, ticks, dialogs, grab, pictures>>

MouseMove(r) ==
    /\ Input /\ dragging
    /\ selection' = r
    /\ UNCHANGED <<overlay, mode, dragging, delay, ticks, dialogs, grab, pictures>>

MouseRelease(r) ==
    /\ Input /\ dragging
    /\ dragging' = FALSE /\ UNCHANGED <<mode, delay, dialogs, pictures>>
    /\ IF r[3] < Least \/ r[4] < Least
       THEN selection' = <<>> /\ UNCHANGED <<overlay, ticks, grab>>
       ELSE selection' = r /\ CaptureAndSave

Escape ==
    /\ Input
    /\ IF dragging THEN dragging' = FALSE /\ selection' = <<>> /\ UNCHANGED overlay
       ELSE overlay' = "closed" /\ UNCHANGED <<dragging, selection>>
    /\ UNCHANGED <<mode, delay, ticks, dialogs, grab, pictures>>

\* The timer runs on under dialogs and drags, and takes the selection there is.
OnCountdownTick ==
    /\ Idle /\ ticks > 0
    /\ ticks' = ticks - 1
    /\ UNCHANGED <<mode, selection>>
    /\ IF ticks = 1 THEN Capture(Region, "close") ELSE UNCHANGED <<overlay, grab>>
    /\ UNCHANGED <<dragging, delay, dialogs, pictures>>

\* The dialog on top is answered; the windows were listed when it opened.
CloseDialog ==
    /\ Idle /\ dialogs # <<>>
    /\ dialogs' = Front(dialogs)
    /\ UNCHANGED <<mode, selection, dragging, delay, pictures>>
    /\ CASE Last(dialogs) = "close"   -> overlay' = "closed" /\ UNCHANGED <<ticks, grab>>
         [] Last(dialogs) = "capture" -> CaptureAndSave
         [] Last(dialogs) = "choose"  ->
                /\ \/ \E v \in Views :
                        Capture(<<v[1], v[2] - Title, v[3], v[4] + Title>>, "stay")
                   \/ UNCHANGED <<overlay, grab>>
                /\ UNCHANGED ticks
         [] OTHER -> UNCHANGED <<overlay, ticks, grab>>

Next ==
    \/ Connect \/ HandleFrameBuffer \/ LinuxDmabuf \/ HandleFrameBufferDone
    \/ HandleFrameReady \/ HandleFrameFailed \/ Silence \/ Fail \/ Finish
    \/ PressFullscreen \/ PressRegion \/ PressWindow \/ ToggleDelay
    \/ \E r \in Drags : MousePress(r) \/ MouseMove(r) \/ MouseRelease(r)
    \/ Escape \/ OnCountdownTick \/ CloseDialog

Spec == Init /\ [][Next]_shotVars

-----------------------------------------------------------------------------
\* A picture holds exactly the pixels of its region that are on the output, each
\* once and in place, wherever the region lies (a window may stick out on any
\* side, its title bar above the screen) and whichever row the compositor wrote
\* first.
PictureIsItsRegion ==
    \A p \in pictures :
        LET Xs == {x \in 0 .. Width - 1  : p.region[1] <= x /\ x < p.region[1] + p.region[3]}
            Ys == {y \in 0 .. Height - 1 : p.region[2] <= y /\ y < p.region[2] + p.region[4]}
        IN  /\ Len(p.rows) * Len(p.rows[1]) = Cardinality(Xs \X Ys)
            /\ \A row \in DOMAIN p.rows : \A col \in DOMAIN p.rows[row] :
                    p.rows[row][col] = <<Min(Xs) + col - 1, Min(Ys) + row - 1>>
=============================================================================
