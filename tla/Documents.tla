------------------------------- MODULE Documents -------------------------------
(***************************************************************************)
(* The three programs that edit a document in a window: the word pad       *)
(* (PadWindow), the paint program (PaintWindow and its canvas) and the     *)
(* sticky notes (StickyWindow, with the list that deletes notes).  What a  *)
(* document holds is the number of its latest change; a file holds such a  *)
(* number, or Nothing when there is no file.  A file that could be opened  *)
(* for writing is written completely.                                      *)
(***************************************************************************)
EXTENDS Integers

CONSTANTS
    Pages,         \* files of the word pad
    Html,          \* those that keep character formats
    Images,        \* files of the paint program
    Notes,         \* files of sticky notes
    Nothing,       \* no file, or no content
    MaxChanges     \* bound on changes to documents

VARIABLES
    disk,          \* the files
    pad,           \* PadWindow: edit_, currentPath_, changed_
    paint,         \* PaintWindow: image_, currentPath_, imageChanged_, tool_, drawing_
    note,          \* StickyWindow: path_, edit_, dirty_ and its timer
    changes        \* changes so far: numbers the next content

docVars == <<disk, pad, paint, note, changes>>

Files == Pages \union Images \union Notes
Page(text, rich) == [text |-> text, rich |-> rich]
Blank == Page(0, FALSE)

NewPad   == [up |-> TRUE, page |-> Blank, path |-> Nothing, changed |-> FALSE]
NewPaint == [up |-> TRUE, image |-> 0, specks |-> FALSE, path |-> Nothing,
             changed |-> FALSE, tool |-> "pen", stroke |-> "none"]
NoNote   == [path |-> Nothing, text |-> 0, dirty |-> FALSE, timer |-> FALSE]

Init ==
    /\ disk = [f \in Files |-> Nothing]
    /\ pad = NewPad /\ paint = NewPaint /\ note = NoNote
    /\ changes = 0

Change == changes < MaxChanges /\ changes' = changes + 1

-----------------------------------------------------------------------------
(* The word pad.                                                           *)

PadType ==
    /\ pad.up /\ Change
    /\ pad' = [pad EXCEPT !.page.text = changes', !.changed = TRUE]
    /\ UNCHANGED <<disk, paint, note>>

\* Without a selection the format only concerns what is typed next.
PadFormat ==
    /\ pad.up /\ pad.page.text # 0 /\ ~pad.page.rich
    /\ pad' = [pad EXCEPT !.page.rich = TRUE, !.changed = TRUE]
    /\ UNCHANGED <<disk, paint, note, changes>>

\* What is in the window is dropped without a question.
PadOpen(f) ==
    /\ pad.up /\ disk[f] # Nothing
    /\ pad' = [pad EXCEPT !.page = disk[f], !.path = f, !.changed = FALSE]
    /\ UNCHANGED <<disk, paint, note, changes>>

Written(f) == IF f \in Html THEN pad.page ELSE Page(pad.page.text, FALSE)

\* The dialog, when there is no path yet, may be cancelled; the file may not be
\* writable, and the path stays all the same.
PadSave(f, writable) ==
    /\ pad.up /\ (pad.path # Nothing => f = pad.path)
    /\ IF f # Nothing /\ writable
       THEN /\ disk' = [disk EXCEPT ![f] = Written(f)]
            /\ pad' = [pad EXCEPT !.path = f, !.changed = FALSE]
       ELSE pad' = [pad EXCEPT !.path = f] /\ UNCHANGED disk
    /\ UNCHANGED <<paint, note, changes>>

PadClose(confirmed) ==
    /\ pad.up /\ (pad.changed => confirmed)
    /\ pad' = [NewPad EXCEPT !.up = FALSE]
    /\ UNCHANGED <<disk, paint, note, changes>>

PadStart ==
    /\ ~pad.up
    /\ \/ pad' = NewPad
       \/ \E f \in Pages : disk[f] # Nothing /\ pad' = [NewPad EXCEPT !.page = disk[f], !.path = f]
    /\ UNCHANGED <<disk, paint, note, changes>>

-----------------------------------------------------------------------------
(* The paint program.  Pen and eraser paint while the button is down; a    *)
(* shape is painted when it is released.  The tool stays during a stroke.  *)

PaintTool(t) ==
    /\ paint.up /\ paint.stroke = "none" /\ t # paint.tool
    /\ paint' = [paint EXCEPT !.tool = t]
    /\ UNCHANGED <<disk, pad, note, changes>>

PaintPress ==
    /\ paint.up /\ paint.stroke = "none"
    /\ IF paint.tool = "pen"
       THEN Change /\ paint' = [paint EXCEPT !.stroke = "pressed", !.image = changes']
       ELSE paint' = [paint EXCEPT !.stroke = "pressed"] /\ UNCHANGED changes
    /\ UNCHANGED <<disk, pad, note>>

PaintMove ==
    /\ paint.up /\ paint.stroke # "none"
    /\ IF paint.tool = "pen"
       THEN Change /\ paint' = [paint EXCEPT !.stroke = "moved", !.image = changes']
       ELSE /\ paint' = [paint EXCEPT !.stroke = "moved"] /\ UNCHANGED changes
    /\ UNCHANGED <<disk, pad, note>>

\* A shape that ends where it began leaves a speck of ink and no mark.
PaintRelease ==
    /\ paint.up /\ paint.stroke # "none"
    /\ \/ /\ paint.tool = "pen"
          /\ paint' = [paint EXCEPT !.stroke = "none", !.changed = TRUE]
          /\ UNCHANGED changes
       \/ /\ paint.tool = "shape" /\ paint.stroke = "moved" /\ Change
          /\ paint' = [paint EXCEPT !.stroke = "none", !.changed = TRUE, !.image = changes']
       \/ /\ paint.tool = "shape"
          /\ paint' = [paint EXCEPT !.stroke = "none", !.specks = TRUE]
          /\ UNCHANGED changes
    /\ UNCHANGED <<disk, pad, note>>

PaintNew ==
    /\ paint.up /\ paint.stroke = "none"
    /\ paint' = [NewPaint EXCEPT !.tool = paint.tool]
    /\ UNCHANGED <<disk, pad, note, changes>>

PaintOpen(f) ==
    /\ paint.up /\ paint.stroke = "none" /\ disk[f] # Nothing
    /\ paint' = [NewPaint EXCEPT !.tool = paint.tool, !.image = disk[f], !.path = f]
    /\ UNCHANGED <<disk, pad, note, changes>>

\* Mutant of PaintSaved: the mark goes whether or not the image could be saved.
PaintSavedAnyway(f, writable) ==
    /\ paint' = [paint EXCEPT !.path = f, !.changed = (f = Nothing /\ @)]
    /\ disk' = IF f # Nothing /\ writable THEN [disk EXCEPT ![f] = paint.image] ELSE disk

PaintSaved(f, writable) ==
    IF f # Nothing /\ writable
    THEN /\ disk' = [disk EXCEPT ![f] = paint.image]
         /\ paint' = [paint EXCEPT !.path = f, !.changed = FALSE]
    ELSE paint' = [paint EXCEPT !.path = f] /\ UNCHANGED disk

PaintSave(f, writable) ==
    /\ paint.up /\ paint.stroke = "none" /\ (paint.path # Nothing => f = paint.path)
    /\ PaintSaved(f, writable)
    /\ UNCHANGED <<pad, note, changes>>

\* The window has no closeEvent of its own: it closes as it is.
PaintClose ==
    /\ paint.up /\ paint.stroke = "none"
    /\ paint' = [NewPaint EXCEPT !.up = FALSE]
    /\ UNCHANGED <<disk, pad, note, changes>>

PaintStart ==
    /\ ~paint.up
    /\ \/ paint' = NewPaint
       \/ \E f \in Images : disk[f] # Nothing
                            /\ paint' = [NewPaint EXCEPT !.image = disk[f], !.path = f]
    /\ UNCHANGED <<disk, pad, note, changes>>

-----------------------------------------------------------------------------
(* Sticky notes: a window saves itself half a second after the last change *)
(* and when it closes.                                                     *)

\* While a window is up, activating the program only raises it.  A new note has
\* a path but no file.
NoteOpen(f) ==
    /\ note.path = Nothing
    /\ note' = [NoNote EXCEPT !.path = f, !.text = IF disk[f] = Nothing THEN 0 ELSE disk[f]]
    /\ UNCHANGED <<disk, pad, paint, changes>>

NoteType ==
    /\ note.path # Nothing /\ Change
    /\ note' = [note EXCEPT !.text = changes', !.dirty = TRUE, !.timer = TRUE]
    /\ UNCHANGED <<disk, pad, paint>>

\* The disk and the dirty flag after one saveNow.
SaveNow(files, dirty, writable) ==
    IF dirty /\ writable THEN <<[files EXCEPT ![note.path] = note.text], FALSE>>
    ELSE <<files, dirty>>

NoteTimeout(writable) ==
    /\ note.timer
    /\ LET saved == SaveNow(disk, note.dirty, writable)
       IN  disk' = saved[1] /\ note' = [note EXCEPT !.timer = FALSE, !.dirty = saved[2]]
    /\ UNCHANGED <<pad, paint, changes>>

\* closeEvent saves, and so does the destructor.
NoteClose(first, second) ==
    /\ note.path # Nothing
    /\ LET once == SaveNow(disk, note.dirty, first)
       IN  disk' = SaveNow(once[1], once[2], second)[1]
    /\ note' = NoNote
    /\ UNCHANGED <<pad, paint, changes>>

\* The list of notes is a program of its own: a window of the note stays.  The
\* windows that the list opens end with it at once.
NoteDelete(f) ==
    /\ disk[f] # Nothing
    /\ disk' = [disk EXCEPT ![f] = Nothing]
    /\ UNCHANGED <<pad, paint, note, changes>>

-----------------------------------------------------------------------------

PadNext ==
    \/ PadType \/ PadFormat \/ PadStart
    \/ \E f \in Pages : PadOpen(f)
    \/ \E f \in Pages \union {Nothing}, w \in BOOLEAN : PadSave(f, w)
    \/ \E c \in BOOLEAN : PadClose(c)

PaintNext ==
    \/ PaintPress \/ PaintMove \/ PaintRelease \/ PaintNew \/ PaintClose \/ PaintStart
    \/ \E t \in {"pen", "shape"} : PaintTool(t)
    \/ \E f \in Images : PaintOpen(f)
    \/ \E f \in Images \union {Nothing}, w \in BOOLEAN : PaintSave(f, w)

NoteNext ==
    \/ NoteType
    \/ \E f \in Notes : NoteOpen(f) \/ NoteDelete(f)
    \/ \E w \in BOOLEAN : NoteTimeout(w)
    \/ \E v, w \in BOOLEAN : NoteClose(v, w)

Next == PadNext \/ PaintNext \/ NoteNext

Spec == Init /\ [][Next]_docVars

-----------------------------------------------------------------------------

\* A document that is not marked as changed is empty or is what its file holds:
\* failed saves, cancelled dialogs and a window opened on another file keep the
\* mark (changed_, imageChanged_, dirty_) true to the file.  The ink of shapes of
\* no size is left aside (canvas release), and a note may have lost its file to the
\* list of notes.
UnmarkedIsSaved ==
    /\ pad.up /\ ~pad.changed /\ pad.page.text # 0 => disk[pad.path].text = pad.page.text
    /\ paint.up /\ ~paint.changed /\ paint.stroke = "none" /\ paint.image # 0
         => paint.path # Nothing /\ disk[paint.path] = paint.image
    /\ note.path # Nothing /\ ~note.dirty => disk[note.path] \in {note.text, Nothing}
=============================================================================
