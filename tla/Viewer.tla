-------------------------------- MODULE Viewer --------------------------------
(***************************************************************************)
(* The viewer of texts, images and PDF documents (class ViewerWindow) and  *)
(* how it tells them apart (detectFileKind).  The three views share one    *)
(* window, one scale and one tool bar; a file comes from the dialog, the   *)
(* command line or another program's Activate, at any time.                *)
(*                                                                         *)
(* Scales are whole quarters, a page is as wide as it is high, and the     *)
(* limits on the memory of a picture are left out.                         *)
(***************************************************************************)
EXTENDS Integers

CONSTANTS
    Files,      \* records [ext, magic, bytes, mark, whole, pages]
    NoFile,
    PageSide,   \* side of a page or image at scale 1
    ViewSide    \* side of the room for it

VARIABLES
    path,         \* currentPath_ and the title
    view,         \* the current widget of stack_
    text,         \* what textView_ has: a file and the encoding it was taken for
    image,        \* image_
    doc, page,    \* pdfDoc_ and pdfPage_
    scale,        \* scale_, in quarters
    rendered,     \* pdfImage_: document, page and scale
    label,        \* the page pageLabel_ names, or 0
    actions       \* enabled actions: zoom, prev and next

viewerVars == <<path, view, text, image, doc, page, scale, rendered, label, actions>>

Clamp(n) == IF n < 1 THEN 1 ELSE IF n > 16 THEN 16 ELSE n

-----------------------------------------------------------------------------
(* Kinds of files.                                                         *)

\* The content decides for a PDF, then the extension, then whether it is text.
DetectFileKind(f) ==
    IF f.magic = "%PDF-" \/ f.ext = "pdf" THEN "pdf"
    ELSE IF f.ext \in {"png", "svg"} THEN "image"
    ELSE IF f.ext \in {"txt", "cpp"} THEN "text"
    ELSE IF f.bytes = "utf-8" THEN "text" ELSE "unknown"

\* startsWith takes a string that ends at its first zero: the mark of UTF-32 LE is
\* compared as that of UTF-16 LE, and that of UTF-32 BE as the empty string, which
\* every file starts with.
TakenFor(f) == IF f.mark \in {"utf-16le", "utf-32le"} THEN "utf-32le" ELSE "utf-32be"

-----------------------------------------------------------------------------
(* Loading.                                                                *)

Init ==
    /\ path = NoFile /\ view = "text" /\ text = <<NoFile, "none">> /\ image = NoFile
    /\ doc = NoFile /\ page = 0 /\ scale = 4 /\ rendered = <<NoFile, 0, 4>>
    /\ label = 0 /\ actions = {}

LoadText(f) ==
    /\ text' = <<f, TakenFor(f)>> /\ view' = "text"
    /\ actions' = {} /\ label' = 0
    /\ UNCHANGED <<image, doc, page, scale, rendered>>

LoadImage(f) ==
    /\ image' = f /\ scale' = 4 /\ view' = "image"
    /\ actions' = {"zoom"} /\ label' = 0
    /\ UNCHANGED <<text, doc, page, rendered>>

\* A page that cannot be rendered leaves picture, label and actions as they are.
RenderPdfPage(base) ==
    \/ /\ rendered' = <<doc', page', scale'>> /\ label' = page' + 1
       /\ actions' = {"zoom"} \union (IF page' > 0 THEN {"prev"} ELSE {})
                              \union (IF page' + 1 < doc'.pages THEN {"next"} ELSE {})
    \/ actions' = base /\ UNCHANGED <<rendered, label>>

LoadPdf(f) ==
    /\ doc' = f /\ page' = 0 /\ scale' = 4 /\ view' = "pdf"
    /\ RenderPdfPage(actions \union {"zoom"})
    /\ UNCHANGED <<text, image>>

\* Mutant: the old document goes before the new one is known to be good.
LoadFileEagerly(f) ==
    LET kind == DetectFileKind(f)
    IN  /\ kind # "unknown" /\ (f.whole \/ kind = "pdf")
        /\ CASE kind = "text" -> LoadText(f) [] kind = "image" -> LoadImage(f)
             [] kind = "pdf" -> LoadPdf(f)
        /\ path' = IF f.whole THEN f ELSE path

\* A file that cannot be read, decoded or shown (a locked PDF, one without pages)
\* leaves the window as it is.
LoadFile(f) ==
    LET kind == DetectFileKind(f)
    IN  /\ kind # "unknown" /\ f.whole
        /\ CASE kind = "text" -> LoadText(f) [] kind = "image" -> LoadImage(f)
             [] kind = "pdf" -> LoadPdf(f)
        /\ path' = f

-----------------------------------------------------------------------------
(* The tool bar.                                                           *)

\* renderPdfPage or applyImageZoom.
Redraw ==
    IF view = "pdf" THEN RenderPdfPage(actions) ELSE UNCHANGED <<rendered, label, actions>>

Zoom(to) ==
    /\ "zoom" \in actions
    /\ scale' = to
    /\ UNCHANGED <<path, view, text, image, doc, page>>
    /\ Redraw

ZoomIn  == Zoom(Clamp(scale + 1))
ZoomOut == Zoom(Clamp(scale - 1))

\* The content of a PDF is the picture rendered last, at the scale it had then.
ZoomFit ==
    /\ view = "image" \/ rendered[1] # NoFile
    /\ Zoom(Clamp((4 * ViewSide) \div (IF view = "pdf" THEN (PageSide * rendered[3]) \div 4
                                       ELSE PageSide)))

TurnPage(to) ==
    /\ page' = to
    /\ UNCHANGED <<path, view, text, image, doc, scale>>
    /\ RenderPdfPage(actions)

PrevPage == "prev" \in actions /\ page > 0 /\ TurnPage(page - 1)
NextPage == "next" \in actions /\ page + 1 < doc.pages /\ TurnPage(page + 1)

Next == (\E f \in Files : LoadFile(f)) \/ ZoomIn \/ ZoomOut \/ ZoomFit \/ PrevPage \/ NextPage

Spec == Init /\ [][Next]_viewerVars

-----------------------------------------------------------------------------
\* Whatever was opened before and failed since, the window has the content of the
\* file in its title in the view for its kind; prev and next belong to the page
\* on screen: they are enabled only in a PDF, and once its page was rendered
\* exactly when there is such a page, which the label numbers.
ShownIsTheFile ==
    path # NoFile =>
        /\ view = DetectFileKind(path)
        /\ path = CASE view = "text" -> text[1] [] view = "image" -> image [] view = "pdf" -> doc
        /\ view # "pdf" => actions \subseteq {"zoom"} /\ label = 0
        /\ view = "pdf" /\ label # 0 /\ rendered = <<doc, page, scale>> =>
               /\ label = page + 1
               /\ "prev" \in actions <=> page > 0
               /\ "next" \in actions <=> page + 1 < doc.pages
=============================================================================
