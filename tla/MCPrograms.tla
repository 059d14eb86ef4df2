------------------------------ MODULE MCPrograms ------------------------------
(***************************************************************************)
(* Programs with the values that a configuration file cannot write.        *)
(***************************************************************************)
EXTENDS Programs

MCWeekDays == {-1, 0}
MCAtFirst  == {<<"a", <<"x", 1>>>>, <<"b", <<"x", 1>>>>}
MCPartial  == <<"partial">>

\* A month of two days and one of one day.
MCMonthStarts == <<1, 3, 4>>

MCQueries  == {<<>>, <<"a">>, <<"a", "b">>, <<"a", "b", "a">>}
MCAppKinds == <<"browser", "viewer">>
MCNetDevices == <<"d1", "d2">>
MCStoreIds == <<"a", "b">>

\* A press, and what it becomes; a window out of the screen to the left, and one below.
MCDrags     == {<<0, 0, 1, 1>>, <<1, 0, 2, 2>>}
MCShotViews == {<<-1, 1, 2, 1>>, <<2, 0, 2, 3>>}

MCParent   == [f \in Folders |-> IF f = "/h/a" THEN "/h" ELSE "/"]

\* A text, an image, a PDF of two pages under another extension, and one that is cut off.
Seen(ext, magic, bytes, whole, pages) ==
    [ext |-> ext, magic |-> magic, bytes |-> bytes, mark |-> "none", whole |-> whole,
     pages |-> pages]
MCViewerFiles ==
    {Seen("txt", "", "utf-8", TRUE, 0), Seen("png", "", "binary", TRUE, 0),
     Seen("txt", "%PDF-", "binary", TRUE, 2), Seen("pdf", "%PDF-", "binary", FALSE, 3)}
=============================================================================
