--------------------------------- MODULE Store ---------------------------------
(***************************************************************************)
(* The software centre: the applications found in four directories         *)
(* (SoftwareStore), the searched list with its selected one, and the       *)
(* removal of a Flatpak by a process that runs beside the window (class    *)
(* StoreWindow).                                                           *)
(*                                                                         *)
(* The names, icons and languages of entries are left out.                 *)
(***************************************************************************)
EXTENDS Integers, Sequences, SequencesExt, FiniteSetsExt

CONSTANTS
    Ids,          \* desktop file names, in order
    NoApp,
    MaxChanges    \* bound on what other programs install or remove

VARIABLES
    disk,         \* desktop files: <<directory, id>> to whether it is shown
    apps,         \* apps_: id to directory
    filter,       \* ids that match the search
    selected,     \* selectedId_
    canUninstall, \* uninstallBtn_ is enabled
    question,     \* the application a question is open about, or NoApp
    stale,        \* apps_ was replaced under the question
    proc,         \* what uninstallProc_ removes, or NoApp
    status,
    changes

storeVars == <<disk, apps, filter, selected, canUninstall, question, stale, proc, status,
               changes>>

Dirs == <<"user", "userflatpak", "flatpak", "system">>
Flatpaks == {"userflatpak", "flatpak"}

-----------------------------------------------------------------------------
\* The first directory that has an id decides, also that it is not shown.
ListInstalled(files) ==
    LET Rank(id) == Min({n \in DOMAIN Dirs : <<Dirs[n], id>> \in DOMAIN files})
        found == {id \in Range(Ids) : \E n \in DOMAIN Dirs : <<Dirs[n], id>> \in DOMAIN files}
    IN  [id \in {i \in found : files[<<Dirs[Rank(i)], i>>]} |-> Dirs[Rank(id)]]

\* The list is filled in the order of the directories, then of the names.
FirstOf(list) ==
    CHOOSE id \in list : \A other \in list :
        LET D(i) == Min({n \in DOMAIN Dirs : Dirs[n] = apps'[i]})
            N(i) == Min({n \in DOMAIN Ids : Ids[n] = i})
        IN  D(id) < D(other) \/ (D(id) = D(other) /\ N(id) <= N(other))

Removable(id) == apps'[id] \in Flatpaks

\* showDetails also clears the status.
Select(id) == selected' = id /\ canUninstall' = Removable(id) /\ status' = "none"

RebuildList(otherwise) ==
    LET list == DOMAIN apps' \intersect filter'
    IN  IF list = {} THEN selected' = NoApp /\ canUninstall' = FALSE /\ status' = otherwise
        ELSE Select(FirstOf(list))

Init ==
    /\ disk = [f \in {<<"flatpak", id>> : id \in Range(Ids)} |-> TRUE]
    /\ apps = ListInstalled(disk) /\ filter = Range(Ids)
    /\ selected = Ids[1] /\ canUninstall = TRUE
    /\ question = NoApp /\ stale = FALSE /\ proc = NoApp /\ status = "none"
    /\ changes = 0

-----------------------------------------------------------------------------
(* The window; a question keeps other input from it.                       *)

Input == question = NoApp

Search(ids) ==
    /\ Input /\ filter' = ids /\ UNCHANGED apps
    /\ RebuildList(status)
    /\ UNCHANGED <<disk, question, stale, proc, changes>>

OnAppSelected(id) ==
    /\ Input /\ id \in DOMAIN apps \intersect filter /\ UNCHANGED apps
    /\ Select(id)
    /\ UNCHANGED <<disk, filter, question, stale, proc, changes>>

\* The button may be enabled for an application that is no Flatpak: after a failure.
PressUninstall ==
    /\ Input /\ canUninstall /\ selected \in DOMAIN apps
    /\ IF apps[selected] \in Flatpaks
       THEN question' = selected /\ stale' = FALSE /\ UNCHANGED status
       ELSE status' = "refused" /\ UNCHANGED <<question, stale>>
    /\ UNCHANGED <<disk, apps, filter, selected, canUninstall, proc, changes>>

No ==
    /\ question # NoApp /\ question' = NoApp
    /\ UNCHANGED <<disk, apps, filter, selected, canUninstall, stale, proc, status, changes>>

\* A process that runs is not started again: the second removal is never begun.  The
\* application is a reference into apps_: when the list was replaced under the question
\* it may read any application (or end the program, which is left out).
Yes ==
    /\ question # NoApp /\ question' = NoApp
    /\ IF proc # NoApp THEN UNCHANGED proc
       ELSE proc' \in IF stale THEN Range(Ids) ELSE {question}
    /\ canUninstall' = FALSE /\ status' = "removing"
    /\ UNCHANGED <<disk, apps, filter, selected, stale, changes>>

\* flatpak has removed the application wherever it was installed.
FlatpakRemoved ==
    disk' = [f \in {g \in DOMAIN disk : ~(g[1] \in Flatpaks /\ g[2] = proc)} |-> disk[f]]

\* Mutant: the list is read anew and not shown anew.
FinishedUnshown(ok) ==
    /\ proc # NoApp /\ proc' = NoApp
    /\ IF ok THEN /\ FlatpakRemoved
                  /\ apps' = ListInstalled(disk') /\ status' = "removed" /\ stale' = TRUE
                  /\ UNCHANGED <<filter, selected, canUninstall>>
       ELSE /\ status' = "failed" /\ canUninstall' = TRUE
            /\ UNCHANGED <<disk, apps, filter, selected, stale>>
    /\ UNCHANGED <<question, changes>>

\* It was removed, or it was not.
OnUninstallFinished(ok) ==
    /\ proc # NoApp /\ proc' = NoApp
    /\ IF ok
       THEN /\ FlatpakRemoved
            /\ apps' = ListInstalled(disk') /\ UNCHANGED filter
            /\ RebuildList("removed")
            /\ stale' = TRUE
       ELSE /\ status' = "failed" /\ canUninstall' = TRUE
            /\ UNCHANGED <<disk, apps, filter, selected, stale>>
    /\ UNCHANGED <<question, changes>>

\* A process that cannot be started never finishes: the status stays.
FailedToStart ==
    /\ proc # NoApp /\ proc' = NoApp
    /\ UNCHANGED <<disk, apps, filter, selected, canUninstall, question, stale, status, changes>>

\* Others install and remove; the window does not look again.
Install(dir, id, shown) ==
    /\ changes < MaxChanges /\ changes' = changes + 1
    /\ disk' = [f \in DOMAIN disk \union {<<dir, id>>} |->
                    IF f = <<dir, id>> THEN shown ELSE disk[f]]
    /\ UNCHANGED <<apps, filter, selected, canUninstall, question, stale, proc, status>>

Next ==
    \/ \E ids \in SUBSET Range(Ids) : Search(ids)
    \/ \E id \in Range(Ids) : OnAppSelected(id)
    \/ PressUninstall \/ No \/ Yes \/ FailedToStart
    \/ \E ok \in BOOLEAN : OnUninstallFinished(ok)
    \/ \E n \in DOMAIN Dirs, id \in Range(Ids), shown \in BOOLEAN : Install(Dirs[n], id, shown)

Spec == Init /\ [][Next]_storeVars

-----------------------------------------------------------------------------
\* Through searches and removals that end at any moment, also under a question: an
\* application of the list is selected whenever the list has one; the button offers a
\* removal only of a Flatpak that is selected, but for what a failed removal leaves
\* (storewindow.cpp:269); and a question is about the one that is selected, a Flatpak,
\* until the list is replaced under it.  What Yes removes then is not promised: the code
\* reads a reference into the list that is gone (storewindow.cpp:251).
SelectedIsListed ==
    LET list == DOMAIN apps \intersect filter
    IN  /\ IF list = {} THEN selected = NoApp ELSE selected \in list
        /\ canUninstall /\ status \notin {"failed", "refused"} =>
               selected # NoApp /\ apps[selected] \in Flatpaks
        /\ question # NoApp /\ ~stale =>
               question = selected /\ apps[selected] \in Flatpaks
=============================================================================
