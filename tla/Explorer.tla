-------------------------------- MODULE Explorer --------------------------------
(***************************************************************************)
(* Where a window of the file manager is: the folder it shows, the folders *)
(* that Back and Forward go to, and what its address bar and its buttons   *)
(* say (ExplorerWindow).  Folders come and go under it.  The operations on *)
(* files are in Files.                                                     *)
(***************************************************************************)
EXTENDS Sequences, SequencesExt, Integers, FiniteSets

CONSTANTS
    Folders,       \* folders by their canonical paths
    Parent,        \* the folder that holds each; the root's is itself
    Home,          \* where a window begins
    File,          \* a path that is no folder
    MaxHistory     \* bound on the folders that Back and Forward remember

VARIABLES
    dirs,          \* the folders there are
    current,       \* currentDir_
    back,          \* backStack_
    forward,       \* fwdStack_
    address,       \* the text of addressBar_
    buttons        \* whether the buttons Back and Forward are enabled

explorerVars == <<dirs, current, back, forward, address, buttons>>

\* p is q or a folder in it: it is met on the way up from p.
Within(p, q) ==
    LET up[n \in Nat] == IF n = 0 THEN p ELSE Parent[up[n - 1]]
    IN \E n \in 0 .. Cardinality(Folders) : up[n] = q

Init ==
    /\ dirs = Folders /\ current = Home /\ back = <<>> /\ forward = <<>>
    /\ address = Home /\ buttons = [back |-> FALSE, forward |-> FALSE]

-----------------------------------------------------------------------------

\* updateNavState
Enabled(b, f) == [back |-> b # <<>>, forward |-> f # <<>>]

\* navigateTo from outside Back and Forward; nothing happens when p is no folder.
NavigateTo(p) ==
    IF p \notin dirs THEN UNCHANGED <<current, back, forward, address, buttons>>
    ELSE /\ IF p = current THEN UNCHANGED <<back, forward>>
            ELSE back' = Append(back, current) /\ forward' = <<>>
         /\ current' = p /\ address' = p
         /\ buttons' = Enabled(back', forward')

\* A click in the tree, a folder opened in the view, or another start of the
\* program with a path.
Visit(p) == NavigateTo(p) /\ Len(back') <= MaxHistory /\ UNCHANGED dirs

\* Return in the address bar: files open elsewhere, and a wrong path stays there.
AddressEntered(p) ==
    IF p \in dirs THEN Visit(p)
    ELSE address' = p /\ UNCHANGED <<dirs, current, back, forward, buttons>>

\* Return without typing: the bar may show another folder than the window.
AddressReturned == AddressEntered(address)

GoUp == Parent[current] # current /\ Visit(Parent[current])

\* The navigation of Back and Forward, once the stacks are changed: the bar keeps
\* its text, and the buttons are only updated when the folder is there.
Arrive(target) ==
    IF target \notin dirs THEN UNCHANGED <<current, address, buttons>>
    ELSE current' = target /\ buttons' = Enabled(back', forward') /\ UNCHANGED address

\* Mutant of GoBack: the navigation is recorded like any other.
GoBackAnew ==
    /\ back # <<>>
    /\ IF Last(back) \notin dirs
       THEN /\ back' = Front(back) /\ forward' = Append(forward, current)
            /\ UNCHANGED <<current, address, buttons>>
       ELSE /\ back' = Append(Front(back), current) /\ forward' = <<>>
            /\ current' = Last(back) /\ address' = Last(back)
            /\ buttons' = Enabled(back', forward')
    /\ UNCHANGED dirs

\* The button, which may be out of date, or Alt+Left, which does not look at it.
GoBack ==
    /\ back # <<>>
    /\ back' = Front(back)
    /\ forward' = Append(forward, current)
    /\ Arrive(Last(back))
    /\ UNCHANGED dirs

GoForward ==
    /\ forward # <<>>
    /\ forward' = Front(forward)
    /\ back' = Append(back, current)
    /\ Arrive(Last(forward))
    /\ UNCHANGED dirs

Refresh == NavigateTo(current) /\ UNCHANGED dirs

\* mkpath: p and every folder on the way to it.
Made(p) == dirs' = dirs \union {q \in Folders : Within(p, q)}

\* newFolder and paste make the window's own folder again if it is gone, and the window
\* is refreshed.  (A folder that is pasted comes as NewFolder makes one.)
Shown == current' = current /\ address' = current /\ buttons' = Enabled(back, forward)

NewFolder(p) ==
    /\ Parent[p] = current /\ p \notin dirs
    /\ Made(p) /\ Shown /\ UNCHANGED <<back, forward>>

Paste == Made(current) /\ Shown /\ UNCHANGED <<back, forward>>

\* deleteSelected.
Delete(p) ==
    /\ p \in dirs /\ Parent[p] = current /\ p # current
    /\ dirs' = {d \in dirs : ~Within(d, p)}
    /\ Shown /\ UNCHANGED <<back, forward>>

\* Another program takes a folder away with all in it, or brings one back.
Removed(p) ==
    /\ p \in dirs /\ Parent[p] # p
    /\ dirs' = {d \in dirs : ~Within(d, p)}
    /\ UNCHANGED <<current, back, forward, address, buttons>>

Returned(p) ==
    /\ p \notin dirs /\ Parent[p] \in dirs
    /\ dirs' = dirs \union {p}
    /\ UNCHANGED <<current, back, forward, address, buttons>>

Next ==
    \/ GoBack \/ GoForward \/ GoUp \/ Refresh \/ AddressReturned \/ Paste
    \/ \E p \in Folders : \/ Visit(p) \/ NewFolder(p) \/ Delete(p)
                          \/ Removed(p) \/ Returned(p)
    \/ \E p \in Folders \union {File} : AddressEntered(p)

Spec == Init /\ [][Next]_explorerVars

-----------------------------------------------------------------------------

\* The folders of the history in the order of Back and Forward, with this one.
Visited == back \o <<current>> \o Reverse(forward)

\* Going back and forward moves along one list of folders and never rewrites it,
\* except for entries whose folder is gone; a new folder is put after this one and
\* only drops what Forward led to (navigateTo, goBack, goForward).
HistoryIsKept ==
    [][ \/ back' = Append(back, current) /\ forward' = <<>>
        \/ /\ Len(Visited') = Len(Visited)
           /\ \A i \in DOMAIN Visited : Visited'[i] = Visited[i] \/ Visited[i] \notin dirs
      ]_explorerVars
=============================================================================
