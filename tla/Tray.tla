-------------------------------- MODULE Tray --------------------------------
(***************************************************************************)
(* The system tray: the watcher service with which programs register tray  *)
(* items over D-Bus (SniWatcher), the icons that the task bar shows for    *)
(* them (TrayArea, TrayIcon), and the message bus that reports programs    *)
(* that end.  The bus delivers messages in the order it got them.          *)
(***************************************************************************)
EXTENDS Integers, Sequences

CONSTANTS
    Programs,      \* programs with tray items
    Paths,         \* object paths of items
    MaxInbox       \* bound on undelivered messages

\* The three ways to name an item: by its path alone, to which the watcher adds
\* the caller's unique name, by a well-known name and a path, or by a name alone.
Ways  == {"unique", "named", "bare"}
Items == [program : Programs, way : {"unique"}, path : Paths]
         \union [program : Programs, way : Ways, path : {1}]

VARIABLES
    watching,      \* SniWatcher::registered_: no other watcher had the name
    running,       \* programs on the bus
    drawing,       \* programs whose items have an icon to show
    inbox,         \* messages to the shell, oldest first
    items,         \* SniWatcher::items_, as a set
    icons          \* TrayArea::icons_, each shown or hidden

trayVars == <<watching, running, drawing, inbox, items, icons>>

Send(msgs) == Len(inbox) + Len(msgs) <= MaxInbox /\ inbox' = inbox \o msgs

Init ==
    /\ watching \in BOOLEAN
    /\ running = Programs /\ drawing = {}
    /\ inbox = <<>> /\ items = {} /\ icons = [i \in {} |-> FALSE]

\* Programs.

Register(i) ==
    /\ watching /\ i.program \in running
    /\ Send(<<[op |-> "register", item |-> i]>>)
    /\ UNCHANGED <<watching, running, drawing, items, icons>>

\* The item's PropertiesChanged.
Redraw(p) ==
    /\ p \in running
    /\ drawing' = (drawing \union {p}) \ (drawing \intersect {p})
    /\ Send(<<[op |-> "changed", program |-> p]>>)
    /\ UNCHANGED <<watching, running, items, icons>>

\* Both names of the program lose their owner.
Exit(p) ==
    /\ p \in running
    /\ running' = running \ {p} /\ drawing' = drawing \ {p}
    /\ Send(<<[op |-> "gone", program |-> p, way |-> "named"],
              [op |-> "gone", program |-> p, way |-> "unique"]>>)
    /\ UNCHANGED <<watching, items, icons>>

-----------------------------------------------------------------------------
(* The shell, one message at a time.                                       *)

\* An item named without a path gets no interface: its icon stays as it was made.
Refreshed(i, was) == IF i.way = "bare" THEN was ELSE i.program \in drawing

RegisterItem(i) ==
    IF i \in items THEN UNCHANGED <<items, icons>>
    ELSE /\ items' = items \union {i}
         /\ icons' = IF i \in DOMAIN icons THEN icons
                     ELSE [j \in DOMAIN icons \union {i} |->
                             IF j = i THEN Refreshed(i, TRUE) ELSE icons[j]]

\* Mutant of NameOwnerChanged: only the first item of the name is removed.
NameOwnerChangedOnce(p, way) ==
    LET all  == {i \in items : i.program = p /\ i.way = way}
        gone == IF all = {} THEN {} ELSE {CHOOSE i \in all : TRUE}
    IN /\ items' = items \ gone
       /\ icons' = [i \in DOMAIN icons \ gone |-> icons[i]]

\* onNameOwnerChanged removes the items whose text begins with the name and "/".
NameOwnerChanged(p, way) ==
    LET gone == {i \in items : i.program = p /\ i.way = way}
    IN /\ items' = items \ gone
       /\ icons' = [i \in DOMAIN icons \ gone |-> icons[i]]

RefreshIcons(p) ==
    /\ icons' = [i \in DOMAIN icons |-> IF i.program = p THEN Refreshed(i, icons[i])
                                        ELSE icons[i]]
    /\ UNCHANGED items

Serve ==
    /\ inbox # <<>>
    /\ inbox' = Tail(inbox)
    /\ LET m == Head(inbox)
       IN \/ m.op = "register" /\ RegisterItem(m.item)
          \/ m.op = "gone"     /\ NameOwnerChanged(m.program, m.way)
          \/ m.op = "changed"  /\ RefreshIcons(m.program)
    /\ UNCHANGED <<watching, running, drawing>>

Next ==
    \/ \E i \in Items : Register(i)
    \/ \E p \in Programs : Redraw(p) \/ Exit(p)
    \/ Serve

Spec == Init /\ [][Next]_trayVars

(* Once the shell has handled what the bus told it, every icon stands for  *)
(* a registered item of a program that runs, whatever the order in which   *)
(* programs registered, redrew and ended; an item named without a path is  *)
(* the exception (normalizeItemService, onNameOwnerChanged).               *)
TrayIsCurrent ==
    /\ DOMAIN icons = items
    /\ inbox = <<>> => \A i \in DOMAIN icons : i.program \in running \/ i.way = "bare"
=============================================================================
