------------------------------ MODULE DefaultApps ------------------------------
(***************************************************************************)
(* The programs that open a kind of file (DefaultApps): the lines of       *)
(* mimeapps.list, and the two windows that change them, the default        *)
(* programs page of the settings and the programs dialog of the control    *)
(* panel.  Both load the list, change the types of one kind and write the  *)
(* list anew, kind after kind, and any other program may write it too.     *)
(***************************************************************************)
EXTENDS Integers, Sequences

CONSTANTS
    Kinds,         \* the kinds shown, in order: a sequence of names of MimesOf
    Apps,          \* desktop files
    Unset,         \* no program
    MaxChanges     \* bound on what other programs and the user change

VARIABLES
    list,          \* mimeapps.list: its defaults, other sections, and remarks among the defaults
    installed,     \* desktop files in the directories of programs: <<file, directory>>
    pages,         \* the page of the settings, and the dialog of the control panel
    changes

defaultVars == <<list, installed, pages, changes>>

Settings == "settings"
Control  == "control"
KindSet  == {Kinds[i] : i \in DOMAIN Kinds}

\* The viewer's other image formats and PDF are like "image/png".
MimesOf == [browser     |-> <<"http", "https">>, mail   |-> <<"mailto">>,
            filemanager |-> <<"directory">>,     viewer |-> <<"image/png", "text/plain">>]
Types(kind) == {MimesOf[kind][i] : i \in DOMAIN MimesOf[kind]}
Mimes == UNION {Types(k) : k \in KindSet} \union {"text/html"}

\* An association is a list of programs, of which the first is the default.
Associations == {<<a>> : a \in Apps} \union {<<a, b>> : a, b \in Apps}
NoDefaults == [m \in {} |-> <<Unset>>]
Load(l) == [m \in DOMAIN l.defaults |-> <<Head(l.defaults[m])>>]

\* The old sections go with the remarks in them; the other lines are read again.
Saved(l, defaults) == [defaults |-> defaults, others |-> l.others, remarks |-> FALSE]

CurrentDefault(l, kind) ==
    LET set == {i \in DOMAIN MimesOf[kind] : MimesOf[kind][i] \in DOMAIN l.defaults}
    IN  IF set = {} THEN Unset
        ELSE Head(l.defaults[MimesOf[kind][CHOOSE i \in set : \A j \in set : i <= j]])

\* A file in both directories is listed once, as the first directory has it.
ListApplications ==
    [a \in {d[1] : d \in installed} |->
        IF <<a, "system">> \in installed THEN "system" ELSE "user"]

\* Only a program that is listed can be shown.
Shown(l, kind) ==
    LET app == CurrentDefault(l, kind)
    IN  IF app \in DOMAIN ListApplications THEN app ELSE Unset

Closed == [up |-> FALSE, apps |-> [a \in {} |-> "system"], combo |-> [k \in KindSet |-> Unset],
           todo |-> <<>>, loaded |-> NoDefaults, reading |-> FALSE, closing |-> FALSE,
           status |-> "none", alone |-> FALSE, before |-> NoDefaults]
Opened == [Closed EXCEPT !.up = TRUE, !.apps = ListApplications,
                         !.combo = [k \in KindSet |-> Shown(list, k)],
                         !.status = "scanned"]

\* One of the types of the browser and another one have a default already.
FirstLists ==
    {[defaults |-> [m \in {"http", "text/html"} |-> <<a, b>>], others |-> 0, remarks |-> TRUE] :
        a, b \in Apps}

Init ==
    /\ installed = Apps \X {"system", "user"} /\ list \in FirstLists
    /\ pages = [p \in {Settings, Control} |-> IF p = Settings THEN Opened ELSE Closed]
    /\ changes = 0

Change == changes < MaxChanges /\ changes' = changes + 1

Doubted(page) == [page EXCEPT !.alone = FALSE, !.before = NoDefaults]

\* History: what a page applied no longer has to stand once another wrote the list.
Intruded(except) ==
    [p \in DOMAIN pages |-> IF p = except THEN pages[p] ELSE Doubted(pages[p])]

-----------------------------------------------------------------------------
(* Other programs.                                                         *)

Associate(m, s) ==
    /\ Change /\ m \in Mimes
    /\ list' = [list EXCEPT !.defaults = [x \in DOMAIN @ \union {m} |-> IF x = m THEN s ELSE @[x]]]
    /\ pages' = Intruded("other")
    /\ UNCHANGED installed

AddAssociation ==
    /\ Change /\ list' = [list EXCEPT !.others = @ + 1]
    /\ UNCHANGED <<installed, pages>>

Uninstall(a, dir) ==
    /\ Change /\ <<a, dir>> \in installed
    /\ installed' = installed \ {<<a, dir>>}
    /\ UNCHANGED <<list, pages>>

-----------------------------------------------------------------------------
(* The pages.                                                              *)

Idle(p) == pages[p].up /\ pages[p].todo = <<>>

OpenDialog ==
    /\ ~pages[Control].up
    /\ pages' = [pages EXCEPT ![Control] = Opened]
    /\ UNCHANGED <<list, installed, changes>>

Cancel ==
    /\ Idle(Control)
    /\ pages' = [pages EXCEPT ![Control] = Closed]
    /\ UNCHANGED <<list, installed, changes>>

Choose(p, kind, a) ==
    /\ Idle(p) /\ Change /\ kind \in KindSet
    /\ a \in DOMAIN pages[p].apps \union {Unset} /\ a # pages[p].combo[kind]
    /\ pages' = [pages EXCEPT ![p] = [Doubted(@) EXCEPT !.combo[kind] = a]]
    /\ UNCHANGED <<list, installed>>

\* Apply, or OK, which also closes the dialog when everything was written.
Apply(p, close) ==
    /\ Idle(p) /\ (close => p = Control)
    /\ pages' = [pages EXCEPT ![p].todo = Kinds, ![p].closing = close, ![p].reading = TRUE,
                              ![p].alone = TRUE, ![p].before = Load(list)]
    /\ UNCHANGED <<list, installed, changes>>

LoadKind(p) ==
    /\ pages[p].todo # <<>> /\ pages[p].reading
    /\ pages' = [pages EXCEPT ![p].loaded = Load(list), ![p].reading = FALSE]
    /\ UNCHANGED <<list, installed, changes>>

\* Mutant of SetDefault: only the first type of the kind gets the program.
SetDefaultPrimary(defaults, kind, a) ==
    IF a = Unset THEN [m \in DOMAIN defaults \ Types(kind) |-> defaults[m]]
    ELSE [m \in DOMAIN defaults \union {MimesOf[kind][1]} |->
            IF m = MimesOf[kind][1] THEN <<a>> ELSE defaults[m]]

SetDefault(defaults, kind, a) ==
    IF a = Unset THEN [m \in DOMAIN defaults \ Types(kind) |-> defaults[m]]
    ELSE [m \in DOMAIN defaults \union Types(kind) |->
            IF m \in Types(kind) THEN <<a>> ELSE defaults[m]]

\* The list is replaced as a whole, or the write fails and ends the run over the kinds.
SaveKind(p) ==
    /\ pages[p].todo # <<>> /\ ~pages[p].reading
    /\ LET kind == Head(pages[p].todo)
           rest == Tail(pages[p].todo)
           done == [pages[p] EXCEPT !.todo = rest, !.loaded = NoDefaults, !.reading = rest # <<>>,
                                    !.status = IF rest = <<>> THEN "applied" ELSE @]
       IN  \/ /\ list' = Saved(list, SetDefault(pages[p].loaded, kind, pages[p].combo[kind]))
              /\ pages' = [Intruded(p) EXCEPT ![p] =
                              IF rest = <<>> /\ done.closing THEN Closed ELSE done]
           \/ /\ pages' = [pages EXCEPT ![p] = [Doubted(@) EXCEPT !.todo = <<>>,
                                        !.loaded = NoDefaults, !.status = "failed"]]
              /\ UNCHANGED list
    /\ UNCHANGED <<installed, changes>>

Next ==
    \/ \E m \in Mimes, s \in Associations : Associate(m, s)
    \/ AddAssociation
    \/ \E a \in Apps, dir \in {"system", "user"} : Uninstall(a, dir)
    \/ OpenDialog \/ Cancel
    \/ \E p \in DOMAIN pages : \/ \E kind \in KindSet, a \in Apps \union {Unset} : Choose(p, kind, a)
                               \/ \E close \in BOOLEAN : Apply(p, close)
                               \/ LoadKind(p) \/ SaveKind(p)

Spec == Init /\ [][Next]_defaultVars

-----------------------------------------------------------------------------
Opens(defaults, m) == IF m \in DOMAIN defaults THEN Head(defaults[m]) ELSE Unset

\* When a page says that its choices are applied, and nobody else wrote the list
\* since it began to write them, each type of each kind it shows opens with the
\* program chosen for the kind (all of them: an address of http and one of https
\* with the same browser), a kind left unset has no program, and a type of no
\* kind, as HTML files are, opens with what it opened with before.  Each kind is
\* loaded and saved on its own, so a later kind must not undo an earlier one.
AppliedIsWhole ==
    \A p \in DOMAIN pages :
        pages[p].status = "applied" /\ pages[p].alone /\ pages[p].todo = <<>> =>
            /\ \A k \in KindSet : \A m \in Types(k) : Opens(list.defaults, m) = pages[p].combo[k]
            /\ \A m \in Mimes \ UNION {Types(k) : k \in KindSet} :
                    Opens(list.defaults, m) = Opens(pages[p].before, m)
=============================================================================
