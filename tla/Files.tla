------------------------------- MODULE Files --------------------------------
(***************************************************************************)
(* The file manager w10explorer (FileOps, ExplorerWindow) and the trash    *)
(* window w10trash (TrashStore, TrashWindow), two processes on one trash   *)
(* directory.  Each job is a sequence of system calls that may fail, and   *)
(* a process may end between two of them.                                  *)
(*                                                                         *)
(* A name is <<base, number>>, number 1 standing for the name without a    *)
(* number; a place is <<directory, name>>.  QFile::rename and QFile::copy  *)
(* never overwrite.                                                        *)
(***************************************************************************)
EXTENDS Integers, Sequences, SequencesExt, FiniteSets, FiniteSetsExt

CONSTANTS
    Dirs, Bases,   \* the user's directories, base names of files
    Copies,        \* numbers a name may get
    AtFirst,       \* the files: places
    MaxJobs,       \* bound on the user's commands
    Partial        \* what a failed copy of a directory leaves

Names  == Bases \X Copies
Places == Dirs \X Names
Idle   == [op |-> "idle"]

VARIABLES
    home,          \* the user's files: [place -> contents]; contents are known by their first place
    trash,         \* Trash/files: [name -> <<contents, place it came from>>]
    info,          \* Trash/info/<name>.trashinfo: [name -> <<place it is for, it says so>>]
    tmp,           \* Trash/info/<name>.trashinfo.tmp
    clip,          \* the clipboard: a sequence of places
    cut,           \* g_mode = Move
    explorer,      \* what w10explorer is doing
    bin,           \* what w10trash is doing
    reported,      \* names moveToTrash has returned true for (history)
    purged,        \* contents the user had deleted for good (history)
    jobs,          \* commands so far
    bare           \* an entry was deleted that had no info file (history)

fileVars == <<home, trash, info, tmp, clip, cut, explorer, bin, reported, purged, jobs, bare>>

Without(f, k) == [x \in DOMAIN f \ {k} |-> f[x]]
With(f, k, v) == [x \in DOMAIN f \union {k} |-> IF x = k THEN v ELSE f[x]]
Nothing == [x \in {} |-> x]

\* uniqueName, uniqueTrashName, uniqueRestoreName: the first free number,
\* starting with the name as it is.
Free(taken, name) ==
    {n \in Copies : (n = name[2] \/ n > 1) /\ <<name[1], n>> \notin taken}
Unique(taken, name) ==
    IF name \notin taken THEN name ELSE <<name[1], Min(Free(taken, name))>>

InDir(d) == {p[2] : p \in {q \in DOMAIN home : q[1] = d}}

-----------------------------------------------------------------------------
Init ==
    /\ home = [p \in AtFirst |-> p] /\ trash = Nothing /\ info = Nothing /\ tmp = Nothing
    /\ clip = <<>> /\ cut = FALSE /\ explorer = Idle /\ bin = Idle
    /\ reported = {} /\ purged = {} /\ jobs = 0 /\ bare = FALSE

BinFrame == UNCHANGED <<bin, purged, bare>>

(* moveToTrash: the info file under another name, the file, the info file. *)

\* Nobody looks at whether the few bytes of the info file could be written: it may be
\* there without its line Path=.
StartTrash(p) ==
    /\ explorer = Idle /\ p \in DOMAIN home /\ Free(DOMAIN trash, p[2]) # {}
    /\ \E written \in BOOLEAN :
          LET name == Unique(DOMAIN trash, p[2])
          IN /\ tmp' = With(tmp, name, <<p, written>>)
             /\ explorer' = [op |-> "move", from |-> p, name |-> name]
    /\ UNCHANGED <<home, trash, info, clip, cut, reported>> /\ BinFrame

MoveFile ==
    /\ explorer.op = "move"
    /\ \/ explorer.from \in DOMAIN home /\ explorer.name \notin DOMAIN trash
          /\ trash' = With(trash, explorer.name, <<home[explorer.from], explorer.from>>)
          /\ home' = Without(home, explorer.from)
          /\ explorer' = [explorer EXCEPT !.op = "land"] /\ UNCHANGED tmp
       \/ tmp' = Without(tmp, explorer.name) /\ explorer' = Idle /\ UNCHANGED <<home, trash>>
    /\ UNCHANGED <<info, clip, cut, reported>> /\ BinFrame

\* Mutant of CanLand: a rename that overwrites.
CanLandOver(name) == name \in DOMAIN tmp

CanLand(name) == name \in DOMAIN tmp /\ name \notin DOMAIN info

LandInfo ==
    /\ explorer.op = "land"
    /\ \/ CanLand(explorer.name)
          /\ info' = With(info, explorer.name, tmp[explorer.name])
          /\ tmp' = Without(tmp, explorer.name)
          /\ explorer' = Idle
          /\ reported' = IF explorer.name \in DOMAIN trash
                         THEN reported \union {explorer.name} ELSE reported
       \/ explorer' = [explorer EXCEPT !.op = "undo"] /\ UNCHANGED <<info, tmp, reported>>
    /\ UNCHANGED <<home, trash, clip, cut>> /\ BinFrame

\* The file goes back if its place is still free.
UndoTrash ==
    /\ explorer.op = "undo"
    /\ \/ explorer.name \in DOMAIN trash /\ explorer.from \notin DOMAIN home
          /\ home' = With(home, explorer.from, trash[explorer.name][1])
          /\ trash' = Without(trash, explorer.name)
       \/ UNCHANGED <<home, trash>>
    /\ tmp' = Without(tmp, explorer.name) /\ explorer' = Idle
    /\ UNCHANGED <<info, clip, cut, reported>> /\ BinFrame

(* Cut, copy and paste.                                                    *)

SetClipboard(places, mode) ==
    /\ explorer = Idle /\ ToSet(places) \subseteq DOMAIN home
    /\ clip' = places /\ cut' = mode
    /\ UNCHANGED <<home, trash, info, tmp, explorer, reported>> /\ BinFrame

\* Another program's copy says nothing of g_mode, which is this process's.
OtherCopies(places) ==
    /\ ToSet(places) \subseteq DOMAIN home /\ clip' = places
    /\ UNCHANGED <<home, trash, info, tmp, cut, explorer, reported>> /\ BinFrame

StartPaste(d) ==
    /\ explorer = Idle /\ clip # <<>>
    /\ explorer' = [op |-> "paste", left |-> clip, to |-> d, cut |-> cut]
    /\ UNCHANGED <<home, trash, info, tmp, clip, cut, reported>> /\ BinFrame

NextItem == [explorer EXCEPT !.left = Tail(@)]

\* copyRecursive, whole or failing on the way.
Copied(src, dst) ==
    \/ home' = With(home, dst, home[src]) /\ explorer' = NextItem
    \/ explorer' = NextItem /\ (UNCHANGED home \/ home' = With(home, dst, Partial))

\* Mutant of CopiedAndRemoved: the source goes though the copy failed.
CopiedAndRemovedAnyway(src, dst) ==
    \E what \in {home[src], Partial} :
        home' = With(home, dst, what) /\ explorer' = [explorer EXCEPT !.op = "remove"]

\* A move whose rename fails copies, and removes the source when that went well.
CopiedAndRemoved(src, dst) ==
    \/ home' = With(home, dst, home[src]) /\ explorer' = [explorer EXCEPT !.op = "remove"]
    \/ explorer' = NextItem /\ (UNCHANGED home \/ home' = With(home, dst, Partial))

PasteItem ==
    /\ explorer.op = "paste" /\ explorer.left # <<>>
    /\ LET src == Head(explorer.left)
           dst == <<explorer.to, Unique(InDir(explorer.to), src[2])>>
       IN IF src \notin DOMAIN home THEN explorer' = NextItem /\ UNCHANGED home
          ELSE /\ Free(InDir(explorer.to), src[2]) # {}
               /\ IF ~explorer.cut THEN Copied(src, dst)
                  ELSE \/ home' = With(Without(home, src), dst, home[src]) /\ explorer' = NextItem
                       \/ CopiedAndRemoved(src, dst)
    /\ UNCHANGED <<trash, info, tmp, clip, cut, reported>> /\ BinFrame

RemoveSource ==
    /\ explorer.op = "remove"
    /\ home' \in {home, Without(home, Head(explorer.left))}
    /\ explorer' = [NextItem EXCEPT !.op = "paste"]
    /\ UNCHANGED <<trash, info, tmp, clip, cut, reported>> /\ BinFrame

PasteDone ==
    /\ explorer.op = "paste" /\ explorer.left = <<>> /\ explorer' = Idle
    /\ IF explorer.cut THEN clip' = <<>> /\ cut' = FALSE ELSE UNCHANGED <<clip, cut>>
    /\ UNCHANGED <<home, trash, info, tmp, reported>> /\ BinFrame

ExplorerEnds ==
    /\ explorer # Idle /\ explorer' = Idle /\ cut' = FALSE
    /\ UNCHANGED <<home, trash, info, tmp, clip, reported>> /\ BinFrame

-----------------------------------------------------------------------------
(* The trash window.                                                       *)

ExplorerFrame == UNCHANGED <<tmp, clip, cut, explorer>>

\* restore: to the place the info file names, under a free name; nothing happens
\* when it names none.
StartRestore(name) ==
    /\ bin = Idle /\ name \in DOMAIN trash /\ name \in DOMAIN info /\ info[name][2]
    /\ LET to == info[name][1]
       IN /\ Free(InDir(to[1]), to[2]) # {}
          /\ bin' = [op |-> "restore", name |-> name,
                     to |-> <<to[1], Unique(InDir(to[1]), to[2])>>]
    /\ UNCHANGED <<home, trash, info, reported, purged, bare>> /\ ExplorerFrame

MoveBack ==
    /\ bin.op = "restore"
    /\ \/ /\ bin.name \in DOMAIN trash /\ bin.to \notin DOMAIN home
          /\ home' = With(home, bin.to, trash[bin.name][1])
          /\ trash' = Without(trash, bin.name) /\ reported' = reported \ {bin.name}
          /\ bin' = [op |-> "forget", name |-> bin.name, left |-> {}]
       \/ bin' = Idle /\ UNCHANGED <<home, trash, reported>>
    /\ UNCHANGED <<info, purged, bare>> /\ ExplorerFrame

\* permanentDelete of one entry, and empty, which deletes each and then the
\* info files without a file.
Deletes(name) ==
    /\ trash' = Without(trash, name) /\ reported' = reported \ {name}
    /\ purged' = purged \union {trash[name][1]}
    /\ bare' = (bare \/ name \notin DOMAIN info)

StartDelete(name) ==
    /\ bin = Idle /\ name \in DOMAIN trash /\ Deletes(name)
    /\ bin' = [op |-> "forget", name |-> name, left |-> {}]
    /\ UNCHANGED <<home, info>> /\ ExplorerFrame

StartEmpty ==
    /\ bin = Idle /\ DOMAIN trash # {}
    /\ bin' = [op |-> "empty", left |-> DOMAIN trash]
    /\ UNCHANGED <<home, trash, info, reported, purged, bare>> /\ ExplorerFrame

EmptyOne ==
    /\ bin.op = "empty"
    /\ \/ \E name \in bin.left \intersect DOMAIN trash :
             /\ Deletes(name)
             /\ bin' = [op |-> "forget", name |-> name, left |-> bin.left \ {name}]
       \/ \E name \in bin.left :
             /\ bin' = [bin EXCEPT !.left = @ \ {name}]
             /\ UNCHANGED <<trash, reported, purged, bare>>
       \/ bin.left = {} /\ bin' = [op |-> "orphans", left |-> DOMAIN info]
          /\ UNCHANGED <<trash, reported, purged, bare>>
    /\ UNCHANGED <<home, info>> /\ ExplorerFrame

\* The info file of an entry that is gone.
ForgetEntry ==
    /\ bin.op = "forget" /\ info' = Without(info, bin.name)
    /\ bin' = IF bin.left = {} THEN Idle ELSE [op |-> "empty", left |-> bin.left]
    /\ UNCHANGED <<home, trash, reported, purged, bare>> /\ ExplorerFrame

\* An info file is looked at, and removed a moment later.
Orphan ==
    /\ \/ /\ bin.op = "orphans"
          /\ bin' = IF bin.left = {} THEN Idle
                    ELSE LET name == CHOOSE n \in bin.left : TRUE
                         IN [op |-> IF name \in DOMAIN trash THEN "orphans" ELSE "orphan",
                             name |-> name, left |-> bin.left \ {name}]
          /\ UNCHANGED info
       \/ /\ bin.op = "orphan" /\ info' = Without(info, bin.name)
          /\ bin' = [bin EXCEPT !.op = "orphans"]
    /\ UNCHANGED <<home, trash, reported, purged, bare>> /\ ExplorerFrame

BinEnds ==
    /\ bin # Idle /\ bin' = Idle
    /\ UNCHANGED <<home, trash, info, reported, purged, bare>> /\ ExplorerFrame

Selections == {<<p>> : p \in Places} \union {<<p, q>> : p, q \in AtFirst}

Command ==
    /\ jobs < MaxJobs /\ jobs' = jobs + 1
    /\ \/ \E p \in DOMAIN home : StartTrash(p)
       \/ \E s \in Selections : OtherCopies(s) \/ \E mode \in BOOLEAN : SetClipboard(s, mode)
       \/ \E d \in Dirs : StartPaste(d)
       \/ \E n \in DOMAIN trash : StartRestore(n) \/ StartDelete(n)
       \/ StartEmpty

Work ==
    /\ \/ MoveFile \/ LandInfo \/ UndoTrash \/ PasteItem \/ RemoveSource \/ PasteDone
       \/ MoveBack \/ EmptyOne \/ ForgetEntry \/ Orphan \/ ExplorerEnds \/ BinEnds
    /\ UNCHANGED jobs

Next == Command \/ Work

Spec == Init /\ [][Next]_fileVars

-----------------------------------------------------------------------------
(* What moveToTrash has reported as done has the info file that was        *)
(* written for it and for nothing else, so that it goes back to where it   *)
(* was if that write was not lost; also when the trash is being emptied    *)
(* of, or a restore has left behind, an info file of that name.  (Deleting *)
(* an entry that has none takes the info file of the next one of that      *)
(* name, should it come in between.)                                       *)
TrashedIsRestorable ==
    ~bare => \A n \in reported : n \in DOMAIN info /\ info[n][1] = trash[n][2]

\* Whatever call fails and wherever a process ends, a file's contents are
\* somewhere until the user deletes them for good.
NothingIsLost ==
    \A p \in AtFirst \ purged :
        \/ \E q \in DOMAIN home : home[q] = p
        \/ \E n \in DOMAIN trash : trash[n][1] = p

\* Both: what two processes on one trash directory do to each other's files.
FilesAreSafe == TrashedIsRestorable /\ NothingIsLost
=============================================================================
