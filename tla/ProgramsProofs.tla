--------------------------- MODULE ProgramsProofs ---------------------------
(***************************************************************************)
(* Proofs about the programs over files: files and trash, search, file     *)
(* manager, documents and viewer, and about the calculator, each for every *)
(* value of its constants that the assumptions of Programs allow.          *)
(***************************************************************************)
EXTENDS Programs, ListTheorems, TLAPS, SequenceTheorems, FiniteSetTheorems

-----------------------------------------------------------------------------
(* Files: any directories, names, number of files and of commands,         *)
(* whichever call fails, whenever either process ends, and however the     *)
(* steps of the two interleave.                                            *)

\* Steps of the composition are steps of the two processes.
LEMMA FilesAlone ==
    ASSUME [Next]_vars
    PROVE  [FileOps!Next]_filesVars
BY DEF Next, vars, TasksStep, FilesStep, SearchStep, CalendarStep, TerminalStep, DocumentsStep,
       ExplorerStep, ClockStep, AppsStep, SystemStep, NetworkStep, RemoteStep, ShotStep,
       ViewerStep, StoreStep, KeyboardStep, CalcStep, Alone

\* What each process has noted for itself, by what it is doing.
ExplorerShape ==
    \/ explorer = FileOps!Idle
    \/ /\ explorer.op \in {"move", "land", "undo"}
       /\ explorer = [op |-> explorer.op, from |-> explorer.from, name |-> explorer.name]
    \/ /\ explorer.op \in {"paste", "remove"}
       /\ explorer = [op |-> explorer.op, left |-> explorer.left, to |-> explorer.to,
                      cut |-> explorer.cut]
BinShape ==
    \/ bin = FileOps!Idle
    \/ bin.op = "restore" /\ bin = [op |-> bin.op, name |-> bin.name, to |-> bin.to]
    \/ bin.op \in {"empty", "orphans"} /\ bin = [op |-> bin.op, left |-> bin.left]
    \/ /\ bin.op \in {"forget", "orphans", "orphan"}
       /\ bin = [op |-> bin.op, name |-> bin.name, left |-> bin.left]

\* A file on its way to the trash: its info file waits under the other name, and nobody
\* was told yet.
Taking ==
    /\ explorer.op \in {"move", "land"} =>
         explorer.name \in DOMAIN tmp /\ tmp[explorer.name][1] = explorer.from
    /\ explorer.op = "land" /\ explorer.name \in DOMAIN trash =>
         trash[explorer.name][2] = explorer.from
    /\ explorer.op \in {"land", "undo"} => explorer.name \notin reported

\* A source is removed once there is a copy of it.
Copying ==
    explorer.op = "remove" =>
        /\ Head(explorer.left) \in DOMAIN home
        /\ \E q \in DOMAIN home \ {Head(explorer.left)} : home[q] = home[Head(explorer.left)]

\* The info files that are about to be removed exist, which keeps others from landing
\* under their names, and are not those of reported files.
Emptying ==
    /\ bin.op = "restore" => bin.name \in DOMAIN info
    /\ ~bare /\ bin.op \in {"forget", "orphan"} => bin.name \in DOMAIN info \ reported
    /\ bin.op \in {"orphans", "orphan"} => bin.left \subseteq DOMAIN info
    /\ bin.op = "orphan" => bin.name \notin bin.left

NothingLost == reported \subseteq DOMAIN trash /\ FileOps!FilesAreSafe

FilesInv == ExplorerShape /\ BinShape /\ Taking /\ Copying /\ Emptying /\ NothingLost

-----------------------------------------------------------------------------
(* Names.                                                                  *)

\* A free number is found if there is one, and the name with it is not taken.
LEMMA UniqueIsFree ==
    ASSUME NEW taken, NEW name, FileOps!Free(taken, name) # {}
    PROVE  FileOps!Unique(taken, name) \notin taken
<1>1. CASE name \notin taken
  BY <1>1 DEF FileOps!Unique
<1>2. CASE name \in taken
  <2> DEFINE S == FileOps!Free(taken, name)
  <2>1. S \subseteq Nat /\ S # {}
    BY FilesAssumption DEF FilesAssumption, FileOps!Free
  <2>2. \E x \in S : \A y \in S : x <= y
    <3> HIDE DEF S
    <3>1. QED
      BY <2>1, SmallestExists
  <2>3. FileOps!Min(S) \in S
    BY <2>2 DEF FileOps!Min
  <2>4. QED
    BY <1>2, <2>3 DEF FileOps!Unique, FileOps!Free
<1>3. QED
  BY <1>1, <1>2

\* What is not in a directory is not a place in use.
LEMMA NotInDir ==
    ASSUME NEW d, NEW n, n \notin FileOps!InDir(d)
    PROVE  <<d, n>> \notin DOMAIN home
BY DEF FileOps!InDir

-----------------------------------------------------------------------------
(* Moving to the trash.                                                    *)

\* What is somewhere stays somewhere, but for what is deleted for good.
LEMMA StaysSafe ==
    ASSUME NothingLost, reported' \subseteq DOMAIN trash', FileOps!TrashedIsRestorable', purged \subseteq purged',
           \A q \in DOMAIN home :
              \/ \E r \in DOMAIN home' : home'[r] = home[q]
              \/ \E n \in DOMAIN trash' : trash'[n][1] = home[q],
           \A n \in DOMAIN trash :
              \/ \E r \in DOMAIN home' : home'[r] = trash[n][1]
              \/ \E m \in DOMAIN trash' : trash'[m][1] = trash[n][1]
              \/ trash[n][1] \in purged'
    PROVE  NothingLost'
<1>1. FileOps!NothingIsLost'
  <2>1. SUFFICES ASSUME NEW p \in AtFirst \ purged'
        PROVE  \/ \E q \in DOMAIN home' : home'[q] = p
               \/ \E n \in DOMAIN trash' : trash'[n][1] = p
    BY DEF FileOps!NothingIsLost
  <2>2. \/ \E q \in DOMAIN home : home[q] = p
        \/ \E n \in DOMAIN trash : trash[n][1] = p
    BY DEF NothingLost, FileOps!FilesAreSafe, FileOps!NothingIsLost
  <2>3. QED
    BY <2>2
<1>2. QED
  BY <1>1 DEF NothingLost, FileOps!FilesAreSafe

\* The first step writes the info file under its other name.
LEMMA StartTrashKeeps ==
    ASSUME FilesInv, NEW p, FileOps!StartTrash(p)
    PROVE  FilesInv'
<1> DEFINE name == FileOps!Unique(DOMAIN trash, p[2])
<1>1. PICK written \in BOOLEAN :
         /\ explorer = FileOps!Idle /\ tmp' = FileOps!With(tmp, name, <<p, written>>)
         /\ explorer' = [op |-> "move", from |-> p, name |-> name]
         /\ UNCHANGED <<home, trash, info, reported, bin, purged, bare>>
  BY DEF FileOps!StartTrash, FileOps!BinFrame
<1> HIDE DEF name
<1>2. name \in DOMAIN tmp' /\ tmp'[name][1] = p
  BY <1>1 DEF FileOps!With
<1>3. ExplorerShape' /\ Taking' /\ Copying'
  BY <1>1, <1>2 DEF ExplorerShape, Taking, Copying
<1>4. BinShape' /\ Emptying' /\ NothingLost'
  BY <1>1 DEF FilesInv, BinShape, Emptying, NothingLost, FileOps!FilesAreSafe, FileOps!TrashedIsRestorable, FileOps!NothingIsLost
<1>5. QED
  BY <1>3, <1>4 DEF FilesInv

\* The second moves the file, under a name that nothing reported has.
LEMMA MoveFileKeeps ==
    ASSUME FilesInv, FileOps!MoveFile
    PROVE  FilesInv'
<1>1. /\ explorer.op = "move" /\ UNCHANGED <<info, reported, bin, purged, bare>>
  BY DEF FileOps!MoveFile, FileOps!BinFrame
<1>2. /\ explorer = [op |-> "move", from |-> explorer.from, name |-> explorer.name]
      /\ explorer.name \in DOMAIN tmp /\ tmp[explorer.name][1] = explorer.from
  BY <1>1 DEF FilesInv, ExplorerShape, FileOps!Idle, Taking
<1>3. CASE explorer' = FileOps!Idle /\ UNCHANGED <<home, trash>>
  BY <1>1, <1>3 DEF FilesInv, ExplorerShape, BinShape, Taking, Copying, Emptying, FileOps!Idle,
                    NothingLost, FileOps!FilesAreSafe, FileOps!TrashedIsRestorable, FileOps!NothingIsLost
<1>4. CASE /\ explorer.from \in DOMAIN home /\ explorer.name \notin DOMAIN trash
           /\ trash' = FileOps!With(trash, explorer.name, <<home[explorer.from], explorer.from>>)
           /\ home' = FileOps!Without(home, explorer.from)
           /\ explorer' = [explorer EXCEPT !.op = "land"] /\ UNCHANGED tmp
  <2>1. /\ DOMAIN trash' = DOMAIN trash \union {explorer.name}
        /\ trash'[explorer.name] = <<home[explorer.from], explorer.from>>
        /\ \A n \in DOMAIN trash : trash'[n] = trash[n]
    BY <1>4 DEF FileOps!With
  <2>2. /\ DOMAIN home' = DOMAIN home \ {explorer.from}
        /\ \A q \in DOMAIN home \ {explorer.from} : home'[q] = home[q]
    BY <1>4 DEF FileOps!Without
  <2>3. explorer' = [op |-> "land", from |-> explorer.from, name |-> explorer.name]
    BY <1>2, <1>4
  <2>4. explorer.name \notin reported
    BY <1>4 DEF FilesInv, NothingLost
  <2>5. ExplorerShape' /\ Taking' /\ Copying'
    BY <1>1, <1>2, <1>4, <2>1, <2>3, <2>4 DEF ExplorerShape, Taking, Copying
  <2>6. BinShape' /\ Emptying'
    BY <1>1 DEF FilesInv, BinShape, Emptying
  <2>7. FileOps!TrashedIsRestorable' /\ reported' \subseteq DOMAIN trash'
    BY <1>1, <2>1 DEF FilesInv, NothingLost, FileOps!FilesAreSafe, FileOps!TrashedIsRestorable
  <2>8. NothingLost'
    <3>1. \A q \in DOMAIN home :
              \/ \E r \in DOMAIN home' : home'[r] = home[q]
              \/ \E n \in DOMAIN trash' : trash'[n][1] = home[q]
      BY <2>1, <2>2
    <3>2. \A n \in DOMAIN trash : \E m \in DOMAIN trash' : trash'[m][1] = trash[n][1]
      BY <2>1
    <3>3. QED
      BY <1>1, <2>7, <3>1, <3>2, StaysSafe DEF FilesInv
  <2>9. QED
    BY <2>5, <2>6, <2>8 DEF FilesInv
<1>5. QED
  BY <1>3, <1>4 DEF FileOps!MoveFile

\* The third lands the info file, which nothing that is being removed has the name of.
LEMMA LandInfoKeeps ==
    ASSUME FilesInv, FileOps!LandInfo
    PROVE  FilesInv'
<1>1. /\ explorer.op = "land" /\ UNCHANGED <<home, trash, bin, purged, bare>>
  BY DEF FileOps!LandInfo, FileOps!BinFrame
<1>2. /\ explorer = [op |-> "land", from |-> explorer.from, name |-> explorer.name]
      /\ tmp[explorer.name][1] = explorer.from /\ explorer.name \notin reported
      /\ explorer.name \in DOMAIN trash => trash[explorer.name][2] = explorer.from
  BY <1>1 DEF FilesInv, ExplorerShape, FileOps!Idle, Taking
<1>3. CASE explorer' = [explorer EXCEPT !.op = "undo"] /\ UNCHANGED <<info, tmp, reported>>
  <2>1. explorer' = [op |-> "undo", from |-> explorer.from, name |-> explorer.name]
    BY <1>2, <1>3
  <2>2. ExplorerShape' /\ Taking' /\ Copying'
    BY <1>2, <1>3, <2>1 DEF ExplorerShape, Taking, Copying
  <2>3. BinShape' /\ Emptying' /\ NothingLost'
    BY <1>1, <1>3 DEF FilesInv, BinShape, Emptying, NothingLost, FileOps!FilesAreSafe, FileOps!TrashedIsRestorable, FileOps!NothingIsLost
  <2>4. QED
    BY <2>2, <2>3 DEF FilesInv
<1>4. CASE /\ FileOps!CanLand(explorer.name)
           /\ info' = FileOps!With(info, explorer.name, tmp[explorer.name])
           /\ explorer' = FileOps!Idle
           /\ reported' = IF explorer.name \in DOMAIN trash
                          THEN reported \union {explorer.name} ELSE reported
  <2>1. explorer.name \notin DOMAIN info
    BY <1>4 DEF FileOps!CanLand
  <2>2. /\ DOMAIN info' = DOMAIN info \union {explorer.name}
        /\ info'[explorer.name][1] = explorer.from
        /\ \A n \in DOMAIN info : info'[n] = info[n]
    BY <1>2, <1>4, <2>1 DEF FileOps!With
  <2>3. ExplorerShape' /\ Taking' /\ Copying'
    BY <1>4 DEF ExplorerShape, Taking, Copying, FileOps!Idle
  <2>4. BinShape' /\ Emptying'
    BY <1>1, <1>4, <2>1, <2>2 DEF FilesInv, BinShape, Emptying
  <2>5. reported' \subseteq DOMAIN trash' /\ FileOps!TrashedIsRestorable'
    BY <1>1, <1>2, <1>4, <2>2 DEF FilesInv, NothingLost, FileOps!FilesAreSafe, FileOps!TrashedIsRestorable
  <2>6. NothingLost'
    BY <1>1, <2>5 DEF FilesInv, NothingLost, FileOps!FilesAreSafe, FileOps!NothingIsLost
  <2>7. QED
    BY <2>3, <2>4, <2>6 DEF FilesInv
<1>5. QED
  BY <1>3, <1>4 DEF FileOps!LandInfo

\* Or the file goes back.
LEMMA UndoTrashKeeps ==
    ASSUME FilesInv, FileOps!UndoTrash
    PROVE  FilesInv'
<1>1. /\ explorer.op = "undo" /\ explorer' = FileOps!Idle
      /\ UNCHANGED <<info, reported, bin, purged, bare>>
  BY DEF FileOps!UndoTrash, FileOps!BinFrame
<1>2. explorer.name \notin reported
  BY <1>1 DEF FilesInv, Taking
<1>3. ExplorerShape' /\ Taking' /\ Copying' /\ BinShape' /\ Emptying'
  BY <1>1 DEF FilesInv, ExplorerShape, Taking, Copying, BinShape, Emptying, FileOps!Idle
<1>4. CASE UNCHANGED <<home, trash>>
  BY <1>1, <1>3, <1>4 DEF FilesInv, NothingLost, FileOps!FilesAreSafe, FileOps!TrashedIsRestorable, FileOps!NothingIsLost
<1>5. CASE /\ explorer.name \in DOMAIN trash /\ explorer.from \notin DOMAIN home
           /\ home' = FileOps!With(home, explorer.from, trash[explorer.name][1])
           /\ trash' = FileOps!Without(trash, explorer.name)
  <2>1. /\ DOMAIN home' = DOMAIN home \union {explorer.from}
        /\ home'[explorer.from] = trash[explorer.name][1]
        /\ \A q \in DOMAIN home : home'[q] = home[q]
    BY <1>5 DEF FileOps!With
  <2>2. /\ DOMAIN trash' = DOMAIN trash \ {explorer.name}
        /\ \A n \in DOMAIN trash \ {explorer.name} : trash'[n] = trash[n]
    BY <1>5 DEF FileOps!Without
  <2>3. reported' \subseteq DOMAIN trash' /\ FileOps!TrashedIsRestorable'
    BY <1>1, <1>2, <2>2 DEF FilesInv, NothingLost, FileOps!FilesAreSafe, FileOps!TrashedIsRestorable
  <2>4. \A q \in DOMAIN home : \E r \in DOMAIN home' : home'[r] = home[q]
    BY <2>1
  <2>5. \A n \in DOMAIN trash :
          \/ \E r \in DOMAIN home' : home'[r] = trash[n][1]
          \/ \E m \in DOMAIN trash' : trash'[m][1] = trash[n][1]
    BY <2>1, <2>2
  <2>6. NothingLost'
    BY <1>1, <2>3, <2>4, <2>5, StaysSafe DEF FilesInv
  <2>7. QED
    BY <1>3, <2>6 DEF FilesInv
<1>6. QED
  BY <1>4, <1>5 DEF FileOps!UndoTrash

-----------------------------------------------------------------------------
(* Cut, copy and paste.                                                    *)

\* Steps of the file manager that leave the trash alone, and of the files at most add
\* one under a place that is free.
LEMMA AddingKeeps ==
    ASSUME FilesInv, UNCHANGED <<trash, info, reported, bin, purged, bare>>,
           DOMAIN home \subseteq DOMAIN home', \A q \in DOMAIN home : home'[q] = home[q],
           ExplorerShape', Taking', Copying'
    PROVE  FilesInv'
<1>1. reported' \subseteq DOMAIN trash' /\ FileOps!TrashedIsRestorable'
  BY DEF FilesInv, NothingLost, FileOps!FilesAreSafe, FileOps!TrashedIsRestorable
<1>2. \A q \in DOMAIN home : \E r \in DOMAIN home' : home'[r] = home[q]
  OBVIOUS
<1>3. NothingLost'
  BY <1>1, <1>2, StaysSafe DEF FilesInv
<1>4. BinShape' /\ Emptying'
  BY DEF FilesInv, BinShape, Emptying
<1>5. QED
  BY <1>3, <1>4 DEF FilesInv

\* The clipboard, and a paste that begins or ends.
LEMMA ClipboardKeeps ==
    ASSUME FilesInv,
           \/ \E places, how : FileOps!SetClipboard(places, how)
           \/ \E places : FileOps!OtherCopies(places)
           \/ \E d : FileOps!StartPaste(d)
           \/ FileOps!PasteDone
    PROVE  FilesInv'
<1>1. UNCHANGED <<home, trash, info, tmp, reported, bin, purged, bare>>
  BY DEF FileOps!SetClipboard, FileOps!OtherCopies, FileOps!StartPaste, FileOps!PasteDone, FileOps!BinFrame
<1>2. \/ explorer' = explorer \/ explorer' = FileOps!Idle
      \/ \E d : explorer' = [op |-> "paste", left |-> clip, to |-> d, cut |-> cut]
  BY DEF FileOps!SetClipboard, FileOps!OtherCopies, FileOps!StartPaste, FileOps!PasteDone
<1>3. CASE explorer' = explorer
  <2>1. ExplorerShape' /\ Taking' /\ Copying'
    BY <1>1, <1>3 DEF FilesInv, ExplorerShape, Taking, Copying
  <2>2. QED
    BY <1>1, <2>1, AddingKeeps
<1>4. CASE explorer' # explorer
  <2>1. \/ explorer' = [op |-> "idle"]
        \/ \E d : explorer' = [op |-> "paste", left |-> clip, to |-> d, cut |-> cut]
    BY <1>2, <1>4 DEF FileOps!Idle
  <2>2. ExplorerShape' /\ Taking' /\ Copying'
    BY <2>1 DEF ExplorerShape, Taking, Copying, FileOps!Idle
  <2>3. QED
    BY <1>1, <2>2, AddingKeeps
<1>5. QED
  BY <1>3, <1>4

\* Pasting one item: what is added takes no place of another file, and a source that was
\* copied is still there.
LEMMA PasteItemKeeps ==
    ASSUME FilesInv, FileOps!PasteItem
    PROVE  FilesInv'
<1> DEFINE src == Head(explorer.left)
           dst == <<explorer.to, FileOps!Unique(FileOps!InDir(explorer.to), src[2])>>
<1>1. /\ explorer.op = "paste" /\ UNCHANGED <<trash, info, tmp, reported, bin, purged, bare>>
  BY DEF FileOps!PasteItem, FileOps!BinFrame
<1>2. explorer = [op |-> "paste", left |-> explorer.left, to |-> explorer.to, cut |-> explorer.cut]
  BY <1>1 DEF FilesInv, ExplorerShape, FileOps!Idle
<1>3. FileOps!NextItem = [op |-> "paste", left |-> Tail(explorer.left), to |-> explorer.to,
                  cut |-> explorer.cut]
  <2> DEFINE e == [op |-> "paste", left |-> explorer.left, to |-> explorer.to,
                   cut |-> explorer.cut]
  <2>1. FileOps!NextItem = [e EXCEPT !.left = Tail(explorer.left)]
    BY <1>2 DEF FileOps!NextItem
  <2>2. QED
    BY <2>1
<1>4. CASE explorer' = FileOps!NextItem /\ UNCHANGED home
  <2>1. ExplorerShape' /\ Taking' /\ Copying'
    BY <1>3, <1>4 DEF ExplorerShape, Taking, Copying
  <2>2. QED
    BY <1>1, <1>4, <2>1, AddingKeeps
<1>5. CASE src \in DOMAIN home /\ FileOps!Free(FileOps!InDir(explorer.to), src[2]) # {}
           /\ \/ FileOps!Copied(src, dst)
              \/ home' = FileOps!With(FileOps!Without(home, src), dst, home[src]) /\ explorer' = FileOps!NextItem
              \/ FileOps!CopiedAndRemoved(src, dst)
  <2>1. dst \notin DOMAIN home
    BY <1>5, UniqueIsFree, NotInDir
  <2> HIDE DEF dst
  <2>2. CASE \E what : home' = FileOps!With(home, dst, what) /\ explorer' = FileOps!NextItem
    <3>1. ExplorerShape' /\ Taking' /\ Copying'
      BY <1>3, <2>2 DEF ExplorerShape, Taking, Copying
    <3>2. DOMAIN home \subseteq DOMAIN home' /\ \A q \in DOMAIN home : home'[q] = home[q]
      BY <2>1, <2>2 DEF FileOps!With
    <3>3. QED
      BY <1>1, <3>1, <3>2, AddingKeeps
  <2>3. CASE home' = FileOps!With(home, dst, home[src]) /\ explorer' = [explorer EXCEPT !.op = "remove"]
    <3>1. explorer' = [op |-> "remove", left |-> explorer.left, to |-> explorer.to,
                       cut |-> explorer.cut]
      BY <1>2, <2>3
    <3>2. /\ DOMAIN home \subseteq DOMAIN home' /\ \A q \in DOMAIN home : home'[q] = home[q]
          /\ dst \in DOMAIN home' /\ home'[dst] = home[src]
      BY <2>1, <2>3 DEF FileOps!With
    <3>3. ExplorerShape' /\ Taking'
      BY <3>1 DEF ExplorerShape, Taking
    <3>4. Copying'
      <4>1. src \in DOMAIN home' /\ home'[src] = home[src] /\ dst # src /\ Head(explorer'.left) = src
        BY <1>5, <2>1, <3>1, <3>2
      <4>2. QED
        BY <3>2, <4>1 DEF Copying
    <3>5. QED
      BY <1>1, <3>2, <3>3, <3>4, AddingKeeps
  <2>4. CASE home' = FileOps!With(FileOps!Without(home, src), dst, home[src]) /\ explorer' = FileOps!NextItem
    <3>1. /\ DOMAIN home' = (DOMAIN home \ {src}) \union {dst}
          /\ \A q \in DOMAIN home \ {src} : home'[q] = home[q]
          /\ home'[dst] = home[src]
      <4>1. /\ DOMAIN FileOps!Without(home, src) = DOMAIN home \ {src}
            /\ \A q \in DOMAIN home \ {src} : FileOps!Without(home, src)[q] = home[q]
        BY DEF FileOps!Without
      <4>2. /\ DOMAIN home' = DOMAIN FileOps!Without(home, src) \union {dst} /\ home'[dst] = home[src]
            /\ \A q \in DOMAIN FileOps!Without(home, src) : q # dst => home'[q] = FileOps!Without(home, src)[q]
        BY <2>4 DEF FileOps!With
      <4>3. QED
        BY <2>1, <4>1, <4>2
    <3>2. \A q \in DOMAIN home : \E r \in DOMAIN home' : home'[r] = home[q]
      BY <3>1
    <3>3. ExplorerShape' /\ Taking' /\ Copying'
      BY <1>3, <2>4 DEF ExplorerShape, Taking, Copying
    <3>4. reported' \subseteq DOMAIN trash' /\ FileOps!TrashedIsRestorable'
      BY <1>1 DEF FilesInv, NothingLost, FileOps!FilesAreSafe, FileOps!TrashedIsRestorable
    <3>5. NothingLost'
      BY <1>1, <3>2, <3>4, StaysSafe DEF FilesInv
    <3>6. BinShape' /\ Emptying'
      BY <1>1 DEF FilesInv, BinShape, Emptying
    <3>7. QED
      BY <3>3, <3>5, <3>6 DEF FilesInv
  <2>5. QED
    BY <1>4, <1>5, <2>2, <2>3, <2>4 DEF FileOps!Copied, FileOps!CopiedAndRemoved
<1>6. QED
  BY <1>4, <1>5 DEF FileOps!PasteItem

\* Removing a source that was copied.
LEMMA RemoveSourceKeeps ==
    ASSUME FilesInv, FileOps!RemoveSource
    PROVE  FilesInv'
<1> DEFINE src == Head(explorer.left)
<1>1. /\ explorer.op = "remove" /\ UNCHANGED <<trash, info, tmp, reported, bin, purged, bare>>
      /\ home' \in {home, FileOps!Without(home, src)} /\ explorer' = [FileOps!NextItem EXCEPT !.op = "paste"]
  BY DEF FileOps!RemoveSource, FileOps!BinFrame
<1>2. explorer = [op |-> "remove", left |-> explorer.left, to |-> explorer.to, cut |-> explorer.cut]
  BY <1>1 DEF FilesInv, ExplorerShape, FileOps!Idle
<1>3. explorer' = [op |-> "paste", left |-> Tail(explorer.left), to |-> explorer.to,
                   cut |-> explorer.cut]
  BY <1>1, <1>2 DEF FileOps!NextItem
<1>4. ExplorerShape' /\ Taking' /\ Copying'
  BY <1>3 DEF ExplorerShape, Taking, Copying
<1>5. PICK q \in DOMAIN home \ {src} : src \in DOMAIN home /\ home[q] = home[src]
  BY <1>1 DEF FilesInv, Copying
<1>6. /\ DOMAIN home \ {src} \subseteq DOMAIN home'
      /\ \A r \in DOMAIN home \ {src} : home'[r] = home[r]
  BY <1>1 DEF FileOps!Without
<1>7. \A p \in DOMAIN home : \E r \in DOMAIN home' : home'[r] = home[p]
  BY <1>5, <1>6
<1>8. reported' \subseteq DOMAIN trash' /\ FileOps!TrashedIsRestorable'
  BY <1>1 DEF FilesInv, NothingLost, FileOps!FilesAreSafe, FileOps!TrashedIsRestorable
<1>9. NothingLost'
  BY <1>1, <1>7, <1>8, StaysSafe DEF FilesInv
<1>10. BinShape' /\ Emptying'
  BY <1>1 DEF FilesInv, BinShape, Emptying
<1>11. QED
  BY <1>4, <1>9, <1>10 DEF FilesInv

\* The file manager may end between any two steps.
LEMMA ExplorerEndsKeeps ==
    ASSUME FilesInv, FileOps!ExplorerEnds
    PROVE  FilesInv'
<1>1. explorer' = FileOps!Idle /\ UNCHANGED <<home, trash, info, tmp, reported, bin, purged, bare>>
  BY DEF FileOps!ExplorerEnds, FileOps!BinFrame
<1>2. ExplorerShape' /\ Taking' /\ Copying'
  BY <1>1 DEF ExplorerShape, Taking, Copying, FileOps!Idle
<1>3. QED
  BY <1>1, <1>2, AddingKeeps

-----------------------------------------------------------------------------
(* The trash window.                                                       *)

\* What the file manager has noted holds also when the trash window brings back or
\* deletes files, since it takes no place in use and no other info file.
LEMMA BinStepKeepsExplorer ==
    ASSUME FilesInv, UNCHANGED <<tmp, explorer>>, reported' \subseteq reported,
           DOMAIN home \subseteq DOMAIN home', \A q \in DOMAIN home : home'[q] = home[q],
           DOMAIN trash' \subseteq DOMAIN trash, \A n \in DOMAIN trash' : trash'[n] = trash[n]
    PROVE  ExplorerShape' /\ Taking' /\ Copying'
<1>1. ExplorerShape' /\ Taking'
  BY DEF FilesInv, ExplorerShape, Taking
<1>2. Copying'
  BY DEF FilesInv, Copying
<1>3. QED
  BY <1>1, <1>2

\* Steps of the trash window that move and delete nothing.
LEMMA BinNotesKeep ==
    ASSUME FilesInv, UNCHANGED <<home, trash, tmp, explorer, reported, purged, bare, info>>,
           BinShape', Emptying'
    PROVE  FilesInv'
BY DEF FilesInv, ExplorerShape, Taking, Copying, NothingLost, FileOps!FilesAreSafe, FileOps!TrashedIsRestorable, FileOps!NothingIsLost

\* Beginning to restore or to empty, and the end of the window.
LEMMA BinBeginsKeeps ==
    ASSUME FilesInv, (\E n \in DOMAIN trash : FileOps!StartRestore(n)) \/ FileOps!StartEmpty \/ FileOps!BinEnds
    PROVE  FilesInv'
<1>1. UNCHANGED <<home, trash, tmp, explorer, reported, purged, bare, info>>
  BY DEF FileOps!StartRestore, FileOps!StartEmpty, FileOps!BinEnds, FileOps!ExplorerFrame
<1>2. \/ bin' = FileOps!Idle
      \/ \E n \in DOMAIN info : \E to : bin' = [op |-> "restore", name |-> n, to |-> to]
      \/ \E left : bin' = [op |-> "empty", left |-> left]
  BY DEF FileOps!StartRestore, FileOps!StartEmpty, FileOps!BinEnds
<1>3. BinShape' /\ Emptying'
  BY <1>1, <1>2 DEF BinShape, Emptying, FileOps!Idle
<1>4. QED
  BY <1>1, <1>3, BinNotesKeep

\* Bringing a file back.
LEMMA MoveBackKeeps ==
    ASSUME FilesInv, FileOps!MoveBack
    PROVE  FilesInv'
<1>1. bin.op = "restore" /\ UNCHANGED <<info, purged, bare, tmp, explorer>>
  BY DEF FileOps!MoveBack, FileOps!ExplorerFrame
<1>2. bin.name \in DOMAIN info
  BY <1>1 DEF FilesInv, Emptying
<1>3. CASE bin' = FileOps!Idle /\ UNCHANGED <<home, trash, reported>>
  <2>1. BinShape' /\ Emptying'
    BY <1>3 DEF BinShape, Emptying, FileOps!Idle
  <2>2. QED
    BY <1>1, <1>3, <2>1, BinNotesKeep
<1>4. CASE /\ bin.name \in DOMAIN trash /\ bin.to \notin DOMAIN home
           /\ home' = FileOps!With(home, bin.to, trash[bin.name][1])
           /\ trash' = FileOps!Without(trash, bin.name) /\ reported' = reported \ {bin.name}
           /\ bin' = [op |-> "forget", name |-> bin.name, left |-> {}]
  <2>1. /\ DOMAIN home' = DOMAIN home \union {bin.to}
        /\ home'[bin.to] = trash[bin.name][1]
        /\ \A q \in DOMAIN home : home'[q] = home[q]
    BY <1>4 DEF FileOps!With
  <2>2. /\ DOMAIN trash' = DOMAIN trash \ {bin.name}
        /\ \A n \in DOMAIN trash \ {bin.name} : trash'[n] = trash[n]
    BY <1>4 DEF FileOps!Without
  <2>3. ExplorerShape' /\ Taking' /\ Copying'
    BY <1>1, <1>4, <2>1, <2>2, BinStepKeepsExplorer
  <2>4. BinShape' /\ Emptying'
    BY <1>1, <1>2, <1>4 DEF BinShape, Emptying
  <2>5. reported' \subseteq DOMAIN trash' /\ FileOps!TrashedIsRestorable'
    BY <1>1, <1>4, <2>2 DEF FilesInv, NothingLost, FileOps!FilesAreSafe, FileOps!TrashedIsRestorable
  <2>6. \A q \in DOMAIN home : \E r \in DOMAIN home' : home'[r] = home[q]
    BY <2>1
  <2>7. \A n \in DOMAIN trash :
          \/ \E r \in DOMAIN home' : home'[r] = trash[n][1]
          \/ \E m \in DOMAIN trash' : trash'[m][1] = trash[n][1]
    BY <2>1, <2>2
  <2>8. NothingLost'
    BY <1>1, <2>5, <2>6, <2>7, StaysSafe DEF FilesInv
  <2>9. QED
    BY <2>3, <2>4, <2>8 DEF FilesInv
<1>5. QED
  BY <1>3, <1>4 DEF FileOps!MoveBack

\* Deleting an entry: what is deleted is what the user asked for.
LEMMA DeletesKeeps ==
    ASSUME FilesInv, NEW name \in DOMAIN trash, FileOps!Deletes(name), NEW left,
           bin' = [op |-> "forget", name |-> name, left |-> left],
           UNCHANGED <<home, info, tmp, explorer>>
    PROVE  FilesInv'
<1>1. /\ DOMAIN trash' = DOMAIN trash \ {name}
      /\ \A n \in DOMAIN trash \ {name} : trash'[n] = trash[n]
  BY DEF FileOps!Deletes, FileOps!Without
<1>2. /\ reported' = reported \ {name} /\ purged' = purged \union {trash[name][1]}
      /\ bare' = (bare \/ name \notin DOMAIN info)
  BY DEF FileOps!Deletes
<1>3. ExplorerShape' /\ Taking' /\ Copying'
  BY <1>1, <1>2, BinStepKeepsExplorer
<1>4. BinShape' /\ Emptying'
  BY <1>2 DEF BinShape, Emptying
<1>5. reported' \subseteq DOMAIN trash' /\ FileOps!TrashedIsRestorable'
  BY <1>1, <1>2 DEF FilesInv, NothingLost, FileOps!FilesAreSafe, FileOps!TrashedIsRestorable
<1>6. \A n \in DOMAIN trash :
        (\E m \in DOMAIN trash' : trash'[m][1] = trash[n][1]) \/ trash[n][1] \in purged'
  BY <1>1, <1>2
<1>7. NothingLost'
  BY <1>2, <1>5, <1>6, StaysSafe DEF FilesInv
<1>8. QED
  BY <1>3, <1>4, <1>7 DEF FilesInv

\* Deleting one entry, or the next of all.
LEMMA DeletingKeeps ==
    ASSUME FilesInv, (\E n \in DOMAIN trash : FileOps!StartDelete(n)) \/ FileOps!EmptyOne
    PROVE  FilesInv'
<1>1. ASSUME NEW n \in DOMAIN trash, FileOps!StartDelete(n) PROVE FilesInv'
  BY <1>1, DeletesKeeps DEF FileOps!StartDelete, FileOps!ExplorerFrame
<1>2. CASE FileOps!EmptyOne
  <2>1. bin.op = "empty" /\ UNCHANGED <<home, info, tmp, explorer>>
    BY <1>2 DEF FileOps!EmptyOne, FileOps!ExplorerFrame
  <2>2. bin = [op |-> "empty", left |-> bin.left]
    BY <2>1 DEF FilesInv, BinShape, FileOps!Idle
  <2>3. ASSUME NEW name \in bin.left \intersect DOMAIN trash, FileOps!Deletes(name),
               bin' = [op |-> "forget", name |-> name, left |-> bin.left \ {name}]
        PROVE  FilesInv'
    BY <2>1, <2>3, DeletesKeeps
  <2>4. ASSUME UNCHANGED <<trash, reported, purged, bare>>,
               \/ \E name \in bin.left : bin' = [bin EXCEPT !.left = @ \ {name}]
               \/ bin.left = {} /\ bin' = [op |-> "orphans", left |-> DOMAIN info]
        PROVE  FilesInv'
    <3>1. \/ \E left : bin' = [op |-> "empty", left |-> left]
          \/ bin' = [op |-> "orphans", left |-> DOMAIN info]
      BY <2>2, <2>4
    <3>2. BinShape' /\ Emptying'
      BY <2>1, <3>1 DEF BinShape, Emptying
    <3>3. QED
      BY <2>1, <2>4, <3>2, BinNotesKeep
  <2>5. QED
    BY <1>2, <2>3, <2>4 DEF FileOps!EmptyOne
<1>3. QED
  BY <1>1, <1>2

\* Removing an info file: no reported file has it.
LEMMA InfoGoesKeeps ==
    ASSUME FilesInv, NEW name, ~bare => name \notin reported, info' = FileOps!Without(info, name),
           UNCHANGED <<home, trash, tmp, explorer, reported, purged, bare>>,
           BinShape', Emptying'
    PROVE  FilesInv'
<1>1. /\ DOMAIN info' = DOMAIN info \ {name}
      /\ \A n \in DOMAIN info \ {name} : info'[n] = info[n]
  BY DEF FileOps!Without
<1>2. NothingLost'
  BY <1>1 DEF FilesInv, NothingLost, FileOps!FilesAreSafe, FileOps!TrashedIsRestorable, FileOps!NothingIsLost
<1>3. ExplorerShape' /\ Taking' /\ Copying'
  BY DEF FilesInv, ExplorerShape, Taking, Copying
<1>4. QED
  BY <1>2, <1>3 DEF FilesInv

\* The info file of an entry that is gone.
LEMMA ForgetEntryKeeps ==
    ASSUME FilesInv, FileOps!ForgetEntry
    PROVE  FilesInv'
<1>1. /\ bin.op = "forget" /\ info' = FileOps!Without(info, bin.name)
      /\ UNCHANGED <<home, trash, tmp, explorer, reported, purged, bare>>
      /\ bin' = FileOps!Idle \/ \E left : bin' = [op |-> "empty", left |-> left]
  BY DEF FileOps!ForgetEntry, FileOps!ExplorerFrame
<1>2. BinShape' /\ Emptying'
  BY <1>1 DEF BinShape, Emptying, FileOps!Idle
<1>3. ~bare => bin.name \notin reported
  BY <1>1 DEF FilesInv, Emptying
<1>4. QED
  BY <1>1, <1>2, <1>3, InfoGoesKeeps

\* The info files without a file: looked at, and removed a moment later.
LEMMA OrphanKeeps ==
    ASSUME FilesInv, FileOps!Orphan
    PROVE  FilesInv'
<1>1. UNCHANGED <<home, trash, tmp, explorer, reported, purged, bare>>
  BY DEF FileOps!Orphan, FileOps!ExplorerFrame
<1>2. CASE /\ bin.op = "orphans" /\ UNCHANGED info
           /\ bin' = IF bin.left = {} THEN FileOps!Idle
                     ELSE LET name == CHOOSE n \in bin.left : TRUE
                          IN [op |-> IF name \in DOMAIN trash THEN "orphans" ELSE "orphan",
                              name |-> name, left |-> bin.left \ {name}]
  <2>1. bin.left \subseteq DOMAIN info
    BY <1>2 DEF FilesInv, Emptying
  <2>2. CASE bin' = FileOps!Idle
    BY <1>1, <1>2, <2>2, BinNotesKeep DEF BinShape, Emptying, FileOps!Idle
  <2>3. CASE bin.left # {}
    <3>1. PICK name \in bin.left :
             bin' = [op |-> IF name \in DOMAIN trash THEN "orphans" ELSE "orphan",
                     name |-> name, left |-> bin.left \ {name}]
      BY <1>2, <2>3
    <3>2. \/ bin' = [op |-> "orphans", name |-> name, left |-> bin.left \ {name}]
          \/ /\ name \notin DOMAIN trash
             /\ bin' = [op |-> "orphan", name |-> name, left |-> bin.left \ {name}]
      BY <3>1
    <3>3. reported \subseteq DOMAIN trash
      BY DEF FilesInv, NothingLost
    <3>4. BinShape' /\ Emptying'
      BY <1>1, <1>2, <2>1, <3>2, <3>3 DEF BinShape, Emptying
    <3>5. QED
      BY <1>1, <1>2, <3>4, BinNotesKeep
  <2>4. QED
    BY <1>2, <2>2, <2>3
<1>3. CASE /\ bin.op = "orphan" /\ info' = FileOps!Without(info, bin.name)
           /\ bin' = [bin EXCEPT !.op = "orphans"]
  <2>1. bin = [op |-> "orphan", name |-> bin.name, left |-> bin.left]
    BY <1>3 DEF FilesInv, BinShape, FileOps!Idle
  <2>2. bin' = [op |-> "orphans", name |-> bin.name, left |-> bin.left]
    BY <1>3, <2>1
  <2>3. bin.left \subseteq DOMAIN info \ {bin.name} /\ (~bare => bin.name \notin reported)
    BY <1>3 DEF FilesInv, Emptying
  <2>4. DOMAIN info' = DOMAIN info \ {bin.name}
    BY <1>3 DEF FileOps!Without
  <2>5. BinShape' /\ Emptying'
    BY <2>2, <2>3, <2>4 DEF BinShape, Emptying
  <2>6. QED
    BY <1>1, <1>3, <2>3, <2>5, InfoGoesKeeps
<1>4. QED
  BY <1>2, <1>3 DEF FileOps!Orphan

-----------------------------------------------------------------------------
\* The invariant holds.
LEMMA FilesInvHolds == Spec => []FilesInv
<1>1. Init => FilesInv
  <2>1. SUFFICES ASSUME FileOps!Init PROVE FilesInv
    BY DEF Init
  <2>2. explorer = FileOps!Idle /\ bin = FileOps!Idle /\ reported = {} /\ home = [p \in AtFirst |-> p]
    BY <2>1 DEF FileOps!Init
  <2>3. ExplorerShape /\ BinShape /\ Taking /\ Copying /\ Emptying
    BY <2>2 DEF ExplorerShape, BinShape, Taking, Copying, Emptying, FileOps!Idle
  <2>4. NothingLost
    BY <2>2 DEF NothingLost, FileOps!FilesAreSafe, FileOps!TrashedIsRestorable, FileOps!NothingIsLost
  <2>5. QED
    BY <2>3, <2>4 DEF FilesInv
<1>2. FilesInv /\ [Next]_vars => FilesInv'
  <2>1. SUFFICES ASSUME FilesInv, [FileOps!Next]_filesVars PROVE FilesInv'
    BY FilesAlone
  <2>2. CASE UNCHANGED filesVars
    BY <2>1, <2>2 DEF filesVars, FilesInv, ExplorerShape, BinShape, Taking, Copying, Emptying,
                      NothingLost, FileOps!FilesAreSafe, FileOps!TrashedIsRestorable, FileOps!NothingIsLost
  <2>3. CASE FileOps!Command
    BY <2>1, <2>3, StartTrashKeeps, ClipboardKeeps, BinBeginsKeeps, DeletingKeeps DEF FileOps!Command
  <2>4. CASE FileOps!Work
    BY <2>1, <2>4, MoveFileKeeps, LandInfoKeeps, UndoTrashKeeps, PasteItemKeeps,
       RemoveSourceKeeps, ClipboardKeeps, MoveBackKeeps, DeletingKeeps, ForgetEntryKeeps,
       OrphanKeeps, ExplorerEndsKeeps, BinBeginsKeeps DEF FileOps!Work
  <2>5. QED
    BY <2>1, <2>2, <2>3, <2>4 DEF FileOps!Next
<1>3. QED
  BY <1>1, <1>2, PTL DEF Spec

\* No file is lost until it is deleted for good, and what was reported as moved to the
\* trash has the info file written for it, whichever system call fails, whenever one of
\* the two processes ends, and however their steps interleave (FileOps::moveToTrash and
\* paste; TrashStore::restore, permanentDelete and empty).  It can be restored by it to
\* where it was unless that very write was lost, which moveToTrash does not look at.
THEOREM FilesStaySafe == Spec => []FilesAreSafe
<1>1. FilesInv => FilesAreSafe
  BY DEF FilesInv, NothingLost, FilesAreSafe
<1>2. QED
  BY <1>1, FilesInvHolds, PTL

-----------------------------------------------------------------------------
(* FileSearch: any directories, files, words and texts typed, and changes  *)
(* at any time.                                                            *)

\* Steps of the composition are steps of the search.
LEMMA SearchAlone ==
    ASSUME [Next]_vars
    PROVE  [Search!Next]_searchVars
BY DEF Next, vars, TasksStep, FilesStep, SearchStep, CalendarStep, TerminalStep, DocumentsStep,
       ExplorerStep, ClockStep, AppsStep, SystemStep, NetworkStep, RemoteStep, ShotStep,
       ViewerStep, StoreStep, KeyboardStep, CalcStep, Alone

\* Changes are noticed once the watch has begun, of the directories that are watched.
NoticesAreWatched ==
    /\ noticed \subseteq Watched
    /\ phase # "ready" => notices = {} /\ pendingDirs = {} /\ noticed = {}

\* The index has the files of a directory, and their words but for what was written in
\* place.
Agrees(d) ==
    /\ DOMAIN index \intersect Search!In({d}) = DOMAIN tree \intersect Search!In({d})
    /\ \A p \in (DOMAIN tree \intersect Search!In({d})) \ quiet : index[p] = tree[p]

\* So it is of a directory whose notices were handled.
HandledIsIndexed == \A d \in noticed \ (notices \union pendingDirs) : Agrees(d)

\* When the typing has settled, the menu shows what it searched for.
SettledIsShown ==
    ~debounce => /\ searchActive = (query # <<>>)
                 /\ results = Search!Shown(index, query, phase)

SearchInv == NoticesAreWatched /\ HandledIsIndexed /\ SettledIsShown /\ query \in Seq(Words)

\* A search that is not active shows nothing, and only a ready index shows anything.
LEMMA NothingIsShown ==
    /\ \A x, is : Search!Shown(x, <<>>, is) = {}
    /\ \A x, q : Search!Shown(x, q, "scanning") = {} /\ Search!Shown(x, q, "scanned") = {}
BY DEF Search!Shown, Search!Search

\* A file comes, goes, or is replaced, and a notice of its directory is on its way.
LEMMA ChangeKeeps ==
    ASSUME SearchInv, NEW p \in Search!Paths,
           \/ Search!Create(p) \/ Search!Delete(p)
           \/ \E words \in SUBSET Words : Search!MoveIn(p, words)
    PROVE  SearchInv'
<1>1. Search!Changed(p[1]) /\ UNCHANGED quiet
  BY DEF Search!Create, Search!Delete, Search!MoveIn
<1>2. UNCHANGED <<phase, index, pendingDirs, query, searchActive, debounce, results>>
  BY <1>1 DEF Search!Changed, Search!scanVars, Search!menuVars
<1>3. \/ phase = "ready" /\ p[1] \in Watched
         /\ notices' = notices \union {p[1]} /\ noticed' = noticed \union {p[1]}
      \/ ~(phase = "ready" /\ p[1] \in Watched) /\ UNCHANGED <<notices, noticed>>
  BY <1>1 DEF Search!Changed
<1>4. NoticesAreWatched'
  BY <1>2, <1>3 DEF SearchInv, NoticesAreWatched
<1>5. SettledIsShown' /\ query' \in Seq(Words)
  BY <1>2 DEF SearchInv, SettledIsShown
<1> DEFINE Others == \A q \in Search!Paths \ {p} :
                        /\ q \in DOMAIN tree' <=> q \in DOMAIN tree
                        /\ q \in DOMAIN tree => tree'[q] = tree[q]
<1>6. Others
  <2>1. ASSUME NEW w, tree' = Search!Merged([q \in {p} |-> w], tree) PROVE Others
    BY <2>1 DEF Search!Merged
  <2>2. CASE Search!Create(p)
    BY <2>1, <2>2 DEF Search!Create
  <2>3. CASE \E words \in SUBSET Words : Search!MoveIn(p, words)
    BY <2>1, <2>3 DEF Search!MoveIn
  <2>4. CASE Search!Delete(p)
    BY <2>4 DEF Search!Delete, Search!Only
  <2>5. QED
    BY <2>2, <2>3, <2>4
<1>7. HandledIsIndexed'
  <2>1. SUFFICES ASSUME NEW d \in noticed' \ (notices' \union pendingDirs') PROVE Agrees(d)'
    BY DEF HandledIsIndexed
  <2>2. d # p[1] /\ d \in noticed \ (notices \union pendingDirs)
    BY <1>2, <1>3, <2>1 DEF SearchInv, NoticesAreWatched
  <2>3. Agrees(d)
    BY <2>2 DEF SearchInv, HandledIsIndexed
  <2>4. Search!In({d}) \subseteq Search!Paths \ {p}
    BY <2>2 DEF Search!In
  <2>5. QED
    BY <1>1, <1>2, <1>6, <2>3, <2>4 DEF Agrees, Search!In
<1>8. QED
  BY <1>4, <1>5, <1>7 DEF SearchInv

\* A file is written in place: from then on its words may differ.
LEMMA WriteKeeps ==
    ASSUME SearchInv, NEW p, NEW words, Search!Write(p, words)
    PROVE  SearchInv'
<1>1. /\ UNCHANGED <<phase, index, notices, pendingDirs, noticed, query, searchActive, debounce,
                     results>>
      /\ tree' = [tree EXCEPT ![p] = words] /\ quiet' = quiet \union {p}
  BY DEF Search!Write, Search!scanVars, Search!menuVars
<1>2. NoticesAreWatched' /\ SettledIsShown' /\ query' \in Seq(Words)
  BY <1>1 DEF SearchInv, NoticesAreWatched, SettledIsShown
<1>3. DOMAIN tree' = DOMAIN tree /\ \A q \in DOMAIN tree \ {p} : tree'[q] = tree[q]
  BY <1>1
<1>4. ASSUME NEW d, Agrees(d) PROVE Agrees(d)'
  BY <1>1, <1>3, <1>4 DEF Agrees, Search!In
<1>5. QED
  BY <1>1, <1>2, <1>4 DEF SearchInv, HandledIsIndexed

\* The scan, the end of it, and a notice.
LEMMA IndexingKeeps ==
    ASSUME SearchInv,
           \/ \E d \in Search!Dirs : Search!ScanDir(d) \/ Search!DirectoryChanged(d)
           \/ Search!Finished
    PROVE  SearchInv'
<1>1. UNCHANGED <<tree, noticed, query, debounce>>
  BY DEF Search!ScanDir, Search!DirectoryChanged, Search!Finished, Search!scanVars, Search!menuVars
<1>2. ASSUME NEW d, Search!ScanDir(d) PROVE SearchInv'
  <2>1. /\ phase = "scanning" /\ phase' \in {"scanning", "scanned"}
        /\ UNCHANGED <<notices, pendingDirs, searchActive, results>>
    BY <1>2 DEF Search!ScanDir, Search!menuVars
  <2>2. NoticesAreWatched' /\ HandledIsIndexed'
    BY <1>1, <2>1 DEF SearchInv, NoticesAreWatched, HandledIsIndexed
  <2>3. Search!Shown(index, query, phase)' = {} /\ Search!Shown(index, query, phase) = {}
    BY <2>1 DEF Search!Shown
  <2>4. QED
    BY <1>1, <2>1, <2>2, <2>3 DEF SearchInv, SettledIsShown
<1>3. ASSUME NEW d, Search!DirectoryChanged(d) PROVE SearchInv'
  <2>1. /\ d \in notices /\ notices' = notices \ {d} /\ pendingDirs' = pendingDirs \union {d}
        /\ UNCHANGED <<phase, index, searchActive, results, quiet>>
    BY <1>3 DEF Search!DirectoryChanged, Search!scanVars, Search!menuVars
  <2>2. notices' \union pendingDirs' = notices \union pendingDirs \union {d}
    BY <2>1
  <2>3. SettledIsShown'
    BY <1>1, <2>1 DEF SearchInv, SettledIsShown
  <2>4. NoticesAreWatched'
    BY <1>1, <2>1 DEF SearchInv, NoticesAreWatched
  <2>5. HandledIsIndexed'
    BY <1>1, <2>1, <2>2 DEF SearchInv, HandledIsIndexed, Agrees, Search!In
  <2>6. QED
    BY <1>1, <2>3, <2>4, <2>5 DEF SearchInv
<1>4. CASE Search!Finished
  <2>1. /\ phase' = "ready" /\ UNCHANGED <<index, notices, pendingDirs>>
        /\ Search!Refresh(index, "ready") /\ phase = "scanned"
    BY <1>4 DEF Search!Finished
  <2>2. NoticesAreWatched' /\ HandledIsIndexed'
    BY <1>1, <2>1 DEF SearchInv, NoticesAreWatched, HandledIsIndexed
  <2>3. ~debounce => /\ searchActive' = (query # <<>>)
                     /\ results' = Search!Shown(index, query, "ready")
    <3>1. CASE searchActive
      BY <2>1, <3>1 DEF Search!Refresh, Search!SearchNow
    <3>2. CASE ~searchActive
      <4>1. UNCHANGED <<searchActive, results>>
        BY <2>1, <3>2 DEF Search!Refresh
      <4>2. ~debounce => query = <<>> /\ results = {}
        BY <2>1, <3>2, NothingIsShown DEF SearchInv, SettledIsShown
      <4>3. QED
        BY <3>2, <4>1, <4>2, NothingIsShown
    <3>3. QED
      BY <3>1, <3>2
  <2>4. SettledIsShown'
    BY <1>1, <2>1, <2>3 DEF SettledIsShown
  <2>5. QED
    BY <1>1, <2>2, <2>4 DEF SearchInv
<1>5. QED
  BY <1>2, <1>3, <1>4

\* Rescanned directories are in the index as they are, and the others as they were.
LEMMA RescannedIsExact ==
    ASSUME NEW ds, NEW d \in Search!Dirs
    PROVE  LET n == Search!Rescanned(ds)
               r == IF d \in ds THEN tree ELSE index
           IN  /\ DOMAIN n \intersect Search!In({d}) = DOMAIN r \intersect Search!In({d})
               /\ \A p \in DOMAIN r \intersect Search!In({d}) : n[p] = r[p]
<1> DEFINE S == Search!In({d})
           new == Search!Only(tree, Search!In(ds))
           old == Search!Only(index, Search!In(Search!Dirs \ ds))
           n == Search!Merged(new, old)
<1>1. /\ DOMAIN new = DOMAIN tree \intersect Search!In(ds)
      /\ \A p \in DOMAIN new : new[p] = tree[p]
      /\ DOMAIN old = DOMAIN index \intersect Search!In(Search!Dirs \ ds)
      /\ \A p \in DOMAIN old : old[p] = index[p]
  BY DEF Search!Only
<1>2. \A p \in S : /\ p \in Search!In(ds) <=> d \in ds
                   /\ p \in Search!In(Search!Dirs \ ds) <=> d \notin ds
  BY DEF Search!In
<1> HIDE DEF S, new, old
<1>3. /\ DOMAIN n = DOMAIN new \union DOMAIN old
      /\ \A p \in DOMAIN n : n[p] = IF p \in DOMAIN new THEN new[p] ELSE old[p]
  BY DEF Search!Merged
<1>4. n = Search!Rescanned(ds)
  BY DEF Search!Rescanned, new, old
<1> HIDE DEF n
<1>5. CASE d \in ds
  BY <1>1, <1>2, <1>3, <1>4, <1>5 DEF S
<1>6. CASE d \notin ds
  BY <1>1, <1>2, <1>3, <1>4, <1>6 DEF S
<1>7. QED
  BY <1>5, <1>6

\* The notices are handled.
LEMMA FlushKeeps ==
    ASSUME SearchInv, Search!Flush
    PROVE  SearchInv'
<1>1. /\ UNCHANGED <<tree, notices, noticed, query, debounce, phase>>
      /\ pendingDirs # {} /\ pendingDirs' = {} /\ index' = Search!Rescanned(pendingDirs)
  BY DEF Search!Flush, Search!scanVars
<1>2. NoticesAreWatched'
  BY <1>1 DEF SearchInv, NoticesAreWatched
<1>3. HandledIsIndexed'
  <2>1. SUFFICES ASSUME NEW d \in noticed' \ (notices' \union pendingDirs') PROVE Agrees(d)'
    BY DEF HandledIsIndexed
  <2>2. d \in noticed \ notices /\ d \in Search!Dirs
    BY <1>1, <2>1 DEF SearchInv, NoticesAreWatched, Search!Dirs
  <2>3. quiet' = quiet \ Search!In(pendingDirs) /\ Search!In({d})' = Search!In({d})
    BY DEF Search!Flush, Search!In
  <2>4. CASE d \in pendingDirs
    <3>1. /\ DOMAIN index' \intersect Search!In({d}) = DOMAIN tree \intersect Search!In({d})
          /\ \A p \in DOMAIN tree \intersect Search!In({d}) : index'[p] = tree[p]
      BY <1>1, <2>2, <2>4, RescannedIsExact
    <3>2. QED
      BY <1>1, <2>3, <3>1 DEF Agrees
  <2>5. CASE d \notin pendingDirs
    <3>1. Agrees(d)
      BY <2>2, <2>5 DEF SearchInv, HandledIsIndexed
    <3>2. /\ DOMAIN index' \intersect Search!In({d}) = DOMAIN index \intersect Search!In({d})
          /\ \A p \in DOMAIN index \intersect Search!In({d}) : index'[p] = index[p]
      BY <1>1, <2>2, <2>5, RescannedIsExact
    <3>3. \A p \in Search!In({d}) : p \in quiet' <=> p \in quiet
      BY <2>3, <2>5 DEF Search!In
    <3>4. QED
      BY <1>1, <2>3, <3>1, <3>2, <3>3 DEF Agrees
  <2>6. QED
    BY <2>4, <2>5
<1>4. SettledIsShown'
  <2>1. Search!Refresh(index', phase)
    BY DEF Search!Flush
  <2>2. CASE searchActive
    <3>1. searchActive' = (query # <<>>) /\ results' = Search!Shown(index', query, phase)
      BY <2>1, <2>2 DEF Search!Refresh, Search!SearchNow
    <3>2. QED
      BY <1>1, <3>1 DEF SettledIsShown
  <2>3. CASE ~searchActive
    <3>1. UNCHANGED <<searchActive, results>>
      BY <2>1, <2>3 DEF Search!Refresh
    <3>2. ~debounce => searchActive = FALSE /\ query = <<>> /\ results = {}
      BY <2>3, NothingIsShown DEF SearchInv, SettledIsShown
    <3>3. query = <<>> => Search!Shown(index', query, phase) = {}
      BY NothingIsShown
    <3>4. QED
      BY <1>1, <3>1, <3>2, <3>3 DEF SettledIsShown
  <2>4. QED
    BY <2>2, <2>3
<1>5. QED
  BY <1>1, <1>2, <1>3, <1>4 DEF SearchInv

\* The user types, and stops typing.
LEMMA TypingKeeps ==
    ASSUME SearchInv, (\E q \in Queries : Search!Type(q)) \/ Search!SearchChanged
    PROVE  SearchInv'
<1>1. UNCHANGED <<tree, quiet, index, notices, pendingDirs, noticed, phase>>
  BY DEF Search!Type, Search!SearchChanged, Search!scanVars
<1>2. NoticesAreWatched'
  BY <1>1 DEF SearchInv, NoticesAreWatched
<1>3. HandledIsIndexed'
  BY <1>1 DEF SearchInv, HandledIsIndexed, Agrees, Search!In
<1>4. SettledIsShown'
  <2>1. CASE \E q \in Queries : Search!Type(q)
    BY <2>1 DEF Search!Type, SettledIsShown
  <2>2. CASE Search!SearchChanged
    <3>1. UNCHANGED query /\ searchActive' = (query # <<>>)
          /\ results' = Search!Shown(index, query, phase)
      BY <2>2 DEF Search!SearchChanged, Search!SearchNow
    <3>2. QED
      BY <1>1, <3>1 DEF SettledIsShown
  <2>3. QED
    BY <2>1, <2>2
<1>5. query' \in Seq(Words)
  BY SearchAssumption DEF Search!Type, Search!SearchChanged, SearchInv
<1>6. QED
  BY <1>2, <1>3, <1>4, <1>5 DEF SearchInv

\* The invariant holds.
LEMMA SearchInvHolds == Spec => []SearchInv
<1>1. Init => SearchInv
  <2>1. SUFFICES ASSUME Search!Init PROVE SearchInv
    BY DEF Init
  <2>2. query \in Seq(Words)
    BY <2>1, EmptySeq DEF Search!Init
  <2>3. QED
    BY <2>1, <2>2, NothingIsShown
       DEF Search!Init, SearchInv, NoticesAreWatched, HandledIsIndexed, SettledIsShown
<1>2. SearchInv /\ [Next]_vars => SearchInv'
  <2>1. SUFFICES ASSUME SearchInv, [Search!Next]_searchVars PROVE SearchInv'
    BY SearchAlone
  <2>2. CASE UNCHANGED searchVars
    <3>1. UNCHANGED <<tree, quiet, phase, index, notices, pendingDirs, noticed, query, searchActive,
                      debounce, results>>
      BY <2>2 DEF searchVars
    <3>2. NoticesAreWatched' /\ SettledIsShown'
      BY <2>1, <3>1 DEF SearchInv, NoticesAreWatched, SettledIsShown
    <3>3. HandledIsIndexed'
      BY <2>1, <3>1 DEF SearchInv, HandledIsIndexed, Agrees, Search!In
    <3>4. QED
      BY <2>1, <3>1, <3>2, <3>3 DEF SearchInv
  <2>3. CASE Search!Next
    BY <2>1, <2>3, ChangeKeeps, WriteKeeps, IndexingKeeps, FlushKeeps, TypingKeeps DEF Search!Next
  <2>4. QED
    BY <2>1, <2>2, <2>3
<1>3. QED
  BY <1>1, <1>2, PTL DEF Spec

-----------------------------------------------------------------------------
(* What the search finds, for texts of any length.                         *)

\* The files of the first n words.
FirstHave(x, q, n) == {p \in DOMAIN x : \A i \in 1..n : q[i] \in x[p]}

\* The steps of contentHits.
Narrowing(h, x, q) ==
    /\ h[0] = {}
    /\ \A n \in 1..Len(q) :
          h[n] = (IF h[n - 1] = {} THEN DOMAIN x ELSE h[n - 1]) \intersect Search!Found(x, q[n])

LEMMA NarrowedSteps ==
    ASSUME NEW x, NEW q, Len(q) \in Nat
    PROVE  Narrowing(Search!Narrowed(x, q), x, q)
<1> DEFINE m == Len(q)
           X == SUBSET DOMAIN x
           F == [v \in X \X (1..m) |->
                    (IF v[1] = {} THEN DOMAIN x ELSE v[1]) \intersect Search!Found(x, q[v[2]])]
           Read(h) == h = [n \in 0..m |->
                    IF n = 0 THEN {}
                    ELSE (IF h[n - 1] = {} THEN DOMAIN x ELSE h[n - 1])
                             \intersect Search!Found(x, q[n])]
           f == CHOOSE h : Read(h)
<1>1. m \in Nat
  OBVIOUS
<1>2. f = Search!Narrowed(x, q)
  BY Zenon DEF Search!Narrowed
<1> HIDE DEF m
<1>3. F \in [X \X (1..m) -> X]
  OBVIOUS
<1>4. \A v \in X, n \in 1..m :
          F[<<v, n>>] = (IF v = {} THEN DOMAIN x ELSE v) \intersect Search!Found(x, q[n])
  OBVIOUS
<1>5. {} \in X
  OBVIOUS
<1> HIDE DEF F
<1>6. PICK g : Values(g, X, {}, m, F)
  BY <1>1, <1>3, <1>5, Computed, Zenon
<1>7. g \in [0..m -> X] /\ g[0] = {} /\ \A n \in 1..m : g[n] = F[<<g[n - 1], n>>]
  BY <1>6, Zenon DEF Values
<1>8. \A n \in 1..m : g[n - 1] \in X
  BY <1>1, <1>7
<1>9. \A n \in 1..m : g[n] = (IF g[n - 1] = {} THEN DOMAIN x ELSE g[n - 1])
                                 \intersect Search!Found(x, q[n])
  BY <1>4, <1>7, <1>8
<1>10. Read(g)
  BY <1>1, <1>7, <1>9
<1>11. Read(f)
  BY <1>10, Zenon
<1> HIDE DEF f
<1>12. f[0] = {}
  BY <1>1, <1>11
<1>13. \A n \in 1..m : f[n] = (IF f[n - 1] = {} THEN DOMAIN x ELSE f[n - 1])
                                  \intersect Search!Found(x, q[n])
  <2>1. \A n \in 0..m : f[n] = IF n = 0 THEN {}
                              ELSE (IF f[n - 1] = {} THEN DOMAIN x ELSE f[n - 1])
                                       \intersect Search!Found(x, q[n])
    BY <1>11
  <2>2. \A n \in 1..m : n \in 0..m /\ n # 0
    BY <1>1
  <2>3. QED
    BY <2>1, <2>2, Zenon
<1>14. QED
  BY <1>2, <1>12, <1>13 DEF Narrowing, m

\* After n words they are in the last of them; and they are the files that have all n,
\* when there is one, or n is at most two and each word is in some file.
LEMMA NarrowedIs ==
    ASSUME NEW x, NEW q, Len(q) \in Nat, NEW h, Narrowing(h, x, q),
           \A i \in 1..Len(q) : Search!Found(x, q[i]) # {}
    PROVE  \A n \in 1..Len(q) :
               /\ h[n] \subseteq Search!Found(x, q[n])
               /\ FirstHave(x, q, n) # {} \/ n <= 2 => h[n] = FirstHave(x, q, n)
<1> DEFINE Good(n) == /\ h[n] \subseteq Search!Found(x, q[n])
                      /\ FirstHave(x, q, n) # {} \/ n <= 2 => h[n] = FirstHave(x, q, n)
           S == {n \in 0..Len(q) : n = 0 \/ Good(n)}
<1>1. 0 \in S
  OBVIOUS
<1>2. ASSUME NEW n \in 1..Len(q), n - 1 \in S PROVE n \in S
  <2>0. SUFFICES Good(n)
    OBVIOUS
  <2>1. h[n] = (IF h[n - 1] = {} THEN DOMAIN x ELSE h[n - 1]) \intersect Search!Found(x, q[n])
    BY DEF Narrowing
  <2>2. h[n] \subseteq Search!Found(x, q[n])
    BY <2>1
  <2>3. CASE n = 1
    <3>1. h[n - 1] = {}
      BY <2>3 DEF Narrowing
    <3>2. FirstHave(x, q, n) = Search!Found(x, q[n])
      BY <2>3 DEF FirstHave, Search!Found
    <3>3. h[n] = DOMAIN x \intersect Search!Found(x, q[n])
      BY <2>1, <3>1
    <3>4. Search!Found(x, q[n]) \subseteq DOMAIN x
      BY DEF Search!Found
    <3>5. h[n] = FirstHave(x, q, n)
      BY <3>2, <3>3, <3>4
    <3>6. QED
      BY <2>2, <3>5
  <2>4. CASE n # 1
    <3>1. n - 1 \in 1..Len(q) /\ Good(n - 1)
      BY <1>2, <2>4
    <3>2. FirstHave(x, q, n) = FirstHave(x, q, n - 1) \intersect Search!Found(x, q[n])
      <4>1. \A i : i \in 1..n <=> i \in 1..(n - 1) \/ i = n
        BY <2>4
      <4>2. QED
        BY <4>1, Zenon DEF FirstHave, Search!Found
    <3>3. ASSUME FirstHave(x, q, n) # {} \/ n <= 2 PROVE h[n] = FirstHave(x, q, n)
      <4>1. h[n - 1] = FirstHave(x, q, n - 1)
        BY <3>1, <3>2, <3>3
      <4>2. h[n - 1] # {}
        <5>1. CASE FirstHave(x, q, n) # {}
          BY <3>2, <4>1, <5>1
        <5>2. CASE n <= 2
          <6>1. n = 2
            BY <2>4, <5>2
          <6>2. FirstHave(x, q, 1) = Search!Found(x, q[1])
            BY DEF FirstHave, Search!Found
          <6>3. n - 1 = 1 /\ 1 \in 1..Len(q)
            BY <3>1, <6>1
          <6>4. QED
            BY <4>1, <6>2, <6>3
        <5>3. QED
          BY <3>3, <5>1, <5>2
      <4>3. QED
        BY <2>1, <3>2, <4>1, <4>2
    <3>4. QED
      BY <2>2, <3>3
  <2>5. QED
    BY <2>3, <2>4
<1> HIDE DEF S
<1>3. \A n \in 0..Len(q) : n \in S
  BY <1>1, <1>2, GoesOn, Zenon
<1>4. QED
  BY <1>3 DEF S

\* The search has every file with all the words, and others only as it says.
LEMMA SearchIs ==
    ASSUME NEW x, NEW q \in Seq(Words), q # <<>>
    PROVE  /\ Search!HaveAll(x, q) \subseteq Search!Search(x, q)
           /\ \A p \in Search!Search(x, q) \ Search!HaveAll(x, q) :
                 /\ Len(q) > 2 /\ Search!ContainAll(x, q) = {}
                 /\ p \in DOMAIN x /\ q[Len(q)] \in x[p]
<1>1. DOMAIN q = 1..Len(q) /\ Len(q) \in Nat /\ Len(q) # 0
  BY LenProperties, EmptySeq
<1>2. Search!HaveAll(x, q) = Search!NameHits(x, q) \union Search!ContainAll(x, q)
  BY DEF Search!HaveAll, Search!NameHits, Search!ContainAll
<1>3. Search!Search(x, q) = Search!NameHits(x, q) \union Search!ContentHits(x, q)
  BY DEF Search!Search
<1>4. CASE \E i \in DOMAIN q : Search!Found(x, q[i]) = {}
  <2>1. Search!ContentHits(x, q) = {}
    BY <1>4 DEF Search!ContentHits
  <2>2. Search!ContainAll(x, q) = {}
    BY <1>4 DEF Search!ContainAll, Search!Found
  <2>3. QED
    BY <1>2, <1>3, <2>1, <2>2
<1>5. CASE \A i \in DOMAIN q : Search!Found(x, q[i]) # {}
  <2> DEFINE h == Search!Narrowed(x, q)
             n == Len(q)
  <2>1. Search!ContentHits(x, q) = h[n]
    BY <1>5 DEF Search!ContentHits
  <2>2. Narrowing(h, x, q)
    BY <1>1, NarrowedSteps
  <2> HIDE DEF h
  <2>3. /\ h[n] \subseteq Search!Found(x, q[n])
        /\ FirstHave(x, q, n) # {} \/ n <= 2 => h[n] = FirstHave(x, q, n)
    <3>1. \A i \in 1..Len(q) : Search!Found(x, q[i]) # {}
      BY <1>1, <1>5
    <3>2. n \in 1..Len(q)
      BY <1>1
    <3>3. QED
      BY <1>1, <2>2, <3>1, <3>2, NarrowedIs, Zenon
  <2>4. FirstHave(x, q, n) = Search!ContainAll(x, q)
    BY <1>1 DEF FirstHave, Search!ContainAll
  <2>5. CASE Search!ContainAll(x, q) # {} \/ n <= 2
    BY <1>2, <1>3, <2>1, <2>3, <2>4, <2>5
  <2>6. CASE Search!ContainAll(x, q) = {} /\ ~(n <= 2)
    BY <1>1, <1>2, <1>3, <2>1, <2>3, <2>6 DEF Search!Found
  <2>7. QED
    BY <2>5, <2>6
<1>6. QED
  BY <1>4, <1>5

\* Once the notices of a directory are handled its files are in the index as they are
\* on the disk, whatever was made, moved or deleted during the scan and the watch, and so
\* are their words unless they were written in place, which is not noticed.  Once the
\* typing has settled the list has every file of the index with all the words typed and no
\* other, but for texts of three and more words that no file has together, also when the
\* index was finished or updated in between (FileIndex::flushPendingDirs, setupWatcher and
\* search, StartMenu::onSearchChanged and the slot of indexingFinished).
THEOREM SearchStaysCurrent == Spec => []SearchIsCurrent
<1>1. SearchInv => Search!IndexIsCurrent
  BY DEF SearchInv, HandledIsIndexed, Agrees, Search!IndexIsCurrent
<1>2. SearchInv => Search!ListIsCurrent
  <2>1. SUFFICES ASSUME SearchInv, ~debounce
        PROVE  IF phase # "ready" \/ query = <<>> THEN results = {}
               ELSE /\ Search!HaveAll(index, query) \subseteq results
                    /\ \A p \in results \ Search!HaveAll(index, query) :
                          /\ Len(query) > 2 /\ Search!ContainAll(index, query) = {}
                          /\ p \in DOMAIN index /\ query[Len(query)] \in index[p]
    BY DEF Search!ListIsCurrent
  <2>2. results = Search!Shown(index, query, phase) /\ query \in Seq(Words)
    BY <2>1 DEF SearchInv, SettledIsShown
  <2>3. CASE phase # "ready" \/ query = <<>>
    BY <2>2, <2>3, NothingIsShown DEF Search!Shown
  <2>4. CASE phase = "ready" /\ query # <<>>
    <3>1. results = Search!Search(index, query)
      BY <2>2, <2>4 DEF Search!Shown
    <3>2. QED
      BY <2>2, <2>4, <3>1, SearchIs
  <2>5. QED
    BY <2>3, <2>4
<1>3. SearchInv => SearchIsCurrent
  BY <1>1, <1>2 DEF SearchIsCurrent, Search!SearchIsCurrent
<1>4. QED
  BY <1>3, SearchInvHolds, PTL

-----------------------------------------------------------------------------
(* Explorer: any tree of folders, and any length of the history.           *)

\* Steps of the composition are steps of the window.
LEMMA ExplorerAlone ==
    ASSUME [Next]_vars
    PROVE  [Browse!Next]_explorerVars
BY DEF Next, vars, TasksStep, FilesStep, SearchStep, CalendarStep, TerminalStep, DocumentsStep,
       ExplorerStep, ClockStep, AppsStep, SystemStep, NetworkStep, RemoteStep, ShotStep,
       ViewerStep, StoreStep, KeyboardStep, CalcStep, Alone

\* What the window and its stacks hold are folders.
ExplorerInv ==
    /\ dirs \subseteq Folders /\ current \in Folders
    /\ back \in Seq(Folders) /\ forward \in Seq(Folders)

\* The list l of the folders b, then c, then the folders f backwards.
ListOf(l, b, c, f, n, m) ==
    /\ Len(l) = n + 1 + m /\ DOMAIN l = 1 .. Len(l)
    /\ \A i \in 1 .. n + 1 + m :
          l[i] = IF i <= n THEN b[i] ELSE IF i = n + 1 THEN c ELSE f[n + 2 + m - i]

\* Where the folders of the history are in it.
LEMMA VisitedAt ==
    ASSUME NEW b \in Seq(Folders), NEW f \in Seq(Folders), NEW c \in Folders
    PROVE  ListOf(b \o <<c>> \o Browse!Reverse(f), b, c, f, Len(b), Len(f))
<1> DEFINE r == Browse!Reverse(f)
           o == <<c>>
           h == b \o o
           l == h \o r
<1>1. Len(b) \in Nat /\ Len(f) \in Nat
  BY LenProperties
<1>2. \A i \in 1 .. Len(f) : f[Len(f) - i + 1] \in Folders
  <2>1. ASSUME NEW i \in 1 .. Len(f) PROVE f[Len(f) - i + 1] \in Folders
    <3>1. Len(f) - i + 1 \in 1 .. Len(f)
      BY <1>1
    <3>2. QED
      BY <3>1, ElementOfSeq
  <2>2. QED
    BY <2>1
<1>3. /\ r = [i \in 1 .. Len(f) |-> f[Len(f) - i + 1]]
      /\ o \in Seq(Folders) /\ Len(o) = 1 /\ o[1] = c
  BY DEF Browse!Reverse
<1> HIDE DEF r, o
<1>4. r \in Seq(Folders) /\ Len(r) = Len(f)
  BY <1>1, <1>2, <1>3
<1>5. h \in Seq(Folders) /\ Len(h) = Len(b) + 1
      /\ \A i \in 1 .. Len(b) + 1 : h[i] = IF i <= Len(b) THEN b[i] ELSE o[i - Len(b)]
  <2>1. /\ b \o o \in Seq(Folders) /\ Len(b \o o) = Len(b) + Len(o)
        /\ \A i \in 1 .. Len(b) + Len(o) : (b \o o)[i] = IF i <= Len(b) THEN b[i] ELSE o[i - Len(b)]
    BY <1>3, ConcatProperties, Zenon
  <2> HIDE DEF h
  <2>2. /\ h \in Seq(Folders) /\ Len(h) = Len(b) + Len(o)
        /\ \A i \in 1 .. Len(b) + Len(o) : h[i] = IF i <= Len(b) THEN b[i] ELSE o[i - Len(b)]
    BY <2>1, Zenon DEF h
  <2>3. QED
    BY <1>3, <2>2
<1> HIDE DEF h
<1>6. l \in Seq(Folders) /\ Len(l) = Len(h) + Len(r)
      /\ \A i \in 1 .. Len(h) + Len(r) : l[i] = IF i <= Len(h) THEN h[i] ELSE r[i - Len(h)]
  <2>1. h \in Seq(Folders) /\ r \in Seq(Folders)
    BY <1>4, <1>5
  <2>2. /\ h \o r \in Seq(Folders) /\ Len(h \o r) = Len(h) + Len(r)
        /\ \A i \in 1 .. Len(h) + Len(r) :
               (h \o r)[i] = IF i <= Len(h) THEN h[i] ELSE r[i - Len(h)]
    BY <2>1, ConcatProperties, Zenon
  <2>3. QED
    BY <2>2, Zenon
<1>7. DOMAIN l = 1 .. Len(l)
  BY <1>6, LenProperties
<1>8. b \o <<c>> \o Browse!Reverse(f) = l
  BY DEF r, o, h
<1> HIDE DEF l
<1>9. ASSUME NEW i \in 1 .. Len(b) + 1 + Len(f)
      PROVE  l[i] = IF i <= Len(b) THEN b[i] ELSE IF i = Len(b) + 1 THEN c
                    ELSE f[Len(b) + 2 + Len(f) - i]
  <2>1. CASE i <= Len(b)
    <3>1. i \in 1 .. Len(h) + Len(r) /\ i <= Len(h) /\ i \in 1 .. Len(b) + 1
      BY <1>1, <1>4, <1>5, <2>1
    <3>2. l[i] = h[i] /\ h[i] = b[i]
      BY <1>5, <1>6, <2>1, <3>1, Zenon
    <3>3. QED
      BY <2>1, <3>2
  <2>2. CASE i = Len(b) + 1
    BY <1>1, <1>3, <1>4, <1>5, <1>6, <2>2
  <2>3. CASE i > Len(b) + 1
    <3>1. i - Len(h) \in 1 .. Len(f) /\ l[i] = r[i - Len(h)]
      BY <1>1, <1>4, <1>5, <1>6, <2>3
    <3>2. Len(f) - (i - Len(h)) + 1 = Len(b) + 2 + Len(f) - i
      BY <1>1, <1>5
    <3>3. r[i - Len(h)] = f[Len(b) + 2 + Len(f) - i]
      BY <1>3, <3>1, <3>2
    <3>4. QED
      BY <1>1, <2>3, <3>1, <3>3
  <2>4. QED
    BY <1>1, <2>1, <2>2, <2>3
<1>10. ListOf(l, b, c, f, Len(b), Len(f))
  BY <1>4, <1>5, <1>6, <1>7, <1>9 DEF ListOf
<1>11. QED
  BY <1>8, <1>10

\* The last of a sequence, what is before it, and one more.
LEMMA FrontLast ==
    ASSUME NEW s \in Seq(Folders), s # <<>>
    PROVE  /\ Browse!Last(s) = s[Len(s)] /\ s[Len(s)] \in Folders
           /\ Len(s) \in Nat /\ Len(s) >= 1
           /\ Browse!Front(s) \in Seq(Folders) /\ Len(Browse!Front(s)) = Len(s) - 1
           /\ \A i \in 1 .. Len(s) - 1 : Browse!Front(s)[i] = s[i]
<1>1. Len(s) \in Nat /\ Len(s) >= 1 /\ s[Len(s)] \in Folders
  BY LenProperties, ElementOfSeq, EmptySeq
<1> DEFINE k == Len(s) - 1
           p == SubSeq(s, 1, k)
<1>2. k \in Nat /\ k <= Len(s)
  BY <1>1
<1>3. p \in Seq(Folders) /\ Len(p) = k /\ \A i \in 1 .. k : p[i] = s[i]
  <2> HIDE DEF k
  <2>1. QED
    BY <1>2, BeginningOf
<1>4. Browse!Front(s) = p /\ Browse!Last(s) = s[Len(s)]
  BY DEF Browse!Last, Browse!Front
<1>5. QED
  BY <1>1, <1>3, <1>4, Zenon

\* Of a list, the last of b is moved to where c is, and c to the end of f; a folder
\* that is gone is dropped, and c stays.
StepsBack(n, m, b, c, f, b2, c2, f2, there) ==
    /\ n \in Nat /\ m \in Nat /\ n >= 1
    /\ \A i \in 1 .. n - 1 : b2[i] = b[i]
    /\ \A i \in 1 .. m : f2[i] = f[i]
    /\ f2[m + 1] = c
    /\ c2 = b[n] \/ (c2 = c /\ b[n] \notin there)

\* Such a move keeps the others where they are.
LEMMA MovedBack ==
    ASSUME NEW n, NEW m, NEW v, NEW w, NEW b, NEW c, NEW f, NEW b2, NEW c2, NEW f2, NEW there,
           StepsBack(n, m, b, c, f, b2, c2, f2, there),
           ListOf(v, b, c, f, n, m), ListOf(w, b2, c2, f2, n - 1, m + 1)
    PROVE  Len(w) = Len(v) /\ \A i \in DOMAIN v : w[i] = v[i] \/ v[i] \notin there
<1> USE DEF StepsBack
<1>1. Len(w) = Len(v) /\ DOMAIN v = 1 .. n + 1 + m
  BY DEF ListOf
<1>2. ASSUME NEW i \in 1 .. n + 1 + m PROVE w[i] = v[i] \/ v[i] \notin there
  <2>1. /\ v[i] = IF i <= n THEN b[i] ELSE IF i = n + 1 THEN c ELSE f[n + 2 + m - i]
        /\ w[i] = IF i <= n - 1 THEN b2[i] ELSE IF i = n THEN c2 ELSE f2[n + 2 + m - i]
    <3>1. (n - 1) + 1 + (m + 1) = n + 1 + m /\ (n - 1) + 2 + (m + 1) - i = n + 2 + m - i
          /\ (n - 1) + 1 = n
      OBVIOUS
    <3>2. QED
      BY <3>1 DEF ListOf
  <2>2. CASE i <= n - 1
    BY <2>1, <2>2
  <2>3. CASE i = n
    BY <2>1, <2>3
  <2>4. CASE i = n + 1
    <3>1. n + 2 + m - i = m + 1
      BY <2>4
    <3>2. QED
      BY <2>1, <2>4, <3>1
  <2>5. CASE i > n + 1
    <3>1. n + 2 + m - i \in 1 .. m
      BY <2>5
    <3>2. QED
      BY <2>1, <2>5, <3>1
  <2>6. QED
    BY <2>2, <2>3, <2>4, <2>5
<1>3. QED
  BY <1>1, <1>2

\* And the other way.
StepsForward(n, m, b, c, f, b2, c2, f2, there) ==
    /\ n \in Nat /\ m \in Nat /\ m >= 1
    /\ \A i \in 1 .. m - 1 : f2[i] = f[i]
    /\ \A i \in 1 .. n : b2[i] = b[i]
    /\ b2[n + 1] = c
    /\ c2 = f[m] \/ (c2 = c /\ f[m] \notin there)

\* Such a move keeps the others where they are.
LEMMA MovedForward ==
    ASSUME NEW n, NEW m, NEW v, NEW w, NEW b, NEW c, NEW f, NEW b2, NEW c2, NEW f2, NEW there,
           StepsForward(n, m, b, c, f, b2, c2, f2, there),
           ListOf(v, b, c, f, n, m), ListOf(w, b2, c2, f2, n + 1, m - 1)
    PROVE  Len(w) = Len(v) /\ \A i \in DOMAIN v : w[i] = v[i] \/ v[i] \notin there
<1> USE DEF StepsForward
<1>1. Len(w) = Len(v) /\ DOMAIN v = 1 .. n + 1 + m
  BY DEF ListOf
<1>2. ASSUME NEW i \in 1 .. n + 1 + m PROVE w[i] = v[i] \/ v[i] \notin there
  <2>1. /\ v[i] = IF i <= n THEN b[i] ELSE IF i = n + 1 THEN c ELSE f[n + 2 + m - i]
        /\ w[i] = IF i <= n + 1 THEN b2[i] ELSE IF i = n + 2 THEN c2 ELSE f2[n + 2 + m - i]
    <3>1. (n + 1) + 1 + (m - 1) = n + 1 + m /\ (n + 1) + 2 + (m - 1) - i = n + 2 + m - i
          /\ (n + 1) + 1 = n + 2
      OBVIOUS
    <3>2. QED
      BY <3>1 DEF ListOf
  <2>2. CASE i <= n
    BY <2>1, <2>2
  <2>3. CASE i = n + 1
    BY <2>1, <2>3
  <2>4. CASE i = n + 2
    <3>1. n + 2 + m - i = m
      BY <2>4
    <3>2. QED
      BY <2>1, <2>4, <3>1
  <2>5. CASE i > n + 2
    <3>1. n + 2 + m - i \in 1 .. m - 1
      BY <2>5
    <3>2. QED
      BY <2>1, <2>5, <3>1
  <2>6. QED
    BY <2>2, <2>3, <2>4, <2>5
<1>3. QED
  BY <1>1, <1>2

\* A step that moves along the list, and one to a new folder.
Kept ==
    /\ Len(Browse!Visited') = Len(Browse!Visited)
    /\ \A i \in DOMAIN Browse!Visited :
          Browse!Visited'[i] = Browse!Visited[i] \/ Browse!Visited[i] \notin dirs

Recorded == back' = Append(back, current) /\ forward' = <<>>

\* What is visited, before and after a step.
LEMMA VisitedLists ==
    ASSUME ExplorerInv, ExplorerInv'
    PROVE  /\ ListOf(Browse!Visited, back, current, forward, Len(back), Len(forward))
           /\ ListOf(Browse!Visited', back', current', forward', Len(back'), Len(forward'))
<1>1. Browse!Visited = back \o <<current>> \o Browse!Reverse(forward)
  BY DEF Browse!Visited
<1>2. Browse!Visited' = back' \o <<current'>> \o Browse!Reverse(forward')
  BY DEF Browse!Visited, Browse!Reverse
<1>3. /\ back \in Seq(Folders) /\ forward \in Seq(Folders) /\ current \in Folders
      /\ back' \in Seq(Folders) /\ forward' \in Seq(Folders) /\ current' \in Folders
  BY DEF ExplorerInv
<1>4. ListOf(back \o <<current>> \o Browse!Reverse(forward), back, current, forward,
             Len(back), Len(forward))
  BY <1>3, VisitedAt
<1> DEFINE b == back'
           f == forward'
           c == current'
<1>5. ListOf(b \o <<c>> \o Browse!Reverse(f), b, c, f, Len(b), Len(f))
  <2>1. b \in Seq(Folders) /\ f \in Seq(Folders) /\ c \in Folders
    BY <1>3
  <2> HIDE DEF b, f, c
  <2>2. QED
    BY <2>1, VisitedAt
<1>6. QED
  BY <1>1, <1>2, <1>4, <1>5

\* Back.
LEMMA BackKeeps ==
    ASSUME ExplorerInv, Browse!GoBack
    PROVE  ExplorerInv' /\ Kept
<1>1. /\ back # <<>> /\ back' = Browse!Front(back) /\ forward' = Append(forward, current)
      /\ UNCHANGED dirs
      /\ current' = IF Browse!Last(back) \in dirs THEN Browse!Last(back) ELSE current
  BY DEF Browse!GoBack, Browse!Arrive
<1>2. /\ dirs \subseteq Folders /\ back \in Seq(Folders) /\ forward \in Seq(Folders)
      /\ current \in Folders
  BY DEF ExplorerInv
<1>3. /\ Browse!Last(back) = back[Len(back)] /\ back[Len(back)] \in Folders
      /\ Len(back) \in Nat /\ Len(back) >= 1
      /\ back' \in Seq(Folders) /\ Len(back') = Len(back) - 1
      /\ \A i \in 1 .. Len(back) - 1 : back'[i] = back[i]
  BY <1>1, <1>2, FrontLast
<1>4. /\ forward' \in Seq(Folders) /\ Len(forward') = Len(forward) + 1
      /\ \A i \in 1 .. Len(forward) : forward'[i] = forward[i]
      /\ forward'[Len(forward) + 1] = current
      /\ Len(forward) \in Nat
  <2>1. /\ Append(forward, current) \in Seq(Folders) /\ Len(Append(forward, current)) = Len(forward) + 1
        /\ \A i \in 1 .. Len(forward) : Append(forward, current)[i] = forward[i]
        /\ Append(forward, current)[Len(forward) + 1] = current
    BY <1>2, AppendProperties
  <2>2. QED
    BY <1>1, <1>2, <2>1, LenProperties, Zenon
<1>5. ExplorerInv'
  BY <1>1, <1>2, <1>3, <1>4 DEF ExplorerInv
<1> DEFINE v == Browse!Visited
           w == Browse!Visited'
           b2 == back'
           c2 == current'
           f2 == forward'
<1>6. /\ ListOf(v, back, current, forward, Len(back), Len(forward))
      /\ ListOf(w, b2, c2, f2, Len(back) - 1, Len(forward) + 1)
  BY <1>3, <1>4, <1>5, VisitedLists
<1>7. c2 = back[Len(back)] \/ (c2 = current /\ back[Len(back)] \notin dirs)
  BY <1>1, <1>3
<1>8. /\ \A i \in 1 .. Len(back) - 1 : b2[i] = back[i]
      /\ \A i \in 1 .. Len(forward) : f2[i] = forward[i]
      /\ f2[Len(forward) + 1] = current
  BY <1>3, <1>4
<1> HIDE DEF v, w, b2, c2, f2
<1>9. Len(w) = Len(v) /\ \A i \in DOMAIN v : w[i] = v[i] \/ v[i] \notin dirs
  <2> DEFINE n == Len(back)
             m == Len(forward)
  <2>1. /\ n \in Nat /\ m \in Nat /\ n >= 1
        /\ ListOf(v, back, current, forward, n, m) /\ ListOf(w, b2, c2, f2, n - 1, m + 1)
    BY <1>3, <1>4, <1>6
  <2> HIDE DEF n, m
  <2>2. StepsBack(n, m, back, current, forward, b2, c2, f2, dirs)
    BY <1>7, <1>8, <2>1 DEF StepsBack, n, m
  <2>3. QED
    BY <2>1, <2>2, MovedBack, Zenon
<1>10. QED
  BY <1>5, <1>9 DEF Kept, v, w

\* Forward.
LEMMA ForwardKeeps ==
    ASSUME ExplorerInv, Browse!GoForward
    PROVE  ExplorerInv' /\ Kept
<1>1. /\ forward # <<>> /\ forward' = Browse!Front(forward) /\ back' = Append(back, current)
      /\ UNCHANGED dirs
      /\ current' = IF Browse!Last(forward) \in dirs THEN Browse!Last(forward) ELSE current
  BY DEF Browse!GoForward, Browse!Arrive
<1>2. /\ dirs \subseteq Folders /\ back \in Seq(Folders) /\ forward \in Seq(Folders)
      /\ current \in Folders
  BY DEF ExplorerInv
<1>3. /\ Browse!Last(forward) = forward[Len(forward)] /\ forward[Len(forward)] \in Folders
      /\ Len(forward) \in Nat /\ Len(forward) >= 1
      /\ forward' \in Seq(Folders) /\ Len(forward') = Len(forward) - 1
      /\ \A i \in 1 .. Len(forward) - 1 : forward'[i] = forward[i]
  BY <1>1, <1>2, FrontLast
<1>4. /\ back' \in Seq(Folders) /\ Len(back') = Len(back) + 1
      /\ \A i \in 1 .. Len(back) : back'[i] = back[i]
      /\ back'[Len(back) + 1] = current
      /\ Len(back) \in Nat
  <2>1. /\ Append(back, current) \in Seq(Folders) /\ Len(Append(back, current)) = Len(back) + 1
        /\ \A i \in 1 .. Len(back) : Append(back, current)[i] = back[i]
        /\ Append(back, current)[Len(back) + 1] = current
    BY <1>2, AppendProperties
  <2>2. QED
    BY <1>1, <1>2, <2>1, LenProperties, Zenon
<1>5. ExplorerInv'
  BY <1>1, <1>2, <1>3, <1>4 DEF ExplorerInv
<1> DEFINE v == Browse!Visited
           w == Browse!Visited'
           b2 == back'
           c2 == current'
           f2 == forward'
<1>6. /\ ListOf(v, back, current, forward, Len(back), Len(forward))
      /\ ListOf(w, b2, c2, f2, Len(back) + 1, Len(forward) - 1)
  BY <1>3, <1>4, <1>5, VisitedLists
<1>7. c2 = forward[Len(forward)] \/ (c2 = current /\ forward[Len(forward)] \notin dirs)
  BY <1>1, <1>3
<1>8. /\ \A i \in 1 .. Len(forward) - 1 : f2[i] = forward[i]
      /\ \A i \in 1 .. Len(back) : b2[i] = back[i]
      /\ b2[Len(back) + 1] = current
  BY <1>3, <1>4
<1> HIDE DEF v, w, b2, c2, f2
<1>9. Len(w) = Len(v) /\ \A i \in DOMAIN v : w[i] = v[i] \/ v[i] \notin dirs
  <2> DEFINE n == Len(back)
             m == Len(forward)
  <2>1. /\ n \in Nat /\ m \in Nat /\ m >= 1
        /\ ListOf(v, back, current, forward, n, m) /\ ListOf(w, b2, c2, f2, n + 1, m - 1)
    BY <1>3, <1>4, <1>6
  <2> HIDE DEF n, m
  <2>2. StepsForward(n, m, back, current, forward, b2, c2, f2, dirs)
    BY <1>7, <1>8, <2>1 DEF StepsForward, n, m
  <2>3. QED
    BY <2>1, <2>2, MovedForward, Zenon
<1>10. QED
  BY <1>5, <1>9 DEF Kept, v, w

\* What leaves the history as it is.
LEMMA StayingKeeps ==
    ASSUME UNCHANGED <<back, current, forward>>
    PROVE  Kept
BY DEF Kept, Browse!Visited, Browse!Reverse

\* A visit of a folder.
LEMMA VisitKeeps ==
    ASSUME ExplorerInv, NEW p, Browse!NavigateTo(p), UNCHANGED dirs
    PROVE  ExplorerInv' /\ (Kept \/ Recorded)
<1>1. CASE p \notin dirs \/ p = current
  <2>1. UNCHANGED <<back, current, forward>>
    BY <1>1 DEF Browse!NavigateTo
  <2>2. QED
    BY <2>1, StayingKeeps DEF ExplorerInv
<1>2. CASE p \in dirs /\ p # current
  <2>1. back' = Append(back, current) /\ forward' = <<>> /\ current' = p
    BY <1>2 DEF Browse!NavigateTo
  <2>2. back' \in Seq(Folders) /\ forward' \in Seq(Folders)
    BY <2>1, AppendProperties DEF ExplorerInv
  <2>3. QED
    BY <1>2, <2>1, <2>2 DEF ExplorerInv, Recorded
<1>3. QED
  BY <1>1, <1>2

\* Every step of the window.
LEMMA ExplorerStepKeeps ==
    ASSUME ExplorerInv, Browse!Next
    PROVE  ExplorerInv' /\ (Kept \/ Recorded)
<1>1. ASSUME NEW p, Browse!Visit(p) PROVE ExplorerInv' /\ (Kept \/ Recorded)
  BY <1>1, VisitKeeps DEF Browse!Visit
<1>2. ASSUME NEW p, Browse!AddressEntered(p) PROVE ExplorerInv' /\ (Kept \/ Recorded)
  <2>1. CASE p \in dirs
    BY <1>1, <1>2, <2>1 DEF Browse!AddressEntered
  <2>2. CASE p \notin dirs
    <3>1. UNCHANGED <<dirs, back, current, forward>>
      BY <1>2, <2>2 DEF Browse!AddressEntered
    <3>2. QED
      BY <3>1, StayingKeeps DEF ExplorerInv
  <2>3. QED
    BY <2>1, <2>2
<1>3. CASE Browse!Refresh
  BY <1>3, VisitKeeps DEF Browse!Refresh
<1>4. CASE Browse!GoUp
  BY <1>1, <1>4 DEF Browse!GoUp
<1>5. CASE Browse!AddressReturned
  BY <1>2, <1>5 DEF Browse!AddressReturned
<1>6. ASSUME UNCHANGED <<back, current, forward>>, dirs' \subseteq Folders
      PROVE  ExplorerInv' /\ (Kept \/ Recorded)
  BY <1>6, StayingKeeps DEF ExplorerInv
<1>7. CASE Browse!Paste
  <2>1. UNCHANGED <<back, current, forward>> /\ dirs' \subseteq Folders
    BY <1>7 DEF Browse!Paste, Browse!Made, Browse!Shown, ExplorerInv
  <2>2. QED
    BY <1>6, <2>1
<1>8. ASSUME NEW p \in Folders, Browse!NewFolder(p) \/ Browse!Delete(p)
      PROVE  ExplorerInv' /\ (Kept \/ Recorded)
  <2>1. UNCHANGED <<back, current, forward>> /\ dirs' \subseteq Folders
    BY <1>8 DEF Browse!NewFolder, Browse!Delete, Browse!Made, Browse!Shown, ExplorerInv
  <2>2. QED
    BY <1>6, <2>1
<1>9. ASSUME NEW p \in Folders, Browse!Removed(p) \/ Browse!Returned(p)
      PROVE  ExplorerInv' /\ (Kept \/ Recorded)
  <2>1. UNCHANGED <<back, current, forward>> /\ dirs' \subseteq Folders
    BY <1>9 DEF Browse!Removed, Browse!Returned, ExplorerInv
  <2>2. QED
    BY <1>6, <2>1
<1>10. QED
  BY <1>1, <1>2, <1>3, <1>4, <1>5, <1>7, <1>8, <1>9, BackKeeps, ForwardKeeps DEF Browse!Next

\* Going back and forward never rewrites the list of folders visited, except for
\* entries whose folder is gone, and a new folder only drops what Forward led to
\* (navigateTo, goBack and goForward of ExplorerWindow).
THEOREM HistoryStaysKept == Spec => HistoryIsKept
<1>1. Init => ExplorerInv
  BY FoldersAssumption DEF FoldersAssumption, Init, Browse!Init, ExplorerInv
<1>2. ExplorerInv /\ [Next]_vars => ExplorerInv'
  <2>1. SUFFICES ASSUME ExplorerInv, [Browse!Next]_explorerVars PROVE ExplorerInv'
    BY ExplorerAlone
  <2>2. QED
    BY <2>1, ExplorerStepKeeps DEF explorerVars, ExplorerInv
<1>3. ExplorerInv /\ [Next]_vars => [Recorded \/ Kept]_Browse!explorerVars
  <2>1. SUFFICES ASSUME ExplorerInv, [Browse!Next]_explorerVars
                 PROVE  [Recorded \/ Kept]_Browse!explorerVars
    BY ExplorerAlone
  <2>2. CASE UNCHANGED explorerVars
    BY <2>2 DEF explorerVars, Browse!explorerVars
  <2>3. QED
    BY <2>1, <2>2, ExplorerStepKeeps
<1>4. QED
  BY <1>1, <1>2, <1>3, PTL DEF Spec, HistoryIsKept, Browse!HistoryIsKept, Recorded, Kept

-----------------------------------------------------------------------------
(* Documents: any files of each of the programs, saved, reopened, deleted  *)
(* and closed in any order, and written or not.                            *)

\* Steps of the composition are steps of the documents.
LEMMA DocumentsAlone ==
    ASSUME [Next]_vars
    PROVE  [Docs!Next]_documentsVars
BY DEF Next, vars, TasksStep, FilesStep, SearchStep, CalendarStep, TerminalStep, DocumentsStep,
       ExplorerStep, ClockStep, AppsStep, SystemStep, NetworkStep, RemoteStep, ShotStep,
       ViewerStep, StoreStep, KeyboardStep, CalcStep, Alone

\* The word pad without a mark has what is in its file, or nothing.
PadIsSaved ==
    /\ DOMAIN pad = {"up", "page", "path", "changed"}
    /\ pad.path \in PadPages \union {Absent}
    /\ pad.up /\ ~pad.changed /\ pad.page.text # 0 =>
          pad.path # Absent /\ disk[pad.path].text = pad.page.text

\* So has the paint program; the pen changes the image before there is a mark.
PaintIsSaved ==
    /\ DOMAIN paint = {"up", "image", "specks", "path", "changed", "tool", "stroke"}
    /\ paint.path \in PaintImages \union {Absent} /\ paint.tool \in {"pen", "shape"}
    /\ paint.up /\ ~paint.changed /\ (paint.stroke = "none" \/ paint.tool = "shape")
       /\ paint.image # 0 =>
          paint.path # Absent /\ disk[paint.path] = paint.image

\* A note that is not dirty has what is in its file, which may be gone.
NoteIsSaved ==
    /\ DOMAIN note = {"path", "text", "dirty", "timer"}
    /\ note.path \in StickyNotes \union {Absent} /\ (note.timer => note.path # Absent)
    /\ note.path # Absent /\ ~note.dirty => disk[note.path] \in {note.text, Absent}

DocsInv == DOMAIN disk = Docs!Files /\ PadIsSaved /\ PaintIsSaved /\ NoteIsSaved

\* Each program leaves the files of the others.
LEMMA OthersStay ==
    ASSUME DocsInv, DOMAIN disk' = Docs!Files
    PROVE  /\ pad' = pad /\ (\A f \in PadPages : disk'[f] = disk[f]) => PadIsSaved'
           /\ paint' = paint /\ (\A f \in PaintImages : disk'[f] = disk[f]) => PaintIsSaved'
           /\ note' = note /\ (\A f \in StickyNotes : disk'[f] = disk[f]) => NoteIsSaved'
<1>1. ASSUME pad' = pad, \A f \in PadPages : disk'[f] = disk[f] PROVE PadIsSaved'
  BY <1>1 DEF DocsInv, PadIsSaved
<1>2. ASSUME paint' = paint, \A f \in PaintImages : disk'[f] = disk[f] PROVE PaintIsSaved'
  BY <1>2 DEF DocsInv, PaintIsSaved
<1>3. ASSUME note' = note, \A f \in StickyNotes : disk'[f] = disk[f] PROVE NoteIsSaved'
  BY <1>3 DEF DocsInv, NoteIsSaved
<1>4. QED
  BY <1>1, <1>2, <1>3

\* A file that is written is the program's own.
LEMMA WrittenIsOwn ==
    ASSUME DOMAIN disk = Docs!Files, NEW g \in Docs!Files, NEW x, NEW d,
           d = [disk EXCEPT ![g] = x]
    PROVE  /\ DOMAIN d = Docs!Files /\ d[g] = x
           /\ \A f \in Docs!Files : f # g => d[f] = disk[f]
OBVIOUS

\* The word pad.
LEMMA PadKeeps ==
    ASSUME DocsInv, Docs!PadNext
    PROVE  DocsInv'
<1>1. paint' = paint /\ note' = note
  BY Zenon DEF Docs!PadNext, Docs!PadType, Docs!PadFormat, Docs!PadStart, Docs!PadOpen,
               Docs!PadSave, Docs!PadClose
<1>2. ASSUME disk' = disk, PadIsSaved' PROVE DocsInv'
  BY <1>1, <1>2, OthersStay DEF DocsInv
<1>3. CASE Docs!PadType \/ Docs!PadFormat
  <2>1. disk' = disk /\ DOMAIN pad' = DOMAIN pad /\ pad'.path = pad.path /\ pad'.changed = TRUE
    BY <1>3 DEF Docs!PadType, Docs!PadFormat, DocsInv, PadIsSaved
  <2>2. QED
    BY <1>2, <2>1 DEF DocsInv, PadIsSaved
<1>4. ASSUME NEW f \in PadPages, Docs!PadOpen(f) PROVE DocsInv'
  <2>1. /\ disk' = disk /\ DOMAIN pad' = DOMAIN pad /\ pad'.path = f /\ pad'.page = disk[f]
    BY <1>4 DEF Docs!PadOpen, DocsInv, PadIsSaved
  <2>2. QED
    BY <1>2, <1>4, <2>1, DocumentsAssumption DEF DocumentsAssumption, DocsInv, PadIsSaved
<1>5. ASSUME NEW c, Docs!PadClose(c) PROVE DocsInv'
  <2>1. disk' = disk /\ pad' = [Docs!NewPad EXCEPT !.up = FALSE]
    BY <1>5 DEF Docs!PadClose
  <2>2. PadIsSaved'
    BY <2>1 DEF Docs!NewPad, PadIsSaved
  <2>3. QED
    BY <1>2, <2>1, <2>2
<1>6. CASE Docs!PadStart
  <2>1. disk' = disk
    BY <1>6, Zenon DEF Docs!PadStart
  <2>2. CASE pad' = Docs!NewPad
    <3>1. PadIsSaved'
      BY <2>2 DEF Docs!NewPad, Docs!Blank, Docs!Page, PadIsSaved
    <3>2. QED
      BY <1>2, <2>1, <3>1
  <2>3. ASSUME NEW f \in PadPages, pad' = [Docs!NewPad EXCEPT !.page = disk[f], !.path = f]
        PROVE  DocsInv'
    <3>1. /\ DOMAIN pad' = {"up", "page", "path", "changed"}
          /\ pad'.path = f /\ pad'.page = disk[f]
      BY <2>3 DEF Docs!NewPad
    <3>2. QED
      BY <1>2, <2>1, <2>3, <3>1, DocumentsAssumption DEF DocumentsAssumption, PadIsSaved
  <2>4. QED
    BY <1>6, <2>2, <2>3, Zenon DEF Docs!PadStart
<1>7. ASSUME NEW f \in PadPages \union {Absent}, NEW w, Docs!PadSave(f, w) PROVE DocsInv'
  <2>1. CASE ~(f # Absent /\ w)
    <3>1. /\ disk' = disk /\ pad' = [pad EXCEPT !.path = f] /\ (pad.path # Absent => f = pad.path)
      BY <1>7, <2>1 DEF Docs!PadSave
    <3>2. PadIsSaved'
      BY <1>7, <3>1 DEF DocsInv, PadIsSaved
    <3>3. QED
      BY <1>2, <3>1, <3>2
  <2>2. CASE f # Absent /\ w
    <3>1. /\ disk' = [disk EXCEPT ![f] = Docs!Written(f)]
          /\ pad' = [pad EXCEPT !.path = f, !.changed = FALSE]
      BY <1>7, <2>2 DEF Docs!PadSave
    <3>2. f \in PadPages /\ f \in Docs!Files /\ DOMAIN disk = Docs!Files
      BY <1>7, <2>2 DEF Docs!Files, DocsInv
    <3>3. /\ DOMAIN disk' = Docs!Files /\ disk'[f] = Docs!Written(f)
          /\ \A g \in Docs!Files : g # f => disk'[g] = disk[g]
      BY <3>1, <3>2, WrittenIsOwn
    <3>4. Docs!Written(f).text = pad.page.text
      BY DEF Docs!Written, Docs!Page
    <3>5. PadIsSaved'
      <4>1. DOMAIN pad' = DOMAIN pad /\ pad'.path = f /\ pad'.page = pad.page
        BY <3>1 DEF DocsInv, PadIsSaved
      <4>2. QED
        BY <2>2, <3>2, <3>3, <3>4, <4>1 DEF DocsInv, PadIsSaved
    <3>6. /\ \A g \in PaintImages : disk'[g] = disk[g]
          /\ \A g \in StickyNotes : disk'[g] = disk[g]
      BY <3>2, <3>3, DocumentsAssumption DEF DocumentsAssumption, Docs!Files
    <3>7. QED
      BY <1>1, <3>3, <3>5, <3>6, OthersStay DEF DocsInv
  <2>3. QED
    BY <2>1, <2>2
<1>8. QED
  BY <1>3, <1>4, <1>5, <1>6, <1>7 DEF Docs!PadNext

\* The paint program.
LEMMA PaintKeeps ==
    ASSUME DocsInv, Docs!PaintNext
    PROVE  DocsInv'
<1>1. pad' = pad /\ note' = note
  BY Zenon DEF Docs!PaintNext, Docs!PaintPress, Docs!PaintMove, Docs!PaintRelease, Docs!PaintNew,
               Docs!PaintClose, Docs!PaintStart, Docs!PaintTool, Docs!PaintOpen, Docs!PaintSave
<1>2. ASSUME disk' = disk, PaintIsSaved' PROVE DocsInv'
  BY <1>1, <1>2, OthersStay DEF DocsInv
<1>3. /\ DOMAIN paint = {"up", "image", "specks", "path", "changed", "tool", "stroke"}
      /\ paint.path \in PaintImages \union {Absent} /\ paint.tool \in {"pen", "shape"}
  BY DEF DocsInv, PaintIsSaved
<1>4. ASSUME NEW t \in {"pen", "shape"}, Docs!PaintTool(t) PROVE DocsInv'
  <2>1. /\ disk' = disk /\ paint' = [paint EXCEPT !.tool = t] /\ paint.stroke = "none"
    BY <1>4 DEF Docs!PaintTool
  <2>2. PaintIsSaved'
    BY <1>4, <2>1 DEF DocsInv, PaintIsSaved
  <2>3. QED
    BY <1>2, <2>1, <2>2
<1>5. CASE Docs!PaintPress \/ Docs!PaintMove
  <2>1. disk' = disk
    BY <1>5 DEF Docs!PaintPress, Docs!PaintMove
  <2>2. PICK s \in {"pressed", "moved"} :
           \/ paint.tool = "pen" /\ paint' = [paint EXCEPT !.stroke = s, !.image = changes']
           \/ paint.tool # "pen" /\ paint' = [paint EXCEPT !.stroke = s]
    BY <1>5 DEF Docs!PaintPress, Docs!PaintMove
  <2>3. paint.stroke = "none" \/ paint.stroke # "none"
    OBVIOUS
  <2>4. CASE paint.tool = "pen"
    <3>1. paint' = [paint EXCEPT !.stroke = s, !.image = changes']
      BY <2>2, <2>4
    <3>2. /\ DOMAIN paint' = DOMAIN paint /\ paint'.path = paint.path /\ paint'.tool = "pen"
          /\ paint'.stroke = s /\ s # "none"
      BY <1>3, <2>4, <3>1
    <3>3. PaintIsSaved'
      BY <1>3, <3>2 DEF PaintIsSaved
    <3>4. QED
      BY <1>2, <2>1, <3>3
  <2>5. CASE paint.tool # "pen"
    <3>1. paint' = [paint EXCEPT !.stroke = s]
      BY <2>2, <2>5
    <3>2. paint.tool = "shape"
      BY <1>3, <2>5
    <3>3. PaintIsSaved'
      BY <1>3, <2>1, <3>1, <3>2 DEF DocsInv, PaintIsSaved
    <3>4. QED
      BY <1>2, <2>1, <3>3
  <2>6. QED
    BY <2>4, <2>5
<1>6. CASE Docs!PaintRelease
  <2>1. disk' = disk
    BY <1>6 DEF Docs!PaintRelease
  <2>2. \/ paint' = [paint EXCEPT !.stroke = "none", !.changed = TRUE]
        \/ paint' = [paint EXCEPT !.stroke = "none", !.changed = TRUE, !.image = changes']
        \/ paint.tool = "shape" /\ paint' = [paint EXCEPT !.stroke = "none", !.specks = TRUE]
    BY <1>6 DEF Docs!PaintRelease
  <2>3. PaintIsSaved'
    BY <1>3, <2>1, <2>2 DEF DocsInv, PaintIsSaved
  <2>4. QED
    BY <1>2, <2>1, <2>3
<1>7. CASE Docs!PaintNew \/ Docs!PaintClose
  <2>1. disk' = disk
    BY <1>7 DEF Docs!PaintNew, Docs!PaintClose
  <2>2. \/ paint' = [Docs!NewPaint EXCEPT !.tool = paint.tool]
        \/ paint' = [Docs!NewPaint EXCEPT !.up = FALSE]
    BY <1>7 DEF Docs!PaintNew, Docs!PaintClose
  <2>3. PaintIsSaved'
    BY <1>3, <2>2 DEF Docs!NewPaint, PaintIsSaved
  <2>4. QED
    BY <1>2, <2>1, <2>3
<1>8. ASSUME NEW f \in PaintImages,
             \/ paint' = [Docs!NewPaint EXCEPT !.tool = paint.tool, !.image = disk[f], !.path = f]
             \/ paint' = [Docs!NewPaint EXCEPT !.image = disk[f], !.path = f],
             disk' = disk
      PROVE  DocsInv'
  <2>1. /\ DOMAIN paint' = DOMAIN paint /\ paint'.path = f /\ paint'.image = disk[f]
        /\ paint'.tool \in {"pen", "shape"}
    BY <1>3, <1>8 DEF Docs!NewPaint
  <2>2. PaintIsSaved'
    BY <1>3, <1>8, <2>1, DocumentsAssumption DEF DocumentsAssumption, PaintIsSaved
  <2>3. QED
    BY <1>2, <1>8, <2>2
<1>9. ASSUME NEW f \in PaintImages, Docs!PaintOpen(f) PROVE DocsInv'
  BY <1>8, <1>9, Zenon DEF Docs!PaintOpen
<1>10. CASE Docs!PaintStart
  <2>1. CASE paint' = Docs!NewPaint
    <3>1. PaintIsSaved'
      BY <2>1 DEF Docs!NewPaint, PaintIsSaved
    <3>2. QED
      BY <1>2, <1>10, <3>1, Zenon DEF Docs!PaintStart
  <2>2. CASE paint' # Docs!NewPaint
    BY <1>8, <1>10, <2>2, Zenon DEF Docs!PaintStart
  <2>3. QED
    BY <2>1, <2>2
<1>11. ASSUME NEW f \in PaintImages \union {Absent}, NEW w, Docs!PaintSave(f, w) PROVE DocsInv'
  <2>1. CASE ~(f # Absent /\ w)
    <3>1. /\ disk' = disk /\ paint' = [paint EXCEPT !.path = f]
          /\ (paint.path # Absent => f = paint.path)
      BY <1>11, <2>1 DEF Docs!PaintSave, Docs!PaintSaved
    <3>2. PaintIsSaved'
      BY <1>11, <3>1 DEF DocsInv, PaintIsSaved
    <3>3. QED
      BY <1>2, <3>1, <3>2
  <2>2. CASE f # Absent /\ w
    <3>1. /\ disk' = [disk EXCEPT ![f] = paint.image]
          /\ paint' = [paint EXCEPT !.path = f, !.changed = FALSE]
      BY <1>11, <2>2 DEF Docs!PaintSave, Docs!PaintSaved
    <3>2. f \in PaintImages /\ f \in Docs!Files /\ DOMAIN disk = Docs!Files
      BY <1>11, <2>2 DEF Docs!Files, DocsInv
    <3>3. /\ DOMAIN disk' = Docs!Files /\ disk'[f] = paint.image
          /\ \A g \in Docs!Files : g # f => disk'[g] = disk[g]
      BY <3>1, <3>2, WrittenIsOwn
    <3>4. PaintIsSaved'
      <4>1. /\ DOMAIN paint' = DOMAIN paint /\ paint'.path = f /\ paint'.image = paint.image
            /\ paint'.tool = paint.tool
        BY <1>3, <3>1
      <4>2. QED
        BY <1>3, <2>2, <3>2, <3>3, <4>1 DEF PaintIsSaved
    <3>5. /\ \A g \in PadPages : disk'[g] = disk[g]
          /\ \A g \in StickyNotes : disk'[g] = disk[g]
      BY <3>2, <3>3, DocumentsAssumption DEF DocumentsAssumption, Docs!Files
    <3>6. QED
      BY <1>1, <3>3, <3>4, <3>5, OthersStay DEF DocsInv
  <2>3. QED
    BY <2>1, <2>2
<1>12. QED
  BY <1>4, <1>5, <1>6, <1>7, <1>9, <1>10, <1>11 DEF Docs!PaintNext

\* The sticky notes.
LEMMA NoteKeeps ==
    ASSUME DocsInv, Docs!NoteNext
    PROVE  DocsInv'
<1>1. pad' = pad /\ paint' = paint
  BY Zenon DEF Docs!NoteNext, Docs!NoteType, Docs!NoteOpen, Docs!NoteDelete, Docs!NoteTimeout,
               Docs!NoteClose
<1>2. ASSUME DOMAIN disk' = Docs!Files, \A g \in Docs!Files \ StickyNotes : disk'[g] = disk[g],
             NoteIsSaved'
      PROVE  DocsInv'
  <2>1. /\ \A g \in PadPages : disk'[g] = disk[g]
        /\ \A g \in PaintImages : disk'[g] = disk[g]
    BY <1>2, DocumentsAssumption DEF DocumentsAssumption, Docs!Files
  <2>2. QED
    BY <1>1, <1>2, <2>1, OthersStay DEF DocsInv
<1>3. /\ DOMAIN note = {"path", "text", "dirty", "timer"} /\ DOMAIN disk = Docs!Files
      /\ note.path \in StickyNotes \union {Absent} /\ StickyNotes \subseteq Docs!Files
  BY DEF DocsInv, NoteIsSaved, Docs!Files
<1>4. CASE Docs!NoteType
  <2>1. disk' = disk /\ note' = [note EXCEPT !.text = changes', !.dirty = TRUE, !.timer = TRUE]
        /\ note.path # Absent
    BY <1>4 DEF Docs!NoteType
  <2>2. NoteIsSaved'
    BY <1>3, <2>1 DEF NoteIsSaved
  <2>3. QED
    BY <1>2, <1>3, <2>1, <2>2
<1>5. ASSUME NEW f \in StickyNotes, Docs!NoteOpen(f) PROVE DocsInv'
  <2>1. /\ disk' = disk /\ DOMAIN note' = {"path", "text", "dirty", "timer"}
        /\ note'.path = f /\ note'.timer = FALSE
        /\ note'.text = IF disk[f] = Absent THEN 0 ELSE disk[f]
    BY <1>5 DEF Docs!NoteOpen, Docs!NoNote
  <2>2. NoteIsSaved'
    BY <1>5, <2>1, DocumentsAssumption DEF DocumentsAssumption, NoteIsSaved
  <2>3. QED
    BY <1>2, <1>3, <2>1, <2>2
<1>6. ASSUME NEW f \in StickyNotes, Docs!NoteDelete(f) PROVE DocsInv'
  <2>1. disk' = [disk EXCEPT ![f] = Absent] /\ note' = note
    BY <1>6 DEF Docs!NoteDelete
  <2>2. NoteIsSaved'
    BY <1>3, <2>1 DEF DocsInv, NoteIsSaved
  <2>3. QED
    BY <1>2, <1>3, <2>1, <2>2
<1>7. ASSUME NEW files, DOMAIN files = Docs!Files, NEW dirty, NEW w, note.path # Absent
      PROVE  LET d == Docs!SaveNow(files, dirty, w)[1]
             IN  /\ DOMAIN d = Docs!Files
                 /\ \A g \in Docs!Files \ StickyNotes : d[g] = files[g]
                 /\ Docs!SaveNow(files, dirty, w)[2] \/ ~dirty \/ d[note.path] = note.text
                 /\ ~dirty => d = files
  <2>1. CASE dirty /\ w
    <3>1. /\ Docs!SaveNow(files, dirty, w)[1] = [files EXCEPT ![note.path] = note.text]
          /\ note.path \in StickyNotes /\ note.path \in Docs!Files
      BY <1>3, <1>7, <2>1 DEF Docs!SaveNow
    <3>2. QED
      BY <1>7, <2>1, <3>1
  <2>2. CASE ~(dirty /\ w)
    <3>1. Docs!SaveNow(files, dirty, w)[1] = files /\ Docs!SaveNow(files, dirty, w)[2] = dirty
      BY <2>2 DEF Docs!SaveNow
    <3>2. QED
      BY <1>7, <3>1
  <2>3. QED
    BY <2>1, <2>2
<1>8. ASSUME NEW w, Docs!NoteTimeout(w) PROVE DocsInv'
  <2> DEFINE kept == Docs!SaveNow(disk, note.dirty, w)
             d == kept[1]
             x == kept[2]
  <2>1. disk' = d /\ note' = [note EXCEPT !.timer = FALSE, !.dirty = x] /\ note.path # Absent
    BY <1>8 DEF Docs!NoteTimeout, DocsInv, NoteIsSaved
  <2>2. /\ DOMAIN d = Docs!Files
        /\ \A g \in Docs!Files \ StickyNotes : d[g] = disk[g]
        /\ x \/ ~note.dirty \/ d[note.path] = note.text
        /\ ~note.dirty => d = disk
    BY <1>3, <1>7, <2>1
  <2> HIDE DEF kept, d, x
  <2>3. DOMAIN note' = DOMAIN note /\ note'.path = note.path /\ note'.text = note.text
        /\ note'.timer = FALSE /\ note'.dirty = x
    BY <1>3, <2>1
  <2>4. NoteIsSaved'
    BY <1>3, <2>1, <2>2, <2>3 DEF DocsInv, NoteIsSaved
  <2>5. QED
    BY <1>2, <2>1, <2>2, <2>4
<1>9. ASSUME NEW v, NEW w, Docs!NoteClose(v, w) PROVE DocsInv'
  <2> DEFINE once == Docs!SaveNow(disk, note.dirty, v)
             a == once[1]
             x == once[2]
             b == Docs!SaveNow(a, x, w)[1]
  <2>1. disk' = b /\ note' = Docs!NoNote /\ note.path # Absent
    BY <1>9 DEF Docs!NoteClose
  <2>2. DOMAIN a = Docs!Files /\ \A g \in Docs!Files \ StickyNotes : a[g] = disk[g]
    BY <1>3, <1>7, <2>1
  <2> HIDE DEF once, a, x
  <2>3. DOMAIN b = Docs!Files /\ \A g \in Docs!Files \ StickyNotes : b[g] = a[g]
    BY <1>7, <2>1, <2>2
  <2> HIDE DEF b
  <2>4. NoteIsSaved'
    BY <2>1 DEF Docs!NoNote, NoteIsSaved
  <2>5. QED
    BY <1>2, <2>1, <2>2, <2>3, <2>4
<1>10. QED
  BY <1>4, <1>5, <1>6, <1>8, <1>9 DEF Docs!NoteNext

\* The invariant holds.
LEMMA DocsInvHolds == Spec => []DocsInv
<1>1. Init => DocsInv
  <2>1. SUFFICES ASSUME Docs!Init PROVE DocsInv
    BY DEF Init
  <2>2. DOMAIN disk = Docs!Files
    BY <2>1 DEF Docs!Init
  <2>3. PadIsSaved
    BY <2>1 DEF Docs!Init, Docs!NewPad, Docs!Blank, Docs!Page, PadIsSaved
  <2>4. PaintIsSaved
    BY <2>1 DEF Docs!Init, Docs!NewPaint, PaintIsSaved
  <2>5. NoteIsSaved
    BY <2>1 DEF Docs!Init, Docs!NoNote, NoteIsSaved
  <2>6. QED
    BY <2>2, <2>3, <2>4, <2>5 DEF DocsInv
<1>2. DocsInv /\ [Next]_vars => DocsInv'
  <2>1. SUFFICES ASSUME DocsInv, [Docs!Next]_documentsVars PROVE DocsInv'
    BY DocumentsAlone
  <2>2. CASE UNCHANGED documentsVars
    BY <2>1, <2>2, OthersStay DEF documentsVars, DocsInv
  <2>3. CASE Docs!Next
    BY <2>3, PadKeeps, PaintKeeps, NoteKeeps, <2>1 DEF Docs!Next
  <2>4. QED
    BY <2>1, <2>2, <2>3
<1>3. QED
  BY <1>1, <1>2, PTL DEF Spec

-----------------------------------------------------------------------------
(* Viewer: any files, of any kinds and lengths, and pictures of any size.  *)

\* Steps of the composition are steps of the viewer.
LEMMA ViewerAlone ==
    ASSUME [Next]_vars
    PROVE  [View!Next]_viewerVars
BY DEF Next, vars, TasksStep, FilesStep, SearchStep, CalendarStep, TerminalStep, DocumentsStep,
       ExplorerStep, ClockStep, AppsStep, SystemStep, NetworkStep, RemoteStep, ShotStep,
       ViewerStep, StoreStep, KeyboardStep, CalcStep, Alone

\* The view is that of the file, and has it.
ViewIsTheFile ==
    path # Absent =>
        /\ view = View!DetectFileKind(path)
        /\ view = "text" => path = text[1]
        /\ view = "image" => path = image
        /\ view = "pdf" => path = doc

\* Only a PDF has pages, and the label and the buttons are those of the page that was
\* rendered last, which need not be the one on screen.
LabelIsRendered ==
    /\ view # "pdf" => actions \subseteq {"zoom"} /\ label = 0
    /\ view = "pdf" /\ label # 0 =>
          /\ label = rendered[2] + 1
          /\ "prev" \in actions <=> rendered[2] > 0
          /\ "next" \in actions <=> rendered[2] + 1 < rendered[1].pages

ViewerInv == view \in {"text", "image", "pdf"} /\ ViewIsTheFile /\ LabelIsRendered

\* A page is rendered, or not.
LEMMA RenderKeeps ==
    ASSUME LabelIsRendered, NEW base, View!RenderPdfPage(base), view' = "pdf",
           label # 0 => base \ {"zoom"} = actions \ {"zoom"}
    PROVE  LabelIsRendered'
<1>1. CASE /\ rendered' = <<doc', page', scale'>> /\ label' = page' + 1
           /\ actions' = {"zoom"} \union (IF page' > 0 THEN {"prev"} ELSE {})
                                  \union (IF page' + 1 < doc'.pages THEN {"next"} ELSE {})
  <2>1. rendered'[1] = doc' /\ rendered'[2] = page'
    BY <1>1
  <2>2. QED
    BY <1>1, <2>1 DEF LabelIsRendered
<1>2. CASE actions' = base /\ UNCHANGED <<rendered, label>>
  <2>1. CASE label = 0
    BY <1>2, <2>1 DEF LabelIsRendered
  <2>2. CASE label # 0
    <3>1. /\ "prev" \in actions' <=> "prev" \in actions
          /\ "next" \in actions' <=> "next" \in actions
      BY <1>2, <2>2
    <3>2. QED
      BY <1>2, <2>2, <3>1 DEF LabelIsRendered
  <2>3. QED
    BY <2>1, <2>2
<1>3. QED
  BY <1>1, <1>2 DEF View!RenderPdfPage

\* A file is opened.
LEMMA LoadFileKeeps ==
    ASSUME ViewerInv, NEW f, View!LoadFile(f)
    PROVE  ViewerInv'
<1>1. path' = f /\ View!DetectFileKind(f) \in {"text", "image", "pdf"}
  BY DEF View!LoadFile, View!DetectFileKind
<1>2. CASE View!DetectFileKind(f) = "text"
  <2>1. View!LoadText(f)
    BY <1>2 DEF View!LoadFile
  <2>2. QED
    BY <1>1, <1>2, <2>1
    DEF View!LoadText, ViewerInv, ViewIsTheFile, LabelIsRendered, View!DetectFileKind
<1>3. CASE View!DetectFileKind(f) = "image"
  <2>1. View!LoadImage(f)
    BY <1>3 DEF View!LoadFile
  <2>2. QED
    BY <1>1, <1>3, <2>1
    DEF View!LoadImage, ViewerInv, ViewIsTheFile, LabelIsRendered, View!DetectFileKind
<1>4. CASE View!DetectFileKind(f) = "pdf"
  <2>1. View!LoadPdf(f)
    BY <1>4 DEF View!LoadFile
  <2>2. view' = "pdf" /\ doc' = f /\ View!RenderPdfPage(actions \union {"zoom"})
    BY <2>1 DEF View!LoadPdf
  <2>3. LabelIsRendered'
    BY <2>2, RenderKeeps DEF ViewerInv
  <2>4. QED
    BY <1>1, <1>4, <2>2, <2>3 DEF ViewerInv, ViewIsTheFile, View!DetectFileKind
<1>5. QED
  BY <1>1, <1>2, <1>3, <1>4

\* What changes the scale or the page.
LEMMA RedrawKeeps ==
    ASSUME ViewerInv, UNCHANGED <<path, view, text, image, doc>>,
           \/ view = "pdf" /\ View!RenderPdfPage(actions)
           \/ UNCHANGED <<rendered, label, actions>>
    PROVE  ViewerInv'
<1>1. ViewIsTheFile' /\ view' \in {"text", "image", "pdf"}
  BY DEF ViewerInv, ViewIsTheFile, View!DetectFileKind
<1>2. LabelIsRendered'
  <2>1. CASE view = "pdf" /\ View!RenderPdfPage(actions)
    BY <2>1, RenderKeeps DEF ViewerInv
  <2>2. CASE UNCHANGED <<rendered, label, actions>>
    BY <2>2 DEF ViewerInv, LabelIsRendered
  <2>3. QED
    BY <2>1, <2>2
<1>3. QED
  BY <1>1, <1>2 DEF ViewerInv

\* The tool bar.
LEMMA ToolBarKeeps ==
    ASSUME ViewerInv,
           View!ZoomIn \/ View!ZoomOut \/ View!ZoomFit \/ View!PrevPage \/ View!NextPage
    PROVE  ViewerInv'
<1>1. ASSUME NEW to, View!Zoom(to) PROVE ViewerInv'
  BY <1>1, RedrawKeeps DEF View!Zoom, View!Redraw
<1>2. ASSUME NEW to, View!TurnPage(to), "prev" \in actions \/ "next" \in actions PROVE ViewerInv'
  <2>1. view = "pdf"
    BY <1>2 DEF ViewerInv, LabelIsRendered
  <2>2. QED
    BY <1>2, <2>1, RedrawKeeps DEF View!TurnPage
<1>3. QED
  BY <1>1, <1>2 DEF View!ZoomIn, View!ZoomOut, View!ZoomFit, View!PrevPage, View!NextPage

\* The invariant holds.
LEMMA ViewerInvHolds == Spec => []ViewerInv
<1>1. Init => ViewerInv
  BY DEF Init, View!Init, ViewerInv, ViewIsTheFile, LabelIsRendered
<1>2. ViewerInv /\ [Next]_vars => ViewerInv'
  <2>1. SUFFICES ASSUME ViewerInv, [View!Next]_viewerVars PROVE ViewerInv'
    BY ViewerAlone
  <2>2. CASE UNCHANGED viewerVars
    BY <2>1, <2>2, RedrawKeeps DEF viewerVars
  <2>3. CASE View!Next
    BY <2>1, <2>3, LoadFileKeeps, ToolBarKeeps DEF View!Next
  <2>4. QED
    BY <2>1, <2>2, <2>3
<1>3. QED
  BY <1>1, <1>2, PTL DEF Spec

\* A document that is not marked as changed is what its file holds, or empty, whichever
\* saves fail and dialogs are cancelled (changed_, imageChanged_ and dirty_); and
\* whatever was opened before and failed since, the viewer has the content of the file
\* in its title, and the buttons of its pages (ViewerWindow::loadFile, renderPdfPage).
THEOREM DocumentsStayTheirFiles == Spec => []DocumentsAreTheirFiles
<1>1. DocsInv => Docs!UnmarkedIsSaved
  <2>1. SUFFICES ASSUME DocsInv PROVE Docs!UnmarkedIsSaved
    OBVIOUS
  <2>2. pad.up /\ ~pad.changed /\ pad.page.text # 0 => disk[pad.path].text = pad.page.text
    BY <2>1 DEF DocsInv, PadIsSaved
  <2>3. paint.up /\ ~paint.changed /\ paint.stroke = "none" /\ paint.image # 0
          => paint.path # Absent /\ disk[paint.path] = paint.image
    BY <2>1 DEF DocsInv, PaintIsSaved
  <2>4. note.path # Absent /\ ~note.dirty => disk[note.path] \in {note.text, Absent}
    BY <2>1 DEF DocsInv, NoteIsSaved
  <2>5. QED
    BY <2>2, <2>3, <2>4 DEF Docs!UnmarkedIsSaved
<1>2. ViewerInv => View!ShownIsTheFile
  <2>1. SUFFICES ASSUME ViewerInv, path # Absent PROVE View!ShownIsTheFile
    BY DEF View!ShownIsTheFile
  <2>2. view = View!DetectFileKind(path)
    BY <2>1 DEF ViewerInv, ViewIsTheFile
  <2>3. path = CASE view = "text" -> text[1] [] view = "image" -> image [] view = "pdf" -> doc
    <3>1. CASE view = "text"
      BY <2>1, <3>1 DEF ViewerInv, ViewIsTheFile
    <3>2. CASE view = "image"
      BY <2>1, <3>2 DEF ViewerInv, ViewIsTheFile
    <3>3. CASE view = "pdf"
      BY <2>1, <3>3 DEF ViewerInv, ViewIsTheFile
    <3>4. QED
      BY <2>1, <3>1, <3>2, <3>3 DEF ViewerInv
  <2>4. view # "pdf" => actions \subseteq {"zoom"} /\ label = 0
    BY <2>1 DEF ViewerInv, LabelIsRendered
  <2>5. view = "pdf" /\ label # 0 /\ rendered = <<doc, page, scale>> =>
               /\ label = page + 1
               /\ "prev" \in actions <=> page > 0
               /\ "next" \in actions <=> page + 1 < doc.pages
    <3>1. ASSUME rendered = <<doc, page, scale>> PROVE rendered[1] = doc /\ rendered[2] = page
      BY <3>1
    <3>2. QED
      BY <2>1, <3>1 DEF ViewerInv, LabelIsRendered
  <2>6. QED
    BY <2>2, <2>3, <2>4, <2>5 DEF View!ShownIsTheFile
<1>3. QED
  BY <1>1, <1>2, DocsInvHolds, ViewerInvHolds, PTL DEF DocumentsAreTheirFiles

-----------------------------------------------------------------------------
(* The calculator: any digits and operators, and any number of keys.       *)

\* A key of a line: a digit, or an operator or "=" that led to an error.
CalcKeys == ({"digit"} \X NumberKeys) \union ((OperatorKeys \union {"="}) \X {0})

\* The places of a line, and its digits.
LEMMA KeysOfLine ==
    ASSUME NEW l \in Seq(CalcKeys)
    PROVE  /\ DOMAIN l = 1..Len(l) /\ Len(l) \in Nat
           /\ ~Calc!IsDigit(l, 0)
           /\ \A i \in 1..Len(l) : Calc!IsDigit(l, i) <=> l[i][1] = "digit"
           /\ \A i \in 1..Len(l) : Calc!IsDigit(l, i) => l[i][2] \in Nat
<1>1. DOMAIN l = 1..Len(l) /\ Len(l) \in Nat
  OBVIOUS
<1>2. \A i \in 1..Len(l) : l[i] \in CalcKeys
  OBVIOUS
<1>3. ASSUME NEW x \in CalcKeys, x[1] = "digit" PROVE x[2] \in Nat
  <2>1. CASE x \in {"digit"} \X NumberKeys
    BY <2>1, CalculatorAssumption
  <2>2. CASE x \in (OperatorKeys \union {"="}) \X {0}
    BY <2>2
  <2>3. QED
    BY <2>1, <2>2 DEF CalcKeys
<1>4. \A i \in 1..Len(l) : Calc!IsDigit(l, i) <=> l[i][1] = "digit"
  BY <1>1 DEF Calc!IsDigit
<1>5. ~Calc!IsDigit(l, 0)
  BY <1>1 DEF Calc!IsDigit
<1>6. QED
  BY <1>1, <1>2, <1>3, <1>4, <1>5

\* The place of the last of the first i keys that is no digit, or 0.
LastOp(l, i, o) ==
    /\ o \in 0..i
    /\ o # 0 => ~Calc!IsDigit(l, o)
    /\ \A k \in (o + 1)..i : Calc!IsDigit(l, k)

\* There is such a place.
LEMMA LastOpIs ==
    ASSUME NEW l, NEW i \in Nat
    PROVE  LastOp(l, i, Calc!LastOperator(l, i))
<1> DEFINE T == {k \in 1..i : ~Calc!IsDigit(l, k)}
           U == {0} \union T
           Top(x) == x \in U /\ \A y \in U : x >= y
<1>1. \E x : Top(x)
  <2>1. CASE T = {}
    <3>1. Top(0)
      BY <2>1
    <3>2. QED
      BY <3>1
  <2>2. CASE T # {}
    <3>1. T \in SUBSET (1..i)
      OBVIOUS
    <3> HIDE DEF T
    <3>2. PICK x \in T : \A y \in T : y <= x
      BY <2>2, <3>1, LastPlace
    <3>3. Top(x)
      BY <3>1, <3>2
    <3>4. QED
      BY <3>3
  <2>3. QED
    BY <2>1, <2>2
<1> DEFINE o == Calc!LastOperator(l, i)
<1>2. Top(o)
  <2>1. o = CHOOSE x \in U : \A y \in U : x >= y
    BY Zenon DEF Calc!LastOperator, Calc!Max
  <2> HIDE DEF U, o
  <2>2. QED
    BY <1>1, <2>1
<1> HIDE DEF o
<1>3. o \in 0..i /\ (o # 0 => ~Calc!IsDigit(l, o)) /\ \A k \in (o + 1)..i : Calc!IsDigit(l, k)
  BY <1>2
<1>4. QED
  BY <1>3, Zenon DEF LastOp, o

\* There is one such place.
LEMMA LastOpOne ==
    ASSUME NEW l, NEW i \in Nat, NEW o, LastOp(l, i, o)
    PROVE  Calc!LastOperator(l, i) = o
<1> DEFINE p == Calc!LastOperator(l, i)
<1>1. LastOp(l, i, p)
  BY LastOpIs, Zenon
<1> HIDE DEF p
<1>2. p = o
  BY <1>1 DEF LastOp
<1>3. QED
  BY <1>2, Zenon DEF p

\* What the number at each key is.
NumbersOf(l, f) ==
    /\ f \in [0..Len(l) -> Nat] /\ f[0] = 0
    /\ \A k \in 1..Len(l) : f[k] = IF Calc!IsDigit(l, k) THEN 10 * f[k - 1] + l[k][2] ELSE 0

\* The numbers of a line are read digit by digit.
LEMMA NumbersRead ==
    ASSUME NEW l \in Seq(CalcKeys)
    PROVE  \E f : NumbersOf(l, f) /\ \A i : Calc!Number(l, i) = <<f[i], 1>>
<1> DEFINE n == Len(l)
<1>1. n \in Nat /\ ~Calc!IsDigit(l, 0)
      /\ \A i \in 1..n : Calc!IsDigit(l, i) => l[i][2] \in Nat
  BY KeysOfLine
<1> DEFINE F == [x \in Nat \X (1..n) |->
                    IF Calc!IsDigit(l, x[2]) THEN 10 * x[1] + l[x[2]][2] ELSE 0]
           Read(f) == f = [k \in 0..n |->
                          IF Calc!IsDigit(l, k) THEN 10 * f[k - 1] + l[k][2] ELSE 0]
<1> HIDE DEF n
<1>2. F \in [Nat \X (1..n) -> Nat]
  BY <1>1
<1>3. \A a \in Nat, k \in 1..n :
         F[<<a, k>>] = IF Calc!IsDigit(l, k) THEN 10 * a + l[k][2] ELSE 0
  OBVIOUS
<1> HIDE DEF F
<1>4. PICK g : Values(g, Nat, 0, n, F)
  BY <1>1, <1>2, Computed, Zenon
<1>5. /\ g \in [0..n -> Nat] /\ g[0] = 0
      /\ \A k \in 1..n : g[k] = IF Calc!IsDigit(l, k) THEN 10 * g[k - 1] + l[k][2] ELSE 0
  <2>1. g \in [0..n -> Nat] /\ g[0] = 0 /\ \A k \in 1..n : g[k] = F[<<g[k - 1], k>>]
    BY <1>4, Zenon DEF Values
  <2>2. \A k \in 1..n : g[k - 1] \in Nat
    BY <1>1, <2>1
  <2>3. QED
    BY <1>3, <2>1, <2>2
<1>6. Read(g)
  BY <1>1, <1>5
<1> DEFINE f == CHOOSE h : Read(h)
<1>7. Read(f)
  BY <1>6, Zenon
<1>8. \A i : Calc!Number(l, i) = <<f[i], 1>>
  BY Zenon DEF Calc!Number, n
<1> HIDE DEF f
<1>9. DOMAIN f = 0..n /\ f = [k \in DOMAIN f |-> f[k]]
  BY <1>7
<1>10. /\ f[0] = 0
       /\ \A k \in 1..n : f[k] = IF Calc!IsDigit(l, k) THEN 10 * f[k - 1] + l[k][2] ELSE 0
  <2>1. \A k \in 0..n : f[k] = IF Calc!IsDigit(l, k) THEN 10 * f[k - 1] + l[k][2] ELSE 0
    BY <1>7
  <2>2. 0 \in 0..n /\ \A k \in 1..n : k \in 0..n
    BY <1>1
  <2>3. QED
    BY <1>1, <2>1, <2>2, Zenon
<1> HIDE DEF Read
<1>11. \A k \in 0..n : f[k] \in Nat
  <2>1. ASSUME NEW k \in 1..n, f[k - 1] \in Nat PROVE f[k] \in Nat
    <3>1. CASE Calc!IsDigit(l, k)
      <4>1. l[k][2] \in Nat /\ f[k] = 10 * f[k - 1] + l[k][2]
        BY <1>1, <1>10, <3>1, Zenon
      <4>2. QED
        BY <2>1, <4>1
    <3>2. CASE ~Calc!IsDigit(l, k)
      BY <1>10, <3>2
    <3>3. QED
      BY <3>1, <3>2
  <2>2. f[0] \in Nat
    BY <1>10
  <2>3. QED
    BY <1>1, <2>1, <2>2, Reached, Zenon
<1>12. f \in [0..n -> Nat]
  BY <1>9, <1>11
<1>13. QED
  BY <1>8, <1>10, <1>12, Zenon DEF NumbersOf, n

\* The number that ends at a key, from the one before.
LEMMA NumberSteps ==
    ASSUME NEW l \in Seq(CalcKeys)
    PROVE  /\ Calc!Number(l, 0) = <<0, 1>>
           /\ \A i \in 1..Len(l) :
                /\ Calc!IsDigit(l, i) =>
                      Calc!Number(l, i) = <<10 * Calc!Number(l, i - 1)[1] + l[i][2], 1>>
                /\ ~Calc!IsDigit(l, i) => Calc!Number(l, i) = <<0, 1>>
<1>1. PICK f : NumbersOf(l, f) /\ \A i : Calc!Number(l, i) = <<f[i], 1>>
  BY NumbersRead, Zenon
<1>2. \A i : Calc!Number(l, i)[1] = f[i]
  BY <1>1
<1>3. QED
  BY <1>1, <1>2 DEF NumbersOf

\* The value of the first k keys, from those of fewer keys.
Reading(l, c, v, k) ==
    IF k = 0 THEN c
    ELSE IF ~Calc!IsDigit(l, k) THEN v[k - 1]
    ELSE IF Calc!LastOperator(l, k) = 0 THEN Calc!Number(l, k)
    ELSE Calc!Apply(l[Calc!LastOperator(l, k)][1], v[Calc!LastOperator(l, k)], Calc!Number(l, k))

\* It depends on the values of fewer keys only.
LEMMA ReadingLooksBack ==
    ASSUME NEW l \in Seq(CalcKeys), NEW c, NEW k \in Nat, NEW v, NEW w,
           \A j \in 0..(k - 1) : v[j] = w[j]
    PROVE  Reading(l, c, v, k) = Reading(l, c, w, k)
<1> DEFINE o == Calc!LastOperator(l, k)
<1>1. LastOp(l, k, o)
  BY LastOpIs, Zenon
<1> HIDE DEF o
<1>2. CASE k = 0
  BY <1>2, Zenon DEF Reading
<1>3. CASE k # 0 /\ ~Calc!IsDigit(l, k)
  <2>1. k - 1 \in 0..(k - 1)
    BY <1>3
  <2>2. v[k - 1] = w[k - 1]
    BY <2>1
  <2>3. QED
    BY <1>3, <2>2, Zenon DEF Reading
<1>4. CASE k # 0 /\ Calc!IsDigit(l, k)
  <2>1. o = 0 \/ o \in 0..(k - 1)
    BY <1>1, <1>4 DEF LastOp
  <2>2. o = 0 \/ v[o] = w[o]
    BY <2>1
  <2>3. QED
    BY <1>4, <2>2, Zenon DEF Reading, o
<1>5. QED
  BY <1>2, <1>3, <1>4

\* The values of a line are read key by key.
LEMMA ValuesRead ==
    ASSUME NEW l \in Seq(CalcKeys), NEW c, NEW i \in 0..Len(l)
    PROVE  \E v : /\ \A k \in 0..Len(l) : v[k] = Reading(l, c, v, k)
                  /\ \A j : Calc!Value(l, c, j) = v[j]
<1> DEFINE n == Len(l)
           Up(m) == \E g : DOMAIN g = 0..m /\ \A k \in 0..m : g[k] = Reading(l, c, g, k)
           bad == {m \in 0..n : ~Up(m)}
<1>1. n \in Nat
  OBVIOUS
<1> HIDE DEF n
<1>2. Up(0)
  <2> DEFINE g == [k \in 0..0 |-> c]
  <2>1. g[0] = Reading(l, c, g, 0) /\ DOMAIN g = 0..0
    BY DEF Reading
  <2> HIDE DEF g
  <2>2. \A k \in 0..0 : g[k] = Reading(l, c, g, k)
    BY <2>1
  <2>3. QED
    BY <2>1, <2>2
<1>3. ASSUME NEW m \in 1..n, Up(m - 1) PROVE Up(m)
  <2>1. PICK g : DOMAIN g = 0..(m - 1) /\ \A k \in 0..(m - 1) : g[k] = Reading(l, c, g, k)
    BY <1>3
  <2> DEFINE last == Reading(l, c, g, m)
             h == [k \in 0..m |-> IF k = m THEN last ELSE g[k]]
  <2>2. m \in Nat /\ m \in 0..m /\ \A k \in 0..m : k = m \/ k \in 0..(m - 1)
    BY <1>1
  <2> HIDE DEF last
  <2>3. DOMAIN h = 0..m /\ h[m] = last /\ \A k \in 0..(m - 1) : h[k] = g[k]
    BY <2>2
  <2> HIDE DEF h
  <2>4. ASSUME NEW k \in 0..m PROVE Reading(l, c, h, k) = Reading(l, c, g, k)
    <3>1. k \in Nat /\ \A j \in 0..(k - 1) : h[j] = g[j]
      BY <2>2, <2>3
    <3>2. QED
      BY <3>1, ReadingLooksBack
  <2>5. ASSUME NEW k \in 0..m PROVE h[k] = Reading(l, c, h, k)
    <3>1. CASE k = m
      BY <2>3, <2>4, <3>1, Zenon DEF last
    <3>2. CASE k \in 0..(m - 1)
      <4>1. h[k] = Reading(l, c, g, k)
        BY <2>1, <2>3, <3>2
      <4>2. QED
        BY <2>4, <4>1, Zenon
    <3>3. QED
      BY <2>2, <3>1, <3>2
  <2>6. QED
    BY <2>3, <2>5
<1> HIDE DEF Up
<1>4. Up(n)
  <2>1. SUFFICES ASSUME bad # {} PROVE FALSE
    BY <1>1
  <2>2. bad \subseteq Nat
    OBVIOUS
  <2> HIDE DEF bad
  <2>3. PICK x \in bad : \A y \in bad : x <= y
    BY <2>1, <2>2, SmallestExists
  <2>4. x \in 1..n /\ ~Up(x)
    BY <1>1, <1>2 DEF bad
  <2>5. x - 1 \in 0..n /\ x - 1 < x /\ x - 1 \in Nat /\ x \in Nat
    BY <1>1, <2>4
  <2>6. x - 1 \notin bad
    BY <2>3, <2>5
  <2>7. Up(x - 1)
    BY <2>5, <2>6 DEF bad
  <2>8. QED
    BY <1>3, <2>4, <2>7
<1> DEFINE Read(v) == v = [k \in 0..n |-> Reading(l, c, v, k)]
<1>5. PICK g : DOMAIN g = 0..n /\ \A k \in 0..n : g[k] = Reading(l, c, g, k)
  BY <1>4 DEF Up
<1> DEFINE r(v) == [k \in 0..n |-> Reading(l, c, v, k)]
<1>6. \E v : Read(v)
  <2> DEFINE v == r(g)
  <2>1. DOMAIN v = 0..n /\ \A k \in 0..n : v[k] = g[k]
    BY <1>5
  <2>2. \A k \in 0..n : Reading(l, c, v, k) = Reading(l, c, g, k)
    <3> HIDE DEF v
    <3>1. TAKE k \in 0..n
    <3>2. k \in Nat /\ \A j \in 0..(k - 1) : v[j] = g[j]
      BY <1>1, <2>1
    <3>3. QED
      BY <3>2, ReadingLooksBack
  <2>3. r(v) = r(g)
    BY <2>2
  <2>4. Read(v)
    BY <2>3, Zenon
  <2>5. QED
    BY <2>4
<1> DEFINE v == CHOOSE h : Read(h)
<1>7. Read(v)
  BY <1>6, Zenon
<1>8. \A j : Calc!Value(l, c, j) = v[j]
  BY Zenon DEF Calc!Value, n, Reading
<1> HIDE DEF v
<1>9. \A k \in 0..n : v[k] = Reading(l, c, v, k)
  BY <1>7
<1>10. QED
  BY <1>8, <1>9, Zenon DEF n

\* The value of the first k keys: that of the keys before an operator, a first number,
\* or what the operator makes of the value before it and of the number.
LEMMA ValueSteps ==
    ASSUME NEW l \in Seq(CalcKeys), NEW c
    PROVE  /\ Calc!Value(l, c, 0) = c
           /\ \A k \in 1..Len(l) :
                 ~Calc!IsDigit(l, k) => Calc!Value(l, c, k) = Calc!Value(l, c, k - 1)
           /\ \A k \in 1..Len(l) : Calc!IsDigit(l, k) =>
                 Calc!Value(l, c, k) =
                    IF Calc!LastOperator(l, k) = 0 THEN Calc!Number(l, k)
                    ELSE Calc!Apply(l[Calc!LastOperator(l, k)][1],
                            Calc!Value(l, c, Calc!LastOperator(l, k)), Calc!Number(l, k))
<1>1. Len(l) \in Nat /\ 0 \in 0..Len(l) /\ \A k \in 1..Len(l) : k \in 0..Len(l) /\ k # 0
  OBVIOUS
<1>2. PICK v : /\ \A k \in 0..Len(l) : v[k] = Reading(l, c, v, k)
               /\ \A j : Calc!Value(l, c, j) = v[j]
  BY <1>1, ValuesRead, Zenon
<1>3. v[0] = c
  BY <1>1, <1>2, Zenon DEF Reading
<1>4. ASSUME NEW k \in 1..Len(l), ~Calc!IsDigit(l, k)
      PROVE  v[k] = v[k - 1]
  BY <1>1, <1>2, <1>4, Zenon DEF Reading
<1>5. ASSUME NEW k \in 1..Len(l), Calc!IsDigit(l, k)
      PROVE  v[k] = IF Calc!LastOperator(l, k) = 0 THEN Calc!Number(l, k)
                    ELSE Calc!Apply(l[Calc!LastOperator(l, k)][1],
                            v[Calc!LastOperator(l, k)], Calc!Number(l, k))
  BY <1>1, <1>2, <1>5, Zenon DEF Reading
<1>6. QED
  BY <1>2, <1>3, <1>4, <1>5, Zenon


\* The first n keys are the same.
Agree(l, m, n) ==
    /\ l \in Seq(CalcKeys) /\ m \in Seq(CalcKeys)
    /\ n \in Nat /\ n <= Len(l) /\ n <= Len(m)
    /\ \A k \in 1..n : l[k] = m[k]

\* Lines that begin alike have the same digits there.
LEMMA DigitsAgree ==
    ASSUME NEW l, NEW m, NEW n, Agree(l, m, n), NEW k \in 0..n
    PROVE  Calc!IsDigit(l, k) <=> Calc!IsDigit(m, k)
<1>1. CASE k = 0
  BY <1>1, KeysOfLine DEF Agree
<1>2. CASE k \in 1..n
  <2>1. k \in 1..Len(l) /\ k \in 1..Len(m) /\ l[k] = m[k]
    BY <1>2 DEF Agree
  <2>2. (Calc!IsDigit(l, k) <=> l[k][1] = "digit") /\ (Calc!IsDigit(m, k) <=> m[k][1] = "digit")
    BY <2>1, KeysOfLine DEF Agree
  <2>3. QED
    BY <2>1, <2>2
<1>3. QED
  BY <1>1, <1>2 DEF Agree

\* They have the same last operators there.
LEMMA OperatorsAgree ==
    ASSUME NEW l, NEW m, NEW n, Agree(l, m, n), NEW k \in 0..n
    PROVE  Calc!LastOperator(l, k) = Calc!LastOperator(m, k)
<1> DEFINE o == Calc!LastOperator(l, k)
<1>1. k \in Nat /\ n \in Nat
  BY DEF Agree
<1>2. LastOp(l, k, o)
  BY <1>1, LastOpIs, Zenon
<1> HIDE DEF o
<1>3. \A j \in 0..k : Calc!IsDigit(l, j) <=> Calc!IsDigit(m, j)
  <2>1. \A j \in 0..k : j \in 0..n
    BY <1>1
  <2>2. QED
    BY <2>1, DigitsAgree, Zenon
<1>4. LastOp(m, k, o)
  <2>1. o \in 0..k /\ \A j \in (o + 1)..k : j \in 0..k
    BY <1>1, <1>2 DEF LastOp
  <2>2. QED
    BY <1>2, <1>3, <2>1, Zenon DEF LastOp
<1>5. Calc!LastOperator(m, k) = o
  BY <1>1, <1>4, LastOpOne, Zenon
<1>6. QED
  BY <1>5, Zenon DEF o

\* They have the same numbers there.
LEMMA NumbersAgree ==
    ASSUME NEW l, NEW m, NEW n, Agree(l, m, n), NEW k \in 0..n
    PROVE  Calc!Number(l, k) = Calc!Number(m, k)
<1> DEFINE bad == {i \in 0..n : Calc!Number(l, i) # Calc!Number(m, i)}
<1>1. n \in Nat /\ l \in Seq(CalcKeys) /\ m \in Seq(CalcKeys)
      /\ \A i \in 1..n : i \in 1..Len(l) /\ i \in 1..Len(m) /\ l[i] = m[i]
  BY DEF Agree
<1>2. SUFFICES ASSUME bad # {} PROVE FALSE
  OBVIOUS
<1>3. bad \subseteq Nat
  OBVIOUS
<1>4. 0 \notin bad
  BY <1>1, NumberSteps
<1>5. \A i \in 1..n : Calc!Number(l, i - 1) = Calc!Number(m, i - 1) => i \notin bad
  <2>1. ASSUME NEW i \in 1..n, Calc!Number(l, i - 1) = Calc!Number(m, i - 1)
        PROVE  Calc!Number(l, i) = Calc!Number(m, i)
    <3>1. Calc!IsDigit(l, i) <=> Calc!IsDigit(m, i)
      <4>1. i \in 0..n
        BY <1>1
      <4>2. QED
        BY <4>1, DigitsAgree, Zenon
    <3>2. l[i] = m[i] /\ i \in 1..Len(l) /\ i \in 1..Len(m)
      BY <1>1
    <3>3. QED
      BY <1>1, <2>1, <3>1, <3>2, NumberSteps, Zenon
  <2>2. QED
    BY <2>1
<1>6. \A i \in 0..n : i \notin bad => Calc!Number(l, i) = Calc!Number(m, i)
  OBVIOUS
<1>7. bad \subseteq 0..n
  OBVIOUS
<1> HIDE DEF bad
<1>8. PICK i \in bad : \A y \in bad : i <= y
  BY <1>2, <1>3, SmallestExists
<1>9. i \in 1..n /\ i - 1 \in 0..n /\ i - 1 < i
  BY <1>1, <1>4, <1>7, <1>8
<1>10. i - 1 \notin bad
  BY <1>3, <1>8, <1>9
<1>11. QED
  BY <1>5, <1>6, <1>8, <1>9, <1>10

\* And they have the same values there.
LEMMA ValuesAgree ==
    ASSUME NEW l, NEW m, NEW n, Agree(l, m, n), NEW c, NEW k \in 0..n
    PROVE  Calc!Value(l, c, k) = Calc!Value(m, c, k)
<1> DEFINE bad == {i \in 0..n : Calc!Value(l, c, i) # Calc!Value(m, c, i)}
<1>1. n \in Nat /\ l \in Seq(CalcKeys) /\ m \in Seq(CalcKeys)
      /\ \A i \in 1..n : i \in 0..n /\ i \in Nat /\ i \in 1..Len(l) /\ i \in 1..Len(m) /\ l[i] = m[i]
  BY DEF Agree
<1>2. SUFFICES ASSUME bad # {} PROVE FALSE
  OBVIOUS
<1>3. bad \subseteq Nat
  OBVIOUS
<1>4. 0 \notin bad
  <2>1. Calc!Value(l, c, 0) = c /\ Calc!Value(m, c, 0) = c
    BY <1>1, ValueSteps, Zenon
  <2>2. QED
    BY <2>1
<1>5. ASSUME NEW i \in 1..n, \A j \in 0..(i - 1) : Calc!Value(l, c, j) = Calc!Value(m, c, j)
      PROVE  Calc!Value(l, c, i) = Calc!Value(m, c, i)
  <2>1. Calc!IsDigit(l, i) <=> Calc!IsDigit(m, i)
    BY <1>1, DigitsAgree, Zenon
  <2>2. Calc!Number(l, i) = Calc!Number(m, i)
    BY <1>1, NumbersAgree, Zenon
  <2> DEFINE o == Calc!LastOperator(l, i)
  <2>3. o = Calc!LastOperator(m, i)
    BY <1>1, OperatorsAgree, Zenon
  <2>4. LastOp(l, i, o)
    BY <1>1, LastOpIs, Zenon
  <2>5. i \in 1..Len(l) /\ i \in 1..Len(m)
    BY <1>1, Zenon
  <2>6. CASE ~Calc!IsDigit(l, i)
    <3>1. i - 1 \in 0..(i - 1)
      BY <1>1
    <3>2. Calc!Value(l, c, i) = Calc!Value(l, c, i - 1)
      BY <1>1, <2>5, <2>6, ValueSteps, Zenon
    <3>3. Calc!Value(m, c, i) = Calc!Value(m, c, i - 1)
      BY <1>1, <2>1, <2>5, <2>6, ValueSteps, Zenon
    <3>4. QED
      BY <1>5, <3>1, <3>2, <3>3, Zenon
  <2>7. CASE Calc!IsDigit(l, i)
    <3>1. Calc!Value(l, c, i) = IF o = 0 THEN Calc!Number(l, i)
                      ELSE Calc!Apply(l[o][1], Calc!Value(l, c, o), Calc!Number(l, i))
      BY <1>1, <2>5, <2>7, ValueSteps, Zenon
    <3>2. Calc!Value(m, c, i) = IF o = 0 THEN Calc!Number(m, i)
                      ELSE Calc!Apply(m[o][1], Calc!Value(m, c, o), Calc!Number(m, i))
      <4> DEFINE p == Calc!LastOperator(m, i)
      <4>1. Calc!Value(m, c, i) = IF p = 0 THEN Calc!Number(m, i)
                        ELSE Calc!Apply(m[p][1], Calc!Value(m, c, p), Calc!Number(m, i))
        BY <1>1, <2>1, <2>5, <2>7, ValueSteps, Zenon
      <4> HIDE DEF o, p
      <4>2. o = p
        BY <2>3 DEF p
      <4>3. QED
        BY <4>1, <4>2, Zenon
    <3> HIDE DEF o
    <3>3. o = 0 \/ (o \in 0..(i - 1) /\ o \in 1..n)
      BY <1>1, <2>4, <2>7 DEF LastOp
    <3>4. CASE o = 0
      BY <2>2, <3>1, <3>2, <3>4, Zenon
    <3>5. CASE o # 0
      <4>1. l[o] = m[o] /\ Calc!Value(l, c, o) = Calc!Value(m, c, o)
        BY <1>1, <1>5, <3>3, <3>5, Zenon
      <4>2. QED
        BY <2>2, <3>1, <3>2, <3>5, <4>1, Zenon
    <3>6. QED
      BY <3>4, <3>5
  <2>8. QED
    BY <2>6, <2>7
<1>6. \A i \in 0..n : i \notin bad <=> Calc!Value(l, c, i) = Calc!Value(m, c, i)
  OBVIOUS
<1>7. bad \subseteq 0..n
  OBVIOUS
<1> HIDE DEF bad
<1>8. PICK i \in bad : \A y \in bad : i <= y
  BY <1>2, <1>3, SmallestExists
<1>9. i \in 1..n /\ i \in 0..n /\ \A j \in 0..(i - 1) : j \in 0..n /\ j < i /\ j \in Nat
  BY <1>1, <1>4, <1>7, <1>8
<1>10. \A j \in 0..(i - 1) : j \notin bad
  BY <1>3, <1>8, <1>9
<1>11. \A j \in 0..(i - 1) : Calc!Value(l, c, j) = Calc!Value(m, c, j)
  BY <1>6, <1>9, <1>10, Zenon
<1>12. QED
  BY <1>5, <1>6, <1>8, <1>9, <1>11, Zenon

\* One more key leaves what was before it.
LEMMA LongerLine ==
    ASSUME NEW l \in Seq(CalcKeys), NEW e \in CalcKeys
    PROVE  /\ Append(l, e) \in Seq(CalcKeys) /\ Len(Append(l, e)) = Len(l) + 1
           /\ Append(l, e)[Len(l) + 1] = e
           /\ Agree(l, Append(l, e), Len(l))
<1>1. /\ Append(l, e) \in Seq(CalcKeys) /\ Len(Append(l, e)) = Len(l) + 1
      /\ Append(l, e)[Len(l) + 1] = e /\ \A i \in 1..Len(l) : Append(l, e)[i] = l[i]
  BY AppendProperties
<1> DEFINE m == Append(l, e)
<1> HIDE DEF m
<1>2. /\ m \in Seq(CalcKeys) /\ Len(m) = Len(l) + 1
      /\ \A i \in 1..Len(l) : m[i] = l[i]
  BY <1>1, Zenon DEF m
<1>3. Agree(l, m, Len(l))
  BY <1>2 DEF Agree
<1>4. QED
  BY <1>1, <1>3, Zenon DEF m


\* A number that divides by zero.
ZeroAt(l, i) ==
    /\ Calc!IsDigit(l, i) /\ Calc!Number(l, i)[1] = 0
    /\ Calc!LastOperator(l, i) # 0 /\ l[Calc!LastOperator(l, i)][1] = "/"

\* The operator that waits after the key o.
NoOp == ""
Waiting(l, o) == IF o = 0 THEN NoOp ELSE l[o][1]

\* A line has no value when such a number is complete.
LEMMA NoValueIs ==
    ASSUME NEW l
    PROVE  Calc!NoValue(l) <=>
              \E i \in 1..(Len(l) - 1) : ZeroAt(l, i) /\ ~Calc!IsDigit(l, i + 1)
BY Zenon DEF Calc!NoValue, ZeroAt

\* Lines that begin alike divide by zero at the same places.
LEMMA ZerosAgree ==
    ASSUME NEW l, NEW m, NEW n, Agree(l, m, n), NEW i \in 1..n
    PROVE  ZeroAt(l, i) <=> ZeroAt(m, i)
<1> DEFINE o == Calc!LastOperator(l, i)
<1>1. i \in 0..n /\ i \in Nat
  BY DEF Agree
<1>2. o = Calc!LastOperator(m, i)
  BY <1>1, OperatorsAgree, Zenon
<1>3. Calc!IsDigit(l, i) <=> Calc!IsDigit(m, i)
  BY <1>1, DigitsAgree, Zenon
<1>4. Calc!Number(l, i) = Calc!Number(m, i)
  BY <1>1, NumbersAgree, Zenon
<1>5. LastOp(l, i, o)
  BY <1>1, LastOpIs, Zenon
<1> HIDE DEF o
<1>6. o = 0 \/ l[o] = m[o]
  BY <1>1, <1>5 DEF LastOp, Agree
<1>7. ZeroAt(l, i) <=> /\ Calc!IsDigit(l, i) /\ Calc!Number(l, i)[1] = 0
                       /\ o # 0 /\ l[o][1] = "/"
  BY Zenon DEF ZeroAt, o
<1>8. ZeroAt(m, i) <=> /\ Calc!IsDigit(m, i) /\ Calc!Number(m, i)[1] = 0
                       /\ o # 0 /\ m[o][1] = "/"
  BY <1>2, Zenon DEF ZeroAt
<1>9. QED
  BY <1>3, <1>4, <1>6, <1>7, <1>8, Zenon

\* What the keys l and the result c say the calculator has: the value of the keys before
\* the number being keyed, the operator that waits, whether a number is being keyed, and it.
Settled(l, c, a, p, f, i, s) ==
    /\ ~Calc!NoValue(l)
    /\ a = Calc!Value(l, c, Calc!LastOperator(l, Len(l)))
    /\ p = Waiting(l, Calc!LastOperator(l, Len(l)))
    /\ f <=> Calc!LastOperator(l, Len(l)) = Len(l)
    /\ ~f => i = Calc!Number(l, Len(l))
    /\ s = IF f THEN a ELSE i

\* Before the first key.
LEMMA SettledEmpty ==
    ASSUME NEW c, NEW i
    PROVE  Settled(<<>>, c, c, NoOp, TRUE, i, c)
<1>1. <<>> \in Seq(CalcKeys) /\ Len(<<>>) = 0
  BY EmptySeq
<1>2. LastOp(<<>>, 0, 0)
  BY DEF LastOp
<1>3. Calc!LastOperator(<<>>, 0) = 0
  BY <1>2, LastOpOne
<1>4. Calc!Value(<<>>, c, 0) = c
  BY <1>1, ValueSteps, Zenon
<1>5. ~Calc!NoValue(<<>>)
  BY <1>1, NoValueIs
<1>6. QED
  BY <1>1, <1>3, <1>4, <1>5, Zenon DEF Settled, Waiting

\* A digit goes on with the number, or begins one.
LEMMA SettledDigit ==
    ASSUME NEW l \in Seq(CalcKeys), NEW d \in NumberKeys,
           NEW c, NEW a, NEW p, NEW f, NEW i, NEW s, Settled(l, c, a, p, f, i, s),
           NEW x, f => x = <<d, 1>>, ~f => x = <<10 * i[1] + d, 1>>
    PROVE  Settled(Append(l, Calc!KeyOf("digit", d)), c, a, p, FALSE, x, x)
<1> DEFINE e == <<"digit", d>>
           m == Append(l, e)
           n == Len(l)
           o == Calc!LastOperator(l, n)
<1>1. e \in CalcKeys /\ e[1] = "digit" /\ e[2] = d /\ d \in Nat /\ n \in Nat
  BY CalculatorAssumption DEF CalcKeys
<1>2. Calc!KeyOf("digit", d) = e
  BY Zenon DEF Calc!KeyOf
<1> HIDE DEF e
<1>3. m \in Seq(CalcKeys) /\ Len(m) = n + 1 /\ m[n + 1] = e /\ Agree(l, m, n)
  BY <1>1, LongerLine, Zenon
<1>4. /\ ~Calc!NoValue(l) /\ a = Calc!Value(l, c, o) /\ p = Waiting(l, o)
      /\ (f <=> o = n) /\ (~f => i = Calc!Number(l, n))
  BY Zenon DEF Settled
<1>5. LastOp(l, n, o)
  BY <1>1, LastOpIs, Zenon
<1> HIDE DEF m, n, o
<1>6. Calc!IsDigit(m, n + 1)
  BY <1>1, <1>3, KeysOfLine
<1>7. \A k \in 0..n : Calc!IsDigit(l, k) <=> Calc!IsDigit(m, k)
  BY <1>3, DigitsAgree, Zenon
<1>8. Calc!LastOperator(m, n + 1) = o
  <2>1. LastOp(m, n + 1, o)
    BY <1>1, <1>5, <1>6, <1>7 DEF LastOp
  <2>2. n + 1 \in Nat
    BY <1>1
  <2>3. QED
    BY <2>1, <2>2, LastOpOne, Zenon
<1>9. o \in 0..n /\ (o = 0 \/ o \in 1..n)
  BY <1>5, <1>1 DEF LastOp
<1>10. a = Calc!Value(m, c, o)
  BY <1>3, <1>4, <1>9, ValuesAgree
<1>11. p = Waiting(m, o)
  <2>1. o = 0 \/ l[o] = m[o]
    BY <1>3, <1>9 DEF Agree
  <2>2. QED
    BY <1>4, <2>1, Zenon DEF Waiting
<1>12. x = Calc!Number(m, n + 1)
  <2>1. n + 1 \in 1..Len(m) /\ n + 1 - 1 = n /\ n \in 0..n
    BY <1>1, <1>3
  <2>2. Calc!Number(m, n + 1) = <<10 * Calc!Number(m, n)[1] + d, 1>>
    BY <1>1, <1>3, <1>6, <2>1, NumberSteps
  <2>3. Calc!Number(l, n) = Calc!Number(m, n)
    BY <1>3, <2>1, NumbersAgree, Zenon
  <2>4. CASE f
    <3>1. o = n
      BY <1>4, <2>4
    <3>2. Calc!Number(l, n) = <<0, 1>>
      <4>1. n = 0 \/ (n \in 1..Len(l) /\ ~Calc!IsDigit(l, n))
        BY <1>1, <1>5, <3>1 DEF LastOp, n
      <4>2. QED
        BY <4>1, NumberSteps
    <3>3. QED
      BY <1>1, <2>2, <2>3, <2>4, <3>2
  <2>5. CASE ~f
    BY <1>4, <2>2, <2>3, <2>5
  <2>6. QED
    BY <2>4, <2>5
<1>13. ~Calc!NoValue(m)
  <2>1. ASSUME NEW k \in 1..(Len(m) - 1), ZeroAt(m, k), ~Calc!IsDigit(m, k + 1) PROVE FALSE
    <3>1. k \in 1..n /\ k + 1 # n + 1
      BY <1>1, <1>3, <1>6, <2>1
    <3>2. k \in 1..(n - 1) /\ k + 1 \in 0..n
      BY <1>1, <3>1
    <3>3. ZeroAt(l, k) /\ ~Calc!IsDigit(l, k + 1)
      BY <1>3, <1>7, <2>1, <3>1, <3>2, ZerosAgree, Zenon
    <3>4. QED
      BY <1>4, <3>2, <3>3, NoValueIs, Zenon DEF n
  <2>2. QED
    BY <2>1, NoValueIs, Zenon
<1>14. o # n + 1
  BY <1>1, <1>9
<1>15. Settled(m, c, a, p, FALSE, x, x)
  BY <1>3, <1>8, <1>10, <1>11, <1>12, <1>13, <1>14, Zenon DEF Settled
<1>16. QED
  BY <1>2, <1>15, Zenon DEF m

\* An operator completes what is before it: its value is that of the line, which has none
\* when the last number divides by zero.
LEMMA OperatorEnds ==
    ASSUME NEW l \in Seq(CalcKeys), NEW op \in OperatorKeys \union {"="}, NEW c
    PROVE  LET m == Append(l, Calc!KeyOf(op, 0))
           IN  /\ m \in Seq(CalcKeys)
               /\ Calc!LastOperator(m, Len(m)) = Len(m)
               /\ Waiting(m, Len(m)) = op
               /\ Calc!Value(m, c, Len(m)) = Calc!Value(l, c, Len(l))
               /\ Calc!NoValue(m) <=> Calc!NoValue(l) \/ (l # <<>> /\ ZeroAt(l, Len(l)))
<1> DEFINE e == <<op, 0>>
           m == Append(l, e)
           n == Len(l)
<1>1. e \in CalcKeys /\ e[1] = op /\ op # "digit" /\ n \in Nat /\ (l # <<>> <=> n # 0)
  BY CalculatorAssumption, EmptySeq DEF CalcKeys
<1>2. Calc!KeyOf(op, 0) = e
  BY Zenon DEF Calc!KeyOf
<1> HIDE DEF e
<1>3. m \in Seq(CalcKeys) /\ Len(m) = n + 1 /\ m[n + 1] = e /\ Agree(l, m, n)
  BY <1>1, LongerLine, Zenon
<1> HIDE DEF m, n
<1>4. ~Calc!IsDigit(m, n + 1)
  BY <1>1, <1>3, KeysOfLine
<1>5. Calc!LastOperator(m, n + 1) = n + 1
  <2>1. n + 1 \in Nat /\ LastOp(m, n + 1, n + 1)
    BY <1>1, <1>4 DEF LastOp
  <2>2. QED
    BY <2>1, LastOpOne, Zenon
<1>6. Waiting(m, n + 1) = op
  <2>1. n + 1 # 0
    BY <1>1
  <2>2. QED
    BY <1>1, <1>3, <2>1, Zenon DEF Waiting
<1>7. Calc!Value(m, c, n + 1) = Calc!Value(l, c, n)
  <2>1. n + 1 \in 1..Len(m) /\ n + 1 - 1 = n /\ n \in 0..n
    BY <1>1, <1>3
  <2>2. Calc!Value(m, c, n + 1) = Calc!Value(m, c, n)
    <3>1. \A k \in 1..Len(m) :
             ~Calc!IsDigit(m, k) => Calc!Value(m, c, k) = Calc!Value(m, c, k - 1)
      BY <1>3, ValueSteps, Zenon
    <3>2. QED
      BY <1>4, <2>1, <3>1
  <2>3. Calc!Value(l, c, n) = Calc!Value(m, c, n)
    BY <1>3, <2>1, ValuesAgree
  <2>4. QED
    BY <2>2, <2>3
<1>8. ASSUME NEW k \in 1..n PROVE ZeroAt(l, k) <=> ZeroAt(m, k)
  BY <1>3, ZerosAgree, Zenon
<1>9. ASSUME NEW k \in 1..(n - 1) PROVE Calc!IsDigit(l, k + 1) <=> Calc!IsDigit(m, k + 1)
  <2>1. k + 1 \in 0..n
    BY <1>1
  <2>2. QED
    BY <1>3, <2>1, DigitsAgree, Zenon
<1>10. Calc!NoValue(m) <=> \E k \in 1..n : ZeroAt(m, k) /\ ~Calc!IsDigit(m, k + 1)
  <2>1. Len(m) - 1 = n
    BY <1>1, <1>3
  <2>2. QED
    BY <2>1, NoValueIs, Zenon
<1>11. Calc!NoValue(l) <=> \E k \in 1..(n - 1) : ZeroAt(l, k) /\ ~Calc!IsDigit(l, k + 1)
  BY NoValueIs, Zenon DEF n
<1>12. ASSUME Calc!NoValue(m) PROVE Calc!NoValue(l) \/ (l # <<>> /\ ZeroAt(l, n))
  <2>1. PICK k \in 1..n : ZeroAt(m, k) /\ ~Calc!IsDigit(m, k + 1)
    BY <1>10, <1>12, Zenon
  <2>2. ZeroAt(l, k)
    BY <1>8, <2>1, Zenon
  <2>3. l # <<>> /\ (k = n \/ k \in 1..(n - 1))
    BY <1>1
  <2>4. CASE k = n
    BY <2>2, <2>3, <2>4, Zenon
  <2>5. CASE k \in 1..(n - 1)
    BY <1>9, <1>11, <2>1, <2>2, <2>5, Zenon
  <2>6. QED
    BY <2>3, <2>4, <2>5
<1>13. ASSUME Calc!NoValue(l) PROVE Calc!NoValue(m)
  <2>1. PICK k \in 1..(n - 1) : ZeroAt(l, k) /\ ~Calc!IsDigit(l, k + 1)
    BY <1>11, <1>13, Zenon
  <2>2. k \in 1..n
    BY <1>1
  <2>3. QED
    BY <1>8, <1>9, <1>10, <2>1, <2>2, Zenon
<1>14. ASSUME l # <<>>, ZeroAt(l, n) PROVE Calc!NoValue(m)
  <2>1. n \in 1..n
    BY <1>1, <1>14
  <2>2. QED
    BY <1>4, <1>8, <1>10, <1>14, <2>1, Zenon
<1>15. Calc!NoValue(m) <=> Calc!NoValue(l) \/ (l # <<>> /\ ZeroAt(l, n))
  BY <1>12, <1>13, <1>14
<1>16. QED
  BY <1>2, <1>3, <1>5, <1>6, <1>7, <1>15, Zenon DEF m, n

\* The value of a line whose last number is complete, of what was settled before it.
LEMMA ValueSettled ==
    ASSUME NEW l \in Seq(CalcKeys),
           NEW c, NEW a, NEW p, NEW f, NEW i, NEW s, Settled(l, c, a, p, f, i, s)
    PROVE  /\ f => Calc!Value(l, c, Len(l)) = a
           /\ ~f => /\ Calc!Value(l, c, Len(l)) = Calc!Apply(p, a, i)
                    /\ l # <<>> /\ Calc!IsDigit(l, Len(l))
                    /\ ZeroAt(l, Len(l)) <=> p = "/" /\ i[1] = 0
           /\ f => ~Calc!IsDigit(l, Len(l))
<1> DEFINE n == Len(l)
           o == Calc!LastOperator(l, n)
<1>1. n \in Nat /\ (l # <<>> <=> n # 0) /\ ~Calc!IsDigit(l, 0)
  BY EmptySeq, KeysOfLine
<1>2. LastOp(l, n, o)
  BY <1>1, LastOpIs, Zenon
<1>3. /\ a = Calc!Value(l, c, o) /\ p = Waiting(l, o)
      /\ (f <=> o = n) /\ (~f => i = Calc!Number(l, n))
  BY Zenon DEF Settled
<1> HIDE DEF o
<1>4. ASSUME f PROVE Calc!Value(l, c, n) = a /\ ~Calc!IsDigit(l, n)
  BY <1>1, <1>2, <1>3, <1>4 DEF LastOp
<1>5. ASSUME ~f
      PROVE  /\ Calc!Value(l, c, n) = Calc!Apply(p, a, i)
             /\ l # <<>> /\ Calc!IsDigit(l, n)
             /\ ZeroAt(l, n) <=> p = "/" /\ i[1] = 0
  <2>1. o \in 0..n /\ o # n /\ n \in (o + 1)..n /\ n \in 1..n
    BY <1>1, <1>2, <1>3, <1>5 DEF LastOp
  <2>2. Calc!IsDigit(l, n) /\ l # <<>>
    BY <1>1, <1>2, <2>1 DEF LastOp
  <2>3. Calc!Value(l, c, n) = IF o = 0 THEN Calc!Number(l, n)
                              ELSE Calc!Apply(l[o][1], Calc!Value(l, c, o), Calc!Number(l, n))
    BY <2>1, <2>2, ValueSteps, Zenon DEF o, n
  <2>4. i = Calc!Number(l, n)
    BY <1>3, <1>5
  <2>5. \A x, y : Calc!Apply(NoOp, x, y) = y
    BY Zenon DEF Calc!Apply, NoOp
  <2>6. Calc!Value(l, c, n) = Calc!Apply(p, a, i)
    BY <1>3, <2>3, <2>4, <2>5, Zenon DEF Waiting
  <2>7. NoOp # "/"
    BY Zenon DEF NoOp
  <2>8. ZeroAt(l, n) <=> p = "/" /\ i[1] = 0
    BY <1>3, <2>2, <2>4, <2>7, Zenon DEF ZeroAt, Waiting, o
  <2>9. QED
    BY <2>2, <2>6, <2>8
<1>6. QED
  BY <1>4, <1>5 DEF n

\* The digits at the end are taken back.
LEMMA SettledCut ==
    ASSUME NEW l \in Seq(CalcKeys),
           NEW c, NEW a, NEW p, NEW f, NEW i, NEW s, Settled(l, c, a, p, f, i, s), NEW x
    PROVE  LET m == SubSeq(l, 1, Calc!LastOperator(l, Len(l)))
           IN  m \in Seq(CalcKeys) /\ Settled(m, c, a, p, TRUE, x, a)
<1> DEFINE n == Len(l)
           o == Calc!LastOperator(l, n)
           m == SubSeq(l, 1, o)
<1>1. n \in Nat
  OBVIOUS
<1>2. LastOp(l, n, o)
  BY <1>1, LastOpIs, Zenon
<1>3. ~Calc!NoValue(l) /\ a = Calc!Value(l, c, o) /\ p = Waiting(l, o)
  BY Zenon DEF Settled
<1> HIDE DEF o
<1>4. o \in Nat /\ o <= n /\ o \in 0..o /\ o \in 0..n
  BY <1>1, <1>2 DEF LastOp
<1>5. m \in Seq(CalcKeys) /\ Len(m) = o /\ \A k \in 1..o : m[k] = l[k]
  BY <1>4, BeginningOf, Zenon
<1> HIDE DEF m, n
<1>6. Agree(l, m, o)
  BY <1>4, <1>5 DEF Agree, n
<1>7. Calc!LastOperator(m, o) = o
  <2>1. Calc!IsDigit(l, o) <=> Calc!IsDigit(m, o)
    BY <1>4, <1>6, DigitsAgree, Zenon
  <2>2. LastOp(m, o, o)
    BY <1>2, <1>4, <2>1 DEF LastOp
  <2>3. QED
    BY <1>4, <2>2, LastOpOne, Zenon
<1>8. a = Calc!Value(m, c, o)
  BY <1>3, <1>4, <1>6, ValuesAgree
<1>9. p = Waiting(m, o)
  <2>1. o = 0 \/ l[o] = m[o]
    BY <1>4, <1>5
  <2>2. QED
    BY <1>3, <2>1, Zenon DEF Waiting
<1>10. ~Calc!NoValue(m)
  <2>1. ASSUME NEW k \in 1..(Len(m) - 1), ZeroAt(m, k), ~Calc!IsDigit(m, k + 1) PROVE FALSE
    <3>1. k \in 1..o /\ k + 1 \in 0..o /\ k \in 1..(n - 1)
      BY <1>1, <1>4, <1>5
    <3>2. ZeroAt(l, k) /\ ~Calc!IsDigit(l, k + 1)
      BY <1>6, <2>1, <3>1, DigitsAgree, ZerosAgree, Zenon
    <3>3. QED
      BY <1>3, <3>1, <3>2, NoValueIs, Zenon DEF n
  <2>2. QED
    BY <2>1, NoValueIs, Zenon
<1>11. Settled(m, c, a, p, TRUE, x, a)
  BY <1>5, <1>7, <1>8, <1>9, <1>10, Zenon DEF Settled
<1>12. QED
  BY <1>5, <1>11, Zenon DEF m, o, n


\* The calculator has what its keys say: the error when they have no value, and otherwise
\* what is settled by them.
CalcInv ==
    /\ line \in Seq(CalcKeys)
    /\ error \in BOOLEAN /\ fresh \in BOOLEAN
    /\ plain /\ error => Calc!NoValue(line)
    /\ plain /\ ~error => Settled(line, carry, acc, pendingOp, fresh, input, display)

\* The calculator when it is cleared, or has a result.
LEMMA Afresh ==
    ASSUME line' = <<>>, error' = FALSE, fresh' = TRUE, pendingOp' = NoOp,
           acc' = carry', input' = carry', Calc!UpdateDisplay
    PROVE  CalcInv'
<1>1. display' = carry'
  BY Zenon DEF Calc!UpdateDisplay, NoOp
<1>2. Settled(line', carry', acc', pendingOp', fresh', input', display')
  <2>1. Settled(<<>>, carry', carry', NoOp, TRUE, carry', carry')
    BY SettledEmpty, Zenon
  <2>2. QED
    BY <1>1, <2>1
<1>3. line' \in Seq(CalcKeys)
  BY EmptySeq
<1>4. error' \in BOOLEAN /\ fresh' \in BOOLEAN
  OBVIOUS
<1>5. QED
  BY <1>2, <1>3, <1>4, Zenon DEF CalcInv

\* A digit.
LEMMA DigitKeeps ==
    ASSUME CalcInv, NEW d \in NumberKeys, Calc!HandleDigit(d)
    PROVE  CalcInv'
<1> DEFINE e == Calc!KeyOf("digit", d)
<1>1. /\ error' = FALSE /\ fresh' = FALSE /\ plain' = plain
      /\ acc' = (IF error THEN Calc!Zero ELSE acc)
      /\ pendingOp' = (IF error THEN NoOp ELSE pendingOp)
      /\ input' = (IF fresh \/ error THEN <<d, 1>> ELSE <<10 * input[1] + d, 1>>)
      /\ line' = (IF error THEN <<e>> ELSE Append(line, e))
      /\ carry' = (IF error THEN Calc!Zero ELSE carry)
  BY Zenon DEF Calc!HandleDigit, NoOp
<1>2. display' = input'
  BY <1>1, Zenon DEF Calc!HandleDigit, Calc!UpdateDisplay
<1>3. e \in CalcKeys
  BY DEF Calc!KeyOf, CalcKeys
<1> HIDE DEF e
<1>4. line \in Seq(CalcKeys) /\ error \in BOOLEAN /\ fresh \in BOOLEAN
  BY Zenon DEF CalcInv
<1>5. line' \in Seq(CalcKeys)
  <2>1. <<e>> \in Seq(CalcKeys) /\ Append(line, e) \in Seq(CalcKeys)
    BY <1>3, <1>4
  <2>2. QED
    BY <1>1, <2>1
<1>6. CASE error
  <2>1. Settled(<<>>, Calc!Zero, Calc!Zero, NoOp, TRUE, input, Calc!Zero)
    BY SettledEmpty, Zenon
  <2>2. input' = <<d, 1>>
    BY <1>1, <1>6
  <2>3. <<>> \in Seq(CalcKeys) /\ Append(<<>>, e) = <<e>>
    BY <1>3, EmptySeq
  <2>4. Settled(Append(<<>>, e), Calc!Zero, Calc!Zero, NoOp, FALSE, input', input')
    BY <2>1, <2>2, <2>3, SettledDigit, Zenon DEF e
  <2>5. line' = <<e>> /\ carry' = Calc!Zero /\ acc' = Calc!Zero /\ pendingOp' = NoOp
    BY <1>1, <1>6, Zenon
  <2>6. Settled(line', carry', acc', pendingOp', fresh', input', display')
    BY <1>1, <1>2, <2>3, <2>4, <2>5
  <2>7. QED
    BY <1>1, <1>5, <2>6, Zenon DEF CalcInv
<1>7. CASE ~error
  <2>1. line' = Append(line, e) /\ carry' = carry /\ acc' = acc /\ pendingOp' = pendingOp
    BY <1>1, <1>7, Zenon
  <2>2. (fresh => input' = <<d, 1>>) /\ (~fresh => input' = <<10 * input[1] + d, 1>>)
    BY <1>1, <1>7, Zenon
  <2>3. ASSUME plain
        PROVE  Settled(line', carry', acc', pendingOp', fresh', input', display')
    <3>1. Settled(line, carry, acc, pendingOp, fresh, input, display)
      BY <1>7, <2>3, Zenon DEF CalcInv
    <3>2. Settled(Append(line, e), carry, acc, pendingOp, FALSE, input', input')
      BY <1>4, <2>2, <3>1, SettledDigit, Zenon DEF e
    <3>3. QED
      BY <1>1, <1>2, <2>1, <3>2
  <2>4. QED
    BY <1>1, <1>5, <2>3, Zenon DEF CalcInv
<1>8. QED
  BY <1>4, <1>6, <1>7

\* Division by zero, by an operator or "=".
LEMMA ErrorKeeps ==
    ASSUME CalcInv, ~error, Calc!DividesByZero, NEW op \in OperatorKeys \union {"="},
           Calc!ShowError(op), plain' = plain
    PROVE  CalcInv'
<1> DEFINE m == Append(line, Calc!KeyOf(op, 0))
<1>1. /\ error' = TRUE /\ fresh' = fresh /\ line' = m
      /\ ~fresh /\ pendingOp = "/" /\ input[1] = 0
  BY Zenon DEF Calc!ShowError, Calc!DividesByZero
<1>2. line \in Seq(CalcKeys) /\ fresh \in BOOLEAN
  BY Zenon DEF CalcInv
<1>3. /\ m \in Seq(CalcKeys)
      /\ Calc!NoValue(m) <=> Calc!NoValue(line) \/ (line # <<>> /\ ZeroAt(line, Len(line)))
  BY <1>2, OperatorEnds, Zenon
<1> HIDE DEF m
<1>4. ASSUME plain PROVE Calc!NoValue(m)
  <2>1. Settled(line, carry, acc, pendingOp, fresh, input, display)
    BY <1>4, Zenon DEF CalcInv
  <2>2. line # <<>> /\ ZeroAt(line, Len(line))
    BY <1>1, <1>2, <2>1, ValueSettled, Zenon
  <2>3. QED
    BY <1>3, <2>2, Zenon
<1>5. QED
  BY <1>1, <1>2, <1>3, <1>4, Zenon DEF CalcInv

\* An operator.
LEMMA OperatorKeeps ==
    ASSUME CalcInv, NEW op \in OperatorKeys, Calc!HandleOperator(op)
    PROVE  CalcInv'
<1>1. ~error /\ plain' = plain
  BY Zenon DEF Calc!HandleOperator
<1>2. line \in Seq(CalcKeys) /\ fresh \in BOOLEAN
  BY Zenon DEF CalcInv
<1>3. op \in OperatorKeys \union {"="}
  OBVIOUS
<1>4. CASE Calc!DividesByZero
  <2>1. Calc!ShowError(op)
    BY <1>4, Zenon DEF Calc!HandleOperator
  <2>2. QED
    BY <1>1, <1>3, <1>4, <2>1, ErrorKeeps, Zenon
<1>5. CASE ~Calc!DividesByZero
  <2> DEFINE m == Append(line, Calc!KeyOf(op, 0))
  <2>1. /\ acc' = (IF fresh THEN acc ELSE Calc!Apply(pendingOp, acc, input))
        /\ pendingOp' = op /\ fresh' = TRUE /\ input' = input /\ error' = error
        /\ line' = m /\ carry' = carry
    BY <1>5, Zenon DEF Calc!HandleOperator
  <2>2. op # NoOp
    <3>1. op \in {"+", "-", "*", "/"}
      BY CalculatorAssumption
    <3>2. QED
      BY <3>1, Zenon DEF NoOp
  <2>3. display' = acc'
    BY <1>1, <1>5, <2>1, <2>2, Zenon DEF Calc!HandleOperator, Calc!UpdateDisplay, NoOp
  <2>4. /\ m \in Seq(CalcKeys)
        /\ Calc!LastOperator(m, Len(m)) = Len(m)
        /\ Waiting(m, Len(m)) = op
        /\ Calc!Value(m, carry, Len(m)) = Calc!Value(line, carry, Len(line))
        /\ Calc!NoValue(m) <=> Calc!NoValue(line) \/ (line # <<>> /\ ZeroAt(line, Len(line)))
    BY <1>2, <1>3, OperatorEnds, Zenon
  <2> HIDE DEF m
  <2>5. ASSUME plain
        PROVE  Settled(line', carry', acc', pendingOp', fresh', input', display')
    <3>1. Settled(line, carry, acc, pendingOp, fresh, input, display)
      BY <1>1, <2>5, Zenon DEF CalcInv
    <3>2. /\ fresh => Calc!Value(line, carry, Len(line)) = acc
          /\ ~fresh => /\ Calc!Value(line, carry, Len(line)) = Calc!Apply(pendingOp, acc, input)
                       /\ line # <<>> /\ Calc!IsDigit(line, Len(line))
                       /\ ZeroAt(line, Len(line)) <=> pendingOp = "/" /\ input[1] = 0
          /\ fresh => ~Calc!IsDigit(line, Len(line))
      BY <1>2, <3>1, ValueSettled, Zenon
    <3>3. acc' = Calc!Value(line, carry, Len(line))
      BY <1>2, <2>1, <3>2, Zenon
    <3>4. ~ZeroAt(line, Len(line))
      BY <1>2, <1>5, <3>2, Zenon DEF Calc!DividesByZero, ZeroAt
    <3>5. ~Calc!NoValue(m)
      BY <2>4, <3>1, <3>4, Zenon DEF Settled
    <3>6. acc' = Calc!Value(m, carry, Len(m))
      BY <2>4, <3>3
    <3>7. Settled(m, carry, acc', op, TRUE, input, acc')
      BY <2>4, <3>5, <3>6, Zenon DEF Settled
    <3>8. QED
      BY <2>1, <2>3, <3>7
  <2>6. QED
    BY <1>1, <2>1, <2>4, <2>5, Zenon DEF CalcInv
<1>6. QED
  BY <1>4, <1>5

\* The entry is cleared: its digits are taken back, and the register is shown.
LEMMA ClearEntryKeeps ==
    ASSUME CalcInv, Calc!HandleClearEntry
    PROVE  CalcInv'
<1> DEFINE m == SubSeq(line, 1, Calc!LastOperator(line, Len(line)))
<1>1. /\ fresh' = TRUE /\ error' = error /\ acc' = acc /\ pendingOp' = pendingOp
      /\ line' = (IF error THEN line ELSE m) /\ carry' = carry
      /\ plain' = (plain /\ (error \/ pendingOp # NoOp))
  BY Zenon DEF Calc!HandleClearEntry, NoOp
<1>2. line \in Seq(CalcKeys) /\ error \in BOOLEAN
  BY Zenon DEF CalcInv
<1>3. CASE error
  BY <1>1, <1>2, <1>3, Zenon DEF CalcInv
<1>4. CASE ~error
  <2>1. line' = m
    BY <1>1, <1>4, Zenon
  <2>2. m \in Seq(CalcKeys)
    <3> DEFINE o == Calc!LastOperator(line, Len(line))
    <3>1. Len(line) \in Nat
      BY <1>2
    <3>2. LastOp(line, Len(line), o)
      BY <3>1, LastOpIs, Zenon
    <3> HIDE DEF o
    <3>3. o \in Nat /\ o <= Len(line)
      BY <3>1, <3>2 DEF LastOp
    <3>4. SubSeq(line, 1, o) \in Seq(CalcKeys)
      BY <1>2, <3>3, BeginningOf, Zenon
    <3>5. QED
      BY <3>4, Zenon DEF o
  <2>3. ASSUME plain'
        PROVE  Settled(line', carry', acc', pendingOp', fresh', input', display')
    <3>1. Settled(line, carry, acc, pendingOp, fresh, input, display) /\ pendingOp # NoOp
      BY <1>1, <1>4, <2>3, Zenon DEF CalcInv
    <3>2. Settled(m, carry, acc, pendingOp, TRUE, input', acc)
      BY <1>2, <3>1, SettledCut, Zenon
    <3> HIDE DEF m
    <3>3. display' = acc
      <4>1. error' = FALSE /\ fresh' = TRUE /\ pendingOp' # NoOp /\ acc' = acc
        BY <1>1, <1>2, <1>4, <3>1
      <4>2. QED
        BY <4>1, Zenon DEF Calc!HandleClearEntry, Calc!UpdateDisplay, NoOp
    <3>4. fresh' = TRUE /\ acc' = acc /\ pendingOp' = pendingOp /\ carry' = carry
      BY <1>1, Zenon
    <3>5. QED
      BY <2>1, <3>2, <3>3, <3>4, Zenon
  <2> HIDE DEF m
  <2>4. QED
    BY <1>1, <1>2, <1>4, <2>1, <2>2, <2>3, Zenon DEF CalcInv
<1>5. QED
  BY <1>2, <1>3, <1>4

\* Each key keeps what the calculator has with its keys.
LEMMA CalcStepKeeps ==
    ASSUME CalcInv, [Calc!Next]_calcVars
    PROVE  CalcInv'
<1>1. line \in Seq(CalcKeys) /\ error \in BOOLEAN /\ fresh \in BOOLEAN
  BY Zenon DEF CalcInv
<1>2. CASE Calc!HandleEquals
  <2>1. ~error /\ ~fresh /\ plain' = plain
    BY <1>2, Zenon DEF Calc!HandleEquals
  <2>2. CASE Calc!DividesByZero
    <3>1. Calc!ShowError("=") /\ "=" \in OperatorKeys \union {"="}
      BY <1>2, <2>2, Zenon DEF Calc!HandleEquals
    <3>2. QED
      BY <2>1, <2>2, <3>1, ErrorKeeps, Zenon
  <2>3. CASE ~Calc!DividesByZero
    <3>1. /\ input' = acc' /\ pendingOp' = NoOp /\ fresh' = TRUE /\ error' = error
          /\ line' = <<>> /\ carry' = acc' /\ Calc!UpdateDisplay
      BY <1>2, <2>3, Zenon DEF Calc!HandleEquals, NoOp
    <3>2. error' = FALSE
      BY <1>1, <2>1, <3>1
    <3>3. acc' = carry' /\ input' = carry'
      BY <3>1
    <3>4. QED
      BY <3>1, <3>2, <3>3, Afresh, Zenon
  <2>4. QED
    BY <2>2, <2>3
<1>3. CASE Calc!HandleClear
  <2>1. /\ line' = <<>> /\ error' = FALSE /\ fresh' = TRUE /\ pendingOp' = NoOp
        /\ acc' = Calc!Zero /\ input' = Calc!Zero /\ carry' = Calc!Zero /\ Calc!UpdateDisplay
    BY <1>3, Zenon DEF Calc!HandleClear, NoOp
  <2>2. acc' = carry' /\ input' = carry'
    BY <2>1
  <2>3. QED
    BY <2>1, <2>2, Afresh, Zenon
<1>4. CASE Calc!HandleNegate \/ Calc!HandlePercent
  <2>1. plain' = FALSE /\ line' = line /\ fresh' = fresh /\ error' = error
    BY <1>4, Zenon DEF Calc!HandleNegate, Calc!HandlePercent
  <2>2. QED
    BY <1>1, <2>1, Zenon DEF CalcInv
<1>5. CASE UNCHANGED calcVars
  BY <1>5, Zenon DEF calcVars, CalcInv
<1>6. QED
  BY <1>2, <1>3, <1>4, <1>5, DigitKeeps, OperatorKeeps, ClearEntryKeeps, Zenon DEF Calc!Next

\* The calculator is switched on.
LEMMA CalcStart ==
    ASSUME Init
    PROVE  CalcInv
<1>1. /\ acc = Calc!Zero /\ pendingOp = NoOp /\ input = Calc!Zero /\ fresh = TRUE
      /\ error = FALSE /\ display = Calc!Zero /\ line = <<>> /\ carry = Calc!Zero
  BY Zenon DEF Init, Calc!Init, NoOp
<1>2. Settled(<<>>, Calc!Zero, Calc!Zero, NoOp, TRUE, Calc!Zero, Calc!Zero)
  BY SettledEmpty, Zenon
<1>3. Settled(line, carry, acc, pendingOp, fresh, input, display)
  BY <1>1, <1>2
<1>4. line \in Seq(CalcKeys) /\ error \in BOOLEAN /\ fresh \in BOOLEAN
  BY <1>1, EmptySeq
<1>5. QED
  BY <1>1, <1>3, <1>4, Zenon DEF CalcInv

\* Steps of the composition are steps of the calculator.
LEMMA CalcAlone ==
    ASSUME [Next]_vars
    PROVE  [Calc!Next]_calcVars
BY Zenon DEF Next, vars, TasksStep, FilesStep, SearchStep, CalendarStep, TerminalStep,
       DocumentsStep, ExplorerStep, ClockStep, AppsStep, SystemStep, NetworkStep, RemoteStep,
       ShotStep, ViewerStep, StoreStep, KeyboardStep, CalcStep, Alone

\* What is settled is what the display shows.
LEMMA CalcTrue ==
    ASSUME CalcInv
    PROVE  ShownIsTheValue
<1>1. SUFFICES ASSUME plain
      PROVE  /\ error = Calc!NoValue(line)
             /\ ~error => Calc!Same(display, IF Calc!IsDigit(line, Len(line))
                                             THEN Calc!Number(line, Len(line))
                                             ELSE Calc!Value(line, carry, Len(line)))
  BY Zenon DEF ShownIsTheValue, Calc!ShownIsTheValue
<1>2. line \in Seq(CalcKeys) /\ error \in BOOLEAN /\ fresh \in BOOLEAN
  BY Zenon DEF CalcInv
<1>3. CASE error
  <2>1. Calc!NoValue(line)
    BY <1>1, <1>3, Zenon DEF CalcInv
  <2>2. error = TRUE /\ Calc!NoValue(line) = TRUE
    BY <1>2, <1>3, <2>1, Zenon DEF Calc!NoValue
  <2>3. QED
    BY <1>3, <2>2
<1>4. CASE ~error
  <2>1. Settled(line, carry, acc, pendingOp, fresh, input, display)
    BY <1>1, <1>4, Zenon DEF CalcInv
  <2>2. error = FALSE /\ Calc!NoValue(line) = FALSE
    BY <1>2, <1>4, <2>1, Zenon DEF Settled, Calc!NoValue
  <2>3. CASE fresh
    <3>1. display = Calc!Value(line, carry, Len(line)) /\ ~Calc!IsDigit(line, Len(line))
      BY <1>2, <2>1, <2>3, ValueSettled, Zenon DEF Settled
    <3>2. QED
      BY <2>2, <3>1, Zenon DEF Calc!Same
  <2>4. CASE ~fresh
    <3>1. display = Calc!Number(line, Len(line)) /\ Calc!IsDigit(line, Len(line))
      BY <1>2, <2>1, <2>4, ValueSettled, Zenon DEF Settled
    <3>2. QED
      BY <2>2, <3>1, Zenon DEF Calc!Same
  <2>5. QED
    BY <1>2, <2>3, <2>4
<1>5. QED
  BY <1>2, <1>3, <1>4

\* Whatever is keyed: the display has the number being keyed or the value of the keys before
\* it, and the error exactly when a number that divides by zero was completed.
THEOREM DisplayStaysTrue == Spec => []ShownIsTheValue
<1>1. Init => CalcInv
  BY CalcStart, Zenon
<1>2. CalcInv /\ [Next]_vars => CalcInv'
  BY CalcAlone, CalcStepKeeps, Zenon
<1>3. CalcInv => ShownIsTheValue
  BY CalcTrue, Zenon
<1>4. QED
  BY <1>1, <1>2, <1>3, PTL DEF Spec


==============================================================================
