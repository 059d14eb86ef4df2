----------------------------- MODULE FileSearch -----------------------------
(***************************************************************************)
(* The search box of the start menu: a thread scans the home directory     *)
(* (FileIndex::runIndexing) while programs go on writing files, the main   *)
(* thread then watches the directories, gathers change notices for a while *)
(* and rescans what changed; the menu shows the result of a search and     *)
(* refreshes it when the text or the index changes (class StartMenu).      *)
(*                                                                         *)
(* A file is known by its path; its name is a word, its text a set of      *)
(* words.  Of the limits on files and words none is reached here.          *)
(***************************************************************************)
EXTENDS Integers, Sequences, FiniteSets

CONSTANTS
    Watched,       \* the root and its directories, which setupWatcher watches
    Deep,          \* directories further below
    Names,         \* file names in a directory
    Words,         \* words in files, which are also what names are made of
    Queries,       \* what the user types: sequences of words
    MaxChanges     \* bound on changes of the file system

Dirs  == Watched \union Deep
Paths == Dirs \X Names

VARIABLES
    disk,          \* the files: [path -> set of words]
    quiet,         \* files written in place since their directory was last read
    changes,       \* changes of the file system so far
    phase,         \* of the index: "scanning", "scanned", "ready" (ready_)
    todo,          \* directories the scan has still to visit
    snapshot,      \* the scan's Snapshot
    index,         \* current_
    notices,       \* directories whose change notice is on its way
    pendingDirs,   \* pendingDirs_; the timer runs while there are any
    reported,      \* directories that were reported changed since the watch began
    query,         \* the text of the search box
    searchActive,  \* searchActive_: the text last searched for is not empty
    debounce,      \* searchDebounce_->isActive()
    results        \* the files listed under the box

searchVars == <<disk, quiet, changes, phase, todo, snapshot, index, notices, pendingDirs,
                reported, query, searchActive, debounce, results>>
scanVars   == <<phase, todo, snapshot>>
menuVars   == <<query, searchActive, debounce, results>>

Only(f, S)   == [p \in DOMAIN f \intersect S |-> f[p]]
Merged(f, g) == [p \in DOMAIN f \union DOMAIN g |-> IF p \in DOMAIN f THEN f[p] ELSE g[p]]
In(dirs)     == {p \in Paths : p[1] \in dirs}

-----------------------------------------------------------------------------
(* Searching.                                                              *)

\* Every word of the text is in the name.
NameHits(x, q) == {p \in DOMAIN x : \A i \in DOMAIN q : q[i] = p[2]}

\* The files of the word (contentWords).
Found(x, w) == {p \in DOMAIN x : w \in x[p]}

\* Mutant of Narrowed: files that have any of the words.
NarrowedToAny(x, q) ==
    LET hits[n \in 0..Len(q)] == IF n = 0 THEN {} ELSE hits[n - 1] \union Found(x, q[n])
    IN hits

\* contentHits after each word: an empty intersection counts as one not begun.
Narrowed(x, q) ==
    LET hits[n \in 0..Len(q)] ==
            IF n = 0 THEN {}
            ELSE (IF hits[n - 1] = {} THEN DOMAIN x ELSE hits[n - 1]) \intersect Found(x, q[n])
    IN hits

\* A word in no file ends the search.
ContentHits(x, q) ==
    IF \E i \in DOMAIN q : Found(x, q[i]) = {} THEN {} ELSE Narrowed(x, q)[Len(q)]

Search(x, q) ==
    IF q = <<>> THEN {} ELSE NameHits(x, q) \union ContentHits(x, q)

Shown(x, q, is) == IF is = "ready" THEN Search(x, q) ELSE {}

-----------------------------------------------------------------------------
Init ==
    /\ disk = [p \in In({CHOOSE d \in Watched : TRUE}) |-> Words] /\ quiet = {}
    /\ changes = 0 /\ phase = "scanning" /\ todo = Dirs
    /\ snapshot = [p \in {} |-> {}] /\ index = [p \in {} |-> {}]
    /\ notices = {} /\ pendingDirs = {} /\ reported = {}
    /\ query = <<>> /\ searchActive = FALSE /\ debounce = FALSE /\ results = {}

(* Other programs.                                                         *)

Changed(d) ==
    /\ changes < MaxChanges /\ changes' = changes + 1
    /\ IF phase = "ready" /\ d \in Watched
       THEN notices' = notices \union {d} /\ reported' = reported \union {d}
       ELSE UNCHANGED <<notices, reported>>
    /\ UNCHANGED scanVars /\ UNCHANGED menuVars /\ UNCHANGED <<index, pendingDirs>>

\* A file is made, and is empty.
Create(p) ==
    /\ p \notin DOMAIN disk /\ Changed(p[1])
    /\ disk' = Merged([q \in {p} |-> {}], disk) /\ UNCHANGED quiet

\* A file is written in place, of which nobody hears: only directories are watched.
Write(p, words) ==
    /\ p \in DOMAIN disk /\ changes < MaxChanges /\ changes' = changes + 1
    /\ disk' = [disk EXCEPT ![p] = words] /\ quiet' = quiet \union {p}
    /\ UNCHANGED scanVars /\ UNCHANGED menuVars
    /\ UNCHANGED <<index, notices, pendingDirs, reported>>

\* A whole file is moved to a name, over the file that has it (a save by rename).
MoveIn(p, words) ==
    /\ Changed(p[1])
    /\ disk' = Merged([q \in {p} |-> words], disk) /\ UNCHANGED quiet

Delete(p) ==
    /\ p \in DOMAIN disk /\ Changed(p[1])
    /\ disk' = Only(disk, Paths \ {p}) /\ UNCHANGED quiet

\* The scan, on its own thread; excluded directories are not among Dirs.
ScanDir(d) ==
    /\ phase = "scanning" /\ d \in todo
    /\ todo' = todo \ {d} /\ snapshot' = Merged(Only(disk, In({d})), snapshot)
    /\ quiet' = quiet \ In({d})
    /\ IF todo' = {} THEN index' = snapshot' /\ phase' = "scanned"
       ELSE UNCHANGED <<index, phase>>
    /\ UNCHANGED <<disk, changes, notices, pendingDirs, reported>> /\ UNCHANGED menuVars

\* onSearchChanged with the text of the box.
SearchNow(x, is) == searchActive' = (query # <<>>) /\ results' = Shown(x, query, is)

\* indexingFinished: an open search is made again.
Refresh(x, is) ==
    IF searchActive THEN SearchNow(x, is) ELSE UNCHANGED <<searchActive, results>>

\* The thread's finished signal: the index is ready and its watch begins.
Finished ==
    /\ phase = "scanned" /\ phase' = "ready"
    /\ Refresh(index, "ready")
    /\ UNCHANGED <<disk, quiet, changes, todo, snapshot, index, notices, pendingDirs,
                   reported, query, debounce>>

DirectoryChanged(d) ==
    /\ d \in notices /\ notices' = notices \ {d}
    /\ pendingDirs' = pendingDirs \union {d}
    /\ UNCHANGED <<disk, quiet, changes, index, reported>>
    /\ UNCHANGED scanVars /\ UNCHANGED menuVars

\* Mutant of Rescanned: files that went stay in the index.
RescannedOnly(dirs) == Merged(Only(disk, In(dirs)), index)

\* What flushPendingDirs makes of the index.
Rescanned(dirs) == Merged(Only(disk, In(dirs)), Only(index, In(Dirs \ dirs)))

Flush ==
    /\ pendingDirs # {} /\ pendingDirs' = {}
    /\ index' = Rescanned(pendingDirs) /\ Refresh(index', phase)
    /\ quiet' = quiet \ In(pendingDirs)
    /\ UNCHANGED <<disk, changes, notices, reported, query, debounce>> /\ UNCHANGED scanVars

(* The user.                                                               *)

Type(q) ==
    /\ q # query /\ query' = q /\ debounce' = TRUE
    /\ UNCHANGED <<disk, quiet, changes, index, notices, pendingDirs, reported>>
    /\ UNCHANGED <<searchActive, results>>
    /\ UNCHANGED scanVars

SearchChanged ==
    /\ debounce /\ debounce' = FALSE
    /\ SearchNow(index, phase)
    /\ UNCHANGED <<disk, quiet, changes, index, notices, pendingDirs, reported, query>>
    /\ UNCHANGED scanVars

Next ==
    \/ \E p \in Paths : Create(p) \/ Delete(p)
    \/ \E p \in Paths, words \in SUBSET Words : Write(p, words) \/ MoveIn(p, words)
    \/ \E d \in Dirs : ScanDir(d) \/ DirectoryChanged(d)
    \/ Finished \/ Flush
    \/ \E q \in Queries : Type(q)
    \/ SearchChanged

Spec == Init /\ [][Next]_searchVars

-----------------------------------------------------------------------------
(* Of a watched directory that was reported changed, the index has exactly *)
(* the files once the notices are handled, and the words each has, but for *)
(* those written in place since (fileindex.cpp:360 says that these are not *)
(* noticed).                                                               *)
IndexIsCurrent ==
    phase = "ready" =>
        \A d \in reported \ (notices \union pendingDirs) :
            /\ DOMAIN index \intersect In({d}) = DOMAIN disk \intersect In({d})
            /\ \A p \in (DOMAIN disk \intersect In({d})) \ quiet : index[p] = disk[p]

\* The files that every word of the text is the name of, or is in.
HaveAll(x, q) ==
    {p \in DOMAIN x : \/ \A i \in DOMAIN q : q[i] = p[2]
                     \/ \A i \in DOMAIN q : q[i] \in x[p]}
ContainAll(x, q) == {p \in DOMAIN x : \A i \in DOMAIN q : q[i] \in x[p]}

\* Once the typing has settled the list has every file that has all the words typed, by
\* its name or in its text, and no other, also when the index was finished or updated
\* while the list was open.  Of three words that no file has together the list may have
\* files of the last one, since the search begins anew where nothing is left of it
\* (fileindex.cpp:414).
ListIsCurrent ==
    ~debounce =>
        IF phase # "ready" \/ query = <<>> THEN results = {}
        ELSE /\ HaveAll(index, query) \subseteq results
             /\ \A p \in results \ HaveAll(index, query) :
                    /\ Len(query) > 2 /\ ContainAll(index, query) = {}
                    /\ p \in DOMAIN index /\ query[Len(query)] \in index[p]

SearchIsCurrent == IndexIsCurrent /\ ListIsCurrent
=============================================================================
