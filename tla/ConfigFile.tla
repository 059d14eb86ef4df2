----------------------------- MODULE ConfigFile -----------------------------
(***************************************************************************)
(* The configuration file the compositor, the shell and the settings       *)
(* programs share (class Config), and the save handlers of the programs    *)
(* that write it.  Every save loads the file, edits the copy, writes a     *)
(* temporary file of its own and renames it over the shared one.           *)
(*                                                                         *)
(* A row is a section head, an entry or any other line (comments, blanks). *)
(* Every entry stands below a head, as the programs write it.              *)
(***************************************************************************)
EXTENDS Naturals, Sequences, FiniteSets, SequencesExt

CONSTANTS
    Editors,     \* programs with a window rules page: settings, control
    MaxBusy,     \* bound on the save handlers in progress at once
    MaxSaves,    \* bound on the number of saves (a save doubles the file)
    MaxEdits     \* bound on the edits made in the window rules pages

Programs  == {"settings", "control", "compositor"}
RuleNames == {"mode", "r2"}       \* a rule may be named like any other key
Values    == {"old", "new"}
SectionOf(k) == k[1]
Mode      == <<"theme", "mode">>
Wallpaper == <<"wallpaper", "path">>
Night     == <<"night_light", "start_time">>    \* the four keys move together
Input     == <<"input", "pointer_speed">>       \* the six keys move together
Close     == <<"shortcuts", "close">>
Rule(n)   == <<"window_rules", n>>
Keys      == {Mode, Wallpaper, Night, Input, Close} \union {Rule(n) : n \in RuleNames}

Section(s)     == [head |-> s]
Entry(k, v) == [key |-> k[2], value |-> v]
Other       == [note |-> TRUE]
IsHead(r)   == "head" \in DOMAIN r
IsEntry(r)  == "key" \in DOMAIN r

VARIABLES
    file,        \* the rows of the shared file
    writer,      \* what each program holds of the save handler in progress
    rulesPage,   \* rules_ of each open window rules page: rows of a table
    saves, edits \* counters for the bounds

cfgVars == <<file, writer, rulesPage, saves, edits>>

Idle      == [pc |-> "idle"]
Closed    == [open |-> FALSE, rules |-> <<>>]
NoSection == "none"                          \* before the first head
Nothing   == [k \in {} |-> "old"]             \* no value for no key
With(f, k, v) == [x \in DOMAIN f \union {k} |-> IF x = k THEN v ELSE f[x]]

-----------------------------------------------------------------------------
(* Config.                                                                 *)

\* One row of Config::load: the section it leaves current, the value it sets.
ReadRow(acc, r) ==
    IF IsHead(r) THEN [acc EXCEPT !.section = r.head]
    ELSE IF IsEntry(r)
    THEN [acc EXCEPT !.values = With(@, <<acc.section, r.key>>, r.value)]
    ELSE acc

\* What is known after each row.
Reading(rows) ==
    LET acc[n \in 0..Len(rows)] ==
            IF n = 0 THEN [section |-> NoSection, values |-> Nothing]
                     ELSE ReadRow(acc[n - 1], rows[n])
    IN acc

\* What a program that loads the rows gets: the last row of a key wins.
Loaded(rows) == Reading(rows)[Len(rows)].values

Load(rows) == [rows |-> rows, values |-> Loaded(rows),
               original |-> DOMAIN Loaded(rows), removed |-> {}]

\* Values for some keys, one call of set after the other.
Set(c, want) ==
    [c EXCEPT !.values = [k \in DOMAIN @ \union DOMAIN want |->
                             IF k \in DOMAIN want THEN want[k] ELSE c.values[k]]]

\* The keys that have a value lose it, one call of remove after the other.
Unset(c, keys) ==
    LET gone == keys \intersect DOMAIN c.values
    IN [c EXCEPT !.values = [k \in DOMAIN @ \ gone |-> c.values[k]], !.removed = @ \union gone]

\* Mutant: the keys of every section.
SectionKeysOfAll(c, section) == DOMAIN c.values

SectionKeys(c, section) == {k \in DOMAIN c.values : SectionOf(k) = section}

Entries(vals, S) == SetToSeq({Entry(k, vals[k]) : k \in S})

\* Mutant: the row of a removed key is kept.
NeverDropped(c, section, r) == FALSE

\* An entry save leaves out: its key was removed (and is not written yet).
Dropped(c, section, r) == <<section, r.key>> \in c.removed

\* One row of one of save's two loops.  A head is followed by the new keys of
\* its section, an entry is replaced, dropped or kept.
WriteRow(c, acc, r) ==
    LET k == <<acc.section, r.key>>
    IN IF IsHead(r)
       THEN [acc EXCEPT !.section = r.head, !.fresh = {x \in @ : x[1] # r.head},
                        !.out = @ \o <<r>> \o Entries(c.values, {x \in acc.fresh : x[1] = r.head})]
       ELSE IF IsEntry(r) /\ k \in acc.pending
       THEN [acc EXCEPT !.out = Append(@, Entry(k, c.values[k])), !.pending = @ \ {k}]
       ELSE IF IsEntry(r) /\ Dropped(c, acc.section, r) THEN acc
       ELSE [acc EXCEPT !.out = Append(@, r)]

\* The sections of the new keys no head was found for, one after the other.
NewSections(c, fresh) ==
    LET order == SetToSeq({SectionOf(k) : k \in fresh})
        out[n \in 0..Len(order)] ==
            IF n = 0 THEN <<>>
            ELSE out[n - 1] \o <<Other, Section(order[n])>>
                 \o Entries(c.values, {k \in fresh : SectionOf(k) = order[n]})
    IN out[Len(order)]

\* One of save's two loops over the rows of the file.
Writing(c, start) ==
    LET acc[n \in 0..Len(c.rows)] ==
            IF n = 0 THEN start ELSE WriteRow(c, acc[n - 1], c.rows[n])
    IN acc

\* The rows Config::save writes: the loop runs twice, the second time with the
\* section the first one ended in.
Saved(c) ==
    LET first  == Writing(c, [section |-> NoSection, pending |-> DOMAIN c.values,
                              fresh |-> {}, out |-> <<>>])[Len(c.rows)]
        second == Writing(c, [first EXCEPT !.fresh = first.pending \ c.original])[Len(c.rows)]
    IN second.out \o NewSections(c, second.fresh)

-----------------------------------------------------------------------------
(* The programs.                                                           *)

StartRows == <<Other, Section("theme"), Entry(Mode, "old"),
               Section("window_rules"), Entry(Rule("mode"), "old")>>

Init ==
    /\ file \in {<<>>, StartRows}
    /\ writer = [p \in Programs |-> Idle]
    /\ rulesPage = [p \in Programs |-> Closed]
    /\ saves = 0 /\ edits = 0

\* A handler loads the file and edits the copy; nothing is on disk yet.
Edit(p, c, want, touched) ==
    /\ writer[p].pc = "idle"
    /\ saves < MaxSaves /\ Cardinality({q \in Programs : writer[q].pc # "idle"}) < MaxBusy
    /\ writer' = [writer EXCEPT ![p] =
           [pc |-> "edited", cfg |-> c, want |-> want, touched |-> touched]]
    /\ UNCHANGED <<file, saves, edits>>

Assign(p, keys) == LET want == [k \in keys |-> "new"]
                   IN Edit(p, Set(Load(file), want), want, keys) /\ UNCHANGED rulesPage

SaveTheme      == Assign("settings", {Mode})
ApplyWallpaper == Assign("settings", {Wallpaper})
SaveNightLight == Assign("settings", {Night})
SaveAppearance == Assign("control", {Mode, Wallpaper, Night})
SaveInput(p)   == Assign(p, {Input})
SetNightLight  == Assign("compositor", {Night})

\* The shortcuts and the rules pages clear their section before they set it.
Clear(c, section) == Unset(c, SectionKeys(c, section))

\* A row of the shortcuts table is a binding or "(default)", which is not set.
SaveShortcuts(p) == \E want \in {Nothing, [k \in {Close} |-> "new"]} :
    /\ Edit(p, Set(Clear(Load(file), "shortcuts"), want), want, {Close})
    /\ UNCHANGED rulesPage

\* loadWindowRules: every row of the section is a rule, a repeated one too.
ReadRule(acc, r) ==
    IF IsHead(r) THEN [acc EXCEPT !.section = r.head]
    ELSE IF IsEntry(r) /\ acc.section = "window_rules"
    THEN [acc EXCEPT !.rules = Append(@, [name |-> r.key, value |-> r.value])]
    ELSE acc

RulesIn(rows) ==
    LET acc[n \in 0..Len(rows)] ==
            IF n = 0 THEN [section |-> NoSection, rules |-> <<>>]
                     ELSE ReadRule(acc[n - 1], rows[n])
    IN acc[Len(rows)].rules

OpenRulesPage(p) ==
    /\ ~rulesPage[p].open
    /\ rulesPage' = [rulesPage EXCEPT ![p] = [open |-> TRUE, rules |-> RulesIn(file)]]
    /\ UNCHANGED <<file, writer, saves, edits>>

CloseRulesPage(p) ==
    /\ rulesPage[p].open
    /\ rulesPage' = [rulesPage EXCEPT ![p] = Closed]
    /\ UNCHANGED <<file, writer, saves, edits>>

EditTable(p, table) ==
    /\ rulesPage[p].open /\ edits < MaxEdits
    /\ rulesPage' = [rulesPage EXCEPT ![p].rules = table]
    /\ edits' = edits + 1
    /\ UNCHANGED <<file, writer, saves>>

AddRule(p) == \E n \in RuleNames :
    /\ rulesPage[p].open
    /\ \A i \in DOMAIN rulesPage[p].rules : rulesPage[p].rules[i].name # n
    /\ EditTable(p, Append(rulesPage[p].rules, [name |-> n, value |-> "new"]))

\* The dialog refuses a name another row of the table has.
EditRule(p) == \E n \in RuleNames :
    /\ rulesPage[p].open
    /\ \E row \in DOMAIN rulesPage[p].rules :
          /\ \A i \in DOMAIN rulesPage[p].rules \ {row} : rulesPage[p].rules[i].name # n
          /\ EditTable(p, [rulesPage[p].rules EXCEPT ![row] = [name |-> n, value |-> "new"]])

RemoveRule(p) ==
    /\ rulesPage[p].open
    /\ \E row \in DOMAIN rulesPage[p].rules : EditTable(p, RemoveAt(rulesPage[p].rules, row))

\* What a page's table says of each rule: the last row of a name wins.
Wanted(rules) ==
    LET last(n) == CHOOSE i \in DOMAIN rules : /\ rules[i].name = n
                                               /\ \A j \in DOMAIN rules : rules[j].name = n => j <= i
    IN [k \in {Rule(rules[i].name) : i \in DOMAIN rules} |-> rules[last(k[2])].value]

\* The rows of the page's table in order.
SaveRules(p) ==
    /\ rulesPage[p].open
    /\ LET want == Wanted(rulesPage[p].rules)
       IN Edit(p, Set(Clear(Load(file), "window_rules"), want), want,
               {Rule(n) : n \in RuleNames})
    /\ UNCHANGED rulesPage

\* The temporary file, named after the process, is complete and renamed over
\* the shared one.
RenameTmp(p) ==
    /\ writer[p].pc = "edited" /\ saves < MaxSaves
    /\ file' = Saved(writer[p].cfg)
    /\ saves' = saves + 1
    /\ writer' = [writer EXCEPT ![p] = Idle]
    /\ UNCHANGED <<rulesPage, edits>>

\* The disk is full, the rename fails or the program dies: save removes its
\* temporary file, or leaves one that nobody reads.
GiveUp(p) ==
    /\ writer[p].pc # "idle"
    /\ writer' = [writer EXCEPT ![p] = Idle]
    /\ UNCHANGED <<file, rulesPage, saves, edits>>

Next ==
    \/ SaveTheme \/ ApplyWallpaper \/ SaveNightLight \/ SaveAppearance \/ SetNightLight
    \/ \E p \in {"settings", "control"} : SaveInput(p)
    \/ \E p \in Editors :
          \/ SaveShortcuts(p) \/ OpenRulesPage(p) \/ CloseRulesPage(p)
          \/ AddRule(p) \/ EditRule(p) \/ RemoveRule(p) \/ SaveRules(p)
    \/ \E p \in Programs : RenameTmp(p) \/ GiveUp(p)

Spec == Init /\ [][Next]_cfgVars

-----------------------------------------------------------------------------

ValueIn(rows, k) == IF k \in DOMAIN Loaded(rows) THEN Loaded(rows)[k] ELSE "none"

Saves(p) == writer[p].pc = "edited" /\ writer'[p].pc = "idle" /\ saves' # saves

KeepsTheRest(p) ==
    \A k \in Keys \ writer[p].touched :
        ValueIn(file', k) = ValueIn(writer[p].cfg.rows, k)

Rewrites(p) == SectionOf(CHOOSE k \in writer[p].touched : TRUE) \in {"shortcuts", "window_rules"}

LoadsAsWanted(p) ==
    \A k \in writer[p].touched :
        ValueIn(file', k) = IF k \in DOMAIN writer[p].want THEN writer[p].want[k] ELSE "none"

\* A save keeps what its page did not touch: the value of every other key is
\* the one the program loaded, although the file holds it in several rows.  And
\* after a page that clears its section first has saved, a program that loads
\* the file gets exactly the page's table: no key it dropped comes back and no
\* key it changed keeps its old value (the use of Config::remove).
SaveIsExact == [][\A p \in Programs : Saves(p) =>
    KeepsTheRest(p) /\ (Rewrites(p) => LoadsAsWanted(p))]_cfgVars

\* What the configuration self-test and config.h:36 say of save: a key that was
\* set before save() has that value when the file is loaded again.
SavedValueIsLoaded == [][\A p \in Programs : Saves(p) =>
    \A k \in DOMAIN writer[p].want :
        ValueIn(file', k) = writer[p].want[k]]_cfgVars
=============================================================================
