---------------------------- MODULE ConfigReaders ----------------------------
(***************************************************************************)
(* What the programs make of the text of the configuration file: shortcut  *)
(* bindings, window rules, the night light's interval and the input        *)
(* settings.  Each reader is a function, compared with what its comments   *)
(* promise over every small input; `case' is the input under examination.  *)
(*                                                                         *)
(* A text is a sequence of tokens or letters; a number the code parses is  *)
(* a number, and anything it cannot parse is "junk".                       *)
(***************************************************************************)
EXTENDS Integers, Sequences, FiniteSets, SequencesExt

CONSTANTS
    Day,         \* minutes of a day (1440)
    Letters,     \* letters of window titles
    MaxText      \* length of a title or a pattern

VARIABLE case

Star == "*"
Words(S, n) == UNION {[1..k -> S] : k \in 0..n}

-----------------------------------------------------------------------------
(* shortcuts.cpp: "win+shift+q" as the sequence <<"win", "shift", "q">>.   *)

ModFlag == [win |-> "logo", super |-> "logo", ctrl |-> "ctrl", shift |-> "shift"]
KeyNames == {"q", "left"}
Invalid  == [mods |-> {}, sym |-> "none"]

\* Mutant: a modifier is a repetition only under the same name.
AddModifierByName(acc, name) ==
    IF ~acc.ok \/ name \notin DOMAIN ModFlag \/ name \in acc.names
    THEN [acc EXCEPT !.ok = FALSE]
    ELSE [acc EXCEPT !.mods = @ \union {ModFlag[name]}, !.names = @ \union {name}]

\* One turn of the loop over the modifiers: unknown and repeated ones fail.
AddModifier(acc, name) ==
    IF ~acc.ok \/ name \notin DOMAIN ModFlag \/ ModFlag[name] \in acc.mods
    THEN [acc EXCEPT !.ok = FALSE]
    ELSE [acc EXCEPT !.mods = @ \union {ModFlag[name]}]

\* After each turn of the loop: all parts but the last are modifiers.
Modifiers(parts) ==
    LET acc[n \in 0..Len(parts) - 1] ==
            IF n = 0 THEN [ok |-> TRUE, mods |-> {}, names |-> {}]
                     ELSE AddModifier(acc[n - 1], parts[n])
    IN acc

ParseShortcut(parts) ==
    LET acc == Modifiers(parts)[Len(parts) - 1]
    IN IF Len(parts) >= 2 /\ acc.ok /\ Last(parts) \in KeyNames
       THEN [mods |-> acc.mods, sym |-> Last(parts)] ELSE Invalid

\* What the comment of parseShortcut asks for: modifiers, all different, and a key.
IsBinding(parts) ==
    /\ Len(parts) >= 2
    /\ \A i \in 1..Len(parts) - 1 : parts[i] \in DOMAIN ModFlag
    /\ \A i, j \in 1..Len(parts) - 1 : i # j => ModFlag[parts[i]] # ModFlag[parts[j]]
    /\ Last(parts) \in KeyNames

\* The text of a binding is accepted exactly when it is one, and stands for all
\* its modifiers and its key (shortcuts.cpp:123).
BindingIsUnderstood == case.of = "binding" =>
    LET b == ParseShortcut(case.parts)
    IN IF IsBinding(case.parts)
       THEN b.sym = Last(case.parts)
            /\ b.mods = {ModFlag[case.parts[i]] : i \in 1..Len(case.parts) - 1}
       ELSE b = Invalid

-----------------------------------------------------------------------------
(* windowrules.cpp: patterns, and the line a rule is written as.           *)

Occurs(v, p) == \E i \in 0..Len(v) - Len(p) : SubSeq(v, i + 1, i + Len(p)) = p
FirstStar(p) == CHOOSE i \in DOMAIN p : p[i] = Star /\ \A j \in 1..i-1 : p[j] # Star

\* Mutant: prefix and suffix may overlap in the title.
StarMatchOverlapping(prefix, suffix, v) ==
    /\ IsPrefix(prefix, v)
    /\ IsSuffix(suffix, v)

StarMatch(prefix, suffix, v) ==
    /\ Len(v) >= Len(prefix) + Len(suffix)
    /\ IsPrefix(prefix, v)
    /\ IsSuffix(suffix, v)

MatchPattern(p, v) ==
    /\ p # <<>> /\ v # <<>>
    /\ IF \E i \in DOMAIN p : p[i] = Star
       THEN LET i == FirstStar(p)
            IN StarMatch(SubSeq(p, 1, i - 1), SubSeq(p, i + 1, Len(p)), v)
       ELSE Occurs(v, p)

\* The first star of a pattern stands for any text, an empty one included, and
\* a pattern without a star for itself anywhere in the title (windowrules.h:9).
StarStandsForAnyText == case.of = "pattern" /\ case.pattern # <<>> /\ case.value # <<>> =>
    LET stars == {i \in DOMAIN case.pattern : case.pattern[i] = Star}
        first == FirstStar(case.pattern)
    IN MatchPattern(case.pattern, case.value) <=>
       IF stars = {} THEN Occurs(case.value, case.pattern)
       ELSE \E text \in Words(Letters, MaxText) :
              case.value = SubSeq(case.pattern, 1, first - 1) \o text
                           \o SubSeq(case.pattern, first + 1, Len(case.pattern))

NoText == ""
Flags  == {"top", "borderless"}

\* A rule as the dialog builds it; NoText is a condition that is not set.
RuleFields == [app : {NoText, "term"}, title : {NoText, "doc"}, actions : SUBSET Flags,
               workspace : -1..3, geometry : {<<>>} \union ({0, 9} \X {0, 5})]

\* addRuleDialog and editRuleDialog accept it.
DialogAccepts(r) ==
    /\ r.app # NoText \/ r.title # NoText
    /\ r.geometry # <<>> => r.geometry[1] > 0 /\ r.geometry[2] > 0

When(condition, x) == IF condition THEN <<x>> ELSE <<>>

\* saveRules: conditions app_id first, then title; the actions in order.
SerializeRule(r) ==
    [match   |-> When(r.app # NoText, <<"app_id", r.app>>)
                 \o When(r.title # NoText, <<"title", r.title>>),
     actions |-> When("top" \in r.actions, <<"top">>)
                 \o When("borderless" \in r.actions, <<"borderless">>)
                 \o When(r.workspace >= 0, <<"workspace", r.workspace>>)
                 \o When(r.geometry # <<>>, <<"geometry", r.geometry>>)]

Rejected == [rejected |-> TRUE]
NoRule   == [app |-> NoText, title |-> NoText, actions |-> {}, workspace |-> -1, geometry |-> <<>>]

\* Mutant: workspaces are counted from one.
ParseActionFromOne(r, a) ==
    IF r = Rejected THEN r
    ELSE IF a[1] \in Flags THEN [r EXCEPT !.actions = @ \union {a[1]}]
    ELSE IF a[1] = "workspace" /\ a[2] \in 1..4 THEN [r EXCEPT !.workspace = a[2]]
    ELSE IF a[1] = "geometry" /\ a[2][1] > 0 /\ a[2][2] > 0 THEN [r EXCEPT !.geometry = a[2]]
    ELSE Rejected

ParseAction(r, a) ==
    IF r = Rejected THEN r
    ELSE IF a[1] \in Flags THEN [r EXCEPT !.actions = @ \union {a[1]}]
    ELSE IF a[1] = "workspace" /\ a[2] \in 0..3 THEN [r EXCEPT !.workspace = a[2]]
    ELSE IF a[1] = "geometry" /\ a[2][1] > 0 /\ a[2][2] > 0 THEN [r EXCEPT !.geometry = a[2]]
    ELSE Rejected

\* What a line says of one kind of condition.
Given(match, kind) ==
    IF \E i \in DOMAIN match : match[i][1] = kind
    THEN match[CHOOSE i \in DOMAIN match : match[i][1] = kind][2] ELSE NoText

\* parseRuleLine: at most two conditions, of different kinds.
ParseMatch(match) ==
    IF match = <<>> \/ (Len(match) = 2 /\ match[1][1] = match[2][1]) THEN Rejected
    ELSE [NoRule EXCEPT !.app = Given(match, "app_id"), !.title = Given(match, "title")]

ParseRuleLine(line) ==
    LET rule[n \in 0..Len(line.actions)] ==
            IF n = 0 THEN ParseMatch(line.match)
                     ELSE ParseAction(rule[n - 1], line.actions[n])
    IN rule[Len(line.actions)]

\* A rule the dialog accepts is the rule the compositor reads at its next start
\* (settingswindow.cpp:2035, "compatible with parseRuleLine").
RuleSurvivesSave == case.of = "rule" /\ DialogAccepts(case.rule) =>
    ParseRuleLine(SerializeRule(case.rule)) = case.rule

-----------------------------------------------------------------------------
(* nightlight.cpp and inputsettings.cpp.                                   *)

Junk == -99
Clamp(x, lo, hi) == IF x < lo THEN lo ELSE IF x > hi THEN hi ELSE x
ParseTime(v, fallback) == IF v \in 0..Day - 1 THEN v ELSE fallback

\* Mutant: an empty interval is kept.
LoadNightLightAsIs(text) ==
    [enabled |-> text.enabled, temperature |-> Clamp(text.temperature, 1, 8),
     start |-> ParseTime(text.start, (3 * Day) \div 4), end |-> ParseTime(text.end, Day \div 4)]

LoadNightLight(text) ==
    LET start == ParseTime(text.start, (3 * Day) \div 4)
        end   == ParseTime(text.end, Day \div 4)
    IN [enabled |-> text.enabled, temperature |-> Clamp(text.temperature, 1, 8),
        start |-> IF start = end THEN (3 * Day) \div 4 ELSE start,
        end   |-> IF start = end THEN Day \div 4 ELSE end]

IsNightActive(c, now) ==
    /\ c.enabled /\ now \in 0..Day - 1
    /\ IF c.start < c.end THEN c.start <= now /\ now < c.end
                          ELSE c.start <= now \/ now < c.end

\* The night lasts from start to end around the clock, whether or not it
\* crosses midnight, and never the whole day, whatever the file holds.
NightIsAnInterval == case.of = "night" =>
    LET c == LoadNightLight(case.text)
    IN /\ c.start # c.end
       /\ IsNightActive(c, case.now) <=>
            c.enabled /\ (case.now - c.start) % Day < (c.end - c.start) % Day

-----------------------------------------------------------------------------

Bindings == {[of |-> "binding", parts |-> w] :
                w \in Words(DOMAIN ModFlag \union KeyNames \union {"junk"}, 3)}
Patterns == {[of |-> "pattern", pattern |-> p, value |-> v] :
                p \in Words(Letters \union {Star}, MaxText), v \in Words(Letters, MaxText)}
Rules    == {[of |-> "rule", rule |-> r] : r \in RuleFields}
Nights   == {[of |-> "night", now |-> m,
              text |-> [enabled |-> b, temperature |-> 9, start |-> s, end |-> e]] :
                m \in 0..Day - 1, b \in BOOLEAN, s \in {Junk} \union (0..Day),
                e \in {Junk} \union (0..Day)}

Cases == Bindings \union Patterns \union Rules \union Nights

Init == case \in Cases
Next == UNCHANGED case
Spec == Init /\ [][Next]_case
=============================================================================
