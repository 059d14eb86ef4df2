------------------------------ MODULE Terminal ------------------------------
(***************************************************************************)
(* The terminal: TerminalPty between the window and the shell, and what    *)
(* TerminalEdit makes of the shell's output.                               *)
(*                                                                         *)
(* The shell writes units, characters and control sequences of a few       *)
(* bytes each; the kernel hands the bytes over in pieces of any size.      *)
(* Output is valid UTF-8, cursor addressing and the 10,000 line limit of   *)
(* the window are left out.                                                *)
(***************************************************************************)
EXTENDS Integers, Sequences, SequencesExt

CONSTANTS
    MaxTyped,      \* keys the user types
    Room,          \* bytes the kernel buffers towards the shell
    MaxPrinted     \* units the shell prints

VARIABLES
    masterOpen,    \* masterFd_ >= 0
    child,         \* the shell: running, gone (its end is closed), zombie, reaped
    typed,         \* keys typed so far, the n-th key is n
    pendingOut,    \* pendingOut_
    toShell,       \* typed keys in the kernel
    got,           \* typed keys the shell has read
    writeNotifier, \* writeNotifier_ exists
    printed,       \* units the shell has printed
    toWindow,      \* bytes of them in the kernel
    parser,        \* state_
    pendingUtf8,   \* pendingUtf8_
    document,      \* the characters shown
    exitShown      \* the exit message was shown

inputVars  == <<typed, pendingOut, toShell, got, writeNotifier>>
outputVars == <<printed, toWindow, parser, pendingUtf8, document>>
terminalVars == <<masterOpen, child, inputVars, outputVars, exitShown>>

\* "h" "t": a character of two bytes.
Units == {<<"a">>, <<"h", "t">>, <<"bs">>, <<"esc", "[", "m">>, <<"esc", "]", "a", "bel">>,
          <<"esc", "[", "J">>}
Clear == <<"esc", "[", "J">>

Init ==
    /\ masterOpen = TRUE /\ child = "running"
    /\ typed = 0 /\ pendingOut = <<>> /\ toShell = <<>> /\ got = <<>> /\ writeNotifier = FALSE
    /\ printed = <<>> /\ toWindow = <<>> /\ parser = "text" /\ pendingUtf8 = <<>>
    /\ document = <<>> /\ exitShown = FALSE

-----------------------------------------------------------------------------
(* Towards the shell.                                                      *)

\* The kernel takes what it has room for.
Fits(data)  == Min({Len(data), Room - Len(toShell)})
Taken(data) == SubSeq(data, 1, Fits(data))
Rest(data)  == SubSeq(data, Fits(data) + 1, Len(data))

\* Mutant of Write: tries the kernel first, whatever waits already.
WriteAtOnce(key) ==
    /\ toShell' = toShell \o Taken(<<key>>)
    /\ pendingOut' = pendingOut \o Rest(<<key>>)
    /\ writeNotifier' = (writeNotifier \/ pendingOut' # <<>>)

\* What waits goes first.
Write(key) ==
    /\ IF pendingOut # <<>>
       THEN pendingOut' = Append(pendingOut, key) /\ UNCHANGED toShell
       ELSE toShell' = toShell \o Taken(<<key>>) /\ pendingOut' = Rest(<<key>>)
    /\ writeNotifier' = (writeNotifier \/ pendingOut' # <<>>)

KeyPress ==
    /\ masterOpen /\ typed < MaxTyped /\ typed' = typed + 1
    /\ Write(typed')
    /\ UNCHANGED <<masterOpen, child, got, exitShown>> /\ UNCHANGED outputVars

\* The notifier fires when there is room, or when the other end is gone: the
\* write then fails and the rest is given up.
OnWritable ==
    /\ masterOpen /\ writeNotifier /\ (Len(toShell) < Room \/ child # "running")
    /\ IF child # "running" THEN pendingOut' = <<>> /\ UNCHANGED toShell
       ELSE toShell' = toShell \o Taken(pendingOut) /\ pendingOut' = Rest(pendingOut)
    /\ writeNotifier' = (pendingOut' # <<>>)
    /\ UNCHANGED <<masterOpen, child, typed, got, exitShown>> /\ UNCHANGED outputVars

-----------------------------------------------------------------------------
(* From the shell.                                                         *)

\* The whole characters at the start, and the rest of the bytes.
Whole(bytes) == IF bytes # <<>> /\ bytes[Len(bytes)] = "h" THEN Len(bytes) - 1 ELSE Len(bytes)

\* Mutant of Erase: takes the character in the document first.
EraseShownFirst(acc) ==
    IF acc.shown # <<>> THEN [acc EXCEPT !.shown = SubSeq(@, 1, Len(@) - 1)]
    ELSE IF acc.text # <<>> THEN [acc EXCEPT !.text = SubSeq(@, 1, Len(@) - 1)] ELSE acc

\* A backspace: of the text not yet in the document first.
Erase(acc) ==
    IF acc.text # <<>> THEN [acc EXCEPT !.text = SubSeq(@, 1, Len(@) - 1)]
    ELSE IF acc.shown # <<>> THEN [acc EXCEPT !.shown = SubSeq(@, 1, Len(@) - 1)] ELSE acc

\* One step of appendAnsi's automaton; a character's first byte waits for the
\* second.  A clear empties the document, not the text on its way to it.
Shows(acc, b) ==
    CASE acc.state = "text" /\ b = "esc" -> [acc EXCEPT !.state = "escape"]
      [] acc.state = "text" /\ b = "bs"  -> Erase(acc)
      [] acc.state = "text" /\ b = "h"   -> acc
      [] acc.state = "text" /\ b \notin {"esc", "bs", "h"} -> [acc EXCEPT !.text = Append(@, b)]
      [] acc.state = "escape" -> [acc EXCEPT !.state =
                                    IF b = "[" THEN "csi" ELSE IF b = "]" THEN "osc" ELSE "text"]
      [] acc.state = "osc" -> IF b = "bel" THEN [acc EXCEPT !.state = "text"] ELSE acc
      [] acc.state = "csi" -> IF b = "J" THEN [acc EXCEPT !.state = "text", !.shown = <<>>]
                                         ELSE [acc EXCEPT !.state = "text"]

\* The automaton at the end of the bytes.
Ended(acc, bytes) ==
    LET after[n \in 0 .. Len(bytes)] ==
            IF n = 0 THEN acc ELSE Shows(after[n - 1], bytes[n])
    IN after[Len(bytes)]

AppendAnsi(bytes) ==
    LET full == pendingUtf8 \o bytes
        end  == Ended([state |-> parser, text |-> <<>>, shown |-> document],
                      SubSeq(full, 1, Whole(full)))
    IN /\ pendingUtf8' = SubSeq(full, Whole(full) + 1, Len(full))
       /\ parser' = end.state
       /\ document' = end.shown \o end.text

\* onReadable: one read of the loop.
OnReadable(n) ==
    /\ masterOpen /\ n \in 1 .. Len(toWindow)
    /\ AppendAnsi(SubSeq(toWindow, 1, n))
    /\ toWindow' = SubSeq(toWindow, n + 1, Len(toWindow))
    /\ UNCHANGED <<masterOpen, child, printed, exitShown>> /\ UNCHANGED inputVars

\* waitpid without waiting: a shell that has closed its end may not be dead
\* yet, and nobody asks again before the window is closed.  An exit code other
\* than 0 is shown.
ReapChild ==
    IF child = "zombie" THEN child' = "reaped" /\ exitShown' \in BOOLEAN
    ELSE UNCHANGED <<child, exitShown>>

\* The end of the output.  The write notifier stays.
OnEof ==
    /\ masterOpen /\ child # "running" /\ toWindow = <<>>
    /\ masterOpen' = FALSE
    /\ ReapChild
    /\ UNCHANGED inputVars /\ UNCHANGED outputVars

-----------------------------------------------------------------------------
(* The shell.                                                              *)

ShellReads ==
    /\ child = "running" /\ toShell # <<>>
    /\ got' = Append(got, toShell[1]) /\ toShell' = Tail(toShell)
    /\ UNCHANGED <<masterOpen, child, typed, pendingOut, writeNotifier, exitShown>>
    /\ UNCHANGED outputVars

ShellPrints(u) ==
    /\ child = "running" /\ Len(printed) < MaxPrinted
    /\ printed' = Append(printed, u) /\ toWindow' = toWindow \o u
    /\ UNCHANGED <<masterOpen, child, parser, pendingUtf8, document, exitShown>>
    /\ UNCHANGED inputVars

ShellEnds ==
    /\ \/ child = "running" /\ child' = "gone"
       \/ child = "gone" /\ child' = "zombie"
    /\ UNCHANGED <<masterOpen, exitShown>> /\ UNCHANGED inputVars /\ UNCHANGED outputVars

\* stop(): the shell is hung up on, and waited for or killed.
CloseWindow ==
    /\ child # "reaped"
    /\ masterOpen' = FALSE /\ child' = "reaped" /\ writeNotifier' = FALSE /\ pendingOut' = <<>>
    /\ UNCHANGED <<typed, toShell, got, exitShown>> /\ UNCHANGED outputVars

Next ==
    \/ KeyPress \/ OnWritable \/ OnEof
    \/ \E n \in 1 .. Len(toWindow) : OnReadable(n)
    \/ ShellReads \/ ShellEnds \/ CloseWindow
    \/ \E u \in Units : ShellPrints(u)

Spec == Init /\ [][Next]_terminalVars

-----------------------------------------------------------------------------
(* While the shell runs every key reaches it once and in the order typed,  *)
(* however full the kernel is, and keys that wait have a notifier to send  *)
(* them.                                                                   *)
TypedInOrder ==
    masterOpen /\ child = "running" =>
        /\ got \o toShell \o pendingOut = [n \in 1 .. typed |-> n]
        /\ pendingOut # <<>> => writeNotifier

\* The text the units stand for.
WithUnit(acc, u) ==
    IF u = <<"bs">> THEN SubSeq(acc, 1, Len(acc) - 1)
    ELSE IF u \in {<<"a">>, <<"h", "t">>} THEN Append(acc, u[Len(u)]) ELSE acc

TextOf(units) ==
    LET text[n \in 0 .. Len(units)] ==
            IF n = 0 THEN <<>> ELSE WithUnit(text[n - 1], units[n])
    IN text[Len(units)]

\* When all of the output was read, what is shown does not depend on where it
\* was cut into pieces (but for a clear, which leaves the text before it).
TextIsWhole ==
    toWindow = <<>> /\ ~Contains(printed, Clear) =>
        /\ parser = "text" /\ pendingUtf8 = <<>>
        /\ document = TextOf(printed)

\* Both directions of the terminal.
TerminalIsTransparent == TypedInOrder /\ TextIsWhole
=============================================================================
