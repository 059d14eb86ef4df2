----------------------------- MODULE RemoteDesktop -----------------------------
(***************************************************************************)
(* The remote desktop program: a form, its saved copy, and a client        *)
(* program that runs in a process of its own (RdpClient, RdpWindow).  The  *)
(* process is asked to end, then killed, and each time waited for in vain  *)
(* at worst; it may also end, or fail to start, by itself.                 *)
(***************************************************************************)
EXTENDS Integers

CONSTANTS
    Hosts,         \* what the host field may hold
    BadHosts,      \* those that are refused
    Blank          \* an empty field

VARIABLES
    client,        \* the client program: "present", "broken" or "absent"
    proc,          \* QProcess: "none", "starting" or "running"
    window,        \* up, asking, and the two buttons
    form,          \* the fields, as far as they matter
    saved          \* rdp.ini

rdpVars == <<client, proc, window, form, saved>>

Form(h, p, remember) == [host |-> h, password |-> p, remember |-> remember]
Empty == Form(Blank, Blank, FALSE)

\* Only what was saved with a host is loaded.
LoadConfig(c) == IF c.host = Blank THEN Empty ELSE c

NewWindow == [up |-> TRUE, asking |-> FALSE, connect |-> TRUE, disconnect |-> FALSE]

Init ==
    /\ client = "present" /\ proc = "none"
    /\ window = NewWindow /\ form = Empty /\ saved = Empty

UpdateUi(w, p) == [w EXCEPT !.connect = p = "none", !.disconnect = p # "none"]
Works == window.up /\ ~window.asking

-----------------------------------------------------------------------------
(* The user and the system.                                                *)

Install(c) ==
    /\ c # client /\ client' = c
    /\ UNCHANGED <<proc, window, form, saved>>

Fill(h, p, remember) ==
    /\ Works /\ form' = Form(h, p, remember)
    /\ UNCHANGED <<client, proc, window, saved>>

\* A process that began to start shows it or fails; only the window's buttons
\* are not looked at again when it fails.
Started ==
    /\ proc = "starting" /\ client = "present" /\ proc' = "running"
    /\ UNCHANGED <<client, window, form, saved>>

FailedToStart ==
    /\ proc = "starting" /\ client # "present" /\ proc' = "none"
    /\ UNCHANGED <<client, window, form, saved>>

\* finished: also while the window asks whether to close.
Finished ==
    /\ proc = "running" /\ proc' = "none"
    /\ window' = IF window.up THEN UpdateUi(window, "none") ELSE window
    /\ UNCHANGED <<client, form, saved>>

-----------------------------------------------------------------------------
(* The window.                                                             *)

Valid == form.host # Blank /\ form.host \notin BadHosts

\* stop(): the process is gone, or it outlives a second after being killed.
Stopped == IF proc = "none" \/ client # "present" THEN {"none"} ELSE {"none", "running"}

OnConnect ==
    /\ Works /\ window.connect
    /\ IF Valid /\ client # "absent"
       THEN \E p \in Stopped :
                /\ proc' = IF p = "none" THEN "starting" ELSE p
                /\ window' = IF p = "none" THEN UpdateUi(window, "starting") ELSE window
       ELSE UNCHANGED <<proc, window>>
    /\ UNCHANGED <<client, form, saved>>

\* Mutant of OnDisconnect: the window shows the client as ended, whether it did or not.
DisconnectAtOnce ==
    /\ Works /\ window.disconnect
    /\ proc' \in Stopped
    /\ window' = UpdateUi(window, "none")
    /\ UNCHANGED <<client, form, saved>>

OnDisconnect ==
    /\ Works /\ window.disconnect
    /\ proc' \in Stopped
    /\ window' = UpdateUi(window, proc')
    /\ UNCHANGED <<client, form, saved>>

\* The password is kept only when asked for; writing may fail.
OnSave ==
    /\ Works
    /\ saved' \in {saved} \union
                  (IF Valid THEN {[form EXCEPT !.password = IF form.remember THEN @ ELSE Blank]} ELSE {})
    /\ UNCHANGED <<client, proc, window, form>>

\* A running client is asked about before the window closes.
CloseEvent ==
    /\ Works
    /\ window' = IF proc = "none" THEN [window EXCEPT !.up = FALSE] ELSE [window EXCEPT !.asking = TRUE]
    /\ UNCHANGED <<client, proc, form, saved>>

\* Closing ends the process with the program, whether or not stop() saw it end.
Answer(yes) ==
    /\ window.asking
    /\ window' = [window EXCEPT !.asking = FALSE, !.up = ~yes]
    /\ proc' = IF yes THEN "none" ELSE proc
    /\ UNCHANGED <<client, form, saved>>

Open ==
    /\ ~window.up
    /\ window' = NewWindow /\ form' = LoadConfig(saved)
    /\ UNCHANGED <<client, proc, saved>>

Next ==
    \/ \E c \in {"present", "broken", "absent"} : Install(c)
    \/ \E h \in Hosts \union {Blank}, p \in {Blank, "password"}, remember \in BOOLEAN : Fill(h, p, remember)
    \/ Started \/ FailedToStart \/ Finished
    \/ OnConnect \/ OnDisconnect \/ OnSave \/ CloseEvent
    \/ \E yes \in BOOLEAN : Answer(yes)
    \/ Open

Spec == Init /\ [][Next]_rdpVars

-----------------------------------------------------------------------------
\* As long as there is a client process, also one that outlives being killed, the
\* window is there and offers to end it, and does not offer to start another;
\* and one of the two is always offered.
SessionCanBeEnded ==
    /\ proc # "none" => window.up /\ window.disconnect /\ ~window.connect
    /\ window.connect # window.disconnect
=============================================================================
