---------------------------- MODULE SessionLock ----------------------------
(***************************************************************************)
(* The lock screen: the compositor's side of ext-session-lock-v1           *)
(* (server.cpp from "锁屏" on) and w10lock, a process per press of the lock *)
(* shortcut (src/lock).  Requests and events travel in order, a client may *)
(* die at any moment.                                                      *)
(*                                                                         *)
(* A lock and its surface are named by their client.  wlroots destroys the *)
(* surface of a lock before the lock, and asserts that no listener is left *)
(* on what it destroys.                                                    *)
(***************************************************************************)
EXTENDS Integers, Sequences, FiniteSets

CONSTANTS
    Lockers,     \* w10lock processes
    Nobody,      \* a null pointer
    MaxTyped     \* characters a password may have (64 in the code)

VARIABLES
    sessionLock, \* sessionLock_
    lockSurface, \* sessionLockSurface_
    lockScene,   \* the client whose surface is drawn, see sessionLockSceneSurface_
    locked,      \* sessionLocked_
    lockKeys,    \* the client whose surface has the keyboard
    hooks,       \* listeners that are linked: <<listener, client>>
    locks,       \* each client's lock object: "none", "live" or "dead"
    surfaces,    \* and its surface: "none", "live", "mapped" or "dead"
    wire,        \* requests on their way to the compositor
    inbox,       \* events on their way to the client
    locker,      \* the state of each w10lock
    asserted     \* wlroots found a listener on an object it destroys

lockVars == <<sessionLock, lockSurface, lockScene, locked, lockKeys, hooks, locks,
              surfaces, wire, inbox, locker, asserted>>
objects  == <<sessionLock, lockSurface, lockScene, locked, lockKeys, hooks, locks,
              surfaces, asserted>>

LockHooks    == {"newSurface", "unlock", "lockDestroy"}
SurfaceHooks == {"surfaceMap", "surfaceDestroy"}
Linked(S, c) == S \X {c}

\* What a handler of the compositor reads and writes.
Lock == [lock : Lockers \union {Nobody}, surface : Lockers \union {Nobody},
         scene : Lockers \union {Nobody}, locked : BOOLEAN,
         keys : Lockers \union {Nobody}, hooks : SUBSET ((LockHooks \union SurfaceHooks) \X Lockers),
         asserted : BOOLEAN]
Current == [lock |-> sessionLock, surface |-> lockSurface, scene |-> lockScene,
            locked |-> locked, keys |-> lockKeys, hooks |-> hooks, asserted |-> asserted]
Becomes(l) ==
    /\ sessionLock' = l.lock /\ lockSurface' = l.surface /\ lockScene' = l.scene
    /\ locked' = l.locked /\ lockKeys' = l.keys /\ hooks' = l.hooks
    /\ asserted' = l.asserted

\* setSessionLocked: a change takes the keyboard from everybody.
SetSessionLocked(l, on) ==
    IF l.locked = on THEN l ELSE [l EXCEPT !.locked = on, !.keys = Nobody]

\* Mutant of LockUnlock: the lock is let go of, and the desktop stays hidden.
LockUnlockHidden(l) ==
    [l EXCEPT !.hooks = {}, !.lock = Nobody, !.surface = Nobody, !.scene = Nobody]

\* handleLockUnlock: the desktop comes back, every listener goes.
LockUnlock(l) ==
    [SetSessionLocked(l, FALSE) EXCEPT
       !.hooks = {}, !.lock = Nobody, !.surface = Nobody, !.scene = Nobody]

\* Mutant of LockDestroyed: only the listener that runs is unlinked.
LockDestroyedOnce(l) ==
    [SetSessionLocked(l, FALSE) EXCEPT
       !.hooks = {h \in l.hooks : h[1] # "lockDestroy"},
       !.lock = Nobody, !.surface = Nobody, !.scene = Nobody]

\* handleLockDestroy.
LockDestroyed(l) ==
    [SetSessionLocked(l, FALSE) EXCEPT
       !.hooks = {h \in l.hooks : h[1] \in SurfaceHooks},
       !.lock = Nobody, !.surface = Nobody, !.scene = Nobody]

\* handleLockSurfaceDestroy.
SurfaceDestroyed(l) ==
    [l EXCEPT !.hooks = {h \in l.hooks : h[1] \in LockHooks},
              !.surface = Nobody, !.scene = Nobody]

\* wlroots: the surface is unmapped, its destroy signal runs, nothing may be left
\* on it; whoever pointed the keyboard at it loses it.
DestroySurface(l, c) ==
    LET m == [l EXCEPT !.keys = IF @ = c THEN Nobody ELSE @]
        s == IF <<"surfaceDestroy", c>> \in m.hooks THEN SurfaceDestroyed(m) ELSE m
    IN [s EXCEPT !.asserted = @ \/ s.hooks \intersect Linked({"surfaceDestroy"}, c) # {}]

\* wlroots: the surface first, then the lock's destroy signal.
DestroyLock(l, c) ==
    LET s == IF surfaces[c] \in {"live", "mapped"} THEN DestroySurface(l, c) ELSE l
        d == IF <<"lockDestroy", c>> \in s.hooks THEN LockDestroyed(s) ELSE s
    IN [d EXCEPT !.asserted = @ \/ d.hooks \intersect Linked(LockHooks, c) # {}]

Idle == [phase |-> "off", locked |-> FALSE,
         typed |-> 0, probed |-> FALSE, available |-> FALSE]

Init ==
    /\ sessionLock = Nobody /\ lockSurface = Nobody /\ lockScene = Nobody
    /\ locked = FALSE /\ lockKeys = Nobody /\ hooks = {} /\ asserted = FALSE
    /\ locks = [c \in Lockers |-> "none"]
    /\ surfaces = [c \in Lockers |-> "none"]
    /\ wire = [c \in Lockers |-> <<>>]
    /\ inbox = [c \in Lockers |-> <<>>]
    /\ locker = [c \in Lockers |-> Idle]

-----------------------------------------------------------------------------
(* The compositor: the next request of a client.                           *)

Request(c, what) == /\ ~asserted /\ wire[c] # <<>> /\ Head(wire[c]) = what
                    /\ wire' = [wire EXCEPT ![c] = Tail(@)]
                    /\ UNCHANGED locker
Sends(c, event) == inbox' = [inbox EXCEPT ![c] = Append(@, event)]

\* handleNewLock: only one lock at a time, a second is told that it is finished.
NewLock(c) ==
    /\ Request(c, "lock")
    /\ IF sessionLock # Nobody
       THEN /\ locks' = [locks EXCEPT ![c] = "dead"]
            /\ Sends(c, "finished")
            /\ UNCHANGED <<sessionLock, hooks>>
       ELSE /\ locks' = [locks EXCEPT ![c] = "live"]
            /\ Sends(c, "locked")
            /\ sessionLock' = c
            /\ hooks' = hooks \union Linked(LockHooks, c)
    /\ UNCHANGED <<lockSurface, lockScene, locked, lockKeys, surfaces, asserted>>

\* handleLockNewSurface: one surface at a time; configured with the size of the
\* first output.
NewSurface(c) ==
    /\ Request(c, "surface")
    /\ IF locks[c] # "live" \/ <<"newSurface", c>> \notin hooks \/ lockSurface # Nobody
       THEN /\ surfaces' = [surfaces EXCEPT ![c] = IF locks[c] = "live" THEN "live" ELSE "dead"]
            /\ UNCHANGED <<lockSurface, lockScene, hooks, inbox>>
       ELSE /\ surfaces' = [surfaces EXCEPT ![c] = "live"]
            /\ lockSurface' = c /\ lockScene' = c
            /\ hooks' = hooks \union Linked(SurfaceHooks, c)
            /\ Sends(c, "configure")
    /\ UNCHANGED <<sessionLock, locked, lockKeys, locks, asserted>>

\* A committed surface is mapped; handleLockSurfaceMap.
SurfaceCommit(c) ==
    /\ Request(c, "commit")
    /\ surfaces' = [surfaces EXCEPT ![c] = IF @ = "live" THEN "mapped" ELSE @]
    /\ IF surfaces[c] = "live" /\ <<"surfaceMap", c>> \in hooks
       THEN Becomes([SetSessionLocked(Current, TRUE) EXCEPT
                       !.keys = IF lockSurface # Nobody THEN lockSurface ELSE @])
       ELSE UNCHANGED <<sessionLock, lockSurface, lockScene, locked, lockKeys, hooks, asserted>>
    /\ UNCHANGED <<locks, inbox>>

\* unlock_and_destroy.
Unlock(c) ==
    /\ Request(c, "unlock")
    /\ IF locks[c] = "live"
       THEN /\ Becomes(DestroyLock(IF <<"unlock", c>> \in hooks
                                   THEN LockUnlock(Current) ELSE Current, c))
            /\ locks' = [locks EXCEPT ![c] = "dead"]
            /\ surfaces' = [surfaces EXCEPT ![c] = "dead"]
       ELSE UNCHANGED objects
    /\ UNCHANGED inbox

\* The connection ends: wlroots destroys what the client had.
Disconnect(c) ==
    /\ Request(c, "gone")
    /\ IF locks[c] = "live" THEN Becomes(DestroyLock(Current, c))
       ELSE UNCHANGED <<sessionLock, lockSurface, lockScene, locked, lockKeys, hooks, asserted>>
    /\ locks' = [locks EXCEPT ![c] = "dead"]
    /\ surfaces' = [surfaces EXCEPT ![c] = "dead"]
    /\ inbox' = [inbox EXCEPT ![c] = <<>>]

Serve(c) == NewLock(c) \/ NewSurface(c) \/ SurfaceCommit(c) \/ Unlock(c) \/ Disconnect(c)

-----------------------------------------------------------------------------
(* w10lock.                                                                *)

Post(c, requests) == wire' = [wire EXCEPT ![c] = @ \o requests]

\* launchLockScreen, then main up to LockClient::lock.
Launch(c) ==
    /\ locker[c].phase = "off" /\ locks[c] = "none"
    /\ locker' = [locker EXCEPT ![c].phase = "locking"]
    /\ Post(c, <<"lock", "surface">>)
    /\ UNCHANGED <<objects, inbox>>

\* lockSurfaceConfigure acknowledges and presents the first frame.
OnConfigure(c) ==
    /\ inbox[c] # <<>> /\ Head(inbox[c]) = "configure"
    /\ Post(c, <<"commit">>)
    /\ UNCHANGED locker

OnLocked(c) ==
    /\ inbox[c] # <<>> /\ Head(inbox[c]) = "locked"
    /\ locker' = [locker EXCEPT ![c].locked = TRUE]
    /\ UNCHANGED wire

\* lockFinished: the callback that quits is set only when lock() has returned.
OnFinished(c) ==
    /\ inbox[c] # <<>> /\ Head(inbox[c]) = "finished"
    /\ locker' = [locker EXCEPT ![c].locked = FALSE,
                                ![c].phase = IF @ = "running" THEN "quit" ELSE @]
    /\ UNCHANGED wire

Dispatch(c) ==
    /\ locker[c].phase \in {"locking", "running"}
    /\ OnConfigure(c) \/ OnLocked(c) \/ OnFinished(c)
    /\ inbox' = [inbox EXCEPT ![c] = Tail(@)]
    /\ UNCHANGED objects

\* The two round trips of lock() are over and main enters the event loop.
Run(c) ==
    /\ locker[c].phase = "locking" /\ wire[c] = <<>> /\ inbox[c] = <<>>
    /\ locker' = [locker EXCEPT ![c].phase = "running"]
    /\ UNCHANGED <<objects, wire, inbox>>

HasKeyboard(c) == ~asserted /\ locker[c].phase = "running" /\ lockKeys = c

\* A printable key: the first one probes PAM, and without the permission to ask
\* it the key is dropped.
TypeKey(c) ==
    /\ HasKeyboard(c)
    /\ \E available \in (IF locker[c].probed THEN {locker[c].available} ELSE BOOLEAN) :
         locker' = [locker EXCEPT
           ![c].probed = TRUE, ![c].available = available,
           ![c].typed = IF ~locker[c].probed /\ ~available THEN @
                        ELSE IF @ < MaxTyped THEN @ + 1 ELSE @]
    /\ UNCHANGED <<objects, wire, inbox>>

Backspace(c) ==
    /\ HasKeyboard(c) /\ locker[c].typed > 0
    /\ locker' = [locker EXCEPT ![c].typed = @ - 1]
    /\ UNCHANGED <<objects, wire, inbox>>

\* Return: PAM decides (pamAuthenticate); only its yes unlocks.  The surface that
\* unlock() destroys as well is gone with its lock by then.
Enter(c) ==
    /\ HasKeyboard(c)
    /\ \E result \in {"ok", "denied", "no permission", "error"} :
         IF result = "ok"
         THEN /\ locker' = [locker EXCEPT ![c] = [@ EXCEPT !.phase = "quit", !.typed = 0,
                                                           !.locked = FALSE]]
              /\ Post(c, <<"unlock">>)
         ELSE /\ locker' = [locker EXCEPT
                   ![c].typed = 0,
                   ![c].probed = @ \/ result = "no permission",
                   ![c].available = @ /\ result # "no permission"]
              /\ UNCHANGED wire
    /\ UNCHANGED <<objects, inbox>>

\* The process ends, after its round trip or because it crashed.
Leave(c) ==
    /\ locker' = [locker EXCEPT ![c].phase = "over"]
    /\ Post(c, <<"gone">>)
    /\ UNCHANGED <<objects, inbox>>

Exit(c)  == locker[c].phase = "quit" /\ wire[c] = <<>> /\ Leave(c)
Crash(c) == locker[c].phase \in {"locking", "running", "quit"} /\ Leave(c)

Client(c) == Dispatch(c) \/ Run(c) \/ TypeKey(c) \/ Backspace(c) \/ Enter(c) \/ Exit(c)

Quiet == (\A c \in Lockers : locker[c].phase = "over") /\ UNCHANGED lockVars

Next == (\E c \in Lockers : Serve(c) \/ Launch(c) \/ Client(c) \/ Crash(c)) \/ Quiet

Spec == Init /\ [][Next]_lockVars

-----------------------------------------------------------------------------

\* A listener of the compositor is only ever linked to a lock or a surface that
\* exists and that the compositor still points at, so that a second lock cannot
\* link it twice and wlroots never finds it on what it destroys.
ListenersAreOnLiveObjects ==
    /\ ~asserted
    /\ \A h \in hooks : IF h[1] \in LockHooks
                        THEN sessionLock = h[2] /\ locks[h[2]] = "live"
                        ELSE lockSurface = h[2] /\ surfaces[h[2]] \in {"live", "mapped"}

\* The desktop is hidden only while somebody holds the lock: however a lock
\* screen ends, unlocked, crashed or halfway, the session comes back, which is
\* what handleLockDestroy says of itself (the comments at server.cpp:1080 and
\* :1093).  For a client that dies while it holds the lock the protocol says
\* otherwise (ext-session-lock-v1.xml:111): the code does not do that.
HiddenOnlyWhileHeld ==
    /\ locked => sessionLock # Nobody
    /\ lockKeys # Nobody => locked /\ sessionLock = lockKeys

\* Both: what any lock screen leaves behind when it ends.
LockIsReleased == ListenersAreOnLiveObjects /\ HiddenOnlyWhileHeld
=============================================================================
