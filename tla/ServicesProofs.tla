----------------------------- MODULE ServicesProofs -----------------------------
(***************************************************************************)
(* Proofs about the parts that wait for an answer from outside, each for   *)
(* every value of its constants and without the fairness that Services     *)
(* states: what holds in every state needs none.                           *)
(***************************************************************************)
EXTENDS Services, ListTheorems, TLAPS, SequenceTheorems, FiniteSetTheorems

-----------------------------------------------------------------------------
(* SessionLock: any number of lock screens, launched, answered, crashed    *)
(* and served in any order.                                                *)

\* Steps of the composition are steps of the lock.
LEMMA LockAlone ==
    ASSUME [Next]_vars
    PROVE  [Lock!Next]_lockVars
BY DEF Next, vars, OutputsStep, LockStep, TrayStep, PanelsStep, RecorderStep, AudioStep,
       Alone, lockVars

\* The listeners that belong to a lock and to a surface.
HooksOf(lock, surface) ==
    {h \in Lock!LockHooks \X Lockers : h[2] = lock}
        \union {h \in Lock!SurfaceHooks \X Lockers : h[2] = surface}

\* What a handler leaves: exactly the listeners of what the compositor points at, the
\* surface one of the lock's client, and the keyboard with nobody else.
Sound(l) ==
    /\ l \in Lock!Lock /\ ~l.asserted
    /\ l.hooks = HooksOf(l.lock, l.surface)
    /\ l.surface \in {Nobody, l.lock}
    /\ l.locked => l.lock # Nobody
    /\ l.keys # Nobody => l.locked /\ l.lock = l.keys

Requests == {"lock", "surface", "commit", "unlock", "gone"}
LockerState == [phase : {"off", "locking", "running", "quit", "over"}, locked : BOOLEAN,
                typed : Int, probed : BOOLEAN, available : BOOLEAN]

LockTypes ==
    /\ locks \in [Lockers -> {"none", "live", "dead"}]
    /\ surfaces \in [Lockers -> {"none", "live", "mapped", "dead"}]
    /\ wire \in [Lockers -> Seq(Requests)]
    /\ locker \in [Lockers -> LockerState]

\* What the compositor points at exists.
PointedAtExists ==
    /\ sessionLock # Nobody => locks[sessionLock] = "live"
    /\ lockSurface # Nobody => surfaces[lockSurface] \in {"live", "mapped"}

\* A client asks for one lock in its life, and first of all.
LocksOnce ==
    \A c \in Lockers :
        /\ locker[c].phase = "off" => wire[c] = <<>>
        /\ \A i \in DOMAIN wire[c] : wire[c][i] = "lock" => i = 1 /\ locks[c] = "none"

LockInv == Sound(Lock!Current) /\ LockTypes /\ PointedAtExists /\ LocksOnce

-----------------------------------------------------------------------------
(* The handlers of the compositor, on its own state.                       *)

\* handleLockUnlock leaves nothing.
LEMMA LockUnlockSound ==
    ASSUME Nobody \notin Lockers, NEW l, Sound(l)
    PROVE  /\ Sound(Lock!LockUnlock(l))
           /\ Lock!LockUnlock(l).lock = Nobody /\ Lock!LockUnlock(l).surface = Nobody
<1> DEFINE s == Lock!SetSessionLocked(l, FALSE)
<1>1. s \in Lock!Lock /\ ~s.asserted /\ s.locked = FALSE /\ s.keys = Nobody
  BY DEF Sound, Lock!SetSessionLocked, Lock!Lock
<1>2. Lock!LockUnlock(l)
        = [s EXCEPT !.hooks = {}, !.lock = Nobody, !.surface = Nobody, !.scene = Nobody]
  BY DEF Lock!LockUnlock
<1> HIDE DEF s
<1>3. HooksOf(Nobody, Nobody) = {}
  BY DEF HooksOf
<1>4. QED
  BY <1>1, <1>2, <1>3 DEF Sound, Lock!Lock

\* A client's surface goes: its listeners and its keyboard go first.
LEMMA DestroySurfaceSound ==
    ASSUME Nobody \notin Lockers, NEW l, Sound(l), NEW c \in Lockers
    PROVE  LET e == Lock!DestroySurface(l, c)
           IN /\ Sound(e) /\ e.lock = l.lock
              /\ e.surface = IF l.surface = c THEN Nobody ELSE l.surface
<1> DEFINE m == [l EXCEPT !.keys = IF @ = c THEN Nobody ELSE @]
<1>1. Sound(m) /\ m.lock = l.lock /\ m.surface = l.surface
  BY DEF Sound, Lock!Lock
<1>2. <<"surfaceDestroy", c>> \in m.hooks <=> m.surface = c
  BY <1>1 DEF Sound, HooksOf, Lock!SurfaceHooks, Lock!LockHooks
<1> DEFINE s == IF <<"surfaceDestroy", c>> \in m.hooks THEN Lock!SurfaceDestroyed(m) ELSE m
<1>3. Lock!DestroySurface(l, c)
        = [s EXCEPT !.asserted = @ \/ s.hooks \intersect Lock!Linked({"surfaceDestroy"}, c) # {}]
  BY DEF Lock!DestroySurface
<1> HIDE DEF m
<1>4. /\ Sound(s) /\ s.lock = m.lock /\ s.surface = IF m.surface = c THEN Nobody ELSE m.surface
  <2>1. CASE m.surface = c
    <3> DEFINE hs == {h \in m.hooks : h[1] \in Lock!LockHooks}
    <3>1. s = [m EXCEPT !.hooks = hs, !.surface = Nobody, !.scene = Nobody]
      BY <1>2, <2>1 DEF Lock!SurfaceDestroyed
    <3>2. hs = HooksOf(m.lock, Nobody)
      BY <1>1 DEF Sound, HooksOf, Lock!SurfaceHooks, Lock!LockHooks
    <3>3. hs \subseteq m.hooks
      OBVIOUS
    <3> HIDE DEF hs, s
    <3>4. s \in Lock!Lock /\ ~s.asserted /\ s.hooks = hs /\ s.surface = Nobody /\ s.lock = m.lock
          /\ s.locked = m.locked /\ s.keys = m.keys
      BY <1>1, <3>1, <3>3 DEF Sound, Lock!Lock
    <3>5. QED
      BY <1>1, <2>1, <3>2, <3>4 DEF Sound
  <2>2. CASE m.surface # c
    BY <1>1, <1>2, <2>2
  <2>3. QED
    BY <2>1, <2>2
<1> HIDE DEF s
<1>5. s.hooks \intersect Lock!Linked({"surfaceDestroy"}, c) = {}
  BY <1>4 DEF Sound, HooksOf, Lock!SurfaceHooks, Lock!LockHooks, Lock!Linked
<1>6. Lock!DestroySurface(l, c) = [s EXCEPT !.asserted = FALSE]
  BY <1>3, <1>4, <1>5 DEF Sound, Lock!Lock
<1>7. QED
  BY <1>1, <1>4, <1>6 DEF Sound, Lock!Lock

\* A client's lock goes, after its surface: nothing of either is left.
LEMMA DestroyLockSound ==
    ASSUME Nobody \notin Lockers, NEW l, Sound(l), NEW c \in Lockers,
           l.surface = c => surfaces[c] \in {"live", "mapped"}
    PROVE  LET e == Lock!DestroyLock(l, c)
           IN /\ Sound(e) /\ e.lock = IF l.lock = c THEN Nobody ELSE l.lock
              /\ e.surface = IF l.surface = c THEN Nobody ELSE l.surface
<1> DEFINE s == IF surfaces[c] \in {"live", "mapped"} THEN Lock!DestroySurface(l, c) ELSE l
<1>1. /\ Sound(s) /\ s.lock = l.lock
      /\ s.surface = IF l.surface = c THEN Nobody ELSE l.surface
  BY DestroySurfaceSound
<1> DEFINE d == IF <<"lockDestroy", c>> \in s.hooks THEN Lock!LockDestroyed(s) ELSE s
<1>2. Lock!DestroyLock(l, c)
        = [d EXCEPT !.asserted = @ \/ d.hooks \intersect Lock!Linked(Lock!LockHooks, c) # {}]
  BY DEF Lock!DestroyLock
<1> HIDE DEF s
<1>3. <<"lockDestroy", c>> \in s.hooks <=> s.lock = c
  BY <1>1 DEF Sound, HooksOf, Lock!SurfaceHooks, Lock!LockHooks
<1>4. Sound(d) /\ d.lock = (IF s.lock = c THEN Nobody ELSE s.lock) /\ d.surface = s.surface
  <2>1. CASE s.lock = c
    <3> DEFINE f == Lock!SetSessionLocked(s, FALSE)
               hs == {h \in s.hooks : h[1] \in Lock!SurfaceHooks}
    <3>1. d = [f EXCEPT !.hooks = hs, !.lock = Nobody, !.surface = Nobody, !.scene = Nobody]
      BY <1>3, <2>1 DEF Lock!LockDestroyed
    <3>2. s.surface = Nobody
      BY <1>1, <2>1 DEF Sound
    <3>3. hs = {} /\ HooksOf(Nobody, Nobody) = {}
      BY <1>1, <3>2 DEF Sound, HooksOf, Lock!SurfaceHooks, Lock!LockHooks
    <3>4. f \in Lock!Lock /\ ~f.asserted /\ f.locked = FALSE /\ f.keys = Nobody
      BY <1>1 DEF Sound, Lock!SetSessionLocked, Lock!Lock
    <3> HIDE DEF f, hs, d
    <3>5. QED
      BY <2>1, <3>1, <3>2, <3>3, <3>4 DEF Sound, Lock!Lock
  <2>2. CASE s.lock # c
    BY <1>1, <1>3, <2>2
  <2>3. QED
    BY <2>1, <2>2
<1> HIDE DEF d
<1>5. d.hooks \intersect Lock!Linked(Lock!LockHooks, c) = {}
  BY <1>1, <1>4 DEF Sound, HooksOf, Lock!SurfaceHooks, Lock!LockHooks, Lock!Linked
<1>6. Lock!DestroyLock(l, c) = [d EXCEPT !.asserted = FALSE]
  BY <1>2, <1>4, <1>5 DEF Sound, Lock!Lock
<1>7. QED
  BY <1>1, <1>4, <1>6 DEF Sound, Lock!Lock

-----------------------------------------------------------------------------
(* Requests on the wire.                                                   *)

\* What Becomes sets is the compositor's own state.
LEMMA BecomesCurrent ==
    ASSUME NEW l, l \in Lock!Lock, Lock!Becomes(l)
    PROVE  Lock!Current' = l
BY DEF Lock!Becomes, Lock!Current, Lock!Lock

\* Serving a request takes it off the wire, and leaves no lock request.
LEMMA RequestTakes ==
    ASSUME LockInv, NEW c \in Lockers, NEW what,
           wire[c] # <<>>, Head(wire[c]) = what, wire' = [wire EXCEPT ![c] = Tail(@)],
           locker' = locker
    PROVE  /\ wire' \in [Lockers -> Seq(Requests)] /\ locker' = locker
           /\ locker[c].phase # "off"
           /\ \A d \in Lockers : d # c => wire'[d] = wire[d]
           /\ \A i \in DOMAIN wire'[c] : wire'[c][i] # "lock"
           /\ what = "lock" => locks[c] = "none"
<1>1. /\ wire[c] # <<>> /\ Head(wire[c]) = what /\ wire' = [wire EXCEPT ![c] = Tail(@)]
      /\ locker' = locker
  OBVIOUS
<1>2. wire[c] \in Seq(Requests) /\ wire \in [Lockers -> Seq(Requests)]
  BY DEF LockInv, LockTypes
<1>3. Tail(wire[c]) \in Seq(Requests)
  BY <1>1, <1>2, HeadTailProperties
<1>4. /\ Len(wire[c]) \in Nat /\ Len(wire[c]) # 0 /\ DOMAIN wire[c] = 1..Len(wire[c])
      /\ wire[c][1] = what
  <2>1. Len(wire[c]) \in Nat /\ DOMAIN wire[c] = 1..Len(wire[c])
    BY <1>2, LenProperties
  <2>2. Len(wire[c]) # 0
    BY <1>1, <1>2, EmptySeq
  <2>3. Head(wire[c]) = wire[c][1]
    BY <1>1, <1>2, HeadTailProperties
  <2>4. QED
    BY <1>1, <2>1, <2>2, <2>3
<1>5. \A i \in DOMAIN Tail(wire[c]) : Tail(wire[c])[i] = wire[c][i + 1] /\ i + 1 \in DOMAIN wire[c]
                                      /\ i + 1 # 1
  <2>1. /\ Len(Tail(wire[c])) = Len(wire[c]) - 1
        /\ \A i \in 1..Len(Tail(wire[c])) : Tail(wire[c])[i] = wire[c][i + 1]
    BY <1>1, <1>2, HeadTailProperties
  <2>2. DOMAIN Tail(wire[c]) = 1..Len(Tail(wire[c]))
    BY <1>3, LenProperties
  <2>3. QED
    BY <1>4, <2>1, <2>2
<1>6. wire'[c] = Tail(wire[c]) /\ wire' \in [Lockers -> Seq(Requests)]
  BY <1>1, <1>2, <1>3
<1>7. \A i \in DOMAIN wire'[c] : wire'[c][i] # "lock"
  BY <1>5, <1>6 DEF LockInv, LocksOnce
<1>8. locker[c].phase # "off"
  BY <1>1 DEF LockInv, LocksOnce
<1>9. what = "lock" => locks[c] = "none"
  BY <1>4 DEF LockInv, LocksOnce
<1>10. QED
  BY <1>1, <1>2, <1>6, <1>7, <1>8, <1>9

\* A client that is not off posts requests other than lock.
LEMMA PostKeeps ==
    ASSUME LockInv, NEW c \in Lockers,
           \/ wire' = [wire EXCEPT ![c] = @ \o <<"commit">>]
           \/ wire' = [wire EXCEPT ![c] = @ \o <<"unlock">>]
           \/ wire' = [wire EXCEPT ![c] = @ \o <<"gone">>]
    PROVE  /\ wire' \in [Lockers -> Seq(Requests)]
           /\ \A d \in Lockers : d # c => wire'[d] = wire[d]
           /\ \A i \in DOMAIN wire'[c] : wire'[c][i] = "lock" => i = 1 /\ locks[c] = "none"
<1> PICK what \in {"commit", "unlock", "gone"} : wire' = [wire EXCEPT ![c] = @ \o <<what>>]
  OBVIOUS
<1>1. wire[c] \in Seq(Requests) /\ wire \in [Lockers -> Seq(Requests)]
  BY DEF LockInv, LockTypes
<1> what \in Requests /\ what # "lock"
  BY DEF Requests
<1>2. <<what>> \in Seq(Requests) /\ Len(<<what>>) = 1 /\ <<what>>[1] = what
  OBVIOUS
<1>3. wire' = [wire EXCEPT ![c] = @ \o <<what>>]
  OBVIOUS
<1>4. wire'[c] = wire[c] \o <<what>>
  BY <1>1, <1>3
<1>5. wire[c] \o <<what>> \in Seq(Requests)
  BY <1>1, <1>2, ConcatProperties
<1>6. /\ DOMAIN wire'[c] = 1..(Len(wire[c]) + 1) /\ DOMAIN wire[c] = 1..Len(wire[c])
      /\ Len(wire[c]) \in Nat
      /\ \A i \in 1..Len(wire[c]) : wire'[c][i] = wire[c][i]
      /\ wire'[c][Len(wire[c]) + 1] = what
  BY <1>1, <1>2, <1>4, <1>5, ConcatProperties, LenProperties
<1>7. \A i \in DOMAIN wire'[c] : wire'[c][i] = "lock" => i = 1 /\ locks[c] = "none"
  BY <1>6 DEF LockInv, LocksOnce
<1>8. QED
  BY <1>1, <1>3, <1>5, <1>7

-----------------------------------------------------------------------------
(* The requests.                                                           *)

\* A lock is asked for.
LEMMA NewLockKeeps ==
    ASSUME Nobody \notin Lockers, LockInv, NEW c \in Lockers, Lock!NewLock(c)
    PROVE  LockInv'
<1>1. /\ wire' \in [Lockers -> Seq(Requests)] /\ locker' = locker /\ locker[c].phase # "off"
      /\ \A d \in Lockers : d # c => wire'[d] = wire[d]
      /\ \A i \in DOMAIN wire'[c] : wire'[c][i] # "lock"
      /\ locks[c] = "none"
  <2>1. /\ wire[c] # <<>> /\ Head(wire[c]) = "lock" /\ locker' = locker
        /\ wire' = [wire EXCEPT ![c] = Tail(@)]
    BY DEF Lock!NewLock, Lock!Request
  <2>2. QED
    BY <2>1, RequestTakes
<1>2. UNCHANGED <<lockSurface, lockScene, locked, lockKeys, surfaces, asserted>>
  BY DEF Lock!NewLock
<1>3. sessionLock # c
  BY <1>1 DEF LockInv, PointedAtExists
<1>4. CASE sessionLock # Nobody
  <2>1. locks' = [locks EXCEPT ![c] = "dead"] /\ UNCHANGED <<sessionLock, hooks>>
    BY <1>4 DEF Lock!NewLock
  <2>2. Sound(Lock!Current)' /\ PointedAtExists'
    BY <1>2, <1>3, <2>1 DEF LockInv, Lock!Current, LockTypes, PointedAtExists
  <2>3. LockTypes' /\ LocksOnce'
    BY <1>1, <1>2, <2>1 DEF LockInv, LockTypes, LocksOnce
  <2>4. QED
    BY <2>2, <2>3 DEF LockInv
<1>5. CASE sessionLock = Nobody
  <2>1. /\ locks' = [locks EXCEPT ![c] = "live"] /\ sessionLock' = c
        /\ hooks' = hooks \union Lock!Linked(Lock!LockHooks, c)
    BY <1>5 DEF Lock!NewLock
  <2>2. /\ Lock!Current \in Lock!Lock /\ lockSurface = Nobody
        /\ ~locked /\ lockKeys = Nobody /\ ~asserted
        /\ hooks = {}
    BY <1>5 DEF LockInv, Sound, Lock!Current, HooksOf
  <2>3. hooks' = HooksOf(c, Nobody)
    BY <2>1, <2>2 DEF HooksOf, Lock!Linked
  <2>4. Lock!Current' \in Lock!Lock
    BY <1>2, <2>1, <2>2, <2>3 DEF Lock!Current, Lock!Lock, HooksOf
  <2>5. Sound(Lock!Current') /\ PointedAtExists'
    BY <1>2, <2>1, <2>2, <2>3, <2>4 DEF Sound, Lock!Current, PointedAtExists, LockInv, LockTypes
  <2>6. LockTypes' /\ LocksOnce'
    BY <1>1, <1>2, <2>1 DEF LockInv, LockTypes, LocksOnce
  <2>7. QED
    BY <2>5, <2>6 DEF LockInv
<1>6. QED
  BY <1>4, <1>5

\* A surface for it.
LEMMA NewSurfaceKeeps ==
    ASSUME Nobody \notin Lockers, LockInv, NEW c \in Lockers, Lock!NewSurface(c)
    PROVE  LockInv'
<1>1. /\ wire' \in [Lockers -> Seq(Requests)] /\ locker' = locker /\ locker[c].phase # "off"
      /\ \A d \in Lockers : d # c => wire'[d] = wire[d]
      /\ \A i \in DOMAIN wire'[c] : wire'[c][i] # "lock"
  <2>1. /\ wire[c] # <<>> /\ Head(wire[c]) = "surface" /\ locker' = locker
        /\ wire' = [wire EXCEPT ![c] = Tail(@)]
    BY DEF Lock!NewSurface, Lock!Request
  <2>2. QED
    BY <2>1, RequestTakes
<1>2. UNCHANGED <<sessionLock, locked, lockKeys, locks, asserted>>
  BY DEF Lock!NewSurface
<1>3. CASE /\ surfaces' = [surfaces EXCEPT ![c] = IF locks[c] = "live" THEN "live" ELSE "dead"]
           /\ UNCHANGED <<lockSurface, lockScene, hooks>>
  <2>1. lockSurface = c => locks[c] = "live"
    BY DEF LockInv, Sound, Lock!Current, PointedAtExists
  <2>2. Sound(Lock!Current)' /\ PointedAtExists'
    BY <1>2, <1>3, <2>1 DEF LockInv, Lock!Current, LockTypes, PointedAtExists
  <2>3. LockTypes' /\ LocksOnce'
    BY <1>1, <1>2, <1>3 DEF LockInv, LockTypes, LocksOnce
  <2>4. QED
    BY <2>2, <2>3 DEF LockInv
<1>4. CASE /\ <<"newSurface", c>> \in hooks /\ lockSurface = Nobody
           /\ surfaces' = [surfaces EXCEPT ![c] = "live"]
           /\ lockSurface' = c /\ lockScene' = c
           /\ hooks' = hooks \union Lock!Linked(Lock!SurfaceHooks, c)
  <2>1. /\ Lock!Current \in Lock!Lock /\ ~asserted /\ hooks = HooksOf(sessionLock, Nobody)
        /\ locked => sessionLock # Nobody
        /\ lockKeys # Nobody => locked /\ sessionLock = lockKeys
    BY <1>4 DEF LockInv, Sound, Lock!Current
  <2>2. sessionLock = c
    BY <1>4, <2>1 DEF HooksOf, Lock!SurfaceHooks, Lock!LockHooks
  <2>3. hooks' = HooksOf(c, c)
    BY <1>4, <2>1, <2>2 DEF HooksOf, Lock!Linked
  <2>4. Lock!Current' \in Lock!Lock
    BY <1>2, <1>4, <2>1, <2>2, <2>3 DEF Lock!Current, Lock!Lock, HooksOf
  <2>5. Sound(Lock!Current') /\ PointedAtExists'
    BY <1>2, <1>4, <2>1, <2>2, <2>3, <2>4 DEF Sound, Lock!Current, PointedAtExists, LockInv, LockTypes
  <2>6. LockTypes' /\ LocksOnce'
    BY <1>1, <1>2, <1>4 DEF LockInv, LockTypes, LocksOnce
  <2>7. QED
    BY <2>5, <2>6 DEF LockInv
<1>5. QED
  BY <1>3, <1>4 DEF Lock!NewSurface

\* Its first commit maps it, and hides the desktop.
LEMMA SurfaceCommitKeeps ==
    ASSUME Nobody \notin Lockers, LockInv, NEW c \in Lockers, Lock!SurfaceCommit(c)
    PROVE  LockInv'
<1>1. /\ wire' \in [Lockers -> Seq(Requests)] /\ locker' = locker /\ locker[c].phase # "off"
      /\ \A d \in Lockers : d # c => wire'[d] = wire[d]
      /\ \A i \in DOMAIN wire'[c] : wire'[c][i] # "lock"
  <2>1. /\ wire[c] # <<>> /\ Head(wire[c]) = "commit" /\ locker' = locker
        /\ wire' = [wire EXCEPT ![c] = Tail(@)]
    BY DEF Lock!SurfaceCommit, Lock!Request
  <2>2. QED
    BY <2>1, RequestTakes
<1>2. /\ surfaces' = [surfaces EXCEPT ![c] = IF @ = "live" THEN "mapped" ELSE @]
      /\ UNCHANGED locks
  BY DEF Lock!SurfaceCommit
<1>3. LockTypes' /\ LocksOnce'
  BY <1>1, <1>2 DEF LockInv, LockTypes, LocksOnce
<1>4. CASE UNCHANGED <<sessionLock, lockSurface, lockScene, locked, lockKeys, hooks, asserted>>
  <2>1. Sound(Lock!Current)' /\ PointedAtExists'
    BY <1>2, <1>4 DEF LockInv, Lock!Current, LockTypes, PointedAtExists
  <2>2. QED
    BY <1>3, <2>1 DEF LockInv
<1>5. CASE /\ <<"surfaceMap", c>> \in hooks
           /\ Lock!Becomes([Lock!SetSessionLocked(Lock!Current, TRUE) EXCEPT
                         !.keys = IF lockSurface # Nobody THEN lockSurface ELSE @])
  <2> DEFINE l == Lock!Current
             s == Lock!SetSessionLocked(l, TRUE)
             e == [s EXCEPT !.keys = IF lockSurface # Nobody THEN lockSurface ELSE @]
  <2>1. Sound(l) /\ l.lock = sessionLock /\ l.surface = lockSurface /\ l.hooks = hooks
    BY DEF LockInv, Lock!Current
  <2> HIDE DEF l
  <2>2. lockSurface = c /\ sessionLock = c
    BY <1>5, <2>1 DEF Sound, HooksOf, Lock!SurfaceHooks, Lock!LockHooks
  <2>3. /\ s \in Lock!Lock /\ s.locked = TRUE /\ s.lock = l.lock /\ s.surface = l.surface
        /\ s.hooks = l.hooks /\ ~s.asserted
    BY <2>1 DEF Sound, Lock!SetSessionLocked, Lock!Lock
  <2> HIDE DEF s
  <2>4. Sound(e) /\ e \in Lock!Lock /\ e.lock = sessionLock /\ e.surface = lockSurface
    BY <2>1, <2>2, <2>3 DEF Sound, Lock!Lock
  <2>5. Lock!Becomes(e)
    BY <1>5 DEF l, s
  <2> HIDE DEF e
  <2>6. Lock!Current' = e
    BY <2>4, <2>5, BecomesCurrent
  <2>7. sessionLock' = sessionLock /\ lockSurface' = lockSurface
    BY <2>4, <2>5 DEF Lock!Becomes
  <2>8. PointedAtExists'
    BY <1>2, <2>7 DEF LockInv, LockTypes, PointedAtExists
  <2>9. QED
    BY <1>3, <2>4, <2>6, <2>8 DEF LockInv
<1>6. QED
  BY <1>4, <1>5 DEF Lock!SurfaceCommit

\* What is left when all a client had is destroyed.
LEMMA GoneKeeps ==
    ASSUME Nobody \notin Lockers, LockInv, NEW c \in Lockers, NEW e, Sound(e), Lock!Becomes(e),
           e.lock \in {Nobody, sessionLock} \ {c}, e.surface \in {Nobody, lockSurface} \ {c},
           locks' = [locks EXCEPT ![c] = "dead"], surfaces' = [surfaces EXCEPT ![c] = "dead"],
           wire' \in [Lockers -> Seq(Requests)], locker' = locker, locker[c].phase # "off",
           \A d \in Lockers : d # c => wire'[d] = wire[d],
           \A i \in DOMAIN wire'[c] : wire'[c][i] # "lock"
    PROVE  LockInv'
<1>1. Lock!Current' = e
  BY BecomesCurrent DEF Sound
<1>2. sessionLock' = e.lock /\ lockSurface' = e.surface
  BY DEF Lock!Becomes
<1>3. PointedAtExists'
  BY <1>2 DEF LockInv, LockTypes, PointedAtExists
<1>4. LockTypes' /\ LocksOnce'
  BY DEF LockInv, LockTypes, LocksOnce
<1>5. QED
  BY <1>1, <1>3, <1>4 DEF LockInv

\* unlock_and_destroy, from the holder or from a client that was refused.
LEMMA UnlockKeeps ==
    ASSUME Nobody \notin Lockers, LockInv, NEW c \in Lockers, Lock!Unlock(c)
    PROVE  LockInv'
<1>1. /\ wire' \in [Lockers -> Seq(Requests)] /\ locker' = locker /\ locker[c].phase # "off"
      /\ \A d \in Lockers : d # c => wire'[d] = wire[d]
      /\ \A i \in DOMAIN wire'[c] : wire'[c][i] # "lock"
  <2>1. /\ wire[c] # <<>> /\ Head(wire[c]) = "unlock" /\ locker' = locker
        /\ wire' = [wire EXCEPT ![c] = Tail(@)]
    BY DEF Lock!Unlock, Lock!Request
  <2>2. QED
    BY <2>1, RequestTakes
<1>2. CASE locks[c] # "live"
  <2>1. UNCHANGED Lock!objects
    BY <1>2 DEF Lock!Unlock
  <2>2. QED
    BY <1>1, <2>1 DEF Lock!objects, LockInv, Lock!Current, LockTypes, PointedAtExists, LocksOnce
<1>3. CASE locks[c] = "live"
  <2> DEFINE l == IF <<"unlock", c>> \in hooks THEN Lock!LockUnlock(Lock!Current)
                  ELSE Lock!Current
             e == Lock!DestroyLock(l, c)
  <2>1. /\ Lock!Becomes(e)
        /\ locks' = [locks EXCEPT ![c] = "dead"] /\ surfaces' = [surfaces EXCEPT ![c] = "dead"]
    BY <1>3 DEF Lock!Unlock
  <2>2. Sound(Lock!Current) /\ Lock!Current.lock = sessionLock /\ Lock!Current.surface = lockSurface
    BY DEF LockInv, Lock!Current
  <2>3. /\ Sound(l) /\ l.lock \in {Nobody, sessionLock} /\ l.surface \in {Nobody, lockSurface}
    BY <2>2, LockUnlockSound
  <2> HIDE DEF l
  <2>4. l.surface = c => surfaces[c] \in {"live", "mapped"}
    BY <2>3 DEF LockInv, PointedAtExists
  <2>5. /\ Sound(e) /\ e.lock = IF l.lock = c THEN Nobody ELSE l.lock
        /\ e.surface = IF l.surface = c THEN Nobody ELSE l.surface
    BY <2>3, <2>4, DestroyLockSound
  <2> HIDE DEF e
  <2>6. e.lock \in {Nobody, sessionLock} \ {c} /\ e.surface \in {Nobody, lockSurface} \ {c}
    BY <2>3, <2>5
  <2>7. QED
    BY <1>1, <2>1, <2>5, <2>6, GoneKeeps
<1>4. QED
  BY <1>2, <1>3

\* The end of a connection, wherever it comes.
LEMMA DisconnectKeeps ==
    ASSUME Nobody \notin Lockers, LockInv, NEW c \in Lockers, Lock!Disconnect(c)
    PROVE  LockInv'
<1>1. /\ wire' \in [Lockers -> Seq(Requests)] /\ locker' = locker /\ locker[c].phase # "off"
      /\ \A d \in Lockers : d # c => wire'[d] = wire[d]
      /\ \A i \in DOMAIN wire'[c] : wire'[c][i] # "lock"
  <2>1. /\ wire[c] # <<>> /\ Head(wire[c]) = "gone" /\ locker' = locker
        /\ wire' = [wire EXCEPT ![c] = Tail(@)]
    BY DEF Lock!Disconnect, Lock!Request
  <2>2. QED
    BY <2>1, RequestTakes
<1> DEFINE e == IF locks[c] = "live" THEN Lock!DestroyLock(Lock!Current, c) ELSE Lock!Current
<1>2. locks' = [locks EXCEPT ![c] = "dead"] /\ surfaces' = [surfaces EXCEPT ![c] = "dead"]
  BY DEF Lock!Disconnect
<1>3. Lock!Becomes(e)
  BY DEF Lock!Disconnect, Lock!Becomes, Lock!Current
<1>4. Sound(Lock!Current) /\ Lock!Current.lock = sessionLock /\ Lock!Current.surface = lockSurface
  BY DEF LockInv, Lock!Current
<1>5. /\ Sound(e) /\ e.lock = (IF sessionLock = c THEN Nobody ELSE sessionLock)
      /\ e.surface = IF lockSurface = c THEN Nobody ELSE lockSurface
  <2>1. CASE locks[c] = "live"
    <3>1. Lock!Current.surface = c => surfaces[c] \in {"live", "mapped"}
      BY <1>4 DEF LockInv, PointedAtExists
    <3>2. QED
      BY <1>4, <2>1, <3>1, DestroyLockSound
  <2>2. CASE locks[c] # "live"
    <3>1. sessionLock # c
      BY <2>2 DEF LockInv, PointedAtExists
    <3>2. lockSurface # c
      BY <1>4, <3>1 DEF Sound
    <3>3. QED
      BY <1>4, <2>2, <3>1, <3>2
  <2>3. QED
    BY <2>1, <2>2
<1> HIDE DEF e
<1>6. e.lock \in {Nobody, sessionLock} \ {c} /\ e.surface \in {Nobody, lockSurface} \ {c}
  BY <1>5
<1>7. QED
  BY <1>1, <1>2, <1>3, <1>5, <1>6, GoneKeeps

-----------------------------------------------------------------------------
(* The lock screens.                                                       *)

\* A lock screen only changes its own state and what it asks for.
LEMMA LockerKeeps ==
    ASSUME LockInv, NEW c \in Lockers, UNCHANGED Lock!objects,
           locker' \in [Lockers -> LockerState],
           \A d \in Lockers : d # c => locker'[d] = locker[d],
           locker'[c].phase # "off", wire' \in [Lockers -> Seq(Requests)],
           \A d \in Lockers : d # c => wire'[d] = wire[d],
           \A i \in DOMAIN wire'[c] : wire'[c][i] = "lock" => i = 1 /\ locks[c] = "none"
    PROVE  LockInv'
<1>1. Sound(Lock!Current)' /\ PointedAtExists'
  BY DEF Lock!objects, LockInv, Lock!Current, PointedAtExists
<1>2. LockTypes' /\ LocksOnce'
  BY DEF Lock!objects, LockInv, LockTypes, LocksOnce
<1>3. QED
  BY <1>1, <1>2 DEF LockInv

\* Keys, events, and the way into the event loop: nothing is asked for.
LEMMA QuietLockerKeeps ==
    ASSUME LockInv, NEW c \in Lockers, UNCHANGED <<Lock!objects, wire>>,
           locker' \in [Lockers -> LockerState],
           \A d \in Lockers : d # c => locker'[d] = locker[d],
           locker'[c].phase # "off"
    PROVE  LockInv'
<1>1. wire' = wire /\ UNCHANGED Lock!objects
  OBVIOUS
<1>2. /\ wire' \in [Lockers -> Seq(Requests)]
      /\ \A d \in Lockers : d # c => wire'[d] = wire[d]
      /\ \A i \in DOMAIN wire'[c] : wire'[c][i] = "lock" => i = 1 /\ locks[c] = "none"
  BY <1>1 DEF LockInv, LockTypes, LocksOnce
<1>3. QED
  BY <1>1, <1>2, LockerKeeps

\* A lock screen becomes another of its states.
LEMMA LockerBecomes ==
    ASSUME LockInv, NEW c \in Lockers, NEW r \in LockerState, r.phase # "off",
           locker' = [locker EXCEPT ![c] = r]
    PROVE  /\ locker' \in [Lockers -> LockerState]
           /\ \A d \in Lockers : d # c => locker'[d] = locker[d]
           /\ locker'[c].phase # "off"
BY DEF LockInv, LockTypes

\* The state that a key leads to.
LEMMA TypingState ==
    ASSUME NEW k \in LockerState, NEW n \in Int, NEW a \in BOOLEAN, NEW b \in BOOLEAN
    PROVE  /\ [k EXCEPT !.probed = a, !.available = b, !.typed = n] \in LockerState
           /\ [k EXCEPT !.probed = a, !.available = b, !.typed = n].phase = k.phase
BY DEF LockerState

\* The state after a refused password.
LEMMA ClearedState ==
    ASSUME NEW k \in LockerState, NEW a \in BOOLEAN, NEW b \in BOOLEAN
    PROVE  /\ [k EXCEPT !.typed = 0, !.probed = a, !.available = b] \in LockerState
           /\ [k EXCEPT !.typed = 0, !.probed = a, !.available = b].phase = k.phase
<1> DEFINE n == 0
<1>1. n \in Int
  OBVIOUS
<1> HIDE DEF n
<1>2. /\ [k EXCEPT !.typed = n, !.probed = a, !.available = b] \in LockerState
      /\ [k EXCEPT !.typed = n, !.probed = a, !.available = b].phase = k.phase
  BY <1>1 DEF LockerState
<1>3. QED
  BY <1>2 DEF n

\* The state after the right password.
LEMMA QuitState ==
    ASSUME NEW k \in LockerState, NEW p \in {"quit"}, NEW l \in BOOLEAN, NEW n \in Int
    PROVE  /\ [k EXCEPT !.phase = p, !.typed = n, !.locked = l] \in LockerState
           /\ [k EXCEPT !.phase = p, !.typed = n, !.locked = l].phase = "quit"
BY DEF LockerState

\* A lock screen starts: its lock request is the first on its wire.
LEMMA LaunchKeeps ==
    ASSUME LockInv, NEW c \in Lockers, Lock!Launch(c)
    PROVE  LockInv'
<1>1. /\ locker[c].phase = "off" /\ locks[c] = "none"
      /\ locker' = [locker EXCEPT ![c].phase = "locking"]
      /\ wire' = [wire EXCEPT ![c] = @ \o <<"lock", "surface">>] /\ UNCHANGED Lock!objects
  BY DEF Lock!Launch, Lock!Post
<1>2. wire[c] = <<>>
  BY <1>1 DEF LockInv, LocksOnce
<1>3. <<>> \o <<"lock", "surface">> = <<"lock", "surface">>
  OBVIOUS
<1>4. wire'[c] = <<"lock", "surface">> /\ \A d \in Lockers : d # c => wire'[d] = wire[d]
  BY <1>1, <1>2, <1>3 DEF LockInv, LockTypes, LockerState
<1>5. /\ <<"lock", "surface">> \in Seq(Requests)
      /\ \A i \in DOMAIN wire'[c] : wire'[c][i] = "lock" => i = 1
  <2> DEFINE s == <<"lock", "surface">>
  <2>1. s \in Seq(Requests) /\ DOMAIN s = 1..2 /\ s[2] = "surface"
    <3>1. DOMAIN s = 1..2 /\ s[2] = "surface" /\ Len(s) = 2
      OBVIOUS
    <3>2. s \in Seq(Requests)
      <4>1. "lock" \in Requests /\ "surface" \in Requests
        BY DEF Requests
      <4>2. ASSUME NEW a \in Requests, NEW b \in Requests
            PROVE  <<a, b>> \in Seq(Requests)
        OBVIOUS
      <4>3. QED
        BY <4>1, <4>2
    <3>3. QED
      BY <3>1, <3>2
  <2>2. wire'[c] = s
    BY <1>4
  <2> HIDE DEF s
  <2>3. \A i \in DOMAIN s : s[i] = "lock" => i = 1
    BY <2>1
  <2>4. QED
    BY <2>1, <2>2, <2>3 DEF s
<1>6. wire' \in [Lockers -> Seq(Requests)]
  BY <1>1, <1>2, <1>3, <1>5 DEF LockInv, LockTypes, LockerState
<1>7. /\ locker' \in [Lockers -> LockerState]
      /\ \A d \in Lockers : d # c => locker'[d] = locker[d]
      /\ locker'[c].phase # "off"
  BY <1>1 DEF LockInv, LockTypes, LockerState
<1>8. QED
  BY <1>1, <1>4, <1>5, <1>6, <1>7, LockerKeeps

\* An event is handled: a configure is answered with a commit.
LEMMA DispatchKeeps ==
    ASSUME LockInv, NEW c \in Lockers, Lock!Dispatch(c)
    PROVE  LockInv'
<1>1. locker[c].phase # "off" /\ UNCHANGED Lock!objects
  BY DEF Lock!Dispatch
<1>2. CASE Lock!OnConfigure(c)
  <2>1. wire' = [wire EXCEPT ![c] = @ \o <<"commit">>] /\ locker' = locker
    BY <1>2 DEF Lock!OnConfigure, Lock!Post
  <2>2. /\ wire' \in [Lockers -> Seq(Requests)]
        /\ \A d \in Lockers : d # c => wire'[d] = wire[d]
        /\ \A i \in DOMAIN wire'[c] : wire'[c][i] = "lock" => i = 1 /\ locks[c] = "none"
    BY <2>1, PostKeeps
  <2>3. QED
    BY <1>1, <2>1, <2>2, LockerKeeps DEF LockInv, LockTypes, LockerState
<1>3. CASE Lock!OnLocked(c) \/ Lock!OnFinished(c)
  <2>1. UNCHANGED <<Lock!objects, wire>>
    BY <1>1, <1>3 DEF Lock!OnLocked, Lock!OnFinished
  <2>2. /\ locker' \in [Lockers -> LockerState]
        /\ \A d \in Lockers : d # c => locker'[d] = locker[d]
        /\ locker'[c].phase # "off"
    <3>1. CASE Lock!OnLocked(c)
      BY <1>1, <3>1 DEF Lock!OnLocked, LockInv, LockTypes, LockerState
    <3>2. CASE Lock!OnFinished(c)
      <4> DEFINE phase == IF locker[c].phase = "running" THEN "quit" ELSE locker[c].phase
                 r == [locker[c] EXCEPT !.locked = FALSE, !.phase = phase]
      <4>1. locker[c] \in LockerState
        BY DEF LockInv, LockTypes
      <4>2. phase \in {"locking", "running", "quit", "over"}
        BY <1>1, <4>1 DEF LockerState
      <4>3. locker' = [locker EXCEPT ![c] = r]
        BY <3>2 DEF Lock!OnFinished
      <4> HIDE DEF phase
      <4>4. r \in LockerState /\ r.phase # "off"
        BY <4>1, <4>2 DEF LockerState
      <4> HIDE DEF r
      <4>5. QED
        BY <4>3, <4>4, LockerBecomes
    <3>3. QED
      BY <1>3, <3>1, <3>2
  <2>3. QED
    BY <2>1, <2>2, QuietLockerKeeps
<1>4. QED
  BY <1>2, <1>3 DEF Lock!Dispatch

\* The way into the event loop and the keys that ask for nothing.
LEMMA KeysKeep ==
    ASSUME LockInv, NEW c \in Lockers, Lock!Run(c) \/ Lock!TypeKey(c) \/ Lock!Backspace(c)
    PROVE  LockInv'
<1>1. UNCHANGED <<Lock!objects, wire>>
  BY DEF Lock!Run, Lock!TypeKey, Lock!Backspace
<1>2. /\ locker' \in [Lockers -> LockerState]
      /\ \A d \in Lockers : d # c => locker'[d] = locker[d]
      /\ locker'[c].phase # "off"
  <2>1. CASE Lock!Run(c)
    BY <2>1 DEF Lock!Run, LockInv, LockTypes, LockerState
  <2>2. CASE Lock!TypeKey(c)
    <3>1. locker[c].phase = "running"
      BY <2>2 DEF Lock!TypeKey, Lock!HasKeyboard
    <3>2. PICK available \in BOOLEAN : locker' = [locker EXCEPT
             ![c].probed = TRUE, ![c].available = available,
             ![c].typed = IF ~locker[c].probed /\ ~available THEN @
                          ELSE IF @ < MaxTyped THEN @ + 1 ELSE @]
      BY <2>2 DEF Lock!TypeKey, LockInv, LockTypes, LockerState
    <3> DEFINE r == [locker[c] EXCEPT
                       !.probed = TRUE, !.available = available,
                       !.typed = IF ~locker[c].probed /\ ~available THEN @
                                 ELSE IF @ < MaxTyped THEN @ + 1 ELSE @]
    <3>3. locker[c] \in LockerState /\ locker \in [Lockers -> LockerState]
      BY DEF LockInv, LockTypes
    <3>4. r \in LockerState /\ r.phase # "off"
      <4> DEFINE n == IF ~locker[c].probed /\ ~available THEN locker[c].typed
                      ELSE IF locker[c].typed < MaxTyped THEN locker[c].typed + 1
                      ELSE locker[c].typed
      <4>1. n \in Int
        BY <3>3 DEF LockerState
      <4>2. r = [locker[c] EXCEPT !.probed = TRUE, !.available = available, !.typed = n]
        OBVIOUS
      <4> HIDE DEF n, r
      <4>3. QED
        <5>1. LET k == [locker[c] EXCEPT !.probed = TRUE, !.available = available, !.typed = n]
              IN k \in LockerState /\ k.phase = locker[c].phase
          BY <3>3, <4>1, TypingState
        <5>2. QED
          BY <3>1, <4>2, <5>1
    <3>5. locker' = [locker EXCEPT ![c] = r]
      BY <3>2, <3>3 DEF LockerState
    <3> HIDE DEF r
    <3>6. QED
      BY <3>4, <3>5, LockerBecomes
  <2>3. CASE Lock!Backspace(c)
    <3>1. locker[c] \in LockerState /\ locker[c].phase = "running"
      BY <2>3 DEF Lock!Backspace, Lock!HasKeyboard, LockInv, LockTypes
    <3> DEFINE r == [locker[c] EXCEPT !.typed = @ - 1]
    <3>2. r \in LockerState /\ r.phase # "off"
      BY <3>1 DEF LockerState
    <3>3. locker' = [locker EXCEPT ![c] = r]
      BY <2>3 DEF Lock!Backspace
    <3> HIDE DEF r
    <3>4. QED
      BY <3>2, <3>3, LockerBecomes
  <2>4. QED
    BY <2>1, <2>2, <2>3
<1>3. QED
  BY <1>1, <1>2, QuietLockerKeeps

\* Return: the password is right, or it is not.
LEMMA EnterKeeps ==
    ASSUME LockInv, NEW c \in Lockers, Lock!Enter(c)
    PROVE  LockInv'
<1>1. locker[c].phase = "running" /\ UNCHANGED Lock!objects
  BY DEF Lock!Enter, Lock!HasKeyboard
<1>2. CASE /\ locker' = [locker EXCEPT ![c] = [@ EXCEPT !.phase = "quit", !.typed = 0,
                                                         !.locked = FALSE]]
           /\ Lock!Post(c, <<"unlock">>)
  <2>1. /\ locker' \in [Lockers -> LockerState]
        /\ \A d \in Lockers : d # c => locker'[d] = locker[d]
        /\ locker'[c].phase # "off"
    <3> DEFINE r == [locker[c] EXCEPT !.phase = "quit", !.typed = 0, !.locked = FALSE]
    <3>1. locker[c] \in LockerState
      BY DEF LockInv, LockTypes
    <3>2. r \in LockerState /\ r.phase # "off"
      <4>1. ASSUME NEW n \in Int, NEW l \in BOOLEAN, NEW p \in {"quit"}
            PROVE  LET k == [locker[c] EXCEPT !.phase = p, !.typed = n, !.locked = l]
                   IN k \in LockerState /\ k.phase = "quit"
        BY <3>1, QuitState
      <4> DEFINE n == 0
                 l == FALSE
                 p == "quit"
      <4>2. n \in Int /\ l \in BOOLEAN /\ p \in {"quit"}
        OBVIOUS
      <4>3. r = [locker[c] EXCEPT !.phase = p, !.typed = n, !.locked = l]
        OBVIOUS
      <4> HIDE DEF n, l, p, r
      <4>4. QED
        BY <4>1, <4>2, <4>3
    <3>3. locker' = [locker EXCEPT ![c] = r]
      BY <1>2
    <3> HIDE DEF r
    <3>4. QED
      BY <3>2, <3>3, LockerBecomes
  <2>2. wire' = [wire EXCEPT ![c] = @ \o <<"unlock">>]
    BY <1>2 DEF Lock!Post
  <2>3. /\ wire' \in [Lockers -> Seq(Requests)]
        /\ \A d \in Lockers : d # c => wire'[d] = wire[d]
        /\ \A i \in DOMAIN wire'[c] : wire'[c][i] = "lock" => i = 1 /\ locks[c] = "none"
    BY <2>2, PostKeeps
  <2>4. QED
    BY <1>1, <2>1, <2>3, LockerKeeps
<1>3. CASE \E result \in {"denied", "no permission", "error"} :
             /\ locker' = [locker EXCEPT
                    ![c].typed = 0,
                    ![c].probed = @ \/ result = "no permission",
                    ![c].available = @ /\ result # "no permission"]
             /\ UNCHANGED wire
  <2>1. PICK result \in {"denied", "no permission", "error"} :
             locker' = [locker EXCEPT
                    ![c].typed = 0,
                    ![c].probed = @ \/ result = "no permission",
                    ![c].available = @ /\ result # "no permission"]
    BY <1>3
  <2>2. UNCHANGED <<Lock!objects, wire>>
    BY <1>1, <1>3
  <2>3. /\ locker' \in [Lockers -> LockerState]
        /\ \A d \in Lockers : d # c => locker'[d] = locker[d]
        /\ locker'[c].phase # "off"
    <3> DEFINE r == [locker[c] EXCEPT !.typed = 0,
                                      !.probed = @ \/ result = "no permission",
                                      !.available = @ /\ result # "no permission"]
    <3>1. locker[c] \in LockerState /\ locker \in [Lockers -> LockerState]
      BY DEF LockInv, LockTypes
    <3>2. r \in LockerState /\ r.phase # "off"
      <4>1. locker[c].probed \in BOOLEAN /\ locker[c].available \in BOOLEAN
        BY <3>1 DEF LockerState
      <4> DEFINE a == locker[c].probed \/ result = "no permission"
                 b == locker[c].available /\ result # "no permission"
      <4>2. a \in BOOLEAN /\ b \in BOOLEAN
        OBVIOUS
      <4>3. r = [locker[c] EXCEPT !.typed = 0, !.probed = a, !.available = b]
        OBVIOUS
      <4> HIDE DEF a, b, r
      <4>4. locker[c] \in LockerState
        BY <3>1
      <4>5. ASSUME NEW d \in BOOLEAN, NEW e \in BOOLEAN
            PROVE  LET k == [locker[c] EXCEPT !.typed = 0, !.probed = d, !.available = e]
                   IN k \in LockerState /\ k.phase = locker[c].phase
        BY <4>4, ClearedState, Zenon
      <4>6. r \in LockerState /\ r.phase = locker[c].phase
        BY <4>2, <4>3, <4>5
      <4>7. QED
        BY <1>1, <4>6
    <3>3. locker' = [locker EXCEPT ![c] = r]
      BY <2>1, <3>1 DEF LockerState
    <3> HIDE DEF r
    <3>4. QED
      BY <3>2, <3>3, LockerBecomes
  <2>4. QED
    BY <2>2, <2>3, QuietLockerKeeps
<1>4. QED
  BY <1>2, <1>3 DEF Lock!Enter

\* The process ends, as it should or not.
LEMMA LeaveKeeps ==
    ASSUME LockInv, NEW c \in Lockers, Lock!Leave(c)
    PROVE  LockInv'
<1>1. /\ locker' = [locker EXCEPT ![c].phase = "over"]
      /\ wire' = [wire EXCEPT ![c] = @ \o <<"gone">>] /\ UNCHANGED Lock!objects
  BY DEF Lock!Leave, Lock!Post
<1>2. /\ locker' \in [Lockers -> LockerState]
      /\ \A d \in Lockers : d # c => locker'[d] = locker[d]
      /\ locker'[c].phase # "off"
  BY <1>1 DEF LockInv, LockTypes, LockerState
<1>3. /\ wire' \in [Lockers -> Seq(Requests)]
      /\ \A d \in Lockers : d # c => wire'[d] = wire[d]
      /\ \A i \in DOMAIN wire'[c] : wire'[c][i] = "lock" => i = 1 /\ locks[c] = "none"
  BY <1>1, PostKeeps
<1>4. QED
  BY <1>1, <1>2, <1>3, LockerKeeps

-----------------------------------------------------------------------------
(* The invariant.                                                          *)

\* Every step keeps it.
LEMMA LockInvHolds == Spec => []LockInv
<1>0. Nobody \notin Lockers
  BY LockAssumption DEF LockAssumption
<1>1. Init => LockInv
  <2> SUFFICES ASSUME Init PROVE LockInv
    OBVIOUS
  <2>0. Lock!Init
    BY DEF Init
  <2>1. Sound(Lock!Current) /\ PointedAtExists
    BY <1>0, <2>0 DEF Lock!Init, Sound, Lock!Current, Lock!Lock, HooksOf, PointedAtExists
  <2>2. LockTypes
    BY <2>0 DEF Lock!Init, LockTypes, Lock!Idle, LockerState
  <2>3. LocksOnce
    BY <2>0 DEF Lock!Init, LocksOnce
  <2>4. QED
    BY <2>1, <2>2, <2>3 DEF LockInv
<1>2. LockInv /\ [Next]_vars => LockInv'
  <2> SUFFICES ASSUME LockInv, [Next]_vars PROVE LockInv'
    OBVIOUS
  <2>0. [Lock!Next]_lockVars
    BY LockAlone
  <2>1. CASE UNCHANGED lockVars
    BY <2>1 DEF lockVars, LockInv, Lock!Current, LockTypes, PointedAtExists, LocksOnce
  <2>2. ASSUME NEW c \in Lockers, Lock!Serve(c)
        PROVE  LockInv'
    BY <1>0, <2>2, NewLockKeeps, NewSurfaceKeeps, SurfaceCommitKeeps, UnlockKeeps,
       DisconnectKeeps DEF Lock!Serve
  <2>3. ASSUME NEW c \in Lockers, Lock!Launch(c) \/ Lock!Client(c) \/ Lock!Crash(c)
        PROVE  LockInv'
    BY <1>0, <2>3, LaunchKeeps, DispatchKeeps, KeysKeep, EnterKeeps, LeaveKeeps
       DEF Lock!Client, Lock!Exit, Lock!Crash
  <2>4. QED
    BY <2>0, <2>1, <2>2, <2>3 DEF Lock!Next, Lock!Quiet, Lock!lockVars, lockVars
<1>3. QED
  BY <1>1, <1>2, PTL DEF Spec

\* However a lock screen ends, unlocked, crashed or halfway, no listener of the compositor
\* is left on what wlroots destroys, the desktop is hidden only while somebody holds the
\* lock, and nobody else has the keyboard then.
THEOREM LockStaysReleased == Spec => []LockIsReleased
<1>0. Nobody \notin Lockers
  BY LockAssumption DEF LockAssumption
<1>1. LockInv => LockIsReleased
  <2> SUFFICES ASSUME LockInv PROVE Lock!LockIsReleased
    BY DEF LockIsReleased
  <2>1. Lock!ListenersAreOnLiveObjects
    <3>1. ~asserted /\ hooks = HooksOf(sessionLock, lockSurface)
      BY DEF LockInv, Sound, Lock!Current
    <3>2. ASSUME NEW h \in hooks
          PROVE  IF h[1] \in Lock!LockHooks
                 THEN sessionLock = h[2] /\ locks[h[2]] = "live"
                 ELSE lockSurface = h[2] /\ surfaces[h[2]] \in {"live", "mapped"}
      <4>1. CASE h \in Lock!LockHooks \X Lockers /\ h[2] = sessionLock
        BY <1>0, <4>1 DEF LockInv, PointedAtExists
      <4>2. CASE h \in Lock!SurfaceHooks \X Lockers /\ h[2] = lockSurface
        BY <1>0, <4>2 DEF LockInv, PointedAtExists, Lock!LockHooks, Lock!SurfaceHooks
      <4>3. QED
        BY <3>1, <3>2, <4>1, <4>2 DEF HooksOf
    <3>3. QED
      BY <3>1, <3>2 DEF Lock!ListenersAreOnLiveObjects
  <2>2. Lock!HiddenOnlyWhileHeld
    BY DEF LockInv, Sound, Lock!Current, Lock!HiddenOnlyWhileHeld
  <2>3. QED
    BY <2>1, <2>2 DEF Lock!LockIsReleased
<1>2. QED
  BY <1>1, LockInvHolds, PTL


-----------------------------------------------------------------------------
(* Outputs: any number of outputs and panels, plugged, configured, mapped  *)
(* and unmapped in any order.                                              *)

\* Steps of the composition are steps of the outputs.
LEMMA OutAlone ==
    ASSUME [Next]_vars
    PROVE  [Out!Next]_outVars
BY DEF Next, vars, OutputsStep, LockStep, TrayStep, PanelsStep, RecorderStep, AudioStep,
       Alone, outVars

\* The instance counts as the composition does.
LEMMA CountsAlike ==
    ASSUME NEW S
    PROVE  Out!Cardinality(S) = Cardinality(S)
BY Zenon DEF Out!Cardinality, Cardinality, Out!IsFiniteSet, IsFiniteSet

AllModes  == Modes \union {DefaultMode}
AllScales == Scales \union {1}
PanelState == [stage : {"none", "created", "initialized", "mapped"},
               on : OutputNames \union {Out!NoPanel.on}]

IsMappedOn(l, p, o) == l[p].stage = "mapped" /\ l[p].on = o

\* An output that was never arranged has no mapped panel, and any other the area that
\* its mapped panels leave.
AreaHolds(area, m, s, l, o) ==
    IF area[o] = Out!NoArea THEN \A p \in Panels : ~IsMappedOn(l, p, o)
    ELSE area[o] = Out!Left(o, m, s, l)

OutInv ==
    /\ outputs \in Seq(OutputNames)
    /\ mode \in [OutputNames -> AllModes] /\ scale \in [OutputNames -> AllScales]
    /\ panels \in [Panels -> PanelState]
    /\ \A p \in Panels : panels[p].stage = "none" \/ panels[p].on \in Out!Plugged
    /\ usable = [o \in OutputNames |-> usable[o]]
    /\ \A o \in OutputNames : AreaHolds(usable, mode, scale, panels, o)
    /\ \A o \in OutputNames \ Out!Plugged : usable[o] = Out!NoArea

\* What panels leave of an output.
LEMMA LeftIs ==
    ASSUME NEW m \in [OutputNames -> AllModes], NEW s \in [OutputNames -> AllScales],
           NEW l, NEW o \in OutputNames
    PROVE  /\ Out!Left(o, m, s, l) \in Nat
           /\ (\A p \in Panels : ~IsMappedOn(l, p, o)) =>
                  Out!Left(o, m, s, l) = Out!Area(m[o], s[o])[2]
<1> DEFINE height == Out!Area(m[o], s[o])[2]
           on == {p \in Panels : l[p].stage = "mapped" /\ l[p].on = o}
           taken == Zone * Cardinality(on)
<1>1. height \in Nat
  <2>1. AllModes \subseteq Nat \X Nat /\ AllScales \subseteq Nat \ {0}
    <3>1. Modes \subseteq Nat \X Nat
      BY OutputAssumption DEF OutputAssumption, Modes
    <3>2. DefaultMode \in Nat \X Nat
      BY OutputAssumption DEF OutputAssumption, DefaultMode
    <3>3. 2 \in Nat \ {0} /\ 1 \in Nat \ {0}
      OBVIOUS
    <3>4. QED
      BY <3>1, <3>2, <3>3, OutputAssumption DEF OutputAssumption, AllModes, AllScales
  <2>2. m[o] \in AllModes /\ s[o] \in AllScales
    OBVIOUS
  <2>5. m[o] \in Nat \X Nat /\ s[o] \in Nat \ {0}
    BY <2>1, <2>2, Zenon
  <2>6. m[o][2] \in Nat /\ s[o] \in Nat /\ s[o] > 0
    BY <2>5
  <2>3. m[o][2] \div s[o] \in Nat
    BY <2>6
  <2>4. QED
    BY <2>3 DEF Out!Area
<1>2. Cardinality(on) \in Nat /\ (on = {} => Cardinality(on) = 0)
  BY OutputAssumption, FS_Subset, FS_CardinalityType, FS_EmptySet DEF OutputAssumption
<1>3. taken \in Nat /\ (on = {} => taken = 0)
  BY <1>2, OutputAssumption DEF OutputAssumption
<1>4. Out!Left(o, m, s, l) = IF taken < height THEN height - taken ELSE 0
  BY CountsAlike DEF Out!Left
<1>5. (\A p \in Panels : ~IsMappedOn(l, p, o)) => on = {}
  BY DEF IsMappedOn
<1> HIDE DEF height, on, taken
<1>6. Out!Left(o, m, s, l) \in Nat /\ (on = {} => Out!Left(o, m, s, l) = height)
  BY <1>1, <1>3, <1>4
<1>7. QED
  BY <1>5, <1>6 DEF height

\* Only the mapped panels count.
LEMMA LeftSame ==
    ASSUME NEW m, NEW s, NEW l, NEW k, NEW o,
           \A p \in Panels : IsMappedOn(l, p, o) <=> IsMappedOn(k, p, o)
    PROVE  Out!Left(o, m, s, l) = Out!Left(o, m, s, k)
<1>1. {p \in Panels : l[p].stage = "mapped" /\ l[p].on = o}
      = {p \in Panels : k[p].stage = "mapped" /\ k[p].on = o}
  BY DEF IsMappedOn
<1>2. QED
  BY <1>1 DEF Out!Left

\* Once everything is arranged, the areas are right.
LEMMA ArrangeHolds ==
    ASSUME OutInv, NEW m \in [OutputNames -> AllModes], NEW s \in [OutputNames -> AllScales],
           NEW l, \A p \in Panels : l[p].stage = "none" \/ l[p].on \in Out!Plugged
    PROVE  LET area == Out!Arrange(m, s, l)
           IN  /\ area = [o \in OutputNames |-> area[o]]
               /\ \A o \in OutputNames : AreaHolds(area, m, s, l, o)
               /\ \A o \in OutputNames \ Out!Plugged : area[o] = Out!NoArea
<1> DEFINE area == Out!Arrange(m, s, l)
<1>1. area = [o \in OutputNames |-> area[o]]
  BY DEF Out!Arrange
<1>2. ASSUME NEW o \in OutputNames
      PROVE  AreaHolds(area, m, s, l, o) /\ (o \notin Out!Plugged => area[o] = Out!NoArea)
  <2>1. area[o] = IF o \in Out!Plugged THEN Out!Left(o, m, s, l) ELSE usable[o]
    BY DEF Out!Arrange
  <2> HIDE DEF area
  <2>2. CASE o \in Out!Plugged
    <3>1. Out!Left(o, m, s, l) \in Nat
      BY LeftIs
    <3>2. area[o] = Out!Left(o, m, s, l)
      BY <2>1, <2>2
    <3>3. area[o] # Out!NoArea
      BY <3>1, <3>2 DEF Out!NoArea
    <3>4. QED
      BY <2>2, <3>2, <3>3 DEF AreaHolds
  <2>3. CASE o \notin Out!Plugged
    <3>1. \A p \in Panels : ~IsMappedOn(l, p, o)
      BY <2>3 DEF IsMappedOn
    <3>2. area[o] = Out!NoArea
      BY <2>1, <2>3 DEF OutInv
    <3>3. QED
      BY <3>1, <3>2 DEF AreaHolds
  <2>4. QED
    BY <2>2, <2>3
<1>3. QED
  BY <1>1, <1>2

\* A panel that changes keeps the others, and is on an output that is plugged.
LEMMA PanelsHold ==
    ASSUME OutInv, NEW p \in Panels, NEW new \in PanelState,
           new.stage = "none" \/ new.on \in Out!Plugged
    PROVE  LET l == [panels EXCEPT ![p] = new]
           IN  /\ l \in [Panels -> PanelState]
               /\ \A q \in Panels : l[q].stage = "none" \/ l[q].on \in Out!Plugged
BY DEF OutInv

\* Whatever the panels become, arranging keeps the invariant.
LEMMA RearrangeHolds ==
    ASSUME OutInv, outputs' = outputs,
           mode' \in [OutputNames -> AllModes], scale' \in [OutputNames -> AllScales],
           panels' \in [Panels -> PanelState],
           \A p \in Panels : panels'[p].stage = "none" \/ panels'[p].on \in Out!Plugged,
           usable' = Out!Arrange(mode', scale', panels')
    PROVE  OutInv'
<1> DEFINE m == mode'
           s == scale'
           l == panels'
<1>1. m \in [OutputNames -> AllModes] /\ s \in [OutputNames -> AllScales]
  OBVIOUS
<1>2. \A p \in Panels : l[p].stage = "none" \/ l[p].on \in Out!Plugged
  OBVIOUS
<1> HIDE DEF m, s, l
<1> DEFINE area == Out!Arrange(m, s, l)
<1>3. /\ area = [o \in OutputNames |-> area[o]]
      /\ \A o \in OutputNames : AreaHolds(area, m, s, l, o)
      /\ \A o \in OutputNames \ Out!Plugged : area[o] = Out!NoArea
  BY <1>1, <1>2, ArrangeHolds
<1>4. usable' = area
  BY DEF m, s, l
<1> HIDE DEF area
<1>5. /\ usable' = [o \in OutputNames |-> usable'[o]]
      /\ \A o \in OutputNames : AreaHolds(usable', mode', scale', panels', o)
      /\ \A o \in OutputNames \ Out!Plugged : usable'[o] = Out!NoArea
  BY <1>3, <1>4 DEF m, s, l
<1>6. Out!Plugged' = Out!Plugged
  BY DEF Out!Plugged
<1>7. outputs' \in Seq(OutputNames)
  BY DEF OutInv
<1>8. (\A o \in OutputNames : AreaHolds(usable, mode, scale, panels, o))'
  BY <1>5, CountsAlike DEF AreaHolds, IsMappedOn, Out!Left, Out!NoArea, Out!Area
<1>9. QED
  BY <1>5, <1>6, <1>7, <1>8 DEF OutInv

\* A panel at another stage is arranged again.
LEMMA ReachesHolds ==
    ASSUME OutInv, NEW p \in Panels, panels[p].stage # "none",
           NEW stage \in {"created", "initialized", "mapped"}, Out!Reaches(p, stage)
    PROVE  OutInv'
<1> DEFINE new == [stage |-> stage, on |-> panels[p].on]
<1>1. panels[p] \in PanelState
  BY DEF OutInv
<1>2. panels[p].on \in OutputNames \union {Out!NoPanel.on}
  BY <1>1 DEF PanelState
<1>9. new \in PanelState
  BY <1>2 DEF PanelState
<1>10. [panels[p] EXCEPT !.stage = stage] = new
  BY <1>1 DEF PanelState
<1>8. new.on \in Out!Plugged
  BY DEF OutInv
<1>3. panels' = [panels EXCEPT ![p] = new]
  BY <1>10 DEF Out!Reaches
<1> HIDE DEF new
<1>4. /\ panels' \in [Panels -> PanelState]
      /\ \A q \in Panels : panels'[q].stage = "none" \/ panels'[q].on \in Out!Plugged
  BY <1>9, <1>3, <1>8, PanelsHold
<1>5. /\ outputs' = outputs /\ mode' = mode /\ scale' = scale
      /\ usable' = Out!Arrange(mode', scale', panels')
  BY DEF Out!Reaches, Out!display
<1>6. mode \in [OutputNames -> AllModes] /\ scale \in [OutputNames -> AllScales]
  BY DEF OutInv
<1>7. QED
  BY <1>4, <1>5, <1>6, RearrangeHolds

\* A panel that comes or goes without being mapped leaves every area as it was.
LEMMA UnmappedKeeps ==
    ASSUME OutInv, NEW p \in Panels, panels[p].stage # "mapped",
           NEW new \in PanelState, new.stage = "none" \/ new.on \in Out!Plugged,
           new.stage # "mapped", panels' = [panels EXCEPT ![p] = new],
           UNCHANGED <<outputs, mode, scale, usable>>
    PROVE  OutInv'
<1>1. /\ panels' \in [Panels -> PanelState]
      /\ \A q \in Panels : panels'[q].stage = "none" \/ panels'[q].on \in Out!Plugged
  BY PanelsHold
<1>2. Out!Plugged' = Out!Plugged
  BY DEF Out!Plugged
<1>3. ASSUME NEW o \in OutputNames PROVE AreaHolds(usable, mode, scale, panels, o)'
  <2> DEFINE l == panels'
  <2>1. \A q \in Panels : IsMappedOn(panels, q, o) <=> IsMappedOn(l, q, o)
    BY DEF IsMappedOn, OutInv
  <2> HIDE DEF l
  <2>2. Out!Left(o, mode, scale, panels) = Out!Left(o, mode, scale, l)
    BY <2>1, LeftSame
  <2>3. AreaHolds(usable, mode, scale, panels, o)
    BY DEF OutInv
  <2>4. AreaHolds(usable, mode, scale, l, o)
    BY <2>1, <2>2, <2>3 DEF AreaHolds
  <2>5. QED
    BY <2>4 DEF l, AreaHolds, IsMappedOn, Out!Left, Out!NoArea, Out!Area
<1>4. QED
  BY <1>1, <1>2, <1>3 DEF OutInv

\* Nothing of what the invariant speaks of changes.
LEMMA OutSame ==
    ASSUME OutInv, UNCHANGED <<outputs, mode, scale, usable, panels>>
    PROVE  OutInv'
BY DEF OutInv, Out!Plugged, AreaHolds, IsMappedOn, Out!Left, Out!NoArea, Out!Area

\* A new output was never arranged and has no panel.
LEMMA PlugHolds ==
    ASSUME OutInv, NEW o \in OutputNames, Out!Plug(o)
    PROVE  OutInv'
<1>1. outputs' = Append(outputs, o) /\ UNCHANGED <<mode, scale, usable, panels>>
  BY DEF Out!Plug, Out!display
<1>2. outputs' \in Seq(OutputNames)
  BY <1>1 DEF OutInv
<1>3. Out!Plugged \subseteq Out!Plugged'
  <2>1. outputs \in Seq(OutputNames)
    BY DEF OutInv
  <2>2. \A i \in DOMAIN outputs : i \in DOMAIN outputs' /\ outputs'[i] = outputs[i]
    BY <1>1, <2>1
  <2>3. QED
    BY <2>2 DEF Out!Plugged
<1>4. (\A q \in OutputNames : AreaHolds(usable, mode, scale, panels, q))'
  BY <1>1 DEF OutInv, AreaHolds, IsMappedOn, Out!Left, Out!NoArea, Out!Area
<1>5. QED
  BY <1>1, <1>2, <1>3, <1>4 DEF OutInv

\* A setting is committed and everything is arranged, or it was refused.
LEMMA RequestHolds ==
    ASSUME OutInv, NEW o, Out!Request,
           \/ Out!Refused
           \/ \E m \in Modes : o \in Out!Plugged /\ Out!Configured(o, [mode EXCEPT ![o] = m], scale)
           \/ \E s \in Scales : o \in Out!Plugged /\ Out!Configured(o, mode, [scale EXCEPT ![o] = s])
    PROVE  OutInv'
<1>1. outputs' = outputs /\ panels' = panels
  BY DEF Out!Request
<1>2. CASE Out!Refused
  BY <1>1, <1>2, OutSame DEF Out!Refused, Out!display
<1>3. CASE \E m \in Modes : o \in Out!Plugged
                              /\ Out!Configured(o, [mode EXCEPT ![o] = m], scale)
  <2>1. /\ mode' \in [OutputNames -> AllModes] /\ scale' \in [OutputNames -> AllScales]
        /\ usable' = Out!Arrange(mode', scale', panels')
    BY <1>1, <1>3 DEF OutInv, AllModes, Out!Configured
  <2>2. /\ panels' \in [Panels -> PanelState]
        /\ \A p \in Panels : panels'[p].stage = "none" \/ panels'[p].on \in Out!Plugged
    BY <1>1 DEF OutInv
  <2>3. QED
    BY <1>1, <2>1, <2>2, RearrangeHolds
<1>4. CASE \E s \in Scales : o \in Out!Plugged
                               /\ Out!Configured(o, mode, [scale EXCEPT ![o] = s])
  <2>1. /\ mode' \in [OutputNames -> AllModes] /\ scale' \in [OutputNames -> AllScales]
        /\ usable' = Out!Arrange(mode', scale', panels')
    BY <1>1, <1>4 DEF OutInv, AllScales, Out!Configured
  <2>2. /\ panels' \in [Panels -> PanelState]
        /\ \A p \in Panels : panels'[p].stage = "none" \/ panels'[p].on \in Out!Plugged
    BY <1>1 DEF OutInv
  <2>3. QED
    BY <1>1, <2>1, <2>2, RearrangeHolds
<1>5. QED
  BY <1>2, <1>3, <1>4

\* A moved output is arranged as it was.
LEMMA SetPositionHolds ==
    ASSUME OutInv, NEW o, NEW x, Out!SetPosition(o, x)
    PROVE  OutInv'
<1>1. outputs' = outputs /\ panels' = panels
  BY DEF Out!SetPosition, Out!Request
<1>2. CASE o \in Out!Plugged
  <2>1. /\ mode' \in [OutputNames -> AllModes] /\ scale' \in [OutputNames -> AllScales]
        /\ usable' = Out!Arrange(mode', scale', panels')
    BY <1>1, <1>2 DEF OutInv, Out!SetPosition
  <2>2. /\ panels' \in [Panels -> PanelState]
        /\ \A p \in Panels : panels'[p].stage = "none" \/ panels'[p].on \in Out!Plugged
    BY <1>1 DEF OutInv
  <2>3. QED
    BY <1>1, <2>1, <2>2, RearrangeHolds
<1>3. CASE o \notin Out!Plugged
  BY <1>1, <1>3, OutSame DEF Out!SetPosition, Out!Refused, Out!display
<1>4. QED
  BY <1>2, <1>3

\* Nothing is plugged in when the session begins.
LEMMA OutStarts == Init => OutInv
<1> SUFFICES ASSUME Init PROVE OutInv
  OBVIOUS
<1>1. Out!Init
  BY DEF Init
<1>2. Out!Plugged = {}
  BY <1>1 DEF Out!Init, Out!Plugged
<1>3. Out!NoPanel \in PanelState /\ Out!NoPanel.stage = "none"
  <2>1. Out!NoPanel.stage = "none"
    BY Zenon DEF Out!NoPanel
  <2>2. Out!NoPanel = [stage |-> Out!NoPanel.stage, on |-> Out!NoPanel.on]
    BY Zenon DEF Out!NoPanel
  <2>3. QED
    BY <2>1, <2>2 DEF PanelState
<1>4. /\ panels \in [Panels -> PanelState]
      /\ \A p \in Panels : panels[p].stage = "none"
  BY <1>1, <1>3 DEF Out!Init
<1>5. /\ outputs \in Seq(OutputNames)
      /\ mode \in [OutputNames -> AllModes] /\ scale \in [OutputNames -> AllScales]
  BY <1>1 DEF Out!Init, AllModes, AllScales
<1>6. /\ usable = [o \in OutputNames |-> usable[o]]
      /\ \A o \in OutputNames : usable[o] = Out!NoArea
  BY <1>1 DEF Out!Init
<1>7. \A o \in OutputNames : AreaHolds(usable, mode, scale, panels, o)
  BY <1>4, <1>6 DEF AreaHolds, IsMappedOn
<1>8. QED
  BY <1>4, <1>5, <1>6, <1>7 DEF OutInv

\* Every step of a panel.
LEMMA PanelStepHolds ==
    ASSUME OutInv, NEW p \in Panels, Out!PanelStep(p)
    PROVE  OutInv'
<1>1. CASE Out!NewPanel(p)
  <2>1. PICK o \in Out!Plugged :
            panels' = [panels EXCEPT ![p] = [stage |-> "created", on |-> o]]
    BY <1>1 DEF Out!NewPanel
  <2> DEFINE new == [stage |-> "created", on |-> o]
  <2>2. new \in PanelState /\ new.on \in Out!Plugged /\ new.stage # "mapped"
    BY <2>1 DEF OutInv, Out!Plugged, PanelState
  <2>3. /\ panels' = [panels EXCEPT ![p] = new] /\ panels[p].stage # "mapped"
        /\ UNCHANGED <<outputs, mode, scale, usable>>
    BY <1>1, <2>1 DEF Out!NewPanel, Out!display
  <2> HIDE DEF new
  <2>4. QED
    BY <2>2, <2>3, UnmappedKeeps
<1>2. CASE Out!PanelCommit(p)
  <2>1. panels[p].stage # "none" /\ Out!Reaches(p, "initialized")
    BY <1>2 DEF Out!PanelCommit
  <2>2. QED
    BY <2>1, ReachesHolds
<1>3. CASE Out!PanelMap(p)
  <2>1. panels[p].stage # "none" /\ Out!Reaches(p, "mapped")
    BY <1>3 DEF Out!PanelMap
  <2>2. QED
    BY <2>1, ReachesHolds
<1>4. CASE Out!PanelUnmap(p)
  <2>1. panels[p].stage # "none" /\ Out!Reaches(p, "created")
    BY <1>4 DEF Out!PanelUnmap
  <2>2. QED
    BY <2>1, ReachesHolds
<1>5. CASE Out!PanelDestroy(p)
  <2> DEFINE new == Out!NoPanel
  <2>1. new \in PanelState /\ new.stage = "none"
    <3>1. new.stage = "none"
      BY Zenon DEF Out!NoPanel
    <3>2. new = [stage |-> new.stage, on |-> new.on]
      BY Zenon DEF Out!NoPanel
    <3>3. QED
      BY <3>1, <3>2 DEF PanelState
  <2>2. /\ panels' = [panels EXCEPT ![p] = new]
        /\ outputs' = outputs /\ mode' = mode /\ scale' = scale
        /\ usable' = IF panels[p].stage = "mapped" THEN Out!Arrange(mode', scale', panels')
                     ELSE usable
    BY <1>5 DEF Out!PanelDestroy, Out!display
  <2> HIDE DEF new
  <2>3. CASE panels[p].stage = "mapped"
    <3>1. /\ panels' \in [Panels -> PanelState]
          /\ \A q \in Panels : panels'[q].stage = "none" \/ panels'[q].on \in Out!Plugged
      BY <2>1, <2>2, PanelsHold
    <3>2. mode' \in [OutputNames -> AllModes] /\ scale' \in [OutputNames -> AllScales]
      BY <2>2 DEF OutInv
    <3>3. usable' = Out!Arrange(mode', scale', panels')
      BY <2>2, <2>3
    <3>4. QED
      BY <2>2, <3>1, <3>2, <3>3, RearrangeHolds
  <2>4. CASE panels[p].stage # "mapped"
    <3>1. new.stage = "none" /\ new.stage # "mapped" /\ usable' = usable
      BY <2>1, <2>2, <2>4
    <3>2. QED
      BY <2>1, <2>2, <2>4, <3>1, UnmappedKeeps
  <2>5. QED
    BY <2>3, <2>4
<1>6. QED
  BY <1>1, <1>2, <1>3, <1>4, <1>5 DEF Out!PanelStep

\* Every step of the service.
LEMMA BusHolds ==
    ASSUME OutInv, Out!Bus
    PROVE  OutInv'
<1>1. CASE Out!BusStart
  BY <1>1, OutSame DEF Out!BusStart, Out!display
<1>2. CASE Out!BusLost
  BY <1>2, OutSame DEF Out!BusLost, Out!display
<1>3. ASSUME NEW o, NEW m \in Modes, Out!SetMode(o, m) PROVE OutInv'
  <2>1. /\ Out!Request
        /\ \/ Out!Refused
           \/ \E n \in Modes : o \in Out!Plugged
                                 /\ Out!Configured(o, [mode EXCEPT ![o] = n], scale)
    BY <1>3 DEF Out!SetMode
  <2>2. QED
    BY <2>1, RequestHolds
<1>4. ASSUME NEW o, NEW s \in Scales, Out!SetScale(o, s) PROVE OutInv'
  <2>1. /\ Out!Request
        /\ \/ Out!Refused
           \/ \E n \in Scales : o \in Out!Plugged
                                  /\ Out!Configured(o, mode, [scale EXCEPT ![o] = n])
    BY <1>4 DEF Out!SetScale
  <2>2. QED
    BY <2>1, RequestHolds
<1>5. QED
  BY <1>1, <1>2, <1>3, <1>4, SetPositionHolds DEF Out!Bus

\* Every step of the outputs keeps the areas right.
LEMMA OutHolds ==
    ASSUME OutInv, [Out!Next]_outVars
    PROVE  OutInv'
<1>1. ASSUME NEW o \in OutputNames, Out!Frame(o) \/ Out!FrameFails(o) PROVE OutInv'
  BY <1>1, OutSame DEF Out!Frame, Out!FrameFails, Out!FrameDone, Out!display
<1>2. CASE Out!Stopped
  BY <1>2, OutSame DEF Out!Stopped, Out!outVars
<1>3. CASE UNCHANGED outVars
  BY <1>3, OutSame DEF outVars
<1>4. QED
  BY <1>1, <1>2, <1>3, PlugHolds, PanelStepHolds, BusHolds DEF Out!Next

\* The invariant of the outputs holds in every state of the services.
LEMMA OutInvHolds == Spec => []OutInv
<1>1. OutInv /\ [Next]_vars => OutInv'
  BY OutAlone, OutHolds
<1>2. QED
  BY <1>1, OutStarts, PTL DEF Spec

\* An area that was never arranged is the whole output, which no panel takes from.
LEMMA AreaIsCurrent == OutInv => UsableIsCurrent
<1> SUFFICES ASSUME OutInv, NEW o \in Out!Plugged
             PROVE  (IF usable[o] = Out!NoArea THEN Out!Area(mode[o], scale[o])[2] ELSE usable[o])
                        = Out!Left(o, mode, scale, panels)
  BY DEF UsableIsCurrent, Out!UsableIsCurrent
<1>1. o \in OutputNames
  BY DEF OutInv, Out!Plugged
<1>2. mode \in [OutputNames -> AllModes] /\ scale \in [OutputNames -> AllScales]
  BY DEF OutInv
<1>3. (\A p \in Panels : ~IsMappedOn(panels, p, o)) =>
          Out!Left(o, mode, scale, panels) = Out!Area(mode[o], scale[o])[2]
  BY <1>1, <1>2, LeftIs
<1>4. AreaHolds(usable, mode, scale, panels, o)
  BY <1>1 DEF OutInv
<1>5. QED
  BY <1>3, <1>4 DEF AreaHolds

\* However many outputs are plugged in, configured and moved, and however their panels
\* come, map and go, the area kept for windows is the one the mapped panels leave.
THEOREM AreasStayCurrent == Spec => []UsableIsCurrent
BY OutInvHolds, AreaIsCurrent, PTL

-----------------------------------------------------------------------------
(* Tray: any number of programs that register items, redraw them and end,  *)
(* and a shell that reads what the bus told it in its own time.            *)

\* Steps of the composition are steps of the tray.
LEMMA TrayAlone ==
    ASSUME [Next]_vars
    PROVE  [Icons!Next]_trayVars
BY DEF Next, vars, OutputsStep, LockStep, TrayStep, PanelsStep, RecorderStep, AudioStep,
       Alone, trayVars

Messages == [op : {"register"}, item : Icons!Items] \union [op : {"changed"}, program : Programs]
              \union [op : {"gone"}, program : Programs, way : {"named", "unique"}]

\* After place k of the messages q the bus tells that program p left a name.
Ends(q, p, way, k) ==
    \E j \in DOMAIN q : j > k /\ q[j].op = "gone" /\ q[j].program = p /\ q[j].way = way

\* An item of a program that ended is named without a path, or its end is still to be read.
Stands(i, q, k) == i.program \in running \/ i.way = "bare" \/ Ends(q, i.program, i.way, k)

TrayInv ==
    /\ trayInbox \in Seq(Messages)
    /\ items \subseteq Icons!Items /\ DOMAIN icons = items
    /\ \A i \in items : Stands(i, trayInbox, 0)
    /\ \A k \in DOMAIN trayInbox :
           trayInbox[k].op = "register" => Stands(trayInbox[k].item, trayInbox, k)

\* What an item is, and what the messages are.
LEMMA ItemsAre ==
    /\ \A i \in Icons!Items : i.program \in Programs /\ i.way \in {"unique", "named", "bare"}
    /\ \A m \in Messages :
           /\ m.op \in {"register", "changed", "gone"}
           /\ m.op = "register" => m.item \in Icons!Items
    /\ \A i \in Icons!Items : [op |-> "register", item |-> i] \in Messages
    /\ \A p \in Programs :
           /\ [op |-> "changed", program |-> p] \in Messages
           /\ \A w \in {"named", "unique"} : [op |-> "gone", program |-> p, way |-> w] \in Messages
<1>1. \A i \in Icons!Items : i.program \in Programs /\ i.way \in {"unique", "named", "bare"}
  BY DEF Icons!Items, Icons!Ways
<1>2. \A m \in Messages :
          /\ m.op \in {"register", "changed", "gone"}
          /\ m.op = "register" => m.item \in Icons!Items
  BY DEF Messages
<1>3. \A i \in Icons!Items : [op |-> "register", item |-> i] \in Messages
  BY DEF Messages
<1>4. \A p \in Programs : [op |-> "changed", program |-> p] \in Messages
  BY DEF Messages
<1>5. \A p \in Programs : \A w \in {"named", "unique"} :
          [op |-> "gone", program |-> p, way |-> w] \in Messages
  BY DEF Messages
<1>6. QED
  BY <1>1, <1>2, <1>3, <1>4, <1>5, Zenon

\* More messages: what was to be read still is, in its place.
LEMMA MoreMessages ==
    ASSUME NEW q \in Seq(Messages), NEW e \in Seq(Messages)
    PROVE  /\ q \o e \in Seq(Messages)
           /\ \A k \in DOMAIN q : k \in DOMAIN (q \o e) /\ (q \o e)[k] = q[k]
           /\ \A k \in DOMAIN (q \o e) :
                  k \in DOMAIN q \/ (k - Len(q) \in DOMAIN e /\ (q \o e)[k] = e[k - Len(q)])
           /\ \A k \in DOMAIN e : Len(q) + k \in DOMAIN (q \o e) /\ (q \o e)[Len(q) + k] = e[k]
           /\ \A p, w, k : Ends(q, p, w, k) => Ends(q \o e, p, w, k)
<1>1. /\ q \o e \in Seq(Messages) /\ Len(q \o e) = Len(q) + Len(e)
      /\ \A k \in 1..Len(q) : (q \o e)[k] = q[k]
      /\ \A k \in 1..Len(e) : (q \o e)[Len(q) + k] = e[k]
  OBVIOUS
<1>2. /\ DOMAIN q = 1..Len(q) /\ DOMAIN e = 1..Len(e) /\ DOMAIN (q \o e) = 1..Len(q \o e)
      /\ Len(q) \in Nat /\ Len(e) \in Nat
  BY <1>1
<1> DEFINE r == q \o e
<1>3. /\ \A k \in DOMAIN q : k \in DOMAIN r /\ r[k] = q[k]
      /\ \A k \in DOMAIN e : Len(q) + k \in DOMAIN r /\ r[Len(q) + k] = e[k]
  BY <1>1, <1>2
<1>4. ASSUME NEW k \in DOMAIN r, k \notin DOMAIN q
      PROVE  k - Len(q) \in DOMAIN e /\ r[k] = e[k - Len(q)]
  <2>1. k - Len(q) \in 1..Len(e) /\ k = Len(q) + (k - Len(q))
    BY <1>1, <1>2, <1>4
  <2>2. QED
    BY <2>1, <1>1, <1>2
<1>5. r \in Seq(Messages)
  BY <1>1
<1> HIDE DEF r
<1>6. ASSUME NEW p, NEW w, NEW k, Ends(q, p, w, k) PROVE Ends(r, p, w, k)
  BY <1>3, <1>6 DEF Ends
<1>7. QED
  BY <1>3, <1>4, <1>5, <1>6 DEF r

\* The first message read: the others move up.
LEMMA OneRead ==
    ASSUME NEW q \in Seq(Messages), q # <<>>
    PROVE  /\ Tail(q) \in Seq(Messages) /\ Head(q) = q[1] /\ 1 \in DOMAIN q /\ q[1] \in Messages
           /\ \A k \in DOMAIN Tail(q) : k + 1 \in DOMAIN q /\ Tail(q)[k] = q[k + 1] /\ k \in Nat
           /\ \A k \in DOMAIN q : k = 1 \/ (k - 1 \in DOMAIN Tail(q) /\ Tail(q)[k - 1] = q[k])
           /\ \A p, w : \A k \in Nat : Ends(q, p, w, k + 1) => Ends(Tail(q), p, w, k)
           /\ \A p, w : Ends(q, p, w, 0) =>
                  \/ q[1].op = "gone" /\ q[1].program = p /\ q[1].way = w
                  \/ Ends(Tail(q), p, w, 0)
<1> DEFINE t == Tail(q)
<1>1. /\ t \in Seq(Messages) /\ Len(t) = Len(q) - 1 /\ Head(q) = q[1] /\ Len(q) \in Nat /\ Len(q) > 0
      /\ \A k \in 1..Len(t) : t[k] = q[k + 1]
  OBVIOUS
<1>2. DOMAIN q = 1..Len(q) /\ DOMAIN t = 1..Len(t)
  BY <1>1
<1> HIDE DEF t
<1>3. 1 \in DOMAIN q /\ q[1] \in Messages
  BY <1>1, <1>2
<1>4. \A k \in DOMAIN t : k + 1 \in DOMAIN q /\ t[k] = q[k + 1] /\ k \in Nat
  BY <1>1, <1>2
<1>5. ASSUME NEW k \in DOMAIN q, k # 1 PROVE k - 1 \in DOMAIN t /\ t[k - 1] = q[k] /\ k \in Nat
  <2>1. k - 1 \in 1..Len(t) /\ k = (k - 1) + 1
    BY <1>1, <1>2, <1>5
  <2>2. QED
    BY <2>1, <1>1, <1>2
<1>6. ASSUME NEW p, NEW w, NEW k \in Nat, Ends(q, p, w, k + 1) PROVE Ends(t, p, w, k)
  <2>1. PICK j \in DOMAIN q : j > k + 1 /\ q[j].op = "gone" /\ q[j].program = p /\ q[j].way = w
    BY <1>6 DEF Ends
  <2>2. j # 1 /\ j \in Nat
    BY <2>1, <1>2, <1>1
  <2>3. j - 1 \in DOMAIN t /\ t[j - 1] = q[j] /\ j - 1 > k
    BY <2>1, <2>2, <1>5
  <2>4. QED
    BY <2>1, <2>3 DEF Ends
<1>7. ASSUME NEW p, NEW w, Ends(q, p, w, 0),
             ~(q[1].op = "gone" /\ q[1].program = p /\ q[1].way = w)
      PROVE  Ends(t, p, w, 0)
  <2>1. PICK j \in DOMAIN q : j > 0 /\ q[j].op = "gone" /\ q[j].program = p /\ q[j].way = w
    BY <1>7 DEF Ends
  <2>2. j # 1 /\ j \in 1..Len(q)
    BY <2>1, <1>7, <1>2
  <2>3. j - 1 \in DOMAIN t /\ t[j - 1] = q[j] /\ j - 1 > 0
    BY <2>2, <1>5, <1>1
  <2>4. QED
    BY <2>1, <2>3 DEF Ends
<1>8. QED
  BY <1>1, <1>3, <1>4, <1>5, <1>6, <1>7 DEF t

\* An end that is told now is told after all that was there.
LEMMA EndsLast ==
    ASSUME NEW q \in Seq(Messages), NEW e \in Seq(Messages), NEW p, NEW w, NEW n \in 0..Len(q),
           Ends(e, p, w, 0)
    PROVE  Ends(q \o e, p, w, n)
<1> DEFINE r == q \o e
<1>1. \A k \in DOMAIN e : Len(q) + k \in DOMAIN r /\ r[Len(q) + k] = e[k]
  BY MoreMessages
<1>2. DOMAIN e = 1..Len(e) /\ Len(e) \in Nat /\ Len(q) \in Nat
  OBVIOUS
<1> HIDE DEF r
<1>3. PICK c \in DOMAIN e : c > 0 /\ e[c].op = "gone" /\ e[c].program = p /\ e[c].way = w
  BY DEF Ends
<1>4. Len(q) + c \in DOMAIN r /\ r[Len(q) + c] = e[c] /\ Len(q) + c > n
  BY <1>1, <1>2, <1>3
<1>5. Ends(r, p, w, n)
  BY <1>3, <1>4 DEF Ends
<1>6. QED
  BY <1>5 DEF r

\* Messages that are added speak for themselves, and nobody comes back.
LEMMA SendHolds ==
    ASSUME TrayInv, NEW e \in Seq(Messages), trayInbox' = trayInbox \o e,
           running' \subseteq running, UNCHANGED <<items, icons>>,
           \A k \in DOMAIN e : e[k].op = "register" =>
               e[k].item.program \in running',
           \A p \in running \ running' : \A w \in {"named", "unique"} : Ends(e, p, w, 0)
    PROVE  TrayInv'
<1> DEFINE q == trayInbox
           r == trayInbox'
<1>1. q \in Seq(Messages) /\ r = q \o e
  BY DEF TrayInv
<1>2. Len(q) \in Nat /\ DOMAIN q = 1..Len(q)
  BY <1>1
<1>3. /\ r \in Seq(Messages)
      /\ \A k \in DOMAIN q : k \in DOMAIN r /\ r[k] = q[k]
      /\ \A k \in DOMAIN r : k \in DOMAIN q \/ (k - Len(q) \in DOMAIN e /\ r[k] = e[k - Len(q)])
      /\ \A k \in DOMAIN e : Len(q) + k \in DOMAIN r /\ r[Len(q) + k] = e[k]
      /\ \A p, w, k : Ends(q, p, w, k) => Ends(r, p, w, k)
  BY <1>1, MoreMessages
<1>4. DOMAIN e = 1..Len(e) /\ Len(e) \in Nat
  OBVIOUS
<1> HIDE DEF r
<1> DEFINE Held(x, z) == x.program \in running' \/ x.way = "bare" \/ Ends(r, x.program, x.way, z)
<1>5. ASSUME NEW i \in Icons!Items, NEW n \in 0..Len(q), Stands(i, q, n)
      PROVE  Held(i, n)
  <2>1. i.way \in {"unique", "named", "bare"}
    BY ItemsAre
  <2>2. ASSUME i.program \in running \ running', i.way # "bare"
        PROVE  Ends(r, i.program, i.way, n)
    <3>1. i.way \in {"named", "unique"}
      BY <2>1, <2>2
    <3>2. Ends(e, i.program, i.way, 0)
      BY <2>2, <3>1
    <3>3. QED
      BY <1>1, <3>2, EndsLast
  <2>3. QED
    BY <1>3, <1>5, <2>2 DEF Stands
<1>6. ASSUME NEW i \in items PROVE Held(i, 0)
  <2>1. i \in Icons!Items /\ Stands(i, q, 0) /\ 0 \in 0..Len(q)
    BY <1>2 DEF TrayInv
  <2>2. QED
    BY <2>1, <1>5
<1>7. ASSUME NEW c \in DOMAIN r, r[c].op = "register" PROVE Held(r[c].item, c)
  <2>1. CASE c \in DOMAIN q
    <3>1. r[c] = q[c] /\ q[c].op = "register" /\ q[c] \in Messages
      BY <1>1, <1>3, <1>7, <2>1
    <3>2. Stands(q[c].item, q, c)
      BY <2>1, <3>1 DEF TrayInv
    <3>3. q[c].item \in Icons!Items /\ c \in 0..Len(q)
      BY <1>2, <2>1, <3>1, ItemsAre
    <3>4. QED
      BY <1>5, <3>1, <3>2, <3>3
  <2>2. CASE c \notin DOMAIN q
    BY <1>3, <1>7, <2>2
  <2>3. QED
    BY <2>1, <2>2
<1>8. (\A i \in items : Stands(i, trayInbox, 0))'
  BY <1>6 DEF r, Stands, Ends
<1>9. (\A k \in DOMAIN trayInbox :
          trayInbox[k].op = "register" => Stands(trayInbox[k].item, trayInbox, k))'
  BY <1>7 DEF r, Stands, Ends
<1>10. QED
  BY <1>3, <1>8, <1>9 DEF r, TrayInv

\* A registration is sent by a program that runs.
LEMMA RegisterHolds ==
    ASSUME TrayInv, NEW i \in Icons!Items, Icons!Register(i)
    PROVE  TrayInv'
<1> DEFINE m == [op |-> "register", item |-> i]
           e == <<m>>
<1>1. /\ i.program \in running /\ trayInbox' = trayInbox \o e
      /\ UNCHANGED <<running, items, icons>>
  BY DEF Icons!Register, Icons!Send
<1>2. m \in Messages
  BY ItemsAre
<1>3. m.item = i
  OBVIOUS
<1> HIDE DEF m
<1>4. e \in Seq(Messages) /\ DOMAIN e = {1} /\ e[1] = m
  BY <1>2
<1> HIDE DEF e
<1>5. QED
  BY <1>1, <1>3, <1>4, SendHolds

\* Redrawing registers nothing.
LEMMA RedrawHolds ==
    ASSUME TrayInv, NEW p \in Programs, Icons!Redraw(p)
    PROVE  TrayInv'
<1> DEFINE m == [op |-> "changed", program |-> p]
           e == <<m>>
<1>1. trayInbox' = trayInbox \o e /\ UNCHANGED <<running, items, icons>>
  BY DEF Icons!Redraw, Icons!Send
<1>2. m \in Messages
  BY ItemsAre
<1>3. m.op = "changed"
  OBVIOUS
<1> HIDE DEF m
<1>4. e \in Seq(Messages) /\ DOMAIN e = {1} /\ e[1] = m
  BY <1>2
<1> HIDE DEF e
<1>5. QED
  BY <1>1, <1>3, <1>4, SendHolds

\* The end of a program is told for both of its names.
LEMMA ExitHolds ==
    ASSUME TrayInv, NEW p \in Programs, Icons!Exit(p)
    PROVE  TrayInv'
<1> DEFINE m == [op |-> "gone", program |-> p, way |-> "named"]
           n == [op |-> "gone", program |-> p, way |-> "unique"]
           e == <<m, n>>
<1>1. /\ trayInbox' = trayInbox \o e /\ running' = running \ {p}
      /\ UNCHANGED <<items, icons>>
  BY DEF Icons!Exit, Icons!Send
<1>2. m \in Messages /\ n \in Messages
  BY ItemsAre
<1>3. /\ m.op = "gone" /\ m.program = p /\ m.way = "named"
      /\ n.op = "gone" /\ n.program = p /\ n.way = "unique"
  OBVIOUS
<1> HIDE DEF m, n
<1>4. e \in Seq(Messages) /\ DOMAIN e = {1, 2} /\ e[1] = m /\ e[2] = n
  BY <1>2
<1> HIDE DEF e
<1>5. \A k \in DOMAIN e : e[k].op # "register"
  BY <1>3, <1>4
<1>6. \A w \in {"named", "unique"} : Ends(e, p, w, 0)
  BY <1>3, <1>4 DEF Ends
<1>7. \A r \in running \ running' : r = p
  BY <1>1
<1>8. QED
  BY <1>1, <1>4, <1>5, <1>6, <1>7, SendHolds

\* What is left to be read still says who ended: a message that is served speaks of the
\* items it leaves, and the registrations that follow have theirs.
LEMMA ServedHolds ==
    ASSUME TrayInv, trayInbox # <<>>, trayInbox' = Tail(trayInbox), running' = running,
           items' \subseteq Icons!Items, DOMAIN icons' = items',
           \A i \in items' : Stands(i, Tail(trayInbox), 0)
    PROVE  TrayInv'
<1> DEFINE q == trayInbox
           r == trayInbox'
<1>1. q \in Seq(Messages) /\ q # <<>> /\ r = Tail(q)
  BY DEF TrayInv
<1>2. /\ r \in Seq(Messages)
      /\ \A k \in DOMAIN r : k + 1 \in DOMAIN q /\ r[k] = q[k + 1] /\ k \in Nat
      /\ \A p, w : \A k \in Nat : Ends(q, p, w, k + 1) => Ends(r, p, w, k)
  BY <1>1, OneRead
<1> HIDE DEF r
<1> DEFINE Held(x, z) == x.program \in running' \/ x.way = "bare" \/ Ends(r, x.program, x.way, z)
<1>3. ASSUME NEW i \in items' PROVE Held(i, 0)
  BY <1>1, <1>3 DEF Stands
<1>4. ASSUME NEW c \in DOMAIN r, r[c].op = "register" PROVE Held(r[c].item, c)
  <2>1. c + 1 \in DOMAIN q /\ r[c] = q[c + 1] /\ c \in Nat
    BY <1>2
  <2>2. Stands(q[c + 1].item, q, c + 1)
    BY <1>4, <2>1 DEF TrayInv
  <2>3. QED
    BY <1>2, <2>1, <2>2 DEF Stands
<1>5. (\A i \in items : Stands(i, trayInbox, 0))'
  BY <1>3 DEF r, Stands, Ends
<1>6. (\A k \in DOMAIN trayInbox :
          trayInbox[k].op = "register" => Stands(trayInbox[k].item, trayInbox, k))'
  BY <1>4 DEF r, Stands, Ends
<1>7. QED
  BY <1>2, <1>5, <1>6 DEF r, TrayInv

\* An end that is not the one being read is still to be read.
LEMMA StillStands ==
    ASSUME TrayInv, trayInbox # <<>>, NEW i \in items,
           ~(/\ trayInbox[1].op = "gone" /\ trayInbox[1].program = i.program
             /\ trayInbox[1].way = i.way)
    PROVE  Stands(i, Tail(trayInbox), 0)
<1>1. Stands(i, trayInbox, 0) /\ trayInbox \in Seq(Messages)
  BY DEF TrayInv
<1>2. Ends(trayInbox, i.program, i.way, 0) => Ends(Tail(trayInbox), i.program, i.way, 0)
  BY <1>1, OneRead
<1>3. QED
  BY <1>1, <1>2 DEF Stands

\* Whatever the message says, the shell's items are right after it.
LEMMA ServeHolds ==
    ASSUME TrayInv, Icons!Serve
    PROVE  TrayInv'
<1> DEFINE m == Head(trayInbox)
<1>1. trayInbox # <<>> /\ trayInbox' = Tail(trayInbox) /\ running' = running
  BY DEF Icons!Serve
<1>2. trayInbox \in Seq(Messages) /\ items \subseteq Icons!Items /\ DOMAIN icons = items
  BY DEF TrayInv
<1>3. m = trayInbox[1] /\ 1 \in DOMAIN trayInbox /\ m \in Messages
  BY <1>1, <1>2, OneRead
<1>4. \/ m.op = "register" /\ Icons!RegisterItem(m.item)
      \/ m.op = "gone"     /\ Icons!NameOwnerChanged(m.program, m.way)
      \/ m.op = "changed"  /\ Icons!RefreshIcons(m.program)
  BY DEF Icons!Serve
<1> HIDE DEF m
<1>5. \A i \in items : m.op # "gone" => Stands(i, Tail(trayInbox), 0)
  BY <1>1, <1>3, StillStands
<1>6. CASE m.op = "register" /\ Icons!RegisterItem(m.item)
  <2> DEFINE new == m.item
  <2>1. new \in Icons!Items
    BY <1>3, <1>6, ItemsAre
  <2>2. Stands(new, Tail(trayInbox), 0)
    <3>1. Stands(new, trayInbox, 1)
      BY <1>3, <1>6 DEF TrayInv
    <3>2. Ends(trayInbox, new.program, new.way, 0 + 1) => Ends(Tail(trayInbox), new.program, new.way, 0)
      BY <1>1, <1>2, OneRead
    <3>3. QED
      BY <3>1, <3>2 DEF Stands
  <2>3. Icons!RegisterItem(new)
    BY <1>6
  <2> HIDE DEF new
  <2>4. CASE new \in items
    <3>1. items' = items /\ icons' = icons
      BY <2>3, <2>4 DEF Icons!RegisterItem
    <3>2. QED
      BY <1>1, <1>2, <1>5, <1>6, <3>1, ServedHolds
  <2>5. CASE new \notin items
    <3>1. items' = items \union {new} /\ DOMAIN icons' = items'
      BY <1>2, <2>3, <2>5 DEF Icons!RegisterItem
    <3>2. items' \subseteq Icons!Items
      BY <1>2, <2>1, <3>1
    <3>3. \A i \in items' : Stands(i, Tail(trayInbox), 0)
      BY <1>5, <1>6, <2>2, <3>1
    <3>4. QED
      BY <1>1, <3>1, <3>2, <3>3, ServedHolds
  <2>6. QED
    BY <2>4, <2>5
<1>7. CASE m.op = "gone" /\ Icons!NameOwnerChanged(m.program, m.way)
  <2>1. /\ items' = items \ {i \in items : i.program = m.program /\ i.way = m.way}
        /\ DOMAIN icons' = DOMAIN icons \ {i \in items : i.program = m.program /\ i.way = m.way}
    BY <1>7 DEF Icons!NameOwnerChanged
  <2>2. items' \subseteq Icons!Items /\ DOMAIN icons' = items' /\ items' \subseteq items
    BY <1>2, <2>1
  <2>3. ASSUME NEW i \in items' PROVE Stands(i, Tail(trayInbox), 0)
    <3>1. i \in items /\ ~(i.program = m.program /\ i.way = m.way)
      BY <2>1
    <3>2. QED
      BY <1>1, <1>3, <3>1, StillStands
  <2>4. QED
    BY <1>1, <2>2, <2>3, ServedHolds
<1>8. CASE m.op = "changed" /\ Icons!RefreshIcons(m.program)
  <2>1. items' = items /\ DOMAIN icons' = items'
    BY <1>2, <1>8 DEF Icons!RefreshIcons
  <2>2. \A i \in items' : Stands(i, Tail(trayInbox), 0)
    BY <1>5, <1>8, <2>1
  <2>3. QED
    BY <1>1, <1>2, <2>1, <2>2, ServedHolds
<1>9. QED
  BY <1>4, <1>6, <1>7, <1>8

\* The invariant of the tray holds in every state of the services.
LEMMA TrayInvHolds == Spec => []TrayInv
<1>1. Init => TrayInv
  BY DEF Init, Icons!Init, TrayInv
<1>2. ASSUME TrayInv, [Icons!Next]_trayVars PROVE TrayInv'
  <2>1. CASE UNCHANGED trayVars
    BY <1>2, <2>1 DEF trayVars, TrayInv, Stands, Ends
  <2>2. QED
    BY <1>2, <2>1, RegisterHolds, RedrawHolds, ExitHolds, ServeHolds DEF Icons!Next
<1>3. TrayInv /\ [Next]_vars => TrayInv'
  BY <1>2, TrayAlone
<1>4. QED
  BY <1>1, <1>3, PTL DEF Spec

\* Once nothing is left to be read, nobody's end is.
LEMMA NothingIsLeft == TrayInv => TrayIsCurrent
<1> SUFFICES ASSUME TrayInv PROVE TrayIsCurrent
  OBVIOUS
<1>1. DOMAIN icons = items
  BY DEF TrayInv
<1>2. ASSUME trayInbox = <<>>, NEW i \in DOMAIN icons
      PROVE  i.program \in running \/ i.way = "bare"
  <2>1. Stands(i, <<>>, 0)
    BY <1>1, <1>2 DEF TrayInv
  <2>2. QED
    BY <2>1 DEF Stands, Ends
<1>3. QED
  BY <1>1, <1>2 DEF TrayIsCurrent, Icons!TrayIsCurrent

\* However many programs register items, redraw them and end while the shell is behind,
\* once it has read what the bus told it every icon is that of a program that runs.
THEOREM TrayStaysCurrent == Spec => []TrayIsCurrent
BY TrayInvHolds, NothingIsLeft, PTL

-----------------------------------------------------------------------------
(* ShellPanels: contents copied, picked again and dropped by the history,  *)
(* with the panel opened and closed at any time.                           *)

\* Steps of the composition are steps of the panels.
LEMMA ShellAlone ==
    ASSUME [Next]_vars
    PROVE  [Shell!Next]_panelVars
BY DEF Next, vars, OutputsStep, LockStep, TrayStep, PanelsStep, RecorderStep, AudioStep,
       Alone, panelVars

\* A list without repetition, of what programs copied.
Once(s) == \A i, j \in 1..Len(s) : s[i] = s[j] => i = j
HistoryOf(s) == s \in Seq(Contents) /\ Once(s) /\ Len(s) <= MaxEntries

ClipInv ==
    /\ signals \in BOOLEAN /\ panel \in BOOLEAN
    /\ clipboard \in Contents \union {Nothing}
    /\ panelRows \in Seq(Contents) /\ HistoryOf(entries)
    /\ ~signals /\ clipboard # Nothing => Len(entries) > 0 /\ entries[1] = clipboard
    /\ panel => panelRows = entries

\* A content that is known moves from its place to the top.
LEMMA MovedToTop ==
    ASSUME NEW s, HistoryOf(s), NEW n \in 1..Len(s)
    PROVE  LET r == <<s[n]>> \o Shell!RemoveAt(s, n)
           IN  HistoryOf(r) /\ Len(r) > 0 /\ r[1] = s[n]
<1> DEFINE c == s[n]
           a == SubSeq(s, 1, n - 1)
           b == SubSeq(s, n + 1, Len(s))
           t == a \o b
           r == <<c>> \o t
<1>1. s \in Seq(Contents) /\ Len(s) \in Nat /\ n \in Int /\ 1 <= n /\ n <= Len(s) /\ c \in Contents
      /\ (\A i \in 1..Len(s) : s[i] \in Contents)
  BY LenProperties, ElementOfSeq DEF HistoryOf
<1>2. /\ a \in Seq(Contents) /\ Len(a) = n - 1
      /\ \A i \in 1..(n - 1) : a[i] = s[i]
  <2>1. n - 1 \in Nat /\ 1 <= 1 /\ 1 <= (n - 1) + 1 /\ n - 1 <= Len(s) /\ 1 \in Nat
    BY <1>1
  <2>2. /\ a \in Seq(Contents) /\ Len(a) = (n - 1) - 1 + 1
        /\ \A i \in 1..((n - 1) - 1 + 1) : a[i] = s[1 + i - 1]
    BY <1>1, <2>1, PartOf
  <2>3. QED
    BY <1>1, <2>2
<1>3. /\ b \in Seq(Contents) /\ Len(b) = Len(s) - n
      /\ \A i \in 1..(Len(s) - n) : b[i] = s[n + i]
  <2>1. n + 1 \in Nat /\ 1 <= n + 1 /\ n + 1 <= Len(s) + 1 /\ Len(s) <= Len(s)
    BY <1>1
  <2>2. /\ b \in Seq(Contents) /\ Len(b) = Len(s) - (n + 1) + 1
        /\ \A i \in 1..(Len(s) - (n + 1) + 1) : b[i] = s[(n + 1) + i - 1]
    BY <1>1, <2>1, PartOf
  <2>3. QED
    BY <1>1, <2>2
<1> HIDE DEF a, b, c
<1>4. /\ t \in Seq(Contents) /\ Len(t) = Len(s) - 1
      /\ \A i \in 1..(Len(s) - 1) : t[i] = IF i < n THEN s[i] ELSE s[i + 1]
  <2>1. /\ t \in Seq(Contents) /\ Len(t) = Len(a) + Len(b)
        /\ \A i \in 1..(Len(a) + Len(b)) : t[i] = IF i <= Len(a) THEN a[i] ELSE b[i - Len(a)]
    BY <1>2, <1>3, ConcatProperties
  <2>2. ASSUME NEW i \in 1..(Len(s) - 1) PROVE t[i] = IF i < n THEN s[i] ELSE s[i + 1]
    <3>1. CASE i < n
      BY <1>1, <1>2, <1>3, <2>1, <3>1
    <3>2. CASE ~(i < n)
      <4>1. i - (n - 1) \in 1..(Len(s) - n) /\ n + (i - (n - 1)) = i + 1
        BY <1>1, <3>2
      <4>2. t[i] = b[i - (n - 1)]
        BY <1>1, <1>2, <1>3, <2>1, <3>2
      <4>3. QED
        BY <1>3, <3>2, <4>1, <4>2
    <3>3. QED
      BY <3>1, <3>2
  <2>3. QED
    BY <1>1, <1>2, <1>3, <2>1, <2>2
<1> HIDE DEF t
<1>5. /\ r \in Seq(Contents) /\ Len(r) = Len(s) /\ r[1] = c
      /\ \A i \in 2..Len(s) : r[i] = IF i <= n THEN s[i - 1] ELSE s[i]
  <2>1. <<c>> \in Seq(Contents) /\ Len(<<c>>) = 1 /\ <<c>>[1] = c
    BY <1>1
  <2>2. /\ r \in Seq(Contents) /\ Len(r) = Len(<<c>>) + Len(t)
        /\ \A i \in 1..(Len(<<c>>) + Len(t)) :
               r[i] = IF i <= Len(<<c>>) THEN <<c>>[i] ELSE t[i - Len(<<c>>)]
    BY <1>4, <2>1, ConcatProperties
  <2>3. ASSUME NEW i \in 2..Len(s) PROVE r[i] = IF i <= n THEN s[i - 1] ELSE s[i]
    <3>1. i - 1 \in 1..(Len(s) - 1) /\ r[i] = t[i - 1]
      BY <1>1, <1>4, <2>1, <2>2
    <3>2. (i - 1) + 1 = i /\ ((i - 1) < n <=> i <= n)
      BY <1>1
    <3>3. QED
      BY <1>4, <3>1, <3>2
  <2>4. QED
    BY <1>1, <1>4, <2>1, <2>2, <2>3
<1> HIDE DEF r
<1>6. ASSUME NEW i \in 1..Len(r), NEW j \in 1..Len(r), r[i] = r[j] PROVE i = j
  <2> DEFINE from(k) == IF k = 1 THEN n ELSE IF k <= n THEN k - 1 ELSE k
  <2>1. \A k \in 1..Len(r) : from(k) \in 1..Len(s) /\ r[k] = s[from(k)]
    <3>1. ASSUME NEW k \in 1..Len(r) PROVE from(k) \in 1..Len(s) /\ r[k] = s[from(k)]
      <4>1. CASE k = 1
        BY <1>1, <1>5, <4>1 DEF c
      <4>2. CASE k # 1
        <5>1. k \in 2..Len(s)
          BY <1>1, <1>5, <4>2
        <5>2. QED
          BY <1>1, <1>5, <4>2, <5>1
      <4>3. QED
        BY <4>1, <4>2
    <3>2. QED
      BY <3>1
  <2>2. from(i) = from(j)
    BY <1>6, <2>1 DEF HistoryOf, Once
  <2>3. QED
    BY <1>1, <1>5, <2>2
<1>7. HistoryOf(r) /\ Len(r) > 0 /\ r[1] = c
  BY <1>1, <1>5, <1>6 DEF HistoryOf, Once
<1>8. r = <<s[n]>> \o Shell!RemoveAt(s, n)
  BY DEF r, t, a, b, c, Shell!RemoveAt
<1>9. QED
  BY <1>7, <1>8 DEF c

\* A new content comes on top, and the oldest one goes when there are too many.
LEMMA PutOnTop ==
    ASSUME NEW s, HistoryOf(s), NEW c \in Contents, \A i \in 1..Len(s) : s[i] # c
    PROVE  LET r == SubSeq(<<c>> \o s, 1, IF Len(s) < MaxEntries THEN Len(s) + 1 ELSE MaxEntries)
           IN  HistoryOf(r) /\ Len(r) > 0 /\ r[1] = c
<1> DEFINE t == <<c>> \o s
           m == IF Len(s) < MaxEntries THEN Len(s) + 1 ELSE MaxEntries
           r == SubSeq(t, 1, m)
<1>1. s \in Seq(Contents) /\ Len(s) \in Nat /\ Len(s) <= MaxEntries
  BY LenProperties DEF HistoryOf
<1>2. m \in Nat /\ m > 0 /\ m <= Len(s) + 1 /\ m <= MaxEntries
  BY <1>1, ClipboardAssumption DEF ClipboardAssumption
<1> HIDE DEF m
<1>3. /\ t \in Seq(Contents) /\ Len(t) = Len(s) + 1 /\ t[1] = c
      /\ \A i \in 2..(Len(s) + 1) : t[i] = s[i - 1]
  <2>1. <<c>> \in Seq(Contents) /\ Len(<<c>>) = 1 /\ <<c>>[1] = c
    OBVIOUS
  <2>2. /\ t \in Seq(Contents) /\ Len(t) = Len(<<c>>) + Len(s)
        /\ \A i \in 1..(Len(<<c>>) + Len(s)) :
               t[i] = IF i <= Len(<<c>>) THEN <<c>>[i] ELSE s[i - Len(<<c>>)]
    BY <1>1, <2>1, ConcatProperties
  <2>3. QED
    BY <1>1, <2>1, <2>2
<1> HIDE DEF t
<1>4. /\ r \in Seq(Contents) /\ Len(r) = m
      /\ \A i \in 1..m : r[i] = t[i]
  <2>1. m \in Nat /\ 1 \in Nat /\ 1 <= 1 /\ 1 <= m + 1 /\ m <= Len(t)
    BY <1>2, <1>3
  <2>2. /\ r \in Seq(Contents) /\ Len(r) = m - 1 + 1
        /\ \A i \in 1..(m - 1 + 1) : r[i] = t[1 + i - 1]
    BY <1>3, <2>1, PartOf
  <2>3. QED
    BY <1>2, <2>2
<1> HIDE DEF r
<1>5. ASSUME NEW i \in 1..Len(r), NEW j \in 1..Len(r), r[i] = r[j] PROVE i = j
  <2>1. \A k \in 1..Len(r) : k # 1 => r[k] = s[k - 1] /\ k - 1 \in 1..Len(s)
    BY <1>1, <1>2, <1>3, <1>4
  <2>2. r[1] = c
    BY <1>2, <1>3, <1>4
  <2>3. CASE i = 1 \/ j = 1
    BY <1>5, <2>1, <2>2, <2>3
  <2>4. CASE i # 1 /\ j # 1
    <3>1. s[i - 1] = s[j - 1] /\ i - 1 \in 1..Len(s) /\ j - 1 \in 1..Len(s)
      BY <1>5, <2>1, <2>4
    <3>2. i - 1 = j - 1
      BY <3>1 DEF HistoryOf, Once
    <3>3. QED
      BY <1>1, <1>2, <1>4, <3>2
  <2>5. QED
    BY <2>3, <2>4
<1>6. r[1] = c /\ Len(r) > 0 /\ Len(r) <= MaxEntries
  BY <1>2, <1>3, <1>4
<1>7. Once(r)
  BY <1>5 DEF Once
<1>8. QED
  BY <1>4, <1>6, <1>7 DEF r, t, m, HistoryOf

\* What is pushed is on top of a history.
LEMMA PushedIs ==
    ASSUME HistoryOf(entries), NEW c \in Contents
    PROVE  HistoryOf(Shell!Pushed(c)) /\ Len(Shell!Pushed(c)) > 0 /\ Shell!Pushed(c)[1] = c
<1> DEFINE known == {i \in DOMAIN entries : entries[i] = c}
           first == CHOOSE i \in known : \A j \in known : i <= j
           n == IF Len(entries) < MaxEntries THEN Len(entries) + 1 ELSE MaxEntries
<1>1. DOMAIN entries = 1..Len(entries) /\ Len(entries) \in Nat
  BY LenProperties DEF HistoryOf
<1>2. Shell!Pushed(c) = IF known # {} THEN <<c>> \o Shell!RemoveAt(entries, first)
                        ELSE SubSeq(<<c>> \o entries, 1, n)
  BY DEF Shell!Pushed
<1>3. CASE known # {}
  <2>1. PICK k \in known : TRUE
    BY <1>3
  <2>2. k \in 1..Len(entries) /\ \A j \in known : j = k
    BY <1>1, <2>1 DEF HistoryOf, Once
  <2>3. \A j \in known : k <= j
    BY <1>1, <2>2
  <2>4. first \in known
    BY <2>1, <2>3
  <2> HIDE DEF first
  <2>5. first \in 1..Len(entries) /\ entries[first] = c
    BY <1>1, <2>4
  <2>6. Shell!Pushed(c) = <<entries[first]>> \o Shell!RemoveAt(entries, first)
    BY <1>2, <1>3, <2>5
  <2>7. QED
    BY <2>5, <2>6, MovedToTop
<1>4. CASE known = {}
  <2>1. \A i \in 1..Len(entries) : entries[i] # c
    BY <1>1, <1>4
  <2>2. Shell!Pushed(c) = SubSeq(<<c>> \o entries, 1, n)
    BY <1>2, <1>4
  <2>3. QED
    BY <2>1, <2>2, PutOnTop
<1>5. QED
  BY <1>3, <1>4

\* The clipboard's part of the state does not change.
LEMMA ClipSame ==
    ASSUME ClipInv, UNCHANGED Shell!clipVars
    PROVE  ClipInv'
BY DEF ClipInv, Shell!clipVars, HistoryOf, Once

\* Every operation of the shell's popups and panels.
LEMMA ClipHolds ==
    ASSUME ClipInv, [Shell!Next]_panelVars
    PROVE  ClipInv'
<1>1. CASE UNCHANGED panelVars
  BY <1>1, ClipSame DEF panelVars, Shell!clipVars
<1>2. CASE Shell!Notify \/ Shell!PopupTimeout \/ Shell!ClickPopup \/ Shell!EscapeCenter
             \/ \E id \in 1..MaxNotes : Shell!CloseNotification(id)
  BY <1>2, ClipSame DEF Shell!Notify, Shell!PopupTimeout, Shell!ClickPopup,
       Shell!EscapeCenter, Shell!CloseNotification
<1>3. ASSUME NEW c \in Contents \union {Nothing}, Shell!Copy(c) PROVE ClipInv'
  <2>1. /\ clipboard' = c /\ signals' = TRUE
        /\ entries' = entries /\ panel' = panel /\ panelRows' = panelRows
    BY <1>3 DEF Shell!Copy
  <2>2. QED
    BY <2>1 DEF ClipInv, HistoryOf, Once
<1>4. CASE Shell!DataChanged
  <2>1. /\ signals' = FALSE /\ clipboard' = clipboard /\ panel' = panel
        /\ clipboard \in Contents \union {Nothing} /\ HistoryOf(entries)
    BY <1>4 DEF Shell!DataChanged, ClipInv
  <2>2. CASE clipboard = Nothing
    <3>1. entries' = entries /\ panelRows' = panelRows
      BY <1>4, <2>2 DEF Shell!DataChanged
    <3>2. QED
      BY <2>1, <2>2, <3>1 DEF ClipInv, HistoryOf, Once
  <2>3. CASE clipboard # Nothing
    <3>1. clipboard \in Contents
      BY <2>1, <2>3
    <3>2. /\ entries' = Shell!Pushed(clipboard)
          /\ panelRows' = IF panel THEN entries' ELSE panelRows
      BY <1>4, <2>3 DEF Shell!DataChanged
    <3> DEFINE new == Shell!Pushed(clipboard)
    <3>3. HistoryOf(new) /\ Len(new) > 0 /\ new[1] = clipboard
      BY <2>1, <3>1, PushedIs
    <3>4. entries' = new
      BY <3>2
    <3> HIDE DEF new
    <3>5. new \in Seq(Contents) /\ panelRows \in Seq(Contents)
      BY <3>3 DEF ClipInv, HistoryOf
    <3>6. panelRows' \in Seq(Contents) /\ (panel => panelRows' = new)
      BY <3>2, <3>4, <3>5
    <3>7. HistoryOf(entries')
      BY <3>3, <3>4
    <3>8. HistoryOf(entries)'
      BY <3>7 DEF HistoryOf, Once
    <3>9. QED
      BY <2>1, <3>3, <3>4, <3>6, <3>8 DEF ClipInv
  <2>4. QED
    BY <2>2, <2>3
<1>5. CASE Shell!Toggle
  <2>1. /\ panel' = ~panel /\ panelRows' = (IF panel THEN <<>> ELSE entries)
        /\ clipboard' = clipboard /\ signals' = signals /\ entries' = entries
    BY <1>5 DEF Shell!Toggle
  <2>2. entries \in Seq(Contents) /\ panel \in BOOLEAN
    BY DEF ClipInv, HistoryOf
  <2>3. CASE panel
    <3>1. panelRows' = <<>>
      BY <2>1, <2>3
    <3>2. panelRows' \in Seq(Contents)
      BY <3>1
    <3>3. ~panel' /\ panel' \in BOOLEAN
      BY <2>1, <2>3, Zenon
    <3>4. QED
      BY <2>1, <3>2, <3>3 DEF ClipInv, HistoryOf, Once
  <2>4. CASE ~panel
    <3>1. panel' = TRUE /\ panelRows' = entries /\ panelRows' \in Seq(Contents)
      BY <2>1, <2>2, <2>4
    <3>2. QED
      BY <2>1, <3>1 DEF ClipInv, HistoryOf, Once
  <2>5. QED
    BY <2>2, <2>3, <2>4
<1>6. CASE Shell!EscapePanel
  <2>1. /\ panel' = FALSE /\ panelRows' = <<>>
        /\ clipboard' = clipboard /\ signals' = signals /\ entries' = entries
    BY <1>6 DEF Shell!EscapePanel
  <2>2. panelRows' \in Seq(Contents)
    BY <2>1
  <2>3. QED
    BY <2>1, <2>2 DEF ClipInv, HistoryOf, Once
<1>7. ASSUME NEW i \in 1..MaxEntries, Shell!Pick(i) PROVE ClipInv'
  <2>1. /\ i \in DOMAIN panelRows /\ clipboard' = panelRows[i] /\ signals' = TRUE
        /\ panel' = FALSE /\ panelRows' = <<>> /\ entries' = entries
    BY <1>7 DEF Shell!Pick
  <2>2. panelRows' \in Seq(Contents) /\ clipboard' \in Contents
    BY <2>1 DEF ClipInv
  <2>3. QED
    BY <2>1, <2>2 DEF ClipInv, HistoryOf, Once
<1>8. QED
  BY <1>1, <1>2, <1>3, <1>4, <1>5, <1>6, <1>7 DEF Shell!Next

\* The invariant of the clipboard holds in every state of the services.
LEMMA ClipInvHolds == Spec => []ClipInv
<1>1. Init => ClipInv
  <2> SUFFICES ASSUME Init PROVE ClipInv
    OBVIOUS
  <2>1. /\ clipboard = Nothing /\ signals = FALSE /\ entries = <<>>
        /\ panel = FALSE /\ panelRows = <<>>
    BY DEF Init, Shell!Init
  <2>2. entries \in Seq(Contents) /\ panelRows \in Seq(Contents) /\ Len(entries) = 0
    BY <2>1
  <2>3. HistoryOf(entries)
    BY <2>2, ClipboardAssumption DEF HistoryOf, Once, ClipboardAssumption
  <2>4. QED
    BY <2>1, <2>2, <2>3 DEF ClipInv
<1>2. ClipInv /\ [Next]_vars => ClipInv'
  BY ShellAlone, ClipHolds
<1>3. QED
  BY <1>1, <1>2, PTL DEF Spec

\* The positions of a history are those of its list.
LEMMA HistoryIsRight == ClipInv => HistoryFollowsClipboard
<1> SUFFICES ASSUME ClipInv PROVE HistoryFollowsClipboard
  OBVIOUS
<1>1. DOMAIN entries = 1..Len(entries) /\ Len(entries) \in Nat
  BY LenProperties DEF ClipInv, HistoryOf
<1>2. Shell!IsInjective(entries)
  BY <1>1 DEF ClipInv, HistoryOf, Once, Shell!IsInjective
<1>3. ~signals /\ clipboard # Nothing => entries # <<>> /\ entries[1] = clipboard
  BY DEF ClipInv
<1>4. QED
  BY <1>2, <1>3 DEF ClipInv, HistoryOf, HistoryFollowsClipboard, Shell!HistoryFollowsClipboard

\* Whatever is copied, picked again or dropped, and however often the panel is opened, the
\* history lists nothing twice and begins with what the clipboard holds, and an open panel
\* lists the history.
THEOREM HistoryStaysCurrent == Spec => []HistoryFollowsClipboard
BY ClipInvHolds, HistoryIsRight, PTL
==============================================================================
