----------------------------- MODULE TaskPromise ----------------------------
(***************************************************************************)
(* What the scheduler of w10tasks promises of the tasks it starts: each at *)
(* most once in a minute.  Tasks implements it.                            *)
(***************************************************************************)
EXTENDS Naturals

CONSTANT Ids        \* the tasks' numbers

VARIABLES
    started,        \* how often each task was started in the running minute
    minute          \* the wall clock

Init == started = [i \in Ids |-> 0] /\ minute = 0

Start(some) ==
    /\ \A i \in some : started[i] = 0
    /\ started' = [i \in Ids |-> IF i \in some THEN 1 ELSE started[i]]
    /\ UNCHANGED minute

MinutePasses == minute' = minute + 1 /\ started' = [i \in Ids |-> 0]

\* A scheduler that was started anew has forgotten what it ran.
Anew == started' = [i \in Ids |-> 0] /\ UNCHANGED minute

Next == MinutePasses \/ Anew \/ \E some \in SUBSET Ids : Start(some)

Spec == Init /\ [][Next]_<<started, minute>>
=============================================================================
