------------------------------ MODULE NetworkPage ------------------------------
(***************************************************************************)
(* The network dialog of the control panel over NetworkManager             *)
(* (NetworkInfo): a look at the network is a sequence of calls to another  *)
(* process, first the active connections and then, device by device, the   *)
(* connection it carries and the address it has.  The network changes      *)
(* between the calls.  The settings build the same page but never show it. *)
(***************************************************************************)
EXTENDS Integers, Sequences

CONSTANTS
    Devices,       \* a sequence, in the order GetDevices gives
    Conns,         \* connections
    None,          \* no connection, no address
    MaxChanges     \* bound on what happens to the network

VARIABLES
    nm,            \* NetworkManager: [up, carries, addressed]
    query,         \* the look in progress: where it is and what it read
    shown,         \* networkStatus_ and networkDetails_: text, and an address per connection
    carried,       \* history: what each device carried since the look began, then in shown
    events

networkVars == <<nm, query, shown, carried, events>>

DeviceSet == {Devices[i] : i \in DOMAIN Devices}
Active    == {nm.carries[d] : d \in DeviceSet} \ {None}

\* The address that device d was given for connection c.
Address(d, c) == <<d, c>>
NoLines == [c \in {} |-> None]
NoQuery == [at |-> "none", text |-> "none", lines |-> NoLines, device |-> 0,
            active |-> None, config |-> None]

Init ==
    /\ nm = [up |-> TRUE, carries |-> [d \in DeviceSet |-> None],
             addressed |-> [d \in DeviceSet |-> FALSE]]
    /\ query = NoQuery /\ carried = {} /\ events = 0
    /\ shown = [text |-> "none", lines |-> NoLines, carried |-> {}]

-----------------------------------------------------------------------------
(* The network.                                                            *)

Carrying == {<<d, nm'.carries[d]>> : d \in DeviceSet}

NetworkStep ==
    /\ events < MaxChanges /\ events' = events + 1
    /\ carried' = IF query.at = "none" THEN carried ELSE carried \union Carrying
    /\ UNCHANGED <<query, shown>>

\* A connection is active on one device at a time.
Activate(d, c) ==
    /\ nm.up /\ c \notin Active
    /\ nm' = [nm EXCEPT !.carries[d] = c, !.addressed[d] = FALSE]
    /\ NetworkStep

Obtain(d) ==
    /\ nm.up /\ nm.carries[d] # None /\ ~nm.addressed[d]
    /\ nm' = [nm EXCEPT !.addressed[d] = TRUE]
    /\ NetworkStep

Deactivate(d) ==
    /\ nm.carries[d] # None
    /\ nm' = [nm EXCEPT !.carries[d] = None, !.addressed[d] = FALSE]
    /\ NetworkStep

ServiceStops ==
    /\ nm.up /\ nm' = [nm EXCEPT !.up = FALSE]
    /\ NetworkStep

-----------------------------------------------------------------------------
(* A look, call by call; a call that fails leaves out what it asked for.   *)

Look(q) == query' = q /\ UNCHANGED <<nm, shown, carried, events>>

Refresh ==
    /\ query.at = "none"
    /\ IF nm.up
       THEN /\ query' = [NoQuery EXCEPT !.at = "connections",
                                        !.text = IF Active # {} THEN "connected" ELSE "not connected"]
            /\ carried' = {<<d, nm.carries[d]>> : d \in DeviceSet}
            /\ UNCHANGED shown
       ELSE /\ shown' = [text |-> "unavailable", lines |-> NoLines, carried |-> {}]
            /\ UNCHANGED <<query, carried>>
    /\ UNCHANGED <<nm, events>>

NextDevice(q) ==
    IF q.device < Len(Devices) THEN [q EXCEPT !.at = "device", !.device = @ + 1,
                                              !.active = None, !.config = None]
    ELSE [q EXCEPT !.at = "done"]

GetConnections ==
    /\ query.at = "connections"
    /\ Look(NextDevice([query EXCEPT !.lines =
                            [c \in IF nm.up THEN Active ELSE {} |-> None]]))

Device == Devices[query.device]

\* Mutant of Match: any connection read.
MatchAny(q, c) == IF DOMAIN q.lines = {} THEN None ELSE CHOOSE x \in DOMAIN q.lines : TRUE

\* Only a device that carries one of the connections read is looked at further.
Match(q, c) == IF c \in DOMAIN q.lines THEN c ELSE None

GetActiveConnection ==
    /\ query.at = "device"
    /\ LET c == IF nm.up THEN Match(query, nm.carries[Device]) ELSE None
       IN  Look(IF c = None THEN NextDevice(query)
                ELSE [query EXCEPT !.at = "config", !.active = c])

GetConfig ==
    /\ query.at = "config"
    /\ Look(IF nm.up /\ nm.addressed[Device]
            THEN [query EXCEPT !.at = "address", !.config = Address(Device, nm.carries[Device])]
            ELSE NextDevice(query))

\* The configuration is gone when its device has left the connection.
GetAddress ==
    /\ query.at = "address"
    /\ Look(NextDevice(
            IF nm.up /\ nm.addressed[Device] /\ query.config = Address(Device, nm.carries[Device])
            THEN [query EXCEPT !.lines[query.active] = query.config]
            ELSE query))

Show ==
    /\ query.at = "done"
    /\ shown' = [text |-> query.text, lines |-> query.lines, carried |-> carried]
    /\ query' = NoQuery /\ carried' = {}
    /\ UNCHANGED <<nm, events>>

Next ==
    \/ \E d \in DeviceSet : \/ \E c \in Conns : Activate(d, c)
                            \/ Obtain(d) \/ Deactivate(d)
    \/ ServiceStops
    \/ Refresh \/ GetConnections \/ GetActiveConnection \/ GetConfig \/ GetAddress \/ Show

Spec == Init /\ [][Next]_networkVars

-----------------------------------------------------------------------------
\* An address shown with a connection is one of a device that carried the
\* connection during the look: the devices are matched by connection, not by
\* their order, whatever connections come, move and go between the calls.
AddressOfItsDevice ==
    \A c \in DOMAIN shown.lines :
        shown.lines[c] # None => <<shown.lines[c][1], c>> \in shown.carried
=============================================================================
