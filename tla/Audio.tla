------------------------------- MODULE Audio -------------------------------
(***************************************************************************)
(* The audio pages of the settings and of the control program: class       *)
(* AudioInfo, which talks to the audio service through libpulse, and the   *)
(* page that shows the lists of sinks and of application streams.          *)
(*                                                                         *)
(* libpulse's loop has no thread of its own: it turns only while one of    *)
(* the 20 ms drive timers runs that every refresh starts, and so does what *)
(* it sends and receives.  A list is the sinks' (streams') numbers, a      *)
(* volume or mute setting only that it has not been sent.                  *)
(***************************************************************************)
EXTENDS Naturals, Sequences, SequencesExt, Functions

CONSTANTS
    MaxSinks,      \* most sinks the service has
    MaxBatch,      \* answers one turn of the loop can read
    MaxRefreshes   \* bound on the refreshes

Lists == {"sinks", "apps"}

VARIABLES
    audio,         \* AudioInfo, see AudioState
    page,          \* what the page shows
    program,       \* whose page it is: "settings" or "control"
    service,       \* the audio service runs
    refreshes

audioVars == <<audio, page, program, service, refreshes>>

\* AudioInfoImpl; peer: the other end of the connection, "hung" if it is a socket
\* nobody serves; wire: queries not answered; unsent: a setting waits for the loop.
AudioState ==
    [context |-> "unconnected", peer |-> "none", connecting |-> FALSE, connectTimer |-> FALSE,
     wire |-> <<>>, unsent |-> FALSE, queued |-> FALSE,
     drivers |-> [k \in Lists |-> 0], pending |-> [k \in Lists |-> FALSE],
     done |-> [k \in Lists |-> FALSE], buffer |-> [k \in Lists |-> <<>>]]

\* Everything handlers change, passed from call to call.
Now == [audio |-> audio, page |-> page]
Becomes(e) == audio' = e.audio /\ page' = e.page

-----------------------------------------------------------------------------
(* The page's slots.                                                       *)

\* connectionFailed: both controls and rows are taken away, the list stays.
ConnectionFailed(e) ==
    [e EXCEPT !.page.status = "unavailable", !.page.controls = FALSE, !.page.rows = <<>>]

\* onAudioSinksReady: an empty list leaves the controls as they are.
SinksReady(e, list) ==
    IF list = <<>> THEN [e EXCEPT !.page.combo = list, !.page.status = "no devices"]
    ELSE [e EXCEPT !.page.combo = list, !.page.status = "connected", !.page.controls = TRUE]

AppStreamsReady(e, list) == [e EXCEPT !.page.rows = list]

-----------------------------------------------------------------------------
(* AudioInfo.                                                              *)

\* A query is sent; what an earlier one has collected is dropped.
Query(e, k) ==
    [e EXCEPT !.audio.buffer[k] = <<>>, !.audio.pending[k] = TRUE, !.audio.done[k] = FALSE,
              !.audio.wire = Append(@, k)]

\* onContextState, READY: the settings queued before, then both queries.
ContextReady(e) ==
    Query(Query([e EXCEPT !.audio.context = "ready", !.audio.connecting = FALSE,
                          !.audio.connectTimer = FALSE, !.audio.queued = FALSE,
                          !.audio.unsent = @ \/ e.audio.queued], "sinks"), "apps")

\* onContextState, FAILED and TERMINATED: libpulse drops what was under way.
ContextEnds(e, how) ==
    ConnectionFailed([e EXCEPT !.audio.context = how, !.audio.peer = "none",
                               !.audio.connecting = FALSE, !.audio.connectTimer = FALSE,
                               !.audio.pending = [k \in Lists |-> FALSE],
                               !.audio.wire = <<>>, !.audio.unsent = FALSE])

Reached == IF service THEN "up" ELSE "hung"

\* Mutant: a connection that hangs is not given up.
ConnectingUntimed(e) ==
    [e EXCEPT !.audio.context = "connecting", !.audio.peer = Reached, !.audio.connecting = TRUE]

\* The connection was begun, with its timer (startConnectTimer).
Connecting(e) ==
    [e EXCEPT !.audio.context = "connecting", !.audio.peer = Reached,
              !.audio.connecting = TRUE, !.audio.connectTimer = TRUE]

\* ensureContext: without a service the connection is refused at once, or it
\* hangs on a socket nobody serves.
EnsureContext(e) ==
    IF e.audio.context = "ready" \/ e.audio.connecting THEN {e}
    ELSE {Connecting(e)} \union (IF service THEN {} ELSE {ContextEnds(Connecting(e), "failed")})

\* refreshSinks and refreshAppStreams: both start one more drive timer.
RefreshList(e, k) ==
    LET cleared == [e EXCEPT !.audio.buffer[k] = <<>>]
    IN {[f EXCEPT !.audio.drivers[k] = @ + 1] :
           f \in IF e.audio.context = "ready" THEN {Query(cleared, k)} ELSE EnsureContext(cleared)}

\* The answers to a query: the list and its end come in one packet, or an error,
\* which onSinkInfo and onAppStreamInfo take no notice of.  The query number
\* compared there is the number of the latest query, whichever query the answer
\* is for.
Answers(e) ==
    LET k == Head(e.audio.wire)
        read == [e EXCEPT !.audio.wire = Tail(@)]
    IN {read} \union
       {[read EXCEPT !.audio.done[k] = TRUE, !.audio.buffer[k] = @ \o [i \in 1 .. n |-> i]] :
           n \in 0 .. MaxSinks}

\* What a turn of the loop can bring: up to max answers, or the end of the
\* connection, or of the wait for it.
Turned(e, max) ==
    LET answered[i \in 0 .. max] ==
            IF i = 0 THEN {e}
            ELSE UNION {Answers(f) : f \in {g \in answered[i - 1] : g.audio.wire # <<>>}}
    IN IF e.audio.peer = "down" THEN {e, ContextEnds(e, "failed")}
       ELSE IF e.audio.context = "connecting" /\ e.audio.peer = "up" THEN {e, ContextReady(e)}
       ELSE UNION {answered[i] : i \in 0 .. max}

\* The end of runMainloopOnce hands complete lists to the page.
HandOver(e, k) ==
    IF ~(e.audio.pending[k] /\ e.audio.done[k]) THEN e
    ELSE LET f == [e EXCEPT !.audio.pending[k] = FALSE, !.audio.done[k] = FALSE,
                            !.audio.buffer[k] = <<>>]
         IN IF k = "sinks" THEN SinksReady(f, e.audio.buffer[k])
                           ELSE AppStreamsReady(f, e.audio.buffer[k])

\* A turn of the loop sends what waits and reads what came.
RunMainloopOnce(e) ==
    {HandOver(HandOver(f, "sinks"), "apps") :
        f \in Turned([e EXCEPT !.audio.unsent = FALSE], MaxBatch)}

\* A drive timer stops itself when its list is in or there is no connection.
Driven(e, k) ==
    IF \/ ~e.audio.pending[k] /\ ~e.audio.connecting
       \/ e.audio.context \in {"failed", "terminated"}
    THEN [e EXCEPT !.audio.drivers[k] = @ - 1] ELSE e

-----------------------------------------------------------------------------

Init ==
    /\ audio = AudioState
    /\ page = [status |-> "detecting", combo |-> <<>>, controls |-> FALSE, rows |-> <<>>,
               timeout |-> FALSE]
    /\ program \in {"settings", "control"}
    /\ service \in BOOLEAN
    /\ refreshes = 0

\* refreshAudio: only the settings program gives up waiting.
RefreshAudio ==
    /\ refreshes < MaxRefreshes
    /\ refreshes' = refreshes + 1
    /\ LET asked == [Now EXCEPT !.page.status = "detecting",
                                !.page.timeout = (program = "settings")]
       IN \E e \in RefreshList(asked, "sinks") : \E f \in RefreshList(e, "apps") : Becomes(f)
    /\ UNCHANGED <<program, service>>

\* audioTimeoutTimer_.
AudioTimeout ==
    /\ page.timeout
    /\ page' = IF page.status = "detecting"
               THEN [page EXCEPT !.timeout = FALSE, !.status = "unavailable", !.controls = FALSE]
               ELSE [page EXCEPT !.timeout = FALSE]
    /\ UNCHANGED <<audio, program, service, refreshes>>

Tick(k) ==
    /\ audio.drivers[k] > 0
    /\ \E e \in RunMainloopOnce(Now) : Becomes(Driven(e, k))
    /\ UNCHANGED <<program, service, refreshes>>

\* A connection that hangs is ended after 2.5 s.
ConnectTimeout ==
    /\ audio.connectTimer
    /\ Becomes(ContextEnds(Now, "terminated"))
    /\ UNCHANGED <<program, service, refreshes>>

\* A slider is released, a box is ticked: a row is there to say for what.
ApplySetting ==
    /\ (page.controls /\ page.combo # <<>>) \/ page.rows # <<>>
    /\ IF audio.context = "ready" THEN Becomes([Now EXCEPT !.audio.unsent = TRUE])
       ELSE \E e \in EnsureContext([Now EXCEPT !.audio.queued = TRUE]) : Becomes(e)
    /\ UNCHANGED <<program, service, refreshes>>

\* The audio service ends, with the connections it serves, or starts.
ServiceTurns ==
    /\ service' = ~service
    /\ audio' = [audio EXCEPT !.peer = IF @ = "up" THEN "down" ELSE @]
    /\ UNCHANGED <<page, program, refreshes>>

Next ==
    \/ RefreshAudio \/ AudioTimeout \/ ConnectTimeout \/ ApplySetting \/ ServiceTurns
    \/ \E k \in Lists : Tick(k)

\* A turn of the loop that reads some of what came, or notices the end.
Drain(k) ==
    /\ Tick(k)
    /\ audio.wire # <<>> => Len(audio'.wire) < Len(audio.wire)
    /\ audio.peer = "down" => audio'.peer = "none"

\* The timers fire, and the loop reads what has come: a service that runs
\* answers, the end of one that does not is noticed.
Fairness == /\ WF_audioVars(ConnectTimeout) /\ WF_audioVars(AudioTimeout)
            /\ \A k \in Lists : WF_audioVars(Drain(k))

Spec == Init /\ [][Next]_audioVars /\ Fairness

-----------------------------------------------------------------------------

\* The service answered the latest query of k with an error: nothing is on its way.
Refused(k) ==
    audio.context = "ready" /\ audio.pending[k] /\ k \notin ToSet(audio.wire)

\* Every drive timer stops in the end, through refreshes on top of each other,
\* lost connections and one that hangs: none turns the loop every 20 ms for
\* the rest of the program (the comments at audioinfo.cpp:168 and :349), unless
\* the service refuses its query: only a list, or the end of the connection,
\* ends the waiting (:51).
DriversStop ==
    \A k \in Lists : [](audio.drivers[k] > 0 => <>(audio.drivers[k] = 0 \/ Refused(k)))
=============================================================================
