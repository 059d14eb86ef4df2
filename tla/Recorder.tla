------------------------------ MODULE Recorder ------------------------------
(***************************************************************************)
(* The sound recorder w10recorder: its engine (class RecorderEngine), a    *)
(* single thread that iterates the PulseAudio loop from a timer, and its   *)
(* window.  The engine holds at most one recording and one playing stream; *)
(* the library keeps a stream the engine dropped until the service ended   *)
(* it, and calls back in the meantime.                                     *)
(*                                                                         *)
(* The library, external: a stream is disconnected only when it is ready   *)
(* (before that the call fails), and when a context dies its state         *)
(* callback runs before those of its streams.  Sound is left out: a buffer *)
(* is empty or not.                                                        *)
(***************************************************************************)
EXTENDS Naturals, FiniteSets

CONSTANTS
    Streams,       \* bound on the streams the library knows of at once
    MaxFiles,      \* bound on the recordings on the disk
    NoStream

VARIABLES
    context,       \* "new", "connecting", "ready", "failed", "terminated"
    connecting,    \* impl_->connecting
    connectTimer,  \* impl_->connectTimer is active
    streams,       \* [kind, state] of each: "none", "creating", "ready", "closing", "dead"
    recordStream, playStream, drainOp,     \* impl_'s pointers; drainOp by its stream
    draining,      \* the streams with a drain that will call back
    playBytes,     \* impl_->playPcmBytes # 0
    buffered,      \* impl_->recordBuffer is not empty
    files,         \* how many recordings the directory holds
    window         \* what RecorderWindow shows

engineVars == <<context, connecting, connectTimer, streams, recordStream, playStream,
                drainOp, draining, playBytes, buffered>>
recorderVars == <<context, connecting, connectTimer, streams, recordStream, playStream,
                  drainOp, draining, playBytes, buffered, files, window>>

(* One step works on a record of all of it.                                *)

Recorder ==
    [context |-> context, connecting |-> connecting, connectTimer |-> connectTimer,
     streams |-> streams, recordStream |-> recordStream, playStream |-> playStream,
     drainOp |-> drainOp, draining |-> draining, playBytes |-> playBytes,
     buffered |-> buffered, files |-> files, window |-> window]

Becomes(e) ==
    /\ context' = e.context /\ connecting' = e.connecting /\ connectTimer' = e.connectTimer
    /\ streams' = [s \in Streams |->
           IF e.streams[s].state = "dead" /\ s \notin {e.recordStream, e.playStream}
           THEN [kind |-> "none", state |-> "none"] ELSE e.streams[s]]
    /\ recordStream' = e.recordStream /\ playStream' = e.playStream
    /\ drainOp' = e.drainOp /\ draining' = e.draining
    /\ playBytes' = e.playBytes /\ buffered' = e.buffered
    /\ files' = e.files /\ window' = e.window

-----------------------------------------------------------------------------
(* The window's answers to the engine's signals.                           *)

UpdateUiState(e) ==
    LET recording == e.recordStream # NoStream
        playing   == e.playStream # NoStream
    IN [e EXCEPT !.window.recording = recording,
                 !.window.stop = playing,
                 !.window.play = e.context = "ready" /\ ~recording /\ e.window.selected /\ ~playing,
                 !.window.delete = e.window.selected /\ ~recording]

RecordingStarted(e) == UpdateUiState([e EXCEPT !.window.tick = TRUE])

\* refreshList: a list that was rebuilt has no selection.
RefreshList(e) == UpdateUiState([e EXCEPT !.window.rows = e.files, !.window.selected = FALSE])

RecordingSaved(e) == RefreshList([e EXCEPT !.window.tick = FALSE])

\* An error only changes two labels.
Error(e) == e

-----------------------------------------------------------------------------
(* Streams.                                                                *)

\* pa_stream_disconnect.
Disconnect(e, s) ==
    IF e.streams[s].state # "ready" THEN e
    ELSE [e EXCEPT !.streams[s].state = "closing", !.draining = @ \ {s}]

CancelDrain(e) == [e EXCEPT !.drainOp = NoStream, !.draining = @ \ {e.drainOp}]

ReleasePlay(e) == [CancelDrain(e) EXCEPT !.playStream = NoStream, !.playBytes = FALSE]
ReleaseRecord(e) == [e EXCEPT !.recordStream = NoStream, !.buffered = FALSE]

StopPlayback(e) ==
    IF e.playStream = NoStream THEN e
    ELSE UpdateUiState(ReleasePlay(Disconnect(CancelDrain(e), e.playStream)))

\* The file is written at once; the recording is lost when that fails.
StopRecording(e, written) ==
    IF e.recordStream = NoStream THEN e
    ELSE LET stopped == ReleaseRecord(Disconnect(e, e.recordStream))
         IN IF written THEN RecordingSaved([stopped EXCEPT !.files = @ + 1])
                       ELSE Error(stopped)

\* pa_stream_new and connect: an error when the library refuses.
NewStream(e, kind, s) == [e EXCEPT !.streams[s] = [kind |-> kind, state |-> "creating"]]
Unused(e) == {s \in Streams : e.streams[s].state = "none"}

EnsureContext(e) ==
    IF e.context = "ready" \/ e.connecting THEN e
    ELSE [e EXCEPT !.context = "connecting", !.connecting = TRUE, !.connectTimer = TRUE]

StartRecording(e) ==
    IF e.context # "ready" THEN {Error(EnsureContext(e))}
    ELSE IF e.recordStream # NoStream THEN {e}
    ELSE LET quiet == StopPlayback(e)
         IN {Error(quiet)} \union
            {[NewStream(quiet, "record", s) EXCEPT !.recordStream = s, !.buffered = FALSE] :
               s \in Unused(quiet)}

\* A file that is no WAV, or whose stream the library refuses, is an error.
PlayWav(e) ==
    IF e.context # "ready" THEN {Error(EnsureContext(e))}
    ELSE LET quiet == StopPlayback(e)
         IN {Error(quiet)} \union
            {UpdateUiState([NewStream(quiet, "play", s) EXCEPT
                                !.playStream = s, !.playBytes = TRUE]) : s \in Unused(quiet)}

-----------------------------------------------------------------------------
(* The library's callbacks, run from pump().                               *)

\* onRecordStreamState(READY) and onRecordRead.
RecordReady(s) ==
    /\ streams[s] = [kind |-> "record", state |-> "creating"]
    /\ Becomes(RecordingStarted([Recorder EXCEPT !.streams[s].state = "ready"]))

OnRecordRead(s) ==
    /\ streams[s] = [kind |-> "record", state |-> "ready"]
    /\ Becomes([Recorder EXCEPT !.buffered = TRUE])

\* Mutant of OnPlayReady: a write that fails leaves the stream as it is.
OnPlayReadyKept(s) ==
    /\ streams[s] = [kind |-> "play", state |-> "creating"]
    /\ LET e == [Recorder EXCEPT !.streams[s].state = "ready"]
       IN \/ ~playBytes /\ Becomes(Disconnect(e, s))
          \/ playBytes /\ Becomes([e EXCEPT !.playBytes = FALSE])
          \/ playBytes /\ Becomes([e EXCEPT !.drainOp = s, !.draining = @ \union {s}])

\* onPlayState(READY): nothing to play, a failed write, or written and drained.
OnPlayReady(s) ==
    /\ streams[s] = [kind |-> "play", state |-> "creating"]
    /\ LET e == [Recorder EXCEPT !.streams[s].state = "ready"]
       IN \/ ~playBytes /\ Becomes(Disconnect(e, s))
          \/ playBytes /\ Becomes(Disconnect([e EXCEPT !.playBytes = FALSE], s))
          \/ playBytes /\ Becomes([e EXCEPT !.drainOp = s, !.draining = @ \union {s}])

OnDrain(s) ==
    /\ s \in draining
    /\ LET e == [Recorder EXCEPT !.drainOp = NoStream, !.draining = @ \ {s}]
       IN Becomes(IF playStream # s THEN e ELSE UpdateUiState(ReleasePlay(Disconnect(e, s))))

\* onRecordStreamState and onPlayState (FAILED, TERMINATED): the pointer of the
\* stream that ended is reset, one of another stream is left alone.
StreamEnded(e, s) ==
    LET dead == [e EXCEPT !.streams[s].state = "dead", !.draining = @ \ {s}]
    IN IF s = e.recordStream THEN Error(ReleaseRecord(dead))
       ELSE IF s = e.playStream THEN UpdateUiState(ReleasePlay(dead))
       ELSE dead

\* The service refuses a stream, ends it (its device is gone), or answers a
\* disconnect.
StreamEnds(s) ==
    /\ streams[s].state \in {"creating", "ready", "closing"}
    /\ Becomes(StreamEnded(Recorder, s))

ContextReady ==
    /\ context = "connecting"
    /\ Becomes(UpdateUiState([Recorder EXCEPT
           !.context = "ready", !.connecting = FALSE, !.connectTimer = FALSE]))

\* onContextState(FAILED, TERMINATED) releases both streams, then the library
\* ends every stream of the context; nobody is told that they stopped.
ContextEnds(how) ==
    Becomes([ReleaseRecord(ReleasePlay(Recorder)) EXCEPT
                 !.context = how, !.connecting = FALSE, !.connectTimer = FALSE,
                 !.draining = {},
                 !.streams = [s \in Streams |-> [kind |-> "none", state |-> "none"]]])

ServiceLost == context \in {"connecting", "ready"} /\ ContextEnds("failed")

\* The connect timer disconnects a context that never became ready.
ConnectTimeout == connectTimer /\ ContextEnds("terminated")

-----------------------------------------------------------------------------
(* The user.                                                               *)

Init ==
    /\ context = "connecting" /\ connecting = TRUE /\ connectTimer = TRUE
    /\ streams = [s \in Streams |-> [kind |-> "none", state |-> "none"]]
    /\ recordStream = NoStream /\ playStream = NoStream /\ drainOp = NoStream
    /\ draining = {} /\ playBytes = FALSE /\ buffered = FALSE
    /\ files \in 0..1
    /\ window = [recording |-> FALSE, stop |-> FALSE, play |-> FALSE, delete |-> FALSE,
                 tick |-> FALSE, rows |-> files, selected |-> FALSE]

OnRecordButton ==
    IF recordStream # NoStream
    THEN \E written \in BOOLEAN :
           (written => files < MaxFiles) /\ Becomes(StopRecording(Recorder, written))
    ELSE \E e \in StartRecording(Recorder) : Becomes(e)

\* By the button or by a double click, which the button's state does not stop.
OnPlaySelected ==
    /\ window.selected /\ recordStream = NoStream
    /\ \E e \in PlayWav(Recorder) : Becomes(e)

OnStopPlayback == window.stop /\ Becomes(StopPlayback(Recorder))

OnDeleteSelected ==
    /\ window.delete /\ window.selected
    /\ Becomes(RefreshList([StopPlayback(Recorder) EXCEPT
                                !.files = IF @ > 0 THEN @ - 1 ELSE 0]))

OnRefreshList == Becomes(RefreshList(Recorder))

SelectRow == window.rows > 0 /\ Becomes([Recorder EXCEPT !.window.selected = TRUE])

Callback(s) ==
    \/ RecordReady(s) \/ OnRecordRead(s) \/ OnPlayReady(s) \/ OnDrain(s) \/ StreamEnds(s)

Next ==
    \/ OnRecordButton \/ OnPlaySelected \/ OnStopPlayback \/ OnDeleteSelected
    \/ OnRefreshList \/ SelectRow
    \/ ContextReady \/ ServiceLost \/ ConnectTimeout
    \/ \E s \in Streams : Callback(s)

\* The service makes or refuses a stream, plays what was written and answers.
Progress(s) ==
    OnPlayReady(s) \/ OnDrain(s) \/ (StreamEnds(s) /\ streams[s].state = "closing")

Fairness == \A s \in Streams : WF_recorderVars(Progress(s))
Spec     == Init /\ [][Next]_recorderVars /\ Fairness

-----------------------------------------------------------------------------

\* Playing a recording comes to an end without the user: the stream is released
\* whether it was drained, could not be written, was ended by the service or
\* lost its context, and a stopped one's late callbacks do not keep the next
\* one (recorder.cpp:227, "prevents a dangling impl").
PlaybackEnds == \A s \in Streams : playStream = s ~> playStream # s
=============================================================================
