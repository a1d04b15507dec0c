---------------------------- MODULE ViewerRecording ----------------------------
(***************************************************************************)
(* Screen recordings: the backend's one active recording, the capture task *)
(* that renders and queues frames, and the recorder thread of              *)
(* adesk-recorder that encodes them. Any viewer may start, stop or query.  *)
(***************************************************************************)
EXTENDS Naturals, Sequences, FiniteSets

CONSTANTS
    Watchers,        \* viewers that use the recording controls, one call at a time
    MaxRecordings,   \* bound: recordings started
    MaxFrames        \* bound: frames captured per recording

Recordings == 1..MaxRecordings

VARIABLES
    active,      \* RecordingState::active, 0 for none
    finished,    \* RecordingState::last, 0 for none
    started,     \* recordings started so far
    capture,     \* per recording: "off", "idle", "rendering", "stopping", "joining", "done"
    stopAsked,   \* recordings whose stop signal was sent
    pushed,      \* per recording: frames queued, the counter status reports
    recorder,    \* per recording: [state, todo, encoded], its thread and channel
    outcome,     \* per recording: the status the capture task resolved with
    stopper,     \* per watcher: the recording whose stop it is in, 0 for none
    stopPc,      \* per watcher: "idle", "taken", "waiting" or "told"
    downward     \* the shutdown token

recordingVars == << active, finished, started, capture, stopAsked, pushed, recorder, outcome,
                    stopper, stopPc, downward >>

NoOutcome == [frames |-> 0, error |-> FALSE, set |-> FALSE]

RecordingInit ==
    /\ active = 0 /\ finished = 0 /\ started = 0
    /\ capture = [r \in Recordings |-> "off"]
    /\ stopAsked = {}
    /\ pushed = [r \in Recordings |-> 0]
    /\ recorder = [r \in Recordings |-> [state |-> "off", todo |-> << >>, encoded |-> 0]]
    /\ outcome = [r \in Recordings |-> NoOutcome]
    /\ stopper = [w \in Watchers |-> 0] /\ stopPc = [w \in Watchers |-> "idle"]
    /\ downward = FALSE

-----------------------------------------------------------------------------
(* The viewer's calls.                                                     *)

\* The whole start is one step under the lock.
StartRecording ==
    /\ active = 0 /\ started < MaxRecordings
    /\ started' = started + 1 /\ active' = started'
    /\ capture' = [capture EXCEPT ![started'] = "idle"]
    /\ recorder' = [recorder EXCEPT ![started'].state = "running"]
    /\ UNCHANGED << finished, stopAsked, pushed, outcome, stopper, stopPc, downward >>

TakeActive(w) ==
    /\ stopPc[w] = "idle" /\ active /= 0
    /\ stopper' = [stopper EXCEPT ![w] = active]
    /\ stopPc' = [stopPc EXCEPT ![w] = "taken"]
    /\ active' = 0
    /\ UNCHANGED << finished, started, capture, stopAsked, pushed, recorder, outcome, downward >>

AskToStop(w) ==
    /\ stopPc[w] = "taken"
    /\ stopPc' = [stopPc EXCEPT ![w] = "waiting"]
    /\ stopAsked' = stopAsked \cup {stopper[w]}
    /\ UNCHANGED << active, finished, started, capture, pushed, recorder, outcome, stopper, downward >>

\* The task is awaited and its status becomes the last one.
TellStatus(w) ==
    /\ stopPc[w] = "waiting" /\ capture[stopper[w]] = "done"
    /\ finished' = stopper[w]
    /\ stopPc' = [stopPc EXCEPT ![w] = "told"]
    /\ UNCHANGED << active, started, capture, stopAsked, pushed, recorder, outcome, stopper, downward >>

NextCall(w) ==
    /\ stopPc[w] = "told"
    /\ stopPc' = [stopPc EXCEPT ![w] = "idle"] /\ stopper' = [stopper EXCEPT ![w] = 0]
    /\ UNCHANGED << active, finished, started, capture, stopAsked, pushed, recorder, outcome, downward >>

\* What recording_status answers: the active recording, else the last one.
ReportsRecording == active /= 0

-----------------------------------------------------------------------------
(* The capture task: shutdown and stop win over a tick.                    *)

CaptureAt(r, pc) == capture' = [capture EXCEPT ![r] = pc]

Tick(r) ==
    /\ capture[r] = "idle" /\ ~downward /\ r \notin stopAsked /\ pushed[r] < MaxFrames
    /\ CaptureAt(r, "rendering")
    /\ UNCHANGED << stopAsked, pushed, recorder, outcome >>

\* The frame is queued, unless the render failed or the recorder's thread is gone.
PushCaptured(r) ==
    /\ capture[r] = "rendering"
    /\ \/ /\ recorder[r].state = "running"
          /\ recorder' = [recorder EXCEPT ![r].todo = Append(@, "frame")]
          /\ pushed' = [pushed EXCEPT ![r] = @ + 1]
          /\ CaptureAt(r, "idle")
       \/ CaptureAt(r, "stopping") /\ UNCHANGED << pushed, recorder >>
    /\ UNCHANGED << stopAsked, outcome >>

LeaveCapture(r) ==
    /\ capture[r] = "idle" /\ (downward \/ r \in stopAsked)
    /\ CaptureAt(r, "stopping")
    /\ UNCHANGED << stopAsked, pushed, recorder, outcome >>

\* Mutant of SendStop: the stop overtakes the queued frames.
StopFirst(todo) == << "stop" >> \o todo

\* RecordingSession::stop: a Stop behind the queued frames, then the thread is joined.
SendStop(todo) == Append(todo, "stop")

StopSession(r) ==
    /\ capture[r] = "stopping" /\ CaptureAt(r, "joining")
    /\ recorder' = [recorder EXCEPT ![r].todo = SendStop(@)]
    /\ UNCHANGED << stopAsked, pushed, outcome >>

Join(r) ==
    /\ capture[r] = "joining" /\ recorder[r].state \in {"finished", "failed"}
    /\ CaptureAt(r, "done")
    /\ outcome' = [outcome EXCEPT ![r] =
           IF recorder[r].state = "finished"
           THEN [frames |-> recorder[r].encoded, error |-> FALSE, set |-> TRUE]
           ELSE [frames |-> pushed[r], error |-> TRUE, set |-> TRUE]]
    /\ UNCHANGED << stopAsked, pushed, recorder >>

\* The recorder's thread: frames in order until a stop or a failure.
Encode(r) ==
    /\ recorder[r].state = "running" /\ recorder[r].todo /= << >>
    /\ LET command == Head(recorder[r].todo)
       IN  \/ recorder' = [recorder EXCEPT ![r].state = "failed"]
           \/ command = "frame" /\ recorder' = [recorder EXCEPT ![r].todo = Tail(@), ![r].encoded = @ + 1]
           \/ command = "stop" /\ recorder' = [recorder EXCEPT ![r].todo = Tail(@), ![r].state = "finished"]
    /\ UNCHANGED << capture, stopAsked, pushed, outcome >>

RuntimeStops ==
    /\ ~downward /\ downward' = TRUE
    /\ UNCHANGED << active, finished, started, capture, stopAsked, pushed, recorder, outcome,
                    stopper, stopPc >>

CaptureStep(r) ==
    /\ Tick(r) \/ PushCaptured(r) \/ LeaveCapture(r) \/ StopSession(r) \/ Join(r) \/ Encode(r)
    /\ UNCHANGED << active, finished, started, stopper, stopPc, downward >>

StopStep(w) == AskToStop(w) \/ TellStatus(w)

RecordingNext ==
    \/ StartRecording \/ RuntimeStops
    \/ \E w \in Watchers : TakeActive(w) \/ StopStep(w) \/ NextCall(w)
    \/ \E r \in Recordings : CaptureStep(r)

RecordingSpec == RecordingInit /\ [][RecordingNext]_recordingVars

-----------------------------------------------------------------------------
(* Properties.                                                             *)

\* A finished recording holds every frame the status counted: what was queued before the stop
\* is flushed (recorder session.rs:110), also when the stop raced a capture.
FinishedFileIsComplete ==
    \A r \in Recordings : outcome[r].set /\ ~outcome[r].error => outcome[r].frames = pushed[r]

\* Does not hold, a capture may end by itself. viewer.md:282: what is reported as recording is a recording that still captures.
StatusReportsLiveCapture ==
    ReportsRecording => capture[active] /= "done"
=============================================================================
