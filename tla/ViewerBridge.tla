----------------------------- MODULE ViewerBridge -----------------------------
(***************************************************************************)
(* The worker of the GUI viewer over one viewer connection: a loop that    *)
(* writes input and never awaits a reply, a requester task that serves     *)
(* request jobs one at a time, and the end of both. Model of               *)
(* adesk-viewer-gui/src/bridge.rs and the recording toggle in front of it. *)
(***************************************************************************)
EXTENDS ViewerClient

CONSTANTS
    Requester,     \* the one caller that calls
    MaxClicks,     \* bound: commands of the user
    MaxTicks       \* bound: ticks of the refresh timer

VARIABLES
    window,    \* whether the GTK window holds the input sender
    clicks,    \* commands for the loop
    clicked,
    shown,     \* RecordControl: whether the toggle says that the runtime records
    loop,      \* "connecting", "select", "aborting", "leaving", "closing" or "over"
    frames,    \* frames in the loop's stream
    jobs,      \* jobs for the requester
    todo,      \* calls left of the job it serves
    flag,      \* its `recording`
    ticks

bridgeVars == << clientVars, window, clicks, clicked, shown, loop, frames, jobs, todo, flag, ticks >>

BridgeInit ==
    /\ ClientInit
    /\ window = TRUE /\ clicks = << >> /\ clicked = 0 /\ shown = FALSE
    /\ loop = "connecting" /\ frames = 0 /\ jobs = << >> /\ todo = << >> /\ flag = FALSE /\ ticks = 0

-----------------------------------------------------------------------------
(* The window.                                                             *)

\* RecordControl::toggle_command.
Toggle == IF shown THEN "stop" ELSE "start"

Click ==
    /\ window /\ clicked < MaxClicks /\ clicked' = clicked + 1
    /\ \E command \in {"input", "launch", "apps", Toggle} : clicks' = Append(clicks, command)
    /\ UNCHANGED << clientVars, window, shown, loop, frames, jobs, todo, flag, ticks >>

CloseWindow ==
    /\ window /\ window' = FALSE
    /\ UNCHANGED << clientVars, clicks, clicked, shown, loop, frames, jobs, todo, flag, ticks >>

-----------------------------------------------------------------------------
(* The loop.                                                               *)

\* The handshake is answered and the first jobs are queued, or connecting fails.
Connect ==
    /\ loop = "connecting"
    /\ \/ loop' = "select" /\ jobs' = << "state", "frame", "status" >>
       \/ loop' = "over" /\ UNCHANGED jobs
    /\ UNCHANGED << clientVars, window, clicks, clicked, shown, frames, todo, flag, ticks >>

\* Input is written at once; what has a reply becomes a job.
RouteCommand ==
    /\ loop = "select" /\ clicks /= << >> /\ clicks' = Tail(clicks)
    /\ IF Head(clicks) = "input"
       THEN /\ toServer' = Append(toServer, [ask |-> "input", id |-> 0]) /\ UNCHANGED jobs
       ELSE jobs' = Append(jobs, Head(clicks)) /\ UNCHANGED toServer
    /\ UNCHANGED << calls, lastId, fifo, slot, down, rx, toClient, up, reads, recording, posts,
                    abandoned, excuses, window, clicked, shown, loop, frames, todo, flag, ticks >>

\* A frame is painted; another active window in it asks for the state.
ShowFrame ==
    /\ loop = "select" /\ frames > 0 /\ frames' = frames - 1
    /\ jobs' = jobs \/ jobs' = Append(jobs, "state")
    /\ UNCHANGED << clientVars, window, clicks, clicked, shown, loop, todo, flag, ticks >>

Tick ==
    /\ loop = "select" /\ ticks < MaxTicks /\ ticks' = ticks + 1
    /\ jobs' = Append(jobs, "tick")
    /\ UNCHANGED << clientVars, window, clicks, clicked, shown, loop, frames, todo, flag >>

\* The input channel or the frame stream is at its end.
LeaveLoop ==
    /\ loop = "select" /\ loop' = "aborting"
    /\ (clicks = << >> /\ ~window) \/ (FramesGone /\ frames = 0)
    /\ UNCHANGED << clientVars, window, clicks, clicked, shown, frames, jobs, todo, flag, ticks >>

\* Mutant of StopRequester: the requester is awaited without being aborted.
AwaitRequester == At(Requester, "idle") /\ todo = << >> /\ jobs = << >> /\ UNCHANGED calls

\* An aborted requester drops its call where it stands.
StopRequester == calls' = [calls EXCEPT ![Requester] = Idle]

Abort ==
    /\ loop = "aborting" /\ loop' = "leaving"
    /\ StopRequester
    /\ jobs' = << >> /\ todo' = << >>
    /\ UNCHANGED << lastId, fifo, slot, down, rx, toServer, toClient, up, reads, recording, posts,
                    abandoned, excuses, window, clicks, clicked, shown, frames, flag, ticks >>

\* close(): a bye, the client's own shutdown, and a bounded wait for the dispatcher.
SayBye ==
    /\ loop = "leaving" /\ loop' = "closing"
    /\ toServer' = Append(toServer, [ask |-> "bye", id |-> 0])
    /\ UNCHANGED << calls, lastId, fifo, slot, down, rx, toClient, up, reads, recording, posts,
                    abandoned, excuses, window, clicks, clicked, shown, frames, jobs, todo, flag, ticks >>

ShutDown ==
    /\ loop = "closing" \/ rx = "closing"
    /\ ShutdownStep
    /\ UNCHANGED << window, clicks, clicked, shown, loop, frames, jobs, todo, flag, ticks >>

\* The dispatcher has ended, or its grace period has.
FinishClose ==
    /\ loop = "closing" /\ down = 4 /\ loop' = "over" /\ rx' = "gone"
    /\ UNCHANGED << calls, lastId, fifo, slot, down, toServer, toClient, up, reads, recording, posts,
                    abandoned, excuses, window, clicks, clicked, shown, frames, jobs, todo, flag, ticks >>

-----------------------------------------------------------------------------
(* The requester.                                                          *)

Running == loop \in {"select", "aborting"}
Between == At(Requester, "idle") /\ todo = << >>

\* A tick refreshes the status only while the requester believes that the runtime records.
TakeJob ==
    /\ Running /\ Between /\ jobs /= << >> /\ jobs' = Tail(jobs)
    /\ todo' = IF Head(jobs) /= "tick" THEN << Head(jobs) >>
               ELSE IF flag THEN << "state", "status" >> ELSE << "state" >>
    /\ UNCHANGED << clientVars, window, clicks, clicked, shown, loop, frames, flag, ticks >>

AboutRecording(ask) == ask \in Controls \cup {"status"}

\* Mutant of FlagAfter: a stop leaves the flag as it was.
FlagAfterStart(ask, ok, rec) == IF ask = "stop" THEN flag ELSE ok /\ rec

\* refresh_recording and emit_recording: the status' flag, and FALSE for every failure.
FlagAfter(ask, ok, rec) == ok /\ rec

\* What follows a call. The window shows a status, and leaves the toggle alone on a failure.
Done(ask, ok, rec) ==
    /\ todo' = IF ask = "launch" /\ ok THEN << "state" >> ELSE Tail(todo)
    /\ flag' = IF AboutRecording(ask) THEN FlagAfter(ask, ok, rec) ELSE flag
    /\ shown' = IF AboutRecording(ask) /\ ok THEN rec ELSE shown

Ask ==
    /\ Running /\ At(Requester, "idle") /\ todo /= << >>
    /\ Begin(Requester, Head(todo))
    /\ IF calls'[Requester] = Idle THEN Done(Head(todo), FALSE, FALSE)
       ELSE UNCHANGED << todo, flag, shown >>
    /\ UNCHANGED << slot, down, rx, toClient, up, reads, recording, posts, abandoned >>

\* A step of the call under way, and what follows when it was the last.
Proceed ==
    /\ Running
    /\ LET call == calls[Requester] IN
         \/ /\ SubscribeErrors(Requester) \/ Send(Requester) \/ TakeEnd(Requester)
            /\ IF calls'[Requester] = Idle THEN Done(call.ask, FALSE, FALSE)
               ELSE UNCHANGED << todo, flag, shown >>
         \/ Register(Requester) /\ UNCHANGED << todo, flag, shown >>
         \/ TakeError(Requester) /\ Done(call.ask, FALSE, FALSE)
         \/ TakeFrame(Requester) /\ Done(call.ask, TRUE, FALSE)
         \/ TakeReply(Requester) /\ Done(call.ask, slot[call.id] /= Dropped, slot[call.id].rec)
    /\ UNCHANGED << slot, down, rx, toClient, up, reads, recording, posts, abandoned >>

RequesterStep ==
    /\ Ask \/ Proceed
    /\ UNCHANGED << window, clicks, clicked, loop, frames, jobs, ticks >>

-----------------------------------------------------------------------------

\* The dispatcher hands every frame to the loop's stream as well.
Receive ==
    /\ loop /= "connecting" /\ Dispatch
    /\ frames' = IF Head(toClient).kind = "frame" /\ ~FramesGone /\ loop = "select"
                 THEN frames + 1 ELSE frames
    /\ UNCHANGED << window, clicks, clicked, shown, loop, jobs, todo, flag, ticks >>

Remote ==
    /\ loop /= "connecting" /\ (Session \/ ReaderEnds)
    /\ UNCHANGED << window, clicks, clicked, shown, loop, frames, jobs, todo, flag, ticks >>

Close == Abort \/ SayBye \/ FinishClose

BridgeNext ==
    \/ Click \/ CloseWindow \/ Connect \/ RouteCommand \/ ShowFrame \/ Tick \/ LeaveLoop \/ Close
    \/ TakeJob \/ RequesterStep \/ ShutDown \/ Receive \/ Remote

\* Connecting is bounded by its timeouts, closing by its grace period, the loop and the dispatcher
\* are polled, and an arm of the select that stays ready is picked in the end. Nothing is asked of
\* the server, the user or the requester.
BridgeFairness ==
    /\ WF_bridgeVars(Connect \/ Close) /\ WF_bridgeVars(RouteCommand) /\ WF_bridgeVars(LeaveLoop)
    /\ WF_bridgeVars(ShutDown) /\ WF_bridgeVars(Receive)

BridgeSpec == BridgeInit /\ [][BridgeNext]_bridgeVars /\ BridgeFairness

-----------------------------------------------------------------------------
(* Properties.                                                             *)

\* bridge.rs:384-386: closing the window ends the session, whatever the requester waits for.
ClosingEndsTheSession == ~window ~> loop = "over"

\* The requester has read the status, no request of its own is under way, the connection lives.
Settled ==
    /\ loop = "select" /\ Between /\ lastId >= 3 /\ up /\ rx = "up" /\ down = 0
    /\ toServer = << >> /\ toClient = << >>

\* Does not hold, a refused start counts as not recording. bridge.rs:451-452: the requester knows
\* whether the runtime records.
FlagFollowsRecording ==
    Settled /\ excuses \subseteq {"refused"} => flag = recording

\* The same for a connection on which no error came, and for the toggle of the window.
KnowsWhetherItRecords ==
    Settled /\ excuses = {} => flag = recording /\ shown = recording
=============================================================================
