----------------------------- MODULE ViewerStream -----------------------------
(***************************************************************************)
(* The viewer sessions of adesk-viewer over the backend of adesk-server:   *)
(* the one change signal all sessions wait on, on-demand frames with       *)
(* pacing, and requested frames served beside the session's own loop.      *)
(*                                                                         *)
(* The desktop is a number that grows with every change; a picture is the  *)
(* number it was rendered from, and whether it rendered.                   *)
(***************************************************************************)
EXTENDS Naturals, Sequences, SequencesExt

CONSTANTS
    Viewers,
    Paced,           \* viewers whose connection has a minimum interval between frames
    MaxChanges,      \* bound: changes of the desktop
    MaxMessages      \* bound: messages a viewer sends, besides its bye

VARIABLES
    desk,        \* the desktop
    eventQueued, \* a change event the pump of the backend has not handled
    parked,      \* Notify: the sessions that wait for a change, in order
    permit,      \* Notify: a stored notification
    notified,    \* sessions the signal has woken
    session,     \* per viewer: "hello", "select", "change", "push", "message" or "closed"
    rendering,   \* per viewer: the picture push_frame is about to write, NoPicture before that
    waitsTick,   \* sessions with a change collapsed into `pending`
    rested,      \* sessions whose pacing interval has elapsed since their last frame
    reads,       \* per viewer: request_frames not answered; the first one is in flight
    requested,   \* per viewer: the picture of the request in flight, NoPicture before that
    sent,        \* per viewer: messages it sent
    shown        \* per viewer: the frames and errors written, as [picture, by]

viewerVars == << desk, eventQueued, parked, permit, notified, session, rendering, waitsTick,
                 rested, reads, requested, sent, shown >>

Picture(frame, ok) == [frame |-> frame, ok |-> ok]
NoPicture == Picture(0, FALSE)

ViewerInit ==
    /\ desk = 1 /\ eventQueued = FALSE
    /\ parked = << >> /\ permit = FALSE /\ notified = {}
    /\ session = [v \in Viewers |-> "hello"]
    /\ rendering = [v \in Viewers |-> NoPicture]
    /\ waitsTick = {} /\ rested = Viewers
    /\ reads = [v \in Viewers |-> 0] /\ requested = [v \in Viewers |-> NoPicture]
    /\ sent = [v \in Viewers |-> 0]
    /\ shown = [v \in Viewers |-> << >>]

Select(v)   == session[v] = "select"
GoTo(v, pc) == session' = [session EXCEPT ![v] = pc]

-----------------------------------------------------------------------------
(* ChangeSignal: tokio's Notify, woken with notify_one.                    *)

\* notify_one wakes the session that has waited longest, or leaves a permit.
NotifyOne(waiting) ==
    IF waiting = << >> THEN permit' = TRUE /\ parked' = << >> /\ UNCHANGED notified
    ELSE /\ notified' = notified \cup {Head(waiting)} /\ parked' = Tail(waiting)
         /\ UNCHANGED permit

\* An iteration of the loop waits anew, at the end of the line, and takes a stored permit.
WaitForChange(v) ==
    IF permit THEN permit' = FALSE /\ notified' = notified \cup {v} /\ UNCHANGED parked
    ELSE parked' = Append(parked, v) /\ UNCHANGED << permit, notified >>

\* Another arm of the select wins: a wakeup that was not consumed is passed on.
StopWaiting(v) ==
    IF v \in notified
    THEN IF parked = << >> THEN permit' = TRUE /\ notified' = notified \ {v} /\ UNCHANGED parked
         ELSE /\ notified' = (notified \ {v}) \cup {Head(parked)} /\ parked' = Tail(parked)
              /\ UNCHANGED permit
    ELSE parked' = SelectSeq(parked, LAMBDA u : u /= v) /\ UNCHANGED << permit, notified >>

DesktopChanges ==
    /\ desk <= MaxChanges /\ desk' = desk + 1 /\ eventQueued' = TRUE
    /\ UNCHANGED << parked, permit, notified, session, rendering, waitsTick, rested, reads,
                    requested, sent, shown >>

\* The change pump: a change event, or a lag, notifies the signal.
Pump ==
    /\ eventQueued /\ eventQueued' = FALSE
    /\ NotifyOne(parked)
    /\ UNCHANGED << desk, session, rendering, waitsTick, rested, reads, requested, sent, shown >>

-----------------------------------------------------------------------------
(* One session.                                                            *)

\* The handshake is answered and the loop starts; a later arm starts it again.
Loop(v) ==
    /\ session[v] \in {"hello", "change"} /\ GoTo(v, "select")
    /\ WaitForChange(v)
    /\ UNCHANGED << desk, eventQueued, rendering, waitsTick, rested, reads, requested, sent, shown >>

\* The handshake fails, is refused or times out.
RefuseHello(v) ==
    /\ session[v] = "hello" /\ GoTo(v, "closed")
    /\ UNCHANGED << desk, eventQueued, parked, permit, notified, rendering, waitsTick, rested,
                    reads, requested, sent, shown >>

\* Mutant of Changed: a change that comes too early is skipped.
ChangedOrSkipped(v) ==
    /\ Select(v) /\ v \in notified
    /\ notified' = notified \ {v}
    /\ IF v \in rested THEN GoTo(v, "push") ELSE GoTo(v, "change")
    /\ UNCHANGED << desk, eventQueued, parked, permit, rendering, waitsTick, rested, reads,
                    requested, sent, shown >>

\* The change arm: a frame now if pacing allows, else the change is left pending.
Changed(v) ==
    /\ Select(v) /\ v \in notified
    /\ notified' = notified \ {v}
    /\ IF v \in rested THEN GoTo(v, "push") /\ UNCHANGED waitsTick
       ELSE GoTo(v, "change") /\ waitsTick' = waitsTick \cup {v}
    /\ UNCHANGED << desk, eventQueued, parked, permit, rendering, rested, reads, requested, sent,
                    shown >>

\* The pacing arm.
PacingFires(v) ==
    /\ Select(v) /\ v \in waitsTick /\ v \in rested
    /\ GoTo(v, "push") /\ StopWaiting(v)
    /\ UNCHANGED << desk, eventQueued, rendering, waitsTick, rested, reads, requested, sent, shown >>

\* push_frame awaits the backend, which may fail to render, then writes the frame or an error.
RenderPush(v) ==
    /\ session[v] = "push" /\ rendering[v] = NoPicture
    /\ \E ok \in BOOLEAN : rendering' = [rendering EXCEPT ![v] = Picture(desk, ok)]
    /\ UNCHANGED << desk, eventQueued, parked, permit, notified, session, waitsTick, rested,
                    reads, requested, sent, shown >>

Show(v, picture, by) == shown' = [shown EXCEPT ![v] = Append(@, [picture |-> picture, by |-> by])]

\* Either way the change has been dealt with, and the interval starts anew.
WritePush(v) ==
    /\ session[v] = "push" /\ rendering[v] /= NoPicture
    /\ Show(v, rendering[v], "push")
    /\ rendering' = [rendering EXCEPT ![v] = NoPicture]
    /\ waitsTick' = waitsTick \ {v}
    /\ rested' = IF v \in Paced THEN rested \ {v} ELSE rested
    /\ GoTo(v, "change")
    /\ UNCHANGED << desk, eventQueued, parked, permit, notified, reads, requested, sent >>

\* The read arm: a request_frame is queued; anything else is applied before the loop goes on.
ReadMessage(v) ==
    /\ Select(v) /\ sent[v] < MaxMessages
    /\ sent' = [sent EXCEPT ![v] = @ + 1]
    /\ StopWaiting(v)
    /\ \/ reads' = [reads EXCEPT ![v] = @ + 1] /\ GoTo(v, "change")
       \/ UNCHANGED reads /\ GoTo(v, "message")
    /\ UNCHANGED << desk, eventQueued, rendering, waitsTick, rested, requested, shown >>

FinishMessage(v) ==
    /\ session[v] = "message" /\ GoTo(v, "change")
    /\ UNCHANGED << desk, eventQueued, parked, permit, notified, rendering, waitsTick, rested,
                    reads, requested, sent, shown >>

\* One request at a time is served beside the loop, as far as the loop polls it.
RenderRequested(v) ==
    /\ Select(v) /\ reads[v] > 0 /\ requested[v] = NoPicture
    /\ \E ok \in BOOLEAN : requested' = [requested EXCEPT ![v] = Picture(desk, ok)]
    /\ UNCHANGED << desk, eventQueued, parked, permit, notified, session, rendering, waitsTick,
                    rested, reads, sent, shown >>

WriteRequested(v) ==
    /\ Select(v) /\ requested[v] /= NoPicture
    /\ Show(v, requested[v], "request")
    /\ requested' = [requested EXCEPT ![v] = NoPicture] /\ reads' = [reads EXCEPT ![v] = @ - 1]
    /\ StopWaiting(v) /\ GoTo(v, "change")
    /\ UNCHANGED << desk, eventQueued, rendering, waitsTick, rested, sent >>

\* End of input, bye, a message that does not decode, or a write that fails.
Close(v) ==
    /\ session[v] \in {"select", "push", "message"} /\ GoTo(v, "closed") /\ StopWaiting(v)
    /\ UNCHANGED << desk, eventQueued, rendering, waitsTick, rested, reads, requested, sent, shown >>

IntervalElapses(v) ==
    /\ v \notin rested /\ rested' = rested \cup {v}
    /\ UNCHANGED << desk, eventQueued, parked, permit, notified, session, rendering, waitsTick,
                    reads, requested, sent, shown >>

SessionStep(v) ==
    \/ Loop(v) \/ Changed(v) \/ PacingFires(v) \/ RenderPush(v) \/ WritePush(v)
    \/ FinishMessage(v) \/ RenderRequested(v) \/ WriteRequested(v)

ViewerNext ==
    \/ DesktopChanges \/ Pump
    \/ \E v \in Viewers :
         SessionStep(v) \/ RefuseHello(v) \/ ReadMessage(v) \/ Close(v) \/ IntervalElapses(v)

\* Tokio polls a session that can go on, and its timers fire.
ViewerFairness ==
    /\ WF_viewerVars(Pump)
    /\ \A v \in Viewers : /\ WF_viewerVars(session[v] /= "hello" /\ SessionStep(v))
                          /\ WF_viewerVars(IntervalElapses(v))

ViewerSpec == ViewerInit /\ [][ViewerNext]_viewerVars /\ ViewerFairness

-----------------------------------------------------------------------------
(* Properties.                                                             *)

Attached(v) == session[v] \notin {"hello", "closed"}
HasSeen(v, d) == \E i \in DOMAIN shown[v] : shown[v][i].picture.ok /\ shown[v][i].picture.frame >= d

\* The push of the desktop d, or of a later one, failed, and the viewer was sent the error.
ToldOfFailure(v, d) ==
    \E i \in DOMAIN shown[v] : /\ shown[v][i].by = "push" /\ ~shown[v][i].picture.ok
                               /\ shown[v][i].picture.frame >= d

\* viewer.md:97, a frame per change, and backend.rs:335, changed() resolves when the desktop
\* next changes: each viewer that was attached when the desktop changed catches up with it, or is
\* told that its push failed; the failed push is not tried again before the next change.
EveryViewerSeesTheChange ==
    \A v \in Viewers :
        (Attached(v) /\ eventQueued)
            ~> (session[v] = "closed" \/ HasSeen(v, desk) \/ ToldOfFailure(v, desk))

\* Does not hold, the failed push has used up the change. viewer.md:97: a frame per change.
FailedPushIsRepeated ==
    \A v \in Viewers : (Attached(v) /\ eventQueued) ~> (session[v] = "closed" \/ HasSeen(v, desk))
=============================================================================
