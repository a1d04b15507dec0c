------------------------------ MODULE MCServices ------------------------------
(***************************************************************************)
(* The services around the compositor and the observer. They share no      *)
(* state with each other, so one run explores them side by side: `part` is *)
(* chosen first, and a behaviour is a behaviour of that service alone.     *)
(***************************************************************************)
EXTENDS AgpConnection, InputGate, LaunchFlow, MachineManager, ViewerRecording, ClientTransport,
        AccessibilityIds

CONSTANTS
    Parts,        \* the services explored
    a, b          \* clients, tasks or callers

VARIABLES
    part,
    desk, eventQueued, parked, permit, notified, session, rendering, waitsTick, rested, reads,
    requested, sent, shown

-----------------------------------------------------------------------------
(* The instances: the configuration's, and these.                          *)

RequestsOf(c) == {Ask(op, 0) : op \in {"subscribe", "inspect", "plain", "undecodable"}}
                 \cup {Ask("unsubscribe", 1), Ask("uninspect", 1)}

\* The same connection with two requests in flight.
Streams == INSTANCE AgpConnection WITH InFlight <- 2, MayStop <- FALSE

MethodsOfAll == {Method(name, 1) : name \in {"click", "mouse_down", "mouse_up", "pointer_move"}}
                \cup {Method(name, 2) : name \in {"keypress", "drag", "scroll"}}

\* A launch that fails and two of one application. The windows: two of the second launch, one of
\* them with the class of its application; one of the third launch, which hides its pid, sets its
\* app id late and has a title that names a browser; and a terminal nobody launched, which talks
\* of the editor.
Applications == << "browser", "editor", "editor" >>
Openers      == << 2, 2, 3, None >>
PidsReported == << TRUE, TRUE, FALSE, FALSE >>
AppIds       == << "editor", "bin", None, "terminal" >>
LateAppIds   == << "editor", "bin", "editor", "terminal" >>
Titles       == << None, None, "a browser", "the editor" >>
SameApps     == {<< "editor", "editor" >>, << "browser", "browser" >>}
SameTitles   == {<< "editor", "the editor" >>, << "browser", "a browser" >>}
SameClasses  == {<< "editor", "bin" >>}
SameTexts    == SameApps \cup SameTitles

\* The same with nothing that fails, so that the browser is there and the ledger overflows.
Crowded == INSTANCE LaunchFlow WITH SpawnFails <- {}

\* Two callers of a backend that answers, and of one that may fail and holds one machine.
Flaky == INSTANCE MachineManager WITH MaxMachines <- 1, MayFail <- TRUE

Viewer == INSTANCE ViewerStream WITH
    Viewers <- {a}, Paced <- {a}, MaxChanges <- 2, MaxMessages <- 1

-----------------------------------------------------------------------------
(* Init and Next.                                                          *)

Init ==
    /\ part \in Parts
    /\ AgpInit /\ InputInit /\ LaunchInit /\ MachineInit
    /\ Viewer!ViewerInit /\ RecordingInit /\ TransportInit /\ A11yInit
    /\ part \notin {"input", "gate"} => focused = 1      \* the desktop matters to that service only

viewer == << desk, eventQueued, parked, permit, notified, session, rendering, waitsTick,
    rested, reads, requested, sent, shown >>

\* With or without a shutdown, which meets other kinds of requests.
AgpRuns ==
    /\ AgpNext /\ part \in {"agp", "shutdown"}
    /\ asked'[a] <= 2
    /\ runtime' = "up" \/ part = "shutdown"
    /\ reader'[a].ask.op \in IF part = "agp" THEN {"none", "plain", "subscribe", "inspect",
                                                        "unsubscribe", "uninspect"}
                               ELSE {"none", "undecodable", "plain"}
    /\ UNCHANGED << inputVars, launchVars, machineVars, viewer, recordingVars, transportVars,
                    a11yVars >>

\* An inspection and two requests that may overtake each other, on a connection that stays.
StreamsRun ==
    /\ Streams!AgpNext /\ part = "streams"
    /\ peer'[a] = "on" /\ reader'[a].pc /= "leaving"
    /\ reader'[a].ask.op \in IF asked'[a] <= 1 THEN {"none", "inspect"}
                             ELSE {"subscribe", "unsubscribe", "uninspect"}
    /\ UNCHANGED << inputVars, launchVars, machineVars, viewer, recordingVars, transportVars,
                    a11yVars >>

\* One method of each of two connections, or two methods of one connection.
InputRuns ==
    /\ InputNext /\ part \in {"input", "gate"}
    /\ part = "input" => /\ \A s \in {a, b} : Len(inputs'[s]) <= 1
                         /\ inputs'[b] /= << >> => inputs'[b][1].name \in {"click", "drag"}
    /\ part = "gate" => inputs'[b] = << >>
    /\ UNCHANGED << agpVars, launchVars, machineVars, viewer, recordingVars, transportVars,
                    a11yVars >>

\* Requests that come one after the other, with windows at any time: launches that expire, or an
\* overflowing ledger that is asked in time.
LaunchRuns ==
    /\ \/ /\ part = "launch" /\ LaunchNext
          /\ window'[4] = "none" /\ stage'[2] /= "answered" /\ stage'[3] /= "answered"
          /\ aged' \subseteq expired' /\ expired' \subseteq {2}
       \/ /\ part = "crowded" /\ Crowded!LaunchNext
          /\ window'[1] = "none" /\ window'[2] = "none"
          /\ expired' = {} /\ aged' = {}
    /\ \A l \in {2, 3} : stage'[l] = "idle" \/ stage'[l - 1] \notin {"idle", "numbered", "spawned"}
    /\ UNCHANGED << agpVars, inputVars, machineVars, viewer, recordingVars, transportVars,
                    a11yVars >>

MachineRuns ==
    /\ \/ part = "machine" /\ MachineNext
       \/ part = "flaky" /\ Flaky!MachineNext
    /\ calls'[b] /= << >> => calls'[b].op \in {"create", "remove", "status", "list"}
    /\ UNCHANGED << agpVars, inputVars, launchVars, viewer, recordingVars, transportVars,
                    a11yVars >>

ViewerRuns == part = "viewer" /\ Viewer!ViewerNext
    /\ UNCHANGED << agpVars, inputVars, launchVars, machineVars, recordingVars, transportVars,
                    a11yVars >>

RecordingRuns == part = "recording" /\ RecordingNext
    /\ UNCHANGED << agpVars, inputVars, launchVars, machineVars, viewer, transportVars,
                    a11yVars >>

\* Two calls on a connection without events, or one call and the events that follow it.
TransportRuns ==
    /\ TransportNext /\ part \in {"calls", "events"}
    /\ part = "calls" => eventsSent' = 0 /\ stream'.state = "none"
    /\ part = "events" => lastId' <= 1
    /\ UNCHANGED << agpVars, inputVars, launchVars, machineVars, viewer, recordingVars,
                    a11yVars >>

A11yRuns == part = "a11y" /\ A11yNext
    /\ UNCHANGED << agpVars, inputVars, launchVars, machineVars, viewer, recordingVars,
                    transportVars >>

Next ==
    /\ \/ AgpRuns \/ StreamsRun \/ InputRuns \/ LaunchRuns \/ MachineRuns
       \/ ViewerRuns \/ RecordingRuns \/ TransportRuns \/ A11yRuns
    /\ UNCHANGED part

vars == << part, agpVars, inputVars, launchVars, machineVars, viewer, recordingVars, transportVars,
           a11yVars >>

\* No fair action is enabled in an initial state, so a service that is not the one chosen
\* asks for nothing.
Spec ==
    /\ Init /\ [][Next]_vars
    /\ AgpFairness /\ Viewer!ViewerFairness
    /\ TransportFairness

-----------------------------------------------------------------------------

\* Stated in ViewerStream: every attached viewer is shown every change, or a later desktop, or is
\* told that the push failed.
EveryViewerSeesTheChange == Viewer!EveryViewerSeesTheChange
=============================================================================
