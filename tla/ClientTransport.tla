--------------------------- MODULE ClientTransport ---------------------------
(***************************************************************************)
(* One connection of adesk-client: tasks that call, the pending map, the   *)
(* bounded outbound queue and its writer, the reader that routes answers   *)
(* and events, and the three ways it ends: the reader, the writer or       *)
(* close(). Every lock is a step of its own.                               *)
(***************************************************************************)
EXTENDS Naturals, Sequences

CONSTANTS
    Tasks,         \* tasks that share the client
    OutboxCap,     \* OUTBOUND_QUEUE_CAPACITY
    StreamCap,     \* EVENT_CHANNEL_CAPACITY
    MaxIds,        \* bound: requests with an answer
    MaxSent        \* bound: events the server sends

Closers == {"reader", "writer", "user"}
Unsubscription == 0      \* the line a dropped stream sends; nobody waits for its answer

VARIABLES
    call,       \* per task: [pc, id]
    lastId,     \* next_id, less one
    awaiting,   \* Shared::pending: ids whose sender is in the map
    settled,    \* per id: what its caller finds, "none", "answer" or "dropped"
    outbox,     \* lines for the writer
    open,       \* whether Connection::outbound still holds the sender
    txTask,     \* the writer: "up", "closing" or "gone"
    rxTask,     \* the reader: "up", "closing" or "gone"
    server,     \* requests the server has received, and has not answered
    inbound,    \* frames on their way to the reader
    peerUp,     \* whether the server still holds the connection
    eventsSent,
    closer,     \* per closer: where it is in close_with
    ended,      \* Shared::closed
    fanout,     \* whether EventFanout takes subscribers
    shutdown,   \* whether the reader was told to stop
    stream      \* the event stream of one subscription

transportVars == << call, lastId, awaiting, settled, outbox, open, txTask, rxTask, server,
                    inbound, peerUp, eventsSent, closer, ended, fanout, shutdown, stream >>

NoStream == [state |-> "none", buffer |-> << >>, skipped |-> 0, polling |-> FALSE,
             offered |-> 0, got |-> 0, lagged |-> 0]

TransportInit ==
    /\ call = [t \in Tasks |-> [pc |-> "idle", id |-> 0]]
    /\ lastId = 0 /\ awaiting = {} /\ settled = [i \in 1..MaxIds |-> "none"]
    /\ outbox = << >> /\ open = TRUE /\ txTask = "up" /\ rxTask = "up"
    /\ server = {} /\ inbound = << >> /\ peerUp = TRUE /\ eventsSent = 0
    /\ closer = [k \in Closers |-> "none"]
    /\ ended = FALSE /\ fanout = TRUE /\ shutdown = FALSE /\ stream = NoStream

-----------------------------------------------------------------------------
(* Connection::request.                                                    *)

At(t, pc) == call[t].pc = pc
Move(t, pc) == call' = [call EXCEPT ![t].pc = pc]

BeginCall(t) ==
    /\ At(t, "idle") /\ ~ended /\ lastId < MaxIds
    /\ lastId' = lastId + 1
    /\ call' = [call EXCEPT ![t] = [pc |-> "encoded", id |-> lastId']]
    /\ UNCHANGED << awaiting, outbox, stream >>

RegisterCall(t) ==
    /\ At(t, "encoded") /\ Move(t, "registered")
    /\ awaiting' = awaiting \cup {call[t].id}
    /\ UNCHANGED << lastId, outbox, stream >>

\* The line is tried, never awaited: a full queue and a closed one fail the request.
Accepts == open /\ txTask /= "gone" /\ Len(outbox) < OutboxCap

Enqueue(t) ==
    /\ At(t, "registered")
    /\ IF Accepts THEN outbox' = Append(outbox, call[t].id) /\ Move(t, "enqueued")
       ELSE Move(t, "refused") /\ UNCHANGED outbox
    /\ UNCHANGED << lastId, awaiting, stream >>

Unregister(t) ==
    /\ At(t, "refused") /\ Move(t, "idle")
    /\ awaiting' = awaiting \ {call[t].id}
    /\ UNCHANGED << lastId, outbox, stream >>

\* Mutant of GivesUp: the flag is not looked at again.
NeverGivesUp(t) == FALSE

\* The second look at the flag: a connection that ended after the first one fails the call,
\* unless someone else has already taken its sender.
GivesUp(t) == ended /\ call[t].id \in awaiting

LookAgain(t) ==
    /\ At(t, "enqueued")
    /\ Move(t, IF GivesUp(t) THEN "idle" ELSE "waiting")
    /\ awaiting' = IF GivesUp(t) THEN awaiting \ {call[t].id} ELSE awaiting
    /\ UNCHANGED << lastId, outbox, stream >>

\* The answer, or the dropped sender. Whoever subscribed goes on to open its stream.
Receive(t) ==
    /\ At(t, "waiting") /\ settled[call[t].id] /= "none"
    /\ \/ Move(t, "idle")
       \/ settled[call[t].id] = "answer" /\ stream.state = "none" /\ Move(t, "subscribed")
    /\ UNCHANGED << lastId, awaiting, outbox, stream >>

\* A caller gives up by itself; its entry stays in the map.
Abandon(t) ==
    /\ At(t, "waiting") /\ Move(t, "idle")
    /\ UNCHANGED << lastId, awaiting, outbox, stream >>

\* EventFanout::subscribe: a stream of an ended connection is born closed.
OpenStream(t) ==
    /\ At(t, "subscribed") /\ Move(t, "idle")
    /\ stream' = IF stream.state = "none"
                 THEN [stream EXCEPT !.state = IF fanout THEN "live" ELSE "ending"] ELSE stream
    /\ UNCHANGED << lastId, awaiting, outbox >>

CallStep(t) ==
    /\ RegisterCall(t) \/ Enqueue(t) \/ Unregister(t) \/ LookAgain(t) \/ Receive(t) \/ OpenStream(t)
    /\ UNCHANGED << settled, open, txTask, rxTask, server, inbound, peerUp, eventsSent, closer,
                    ended, fanout, shutdown >>

CallMove(t) ==
    /\ BeginCall(t) \/ Abandon(t)
    /\ UNCHANGED << settled, open, txTask, rxTask, server, inbound, peerUp, eventsSent, closer,
                    ended, fanout, shutdown >>

-----------------------------------------------------------------------------
(* The stream: EventReceiver::poll_event and Drop.                         *)

\* The count of dropped events is taken first, then the queue is polled. A stream with
\* nothing to find is not polled here: its task would only park.
PollSkipped ==
    /\ stream.state \in {"live", "ending"} /\ ~stream.polling
    /\ stream.buffer /= << >> \/ stream.state = "ending"
    /\ stream' = IF stream.skipped > 0
                 THEN [stream EXCEPT !.lagged = @ + stream.skipped, !.skipped = 0]
                 ELSE [stream EXCEPT !.polling = TRUE]
    /\ UNCHANGED outbox

PollQueue ==
    /\ stream.polling
    /\ stream' = [stream EXCEPT
         !.polling = FALSE,
         !.buffer  = IF stream.buffer = << >> THEN @ ELSE Tail(@),
         !.got     = IF stream.buffer = << >> THEN @ ELSE @ + 1,
         !.state   = IF stream.buffer = << >> /\ @ = "ending" THEN "closed" ELSE @]
    /\ UNCHANGED outbox

\* Dropping a stream cancels its subscription, if the queue has room for the line.
DropStream ==
    /\ stream.state = "live" /\ ~stream.polling
    /\ stream' = [NoStream EXCEPT !.state = "dropped"]
    /\ outbox' = IF ~ended /\ Accepts THEN Append(outbox, Unsubscription) ELSE outbox

StreamStep ==
    /\ PollSkipped \/ PollQueue \/ DropStream
    /\ UNCHANGED << call, lastId, awaiting, settled, open, txTask, rxTask, server, inbound,
                    peerUp, eventsSent, closer, ended, fanout, shutdown >>

-----------------------------------------------------------------------------
(* The two tasks.                                                          *)

\* A write reaches the server, or fails when the peer is gone.
WriteLine ==
    /\ txTask = "up" /\ outbox /= << >>
    /\ outbox' = Tail(outbox)
    /\ IF peerUp
       THEN server' = server \cup {Head(outbox)} /\ UNCHANGED << txTask, closer >>
       ELSE txTask' = "closing" /\ closer' = [closer EXCEPT !["writer"] = "flag"] /\ UNCHANGED server
    /\ UNCHANGED << settled, awaiting, rxTask, inbound, stream >>

WriterEnds ==
    /\ txTask = "up" /\ outbox = << >> /\ ~open
    /\ txTask' = "gone"
    /\ UNCHANGED << settled, awaiting, outbox, server, closer, rxTask, inbound, stream >>

Settle(ids, how) == settled' = [i \in DOMAIN settled |-> IF i \in ids THEN how ELSE settled[i]]

\* Mutant of Offered: a full queue drops the event in silence.
OfferedInSilence(s) ==
    IF Len(s.buffer) < StreamCap
    THEN [s EXCEPT !.offered = @ + 1, !.buffer = Append(@, "event")]
    ELSE [s EXCEPT !.offered = @ + 1]

\* An event for a stream whose queue is full is counted instead.
Offered(s) ==
    IF Len(s.buffer) < StreamCap
    THEN [s EXCEPT !.offered = @ + 1, !.buffer = Append(@, "event")]
    ELSE [s EXCEPT !.offered = @ + 1, !.skipped = @ + 1]

ReadFrame ==
    /\ rxTask = "up" /\ inbound /= << >>
    /\ inbound' = Tail(inbound)
    /\ IF Head(inbound).event
       THEN /\ stream' = IF fanout /\ stream.state = "live" THEN Offered(stream) ELSE stream
            /\ UNCHANGED << awaiting, settled >>
       ELSE /\ awaiting' = awaiting \ {Head(inbound).id}
            /\ Settle({Head(inbound).id} \cap awaiting, "answer")
            /\ UNCHANGED stream
    /\ UNCHANGED << outbox, txTask, server, closer, rxTask >>

\* close(), the end of input, or a next frame that breaks the contract: the peer is still up then.
ReaderLeaves ==
    /\ rxTask = "up" /\ (shutdown \/ ~peerUp \/ inbound = << >>)
    /\ rxTask' = "closing" /\ closer' = [closer EXCEPT !["reader"] = "flag"]
    /\ UNCHANGED << settled, awaiting, outbox, txTask, server, inbound, stream >>

IoStep ==
    /\ WriteLine \/ WriterEnds \/ ReadFrame \/ ReaderLeaves
    /\ UNCHANGED << call, lastId, open, peerUp, eventsSent, ended, fanout, shutdown >>

-----------------------------------------------------------------------------
(* close_with, by whoever notices the end; close() takes the sender before, *)
(* stops the reader after, and waits for both tasks.                        *)

Closing(k, from, to) == closer[k] = from /\ closer' = [closer EXCEPT ![k] = to]

TakeSender ==
    /\ Closing("user", "none", "flag") /\ open' = FALSE
    /\ UNCHANGED << ended, awaiting, settled, fanout, stream, shutdown, outbox, txTask, rxTask >>

SetClosed(k) ==
    /\ Closing(k, "flag", "drain") /\ ended' = TRUE
    /\ UNCHANGED << open, awaiting, settled, fanout, stream, shutdown, outbox, txTask, rxTask >>

DrainPending(k) ==
    /\ Closing(k, "drain", "fanout")
    /\ awaiting' = {} /\ Settle(awaiting, "dropped")
    /\ UNCHANGED << open, ended, fanout, stream, shutdown, outbox, txTask, rxTask >>

CloseFanout(k) ==
    /\ Closing(k, "fanout", IF k = "user" THEN "signal" ELSE "done")
    /\ fanout' = FALSE
    /\ txTask' = IF k = "writer" THEN "gone" ELSE txTask
    /\ rxTask' = IF k = "reader" THEN "gone" ELSE rxTask
    /\ stream' = IF stream.state = "live" THEN [stream EXCEPT !.state = "ending"] ELSE stream
    /\ outbox' = IF k = "writer" THEN << >> ELSE outbox
    /\ UNCHANGED << open, ended, awaiting, settled, shutdown >>

SignalReader ==
    /\ Closing("user", "signal", "joining") /\ shutdown' = TRUE
    /\ UNCHANGED << open, ended, awaiting, settled, fanout, stream, outbox, txTask, rxTask >>

JoinTasks ==
    /\ Closing("user", "joining", "done") /\ rxTask = "gone" /\ txTask = "gone"
    /\ UNCHANGED << open, ended, awaiting, settled, fanout, stream, shutdown, outbox, txTask, rxTask >>

CloseStep(k) ==
    /\ SetClosed(k) \/ DrainPending(k) \/ CloseFanout(k) \/ (k = "user" /\ (SignalReader \/ JoinTasks))
    /\ UNCHANGED << call, lastId, server, inbound, peerUp, eventsSent >>

UserCloses ==
    /\ TakeSender
    /\ UNCHANGED << call, lastId, server, inbound, peerUp, eventsSent >>

-----------------------------------------------------------------------------
(* The server.                                                             *)

Frame(id, event) == [id |-> id, event |-> event]

\* Events follow an answer: the connection must have subscribed.
Answered == \/ \E i \in DOMAIN settled : settled[i] = "answer"
            \/ \E i \in DOMAIN inbound : ~inbound[i].event

ServerMoves ==
    /\ peerUp
    /\ \/ \E id \in server : /\ inbound' = Append(inbound, Frame(id, FALSE))
                             /\ server' = server \ {id} /\ UNCHANGED << peerUp, eventsSent >>
       \/ /\ Answered /\ inbound = << >> /\ eventsSent < MaxSent /\ eventsSent' = eventsSent + 1
          /\ inbound' = Append(inbound, Frame(0, TRUE)) /\ UNCHANGED << peerUp, server >>
       \/ peerUp' = FALSE /\ UNCHANGED << server, inbound, eventsSent >>
    /\ UNCHANGED << call, lastId, awaiting, settled, outbox, open, txTask, rxTask, closer,
                    ended, fanout, shutdown, stream >>

TransportNext ==
    \/ \E t \in Tasks : CallStep(t) \/ CallMove(t)
    \/ StreamStep \/ IoStep \/ UserCloses \/ ServerMoves
    \/ \E k \in Closers : CloseStep(k)

\* A task that can go on is polled; the socket and the server promise nothing.
TransportFairness ==
    /\ \A t \in Tasks : WF_transportVars(CallStep(t))
    /\ \A k \in Closers : WF_transportVars(CloseStep(k))

TransportSpec == TransportInit /\ [][TransportNext]_transportVars /\ TransportFairness

-----------------------------------------------------------------------------
(* Properties.                                                             *)

\* No caller hangs on a connection that ended, whoever ended it and wherever in the request
\* the caller was (transport.rs:458).
CallsReturnOnceClosed ==
    \A t \in Tasks : (ended /\ ~At(t, "idle")) ~> At(t, "idle")

\* A stream that has told its reader that it is closed has handed it every event decoded since
\* it was opened, or counted it in a Lagged (transport.rs:46).
StreamAccountsForEveryEvent ==
    stream.state = "closed" => stream.got + stream.lagged = stream.offered
=============================================================================
