---------------------------- MODULE AgpConnection ----------------------------
(***************************************************************************)
(* The connections of adesk-server: the reader, the request tasks, the     *)
(* bounded outbound queue and its writer, the event and the inspection     *)
(* subscriptions all connections share, and shutdown.                      *)
(*                                                                         *)
(* Every step of a task that runs between two locks or two awaits is an    *)
(* action of its own; what a peer sends is chosen freely from Asks.        *)
(***************************************************************************)
EXTENDS Maps

CONSTANTS
    Connections,
    Asks(_),          \* what a connection may ask for, see Ask below
    QueueCap,         \* OUTBOUND_QUEUE_CAPACITY
    InFlight,         \* MAX_IN_FLIGHT_REQUESTS
    MaxRequests,      \* bound: requests read per connection
    MaxEvents,        \* bound: runtime events fanned out
    MayStop           \* bound: whether the runtime may shut down

Registries == {"event", "inspect"}

\* A request: its operation, and the subscription id unsubscribe_events names. What the peer means
\* to cancel by it, an event subscription or ("uninspect") an inspection, it does not say.
Ask(op, id) == [op |-> op, id |-> id]
Cancelling == {"unsubscribe", "uninspect"}

VARIABLES
    peer,      \* per connection: "on", "half" (it sends no more) or "gone"
    reader,    \* per connection: [pc, ask]
    tasks,     \* request tasks, each holding a permit and a sender
    queue,     \* per connection: the outbound queue
    wire,      \* per connection: the responses and events written
    writer,    \* per connection: whether the writer task still runs
    sinks,     \* connections whose outbound sink is published
    entries,   \* live subscriptions of both registries, and whether remove_connection is past
    nextId,    \* per registry: the next subscription id
    loops,     \* push loops of inspection streams
    asked,     \* per connection: the requests read so far
    emitted,   \* runtime events fanned out so far
    runtime    \* "up", "stopping" once the shutdown token is set, or "gone" with the process

agpVars == << peer, reader, tasks, queue, wire, writer, sinks, entries,
              nextId, loops, asked, emitted, runtime >>

\* The shutdown token.
stopping == runtime /= "up"

NoAsk == Ask("none", 0)

AgpInit ==
    /\ peer = [c \in Connections |-> "on"]
    /\ reader = [c \in Connections |-> [pc |-> "reading", ask |-> NoAsk]]
    /\ tasks = {}
    /\ queue = [c \in Connections |-> << >>]
    /\ wire = [c \in Connections |-> << >>]
    /\ writer = [c \in Connections |-> TRUE]
    /\ sinks = Connections
    /\ entries = {}
    /\ nextId = [r \in Registries |-> 1]
    /\ loops = {}
    /\ asked = [c \in Connections |-> 0]
    /\ emitted = 0
    /\ runtime = "up"

Response(n, ask, result) == [kind |-> "response", n |-> n, ask |-> ask, result |-> result]
EventFrame(id, seq)      == [kind |-> "event", id |-> id, seq |-> seq]
InspectFrame             == [kind |-> "frame"]

\* ConnectionWriter::send: responses wait for capacity, and fail when the writer is gone.
CanSend(c)     == writer[c] => Len(queue[c]) < QueueCap
Sent(c, frame) == IF writer[c] THEN [queue EXCEPT ![c] = Append(@, frame)] ELSE queue

\* try_send: a full queue drops the frame.
TrySent(q, frame) == IF Len(q) < QueueCap THEN Append(q, frame) ELSE q

-----------------------------------------------------------------------------
(* The reader.                                                             *)

GoTo(c, pc) == reader' = [reader EXCEPT ![c].pc = pc]

\* What the peer of c has been told: the answers written, and the id in each.
Told(c, op, id) ==
    \E i \in DOMAIN wire[c] : /\ wire[c][i].kind = "response" /\ wire[c][i].result = "ok"
                             /\ wire[c][i].ask = Ask(op, id)

\* A peer cancels an event or an inspection subscription whose id some answer gave it.
MayAsk(c, ask) ==
    /\ ask.op = "unsubscribe" => Told(c, "subscribe", ask.id)
    /\ ask.op = "uninspect" => Told(c, "inspect", ask.id)

\* A line that names a request: the reader awaits a permit for it, or answers at once when
\* it does not decode.
ReadRequest(c) ==
    /\ reader[c].pc = "reading" /\ ~stopping /\ peer[c] = "on" /\ asked[c] < MaxRequests
    /\ \E ask \in Asks(c) :
         /\ MayAsk(c, ask)
         /\ reader' = [reader EXCEPT ![c] = [pc |-> IF ask.op = "undecodable" THEN "answering"
                                                 ELSE "permit", ask |-> ask]]
    /\ asked' = [asked EXCEPT ![c] = @ + 1]
    /\ UNCHANGED << peer, tasks, queue, wire, writer, sinks, entries, nextId, loops,
                    emitted, runtime >>

\* A line that does not decode but names a request is answered by the reader itself.
AnswerUndecodable(c) ==
    /\ reader[c].pc = "answering" /\ CanSend(c)
    /\ queue' = Sent(c, Response(asked[c], reader[c].ask, "error"))
    /\ GoTo(c, IF writer[c] THEN "reading" ELSE "leaving")
    /\ UNCHANGED << peer, tasks, wire, writer, sinks, entries, nextId, loops, asked,
                    emitted, runtime >>

\* The reader does not look at the shutdown token while it waits for a permit.
SpawnTask(c) ==
    /\ reader[c].pc = "permit"
    /\ Cardinality({t \in tasks : t.conn = c}) < InFlight
    /\ tasks' = tasks \cup {[conn |-> c, n |-> asked[c], ask |-> reader[c].ask,
                             pc |-> "start", result |-> "none"]}
    /\ GoTo(c, "reading")
    /\ UNCHANGED << peer, queue, wire, writer, sinks, entries, nextId, loops, asked,
                    emitted, runtime >>

\* Shutdown, end of input, or a line that is no request at all.
LeaveLoop(c) ==
    /\ reader[c].pc = "reading"
    /\ GoTo(c, "leaving")
    /\ UNCHANGED << peer, tasks, queue, wire, writer, sinks, entries, nextId, loops,
                    asked, emitted, runtime >>

\* Mutant of RemoveConnection: the inspection subscriptions are not removed.
RemoveEventsOnly(c) ==
    \/ /\ reader[c].pc = "leaving"
       /\ entries' = {e \in entries : ~(e.conn = c /\ e.reg = "event")}
       /\ GoTo(c, "inspects") /\ UNCHANGED sinks
    \/ /\ reader[c].pc = "inspects"
       /\ GoTo(c, "sink") /\ UNCHANGED << sinks, entries >>
    \/ /\ reader[c].pc = "sink"
       /\ sinks' = sinks \ {c}
       /\ GoTo(c, "joining") /\ UNCHANGED entries

\* The end of Connection::run: both registries, the sink, the writer.
RemoveConnection(c) ==
    \/ /\ reader[c].pc = "leaving"
       /\ entries' = {e \in entries : ~(e.conn = c /\ e.reg = "event")}
       /\ GoTo(c, "inspects") /\ UNCHANGED sinks
    \/ /\ reader[c].pc = "inspects"
       /\ entries' = {e \in entries : ~(e.conn = c /\ e.reg = "inspect")}
       /\ GoTo(c, "sink") /\ UNCHANGED sinks
    \/ /\ reader[c].pc = "sink"
       /\ sinks' = sinks \ {c}
       /\ GoTo(c, "joining") /\ UNCHANGED entries

Leave(c) ==
    /\ RemoveConnection(c)
    /\ UNCHANGED << peer, tasks, queue, wire, writer, nextId, loops, asked, emitted,
                    runtime >>

Finish(c) ==
    /\ reader[c].pc = "joining" /\ ~writer[c]
    /\ GoTo(c, "done")
    /\ UNCHANGED << peer, tasks, queue, wire, writer, sinks, entries, nextId, loops,
                    asked, emitted, runtime >>

-----------------------------------------------------------------------------
(* The request tasks.                                                      *)

TaskAt(t, pc, result) == (tasks \ {t}) \cup {[t EXCEPT !.pc = pc, !.result = result]}

\* The shutdown token is polled before the handler, every time the task runs.
FailShuttingDown(t) ==
    /\ t.pc \in {"start", "working"} /\ stopping
    /\ tasks' = TaskAt(t, "respond", "shutting_down")
    /\ UNCHANGED << entries, nextId, loops >>

\* Any other handler may await the compositor and the observer before it answers.
Work(t) ==
    /\ ~stopping /\ t.ask.op = "plain"
    /\ \/ t.pc = "start" /\ tasks' = TaskAt(t, "working", "none")
       \/ t.pc = "working" /\ tasks' = TaskAt(t, "respond", "ok")
    /\ UNCHANGED << entries, nextId, loops >>

\* subscribe_events and inspect_subscribe fetch the sink and register in one poll, under
\* two locks.
FetchSink(t) ==
    /\ t.pc = "start" /\ ~stopping /\ t.ask.op \in {"subscribe", "inspect"}
    /\ tasks' = IF t.conn \in sinks THEN TaskAt(t, "register", "none")
                ELSE TaskAt(t, "respond", "error")
    /\ UNCHANGED << entries, nextId, loops >>

RegistryOf(t) == IF t.ask.op = "inspect" THEN "inspect" ELSE "event"

\* The registry has been cleared of the connection's subscriptions already.
TooLate(c, r) ==
    reader[c].pc \in {"sink", "joining"} \cup (IF r = "event" THEN {"inspects"} ELSE {})

Register(t) ==
    /\ t.pc = "register"
    /\ LET r == RegistryOf(t)
       IN  /\ entries' = entries \cup {[reg |-> r, id |-> nextId[r], conn |-> t.conn,
                                          late |-> TooLate(t.conn, r)]}
           /\ nextId' = [nextId EXCEPT ![r] = @ + 1]
           /\ loops' = IF r = "event" THEN loops
                       ELSE loops \cup {[id |-> nextId[r], conn |-> t.conn, pc |-> "check"]}
    /\ tasks' = TaskAt([t EXCEPT !.ask.id = nextId[RegistryOf(t)]], "respond", "ok") \ {t}

\* Mutant of WithoutId: only the inspection registry is consulted.
WithoutStream(id) == {e \in entries : e.reg = "event" \/ e.id /= id}

\* unsubscribe_events consults both registries, whoever owns the entry and whichever of
\* the two the peer meant.
WithoutId(id) == {e \in entries : e.id /= id}

Unsubscribe(t) ==
    /\ t.pc = "start" /\ ~stopping /\ t.ask.op \in Cancelling
    /\ entries' = WithoutId(t.ask.id)
    /\ tasks' = TaskAt(t, "respond", "ok")
    /\ UNCHANGED << nextId, loops >>

Handle(t) ==
    /\ FailShuttingDown(t) \/ Work(t) \/ FetchSink(t) \/ Register(t) \/ Unsubscribe(t)
    /\ UNCHANGED << peer, reader, queue, wire, writer, sinks, asked, emitted, runtime >>

\* Mutant of Respond: a response is tried as an event is, and a full queue drops it.
RespondOrDrop(t) ==
    /\ t.pc = "respond"
    /\ queue' = [queue EXCEPT ![t.conn] = IF writer[t.conn] THEN TrySent(@, Response(t.n, t.ask, t.result))
                                          ELSE @]
    /\ tasks' = tasks \ {t}
    /\ UNCHANGED << peer, reader, wire, writer, sinks, entries, nextId, loops, asked,
                    emitted, runtime >>

Respond(t) ==
    /\ t.pc = "respond" /\ CanSend(t.conn)
    /\ queue' = Sent(t.conn, Response(t.n, t.ask, t.result))
    /\ tasks' = tasks \ {t}
    /\ UNCHANGED << peer, reader, wire, writer, sinks, entries, nextId, loops, asked,
                    emitted, runtime >>

-----------------------------------------------------------------------------
(* The writer.                                                             *)

HasSender(c) ==
    \/ reader[c].pc \notin {"joining", "done"} \/ c \in sinks
    \/ \E x \in tasks \cup entries \cup loops : x.conn = c

\* What the model keeps of what was written: the frames of inspections carry nothing.
Recorded(frames) == Sublist(frames, {i \in 1..Len(frames) : frames[i].kind /= "frame"})

\* One turn of write_loop: everything queued goes into one write. A peer that is gone fails
\* it, and the queue closes with what is in it.
WriteBatch(c) ==
    /\ writer[c] /\ queue[c] /= << >>
    /\ queue' = [queue EXCEPT ![c] = << >>]
    /\ IF peer[c] = "gone"
       THEN writer' = [writer EXCEPT ![c] = FALSE] /\ UNCHANGED wire
       ELSE /\ wire' = [wire EXCEPT ![c] = @ \o Recorded(queue[c])]
            /\ UNCHANGED writer
    /\ UNCHANGED << peer, reader, tasks, sinks, entries, nextId, loops, asked, emitted, runtime >>

EndWriter(c) ==
    /\ writer[c] /\ queue[c] = << >> /\ ~HasSender(c)
    /\ writer' = [writer EXCEPT ![c] = FALSE]
    /\ UNCHANGED << peer, reader, tasks, queue, wire, sinks, entries, nextId, loops,
                    asked, emitted, runtime >>

-----------------------------------------------------------------------------
(* Subscriptions.                                                          *)

\* The numbers of S from the smallest on.
Ascending(S) ==
    [k \in 1..Cardinality(S) |-> CHOOSE i \in S : Cardinality({j \in S : j < i}) = k - 1]

\* The frames one event puts into the queue of c, in registry order, as far as they fit.
Delivered(c, seq) ==
    LET ids  == {e.id : e \in {x \in entries : x.reg = "event" /\ x.conn = c}}
        fits == {id \in ids : Cardinality({x \in ids : x < id}) + Len(queue[c]) < QueueCap}
    IN  queue[c] \o [k \in 1..Cardinality(fits) |-> EventFrame(Ascending(fits)[k], seq)]

\* The pump holds the registry's lock: every matching entry is tried, closed ones forgotten.
FanOut ==
    /\ emitted < MaxEvents
    /\ emitted' = emitted + 1
    /\ queue' = [c \in Connections |-> IF writer[c] THEN Delivered(c, emitted + 1) ELSE queue[c]]
    /\ entries' = {e \in entries : e.reg = "inspect" \/ writer[e.conn]}
    /\ UNCHANGED << peer, reader, tasks, wire, writer, sinks, nextId, loops, asked, runtime >>

Alive(l) == \E e \in entries : e.reg = "inspect" /\ e.id = l.id

LoopAt(l, pc) == (loops \ {l}) \cup {[l EXCEPT !.pc = pc]}

CheckStream(l) ==
    /\ l.pc = "check"
    /\ loops' = LoopAt(l, IF writer[l.conn] /\ Alive(l) THEN "render" ELSE "leave")
    /\ UNCHANGED << entries, queue >>

\* Rendering awaits the compositor; during shutdown it fails.
PushFrame(l) ==
    /\ l.pc = "render"
    /\ \/ /\ stopping \/ ~writer[l.conn]
          /\ loops' = LoopAt(l, "leave") /\ UNCHANGED queue
       \/ /\ writer[l.conn]
          /\ loops' = LoopAt(l, "check")
          /\ queue' = [queue EXCEPT ![l.conn] = TrySent(@, InspectFrame)]
    /\ UNCHANGED entries

\* However it ended, the loop takes its own entry with it.
LeaveStream(l) ==
    /\ l.pc = "leave"
    /\ loops' = loops \ {l}
    /\ entries' = {e \in entries : ~(e.reg = "inspect" /\ e.id = l.id)}
    /\ UNCHANGED queue

LoopRuns(l) ==
    /\ CheckStream(l) \/ PushFrame(l) \/ LeaveStream(l)
    /\ UNCHANGED << peer, reader, tasks, wire, writer, sinks, nextId, asked, emitted,
                    runtime >>

\* prune_inspect_streams: the pump drops the streams whose sink is closed.
PruneClosed ==
    /\ entries' = {e \in entries : e.reg = "event" \/ writer[e.conn]}
    /\ entries' /= entries
    /\ UNCHANGED << peer, reader, tasks, queue, wire, writer, sinks, nextId, loops,
                    asked, emitted, runtime >>

-----------------------------------------------------------------------------
(* The environment.                                                        *)

PeerCloses(c) ==
    /\ \/ peer[c] = "on" /\ peer' = [peer EXCEPT ![c] = "half"]
       \/ peer[c] /= "gone" /\ peer' = [peer EXCEPT ![c] = "gone"]
    /\ UNCHANGED << reader, tasks, queue, wire, writer, sinks, entries, nextId, loops,
                    asked, emitted, runtime >>

Shutdown ==
    /\ MayStop /\ ~stopping /\ runtime' = "stopping"
    /\ UNCHANGED << peer, reader, tasks, queue, wire, writer, sinks, entries, nextId,
                    loops, asked, emitted >>

\* Shutdown waits for the compositor alone (shutdown.rs:75). Then main returns, and the detached
\* tasks of the connections are dropped where they are, with what they had queued.
Exit ==
    /\ runtime = "stopping" /\ runtime' = "gone"
    /\ UNCHANGED << peer, reader, tasks, queue, wire, writer, sinks, entries, nextId,
                    loops, asked, emitted >>

ReaderStep(c) == AnswerUndecodable(c) \/ SpawnTask(c) \/ Leave(c) \/ Finish(c)
WriterStep(c) == WriteBatch(c) \/ EndWriter(c)

AgpNext ==
    /\ runtime /= "gone"
    /\ \/ \E c \in Connections :
            ReadRequest(c) \/ ReaderStep(c) \/ LeaveLoop(c) \/ WriterStep(c) \/ PeerCloses(c)
       \/ \E t \in tasks : Handle(t) \/ Respond(t)
       \/ \E l \in loops : LoopRuns(l)
       \/ FanOut \/ PruneClosed \/ Shutdown \/ Exit

\* A task of connection c: the runtime polls every task that can go on, and its semaphore
\* and channels serve their waiters in order.
TaskStep(c, n) == \E t \in tasks : t.conn = c /\ t.n = n /\ (Handle(t) \/ Respond(t))
LoopStep(id)   == \E l \in loops : l.id = id /\ LoopRuns(l)

\* As long as the process lives, Tokio polls every task that can go on, and its semaphores serve
\* their waiters in order: a response that waits for capacity gets it however many events are
\* tried meanwhile. Nothing makes the exit wait for them.
Polled(action) == runtime /= "gone" /\ action

AgpFairness ==
    /\ \A c \in Connections :
         /\ WF_agpVars(Polled(WriterStep(c))) /\ SF_agpVars(Polled(ReaderStep(c)))
         /\ WF_agpVars(Polled(LeaveLoop(c) /\ (stopping \/ peer[c] /= "on")))
         /\ \A n \in 1..MaxRequests : SF_agpVars(Polled(TaskStep(c, n)))
    /\ \A id \in 1..(MaxRequests * Cardinality(Connections)) : WF_agpVars(Polled(LoopStep(id)))

AgpSpec == AgpInit /\ [][AgpNext]_agpVars /\ AgpFairness

-----------------------------------------------------------------------------
(* Properties.                                                             *)

Stream(c)  == wire[c] \o queue[c]
IsAnswer(c, i, op, id) ==
    /\ Stream(c)[i].kind = "response" /\ Stream(c)[i].result = "ok"
    /\ Stream(c)[i].ask = Ask(op, id)

\* Once a connection has been told that its event subscription is cancelled, no event of it
\* follows: fan-out and cancellation share the registry's lock (subscriptions.rs:246). It had to
\* know the subscription: the answer to a cancelled inspection may overtake the subscription of
\* the same number (see IdsUniqueAcrossRegistries), and then events of that number do follow.
QuietAfterUnsubscribe ==
    \A c \in Connections : \A i, j \in DOMAIN Stream(c) :
        i < j /\ Stream(c)[j].kind = "event" => ~IsAnswer(c, i, "unsubscribe", Stream(c)[j].id)

\* A subscription whose request overtook the end of its connection: it was registered after
\* remove_connection, and holds the outbound queue open.
Overtook(c) == \E e \in entries : e.conn = c /\ e.late

\* Every request is answered unless the peer leaves or the process ends first, at the in-flight
\* limit, with the outbound queue full of events and while a shutdown waits for the compositor:
\* again and again, nothing is left to answer.
HasAnswer(c, n) == \E f \in Elems(wire[c]) : f.kind = "response" /\ f.n = n
AllAnswered(c)  == \A n \in 1..asked[c] : HasAnswer(c, n)

EveryRequestAnswered ==
    \A c \in Connections : []<>(peer[c] = "gone" \/ runtime = "gone" \/ AllAnswered(c))

\* Does not hold, see Exit. shutdown.rs:61: shutdown fails the in-flight requests with
\* shutting_down and drains the connection tasks.
ShutdownDrains == \A c \in Connections : runtime = "gone" => peer[c] = "gone" \/ AllAnswered(c)

\* A connection whose reader has left drains its tasks, its streams and its writer and ends as
\* long as the process lives, unless a late subscription keeps it.
EndedConnectionWindsUp ==
    \A c \in Connections :
        reader[c].pc = "leaving" ~> (reader[c].pc = "done" \/ Overtook(c) \/ runtime = "gone")

\* Does not hold, see Overtook. connection.rs:88: dropping the connection's subscriptions and
\* closing the queue ends the writer, so nothing of the connection is registered any more.
NothingOutlivesConnection ==
    \A c \in Connections : reader[c].pc \in {"joining", "done"} => ~\E e \in entries : e.conn = c

\* Does not hold, each registry counts from 1. dispatch/events.rs:55-56: ids are unique across
\* event and inspector subscriptions, so a cancellation stops the subscription it names and no
\* other connection's stream.
IdsUniqueAcrossRegistries ==
    \A e, f \in entries : e.id = f.id => e = f
=============================================================================
