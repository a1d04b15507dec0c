----------------------------- MODULE ViewerClient -----------------------------
(***************************************************************************)
(* One viewer connection of adesk-viewer, from the calls of ViewerClient   *)
(* to the session that answers them. Replies carry no id the client uses:  *)
(* each kind of reply resolves the oldest registration of its ReplyFifo,   *)
(* and a server error reaches every call that waits.                       *)
(***************************************************************************)
EXTENDS Maps

CONSTANTS
    Callers,       \* tasks that share the client
    Asks,          \* what they call: see Reads, Controls and "launch"
    Refusable,     \* what the backend may refuse: asks, "input", "push"
    MayAbandon,    \* whether a caller may drop its call
    MaxAsks,       \* bound: calls
    MaxInputs,     \* bound: input messages
    MaxPushes,     \* bound: frames the session pushes
    NoReply

Controls == {"start", "stop"}
Reads    == {"frame", "state", "status", "apps"}     \* ReadRequest
FifoOf(ask) == IF ask \in Controls \cup {"status"} THEN "recording" ELSE ask
Fifos    == {"state", "recording", "apps", "launch"}

VARIABLES
    calls,      \* per caller: [pc, ask, id, errors, frame]; errors and frame are its receivers
    lastId,
    fifo,       \* per kind: the registrations, oldest first, as [id, ask]
    slot,       \* per call: what its oneshot was sent, NoReply before that
    down,       \* steps of Inner::shutdown done: flag, frames, errors, registrations
    rx,         \* the dispatcher: "up", "closing" or "gone"
    toServer, toClient,
    up,         \* whether the session runs
    reads,      \* requests the session has queued; it serves the first
    recording,  \* whether the runtime records
    posts,      \* [input, push] so far
    abandoned,  \* calls that were dropped with a registration
    excuses     \* what happened that lets a reply reach another call

clientVars == << calls, lastId, fifo, slot, down, rx, toServer, toClient, up, reads, recording,
                 posts, abandoned, excuses >>

Idle == [pc |-> "idle", ask |-> "none", id |-> 0, errors |-> << >>, frame |-> FALSE]
Dropped == [ask |-> "none", re |-> 0, rec |-> FALSE]

ClientInit ==
    /\ calls = [c \in Callers |-> Idle] /\ lastId = 0
    /\ fifo = [k \in Fifos |-> << >>] /\ slot = [i \in 1..MaxAsks |-> NoReply]
    /\ down = 0 /\ rx = "up" /\ toServer = << >> /\ toClient = << >> /\ up = TRUE
    /\ reads = << >> /\ recording \in BOOLEAN
    /\ posts = [input |-> 0, push |-> 0] /\ abandoned = {} /\ excuses = {}

-----------------------------------------------------------------------------
(* A call. Every lock is a step of its own.                                *)

At(c, pc) == calls[c].pc = pc
Move(c, pc) == calls' = [calls EXCEPT ![c].pc = pc]
Leave(c) == calls' = [calls EXCEPT ![c] = Idle]

FramesGone == down >= 2
ErrorsGone == down >= 3

\* The early-out of a connection that ended: its flag, or its frame channel.
Begin(c, ask) ==
    /\ At(c, "idle") /\ lastId < MaxAsks /\ lastId' = lastId + 1
    /\ IF (ask = "frame" /\ FramesGone) \/ (ask /= "frame" /\ down >= 1) THEN Leave(c)
       ELSE calls' = [calls EXCEPT ![c] = [Idle EXCEPT !.pc = "checked", !.ask = ask, !.id = lastId']]
    /\ UNCHANGED << fifo, toServer, excuses >>

SubscribeErrors(c) ==
    /\ At(c, "checked")
    /\ IF ErrorsGone THEN Leave(c) ELSE Move(c, "subscribed")
    /\ UNCHANGED << lastId, fifo, toServer, excuses >>

Register(c) ==
    /\ At(c, "subscribed") /\ Move(c, "registered")
    /\ fifo' = IF calls[c].ask = "frame" THEN fifo
               ELSE [fifo EXCEPT ![FifoOf(calls[c].ask)] =
                       Append(@, [id |-> calls[c].id, ask |-> calls[c].ask])]
    /\ UNCHANGED << lastId, toServer, excuses >>

\* Mutant of Removed: the registration of a failed call stays.
Kept(c) == fifo

\* ReplyFifo::remove.
Removed(c) ==
    [k \in Fifos |-> Sublist(fifo[k], {i \in DOMAIN fifo[k] : fifo[k][i].id /= calls[c].id})]

\* A call that registered before c has not written its request yet.
Overtakes(c) ==
    \E k \in Fifos : \E i, j \in DOMAIN fifo[k] :
        /\ i < j /\ fifo[k][j].id = calls[c].id
        /\ \E d \in Callers : At(d, "registered") /\ calls[d].id = fifo[k][i].id

\* The write; it may fail once the peer is gone.
Send(c) ==
    /\ At(c, "registered")
    /\ \/ /\ toServer' = Append(toServer, [ask |-> calls[c].ask, id |-> calls[c].id])
          /\ Move(c, "waiting") /\ UNCHANGED fifo
          /\ excuses' = IF Overtakes(c) THEN excuses \cup {"swapped"} ELSE excuses
       \/ ~up /\ fifo' = Removed(c) /\ Leave(c) /\ UNCHANGED << toServer, excuses >>
    /\ UNCHANGED lastId

TakeReply(c) ==
    /\ At(c, "waiting") /\ calls[c].ask /= "frame" /\ slot[calls[c].id] /= NoReply
    /\ Leave(c) /\ UNCHANGED << lastId, fifo, toServer, excuses >>

TakeFrame(c) ==
    /\ At(c, "waiting") /\ calls[c].ask = "frame" /\ calls[c].frame
    /\ Leave(c) /\ UNCHANGED << lastId, fifo, toServer, excuses >>

\* The first error since the call subscribed fails it, whatever the error answers.
TakeError(c) ==
    /\ At(c, "waiting") /\ calls[c].errors /= << >>
    /\ Leave(c) /\ fifo' = Removed(c)
    /\ excuses' = excuses \cup {IF Head(calls[c].errors) = calls[c].id THEN "refused" ELSE "stray"}
    /\ UNCHANGED << lastId, toServer >>

\* A receiver is at its end: the channel's sender was dropped and nothing is left in it.
SeesTheEnd(c) == \/ ErrorsGone /\ calls[c].errors = << >>
                 \/ calls[c].ask = "frame" /\ FramesGone /\ ~calls[c].frame

TakeEnd(c) ==
    /\ At(c, "waiting") /\ SeesTheEnd(c)
    /\ Leave(c) /\ fifo' = Removed(c) /\ UNCHANGED << lastId, toServer, excuses >>

Continue(c) ==
    /\ SubscribeErrors(c) \/ Register(c) \/ Send(c)
       \/ TakeReply(c) \/ TakeFrame(c) \/ TakeError(c) \/ TakeEnd(c)
    /\ UNCHANGED << slot, down, rx, toClient, up, reads, recording, posts, abandoned >>

BeginAny(c) ==
    /\ \E ask \in Asks : Begin(c, ask)
    /\ UNCHANGED << slot, down, rx, toClient, up, reads, recording, posts, abandoned >>

\* A dropped call leaves its registration, to be consumed by its reply; there will be none if it was
\* dropped while it waited for the writer's lock.
Abandon(c) ==
    /\ MayAbandon /\ (At(c, "registered") \/ At(c, "waiting"))
    /\ Leave(c) /\ abandoned' = abandoned \cup {calls[c].id}
    /\ excuses' = IF At(c, "registered") /\ calls[c].ask /= "frame" THEN excuses \cup {"unsent"}
                  ELSE IF calls[c].id \in Elems(calls[c].errors) THEN excuses \cup {"orphan"}
                  ELSE excuses
    /\ UNCHANGED << lastId, fifo, slot, down, rx, toServer, toClient, up, reads, recording, posts >>

\* Input is written and not answered.
PostInput ==
    /\ posts.input < MaxInputs /\ posts' = [posts EXCEPT !.input = @ + 1]
    /\ toServer' = Append(toServer, [ask |-> "input", id |-> 0])
    /\ UNCHANGED << calls, lastId, fifo, slot, down, rx, toClient, up, reads, recording, abandoned,
                    excuses >>

-----------------------------------------------------------------------------
(* The dispatcher.                                                         *)

\* ReplyFifo::resolve pops the front.
Oldest(waiters) == [waiter |-> Head(waiters), rest |-> Tail(waiters)]

\* Its receiver of errors exists; that of frames exists from the start of a frame call.
Listening(c) == calls[c].pc \in {"subscribed", "registered", "waiting"}

\* The front registration belongs to a call that was refused, and has not removed it yet.
RefusedUnseen(kind) ==
    /\ fifo[kind] /= << >>
    /\ \E c \in Callers : LET id == Head(fifo[kind]).id IN
         calls[c].id = id /\ id \in Elems(calls[c].errors)

Dispatch ==
    /\ rx = "up" /\ toClient /= << >> /\ toClient' = Tail(toClient)
    /\ LET m == Head(toClient) IN
         CASE m.kind = "frame" ->
                /\ calls' = [c \in Callers |->
                     [calls[c] EXCEPT !.frame = @ \/ (calls[c].ask = "frame" /\ ~FramesGone)]]
                /\ UNCHANGED << fifo, slot, excuses >>
           [] m.kind = "error" ->
                /\ calls' = [c \in Callers |-> [calls[c] EXCEPT
                     !.errors = IF Listening(c) /\ ~ErrorsGone THEN Append(@, m.re) ELSE @]]
                /\ excuses' = IF m.re \in abandoned THEN excuses \cup {"orphan"} ELSE excuses
                /\ UNCHANGED << fifo, slot >>
           [] OTHER ->
                /\ IF fifo[m.kind] = << >> THEN UNCHANGED << fifo, slot >>
                   ELSE LET hit == Oldest(fifo[m.kind]) IN
                        /\ fifo' = [fifo EXCEPT ![m.kind] = hit.rest]
                        /\ slot' = [slot EXCEPT ![hit.waiter.id] =
                             [ask |-> hit.waiter.ask, re |-> m.re, rec |-> m.rec]]
                /\ excuses' = IF RefusedUnseen(m.kind) THEN excuses \cup {"late"} ELSE excuses
                /\ UNCHANGED calls
    /\ UNCHANGED << lastId, down, rx, toServer, up, reads, recording, posts, abandoned >>

\* End of input.
ReaderEnds ==
    /\ rx = "up" /\ toClient = << >> /\ ~up /\ rx' = "closing"
    /\ UNCHANGED << calls, lastId, fifo, slot, down, toServer, toClient, up, reads, recording, posts,
                    abandoned, excuses >>

Cleared == UNION {{w.id : w \in Elems(fifo[k])} : k \in Fifos}

\* A step of Inner::shutdown; the registrations are the last. Dropping a registration drops the sender of its reply.
ShutdownStep ==
    /\ down < 4 /\ down' = down + 1
    /\ IF down' = 4
       THEN /\ fifo' = [k \in Fifos |-> << >>]
            /\ slot' = [i \in DOMAIN slot |-> IF i \in Cleared THEN Dropped ELSE slot[i]]
       ELSE UNCHANGED << fifo, slot >>
    /\ rx' = IF rx = "closing" /\ down' = 4 THEN "gone" ELSE rx
    /\ UNCHANGED << calls, lastId, toServer, toClient, up, reads, recording, posts, abandoned, excuses >>

-----------------------------------------------------------------------------
(* The session: input and transitions are applied as they are read, reads  *)
(* are queued and served one at a time.                                    *)

Answer(m, rec) ==
    toClient' = Append(toClient, [kind |-> FifoOf(m.ask), re |-> m.id, rec |-> rec])
Refuse(id) == toClient' = Append(toClient, [kind |-> "error", re |-> id, rec |-> FALSE])

QueueRead(m) ==
    /\ m.ask \in Reads /\ reads' = Append(reads, m)
    /\ UNCHANGED << toClient, up, recording, excuses >>

\* start_recording and stop_recording.
Transition(m) ==
    /\ m.ask \in Controls
    /\ IF recording = (m.ask = "start") THEN Refuse(m.id) /\ UNCHANGED recording
       ELSE \/ recording' = ~recording /\ Answer(m, recording')
            \/ m.ask \in Refusable /\ Refuse(m.id) /\ UNCHANGED recording
    /\ excuses' = IF \E i \in DOMAIN reads : reads[i].ask = "status"
                  THEN excuses \cup {"overtaken"} ELSE excuses
    /\ UNCHANGED << up, reads >>

\* launch_app is answered, input is acknowledged to nobody in particular.
Apply(m) ==
    /\ m.ask \in {"launch", "input"}
    /\ \/ IF m.ask = "launch" THEN Answer(m, FALSE) ELSE UNCHANGED toClient
       \/ m.ask \in Refusable /\ Refuse(m.id)
    /\ UNCHANGED << up, reads, recording, excuses >>

TakeBye(m) == m.ask = "bye" /\ up' = FALSE /\ UNCHANGED << toClient, reads, recording, excuses >>

ReadMessage ==
    /\ up /\ toServer /= << >> /\ toServer' = Tail(toServer)
    /\ LET m == Head(toServer) IN QueueRead(m) \/ Transition(m) \/ Apply(m) \/ TakeBye(m)
    /\ UNCHANGED posts

ServeRead ==
    /\ up /\ reads /= << >> /\ reads' = Tail(reads)
    /\ \/ Answer(Head(reads), recording)
       \/ Head(reads).ask \in Refusable /\ Refuse(Head(reads).id)
    /\ UNCHANGED << toServer, up, recording, posts, excuses >>

\* A frame for a change of the desktop, or an error when it does not render.
PushFrame ==
    /\ up /\ posts.push < MaxPushes /\ posts' = [posts EXCEPT !.push = @ + 1]
    /\ \/ toClient' = Append(toClient, [kind |-> "frame", re |-> 0, rec |-> FALSE])
       \/ "push" \in Refusable /\ Refuse(0)
    /\ UNCHANGED << toServer, up, reads, recording, excuses >>

SessionEnds == up /\ up' = FALSE /\ UNCHANGED << toServer, toClient, reads, recording, posts, excuses >>

Session ==
    /\ ReadMessage \/ ServeRead \/ PushFrame \/ SessionEnds
    /\ UNCHANGED << calls, lastId, fifo, slot, down, rx, abandoned >>

-----------------------------------------------------------------------------

ClientNext ==
    \/ \E c \in Callers : Continue(c) \/ BeginAny(c) \/ Abandon(c)
    \/ PostInput \/ Dispatch \/ ReaderEnds \/ Session
    \/ rx = "closing" /\ ShutdownStep

ClientSpec == ClientInit /\ [][ClientNext]_clientVars

-----------------------------------------------------------------------------
(* Properties.                                                             *)

Resolved(i) == slot[i] \notin {NoReply, Dropped}

\* Does not hold, see the next one. reply.rs:108-110: a call that was answered was answered with
\* its own reply.
RepliesFindTheirCalls == \A i \in DOMAIN slot : Resolved(i) => slot[i].re = i

\* The same, but for the six things that break it: an error that answers another message, an
\* error for a call that was dropped, a call that was dropped after it registered and before it
\* wrote, a reply that arrives before a refused call has removed its registration, a recording
\* transition that overtakes a queued status request, and two calls that write in another order
\* than they registered.
RepliesGoAstrayOnlyWhen == excuses \subseteq {"refused"} => RepliesFindTheirCalls

\* Does not hold when a reply goes astray. client.rs:429-430: what stop_recording returns describes
\* the finished recording.
StopReturnsTheFinishedRecording ==
    \A i \in DOMAIN slot : Resolved(i) /\ slot[i].ask = "stop" => ~slot[i].rec
=============================================================================
