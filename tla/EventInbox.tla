----------------------------- MODULE EventInbox -----------------------------
(***************************************************************************)
(* adesk-notify and the handlers in front of it: the notification store,   *)
(* the request tasks that reserve a number, mutate the store and publish   *)
(* an event, the event pump that feeds the inbox, and one agent that waits *)
(* for events and resumes where its last wait ended.                       *)
(*                                                                         *)
(* Request tasks, pump and agent run on a multi-threaded runtime: they     *)
(* interleave at every await and at every lock.  The broadcast channel     *)
(* does not overflow here (EventPipeline is about that).                   *)
(***************************************************************************)
EXTENDS Maps, FiniteSets

CONSTANTS
  Clients,     \* request tasks
  NoteIds,     \* the notification ids a client may name, known or not
  InboxCap,    \* DEFAULT_INBOX_CAPACITY
  BatchMax,    \* max_events of the agent's waits
  Filters,     \* the sets of event kinds the agent may ask for
  Careful,     \* the agent resumes a full batch from its last event
  MaxSeq       \* bound: sequence numbers ever allocated

ASSUME InboxAssumption ==
  /\ IsFiniteSet(Clients) /\ InboxCap \in Nat \ {0} /\ BatchMax \in Nat \ {0}
  /\ MaxSeq \in Nat /\ Careful \in BOOLEAN

VARIABLES
  lastSeq,     \* the compositor's counter
  store,       \* NotificationStore::notifications: id -> [posted, closed]
  nextId,
  request,     \* client -> what its request task is about to do
  stream,      \* every event ever broadcast, in broadcast order
  received,    \* how many of them the pump has taken
  journal, watermark,   \* InboxState
  pumped,      \* the pump recorded an event and has yet to bump
  generation,
  wait,        \* the agent's wait
  kinds,       \* the agent's kind filter
  delivered    \* the numbers of the events the agent was given

service == << lastSeq, store, nextId, request >>
inbox   == << journal, watermark >>
agent   == << wait, kinds, delivered >>
ivars   == << service, stream, received, inbox, pumped, generation, agent >>

Ready == [pc |-> "idle"]
Event(n, kind, id) == [seq |-> n, kind |-> kind, id |-> id]
Operations == {"post", "close", "invoke"}

InboxInit ==
  /\ lastSeq = 0 /\ store = NoEntries /\ nextId = 1
  /\ request = [c \in Clients |-> Ready]
  /\ stream = << >> /\ received = 0
  /\ journal = << >> /\ watermark = 0
  /\ pumped = FALSE /\ generation = 0
  /\ wait = [pc |-> "idle", cursor |-> 0, started |-> FALSE]
  /\ kinds \in Filters
  /\ delivered = {}

-----------------------------------------------------------------------------
(* The compositor and the section 5.9 request tasks.                       *)

\* The compositor emits an event of its own.
WindowEvent ==
  /\ lastSeq < MaxSeq
  /\ lastSeq' = lastSeq + 1
  /\ stream' = Append(stream, Event(lastSeq', "window", 0))
  /\ UNCHANGED << store, nextId, request, received, inbox, pumped, generation, agent >>

(***************************************************************************)
(* A request reserves its number first.  `valid` says that the title is not*)
(* empty, or that the notification offers the action key.                  *)
(***************************************************************************)
ReserveSeq(c) ==
  /\ request[c].pc = "idle" /\ lastSeq < MaxSeq
  /\ lastSeq' = lastSeq + 1
  /\ \E op \in Operations, id \in NoteIds, valid \in BOOLEAN :
       request' = [request EXCEPT ![c] =
         [pc |-> "reserved", op |-> op, id |-> id, valid |-> valid, seq |-> lastSeq']]
  /\ UNCHANGED << store, nextId, stream, received, inbox, pumped, generation, agent >>

\* Mutant of NewlyDismissed: every close counts as the first.
AlwaysDismissed(id) == TRUE

\* CloseOutcome::newly_dismissed.
NewlyDismissed(id) == store[id].closed = 0

\* The request goes on to publish, or ends: rejected, or nothing to tell.
PublishNext(c, kind, id) ==
  request' = [request EXCEPT ![c] =
    [pc |-> "publish", event |-> Event(request[c].seq, kind, id)]]
EndRequest(c) == request' = [request EXCEPT ![c] = Ready]

Post(c) ==
  IF request[c].valid
  THEN /\ store' = Put(store, nextId, [posted |-> request[c].seq, closed |-> 0])
       /\ nextId' = nextId + 1
       /\ PublishNext(c, "notification", nextId)
  ELSE EndRequest(c) /\ UNCHANGED << store, nextId >>

CloseNote(c) ==
  LET id == request[c].id
  IN  /\ IF id \in DOMAIN store /\ NewlyDismissed(id)
         THEN /\ store' = [store EXCEPT ![id].closed = request[c].seq]
              /\ PublishNext(c, "closed", id)
         ELSE EndRequest(c) /\ UNCHANGED store
      /\ UNCHANGED nextId

Invoke(c) ==
  /\ IF request[c].id \in DOMAIN store /\ request[c].valid
     THEN PublishNext(c, "action", request[c].id)
     ELSE EndRequest(c)
  /\ UNCHANGED << store, nextId >>

\* The store's mutex is held for one call.
CallStore(c) ==
  /\ request[c].pc = "reserved"
  /\ CASE request[c].op = "post"   -> Post(c)
       [] request[c].op = "close"  -> CloseNote(c)
       [] request[c].op = "invoke" -> Invoke(c)
  /\ UNCHANGED << lastSeq, stream, received, inbox, pumped, generation, agent >>

\* publish: the reserved number meets the stream only now.
PublishEvent(c) ==
  /\ request[c].pc = "publish"
  /\ stream' = Append(stream, request[c].event)
  /\ EndRequest(c)
  /\ UNCHANGED << lastSeq, store, nextId, received, inbox, pumped, generation, agent >>

-----------------------------------------------------------------------------
(* The pump task: EventInbox::handle_event.                                *)

Higher(a, b) == IF a > b THEN a ELSE b

\* InboxState::record.
PumpRecord ==
  /\ ~pumped /\ received < Len(stream)
  /\ received' = received + 1
  /\ watermark' = Higher(watermark, stream[received'].seq)
  /\ LET grown == Append(journal, stream[received'])
     IN  journal' = IF Len(grown) > InboxCap THEN Tail(grown) ELSE grown
  /\ pumped' = TRUE
  /\ UNCHANGED << service, stream, generation, agent >>

PumpBump ==
  /\ pumped
  /\ generation' = generation + 1
  /\ pumped' = FALSE
  /\ UNCHANGED << service, stream, received, inbox, agent >>

-----------------------------------------------------------------------------
(* The agent: EventInbox::wait_for_events, called again and again.         *)

\* The first wait starts fresh, every later one gives since_seq.
BeginWait ==
  /\ wait.pc = "idle"
  /\ wait' = IF wait.started
             THEN [pc |-> "mark", filter |-> wait.cursor, cursor |-> wait.cursor,
                   base |-> wait.base, expired |-> FALSE, seen |-> 0, started |-> TRUE]
             ELSE [pc |-> "filter", expired |-> FALSE, seen |-> 0]
  /\ UNCHANGED << service, stream, received, inbox, pumped, generation, kinds, delivered >>

\* Subscribed; the watermark is read under the lock, once.
ReadFilter ==
  /\ wait.pc = "filter"
  /\ wait' = [pc |-> "mark", filter |-> watermark, cursor |-> watermark,
              base |-> watermark, expired |-> wait.expired, seen |-> 0, started |-> TRUE]
  /\ UNCHANGED << service, stream, received, inbox, pumped, generation, kinds, delivered >>

MarkSeen ==
  /\ wait.pc = "mark"
  /\ wait' = [wait EXCEPT !.pc = "collect", !.seen = generation]
  /\ UNCHANGED << service, stream, received, inbox, pumped, generation, kinds, delivered >>

\* EventWaitSpec::matches.
Matches(e) == e.kind \in kinds

\* collect, before the limit: the positions of the journal's entries.
Matching(filter) ==
  {i \in 1 .. Len(journal) : journal[i].seq > filter /\ Matches(journal[i])}

\* take(max_events).
Batch(found) == {i \in found : Cardinality({j \in found : j < i}) < BatchMax}

\* Mutant of ResumePoint: the watermark, however much was left behind.
ResumeAtWatermark(batch) == watermark

\* Where the next wait resumes: "when events.len() == max_events the caller
\* should resume from the last returned event's seq" (EventBatch).
ResumePoint(batch) ==
  IF Careful /\ Cardinality(batch) = BatchMax
  THEN journal[CHOOSE i \in batch : \A j \in batch : j <= i].seq
  ELSE watermark

Resolved(cursor) == [pc |-> "idle", cursor |-> cursor, base |-> wait.base, started |-> TRUE]

\* One critical section collects and reads the watermark.
Collect ==
  /\ wait.pc = "collect"
  /\ LET batch == Batch(Matching(wait.filter))
     IN  IF batch # {}
         THEN /\ wait' = Resolved(ResumePoint(batch))
              /\ delivered' = delivered \cup {journal[i].seq : i \in batch}
         ELSE /\ wait' = [wait EXCEPT !.pc = "decide", !.cursor = watermark]
              /\ UNCHANGED delivered
  /\ UNCHANGED << service, stream, received, inbox, pumped, generation, kinds >>

\* Mutant of SeenAtPark: the generation counts as seen when parking.
SeenFromPark == generation

SeenAtPark == wait.seen

\* Past the deadline the wait times out with the watermark it read; before, it parks.
Decide ==
  /\ wait.pc = "decide"
  /\ wait' = IF wait.expired THEN Resolved(wait.cursor)
             ELSE [wait EXCEPT !.pc = "parked", !.cursor = wait.filter, !.seen = SeenAtPark]
  /\ UNCHANGED << service, stream, received, inbox, pumped, generation, kinds, delivered >>

Wake ==
  /\ wait.pc = "parked"
  /\ wait.seen # generation \/ wait.expired
  /\ wait' = [wait EXCEPT !.pc = "mark"]
  /\ UNCHANGED << service, stream, received, inbox, pumped, generation, kinds, delivered >>

\* The deadline passes.
Expire ==
  /\ wait.pc # "idle" /\ ~wait.expired
  /\ wait' = [wait EXCEPT !.expired = TRUE]
  /\ UNCHANGED << service, stream, received, inbox, pumped, generation, kinds, delivered >>

AgentStep == ReadFilter \/ MarkSeen \/ Collect \/ Decide \/ Wake

InboxNext ==
  \/ WindowEvent
  \/ \E c \in Clients : ReserveSeq(c) \/ CallStore(c) \/ PublishEvent(c)
  \/ PumpRecord \/ PumpBump
  \/ BeginWait \/ Expire \/ AgentStep

\* The pump and a started wait are polled; no deadline need ever pass, and no
\* client need ever finish.
InboxSpec ==
  /\ InboxInit /\ [][InboxNext]_ivars
  /\ WF_ivars(PumpRecord) /\ WF_ivars(PumpBump) /\ WF_ivars(AgentStep)

-----------------------------------------------------------------------------
(***************************************************************************)
(* Properties.                                                             *)
(***************************************************************************)
InFlight == {request[c].event : c \in {d \in Clients : request[d].pc = "publish"}}
Broadcasted == {stream[i] : i \in 1 .. Len(stream)}

(***************************************************************************)
(* "The store's lasting state and the stream cannot disagree" and there is *)
(* "exactly one close per notification" (dispatch/notify.rs), though store *)
(* and stream are written by separate steps of concurrent tasks: no number *)
(* is broadcast twice, and the notification and close events, broadcast or *)
(* on their way, are those of the store, each once.                        *)
(***************************************************************************)
StoreAndStreamAgree ==
  LET events == Broadcasted \cup InFlight
      about(kind) == {e \in events : e.kind = kind}
  IN  /\ Cardinality({e.seq : e \in events}) = Len(stream) + Cardinality(InFlight)
      /\ about("notification") =
           {Event(store[id].posted, "notification", id) : id \in DOMAIN store}
      /\ about("closed") =
           {Event(store[id].closed, "closed", id) :
              id \in {i \in DOMAIN store : store[i].closed # 0}}

(***************************************************************************)
(* What an agent that resumes where it stopped can miss: an event that was *)
(* broadcast after one with a higher number, or that the bounded journal   *)
(* evicted; nothing else, whatever the batch limit, the timeouts and the   *)
(* moment its waits end.                                                   *)
(***************************************************************************)
Missed(i) ==
  /\ wait.started /\ Matches(stream[i])
  /\ wait.base < stream[i].seq /\ stream[i].seq <= wait.cursor
  /\ stream[i].seq \notin delivered

MissesOnlyLateOrEvicted ==
  wait.pc \in {"idle", "parked"} =>
    \A i \in 1 .. received :
      Missed(i) => \/ \E j \in 1 .. i - 1 : stream[j].seq > stream[i].seq
                   \/ i <= received - InboxCap

(***************************************************************************)
(* "No matching event can be lost and no wait ever polls" (inbox.rs): a    *)
(* matching event ends the wait without its deadline. It never happens     *)
(* that from some point on the agent waits, or sleeps, with a matching     *)
(* event in the journal.                                                   *)
(***************************************************************************)
MatchingEventWakes ==
  []<>(wait.pc \in {"idle", "filter"} \/ Matching(wait.filter) = {})

(***************************************************************************)
(* "An idling agent that passes the previous result's `seq` never misses   *)
(* an event" (protocol.md, section 5.10).                                  *)
(***************************************************************************)
ResumingMissesNothing ==
  wait.pc = "idle" => \A i \in 1 .. received : ~Missed(i)
=============================================================================
