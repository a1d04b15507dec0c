--------------------------- MODULE ObserverWaits ----------------------------
(***************************************************************************)
(* The wait engine of adesk-observer: ObserverService::run_wait in any     *)
(* number of request tasks, against the pump task that handles events and  *)
(* resyncs, on a multi-threaded runtime.  Each lock acquisition, each read *)
(* of the generation channel and each await is a step of its own; time is  *)
(* the tokio clock in ticks, and the event clock is bridged as in clock.rs.*)
(*                                                                         *)
(* One window is waited on; a second one stands for all the others.  The   *)
(* pump's input is what EventPipeline can hand it: events in order, and    *)
(* after a lag a snapshot, behind which the channel may still hold events  *)
(* that are older than it.                                                 *)
(***************************************************************************)
EXTENDS Observer

CONSTANTS
  Waiters,     \* the request tasks
  Window,      \* the window they wait on
  Timeout,     \* timeout_ms
  QuietMs,     \* quiet_ms of quiet waits, DEFAULT_QUIET_MS of the others
  Lead,        \* how far the compositor's clock is ahead of the observer's
  Delay,       \* how late an event or a snapshot may be handled
  Plans,       \* the waits started: <<condition, with an after_action>>
  OtherKinds,  \* bound: the counted kinds of event of the other windows
  MaxTime,     \* bound: ticks
  MaxEvents,   \* bound: the last event number
  MaxInputs,   \* bound: events and snapshots the pump takes
  MaxWaits     \* bound: waits a task starts

ASSUME WaitsAssumption ==
  /\ IsFiniteSet(Waiters) /\ Window \in Nat
  /\ Timeout \in Nat /\ QuietMs \in Nat /\ Lead \in Nat /\ Delay \in 0 .. Lead
  /\ Plans \subseteq {"change", "quiet", "sample"} \X BOOLEAN
  /\ OtherKinds \subseteq {"created", "destroyed", "commit", "notice"}
  /\ MaxTime \in Nat /\ MaxEvents \in Nat /\ MaxInputs \in Nat /\ MaxWaits \in Nat

VARIABLES
  instant,     \* tokio::time::Instant::now()
  clock,       \* Clock: the anchor, as [ts, instant]
  obs,         \* the observer state behind its mutex
  generation,  \* the watch channel
  pump,        \* the pump task: what it is handling, and how far it got
  stream,      \* the channel: the last event received from it, and the snapshot since
  news,        \* observed here only: what was journalled in order (see InOrder)
  action,      \* the recorded action, and how far record_action got
  task,        \* the request tasks
  begun        \* waits started so far, per task

wvars == << instant, clock, obs, generation, pump, stream, news, action, task, begun >>

NoAction == [step |-> "none", seq |-> 0, ts |-> 0]
PumpIdle == [step |-> "idle"]
Idle == [pc |-> "idle"]

-----------------------------------------------------------------------------
(* clock.rs.                                                               *)

NowMs == clock.ts + (instant - clock.instant)

ObserveTs(ts) == IF ts > NowMs THEN [ts |-> ts, instant |-> instant] ELSE clock

\* deadline: the tokio instant to sleep until for the timestamp ts.
DeadlineOf(ts) == clock.instant + (IF ts > NowMs THEN ts - NowMs ELSE 0)

-----------------------------------------------------------------------------
(* The pump task: clock, then state, then generation.                      *)

Other == Window + 1

Tracked == Window \in DOMAIN obs.windows

\* The numbers of the events a snapshot has overtaken: still in the channel, or lost.
Late == stream.last + 1 .. obs.watermark

\* The events of the window that number n may still be. Of an event that a snapshot overtook: when
\* that snapshot has the window, not its end, nor a commit beyond the counter it reports.
KindsLeft(n) ==
  IF n \in Late
  THEN IF stream.window = "removed" THEN {"commit", "notice", "destroyed"}
       ELSE {"notice"} \cup (IF Tracked /\ n <= obs.windows[Window].commits THEN {"commit"} ELSE {})
  ELSE {"commit", "notice", "destroyed"}

\* What event n may be: of the window, of another one, or an uncounted one of the server.
Happenings(n) ==
  (IF stream.window = "destroyed" \/ (stream.window = "removed" /\ n \notin Late) THEN {}
   ELSE {[kind |-> kind, window |-> Window] : kind \in KindsLeft(n)})
  \cup {[kind |-> kind, window |-> Other] : kind \in OtherKinds}
  \cup {[kind |-> "server", window |-> Other]}

\* The windows a snapshot numbered n may report: the one waited on is gone, or has the commits
\* known, or new ones. A counter is known here by the number of its event; new commits are some of
\* the events the snapshot has overtaken, whichever they are, and n stands for the last of them.
Reports(n) ==
  LET known == IF Tracked THEN obs.windows[Window].commits ELSE 0
      own == IF stream.window # "alive" THEN {NoEntries}
             ELSE {Put(NoEntries, Window, known)}
                  \cup (IF n = obs.watermark THEN {} ELSE {NoEntries, Put(NoEntries, Window, n)})
  IN  own \cup {Put(windows, Other, n) : windows \in own}

\* The clock is re-anchored first.
PumpTakes(ts, input) ==
  /\ pump = PumpIdle /\ generation < MaxInputs
  /\ clock' = ObserveTs(ts)
  /\ pump' = [step |-> "state", ts |-> ts, input |-> input]
  /\ UNCHANGED << instant, obs, generation, news, action, task, begun >>

HandledAt == instant + Lead - Delay .. instant + Lead

\* recv: events come in the order of their numbers and timestamps.
PumpTakesEvent ==
  \E n \in Late \cup {obs.watermark + 1} : \E e \in Happenings(n) :
    \E ts \in IF n \in Late THEN stream.at .. stream.present ELSE HandledAt :
      /\ n <= MaxEvents /\ (n \notin Late => stream.present <= ts)
      /\ PumpTakes(ts, [kind |-> e.kind, window |-> e.window, seq |-> n])
      /\ stream' = [last |-> n, at |-> ts, present |-> Later(stream.present, ts),
                    window |-> IF e = [kind |-> "destroyed", window |-> Window] THEN "destroyed"
                               ELSE stream.window]

\* recv reported a lag, and the compositor answered QueryState: what was lost is new or late.
PumpTakesSnapshot ==
  \E n \in obs.watermark .. MaxEvents : \E windows \in Reports(n), ts \in HandledAt :
    /\ (n = obs.watermark => Late # {}) /\ stream.present <= ts
    /\ PumpTakes(ts, [kind |-> "resync", snap |-> [seq |-> n, windows |-> windows]])
    /\ stream' = [stream EXCEPT
         !.present = ts,
         !.window = IF @ = "alive" /\ Window \notin DOMAIN windows THEN "removed" ELSE @]

ObserverAfter(input, ts) ==
  CASE input.kind = "resync" -> Resync(obs, input.snap, ts)
    [] input.kind = "server" -> HandleUncounted(obs, input.seq)
    [] OTHER -> HandleEvent(obs, input.seq, input.kind, input.window, input.seq, ts)

(***************************************************************************)
(* The entries of the window that are in the journal since they were       *)
(* pushed above every number journalled before, and the highest of these.  *)
(* The others are late: a cursor may have passed their numbers.            *)
(***************************************************************************)
InOrder(journal) ==
  LET Numbers(S) == {journal[i].seq : i \in S}
      all == Numbers(1 .. Len(journal)) \cup {news.top}
  IN  [top |-> CHOOSE n \in all : \A m \in all : m <= n,
       own |-> {n \in Numbers({i \in 1 .. Len(journal) : journal[i].window = Window}) :
                  n \in news.own \/ n > news.top}]

PumpState ==
  /\ pump.step = "state"
  /\ obs' = ObserverAfter(pump.input, pump.ts)
  /\ news' = InOrder(obs'.journal)
  /\ pump' = [step |-> "bump"]
  /\ UNCHANGED << instant, clock, generation, stream, action, task, begun >>

PumpBump ==
  /\ pump.step = "bump"
  /\ generation' = generation + 1
  /\ pump' = PumpIdle
  /\ UNCHANGED << instant, clock, obs, stream, news, action, task, begun >>

-----------------------------------------------------------------------------
(* Request tasks.                                                          *)

(***************************************************************************)
(* record_action: the timestamp, then the watermark, then the window's     *)
(* state, each under a lock of its own; only then the client has the id.   *)
(***************************************************************************)
RecordClock ==
  /\ action.step = "none"
  /\ action' = [action EXCEPT !.step = "clock", !.ts = NowMs]
  /\ UNCHANGED << instant, clock, obs, generation, pump, stream, news, task, begun >>

RecordSeq ==
  /\ action.step = "clock"
  /\ action' = [action EXCEPT !.step = "seq", !.seq = obs.watermark]
  /\ UNCHANGED << instant, clock, obs, generation, pump, stream, news, task, begun >>

RecordWindow ==
  /\ action.step = "seq"
  /\ action' = [action EXCEPT !.step = "known"]
  /\ obs' = TouchWindow(obs, Window)
  /\ UNCHANGED << instant, clock, generation, pump, stream, news, task, begun >>

Registered(a) ==
  task[a].pc \in {"read", "clock", "absorb", "decide", "blocked", "resolve", "drop"}

Key(a) == << task[a].minSeq, task[a].started >>

\* wait_for_change, wait_for_quiet and observe: the start of the wait.
Begin(a, condition, after) ==
  /\ task[a].pc \in {"idle", "done", "error"}
  /\ begun[a] < MaxWaits
  /\ instant + Timeout <= MaxTime
  /\ after => action.step = "known"
  /\ begun' = [begun EXCEPT ![a] = @ + 1]
  /\ task' = [task EXCEPT ![a] =
       [pc |-> "filter", condition |-> condition, after |-> after, started |-> NowMs]]
  /\ UNCHANGED << instant, clock, obs, generation, pump, stream, news, action >>

\* action_anchor: the filter point and the quiet anchor come from the action,
\* or from the watermark and the start.
TakeFilterPoint(a) ==
  /\ task[a].pc = "filter"
  /\ LET r    == task[a]
         from == IF r.after THEN action.seq ELSE obs.watermark
     IN  task' = [task EXCEPT ![a] =
           [pc |-> "check", condition |-> r.condition, started |-> r.started,
            minSeq |-> from, cursor |-> from,
            anchor |-> IF r.after THEN action.ts ELSE r.started,
            events |-> 0, lastCommit |-> 0, counted |-> {},
            seen |-> 0, gen |-> 0, now |-> 0, met |-> FALSE, wake |-> 0]]
  /\ UNCHANGED << instant, clock, obs, generation, pump, stream, news, action, begun >>

\* A window the observer does not track is a request error.
CheckWindow(a) ==
  /\ task[a].pc = "check"
  /\ task' = [task EXCEPT ![a] = IF Tracked THEN [@ EXCEPT !.pc = "subscribe"]
                                 ELSE [pc |-> "error"]]
  /\ UNCHANGED << instant, clock, obs, generation, pump, stream, news, action, begun >>

Subscribe(a) ==
  /\ task[a].pc = "subscribe"
  /\ task' = [task EXCEPT ![a].pc = "register", ![a].seen = generation]
  /\ UNCHANGED << instant, clock, obs, generation, pump, stream, news, action, begun >>

\* Announce the waiter.
Announce(a) ==
  /\ task[a].pc = "register"
  /\ task' = [task EXCEPT ![a].pc = "read"]
  /\ obs' = Register(obs, Window, Key(a))
  /\ UNCHANGED << instant, clock, generation, pump, stream, news, action, begun >>

\* The top of the loop: the generation, then the time to judge the condition at.
ReadGeneration(a) ==
  /\ task[a].pc = "read"
  /\ task' = [task EXCEPT ![a].pc = "clock", ![a].gen = generation]
  /\ UNCHANGED << instant, clock, obs, generation, pump, stream, news, action, begun >>

ReadClock(a) ==
  /\ task[a].pc = "clock"
  /\ task' = [task EXCEPT ![a].pc = "absorb", ![a].now = NowMs]
  /\ UNCHANGED << instant, clock, obs, generation, pump, stream, news, action, begun >>

\* The entries a waiter with this cursor would count now, by position.
Fresh(r) ==
  {i \in Since(obs.journal, r.cursor) :
     obs.journal[i].window = Window /\ obs.journal[i].seq > r.minSeq}

QuietSince(r) == Later(r.anchor, r.lastCommit)

\* Mutant of ConditionMet: counted commits do not re-arm the timer.
ConditionMetUnarmed(r) ==
  \/ r.condition = "change" /\ r.events > 0
  \/ r.condition = "quiet" /\ r.now >= r.anchor + QuietMs

ConditionMet(r) ==
  \/ r.condition = "change" /\ r.events > 0
  \/ r.condition = "quiet" /\ r.now >= QuietSince(r) + QuietMs

\* Fold what the journal holds beyond the cursor, then judge the condition. The numbers counted
\* are only observed here.
Absorbed(r) ==
  LET seqs == {obs.journal[i].seq : i \in Since(obs.journal, r.cursor)}
      commits == {i \in Fresh(r) : obs.journal[i].kind = "commit"}
  IN  [r EXCEPT
         !.cursor = IF seqs = {} THEN @ ELSE CHOOSE n \in seqs : \A m \in seqs : m <= n,
         !.events = @ + Cardinality(Fresh(r)),
         !.counted = @ \cup {obs.journal[i].seq : i \in Fresh(r)},
         !.lastCommit = IF commits = {} THEN @
                        ELSE obs.journal[CHOOSE i \in commits : \A j \in commits : j <= i].at]

Absorb(a) ==
  /\ task[a].pc = "absorb"
  /\ LET r == Absorbed(task[a])
     IN  task' = [task EXCEPT ![a] = [r EXCEPT !.pc = "decide", !.met = ConditionMet(r)]]
  /\ UNCHANGED << instant, clock, obs, generation, pump, stream, news, action, begun >>

DeadlineMs(r) == r.started + Timeout

Horizon(r) ==
  IF r.condition = "quiet" /\ QuietSince(r) + QuietMs < DeadlineMs(r)
  THEN QuietSince(r) + QuietMs ELSE DeadlineMs(r)

\* Mutant of EvidenceIsStale: a met condition is never judged again.
EvidenceNeverStale(r) == FALSE

EvidenceIsStale(r) == r.met /\ generation # r.gen

\* Mutant of SeenWhileBlocked: the channel is subscribed to when blocking.
SeenFromNow(r) == generation

SeenWhileBlocked(r) == r.seen

(***************************************************************************)
(* A met condition resolves unless the generation moved; the deadline      *)
(* resolves as a timeout, except for a wait that only samples; otherwise   *)
(* block until the generation moves or the timer of the horizon fires.     *)
(***************************************************************************)
Decide(a) ==
  /\ task[a].pc = "decide"
  /\ LET r == task[a]
     IN  \/ /\ EvidenceIsStale(r)
            /\ task' = [task EXCEPT ![a] =
                 [r EXCEPT !.pc = "read", !.gen = 0, !.now = 0, !.met = FALSE]]
         \/ /\ ~EvidenceIsStale(r)
            /\ r.met \/ r.now >= DeadlineMs(r)
            /\ task' = [task EXCEPT ![a].pc = "resolve"]
         \/ /\ ~r.met /\ r.now < DeadlineMs(r)
            /\ task' = [task EXCEPT ![a] =
                 [r EXCEPT !.pc = "blocked", !.seen = SeenWhileBlocked(r),
                           !.gen = 0, !.now = 0, !.wake = DeadlineOf(Horizon(r))]]
  /\ UNCHANGED << instant, clock, obs, generation, pump, stream, news, action, begun >>

\* Mutant of TimerFired: only events wake a waiter.
TimerNever(r) == FALSE

TimerFired(r) == instant >= r.wake

\* select!: the generation moved and is now seen, or the timer fired.
Wake(a) ==
  /\ task[a].pc = "blocked"
  /\ \/ /\ task[a].seen # generation
        /\ task' = [task EXCEPT ![a].pc = "read", ![a].seen = generation, ![a].wake = 0]
     \/ /\ TimerFired(task[a])
        /\ task' = [task EXCEPT ![a].pc = "read", ![a].wake = 0]
  /\ UNCHANGED << instant, clock, obs, generation, pump, stream, news, action, begun >>

\* The evidence flag of the observation, judged at resolution.
QuietFlag(r) == NowMs >= (IF r.lastCommit = 0 THEN r.anchor ELSE r.lastCommit) + QuietMs

\* The observation is built at the time read now; its guard is dropped on return.
Resolve(a) ==
  /\ task[a].pc = "resolve"
  /\ task' = [task EXCEPT ![a] =
       [pc |-> "drop", condition |-> @.condition, met |-> @.met, quiet |-> QuietFlag(@),
        minSeq |-> @.minSeq, started |-> @.started]]
  /\ UNCHANGED << instant, clock, obs, generation, pump, stream, news, action, begun >>

DropGuard(a) ==
  /\ task[a].pc = "drop"
  /\ task' = [task EXCEPT ![a] =
       [pc |-> "done", condition |-> @.condition, met |-> @.met, quiet |-> @.quiet]]
  /\ obs' = Unregister(obs, Window, Key(a))
  /\ UNCHANGED << instant, clock, generation, pump, stream, news, action, begun >>

\* The runtime shuts down: the request's future is dropped where it awaits.
Cancel(a) ==
  /\ task[a].pc = "blocked"
  /\ task' = [task EXCEPT ![a] = Idle]
  /\ obs' = Unregister(obs, Window, Key(a))
  /\ UNCHANGED << instant, clock, generation, pump, stream, news, action, begun >>

Tick ==
  /\ instant < MaxTime
  /\ instant' = instant + 1
  /\ UNCHANGED << clock, obs, generation, pump, stream, news, action, task, begun >>

WaiterStep(a) ==
  \/ TakeFilterPoint(a) \/ CheckWindow(a) \/ Subscribe(a) \/ Announce(a)
  \/ ReadGeneration(a) \/ ReadClock(a) \/ Absorb(a) \/ Decide(a) \/ Wake(a)
  \/ Resolve(a) \/ DropGuard(a)

\* The window was created before the first request.
WaitsInit ==
  /\ instant = 0 /\ clock = [ts |-> 0, instant |-> 0]
  /\ obs = HandleEvent(EmptyObserver, 1, "created", Window, 0, 0) /\ generation = 0
  /\ pump = PumpIdle /\ action = NoAction
  /\ stream = [last |-> 1, at |-> 0, present |-> 0, window |-> "alive"]
  /\ news = [top |-> 1, own |-> {1}]
  /\ task = [a \in Waiters |-> Idle]
  /\ begun = [a \in Waiters |-> 0]

WaitsNext ==
  \/ PumpTakesEvent \/ PumpTakesSnapshot \/ PumpState \/ PumpBump
  \/ RecordClock \/ RecordSeq \/ RecordWindow
  \/ Tick
  \/ \E a \in Waiters :
       \/ \E plan \in Plans : Begin(a, plan[1], plan[2])
       \/ Cancel(a)
       \/ WaiterStep(a)

\* The runtime polls every ready task and time passes.
WaitsSpec ==
  /\ WaitsInit /\ [][WaitsNext]_wvars
  /\ WF_wvars(Tick) /\ WF_wvars(PumpState) /\ WF_wvars(PumpBump)
  /\ \A a \in Waiters : WF_wvars(WaiterStep(a))

-----------------------------------------------------------------------------
(***************************************************************************)
(* Properties.                                                             *)
(***************************************************************************)

\* The entries of the window that a wait should have counted: those journalled in order, and
\* those its cursor has not passed.
Uncounted(r) ==
  {i \in 1 .. Len(obs.journal) :
     /\ obs.journal[i].window = Window /\ obs.journal[i].seq > r.minSeq
     /\ obs.journal[i].seq \in news.own \/ obs.journal[i].seq > r.cursor
     /\ obs.journal[i].seq \notin r.counted}

(***************************************************************************)
(* "No wakeup can be lost" (service.rs, threading model): a waiter asleep  *)
(* with nothing to wake it but its timer has counted every entry that was  *)
(* journalled in order, and every late one its cursor has not passed,      *)
(* unless the pump is just about to bump the generation.                   *)
(***************************************************************************)
NoLostWakeup ==
  \A a \in Waiters :
    task[a].pc = "blocked" /\ task[a].seen = generation /\ pump.step # "bump" =>
      Uncounted(task[a]) = {}

\* Does not hold: an event older than the last snapshot is journalled below the number another
\* window's synthetic entry has already moved the cursor to, and is never counted by that wait.
LateEntriesAreCounted ==
  \A a \in Waiters :
    task[a].pc = "blocked" /\ task[a].seen = generation /\ pump.step # "bump" =>
      \A i \in 1 .. Len(obs.journal) :
        obs.journal[i].window = Window /\ obs.journal[i].seq > task[a].minSeq
          => obs.journal[i].seq \in task[a].counted

(***************************************************************************)
(* A wait never resolves on evidence it could have known to be stale: when *)
(* a met condition is accepted, every event the pump completely handled    *)
(* before has been counted, unless it came late and the cursor had passed  *)
(* it (run_wait: "re-evaluate instead of resolving on stale evidence").    *)
(***************************************************************************)
ResolvesOnAllEvidence ==
  [][\A a \in Waiters :
       task[a].pc = "decide" /\ task[a].met /\ task'[a].pc = "resolve" =>
         pump.step = "bump" \/ Uncounted(task[a]) = {}]_wvars

(***************************************************************************)
(* "A condition-satisfied quiet wait can never report false" (waiter.rs,   *)
(* Accumulator::resolve): condition and evidence flag are computed at      *)
(* different times by different functions and still agree.                 *)
(***************************************************************************)
QuietFlagAgrees ==
  \A a \in Waiters :
    task[a].pc = "done" /\ task[a].condition = "quiet" /\ task[a].met => task[a].quiet

(***************************************************************************)
(* The waiter registrations are exact, "so pending_observation can never   *)
(* leak" (PendingGuard): the multiset counts the registered waiters and    *)
(* no other, through resolution, cancellation and the window's death, and  *)
(* a window shows the earliest of them or, when an action re-created its   *)
(* state, none.                                                            *)
(***************************************************************************)
RegistrationsExact ==
  LET active == {a \in Waiters : Registered(a)}
      keys == IF Window \in DOMAIN obs.pending THEN obs.pending[Window] ELSE NoEntries
  IN  /\ DOMAIN keys = {Key(a) : a \in active}
      /\ \A a \in active : keys[Key(a)] = Cardinality({b \in active : Key(b) = Key(a)})
      /\ \A w \in DOMAIN obs.windows :
           obs.windows[w].waiting \in
             {NoWait} \cup (IF active = {} THEN {} ELSE {Earliest(DOMAIN keys)})

(***************************************************************************)
(* Every wait ends: with an observation or an error, at the latest when    *)
(* its timeout passes.                                                     *)
(***************************************************************************)
EveryWaitEnds ==
  \A a \in Waiters :
    task[a].pc \notin {"idle", "done", "error"} ~> task[a].pc \in {"idle", "done", "error"}

(***************************************************************************)
(* Sleeping until deadline(t) "must resolve exactly when the event domain  *)
(* reaches t" (clock.rs, sleep_until_deadline_reaches_the_target_ts), so   *)
(* that "no wait ever polls": the instant a waiter sleeps until is not     *)
(* before the one at which its horizon is reached.                         *)
(***************************************************************************)
TimerReachesHorizon ==
  \A a \in Waiters :
    task[a].pc = "blocked" =>
      clock.ts + (task[a].wake - clock.instant) >= Horizon(task[a])
=============================================================================
