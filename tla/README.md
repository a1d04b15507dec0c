# TLA+ models of the adesk runtime

adesk is a desktop for agents: a headless Wayland compositor, an observer that
tells agents what changed on screen and lets them wait for it, a server that
speaks the AGP protocol to clients, and helpers around them (application
registry, notifications, recording, remote viewing, machines). These modules
model the parts of it in which the order of steps matters and check them with
TLC on small instances. All safety properties of the runs are also proved with TLAPS,
for every instance.

Paths below are relative to the repository's root; `wm.rs:717` style references
name the file of the crate under discussion. `PROJECT.json` maps every
definition to the lines it stands for.

## 1. The system

### Parts and their state

| Part | State | Operations |
|---|---|---|
| Window policy, `crates/adesk-wm` | records by id, MRU list, next id, tiled rect | `on_map`, `on_destroy`, `on_activate`, `on_title`, `on_app_id`, `on_commit`, `on_popup_added/removed`, `set_output_size`; each returns `WmAction`s for the caller to apply |
| Compositor, `crates/adesk-compositor` | surface registry (`slots`, `owners`, `popups`), window bridge (root surfaces, popup handles, popup grab, launch ids), launch ledger, seat focus, event sink with the sequence counter | Wayland handlers (toplevel, commit, title, app id, popup, grab, destroy), commands (activate, dismiss popup, reserve a number, note a launch, query state, input, capture) |
| Observer, `crates/adesk-observer` | journal (bounded ring), per-window state, watermark, pending-observation registrations, recorded actions, generation channel, clock anchor | `handle_event`, `resync`, `record_action`, `wait`, snapshots |
| Event pump, `crates/adesk-server/src/event_pump.rs` | its position in the broadcast channel; a second launch correlator | receive, lag and resync, feed observer and inbox, fan out to connections |
| Notification store, `crates/adesk-notify` | notifications by id, bounded | post, close, invoke, list |
| Event inbox, `crates/adesk-notify/src/inbox.rs` | bounded journal, watermark, generation channel | `record`, `wait` |
| AGP connections, `crates/adesk-server/src/connection.rs` | outbound queue, in-flight requests, subscriptions | read, dispatch, respond, event fan-out, shutdown |
| Application registry and launching, `crates/adesk-app-registry` | `.desktop` entries, running children, launch ids | list, launch, reap |
| Viewer endpoint and recording, `crates/adesk-viewer`, `crates/adesk-server`, `crates/adesk-recorder` | sessions, control owner, frame pacing; one recording | attach, control, frames; start and stop |
| Machines, `crates/adesk-machine` | a registry cached over a container backend | create, list, status, start, stop, remove |
| Accessibility, `crates/adesk-a11y` | a bounded registry of element ids | tree, find, invoke, each over D-Bus under a timeout |
| Client SDK, `crates/adesk-client` | pending calls, outbound queue, event streams, why the connection ended | request, subscribe, drop a stream, close; a reader and a writer task |
| Viewer client and GUI viewer, `crates/adesk-viewer/src/client.rs`, `crates/adesk-viewer-gui` | a FIFO of registrations per kind of reply, broadcast channels of frames and errors, whether it is closed; the GUI worker's jobs and its belief about recording | calls, input, close; route a command, serve a job, show a frame, tick |
| Agent, `crates/adesk-agent/src/agent_loop` | steps on record, attempts and failures in a row, the last error, idle waits in a row | `run`, `run_watch`; a decision, its calls with retries, a wait |
| Rendering, images, inspector, protocols, providers, GUI widgets, test kit | | stateless over the rest, or outside the runtime |

### How they interact

The compositor is one thread running a calloop loop: Wayland clients and the
command channel are its two inputs, and a handler runs to its end before the
next. The server's tokio tasks send it commands with a oneshot reply. It tells
the runtime what happened through one bounded `tokio::sync::broadcast` channel,
each event numbered from one counter. The server also takes numbers from that
counter (`ReserveSeq`) for events it publishes itself (actions, notifications),
so events can reach the channel out of number order.

One pump task receives that channel. It feeds the observer and the inbox, each
a mutex with a `watch` generation channel next to it, and fans out to the
connections' queues. If the channel overwrote events the pump had not received,
it asks the compositor for a snapshot (`QueryState`) and has the observer
repair itself (`resync`); what is still in the channel is handled again. Every
client request is a task of its own, so waits and actions of any number of
clients interleave with the pump at every lock and every await.

Around that core stand services that share nothing with each other but the
compositor. A connection is a reader, a writer behind a bounded queue, and one
task per request; all connections share two registries of subscriptions and the
shutdown token. Input methods of one connection queue at its gate and send the
compositor one command after the other. `launch_app` tells two correlators of
the launch, after the child already runs. Viewer sessions are `select!` loops
that all wait on one change signal; a recording is a capture task and an
encoder thread. The machine manager caches a container backend, the
accessibility service caches element handles, and both await between reading
and writing their cache. The SDK is the same queues seen from the other end of
the socket.

### What is hard

* **Events out of order, lost and repeated**: lag, snapshots taken in one
  thread and applied in another, reserved numbers published late.
* **Waiting without polling**: a wait looks at the journal, reads generation
  and clock, and sleeps, all under different locks; a wakeup must not be lost,
  and a condition must not be judged on old evidence.
* **Two descriptions of the same thing**: the MRU list, the records and the
  Active flags; the bridge, the registry, the window model and the seat's
  focus; `popup_count` and the popup table; the store and the stream.
* **Objects dying in any order**: windows with nested popups and a grab; a
  `wl_surface` given its role again; Smithay calling back for popups that are
  already untracked.
* **Bounds**: the journal evicts, the ledger drops the oldest launch, batches
  are cut, saturating counters hide mistakes.
* **Time**: two clocks, a re-anchored bridge between them, early and late
  timers.
* **Endings**: a peer that leaves, a shutdown, a full queue, an encoder that
  fails, a connection closed by its reader, its writer and its user at once,
  each in the middle of somebody's request.
* **State read before an await and used after it**: caches of machines and of
  elements, a wakeup taken by a session that is busy, a window that closes
  between a press and its release.

What correctness means for each part:

* window policy: the three representations agree; nothing is decided that the
  caller is not told; the fallback after a close is the most recently used;
* compositor: every table names the same windows; the event stream is enough
  to know the whole state; a launch is attributed once;
* pipeline and observer: after any loss the observer ends up agreeing with the
  compositor, never goes back, and an action's effects count after it;
* waits: no lost wakeup, no stale verdict, exact registrations, every wait ends;
* notifications and inbox: exactly one event per change, nothing a resuming
  agent can miss but what the bounds cost;
* connections: every request answered exactly once, also at the limits and for
  as long as a shutdown leaves the process alive; a cancelled subscription is
  silent; a connection that ended leaves nothing behind but what overtook its end;
* input: methods are not interleaved within a connection, no button stays
  pressed by accident;
* launches: a window is told to belong to another launch only for want of
  better evidence;
* machines: the cache and the backend agree once nobody is calling;
* viewers and recordings: a viewer ends up looking at the current desktop, and
  the file of a stopped recording is complete;
* viewer clients: a reply reaches the call that asked for it; the GUI knows
  whether the runtime records, and closing its window always ends;
* the agent: its budgets end it when they are spent, and a report shows every
  action the runtime performed for it, or where it may have performed one;
* element ids never change their meaning; the SDK's calls return when its
  connection ends, and its streams account for every event.

## 2. The modules

```
Maps ─ WindowPolicy ─┬─ WindowManager ──(refines)──> FocusStack
                     └─ Compositor ─┬───(refines)──> RuntimeSource
LaunchLedger ────────────┘          │                   │
                             StreamSubscriber           │
Maps ─ Observer ─┬───────────────────── EventPipeline ──┘
                 └─ ObserverWaits
Maps ─ EventInbox

MapsTheorems ─┬─ WindowManagerProofs
              ├─ CompositorProofs
              ├─ ServicesProofs   (the services of MCServices)
              ├─ ClientsProofs    (the programs of MCClients)
              └─ ObserverTheorems ─┬─ EventProofs   (EventPipeline, EventInbox)
                                   └─ ObserverWaitsProofs

LaunchLedger ─ LaunchFlow ──┐
AgpConnection  InputGate  MachineManager  ViewerStream ──┼── MCServices
ViewerRecording  ClientTransport  AccessibilityIds ──────┘

ViewerClient ─ ViewerBridge ─┬─ MCClients
AgentLoop ───────────────────┘
```

| Module | Models | Correspondence |
|---|---|---|
| `WindowPolicy` | `adesk-wm/src/policy.rs` | One operator per method of `WindowManager`, from a model to the new model and the returned actions. `rect` is the tiled rect, which is all the output size decides. |
| `WindowManager` | `WindowManager` under any sequence of calls | One action per method, unknown ids and repeats included. `focus` and `told` are what a caller that applies the `WmAction`s in order has done. |
| `FocusStack` | what the policy promises | A set of windows, the relation "more recently used", and the front window. |
| `LaunchLedger` | `LaunchLedger` in `adesk-compositor/src/wm.rs` | Record, correlate in three tiers, take, expire. Time is a flag per entry. |
| `Compositor` | the Wayland handlers and commands over registry, bridge, policy, seat focus and event sink | One action per handler, with every call it makes. `published` is what the handler broadcast. Xdg objects and metadata set by clients (`popupObjs`, `meta`) are external. |
| `StreamSubscriber` | `Compositor` with one consumer of its stream | `mirror` is what the consumer knows after folding every event (`Fold`), and whether all of them made sense to it. It reads nothing else of the compositor. |
| `RuntimeSource` | the event stream as its consumers rely on it | `live` windows with commit counters, one counter, and the batch each step publishes. |
| `Observer` | `adesk-observer/src/service.rs`, `journal.rs`, the state behind the mutex | Pure operators: `HandleEvent`, `Resync`, `Since`, `Register`, `Unregister`, ... A list that the code filters or sorts (`Pruned`, `InWindowOrder`) is defined by the positions of its elements. |
| `EventPipeline` | broadcast channel, `event_pump.rs`, resync, reserved numbers, `record_action` before its command | `RuntimeSource` and `Observer` composed over a channel that overwrites. |
| `ObserverWaits` | `run_wait`, `record_action`, `waiter.rs`, `clock.rs`, the generation channel | Every lock, every generation read and every await is a step; the pump's clock, state and bump are three. The pump takes events in order and, after a lag, a snapshot, behind which the channel may still hold older events (`Late`), of this window and of another. |
| `EventInbox` | `adesk-notify` with `dispatch/notify.rs` | Requests reserve, mutate the store and publish in three steps; the pump records and bumps; one agent waits and resumes. A batch is a set of journal positions (`Matching`, `Batch`). |
| `AgpConnection` | `adesk-server`: `connection.rs`, `subscriptions.rs`, `dispatch/{mod,events,inspect}.rs`, `shutdown.rs` | The reader (`pc`), one record per request task, the queue and its writer, the entries of both registries, the push loop of each inspection stream, the token, and the process itself, which ends once the compositor has stopped (`Exit`, `main.rs`). `remove_connection` is three steps, one per lock. |
| `InputGate` | `dispatch/input.rs`, `session.rs` (`InputQueue`), the seat commands of `adesk-compositor` | A method is the sequence of its commands; each is awaited while the task holds its connection's gate, and the first failure ends it. |
| `LaunchFlow` | `launch_app`, `Correlator`, `correlate_window`, with `LaunchLedger` | The five steps of `launch_app`; the child's windows, any number of them, mapping any time after the spawn, with an app id that may come later (`note_app_id`); and the pump's look-up for the windows the ledger missed. Either attributor has three tiers, and a window may look like another application's. |
| `MachineManager` | `adesk-machine`: `manager.rs`, `registry.rs`, the backends | A call is the list of steps it has left: backend calls and one registry change. The backend is `podman` for what is atomic (ids first, then one inspection each) and the mock for what each step requires. |
| `ViewerStream` | `adesk-viewer/src/session.rs`, `ChangeSignal`, the change pump | The arms of `select!`, `Notify` with its queue, its permit and the hand-over of a wakeup that was not consumed. A frame is the number of the desktop it shows; rendering one may fail, and the viewer is sent an error instead. |
| `ViewerRecording` | `viewer/backend.rs` (recording), `adesk-recorder/src/session.rs` | Start, the capture task's `select!`, the encoder thread and its channel, the three steps of stop. |
| `ClientTransport` | `adesk-client/src/transport.rs`, `Drop` of the streams | Every lock of a request is a step; three closers run `close_with` side by side. |
| `ViewerClient` | `adesk-viewer`: `client.rs`, `reply.rs`, the replies of `session.rs` | Every lock of a call and every step of `Inner::shutdown` is a step. A call may be dropped before or after its write. `slot` is what a call's oneshot was sent, with the request it really answers (`re`), which the program does not know. The session applies input and transitions as it reads them and serves reads one at a time. |
| `ViewerBridge` | `adesk-viewer-gui`: `bridge.rs`, the toggle of `record.rs` | One connection of `ViewerClient` under the GUI's worker: the arms of the loop's `select!`, the requester task and its jobs, the steps of the close. |
| `AgentLoop` | `adesk-agent`: `agent_loop/{mod,execute,step}.rs`, `error.rs`, `watch.rs` | One task, a step per await. What the provider decides is chosen freely; a decision is the list of its calls (`callsLeft`). A call is answered, degraded, tried again, or fails in one of the classes of `Error::class`, after which the runtime may have performed it all the same (`effects`). |
| `AccessibilityIds` | `adesk-a11y/src/service.rs` | A walk is awaited without the lock, its answer assigns ids under it; `invoke` looks up, then awaits the action. |
| `Maps` | finite maps and the vector operations | `Cons`, `Without` and `Sublist` are `Vec::insert(0, _)`, `Vec::retain` of all but one element, and `Vec::retain` by the positions retained. |
| `MapsTheorems`, `ObserverTheorems` | lemmas about the operators of `Maps` and `Observer` | What each returns, keeps and bounds, for every argument. |
| `*Proofs` | theorems about the module they are named for | Section 4. |

`Maps!Without` is written with an index (everything before the element, then
everything after) because the provers can follow that; it equals
`Vec::retain(|x| x != e)` on lists without duplicates, which
`MCWindowManager!WithoutIsRetain` states and TLC evaluates on every such list of
up to four elements. It is applied to no other list (`NoDup` is part of the
invariant); no proof uses `WithoutIsRetain`.

`MC*` modules instantiate these for TLC.

### Abstractions

* Damage, geometry, titles' text and pixels are left out; application ids and
  titles are members of small sets, and which of them match a launch is a
  relation, a parameter per tier (`AppsMatch`, `TitlesMatch` for the ledger,
  `ClassesMatch`, `TextsMatch` for the correlator), over which nothing is assumed.
* An observer's window state keeps the commit counter, the uncertainty flag and
  the pending observation; the journal keeps number, kind, window, counter and
  timestamp of an entry.
* Activation, focus, title and popup events are one kind, "notice", in
  `RuntimeSource`: the observer journals them and does nothing else with them.
* A commit's own number (`since_commit`) is data, not modelled in waits.
* The compositor's `Option<pid>` is a function of the surface, as a surface's
  client does not change.
* A request is its operation; an event matches every subscription. What a peer
  asks is chosen freely, but it cancels only ids some answer gave it.
* Launches, machines, elements and recordings are numbers or model values. In
  `LaunchFlow` it is a constant which windows there may be, which launch started
  each (or none), and what texts it shows.
* In `ObserverWaits` a commit counter is known by the number of its last commit.
* The pictures a viewer gets are numbers that grow with the desktop. Between
  client and session (`ViewerClient`) a reply is its kind, the request it answers
  and whether it says that the runtime records; broadcast channels do not lag,
  a line is written in one piece (a call is not dropped in the middle of it),
  and clearing the FIFOs is one step.
* The agent keeps the calls of a decision, not their arguments: windows,
  pictures and texts in its context are data, and refreshing them after a failure
  changes nothing else. Backoff and the provider's deadline are part of the step.
* In `ViewerBridge` what the worker tells the window is applied at once, and
  only this viewer starts and stops recordings.

## 3. The runs

All passing runs go through the whole state space within their bounds.
`CHECK_DEADLOCK FALSE` is set everywhere because counters are bounded: when
numbers run out the model stops, and so does the program when its clients do.

| Run | Instance | Shows |
|---|---|---|
| `window_manager` | 3 keys, 3 windows ever, 2 rects, popup counts to 1, commit counters to 1 | `TypeOK`; `RepresentationsAgree` (MRU list = records, exactly the front is Active); `ActionsKeepCallerInStep` (focus and every client's size as the returned actions left them); `SurvivorsKeepHistory` (a call about one window does not rewind another's counters or change its identity); `ImplementsFocusStack`. |
| `compositor` | 2 toplevel and 2 popup surfaces, 2 windows ever, 3 keys, 11 numbers, 2 launches, ledger of 1 | `BridgeCoherent`, `PopupCountsAgree`, `LaunchAttributedOnce`, `SubscriberMirrorsState`, `ImplementsRuntimeSource`. |
| `event_pipeline` | channel of 2, journal of 1, 8 numbers, 2 windows, 1 recorded action, 1 reserved number | `SnapshotNeverStale`, `EffectsFollowTheirAction`, `ReportsNeverGoBack`, `AgreesWhenDrained`, and under fairness `CatchesUp`. |
| `observer_waits` | 1 waiter (change or quiet, after an action), timeout 2, quiet period 1, compositor clock ahead by 1, 2 events or snapshots, of the window and of another one, numbered to 2, journal of 2 | `NoLostWakeup`, `QuietFlagAgrees`, `ResolvesOnAllEvidence`, `EveryWaitEnds`. |
| `observer_waits_shared` | 2 waiters on one window (change, sample), 1 event or snapshot | `RegistrationsExact`, with cancellation and the window dying and coming back. |
| `event_inbox` | 2 clients, 1 notification id, inbox of 2, batches of 1, 3 numbers | `StoreAndStreamAgree`, `MissesOnlyLateOrEvicted`, and under fairness `MatchingEventWakes`. |
| `services` | one part at a time, below | twelve properties of the services around the core |
| `clients` | one part at a time, below | `RepliesGoAstrayOnlyWhen`, `KnowsWhetherItRecords`, `StopsAsTold`, `EffectsAreOnRecord`, and under fairness `ClosingEndsTheSession`. |
| `pipeline_history`, `waits_timer`, `inbox_resume`, `viewer_second_session` | see section 5 | a statement of the repository that the code does not keep |

### The run of the services

The services share no variable, so composing them freely would multiply their
states and show nothing more. `MCServices` extends
the modules of the services (with `INSTANCE` where a part has other constants than the
configuration), chooses a `part` first and then lets
only that service move; one run explores the parts side by side, and every
property is checked in all of them (it holds trivially where its service stands
still). A service that is not chosen is in its initial state, in which no fair
action is enabled.

| Part | Instance | Shows |
|---|---|---|
| `agp` | 1 connection, queue of 1, 1 request in flight, 2 requests of {plain, subscribe, inspect, unsubscribe, uninspect}, 1 event | `QuietAfterUnsubscribe`, `EveryRequestAnswered`, `EndedConnectionWindsUp` |
| `streams` | 1 connection that stays, queue of 1, 2 requests in flight: an inspection, then subscriptions and cancellations of either registry, 1 event | `QuietAfterUnsubscribe` |
| `shutdown` | the connection of `agp` with requests of {plain, undecodable}, a shutdown and the end of the process | `EveryRequestAnswered`, `EndedConnectionWindsUp` |
| `input` | 2 connections with one method each, 2 windows that may close | `MethodsStayTogether`, `ButtonsAreAccountedFor` |
| `gate` | 1 connection with two methods | the same |
| `launch` | 3 launches, of which 1 fails and 2 are of one application, a ledger of 2; two windows of one launch, and one of the other that hides its pid, sets its app id late and has another application's title | `WindowsFindTheirLaunch` |
| `crowded` | the same three with no spawn that fails, so that the ledger overflows, and nothing expires; that third window, and one nobody launched whose title names an application | the same |
| `machine` | 2 callers, 1 name, 2 machines ever, all seven operations | `CacheAgreesWhenIdle` |
| `flaky` | the same with 1 machine and backend calls that fail | `CacheAgreesWhenIdle` |
| `viewer` | 1 paced viewer, 2 changes, 1 message, renderings that may fail | `EveryViewerSeesTheChange` |
| `recording` | 1 viewer, 2 recordings of up to 2 frames, an encoder that may fail, a shutdown | `FinishedFileIsComplete` |
| `calls` | 1 task, 2 calls, queue of 1, three closers | `CallsReturnOnceClosed` |
| `events` | 1 call, 2 events, a stream of 1 | `StreamAccountsForEveryEvent`, `CallsReturnOnceClosed` |
| `a11y` | 2 agents, 2 elements, a registry of 1, 3 ids ever | `IdsNeverChangeMeaning` |

The conditions some of these carry name what the code does outside the
property's reach, and each is a recorded fact of the behaviour, not a guess:

* `EndedConnectionWindsUp` excepts a connection one of whose requests
  registered a subscription after `remove_connection` had passed
  (`Overtook`): its entry holds a sender of the outbound queue. It, and
  `EveryRequestAnswered`, end with the process: connections are detached tasks
  (`server.rs`), `shutdown::run` waits only for the compositor, and `main` then
  drops the runtime with whatever is still queued.
* `WindowsFindTheirLaunch` compares, for any relations between texts and
  applications, the evidence for the launch a window was given with the evidence for
  the launch that started it (`LedgerTrust`, `CorrelatorTrust`). A worse answer is
  excepted where the attributor had lost that launch: it had not heard of it yet
  (`late`), its entry had timed out (`aged`, `expired`), another window had consumed it
  (`taken`), or a full ledger had dropped it (`PushedOut`).
* `EveryViewerSeesTheChange` accepts a viewer that was told, after the change,
  that its push failed (`ToldOfFailure`): the failed push is not tried again.
* `CacheAgreesWhenIdle` excepts names whose last entry was written by a call
  the backend had overtaken (`overtaken`); a `list` that nothing overtook
  repairs them all.

### The run of the client programs

`MCClients` works the same way, with three sets of constants for the viewer's modules and
two for the agent's:

| Part | Instance | Shows |
|---|---|---|
| `tasks` | 2 tasks on one client, 2 calls of {status, start, stop} that may be dropped, 1 input that may be refused; the session may end any time | `RepliesGoAstrayOnlyWhen` |
| `gui` | the GUI's worker, 2 requests, 1 command, 1 pushed frame that may fail; the server may fall silent or leave, the window may close | `ClosingEndsTheSession` |
| `recorder` | the worker on a connection that stays, 5 requests, 2 commands of {input, launch, apps, toggle}, 1 tick; a start may be refused | `KnowsWhetherItRecords` |
| `job` | one job of the agent: 3 steps, 1 retry, 2 failures in a row, every kind of decision, accessibility on | `StopsAsTold`, `EffectsAreOnRecord` |
| `watch` | 2 wakeups, 2 idle waits in a row, jobs of 3 steps without retries, accessibility off, both timers equal | the same |

`RepliesGoAstrayOnlyWhen` excepts six ways a reply can be lost or reach another
call, recorded as `excuses` (section 5); `KnowsWhetherItRecords` excepts those and
connections on which a call was refused. `EffectsAreOnRecord` says of an
invocation that is on record as a success without an action only that it may have been
performed (`Unsure`).

### Why the bounds are enough

* **Window policy.** The decisions depend on which window is front, which is
  second, and whether the named one is known: three windows give a front, a
  fallback and one that must stay untouched. Ids are not reused, so a destroyed
  id is also a fourth, unknown one. The proofs (section 4) remove the bound.
* **Compositor.** Two windows give an activation with a previous one and a
  fallback; two popups give a nested one, a sibling, and a popup of each
  window. A ledger of one entry is full at once, so both the overflow and the
  second launch occur. Three keys let a surface take its role again after its
  toplevel was destroyed. `MCCompositor!OneConcern` leaves out states with both
  popups and launch metadata: no handler reads both tables.
* **Pipeline.** Mapping publishes four events at once, so with a channel of two
  every `WindowCreated` can be lost; eight numbers allow a second window or a
  destruction after the lag, and a reserved number on either side of it.
* **Waits.** The window's creation is event 1. Two inputs more fall before, during
  or after the wait: two events, an event and a snapshot, or a snapshot and an event
  it has overtaken, late in the journal below what a cursor has passed. A timeout of
  two and a quiet period of one let a quiet period end before and at the
  deadline, and let a commit re-arm one. The proofs remove the bounds.
* **Inbox.** Three numbers are a post, its close, and a compositor event
  between them.
* **Connections.** A queue and an in-flight limit of one are full after one
  frame and one task: a response waits for the writer, the reader waits for a
  permit, and an event is dropped, all at once. Two requests are a subscription
  and its cancellation, of either registry. The same instance with two requests
  in flight and the shutdown together (212 thousand states) was explored once
  and agrees.
* **Input.** Methods of one to five commands, with a drag whose window closes
  between press and release, and a keypress that moves the focus in between.
* **Launches.** Three launches give a later launch of the same application, a
  number taken by a failed spawn, and one whose title matches; a ledger of 2 holds two
  of them at once and drops the first for the third. Among the four windows are a
  launch's second one, one with every tier but the pid, one whose app id changes
  between the two attributors, and one that belongs to nobody.
* **Machines.** One name and two machines are an old and a new machine of the
  same name, which is when a late status does harm.
* **Viewers.** `viewer_second_session` is `ViewerStream` with two viewers, one
  paced (`ViewerStreamTwo.cfg`). With one, two changes during a rendering, its pacing and a request cover
  each arm of the loop being overtaken by a change, and any rendering may fail.
* **Viewer client.** Two calls of one FIFO and one error are enough for a reply
  to reach the wrong call, and for a call to leave while another's reply is on
  its way; the session may end between any two of their locks. Two callers
  also give the two writes that change places. Calls of the other FIFOs, and
  frames, are exercised by the worker.
* **GUI worker.** Five requests are the three of the start and two commands (a
  start and a stop), or one command and the status a tick asks for. For the
  liveness two requests suffice: one that is served, and one that never is.
* **Agent.** Three steps hold a failure, a success that resets the count, and
  another failure; one retry gives a call that was performed twice. Two wakeups
  and two idle waits give an idle wait on either side of a wakeup.
* **Client.** A queue of one refuses the second line; two ids are a call that
  was given up and the next one.
* **Elements.** A registry of one is cleared by every second element, also in
  the middle of an answer.

### Fairness

* `PipelineSpec`: weak fairness of the pump's steps and of the compositor's
  answer. tokio polls a ready task, the pump loops for the server's lifetime,
  and the calloop loop drains its command channel. Nothing is assumed of
  clients, actions or reserved numbers: a request may stop between reserving
  and publishing.
* `WaitsSpec`: weak fairness of each waiter's steps, of the pump once it took
  an event (it does not await in between), and of time. A waiter's `Wake` has
  two alternatives (generation moved, timer fired), the arms of the `select!`.
  `Cancel` is not fair: a shutdown may never come.
* `InboxSpec`: the pump and a started wait are fair; the deadline is **not**,
  so `MatchingEventWakes` says that the event ends the wait by itself.

* `AgpFairness`: the writer, the push loops and the end of the reader are
  weakly fair. Request tasks and the reader's own steps are strongly fair: they
  wait for room in the queue or for a permit, which events take and the writer
  gives back again and again, and tokio's channels and semaphores hand capacity
  to their waiters in order. All of it only while the process lives (`Polled`): `Exit`
  may come any time after the shutdown, and nothing makes it wait. Peers, shutdown
  and the pump promise nothing; a peer that stops reading is one that is `gone` to
  the writer.
* `ViewerFairness`: a session that can go on is polled, the pump runs, and the
  pacing timer fires.
* `TransportFairness`: calls and closers are polled; the socket, the server and
  the writer promise nothing, so `CallsReturnOnceClosed` speaks only of
  connections that were seen to end.

* `BridgeFairness`: the worker's loop and the dispatcher are polled, connecting is
  bounded by its timeouts, closing by its grace period, and an arm of the loop's
  `select!` that stays ready is picked in the end, as the macro chooses at
  random. Nothing is asked of the requester, of the server, which may stop
  answering for ever, nor of the user. Writes that block on a peer that does not
  read are outside the model.

The checks of liveness bound the number of events. Under an endless flood a
satisfied wait may re-evaluate forever (section 5).

## 4. What is proved

For every value of the constants that their assumptions admit:

| Module | Theorem | Statement |
|---|---|---|
| `WindowManagerProofs` | `InvariantHolds`, `TypeCorrect`, `RepresentationsAlwaysAgree`, `CallerAlwaysInStep` | `Spec => []` of `IInv`, `TypeOK`, `RepresentationsAgree`, `ActionsKeepCallerInStep` |
| | `HistoryIsKept` | `Spec => SurvivorsKeepHistory`, an action property |
| | `ManagerImplementsFocusStack` | `Spec => ImplementsFocusStack`, the refinement of `FocusStack` |
| `CompositorProofs` | `BridgeStaysCoherent`, `LaunchesAreAttributedOnce` | `Spec => []` of `BridgeCoherent`, `LaunchAttributedOnce` |
| | `PopupsAreCountedRight` | `Spec /\ []FewPopups => []PopupCountsAgree` |
| | `SubscribersMirrorTheState` | `SubscriberSpec => []SubscriberMirrorsState` |
| | `CompositorIsARuntimeSource` | `Spec => ImplementsRuntimeSource`, the refinement of `RuntimeSource` |
| `EventProofs` | `PipelineInvariant`, `SnapshotIsNeverStale`, `EffectsAlwaysFollow`, `AlwaysAgreesWhenDrained` | `PipelineSpec => []` of `IInv`, `SnapshotNeverStale`, `EffectsFollowTheirAction`, `AgreesWhenDrained` |
| | `ReportsGoForward` | `PipelineSpec => ReportsNeverGoBack`, an action property |
| `ObserverWaitsProofs` | `WaitsInvariant`, `WakeupsAreNotLost`, `QuietFlagIsTruthful`, `RegistrationsAreExact` | `WaitsSpec => []` of `IInv`, `NoLostWakeup`, `QuietFlagAgrees`, `RegistrationsExact` |
| | `ResolutionsAreOnAllEvidence` | `WaitsSpec => ResolvesOnAllEvidence`, an action property |
| `EventProofs` | `InboxInvariant`, `StoreAndStreamAlwaysAgree` | `InboxSpec => []` of `InboxIInv`, `StoreAndStreamAgree` |
| | `CarefulAgentMissesOnlyLateOrEvicted` | `InboxSpec => []MissesOnlyLateOrEvicted`, for a `Careful` agent |
| `ServicesProofs` | `CancelledSubscriptionsAreQuiet` | `AgpSpec => []QuietAfterUnsubscribe` |
| | `MethodsKeepTheGate`, `ButtonsHaveTheirReasons` | `InputSpec => []` of `MethodsStayTogether`, `ButtonsAreAccountedFor` |
| | `LaunchesAreAttributed` | `LaunchSpec => []WindowsFindTheirLaunch` |
| | `RegistryFollowsTheBackend` | `MachineSpec => []CacheAgreesWhenIdle` |
| | `FinishedFilesAreComplete` | `RecordingSpec => []FinishedFileIsComplete` |
| | `StreamsLoseNothingUncounted` | `TransportSpec => []StreamAccountsForEveryEvent` |
| | `IdsKeepTheirMeaning` | `A11ySpec => []IdsNeverChangeMeaning` |
| `ClientsProofs` | `NothingIsOffTheRecord`, `BudgetsAreKept` | `AgentSpec => []` of `EffectsAreOnRecord`, `StopsAsTold` |
| | `RepliesReachTheirCalls` | `ClientSpec => []RepliesGoAstrayOnlyWhen` |
| | `WorkerKnowsWhetherItRecords` | `BridgeSpec => []KnowsWhetherItRecords` |
Each inductive invariant was one of TLC runs, on the instances of section 3, before it
was proved. The assumptions are the `ASSUME`s of the modules, which TLC evaluates
in every run: no window id equals `NoWindow`; there is a rect, none is `NoRect`;
capacities are positive; ids, times and bounds are natural numbers; there are
finitely many waiters and clients. The bounds (`MaxSeq`, `MaxTime`, ...) may be any
number, so they restrict nothing that is proved. Two theorems have a hypothesis
without which they are false. `Careful`: see `inbox_resume` in section 5. `FewPopups`: no
window has more live popups than `PopupMax`, that is `u32::MAX`, where `popup_count`
saturates and its next decrement leaves one too few.

The modules of the services and of the clients state no `ASSUME`; what their theorems
need of the constants is a hypothesis that says what the constants are
(`RecordingBounds`, `CallsAreKnown`, `MethodsAreKnown`, `ElementsAreFinite`,
`AsksAreKnown`, `StreamsHoldEvents`, `LaunchesAreKnown`, `AgentIsKnown`, `ViewerIsKnown`): a bound
is a natural number, a capacity or budget a positive one, the operations a caller may
choose are among those the module defines, launches are numbered from 1, and the
accessibility tree is finite. Every instance of `MCServices` and `MCClients` is one of those.

### The window policy

None of the three properties is inductive alone.
`RepresentationsAgree` needs the type: `on_destroy` removes an id from a list,
and what is left is over the remaining records only if the list had no
duplicates and was over the records. `ActionsKeepCallerInStep` needs both: the
focus after a `NoAction` is right only because the active window of the model
did not change, which follows from what the front of the list was. So
`IInv == TypeOK /\ RepresentationsAgree /\ ActionsKeepCallerInStep` is proved
as a whole, from two layers:

1. **Operators.** `Shape(m)` and `Agree(m)` restate the first two parts of any
   model `m`. One lemma per policy operator (`MapKeepsWellFormed`,
   `DestroyKeepsWellFormed`, `ActivateKeepsWellFormed`, `QuietOperators`,
   `OutputSizeKeepsWellFormed`) says that it keeps a model well formed and which
   window is active afterwards. They rest on the list lemmas of `MapsTheorems`
   (`ConsProperties`, `PosProperties`, `WithoutProperties`).
2. **Machine.** One lemma per action (`MapStep`, `DestroyStep`, `ActivateStep`,
   `OutputSizeStep`, `QuietStep`, `IdleStep`) folds the returned actions into
   `focus` and `told`; `NextKeepsInvariant` collects them.

The module's second part describes every step of the machine by what it does to the MRU
list (`StepMoves`): a fresh id is put in front, an id is taken out, an id moves to
the front, or the list stays; and no surviving record loses its identity or has its
commit counter go back. `BeforeInCons` and `BeforeInWithout` say what the first
three do to the order of the others. `HistoryIsKept` is then immediate, and for the
refinement the abstract relation "more recently used" is `Before` of the list
(`RecencyPairs`), the abstract front its first element (`FrontIsNewest`): the four
kinds of moves are `FocusStack`'s `Open`, `Close`, `Touch` and a stutter
(`OpensIsOpen`, `ClosesIsClose`, `TouchesIsTouch`, collected in `MoveIsStackStep`).

### The compositor

`BridgeInv == ModelTyped(wm) /\ RegistryTyped /\ BridgeCoherent` is inductive.
`BridgeCoherent` alone is not: that a toplevel's first buffer gets a window nobody
else has needs ids below `nextId`; that a surface which takes its role again cannot be
taken for its former self needs that keys are never given twice; and that destroying
a toplevel leaves no popup behind needs that popups are no toplevels. From there:

* **Policy operators.** The lemmas of `WindowManagerProofs` speak of that module's
  machine. `PolicyMap`, `PolicyDestroy`, `PolicyActivate`, `PolicyUpdate` say of any
  model what an operator does to records, list and front, and which actions it
  returns.
* **Handlers.** One lemma each (`FirstBufferKeeps`, `SetTitleKeeps`, `NewPopupKeeps`,
  `DestroyToplevelKeeps`, ...) says that the handler keeps `BridgeInv` and names
  everything the other theorems ask of it: whose popups come and go (`PopupOpened`,
  `PopupClosed`), which counters stay (`SameCounts`, `Still`), what is published.
  `DestroyToplevelKeeps` is the longest: all popups of the window, nested ones
  included, are untracked and announced in id order, the grab goes, the window ends,
  and the fallback's activation is told (`ToplevelEnded`, `EndOf`).
* **Popups.** Given those, `PopupCountsAgree` is a matter of cardinalities: one popup
  more or less on both sides (`PopupOpenedCounts`, `PopupClosedCounts`).
* **Launches.** `LaunchInv` adds to `LaunchAttributedOnce` that launch numbers are
  never given twice and that the ledger's are distinct. Expiring and taking both keep
  a part of the ledger's positions (`SublistOfLedger`), and a window gets a launch only
  together with its removal (`LaunchMoves`).
* **Refinement.** `RuntimeSource`'s `live` is the map from tracked windows to their
  commit counters, its `seq` and `nextWindow` are the compositor's. Every handler is
  one of its steps: `OpenStep`, `CommitStep`, `CloseStep`, `TellStep` (batches that
  are all notices), `QuietStep`; `SourceStep` collects them, `EmitPublishes` carries
  the numbering over. `SourceInv` adds to `BridgeInv` only that the numbers given so
  far are in range.

* **The subscriber.** `MirrorInv` adds to `SourceInv` that popup ids are never given
  twice (`PopupIds`) and that the mirror shows what the compositor has (`Mirrors`).
  `Shows` is that relation for any view, window map, popups and front window, so one
  lemma per kind of event says from which view to which it leads (`CreatedTells`,
  `CommittedTells`, `PopupTells`, `DestroyedTells`, `ActivationTells`). A handler that
  publishes a fixed list goes through it event by event. The batch of a destroyed window has
  any length: `FoldUnfolds` gives the views in between, and `PopupsToldGone` steps
  through them (`StepByStep`, from the least element of a set of naturals, stands in for
  an induction). It needs that the popups told are those of the window, each once
  (`EveryPopupIsTold`): a `popup_gone` left out, doubled or after the window's
  own end would be an event that makes no sense.

With `CompositorIsARuntimeSource` the chain is closed: the pipeline's theorems start from
`RuntimeSource`, so what it proves of observer and pump holds behind every sequence of
Wayland handlers and commands that `Compositor` has.

### The event pipeline

What makes the pipeline right is a statement about a channel that loses events:
**what the observer does not know is still in the channel, unless the channel
remembers that it lost something** (`Recoverable`, from `RestIn`): the last commit of
a live window whose counter the observer lacks, and the end of a dead window it
still has. While the pump awaits the compositor's snapshot the same is claimed of the
snapshot, to which the channel's later events will be applied. `Truthful` says that
the channel never holds an event that contradicts the source: nothing ends a live
window, nothing counts beyond its counter, and whatever concerns a dead window is
followed by its end; `NeverAhead` that neither observer nor snapshot counts beyond
the source. These hold after a loss too, because dropping a prefix keeps them
(`SuffixIsTruthful`). `AgreesWhenDrained` is `RestIn` of the empty channel.

The proof follows the state's two halves. `Delivered` treats every step of the
source alike, from what it does to the counters (`TellMoves`, `CommitMoves`,
`OpenMoves`, `CloseMoves`); the pump's steps rest on `ObserverTheorems`, one lemma per
operator of the observer (`HandleEventProperties`, `ResyncProperties`,
`TouchWindowProperties`), which include the journal's bound and order and the
synthetic events of a resync.

### The waits

`WaitInv` says of a wait, step by step, what it has read so far and how old that may
be. Its core are two clauses: a wait that decides on the present generation, and a
wait that sleeps having seen it, **has counted what the journal holds for it**
(`CaughtUp`), unless the pump has changed the journal and not bumped the generation
yet. They are inductive because the code reads in the opposite order of the pump's
writes: generation before journal in the wait, journal before generation in the
pump (`AbsorbedIsCaughtUp`, `WaitInvWhileBumping`, `WaitInvAfterBump`).

Absorbing raises the cursor to the highest number it saw, and entries above the cursor
are all that `since` returns. After a resync the journal is not in the order in which
it was filled: an event older than the snapshot is pushed below the synthetic entries.
So what a wait must have counted is what was journalled above everything before it,
and what still lies above its cursor (`Uncounted`). The model keeps the former as
a ghost (`news`: the highest number ever journalled, and this window's entries that
were pushed above it), for which no step of the code asks. The invariant adds that `news`
says no more than the journal holds (`Recorded`), that no cursor is beyond it and
no cursor has passed an entry in order without counting it (`Reached`); the pump only
makes `news` grow, above the old top (`Grown`, from what `HandleEvent` and `Resync` do
to the journal).
`QuietFlagIsTruthful` carries `r.now >= QuietSince(r) + QuietMs` from the decision to the
flag; `RegistrationsAreExact` is the equality of two multisets, the keys of the waits
under way and the counted entries of `pending`, kept by one lemma for joining and one
for leaving (`WaiterJoins`, `WaiterLeaves`) for any number of waiters with equal keys,
cancelled ones included.

### The inbox

Three parts, each inductive given the ones before it.

1. **Store and stream** (`ServiceInv`). A number is on the stream once, or held by one
   request, or given up (`NumbersUsedOnce`); the events on the stream together with the
   ones about to be published are the notifications and closings of the store
   (`StoreRecorded`). `StoreAndStreamAgree` counts, and follows by bijections between the
   store's entries and the events that say so (`OneToOne`, `ServiceInvAgrees`).
2. **Journal and watermark** (`InboxInv`). The journal is the end of what the pump
   has taken from the stream, and the watermark the highest number in it.
3. **The agent** (`WaitCovered`). Every event it asked for, up to its cursor, was
   delivered, was broadcast behind a higher number, or left the journal
   (`Covered`). A batch cut at `max_events` is a prefix of what matches
   (`BatchIsThePrefix`, by counting), so resuming from its last event covers all it
   leaves out (`CollectCovers`); and an event that the pump takes later with a number
   below the watermark is late by definition (`PumpKeepsCoverage`).

The sequences are finite, but no proof goes by induction over them: least and
greatest elements (`LeastNatural`, `GreatestNatural`) and cardinalities take its place.

### The services

* **Connections** (`AgpInv`). `QuietAfterUnsubscribe` speaks of wire and queue, and so does
  the invariant (`Hushed`, `HushedWithin`). What keeps it is that an answer tells the truth
  from the moment its task has it, wherever it waits (`SaysTheTruth`): the answer `ok` to a
  cancellation means that the number was given out and is not registered any more
  (`Cancelled`). The registry's one lock makes that so, and no number is given twice, so it
  stays so. A fan-out adds events of registered subscriptions only.
* **Input** (`InputInv`). The first at a gate is the only method of its connection between
  its first and last command; what the seat served is, per connection, the commands of
  the methods in the order they took the gate. A pressed button is traced to the method
  that pressed it: it still runs (`Pressing`), it is a `mouse_down`, or it failed.
* **Launches** (`LaunchInv`). A launch that was noted is in the ledger, aged, was taken by
  some window, or was pushed out, which takes more launches than the ledger holds (counted:
  the ledger's entries are distinct noted launches); one that was recorded is with the
  correlator. So a window whose launch was known has it among the candidates, and what the
  tiers of `Correlate` and `Correlated` choose is trusted at least as much, whatever
  the relations between texts and applications are. `Record`, `Take` and the tiers
  are the lemmas.
* **Machines** (`MachineInv`). Every difference between registry and backend has somebody who
  still has to repair it, or is an `overtaken` name: a machine that the registry does not
  know is one whose creation or listing is under way (`Enters`), an entry without a machine
  one whose removal or listing is (`Forgets`). Each backend step and each registry step
  passes these obligations on.
* **Recordings** (`RecordingInv`). What was counted is encoded or in the channel, and the
  `Stop` is behind it (`FramesAccounted`); a finished thread took the `Stop`.
* **Streams** (`StreamInv`): `offered = got + lagged + skipped + Len(buffer)`, and a poll that
  took the count and has not polled yet finds events if the count was set again.
* **Element ids** (`A11yInv`). Both directions of the registry agree, its ids lie below
  the next one, and so does everything that was ever handed out, also in answers that are
  still under way; clearing the registry keeps the numbering.

### The agent

`EffectsInv` traces every action of the runtime to the step it belongs to: the step on
record names it, or is marked as failed or recovered, or the step is not recorded yet and
the execution under way names it, or has an attempt that went wrong. The cases it
turns on are the call that times out after it was performed, and the invocation that was
degraded after it was: `accessibility.rs` records the action before it invokes, and a
backend that no longer answers may have acted. Its step is a success without an action,
and the theorem says that it is an invocation of which no more is known. `JobInv` and `WatchInv` say that
`failed` and `idleWaits` are the lengths of the run of failures and of idle waits the history ends
with, counted within the job and since the last wakeup (`RunAtEnd`), and that a verdict was
given at the limit (`EndsWith`).

### The viewer's client and the GUI's worker

A reply carries no number: `reply.rs` takes the oldest registration of its kind. So the
invariant (`ConnectionInv`) is about order. While the connection lives and none of the six
excuses has happened (`Straight`), what is on its way, read by the session or waiting to be
read, stands in the order of the registrations it will find (`LineInv`); whatever
is on its way has its registration (`MessagesInv`); and every registration belongs to a
request or reply on its way, to a call that has not written its request, which is
behind those that have, or to one that was refused and has yet to see the error
(`WaitersInv`, `FifoInv`). So the oldest registration is the one of the call that the reply
at the head of the connection answers. There is one lemma per step of a call, of the
session and of the dispatcher (`RegisteringKeeps`, `SendKeeps`, `TakingKeeps`, `AbandonKeeps`,
`DispatchKeeps`, ...); excuses are never taken back (`ExcusesStay`), so the invariant
need say nothing of a connection that has one.

`BridgeInv` adds the worker, which alone asks about the recording: it has one call under
way, and the jobs it has not started wait in order (`JobsInv`); what the runtime
says on the wire or in the slot is what it does, and without a call under way flag and label
say it too (`RecordingInv`). Two steps would break that, a refusal and a reply that reaches
another call; the first is an excuse here, the second is what `ConnectionInv` rules out.

### What the proofs found in the models

Two properties passed on their instances and were no invariants. Both were restated,
and the runs have a part more that separates the old statement from the new:

* `QuietAfterUnsubscribe` spoke of numbers. A peer that cancels an inspection names a
  number which a later event subscription gets too (the registries count separately); with two
  requests in flight its answer may overtake that subscription's, and events of the
  number follow. The property now speaks of cancelled event subscriptions (part `streams`).
* `WindowsFindTheirLaunch` held because a ledger of 32 was never full with three
  launches. A full ledger drops the oldest (`wm.rs`), and a window of that launch is
  attributed to another one of its application. `PushedOut` says so (part `crowded`).

### Only model-checked

* **Liveness** (`CatchesUp`, `EveryWaitEnds`, `MatchingEventWakes`, the four of the
  services, `ClosingEndsTheSession`), which is out of this prover's reach.
* **Data**: that `Maps!Without` is `Vec::retain` (`WithoutIsRetain`).

## 5. Where code and text disagree

Four runs end in a violation; each quotes what the repository says.

* **`waits_timer`, `TimerReachesHorizon`** (`clock.rs:73`). `Clock::deadline`
  measures the distance to the target from *now* and adds it to the instant of
  the *anchor*. Once time has passed since the anchor was set, a waiter is woken
  early by that much, judges again, and sleeps for the remainder computed the
  same way: waits still end at their deadline (`EveryWaitEnds` passes), by a
  series of early wakeups that "no wait ever polls" (`service.rs:13`) rules out.
* **`pipeline_history`, `ChangeAfterActionIsCounted`** (`service.rs:382`). A
  resync prunes the journal up to the snapshot, including commits handled
  before the lag, and synthesizes a commit only for counters that moved. A
  window that committed after an action therefore leaves no entry, and a later
  wait with that `after_action` reports no change.
* **`inbox_resume`, `ResumingMissesNothing`** (`dispatch/notify.rs:35`). A
  notification's number is reserved before its event is published; a
  compositor event numbered after it can overtake it. The inbox's watermark,
  returned to the agent as `seq`, is then past the notification, and resuming
  from it skips it, against `protocol.md:431-432`. The passing
  `MissesOnlyLateOrEvicted` says that this, and eviction, are the only ways an
  agent misses an event, provided it resumes a batch that was cut at
  `max_events` from its last event (`Careful`), not from `seq`.
* **`viewer_second_session`, `EveryViewerSeesTheChange`** (`backend.rs:331` of
  `adesk-viewer`). All sessions wait on one `Notify`, and a change calls
  `notify_one`: with two viewers attached, one is woken and the other keeps the
  old picture, although `viewer.md:97` promises "a frame per change" for the
  connection and `viewer.md:208-209` a frame while "at least one viewer is
  attached and the desktop has changed". With one viewer the property passes
  (`services`), pacing, requests and closing included.

Stated in the modules, and refuted by TLC, without a run of their own:

* `MCCompositor!CreatedSeqIsTheEvents` (`model.rs:105`): a window's `created_seq`
  is the watermark before its `WindowCreated` takes its number (`state.rs:220`),
  so it is the number of some earlier event.
* `ObserverWaits!LateEntriesAreCounted` (`service.rs:382`, `service.rs:666-669`): after a
  resync an event of the window that is older than the snapshot is journalled below
  another window's synthetic entry. A wait whose cursor that entry has raised never counts
  it. And a quiet wait that counts a synthetic commit and the late one together takes the
  late one's time for the last (`waiter.rs:208`), and ends that much earlier.
* `LaunchFlow!SecondWindowsFindTheirLaunch` (`correlate.rs:21-22`, "several windows of one
  launch can correlate"): the ledger consumes a launch with its first window, and gives
  the second one to a later launch of the same application. The correlator, which would
  know it by its pid, is asked only for windows the ledger left without a launch.
* `AgpConnection!ShutdownDrains` (`shutdown.rs:61`, "fail in-flight requests with
  `shutting_down` and drain connection tasks"): nothing waits for the connections, and a
  process that exits drops the answers that are still queued.
* `ViewerStream!FailedPushIsRepeated` (`viewer.md:97`, "a frame per change"): a push whose
  rendering fails sends an error (`session.rs:675-678`) and uses up the change
  (`session.rs:216-227`); the viewer keeps the old picture until the next one.
* `AgentLoop!DegradedIsANoOp` (`execute.rs:694-695`, "a missing, stale or unsupported
  backend is a benign no-op"): the server records the action before it invokes
  (`accessibility.rs:109`), and an element's application that leaves without answering
  is reported as `unknown_accessible` (`walk.rs:437`, `dbus.rs:182-190`), possibly after it
  did what was asked. The agent notes a success without an action.
* `ViewerClient!RepliesFindTheirCalls` (`reply.rs:108-110`, "keeping the FIFO
  aligned for the next request"): an error reaches every call that waits, without
  the id it carries (`reply.rs:131`). A refused click thus fails a pending
  `request_state` and removes its registration, and the state that still comes
  answers the next one. `RepliesGoAstrayOnlyWhen` lists what it takes for a reply
  to go astray: such a stray error; an error for a call that was dropped, whose
  registration stays; a call dropped while it waited for the writer's lock, whose
  registration outlives a request that is never sent (`client.rs:693-696` says it "can
  never"), so that it takes the next call's reply; a reply that arrives before a refused call removed its
  registration; a recording transition that overtakes a queued status request;
  two calls written in another order than they registered.
* `ViewerClient!StopReturnsTheFinishedRecording` (`client.rs:429-430`): the last
  two of them make `stop_recording` return the status of a recording that runs,
  although the server echoes the id of each recording request.
* `ViewerBridge!FlagFollowsRecording` (`bridge.rs:451-452`): a start that is refused
  because a recording runs makes the GUI's requester believe that none does
  (`bridge.rs:466`), and its ticks stop refreshing the status.
* `AgentLoop!QuietNeverEndsAWatch` (`watch.rs:10`, "timed out -> still idle";
  `watch.rs:46-47`, unbounded "until the runtime disconnects or a fatal error"): the
  step's deadline around an idle wait and the runtime's timer of that wait are both
  30 s by default (`config.rs:45`, `watch.rs:88`, `main.rs:58`). The deadline starts
  first, and `StepTimeout` is fatal, so `adesk-agent --watch` on a quiet desktop
  can end with an error after its first wait.
* `AgentLoop!IdleWaitsAreTotal` (`watch.rs:128`): `idle_waits` of the outcome is the
  number in a row since the last wakeup (`mod.rs:360`).
* `AgentLoop!NotesReachTheAgent` (`mod.rs:43-45`): the note that a closed or degraded
  accessibility call leaves in `last_error` is cleared when its step is recorded as
  a success (`execute.rs`, `record_step`), before any context shows it.
* `AgentLoop!FailuresAreSteps` (`metrics.rs:16`): failures count attempts, and a
  step may have several; a decision that failed counts none.
* `AgpConnection!NothingOutlivesConnection` (`connection.rs:84-85`, dropping the
  subscriptions ends the writer): a `subscribe_events` that has fetched its sink
  registers after `remove_connection`; the entry, its sender and the writer stay
  until a write to the peer fails.
* `AgpConnection!IdsUniqueAcrossRegistries` (`dispatch/events.rs:55-56`, "ids
  are unique across event and inspector subscriptions"; `subscriptions.rs:3-7`
  says the contrary): each registry counts from 1 and `unsubscribe_events`
  consults both and checks no owner, so cancelling a subscription also stops
  the stream that has the same number, whichever connection it belongs to.
* `InputGate!InputsInSubmissionOrder` (`protocol.md:295`): requests are tasks,
  and reach the gate in the order they are scheduled. Two connections' methods
  do interleave at the seat, command by command.
* `MachineManager!UpdateKeepsAssociation` (`registry.rs:63-67`): `update` with
  the late status of a removed machine whose name is taken again writes the old
  id.
* `ViewerRecording!StatusReportsLiveCapture` (`viewer.md:281-283`): a capture
  that ended by itself is still reported as the active recording, with its
  frame count, until somebody stops it.
* `AccessibilityIds!LivingElementsKeepTheirId` (`accessibility.md:161-165`, "as
  long as it lives"): a full registry forgets living elements too, and their
  next sighting gives them a new id.

Observed while modelling:

* Destroying the last window emits no `FocusChanged`, so the stream leaves a
  subscriber with a focused window that is gone. `SubscriberMirrorsState`
  compares the focus only while there is a window.
* `record_action` creates a window's observer state on demand, also when the
  window died between the request and the lock; no event removes it.
  `AgreesWhenDrained` excepts exactly the windows an action named.
* After a resync, events still in the channel that are older than the snapshot
  are handled again: they clear `state_uncertain` and can be counted next to
  their synthetic counterpart, or not at all (`LateEntriesAreCounted`).
* `run_wait` re-judges a met condition for as long as the generation moves,
  and checks no deadline on that path.
* The action of a dismissed notification can still be invoked.
* `MachineManager::create` whose status read fails (`manager.rs:76`) leaves a
  machine in the backend that the manager does not know; `list` finds it.
* The SDK opens a stream after the answer to `subscribe_events`
  (`api/subscribe.rs:26-28`); events the reader decodes in between reach nobody.
  `StreamAccountsForEveryEvent` counts from the opening.
* The SDK reports a full outbound queue as `Closed` (`transport.rs:440-443`)
  though the connection is open, and `close()` waits for a writer that may be
  blocked on a peer that does not read.
* A viewer's requested frame can be written after a pushed frame that is newer.
* `viewer.md:249` has `state` pushed at the handshake and on every change of
  windows or focus; sessions send it only on request (`session.rs:304,406`).
* The GUI reports a window as closed once the request is written
  (`bridge.rs:615-623`); `bridge.rs:158-161` says once the runtime acknowledged it.
* While the GUI's requester waits for a slow server, every tick queues one more
  job in front of the user's next request (`bridge.rs:379`).
* A frame of `inspect_subscribe`, like an event, is dropped by a full queue.
* After a lag the observer is resynced; the inbox, by design
  (`event_pump.rs`, `resync`), is not, so a lagged event is lost to a waiting agent.
* `service.rs:651` speaks of cancellation on client disconnect; a request's
  future is dropped only when the server shuts down (`connection.rs:241-243`),
  which is what `ObserverWaits!Cancel` models.

## 6. Not modelled

* **Server startup and teardown**: binding the sockets, the accept loops, the
  order in which `shutdown::run` takes the parts down. The token every part
  watches and, for connections, the end of the process are modelled; the sequence is I/O.
* **Filters** of subscriptions by kind and window, and the inspection cache.
* **Input**: `key_down`, `key_up`, `double_click` and `type_text` are the same
  protocol over other commands; keymaps and coordinates are data. The viewer's
  input reuses these functions without the gate.
* **Capture, runtime and list requests**: a command and a reply each, without
  state that outlives the handler.
* **Control ownership** of viewers: one field, advisory, written and echoed.
* **Machine approval and host capabilities**: decisions over their arguments.
* **Accessibility source** (D-Bus) and the matching of `find`.
* **Rendering, images, inspector, encoders, codecs, `.desktop` parsing**: pure
  data processing.
* **The GUI's widgets**, its decoding and painting; two viewers or other
  clients that record at the same time as the GUI.
* **The agent's providers, context assembly and scenarios**, and the
  window list they feed on: data for whoever decides.
* **Typed client API, test kit**: outside the runtime, over what is modelled.
* In the compositor, startup and teardown, keymaps, configure/ack sequences and
  damage tracking; in the observer, the damage accumulator and `since_commit`.

## 7. Plan

Done: policy, compositor with the launch ledger and the stream, pipeline, waits and
inbox, each with its proofs, the stream's promise (`RuntimeSource`) stated once and
used on both sides; then connections and subscriptions, input, the two
correlators, machines, viewer sessions, recordings, the SDK's connection and
element ids; the viewer's client and the GUI's worker;
the agent's loop.

Next, models: the inbox behind the lossy channel; blocked writes of the viewer
client.

Next, proofs: what the models above add. Every safety property of the present ones is proved.

## 8. Running

`PROJECT.json` names the module and the configuration of each run, for example

```
tlc -workers 2 -config MCCompositor.cfg MCCompositor
tlapm EventProofs.tla
```

`MCCompositor` (about 600 thousand states), `MCEventPipeline` (one million) and
`MCObserverWaitsShared` (1.4 million) take one to two minutes, as do `MCServices`
(about 140 thousand, with four liveness properties), `MCClients` (about 790
thousand) and `MCEventInbox` (about 700 thousand); the others take less. The
proofs, some 24 thousand obligations, take from one to twenty minutes per module.
To check an inductive invariant with TLC, extend the `*Proofs` module in an `MC` module and
bound the one quantifier over `Nat` (`w` in `EventProofs!Truthful`).
