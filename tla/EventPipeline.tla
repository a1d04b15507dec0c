--------------------------- MODULE EventPipeline ----------------------------
(***************************************************************************)
(* From the compositor's broadcast to the observer: the bounded broadcast  *)
(* channel, the server's event pump with its QueryState resync after a     *)
(* lag, events the server publishes itself under reserved numbers, and     *)
(* actions recorded before their command reaches the compositor.           *)
(*                                                                         *)
(* Compositor thread, pump task and request tasks interleave freely; what  *)
(* one of them does under a lock or without awaiting is one action.        *)
(***************************************************************************)
EXTENDS RuntimeSource, Observer

CONSTANTS
  QueueCap,    \* capacity of the broadcast channel
  MaxActions,  \* bound: actions ever recorded
  MaxReserved, \* bound: numbers the server holds unpublished at a time
  NoSnapshot

ASSUME PipelineAssumption ==
  /\ QueueCap \in Nat \ {0} /\ MaxActions \in Nat /\ MaxReserved \in Nat
  /\ WindowIds \subseteq Nat /\ SeqBound \in Nat

VARIABLES
  reserved,   \* numbers handed to the server and not yet published
  queue,      \* broadcast events the pump has not received, oldest first
  missed,     \* the channel overwrote an event the pump had not received
  pump,       \* the pump task: receiving, or awaiting the QueryState reply
  snap,       \* the reply, once the compositor gave it
  obs,        \* the observer
  actions     \* the recorded actions, by id

pumpVars == << pump, snap >>
channel  == << queue, missed >>
pvars == << svars, reserved, channel, pumpVars, obs, actions >>

NoBatch == batch' = << >> /\ UNCHANGED << live, nextWindow, seq >>

\* broadcast::Sender::send: the oldest events give way.
Broadcast(events) ==
  LET all == queue \o events
      over == Len(all) > QueueCap
  IN  /\ queue' = IF over THEN SubSeq(all, Len(all) - QueueCap + 1, Len(all)) ELSE all
      /\ missed' = (missed \/ over)

PipelineInit ==
  /\ SrcInit
  /\ reserved = {} /\ queue = << >> /\ missed = FALSE
  /\ pump = "receiving" /\ snap = NoSnapshot
  /\ obs = EmptyObserver
  /\ actions = << >>

-----------------------------------------------------------------------------
(* The compositor thread.                                                  *)

SourceStep ==
  /\ \/ Open
     \/ \E w \in WindowIds : Commit(w) \/ Close(w) \/ Tell(w)
  /\ Broadcast(batch')
  /\ UNCHANGED << reserved, pumpVars, obs, actions >>

\* ReserveSeq for a request task that is about to publish an event.
ReserveNumber ==
  /\ Cardinality(reserved) < MaxReserved
  /\ Reserve
  /\ reserved' = reserved \cup {seq'}
  /\ UNCHANGED << channel, pumpVars, obs, actions >>

\* QueryState is served between two handlers.
AnswerQuery ==
  /\ pump = "awaiting" /\ snap = NoSnapshot
  /\ snap' = [seq |-> seq, windows |-> live]
  /\ NoBatch
  /\ UNCHANGED << reserved, channel, pump, obs, actions >>

\* The command of a recorded action is served: the window is activated, or
\* is unknown and the client gets an error.
ServeAction(a) ==
  /\ a \in DOMAIN actions /\ actions[a].touched /\ ~actions[a].served
  /\ LET w == actions[a].window
     IN  IF w \in DOMAIN live
         THEN /\ Tell(w)
              /\ actions' = [actions EXCEPT ![a].served = TRUE, ![a].effect = batch'[1].seq]
         ELSE /\ NoBatch
              /\ actions' = [actions EXCEPT ![a].served = TRUE]
  /\ Broadcast(batch')
  /\ UNCHANGED << reserved, pumpVars, obs >>

-----------------------------------------------------------------------------
(* Request tasks.                                                          *)

\* A reserved number is published, in whatever order the tasks get there.
PublishReserved ==
  /\ \E n \in reserved :
       /\ reserved' = reserved \ {n}
       /\ Broadcast(<< [seq |-> n, event |-> SrcEvent("server", 0, 0)] >>)
  /\ NoBatch
  /\ UNCHANGED << pumpVars, obs, actions >>

\* Mutant of ActionSeq: the number the effect is expected to carry.
ActionSeqNext == obs.watermark + 1

ActionSeq == obs.watermark

(***************************************************************************)
(* record_action, before the command is sent: the filter point first, then *)
(* the window's state on demand, under separate locks.  `commits` is what  *)
(* the observer knew of the window: not stored by the code, only observed  *)
(* here.                                                                   *)
(***************************************************************************)
RecordAction(w) ==
  /\ Len(actions) < MaxActions
  /\ actions' = Append(actions,
       [window |-> w, seq |-> ActionSeq, touched |-> FALSE, served |-> FALSE, effect |-> 0,
        commits |-> IF w \in DOMAIN obs.windows THEN obs.windows[w].commits ELSE 0])
  /\ NoBatch
  /\ UNCHANGED << reserved, channel, pumpVars, obs >>

TouchActionWindow(a) ==
  /\ a \in DOMAIN actions /\ ~actions[a].touched
  /\ actions' = [actions EXCEPT ![a].touched = TRUE]
  /\ obs' = TouchWindow(obs, actions[a].window)
  /\ NoBatch
  /\ UNCHANGED << reserved, channel, pumpVars >>

-----------------------------------------------------------------------------
(* The pump task.                                                          *)

\* recv returns an event: the observer handles it.
HandleNext ==
  /\ ~missed /\ queue # << >>
  /\ queue' = Tail(queue)
  /\ LET n == Head(queue).seq
         e == Head(queue).event
     IN  obs' = IF e.kind = "server" THEN HandleUncounted(obs, n)
                ELSE HandleEvent(obs, n, e.kind, e.window, e.n, 0)
  /\ NoBatch
  /\ UNCHANGED << reserved, missed, pumpVars, actions >>

\* Mutant of Receive: the resync runs beside the pump, which goes on receiving.
ReceiveDuringResync == HandleNext

Receive == pump = "receiving" /\ HandleNext

\* Mutant of AfterLag: the lag is logged and the stream goes on.
AfterLagIgnored == "receiving"

AfterLag == "awaiting"

\* recv returns Lagged: the receiver is moved to the oldest retained event.
Lagged ==
  /\ pump = "receiving" /\ missed
  /\ missed' = FALSE
  /\ pump' = AfterLag
  /\ NoBatch
  /\ UNCHANGED << reserved, queue, snap, obs, actions >>

\* resync: the reply is applied.
ApplySnapshot ==
  /\ pump = "awaiting" /\ snap # NoSnapshot
  /\ obs' = Resync(obs, snap, 0)
  /\ pump' = "receiving" /\ snap' = NoSnapshot
  /\ NoBatch
  /\ UNCHANGED << reserved, channel, actions >>

PipelineNext ==
  \/ SourceStep \/ ReserveNumber \/ AnswerQuery
  \/ PublishReserved
  \/ \E w \in WindowIds : RecordAction(w)
  \/ \E a \in DOMAIN actions : TouchActionWindow(a) \/ ServeAction(a)
  \/ Receive \/ Lagged \/ ApplySnapshot

\* The pump task and the compositor thread keep running; clients need not.
PipelineSpec ==
  /\ PipelineInit /\ [][PipelineNext]_pvars
  /\ WF_pvars(Receive) /\ WF_pvars(Lagged)
  /\ WF_pvars(AnswerQuery) /\ WF_pvars(ApplySnapshot)

-----------------------------------------------------------------------------
(***************************************************************************)
(* Properties.                                                             *)
(***************************************************************************)

(***************************************************************************)
(* The reply to QueryState is never older than what the observer already   *)
(* processed, so the "stale snapshot ignored" branch of resync, which      *)
(* would leave the lag unrepaired, is never taken by the pump (service.rs  *)
(* resync, event_pump.rs resync).                                          *)
(***************************************************************************)
SnapshotNeverStale == snap # NoSnapshot => snap.seq >= obs.watermark

(***************************************************************************)
(* "A concurrent observer must be able to correlate the change with the    *)
(* action that caused it" (dispatch/windows.rs activate_window): every     *)
(* event an action causes lies after its after_action filter point,        *)
(* however far the observer lags behind or ahead of server events.         *)
(***************************************************************************)
EffectsFollowTheirAction ==
  \A a \in DOMAIN actions : actions[a].effect # 0 => actions[a].effect > actions[a].seq

(***************************************************************************)
(* What the observer reported it never takes back: neither a stale event   *)
(* that survived the lag in the channel, nor a late server event, nor a    *)
(* resync moves the watermark or a window's commit counter backwards.      *)
(***************************************************************************)
ReportsNeverGoBack ==
  [][/\ obs'.watermark >= obs.watermark
     /\ \A w \in DOMAIN obs.windows \cap DOMAIN obs'.windows :
          obs'.windows[w].commits >= obs.windows[w].commits]_pvars

(***************************************************************************)
(* Once the pump has drained the channel, the observer knows exactly the   *)
(* existing windows and their commit counters, whatever was lost on the    *)
(* way ("missed events become uncertainty rather than silent loss",        *)
(* event_pump.rs).  The one exception is a window an action named after it *)
(* was gone, or before it came: record_action creates it on demand.        *)
(***************************************************************************)
Drained == pump = "receiving" /\ ~missed /\ queue = << >>

Named == {actions[a].window : a \in DOMAIN actions}

Agrees ==
  /\ DOMAIN live \subseteq DOMAIN obs.windows
  /\ \A w \in DOMAIN live : obs.windows[w].commits = live[w]
  /\ DOMAIN obs.windows \ DOMAIN live \subseteq Named

AgreesWhenDrained == Drained => Agrees

(***************************************************************************)
(* The pump catches up: the source's numbers run out in the model, and     *)
(* from some point on the observer agrees with it for good.                *)
(***************************************************************************)
CatchesUp == <>[]Agrees

(***************************************************************************)
(* "Waiters stay correct: they only ever count events, so synthesized      *)
(* events keep change/quiet conditions honest" (service.rs resync): when   *)
(* the commit counter of an existing window it knew rose since an action   *)
(* was recorded on it, a wait with that after_action still finds an event. *)
(***************************************************************************)
ChangeAfterActionIsCounted ==
  \A a \in DOMAIN actions :
    LET w == actions[a].window
        changed == /\ w \in DOMAIN live \cap DOMAIN obs.windows
                   /\ actions[a].commits > 0
                   /\ obs.windows[w].commits > actions[a].commits
    IN  changed => \E i \in 1 .. Len(obs.journal) :
                     obs.journal[i].window = w /\ obs.journal[i].seq > actions[a].seq
=============================================================================
