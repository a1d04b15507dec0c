---------------------------- MODULE MCCompositor ----------------------------
(***************************************************************************)
(* The compositor and its subscriber on small sets of surfaces and         *)
(* launches.                                                               *)
(***************************************************************************)
EXTENDS StreamSubscriber, TLC

(***************************************************************************)
(* Popups and launch correlation share no table, so a behaviour exercises  *)
(* one or the other: bounds the product, not either part.                  *)
(***************************************************************************)
OneConcern ==
  \/ popupObjs = {}
  \/ nextLaunch = 1 /\ \A s \in Toplevels : meta[s] = [app |-> None, title |-> None]

MCNext == SubscriberNext /\ OneConcern'

MCSpec == SubscriberInit /\ [][MCNext]_subscriberVars

-----------------------------------------------------------------------------
(***************************************************************************)
(* Does not hold, it is the watermark before that event (state.rs:220):    *)
(* "Global event sequence of the `WindowCreated` event" (model.rs,         *)
(* MapRequest::created_seq; WindowInfo.created_seq on the wire).           *)
(***************************************************************************)
CreatedSeqIsTheEvents ==
  \A i \in 1 .. Len(published) :
    published[i].event.kind = "created" =>
      wm.records[published[i].event.window].createdSeq = published[i].seq

\* What tells two states apart: no action reads what the last one published.
View == << wm, bridge, grab, launchVars, focus, lastSeq, client, mirror >>

Symmetric == Permutations(Toplevels) \cup Permutations(Popups)

MCAppsMatch == {<<"app", "app">>}
MCPidOf == [s \in Toplevels |-> 1]
MCLaunchApp == [l \in 1 .. MaxLaunches |-> "app"]
MCLaunchPid == [l \in 1 .. MaxLaunches |-> IF l = 1 THEN 1 ELSE 2]
============================================================================
