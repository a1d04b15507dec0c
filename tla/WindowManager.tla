--------------------------- MODULE WindowManager ---------------------------
(***************************************************************************)
(* adesk_wm::WindowManager driven by any sequence of calls, unknown ids and*)
(* repeated events included, together with what a caller that applies the  *)
(* returned WmActions in order has told the clients: the configured rects  *)
(* and the window it moved focus to.                                       *)
(***************************************************************************)
EXTENDS WindowPolicy

CONSTANTS
  Keys,         \* surface keys
  Rects,        \* tiled rects, one per output size
  NoRect,       \* a window that was never configured
  Names,        \* application ids and titles
  MaxWindows,   \* bound: windows ever created
  MaxCommit     \* bound: commit counters the caller passes in

ASSUME ManagerAssumption ==
  /\ Rects # {} /\ NoRect \notin Rects
  /\ MaxWindows \in Nat /\ MaxCommit \in Nat

VARIABLES
  wm,      \* the window model
  focus,   \* the target of the last Activate or ActivatePrevious
  told     \* window id -> the rect of the last ConfigureWindow

vars == << wm, focus, told >>

Ids == 1 .. MaxWindows

Requests == [key : Keys, app : Names, pid : {1}, title : Names, createdSeq : {0}]

\* The focus after the caller applied a list of actions.
FocusAfter(actions) ==
  LET moves == {i \in 1 .. Len(actions) :
                  actions[i].act \in {"activate", "activate_previous"}}
  IN  IF moves = {} THEN focus
      ELSE actions[CHOOSE i \in moves : \A j \in moves : j <= i].id

\* The rects the clients were told after the caller applied a set of actions.
ToldAfter(actions) ==
  [w \in Tracked(wm') |->
     LET mine == {a \in actions : a.act = "configure" /\ a.id = w}
     IN  IF mine = {} THEN Get(told, w, NoRect) ELSE (CHOOSE a \in mine : TRUE).rect]

Apply(result) ==
  /\ wm' = result.model
  /\ focus' = FocusAfter(result.actions)
  /\ told' = ToldAfter(Elems(result.actions))

\* A call that returns no action.
Quietly(model) == wm' = model /\ UNCHANGED << focus, told >>

Init ==
  /\ \E rect \in Rects : wm = EmptyModel(rect)
  /\ focus = NoWindow
  /\ told = NoEntries

MapWindow ==
  /\ wm.nextId <= MaxWindows
  /\ \E req \in Requests : Apply(OnMap(wm, req))

DestroyWindow  == \E id \in Ids : Apply(OnDestroy(wm, id))
ActivateWindow == \E id \in Ids : Apply(OnActivate(wm, id))

SetTitle == \E id \in Ids, title \in Names : Quietly(OnTitle(wm, id, title))
SetAppId == \E id \in Ids, app \in Names : Quietly(OnAppId(wm, id, app))

Commit ==
  \E id \in Ids, commitSeq \in 0 .. MaxCommit : Quietly(OnCommit(wm, id, commitSeq))

PopupAdded   == \E id \in Ids : Quietly(OnPopupAdded(wm, id))
PopupRemoved == \E id \in Ids : Quietly(OnPopupRemoved(wm, id))

SetOutputSize ==
  \E rect \in Rects :
    /\ wm' = OnOutputSize(wm, rect)
    /\ told' = ToldAfter(Reconfigured(wm'))
    /\ UNCHANGED focus

Next ==
  \/ MapWindow \/ DestroyWindow \/ ActivateWindow
  \/ SetTitle \/ SetAppId \/ Commit
  \/ PopupAdded \/ PopupRemoved \/ SetOutputSize

Spec == Init /\ [][Next]_vars

-----------------------------------------------------------------------------
(***************************************************************************)
(* Properties.                                                             *)
(***************************************************************************)
Record ==
  [key : Keys, app : Names, pid : {1}, title : Names, geometry : Rects,
   state : {"active", "inactive"}, createdSeq : {0},
   lastCommitSeq : Nat, popupCount : 0 .. PopupMax]

\* Every variable has the type the crate's structs give it.
TypeOK ==
  /\ DOMAIN wm = {"records", "mru", "nextId", "rect"}
  /\ wm.nextId \in Nat \ {0}
  /\ Tracked(wm) \subseteq 1 .. wm.nextId - 1
  /\ wm.records \in [Tracked(wm) -> Record]
  /\ wm.mru \in Seq(Tracked(wm))
  /\ wm.rect \in Rects
  /\ focus \in Nat \cup {NoWindow}
  /\ told \in [Tracked(wm) -> Rects]

(***************************************************************************)
(* The three representations of the windows never drift apart, though four *)
(* functions maintain them by separate statements: the MRU list "contains  *)
(* exactly the ids of records, so it never holds a stale id" (model.rs,    *)
(* WindowModel::mru) and no id twice, and a record is Active exactly when  *)
(* it is the front of that list, in whatever order windows are mapped,     *)
(* activated and destroyed.                                                *)
(***************************************************************************)
MruMatchesRecords == NoDup(wm.mru) /\ Elems(wm.mru) = Tracked(wm)

ActiveIsFront ==
  \A w \in Tracked(wm) : wm.records[w].state = "active" <=> w = ActiveWindow(wm)

RepresentationsAgree == MruMatchesRecords /\ ActiveIsFront

(***************************************************************************)
(* A caller that applies the returned actions and nothing else stays in    *)
(* step with the model: its focus is on the active window whenever there   *)
(* is one, and every client was told the geometry of its record (inactive  *)
(* windows included: they "must already be the right size when they become *)
(* visible again", policy.rs on_output_size).                              *)
(***************************************************************************)
ActionsKeepCallerInStep ==
  /\ Tracked(wm) # {} => focus = ActiveWindow(wm)
  /\ \A w \in Tracked(wm) : told[w] = wm.records[w].geometry

(***************************************************************************)
(* What one call may never do to the others' history: a surviving window   *)
(* keeps its creation data, its commit counter never goes back, and two    *)
(* surviving windows change their MRU order only when one of them becomes  *)
(* the active one.                                                         *)
(***************************************************************************)
Before(s, v, w) == \E i, j \in 1 .. Len(s) : i < j /\ s[i] = v /\ s[j] = w

SurvivorsKeepHistory ==
  [][\A v, w \in Tracked(wm) \cap Tracked(wm') :
       /\ wm'.records[v].key = wm.records[v].key
       /\ wm'.records[v].createdSeq = wm.records[v].createdSeq
       /\ wm'.records[v].lastCommitSeq >= wm.records[v].lastCommitSeq
       /\ Before(wm.mru, v, w) /\ Before(wm'.mru, w, v) => w = ActiveWindow(wm')]_vars

(***************************************************************************)
(* The manager implements the abstract focus stack: the window whose       *)
(* record is Active is always the most recently used open window.          *)
(***************************************************************************)
Recency == {p \in Tracked(wm) \X Tracked(wm) : Before(wm.mru, p[1], p[2])}

ActiveRecord ==
  IF \E w \in Tracked(wm) : wm.records[w].state = "active"
  THEN CHOOSE w \in Tracked(wm) : wm.records[w].state = "active"
  ELSE NoWindow

Stack == INSTANCE FocusStack WITH
  Windows <- Ids, Nobody <- NoWindow, open <- Tracked(wm), newer <- Recency, front <- ActiveRecord

ImplementsFocusStack == Stack!Spec
============================================================================
