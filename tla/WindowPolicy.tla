---------------------------- MODULE WindowPolicy ----------------------------
(***************************************************************************)
(* The single-visible-toplevel policy of adesk-wm: every window-management *)
(* decision as an operator from a window model to a result                 *)
(*   [model |-> the new model, actions |-> the WmActions to apply].        *)
(* A model is a record                                                     *)
(*   records : window id -> WindowRecord   (creation order = id order)     *)
(*   mru     : the ids, most recently used first                           *)
(*   nextId  : the next id to assign                                       *)
(*   rect    : PolicyConfig::tiled_rect, one value per output size         *)
(***************************************************************************)
EXTENDS Maps

CONSTANTS
  NoWindow,    \* Option::<WindowId>::None
  PopupMax     \* u32::MAX, where popup_count saturates

ASSUME PolicyAssumption ==
  /\ PopupMax \in Nat \ {0}
  /\ NoWindow \notin Nat

Tracked(m) == DOMAIN m.records

\* WindowModel::new with the config's initial tiled rect.
EmptyModel(rect) ==
  [records |-> NoEntries, mru |-> << >>, nextId |-> 1, rect |-> rect]

\* The front of the MRU order.
ActiveWindow(m) == IF m.mru = << >> THEN NoWindow ELSE m.mru[1]

\* window_by_surface: the windows owning a surface key (at most one).
WindowsOfKey(m, key) == {w \in Tracked(m) : m.records[w].key = key}

\* mark_active: id becomes the only Active record.
MarkActive(records, id) ==
  [w \in DOMAIN records |->
     [records[w] EXCEPT !.state = IF w = id THEN "active" ELSE "inactive"]]

\* WmAction.
Configure(id, rect)    == [act |-> "configure", id |-> id, rect |-> rect]
Activate(id)           == [act |-> "activate", id |-> id]
ActivatePrevious(id)   == [act |-> "activate_previous", id |-> id]
NoAction               == [act |-> "none"]

NewRecord(m, req) ==
  [key |-> req.key, app |-> req.app, pid |-> req.pid, title |-> req.title,
   geometry |-> m.rect, state |-> "active",
   createdSeq |-> req.createdSeq, lastCommitSeq |-> 0, popupCount |-> 0]

\* Mutant of OnMap: the id counter is not advanced.
OnMapReusesId(m, req) ==
  [model   |-> [m EXCEPT
                  !.records = MarkActive(Put(@, m.nextId, NewRecord(m, req)), m.nextId),
                  !.mru     = Cons(m.nextId, Without(@, m.nextId))],
   id      |-> m.nextId,
   actions |-> << Configure(m.nextId, m.rect), Activate(m.nextId) >>]

(***************************************************************************)
(* on_map.  A key that is already tracked is an evaluated no-op.           *)
(***************************************************************************)
OnMap(m, req) ==
  IF WindowsOfKey(m, req.key) # {}
  THEN [model   |-> m,
        id      |-> CHOOSE w \in WindowsOfKey(m, req.key) : TRUE,
        actions |-> << NoAction >>]
  ELSE [model   |-> [m EXCEPT
                       !.records = MarkActive(Put(@, m.nextId, NewRecord(m, req)), m.nextId),
                       !.mru     = Cons(m.nextId, @),
                       !.nextId  = @ + 1],
        id      |-> m.nextId,
        actions |-> << Configure(m.nextId, m.rect), Activate(m.nextId) >>]

\* Mutants of OnDestroy: the fallback is not reported; the fallback is the
\* least recently used window.
OnDestroySilently(m, id) ==
  LET left == [m EXCEPT !.records = Drop(@, {id}), !.mru = Without(@, id)]
  IN  [model   |-> IF left.mru = << >> THEN left
                   ELSE [left EXCEPT !.records = MarkActive(@, left.mru[1])],
       actions |-> << >>]

OnDestroyPicksOldest(m, id) ==
  IF id \notin Tracked(m) THEN [model |-> m, actions |-> << >>]
  ELSE LET left   == [m EXCEPT !.records = Drop(@, {id}), !.mru = Without(@, id)]
           oldest == left.mru[Len(left.mru)]
       IN  IF ActiveWindow(m) # id \/ left.mru = << >>
           THEN [model |-> left, actions |-> << >>]
           ELSE [model   |-> [left EXCEPT !.records = MarkActive(@, oldest),
                                          !.mru = Cons(oldest, Without(@, oldest))],
                 actions |-> << ActivatePrevious(oldest) >>]

(***************************************************************************)
(* on_destroy.  Losing the active window falls back to the most recently   *)
(* used one that remains.                                                  *)
(***************************************************************************)
OnDestroy(m, id) ==
  IF id \notin Tracked(m) THEN [model |-> m, actions |-> << >>]
  ELSE LET left     == [m EXCEPT !.records = Drop(@, {id}), !.mru = Without(@, id)]
           fallback == ActiveWindow(left)
       IN  IF ActiveWindow(m) # id \/ fallback = NoWindow
           THEN [model |-> left, actions |-> << >>]
           ELSE [model   |-> [left EXCEPT !.records = MarkActive(@, fallback)],
                 actions |-> << ActivatePrevious(fallback) >>]

\* Mutant of OnActivate: the old MRU entry is left behind.
OnActivateKeepsEntry(m, id) ==
  IF id \notin Tracked(m) \/ ActiveWindow(m) = id
  THEN [model |-> m, actions |-> << NoAction >>]
  ELSE [model   |-> [m EXCEPT !.records = MarkActive(@, id), !.mru = Cons(id, @)],
        actions |-> << Activate(id) >>]

(***************************************************************************)
(* activate.  An unknown id yields no action, the active one NoAction.     *)
(***************************************************************************)
OnActivate(m, id) ==
  IF id \notin Tracked(m) THEN [model |-> m, actions |-> << >>]
  ELSE IF ActiveWindow(m) = id THEN [model |-> m, actions |-> << NoAction >>]
  ELSE [model   |-> [m EXCEPT !.records = MarkActive(@, id),
                              !.mru     = Cons(id, Without(@, id))],
        actions |-> << Activate(id) >>]

\* record_mut followed by one assignment: unknown ids are ignored.
Update(m, id, F(_)) ==
  IF id \notin Tracked(m) THEN m ELSE [m EXCEPT !.records[id] = F(@)]

OnTitle(m, id, title) == Update(m, id, LAMBDA r : [r EXCEPT !.title = title])
OnAppId(m, id, app)   == Update(m, id, LAMBDA r : [r EXCEPT !.app = app])

\* Mutant of OnCommit: a late commit winds the counter back.
OnCommitOverwrites(m, id, commitSeq) ==
  Update(m, id, LAMBDA r : [r EXCEPT !.lastCommitSeq = commitSeq])

\* max keeps the per-window watermark monotonic under late or repeated commits.
OnCommit(m, id, commitSeq) ==
  Update(m, id, LAMBDA r :
    [r EXCEPT !.lastCommitSeq = IF commitSeq > @ THEN commitSeq ELSE @])

\* u32::saturating_add(1) and u32::saturating_sub(1).
OnPopupAdded(m, id) ==
  Update(m, id, LAMBDA r :
    [r EXCEPT !.popupCount = IF @ < PopupMax THEN @ + 1 ELSE @])
OnPopupRemoved(m, id) ==
  Update(m, id, LAMBDA r :
    [r EXCEPT !.popupCount = IF @ > 0 THEN @ - 1 ELSE @])

(***************************************************************************)
(* on_output_size re-tiles every window, the inactive ones included, and   *)
(* configures them in creation order.                                      *)
(***************************************************************************)
OnOutputSize(m, rect) ==
  [m EXCEPT !.rect    = rect,
            !.records = [w \in DOMAIN @ |-> [@[w] EXCEPT !.geometry = rect]]]
Reconfigured(m) == {Configure(w, m.rect) : w \in Tracked(m)}
============================================================================
