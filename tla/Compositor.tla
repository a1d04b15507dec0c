----------------------------- MODULE Compositor -----------------------------
(***************************************************************************)
(* The compositor thread: the Wayland handlers and the command dispatcher  *)
(* of adesk-compositor over the surface registry, the window bridge, the   *)
(* window manager, the seat's keyboard focus and the event sink.  The      *)
(* thread is single, so every handler is one action; what interleaves is   *)
(* the order in which clients and the server reach it.                     *)
(*                                                                         *)
(* Surfaces are model values; a wl_surface may be given its role again     *)
(* after the role object was destroyed, so a surface is registered any     *)
(* number of times.  Damage, geometry and rendering are left out.          *)
(***************************************************************************)
EXTENDS WindowPolicy, LaunchLedger

CONSTANTS
  Toplevels, Popups,   \* wl_surfaces by role
  PidOf,               \* toplevel -> process id of its client, or None
  Apps, Titles,        \* what set_app_id and set_title may pass
  LaunchApp,           \* launch -> application id
  LaunchPid,           \* launch -> process id of the spawned child
  NoSurface,
  MaxSeq, MaxKeys, MaxWindows, MaxLaunches  \* bounds: numbers of each ever allocated

ASSUME CompositorAssumption ==
  /\ Toplevels \cap Popups = {} /\ NoSurface \notin Toplevels \cup Popups
  /\ MaxSeq \in Nat /\ MaxKeys \in Nat /\ MaxWindows \in Nat /\ MaxLaunches \in Nat
  /\ None \notin 1 .. MaxLaunches

VARIABLES
  wm,          \* adesk_wm::WindowManager
  slots,       \* SurfaceRegistry::toplevels: surface -> [key, window]
  owners,      \* SurfaceRegistry::owners: surface -> window
  popups,      \* SurfaceRegistry::popups: surface -> [window, id, parent]
  nextKey, nextPopup,
  toplevels,   \* WmBridge::toplevels, its key set
  roots,       \* WmBridge::roots: window -> surface
  handles,     \* WmBridge::popup_handles, its key set
  grab,        \* WmBridge::grab
  ledger, launchIds, appIds,
  nextLaunch,  \* external: the registry's launch id counter
  focus,       \* the seat's keyboard focus: a root surface, or NoSurface
  lastSeq,     \* EventSink::last_seq
  published,   \* the events the last handler broadcast, in order
  meta,        \* external: toplevel -> [app, title] set by the client
  popupObjs    \* external: the xdg_popup objects that exist

bridge  == << slots, owners, popups, nextKey, nextPopup, toplevels, roots, handles >>
launchVars == << ledger, launchIds, appIds, nextLaunch >>
client  == << meta, popupObjs >>
vars == << wm, bridge, grab, launchVars, focus, lastSeq, published, client >>

NoGrab == [popup |-> NoSurface, window |-> NoWindow, id |-> 0]
TiledRect == "tiled"
Ids == 1 .. MaxWindows

-----------------------------------------------------------------------------
(* The event sink.                                                         *)

Event(kind, window)    == [kind |-> kind, window |-> window]
Created(w, launch)     == [kind |-> "created", window |-> w, launch |-> launch]
Destroyed(w)           == Event("destroyed", w)
Activated(w, previous) == [kind |-> "activated", window |-> w, previous |-> previous]
FocusChanged(w)        == Event("focus", w)
TitleChanged(w, title) == [kind |-> "title", window |-> w, title |-> title]
Committed(w, n)        == [kind |-> "commit", window |-> w, commitSeq |-> n]
PopupEvent(kind, w, p) == [kind |-> kind, window |-> w, popup |-> p]

\* Mutant of Emit: a handler takes one number for all its events.
EmitOneNumber(events) ==
  /\ lastSeq + 1 <= MaxSeq
  /\ lastSeq' = IF events = << >> THEN lastSeq ELSE lastSeq + 1
  /\ published' = [i \in 1 .. Len(events) |-> [seq |-> lastSeq + 1, event |-> events[i]]]

\* next_seq and emit, once per event: numbers are consecutive.
Emit(events) ==
  /\ lastSeq + Len(events) <= MaxSeq
  /\ lastSeq' = lastSeq + Len(events)
  /\ published' = [i \in 1 .. Len(events) |-> [seq |-> lastSeq + i, event |-> events[i]]]

Silent == Emit(<< >>)

-----------------------------------------------------------------------------
(* Reading the bridge.                                                     *)

KeyboardFocus == ActiveWindow(wm)
\* surface_of: the root of a window, given the roots and toplevels tables.
SurfaceOf(w, rootOf, registered) ==
  IF w \in DOMAIN rootOf /\ rootOf[w] \in registered THEN rootOf[w] ELSE NoSurface
WindowForSurface(s) == Get(owners, s, NoWindow)

\* The activations in a list of WmActions; the policy returns at most one.
Activations(actions) ==
  {a \in Elems(actions) : a.act \in {"activate", "activate_previous"}}
Activation(actions) == CHOOSE a \in Activations(actions) : TRUE

\* The events of apply_activate.
ActivationEvents(actions, previous) ==
  LET hit == Activation(actions)
  IN  IF Activations(actions) = {} THEN << >>
      ELSE << Activated(hit.id, IF hit.act = "activate" THEN previous ELSE NoWindow),
              FocusChanged(hit.id) >>

(***************************************************************************)
(* apply_decision: an activation dismisses the grab of another window, then*)
(* moves the seat's focus to the window's root surface as it is now.       *)
(***************************************************************************)
ApplyDecision(actions) ==
  LET id == Activation(actions).id
  IN  IF Activations(actions) = {} THEN UNCHANGED << grab, focus >>
      ELSE /\ grab' = IF grab.window # id THEN NoGrab ELSE grab
           /\ focus' = SurfaceOf(id, roots', toplevels')

Init ==
  /\ wm = EmptyModel(TiledRect)
  /\ slots = NoEntries /\ owners = NoEntries /\ popups = NoEntries
  /\ nextKey = 1 /\ nextPopup = 1
  /\ toplevels = {} /\ roots = NoEntries /\ handles = {}
  /\ grab = NoGrab
  /\ ledger = << >> /\ launchIds = NoEntries /\ appIds = NoEntries
  /\ nextLaunch = 1
  /\ focus = NoSurface
  /\ lastSeq = 0 /\ published = << >>
  /\ meta = [s \in Toplevels |-> [app |-> None, title |-> None]]
  /\ popupObjs = {}

-----------------------------------------------------------------------------
(* Toplevels.                                                              *)

\* new_toplevel: register_toplevel under a fresh key, initial configure.
NewToplevel(s) ==
  /\ s \notin DOMAIN slots /\ nextKey <= MaxKeys
  /\ slots' = Put(slots, s, [key |-> nextKey, window |-> NoWindow])
  /\ nextKey' = nextKey + 1
  /\ toplevels' = toplevels \cup {s}
  /\ meta' = [meta EXCEPT ![s] = [app |-> None, title |-> None]]
  /\ Silent
  /\ UNCHANGED << wm, owners, popups, nextPopup, roots, handles, grab,
                  launchVars, focus, popupObjs >>

(***************************************************************************)
(* on_surface_commit of a registered root whose buffer just arrived: map   *)
(* the toplevel, emit WindowCreated, apply the decision, then account the  *)
(* very same commit to the new window.                                     *)
(***************************************************************************)
FirstBuffer(s) ==
  /\ s \in DOMAIN slots /\ slots[s].window = NoWindow
  /\ wm.nextId <= MaxWindows
  /\ LET launch == Correlate(ledger, meta[s].app, PidOf[s], meta[s].title)
         req == [key |-> slots[s].key, app |-> meta[s].app, pid |-> PidOf[s],
                 title |-> meta[s].title, createdSeq |-> lastSeq]
         mapped == OnMap(wm, req)
         w == mapped.id
     IN  /\ wm' = OnCommit(mapped.model, w, 1)
         /\ slots' = [slots EXCEPT ![s].window = w]
         /\ owners' = Put(owners, s, w)
         /\ roots' = Put(roots, w, s)
         /\ appIds' = Put(appIds, w, meta[s].app)
         /\ ledger' = IF launch = None THEN ledger ELSE Take(ledger, launch)
         /\ launchIds' = IF launch = None THEN launchIds ELSE Put(launchIds, w, launch)
         /\ UNCHANGED << popups, nextKey, nextPopup, toplevels, handles, nextLaunch >>
         /\ ApplyDecision(mapped.actions)
         /\ Emit(<< Created(w, launch) >>
                 \o ActivationEvents(mapped.actions, KeyboardFocus)
                 \o << Committed(w, 1) >>)
  /\ UNCHANGED client

\* on_surface_commit of any surface of a mapped window's tree.
SurfaceCommit(s) ==
  /\ s \in DOMAIN owners
  /\ LET w == owners[s]
         n == (IF w \in Tracked(wm) THEN wm.records[w].lastCommitSeq ELSE 0) + 1
     IN  /\ wm' = OnCommit(wm, w, n)
         /\ Emit(<< Committed(w, n) >>)
  /\ UNCHANGED << bridge, grab, launchVars, focus, client >>

(***************************************************************************)
(* on_toplevel_destroyed: the window and its popups leave every table, the *)
(* popups' disappearance is reported first, in popup-id order, then the    *)
(* window's, then the fallback's activation.                               *)
(***************************************************************************)
\* Mutant of PopupsOf: only the popups opened on the root, not the nested ones.
PopupsOfRoot(w) ==
  {p \in DOMAIN popups : popups[p].window = w /\ popups[p].parent \in Toplevels}

PopupsOf(w) == {p \in DOMAIN popups : popups[p].window = w}

\* Mutant of InIdOrder: popups die unreported.
InIdOrderForgotten(S) == << >>

InIdOrder(S) ==
  [i \in 1 .. Cardinality(S) |->
     CHOOSE p \in S : Cardinality({q \in S : popups[q].id < popups[p].id}) = i - 1]

DestroyToplevel(s) ==
  /\ s \in DOMAIN slots
  /\ slots' = Drop(slots, {s})
  /\ toplevels' = toplevels \ {s}
  /\ LET w     == slots[s].window
         died  == IF w = NoWindow THEN {} ELSE PopupsOf(w)
         order == InIdOrder(died)
         gone  == IF w = NoWindow THEN [model |-> wm, actions |-> << >>]
                  ELSE OnDestroy(wm, w)
     IN  /\ wm' = gone.model
         /\ owners' = Drop(owners, {o \in DOMAIN owners : o = s \/ owners[o] = w})
         /\ popups' = Drop(popups, died)
         /\ handles' = handles \ died
         /\ roots' = Drop(roots, {w})
         /\ launchIds' = Drop(launchIds, {w})
         /\ appIds' = Drop(appIds, {w})
         /\ ApplyDecision(gone.actions)
         /\ Emit((IF w = NoWindow THEN << >>
                  ELSE [i \in 1 .. Len(order) |->
                          PopupEvent("popup_gone", w, popups[order[i]].id)]
                       \o << Destroyed(w) >>)
                 \o ActivationEvents(gone.actions, NoWindow))
  /\ UNCHANGED << nextKey, nextPopup, ledger, nextLaunch, client >>

\* set_title: an event only when a mapped window's title really changes.
SetTitle(s, title) ==
  /\ s \in toplevels
  /\ meta' = [meta EXCEPT ![s].title = title]
  /\ LET w == WindowForSurface(s)
         changed == w # NoWindow /\ wm.records[w].title # title
     IN  IF changed
         THEN wm' = OnTitle(wm, w, title) /\ Emit(<< TitleChanged(w, title) >>)
         ELSE UNCHANGED wm /\ Silent
  /\ UNCHANGED << bridge, grab, launchVars, focus, popupObjs >>

(***************************************************************************)
(* set_app_id, note_app_id: written back to the model without an event; a  *)
(* window that has no launch yet is correlated again.                      *)
(***************************************************************************)
SetAppId(s, app) ==
  /\ s \in toplevels
  /\ meta' = [meta EXCEPT ![s].app = app]
  /\ Silent
  /\ LET w == WindowForSurface(s)
         launch == IF w \in DOMAIN launchIds THEN None
                   ELSE Correlate(ledger, app, wm.records[w].pid, meta[s].title)
     IN  IF w = NoWindow \/ Get(appIds, w, None) = app
         THEN UNCHANGED << wm, ledger, launchIds, appIds >>
         ELSE /\ wm' = OnAppId(wm, w, app)
              /\ appIds' = Put(appIds, w, app)
              /\ ledger' = IF launch = None THEN ledger ELSE Take(ledger, launch)
              /\ launchIds' = IF launch = None THEN launchIds
                              ELSE Put(launchIds, w, launch)
  /\ UNCHANGED << bridge, grab, focus, nextLaunch, popupObjs >>

-----------------------------------------------------------------------------
(* Popups.                                                                 *)

(***************************************************************************)
(* new_popup, popup_added: attributed to the window of the parent surface, *)
(* which may itself be a popup; not tracked when that window is unknown.   *)
(***************************************************************************)
NewPopup(p, parent) ==
  /\ p \notin popupObjs
  /\ popupObjs' = popupObjs \cup {p}
  /\ LET w == WindowForSurface(parent)
         known == p \in DOMAIN popups
         id == IF known THEN popups[p].id ELSE nextPopup
     IN  IF w = NoWindow
         THEN Silent /\ UNCHANGED << wm, owners, popups, nextPopup, handles >>
         ELSE /\ popups' = IF known THEN popups
                           ELSE Put(popups, p, [window |-> w, id |-> id, parent |-> parent])
              /\ owners' = IF known THEN owners ELSE Put(owners, p, w)
              /\ nextPopup' = IF known THEN nextPopup ELSE nextPopup + 1
              /\ handles' = handles \cup {p}
              /\ wm' = OnPopupAdded(wm, w)
              /\ Emit(<< PopupEvent("popup", w, id) >>)
  /\ UNCHANGED << slots, nextKey, toplevels, roots, grab, launchVars, focus, meta >>

\* grab: recorded for a tracked popup, whichever window is active.
GrabPopup(p) ==
  /\ p \in popupObjs /\ p \in DOMAIN popups
  /\ grab' = [popup |-> p, window |-> popups[p].window, id |-> popups[p].id]
  /\ Silent
  /\ UNCHANGED << wm, bridge, launchVars, focus, client >>

\* Mutant of Untrack: the window model is not told of a destroyed popup.
UntrackUncounted(p) ==
  /\ popups' = Drop(popups, {p})
  /\ owners' = Drop(owners, {p})
  /\ handles' = handles \ {p}
  /\ UNCHANGED << wm, grab >>
  /\ IF p \in DOMAIN popups
     THEN Emit(<< PopupEvent("popup_gone", popups[p].window, popups[p].id) >>)
     ELSE Silent

\* on_popup_destroyed.
Untrack(p) ==
  IF p \notin DOMAIN popups
  THEN Silent /\ UNCHANGED << wm, owners, popups, handles, grab >>
  ELSE /\ popups' = Drop(popups, {p})
       /\ owners' = Drop(owners, {p})
       /\ handles' = handles \ {p}
       /\ grab' = IF grab.popup = p THEN NoGrab ELSE grab
       /\ wm' = OnPopupRemoved(wm, popups[p].window)
       /\ Emit(<< PopupEvent("popup_gone", popups[p].window, popups[p].id) >>)

\* The client destroys the xdg_popup (or disconnects).
DestroyPopup(p) ==
  /\ p \in popupObjs
  /\ popupObjs' = popupObjs \ {p}
  /\ Untrack(p)
  /\ UNCHANGED << slots, nextPopup, nextKey, toplevels, roots, launchVars, focus, meta >>

\* reposition_request of a popup that cannot follow: dismissed, object kept.
DismissPopup(p) ==
  /\ p \in popupObjs
  /\ Untrack(p)
  /\ UNCHANGED << slots, nextPopup, nextKey, toplevels, roots, launchVars, focus, client >>

-----------------------------------------------------------------------------
(* Commands from the server.                                               *)

\* activate_window: UnknownWindow changes nothing.
ActivateWindow(w) ==
  /\ w \in Tracked(wm)
  /\ UNCHANGED << bridge, launchVars, client >>
  /\ LET result == OnActivate(wm, w)
     IN  /\ wm' = result.model
         /\ ApplyDecision(result.actions)
         /\ Emit(ActivationEvents(result.actions, KeyboardFocus))

\* ReserveSeq: a number is handed out and no event is emitted.
ReserveSeq ==
  /\ lastSeq < MaxSeq
  /\ lastSeq' = lastSeq + 1
  /\ published' = << >>
  /\ UNCHANGED << wm, bridge, grab, launchVars, focus, client >>

\* NoteLaunch: the registry spawned a process under a fresh launch id.
NoteLaunch ==
  /\ nextLaunch <= MaxLaunches
  /\ nextLaunch' = nextLaunch + 1
  /\ ledger' = Record(ledger,
                 Pending(nextLaunch, LaunchApp[nextLaunch], LaunchPid[nextLaunch]))
  /\ Silent
  /\ UNCHANGED << wm, bridge, grab, launchIds, appIds, focus, client >>

\* LAUNCH_CORRELATION_TIMEOUT passes for the oldest fresh launch.
LaunchTimeout ==
  /\ \E i \in 1 .. Len(ledger) : ledger[i].fresh
  /\ ledger' = Age(ledger)
  /\ Silent
  /\ UNCHANGED << wm, bridge, grab, launchIds, appIds, nextLaunch, focus, client >>

Next ==
  \/ \E s \in Toplevels :
       \/ NewToplevel(s) \/ FirstBuffer(s) \/ DestroyToplevel(s)
       \/ \E title \in Titles : SetTitle(s, title)
       \/ \E app \in Apps : SetAppId(s, app)
  \/ \E s \in Toplevels \cup Popups : SurfaceCommit(s)
  \/ \E p \in Popups :
       \/ \E parent \in Toplevels \cup Popups : NewPopup(p, parent)
       \/ GrabPopup(p) \/ DestroyPopup(p) \/ DismissPopup(p)
  \/ \E w \in Ids : ActivateWindow(w)
  \/ NoteLaunch \/ LaunchTimeout \/ ReserveSeq

Spec == Init /\ [][Next]_vars

-----------------------------------------------------------------------------
(* Properties.                                                             *)

\* The parts of the coherence of the bridge, one per pair of tables.
WindowsCoherent ==
  /\ DOMAIN roots = Tracked(wm) /\ DOMAIN appIds = Tracked(wm)
  /\ toplevels = DOMAIN slots
  /\ \A w \in Tracked(wm) :
       /\ roots[w] \in DOMAIN slots
       /\ slots[roots[w]] = [key |-> wm.records[w].key, window |-> w]
       /\ appIds[w] = wm.records[w].app
  /\ \A s \in DOMAIN slots : slots[s].window # NoWindow =>
       slots[s].window \in Tracked(wm) /\ roots[slots[s].window] = s

OwnersCoherent ==
  /\ DOMAIN owners = {roots[w] : w \in Tracked(wm)} \cup DOMAIN popups
  /\ \A w \in Tracked(wm) : owners[roots[w]] = w
  /\ DOMAIN popups = handles /\ handles \subseteq popupObjs
  /\ \A p \in DOMAIN popups : popups[p].window \in Tracked(wm) /\ owners[p] = popups[p].window

FocusCoherent == Tracked(wm) # {} => focus = roots[ActiveWindow(wm)]

(***************************************************************************)
(* The tables of the bridge, the registry and the window model always      *)
(* describe the same windows: "active/focus ids always name a tracked      *)
(* window with a root surface", so no snapshot names a window RenderWindow *)
(* would fail to find, and no table keeps an entry of a dead window.       *)
(***************************************************************************)
BridgeCoherent == WindowsCoherent /\ OwnersCoherent /\ FocusCoherent

(***************************************************************************)
(* popup_count is kept by increments in one crate and the popup records in *)
(* another; they agree however popups are created, dismissed, destroyed    *)
(* twice, nested, or orphaned by their window.                             *)
(***************************************************************************)
PopupCountsAgree ==
  \A w \in Tracked(wm) : wm.records[w].popupCount = Cardinality(PopupsOf(w))

(***************************************************************************)
(* A launch is reported for at most one window and is then forgotten:      *)
(* "Remove a correlated launch so it cannot match a second window"         *)
(* (wm.rs LaunchLedger::take), also when the application id arrives late   *)
(* or the timeout passes in between.                                       *)
(***************************************************************************)
LaunchAttributedOnce ==
  /\ \A v, w \in DOMAIN launchIds : launchIds[v] = launchIds[w] => v = w
  /\ \A w \in DOMAIN launchIds, i \in 1 .. Len(ledger) : ledger[i].launch # launchIds[w]
  /\ Len(ledger) <= LedgerCap

(***************************************************************************)
(* The compositor implements the source the event pipeline is built on.    *)
(***************************************************************************)
Abstract(e) ==
  CASE e.kind \in {"created", "destroyed"} -> [kind |-> e.kind, window |-> e.window, n |-> 0]
    [] e.kind = "commit" -> [kind |-> "commit", window |-> e.window, n |-> e.commitSeq]
    [] OTHER -> [kind |-> "notice", window |-> e.window, n |-> 0]

Source == INSTANCE RuntimeSource WITH
  WindowIds  <- Ids,
  SeqBound   <- MaxSeq,
  live       <- [w \in Tracked(wm) |-> wm.records[w].lastCommitSeq],
  nextWindow <- wm.nextId,
  seq        <- lastSeq,
  batch      <- [i \in 1 .. Len(published) |->
                   [seq |-> published[i].seq, event |-> Abstract(published[i].event)]]

ImplementsRuntimeSource == Source!SrcSpec
============================================================================
