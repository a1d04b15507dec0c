-------------------------- MODULE StreamSubscriber ---------------------------
(***************************************************************************)
(* The compositor with one subscriber that folds the events it is sent and *)
(* nothing else, as a consumer of the stream does that never asks for a    *)
(* snapshot.                                                               *)
(***************************************************************************)
EXTENDS Compositor

VARIABLE
  mirror   \* what the subscriber knows: window -> [commits, title, popups],
           \* the focused window, and whether every event made sense to it

subscriberVars == << vars, mirror >>

SubscriberInit ==
  /\ Init
  /\ mirror = [windows |-> NoEntries, focus |-> NoWindow, sane |-> TRUE]

NewWindow == [commits |-> 0, title |-> None, popups |-> {}]

\* How the subscriber takes one event; anything out of place is remembered.
Fold(view, e) ==
  LET w == e.window
      known == w \in DOMAIN view.windows
      upd(r) == [view EXCEPT !.windows[w] = r]
      insane == [view EXCEPT !.sane = FALSE]
  IN  CASE e.kind = "created" ->
             IF known THEN insane
             ELSE [view EXCEPT !.windows = Put(@, w, NewWindow)]
        [] e.kind # "created" /\ ~known -> insane
        [] e.kind = "destroyed" /\ known ->
             IF view.windows[w].popups = {}
             THEN [view EXCEPT !.windows = Drop(@, {w})] ELSE insane
        [] e.kind = "commit" /\ known ->
             IF e.commitSeq = view.windows[w].commits + 1
             THEN upd([view.windows[w] EXCEPT !.commits = e.commitSeq]) ELSE insane
        [] e.kind = "title" /\ known ->
             upd([view.windows[w] EXCEPT !.title = e.title])
        [] e.kind = "popup" /\ known ->
             IF e.popup \in view.windows[w].popups THEN insane
             ELSE upd([view.windows[w] EXCEPT !.popups = @ \cup {e.popup}])
        [] e.kind = "popup_gone" /\ known ->
             IF e.popup \notin view.windows[w].popups THEN insane
             ELSE upd([view.windows[w] EXCEPT !.popups = @ \ {e.popup}])
        [] e.kind = "activated" /\ known ->
             \* previous is the focused window of the stream, unless it just died
             IF e.previous \in {view.focus, NoWindow} THEN view ELSE insane
        [] e.kind = "focus" /\ known -> [view EXCEPT !.focus = w]

FoldAll(view, events) ==
  LET fold[i \in 0 .. Len(events)] ==
        IF i = 0 THEN view ELSE Fold(fold[i - 1], events[i].event)
  IN  fold[Len(events)]

SubscriberNext == Next /\ mirror' = FoldAll(mirror, published')

SubscriberSpec == SubscriberInit /\ [][SubscriberNext]_subscriberVars

-----------------------------------------------------------------------------
(***************************************************************************)
(* A subscriber that saw every event knows every window, its commit        *)
(* counter and its popups, and the focused window as long as there is one; *)
(* no event ever concerns a window it was not told of or that is already   *)
(* gone (state.rs on_toplevel_destroyed).                                  *)
(***************************************************************************)
SubscriberMirrorsState ==
  /\ mirror.sane
  /\ DOMAIN mirror.windows = Tracked(wm)
  /\ \A w \in Tracked(wm) :
       /\ mirror.windows[w].commits = wm.records[w].lastCommitSeq
       /\ mirror.windows[w].popups = {popups[p].id : p \in PopupsOf(w)}
  /\ Tracked(wm) # {} => mirror.focus = ActiveWindow(wm)
==============================================================================
