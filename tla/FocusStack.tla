----------------------------- MODULE FocusStack -----------------------------
(***************************************************************************)
(* What the window manager promises, with no list and no record: a set of  *)
(* open windows, a recency relation on them (<<a, b>> when a was used more *)
(* recently than b), and the one window in front, which is always the most *)
(* recently used open window.                                              *)
(***************************************************************************)
EXTENDS Naturals

CONSTANTS
  Windows,   \* the ids a window may have
  Nobody     \* the value of front when no window is open

VARIABLES
  open,     \* the windows that exist
  newer,    \* recency
  front     \* the visible, focused window

fvars == << open, newer, front >>

\* The windows of S used more recently than every other window of S.
Newest(S, rel) == {w \in S : \A v \in S \ {w} : << w, v >> \in rel}

FrontOf(S, rel) == IF S = {} THEN Nobody ELSE CHOOSE w \in Newest(S, rel) : TRUE

Init == open = {} /\ newer = {} /\ front = Nobody

Open(w) ==
  /\ w \notin open
  /\ open' = open \cup {w}
  /\ newer' = newer \cup ({w} \X open)
  /\ front' = w

Close(w) ==
  /\ w \in open
  /\ open' = open \ {w}
  /\ newer' = newer \cap (open' \X open')
  /\ front' = IF front = w THEN FrontOf(open', newer') ELSE front

Touch(w) ==
  /\ w \in open
  /\ open' = open
  /\ newer' = (newer \ (open \X {w})) \cup ({w} \X (open \ {w}))
  /\ front' = w

Next == \E w \in Windows : Open(w) \/ Close(w) \/ Touch(w)

Spec == Init /\ [][Next]_fvars
============================================================================
