---------------------------- MODULE RuntimeSource ----------------------------
(***************************************************************************)
(* What every consumer of the runtime event stream relies on, and all of   *)
(* what the compositor promises them: which windows exist, their commit    *)
(* counters, one sequence counter, and the batch of events each step       *)
(* publishes.  A window's first event is "created", its last "destroyed",  *)
(* its commits are numbered 1, 2, 3, and every number is used once.        *)
(***************************************************************************)
EXTENDS Maps

CONSTANTS
  WindowIds,   \* an initial segment of 1, 2, 3, ...
  SeqBound     \* bound: sequence numbers ever allocated

VARIABLES
  live,        \* the existing windows and their commit counters
  nextWindow,  \* the next window id
  seq,         \* the last sequence number allocated
  batch        \* the events the last step published, in order

svars == << live, nextWindow, seq, batch >>

SrcEvent(kind, w, n) == [kind |-> kind, window |-> w, n |-> n]
Notice(w) == SrcEvent("notice", w, 0)

\* Number the events of one step consecutively.
Publish(events) ==
  /\ seq + Len(events) <= SeqBound
  /\ seq' = seq + Len(events)
  /\ batch' = [i \in 1 .. Len(events) |-> [seq |-> seq + i, event |-> events[i]]]

SrcInit == live = NoEntries /\ nextWindow = 1 /\ seq = 0 /\ batch = << >>

\* A toplevel maps: it becomes active and its first commit is accounted.
Open ==
  /\ nextWindow \in WindowIds
  /\ live' = Put(live, nextWindow, 1)
  /\ nextWindow' = nextWindow + 1
  /\ Publish(<< SrcEvent("created", nextWindow, 0), Notice(nextWindow),
                Notice(nextWindow), SrcEvent("commit", nextWindow, 1) >>)

Commit(w) ==
  /\ w \in DOMAIN live
  /\ live' = [live EXCEPT ![w] = @ + 1]
  /\ Publish(<< SrcEvent("commit", w, live[w] + 1) >>)
  /\ UNCHANGED nextWindow

\* Notices of w (its popups disappear), its end, and notices of a fallback.
Close(w) ==
  /\ w \in DOMAIN live
  /\ live' = Drop(live, {w})
  /\ \E k \in 0 .. SeqBound :
       LET last == [i \in 1 .. k |-> Notice(w)] \o << SrcEvent("destroyed", w, 0) >>
       IN  \/ Publish(last)
           \/ \E v \in DOMAIN live \ {w} : Publish(last \o << Notice(v), Notice(v) >>)
  /\ UNCHANGED nextWindow

\* Activation (two notices), a title or a popup (one).
Tell(w) ==
  /\ w \in DOMAIN live
  /\ Publish(<< Notice(w) >>) \/ Publish(<< Notice(w), Notice(w) >>)
  /\ UNCHANGED << live, nextWindow >>

\* A number is reserved for an event the server publishes itself.
Reserve ==
  /\ seq < SeqBound
  /\ seq' = seq + 1
  /\ batch' = << >>
  /\ UNCHANGED << live, nextWindow >>

\* A handler that concerns no subscriber.
Quiet == batch' = << >> /\ UNCHANGED << live, nextWindow, seq >>

SrcNext ==
  \/ Open \/ Reserve \/ Quiet
  \/ \E w \in WindowIds : Commit(w) \/ Close(w) \/ Tell(w)

SrcSpec == SrcInit /\ [][SrcNext]_svars
============================================================================
