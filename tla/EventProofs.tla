---------------------------- MODULE EventProofs ----------------------------
(***************************************************************************)
(* What becomes of the runtime's events, for every bound on the way.       *)
(*   - The pipeline to the observer, for every channel capacity, journal   *)
(*     capacity and number of windows, actions and reserved numbers. The   *)
(*     invariant behind the results says what the bounded channel may lose:*)
(*     whatever the observer does not know, or the reply it awaits does not*)
(*     hold, is still in the channel, unless the channel is known to have  *)
(*     lost something.                                                     *)
(*   - The notification store, the event stream and the agent's waits: that*)
(*     store and stream agree, and that an agent which resumes with care   *)
(*     misses only what was late or evicted.                               *)
(***************************************************************************)
EXTENDS EventPipeline, EventInbox, ObserverTheorems

-----------------------------------------------------------------------------
(* The inductive invariant.                                                *)

SrcEvents == [kind : EventKinds \cup {"server"}, window : Nat, n : Nat]

Published == [seq : Nat, event : SrcEvents]

SourceTyped ==
  /\ nextWindow \in Nat \ {0} /\ seq \in Nat
  /\ DOMAIN live \subseteq 1 .. nextWindow - 1
  /\ \A w \in DOMAIN live : live[w] \in Nat \ {0}

QueueTyped ==
  /\ queue \in Seq(Published) /\ \A i \in 1 .. Len(queue) : queue[i].seq <= seq
  /\ reserved \subseteq 0 .. seq
  /\ missed \in BOOLEAN

Actions == [window : WindowIds, seq : Nat, touched : BOOLEAN, served : BOOLEAN,
            effect : Nat, commits : Nat]

ActionsTyped == actions \in Seq(Actions) /\ \A a \in 1 .. Len(actions) : actions[a].seq <= seq

PumpTyped ==
  /\ pump \in {"receiving", "awaiting"}
  /\ pump = "receiving" => snap = NoSnapshot
  /\ snap # NoSnapshot => SnapshotTyped(snap) /\ snap.seq <= seq
  /\ ObserverTyped(obs) /\ obs.watermark <= seq

About(e, w) == e.event.kind # "server" /\ e.event.window = w

\* The end of w is in the list q of published events behind position i.
EndFollows(q, i, w) ==
  \E j \in i + 1 .. Len(q) : About(q[j], w) /\ q[j].event.kind = "destroyed"

\* The last known counter of w is in q.
CommitQueued(q, w, n) ==
  \E i \in 1 .. Len(q) : About(q[i], w) /\ q[i].event.kind = "commit" /\ q[i].event.n = n

(***************************************************************************)
(* The events in q tell the truth about windows with the counters lv, all  *)
(* created before `next`: only the end of a dead window is called its end, *)
(* it follows whatever else q holds about it, and no commit is numbered    *)
(* beyond the counter.                                                     *)
(***************************************************************************)
Truthful(q, lv, next) ==
  \A i \in 1 .. Len(q), w \in Nat :
    About(q[i], w) =>
      /\ w \in 1 .. next - 1
      /\ q[i].event.kind = "destroyed" => w \notin DOMAIN lv
      /\ q[i].event.kind = "commit" /\ w \in DOMAIN lv => q[i].event.n <= lv[w]
      /\ q[i].event.kind # "destroyed" /\ w \notin DOMAIN lv => EndFollows(q, i, w)

\* The counters of a windows map.
Counters(windows) == [w \in DOMAIN windows |-> windows[w].commits]

\* A map of counters never runs ahead of the windows.
NeverAhead(counters, lv, next) ==
  /\ DOMAIN counters \subseteq Nat
  /\ \A w \in DOMAIN counters : counters[w] \in Nat
  /\ \A w \in DOMAIN counters \cap DOMAIN lv : counters[w] <= lv[w]
  /\ \A w \in DOMAIN counters : w >= next => counters[w] = 0

\* What a map of counters misses, or has too much, q still has.
RestIn(q, counters, lv, next, named) ==
  /\ NeverAhead(counters, lv, next)
  /\ \A w \in DOMAIN lv : Get(counters, w, 0) # lv[w] => CommitQueued(q, w, lv[w])
  /\ \A w \in DOMAIN counters \ (DOMAIN lv \cup named) : EndFollows(q, 0, w)

(***************************************************************************)
(* Unless the channel lost something, the observer, or the reply it is     *)
(* about to apply, needs nothing but the channel to agree with the source. *)
(***************************************************************************)
Recoverable ==
  ~missed =>
    /\ pump = "receiving" => RestIn(queue, Counters(obs.windows), live, nextWindow, Named)
    /\ snap # NoSnapshot => RestIn(queue, snap.windows, live, nextWindow, Named)

ChannelInv ==
  /\ QueueTyped /\ PumpTyped
  /\ SnapshotNeverStale
  /\ Truthful(queue, live, nextWindow)
  /\ NeverAhead(Counters(obs.windows), live, nextWindow)
  /\ snap # NoSnapshot => NeverAhead(snap.windows, live, nextWindow)
  /\ Recoverable

ActionsInv == ActionsTyped /\ EffectsFollowTheirAction

IInv == SourceTyped /\ ChannelInv /\ ActionsInv

-----------------------------------------------------------------------------
(* Lists of published events.                                              *)

\* p is q without its first `shift` events.
SuffixOf(p, q, shift) ==
  /\ p \in Seq(Published) /\ Len(p) = Len(q) - shift
  /\ \A i \in 1 .. Len(p) : p[i] = q[i + shift]

\* broadcast::Sender::send drops the oldest events, and remembers that it did.
LEMMA BroadcastProperties ==
  ASSUME queue \in Seq(Published), missed \in BOOLEAN,
         NEW events \in Seq(Published), Broadcast(events)
  PROVE  /\ missed' \in BOOLEAN
         /\ missed => missed'
         /\ ~missed' => queue' = queue \o events
         /\ \E shift \in Nat : SuffixOf(queue', queue \o events, shift)
<1>1. PICK all \in Seq(Published) : all = queue \o events
  BY ConcatProperties
<1>2. /\ queue' = IF Len(all) > QueueCap THEN SubSeq(all, Len(all) - QueueCap + 1, Len(all)) ELSE all
      /\ missed' = (missed \/ Len(all) > QueueCap)
  BY <1>1 DEF Broadcast
<1>3. Len(all) \in Nat /\ QueueCap \in Nat
  BY PipelineAssumption
<1>4. CASE Len(all) > QueueCap
  <2> DEFINE shift == Len(all) - QueueCap
  <2>1. shift \in Nat /\ queue' = SubSeq(all, shift + 1, Len(all))
    BY <1>2, <1>3, <1>4
  <2>2. \A i \in shift + 1 .. Len(all) : all[i] \in Published
    BY <1>3, <2>1
  <2>3. /\ queue' \in Seq(Published) /\ Len(queue') = Len(all) - shift
        /\ \A i \in 1 .. Len(queue') : queue'[i] = all[i + shift]
    <3> HIDE DEF shift
    <3>1. shift + 1 \in Int /\ Len(all) \in Int
      BY <1>3, <2>1
    <3>2. /\ queue' \in Seq(Published)
          /\ Len(queue') = IF shift + 1 <= Len(all) THEN Len(all) - (shift + 1) + 1 ELSE 0
          /\ \A i \in 1 .. Len(all) - (shift + 1) + 1 : queue'[i] = all[shift + 1 + i - 1]
      BY <2>1, <2>2, <3>1, SubSeqProperties
    <3>3. shift + 1 <= Len(all)
      BY <1>3, <1>4, PipelineAssumption DEF shift
    <3> QED
      BY <1>3, <2>1, <3>2, <3>3
  <2> QED
    BY <1>1, <1>2, <1>4, <2>1, <2>3 DEF SuffixOf
<1>5. CASE ~ (Len(all) > QueueCap)
  <2>1. queue' = all /\ missed' = missed
    BY <1>2, <1>5
  <2>2. SuffixOf(queue', all, 0)
    BY <1>3, <2>1 DEF SuffixOf
  <2> QED
    BY <1>1, <2>1, <2>2
<1> QED
  BY <1>4, <1>5

\* The positions of a concatenation.
Joined(q, events, all) ==
  /\ all \in Seq(Published)
  /\ Len(q) \in Nat /\ Len(events) \in Nat /\ Len(all) = Len(q) + Len(events)
  /\ \A i \in 1 .. Len(q) : i \in 1 .. Len(all) /\ all[i] = q[i]
  /\ \A i \in 1 .. Len(events) : Len(q) + i \in 1 .. Len(all) /\ all[Len(q) + i] = events[i]
  /\ \A i \in 1 .. Len(all) : i \in 1 .. Len(q) \/ \E j \in 1 .. Len(events) : i = Len(q) + j

LEMMA ConcatPositions ==
  ASSUME NEW q \in Seq(Published), NEW events \in Seq(Published)
  PROVE  Joined(q, events, q \o events)
<1> DEFINE all == q \o events
<1>1. Len(q) \in Nat /\ Len(events) \in Nat
  OBVIOUS
<1>2. /\ all \in Seq(Published)
      /\ Len(all) = Len(q) + Len(events)
      /\ \A i \in 1 .. Len(q) + Len(events) :
           all[i] = IF i <= Len(q) THEN q[i] ELSE events[i - Len(q)]
  BY ConcatProperties
<1> HIDE DEF all
<1>3. ASSUME NEW i \in 1 .. Len(events)
      PROVE  Len(q) + i \in 1 .. Len(all) /\ all[Len(q) + i] = events[i]
  <2>1. PICK l \in Nat, m \in Nat : l = Len(q) /\ m = Len(events)
    BY <1>1
  <2>2. i \in 1 .. m /\ Len(all) = l + m
    BY <1>2, <2>1
  <2>3. l + i \in 1 .. l + m /\ ~ (l + i <= l) /\ (l + i) - l = i
    BY <2>2
  <2>4. all[l + i] = IF l + i <= l THEN q[l + i] ELSE events[(l + i) - l]
    BY <1>2, <2>1, <2>3
  <2> QED
    BY <2>1, <2>2, <2>3, <2>4
<1>4. ASSUME NEW i \in 1 .. Len(all), i \notin 1 .. Len(q)
      PROVE  \E j \in 1 .. Len(events) : i = Len(q) + j
  <2>1. i - Len(q) \in 1 .. Len(events) /\ i = Len(q) + (i - Len(q))
    BY <1>1, <1>2, <1>4
  <2> QED
    BY <2>1
<1>5. \A i \in 1 .. Len(q) : i \in 1 .. Len(all) /\ all[i] = q[i]
  BY <1>1, <1>2
<1>6. Joined(q, events, all)
  BY <1>1, <1>2, <1>3, <1>4, <1>5 DEF Joined
<1> QED
  BY <1>6 DEF all

\* Dropping the oldest events leaves the others as truthful as they were.
LEMMA SuffixIsTruthful ==
  ASSUME NEW q \in Seq(Published), NEW p, NEW shift \in Nat, SuffixOf(p, q, shift),
         NEW lv, NEW next, Truthful(q, lv, next)
  PROVE  Truthful(p, lv, next)
<1> SUFFICES ASSUME NEW i \in 1 .. Len(p), NEW w \in Nat, About(p[i], w)
             PROVE  /\ w \in 1 .. next - 1
                    /\ p[i].event.kind = "destroyed" => w \notin DOMAIN lv
                    /\ p[i].event.kind = "commit" /\ w \in DOMAIN lv => p[i].event.n <= lv[w]
                    /\ p[i].event.kind # "destroyed" /\ w \notin DOMAIN lv => EndFollows(p, i, w)
  BY DEF Truthful
<1>1. /\ Len(p) \in Nat /\ Len(q) \in Nat /\ Len(p) = Len(q) - shift
      /\ \A j \in 1 .. Len(p) : p[j] = q[j + shift]
  BY DEF SuffixOf
<1>2. i + shift \in 1 .. Len(q) /\ p[i] = q[i + shift]
  BY <1>1
<1>3. About(q[i + shift], w)
  BY <1>2
<1>4. ASSUME EndFollows(q, i + shift, w)
      PROVE  EndFollows(p, i, w)
  <2>1. PICK j \in i + shift + 1 .. Len(q) : About(q[j], w) /\ q[j].event.kind = "destroyed"
    BY <1>4 DEF EndFollows
  <2>2. j - shift \in i + 1 .. Len(p) /\ p[j - shift] = q[j]
    BY <1>1, <2>1
  <2> QED
    BY <2>1, <2>2 DEF EndFollows
<1> QED
  BY <1>2, <1>3, <1>4 DEF Truthful

\* What is in the channel stays in it when events are appended.
LEMMA AppendKeeps ==
  ASSUME NEW q \in Seq(Published), NEW events \in Seq(Published), NEW w, NEW n, NEW i \in Nat
  PROVE  /\ CommitQueued(q, w, n) => CommitQueued(q \o events, w, n)
         /\ CommitQueued(events, w, n) => CommitQueued(q \o events, w, n)
         /\ EndFollows(q, i, w) => EndFollows(q \o events, i, w)
         /\ EndFollows(events, i, w) => EndFollows(q \o events, Len(q) + i, w)
         /\ EndFollows(events, 0, w) /\ i <= Len(q) => EndFollows(q \o events, i, w)
<1> DEFINE all == q \o events
<1>0. Joined(q, events, all)
  BY ConcatPositions
<1> HIDE DEF all
<1>1. /\ Len(q) \in Nat /\ Len(events) \in Nat /\ Len(all) = Len(q) + Len(events)
      /\ \A j \in 1 .. Len(q) : j \in 1 .. Len(all) /\ all[j] = q[j]
      /\ \A j \in 1 .. Len(events) : Len(q) + j \in 1 .. Len(all) /\ all[Len(q) + j] = events[j]
  BY <1>0 DEF Joined
<1>2. CommitQueued(q, w, n) => CommitQueued(all, w, n)
  BY <1>1 DEF CommitQueued
<1>3. CommitQueued(events, w, n) => CommitQueued(all, w, n)
  BY <1>1 DEF CommitQueued
<1>4. EndFollows(q, i, w) => EndFollows(all, i, w)
  <2> SUFFICES ASSUME NEW j \in i + 1 .. Len(q), About(q[j], w), q[j].event.kind = "destroyed"
               PROVE  EndFollows(all, i, w)
    BY DEF EndFollows
  <2>1. j \in 1 .. Len(q) /\ j \in i + 1 .. Len(all)
    BY <1>1
  <2> QED
    BY <1>1, <2>1 DEF EndFollows
<1>5. EndFollows(events, i, w) => EndFollows(all, Len(q) + i, w)
  <2> SUFFICES ASSUME NEW j \in i + 1 .. Len(events), About(events[j], w),
                      events[j].event.kind = "destroyed"
               PROVE  EndFollows(all, Len(q) + i, w)
    BY DEF EndFollows
  <2>1. j \in 1 .. Len(events) /\ Len(q) + j \in Len(q) + i + 1 .. Len(all)
    BY <1>1
  <2> QED
    BY <1>1, <2>1 DEF EndFollows
<1>6. ASSUME EndFollows(events, 0, w), i <= Len(q)
      PROVE  EndFollows(all, i, w)
  <2>1. PICK j \in 1 .. Len(events) : About(events[j], w) /\ events[j].event.kind = "destroyed"
    BY <1>1, <1>6 DEF EndFollows
  <2>2. Len(q) + j \in i + 1 .. Len(all)
    BY <1>1, <1>6
  <2> QED
    BY <1>1, <2>1, <2>2 DEF EndFollows
<1> QED
  BY <1>2, <1>3, <1>4, <1>5, <1>6 DEF all

-----------------------------------------------------------------------------
(* What the compositor does to its windows, and what it says of it.        *)

(***************************************************************************)
(* The counters lv of the windows created before nx become lv2 and nx2,    *)
(* and `events` accounts for all of the difference.                        *)
(***************************************************************************)
SourceMoves(lv, nx, lv2, nx2, events) ==
  /\ nx <= nx2
  /\ \A w \in DOMAIN lv2 : IF w \in DOMAIN lv THEN lv[w] <= lv2[w] ELSE w >= nx
  /\ \A w \in DOMAIN lv2 :
       (w \in DOMAIN lv /\ lv[w] = lv2[w]) \/ CommitQueued(events, w, lv2[w])
  /\ \A w \in DOMAIN lv \ DOMAIN lv2 : EndFollows(events, 0, w)
  /\ Truthful(events, lv2, nx2)

\* The channel stays truthful.
LEMMA AppendIsTruthful ==
  ASSUME NEW q \in Seq(Published), NEW events \in Seq(Published),
         NEW nx \in Nat, NEW nx2 \in Nat, NEW lv, NEW lv2,
         \A w \in DOMAIN lv : lv[w] \in Nat, \A w \in DOMAIN lv2 : lv2[w] \in Nat,
         Truthful(q, lv, nx), SourceMoves(lv, nx, lv2, nx2, events)
  PROVE  Truthful(q \o events, lv2, nx2)
<1> DEFINE all == q \o events
<1>0. Joined(q, events, all)
  BY ConcatPositions
<1> HIDE DEF all
<1>1. /\ Len(q) \in Nat /\ Len(events) \in Nat /\ Len(all) = Len(q) + Len(events)
      /\ \A j \in 1 .. Len(q) : j \in 1 .. Len(all) /\ all[j] = q[j]
      /\ \A j \in 1 .. Len(events) : Len(q) + j \in 1 .. Len(all) /\ all[Len(q) + j] = events[j]
      /\ \A i \in 1 .. Len(all) : i \in 1 .. Len(q) \/ \E j \in 1 .. Len(events) : i = Len(q) + j
  BY <1>0 DEF Joined
<1> USE DEF all
<1> SUFFICES ASSUME NEW i \in 1 .. Len(all), NEW w \in Nat, About(all[i], w)
             PROVE  /\ w \in 1 .. nx2 - 1
                    /\ all[i].event.kind = "destroyed" => w \notin DOMAIN lv2
                    /\ all[i].event.kind = "commit" /\ w \in DOMAIN lv2 => all[i].event.n <= lv2[w]
                    /\ all[i].event.kind # "destroyed" /\ w \notin DOMAIN lv2 => EndFollows(all, i, w)
  BY DEF Truthful
<1>2. CASE i \in 1 .. Len(q)
  <2>1. all[i] = q[i] /\ q[i].event.n \in Nat
    <3>1. q[i] \in Published
      BY <1>2
    <3> QED
      BY <1>1, <1>2, <3>1 DEF Published, SrcEvents
  <2>2. /\ w \in 1 .. nx - 1
        /\ q[i].event.kind = "destroyed" => w \notin DOMAIN lv
        /\ q[i].event.kind = "commit" /\ w \in DOMAIN lv => q[i].event.n <= lv[w]
        /\ q[i].event.kind # "destroyed" /\ w \notin DOMAIN lv => EndFollows(q, i, w)
    BY <1>2, <2>1 DEF Truthful
  <2>3. w \in 1 .. nx2 - 1
    BY <2>2 DEF SourceMoves
  <2>4. w \in DOMAIN lv2 => w \in DOMAIN lv /\ lv[w] <= lv2[w]
    <3>1. w < nx
      BY <2>2
    <3> QED
      BY <3>1 DEF SourceMoves
  <2>5. q[i].event.kind = "commit" /\ w \in DOMAIN lv2 => q[i].event.n <= lv2[w]
    <3> SUFFICES ASSUME q[i].event.kind = "commit", w \in DOMAIN lv2
                 PROVE  q[i].event.n <= lv2[w]
      OBVIOUS
    <3>1. q[i].event.n <= lv[w] /\ lv[w] <= lv2[w] /\ lv[w] \in Nat /\ lv2[w] \in Nat
      BY <2>2, <2>4
    <3> QED
      BY <2>1, <3>1
  <2>6. ASSUME q[i].event.kind # "destroyed", w \notin DOMAIN lv2
        PROVE  EndFollows(all, i, w)
    <3>1. i \in Nat /\ i <= Len(q)
      BY <1>1, <1>2
    <3>2. CASE w \in DOMAIN lv
      <4>1. EndFollows(events, 0, w)
        BY <2>6, <3>2 DEF SourceMoves
      <4> QED
        BY <3>1, <4>1, AppendKeeps
    <3>3. CASE w \notin DOMAIN lv
      BY <2>2, <2>6, <3>1, <3>3, AppendKeeps
    <3> QED
      BY <3>2, <3>3
  <2> HIDE DEF all
  <2> QED
    BY <2>1, <2>2, <2>3, <2>4, <2>5, <2>6
<1>3. CASE i \notin 1 .. Len(q)
  <2>1. PICK j \in 1 .. Len(events) : i = Len(q) + j /\ all[i] = events[j]
    BY <1>1, <1>3
  <2>2. /\ w \in 1 .. nx2 - 1
        /\ events[j].event.kind = "destroyed" => w \notin DOMAIN lv2
        /\ events[j].event.kind = "commit" /\ w \in DOMAIN lv2 => events[j].event.n <= lv2[w]
        /\ events[j].event.kind # "destroyed" /\ w \notin DOMAIN lv2 => EndFollows(events, j, w)
    BY <2>1 DEF SourceMoves, Truthful
  <2>3. EndFollows(events, j, w) => EndFollows(all, i, w)
    BY <2>1, AppendKeeps
  <2> HIDE DEF all
  <2> QED
    BY <2>1, <2>2, <2>3
<1> QED
  BY <1>2, <1>3

\* Counters that were not ahead of the source are not ahead of what it became.
LEMMA MoveKeepsNeverAhead ==
  ASSUME NEW nx \in Nat, NEW nx2 \in Nat, NEW lv, NEW lv2, NEW events, NEW counters,
         \A w \in DOMAIN lv : lv[w] \in Nat, \A w \in DOMAIN lv2 : lv2[w] \in Nat,
         NeverAhead(counters, lv, nx), SourceMoves(lv, nx, lv2, nx2, events)
  PROVE  NeverAhead(counters, lv2, nx2)
<1>1. /\ DOMAIN counters \subseteq Nat
      /\ \A w \in DOMAIN counters : counters[w] \in Nat
  BY DEF NeverAhead
<1>2. ASSUME NEW w \in DOMAIN counters \cap DOMAIN lv2
      PROVE  counters[w] <= lv2[w]
  <2>1. CASE w \in DOMAIN lv
    <3>1. counters[w] <= lv[w] /\ lv[w] <= lv2[w]
      BY <2>1 DEF NeverAhead, SourceMoves
    <3>2. counters[w] \in Nat /\ lv[w] \in Nat /\ lv2[w] \in Nat
      BY <1>1, <2>1
    <3> QED
      BY <3>1, <3>2
  <2>2. CASE w \notin DOMAIN lv
    <3>1. counters[w] = 0
      BY <2>2 DEF NeverAhead, SourceMoves
    <3>2. lv2[w] \in Nat
      OBVIOUS
    <3> QED
      BY <3>1, <3>2
  <2> QED
    BY <2>1, <2>2
<1>3. ASSUME NEW w \in DOMAIN counters, w >= nx2
      PROVE  counters[w] = 0
  <2>1. w \in Nat /\ nx <= nx2
    BY <1>1 DEF SourceMoves
  <2>2. w >= nx
    BY <1>3, <2>1
  <2> QED
    BY <2>2 DEF NeverAhead
<1> QED
  BY <1>1, <1>2, <1>3 DEF NeverAhead

\* What some counters need of the channel, it has after the move as well.
LEMMA MoveKeepsRest ==
  ASSUME NEW q \in Seq(Published), NEW events \in Seq(Published),
         NEW nx \in Nat, NEW nx2 \in Nat, NEW lv, NEW lv2, NEW counters, NEW named,
         \A w \in DOMAIN lv : lv[w] \in Nat, \A w \in DOMAIN lv2 : lv2[w] \in Nat,
         RestIn(q, counters, lv, nx, named), SourceMoves(lv, nx, lv2, nx2, events)
  PROVE  RestIn(q \o events, counters, lv2, nx2, named)
<1>1. NeverAhead(counters, lv2, nx2)
  BY MoveKeepsNeverAhead DEF RestIn
<1>2. ASSUME NEW w \in DOMAIN lv2, Get(counters, w, 0) # lv2[w]
      PROVE  CommitQueued(q \o events, w, lv2[w])
  <2>1. CASE w \in DOMAIN lv /\ lv[w] = lv2[w]
    <3>1. CommitQueued(q, w, lv2[w])
      BY <1>2, <2>1 DEF RestIn
    <3> QED
      BY <3>1, AppendKeeps
  <2>2. CASE CommitQueued(events, w, lv2[w])
    BY <2>2, AppendKeeps
  <2> QED
    BY <2>1, <2>2 DEF SourceMoves
<1>3. ASSUME NEW w \in DOMAIN counters \ (DOMAIN lv2 \cup named)
      PROVE  EndFollows(q \o events, 0, w)
  <2>1. CASE w \in DOMAIN lv
    <3>1. EndFollows(events, 0, w) /\ 0 <= Len(q)
      BY <2>1 DEF SourceMoves
    <3> QED
      BY <3>1, AppendKeeps
  <2>2. CASE w \notin DOMAIN lv
    <3>1. EndFollows(q, 0, w)
      BY <2>2 DEF RestIn
    <3> QED
      BY <3>1, AppendKeeps
  <2> QED
    BY <2>1, <2>2
<1> QED
  BY <1>1, <1>2, <1>3 DEF RestIn

\* The batch of a step: `events` under the next numbers.
Numbered(events, s, s2, b) ==
  /\ s2 \in Nat /\ s2 = s + Len(events)
  /\ b \in Seq(Published) /\ Len(b) = Len(events)
  /\ \A i \in 1 .. Len(b) : b[i].event = events[i] /\ b[i].seq = s + i /\ b[i].seq <= s2

LEMMA PublishProperties ==
  ASSUME SourceTyped, NEW events \in Seq(SrcEvents), Publish(events)
  PROVE  Numbered(events, seq, seq', batch')
<1>1. Len(events) \in Nat /\ seq \in Nat
  BY DEF SourceTyped
<1>2. /\ seq' = seq + Len(events)
      /\ batch' = [i \in 1 .. Len(events) |-> [seq |-> seq + i, event |-> events[i]]]
  BY DEF Publish
<1>3. \A i \in 1 .. Len(events) : [seq |-> seq + i, event |-> events[i]] \in Published
  BY <1>1 DEF Published
<1>4. batch' \in [1 .. Len(events) -> Published]
  BY <1>2, <1>3
<1>5. batch' \in Seq(Published) /\ Len(batch') = Len(events)
  BY <1>1, <1>4 DEF Seq
<1>6. \A i \in 1 .. Len(events) : batch'[i].event = events[i] /\ batch'[i].seq = seq + i
  BY <1>2
<1> QED
  BY <1>1, <1>2, <1>5, <1>6 DEF Numbered

\* What a step of the compositor thread guarantees to the channel.
Moved ==
  /\ SourceTyped' /\ seq <= seq'
  /\ batch' \in Seq(Published) /\ \A i \in 1 .. Len(batch') : batch'[i].seq <= seq'
  /\ SourceMoves(live, nextWindow, live', nextWindow', batch')

\* Notices about existing windows need no accounting.
LEMMA NoticesAreTruthful ==
  ASSUME NEW b, NEW lv, NEW nx, DOMAIN lv \subseteq 1 .. nx - 1,
         \A i \in 1 .. Len(b) : /\ b[i].event.kind = "notice"
                                /\ b[i].event.window \in DOMAIN lv
  PROVE  Truthful(b, lv, nx)
BY DEF Truthful, About

LEMMA TellMoves ==
  ASSUME SourceTyped, NEW w, Tell(w)
  PROVE  Moved /\ Len(batch') >= 1 /\ batch'[1].seq > seq
<1>1. /\ w \in DOMAIN live /\ live' = live /\ nextWindow' = nextWindow
      /\ DOMAIN live \subseteq 1 .. nextWindow - 1 /\ nextWindow \in Nat /\ seq \in Nat
      /\ \A v \in DOMAIN live : live[v] \in Nat
  BY DEF Tell, SourceTyped
<1>2. PICK events : /\ events = << Notice(w) >> \/ events = << Notice(w), Notice(w) >>
                    /\ Publish(events)
  BY DEF Tell
<1>3. Notice(w) \in SrcEvents /\ Notice(w).kind = "notice" /\ Notice(w).window = w
  BY <1>1 DEF Notice, SrcEvent, SrcEvents, EventKinds
<1>4. /\ events \in Seq(SrcEvents) /\ Len(events) \in {1, 2}
      /\ \A i \in 1 .. Len(events) : events[i] = Notice(w)
  <2>1. CASE events = << Notice(w) >>
    BY <1>3, <2>1
  <2>2. CASE events = << Notice(w), Notice(w) >>
    BY <1>3, <2>2
  <2> QED
    BY <1>2, <2>1, <2>2
<1>5. Numbered(events, seq, seq', batch')
  BY <1>2, <1>4, PublishProperties
<1>6. \A i \in 1 .. Len(batch') : batch'[i].event = Notice(w)
  BY <1>4, <1>5 DEF Numbered
<1>7. Truthful(batch', live, nextWindow)
  BY <1>1, <1>3, <1>6, NoticesAreTruthful
<1>8. SourceMoves(live, nextWindow, live', nextWindow', batch')
  BY <1>1, <1>7 DEF SourceMoves
<1>9. SourceTyped' /\ seq <= seq'
  BY <1>1, <1>4, <1>5 DEF SourceTyped, Numbered
<1>10. Len(batch') >= 1 /\ batch'[1].seq > seq
  <2>1. Len(batch') \in {1, 2} /\ \A i \in 1 .. Len(batch') : batch'[i].seq = seq + i
    BY <1>4, <1>5 DEF Numbered
  <2>2. 1 \in 1 .. Len(batch')
    BY <2>1
  <2>3. batch'[1].seq = seq + 1
    BY <2>1, <2>2
  <2> QED
    BY <1>1, <2>1, <2>3
<1>11. batch' \in Seq(Published) /\ \A i \in 1 .. Len(batch') : batch'[i].seq <= seq'
  BY <1>5 DEF Numbered
<1> QED
  BY <1>8, <1>9, <1>10, <1>11 DEF Moved

LEMMA CommitMoves ==
  ASSUME SourceTyped, NEW w, Commit(w)
  PROVE  Moved
<1>1. /\ w \in DOMAIN live /\ nextWindow' = nextWindow
      /\ live' = [live EXCEPT ![w] = live[w] + 1]
      /\ DOMAIN live \subseteq 1 .. nextWindow - 1 /\ nextWindow \in Nat \ {0} /\ seq \in Nat
      /\ \A v \in DOMAIN live : live[v] \in Nat \ {0}
  BY DEF Commit, SourceTyped
<1>2. PICK e : e = SrcEvent("commit", w, live[w] + 1)
  OBVIOUS
<1>3. /\ e \in SrcEvents /\ e.kind = "commit" /\ e.window = w /\ e.n = live[w] + 1
  BY <1>1, <1>2 DEF SrcEvent, SrcEvents, EventKinds
<1>4. << e >> \in Seq(SrcEvents) /\ Len(<< e >>) = 1 /\ << e >>[1] = e
  BY <1>3
<1>5. Numbered(<< e >>, seq, seq', batch')
  <2>1. Publish(<< e >>)
    BY <1>2 DEF Commit
  <2> QED
    BY <1>4, <2>1, PublishProperties
<1>6. Len(batch') = 1 /\ batch'[1].event = e
  BY <1>4, <1>5 DEF Numbered
<1>7. /\ DOMAIN live' = DOMAIN live
      /\ live'[w] = live[w] + 1
      /\ \A v \in DOMAIN live \ {w} : live'[v] = live[v]
  BY <1>1
<1>8. Truthful(batch', live', nextWindow')
  <2>1. live'[w] \in Nat /\ e.n <= live'[w]
    BY <1>1, <1>3, <1>7
  <2> QED
    BY <1>1, <1>3, <1>6, <1>7, <2>1 DEF Truthful, About
<1>9. CommitQueued(batch', w, live'[w])
  BY <1>3, <1>6, <1>7 DEF CommitQueued, About
<1>10. \A v \in DOMAIN live : live[v] <= live'[v] /\ live'[v] \in Nat \ {0}
  BY <1>1, <1>7
<1>11. SourceMoves(live, nextWindow, live', nextWindow', batch')
  BY <1>1, <1>7, <1>8, <1>9, <1>10 DEF SourceMoves
<1>12. SourceTyped' /\ seq <= seq'
  BY <1>1, <1>4, <1>5, <1>7, <1>10 DEF SourceTyped, Numbered
<1> QED
  BY <1>5, <1>11, <1>12 DEF Moved, Numbered

LEMMA OpenMoves ==
  ASSUME SourceTyped, Open
  PROVE  Moved
<1>1. /\ nextWindow' = nextWindow + 1
      /\ live' = Put(live, nextWindow, 1)
      /\ DOMAIN live \subseteq 1 .. nextWindow - 1 /\ nextWindow \in Nat \ {0} /\ seq \in Nat
      /\ \A v \in DOMAIN live : live[v] \in Nat \ {0}
  BY DEF Open, SourceTyped
<1>2. PICK c, e, n : /\ c = SrcEvent("created", nextWindow, 0) /\ n = Notice(nextWindow)
                     /\ e = SrcEvent("commit", nextWindow, 1)
  OBVIOUS
<1>3. /\ c \in SrcEvents /\ c.kind = "created" /\ c.window = nextWindow
      /\ n \in SrcEvents /\ n.kind = "notice" /\ n.window = nextWindow
      /\ e \in SrcEvents /\ e.kind = "commit" /\ e.window = nextWindow /\ e.n = 1
  BY <1>1, <1>2 DEF SrcEvent, Notice, SrcEvents, EventKinds
<1>4. PICK events : events = << c, n, n, e >>
  OBVIOUS
<1>5. /\ events \in Seq(SrcEvents) /\ Len(events) = 4
      /\ events[1] = c /\ events[2] = n /\ events[3] = n /\ events[4] = e
  BY <1>3, <1>4
<1>6. Numbered(events, seq, seq', batch')
  <2>1. Publish(events)
    BY <1>2, <1>4 DEF Open
  <2> QED
    BY <1>5, <2>1, PublishProperties
<1>7. /\ Len(batch') = 4 /\ batch'[4].event = e
      /\ \A i \in 1 .. Len(batch') : batch'[i].event \in {c, n, e}
  <2>1. \A i \in 1 .. 4 : i = 1 \/ i = 2 \/ i = 3 \/ i = 4
    OBVIOUS
  <2>2. \A i \in 1 .. 4 : events[i] \in {c, n, e}
    BY <1>5, <2>1
  <2>3. Len(batch') = 4 /\ \A i \in 1 .. 4 : batch'[i].event = events[i]
    BY <1>5, <1>6 DEF Numbered
  <2> QED
    BY <1>5, <2>2, <2>3
<1>8. /\ DOMAIN live' = DOMAIN live \cup {nextWindow}
      /\ live'[nextWindow] = 1
      /\ nextWindow \notin DOMAIN live
      /\ \A v \in DOMAIN live : live'[v] = live[v]
  BY <1>1 DEF Put
<1>9. Truthful(batch', live', nextWindow')
  <2>1. nextWindow \in 1 .. nextWindow' - 1
    BY <1>1
  <2> QED
    BY <1>3, <1>7, <1>8, <2>1 DEF Truthful, About
<1>10. CommitQueued(batch', nextWindow, live'[nextWindow])
  BY <1>3, <1>7, <1>8 DEF CommitQueued, About
<1>11. /\ DOMAIN live' \subseteq 1 .. nextWindow' - 1
       /\ \A v \in DOMAIN live' : live'[v] \in Nat \ {0}
       /\ nextWindow <= nextWindow'
  BY <1>1, <1>8
<1>12. \A v \in DOMAIN live' : IF v \in DOMAIN live THEN live[v] <= live'[v] ELSE v >= nextWindow
  BY <1>1, <1>8
<1>13. SourceMoves(live, nextWindow, live', nextWindow', batch')
  BY <1>8, <1>9, <1>10, <1>11, <1>12 DEF SourceMoves
<1>14. SourceTyped' /\ seq <= seq'
  BY <1>1, <1>5, <1>6, <1>11 DEF SourceTyped, Numbered
<1> QED
  BY <1>6, <1>13, <1>14 DEF Moved, Numbered

(***************************************************************************)
(* The end of w: notices of w before it, notices of other windows after.   *)
(***************************************************************************)
Ending(b, w, lv) ==
  \E e \in 1 .. Len(b) :
    /\ b[e].event.kind = "destroyed" /\ b[e].event.window = w
    /\ \A i \in 1 .. Len(b) \ {e} :
         /\ b[i].event.kind = "notice"
         /\ b[i].event.window \in {w} \cup DOMAIN lv
         /\ i > e => b[i].event.window # w

LEMMA CloseEnds ==
  ASSUME SourceTyped, NEW w, Close(w)
  PROVE  /\ \E n \in Nat : seq' = seq + n
         /\ batch' \in Seq(Published) /\ \A i \in 1 .. Len(batch') : batch'[i].seq <= seq'
         /\ Ending(batch', w, live')
<1>1. /\ w \in DOMAIN live /\ DOMAIN live \subseteq Nat /\ seq \in Nat
      /\ DOMAIN live' = DOMAIN live \ {w}
  BY DEF Close, SourceTyped, Drop
<1>0. PICK k \in Nat : \E last :
        /\ last = [i \in 1 .. k |-> Notice(w)] \o << SrcEvent("destroyed", w, 0) >>
        /\ \/ Publish(last)
           \/ \E v \in DOMAIN live \ {w} : Publish(last \o << Notice(v), Notice(v) >>)
  <2> DEFINE Last(k) == [i \in 1 .. k |-> Notice(w)] \o << SrcEvent("destroyed", w, 0) >>
  <2>1. PICK k \in 0 .. SeqBound :
          \/ Publish(Last(k))
          \/ \E v \in DOMAIN live \ {w} : Publish(Last(k) \o << Notice(v), Notice(v) >>)
    BY DEF Close
  <2>2. k \in Nat /\ Last(k) = [i \in 1 .. k |-> Notice(w)] \o << SrcEvent("destroyed", w, 0) >>
    BY PipelineAssumption
  <2> HIDE DEF Last
  <2> QED
    BY <2>1, <2>2
<1>2. PICK last :
        /\ last = [i \in 1 .. k |-> Notice(w)] \o << SrcEvent("destroyed", w, 0) >>
        /\ \/ Publish(last)
           \/ \E v \in DOMAIN live \ {w} : Publish(last \o << Notice(v), Notice(v) >>)
  BY <1>0
<1>3. PICK d : d = SrcEvent("destroyed", w, 0)
  OBVIOUS
<1>4. /\ d \in SrcEvents /\ d.kind = "destroyed" /\ d.window = w
      /\ \A v \in DOMAIN live : /\ Notice(v) \in SrcEvents
                                /\ Notice(v).kind = "notice" /\ Notice(v).window = v
  BY <1>1, <1>3 DEF Notice, SrcEvent, SrcEvents, EventKinds
<1>5. /\ last \in Seq(SrcEvents) /\ Len(last) = k + 1
      /\ \A i \in 1 .. k + 1 : last[i] = IF i = k + 1 THEN d ELSE Notice(w)
  <2>1. PICK first : first = [i \in 1 .. k |-> Notice(w)]
    OBVIOUS
  <2>2. first \in [1 .. k -> SrcEvents] /\ \A i \in 1 .. k : first[i] = Notice(w)
    BY <1>1, <1>4, <2>1
  <2>3. first \in Seq(SrcEvents) /\ Len(first) = k
    BY <2>2 DEF Seq
  <2>4. << d >> \in Seq(SrcEvents) /\ Len(<< d >>) = 1 /\ << d >>[1] = d
    BY <1>4
  <2>5. PICK one \in Seq(SrcEvents) : one = << d >>
    BY <2>4
  <2>6. /\ first \o one \in Seq(SrcEvents)
        /\ Len(first \o one) = Len(first) + Len(one)
        /\ \A i \in 1 .. Len(first) + Len(one) : (first \o one)[i] =
             IF i <= Len(first) THEN first[i] ELSE one[i - Len(first)]
    BY <2>3, ConcatProperties
  <2>7. last = first \o one
    BY <1>2, <1>3, <2>1, <2>5
  <2>8. ASSUME NEW i \in 1 .. k + 1
        PROVE  last[i] = IF i = k + 1 THEN d ELSE Notice(w)
    <3>1. last[i] = IF i <= k THEN first[i] ELSE one[i - k]
      BY <2>3, <2>4, <2>5, <2>6, <2>7
    <3>2. CASE i = k + 1
      BY <2>4, <2>5, <3>1, <3>2
    <3>3. CASE i # k + 1
      <4>1. i \in 1 .. k
        BY <3>3
      <4> QED
        BY <2>2, <3>1, <4>1
    <3> QED
      BY <3>2, <3>3
  <2> QED
    BY <2>3, <2>4, <2>5, <2>6, <2>7, <2>8
<1>6. PICK events \in Seq(SrcEvents) :
        /\ Publish(events)
        /\ Len(events) \in Nat /\ Len(events) >= k + 1
        /\ \A i \in 1 .. Len(events) :
             /\ i = k + 1 => events[i] = d
             /\ i < k + 1 => events[i] = Notice(w)
             /\ i > k + 1 => \E v \in DOMAIN live \ {w} : events[i] = Notice(v)
  <2>1. CASE Publish(last)
    <3>1. /\ Len(last) \in Nat /\ Len(last) >= k + 1
          /\ \A i \in 1 .. Len(last) : i <= k + 1 /\ (i < k + 1 => i # k + 1)
      BY <1>5
    <3> QED
      BY <1>5, <2>1, <3>1
  <2>2. CASE \E v \in DOMAIN live \ {w} : Publish(last \o << Notice(v), Notice(v) >>)
    <3>1. PICK v \in DOMAIN live \ {w} : Publish(last \o << Notice(v), Notice(v) >>)
      BY <2>2
    <3>2. PICK two : two = << Notice(v), Notice(v) >>
      OBVIOUS
    <3>3. two \in Seq(SrcEvents) /\ Len(two) = 2 /\ two[1] = Notice(v) /\ two[2] = Notice(v)
      BY <1>4, <3>2
    <3>4. PICK events : events = last \o two
      OBVIOUS
    <3>5. /\ events \in Seq(SrcEvents)
          /\ Len(events) = Len(last) + Len(two)
          /\ \A i \in 1 .. Len(last) + Len(two) : events[i] =
               IF i <= Len(last) THEN last[i] ELSE two[i - Len(last)]
      BY <1>5, <3>3, <3>4, ConcatProperties
    <3>6. ASSUME NEW i \in 1 .. Len(events)
          PROVE  /\ i = k + 1 => events[i] = d
                 /\ i < k + 1 => events[i] = Notice(w)
                 /\ i > k + 1 => events[i] = Notice(v)
      <4>1. events[i] = IF i <= k + 1 THEN last[i] ELSE two[i - (k + 1)]
        BY <1>5, <3>3, <3>5
      <4>2. CASE i <= k + 1
        <5>1. i \in 1 .. k + 1 /\ (i = k + 1 \/ i < k + 1) /\ ~ (i > k + 1)
              /\ (i < k + 1 => i # k + 1)
          BY <4>2
        <5> QED
          BY <1>5, <4>1, <4>2, <5>1
      <4>3. CASE ~ (i <= k + 1)
        <5>1. i - (k + 1) \in {1, 2} /\ i # k + 1 /\ ~ (i < k + 1)
          BY <1>5, <3>3, <3>5, <4>3
        <5> QED
          BY <3>3, <4>1, <4>3, <5>1
      <4> QED
        BY <4>2, <4>3
    <3>7. Publish(events) /\ Len(events) \in Nat /\ Len(events) >= k + 1
      BY <1>5, <3>1, <3>2, <3>3, <3>4, <3>5
    <3> QED
      BY <3>5, <3>6, <3>7
  <2> QED
    BY <1>2, <2>1, <2>2
<1>7. Numbered(events, seq, seq', batch')
  BY <1>6, PublishProperties
<1>8. Ending(batch', w, live')
  <2>1. Len(batch') = Len(events) /\ \A i \in 1 .. Len(batch') : batch'[i].event = events[i]
    BY <1>7 DEF Numbered
  <2>2. k + 1 \in 1 .. Len(batch') /\ batch'[k + 1].event = d
    BY <1>6, <2>1
  <2>3. ASSUME NEW i \in 1 .. Len(batch') \ {k + 1}
        PROVE  /\ batch'[i].event.kind = "notice"
               /\ batch'[i].event.window \in {w} \cup DOMAIN live'
               /\ i > k + 1 => batch'[i].event.window # w
    <3>1. i < k + 1 \/ i > k + 1
      OBVIOUS
    <3>2. CASE i < k + 1
      <4>1. batch'[i].event = Notice(w) /\ ~ (i > k + 1)
        BY <1>6, <2>1, <3>2
      <4> QED
        BY <1>1, <1>4, <4>1
    <3>3. CASE i > k + 1
      <4>1. PICK v \in DOMAIN live \ {w} : batch'[i].event = Notice(v)
        BY <1>6, <2>1, <3>3
      <4> QED
        BY <1>1, <1>4, <4>1
    <3> QED
      BY <3>1, <3>2, <3>3
  <2> QED
    BY <1>4, <2>2, <2>3 DEF Ending
<1>9. Len(events) \in Nat /\ seq' = seq + Len(events)
  BY <1>6, <1>7 DEF Numbered
<1> QED
  BY <1>7, <1>8, <1>9 DEF Numbered

LEMMA CloseMoves ==
  ASSUME SourceTyped, NEW w, Close(w)
  PROVE  Moved
<1>1. /\ w \in DOMAIN live /\ nextWindow' = nextWindow
      /\ DOMAIN live' = DOMAIN live \ {w} /\ \A v \in DOMAIN live' : live'[v] = live[v]
      /\ DOMAIN live \subseteq 1 .. nextWindow - 1 /\ nextWindow \in Nat \ {0} /\ seq \in Nat
      /\ \A v \in DOMAIN live : live[v] \in Nat \ {0}
  BY DEF Close, SourceTyped, Drop
<1>2. PICK b : b = batch'
  OBVIOUS
<1>3. PICK n \in Nat : seq' = seq + n
  BY CloseEnds
<1>4. Ending(b, w, live') /\ b \in Seq(Published)
  BY <1>2, CloseEnds
<1>5. PICK e \in 1 .. Len(b) :
        /\ b[e].event.kind = "destroyed" /\ b[e].event.window = w
        /\ \A i \in 1 .. Len(b) \ {e} :
             /\ b[i].event.kind = "notice"
             /\ b[i].event.window \in {w} \cup DOMAIN live'
             /\ i > e => b[i].event.window # w
  BY <1>4 DEF Ending
<1>6. About(b[e], w)
  BY <1>5 DEF About
<1>7. EndFollows(b, 0, w)
  BY <1>5, <1>6 DEF EndFollows
<1>8. Truthful(b, live', nextWindow')
  <2> SUFFICES ASSUME NEW i \in 1 .. Len(b), NEW v \in Nat, About(b[i], v)
               PROVE  /\ v \in 1 .. nextWindow' - 1
                      /\ b[i].event.kind = "destroyed" => v \notin DOMAIN live'
                      /\ b[i].event.kind = "commit" /\ v \in DOMAIN live' => b[i].event.n <= live'[v]
                      /\ b[i].event.kind # "destroyed" /\ v \notin DOMAIN live' => EndFollows(b, i, v)
    BY DEF Truthful
  <2>1. b[i].event.window = v
    BY DEF About
  <2>2. CASE i = e
    BY <1>1, <1>5, <2>1, <2>2
  <2>3. CASE i # e
    <3>1. /\ b[i].event.kind = "notice" /\ v \in {w} \cup DOMAIN live'
          /\ i > e => v # w
      BY <1>5, <2>1, <2>3
    <3>2. v \in 1 .. nextWindow' - 1
      BY <1>1, <3>1
    <3>3. ASSUME v \notin DOMAIN live'
          PROVE  EndFollows(b, i, v)
      <4>1. v = w
        BY <3>1, <3>3
      <4>2. e \in i + 1 .. Len(b)
        BY <2>3, <3>1, <4>1
      <4> QED
        BY <1>5, <1>6, <4>1, <4>2 DEF EndFollows
    <3> QED
      BY <3>1, <3>2, <3>3
  <2> QED
    BY <2>2, <2>3
<1>9. SourceMoves(live, nextWindow, live', nextWindow', b)
  BY <1>1, <1>7, <1>8 DEF SourceMoves
<1>10. SourceTyped' /\ seq <= seq'
  BY <1>1, <1>3 DEF SourceTyped
<1>11. b \in Seq(Published) /\ \A i \in 1 .. Len(b) : b[i].seq <= seq'
  BY <1>2, CloseEnds
<1> QED
  BY <1>2, <1>9, <1>10, <1>11 DEF Moved

-----------------------------------------------------------------------------
(* The steps that put events into the channel.                             *)

\* An action named more windows: nothing that was accounted for is missing.
LEMMA NamedGrows ==
  ASSUME NEW q, NEW counters, NEW lv, NEW nx, NEW named, NEW named2, named \subseteq named2,
         RestIn(q, counters, lv, nx, named)
  PROVE  RestIn(q, counters, lv, nx, named2)
BY DEF RestIn

\* Nothing happens to the windows, and `events` tells nothing false about them.
LEMMA StandingStill ==
  ASSUME SourceTyped, NEW events, Truthful(events, live, nextWindow)
  PROVE  SourceMoves(live, nextWindow, live, nextWindow, events)
<1>1. nextWindow <= nextWindow /\ \A w \in DOMAIN live : live[w] <= live[w]
  BY DEF SourceTyped
<1> QED
  BY <1>1 DEF SourceMoves

LEMMA Delivered ==
  ASSUME SourceTyped, ChannelInv, SourceTyped', seq <= seq', reserved' \subseteq 0 .. seq',
         NEW events \in Seq(Published), \A i \in 1 .. Len(events) : events[i].seq <= seq',
         SourceMoves(live, nextWindow, live', nextWindow', events),
         Broadcast(events), UNCHANGED << pumpVars, obs >>, Named \subseteq Named'
  PROVE  ChannelInv'
<1>1. /\ queue \in Seq(Published) /\ missed \in BOOLEAN
      /\ \A i \in 1 .. Len(queue) : queue[i].seq <= seq
      /\ Truthful(queue, live, nextWindow)
  BY DEF ChannelInv, QueueTyped
<1>2. /\ seq \in Nat /\ seq' \in Nat /\ nextWindow \in Nat /\ nextWindow' \in Nat
      /\ \A w \in DOMAIN live : live[w] \in Nat
      /\ \A w \in DOMAIN live' : live'[w] \in Nat
  BY DEF SourceTyped
<1>3. pump' = pump /\ snap' = snap /\ obs' = obs
  BY DEF pumpVars
<1>4. PICK all : all = queue \o events
  OBVIOUS
<1>5. Joined(queue, events, all)
  BY <1>1, <1>4, ConcatPositions
<1>6. /\ missed' \in BOOLEAN
      /\ missed => missed'
      /\ ~missed' => queue' = all
      /\ \E shift \in Nat : SuffixOf(queue', all, shift)
  BY <1>1, <1>4, BroadcastProperties
<1>7. PICK shift \in Nat : SuffixOf(queue', all, shift)
  BY <1>6
<1>8. QueueTyped'
  <2>1. queue' \in Seq(Published) /\ Len(queue') \in Nat
    BY <1>7 DEF SuffixOf
  <2>2. ASSUME NEW i \in 1 .. Len(queue')
        PROVE  queue'[i].seq <= seq'
    <3>1. i + shift \in 1 .. Len(all) /\ queue'[i] = all[i + shift] /\ all \in Seq(Published)
      BY <1>5, <1>7, <2>1 DEF SuffixOf, Joined
    <3>2. all[i + shift] \in Published
      BY <3>1
    <3>3. all[i + shift].seq \in Nat
      BY <3>2 DEF Published
    <3>4. CASE i + shift \in 1 .. Len(queue)
      <4>1. all[i + shift] = queue[i + shift]
        BY <1>5, <3>4 DEF Joined
      <4>2. all[i + shift].seq <= seq
        BY <1>1, <3>4, <4>1
      <4> QED
        BY <1>2, <3>1, <3>3, <4>2
    <3>5. CASE i + shift \notin 1 .. Len(queue)
      <4>1. PICK j \in 1 .. Len(events) : all[i + shift] = events[j]
        BY <1>5, <3>1, <3>5 DEF Joined
      <4> QED
        BY <3>1, <4>1
    <3> QED
      BY <3>4, <3>5
  <2> QED
    BY <1>6, <2>1, <2>2 DEF QueueTyped
<1>9. PumpTyped' /\ SnapshotNeverStale'
  <2>1. PumpTyped /\ SnapshotNeverStale
    BY DEF ChannelInv
  <2>2. /\ pump \in {"receiving", "awaiting"}
        /\ pump = "receiving" => snap = NoSnapshot
        /\ ObserverTyped(obs) /\ obs.watermark \in Nat /\ obs.watermark <= seq
        /\ snap # NoSnapshot => SnapshotTyped(snap) /\ snap.seq \in Nat /\ snap.seq <= seq
    BY <2>1 DEF PumpTyped, SnapshotTyped, ObserverTyped
  <2>3. obs.watermark <= seq' /\ (snap # NoSnapshot => snap.seq <= seq')
    BY <1>2, <2>2
  <2> QED
    BY <1>3, <2>1, <2>2, <2>3 DEF PumpTyped, SnapshotNeverStale
<1>10. Truthful(queue', live', nextWindow')
  <2>1. Truthful(all, live', nextWindow')
    BY <1>1, <1>2, <1>4, AppendIsTruthful
  <2> QED
    BY <1>5, <1>7, <2>1, SuffixIsTruthful DEF Joined
<1>11. NeverAhead(Counters(obs'.windows), live', nextWindow')
  <2>1. NeverAhead(Counters(obs.windows), live, nextWindow)
    BY DEF ChannelInv
  <2> QED
    BY <1>2, <1>3, <2>1, MoveKeepsNeverAhead
<1>12. snap' # NoSnapshot => NeverAhead(snap'.windows, live', nextWindow')
  <2>1. snap # NoSnapshot => NeverAhead(snap.windows, live, nextWindow)
    BY DEF ChannelInv
  <2> QED
    BY <1>2, <1>3, <2>1, MoveKeepsNeverAhead
<1>13. Recoverable'
  <2> SUFFICES ASSUME ~missed'
               PROVE  /\ pump' = "receiving" =>
                           RestIn(queue', Counters(obs'.windows), live', nextWindow', Named')
                      /\ snap' # NoSnapshot =>
                           RestIn(queue', snap'.windows, live', nextWindow', Named')
    BY DEF Recoverable
  <2>1. ~missed /\ queue' = queue \o events
    BY <1>4, <1>6
  <2>2. ASSUME NEW counters, RestIn(queue, counters, live, nextWindow, Named)
        PROVE  RestIn(queue', counters, live', nextWindow', Named')
    <3>1. RestIn(queue \o events, counters, live', nextWindow', Named)
      BY <1>1, <1>2, <2>2, MoveKeepsRest
    <3> QED
      BY <2>1, <3>1, NamedGrows
  <2>3. /\ pump = "receiving" => RestIn(queue, Counters(obs.windows), live, nextWindow, Named)
        /\ snap # NoSnapshot => RestIn(queue, snap.windows, live, nextWindow, Named)
    BY <2>1 DEF ChannelInv, Recoverable
  <2> QED
    BY <1>3, <2>2, <2>3
<1> QED
  BY <1>8, <1>9, <1>10, <1>11, <1>12, <1>13 DEF ChannelInv

LEMMA ActionFacts ==
  ASSUME ActionsInv, SourceTyped
  PROVE  /\ actions \in Seq(Actions) /\ DOMAIN actions = 1 .. Len(actions) /\ Len(actions) \in Nat
         /\ seq \in Nat
         /\ \A a \in DOMAIN actions :
              /\ actions[a] \in Actions /\ actions[a].seq \in Nat /\ actions[a].seq <= seq
              /\ actions[a].effect # 0 => actions[a].effect > actions[a].seq
<1>1. actions \in Seq(Actions) /\ \A a \in 1 .. Len(actions) : actions[a].seq <= seq
  BY DEF ActionsInv, ActionsTyped
<1>2. DOMAIN actions = 1 .. Len(actions) /\ Len(actions) \in Nat
  BY <1>1
<1>3. \A a \in DOMAIN actions : actions[a] \in Actions
  BY <1>1
<1>4. \A a \in DOMAIN actions : actions[a].effect # 0 => actions[a].effect > actions[a].seq
  BY DEF ActionsInv, EffectsFollowTheirAction
<1>5. seq \in Nat
  BY DEF SourceTyped
<1>6. \A a \in DOMAIN actions : actions[a].seq \in Nat
  BY <1>3 DEF Actions
<1> QED
  BY <1>1, <1>2, <1>3, <1>4, <1>5, <1>6

LEMMA SourceStepKeeps ==
  ASSUME IInv, SourceStep
  PROVE  IInv'
<1>1. SourceTyped /\ ChannelInv /\ ActionsInv
  BY DEF IInv
<1>2. Moved
  <2>1. Open \/ \E w \in WindowIds : Commit(w) \/ Close(w) \/ Tell(w)
    BY DEF SourceStep
  <2> QED
    BY <1>1, <2>1, OpenMoves, CommitMoves, CloseMoves, TellMoves
<1>3. /\ Broadcast(batch') /\ UNCHANGED << pumpVars, obs >>
      /\ reserved' = reserved /\ actions' = actions
  BY DEF SourceStep
<1>4. seq \in Nat /\ seq' \in Nat /\ seq <= seq'
  BY <1>1, <1>2 DEF Moved, SourceTyped
<1>5. reserved' \subseteq 0 .. seq'
  BY <1>1, <1>3, <1>4 DEF ChannelInv, QueueTyped
<1>6. Named' = Named
  BY <1>3 DEF Named
<1>7. ChannelInv'
  BY <1>1, <1>2, <1>3, <1>5, <1>6, Delivered DEF Moved
<1>8. ActionsInv'
  <2>1. \A a \in 1 .. Len(actions) : actions[a].seq \in Nat /\ actions[a].seq <= seq
    BY <1>1, ActionFacts
  <2>2. \A a \in 1 .. Len(actions) : actions[a].seq <= seq'
    BY <1>4, <2>1
  <2> QED
    BY <1>1, <1>3, <2>2 DEF ActionsInv, ActionsTyped, EffectsFollowTheirAction
<1> QED
  BY <1>2, <1>7, <1>8 DEF IInv, Moved

\* An event published under a reserved number.
LEMMA PublishReservedKeeps ==
  ASSUME IInv, PublishReserved
  PROVE  IInv'
<1>1. SourceTyped /\ ChannelInv /\ ActionsInv
  BY DEF IInv
<1>2. /\ live' = live /\ nextWindow' = nextWindow /\ seq' = seq
      /\ UNCHANGED << pumpVars, obs >> /\ actions' = actions
  BY DEF PublishReserved, NoBatch
<1>3. PICK n \in reserved : /\ reserved' = reserved \ {n}
                            /\ Broadcast(<< [seq |-> n, event |-> SrcEvent("server", 0, 0)] >>)
  BY DEF PublishReserved
<1>4. PICK e : e = [seq |-> n, event |-> SrcEvent("server", 0, 0)]
  OBVIOUS
<1>5. seq \in Nat /\ n \in 0 .. seq /\ reserved \subseteq 0 .. seq
  BY <1>1 DEF ChannelInv, QueueTyped, SourceTyped
<1>6. e \in Published /\ e.seq = n /\ e.event.kind = "server"
  BY <1>4, <1>5 DEF Published, SrcEvents, SrcEvent
<1>7. /\ << e >> \in Seq(Published) /\ Len(<< e >>) = 1 /\ << e >>[1] = e
      /\ Broadcast(<< e >>)
  BY <1>3, <1>4, <1>6
<1>8. Truthful(<< e >>, live, nextWindow)
  BY <1>6, <1>7 DEF Truthful, About
<1>9. SourceMoves(live, nextWindow, live', nextWindow', << e >>)
  BY <1>1, <1>2, <1>8, StandingStill
<1>10. SourceTyped' /\ seq <= seq' /\ Named' = Named /\ reserved' \subseteq 0 .. seq'
  <2>1. SourceTyped'
    BY <1>1, <1>2 DEF SourceTyped
  <2>2. Named' = Named
    BY <1>2 DEF Named
  <2>3. seq <= seq' /\ reserved' \subseteq 0 .. seq'
    BY <1>2, <1>3, <1>5
  <2> QED
    BY <2>1, <2>2, <2>3
<1>11. \A i \in 1 .. Len(<< e >>) : << e >>[i].seq <= seq'
  BY <1>2, <1>5, <1>6, <1>7
<1>12. ChannelInv'
  BY <1>1, <1>2, <1>7, <1>9, <1>10, <1>11, Delivered
<1>13. ActionsInv'
  BY <1>1, <1>2 DEF ActionsInv, ActionsTyped, EffectsFollowTheirAction
<1> QED
  BY <1>10, <1>12, <1>13 DEF IInv

\* One recorded action changes, and keeps its window and its filter point.
LEMMA ActionChanged ==
  ASSUME ActionsInv, SourceTyped, SourceTyped', seq <= seq',
         NEW a \in DOMAIN actions, NEW r \in Actions,
         r.window = actions[a].window, r.seq = actions[a].seq,
         r.effect # 0 => r.effect > r.seq,
         actions' = [actions EXCEPT ![a] = r]
  PROVE  ActionsInv' /\ Named' = Named
<1>1. /\ actions \in Seq(Actions) /\ DOMAIN actions = 1 .. Len(actions) /\ Len(actions) \in Nat
      /\ \A b \in DOMAIN actions : actions[b].seq \in Nat /\ actions[b].seq <= seq
      /\ \A b \in DOMAIN actions : actions[b].effect # 0 => actions[b].effect > actions[b].seq
  BY ActionFacts
<1>2. seq \in Nat /\ seq' \in Nat
  BY DEF SourceTyped
<1>3. /\ actions' \in Seq(Actions) /\ Len(actions') = Len(actions)
      /\ DOMAIN actions' = DOMAIN actions
      /\ actions'[a] = r /\ \A b \in DOMAIN actions \ {a} : actions'[b] = actions[b]
  BY <1>1
<1>4. \A b \in DOMAIN actions : actions'[b].seq <= seq' /\ actions'[b].window = actions[b].window
  <2> TAKE b \in DOMAIN actions
  <2>1. actions'[b].seq = actions[b].seq /\ actions'[b].window = actions[b].window
    BY <1>3
  <2> QED
    BY <1>1, <1>2, <2>1
<1>5. \A b \in DOMAIN actions : actions'[b].effect # 0 => actions'[b].effect > actions'[b].seq
  BY <1>1, <1>3
<1>6. Named' = Named
  BY <1>3, <1>4 DEF Named
<1>7. ActionsTyped'
  BY <1>1, <1>3, <1>4 DEF ActionsTyped
<1>8. EffectsFollowTheirAction'
  BY <1>3, <1>5 DEF EffectsFollowTheirAction
<1> QED
  BY <1>6, <1>7, <1>8 DEF ActionsInv

\* The effect of a command is numbered after everything that came before it.
LEMMA ServeActionKeeps ==
  ASSUME IInv, NEW a \in DOMAIN actions, ServeAction(a)
  PROVE  IInv'
<1>1. SourceTyped /\ ChannelInv /\ ActionsInv
  BY DEF IInv
<1>2. /\ Broadcast(batch') /\ UNCHANGED << pumpVars, obs >> /\ reserved' = reserved
  BY DEF ServeAction
<1>3. PICK w : w = actions[a].window
  OBVIOUS
<1>4. /\ actions[a] \in Actions /\ actions[a].seq \in Nat /\ actions[a].seq <= seq /\ seq \in Nat
      /\ actions[a].effect # 0 => actions[a].effect > actions[a].seq
  BY <1>1, ActionFacts
<1>5. CASE w \in DOMAIN live
  <2>1. Tell(w) /\ actions' = [actions EXCEPT ![a].served = TRUE, ![a].effect = batch'[1].seq]
    BY <1>3, <1>5 DEF ServeAction
  <2>2. Moved /\ Len(batch') >= 1 /\ batch'[1].seq > seq
    BY <1>1, <2>1, TellMoves
  <2>3. PICK r : r = [actions[a] EXCEPT !.served = TRUE, !.effect = batch'[1].seq]
    OBVIOUS
  <2>4. batch'[1].seq \in Nat
    <3>1. batch' \in Seq(Published) /\ 1 \in 1 .. Len(batch')
      BY <2>2 DEF Moved
    <3>2. batch'[1] \in Published
      BY <3>1
    <3> QED
      BY <3>2 DEF Published
  <2>5. /\ r \in Actions /\ r.window = actions[a].window /\ r.seq = actions[a].seq
        /\ r.effect = batch'[1].seq
    BY <1>4, <2>3, <2>4 DEF Actions
  <2>6. r.effect > r.seq
    BY <1>4, <2>2, <2>4, <2>5
  <2>7. actions' = [actions EXCEPT ![a] = r]
    BY <2>1, <2>3
  <2>8. SourceTyped' /\ seq <= seq'
    BY <2>2 DEF Moved
  <2>9. ActionsInv' /\ Named' = Named
    BY <1>1, <2>5, <2>6, <2>7, <2>8, ActionChanged
  <2>10. reserved' \subseteq 0 .. seq'
    BY <1>1, <1>2, <2>8 DEF ChannelInv, QueueTyped, SourceTyped
  <2>11. ChannelInv'
    BY <1>1, <1>2, <2>2, <2>9, <2>10, Delivered DEF Moved
  <2> QED
    BY <2>8, <2>9, <2>11 DEF IInv
<1>6. CASE w \notin DOMAIN live
  <2>1. /\ live' = live /\ nextWindow' = nextWindow /\ seq' = seq /\ batch' = << >>
        /\ actions' = [actions EXCEPT ![a].served = TRUE]
    BY <1>3, <1>6 DEF ServeAction, NoBatch
  <2>2. PICK r : r = [actions[a] EXCEPT !.served = TRUE]
    OBVIOUS
  <2>3. /\ r \in Actions /\ r.window = actions[a].window /\ r.seq = actions[a].seq
        /\ r.effect = actions[a].effect
    BY <1>4, <2>2 DEF Actions
  <2>4. actions' = [actions EXCEPT ![a] = r]
    BY <2>1, <2>2
  <2>5. SourceTyped' /\ seq <= seq'
    BY <1>1, <1>4, <2>1 DEF SourceTyped
  <2>6. ActionsInv' /\ Named' = Named
    BY <1>1, <1>4, <2>3, <2>4, <2>5, ActionChanged
  <2>7. /\ batch' \in Seq(Published) /\ \A i \in 1 .. Len(batch') : batch'[i].seq <= seq'
        /\ Truthful(batch', live, nextWindow)
    BY <2>1 DEF Truthful
  <2>8. SourceMoves(live, nextWindow, live', nextWindow', batch')
    BY <1>1, <2>1, <2>7, StandingStill
  <2>9. reserved' \subseteq 0 .. seq'
    BY <1>1, <1>2, <2>1 DEF ChannelInv, QueueTyped
  <2>10. ChannelInv'
    BY <1>1, <1>2, <2>5, <2>6, <2>7, <2>8, <2>9, Delivered
  <2> QED
    BY <2>5, <2>6, <2>10 DEF IInv
<1> QED
  BY <1>5, <1>6

-----------------------------------------------------------------------------
(* The steps of the request tasks that leave the channel alone.            *)

\* A window's counter, as the map and as the observer's operator give it.
LEMMA CountersAreKnown ==
  ASSUME NEW windows
  PROVE  /\ DOMAIN Counters(windows) = DOMAIN windows
         /\ \A w \in DOMAIN windows : Counters(windows)[w] = windows[w].commits
         /\ \A w : Get(Counters(windows), w, 0) = Known(windows, w)
BY DEF Counters, Get, Known

LEMMA ReserveNumberKeeps ==
  ASSUME IInv, ReserveNumber
  PROVE  IInv'
<1>1. SourceTyped /\ ChannelInv /\ ActionsInv /\ seq \in Nat
  BY DEF IInv, SourceTyped
<1>2. /\ live' = live /\ nextWindow' = nextWindow /\ seq' = seq + 1
      /\ reserved' = reserved \cup {seq'}
      /\ queue' = queue /\ missed' = missed /\ pump' = pump /\ snap' = snap
      /\ obs' = obs /\ actions' = actions
  BY DEF ReserveNumber, Reserve, channel, pumpVars
<1>3. SourceTyped'
  BY <1>1, <1>2 DEF SourceTyped
<1>4. QueueTyped'
  <2>1. /\ queue \in Seq(Published) /\ missed \in BOOLEAN /\ reserved \subseteq 0 .. seq
        /\ \A i \in 1 .. Len(queue) : queue[i].seq <= seq
    BY <1>1 DEF ChannelInv, QueueTyped
  <2>2. \A i \in 1 .. Len(queue) : queue[i] \in Published
    BY <2>1
  <2>3. \A i \in 1 .. Len(queue) : queue[i].seq <= seq'
    BY <1>1, <1>2, <2>1, <2>2 DEF Published
  <2>4. reserved' \subseteq 0 .. seq'
    BY <1>1, <1>2, <2>1
  <2> QED
    BY <1>2, <2>1, <2>3, <2>4 DEF QueueTyped
<1>5. PumpTyped' /\ SnapshotNeverStale'
  <2>1. PumpTyped /\ SnapshotNeverStale
    BY <1>1 DEF ChannelInv
  <2>2. /\ obs.watermark \in Nat /\ obs.watermark <= seq
        /\ snap # NoSnapshot => snap.seq \in Nat /\ snap.seq <= seq
    BY <2>1 DEF PumpTyped, SnapshotTyped, ObserverTyped
  <2>3. obs.watermark <= seq' /\ (snap # NoSnapshot => snap.seq <= seq')
    BY <1>1, <1>2, <2>2
  <2> QED
    BY <1>2, <2>1, <2>3 DEF PumpTyped, SnapshotNeverStale
<1>6. ActionsInv'
  <2>1. \A a \in 1 .. Len(actions) : actions[a].seq <= seq'
    BY <1>1, <1>2, ActionFacts
  <2> QED
    BY <1>1, <1>2, <2>1 DEF ActionsInv, ActionsTyped, EffectsFollowTheirAction
<1>7. ChannelInv'
  BY <1>1, <1>2, <1>4, <1>5 DEF ChannelInv, Recoverable, Named
<1> QED
  BY <1>3, <1>6, <1>7 DEF IInv

\* A recorded action changes nothing but the list of the actions.
LEMMA RecordActionKeeps ==
  ASSUME IInv, NEW w \in WindowIds, RecordAction(w)
  PROVE  IInv'
<1>1. SourceTyped /\ ChannelInv /\ ActionsInv /\ seq \in Nat
  BY DEF IInv, SourceTyped
<1>2. PICK r : r = [window |-> w, seq |-> ActionSeq, touched |-> FALSE, served |-> FALSE,
                    effect |-> 0,
                    commits |-> IF w \in DOMAIN obs.windows THEN obs.windows[w].commits ELSE 0]
  OBVIOUS
<1>3. /\ live' = live /\ nextWindow' = nextWindow /\ seq' = seq
      /\ reserved' = reserved /\ queue' = queue /\ missed' = missed
      /\ pump' = pump /\ snap' = snap /\ obs' = obs
      /\ actions' = Append(actions, r)
  BY <1>2 DEF RecordAction, NoBatch, channel, pumpVars
<1>4. /\ r \in Actions /\ r.seq <= seq /\ r.effect = 0
  <2>1. ObserverTyped(obs) /\ obs.watermark <= seq
    BY <1>1 DEF ChannelInv, PumpTyped
  <2>2. /\ obs.watermark \in Nat
        /\ \A v \in DOMAIN obs.windows : obs.windows[v].commits \in Nat
    BY <2>1 DEF ObserverTyped, WindowsTyped
  <2> QED
    BY <1>2, <2>1, <2>2 DEF Actions, ActionSeq
<1>5. /\ actions' \in Seq(Actions) /\ DOMAIN actions' = 1 .. Len(actions) + 1
      /\ Len(actions') = Len(actions) + 1
      /\ \A a \in 1 .. Len(actions) : actions'[a] = actions[a]
      /\ actions'[Len(actions) + 1] = r
      /\ DOMAIN actions = 1 .. Len(actions) /\ Len(actions) \in Nat
  BY <1>1, <1>3, <1>4, ActionFacts
<1>6. \A a \in 1 .. Len(actions) + 1 : a \in 1 .. Len(actions) \/ a = Len(actions) + 1
  BY <1>5
<1>7. ActionsTyped'
  BY <1>1, <1>3, <1>4, <1>5, <1>6, ActionFacts DEF ActionsTyped
<1>8. EffectsFollowTheirAction'
  BY <1>1, <1>4, <1>5, <1>6, ActionFacts DEF EffectsFollowTheirAction
<1>9. Named \subseteq Named'
  BY <1>5 DEF Named
<1>10. ChannelInv'
  <2>1. Recoverable'
    <3> SUFFICES ASSUME ~missed
                 PROVE  /\ pump = "receiving" =>
                             RestIn(queue, Counters(obs.windows), live, nextWindow, Named')
                        /\ snap # NoSnapshot =>
                             RestIn(queue, snap.windows, live, nextWindow, Named')
      BY <1>3 DEF Recoverable
    <3>1. /\ pump = "receiving" => RestIn(queue, Counters(obs.windows), live, nextWindow, Named)
          /\ snap # NoSnapshot => RestIn(queue, snap.windows, live, nextWindow, Named)
      BY <1>1 DEF ChannelInv, Recoverable
    <3> QED
      BY <1>9, <3>1, NamedGrows
  <2> QED
    BY <1>1, <1>3, <2>1 DEF ChannelInv, QueueTyped, PumpTyped, SnapshotNeverStale
<1>11. SourceTyped'
  BY <1>1, <1>3 DEF SourceTyped
<1> QED
  BY <1>7, <1>8, <1>10, <1>11 DEF IInv, ActionsInv

(***************************************************************************)
(* Counters that are known of the same windows, or of others the actions   *)
(* named that have none: what the observer gets wrong does not change.     *)
(***************************************************************************)
LEMMA NamedWithoutCount ==
  ASSUME NEW q, NEW lv, NEW nx \in Nat, NEW named, NEW counters, NEW counters2,
         NEW w \in named, w \in Nat, \A v \in DOMAIN lv : lv[v] \in Nat,
         DOMAIN counters2 = DOMAIN counters \cup {w},
         \A v \in DOMAIN counters2 : counters2[v] = Get(counters, v, 0)
  PROVE  /\ NeverAhead(counters, lv, nx) => NeverAhead(counters2, lv, nx)
         /\ RestIn(q, counters, lv, nx, named) => RestIn(q, counters2, lv, nx, named)
<1>1. ASSUME NEW v \in DOMAIN counters
      PROVE  counters2[v] = counters[v]
  BY DEF Get
<1>2. w \notin DOMAIN counters => counters2[w] = 0
  BY DEF Get
<1>3. NeverAhead(counters, lv, nx) => NeverAhead(counters2, lv, nx)
  <2> SUFFICES ASSUME NeverAhead(counters, lv, nx)
               PROVE  NeverAhead(counters2, lv, nx)
    OBVIOUS
  <2>1. CASE w \in DOMAIN counters
    BY <1>1, <2>1 DEF NeverAhead
  <2>2. CASE w \notin DOMAIN counters
    <3>1. w \in DOMAIN lv => 0 <= lv[w]
      OBVIOUS
    <3> QED
      BY <1>1, <1>2, <2>2, <3>1 DEF NeverAhead
  <2> QED
    BY <2>1, <2>2
<1>4. \A v : Get(counters2, v, 0) = Get(counters, v, 0)
  BY DEF Get
<1> QED
  BY <1>3, <1>4 DEF RestIn

LEMMA TouchActionWindowKeeps ==
  ASSUME IInv, NEW a \in DOMAIN actions, TouchActionWindow(a)
  PROVE  IInv'
<1>1. SourceTyped /\ ChannelInv /\ ActionsInv /\ seq \in Nat
  BY DEF IInv, SourceTyped
<1>2. PICK w : w = actions[a].window
  OBVIOUS
<1>3. /\ live' = live /\ nextWindow' = nextWindow /\ seq' = seq
      /\ reserved' = reserved /\ queue' = queue /\ missed' = missed
      /\ pump' = pump /\ snap' = snap
      /\ obs' = TouchWindow(obs, w)
      /\ actions' = [actions EXCEPT ![a].touched = TRUE]
  BY <1>2 DEF TouchActionWindow, NoBatch, channel, pumpVars
<1>4. /\ actions[a] \in Actions
      /\ actions[a].effect # 0 => actions[a].effect > actions[a].seq
  BY <1>1, ActionFacts
<1>5. SourceTyped' /\ seq <= seq'
  BY <1>1, <1>3 DEF SourceTyped
<1>6. ActionsInv' /\ Named' = Named
  <2>1. PICK r : r = [actions[a] EXCEPT !.touched = TRUE]
    OBVIOUS
  <2>2. /\ r \in Actions /\ r.window = actions[a].window /\ r.seq = actions[a].seq
        /\ r.effect = actions[a].effect
    BY <1>4, <2>1 DEF Actions
  <2>3. actions' = [actions EXCEPT ![a] = r]
    BY <1>3, <2>1
  <2> QED
    BY <1>1, <1>4, <1>5, <2>2, <2>3, ActionChanged
<1>7. w \in Nat /\ w \in Named
  BY <1>2, <1>4, PipelineAssumption DEF Actions, Named
<1>8. /\ PumpTyped /\ SnapshotNeverStale /\ ObserverTyped(obs)
      /\ NeverAhead(Counters(obs.windows), live, nextWindow)
  BY <1>1 DEF ChannelInv, PumpTyped
<1>9. Touched(obs, obs', w)
  BY <1>3, <1>7, <1>8, TouchWindowProperties
<1>10. PICK old, new : old = Counters(obs.windows) /\ new = Counters(obs'.windows)
  OBVIOUS
<1>11. /\ DOMAIN new = DOMAIN old \cup {w}
       /\ \A v \in DOMAIN new : new[v] = Get(old, v, 0)
  <2>1. /\ DOMAIN old = DOMAIN obs.windows /\ DOMAIN new = DOMAIN obs'.windows
        /\ \A v \in DOMAIN obs'.windows : new[v] = obs'.windows[v].commits
    BY <1>10, CountersAreKnown
  <2>2. \A v : Get(old, v, 0) = Known(obs.windows, v)
    BY <1>10, CountersAreKnown
  <2>3. /\ DOMAIN obs'.windows = DOMAIN obs.windows \cup {w}
        /\ \A v \in DOMAIN obs'.windows : obs'.windows[v].commits = Known(obs.windows, v)
    BY <1>9 DEF Touched
  <2> QED
    BY <2>1, <2>2, <2>3
<1>12. nextWindow \in Nat /\ \A v \in DOMAIN live : live[v] \in Nat
  BY <1>1 DEF SourceTyped
<1>13. /\ NeverAhead(old, live, nextWindow) => NeverAhead(new, live, nextWindow)
       /\ RestIn(queue, old, live, nextWindow, Named) => RestIn(queue, new, live, nextWindow, Named)
  BY <1>7, <1>11, <1>12, NamedWithoutCount
<1>14. ObserverTyped(obs') /\ obs'.watermark = obs.watermark
  BY <1>9 DEF Touched
<1>15. PumpTyped' /\ SnapshotNeverStale'
  BY <1>3, <1>8, <1>14 DEF PumpTyped, SnapshotNeverStale
<1>16. Recoverable'
  <2>1. Recoverable
    BY <1>1 DEF ChannelInv
  <2> QED
    BY <1>3, <1>6, <1>10, <1>13, <2>1 DEF Recoverable
<1>17. ChannelInv'
  BY <1>1, <1>3, <1>8, <1>10, <1>13, <1>15, <1>16 DEF ChannelInv, QueueTyped
<1> QED
  BY <1>5, <1>6, <1>17 DEF IInv

-----------------------------------------------------------------------------
(* The pump task.                                                          *)

\* The channel without its oldest event holds whatever that event was not.
LEMMA HeadReceived ==
  ASSUME NEW q \in Seq(Published), q # << >>
  PROVE  /\ Head(q) = q[1] /\ 1 \in 1 .. Len(q) /\ q[1] \in Published
         /\ SuffixOf(Tail(q), q, 1)
         /\ \A w, n : CommitQueued(q, w, n) =>
              \/ About(q[1], w) /\ q[1].event.kind = "commit" /\ q[1].event.n = n
              \/ CommitQueued(Tail(q), w, n)
         /\ \A w : EndFollows(q, 0, w) =>
              \/ About(q[1], w) /\ q[1].event.kind = "destroyed"
              \/ EndFollows(Tail(q), 0, w)
         /\ \A w : EndFollows(q, 1, w) => EndFollows(Tail(q), 0, w)
<1>1. PICK p : p = Tail(q)
  OBVIOUS
<1>2. /\ p \in Seq(Published) /\ Len(q) \in Nat /\ Len(q) >= 1
      /\ Len(p) = Len(q) - 1
      /\ \A i \in 1 .. Len(p) : p[i] = q[i + 1]
  BY <1>1
<1>3. ASSUME NEW i \in 1 .. Len(q), i # 1
      PROVE  i - 1 \in 1 .. Len(p) /\ p[i - 1] = q[i]
  <2>1. i - 1 \in 1 .. Len(p) /\ (i - 1) + 1 = i
    BY <1>2, <1>3
  <2> QED
    BY <1>2, <2>1
<1>4. ASSUME NEW w, NEW n, CommitQueued(q, w, n)
      PROVE  \/ About(q[1], w) /\ q[1].event.kind = "commit" /\ q[1].event.n = n
             \/ CommitQueued(p, w, n)
  <2>1. PICK i \in 1 .. Len(q) : About(q[i], w) /\ q[i].event.kind = "commit" /\ q[i].event.n = n
    BY <1>4 DEF CommitQueued
  <2>2. CASE i = 1
    BY <2>1, <2>2
  <2>3. CASE i # 1
    <3>1. i - 1 \in 1 .. Len(p) /\ p[i - 1] = q[i]
      BY <1>3, <2>3
    <3>2. CommitQueued(p, w, n)
      BY <2>1, <3>1 DEF CommitQueued
    <3> QED
      BY <3>2
  <2> QED
    BY <2>2, <2>3
<1>5. ASSUME NEW w, EndFollows(q, 0, w)
      PROVE  \/ About(q[1], w) /\ q[1].event.kind = "destroyed"
             \/ EndFollows(p, 0, w)
  <2>1. PICK i \in 0 + 1 .. Len(q) : About(q[i], w) /\ q[i].event.kind = "destroyed"
    BY <1>5 DEF EndFollows
  <2>2. CASE i = 1
    BY <2>1, <2>2
  <2>3. CASE i # 1
    <3>1. i - 1 \in 0 + 1 .. Len(p) /\ p[i - 1] = q[i]
      BY <1>3, <2>3
    <3>2. EndFollows(p, 0, w)
      BY <2>1, <3>1 DEF EndFollows
    <3> QED
      BY <3>2
  <2> QED
    BY <2>2, <2>3
<1>6. ASSUME NEW w, EndFollows(q, 1, w)
      PROVE  EndFollows(p, 0, w)
  <2>1. PICK i \in 1 + 1 .. Len(q) : About(q[i], w) /\ q[i].event.kind = "destroyed"
    BY <1>6 DEF EndFollows
  <2>2. i \in 1 .. Len(q) /\ i # 1
    OBVIOUS
  <2>3. i - 1 \in 0 + 1 .. Len(p) /\ p[i - 1] = q[i]
    BY <1>3, <2>2
  <2> QED
    BY <2>1, <2>3 DEF EndFollows
<1>7. Head(q) = q[1] /\ 1 \in 1 .. Len(q) /\ q[1] \in Published
  BY <1>2
<1>8. SuffixOf(p, q, 1)
  BY <1>2 DEF SuffixOf
<1> QED
  BY <1>1, <1>4, <1>5, <1>6, <1>7, <1>8

(***************************************************************************)
(* The counters after the oldest event in the channel was handled: what    *)
(* they still lack, the rest of the channel has.                           *)
(***************************************************************************)
CountersMoved(counters, counters2, kind, w, n) ==
  /\ DOMAIN counters2 = IF kind = "destroyed" THEN DOMAIN counters \ {w}
                        ELSE DOMAIN counters \cup {w}
  /\ \A v \in DOMAIN counters2 :
       counters2[v] = IF v = w /\ kind = "commit" THEN Later(Get(counters, v, 0), n)
                      ELSE Get(counters, v, 0)

LEMMA HandledIsNotAhead ==
  ASSUME NEW q \in Seq(Published), q # << >>, NEW lv, NEW nx \in Nat,
         \A v \in DOMAIN lv : lv[v] \in Nat,
         q[1].event.kind # "server", Truthful(q, lv, nx),
         NEW counters, NEW counters2, NeverAhead(counters, lv, nx),
         CountersMoved(counters, counters2, q[1].event.kind, q[1].event.window, q[1].event.n)
  PROVE  NeverAhead(counters2, lv, nx)
<1>1. PICK kind, w, n : kind = q[1].event.kind /\ w = q[1].event.window /\ n = q[1].event.n
  OBVIOUS
<1>2. q[1] \in Published /\ 1 \in 1 .. Len(q)
  BY HeadReceived
<1>3. w \in Nat /\ n \in Nat /\ About(q[1], w)
  BY <1>1, <1>2 DEF Published, SrcEvents, About
<1>4. /\ w \in 1 .. nx - 1
      /\ kind = "commit" /\ w \in DOMAIN lv => n <= lv[w]
  BY <1>1, <1>2, <1>3 DEF Truthful
<1>5. /\ DOMAIN counters \subseteq Nat
      /\ \A v : Get(counters, v, 0) \in Nat
      /\ \A v \in DOMAIN lv : Get(counters, v, 0) <= lv[v]
      /\ \A v \in Nat : v >= nx => Get(counters, v, 0) = 0
  BY DEF NeverAhead, Get
<1>6. DOMAIN counters2 \subseteq Nat
  BY <1>1, <1>3, <1>5 DEF CountersMoved
<1>7. ASSUME NEW v \in DOMAIN counters2
      PROVE  /\ counters2[v] \in Nat
             /\ v \in DOMAIN lv => counters2[v] <= lv[v]
             /\ v >= nx => counters2[v] = 0
  <2>1. CASE v = w /\ kind = "commit"
    <3>1. counters2[v] = Later(Get(counters, v, 0), n)
      BY <1>1, <2>1 DEF CountersMoved
    <3>2. counters2[v] \in {Get(counters, v, 0), n}
      BY <3>1 DEF Later
    <3> QED
      BY <1>3, <1>4, <1>5, <2>1, <3>2
  <2>2. CASE ~ (v = w /\ kind = "commit")
    <3>1. counters2[v] = Get(counters, v, 0) /\ v \in Nat
      BY <1>1, <1>6, <2>2 DEF CountersMoved
    <3> QED
      BY <1>5, <3>1
  <2> QED
    BY <2>1, <2>2
<1> QED
  BY <1>6, <1>7 DEF NeverAhead

LEMMA HandledLeavesRest ==
  ASSUME NEW q \in Seq(Published), q # << >>, NEW lv, NEW nx \in Nat, NEW named,
         \A v \in DOMAIN lv : lv[v] \in Nat,
         q[1].event.kind # "server", Truthful(q, lv, nx),
         NEW counters, NEW counters2, RestIn(q, counters, lv, nx, named),
         CountersMoved(counters, counters2, q[1].event.kind, q[1].event.window, q[1].event.n)
  PROVE  RestIn(Tail(q), counters2, lv, nx, named)
<1>1. PICK kind, w, n : kind = q[1].event.kind /\ w = q[1].event.window /\ n = q[1].event.n
  OBVIOUS
<1>2. q[1] \in Published /\ 1 \in 1 .. Len(q)
  BY HeadReceived
<1>3. /\ w \in Nat /\ n \in Nat
      /\ \A v : About(q[1], v) <=> v = w
  BY <1>1, <1>2 DEF Published, SrcEvents, About
<1>4. /\ kind = "destroyed" => w \notin DOMAIN lv
      /\ kind = "commit" /\ w \in DOMAIN lv => n <= lv[w]
      /\ kind # "destroyed" /\ w \notin DOMAIN lv => EndFollows(q, 1, w)
  BY <1>1, <1>2, <1>3 DEF Truthful
<1>5. PICK p : p = Tail(q)
  OBVIOUS
<1>6. /\ \A v, m : CommitQueued(q, v, m) =>
           (v = w /\ kind = "commit" /\ n = m) \/ CommitQueued(p, v, m)
      /\ \A v : EndFollows(q, 0, v) => (v = w /\ kind = "destroyed") \/ EndFollows(p, 0, v)
      /\ \A v : EndFollows(q, 1, v) => EndFollows(p, 0, v)
  BY <1>1, <1>3, <1>5, HeadReceived
<1>7. NeverAhead(counters, lv, nx)
  BY DEF RestIn
<1>8. NeverAhead(counters2, lv, nx)
  BY <1>7, HandledIsNotAhead
<1>9. CountersMoved(counters, counters2, kind, w, n)
  BY <1>1
<1>10. ASSUME NEW v \in DOMAIN lv, Get(counters2, v, 0) # lv[v]
       PROVE  CommitQueued(p, v, lv[v])
  <2>1. /\ Get(counters, v, 0) \in Nat /\ Get(counters, v, 0) <= lv[v] /\ lv[v] \in Nat
    BY <1>7 DEF NeverAhead, Get
  <2>2. ~ (v = w /\ kind = "destroyed")
    BY <1>4
  <2>3. CASE v = w /\ kind = "commit"
    <3>1. Get(counters2, v, 0) = Later(Get(counters, v, 0), n)
      BY <1>9, <2>3 DEF CountersMoved, Get
    <3>2. n # lv[v] /\ Get(counters, v, 0) # lv[v]
      <4>1. n <= lv[v]
        BY <1>4, <2>3
      <4> QED
        BY <1>3, <1>10, <2>1, <3>1, <4>1 DEF Later
    <3>3. CommitQueued(q, v, lv[v])
      BY <3>2 DEF RestIn
    <3> QED
      BY <1>6, <3>2, <3>3
  <2>4. CASE ~ (v = w /\ kind = "commit")
    <3>1. Get(counters2, v, 0) = Get(counters, v, 0)
      BY <1>9, <2>2, <2>4 DEF CountersMoved, Get
    <3>2. CommitQueued(q, v, lv[v])
      BY <1>10, <3>1 DEF RestIn
    <3> QED
      BY <1>6, <2>4, <3>2
  <2> QED
    BY <2>3, <2>4
<1>11. ASSUME NEW v \in DOMAIN counters2 \ (DOMAIN lv \cup named)
       PROVE  EndFollows(p, 0, v)
  <2>1. CASE v = w
    <3>1. kind # "destroyed"
      BY <1>9, <2>1 DEF CountersMoved
    <3> QED
      BY <1>4, <1>6, <2>1, <3>1
  <2>2. CASE v # w
    <3>1. v \in DOMAIN counters
      BY <1>9, <2>2 DEF CountersMoved
    <3>2. EndFollows(q, 0, v)
      BY <3>1 DEF RestIn
    <3> QED
      BY <1>6, <2>2, <3>2
  <2> QED
    BY <2>1, <2>2
<1>12. RestIn(p, counters2, lv, nx, named)
  BY <1>8, <1>10, <1>11 DEF RestIn
<1> QED
  BY <1>5, <1>12

\* An event that counts for no window moves the watermark only.
LEMMA HandleUncountedProperties ==
  ASSUME NEW o, ObserverTyped(o), NEW num \in Nat, NEW p, p = HandleUncounted(o, num)
  PROVE  /\ ObserverTyped(p)
         /\ p.windows = o.windows
         /\ p.watermark = Later(o.watermark, num)
<1>1. /\ DOMAIN o = {"windows", "watermark", "journal", "pending"} /\ o.watermark \in Nat
      /\ WindowsTyped(o.windows) /\ JournalTyped(o.journal, o.watermark)
  BY DEF ObserverTyped
<1>2. PICK mark : mark = Later(o.watermark, num)
  OBVIOUS
<1>3. p = [o EXCEPT !.watermark = mark]
  BY <1>2 DEF HandleUncounted
<1>4. /\ DOMAIN p = {"windows", "watermark", "journal", "pending"}
      /\ p.watermark = mark /\ p.windows = o.windows /\ p.journal = o.journal
  BY <1>1, <1>3
<1>5. mark \in Nat /\ o.watermark <= mark
  BY <1>1, <1>2 DEF Later
<1>6. JournalTyped(o.journal, mark)
  <2>1. \A e \in Elems(o.journal) : e \in Entries
    BY <1>1 DEF JournalTyped, Elems
  <2>2. \A e \in Elems(o.journal) : e.seq \in Nat /\ e.seq <= o.watermark
    BY <1>1, <2>1 DEF JournalTyped, Entries
  <2> QED
    BY <1>1, <1>5, <2>2 DEF JournalTyped
<1> QED
  BY <1>1, <1>2, <1>4, <1>5, <1>6 DEF ObserverTyped

\* What handling the oldest event in the channel does to the observer.
LEMMA ReceivedByObserver ==
  ASSUME SourceTyped, ChannelInv, Receive
  PROVE  /\ ~missed /\ queue # << >> /\ Head(queue) = queue[1]
         /\ 1 \in 1 .. Len(queue) /\ queue[1] \in Published
         /\ ObserverTyped(obs')
         /\ obs'.watermark = Later(obs.watermark, queue[1].seq)
         /\ queue[1].event.kind = "server" => obs'.windows = obs.windows
         /\ queue[1].event.kind # "server" =>
              Handled(obs, obs', queue[1].seq, queue[1].event.kind,
                      queue[1].event.window, queue[1].event.n)
<1>1. /\ ~missed /\ queue # << >> /\ queue \in Seq(Published) /\ ObserverTyped(obs)
  BY DEF ChannelInv, QueueTyped, PumpTyped, Receive, HandleNext
<1>2. Head(queue) = queue[1] /\ 1 \in 1 .. Len(queue) /\ queue[1] \in Published
  BY <1>1, HeadReceived
<1>3. PICK num, e : num = queue[1].seq /\ e = queue[1].event
  OBVIOUS
<1>4. num \in Nat /\ e \in SrcEvents
  BY <1>2, <1>3 DEF Published
<1>5. obs' = IF e.kind = "server" THEN HandleUncounted(obs, num)
             ELSE HandleEvent(obs, num, e.kind, e.window, e.n, 0)
  BY <1>2, <1>3 DEF Receive, HandleNext
<1>6. CASE e.kind = "server"
  <2>1. obs' = HandleUncounted(obs, num)
    BY <1>5, <1>6
  <2>2. /\ ObserverTyped(obs') /\ obs'.windows = obs.windows
        /\ obs'.watermark = Later(obs.watermark, num)
    BY <1>1, <1>4, <2>1, HandleUncountedProperties
  <2> QED
    BY <1>1, <1>2, <1>3, <1>6, <2>2
<1>7. CASE e.kind # "server"
  <2>1. e.kind \in EventKinds /\ e.window \in Nat /\ e.n \in Nat
    BY <1>4, <1>7 DEF SrcEvents
  <2>2. Handled(obs, HandleEvent(obs, num, e.kind, e.window, e.n, 0), num, e.kind, e.window, e.n)
    BY <1>1, <1>4, <2>1, HandleEventProperties
  <2>3. Handled(obs, obs', num, e.kind, e.window, e.n)
    BY <1>5, <1>7, <2>2
  <2>4. ObserverTyped(obs') /\ obs'.watermark = Later(obs.watermark, num)
    BY <2>3 DEF Handled
  <2> QED
    BY <1>1, <1>2, <1>3, <1>7, <2>3, <2>4
<1> QED
  BY <1>6, <1>7

LEMMA ReceiveKeeps ==
  ASSUME IInv, Receive
  PROVE  IInv'
<1>1. SourceTyped /\ ChannelInv /\ ActionsInv /\ seq \in Nat
  BY DEF IInv, SourceTyped
<1>2. /\ live' = live /\ nextWindow' = nextWindow /\ seq' = seq
      /\ reserved' = reserved /\ queue' = Tail(queue) /\ missed' = missed
      /\ pump = "receiving" /\ pump' = pump /\ snap' = snap /\ actions' = actions
  BY DEF Receive, HandleNext, NoBatch, pumpVars
<1>3. PICK h : h = queue[1]
  OBVIOUS
<1>4. /\ ~missed /\ queue # << >>
      /\ 1 \in 1 .. Len(queue) /\ h \in Published
      /\ ObserverTyped(obs')
      /\ obs'.watermark = Later(obs.watermark, h.seq)
      /\ h.event.kind = "server" => obs'.windows = obs.windows
      /\ h.event.kind # "server" =>
           Handled(obs, obs', h.seq, h.event.kind, h.event.window, h.event.n)
  BY <1>1, <1>3, ReceivedByObserver
<1>5. /\ queue \in Seq(Published) /\ \A i \in 1 .. Len(queue) : queue[i].seq <= seq
      /\ Truthful(queue, live, nextWindow)
      /\ reserved \subseteq 0 .. seq
      /\ snap = NoSnapshot
      /\ ObserverTyped(obs) /\ obs.watermark <= seq
      /\ NeverAhead(Counters(obs.windows), live, nextWindow)
      /\ RestIn(queue, Counters(obs.windows), live, nextWindow, Named)
  BY <1>1, <1>2, <1>4 DEF ChannelInv, QueueTyped, PumpTyped, Recoverable
<1>6. PICK p : p = Tail(queue)
  OBVIOUS
<1>7. SuffixOf(p, queue, 1)
  BY <1>4, <1>5, <1>6, HeadReceived
<1>8. Truthful(p, live, nextWindow)
  BY <1>5, <1>7, SuffixIsTruthful
<1>9. p \in Seq(Published) /\ \A i \in 1 .. Len(p) : p[i].seq <= seq
  <2>1. /\ p \in Seq(Published) /\ Len(p) \in Nat /\ Len(queue) \in Nat
        /\ Len(p) = Len(queue) - 1
        /\ \A i \in 1 .. Len(p) : p[i] = queue[i + 1]
    BY <1>5, <1>7 DEF SuffixOf
  <2>2. \A i \in 1 .. Len(p) : i + 1 \in 1 .. Len(queue)
    BY <2>1
  <2> QED
    BY <1>5, <2>1, <2>2
<1>10. obs.watermark \in Nat /\ obs'.watermark \in Nat /\ obs'.watermark <= seq
  <2>1. obs.watermark \in Nat /\ h.seq \in Nat /\ h.seq <= seq
    BY <1>3, <1>4, <1>5 DEF ObserverTyped, Published
  <2> QED
    BY <1>1, <1>4, <1>5, <2>1 DEF Later
<1>11. PICK old, new : old = Counters(obs.windows) /\ new = Counters(obs'.windows)
  OBVIOUS
<1>12. \/ h.event.kind = "server" /\ new = old
       \/ /\ h.event.kind # "server"
          /\ CountersMoved(old, new, h.event.kind, h.event.window, h.event.n)
  <2>1. CASE h.event.kind = "server"
    BY <1>4, <1>11, <2>1
  <2>2. CASE h.event.kind # "server"
    <3>1. /\ DOMAIN old = DOMAIN obs.windows /\ DOMAIN new = DOMAIN obs'.windows
          /\ \A w \in DOMAIN obs'.windows : new[w] = obs'.windows[w].commits
      BY <1>11, CountersAreKnown
    <3>2. \A w : Get(old, w, 0) = Known(obs.windows, w)
      BY <1>11, CountersAreKnown
    <3>3. Handled(obs, obs', h.seq, h.event.kind, h.event.window, h.event.n)
      BY <1>4, <2>2
    <3> QED
      BY <2>2, <3>1, <3>2, <3>3 DEF CountersMoved, Handled
  <2> QED
    BY <2>1, <2>2
<1>13. nextWindow \in Nat /\ \A v \in DOMAIN live : live[v] \in Nat
  BY <1>1 DEF SourceTyped
<1>14. NeverAhead(new, live, nextWindow) /\ RestIn(p, new, live, nextWindow, Named)
  <2>1. CASE h.event.kind = "server" /\ new = old
    <3>1. \A w : ~About(h, w)
      BY <2>1 DEF About
    <3>2. /\ \A w, n : CommitQueued(queue, w, n) => CommitQueued(p, w, n)
          /\ \A w : EndFollows(queue, 0, w) => EndFollows(p, 0, w)
      BY <1>3, <1>4, <1>5, <1>6, <3>1, HeadReceived
    <3> QED
      BY <1>5, <1>11, <2>1, <3>2 DEF RestIn
  <2>2. CASE /\ h.event.kind # "server"
             /\ CountersMoved(old, new, h.event.kind, h.event.window, h.event.n)
    <3>1. NeverAhead(old, live, nextWindow) /\ RestIn(queue, old, live, nextWindow, Named)
      BY <1>5, <1>11
    <3>2. RestIn(Tail(queue), new, live, nextWindow, Named)
      BY <1>3, <1>4, <1>5, <1>13, <2>2, <3>1, HandledLeavesRest
    <3> QED
      BY <1>6, <3>2 DEF RestIn
  <2> QED
    BY <1>12, <2>1, <2>2
<1>15. Named' = Named
  BY <1>2 DEF Named
<1>16. QueueTyped' /\ PumpTyped' /\ SnapshotNeverStale'
  BY <1>1, <1>2, <1>4, <1>5, <1>6, <1>9, <1>10
     DEF ChannelInv, QueueTyped, PumpTyped, SnapshotNeverStale
<1>17. Recoverable'
  BY <1>2, <1>5, <1>6, <1>11, <1>14, <1>15 DEF Recoverable
<1>18. ChannelInv'
  BY <1>2, <1>5, <1>6, <1>8, <1>11, <1>14, <1>16, <1>17 DEF ChannelInv
<1>19. SourceTyped' /\ ActionsInv'
  BY <1>1, <1>2 DEF SourceTyped, ActionsInv, ActionsTyped, EffectsFollowTheirAction
<1> QED
  BY <1>18, <1>19 DEF IInv

\* The lag is noticed: from here on the reply to QueryState is what counts.
LEMMA LaggedKeeps ==
  ASSUME IInv, Lagged
  PROVE  IInv'
<1>1. SourceTyped /\ ChannelInv /\ ActionsInv
  BY DEF IInv
<1>2. /\ live' = live /\ nextWindow' = nextWindow /\ seq' = seq
      /\ reserved' = reserved /\ queue' = queue /\ missed' = FALSE
      /\ pump = "receiving" /\ pump' = "awaiting" /\ snap' = snap
      /\ obs' = obs /\ actions' = actions
  BY DEF Lagged, AfterLag, NoBatch
<1>3. snap = NoSnapshot
  BY <1>1, <1>2 DEF ChannelInv, PumpTyped
<1>4. ChannelInv'
  BY <1>1, <1>2, <1>3 DEF ChannelInv, QueueTyped, PumpTyped, SnapshotNeverStale, Recoverable
<1>5. SourceTyped' /\ ActionsInv'
  BY <1>1, <1>2 DEF SourceTyped, ActionsInv, ActionsTyped, EffectsFollowTheirAction
<1> QED
  BY <1>4, <1>5 DEF IInv

\* The reply needs nothing from the channel at the moment it is given.
LEMMA AnswerQueryKeeps ==
  ASSUME IInv, AnswerQuery
  PROVE  IInv'
<1>1. SourceTyped /\ ChannelInv /\ ActionsInv /\ seq \in Nat
  BY DEF IInv, SourceTyped
<1>2. /\ live' = live /\ nextWindow' = nextWindow /\ seq' = seq
      /\ reserved' = reserved /\ queue' = queue /\ missed' = missed
      /\ pump = "awaiting" /\ pump' = pump
      /\ obs' = obs /\ actions' = actions
      /\ snap' = [seq |-> seq, windows |-> live]
  BY DEF AnswerQuery, NoBatch, channel
<1>3. /\ nextWindow \in Nat /\ DOMAIN live \subseteq 1 .. nextWindow - 1
      /\ \A w \in DOMAIN live : live[w] \in Nat
  BY <1>1 DEF SourceTyped
<1>4. SnapshotTyped(snap')
  <2>1. IsFiniteSet(1 .. nextWindow - 1)
    BY <1>3, FS_Interval
  <2>2. IsFiniteSet(DOMAIN live)
    BY <1>3, <2>1, FS_Subset
  <2> QED
    BY <1>1, <1>2, <1>3, <2>2 DEF SnapshotTyped
<1>5. snap'.seq = seq /\ snap'.windows = live
  BY <1>2
<1>6. NeverAhead(live, live, nextWindow) /\ RestIn(queue, live, live, nextWindow, Named)
  <2>1. NeverAhead(live, live, nextWindow)
    BY <1>3 DEF NeverAhead
  <2> QED
    BY <2>1 DEF RestIn, Get
<1>7. PumpTyped' /\ SnapshotNeverStale'
  <2>1. PumpTyped /\ obs.watermark <= seq
    BY <1>1 DEF ChannelInv, PumpTyped
  <2> QED
    BY <1>1, <1>2, <1>4, <1>5, <2>1 DEF PumpTyped, SnapshotNeverStale
<1>8. Recoverable'
  BY <1>2, <1>5, <1>6 DEF Recoverable, Named
<1>9. ChannelInv'
  BY <1>1, <1>2, <1>5, <1>6, <1>7, <1>8 DEF ChannelInv, QueueTyped
<1>10. SourceTyped' /\ ActionsInv'
  BY <1>1, <1>2 DEF SourceTyped, ActionsInv, ActionsTyped, EffectsFollowTheirAction
<1> QED
  BY <1>9, <1>10 DEF IInv

(***************************************************************************)
(* The observer adopts the windows of the reply and never a lower counter, *)
(* and its own counters were not ahead of the source: what the reply       *)
(* lacked is what the observer lacks now.                                  *)
(***************************************************************************)
LEMMA ApplySnapshotKeeps ==
  ASSUME IInv, ApplySnapshot
  PROVE  IInv'
<1>1. SourceTyped /\ ChannelInv /\ ActionsInv /\ seq \in Nat
  BY DEF IInv, SourceTyped
<1>2. /\ live' = live /\ nextWindow' = nextWindow /\ seq' = seq
      /\ reserved' = reserved /\ queue' = queue /\ missed' = missed
      /\ pump' = "receiving" /\ snap # NoSnapshot /\ snap' = NoSnapshot
      /\ obs' = Resync(obs, snap, 0) /\ actions' = actions
  BY DEF ApplySnapshot, NoBatch, channel
<1>3. /\ ObserverTyped(obs) /\ SnapshotTyped(snap)
      /\ snap.seq >= obs.watermark /\ snap.seq <= seq
      /\ NeverAhead(Counters(obs.windows), live, nextWindow)
      /\ NeverAhead(snap.windows, live, nextWindow)
      /\ ~missed => RestIn(queue, snap.windows, live, nextWindow, Named)
  BY <1>1, <1>2 DEF ChannelInv, PumpTyped, SnapshotNeverStale, Recoverable
<1>4. Resynced(obs, obs', snap)
  BY <1>2, <1>3, ResyncProperties
<1>5. /\ ObserverTyped(obs') /\ obs'.watermark = snap.seq
      /\ DOMAIN obs'.windows = DOMAIN snap.windows
      /\ \A w \in DOMAIN obs'.windows :
           obs'.windows[w].commits = Later(Known(obs.windows, w), snap.windows[w])
  BY <1>3, <1>4 DEF Resynced
<1>6. PICK old, new, got : /\ old = Counters(obs.windows) /\ new = Counters(obs'.windows)
                           /\ got = snap.windows
  OBVIOUS
<1>7. /\ DOMAIN new = DOMAIN got
      /\ \A w \in DOMAIN new : new[w] = Later(Get(old, w, 0), got[w])
  <2>1. /\ DOMAIN new = DOMAIN obs'.windows
        /\ \A w \in DOMAIN obs'.windows : new[w] = obs'.windows[w].commits
    BY <1>6, CountersAreKnown
  <2>2. \A w : Get(old, w, 0) = Known(obs.windows, w)
    BY <1>6, CountersAreKnown
  <2> QED
    BY <1>5, <1>6, <2>1, <2>2
<1>8. /\ nextWindow \in Nat /\ DOMAIN live \subseteq 1 .. nextWindow - 1
      /\ \A w \in DOMAIN live : live[w] \in Nat
  BY <1>1 DEF SourceTyped
<1>9. NeverAhead(old, live, nextWindow) /\ NeverAhead(got, live, nextWindow)
  BY <1>3, <1>6
<1>10. /\ \A w : Get(old, w, 0) \in Nat
       /\ \A w \in DOMAIN live : Get(old, w, 0) <= live[w]
       /\ \A w \in Nat : w >= nextWindow => Get(old, w, 0) = 0
       /\ DOMAIN got \subseteq Nat
       /\ \A w \in DOMAIN got : got[w] \in Nat
       /\ \A w \in DOMAIN got \cap DOMAIN live : got[w] <= live[w]
       /\ \A w \in DOMAIN got : w >= nextWindow => got[w] = 0
  BY <1>8, <1>9 DEF NeverAhead, Get
<1>11. \A w \in DOMAIN new : new[w] \in {Get(old, w, 0), got[w]}
  BY <1>7 DEF Later
<1>12. NeverAhead(new, live, nextWindow)
  BY <1>7, <1>10, <1>11 DEF NeverAhead
<1>13. ASSUME ~missed
       PROVE  RestIn(queue, new, live, nextWindow, Named)
  <2>1. RestIn(queue, got, live, nextWindow, Named)
    BY <1>3, <1>6, <1>13
  <2>2. ASSUME NEW w \in DOMAIN live, Get(new, w, 0) # live[w]
        PROVE  Get(got, w, 0) # live[w]
    <3>1. CASE w \in DOMAIN got
      <4>1. Get(got, w, 0) = got[w] /\ Get(new, w, 0) = Later(Get(old, w, 0), got[w])
        BY <1>7, <3>1 DEF Get
      <4> QED
        BY <1>8, <1>10, <2>2, <3>1, <4>1 DEF Later
    <3>2. CASE w \notin DOMAIN got
      BY <1>7, <2>2, <3>2 DEF Get
    <3> QED
      BY <3>1, <3>2
  <2> QED
    BY <1>7, <1>12, <2>1, <2>2 DEF RestIn
<1>14. Named' = Named
  BY <1>2 DEF Named
<1>15. QueueTyped' /\ PumpTyped' /\ SnapshotNeverStale'
  BY <1>1, <1>2, <1>3, <1>5 DEF ChannelInv, QueueTyped, PumpTyped, SnapshotNeverStale
<1>16. Recoverable'
  BY <1>2, <1>6, <1>13, <1>14 DEF Recoverable
<1>17. ChannelInv'
  BY <1>1, <1>2, <1>6, <1>12, <1>15, <1>16 DEF ChannelInv
<1>18. SourceTyped' /\ ActionsInv'
  BY <1>1, <1>2 DEF SourceTyped, ActionsInv, ActionsTyped, EffectsFollowTheirAction
<1> QED
  BY <1>17, <1>18 DEF IInv

-----------------------------------------------------------------------------
(* The results.                                                            *)

\* Nothing exists, nothing was published and nobody knows of anything.
LEMMA InitHolds == PipelineInit => IInv
<1> SUFFICES ASSUME PipelineInit
             PROVE  IInv
  OBVIOUS
<1>1. /\ live = NoEntries /\ nextWindow = 1 /\ seq = 0
      /\ reserved = {} /\ queue = << >> /\ missed = FALSE
      /\ pump = "receiving" /\ snap = NoSnapshot /\ obs = EmptyObserver /\ actions = << >>
  BY DEF PipelineInit, SrcInit
<1>2. DOMAIN NoEntries = {} /\ DOMAIN live = {}
  BY <1>1 DEF NoEntries
<1>3. /\ DOMAIN obs.windows = {} /\ obs.watermark = 0 /\ ObserverTyped(obs)
  BY <1>1, <1>2, EmptyObserverTyped DEF EmptyObserver
<1>4. SourceTyped
  BY <1>1, <1>2 DEF SourceTyped
<1>5. ActionsInv
  BY <1>1 DEF ActionsInv, ActionsTyped, EffectsFollowTheirAction
<1>6. QueueTyped /\ PumpTyped /\ SnapshotNeverStale
  <2>1. queue \in Seq(Published) /\ Len(queue) = 0
    BY <1>1
  <2>2. QueueTyped
    <3>1. missed \in BOOLEAN
      BY <1>1
    <3>2. \A i \in 1 .. Len(queue) : queue[i].seq <= seq
      BY <2>1
    <3>3. reserved \subseteq 0 .. seq
      BY <1>1
    <3> QED
      BY <2>1, <3>1, <3>2, <3>3 DEF QueueTyped
  <2>3. PumpTyped /\ SnapshotNeverStale
    BY <1>1, <1>3 DEF PumpTyped, SnapshotNeverStale
  <2> QED
    BY <2>2, <2>3
<1>7. Truthful(queue, live, nextWindow)
  BY <1>1 DEF Truthful
<1>8. DOMAIN Counters(obs.windows) = {}
  BY <1>3, CountersAreKnown
<1>9. NeverAhead(Counters(obs.windows), live, nextWindow)
  BY <1>8 DEF NeverAhead
<1>10. RestIn(queue, Counters(obs.windows), live, nextWindow, Named)
  BY <1>2, <1>8, <1>9 DEF RestIn
<1> QED
  BY <1>1, <1>4, <1>5, <1>6, <1>7, <1>9, <1>10 DEF IInv, ChannelInv, Recoverable

LEMMA StepKeeps == IInv /\ [PipelineNext]_pvars => IInv'
<1> SUFFICES ASSUME IInv, [PipelineNext]_pvars
             PROVE  IInv'
  OBVIOUS
<1>1. CASE SourceStep
  BY <1>1, SourceStepKeeps
<1>2. CASE ReserveNumber
  BY <1>2, ReserveNumberKeeps
<1>3. CASE AnswerQuery
  BY <1>3, AnswerQueryKeeps
<1>4. CASE PublishReserved
  BY <1>4, PublishReservedKeeps
<1>5. ASSUME NEW w \in WindowIds, RecordAction(w)
      PROVE  IInv'
  BY <1>5, RecordActionKeeps
<1>6. ASSUME NEW a \in DOMAIN actions, TouchActionWindow(a)
      PROVE  IInv'
  BY <1>6, TouchActionWindowKeeps
<1>7. ASSUME NEW a \in DOMAIN actions, ServeAction(a)
      PROVE  IInv'
  BY <1>7, ServeActionKeeps
<1>8. CASE Receive
  BY <1>8, ReceiveKeeps
<1>9. CASE Lagged
  BY <1>9, LaggedKeeps
<1>10. CASE ApplySnapshot
  BY <1>10, ApplySnapshotKeeps
<1>11. CASE UNCHANGED pvars
  <2>1. /\ live' = live /\ nextWindow' = nextWindow /\ seq' = seq
        /\ reserved' = reserved /\ queue' = queue /\ missed' = missed
        /\ pump' = pump /\ snap' = snap /\ obs' = obs /\ actions' = actions
    BY <1>11 DEF pvars, svars, channel, pumpVars
  <2>2. SourceTyped' /\ ActionsInv'
    BY <2>1 DEF IInv, SourceTyped, ActionsInv, ActionsTyped, EffectsFollowTheirAction
  <2>3. ChannelInv'
    BY <2>1 DEF IInv, ChannelInv, QueueTyped, PumpTyped, SnapshotNeverStale, Recoverable, Named
  <2> QED
    BY <2>2, <2>3 DEF IInv
<1> QED
  BY <1>1, <1>2, <1>3, <1>4, <1>5, <1>6, <1>7, <1>8, <1>9, <1>10, <1>11 DEF PipelineNext

THEOREM PipelineInvariant == PipelineSpec => []IInv
  BY InitHolds, StepKeeps, PTL DEF PipelineSpec

(***************************************************************************)
(* resync (service.rs) never takes its "stale snapshot ignored" branch     *)
(* when the pump calls it, so a lag is always repaired.                    *)
(***************************************************************************)
THEOREM SnapshotIsNeverStale == PipelineSpec => []SnapshotNeverStale
<1>1. IInv => SnapshotNeverStale
  BY DEF IInv, ChannelInv
<1> QED
  BY <1>1, PipelineInvariant, PTL

(***************************************************************************)
(* What a recorded action causes is numbered after its after_action filter *)
(* point (record_action in service.rs, activate_window in windows.rs).     *)
(***************************************************************************)
THEOREM EffectsAlwaysFollow == PipelineSpec => []EffectsFollowTheirAction
<1>1. IInv => EffectsFollowTheirAction
  BY DEF IInv, ActionsInv
<1> QED
  BY <1>1, PipelineInvariant, PTL

(***************************************************************************)
(* When the pump (event_pump.rs) has drained the channel, the observer     *)
(* knows the existing windows and their commit counters, whatever the      *)
(* channel lost on the way and however often it lagged.                    *)
(***************************************************************************)
THEOREM AlwaysAgreesWhenDrained == PipelineSpec => []AgreesWhenDrained
<1>1. IInv => AgreesWhenDrained
  <2> SUFFICES ASSUME IInv, Drained
               PROVE  Agrees
    BY DEF AgreesWhenDrained
  <2>1. queue = << >> /\ SourceTyped
    BY DEF IInv, Drained
  <2>2. RestIn(queue, Counters(obs.windows), live, nextWindow, Named)
    BY DEF IInv, ChannelInv, Recoverable, Drained
  <2>3. /\ \A w, n : ~CommitQueued(queue, w, n)
        /\ \A w : ~EndFollows(queue, 0, w)
    BY <2>1 DEF CommitQueued, EndFollows
  <2>4. PICK counters : counters = Counters(obs.windows)
    OBVIOUS
  <2>5. /\ DOMAIN counters = DOMAIN obs.windows
        /\ \A w \in DOMAIN obs.windows : counters[w] = obs.windows[w].commits
    BY <2>4, CountersAreKnown
  <2>6. /\ \A w \in DOMAIN live : Get(counters, w, 0) = live[w] /\ live[w] # 0
        /\ DOMAIN counters \ (DOMAIN live \cup Named) = {}
    BY <2>1, <2>2, <2>3, <2>4 DEF RestIn, SourceTyped
  <2>7. \A w \in DOMAIN live : w \in DOMAIN counters /\ counters[w] = live[w]
    BY <2>6 DEF Get
  <2> QED
    BY <2>5, <2>6, <2>7 DEF Agrees
<1> QED
  BY <1>1, PipelineInvariant, PTL

\* What the action property says of one step.
NotBack ==
  /\ obs'.watermark >= obs.watermark
  /\ \A w \in DOMAIN obs.windows \cap DOMAIN obs'.windows :
       obs'.windows[w].commits >= obs.windows[w].commits

LEMMA StepGoesNotBack == IInv /\ [PipelineNext]_pvars => NotBack
<1> SUFFICES ASSUME IInv, [PipelineNext]_pvars
             PROVE  NotBack
  OBVIOUS
<1>1. SourceTyped /\ ChannelInv /\ ActionsInv
  BY DEF IInv
<1>2. /\ ObserverTyped(obs) /\ obs.watermark \in Nat
      /\ \A w \in DOMAIN obs.windows : obs.windows[w].commits \in Nat
  BY <1>1 DEF ChannelInv, PumpTyped, ObserverTyped, WindowsTyped
<1>3. CASE obs' = obs
  BY <1>2, <1>3 DEF NotBack
<1>4. ASSUME NEW a \in DOMAIN actions, TouchActionWindow(a)
      PROVE  NotBack
  <2>1. actions[a] \in Actions
    BY <1>1, ActionFacts
  <2>2. actions[a].window \in Nat
    BY <2>1, PipelineAssumption DEF Actions
  <2>3. Touched(obs, obs', actions[a].window)
    BY <1>2, <1>4, <2>2, TouchWindowProperties DEF TouchActionWindow
  <2> QED
    BY <1>2, <2>3 DEF NotBack, Touched, Known
<1>5. ASSUME Receive
      PROVE  NotBack
  <2>1. PICK h : h = queue[1]
    OBVIOUS
  <2>2. /\ h \in Published
        /\ ObserverTyped(obs')
        /\ obs'.watermark = Later(obs.watermark, h.seq)
        /\ h.event.kind = "server" => obs'.windows = obs.windows
        /\ h.event.kind # "server" =>
             Handled(obs, obs', h.seq, h.event.kind, h.event.window, h.event.n)
    BY <1>1, <1>5, <2>1, ReceivedByObserver
  <2>3. h.seq \in Nat /\ h.event.n \in Nat
    BY <2>2 DEF Published, SrcEvents
  <2>4. obs'.watermark >= obs.watermark
    BY <1>2, <2>2, <2>3 DEF Later
  <2>5. CASE h.event.kind = "server"
    BY <1>2, <2>2, <2>4, <2>5 DEF NotBack
  <2>6. CASE h.event.kind # "server"
    <3>1. ASSUME NEW w \in DOMAIN obs.windows \cap DOMAIN obs'.windows
          PROVE  obs'.windows[w].commits >= obs.windows[w].commits
      <4>1. obs'.windows[w].commits \in {obs.windows[w].commits,
                                         Later(obs.windows[w].commits, h.event.n)}
        BY <2>2, <2>6 DEF Handled, Known
      <4> QED
        BY <1>2, <2>3, <4>1 DEF Later
    <3> QED
      BY <2>4, <3>1 DEF NotBack
  <2> QED
    BY <2>5, <2>6
<1>6. ASSUME ApplySnapshot
      PROVE  NotBack
  <2>1. /\ SnapshotTyped(snap) /\ snap.seq >= obs.watermark
        /\ obs' = Resync(obs, snap, 0)
    BY <1>1, <1>6 DEF ChannelInv, PumpTyped, SnapshotNeverStale, ApplySnapshot
  <2>2. Resynced(obs, obs', snap)
    BY <1>2, <2>1, ResyncProperties
  <2>3. /\ obs'.watermark = snap.seq
        /\ DOMAIN obs'.windows = DOMAIN snap.windows
        /\ \A w \in DOMAIN obs'.windows :
             obs'.windows[w].commits = Later(Known(obs.windows, w), snap.windows[w])
    BY <2>1, <2>2 DEF Resynced
  <2>4. ASSUME NEW w \in DOMAIN obs.windows \cap DOMAIN obs'.windows
        PROVE  obs'.windows[w].commits >= obs.windows[w].commits
    <3>1. snap.windows[w] \in Nat
      BY <2>1, <2>3 DEF SnapshotTyped
    <3>2. obs'.windows[w].commits = Later(obs.windows[w].commits, snap.windows[w])
      BY <2>3 DEF Known
    <3> QED
      BY <1>2, <3>1, <3>2 DEF Later
  <2> QED
    BY <2>1, <2>3, <2>4 DEF NotBack
<1> QED
  BY <1>3, <1>4, <1>5, <1>6
     DEF PipelineNext, SourceStep, ReserveNumber, AnswerQuery, PublishReserved, RecordAction,
         ServeAction, Lagged, pvars

(***************************************************************************)
(* Neither a stale event that survived a lag, nor a late server event, nor *)
(* a resync takes the watermark or a commit counter back (handle_event and *)
(* resync in service.rs).                                                  *)
(***************************************************************************)
THEOREM ReportsGoForward == PipelineSpec => ReportsNeverGoBack
  BY PipelineInvariant, StepGoesNotBack, PTL DEF PipelineSpec, ReportsNeverGoBack, NotBack

-----------------------------------------------------------------------------
(* The event inbox.                                                        *)

(***************************************************************************)
(* The inductive invariant, part 1: request tasks, store and stream.       *)
(***************************************************************************)
InboxKinds == {"window", "notification", "closed", "action"}
Events == [seq : Nat, kind : InboxKinds, id : Nat]
Reserved ==
  [pc : {"reserved"}, op : Operations, id : NoteIds, valid : BOOLEAN, seq : Nat]
Publishing == [pc : {"publish"}, event : Events]
Notes == [posted : Nat, closed : Nat]

\* The requests that hold a number, and the number each holds.
Holders == {c \in Clients : request[c].pc # "idle"}
Held(r) == IF r.pc = "publish" THEN r.event.seq ELSE r.seq

ServiceTyped ==
  /\ lastSeq \in Nat /\ nextId \in Nat \ {0}
  /\ DOMAIN store \in SUBSET (1 .. nextId - 1)
  /\ \A id \in DOMAIN store : store[id] \in Notes
  /\ request \in [Clients -> {Ready} \cup Reserved \cup Publishing]
  /\ stream \in Seq(Events)

\* A number is on the stream once, or with one request, or was given up.
NumbersUsedOnce ==
  /\ \A i \in 1 .. Len(stream) : stream[i].seq \in 1 .. lastSeq
  /\ \A i, j \in 1 .. Len(stream) : stream[i].seq = stream[j].seq => i = j
  /\ \A c \in Holders : Held(request[c]) \in 1 .. lastSeq
  /\ \A c, d \in Holders : Held(request[c]) = Held(request[d]) => c = d
  /\ \A c \in Holders, i \in 1 .. Len(stream) : Held(request[c]) # stream[i].seq

\* The store is what the notification and close events say.
Recorded(events, notes) ==
  /\ \A e \in events : e.kind = "notification" =>
       e.id \in DOMAIN notes /\ e.seq = notes[e.id].posted
  /\ \A e \in events : e.kind = "closed" =>
       e.id \in DOMAIN notes /\ e.seq = notes[e.id].closed /\ e.seq # 0
  /\ \A id \in DOMAIN notes :
       /\ Event(notes[id].posted, "notification", id) \in events
       /\ notes[id].closed # 0 => Event(notes[id].closed, "closed", id) \in events

StoreRecorded == Recorded(Broadcasted \cup InFlight, store)

ServiceInv == ServiceTyped /\ NumbersUsedOnce /\ StoreRecorded

(***************************************************************************)
(* Part 2: the journal is the end of what the pump has taken, and the      *)
(* watermark the highest number in it.                                     *)
(***************************************************************************)
Oldest == received - Len(journal)

JournalIsTheEnd ==
  /\ received \in 0 .. Len(stream)
  /\ journal \in Seq(Events)
  /\ Len(journal) = IF received < InboxCap THEN received ELSE InboxCap
  /\ \A k \in 1 .. Len(journal) : journal[k] = stream[Oldest + k]

WatermarkIsHighest ==
  /\ watermark \in Nat
  /\ \A i \in 1 .. received : stream[i].seq <= watermark
  /\ watermark # 0 => \E i \in 1 .. received : stream[i].seq = watermark

InboxInv == JournalIsTheEnd /\ WatermarkIsHighest

(***************************************************************************)
(* Part 3: the agent's wait.  Everything it asked for up to its filter and *)
(* up to its cursor was delivered, was late, or was evicted.               *)
(***************************************************************************)
Asleep == [pc : {"idle"}, cursor : Nat, base : Nat, started : {TRUE}]
Waiting ==
  [pc : {"mark", "collect", "decide", "parked"}, filter : Nat, cursor : Nat,
   base : Nat, expired : BOOLEAN, seen : Nat, started : {TRUE}]

WaitTyped ==
  /\ generation \in Nat
  /\ wait \in [pc : {"idle"}, cursor : {0}, started : {FALSE}]
              \cup [pc : {"filter"}, expired : BOOLEAN, seen : Nat]
              \cup Asleep \cup Waiting

Late(i) == \E j \in 1 .. i - 1 : stream[j].seq > stream[i].seq
Evicted(i) == i <= received - InboxCap

Covered(base, c) ==
  /\ c <= watermark
  /\ \A i \in 1 .. received :
       Matches(stream[i]) /\ base < stream[i].seq /\ stream[i].seq <= c =>
         stream[i].seq \in delivered \/ Late(i) \/ Evicted(i)

WaitCovered ==
  Careful =>
    /\ wait \in Asleep => Covered(wait.base, wait.cursor)
    /\ wait \in Waiting => /\ Covered(wait.base, wait.filter)
                           /\ Covered(wait.base, wait.cursor)

InboxIInv == ServiceInv /\ InboxInv /\ WaitTyped /\ WaitCovered

-----------------------------------------------------------------------------
(* Part 1: request tasks, store and stream.                                *)

(***************************************************************************)
(* What broadcasting one more event does to the stream.                    *)
(***************************************************************************)
LEMMA AppendEvent ==
  ASSUME NEW s \in Seq(Events), NEW e \in Events
  PROVE  /\ Append(s, e) \in Seq(Events)
         /\ Len(Append(s, e)) = Len(s) + 1
         /\ \A i \in 1 .. Len(s) : Append(s, e)[i] = s[i]
         /\ Append(s, e)[Len(s) + 1] = e
OBVIOUS

LEMMA AppendBroadcasts ==
  ASSUME NEW s \in Seq(Events), NEW e \in Events
  PROVE  {Append(s, e)[i] : i \in 1 .. Len(Append(s, e))}
           = {s[i] : i \in 1 .. Len(s)} \cup {e}
<1> DEFINE t == Append(s, e)
<1>1. Len(t) = Len(s) + 1 /\ Len(s) \in Nat
  OBVIOUS
<1>2. \A i \in 1 .. Len(s) : t[i] = s[i]
  OBVIOUS
<1>3. t[Len(s) + 1] = e
  OBVIOUS
<1> HIDE DEF t
<1>4. 1 .. Len(t) = 1 .. Len(s) \cup {Len(s) + 1}
  BY <1>1
<1>5. \A x : (\E i \in 1 .. Len(t) : x = t[i])
               <=> ((\E i \in 1 .. Len(s) : x = s[i]) \/ x = e)
  BY <1>1, <1>2, <1>3, <1>4
<1>6. {t[i] : i \in 1 .. Len(t)} = {s[i] : i \in 1 .. Len(s)} \cup {e}
  BY <1>5
<1> QED
  BY <1>6 DEF t

(***************************************************************************)
(* A request that ends, or keeps the number it has, uses no number twice.  *)
(***************************************************************************)
Requests == {Ready} \cup Reserved \cup Publishing

LEMMA MoveKeepsNumbers ==
  ASSUME ServiceTyped, NumbersUsedOnce, UNCHANGED << lastSeq, stream >>,
         NEW c \in Clients, request[c].pc # "idle",
         NEW r \in Requests, r.pc = "idle" \/ Held(r) = Held(request[c]),
         request' = [request EXCEPT ![c] = r]
  PROVE  NumbersUsedOnce'
<1>1. request'[c] = r /\ \A d \in Clients \ {c} : request'[d] = request[d]
  BY DEF ServiceTyped
<1>2. Holders' \in SUBSET Holders
  BY <1>1 DEF Holders
<1>3. \A d \in Holders' : Held(request'[d]) = Held(request[d])
  BY <1>1 DEF Holders
<1>4. \A d \in Holders' : Held(request'[d]) \in 1 .. lastSeq
  BY <1>2, <1>3 DEF NumbersUsedOnce
<1>5. \A d, e \in Holders' : Held(request'[d]) = Held(request'[e]) => d = e
  BY <1>2, <1>3 DEF NumbersUsedOnce
<1>6. \A d \in Holders', i \in 1 .. Len(stream) : Held(request'[d]) # stream[i].seq
  BY <1>2, <1>3 DEF NumbersUsedOnce
<1> QED
  BY <1>4, <1>5, <1>6 DEF NumbersUsedOnce

(***************************************************************************)
(* What a request's move does to the events on their way.                  *)
(***************************************************************************)
LEMMA MoveFlight ==
  ASSUME ServiceTyped, NEW c \in Clients, NEW r \in Requests,
         request[c].pc # "publish", request' = [request EXCEPT ![c] = r]
  PROVE  InFlight' = InFlight \cup (IF r.pc = "publish" THEN {r.event} ELSE {})
<1>1. request'[c] = r /\ \A d \in Clients \ {c} : request'[d] = request[d]
  BY DEF ServiceTyped
<1>2. ASSUME NEW x PROVE x \in InFlight' <=> \E d \in Clients : request'[d].pc = "publish" /\ x = request'[d].event
  BY DEF InFlight
<1>3. ASSUME NEW x PROVE x \in InFlight <=> \E d \in Clients : request[d].pc = "publish" /\ x = request[d].event
  BY DEF InFlight
<1>4. ASSUME NEW x
      PROVE  x \in InFlight' <=> x \in InFlight \/ (r.pc = "publish" /\ x = r.event)
  BY <1>1, <1>2, <1>3
<1> QED
  BY <1>4

(***************************************************************************)
(* How the store's three mutations and their events go together.           *)
(***************************************************************************)
LEMMA RecordOther ==
  ASSUME NEW events, NEW notes, Recorded(events, notes), NEW e,
         e.kind \notin {"notification", "closed"}
  PROVE  Recorded(events \cup {e}, notes)
BY DEF Recorded

LEMMA RecordPost ==
  ASSUME NEW events, NEW notes, Recorded(events, notes), NEW id, NEW n \in Nat,
         id \notin DOMAIN notes
  PROVE  Recorded(events \cup {Event(n, "notification", id)},
                  Put(notes, id, [posted |-> n, closed |-> 0]))
<1> DEFINE e == Event(n, "notification", id)
           now == Put(notes, id, [posted |-> n, closed |-> 0])
<1>1. /\ DOMAIN now = DOMAIN notes \cup {id}
      /\ now[id].posted = n /\ now[id].closed = 0
      /\ \A x \in DOMAIN notes : now[x] = notes[x]
  BY DEF Put
<1>2. e.seq = n /\ e.kind = "notification" /\ e.id = id
  BY DEF Event
<1> HIDE DEF now, e
<1>3. \A f \in events \cup {e} : f.kind = "notification" =>
        f.id \in DOMAIN now /\ f.seq = now[f.id].posted
  BY <1>1, <1>2 DEF Recorded
<1>4. \A f \in events \cup {e} : f.kind = "closed" =>
        f.id \in DOMAIN now /\ f.seq = now[f.id].closed /\ f.seq # 0
  BY <1>1, <1>2 DEF Recorded
<1>5. ASSUME NEW x \in DOMAIN now
      PROVE  /\ Event(now[x].posted, "notification", x) \in events \cup {e}
             /\ now[x].closed # 0 =>
                  Event(now[x].closed, "closed", x) \in events \cup {e}
  <2>1. CASE x = id
    BY <2>1, <1>1 DEF e
  <2>2. CASE x # id
    BY <2>2, <1>1 DEF Recorded
  <2> QED
    BY <2>1, <2>2
<1>6. Recorded(events \cup {e}, now)
  BY <1>3, <1>4, <1>5 DEF Recorded
<1> QED
  BY <1>6 DEF now, e

LEMMA RecordClose ==
  ASSUME NEW events, NEW notes, Recorded(events, notes),
         \A x \in DOMAIN notes : notes[x] \in Notes,
         NEW id \in DOMAIN notes, notes[id].closed = 0, NEW n \in Nat \ {0}
  PROVE  Recorded(events \cup {Event(n, "closed", id)},
                  [notes EXCEPT ![id].closed = n])
<1> DEFINE e == Event(n, "closed", id)
           now == [notes EXCEPT ![id].closed = n]
<1>1. /\ DOMAIN now = DOMAIN notes
      /\ now[id].closed = n /\ now[id].posted = notes[id].posted
      /\ \A x \in DOMAIN notes \ {id} : now[x] = notes[x]
  BY DEF Notes
<1>2. e.seq = n /\ e.kind = "closed" /\ e.id = id
  BY DEF Event
<1> HIDE DEF now, e
<1>3. \A f \in events \cup {e} : f.kind = "notification" =>
        f.id \in DOMAIN now /\ f.seq = now[f.id].posted
  BY <1>1, <1>2 DEF Recorded
<1>4. ASSUME NEW f \in events \cup {e}, f.kind = "closed"
      PROVE  f.id \in DOMAIN now /\ f.seq = now[f.id].closed /\ f.seq # 0
  <2>1. CASE f = e
    BY <2>1, <1>1, <1>2
  <2>2. CASE f \in events
    <3>1. f.id \in DOMAIN notes /\ f.seq = notes[f.id].closed /\ f.seq # 0
      BY <2>2, <1>4 DEF Recorded
    <3> QED
      BY <3>1, <1>1
  <2> QED
    BY <2>1, <2>2
<1>5. ASSUME NEW x \in DOMAIN now
      PROVE  /\ Event(now[x].posted, "notification", x) \in events \cup {e}
             /\ now[x].closed # 0 =>
                  Event(now[x].closed, "closed", x) \in events \cup {e}
  <2>1. CASE x = id
    BY <2>1, <1>1 DEF e, Recorded
  <2>2. CASE x # id
    BY <2>2, <1>1, <1>5 DEF Recorded
  <2> QED
    BY <2>1, <2>2
<1>6. Recorded(events \cup {e}, now)
  BY <1>3, <1>4, <1>5 DEF Recorded
<1> QED
  BY <1>6 DEF now, e

-----------------------------------------------------------------------------
(* Each step of compositor and request tasks keeps store and stream right. *)

LEMMA WindowEventKeepsService ==
  ASSUME ServiceInv, WindowEvent
  PROVE  ServiceInv'
<1> DEFINE e == Event(lastSeq', "window", 0)
<1>1. e \in Events /\ e.seq = lastSeq + 1 /\ e.kind = "window"
  BY DEF WindowEvent, ServiceInv, ServiceTyped, Event, Events, InboxKinds
<1>2. /\ lastSeq' = lastSeq + 1 /\ stream' = Append(stream, e)
      /\ UNCHANGED << store, nextId, request >>
  BY DEF WindowEvent
<1> HIDE DEF e
<1>3. /\ stream' \in Seq(Events) /\ Len(stream') = Len(stream) + 1
      /\ \A i \in 1 .. Len(stream) : stream'[i] = stream[i]
      /\ stream'[Len(stream) + 1] = e
  BY <1>1, <1>2, AppendEvent DEF ServiceInv, ServiceTyped
<1>4. ServiceTyped'
  BY <1>2, <1>3 DEF ServiceInv, ServiceTyped
<1>5. NumbersUsedOnce'
  <2>0. lastSeq \in Nat /\ Len(stream) \in Nat
    BY DEF ServiceInv, ServiceTyped
  <2>1. \A i \in 1 .. Len(stream') : stream'[i].seq \in 1 .. lastSeq'
    BY <1>1, <1>2, <1>3, <2>0 DEF ServiceInv, NumbersUsedOnce
  <2>2. \A i, j \in 1 .. Len(stream') : stream'[i].seq = stream'[j].seq => i = j
    BY <1>1, <1>2, <1>3, <2>0 DEF ServiceInv, NumbersUsedOnce
  <2>3. Holders' = Holders /\ request' = request
    BY <1>2 DEF Holders
  <2>4. \A c \in Holders : Held(request[c]) \in 1 .. lastSeq
    BY DEF ServiceInv, NumbersUsedOnce
  <2>5. \A c \in Holders, i \in 1 .. Len(stream') : Held(request[c]) # stream'[i].seq
    BY <1>1, <1>3, <2>0, <2>4 DEF ServiceInv, NumbersUsedOnce
  <2>6. \A c, d \in Holders : Held(request[c]) = Held(request[d]) => c = d
    BY DEF ServiceInv, NumbersUsedOnce
  <2>7. \A c \in Holders : Held(request[c]) \in 1 .. lastSeq'
    BY <2>0, <2>4, <1>2
  <2> QED
    BY <2>1, <2>2, <2>3, <2>5, <2>6, <2>7 DEF NumbersUsedOnce
<1>6. StoreRecorded'
  <2>1. Broadcasted' = Broadcasted \cup {e}
    BY <1>1, <1>2, AppendBroadcasts DEF Broadcasted, ServiceInv, ServiceTyped
  <2>2. InFlight' = InFlight
    BY <1>2 DEF InFlight
  <2>3. Broadcasted' \cup InFlight' = (Broadcasted \cup InFlight) \cup {e}
    BY <2>1, <2>2
  <2>4. Recorded((Broadcasted \cup InFlight) \cup {e}, store)
    BY <1>1, RecordOther DEF ServiceInv, StoreRecorded
  <2> QED
    BY <2>3, <2>4, <1>2 DEF StoreRecorded
<1> QED
  BY <1>4, <1>5, <1>6 DEF ServiceInv

LEMMA ReserveKeepsService ==
  ASSUME ServiceInv, NEW c \in Clients, ReserveSeq(c)
  PROVE  ServiceInv'
<1>1. PICK op \in Operations, id \in NoteIds, valid \in BOOLEAN :
        request' = [request EXCEPT ![c] =
         [pc |-> "reserved", op |-> op, id |-> id, valid |-> valid, seq |-> lastSeq']]
  BY DEF ReserveSeq
<1> DEFINE r == [pc |-> "reserved", op |-> op, id |-> id, valid |-> valid, seq |-> lastSeq']
<1>2. /\ lastSeq' = lastSeq + 1 /\ request[c].pc = "idle"
      /\ UNCHANGED << store, nextId, stream >>
  BY DEF ReserveSeq
<1>3. lastSeq \in Nat /\ Len(stream) \in Nat
  BY DEF ServiceInv, ServiceTyped
<1>4. r \in Reserved /\ r.pc = "reserved" /\ r.seq = lastSeq + 1
  BY <1>2, <1>3 DEF Reserved
<1>5. request' = [request EXCEPT ![c] = r]
  BY <1>1
<1> HIDE DEF r
<1>6. Held(r) = lastSeq + 1 /\ r \in Requests
  BY <1>4 DEF Held, Requests
<1>7. request'[c] = r /\ \A d \in Clients \ {c} : request'[d] = request[d]
  BY <1>5 DEF ServiceInv, ServiceTyped
<1>8. ServiceTyped'
  BY <1>2, <1>3, <1>4, <1>5 DEF ServiceInv, ServiceTyped
<1>9. NumbersUsedOnce'
  <2>1. Holders' = Holders \cup {c} /\ c \notin Holders
    BY <1>2, <1>4, <1>7 DEF Holders
  <2>2. \A d \in Holders : Held(request'[d]) = Held(request[d])
    BY <1>7, <2>1 DEF Holders
  <2>3. \A d \in Holders : Held(request[d]) \in 1 .. lastSeq
    BY DEF ServiceInv, NumbersUsedOnce
  <2>4. Held(request'[c]) = lastSeq + 1
    BY <1>6, <1>7
  <2>5. \A i \in 1 .. Len(stream) : stream[i].seq \in 1 .. lastSeq
    BY DEF ServiceInv, NumbersUsedOnce
  <2>6. \A i \in 1 .. Len(stream') : stream'[i].seq \in 1 .. lastSeq'
    BY <1>2, <1>3, <2>5
  <2>7. \A i, j \in 1 .. Len(stream') : stream'[i].seq = stream'[j].seq => i = j
    BY <1>2 DEF ServiceInv, NumbersUsedOnce
  <2>8. \A d \in Holders' : Held(request'[d]) \in 1 .. lastSeq'
    BY <1>2, <1>3, <2>1, <2>2, <2>3, <2>4
  <2>9. \A d, e \in Holders' : Held(request'[d]) = Held(request'[e]) => d = e
    <3>1. \A d, e \in Holders : Held(request[d]) = Held(request[e]) => d = e
      BY DEF ServiceInv, NumbersUsedOnce
    <3> QED
      BY <1>3, <2>1, <2>2, <2>3, <2>4, <3>1
  <2>10. \A d \in Holders', i \in 1 .. Len(stream') : Held(request'[d]) # stream'[i].seq
    <3>1. \A d \in Holders, i \in 1 .. Len(stream) : Held(request[d]) # stream[i].seq
      BY DEF ServiceInv, NumbersUsedOnce
    <3> QED
      BY <1>2, <1>3, <2>1, <2>2, <2>4, <2>5, <3>1
  <2> QED
    BY <2>6, <2>7, <2>8, <2>9, <2>10 DEF NumbersUsedOnce
<1>10. StoreRecorded'
  <2>1. InFlight' = InFlight
    BY <1>2, <1>4, <1>5, <1>6, MoveFlight DEF ServiceInv
  <2>2. Broadcasted' = Broadcasted
    BY <1>2 DEF Broadcasted
  <2> QED
    BY <2>1, <2>2, <1>2 DEF ServiceInv, StoreRecorded
<1> QED
  BY <1>8, <1>9, <1>10 DEF ServiceInv

\* A rejected request, or one with nothing to tell.
LEMMA EndKeepsService ==
  ASSUME ServiceInv, NEW c \in Clients, request[c].pc = "reserved",
         EndRequest(c), UNCHANGED << lastSeq, store, nextId, stream >>
  PROVE  ServiceInv'
<1>1. /\ Ready \in Requests /\ Ready.pc = "idle"
      /\ request' = [request EXCEPT ![c] = Ready]
  BY DEF EndRequest, Requests, Ready
<1>2. ServiceTyped'
  BY <1>1 DEF ServiceInv, ServiceTyped
<1>3. NumbersUsedOnce'
  BY <1>1, MoveKeepsNumbers DEF ServiceInv
<1>4. InFlight' = InFlight
  BY <1>1, MoveFlight DEF ServiceInv
<1>5. Broadcasted' = Broadcasted
  BY DEF Broadcasted
<1> QED
  BY <1>2, <1>3, <1>4, <1>5 DEF ServiceInv, StoreRecorded

\* A request that goes on to publish, whatever it did to the store.
LEMMA PublishNextKeepsService ==
  ASSUME ServiceInv, NEW c \in Clients, request[c] \in Reserved,
         NEW kind \in InboxKinds, NEW id \in Nat, PublishNext(c, kind, id),
         UNCHANGED << lastSeq, stream >>,
         nextId' \in Nat \ {0}, DOMAIN store' \in SUBSET (1 .. nextId' - 1),
         \A x \in DOMAIN store' : store'[x] \in Notes,
         Recorded((Broadcasted \cup InFlight)
                    \cup {Event(request[c].seq, kind, id)}, store')
  PROVE  ServiceInv'
<1> DEFINE e == Event(request[c].seq, kind, id)
           r == [pc |-> "publish", event |-> e]
<1>1. e \in Events /\ e.seq = request[c].seq
  BY DEF Event, Events, Reserved
<1>2. request' = [request EXCEPT ![c] = r]
  BY DEF PublishNext
<1>3. r \in Publishing /\ r.pc = "publish" /\ r.event = e
  BY <1>1 DEF Publishing
<1>4. request[c].pc = "reserved"
  BY DEF Reserved
<1> HIDE DEF r, e
<1>5. r \in Requests /\ Held(r) = Held(request[c])
  BY <1>1, <1>3, <1>4 DEF Requests, Held
<1>6. ServiceTyped'
  BY <1>2, <1>3 DEF ServiceInv, ServiceTyped
<1>7. NumbersUsedOnce'
  BY <1>2, <1>4, <1>5, MoveKeepsNumbers DEF ServiceInv
<1>8. InFlight' = InFlight \cup {e}
  BY <1>2, <1>3, <1>4, <1>5, MoveFlight DEF ServiceInv
<1>9. Broadcasted' = Broadcasted
  BY DEF Broadcasted
<1>10. Broadcasted' \cup InFlight' = (Broadcasted \cup InFlight) \cup {e}
  BY <1>8, <1>9
<1> QED
  BY <1>6, <1>7, <1>10 DEF ServiceInv, StoreRecorded, e

LEMMA CallStoreKeepsService ==
  ASSUME ServiceInv, NEW c \in Clients, CallStore(c)
  PROVE  ServiceInv'
<1>1. request[c].pc = "reserved" /\ UNCHANGED << lastSeq, stream >>
  BY DEF CallStore
<1>2. request[c] \in Reserved
  BY <1>1 DEF ServiceInv, ServiceTyped, Ready, Publishing
<1>3. /\ request[c].op \in Operations /\ request[c].id \in NoteIds
      /\ request[c].seq \in Nat
  BY <1>2 DEF Reserved
<1>4. request[c].seq \in Nat \ {0}
  <2>1. c \in Holders /\ Held(request[c]) = request[c].seq
    BY <1>1 DEF Holders, Held
  <2>2. request[c].seq \in 1 .. lastSeq /\ lastSeq \in Nat
    BY <2>1 DEF ServiceInv, NumbersUsedOnce, ServiceTyped
  <2> QED
    BY <2>2
<1>5. /\ nextId \in Nat \ {0} /\ DOMAIN store \in SUBSET (1 .. nextId - 1)
      /\ \A x \in DOMAIN store : store[x] \in Notes
      /\ Recorded(Broadcasted \cup InFlight, store)
  BY DEF ServiceInv, ServiceTyped, StoreRecorded
<1>6. CASE request[c].op = "post"
  <2>1. Post(c)
    BY <1>6 DEF CallStore
  <2>2. CASE request[c].valid
    <3>1. /\ store' = Put(store, nextId, [posted |-> request[c].seq, closed |-> 0])
          /\ nextId' = nextId + 1 /\ PublishNext(c, "notification", nextId)
      BY <2>1, <2>2 DEF Post
    <3>2. nextId \notin DOMAIN store
      BY <1>5
    <3>3. Recorded((Broadcasted \cup InFlight)
                     \cup {Event(request[c].seq, "notification", nextId)}, store')
      BY <1>3, <1>5, <3>1, <3>2, RecordPost
    <3>4. nextId' \in Nat \ {0} /\ DOMAIN store' \in SUBSET (1 .. nextId' - 1)
      BY <1>5, <3>1 DEF Put
    <3>5. \A x \in DOMAIN store' : store'[x] \in Notes
      BY <1>3, <1>5, <3>1 DEF Put, Notes
    <3>6. nextId \in Nat /\ "notification" \in InboxKinds
      BY <1>5 DEF InboxKinds
    <3> QED
      BY <1>1, <1>2, <3>1, <3>3, <3>4, <3>5, <3>6, PublishNextKeepsService
  <2>3. CASE ~request[c].valid
    BY <1>1, <2>1, <2>3, EndKeepsService DEF Post
  <2> QED
    BY <2>2, <2>3
<1>7. CASE request[c].op = "close"
  <2> DEFINE id == request[c].id
  <2>1. CloseNote(c)
    BY <1>7 DEF CallStore
  <2>2. CASE id \in DOMAIN store /\ NewlyDismissed(id)
    <3>1. /\ store' = [store EXCEPT ![id].closed = request[c].seq]
          /\ nextId' = nextId /\ PublishNext(c, "closed", id)
      BY <2>1, <2>2 DEF CloseNote
    <3>2. store[id].closed = 0 /\ id \in DOMAIN store
      BY <2>2 DEF NewlyDismissed
    <3>3. Recorded((Broadcasted \cup InFlight)
                     \cup {Event(request[c].seq, "closed", id)}, store')
      BY <1>4, <1>5, <3>1, <3>2, RecordClose
    <3>4. nextId' \in Nat \ {0} /\ DOMAIN store' \in SUBSET (1 .. nextId' - 1)
      BY <1>5, <3>1
    <3>5. \A x \in DOMAIN store' : store'[x] \in Notes
      BY <1>3, <1>5, <3>1 DEF Notes
    <3>6. id \in Nat /\ "closed" \in InboxKinds
      BY <1>5, <3>2 DEF InboxKinds
    <3> QED
      BY <1>1, <1>2, <3>1, <3>3, <3>4, <3>5, <3>6, PublishNextKeepsService
  <2>3. CASE ~(id \in DOMAIN store /\ NewlyDismissed(id))
    BY <1>1, <2>1, <2>3, EndKeepsService DEF CloseNote
  <2> QED
    BY <2>2, <2>3
<1>8. CASE request[c].op = "invoke"
  <2> DEFINE id == request[c].id
  <2>1. Invoke(c)
    BY <1>8 DEF CallStore
  <2>2. CASE id \in DOMAIN store /\ request[c].valid
    <3>1. UNCHANGED << store, nextId >> /\ PublishNext(c, "action", id)
      BY <2>1, <2>2 DEF Invoke
    <3>2. Event(request[c].seq, "action", id).kind = "action"
      BY DEF Event
    <3>3. Recorded((Broadcasted \cup InFlight)
                     \cup {Event(request[c].seq, "action", id)}, store')
      BY <1>5, <3>1, <3>2, RecordOther
    <3>4. id \in Nat /\ "action" \in InboxKinds
      BY <1>5, <2>2 DEF InboxKinds
    <3>5. /\ nextId' \in Nat \ {0} /\ DOMAIN store' \in SUBSET (1 .. nextId' - 1)
          /\ \A x \in DOMAIN store' : store'[x] \in Notes
      BY <1>5, <3>1
    <3> QED
      BY <1>1, <1>2, <3>1, <3>3, <3>4, <3>5, PublishNextKeepsService
  <2>3. CASE ~(id \in DOMAIN store /\ request[c].valid)
    BY <1>1, <2>1, <2>3, EndKeepsService DEF Invoke
  <2> QED
    BY <2>2, <2>3
<1> QED
  BY <1>3, <1>6, <1>7, <1>8 DEF Operations

LEMMA PublishKeepsService ==
  ASSUME ServiceInv, NEW c \in Clients, PublishEvent(c)
  PROVE  ServiceInv'
<1> DEFINE e == request[c].event
<1>1. /\ request[c].pc = "publish" /\ stream' = Append(stream, e)
      /\ request' = [request EXCEPT ![c] = Ready]
      /\ UNCHANGED << lastSeq, store, nextId >>
  BY DEF PublishEvent, EndRequest
<1>2. request[c] \in Publishing /\ e \in Events
  BY <1>1 DEF ServiceInv, ServiceTyped, Ready, Reserved, Publishing
<1>3. c \in Holders /\ Held(request[c]) = e.seq
  BY <1>1 DEF Holders, Held
<1> HIDE DEF e
<1>4. /\ stream' \in Seq(Events) /\ Len(stream') = Len(stream) + 1
      /\ \A i \in 1 .. Len(stream) : stream'[i] = stream[i]
      /\ stream'[Len(stream) + 1] = e
  BY <1>1, <1>2, AppendEvent DEF ServiceInv, ServiceTyped
<1>5. request'[c] = Ready /\ \A d \in Clients \ {c} : request'[d] = request[d]
  BY <1>1 DEF ServiceInv, ServiceTyped
<1>6. Ready.pc = "idle"
  BY DEF Ready
<1>7. ServiceTyped'
  BY <1>1, <1>4 DEF ServiceInv, ServiceTyped
<1>8. NumbersUsedOnce'
  <2>1. Holders' = Holders \ {c} /\ \A d \in Holders' : request'[d] = request[d]
    BY <1>5, <1>6 DEF Holders
  <2>2. lastSeq \in Nat /\ Len(stream) \in Nat
    BY DEF ServiceInv, ServiceTyped
  <2>3. /\ \A i \in 1 .. Len(stream) : stream[i].seq \in 1 .. lastSeq
        /\ \A d \in Holders : Held(request[d]) \in 1 .. lastSeq
    BY DEF ServiceInv, NumbersUsedOnce
  <2>4. \A i, j \in 1 .. Len(stream) : stream[i].seq = stream[j].seq => i = j
    BY DEF ServiceInv, NumbersUsedOnce
  <2>5. \A d, f \in Holders : Held(request[d]) = Held(request[f]) => d = f
    BY DEF ServiceInv, NumbersUsedOnce
  <2>6. \A d \in Holders, i \in 1 .. Len(stream) : Held(request[d]) # stream[i].seq
    BY DEF ServiceInv, NumbersUsedOnce
  <2>7. \A i \in 1 .. Len(stream') : stream'[i].seq \in 1 .. lastSeq'
    BY <1>1, <1>3, <1>4, <2>2, <2>3
  <2>8. \A i, j \in 1 .. Len(stream') : stream'[i].seq = stream'[j].seq => i = j
    BY <1>3, <1>4, <2>2, <2>4, <2>6
  <2>9. \A d \in Holders' : Held(request'[d]) \in 1 .. lastSeq'
    BY <1>1, <2>1, <2>3
  <2>10. \A d, f \in Holders' : Held(request'[d]) = Held(request'[f]) => d = f
    BY <2>1, <2>5
  <2>11. \A d \in Holders', i \in 1 .. Len(stream') : Held(request'[d]) # stream'[i].seq
    BY <1>3, <1>4, <2>1, <2>2, <2>5, <2>6
  <2> QED
    BY <2>7, <2>8, <2>9, <2>10, <2>11 DEF NumbersUsedOnce
<1>9. StoreRecorded'
  <2>1. Broadcasted' = Broadcasted \cup {e}
    BY <1>1, <1>2, AppendBroadcasts DEF Broadcasted, ServiceInv, ServiceTyped
  <2>2. e \in InFlight
    BY <1>1 DEF InFlight, e
  <2>3. \A x : x \in InFlight' => x \in InFlight
    BY <1>5, <1>6 DEF InFlight
  <2>4. \A x : x \in InFlight => x \in InFlight' \/ x = e
    BY <1>5, <1>6 DEF InFlight, e
  <2>5. Broadcasted' \cup InFlight' = Broadcasted \cup InFlight
    BY <2>1, <2>2, <2>3, <2>4
  <2> QED
    BY <2>5, <1>1 DEF ServiceInv, StoreRecorded
<1> QED
  BY <1>7, <1>8, <1>9 DEF ServiceInv

LEMMA IdleKeepsService ==
  ASSUME ServiceInv, UNCHANGED << service, stream >>
  PROVE  ServiceInv'
<1>1. UNCHANGED << lastSeq, store, nextId, request, stream >>
  BY DEF service
<1>2. ServiceTyped'
  BY <1>1 DEF ServiceInv, ServiceTyped
<1>3. Holders' = Holders /\ InFlight' = InFlight /\ Broadcasted' = Broadcasted
  BY <1>1 DEF Holders, InFlight, Broadcasted
<1>4. NumbersUsedOnce'
  BY <1>1, <1>3 DEF ServiceInv, NumbersUsedOnce
<1> QED
  BY <1>1, <1>2, <1>3, <1>4 DEF ServiceInv, StoreRecorded

(***************************************************************************)
(* "The store's lasting state and the stream cannot disagree": no number   *)
(* is used twice, and the events are those the store has recorded.  The    *)
(* numbers are counted by a bijection with the positions of the stream and *)
(* one with the requests about to publish.                                 *)
(***************************************************************************)
LEMMA OneToOne ==
  ASSUME NEW S, NEW T, IsFiniteSet(S), NEW f \in [S -> T],
         \A x, y \in S : f[x] = f[y] => x = y,
         \A y \in T : \E x \in S : f[x] = y
  PROVE  IsFiniteSet(T) /\ Cardinality(T) = Cardinality(S)
<1>1. f \in Bijection(S, T)
  BY DEF Bijection, Injection, IsInjective, Surjection
<1>2. ExistsBijection(S, T)
  BY <1>1 DEF ExistsBijection
<1> QED
  BY <1>2, FS_Bijection

LEMMA ServiceInvAgrees ==
  ASSUME ServiceInv
  PROVE  StoreAndStreamAgree
<1> DEFINE events == Broadcasted \cup InFlight
           publishers == {d \in Clients : request[d].pc = "publish"}
           sent == {stream[i].seq : i \in 1 .. Len(stream)}
           onTheirWay == {request[d].event.seq : d \in publishers}
<1>1. /\ Len(stream) \in Nat /\ \A i \in 1 .. Len(stream) : stream[i] \in Events
      /\ \A d \in publishers : request[d] \in Publishing
  BY DEF ServiceInv, ServiceTyped, Ready, Reserved, Publishing
<1>2. /\ Broadcasted \in SUBSET Events
      /\ InFlight = {request[d].event : d \in publishers}
      /\ InFlight \in SUBSET Events
  BY <1>1 DEF Broadcasted, InFlight, Publishing
<1>3. publishers \in SUBSET Holders /\ \A d \in publishers : Held(request[d]) = request[d].event.seq
  BY DEF Holders, Held
<1>4. \A d, e \in publishers : request[d].event.seq = request[e].event.seq => d = e
  BY <1>3 DEF ServiceInv, NumbersUsedOnce
<1>5. IsFiniteSet(publishers)
  BY InboxAssumption, FS_Subset DEF InboxAssumption
<1>6. IsFiniteSet(sent) /\ Cardinality(sent) = Len(stream)
  <2> DEFINE f == [i \in 1 .. Len(stream) |-> stream[i].seq]
  <2>1. f \in [1 .. Len(stream) -> sent]
    OBVIOUS
  <2>2. \A i, j \in 1 .. Len(stream) : f[i] = f[j] => i = j
    BY DEF ServiceInv, NumbersUsedOnce
  <2>3. \A n \in sent : \E i \in 1 .. Len(stream) : f[i] = n
    OBVIOUS
  <2>4. IsFiniteSet(1 .. Len(stream)) /\ Cardinality(1 .. Len(stream)) = Len(stream)
    BY <1>1, FS_Interval
  <2> HIDE DEF f, sent
  <2> QED
    BY <2>1, <2>2, <2>3, <2>4, OneToOne
<1>7. IsFiniteSet(onTheirWay) /\ Cardinality(onTheirWay) = Cardinality(publishers)
  <2> DEFINE f == [d \in publishers |-> request[d].event.seq]
  <2>1. f \in [publishers -> onTheirWay]
    OBVIOUS
  <2>2. \A d, e \in publishers : f[d] = f[e] => d = e
    BY <1>4
  <2>3. \A n \in onTheirWay : \E d \in publishers : f[d] = n
    OBVIOUS
  <2> HIDE DEF f, onTheirWay, publishers
  <2> QED
    BY <1>5, <2>1, <2>2, <2>3, OneToOne
<1>8. Cardinality(InFlight) = Cardinality(publishers)
  <2> DEFINE f == [d \in publishers |-> request[d].event]
  <2>1. f \in [publishers -> InFlight]
    BY <1>2
  <2>2. \A d, e \in publishers : f[d] = f[e] => d = e
    BY <1>4
  <2>3. \A n \in InFlight : \E d \in publishers : f[d] = n
    BY <1>2
  <2> HIDE DEF f, publishers
  <2> QED
    BY <1>5, <2>1, <2>2, <2>3, OneToOne
<1>9. sent \cap onTheirWay = {}
  BY <1>3 DEF ServiceInv, NumbersUsedOnce
<1>10. {e.seq : e \in events} = sent \cup onTheirWay
  BY <1>2 DEF Broadcasted
<1>11. Cardinality({e.seq : e \in events}) = Len(stream) + Cardinality(InFlight)
  <2>1. Cardinality(publishers) \in Nat
    BY <1>5, FS_CardinalityType
  <2> HIDE DEF sent, onTheirWay, events, publishers
  <2>2. Cardinality(sent \cup onTheirWay)
          = Cardinality(sent) + Cardinality(onTheirWay) - Cardinality({})
    BY <1>6, <1>7, <1>9, FS_Union
  <2>3. Cardinality({}) = 0
    BY FS_EmptySet
  <2>4. Cardinality(sent \cup onTheirWay) = Len(stream) + Cardinality(InFlight)
    BY <1>1, <1>6, <1>7, <1>8, <2>1, <2>2, <2>3
  <2> QED
    BY <1>10, <2>4, Zenon
<1> HIDE DEF publishers, sent, onTheirWay
<1>12. events \in SUBSET Events /\ Recorded(events, store)
  BY <1>2 DEF ServiceInv, StoreRecorded
<1>13. ASSUME NEW e \in events
       PROVE  e = Event(e.seq, e.kind, e.id)
  BY <1>12, <1>13 DEF Event, Events
<1>14. \A n, k, i : Event(n, k, i).seq = n /\ Event(n, k, i).kind = k /\ Event(n, k, i).id = i
  BY DEF Event
<1> HIDE DEF events
<1>15. {e \in events : e.kind = "notification"}
         = {Event(store[id].posted, "notification", id) : id \in DOMAIN store}
  <2>1. ASSUME NEW e \in events, e.kind = "notification"
        PROVE  e.id \in DOMAIN store /\ e = Event(store[e.id].posted, "notification", e.id)
    BY <1>12, <1>13, <2>1 DEF Recorded
  <2>2. ASSUME NEW id \in DOMAIN store
        PROVE  /\ Event(store[id].posted, "notification", id) \in events
               /\ Event(store[id].posted, "notification", id).kind = "notification"
    BY <1>12, <1>14 DEF Recorded
  <2> QED
    BY <2>1, <2>2
<1>16. {e \in events : e.kind = "closed"}
         = {Event(store[id].closed, "closed", id) :
              id \in {i \in DOMAIN store : store[i].closed # 0}}
  <2>1. ASSUME NEW e \in events, e.kind = "closed"
        PROVE  /\ e.id \in {i \in DOMAIN store : store[i].closed # 0}
               /\ e = Event(store[e.id].closed, "closed", e.id)
    BY <1>12, <1>13, <2>1 DEF Recorded
  <2>2. ASSUME NEW id \in {i \in DOMAIN store : store[i].closed # 0}
        PROVE  /\ Event(store[id].closed, "closed", id) \in events
               /\ Event(store[id].closed, "closed", id).kind = "closed"
    BY <1>12, <1>14 DEF Recorded
  <2> QED
    BY <2>1, <2>2
<1> QED
  BY <1>11, <1>15, <1>16 DEF StoreAndStreamAgree, events

-----------------------------------------------------------------------------
(* Part 2: the pump and the inbox.                                         *)

\* What compositor and request tasks do to the stream: it only grows.
StreamGrows ==
  /\ Len(stream') >= Len(stream)
  /\ \A i \in 1 .. Len(stream) : stream'[i] = stream[i]

LEMMA GrowthKeepsInbox ==
  ASSUME ServiceInv, ServiceInv', InboxInv, StreamGrows,
         UNCHANGED << received, inbox >>
  PROVE  InboxInv'
<1>1. UNCHANGED << received, journal, watermark >>
  BY DEF inbox
<1>2. /\ received \in Nat /\ received <= Len(stream)
      /\ Len(journal) \in Nat /\ Len(journal) <= received
      /\ Len(stream) \in Nat /\ Len(stream') \in Nat /\ Len(stream') >= Len(stream)
  BY DEF InboxInv, JournalIsTheEnd, ServiceInv, ServiceTyped, InboxAssumption, StreamGrows
<1>3. \A i \in 1 .. received : stream'[i] = stream[i]
  BY <1>2 DEF StreamGrows
<1>4. \A k \in 1 .. Len(journal) : Oldest + k \in 1 .. received
  BY <1>2 DEF Oldest
<1>5. \A k \in 1 .. Len(journal) : journal[k] = stream'[Oldest + k]
  BY <1>3, <1>4 DEF InboxInv, JournalIsTheEnd
<1>6. Oldest' = Oldest
  BY <1>1 DEF Oldest
<1>7. JournalIsTheEnd'
  BY <1>1, <1>2, <1>5, <1>6 DEF InboxInv, JournalIsTheEnd
<1>8. WatermarkIsHighest'
  BY <1>1, <1>3 DEF InboxInv, WatermarkIsHighest
<1> QED
  BY <1>7, <1>8 DEF InboxInv

LEMMA PumpKeepsInbox ==
  ASSUME ServiceInv, InboxInv, PumpRecord
  PROVE  InboxInv'
<1> DEFINE e == stream[received + 1]
           grown == Append(journal, e)
<1>1. /\ received' = received + 1 /\ received < Len(stream)
      /\ watermark' = Higher(watermark, stream[received'].seq)
      /\ journal' = (IF Len(grown) > InboxCap THEN Tail(grown) ELSE grown)
      /\ stream' = stream
  BY DEF PumpRecord
<1>2. /\ received \in Nat /\ InboxCap \in Nat \ {0} /\ watermark \in Nat
      /\ Len(stream) \in Nat /\ stream \in Seq(Events)
      /\ journal \in Seq(Events) /\ Len(journal) \in Nat
      /\ Len(journal) = IF received < InboxCap THEN received ELSE InboxCap
  <2>1. stream \in Seq(Events) /\ Len(stream) \in Nat
    BY DEF ServiceInv, ServiceTyped
  <2>2. received \in Nat /\ InboxCap \in Nat \ {0} /\ watermark \in Nat
    BY <2>1, InboxAssumption
       DEF InboxInv, JournalIsTheEnd, WatermarkIsHighest, InboxAssumption
  <2>3. /\ journal \in Seq(Events) /\ Len(journal) \in Nat
        /\ Len(journal) = IF received < InboxCap THEN received ELSE InboxCap
    BY DEF InboxInv, JournalIsTheEnd
  <2> QED
    BY <2>1, <2>2, <2>3
<1>3. e \in Events /\ e.seq \in Nat
  <2>1. received + 1 \in 1 .. Len(stream)
    BY <1>1, <1>2
  <2>2. e \in Events
    BY <1>2, <2>1
  <2> QED
    BY <2>2 DEF Events
<1>4. /\ grown \in Seq(Events) /\ Len(grown) = Len(journal) + 1
      /\ \A k \in 1 .. Len(journal) : grown[k] = journal[k]
      /\ grown[Len(journal) + 1] = e
  BY <1>2, <1>3, AppendEvent
<1>5. \A k \in 1 .. Len(journal) : journal[k] = stream[Oldest + k]
  BY DEF InboxInv, JournalIsTheEnd
<1> HIDE DEF grown
<1>6. ASSUME NEW k \in 1 .. Len(grown) PROVE grown[k] = stream[Oldest + k]
  <2>1. CASE k \in 1 .. Len(journal)
    BY <1>4, <1>5, <2>1
  <2>2. CASE k \notin 1 .. Len(journal)
    <3>1. k = Len(journal) + 1
      BY <1>2, <1>4, <2>2
    <3>2. Oldest + k = received + 1
      BY <1>2, <3>1 DEF Oldest
    <3> QED
      BY <1>4, <3>1, <3>2
  <2> QED
    BY <2>1, <2>2
<1>7. JournalIsTheEnd'
  <2>1. CASE received < InboxCap
    <3>1. journal' = grown /\ Len(journal') = Len(journal) + 1
      BY <2>1, <1>1, <1>2, <1>4
    <3>2. received' = received + 1
      BY <1>1
    <3>3. Oldest' = Oldest
      BY <1>2, <3>1, <3>2 DEF Oldest
    <3> QED
      BY <2>1, <3>1, <3>3, <1>1, <1>2, <1>4, <1>6 DEF JournalIsTheEnd
  <2>2. CASE ~(received < InboxCap)
    <3>1. journal' = Tail(grown) /\ Len(grown) = InboxCap + 1
      BY <2>2, <1>1, <1>2, <1>4
    <3>2. /\ Tail(grown) \in Seq(Events) /\ Len(Tail(grown)) = InboxCap
          /\ \A k \in 1 .. InboxCap : Tail(grown)[k] = grown[k + 1]
      BY <3>1, <1>2, <1>4
    <3>3. Len(journal') = InboxCap /\ Oldest' = Oldest + 1 /\ Oldest \in Nat
      <4>1. Len(journal) = InboxCap /\ Len(journal') = InboxCap
        BY <2>2, <3>1, <3>2, <1>2
      <4>2. Oldest = received - InboxCap /\ Oldest' = (received + 1) - InboxCap
        BY <4>1, <1>1 DEF Oldest
      <4> QED
        BY <2>2, <4>1, <4>2, <1>2
    <3>4. \A k \in 1 .. Len(journal') : journal'[k] = stream'[Oldest' + k]
      <4> SUFFICES ASSUME NEW k \in 1 .. InboxCap
                   PROVE  journal'[k] = stream'[Oldest' + k]
        BY <3>3
      <4>1. journal'[k] = grown[k + 1] /\ k + 1 \in 1 .. Len(grown)
        BY <3>1, <3>2, <1>2
      <4>2. grown[k + 1] = stream[Oldest + (k + 1)]
        BY <4>1, <1>6
      <4>3. Oldest + (k + 1) = Oldest' + k
        BY <3>3, <1>2
      <4> QED
        BY <4>1, <4>2, <4>3, <1>1
    <3> QED
      BY <2>2, <3>1, <3>2, <3>3, <3>4, <1>1, <1>2 DEF JournalIsTheEnd
  <2> QED
    BY <2>1, <2>2
<1>8. WatermarkIsHighest'
  <2>1. /\ watermark' \in Nat /\ watermark' >= watermark /\ watermark' >= e.seq
        /\ watermark' = watermark \/ watermark' = e.seq
    BY <1>1, <1>2, <1>3 DEF Higher
  <2>2. \A i \in 1 .. received : stream[i].seq \in Nat /\ stream[i].seq <= watermark
    <3>1. \A i \in 1 .. received : stream[i] \in Events
      BY <1>1, <1>2
    <3>2. \A i \in 1 .. received : stream[i].seq <= watermark
      BY DEF InboxInv, WatermarkIsHighest
    <3> QED
      BY <3>1, <3>2 DEF Events
  <2> HIDE DEF e
  <2>3. \A i \in 1 .. received + 1 : stream[i].seq <= watermark'
    BY <1>2, <1>3, <2>1, <2>2 DEF e
  <2>4. watermark' # 0 => \E i \in 1 .. received + 1 : stream[i].seq = watermark'
    <3>1. CASE watermark' = e.seq
      BY <3>1, <1>2 DEF e
    <3>2. CASE watermark' = watermark
      BY <3>2, <1>2 DEF InboxInv, WatermarkIsHighest
    <3> QED
      BY <2>1, <3>1, <3>2
  <2> QED
    BY <1>1, <2>1, <2>3, <2>4 DEF WatermarkIsHighest
<1> QED
  BY <1>7, <1>8 DEF InboxInv

-----------------------------------------------------------------------------
(* Part 3: the agent's waits.                                              *)

(***************************************************************************)
(* A chosen is what was found, or the BatchMax oldest of it.                *)
(***************************************************************************)
LEMMA BatchIsThePrefix ==
  ASSUME NEW n \in Nat, NEW found \in SUBSET (1 .. n)
  PROVE  /\ Batch(found) \in SUBSET found
         /\ found # {} => Batch(found) # {}
         /\ \A i \in found \ Batch(found) :
              /\ Cardinality(Batch(found)) = BatchMax
              /\ \A b \in Batch(found) : b < i
<1> DEFINE lower == [i \in found |-> {j \in found : j < i}]
           chosen == Batch(found)
<1>1. \A i \in found : i \in chosen <=> Cardinality(lower[i]) < BatchMax
  BY DEF Batch
<1>2. chosen \in SUBSET found
  BY DEF Batch
<1>3. /\ IsFiniteSet(found) /\ found \in SUBSET Nat /\ \A x \in found : x \in Nat
      /\ BatchMax \in Nat \ {0}
  <2>1. BatchMax \in Nat \ {0}
    BY InboxAssumption DEF InboxAssumption
  <2>2. IsFiniteSet(1 .. n)
    BY FS_Interval
  <2>3. IsFiniteSet(found)
    BY <2>2, FS_Subset
  <2> QED
    BY <2>1, <2>3
<1>0. \A i \in found : /\ lower[i] \in SUBSET found
                       /\ \A j \in found : j \in lower[i] <=> j < i
  OBVIOUS
<1> HIDE DEF chosen, lower
<1>4. \A i \in found : IsFiniteSet(lower[i]) /\ Cardinality(lower[i]) \in Nat
  BY <1>0, <1>3, FS_Subset, FS_CardinalityType
<1>5. \A i \in chosen, j \in found : j < i => j \in chosen
  <2> SUFFICES ASSUME NEW i \in chosen, NEW j \in found, j < i
               PROVE  j \in chosen
    OBVIOUS
  <2>0. i \in found /\ i \in Nat /\ j \in Nat
    BY <1>2, <1>3
  <2>1. ASSUME NEW k \in lower[j]
        PROVE  k \in lower[i]
    <3>1. k \in found
      BY <1>0, <2>1
    <3>2. k < j /\ k \in Nat
      BY <1>0, <1>3, <2>1, <3>1
    <3>3. k < i
      BY <2>0, <3>2
    <3> QED
      BY <1>0, <2>0, <3>1, <3>3
  <2>2. lower[j] \in SUBSET lower[i]
    BY <2>1
  <2>3. Cardinality(lower[j]) <= Cardinality(lower[i])
    BY <2>0, <2>2, <1>4, FS_Subset
  <2>4. /\ Cardinality(lower[i]) < BatchMax
        /\ Cardinality(lower[i]) \in Nat /\ Cardinality(lower[j]) \in Nat
    BY <1>1, <1>2, <1>4
  <2>5. Cardinality(lower[j]) < BatchMax
    BY <2>3, <2>4, <1>3
  <2> QED
    BY <2>5, <1>1
<1>6. \A i \in found \ chosen, b \in chosen : b < i
  BY <1>2, <1>3, <1>5
<1>7. ASSUME found # {}
      PROVE  chosen # {}
  <2>1. PICK m \in found : \A y \in found : m <= y
    BY <1>3, <1>7, LeastNatural
  <2>2. lower[m] = {}
    <3> SUFFICES ASSUME NEW k \in lower[m]
                 PROVE  FALSE
      OBVIOUS
    <3>1. k \in found
      BY <1>0
    <3>2. k < m /\ m <= k /\ k \in Nat /\ m \in Nat
      BY <1>0, <1>3, <2>1, <3>1
    <3> QED
      BY <3>2
  <2>3. Cardinality(lower[m]) = 0
    BY <2>2, FS_EmptySet, Zenon
  <2> QED
    BY <2>3, <1>1, <1>3
<1>8. ASSUME found \ chosen # {}
      PROVE  Cardinality(chosen) = BatchMax
  <2>1. PICK m \in found \ chosen : \A y \in found \ chosen : m <= y
    BY <1>3, <1>8, LeastNatural
  <2>2. chosen = lower[m]
    <3>1. ASSUME NEW k \in chosen
          PROVE  k \in lower[m]
      BY <3>1, <2>1, <1>0, <1>2, <1>6
    <3>2. ASSUME NEW k \in lower[m]
          PROVE  k \in chosen
      <4>1. k \in found
        BY <1>0, <2>1, <3>2
      <4>2. k < m /\ k \in Nat /\ m \in Nat
        BY <1>0, <1>3, <2>1, <3>2, <4>1
      <4>3. ~(m <= k)
        BY <4>2
      <4> QED
        BY <2>1, <4>1, <4>3
    <3> QED
      BY <3>1, <3>2
  <2>3. Cardinality(lower[m]) \in Nat /\ ~(Cardinality(lower[m]) < BatchMax)
    BY <2>1, <1>1, <1>4
  <2>4. Cardinality(chosen) \in Nat /\ Cardinality(chosen) >= BatchMax
    BY <2>2, <2>3, <1>3
  <2>5. chosen # {}
    BY <1>7, <2>1
  <2>6. \A b \in chosen : b <= n
    BY <1>2
  <2>7. PICK g \in chosen : \A y \in chosen : y <= g
    BY <1>2, <1>3, <2>5, <2>6, GreatestNatural
  <2>8. g \in found /\ chosen = lower[g] \cup {g} /\ g \notin lower[g]
    <3>1. g \in found /\ g \in Nat
      BY <1>2, <1>3, <2>7
    <3>2. g \notin lower[g]
      <4>1. ~(g < g)
        BY <3>1
      <4> QED
        BY <1>0, <3>1, <4>1
    <3>3. ASSUME NEW k \in chosen, k # g
          PROVE  k \in lower[g]
      <4>1. k \in found /\ k \in Nat /\ k <= g
        BY <1>2, <1>3, <2>7, <3>3
      <4>2. k < g
        BY <3>1, <3>3, <4>1
      <4> QED
        BY <1>0, <3>1, <4>1, <4>2
    <3>4. ASSUME NEW k \in lower[g]
          PROVE  k \in chosen
      <4>1. k \in found /\ k < g
        BY <1>0, <3>1, <3>4
      <4> QED
        BY <1>5, <2>7, <4>1
    <3> QED
      BY <2>7, <3>1, <3>2, <3>3, <3>4
  <2>9. Cardinality(lower[g] \cup {g}) = Cardinality(lower[g]) + 1
    BY <1>4, <2>8, FS_AddElement
  <2>10. Cardinality(lower[g]) \in Nat /\ Cardinality(lower[g]) < BatchMax
    BY <1>1, <1>2, <1>4, <2>7
  <2>11. Cardinality(chosen) = Cardinality(lower[g]) + 1
    BY <2>8, <2>9
  <2> QED
    BY <2>4, <2>10, <2>11, <1>3
<1>9. \A i \in found \ chosen : Cardinality(chosen) = BatchMax
  BY <1>8
<1> QED
  BY <1>2, <1>6, <1>7, <1>9 DEF chosen

(***************************************************************************)
(* An entry of the journal is a received event; a received event that is   *)
(* not in the journal was evicted.                                         *)
(***************************************************************************)
LEMMA JournalPositions ==
  ASSUME InboxInv
  PROVE  /\ Oldest \in Nat /\ Len(journal) \in Nat /\ received \in Nat
         /\ \A k \in 1 .. Len(journal) : /\ Oldest + k \in 1 .. received
                                         /\ journal[k] = stream[Oldest + k]
         /\ \A i \in 1 .. received : \/ Evicted(i)
                                     \/ i - Oldest \in 1 .. Len(journal)
<1>1. /\ received \in Nat /\ Len(journal) \in Nat /\ InboxCap \in Nat \ {0}
      /\ Len(journal) = IF received < InboxCap THEN received ELSE InboxCap
  BY InboxAssumption DEF InboxInv, JournalIsTheEnd, InboxAssumption
<1>2. \A k \in 1 .. Len(journal) : journal[k] = stream[Oldest + k]
  BY DEF InboxInv, JournalIsTheEnd
<1> QED
  BY <1>1, <1>2 DEF Oldest, Evicted

(***************************************************************************)
(* The heart of the agent's guarantee: what a careful agent collects, and  *)
(* the cursor it goes on from, leave nothing behind but late or evicted    *)
(* events.  An event the chosen limit cut off is behind the chosen in the    *)
(* journal, so the cursor is past it only if its number is lower than one  *)
(* broadcast before it.                                                    *)
(***************************************************************************)
NextCursor(chosen) == IF chosen # {} THEN ResumePoint(chosen) ELSE watermark

LEMMA CollectCovers ==
  ASSUME Careful, ServiceInv, InboxInv, NEW b \in Nat, NEW f \in Nat, Covered(b, f),
         NEW chosen, chosen = Batch(Matching(f))
  PROVE  /\ chosen \in SUBSET (1 .. Len(journal))
         /\ NextCursor(chosen) \in Nat /\ NextCursor(chosen) <= watermark
         /\ \A i \in 1 .. received :
              Matches(stream[i]) /\ b < stream[i].seq /\ stream[i].seq <= NextCursor(chosen) =>
                \/ stream[i].seq \in delivered \cup {journal[k].seq : k \in chosen}
                \/ Late(i) \/ Evicted(i)
<1> DEFINE found == Matching(f)
           c == NextCursor(chosen)
           m == CHOOSE i \in chosen : \A j \in chosen : j <= i
<1>1. /\ Oldest \in Nat /\ Len(journal) \in Nat /\ received \in Nat
      /\ \A k \in 1 .. Len(journal) : /\ Oldest + k \in 1 .. received
                                      /\ journal[k] = stream[Oldest + k]
      /\ \A i \in 1 .. received : Evicted(i) \/ i - Oldest \in 1 .. Len(journal)
  BY JournalPositions
<1>2. received \in 0 .. Len(stream) /\ Len(stream) \in Nat
  BY DEF InboxInv, JournalIsTheEnd, ServiceInv, ServiceTyped
<1>3. \A i \in 1 .. received : stream[i].seq \in Nat
  <2>1. lastSeq \in Nat /\ \A i \in 1 .. Len(stream) : stream[i].seq \in 1 .. lastSeq
    BY DEF ServiceInv, ServiceTyped, NumbersUsedOnce
  <2> QED
    BY <1>2, <2>1
<1>4. \A i, j \in 1 .. received : stream[i].seq = stream[j].seq => i = j
  BY <1>2 DEF ServiceInv, NumbersUsedOnce
<1>5. watermark \in Nat /\ \A i \in 1 .. received : stream[i].seq <= watermark
  BY DEF InboxInv, WatermarkIsHighest
<1>6. found \in SUBSET (1 .. Len(journal))
  BY DEF Matching
<1>7. BatchMax \in Nat \ {0}
  BY InboxAssumption DEF InboxAssumption
<1> HIDE DEF found
<1>8. /\ chosen \in SUBSET found /\ chosen \in SUBSET (1 .. Len(journal))
      /\ \A i \in found \ chosen : /\ Cardinality(chosen) = BatchMax
                                  /\ \A k \in chosen : k < i
  <2>1. chosen = Batch(found)
    BY DEF found
  <2> QED
    BY <1>1, <1>6, <2>1, BatchIsThePrefix
<1>9. ASSUME chosen # {}
      PROVE  m \in chosen
  <2>1. chosen \in SUBSET Nat /\ \A x \in chosen : x <= Len(journal)
    BY <1>8, <1>1
  <2>2. \E x \in chosen : \A y \in chosen : y <= x
    BY <1>1, <1>9, <2>1, GreatestNatural
  <2> QED
    BY <2>2
<1> HIDE DEF m
<1>10. \/ c = watermark /\ ~(chosen # {} /\ Cardinality(chosen) = BatchMax)
       \/ chosen # {} /\ Cardinality(chosen) = BatchMax /\ c = journal[m].seq
  BY DEF NextCursor, ResumePoint, m
<1> HIDE DEF c
<1>11. c \in Nat /\ c <= watermark
  <2>1. CASE c = watermark
    BY <2>1, <1>5
  <2>2. CASE chosen # {} /\ c = journal[m].seq
    <3>1. m \in 1 .. Len(journal)
      BY <2>2, <1>8, <1>9
    <3>2. Oldest + m \in 1 .. received /\ journal[m] = stream[Oldest + m]
      BY <3>1, <1>1
    <3> QED
      BY <2>2, <3>2, <1>3, <1>5
  <2> QED
    BY <1>10, <2>1, <2>2
<1>12. ASSUME NEW i \in 1 .. received,
              Matches(stream[i]), b < stream[i].seq, stream[i].seq <= c
       PROVE  \/ stream[i].seq \in delivered \cup {journal[k].seq : k \in chosen}
              \/ Late(i) \/ Evicted(i)
  <2>1. CASE stream[i].seq <= f
    BY <2>1, <1>12 DEF Covered
  <2>2. CASE ~(stream[i].seq <= f) /\ i - Oldest \in 1 .. Len(journal)
    <3> DEFINE k == i - Oldest
    <3>1. k \in 1 .. Len(journal) /\ Oldest + k = i
      BY <2>2, <1>1
    <3> HIDE DEF k
    <3>2. journal[k] = stream[i]
      BY <3>1, <1>1
    <3>3. k \in found
      <4>1. journal[k].seq > f /\ Matches(journal[k])
        BY <2>2, <3>2, <1>3, <1>12
      <4> QED
        BY <3>1, <4>1 DEF found, Matching
    <3>4. CASE k \in chosen
      BY <3>2, <3>4
    <3>5. CASE k \notin chosen
      <4>1. Cardinality(chosen) = BatchMax /\ \A j \in chosen : j < k
        BY <1>8, <3>3, <3>5
      <4>2. chosen # {}
        <5>1. Cardinality({}) = 0
          BY FS_EmptySet
        <5> QED
          BY <5>1, <4>1, <1>7
      <4>3. c = journal[m].seq
        BY <1>10, <4>1, <4>2
      <4>4. m \in chosen /\ m \in 1 .. Len(journal) /\ m < k
        BY <1>8, <1>9, <4>1, <4>2
      <4>5. Oldest + m \in 1 .. received /\ journal[m] = stream[Oldest + m]
        BY <1>1, <4>4
      <4>6. Oldest + m \in 1 .. i - 1
        BY <1>1, <3>1, <4>4, <4>5
      <4>7. stream[Oldest + m].seq # stream[i].seq
        BY <1>4, <1>12, <4>5, <4>6
      <4>8. stream[Oldest + m].seq > stream[i].seq
        BY <1>3, <1>12, <4>3, <4>5, <4>7
      <4> QED
        BY <4>6, <4>8 DEF Late
    <3> QED
      BY <3>4, <3>5
  <2> QED
    BY <1>1, <1>12, <2>1, <2>2
<1> QED
  BY <1>8, <1>11, <1>12 DEF c

(***************************************************************************)
(* What the service and the pump do to an agent's coverage: a new event is *)
(* not received yet, and one the pump takes now either has a number above  *)
(* the watermark, and so above every cursor, or comes after the event that *)
(* set the watermark: it is late.                                          *)
(***************************************************************************)
CoverageKept == \A b, c \in Nat : Covered(b, c) => Covered(b, c)'

LEMMA GrowthKeepsCoverage ==
  ASSUME ServiceInv, InboxInv, StreamGrows, UNCHANGED << received, inbox, agent >>
  PROVE  CoverageKept
<1>1. /\ received \in 0 .. Len(stream) /\ Len(stream) \in Nat
      /\ UNCHANGED << received, watermark, kinds, delivered >>
  BY DEF InboxInv, JournalIsTheEnd, ServiceInv, ServiceTyped, inbox, agent
<1>2. \A i \in 1 .. received : stream'[i] = stream[i]
  BY <1>1 DEF StreamGrows
<1>3. \A i \in 1 .. received : Late(i) => Late(i)'
  <2> SUFFICES ASSUME NEW i \in 1 .. received, Late(i)
               PROVE  Late(i)'
    OBVIOUS
  <2>1. PICK j \in 1 .. i - 1 : stream[j].seq > stream[i].seq
    BY DEF Late
  <2>2. j \in 1 .. received
    BY <1>1
  <2>3. stream'[j].seq > stream'[i].seq
    BY <1>2, <2>1, <2>2
  <2> QED
    BY <2>3 DEF Late
<1>4. \A i \in 1 .. received : Evicted(i)' <=> Evicted(i)
  BY <1>1 DEF Evicted
<1>5. \A i \in 1 .. received : Matches(stream[i])' <=> Matches(stream[i])
  BY <1>1, <1>2 DEF Matches
<1> SUFFICES ASSUME NEW b \in Nat, NEW c \in Nat, Covered(b, c)
             PROVE  Covered(b, c)'
  BY DEF CoverageKept
<1> QED
  BY <1>1, <1>2, <1>3, <1>4, <1>5 DEF Covered

LEMMA PumpKeepsCoverage ==
  ASSUME ServiceInv, InboxInv, PumpRecord
  PROVE  CoverageKept
<1>1. /\ received' = received + 1 /\ received < Len(stream) /\ Len(stream) \in Nat
      /\ received \in Nat /\ InboxCap \in Nat
      /\ watermark' = Higher(watermark, stream[received'].seq)
      /\ stream' = stream /\ UNCHANGED << kinds, delivered >>
  BY InboxAssumption DEF PumpRecord, InboxInv, JournalIsTheEnd, ServiceInv,
     ServiceTyped, InboxAssumption, agent
<1>2. /\ lastSeq \in Nat
      /\ \A i \in 1 .. received + 1 : stream[i].seq \in 1 .. lastSeq
  BY <1>1 DEF ServiceInv, ServiceTyped, NumbersUsedOnce
<1>3. /\ watermark \in Nat
      /\ watermark # 0 => \E j \in 1 .. received : stream[j].seq = watermark
  BY DEF InboxInv, WatermarkIsHighest
<1>4. watermark' \in Nat /\ watermark <= watermark'
  BY <1>1, <1>2, <1>3 DEF Higher
<1>5. \A i, j \in 1 .. received + 1 : stream[i].seq = stream[j].seq => i = j
  BY <1>1 DEF ServiceInv, NumbersUsedOnce
<1>6. stream[received + 1].seq <= watermark => Late(received + 1)
  <2> SUFFICES ASSUME stream[received + 1].seq <= watermark
               PROVE  Late(received + 1)
    OBVIOUS
  <2>1. received + 1 \in 1 .. received + 1
    BY <1>1
  <2>2. stream[received + 1].seq \in 1 .. lastSeq
    BY <1>2, <2>1
  <2>3. PICK j \in 1 .. received : stream[j].seq = watermark
    BY <1>2, <1>3, <2>2
  <2>4. j \in 1 .. (received + 1) - 1 /\ j \in 1 .. received + 1 /\ j # received + 1
    BY <1>1
  <2>5. stream[j].seq # stream[received + 1].seq
    BY <1>5, <2>1, <2>4
  <2>6. stream[j].seq > stream[received + 1].seq
    BY <1>2, <1>3, <2>2, <2>3, <2>5
  <2> QED
    BY <2>4, <2>6 DEF Late
<1>7. \A i : Late(i)' <=> Late(i)
  BY <1>1 DEF Late
<1>8. \A i \in 1 .. received : Evicted(i) => Evicted(i)'
  BY <1>1 DEF Evicted
<1>9. \A i : Matches(stream[i])' <=> Matches(stream[i])
  BY <1>1 DEF Matches
<1> SUFFICES ASSUME NEW b \in Nat, NEW c \in Nat, Covered(b, c)
             PROVE  Covered(b, c)'
  BY DEF CoverageKept
<1>10. c <= watermark /\ c <= watermark'
  BY <1>3, <1>4 DEF Covered
<1>11. ASSUME NEW i \in 1 .. received + 1,
              Matches(stream[i]), b < stream[i].seq, stream[i].seq <= c
       PROVE  stream[i].seq \in delivered \/ Late(i) \/ Evicted(i)'
  <2>1. CASE i = received + 1
    <3>1. stream[i].seq \in Nat
      BY <1>2
    <3>2. stream[i].seq <= watermark
      BY <1>3, <1>10, <1>11, <3>1
    <3> QED
      BY <1>6, <2>1, <3>2
  <2>2. CASE i # received + 1
    <3>1. i \in 1 .. received
      BY <1>1, <2>2
    <3>2. stream[i].seq \in delivered \/ Late(i) \/ Evicted(i)
      BY <1>11, <3>1 DEF Covered
    <3> QED
      BY <1>8, <3>1, <3>2
  <2> QED
    BY <2>1, <2>2
<1> QED
  BY <1>1, <1>7, <1>9, <1>10, <1>11 DEF Covered

WaitInv == WaitTyped /\ WaitCovered

LEMMA SleepKeepsWait ==
  ASSUME WaitInv, CoverageKept, UNCHANGED wait, generation' \in Nat
  PROVE  WaitInv'
<1>1. WaitTyped'
  BY DEF WaitInv, WaitTyped
<1>2. ASSUME Careful, wait \in Asleep
      PROVE  Covered(wait.base, wait.cursor)'
  <2>1. wait.base \in Nat /\ wait.cursor \in Nat
    BY <1>2 DEF Asleep
  <2>2. PICK b \in Nat, c \in Nat : b = wait.base /\ c = wait.cursor
    BY <2>1
  <2>3. Covered(b, c)'
    BY <1>2, <2>2 DEF WaitInv, WaitCovered, CoverageKept
  <2> QED
    BY <2>2, <2>3 DEF Covered
<1>3. ASSUME Careful, wait \in Waiting
      PROVE  Covered(wait.base, wait.filter)' /\ Covered(wait.base, wait.cursor)'
  <2>1. wait.base \in Nat /\ wait.filter \in Nat /\ wait.cursor \in Nat
    BY <1>3 DEF Waiting
  <2>2. PICK b \in Nat, f \in Nat, c \in Nat :
          b = wait.base /\ f = wait.filter /\ c = wait.cursor
    BY <2>1
  <2>3. Covered(b, f)' /\ Covered(b, c)'
    BY <1>3, <2>2 DEF WaitInv, WaitCovered, CoverageKept
  <2> QED
    BY <2>2, <2>3 DEF Covered
<1>4. WaitCovered'
  BY <1>2, <1>3 DEF WaitCovered
<1> QED
  BY <1>1, <1>4 DEF WaitInv

(***************************************************************************)
(* Where a wait's step may lead when it delivers nothing: to a state whose *)
(* bounds are covered already.                                             *)
(***************************************************************************)
Scene == << service, stream, received, inbox, kinds, delivered >>

LEMMA SleepsCovered ==
  ASSUME generation' \in Nat, wait' \in Asleep, UNCHANGED Scene,
         Careful => Covered(wait'.base, wait'.cursor)
  PROVE  WaitInv'
<1>1. wait' \notin Waiting
  BY DEF Asleep, Waiting
<1>2. Careful => Covered(wait.base, wait.cursor)'
  BY DEF Scene, inbox, Covered, Late, Evicted, Matches
<1>3. WaitTyped'
  BY DEF WaitTyped, Asleep
<1> QED
  BY <1>1, <1>2, <1>3 DEF WaitInv, WaitCovered, Waiting

LEMMA WaitsCovered ==
  ASSUME generation' \in Nat, wait' \in Waiting, UNCHANGED Scene,
         Careful => /\ Covered(wait'.base, wait'.filter)
                    /\ Covered(wait'.base, wait'.cursor)
  PROVE  WaitInv'
<1>1. wait' \notin Asleep
  BY DEF Asleep, Waiting
<1>2. Careful => Covered(wait.base, wait.filter)' /\ Covered(wait.base, wait.cursor)'
  BY DEF Scene, inbox, Covered, Late, Evicted, Matches
<1>3. WaitTyped'
  BY DEF WaitTyped, Waiting
<1> QED
  BY <1>1, <1>2, <1>3 DEF WaitInv, WaitCovered, Asleep

LEMMA BeginWaitKeepsWait ==
  ASSUME WaitInv, BeginWait
  PROVE  WaitInv'
<1>1. /\ wait.pc = "idle" /\ UNCHANGED Scene /\ generation' = generation
      /\ generation \in Nat
  BY DEF BeginWait, Scene, WaitInv, WaitTyped
<1>2. CASE wait \in Asleep
  <2>1. wait' = [pc |-> "mark", filter |-> wait.cursor, cursor |-> wait.cursor,
                 base |-> wait.base, expired |-> FALSE, seen |-> 0, started |-> TRUE]
    BY <1>2 DEF BeginWait, Asleep
  <2>2. wait' \in Waiting
    BY <1>2, <2>1 DEF Waiting, Asleep
  <2>3. wait'.base = wait.base /\ wait'.filter = wait.cursor /\ wait'.cursor = wait.cursor
    BY <2>1
  <2>4. Careful => Covered(wait.base, wait.cursor)
    BY <1>2 DEF WaitInv, WaitCovered
  <2> QED
    BY <1>1, <2>2, <2>3, <2>4, WaitsCovered
<1>3. CASE wait \notin Asleep
  <2>1. wait \in [pc : {"idle"}, cursor : {0}, started : {FALSE}]
    BY <1>1, <1>3 DEF WaitInv, WaitTyped, Waiting
  <2>2. wait' = [pc |-> "filter", expired |-> FALSE, seen |-> 0]
    BY <2>1 DEF BeginWait
  <2>3. wait' \in [pc : {"filter"}, expired : BOOLEAN, seen : Nat]
    BY <2>2
  <2>4. wait' \notin Asleep /\ wait' \notin Waiting
    BY <2>2 DEF Asleep, Waiting
  <2>5. WaitTyped'
    BY <1>1, <2>3 DEF WaitTyped
  <2>6. WaitCovered'
    BY <2>4 DEF WaitCovered, Asleep, Waiting
  <2> QED
    BY <2>5, <2>6 DEF WaitInv
<1> QED
  BY <1>2, <1>3

LEMMA ReadFilterKeepsWait ==
  ASSUME WaitInv, InboxInv, ServiceInv, ReadFilter
  PROVE  WaitInv'
<1>1. /\ wait.pc = "filter" /\ UNCHANGED Scene /\ generation' = generation
      /\ generation \in Nat
  BY DEF ReadFilter, Scene, WaitInv, WaitTyped
<1>2. wait.expired \in BOOLEAN
  BY <1>1 DEF WaitInv, WaitTyped, Asleep, Waiting
<1>3. watermark \in Nat
  BY DEF InboxInv, WatermarkIsHighest
<1>4. wait' = [pc |-> "mark", filter |-> watermark, cursor |-> watermark,
               base |-> watermark, expired |-> wait.expired, seen |-> 0, started |-> TRUE]
  BY DEF ReadFilter
<1>5. wait' \in Waiting
  BY <1>2, <1>3, <1>4 DEF Waiting
<1>6. wait'.base = watermark /\ wait'.filter = watermark /\ wait'.cursor = watermark
  BY <1>4
<1>7. \A i \in 1 .. received : stream[i].seq \in Nat
  <2>1. received \in 0 .. Len(stream) /\ Len(stream) \in Nat
    BY DEF InboxInv, JournalIsTheEnd, ServiceInv, ServiceTyped
  <2>2. lastSeq \in Nat /\ \A i \in 1 .. Len(stream) : stream[i].seq \in 1 .. lastSeq
    BY DEF ServiceInv, ServiceTyped, NumbersUsedOnce
  <2> QED
    BY <2>1, <2>2
<1>8. Covered(watermark, watermark)
  BY <1>3, <1>7 DEF Covered
<1> QED
  BY <1>1, <1>5, <1>6, <1>8, WaitsCovered

LEMMA MarkWakeExpireKeepWait ==
  ASSUME WaitInv, MarkSeen \/ Wake \/ Expire
  PROVE  WaitInv'
<1>1. /\ UNCHANGED Scene /\ generation' = generation /\ generation \in Nat
  BY DEF MarkSeen, Wake, Expire, Scene, WaitInv, WaitTyped
<1>2. CASE wait \in Waiting
  <2>1. /\ wait' \in Waiting /\ wait'.base = wait.base
        /\ wait'.filter = wait.filter /\ wait'.cursor = wait.cursor
    <3>1. CASE MarkSeen
      BY <1>1, <1>2, <3>1 DEF MarkSeen, Waiting
    <3>2. CASE Wake
      BY <1>2, <3>2 DEF Wake, Waiting
    <3>3. CASE Expire
      BY <1>2, <3>3 DEF Expire, Waiting
    <3> QED
      BY <3>1, <3>2, <3>3
  <2>2. Careful => Covered(wait.base, wait.filter) /\ Covered(wait.base, wait.cursor)
    BY <1>2 DEF WaitInv, WaitCovered
  <2> QED
    BY <1>1, <2>1, <2>2, WaitsCovered
<1>3. CASE wait \notin Waiting
  <2>1. wait.pc # "idle" => wait \in [pc : {"filter"}, expired : BOOLEAN, seen : Nat]
    BY <1>3 DEF WaitInv, WaitTyped, Asleep
  <2>2. Expire
    BY <2>1 DEF MarkSeen, Wake
  <2>3. /\ wait \in [pc : {"filter"}, expired : BOOLEAN, seen : Nat]
        /\ wait' = [wait EXCEPT !.expired = TRUE]
    BY <2>1, <2>2 DEF Expire
  <2>4. wait' \in [pc : {"filter"}, expired : BOOLEAN, seen : Nat]
    BY <2>3
  <2>5. wait' \notin Asleep /\ wait' \notin Waiting
    BY <2>4 DEF Asleep, Waiting
  <2>6. WaitTyped'
    BY <1>1, <2>4 DEF WaitTyped
  <2>7. WaitCovered'
    BY <2>5 DEF WaitCovered, Asleep, Waiting
  <2> QED
    BY <2>6, <2>7 DEF WaitInv
<1> QED
  BY <1>2, <1>3

LEMMA DecideKeepsWait ==
  ASSUME WaitInv, Decide
  PROVE  WaitInv'
<1>1. /\ wait.pc = "decide" /\ UNCHANGED Scene /\ generation' = generation
      /\ generation \in Nat
  BY DEF Decide, Scene, WaitInv, WaitTyped
<1>2. wait \in Waiting
  BY <1>1 DEF WaitInv, WaitTyped, Asleep
<1>3. Careful => Covered(wait.base, wait.filter) /\ Covered(wait.base, wait.cursor)
  BY <1>2 DEF WaitInv, WaitCovered
<1>4. CASE wait.expired
  <2>1. wait' = [pc |-> "idle", cursor |-> wait.cursor, base |-> wait.base, started |-> TRUE]
    BY <1>4 DEF Decide, Resolved
  <2>2. wait' \in Asleep /\ wait'.base = wait.base /\ wait'.cursor = wait.cursor
    BY <1>2, <2>1 DEF Asleep, Waiting
  <2> QED
    BY <1>1, <1>3, <2>2, SleepsCovered
<1>5. CASE ~wait.expired
  <2>1. wait' = [wait EXCEPT !.pc = "parked", !.cursor = wait.filter, !.seen = wait.seen]
    BY <1>5 DEF Decide, SeenAtPark
  <2>2. /\ wait' \in Waiting /\ wait'.base = wait.base
        /\ wait'.filter = wait.filter /\ wait'.cursor = wait.filter
    BY <1>2, <2>1 DEF Waiting
  <2> QED
    BY <1>1, <1>3, <2>2, WaitsCovered
<1> QED
  BY <1>4, <1>5

LEMMA CollectKeepsWait ==
  ASSUME ServiceInv, InboxInv, WaitInv, Collect
  PROVE  WaitInv'
<1> DEFINE chosen == Batch(Matching(wait.filter))
           given == {journal[i].seq : i \in chosen}
<1>1. /\ wait.pc = "collect" /\ generation' = generation /\ generation \in Nat
      /\ UNCHANGED << stream, received, watermark, kinds >>
  BY DEF Collect, inbox, WaitInv, WaitTyped
<1>2. wait \in Waiting
  BY <1>1 DEF WaitInv, WaitTyped, Asleep
<1>3. wait.base \in Nat /\ wait.filter \in Nat /\ watermark \in Nat
  BY <1>2 DEF Waiting, InboxInv, WatermarkIsHighest
<1>4. PICK b \in Nat, f \in Nat : b = wait.base /\ f = wait.filter
  BY <1>3
<1>5. Careful => Covered(b, f)
  BY <1>2, <1>4 DEF WaitInv, WaitCovered
<1>6. Careful =>
        /\ NextCursor(chosen) \in Nat /\ NextCursor(chosen) <= watermark
        /\ \A i \in 1 .. received :
             Matches(stream[i]) /\ b < stream[i].seq /\ stream[i].seq <= NextCursor(chosen) =>
               \/ stream[i].seq \in delivered \cup given
               \/ Late(i) \/ Evicted(i)
  <2> SUFFICES ASSUME Careful
               PROVE  /\ NextCursor(chosen) \in Nat /\ NextCursor(chosen) <= watermark
                      /\ \A i \in 1 .. received :
                           Matches(stream[i]) /\ b < stream[i].seq
                             /\ stream[i].seq <= NextCursor(chosen) =>
                               \/ stream[i].seq \in delivered \cup given
                               \/ Late(i) \/ Evicted(i)
    OBVIOUS
  <2>1. Covered(b, f) /\ chosen = Batch(Matching(f))
    BY <1>4, <1>5
  <2> HIDE DEF chosen
  <2> QED
    BY <2>1, CollectCovers
<1>7. ~Careful => NextCursor(chosen) = watermark
  BY DEF NextCursor, ResumePoint
<1>8. NextCursor(chosen) \in Nat
  BY <1>3, <1>6, <1>7
<1>9. CASE chosen # {}
  <2>1. /\ wait' = [pc |-> "idle", cursor |-> NextCursor(chosen), base |-> wait.base,
                    started |-> TRUE]
        /\ delivered' = delivered \cup given
    BY <1>9 DEF Collect, Resolved, NextCursor
  <2>2. wait' \in Asleep /\ wait'.base = b /\ wait'.cursor = NextCursor(chosen)
    BY <1>4, <1>8, <2>1 DEF Asleep
  <2> HIDE DEF chosen, given
  <2>3. Careful => Covered(wait.base, wait.cursor)'
    BY <1>1, <1>6, <2>1, <2>2 DEF Covered, Late, Evicted, Matches
  <2>4. wait' \notin Waiting
    BY <2>2 DEF Asleep, Waiting
  <2>5. WaitTyped'
    BY <1>1, <2>2 DEF WaitTyped, Asleep
  <2> QED
    BY <2>3, <2>4, <2>5 DEF WaitInv, WaitCovered, Waiting
<1>10. CASE chosen = {}
  <2>1. /\ wait' = [wait EXCEPT !.pc = "decide", !.cursor = watermark]
        /\ delivered' = delivered
    BY <1>10 DEF Collect
  <2>2. /\ wait' \in Waiting /\ wait'.base = b /\ wait'.filter = f
        /\ wait'.cursor = NextCursor(chosen)
    BY <1>2, <1>3, <1>4, <1>10, <2>1 DEF Waiting, NextCursor
  <2>3. given = {}
    BY <1>10
  <2> HIDE DEF chosen, given
  <2>4. Careful => Covered(wait.base, wait.cursor)'
    BY <1>1, <1>6, <2>1, <2>2, <2>3 DEF Covered, Late, Evicted, Matches
  <2>5. Careful => Covered(wait.base, wait.filter)'
    BY <1>1, <1>5, <2>1, <2>2 DEF Covered, Late, Evicted, Matches
  <2>6. wait' \notin Asleep
    BY <2>2 DEF Asleep, Waiting
  <2>7. WaitTyped'
    BY <1>1, <2>2 DEF WaitTyped, Waiting
  <2> QED
    BY <2>4, <2>5, <2>6, <2>7 DEF WaitInv, WaitCovered, Asleep
<1> QED
  BY <1>9, <1>10

-----------------------------------------------------------------------------
(* The steps together.                                                     *)

LEMMA InboxInitInv ==
  ASSUME InboxInit
  PROVE  InboxIInv
<1>1. /\ lastSeq = 0 /\ store = NoEntries /\ nextId = 1
      /\ request = [c \in Clients |-> Ready]
      /\ stream = << >> /\ received = 0 /\ journal = << >> /\ watermark = 0
      /\ generation = 0 /\ wait = [pc |-> "idle", cursor |-> 0, started |-> FALSE]
  BY DEF InboxInit
<1>2. stream \in Seq(Events) /\ journal \in Seq(Events) /\ Len(stream) = 0 /\ Len(journal) = 0
  BY <1>1
<1>3. DOMAIN store = {}
  BY <1>1 DEF NoEntries
<1>4. \A c \in Clients : request[c].pc = "idle"
  BY <1>1 DEF Ready
<1>5. ServiceTyped
  BY <1>1, <1>2, <1>3 DEF ServiceTyped
<1>6. Holders = {} /\ Broadcasted = {} /\ InFlight = {}
  BY <1>2, <1>4 DEF Holders, Broadcasted, InFlight
<1>7. NumbersUsedOnce
  BY <1>2, <1>6 DEF NumbersUsedOnce
<1>8. StoreRecorded
  BY <1>3, <1>6 DEF StoreRecorded, Recorded
<1>9. InboxInv
  BY <1>1, <1>2, InboxAssumption
     DEF InboxInv, JournalIsTheEnd, WatermarkIsHighest, InboxAssumption, Oldest
<1>10. wait \in [pc : {"idle"}, cursor : {0}, started : {FALSE}]
  BY <1>1
<1>11. WaitTyped
  BY <1>1, <1>10 DEF WaitTyped
<1>12. wait \notin Asleep /\ wait \notin Waiting
  BY <1>1 DEF Asleep, Waiting
<1>13. WaitCovered
  BY <1>12 DEF WaitCovered
<1> QED
  BY <1>5, <1>7, <1>8, <1>9, <1>11, <1>13 DEF InboxIInv, ServiceInv

LEMMA ServiceStepKeepsInv ==
  ASSUME InboxIInv, StreamGrows, ServiceInv',
         UNCHANGED << received, inbox, generation, agent >>
  PROVE  InboxIInv'
<1>1. InboxInv'
  BY GrowthKeepsInbox DEF InboxIInv
<1>2. CoverageKept
  BY GrowthKeepsCoverage DEF InboxIInv
<1>3. generation' \in Nat /\ wait' = wait /\ WaitInv
  BY DEF InboxIInv, WaitTyped, WaitInv, agent
<1>4. WaitInv'
  BY <1>2, <1>3, SleepKeepsWait
<1> QED
  BY <1>1, <1>4 DEF InboxIInv, WaitInv

LEMMA AgentStepKeepsInv ==
  ASSUME InboxIInv, WaitInv', UNCHANGED << service, stream, received, inbox >>
  PROVE  InboxIInv'
<1>1. ServiceInv'
  BY IdleKeepsService DEF InboxIInv
<1>2. StreamGrows
  BY DEF StreamGrows, InboxIInv, ServiceInv, ServiceTyped
<1>3. InboxInv'
  BY <1>1, <1>2, GrowthKeepsInbox DEF InboxIInv
<1> QED
  BY <1>1, <1>3 DEF InboxIInv, WaitInv

LEMMA InboxNextInv ==
  ASSUME InboxIInv, [InboxNext]_ivars
  PROVE  InboxIInv'
<1>0. ServiceInv /\ InboxInv /\ WaitInv /\ Len(stream) \in Nat /\ stream \in Seq(Events)
  BY DEF InboxIInv, WaitInv, ServiceInv, ServiceTyped
<1>1. CASE WindowEvent
  <2>1. ServiceInv'
    BY <1>0, <1>1, WindowEventKeepsService
  <2>2. UNCHANGED << received, inbox, generation, agent >>
    BY <1>1 DEF WindowEvent
  <2>3. stream' \in Seq(Events) /\ \E e : stream' = Append(stream, e)
    BY <1>1, <2>1 DEF WindowEvent, ServiceInv, ServiceTyped
  <2>4. StreamGrows
    BY <1>0, <2>3 DEF StreamGrows
  <2> QED
    BY <2>1, <2>2, <2>4, ServiceStepKeepsInv
<1>2. ASSUME NEW c \in Clients, ReserveSeq(c) \/ CallStore(c)
      PROVE  InboxIInv'
  <2>1. ServiceInv'
    BY <1>0, <1>2, ReserveKeepsService, CallStoreKeepsService
  <2>2. UNCHANGED << received, inbox, generation, agent, stream >>
    BY <1>2 DEF ReserveSeq, CallStore
  <2>3. StreamGrows
    BY <1>0, <2>2 DEF StreamGrows
  <2> QED
    BY <2>1, <2>2, <2>3, ServiceStepKeepsInv
<1>3. ASSUME NEW c \in Clients, PublishEvent(c)
      PROVE  InboxIInv'
  <2>1. ServiceInv'
    BY <1>0, <1>3, PublishKeepsService
  <2>2. UNCHANGED << received, inbox, generation, agent >>
    BY <1>3 DEF PublishEvent
  <2>3. stream' \in Seq(Events) /\ \E e : stream' = Append(stream, e)
    BY <1>3, <2>1 DEF PublishEvent, ServiceInv, ServiceTyped
  <2>4. StreamGrows
    BY <1>0, <2>3 DEF StreamGrows
  <2> QED
    BY <2>1, <2>2, <2>4, ServiceStepKeepsInv
<1>4. CASE PumpRecord
  <2>1. ServiceInv'
    BY <1>0, <1>4, IdleKeepsService DEF PumpRecord
  <2>2. InboxInv'
    BY <1>0, <1>4, PumpKeepsInbox
  <2>3. CoverageKept
    BY <1>0, <1>4, PumpKeepsCoverage
  <2>4. generation' \in Nat /\ wait' = wait
    BY <1>0, <1>4 DEF PumpRecord, WaitInv, WaitTyped, agent
  <2>5. WaitInv'
    BY <1>0, <2>3, <2>4, SleepKeepsWait
  <2> QED
    BY <2>1, <2>2, <2>5 DEF InboxIInv, WaitInv
<1>5. CASE PumpBump
  <2>1. /\ UNCHANGED << service, stream, received, inbox, agent >>
        /\ generation' = generation + 1
    BY <1>5 DEF PumpBump
  <2>2. StreamGrows
    BY <1>0, <2>1 DEF StreamGrows
  <2>3. CoverageKept
    BY <1>0, <2>1, <2>2, GrowthKeepsCoverage
  <2>4. generation' \in Nat /\ wait' = wait
    BY <1>0, <2>1 DEF WaitInv, WaitTyped, agent
  <2>5. WaitInv'
    BY <1>0, <2>3, <2>4, SleepKeepsWait
  <2> QED
    BY <2>1, <2>5, AgentStepKeepsInv
<1>6. CASE BeginWait \/ Expire \/ AgentStep
  <2>1. WaitInv'
    BY <1>0, <1>6, BeginWaitKeepsWait, ReadFilterKeepsWait, MarkWakeExpireKeepWait,
       DecideKeepsWait, CollectKeepsWait DEF AgentStep
  <2>2. UNCHANGED << service, stream, received, inbox >>
    BY <1>6 DEF BeginWait, Expire, AgentStep, ReadFilter, MarkSeen, Collect, Decide, Wake
  <2> QED
    BY <2>1, <2>2, AgentStepKeepsInv
<1>7. CASE UNCHANGED ivars
  <2>1. UNCHANGED << service, stream, received, inbox, generation, agent >>
    BY <1>7 DEF ivars
  <2>2. ServiceInv' /\ StreamGrows
    BY <1>0, <2>1, IdleKeepsService DEF StreamGrows
  <2> QED
    BY <2>1, <2>2, ServiceStepKeepsInv
<1> QED
  BY <1>1, <1>2, <1>3, <1>4, <1>5, <1>6, <1>7 DEF InboxNext

(***************************************************************************)
(* Every reachable state of store, stream, inbox and agent satisfies the   *)
(* inductive invariant.                                                    *)
(***************************************************************************)
THEOREM InboxInvariant == InboxSpec => []InboxIInv
<1>1. InboxInit => InboxIInv
  BY InboxInitInv
<1>2. InboxIInv /\ [InboxNext]_ivars => InboxIInv'
  BY InboxNextInv
<1> QED
  BY <1>1, <1>2, PTL DEF InboxSpec

(***************************************************************************)
(* "The store's lasting state and the stream cannot disagree", with any    *)
(* number of concurrent requests on any notifications: no number is        *)
(* broadcast twice, and each notification has one event of its posting and *)
(* one of its closing at most, which say what the store says.              *)
(***************************************************************************)
THEOREM StoreAndStreamAlwaysAgree == InboxSpec => []StoreAndStreamAgree
<1>1. InboxIInv => StoreAndStreamAgree
  BY ServiceInvAgrees DEF InboxIInv
<1> QED
  BY <1>1, InboxInvariant, PTL

(***************************************************************************)
(* An agent that resumes a full chosen from its last event, and any other   *)
(* from the watermark it was given, misses only events that were broadcast *)
(* after a higher number or that the journal evicted, for every capacity,  *)
(* every chosen limit and every moment at which its waits end.              *)
(***************************************************************************)
THEOREM CarefulAgentMissesOnlyLateOrEvicted ==
  ASSUME Careful
  PROVE  InboxSpec => []MissesOnlyLateOrEvicted
<1>1. InboxIInv => MissesOnlyLateOrEvicted
  <2> SUFFICES ASSUME InboxIInv, wait.pc \in {"idle", "parked"},
                      NEW i \in 1 .. received, Missed(i)
               PROVE  (\E j \in 1 .. i - 1 : stream[j].seq > stream[i].seq)
                        \/ i <= received - InboxCap
    BY DEF MissesOnlyLateOrEvicted
  <2>1. wait.started
    BY DEF Missed
  <2>2. wait \in Asleep \/ wait \in Waiting
    BY <2>1 DEF InboxIInv, WaitTyped
  <2>3. Covered(wait.base, wait.cursor)
    BY <2>2 DEF InboxIInv, WaitCovered
  <2> QED
    BY <2>3 DEF Covered, Missed, Late, Evicted
<1> QED
  BY <1>1, InboxInvariant, PTL
=============================================================================
