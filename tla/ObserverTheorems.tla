-------------------------- MODULE ObserverTheorems --------------------------
(***************************************************************************)
(* What the operators of Observer do to the state behind the mutex of      *)
(* adesk-observer, for any state of the right shape: the facts the proofs  *)
(* about the waits and about the event pipeline share.                     *)
(***************************************************************************)
EXTENDS Observer, MapsTheorems, SequenceTheorems

-----------------------------------------------------------------------------
(* The journal.                                                            *)

\* What is retained of a list is its end.
LEMMA RetainedProperties ==
  ASSUME NEW S, NEW s \in Seq(S)
  PROVE  Retained(s) \in Seq(S) /\ Elems(Retained(s)) \subseteq Elems(s)
<1> DEFINE first == Later(0, Len(s) - JournalCap) + 1
<1>1. Len(s) \in Nat /\ first \in Nat \ {0}
  BY ObserverAssumption DEF Later
<1>2. \A i \in first .. Len(s) : i \in 1 .. Len(s) /\ s[i] \in S
  BY <1>1
<1>3. /\ Retained(s) \in Seq(S)
      /\ Len(Retained(s)) = IF first <= Len(s) THEN Len(s) - first + 1 ELSE 0
      /\ \A i \in 1 .. Len(s) - first + 1 : Retained(s)[i] = s[first + i - 1]
  <2> HIDE DEF first
  <2>1. Retained(s) = SubSeq(s, first, Len(s))
    BY DEF Retained, first
  <2> QED
    BY <1>1, <1>2, <2>1, SubSeqProperties
<1>4. ASSUME NEW i \in 1 .. Len(Retained(s))
      PROVE  Retained(s)[i] \in Elems(s)
  <2> HIDE DEF first
  <2>1. first <= Len(s) /\ first + i - 1 \in 1 .. Len(s)
    BY <1>1, <1>3
  <2>2. Retained(s)[i] = s[first + i - 1]
    BY <1>1, <1>3, <2>1
  <2> QED
    BY <2>1, <2>2 DEF Elems
<1> QED
  BY <1>3, <1>4 DEF Elems

\* prune_through drops entries at the front.
LEMMA PrunedProperties ==
  ASSUME NEW S, NEW s \in Seq(S), NEW mark
  PROVE  Pruned(s, mark) \in Seq(S) /\ Elems(Pruned(s, mark)) \subseteq Elems(s)
<1> DEFINE old == {i \in 1 .. Len(s) : \A j \in 1 .. i : s[j].seq <= mark}
           first == Cardinality(old) + 1
<1>1. Len(s) \in Nat
  OBVIOUS
<1>2. IsFiniteSet(old)
  <2>1. IsFiniteSet(1 .. Len(s)) /\ old \in SUBSET (1 .. Len(s))
    BY <1>1, FS_Interval
  <2> HIDE DEF old
  <2> QED
    BY <2>1, FS_Subset
<1>3. first \in Nat \ {0}
  BY <1>2, FS_CardinalityType
<1> HIDE DEF old
<1>4. \A i \in first .. Len(s) : i \in 1 .. Len(s) /\ s[i] \in S
  BY <1>1, <1>3
<1>5. /\ Pruned(s, mark) \in Seq(S)
      /\ Len(Pruned(s, mark)) = IF first <= Len(s) THEN Len(s) - first + 1 ELSE 0
      /\ \A i \in 1 .. Len(s) - first + 1 : Pruned(s, mark)[i] = s[first + i - 1]
  <2> HIDE DEF first
  <2>1. Pruned(s, mark) = SubSeq(s, first, Len(s))
    BY DEF Pruned, first, old
  <2> QED
    BY <1>1, <1>3, <1>4, <2>1, SubSeqProperties
<1>6. ASSUME NEW i \in 1 .. Len(Pruned(s, mark))
      PROVE  Pruned(s, mark)[i] \in Elems(s)
  <2> HIDE DEF first
  <2>1. first <= Len(s) /\ first + i - 1 \in 1 .. Len(s)
    BY <1>1, <1>3, <1>5
  <2>2. Pruned(s, mark)[i] = s[first + i - 1]
    BY <1>1, <1>3, <1>5, <2>1
  <2> QED
    BY <2>1, <2>2 DEF Elems
<1> QED
  BY <1>5, <1>6 DEF Elems

(***************************************************************************)
(* Entries with distinct windows are listed in window order: the number of *)
(* entries below one is an injection, hence a bijection, into 0 .. n - 1.  *)
(***************************************************************************)
LEMMA InWindowOrderProperties ==
  ASSUME NEW E, IsFiniteSet(E), \A e \in E : e.window \in Nat,
         \A d, e \in E : d.window = e.window => d = e
  PROVE  /\ InWindowOrder(E) \in Seq(E)
         /\ Elems(InWindowOrder(E)) \subseteq E
<1> DEFINE below(e) == {d \in E : d.window < e.window}
<1>1. PICK n \in Nat : n = Cardinality(E)
  BY FS_CardinalityType
<1>2. PICK count : count = [e \in E |-> Cardinality(below(e))]
  OBVIOUS
<1>3. ASSUME NEW e \in E
      PROVE  IsFiniteSet(below(e)) /\ Cardinality(below(e)) \in 0 .. n - 1
  <2>1. IsFiniteSet(E \ {e}) /\ Cardinality(E \ {e}) = n - 1
    BY <1>1, FS_RemoveElement
  <2>2. below(e) \in SUBSET (E \ {e})
    OBVIOUS
  <2>3. IsFiniteSet(below(e)) /\ Cardinality(below(e)) <= n - 1
    BY <2>1, <2>2, FS_Subset
  <2>4. Cardinality(below(e)) \in Nat
    BY <2>3, FS_CardinalityType
  <2> QED
    BY <1>1, <2>3, <2>4
<1>4. count \in [E -> 0 .. n - 1]
  <2>1. \A e \in E : Cardinality(below(e)) \in 0 .. n - 1
    BY <1>3
  <2> HIDE DEF below
  <2> QED
    BY <1>2, <2>1
<1>5. ASSUME NEW d \in E, NEW e \in E, d.window < e.window
      PROVE  count[d] < count[e]
  <2>1. below(d) \in SUBSET below(e) /\ d \in below(e) /\ d \notin below(d)
    BY <1>5
  <2>2. IsFiniteSet(below(e))
    BY <1>3
  <2>3. count[d] = Cardinality(below(d)) /\ count[e] = Cardinality(below(e))
    BY <1>2
  <2> HIDE DEF below
  <2>4. count[d] <= count[e] /\ count[e] # count[d]
    BY <2>1, <2>2, <2>3, FS_Subset
  <2>5. count[d] \in Int /\ count[e] \in Int
    BY <1>4
  <2> QED
    BY <2>4, <2>5
<1> DEFINE rank == [e \in E |-> count[e] + 1]
<1>6. rank \in Injection(E, 1 .. n)
  <2>1. rank \in [E -> 1 .. n]
    BY <1>4
  <2>2. ASSUME NEW d \in E, NEW e \in E, rank[d] = rank[e]
        PROVE  d = e
    <3>1. count[d] \in Int /\ count[e] \in Int
      BY <1>4
    <3>2. count[d] = count[e]
      BY <2>2, <3>1
    <3>3. ~ (d.window < e.window) /\ ~ (e.window < d.window)
      BY <1>5, <3>1, <3>2
    <3> QED
      BY <3>3
  <2> QED
    BY <2>1, <2>2 DEF Injection, IsInjective
<1>7. rank \in Surjection(E, 1 .. n)
  <2>1. IsFiniteSet(1 .. n) /\ Cardinality(1 .. n) = n
    BY FS_Interval
  <2> HIDE DEF rank
  <2> QED
    BY <1>1, <1>6, <2>1, FS_Injection
<1>8. ASSUME NEW i \in 1 .. n
      PROVE  InWindowOrder(E)[i] \in E
  <2>1. PICK e \in E : rank[e] = i
    BY <1>7 DEF Surjection
  <2>2. count[e] = i - 1
    BY <1>4, <2>1
  <2>3. Cardinality({d \in E : d.window < e.window}) = i - 1
    BY <1>2, <2>2
  <2>4. InWindowOrder(E)[i] =
          CHOOSE x \in E : Cardinality({d \in E : d.window < x.window}) = i - 1
    BY <1>1 DEF InWindowOrder
  <2> QED
    BY <2>3, <2>4
<1>9. InWindowOrder(E) \in [1 .. n -> E]
  <2> DEFINE at(i) == CHOOSE e \in E : Cardinality({d \in E : d.window < e.window}) = i - 1
  <2>1. InWindowOrder(E) = [i \in 1 .. n |-> at(i)]
    BY <1>1 DEF InWindowOrder
  <2> HIDE DEF at
  <2>2. \A i \in 1 .. n : at(i) \in E
    BY <1>8, <2>1
  <2> QED
    BY <2>1, <2>2
<1>10. InWindowOrder(E) \in Seq(E) /\ Len(InWindowOrder(E)) = n
  BY <1>9
<1> QED
  BY <1>8, <1>10 DEF Elems

-----------------------------------------------------------------------------
(* The windows, and the whole state.                                       *)

EventKinds == {"created", "destroyed", "commit", "notice"}

Entries == [seq : Nat, kind : EventKinds, window : Nat, n : Nat, at : Nat]

WindowsTyped(windows) ==
  /\ DOMAIN windows \subseteq Nat /\ IsFiniteSet(DOMAIN windows)
  /\ \A w \in DOMAIN windows :
       DOMAIN windows[w] = {"commits", "uncertain", "waiting"} /\ windows[w].commits \in Nat

JournalTyped(journal, mark) ==
  journal \in Seq(Entries) /\ \A e \in Elems(journal) : e.seq <= mark

ObserverTyped(o) ==
  /\ DOMAIN o = {"windows", "watermark", "journal", "pending"}
  /\ o.watermark \in Nat
  /\ WindowsTyped(o.windows)
  /\ JournalTyped(o.journal, o.watermark)

\* The commit counter of w as the observer would report it.
Known(windows, w) == IF w \in DOMAIN windows THEN windows[w].commits ELSE 0

\* What refresh_pending_observation shows for w.
Shown(pending, w) ==
  IF w \in DOMAIN pending THEN Earliest(DOMAIN pending[w]) ELSE NoWait

\* An entry pushed into a journal, at or above its mark.
LEMMA PushEntryProperties ==
  ASSUME NEW journal, NEW mark \in Nat, JournalTyped(journal, mark),
         NEW entry \in Entries, NEW top \in Nat, mark <= top, entry.seq <= top
  PROVE  JournalTyped(PushEntry(journal, entry), top)
<1> DEFINE grown == Append(journal, entry)
<1>1. journal \in Seq(Entries) /\ \A e \in Elems(journal) : e.seq \in Nat /\ e.seq <= top
  <2>1. journal \in Seq(Entries) /\ \A e \in Elems(journal) : e.seq <= mark
    BY DEF JournalTyped
  <2>2. \A e \in Elems(journal) : e \in Entries
    BY <2>1 DEF Elems
  <2> QED
    BY <2>1, <2>2 DEF Entries
<1>2. grown \in Seq(Entries) /\ Elems(grown) = Elems(journal) \cup {entry}
  <2>1. /\ grown \in Seq(Entries) /\ Len(grown) = Len(journal) + 1
        /\ \A i \in 1 .. Len(journal) : grown[i] = journal[i]
        /\ grown[Len(journal) + 1] = entry
    BY <1>1, AppendProperties
  <2>2. Len(journal) \in Nat
    BY <1>1
  <2> HIDE DEF grown
  <2> QED
    BY <2>1, <2>2 DEF Elems
<1>3. Retained(grown) \in Seq(Entries) /\ Elems(Retained(grown)) \subseteq Elems(grown)
  <2> HIDE DEF grown
  <2> QED
    BY <1>2, RetainedProperties
<1>4. \A e \in Elems(Retained(grown)) : e.seq <= top
  <2> HIDE DEF grown
  <2> QED
    BY <1>1, <1>2, <1>3
<1> QED
  BY <1>3, <1>4 DEF JournalTyped, PushEntry

\* A set of entries with distinct windows, pushed in window order.
LEMMA PushAllProperties ==
  ASSUME NEW journal, NEW mark \in Nat, JournalTyped(journal, mark),
         NEW E \in SUBSET Entries, IsFiniteSet(E), \A e \in E : e.seq <= mark,
         \A d, e \in E : d.window = e.window => d = e
  PROVE  JournalTyped(PushAll(journal, E), mark)
<1>1. InWindowOrder(E) \in Seq(E) /\ Elems(InWindowOrder(E)) \subseteq E
  <2>1. \A e \in E : e.window \in Nat
    BY DEF Entries
  <2> QED
    BY <2>1, InWindowOrderProperties
<1>2. InWindowOrder(E) \in Seq(Entries)
  BY <1>1, SeqMonotonic
<1>3. PICK news \in Seq(Entries) : news = InWindowOrder(E)
  BY <1>2
<1>4. journal \in Seq(Entries) /\ \A e \in Elems(journal) : e.seq <= mark
  BY DEF JournalTyped
<1>5. /\ journal \o news \in Seq(Entries)
      /\ Elems(journal \o news) \subseteq Elems(journal) \cup Elems(news)
  <2>1. /\ journal \o news \in Seq(Entries)
        /\ Len(journal \o news) = Len(journal) + Len(news)
        /\ \A i \in 1 .. Len(journal) + Len(news) : (journal \o news)[i] =
             IF i <= Len(journal) THEN journal[i] ELSE news[i - Len(journal)]
    BY <1>4, ConcatProperties
  <2>2. Len(journal) \in Nat /\ Len(news) \in Nat
    BY <1>4
  <2>3. ASSUME NEW i \in 1 .. Len(journal \o news)
        PROVE  (journal \o news)[i] \in Elems(journal) \cup Elems(news)
    <3>1. CASE i <= Len(journal)
      BY <2>1, <2>2, <3>1 DEF Elems
    <3>2. CASE i > Len(journal)
      <4>1. i - Len(journal) \in 1 .. Len(news)
        BY <2>1, <2>2, <3>2
      <4>2. (journal \o news)[i] = news[i - Len(journal)]
        BY <2>1, <2>2, <3>2
      <4> QED
        BY <4>1, <4>2 DEF Elems
    <3> QED
      BY <2>1, <2>2, <3>1, <3>2
  <2> QED
    BY <2>1, <2>3 DEF Elems
<1>6. /\ Retained(journal \o news) \in Seq(Entries)
      /\ Elems(Retained(journal \o news)) \subseteq Elems(journal \o news)
  BY <1>5, RetainedProperties
<1> QED
  BY <1>1, <1>3, <1>4, <1>5, <1>6 DEF JournalTyped, PushAll

\* refresh_pending_observation touches nothing but what the window shows.
LEMMA RefreshProperties ==
  ASSUME NEW o, ObserverTyped(o), NEW w
  PROVE  /\ ObserverTyped(Refresh(o, w))
         /\ Refresh(o, w).watermark = o.watermark
         /\ Refresh(o, w).journal = o.journal
         /\ Refresh(o, w).pending = o.pending
         /\ DOMAIN Refresh(o, w).windows = DOMAIN o.windows
         /\ \A v \in DOMAIN o.windows :
              /\ Refresh(o, w).windows[v].commits = o.windows[v].commits
              /\ Refresh(o, w).windows[v].waiting =
                   IF v = w THEN Shown(o.pending, w) ELSE o.windows[v].waiting
<1>1. CASE w \notin DOMAIN o.windows
  <2>1. Refresh(o, w) = o
    BY <1>1 DEF Refresh
  <2> QED
    BY <1>1, <2>1
<1>2. CASE w \in DOMAIN o.windows
  <2>1. PICK shown : shown = Shown(o.pending, w)
    OBVIOUS
  <2>2. Refresh(o, w) = [o EXCEPT !.windows[w].waiting = shown]
    BY <1>2, <2>1 DEF Refresh, Shown
  <2>3. PICK p : p = Refresh(o, w)
    OBVIOUS
  <2>4. /\ DOMAIN p = {"windows", "watermark", "journal", "pending"}
        /\ p.watermark = o.watermark /\ p.journal = o.journal /\ p.pending = o.pending
        /\ p.windows = [o.windows EXCEPT ![w].waiting = shown]
    BY <2>2, <2>3 DEF ObserverTyped
  <2>5. /\ DOMAIN p.windows = DOMAIN o.windows
        /\ \A v \in DOMAIN o.windows :
             /\ DOMAIN p.windows[v] = {"commits", "uncertain", "waiting"}
             /\ p.windows[v].commits = o.windows[v].commits
             /\ p.windows[v].waiting = IF v = w THEN shown ELSE o.windows[v].waiting
    BY <1>2, <2>4 DEF ObserverTyped, WindowsTyped
  <2>6. ObserverTyped(p)
    BY <2>4, <2>5 DEF ObserverTyped, WindowsTyped
  <2> QED
    BY <2>1, <2>3, <2>4, <2>5, <2>6
<1> QED
  BY <1>1, <1>2

\* What an event about w does to the windows: who is there, and with which counter.
WindowsMoved(windows, after, kind, w, n) ==
  /\ WindowsTyped(after)
  /\ DOMAIN after = IF kind = "destroyed" THEN DOMAIN windows \ {w} ELSE DOMAIN windows \cup {w}
  /\ \A v \in DOMAIN after \ {w} : after[v] = windows[v]
  /\ \A v \in DOMAIN after :
       after[v].commits = IF v = w /\ kind = "commit" THEN Later(Known(windows, v), n)
                          ELSE Known(windows, v)

LEMMA WindowsAfterProperties ==
  ASSUME NEW windows, WindowsTyped(windows), NEW kind \in EventKinds,
         NEW w \in Nat, NEW n \in Nat, NEW after, after = WindowsAfter(windows, kind, w, n)
  PROVE  WindowsMoved(windows, after, kind, w, n)
<1>1. after = WindowsAfter(windows, kind, w, n)
  OBVIOUS
<1>2. PICK base : base = OnDemand(windows, w)
  OBVIOUS
<1>3. /\ DOMAIN base = DOMAIN windows \cup {w}
      /\ \A v \in DOMAIN windows : base[v] = windows[v]
      /\ \A v \in DOMAIN base :
           /\ DOMAIN base[v] = {"commits", "uncertain", "waiting"}
           /\ base[v].commits = Known(windows, v) /\ Known(windows, v) \in Nat
  BY <1>2 DEF OnDemand, Put, FreshWindow, Known, WindowsTyped
<1>4. IsFiniteSet(DOMAIN windows \cup {w}) /\ IsFiniteSet(DOMAIN windows \ {w})
  BY FS_AddElement, FS_RemoveElement DEF WindowsTyped
<1>5. CASE kind = "destroyed"
  <2>1. after = [v \in DOMAIN windows \ {w} |-> windows[v]]
    BY <1>1, <1>5 DEF WindowsAfter, Drop
  <2> QED
    BY <1>1, <1>4, <1>5, <2>1 DEF WindowsTyped, Known, WindowsMoved
<1>6. CASE kind = "commit"
  <2>1. after = [base EXCEPT ![w].commits = Later(@, n), ![w].uncertain = FALSE]
    BY <1>1, <1>2, <1>6 DEF WindowsAfter
  <2>2. /\ DOMAIN after = DOMAIN windows \cup {w}
        /\ \A v \in DOMAIN after \ {w} : after[v] = windows[v]
        /\ \A v \in DOMAIN after : DOMAIN after[v] = {"commits", "uncertain", "waiting"}
        /\ after[w].commits = Later(Known(windows, w), n)
        /\ \A v \in DOMAIN after \ {w} : after[v].commits = Known(windows, v)
    BY <1>3, <2>1
  <2>3. Later(Known(windows, w), n) \in Nat
    BY <1>3 DEF Later
  <2>4. WindowsTyped(after)
    BY <1>3, <1>4, <2>2, <2>3 DEF WindowsTyped
  <2> QED
    BY <1>1, <1>6, <2>2, <2>4 DEF WindowsMoved
<1>7. CASE kind \in {"created", "notice"}
  <2>1. after = [base EXCEPT ![w].uncertain = FALSE]
    BY <1>1, <1>2, <1>7 DEF WindowsAfter
  <2>2. /\ DOMAIN after = DOMAIN windows \cup {w}
        /\ \A v \in DOMAIN after \ {w} : after[v] = windows[v]
        /\ \A v \in DOMAIN after : /\ DOMAIN after[v] = {"commits", "uncertain", "waiting"}
                                   /\ after[v].commits = Known(windows, v)
    BY <1>3, <2>1
  <2>3. WindowsTyped(after)
    BY <1>3, <1>4, <2>2 DEF WindowsTyped
  <2> QED
    BY <1>1, <1>7, <2>2, <2>3 DEF WindowsMoved
<1> QED
  BY <1>5, <1>6, <1>7 DEF EventKinds

\* The observer before its first event.
LEMMA EmptyObserverTyped == ObserverTyped(EmptyObserver)
<1>1. /\ DOMAIN EmptyObserver = {"windows", "watermark", "journal", "pending"}
      /\ EmptyObserver.watermark = 0 /\ EmptyObserver.windows = NoEntries
      /\ EmptyObserver.journal = << >>
  BY DEF EmptyObserver
<1>2. DOMAIN NoEntries = {}
  BY DEF NoEntries
<1>3. WindowsTyped(NoEntries)
  BY <1>2, FS_EmptySet DEF WindowsTyped
<1>4. JournalTyped(<< >>, 0)
  <2>1. << >> \in Seq(Entries) /\ Elems(<< >>) = {}
    BY DEF Elems
  <2> QED
    BY <2>1 DEF JournalTyped
<1> QED
  BY <1>1, <1>3, <1>4 DEF ObserverTyped

-----------------------------------------------------------------------------
(* The entry points.                                                       *)

\* handle_event: the state p after o handled an event.
Handled(o, p, num, kind, w, n) ==
  /\ ObserverTyped(p)
  /\ p.pending = o.pending
  /\ p.watermark = Later(o.watermark, num)
  /\ DOMAIN p.windows = IF kind = "destroyed" THEN DOMAIN o.windows \ {w}
                        ELSE DOMAIN o.windows \cup {w}
  /\ \A v \in DOMAIN p.windows :
       /\ p.windows[v].commits = IF v = w /\ kind = "commit" THEN Later(Known(o.windows, v), n)
                                 ELSE Known(o.windows, v)
       /\ p.windows[v].waiting = IF v = w THEN Shown(o.pending, v) ELSE o.windows[v].waiting

LEMMA HandleEventProperties ==
  ASSUME NEW o, ObserverTyped(o), NEW num \in Nat, NEW kind \in EventKinds,
         NEW w \in Nat, NEW n \in Nat, NEW at \in Nat
  PROVE  Handled(o, HandleEvent(o, num, kind, w, n, at), num, kind, w, n)
<1>1. PICK after : after = WindowsAfter(o.windows, kind, w, n)
  OBVIOUS
<1>2. PICK journal : journal = PushEntry(o.journal, Entry(num, kind, w, n, at))
  OBVIOUS
<1>3. PICK mark : mark = Later(o.watermark, num)
  OBVIOUS
<1>4. PICK q : q = [o EXCEPT !.watermark = mark, !.windows = after, !.journal = journal]
  OBVIOUS
<1>5. HandleEvent(o, num, kind, w, n, at) = Refresh(q, w)
  BY <1>1, <1>2, <1>3, <1>4 DEF HandleEvent
<1>6. /\ DOMAIN o = {"windows", "watermark", "journal", "pending"} /\ o.watermark \in Nat
      /\ WindowsTyped(o.windows) /\ JournalTyped(o.journal, o.watermark)
  BY DEF ObserverTyped
<1>7. /\ DOMAIN q = {"windows", "watermark", "journal", "pending"}
      /\ q.windows = after /\ q.watermark = mark /\ q.journal = journal
      /\ q.pending = o.pending
  BY <1>4, <1>6
<1>8. WindowsMoved(o.windows, after, kind, w, n)
  BY <1>1, <1>6, WindowsAfterProperties
<1>9. mark \in Nat /\ o.watermark <= mark /\ num <= mark
  BY <1>3, <1>6 DEF Later
<1>10. JournalTyped(journal, mark)
  <2>1. Entry(num, kind, w, n, at) \in Entries /\ Entry(num, kind, w, n, at).seq = num
    BY DEF Entry, Entries
  <2> QED
    BY <1>2, <1>6, <1>9, <2>1, PushEntryProperties
<1>11. ObserverTyped(q)
  BY <1>7, <1>8, <1>9, <1>10 DEF ObserverTyped, WindowsMoved
<1>12. PICK p : p = Refresh(q, w)
  OBVIOUS
<1>13. /\ ObserverTyped(p) /\ p.watermark = mark /\ p.pending = o.pending
       /\ DOMAIN p.windows = DOMAIN after
       /\ \A v \in DOMAIN after :
            /\ p.windows[v].commits = after[v].commits
            /\ p.windows[v].waiting = IF v = w THEN Shown(o.pending, w) ELSE after[v].waiting
  BY <1>7, <1>11, <1>12, RefreshProperties
<1>14. \A v \in DOMAIN p.windows :
         /\ p.windows[v].commits = IF v = w /\ kind = "commit" THEN Later(Known(o.windows, v), n)
                                   ELSE Known(o.windows, v)
         /\ p.windows[v].waiting = IF v = w THEN Shown(o.pending, v) ELSE o.windows[v].waiting
  BY <1>8, <1>13 DEF WindowsMoved
<1>15. DOMAIN p.windows = IF kind = "destroyed" THEN DOMAIN o.windows \ {w}
                          ELSE DOMAIN o.windows \cup {w}
  BY <1>8, <1>13 DEF WindowsMoved
<1> QED
  BY <1>3, <1>5, <1>12, <1>13, <1>14, <1>15 DEF Handled

\* The snapshots QueryState may answer.
SnapshotTyped(snap) ==
  /\ snap.seq \in Nat
  /\ DOMAIN snap.windows \subseteq Nat /\ IsFiniteSet(DOMAIN snap.windows)
  /\ \A w \in DOMAIN snap.windows : snap.windows[w] \in Nat

\* The synthetic entries are stamped with the snapshot's number.
LEMMA SyntheticProperties ==
  ASSUME NEW o, WindowsTyped(o.windows), NEW snap, SnapshotTyped(snap), NEW at \in Nat,
         NEW i \in {1, 2}
  PROVE  LET E == Synthetic(o, snap, at)[i]
         IN  /\ E \subseteq Entries /\ IsFiniteSet(E)
             /\ \A e \in E : e.seq = snap.seq
             /\ \A d, e \in E : d.window = e.window => d = e
<1>1. PICK S, K : S = DOMAIN snap.windows /\ K = DOMAIN o.windows
  OBVIOUS
<1> DEFINE V == {w \in S \cap K : snap.windows[w] > o.windows[w].commits}
           added    == {Entry(snap.seq, "created", w, 0, at) : w \in S \ K}
           advanced == {Entry(snap.seq, "commit", w, snap.windows[w], at) : w \in V}
           gone     == {Entry(snap.seq, "destroyed", w, 0, at) : w \in K \ S}
<1>2. /\ Synthetic(o, snap, at)[1] = added \cup advanced
      /\ Synthetic(o, snap, at)[2] = gone
  BY <1>1 DEF Synthetic
<1>3. /\ S \subseteq Nat /\ K \subseteq Nat /\ IsFiniteSet(S) /\ IsFiniteSet(K)
      /\ \A w \in S : snap.windows[w] \in Nat
      /\ snap.seq \in Nat
  BY <1>1 DEF SnapshotTyped, WindowsTyped
<1>4. IsFiniteSet(S \ K) /\ IsFiniteSet(V) /\ IsFiniteSet(K \ S)
  BY <1>3, FS_Subset
<1>5. ASSUME NEW T, IsFiniteSet(T), NEW f, NEW U, U = {f[w] : w \in T}, DOMAIN f = T, f = [w \in T |-> f[w]]
      PROVE  IsFiniteSet(U)
  <2>1. f \in Surjection(T, U)
    BY <1>5 DEF Surjection
  <2> QED
    BY <1>5, <2>1, FS_Surjection
<1>6. IsFiniteSet(added)
  <2> DEFINE f == [w \in S \ K |-> Entry(snap.seq, "created", w, 0, at)]
  <2>1. added = {f[w] : w \in S \ K} /\ DOMAIN f = S \ K /\ f = [w \in S \ K |-> f[w]]
    OBVIOUS
  <2> HIDE DEF f, added
  <2> QED
    BY <1>4, <1>5, <2>1
<1>7. IsFiniteSet(advanced)
  <2> DEFINE f == [w \in V |-> Entry(snap.seq, "commit", w, snap.windows[w], at)]
  <2> HIDE DEF V
  <2>1. advanced = {f[w] : w \in V} /\ DOMAIN f = V /\ f = [w \in V |-> f[w]]
    OBVIOUS
  <2> HIDE DEF f, advanced
  <2> QED
    BY <1>4, <1>5, <2>1
<1>8. IsFiniteSet(gone)
  <2> DEFINE f == [w \in K \ S |-> Entry(snap.seq, "destroyed", w, 0, at)]
  <2>1. gone = {f[w] : w \in K \ S} /\ DOMAIN f = K \ S /\ f = [w \in K \ S |-> f[w]]
    OBVIOUS
  <2> HIDE DEF f, gone
  <2> QED
    BY <1>4, <1>5, <2>1
<1>9. /\ added \cup advanced \subseteq Entries
      /\ \A e \in added \cup advanced : e.seq = snap.seq
      /\ \A d, e \in added \cup advanced : d.window = e.window => d = e
  BY <1>3 DEF Entry, Entries, EventKinds
<1>10. /\ gone \subseteq Entries
       /\ \A e \in gone : e.seq = snap.seq
       /\ \A d, e \in gone : d.window = e.window => d = e
  BY <1>3 DEF Entry, Entries, EventKinds
<1>11. IsFiniteSet(added \cup advanced)
  <2> HIDE DEF added, advanced
  <2> QED
    BY <1>6, <1>7, FS_Union
<1>12. CASE i = 1
  <2> HIDE DEF added, advanced, gone
  <2> QED
    BY <1>2, <1>9, <1>11, <1>12
<1>13. CASE i = 2
  <2> HIDE DEF added, advanced, gone
  <2> QED
    BY <1>2, <1>8, <1>10, <1>13
<1> QED
  BY <1>12, <1>13

\* resync: a snapshot that is not stale replaces what the observer knew.
Resynced(o, p, snap) ==
  /\ ObserverTyped(p)
  /\ p.pending = o.pending
  /\ snap.seq < o.watermark => p = o
  /\ snap.seq >= o.watermark =>
       /\ p.watermark = snap.seq
       /\ DOMAIN p.windows = DOMAIN snap.windows
       /\ \A w \in DOMAIN p.windows :
            /\ p.windows[w].commits = Later(Known(o.windows, w), snap.windows[w])
            /\ p.windows[w].waiting =
                 IF w \in DOMAIN o.windows THEN o.windows[w].waiting ELSE NoWait

LEMMA ResyncProperties ==
  ASSUME NEW o, ObserverTyped(o), NEW snap, SnapshotTyped(snap), NEW at \in Nat
  PROVE  Resynced(o, Resync(o, snap, at), snap)
<1>0. /\ DOMAIN o = {"windows", "watermark", "journal", "pending"} /\ o.watermark \in Nat
      /\ WindowsTyped(o.windows) /\ JournalTyped(o.journal, o.watermark)
      /\ snap.seq \in Nat
  BY DEF ObserverTyped, SnapshotTyped
<1>1. CASE snap.seq < o.watermark
  <2>1. Resync(o, snap, at) = o
    BY <1>1 DEF Resync
  <2> QED
    BY <1>0, <1>1, <2>1 DEF Resynced
<1>2. CASE ~ (snap.seq < o.watermark)
  <2>1. PICK kept : kept = Pruned(o.journal, snap.seq)
    OBVIOUS
  <2>2. PICK E1, E2 : E1 = Synthetic(o, snap, at)[1] /\ E2 = Synthetic(o, snap, at)[2]
    OBVIOUS
  <2>3. PICK journal : journal = PushAll(PushAll(kept, E1), E2)
    OBVIOUS
  <2>4. PICK windows : windows = Merged(o.windows, snap.windows)
    OBVIOUS
  <2>5. PICK p : p = Resync(o, snap, at)
    OBVIOUS
  <2>6. p = [o EXCEPT !.watermark = snap.seq, !.windows = windows, !.journal = journal]
    BY <1>2, <2>1, <2>2, <2>3, <2>4, <2>5 DEF Resync
  <2>7. /\ DOMAIN p = {"windows", "watermark", "journal", "pending"}
        /\ p.windows = windows /\ p.watermark = snap.seq /\ p.journal = journal
        /\ p.pending = o.pending
    BY <1>0, <2>6
  <2>8. JournalTyped(kept, snap.seq)
    <3>1. o.journal \in Seq(Entries) /\ \A e \in Elems(o.journal) : e.seq <= o.watermark
      BY <1>0 DEF JournalTyped
    <3>2. kept \in Seq(Entries) /\ Elems(kept) \subseteq Elems(o.journal)
      BY <2>1, <3>1, PrunedProperties
    <3>3. \A e \in Elems(o.journal) : e.seq \in Nat
      <4>1. \A e \in Elems(o.journal) : e \in Entries
        BY <3>1 DEF Elems
      <4> QED
        BY <4>1 DEF Entries
    <3>4. \A e \in Elems(kept) : e.seq <= snap.seq
      BY <1>0, <1>2, <3>1, <3>2, <3>3
    <3> QED
      BY <3>2, <3>4 DEF JournalTyped
  <2>9. /\ E1 \in SUBSET Entries /\ IsFiniteSet(E1) /\ \A e \in E1 : e.seq <= snap.seq
        /\ \A d, e \in E1 : d.window = e.window => d = e
    BY <1>0, <2>2, SyntheticProperties
  <2>10. /\ E2 \in SUBSET Entries /\ IsFiniteSet(E2) /\ \A e \in E2 : e.seq <= snap.seq
         /\ \A d, e \in E2 : d.window = e.window => d = e
    BY <1>0, <2>2, SyntheticProperties
  <2>11. JournalTyped(journal, snap.seq)
    <3>1. JournalTyped(PushAll(kept, E1), snap.seq)
      BY <1>0, <2>8, <2>9, PushAllProperties
    <3> QED
      BY <1>0, <2>3, <2>10, <3>1, PushAllProperties
  <2>12. /\ DOMAIN windows = DOMAIN snap.windows
         /\ \A w \in DOMAIN windows :
              /\ DOMAIN windows[w] = {"commits", "uncertain", "waiting"}
              /\ windows[w].commits = Later(Known(o.windows, w), snap.windows[w])
              /\ windows[w].commits \in Nat
              /\ windows[w].waiting =
                   IF w \in DOMAIN o.windows THEN o.windows[w].waiting ELSE NoWait
    <3> SUFFICES ASSUME NEW w \in DOMAIN windows
                 PROVE  /\ DOMAIN windows[w] = {"commits", "uncertain", "waiting"}
                        /\ windows[w].commits = Later(Known(o.windows, w), snap.windows[w])
                        /\ windows[w].commits \in Nat
                        /\ windows[w].waiting =
                             IF w \in DOMAIN o.windows THEN o.windows[w].waiting ELSE NoWait
      BY <2>4 DEF Merged
    <3>1. w \in DOMAIN snap.windows /\ snap.windows[w] \in Nat
      BY <2>4 DEF SnapshotTyped, Merged
    <3>2. CASE w \notin DOMAIN o.windows
      <4>1. windows[w] = FreshWindow(snap.windows[w], TRUE)
        BY <2>4, <3>2 DEF Merged
      <4> QED
        BY <3>1, <3>2, <4>1 DEF FreshWindow, Known, Later
    <3>3. CASE w \in DOMAIN o.windows
      <4>1. windows[w] = [o.windows[w] EXCEPT !.commits = Later(@, snap.windows[w]),
                                              !.uncertain = TRUE]
        BY <2>4, <3>3 DEF Merged
      <4>2. /\ DOMAIN o.windows[w] = {"commits", "uncertain", "waiting"}
            /\ o.windows[w].commits \in Nat
        BY <1>0, <3>3 DEF WindowsTyped
      <4> QED
        BY <3>1, <3>3, <4>1, <4>2 DEF Known, Later
    <3> QED
      BY <3>2, <3>3
  <2>13. WindowsTyped(windows)
    BY <2>12 DEF WindowsTyped, SnapshotTyped
  <2>14. ObserverTyped(p)
    BY <1>0, <2>7, <2>11, <2>13 DEF ObserverTyped
  <2> QED
    BY <1>0, <1>2, <2>5, <2>7, <2>12, <2>14 DEF Resynced
<1> QED
  BY <1>1, <1>2

\* record_action of a window: nothing but its state on demand.
Touched(o, p, w) ==
  /\ ObserverTyped(p)
  /\ p.pending = o.pending /\ p.watermark = o.watermark /\ p.journal = o.journal
  /\ DOMAIN p.windows = DOMAIN o.windows \cup {w}
  /\ \A v \in DOMAIN p.windows :
       /\ p.windows[v].commits = Known(o.windows, v)
       /\ p.windows[v].waiting = IF v \in DOMAIN o.windows THEN o.windows[v].waiting ELSE NoWait

LEMMA TouchWindowProperties ==
  ASSUME NEW o, ObserverTyped(o), NEW w \in Nat
  PROVE  Touched(o, TouchWindow(o, w), w)
<1>1. PICK p, base : p = TouchWindow(o, w) /\ base = OnDemand(o.windows, w)
  OBVIOUS
<1>2. /\ DOMAIN o = {"windows", "watermark", "journal", "pending"} /\ o.watermark \in Nat
      /\ WindowsTyped(o.windows) /\ JournalTyped(o.journal, o.watermark)
  BY DEF ObserverTyped
<1>3. p = [o EXCEPT !.windows = base]
  BY <1>1 DEF TouchWindow
<1>4. /\ DOMAIN p = {"windows", "watermark", "journal", "pending"} /\ p.windows = base
      /\ p.pending = o.pending /\ p.watermark = o.watermark /\ p.journal = o.journal
  BY <1>2, <1>3
<1>5. /\ DOMAIN base = DOMAIN o.windows \cup {w}
      /\ \A v \in DOMAIN base :
           /\ DOMAIN base[v] = {"commits", "uncertain", "waiting"}
           /\ base[v].commits = Known(o.windows, v) /\ base[v].commits \in Nat
           /\ base[v].waiting = IF v \in DOMAIN o.windows THEN o.windows[v].waiting ELSE NoWait
  BY <1>1, <1>2 DEF OnDemand, Put, FreshWindow, Known, WindowsTyped
<1>6. WindowsTyped(base)
  BY <1>2, <1>5, FS_AddElement DEF WindowsTyped
<1> QED
  BY <1>1, <1>2, <1>4, <1>5, <1>6 DEF ObserverTyped, Touched
=============================================================================
