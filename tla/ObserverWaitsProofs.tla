------------------------ MODULE ObserverWaitsProofs -------------------------
(***************************************************************************)
(* The wait engine for any number of request tasks, journal capacity and   *)
(* timing: that no wakeup is lost, that no wait resolves on stale          *)
(* evidence, that the quiet flag agrees with the quiet condition and that  *)
(* the waiter registrations are exact.                                     *)
(***************************************************************************)
EXTENDS ObserverWaits, ObserverTheorems

-----------------------------------------------------------------------------
(* The inductive invariant.                                                *)

Conditions == {"change", "quiet", "sample"}

\* A wait between the start of run_wait and its resolution.
Working ==
  [pc : {"check", "subscribe", "register", "read", "clock", "absorb", "decide", "blocked", "resolve"},
   condition : Conditions, started : Nat, minSeq : Nat, cursor : Nat, anchor : Nat,
   events : Nat, lastCommit : Nat, counted : SUBSET Nat,
   seen : Nat, gen : Nat, now : Nat, met : BOOLEAN, wake : Nat]

Started == [pc : {"filter"}, condition : Conditions, after : BOOLEAN, started : Nat]

Resolved ==
  [pc : {"drop"}, condition : Conditions, met : BOOLEAN, quiet : BOOLEAN,
   minSeq : Nat, started : Nat]

Ended == [pc : {"done"}, condition : Conditions, met : BOOLEAN, quiet : BOOLEAN]

Shape(r) == r \in {Idle, [pc |-> "error"]} \cup Started \cup Working \cup Resolved \cup Ended

\* The wait has counted what was journalled in order for it, and what is beyond its cursor.
CaughtUp(r, known, journal) ==
  \A i \in 1 .. Len(journal) :
    /\ journal[i].window = Window /\ journal[i].seq > r.minSeq
    /\ journal[i].seq \in known.own \/ journal[i].seq > r.cursor
    => journal[i].seq \in r.counted

(***************************************************************************)
(* It has done so up to its cursor, which only numbers of the journal have *)
(* moved: what is journalled in order next is beyond it.                   *)
(***************************************************************************)
Reached(r, known) ==
  /\ r.cursor <= r.minSeq \/ r.cursor <= known.top
  /\ \A n \in known.own : n > r.minSeq /\ n <= r.cursor => n \in r.counted

\* The steps between the start of run_wait and the decision.
Counting ==
  {"check", "subscribe", "register", "read", "clock", "absorb", "decide", "blocked"}

\* The numbers known to be in the journal, and the highest there has been.
Recorded(known, journal) ==
  /\ known.top \in Nat /\ known.own \subseteq Nat
  /\ \A i \in 1 .. Len(journal) : journal[i].seq <= known.top
  /\ \A n \in known.own :
       \E i \in 1 .. Len(journal) : journal[i].window = Window /\ journal[i].seq = n

\* The wait has seen the generation channel since it subscribed.
Watching == {"register", "read", "clock", "absorb", "decide", "blocked"}

(***************************************************************************)
(* What holds of a wait r when news, journal and generation are these,      *)
(* `bumping` says that the pump changed the journal and is about to bump   *)
(* the generation, and `time` is the event domain's present time.          *)
(***************************************************************************)
WaitInv(r, known, journal, current, bumping, time) ==
  /\ Shape(r)
  /\ r.pc \in Counting => Reached(r, known)
  /\ r.pc \in Watching => r.seen <= current
  /\ r.pc \in {"clock", "absorb", "decide"} => r.seen <= r.gen /\ r.gen <= current
  /\ ~bumping /\ r.pc = "decide" /\ r.gen = current => CaughtUp(r, known, journal)
  /\ ~bumping /\ r.pc = "blocked" /\ r.seen = current => CaughtUp(r, known, journal)
  /\ r.pc \in {"absorb", "decide", "resolve"} => r.now <= time
  /\ r.pc \in {"decide", "resolve"} /\ r.met /\ r.condition = "quiet" =>
       r.now >= QuietSince(r) + QuietMs
  /\ r.pc \in {"drop", "done"} /\ r.met /\ r.condition = "quiet" => r.quiet

ClockTyped ==
  /\ instant \in Nat /\ generation \in Nat
  /\ clock \in [ts : Nat, instant : Nat] /\ clock.instant <= instant

StateTyped ==
  /\ ObserverTyped(obs) /\ Recorded(news, obs.journal)
  /\ action \in [step : {"none", "clock", "seq", "known"}, seq : Nat, ts : Nat]

StreamTyped == stream.last \in Nat /\ stream.at \in Nat /\ stream.present \in Nat

\* What the pump may be given: a snapshot or an event, counted or not.
InputTyped(input) ==
  \/ input.kind = "resync" /\ SnapshotTyped(input.snap)
  \/ input.kind \in EventKinds \cup {"server"} /\ input.seq \in Nat /\ input.window \in Nat

PumpTyped ==
  /\ pump.step \in {"idle", "state", "bump"}
  /\ pump.step = "state" => pump.ts \in Nat /\ InputTyped(pump.input)

TasksInv ==
  /\ DOMAIN task = Waiters
  /\ \A a \in Waiters : WaitInv(task[a], news, obs.journal, generation, pump.step = "bump", NowMs)

\* The registered waiters and their keys.
Active == {a \in Waiters : Registered(a)}
KeyOf == [a \in Active |-> Key(a)]

\* `counts` is the multiset of the keys of the waiters `active`.
Multiset(active, key, counts) ==
  /\ DOMAIN counts = {key[a] : a \in active}
  /\ \A a \in active : counts[key[a]] = Cardinality({b \in active : key[b] = key[a]})

\* The window shows the first key or none, and no other window shows any.
Showing(windows, pending) ==
  \A w \in DOMAIN windows :
    windows[w].waiting \in {NoWait} \cup (IF w = Window THEN {Shown(pending, Window)} ELSE {})

\* `pending` holds the keys of the waiters `active`, and no entry when there are none.
Registrations(active, key, pending, windows) ==
  /\ DOMAIN pending = IF active = {} THEN {} ELSE {Window}
  /\ Multiset(active, key, Get(pending, Window, NoEntries))
  /\ Showing(windows, pending)

IInv ==
  /\ ClockTyped /\ StateTyped /\ StreamTyped /\ PumpTyped /\ TasksInv
  /\ Registrations(Active, KeyOf, obs.pending, obs.windows)

-----------------------------------------------------------------------------
(* Waits and time.                                                         *)

\* The step a wait is at tells what it keeps.
LEMMA ShapeByStep ==
  ASSUME NEW r, Shape(r)
  PROVE  /\ r.pc \in {"idle", "error", "filter", "check", "subscribe", "register", "read", "clock",
                      "absorb", "decide", "blocked", "resolve", "drop", "done"}
         /\ r.pc \in {"check", "subscribe", "register", "read", "clock", "absorb", "decide",
                      "blocked", "resolve"} => r \in Working
         /\ r.pc = "filter" => r \in Started
         /\ r.pc = "drop" => r \in Resolved
         /\ r.pc = "done" => r \in Ended
BY DEF Shape, Working, Started, Resolved, Ended, Idle

\* Time passes.
LEMMA WaitInvInTime ==
  ASSUME NEW r, NEW known, NEW journal, NEW current, NEW bumping, NEW time \in Nat, NEW time2 \in Nat,
         time <= time2, WaitInv(r, known, journal, current, bumping, time)
  PROVE  WaitInv(r, known, journal, current, bumping, time2)
<1>1. Shape(r)
  BY DEF WaitInv
<1>2. r.pc \in {"absorb", "decide", "resolve"} => r.now <= time2
  <2> SUFFICES ASSUME r.pc \in {"absorb", "decide", "resolve"}
               PROVE  r.now <= time2
    OBVIOUS
  <2>1. r.now \in Nat
    BY <1>1, ShapeByStep DEF Working
  <2> QED
    BY <2>1 DEF WaitInv
<1> QED
  BY <1>2 DEF WaitInv

\* More is journalled: new numbers are above all that were there.
Grown(known, known2) ==
  /\ known.top \in Nat /\ known2.top \in Nat /\ known.top <= known2.top
  /\ known2.own \subseteq Nat /\ \A n \in known2.own : n \in known.own \/ n > known.top

\* The pump changes the journal: until the bump nobody need have counted what is new.
LEMMA WaitInvWhileBumping ==
  ASSUME NEW r, NEW known, NEW known2, NEW journal, NEW journal2, NEW current, NEW bumping, NEW time,
         WaitInv(r, known, journal, current, bumping, time), Grown(known, known2)
  PROVE  WaitInv(r, known2, journal2, current, TRUE, time)
<1>1. ASSUME r.pc \in Counting
      PROVE  Reached(r, known2)
  <2>1. Reached(r, known) /\ r \in Working
    BY <1>1, ShapeByStep DEF WaitInv, Counting
  <2>2. r.cursor \in Nat /\ r.minSeq \in Nat
    BY <2>1 DEF Working
  <2>3. r.cursor <= r.minSeq \/ r.cursor <= known2.top
    BY <2>1, <2>2 DEF Reached, Grown
  <2>4. ASSUME NEW n \in known2.own, n > r.minSeq, n <= r.cursor
        PROVE  n \in r.counted
    <3>1. n \in Nat /\ (n \in known.own \/ n > known.top) /\ known.top \in Nat
      BY <2>4 DEF Grown
    <3>2. r.cursor <= r.minSeq \/ r.cursor <= known.top
      BY <2>1 DEF Reached
    <3>3. n \in known.own
      BY <2>2, <2>4, <3>1, <3>2
    <3> QED
      BY <2>1, <2>4, <3>3 DEF Reached
  <2> QED
    BY <2>3, <2>4 DEF Reached
<1> QED
  BY <1>1 DEF WaitInv

\* The bump: nobody has seen the new generation.
LEMMA WaitInvAfterBump ==
  ASSUME NEW r, NEW known, NEW journal, NEW current \in Nat, NEW time,
         WaitInv(r, known, journal, current, TRUE, time)
  PROVE  WaitInv(r, known, journal, current + 1, FALSE, time)
<1>1. Shape(r)
  BY DEF WaitInv
<1>2. CASE r.pc \in Watching
  <2>1. r \in Working
    BY <1>1, <1>2, ShapeByStep DEF Watching
  <2>2. r.seen \in Nat /\ r.gen \in Nat
    BY <2>1 DEF Working
  <2>3. r.seen <= current /\ (r.pc \in {"clock", "absorb", "decide"} => r.gen <= current)
    BY <1>2 DEF WaitInv
  <2>4. r.seen <= current + 1 /\ r.seen # current + 1
    BY <2>2, <2>3
  <2>5. r.pc \in {"clock", "absorb", "decide"} => r.gen <= current + 1 /\ r.gen # current + 1
    BY <2>2, <2>3
  <2> QED
    BY <2>4, <2>5 DEF WaitInv
<1>3. CASE r.pc \notin Watching
  BY <1>3 DEF WaitInv, Watching
<1> QED
  BY <1>2, <1>3

LEMMA CaughtUpMeansNoneUncounted ==
  ASSUME NEW r
  PROVE  CaughtUp(r, news, obs.journal) <=> Uncounted(r) = {}
BY DEF CaughtUp, Uncounted

\* Folding the journal into a wait leaves nothing uncounted.
LEMMA AbsorbedIsCaughtUp ==
  ASSUME ObserverTyped(obs), Recorded(news, obs.journal), NEW r \in Working, Reached(r, news)
  PROVE  /\ Absorbed(r) \in Working
         /\ CaughtUp(Absorbed(r), news, obs.journal) /\ Reached(Absorbed(r), news)
         /\ Absorbed(r).pc = r.pc /\ Absorbed(r).seen = r.seen /\ Absorbed(r).gen = r.gen
         /\ Absorbed(r).now = r.now /\ Absorbed(r).condition = r.condition
         /\ Absorbed(r).minSeq = r.minSeq /\ Absorbed(r).started = r.started
<1>1. PICK journal, mark : journal = obs.journal /\ mark = obs.watermark
  OBVIOUS
<1>2. journal \in Seq(Entries) /\ mark \in Nat /\ \A e \in Elems(journal) : e.seq <= mark
  BY <1>1 DEF ObserverTyped, JournalTyped
<1>3. /\ Len(journal) \in Nat
      /\ \A i \in 1 .. Len(journal) : journal[i] \in Entries /\ journal[i] \in Elems(journal)
  BY <1>2 DEF Elems
<1>4. \A i \in 1 .. Len(journal) : /\ journal[i].seq \in Nat /\ journal[i].seq <= mark
                                   /\ journal[i].at \in Nat
  BY <1>2, <1>3 DEF Entries
<1>5. PICK since : since = Since(journal, r.cursor)
  OBVIOUS
<1>6. since = {i \in 1 .. Len(journal) : journal[i].seq > r.cursor}
  BY <1>5 DEF Since
<1>7. PICK seqs : seqs = {journal[i].seq : i \in since}
  OBVIOUS
<1>8. PICK fresh : fresh = Fresh(r)
  OBVIOUS
<1>9. fresh \subseteq 1 .. Len(journal)
  BY <1>1, <1>5, <1>6, <1>8 DEF Fresh
<1>10. PICK commits : commits = {i \in fresh : journal[i].kind = "commit"}
  OBVIOUS
<1>11. PICK cursor : cursor = IF seqs = {} THEN r.cursor
                              ELSE CHOOSE n \in seqs : \A m \in seqs : m <= n
  OBVIOUS
<1>12. PICK events : events = r.events + Cardinality(fresh)
  OBVIOUS
<1> DEFINE last == CHOOSE i \in commits : \A j \in commits : j <= i
<1> HIDE DEF last
<1>13. PICK lastCommit : lastCommit = IF commits = {} THEN r.lastCommit ELSE journal[last].at
  OBVIOUS
<1>14. PICK counted : counted = r.counted \cup {journal[i].seq : i \in fresh}
  OBVIOUS
<1>15. Absorbed(r) = [r EXCEPT !.cursor = cursor, !.events = events, !.counted = counted,
                               !.lastCommit = lastCommit]
  BY <1>1, <1>5, <1>7, <1>8, <1>10, <1>11, <1>12, <1>13, <1>14 DEF Absorbed, last
<1>16. counted \subseteq Nat
  BY <1>4, <1>9, <1>14 DEF Working
<1>17. seqs \subseteq Nat /\ \A n \in seqs : n <= mark
  BY <1>4, <1>6, <1>7
<1>18. cursor \in Nat /\ \A n \in seqs : n <= cursor
  <2>1. r.cursor \in Nat
    BY DEF Working
  <2>2. CASE seqs # {}
    <3>1. \E n \in seqs : \A m \in seqs : m <= n
      BY <1>2, <1>17, <2>2, GreatestNatural
    <3> QED
      BY <1>11, <1>17, <2>2, <3>1
  <2> QED
    BY <1>11, <2>1, <2>2
<1>19. events \in Nat
  <2>1. IsFiniteSet(1 .. Len(journal))
    BY <1>3, FS_Interval
  <2>2. IsFiniteSet(fresh)
    BY <1>9, <2>1, FS_Subset
  <2>3. Cardinality(fresh) \in Nat
    BY <2>2, FS_CardinalityType
  <2>4. r.events \in Nat
    BY DEF Working
  <2> QED
    BY <1>12, <2>3, <2>4
<1>20. lastCommit \in Nat
  <2>1. r.lastCommit \in Nat
    BY DEF Working
  <2>2. commits \subseteq 1 .. Len(journal)
    BY <1>9, <1>10
  <2>3. CASE commits # {}
    <3>1. commits \in SUBSET Nat /\ \A i \in commits : i <= Len(journal)
      BY <1>3, <2>2
    <3>2. \E i \in commits : \A j \in commits : j <= i
      BY <1>3, <2>3, <3>1, GreatestNatural
    <3>3. last \in commits
      BY <3>2 DEF last
    <3>4. last \in 1 .. Len(journal) /\ lastCommit = journal[last].at
      BY <1>13, <2>2, <2>3, <3>3
    <3> QED
      BY <1>4, <3>4
  <2> QED
    BY <1>13, <2>1, <2>3
<1>21. PICK s : s = Absorbed(r)
  OBVIOUS
<1>22. /\ s \in Working /\ s.cursor = cursor /\ s.counted = counted
       /\ s.pc = r.pc /\ s.seen = r.seen /\ s.gen = r.gen /\ s.now = r.now
       /\ s.condition = r.condition /\ s.minSeq = r.minSeq /\ s.started = r.started
  BY <1>15, <1>18, <1>19, <1>20, <1>21, <1>16 DEF Working
<1>23. PICK known : known = news
  OBVIOUS
<1>24. Recorded(known, journal) /\ Reached(r, known) /\ r.cursor \in Nat /\ r.minSeq \in Nat
  BY <1>1, <1>23 DEF Working
<1>25. ASSUME NEW i \in 1 .. Len(journal), journal[i].window = Window, journal[i].seq > r.minSeq,
              journal[i].seq \in known.own \/ journal[i].seq > r.cursor
       PROVE  journal[i].seq \in counted
  <2>1. journal[i].seq \in Nat
    BY <1>4
  <2>2. CASE journal[i].seq <= r.cursor
    BY <1>14, <1>24, <1>25, <2>1, <2>2 DEF Reached
  <2>3. CASE journal[i].seq > r.cursor
    <3>1. i \in fresh
      BY <1>1, <1>5, <1>6, <1>8, <1>25, <2>3 DEF Fresh
    <3> QED
      BY <1>14, <3>1
  <2> QED
    BY <1>24, <2>1, <2>2, <2>3
<1>26. cursor <= r.minSeq \/ cursor <= known.top
  <2>1. CASE seqs = {}
    BY <1>11, <1>24, <2>1 DEF Reached
  <2>2. CASE seqs # {}
    <3>1. \E n \in seqs : \A m \in seqs : m <= n
      BY <1>2, <1>17, <2>2, GreatestNatural
    <3>2. cursor \in seqs
      BY <1>11, <2>2, <3>1
    <3> QED
      BY <1>6, <1>7, <1>24, <3>2 DEF Recorded
  <2> QED
    BY <2>1, <2>2
<1>27. CaughtUp(s, known, journal)
  <2> SUFFICES ASSUME NEW i \in 1 .. Len(journal),
                      journal[i].window = Window, journal[i].seq > r.minSeq,
                      journal[i].seq \in known.own \/ journal[i].seq > cursor
               PROVE  journal[i].seq \in counted
    BY <1>22 DEF CaughtUp
  <2>1. CASE journal[i].seq \in known.own
    BY <1>25, <2>1
  <2>2. CASE journal[i].seq > cursor
    <3>1. cursor \in Nat /\ r.cursor \in Nat /\ journal[i].seq \in Nat
      BY <1>4, <1>18, <1>24
    <3>2. journal[i].seq <= r.cursor
      <4>1. CASE journal[i].seq > r.cursor
        <5>1. journal[i].seq \in seqs
          BY <1>6, <1>7, <4>1
        <5> QED
          BY <1>18, <2>2, <3>1, <5>1
      <4> QED
        BY <3>1, <4>1
    <3>3. seqs # {}
      BY <1>11, <2>2, <3>1, <3>2
    <3>4. cursor \in seqs
      <4>1. \E n \in seqs : \A m \in seqs : m <= n
        BY <1>2, <1>17, <3>3, GreatestNatural
      <4> QED
        BY <1>11, <3>3, <4>1
    <3>5. cursor > r.cursor
      BY <1>6, <1>7, <3>4
    <3> QED
      BY <2>2, <3>1, <3>2, <3>5
  <2> QED
    BY <2>1, <2>2
<1>28. Reached(s, known)
  <2>1. ASSUME NEW n \in known.own, n > r.minSeq
        PROVE  n \in counted
    BY <1>24, <1>25, <2>1 DEF Recorded
  <2> QED
    BY <1>22, <1>26, <2>1 DEF Reached
<1> QED
  BY <1>1, <1>21, <1>22, <1>23, <1>27, <1>28

\* The present time of the event domain, and what the clock does to it.
LEMMA TimeIsNatural ==
  ASSUME ClockTyped
  PROVE  NowMs \in Nat /\ DeadlineOf(0) \in Nat
BY DEF ClockTyped, NowMs, DeadlineOf

LEMMA ClockOnlyAdvances ==
  ASSUME ClockTyped, NEW ts \in Nat, clock' = ObserveTs(ts), instant' = instant,
         generation' = generation
  PROVE  ClockTyped' /\ NowMs <= NowMs'
<1>1. /\ instant \in Nat /\ clock.ts \in Nat /\ clock.instant \in Nat /\ clock.instant <= instant
      /\ generation \in Nat /\ clock \in [ts : Nat, instant : Nat]
  BY DEF ClockTyped
<1>2. CASE ts > NowMs
  <2>1. clock' = [ts |-> ts, instant |-> instant]
    BY <1>2 DEF ObserveTs
  <2>2. clock'.ts = ts /\ clock'.instant = instant /\ clock' \in [ts : Nat, instant : Nat]
    BY <1>1, <2>1
  <2>3. NowMs' = ts
    BY <1>1, <2>2 DEF NowMs
  <2>4. NowMs \in Nat
    BY TimeIsNatural
  <2> QED
    BY <1>1, <1>2, <2>2, <2>3, <2>4 DEF ClockTyped
<1>3. CASE ~ (ts > NowMs)
  <2>1. clock' = clock
    BY <1>3 DEF ObserveTs
  <2>2. NowMs' = NowMs /\ NowMs \in Nat
    BY <2>1, TimeIsNatural DEF NowMs
  <2> QED
    BY <1>1, <2>1, <2>2 DEF ClockTyped
<1> QED
  BY <1>2, <1>3

-----------------------------------------------------------------------------
(* The multiset of the waiters' keys.                                      *)

\* One more waiter with the key k.
LEMMA WaiterJoins ==
  ASSUME NEW active, IsFiniteSet(active), NEW key, NEW counts, Multiset(active, key, counts),
         NEW a, a \notin active, NEW k, NEW key2, NEW counts2,
         key2[a] = k, \A b \in active : key2[b] = key[b],
         counts2 = Put(counts, k, Get(counts, k, 0) + 1)
  PROVE  Multiset(active \cup {a}, key2, counts2)
<1> DEFINE Of(x) == {b \in active : key[b] = x}
           Of2(x) == {b \in active \cup {a} : key2[b] = x}
<1>1. /\ DOMAIN counts2 = DOMAIN counts \cup {k}
      /\ counts2[k] = Get(counts, k, 0) + 1
      /\ \A x \in DOMAIN counts : x # k => counts2[x] = counts[x]
  BY DEF Put
<1>2. DOMAIN counts = {key[b] : b \in active}
  BY DEF Multiset
<1>3. DOMAIN counts2 = {key2[b] : b \in active \cup {a}}
  BY <1>1, <1>2
<1>4. \A x : IsFiniteSet(Of(x)) /\ a \notin Of(x) /\ Cardinality(Of(x)) \in Nat
  BY FS_Subset, FS_CardinalityType
<1>5. Get(counts, k, 0) = Cardinality(Of(k))
  <2>1. CASE k \in DOMAIN counts
    BY <1>2, <2>1 DEF Multiset, Get
  <2>2. CASE k \notin DOMAIN counts
    <3>1. Of(k) = {}
      BY <1>2, <2>2
    <3> QED
      BY <2>2, <3>1, FS_EmptySet DEF Get
  <2> QED
    BY <2>1, <2>2
<1>6. Of2(k) = Of(k) \cup {a}
  OBVIOUS
<1>7. \A x : x # k => Of2(x) = Of(x)
  OBVIOUS
<1> HIDE DEF Of, Of2
<1>8. counts2[k] = Cardinality(Of2(k))
  <2>1. Cardinality(Of(k) \cup {a}) = Cardinality(Of(k)) + 1
    BY <1>4, FS_AddElement
  <2> QED
    BY <1>1, <1>5, <1>6, <2>1
<1>9. ASSUME NEW b \in active \cup {a}
      PROVE  counts2[key2[b]] = Cardinality(Of2(key2[b]))
  <2>1. CASE key2[b] = k
    BY <1>8, <2>1
  <2>2. CASE key2[b] # k
    <3>1. b \in active /\ key2[b] = key[b] /\ key[b] \in DOMAIN counts
      BY <1>2, <2>2
    <3>2. counts[key[b]] = Cardinality(Of(key[b]))
      BY <3>1 DEF Multiset, Of
    <3> QED
      BY <1>1, <1>7, <2>2, <3>1, <3>2
  <2> QED
    BY <2>1, <2>2
<1> QED
  BY <1>3, <1>9 DEF Multiset, Of2

\* What PendingGuard::drop leaves of the keys.
Left(counts, k) ==
  IF counts[k] = 1 THEN Drop(counts, {k}) ELSE [counts EXCEPT ![k] = @ - 1]

\* a leaves the waiters, the others keep their keys.
Leaves(active, key, a, key2) ==
  a \in active /\ \A b \in active \ {a} : key2[b] = key[b]

\* The keys that remain are those of the waiters that remain.
Remains(active2, key2, left) ==
  /\ Multiset(active2, key2, left)
  /\ left = NoEntries <=> active2 = {}

LEMMA WaiterLeaves ==
  ASSUME NEW active, IsFiniteSet(active), NEW key, NEW counts, Multiset(active, key, counts),
         NEW a, NEW key2, Leaves(active, key, a, key2),
         NEW left, left = Left(counts, key[a])
  PROVE  Remains(active \ {a}, key2, left)
<1> DEFINE k == key[a]
           Of(x) == {b \in active : key[b] = x}
           Of2(x) == {b \in active \ {a} : key2[b] = x}
<1> USE DEF Leaves
<1>1. DOMAIN counts = {key[b] : b \in active} /\ k \in DOMAIN counts
  BY DEF Multiset
<1>2. \A x : IsFiniteSet(Of(x)) /\ IsFiniteSet(Of2(x))
  BY FS_Subset, FS_RemoveElement
<1>3. a \in Of(k) /\ Of2(k) = Of(k) \ {a}
  OBVIOUS
<1>4. \A x : x # k => Of2(x) = Of(x)
  OBVIOUS
<1>5. \A x \in DOMAIN counts : counts[x] = Cardinality(Of(x))
  BY <1>1 DEF Multiset
<1>6. \A b \in active : b \in Of(key[b])
  OBVIOUS
<1>7. \A x : \A b \in Of2(x) : b \in active \ {a} /\ key2[b] = x /\ key[b] = x
  OBVIOUS
<1>8. \A b \in active \ {a} : b \in Of2(key[b])
  OBVIOUS
<1>9. left = Left(counts, k)
  OBVIOUS
<1> HIDE DEF k, Of, Of2
<1>10. /\ Cardinality(Of(k)) \in Nat /\ Cardinality(Of2(k)) \in Nat
       /\ Cardinality(Of2(k)) = Cardinality(Of(k)) - 1
  BY <1>2, <1>3, FS_RemoveElement, FS_CardinalityType
<1>11. Of2(k) = {} <=> counts[k] = 1
  BY <1>1, <1>2, <1>5, <1>10, FS_EmptySet
<1>12. DOMAIN left = {key[b] : b \in active \ {a}}
       /\ \A x \in DOMAIN left : left[x] = Cardinality(Of2(x))
  <2>1. CASE counts[k] = 1
    <3>1. left = Drop(counts, {k})
      BY <1>9, <2>1 DEF Left
    <3>2. DOMAIN left = DOMAIN counts \ {k} /\ \A x \in DOMAIN left : left[x] = counts[x]
      BY <3>1 DEF Drop
    <3>3. \A b \in active \ {a} : key[b] # k
      BY <1>8, <1>11, <2>1
    <3>4. key[a] = k
      BY DEF k
    <3>5. DOMAIN left = {key[b] : b \in active \ {a}}
      BY <1>1, <3>2, <3>3, <3>4
    <3> QED
      BY <1>4, <1>5, <3>2, <3>5
  <2>2. CASE counts[k] # 1
    <3>1. left = [counts EXCEPT ![k] = counts[k] - 1]
      BY <1>9, <2>2 DEF Left
    <3>2. /\ DOMAIN left = DOMAIN counts /\ left[k] = counts[k] - 1
          /\ \A x \in DOMAIN left : x # k => left[x] = counts[x]
      BY <1>1, <3>1
    <3>3. PICK b \in Of2(k) : TRUE
      BY <1>11, <2>2
    <3>4. b \in active \ {a} /\ key[b] = k
      BY <1>7, <3>3
    <3>5. DOMAIN left = {key[c] : c \in active \ {a}}
      BY <1>1, <3>2, <3>4 DEF k
    <3>6. left[k] = Cardinality(Of2(k))
      BY <1>1, <1>5, <1>10, <3>2
    <3> QED
      BY <1>4, <1>5, <3>2, <3>5, <3>6
  <2> QED
    BY <2>1, <2>2
<1>13. DOMAIN left = {key2[b] : b \in active \ {a}}
  BY <1>12
<1>14. Multiset(active \ {a}, key2, left)
  BY <1>12, <1>13 DEF Multiset, Of2
<1>15. left = NoEntries <=> active \ {a} = {}
  <2>1. DOMAIN NoEntries = {}
    BY DEF NoEntries
  <2>2. left = NoEntries => active \ {a} = {}
    BY <1>12, <2>1
  <2>3. ASSUME active \ {a} = {}
        PROVE  left = NoEntries
    <3>1. DOMAIN left = {}
      BY <1>12, <2>3
    <3>2. CASE counts[k] = 1
      <4>1. left = [x \in DOMAIN counts \ {k} |-> counts[x]] /\ DOMAIN counts \ {k} = {}
        BY <1>9, <3>1, <3>2 DEF Left, Drop
      <4> QED
        BY <4>1 DEF NoEntries
    <3>3. CASE counts[k] # 1
      <4>1. DOMAIN left = DOMAIN counts
        BY <1>9, <3>3 DEF Left
      <4> QED
        BY <1>1, <3>1, <4>1
    <3> QED
      BY <3>2, <3>3
  <2> QED
    BY <2>2, <2>3
<1> QED
  BY <1>14, <1>15 DEF Remains

-----------------------------------------------------------------------------
(* PendingGuard on the observer's state.                                   *)

\* A change of the registrations, shown in the window.
Announced(o, p, pending) ==
  /\ ObserverTyped(p) /\ p.journal = o.journal /\ p.pending = pending
  /\ DOMAIN p.windows = DOMAIN o.windows
  /\ \A w \in DOMAIN p.windows :
       p.windows[w].waiting = IF w = Window THEN Shown(pending, w) ELSE o.windows[w].waiting

LEMMA AnnouncedProperties ==
  ASSUME NEW o, ObserverTyped(o), NEW pending,
         NEW p, p = Refresh([o EXCEPT !.pending = pending], Window)
  PROVE  Announced(o, p, pending)
<1>1. PICK q : q = [o EXCEPT !.pending = pending]
  OBVIOUS
<1>2. DOMAIN o = {"windows", "watermark", "journal", "pending"}
  BY DEF ObserverTyped
<1>3. /\ DOMAIN q = DOMAIN o /\ q.pending = pending
      /\ q.windows = o.windows /\ q.watermark = o.watermark /\ q.journal = o.journal
  BY <1>1, <1>2
<1>4. ObserverTyped(q)
  BY <1>3 DEF ObserverTyped
<1>5. p = Refresh(q, Window)
  BY <1>1
<1>6. /\ ObserverTyped(p) /\ p.journal = q.journal /\ p.pending = q.pending
      /\ DOMAIN p.windows = DOMAIN q.windows
      /\ \A v \in DOMAIN q.windows :
           p.windows[v].waiting = IF v = Window THEN Shown(q.pending, v) ELSE q.windows[v].waiting
  <2>1. /\ ObserverTyped(Refresh(q, Window))
        /\ Refresh(q, Window).journal = q.journal
        /\ Refresh(q, Window).pending = q.pending
        /\ DOMAIN Refresh(q, Window).windows = DOMAIN q.windows
        /\ \A v \in DOMAIN q.windows :
             Refresh(q, Window).windows[v].waiting =
               IF v = Window THEN Shown(q.pending, Window) ELSE q.windows[v].waiting
    BY <1>4, RefreshProperties
  <2> QED
    BY <1>5, <2>1
<1> QED
  BY <1>3, <1>6 DEF Announced

\* The waiters `active` are registered with o, and then those of active2.
Guarded(o, active, key) ==
  /\ ObserverTyped(o) /\ IsFiniteSet(active) /\ Registrations(active, key, o.pending, o.windows)

Reguarded(o, p, active2, key2) ==
  /\ ObserverTyped(p) /\ p.journal = o.journal
  /\ DOMAIN p.windows = DOMAIN o.windows
  /\ Registrations(active2, key2, p.pending, p.windows)

Joins(active, key, a, k, key2) ==
  a \notin active /\ key2[a] = k /\ \A b \in active : key2[b] = key[b]

LEMMA RegisterProperties ==
  ASSUME NEW o, NEW active, NEW key, Guarded(o, active, key),
         NEW a, NEW k, NEW key2, Joins(active, key, a, k, key2),
         NEW p, p = Register(o, Window, k)
  PROVE  Reguarded(o, p, active \cup {a}, key2)
<1>0. /\ ObserverTyped(o) /\ IsFiniteSet(active) /\ Registrations(active, key, o.pending, o.windows)
      /\ a \notin active /\ key2[a] = k /\ \A b \in active : key2[b] = key[b]
  BY DEF Guarded, Joins
<1>1. PICK keys, keys2 : /\ keys = Get(o.pending, Window, NoEntries)
                         /\ keys2 = Put(keys, k, Get(keys, k, 0) + 1)
  OBVIOUS
<1>2. PICK pending : pending = Put(o.pending, Window, keys2)
  OBVIOUS
<1>3. p = Refresh([o EXCEPT !.pending = pending], Window)
  BY <1>1, <1>2 DEF Register
<1>4. Announced(o, p, pending)
  BY <1>0, <1>3, AnnouncedProperties
<1>5. Multiset(active, key, keys)
  BY <1>0, <1>1 DEF Registrations
<1>6. Multiset(active \cup {a}, key2, keys2)
  BY <1>0, <1>1, <1>5, WaiterJoins
<1>7. DOMAIN o.pending \subseteq {Window}
  BY <1>0 DEF Registrations
<1>8. DOMAIN pending = {Window} /\ pending[Window] = keys2
  BY <1>2, <1>7 DEF Put
<1>9. Get(pending, Window, NoEntries) = keys2
  BY <1>8 DEF Get
<1>10. Registrations(active \cup {a}, key2, pending, p.windows)
  <2>1. Showing(p.windows, pending)
    BY <1>0, <1>4 DEF Registrations, Announced, Showing
  <2> QED
    BY <1>6, <1>8, <1>9, <2>1 DEF Registrations
<1> QED
  BY <1>4, <1>10 DEF Announced, Reguarded

LEMMA UnregisterProperties ==
  ASSUME NEW o, NEW active, NEW key, Guarded(o, active, key),
         NEW a, NEW key2, Leaves(active, key, a, key2),
         NEW p, p = Unregister(o, Window, key[a])
  PROVE  Reguarded(o, p, active \ {a}, key2)
<1>0. /\ ObserverTyped(o) /\ IsFiniteSet(active) /\ Registrations(active, key, o.pending, o.windows)
      /\ a \in active /\ \A b \in active \ {a} : key2[b] = key[b]
  BY DEF Guarded, Leaves
<1>1. DOMAIN o.pending = {Window}
  BY <1>0 DEF Registrations
<1>2. PICK keys, left : keys = o.pending[Window] /\ left = Left(keys, key[a])
  OBVIOUS
<1>3. PICK pending : pending = IF left = NoEntries THEN Drop(o.pending, {Window})
                               ELSE Put(o.pending, Window, left)
  OBVIOUS
<1>4. p = Refresh([o EXCEPT !.pending = pending], Window)
  BY <1>2, <1>3 DEF Unregister, Left
<1>5. Announced(o, p, pending)
  BY <1>0, <1>4, AnnouncedProperties
<1>6. Multiset(active, key, keys)
  BY <1>0, <1>1, <1>2 DEF Registrations, Get
<1>7. /\ Multiset(active \ {a}, key2, left)
      /\ left = NoEntries <=> active \ {a} = {}
  <2>1. IsFiniteSet(active) /\ Leaves(active, key, a, key2)
    BY <1>0
  <2>2. left = Left(keys, key[a])
    BY <1>2
  <2>3. Remains(active \ {a}, key2, left)
    BY <1>6, <2>1, <2>2, WaiterLeaves
  <2> QED
    BY <2>3 DEF Remains
<1>8. Showing(p.windows, pending)
  BY <1>0, <1>5 DEF Registrations, Announced, Showing
<1>9. CASE left = NoEntries
  <2>1. DOMAIN pending = {} /\ active \ {a} = {}
    BY <1>1, <1>3, <1>7, <1>9 DEF Drop
  <2>2. Get(pending, Window, NoEntries) = left
    BY <1>9, <2>1 DEF Get
  <2>3. Registrations(active \ {a}, key2, pending, p.windows)
    BY <1>7, <1>8, <2>1, <2>2 DEF Registrations
  <2> QED
    BY <1>5, <2>3 DEF Announced, Reguarded
<1>10. CASE left # NoEntries
  <2>1. DOMAIN pending = {Window} /\ pending[Window] = left /\ active \ {a} # {}
    BY <1>1, <1>3, <1>7, <1>10 DEF Put
  <2>2. Get(pending, Window, NoEntries) = left
    BY <2>1 DEF Get
  <2>3. Registrations(active \ {a}, key2, pending, p.windows)
    BY <1>7, <1>8, <2>1, <2>2 DEF Registrations
  <2> QED
    BY <1>5, <2>3 DEF Announced, Reguarded
<1> QED
  BY <1>9, <1>10

-----------------------------------------------------------------------------
(* Steps of the request tasks.                                             *)

RegisteredSteps == {"read", "clock", "absorb", "decide", "blocked", "resolve", "drop"}

\* The task a moves on to r, and the state is still what the waits rely on.
LEMMA WaitMovesWith ==
  ASSUME IInv, NEW a \in Waiters, NEW r, task' = [task EXCEPT ![a] = r],
         WaitInv(r, news, obs.journal, generation, pump.step = "bump", NowMs),
         instant' = instant, clock' = clock, generation' = generation,
         pump' = pump, action' = action, stream' = stream, news' = news,
         ObserverTyped(obs'), obs'.journal = obs.journal, DOMAIN obs'.windows = DOMAIN obs.windows,
         Registrations(Active', KeyOf', obs'.pending, obs'.windows)
  PROVE  IInv'
<1>1. ClockTyped' /\ StateTyped' /\ StreamTyped' /\ PumpTyped'
  BY DEF IInv, ClockTyped, StateTyped, StreamTyped, PumpTyped
<1>2. NowMs' = NowMs
  BY DEF NowMs
<1>3. /\ DOMAIN task' = Waiters /\ task'[a] = r
      /\ \A b \in Waiters \ {a} : task'[b] = task[b]
  BY DEF IInv, TasksInv
<1>4. ASSUME NEW b \in Waiters
      PROVE  WaitInv(task'[b], news', obs'.journal, generation', pump'.step = "bump", NowMs')
  <2>1. WaitInv(task'[b], news, obs.journal, generation, pump.step = "bump", NowMs)
    BY <1>3 DEF IInv, TasksInv
  <2> QED
    BY <1>2, <2>1
<1>5. TasksInv'
  BY <1>3, <1>4 DEF TasksInv
<1> QED
  BY <1>1, <1>5 DEF IInv

\* The task a moves on to r, and neither registers nor leaves.
LEMMA WaitMoves ==
  ASSUME IInv, NEW a \in Waiters, NEW r, task' = [task EXCEPT ![a] = r],
         WaitInv(r, news, obs.journal, generation, pump.step = "bump", NowMs),
         instant' = instant, clock' = clock, generation' = generation,
         pump' = pump, action' = action, stream' = stream, news' = news, obs' = obs,
         r.pc \in RegisteredSteps <=> task[a].pc \in RegisteredSteps,
         r.pc \in RegisteredSteps => r.minSeq = task[a].minSeq /\ r.started = task[a].started
  PROVE  IInv'
<1>1. /\ task'[a] = r
      /\ \A b \in Waiters \ {a} : task'[b] = task[b]
  BY DEF IInv, TasksInv
<1>2. \A b \in Waiters : Registered(b)' <=> Registered(b)
  BY <1>1 DEF Registered, RegisteredSteps
<1>3. Active' = Active
  BY <1>2 DEF Active
<1>4. \A b \in Active : Key(b)' = Key(b)
  BY <1>1 DEF Active, Registered, RegisteredSteps, Key
<1>5. KeyOf' = KeyOf
  BY <1>3, <1>4 DEF KeyOf
<1>6. Registrations(Active', KeyOf', obs'.pending, obs'.windows)
  BY <1>3, <1>5 DEF IInv
<1>7. ObserverTyped(obs)
  BY DEF IInv, StateTyped
<1> QED
  BY <1>6, <1>7, WaitMovesWith

\* The parts of the invariant a step of the task a starts from.
LEMMA WaitFacts ==
  ASSUME IInv, NEW a \in Waiters
  PROVE  /\ WaitInv(task[a], news, obs.journal, generation, pump.step = "bump", NowMs)
         /\ Shape(task[a])
         /\ instant \in Nat /\ generation \in Nat /\ NowMs \in Nat
         /\ ObserverTyped(obs) /\ Recorded(news, obs.journal) /\ obs.watermark \in Nat
         /\ action.seq \in Nat /\ action.ts \in Nat
         /\ Timeout \in Nat /\ QuietMs \in Nat
<1>1. ClockTyped /\ StateTyped /\ TasksInv
  BY DEF IInv
<1>2. WaitInv(task[a], news, obs.journal, generation, pump.step = "bump", NowMs)
  BY <1>1 DEF TasksInv
<1>3. NowMs \in Nat
  BY <1>1, TimeIsNatural
<1>4. Shape(task[a])
  BY <1>2 DEF WaitInv
<1> QED
  BY <1>1, <1>2, <1>3, <1>4, WaitsAssumption DEF ClockTyped, StateTyped, ObserverTyped

\* Two records of a wait with the same filter point, cursor and count.
SameCount(r, s) ==
  s.minSeq = r.minSeq /\ s.started = r.started /\ s.cursor = r.cursor /\ s.counted = r.counted

LEMMA CountsAreKept ==
  ASSUME IInv, NEW a \in Waiters, task[a].pc \in Counting, NEW r, SameCount(task[a], r)
  PROVE  /\ Reached(r, news) /\ r.minSeq = task[a].minSeq /\ r.started = task[a].started
         /\ CaughtUp(task[a], news, obs.journal) => CaughtUp(r, news, obs.journal)
<1>1. Reached(task[a], news)
  BY WaitFacts DEF WaitInv
<1> QED
  BY <1>1 DEF SameCount, Reached, CaughtUp

LEMMA BeginKeeps ==
  ASSUME IInv, NEW a \in Waiters, NEW plan \in Plans, Begin(a, plan[1], plan[2])
  PROVE  IInv'
<1>1. PICK r : r = [pc |-> "filter", condition |-> plan[1], after |-> plan[2], started |-> NowMs]
  OBVIOUS
<1>2. /\ task[a].pc \in {"idle", "done", "error"} /\ task' = [task EXCEPT ![a] = r]
      /\ instant' = instant /\ clock' = clock /\ obs' = obs /\ generation' = generation
      /\ pump' = pump /\ action' = action /\ stream' = stream /\ news' = news
  BY <1>1 DEF Begin
<1>3. plan[1] \in Conditions /\ plan[2] \in BOOLEAN
  BY WaitsAssumption DEF Conditions
<1>4. r \in Started /\ r.pc = "filter"
  BY <1>1, <1>3, WaitFacts DEF Started
<1>5. WaitInv(r, news, obs.journal, generation, pump.step = "bump", NowMs)
  BY <1>4 DEF WaitInv, Shape, Watching, Counting
<1> QED
  BY <1>2, <1>4, <1>5, WaitMoves DEF RegisteredSteps

LEMMA TakeFilterPointKeeps ==
  ASSUME IInv, NEW a \in Waiters, TakeFilterPoint(a)
  PROVE  IInv'
<1>1. task[a].pc = "filter" /\ task[a] \in Started
  BY WaitFacts, ShapeByStep DEF TakeFilterPoint
<1>2. PICK from, anchor : /\ from = IF task[a].after THEN action.seq ELSE obs.watermark
                          /\ anchor = IF task[a].after THEN action.ts ELSE task[a].started
  OBVIOUS
<1>3. PICK r : r = [pc |-> "check", condition |-> task[a].condition, started |-> task[a].started,
                    minSeq |-> from, cursor |-> from, anchor |-> anchor,
                    events |-> 0, lastCommit |-> 0, counted |-> {},
                    seen |-> 0, gen |-> 0, now |-> 0, met |-> FALSE, wake |-> 0]
  OBVIOUS
<1>4. /\ task' = [task EXCEPT ![a] = r]
      /\ instant' = instant /\ clock' = clock /\ obs' = obs /\ generation' = generation
      /\ pump' = pump /\ action' = action /\ stream' = stream /\ news' = news
  BY <1>2, <1>3 DEF TakeFilterPoint
<1>5. from \in Nat /\ anchor \in Nat /\ task[a].condition \in Conditions /\ task[a].started \in Nat
  BY <1>1, <1>2, WaitFacts DEF Started
<1>6. /\ r \in Working /\ r.pc = "check"
      /\ r.minSeq = from /\ r.cursor = from
  BY <1>3, <1>5 DEF Working
<1>7. Reached(r, news)
  <2>1. news.own \subseteq Nat
    BY WaitFacts DEF Recorded
  <2> QED
    BY <1>5, <1>6, <2>1 DEF Reached
<1>8. WaitInv(r, news, obs.journal, generation, pump.step = "bump", NowMs)
  BY <1>6, <1>7 DEF WaitInv, Shape, Watching
<1> QED
  BY <1>1, <1>4, <1>6, <1>8, WaitMoves DEF RegisteredSteps

LEMMA CheckWindowKeeps ==
  ASSUME IInv, NEW a \in Waiters, CheckWindow(a)
  PROVE  IInv'
<1>1. task[a].pc = "check" /\ task[a] \in Working
  BY WaitFacts, ShapeByStep DEF CheckWindow
<1>2. PICK r : r = IF Tracked THEN [task[a] EXCEPT !.pc = "subscribe"] ELSE [pc |-> "error"]
  OBVIOUS
<1>3. /\ task' = [task EXCEPT ![a] = r]
      /\ instant' = instant /\ clock' = clock /\ obs' = obs /\ generation' = generation
      /\ pump' = pump /\ action' = action /\ stream' = stream /\ news' = news
  BY <1>2 DEF CheckWindow
<1>4. \/ r \in Working /\ r.pc = "subscribe" /\ SameCount(task[a], r)
      \/ r = [pc |-> "error"] /\ r.pc = "error"
  BY <1>1, <1>2 DEF Working, SameCount
<1>5. r.pc \in Counting => Reached(r, news)
  BY <1>1, <1>4, CountsAreKept DEF Counting
<1>6. WaitInv(r, news, obs.journal, generation, pump.step = "bump", NowMs)
  BY <1>4, <1>5 DEF WaitInv, Shape, Watching
<1> QED
  BY <1>1, <1>3, <1>4, <1>6, WaitMoves DEF RegisteredSteps

LEMMA SubscribeKeeps ==
  ASSUME IInv, NEW a \in Waiters, Subscribe(a)
  PROVE  IInv'
<1>1. task[a].pc = "subscribe" /\ task[a] \in Working
  BY WaitFacts, ShapeByStep DEF Subscribe
<1>2. PICK r : r = [task[a] EXCEPT !.pc = "register", !.seen = generation]
  OBVIOUS
<1>3. /\ task' = [task EXCEPT ![a] = r]
      /\ instant' = instant /\ clock' = clock /\ obs' = obs /\ generation' = generation
      /\ pump' = pump /\ action' = action /\ stream' = stream /\ news' = news
  BY <1>2 DEF Subscribe
<1>4. /\ r \in Working /\ r.pc = "register" /\ r.seen = generation /\ generation \in Nat
      /\ SameCount(task[a], r)
  BY <1>1, <1>2, WaitFacts DEF Working, SameCount
<1>5. Reached(r, news)
  BY <1>1, <1>4, CountsAreKept DEF Counting
<1>6. WaitInv(r, news, obs.journal, generation, pump.step = "bump", NowMs)
  BY <1>4, <1>5 DEF WaitInv, Shape
<1> QED
  BY <1>1, <1>3, <1>4, <1>6, WaitMoves DEF RegisteredSteps

LEMMA ReadGenerationKeeps ==
  ASSUME IInv, NEW a \in Waiters, ReadGeneration(a)
  PROVE  IInv'
<1>1. /\ task[a].pc = "read" /\ task[a] \in Working
      /\ task[a].seen <= generation /\ generation \in Nat
  BY WaitFacts, ShapeByStep DEF ReadGeneration, WaitInv, Watching
<1>2. PICK r : r = [task[a] EXCEPT !.pc = "clock", !.gen = generation]
  OBVIOUS
<1>3. /\ task' = [task EXCEPT ![a] = r]
      /\ instant' = instant /\ clock' = clock /\ obs' = obs /\ generation' = generation
      /\ pump' = pump /\ action' = action /\ stream' = stream /\ news' = news
  BY <1>2 DEF ReadGeneration
<1>4. /\ r \in Working /\ r.pc = "clock" /\ r.seen = task[a].seen /\ r.gen = generation
      /\ SameCount(task[a], r)
  BY <1>1, <1>2 DEF Working, SameCount
<1>5. Reached(r, news) /\ r.minSeq = task[a].minSeq /\ r.started = task[a].started
  BY <1>1, <1>4, CountsAreKept DEF Counting
<1>6. WaitInv(r, news, obs.journal, generation, pump.step = "bump", NowMs)
  BY <1>1, <1>4, <1>5 DEF WaitInv, Shape
<1> QED
  BY <1>1, <1>3, <1>4, <1>5, <1>6, WaitMoves DEF RegisteredSteps

LEMMA ReadClockKeeps ==
  ASSUME IInv, NEW a \in Waiters, ReadClock(a)
  PROVE  IInv'
<1>1. /\ task[a].pc = "clock" /\ task[a] \in Working /\ NowMs \in Nat
      /\ task[a].seen <= generation /\ task[a].seen <= task[a].gen /\ task[a].gen <= generation
  BY WaitFacts, ShapeByStep DEF ReadClock, WaitInv, Watching
<1>2. PICK r : r = [task[a] EXCEPT !.pc = "absorb", !.now = NowMs]
  OBVIOUS
<1>3. /\ task' = [task EXCEPT ![a] = r]
      /\ instant' = instant /\ clock' = clock /\ obs' = obs /\ generation' = generation
      /\ pump' = pump /\ action' = action /\ stream' = stream /\ news' = news
  BY <1>2 DEF ReadClock
<1>4. /\ r \in Working /\ r.pc = "absorb" /\ r.seen = task[a].seen /\ r.gen = task[a].gen
      /\ r.now = NowMs
      /\ SameCount(task[a], r)
  BY <1>1, <1>2 DEF Working, SameCount
<1>5. Reached(r, news) /\ r.minSeq = task[a].minSeq /\ r.started = task[a].started
  BY <1>1, <1>4, CountsAreKept DEF Counting
<1>6. WaitInv(r, news, obs.journal, generation, pump.step = "bump", NowMs)
  BY <1>1, <1>4, <1>5 DEF WaitInv, Shape
<1> QED
  BY <1>1, <1>3, <1>4, <1>5, <1>6, WaitMoves DEF RegisteredSteps

\* Everything the journal holds is counted, and the condition judged at `now`.
LEMMA AbsorbKeeps ==
  ASSUME IInv, NEW a \in Waiters, Absorb(a)
  PROVE  IInv'
<1>1. /\ task[a].pc = "absorb" /\ task[a] \in Working /\ ObserverTyped(obs)
      /\ Recorded(news, obs.journal) /\ Reached(task[a], news)
      /\ task[a].seen <= generation /\ task[a].seen <= task[a].gen /\ task[a].gen <= generation
      /\ task[a].now <= NowMs
  BY WaitFacts, ShapeByStep DEF Absorb, WaitInv, Watching, Counting
<1>2. PICK s : s = Absorbed(task[a])
  OBVIOUS
<1>3. /\ s \in Working /\ CaughtUp(s, news, obs.journal) /\ Reached(s, news)
      /\ s.seen = task[a].seen /\ s.gen = task[a].gen /\ s.now = task[a].now
      /\ s.minSeq = task[a].minSeq /\ s.started = task[a].started
  BY <1>1, <1>2, AbsorbedIsCaughtUp
<1>4. PICK r : r = [s EXCEPT !.pc = "decide", !.met = ConditionMet(s)]
  OBVIOUS
<1>5. /\ task' = [task EXCEPT ![a] = r]
      /\ instant' = instant /\ clock' = clock /\ obs' = obs /\ generation' = generation
      /\ pump' = pump /\ action' = action /\ stream' = stream /\ news' = news
  BY <1>2, <1>4 DEF Absorb
<1>6. ConditionMet(s) \in BOOLEAN
  BY DEF ConditionMet
<1>7. /\ r \in Working /\ r.pc = "decide" /\ r.seen = s.seen /\ r.gen = s.gen /\ r.now = s.now
      /\ r.minSeq = s.minSeq /\ r.started = s.started /\ r.cursor = s.cursor /\ r.counted = s.counted
      /\ r.condition = s.condition /\ r.anchor = s.anchor /\ r.lastCommit = s.lastCommit
      /\ r.met = ConditionMet(s)
  BY <1>3, <1>4, <1>6 DEF Working
<1>8. CaughtUp(r, news, obs.journal) /\ Reached(r, news)
  BY <1>3, <1>7 DEF CaughtUp, Reached
<1>9. r.met /\ r.condition = "quiet" => r.now >= QuietSince(r) + QuietMs
  <2>1. ConditionMet(s) /\ s.condition = "quiet" => s.now >= QuietSince(s) + QuietMs
    BY DEF ConditionMet
  <2>2. QuietSince(r) = QuietSince(s)
    BY <1>7 DEF QuietSince
  <2> QED
    BY <1>7, <2>1, <2>2
<1>10. WaitInv(r, news, obs.journal, generation, pump.step = "bump", NowMs)
  BY <1>1, <1>3, <1>7, <1>8, <1>9 DEF WaitInv, Shape
<1> QED
  BY <1>1, <1>3, <1>5, <1>7, <1>10, WaitMoves DEF RegisteredSteps

(***************************************************************************)
(* A waiter that blocks has counted everything, unless the generation has  *)
(* moved past the one it read: it saw no later one than that.              *)
(***************************************************************************)
LEMMA DecideKeeps ==
  ASSUME IInv, NEW a \in Waiters, Decide(a)
  PROVE  IInv'
<1>1. /\ task[a].pc = "decide" /\ task[a] \in Working
      /\ WaitInv(task[a], news, obs.journal, generation, pump.step = "bump", NowMs)
      /\ task[a].seen <= generation /\ task[a].seen <= task[a].gen /\ task[a].gen <= generation
      /\ task[a].now <= NowMs /\ generation \in Nat
  BY WaitFacts, ShapeByStep DEF Decide, WaitInv, Watching
<1>2. /\ instant' = instant /\ clock' = clock /\ obs' = obs /\ generation' = generation
      /\ pump' = pump /\ action' = action /\ stream' = stream /\ news' = news
  BY DEF Decide
<1>3. CASE task' = [task EXCEPT ![a] =
             [task[a] EXCEPT !.pc = "read", !.gen = 0, !.now = 0, !.met = FALSE]]
  <2>1. PICK r : r = [task[a] EXCEPT !.pc = "read", !.gen = 0, !.now = 0, !.met = FALSE]
    OBVIOUS
  <2>2. /\ r \in Working /\ r.pc = "read" /\ r.seen = task[a].seen
        /\ SameCount(task[a], r)
    BY <1>1, <2>1 DEF Working, SameCount
  <2>3. Reached(r, news) /\ r.minSeq = task[a].minSeq /\ r.started = task[a].started
    BY <1>1, <2>2, CountsAreKept DEF Counting
  <2>4. WaitInv(r, news, obs.journal, generation, pump.step = "bump", NowMs)
    BY <1>1, <2>2, <2>3 DEF WaitInv, Shape
  <2>5. task' = [task EXCEPT ![a] = r]
    BY <1>3, <2>1
  <2> QED
    BY <1>1, <1>2, <2>2, <2>4, <2>5, <2>3, WaitMoves DEF RegisteredSteps
<1>4. CASE task' = [task EXCEPT ![a].pc = "resolve"]
  <2>1. PICK r : r = [task[a] EXCEPT !.pc = "resolve"]
    OBVIOUS
  <2>2. /\ r \in Working /\ r.pc = "resolve" /\ r.now = task[a].now /\ r.met = task[a].met
        /\ r.condition = task[a].condition /\ QuietSince(r) = QuietSince(task[a])
        /\ r.minSeq = task[a].minSeq /\ r.started = task[a].started
    BY <1>1, <2>1 DEF Working, QuietSince
  <2>3. WaitInv(r, news, obs.journal, generation, pump.step = "bump", NowMs)
    BY <1>1, <2>2 DEF WaitInv, Shape, Watching, Counting
  <2>4. task' = [task EXCEPT ![a] = r]
    BY <1>4, <2>1
  <2> QED
    BY <1>1, <1>2, <2>2, <2>3, <2>4, WaitMoves DEF RegisteredSteps
<1>5. CASE task' = [task EXCEPT ![a] =
             [task[a] EXCEPT !.pc = "blocked", !.seen = SeenWhileBlocked(task[a]),
                             !.gen = 0, !.now = 0, !.wake = DeadlineOf(Horizon(task[a]))]]
  <2>1. PICK wake : wake = DeadlineOf(Horizon(task[a]))
    OBVIOUS
  <2>2. wake \in Nat
    <3>1. Horizon(task[a]) \in Nat
      BY <1>1, WaitsAssumption DEF Horizon, QuietSince, DeadlineMs, Later, Working
    <3>2. NowMs \in Nat /\ clock.instant \in Nat
      BY WaitFacts DEF IInv, ClockTyped
    <3> QED
      BY <2>1, <3>1, <3>2 DEF DeadlineOf
  <2>3. PICK r : r = [task[a] EXCEPT !.pc = "blocked", !.seen = task[a].seen,
                                     !.gen = 0, !.now = 0, !.wake = wake]
    OBVIOUS
  <2>4. /\ r \in Working /\ r.pc = "blocked" /\ r.seen = task[a].seen
        /\ SameCount(task[a], r)
    BY <1>1, <2>2, <2>3 DEF Working, SameCount
  <2>5. /\ Reached(r, news) /\ r.minSeq = task[a].minSeq /\ r.started = task[a].started
        /\ CaughtUp(task[a], news, obs.journal) => CaughtUp(r, news, obs.journal)
    BY <1>1, <2>4, CountsAreKept DEF Counting
  <2>6. ASSUME pump.step # "bump", r.seen = generation
        PROVE  CaughtUp(r, news, obs.journal)
    <3>1. task[a].gen = generation
      BY <1>1, <2>4, <2>6 DEF Working
    <3>2. CaughtUp(task[a], news, obs.journal)
      BY <1>1, <2>6, <3>1 DEF WaitInv
    <3> QED
      BY <2>5, <3>2
  <2>7. WaitInv(r, news, obs.journal, generation, pump.step = "bump", NowMs)
    BY <1>1, <2>4, <2>6, <2>5 DEF WaitInv, Shape
  <2>8. task' = [task EXCEPT ![a] = r]
    BY <1>5, <2>1, <2>3 DEF SeenWhileBlocked
  <2> QED
    BY <1>1, <1>2, <2>4, <2>7, <2>8, <2>5, WaitMoves DEF RegisteredSteps
<1> QED
  BY <1>3, <1>4, <1>5 DEF Decide

\* Waking by the channel sees the generation; waking by the timer does not.
LEMMA WakeKeeps ==
  ASSUME IInv, NEW a \in Waiters, Wake(a)
  PROVE  IInv'
<1>1. /\ task[a].pc = "blocked" /\ task[a] \in Working
      /\ task[a].seen <= generation /\ generation \in Nat
  BY WaitFacts, ShapeByStep DEF Wake, WaitInv, Watching
<1>2. /\ instant' = instant /\ clock' = clock /\ obs' = obs /\ generation' = generation
      /\ pump' = pump /\ action' = action /\ stream' = stream /\ news' = news
  BY DEF Wake
<1>3. PICK seen : /\ seen \in {task[a].seen, generation}
                  /\ task' = [task EXCEPT ![a] =
                       [task[a] EXCEPT !.pc = "read", !.seen = seen, !.wake = 0]]
  <2>1. CASE task' = [task EXCEPT ![a].pc = "read", ![a].seen = generation, ![a].wake = 0]
    BY <2>1
  <2>2. CASE task' = [task EXCEPT ![a].pc = "read", ![a].wake = 0]
    <3>1. [task[a] EXCEPT !.pc = "read", !.wake = 0] =
            [task[a] EXCEPT !.pc = "read", !.seen = task[a].seen, !.wake = 0]
      BY <1>1 DEF Working
    <3> QED
      BY <2>2, <3>1
  <2> QED
    BY <2>1, <2>2 DEF Wake
<1>4. PICK r : r = [task[a] EXCEPT !.pc = "read", !.seen = seen, !.wake = 0]
  OBVIOUS
<1>5. seen \in Nat /\ seen <= generation
  BY <1>1, <1>3 DEF Working
<1>6. r \in Working /\ r.pc = "read" /\ r.seen = seen /\ SameCount(task[a], r)
  BY <1>1, <1>4, <1>5 DEF Working, SameCount
<1>7. Reached(r, news) /\ r.minSeq = task[a].minSeq /\ r.started = task[a].started
  BY <1>1, <1>6, CountsAreKept DEF Counting
<1>8. WaitInv(r, news, obs.journal, generation, pump.step = "bump", NowMs)
  BY <1>5, <1>6, <1>7 DEF WaitInv, Shape
<1>9. task' = [task EXCEPT ![a] = r]
  BY <1>3, <1>4
<1> QED
  BY <1>1, <1>2, <1>6, <1>7, <1>8, <1>9, WaitMoves DEF RegisteredSteps

\* The flag is judged later and by a weaker bound than the condition was.
LEMMA ResolveKeeps ==
  ASSUME IInv, NEW a \in Waiters, Resolve(a)
  PROVE  IInv'
<1>1. /\ task[a].pc = "resolve" /\ task[a] \in Working
      /\ task[a].now <= NowMs /\ NowMs \in Nat /\ QuietMs \in Nat
      /\ task[a].met /\ task[a].condition = "quiet" =>
           task[a].now >= QuietSince(task[a]) + QuietMs
  BY WaitFacts, ShapeByStep DEF Resolve, WaitInv
<1>2. PICK quiet : quiet = QuietFlag(task[a])
  OBVIOUS
<1>3. PICK r : r = [pc |-> "drop", condition |-> task[a].condition, met |-> task[a].met,
                    quiet |-> quiet, minSeq |-> task[a].minSeq, started |-> task[a].started]
  OBVIOUS
<1>4. /\ task' = [task EXCEPT ![a] = r]
      /\ instant' = instant /\ clock' = clock /\ obs' = obs /\ generation' = generation
      /\ pump' = pump /\ action' = action /\ stream' = stream /\ news' = news
  BY <1>2, <1>3 DEF Resolve
<1>5. quiet \in BOOLEAN
  BY <1>2 DEF QuietFlag
<1>6. /\ r \in Resolved /\ r.pc = "drop" /\ r.met = task[a].met /\ r.quiet = quiet
      /\ r.condition = task[a].condition
      /\ r.minSeq = task[a].minSeq /\ r.started = task[a].started
  BY <1>1, <1>3, <1>5 DEF Working, Resolved
<1>7. task[a].met /\ task[a].condition = "quiet" => quiet
  <2>1. /\ task[a].now \in Nat /\ task[a].anchor \in Nat /\ task[a].lastCommit \in Nat
    BY <1>1 DEF Working
  <2>2. PICK from : from = IF task[a].lastCommit = 0 THEN task[a].anchor ELSE task[a].lastCommit
    OBVIOUS
  <2>3. from \in Nat /\ QuietSince(task[a]) \in Nat /\ from <= QuietSince(task[a])
    BY <2>1, <2>2 DEF QuietSince, Later
  <2>4. quiet = (NowMs >= from + QuietMs)
    BY <1>2, <2>2 DEF QuietFlag
  <2> SUFFICES ASSUME task[a].met, task[a].condition = "quiet"
               PROVE  NowMs >= from + QuietMs
    BY <2>4
  <2>5. task[a].now >= QuietSince(task[a]) + QuietMs
    BY <1>1
  <2> QED
    BY <1>1, <2>1, <2>3, <2>5
<1>8. WaitInv(r, news, obs.journal, generation, pump.step = "bump", NowMs)
  BY <1>6, <1>7 DEF WaitInv, Shape, Watching, Counting
<1> QED
  BY <1>1, <1>4, <1>6, <1>8, WaitMoves DEF RegisteredSteps

\* What the registrations are before a step of the task a.
LEMMA ActiveFacts ==
  ASSUME IInv
  PROVE  /\ IsFiniteSet(Active)
         /\ Active = {b \in Waiters : task[b].pc \in RegisteredSteps}
         /\ \A b \in Active : KeyOf[b] = << task[b].minSeq, task[b].started >>
         /\ Registrations(Active, KeyOf, obs.pending, obs.windows)
<1>1. IsFiniteSet(Active)
  BY WaitsAssumption, FS_Subset DEF Active
<1> QED
  BY <1>1 DEF IInv, Active, KeyOf, Key, Registered, RegisteredSteps

\* PendingGuard::register.
LEMMA AnnounceKeeps ==
  ASSUME IInv, NEW a \in Waiters, Announce(a)
  PROVE  IInv'
<1>1. /\ task[a].pc = "register" /\ task[a] \in Working
      /\ task[a].seen <= generation
      /\ ObserverTyped(obs)
  BY WaitFacts, ShapeByStep DEF Announce, WaitInv, Watching
<1>2. PICK r : r = [task[a] EXCEPT !.pc = "read"]
  OBVIOUS
<1>3. /\ task' = [task EXCEPT ![a] = r]
      /\ instant' = instant /\ clock' = clock /\ generation' = generation
      /\ pump' = pump /\ action' = action /\ stream' = stream /\ news' = news
      /\ obs' = Register(obs, Window, Key(a))
  BY <1>2 DEF Announce
<1>4. r \in Working /\ r.pc = "read" /\ r.seen = task[a].seen /\ SameCount(task[a], r)
  BY <1>1, <1>2 DEF Working, SameCount
<1>5. Reached(r, news) /\ r.minSeq = task[a].minSeq /\ r.started = task[a].started
  BY <1>1, <1>4, CountsAreKept DEF Counting
<1>6. WaitInv(r, news, obs.journal, generation, pump.step = "bump", NowMs)
  BY <1>1, <1>4, <1>5 DEF WaitInv, Shape
<1>7. /\ task'[a] = r /\ \A b \in Waiters \ {a} : task'[b] = task[b]
  BY <1>3 DEF IInv, TasksInv
<1>8. a \notin Active /\ Active' = Active \cup {a}
  BY <1>1, <1>4, <1>7 DEF Active, Registered
<1>9. /\ KeyOf'[a] = Key(a)
      /\ \A b \in Active : KeyOf'[b] = KeyOf[b]
  BY <1>7, <1>8, <1>5 DEF KeyOf, Key, Active
<1>10. /\ ObserverTyped(obs') /\ obs'.journal = obs.journal
      /\ DOMAIN obs'.windows = DOMAIN obs.windows
      /\ Registrations(Active \cup {a}, KeyOf', obs'.pending, obs'.windows)
  <2>1. IsFiniteSet(Active) /\ Registrations(Active, KeyOf, obs.pending, obs.windows)
    BY ActiveFacts
  <2>2. PICK active, key, key2, k, p :
          /\ active = Active /\ key = KeyOf /\ key2 = KeyOf' /\ k = Key(a) /\ p = obs'
    OBVIOUS
  <2>3. Guarded(obs, active, key) /\ Joins(active, key, a, k, key2) /\ p = Register(obs, Window, k)
    BY <1>1, <1>3, <1>8, <1>9, <2>1, <2>2 DEF Guarded, Joins
  <2>4. Reguarded(obs, p, active \cup {a}, key2)
    BY <2>3, RegisterProperties
  <2> QED
    BY <2>2, <2>4 DEF Reguarded
<1> QED
  BY <1>3, <1>6, <1>8, <1>10, WaitMovesWith

\* PendingGuard::drop, on return and when the future is dropped.
LEMMA LeaveKeeps ==
  ASSUME IInv, NEW a \in Waiters, a \in Active,
         NEW r, task' = [task EXCEPT ![a] = r], r.pc \notin RegisteredSteps,
         WaitInv(r, news, obs.journal, generation, pump.step = "bump", NowMs),
         instant' = instant, clock' = clock, generation' = generation,
         pump' = pump, action' = action, stream' = stream, news' = news,
         obs' = Unregister(obs, Window, Key(a))
  PROVE  IInv'
<1>1. ObserverTyped(obs)
  BY WaitFacts
<1>2. /\ task'[a] = r /\ \A b \in Waiters \ {a} : task'[b] = task[b]
  BY DEF IInv, TasksInv
<1>3. Active' = Active \ {a}
  BY <1>2 DEF Active, Registered, RegisteredSteps
<1>4. /\ KeyOf[a] = Key(a)
      /\ \A b \in Active \ {a} : KeyOf'[b] = KeyOf[b]
  BY <1>2, <1>3 DEF KeyOf, Key, Active
<1>5. /\ ObserverTyped(obs') /\ obs'.journal = obs.journal
      /\ DOMAIN obs'.windows = DOMAIN obs.windows
      /\ Registrations(Active \ {a}, KeyOf', obs'.pending, obs'.windows)
  <2>1. IsFiniteSet(Active) /\ Registrations(Active, KeyOf, obs.pending, obs.windows)
    BY ActiveFacts
  <2>2. obs' = Unregister(obs, Window, KeyOf[a])
    BY <1>4
  <2>3. PICK active, key, key2, p :
          active = Active /\ key = KeyOf /\ key2 = KeyOf' /\ p = obs'
    OBVIOUS
  <2>4. Guarded(obs, active, key) /\ Leaves(active, key, a, key2)
    BY <1>1, <1>4, <2>1, <2>3 DEF Guarded, Leaves
  <2>5. Reguarded(obs, p, active \ {a}, key2)
    BY <2>2, <2>3, <2>4, UnregisterProperties
  <2> QED
    BY <2>3, <2>5 DEF Reguarded
<1> QED
  BY <1>3, <1>5, WaitMovesWith

LEMMA DropGuardKeeps ==
  ASSUME IInv, NEW a \in Waiters, DropGuard(a)
  PROVE  IInv'
<1>1. /\ task[a].pc = "drop" /\ task[a] \in Resolved
      /\ task[a].met /\ task[a].condition = "quiet" => task[a].quiet
  BY WaitFacts, ShapeByStep DEF DropGuard, WaitInv
<1>2. PICK r : r = [pc |-> "done", condition |-> task[a].condition, met |-> task[a].met,
                    quiet |-> task[a].quiet]
  OBVIOUS
<1>3. /\ task' = [task EXCEPT ![a] = r]
      /\ instant' = instant /\ clock' = clock /\ generation' = generation
      /\ pump' = pump /\ action' = action /\ stream' = stream /\ news' = news
      /\ obs' = Unregister(obs, Window, Key(a))
  BY <1>2 DEF DropGuard
<1>4. /\ r \in Ended /\ r.pc = "done" /\ r.met = task[a].met /\ r.quiet = task[a].quiet
      /\ r.condition = task[a].condition
  BY <1>1, <1>2 DEF Resolved, Ended
<1>5. WaitInv(r, news, obs.journal, generation, pump.step = "bump", NowMs)
  BY <1>1, <1>4 DEF WaitInv, Shape, Watching, Counting
<1>6. a \in Active
  BY <1>1 DEF Active, Registered
<1> QED
  BY <1>3, <1>4, <1>5, <1>6, LeaveKeeps DEF RegisteredSteps

LEMMA CancelKeeps ==
  ASSUME IInv, NEW a \in Waiters, Cancel(a)
  PROVE  IInv'
<1>1. /\ task[a].pc = "blocked" /\ task' = [task EXCEPT ![a] = Idle]
      /\ instant' = instant /\ clock' = clock /\ generation' = generation
      /\ pump' = pump /\ action' = action /\ stream' = stream /\ news' = news
      /\ obs' = Unregister(obs, Window, Key(a))
  BY DEF Cancel
<1>2. Idle.pc = "idle"
  BY DEF Idle
<1>3. WaitInv(Idle, news, obs.journal, generation, pump.step = "bump", NowMs)
  BY <1>2 DEF WaitInv, Shape, Watching, Counting
<1>4. a \in Active
  BY <1>1 DEF Active, Registered
<1> QED
  BY <1>1, <1>2, <1>3, <1>4, LeaveKeeps DEF RegisteredSteps

-----------------------------------------------------------------------------
(* Steps of the pump, of the action and of time.                           *)

(***************************************************************************)
(* No task moves: it is enough that the waits, the clock, the state and    *)
(* the pump are still in order and that no window shows a wrong key.       *)
(***************************************************************************)
LEMMA WorldMoves ==
  ASSUME IInv, task' = task, ClockTyped', StateTyped', StreamTyped', PumpTyped',
         \A a \in Waiters :
           WaitInv(task[a], news', obs'.journal, generation', pump'.step = "bump", NowMs'),
         obs'.pending = obs.pending, Showing(obs'.windows, obs.pending)
  PROVE  IInv'
<1>1. TasksInv'
  BY DEF IInv, TasksInv
<1>2. Active' = Active /\ KeyOf' = KeyOf
  BY DEF Active, KeyOf, Key, Registered
<1>3. Registrations(Active, KeyOf, obs.pending, obs.windows)
  BY DEF IInv
<1>4. Registrations(Active', KeyOf', obs'.pending, obs'.windows)
  BY <1>2, <1>3 DEF Registrations
<1> QED
  BY <1>1, <1>4 DEF IInv

\* The same when the state does not change at all and only time advances.
LEMMA TimeMoves ==
  ASSUME IInv, task' = task, obs' = obs, news' = news, generation' = generation,
         action' = action, ClockTyped', NowMs <= NowMs', StreamTyped', PumpTyped',
         pump'.step = "bump" <=> pump.step = "bump"
  PROVE  IInv'
<1>1. NowMs \in Nat /\ NowMs' \in Nat
  <2>1. NowMs \in Nat
    BY TimeIsNatural DEF IInv
  <2>2. NowMs' \in Nat
    BY DEF ClockTyped, NowMs
  <2> QED
    BY <2>1, <2>2
<1>2. ASSUME NEW a \in Waiters
      PROVE  WaitInv(task[a], news', obs'.journal, generation', pump'.step = "bump", NowMs')
  <2>1. WaitInv(task[a], news, obs.journal, generation, pump.step = "bump", NowMs)
    BY WaitFacts
  <2>2. PICK now, now2 : now = NowMs /\ now2 = NowMs'
    OBVIOUS
  <2>3. WaitInv(task[a], news, obs.journal, generation, pump.step = "bump", now2)
    BY <1>1, <2>1, <2>2, WaitInvInTime
  <2>4. (pump'.step = "bump") = (pump.step = "bump")
    OBVIOUS
  <2> QED
    BY <2>2, <2>3, <2>4
<1>3. StateTyped' /\ Registrations(Active, KeyOf, obs.pending, obs.windows)
  BY DEF IInv, StateTyped
<1>4. Showing(obs'.windows, obs.pending)
  BY <1>3 DEF Registrations
<1> QED
  BY <1>2, <1>3, <1>4, WorldMoves

\* What may answer a QueryState is a snapshot.
LEMMA ReportsTyped ==
  ASSUME IInv, NEW n \in Nat, NEW windows \in Reports(n)
  PROVE  SnapshotTyped([seq |-> n, windows |-> windows])
<1> DEFINE Report(x) ==
      DOMAIN x \subseteq {Window, Other} /\ \A w \in DOMAIN x : x[w] \in Nat
<1>1. WindowsTyped(obs.windows) /\ Window \in Nat /\ Other \in Nat
  BY WaitsAssumption DEF IInv, StateTyped, ObserverTyped, Other
<1>2. PICK known : known = IF Tracked THEN obs.windows[Window].commits ELSE 0
  OBVIOUS
<1>3. known \in Nat
  BY <1>1, <1>2 DEF Tracked, WindowsTyped
<1>4. Report(NoEntries) /\ Report(Put(NoEntries, Window, known)) /\ Report(Put(NoEntries, Window, n))
  BY <1>3 DEF Put, NoEntries
<1>5. PICK own : own = IF stream.window # "alive" THEN {NoEntries}
                       ELSE {Put(NoEntries, Window, known)}
                            \cup (IF n = obs.watermark THEN {}
                                  ELSE {NoEntries, Put(NoEntries, Window, n)})
  OBVIOUS
<1>6. \A x \in own : x \in {NoEntries, Put(NoEntries, Window, known), Put(NoEntries, Window, n)}
  BY <1>5
<1>7. \A x \in own : Report(x)
  BY <1>4, <1>6
<1>8. windows \in own \cup {Put(x, Other, n) : x \in own}
  BY <1>2, <1>5 DEF Reports
<1>9. ASSUME NEW x \in own
      PROVE  Report(Put(x, Other, n))
  BY <1>7 DEF Put
<1>10. Report(windows)
  BY <1>7, <1>8, <1>9
<1>11. IsFiniteSet({Window, Other})
  <2>1. IsFiniteSet({Window}) /\ IsFiniteSet({Other}) /\ {Window, Other} = {Window} \cup {Other}
    BY FS_Singleton
  <2> QED
    BY <2>1, FS_Union
<1>12. IsFiniteSet(DOMAIN windows)
  BY <1>10, <1>11, FS_Subset
<1> QED
  BY <1>1, <1>10, <1>12 DEF SnapshotTyped

\* Clock::observe_ts comes before the state.
LEMMA PumpTakesKeeps ==
  ASSUME IInv, NEW ts \in Nat, NEW input, InputTyped(input), PumpTakes(ts, input), StreamTyped'
  PROVE  IInv'
<1>1. /\ clock' = ObserveTs(ts) /\ pump' = [step |-> "state", ts |-> ts, input |-> input]
      /\ pump = PumpIdle
      /\ instant' = instant /\ obs' = obs /\ news' = news /\ generation' = generation
      /\ action' = action /\ task' = task
  BY DEF PumpTakes
<1>2. ClockTyped' /\ NowMs <= NowMs'
  <2>1. ClockTyped
    BY DEF IInv
  <2> QED
    BY <1>1, <2>1, ClockOnlyAdvances
<1>3. pump.step # "bump" /\ pump'.step = "state" /\ pump'.ts = ts /\ pump'.input = input
  BY <1>1 DEF PumpIdle
<1>4. PumpTyped'
  BY <1>3 DEF PumpTyped
<1> QED
  BY <1>1, <1>2, <1>3, <1>4, TimeMoves

\* Numbers and timestamps of the channel and of the compositor.
LEMMA StreamFacts ==
  ASSUME IInv
  PROVE  /\ HandledAt \subseteq Nat /\ Late \subseteq Nat
         /\ stream.at .. stream.present \subseteq Nat
         /\ obs.watermark \in Nat /\ Window \in Nat /\ Other \in Nat
BY WaitsAssumption
   DEF IInv, ClockTyped, StateTyped, ObserverTyped, StreamTyped, HandledAt, Late, Other

LEMMA PumpTakesEventKeeps ==
  ASSUME IInv, PumpTakesEvent
  PROVE  IInv'
<1>0. PICK n \in Late \cup {obs.watermark + 1} : \E e \in Happenings(n) :
        \E ts \in IF n \in Late THEN stream.at .. stream.present ELSE HandledAt :
          /\ PumpTakes(ts, [kind |-> e.kind, window |-> e.window, seq |-> n])
          /\ stream' = [last |-> n, at |-> ts, present |-> Later(stream.present, ts),
                        window |-> IF e = [kind |-> "destroyed", window |-> Window] THEN "destroyed"
                                   ELSE stream.window]
  BY DEF PumpTakesEvent
<1>1. PICK e \in Happenings(n), ts \in IF n \in Late THEN stream.at .. stream.present ELSE HandledAt :
        /\ PumpTakes(ts, [kind |-> e.kind, window |-> e.window, seq |-> n])
        /\ stream' = [last |-> n, at |-> ts, present |-> Later(stream.present, ts),
                      window |-> IF e = [kind |-> "destroyed", window |-> Window] THEN "destroyed"
                                 ELSE stream.window]
  BY <1>0
<1>2. n \in Nat /\ ts \in Nat
  BY <1>1, StreamFacts
<1>3. e.kind \in EventKinds \cup {"server"} /\ e.window \in Nat
  <2>1. KindsLeft(n) \subseteq EventKinds /\ OtherKinds \subseteq EventKinds
    BY WaitsAssumption DEF KindsLeft, EventKinds
  <2>2. \/ \E kind \in KindsLeft(n) : e = [kind |-> kind, window |-> Window]
        \/ \E kind \in OtherKinds : e = [kind |-> kind, window |-> Other]
        \/ e = [kind |-> "server", window |-> Other]
    BY DEF Happenings
  <2> QED
    BY <2>1, <2>2, StreamFacts
<1>4. PICK input : input = [kind |-> e.kind, window |-> e.window, seq |-> n]
  OBVIOUS
<1>5. InputTyped(input) /\ PumpTakes(ts, input)
  BY <1>1, <1>2, <1>3, <1>4 DEF InputTyped
<1>6. StreamTyped'
  BY <1>1, <1>2 DEF IInv, StreamTyped, Later
<1> QED
  BY <1>2, <1>5, <1>6, PumpTakesKeeps

LEMMA PumpTakesSnapshotKeeps ==
  ASSUME IInv, PumpTakesSnapshot
  PROVE  IInv'
<1>0. PICK n \in obs.watermark .. MaxEvents : \E windows \in Reports(n), ts \in HandledAt :
        /\ PumpTakes(ts, [kind |-> "resync", snap |-> [seq |-> n, windows |-> windows]])
        /\ stream' = [stream EXCEPT
             !.present = ts,
             !.window = IF @ = "alive" /\ Window \notin DOMAIN windows THEN "removed" ELSE @]
  BY DEF PumpTakesSnapshot
<1>1. PICK windows \in Reports(n), ts \in HandledAt :
        /\ PumpTakes(ts, [kind |-> "resync", snap |-> [seq |-> n, windows |-> windows]])
        /\ stream' = [stream EXCEPT
             !.present = ts,
             !.window = IF @ = "alive" /\ Window \notin DOMAIN windows THEN "removed" ELSE @]
  BY <1>0
<1>2. n \in Nat /\ ts \in Nat
  BY <1>1, StreamFacts, WaitsAssumption
<1>3. PICK snap, input : /\ snap = [seq |-> n, windows |-> windows]
                         /\ input = [kind |-> "resync", snap |-> snap]
  OBVIOUS
<1>4. SnapshotTyped(snap)
  BY <1>2, <1>3, ReportsTyped
<1>5. InputTyped(input) /\ PumpTakes(ts, input)
  BY <1>1, <1>3, <1>4 DEF InputTyped
<1>6. StreamTyped'
  <2>1. /\ stream'.present \in {ts, stream.present}
        /\ stream'.at = stream.at /\ stream'.last = stream.last
    BY <1>1
  <2> QED
    BY <1>2, <2>1 DEF IInv, StreamTyped
<1> QED
  BY <1>2, <1>5, <1>6, PumpTakesKeeps

\* The state after an input: it is in order, and the waiters' keys are shown as before.
LEMMA ObserverAfterProperties ==
  ASSUME IInv, NEW input, InputTyped(input), NEW ts \in Nat, NEW p, p = ObserverAfter(input, ts)
  PROVE  ObserverTyped(p) /\ p.pending = obs.pending /\ Showing(p.windows, obs.pending)
<1>1. /\ ObserverTyped(obs) /\ obs.watermark \in Nat
      /\ Showing(obs.windows, obs.pending) /\ DOMAIN obs.pending \subseteq {Window}
  BY DEF IInv, StateTyped, ObserverTyped, Registrations
<1>2. \A w : w # Window => Shown(obs.pending, w) = NoWait
  BY <1>1 DEF Shown
<1>3. CASE input.kind = "resync"
  <2>1. p = Resync(obs, input.snap, ts)
    BY <1>3 DEF ObserverAfter
  <2>2. SnapshotTyped(input.snap)
    BY <1>3 DEF InputTyped, EventKinds
  <2>3. Resynced(obs, p, input.snap) /\ input.snap.seq \in Nat
    BY <1>1, <2>1, <2>2, ResyncProperties DEF SnapshotTyped
  <2>4. CASE input.snap.seq < obs.watermark
    BY <1>1, <2>3, <2>4 DEF Resynced
  <2>5. CASE input.snap.seq >= obs.watermark
    BY <1>1, <2>3, <2>5 DEF Resynced, Showing
  <2> QED
    BY <1>1, <2>3, <2>4, <2>5
<1>4. CASE input.kind = "server"
  <2>1. p = [obs EXCEPT !.watermark = Later(obs.watermark, input.seq)]
    BY <1>4 DEF ObserverAfter, HandleUncounted
  <2>2. PICK mark : mark = Later(obs.watermark, input.seq)
    OBVIOUS
  <2>3. mark \in Nat /\ obs.watermark <= mark
    BY <1>1, <1>4, <2>2 DEF InputTyped, Later
  <2>4. /\ DOMAIN p = {"windows", "watermark", "journal", "pending"} /\ p.watermark = mark
        /\ p.windows = obs.windows /\ p.journal = obs.journal /\ p.pending = obs.pending
    BY <1>1, <2>1, <2>2 DEF ObserverTyped
  <2>5. JournalTyped(obs.journal, mark)
    <3>1. obs.journal \in Seq(Entries) /\ \A e \in Elems(obs.journal) : e.seq <= obs.watermark
      BY <1>1 DEF ObserverTyped, JournalTyped
    <3>2. \A e \in Elems(obs.journal) : e.seq \in Nat
      <4>1. \A e \in Elems(obs.journal) : e \in Entries
        BY <3>1 DEF Elems
      <4> QED
        BY <4>1 DEF Entries
    <3> QED
      BY <1>1, <2>3, <3>1, <3>2 DEF JournalTyped
  <2>6. ObserverTyped(p)
    BY <1>1, <2>3, <2>4, <2>5 DEF ObserverTyped
  <2> QED
    BY <1>1, <2>4, <2>6
<1>5. CASE input.kind \notin {"resync", "server"}
  <2>1. p = HandleEvent(obs, input.seq, input.kind, input.window, input.seq, ts)
    BY <1>5 DEF ObserverAfter
  <2>2. input.kind \in EventKinds /\ input.seq \in Nat /\ input.window \in Nat
    BY <1>5 DEF InputTyped
  <2>3. Handled(obs, p, input.seq, input.kind, input.window, input.seq)
    BY <1>1, <2>1, <2>2, HandleEventProperties
  <2>4. ASSUME NEW w \in DOMAIN p.windows
        PROVE  p.windows[w].waiting \in
                 {NoWait} \cup (IF w = Window THEN {Shown(obs.pending, Window)} ELSE {})
    <3>1. CASE w = input.window
      BY <1>2, <2>3, <3>1 DEF Handled
    <3>2. CASE w # input.window
      <4>1. w \in DOMAIN obs.windows /\ p.windows[w].waiting = obs.windows[w].waiting
        BY <2>3, <3>2 DEF Handled
      <4> QED
        BY <1>1, <4>1 DEF Showing
    <3> QED
      BY <3>1, <3>2
  <2> QED
    BY <2>3, <2>4 DEF Handled, Showing
<1> QED
  BY <1>3, <1>4, <1>5

\* Whatever the journal becomes, what is known of it is right and has grown.
LEMMA InOrderProperties ==
  ASSUME NEW journal, NEW mark, JournalTyped(journal, mark), mark \in Nat,
         news.top \in Nat, news.own \subseteq Nat
  PROVE  Recorded(InOrder(journal), journal) /\ Grown(news, InOrder(journal))
<1> DEFINE numbers(S) == {journal[i].seq : i \in S}
<1>1. PICK all : all = numbers(1 .. Len(journal)) \cup {news.top}
  OBVIOUS
<1>2. PICK top : top = CHOOSE n \in all : \A m \in all : m <= n
  OBVIOUS
<1>3. PICK own : own = {n \in numbers({i \in 1 .. Len(journal) : journal[i].window = Window}) :
                          n \in news.own \/ n > news.top}
  OBVIOUS
<1>4. PICK known : known = InOrder(journal)
  OBVIOUS
<1>5. known = [top |-> top, own |-> own]
  BY <1>1, <1>2, <1>3, <1>4 DEF InOrder
<1>6. \A i \in 1 .. Len(journal) : journal[i].seq \in Nat /\ journal[i].seq <= mark
  <2>1. journal \in Seq(Entries) /\ \A e \in Elems(journal) : e.seq <= mark
    BY DEF JournalTyped
  <2>2. \A i \in 1 .. Len(journal) : journal[i] \in Entries /\ journal[i] \in Elems(journal)
    BY <2>1 DEF Elems
  <2> QED
    BY <2>1, <2>2 DEF Entries
<1>7. top \in all /\ \A m \in all : m <= top
  <2>1. PICK bound \in Nat : mark <= bound /\ news.top <= bound
    <3>1. mark <= mark + news.top /\ news.top <= mark + news.top /\ mark + news.top \in Nat
      OBVIOUS
    <3> QED
      BY <3>1
  <2>2. all \in SUBSET Nat /\ all # {}
    BY <1>1, <1>6
  <2>3. \A m \in all : m <= bound
    BY <1>1, <1>6, <2>1
  <2>4. \E n \in all : \A m \in all : m <= n
    BY <2>2, <2>3, GreatestNatural
  <2> QED
    BY <1>2, <2>4
<1>8. top \in Nat /\ news.top <= top /\ \A i \in 1 .. Len(journal) : journal[i].seq <= top
  BY <1>1, <1>6, <1>7
<1>9. ASSUME NEW n \in own
      PROVE  /\ n \in Nat /\ (n \in news.own \/ n > news.top)
             /\ \E i \in 1 .. Len(journal) : journal[i].window = Window /\ journal[i].seq = n
  <2>1. PICK i \in 1 .. Len(journal) : journal[i].window = Window /\ journal[i].seq = n
    BY <1>3
  <2> QED
    BY <1>3, <1>6, <2>1
<1>10. Recorded(known, journal) /\ Grown(news, known)
  BY <1>5, <1>8, <1>9 DEF Recorded, Grown
<1> QED
  BY <1>4, <1>10

(***************************************************************************)
(* The state changes; the generation has yet to move, so that the waits    *)
(* that read it need not have counted what is new.                         *)
(***************************************************************************)
LEMMA PumpStateKeeps ==
  ASSUME IInv, PumpState
  PROVE  IInv'
<1>1. /\ instant' = instant /\ clock' = clock /\ generation' = generation
      /\ stream' = stream /\ action' = action /\ task' = task /\ pump' = [step |-> "bump"]
  BY DEF PumpState
<1>2. InputTyped(pump.input) /\ pump.ts \in Nat
  BY DEF IInv, PumpTyped, PumpState
<1>3. PICK p : p = obs'
  OBVIOUS
<1>4. ObserverTyped(p) /\ p.pending = obs.pending /\ Showing(p.windows, obs.pending)
  <2>1. p = ObserverAfter(pump.input, pump.ts)
    BY <1>3 DEF PumpState
  <2> QED
    BY <1>2, <2>1, ObserverAfterProperties
<1>5. PICK known : known = news'
  OBVIOUS
<1>6. Recorded(known, p.journal) /\ Grown(news, known)
  <2>1. known = InOrder(p.journal)
    BY <1>3, <1>5 DEF PumpState
  <2>2. JournalTyped(p.journal, p.watermark) /\ p.watermark \in Nat
    BY <1>4 DEF ObserverTyped
  <2>3. news.top \in Nat /\ news.own \subseteq Nat
    BY DEF IInv, StateTyped, Recorded
  <2> QED
    BY <2>1, <2>2, <2>3, InOrderProperties
<1>7. ClockTyped' /\ StateTyped' /\ StreamTyped' /\ PumpTyped' /\ NowMs' = NowMs
  BY <1>1, <1>3, <1>4, <1>5, <1>6
     DEF IInv, ClockTyped, StateTyped, StreamTyped, PumpTyped, NowMs
<1>8. ASSUME NEW a \in Waiters
      PROVE  WaitInv(task[a], news', obs'.journal, generation', pump'.step = "bump", NowMs')
  <2>1. WaitInv(task[a], news, obs.journal, generation, pump.step = "bump", NowMs)
    BY WaitFacts
  <2>2. WaitInv(task[a], known, p.journal, generation, TRUE, NowMs)
    BY <1>6, <2>1, WaitInvWhileBumping
  <2>3. (pump'.step = "bump") = TRUE
    BY <1>1
  <2> QED
    BY <1>1, <1>3, <1>5, <1>7, <2>2, <2>3
<1> QED
  BY <1>1, <1>3, <1>4, <1>7, <1>8, WorldMoves

LEMMA PumpBumpKeeps ==
  ASSUME IInv, PumpBump
  PROVE  IInv'
<1>1. /\ pump.step = "bump" /\ pump' = PumpIdle /\ generation' = generation + 1
      /\ instant' = instant /\ clock' = clock /\ obs' = obs /\ action' = action /\ task' = task
      /\ stream' = stream /\ news' = news
  BY DEF PumpBump
<1>2. pump'.step = "idle"
  BY <1>1 DEF PumpIdle
<1>3. ClockTyped' /\ StateTyped' /\ StreamTyped' /\ PumpTyped' /\ NowMs' = NowMs
  BY <1>1, <1>2 DEF IInv, ClockTyped, StateTyped, StreamTyped, PumpTyped, NowMs
<1>4. ASSUME NEW a \in Waiters
      PROVE  WaitInv(task[a], news', obs'.journal, generation', pump'.step = "bump", NowMs')
  <2>1. WaitInv(task[a], news, obs.journal, generation, pump.step = "bump", NowMs) /\ generation \in Nat
    BY WaitFacts
  <2>2. (pump.step = "bump") = TRUE /\ (pump'.step = "bump") = FALSE
    BY <1>1, <1>2
  <2>3. WaitInv(task[a], news, obs.journal, generation, TRUE, NowMs)
    BY <2>1, <2>2
  <2>4. WaitInv(task[a], news, obs.journal, generation + 1, FALSE, NowMs)
    BY <2>1, <2>3, WaitInvAfterBump
  <2> QED
    BY <1>1, <1>3, <2>2, <2>4
<1>5. Showing(obs'.windows, obs.pending)
  BY <1>1 DEF IInv, Registrations
<1> QED
  BY <1>1, <1>3, <1>4, <1>5, WorldMoves

\* record_action: the timestamp, the watermark, the window's state.
LEMMA RecordKeeps ==
  ASSUME IInv, RecordClock \/ RecordSeq \/ RecordWindow
  PROVE  IInv'
<1>1. /\ instant' = instant /\ clock' = clock /\ generation' = generation
      /\ pump' = pump /\ task' = task /\ stream' = stream /\ news' = news
  BY DEF RecordClock, RecordSeq, RecordWindow
<1>2. ClockTyped' /\ StreamTyped' /\ PumpTyped' /\ NowMs' = NowMs /\ NowMs \in Nat
  BY <1>1, TimeIsNatural DEF IInv, ClockTyped, StreamTyped, PumpTyped, NowMs
<1>3. /\ ObserverTyped(obs) /\ Recorded(news, obs.journal) /\ obs.watermark \in Nat
      /\ Showing(obs.windows, obs.pending) /\ Window \in Nat
      /\ action \in [step : {"none", "clock", "seq", "known"}, seq : Nat, ts : Nat]
  BY WaitsAssumption DEF IInv, StateTyped, ObserverTyped, Registrations
<1>4. action' \in [step : {"none", "clock", "seq", "known"}, seq : Nat, ts : Nat]
  BY <1>2, <1>3 DEF RecordClock, RecordSeq, RecordWindow
<1>5. PICK p : p = obs'
  OBVIOUS
<1>6. /\ ObserverTyped(p) /\ p.pending = obs.pending /\ p.journal = obs.journal
      /\ Showing(p.windows, obs.pending)
  <2>1. CASE RecordWindow
    <3>1. Touched(obs, p, Window)
      BY <1>3, <1>5, <2>1, TouchWindowProperties DEF RecordWindow
    <3> QED
      BY <1>3, <3>1 DEF Touched, Showing
  <2>2. CASE RecordClock \/ RecordSeq
    <3>1. p = obs
      BY <1>5, <2>2 DEF RecordClock, RecordSeq
    <3> QED
      BY <1>3, <3>1
  <2> QED
    BY <2>1, <2>2
<1>7. StateTyped'
  BY <1>1, <1>3, <1>4, <1>5, <1>6 DEF StateTyped
<1>8. ASSUME NEW a \in Waiters
      PROVE  WaitInv(task[a], news', obs'.journal, generation', pump'.step = "bump", NowMs')
  <2>1. WaitInv(task[a], news, obs.journal, generation, pump.step = "bump", NowMs)
    BY WaitFacts
  <2>2. obs'.journal = obs.journal
    BY <1>5, <1>6
  <2> QED
    BY <1>1, <1>2, <2>1, <2>2
<1> QED
  BY <1>1, <1>2, <1>5, <1>6, <1>7, <1>8, WorldMoves

LEMMA TickKeeps ==
  ASSUME IInv, Tick
  PROVE  IInv'
<1>1. /\ instant \in Nat /\ generation \in Nat /\ clock \in [ts : Nat, instant : Nat]
      /\ clock.instant <= instant
  BY DEF IInv, ClockTyped
<1>2. /\ instant' = instant + 1 /\ clock' = clock /\ obs' = obs /\ generation' = generation
      /\ pump' = pump /\ action' = action /\ task' = task
      /\ stream' = stream /\ news' = news
  BY DEF Tick
<1>3. ClockTyped' /\ NowMs <= NowMs'
  BY <1>1, <1>2 DEF ClockTyped, NowMs
<1>4. StreamTyped' /\ PumpTyped'
  BY <1>2 DEF IInv, StreamTyped, PumpTyped
<1> QED
  BY <1>2, <1>3, <1>4, TimeMoves

LEMMA StutterKeeps ==
  ASSUME IInv, UNCHANGED wvars
  PROVE  IInv'
BY DEF IInv, wvars, ClockTyped, StateTyped, StreamTyped, PumpTyped, TasksInv,
       Active, KeyOf, Key, Registered, NowMs

-----------------------------------------------------------------------------
(* The results.                                                            *)

LEMMA FirstEventJournalled ==
  ASSUME NEW o, o = HandleEvent(EmptyObserver, 1, "created", Window, 0, 0)
  PROVE  o.journal = << Entry(1, "created", Window, 0, 0) >>
<1>1. PICK e : e = Entry(1, "created", Window, 0, 0)
  OBVIOUS
<1>2. PICK q : q = [EmptyObserver EXCEPT !.watermark = Later(@, 1),
                                         !.windows = WindowsAfter(@, "created", Window, 0),
                                         !.journal = PushEntry(@, e)]
  OBVIOUS
<1>3. o = Refresh(q, Window)
  BY <1>1, <1>2 DEF HandleEvent
<1>4. q.journal = PushEntry(<< >>, e)
  BY <1>2 DEF EmptyObserver
<1>5. o.journal = q.journal
  BY <1>2, <1>3 DEF Refresh, EmptyObserver
<1>6. Later(0, Len(<< e >>) - JournalCap) = 0
  BY ObserverAssumption DEF Later
<1>7. PushEntry(<< >>, e) = SubSeq(<< e >>, 1, 1)
  <2>1. Append(<< >>, e) = << e >> /\ Len(<< e >>) = 1
    OBVIOUS
  <2> QED
    BY <1>6, <2>1 DEF PushEntry, Retained
<1>8. SubSeq(<< e >>, 1, 1) = << e >>
  <2>1. << e >> \in Seq({e}) /\ Len(<< e >>) = 1
    OBVIOUS
  <2> QED
    BY <2>1, SubSeqFull
<1> QED
  BY <1>1, <1>4, <1>5, <1>7, <1>8

\* The window was created, and nobody waits.
LEMMA InitHolds == WaitsInit => IInv
<1> SUFFICES ASSUME WaitsInit
             PROVE  IInv
  OBVIOUS
<1>1. /\ instant = 0 /\ clock = [ts |-> 0, instant |-> 0] /\ generation = 0
      /\ obs = HandleEvent(EmptyObserver, 1, "created", Window, 0, 0)
      /\ pump = PumpIdle /\ action = NoAction
      /\ task = [a \in Waiters |-> Idle]
  BY DEF WaitsInit
<1>2. Handled(EmptyObserver, obs, 1, "created", Window, 0)
  <2>1. Window \in Nat /\ "created" \in EventKinds
    BY WaitsAssumption DEF EventKinds
  <2> QED
    BY <1>1, <2>1, EmptyObserverTyped, HandleEventProperties
<1>3. /\ EmptyObserver.windows = NoEntries /\ EmptyObserver.pending = NoEntries
      /\ DOMAIN NoEntries = {}
  BY DEF EmptyObserver, NoEntries
<1>4. /\ ObserverTyped(obs) /\ DOMAIN obs.windows = {Window} /\ obs.pending = NoEntries
      /\ obs.windows[Window].waiting = Shown(NoEntries, Window)
  BY <1>2, <1>3 DEF Handled
<1>5. obs.journal = << Entry(1, "created", Window, 0, 0) >>
  BY <1>1, FirstEventJournalled
<1>6. Recorded(news, obs.journal)
  <2>1. PICK journal : journal = << Entry(1, "created", Window, 0, 0) >>
    OBVIOUS
  <2>2. Len(journal) = 1 /\ journal[1].seq = 1 /\ journal[1].window = Window
    BY <2>1 DEF Entry
  <2>3. news = [top |-> 1, own |-> {1}]
    BY DEF WaitsInit
  <2>4. Recorded(news, journal)
    BY <2>2, <2>3 DEF Recorded
  <2> QED
    BY <1>5, <2>1, <2>4
<1>7. ClockTyped /\ StateTyped /\ StreamTyped /\ PumpTyped
  <2>1. stream = [last |-> 1, at |-> 0, present |-> 0, window |-> "alive"]
    BY DEF WaitsInit
  <2> QED
    BY <1>1, <1>4, <1>6, <2>1
       DEF ClockTyped, StateTyped, StreamTyped, PumpTyped, PumpIdle, NoAction
<1>8. TasksInv
  <2>1. Idle.pc = "idle"
    BY DEF Idle
  <2>2. WaitInv(Idle, news, obs.journal, generation, pump.step = "bump", NowMs)
    BY <2>1 DEF WaitInv, Shape, Watching, Counting
  <2> QED
    BY <1>1, <2>2 DEF TasksInv
<1>9. Active = {}
  BY <1>1 DEF Active, Registered, Idle
<1>10. Registrations(Active, KeyOf, obs.pending, obs.windows)
  BY <1>3, <1>4, <1>9 DEF Registrations, Showing, Multiset, Get
<1> QED
  BY <1>7, <1>8, <1>10 DEF IInv

LEMMA StepKeeps == IInv /\ [WaitsNext]_wvars => IInv'
<1> SUFFICES ASSUME IInv, [WaitsNext]_wvars
             PROVE  IInv'
  OBVIOUS
<1>1. CASE PumpTakesEvent
  BY <1>1, PumpTakesEventKeeps
<1>2. CASE PumpTakesSnapshot
  BY <1>2, PumpTakesSnapshotKeeps
<1>3. CASE PumpState
  BY <1>3, PumpStateKeeps
<1>4. CASE PumpBump
  BY <1>4, PumpBumpKeeps
<1>5. CASE RecordClock \/ RecordSeq \/ RecordWindow
  BY <1>5, RecordKeeps
<1>6. CASE Tick
  BY <1>6, TickKeeps
<1>7. ASSUME NEW a \in Waiters, NEW plan \in Plans, Begin(a, plan[1], plan[2])
      PROVE  IInv'
  BY <1>7, BeginKeeps
<1>8. ASSUME NEW a \in Waiters, Cancel(a)
      PROVE  IInv'
  BY <1>8, CancelKeeps
<1>9. ASSUME NEW a \in Waiters, WaiterStep(a)
      PROVE  IInv'
  <2>1. CASE TakeFilterPoint(a)
    BY <2>1, TakeFilterPointKeeps
  <2>2. CASE CheckWindow(a)
    BY <2>2, CheckWindowKeeps
  <2>3. CASE Subscribe(a)
    BY <2>3, SubscribeKeeps
  <2>4. CASE Announce(a)
    BY <2>4, AnnounceKeeps
  <2>5. CASE ReadGeneration(a)
    BY <2>5, ReadGenerationKeeps
  <2>6. CASE ReadClock(a)
    BY <2>6, ReadClockKeeps
  <2>7. CASE Absorb(a)
    BY <2>7, AbsorbKeeps
  <2>8. CASE Decide(a)
    BY <2>8, DecideKeeps
  <2>9. CASE Wake(a)
    BY <2>9, WakeKeeps
  <2>10. CASE Resolve(a)
    BY <2>10, ResolveKeeps
  <2>11. CASE DropGuard(a)
    BY <2>11, DropGuardKeeps
  <2> QED
    BY <1>9, <2>1, <2>2, <2>3, <2>4, <2>5, <2>6, <2>7, <2>8, <2>9, <2>10, <2>11 DEF WaiterStep
<1>10. CASE UNCHANGED wvars
  BY <1>10, StutterKeeps
<1> QED
  BY <1>1, <1>2, <1>3, <1>4, <1>5, <1>6, <1>7, <1>8, <1>9, <1>10 DEF WaitsNext

(***************************************************************************)
(* The inductive invariant of the wait engine: run_wait, record_action and *)
(* the pump in any number of tasks, in any order of their steps.           *)
(***************************************************************************)
THEOREM WaitsInvariant == WaitsSpec => []IInv
BY InitHolds, StepKeeps, PTL DEF WaitsSpec

(***************************************************************************)
(* "No wakeup can be lost" (service.rs): a blocked waiter that has seen    *)
(* the generation has counted all that was journalled in order, because it *)
(* subscribed before it registered and reads the generation before the state, which   *)
(* the pump writes in the opposite order.                                  *)
(***************************************************************************)
THEOREM WakeupsAreNotLost == WaitsSpec => []NoLostWakeup
<1>1. IInv => NoLostWakeup
  <2> SUFFICES ASSUME IInv, NEW a \in Waiters, task[a].pc = "blocked",
                      task[a].seen = generation, pump.step # "bump"
               PROVE  Uncounted(task[a]) = {}
    BY DEF NoLostWakeup
  <2>1. WaitInv(task[a], news, obs.journal, generation, pump.step = "bump", NowMs)
    BY WaitFacts
  <2>2. CaughtUp(task[a], news, obs.journal)
    BY <2>1 DEF WaitInv
  <2> QED
    BY <2>2, CaughtUpMeansNoneUncounted
<1> QED
  BY <1>1, WaitsInvariant, PTL

(***************************************************************************)
(* Accumulator::resolve judges the quiet flag later and by another formula *)
(* than run_wait judged the condition by, and still agrees with it.        *)
(***************************************************************************)
THEOREM QuietFlagIsTruthful == WaitsSpec => []QuietFlagAgrees
<1>1. IInv => QuietFlagAgrees
  BY WaitFacts DEF QuietFlagAgrees, WaitInv
<1> QED
  BY <1>1, WaitsInvariant, PTL

(***************************************************************************)
(* PendingGuard's registrations are those of the waits under way, counted  *)
(* with their multiplicity, and a window shows the earliest or none.       *)
(***************************************************************************)
THEOREM RegistrationsAreExact == WaitsSpec => []RegistrationsExact
<1>1. IInv => RegistrationsExact
  <2> SUFFICES ASSUME IInv
               PROVE  RegistrationsExact
    OBVIOUS
  <2>1. PICK keys : keys = Get(obs.pending, Window, NoEntries)
    OBVIOUS
  <2>2. /\ DOMAIN obs.pending = IF Active = {} THEN {} ELSE {Window}
        /\ Multiset(Active, KeyOf, keys)
        /\ Showing(obs.windows, obs.pending)
    BY <2>1 DEF IInv, Registrations
  <2>3. \A a \in Active : KeyOf[a] = Key(a)
    BY DEF KeyOf
  <2>4. DOMAIN keys = {Key(a) : a \in Active}
    BY <2>2, <2>3 DEF Multiset
  <2>5. ASSUME NEW a \in Active
        PROVE  keys[Key(a)] = Cardinality({b \in Active : Key(b) = Key(a)})
    <3>1. keys[KeyOf[a]] = Cardinality({b \in Active : KeyOf[b] = KeyOf[a]})
      BY <2>2 DEF Multiset
    <3>2. {b \in Active : KeyOf[b] = KeyOf[a]} = {b \in Active : Key(b) = Key(a)}
      BY <2>3
    <3> QED
      BY <2>3, <3>1, <3>2
  <2>6. \A w \in DOMAIN obs.windows :
          obs.windows[w].waiting \in
            {NoWait} \cup (IF Active = {} THEN {} ELSE {Earliest(DOMAIN keys)})
    BY <2>1, <2>2 DEF Showing, Shown, Get
  <2> QED
    BY <2>1, <2>4, <2>5, <2>6 DEF RegistrationsExact, Active, Get
<1> QED
  BY <1>1, WaitsInvariant, PTL

(***************************************************************************)
(* A met condition is accepted only when the generation is still the one   *)
(* read before the journal was folded: every event handled completely and  *)
(* in order by then has been counted.                                      *)
(***************************************************************************)
THEOREM ResolutionsAreOnAllEvidence == WaitsSpec => ResolvesOnAllEvidence
<1>1. ASSUME IInv, [WaitsNext]_wvars, NEW a \in Waiters, task[a].pc = "decide", task[a].met,
             task'[a].pc = "resolve", pump.step # "bump"
      PROVE  Uncounted(task[a]) = {}
  <2>1. WaitInv(task[a], news, obs.journal, generation, pump.step = "bump", NowMs)
    BY <1>1, WaitFacts
  <2>2. DOMAIN task = Waiters
    BY <1>1 DEF IInv, TasksInv
  <2>3. task[a].gen = generation
    <3>1. task' # task
      BY <1>1
    <3>2. PICK b \in Waiters :
            (\E plan \in Plans : Begin(b, plan[1], plan[2])) \/ Cancel(b) \/ WaiterStep(b)
      BY <1>1, <3>1 DEF WaitsNext, wvars, PumpTakesEvent, PumpTakesSnapshot, PumpTakes, PumpState,
                        PumpBump, RecordClock, RecordSeq, RecordWindow, Tick
    <3>3. a = b
      BY <1>1, <2>2, <3>2 DEF Begin, Cancel, WaiterStep, TakeFilterPoint, CheckWindow, Subscribe,
                              Announce, ReadGeneration, ReadClock, Absorb, Decide, Wake, Resolve,
                              DropGuard
    <3>4. Decide(a)
      BY <1>1, <3>2, <3>3 DEF Begin, Cancel, WaiterStep, TakeFilterPoint, CheckWindow, Subscribe,
                              Announce, ReadGeneration, ReadClock, Absorb, Wake, Resolve, DropGuard
    <3>5. ~EvidenceIsStale(task[a])
      <4>1. CASE EvidenceIsStale(task[a])
        <5>1. task' = [task EXCEPT ![a] =
                [task[a] EXCEPT !.pc = "read", !.gen = 0, !.now = 0, !.met = FALSE]]
          BY <1>1, <3>4, <4>1 DEF Decide
        <5>2. task'[a].pc = "read"
          BY <1>1, <2>1, <2>2, <5>1, ShapeByStep DEF WaitInv, Working
        <5> QED
          BY <1>1, <5>2
      <4> QED
        BY <4>1
    <3> QED
      BY <1>1, <3>5 DEF EvidenceIsStale
  <2>4. CaughtUp(task[a], news, obs.journal)
    BY <1>1, <2>1, <2>3 DEF WaitInv
  <2> QED
    BY <2>4, CaughtUpMeansNoneUncounted
<1>2. IInv /\ [WaitsNext]_wvars =>
        [\A a \in Waiters :
           task[a].pc = "decide" /\ task[a].met /\ task'[a].pc = "resolve" =>
             pump.step = "bump" \/ Uncounted(task[a]) = {}]_wvars
  BY <1>1
<1> QED
  BY <1>2, WaitsInvariant, PTL DEF WaitsSpec, ResolvesOnAllEvidence
=============================================================================
