------------------------------ MODULE Observer ------------------------------
(***************************************************************************)
(* The state of adesk-observer and what its entry points do to it, as      *)
(* operators on one record                                                 *)
(*   windows   : window -> [commits, uncertain, waiting]                   *)
(*   watermark : the highest event number processed                        *)
(*   journal   : the counted events retained, oldest first                 *)
(*   pending   : window -> the keys of its active waiters, with refcounts  *)
(* Damage, geometry and titles are left out; a key is <<min seq, start>>.  *)
(***************************************************************************)
EXTENDS Maps, FiniteSets

CONSTANTS
  JournalCap,   \* EventJournal::capacity
  NoWait        \* pending_observation = None

ASSUME ObserverAssumption == JournalCap \in Nat \ {0}

EmptyObserver ==
  [windows |-> NoEntries, watermark |-> 0, journal |-> << >>, pending |-> NoEntries]

Later(a, b) == IF a > b THEN a ELSE b

\* The first key of the multiset: least sequence number, then earliest start.
Earliest(keys) ==
  CHOOSE k \in keys : \A j \in keys : k[1] < j[1] \/ (k[1] = j[1] /\ k[2] <= j[2])

\* refresh_pending_observation.
Refresh(obs, w) ==
  IF w \notin DOMAIN obs.windows THEN obs
  ELSE [obs EXCEPT !.windows[w].waiting =
          IF w \in DOMAIN obs.pending THEN Earliest(DOMAIN obs.pending[w]) ELSE NoWait]

FreshWindow(commits, uncertain) ==
  [commits |-> commits, uncertain |-> uncertain, waiting |-> NoWait]

\* window_on_demand.
OnDemand(windows, w) == IF w \in DOMAIN windows THEN windows ELSE Put(windows, w, FreshWindow(0, FALSE))

\* EventJournal::push evicts the oldest entry when it is full: what is left of
\* a list of entries that were pushed one after the other.
Retained(entries) ==
  SubSeq(entries, Later(0, Len(entries) - JournalCap) + 1, Len(entries))

PushEntry(journal, entry) == Retained(Append(journal, entry))

\* prune_through: entries at the front with seq <= mark; a newer entry in
\* front of an older one stops the pruning.
Pruned(journal, mark) ==
  LET old == {i \in 1 .. Len(journal) : \A j \in 1 .. i : journal[j].seq <= mark}
  IN  SubSeq(journal, Cardinality(old) + 1, Len(journal))

\* EventJournal::since, as the positions of the entries.
Since(journal, mark) == {i \in 1 .. Len(journal) : journal[i].seq > mark}

Entry(seq, kind, w, n, at) == [seq |-> seq, kind |-> kind, window |-> w, n |-> n, at |-> at]

(***************************************************************************)
(* handle_event for the counted kinds: created, destroyed, commit, and the *)
(* notices (activation, focus, title, popups), stamped `at`.               *)
(***************************************************************************)
WindowsAfter(windows, kind, w, n) ==
  CASE kind = "created"   -> [OnDemand(windows, w) EXCEPT ![w].uncertain = FALSE]
    [] kind = "destroyed" -> Drop(windows, {w})
    [] kind = "commit"    -> [OnDemand(windows, w) EXCEPT ![w].commits = Later(@, n),
                                                          ![w].uncertain = FALSE]
    [] kind = "notice"    -> [OnDemand(windows, w) EXCEPT ![w].uncertain = FALSE]

\* Mutant of HandleEvent: the watermark is the last number, not the highest.
HandleEventLast(obs, seq, kind, w, n, at) ==
  Refresh([obs EXCEPT !.watermark = seq,
                      !.windows = WindowsAfter(@, kind, w, n),
                      !.journal = PushEntry(@, Entry(seq, kind, w, n, at))], w)

HandleEvent(obs, seq, kind, w, n, at) ==
  Refresh([obs EXCEPT !.watermark = Later(@, seq),
                      !.windows = WindowsAfter(@, kind, w, n),
                      !.journal = PushEntry(@, Entry(seq, kind, w, n, at))], w)

\* AppLaunched and the notification events: the watermark only.
HandleUncounted(obs, seq) == [obs EXCEPT !.watermark = Later(@, seq)]

(***************************************************************************)
(* resync.  A snapshot older than the watermark changes nothing; otherwise *)
(* it replaces the journal up to its number, its windows become uncertain, *)
(* and what it adds, advances or no longer has is journalled at its number.*)
(***************************************************************************)
Synthetic(obs, snap, at) ==
  LET S == DOMAIN snap.windows
      K == DOMAIN obs.windows
      added    == {Entry(snap.seq, "created", w, 0, at) : w \in S \ K}
      advanced == {Entry(snap.seq, "commit", w, snap.windows[w], at) :
                     w \in {v \in S \cap K : snap.windows[v] > obs.windows[v].commits}}
      gone     == {Entry(snap.seq, "destroyed", w, 0, at) : w \in K \ S}
  IN  << added \cup advanced, gone >>

\* The entries of a set, at most one per window, in window order.
InWindowOrder(entries) ==
  [i \in 1 .. Cardinality(entries) |->
     CHOOSE e \in entries : Cardinality({d \in entries : d.window < e.window}) = i - 1]

PushAll(journal, entries) == Retained(journal \o InWindowOrder(entries))

\* The windows after a snapshot of the existing ones and their counters.
Merged(windows, existing) ==
  [w \in DOMAIN existing |->
     IF w \notin DOMAIN windows THEN FreshWindow(existing[w], TRUE)
     ELSE [windows[w] EXCEPT !.commits = Later(@, existing[w]), !.uncertain = TRUE]]

\* Mutant of Resync: windows that died during the lag are kept.
ResyncKeepsDead(obs, snap, at) ==
  IF snap.seq < obs.watermark THEN obs
  ELSE [obs EXCEPT
          !.watermark = snap.seq,
          !.windows = [w \in DOMAIN @ \cup DOMAIN snap.windows |->
             IF w \in DOMAIN snap.windows THEN FreshWindow(snap.windows[w], TRUE) ELSE @[w]],
          !.journal = Pruned(@, snap.seq)]

Resync(obs, snap, at) ==
  IF snap.seq < obs.watermark THEN obs
  ELSE LET new == Synthetic(obs, snap, at)
       IN  [obs EXCEPT
              !.watermark = snap.seq,
              !.windows = Merged(@, snap.windows),
              !.journal = PushAll(PushAll(Pruned(@, snap.seq), new[1]), new[2])]

\* record_action of a window: state is created on demand, not refreshed.
TouchWindow(obs, w) == [obs EXCEPT !.windows = OnDemand(@, w)]

\* PendingGuard::register.
Register(obs, w, key) ==
  LET keys == Get(obs.pending, w, NoEntries)
  IN  Refresh([obs EXCEPT !.pending = Put(@, w, Put(keys, key, Get(keys, key, 0) + 1))], w)

\* Mutant of Unregister: the window keeps showing the waiter that left.
UnregisterUnseen(obs, w, key) ==
  [obs EXCEPT !.pending = IF DOMAIN @[w] = {key} THEN Drop(@, {w})
                          ELSE Put(@, w, Drop(@[w], {key}))]

\* PendingGuard::drop.
Unregister(obs, w, key) ==
  LET keys == obs.pending[w]
      left == IF keys[key] = 1 THEN Drop(keys, {key}) ELSE [keys EXCEPT ![key] = @ - 1]
  IN  Refresh([obs EXCEPT !.pending =
                 IF left = NoEntries THEN Drop(@, {w}) ELSE Put(@, w, left)], w)
=============================================================================
