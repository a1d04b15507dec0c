-------------------------- MODULE CompositorProofs ---------------------------
(***************************************************************************)
(* The compositor for any number of surfaces, windows, popups and launches:*)
(* that the tables of the bridge describe the same windows, that popups    *)
(* are counted right, that a launch is attributed once, and that the event *)
(* stream is the one its consumers rely on.                                *)
(***************************************************************************)
EXTENDS StreamSubscriber, MapsTheorems, SequenceTheorems

-----------------------------------------------------------------------------
(* What the handlers rely on of the window policy.                         *)

RecordFields ==
  {"key", "app", "pid", "title", "geometry", "state", "createdSeq", "lastCommitSeq", "popupCount"}

RecordTyped(r) ==
  /\ DOMAIN r = RecordFields
  /\ r.lastCommitSeq \in Nat /\ r.popupCount \in 0 .. PopupMax

ModelTyped(m) ==
  /\ DOMAIN m = {"records", "mru", "nextId", "rect"}
  /\ m.nextId \in Nat \ {0} /\ Tracked(m) \subseteq 1 .. m.nextId - 1
  /\ m.mru \in Seq(Tracked(m)) /\ NoDup(m.mru) /\ Elems(m.mru) = Tracked(m)
  /\ \A w \in Tracked(m) : RecordTyped(m.records[w])

\* What a record keeps when another window is mapped, activated or destroyed.
SameBody(r, s) ==
  /\ s.key = r.key /\ s.app = r.app
  /\ s.lastCommitSeq = r.lastCommitSeq /\ s.popupCount = r.popupCount

\* The active window is tracked as soon as there is one.
LEMMA ActiveIsTracked ==
  ASSUME NEW m, ModelTyped(m)
  PROVE  /\ Tracked(m) \subseteq Nat /\ NoWindow \notin Tracked(m)
         /\ m.mru = << >> <=> Tracked(m) = {}
         /\ Tracked(m) # {} => ActiveWindow(m) = m.mru[1] /\ ActiveWindow(m) \in Tracked(m)
         /\ Tracked(m) = {} => ActiveWindow(m) = NoWindow
<1>1. Tracked(m) \subseteq Nat /\ m.mru \in Seq(Tracked(m)) /\ Elems(m.mru) = Tracked(m)
  BY DEF ModelTyped
<1>2. m.mru # << >> => 1 \in 1 .. Len(m.mru) /\ m.mru[1] \in Tracked(m)
  BY <1>1
<1>3. m.mru = << >> => Tracked(m) = {}
  BY <1>1 DEF Elems
<1> QED
  BY <1>1, <1>2, <1>3, PolicyAssumption DEF ActiveWindow

\* mark_active changes the state of records and nothing else.
LEMMA MarkActiveKeeps ==
  ASSUME NEW records, NEW id, \A w \in DOMAIN records : RecordTyped(records[w])
  PROVE  /\ DOMAIN MarkActive(records, id) = DOMAIN records
         /\ \A w \in DOMAIN records : /\ RecordTyped(MarkActive(records, id)[w])
                                      /\ SameBody(records[w], MarkActive(records, id)[w])
BY DEF MarkActive, RecordTyped, RecordFields, SameBody

\* on_map of a key that no window has.
LEMMA PolicyMap ==
  ASSUME NEW m, ModelTyped(m), NEW req, WindowsOfKey(m, req.key) = {},
         NEW n, n = OnMap(m, req).model
  PROVE  /\ ModelTyped(n) /\ n.nextId = m.nextId + 1
         /\ m.nextId \notin Tracked(m) /\ Tracked(n) = Tracked(m) \cup {m.nextId}
         /\ ActiveWindow(n) = m.nextId
         /\ OnMap(m, req).id = m.nextId
         /\ OnMap(m, req).actions = << Configure(m.nextId, m.rect), Activate(m.nextId) >>
         /\ \A w \in Tracked(m) : SameBody(m.records[w], n.records[w])
         /\ n.records[m.nextId].key = req.key /\ n.records[m.nextId].app = req.app
         /\ n.records[m.nextId].lastCommitSeq = 0 /\ n.records[m.nextId].popupCount = 0
<1>0. PICK id, mru, T : id = m.nextId /\ mru = m.mru /\ T = Tracked(m) \cup {id}
  OBVIOUS
<1>1. PICK put : put = Put(m.records, id, NewRecord(m, req))
  OBVIOUS
<1>2. /\ DOMAIN m = {"records", "mru", "nextId", "rect"} /\ id \in Nat \ {0}
      /\ Tracked(m) \subseteq 1 .. id - 1
      /\ mru \in Seq(Tracked(m)) /\ NoDup(mru) /\ Elems(mru) = Tracked(m)
      /\ \A w \in Tracked(m) : RecordTyped(m.records[w])
  BY <1>0 DEF ModelTyped
<1>3. n = [m EXCEPT !.records = MarkActive(put, id), !.mru = Cons(id, @), !.nextId = @ + 1]
  BY <1>0, <1>1 DEF OnMap
<1>4. /\ OnMap(m, req).id = id
      /\ OnMap(m, req).actions = << Configure(id, m.rect), Activate(id) >>
  BY <1>0 DEF OnMap
<1>5. id \notin Tracked(m)
  BY <1>2
<1>6. PICK new : new = NewRecord(m, req)
  OBVIOUS
<1>7. /\ RecordTyped(new) /\ new.key = req.key /\ new.app = req.app
      /\ new.lastCommitSeq = 0 /\ new.popupCount = 0
  BY <1>6, PolicyAssumption DEF NewRecord, RecordTyped, RecordFields
<1>8. /\ DOMAIN put = T /\ put[id] = new
      /\ \A w \in Tracked(m) : put[w] = m.records[w]
  BY <1>0, <1>1, <1>5, <1>6 DEF Put, Tracked
<1>9. \A w \in DOMAIN put : RecordTyped(put[w])
  BY <1>0, <1>2, <1>7, <1>8
<1>10. /\ DOMAIN MarkActive(put, id) = T
       /\ \A w \in T : /\ RecordTyped(MarkActive(put, id)[w])
                       /\ SameBody(put[w], MarkActive(put, id)[w])
  BY <1>8, <1>9, MarkActiveKeeps
<1>11. mru \in Seq(T) /\ id \in T
  BY <1>0, <1>2
<1>12. /\ Cons(id, mru) \in Seq(T) /\ NoDup(Cons(id, mru))
       /\ Elems(Cons(id, mru)) = T /\ Cons(id, mru)[1] = id
       /\ Len(Cons(id, mru)) = Len(mru) + 1
  <2>1. Cons(id, mru) \in Seq(T) /\ Cons(id, mru)[1] = id
    BY <1>11, ConsProperties
  <2>2. Len(Cons(id, mru)) = Len(mru) + 1
    BY <1>11, ConsProperties
  <2>3. Elems(Cons(id, mru)) = Elems(mru) \cup {id}
    BY <1>11, ConsProperties
  <2>4. NoDup(Cons(id, mru))
    BY <1>2, <1>5, <1>11, ConsProperties
  <2> QED
    BY <1>0, <1>2, <2>1, <2>2, <2>3, <2>4
<1>13. /\ n.records = MarkActive(put, id) /\ n.mru = Cons(id, mru)
       /\ n.nextId = id + 1 /\ DOMAIN n = {"records", "mru", "nextId", "rect"}
  BY <1>0, <1>2, <1>3
<1>14. Tracked(n) = T
  BY <1>10, <1>13 DEF Tracked
<1>15. ActiveWindow(n) = id
  <2>1. n.mru # << >>
    BY <1>11, <1>12, <1>13
  <2> QED
    BY <2>1, <1>12, <1>13 DEF ActiveWindow
<1>16. ModelTyped(n)
  <2>1. T \subseteq 1 .. id /\ id + 1 \in Nat \ {0} /\ id + 1 - 1 = id
    BY <1>0, <1>2
  <2>2. n.nextId \in Nat \ {0} /\ Tracked(n) \subseteq 1 .. n.nextId - 1
    <3>1. PICK next : next = n.nextId
      OBVIOUS
    <3>2. next = id + 1
      BY <1>13, <3>1
    <3>3. next \in Nat \ {0} /\ next - 1 = id
      BY <1>2, <3>2
    <3> QED
      BY <2>1, <3>1, <3>3, <1>14
  <2>3. n.mru \in Seq(Tracked(n)) /\ NoDup(n.mru) /\ Elems(n.mru) = Tracked(n)
    BY <1>12, <1>13, <1>14
  <2>4. \A w \in Tracked(n) : RecordTyped(n.records[w])
    BY <1>10, <1>13, <1>14
  <2> QED
    BY <2>2, <2>3, <2>4, <1>13 DEF ModelTyped
<1>17. /\ \A w \in Tracked(m) : SameBody(m.records[w], n.records[w])
       /\ SameBody(new, n.records[id])
  BY <1>0, <1>8, <1>10, <1>11, <1>13
<1> QED
  BY <1>0, <1>4, <1>5, <1>7, <1>13, <1>14, <1>15, <1>16, <1>17 DEF SameBody

\* on_destroy of a tracked window: a fallback, if any, is reported.
LEMMA PolicyDestroy ==
  ASSUME NEW m, ModelTyped(m), NEW id \in Tracked(m), NEW n, n = OnDestroy(m, id).model
  PROVE  /\ ModelTyped(n) /\ n.nextId = m.nextId
         /\ Tracked(n) = Tracked(m) \ {id}
         /\ \A w \in Tracked(n) : SameBody(m.records[w], n.records[w])
         /\ \/ /\ OnDestroy(m, id).actions = << >>
               /\ Tracked(n) # {} => ActiveWindow(n) = ActiveWindow(m)
            \/ /\ Tracked(n) # {}
               /\ OnDestroy(m, id).actions = << ActivatePrevious(ActiveWindow(n)) >>
<1>0. PICK mru, records, T :
        mru = m.mru /\ records = m.records /\ T = Tracked(m) \ {id}
  OBVIOUS
<1>1. PICK left : left = [m EXCEPT !.records = Drop(@, {id}), !.mru = Without(@, id)]
  OBVIOUS
<1>2. /\ DOMAIN m = {"records", "mru", "nextId", "rect"} /\ m.nextId \in Nat \ {0}
      /\ Tracked(m) \subseteq 1 .. m.nextId - 1
      /\ mru \in Seq(Tracked(m)) /\ NoDup(mru) /\ Elems(mru) = Tracked(m)
      /\ \A w \in Tracked(m) : RecordTyped(records[w])
  BY <1>0 DEF ModelTyped
<1>3. /\ left.records = Drop(records, {id}) /\ left.mru = Without(mru, id)
      /\ left.nextId = m.nextId /\ DOMAIN left = {"records", "mru", "nextId", "rect"}
  BY <1>0, <1>1, <1>2
<1>4. DOMAIN left.records = T /\ \A w \in T : left.records[w] = records[w]
  BY <1>0, <1>3 DEF Drop, Tracked
<1>5. left.mru \in Seq(T) /\ NoDup(left.mru) /\ Elems(left.mru) = T
  <2>1. Without(mru, id) \in Seq(Tracked(m) \ {id}) /\ NoDup(Without(mru, id))
    BY <1>2, WithoutProperties
  <2>2. Elems(Without(mru, id)) = Elems(mru) \ {id}
    BY <1>2, WithoutProperties
  <2> QED
    BY <1>0, <1>2, <1>3, <2>1, <2>2
<1>6. Tracked(left) = T
  BY <1>4 DEF Tracked
<1>7. ModelTyped(left)
  <2>1. T \subseteq 1 .. m.nextId - 1
    BY <1>0, <1>2
  <2>2. \A w \in T : RecordTyped(left.records[w])
    BY <1>0, <1>2, <1>4
  <2> QED
    BY <1>2, <1>3, <1>5, <1>6, <2>1, <2>2 DEF ModelTyped
<1>8. mru # << >> /\ ActiveWindow(m) = mru[1]
  BY <1>0, ActiveIsTracked
<1>9. PICK fallback : fallback = ActiveWindow(left)
  OBVIOUS
<1>10. T = {} <=> fallback = NoWindow
  BY <1>6, <1>7, <1>9, ActiveIsTracked
<1>11. \A w \in T : SameBody(records[w], left.records[w])
  BY <1>4 DEF SameBody
<1>12. CASE ActiveWindow(m) # id \/ fallback = NoWindow
  <2>1. OnDestroy(m, id) = [model |-> left, actions |-> << >>]
    BY <1>1, <1>9, <1>12 DEF OnDestroy
  <2>2. n = left /\ OnDestroy(m, id).actions = << >>
    BY <2>1
  <2>3. ASSUME T # {}
        PROVE  ActiveWindow(left) = ActiveWindow(m)
    <3>1. mru[1] # id /\ Len(mru) > 0
      BY <1>2, <1>8, <1>10, <1>12, <2>3
    <3>2. Without(mru, id)[1] = mru[1]
      BY <3>1, <1>2, WithoutProperties
    <3> QED
      BY <3>2, <1>3, <1>6, <1>7, <1>8, <2>3, ActiveIsTracked
  <2> QED
    BY <2>2, <2>3, <1>0, <1>3, <1>6, <1>7, <1>11
<1>13. CASE ~ (ActiveWindow(m) # id \/ fallback = NoWindow)
  <2>1. OnDestroy(m, id) = [model   |-> [left EXCEPT !.records = MarkActive(@, fallback)],
                            actions |-> << ActivatePrevious(fallback) >>]
    BY <1>1, <1>9, <1>13 DEF OnDestroy
  <2>2. /\ n = [left EXCEPT !.records = MarkActive(@, fallback)]
        /\ OnDestroy(m, id).actions = << ActivatePrevious(fallback) >>
    BY <2>1
  <2>3. /\ n.records = MarkActive(left.records, fallback) /\ n.mru = left.mru
        /\ n.nextId = m.nextId /\ DOMAIN n = {"records", "mru", "nextId", "rect"}
    BY <1>3, <2>2
  <2>4. /\ DOMAIN n.records = T
        /\ \A w \in T : RecordTyped(n.records[w]) /\ SameBody(left.records[w], n.records[w])
    <3>1. \A w \in DOMAIN left.records : RecordTyped(left.records[w])
      BY <1>0, <1>2, <1>4
    <3> QED
      BY <1>4, <2>3, <3>1, MarkActiveKeeps
  <2>5. Tracked(n) = T /\ ActiveWindow(n) = fallback
    BY <1>9, <2>3, <2>4 DEF Tracked, ActiveWindow
  <2>6. ModelTyped(n)
    <3>1. T \subseteq 1 .. m.nextId - 1
      BY <1>0, <1>2
    <3> QED
      BY <1>2, <1>5, <2>3, <2>4, <2>5, <3>1 DEF ModelTyped
  <2>7. \A w \in T : SameBody(records[w], n.records[w])
    BY <1>11, <2>4 DEF SameBody
  <2> QED
    BY <1>0, <1>10, <1>13, <2>2, <2>3, <2>5, <2>6, <2>7
<1> QED
  BY <1>12, <1>13

\* activate of a tracked window: it is the active one and nothing happens, or it becomes so.
LEMMA PolicyActivate ==
  ASSUME NEW m, ModelTyped(m), NEW id \in Tracked(m), NEW n, n = OnActivate(m, id).model
  PROVE  /\ ModelTyped(n) /\ n.nextId = m.nextId /\ Tracked(n) = Tracked(m)
         /\ \A w \in Tracked(m) : SameBody(m.records[w], n.records[w])
         /\ ActiveWindow(n) = id
         /\ \/ OnActivate(m, id).actions = << NoAction >> /\ ActiveWindow(m) = id
            \/ OnActivate(m, id).actions = << Activate(id) >>
<1>1. CASE ActiveWindow(m) = id
  <2>1. OnActivate(m, id) = [model |-> m, actions |-> << NoAction >>]
    BY <1>1 DEF OnActivate
  <2>2. n = m /\ OnActivate(m, id).actions = << NoAction >>
    BY <2>1
  <2> QED
    BY <1>1, <2>2 DEF SameBody
<1>2. CASE ActiveWindow(m) # id
  <2>0. PICK mru, records, rest, T :
          mru = m.mru /\ records = m.records /\ rest = Without(m.mru, id) /\ T = Tracked(m)
    OBVIOUS
  <2>1. /\ DOMAIN m = {"records", "mru", "nextId", "rect"} /\ m.nextId \in Nat \ {0}
        /\ T \subseteq 1 .. m.nextId - 1 /\ DOMAIN records = T /\ id \in T
        /\ mru \in Seq(T) /\ NoDup(mru) /\ Elems(mru) = T
        /\ \A w \in T : RecordTyped(records[w])
    BY <2>0 DEF ModelTyped, Tracked
  <2>2. /\ n = [m EXCEPT !.records = MarkActive(@, id), !.mru = Cons(id, Without(@, id))]
        /\ OnActivate(m, id).actions = << Activate(id) >>
    BY <1>2 DEF OnActivate
  <2>3. /\ n.records = MarkActive(records, id) /\ n.mru = Cons(id, rest)
        /\ n.nextId = m.nextId /\ DOMAIN n = {"records", "mru", "nextId", "rect"}
    BY <2>0, <2>1, <2>2
  <2>4. rest \in Seq(T \ {id}) /\ NoDup(rest) /\ Elems(rest) = T \ {id}
    <3>1. Without(mru, id) \in Seq(T \ {id}) /\ NoDup(Without(mru, id))
      BY <2>1, WithoutProperties
    <3>2. Elems(Without(mru, id)) = Elems(mru) \ {id}
      BY <2>1, WithoutProperties
    <3>3. rest = Without(mru, id) /\ Elems(mru) \ {id} = T \ {id}
      BY <2>0, <2>1
    <3> QED
      BY <3>1, <3>2, <3>3
  <2>5. rest \in Seq(T) /\ id \notin Elems(rest)
    <3>1. rest \in [1 .. Len(rest) -> T \ {id}] /\ Len(rest) \in Nat
      BY <2>4
    <3>2. rest \in [1 .. Len(rest) -> T]
      BY <3>1
    <3> QED
      BY <3>1, <3>2, <2>4
  <2>6. /\ n.mru \in Seq(T) /\ n.mru[1] = id /\ Len(n.mru) = Len(rest) + 1
        /\ NoDup(n.mru) /\ Elems(n.mru) = T
    <3>1. Cons(id, rest) \in Seq(T) /\ Cons(id, rest)[1] = id
      BY <2>1, <2>5, ConsProperties
    <3>2. Len(Cons(id, rest)) = Len(rest) + 1
      BY <2>1, <2>5, ConsProperties
    <3>3. Elems(Cons(id, rest)) = Elems(rest) \cup {id}
      BY <2>1, <2>5, ConsProperties
    <3>4. NoDup(Cons(id, rest))
      BY <2>1, <2>4, <2>5, ConsProperties
    <3> QED
      BY <2>1, <2>3, <2>4, <3>1, <3>2, <3>3, <3>4
  <2>7. /\ DOMAIN n.records = T
        /\ \A w \in T : RecordTyped(n.records[w]) /\ SameBody(records[w], n.records[w])
    BY <2>1, <2>3, MarkActiveKeeps
  <2>8. Tracked(n) = T
    BY <2>7 DEF Tracked
  <2>9. ActiveWindow(n) = id
    <3>1. n.mru # << >>
      BY <2>5, <2>6
    <3> QED
      BY <2>6, <3>1 DEF ActiveWindow
  <2>10. ModelTyped(n)
    BY <2>1, <2>3, <2>6, <2>7, <2>8 DEF ModelTyped
  <2> QED
    BY <2>0, <2>2, <2>3, <2>7, <2>8, <2>9, <2>10
<1> QED
  BY <1>1, <1>2

\* record_mut: one record changes, the windows and their order do not.
Rewrites(m, n, id, rec) ==
  /\ ModelTyped(n) /\ n.nextId = m.nextId
  /\ Tracked(n) = Tracked(m) /\ ActiveWindow(n) = ActiveWindow(m)
  /\ n.records[id] = rec
  /\ \A w \in Tracked(m) \ {id} : n.records[w] = m.records[w]

LEMMA PolicyUpdate ==
  ASSUME NEW m, ModelTyped(m), NEW id \in Tracked(m), NEW rec, RecordTyped(rec)
  PROVE  Rewrites(m, [m EXCEPT !.records[id] = rec], id, rec)
<1>1. PICK n : n = [m EXCEPT !.records[id] = rec]
  OBVIOUS
<1>2. /\ DOMAIN m = {"records", "mru", "nextId", "rect"}
      /\ \A w \in Tracked(m) : RecordTyped(m.records[w])
  BY DEF ModelTyped
<1>3. /\ n.records = [m.records EXCEPT ![id] = rec] /\ n.mru = m.mru
      /\ n.nextId = m.nextId /\ DOMAIN n = {"records", "mru", "nextId", "rect"}
  BY <1>1, <1>2
<1>4. Tracked(n) = Tracked(m) /\ ActiveWindow(n) = ActiveWindow(m)
  BY <1>3 DEF Tracked, ActiveWindow
<1>5. n.records[id] = rec /\ \A w \in Tracked(m) \ {id} : n.records[w] = m.records[w]
  BY <1>3 DEF Tracked
<1>6. \A w \in Tracked(n) : RecordTyped(n.records[w])
  BY <1>2, <1>4, <1>5
<1>7. ModelTyped(n)
  BY <1>3, <1>4, <1>6 DEF ModelTyped
<1> QED
  BY <1>1, <1>3, <1>4, <1>5, <1>7 DEF Rewrites

\* on_title, on_app_id, on_commit, on_popup_added and on_popup_removed.
LEMMA PolicyRecords ==
  ASSUME NEW m, ModelTyped(m), NEW id \in Tracked(m), NEW r, r = m.records[id]
  PROVE  /\ RecordTyped(r)
         /\ \A name : Rewrites(m, OnTitle(m, id, name), id, [r EXCEPT !.title = name])
         /\ \A name : Rewrites(m, OnAppId(m, id, name), id, [r EXCEPT !.app = name])
         /\ \A n \in Nat : n > r.lastCommitSeq =>
              Rewrites(m, OnCommit(m, id, n), id, [r EXCEPT !.lastCommitSeq = n])
         /\ r.popupCount < PopupMax =>
              Rewrites(m, OnPopupAdded(m, id), id, [r EXCEPT !.popupCount = @ + 1])
         /\ r.popupCount > 0 =>
              Rewrites(m, OnPopupRemoved(m, id), id, [r EXCEPT !.popupCount = @ - 1])
         /\ \E rec : RecordTyped(rec) /\ rec.key = r.key /\ rec.app = r.app
                       /\ rec.lastCommitSeq = r.lastCommitSeq
                       /\ Rewrites(m, OnPopupAdded(m, id), id, rec)
         /\ \E rec : RecordTyped(rec) /\ rec.key = r.key /\ rec.app = r.app
                       /\ rec.lastCommitSeq = r.lastCommitSeq
                       /\ Rewrites(m, OnPopupRemoved(m, id), id, rec)
<1>1. RecordTyped(r)
  BY DEF ModelTyped
<1>2. ASSUME NEW rec, RecordTyped(rec)
      PROVE  Rewrites(m, [m EXCEPT !.records[id] = rec], id, rec)
  BY <1>2, PolicyUpdate
<1>3. ASSUME NEW name
      PROVE  /\ Rewrites(m, OnTitle(m, id, name), id, [r EXCEPT !.title = name])
             /\ Rewrites(m, OnAppId(m, id, name), id, [r EXCEPT !.app = name])
  <2>1. RecordTyped([r EXCEPT !.title = name]) /\ RecordTyped([r EXCEPT !.app = name])
    BY <1>1 DEF RecordTyped, RecordFields
  <2>2. /\ Rewrites(m, [m EXCEPT !.records[id] = [r EXCEPT !.title = name]], id, [r EXCEPT !.title = name])
        /\ Rewrites(m, [m EXCEPT !.records[id] = [r EXCEPT !.app = name]], id, [r EXCEPT !.app = name])
    BY <1>2, <2>1
  <2> QED
    BY <2>2 DEF OnTitle, OnAppId, Update
<1>4. ASSUME NEW n \in Nat, n > r.lastCommitSeq
      PROVE  Rewrites(m, OnCommit(m, id, n), id, [r EXCEPT !.lastCommitSeq = n])
  <2>1. PICK rec : rec = [r EXCEPT !.lastCommitSeq = n]
    OBVIOUS
  <2>2. RecordTyped(rec) /\ rec = [r EXCEPT !.lastCommitSeq = IF n > @ THEN n ELSE @]
    BY <1>1, <1>4, <2>1 DEF RecordTyped, RecordFields
  <2>3. Rewrites(m, [m EXCEPT !.records[id] = rec], id, rec)
    BY <1>2, <2>2
  <2> QED
    BY <2>1, <2>2, <2>3 DEF OnCommit, Update
<1>5. PICK more, less : /\ more = [r EXCEPT !.popupCount = IF @ < PopupMax THEN @ + 1 ELSE @]
                        /\ less = [r EXCEPT !.popupCount = IF @ > 0 THEN @ - 1 ELSE @]
  OBVIOUS
<1>6. RecordTyped(more) /\ RecordTyped(less)
  BY <1>1, <1>5, PolicyAssumption DEF RecordTyped, RecordFields
<1>7. /\ more.key = r.key /\ more.app = r.app /\ more.lastCommitSeq = r.lastCommitSeq
      /\ less.key = r.key /\ less.app = r.app /\ less.lastCommitSeq = r.lastCommitSeq
  BY <1>1, <1>5 DEF RecordTyped, RecordFields
<1>8. /\ Rewrites(m, OnPopupAdded(m, id), id, more)
      /\ Rewrites(m, OnPopupRemoved(m, id), id, less)
  <2>1. /\ Rewrites(m, [m EXCEPT !.records[id] = more], id, more)
        /\ Rewrites(m, [m EXCEPT !.records[id] = less], id, less)
    BY <1>2, <1>6
  <2> QED
    BY <2>1, <1>5 DEF OnPopupAdded, OnPopupRemoved, Update
<1>9. /\ r.popupCount < PopupMax => more = [r EXCEPT !.popupCount = @ + 1]
      /\ r.popupCount > 0 => less = [r EXCEPT !.popupCount = @ - 1]
  BY <1>5
<1> QED
  BY <1>1, <1>3, <1>4, <1>6, <1>7, <1>8, <1>9

-----------------------------------------------------------------------------
(* The bridge.                                                             *)

(***************************************************************************)
(* What BridgeCoherent rests on: keys are never given twice, so a surface  *)
(* whose buffer arrives has no window yet and gets a new one; and popups   *)
(* are not toplevels, so their owners are not mixed up.                    *)
(***************************************************************************)
RegistryTyped ==
  /\ DOMAIN slots \subseteq Toplevels /\ nextKey \in Nat
  /\ \A s \in DOMAIN slots :
       /\ slots[s] \in [key : Nat, window : Nat \cup {NoWindow}]
       /\ slots[s].key < nextKey
  /\ \A s, t \in DOMAIN slots : slots[s].key = slots[t].key => s = t
  /\ DOMAIN popups \subseteq Popups /\ IsFiniteSet(DOMAIN popups)

BridgeInv == ModelTyped(wm) /\ RegistryTyped /\ BridgeCoherent

\* The commit counters of the tracked windows.
Commits(m) == [w \in Tracked(m) |-> m.records[w].lastCommitSeq]

\* The windows' keys, application ids and roots are what they were.
SameWindows(m, n) ==
  /\ ModelTyped(n) /\ n.nextId = m.nextId
  /\ Tracked(n) = Tracked(m)
  /\ \A w \in Tracked(m) : n.records[w].key = m.records[w].key

\* Every surface that has an owner has a tracked one, its root or its popup's window.
LEMMA OwnersAreTracked ==
  ASSUME BridgeInv, NEW s \in DOMAIN owners
  PROVE  /\ owners[s] \in Tracked(wm) /\ owners[s] # NoWindow
         /\ WindowForSurface(s) = owners[s]
         /\ s \in Toplevels => roots[owners[s]] = s /\ s \in DOMAIN slots
         /\ s \in Popups => s \in DOMAIN popups
<1>1. /\ DOMAIN owners = {roots[w] : w \in Tracked(wm)} \cup DOMAIN popups
      /\ \A w \in Tracked(wm) : owners[roots[w]] = w /\ roots[w] \in DOMAIN slots
      /\ \A p \in DOMAIN popups : popups[p].window \in Tracked(wm) /\ owners[p] = popups[p].window
  BY DEF BridgeInv, BridgeCoherent, OwnersCoherent, WindowsCoherent
<1>2. /\ DOMAIN slots \subseteq Toplevels /\ DOMAIN popups \subseteq Popups
      /\ Toplevels \cap Popups = {}
  BY CompositorAssumption DEF BridgeInv, RegistryTyped
<1>3. NoWindow \notin Tracked(wm)
  BY ActiveIsTracked DEF BridgeInv
<1> QED
  BY <1>1, <1>2, <1>3 DEF WindowForSurface, Get

\* The slot of a surface tells whether it is the root of a window.
LEMMA SlotsTellRoots ==
  ASSUME BridgeInv, NEW s \in DOMAIN slots
  PROVE  /\ slots[s].window = NoWindow =>
              /\ WindowsOfKey(wm, slots[s].key) = {} /\ s \notin DOMAIN owners
              /\ \A w \in Tracked(wm) : roots[w] # s
         /\ slots[s].window # NoWindow =>
              /\ slots[s].window \in Tracked(wm) /\ roots[slots[s].window] = s
              /\ s \in DOMAIN owners /\ owners[s] = slots[s].window
<1>1. /\ \A w \in Tracked(wm) : /\ roots[w] \in DOMAIN slots
                                /\ slots[roots[w]] = [key |-> wm.records[w].key, window |-> w]
      /\ slots[s].window # NoWindow =>
           slots[s].window \in Tracked(wm) /\ roots[slots[s].window] = s
  BY DEF BridgeInv, BridgeCoherent, WindowsCoherent
<1>2. /\ \A t \in DOMAIN slots : slots[t].key = slots[s].key => t = s
      /\ s \in Toplevels /\ DOMAIN popups \subseteq Popups
  BY DEF BridgeInv, RegistryTyped
<1>3. /\ DOMAIN owners = {roots[w] : w \in Tracked(wm)} \cup DOMAIN popups
      /\ \A w \in Tracked(wm) : owners[roots[w]] = w
  BY DEF BridgeInv, BridgeCoherent, OwnersCoherent
<1>4. NoWindow \notin Tracked(wm)
  BY ActiveIsTracked DEF BridgeInv
<1>5. ASSUME NEW w \in Tracked(wm), roots[w] = s
      PROVE  slots[s].window = w
  <2>1. slots[s] = [key |-> wm.records[w].key, window |-> w]
    BY <1>1, <1>5
  <2> QED
    BY <2>1
<1>6. ASSUME NEW w \in WindowsOfKey(wm, slots[s].key)
      PROVE  slots[s].window = w /\ w \in Tracked(wm)
  <2>1. w \in Tracked(wm) /\ wm.records[w].key = slots[s].key
    BY DEF WindowsOfKey
  <2>2. roots[w] \in DOMAIN slots /\ slots[roots[w]].key = slots[s].key
    <3>1. slots[roots[w]] = [key |-> wm.records[w].key, window |-> w]
      BY <1>1, <2>1
    <3> QED
      BY <1>1, <2>1, <3>1
  <2> QED
    BY <1>2, <1>5, <2>1, <2>2
<1>7. s \notin Popups
  BY <1>2, CompositorAssumption
<1> QED
  BY <1>1, <1>2, <1>3, <1>4, <1>5, <1>6, <1>7

\* A change of records that concerns neither keys nor application ids.
LEMMA RecordsMove ==
  ASSUME BridgeInv, SameWindows(wm, wm'),
         UNCHANGED << slots, nextKey, toplevels, roots, appIds >>,
         \A w \in Tracked(wm) : wm'.records[w].app = wm.records[w].app
  PROVE  ModelTyped(wm') /\ WindowsCoherent'
<1>1. PICK n : n = wm'
  OBVIOUS
<1>2. /\ ModelTyped(n) /\ Tracked(n) = Tracked(wm)
      /\ \A w \in Tracked(wm) : /\ n.records[w].key = wm.records[w].key
                                /\ n.records[w].app = wm.records[w].app
  BY <1>1 DEF SameWindows
<1>3. WindowsCoherent
  BY DEF BridgeInv, BridgeCoherent
<1>4. /\ Tracked(wm') = Tracked(wm)
      /\ \A w \in Tracked(wm) : /\ wm'.records[w].key = wm.records[w].key
                                /\ wm'.records[w].app = wm.records[w].app
  BY <1>1, <1>2
<1> QED
  BY <1>1, <1>2, <1>3, <1>4 DEF WindowsCoherent, Tracked

(***************************************************************************)
(* A handler that only rewrites records, and neither their keys, their     *)
(* application ids nor their order.                                        *)
(***************************************************************************)
LEMMA OnlyRecordsMove ==
  ASSUME BridgeInv, SameWindows(wm, wm'), ActiveWindow(wm') = ActiveWindow(wm),
         UNCHANGED << bridge, appIds, focus >>, handles \subseteq popupObjs',
         \A w \in Tracked(wm) : wm'.records[w].app = wm.records[w].app
  PROVE  BridgeInv'
<1>1. ModelTyped(wm') /\ WindowsCoherent'
  BY RecordsMove DEF bridge
<1>2. Tracked(wm') = Tracked(wm)
  BY DEF SameWindows
<1>3. RegistryTyped /\ OwnersCoherent /\ FocusCoherent
  BY DEF BridgeInv, BridgeCoherent
<1>4. RegistryTyped'
  BY <1>3 DEF RegistryTyped, bridge
<1>5. OwnersCoherent'
  BY <1>2, <1>3 DEF OwnersCoherent, bridge
<1>6. FocusCoherent'
  BY <1>2, <1>3 DEF FocusCoherent, bridge
<1> QED
  BY <1>1, <1>4, <1>5, <1>6 DEF BridgeInv, BridgeCoherent

\* The same for one record.
LEMMA OneRecordMoves ==
  ASSUME BridgeInv, NEW id \in Tracked(wm), NEW rec, RecordTyped(rec),
         Rewrites(wm, wm', id, rec),
         rec.key = wm.records[id].key, rec.app = wm.records[id].app,
         UNCHANGED << bridge, appIds, focus >>, handles \subseteq popupObjs'
  PROVE  BridgeInv'
<1>1. PICK n : n = wm'
  OBVIOUS
<1>2. /\ ModelTyped(n) /\ n.nextId = wm.nextId /\ Tracked(n) = Tracked(wm)
      /\ ActiveWindow(n) = ActiveWindow(wm) /\ n.records[id] = rec
      /\ \A w \in Tracked(wm) \ {id} : n.records[w] = wm.records[w]
  BY <1>1 DEF Rewrites
<1>3. \A w \in Tracked(wm) : /\ n.records[w].key = wm.records[w].key
                             /\ n.records[w].app = wm.records[w].app
  BY <1>2
<1>4. SameWindows(wm, n)
  BY <1>2, <1>3 DEF SameWindows
<1> QED
  BY <1>1, <1>2, <1>3, <1>4, OnlyRecordsMove

LEMMA NewToplevelKeeps ==
  ASSUME BridgeInv, NEW s \in Toplevels, NewToplevel(s)
  PROVE  BridgeInv'
<1>1. PICK slot : slot = [key |-> nextKey, window |-> NoWindow]
  OBVIOUS
<1>2. /\ s \notin DOMAIN slots /\ slots' = Put(slots, s, slot)
      /\ nextKey' = nextKey + 1 /\ toplevels' = toplevels \cup {s}
      /\ UNCHANGED << wm, owners, popups, roots, handles, appIds, focus, popupObjs >>
  BY <1>1 DEF NewToplevel, launchVars
<1>3. /\ DOMAIN slots' = DOMAIN slots \cup {s} /\ slots'[s] = slot
      /\ \A t \in DOMAIN slots : slots'[t] = slots[t]
  BY <1>2 DEF Put
<1>4. RegistryTyped'
  <2>1. slot \in [key : Nat, window : Nat \cup {NoWindow}] /\ slot.key = nextKey
    BY <1>1 DEF BridgeInv, RegistryTyped
  <2>2. RegistryTyped
    BY DEF BridgeInv
  <2>3. \A t \in DOMAIN slots : slots[t].key \in Nat /\ slots[t].key < nextKey
    BY <2>2 DEF RegistryTyped
  <2> QED
    BY <1>2, <1>3, <2>1, <2>2, <2>3 DEF RegistryTyped
<1>5. WindowsCoherent'
  <2>1. slot.window = NoWindow
    BY <1>1
  <2>2. WindowsCoherent
    BY DEF BridgeInv, BridgeCoherent
  <2> QED
    BY <1>2, <1>3, <2>1, <2>2 DEF WindowsCoherent
<1>6. OwnersCoherent' /\ FocusCoherent' /\ ModelTyped(wm')
  BY <1>2 DEF BridgeInv, BridgeCoherent, OwnersCoherent, FocusCoherent, PopupsOf
<1> QED
  BY <1>4, <1>5, <1>6, <1>2 DEF BridgeInv, BridgeCoherent

\* No window appears, disappears or commits.
Still(m, n) == n.nextId = m.nextId /\ Commits(n) = Commits(m)

LEMMA StillRecord ==
  ASSUME NEW m, NEW n, NEW id \in Tracked(m), NEW rec, Rewrites(m, n, id, rec),
         rec.lastCommitSeq = m.records[id].lastCommitSeq
  PROVE  Still(m, n)
BY DEF Rewrites, Still, Commits

\* The windows that remain have as many popups.
SameCounts(m, n) ==
  \A w \in Tracked(n) : w \in Tracked(m) /\ n.records[w].popupCount = m.records[w].popupCount

LEMMA SameCountsRecord ==
  ASSUME NEW m, NEW n, NEW id \in Tracked(m), NEW rec, Rewrites(m, n, id, rec),
         rec.popupCount = m.records[id].popupCount
  PROVE  SameCounts(m, n)
BY DEF Rewrites, SameCounts

LEMMA SurfaceCommitKeeps ==
  ASSUME BridgeInv, NEW s, SurfaceCommit(s), NEW w, w = owners[s]
  PROVE  /\ BridgeInv' /\ w \in Tracked(wm)
         /\ wm'.nextId = wm.nextId /\ UNCHANGED popups /\ SameCounts(wm, wm')
         /\ Commits(wm') = [Commits(wm) EXCEPT ![w] = @ + 1]
         /\ Emit(<< Committed(w, Commits(wm)[w] + 1) >>)
<1>1. w \in Tracked(wm)
  BY OwnersAreTracked DEF SurfaceCommit
<1>2. PICK r, n : r = wm.records[w] /\ n = r.lastCommitSeq + 1
  OBVIOUS
<1>3. /\ wm' = OnCommit(wm, w, n) /\ Emit(<< Committed(w, n) >>)
      /\ UNCHANGED << bridge, appIds, focus, popupObjs >>
  BY <1>1, <1>2 DEF SurfaceCommit, launchVars, client
<1>4. PICK rec : rec = [r EXCEPT !.lastCommitSeq = n]
  OBVIOUS
<1>5. ModelTyped(wm)
  BY DEF BridgeInv
<1>6. RecordTyped(r)
  BY <1>1, <1>2, <1>5 DEF ModelTyped
<1>7. n \in Nat /\ n > r.lastCommitSeq
  BY <1>2, <1>6 DEF RecordTyped
<1>8. Rewrites(wm, wm', w, rec)
  BY <1>1, <1>2, <1>3, <1>4, <1>5, <1>7, PolicyRecords
<1>9. /\ RecordTyped(rec) /\ rec.key = r.key /\ rec.app = r.app /\ rec.lastCommitSeq = n
      /\ rec.popupCount = r.popupCount
  BY <1>4, <1>6, <1>7 DEF RecordTyped, RecordFields
<1>10. handles \subseteq popupObjs'
  BY <1>3 DEF BridgeInv, BridgeCoherent, OwnersCoherent
<1>11. BridgeInv'
  BY <1>1, <1>2, <1>3, <1>8, <1>9, <1>10, OneRecordMoves
<1>12. /\ wm'.nextId = wm.nextId /\ Tracked(wm') = Tracked(wm) /\ wm'.records[w] = rec
       /\ \A v \in Tracked(wm) \ {w} : wm'.records[v] = wm.records[v]
  BY <1>8 DEF Rewrites
<1>13. Commits(wm)[w] = r.lastCommitSeq
  BY <1>1, <1>2 DEF Commits
<1>14. Commits(wm') = [Commits(wm) EXCEPT ![w] = @ + 1]
  BY <1>1, <1>2, <1>9, <1>12, <1>13 DEF Commits
<1>15. SameCounts(wm, wm') /\ UNCHANGED popups
  BY <1>1, <1>2, <1>3, <1>8, <1>9, SameCountsRecord DEF bridge
<1> QED
  BY <1>1, <1>2, <1>3, <1>11, <1>12, <1>13, <1>14, <1>15

\* A window known to a surface is tracked.
LEMMA WindowOfSurface ==
  ASSUME BridgeInv, NEW s, WindowForSurface(s) # NoWindow
  PROVE  /\ s \in DOMAIN owners /\ owners[s] = WindowForSurface(s)
         /\ WindowForSurface(s) \in Tracked(wm)
<1>1. s \in DOMAIN owners
  BY DEF WindowForSurface, Get
<1> QED
  BY <1>1, OwnersAreTracked

LEMMA SetTitleKeeps ==
  ASSUME BridgeInv, NEW s, NEW title, SetTitle(s, title)
  PROVE  /\ BridgeInv' /\ Still(wm, wm') /\ UNCHANGED popups /\ SameCounts(wm, wm')
         /\ \/ Silent
            \/ \E w \in Tracked(wm) : Emit(<< TitleChanged(w, title) >>)
<1>1. PICK w : w = WindowForSurface(s)
  OBVIOUS
<1>2. /\ UNCHANGED << bridge, appIds, focus, popupObjs, popups >> /\ ModelTyped(wm)
      /\ handles \subseteq popupObjs'
  BY DEF SetTitle, launchVars, bridge, BridgeInv, BridgeCoherent, OwnersCoherent
<1>3. \/ UNCHANGED wm /\ Silent
      \/ /\ w # NoWindow
         /\ wm' = OnTitle(wm, w, title) /\ Emit(<< TitleChanged(w, title) >>)
  BY <1>1 DEF SetTitle
<1>4. CASE UNCHANGED wm /\ Silent
  <2>1. SameWindows(wm, wm') /\ Still(wm, wm') /\ SameCounts(wm, wm')
    BY <1>2, <1>4 DEF SameWindows, Still, SameCounts
  <2> QED
    BY <1>2, <1>4, <2>1, OnlyRecordsMove
<1>5. CASE /\ w # NoWindow
           /\ wm' = OnTitle(wm, w, title) /\ Emit(<< TitleChanged(w, title) >>)
  <2>1. w \in Tracked(wm)
    BY <1>1, <1>5, WindowOfSurface
  <2>2. PICK r, rec : r = wm.records[w] /\ rec = [r EXCEPT !.title = title]
    OBVIOUS
  <2>3. RecordTyped(r) /\ Rewrites(wm, wm', w, rec)
    BY <1>2, <1>5, <2>1, <2>2, PolicyRecords
  <2>4. /\ RecordTyped(rec) /\ rec.key = r.key /\ rec.app = r.app
        /\ rec.lastCommitSeq = r.lastCommitSeq /\ rec.popupCount = r.popupCount
    BY <2>2, <2>3 DEF RecordTyped, RecordFields
  <2> QED
    BY <1>2, <1>5, <2>1, <2>2, <2>3, <2>4, OneRecordMoves, StillRecord, SameCountsRecord
<1> QED
  BY <1>3, <1>4, <1>5

LEMMA SetAppIdKeeps ==
  ASSUME BridgeInv, NEW s, NEW app, SetAppId(s, app)
  PROVE  BridgeInv' /\ Still(wm, wm') /\ UNCHANGED popups /\ SameCounts(wm, wm') /\ Silent
<1>1. PICK w : w = WindowForSurface(s)
  OBVIOUS
<1>2. /\ UNCHANGED << bridge, focus, popupObjs, popups >> /\ ModelTyped(wm) /\ Silent
      /\ handles \subseteq popupObjs'
  BY DEF SetAppId, launchVars, bridge, BridgeInv, BridgeCoherent, OwnersCoherent
<1>3. \/ UNCHANGED << wm, appIds >>
      \/ w # NoWindow /\ wm' = OnAppId(wm, w, app) /\ appIds' = Put(appIds, w, app)
  BY <1>1 DEF SetAppId
<1>4. CASE UNCHANGED << wm, appIds >>
  <2>1. SameWindows(wm, wm') /\ Still(wm, wm') /\ SameCounts(wm, wm')
    BY <1>2, <1>4 DEF SameWindows, Still, SameCounts
  <2> QED
    BY <1>2, <1>4, <2>1, OnlyRecordsMove
<1>5. CASE w # NoWindow /\ wm' = OnAppId(wm, w, app) /\ appIds' = Put(appIds, w, app)
  <2>1. w \in Tracked(wm)
    BY <1>1, <1>5, WindowOfSurface
  <2>2. PICK n, r, rec : n = wm' /\ r = wm.records[w] /\ rec = [r EXCEPT !.app = app]
    OBVIOUS
  <2>3. RecordTyped(r) /\ Rewrites(wm, n, w, rec)
    BY <1>2, <1>5, <2>1, <2>2, PolicyRecords
  <2>4. /\ rec.key = r.key /\ rec.app = app /\ rec.lastCommitSeq = r.lastCommitSeq
        /\ rec.popupCount = r.popupCount
    BY <2>2, <2>3 DEF RecordTyped, RecordFields
  <2>5. Still(wm, n) /\ SameCounts(wm, n)
    BY <2>1, <2>2, <2>3, <2>4, StillRecord, SameCountsRecord
  <2>6. /\ ModelTyped(n) /\ n.nextId = wm.nextId /\ Tracked(n) = Tracked(wm)
        /\ ActiveWindow(n) = ActiveWindow(wm) /\ n.records[w] = rec
        /\ \A v \in Tracked(wm) \ {w} : n.records[v] = wm.records[v]
    BY <2>3 DEF Rewrites
  <2>7. WindowsCoherent /\ OwnersCoherent /\ FocusCoherent /\ RegistryTyped
    BY DEF BridgeInv, BridgeCoherent
  <2>8. \A v \in Tracked(wm) : n.records[v].key = wm.records[v].key
    BY <2>2, <2>4, <2>6
  <2>9. DOMAIN appIds' = Tracked(wm) /\ \A v \in Tracked(wm) : appIds'[v] = n.records[v].app
    <3>1. DOMAIN appIds = Tracked(wm) /\ \A v \in Tracked(wm) : appIds[v] = wm.records[v].app
      BY <2>7 DEF WindowsCoherent
    <3> QED
      BY <1>5, <2>1, <2>4, <2>6, <3>1 DEF Put
  <2>10. Tracked(wm') = Tracked(wm) /\ ActiveWindow(wm') = ActiveWindow(wm)
    BY <2>2, <2>6
  <2>11. WindowsCoherent'
    <3>1. \A v \in Tracked(wm) : wm'.records[v].key = wm.records[v].key
                                   /\ appIds'[v] = wm'.records[v].app
      BY <2>2, <2>8, <2>9
    <3> QED
      BY <1>2, <2>7, <2>9, <2>10, <3>1 DEF WindowsCoherent, bridge
  <2>12. OwnersCoherent' /\ FocusCoherent' /\ RegistryTyped'
    BY <1>2, <2>7, <2>10 DEF OwnersCoherent, FocusCoherent, RegistryTyped, bridge
  <2>13. ModelTyped(wm')
    BY <2>2, <2>6
  <2> QED
    BY <1>2, <2>2, <2>5, <2>11, <2>12, <2>13 DEF BridgeInv, BridgeCoherent
<1> QED
  BY <1>3, <1>4, <1>5

\* Handlers of launches and numbers, and a grab: no table of the bridge changes.
LEMMA OthersKeep ==
  ASSUME BridgeInv, UNCHANGED << wm, bridge, appIds, focus, popupObjs >>
  PROVE  BridgeInv' /\ Still(wm, wm') /\ UNCHANGED popups /\ SameCounts(wm, wm')
<1>1. SameWindows(wm, wm') /\ Still(wm, wm') /\ SameCounts(wm, wm') /\ UNCHANGED popups
  BY DEF BridgeInv, SameWindows, Still, SameCounts, bridge
<1>2. handles \subseteq popupObjs'
  BY DEF BridgeInv, BridgeCoherent, OwnersCoherent
<1> QED
  BY <1>1, <1>2, OnlyRecordsMove

\* popup_added by a surface of a tracked window, and by any other.
PopupOpened(p, w) ==
  /\ p \notin DOMAIN popups /\ DOMAIN popups' = DOMAIN popups \cup {p}
  /\ popups'[p].window = w /\ popups'[p].id = nextPopup /\ nextPopup' = nextPopup + 1
  /\ \A q \in DOMAIN popups : popups'[q] = popups[q]
  /\ wm' = OnPopupAdded(wm, w)

LEMMA NewPopupKeeps ==
  ASSUME BridgeInv, NEW p \in Popups, NEW parent, NewPopup(p, parent)
  PROVE  /\ BridgeInv' /\ Still(wm, wm')
         /\ \/ UNCHANGED << wm, popups, nextPopup >> /\ Silent
            \/ \E w \in Tracked(wm) :
                 Emit(<< PopupEvent("popup", w, nextPopup) >>) /\ PopupOpened(p, w)
<1>1. PICK w, id, entry :
        /\ w = WindowForSurface(parent)
        /\ id = (IF p \in DOMAIN popups THEN popups[p].id ELSE nextPopup)
        /\ entry = [window |-> w, id |-> id, parent |-> parent]
  OBVIOUS
<1>2. /\ WindowsCoherent /\ OwnersCoherent /\ FocusCoherent /\ RegistryTyped
      /\ ModelTyped(wm)
  BY DEF BridgeInv, BridgeCoherent
<1>3. p \notin DOMAIN popups /\ popupObjs' = popupObjs \cup {p}
  BY <1>2 DEF NewPopup, OwnersCoherent
<1>4. /\ UNCHANGED << slots, nextKey, toplevels, roots, appIds, focus >>
      /\ handles \subseteq popupObjs'
  BY <1>2, <1>3 DEF NewPopup, launchVars, OwnersCoherent
<1>5. \/ Silent /\ UNCHANGED << wm, owners, popups, nextPopup, handles >>
      \/ /\ w # NoWindow /\ popups' = Put(popups, p, entry) /\ owners' = Put(owners, p, w)
         /\ handles' = handles \cup {p} /\ wm' = OnPopupAdded(wm, w)
         /\ id = nextPopup /\ nextPopup' = nextPopup + 1
         /\ Emit(<< PopupEvent("popup", w, id) >>)
  BY <1>1, <1>3 DEF NewPopup
<1>6. CASE Silent /\ UNCHANGED << wm, owners, popups, nextPopup, handles >>
  <2>1. UNCHANGED << wm, bridge, appIds, focus >>
    BY <1>4, <1>6 DEF bridge
  <2>2. SameWindows(wm, wm') /\ Still(wm, wm')
    BY <1>2, <1>6 DEF SameWindows, Still
  <2> QED
    BY <1>4, <1>6, <2>1, <2>2, OnlyRecordsMove
<1>7. CASE /\ w # NoWindow /\ popups' = Put(popups, p, entry) /\ owners' = Put(owners, p, w)
           /\ handles' = handles \cup {p} /\ wm' = OnPopupAdded(wm, w)
           /\ id = nextPopup /\ nextPopup' = nextPopup + 1
           /\ Emit(<< PopupEvent("popup", w, id) >>)
  <2>1. w \in Tracked(wm)
    BY <1>1, <1>7, WindowOfSurface
  <2>2. PICK r : r = wm.records[w]
    OBVIOUS
  <2>3. PICK rec : /\ RecordTyped(rec) /\ rec.key = r.key /\ rec.app = r.app
                   /\ rec.lastCommitSeq = r.lastCommitSeq
                   /\ Rewrites(wm, OnPopupAdded(wm, w), w, rec)
    BY <1>2, <2>1, <2>2, PolicyRecords
  <2>4. Still(wm, wm')
    BY <1>7, <2>1, <2>2, <2>3, StillRecord
  <2>5. /\ SameWindows(wm, wm') /\ ActiveWindow(wm') = ActiveWindow(wm)
        /\ \A v \in Tracked(wm) : wm'.records[v].app = wm.records[v].app
    <3>1. PICK n : n = wm'
      OBVIOUS
    <3>2. /\ ModelTyped(n) /\ n.nextId = wm.nextId /\ Tracked(n) = Tracked(wm)
          /\ ActiveWindow(n) = ActiveWindow(wm) /\ n.records[w] = rec
          /\ \A v \in Tracked(wm) \ {w} : n.records[v] = wm.records[v]
      BY <1>7, <2>3, <3>1 DEF Rewrites
    <3>3. \A v \in Tracked(wm) : /\ n.records[v].key = wm.records[v].key
                                 /\ n.records[v].app = wm.records[v].app
      BY <2>2, <2>3, <3>2
    <3> QED
      BY <3>1, <3>2, <3>3 DEF SameWindows
  <2>6. ModelTyped(wm') /\ WindowsCoherent'
    BY <1>4, <2>5, RecordsMove
  <2>7. Tracked(wm') = Tracked(wm)
    BY <2>5 DEF SameWindows
  <2>8. /\ DOMAIN popups' = DOMAIN popups \cup {p} /\ popups'[p] = entry
        /\ \A q \in DOMAIN popups : popups'[q] = popups[q]
        /\ DOMAIN owners' = DOMAIN owners \cup {p} /\ owners'[p] = w
        /\ \A s \in DOMAIN owners \ {p} : owners'[s] = owners[s]
    <3>1. popups' = Put(popups, p, entry) /\ owners' = Put(owners, p, w)
      BY <1>7
    <3>2. /\ DOMAIN Put(popups, p, entry) = DOMAIN popups \cup {p}
          /\ Put(popups, p, entry)[p] = entry
          /\ \A q \in DOMAIN popups \ {p} : Put(popups, p, entry)[q] = popups[q]
      BY DEF Put
    <3>3. /\ DOMAIN Put(owners, p, w) = DOMAIN owners \cup {p}
          /\ Put(owners, p, w)[p] = w
          /\ \A s \in DOMAIN owners \ {p} : Put(owners, p, w)[s] = owners[s]
      BY DEF Put
    <3> QED
      BY <1>3, <3>1, <3>2, <3>3
  <2>9. entry.window = w /\ entry.id = id
    BY <1>1
  <2>10. RegistryTyped'
    <3>1. IsFiniteSet(DOMAIN popups \cup {p})
      BY <1>2, FS_AddElement DEF RegistryTyped
    <3> QED
      BY <1>2, <1>4, <2>8, <3>1 DEF RegistryTyped
  <2>11. OwnersCoherent'
    <3>1. \A v \in Tracked(wm) : roots[v] \in DOMAIN owners /\ roots[v] # p
      <4>1. \A v \in Tracked(wm) : roots[v] \in DOMAIN slots
        BY <1>2 DEF WindowsCoherent
      <4>2. DOMAIN slots \subseteq Toplevels
        BY <1>2 DEF RegistryTyped
      <4> QED
        BY <1>2, <4>1, <4>2, CompositorAssumption DEF OwnersCoherent
    <3>2. handles' \subseteq popupObjs'
      BY <1>3, <1>2, <1>7 DEF OwnersCoherent
    <3>3. DOMAIN owners' = {roots'[v] : v \in Tracked(wm)} \cup DOMAIN popups'
      BY <1>2, <1>4, <2>8 DEF OwnersCoherent
    <3>4. \A v \in Tracked(wm) : owners'[roots'[v]] = v
      BY <1>2, <1>4, <2>8, <3>1 DEF OwnersCoherent
    <3>5. \A q \in DOMAIN popups' : popups'[q].window \in Tracked(wm) /\ owners'[q] = popups'[q].window
      <4>1. \A q \in DOMAIN popups : q \in DOMAIN owners \ {p}
        BY <1>2, <1>3 DEF OwnersCoherent
      <4> QED
        BY <1>2, <2>1, <2>8, <2>9, <4>1 DEF OwnersCoherent
    <3>6. DOMAIN popups' = handles'
      BY <1>2, <1>7, <2>8 DEF OwnersCoherent
    <3> QED
      BY <2>7, <3>2, <3>3, <3>4, <3>5, <3>6 DEF OwnersCoherent
  <2>12. FocusCoherent'
    BY <1>2, <1>4, <2>5, <2>7 DEF FocusCoherent
  <2>13. PopupOpened(p, w)
    BY <1>3, <1>7, <2>8, <2>9 DEF PopupOpened
  <2> QED
    BY <1>7, <2>1, <2>4, <2>6, <2>10, <2>11, <2>12, <2>13 DEF BridgeInv, BridgeCoherent
<1> QED
  BY <1>5, <1>6, <1>7

\* popup_removed.
PopupClosed(p, w) ==
  /\ p \in DOMAIN popups /\ popups[p].window = w
  /\ DOMAIN popups' = DOMAIN popups \ {p}
  /\ \A q \in DOMAIN popups' : popups'[q] = popups[q]
  /\ wm' = OnPopupRemoved(wm, w)

LEMMA UntrackKeeps ==
  ASSUME BridgeInv, NEW p \in Popups, Untrack(p), popupObjs \ {p} \subseteq popupObjs',
         UNCHANGED << slots, nextKey, nextPopup, toplevels, roots, appIds, focus >>
  PROVE  /\ BridgeInv' /\ Still(wm, wm')
         /\ \/ UNCHANGED << wm, popups >> /\ Silent
            \/ \E w \in Tracked(wm) :
                 Emit(<< PopupEvent("popup_gone", w, popups[p].id) >>) /\ PopupClosed(p, w)
<1>1. PICK w, id : w = popups[p].window /\ id = popups[p].id
  OBVIOUS
<1>2. /\ WindowsCoherent /\ OwnersCoherent /\ FocusCoherent /\ RegistryTyped
      /\ ModelTyped(wm)
  BY DEF BridgeInv, BridgeCoherent
<1>3. CASE p \notin DOMAIN popups
  <2>1. Silent /\ UNCHANGED << wm, bridge >>
    BY <1>3 DEF Untrack, bridge
  <2>2. handles \subseteq popupObjs'
    BY <1>2, <1>3 DEF OwnersCoherent
  <2>3. SameWindows(wm, wm') /\ Still(wm, wm')
    BY <1>2, <2>1 DEF SameWindows, Still
  <2> QED
    BY <2>1, <2>2, <2>3, OnlyRecordsMove DEF bridge
<1>4. CASE p \in DOMAIN popups
  <2>0. /\ popups' = Drop(popups, {p}) /\ owners' = Drop(owners, {p})
        /\ handles' = handles \ {p} /\ wm' = OnPopupRemoved(wm, w)
        /\ Emit(<< PopupEvent("popup_gone", w, id) >>)
    BY <1>1, <1>4 DEF Untrack
  <2>1. w \in Tracked(wm)
    BY <1>1, <1>2, <1>4 DEF OwnersCoherent
  <2>2. PICK r : r = wm.records[w]
    OBVIOUS
  <2>3. PICK rec : /\ RecordTyped(rec) /\ rec.key = r.key /\ rec.app = r.app
                   /\ rec.lastCommitSeq = r.lastCommitSeq
                   /\ Rewrites(wm, OnPopupRemoved(wm, w), w, rec)
    BY <1>2, <2>1, <2>2, PolicyRecords
  <2>4. Still(wm, wm')
    BY <2>0, <2>1, <2>2, <2>3, StillRecord
  <2>5. /\ SameWindows(wm, wm') /\ ActiveWindow(wm') = ActiveWindow(wm)
        /\ \A v \in Tracked(wm) : wm'.records[v].app = wm.records[v].app
    <3>1. PICK n : n = wm'
      OBVIOUS
    <3>2. /\ ModelTyped(n) /\ n.nextId = wm.nextId /\ Tracked(n) = Tracked(wm)
          /\ ActiveWindow(n) = ActiveWindow(wm) /\ n.records[w] = rec
          /\ \A v \in Tracked(wm) \ {w} : n.records[v] = wm.records[v]
      BY <2>0, <2>3, <3>1 DEF Rewrites
    <3>3. \A v \in Tracked(wm) : /\ n.records[v].key = wm.records[v].key
                                 /\ n.records[v].app = wm.records[v].app
      BY <2>2, <2>3, <3>2
    <3> QED
      BY <3>1, <3>2, <3>3 DEF SameWindows
  <2>6. ModelTyped(wm') /\ WindowsCoherent'
    BY <2>5, RecordsMove
  <2>7. Tracked(wm') = Tracked(wm)
    BY <2>5 DEF SameWindows
  <2>8. /\ DOMAIN popups' = DOMAIN popups \ {p}
        /\ \A q \in DOMAIN popups \ {p} : popups'[q] = popups[q]
        /\ DOMAIN owners' = DOMAIN owners \ {p}
        /\ \A s \in DOMAIN owners \ {p} : owners'[s] = owners[s]
    <3>1. /\ DOMAIN Drop(popups, {p}) = DOMAIN popups \ {p}
          /\ \A q \in DOMAIN popups \ {p} : Drop(popups, {p})[q] = popups[q]
      BY DEF Drop
    <3>2. /\ DOMAIN Drop(owners, {p}) = DOMAIN owners \ {p}
          /\ \A s \in DOMAIN owners \ {p} : Drop(owners, {p})[s] = owners[s]
      BY DEF Drop
    <3> QED
      BY <2>0, <3>1, <3>2
  <2>9. RegistryTyped'
    <3>1. IsFiniteSet(DOMAIN popups \ {p})
      BY <1>2, FS_RemoveElement DEF RegistryTyped
    <3> QED
      BY <1>2, <2>8, <3>1 DEF RegistryTyped
  <2>10. OwnersCoherent'
    <3>1. \A v \in Tracked(wm) : roots[v] # p
      <4>1. \A v \in Tracked(wm) : roots[v] \in DOMAIN slots
        BY <1>2 DEF WindowsCoherent
      <4>2. DOMAIN slots \subseteq Toplevels
        BY <1>2 DEF RegistryTyped
      <4> QED
        BY <4>1, <4>2, CompositorAssumption
    <3>2. handles' \subseteq popupObjs' /\ DOMAIN popups' = handles'
      BY <1>2, <2>0, <2>8 DEF OwnersCoherent
    <3>3. DOMAIN owners' = {roots'[v] : v \in Tracked(wm)} \cup DOMAIN popups'
      BY <1>2, <2>8, <3>1 DEF OwnersCoherent
    <3>4. \A v \in Tracked(wm) : owners'[roots'[v]] = v
      BY <1>2, <2>8, <3>1 DEF OwnersCoherent
    <3>5. \A q \in DOMAIN popups' : popups'[q].window \in Tracked(wm) /\ owners'[q] = popups'[q].window
      <4>1. \A q \in DOMAIN popups : q \in DOMAIN owners
        BY <1>2 DEF OwnersCoherent
      <4> QED
        BY <1>2, <2>8, <4>1 DEF OwnersCoherent
    <3> QED
      BY <2>7, <3>2, <3>3, <3>4, <3>5 DEF OwnersCoherent
  <2>11. FocusCoherent'
    BY <1>2, <2>5, <2>7 DEF FocusCoherent
  <2>12. PopupClosed(p, w)
    BY <1>1, <1>4, <2>0, <2>8 DEF PopupClosed
  <2> QED
    BY <1>1, <2>0, <2>1, <2>4, <2>6, <2>9, <2>10, <2>11, <2>12 DEF BridgeInv, BridgeCoherent
<1> QED
  BY <1>3, <1>4

(***************************************************************************)
(* What a list of activations publishes, and where the focus goes: nothing *)
(* and nowhere, or two notices of the window that is now active.           *)
(***************************************************************************)
Announces(actions, previous, w) ==
  /\ Activations(actions) # {} /\ Activation(actions).id = w
  /\ \E before \in {previous, NoWindow} :
       ActivationEvents(actions, previous) = << Activated(w, before), FocusChanged(w) >>

\* What the handlers read of the policy's actions.
LEMMA ActionsTold ==
  ASSUME NEW id, NEW previous
  PROVE  /\ Activations(<< >>) = {} /\ Activations(<< NoAction >>) = {}
         /\ Announces(<< Activate(id) >>, previous, id)
         /\ Announces(<< ActivatePrevious(id) >>, previous, id)
         /\ \A rect : Announces(<< Configure(id, rect), Activate(id) >>, previous, id)
<1>1. Activations(<< >>) = {}
  BY DEF Activations, Elems
<1>2. Activations(<< NoAction >>) = {}
  BY DEF Activations, Elems, NoAction
<1>3. Activations(<< Activate(id) >>) = {Activate(id)}
  BY DEF Activations, Elems, Activate
<1>4. Activations(<< ActivatePrevious(id) >>) = {ActivatePrevious(id)}
  BY DEF Activations, Elems, ActivatePrevious
<1>5. ASSUME NEW rect
      PROVE  Activations(<< Configure(id, rect), Activate(id) >>) = {Activate(id)}
  BY DEF Activations, Elems, Activate, Configure
<1>6. ASSUME NEW actions, NEW one \in {Activate(id), ActivatePrevious(id)},
             Activations(actions) = {one}
      PROVE  Announces(actions, previous, id)
  <2>1. Activation(actions) = one /\ one.id = id
    BY <1>6 DEF Activation, Activate, ActivatePrevious
  <2>2. \E before \in {previous, NoWindow} :
          ActivationEvents(actions, previous) = << Activated(id, before), FocusChanged(id) >>
    BY <1>6, <2>1 DEF ActivationEvents
  <2> QED
    BY <1>6, <2>1, <2>2 DEF Announces
<1> QED
  BY <1>1, <1>2, <1>3, <1>4, <1>5, <1>6

LEMMA DecisionMovesFocus ==
  ASSUME NEW actions, ApplyDecision(actions)
  PROVE  /\ Activations(actions) = {} =>
              UNCHANGED focus /\ \A previous : ActivationEvents(actions, previous) = << >>
         /\ \A w, previous : Announces(actions, previous, w) =>
              focus' = SurfaceOf(w, roots', toplevels')
BY DEF ApplyDecision, ActivationEvents, Announces

LEMMA ActivateWindowKeeps ==
  ASSUME BridgeInv, NEW w, ActivateWindow(w)
  PROVE  /\ BridgeInv' /\ Still(wm, wm') /\ w \in Tracked(wm) /\ UNCHANGED popups
         /\ SameCounts(wm, wm') /\ ActiveWindow(wm') = w
         /\ \/ Silent /\ ActiveWindow(wm) = w
            \/ \E before \in {KeyboardFocus, NoWindow} :
                 Emit(<< Activated(w, before), FocusChanged(w) >>)
<1>1. PICK result, n : result = OnActivate(wm, w) /\ n = result.model
  OBVIOUS
<1>2. /\ w \in Tracked(wm) /\ UNCHANGED << bridge, appIds, popupObjs >>
      /\ wm' = n /\ ApplyDecision(result.actions)
      /\ Emit(ActivationEvents(result.actions, KeyboardFocus))
  BY <1>1 DEF ActivateWindow, launchVars, client
<1>3. /\ WindowsCoherent /\ OwnersCoherent /\ FocusCoherent /\ RegistryTyped
      /\ ModelTyped(wm)
  BY DEF BridgeInv, BridgeCoherent
<1>4. /\ ModelTyped(n) /\ n.nextId = wm.nextId /\ Tracked(n) = Tracked(wm)
      /\ ActiveWindow(n) = w
      /\ \A v \in Tracked(wm) : SameBody(wm.records[v], n.records[v])
      /\ \/ result.actions = << NoAction >> /\ ActiveWindow(wm) = w
         \/ result.actions = << Activate(w) >>
  BY <1>1, <1>2, <1>3, PolicyActivate
<1>5. \A v \in Tracked(wm) : /\ n.records[v].key = wm.records[v].key
                             /\ n.records[v].app = wm.records[v].app
                             /\ n.records[v].popupCount = wm.records[v].popupCount
                             /\ n.records[v].lastCommitSeq = wm.records[v].lastCommitSeq
  BY <1>4 DEF SameBody
<1>6. SameWindows(wm, n) /\ Still(wm, n) /\ SameCounts(wm, n)
  BY <1>4, <1>5 DEF SameWindows, Still, Commits, SameCounts
<1>7. WindowsCoherent'
  <2>1. SameWindows(wm, wm') /\ \A v \in Tracked(wm) : wm'.records[v].app = wm.records[v].app
    BY <1>2, <1>5, <1>6
  <2> QED
    BY <1>2, <2>1, RecordsMove DEF bridge
<1>8. Tracked(wm') = Tracked(wm) /\ ActiveWindow(wm') = w
  BY <1>2, <1>4
<1>9. OwnersCoherent' /\ RegistryTyped'
  BY <1>2, <1>3, <1>8 DEF OwnersCoherent, RegistryTyped, bridge
<1>10. /\ focus' = roots[w]
       /\ \/ ActivationEvents(result.actions, KeyboardFocus) = << >> /\ ActiveWindow(wm) = w
          \/ \E before \in {KeyboardFocus, NoWindow} :
               ActivationEvents(result.actions, KeyboardFocus)
                 = << Activated(w, before), FocusChanged(w) >>
  <2>1. CASE result.actions = << NoAction >> /\ ActiveWindow(wm) = w
    <3>1. Activations(result.actions) = {}
      BY <2>1, ActionsTold
    <3>2. UNCHANGED focus /\ ActivationEvents(result.actions, KeyboardFocus) = << >>
      BY <1>2, <3>1, DecisionMovesFocus
    <3> QED
      BY <1>2, <1>3, <2>1, <3>2 DEF FocusCoherent
  <2>2. CASE result.actions = << Activate(w) >>
    <3>1. Announces(result.actions, KeyboardFocus, w)
      BY <2>2, ActionsTold
    <3>2. focus' = SurfaceOf(w, roots', toplevels')
      BY <1>2, <3>1, DecisionMovesFocus
    <3>3. /\ roots' = roots /\ toplevels' = toplevels
          /\ w \in DOMAIN roots /\ roots[w] \in toplevels
      BY <1>2, <1>3 DEF WindowsCoherent, bridge
    <3> QED
      BY <3>1, <3>2, <3>3 DEF SurfaceOf, Announces
  <2> QED
    BY <1>4, <2>1, <2>2
<1>11. FocusCoherent'
  BY <1>2, <1>8, <1>10 DEF FocusCoherent, bridge
<1>12. BridgeInv'
  BY <1>2, <1>4, <1>7, <1>9, <1>11 DEF BridgeInv, BridgeCoherent
<1>13. UNCHANGED popups
  BY <1>2 DEF bridge
<1>14. \/ Silent /\ ActiveWindow(wm) = w
       \/ \E before \in {KeyboardFocus, NoWindow} :
            Emit(<< Activated(w, before), FocusChanged(w) >>)
  BY <1>2, <1>10 DEF Silent
<1> QED
  BY <1>2, <1>5, <1>6, <1>8, <1>12, <1>13, <1>14

\* Lists written down are concatenated by writing them down.
LEMMA ListsJoin ==
  ASSUME NEW a, NEW b, NEW c, NEW d
  PROVE  << a >> \o << b, c >> \o << d >> = << a, b, c, d >>
<1> DEFINE S == {a, b, c, d}
<1>1. /\ << a >> \in Seq(S) /\ << b, c >> \in Seq(S) /\ << d >> \in Seq(S)
      /\ << a, b, c >> \in Seq(S) /\ << a, b, c, d >> \in Seq(S)
  OBVIOUS
<1>2. << a >> \o << b, c >> = << a, b, c >>
  <2>1. /\ << a >> \o << b, c >> \in Seq(S) /\ Len(<< a >> \o << b, c >>) = 3
        /\ \A i \in 1 .. 3 : (<< a >> \o << b, c >>)[i] = << a, b, c >>[i]
    BY <1>1
  <2> QED
    BY <1>1, <2>1, SeqEqual
<1>3. << a, b, c >> \o << d >> = << a, b, c, d >>
  <2>1. /\ << a, b, c >> \o << d >> \in Seq(S) /\ Len(<< a, b, c >> \o << d >>) = 4
        /\ \A i \in 1 .. 4 : (<< a, b, c >> \o << d >>)[i] = << a, b, c, d >>[i]
    BY <1>1
  <2> QED
    BY <1>1, <2>1, SeqEqual
<1> QED
  BY <1>2, <1>3

\* A toplevel's first buffer opens the next window, which takes the focus.
LEMMA FirstBufferKeeps ==
  ASSUME BridgeInv, NEW s, FirstBuffer(s), NEW w, w = wm.nextId
  PROVE  /\ BridgeInv' /\ UNCHANGED popups
         /\ w \in Ids /\ w \notin Tracked(wm) /\ Tracked(wm') = Tracked(wm) \cup {w}
         /\ wm'.nextId = w + 1 /\ Commits(wm') = Put(Commits(wm), w, 1)
         /\ wm'.records[w].popupCount = 0 /\ ActiveWindow(wm') = w
         /\ \A v \in Tracked(wm) : wm'.records[v].popupCount = wm.records[v].popupCount
         /\ \E launch : \E before \in {KeyboardFocus, NoWindow} :
              Emit(<< Created(w, launch), Activated(w, before), FocusChanged(w), Committed(w, 1) >>)
<1>1. PICK req : req = [key |-> slots[s].key, app |-> meta[s].app, pid |-> PidOf[s],
                        title |-> meta[s].title, createdSeq |-> lastSeq]
  OBVIOUS
<1>2. PICK mapped, n, launch :
        /\ mapped = OnMap(wm, req) /\ n = mapped.model
        /\ launch = Correlate(ledger, meta[s].app, PidOf[s], meta[s].title)
  OBVIOUS
<1>3. /\ s \in DOMAIN slots /\ slots[s].window = NoWindow /\ wm.nextId <= MaxWindows
      /\ wm' = OnCommit(n, mapped.id, 1)
      /\ slots' = [slots EXCEPT ![s].window = mapped.id]
      /\ owners' = Put(owners, s, mapped.id)
      /\ roots' = Put(roots, mapped.id, s)
      /\ appIds' = Put(appIds, mapped.id, meta[s].app)
      /\ UNCHANGED << popups, nextKey, nextPopup, toplevels, handles, popupObjs >>
      /\ ApplyDecision(mapped.actions)
      /\ Emit(<< Created(mapped.id, launch) >>
              \o ActivationEvents(mapped.actions, KeyboardFocus) \o << Committed(mapped.id, 1) >>)
  BY <1>1, <1>2 DEF FirstBuffer, client
<1>4. /\ WindowsCoherent /\ OwnersCoherent /\ FocusCoherent /\ RegistryTyped
      /\ ModelTyped(wm)
  BY DEF BridgeInv, BridgeCoherent
<1>5. req.key = slots[s].key /\ req.app = meta[s].app
  BY <1>1
<1>6. /\ WindowsOfKey(wm, req.key) = {} /\ s \notin DOMAIN owners
      /\ \A v \in Tracked(wm) : roots[v] # s
  BY <1>3, <1>5, SlotsTellRoots
<1>7. /\ ModelTyped(n) /\ n.nextId = w + 1
      /\ w \notin Tracked(wm) /\ Tracked(n) = Tracked(wm) \cup {w} /\ ActiveWindow(n) = w
      /\ mapped.id = w /\ mapped.actions = << Configure(w, wm.rect), Activate(w) >>
      /\ \A v \in Tracked(wm) : SameBody(wm.records[v], n.records[v])
      /\ n.records[w].key = req.key /\ n.records[w].app = req.app
      /\ n.records[w].lastCommitSeq = 0 /\ n.records[w].popupCount = 0
  BY <1>2, <1>4, <1>6, PolicyMap
<1>8. PICK r, rec : r = n.records[w] /\ rec = [r EXCEPT !.lastCommitSeq = 1]
  OBVIOUS
<1>9. RecordTyped(r) /\ Rewrites(n, wm', w, rec)
  <2>1. w \in Tracked(n) /\ wm' = OnCommit(n, w, 1) /\ 1 > r.lastCommitSeq
    BY <1>3, <1>7, <1>8
  <2> QED
    BY <1>7, <1>8, <2>1, PolicyRecords
<1>10. /\ rec.key = req.key /\ rec.app = req.app /\ rec.lastCommitSeq = 1 /\ rec.popupCount = 0
  BY <1>7, <1>8, <1>9 DEF RecordTyped, RecordFields
<1>11. /\ ModelTyped(wm') /\ wm'.nextId = w + 1 /\ Tracked(wm') = Tracked(wm) \cup {w}
       /\ ActiveWindow(wm') = w /\ wm'.records[w] = rec
       /\ \A v \in Tracked(wm) : wm'.records[v] = n.records[v]
  BY <1>7, <1>9 DEF Rewrites
<1>12. \A v \in Tracked(wm) : /\ wm'.records[v].key = wm.records[v].key
                              /\ wm'.records[v].app = wm.records[v].app
                              /\ wm'.records[v].lastCommitSeq = wm.records[v].lastCommitSeq
                              /\ wm'.records[v].popupCount = wm.records[v].popupCount
  BY <1>7, <1>11 DEF SameBody
<1>13. PICK slot : slot = [slots[s] EXCEPT !.window = w]
  OBVIOUS
<1>14. /\ slots[s] \in [key : Nat, window : Nat \cup {NoWindow}]
       /\ w \in Nat \ {0} /\ w # NoWindow
  BY <1>3, <1>4, PolicyAssumption DEF RegistryTyped, ModelTyped
<1>15. slot = [key |-> req.key, window |-> w] /\ slot \in [key : Nat, window : Nat \cup {NoWindow}]
  BY <1>5, <1>13, <1>14
<1>16. /\ DOMAIN slots' = DOMAIN slots /\ slots'[s] = slot
       /\ \A t \in DOMAIN slots \ {s} : slots'[t] = slots[t]
  BY <1>3, <1>7, <1>13
<1>17. /\ DOMAIN roots' = DOMAIN roots \cup {w} /\ roots'[w] = s
       /\ \A v \in DOMAIN roots \ {w} : roots'[v] = roots[v]
  BY <1>3, <1>7 DEF Put
<1>18. /\ DOMAIN owners' = DOMAIN owners \cup {s} /\ owners'[s] = w
       /\ \A t \in DOMAIN owners \ {s} : owners'[t] = owners[t]
  BY <1>3, <1>7 DEF Put
<1>19. /\ DOMAIN appIds' = DOMAIN appIds \cup {w} /\ appIds'[w] = req.app
       /\ \A v \in DOMAIN appIds \ {w} : appIds'[v] = appIds[v]
  BY <1>3, <1>5, <1>7 DEF Put
<1>20. RegistryTyped'
  <2>1. slot.key = slots[s].key
    BY <1>5, <1>15
  <2>2. \A t \in DOMAIN slots : /\ slots'[t] \in [key : Nat, window : Nat \cup {NoWindow}]
                                /\ slots'[t].key = slots[t].key
    BY <1>4, <1>15, <1>16, <2>1 DEF RegistryTyped
  <2> QED
    BY <1>3, <1>4, <1>16, <2>2 DEF RegistryTyped
<1>21. WindowsCoherent'
  <2>1. DOMAIN roots' = Tracked(wm') /\ DOMAIN appIds' = Tracked(wm') /\ toplevels' = DOMAIN slots'
    BY <1>3, <1>4, <1>11, <1>16, <1>17, <1>19 DEF WindowsCoherent
  <2>2. ASSUME NEW v \in Tracked(wm)
        PROVE  /\ roots'[v] \in DOMAIN slots' /\ roots'[v] = roots[v]
               /\ slots'[roots'[v]] = [key |-> wm'.records[v].key, window |-> v]
               /\ appIds'[v] = wm'.records[v].app
    <3>1. /\ roots[v] \in DOMAIN slots /\ v \in DOMAIN roots /\ v \in DOMAIN appIds
          /\ slots[roots[v]] = [key |-> wm.records[v].key, window |-> v]
          /\ appIds[v] = wm.records[v].app
      BY <1>4, <2>2 DEF WindowsCoherent
    <3>2. v # w /\ roots[v] # s
      BY <1>6, <1>7, <2>2
    <3> QED
      BY <1>12, <1>16, <1>17, <1>19, <2>2, <3>1, <3>2
  <2>3. /\ roots'[w] \in DOMAIN slots'
        /\ slots'[roots'[w]] = [key |-> wm'.records[w].key, window |-> w]
        /\ appIds'[w] = wm'.records[w].app
    BY <1>3, <1>10, <1>11, <1>15, <1>16, <1>17, <1>19
  <2>4. ASSUME NEW t \in DOMAIN slots', slots'[t].window # NoWindow
        PROVE  slots'[t].window \in Tracked(wm') /\ roots'[slots'[t].window] = t
    <3>1. CASE t = s
      BY <1>11, <1>15, <1>16, <1>17, <3>1
    <3>2. CASE t # s
      <4>1. /\ t \in DOMAIN slots /\ slots'[t] = slots[t]
            /\ slots[t].window \in Tracked(wm) /\ roots[slots[t].window] = t
        BY <1>4, <1>16, <2>4, <3>2 DEF WindowsCoherent
      <4>2. roots'[slots[t].window] = t
        BY <2>2, <4>1
      <4>3. slots[t].window \in Tracked(wm')
        BY <1>11, <4>1
      <4> QED
        BY <4>1, <4>2, <4>3
    <3> QED
      BY <3>1, <3>2
  <2> QED
    BY <1>11, <2>1, <2>2, <2>3, <2>4 DEF WindowsCoherent
<1>22. OwnersCoherent'
  <2>1. \A v \in Tracked(wm) : roots[v] \in DOMAIN owners /\ roots'[v] = roots[v]
    BY <1>4, <1>7, <1>17 DEF OwnersCoherent, WindowsCoherent
  <2>2. DOMAIN owners' = {roots'[v] : v \in Tracked(wm')} \cup DOMAIN popups'
    BY <1>3, <1>4, <1>11, <1>17, <1>18, <2>1 DEF OwnersCoherent
  <2>3. \A v \in Tracked(wm') : owners'[roots'[v]] = v
    BY <1>4, <1>6, <1>11, <1>17, <1>18, <2>1 DEF OwnersCoherent
  <2>4. \A q \in DOMAIN popups' : popups'[q].window \in Tracked(wm') /\ owners'[q] = popups'[q].window
    <3>1. \A q \in DOMAIN popups : q \in DOMAIN owners \ {s}
      BY <1>4, <1>6 DEF OwnersCoherent
    <3> QED
      BY <1>3, <1>4, <1>11, <1>18, <3>1 DEF OwnersCoherent
  <2> QED
    BY <1>3, <1>4, <2>2, <2>3, <2>4 DEF OwnersCoherent
<1>23a. Announces(mapped.actions, KeyboardFocus, w)
  <2>1. \A rect : Announces(<< Configure(w, rect), Activate(w) >>, KeyboardFocus, w)
    BY ActionsTold
  <2>2. Announces(<< Configure(w, wm.rect), Activate(w) >>, KeyboardFocus, w)
    BY <2>1
  <2> QED
    BY <1>7, <2>2
<1>23. PICK before \in {KeyboardFocus, NoWindow} : ActivationEvents(mapped.actions, KeyboardFocus)
                       = << Activated(w, before), FocusChanged(w) >>
  BY <1>23a DEF Announces
<1>24. FocusCoherent'
  <2>1. focus' = SurfaceOf(w, roots', toplevels')
    BY <1>3, <1>23a, DecisionMovesFocus
  <2>2. w \in DOMAIN roots' /\ roots'[w] \in toplevels'
    BY <1>3, <1>4, <1>17 DEF WindowsCoherent
  <2> QED
    BY <1>11, <2>1, <2>2 DEF SurfaceOf, FocusCoherent
<1>25. Emit(<< Created(w, launch), Activated(w, before), FocusChanged(w), Committed(w, 1) >>)
  <2>1. << Created(w, launch) >> \o << Activated(w, before), FocusChanged(w) >> \o << Committed(w, 1) >>
          = << Created(w, launch), Activated(w, before), FocusChanged(w), Committed(w, 1) >>
    BY ListsJoin
  <2> QED
    BY <1>3, <1>7, <1>23, <2>1
<1>26. Commits(wm') = Put(Commits(wm), w, 1)
  BY <1>7, <1>10, <1>11, <1>12 DEF Commits, Put
<1>27. BridgeInv'
  BY <1>11, <1>20, <1>21, <1>22, <1>24 DEF BridgeInv, BridgeCoherent
<1>28. w \in Ids
  BY <1>3, <1>14, CompositorAssumption DEF Ids
<1> QED
  BY <1>3, <1>7, <1>10, <1>11, <1>12, <1>25, <1>26, <1>27, <1>28

\* What the end of a toplevel announces: its popups, itself, and the fallback.
IdsTold(w) ==
  [i \in 1 .. Cardinality(PopupsOf(w)) |-> popups[InIdOrder(PopupsOf(w))[i]].id]
EndOf(w, after) ==
  \E k \in Nat : \E id :
    /\ k = Cardinality(PopupsOf(w)) /\ id = IdsTold(w)
    /\ Emit([i \in 1 .. k |-> PopupEvent("popup_gone", w, id[i])] \o << Destroyed(w) >> \o after)

\* The front window is the one it was, if any window is left.
FrontStays == Tracked(wm') # {} => ActiveWindow(wm') = ActiveWindow(wm)

\* What it does to the windows and the popups; w is NoWindow if none was mapped.
ToplevelEnded(w) ==
  /\ w = NoWindow \/ w \in Tracked(wm)
  /\ Tracked(wm') = Tracked(wm) \ {w} /\ wm'.nextId = wm.nextId
  /\ Commits(wm') = Drop(Commits(wm), {w}) /\ SameCounts(wm, wm')
  /\ DOMAIN popups' = {p \in DOMAIN popups : popups[p].window # w}
  /\ \A p \in DOMAIN popups' : popups'[p] = popups[p]
  /\ w = NoWindow => Silent /\ FrontStays
  /\ w # NoWindow =>
       \/ EndOf(w, << >>) /\ FrontStays
       \/ \E v \in Tracked(wm') : /\ v = ActiveWindow(wm')
                                  /\ EndOf(w, << Activated(v, NoWindow), FocusChanged(v) >>)

LEMMA DestroyToplevelKeeps ==
  ASSUME BridgeInv, NEW s, DestroyToplevel(s), NEW w, w = slots[s].window
  PROVE  BridgeInv' /\ ToplevelEnded(w)
<1>1. PICK died, gone, order, n, telling :
        /\ died = (IF w = NoWindow THEN {} ELSE PopupsOf(w))
        /\ gone = (IF w = NoWindow THEN [model |-> wm, actions |-> << >>] ELSE OnDestroy(wm, w))
        /\ order = InIdOrder(died)
        /\ n = gone.model
        /\ telling = ActivationEvents(gone.actions, NoWindow)
  OBVIOUS
<1>2. /\ s \in DOMAIN slots
      /\ slots' = Drop(slots, {s}) /\ toplevels' = toplevels \ {s}
      /\ wm' = n
      /\ owners' = Drop(owners, {o \in DOMAIN owners : o = s \/ owners[o] = w})
      /\ popups' = Drop(popups, died) /\ handles' = handles \ died
      /\ roots' = Drop(roots, {w}) /\ appIds' = Drop(appIds, {w})
      /\ ApplyDecision(gone.actions)
      /\ UNCHANGED << nextKey, nextPopup, popupObjs >>
  BY <1>1 DEF DestroyToplevel, client
<1>3. Emit((IF w = NoWindow THEN << >>
            ELSE [i \in 1 .. Len(order) |-> PopupEvent("popup_gone", w, popups[order[i]].id)]
                 \o << Destroyed(w) >>) \o telling)
  BY <1>1 DEF DestroyToplevel
<1>4. /\ WindowsCoherent /\ OwnersCoherent /\ FocusCoherent /\ RegistryTyped
      /\ ModelTyped(wm) /\ NoWindow \notin Tracked(wm)
  BY ActiveIsTracked DEF BridgeInv, BridgeCoherent
<1>5. /\ w # NoWindow => w \in Tracked(wm) /\ roots[w] = s
      /\ w = NoWindow => s \notin DOMAIN owners /\ \A v \in Tracked(wm) : roots[v] # s
  BY <1>2, SlotsTellRoots
<1>6. died = PopupsOf(w)
  BY <1>1, <1>4 DEF PopupsOf, OwnersCoherent
<1>7. /\ ModelTyped(n) /\ n.nextId = wm.nextId /\ Tracked(n) = Tracked(wm) \ {w}
      /\ \A v \in Tracked(n) : SameBody(wm.records[v], n.records[v])
      /\ \/ gone.actions = << >> /\ (Tracked(n) # {} => ActiveWindow(n) = ActiveWindow(wm))
         \/ Tracked(n) # {} /\ gone.actions = << ActivatePrevious(ActiveWindow(n)) >>
  <2>1. CASE w = NoWindow
    <3>1. gone = [model |-> wm, actions |-> << >>]
      BY <1>1, <2>1
    <3>2. n = wm /\ gone.actions = << >>
      BY <1>1, <3>1
    <3> QED
      BY <1>4, <2>1, <3>2 DEF SameBody
  <2>2. CASE w # NoWindow
    <3>1. gone = OnDestroy(wm, w) /\ w \in Tracked(wm)
      BY <1>1, <1>5, <2>2
    <3> QED
      BY <1>1, <1>4, <3>1, PolicyDestroy
  <2> QED
    BY <2>1, <2>2
<1>8. \A v \in Tracked(n) : /\ n.records[v].key = wm.records[v].key
                            /\ n.records[v].app = wm.records[v].app
                            /\ n.records[v].lastCommitSeq = wm.records[v].lastCommitSeq
                            /\ n.records[v].popupCount = wm.records[v].popupCount
  BY <1>7 DEF SameBody
<1>9. /\ DOMAIN slots' = DOMAIN slots \ {s} /\ \A t \in DOMAIN slots' : slots'[t] = slots[t]
      /\ DOMAIN roots' = DOMAIN roots \ {w} /\ \A v \in DOMAIN roots' : roots'[v] = roots[v]
      /\ DOMAIN appIds' = DOMAIN appIds \ {w} /\ \A v \in DOMAIN appIds' : appIds'[v] = appIds[v]
  BY <1>2 DEF Drop
<1>10. /\ DOMAIN popups' = DOMAIN popups \ died /\ \A p \in DOMAIN popups' : popups'[p] = popups[p]
       /\ DOMAIN owners' = {o \in DOMAIN owners : o # s /\ owners[o] # w}
       /\ \A o \in DOMAIN owners' : owners'[o] = owners[o]
  BY <1>2 DEF Drop
<1>11. /\ Tracked(wm') = Tracked(n) /\ ActiveWindow(wm') = ActiveWindow(n)
       /\ \A v \in Tracked(n) : v \in Tracked(wm) /\ v # w /\ roots[v] # s /\ roots'[v] = roots[v]
  <2>1. \A v \in Tracked(wm) : slots[roots[v]] = [key |-> wm.records[v].key, window |-> v]
    BY <1>4 DEF WindowsCoherent
  <2>2. ASSUME NEW v \in Tracked(wm)
        PROVE  slots[roots[v]].window = v
    <3>1. slots[roots[v]] = [key |-> wm.records[v].key, window |-> v]
      BY <2>1
    <3> QED
      BY <3>1
  <2>3. DOMAIN roots = Tracked(wm)
    BY <1>4 DEF WindowsCoherent
  <2> QED
    BY <1>2, <1>7, <1>9, <2>2, <2>3
<1>12. RegistryTyped'
  <2>1. IsFiniteSet(DOMAIN popups')
    BY <1>4, <1>10, FS_Subset DEF RegistryTyped
  <2>2. /\ DOMAIN slots \subseteq Toplevels /\ nextKey \in Nat /\ DOMAIN popups \subseteq Popups
        /\ \A t \in DOMAIN slots : /\ slots[t] \in [key : Nat, window : Nat \cup {NoWindow}]
                                  /\ slots[t].key < nextKey
        /\ \A t, u \in DOMAIN slots : slots[t].key = slots[u].key => t = u
    BY <1>4 DEF RegistryTyped
  <2>3. \A t \in DOMAIN slots' : t \in DOMAIN slots /\ slots'[t] = slots[t]
    BY <1>9
  <2>4. \A t \in DOMAIN slots' : /\ slots'[t] \in [key : Nat, window : Nat \cup {NoWindow}]
                                /\ slots'[t].key < nextKey
    BY <2>2, <2>3
  <2>5. \A t, u \in DOMAIN slots' : slots'[t].key = slots'[u].key => t = u
    BY <2>2, <2>3
  <2> QED
    BY <1>2, <1>9, <1>10, <2>1, <2>2, <2>4, <2>5 DEF RegistryTyped
<1>13. WindowsCoherent'
  <2>1. DOMAIN roots' = Tracked(wm') /\ DOMAIN appIds' = Tracked(wm') /\ toplevels' = DOMAIN slots'
    BY <1>2, <1>4, <1>7, <1>9, <1>11 DEF WindowsCoherent
  <2>2. ASSUME NEW v \in Tracked(n)
        PROVE  /\ roots'[v] \in DOMAIN slots'
               /\ slots'[roots'[v]] = [key |-> wm'.records[v].key, window |-> v]
               /\ appIds'[v] = wm'.records[v].app
    <3>1. /\ roots[v] \in DOMAIN slots
          /\ slots[roots[v]] = [key |-> wm.records[v].key, window |-> v]
          /\ appIds[v] = wm.records[v].app
      BY <1>4, <1>11 DEF WindowsCoherent
    <3>2. roots'[v] = roots[v] /\ roots[v] \in DOMAIN slots' /\ v \in DOMAIN appIds'
      BY <1>9, <1>11, <2>1, <3>1
    <3> QED
      BY <1>2, <1>8, <1>9, <3>1, <3>2
  <2>3. ASSUME NEW t \in DOMAIN slots', slots'[t].window # NoWindow
        PROVE  slots'[t].window \in Tracked(n) /\ roots'[slots'[t].window] = t
    <3>1. PICK v : v = slots[t].window
      OBVIOUS
    <3>2. t \in DOMAIN slots /\ t # s /\ slots'[t] = slots[t] /\ v \in Tracked(wm) /\ roots[v] = t
      BY <1>4, <1>9, <2>3, <3>1 DEF WindowsCoherent
    <3>3. v # w
      BY <1>4, <1>5, <3>2
    <3> QED
      BY <1>7, <1>11, <3>1, <3>2, <3>3
  <2> QED
    BY <1>11, <2>1, <2>2, <2>3 DEF WindowsCoherent
<1>14. OwnersCoherent'
  <2>1. /\ DOMAIN owners = {roots[v] : v \in Tracked(wm)} \cup DOMAIN popups
        /\ \A v \in Tracked(wm) : owners[roots[v]] = v
        /\ \A q \in DOMAIN popups : popups[q].window \in Tracked(wm) /\ owners[q] = popups[q].window
    BY <1>4 DEF OwnersCoherent
  <2>2. s \notin DOMAIN popups
    BY <1>2, <1>4, CompositorAssumption DEF RegistryTyped
  <2>3. \A q \in DOMAIN popups' : popups[q].window # w /\ q # s /\ q \in DOMAIN popups
    BY <1>6, <1>10, <2>2 DEF PopupsOf
  <2>4. DOMAIN owners' = {roots'[v] : v \in Tracked(n)} \cup DOMAIN popups'
    <3>1. ASSUME NEW o \in DOMAIN owners'
          PROVE  o \in {roots'[v] : v \in Tracked(n)} \cup DOMAIN popups'
      <4>1. o \in DOMAIN owners /\ o # s /\ owners[o] # w
        BY <1>10, <3>1
      <4>2. CASE o \in DOMAIN popups
        BY <1>6, <1>10, <2>1, <4>1, <4>2 DEF PopupsOf
      <4>3. CASE o \notin DOMAIN popups
        <5>1. PICK v \in Tracked(wm) : o = roots[v]
          BY <2>1, <4>1, <4>3
        <5>2. v # w
          BY <2>1, <4>1, <5>1
        <5> QED
          BY <1>7, <1>11, <5>1, <5>2
      <4> QED
        BY <4>2, <4>3
    <3>2. \A v \in Tracked(n) : roots'[v] \in DOMAIN owners'
      BY <1>10, <1>11, <2>1
    <3>3. \A q \in DOMAIN popups' : q \in DOMAIN owners'
      BY <1>10, <2>1, <2>3
    <3> QED
      BY <3>1, <3>2, <3>3
  <2>5. \A v \in Tracked(n) : owners'[roots'[v]] = v
    BY <1>10, <1>11, <2>1, <2>4
  <2>6. \A q \in DOMAIN popups' : popups'[q].window \in Tracked(n) /\ owners'[q] = popups'[q].window
    BY <1>7, <1>10, <2>1, <2>3, <2>4
  <2>7. DOMAIN popups' = handles' /\ handles' \subseteq popupObjs'
    BY <1>2, <1>4, <1>10 DEF OwnersCoherent
  <2> QED
    BY <1>11, <2>4, <2>5, <2>6, <2>7 DEF OwnersCoherent
<1>15. /\ FocusCoherent'
       /\ \/ telling = << >> /\ FrontStays
          \/ \E v \in Tracked(n) : /\ v = ActiveWindow(n)
                                    /\ telling = << Activated(v, NoWindow), FocusChanged(v) >>
  <2>1. CASE gone.actions = << >> /\ (Tracked(n) # {} => ActiveWindow(n) = ActiveWindow(wm))
    <3>1. Activations(gone.actions) = {}
      BY <2>1, ActionsTold
    <3>2. UNCHANGED focus /\ telling = << >>
      BY <1>1, <1>2, <3>1, DecisionMovesFocus
    <3>3. Tracked(n) # {} => ActiveWindow(n) \in Tracked(n)
      BY <1>7, ActiveIsTracked
    <3> QED
      BY <1>4, <1>7, <1>11, <2>1, <3>2, <3>3 DEF FocusCoherent, FrontStays
  <2>2. CASE Tracked(n) # {} /\ gone.actions = << ActivatePrevious(ActiveWindow(n)) >>
    <3>1. PICK v : v = ActiveWindow(n)
      OBVIOUS
    <3>2. v \in Tracked(n)
      BY <1>7, <2>2, <3>1, ActiveIsTracked
    <3>3. Announces(gone.actions, NoWindow, v)
      <4>1. Announces(<< ActivatePrevious(v) >>, NoWindow, v)
        BY ActionsTold
      <4> QED
        BY <2>2, <3>1, <4>1
    <3>4. focus' = SurfaceOf(v, roots', toplevels')
      BY <1>2, <3>3, DecisionMovesFocus
    <3>5. v \in DOMAIN roots' /\ roots'[v] \in toplevels'
      BY <1>11, <1>13, <3>2 DEF WindowsCoherent
    <3> QED
      BY <1>1, <1>11, <3>1, <3>2, <3>3, <3>4, <3>5 DEF SurfaceOf, FocusCoherent, Announces
  <2> QED
    BY <1>7, <2>1, <2>2
<1>16. BridgeInv'
  <2>1. ModelTyped(wm')
    BY <1>2, <1>7
  <2> QED
    BY <1>12, <1>13, <1>14, <1>15, <2>1 DEF BridgeInv, BridgeCoherent
<1>17. Commits(wm') = Drop(Commits(wm), {w}) /\ SameCounts(wm, wm')
  BY <1>2, <1>7, <1>8 DEF Commits, Drop, SameCounts
<1>18. w = NoWindow => Silent /\ FrontStays
  <2>0. ASSUME w = NoWindow PROVE FrontStays
    <3>1. gone = [model |-> wm, actions |-> << >>]
      BY <1>1, <2>0
    <3> QED
      BY <1>1, <1>2, <3>1 DEF FrontStays
  <2>1. ASSUME w = NoWindow
        PROVE  telling = << >>
    <3>1. gone = [model |-> wm, actions |-> << >>]
      BY <1>1, <2>1
    <3>2. gone.actions = << >>
      BY <3>1
    <3> QED
      BY <1>1, <3>2, ActionsTold DEF ActivationEvents
  <2>2. << >> \o << >> = << >>
    OBVIOUS
  <2> QED
    BY <1>3, <2>0, <2>1, <2>2 DEF Silent
<1>19. ASSUME w # NoWindow PROVE EndOf(w, telling)
  <2>1. PICK k : k = Cardinality(died)
    OBVIOUS
  <2>2. IsFiniteSet(died) /\ k \in Nat
    BY <1>4, <1>6, <2>1, FS_Subset, FS_CardinalityType DEF RegistryTyped, PopupsOf
  <2>3. Len(order) = k
    BY <1>1, <2>1, <2>2 DEF InIdOrder
  <2>4. PICK id : id = [i \in 1 .. k |-> popups[order[i]].id] /\ id = IdsTold(w)
    BY <1>1, <1>6, <2>1 DEF IdsTold
  <2>5. [i \in 1 .. k |-> PopupEvent("popup_gone", w, popups[order[i]].id)]
          = [i \in 1 .. k |-> PopupEvent("popup_gone", w, id[i])]
    BY <2>4
  <2>6. Emit([i \in 1 .. k |-> PopupEvent("popup_gone", w, id[i])] \o << Destroyed(w) >> \o telling)
    BY <1>3, <1>19, <2>3, <2>5
  <2>7. k = Cardinality(PopupsOf(w))
    BY <1>6, <2>1
  <2> QED
    BY <2>2, <2>4, <2>6, <2>7 DEF EndOf
<1>20. DOMAIN popups' = {p \in DOMAIN popups : popups[p].window # w}
  BY <1>6, <1>10 DEF PopupsOf
<1> QED
  BY <1>2, <1>5, <1>7, <1>10, <1>15, <1>16, <1>17, <1>18, <1>19, <1>20 DEF ToplevelEnded

-----------------------------------------------------------------------------
(* The tables of the bridge describe the same windows.                     *)

LEMMA BridgeHoldsInitially == Init => BridgeInv
<1> SUFFICES ASSUME Init PROVE BridgeInv
  OBVIOUS
<1>1. /\ slots = NoEntries /\ owners = NoEntries /\ popups = NoEntries /\ roots = NoEntries
      /\ appIds = NoEntries /\ handles = {} /\ toplevels = {} /\ nextKey = 1
      /\ wm = EmptyModel(TiledRect)
  BY DEF Init
<1>2. DOMAIN NoEntries = {}
  BY DEF NoEntries
<1>3. /\ DOMAIN wm = {"records", "mru", "nextId", "rect"} /\ wm.records = NoEntries
      /\ wm.mru = << >> /\ wm.nextId = 1
  BY <1>1 DEF EmptyModel
<1>4. Tracked(wm) = {}
  BY <1>2, <1>3 DEF Tracked
<1>5. ModelTyped(wm)
  <2>1. << >> \in Seq({}) /\ NoDup(<< >>) /\ Elems(<< >>) = {}
    BY DEF NoDup, Elems
  <2> QED
    BY <1>3, <1>4, <2>1 DEF ModelTyped
<1>6. RegistryTyped
  BY <1>1, <1>2, FS_EmptySet DEF RegistryTyped
<1>7. BridgeCoherent
  BY <1>1, <1>2, <1>4 DEF BridgeCoherent, WindowsCoherent, OwnersCoherent, FocusCoherent
<1> QED
  BY <1>5, <1>6, <1>7 DEF BridgeInv

LEMMA BridgeIsKept ==
  ASSUME BridgeInv, [Next]_vars
  PROVE  BridgeInv'
<1>1. ASSUME NEW s \in Toplevels, NewToplevel(s) PROVE BridgeInv'
  BY <1>1, NewToplevelKeeps
<1>2. ASSUME NEW s \in Toplevels, FirstBuffer(s) PROVE BridgeInv'
  BY <1>2, FirstBufferKeeps
<1>3. ASSUME NEW s \in Toplevels, DestroyToplevel(s) PROVE BridgeInv'
  BY <1>3, DestroyToplevelKeeps
<1>4. ASSUME NEW s \in Toplevels, NEW title \in Titles, SetTitle(s, title) PROVE BridgeInv'
  BY <1>4, SetTitleKeeps
<1>5. ASSUME NEW s \in Toplevels, NEW app \in Apps, SetAppId(s, app) PROVE BridgeInv'
  BY <1>5, SetAppIdKeeps
<1>6. ASSUME NEW s \in Toplevels \cup Popups, SurfaceCommit(s) PROVE BridgeInv'
  BY <1>6, SurfaceCommitKeeps
<1>7. ASSUME NEW p \in Popups, NEW parent \in Toplevels \cup Popups, NewPopup(p, parent)
      PROVE  BridgeInv'
  BY <1>7, NewPopupKeeps
<1>8. ASSUME NEW p \in Popups, GrabPopup(p) PROVE BridgeInv'
  BY <1>8, OthersKeep DEF GrabPopup, launchVars, client
<1>9. ASSUME NEW p \in Popups, DestroyPopup(p) PROVE BridgeInv'
  BY <1>9, UntrackKeeps DEF DestroyPopup, launchVars
<1>10. ASSUME NEW p \in Popups, DismissPopup(p) PROVE BridgeInv'
  BY <1>10, UntrackKeeps DEF DismissPopup, launchVars, client
<1>11. ASSUME NEW w \in Ids, ActivateWindow(w) PROVE BridgeInv'
  BY <1>11, ActivateWindowKeeps
<1>12. ASSUME NoteLaunch \/ LaunchTimeout \/ ReserveSeq \/ UNCHANGED vars PROVE BridgeInv'
  BY <1>12, OthersKeep
     DEF NoteLaunch, LaunchTimeout, ReserveSeq, vars, launchVars, client
<1> QED
  BY <1>1, <1>2, <1>3, <1>4, <1>5, <1>6, <1>7, <1>8, <1>9, <1>10, <1>11, <1>12 DEF Next

(***************************************************************************)
(* For any number of surfaces, windows and popups: a window the policy     *)
(* knows has a root surface, and that surface a slot with the same key; no *)
(* table keeps an entry of a dead window or popup; the active window has   *)
(* the keyboard focus.                                                     *)
(***************************************************************************)
THEOREM BridgeStaysCoherent == Spec => []BridgeCoherent
<1>1. Init => BridgeInv
  BY BridgeHoldsInitially
<1>2. BridgeInv /\ [Next]_vars => BridgeInv'
  BY BridgeIsKept
<1>3. BridgeInv => BridgeCoherent
  BY DEF BridgeInv
<1> QED
  BY <1>1, <1>2, <1>3, PTL DEF Spec

-----------------------------------------------------------------------------
(* Popups are counted right.                                               *)

\* No window has more popups at a time than popup_count can count.
FewPopups == \A p \in DOMAIN popups : Cardinality(PopupsOf(popups[p].window)) <= PopupMax

LEMMA CountsStay ==
  ASSUME PopupCountsAgree, UNCHANGED popups, SameCounts(wm, wm')
  PROVE  PopupCountsAgree'
BY DEF PopupCountsAgree, SameCounts, PopupsOf

\* The popups of a window are finitely many, and none are those of an unknown window.
LEMMA PopupsOfWindow ==
  ASSUME BridgeInv, NEW w
  PROVE  /\ IsFiniteSet(PopupsOf(w)) /\ Cardinality(PopupsOf(w)) \in Nat
         /\ PopupsOf(w) \subseteq Popups
         /\ w \notin Tracked(wm) => PopupsOf(w) = {}
<1>1. IsFiniteSet(DOMAIN popups) /\ DOMAIN popups \subseteq Popups
  BY DEF BridgeInv, RegistryTyped
<1>2. PopupsOf(w) \subseteq DOMAIN popups
  BY DEF PopupsOf
<1>3. IsFiniteSet(PopupsOf(w))
  BY <1>1, <1>2, FS_Subset
<1>4. \A p \in DOMAIN popups : popups[p].window \in Tracked(wm)
  BY DEF BridgeInv, BridgeCoherent, OwnersCoherent
<1> QED
  BY <1>1, <1>2, <1>3, <1>4, FS_CardinalityType DEF PopupsOf

LEMMA PopupOpenedCounts ==
  ASSUME BridgeInv, FewPopups', PopupCountsAgree,
         NEW p \in Popups, NEW w \in Tracked(wm), PopupOpened(p, w)
  PROVE  PopupCountsAgree'
<1>1. PICK r, rec : r = wm.records[w] /\ rec = [r EXCEPT !.popupCount = @ + 1]
  OBVIOUS
<1>2. /\ p \notin DOMAIN popups /\ DOMAIN popups' = DOMAIN popups \cup {p}
      /\ popups'[p].window = w /\ \A q \in DOMAIN popups : popups'[q] = popups[q]
      /\ wm' = OnPopupAdded(wm, w) /\ ModelTyped(wm)
  BY DEF PopupOpened, BridgeInv
<1>3. PopupsOf(w)' = PopupsOf(w) \cup {p} /\ p \notin PopupsOf(w)
  BY <1>2 DEF PopupsOf
<1>4. \A v : v # w => PopupsOf(v)' = PopupsOf(v)
  BY <1>2 DEF PopupsOf
<1>5. Cardinality(PopupsOf(w)') = Cardinality(PopupsOf(w)) + 1
  <2>1. PICK S : S = PopupsOf(w)
    OBVIOUS
  <2>2. IsFiniteSet(S) /\ p \notin S
    BY <1>3, <2>1, PopupsOfWindow
  <2>3. Cardinality(S \cup {p}) = Cardinality(S) + 1
    BY <2>2, FS_AddElement
  <2> QED
    BY <1>3, <2>1, <2>3
<1>6. Cardinality(PopupsOf(w)') <= PopupMax
  BY <1>2 DEF FewPopups, PopupsOf
<1>7. r.popupCount = Cardinality(PopupsOf(w)) /\ r.popupCount < PopupMax
  BY <1>1, <1>5, <1>6, PopupsOfWindow, PolicyAssumption DEF PopupCountsAgree
<1>8. RecordTyped(r) /\ Rewrites(wm, wm', w, rec)
  BY <1>1, <1>2, <1>7, PolicyRecords
<1>9. rec.popupCount = r.popupCount + 1
  BY <1>1, <1>8 DEF RecordTyped, RecordFields
<1>10. /\ Tracked(wm') = Tracked(wm) /\ wm'.records[w] = rec
       /\ \A v \in Tracked(wm) \ {w} : wm'.records[v] = wm.records[v]
  BY <1>8 DEF Rewrites
<1>11. \A v \in Tracked(wm) : wm'.records[v].popupCount = Cardinality(PopupsOf(v)')
  BY <1>4, <1>5, <1>7, <1>9, <1>10 DEF PopupCountsAgree
<1> QED
  BY <1>10, <1>11 DEF PopupCountsAgree

LEMMA PopupClosedCounts ==
  ASSUME BridgeInv, PopupCountsAgree, NEW p, NEW w \in Tracked(wm), PopupClosed(p, w)
  PROVE  PopupCountsAgree'
<1>1. PICK r, rec : r = wm.records[w] /\ rec = [r EXCEPT !.popupCount = @ - 1]
  OBVIOUS
<1>2. /\ p \in DOMAIN popups /\ popups[p].window = w
      /\ DOMAIN popups' = DOMAIN popups \ {p}
      /\ \A q \in DOMAIN popups' : popups'[q] = popups[q]
      /\ wm' = OnPopupRemoved(wm, w) /\ ModelTyped(wm)
  BY DEF PopupClosed, BridgeInv
<1>3. PopupsOf(w)' = PopupsOf(w) \ {p} /\ p \in PopupsOf(w)
  BY <1>2 DEF PopupsOf
<1>4. \A v : v # w => PopupsOf(v)' = PopupsOf(v)
  BY <1>2 DEF PopupsOf
<1>5. Cardinality(PopupsOf(w)') = Cardinality(PopupsOf(w)) - 1
  BY <1>3, PopupsOfWindow, FS_RemoveElement
<1>6. Cardinality(PopupsOf(w)) > 0
  BY <1>3, PopupsOfWindow, FS_EmptySet
<1>7. r.popupCount = Cardinality(PopupsOf(w)) /\ r.popupCount > 0
  BY <1>1, <1>6 DEF PopupCountsAgree
<1>8. RecordTyped(r) /\ Rewrites(wm, wm', w, rec)
  BY <1>1, <1>2, <1>7, PolicyRecords
<1>9. rec.popupCount = r.popupCount - 1
  BY <1>1, <1>8 DEF RecordTyped, RecordFields
<1>10. /\ Tracked(wm') = Tracked(wm) /\ wm'.records[w] = rec
       /\ \A v \in Tracked(wm) \ {w} : wm'.records[v] = wm.records[v]
  BY <1>8 DEF Rewrites
<1>11. \A v \in Tracked(wm) : wm'.records[v].popupCount = Cardinality(PopupsOf(v)')
  BY <1>4, <1>5, <1>7, <1>9, <1>10 DEF PopupCountsAgree
<1> QED
  BY <1>10, <1>11 DEF PopupCountsAgree

LEMMA CountsAreKept ==
  ASSUME BridgeInv, FewPopups', PopupCountsAgree, [Next]_vars
  PROVE  PopupCountsAgree'
<1>1. ASSUME NEW s \in Toplevels, NewToplevel(s) PROVE PopupCountsAgree'
  BY <1>1 DEF NewToplevel, PopupCountsAgree, PopupsOf
<1>2. ASSUME NEW s \in Toplevels, FirstBuffer(s) PROVE PopupCountsAgree'
  <2>1. PICK w : w = wm.nextId
    OBVIOUS
  <2>2. /\ UNCHANGED popups /\ w \notin Tracked(wm) /\ Tracked(wm') = Tracked(wm) \cup {w}
        /\ wm'.records[w].popupCount = 0
        /\ \A v \in Tracked(wm) : wm'.records[v].popupCount = wm.records[v].popupCount
    BY <1>2, <2>1, FirstBufferKeeps
  <2>3. \A v : PopupsOf(v)' = PopupsOf(v)
    BY <2>2 DEF PopupsOf
  <2>4. Cardinality(PopupsOf(w)) = 0
    BY <2>2, PopupsOfWindow, FS_EmptySet
  <2> QED
    BY <2>2, <2>3, <2>4 DEF PopupCountsAgree
<1>3. ASSUME NEW s \in Toplevels, DestroyToplevel(s) PROVE PopupCountsAgree'
  <2>1. PICK w : w = slots[s].window
    OBVIOUS
  <2>2. ToplevelEnded(w)
    BY <1>3, <2>1, DestroyToplevelKeeps
  <2>3. \A v \in Tracked(wm') : PopupsOf(v)' = PopupsOf(v)
    BY <2>2 DEF ToplevelEnded, PopupsOf
  <2> QED
    BY <2>2, <2>3 DEF ToplevelEnded, PopupCountsAgree, SameCounts
<1>4. ASSUME NEW s \in Toplevels, NEW title \in Titles, SetTitle(s, title)
      PROVE  PopupCountsAgree'
  BY <1>4, SetTitleKeeps, CountsStay
<1>5. ASSUME NEW s \in Toplevels, NEW app \in Apps, SetAppId(s, app) PROVE PopupCountsAgree'
  BY <1>5, SetAppIdKeeps, CountsStay
<1>6. ASSUME NEW s \in Toplevels \cup Popups, SurfaceCommit(s) PROVE PopupCountsAgree'
  BY <1>6, SurfaceCommitKeeps, CountsStay
<1>7. ASSUME NEW p \in Popups, NEW parent \in Toplevels \cup Popups, NewPopup(p, parent)
      PROVE  PopupCountsAgree'
  <2>1. \/ UNCHANGED << wm, popups >>
        \/ \E w \in Tracked(wm) : PopupOpened(p, w)
    BY <1>7, NewPopupKeeps
  <2> QED
    BY <2>1, PopupOpenedCounts DEF PopupCountsAgree, PopupsOf
<1>8. ASSUME NEW p \in Popups, DestroyPopup(p) \/ DismissPopup(p) PROVE PopupCountsAgree'
  <2>1. \/ UNCHANGED << wm, popups >>
        \/ \E w \in Tracked(wm) : PopupClosed(p, w)
    BY <1>8, UntrackKeeps DEF DestroyPopup, DismissPopup, launchVars, client
  <2> QED
    BY <2>1, PopupClosedCounts DEF PopupCountsAgree, PopupsOf
<1>9. ASSUME NEW w \in Ids, ActivateWindow(w) PROVE PopupCountsAgree'
  BY <1>9, ActivateWindowKeeps, CountsStay
<1>10. ASSUME \/ \E p \in Popups : GrabPopup(p)
              \/ NoteLaunch \/ LaunchTimeout \/ ReserveSeq \/ UNCHANGED vars
       PROVE  PopupCountsAgree'
  BY <1>10 DEF GrabPopup, NoteLaunch, LaunchTimeout, ReserveSeq, vars, bridge,
               PopupCountsAgree, PopupsOf
<1> QED
  BY <1>1, <1>2, <1>3, <1>4, <1>5, <1>6, <1>7, <1>8, <1>9, <1>10 DEF Next

(***************************************************************************)
(* As long as no window has more popups than popup_count can count, where  *)
(* it would saturate, the policy's count of a window is the number of popup*)
(* records the registry keeps for it: no popup is forgotten by one crate   *)
(* and remembered by the other.                                            *)
(***************************************************************************)
THEOREM PopupsAreCountedRight == Spec /\ []FewPopups => []PopupCountsAgree
<1>1. Init => BridgeInv /\ PopupCountsAgree
  <2>1. Init => Tracked(wm) = {}
    BY DEF Init, EmptyModel, NoEntries, Tracked
  <2> QED
    BY <2>1, BridgeHoldsInitially DEF PopupCountsAgree
<1>2. BridgeInv /\ PopupCountsAgree /\ FewPopups' /\ [Next]_vars
      => (BridgeInv /\ PopupCountsAgree)'
  BY BridgeIsKept, CountsAreKept
<1> QED
  BY <1>1, <1>2, PTL DEF Spec

-----------------------------------------------------------------------------
(* A launch is attributed once.                                            *)

Entries ==
  [launch : 1 .. MaxLaunches, app : {LaunchApp[l] : l \in 1 .. MaxLaunches},
   pid : {LaunchPid[l] : l \in 1 .. MaxLaunches}, fresh : BOOLEAN]

\* The launches of a ledger are distinct, and all were given before number n.
LedgerTyped(l, n) ==
  /\ l \in Seq(Entries)
  /\ \A i \in 1 .. Len(l) : l[i].launch < n
  /\ \A i, j \in 1 .. Len(l) : l[i].launch = l[j].launch => i = j

(***************************************************************************)
(* LaunchAttributedOnce alone is not inductive: that a new launch is in no *)
(* window's hands needs that launch ids are never given twice.             *)
(***************************************************************************)
LaunchInv ==
  /\ nextLaunch \in Nat \ {0} /\ LedgerTyped(ledger, nextLaunch)
  /\ \A w \in DOMAIN launchIds : launchIds[w] \in Nat /\ launchIds[w] < nextLaunch
  /\ LaunchAttributedOnce

\* Nothing is in k that was not in l, at a position in S.
ComesFrom(k, l, S) == \A i \in 1 .. Len(k) : \E j \in S : k[i] = l[j]

LEMMA SublistOfLedger ==
  ASSUME NEW l, NEW n, LedgerTyped(l, n), NEW S, S \subseteq 1 .. Len(l),
         NEW k, k = Sublist(l, S)
  PROVE  LedgerTyped(k, n) /\ Len(k) <= Len(l) /\ ComesFrom(k, l, S)
<1>1. l \in Seq(Entries)
  BY DEF LedgerTyped
<1>2. k \in Seq(Entries) /\ Len(k) <= Len(l)
  BY <1>1, SublistProperties
<1>3. PICK at \in [1 .. Len(k) -> S] :
        /\ \A i \in 1 .. Len(k) : k[i] = l[at[i]]
        /\ \A i, j \in 1 .. Len(k) : at[i] = at[j] => i = j
  <2>1. Retains(k, l, S)
    BY <1>1, SublistProperties
  <2> QED
    BY <2>1 DEF Retains
<1>4. \A i \in 1 .. Len(k) : at[i] \in 1 .. Len(l)
  BY <1>3
<1>5. ASSUME NEW i \in 1 .. Len(k), NEW j \in 1 .. Len(k), k[i].launch = k[j].launch PROVE i = j
  <2>1. /\ at[i] \in 1 .. Len(l) /\ at[j] \in 1 .. Len(l)
        /\ l[at[i]].launch = l[at[j]].launch
    BY <1>3, <1>4, <1>5
  <2>2. at[i] = at[j]
    BY <2>1 DEF LedgerTyped
  <2> QED
    BY <1>3, <2>2
<1>6. \A i \in 1 .. Len(k) : k[i].launch < n
  BY <1>3, <1>4 DEF LedgerTyped
<1> QED
  BY <1>2, <1>3, <1>5, <1>6 DEF LedgerTyped, ComesFrom

\* correlate: a launch it returns is pending.
LEMMA CorrelateFindsPending ==
  ASSUME NEW l, NEW app, NEW pid, NEW title
  PROVE  \/ Correlate(l, app, pid, title) = None
         \/ \E i \in 1 .. Len(l) : l[i].launch = Correlate(l, app, pid, title)
<1> DEFINE pending == {l[i].launch : i \in 1 .. Len(l)}
           byPid   == IF pid = None THEN {} ELSE Latest(l, LAMBDA e : e.pid = pid)
           byApp   == IF app = None THEN {}
                      ELSE Latest(l, LAMBDA e : << e.app, app >> \in AppsMatch)
           byTitle == IF title = None THEN {}
                      ELSE Latest(l, LAMBDA e : << e.app, title >> \in TitlesMatch)
           found   == IF byPid # {} THEN byPid ELSE IF byApp # {} THEN byApp ELSE byTitle
<1>1. byPid \subseteq pending /\ byApp \subseteq pending /\ byTitle \subseteq pending
  BY DEF Latest
<1>2. found \subseteq pending
  BY <1>1
<1>3. Correlate(l, app, pid, title) = (IF found = {} THEN None ELSE CHOOSE x \in found : TRUE)
  BY DEF Correlate
<1>4. found # {} => Correlate(l, app, pid, title) \in pending
  BY <1>2, <1>3
<1> QED
  BY <1>3, <1>4

\* A launch found in the ledger moves from there to a window.
LEMMA LaunchMoves ==
  ASSUME LaunchInv, UNCHANGED nextLaunch, NEW w, NEW launch,
         \/ launch = None
         \/ \E i \in 1 .. Len(ledger) : ledger[i].launch = launch,
         ledger' = (IF launch = None THEN ledger ELSE Take(ledger, launch)),
         \/ launchIds' = (IF launch = None THEN launchIds ELSE Put(launchIds, w, launch))
  PROVE  LaunchInv'
<1>1. CASE launch = None
  BY <1>1 DEF LaunchInv, LaunchAttributedOnce
<1>2. CASE launch # None
  <2>0. PICK l, S : l = ledger /\ S = {i \in 1 .. Len(l) : l[i].launch # launch}
    OBVIOUS
  <2>1. /\ LedgerTyped(l, nextLaunch) /\ ledger' = Sublist(l, S) /\ S \subseteq 1 .. Len(l)
        /\ launchIds' = Put(launchIds, w, launch)
    BY <1>2, <2>0 DEF LaunchInv, Take
  <2>2. PICK i \in 1 .. Len(l) : l[i].launch = launch
    BY <1>2, <2>0
  <2>3. launch \in Nat /\ launch < nextLaunch
    <3>1. l[i] \in Entries /\ l[i].launch < nextLaunch
      BY <2>1, <2>2 DEF LedgerTyped
    <3> QED
      BY <2>2, <3>1, CompositorAssumption DEF Entries
  <2>4. PICK k : k = ledger'
    OBVIOUS
  <2>5. LedgerTyped(k, nextLaunch) /\ Len(k) <= Len(l)
    BY <2>1, <2>4, SublistOfLedger
  <2>6. \A j \in 1 .. Len(k) : \E m \in S : k[j] = l[m]
    <3>1. ComesFrom(k, l, S)
      BY <2>1, <2>4, SublistOfLedger
    <3> QED
      BY <3>1 DEF ComesFrom
  <2>7. /\ DOMAIN launchIds' = DOMAIN launchIds \cup {w} /\ launchIds'[w] = launch
        /\ \A v \in DOMAIN launchIds \ {w} : launchIds'[v] = launchIds[v]
    BY <2>1 DEF Put
  <2>8. /\ \A u, v \in DOMAIN launchIds : launchIds[u] = launchIds[v] => u = v
        /\ \A v \in DOMAIN launchIds, j \in 1 .. Len(l) : l[j].launch # launchIds[v]
        /\ \A v \in DOMAIN launchIds : launchIds[v] \in Nat /\ launchIds[v] < nextLaunch
        /\ Len(l) <= LedgerCap
    BY <2>0 DEF LaunchInv, LaunchAttributedOnce
  <2>9. \A u, v \in DOMAIN launchIds' : launchIds'[u] = launchIds'[v] => u = v
    BY <2>2, <2>7, <2>8
  <2>10. \A v \in DOMAIN launchIds', j \in 1 .. Len(k) : k[j].launch # launchIds'[v]
    <3>1. \A j \in 1 .. Len(k) : /\ k[j].launch # launch
                                 /\ \E m \in 1 .. Len(l) : k[j].launch = l[m].launch
      BY <2>0, <2>6
    <3> QED
      BY <2>7, <2>8, <3>1
  <2>11. Len(k) <= LedgerCap
    BY <2>1, <2>5, <2>8, LedgerAssumption DEF LedgerTyped
  <2>12. LaunchAttributedOnce'
    BY <2>4, <2>9, <2>10, <2>11 DEF LaunchAttributedOnce
  <2>13. \A v \in DOMAIN launchIds' : launchIds'[v] \in Nat /\ launchIds'[v] < nextLaunch
    BY <2>3, <2>7, <2>8
  <2> QED
    BY <2>4, <2>5, <2>12, <2>13 DEF LaunchInv
<1> QED
  BY <1>1, <1>2

LEMMA NoteLaunchKeeps ==
  ASSUME LaunchInv, NoteLaunch
  PROVE  LaunchInv'
<1>0. PICK l, S, n, new : /\ l = ledger /\ S = {i \in 1 .. Len(l) : l[i].fresh}
                          /\ n = nextLaunch /\ new = Pending(n, LaunchApp[n], LaunchPid[n])
  OBVIOUS
<1>1. PICK live : live = Sublist(l, S)
  OBVIOUS
<1>2. PICK room : room = IF Len(live) >= LedgerCap THEN Tail(live) ELSE live
  OBVIOUS
<1>3. /\ n <= MaxLaunches /\ nextLaunch' = n + 1 /\ UNCHANGED launchIds
      /\ ledger' = Append(room, new)
  BY <1>0, <1>1, <1>2 DEF NoteLaunch, Record, Expire
<1>4. /\ n \in Nat \ {0} /\ LedgerTyped(l, n) /\ S \subseteq 1 .. Len(l)
      /\ \A w \in DOMAIN launchIds : launchIds[w] \in Nat /\ launchIds[w] < n
      /\ \A v, w \in DOMAIN launchIds : launchIds[v] = launchIds[w] => v = w
      /\ \A w \in DOMAIN launchIds, i \in 1 .. Len(l) : l[i].launch # launchIds[w]
      /\ Len(l) <= LedgerCap
  BY <1>0 DEF LaunchInv, LaunchAttributedOnce
<1>5. LedgerTyped(live, n) /\ Len(live) <= Len(l)
  BY <1>1, <1>4, SublistOfLedger
<1>6. \A i \in 1 .. Len(live) : \E j \in S : live[i] = l[j]
  <2>1. ComesFrom(live, l, S)
    BY <1>1, <1>4, SublistOfLedger
  <2> QED
    BY <2>1 DEF ComesFrom
<1>7. live \in Seq(Entries) /\ Len(live) <= LedgerCap /\ Len(live) \in Nat
  BY <1>4, <1>5, LedgerAssumption DEF LedgerTyped
<1>8. /\ room \in Seq(Entries) /\ Len(room) \in Nat /\ Len(room) + 1 <= LedgerCap
      /\ \E d \in {0, 1} : /\ Len(room) + d = Len(live)
                           /\ \A i \in 1 .. Len(room) : room[i] = live[i + d]
  <2>1. CASE Len(live) >= LedgerCap
    <3>1. room = Tail(live) /\ live # << >>
      BY <1>2, <1>7, <2>1, LedgerAssumption
    <3> QED
      BY <1>7, <3>1
  <2>2. CASE ~ (Len(live) >= LedgerCap)
    <3>1. room = live
      BY <1>2, <2>2
    <3> QED
      BY <1>7, <2>2, <3>1, LedgerAssumption
  <2> QED
    BY <2>1, <2>2
<1>9. PICK d \in {0, 1} : /\ Len(room) + d = Len(live)
                          /\ \A i \in 1 .. Len(room) : room[i] = live[i + d]
  BY <1>8
<1>10. new \in Entries /\ new.launch = n
  BY <1>0, <1>3, <1>4, CompositorAssumption DEF Pending, Entries
<1>11. PICK k : k = Append(room, new)
  OBVIOUS
<1>12. /\ k \in Seq(Entries) /\ Len(k) = Len(room) + 1 /\ k[Len(room) + 1] = new
       /\ \A i \in 1 .. Len(room) : k[i] = room[i]
  BY <1>8, <1>10, <1>11
<1>13. \A i \in 1 .. Len(room) : i + d \in 1 .. Len(live)
  BY <1>7, <1>8, <1>9
<1>14. /\ \A i \in 1 .. Len(room) : room[i].launch < n
       /\ \A i, j \in 1 .. Len(room) : room[i].launch = room[j].launch => i = j
  <2>1. /\ \A i \in 1 .. Len(live) : live[i].launch < n
        /\ \A i, j \in 1 .. Len(live) : live[i].launch = live[j].launch => i = j
    BY <1>5 DEF LedgerTyped
  <2>2. ASSUME NEW i \in 1 .. Len(room)
        PROVE  room[i].launch < n
    <3>1. room[i] = live[i + d] /\ i + d \in 1 .. Len(live)
      BY <1>9, <1>13
    <3> QED
      BY <2>1, <3>1
  <2>3. ASSUME NEW i \in 1 .. Len(room), NEW j \in 1 .. Len(room), room[i].launch = room[j].launch
        PROVE  i = j
    <3>1. /\ room[i] = live[i + d] /\ i + d \in 1 .. Len(live)
          /\ room[j] = live[j + d] /\ j + d \in 1 .. Len(live)
      BY <1>9, <1>13
    <3>2. i + d = j + d
      BY <2>1, <2>3, <3>1
    <3> QED
      BY <3>2
  <2> QED
    BY <2>2, <2>3
<1>15. \A i \in 1 .. Len(room) : room[i].launch \in Nat
  <2>1. \A i \in 1 .. Len(room) : room[i] \in Entries
    BY <1>8
  <2>2. \A e \in Entries : e.launch \in Nat
    BY CompositorAssumption DEF Entries
  <2> QED
    BY <2>1, <2>2
<1>16. LedgerTyped(k, n + 1)
  <2>1. \A i \in 1 .. Len(k) : i = Len(room) + 1 \/ i \in 1 .. Len(room)
    BY <1>8, <1>12
  <2>2. \A i \in 1 .. Len(k) : k[i].launch < n + 1
    BY <1>4, <1>10, <1>12, <1>14, <1>15, <2>1
  <2>3. \A i, j \in 1 .. Len(k) : k[i].launch = k[j].launch => i = j
    BY <1>4, <1>10, <1>12, <1>14, <1>15, <2>1
  <2> QED
    BY <1>12, <2>2, <2>3 DEF LedgerTyped
<1>17. \A w \in DOMAIN launchIds, i \in 1 .. Len(k) : k[i].launch # launchIds[w]
  <2>1. \A i \in 1 .. Len(room) : \E j \in 1 .. Len(l) : room[i] = l[j]
    <3>1. \A i \in 1 .. Len(live) : \E j \in 1 .. Len(l) : live[i] = l[j]
      BY <1>4, <1>6
    <3> QED
      BY <1>9, <1>13, <3>1
  <2>2. \A i \in 1 .. Len(k) : i = Len(room) + 1 \/ i \in 1 .. Len(room)
    BY <1>8, <1>12
  <2> QED
    BY <1>4, <1>10, <1>12, <2>1, <2>2
<1>18. LaunchAttributedOnce'
  BY <1>3, <1>4, <1>8, <1>11, <1>12, <1>17 DEF LaunchAttributedOnce
<1>19. \A w \in DOMAIN launchIds : launchIds[w] \in Nat /\ launchIds[w] < n + 1
  BY <1>4
<1>20. n + 1 \in Nat \ {0}
  BY <1>4
<1> QED
  BY <1>3, <1>11, <1>16, <1>18, <1>19, <1>20 DEF LaunchInv

\* The passing of a timeout changes no launch.
LEMMA LaunchTimeoutKeeps ==
  ASSUME LaunchInv, LaunchTimeout
  PROVE  LaunchInv'
<1>1. PICK l, n : l = ledger /\ n = nextLaunch
  OBVIOUS
<1>2. PICK at : ledger' = [l EXCEPT ![at].fresh = FALSE]
  BY <1>1 DEF LaunchTimeout, Age
<1>3. PICK k : k = [l EXCEPT ![at].fresh = FALSE]
  OBVIOUS
<1>4. LedgerTyped(l, n) /\ l \in Seq(Entries)
  BY <1>1 DEF LaunchInv, LedgerTyped
<1>5. /\ k = [i \in 1 .. Len(l) |-> k[i]] /\ Len(l) \in Nat
      /\ \A i \in 1 .. Len(l) : k[i] = IF i = at THEN [l[i] EXCEPT !.fresh = FALSE] ELSE l[i]
  <2>1. DOMAIN l = 1 .. Len(l) /\ Len(l) \in Nat
    BY <1>4
  <2>2. /\ k = [i \in DOMAIN l |-> k[i]]
        /\ \A i \in DOMAIN l : k[i] = IF i = at THEN [l[i] EXCEPT !.fresh = FALSE] ELSE l[i]
    BY <1>3
  <2> QED
    BY <2>1, <2>2
<1>6. \A i \in 1 .. Len(l) : k[i] \in Entries /\ k[i].launch = l[i].launch
  <2>1. \A e \in Entries : /\ [e EXCEPT !.fresh = FALSE] \in Entries
                           /\ [e EXCEPT !.fresh = FALSE].launch = e.launch
    BY DEF Entries
  <2>2. \A i \in 1 .. Len(l) : l[i] \in Entries
    BY <1>4
  <2> QED
    BY <1>5, <2>1, <2>2
<1>7. k \in Seq(Entries) /\ Len(k) = Len(l)
  <2>1. k \in [1 .. Len(l) -> Entries]
    BY <1>5, <1>6
  <2> QED
    BY <1>5, <2>1
<1>8. LedgerTyped(k, n)
  BY <1>4, <1>5, <1>6, <1>7 DEF LedgerTyped
<1>9. /\ UNCHANGED << launchIds, nextLaunch >> /\ ledger' = k
  BY <1>2, <1>3 DEF LaunchTimeout
<1>10. LaunchAttributedOnce'
  BY <1>1, <1>6, <1>7, <1>9 DEF LaunchInv, LaunchAttributedOnce
<1> QED
  BY <1>1, <1>8, <1>9, <1>10 DEF LaunchInv

LEMMA LaunchesAreKept ==
  ASSUME LaunchInv, [Next]_vars
  PROVE  LaunchInv'
<1>1. ASSUME UNCHANGED launchVars PROVE LaunchInv'
  BY <1>1 DEF launchVars, LaunchInv, LaunchAttributedOnce
<1>2. ASSUME NEW s \in Toplevels, FirstBuffer(s) PROVE LaunchInv'
  <2>1. PICK launch : launch = Correlate(ledger, meta[s].app, PidOf[s], meta[s].title)
    OBVIOUS
  <2>2. PICK w : /\ launchIds' = IF launch = None THEN launchIds ELSE Put(launchIds, w, launch)
                 /\ ledger' = IF launch = None THEN ledger ELSE Take(ledger, launch)
                 /\ UNCHANGED nextLaunch
    BY <1>2, <2>1 DEF FirstBuffer
  <2>3. launch = None \/ \E i \in 1 .. Len(ledger) : ledger[i].launch = launch
    BY <2>1, CorrelateFindsPending
  <2> QED
    BY <2>2, <2>3, LaunchMoves
<1>3. ASSUME NEW s \in Toplevels, NEW app \in Apps, SetAppId(s, app) PROVE LaunchInv'
  <2>1. PICK w, pid : w = WindowForSurface(s) /\ pid = wm.records[w].pid
    OBVIOUS
  <2>2. PICK launch : launch = IF w \in DOMAIN launchIds THEN None
                               ELSE Correlate(ledger, app, pid, meta[s].title)
    OBVIOUS
  <2>3. \/ UNCHANGED << ledger, launchIds, nextLaunch >>
        \/ /\ launchIds' = IF launch = None THEN launchIds ELSE Put(launchIds, w, launch)
           /\ ledger' = IF launch = None THEN ledger ELSE Take(ledger, launch)
           /\ UNCHANGED nextLaunch
    BY <1>3, <2>1, <2>2 DEF SetAppId
  <2>4. launch = None \/ \E i \in 1 .. Len(ledger) : ledger[i].launch = launch
    BY <2>2, CorrelateFindsPending
  <2> QED
    BY <2>3, <2>4, LaunchMoves DEF LaunchInv, LaunchAttributedOnce
<1>4. ASSUME NEW s \in Toplevels, DestroyToplevel(s) PROVE LaunchInv'
  <2>1. PICK w : launchIds' = Drop(launchIds, {w}) /\ UNCHANGED << ledger, nextLaunch >>
    BY <1>4 DEF DestroyToplevel
  <2>2. /\ DOMAIN launchIds' \subseteq DOMAIN launchIds
        /\ \A v \in DOMAIN launchIds' : launchIds'[v] = launchIds[v]
    BY <2>1 DEF Drop
  <2>3. LaunchInv
    OBVIOUS
  <2>4. LaunchAttributedOnce'
    <3>1. LaunchAttributedOnce
      BY <2>3 DEF LaunchInv
    <3>2. \A u, v \in DOMAIN launchIds' : launchIds'[u] = launchIds'[v] => u = v
      BY <2>2, <3>1 DEF LaunchAttributedOnce
    <3>3. \A v \in DOMAIN launchIds', i \in 1 .. Len(ledger) : ledger[i].launch # launchIds'[v]
      BY <2>2, <3>1 DEF LaunchAttributedOnce
    <3> QED
      BY <2>1, <3>1, <3>2, <3>3 DEF LaunchAttributedOnce
  <2>5. \A v \in DOMAIN launchIds' : launchIds'[v] \in Nat /\ launchIds'[v] < nextLaunch
    BY <2>2, <2>3 DEF LaunchInv
  <2> QED
    BY <2>1, <2>3, <2>4, <2>5 DEF LaunchInv
<1>5. ASSUME NEW s \in Toplevels, NewToplevel(s) PROVE LaunchInv'
  BY <1>1, <1>5 DEF NewToplevel
<1>6. ASSUME NEW s \in Toplevels, NEW title \in Titles, SetTitle(s, title) PROVE LaunchInv'
  BY <1>1, <1>6 DEF SetTitle
<1>7. ASSUME NEW s, SurfaceCommit(s) PROVE LaunchInv'
  BY <1>1, <1>7 DEF SurfaceCommit
<1>8. ASSUME NEW p, NEW parent, NewPopup(p, parent) PROVE LaunchInv'
  BY <1>1, <1>8 DEF NewPopup
<1>9. ASSUME NEW p, GrabPopup(p) \/ DestroyPopup(p) \/ DismissPopup(p) PROVE LaunchInv'
  BY <1>1, <1>9 DEF GrabPopup, DestroyPopup, DismissPopup
<1>10. ASSUME NEW w, ActivateWindow(w) PROVE LaunchInv'
  BY <1>1, <1>10 DEF ActivateWindow
<1>11. ASSUME ReserveSeq \/ UNCHANGED vars PROVE LaunchInv'
  BY <1>1, <1>11 DEF ReserveSeq, vars
<1> QED
  BY <1>2, <1>3, <1>4, <1>5, <1>6, <1>7, <1>8, <1>9, <1>10, <1>11,
     NoteLaunchKeeps, LaunchTimeoutKeeps DEF Next

(***************************************************************************)
(* For any number of launches and windows, and whatever process id,        *)
(* application id or title matches: no launch is attributed to two windows,*)
(* none that was attributed is still pending, and the list stays within    *)
(* MAX_PENDING_LAUNCHES.                                                   *)
(***************************************************************************)
THEOREM LaunchesAreAttributedOnce == Spec => []LaunchAttributedOnce
<1>1. Init => LaunchInv
  <2> SUFFICES ASSUME Init PROVE LaunchInv
    OBVIOUS
  <2>1. ledger = << >> /\ launchIds = NoEntries /\ nextLaunch = 1
    BY DEF Init
  <2>2. DOMAIN NoEntries = {}
    BY DEF NoEntries
  <2>3. << >> \in Seq(Entries) /\ Len(<< >>) = 0
    OBVIOUS
  <2>4. LedgerTyped(<< >>, 1)
    BY <2>3 DEF LedgerTyped
  <2> QED
    BY <2>1, <2>2, <2>3, <2>4, LedgerAssumption DEF LaunchInv, LaunchAttributedOnce
<1>2. LaunchInv /\ [Next]_vars => LaunchInv'
  BY LaunchesAreKept
<1>3. LaunchInv => LaunchAttributedOnce
  BY DEF LaunchInv
<1> QED
  BY <1>1, <1>2, <1>3, PTL DEF Spec

-----------------------------------------------------------------------------
(* The event stream is the one its consumers rely on.                      *)

LEMMA AbstractEvents ==
  ASSUME NEW w, NEW x
  PROVE  /\ Abstract(Created(w, x)) = Source!SrcEvent("created", w, 0)
         /\ Abstract(Destroyed(w)) = Source!SrcEvent("destroyed", w, 0)
         /\ Abstract(Committed(w, x)) = Source!SrcEvent("commit", w, x)
         /\ Abstract(Activated(w, x)) = Source!Notice(w)
         /\ Abstract(FocusChanged(w)) = Source!Notice(w)
         /\ Abstract(TitleChanged(w, x)) = Source!Notice(w)
         /\ Abstract(PopupEvent("popup", w, x)) = Source!Notice(w)
         /\ Abstract(PopupEvent("popup_gone", w, x)) = Source!Notice(w)
BY DEF Abstract, Created, Destroyed, Committed, Activated, FocusChanged, TitleChanged,
       PopupEvent, Event, Source!SrcEvent, Source!Notice

\* What a handler emits is what the source publishes, event by event.
LEMMA EmitPublishes ==
  ASSUME NEW events, NEW abstracts, NEW k \in Nat, Len(events) = k, Len(abstracts) = k,
         \A i \in 1 .. k : abstracts[i] = Abstract(events[i]),
         Emit(events)
  PROVE  Source!Publish(abstracts)
<1>1. /\ lastSeq + k <= MaxSeq /\ lastSeq' = lastSeq + k
      /\ published' = [i \in 1 .. k |-> [seq |-> lastSeq + i, event |-> events[i]]]
  BY DEF Emit
<1>2. /\ Len(published') = k
      /\ \A i \in 1 .. k : published'[i] = [seq |-> lastSeq + i, event |-> events[i]]
  BY <1>1
<1>3. \A i \in 1 .. k : /\ published'[i].seq = lastSeq + i
                        /\ Abstract(published'[i].event) = abstracts[i]
  BY <1>2
<1>4. [i \in 1 .. Len(published') |->
         [seq |-> published'[i].seq, event |-> Abstract(published'[i].event)]]
      = [i \in 1 .. k |-> [seq |-> lastSeq + i, event |-> abstracts[i]]]
  BY <1>2, <1>3
<1> QED
  BY <1>1, <1>4 DEF Source!Publish, Abstract

(***************************************************************************)
(* What the refinement needs beside the coherence of the bridge: that the  *)
(* numbers given out so far are within their bounds.                       *)
(***************************************************************************)
NumbersTyped == lastSeq \in Nat /\ wm.nextId \in 1 .. MaxWindows + 1

SourceInv == BridgeInv /\ NumbersTyped

LEMMA TrackedIsNumbered ==
  ASSUME SourceInv
  PROVE  Tracked(wm) \subseteq Ids
BY CompositorAssumption DEF SourceInv, NumbersTyped, BridgeInv, ModelTyped, Ids

LEMMA QuietStep ==
  ASSUME lastSeq \in Nat, Silent, Still(wm, wm')
  PROVE  Source!SrcNext
<1>1. lastSeq' = lastSeq /\ published' = << >>
  BY DEF Silent, Emit
<1>2. wm'.nextId = wm.nextId /\ Commits(wm') = Commits(wm)
  BY DEF Still
<1> QED
  BY <1>1, <1>2 DEF Source!SrcNext, Source!Quiet, Commits

LEMMA TellStep ==
  ASSUME SourceInv, Still(wm, wm'), NEW w \in Tracked(wm), NEW d, NEW e,
         Abstract(d) = Source!Notice(w), Abstract(e) = Source!Notice(w),
         Emit(<< d >>) \/ Emit(<< d, e >>)
  PROVE  Source!SrcNext
<1>1. w \in Ids
  BY TrackedIsNumbered
<1>2. wm'.nextId = wm.nextId /\ Commits(wm') = Commits(wm) /\ w \in DOMAIN Commits(wm)
  BY DEF Still, Commits
<1>3. CASE Emit(<< d >>)
  <2>1. /\ Len(<< d >>) = 1 /\ Len(<< Source!Notice(w) >>) = 1
        /\ \A i \in 1 .. 1 : << Source!Notice(w) >>[i] = Abstract(<< d >>[i])
    OBVIOUS
  <2>2. Source!Publish(<< Source!Notice(w) >>)
    BY <1>3, <2>1, EmitPublishes
  <2> QED
    BY <1>1, <1>2, <2>2 DEF Source!SrcNext, Source!Tell, Commits
<1>4. CASE Emit(<< d, e >>)
  <2>1. /\ Len(<< d, e >>) = 2 /\ Len(<< Source!Notice(w), Source!Notice(w) >>) = 2
        /\ \A i \in 1 .. 2 : << Source!Notice(w), Source!Notice(w) >>[i] = Abstract(<< d, e >>[i])
    OBVIOUS
  <2>2. Source!Publish(<< Source!Notice(w), Source!Notice(w) >>)
    BY <1>4, <2>1, EmitPublishes
  <2> QED
    BY <1>1, <1>2, <2>2 DEF Source!SrcNext, Source!Tell, Commits
<1> QED
  BY <1>3, <1>4

LEMMA CommitStep ==
  ASSUME SourceInv, NEW s, SurfaceCommit(s)
  PROVE  Source!SrcNext
<1>1. PICK w, n : w = owners[s] /\ n = Commits(wm)[w] + 1
  OBVIOUS
<1>2. /\ w \in Tracked(wm) /\ wm'.nextId = wm.nextId
      /\ Commits(wm') = [Commits(wm) EXCEPT ![w] = @ + 1]
      /\ Emit(<< Committed(w, n) >>)
  BY <1>1, SurfaceCommitKeeps DEF SourceInv
<1>3. w \in Ids /\ w \in DOMAIN Commits(wm)
  BY <1>2, TrackedIsNumbered DEF Commits
<1>4. Source!Publish(<< Source!SrcEvent("commit", w, n) >>)
  <2>1. /\ Len(<< Committed(w, n) >>) = 1 /\ Len(<< Source!SrcEvent("commit", w, n) >>) = 1
        /\ \A i \in 1 .. 1 : << Source!SrcEvent("commit", w, n) >>[i]
                                = Abstract(<< Committed(w, n) >>[i])
    BY AbstractEvents
  <2> QED
    BY <1>2, <2>1, EmitPublishes
<1>5. Source!Commit(w)
  <2>1. Source!Publish(<< Source!SrcEvent("commit", w, Commits(wm)[w] + 1) >>)
    BY <1>1, <1>4 DEF Source!Publish
  <2> QED
    BY <1>2, <1>3, <2>1 DEF Source!Commit, Commits
<1> QED
  BY <1>3, <1>5 DEF Source!SrcNext

LEMMA OpenStep ==
  ASSUME SourceInv, NEW s, FirstBuffer(s)
  PROVE  Source!SrcNext
<1>1. PICK w : w = wm.nextId
  OBVIOUS
<1>2. /\ w \in Ids /\ wm'.nextId = w + 1 /\ Commits(wm') = Put(Commits(wm), w, 1)
      /\ \E launch, before :
           Emit(<< Created(w, launch), Activated(w, before), FocusChanged(w), Committed(w, 1) >>)
  BY <1>1, FirstBufferKeeps DEF SourceInv
<1>3. PICK launch, before :
        Emit(<< Created(w, launch), Activated(w, before), FocusChanged(w), Committed(w, 1) >>)
  BY <1>2
<1>4. PICK events, abstracts :
        /\ events = << Created(w, launch), Activated(w, before), FocusChanged(w), Committed(w, 1) >>
        /\ abstracts = << Source!SrcEvent("created", w, 0), Source!Notice(w),
                          Source!Notice(w), Source!SrcEvent("commit", w, 1) >>
  OBVIOUS
<1>5. /\ Len(events) = 4 /\ Len(abstracts) = 4
      /\ \A i \in 1 .. 4 : abstracts[i] = Abstract(events[i])
  <2>1. /\ Abstract(Created(w, launch)) = Source!SrcEvent("created", w, 0)
        /\ Abstract(Activated(w, before)) = Source!Notice(w)
        /\ Abstract(FocusChanged(w)) = Source!Notice(w)
        /\ Abstract(Committed(w, 1)) = Source!SrcEvent("commit", w, 1)
    BY AbstractEvents
  <2>2. \A i \in 1 .. 4 : i = 1 \/ i = 2 \/ i = 3 \/ i = 4
    OBVIOUS
  <2> QED
    BY <1>4, <2>1, <2>2
<1>6. Source!Publish(abstracts)
  BY <1>3, <1>4, <1>5, EmitPublishes
<1>7. Source!Open
  <2>1. Source!Publish(<< Source!SrcEvent("created", wm.nextId, 0), Source!Notice(wm.nextId),
                          Source!Notice(wm.nextId), Source!SrcEvent("commit", wm.nextId, 1) >>)
    BY <1>1, <1>4, <1>6 DEF Source!Publish
  <2>2. Commits(wm') = Source!Put(Commits(wm), wm.nextId, 1)
    BY <1>1, <1>2 DEF Put, Source!Put
  <2>3. wm.nextId \in Ids /\ wm'.nextId = wm.nextId + 1
    BY <1>1, <1>2
  <2> QED
    BY <2>1, <2>2, <2>3 DEF Source!Open, Commits
<1> QED
  BY <1>7 DEF Source!SrcNext

\* c is l followed by m.
Joins(l, m, c) ==
  /\ Len(c) = Len(l) + Len(m)
  /\ \A i \in 1 .. Len(l) : c[i] = l[i]
  /\ \A i \in 1 .. Len(m) : c[Len(l) + i] = m[i]

LEMMA ListsJoined ==
  ASSUME NEW S, NEW l \in Seq(S), NEW m \in Seq(S)
  PROVE  l \o m \in Seq(S) /\ Joins(l, m, l \o m)
<1>1. PICK n \in Nat : n = Len(l)
  OBVIOUS
<1>2. l \o m \in Seq(S) /\ Len(l \o m) = n + Len(m) /\ Len(m) \in Nat
  BY <1>1, ConcatProperties
<1>3. \A i \in 1 .. n + Len(m) : (l \o m)[i] = IF i <= n THEN l[i] ELSE m[i - n]
  BY <1>1, ConcatProperties
<1>4. ASSUME NEW i \in 1 .. Len(m) PROVE (l \o m)[n + i] = m[i]
  <2>1. n + i \in 1 .. n + Len(m) /\ ~(n + i <= n) /\ (n + i) - n = i
    BY <1>2
  <2> QED
    BY <1>3, <2>1
<1>5. ASSUME NEW i \in 1 .. n PROVE (l \o m)[i] = l[i]
  <2>1. i \in 1 .. n + Len(m) /\ i <= n
    BY <1>2
  <2> QED
    BY <1>3, <2>1
<1> QED
  BY <1>1, <1>2, <1>4, <1>5 DEF Joins

\* The elements of a list written as popups, the window, and what follows.
LEMMA ListEnds ==
  ASSUME NEW k \in Nat, NEW g, g = [i \in 1 .. k |-> g[i]], NEW d,
         NEW T, NEW after \in Seq(T), NEW list, list = g \o << d >> \o after
  PROVE  /\ Len(list) = k + 1 + Len(after)
         /\ \A i \in 1 .. k : list[i] = g[i]
         /\ list[k + 1] = d
         /\ \A i \in 1 .. Len(after) : list[k + 1 + i] = after[i]
<1> DEFINE S == {g[i] : i \in 1 .. k} \cup {d} \cup T
<1>0. g \in [1 .. k -> S]
  OBVIOUS
<1> HIDE DEF S
<1>1. g \in Seq(S) /\ Len(g) = k
  BY <1>0
<1>2. PICK e : e = << d >>
  OBVIOUS
<1>3. e \in Seq(S) /\ Len(e) = 1 /\ e[1] = d
  BY <1>2 DEF S
<1>4. after \in Seq(S) /\ Len(after) \in Nat
  <2>1. after \in [1 .. Len(after) -> T] /\ Len(after) \in Nat /\ T \subseteq S
    BY DEF S
  <2>2. after \in [1 .. Len(after) -> S]
    BY <2>1
  <2> QED
    BY <2>1, <2>2
<1>5. PICK last : last = g \o e
  OBVIOUS
<1>6. last \in Seq(S) /\ Joins(g, e, last)
  BY <1>1, <1>3, <1>5, ListsJoined, Zenon
<1>7. list = last \o after
  BY <1>2, <1>5, Zenon
<1>8. Joins(last, after, list)
  BY <1>4, <1>6, <1>7, ListsJoined, Zenon
<1>9. Len(last) = k + 1 /\ last[k + 1] = d
  BY <1>1, <1>3, <1>6 DEF Joins
<1>10. \A i \in 1 .. k : last[i] = g[i] /\ i \in 1 .. k + 1
  BY <1>1, <1>6 DEF Joins
<1>11. Len(list) = (k + 1) + Len(after)
  BY <1>8, <1>9, Zenon DEF Joins
<1>12. \A i \in 1 .. k + 1 : list[i] = last[i]
  BY <1>8, <1>9, Zenon DEF Joins
<1>13. \A i \in 1 .. Len(after) : list[(k + 1) + i] = after[i]
  BY <1>8, <1>9, Zenon DEF Joins
<1>14. k + 1 \in 1 .. k + 1
  OBVIOUS
<1> QED
  BY <1>9, <1>10, <1>11, <1>12, <1>13, <1>14, Zenon

LEMMA CloseStep ==
  ASSUME SourceInv, NEW s, DestroyToplevel(s)
  PROVE  Source!SrcNext
<1>1. PICK w : w = slots[s].window
  OBVIOUS
<1>2. ToplevelEnded(w)
  BY <1>1, DestroyToplevelKeeps DEF SourceInv
<1>3. lastSeq \in Nat /\ MaxSeq \in Nat
  BY CompositorAssumption DEF SourceInv, NumbersTyped
<1>4. CASE w = NoWindow
  <2>1. Silent /\ wm'.nextId = wm.nextId /\ Commits(wm') = Drop(Commits(wm), {w})
    BY <1>2, <1>4 DEF ToplevelEnded
  <2>2. w \notin DOMAIN Commits(wm)
    BY <1>4, ActiveIsTracked DEF Commits, SourceInv, BridgeInv
  <2>3. Drop(Commits(wm), {w}) = Commits(wm)
    BY <2>2 DEF Drop, Commits
  <2> QED
    BY <1>3, <2>1, <2>3, QuietStep DEF Still
<1>5. CASE w # NoWindow
  <2>1. /\ w \in Tracked(wm) /\ wm'.nextId = wm.nextId
        /\ Commits(wm') = Drop(Commits(wm), {w}) /\ Tracked(wm') = Tracked(wm) \ {w}
    BY <1>2, <1>5 DEF ToplevelEnded
  <2>2. w \in Ids /\ w \in DOMAIN Commits(wm)
    BY <2>1, TrackedIsNumbered DEF Commits
  <2>3. Commits(wm') = Source!Drop(Commits(wm), {w})
    BY <2>1 DEF Drop, Source!Drop
  <2> DEFINE last(k) == [i \in 1 .. k |-> Source!Notice(w)] \o << Source!SrcEvent("destroyed", w, 0) >>
  <2>4. ASSUME NEW T, NEW after \in Seq(T), NEW U, NEW told \in Seq(U),
               Len(told) = Len(after), \A i \in 1 .. Len(after) : told[i] = Abstract(after[i]),
               EndOf(w, after)
        PROVE  \E k \in 0 .. MaxSeq : Source!Publish(last(k) \o told)
    <3>1. PICK k \in Nat :
            \E id : Emit([i \in 1 .. k |-> PopupEvent("popup_gone", w, id[i])]
                         \o << Destroyed(w) >> \o after)
      BY <2>4 DEF EndOf
    <3>2. PICK id : Emit([i \in 1 .. k |-> PopupEvent("popup_gone", w, id[i])]
                         \o << Destroyed(w) >> \o after)
      BY <3>1
    <3>3. PICK g, h : /\ g = [i \in 1 .. k |-> PopupEvent("popup_gone", w, id[i])]
                      /\ h = [i \in 1 .. k |-> Source!Notice(w)]
      OBVIOUS
    <3>4. PICK end, events, abstracts :
            /\ end = Source!SrcEvent("destroyed", w, 0)
            /\ events = g \o << Destroyed(w) >> \o after
            /\ abstracts = h \o << end >> \o told
      OBVIOUS
    <3>5. /\ g = [i \in 1 .. k |-> g[i]] /\ h = [i \in 1 .. k |-> h[i]]
          /\ \A i \in 1 .. k : h[i] = Abstract(g[i])
      BY <3>3, AbstractEvents
    <3>6. /\ Len(events) = k + 1 + Len(after)
          /\ \A i \in 1 .. k : events[i] = g[i]
          /\ events[k + 1] = Destroyed(w)
          /\ \A i \in 1 .. Len(after) : events[k + 1 + i] = after[i]
      BY <2>4, <3>4, <3>5, ListEnds
    <3>7. /\ Len(abstracts) = k + 1 + Len(told)
          /\ \A i \in 1 .. k : abstracts[i] = h[i]
          /\ abstracts[k + 1] = end
          /\ \A i \in 1 .. Len(told) : abstracts[k + 1 + i] = told[i]
      <4>1. told \in Seq(U) /\ h = [i \in 1 .. k |-> h[i]] /\ abstracts = h \o << end >> \o told
        BY <2>4, <3>4, <3>5
      <4> QED
        BY <4>1, ListEnds
    <3>8. PICK m \in Nat : m = Len(after)
      BY <2>4
    <3>9. ASSUME NEW i \in 1 .. k + 1 + m
          PROVE  abstracts[i] = Abstract(events[i])
      <4>1. CASE i \in 1 .. k
        BY <3>5, <3>6, <3>7, <4>1
      <4>2. CASE i = k + 1
        BY <3>4, <3>6, <3>7, <4>2, AbstractEvents
      <4>3. CASE i > k + 1
        <5>1. PICK j : j = i - (k + 1)
          OBVIOUS
        <5>2. j \in 1 .. m /\ i = k + 1 + j
          BY <3>8, <4>3, <5>1
        <5> QED
          BY <2>4, <3>6, <3>7, <3>8, <5>2
      <4> QED
        BY <4>1, <4>2, <4>3
    <3>10. Emit(events)
      BY <3>2, <3>3, <3>4
    <3>11. Source!Publish(abstracts)
      <4>1. /\ Len(events) = k + 1 + m /\ Len(abstracts) = k + 1 + m /\ k + 1 + m \in Nat
        BY <2>4, <3>6, <3>7, <3>8
      <4> QED
        BY <3>9, <3>10, <4>1, EmitPublishes
    <3>12. k \in 0 .. MaxSeq
      <4>1. lastSeq + (k + 1 + m) <= MaxSeq
        BY <3>6, <3>8, <3>10 DEF Emit
      <4> QED
        BY <1>3, <3>8, <4>1
    <3> QED
      BY <3>3, <3>4, <3>11, <3>12
  <2>5. CASE EndOf(w, << >>)
    <3>1. PICK k \in 0 .. MaxSeq : Source!Publish(last(k) \o << >>)
      <4>1. /\ << >> \in Seq({}) /\ Len(<< >>) = 0
            /\ \A i \in 1 .. 0 : << >>[i] = Abstract(<< >>[i])
        OBVIOUS
      <4> QED
        BY <2>4, <2>5, <4>1
    <3>2. last(k) \o << >> = last(k)
      <4>1. PICK S : S = {Source!Notice(w), Source!SrcEvent("destroyed", w, 0)}
        OBVIOUS
      <4>2. [i \in 1 .. k |-> Source!Notice(w)] \in Seq(S)
        <5>1. [i \in 1 .. k |-> Source!Notice(w)] \in [1 .. k -> S] /\ k \in Nat
          BY <4>1
        <5> QED
          BY <5>1
      <4>3. << Source!SrcEvent("destroyed", w, 0) >> \in Seq(S)
        BY <4>1
      <4>4. last(k) \in Seq(S)
        BY <4>2, <4>3
      <4> QED
        BY <4>4, ConcatEmptySeq
    <3>3. Source!Publish(last(k))
      BY <3>1, <3>2
    <3>4. Source!Close(w)
      BY <2>1, <2>2, <2>3, <3>3 DEF Source!Close, Commits
    <3> QED
      BY <2>2, <3>4 DEF Source!SrcNext
  <2>6. CASE \E v \in Tracked(wm') : EndOf(w, << Activated(v, NoWindow), FocusChanged(v) >>)
    <3>1. PICK v \in Tracked(wm') : EndOf(w, << Activated(v, NoWindow), FocusChanged(v) >>)
      BY <2>6
    <3>2. PICK before : before = NoWindow /\ EndOf(w, << Activated(v, before), FocusChanged(v) >>)
      BY <3>1
    <3>3. PICK after, told : /\ after = << Activated(v, before), FocusChanged(v) >>
                             /\ told = << Source!Notice(v), Source!Notice(v) >>
      OBVIOUS
    <3>4. /\ after \in Seq({Activated(v, before), FocusChanged(v)}) /\ told \in Seq({Source!Notice(v)})
          /\ Len(after) = 2 /\ Len(told) = 2
      BY <3>3
    <3>5. \A i \in 1 .. 2 : told[i] = Abstract(after[i])
      <4>1. /\ Abstract(Activated(v, before)) = Source!Notice(v)
            /\ Abstract(FocusChanged(v)) = Source!Notice(v)
        BY AbstractEvents
      <4> QED
        BY <3>3, <4>1
    <3>6. PICK k \in 0 .. MaxSeq : Source!Publish(last(k) \o told)
      BY <2>4, <3>2, <3>3, <3>4, <3>5
    <3>7. v \in DOMAIN Commits(wm) \ {w}
      BY <2>1, <3>1 DEF Commits
    <3>8. Source!Close(w)
      <4>1. Source!Publish(last(k) \o << Source!Notice(v), Source!Notice(v) >>)
        BY <3>3, <3>6
      <4> QED
        BY <2>1, <2>2, <2>3, <3>7, <4>1 DEF Source!Close, Commits
    <3> QED
      BY <2>2, <3>8 DEF Source!SrcNext
  <2> QED
    BY <1>2, <1>5, <2>5, <2>6 DEF ToplevelEnded
<1> QED
  BY <1>4, <1>5

\* Every handler is a step of the source, or none that concerns it.
LEMMA SourceStep ==
  ASSUME SourceInv, [Next]_vars
  PROVE  [Source!SrcNext]_(Source!svars)
<1>0. BridgeInv /\ lastSeq \in Nat
  BY DEF SourceInv, NumbersTyped
<1>1. ASSUME Silent, UNCHANGED wm PROVE Source!SrcNext
  <2>1. Still(wm, wm')
    BY <1>1 DEF Still
  <2> QED
    BY <1>0, <1>1, <2>1, QuietStep
<1>2. ASSUME NEW s \in Toplevels, NewToplevel(s) PROVE Source!SrcNext
  BY <1>1, <1>2 DEF NewToplevel
<1>3. ASSUME NEW s \in Toplevels, NEW title \in Titles, SetTitle(s, title)
      PROVE  Source!SrcNext
  <2>1. /\ Still(wm, wm')
        /\ \/ Silent
           \/ \E w \in Tracked(wm) : Emit(<< TitleChanged(w, title) >>)
    BY <1>0, <1>3, SetTitleKeeps
  <2>2. ASSUME NEW w \in Tracked(wm), Emit(<< TitleChanged(w, title) >>)
        PROVE  Source!SrcNext
    BY <2>1, <2>2, TellStep, AbstractEvents
  <2> QED
    BY <1>0, <2>1, <2>2, QuietStep
<1>4. ASSUME NEW s \in Toplevels, NEW app \in Apps, SetAppId(s, app) PROVE Source!SrcNext
  BY <1>0, <1>4, SetAppIdKeeps, QuietStep
<1>5. ASSUME NEW p \in Popups, NEW parent \in Toplevels \cup Popups, NewPopup(p, parent)
      PROVE  Source!SrcNext
  <2>1. /\ Still(wm, wm')
        /\ \/ Silent
           \/ \E w \in Tracked(wm) : \E id : Emit(<< PopupEvent("popup", w, id) >>)
    BY <1>0, <1>5, NewPopupKeeps
  <2>2. ASSUME NEW w \in Tracked(wm), NEW id, Emit(<< PopupEvent("popup", w, id) >>)
        PROVE  Source!SrcNext
    BY <2>1, <2>2, TellStep, AbstractEvents
  <2> QED
    BY <1>0, <2>1, <2>2, QuietStep
<1>6. ASSUME NEW p \in Popups, DestroyPopup(p) \/ DismissPopup(p) PROVE Source!SrcNext
  <2>1. /\ Still(wm, wm')
        /\ \/ Silent
           \/ \E w \in Tracked(wm) : \E id : Emit(<< PopupEvent("popup_gone", w, id) >>)
    BY <1>0, <1>6, UntrackKeeps DEF DestroyPopup, DismissPopup, launchVars, client
  <2>2. ASSUME NEW w \in Tracked(wm), NEW id, Emit(<< PopupEvent("popup_gone", w, id) >>)
        PROVE  Source!SrcNext
    BY <2>1, <2>2, TellStep, AbstractEvents
  <2> QED
    BY <1>0, <2>1, <2>2, QuietStep
<1>7. ASSUME NEW p \in Popups, GrabPopup(p) PROVE Source!SrcNext
  BY <1>1, <1>7 DEF GrabPopup
<1>8. ASSUME NEW w \in Ids, ActivateWindow(w) PROVE Source!SrcNext
  <2>1. /\ Still(wm, wm') /\ w \in Tracked(wm)
        /\ Silent \/ \E before : Emit(<< Activated(w, before), FocusChanged(w) >>)
    BY <1>0, <1>8, ActivateWindowKeeps
  <2>2. ASSUME NEW before, Emit(<< Activated(w, before), FocusChanged(w) >>)
        PROVE  Source!SrcNext
    BY <2>1, <2>2, TellStep, AbstractEvents
  <2> QED
    BY <1>0, <2>1, <2>2, QuietStep
<1>9. ASSUME NoteLaunch \/ LaunchTimeout PROVE Source!SrcNext
  BY <1>1, <1>9 DEF NoteLaunch, LaunchTimeout
<1>10. ASSUME ReserveSeq PROVE Source!SrcNext
  <2>1. /\ lastSeq < MaxSeq /\ lastSeq' = lastSeq + 1 /\ published' = << >> /\ UNCHANGED wm
    BY <1>10 DEF ReserveSeq
  <2>2. Source!Reserve
    BY <2>1 DEF Source!Reserve, Tracked
  <2> QED
    BY <2>2 DEF Source!SrcNext
<1>11. ASSUME UNCHANGED vars PROVE UNCHANGED Source!svars
  <2>1. UNCHANGED << wm, lastSeq, published >>
    BY <1>11 DEF vars
  <2> QED
    BY <2>1 DEF Source!svars, Tracked
<1> QED
  BY <1>2, <1>3, <1>4, <1>5, <1>6, <1>7, <1>8, <1>9, <1>10, <1>11,
     CommitStep, OpenStep, CloseStep DEF Next

\* The source gives numbers out in order, so they stay within their bounds.
LEMMA NumbersAreKept ==
  ASSUME NumbersTyped, [Source!SrcNext]_(Source!svars)
  PROVE  NumbersTyped'
<1>0. lastSeq \in Nat /\ wm.nextId \in 1 .. MaxWindows + 1 /\ MaxWindows \in Nat
  BY CompositorAssumption DEF NumbersTyped
<1>1. ASSUME NEW S, NEW x \in Seq(S), Source!Publish(x) PROVE lastSeq' \in Nat
  BY <1>0, <1>1 DEF Source!Publish
<1>2. CASE Source!Open
  <2>1. wm.nextId \in Ids /\ wm'.nextId = wm.nextId + 1 /\ lastSeq' = lastSeq + 4
    BY <1>2 DEF Source!Open, Source!Publish
  <2> QED
    BY <1>0, <2>1 DEF NumbersTyped, Ids
<1>3. CASE Source!Reserve \/ Source!Quiet
  <2>1. wm'.nextId = wm.nextId /\ lastSeq' \in {lastSeq, lastSeq + 1}
    BY <1>3 DEF Source!Reserve, Source!Quiet
  <2> QED
    BY <1>0, <2>1 DEF NumbersTyped
<1>4. ASSUME NEW w \in Ids, Source!Commit(w) \/ Source!Tell(w) PROVE NumbersTyped'
  <2>1. wm'.nextId = wm.nextId /\ lastSeq' \in {lastSeq + 1, lastSeq + 2}
    BY <1>4 DEF Source!Commit, Source!Tell, Source!Publish
  <2> QED
    BY <1>0, <2>1 DEF NumbersTyped
<1>5. ASSUME NEW w \in Ids, Source!Close(w) PROVE NumbersTyped'
  <2> DEFINE last(k) == [i \in 1 .. k |-> Source!Notice(w)] \o << Source!SrcEvent("destroyed", w, 0) >>
  <2>1. /\ wm'.nextId = wm.nextId
        /\ \E k \in 0 .. MaxSeq :
             \/ Source!Publish(last(k))
             \/ \E v : Source!Publish(last(k) \o << Source!Notice(v), Source!Notice(v) >>)
    BY <1>5 DEF Source!Close
  <2>2. PICK k \in 0 .. MaxSeq :
          \/ Source!Publish(last(k))
          \/ \E v : Source!Publish(last(k) \o << Source!Notice(v), Source!Notice(v) >>)
    BY <2>1
  <2>3. ASSUME NEW S, Source!Notice(w) \in S, Source!SrcEvent("destroyed", w, 0) \in S
        PROVE  last(k) \in Seq(S)
    <3>1. [i \in 1 .. k |-> Source!Notice(w)] \in [1 .. k -> S] /\ k \in Nat
      BY <2>3
    <3>2. [i \in 1 .. k |-> Source!Notice(w)] \in Seq(S)
      BY <3>1
    <3>3. << Source!SrcEvent("destroyed", w, 0) >> \in Seq(S)
      BY <2>3
    <3> QED
      BY <3>2, <3>3
  <2> HIDE DEF last
  <2>4. CASE Source!Publish(last(k))
    <3>1. PICK S : S = {Source!Notice(w), Source!SrcEvent("destroyed", w, 0)}
      OBVIOUS
    <3>2. lastSeq' \in Nat
      BY <1>1, <2>3, <2>4, <3>1
    <3> QED
      BY <1>0, <2>1, <3>2 DEF NumbersTyped
  <2>5. ASSUME NEW v, Source!Publish(last(k) \o << Source!Notice(v), Source!Notice(v) >>)
        PROVE  NumbersTyped'
    <3>1. PICK S : S = {Source!Notice(w), Source!SrcEvent("destroyed", w, 0), Source!Notice(v)}
      OBVIOUS
    <3>2. last(k) \o << Source!Notice(v), Source!Notice(v) >> \in Seq(S)
      <4>1. last(k) \in Seq(S) /\ << Source!Notice(v), Source!Notice(v) >> \in Seq(S)
        BY <2>3, <3>1
      <4> QED
        BY <4>1
    <3>3. lastSeq' \in Nat
      BY <1>1, <2>5, <3>2
    <3> QED
      BY <1>0, <2>1, <3>3 DEF NumbersTyped
  <2> QED
    BY <2>2, <2>4, <2>5
<1>6. CASE UNCHANGED Source!svars
  <2>1. wm'.nextId = wm.nextId /\ lastSeq' = lastSeq
    BY <1>6 DEF Source!svars
  <2> QED
    BY <1>0, <2>1 DEF NumbersTyped
<1> QED
  BY <1>2, <1>3, <1>4, <1>5, <1>6 DEF Source!SrcNext

(***************************************************************************)
(* The compositor implements the source the event pipeline is built on, for*)
(* any number of surfaces, windows and popups: whatever the clients and the*)
(* server do, windows are created and destroyed once, in order of their    *)
(* ids, every commit of a window carries the next number, nothing is said  *)
(* of a window that is not there, and no sequence number is used twice.    *)
(***************************************************************************)
THEOREM CompositorIsARuntimeSource == Spec => ImplementsRuntimeSource
<1>1. Init => SourceInv /\ Source!SrcInit
  <2> SUFFICES ASSUME Init PROVE SourceInv /\ Source!SrcInit
    OBVIOUS
  <2>1. wm.nextId = 1 /\ lastSeq = 0 /\ published = << >> /\ Tracked(wm) = {}
    BY DEF Init, EmptyModel, NoEntries, Tracked
  <2>2. SourceInv
    BY <2>1, BridgeHoldsInitially, CompositorAssumption DEF SourceInv, NumbersTyped
  <2>3. Source!SrcInit
    BY <2>1 DEF Source!SrcInit, Source!NoEntries
  <2> QED
    BY <2>2, <2>3
<1>2. SourceInv /\ [Next]_vars => [Source!SrcNext]_(Source!svars)
  BY SourceStep
<1>3. SourceInv /\ [Next]_vars => SourceInv'
  BY <1>2, BridgeIsKept, NumbersAreKept DEF SourceInv
<1> QED
  BY <1>1, <1>2, <1>3, PTL DEF Spec, ImplementsRuntimeSource, Source!SrcSpec

-----------------------------------------------------------------------------
(* The subscriber: what a fold over a batch computes.                      *)

\* A set of naturals that has the first and with each the next has all up to a bound.
LEMMA StepByStep ==
  ASSUME NEW k \in Nat, NEW S, 0 \in S, \A i \in 0 .. k - 1 : i \in S => i + 1 \in S
  PROVE  \A i \in 0 .. k : i \in S
<1> SUFFICES ASSUME NEW j \in 0 .. k, j \notin S PROVE FALSE
  OBVIOUS
<1> DEFINE T == {i \in 0 .. k : i \notin S}
<1>1. T \in SUBSET Nat /\ j \in T
  OBVIOUS
<1>2. PICK i \in T : \A n \in T : i <= n
  BY <1>1, LeastNatural
<1>3. i # 0 /\ i \in 0 .. k /\ i \notin S
  BY <1>2
<1>4. i - 1 \in 0 .. k - 1 /\ i - 1 \in 0 .. k /\ ~ (i <= i - 1) /\ (i - 1) + 1 = i
  BY <1>3
<1>5. i - 1 \in S
  BY <1>2, <1>4
<1> QED
  BY <1>3, <1>4, <1>5

\* The views a subscriber passes through, one per event of a batch.
Views(g, view, batch, k) ==
  g[0] = view /\ \A i \in 1 .. k : g[i] = Fold(g[i - 1], batch[i].event)

LEMMA ViewsExist ==
  ASSUME NEW view, NEW batch, NEW k \in Nat
  PROVE  \E g : Views(g, view, batch, k)
<1> DEFINE S == {n \in 0 .. k : \E g : Views(g, view, batch, n)}
<1>1. 0 \in S
  <2>1. PICK g : g = [i \in 0 .. 0 |-> view]
    OBVIOUS
  <2>2. Views(g, view, batch, 0)
    BY <2>1 DEF Views
  <2> QED
    BY <2>2
<1>2. ASSUME NEW n \in 0 .. k - 1, n \in S PROVE n + 1 \in S
  <2>1. PICK g : Views(g, view, batch, n)
    BY <1>2
  <2>2. PICK h : h = [i \in 0 .. n + 1 |-> IF i = n + 1 THEN Fold(g[n], batch[n + 1].event) ELSE g[i]]
    OBVIOUS
  <2>3. h[0] = view
    BY <2>1, <2>2 DEF Views
  <2>4. ASSUME NEW i \in 1 .. n + 1 PROVE h[i] = Fold(h[i - 1], batch[i].event)
    <3>1. i - 1 \in 0 .. n + 1 /\ i - 1 # n + 1 /\ i \in 0 .. n + 1
      OBVIOUS
    <3>2. h[i - 1] = g[i - 1]
      BY <2>2, <3>1
    <3>3. CASE i = n + 1
      <4>1. h[i] = Fold(g[n], batch[n + 1].event) /\ i - 1 = n
        BY <2>2, <3>1, <3>3
      <4> QED
        BY <3>2, <3>3, <4>1
    <3>4. CASE i # n + 1
      <4>1. h[i] = g[i] /\ i \in 1 .. n
        BY <2>2, <3>1, <3>4
      <4> QED
        BY <2>1, <3>2, <4>1 DEF Views
    <3> QED
      BY <3>3, <3>4
  <2>5. Views(h, view, batch, n + 1)
    BY <2>3, <2>4 DEF Views
  <2> QED
    BY <2>5
<1>3. \A i \in 0 .. k : i \in S
  <2> HIDE DEF S
  <2> QED
    BY <1>1, <1>2, StepByStep
<1>4. k \in S
  BY <1>3
<1> QED
  BY <1>4

\* FoldAll goes through the events one by one.
LEMMA FoldUnfolds ==
  ASSUME NEW view, NEW batch, NEW k \in Nat, Len(batch) = k
  PROVE  \E g : Views(g, view, batch, k) /\ FoldAll(view, batch) = g[k]
<1> DEFINE IsFold(g) ==
      g = [i \in 0 .. Len(batch) |-> IF i = 0 THEN view ELSE Fold(g[i - 1], batch[i].event)]
<1>1. PICK f : Views(f, view, batch, k)
  BY ViewsExist
<1>2. PICK h : h = [i \in 0 .. k |-> f[i]]
  OBVIOUS
<1>3. IsFold(h)
  <2>1. ASSUME NEW i \in 0 .. k
        PROVE  h[i] = IF i = 0 THEN view ELSE Fold(h[i - 1], batch[i].event)
    <3>1. CASE i = 0
      BY <1>1, <1>2, <3>1 DEF Views
    <3>2. CASE i # 0
      <4>1. i \in 1 .. k /\ i - 1 \in 0 .. k
        BY <3>2
      <4>2. h[i] = f[i] /\ h[i - 1] = f[i - 1] /\ f[i] = Fold(f[i - 1], batch[i].event)
        BY <1>1, <1>2, <4>1 DEF Views
      <4> QED
        BY <3>2, <4>2
    <3> QED
      BY <3>1, <3>2
  <2>2. h = [i \in 0 .. k |-> h[i]]
    BY <1>2
  <2> QED
    BY <2>1, <2>2
<1>4. PICK g : g = CHOOSE x : IsFold(x)
  OBVIOUS
<1>5. IsFold(g)
  BY <1>3, <1>4
<1>6. FoldAll(view, batch) = g[Len(batch)]
  BY <1>4, Zenon DEF FoldAll
<1>7. ASSUME NEW i \in 0 .. k
      PROVE  g[i] = IF i = 0 THEN view ELSE Fold(g[i - 1], batch[i].event)
  BY <1>5
<1>8. g[0] = view /\ \A i \in 1 .. k : g[i] = Fold(g[i - 1], batch[i].event)
  BY <1>7
<1> QED
  BY <1>6, <1>8 DEF Views

\* A step that emits some events takes the mirror through them.
LEMMA EmitFolds ==
  ASSUME NEW events, NEW k \in Nat, Len(events) = k, lastSeq \in Nat, Emit(events),
         mirror' = FoldAll(mirror, published')
  PROVE  \E g : /\ g[0] = mirror /\ mirror' = g[k]
                /\ \A i \in 1 .. k : g[i] = Fold(g[i - 1], events[i])
<1>1. PICK batch : batch = published'
  OBVIOUS
<1>2. batch = [i \in 1 .. k |-> [seq |-> lastSeq + i, event |-> events[i]]]
  BY <1>1 DEF Emit
<1>3. Len(batch) = k /\ \A i \in 1 .. k : batch[i].event = events[i]
  BY <1>2
<1>4. PICK g : Views(g, mirror, batch, k) /\ FoldAll(mirror, batch) = g[k]
  BY <1>3, FoldUnfolds
<1> QED
  BY <1>1, <1>3, <1>4 DEF Views

-----------------------------------------------------------------------------
(* What one event tells it.                                                *)

(***************************************************************************)
(* A view is sane and knows these counters and popups, window by window,   *)
(* and the front window.                                                   *)
(***************************************************************************)
Entry(r) == DOMAIN r = {"commits", "title", "popups"}
Shows(v, commits, held, front) ==
  /\ DOMAIN v = {"windows", "focus", "sane"} /\ v.sane = TRUE /\ v.focus = front
  /\ DOMAIN v.windows = DOMAIN commits /\ DOMAIN held = DOMAIN commits
  /\ \A w \in DOMAIN commits :
       /\ Entry(v.windows[w])
       /\ v.windows[w].commits = commits[w] /\ v.windows[w].popups = held[w]

\* One window's entry changes.
LEMMA EntryChanges ==
  ASSUME NEW v, NEW commits, NEW held, NEW front, Shows(v, commits, held, front),
         NEW w \in DOMAIN commits, NEW r, Entry(r),
         NEW u, u = [v EXCEPT !.windows[w] = r],
         NEW c, DOMAIN c = DOMAIN commits, c[w] = r.commits,
         NEW h, DOMAIN h = DOMAIN commits, h[w] = r.popups,
         \A x \in DOMAIN commits \ {w} : c[x] = commits[x] /\ h[x] = held[x]
  PROVE  Shows(u, c, h, front)
<1>1. PICK windows : windows = [v.windows EXCEPT ![w] = r]
  OBVIOUS
<1>2. /\ DOMAIN u = {"windows", "focus", "sane"} /\ u.sane = v.sane /\ u.focus = v.focus
      /\ u.windows = windows
  BY <1>1 DEF Shows
<1>3. DOMAIN windows = DOMAIN commits /\ windows[w] = r
      /\ \A x \in DOMAIN commits \ {w} : windows[x] = v.windows[x]
  BY <1>1 DEF Shows
<1> QED
  BY <1>2, <1>3 DEF Shows

LEMMA CreatedTells ==
  ASSUME NEW v, NEW commits, NEW held, NEW front, Shows(v, commits, held, front),
         NEW w, w \notin DOMAIN commits, NEW launch
  PROVE  Shows(Fold(v, Created(w, launch)), Put(commits, w, 0), Put(held, w, {}), front)
<1>1. PICK e, u : e = Created(w, launch) /\ u = Fold(v, e)
  OBVIOUS
<1>2. e.kind = "created" /\ e.window = w /\ w \notin DOMAIN v.windows
  BY <1>1 DEF Created, Shows
<1>3. u = [v EXCEPT !.windows = Put(v.windows, w, NewWindow)]
  BY <1>1, <1>2 DEF Fold
<1>4. PICK windows : windows = Put(v.windows, w, NewWindow)
  OBVIOUS
<1>5. /\ DOMAIN u = {"windows", "focus", "sane"} /\ u.sane = TRUE /\ u.focus = front
      /\ u.windows = windows
  BY <1>3, <1>4 DEF Shows
<1>6. /\ DOMAIN windows = DOMAIN commits \cup {w} /\ windows[w] = NewWindow
      /\ \A x \in DOMAIN commits : windows[x] = v.windows[x]
  BY <1>2, <1>4 DEF Put, Shows
<1>7. Entry(NewWindow) /\ NewWindow.commits = 0 /\ NewWindow.popups = {}
  BY DEF NewWindow, Entry
<1>8. PICK c, h : c = Put(commits, w, 0) /\ h = Put(held, w, {})
  OBVIOUS
<1>9. /\ DOMAIN c = DOMAIN commits \cup {w} /\ DOMAIN h = DOMAIN commits \cup {w}
      /\ c[w] = 0 /\ h[w] = {} /\ \A x \in DOMAIN commits : c[x] = commits[x] /\ h[x] = held[x]
  BY <1>8 DEF Put, Shows
<1>10. Shows(u, c, h, front)
  BY <1>5, <1>6, <1>7, <1>9 DEF Shows
<1> QED
  BY <1>1, <1>8, <1>10

LEMMA CommittedTells ==
  ASSUME NEW v, NEW commits, NEW held, NEW front, Shows(v, commits, held, front),
         NEW w \in DOMAIN commits, NEW n, n = commits[w] + 1
  PROVE  Shows(Fold(v, Committed(w, n)), [commits EXCEPT ![w] = n], held, front)
<1>1. PICK e, u : e = Committed(w, n) /\ u = Fold(v, e)
  OBVIOUS
<1>2. e.kind = "commit" /\ e.window = w /\ e.commitSeq = n /\ w \in DOMAIN v.windows
  BY <1>1 DEF Committed, Shows
<1>3. PICK r, s : r = v.windows[w] /\ s = [r EXCEPT !.commits = n]
  OBVIOUS
<1>4. n = r.commits + 1 /\ Entry(r) /\ r.popups = held[w]
  BY <1>3 DEF Shows
<1>5. u = [v EXCEPT !.windows[w] = s]
  BY <1>1, <1>2, <1>3, <1>4 DEF Fold
<1>6. Entry(s) /\ s.commits = n /\ s.popups = held[w]
  BY <1>3, <1>4 DEF Entry
<1>7. PICK c : c = [commits EXCEPT ![w] = n]
  OBVIOUS
<1>8. /\ DOMAIN c = DOMAIN commits /\ c[w] = n /\ DOMAIN held = DOMAIN commits
      /\ \A x \in DOMAIN commits \ {w} : c[x] = commits[x]
  BY <1>7 DEF Shows
<1>9. Shows(u, c, held, front)
  BY <1>5, <1>6, <1>8, EntryChanges
<1> QED
  BY <1>1, <1>7, <1>9

LEMMA TitleTells ==
  ASSUME NEW v, NEW commits, NEW held, NEW front, Shows(v, commits, held, front),
         NEW w \in DOMAIN commits, NEW title
  PROVE  Shows(Fold(v, TitleChanged(w, title)), commits, held, front)
<1>1. PICK e, u : e = TitleChanged(w, title) /\ u = Fold(v, e)
  OBVIOUS
<1>2. e.kind = "title" /\ e.window = w /\ e.title = title /\ w \in DOMAIN v.windows
  BY <1>1 DEF TitleChanged, Shows
<1>3. PICK r, s : r = v.windows[w] /\ s = [r EXCEPT !.title = title]
  OBVIOUS
<1>4. Entry(r) /\ r.popups = held[w] /\ r.commits = commits[w]
  BY <1>3 DEF Shows
<1>5. u = [v EXCEPT !.windows[w] = s]
  BY <1>1, <1>2, <1>3, <1>4 DEF Fold
<1>6. Entry(s) /\ s.commits = commits[w] /\ s.popups = held[w]
  BY <1>3, <1>4 DEF Entry
<1>7. DOMAIN held = DOMAIN commits
  BY DEF Shows
<1>8. Shows(u, commits, held, front)
  BY <1>5, <1>6, <1>7, EntryChanges
<1> QED
  BY <1>1, <1>8

LEMMA PopupTells ==
  ASSUME NEW v, NEW commits, NEW held, NEW front, Shows(v, commits, held, front),
         NEW w \in DOMAIN commits, NEW id
  PROVE  /\ id \notin held[w] =>
              Shows(Fold(v, PopupEvent("popup", w, id)), commits,
                    [held EXCEPT ![w] = @ \cup {id}], front)
         /\ id \in held[w] =>
              Shows(Fold(v, PopupEvent("popup_gone", w, id)), commits,
                    [held EXCEPT ![w] = @ \ {id}], front)
<1>1. PICK r : r = v.windows[w]
  OBVIOUS
<1>2. /\ w \in DOMAIN v.windows /\ Entry(r) /\ r.popups = held[w] /\ r.commits = commits[w]
      /\ DOMAIN held = DOMAIN commits
  BY <1>1 DEF Shows
<1>3. ASSUME id \notin held[w]
      PROVE  Shows(Fold(v, PopupEvent("popup", w, id)), commits, [held EXCEPT ![w] = @ \cup {id}], front)
  <2>1. PICK e, u, s, h : /\ e = PopupEvent("popup", w, id) /\ u = Fold(v, e)
                          /\ s = [r EXCEPT !.popups = @ \cup {id}]
                          /\ h = [held EXCEPT ![w] = @ \cup {id}]
    OBVIOUS
  <2>2. e.kind = "popup" /\ e.window = w /\ e.popup = id
    BY <2>1 DEF PopupEvent
  <2>3. u = [v EXCEPT !.windows[w] = s]
    BY <1>1, <1>2, <1>3, <2>1, <2>2 DEF Fold
  <2>4. Entry(s) /\ s.commits = commits[w] /\ s.popups = held[w] \cup {id}
    BY <1>2, <2>1 DEF Entry
  <2>5. /\ DOMAIN h = DOMAIN commits /\ h[w] = held[w] \cup {id}
        /\ \A x \in DOMAIN commits \ {w} : h[x] = held[x]
    BY <1>2, <2>1
  <2>6. Shows(u, commits, h, front)
    BY <2>3, <2>4, <2>5, EntryChanges
  <2> QED
    BY <2>1, <2>6
<1>4. ASSUME id \in held[w]
      PROVE  Shows(Fold(v, PopupEvent("popup_gone", w, id)), commits, [held EXCEPT ![w] = @ \ {id}], front)
  <2>1. PICK e, u, s, h : /\ e = PopupEvent("popup_gone", w, id) /\ u = Fold(v, e)
                          /\ s = [r EXCEPT !.popups = @ \ {id}]
                          /\ h = [held EXCEPT ![w] = @ \ {id}]
    OBVIOUS
  <2>2. e.kind = "popup_gone" /\ e.window = w /\ e.popup = id
    BY <2>1 DEF PopupEvent
  <2>3. u = [v EXCEPT !.windows[w] = s]
    BY <1>1, <1>2, <1>4, <2>1, <2>2 DEF Fold
  <2>4. Entry(s) /\ s.commits = commits[w] /\ s.popups = held[w] \ {id}
    BY <1>2, <2>1 DEF Entry
  <2>5. /\ DOMAIN h = DOMAIN commits /\ h[w] = held[w] \ {id}
        /\ \A x \in DOMAIN commits \ {w} : h[x] = held[x]
    BY <1>2, <2>1
  <2>6. Shows(u, commits, h, front)
    BY <2>3, <2>4, <2>5, EntryChanges
  <2> QED
    BY <2>1, <2>6
<1> QED
  BY <1>3, <1>4

LEMMA DestroyedTells ==
  ASSUME NEW v, NEW commits, NEW held, NEW front, Shows(v, commits, held, front),
         NEW w \in DOMAIN commits, held[w] = {}
  PROVE  Shows(Fold(v, Destroyed(w)), Drop(commits, {w}), Drop(held, {w}), front)
<1>1. PICK e, u, windows, c, h :
        /\ e = Destroyed(w) /\ u = Fold(v, e) /\ windows = Drop(v.windows, {w})
        /\ c = Drop(commits, {w}) /\ h = Drop(held, {w})
  OBVIOUS
<1>2. e.kind = "destroyed" /\ e.window = w /\ w \in DOMAIN v.windows /\ v.windows[w].popups = {}
  BY <1>1 DEF Destroyed, Event, Shows
<1>3. u = [v EXCEPT !.windows = windows]
  BY <1>1, <1>2 DEF Fold
<1>4. /\ DOMAIN u = {"windows", "focus", "sane"} /\ u.sane = TRUE /\ u.focus = front
      /\ u.windows = windows
  BY <1>3 DEF Shows
<1>5. /\ DOMAIN windows = DOMAIN commits \ {w} /\ DOMAIN c = DOMAIN commits \ {w}
      /\ DOMAIN h = DOMAIN commits \ {w}
      /\ \A x \in DOMAIN commits \ {w} :
           windows[x] = v.windows[x] /\ c[x] = commits[x] /\ h[x] = held[x]
  BY <1>1 DEF Drop, Shows
<1>6. Shows(u, c, h, front)
  BY <1>4, <1>5 DEF Shows
<1> QED
  BY <1>1, <1>6

\* An activation and the focus it brings.
LEMMA ActivationTells ==
  ASSUME NEW v, NEW commits, NEW held, NEW front, Shows(v, commits, held, front),
         NEW w \in DOMAIN commits, NEW before \in {front, NoWindow}
  PROVE  /\ Shows(Fold(v, Activated(w, before)), commits, held, front)
         /\ Shows(Fold(v, FocusChanged(w)), commits, held, w)
<1>1. PICK d, e, u : d = Activated(w, before) /\ e = FocusChanged(w) /\ u = Fold(v, e)
  OBVIOUS
<1>2. /\ d.kind = "activated" /\ d.window = w /\ d.previous = before
      /\ e.kind = "focus" /\ e.window = w
      /\ w \in DOMAIN v.windows /\ v.focus = front
  BY <1>1 DEF Activated, FocusChanged, Event, Shows
<1>3. Fold(v, d) = v
  BY <1>2 DEF Fold
<1>4. u = [v EXCEPT !.focus = w]
  BY <1>1, <1>2 DEF Fold
<1>5. /\ DOMAIN u = {"windows", "focus", "sane"} /\ u.sane = TRUE /\ u.focus = w
      /\ u.windows = v.windows
  BY <1>4 DEF Shows
<1>6. Shows(u, commits, held, w)
  BY <1>5 DEF Shows
<1> QED
  BY <1>1, <1>3, <1>6

-----------------------------------------------------------------------------
(* The ids of popups.                                                      *)

\* Popup ids are never given twice.
PopupIds ==
  /\ nextPopup \in Nat
  /\ \A p \in DOMAIN popups : popups[p].id \in Nat /\ popups[p].id < nextPopup
  /\ \A p, q \in DOMAIN popups : popups[p].id = popups[q].id => p = q

IdsOfAll(S) == {popups[p].id : p \in S}

LEMMA AsManyIds ==
  ASSUME PopupIds, NEW S, S \subseteq DOMAIN popups, IsFiniteSet(S)
  PROVE  /\ IsFiniteSet(IdsOfAll(S)) /\ Cardinality(IdsOfAll(S)) = Cardinality(S)
         /\ IdsOfAll(S) \subseteq Nat
<1>1. PICK f, T : f = [p \in S |-> popups[p].id] /\ T = IdsOfAll(S)
  OBVIOUS
<1>2. f \in [S -> T] /\ \A p, q \in S : f[p] = f[q] => p = q
  BY <1>1 DEF PopupIds, IdsOfAll
<1>3. \A t \in T : \E p \in S : f[p] = t
  BY <1>1 DEF IdsOfAll
<1>4. f \in Bijection(S, T)
  BY <1>2, <1>3 DEF Bijection, Injection, Surjection, IsInjective
<1>5. ExistsBijection(S, T)
  BY <1>4 DEF ExistsBijection
<1>6. IsFiniteSet(T) /\ Cardinality(T) = Cardinality(S)
  BY <1>5, FS_Bijection
<1> QED
  BY <1>1, <1>6 DEF PopupIds, IdsOfAll

\* on_toplevel_destroyed tells the popups of the window, each once.
LEMMA EveryPopupIsTold ==
  ASSUME BridgeInv, PopupIds, NEW w, NEW k, k = Cardinality(PopupsOf(w)), NEW id, id = IdsTold(w)
  PROVE  /\ k \in Nat
         /\ \A i \in 1 .. k : id[i] \in IdsOfAll(PopupsOf(w))
         /\ \A i, j \in 1 .. k : id[i] = id[j] => i = j
         /\ \A n \in IdsOfAll(PopupsOf(w)) : \E i \in 1 .. k : id[i] = n
<1>1. PICK S, order : S = PopupsOf(w) /\ order = InIdOrder(S)
  OBVIOUS
<1>2. IsFiniteSet(S) /\ k \in Nat /\ k = Cardinality(S) /\ S \subseteq DOMAIN popups
  BY <1>1, PopupsOfWindow DEF PopupsOf
<1> DEFINE below(p) == {q \in S : popups[q].id < popups[p].id}
<1>3. ASSUME NEW i \in 1 .. k PROVE \E p \in S : Cardinality(below(p)) = i - 1
  <2>1. PICK N : N = IdsOfAll(S)
    OBVIOUS
  <2>2. IsFiniteSet(N) /\ Cardinality(N) = k /\ N \subseteq Nat
    BY <1>2, <2>1, AsManyIds
  <2>3. PICK n \in N : Cardinality({j \in N : j < n}) = i - 1
    BY <2>2, RanksAreTaken
  <2>4. PICK p \in S : n = popups[p].id
    BY <2>1 DEF IdsOfAll
  <2>5. {j \in N : j < n} = IdsOfAll(below(p))
    BY <2>1, <2>4 DEF IdsOfAll
  <2>6. IsFiniteSet(below(p)) /\ below(p) \subseteq DOMAIN popups
    <3>1. below(p) \in SUBSET S
      OBVIOUS
    <3> QED
      BY <1>2, <3>1, FS_Subset
  <2>7. Cardinality(IdsOfAll(below(p))) = Cardinality(below(p))
    <3> HIDE DEF below
    <3> QED
      BY <2>6, AsManyIds
  <2> QED
    BY <2>3, <2>5, <2>7
<1>4. order = [i \in 1 .. k |-> CHOOSE p \in S : Cardinality(below(p)) = i - 1]
  BY <1>1, <1>2 DEF InIdOrder
<1>5. ASSUME NEW i \in 1 .. k PROVE order[i] \in S /\ Cardinality(below(order[i])) = i - 1
  <2>1. order[i] = CHOOSE p \in S : Cardinality(below(p)) = i - 1
    BY <1>4
  <2>2. \E p \in S : Cardinality(below(p)) = i - 1
    BY <1>3
  <2> HIDE DEF below
  <2> QED
    BY <2>1, <2>2
<1>6. \A i, j \in 1 .. k : order[i] = order[j] => i = j
  <2> HIDE DEF below
  <2>1. \A i, j \in 1 .. k : order[i] = order[j] => i - 1 = j - 1
    BY <1>5
  <2> QED
    BY <2>1
<1>7. order \in Injection(1 .. k, S)
  <2>1. order \in [1 .. k -> S]
    BY <1>4, <1>5
  <2> QED
    BY <1>6, <2>1 DEF Injection, IsInjective
<1>8. order \in Surjection(1 .. k, S)
  <2>1. IsFiniteSet(1 .. k) /\ Cardinality(1 .. k) = k
    BY <1>2, FS_Interval
  <2> QED
    BY <1>2, <1>7, <2>1, FS_Injection
<1>9. id = [i \in 1 .. k |-> popups[order[i]].id]
  BY <1>1 DEF IdsTold
<1>10. \A i \in 1 .. k : id[i] = popups[order[i]].id /\ order[i] \in S
  BY <1>5, <1>9
<1>11. \A i, j \in 1 .. k : id[i] = id[j] => i = j
  BY <1>2, <1>6, <1>10 DEF PopupIds
<1>12. \A p \in S : \E i \in 1 .. k : order[i] = p
  BY <1>8 DEF Surjection
<1> QED
  BY <1>1, <1>2, <1>10, <1>11, <1>12 DEF IdsOfAll

-----------------------------------------------------------------------------
(* What every handler tells it.                                            *)

\* The popups of the tracked windows.
Held == [w \in Tracked(wm) |-> IdsOfAll(PopupsOf(w))]

Mirrors ==
  /\ Shows(mirror, Commits(wm), Held, mirror.focus)
  /\ Tracked(wm) # {} => mirror.focus = ActiveWindow(wm)

MirrorInv == SourceInv /\ PopupIds /\ Mirrors
Folds == mirror' = FoldAll(mirror, published')

LEMMA NothingTells ==
  ASSUME lastSeq \in Nat, Silent \/ published' = << >>, Folds
  PROVE  mirror' = mirror
<1>1. published' = << >>
  BY DEF Silent, Emit
<1>2. PICK batch : batch = published' /\ Len(batch) = 0
  BY <1>1
<1>3. PICK g : Views(g, mirror, batch, 0) /\ FoldAll(mirror, batch) = g[0]
  BY <1>2, FoldUnfolds
<1> QED
  BY <1>2, <1>3 DEF Views, Folds

LEMMA EventsTell ==
  ASSUME lastSeq \in Nat, Folds, NEW a, NEW b
  PROVE  /\ Emit(<< a >>) => mirror' = Fold(mirror, a)
         /\ Emit(<< a, b >>) => mirror' = Fold(Fold(mirror, a), b)
<1>1. ASSUME Emit(<< a >>) PROVE mirror' = Fold(mirror, a)
  <2>1. PICK k \in Nat : k = 1
    OBVIOUS
  <2>2. PICK events : events = << a >>
    OBVIOUS
  <2>3. Len(events) = k /\ Emit(events) /\ events[1] = a
    BY <1>1, <2>2, <2>1
  <2>4. PICK g : /\ g[0] = mirror /\ mirror' = g[k]
                 /\ \A i \in 1 .. k : g[i] = Fold(g[i - 1], events[i])
    BY <2>3, EmitFolds DEF Folds
  <2>5. g[1] = Fold(g[0], a)
    BY <2>3, <2>4, <2>1
  <2> QED
    BY <2>4, <2>5, <2>1
<1>2. ASSUME Emit(<< a, b >>) PROVE mirror' = Fold(Fold(mirror, a), b)
  <2>1. PICK k \in Nat : k = 2
    OBVIOUS
  <2>2. PICK events : events = << a, b >>
    OBVIOUS
  <2>3. Len(events) = k /\ Emit(events) /\ events[1] = a /\ events[2] = b
    BY <1>2, <2>2, <2>1
  <2>4. PICK g : /\ g[0] = mirror /\ mirror' = g[k]
                 /\ \A i \in 1 .. k : g[i] = Fold(g[i - 1], events[i])
    BY <2>3, EmitFolds DEF Folds
  <2>5. g[1] = Fold(g[0], a) /\ g[2] = Fold(g[1], b)
    BY <2>3, <2>4, <2>1
  <2> QED
    BY <2>4, <2>5, <2>1
<1> QED
  BY <1>1, <1>2

LEMMA FourEventsTell ==
  ASSUME lastSeq \in Nat, Folds, NEW a, NEW b, NEW c, NEW d,
         NEW list, list = << a, b, c, d >>, Emit(list)
  PROVE  mirror' = Fold(Fold(Fold(Fold(mirror, a), b), c), d)
<1>1. PICK k \in Nat : k = 4
  OBVIOUS
<1>2. PICK events : events = list
  OBVIOUS
<1>3. Len(events) = k /\ Emit(events) /\ events[1] = a /\ events[2] = b /\ events[3] = c /\ events[4] = d
  BY <1>2, <1>1
<1>4. PICK g : /\ g[0] = mirror /\ mirror' = g[k]
               /\ \A i \in 1 .. k : g[i] = Fold(g[i - 1], events[i])
  BY <1>3, EmitFolds DEF Folds
<1>5. g[1] = Fold(g[0], a) /\ g[2] = Fold(g[1], b) /\ g[3] = Fold(g[2], c) /\ g[4] = Fold(g[3], d)
  BY <1>3, <1>4, <1>1
<1> QED
  BY <1>4, <1>5, <1>1

\* The seat's focus and the roots are those they were, and so is the front window.
LEMMA SameFocusSameFront ==
  ASSUME BridgeInv, BridgeInv', Tracked(wm') = Tracked(wm), UNCHANGED << roots, focus >>
  PROVE  FrontStays
<1>1. /\ WindowsCoherent /\ FocusCoherent /\ FocusCoherent' /\ ModelTyped(wm) /\ ModelTyped(wm')
  BY DEF BridgeInv, BridgeCoherent
<1>2. SUFFICES ASSUME Tracked(wm) # {} PROVE ActiveWindow(wm') = ActiveWindow(wm)
  BY DEF FrontStays
<1>3. PICK v, u, m : v = ActiveWindow(wm) /\ m = wm' /\ u = ActiveWindow(m)
  OBVIOUS
<1>4. v \in Tracked(wm) /\ u \in Tracked(wm)
  BY <1>1, <1>2, <1>3, ActiveIsTracked
<1>5. roots[v] = roots[u]
  BY <1>1, <1>2, <1>3 DEF FocusCoherent
<1>6. \A x \in Tracked(wm) : slots[roots[x]] = [key |-> wm.records[x].key, window |-> x]
  BY <1>1 DEF WindowsCoherent
<1>7. ASSUME NEW x \in Tracked(wm) PROVE slots[roots[x]].window = x
  <2>1. PICK entry : entry = slots[roots[x]] /\ entry = [key |-> wm.records[x].key, window |-> x]
    BY <1>6
  <2> QED
    BY <2>1
<1> QED
  BY <1>3, <1>4, <1>5, <1>7

LEMMA StillTracked ==
  ASSUME Still(wm, wm')
  PROVE  Tracked(wm') = Tracked(wm) /\ (UNCHANGED popups => Held' = Held)
<1>1. PICK m : m = wm'
  OBVIOUS
<1>2. DOMAIN Commits(m) = Tracked(m) /\ DOMAIN Commits(wm) = Tracked(wm)
  BY DEF Commits
<1>3. Tracked(wm') = Tracked(wm)
  BY <1>1, <1>2 DEF Still
<1> QED
  BY <1>3 DEF Held, IdsOfAll, PopupsOf

\* Handlers that tell the subscriber nothing, or nothing it compares.
LEMMA QuietMirrors ==
  ASSUME MirrorInv, Still(wm, wm'), UNCHANGED popups, FrontStays,
         NEW v, v = mirror', Shows(v, Commits(wm), Held, mirror.focus)
  PROVE  Mirrors'
<1>1. Tracked(wm') = Tracked(wm) /\ Held' = Held /\ Commits(wm') = Commits(wm)
  BY StillTracked DEF Still
<1>2. v.focus = mirror.focus
  BY DEF Shows
<1>3. Shows(v, Commits(wm'), Held', v.focus)
  BY <1>1, <1>2
<1>4. Tracked(wm') # {} => v.focus = ActiveWindow(wm')
  BY <1>1, <1>2 DEF MirrorInv, Mirrors, FrontStays
<1> QED
  BY <1>3, <1>4 DEF Mirrors

LEMMA TitleMirrors ==
  ASSUME MirrorInv, BridgeInv', NEW s, NEW title, SetTitle(s, title), Folds
  PROVE  Mirrors'
<1>1. /\ Still(wm, wm') /\ UNCHANGED << popups, roots, focus >> /\ lastSeq \in Nat /\ BridgeInv
      /\ Silent \/ \E w \in Tracked(wm) : Emit(<< TitleChanged(w, title) >>)
  BY SetTitleKeeps DEF MirrorInv, SourceInv, NumbersTyped, SetTitle, bridge
<1>2. FrontStays
  BY <1>1, StillTracked, SameFocusSameFront
<1>3. Shows(mirror, Commits(wm), Held, mirror.focus)
  BY DEF MirrorInv, Mirrors
<1>4. PICK v : v = mirror'
  OBVIOUS
<1>5. CASE Silent
  BY <1>1, <1>2, <1>3, <1>5, NothingTells, QuietMirrors
<1>6. ASSUME NEW w \in Tracked(wm), Emit(<< TitleChanged(w, title) >>) PROVE Mirrors'
  <2>1. mirror' = Fold(mirror, TitleChanged(w, title))
    BY <1>1, <1>6, EventsTell
  <2>2. w \in DOMAIN Commits(wm)
    BY DEF Commits
  <2>3. Shows(Fold(mirror, TitleChanged(w, title)), Commits(wm), Held, mirror.focus)
    BY <1>3, <2>2, TitleTells
  <2> QED
    BY <1>1, <1>2, <1>4, <2>1, <2>3, QuietMirrors
<1> QED
  BY <1>1, <1>5, <1>6

LEMMA CommitMirrors ==
  ASSUME MirrorInv, BridgeInv', NEW s, SurfaceCommit(s), Folds
  PROVE  Mirrors'
<1>1. PICK w, n : w = owners[s] /\ n = Commits(wm)[w] + 1
  OBVIOUS
<1>2. /\ w \in Tracked(wm) /\ wm'.nextId = wm.nextId
      /\ Commits(wm') = [Commits(wm) EXCEPT ![w] = n]
      /\ Emit(<< Committed(w, n) >>)
      /\ UNCHANGED << popups, roots, focus >> /\ lastSeq \in Nat /\ BridgeInv
  <2>1. BridgeInv /\ lastSeq \in Nat
    BY DEF MirrorInv, SourceInv, NumbersTyped
  <2>2. UNCHANGED << popups, roots, focus >>
    BY DEF SurfaceCommit, bridge
  <2> QED
    BY <1>1, <2>1, <2>2, SurfaceCommitKeeps
<1>3. Tracked(wm') = Tracked(wm)
  <2>1. PICK m : m = wm'
    OBVIOUS
  <2>2. DOMAIN Commits(m) = Tracked(m) /\ DOMAIN Commits(wm) = Tracked(wm)
    BY DEF Commits
  <2> QED
    BY <1>2, <2>1, <2>2
<1>4. FrontStays /\ Held' = Held
  <2>1. FrontStays
    BY <1>2, <1>3, SameFocusSameFront
  <2>2. Held' = Held
    BY <1>2, <1>3 DEF Held, IdsOfAll, PopupsOf
  <2> QED
    BY <2>1, <2>2
<1>5. Shows(mirror, Commits(wm), Held, mirror.focus) /\ w \in DOMAIN Commits(wm)
  BY <1>2 DEF MirrorInv, Mirrors, Commits
<1>6. PICK v : v = mirror' /\ v = Fold(mirror, Committed(w, n))
  BY <1>2, EventsTell
<1>7. Shows(v, [Commits(wm) EXCEPT ![w] = n], Held, mirror.focus)
  BY <1>1, <1>5, <1>6, CommittedTells
<1>8. v.focus = mirror.focus
  BY <1>7 DEF Shows
<1>9. Shows(v, Commits(wm'), Held', v.focus)
  BY <1>2, <1>4, <1>7, <1>8
<1>10. Tracked(wm') # {} => v.focus = ActiveWindow(wm')
  BY <1>3, <1>4, <1>8 DEF MirrorInv, Mirrors, FrontStays
<1> QED
  BY <1>6, <1>9, <1>10 DEF Mirrors

LEMMA MirrorsAgain ==
  ASSUME NEW v, v = mirror', NEW front, Shows(v, Commits(wm'), Held', front),
         Tracked(wm') # {} => front = ActiveWindow(wm')
  PROVE  Mirrors'
<1>1. v.focus = front
  BY DEF Shows
<1>2. Shows(v, Commits(wm'), Held', v.focus)
  BY <1>1
<1> QED
  BY <1>1, <1>2 DEF Mirrors

\* The ids of the popups of one window.
IdsIn(ps, w) == {ps[p].id : p \in {q \in DOMAIN ps : ps[q].window = w}}

LEMMA HeldIsIdsIn ==
  /\ Held = [w \in Tracked(wm) |-> IdsIn(popups, w)]
  /\ Held' = [w \in Tracked(wm') |-> IdsIn(popups', w)]
<1>1. Held = [w \in Tracked(wm) |-> IdsIn(popups, w)]
  BY DEF Held, IdsOfAll, IdsIn, PopupsOf
<1>2. PICK ps, m : ps = popups' /\ m = wm'
  OBVIOUS
<1>3. Held' = [w \in Tracked(wm') |-> IdsIn(popups', w)]
  BY DEF Held, IdsOfAll, IdsIn, PopupsOf
<1> QED
  BY <1>1, <1>3

LEMMA OpenedIsHeld ==
  ASSUME PopupIds, NEW p, NEW w \in Tracked(wm), PopupOpened(p, w), Tracked(wm') = Tracked(wm)
  PROVE  /\ Held' = [Held EXCEPT ![w] = @ \cup {nextPopup}]
         /\ nextPopup \notin Held[w] /\ PopupIds'
<1>1. PICK ps, qs, id : ps = popups /\ qs = popups' /\ id = nextPopup
  OBVIOUS
<1>2. /\ p \notin DOMAIN ps /\ DOMAIN qs = DOMAIN ps \cup {p}
      /\ qs[p].window = w /\ qs[p].id = id /\ \A q \in DOMAIN ps : qs[q] = ps[q]
      /\ nextPopup' = id + 1
  BY <1>1 DEF PopupOpened
<1>3. ASSUME NEW v \in Tracked(wm) PROVE IdsIn(qs, v) = IF v = w THEN IdsIn(ps, v) \cup {id} ELSE IdsIn(ps, v)
  <2>1. CASE v = w
    <3>1. {q \in DOMAIN qs : qs[q].window = v} = {q \in DOMAIN ps : ps[q].window = v} \cup {p}
      BY <1>2, <2>1
    <3> QED
      BY <1>2, <2>1, <3>1 DEF IdsIn
  <2>2. CASE v # w
    <3>1. {q \in DOMAIN qs : qs[q].window = v} = {q \in DOMAIN ps : ps[q].window = v}
      BY <1>2, <2>2
    <3> QED
      BY <1>2, <2>2, <3>1 DEF IdsIn
  <2> QED
    BY <2>1, <2>2
<1>4. PICK held, heldNow : held = Held /\ heldNow = Held'
  OBVIOUS
<1>5. held = [v \in Tracked(wm) |-> IdsIn(ps, v)] /\ heldNow = [v \in Tracked(wm) |-> IdsIn(qs, v)]
  BY <1>1, <1>4, HeldIsIdsIn
<1>6. heldNow = [held EXCEPT ![w] = @ \cup {id}]
  BY <1>3, <1>5
<1>7. id \in Nat /\ \A q \in DOMAIN ps : ps[q].id \in Nat /\ ps[q].id < id
  BY <1>1 DEF PopupIds
<1>8. id \notin held[w]
  BY <1>5, <1>7 DEF IdsIn
<1>9. PopupIds'
  <2>1. \A q, r \in DOMAIN ps : ps[q].id = ps[r].id => q = r
    BY <1>1 DEF PopupIds
  <2>2. ASSUME NEW q \in DOMAIN qs PROVE qs[q].id \in Nat /\ qs[q].id < id + 1
    <3>1. CASE q = p
      BY <1>2, <1>7, <3>1
    <3>2. CASE q # p
      BY <1>2, <1>7, <3>2
    <3> QED
      BY <3>1, <3>2
  <2>3. ASSUME NEW q \in DOMAIN qs, NEW r \in DOMAIN qs, qs[q].id = qs[r].id PROVE q = r
    BY <1>2, <1>7, <2>1, <2>3
  <2>4. id + 1 \in Nat
    BY <1>7
  <2> QED
    BY <1>1, <1>2, <2>2, <2>3, <2>4 DEF PopupIds
<1> QED
  BY <1>1, <1>4, <1>6, <1>8, <1>9

LEMMA ClosedIsHeld ==
  ASSUME PopupIds, NEW p, NEW w \in Tracked(wm), PopupClosed(p, w), Tracked(wm') = Tracked(wm),
         UNCHANGED nextPopup
  PROVE  /\ Held' = [Held EXCEPT ![w] = @ \ {popups[p].id}]
         /\ popups[p].id \in Held[w] /\ PopupIds'
<1>1. PICK ps, qs, id : ps = popups /\ qs = popups' /\ id = popups[p].id
  OBVIOUS
<1>2. /\ p \in DOMAIN ps /\ DOMAIN qs = DOMAIN ps \ {p}
      /\ ps[p].window = w /\ ps[p].id = id /\ \A q \in DOMAIN qs : qs[q] = ps[q]
  BY <1>1 DEF PopupClosed
<1>3. \A q, r \in DOMAIN ps : ps[q].id = ps[r].id => q = r
  BY <1>1 DEF PopupIds
<1>4. ASSUME NEW v \in Tracked(wm) PROVE IdsIn(qs, v) = IF v = w THEN IdsIn(ps, v) \ {id} ELSE IdsIn(ps, v)
  <2>1. CASE v = w
    <3>1. {q \in DOMAIN qs : qs[q].window = v} = {q \in DOMAIN ps : ps[q].window = v} \ {p}
      BY <1>2, <2>1
    <3> QED
      BY <1>2, <1>3, <2>1, <3>1 DEF IdsIn
  <2>2. CASE v # w
    <3>1. {q \in DOMAIN qs : qs[q].window = v} = {q \in DOMAIN ps : ps[q].window = v}
      BY <1>2, <2>2
    <3> QED
      BY <1>2, <2>2, <3>1 DEF IdsIn
  <2> QED
    BY <2>1, <2>2
<1>5. PICK held, heldNow : held = Held /\ heldNow = Held'
  OBVIOUS
<1>6. held = [v \in Tracked(wm) |-> IdsIn(ps, v)] /\ heldNow = [v \in Tracked(wm) |-> IdsIn(qs, v)]
  BY <1>1, <1>5, HeldIsIdsIn
<1>7. heldNow = [held EXCEPT ![w] = @ \ {id}]
  BY <1>4, <1>6
<1>8. id \in held[w]
  BY <1>2, <1>6 DEF IdsIn
<1>9. PopupIds'
  BY <1>1, <1>2 DEF PopupIds
<1> QED
  BY <1>1, <1>5, <1>7, <1>8, <1>9

LEMMA MirrorFacts ==
  ASSUME MirrorInv
  PROVE  /\ BridgeInv /\ lastSeq \in Nat /\ PopupIds
         /\ Shows(mirror, Commits(wm), Held, mirror.focus)
         /\ Tracked(wm) # {} => mirror.focus = ActiveWindow(wm)
         /\ DOMAIN Commits(wm) = Tracked(wm) /\ DOMAIN Held = Tracked(wm)
BY DEF MirrorInv, SourceInv, NumbersTyped, Mirrors, Commits, Held

LEMMA SamePopupIds == ASSUME PopupIds, UNCHANGED << popups, nextPopup >> PROVE PopupIds'
<1>1. PICK ps, n : ps = popups' /\ n = nextPopup' /\ ps = popups /\ n = nextPopup
  OBVIOUS
<1> QED
  BY <1>1 DEF PopupIds

\* A window whose front window stays, and a step that says nothing.
LEMMA SilentMirrors ==
  ASSUME MirrorInv, Still(wm, wm'), UNCHANGED popups, FrontStays, Folds, Silent \/ published' = << >>
  PROVE  Mirrors'
<1>1. mirror' = mirror
  BY MirrorFacts, NothingTells
<1>2. PICK v : v = mirror'
  OBVIOUS
<1> QED
  BY <1>1, <1>2, MirrorFacts, QuietMirrors

LEMMA PopupMirrors ==
  ASSUME MirrorInv, NEW p \in Popups, NEW parent, NewPopup(p, parent), Folds
  PROVE  Mirrors' /\ PopupIds'
<1>1. /\ BridgeInv' /\ Still(wm, wm') /\ Tracked(wm') = Tracked(wm) /\ UNCHANGED << roots, focus >>
      /\ \/ UNCHANGED << wm, popups, nextPopup >> /\ Silent
         \/ \E w \in Tracked(wm) :
              Emit(<< PopupEvent("popup", w, nextPopup) >>) /\ PopupOpened(p, w)
  BY MirrorFacts, NewPopupKeeps, StillTracked DEF NewPopup
<1>2. FrontStays
  BY <1>1, MirrorFacts, SameFocusSameFront
<1>3. CASE UNCHANGED << wm, popups, nextPopup >> /\ Silent
  BY <1>1, <1>2, <1>3, MirrorFacts, SilentMirrors, SamePopupIds
<1>4. ASSUME NEW w \in Tracked(wm), Emit(<< PopupEvent("popup", w, nextPopup) >>), PopupOpened(p, w)
      PROVE  Mirrors' /\ PopupIds'
  <2>1. PICK id, front : id = nextPopup /\ front = mirror.focus
    OBVIOUS
  <2>2. /\ Held' = [Held EXCEPT ![w] = @ \cup {id}] /\ id \notin Held[w] /\ PopupIds'
    BY <1>1, <1>4, <2>1, MirrorFacts, OpenedIsHeld
  <2>3. PICK v : v = mirror' /\ v = Fold(mirror, PopupEvent("popup", w, id))
    BY <1>4, <2>1, MirrorFacts, EventsTell
  <2>4. Shows(v, Commits(wm), [Held EXCEPT ![w] = @ \cup {id}], front)
    <3>1. PICK y, c, held : y = mirror /\ c = Commits(wm) /\ held = Held
      OBVIOUS
    <3>2. w \in DOMAIN c /\ id \notin held[w] /\ Shows(y, c, held, front)
      BY <2>1, <2>2, <3>1, MirrorFacts
    <3>3. Shows(Fold(y, PopupEvent("popup", w, id)), c, [held EXCEPT ![w] = @ \cup {id}], front)
      BY <3>2, PopupTells
    <3> QED
      BY <2>3, <3>1, <3>3
  <2>5. Shows(v, Commits(wm'), Held', front)
    BY <1>1, <2>2, <2>4 DEF Still
  <2>6. Tracked(wm') # {} => front = ActiveWindow(wm')
    BY <1>1, <1>2, <2>1, MirrorFacts DEF FrontStays
  <2> QED
    BY <2>2, <2>3, <2>5, <2>6, MirrorsAgain
<1> QED
  BY <1>1, <1>3, <1>4

LEMMA UntrackMirrors ==
  ASSUME MirrorInv, NEW p \in Popups, Untrack(p), popupObjs \ {p} \subseteq popupObjs',
         UNCHANGED << slots, nextKey, nextPopup, toplevels, roots, appIds, focus >>, Folds
  PROVE  Mirrors' /\ PopupIds'
<1>1. /\ BridgeInv' /\ Still(wm, wm') /\ Tracked(wm') = Tracked(wm)
      /\ \/ UNCHANGED << wm, popups >> /\ Silent
         \/ \E w \in Tracked(wm) :
              Emit(<< PopupEvent("popup_gone", w, popups[p].id) >>) /\ PopupClosed(p, w)
  BY MirrorFacts, UntrackKeeps, StillTracked
<1>2. FrontStays
  BY <1>1, MirrorFacts, SameFocusSameFront
<1>3. CASE UNCHANGED << wm, popups >> /\ Silent
  BY <1>1, <1>2, <1>3, MirrorFacts, SilentMirrors, SamePopupIds
<1>4. ASSUME NEW w \in Tracked(wm), Emit(<< PopupEvent("popup_gone", w, popups[p].id) >>), PopupClosed(p, w)
      PROVE  Mirrors' /\ PopupIds'
  <2>1. PICK id, front : id = popups[p].id /\ front = mirror.focus
    OBVIOUS
  <2>2. /\ Held' = [Held EXCEPT ![w] = @ \ {id}] /\ id \in Held[w] /\ PopupIds'
    BY <1>1, <1>4, <2>1, MirrorFacts, ClosedIsHeld
  <2>3. PICK v : v = mirror' /\ v = Fold(mirror, PopupEvent("popup_gone", w, id))
    BY <1>4, <2>1, MirrorFacts, EventsTell
  <2>4. Shows(v, Commits(wm), [Held EXCEPT ![w] = @ \ {id}], front)
    <3>1. PICK y, c, held : y = mirror /\ c = Commits(wm) /\ held = Held
      OBVIOUS
    <3>2. w \in DOMAIN c /\ id \in held[w] /\ Shows(y, c, held, front)
      BY <2>1, <2>2, <3>1, MirrorFacts
    <3>3. Shows(Fold(y, PopupEvent("popup_gone", w, id)), c, [held EXCEPT ![w] = @ \ {id}], front)
      BY <3>2, PopupTells
    <3> QED
      BY <2>3, <3>1, <3>3
  <2>5. Shows(v, Commits(wm'), Held', front)
    BY <1>1, <2>2, <2>4 DEF Still
  <2>6. Tracked(wm') # {} => front = ActiveWindow(wm')
    BY <1>1, <1>2, <2>1, MirrorFacts DEF FrontStays
  <2> QED
    BY <2>2, <2>3, <2>5, <2>6, MirrorsAgain
<1> QED
  BY <1>1, <1>3, <1>4

LEMMA ActivateMirrors ==
  ASSUME MirrorInv, NEW w, ActivateWindow(w), Folds
  PROVE  Mirrors' /\ PopupIds'
<1>1. /\ Still(wm, wm') /\ w \in Tracked(wm) /\ Tracked(wm') = Tracked(wm) /\ ActiveWindow(wm') = w
      /\ UNCHANGED << popups, nextPopup >>
      /\ \/ Silent /\ ActiveWindow(wm) = w
         \/ \E before \in {KeyboardFocus, NoWindow} :
              Emit(<< Activated(w, before), FocusChanged(w) >>)
  BY MirrorFacts, ActivateWindowKeeps, StillTracked DEF ActivateWindow, bridge
<1>2. PopupIds'
  BY <1>1, MirrorFacts, SamePopupIds
<1>3. CASE Silent /\ ActiveWindow(wm) = w
  BY <1>1, <1>2, <1>3, SilentMirrors DEF FrontStays
<1>4. ASSUME NEW before \in {KeyboardFocus, NoWindow}, Emit(<< Activated(w, before), FocusChanged(w) >>)
      PROVE  Mirrors'
  <2>1. before \in {mirror.focus, NoWindow} /\ w \in DOMAIN Commits(wm)
    BY <1>1, MirrorFacts DEF KeyboardFocus
  <2>2. PICK u, v : u = Fold(mirror, Activated(w, before)) /\ v = Fold(u, FocusChanged(w))
    OBVIOUS
  <2>3. Shows(u, Commits(wm), Held, mirror.focus)
    BY <2>1, <2>2, MirrorFacts, ActivationTells
  <2>4. Shows(v, Commits(wm), Held, w)
    BY <2>1, <2>2, <2>3, ActivationTells
  <2>5. v = mirror'
    BY <1>4, <2>2, MirrorFacts, EventsTell
  <2>6. Commits(wm') = Commits(wm) /\ Held' = Held
    BY <1>1, StillTracked DEF Still
  <2> QED
    BY <1>1, <2>4, <2>5, <2>6, MirrorsAgain
<1> QED
  BY <1>1, <1>2, <1>3, <1>4

LEMMA FirstBufferMirrors ==
  ASSUME MirrorInv, NEW s, FirstBuffer(s), Folds
  PROVE  Mirrors' /\ PopupIds'
<1>1. PICK w : w = wm.nextId
  OBVIOUS
<1>2. /\ w \notin Tracked(wm) /\ Tracked(wm') = Tracked(wm) \cup {w} /\ ActiveWindow(wm') = w
      /\ Commits(wm') = Put(Commits(wm), w, 1) /\ UNCHANGED << popups, nextPopup >>
      /\ \E launch : \E before \in {KeyboardFocus, NoWindow} :
           Emit(<< Created(w, launch), Activated(w, before), FocusChanged(w), Committed(w, 1) >>)
  BY <1>1, MirrorFacts, FirstBufferKeeps DEF FirstBuffer
<1>3. PICK launch, before :
        /\ before \in {KeyboardFocus, NoWindow}
        /\ Emit(<< Created(w, launch), Activated(w, before), FocusChanged(w), Committed(w, 1) >>)
  BY <1>2
<1>4. PICK front : front = mirror.focus
  OBVIOUS
<1>5. before \in {front, NoWindow}
  <2>1. Tracked(wm) = {} => KeyboardFocus = NoWindow
    BY MirrorFacts, ActiveIsTracked DEF KeyboardFocus, BridgeInv
  <2> QED
    BY <1>3, <1>4, <2>1, MirrorFacts DEF KeyboardFocus
<1>6. PICK c, h : c = Put(Commits(wm), w, 0) /\ h = Put(Held, w, {})
  OBVIOUS
<1>7. DOMAIN c = Tracked(wm) \cup {w} /\ c[w] = 0
  BY <1>6, MirrorFacts DEF Put
<1>8. PICK t, u, v, x :
        /\ t = Fold(mirror, Created(w, launch)) /\ u = Fold(t, Activated(w, before))
        /\ v = Fold(u, FocusChanged(w)) /\ x = Fold(v, Committed(w, 1))
  OBVIOUS
<1>9. Shows(t, c, h, front)
  BY <1>2, <1>4, <1>6, <1>8, MirrorFacts, CreatedTells
<1>10. Shows(u, c, h, front)
  BY <1>5, <1>7, <1>8, <1>9, ActivationTells
<1>11. Shows(v, c, h, w)
  <2>1. before \in {front, NoWindow} /\ w \in DOMAIN c
    BY <1>5, <1>7
  <2> QED
    BY <1>8, <1>10, <2>1, ActivationTells
<1>12. Shows(x, [c EXCEPT ![w] = 1], h, w)
  <2>1. w \in DOMAIN c /\ 1 = c[w] + 1 /\ x = Fold(v, Committed(w, 1))
    BY <1>7, <1>8
  <2> QED
    BY <1>11, <2>1, CommittedTells
<1>13. [c EXCEPT ![w] = 1] = Commits(wm')
  BY <1>2, <1>6 DEF Put
<1>14. h = Held'
  <2>1. PICK ps : ps = popups /\ ps = popups'
    BY <1>2
  <2>2. Held = [y \in Tracked(wm) |-> IdsIn(ps, y)]
    BY <2>1, HeldIsIdsIn
  <2>3. Held' = [y \in Tracked(wm) \cup {w} |-> IdsIn(ps, y)]
    BY <1>2, <2>1, HeldIsIdsIn
  <2>4. IdsIn(ps, w) = {}
    BY <1>2, <2>1, MirrorFacts, PopupsOfWindow DEF IdsIn, PopupsOf
  <2>5. PICK held : held = Held
    OBVIOUS
  <2>6. h = [y \in Tracked(wm) \cup {w} |-> IF y = w THEN {} ELSE held[y]]
    BY <1>6, <2>2, <2>5 DEF Put
  <2>7. \A y \in Tracked(wm) : held[y] = IdsIn(ps, y)
    BY <2>2, <2>5
  <2> QED
    BY <1>2, <2>3, <2>4, <2>6, <2>7
<1>15. x = mirror'
  <2>1. PICK d, e, f, g : /\ d = Created(w, launch) /\ e = Activated(w, before)
                          /\ f = FocusChanged(w) /\ g = Committed(w, 1)
    OBVIOUS
  <2>2. PICK list : list = << d, e, f, g >>
    OBVIOUS
  <2>3. Emit(list) /\ x = Fold(Fold(Fold(Fold(mirror, d), e), f), g)
    BY <1>3, <1>8, <2>1, <2>2
  <2>4. mirror' = Fold(Fold(Fold(Fold(mirror, d), e), f), g)
    <3>1. lastSeq \in Nat
      BY MirrorFacts
    <3> QED
      BY <2>2, <2>3, <3>1, FourEventsTell
  <2> QED
    BY <2>3, <2>4
<1>16. Mirrors'
  <2>1. PICK mine, counts, held : mine = mirror' /\ counts = Commits(wm') /\ held = Held'
    OBVIOUS
  <2>2. Shows(mine, counts, held, w)
    BY <1>12, <1>13, <1>14, <1>15, <2>1
  <2>3. Shows(mirror', Commits(wm'), Held', ActiveWindow(wm'))
    BY <1>2, <2>1, <2>2
  <2> QED
    BY <2>3, MirrorsAgain
<1> QED
  BY <1>2, <1>16, MirrorFacts, SamePopupIds

\* A list without repetition of the members of a set.
Lists(id, k, S) ==
  /\ \A i \in 1 .. k : id[i] \in S
  /\ \A i, j \in 1 .. k : id[i] = id[j] => i = j
  /\ \A n \in S : \E i \in 1 .. k : id[i] = n

\* The views g go through the ends of these popups.
PopupsGo(g, k, w, id) ==
  \A i \in 1 .. k : g[i] = Fold(g[i - 1], PopupEvent("popup_gone", w, id[i]))

\* A view that knows no popup of a window any more, and else what it knew.
PopupsGone(v, commits, held, front, w) ==
  \E h : /\ DOMAIN h = DOMAIN commits /\ h[w] = {}
         /\ \A x \in DOMAIN commits \ {w} : h[x] = held[x]
         /\ Shows(v, commits, h, front)

\* Every popup of the window is reported gone, one after the other.
LEMMA PopupsToldGone ==
  ASSUME NEW commits, NEW held, NEW front, NEW w \in DOMAIN commits, NEW k \in Nat, NEW id,
         Lists(id, k, held[w]), NEW g, Shows(g[0], commits, held, front), PopupsGo(g, k, w, id)
  PROVE  PopupsGone(g[k], commits, held, front, w)
<1> DEFINE Left(h, i) ==
      /\ DOMAIN h = DOMAIN commits /\ h[w] = held[w] \ {id[j] : j \in 1 .. i}
      /\ \A x \in DOMAIN commits \ {w} : h[x] = held[x]
      /\ Shows(g[i], commits, h, front)
    S == {i \in 0 .. k : \E h : Left(h, i)}
<1>1. 0 \in S
  <2>1. Left(held, 0)
    BY DEF Shows
  <2> QED
    BY <2>1
<1>2. ASSUME NEW i \in 0 .. k - 1, i \in S PROVE i + 1 \in S
  <2>1. PICK h : Left(h, i)
    BY <1>2
  <2>2. PICK j \in 1 .. k : j = i + 1 /\ j - 1 = i
    OBVIOUS
  <2>3. id[j] \in h[w]
    <3>1. PICK gone : gone = {id[m] : m \in 1 .. i}
      OBVIOUS
    <3>2. \A m \in 1 .. i : m \in 1 .. k /\ m # j
      BY <2>2
    <3>3. \A m \in 1 .. i : id[m] # id[j]
      BY <2>2, <3>2 DEF Lists
    <3>4. h[w] = held[w] \ gone /\ id[j] \in held[w]
      BY <2>1, <2>2, <3>1 DEF Lists
    <3> QED
      BY <3>1, <3>3, <3>4
  <2>4. PICK u, r : u = [h EXCEPT ![w] = @ \ {id[j]}] /\ r = g[i]
    OBVIOUS
  <2>5. g[j] = Fold(r, PopupEvent("popup_gone", w, id[j])) /\ Shows(r, commits, h, front)
    BY <2>1, <2>2, <2>4 DEF PopupsGo
  <2>6. Shows(g[j], commits, u, front)
    <3>1. Shows(Fold(r, PopupEvent("popup_gone", w, id[j])), commits, [h EXCEPT ![w] = @ \ {id[j]}], front)
      BY <2>3, <2>5, PopupTells
    <3> QED
      BY <2>4, <2>5, <3>1
  <2>7. u[w] = held[w] \ {id[m] : m \in 1 .. j}
    <3>1. {id[m] : m \in 1 .. j} = {id[m] : m \in 1 .. i} \cup {id[j]}
      <4>1. PICK A, B : A = 1 .. j /\ B = 1 .. i
        OBVIOUS
      <4>2. A = B \cup {j}
        BY <2>2, <4>1
      <4>3. {id[m] : m \in A} = {id[m] : m \in B} \cup {id[j]}
        BY <4>2
      <4> QED
        BY <4>1, <4>3
    <3>2. u[w] = h[w] \ {id[j]} /\ h[w] = held[w] \ {id[m] : m \in 1 .. i}
      BY <2>1, <2>4
    <3> QED
      BY <3>1, <3>2
  <2>8. DOMAIN u = DOMAIN commits /\ \A x \in DOMAIN commits \ {w} : u[x] = held[x]
    BY <2>1, <2>4
  <2>9. Left(u, j)
    BY <2>6, <2>7, <2>8
  <2> HIDE DEF Left
  <2> QED
    BY <2>2, <2>9
<1>3. \A i \in 0 .. k : i \in S
  <2> HIDE DEF S
  <2> QED
    BY <1>1, <1>2, StepByStep
<1>4. PICK h : Left(h, k)
  BY <1>3
<1>5. h[w] = {}
  <2>1. PICK gone : gone = {id[m] : m \in 1 .. k}
    OBVIOUS
  <2>2. \A n \in held[w] : n \in gone
    BY <2>1 DEF Lists
  <2>3. h[w] = held[w] \ gone
    BY <1>4, <2>1
  <2> QED
    BY <2>2, <2>3
<1> QED
  BY <1>4, <1>5 DEF PopupsGone

\* What the destruction of a window tells, up to the next activation.
LEMMA EndTells ==
  ASSUME MirrorInv, NEW w \in Tracked(wm), NEW T, NEW after \in Seq(T), EndOf(w, after), Folds
  PROVE  \E u : /\ Shows(u, Drop(Commits(wm), {w}), Drop(Held, {w}), mirror.focus)
                /\ Len(after) = 0 => mirror' = u
                /\ Len(after) = 2 => mirror' = Fold(Fold(u, after[1]), after[2])
<1>1. PICK k, id :
        /\ k \in Nat /\ k = Cardinality(PopupsOf(w)) /\ id = IdsTold(w)
        /\ Emit([i \in 1 .. k |-> PopupEvent("popup_gone", w, id[i])] \o << Destroyed(w) >> \o after)
  BY DEF EndOf
<1>2. PICK commits, held, front :
        commits = Commits(wm) /\ held = Held /\ front = mirror.focus
  OBVIOUS
<1>3. /\ Shows(mirror, commits, held, front) /\ lastSeq \in Nat
      /\ DOMAIN commits = Tracked(wm) /\ DOMAIN held = Tracked(wm)
  BY <1>2, MirrorFacts
<1>4. held[w] = IdsOfAll(PopupsOf(w))
  BY <1>2 DEF Held
<1>5. k \in Nat /\ Lists(id, k, held[w])
  <2>1. BridgeInv /\ PopupIds
    BY MirrorFacts
  <2>2. PICK S : S = IdsOfAll(PopupsOf(w))
    OBVIOUS
  <2>3. /\ \A i \in 1 .. k : id[i] \in S
        /\ \A i, j \in 1 .. k : id[i] = id[j] => i = j
        /\ \A n \in S : \E i \in 1 .. k : id[i] = n
    BY <1>1, <2>1, <2>2, EveryPopupIsTold
  <2>4. Lists(id, k, S)
    BY <2>3 DEF Lists
  <2> QED
    BY <1>1, <1>4, <2>2, <2>4
<1>6. PICK f, d, list, m :
        /\ f = [i \in 1 .. k |-> PopupEvent("popup_gone", w, id[i])] /\ d = Destroyed(w)
        /\ list = f \o << d >> \o after /\ m = Len(after)
  OBVIOUS
<1>7. /\ Len(list) = k + 1 + m /\ m \in Nat
      /\ \A i \in 1 .. k : list[i] = f[i]
      /\ list[k + 1] = d /\ \A i \in 1 .. m : list[k + 1 + i] = after[i]
  <2>1. f = [i \in 1 .. k |-> f[i]] /\ m \in Nat
    BY <1>6
  <2> QED
    BY <1>5, <1>6, <2>1, ListEnds
<1>8. PICK n \in Nat : n = k + 1 + m
  BY <1>7
<1>9. k \in Nat /\ m \in Nat /\ n = k + 1 + m
  BY <1>5, <1>7, <1>8
<1>10. Emit(list) /\ Len(list) = n
  BY <1>1, <1>6, <1>7, <1>8
<1>11. PICK g : /\ g[0] = mirror /\ mirror' = g[n]
                /\ \A i \in 1 .. n : g[i] = Fold(g[i - 1], list[i])
  BY <1>3, <1>10, EmitFolds DEF Folds
<1>12. PopupsGo(g, k, w, id)
  <2>1. \A i \in 1 .. k : i \in 1 .. n /\ list[i] = PopupEvent("popup_gone", w, id[i])
    BY <1>5, <1>6, <1>7, <1>8
  <2> QED
    BY <1>11, <2>1 DEF PopupsGo
<1>13. Shows(g[0], commits, held, front) /\ w \in DOMAIN commits
  BY <1>3, <1>11
<1>14. PICK h : /\ DOMAIN h = DOMAIN commits /\ h[w] = {}
                /\ \A x \in DOMAIN commits \ {w} : h[x] = held[x]
                /\ Shows(g[k], commits, h, front)
  <2>1. PopupsGone(g[k], commits, held, front, w)
    BY <1>5, <1>12, <1>13, PopupsToldGone
  <2> QED
    BY <2>1 DEF PopupsGone
<1>15. PICK u : u = Fold(g[k], Destroyed(w))
  OBVIOUS
<1>16. Shows(u, Drop(commits, {w}), Drop(h, {w}), front)
  BY <1>13, <1>14, <1>15, DestroyedTells
<1>17. Drop(h, {w}) = Drop(held, {w})
  BY <1>3, <1>14 DEF Drop
<1>18. u = g[k + 1]
  <2>1. k + 1 \in 1 .. n /\ (k + 1) - 1 = k
    BY <1>9
  <2>2. g[k + 1] = Fold(g[(k + 1) - 1], list[k + 1])
    BY <1>11, <2>1
  <2> QED
    BY <1>6, <1>7, <1>15, <2>1, <2>2
<1>19. ASSUME Len(after) = 0 PROVE mirror' = u
  <2>1. m = 0 /\ n = k + 1
    BY <1>5, <1>6, <1>8, <1>19
  <2> QED
    BY <1>11, <1>18, <2>1
<1>20. ASSUME Len(after) = 2 PROVE mirror' = Fold(Fold(u, after[1]), after[2])
  <2>1. m = 2 /\ k \in Nat
    BY <1>5, <1>6, <1>20
  <2>2. PICK p \in Nat, q \in Nat : p = k + 2 /\ q = k + 3
    BY <2>1
  <2>3. p \in 1 .. n /\ q \in 1 .. n /\ p - 1 = k + 1 /\ q - 1 = p /\ q = n
    BY <1>8, <2>1, <2>2
  <2>4. list[p] = after[1] /\ list[q] = after[2]
    <3>1. 1 \in 1 .. m /\ 2 \in 1 .. m /\ p = k + 1 + 1 /\ q = k + 1 + 2
      BY <2>1, <2>2
    <3> QED
      BY <1>7, <2>1, <3>1
  <2>5. g[p] = Fold(g[p - 1], list[p]) /\ g[q] = Fold(g[q - 1], list[q])
    BY <1>11, <2>3
  <2> QED
    BY <1>11, <1>18, <2>3, <2>4, <2>5
<1>21. Shows(u, Drop(Commits(wm), {w}), Drop(Held, {w}), mirror.focus)
  BY <1>2, <1>16, <1>17
<1> QED
  BY <1>19, <1>20, <1>21

LEMMA EndedIsDropped ==
  ASSUME PopupIds, NEW w, ToplevelEnded(w), UNCHANGED nextPopup
  PROVE  /\ Commits(wm') = Drop(Commits(wm), {w}) /\ Held' = Drop(Held, {w}) /\ PopupIds'
<1>1. PICK ps, qs, n : ps = popups /\ qs = popups' /\ n = nextPopup /\ n = nextPopup'
  OBVIOUS
<1>2. /\ DOMAIN qs = {p \in DOMAIN ps : ps[p].window # w} /\ \A p \in DOMAIN qs : qs[p] = ps[p]
      /\ Tracked(wm') = Tracked(wm) \ {w} /\ Commits(wm') = Drop(Commits(wm), {w})
  BY <1>1 DEF ToplevelEnded
<1>3. ASSUME NEW v \in Tracked(wm) \ {w} PROVE IdsIn(qs, v) = IdsIn(ps, v)
  <2>1. {p \in DOMAIN qs : qs[p].window = v} = {p \in DOMAIN ps : ps[p].window = v}
    BY <1>2
  <2> QED
    BY <1>2, <2>1 DEF IdsIn
<1>4. PICK held, heldNow : held = Held /\ heldNow = Held'
  OBVIOUS
<1>5. /\ held = [v \in Tracked(wm) |-> IdsIn(ps, v)]
      /\ heldNow = [v \in Tracked(wm) \ {w} |-> IdsIn(qs, v)]
  BY <1>1, <1>2, <1>4, HeldIsIdsIn
<1>6. heldNow = Drop(held, {w})
  BY <1>3, <1>5 DEF Drop
<1>7. PopupIds'
  BY <1>1, <1>2 DEF PopupIds
<1> QED
  BY <1>2, <1>4, <1>6, <1>7

LEMMA DestroyMirrors ==
  ASSUME MirrorInv, NEW s, DestroyToplevel(s), Folds
  PROVE  Mirrors' /\ PopupIds'
<1>1. PICK w, front : w = slots[s].window /\ front = mirror.focus
  OBVIOUS
<1>2. ToplevelEnded(w) /\ UNCHANGED nextPopup
  BY <1>1, MirrorFacts, DestroyToplevelKeeps DEF DestroyToplevel
<1>3. PICK c, h : c = Commits(wm') /\ h = Held'
  OBVIOUS
<1>4. c = Drop(Commits(wm), {w}) /\ h = Drop(Held, {w}) /\ PopupIds'
  BY <1>2, <1>3, MirrorFacts, EndedIsDropped
<1>5. Tracked(wm') = Tracked(wm) \ {w}
  BY <1>2 DEF ToplevelEnded
<1>6. CASE w = NoWindow
  <2>1. Silent /\ FrontStays /\ NoWindow \notin Tracked(wm)
    BY <1>2, <1>6, MirrorFacts, ActiveIsTracked DEF ToplevelEnded, BridgeInv
  <2>2. c = Commits(wm) /\ h = Held
    BY <1>4, <1>6, <2>1 DEF Drop, Commits, Held
  <2>3. PICK v : v = mirror' /\ v = mirror
    BY <2>1, MirrorFacts, NothingTells
  <2>4. Shows(v, Commits(wm'), Held', front)
    BY <1>1, <1>3, <2>2, <2>3, MirrorFacts
  <2>5. Tracked(wm') # {} => front = ActiveWindow(wm')
    BY <1>1, <1>5, <2>1, MirrorFacts DEF FrontStays
  <2> QED
    BY <1>4, <2>3, <2>4, <2>5, MirrorsAgain
<1>7. CASE w # NoWindow
  <2>1. w \in Tracked(wm)
    BY <1>2, <1>7 DEF ToplevelEnded
  <2>2. CASE EndOf(w, << >>) /\ FrontStays
    <3>1. << >> \in Seq({}) /\ Len(<< >>) = 0
      OBVIOUS
    <3>2. PICK v : Shows(v, c, h, front) /\ mirror' = v
      BY <1>1, <1>4, <2>1, <2>2, <3>1, EndTells
    <3>3. Tracked(wm') # {} => front = ActiveWindow(wm')
      BY <1>1, <1>5, <2>2, MirrorFacts DEF FrontStays
    <3> QED
      BY <1>3, <1>4, <3>2, <3>3, MirrorsAgain
  <2>3. ASSUME NEW v \in Tracked(wm'), v = ActiveWindow(wm'),
               EndOf(w, << Activated(v, NoWindow), FocusChanged(v) >>)
        PROVE  Mirrors'
    <3>1. PICK a, b, after : a = Activated(v, NoWindow) /\ b = FocusChanged(v) /\ after = << a, b >>
      OBVIOUS
    <3>2. after \in Seq({a, b}) /\ EndOf(w, after)
      BY <2>3, <3>1
    <3>3. PICK u : Shows(u, c, h, front) /\ mirror' = Fold(Fold(u, a), b)
      <4>1. Len(after) = 2 /\ after[1] = a /\ after[2] = b
        BY <3>1
      <4> QED
        BY <1>1, <1>4, <2>1, <3>2, <4>1, EndTells
    <3>4. v \in DOMAIN c
      BY <1>3 DEF Commits
    <3>5. PICK t, x : t = Fold(u, Activated(v, NoWindow)) /\ x = Fold(t, FocusChanged(v))
      OBVIOUS
    <3>6. Shows(t, c, h, front)
      BY <3>3, <3>4, <3>5, ActivationTells
    <3>7. Shows(x, c, h, v)
      BY <3>4, <3>5, <3>6, ActivationTells
    <3> QED
      BY <1>3, <2>3, <3>1, <3>3, <3>5, <3>7, MirrorsAgain
  <2> QED
    BY <1>2, <1>4, <1>7, <2>2, <2>3 DEF ToplevelEnded
<1> QED
  BY <1>6, <1>7

-----------------------------------------------------------------------------
(* The subscriber mirrors the state.                                       *)

\* What the source of the events keeps, it keeps beside the subscriber as well.
LEMMA SourceStays == ASSUME SourceInv, [Next]_vars PROVE SourceInv'
BY SourceStep, BridgeIsKept, NumbersAreKept DEF SourceInv

\* Handlers that touch neither window model nor popups, and say nothing.
LEMMA IdleMirrors ==
  ASSUME MirrorInv, Folds, Silent \/ published' = << >>, UNCHANGED << wm, popups, nextPopup >>
  PROVE  Mirrors' /\ PopupIds'
<1>1. Still(wm, wm') /\ FrontStays
  BY DEF Still, FrontStays
<1> QED
  BY <1>1, MirrorFacts, SilentMirrors, SamePopupIds

LEMMA AppIdMirrors ==
  ASSUME MirrorInv, BridgeInv', NEW s, NEW app, SetAppId(s, app), Folds
  PROVE  Mirrors' /\ PopupIds'
<1>1. Still(wm, wm') /\ Silent /\ UNCHANGED << popups, nextPopup, roots, focus >>
  BY MirrorFacts, SetAppIdKeeps DEF SetAppId, bridge
<1>2. Tracked(wm') = Tracked(wm)
  BY <1>1, StillTracked
<1>3. FrontStays
  BY <1>1, <1>2, MirrorFacts, SameFocusSameFront
<1> QED
  BY <1>1, <1>3, MirrorFacts, SilentMirrors, SamePopupIds

LEMMA SubscriberStep ==
  ASSUME MirrorInv, Next, Folds
  PROVE  MirrorInv'
<1>1. SourceInv'
  BY SourceStays DEF MirrorInv
<1>2. BridgeInv' /\ PopupIds
  BY <1>1 DEF SourceInv, MirrorInv
<1>3. ASSUME NEW s \in Toplevels, NewToplevel(s) PROVE Mirrors' /\ PopupIds'
  BY <1>3, IdleMirrors DEF NewToplevel
<1>4. ASSUME NEW s \in Toplevels, FirstBuffer(s) PROVE Mirrors' /\ PopupIds'
  BY <1>4, FirstBufferMirrors
<1>5. ASSUME NEW s \in Toplevels, DestroyToplevel(s) PROVE Mirrors' /\ PopupIds'
  BY <1>5, DestroyMirrors
<1>6. ASSUME NEW s \in Toplevels, NEW title \in Titles, SetTitle(s, title) PROVE Mirrors' /\ PopupIds'
  <2>1. Mirrors'
    BY <1>2, <1>6, TitleMirrors
  <2>2. UNCHANGED << popups, nextPopup >>
    BY <1>6 DEF SetTitle, bridge
  <2> QED
    BY <1>2, <2>1, <2>2, SamePopupIds
<1>7. ASSUME NEW s \in Toplevels, NEW app \in Apps, SetAppId(s, app) PROVE Mirrors' /\ PopupIds'
  BY <1>2, <1>7, AppIdMirrors
<1>8. ASSUME NEW s \in Toplevels \cup Popups, SurfaceCommit(s) PROVE Mirrors' /\ PopupIds'
  <2>1. Mirrors'
    BY <1>2, <1>8, CommitMirrors
  <2>2. UNCHANGED << popups, nextPopup >>
    BY <1>8 DEF SurfaceCommit, bridge
  <2> QED
    BY <1>2, <2>1, <2>2, SamePopupIds
<1>9. ASSUME NEW p \in Popups, NEW parent \in Toplevels \cup Popups, NewPopup(p, parent)
      PROVE  Mirrors' /\ PopupIds'
  BY <1>9, PopupMirrors
<1>10. ASSUME NEW p \in Popups, GrabPopup(p) PROVE Mirrors' /\ PopupIds'
  BY <1>10, IdleMirrors DEF GrabPopup, bridge
<1>11. ASSUME NEW p \in Popups, DestroyPopup(p) \/ DismissPopup(p) PROVE Mirrors' /\ PopupIds'
  <2>1. /\ Untrack(p) /\ popupObjs \ {p} \subseteq popupObjs'
        /\ UNCHANGED << slots, nextKey, nextPopup, toplevels, roots, appIds, focus >>
    BY <1>11 DEF DestroyPopup, DismissPopup, launchVars, client
  <2> QED
    BY <2>1, UntrackMirrors
<1>12. ASSUME NEW w \in Ids, ActivateWindow(w) PROVE Mirrors' /\ PopupIds'
  BY <1>12, ActivateMirrors
<1>13. ASSUME NoteLaunch PROVE Mirrors' /\ PopupIds'
  BY <1>13, IdleMirrors DEF NoteLaunch, bridge
<1>14. ASSUME LaunchTimeout PROVE Mirrors' /\ PopupIds'
  BY <1>14, IdleMirrors DEF LaunchTimeout, bridge
<1>15. ASSUME ReserveSeq PROVE Mirrors' /\ PopupIds'
  BY <1>15, IdleMirrors DEF ReserveSeq, bridge
<1>16. Mirrors' /\ PopupIds'
  BY <1>3, <1>4, <1>5, <1>6, <1>7, <1>8, <1>9, <1>10, <1>11, <1>12, <1>13, <1>14, <1>15 DEF Next
<1> QED
  BY <1>1, <1>16 DEF MirrorInv

\* Nothing of it changes when nothing happens.
LEMMA SubscriberStutters == ASSUME MirrorInv, UNCHANGED subscriberVars PROVE MirrorInv'
<1>1. UNCHANGED vars /\ UNCHANGED << wm, popups, nextPopup, mirror >>
  BY DEF subscriberVars, vars, bridge
<1>2. SourceInv' /\ PopupIds'
  BY <1>1, MirrorFacts, SourceStays, SamePopupIds DEF MirrorInv
<1>3. Held' = Held /\ Commits(wm') = Commits(wm)
  BY <1>1, HeldIsIdsIn
<1>4. PICK v : v = mirror' /\ v = mirror
  BY <1>1
<1>5. Shows(v, Commits(wm'), Held', v.focus) /\ (Tracked(wm') # {} => v.focus = ActiveWindow(wm'))
  BY <1>1, <1>3, <1>4, MirrorFacts
<1> QED
  BY <1>2, <1>4, <1>5 DEF MirrorInv, Mirrors

LEMMA SubscriberStarts == ASSUME SubscriberInit PROVE MirrorInv
<1>1. /\ Init /\ wm.nextId = 1 /\ lastSeq = 0 /\ nextPopup = 1
      /\ Tracked(wm) = {} /\ DOMAIN popups = {}
  BY DEF SubscriberInit, Init, EmptyModel, NoEntries, Tracked
<1>2. SourceInv
  BY <1>1, BridgeHoldsInitially, CompositorAssumption DEF SourceInv, NumbersTyped
<1>3. PopupIds
  BY <1>1 DEF PopupIds
<1>4. /\ DOMAIN mirror = {"windows", "focus", "sane"} /\ mirror.sane = TRUE
      /\ DOMAIN mirror.windows = {}
  BY DEF SubscriberInit, NoEntries
<1>5. DOMAIN Commits(wm) = {} /\ DOMAIN Held = {}
  BY <1>1 DEF Commits, Held
<1>6. Shows(mirror, Commits(wm), Held, mirror.focus)
  BY <1>4, <1>5 DEF Shows
<1> QED
  BY <1>1, <1>2, <1>3, <1>6 DEF MirrorInv, Mirrors

(***************************************************************************)
(* A subscriber that only folds the events it is sent knows every window,  *)
(* its commit counter, its popups and the focus at any time, and never is  *)
(* sent an event that makes no sense to it: whatever windows, popups and   *)
(* activations there are, however many.                                    *)
(***************************************************************************)
THEOREM SubscribersMirrorTheState == SubscriberSpec => []SubscriberMirrorsState
<1>1. SubscriberInit => MirrorInv
  BY SubscriberStarts
<1>2. MirrorInv /\ [SubscriberNext]_subscriberVars => MirrorInv'
  BY SubscriberStep, SubscriberStutters DEF SubscriberNext, Folds
<1>3. MirrorInv => SubscriberMirrorsState
  <2> SUFFICES ASSUME MirrorInv PROVE SubscriberMirrorsState
    OBVIOUS
  <2>1. Shows(mirror, Commits(wm), Held, mirror.focus) /\ (Tracked(wm) # {} => mirror.focus = ActiveWindow(wm))
    BY MirrorFacts
  <2>2. DOMAIN Commits(wm) = Tracked(wm)
    BY MirrorFacts
  <2>3. ASSUME NEW w \in Tracked(wm)
        PROVE  /\ mirror.windows[w].commits = wm.records[w].lastCommitSeq
               /\ mirror.windows[w].popups = {popups[p].id : p \in PopupsOf(w)}
    BY <2>1, <2>2 DEF Shows, Commits, Held, IdsOfAll
  <2>4. mirror.sane /\ DOMAIN mirror.windows = Tracked(wm)
    BY <2>1, <2>2 DEF Shows
  <2> QED
    BY <2>1, <2>3, <2>4 DEF SubscriberMirrorsState
<1> QED
  BY <1>1, <1>2, <1>3, PTL DEF SubscriberSpec
=============================================================================
