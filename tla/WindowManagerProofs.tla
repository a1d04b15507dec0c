------------------------ MODULE WindowManagerProofs ------------------------
(***************************************************************************)
(* The window manager's type correctness and safety for every set of       *)
(* surface keys, rects and names and every bound.  One lemma per policy    *)
(* operator shows that it keeps a model well formed, and what it does to   *)
(* the active window; the invariant of the machine follows.                *)
(***************************************************************************)
EXTENDS WindowManager, MapsTheorems

-----------------------------------------------------------------------------
(* Well-formed models.                                                     *)

\* TypeOK and RepresentationsAgree, as statements about any model.
Shape(m) ==
  /\ DOMAIN m = {"records", "mru", "nextId", "rect"}
  /\ m.nextId \in Nat \ {0}
  /\ Tracked(m) \subseteq 1 .. m.nextId - 1
  /\ m.records \in [Tracked(m) -> Record]
  /\ m.mru \in Seq(Tracked(m))
  /\ m.rect \in Rects

Agree(m) ==
  /\ NoDup(m.mru) /\ Elems(m.mru) = Tracked(m)
  /\ \A w \in Tracked(m) : m.records[w].state = "active" <=> w = ActiveWindow(m)

WellFormed(m) == Shape(m) /\ Agree(m)

\* The front of the MRU list names a tracked window as soon as there is one.
LEMMA ActiveIsTracked ==
  ASSUME NEW m, WellFormed(m)
  PROVE  /\ ActiveWindow(m) = NoWindow <=> m.mru = << >>
         /\ m.mru = << >> <=> Tracked(m) = {}
         /\ m.mru # << >> => ActiveWindow(m) = m.mru[1] /\ m.mru[1] \in Tracked(m)
         /\ Tracked(m) \subseteq Nat
<1>1. Tracked(m) \subseteq Nat /\ m.mru \in Seq(Tracked(m)) /\ Elems(m.mru) = Tracked(m)
  BY DEF WellFormed, Shape, Agree
<1>2. m.mru # << >> => 1 \in 1 .. Len(m.mru) /\ m.mru[1] \in Tracked(m)
  BY <1>1
<1>3. m.mru = << >> => Tracked(m) = {}
  BY <1>1 DEF Elems
<1> QED
  BY <1>1, <1>2, <1>3, PolicyAssumption DEF ActiveWindow

\* mark_active keeps the records typed and makes exactly one of them Active.
LEMMA MarkActiveProperties ==
  ASSUME NEW D, NEW records \in [D -> Record], NEW id
  PROVE  /\ MarkActive(records, id) \in [D -> Record]
         /\ \A w \in D : MarkActive(records, id)[w].state = "active" <=> w = id
         /\ \A w \in D : MarkActive(records, id)[w].geometry = records[w].geometry
BY DEF MarkActive, Record

-----------------------------------------------------------------------------
(* The policy operators.                                                   *)

\* on_map: a fresh window becomes the active one and is configured.
LEMMA MapKeepsWellFormed ==
  ASSUME NEW m, WellFormed(m), NEW req \in Requests, WindowsOfKey(m, req.key) = {}
  PROVE  /\ WellFormed(OnMap(m, req).model)
         /\ m.nextId \notin Tracked(m) /\ m.nextId \in Nat
         /\ Tracked(OnMap(m, req).model) = Tracked(m) \cup {m.nextId}
         /\ ActiveWindow(OnMap(m, req).model) = m.nextId
         /\ \A w \in Tracked(m) :
              OnMap(m, req).model.records[w].geometry = m.records[w].geometry
         /\ OnMap(m, req).model.records[m.nextId].geometry = m.rect
<1>0. PICK id, mru, T : id = m.nextId /\ mru = m.mru /\ T = Tracked(m) \cup {id}
  OBVIOUS
<1> DEFINE n == OnMap(m, req).model
           put == Put(m.records, id, NewRecord(m, req))
<1>1. /\ DOMAIN m = {"records", "mru", "nextId", "rect"} /\ id \in Nat \ {0}
      /\ Tracked(m) \subseteq 1 .. id - 1 /\ m.records \in [Tracked(m) -> Record]
      /\ mru \in Seq(Tracked(m)) /\ m.rect \in Rects
      /\ NoDup(mru) /\ Elems(mru) = Tracked(m)
  BY <1>0 DEF WellFormed, Shape, Agree
<1>2. n = [m EXCEPT !.records = MarkActive(put, id), !.mru = Cons(id, @), !.nextId = @ + 1]
  BY <1>0 DEF OnMap
<1>3. id \notin Tracked(m)
  BY <1>1
<1>4. NewRecord(m, req) \in Record /\ NewRecord(m, req).geometry = m.rect
  BY <1>1, PolicyAssumption DEF NewRecord, Record, Requests
<1>5. put \in [T -> Record] /\ put[id] = NewRecord(m, req)
      /\ \A w \in Tracked(m) : put[w] = m.records[w]
  BY <1>0, <1>1, <1>3, <1>4 DEF Put, Tracked
<1>6. /\ MarkActive(put, id) \in [T -> Record]
      /\ \A w \in T : MarkActive(put, id)[w].state = "active" <=> w = id
      /\ \A w \in T : MarkActive(put, id)[w].geometry = put[w].geometry
  BY <1>5, MarkActiveProperties
<1>7. mru \in Seq(T) /\ id \in T
  BY <1>0, <1>1
<1>8. /\ Cons(id, mru) \in Seq(T) /\ NoDup(Cons(id, mru))
      /\ Elems(Cons(id, mru)) = T /\ Cons(id, mru)[1] = id
      /\ Len(Cons(id, mru)) = Len(mru) + 1
  <2>1. Cons(id, mru) \in Seq(T) /\ Cons(id, mru)[1] = id
    BY <1>7, ConsProperties
  <2>2. Len(Cons(id, mru)) = Len(mru) + 1
    BY <1>7, ConsProperties
  <2>3. Elems(Cons(id, mru)) = Elems(mru) \cup {id}
    BY <1>7, ConsProperties
  <2>4. NoDup(Cons(id, mru))
    BY <1>1, <1>3, <1>7, ConsProperties
  <2> QED
    BY <1>0, <1>1, <2>1, <2>2, <2>3, <2>4
<1>9. /\ n.records = MarkActive(put, id) /\ n.mru = Cons(id, mru)
      /\ n.nextId = id + 1 /\ n.rect = m.rect
      /\ DOMAIN n = {"records", "mru", "nextId", "rect"}
  BY <1>0, <1>1, <1>2
<1>10. Tracked(n) = T
  BY <1>6, <1>9 DEF Tracked
<1>11. n.mru # << >> /\ ActiveWindow(n) = id
  BY <1>1, <1>8, <1>9 DEF ActiveWindow
<1>12. Shape(n)
  BY <1>0, <1>1, <1>6, <1>8, <1>9, <1>10 DEF Shape
<1>13. Agree(n)
  BY <1>6, <1>8, <1>9, <1>10, <1>11 DEF Agree
<1> QED
  BY <1>0, <1>1, <1>3, <1>4, <1>5, <1>6, <1>9, <1>10, <1>11, <1>12, <1>13 DEF WellFormed

\* on_destroy: the window is gone, the fallback is the first that remains.
LEMMA DestroyKeepsWellFormed ==
  ASSUME NEW m, WellFormed(m), NEW id \in Tracked(m)
  PROVE  /\ WellFormed(OnDestroy(m, id).model)
         /\ Tracked(OnDestroy(m, id).model) = Tracked(m) \ {id}
         /\ \A w \in Tracked(m) \ {id} :
              OnDestroy(m, id).model.records[w].geometry = m.records[w].geometry
         /\ \/ /\ OnDestroy(m, id).actions = << >>
               /\ OnDestroy(m, id).model.mru # << >> =>
                    ActiveWindow(OnDestroy(m, id).model) = ActiveWindow(m)
            \/ OnDestroy(m, id).actions =
                 << ActivatePrevious(ActiveWindow(OnDestroy(m, id).model)) >>
<1>0. PICK mru, records, T :
        mru = m.mru /\ records = m.records /\ T = Tracked(m) \ {id}
  OBVIOUS
<1> DEFINE left == [m EXCEPT !.records = Drop(@, {id}), !.mru = Without(@, id)]
           fallback == ActiveWindow(left)
           r == OnDestroy(m, id)
<1>1. /\ DOMAIN m = {"records", "mru", "nextId", "rect"} /\ m.nextId \in Nat \ {0}
      /\ Tracked(m) \subseteq 1 .. m.nextId - 1 /\ records \in [Tracked(m) -> Record]
      /\ mru \in Seq(Tracked(m)) /\ m.rect \in Rects
      /\ NoDup(mru) /\ Elems(mru) = Tracked(m)
  BY <1>0 DEF WellFormed, Shape, Agree
<1>2. /\ left.records = Drop(records, {id}) /\ left.mru = Without(mru, id)
      /\ left.nextId = m.nextId /\ left.rect = m.rect
      /\ DOMAIN left = {"records", "mru", "nextId", "rect"}
  BY <1>0, <1>1
<1>3. Drop(records, {id}) \in [T -> Record] /\ \A w \in T : Drop(records, {id})[w] = records[w]
  BY <1>0, <1>1 DEF Drop
<1>4. /\ Without(mru, id) \in Seq(T) /\ NoDup(Without(mru, id))
      /\ Elems(Without(mru, id)) = T
  <2>1. Without(mru, id) \in Seq(Tracked(m) \ {id}) /\ NoDup(Without(mru, id))
    BY <1>1, WithoutProperties
  <2>2. Elems(Without(mru, id)) = Elems(mru) \ {id}
    BY <1>1, WithoutProperties
  <2>3. Tracked(m) \ {id} = T /\ Elems(mru) \ {id} = T
    BY <1>0, <1>1
  <2> QED
    BY <2>1, <2>2, <2>3
<1>5. Tracked(left) = T
  BY <1>2, <1>3 DEF Tracked
<1>6. Shape(left)
  BY <1>0, <1>1, <1>2, <1>3, <1>4, <1>5 DEF Shape
<1>7. mru # << >> /\ ActiveWindow(m) = mru[1] /\ mru[1] \in Tracked(m)
  BY <1>0, ActiveIsTracked
<1>8. fallback = NoWindow <=> left.mru = << >>
  <2>1. left.mru # << >> => left.mru[1] \in T
    BY <1>2, <1>4
  <2> QED
    BY <2>1, <1>0, <1>1, PolicyAssumption DEF ActiveWindow
<1>9. CASE ActiveWindow(m) # id \/ fallback = NoWindow
  <2>1. r = [model |-> left, actions |-> << >>]
    BY <1>9 DEF OnDestroy
  <2>2. left.mru # << >> => ActiveWindow(left) = ActiveWindow(m)
    <3>1. ASSUME left.mru # << >>
          PROVE  Without(mru, id)[1] = mru[1]
      <4>1. mru[1] # id /\ Len(mru) > 0
        BY <1>1, <1>7, <1>8, <1>9, <3>1
      <4> QED
        BY <4>1, <1>1, WithoutProperties
    <3> QED
      BY <3>1, <1>2, <1>7 DEF ActiveWindow
  <2>3. Agree(left)
    <3>1. ASSUME NEW w \in T
          PROVE  left.records[w].state = "active" <=> w = ActiveWindow(left)
      <4>1. left.records[w].state = "active" <=> w = ActiveWindow(m)
        BY <1>0, <1>2, <1>3, <3>1 DEF WellFormed, Agree
      <4>2. left.mru # << >>
        BY <1>2, <1>4, <3>1 DEF Elems
      <4> QED
        BY <4>1, <4>2, <2>2
    <3> QED
      BY <3>1, <1>2, <1>4, <1>5 DEF Agree
  <2>4. \A w \in Tracked(m) \ {id} : left.records[w].geometry = m.records[w].geometry
    BY <1>0, <1>2, <1>3
  <2>5. r.model = left /\ r.actions = << >>
    BY <2>1
  <2> HIDE DEF left, r
  <2>6. WellFormed(r.model) /\ Tracked(r.model) = Tracked(m) \ {id}
    BY <2>3, <2>5, <1>0, <1>5, <1>6 DEF WellFormed
  <2>7. \A w \in Tracked(m) \ {id} : r.model.records[w].geometry = m.records[w].geometry
    BY <2>4, <2>5
  <2>8. r.model.mru # << >> => ActiveWindow(r.model) = ActiveWindow(m)
    BY <2>2, <2>5
  <2> QED
    BY <2>5, <2>6, <2>7, <2>8 DEF r
<1>10. CASE ~(ActiveWindow(m) # id \/ fallback = NoWindow)
  <2> DEFINE n == [left EXCEPT !.records = MarkActive(@, fallback)]
  <2>1. r = [model |-> n, actions |-> << ActivatePrevious(fallback) >>]
    BY <1>10 DEF OnDestroy
  <2>2. /\ n.records = MarkActive(left.records, fallback) /\ n.mru = left.mru
        /\ n.nextId = m.nextId /\ n.rect = m.rect
        /\ DOMAIN n = {"records", "mru", "nextId", "rect"}
    BY <1>2
  <2>3. left.records \in [T -> Record]
    BY <1>2, <1>3
  <2>4. /\ n.records \in [T -> Record]
        /\ \A w \in T : n.records[w].state = "active" <=> w = fallback
        /\ \A w \in T : n.records[w].geometry = left.records[w].geometry
    BY <2>2, <2>3, MarkActiveProperties
  <2>5. Tracked(n) = T /\ ActiveWindow(n) = fallback
    BY <2>2, <2>4 DEF Tracked, ActiveWindow
  <2>6. Shape(n)
    BY <1>0, <1>1, <1>2, <1>4, <2>2, <2>4, <2>5 DEF Shape
  <2>7. Agree(n)
    BY <1>2, <1>4, <2>2, <2>4, <2>5 DEF Agree
  <2>8. \A w \in Tracked(m) \ {id} : n.records[w].geometry = m.records[w].geometry
    BY <2>4, <1>0, <1>2, <1>3
  <2>9. r.model = n /\ r.actions = << ActivatePrevious(fallback) >>
    BY <2>1
  <2> HIDE DEF n, left, r, fallback
  <2>10. WellFormed(r.model) /\ Tracked(r.model) = Tracked(m) \ {id}
    BY <2>5, <2>6, <2>7, <2>9, <1>0 DEF WellFormed
  <2>11. \A w \in Tracked(m) \ {id} : r.model.records[w].geometry = m.records[w].geometry
    BY <2>8, <2>9
  <2>12. r.actions = << ActivatePrevious(ActiveWindow(r.model)) >>
    BY <2>5, <2>9
  <2> QED
    BY <2>10, <2>11, <2>12 DEF r
<1> QED
  BY <1>9, <1>10

\* activate: a tracked window moves to the front.
LEMMA ActivateKeepsWellFormed ==
  ASSUME NEW m, WellFormed(m), NEW id \in Tracked(m), ActiveWindow(m) # id
  PROVE  /\ WellFormed(OnActivate(m, id).model)
         /\ Tracked(OnActivate(m, id).model) = Tracked(m)
         /\ ActiveWindow(OnActivate(m, id).model) = id
         /\ OnActivate(m, id).actions = << Activate(id) >>
         /\ \A w \in Tracked(m) :
              OnActivate(m, id).model.records[w].geometry = m.records[w].geometry
<1>0. PICK mru, records, rest, T :
        mru = m.mru /\ records = m.records /\ rest = Without(m.mru, id) /\ T = Tracked(m)
  OBVIOUS
<1> DEFINE n == OnActivate(m, id).model
<1>1. /\ DOMAIN m = {"records", "mru", "nextId", "rect"} /\ m.nextId \in Nat \ {0}
      /\ T \subseteq 1 .. m.nextId - 1 /\ records \in [T -> Record]
      /\ mru \in Seq(T) /\ m.rect \in Rects
      /\ NoDup(mru) /\ Elems(mru) = T /\ id \in T
  BY <1>0 DEF WellFormed, Shape, Agree
<1>2. n = [m EXCEPT !.records = MarkActive(@, id), !.mru = Cons(id, Without(@, id))]
      /\ OnActivate(m, id).actions = << Activate(id) >>
  BY DEF OnActivate
<1>3. /\ n.records = MarkActive(records, id) /\ n.mru = Cons(id, rest)
      /\ n.nextId = m.nextId /\ n.rect = m.rect
      /\ DOMAIN n = {"records", "mru", "nextId", "rect"}
  BY <1>0, <1>1, <1>2
<1>4. rest \in Seq(T \ {id}) /\ NoDup(rest) /\ Elems(rest) = T \ {id}
  <2>1. Without(mru, id) \in Seq(T \ {id}) /\ NoDup(Without(mru, id))
    BY <1>1, WithoutProperties
  <2>2. Elems(Without(mru, id)) = Elems(mru) \ {id}
    BY <1>1, WithoutProperties
  <2>3. rest = Without(mru, id) /\ Elems(mru) \ {id} = T \ {id}
    BY <1>0, <1>1
  <2> QED
    BY <2>1, <2>2, <2>3
<1>5. rest \in Seq(T) /\ id \notin Elems(rest)
  <2>1. rest \in [1 .. Len(rest) -> T \ {id}] /\ Len(rest) \in Nat
    BY <1>4
  <2>2. rest \in [1 .. Len(rest) -> T]
    BY <2>1
  <2> QED
    BY <2>1, <2>2, <1>4
<1>6. /\ n.mru \in Seq(T) /\ n.mru[1] = id /\ Len(n.mru) = Len(rest) + 1
      /\ NoDup(n.mru) /\ Elems(n.mru) = T
  <2>1. Cons(id, rest) \in Seq(T) /\ Cons(id, rest)[1] = id
    BY <1>1, <1>5, ConsProperties
  <2>2. Len(Cons(id, rest)) = Len(rest) + 1
    BY <1>1, <1>5, ConsProperties
  <2>3. Elems(Cons(id, rest)) = Elems(rest) \cup {id}
    BY <1>1, <1>5, ConsProperties
  <2>4. NoDup(Cons(id, rest))
    BY <1>1, <1>4, <1>5, ConsProperties
  <2> QED
    BY <1>1, <1>3, <1>4, <2>1, <2>2, <2>3, <2>4
<1>7. /\ n.records \in [T -> Record]
      /\ \A w \in T : n.records[w].state = "active" <=> w = id
      /\ \A w \in T : n.records[w].geometry = records[w].geometry
  <2>1. /\ MarkActive(records, id) \in [T -> Record]
        /\ \A w \in T : MarkActive(records, id)[w].state = "active" <=> w = id
        /\ \A w \in T : MarkActive(records, id)[w].geometry = records[w].geometry
    <3>1. records \in [T -> Record]
      BY <1>1
    <3> HIDE DEF n
    <3> QED
      BY ONLY <3>1, MarkActiveProperties
  <2> HIDE DEF n
  <2> QED
    BY <2>1, <1>3
<1>8. Tracked(n) = T
  BY <1>7 DEF Tracked
<1>9. n.mru # << >> /\ ActiveWindow(n) = id
  BY <1>5, <1>6 DEF ActiveWindow
<1>10. Shape(n)
  BY <1>1, <1>3, <1>6, <1>7, <1>8 DEF Shape
<1>11. Agree(n)
  BY <1>6, <1>7, <1>8, <1>9 DEF Agree
<1> QED
  BY <1>0, <1>2, <1>7, <1>8, <1>9, <1>10, <1>11 DEF WellFormed

\* What a call that returns no action leaves as it was.
SameFace(m, n) ==
  /\ WellFormed(n)
  /\ Tracked(n) = Tracked(m)
  /\ ActiveWindow(n) = ActiveWindow(m)
  /\ \A w \in Tracked(m) : n.records[w].geometry = m.records[w].geometry

\* record_mut: a record keeps its geometry and state whatever else changes.
LEMMA RecordUpdateKeepsFace ==
  ASSUME NEW m, WellFormed(m), NEW id \in Tracked(m), NEW rec \in Record,
         rec.state = m.records[id].state, rec.geometry = m.records[id].geometry
  PROVE  SameFace(m, [m EXCEPT !.records[id] = rec])
<1> DEFINE n == [m EXCEPT !.records[id] = rec]
<1>1. /\ DOMAIN m = {"records", "mru", "nextId", "rect"}
      /\ m.records \in [Tracked(m) -> Record]
  BY DEF WellFormed, Shape
<1>2. /\ n.records = [m.records EXCEPT ![id] = rec] /\ n.mru = m.mru
      /\ n.nextId = m.nextId /\ n.rect = m.rect
      /\ DOMAIN n = {"records", "mru", "nextId", "rect"}
  BY <1>1
<1> HIDE DEF n
<1>3. n.records \in [Tracked(m) -> Record]
  BY <1>1, <1>2
<1>4. Tracked(n) = Tracked(m) /\ ActiveWindow(n) = ActiveWindow(m)
  BY <1>2, <1>3 DEF Tracked, ActiveWindow
<1>5. \A w \in Tracked(m) : /\ n.records[w].state = m.records[w].state
                            /\ n.records[w].geometry = m.records[w].geometry
  BY <1>1, <1>2
<1>6. Shape(n)
  BY <1>2, <1>3, <1>4 DEF WellFormed, Shape
<1>7. Agree(n)
  BY <1>2, <1>4, <1>5 DEF WellFormed, Agree
<1> QED
  BY <1>4, <1>5, <1>6, <1>7 DEF SameFace, WellFormed, n

\* on_title, on_app_id, on_commit, on_popup_added and on_popup_removed.
LEMMA QuietOperators ==
  ASSUME NEW m, WellFormed(m), NEW id
  PROVE  /\ \A name \in Names : SameFace(m, OnTitle(m, id, name))
         /\ \A name \in Names : SameFace(m, OnAppId(m, id, name))
         /\ \A commitSeq \in Nat : SameFace(m, OnCommit(m, id, commitSeq))
         /\ SameFace(m, OnPopupAdded(m, id))
         /\ SameFace(m, OnPopupRemoved(m, id))
<1>1. CASE id \notin Tracked(m)
  <2>1. SameFace(m, m)
    BY DEF SameFace
  <2> QED
    BY <1>1, <2>1 DEF OnTitle, OnAppId, OnCommit, OnPopupAdded, OnPopupRemoved, Update
<1>2. CASE id \in Tracked(m)
  <2>0. PICK rec : rec = m.records[id]
    OBVIOUS
  <2>1. /\ rec \in Record
        /\ m.records \in [Tracked(m) -> Record]
        /\ DOMAIN m = {"records", "mru", "nextId", "rect"}
    BY <1>2, <2>0 DEF WellFormed, Shape
  <2>2. ASSUME NEW r \in Record, r.state = rec.state, r.geometry = rec.geometry
        PROVE  SameFace(m, [m EXCEPT !.records[id] = r])
    BY <1>2, <2>0, <2>2, RecordUpdateKeepsFace
  <2>3. ASSUME NEW name \in Names
        PROVE  SameFace(m, OnTitle(m, id, name)) /\ SameFace(m, OnAppId(m, id, name))
    <3>1. /\ [rec EXCEPT !.title = name] \in Record
          /\ [rec EXCEPT !.title = name].state = rec.state
          /\ [rec EXCEPT !.title = name].geometry = rec.geometry
          /\ [rec EXCEPT !.app = name] \in Record
          /\ [rec EXCEPT !.app = name].state = rec.state
          /\ [rec EXCEPT !.app = name].geometry = rec.geometry
      BY <2>1, <2>3 DEF Record
    <3>2. /\ SameFace(m, [m EXCEPT !.records[id] = [rec EXCEPT !.title = name]])
          /\ SameFace(m, [m EXCEPT !.records[id] = [rec EXCEPT !.app = name]])
      BY <2>2, <3>1
    <3> QED
      BY <1>2, <2>0, <3>2 DEF OnTitle, OnAppId, Update
  <2>4. ASSUME NEW commitSeq \in Nat
        PROVE  SameFace(m, OnCommit(m, id, commitSeq))
    <3> DEFINE r == [rec EXCEPT !.lastCommitSeq = IF commitSeq > @ THEN commitSeq ELSE @]
    <3>1. r \in Record /\ r.state = rec.state /\ r.geometry = rec.geometry
      BY <2>1, <2>4 DEF Record
    <3>2. SameFace(m, [m EXCEPT !.records[id] = r])
      BY <2>2, <3>1
    <3> QED
      BY <1>2, <2>0, <3>2 DEF OnCommit, Update
  <2>5. SameFace(m, OnPopupAdded(m, id))
    <3> DEFINE r == [rec EXCEPT !.popupCount = IF @ < PopupMax THEN @ + 1 ELSE @]
    <3>1. r \in Record /\ r.state = rec.state /\ r.geometry = rec.geometry
      BY <2>1, PolicyAssumption DEF Record
    <3>2. SameFace(m, [m EXCEPT !.records[id] = r])
      BY <2>2, <3>1
    <3> QED
      BY <1>2, <2>0, <3>2 DEF OnPopupAdded, Update
  <2>6. SameFace(m, OnPopupRemoved(m, id))
    <3> DEFINE r == [rec EXCEPT !.popupCount = IF @ > 0 THEN @ - 1 ELSE @]
    <3>1. r \in Record /\ r.state = rec.state /\ r.geometry = rec.geometry
      BY <2>1, PolicyAssumption DEF Record
    <3>2. SameFace(m, [m EXCEPT !.records[id] = r])
      BY <2>2, <3>1
    <3> QED
      BY <1>2, <2>0, <3>2 DEF OnPopupRemoved, Update
  <2> QED
    BY <2>3, <2>4, <2>5, <2>6
<1> QED
  BY <1>1, <1>2

\* on_output_size: the same windows in the same order, each with the new rect.
LEMMA OutputSizeKeepsWellFormed ==
  ASSUME NEW m, WellFormed(m), NEW rect \in Rects
  PROVE  /\ WellFormed(OnOutputSize(m, rect))
         /\ Tracked(OnOutputSize(m, rect)) = Tracked(m)
         /\ ActiveWindow(OnOutputSize(m, rect)) = ActiveWindow(m)
         /\ OnOutputSize(m, rect).rect = rect
         /\ \A w \in Tracked(m) : OnOutputSize(m, rect).records[w].geometry = rect
<1> DEFINE n == OnOutputSize(m, rect)
<1>1. /\ DOMAIN m = {"records", "mru", "nextId", "rect"}
      /\ m.records \in [Tracked(m) -> Record]
  BY DEF WellFormed, Shape
<1>2. /\ n.records = [w \in Tracked(m) |-> [m.records[w] EXCEPT !.geometry = rect]]
      /\ n.mru = m.mru /\ n.nextId = m.nextId /\ n.rect = rect
      /\ DOMAIN n = {"records", "mru", "nextId", "rect"}
  BY <1>1 DEF OnOutputSize, Tracked
<1> HIDE DEF n
<1>3. /\ n.records \in [Tracked(m) -> Record]
      /\ \A w \in Tracked(m) : /\ n.records[w].state = m.records[w].state
                               /\ n.records[w].geometry = rect
  BY <1>1, <1>2 DEF Record
<1>4. Tracked(n) = Tracked(m) /\ ActiveWindow(n) = ActiveWindow(m)
  BY <1>2, <1>3 DEF Tracked, ActiveWindow
<1>5. Shape(n)
  BY <1>2, <1>3, <1>4 DEF WellFormed, Shape
<1>6. Agree(n)
  BY <1>2, <1>3, <1>4 DEF WellFormed, Agree
<1> QED
  BY <1>2, <1>3, <1>4, <1>5, <1>6 DEF WellFormed, n

-----------------------------------------------------------------------------
(* The machine.                                                            *)

(***************************************************************************)
(* The inductive invariant.  Neither agreement is inductive without the    *)
(* types (a list over the tracked windows is what makes its front tracked),*)
(* and the caller's focus follows a destroy only because the active window *)
(* of a well-formed model is the front of the list.                        *)
(***************************************************************************)
IInv == TypeOK /\ RepresentationsAgree /\ ActionsKeepCallerInStep

\* The part of the invariant that is about the caller.
CallerInStep(f, t, m) ==
  /\ f \in Nat \cup {NoWindow}
  /\ t \in [Tracked(m) -> Rects]
  /\ Tracked(m) # {} => f = ActiveWindow(m)
  /\ \A w \in Tracked(m) : t[w] = m.records[w].geometry

LEMMA InvariantParts == IInv <=> WellFormed(wm) /\ CallerInStep(focus, told, wm)
BY DEF IInv, TypeOK, RepresentationsAgree, MruMatchesRecords, ActiveIsFront,
       ActionsKeepCallerInStep, WellFormed, Shape, Agree, CallerInStep

LEMMA InvariantPartsNext == IInv' <=> WellFormed(wm') /\ CallerInStep(focus', told', wm')
BY DEF IInv, TypeOK, RepresentationsAgree, MruMatchesRecords, ActiveIsFront,
       ActionsKeepCallerInStep, WellFormed, Shape, Agree, CallerInStep,
       Tracked, ActiveWindow

\* Where the caller's focus is after each of the lists the policy returns.
LEMMA FocusAfterEach ==
  ASSUME NEW id, NEW rect
  PROVE  /\ FocusAfter(<< >>) = focus
         /\ FocusAfter(<< NoAction >>) = focus
         /\ FocusAfter(<< Activate(id) >>) = id
         /\ FocusAfter(<< ActivatePrevious(id) >>) = id
         /\ FocusAfter(<< Configure(id, rect), Activate(id) >>) = id
<1> DEFINE moves(a) == {i \in 1 .. Len(a) : a[i].act \in {"activate", "activate_previous"}}
<1>1. moves(<< >>) = {} /\ moves(<< NoAction >>) = {}
  BY DEF NoAction
<1>2. moves(<< Activate(id) >>) = {1} /\ moves(<< ActivatePrevious(id) >>) = {1}
  BY DEF Activate, ActivatePrevious
<1>3. moves(<< Configure(id, rect), Activate(id) >>) = {2}
  BY DEF Activate, Configure
<1>4. \A k \in Nat : (CHOOSE i \in {k} : \A j \in {k} : j <= i) = k
  OBVIOUS
<1>5. FocusAfter(<< >>) = focus /\ FocusAfter(<< NoAction >>) = focus
  BY <1>1 DEF FocusAfter
<1>6. FocusAfter(<< Activate(id) >>) = id /\ FocusAfter(<< ActivatePrevious(id) >>) = id
  BY <1>2, <1>4 DEF FocusAfter, Activate, ActivatePrevious
<1>7. FocusAfter(<< Configure(id, rect), Activate(id) >>) = id
  BY <1>3, <1>4 DEF FocusAfter, Activate
<1> QED
  BY <1>5, <1>6, <1>7

\* What the clients know after a list that configures nobody: what they knew.
LEMMA ToldAfterQuiet ==
  ASSUME NEW actions, \A a \in actions : a.act # "configure"
  PROVE  ToldAfter(actions) = [w \in Tracked(wm') |-> Get(told, w, NoRect)]
BY DEF ToldAfter

\* No action of the lists without a Configure is one.
LEMMA QuietLists ==
  ASSUME NEW id
  PROVE  /\ \A a \in Elems(<< >>) : a.act # "configure"
         /\ \A a \in Elems(<< NoAction >>) : a.act # "configure"
         /\ \A a \in Elems(<< Activate(id) >>) : a.act # "configure"
         /\ \A a \in Elems(<< ActivatePrevious(id) >>) : a.act # "configure"
BY DEF Elems, NoAction, Activate, ActivatePrevious

\* A map's list configures the new window, and nobody else.
LEMMA ToldAfterMap ==
  ASSUME NEW id, NEW rect
  PROVE  ToldAfter(Elems(<< Configure(id, rect), Activate(id) >>)) =
           [w \in Tracked(wm') |-> IF w = id THEN rect ELSE Get(told, w, NoRect)]
<1> DEFINE actions == Elems(<< Configure(id, rect), Activate(id) >>)
           mine(w) == {a \in actions : a.act = "configure" /\ a.id = w}
<1>1. actions = {Configure(id, rect), Activate(id)}
  BY DEF Elems
<1>2. /\ Configure(id, rect).act = "configure" /\ Configure(id, rect).id = id
      /\ Configure(id, rect).rect = rect /\ Activate(id).act # "configure"
  BY DEF Configure, Activate
<1>3. mine(id) = {Configure(id, rect)} /\ \A w : w # id => mine(w) = {}
  BY <1>1, <1>2
<1>4. (CHOOSE a \in {Configure(id, rect)} : TRUE) = Configure(id, rect)
  OBVIOUS
<1> HIDE DEF actions
<1> QED
  BY <1>2, <1>3, <1>4 DEF ToldAfter, actions

LEMMA InitHolds == Init => IInv
<1> SUFFICES ASSUME Init PROVE IInv
  OBVIOUS
<1>1. PICK rect \in Rects : wm = EmptyModel(rect)
  BY DEF Init
<1>2. /\ wm.records = NoEntries /\ wm.mru = << >> /\ wm.nextId = 1 /\ wm.rect = rect
      /\ DOMAIN wm = {"records", "mru", "nextId", "rect"}
  BY <1>1 DEF EmptyModel
<1>3. Tracked(wm) = {} /\ wm.records \in [{} -> Record]
  BY <1>2 DEF Tracked, NoEntries
<1>4. WellFormed(wm)
  BY <1>2, <1>3 DEF WellFormed, Shape, Agree, NoDup, Elems
<1>5. CallerInStep(focus, told, wm)
  BY <1>3 DEF CallerInStep, Init, NoEntries
<1> QED
  BY <1>4, <1>5, InvariantParts

\* A call that returns no action, on a model that keeps its face.
LEMMA QuietStep ==
  ASSUME IInv, NEW n, SameFace(wm, n), Quietly(n)
  PROVE  IInv'
<1>1. WellFormed(wm) /\ CallerInStep(focus, told, wm)
  BY InvariantParts
<1>2. wm' = n /\ focus' = focus /\ told' = told
  BY DEF Quietly
<1>3. CallerInStep(focus, told, n)
  BY <1>1 DEF SameFace, CallerInStep
<1> QED
  BY <1>2, <1>3, InvariantPartsNext DEF SameFace

\* A call that left the model alone and configured nobody: nothing happened.
LEMMA IdleStep ==
  ASSUME IInv, NEW actions, actions \in {<< >>, << NoAction >>},
         wm' = wm, focus' = FocusAfter(actions), told' = ToldAfter(Elems(actions))
  PROVE  IInv'
<1>1. WellFormed(wm) /\ CallerInStep(focus, told, wm)
  BY InvariantParts
<1>2. focus' = focus
  BY FocusAfterEach
<1>3. told' = [w \in Tracked(wm') |-> Get(told, w, NoRect)]
  <2>1. \A a \in Elems(actions) : a.act # "configure"
    BY QuietLists
  <2> QED
    BY <2>1, ToldAfterQuiet
<1>4. told' = told
  BY <1>1, <1>3 DEF CallerInStep, Get
<1> QED
  BY <1>1, <1>2, <1>4, InvariantPartsNext

LEMMA MapStep ==
  ASSUME IInv, MapWindow
  PROVE  IInv'
<1>1. WellFormed(wm) /\ CallerInStep(focus, told, wm)
  BY InvariantParts
<1>2. PICK req \in Requests : Apply(OnMap(wm, req))
  BY DEF MapWindow
<1>3. CASE WindowsOfKey(wm, req.key) # {}
  <2>1. OnMap(wm, req).model = wm /\ OnMap(wm, req).actions = << NoAction >>
    BY <1>3 DEF OnMap
  <2> QED
    BY <1>2, <2>1, IdleStep DEF Apply
<1>4. CASE WindowsOfKey(wm, req.key) = {}
  <2>0. PICK id, rect : id = wm.nextId /\ rect = wm.rect
    OBVIOUS
  <2>1. /\ wm' = OnMap(wm, req).model
        /\ OnMap(wm, req).actions = << Configure(id, rect), Activate(id) >>
    BY <1>2, <1>4, <2>0 DEF Apply, OnMap
  <2>2. /\ WellFormed(wm') /\ id \notin Tracked(wm) /\ id \in Nat
        /\ Tracked(wm') = Tracked(wm) \cup {id} /\ ActiveWindow(wm') = id
        /\ \A w \in Tracked(wm) : wm'.records[w].geometry = wm.records[w].geometry
        /\ wm'.records[id].geometry = rect
    BY <1>1, <1>4, <2>0, <2>1, MapKeepsWellFormed
  <2>3. focus' = id
    BY <1>2, <2>1, FocusAfterEach DEF Apply
  <2>4. told' = [w \in Tracked(wm') |-> IF w = id THEN rect ELSE Get(told, w, NoRect)]
    BY <1>2, <2>1, ToldAfterMap DEF Apply
  <2>5. rect \in Rects
    BY <1>1, <2>0 DEF WellFormed, Shape
  <2>6. CallerInStep(focus', told', wm')
    BY <1>1, <2>2, <2>3, <2>4, <2>5 DEF CallerInStep, Get
  <2> QED
    BY <2>2, <2>6, InvariantPartsNext
<1> QED
  BY <1>3, <1>4

LEMMA DestroyStep ==
  ASSUME IInv, DestroyWindow
  PROVE  IInv'
<1>1. WellFormed(wm) /\ CallerInStep(focus, told, wm)
  BY InvariantParts
<1>2. PICK id \in Ids : Apply(OnDestroy(wm, id))
  BY DEF DestroyWindow
<1>3. CASE id \notin Tracked(wm)
  <2>1. OnDestroy(wm, id).model = wm /\ OnDestroy(wm, id).actions = << >>
    BY <1>3 DEF OnDestroy
  <2> QED
    BY <1>2, <2>1, IdleStep DEF Apply
<1>4. CASE id \in Tracked(wm)
  <2>0. PICK n, actions : n = OnDestroy(wm, id).model /\ actions = OnDestroy(wm, id).actions
    OBVIOUS
  <2>1. wm' = n /\ focus' = FocusAfter(actions) /\ told' = ToldAfter(Elems(actions))
    BY <1>2, <2>0 DEF Apply
  <2>2. /\ WellFormed(n) /\ Tracked(n) = Tracked(wm) \ {id}
        /\ \A w \in Tracked(wm) \ {id} : n.records[w].geometry = wm.records[w].geometry
        /\ \/ actions = << >> /\ (n.mru # << >> => ActiveWindow(n) = ActiveWindow(wm))
           \/ actions = << ActivatePrevious(ActiveWindow(n)) >>
    BY <1>1, <1>4, <2>0, DestroyKeepsWellFormed
  <2>3. ActiveWindow(n) \in Nat \cup {NoWindow} /\ (Tracked(n) # {} => n.mru # << >>)
    BY <2>2, ActiveIsTracked
  <2>4. told' = [w \in Tracked(n) |-> Get(told, w, NoRect)]
    <3>1. \A a \in Elems(actions) : a.act # "configure"
      BY <2>2, QuietLists
    <3> QED
      BY <2>1, <3>1, ToldAfterQuiet
  <2>5. /\ focus' \in Nat \cup {NoWindow}
        /\ Tracked(n) # {} => focus' = ActiveWindow(n)
    <3>1. CASE actions = << >> /\ (n.mru # << >> => ActiveWindow(n) = ActiveWindow(wm))
      <4>1. focus' = focus
        BY <2>1, <3>1, FocusAfterEach
      <4> QED
        BY <4>1, <3>1, <1>1, <2>2, <2>3 DEF CallerInStep
    <3>2. CASE actions = << ActivatePrevious(ActiveWindow(n)) >>
      <4>1. focus' = ActiveWindow(n)
        BY <2>1, <3>2, FocusAfterEach
      <4> QED
        BY <4>1, <2>3
    <3> QED
      BY <2>2, <3>1, <3>2
  <2>6. CallerInStep(focus', told', n)
    BY <1>1, <2>2, <2>4, <2>5 DEF CallerInStep, Get
  <2> QED
    BY <2>1, <2>2, <2>6, InvariantPartsNext
<1> QED
  BY <1>3, <1>4

LEMMA ActivateStep ==
  ASSUME IInv, ActivateWindow
  PROVE  IInv'
<1>1. WellFormed(wm) /\ CallerInStep(focus, told, wm)
  BY InvariantParts
<1>2. PICK id \in Ids : Apply(OnActivate(wm, id))
  BY DEF ActivateWindow
<1>3. CASE id \notin Tracked(wm) \/ ActiveWindow(wm) = id
  <2>1. OnActivate(wm, id).model = wm /\ OnActivate(wm, id).actions \in {<< >>, << NoAction >>}
    BY <1>3 DEF OnActivate
  <2> QED
    BY <1>2, <2>1, IdleStep DEF Apply
<1>4. CASE id \in Tracked(wm) /\ ActiveWindow(wm) # id
  <2>1. /\ WellFormed(wm') /\ Tracked(wm') = Tracked(wm) /\ ActiveWindow(wm') = id
        /\ \A w \in Tracked(wm) : wm'.records[w].geometry = wm.records[w].geometry
    BY <1>1, <1>2, <1>4, ActivateKeepsWellFormed DEF Apply
  <2>2. OnActivate(wm, id).actions = << Activate(id) >>
    BY <1>4 DEF OnActivate
  <2>3. focus' = id
    BY <1>2, <2>2, FocusAfterEach DEF Apply
  <2>4. told' = [w \in Tracked(wm) |-> Get(told, w, NoRect)]
    <3>1. \A a \in Elems(<< Activate(id) >>) : a.act # "configure"
      BY QuietLists
    <3>2. ToldAfter(Elems(<< Activate(id) >>)) = [w \in Tracked(wm') |-> Get(told, w, NoRect)]
      BY <3>1, ToldAfterQuiet
    <3> QED
      BY <1>2, <2>1, <2>2, <3>2 DEF Apply
  <2>5. id \in Nat
    BY ManagerAssumption DEF Ids
  <2>6. CallerInStep(focus', told', wm')
    BY <1>1, <2>1, <2>3, <2>4, <2>5 DEF CallerInStep, Get
  <2> QED
    BY <2>1, <2>6, InvariantPartsNext
<1> QED
  BY <1>3, <1>4

LEMMA OutputSizeStep ==
  ASSUME IInv, SetOutputSize
  PROVE  IInv'
<1>1. WellFormed(wm) /\ CallerInStep(focus, told, wm)
  BY InvariantParts
<1>2. PICK rect \in Rects : /\ wm' = OnOutputSize(wm, rect)
                            /\ told' = ToldAfter(Reconfigured(wm')) /\ focus' = focus
  BY DEF SetOutputSize
<1>3. /\ WellFormed(wm') /\ Tracked(wm') = Tracked(wm) /\ wm'.rect = rect
      /\ ActiveWindow(wm') = ActiveWindow(wm)
      /\ \A w \in Tracked(wm') : wm'.records[w].geometry = rect
  BY <1>1, <1>2, OutputSizeKeepsWellFormed
<1>4. ASSUME NEW w \in Tracked(wm')
      PROVE  {a \in Reconfigured(wm') : a.act = "configure" /\ a.id = w} = {Configure(w, rect)}
  BY <1>3, <1>4 DEF Reconfigured, Configure
<1>5. told' = [w \in Tracked(wm') |-> rect]
  <2>1. ASSUME NEW w
        PROVE  (CHOOSE a \in {Configure(w, rect)} : TRUE) = Configure(w, rect)
    OBVIOUS
  <2>2. \A w : Configure(w, rect).rect = rect
    BY DEF Configure
  <2> QED
    BY <1>2, <1>4, <2>1, <2>2 DEF ToldAfter
<1>6. CallerInStep(focus', told', wm')
  BY <1>1, <1>2, <1>3, <1>5 DEF CallerInStep
<1> QED
  BY <1>3, <1>6, InvariantPartsNext

\* Every action of the machine preserves the invariant.
LEMMA NextKeepsInvariant == IInv /\ [Next]_vars => IInv'
<1> SUFFICES ASSUME IInv, [Next]_vars PROVE IInv'
  OBVIOUS
<1>1. WellFormed(wm)
  BY InvariantParts
<1>2. CASE MapWindow
  BY <1>2, MapStep
<1>3. CASE DestroyWindow
  BY <1>3, DestroyStep
<1>4. CASE ActivateWindow
  BY <1>4, ActivateStep
<1>5. CASE SetTitle
  BY <1>1, <1>5, QuietOperators, QuietStep DEF SetTitle
<1>6. CASE SetAppId
  BY <1>1, <1>6, QuietOperators, QuietStep DEF SetAppId
<1>7. CASE Commit
  <2>1. 0 .. MaxCommit \subseteq Nat
    BY ManagerAssumption
  <2> QED
    BY <1>1, <1>7, <2>1, QuietOperators, QuietStep DEF Commit
<1>8. CASE PopupAdded
  BY <1>1, <1>8, QuietOperators, QuietStep DEF PopupAdded
<1>9. CASE PopupRemoved
  BY <1>1, <1>9, QuietOperators, QuietStep DEF PopupRemoved
<1>10. CASE SetOutputSize
  BY <1>10, OutputSizeStep
<1>11. CASE UNCHANGED vars
  <2>1. wm' = wm /\ focus' = focus /\ told' = told
    BY <1>11 DEF vars
  <2> QED
    BY <2>1, InvariantParts, InvariantPartsNext
<1> QED
  BY <1>2, <1>3, <1>4, <1>5, <1>6, <1>7, <1>8, <1>9, <1>10, <1>11 DEF Next

-----------------------------------------------------------------------------
(* The results.                                                            *)

\* The inductive invariant holds in every behaviour of the manager.
THEOREM InvariantHolds == Spec => []IInv
BY InitHolds, NextKeepsInvariant, PTL DEF Spec

\* Every struct field keeps its type: no list names an untracked window, no
\* counter leaves its range, no window is left without a configured rect.
THEOREM TypeCorrect == Spec => []TypeOK
<1>1. IInv => TypeOK
  BY DEF IInv
<1> QED
  BY <1>1, InvariantHolds, PTL

\* The records, the MRU list and the Active state never drift apart, whatever
\* the number of windows and the order of calls (adesk-wm policy.rs, model.rs).
THEOREM RepresentationsAlwaysAgree == Spec => []RepresentationsAgree
<1>1. IInv => RepresentationsAgree
  BY DEF IInv
<1> QED
  BY <1>1, InvariantHolds, PTL

\* A caller that applies only the returned actions is never out of step: the
\* contract WmManager's callers (the compositor) depend on.
THEOREM CallerAlwaysInStep == Spec => []ActionsKeepCallerInStep
<1>1. IInv => ActionsKeepCallerInStep
  BY DEF IInv
<1> QED
  BY <1>1, InvariantHolds, PTL

-----------------------------------------------------------------------------
(***************************************************************************)
(* The window manager implements the abstract focus stack, and no call     *)
(* rewrites the history of the windows that survive it.  Both follow from  *)
(* what each call does to the MRU list: it puts a fresh window in front,   *)
(* takes one out, moves one to the front, or leaves the list alone.        *)
(***************************************************************************)

-----------------------------------------------------------------------------
(* The order of a list without repetition.                                 *)

\* The order is over the elements; of two of them exactly one comes first.
LEMMA BeforeIsAnOrder ==
  ASSUME NEW S, NEW s \in Seq(S), NoDup(s)
  PROVE  /\ \A v, w : Before(s, v, w) => v \in Elems(s) /\ w \in Elems(s) /\ v # w
         /\ \A v, w : Before(s, v, w) => ~Before(s, w, v)
         /\ \A v, w \in Elems(s) : v # w => Before(s, v, w) \/ Before(s, w, v)
<1>1. Len(s) \in Nat
  OBVIOUS
<1>2. \A v, w : Before(s, v, w) => v \in Elems(s) /\ w \in Elems(s) /\ v # w
  BY <1>1 DEF Before, Elems, NoDup
<1>3. \A v, w : Before(s, v, w) => ~Before(s, w, v)
  <2> SUFFICES ASSUME NEW v, NEW w, Before(s, v, w), Before(s, w, v)
               PROVE  FALSE
    OBVIOUS
  <2>1. PICK i, j \in 1 .. Len(s) : i < j /\ s[i] = v /\ s[j] = w
    BY DEF Before
  <2>2. PICK k, l \in 1 .. Len(s) : k < l /\ s[k] = w /\ s[l] = v
    BY DEF Before
  <2>3. i = l /\ j = k
    BY <2>1, <2>2 DEF NoDup
  <2> QED
    BY <1>1, <2>1, <2>2, <2>3
<1>4. \A v, w \in Elems(s) : v # w => Before(s, v, w) \/ Before(s, w, v)
  <2> SUFFICES ASSUME NEW v \in Elems(s), NEW w \in Elems(s), v # w
               PROVE  Before(s, v, w) \/ Before(s, w, v)
    OBVIOUS
  <2>1. PICK i \in 1 .. Len(s) : s[i] = v
    BY DEF Elems
  <2>2. PICK j \in 1 .. Len(s) : s[j] = w
    BY DEF Elems
  <2>3. i < j \/ j < i
    BY <1>1, <2>1, <2>2
  <2> QED
    BY <2>1, <2>2, <2>3 DEF Before
<1> QED
  BY <1>2, <1>3, <1>4

\* The first element comes before every other one.
LEMMA FirstIsBefore ==
  ASSUME NEW S, NEW s \in Seq(S), NoDup(s), s # << >>
  PROVE  /\ s[1] \in Elems(s)
         /\ \A w \in Elems(s) \ {s[1]} : Before(s, s[1], w)
<1>1. Len(s) \in Nat /\ 1 \in 1 .. Len(s)
  OBVIOUS
<1>2. ASSUME NEW w \in Elems(s) \ {s[1]}
      PROVE  Before(s, s[1], w)
  <2>1. PICK j \in 1 .. Len(s) : s[j] = w
    BY DEF Elems
  <2>2. j # 1
    BY <2>1
  <2>3. 1 < j
    BY <1>1, <2>1, <2>2
  <2> QED
    BY <1>1, <2>1, <2>3 DEF Before
<1> QED
  BY <1>1, <1>2 DEF Elems

\* An element put in front comes before all others, whose order is kept.
LEMMA BeforeInCons ==
  ASSUME NEW S, NEW s \in Seq(S), NEW e \in S, e \notin Elems(s)
  PROVE  \A v, w : Before(Cons(e, s), v, w) <=> (v = e /\ w \in Elems(s)) \/ Before(s, v, w)
<1>1. PICK t, n : t = Cons(e, s) /\ n = Len(s)
  OBVIOUS
<1>2. /\ n \in Nat /\ Len(t) = n + 1 /\ t[1] = e
      /\ \A i \in 2 .. n + 1 : t[i] = s[i - 1]
      /\ \A i \in 1 .. n : t[i + 1] = s[i]
  <2>1. n \in Nat /\ Len(t) = n + 1 /\ t[1] = e
    <3>1. Len(Cons(e, s)) = Len(s) + 1 /\ Cons(e, s)[1] = e
      BY ConsProperties
    <3> QED
      BY <1>1, <3>1
  <2>2. t = [i \in 1 .. n + 1 |-> IF i = 1 THEN e ELSE s[i - 1]]
    BY <1>1 DEF Cons
  <2> QED
    BY <2>1, <2>2
<1> SUFFICES ASSUME NEW v, NEW w
             PROVE  Before(t, v, w) <=> (v = e /\ w \in Elems(s)) \/ Before(s, v, w)
  BY <1>1
<1>3. ASSUME Before(t, v, w)
      PROVE  (v = e /\ w \in Elems(s)) \/ Before(s, v, w)
  <2>1. PICK i, j \in 1 .. n + 1 : i < j /\ t[i] = v /\ t[j] = w
    BY <1>2, <1>3 DEF Before
  <2>2. j - 1 \in 1 .. n /\ s[j - 1] = w
    BY <1>2, <2>1
  <2>3. CASE i = 1
    BY <1>1, <1>2, <2>1, <2>2, <2>3 DEF Elems
  <2>4. CASE i # 1
    <3>1. i - 1 \in 1 .. n /\ s[i - 1] = v /\ i - 1 < j - 1
      BY <1>2, <2>1, <2>4
    <3> QED
      BY <1>1, <2>2, <3>1 DEF Before
  <2> QED
    BY <2>3, <2>4
<1>4. ASSUME v = e, w \in Elems(s)
      PROVE  Before(t, v, w)
  <2>1. PICK j \in 1 .. n : s[j] = w
    BY <1>1, <1>4 DEF Elems
  <2>2. /\ 1 \in 1 .. Len(t) /\ j + 1 \in 1 .. Len(t) /\ 1 < j + 1
        /\ t[1] = v /\ t[j + 1] = w
    BY <1>2, <1>4, <2>1
  <2> QED
    BY <2>2 DEF Before
<1>5. ASSUME Before(s, v, w)
      PROVE  Before(t, v, w)
  <2>1. PICK i, j \in 1 .. n : i < j /\ s[i] = v /\ s[j] = w
    BY <1>1, <1>5 DEF Before
  <2>2. /\ i + 1 \in 1 .. Len(t) /\ j + 1 \in 1 .. Len(t) /\ i + 1 < j + 1
        /\ t[i + 1] = v /\ t[j + 1] = w
    BY <1>2, <2>1
  <2> QED
    BY <2>2 DEF Before
<1> QED
  BY <1>3, <1>4, <1>5

\* Taking an element out keeps the order of the others.
LEMMA BeforeInWithout ==
  ASSUME NEW S, NEW s \in Seq(S), NoDup(s), NEW e \in Elems(s)
  PROVE  \A v, w : Before(Without(s, e), v, w) <=> Before(s, v, w) /\ v # e /\ w # e
<1>1. PICK t, n, p : t = Without(s, e) /\ n = Len(s) /\ p = Pos(s, e)
  OBVIOUS
<1>2. /\ n \in Nat /\ p \in 1 .. n /\ s[p] = e
      /\ \A i \in 1 .. n : i # p => s[i] # e
  <2>1. p \in 1 .. n /\ s[p] = e
    BY <1>1, PosProperties
  <2> QED
    BY <1>1, <2>1 DEF NoDup
<1>3. t = [i \in 1 .. n - 1 |-> IF i < p THEN s[i] ELSE s[i + 1]]
  BY <1>1 DEF Without
<1>4. Len(t) = n - 1
  <2>1. t \in Seq(S \ {e})
    BY <1>1, WithoutProperties
  <2>2. DOMAIN t = 1 .. Len(t) /\ Len(t) \in Nat
    BY <2>1
  <2>3. DOMAIN t = 1 .. n - 1
    BY <1>3
  <2> QED
    BY <1>2, <2>2, <2>3
<1> SUFFICES ASSUME NEW v, NEW w
             PROVE  Before(t, v, w) <=> Before(s, v, w) /\ v # e /\ w # e
  BY <1>1
<1>5. ASSUME Before(t, v, w)
      PROVE  Before(s, v, w) /\ v # e /\ w # e
  <2> DEFINE from(k) == IF k < p THEN k ELSE k + 1
  <2>1. PICK i, j \in 1 .. n - 1 : i < j /\ t[i] = v /\ t[j] = w
    BY <1>4, <1>5 DEF Before
  <2>2. from(i) \in 1 .. n /\ from(j) \in 1 .. n /\ from(i) < from(j)
    BY <1>2, <2>1
  <2>3. s[from(i)] = v /\ s[from(j)] = w
    BY <1>2, <1>3, <2>1
  <2>4. from(i) # p /\ from(j) # p
    BY <1>2, <2>1
  <2> HIDE DEF from
  <2> QED
    BY <1>1, <1>2, <2>2, <2>3, <2>4 DEF Before
<1>6. ASSUME Before(s, v, w), v # e, w # e
      PROVE  Before(t, v, w)
  <2> DEFINE to(k) == IF k < p THEN k ELSE k - 1
  <2>1. PICK i, j \in 1 .. n : i < j /\ s[i] = v /\ s[j] = w
    BY <1>1, <1>6 DEF Before
  <2>2. i # p /\ j # p
    BY <1>2, <1>6, <2>1
  <2>3. to(i) \in 1 .. n - 1 /\ to(j) \in 1 .. n - 1 /\ to(i) < to(j)
    BY <1>2, <2>1, <2>2
  <2>4. t[to(i)] = v /\ t[to(j)] = w
    BY <1>2, <1>3, <2>1, <2>2
  <2> HIDE DEF to
  <2> QED
    BY <1>4, <2>3, <2>4 DEF Before
<1> QED
  BY <1>5, <1>6

-----------------------------------------------------------------------------
(* What a call does to the MRU list and to the records that stay.          *)

\* A record keeps its creation data, and its commit counter never goes back.
SameHistory(r, s) ==
  s.key = r.key /\ s.createdSeq = r.createdSeq /\ s.lastCommitSeq >= r.lastCommitSeq

HistoryKept(m, n) ==
  \A w \in Tracked(m) \cap Tracked(n) : SameHistory(m.records[w], n.records[w])

Opens(m, n, id) ==
  /\ id \notin Tracked(m) /\ Tracked(n) = Tracked(m) \cup {id} /\ n.mru = Cons(id, m.mru)

Closes(m, n, id) ==
  /\ id \in Tracked(m) /\ Tracked(n) = Tracked(m) \ {id} /\ n.mru = Without(m.mru, id)

Touches(m, n, id) ==
  /\ id \in Tracked(m) /\ Tracked(n) = Tracked(m) /\ n.mru = Cons(id, Without(m.mru, id))

Rests(m, n) == Tracked(n) = Tracked(m) /\ n.mru = m.mru

Moves(m, n) ==
  /\ HistoryKept(m, n)
  /\ \/ \E id \in Ids : Opens(m, n, id) \/ Closes(m, n, id) \/ Touches(m, n, id)
     \/ Rests(m, n)

LEMMA WellFormedFields ==
  ASSUME NEW m, WellFormed(m)
  PROVE  /\ DOMAIN m = {"records", "mru", "nextId", "rect"} /\ m.nextId \in Nat \ {0}
         /\ m.records \in [Tracked(m) -> Record] /\ Tracked(m) \subseteq 1 .. m.nextId - 1
         /\ m.mru \in Seq(Tracked(m)) /\ NoDup(m.mru) /\ Elems(m.mru) = Tracked(m)
BY DEF WellFormed, Shape, Agree

\* mark_active changes nothing but the state.
LEMMA MarkActiveKeepsHistory ==
  ASSUME NEW D, NEW records \in [D -> Record], NEW id
  PROVE  /\ DOMAIN MarkActive(records, id) = D
         /\ \A w \in D : SameHistory(records[w], MarkActive(records, id)[w])
BY DEF MarkActive, Record, SameHistory

LEMMA MapMoves ==
  ASSUME NEW m, WellFormed(m), NEW req \in Requests, WindowsOfKey(m, req.key) = {},
         NEW n, n = OnMap(m, req).model
  PROVE  Opens(m, n, m.nextId) /\ HistoryKept(m, n)
<1>1. PICK id, put : id = m.nextId /\ put = Put(m.records, id, NewRecord(m, req))
  OBVIOUS
<1>2. /\ DOMAIN m = {"records", "mru", "nextId", "rect"} /\ id \in Nat \ {0}
      /\ Tracked(m) \subseteq 1 .. id - 1 /\ m.records \in [Tracked(m) -> Record]
  BY <1>1, WellFormedFields
<1>3. n = [m EXCEPT !.records = MarkActive(put, id), !.mru = Cons(id, @), !.nextId = @ + 1]
  BY <1>1 DEF OnMap
<1>4. n.records = MarkActive(put, id) /\ n.mru = Cons(id, m.mru)
  BY <1>2, <1>3
<1>5. /\ id \notin Tracked(m) /\ Tracked(n) = Tracked(m) \cup {id}
  BY <1>1, MapKeepsWellFormed
<1>6. \A w \in Tracked(m) : put[w] = m.records[w] /\ w \in DOMAIN put
  BY <1>1, <1>2, <1>5 DEF Put
<1>7. \A w \in Tracked(m) : SameHistory(m.records[w], n.records[w])
  BY <1>2, <1>4, <1>6 DEF MarkActive, SameHistory, Record
<1> QED
  BY <1>1, <1>4, <1>5, <1>7 DEF Opens, HistoryKept

LEMMA DestroyMoves ==
  ASSUME NEW m, WellFormed(m), NEW id \in Tracked(m), NEW n, n = OnDestroy(m, id).model
  PROVE  Closes(m, n, id) /\ HistoryKept(m, n)
<1>1. PICK left : left = [m EXCEPT !.records = Drop(@, {id}), !.mru = Without(@, id)]
  OBVIOUS
<1>2. /\ DOMAIN m = {"records", "mru", "nextId", "rect"}
      /\ m.records \in [Tracked(m) -> Record]
  BY WellFormedFields
<1>3. left.records = Drop(m.records, {id}) /\ left.mru = Without(m.mru, id)
      /\ DOMAIN left = {"records", "mru", "nextId", "rect"}
  BY <1>1, <1>2
<1>4. /\ left.records \in [Tracked(m) \ {id} -> Record]
      /\ \A w \in Tracked(m) \ {id} : left.records[w] = m.records[w]
  BY <1>2, <1>3 DEF Drop
<1>5. /\ n.mru = left.mru
      /\ n.records = left.records \/ n.records = MarkActive(left.records, ActiveWindow(left))
  <2>1. n = left \/ n = [left EXCEPT !.records = MarkActive(@, ActiveWindow(left))]
    BY <1>1 DEF OnDestroy
  <2> QED
    BY <1>3, <2>1
<1>6. Tracked(n) = Tracked(m) \ {id}
  BY DestroyKeepsWellFormed
<1>7. \A w \in Tracked(m) \ {id} : SameHistory(m.records[w], n.records[w])
  <2>1. CASE n.records = left.records
    <3>1. \A r \in Record : SameHistory(r, r)
      BY DEF SameHistory, Record
    <3> QED
      BY <1>2, <1>4, <2>1, <3>1
  <2>2. CASE n.records = MarkActive(left.records, ActiveWindow(left))
    <3>1. \A w \in Tracked(m) \ {id} :
            SameHistory(left.records[w], MarkActive(left.records, ActiveWindow(left))[w])
      BY <1>4, MarkActiveKeepsHistory
    <3> QED
      BY <1>4, <2>2, <3>1
  <2> QED
    BY <1>5, <2>1, <2>2
<1> QED
  BY <1>3, <1>5, <1>6, <1>7 DEF Closes, HistoryKept

LEMMA ActivateMoves ==
  ASSUME NEW m, WellFormed(m), NEW id \in Tracked(m), ActiveWindow(m) # id,
         NEW n, n = OnActivate(m, id).model
  PROVE  Touches(m, n, id) /\ HistoryKept(m, n)
<1>1. /\ DOMAIN m = {"records", "mru", "nextId", "rect"}
      /\ m.records \in [Tracked(m) -> Record]
  BY WellFormedFields
<1>2. n = [m EXCEPT !.records = MarkActive(@, id), !.mru = Cons(id, Without(@, id))]
  BY DEF OnActivate
<1>3. n.records = MarkActive(m.records, id) /\ n.mru = Cons(id, Without(m.mru, id))
  BY <1>1, <1>2
<1>4. Tracked(n) = Tracked(m)
  BY ActivateKeepsWellFormed
<1>5. \A w \in Tracked(m) : SameHistory(m.records[w], MarkActive(m.records, id)[w])
  BY <1>1, MarkActiveKeepsHistory
<1> QED
  BY <1>3, <1>4, <1>5 DEF Touches, HistoryKept

\* The calls that return no action leave the list alone.
LEMMA UpdateRests ==
  ASSUME NEW m, WellFormed(m), NEW id \in Tracked(m), NEW rec,
         SameHistory(m.records[id], rec), NEW n, n = [m EXCEPT !.records[id] = rec]
  PROVE  Rests(m, n) /\ HistoryKept(m, n)
<1>1. /\ DOMAIN m = {"records", "mru", "nextId", "rect"}
      /\ m.records \in [Tracked(m) -> Record]
  BY WellFormedFields
<1>2. n.records = [m.records EXCEPT ![id] = rec] /\ n.mru = m.mru
  BY <1>1
<1>3. Tracked(n) = Tracked(m)
  BY <1>2 DEF Tracked
<1>4. \A w \in Tracked(m) : SameHistory(m.records[w], n.records[w])
  <2>1. \A r \in Record : SameHistory(r, r)
    BY DEF SameHistory, Record
  <2> QED
    BY <1>1, <1>2, <2>1
<1> QED
  BY <1>2, <1>3, <1>4 DEF Rests, HistoryKept

LEMMA NothingRests ==
  ASSUME NEW m, WellFormed(m)
  PROVE  Rests(m, m) /\ HistoryKept(m, m)
<1>1. m.records \in [Tracked(m) -> Record]
  BY WellFormedFields
<1>2. \A r \in Record : SameHistory(r, r)
  BY DEF SameHistory, Record
<1> QED
  BY <1>1, <1>2 DEF Rests, HistoryKept

LEMMA QuietOperatorsRest ==
  ASSUME NEW m, WellFormed(m), NEW id, NEW n,
         \/ \E name \in Names : n = OnTitle(m, id, name) \/ n = OnAppId(m, id, name)
         \/ \E commitSeq \in Nat : n = OnCommit(m, id, commitSeq)
         \/ n = OnPopupAdded(m, id) \/ n = OnPopupRemoved(m, id)
  PROVE  Rests(m, n) /\ HistoryKept(m, n)
<1>1. CASE id \notin Tracked(m)
  <2>1. n = m
    BY <1>1 DEF OnTitle, OnAppId, OnCommit, OnPopupAdded, OnPopupRemoved, Update
  <2> QED
    BY <2>1, NothingRests
<1>2. CASE id \in Tracked(m)
  <2>1. PICK rec : rec = m.records[id]
    OBVIOUS
  <2>2. rec \in Record
    BY <1>2, <2>1, WellFormedFields
  <2>3. ASSUME NEW r, SameHistory(rec, r), n = [m EXCEPT !.records[id] = r]
        PROVE  Rests(m, n) /\ HistoryKept(m, n)
    BY <1>2, <2>1, <2>3, UpdateRests
  <2>4. ASSUME NEW name, n = OnTitle(m, id, name)
        PROVE  Rests(m, n) /\ HistoryKept(m, n)
    <3>1. SameHistory(rec, [rec EXCEPT !.title = name])
      BY <2>2 DEF SameHistory, Record
    <3>2. n = [m EXCEPT !.records[id] = [rec EXCEPT !.title = name]]
      BY <1>2, <2>1, <2>4 DEF OnTitle, Update
    <3> QED
      BY <2>3, <3>1, <3>2
  <2>5. ASSUME NEW name, n = OnAppId(m, id, name)
        PROVE  Rests(m, n) /\ HistoryKept(m, n)
    <3>1. SameHistory(rec, [rec EXCEPT !.app = name])
      BY <2>2 DEF SameHistory, Record
    <3>2. n = [m EXCEPT !.records[id] = [rec EXCEPT !.app = name]]
      BY <1>2, <2>1, <2>5 DEF OnAppId, Update
    <3> QED
      BY <2>3, <3>1, <3>2
  <2>6. ASSUME NEW commitSeq \in Nat, n = OnCommit(m, id, commitSeq)
        PROVE  Rests(m, n) /\ HistoryKept(m, n)
    <3>1. PICK top : top = IF commitSeq > rec.lastCommitSeq THEN commitSeq ELSE rec.lastCommitSeq
      OBVIOUS
    <3>2. rec.lastCommitSeq \in Nat /\ top >= rec.lastCommitSeq
      BY <2>2, <3>1 DEF Record
    <3>3. SameHistory(rec, [rec EXCEPT !.lastCommitSeq = top])
      BY <2>2, <3>2 DEF SameHistory, Record
    <3>4. n = [m EXCEPT !.records[id] = [rec EXCEPT !.lastCommitSeq = top]]
      BY <1>2, <2>1, <2>6, <3>1 DEF OnCommit, Update
    <3> QED
      BY <2>3, <3>3, <3>4
  <2>7. ASSUME n = OnPopupAdded(m, id) \/ n = OnPopupRemoved(m, id)
        PROVE  Rests(m, n) /\ HistoryKept(m, n)
    <3>1. PICK up, down : /\ up = IF rec.popupCount < PopupMax THEN rec.popupCount + 1 ELSE rec.popupCount
                          /\ down = IF rec.popupCount > 0 THEN rec.popupCount - 1 ELSE rec.popupCount
      OBVIOUS
    <3>2. \A count : SameHistory(rec, [rec EXCEPT !.popupCount = count])
      BY <2>2 DEF SameHistory, Record
    <3>3. \/ n = [m EXCEPT !.records[id] = [rec EXCEPT !.popupCount = up]]
          \/ n = [m EXCEPT !.records[id] = [rec EXCEPT !.popupCount = down]]
      BY <1>2, <2>1, <2>7, <3>1 DEF OnPopupAdded, OnPopupRemoved, Update
    <3> QED
      BY <2>3, <3>2, <3>3
  <2> QED
    BY <2>4, <2>5, <2>6, <2>7
<1> QED
  BY <1>1, <1>2

LEMMA OutputSizeRests ==
  ASSUME NEW m, WellFormed(m), NEW rect, NEW n, n = OnOutputSize(m, rect)
  PROVE  Rests(m, n) /\ HistoryKept(m, n)
<1>1. /\ DOMAIN m = {"records", "mru", "nextId", "rect"}
      /\ m.records \in [Tracked(m) -> Record]
  BY WellFormedFields
<1>2. /\ n.records = [w \in Tracked(m) |-> [m.records[w] EXCEPT !.geometry = rect]]
      /\ n.mru = m.mru
  BY <1>1 DEF OnOutputSize, Tracked
<1>3. Tracked(n) = Tracked(m)
  BY <1>2 DEF Tracked
<1>4. \A r \in Record : SameHistory(r, [r EXCEPT !.geometry = rect])
  BY DEF SameHistory, Record
<1> QED
  BY <1>1, <1>2, <1>3, <1>4 DEF Rests, HistoryKept

\* Every step of the machine is one of these moves.
LEMMA StepMoves ==
  ASSUME IInv, [Next]_vars
  PROVE  Moves(wm, wm')
<1>1. WellFormed(wm) /\ wm.nextId \in Nat
  BY InvariantParts, WellFormedFields
<1>2. PICK n : n = wm'
  OBVIOUS
<1>3. CASE MapWindow
  <2>1. PICK req \in Requests : wm.nextId <= MaxWindows /\ n = OnMap(wm, req).model
    BY <1>2, <1>3 DEF MapWindow, Apply
  <2>2. CASE WindowsOfKey(wm, req.key) # {}
    <3>1. n = wm
      BY <2>1, <2>2 DEF OnMap
    <3> QED
      BY <1>1, <1>2, <3>1, NothingRests DEF Moves
  <2>3. CASE WindowsOfKey(wm, req.key) = {}
    <3>1. Opens(wm, n, wm.nextId) /\ HistoryKept(wm, n)
      BY <1>1, <2>1, <2>3, MapMoves
    <3>2. wm.nextId \in Ids
      BY <1>1, <2>1, WellFormedFields, ManagerAssumption DEF Ids
    <3> QED
      BY <1>2, <3>1, <3>2 DEF Moves
  <2> QED
    BY <2>2, <2>3
<1>4. CASE DestroyWindow
  <2>1. PICK id \in Ids : n = OnDestroy(wm, id).model
    BY <1>2, <1>4 DEF DestroyWindow, Apply
  <2>2. CASE id \notin Tracked(wm)
    <3>1. n = wm
      BY <2>1, <2>2 DEF OnDestroy
    <3> QED
      BY <1>1, <1>2, <3>1, NothingRests DEF Moves
  <2>3. CASE id \in Tracked(wm)
    BY <1>1, <1>2, <2>1, <2>3, DestroyMoves DEF Moves
  <2> QED
    BY <2>2, <2>3
<1>5. CASE ActivateWindow
  <2>1. PICK id \in Ids : n = OnActivate(wm, id).model
    BY <1>2, <1>5 DEF ActivateWindow, Apply
  <2>2. CASE id \notin Tracked(wm) \/ ActiveWindow(wm) = id
    <3>1. n = wm
      BY <2>1, <2>2 DEF OnActivate
    <3> QED
      BY <1>1, <1>2, <3>1, NothingRests DEF Moves
  <2>3. CASE id \in Tracked(wm) /\ ActiveWindow(wm) # id
    BY <1>1, <1>2, <2>1, <2>3, ActivateMoves DEF Moves
  <2> QED
    BY <2>2, <2>3
<1>6. CASE SetTitle \/ SetAppId \/ Commit \/ PopupAdded \/ PopupRemoved
  <2>1. 0 .. MaxCommit \subseteq Nat
    BY ManagerAssumption
  <2>2. PICK id \in Ids :
          \/ \E name \in Names : n = OnTitle(wm, id, name) \/ n = OnAppId(wm, id, name)
          \/ \E commitSeq \in Nat : n = OnCommit(wm, id, commitSeq)
          \/ n = OnPopupAdded(wm, id) \/ n = OnPopupRemoved(wm, id)
    BY <1>2, <1>6, <2>1 DEF SetTitle, SetAppId, Commit, PopupAdded, PopupRemoved, Quietly
  <2>3. Rests(wm, n) /\ HistoryKept(wm, n)
    BY <1>1, <2>2, QuietOperatorsRest
  <2> QED
    BY <1>2, <2>3 DEF Moves
<1>7. CASE SetOutputSize
  <2>1. PICK rect \in Rects : n = OnOutputSize(wm, rect)
    BY <1>2, <1>7 DEF SetOutputSize
  <2> QED
    BY <1>1, <1>2, <2>1, OutputSizeRests DEF Moves
<1>8. CASE UNCHANGED vars
  <2>1. n = wm
    BY <1>2, <1>8 DEF vars
  <2> QED
    BY <1>1, <1>2, <2>1, NothingRests DEF Moves
<1> QED
  BY <1>3, <1>4, <1>5, <1>6, <1>7, <1>8 DEF Next

-----------------------------------------------------------------------------
(* Survivors keep their history.                                           *)

\* Two windows that stay change their order only when one becomes the front.
LEMMA OrderMoves ==
  ASSUME NEW m, WellFormed(m), NEW n, Moves(m, n),
         NEW v \in Tracked(m), NEW w \in Tracked(m), w \in Tracked(n),
         Before(m.mru, v, w), Before(n.mru, w, v)
  PROVE  w = ActiveWindow(n)
<1>1. m.mru \in Seq(Tracked(m)) /\ NoDup(m.mru) /\ Elems(m.mru) = Tracked(m)
  BY WellFormedFields
<1>2. ~Before(m.mru, w, v)
  BY <1>1, BeforeIsAnOrder
<1>3. CASE Rests(m, n)
  BY <1>2, <1>3 DEF Rests
<1>4. ASSUME NEW id, Opens(m, n, id)
      PROVE  FALSE
  <2>1. id \notin Elems(m.mru) /\ n.mru = Cons(id, m.mru) /\ id # w
    BY <1>1, <1>4 DEF Opens
  <2>2. m.mru \in Seq(Tracked(m) \cup {id})
    <3>1. m.mru \in [1 .. Len(m.mru) -> Tracked(m)] /\ Len(m.mru) \in Nat
      BY <1>1
    <3>2. m.mru \in [1 .. Len(m.mru) -> Tracked(m) \cup {id}]
      BY <3>1
    <3> QED
      BY <3>1, <3>2
  <2>3. Before(Cons(id, m.mru), w, v) <=> (w = id /\ v \in Elems(m.mru)) \/ Before(m.mru, w, v)
    BY <2>1, <2>2, BeforeInCons
  <2> QED
    BY <1>2, <2>1, <2>3
<1>5. ASSUME NEW id, Closes(m, n, id)
      PROVE  FALSE
  <2>1. id \in Elems(m.mru) /\ n.mru = Without(m.mru, id)
    BY <1>1, <1>5 DEF Closes
  <2>2. Before(Without(m.mru, id), w, v) <=> Before(m.mru, w, v) /\ w # id /\ v # id
    BY <1>1, <2>1, BeforeInWithout
  <2> QED
    BY <1>2, <2>1, <2>2
<1>6. ASSUME NEW id, Touches(m, n, id)
      PROVE  w = ActiveWindow(n)
  <2>1. PICK rest : rest = Without(m.mru, id)
    OBVIOUS
  <2>2. id \in Elems(m.mru) /\ id \in Tracked(m) /\ n.mru = Cons(id, rest)
    BY <1>1, <1>6, <2>1 DEF Touches
  <2>3. rest \in Seq(Tracked(m)) /\ id \notin Elems(rest)
    <3>1. /\ Without(m.mru, id) \in Seq(Tracked(m) \ {id})
          /\ Elems(Without(m.mru, id)) = Elems(m.mru) \ {id}
      BY <1>1, WithoutProperties
    <3>2. rest \in [1 .. Len(rest) -> Tracked(m) \ {id}] /\ Len(rest) \in Nat
      BY <2>1, <3>1
    <3>3. rest \in [1 .. Len(rest) -> Tracked(m)]
      BY <3>2
    <3> QED
      BY <2>1, <3>1, <3>2, <3>3
  <2>4. Before(Cons(id, rest), w, v) <=> (w = id /\ v \in Elems(rest)) \/ Before(rest, w, v)
    BY <2>2, <2>3, BeforeInCons
  <2>5. Before(rest, w, v) <=> Before(m.mru, w, v) /\ w # id /\ v # id
    BY <1>1, <2>1, <2>2, BeforeInWithout
  <2>6. w = id
    BY <1>2, <2>2, <2>4, <2>5
  <2>7. Cons(id, rest)[1] = id /\ Len(Cons(id, rest)) = Len(rest) + 1 /\ Len(rest) \in Nat
    BY <2>2, <2>3, ConsProperties
  <2>8. n.mru # << >>
    BY <2>2, <2>7
  <2> QED
    BY <2>2, <2>6, <2>7, <2>8 DEF ActiveWindow
<1> QED
  BY <1>3, <1>4, <1>5, <1>6 DEF Moves

(***************************************************************************)
(* No call of the manager rewrites the history of the others: creation     *)
(* data and commit counters (model.rs, record_mut) and the order in which  *)
(* the windows would come back (policy.rs, on_destroy's fallback).         *)
(***************************************************************************)
THEOREM HistoryIsKept == Spec => SurvivorsKeepHistory
<1>1. ASSUME IInv, [Next]_vars, NEW v \in Tracked(wm) \cap Tracked(wm'),
             NEW w \in Tracked(wm) \cap Tracked(wm')
      PROVE  /\ wm'.records[v].key = wm.records[v].key
             /\ wm'.records[v].createdSeq = wm.records[v].createdSeq
             /\ wm'.records[v].lastCommitSeq >= wm.records[v].lastCommitSeq
             /\ Before(wm.mru, v, w) /\ Before(wm'.mru, w, v) => w = ActiveWindow(wm')
  <2>1. WellFormed(wm) /\ Moves(wm, wm')
    BY <1>1, StepMoves, InvariantParts
  <2>2. SameHistory(wm.records[v], wm'.records[v])
    BY <1>1, <2>1 DEF Moves, HistoryKept
  <2>3. PICK n : n = wm'
    OBVIOUS
  <2>4. Before(wm.mru, v, w) /\ Before(n.mru, w, v) => w = ActiveWindow(n)
    BY <1>1, <2>1, <2>3, OrderMoves
  <2>5. ActiveWindow(n) = ActiveWindow(wm')
    BY <2>3
  <2> QED
    BY <2>2, <2>3, <2>4, <2>5 DEF SameHistory
<1>2. IInv /\ [Next]_vars =>
        [\A v, w \in Tracked(wm) \cap Tracked(wm') :
           /\ wm'.records[v].key = wm.records[v].key
           /\ wm'.records[v].createdSeq = wm.records[v].createdSeq
           /\ wm'.records[v].lastCommitSeq >= wm.records[v].lastCommitSeq
           /\ Before(wm.mru, v, w) /\ Before(wm'.mru, w, v) => w = ActiveWindow(wm')]_vars
  BY <1>1
<1> QED
  BY <1>2, InvariantHolds, PTL DEF Spec, SurvivorsKeepHistory

-----------------------------------------------------------------------------
(* The refinement of the focus stack.                                      *)

\* The recency relation of a model, pair by pair.
RecencyOf(m) == {p \in Tracked(m) \X Tracked(m) : Before(m.mru, p[1], p[2])}

ActiveOf(m) ==
  IF \E w \in Tracked(m) : m.records[w].state = "active"
  THEN CHOOSE w \in Tracked(m) : m.records[w].state = "active"
  ELSE NoWindow

LEMMA RecencyPairs ==
  ASSUME NEW m
  PROVE  /\ RecencyOf(m) \subseteq Tracked(m) \X Tracked(m)
         /\ \A v, w : << v, w >> \in RecencyOf(m) <=>
                        v \in Tracked(m) /\ w \in Tracked(m) /\ Before(m.mru, v, w)
BY DEF RecencyOf

\* The one Active record is the front of the list.
LEMMA ActiveRecordIsFront ==
  ASSUME NEW m, WellFormed(m)
  PROVE  ActiveOf(m) = ActiveWindow(m)
<1>1. /\ ActiveWindow(m) = NoWindow <=> m.mru = << >>
      /\ m.mru = << >> <=> Tracked(m) = {}
      /\ m.mru # << >> => ActiveWindow(m) = m.mru[1] /\ m.mru[1] \in Tracked(m)
  BY ActiveIsTracked
<1>2. \A w \in Tracked(m) : m.records[w].state = "active" <=> w = ActiveWindow(m)
  BY DEF WellFormed, Agree
<1>3. CASE Tracked(m) = {}
  BY <1>1, <1>3 DEF ActiveOf
<1>4. CASE Tracked(m) # {}
  <2>1. ActiveWindow(m) \in Tracked(m)
    BY <1>1, <1>4
  <2> QED
    BY <1>2, <2>1 DEF ActiveOf
<1> QED
  BY <1>3, <1>4

\* The front is the newest window there is.
LEMMA FrontIsNewest ==
  ASSUME NEW m, WellFormed(m)
  PROVE  Stack!FrontOf(Tracked(m), RecencyOf(m)) = ActiveWindow(m)
<1>1. m.mru \in Seq(Tracked(m)) /\ NoDup(m.mru) /\ Elems(m.mru) = Tracked(m)
  BY WellFormedFields
<1>2. CASE Tracked(m) = {}
  BY <1>2, ActiveIsTracked DEF Stack!FrontOf
<1>3. CASE Tracked(m) # {}
  <2>1. m.mru # << >> /\ ActiveWindow(m) = m.mru[1] /\ m.mru[1] \in Tracked(m)
    BY <1>3, ActiveIsTracked
  <2>2. PICK first : first = m.mru[1]
    OBVIOUS
  <2>3. first \in Tracked(m) /\ \A w \in Tracked(m) \ {first} : Before(m.mru, first, w)
    BY <1>1, <2>1, <2>2, FirstIsBefore
  <2>4. \A w \in Tracked(m) \ {first} : ~Before(m.mru, w, first)
    BY <1>1, <2>3, BeforeIsAnOrder
  <2>5. Stack!Newest(Tracked(m), RecencyOf(m)) = {first}
    BY <2>3, <2>4, RecencyPairs DEF Stack!Newest
  <2> QED
    BY <1>3, <2>1, <2>2, <2>5 DEF Stack!FrontOf
<1> QED
  BY <1>2, <1>3

\* on_map opens a window in front of all others.
LEMMA OpensIsOpen ==
  ASSUME NEW m, WellFormed(m), NEW n, WellFormed(n), NEW id, Opens(m, n, id)
  PROVE  /\ RecencyOf(n) = RecencyOf(m) \cup ({id} \X Tracked(m))
         /\ ActiveWindow(n) = id
<1>1. /\ m.mru \in Seq(Tracked(m)) /\ Elems(m.mru) = Tracked(m) /\ id \notin Elems(m.mru)
      /\ Tracked(n) = Tracked(m) \cup {id} /\ n.mru = Cons(id, m.mru)
  BY WellFormedFields DEF Opens
<1>2. m.mru \in Seq(Tracked(n)) /\ id \in Tracked(n)
  <2>1. m.mru \in [1 .. Len(m.mru) -> Tracked(m)] /\ Len(m.mru) \in Nat
    BY <1>1
  <2>2. m.mru \in [1 .. Len(m.mru) -> Tracked(n)]
    BY <1>1, <2>1
  <2> QED
    BY <1>1, <2>1, <2>2
<1>3. \A v, w : Before(n.mru, v, w) <=> (v = id /\ w \in Tracked(m)) \/ Before(m.mru, v, w)
  BY <1>1, <1>2, BeforeInCons
<1>4. \A v, w : Before(m.mru, v, w) => v \in Tracked(m) /\ w \in Tracked(m)
  BY <1>1, WellFormedFields, BeforeIsAnOrder
<1>5. \A v, w : << v, w >> \in RecencyOf(n) <=>
                  << v, w >> \in RecencyOf(m) \/ (v = id /\ w \in Tracked(m))
  BY <1>1, <1>3, <1>4, RecencyPairs
<1>6. RecencyOf(n) = RecencyOf(m) \cup ({id} \X Tracked(m))
  <2>1. RecencyOf(m) \subseteq Tracked(m) \X Tracked(m)
        /\ RecencyOf(n) \subseteq Tracked(n) \X Tracked(n)
    BY RecencyPairs
  <2> QED
    BY <1>1, <1>5, <2>1
<1>7. ActiveWindow(n) = id
  <2>1. Cons(id, m.mru)[1] = id /\ Len(Cons(id, m.mru)) = Len(m.mru) + 1 /\ Len(m.mru) \in Nat
    <3>1. Cons(id, m.mru)[1] = id
      BY <1>2, ConsProperties
    <3>2. Len(Cons(id, m.mru)) = Len(m.mru) + 1
      BY <1>2, ConsProperties
    <3> QED
      BY <1>2, <3>1, <3>2
  <2>2. n.mru # << >>
    BY <1>1, <2>1
  <2> QED
    BY <1>1, <2>1, <2>2 DEF ActiveWindow
<1> QED
  BY <1>6, <1>7

\* on_destroy closes it, and falls back only when it was the front.
LEMMA ClosesIsClose ==
  ASSUME NEW m, WellFormed(m), NEW n, WellFormed(n), NEW id, Closes(m, n, id)
  PROVE  /\ RecencyOf(n) = RecencyOf(m) \cap (Tracked(n) \X Tracked(n))
         /\ ActiveWindow(m) # id => ActiveWindow(n) = ActiveWindow(m)
<1>1. /\ m.mru \in Seq(Tracked(m)) /\ Elems(m.mru) = Tracked(m) /\ NoDup(m.mru)
      /\ id \in Elems(m.mru)
      /\ Tracked(n) = Tracked(m) \ {id} /\ n.mru = Without(m.mru, id)
  BY WellFormedFields DEF Closes
<1>2. \A v, w : Before(n.mru, v, w) <=> Before(m.mru, v, w) /\ v # id /\ w # id
  BY <1>1, BeforeInWithout
<1>3. \A v, w : << v, w >> \in RecencyOf(n) <=>
                  << v, w >> \in RecencyOf(m) /\ v \in Tracked(n) /\ w \in Tracked(n)
  BY <1>1, <1>2, RecencyPairs
<1>4. RecencyOf(n) = RecencyOf(m) \cap (Tracked(n) \X Tracked(n))
  <2>1. RecencyOf(n) \subseteq Tracked(n) \X Tracked(n)
    BY RecencyPairs
  <2> QED
    BY <1>3, <2>1
<1>5. ASSUME ActiveWindow(m) # id
      PROVE  ActiveWindow(n) = ActiveWindow(m)
  <2>1. m.mru # << >> /\ ActiveWindow(m) = m.mru[1]
    BY <1>1, ActiveIsTracked
  <2>2. Len(m.mru) > 0 /\ m.mru[1] # id
    BY <1>1, <1>5, <2>1
  <2>3. Without(m.mru, id)[1] = m.mru[1]
    BY <1>1, <2>2, WithoutProperties
  <2>4. m.mru[1] \in Tracked(n)
    BY <1>1, <2>1, <2>2, ActiveIsTracked
  <2>5. n.mru # << >>
    BY <2>4, ActiveIsTracked
  <2> QED
    BY <1>1, <2>1, <2>3, <2>5 DEF ActiveWindow
<1> QED
  BY <1>4, <1>5

\* activate touches it.
LEMMA TouchesIsTouch ==
  ASSUME NEW m, WellFormed(m), NEW n, WellFormed(n), NEW id, Touches(m, n, id)
  PROVE  /\ RecencyOf(n) = (RecencyOf(m) \ (Tracked(m) \X {id}))
                             \cup ({id} \X (Tracked(m) \ {id}))
         /\ ActiveWindow(n) = id
<1>1. PICK rest : rest = Without(m.mru, id)
  OBVIOUS
<1>2. /\ m.mru \in Seq(Tracked(m)) /\ Elems(m.mru) = Tracked(m) /\ NoDup(m.mru)
      /\ id \in Elems(m.mru) /\ Tracked(n) = Tracked(m) /\ n.mru = Cons(id, rest)
  BY <1>1, WellFormedFields DEF Touches
<1>3. rest \in Seq(Tracked(m)) /\ Elems(rest) = Tracked(m) \ {id}
  <2>1. /\ Without(m.mru, id) \in Seq(Tracked(m) \ {id})
        /\ Elems(Without(m.mru, id)) = Elems(m.mru) \ {id}
    BY <1>2, WithoutProperties
  <2>2. rest \in [1 .. Len(rest) -> Tracked(m) \ {id}] /\ Len(rest) \in Nat
    BY <1>1, <2>1
  <2>3. rest \in [1 .. Len(rest) -> Tracked(m)]
    BY <2>2
  <2> QED
    BY <1>1, <1>2, <2>1, <2>2, <2>3
<1>4. \A v, w : Before(rest, v, w) <=> Before(m.mru, v, w) /\ v # id /\ w # id
  BY <1>1, <1>2, BeforeInWithout
<1>5. \A v, w : Before(n.mru, v, w) <=>
                  (v = id /\ w \in Tracked(m) \ {id}) \/ Before(rest, v, w)
  <2>1. id \notin Elems(rest) /\ id \in Tracked(m)
    BY <1>2, <1>3
  <2> QED
    BY <1>2, <1>3, <2>1, BeforeInCons
<1>6. \A v, w : << v, w >> \in RecencyOf(n) <=>
                  \/ << v, w >> \in RecencyOf(m) /\ w # id
                  \/ v = id /\ w \in Tracked(m) \ {id}
  <2> SUFFICES ASSUME NEW v, NEW w
               PROVE  << v, w >> \in RecencyOf(n) <=>
                        \/ << v, w >> \in RecencyOf(m) /\ w # id
                        \/ v = id /\ w \in Tracked(m) \ {id}
    OBVIOUS
  <2>1. << v, w >> \in RecencyOf(m) <=> v \in Tracked(m) /\ w \in Tracked(m) /\ Before(m.mru, v, w)
    BY RecencyPairs
  <2>2. << v, w >> \in RecencyOf(n) <=> v \in Tracked(m) /\ w \in Tracked(m) /\ Before(n.mru, v, w)
    BY <1>2, RecencyPairs
  <2>3. Before(n.mru, v, w) <=> (v = id /\ w \in Tracked(m) \ {id})
                                  \/ (Before(m.mru, v, w) /\ v # id /\ w # id)
    BY <1>4, <1>5
  <2>4. id \in Tracked(m)
    BY <1>2
  <2> QED
    BY <2>1, <2>2, <2>3, <2>4
<1>7. RecencyOf(n) = (RecencyOf(m) \ (Tracked(m) \X {id})) \cup ({id} \X (Tracked(m) \ {id}))
  <2>1. RecencyOf(m) \subseteq Tracked(m) \X Tracked(m)
        /\ RecencyOf(n) \subseteq Tracked(m) \X Tracked(m)
    BY <1>2, RecencyPairs
  <2> QED
    BY <1>2, <1>6, <2>1
<1>8. ActiveWindow(n) = id
  <2>1. Cons(id, rest)[1] = id /\ Len(Cons(id, rest)) = Len(rest) + 1 /\ Len(rest) \in Nat
    BY <1>2, <1>3, ConsProperties
  <2>2. n.mru # << >>
    BY <1>2, <2>1
  <2> QED
    BY <1>2, <2>1, <2>2 DEF ActiveWindow
<1> QED
  BY <1>7, <1>8

\* Every move of the manager is a step of the focus stack or none.
LEMMA MoveIsStackStep ==
  ASSUME IInv, IInv', Moves(wm, wm')
  PROVE  [Stack!Next]_(Stack!fvars)
<1>1. PICK m, n : m = wm /\ n = wm'
  OBVIOUS
<1>2. WellFormed(m) /\ WellFormed(n) /\ Moves(m, n)
  BY <1>1, InvariantParts, InvariantPartsNext
<1>3. /\ Recency = RecencyOf(m) /\ Recency' = RecencyOf(n)
      /\ ActiveRecord = ActiveOf(m) /\ ActiveRecord' = ActiveOf(n)
      /\ Tracked(wm) = Tracked(m) /\ Tracked(wm)' = Tracked(n)
  BY <1>1 DEF Recency, RecencyOf, ActiveRecord, ActiveOf, Tracked, Before
<1>4. ActiveOf(m) = ActiveWindow(m) /\ ActiveOf(n) = ActiveWindow(n)
  BY <1>2, ActiveRecordIsFront
<1>5. CASE Rests(m, n)
  <2>1. Tracked(n) = Tracked(m) /\ RecencyOf(n) = RecencyOf(m) /\ ActiveWindow(n) = ActiveWindow(m)
    BY <1>5 DEF Rests, RecencyOf, ActiveWindow
  <2> QED
    BY <1>3, <1>4, <2>1 DEF Stack!fvars
<1>6. ASSUME NEW id \in Ids, Opens(m, n, id)
      PROVE  Stack!Next
  <2>1. /\ RecencyOf(n) = RecencyOf(m) \cup ({id} \X Tracked(m))
        /\ ActiveWindow(n) = id
    BY <1>2, <1>6, OpensIsOpen
  <2>2. Stack!Open(id)
    BY <1>3, <1>4, <1>6, <2>1 DEF Stack!Open, Opens
  <2> QED
    BY <2>2 DEF Stack!Next
<1>7. ASSUME NEW id \in Ids, Closes(m, n, id)
      PROVE  Stack!Next
  <2>1. /\ RecencyOf(n) = RecencyOf(m) \cap (Tracked(n) \X Tracked(n))
        /\ ActiveWindow(m) # id => ActiveWindow(n) = ActiveWindow(m)
    BY <1>2, <1>7, ClosesIsClose
  <2>2. Stack!FrontOf(Tracked(n), RecencyOf(n)) = ActiveWindow(n)
    BY <1>2, FrontIsNewest
  <2>3. Stack!Close(id)
    BY <1>3, <1>4, <1>7, <2>1, <2>2 DEF Stack!Close, Closes
  <2> QED
    BY <2>3 DEF Stack!Next
<1>8. ASSUME NEW id \in Ids, Touches(m, n, id)
      PROVE  Stack!Next
  <2>1. /\ RecencyOf(n) = (RecencyOf(m) \ (Tracked(m) \X {id}))
                            \cup ({id} \X (Tracked(m) \ {id}))
        /\ ActiveWindow(n) = id
    BY <1>2, <1>8, TouchesIsTouch
  <2>2. Stack!Touch(id)
    BY <1>3, <1>4, <1>8, <2>1 DEF Stack!Touch, Touches
  <2> QED
    BY <2>2 DEF Stack!Next
<1> QED
  BY <1>2, <1>5, <1>6, <1>7, <1>8 DEF Moves

(***************************************************************************)
(* The refinement: whatever calls the manager gets, the window whose       *)
(* record is Active is the most recently used open window, where on_map    *)
(* opens, on_destroy closes and activate touches (policy.rs).              *)
(***************************************************************************)
THEOREM ManagerImplementsFocusStack == Spec => ImplementsFocusStack
<1>1. Init => Stack!Init
  <2> SUFFICES ASSUME Init
               PROVE  Stack!Init
    OBVIOUS
  <2>1. Tracked(wm) = {}
    BY DEF Init, EmptyModel, NoEntries, Tracked
  <2> QED
    BY <2>1 DEF Stack!Init, Recency, ActiveRecord
<1>2. IInv /\ IInv' /\ [Next]_vars => [Stack!Next]_(Stack!fvars)
  BY StepMoves, MoveIsStackStep
<1> QED
  BY <1>1, <1>2, InvariantHolds, PTL DEF Spec, ImplementsFocusStack, Stack!Spec
=============================================================================
