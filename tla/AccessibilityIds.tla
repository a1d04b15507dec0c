--------------------------- MODULE AccessibilityIds ---------------------------
(***************************************************************************)
(* AccessibilityService of adesk-a11y: tree, find and invoke requests of   *)
(* several clients over one registry of element ids. A request awaits the  *)
(* toolkit, bounded by a timeout, and holds the registry only to assign or *)
(* to look up ids, so elements die and other requests run in between.      *)
(***************************************************************************)
EXTENDS Maps

CONSTANTS
    Agents,          \* clients, one request at a time each
    Elements,        \* element handles, each used by the toolkit for one element only
    RegistryCap,     \* MAX_TRACKED_ELEMENTS
    MaxNodeIds,      \* bound: ids ever assigned
    None

VARIABLES
    alive,       \* elements the toolkit still has
    trees,       \* per agent: None, or the snapshot it awaits the registry with
    invoking,    \* per agent: None, or [id, handle] of the action it awaits
    byId,        \* Registry::by_id
    byHandle,    \* Registry::by_handle
    nextNode,    \* Registry::next
    named,       \* every id a client was given, with the element it was given for
    acted        \* every id an action was carried out for, with the element it reached

a11yVars == << alive, trees, invoking, byId, byHandle, nextNode, named, acted >>

A11yInit ==
    /\ alive = Elements
    /\ trees = [a \in Agents |-> None] /\ invoking = [a \in Agents |-> None]
    /\ byId = NoEntries /\ byHandle = NoEntries /\ nextNode = 0
    /\ named = {} /\ acted = {}

Free(a) == trees[a] = None /\ invoking[a] = None

\* What a walk brings back: the living elements in some order, all of them or, when a bound or
\* the filters of find cut it, some. It may also fail or run out of time, which changes nothing.
Snapshots ==
    {nodes \in UNION {[1..n -> alive] : n \in 1..Cardinality(alive)} : NoDup(nodes)}

Walk(a) ==
    /\ Free(a) /\ \E nodes \in Snapshots : trees' = [trees EXCEPT ![a] = nodes]
    /\ UNCHANGED << alive, invoking, byId, byHandle, nextNode, named, acted >>

Registry == [byId |-> byId, byHandle |-> byHandle, next |-> nextNode]

\* Mutant of Cleared: a full registry starts numbering anew.
Restarted(r) == IF Cardinality(DOMAIN r.byHandle) >= RegistryCap
                THEN [byId |-> NoEntries, byHandle |-> NoEntries, next |-> 0] ELSE r

\* Registry::assign: a full registry forgets every element before it takes a new one.
Cleared(r) == IF Cardinality(DOMAIN r.byHandle) >= RegistryCap
              THEN [r EXCEPT !.byId = NoEntries, !.byHandle = NoEntries] ELSE r

Added(r, handle) ==
    [byId |-> Put(r.byId, r.next, handle), byHandle |-> Put(r.byHandle, handle, r.next),
     next |-> r.next + 1]

Assign(r, handle) ==
    IF handle \in DOMAIN r.byHandle THEN r ELSE Added(Cleared(r), handle)

\* The next node of an answer is assigned, and named by the id it got.
AssignNext(acc, handle) ==
    LET r == Assign(acc.registry, handle)
    IN  [registry |-> r, ids |-> acc.ids \cup {<< r.byHandle[handle], handle >>}]

\* One answer assigns its nodes in order, under one lock.
AssignAll(nodes) ==
    LET after[k \in 0..Len(nodes)] ==
          IF k = 0 THEN [registry |-> Registry, ids |-> {}]
          ELSE AssignNext(after[k - 1], nodes[k])
    IN  after[Len(nodes)]

AnswerTree(a) ==
    /\ trees[a] /= None
    /\ LET done == AssignAll(trees[a])
       IN  /\ done.registry.next <= MaxNodeIds
           /\ byId' = done.registry.byId /\ byHandle' = done.registry.byHandle
           /\ nextNode' = done.registry.next
           /\ named' = named \cup done.ids
    /\ trees' = [trees EXCEPT ![a] = None]
    /\ UNCHANGED << alive, invoking, acted >>

\* invoke resolves the id under the lock, and is refused when it is not known (any more).
Invoke(a) ==
    /\ Free(a)
    /\ \E id \in {t[1] : t \in named} \cap DOMAIN byId :
         invoking' = [invoking EXCEPT ![a] = << id, byId[id] >>]
    /\ UNCHANGED << alive, trees, byId, byHandle, nextNode, named, acted >>

\* The toolkit acts if the element is still there; an answer that comes too late is dropped.
Actuate(a) ==
    /\ invoking[a] /= None
    /\ acted' = IF invoking[a][2] \in alive THEN acted \cup {invoking[a]} ELSE acted
    /\ invoking' = [invoking EXCEPT ![a] = None]
    /\ UNCHANGED << alive, trees, byId, byHandle, nextNode, named >>

ElementDies ==
    /\ \E handle \in alive : alive' = alive \ {handle}
    /\ UNCHANGED << trees, invoking, byId, byHandle, nextNode, named, acted >>

A11yNext ==
    \/ \E a \in Agents : Walk(a) \/ AnswerTree(a) \/ Invoke(a) \/ Actuate(a)
    \/ ElementDies

A11ySpec == A11yInit /\ [][A11yNext]_a11yVars

-----------------------------------------------------------------------------
(* Properties.                                                             *)

\* accessibility.md:170: an id never names a different element, whatever the registry forgot
\* since it was handed out: an action carried out for an id reaches the element the id was
\* given for, and while the registry knows the id it knows that element.
IdsNeverChangeMeaning ==
    /\ acted \subseteq named
    /\ \A t \in named : t[1] \in DOMAIN byId => byId[t[1]] = t[2]
    /\ \A s, t \in named : s[1] = t[1] => s[2] = t[2]

\* Does not hold once the registry was full. accessibility.md:163: an element keeps its id as long as it lives.
LivingElementsKeepTheirId ==
    \A s, t \in named : s[2] = t[2] => s[1] = t[1]
=============================================================================
