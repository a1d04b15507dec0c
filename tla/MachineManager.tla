---------------------------- MODULE MachineManager ----------------------------
(***************************************************************************)
(* MachineManager of adesk-machine: concurrent lifecycle calls over a      *)
(* container backend, each a chain of awaited backend calls that ends with *)
(* a change to the registry, the manager's cache of names. The registry's  *)
(* lock is held only for single lookups and changes.                       *)
(***************************************************************************)
EXTENDS Maps

CONSTANTS
    Callers,         \* tasks that drive the manager, one call at a time each
    Names,
    Calls,           \* the operations called
    MaxMachines,     \* bound: machines ever created
    MayFail          \* whether a backend call may fail for no reason of ours

\* What each operation does after its registry lookup, in order: backend calls, then the
\* registry.
Steps(op) ==
    CASE op = "create"  -> << "create", "status", "insert" >>
      [] op = "start"   -> << "start", "status", "update" >>
      [] op = "stop"    -> << "stop", "status", "update" >>
      [] op = "restart" -> << "stop", "status", "update", "resolve", "start", "status", "update" >>
      [] op = "remove"  -> << "status", "remove", "forget" >>
      [] op = "status"  -> << "status", "update" >>
      [] op = "list"    -> << "ps", "inspect", "replace" >>

VARIABLES
    machines,   \* the backend: id |-> [name, state]
    created,    \* machines created so far, the last id
    known,      \* MachineRegistry: name |-> the last known status
    calls,      \* per caller: the call it is in, or << >>
    overtaken   \* names whose entry was written by a call the backend had overtaken

machineVars == << machines, created, known, calls, overtaken >>

MachineInit ==
    /\ machines = NoEntries /\ created = 0 /\ known = NoEntries
    /\ calls = [c \in Callers |-> << >>]
    /\ overtaken = {}

Busy(c)     == calls[c] /= << >>
NextStep(c) == Head(calls[c].todo)
IdOf(n)     == known[n].id
Status(id)  == [id |-> id, name |-> machines[id].name, state |-> machines[id].state]
Exists(id)  == id \in DOMAIN machines
Return(c)   == calls' = [calls EXCEPT ![c] = << >>]
Advance(c, call) ==
    calls' = [calls EXCEPT ![c] = IF Len(call.todo) = 1 THEN << >>
                                  ELSE [call EXCEPT !.todo = Tail(@)]]

\* A name that is not free for create, or unknown to the other calls, is refused at once.
Begin(c) ==
    /\ ~Busy(c)
    /\ \E op \in Calls, n \in Names :
         /\ op = "create" => n \notin DOMAIN known
         /\ op \notin {"create", "list"} => n \in DOMAIN known
         /\ calls' = [calls EXCEPT ![c] =
                [op |-> op, name |-> n, id |-> IF n \in DOMAIN known THEN IdOf(n) ELSE 0,
                 todo |-> Steps(op), seen |-> {}, toRead |-> {}]]
    /\ UNCHANGED << machines, created, known, overtaken >>

-----------------------------------------------------------------------------
(* The backend.                                                            *)

NameTaken(n) == \E id \in DOMAIN machines : machines[id].name = n

\* A create that clashes with a name the backend knows is reported like a local clash.
CreateMachine(c) ==
    /\ NextStep(c) = "create" /\ created < MaxMachines
    /\ IF NameTaken(calls[c].name)
       THEN Return(c) /\ UNCHANGED << machines, created >>
       ELSE /\ created' = created + 1
            /\ machines' = Put(machines, created', [name |-> calls[c].name, state |-> "created"])
            /\ Advance(c, [calls[c] EXCEPT !.id = created'])

\* start and stop fail when the machine is gone, or in no state for them.
Startable == {"created", "stopped"}

Transition(c, step, from, to) ==
    /\ NextStep(c) = step
    /\ IF Exists(calls[c].id) /\ machines[calls[c].id].state \in from
       THEN /\ machines' = [machines EXCEPT ![calls[c].id].state = to]
            /\ Advance(c, calls[c])
       ELSE Return(c) /\ UNCHANGED machines
    /\ UNCHANGED created

\* remove with or without force: without, a running machine is refused.
RemoveMachine(c) ==
    /\ NextStep(c) = "remove"
    /\ \E force \in BOOLEAN :
         IF Exists(calls[c].id) /\ (force \/ machines[calls[c].id].state /= "running")
         THEN machines' = Drop(machines, {calls[c].id}) /\ Advance(c, calls[c])
         ELSE Return(c) /\ UNCHANGED machines
    /\ UNCHANGED created

ReadStatus(c) ==
    /\ NextStep(c) = "status"
    /\ IF Exists(calls[c].id) THEN Advance(c, [calls[c] EXCEPT !.seen = {Status(calls[c].id)}])
       ELSE Return(c)
    /\ UNCHANGED << machines, created >>

\* list reads the ids, then every machine on its own; one that is gone by then fails it.
ListIds(c) ==
    /\ NextStep(c) = "ps"
    /\ Advance(c, [calls[c] EXCEPT !.toRead = DOMAIN machines])
    /\ UNCHANGED << machines, created >>

Inspect(c) ==
    /\ NextStep(c) = "inspect"
    /\ IF calls[c].toRead = {} THEN Advance(c, calls[c])
       ELSE LET id == CHOOSE i \in calls[c].toRead : \A j \in calls[c].toRead : i <= j
            IN  IF Exists(id)
                THEN calls' = [calls EXCEPT ![c].toRead = @ \ {id}, ![c].seen = @ \cup {Status(id)}]
                ELSE Return(c)
    /\ UNCHANGED << machines, created >>

\* A create whose machine cannot be read back leaves it in the backend, unknown.
BackendFails(c) ==
    /\ MayFail /\ NextStep(c) \in {"create", "start", "stop", "remove", "status", "ps", "inspect"}
    /\ Return(c)
    /\ overtaken' = IF calls[c].op = "create" /\ NextStep(c) = "status"
                    THEN overtaken \cup {calls[c].name} ELSE overtaken
    /\ UNCHANGED << machines, created, known >>

CallBackend(c) ==
    /\ \/ CreateMachine(c) \/ RemoveMachine(c) \/ ReadStatus(c) \/ ListIds(c) \/ Inspect(c)
       \/ Transition(c, "start", Startable, "running")
       \/ Transition(c, "stop", {"running"}, "stopped")
    /\ UNCHANGED << known, overtaken >>

-----------------------------------------------------------------------------
(* The registry.                                                           *)

Seen(c) == CHOOSE s \in calls[c].seen : TRUE
Mark(n, isOvertaken) == overtaken' = IF isOvertaken THEN overtaken \cup {n} ELSE overtaken

Insert(c) ==
    /\ NextStep(c) = "insert"
    /\ known' = Put(known, calls[c].name, Seen(c))
    /\ Mark(calls[c].name, ~Exists(Seen(c).id))
    /\ Advance(c, calls[c])

\* Mutant of Update: an unknown name is inserted.
UpdateOrInsert(registry, n, status) == Put(registry, n, status)

\* update ignores names that are unknown, and takes the id of the others from the status.
Update(registry, n, status) == IF n \in DOMAIN registry THEN Put(registry, n, status) ELSE registry

UpdateEntry(c) ==
    /\ NextStep(c) = "update"
    /\ known' = Update(known, calls[c].name, Seen(c))
    /\ Mark(calls[c].name, calls[c].name \in DOMAIN known /\ IdOf(calls[c].name) /= Seen(c).id)
    /\ Advance(c, calls[c])

\* restart looks the name up again before it starts the machine.
ResolveAgain(c) ==
    /\ NextStep(c) = "resolve"
    /\ IF calls[c].name \in DOMAIN known
       THEN Advance(c, [calls[c] EXCEPT !.id = IdOf(calls[c].name)])
       ELSE Return(c)
    /\ UNCHANGED << known, overtaken >>

Forget(c) ==
    /\ NextStep(c) = "forget"
    /\ known' = Drop(known, {calls[c].name})
    /\ Mark(calls[c].name, calls[c].name \in DOMAIN known /\ IdOf(calls[c].name) /= calls[c].id)
    /\ Advance(c, calls[c])

\* list: the registry is rebuilt from what was read, whatever happened since.
Replace(c) ==
    /\ NextStep(c) = "replace"
    /\ known' = [n \in {s.name : s \in calls[c].seen} |-> CHOOSE s \in calls[c].seen : s.name = n]
    /\ overtaken' = {n \in Names : {s.id : s \in {x \in calls[c].seen : x.name = n}}
                                     /= {id \in DOMAIN machines : machines[id].name = n}}
    /\ Advance(c, calls[c])

UseRegistry(c) ==
    /\ Insert(c) \/ UpdateEntry(c) \/ ResolveAgain(c) \/ Forget(c) \/ Replace(c)
    /\ UNCHANGED << machines, created >>

MachineNext ==
    \E c \in Callers : Begin(c) \/ (Busy(c) /\ (CallBackend(c) \/ BackendFails(c) \/ UseRegistry(c)))

MachineSpec == MachineInit /\ [][MachineNext]_machineVars

-----------------------------------------------------------------------------
(* Properties.                                                             *)

Idle == \A c \in Callers : ~Busy(c)

\* With no call in flight the registry names the machines of the backend and their ids, but
\* for the names whose entry an overtaken call wrote; a late status never brings a removed
\* machine back (registry.rs:62), and a list that nothing overtook repairs every name
\* (manager.rs:30).
CacheAgreesWhenIdle ==
    Idle => \A n \in Names \ overtaken : \A id \in 1..created :
        (n \in DOMAIN known /\ IdOf(n) = id) <=> (Exists(id) /\ machines[id].name = n)

\* Does not hold, a late status brings an old id back. registry.rs:63: the association of a name and an id is established by insert, and update
\* only refreshes it.
UpdateKeepsAssociation ==
    [][\A c \in Callers : Busy(c) /\ UpdateEntry(c) =>
          \A n \in DOMAIN known : known'[n].id = IdOf(n)]_machineVars
=============================================================================
