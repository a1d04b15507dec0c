------------------------------ MODULE InputGate ------------------------------
(***************************************************************************)
(* The input methods of adesk-server: a request task expands a method into *)
(* compositor commands while it holds its connection's gate, and awaits    *)
(* the reply of each. The seat, its pressed buttons and the remembered     *)
(* cursor are shared by all connections.                                   *)
(***************************************************************************)
EXTENDS Naturals, Sequences

CONSTANTS
    Sessions,
    Methods,         \* what a session may submit, see Method below
    Desktop,         \* the windows
    MaxInputs,       \* bound: methods submitted per session
    NoWindow

Method(name, window) == [name |-> name, window |-> window]

\* Mutant of Commands: a click releases before it presses.
CommandsReversed(name) ==
    CASE name = "pointer_move" -> << "rect", "move" >>
      [] name = "click"        -> << "rect", "move", "release", "press" >>
      [] name = "mouse_down"   -> << "rect", "move", "press" >>
      [] name = "mouse_up"     -> << "rect", "move", "release" >>
      [] name = "scroll"       -> << "rect", "move", "axis" >>
      [] name = "drag"         -> << "rect", "move", "press", "move", "release" >>
      [] name = "keypress"     -> << "focus", "activate", "tap" >>

\* The commands a method expands into, in order.
Commands(name) ==
    CASE name = "pointer_move" -> << "rect", "move" >>
      [] name = "click"        -> << "rect", "move", "press", "release" >>
      [] name = "mouse_down"   -> << "rect", "move", "press" >>
      [] name = "mouse_up"     -> << "rect", "move", "release" >>
      [] name = "scroll"       -> << "rect", "move", "axis" >>
      [] name = "drag"         -> << "rect", "move", "press", "move", "release" >>
      [] name = "keypress"     -> << "focus", "activate", "tap" >>

VARIABLES
    inputs,    \* per session: the methods submitted, in order
    arriving,  \* requests whose task has not reached the gate yet
    gate,      \* per session: the tasks at the gate, the first one holds it
    progress,  \* per request: its commands done so far
    served,    \* the commands the compositor served, in order
    live,      \* windows that exist
    focused,   \* the window with the keyboard focus
    held,      \* whether the button is pressed on the seat
    cursor,    \* the window the remembered pointer position was computed for
    failed     \* requests answered with an error

inputVars == << inputs, arriving, gate, progress, served, live, focused, held, cursor, failed >>

InputInit ==
    /\ inputs = [s \in Sessions |-> << >>]
    /\ arriving = {}
    /\ gate = [s \in Sessions |-> << >>]
    /\ progress = [s \in Sessions |-> [n \in 1..MaxInputs |-> 0]]
    /\ served = << >>
    /\ live = Desktop /\ focused \in Desktop
    /\ held = FALSE /\ cursor = NoWindow /\ failed = {}

\* The reader spawns one task per request, in the order of the requests.
Submit(s) ==
    /\ Len(inputs[s]) < MaxInputs
    /\ \E m \in Methods : inputs' = [inputs EXCEPT ![s] = Append(@, m)]
    /\ arriving' = arriving \cup {<< s, Len(inputs[s]) + 1 >>}
    /\ UNCHANGED << gate, progress, served, live, focused, held, cursor, failed >>

\* Mutant of Lock: a newcomer goes to the front.
LockAtFront(s, n) ==
    /\ << s, n >> \in arriving
    /\ arriving' = arriving \ {<< s, n >>}
    /\ gate' = [gate EXCEPT ![s] = << n >> \o @]
    /\ UNCHANGED << inputs, progress, served, live, focused, held, cursor, failed >>

\* InputQueue::run: the tasks run concurrently and queue in the order they get there.
Lock(s, n) ==
    /\ << s, n >> \in arriving
    /\ arriving' = arriving \ {<< s, n >>}
    /\ gate' = [gate EXCEPT ![s] = Append(@, n)]
    /\ UNCHANGED << inputs, progress, served, live, focused, held, cursor, failed >>

Holder(s)  == Head(gate[s])
Current(s) == inputs[s][Holder(s)]
Done(s)    == progress[s][Holder(s)]
Command(s) == Commands(Current(s).name)[Done(s) + 1]
IsLast(s)  == Done(s) + 1 = Len(Commands(Current(s).name))

Release(s) == gate' = [gate EXCEPT ![s] = Tail(@)]

\* Whether the compositor can serve the command: the window must exist, and the seat needs
\* a window with the focus.
Serves(s) ==
    CASE Command(s) \in {"rect", "focus", "activate"} -> Current(s).window \in live
      [] OTHER -> focused /= NoWindow

\* The commands that only read state, or find nothing to do.
IsRead(s) ==
    \/ Command(s) \in {"rect", "focus"}
    \/ Command(s) = "activate" /\ focused = Current(s).window

\* One command and its reply; the answer is awaited before the next one.
Serve(s) ==
    /\ gate[s] /= << >> /\ Serves(s)
    /\ served' = IF IsRead(s) THEN served
                 ELSE Append(served, [from |-> s, n |-> Holder(s), cmd |-> Command(s)])
    /\ focused' = IF Command(s) = "activate" THEN Current(s).window ELSE focused
    /\ held' = CASE Command(s) = "press" -> TRUE
                 [] Command(s) = "release" -> FALSE
                 [] OTHER -> held
    /\ cursor' = IF Command(s) = "move" THEN Current(s).window ELSE cursor
    /\ progress' = [progress EXCEPT ![s][Holder(s)] = @ + 1]
    /\ IF IsLast(s) THEN Release(s) ELSE UNCHANGED gate
    /\ UNCHANGED << inputs, arriving, live, failed >>

\* The first command that fails ends the method: `?` leaves out everything after it.
Fail(s) ==
    /\ gate[s] /= << >> /\ ~Serves(s)
    /\ failed' = failed \cup {<< s, Holder(s) >>}
    /\ Release(s)
    /\ UNCHANGED << inputs, arriving, progress, served, live, focused, held, cursor >>

\* A window is closed; the focus falls back to any other one.
WindowCloses(w) ==
    /\ w \in live /\ live' = live \ {w}
    /\ IF focused = w THEN focused' \in (IF live = {w} THEN {NoWindow} ELSE live \ {w})
       ELSE UNCHANGED focused
    /\ UNCHANGED << inputs, arriving, gate, progress, served, held, cursor, failed >>

InputNext ==
    \/ \E s \in Sessions :
         Submit(s) \/ Serve(s) \/ Fail(s) \/ \E n \in 1..MaxInputs : Lock(s, n)
    \/ \E w \in Desktop : WindowCloses(w)

InputSpec == InputInit /\ [][InputNext]_inputVars

-----------------------------------------------------------------------------
(* Properties.                                                             *)

Requests == {<< s, n >> : s \in Sessions, n \in 1..MaxInputs}
Places(r) == {i \in DOMAIN served : << served[i].from, served[i].n >> = r}

\* The commands of one method reach the seat with no command of another method of the same
\* connection between them (dispatch/mod.rs:10): a click is not split by a drag.
MethodsStayTogether ==
    \A r \in Requests : \A i, j \in Places(r) : \A k \in i..j :
        served[k].from = r[1] => served[k].n = r[2]

\* A button is down only for a method that asked for it: one that is running, a mouse_down,
\* or one that failed between its press and its release. Nothing else leaves a button stuck.
ButtonsAreAccountedFor ==
    held => \E s \in Sessions :
        \/ gate[s] /= << >>
        \/ \E n \in DOMAIN inputs[s] : inputs[s][n].name = "mouse_down" \/ << s, n >> \in failed

\* Does not hold: the tasks race to the gate. protocol.md:295: input actions on one connection are executed in submission order.
InputsInSubmissionOrder ==
    \A i, j \in DOMAIN served :
        i < j /\ served[i].from = served[j].from => served[i].n <= served[j].n
=============================================================================
