--------------------------- MODULE ServicesProofs ---------------------------
(***************************************************************************)
(* What the services around the compositor guarantee, for any number of    *)
(* clients, connections, machines, recordings and elements: the inductive  *)
(* invariant of each, and the property it is there for.                    *)
(***************************************************************************)
EXTENDS ViewerRecording, MachineManager, InputGate, AccessibilityIds, AgpConnection,
        ClientTransport, LaunchFlow, MapsTheorems, SequenceTheorems, FiniteSetTheorems

-----------------------------------------------------------------------------
(* A finished recording is complete.                                       *)

\* Only the bound on the recordings is asked to be a number.
RecordingBounds == MaxRecordings \in Nat

Captures == {"off", "idle", "rendering", "stopping", "joining", "done"}
Threads == [state : {"off", "running", "finished", "failed"}, todo : Seq({"frame", "stop"}),
            encoded : Nat]
Outcomes == [frames : Nat, error : BOOLEAN, set : BOOLEAN]

RecordingTyped ==
  /\ started \in 0 .. MaxRecordings
  /\ capture \in [Recordings -> Captures] /\ pushed \in [Recordings -> Nat]
  /\ recorder \in [Recordings -> Threads] /\ outcome \in [Recordings -> Outcomes]

\* The frames in the channel of a thread: all that is in it but the Stop, once sent.
Queued(pc, thread) == IF pc \in {"joining", "done"} THEN Len(thread.todo) - 1 ELSE Len(thread.todo)

\* The first k commands are frames, those behind them are not.
FramesFirst(todo, k) ==
  k \in 0 .. Len(todo) /\ \A i \in 1 .. Len(todo) : todo[i] = "stop" <=> i > k

(***************************************************************************)
(* Of a recording whose capture task is at pc and counted n frames: every  *)
(* frame that was counted is encoded or in the channel, and the Stop, once *)
(* sent, is behind all of them.  A thread that finished has taken the Stop,*)
(* hence everything before it.                                             *)
(***************************************************************************)
FramesAccounted(pc, n, thread) ==
  /\ thread.state = "running" =>
       FramesFirst(thread.todo, Queued(pc, thread)) /\ n = thread.encoded + Queued(pc, thread)
  /\ thread.state = "finished" => pc \in {"joining", "done"} /\ n = thread.encoded

OutcomeIsTrue(pc, n, result) ==
  result.set => pc = "done" /\ (~result.error => result.frames = n)

Accounted(r) ==
  FramesAccounted(capture[r], pushed[r], recorder[r]) /\ OutcomeIsTrue(capture[r], pushed[r], outcome[r])

\* A recording that was not started has neither frames nor an outcome.
Untouched(r) ==
  /\ capture[r] = "off" /\ pushed[r] = 0 /\ ~outcome[r].set
  /\ recorder[r] = [state |-> "off", todo |-> << >>, encoded |-> 0]

RecordingInv ==
  /\ RecordingTyped
  /\ \A r \in Recordings : Accounted(r) /\ (r > started => Untouched(r))

\* What Append and Tail make of such a channel.
LEMMA ChannelGrows ==
  ASSUME NEW todo \in Seq({"frame", "stop"}), NEW command \in {"frame", "stop"},
         FramesFirst(todo, Len(todo))
  PROVE  /\ Append(todo, command) \in Seq({"frame", "stop"})
         /\ Len(Append(todo, command)) = Len(todo) + 1
         /\ FramesFirst(Append(todo, command),
                        IF command = "frame" THEN Len(todo) + 1 ELSE Len(todo))
<1>1. PICK m \in Nat : m = Len(todo)
  OBVIOUS
<1>2. PICK new : new = Append(todo, command)
  OBVIOUS
<1>3. /\ new \in Seq({"frame", "stop"}) /\ Len(new) = m + 1 /\ new[m + 1] = command
      /\ \A i \in 1 .. m : new[i] = todo[i]
  BY <1>1, <1>2
<1>4. \A i \in 1 .. m : new[i] # "stop"
  BY <1>1, <1>3 DEF FramesFirst
<1>5. CASE command = "frame"
  <2>1. \A i \in 1 .. m + 1 : new[i] # "stop" /\ ~(i > m + 1)
    BY <1>3, <1>4, <1>5
  <2> QED
    BY <1>1, <1>2, <1>3, <1>5, <2>1 DEF FramesFirst
<1>6. CASE command = "stop"
  <2>1. \A i \in 1 .. m + 1 : new[i] = "stop" <=> i > m
    BY <1>3, <1>4, <1>6
  <2> QED
    BY <1>1, <1>2, <1>3, <1>6, <2>1 DEF FramesFirst
<1> QED
  BY <1>5, <1>6

LEMMA ChannelShrinks ==
  ASSUME NEW todo \in Seq({"frame", "stop"}), todo # << >>, NEW k \in Nat, FramesFirst(todo, k)
  PROVE  /\ Tail(todo) \in Seq({"frame", "stop"}) /\ Len(Tail(todo)) = Len(todo) - 1
         /\ Head(todo) = "frame" => k > 0 /\ FramesFirst(Tail(todo), k - 1)
         /\ Head(todo) = "stop" => k = 0
<1>1. PICK m \in Nat : m = Len(todo)
  OBVIOUS
<1>2. PICK rest : rest = Tail(todo)
  OBVIOUS
<1>3. /\ m > 0 /\ Head(todo) = todo[1]
      /\ rest \in Seq({"frame", "stop"}) /\ Len(rest) = m - 1
      /\ \A i \in 1 .. m - 1 : rest[i] = todo[i + 1]
  BY <1>1, <1>2
<1>4. k \in 0 .. m /\ \A i \in 1 .. m : todo[i] = "stop" <=> i > k
  BY <1>1 DEF FramesFirst
<1>5. todo[1] = "stop" <=> 1 > k
  BY <1>3, <1>4
<1>6. ASSUME NEW i \in 1 .. m - 1
      PROVE  rest[i] = "stop" <=> i > k - 1
  <2>1. i + 1 \in 1 .. m /\ rest[i] = todo[i + 1] /\ (i + 1 > k <=> i > k - 1)
    BY <1>3
  <2> QED
    BY <1>4, <2>1
<1>7. todo[1] = "frame" => k > 0 /\ FramesFirst(rest, k - 1)
  <2>1. todo[1] = "frame" => todo[1] # "stop"
    OBVIOUS
  <2> QED
    BY <1>3, <1>4, <1>5, <1>6, <2>1 DEF FramesFirst
<1> QED
  BY <1>1, <1>2, <1>3, <1>5, <1>7

LEMMA RecordingStarts == ASSUME RecordingBounds PROVE RecordingInit => RecordingInv
<1> SUFFICES ASSUME RecordingInit PROVE RecordingInv
  OBVIOUS
<1> USE DEF RecordingInit, NoOutcome
<1>1. RecordingTyped
  BY DEF RecordingBounds, RecordingTyped, Captures, Threads, Outcomes
<1>2. ASSUME NEW r \in Recordings
      PROVE  Accounted(r) /\ Untouched(r)
  BY DEF Accounted, FramesAccounted, OutcomeIsTrue, Untouched
<1> QED
  BY <1>1, <1>2 DEF RecordingInv

\* A step of one recording leaves the others as they are.
LEMMA OneRecordingMoves ==
  ASSUME RecordingInv, NEW r \in Recordings, started' = started, r <= started,
         NEW pc \in Captures, NEW n \in Nat, NEW thread \in Threads, NEW result \in Outcomes,
         capture' = [capture EXCEPT ![r] = pc], pushed' = [pushed EXCEPT ![r] = n],
         recorder' = [recorder EXCEPT ![r] = thread], outcome' = [outcome EXCEPT ![r] = result],
         FramesAccounted(pc, n, thread), OutcomeIsTrue(pc, n, result)
  PROVE  RecordingInv'
<1>1. RecordingTyped'
  BY DEF RecordingInv, RecordingTyped
<1>2. ASSUME NEW q \in Recordings PROVE Accounted(q)' /\ (q > started' => Untouched(q)')
  <2>1. CASE q = r
    <3>1. capture'[q] = pc /\ pushed'[q] = n /\ recorder'[q] = thread /\ outcome'[q] = result
      BY <2>1 DEF RecordingInv, RecordingTyped
    <3>2. ~(q > started')
      BY <2>1 DEF RecordingInv, RecordingTyped, Recordings
    <3> QED
      BY <3>1, <3>2 DEF Accounted
  <2>2. CASE q # r
    <3>1. /\ capture'[q] = capture[q] /\ pushed'[q] = pushed[q]
          /\ recorder'[q] = recorder[q] /\ outcome'[q] = outcome[q]
      BY <2>2 DEF RecordingInv, RecordingTyped
    <3>2. Accounted(q) /\ (q > started => Untouched(q))
      BY DEF RecordingInv
    <3> QED
      BY <3>1, <3>2 DEF Accounted, Untouched
  <2> QED
    BY <2>1, <2>2
<1> QED
  BY <1>1, <1>2 DEF RecordingInv

\* The start takes a recording that nothing has happened to.
LEMMA StartKeepsRecordings ==
  ASSUME RecordingBounds, RecordingInv, StartRecording
  PROVE  RecordingInv'
<1>1. PICK n : n = started + 1
  OBVIOUS
<1>2. /\ n \in Recordings /\ n > started /\ started' = n
      /\ capture' = [capture EXCEPT ![n] = "idle"]
      /\ recorder' = [recorder EXCEPT ![n].state = "running"]
      /\ UNCHANGED << pushed, outcome >>
  BY <1>1 DEF RecordingInv, RecordingTyped, StartRecording, Recordings, RecordingBounds
<1>3. Untouched(n) /\ recorder[n] \in Threads
  BY <1>2 DEF RecordingInv, RecordingTyped
<1>4. PICK thread : thread = [state |-> "running", todo |-> << >>, encoded |-> 0]
  OBVIOUS
<1>5. thread \in Threads /\ recorder' = [recorder EXCEPT ![n] = thread]
  <2>1. thread \in Threads
    BY <1>4 DEF Threads
  <2>2. [recorder[n] EXCEPT !.state = "running"] = thread
    BY <1>3, <1>4 DEF Untouched
  <2> QED
    BY <1>2, <2>1, <2>2
<1>6. RecordingTyped'
  BY <1>2, <1>5 DEF RecordingInv, RecordingTyped, Captures, Recordings
<1>7. ASSUME NEW q \in Recordings PROVE Accounted(q)' /\ (q > started' => Untouched(q)')
  <2>1. CASE q = n
    <3>1. capture'[q] = "idle" /\ pushed'[q] = 0 /\ recorder'[q] = thread /\ ~outcome'[q].set
      BY <1>2, <1>3, <1>5, <2>1 DEF RecordingInv, RecordingTyped, Untouched
    <3>2. FramesAccounted("idle", 0, thread)
      <4>1. Queued("idle", thread) = 0 /\ FramesFirst(thread.todo, 0)
        BY <1>4 DEF Queued, FramesFirst
      <4> QED
        BY <1>4, <4>1 DEF FramesAccounted
    <3>3. ~(q > started')
      BY <1>2, <2>1 DEF Recordings
    <3> QED
      BY <3>1, <3>2, <3>3 DEF Accounted, OutcomeIsTrue
  <2>2. CASE q # n
    <3>1. /\ capture'[q] = capture[q] /\ pushed'[q] = pushed[q]
          /\ recorder'[q] = recorder[q] /\ outcome'[q] = outcome[q]
      BY <1>2, <1>5, <2>2 DEF RecordingInv, RecordingTyped
    <3>2. Accounted(q) /\ (q > started => Untouched(q))
      BY DEF RecordingInv
    <3>3. q > started' => q > started
      BY <1>2 DEF Recordings, RecordingInv, RecordingTyped
    <3> QED
      BY <3>1, <3>2, <3>3 DEF Accounted, Untouched
  <2> QED
    BY <2>1, <2>2
<1> QED
  BY <1>6, <1>7 DEF RecordingInv

\* Before the Stop all that is queued are frames; behind it there is nothing.
LEMMA CaptureKeepsRecordings ==
  ASSUME RecordingInv, NEW r \in Recordings, CaptureStep(r)
  PROVE  RecordingInv'
<1>1. PICK pc, n, thread, result :
        pc = capture[r] /\ n = pushed[r] /\ thread = recorder[r] /\ result = outcome[r]
  OBVIOUS
<1>2. /\ pc \in Captures /\ n \in Nat /\ thread \in Threads /\ result \in Outcomes
      /\ FramesAccounted(pc, n, thread) /\ OutcomeIsTrue(pc, n, result)
  BY <1>1 DEF RecordingInv, RecordingTyped, Accounted
<1>3. /\ thread.state \in {"off", "running", "finished", "failed"} /\ thread.encoded \in Nat
      /\ thread.todo \in Seq({"frame", "stop"}) /\ Len(thread.todo) \in Nat
      /\ thread = [state |-> thread.state, todo |-> thread.todo, encoded |-> thread.encoded]
  BY <1>2 DEF Threads
<1>4. started' = started /\ r <= started
  <2>1. started' = started /\ r \in Nat /\ started \in Nat
    BY DEF CaptureStep, Recordings, RecordingInv, RecordingTyped
  <2>2. pc # "off" \/ thread.state # "off"
    BY <1>1 DEF CaptureStep, Tick, PushCaptured, LeaveCapture, StopSession, Join, Encode
  <2>3. r > started => pc = "off" /\ thread.state = "off"
    BY <1>1 DEF RecordingInv, Untouched
  <2> QED
    BY <2>1, <2>2, <2>3
<1>5. /\ capture = [capture EXCEPT ![r] = pc] /\ pushed = [pushed EXCEPT ![r] = n]
      /\ recorder = [recorder EXCEPT ![r] = thread] /\ outcome = [outcome EXCEPT ![r] = result]
  BY <1>1 DEF RecordingInv, RecordingTyped
<1>6. ASSUME NEW pc2 \in Captures, NEW n2 \in Nat, NEW thread2 \in Threads, NEW result2 \in Outcomes,
             capture' = [capture EXCEPT ![r] = pc2], pushed' = [pushed EXCEPT ![r] = n2],
             recorder' = [recorder EXCEPT ![r] = thread2],
             outcome' = [outcome EXCEPT ![r] = result2],
             FramesAccounted(pc2, n2, thread2), OutcomeIsTrue(pc2, n2, result2)
      PROVE  RecordingInv'
  BY <1>4, <1>6, OneRecordingMoves
<1>7. ASSUME NEW pc2 \in {"idle", "rendering", "stopping"}, pc \in {"idle", "rendering"},
             CaptureAt(r, pc2), UNCHANGED << pushed, recorder, outcome >>
      PROVE  RecordingInv'
  <2>1. FramesAccounted(pc2, n, thread)
    BY <1>2, <1>7 DEF FramesAccounted, Queued
  <2>2. OutcomeIsTrue(pc2, n, result)
    BY <1>2, <1>7 DEF OutcomeIsTrue
  <2>3. pc2 \in Captures
    BY DEF Captures
  <2> QED
    BY <1>2, <1>5, <1>6, <1>7, <2>1, <2>2, <2>3 DEF CaptureAt
<1>8. CASE Tick(r)
  BY <1>1, <1>7, <1>8 DEF Tick
<1>9. CASE LeaveCapture(r)
  BY <1>1, <1>7, <1>9 DEF LeaveCapture
<1>10. CASE PushCaptured(r)
  <2>1. CASE CaptureAt(r, "stopping") /\ UNCHANGED << pushed, recorder >>
    BY <1>1, <1>7, <1>10, <2>1 DEF PushCaptured
  <2>2. CASE /\ thread.state = "running" /\ CaptureAt(r, "idle")
             /\ recorder' = [recorder EXCEPT ![r].todo = Append(@, "frame")]
             /\ pushed' = [pushed EXCEPT ![r] = @ + 1]
    <3>1. PICK todo2, thread2 :
            todo2 = Append(thread.todo, "frame") /\ thread2 = [thread EXCEPT !.todo = todo2]
      OBVIOUS
    <3>2. pc = "rendering"
      BY <1>1, <1>10 DEF PushCaptured
    <3>3. FramesFirst(thread.todo, Len(thread.todo)) /\ n = thread.encoded + Len(thread.todo)
      BY <1>2, <2>2, <3>2 DEF FramesAccounted, Queued
    <3>4. /\ todo2 \in Seq({"frame", "stop"}) /\ Len(todo2) = Len(thread.todo) + 1
          /\ FramesFirst(todo2, Len(todo2))
      BY <1>3, <3>1, <3>3, ChannelGrows
    <3>5. thread2 = [state |-> thread.state, todo |-> todo2, encoded |-> thread.encoded]
      BY <1>3, <3>1
    <3>6. thread2 \in Threads
      BY <1>3, <3>4, <3>5 DEF Threads
    <3>7. n + 1 = thread.encoded + Len(todo2)
      BY <1>2, <1>3, <3>3, <3>4
    <3>8. FramesAccounted("idle", n + 1, thread2)
      BY <2>2, <3>4, <3>5, <3>7 DEF FramesAccounted, Queued
    <3>9. OutcomeIsTrue("idle", n + 1, result)
      BY <1>2, <3>2 DEF OutcomeIsTrue
    <3>10. recorder' = [recorder EXCEPT ![r] = thread2] /\ pushed' = [pushed EXCEPT ![r] = n + 1]
      BY <1>1, <2>2, <3>1
    <3>11. capture' = [capture EXCEPT ![r] = "idle"] /\ outcome' = outcome /\ "idle" \in Captures
      BY <1>10, <2>2 DEF PushCaptured, CaptureAt, Captures
    <3>12. n + 1 \in Nat /\ outcome' = [outcome EXCEPT ![r] = result]
      BY <1>2, <1>5, <3>11
    <3> QED
      BY <1>2, <1>6, <3>6, <3>8, <3>9, <3>10, <3>11, <3>12
  <2> QED
    BY <1>1, <1>10, <2>1, <2>2 DEF PushCaptured
<1>11. CASE StopSession(r)
  <2>1. PICK todo2, thread2 :
          todo2 = Append(thread.todo, "stop") /\ thread2 = [thread EXCEPT !.todo = todo2]
    OBVIOUS
  <2>2. /\ pc = "stopping" /\ capture' = [capture EXCEPT ![r] = "joining"] /\ "joining" \in Captures
        /\ recorder' = [recorder EXCEPT ![r] = thread2] /\ UNCHANGED << pushed, outcome >>
    BY <1>1, <1>11, <2>1 DEF StopSession, CaptureAt, SendStop, Captures
  <2>3. todo2 \in Seq({"frame", "stop"})
    BY <1>3, <2>1
  <2>4. thread2 = [state |-> thread.state, todo |-> todo2, encoded |-> thread.encoded]
    BY <1>3, <2>1
  <2>5. thread2 \in Threads
    BY <1>3, <2>3, <2>4 DEF Threads
  <2>6. thread.state # "finished"
    BY <1>2, <2>2 DEF FramesAccounted
  <2>7. ASSUME thread.state = "running"
        PROVE  FramesFirst(todo2, Len(todo2) - 1) /\ n = thread.encoded + (Len(todo2) - 1)
    <3>1. FramesFirst(thread.todo, Len(thread.todo)) /\ n = thread.encoded + Len(thread.todo)
      BY <1>2, <2>2, <2>7 DEF FramesAccounted, Queued
    <3>2. Len(todo2) = Len(thread.todo) + 1 /\ FramesFirst(todo2, Len(thread.todo))
      BY <1>3, <2>1, <3>1, ChannelGrows
    <3>3. Len(todo2) - 1 = Len(thread.todo)
      BY <1>3, <3>2
    <3> QED
      BY <3>1, <3>2, <3>3
  <2>8. FramesAccounted("joining", n, thread2)
    BY <2>4, <2>6, <2>7 DEF FramesAccounted, Queued
  <2>9. OutcomeIsTrue("joining", n, result)
    BY <1>2, <2>2 DEF OutcomeIsTrue
  <2> QED
    BY <1>2, <1>5, <1>6, <2>2, <2>5, <2>8, <2>9
<1>12. CASE Join(r)
  <2>1. PICK result2 :
          result2 = IF thread.state = "finished"
                    THEN [frames |-> thread.encoded, error |-> FALSE, set |-> TRUE]
                    ELSE [frames |-> n, error |-> TRUE, set |-> TRUE]
    OBVIOUS
  <2>2. /\ pc = "joining" /\ capture' = [capture EXCEPT ![r] = "done"] /\ "done" \in Captures
        /\ outcome' = [outcome EXCEPT ![r] = result2] /\ UNCHANGED << pushed, recorder >>
    BY <1>1, <1>12, <2>1 DEF Join, CaptureAt, Captures
  <2>3. result2 \in Outcomes
    BY <1>2, <1>3, <2>1 DEF Outcomes
  <2>4. FramesAccounted("done", n, thread)
    BY <1>2, <2>2 DEF FramesAccounted, Queued
  <2>5. OutcomeIsTrue("done", n, result2)
    BY <1>2, <2>1 DEF OutcomeIsTrue, FramesAccounted
  <2> QED
    BY <1>2, <1>5, <1>6, <2>2, <2>3, <2>4, <2>5
<1>13. CASE Encode(r)
  <2>1. thread.state = "running" /\ thread.todo # << >> /\ UNCHANGED << capture, pushed, outcome >>
    BY <1>1, <1>13 DEF Encode
  <2>2. PICK rest, k : rest = Tail(thread.todo) /\ k = Queued(pc, thread)
    OBVIOUS
  <2>3. /\ k \in Nat /\ FramesFirst(thread.todo, k) /\ n = thread.encoded + k
        /\ k = IF pc \in {"joining", "done"} THEN Len(thread.todo) - 1 ELSE Len(thread.todo)
    <3>1. FramesFirst(thread.todo, k) /\ n = thread.encoded + k
      BY <1>2, <2>1, <2>2 DEF FramesAccounted
    <3>2. k \in Nat
      BY <3>1 DEF FramesFirst
    <3> QED
      BY <2>2, <3>1, <3>2 DEF Queued
  <2>8. /\ rest \in Seq({"frame", "stop"}) /\ Len(rest) = Len(thread.todo) - 1
        /\ Head(thread.todo) = "frame" => k > 0 /\ FramesFirst(rest, k - 1)
        /\ Head(thread.todo) = "stop" => k = 0
    BY <1>3, <2>1, <2>2, <2>3, ChannelShrinks
  <2>4. ASSUME NEW thread2 \in Threads, FramesAccounted(pc, n, thread2),
               recorder' = [recorder EXCEPT ![r] = thread2]
        PROVE  RecordingInv'
    BY <1>2, <1>5, <1>6, <2>1, <2>4
  <2>5. CASE recorder' = [recorder EXCEPT ![r].state = "failed"]
    <3>1. PICK thread2 : thread2 = [thread EXCEPT !.state = "failed"]
      OBVIOUS
    <3>2. thread2 = [state |-> "failed", todo |-> thread.todo, encoded |-> thread.encoded]
      BY <1>3, <3>1
    <3>3. thread2 \in Threads /\ FramesAccounted(pc, n, thread2)
      BY <1>3, <3>2 DEF Threads, FramesAccounted
    <3> QED
      BY <1>1, <2>4, <2>5, <3>1, <3>3
  <2>6. CASE /\ Head(thread.todo) = "frame"
             /\ recorder' = [recorder EXCEPT ![r].todo = Tail(@), ![r].encoded = @ + 1]
    <3>1. PICK thread2 : thread2 = [state |-> "running", todo |-> rest, encoded |-> thread.encoded + 1]
      OBVIOUS
    <3>2. recorder' = [recorder EXCEPT ![r] = thread2]
      <4>1. PICK middle, between :
              /\ middle = [thread EXCEPT !.todo = rest]
              /\ between = [recorder EXCEPT ![r] = middle]
        OBVIOUS
      <4>2. between = [recorder EXCEPT ![r].todo = Tail(@)]
        BY <1>1, <2>2, <4>1
      <4>3. recorder' = [between EXCEPT ![r].encoded = @ + 1]
        BY <2>6, <4>2
      <4>4. between[r] = middle
        BY <4>1 DEF RecordingInv, RecordingTyped
      <4>5. recorder' = [between EXCEPT ![r] = thread2]
        <5>1. middle = [state |-> "running", todo |-> rest, encoded |-> thread.encoded]
          BY <1>3, <2>1, <4>1
        <5>2. [middle EXCEPT !.encoded = @ + 1] = thread2
          BY <3>1, <5>1
        <5> QED
          BY <4>3, <4>4, <5>2
      <4> QED
        BY <4>1, <4>5 DEF RecordingInv, RecordingTyped
    <3>3. thread2 \in Threads
      BY <1>3, <2>8, <3>1 DEF Threads
    <3>4. Queued(pc, thread2) = k - 1
      <4>1. Queued(pc, thread2) = IF pc \in {"joining", "done"} THEN Len(rest) - 1 ELSE Len(rest)
        BY <3>1 DEF Queued
      <4>2. Len(rest) \in Int /\ Len(rest) = Len(thread.todo) - 1
        BY <1>3, <2>8
      <4> QED
        BY <1>3, <2>3, <4>1, <4>2
    <3>5. k > 0 /\ FramesFirst(rest, k - 1)
      BY <2>6, <2>8
    <3>6. n = (thread.encoded + 1) + (k - 1)
      BY <1>3, <2>3
    <3>7. FramesAccounted(pc, n, thread2)
      BY <3>1, <3>4, <3>5, <3>6 DEF FramesAccounted
    <3> QED
      BY <2>4, <3>2, <3>3, <3>7
  <2>7. CASE /\ Head(thread.todo) = "stop"
             /\ recorder' = [recorder EXCEPT ![r].todo = Tail(@), ![r].state = "finished"]
    <3>1. PICK thread2 : thread2 = [state |-> "finished", todo |-> rest, encoded |-> thread.encoded]
      OBVIOUS
    <3>2. recorder' = [recorder EXCEPT ![r] = thread2]
      <4>1. PICK middle, between :
              /\ middle = [thread EXCEPT !.todo = rest]
              /\ between = [recorder EXCEPT ![r] = middle]
        OBVIOUS
      <4>2. between = [recorder EXCEPT ![r].todo = Tail(@)]
        BY <1>1, <2>2, <4>1
      <4>3. recorder' = [between EXCEPT ![r].state = "finished"]
        BY <2>7, <4>2
      <4>4. between[r] = middle
        BY <4>1 DEF RecordingInv, RecordingTyped
      <4>5. recorder' = [between EXCEPT ![r] = thread2]
        <5>1. middle = [state |-> "running", todo |-> rest, encoded |-> thread.encoded]
          BY <1>3, <2>1, <4>1
        <5>2. [middle EXCEPT !.state = "finished"] = thread2
          BY <3>1, <5>1
        <5> QED
          BY <4>3, <4>4, <5>2
      <4> QED
        BY <4>1, <4>5 DEF RecordingInv, RecordingTyped
    <3>3. thread2 \in Threads
      BY <1>3, <2>8, <3>1 DEF Threads
    <3>4. k = 0 /\ n = thread.encoded
      BY <1>2, <1>3, <2>3, <2>7, <2>8
    <3>5. pc \in {"joining", "done"}
      <4>1. Len(thread.todo) # 0
        BY <1>3, <2>1
      <4> QED
        BY <2>3, <3>4, <4>1
    <3>6. FramesAccounted(pc, n, thread2)
      BY <3>1, <3>4, <3>5 DEF FramesAccounted
    <3> QED
      BY <2>4, <3>2, <3>3, <3>6
  <2> QED
    BY <1>1, <1>13, <2>5, <2>6, <2>7 DEF Encode
<1> QED
  BY <1>8, <1>9, <1>10, <1>11, <1>12, <1>13 DEF CaptureStep

LEMMA RecordingsAreKept ==
  ASSUME RecordingBounds, RecordingInv, [RecordingNext]_recordingVars
  PROVE  RecordingInv'
<1>1. ASSUME UNCHANGED << started, capture, pushed, recorder, outcome >> PROVE RecordingInv'
  BY <1>1 DEF RecordingInv, RecordingTyped, Accounted, Untouched
<1>2. CASE StartRecording
  BY <1>2, StartKeepsRecordings
<1>3. CASE RuntimeStops
  BY <1>1, <1>3 DEF RuntimeStops
<1>4. CASE \E w \in Watchers : TakeActive(w) \/ StopStep(w) \/ NextCall(w)
  BY <1>1, <1>4 DEF TakeActive, StopStep, AskToStop, TellStatus, NextCall
<1>5. CASE \E r \in Recordings : CaptureStep(r)
  BY <1>5, CaptureKeepsRecordings
<1>6. CASE UNCHANGED recordingVars
  BY <1>1, <1>6 DEF recordingVars
<1> QED
  BY <1>2, <1>3, <1>4, <1>5, <1>6 DEF RecordingNext

(***************************************************************************)
(* What the status of a finished recording counts is in the file, whatever *)
(* the stop, the shutdown or a failing recorder raced (session.rs of the   *)
(* recorder): for any number of recordings, frames and viewers.            *)
(***************************************************************************)
THEOREM FinishedFilesAreComplete ==
  ASSUME RecordingBounds
  PROVE  RecordingSpec => []FinishedFileIsComplete
<1>1. RecordingInit => RecordingInv
  BY RecordingStarts
<1>2. RecordingInv /\ [RecordingNext]_recordingVars => RecordingInv'
  BY RecordingsAreKept
<1>3. RecordingInv => FinishedFileIsComplete
  BY DEF RecordingInv, Accounted, OutcomeIsTrue, FinishedFileIsComplete
<1> QED
  BY <1>1, <1>2, <1>3, PTL DEF RecordingSpec

-----------------------------------------------------------------------------
(* The machine manager: its cache of names agrees with the backend.        *)

Operations == {"create", "start", "stop", "restart", "remove", "status", "list"}

\* The calls are among those the manager has.
CallsAreKnown == Calls \subseteq Operations

\* What a call may have left to do.
Todos(op) ==
  CASE op = "create"  -> {<< "create", "status", "insert" >>, << "status", "insert" >>, << "insert" >>}
    [] op = "start"   -> {<< "start", "status", "update" >>, << "status", "update" >>, << "update" >>}
    [] op = "stop"    -> {<< "stop", "status", "update" >>, << "status", "update" >>, << "update" >>}
    [] op = "restart" ->
         {<< "stop", "status", "update", "resolve", "start", "status", "update" >>,
          << "status", "update", "resolve", "start", "status", "update" >>,
          << "update", "resolve", "start", "status", "update" >>,
          << "resolve", "start", "status", "update" >>, << "start", "status", "update" >>,
          << "status", "update" >>, << "update" >>}
    [] op = "remove"  -> {<< "status", "remove", "forget" >>, << "remove", "forget" >>, << "forget" >>}
    [] op = "status"  -> {<< "status", "update" >>, << "update" >>}
    [] op = "list"    -> {<< "ps", "inspect", "replace" >>, << "inspect", "replace" >>, << "replace" >>}

MachineStates == {"created", "running", "stopped"}
Machines == [name : Names, state : MachineStates]
Statuses == [id : Nat, name : Names, state : MachineStates]

CallRecords == [op : Operations, name : Names, id : Nat, todo : UNION {Todos(op) : op \in Operations},
                seen : SUBSET Statuses, toRead : SUBSET Nat]

BackendTyped ==
  /\ created \in Nat /\ DOMAIN machines \subseteq 1 .. created
  /\ machines \in [DOMAIN machines -> Machines]

NamesAreUnique == \A i, j \in DOMAIN machines : machines[i].name = machines[j].name => i = j

\* A machine never changes its name, so what was read of one that still exists is of that name.
KnownFit ==
  /\ known \in [DOMAIN known -> Statuses]
  /\ \A n \in DOMAIN known : /\ known[n].id \in 1 .. created
                             /\ Exists(known[n].id) => machines[known[n].id].name = n

(***************************************************************************)
(* A call in flight: its id and what it has seen are of its name, a write  *)
(* to the registry has a status to write, and a remove that is about to    *)
(* forget has removed its machine.                                         *)
(***************************************************************************)
CallKnows(work) ==
  /\ work \in CallRecords /\ work.todo \in Todos(work.op)
  /\ work.id \in 0 .. created
  /\ work.op # "list" /\ Exists(work.id) => machines[work.id].name = work.name
  /\ \A s \in work.seen : /\ s.id \in 1 .. created
                          /\ Exists(s.id) => machines[s.id].name = s.name
                          /\ work.op # "list" => s.name = work.name
                          /\ work.op = "create" => s.id = work.id

CallFits(work) ==
  /\ CallKnows(work)
  /\ Head(work.todo) \in {"insert", "update"} => \E s \in work.seen : work.seen = {s}
  /\ Head(work.todo) = "create" => work.seen = {}
  /\ Head(work.todo) = "forget" => ~Exists(work.id)

\* A create that has its machine and is on the way to enter it, a remove that is about to forget.
Enters(work, n, id) ==
  /\ work # << >> /\ work.op = "create" /\ work.name = n /\ work.id = id
  /\ Head(work.todo) \in {"status", "insert"}

Forgets(work, n, id) ==
  work # << >> /\ work.op = "remove" /\ work.name = n /\ work.id = id /\ Head(work.todo) = "forget"

\* Where the registry and the backend disagree about a name, a call in flight is about to settle it.
Explained(n) ==
  /\ \A id \in DOMAIN machines :
       machines[id].name = n /\ ~(n \in DOMAIN known /\ IdOf(n) = id) =>
         \E c \in Callers : Enters(calls[c], n, id)
  /\ n \in DOMAIN known /\ ~Exists(IdOf(n)) => \E c \in Callers : Forgets(calls[c], n, IdOf(n))

MachineInv ==
  /\ BackendTyped /\ NamesAreUnique /\ KnownFit
  /\ calls \in [Callers -> {<< >>} \cup CallRecords]
  /\ \A c \in Callers : Busy(c) => CallFits(calls[c])
  /\ \A n \in Names \ overtaken : Explained(n)

(***************************************************************************)
(* The order in which the steps of a call follow each other: `todo` is what*)
(* is left of op, `step` the step at hand and `next` the one behind it.    *)
(***************************************************************************)
InOrder(op, step, next) ==
  /\ next # "create"
  /\ step = "create" => op = "create" /\ next = "status"
  /\ step = "insert" => op = "create" /\ next = "none"
  /\ op = "create" /\ step = "status" => next = "insert"
  /\ step = "remove" => op = "remove" /\ next = "forget"
  /\ step = "forget" => op = "remove" /\ next = "none"
  /\ step = "replace" => op = "list" /\ next = "none"
  /\ step \in {"ps", "inspect"} => op = "list" /\ next # "none"
  /\ step \in {"start", "stop", "resolve", "update"} => op \notin {"list", "create", "remove"}
  /\ step = "status" => op # "list"
  /\ next \in {"insert", "update"} => step = "status"
  /\ next = "forget" => step = "remove"

\* The step behind the one at hand.
Second(todo) == IF Len(todo) = 1 THEN "none" ELSE Head(Tail(todo))

LEMMA StepsInOrder ==
  ASSUME NEW op \in Operations, NEW todo \in Todos(op)
  PROVE  /\ Len(todo) # 1 => Tail(todo) \in Todos(op)
         /\ InOrder(op, Head(todo), Second(todo))
         /\ Len(todo) = 1 <=> Second(todo) = "none"
<1>1. ASSUME NEW x, NEW rest, rest \in Todos(op), rest # << >>, Head(rest) # "none",
             Head(todo) = x, Tail(todo) = rest, Len(todo) # 1, InOrder(op, x, Head(rest))
      PROVE  /\ Len(todo) # 1 => Tail(todo) \in Todos(op)
             /\ InOrder(op, Head(todo), Second(todo))
             /\ Len(todo) = 1 <=> Second(todo) = "none"
  BY <1>1 DEF Second
<1>2. ASSUME NEW x, todo = << x >>, InOrder(op, x, "none")
      PROVE  /\ Len(todo) # 1 => Tail(todo) \in Todos(op)
             /\ InOrder(op, Head(todo), Second(todo))
             /\ Len(todo) = 1 <=> Second(todo) = "none"
  <2>1. Len(todo) = 1 /\ Head(todo) = x
    BY <1>2
  <2> QED
    BY <1>2, <2>1 DEF Second
<1>3. CASE op = "create"
  <2>1. CASE todo = << "create", "status", "insert" >>
    <3>1. PICK rest : rest = << "status", "insert" >>
      OBVIOUS
    <3>2. Head(todo) = "create" /\ Tail(todo) = rest /\ Len(todo) # 1 /\ Head(rest) = "status" /\ rest # << >>
      BY <2>1, <3>1
    <3>3. rest \in Todos(op)
      BY <1>3, <3>1 DEF Todos
    <3>4. InOrder(op, "create", "status")
      BY <1>3 DEF InOrder
    <3> QED
      BY <1>1, <3>2, <3>3, <3>4
  <2>2. CASE todo = << "status", "insert" >>
    <3>1. PICK rest : rest = << "insert" >>
      OBVIOUS
    <3>2. Head(todo) = "status" /\ Tail(todo) = rest /\ Len(todo) # 1 /\ Head(rest) = "insert" /\ rest # << >>
      BY <2>2, <3>1
    <3>3. rest \in Todos(op)
      BY <1>3, <3>1 DEF Todos
    <3>4. InOrder(op, "status", "insert")
      BY <1>3 DEF InOrder
    <3> QED
      BY <1>1, <3>2, <3>3, <3>4
  <2>3. CASE todo = << "insert" >>
    <3>1. InOrder(op, "insert", "none")
      BY <1>3 DEF InOrder
    <3> QED
      BY <1>2, <2>3, <3>1
  <2> QED
    BY <1>3, <2>1, <2>2, <2>3 DEF Todos
<1>4. CASE op = "start"
  <2>1. CASE todo = << "start", "status", "update" >>
    <3>1. PICK rest : rest = << "status", "update" >>
      OBVIOUS
    <3>2. Head(todo) = "start" /\ Tail(todo) = rest /\ Len(todo) # 1 /\ Head(rest) = "status" /\ rest # << >>
      BY <2>1, <3>1
    <3>3. rest \in Todos(op)
      BY <1>4, <3>1 DEF Todos
    <3>4. InOrder(op, "start", "status")
      BY <1>4 DEF InOrder
    <3> QED
      BY <1>1, <3>2, <3>3, <3>4
  <2>2. CASE todo = << "status", "update" >>
    <3>1. PICK rest : rest = << "update" >>
      OBVIOUS
    <3>2. Head(todo) = "status" /\ Tail(todo) = rest /\ Len(todo) # 1 /\ Head(rest) = "update" /\ rest # << >>
      BY <2>2, <3>1
    <3>3. rest \in Todos(op)
      BY <1>4, <3>1 DEF Todos
    <3>4. InOrder(op, "status", "update")
      BY <1>4 DEF InOrder
    <3> QED
      BY <1>1, <3>2, <3>3, <3>4
  <2>3. CASE todo = << "update" >>
    <3>1. InOrder(op, "update", "none")
      BY <1>4 DEF InOrder
    <3> QED
      BY <1>2, <2>3, <3>1
  <2> QED
    BY <1>4, <2>1, <2>2, <2>3 DEF Todos
<1>5. CASE op = "stop"
  <2>1. CASE todo = << "stop", "status", "update" >>
    <3>1. PICK rest : rest = << "status", "update" >>
      OBVIOUS
    <3>2. Head(todo) = "stop" /\ Tail(todo) = rest /\ Len(todo) # 1 /\ Head(rest) = "status" /\ rest # << >>
      BY <2>1, <3>1
    <3>3. rest \in Todos(op)
      BY <1>5, <3>1 DEF Todos
    <3>4. InOrder(op, "stop", "status")
      BY <1>5 DEF InOrder
    <3> QED
      BY <1>1, <3>2, <3>3, <3>4
  <2>2. CASE todo = << "status", "update" >>
    <3>1. PICK rest : rest = << "update" >>
      OBVIOUS
    <3>2. Head(todo) = "status" /\ Tail(todo) = rest /\ Len(todo) # 1 /\ Head(rest) = "update" /\ rest # << >>
      BY <2>2, <3>1
    <3>3. rest \in Todos(op)
      BY <1>5, <3>1 DEF Todos
    <3>4. InOrder(op, "status", "update")
      BY <1>5 DEF InOrder
    <3> QED
      BY <1>1, <3>2, <3>3, <3>4
  <2>3. CASE todo = << "update" >>
    <3>1. InOrder(op, "update", "none")
      BY <1>5 DEF InOrder
    <3> QED
      BY <1>2, <2>3, <3>1
  <2> QED
    BY <1>5, <2>1, <2>2, <2>3 DEF Todos
<1>6. CASE op = "restart"
  <2>1. CASE todo = << "stop", "status", "update", "resolve", "start", "status", "update" >>
    <3>1. PICK rest : rest = << "status", "update", "resolve", "start", "status", "update" >>
      OBVIOUS
    <3>2. Head(todo) = "stop" /\ Tail(todo) = rest /\ Len(todo) # 1 /\ Head(rest) = "status" /\ rest # << >>
      BY <2>1, <3>1
    <3>3. rest \in Todos(op)
      BY <1>6, <3>1 DEF Todos
    <3>4. InOrder(op, "stop", "status")
      BY <1>6 DEF InOrder
    <3> QED
      BY <1>1, <3>2, <3>3, <3>4
  <2>2. CASE todo = << "status", "update", "resolve", "start", "status", "update" >>
    <3>1. PICK rest : rest = << "update", "resolve", "start", "status", "update" >>
      OBVIOUS
    <3>2. Head(todo) = "status" /\ Tail(todo) = rest /\ Len(todo) # 1 /\ Head(rest) = "update" /\ rest # << >>
      BY <2>2, <3>1
    <3>3. rest \in Todos(op)
      BY <1>6, <3>1 DEF Todos
    <3>4. InOrder(op, "status", "update")
      BY <1>6 DEF InOrder
    <3> QED
      BY <1>1, <3>2, <3>3, <3>4
  <2>3. CASE todo = << "update", "resolve", "start", "status", "update" >>
    <3>1. PICK rest : rest = << "resolve", "start", "status", "update" >>
      OBVIOUS
    <3>2. Head(todo) = "update" /\ Tail(todo) = rest /\ Len(todo) # 1 /\ Head(rest) = "resolve" /\ rest # << >>
      BY <2>3, <3>1
    <3>3. rest \in Todos(op)
      BY <1>6, <3>1 DEF Todos
    <3>4. InOrder(op, "update", "resolve")
      BY <1>6 DEF InOrder
    <3> QED
      BY <1>1, <3>2, <3>3, <3>4
  <2>4. CASE todo = << "resolve", "start", "status", "update" >>
    <3>1. PICK rest : rest = << "start", "status", "update" >>
      OBVIOUS
    <3>2. Head(todo) = "resolve" /\ Tail(todo) = rest /\ Len(todo) # 1 /\ Head(rest) = "start" /\ rest # << >>
      BY <2>4, <3>1
    <3>3. rest \in Todos(op)
      BY <1>6, <3>1 DEF Todos
    <3>4. InOrder(op, "resolve", "start")
      BY <1>6 DEF InOrder
    <3> QED
      BY <1>1, <3>2, <3>3, <3>4
  <2>5. CASE todo = << "start", "status", "update" >>
    <3>1. PICK rest : rest = << "status", "update" >>
      OBVIOUS
    <3>2. Head(todo) = "start" /\ Tail(todo) = rest /\ Len(todo) # 1 /\ Head(rest) = "status" /\ rest # << >>
      BY <2>5, <3>1
    <3>3. rest \in Todos(op)
      BY <1>6, <3>1 DEF Todos
    <3>4. InOrder(op, "start", "status")
      BY <1>6 DEF InOrder
    <3> QED
      BY <1>1, <3>2, <3>3, <3>4
  <2>6. CASE todo = << "status", "update" >>
    <3>1. PICK rest : rest = << "update" >>
      OBVIOUS
    <3>2. Head(todo) = "status" /\ Tail(todo) = rest /\ Len(todo) # 1 /\ Head(rest) = "update" /\ rest # << >>
      BY <2>6, <3>1
    <3>3. rest \in Todos(op)
      BY <1>6, <3>1 DEF Todos
    <3>4. InOrder(op, "status", "update")
      BY <1>6 DEF InOrder
    <3> QED
      BY <1>1, <3>2, <3>3, <3>4
  <2>7. CASE todo = << "update" >>
    <3>1. InOrder(op, "update", "none")
      BY <1>6 DEF InOrder
    <3> QED
      BY <1>2, <2>7, <3>1
  <2> QED
    BY <1>6, <2>1, <2>2, <2>3, <2>4, <2>5, <2>6, <2>7 DEF Todos
<1>7. CASE op = "remove"
  <2>1. CASE todo = << "status", "remove", "forget" >>
    <3>1. PICK rest : rest = << "remove", "forget" >>
      OBVIOUS
    <3>2. Head(todo) = "status" /\ Tail(todo) = rest /\ Len(todo) # 1 /\ Head(rest) = "remove" /\ rest # << >>
      BY <2>1, <3>1
    <3>3. rest \in Todos(op)
      BY <1>7, <3>1 DEF Todos
    <3>4. InOrder(op, "status", "remove")
      BY <1>7 DEF InOrder
    <3> QED
      BY <1>1, <3>2, <3>3, <3>4
  <2>2. CASE todo = << "remove", "forget" >>
    <3>1. PICK rest : rest = << "forget" >>
      OBVIOUS
    <3>2. Head(todo) = "remove" /\ Tail(todo) = rest /\ Len(todo) # 1 /\ Head(rest) = "forget" /\ rest # << >>
      BY <2>2, <3>1
    <3>3. rest \in Todos(op)
      BY <1>7, <3>1 DEF Todos
    <3>4. InOrder(op, "remove", "forget")
      BY <1>7 DEF InOrder
    <3> QED
      BY <1>1, <3>2, <3>3, <3>4
  <2>3. CASE todo = << "forget" >>
    <3>1. InOrder(op, "forget", "none")
      BY <1>7 DEF InOrder
    <3> QED
      BY <1>2, <2>3, <3>1
  <2> QED
    BY <1>7, <2>1, <2>2, <2>3 DEF Todos
<1>8. CASE op = "status"
  <2>1. CASE todo = << "status", "update" >>
    <3>1. PICK rest : rest = << "update" >>
      OBVIOUS
    <3>2. Head(todo) = "status" /\ Tail(todo) = rest /\ Len(todo) # 1 /\ Head(rest) = "update" /\ rest # << >>
      BY <2>1, <3>1
    <3>3. rest \in Todos(op)
      BY <1>8, <3>1 DEF Todos
    <3>4. InOrder(op, "status", "update")
      BY <1>8 DEF InOrder
    <3> QED
      BY <1>1, <3>2, <3>3, <3>4
  <2>2. CASE todo = << "update" >>
    <3>1. InOrder(op, "update", "none")
      BY <1>8 DEF InOrder
    <3> QED
      BY <1>2, <2>2, <3>1
  <2> QED
    BY <1>8, <2>1, <2>2 DEF Todos
<1>9. CASE op = "list"
  <2>1. CASE todo = << "ps", "inspect", "replace" >>
    <3>1. PICK rest : rest = << "inspect", "replace" >>
      OBVIOUS
    <3>2. Head(todo) = "ps" /\ Tail(todo) = rest /\ Len(todo) # 1 /\ Head(rest) = "inspect" /\ rest # << >>
      BY <2>1, <3>1
    <3>3. rest \in Todos(op)
      BY <1>9, <3>1 DEF Todos
    <3>4. InOrder(op, "ps", "inspect")
      BY <1>9 DEF InOrder
    <3> QED
      BY <1>1, <3>2, <3>3, <3>4
  <2>2. CASE todo = << "inspect", "replace" >>
    <3>1. PICK rest : rest = << "replace" >>
      OBVIOUS
    <3>2. Head(todo) = "inspect" /\ Tail(todo) = rest /\ Len(todo) # 1 /\ Head(rest) = "replace" /\ rest # << >>
      BY <2>2, <3>1
    <3>3. rest \in Todos(op)
      BY <1>9, <3>1 DEF Todos
    <3>4. InOrder(op, "inspect", "replace")
      BY <1>9 DEF InOrder
    <3> QED
      BY <1>1, <3>2, <3>3, <3>4
  <2>3. CASE todo = << "replace" >>
    <3>1. InOrder(op, "replace", "none")
      BY <1>9 DEF InOrder
    <3> QED
      BY <1>2, <2>3, <3>1
  <2> QED
    BY <1>9, <2>1, <2>2, <2>3 DEF Todos
<1> QED
  BY <1>3, <1>4, <1>5, <1>6, <1>7, <1>8, <1>9 DEF Operations

\* A record is not the empty sequence, so a call in flight is told from none.
LEMMA CallsAreRecords == \A work \in CallRecords : work # << >>
<1> SUFFICES ASSUME NEW work \in CallRecords PROVE work # << >>
  OBVIOUS
<1>1. "op" \in DOMAIN work
  BY DEF CallRecords
<1>2. DOMAIN << >> = {}
  OBVIOUS
<1> QED
  BY <1>1, <1>2

LEMMA MachinesStart == MachineInit => MachineInv
<1> SUFFICES ASSUME MachineInit PROVE MachineInv
  OBVIOUS
<1>1. machines = NoEntries /\ created = 0 /\ known = NoEntries /\ calls = [c \in Callers |-> << >>]
  BY DEF MachineInit
<1>2. DOMAIN NoEntries = {} /\ NoEntries = [x \in {} |-> x]
  BY DEF NoEntries
<1>3. machines \in [DOMAIN machines -> Machines] /\ known \in [DOMAIN known -> Statuses]
  BY <1>1, <1>2
<1> QED
  BY <1>1, <1>2, <1>3 DEF MachineInv, BackendTyped, NamesAreUnique, KnownFit, Busy, Explained

\* The backend only adds machines, removes them and changes their states.
BackendMoves ==
  /\ created' \in {created, created + 1} /\ DOMAIN machines' \subseteq DOMAIN machines \cup {created'}
  /\ created' = created => DOMAIN machines' \subseteq DOMAIN machines
  /\ \A id \in DOMAIN machines \cap DOMAIN machines' : machines'[id].name = machines[id].name

LEMMA CallsStillFit ==
  ASSUME BackendTyped, BackendMoves, NEW work, CallFits(work)
  PROVE  CallFits(work)'
<1>1. created \in Nat /\ created <= created' /\ created' \in Nat
  BY DEF BackendTyped, BackendMoves
<1>2. ASSUME NEW id \in 0 .. created, id \in DOMAIN machines'
      PROVE  id \in DOMAIN machines /\ machines'[id].name = machines[id].name
  BY <1>1, <1>2 DEF BackendMoves, BackendTyped
<1>3. work.id \in 0 .. created /\ \A s \in work.seen : s.id \in 0 .. created
  BY <1>1 DEF CallFits, CallKnows
<1>4. work.id \in 0 .. created' /\ \A s \in work.seen : s.id \in 1 .. created'
  BY <1>1 DEF CallFits, CallKnows
<1>5. work.op # "list" /\ Exists(work.id)' => machines'[work.id].name = work.name
  BY <1>2, <1>3 DEF CallFits, CallKnows, Exists
<1>6. \A s \in work.seen : Exists(s.id)' => machines'[s.id].name = s.name
  BY <1>2, <1>3 DEF CallFits, CallKnows, Exists
<1>7. Head(work.todo) = "forget" => ~Exists(work.id)'
  BY <1>2, <1>3 DEF CallFits, CallKnows, Exists
<1> QED
  BY <1>4, <1>5, <1>6, <1>7 DEF CallFits, CallKnows

(***************************************************************************)
(* A step of the call of c, which goes on as `next`: the other calls are as*)
(* they were, and so is what they are about to settle.                     *)
(***************************************************************************)
LEMMA OneCallMoves ==
  ASSUME MachineInv, NEW c \in Callers, NEW next, calls' = [calls EXCEPT ![c] = next],
         next = << >> \/ CallFits(next)',
         BackendTyped', NamesAreUnique', KnownFit', BackendMoves,
         \A n \in Names \ overtaken' : Explained(n)'
  PROVE  MachineInv'
<1>1. calls' \in [Callers -> {<< >>} \cup CallRecords]
  BY DEF MachineInv, CallFits, CallKnows
<1>2. ASSUME NEW d \in Callers, Busy(d)' PROVE CallFits(calls[d])'
  <2>1. CASE d = c
    <3>1. calls'[d] = next /\ next # << >>
      BY <1>2, <2>1 DEF MachineInv, Busy
    <3> QED
      BY <3>1 DEF CallFits, CallKnows, Exists
  <2>2. CASE d # c
    <3>1. PICK work : work = calls[d]
      OBVIOUS
    <3>2. calls'[d] = work /\ CallFits(work)
      BY <1>2, <2>2, <3>1 DEF MachineInv, Busy
    <3>3. CallFits(work)'
      BY <3>2, CallsStillFit DEF MachineInv
    <3> QED
      BY <3>2, <3>3 DEF CallFits, CallKnows, Exists
  <2> QED
    BY <2>1, <2>2
<1> QED
  BY <1>1, <1>2 DEF MachineInv

\* What the calls of the others are about to settle, they still are.
LEMMA OthersStillSettle ==
  ASSUME MachineInv, NEW c \in Callers, NEW next, calls' = [calls EXCEPT ![c] = next],
         NEW n, NEW id
  PROVE  /\ (\E d \in Callers : Enters(calls[d], n, id)) =>
              Enters(calls[c], n, id) \/ \E d \in Callers : Enters(calls'[d], n, id)
         /\ (\E d \in Callers : Forgets(calls[d], n, id)) =>
              Forgets(calls[c], n, id) \/ \E d \in Callers : Forgets(calls'[d], n, id)
         /\ Enters(next, n, id) => \E d \in Callers : Enters(calls'[d], n, id)
         /\ Forgets(next, n, id) => \E d \in Callers : Forgets(calls'[d], n, id)
<1>1. calls'[c] = next /\ \A d \in Callers : d # c => calls'[d] = calls[d]
  BY DEF MachineInv
<1> QED
  BY <1>1

(***************************************************************************)
(* A step that touches neither the machines nor the registry: what c was   *)
(* about to settle it still is, or the name is one that was overtaken.     *)
(***************************************************************************)
LEMMA QuietStep ==
  ASSUME MachineInv, NEW c \in Callers, NEW next, calls' = [calls EXCEPT ![c] = next],
         next = << >> \/ CallFits(next),
         UNCHANGED << machines, created, known >>, overtaken \subseteq overtaken',
         \A n \in Names \ overtaken' : \A id \in DOMAIN machines :
           Enters(calls[c], n, id) => Enters(next, n, id),
         \A n, id : ~Forgets(calls[c], n, id)
  PROVE  MachineInv'
<1>1. BackendMoves /\ BackendTyped' /\ NamesAreUnique'
  BY DEF BackendMoves, BackendTyped, NamesAreUnique, MachineInv
<1>2. KnownFit'
  BY DEF KnownFit, MachineInv, Exists
<1>3. next = << >> \/ CallFits(next)'
  BY DEF CallFits, CallKnows, Exists
<1>4. ASSUME NEW n \in Names \ overtaken' PROVE Explained(n)'
  <2>1. Explained(n)
    BY <1>4 DEF MachineInv
  <2>2. ASSUME NEW id \in DOMAIN machines', machines'[id].name = n,
               ~(n \in DOMAIN known' /\ IdOf(n)' = id)
        PROVE  \E d \in Callers : Enters(calls'[d], n, id)
    <3>1. \E d \in Callers : Enters(calls[d], n, id)
      BY <2>1, <2>2 DEF Explained, IdOf
    <3>2. Enters(calls[c], n, id) => Enters(next, n, id)
      BY <2>2
    <3> QED
      BY <3>1, <3>2, OthersStillSettle
  <2>3. ASSUME n \in DOMAIN known', ~Exists(IdOf(n))'
        PROVE  \E d \in Callers : Forgets(calls'[d], n, IdOf(n)')
    <3>1. IdOf(n)' = IdOf(n) /\ \E d \in Callers : Forgets(calls[d], n, IdOf(n))
      BY <2>1, <2>3 DEF Explained, IdOf, Exists
    <3> QED
      BY <3>1, OthersStillSettle
  <2> QED
    BY <2>2, <2>3 DEF Explained
<1> QED
  BY <1>1, <1>2, <1>3, <1>4, OneCallMoves

\* What a call is after Advance.
Advanced(work) == IF Len(work.todo) = 1 THEN << >> ELSE [work EXCEPT !.todo = Tail(@)]

LEMMA CallsAdvance ==
  ASSUME NEW work \in CallRecords, work.todo \in Todos(work.op), Len(work.todo) # 1
  PROVE  /\ Advanced(work) \in CallRecords /\ Advanced(work).todo = Tail(work.todo)
         /\ Advanced(work).todo \in Todos(work.op) /\ Advanced(work) # << >>
         /\ Advanced(work).op = work.op /\ Advanced(work).name = work.name
         /\ Advanced(work).id = work.id /\ Advanced(work).seen = work.seen
<1>1. PICK rest : rest = Tail(work.todo)
  OBVIOUS
<1>2. work.op \in Operations
  BY DEF CallRecords
<1>3. rest \in Todos(work.op)
  BY <1>1, <1>2, StepsInOrder
<1>4. rest \in UNION {Todos(op) : op \in Operations}
  BY <1>2, <1>3
<1>5. Advanced(work) = [work EXCEPT !.todo = rest]
  BY <1>1 DEF Advanced
<1>6. /\ Advanced(work) \in CallRecords /\ Advanced(work).todo = rest
      /\ Advanced(work).op = work.op /\ Advanced(work).name = work.name
      /\ Advanced(work).id = work.id /\ Advanced(work).seen = work.seen
  <2> HIDE DEF Todos
  <2> QED
    BY <1>4, <1>5 DEF CallRecords
<1>7. Advanced(work) # << >>
  BY <1>6, CallsAreRecords
<1> QED
  BY <1>1, <1>3, <1>6, <1>7

\* Advance leaves what a call knows; it is ready to write once it has read, and to forget once
\* it has removed.
LEMMA AdvancedCallsFit ==
  ASSUME NEW work, CallKnows(work),
         Head(work.todo) = "status" => \E s \in work.seen : work.seen = {s},
         Head(work.todo) = "remove" => ~Exists(work.id)
  PROVE  Advanced(work) = << >> \/ CallFits(Advanced(work))
<1> SUFFICES ASSUME Len(work.todo) # 1 PROVE CallFits(Advanced(work))
  BY DEF Advanced
<1>1. PICK next : next = Advanced(work)
  OBVIOUS
<1>2. /\ next \in CallRecords /\ next.todo = Tail(work.todo) /\ next.todo \in Todos(next.op)
      /\ next.op = work.op /\ next.name = work.name /\ next.id = work.id /\ next.seen = work.seen
  BY <1>1, CallsAdvance DEF CallKnows
<1>3. CallKnows(next)
  BY <1>2 DEF CallKnows
<1>4. InOrder(work.op, Head(work.todo), Head(next.todo))
  <2>1. work.op \in Operations /\ work.todo \in Todos(work.op)
    BY DEF CallKnows, CallRecords
  <2> QED
    BY <1>2, <2>1, StepsInOrder DEF Second
<1> QED
  BY <1>1, <1>2, <1>3, <1>4 DEF CallFits, InOrder

\* What the step at hand says of a call that fits.
LEMMA StepAtHand ==
  ASSUME MachineInv, NEW c \in Callers, Busy(c)
  PROVE  /\ CallFits(calls[c]) /\ calls[c] \in CallRecords /\ calls[c].todo \in Todos(calls[c].op)
         /\ calls[c].op \in Operations /\ calls[c].name \in Names
         /\ InOrder(calls[c].op, NextStep(c), Second(calls[c].todo))
         /\ Len(calls[c].todo) = 1 <=> Second(calls[c].todo) = "none"
         /\ calls = [calls EXCEPT ![c] = calls[c]]
<1>1. CallFits(calls[c]) /\ calls = [calls EXCEPT ![c] = calls[c]]
  BY DEF MachineInv
<1>2. /\ calls[c] \in CallRecords /\ calls[c].todo \in Todos(calls[c].op)
      /\ calls[c].op \in Operations /\ calls[c].name \in Names
  BY <1>1 DEF CallFits, CallKnows, CallRecords
<1> QED
  BY <1>1, <1>2, StepsInOrder DEF NextStep

LEMMA BeginKeepsMachines ==
  ASSUME CallsAreKnown, MachineInv, NEW c \in Callers, Begin(c)
  PROVE  MachineInv'
<1>1. PICK op \in Calls, n \in Names :
        /\ op \notin {"create", "list"} => n \in DOMAIN known
        /\ calls' = [calls EXCEPT ![c] =
             [op |-> op, name |-> n, id |-> IF n \in DOMAIN known THEN IdOf(n) ELSE 0,
              todo |-> Steps(op), seen |-> {}, toRead |-> {}]]
  BY DEF Begin
<1>2. PICK id : id = IF n \in DOMAIN known THEN IdOf(n) ELSE 0
  OBVIOUS
<1>3. PICK next : next = [op |-> op, name |-> n, id |-> id, todo |-> Steps(op), seen |-> {}, toRead |-> {}]
  OBVIOUS
<1>4. op \in Operations
  BY DEF CallsAreKnown
<1>5. Steps(op) \in Todos(op) /\ Head(Steps(op)) \notin {"insert", "update", "forget"}
  <2>1. CASE op = "create"
    BY <2>1 DEF Steps, Todos
  <2>2. CASE op = "start"
    BY <2>2 DEF Steps, Todos
  <2>3. CASE op = "stop"
    BY <2>3 DEF Steps, Todos
  <2>4. CASE op = "restart"
    BY <2>4 DEF Steps, Todos
  <2>5. CASE op = "remove"
    BY <2>5 DEF Steps, Todos
  <2>6. CASE op = "status"
    BY <2>6 DEF Steps, Todos
  <2>7. CASE op = "list"
    BY <2>7 DEF Steps, Todos
  <2> QED
    BY <1>4, <2>1, <2>2, <2>3, <2>4, <2>5, <2>6, <2>7 DEF Operations
<1>6. id \in 0 .. created /\ (Exists(id) => machines[id].name = n)
  <2>1. created \in Nat /\ 0 \notin DOMAIN machines
    BY DEF MachineInv, BackendTyped
  <2> QED
    BY <1>2, <2>1 DEF MachineInv, KnownFit, IdOf, Exists
<1>7. next \in CallRecords
  <2>1. PICK todo : todo = Steps(op)
    OBVIOUS
  <2>2. todo \in UNION {Todos(o) : o \in Operations} /\ id \in Nat
    BY <1>4, <1>5, <1>6, <2>1 DEF MachineInv, BackendTyped
  <2>3. next = [op |-> op, name |-> n, id |-> id, todo |-> todo, seen |-> {}, toRead |-> {}]
    BY <1>3, <2>1
  <2> QED
    BY <1>4, <2>2, <2>3 DEF CallRecords
<1>8. CallFits(next)
  BY <1>3, <1>5, <1>6, <1>7 DEF CallFits, CallKnows
<1>9. \A m, i : ~Enters(calls[c], m, i) /\ ~Forgets(calls[c], m, i)
  BY DEF Begin, Busy, Enters, Forgets
<1>10. /\ calls' = [calls EXCEPT ![c] = next]
       /\ UNCHANGED << machines, created, known >> /\ overtaken \subseteq overtaken'
  BY <1>1, <1>2, <1>3 DEF Begin
<1> QED
  BY <1>8, <1>9, <1>10, QuietStep

\* A call that is refused, or goes on without a word to the registry.
LEMMA RefusalKeepsMachines ==
  ASSUME MachineInv, NEW c \in Callers, Busy(c), Return(c), UNCHANGED << machines, created, known >>,
         overtaken \subseteq overtaken', NextStep(c) \notin {"insert", "forget"},
         calls[c].op = "create" /\ NextStep(c) = "status" =>
           calls[c].name \in overtaken' \/ ~Exists(calls[c].id)
  PROVE  MachineInv'
<1>1. calls' = [calls EXCEPT ![c] = << >>]
  BY DEF Return
<1>2. \A n, id : ~Forgets(calls[c], n, id)
  BY DEF Forgets, NextStep
<1>3. ASSUME NEW n \in Names \ overtaken', NEW id \in DOMAIN machines
      PROVE  ~Enters(calls[c], n, id)
  BY <1>3 DEF Enters, NextStep, Exists
<1> QED
  BY <1>1, <1>2, <1>3, QuietStep

LEMMA FailureKeepsMachines ==
  ASSUME MachineInv, NEW c \in Callers, Busy(c), BackendFails(c)
  PROVE  MachineInv'
<1>1. /\ Return(c) /\ UNCHANGED << machines, created, known >> /\ overtaken \subseteq overtaken'
      /\ NextStep(c) \notin {"insert", "forget"}
      /\ calls[c].op = "create" /\ NextStep(c) = "status" => calls[c].name \in overtaken'
  BY DEF BackendFails
<1> QED
  BY <1>1, RefusalKeepsMachines

\* A call that reads or looks up, and goes on with what it learned.
LEMMA ReadingKeepsMachines ==
  ASSUME MachineInv, NEW c \in Callers, Busy(c), NEW work, CallKnows(work),
         calls' = [calls EXCEPT ![c] = Advanced(work)],
         UNCHANGED << machines, created, known, overtaken >>,
         work.op = calls[c].op, work.name = calls[c].name, work.todo = calls[c].todo,
         NextStep(c) \notin {"create", "remove", "insert", "forget"},
         NextStep(c) = "status" => work.id = calls[c].id /\ \E s \in work.seen : work.seen = {s}
  PROVE  MachineInv'
<1>1. Advanced(work) = << >> \/ CallFits(Advanced(work))
  BY AdvancedCallsFit DEF NextStep
<1>2. ASSUME NEW n, NEW id, Enters(calls[c], n, id)
      PROVE  Enters(Advanced(work), n, id)
  <2>1. work.op = "create" /\ Head(work.todo) = "status" /\ work.name = n /\ work.id = id
    BY <1>2 DEF Enters, NextStep
  <2>2. InOrder(work.op, "status", Second(work.todo)) /\ work.op \in Operations
        /\ work \in CallRecords /\ work.todo \in Todos(work.op)
    BY <2>1, StepAtHand DEF NextStep, CallKnows
  <2>3. Second(work.todo) = "insert"
    BY <2>1, <2>2 DEF InOrder
  <2>4. Len(work.todo) # 1 /\ Head(Tail(work.todo)) = "insert"
    BY <2>3 DEF Second
  <2>5. /\ Advanced(work).todo = Tail(work.todo) /\ Advanced(work) # << >>
        /\ Advanced(work).op = "create" /\ Advanced(work).name = n /\ Advanced(work).id = id
    BY <2>1, <2>2, <2>4, CallsAdvance
  <2> QED
    BY <2>4, <2>5 DEF Enters
<1>3. \A n, id : ~Forgets(calls[c], n, id)
  BY DEF Forgets, NextStep
<1> QED
  BY <1>1, <1>2, <1>3, QuietStep

LEMMA StatusesAreTyped ==
  ASSUME MachineInv, NEW id \in DOMAIN machines
  PROVE  /\ Status(id) \in Statuses /\ Status(id).id = id /\ Status(id).name = machines[id].name
         /\ id \in 1 .. created /\ machines[id] \in Machines
  BY DEF MachineInv, BackendTyped, Status, Statuses, Machines

LEMMA ReadStatusKeepsMachines ==
  ASSUME MachineInv, NEW c \in Callers, Busy(c), ReadStatus(c), UNCHANGED << known, overtaken >>
  PROVE  MachineInv'
<1>1. PICK old, id : old = calls[c] /\ id = old.id
  OBVIOUS
<1>2. /\ CallFits(old) /\ old \in CallRecords /\ old.op # "list" /\ Head(old.todo) = "status"
      /\ NextStep(c) = "status"
  BY <1>1, StepAtHand DEF ReadStatus, InOrder, NextStep
<1>3. CASE ~Exists(id)
  BY <1>1, <1>2, <1>3, RefusalKeepsMachines DEF ReadStatus
<1>4. CASE Exists(id)
  <2>1. PICK read : read = Status(id)
    OBVIOUS
  <2>2. PICK work : work = [old EXCEPT !.seen = {read}]
    OBVIOUS
  <2>3. /\ read \in Statuses /\ read.id = id /\ read.name = machines[id].name /\ id \in 1 .. created
        /\ machines[id].name = old.name
    BY <1>1, <1>2, <1>4, <2>1, StatusesAreTyped DEF Exists, CallFits, CallKnows
  <2>4. /\ work \in CallRecords /\ work.seen = {read} /\ work.id = id /\ work.op = old.op
        /\ work.name = old.name /\ work.todo = old.todo
    <3> HIDE DEF Todos
    <3> QED
      BY <1>1, <1>2, <2>2, <2>3 DEF CallRecords
  <2>5. CallKnows(work)
    BY <1>1, <1>2, <2>3, <2>4 DEF CallFits, CallKnows
  <2>6. calls' = [calls EXCEPT ![c] = Advanced(work)] /\ UNCHANGED << machines, created >>
    BY <1>1, <1>4, <2>1, <2>2 DEF ReadStatus, Advance, Advanced
  <2>7. \E s \in work.seen : work.seen = {s}
    BY <2>4
  <2> QED
    BY <1>1, <1>2, <2>4, <2>5, <2>6, <2>7, ReadingKeepsMachines
<1> QED
  BY <1>3, <1>4

LEMMA ListIdsKeepsMachines ==
  ASSUME MachineInv, NEW c \in Callers, Busy(c), ListIds(c), UNCHANGED << known, overtaken >>
  PROVE  MachineInv'
<1>1. PICK old, work : old = calls[c] /\ work = [old EXCEPT !.toRead = DOMAIN machines]
  OBVIOUS
<1>2. CallFits(old) /\ old \in CallRecords /\ NextStep(c) = "ps"
  BY <1>1, StepAtHand DEF ListIds
<1>3. DOMAIN machines \subseteq Nat
  BY DEF MachineInv, BackendTyped
<1>4. /\ work \in CallRecords /\ work.seen = old.seen /\ work.id = old.id /\ work.op = old.op
      /\ work.name = old.name /\ work.todo = old.todo
  <2> HIDE DEF Todos
  <2> QED
    BY <1>1, <1>2, <1>3 DEF CallRecords
<1>5. CallKnows(work)
  BY <1>2, <1>4 DEF CallFits, CallKnows
<1>6. calls' = [calls EXCEPT ![c] = Advanced(work)] /\ UNCHANGED << machines, created >>
  BY <1>1 DEF ListIds, Advance, Advanced
<1> QED
  BY <1>1, <1>2, <1>4, <1>5, <1>6, ReadingKeepsMachines

LEMMA ResolveAgainKeepsMachines ==
  ASSUME MachineInv, NEW c \in Callers, Busy(c), ResolveAgain(c), UNCHANGED << machines, created >>
  PROVE  MachineInv'
<1>1. PICK old : old = calls[c]
  OBVIOUS
<1>2. /\ CallFits(old) /\ old \in CallRecords /\ NextStep(c) = "resolve"
      /\ old.op \notin {"list", "create", "remove"}
  BY <1>1, StepAtHand DEF ResolveAgain, InOrder
<1>3. CASE old.name \notin DOMAIN known
  BY <1>1, <1>2, <1>3, RefusalKeepsMachines DEF ResolveAgain
<1>4. CASE old.name \in DOMAIN known
  <2>1. PICK id : id = IdOf(old.name)
    OBVIOUS
  <2>2. PICK work : work = [old EXCEPT !.id = id]
    OBVIOUS
  <2>3. id \in 1 .. created /\ created \in Nat /\ (Exists(id) => machines[id].name = old.name)
    BY <1>4, <2>1 DEF MachineInv, KnownFit, IdOf, BackendTyped
  <2>4. /\ work \in CallRecords /\ work.seen = old.seen /\ work.id = id /\ work.op = old.op
        /\ work.name = old.name /\ work.todo = old.todo
    <3> HIDE DEF Todos
    <3> QED
      BY <1>2, <2>2, <2>3 DEF CallRecords
  <2>5. CallKnows(work)
    BY <1>2, <2>3, <2>4 DEF CallFits, CallKnows
  <2>6. calls' = [calls EXCEPT ![c] = Advanced(work)] /\ UNCHANGED << known, overtaken >>
    BY <1>1, <1>4, <2>1, <2>2 DEF ResolveAgain, Advance, Advanced
  <2> QED
    BY <1>1, <1>2, <2>4, <2>5, <2>6, ReadingKeepsMachines
<1> QED
  BY <1>3, <1>4

LEMMA InspectKeepsMachines ==
  ASSUME MachineInv, NEW c \in Callers, Busy(c), Inspect(c), UNCHANGED << known, overtaken >>
  PROVE  MachineInv'
<1>1. PICK old : old = calls[c]
  OBVIOUS
<1>2. /\ CallFits(old) /\ old \in CallRecords /\ NextStep(c) = "inspect" /\ Head(old.todo) = "inspect"
      /\ old.op = "list" /\ UNCHANGED << machines, created >>
  BY <1>1, StepAtHand DEF Inspect, InOrder, NextStep
<1>3. CASE old.toRead = {}
  <2>1. calls' = [calls EXCEPT ![c] = Advanced(old)]
    BY <1>1, <1>3 DEF Inspect, Advance, Advanced
  <2> QED
    BY <1>1, <1>2, <2>1, ReadingKeepsMachines DEF CallFits
<1>4. CASE Return(c)
  BY <1>1, <1>2, <1>4, RefusalKeepsMachines
<1>5. ASSUME NEW id \in DOMAIN machines,
             calls' = [calls EXCEPT ![c].toRead = @ \ {id}, ![c].seen = @ \cup {Status(id)}]
      PROVE  MachineInv'
  <2>1. PICK read, seen, rest :
          read = Status(id) /\ seen = old.seen \cup {read} /\ rest = old.toRead \ {id}
    OBVIOUS
  <2>2. PICK half, work : half = [old EXCEPT !.toRead = rest] /\ work = [half EXCEPT !.seen = seen]
    OBVIOUS
  <2>3. read \in Statuses /\ read.id = id /\ read.name = machines[id].name /\ id \in 1 .. created
    BY <2>1, StatusesAreTyped DEF Exists
  <2>4. half \in CallRecords /\ half.seen = old.seen /\ half.op = old.op /\ half.name = old.name
        /\ half.todo = old.todo /\ half.id = old.id
    <3> HIDE DEF Todos
    <3> QED
      BY <1>2, <2>1, <2>2 DEF CallRecords
  <2>5. /\ work \in CallRecords /\ work.seen = seen /\ work.id = old.id /\ work.op = old.op
        /\ work.name = old.name /\ work.todo = old.todo
    <3>1. seen \in SUBSET Statuses
      BY <1>2, <2>1, <2>3 DEF CallRecords
    <3> HIDE DEF Todos
    <3> QED
      BY <2>2, <2>4, <3>1 DEF CallRecords
  <2>6. CallFits(work)
    BY <1>2, <2>1, <2>3, <2>5 DEF CallFits, CallKnows
  <2>7. calls' = [calls EXCEPT ![c] = work]
    <3>1. PICK between : between = [calls EXCEPT ![c] = half]
      OBVIOUS
    <3>2. between = [calls EXCEPT ![c].toRead = @ \ {id}]
      BY <1>1, <2>1, <2>2, <3>1
    <3>3. calls' = [between EXCEPT ![c].seen = @ \cup {read}]
      BY <1>5, <2>1, <3>2
    <3>4. between[c] = half
      BY <3>1 DEF MachineInv
    <3>5. calls' = [between EXCEPT ![c] = work]
      BY <2>1, <2>2, <2>4, <3>3, <3>4
    <3> QED
      BY <3>1, <3>5 DEF MachineInv
  <2>8. \A n, i : ~Enters(calls[c], n, i) /\ ~Forgets(calls[c], n, i)
    BY <1>1, <1>2 DEF Enters, Forgets
  <2> QED
    BY <1>2, <2>6, <2>7, <2>8, QuietStep
<1> QED
  BY <1>1, <1>3, <1>4, <1>5 DEF Inspect, Exists

\* A new machine takes a name the backend does not know, and its create goes on to enter it.
LEMMA CreateKeepsMachines ==
  ASSUME MachineInv, NEW c \in Callers, Busy(c), CreateMachine(c), UNCHANGED << known, overtaken >>
  PROVE  MachineInv'
<1>1. PICK old : old = calls[c]
  OBVIOUS
<1>2. /\ CallFits(old) /\ old \in CallRecords /\ NextStep(c) = "create" /\ Head(old.todo) = "create"
      /\ old.op = "create" /\ Second(old.todo) = "status" /\ old.name \in Names
      /\ old.todo \in Todos(old.op)
  BY <1>1, StepAtHand DEF CreateMachine, InOrder, NextStep
<1>3. CASE NameTaken(old.name)
  BY <1>1, <1>2, <1>3, RefusalKeepsMachines DEF CreateMachine
<1>4. CASE ~NameTaken(old.name)
  <2>1. PICK id, new : id = created + 1 /\ new = [name |-> old.name, state |-> "created"]
    OBVIOUS
  <2>2. PICK work : work = [old EXCEPT !.id = id]
    OBVIOUS
  <2>3. /\ created' = id /\ machines' = Put(machines, id, new)
        /\ calls' = [calls EXCEPT ![c] = Advanced(work)]
    BY <1>1, <1>4, <2>1, <2>2 DEF CreateMachine, Advance, Advanced
  <2>4. /\ created \in Nat /\ id \in Nat /\ id > created /\ DOMAIN machines \subseteq 1 .. created
        /\ machines \in [DOMAIN machines -> Machines] /\ new \in Machines
    BY <1>2, <2>1 DEF MachineInv, BackendTyped, Machines, MachineStates
  <2>5. /\ DOMAIN machines' = DOMAIN machines \cup {id} /\ machines'[id] = new
        /\ \A i \in DOMAIN machines : machines'[i] = machines[i] /\ i # id
        /\ machines' \in [DOMAIN machines' -> Machines]
    BY <2>3, <2>4 DEF Put
  <2>6. BackendMoves /\ BackendTyped'
    BY <2>1, <2>3, <2>4, <2>5 DEF BackendMoves, BackendTyped
  <2>7. NamesAreUnique'
    <3>1. \A i \in DOMAIN machines : machines[i].name # old.name
      BY <1>4 DEF NameTaken
    <3>2. new.name = old.name
      BY <2>1
    <3> QED
      BY <2>5, <3>1, <3>2 DEF MachineInv, NamesAreUnique
  <2>8. \A n \in DOMAIN known : /\ known[n].id \in 1 .. created /\ known[n].id # id
                                /\ known[n].id \in DOMAIN machines' => known[n].id \in DOMAIN machines
    BY <2>4, <2>5 DEF MachineInv, KnownFit
  <2>9. KnownFit'
    <3>1. \A n \in DOMAIN known : known[n].id \in 1 .. created'
      BY <2>3, <2>4, <2>8
    <3>2. \A n \in DOMAIN known :
            known[n].id \in DOMAIN machines' => machines'[known[n].id].name = n
      BY <2>5, <2>8 DEF MachineInv, KnownFit, Exists
    <3> QED
      BY <3>1, <3>2 DEF MachineInv, KnownFit, Exists
  <2>10. /\ work \in CallRecords /\ work.seen = old.seen /\ work.id = id /\ work.op = old.op
         /\ work.name = old.name /\ work.todo = old.todo
    <3> HIDE DEF Todos
    <3> QED
      BY <1>2, <2>2, <2>4 DEF CallRecords
  <2>11. /\ Advanced(work) \in CallRecords /\ Advanced(work).todo = Tail(old.todo)
         /\ Advanced(work).todo \in Todos("create") /\ Advanced(work) # << >>
         /\ Advanced(work).op = "create" /\ Advanced(work).name = old.name
         /\ Advanced(work).id = id /\ Advanced(work).seen = old.seen /\ Head(Tail(old.todo)) = "status"
    <3>1. Len(old.todo) # 1 /\ Head(Tail(old.todo)) = "status"
      BY <1>2 DEF Second
    <3> QED
      BY <1>2, <2>10, <3>1, CallsAdvance
  <2>12. old.seen = {}
    BY <1>2 DEF CallFits
  <2>13. CallFits(Advanced(work))'
    <3>1. id \in 0 .. created' /\ machines'[id].name = old.name
      BY <2>1, <2>3, <2>4, <2>5
    <3>2. CallKnows(Advanced(work))'
      BY <2>11, <2>12, <3>1 DEF CallKnows
    <3> QED
      BY <2>11, <3>2 DEF CallFits
  <2>14. ASSUME NEW n \in Names \ overtaken' PROVE Explained(n)'
    <3>1. Explained(n)
      BY <2>14 DEF MachineInv
    <3>2. \A i : ~Enters(old, n, i) /\ ~Forgets(old, n, i)
      BY <1>2 DEF Enters, Forgets
    <3>3. ASSUME NEW i \in DOMAIN machines', machines'[i].name = n,
                 ~(n \in DOMAIN known' /\ IdOf(n)' = i)
          PROVE  \E d \in Callers : Enters(calls'[d], n, i)
      <4>1. CASE i = id
        <5>0. n = old.name
          BY <2>1, <2>5, <3>3, <4>1
        <5>1. Enters(Advanced(work), n, i)
          BY <2>11, <4>1, <5>0 DEF Enters
        <5>2. calls'[c] = Advanced(work)
          BY <2>3 DEF MachineInv
        <5> QED
          BY <5>1, <5>2
      <4>2. CASE i # id
        <5>1. \E d \in Callers : Enters(calls[d], n, i)
          BY <2>5, <3>1, <3>3, <4>2 DEF Explained, IdOf
        <5> QED
          BY <1>1, <2>3, <3>2, <5>1, OthersStillSettle
      <4> QED
        BY <4>1, <4>2
    <3>4. ASSUME n \in DOMAIN known', ~Exists(IdOf(n))'
          PROVE  \E d \in Callers : Forgets(calls'[d], n, IdOf(n)')
      <4>1. \E d \in Callers : Forgets(calls[d], n, IdOf(n))
        BY <2>5, <3>1, <3>4 DEF Explained, IdOf, Exists
      <4> QED
        BY <1>1, <2>3, <3>2, <4>1, OthersStillSettle DEF IdOf
    <3> QED
      BY <3>3, <3>4 DEF Explained
  <2> QED
    BY <2>3, <2>6, <2>7, <2>9, <2>13, <2>14, OneCallMoves
<1> QED
  BY <1>3, <1>4

\* The state of a machine is not what the registry is about.
LEMMA TransitionKeepsMachines ==
  ASSUME MachineInv, NEW c \in Callers, Busy(c), NEW step \in {"start", "stop"}, NEW from,
         NEW to \in MachineStates, Transition(c, step, from, to), UNCHANGED << known, overtaken >>
  PROVE  MachineInv'
<1>1. PICK old, id : old = calls[c] /\ id = old.id
  OBVIOUS
<1>2. /\ CallFits(old) /\ old \in CallRecords /\ NextStep(c) = step /\ Head(old.todo) = step
      /\ old.op \notin {"list", "create", "remove"} /\ created' = created
  BY <1>1, StepAtHand DEF Transition, InOrder, NextStep
<1>3. CASE Return(c) /\ UNCHANGED machines
  BY <1>1, <1>2, <1>3, RefusalKeepsMachines
<1>4. CASE /\ Exists(id) /\ machines' = [machines EXCEPT ![id].state = to] /\ Advance(c, old)
  <2>1. calls' = [calls EXCEPT ![c] = Advanced(old)]
    BY <1>4 DEF Advance, Advanced
  <2>2. /\ DOMAIN machines' = DOMAIN machines /\ machines' \in [DOMAIN machines' -> Machines]
        /\ \A i \in DOMAIN machines : machines'[i].name = machines[i].name
    <3>1. machines \in [DOMAIN machines -> Machines]
      BY DEF MachineInv, BackendTyped
    <3> QED
      BY <1>4, <3>1 DEF Machines
  <2>3. BackendMoves /\ BackendTyped' /\ NamesAreUnique'
    BY <1>2, <2>2 DEF BackendMoves, BackendTyped, NamesAreUnique, MachineInv
  <2>4. KnownFit'
    BY <1>2, <2>2 DEF KnownFit, MachineInv, Exists
  <2>5. Advanced(old) = << >> \/ CallFits(Advanced(old))
    BY <1>2, AdvancedCallsFit DEF CallFits
  <2>6. Advanced(old) = << >> \/ CallFits(Advanced(old))'
    <3>1. PICK next : next = Advanced(old)
      OBVIOUS
    <3> QED
      BY <2>3, <2>5, <3>1, CallsStillFit DEF MachineInv
  <2>7. ASSUME NEW n \in Names \ overtaken' PROVE Explained(n)'
    <3>1. Explained(n)
      BY <2>7 DEF MachineInv
    <3>2. \A i : ~Enters(old, n, i) /\ ~Forgets(old, n, i)
      BY <1>2 DEF Enters, Forgets
    <3>3. ASSUME NEW i \in DOMAIN machines', machines'[i].name = n,
                 ~(n \in DOMAIN known' /\ IdOf(n)' = i)
          PROVE  \E d \in Callers : Enters(calls'[d], n, i)
      <4>1. \E d \in Callers : Enters(calls[d], n, i)
        BY <2>2, <3>1, <3>3 DEF Explained, IdOf
      <4> QED
        BY <1>1, <2>1, <3>2, <4>1, OthersStillSettle
    <3>4. ASSUME n \in DOMAIN known', ~Exists(IdOf(n))'
          PROVE  \E d \in Callers : Forgets(calls'[d], n, IdOf(n)')
      <4>1. \E d \in Callers : Forgets(calls[d], n, IdOf(n))
        BY <2>2, <3>1, <3>4 DEF Explained, IdOf, Exists
      <4> QED
        BY <1>1, <2>1, <3>2, <4>1, OthersStillSettle DEF IdOf
    <3> QED
      BY <3>3, <3>4 DEF Explained
  <2> QED
    BY <2>1, <2>3, <2>4, <2>6, <2>7, OneCallMoves
<1> QED
  BY <1>1, <1>3, <1>4 DEF Transition

\* Who removes a machine goes on to forget its name.
LEMMA RemoveKeepsMachines ==
  ASSUME MachineInv, NEW c \in Callers, Busy(c), RemoveMachine(c), UNCHANGED << known, overtaken >>
  PROVE  MachineInv'
<1>1. PICK old, id : old = calls[c] /\ id = old.id
  OBVIOUS
<1>2. /\ CallFits(old) /\ old \in CallRecords /\ NextStep(c) = "remove" /\ Head(old.todo) = "remove"
      /\ old.op = "remove" /\ Second(old.todo) = "forget" /\ created' = created
      /\ old.todo \in Todos(old.op)
  BY <1>1, StepAtHand DEF RemoveMachine, InOrder, NextStep
<1>3. CASE Return(c) /\ UNCHANGED machines
  BY <1>1, <1>2, <1>3, RefusalKeepsMachines
<1>4. CASE Exists(id) /\ machines' = Drop(machines, {id}) /\ Advance(c, old)
  <2>1. calls' = [calls EXCEPT ![c] = Advanced(old)]
    BY <1>4 DEF Advance, Advanced
  <2>2. /\ DOMAIN machines' = DOMAIN machines \ {id} /\ machines' \in [DOMAIN machines' -> Machines]
        /\ \A i \in DOMAIN machines' : machines'[i] = machines[i]
    <3>1. machines \in [DOMAIN machines -> Machines]
      BY DEF MachineInv, BackendTyped
    <3> QED
      BY <1>4, <3>1 DEF Drop
  <2>3. BackendMoves /\ BackendTyped' /\ NamesAreUnique'
    BY <1>2, <2>2 DEF BackendMoves, BackendTyped, NamesAreUnique, MachineInv
  <2>4. KnownFit'
    BY <1>2, <2>2 DEF KnownFit, MachineInv, Exists
  <2>5. /\ Advanced(old) \in CallRecords /\ Advanced(old).todo = Tail(old.todo)
        /\ Advanced(old).todo \in Todos("remove") /\ Advanced(old) # << >>
        /\ Advanced(old).op = "remove" /\ Advanced(old).name = old.name
        /\ Advanced(old).id = id /\ Advanced(old).seen = old.seen /\ Head(Tail(old.todo)) = "forget"
    <3>1. Len(old.todo) # 1 /\ Head(Tail(old.todo)) = "forget"
      BY <1>2 DEF Second
    <3> QED
      BY <1>1, <1>2, <3>1, CallsAdvance
  <2>6. CallFits(Advanced(old))'
    <3>1. CallKnows(Advanced(old))
      BY <1>1, <1>2, <2>5 DEF CallFits, CallKnows
    <3>2. CallKnows(Advanced(old))'
      BY <1>2, <2>2, <3>1 DEF CallKnows, Exists
    <3> QED
      BY <2>2, <2>5, <3>2 DEF CallFits, Exists
  <2>7. ASSUME NEW n \in Names \ overtaken' PROVE Explained(n)'
    <3>1. Explained(n)
      BY <2>7 DEF MachineInv
    <3>2. \A i : ~Enters(old, n, i) /\ ~Forgets(old, n, i)
      BY <1>2 DEF Enters, Forgets
    <3>3. ASSUME NEW i \in DOMAIN machines', machines'[i].name = n,
                 ~(n \in DOMAIN known' /\ IdOf(n)' = i)
          PROVE  \E d \in Callers : Enters(calls'[d], n, i)
      <4>1. \E d \in Callers : Enters(calls[d], n, i)
        BY <2>2, <3>1, <3>3 DEF Explained, IdOf
      <4> QED
        BY <1>1, <2>1, <3>2, <4>1, OthersStillSettle
    <3>4. ASSUME n \in DOMAIN known', ~Exists(IdOf(n))'
          PROVE  \E d \in Callers : Forgets(calls'[d], n, IdOf(n)')
      <4>0. n \in DOMAIN known /\ IdOf(n)' = IdOf(n)
        BY <3>4 DEF IdOf
      <4>1. CASE IdOf(n) = id
        <5>1. n = old.name
          BY <1>1, <1>2, <1>4, <4>0, <4>1 DEF CallFits, CallKnows, MachineInv, KnownFit, IdOf
        <5>2. Forgets(Advanced(old), n, IdOf(n))
          BY <2>5, <4>1, <5>1 DEF Forgets
        <5>3. calls'[c] = Advanced(old)
          BY <2>1 DEF MachineInv
        <5> QED
          BY <4>0, <5>2, <5>3
      <4>2. CASE IdOf(n) # id
        <5>1. \E d \in Callers : Forgets(calls[d], n, IdOf(n))
          BY <2>2, <3>1, <3>4, <4>0, <4>2 DEF Explained, Exists
        <5> QED
          BY <1>1, <2>1, <3>2, <4>0, <5>1, OthersStillSettle
      <4> QED
        BY <4>1, <4>2
    <3> QED
      BY <3>3, <3>4 DEF Explained
  <2> QED
    BY <2>1, <2>3, <2>4, <2>6, <2>7, OneCallMoves
<1> QED
  BY <1>1, <1>3, <1>4 DEF RemoveMachine

\* A step that touches the registry alone; what it leaves unexplained it has marked.
LEMMA RegistryStep ==
  ASSUME MachineInv, NEW c \in Callers, NEW old, old = calls[c], CallFits(old),
         calls' = [calls EXCEPT ![c] = Advanced(old)], UNCHANGED << machines, created >>,
         KnownFit', Head(old.todo) \in {"insert", "update", "forget", "replace"},
         \A n \in Names \ overtaken' : Explained(n)'
  PROVE  MachineInv'
<1>1. BackendMoves /\ BackendTyped' /\ NamesAreUnique'
  BY DEF BackendMoves, BackendTyped, NamesAreUnique, MachineInv
<1>2. Advanced(old) = << >> \/ CallFits(Advanced(old))
  BY AdvancedCallsFit DEF CallFits
<1>3. PICK next : next = Advanced(old)
  OBVIOUS
<1>4. next = << >> \/ CallFits(next)'
  BY <1>1, <1>2, <1>3, CallsStillFit DEF MachineInv
<1> QED
  BY <1>1, <1>3, <1>4, OneCallMoves

\* A name whose entry is as it was is explained as it was, by the calls of the others.
LEMMA UntouchedNames ==
  ASSUME MachineInv, NEW c \in Callers, NEW next, calls' = [calls EXCEPT ![c] = next],
         UNCHANGED machines, NEW n, Explained(n),
         n \in DOMAIN known' <=> n \in DOMAIN known, n \in DOMAIN known => IdOf(n)' = IdOf(n),
         \A id : ~Enters(calls[c], n, id) /\ ~Forgets(calls[c], n, id)
  PROVE  Explained(n)'
<1>1. ASSUME NEW i \in DOMAIN machines', machines'[i].name = n,
             ~(n \in DOMAIN known' /\ IdOf(n)' = i)
      PROVE  \E d \in Callers : Enters(calls'[d], n, i)
  <2>1. \E d \in Callers : Enters(calls[d], n, i)
    BY <1>1 DEF Explained
  <2> QED
    BY <2>1, OthersStillSettle
<1>2. ASSUME n \in DOMAIN known', ~Exists(IdOf(n))'
      PROVE  \E d \in Callers : Forgets(calls'[d], n, IdOf(n)')
  <2>1. IdOf(n)' = IdOf(n) /\ \E d \in Callers : Forgets(calls[d], n, IdOf(n))
    BY <1>2 DEF Explained, Exists
  <2> QED
    BY <2>1, OthersStillSettle
<1> QED
  BY <1>1, <1>2 DEF Explained

LEMMA InsertKeepsMachines ==
  ASSUME MachineInv, NEW c \in Callers, Busy(c), Insert(c), UNCHANGED << machines, created >>
  PROVE  MachineInv'
<1>1. PICK old, name : old = calls[c] /\ name = old.name
  OBVIOUS
<1>2. /\ CallFits(old) /\ old \in CallRecords /\ Head(old.todo) = "insert"
      /\ old.op = "create" /\ name \in Names
  BY <1>1, StepAtHand DEF Insert, InOrder, NextStep
<1>3. PICK read : old.seen = {read} /\ Seen(c) = read
  BY <1>1, <1>2 DEF CallFits, Seen
<1>4. /\ read \in Statuses /\ read.id \in 1 .. created /\ read.name = name
      /\ Exists(read.id) => machines[read.id].name = name
  BY <1>1, <1>2, <1>3 DEF CallFits, CallKnows, CallRecords
<1>5. /\ known' = Put(known, name, read) /\ calls' = [calls EXCEPT ![c] = Advanced(old)]
      /\ overtaken' = IF Exists(read.id) THEN overtaken ELSE overtaken \cup {name}
  BY <1>1, <1>3 DEF Insert, Advance, Advanced, Mark
<1>6. /\ DOMAIN known' = DOMAIN known \cup {name} /\ known'[name] = read
      /\ \A n \in DOMAIN known : n # name => known'[n] = known[n]
      /\ known' \in [DOMAIN known' -> Statuses]
  BY <1>4, <1>5 DEF Put, MachineInv, KnownFit
<1>7. KnownFit'
  BY <1>4, <1>6 DEF MachineInv, KnownFit, Exists
<1>8. ASSUME NEW n \in Names \ overtaken' PROVE Explained(n)'
  <2>1. CASE n = name
    <3>1. Exists(read.id) /\ IdOf(n)' = read.id
      BY <1>5, <1>6, <1>8, <2>1 DEF IdOf
    <3>2. \A i \in DOMAIN machines : machines[i].name = n => i = read.id
      BY <1>4, <2>1, <3>1 DEF MachineInv, NamesAreUnique, Exists
    <3> QED
      BY <1>6, <2>1, <3>1, <3>2 DEF Explained, Exists
  <2>2. CASE n # name
    <3>1. \A id : ~Enters(calls[c], n, id) /\ ~Forgets(calls[c], n, id)
      BY <1>1, <1>2, <2>2 DEF Enters, Forgets
    <3>2. Explained(n)
      BY <1>5, <1>8 DEF MachineInv
    <3>3. (n \in DOMAIN known' <=> n \in DOMAIN known) /\ (n \in DOMAIN known => IdOf(n)' = IdOf(n))
      BY <1>6, <2>2 DEF IdOf
    <3> QED
      BY <1>5, <3>1, <3>2, <3>3, UntouchedNames
  <2> QED
    BY <2>1, <2>2
<1> QED
  BY <1>1, <1>2, <1>5, <1>7, <1>8, RegistryStep

LEMMA UpdateKeepsMachines ==
  ASSUME MachineInv, NEW c \in Callers, Busy(c), UpdateEntry(c), UNCHANGED << machines, created >>
  PROVE  MachineInv'
<1>1. PICK old, name : old = calls[c] /\ name = old.name
  OBVIOUS
<1>2. /\ CallFits(old) /\ old \in CallRecords /\ Head(old.todo) = "update"
      /\ old.op \notin {"list", "create", "remove"} /\ name \in Names
  BY <1>1, StepAtHand DEF UpdateEntry, InOrder, NextStep
<1>3. PICK read : old.seen = {read} /\ Seen(c) = read
  BY <1>1, <1>2 DEF CallFits, Seen
<1>4. /\ read \in Statuses /\ read.id \in 1 .. created /\ read.name = name
      /\ Exists(read.id) => machines[read.id].name = name
  BY <1>1, <1>2, <1>3 DEF CallFits, CallKnows, CallRecords
<1>5. /\ known' = Update(known, name, read) /\ calls' = [calls EXCEPT ![c] = Advanced(old)]
      /\ overtaken' = IF name \in DOMAIN known /\ IdOf(name) # read.id
                      THEN overtaken \cup {name} ELSE overtaken
  BY <1>1, <1>3 DEF UpdateEntry, Advance, Advanced, Mark
<1>6. /\ DOMAIN known' = DOMAIN known /\ (name \in DOMAIN known => known'[name] = read)
      /\ \A n \in DOMAIN known : n # name => known'[n] = known[n]
      /\ known' \in [DOMAIN known' -> Statuses]
  BY <1>4, <1>5 DEF Update, Put, MachineInv, KnownFit
<1>7. KnownFit'
  BY <1>4, <1>6 DEF MachineInv, KnownFit, Exists
<1>8. ASSUME NEW n \in Names \ overtaken' PROVE Explained(n)'
  <2>1. \A id : ~Enters(calls[c], n, id) /\ ~Forgets(calls[c], n, id)
    BY <1>1, <1>2 DEF Enters, Forgets
  <2>2. Explained(n)
    BY <1>5, <1>8 DEF MachineInv
  <2>3. n \in DOMAIN known => IdOf(n)' = IdOf(n)
    BY <1>5, <1>6, <1>8 DEF IdOf
  <2> QED
    BY <1>5, <1>6, <2>1, <2>2, <2>3, UntouchedNames
<1> QED
  BY <1>1, <1>2, <1>5, <1>7, <1>8, RegistryStep

LEMMA ForgetKeepsMachines ==
  ASSUME MachineInv, NEW c \in Callers, Busy(c), Forget(c), UNCHANGED << machines, created >>
  PROVE  MachineInv'
<1>1. PICK old, name : old = calls[c] /\ name = old.name
  OBVIOUS
<1>2. /\ CallFits(old) /\ old \in CallRecords /\ Head(old.todo) = "forget"
      /\ old.op = "remove" /\ name \in Names /\ ~Exists(old.id)
  BY <1>1, StepAtHand DEF Forget, InOrder, NextStep, CallFits
<1>3. /\ known' = Drop(known, {name}) /\ calls' = [calls EXCEPT ![c] = Advanced(old)]
      /\ overtaken' = IF name \in DOMAIN known /\ IdOf(name) # old.id
                      THEN overtaken \cup {name} ELSE overtaken
  BY <1>1 DEF Forget, Advance, Advanced, Mark
<1>4. /\ DOMAIN known' = DOMAIN known \ {name} /\ \A n \in DOMAIN known' : known'[n] = known[n]
      /\ known' \in [DOMAIN known' -> Statuses]
  BY <1>3 DEF Drop, MachineInv, KnownFit
<1>5. KnownFit'
  BY <1>4 DEF MachineInv, KnownFit, Exists
<1>6. ASSUME NEW n \in Names \ overtaken' PROVE Explained(n)'
  <2>1. Explained(n)
    BY <1>3, <1>6 DEF MachineInv
  <2>2. CASE n = name
    <3>1. ASSUME NEW i \in DOMAIN machines, machines[i].name = n
          PROVE  \E d \in Callers : Enters(calls'[d], n, i)
      <4>1. ~(n \in DOMAIN known /\ IdOf(n) = i)
        BY <1>2, <1>3, <1>6, <2>2, <3>1 DEF Exists
      <4>2. \E d \in Callers : Enters(calls[d], n, i)
        BY <2>1, <3>1, <4>1 DEF Explained
      <4>3. ~Enters(calls[c], n, i)
        BY <1>1, <1>2 DEF Enters
      <4> QED
        BY <1>3, <4>2, <4>3, OthersStillSettle
    <3> QED
      BY <1>4, <2>2, <3>1 DEF Explained
  <2>3. CASE n # name
    <3>1. \A id : ~Enters(calls[c], n, id) /\ ~Forgets(calls[c], n, id)
      BY <1>1, <1>2, <2>3 DEF Enters, Forgets
    <3>2. (n \in DOMAIN known' <=> n \in DOMAIN known) /\ (n \in DOMAIN known => IdOf(n)' = IdOf(n))
      BY <1>4, <2>3 DEF IdOf
    <3> QED
      BY <1>3, <2>1, <3>1, <3>2, UntouchedNames
  <2> QED
    BY <2>2, <2>3
<1> QED
  BY <1>1, <1>2, <1>3, <1>5, <1>6, RegistryStep

\* What a list read is what the registry becomes, but for what has changed since.
LEMMA ReplaceKeepsMachines ==
  ASSUME MachineInv, NEW c \in Callers, Busy(c), Replace(c), UNCHANGED << machines, created >>
  PROVE  MachineInv'
<1>1. PICK old, seen : old = calls[c] /\ seen = old.seen
  OBVIOUS
<1>2. CallFits(old) /\ old \in CallRecords /\ Head(old.todo) = "replace"
  BY <1>1, StepAtHand DEF Replace, NextStep
<1>3. \A s \in seen : /\ s \in Statuses /\ s.id \in 1 .. created
                      /\ Exists(s.id) => machines[s.id].name = s.name
  BY <1>1, <1>2 DEF CallFits, CallKnows, CallRecords
<1>4. /\ known' = [n \in {s.name : s \in seen} |-> CHOOSE s \in seen : s.name = n]
      /\ calls' = [calls EXCEPT ![c] = Advanced(old)]
      /\ overtaken' = {n \in Names : {s.id : s \in {x \in seen : x.name = n}}
                                       # {id \in DOMAIN machines : machines[id].name = n}}
  BY <1>1 DEF Replace, Advance, Advanced
<1>5. \A n \in DOMAIN known' : known'[n] \in seen /\ known'[n].name = n
  BY <1>4
<1>6. \A n : n \in DOMAIN known' <=> \E s \in seen : s.name = n
  BY <1>4
<1>7. KnownFit'
  <2>1. known' \in [DOMAIN known' -> Statuses]
    BY <1>3, <1>4, <1>5
  <2> QED
    BY <1>3, <1>5, <2>1 DEF KnownFit, Exists
<1>8. ASSUME NEW n \in Names \ overtaken' PROVE Explained(n)'
  <2>1. {s.id : s \in {x \in seen : x.name = n}} = {id \in DOMAIN machines : machines[id].name = n}
    BY <1>4, <1>8
  <2>2. ASSUME NEW i \in DOMAIN machines, machines[i].name = n
        PROVE  n \in DOMAIN known' /\ known'[n].id = i
    <3>1. PICK s \in seen : s.name = n /\ s.id = i
      BY <2>1, <2>2
    <3>2. n \in DOMAIN known' /\ known'[n] \in seen /\ known'[n].name = n
      BY <1>5, <1>6, <3>1
    <3>3. known'[n].id \in DOMAIN machines /\ machines[known'[n].id].name = n
      BY <2>1, <3>2
    <3> QED
      BY <2>2, <3>2, <3>3 DEF MachineInv, NamesAreUnique
  <2>3. n \in DOMAIN known' => known'[n].id \in DOMAIN machines
    BY <1>5, <2>1
  <2> QED
    BY <2>2, <2>3 DEF Explained, Exists, IdOf
<1> QED
  BY <1>1, <1>2, <1>4, <1>7, <1>8, RegistryStep

LEMMA MachinesAreKept ==
  ASSUME CallsAreKnown, MachineInv, [MachineNext]_machineVars
  PROVE  MachineInv'
<1>1. CASE UNCHANGED machineVars
  BY <1>1 DEF machineVars, MachineInv, BackendTyped, NamesAreUnique, KnownFit, CallFits, CallKnows,
              Busy, Exists, IdOf, Explained
<1>2. CASE \E c \in Callers : Begin(c)
  BY <1>2, BeginKeepsMachines
<1>3. ASSUME NEW c \in Callers, Busy(c), CallBackend(c) PROVE MachineInv'
  <2>1. UNCHANGED << known, overtaken >>
    BY <1>3 DEF CallBackend
  <2>2. CASE CreateMachine(c)
    BY <1>3, <2>1, <2>2, CreateKeepsMachines
  <2>3. CASE RemoveMachine(c)
    BY <1>3, <2>1, <2>3, RemoveKeepsMachines
  <2>4. CASE ReadStatus(c)
    BY <1>3, <2>1, <2>4, ReadStatusKeepsMachines
  <2>5. CASE ListIds(c)
    BY <1>3, <2>1, <2>5, ListIdsKeepsMachines
  <2>6. CASE Inspect(c)
    BY <1>3, <2>1, <2>6, InspectKeepsMachines
  <2>7. CASE Transition(c, "start", Startable, "running")
    BY <1>3, <2>1, <2>7, TransitionKeepsMachines DEF MachineStates
  <2>8. CASE Transition(c, "stop", {"running"}, "stopped")
    BY <1>3, <2>1, <2>8, TransitionKeepsMachines DEF MachineStates
  <2> QED
    BY <1>3, <2>2, <2>3, <2>4, <2>5, <2>6, <2>7, <2>8 DEF CallBackend
<1>4. ASSUME NEW c \in Callers, Busy(c), UseRegistry(c) PROVE MachineInv'
  BY <1>4, InsertKeepsMachines, UpdateKeepsMachines, ResolveAgainKeepsMachines,
     ForgetKeepsMachines, ReplaceKeepsMachines DEF UseRegistry
<1> QED
  BY <1>1, <1>2, <1>3, <1>4, FailureKeepsMachines DEF MachineNext

(***************************************************************************)
(* Whatever calls raced, and whichever of them failed: when none is in     *)
(* flight the registry of adesk-machine names what the backend has, but for*)
(* the names an overtaken call wrote.  For any number of callers, names and*)
(* machines.                                                               *)
(***************************************************************************)
THEOREM RegistryFollowsTheBackend ==
  ASSUME CallsAreKnown
  PROVE  MachineSpec => []CacheAgreesWhenIdle
<1>1. MachineInit => MachineInv
  BY MachinesStart
<1>2. MachineInv /\ [MachineNext]_machineVars => MachineInv'
  BY MachinesAreKept
<1>3. MachineInv => CacheAgreesWhenIdle
  <2> SUFFICES ASSUME MachineInv, \A c \in Callers : ~Busy(c), NEW n \in Names \ overtaken,
                      NEW id \in 1 .. created
               PROVE  (n \in DOMAIN known /\ IdOf(n) = id) <=> (Exists(id) /\ machines[id].name = n)
    BY DEF CacheAgreesWhenIdle, Idle
  <2>1. Explained(n) /\ \A c \in Callers : \A i : ~Enters(calls[c], n, i) /\ ~Forgets(calls[c], n, i)
    BY DEF MachineInv, Busy, Enters, Forgets
  <2> QED
    BY <2>1 DEF Explained, MachineInv, KnownFit, Exists, IdOf
<1> QED
  BY <1>1, <1>2, <1>3, PTL DEF MachineSpec

-----------------------------------------------------------------------------
(* The input methods: one connection's do not interleave, and a button that*)
(* is down is some method's.                                               *)

MethodNames ==
  {"pointer_move", "click", "mouse_down", "mouse_up", "scroll", "drag", "keypress"}

\* The methods are among those the server has, and their bound is a number.
MethodsAreKnown == MaxInputs \in Nat /\ \A m \in Methods : m.name \in MethodNames

InputTyped ==
  /\ inputs \in [Sessions -> Seq(Methods)]
  /\ gate \in [Sessions -> Seq(1 .. MaxInputs)]
  /\ progress \in [Sessions -> [1 .. MaxInputs -> Nat]]
  /\ served \in Seq(Elems(served))

\* A request takes its place at the gate once: whoever waits there is submitted, has arrived, and
\* has not done all its commands.
GateInOrder(s) ==
  /\ NoDup(gate[s])
  /\ \A i \in 1 .. Len(gate[s]) :
       /\ gate[s][i] <= Len(inputs[s]) /\ << s, gate[s][i] >> \notin arriving
       /\ progress[s][gate[s][i]] < Len(Commands(inputs[s][gate[s][i]].name))
  /\ \A n \in 1 .. MaxInputs :
       << s, n >> \in arriving \/ n > Len(inputs[s]) => progress[s][n] = 0
  /\ \A n : << s, n >> \in arriving => n \in 1 .. Len(inputs[s])

\* What was served of s belongs to requests that left the gate or hold it, the holder's last.
ServedInOrder(s) ==
  /\ \A k \in 1 .. Len(served) : served[k].from = s =>
       /\ served[k].n \in 1 .. Len(inputs[s]) /\ << s, served[k].n >> \notin arriving
       /\ \A i \in 2 .. Len(gate[s]) : gate[s][i] # served[k].n
  /\ gate[s] # << >> =>
       \A i, k \in 1 .. Len(served) :
         i < k /\ served[i].from = s /\ served[i].n = gate[s][1] /\ served[k].from = s =>
           served[k].n = gate[s][1]

\* The method at the gate has pressed the button and not released it yet.
Pressing(s) ==
  /\ gate[s] # << >>
  /\ \/ Current(s).name = "click" /\ Done(s) = 3
     \/ Current(s).name = "drag" /\ Done(s) \in {3, 4}

HeldForAReason ==
  held => \E s \in Sessions :
    \/ Pressing(s)
    \/ \E n \in DOMAIN inputs[s] : inputs[s][n].name = "mouse_down" \/ << s, n >> \in failed

InputInv ==
  /\ InputTyped /\ \A s \in Sessions : GateInOrder(s) /\ ServedInOrder(s)
  /\ MethodsStayTogether /\ HeldForAReason

LEMMA InputsStart == InputInit => InputInv
<1> SUFFICES ASSUME InputInit PROVE InputInv
  OBVIOUS
<1>1. /\ inputs = [s \in Sessions |-> << >>] /\ arriving = {} /\ gate = [s \in Sessions |-> << >>]
      /\ progress = [s \in Sessions |-> [n \in 1 .. MaxInputs |-> 0]] /\ served = << >> /\ ~held
  BY DEF InputInit
<1>2. InputTyped
  BY <1>1 DEF InputTyped
<1>3. \A s \in Sessions : GateInOrder(s) /\ ServedInOrder(s)
  BY <1>1 DEF GateInOrder, ServedInOrder, NoDup
<1> QED
  BY <1>1, <1>2, <1>3 DEF InputInv, MethodsStayTogether, Places, HeldForAReason

\* What is recorded stays, whatever it is.
LEMMA RecordGrows ==
  ASSUME NEW record, record \in Seq(Elems(record)), NEW e
  PROVE  /\ Append(record, e) \in Seq(Elems(Append(record, e)))
         /\ Len(record) \in Nat /\ Len(Append(record, e)) = Len(record) + 1
         /\ \A i \in 1 .. Len(record) : Append(record, e)[i] = record[i]
         /\ Append(record, e)[Len(record) + 1] = e
<1>1. PICK S : S = Elems(record) \cup {e}
  OBVIOUS
<1>2. record \in Seq(S) /\ e \in S
  BY <1>1
<1>3. PICK m \in Nat : m = Len(record)
  BY <1>2
<1>4. PICK new : new = Append(record, e)
  OBVIOUS
<1>5. /\ new \in Seq(S) /\ Len(new) = m + 1 /\ new[m + 1] = e
      /\ \A i \in 1 .. m : new[i] = record[i]
  BY <1>2, <1>3, <1>4
<1>6. new \in [1 .. m + 1 -> Elems(new)]
  BY <1>5 DEF Elems
<1>7. new \in Seq(Elems(new))
  BY <1>6
<1> QED
  BY <1>3, <1>4, <1>5, <1>7

(***************************************************************************)
(* A step at the gate of s, which serves at most one command of s: what    *)
(* was in order for the other sessions still is.                           *)
(***************************************************************************)
LEMMA OneSessionMoves ==
  ASSUME InputInv, NEW s \in Sessions, InputTyped',
         NEW own \in Seq(Methods), inputs' = [inputs EXCEPT ![s] = own],
         NEW line \in Seq(1 .. MaxInputs), gate' = [gate EXCEPT ![s] = line],
         NEW done \in [1 .. MaxInputs -> Nat], progress' = [progress EXCEPT ![s] = done],
         NEW q \in Sessions, q # s, \A n : << q, n >> \in arriving' <=> << q, n >> \in arriving,
         NEW e, e.from = s, served' \in {served, Append(served, e)}
  PROVE  GateInOrder(q)' /\ ServedInOrder(q)'
<1>1. inputs'[q] = inputs[q] /\ gate'[q] = gate[q] /\ progress'[q] = progress[q]
  BY DEF InputInv, InputTyped
<1>2. GateInOrder(q)'
  BY <1>1 DEF GateInOrder, InputInv
<1>3. Len(served) \in Nat /\ served \in Seq(Elems(served))
  BY DEF InputInv, InputTyped
<1>4. ASSUME NEW k \in 1 .. Len(served'), served'[k].from = q
      PROVE  k \in 1 .. Len(served) /\ served'[k] = served[k]
  <2>1. CASE served' = served
    BY <1>4, <2>1
  <2>2. CASE served' = Append(served, e)
    <3>1. /\ Len(served') = Len(served) + 1 /\ served'[Len(served) + 1] = e
          /\ \A i \in 1 .. Len(served) : served'[i] = served[i]
      BY <1>3, <2>2, RecordGrows
    <3>2. k # Len(served) + 1
      BY <1>4, <3>1
    <3> QED
      BY <1>3, <1>4, <3>1, <3>2
  <2> QED
    BY <2>1, <2>2
<1>5. ServedInOrder(q)
  BY DEF InputInv
<1>6. ASSUME NEW k \in 1 .. Len(served'), served'[k].from = q
      PROVE  /\ served'[k].n \in 1 .. Len(inputs'[q]) /\ << q, served'[k].n >> \notin arriving'
             /\ \A i \in 2 .. Len(gate'[q]) : gate'[q][i] # served'[k].n
  BY <1>1, <1>4, <1>5, <1>6 DEF ServedInOrder
<1>7. ASSUME gate'[q] # << >>, NEW i \in 1 .. Len(served'), NEW k \in 1 .. Len(served'), i < k,
             served'[i].from = q, served'[i].n = gate'[q][1], served'[k].from = q
      PROVE  served'[k].n = gate'[q][1]
  <2>1. /\ i \in 1 .. Len(served) /\ served'[i] = served[i]
        /\ k \in 1 .. Len(served) /\ served'[k] = served[k]
    BY <1>4, <1>7
  <2> QED
    BY <1>1, <1>5, <1>7, <2>1 DEF ServedInOrder
<1>8. ServedInOrder(q)'
  BY <1>6, <1>7 DEF ServedInOrder
<1> QED
  BY <1>2, <1>8

LEMMA CommandsInOrder ==
  ASSUME NEW name \in MethodNames
  PROVE  /\ Len(Commands(name)) \in Nat /\ Len(Commands(name)) > 0
         /\ \A k \in Nat : k < Len(Commands(name)) /\ Commands(name)[k + 1] = "press" =>
              name = "mouse_down" \/ (name \in {"click", "drag"} /\ k = 2 /\ k + 1 # Len(Commands(name)))
         /\ name = "click" => Commands(name)[4] = "release" /\ Len(Commands(name)) = 4
         /\ name = "drag" => /\ Commands(name)[4] = "move" /\ Commands(name)[5] = "release"
                             /\ Len(Commands(name)) = 5
<1>1. PICK list : list = Commands(name)
  OBVIOUS
<1>2. ASSUME NEW k \in Nat, k < 5 PROVE k \in {0, 1, 2, 3, 4}
  BY <1>2
<1>3. CASE name = "click"
  <2>1. list = << "rect", "move", "press", "release" >>
    BY <1>1, <1>3 DEF Commands
  <2> QED
    BY <1>1, <1>2, <1>3, <2>1
<1>4. CASE name = "drag"
  <2>1. list = << "rect", "move", "press", "move", "release" >>
    BY <1>1, <1>4 DEF Commands
  <2> QED
    BY <1>1, <1>2, <1>4, <2>1
<1>5. CASE name = "mouse_down"
  <2>1. list = << "rect", "move", "press" >>
    BY <1>1, <1>5 DEF Commands
  <2> QED
    BY <1>1, <1>5, <2>1
<1>6. CASE name \in {"pointer_move", "mouse_up", "scroll", "keypress"}
  <2>1. \/ list = << "rect", "move" >>
        \/ list = << "rect", "move", "release" >>
        \/ list = << "rect", "move", "axis" >>
        \/ list = << "focus", "activate", "tap" >>
    BY <1>1, <1>6 DEF Commands
  <2>2. /\ Len(list) \in {2, 3} /\ list[1] # "press" /\ list[2] # "press"
        /\ Len(list) = 3 => list[3] # "press"
    <3>1. CASE list = << "rect", "move" >>
      BY <3>1
    <3>2. CASE list = << "rect", "move", "release" >>
      BY <3>2
    <3>3. CASE list = << "rect", "move", "axis" >>
      BY <3>3
    <3>4. CASE list = << "focus", "activate", "tap" >>
      BY <3>4
    <3> QED
      BY <2>1, <3>1, <3>2, <3>3, <3>4
  <2>3. ASSUME NEW k \in Nat, k < Len(list) PROVE list[k + 1] # "press"
    <3>1. PICK len \in {2, 3} : len = Len(list)
      BY <2>2
    <3>2. k < len
      BY <2>3, <3>1
    <3>3. k + 1 = 1 \/ k + 1 = 2 \/ (k + 1 = 3 /\ len = 3)
      BY <3>2
    <3> QED
      BY <2>2, <3>1, <3>3
  <2> QED
    BY <1>1, <1>6, <2>2, <2>3
<1> QED
  BY <1>3, <1>4, <1>5, <1>6 DEF MethodNames

\* Whoever is at the gate is a submitted request.
LEMMA AtTheGate ==
  ASSUME MethodsAreKnown, InputInv, NEW s \in Sessions
  PROVE  /\ gate[s] \in Seq(1 .. MaxInputs) /\ Len(gate[s]) \in Nat /\ inputs[s] \in Seq(Methods)
         /\ \A i \in 1 .. Len(gate[s]) :
              /\ gate[s][i] \in 1 .. MaxInputs /\ gate[s][i] \in 1 .. Len(inputs[s])
              /\ gate[s][i] \in DOMAIN inputs[s]
         /\ gate[s] # << >> =>
              /\ 1 \in 1 .. Len(gate[s]) /\ Head(gate[s]) = gate[s][1]
              /\ Head(gate[s]) \in 1 .. MaxInputs /\ Head(gate[s]) \in DOMAIN inputs[s]
<1>1. PICK line, own : line = gate[s] /\ own = inputs[s]
  OBVIOUS
<1>2. line \in Seq(1 .. MaxInputs) /\ own \in Seq(Methods) /\ MaxInputs \in Nat
  BY <1>1 DEF InputInv, InputTyped, MethodsAreKnown
<1>3. \A i \in 1 .. Len(line) : line[i] <= Len(own)
  BY <1>1 DEF InputInv, GateInOrder
<1>4. Len(line) \in Nat /\ Len(own) \in Nat /\ DOMAIN own = 1 .. Len(own)
  BY <1>2
<1>5. ASSUME NEW i \in 1 .. Len(line)
      PROVE  line[i] \in 1 .. MaxInputs /\ line[i] \in 1 .. Len(own)
  <2>1. line[i] \in 1 .. MaxInputs
    BY <1>2, <1>5
  <2>2. line[i] \in Nat /\ line[i] >= 1
    BY <1>2, <2>1
  <2> QED
    BY <1>3, <1>4, <2>1, <2>2
<1>6. line # << >> => 1 \in 1 .. Len(line) /\ Head(line) = line[1]
  BY <1>2, <1>4
<1> QED
  BY <1>1, <1>2, <1>4, <1>5, <1>6

LEMMA SubmitKeepsOrder ==
  ASSUME MethodsAreKnown, InputInv, NEW s \in Sessions, Submit(s)
  PROVE  InputInv'
<1>1. PICK m \in Methods : inputs' = [inputs EXCEPT ![s] = Append(@, m)]
  BY DEF Submit
<1>2. PICK own, old, len : old = inputs[s] /\ len = Len(old) /\ own = Append(old, m)
  OBVIOUS
<1>3. /\ old \in Seq(Methods) /\ len \in Nat /\ own \in Seq(Methods) /\ Len(own) = len + 1
      /\ \A i \in 1 .. len : own[i] = old[i]
  BY <1>2 DEF InputInv, InputTyped
<1>4. /\ inputs' = [inputs EXCEPT ![s] = own] /\ inputs'[s] = own
      /\ arriving' = arriving \cup {<< s, len + 1 >>}
      /\ UNCHANGED << gate, progress, served, held, failed >>
  BY <1>1, <1>2 DEF Submit, InputInv, InputTyped
<1>5. InputTyped'
  BY <1>3, <1>4 DEF InputInv, InputTyped
<1>6. GateInOrder(s)'
  <2>1. NoDup(gate[s])'
    BY <1>4 DEF InputInv, GateInOrder, NoDup
  <2>2. ASSUME NEW i \in 1 .. Len(gate[s])
        PROVE  /\ gate[s][i] \in 1 .. len /\ << s, gate[s][i] >> \notin arriving'
               /\ progress[s][gate[s][i]] < Len(Commands(own[gate[s][i]].name))
    <3>1. gate[s][i] \in 1 .. len
      BY <1>2, AtTheGate
    <3>2. /\ gate[s][i] <= len /\ << s, gate[s][i] >> \notin arriving
          /\ progress[s][gate[s][i]] < Len(Commands(old[gate[s][i]].name))
      BY <1>2 DEF InputInv, GateInOrder
    <3>3. gate[s][i] \in 1 .. len /\ gate[s][i] # len + 1
      BY <1>3, <3>1, <3>2
    <3> QED
      BY <1>3, <1>4, <3>2, <3>3
  <2>3. ASSUME NEW n \in 1 .. MaxInputs, << s, n >> \in arriving' \/ n > len + 1
        PROVE  progress[s][n] = 0
    <3>1. << s, n >> \in arriving \/ n > len
      BY <1>3, <1>4, <2>3
    <3> QED
      BY <1>2, <3>1 DEF InputInv, GateInOrder
  <2>4. ASSUME NEW n, << s, n >> \in arriving' PROVE n \in 1 .. len + 1
    <3>1. << s, n >> \in arriving \/ n = len + 1
      BY <1>4, <2>4
    <3>2. << s, n >> \in arriving => n \in 1 .. len
      BY <1>2 DEF InputInv, GateInOrder
    <3> QED
      BY <1>3, <3>1, <3>2
  <2> QED
    BY <1>3, <1>4, <2>1, <2>2, <2>3, <2>4 DEF GateInOrder
<1>7. ServedInOrder(s)'
  <2>1. ServedInOrder(s)
    BY DEF InputInv
  <2>2. ASSUME NEW k \in 1 .. Len(served), served[k].from = s
        PROVE  served[k].n \in 1 .. len + 1 /\ << s, served[k].n >> \notin arriving'
    <3>1. served[k].n \in 1 .. len /\ << s, served[k].n >> \notin arriving
      BY <1>2, <2>1, <2>2 DEF ServedInOrder
    <3> QED
      BY <1>3, <1>4, <3>1
  <2> QED
    BY <1>3, <1>4, <2>1, <2>2 DEF ServedInOrder
<1>8. ASSUME NEW q \in Sessions, q # s PROVE GateInOrder(q)' /\ ServedInOrder(q)'
  <2>1. \A n : << q, n >> \in arriving' <=> << q, n >> \in arriving
    BY <1>4, <1>8
  <2>2. gate' = [gate EXCEPT ![s] = gate[s]] /\ progress' = [progress EXCEPT ![s] = progress[s]]
        /\ gate[s] \in Seq(1 .. MaxInputs) /\ progress[s] \in [1 .. MaxInputs -> Nat]
    BY <1>4 DEF InputInv, InputTyped
  <2>3. PICK e : e.from = s
    BY [from |-> s].from = s
  <2>4. served' \in {served, Append(served, e)} /\ inputs' = [inputs EXCEPT ![s] = own]
    BY <1>4
  <2> QED
    BY <1>3, <1>5, <1>8, <2>1, <2>2, <2>3, <2>4, OneSessionMoves
<1>9. MethodsStayTogether'
  BY <1>4 DEF InputInv, MethodsStayTogether, Places
<1>10. HeldForAReason'
  <2> SUFFICES ASSUME held PROVE HeldForAReason'
    BY <1>4 DEF HeldForAReason
  <2>1. PICK q \in Sessions :
          Pressing(q) \/ \E n \in DOMAIN inputs[q] : inputs[q][n].name = "mouse_down" \/ << q, n >> \in failed
    BY DEF InputInv, HeldForAReason
  <2>2. \A n \in DOMAIN inputs[q] : n \in DOMAIN inputs'[q] /\ inputs'[q][n] = inputs[q][n]
    <3>1. CASE q = s
      BY <1>2, <1>3, <1>4, <3>1
    <3>2. CASE q # s
      BY <1>4, <3>2 DEF InputInv, InputTyped
    <3> QED
      BY <3>1, <3>2
  <2>3. CASE Pressing(q)
    <3>1. gate[q] # << >> /\ Head(gate[q]) \in DOMAIN inputs[q]
      BY <2>3, AtTheGate DEF Pressing
    <3>2. Pressing(q)'
      BY <1>4, <2>2, <2>3, <3>1 DEF Pressing, Current, Done, Holder
    <3> QED
      BY <3>2 DEF HeldForAReason
  <2>4. CASE \E n \in DOMAIN inputs[q] : inputs[q][n].name = "mouse_down" \/ << q, n >> \in failed
    BY <1>4, <2>2, <2>4 DEF HeldForAReason
  <2> QED
    BY <2>1, <2>3, <2>4
<1> QED
  BY <1>5, <1>6, <1>7, <1>8, <1>9, <1>10 DEF InputInv

LEMMA LockKeepsOrder ==
  ASSUME MethodsAreKnown, InputInv, NEW s \in Sessions, NEW n \in 1 .. MaxInputs, Lock(s, n)
  PROVE  InputInv'
<1>1. PICK old, line, len : old = gate[s] /\ len = Len(old) /\ line = Append(old, n)
  OBVIOUS
<1>2. /\ << s, n >> \in arriving /\ arriving' = arriving \ {<< s, n >>}
      /\ gate' = [gate EXCEPT ![s] = line] /\ gate'[s] = line
      /\ UNCHANGED << inputs, progress, served, held, failed >>
  BY <1>1 DEF Lock, InputInv, InputTyped
<1>3. /\ old \in Seq(1 .. MaxInputs) /\ len \in Nat
      /\ \A i \in 1 .. len : old[i] \in 1 .. MaxInputs /\ old[i] \in 1 .. Len(inputs[s])
  BY <1>1, AtTheGate
<1>4. /\ line \in Seq(1 .. MaxInputs) /\ Len(line) = len + 1 /\ line[len + 1] = n
      /\ \A i \in 1 .. len : line[i] = old[i]
  BY <1>1, <1>3
<1>5. InputTyped'
  BY <1>2, <1>4 DEF InputInv, InputTyped
<1>6. GateInOrder(s) /\ ServedInOrder(s)
  BY DEF InputInv
<1>7. n \in 1 .. Len(inputs[s]) /\ progress[s][n] = 0 /\ \A i \in 1 .. len : old[i] # n
  BY <1>1, <1>2, <1>6 DEF GateInOrder
<1>8. Len(Commands(inputs[s][n].name)) > 0
  <2>1. inputs[s][n] \in Methods
    BY <1>7 DEF InputInv, InputTyped
  <2> QED
    BY <2>1, CommandsInOrder DEF MethodsAreKnown
<1>9. GateInOrder(s)'
  <2>1. ASSUME NEW i \in 1 .. len + 1, NEW j \in 1 .. len + 1, line[i] = line[j] PROVE i = j
    <3>1. \A k \in 1 .. len, l \in 1 .. len : old[k] = old[l] => k = l
      BY <1>1, <1>6 DEF GateInOrder, NoDup
    <3>2. \A k \in 1 .. len : line[k] = old[k] /\ old[k] # n
      BY <1>4, <1>7
    <3>3. /\ i = len + 1 \/ i \in 1 .. len
          /\ j = len + 1 \/ j \in 1 .. len
      BY <1>3
    <3>4. CASE i \in 1 .. len /\ j \in 1 .. len
      BY <2>1, <3>1, <3>2, <3>4
    <3>5. CASE i = len + 1 \/ j = len + 1
      BY <1>4, <2>1, <3>2, <3>3, <3>5
    <3> QED
      BY <3>3, <3>4, <3>5
  <2>2. ASSUME NEW i \in 1 .. len + 1
        PROVE  /\ line[i] <= Len(inputs[s]) /\ << s, line[i] >> \notin arriving'
               /\ progress[s][line[i]] < Len(Commands(inputs[s][line[i]].name))
    <3>1. CASE i = len + 1
      BY <1>2, <1>4, <1>7, <1>8, <3>1 DEF InputInv, InputTyped
    <3>2. CASE i # len + 1
      <4>1. i \in 1 .. len /\ line[i] = old[i]
        BY <1>3, <1>4, <3>2
      <4> QED
        BY <1>1, <1>2, <1>6, <4>1 DEF GateInOrder
    <3> QED
      BY <3>1, <3>2
  <2>3. NoDup(line)
    BY <1>4, <2>1 DEF NoDup
  <2>4. /\ \A m \in 1 .. MaxInputs :
             << s, m >> \in arriving' \/ m > Len(inputs[s]) => progress[s][m] = 0
        /\ \A m : << s, m >> \in arriving' => m \in 1 .. Len(inputs[s])
    BY <1>2, <1>6 DEF GateInOrder
  <2> QED
    BY <1>2, <1>4, <2>2, <2>3, <2>4 DEF GateInOrder
<1>10. ServedInOrder(s)'
  <2>1. ASSUME NEW k \in 1 .. Len(served), served[k].from = s
        PROVE  /\ served[k].n \in 1 .. Len(inputs[s]) /\ << s, served[k].n >> \notin arriving
               /\ served[k].n # n /\ \A i \in 2 .. len : old[i] # served[k].n
    BY <1>1, <1>2, <1>6, <2>1 DEF ServedInOrder
  <2>2. ASSUME NEW k \in 1 .. Len(served), served[k].from = s, NEW i \in 2 .. len + 1
        PROVE  line[i] # served[k].n
    <3>1. i = len + 1 \/ (i \in 2 .. len /\ i \in 1 .. len)
      BY <1>3, <2>2
    <3> QED
      BY <1>4, <2>1, <2>2, <3>1
  <2>3. ASSUME NEW i \in 1 .. Len(served), NEW k \in 1 .. Len(served), i < k,
               served[i].from = s, served[i].n = line[1], served[k].from = s
        PROVE  served[k].n = line[1]
    <3>1. CASE len = 0
      <4>1. line[1] = n
        BY <1>4, <3>1
      <4> QED
        BY <2>1, <2>3, <4>1
    <3>2. CASE len # 0
      <4>1. old # << >> /\ line[1] = old[1]
        BY <1>1, <1>3, <1>4, <3>2
      <4> QED
        BY <1>1, <1>6, <2>3, <4>1 DEF ServedInOrder
    <3> QED
      BY <3>1, <3>2
  <2> QED
    BY <1>2, <1>4, <2>1, <2>2, <2>3 DEF ServedInOrder
<1>11. ASSUME NEW q \in Sessions, q # s PROVE GateInOrder(q)' /\ ServedInOrder(q)'
  <2>1. \A m : << q, m >> \in arriving' <=> << q, m >> \in arriving
    BY <1>2, <1>11
  <2>2. inputs' = [inputs EXCEPT ![s] = inputs[s]] /\ progress' = [progress EXCEPT ![s] = progress[s]]
        /\ inputs[s] \in Seq(Methods) /\ progress[s] \in [1 .. MaxInputs -> Nat]
    BY <1>2 DEF InputInv, InputTyped
  <2>3. PICK e : e.from = s
    BY [from |-> s].from = s
  <2>4. served' \in {served, Append(served, e)} /\ gate' = [gate EXCEPT ![s] = line]
    BY <1>2
  <2> QED
    BY <1>4, <1>5, <1>11, <2>1, <2>2, <2>3, <2>4, OneSessionMoves
<1>12. MethodsStayTogether'
  BY <1>2 DEF InputInv, MethodsStayTogether, Places
<1>13. HeldForAReason'
  <2>1. ASSUME NEW q \in Sessions, Pressing(q) PROVE Pressing(q)'
    <3>1. gate[q] # << >> /\ gate'[q] # << >> /\ Head(gate'[q]) = Head(gate[q])
      <4>1. CASE q = s
        <5>1. len # 0
          BY <1>1, <1>3, <2>1, <4>1 DEF Pressing
        <5>2. Head(line) = line[1] /\ Head(old) = old[1] /\ line[1] = old[1] /\ line # << >>
          BY <1>3, <1>4, <5>1
        <5> QED
          BY <1>1, <1>2, <2>1, <4>1, <5>2 DEF Pressing
      <4>2. CASE q # s
        BY <1>2, <2>1, <4>2 DEF InputInv, InputTyped, Pressing
      <4> QED
        BY <4>1, <4>2
    <3> QED
      BY <1>2, <2>1, <3>1 DEF Pressing, Current, Done, Holder
  <2> QED
    BY <1>2, <2>1 DEF InputInv, HeldForAReason
<1> QED
  BY <1>5, <1>9, <1>10, <1>11, <1>12, <1>13 DEF InputInv

(***************************************************************************)
(* A step of the method that holds the gate of s: it serves a command or   *)
(* not, and keeps the gate if it has commands left.                        *)
(***************************************************************************)
HolderStep(s, n, e, done, line) ==
  /\ gate[s] # << >> /\ n = Head(gate[s]) /\ e.from = s /\ e.n = n
  /\ UNCHANGED << inputs, arriving >> /\ served' \in {served, Append(served, e)}
  /\ done \in [1 .. MaxInputs -> Nat] /\ progress' = [progress EXCEPT ![s] = done]
  /\ \A m \in 1 .. MaxInputs : m # n => done[m] = progress[s][m]
  /\ gate' = [gate EXCEPT ![s] = line]
  /\ (line = gate[s] /\ done[n] < Len(Commands(inputs[s][n].name))) \/ line = Tail(gate[s])

LEMMA HolderMoves ==
  ASSUME MethodsAreKnown, InputInv, NEW s \in Sessions, NEW n, NEW e, NEW done, NEW line,
         HolderStep(s, n, e, done, line)
  PROVE  /\ InputTyped' /\ \A q \in Sessions : GateInOrder(q)' /\ ServedInOrder(q)'
         /\ MethodsStayTogether'
<1>0. /\ gate[s] # << >> /\ n = Head(gate[s]) /\ e.from = s /\ e.n = n
      /\ UNCHANGED << inputs, arriving >> /\ served' \in {served, Append(served, e)}
      /\ done \in [1 .. MaxInputs -> Nat] /\ progress' = [progress EXCEPT ![s] = done]
      /\ \A m \in 1 .. MaxInputs : m # n => done[m] = progress[s][m]
      /\ gate' = [gate EXCEPT ![s] = line]
      /\ (line = gate[s] /\ done[n] < Len(Commands(inputs[s][n].name))) \/ line = Tail(gate[s])
  BY DEF HolderStep
<1> USE <1>0
<1>1. PICK old, len, total : old = gate[s] /\ len = Len(old) /\ total = Len(served)
  OBVIOUS
<1>2. /\ old \in Seq(1 .. MaxInputs) /\ len \in Nat /\ len > 0 /\ old[1] = n /\ n \in 1 .. MaxInputs
      /\ n \in 1 .. Len(inputs[s]) /\ \A i \in 1 .. len : old[i] \in 1 .. Len(inputs[s])
  BY <1>1, AtTheGate
<1>3. GateInOrder(s) /\ ServedInOrder(s)
  BY DEF InputInv
<1>4. /\ \A i \in 1 .. len, j \in 1 .. len : old[i] = old[j] => i = j
      /\ \A i \in 2 .. len : old[i] # n
  <2>1. \A i \in 1 .. len, j \in 1 .. len : old[i] = old[j] => i = j
    BY <1>1, <1>3 DEF GateInOrder, NoDup
  <2> QED
    BY <1>2, <2>1
<1>5. /\ gate' = [gate EXCEPT ![s] = line] /\ gate'[s] = line
      /\ \/ line = old /\ done[n] < Len(Commands(inputs[s][n].name))
         \/ line = Tail(old)
  BY <1>1 DEF InputInv, InputTyped
<1>6. /\ line \in Seq(1 .. MaxInputs)
      /\ line = Tail(old) => Len(line) = len - 1 /\ \A i \in 1 .. len - 1 : line[i] = old[i + 1]
  <2>1. PICK rest : rest = Tail(old)
    OBVIOUS
  <2>2. /\ rest \in Seq(1 .. MaxInputs) /\ Len(rest) = len - 1
        /\ \A i \in 1 .. len - 1 : rest[i] = old[i + 1]
    <3>1. old # << >>
      BY <1>1, Zenon
    <3>2. old \in Seq(1 .. MaxInputs) /\ len = Len(old)
      BY <1>1, <1>2
    <3>3. rest \in Seq(1 .. MaxInputs)
      BY <2>1, <3>1, <3>2
    <3>4. Len(rest) = len - 1
      BY <2>1, <3>1, <3>2
    <3>5. \A i \in 1 .. len - 1 : rest[i] = old[i + 1]
      BY <2>1, <3>1, <3>2
    <3> QED
      BY <3>3, <3>4, <3>5
  <2> QED
    BY <1>2, <1>5, <2>1, <2>2
<1>7. total \in Nat /\ served \in Seq(Elems(served))
  BY <1>1 DEF InputInv, InputTyped
<1>8. InputTyped'
  <2>1. served' \in Seq(Elems(served'))
    <3>1. CASE served' = served
      BY <1>7, <3>1
    <3>2. CASE served' = Append(served, e)
      BY <1>7, <3>2, RecordGrows
    <3> QED
      BY <3>1, <3>2
  <2>2. gate' \in [Sessions -> Seq(1 .. MaxInputs)] /\ inputs' \in [Sessions -> Seq(Methods)]
        /\ progress' \in [Sessions -> [1 .. MaxInputs -> Nat]]
    BY <1>5, <1>6 DEF InputInv, InputTyped
  <2> QED
    BY <2>1, <2>2 DEF InputTyped
<1>9. ASSUME NEW k \in 1 .. Len(served')
      PROVE  \/ k \in 1 .. total /\ served'[k] = served[k]
             \/ k = total + 1 /\ served'[k] = e
  <2>1. CASE served' = served
    BY <1>1, <1>9, <2>1
  <2>2. CASE served' = Append(served, e)
    <3>1. /\ Len(served') = total + 1 /\ served'[total + 1] = e
          /\ \A i \in 1 .. total : served'[i] = served[i]
      BY <1>1, <1>7, <2>2, RecordGrows
    <3> QED
      BY <1>7, <1>9, <3>1
  <2> QED
    BY <2>1, <2>2
<1>10. progress'[s] = done
  BY DEF InputInv, InputTyped
<1>11. GateInOrder(s)'
  <2>1. /\ NoDup(line)
        /\ \A i \in 1 .. Len(line) :
             /\ line[i] <= Len(inputs[s]) /\ << s, line[i] >> \notin arriving
             /\ done[line[i]] < Len(Commands(inputs[s][line[i]].name))
    <3>1. \A i \in 1 .. len :
             /\ old[i] \in 1 .. MaxInputs
             /\ old[i] <= Len(inputs[s]) /\ << s, old[i] >> \notin arriving
             /\ progress[s][old[i]] < Len(Commands(inputs[s][old[i]].name))
      BY <1>1, <1>3, AtTheGate DEF GateInOrder
    <3>2. CASE line = old
      <4>1. done[n] < Len(Commands(inputs[s][n].name))
        <5>1. line # Tail(old)
          <6>1. Len(line) = len /\ len # len - 1
            BY <1>1, <1>2, <3>2
          <6> QED
            BY <1>6, <6>1
        <5> QED
          BY <1>5, <5>1
      <4>2. ASSUME NEW i \in 1 .. len PROVE done[old[i]] < Len(Commands(inputs[s][old[i]].name))
        BY <3>1, <4>1
      <4>3. NoDup(old)
        BY <1>1, <1>4 DEF NoDup
      <4> QED
        BY <1>1, <3>1, <3>2, <4>2, <4>3
    <3>3. CASE line = Tail(old)
      <4>1. ASSUME NEW i \in 1 .. len - 1
            PROVE  i + 1 \in 1 .. len /\ i + 1 \in 2 .. len /\ line[i] = old[i + 1]
        BY <1>2, <1>6, <3>3
      <4>2. NoDup(line)
        <5> SUFFICES ASSUME NEW i \in 1 .. len - 1, NEW j \in 1 .. len - 1, line[i] = line[j]
                     PROVE  i = j
          BY <1>6, <3>3 DEF NoDup
        <5>1. i + 1 = j + 1
          BY <1>4, <4>1
        <5> QED
          BY <5>1
      <4>3. ASSUME NEW i \in 1 .. len - 1
            PROVE  /\ line[i] <= Len(inputs[s]) /\ << s, line[i] >> \notin arriving
                   /\ done[line[i]] < Len(Commands(inputs[s][line[i]].name))
        <5>1. PICK m : m = old[i + 1]
          OBVIOUS
        <5>2. /\ m # n /\ m \in 1 .. MaxInputs /\ m <= Len(inputs[s]) /\ << s, m >> \notin arriving
              /\ progress[s][m] < Len(Commands(inputs[s][m].name))
          BY <1>4, <3>1, <4>1, <5>1
        <5>3. done[m] = progress[s][m]
          BY <5>2
        <5> QED
          BY <4>1, <5>1, <5>2, <5>3
      <4> QED
        BY <1>6, <3>3, <4>2, <4>3
    <3> QED
      BY <1>5, <3>2, <3>3
  <2>2. ASSUME NEW m \in 1 .. MaxInputs, << s, m >> \in arriving \/ m > Len(inputs[s])
        PROVE  done[m] = 0
    <3>1. progress[s][m] = 0
      BY <1>3, <2>2 DEF GateInOrder
    <3>2. m # n
      <4>1. << s, n >> \notin arriving
        BY <1>1, <1>2, <1>3 DEF GateInOrder
      <4>2. ~(n > Len(inputs[s]))
        <5>1. Len(inputs[s]) \in Nat
          BY DEF InputInv, InputTyped
        <5> QED
          BY <1>2, <5>1
      <4> QED
        BY <2>2, <4>1, <4>2
    <3> QED
      BY <3>1, <3>2
  <2>3. \A m : << s, m >> \in arriving => m \in 1 .. Len(inputs[s])
    BY <1>3 DEF GateInOrder
  <2>4. gate'[s] = line /\ progress'[s] = done /\ inputs' = inputs /\ arriving' = arriving
    BY <1>5, <1>10
  <2> HIDE DEF Commands
  <2> QED
    BY <2>1, <2>2, <2>3, <2>4 DEF GateInOrder
<1>12. ASSUME NEW k \in 1 .. total, served[k].from = s
       PROVE  /\ served[k].n \in 1 .. Len(inputs[s]) /\ << s, served[k].n >> \notin arriving
              /\ \A i \in 2 .. len : old[i] # served[k].n
  BY <1>1, <1>3, <1>12 DEF ServedInOrder
<1>13. ASSUME NEW i \in 1 .. total, NEW k \in 1 .. total, i < k, served[i].from = s,
              served[i].n = n, served[k].from = s
       PROVE  served[k].n = n
  BY <1>1, <1>2, <1>3, <1>13 DEF ServedInOrder
<1>14. ServedInOrder(s)'
  <2>1. ASSUME NEW k \in 1 .. Len(served'), served'[k].from = s
        PROVE  /\ served'[k].n \in 1 .. Len(inputs[s]) /\ << s, served'[k].n >> \notin arriving
               /\ \A i \in 2 .. len : old[i] # served'[k].n
    <3>1. CASE k \in 1 .. total /\ served'[k] = served[k]
      BY <1>12, <2>1, <3>1
    <3>2. CASE served'[k] = e
      <4>1. << s, n >> \notin arriving
        BY <1>1, <1>2, <1>3 DEF GateInOrder
      <4> QED
        BY <1>2, <1>4, <3>2, <4>1
    <3> QED
      BY <1>9, <3>1, <3>2
  <2>2. ASSUME NEW k \in 1 .. Len(served'), served'[k].from = s, NEW i \in 2 .. Len(line)
        PROVE  line[i] # served'[k].n
    <3>1. CASE line = old
      BY <1>1, <2>1, <2>2, <3>1
    <3>2. CASE line = Tail(old)
      <4>1. i + 1 \in 2 .. len /\ line[i] = old[i + 1]
        BY <1>2, <1>6, <2>2, <3>2
      <4> QED
        BY <2>1, <2>2, <4>1
    <3> QED
      BY <1>5, <3>1, <3>2
  <2>3. ASSUME line # << >>, NEW i \in 1 .. Len(served'), NEW k \in 1 .. Len(served'), i < k,
               served'[i].from = s, served'[i].n = line[1], served'[k].from = s
        PROVE  served'[k].n = line[1]
    <3>1. CASE line = old
      <4>1. line[1] = n
        BY <1>2, <3>1
      <4>2. i \in 1 .. total /\ served'[i] = served[i]
        BY <1>7, <1>9, <2>3
      <4> QED
        BY <1>9, <1>13, <2>3, <4>1, <4>2
    <3>2. CASE line = Tail(old)
      <4>1. 2 \in 2 .. len /\ line[1] = old[2]
        BY <1>2, <1>6, <2>3, <3>2
      <4>2. old[2] # served'[i].n
        BY <2>1, <2>3, <4>1
      <4> QED
        BY <2>3, <4>1, <4>2
    <3> QED
      BY <1>5, <3>1, <3>2
  <2> QED
    BY <1>5, <2>1, <2>2, <2>3 DEF ServedInOrder
<1>15. ASSUME NEW q \in Sessions, q # s PROVE GateInOrder(q)' /\ ServedInOrder(q)'
  <2>1. inputs' = [inputs EXCEPT ![s] = inputs[s]] /\ inputs[s] \in Seq(Methods)
        /\ \A m : << q, m >> \in arriving' <=> << q, m >> \in arriving
    BY DEF InputInv, InputTyped
  <2> QED
    BY <1>5, <1>6, <1>8, <1>15, <2>1, OneSessionMoves
<1>16. MethodsStayTogether'
  <2>0. DOMAIN served' = 1 .. Len(served')
    BY <1>8 DEF InputTyped
  <2>9. ASSUME NEW r \in Requests, NEW i \in Places(r)', NEW j \in Places(r)', NEW k \in i .. j,
               served'[k].from = r[1]
        PROVE  served'[k].n = r[2]
    <3>1. /\ i \in 1 .. Len(served') /\ j \in 1 .. Len(served')
          /\ served'[i].from = r[1] /\ served'[i].n = r[2]
          /\ served'[j].from = r[1] /\ served'[j].n = r[2]
      <4>1. \A l \in Places(r)' : l \in 1 .. Len(served') /\ << served'[l].from, served'[l].n >> = r
        BY <2>0, Zenon DEF Places
      <4>2. \A a, b : << a, b >> = r => a = r[1] /\ b = r[2]
        OBVIOUS
      <4>3. i \in Places(r)' /\ j \in Places(r)'
        BY <2>9
      <4>4. /\ i \in 1 .. Len(served') /\ << served'[i].from, served'[i].n >> = r
            /\ j \in 1 .. Len(served') /\ << served'[j].from, served'[j].n >> = r
        BY <4>1, <4>3, Zenon
      <4> QED
        BY <4>2, <4>4
    <3>2. k \in 1 .. Len(served') /\ i <= k /\ k <= j
      <4>1. Len(served') \in Nat
        BY <1>8 DEF InputTyped
      <4> QED
        BY <3>1, <4>1
    <3>3. CASE j \in 1 .. total /\ served'[j] = served[j]
      <4>0. k <= total /\ i <= total /\ total + 1 > total
        BY <1>7, <3>1, <3>2, <3>3
      <4>4. i # total + 1 /\ k # total + 1
        BY <1>7, <4>0
      <4>1. /\ i \in 1 .. total /\ served'[i] = served[i] /\ k \in 1 .. total /\ served'[k] = served[k]
        BY <1>9, <3>1, <3>2, <4>4, Zenon
      <4>2. DOMAIN served = 1 .. total
        BY <1>1, <1>7
      <4>3. i \in Places(r) /\ j \in Places(r)
        BY <3>3, <4>1, <4>2 DEF Places
      <4> QED
        BY <2>9, <4>1, <4>3 DEF InputInv, MethodsStayTogether
    <3>4. CASE j = total + 1 /\ served'[j] = e
      <4>1. r[1] = s /\ r[2] = n
        BY <3>1, <3>4, Zenon
      <4>2. CASE k = i \/ k = j
        BY <3>1, <4>2
      <4>3. CASE k # i /\ k # j
        <5>0. i < k /\ k < total + 1 /\ i < total + 1
          BY <1>7, <3>1, <3>2, <3>4, <4>3
        <5>2. i # total + 1 /\ k # total + 1
          BY <1>7, <5>0
        <5>1. /\ i \in 1 .. total /\ served'[i] = served[i] /\ k \in 1 .. total /\ served'[k] = served[k]
              /\ i < k
          BY <1>9, <3>1, <3>2, <5>0, <5>2, Zenon
        <5> QED
          BY <1>13, <2>9, <3>1, <4>1, <5>1
      <4> QED
        BY <4>2, <4>3
    <3> QED
      BY <1>9, <3>1, <3>3, <3>4
  <2> QED
    <3>1. \A r \in Requests : \A i, j \in Places(r)' : \A k \in i .. j :
            served'[k].from = r[1] => served'[k].n = r[2]
      BY <2>9, Zenon
    <3> QED
      BY <3>1 DEF MethodsStayTogether, Requests
<1> QED
  BY <1>8, <1>11, <1>14, <1>15, <1>16

\* What the method at the gate is about to do.
LEMMA HolderAtWork ==
  ASSUME MethodsAreKnown, InputInv, NEW s \in Sessions, gate[s] # << >>
  PROVE  /\ Current(s).name \in MethodNames /\ Done(s) \in Nat
         /\ Done(s) < Len(Commands(Current(s).name))
         /\ Holder(s) \in 1 .. MaxInputs /\ Holder(s) \in DOMAIN inputs[s]
<1>1. PICK n : n = Head(gate[s])
  OBVIOUS
<1>2. /\ 1 \in 1 .. Len(gate[s]) /\ n = gate[s][1] /\ n \in 1 .. MaxInputs
      /\ n \in DOMAIN inputs[s] /\ inputs[s] \in Seq(Methods)
  BY <1>1, AtTheGate
<1>3. inputs[s][n] \in Methods
  BY <1>2
<1>4. progress[s][n] \in Nat
  BY <1>2 DEF InputInv, InputTyped
<1>5. progress[s][n] < Len(Commands(inputs[s][n].name))
  BY <1>2, Zenon DEF InputInv, GateInOrder
<1> QED
  BY <1>1, <1>2, <1>3, <1>4, <1>5 DEF MethodsAreKnown, Current, Done, Holder

LEMMA ServeKeepsOrder ==
  ASSUME MethodsAreKnown, InputInv, NEW s \in Sessions, Serve(s)
  PROVE  InputInv'
<1>1. PICK n, e, done, total : /\ n = Head(gate[s]) /\ e = [from |-> s, n |-> n, cmd |-> Command(s)]
                               /\ done = [progress[s] EXCEPT ![n] = @ + 1]
                               /\ total = Len(Commands(Current(s).name))
  OBVIOUS
<1>2. /\ gate[s] # << >> /\ served' \in {served, Append(served, e)} /\ e.from = s /\ e.n = n
      /\ UNCHANGED << inputs, arriving, failed >>
  BY <1>1 DEF Serve, Holder
<1>3. /\ n \in 1 .. MaxInputs /\ n \in DOMAIN inputs[s] /\ Done(s) \in Nat /\ Done(s) < total
      /\ Current(s).name \in MethodNames /\ Current(s) = inputs[s][n] /\ Done(s) = progress[s][n]
  BY <1>1, <1>2, HolderAtWork DEF Holder, Current, Done
<1>4. progress[s] \in [1 .. MaxInputs -> Nat] /\ progress \in [Sessions -> [1 .. MaxInputs -> Nat]]
  BY DEF InputInv, InputTyped
<1>5. /\ done \in [1 .. MaxInputs -> Nat] /\ done[n] = Done(s) + 1
      /\ \A m \in 1 .. MaxInputs : m # n => done[m] = progress[s][m]
  BY <1>1, <1>3, <1>4
<1>6. progress' = [progress EXCEPT ![s] = done]
  BY <1>1, <1>4 DEF Serve, Holder
<1>7. progress'[s] = done /\ \A q \in Sessions : q # s => progress'[q] = progress[q]
  BY <1>4, <1>6
<1>8. \/ gate' = gate /\ Done(s) + 1 < total
      \/ gate' = [gate EXCEPT ![s] = Tail(gate[s])] /\ Done(s) + 1 = total
  <2>1. total \in Nat
    BY <1>1, <1>3, CommandsInOrder
  <2>2. CASE IsLast(s)
    BY <1>1, <2>2 DEF Serve, IsLast, Release
  <2>3. CASE ~IsLast(s)
    <3>1. gate' = gate /\ Done(s) + 1 # total
      BY <1>1, <2>3 DEF Serve, IsLast
    <3> QED
      BY <1>3, <2>1, <3>1
  <2> QED
    BY <2>2, <2>3
<1>9. InputTyped' /\ (\A q \in Sessions : GateInOrder(q)' /\ ServedInOrder(q)') /\ MethodsStayTogether'
  <2>1. PICK line : /\ gate' = [gate EXCEPT ![s] = line]
                    /\ \/ line = gate[s] /\ done[n] < Len(Commands(inputs[s][n].name))
                       \/ line = Tail(gate[s])
    <3>1. gate = [gate EXCEPT ![s] = gate[s]]
      BY DEF InputInv, InputTyped
    <3> QED
      BY <1>1, <1>3, <1>5, <1>8, <3>1
  <2>2. n = Head(gate[s]) /\ served' \in {served, Append(served, e)} /\ e.from = s /\ e.n = n
    BY <1>1, <1>2
  <2>3. gate[s] # << >> /\ UNCHANGED << inputs, arriving >>
    BY <1>2
  <2>4. /\ done \in [1 .. MaxInputs -> Nat]
        /\ \A m \in 1 .. MaxInputs : m # n => done[m] = progress[s][m]
    BY <1>5
  <2>5. HolderStep(s, n, e, done, line)
    BY <1>6, <2>1, <2>2, <2>3, <2>4 DEF HolderStep
  <2> QED
    BY <2>5, HolderMoves
<1>10. ASSUME gate' = gate PROVE Current(s)' = Current(s) /\ Done(s)' = Done(s) + 1
  BY <1>1, <1>2, <1>3, <1>5, <1>7, <1>10 DEF Current, Done, Holder
<1>11. HeldForAReason'
  <2> SUFFICES ASSUME held' PROVE HeldForAReason'
    BY DEF HeldForAReason
  <2>1. CASE Command(s) = "press"
    <3>1. \/ Current(s).name = "mouse_down"
          \/ Current(s).name \in {"click", "drag"} /\ Done(s) = 2 /\ Done(s) + 1 # total
      BY <1>1, <1>3, <2>1, CommandsInOrder DEF Command
    <3>2. CASE Current(s).name = "mouse_down"
      BY <1>2, <1>3, <3>2 DEF HeldForAReason
    <3>3. CASE Current(s).name \in {"click", "drag"} /\ Done(s) = 2 /\ Done(s) + 1 # total
      <4>1. gate' = gate
        BY <1>8, <3>3
      <4>2. Current(s)' = Current(s) /\ Done(s)' = 3
        BY <1>10, <3>3, <4>1
      <4>3. Pressing(s)'
        BY <1>2, <3>3, <4>1, <4>2 DEF Pressing
      <4> QED
        BY <4>3 DEF HeldForAReason
    <3> QED
      BY <3>1, <3>2, <3>3
  <2>2. CASE Command(s) # "press"
    <3>1. held /\ Command(s) # "release"
      BY <2>2 DEF Serve
    <3>2. PICK q \in Sessions : \/ Pressing(q)
                                \/ \E m \in DOMAIN inputs[q] :
                                     inputs[q][m].name = "mouse_down" \/ << q, m >> \in failed
      BY <3>1 DEF InputInv, HeldForAReason
    <3>3. CASE \E m \in DOMAIN inputs[q] : inputs[q][m].name = "mouse_down" \/ << q, m >> \in failed
      BY <1>2, <3>3 DEF HeldForAReason
    <3>4. CASE Pressing(q) /\ q # s
      <4>1. gate'[q] = gate[q]
        BY <1>8, <3>4 DEF InputInv, InputTyped
      <4>2. Pressing(q)'
        BY <1>2, <1>7, <3>4, <4>1 DEF Pressing, Current, Done, Holder
      <4> QED
        BY <4>2 DEF HeldForAReason
    <3>5. CASE Pressing(q) /\ q = s
      <4>1. PICK name, k : name = Current(s).name /\ k = Done(s)
        OBVIOUS
      <4>2. /\ Commands(name)[k + 1] # "release" /\ name \in MethodNames /\ total = Len(Commands(name))
            /\ (name = "click" /\ k = 3) \/ (name = "drag" /\ k \in {3, 4})
        BY <1>1, <1>3, <3>1, <3>5, <4>1 DEF Pressing, Command
      <4>3. name = "drag" /\ k = 3 /\ total = 5
        BY <4>2, CommandsInOrder
      <4>4. gate' = gate
        BY <1>8, <4>1, <4>3
      <4>5. Current(s)' = Current(s) /\ Done(s)' = 4
        BY <1>10, <4>1, <4>3, <4>4
      <4>6. Pressing(s)'
        BY <1>2, <4>1, <4>3, <4>4, <4>5 DEF Pressing
      <4> QED
        BY <4>6 DEF HeldForAReason
    <3> QED
      BY <3>2, <3>3, <3>4, <3>5
  <2> QED
    BY <2>1, <2>2
<1> QED
  BY <1>9, <1>11 DEF InputInv

LEMMA FailKeepsOrder ==
  ASSUME MethodsAreKnown, InputInv, NEW s \in Sessions, Fail(s)
  PROVE  InputInv'
<1>1. PICK n, done, e : n = Head(gate[s]) /\ done = progress[s] /\ e = [from |-> s, n |-> n]
  OBVIOUS
<1>2. /\ gate[s] # << >> /\ UNCHANGED << inputs, arriving, progress, served, held >>
      /\ gate' = [gate EXCEPT ![s] = Tail(gate[s])] /\ failed' = failed \cup {<< s, n >>}
  BY <1>1 DEF Fail, Release, Holder
<1>3. n \in DOMAIN inputs[s]
  BY <1>1, <1>2, HolderAtWork DEF Holder
<1>4. /\ done \in [1 .. MaxInputs -> Nat] /\ progress' = [progress EXCEPT ![s] = done]
      /\ served' \in {served, Append(served, e)} /\ e.from = s /\ e.n = n
  BY <1>1, <1>2 DEF InputInv, InputTyped
<1>5. InputTyped' /\ (\A q \in Sessions : GateInOrder(q)' /\ ServedInOrder(q)') /\ MethodsStayTogether'
  <2>1. PICK line : line = Tail(gate[s])
    OBVIOUS
  <2> QED
    <3>1. HolderStep(s, n, e, done, line)
      BY <1>1, <1>2, <1>4, <2>1 DEF HolderStep
    <3> QED
      BY <3>1, HolderMoves
<1>6. HeldForAReason'
  <2> SUFFICES ASSUME held PROVE HeldForAReason'
    BY <1>2 DEF HeldForAReason
  <2>1. PICK q \in Sessions : \/ Pressing(q)
                              \/ \E m \in DOMAIN inputs[q] :
                                   inputs[q][m].name = "mouse_down" \/ << q, m >> \in failed
    BY DEF InputInv, HeldForAReason
  <2>2. CASE \E m \in DOMAIN inputs[q] : inputs[q][m].name = "mouse_down" \/ << q, m >> \in failed
    BY <1>2, <2>2 DEF HeldForAReason
  <2>3. CASE q = s
    BY <1>2, <1>3 DEF HeldForAReason
  <2>4. CASE Pressing(q) /\ q # s
    <3>1. gate'[q] = gate[q]
      BY <1>2, <2>4 DEF InputInv, InputTyped
    <3>2. Pressing(q)'
      BY <1>2, <2>4, <3>1 DEF Pressing, Current, Done, Holder
    <3> QED
      BY <3>2 DEF HeldForAReason
  <2> QED
    BY <2>1, <2>2, <2>3, <2>4
<1> QED
  BY <1>5, <1>6 DEF InputInv

\* A step that leaves alone what the invariant reads.
LEMMA InputsUntouched ==
  ASSUME InputInv, UNCHANGED << inputs, arriving, gate, progress, served, held, failed >>
  PROVE  InputInv'
<1>1. InputTyped' /\ MethodsStayTogether'
  BY DEF InputInv, InputTyped, MethodsStayTogether, Places
<1>2. \A s \in Sessions : GateInOrder(s)' /\ ServedInOrder(s)'
  BY DEF InputInv, GateInOrder, ServedInOrder, NoDup
<1>3. HeldForAReason'
  BY DEF InputInv, HeldForAReason, Pressing, Current, Done, Holder
<1> QED
  BY <1>1, <1>2, <1>3 DEF InputInv

LEMMA InputsAreKept ==
  ASSUME MethodsAreKnown PROVE InputInv /\ [InputNext]_inputVars => InputInv'
<1> SUFFICES ASSUME InputInv, [InputNext]_inputVars PROVE InputInv'
  OBVIOUS
<1>1. ASSUME NEW s \in Sessions, Submit(s) PROVE InputInv'
  BY <1>1, SubmitKeepsOrder
<1>2. ASSUME NEW s \in Sessions, Serve(s) PROVE InputInv'
  BY <1>2, ServeKeepsOrder
<1>3. ASSUME NEW s \in Sessions, Fail(s) PROVE InputInv'
  BY <1>3, FailKeepsOrder
<1>4. ASSUME NEW s \in Sessions, NEW n \in 1 .. MaxInputs, Lock(s, n) PROVE InputInv'
  BY <1>4, LockKeepsOrder
<1>5. ASSUME NEW w \in Desktop, WindowCloses(w) PROVE InputInv'
  BY <1>5, InputsUntouched DEF WindowCloses
<1>6. CASE UNCHANGED inputVars
  BY <1>6, InputsUntouched DEF inputVars
<1> QED
  BY <1>1, <1>2, <1>3, <1>4, <1>5, <1>6 DEF InputNext

\* While a method of a connection is served, no other method of that connection reaches the seat:
\* the gate is held from the first command to the last (dispatch/mod.rs).
THEOREM MethodsKeepTheGate == ASSUME MethodsAreKnown PROVE InputSpec => []MethodsStayTogether
<1>1. InputInv /\ [InputNext]_inputVars => InputInv'
  BY InputsAreKept
<1>2. InputInv => MethodsStayTogether
  BY DEF InputInv
<1> QED
  BY <1>1, <1>2, InputsStart, PTL DEF InputSpec

\* The button of the seat is down only on account of a method that is running, that asked for a
\* button to stay down, or that failed half-way (input.rs: the releases follow the presses).
THEOREM ButtonsHaveTheirReasons ==
  ASSUME MethodsAreKnown PROVE InputSpec => []ButtonsAreAccountedFor
<1>1. InputInv /\ [InputNext]_inputVars => InputInv'
  BY InputsAreKept
<1>2. InputInv => ButtonsAreAccountedFor
  BY DEF InputInv, HeldForAReason, Pressing, ButtonsAreAccountedFor
<1> QED
  BY <1>1, <1>2, InputsStart, PTL DEF InputSpec

-----------------------------------------------------------------------------
(* The accessibility service: an id names one element for ever.            *)

\* A toolkit has finitely many elements.
ElementsAreFinite == IsFiniteSet(Elements)

\* The registry r agrees with the ids given out so far: they are below its next one, and what it
\* knows of them is what they were given for.
RegistryFits(r, ids) ==
  /\ r.next \in Nat
  /\ \A id \in DOMAIN r.byId : id \in Nat /\ id < r.next
  /\ \A h \in DOMAIN r.byHandle : r.byHandle[h] \in DOMAIN r.byId /\ r.byId[r.byHandle[h]] = h
  /\ \A t \in ids : /\ t = << t[1], t[2] >> /\ t[1] \in Nat /\ t[1] < r.next
                    /\ t[1] \in DOMAIN r.byId => r.byId[t[1]] = t[2]
  /\ \A s, t \in ids : s[1] = t[1] => s[2] = t[2]

A11yInv ==
  /\ alive \subseteq Elements
  /\ trees \in [Agents -> {None} \cup Seq(Elements)]
  /\ invoking \in [Agents -> {None} \cup named]
  /\ RegistryFits(Registry, named)
  /\ acted \subseteq named

\* Assigning an element a number keeps the registry in agreement, and the element is known then.
LEMMA AssignFits ==
  ASSUME NEW r, NEW ids, RegistryFits(r, ids), NEW handle,
         r = [byId |-> r.byId, byHandle |-> r.byHandle, next |-> r.next]
  PROVE  /\ RegistryFits(Assign(r, handle), ids) /\ handle \in DOMAIN Assign(r, handle).byHandle
         /\ Assign(r, handle) = [byId |-> Assign(r, handle).byId,
                                 byHandle |-> Assign(r, handle).byHandle,
                                 next |-> Assign(r, handle).next]
<1>1. CASE handle \in DOMAIN r.byHandle
  BY <1>1 DEF Assign
<1>2. CASE handle \notin DOMAIN r.byHandle
  <2>1. PICK c : c = Cleared(r)
    OBVIOUS
  <2>2. /\ RegistryFits(c, ids) /\ handle \notin DOMAIN c.byHandle
        /\ c = [byId |-> c.byId, byHandle |-> c.byHandle, next |-> c.next]
    <3>1. CASE c = r
      BY <1>2, <3>1
    <3>2. CASE c # r
      <4>1. c.byId = NoEntries /\ c.byHandle = NoEntries /\ c.next = r.next
            /\ c = [byId |-> c.byId, byHandle |-> c.byHandle, next |-> c.next]
        BY <2>1, <3>2 DEF Cleared
      <4> QED
        BY <4>1 DEF RegistryFits, NoEntries
    <3> QED
      BY <3>1, <3>2
  <2>3. PICK new : new = Added(c, handle)
    OBVIOUS
  <2>4. /\ new.byId = Put(c.byId, c.next, handle) /\ new.byHandle = Put(c.byHandle, handle, c.next)
        /\ new.next = c.next + 1
        /\ new = [byId |-> new.byId, byHandle |-> new.byHandle, next |-> new.next]
    BY <2>3 DEF Added
  <2>5. /\ DOMAIN new.byId = DOMAIN c.byId \cup {c.next} /\ new.byId[c.next] = handle
        /\ \A id \in DOMAIN c.byId : id # c.next => new.byId[id] = c.byId[id]
    BY <2>4 DEF Put
  <2>6. /\ DOMAIN new.byHandle = DOMAIN c.byHandle \cup {handle} /\ new.byHandle[handle] = c.next
        /\ \A h \in DOMAIN c.byHandle : h # handle => new.byHandle[h] = c.byHandle[h]
    BY <2>4 DEF Put
  <2>7. c.next \in Nat /\ c.next \notin DOMAIN c.byId
    BY <2>2 DEF RegistryFits
  <2>8. \A id \in DOMAIN new.byId : id \in Nat /\ id < new.next
    BY <2>2, <2>4, <2>5, <2>7 DEF RegistryFits
  <2>9. ASSUME NEW h \in DOMAIN new.byHandle
        PROVE  new.byHandle[h] \in DOMAIN new.byId /\ new.byId[new.byHandle[h]] = h
    <3>1. CASE h = handle
      BY <2>5, <2>6, <3>1
    <3>2. CASE h # handle
      <4>1. h \in DOMAIN c.byHandle /\ new.byHandle[h] = c.byHandle[h]
        BY <2>6, <2>9, <3>2
      <4>2. c.byHandle[h] \in DOMAIN c.byId /\ c.byId[c.byHandle[h]] = h
        BY <2>2, <4>1 DEF RegistryFits
      <4> QED
        BY <2>5, <2>7, <4>1, <4>2
    <3> QED
      BY <3>1, <3>2
  <2>10. ASSUME NEW t \in ids
         PROVE  /\ t = << t[1], t[2] >> /\ t[1] \in Nat /\ t[1] < new.next
                /\ t[1] \in DOMAIN new.byId => new.byId[t[1]] = t[2]
    <3>1. /\ t = << t[1], t[2] >> /\ t[1] \in Nat /\ t[1] < c.next
          /\ t[1] \in DOMAIN c.byId => c.byId[t[1]] = t[2]
      BY <2>2, <2>10 DEF RegistryFits
    <3> QED
      BY <2>4, <2>5, <2>7, <3>1
  <2>11. \A s, t \in ids : s[1] = t[1] => s[2] = t[2]
    BY DEF RegistryFits
  <2>12. RegistryFits(new, ids)
    BY <2>4, <2>7, <2>8, <2>9, <2>10, <2>11 DEF RegistryFits
  <2>13. Assign(r, handle) = new
    BY <1>2, <2>1, <2>3 DEF Assign
  <2> QED
    BY <2>4, <2>6, <2>12, <2>13
<1> QED
  BY <1>1, <1>2

\* A partial answer is in agreement with what was given out before.
AnswerFits(acc) ==
  /\ RegistryFits(acc.registry, named \cup acc.ids)
  /\ acc.registry = [byId |-> acc.registry.byId, byHandle |-> acc.registry.byHandle,
                     next |-> acc.registry.next]

\* The assigned element is named by its number.
LEMMA AssignNextFits ==
  ASSUME NEW acc, AnswerFits(acc), NEW handle
  PROVE  AnswerFits(AssignNext(acc, handle))
<1>1. PICK r, id, ids : r = Assign(acc.registry, handle) /\ id = r.byHandle[handle]
                        /\ ids = named \cup acc.ids
  OBVIOUS
<1>2. /\ RegistryFits(r, ids) /\ handle \in DOMAIN r.byHandle
      /\ r = [byId |-> r.byId, byHandle |-> r.byHandle, next |-> r.next]
  BY <1>1, AssignFits DEF AnswerFits
<1>3. id \in DOMAIN r.byId /\ r.byId[id] = handle /\ id \in Nat /\ id < r.next
  BY <1>1, <1>2 DEF RegistryFits
<1>4. PICK after : after = AssignNext(acc, handle)
  OBVIOUS
<1>8. after.registry = r /\ named \cup after.ids = ids \cup {<< id, handle >>}
  BY <1>1, <1>4 DEF AssignNext
<1>5. ASSUME NEW t \in ids \cup {<< id, handle >>}
      PROVE  /\ t = << t[1], t[2] >> /\ t[1] \in Nat /\ t[1] < r.next
             /\ t[1] \in DOMAIN r.byId => r.byId[t[1]] = t[2]
  <2>1. CASE t = << id, handle >>
    BY <1>3, <2>1
  <2>2. CASE t \in ids
    BY <1>2, <2>2 DEF RegistryFits
  <2> QED
    BY <1>5, <2>1, <2>2
<1>6. ASSUME NEW s \in ids \cup {<< id, handle >>}, NEW t \in ids \cup {<< id, handle >>}, s[1] = t[1]
      PROVE  s[2] = t[2]
  <2>1. CASE s[1] \in DOMAIN r.byId
    BY <1>5, <1>6, <2>1
  <2>2. CASE s[1] \notin DOMAIN r.byId
    <3>1. s # << id, handle >> /\ t # << id, handle >>
      BY <1>3, <1>6, <2>2
    <3> QED
      BY <1>2, <1>6, <3>1 DEF RegistryFits
  <2> QED
    BY <2>1, <2>2
<1>7. RegistryFits(r, ids \cup {<< id, handle >>})
  BY <1>2, <1>5, <1>6 DEF RegistryFits
<1> QED
  BY <1>2, <1>4, <1>7, <1>8 DEF AnswerFits

\* `after` holds, from `first` on, what each of the first n nodes leaves behind.
Assignments(after, nodes, n, first) ==
  after = [k \in 0 .. n |-> IF k = 0 THEN first ELSE AssignNext(after[k - 1], nodes[k])]

\* The recursion of AssignAll has such a list.
LEMMA AssignmentsExist ==
  ASSUME NEW nodes, NEW total \in Nat, NEW first
  PROVE  \E after : Assignments(after, nodes, total, first)
<1>1. PICK missing : missing = {n \in Nat : ~ \E after : Assignments(after, nodes, n, first)}
  OBVIOUS
<1>2. SUFFICES ASSUME missing # {} PROVE FALSE
  BY <1>1
<1>3. PICK n \in missing : \A m \in missing : n <= m
  <2>1. missing \in SUBSET Nat
    BY <1>1
  <2> QED
    BY <1>2, <2>1, LeastNatural
<1>4. n \in Nat /\ ~ \E after : Assignments(after, nodes, n, first)
  BY <1>1, <1>3
<1>5. CASE n = 0
  <2>1. PICK after : after = [k \in 0 .. 0 |-> first]
    OBVIOUS
  <2>2. after = [k \in 0 .. 0 |-> IF k = 0 THEN first ELSE AssignNext(after[k - 1], nodes[k])]
    BY <2>1
  <2> QED
    BY <1>4, <1>5, <2>2 DEF Assignments
<1>6. CASE n # 0
  <2>1. n - 1 \in Nat /\ n - 1 \notin missing
    BY <1>3, <1>4, <1>6
  <2>2. PICK old : Assignments(old, nodes, n - 1, first)
    BY <1>1, <2>1
  <2>3. PICK after : after = [k \in 0 .. n |-> IF k = n THEN AssignNext(old[n - 1], nodes[n]) ELSE old[k]]
    OBVIOUS
  <2>4. (\A k \in 0 .. n - 1 : after[k] = old[k]) /\ after[n] = AssignNext(old[n - 1], nodes[n])
    BY <1>4, <2>3
  <2>5. ASSUME NEW k \in 0 .. n
        PROVE  after[k] = IF k = 0 THEN first ELSE AssignNext(after[k - 1], nodes[k])
    <3>1. CASE k = n
      <4>1. n - 1 \in 0 .. n - 1
        BY <1>4, <1>6
      <4> QED
        BY <1>6, <2>4, <3>1, <4>1
    <3>2. CASE k # n
      <4>1. k \in 0 .. n - 1 /\ (k # 0 => k - 1 \in 0 .. n - 1)
        BY <1>4, <2>5, <3>2
      <4>2. old[k] = IF k = 0 THEN first ELSE AssignNext(old[k - 1], nodes[k])
        BY <2>2, <4>1 DEF Assignments
      <4> QED
        BY <2>4, <4>1, <4>2
    <3> QED
      BY <3>1, <3>2
  <2>6. after = [k \in 0 .. n |-> IF k = 0 THEN first ELSE AssignNext(after[k - 1], nodes[k])]
    BY <2>3, <2>5
  <2> QED
    BY <1>4, <2>6 DEF Assignments
<1> QED
  BY <1>5, <1>6

LEMMA AssignAllFits ==
  ASSUME NEW nodes, Len(nodes) \in Nat, RegistryFits(Registry, named)
  PROVE  AnswerFits(AssignAll(nodes))
<1>1. PICK total, first : /\ total \in Nat /\ total = Len(nodes)
                          /\ first = [registry |-> Registry, ids |-> {}]
  OBVIOUS
<1>2. PICK after : Assignments(after, nodes, total, first) /\ AssignAll(nodes) = after[total]
  <2>1. PICK g : g = CHOOSE after : Assignments(after, nodes, total, first)
    OBVIOUS
  <2>2. Assignments(g, nodes, total, first)
    BY <1>1, <2>1, AssignmentsExist, Zenon
  <2>3. AssignAll(nodes) = g[total]
    BY <1>1, <2>1, Zenon DEF AssignAll, Assignments
  <2> QED
    BY <2>2, <2>3
<1>3. PICK bad : bad = {k \in 0 .. total : ~ AnswerFits(after[k])}
  OBVIOUS
<1>4. SUFFICES ASSUME bad # {} PROVE FALSE
  BY <1>1, <1>2, <1>3
<1>5. PICK k \in bad : \A j \in bad : k <= j
  <2>1. bad \in SUBSET Nat
    BY <1>1, <1>3
  <2> QED
    BY <1>4, <2>1, LeastNatural
<1>6. CASE k = 0
  <2>1. after[0] = first
    BY <1>1, <1>2 DEF Assignments
  <2>2. AnswerFits(first)
    BY <1>1 DEF AnswerFits, Registry
  <2> QED
    BY <1>3, <1>5, <1>6, <2>1, <2>2
<1>7. CASE k # 0
  <2>1. k \in 0 .. total /\ k - 1 \in 0 .. total
    BY <1>1, <1>3, <1>5, <1>7
  <2>2. AnswerFits(after[k - 1])
    BY <1>3, <1>5, <2>1
  <2>3. after[k] = AssignNext(after[k - 1], nodes[k])
    BY <1>2, <1>7, <2>1 DEF Assignments
  <2>4. AnswerFits(after[k])
    BY <2>2, <2>3, AssignNextFits
  <2> QED
    BY <1>3, <1>5, <2>4
<1> QED
  BY <1>6, <1>7

LEMMA A11yStarts == A11yInit => A11yInv
<1> SUFFICES ASSUME A11yInit PROVE A11yInv
  OBVIOUS
<1>1. RegistryFits(Registry, named)
  BY DEF A11yInit, RegistryFits, Registry, NoEntries
<1> QED
  BY <1>1 DEF A11yInit, A11yInv

LEMMA A11yKept == ASSUME ElementsAreFinite PROVE A11yInv /\ [A11yNext]_a11yVars => A11yInv'
<1> SUFFICES ASSUME A11yInv, [A11yNext]_a11yVars PROVE A11yInv'
  OBVIOUS
<1> USE DEF A11yInv
<1>1. ASSUME NEW a \in Agents, Walk(a) PROVE A11yInv'
  <2>1. PICK nodes \in Snapshots : trees' = [trees EXCEPT ![a] = nodes]
    BY <1>1 DEF Walk
  <2>2. nodes \in Seq(Elements)
    <3>1. Cardinality(alive) \in Nat
      BY FS_Subset, FS_CardinalityType DEF ElementsAreFinite
    <3>2. PICK n \in 1 .. Cardinality(alive) : nodes \in [1 .. n -> alive]
      BY <2>1 DEF Snapshots
    <3>3. n \in Nat
      BY <3>1, <3>2
    <3> QED
      BY <3>2, <3>3
  <2> QED
    BY <1>1, <2>1, <2>2 DEF Walk, Registry
<1>2. ASSUME NEW a \in Agents, AnswerTree(a) PROVE A11yInv'
  <2>1. trees[a] # None /\ trees[a] \in Seq(Elements) /\ Len(trees[a]) \in Nat
    BY <1>2 DEF AnswerTree
  <2>2. PICK result : result = AssignAll(trees[a])
    OBVIOUS
  <2>3. /\ byId' = result.registry.byId /\ byHandle' = result.registry.byHandle
        /\ nextNode' = result.registry.next /\ named' = named \cup result.ids
        /\ trees' = [trees EXCEPT ![a] = None] /\ UNCHANGED << alive, invoking, acted >>
    BY <1>2, <2>2 DEF AnswerTree
  <2>4. /\ RegistryFits(result.registry, named \cup result.ids)
        /\ result.registry = [byId |-> result.registry.byId, byHandle |-> result.registry.byHandle,
                              next |-> result.registry.next]
    BY <2>1, <2>2, AssignAllFits DEF AnswerFits
  <2>5. Registry' = result.registry
    BY <2>3, <2>4 DEF Registry
  <2>6. RegistryFits(Registry, named)'
    BY <2>3, <2>4, <2>5 DEF RegistryFits
  <2> QED
    BY <2>3, <2>6
<1>3. ASSUME NEW a \in Agents, Invoke(a) PROVE A11yInv'
  <2>1. PICK t \in named : t[1] \in DOMAIN byId /\ invoking' = [invoking EXCEPT ![a] = << t[1], byId[t[1]] >>]
    BY <1>3 DEF Invoke
  <2>2. << t[1], byId[t[1]] >> = t
    BY <2>1 DEF RegistryFits, Registry
  <2> QED
    BY <1>3, <2>1, <2>2 DEF Invoke, Registry
<1>4. ASSUME NEW a \in Agents, Actuate(a) PROVE A11yInv'
  BY <1>4 DEF Actuate, Registry
<1>5. CASE ElementDies
  BY <1>5 DEF ElementDies, Registry
<1>6. CASE UNCHANGED a11yVars
  BY <1>6 DEF a11yVars, Registry
<1> QED
  BY <1>1, <1>2, <1>3, <1>4, <1>5, <1>6 DEF A11yNext

\* Whatever the registry forgot since, an id that was given out names the element it was given
\* for: the numbers are not started anew, and invoke goes through the registry
\* (accessibility.md:170).
THEOREM IdsKeepTheirMeaning ==
  ASSUME ElementsAreFinite PROVE A11ySpec => []IdsNeverChangeMeaning
<1>1. A11yInv /\ [A11yNext]_a11yVars => A11yInv'
  BY A11yKept
<1>2. A11yInv => IdsNeverChangeMeaning
  BY DEF A11yInv, RegistryFits, Registry, IdsNeverChangeMeaning
<1> QED
  BY <1>1, <1>2, A11yStarts, PTL DEF A11ySpec

-----------------------------------------------------------------------------
(* The connections: a cancelled subscription is quiet once it is answered. *)

AgpOperations ==
  {"none", "plain", "subscribe", "inspect", "undecodable", "unsubscribe", "uninspect"}
AgpAsks == [op : AgpOperations, id : Nat]

\* The queue's capacity is a number, and what peers ask for are requests.
AsksAreKnown == QueueCap \in Nat /\ \A c \in Connections : Asks(c) \subseteq AgpAsks

AgpFrames ==
  [kind : {"response"}, n : Nat, ask : AgpAsks, result : {"none", "ok", "error", "shutting_down"}]
  \cup [kind : {"event"}, id : Nat, seq : Nat] \cup {InspectFrame}

AgpTasks ==
  [conn : Connections, n : Nat, ask : AgpAsks, pc : {"start", "working", "register", "respond"},
   result : {"none", "ok", "error", "shutting_down"}]

AgpTyped ==
  /\ reader \in [Connections -> [pc : {"reading", "permit", "answering", "leaving", "inspects",
                                       "sink", "joining", "done"}, ask : AgpAsks]]
  /\ tasks \subseteq AgpTasks
  /\ queue \in [Connections -> Seq(AgpFrames)] /\ wire \in [Connections -> Seq(AgpFrames)]
  /\ nextId \in [Registries -> Nat] /\ asked \in [Connections -> Nat] /\ emitted \in Nat
  /\ IsFiniteSet(entries)

\* Number id was given to an event subscription; it is not registered any more.
GivenOut(id)  == id \in Nat /\ id < nextId["event"]
Cancelled(id) == GivenOut(id) /\ \A e \in entries : e.reg = "event" => e.id # id

EntriesAreGivenOut == \A e \in entries : e.reg = "event" => GivenOut(e.id)

\* What an answer says is so, from the moment its task has it.
SaysTheTruth(ask, result) ==
  result = "ok" => /\ ask.op = "subscribe" => GivenOut(ask.id)
                   /\ ask.op = "unsubscribe" => Cancelled(ask.id)

ReadersKnow == \A c \in Connections : reader[c].ask.op = "unsubscribe" => GivenOut(reader[c].ask.id)

TaskInOrder(t) ==
  /\ t.pc = "register" => t.ask.op \in {"subscribe", "inspect"}
  /\ t.pc = "working" => t.ask.op = "plain"
  /\ t.pc # "respond" => t.result = "none"
  /\ t.ask.op = "unsubscribe" => GivenOut(t.ask.id)
  /\ SaysTheTruth(t.ask, t.result)

FrameInOrder(f) == f.kind = "response" => SaysTheTruth(f.ask, f.result)
FramesInOrder(s) == \A i \in 1 .. Len(s) : FrameInOrder(s[i])

\* The frame f tells the peer that its event subscription id is cancelled.
Cancels(f, id) == f.kind = "response" /\ f.result = "ok" /\ f.ask = Ask("unsubscribe", id)

\* No event in t of a subscription cancelled in s; no event in s behind its cancellation.
Hushed(s, t) ==
  \A i \in 1 .. Len(s), j \in 1 .. Len(t) : t[j].kind = "event" => ~ Cancels(s[i], t[j].id)
HushedWithin(s) ==
  \A i, j \in 1 .. Len(s) : i < j /\ s[j].kind = "event" => ~ Cancels(s[i], s[j].id)

ConnectionInOrder(c) ==
  /\ FramesInOrder(wire[c]) /\ FramesInOrder(queue[c])
  /\ HushedWithin(wire[c]) /\ HushedWithin(queue[c]) /\ Hushed(wire[c], queue[c])

AgpInv ==
  /\ AgpTyped /\ EntriesAreGivenOut /\ ReadersKnow
  /\ \A t \in tasks : TaskInOrder(t)
  /\ \A c \in Connections : ConnectionInOrder(c)

LEMMA AgpStarts == AsksAreKnown /\ AgpInit => AgpInv
<1> SUFFICES ASSUME AsksAreKnown, AgpInit PROVE AgpInv
  OBVIOUS
<1>1. /\ reader = [c \in Connections |-> [pc |-> "reading", ask |-> NoAsk]] /\ tasks = {}
      /\ queue = [c \in Connections |-> << >>] /\ wire = [c \in Connections |-> << >>]
      /\ nextId = [r \in Registries |-> 1] /\ asked = [c \in Connections |-> 0] /\ emitted = 0
      /\ entries = {}
  BY DEF AgpInit
<1>2. NoAsk \in AgpAsks /\ NoAsk.op = "none"
  BY DEF NoAsk, Ask, AgpAsks, AgpOperations
<1>3. AgpTyped
  BY <1>1, <1>2, FS_EmptySet DEF AgpTyped
<1>4. EntriesAreGivenOut /\ ReadersKnow
  BY <1>1, <1>2 DEF EntriesAreGivenOut, ReadersKnow
<1>5. ASSUME NEW c \in Connections PROVE ConnectionInOrder(c)
  <2>1. wire[c] = << >> /\ queue[c] = << >>
    BY <1>1
  <2> QED
    BY <2>1 DEF ConnectionInOrder, FramesInOrder, HushedWithin, Hushed
<1> QED
  BY <1>1, <1>3, <1>4, <1>5 DEF AgpInv

\* The elements of a list and of another one behind it.
LEMMA JoinedLists ==
  ASSUME NEW S, NEW s \in Seq(S), NEW t \in Seq(S)
  PROVE  /\ s \o t \in Seq(S) /\ Len(s) \in Nat /\ Len(t) \in Nat /\ Len(s \o t) = Len(s) + Len(t)
         /\ \A i \in 1 .. Len(s) : (s \o t)[i] = s[i]
         /\ \A i \in 1 .. Len(s \o t) :
              (i \in 1 .. Len(s) /\ (s \o t)[i] = s[i])
              \/ (i \notin 1 .. Len(s) /\ i - Len(s) \in 1 .. Len(t) /\ (s \o t)[i] = t[i - Len(s)])
<1>1. PICK m \in Nat, n \in Nat : m = Len(s) /\ n = Len(t)
  OBVIOUS
<1>2. PICK u : u = s \o t
  OBVIOUS
<1>3. u \in Seq(S) /\ Len(u) = m + n
  BY <1>1, <1>2
<1>4. \A i \in 1 .. m + n : u[i] = IF i <= m THEN s[i] ELSE t[i - m]
  BY <1>1, <1>2
<1>5. \A i \in 1 .. m : i \in 1 .. m + n /\ i <= m
  OBVIOUS
<1>6. ASSUME NEW i \in 1 .. m + n PROVE i \in 1 .. m \/ (i \notin 1 .. m /\ i - m \in 1 .. n /\ ~ (i <= m))
  OBVIOUS
<1>7. \A i \in 1 .. m : u[i] = s[i]
  BY <1>4, <1>5
<1>8. ASSUME NEW i \in 1 .. m + n
      PROVE  (i \in 1 .. m /\ u[i] = s[i]) \/ (i \notin 1 .. m /\ i - m \in 1 .. n /\ u[i] = t[i - m])
  BY <1>4, <1>6, <1>7
<1> QED
  BY <1>1, <1>2, <1>3, <1>7, <1>8

LEMMA HushedJoin ==
  ASSUME NEW r \in Seq(AgpFrames), NEW s \in Seq(AgpFrames), NEW t \in Seq(AgpFrames)
  PROVE  /\ s \o t \in Seq(AgpFrames)
         /\ FramesInOrder(s) /\ FramesInOrder(t) => FramesInOrder(s \o t)
         /\ Hushed(r, s) /\ Hushed(r, t) => Hushed(r, s \o t)
         /\ HushedWithin(s) /\ HushedWithin(t) /\ Hushed(s, t) => HushedWithin(s \o t)
<1>1. PICK u, m, n : u = s \o t /\ m = Len(s) /\ n = Len(t)
  OBVIOUS
<1>2. /\ u \in Seq(AgpFrames) /\ m \in Nat /\ n \in Nat /\ Len(u) = m + n
      /\ \A i \in 1 .. m + n : \/ i \in 1 .. m /\ u[i] = s[i]
                               \/ i \notin 1 .. m /\ i - m \in 1 .. n /\ u[i] = t[i - m]
  BY <1>1, JoinedLists
<1>3. FramesInOrder(s) /\ FramesInOrder(t) => FramesInOrder(u)
  BY <1>1, <1>2 DEF FramesInOrder
<1>4. Hushed(r, s) /\ Hushed(r, t) => Hushed(r, u)
  BY <1>1, <1>2 DEF Hushed
<1>5. ASSUME HushedWithin(s), HushedWithin(t), Hushed(s, t) PROVE HushedWithin(u)
  <2> SUFFICES ASSUME NEW i \in 1 .. m + n, NEW j \in 1 .. m + n, i < j, u[j].kind = "event"
               PROVE  ~ Cancels(u[i], u[j].id)
    BY <1>2 DEF HushedWithin
  <2>1. CASE j \in 1 .. m
    <3>1. i \in 1 .. m /\ u[i] = s[i] /\ u[j] = s[j]
      BY <1>2, <2>1
    <3> QED
      BY <1>1, <1>5, <2>1, <3>1 DEF HushedWithin
  <2>2. CASE j \notin 1 .. m /\ i \in 1 .. m
    <3>1. u[i] = s[i] /\ j - m \in 1 .. n /\ u[j] = t[j - m]
      BY <1>2, <2>2
    <3> QED
      BY <1>1, <1>5, <2>2, <3>1 DEF Hushed
  <2>3. CASE j \notin 1 .. m /\ i \notin 1 .. m
    <3>2. i - m \in 1 .. n /\ u[i] = t[i - m]
      BY <1>2, <2>3
    <3>3. j - m \in 1 .. n /\ u[j] = t[j - m]
      BY <1>2, <2>3
    <3>4. i - m < j - m
      BY <1>2
    <3>5. PICK k \in 1 .. n, l \in 1 .. n : k < l /\ u[i] = t[k] /\ u[j] = t[l]
      BY <3>2, <3>3, <3>4
    <3> QED
      BY <1>1, <1>5, <3>5 DEF HushedWithin
  <2> QED
    BY <2>1, <2>2, <2>3
<1> QED
  BY <1>1, <1>2, <1>3, <1>4, <1>5

\* What is left out of a list disturbs nothing.
LEMMA HushedSublist ==
  ASSUME NEW r \in Seq(AgpFrames), NEW s \in Seq(AgpFrames), NEW S, S \subseteq 1 .. Len(s)
  PROVE  /\ Sublist(s, S) \in Seq(AgpFrames)
         /\ FramesInOrder(s) => FramesInOrder(Sublist(s, S))
         /\ Hushed(r, s) => Hushed(r, Sublist(s, S))
         /\ HushedWithin(s) => HushedWithin(Sublist(s, S))
<1>1. PICK t : t = Sublist(s, S)
  OBVIOUS
<1>2. t \in Seq(AgpFrames) /\ Retains(t, s, S)
  BY <1>1, SublistProperties
<1>3. PICK at \in [1 .. Len(t) -> S] : /\ \A k \in 1 .. Len(t) : t[k] = s[at[k]]
                                       /\ \A k, l \in 1 .. Len(t) : k < l => at[k] < at[l]
  BY <1>2 DEF Retains
<1>4. \A k \in 1 .. Len(t) : at[k] \in 1 .. Len(s)
  BY <1>3
<1>5. FramesInOrder(s) => FramesInOrder(t)
  BY <1>3, <1>4 DEF FramesInOrder
<1>6. Hushed(r, s) => Hushed(r, t)
  BY <1>3, <1>4 DEF Hushed
<1>7. HushedWithin(s) => HushedWithin(t)
  BY <1>3, <1>4 DEF HushedWithin
<1> QED
  BY <1>1, <1>2, <1>5, <1>6, <1>7

\* A step that registers at most one event subscription, under the next number.
MovesOn ==
  /\ nextId' \in [Registries -> Nat] /\ nextId["event"] <= nextId'["event"] /\ IsFiniteSet(entries')
  /\ \A e \in entries' :
       e \in entries \/ e.reg # "event" \/ (e.id = nextId["event"] /\ e.id < nextId'["event"])

LEMMA TruthStays ==
  ASSUME AgpInv, MovesOn
  PROVE  /\ EntriesAreGivenOut'
         /\ \A id : GivenOut(id) => GivenOut(id)'
         /\ \A ask, result : SaysTheTruth(ask, result) => SaysTheTruth(ask, result)'
<1>1. /\ nextId["event"] \in Nat /\ nextId'["event"] \in Nat /\ nextId["event"] <= nextId'["event"]
      /\ \A e \in entries' :
           e \in entries \/ e.reg # "event" \/ (e.id = nextId["event"] /\ e.id < nextId'["event"])
  <2>1. "event" \in Registries
    BY DEF Registries
  <2> QED
    BY <2>1 DEF AgpInv, AgpTyped, MovesOn
<1>2. ASSUME NEW id, GivenOut(id) PROVE GivenOut(id)'
  BY <1>1, <1>2 DEF GivenOut
<1>3. ASSUME NEW id, Cancelled(id) PROVE Cancelled(id)'
  <2>1. GivenOut(id)' /\ id \in Nat /\ id < nextId["event"]
    BY <1>2, <1>3 DEF Cancelled, GivenOut
  <2>2. ASSUME NEW e \in entries', e.reg = "event" PROVE e.id # id
    <3>1. e \in entries \/ e.id = nextId["event"]
      BY <1>1, <2>2
    <3>2. e \in entries => e.id # id
      BY <1>3, <2>2 DEF Cancelled
    <3> QED
      BY <1>1, <2>1, <3>1, <3>2
  <2> QED
    BY <2>1, <2>2 DEF Cancelled
<1>4. EntriesAreGivenOut'
  <2>1. ASSUME NEW e \in entries', e.reg = "event" PROVE GivenOut(e.id)'
    <3>1. CASE e \in entries
      BY <1>2, <2>1, <3>1 DEF AgpInv, EntriesAreGivenOut
    <3>2. CASE e \notin entries
      <4>1. e.id = nextId["event"] /\ e.id < nextId'["event"]
        BY <1>1, <2>1, <3>2
      <4> QED
        BY <1>1, <4>1 DEF GivenOut
    <3> QED
      BY <3>1, <3>2
  <2> QED
    BY <2>1 DEF EntriesAreGivenOut
<1>5. ASSUME NEW ask, NEW result, SaysTheTruth(ask, result) PROVE SaysTheTruth(ask, result)'
  BY <1>2, <1>3, <1>5 DEF SaysTheTruth
<1> QED
  BY <1>2, <1>4, <1>5

LEMMA TasksStay ==
  ASSUME AgpInv, MovesOn, NEW t \in tasks PROVE TaskInOrder(t)'
BY TruthStays DEF AgpInv, TaskInOrder

LEMMA ReadersStay ==
  ASSUME AgpInv, MovesOn, \A c \in Connections : reader'[c].ask = reader[c].ask PROVE ReadersKnow'
BY TruthStays DEF AgpInv, ReadersKnow

\* What a connection was sent and will be sent, with new frames behind.
LEMMA ListGrows ==
  ASSUME AgpInv, MovesOn, NEW c \in Connections, NEW more \in Seq(AgpFrames),
         wire'[c] = wire[c], queue'[c] = queue[c] \o more, FramesInOrder(more),
         HushedWithin(more), Hushed(queue[c], more), Hushed(wire[c], more)
  PROVE  ConnectionInOrder(c)' /\ queue'[c] \in Seq(AgpFrames)
<1>1. PICK sent, waiting, grown : sent = wire[c] /\ waiting = queue[c] /\ grown = waiting \o more
  OBVIOUS
<1>2. sent \in Seq(AgpFrames) /\ waiting \in Seq(AgpFrames) /\ wire'[c] = sent /\ queue'[c] = grown
  BY <1>1 DEF AgpInv, AgpTyped
<1>3. /\ FramesInOrder(sent) /\ FramesInOrder(waiting)
      /\ HushedWithin(sent) /\ HushedWithin(waiting) /\ Hushed(sent, waiting)
  BY <1>1 DEF AgpInv, ConnectionInOrder
<1>4. /\ grown \in Seq(AgpFrames) /\ FramesInOrder(grown)
      /\ HushedWithin(grown) /\ Hushed(sent, grown)
  BY <1>1, <1>2, <1>3, HushedJoin
<1>5. ASSUME NEW list, FramesInOrder(list) PROVE FramesInOrder(list)'
  BY <1>5, TruthStays DEF FramesInOrder, FrameInOrder
<1>6. FramesInOrder(sent)' /\ FramesInOrder(grown)'
  BY <1>3, <1>4, <1>5
<1>7. FramesInOrder(wire[c])' /\ FramesInOrder(queue[c])'
  BY <1>2, <1>6 DEF FramesInOrder, FrameInOrder
<1>8. HushedWithin(wire[c])' /\ HushedWithin(queue[c])' /\ Hushed(wire[c], queue[c])'
  BY <1>2, <1>3, <1>4 DEF HushedWithin, Hushed, Cancels, Ask
<1> QED
  BY <1>2, <1>4, <1>7, <1>8 DEF ConnectionInOrder

LEMMA ListStays ==
  ASSUME AgpInv, MovesOn, NEW c \in Connections, wire'[c] = wire[c], queue'[c] = queue[c]
  PROVE  ConnectionInOrder(c)'
<1>1. PICK none : none = << >>
  OBVIOUS
<1>2. none \in Seq(AgpFrames) /\ queue[c] \in Seq(AgpFrames)
  BY <1>1 DEF AgpInv, AgpTyped
<1>3. queue'[c] = queue[c] \o none
  BY <1>1, <1>2
<1>4. FramesInOrder(none) /\ HushedWithin(none) /\ Hushed(queue[c], none) /\ Hushed(wire[c], none)
  BY <1>1 DEF FramesInOrder, HushedWithin, Hushed
<1> QED
  BY <1>2, <1>3, <1>4, ListGrows

\* One frame that is no event, sent or dropped.
LEMMA ListGetsOne ==
  ASSUME AgpInv, MovesOn, NEW c \in Connections, NEW f \in AgpFrames, FrameInOrder(f),
         f.kind # "event", NEW d \in Connections, UNCHANGED wire,
         queue' = queue \/ queue' = [queue EXCEPT ![c] = Append(@, f)]
  PROVE  ConnectionInOrder(d)' /\ queue'[d] \in Seq(AgpFrames)
<1>1. queue \in [Connections -> Seq(AgpFrames)]
  BY DEF AgpInv, AgpTyped
<1>2. CASE queue'[d] = queue[d]
  BY <1>1, <1>2, ListStays
<1>3. CASE queue'[d] # queue[d]
  <2>1. d = c /\ queue'[d] = Append(queue[d], f)
    BY <1>1, <1>3
  <2>2. PICK more : more = << f >>
    OBVIOUS
  <2>3. more \in Seq(AgpFrames)
    BY <2>2
  <2>4. \A i \in 1 .. Len(more) : more[i] = f
    BY <2>2
  <2>6. queue'[d] = queue[d] \o more
    BY <1>1, <2>1, <2>2, AppendIsConcat
  <2>5. FramesInOrder(more) /\ HushedWithin(more) /\ Hushed(queue[d], more) /\ Hushed(wire[d], more)
    BY <2>4 DEF FramesInOrder, HushedWithin, Hushed
  <2> QED
    BY <2>3, <2>5, <2>6, ListGrows
<1> QED
  BY <1>2, <1>3

\* The steps that send nothing and ask nothing.
LEMMA SilentStep ==
  ASSUME AgpInv, MovesOn, AgpTyped', UNCHANGED << queue, wire >>, ReadersKnow',
         \A t \in tasks' : t \in tasks \/ TaskInOrder(t)'
  PROVE  AgpInv'
<1>1. ASSUME NEW c \in Connections PROVE ConnectionInOrder(c)'
  <2>1. wire'[c] = wire[c] /\ queue'[c] = queue[c]
    OBVIOUS
  <2> QED
    BY <2>1, ListStays
<1>2. \A t \in tasks' : TaskInOrder(t)'
  BY TasksStay
<1> QED
  BY <1>1, <1>2, TruthStays DEF AgpInv

LEMMA NothingNew == AgpInv /\ UNCHANGED << nextId, entries >> => MovesOn
BY DEF AgpInv, AgpTyped, MovesOn, Registries

LEMMA OnlyRemoved ==
  ASSUME AgpInv, nextId' = nextId, entries' \subseteq entries
  PROVE  MovesOn
<1>1. IsFiniteSet(entries')
  <2>1. entries' \in SUBSET entries /\ IsFiniteSet(entries)
    BY DEF AgpInv, AgpTyped
  <2> QED
    BY <2>1, FS_Subset
<1> QED
  BY <1>1 DEF AgpInv, AgpTyped, MovesOn, Registries

LEMMA ReaderKeepsQuiet ==
  ASSUME AsksAreKnown, AgpInv, NEW c \in Connections,
         ReadRequest(c) \/ SpawnTask(c) \/ LeaveLoop(c) \/ Leave(c) \/ Finish(c)
  PROVE  AgpInv'
<1> USE DEF GoTo
<1>1. CASE ReadRequest(c)
  <2>1. PICK ask \in Asks(c) :
          /\ MayAsk(c, ask)
          /\ reader' = [reader EXCEPT ![c] = [pc |-> IF ask.op = "undecodable" THEN "answering"
                                                     ELSE "permit", ask |-> ask]]
    BY <1>1 DEF ReadRequest
  <2>2. ask \in AgpAsks
    BY DEF AsksAreKnown
  <2>3. MovesOn
    BY <1>1, NothingNew DEF ReadRequest
  <2>4. AgpTyped'
    BY <1>1, <2>1, <2>2 DEF ReadRequest, AgpInv, AgpTyped
  <2>5. ask.op = "unsubscribe" => GivenOut(ask.id)
    <3> SUFFICES ASSUME ask.op = "unsubscribe" PROVE GivenOut(ask.id)
      OBVIOUS
    <3>1. PICK i \in DOMAIN wire[c] : /\ wire[c][i].kind = "response" /\ wire[c][i].result = "ok"
                                      /\ wire[c][i].ask = Ask("subscribe", ask.id)
      BY <2>1 DEF MayAsk, Told
    <3>2. i \in 1 .. Len(wire[c])
      BY <3>1 DEF AgpInv, AgpTyped
    <3>3. FrameInOrder(wire[c][i])
      BY <3>2 DEF AgpInv, ConnectionInOrder, FramesInOrder
    <3> QED
      BY <3>1, <3>3 DEF FrameInOrder, SaysTheTruth, Ask
  <2>6. ReadersKnow'
    <3>1. ASSUME NEW d \in Connections, reader'[d].ask.op = "unsubscribe"
          PROVE  GivenOut(reader'[d].ask.id)
      <4>1. CASE d = c
        BY <2>1, <2>5, <3>1, <4>1 DEF AgpInv, AgpTyped
      <4>2. CASE d # c
        BY <2>1, <3>1, <4>2 DEF AgpInv, AgpTyped, ReadersKnow
      <4> QED
        BY <4>1, <4>2
    <3> QED
      BY <1>1, <3>1 DEF ReadRequest, ReadersKnow, GivenOut
  <2> QED
    BY <1>1, <2>3, <2>4, <2>6, SilentStep DEF ReadRequest
<1>2. CASE SpawnTask(c)
  <2>1. PICK t : /\ t = [conn |-> c, n |-> asked[c], ask |-> reader[c].ask, pc |-> "start", result |-> "none"]
                 /\ tasks' = tasks \cup {t}
    BY <1>2 DEF SpawnTask
  <2>2. t \in AgpTasks
    BY <2>1 DEF AgpInv, AgpTyped, AgpTasks
  <2>3. MovesOn
    BY <1>2, NothingNew DEF SpawnTask
  <2>4. AgpTyped' /\ \A d \in Connections : reader'[d].ask = reader[d].ask
    BY <1>2, <2>1, <2>2 DEF SpawnTask, AgpInv, AgpTyped
  <2>5. TaskInOrder(t)
    BY <2>1 DEF TaskInOrder, SaysTheTruth, AgpInv, ReadersKnow
  <2>6. TaskInOrder(t)'
    BY <2>3, <2>5, TruthStays DEF TaskInOrder
  <2> QED
    BY <1>2, <2>1, <2>3, <2>4, <2>6, ReadersStay, SilentStep DEF SpawnTask
<1>3. CASE LeaveLoop(c)
  <2>1. MovesOn
    BY <1>3, NothingNew DEF LeaveLoop
  <2>2. AgpTyped' /\ \A d \in Connections : reader'[d].ask = reader[d].ask
    BY <1>3 DEF LeaveLoop, AgpInv, AgpTyped
  <2> QED
    BY <1>3, <2>1, <2>2, ReadersStay, SilentStep DEF LeaveLoop
<1>4. CASE Leave(c)
  <2>1. MovesOn
    BY <1>4, OnlyRemoved DEF Leave, RemoveConnection
  <2>2. AgpTyped' /\ \A d \in Connections : reader'[d].ask = reader[d].ask
    <3>1. IsFiniteSet(entries')
      BY <2>1 DEF MovesOn
    <3>2. PICK pc \in {"inspects", "sink", "joining"} : reader' = [reader EXCEPT ![c].pc = pc]
      BY <1>4 DEF Leave, RemoveConnection
    <3>3. reader \in [Connections -> [pc : {"reading", "permit", "answering", "leaving", "inspects",
                                            "sink", "joining", "done"}, ask : AgpAsks]]
      BY DEF AgpInv, AgpTyped
    <3>4. /\ reader' \in [Connections -> [pc : {"reading", "permit", "answering", "leaving", "inspects",
                                               "sink", "joining", "done"}, ask : AgpAsks]]
          /\ \A d \in Connections : reader'[d].ask = reader[d].ask
      BY <3>2, <3>3
    <3> QED
      BY <1>4, <3>1, <3>4 DEF Leave, AgpInv, AgpTyped
  <2> QED
    BY <1>4, <2>1, <2>2, ReadersStay, SilentStep DEF Leave
<1>5. CASE Finish(c)
  <2>1. MovesOn
    BY <1>5, NothingNew DEF Finish
  <2>2. AgpTyped' /\ \A d \in Connections : reader'[d].ask = reader[d].ask
    BY <1>5 DEF Finish, AgpInv, AgpTyped
  <2> QED
    BY <1>5, <2>1, <2>2, ReadersStay, SilentStep DEF Finish
<1> QED
  BY <1>1, <1>2, <1>3, <1>4, <1>5

\* One task goes on.
LEMMA TaskGoesOn ==
  ASSUME AgpInv, MovesOn, NEW t \in tasks, NEW u \in AgpTasks, TaskInOrder(u)',
         tasks' \subseteq tasks \cup {u}, UNCHANGED << reader, queue, wire, asked, emitted >>
  PROVE  AgpInv'
<1>1. AgpTyped'
  BY DEF AgpInv, AgpTyped, MovesOn
<1>2. ReadersKnow'
  BY ReadersStay
<1>3. \A v \in tasks' : v \in tasks \/ TaskInOrder(v)'
  OBVIOUS
<1> QED
  BY <1>1, <1>2, <1>3, SilentStep

LEMMA HandlerKeepsQuiet ==
  ASSUME AgpInv, NEW t \in tasks, Handle(t) PROVE AgpInv'
<1>1. t \in AgpTasks /\ TaskInOrder(t)
  BY DEF AgpInv, AgpTyped
<1>2. UNCHANGED << reader, queue, wire, asked, emitted >>
  BY DEF Handle
<1>3. ASSUME NEW pc \in {"start", "working", "register", "respond"},
             NEW result \in {"none", "ok", "error", "shutting_down"}
      PROVE  /\ [t EXCEPT !.pc = pc, !.result = result] \in AgpTasks
             /\ [t EXCEPT !.pc = pc, !.result = result].pc = pc
             /\ [t EXCEPT !.pc = pc, !.result = result].result = result
             /\ [t EXCEPT !.pc = pc, !.result = result].ask = t.ask
             /\ TaskAt(t, pc, result) \subseteq tasks \cup {[t EXCEPT !.pc = pc, !.result = result]}
  BY <1>1 DEF AgpTasks, TaskAt
<1>4. CASE FailShuttingDown(t)
  <2>1. PICK u : u = [t EXCEPT !.pc = "respond", !.result = "shutting_down"]
    OBVIOUS
  <2>2. /\ u \in AgpTasks /\ u.pc = "respond" /\ u.result = "shutting_down" /\ u.ask = t.ask
        /\ tasks' \subseteq tasks \cup {u}
    BY <1>3, <1>4, <2>1 DEF FailShuttingDown
  <2>3. MovesOn
    BY <1>4, NothingNew DEF FailShuttingDown
  <2>4. TaskInOrder(u)'
    BY <1>1, <2>2, <2>3, TruthStays DEF TaskInOrder, SaysTheTruth
  <2> QED
    BY <1>2, <2>2, <2>3, <2>4, TaskGoesOn
<1>5. CASE Work(t)
  <2>1. PICK pc, result : /\ (pc = "working" /\ result = "none") \/ (pc = "respond" /\ result = "ok")
                          /\ tasks' = TaskAt(t, pc, result)
    <3>1. tasks' = TaskAt(t, "working", "none") \/ tasks' = TaskAt(t, "respond", "ok")
      BY <1>5 DEF Work
    <3> QED
      BY <3>1
  <2>2. PICK u : u = [t EXCEPT !.pc = pc, !.result = result]
    OBVIOUS
  <2>3. /\ pc \in {"start", "working", "register", "respond"}
        /\ result \in {"none", "ok", "error", "shutting_down"}
    BY <2>1
  <2>4. /\ u \in AgpTasks /\ u.pc = pc /\ u.result = result /\ u.ask = t.ask
        /\ tasks' \subseteq tasks \cup {u}
    <3>1. u \in AgpTasks /\ u.pc = pc /\ u.result = result /\ u.ask = t.ask
      BY <1>1, <2>2, <2>3 DEF AgpTasks
    <3> QED
      BY <2>1, <2>2, <3>1 DEF TaskAt
  <2>5. MovesOn /\ t.ask.op = "plain"
    BY <1>5, NothingNew DEF Work
  <2>6. TaskInOrder(u)'
    BY <2>1, <2>4, <2>5 DEF TaskInOrder, SaysTheTruth
  <2> QED
    BY <1>2, <2>4, <2>5, <2>6, TaskGoesOn
<1>6. CASE FetchSink(t)
  <2>1. PICK pc, result : /\ (pc = "register" /\ result = "none") \/ (pc = "respond" /\ result = "error")
                          /\ tasks' = TaskAt(t, pc, result)
    <3>1. tasks' = TaskAt(t, "register", "none") \/ tasks' = TaskAt(t, "respond", "error")
      BY <1>6 DEF FetchSink
    <3> QED
      BY <3>1
  <2>2. PICK u : u = [t EXCEPT !.pc = pc, !.result = result]
    OBVIOUS
  <2>3. /\ pc \in {"start", "working", "register", "respond"}
        /\ result \in {"none", "ok", "error", "shutting_down"}
    BY <2>1
  <2>4. /\ u \in AgpTasks /\ u.pc = pc /\ u.result = result /\ u.ask = t.ask
        /\ tasks' \subseteq tasks \cup {u}
    <3>1. u \in AgpTasks /\ u.pc = pc /\ u.result = result /\ u.ask = t.ask
      BY <1>1, <2>2, <2>3 DEF AgpTasks
    <3> QED
      BY <2>1, <2>2, <3>1 DEF TaskAt
  <2>5. MovesOn /\ t.ask.op \in {"subscribe", "inspect"}
    BY <1>6, NothingNew DEF FetchSink
  <2>6. TaskInOrder(u)'
    BY <2>1, <2>4, <2>5 DEF TaskInOrder, SaysTheTruth
  <2> QED
    BY <1>2, <2>4, <2>5, <2>6, TaskGoesOn
<1>7. CASE Register(t)
  <2>1. PICK r, id : r = RegistryOf(t) /\ id = nextId[r]
    OBVIOUS
  <2>2. PICK e : e = [reg |-> r, id |-> id, conn |-> t.conn, late |-> TooLate(t.conn, r)]
    OBVIOUS
  <2>3. /\ entries' = entries \cup {e} /\ nextId' = [nextId EXCEPT ![r] = @ + 1]
        /\ e.reg = r /\ e.id = id
        /\ tasks' = TaskAt([t EXCEPT !.ask.id = id], "respond", "ok") \ {t}
    BY <1>7, <2>1, <2>2 DEF Register
  <2>4. /\ nextId \in [Registries -> Nat] /\ "event" \in Registries /\ "inspect" \in Registries
        /\ r \in Registries /\ id \in Nat
    BY <2>1 DEF AgpInv, AgpTyped, RegistryOf, Registries
  <2>5. MovesOn
    <3>1. IsFiniteSet(entries')
      BY <2>3, FS_AddElement DEF AgpInv, AgpTyped
    <3>2. nextId' \in [Registries -> Nat] /\ nextId["event"] <= nextId'["event"]
      BY <2>3, <2>4
    <3>3. r = "event" => id = nextId["event"] /\ id < nextId'["event"]
      BY <2>1, <2>3, <2>4
    <3> QED
      BY <2>3, <3>1, <3>2, <3>3 DEF MovesOn
  <2>6. PICK u : u = [[t EXCEPT !.ask.id = id] EXCEPT !.pc = "respond", !.result = "ok"]
    OBVIOUS
  <2>7. /\ u \in AgpTasks /\ u.ask.op = t.ask.op /\ u.ask.id = id /\ u.pc = "respond" /\ u.result = "ok"
        /\ tasks' \subseteq tasks \cup {u}
    <3>1. PICK v : v = [t EXCEPT !.ask.id = id]
      OBVIOUS
    <3>2. v \in AgpTasks /\ v.ask.op = t.ask.op /\ v.ask.id = id
      BY <1>1, <2>4, <3>1 DEF AgpTasks, AgpAsks
    <3>3. u = [v EXCEPT !.pc = "respond", !.result = "ok"] /\ tasks' = TaskAt(v, "respond", "ok") \ {t}
      BY <2>3, <2>6, <3>1
    <3>4. u \in AgpTasks /\ u.ask = v.ask /\ u.pc = "respond" /\ u.result = "ok"
      BY <3>2, <3>3 DEF AgpTasks
    <3> QED
      BY <3>2, <3>3, <3>4 DEF TaskAt
  <2>8. t.ask.op \in {"subscribe", "inspect"}
    BY <1>1, <1>7 DEF Register, TaskInOrder
  <2>9. TaskInOrder(u)'
    <3>1. CASE t.ask.op = "inspect"
      BY <2>7, <3>1 DEF TaskInOrder, SaysTheTruth
    <3>2. CASE t.ask.op = "subscribe"
      <4>1. r = "event"
        BY <2>1, <3>2 DEF RegistryOf
      <4>2. GivenOut(id)'
        BY <2>1, <2>3, <2>4, <4>1 DEF GivenOut
      <4> QED
        BY <2>7, <3>2, <4>2 DEF TaskInOrder, SaysTheTruth
    <3> QED
      BY <2>8, <3>1, <3>2
  <2> QED
    BY <1>2, <2>5, <2>7, <2>9, TaskGoesOn
<1>8. CASE Unsubscribe(t)
  <2>1. PICK u : u = [t EXCEPT !.pc = "respond", !.result = "ok"]
    OBVIOUS
  <2>2. /\ u \in AgpTasks /\ u.pc = "respond" /\ u.result = "ok" /\ u.ask = t.ask
        /\ tasks' \subseteq tasks \cup {u}
    BY <1>3, <1>8, <2>1 DEF Unsubscribe
  <2>3. MovesOn /\ t.ask.op \in Cancelling /\ \A e \in entries' : e.id # t.ask.id
    BY <1>8, OnlyRemoved DEF Unsubscribe, WithoutId
  <2>4. t.ask.op = "unsubscribe" => Cancelled(t.ask.id)'
    <3>1. t.ask.op = "unsubscribe" => GivenOut(t.ask.id)'
      BY <1>1, <2>3, TruthStays DEF TaskInOrder
    <3> QED
      BY <2>3, <3>1 DEF Cancelled
  <2>5. TaskInOrder(u)'
    <3>1. t.ask.op # "subscribe" /\ (t.ask.op = "unsubscribe" => GivenOut(t.ask.id)')
      BY <2>3, <2>4 DEF Cancelling, Cancelled
    <3> QED
      BY <2>2, <2>4, <3>1 DEF TaskInOrder, SaysTheTruth
  <2> QED
    BY <1>2, <2>2, <2>3, <2>5, TaskGoesOn
<1> QED
  BY <1>4, <1>5, <1>6, <1>7, <1>8 DEF Handle

\* A frame that is no event is sent, by a task or by a stream.
LEMMA SendingKeepsQuiet ==
  ASSUME AgpInv, MovesOn, NEW c \in Connections, NEW f \in AgpFrames, FrameInOrder(f),
         f.kind # "event", UNCHANGED << wire, asked, emitted >>,
         queue' = queue \/ queue' = [queue EXCEPT ![c] = Append(@, f)],
         tasks' \subseteq tasks,
         reader' \in [Connections -> [pc : {"reading", "permit", "answering", "leaving", "inspects",
                                            "sink", "joining", "done"}, ask : AgpAsks]],
         \A d \in Connections : reader'[d].ask = reader[d].ask
  PROVE  AgpInv'
<1>1. ASSUME NEW d \in Connections PROVE ConnectionInOrder(d)' /\ queue'[d] \in Seq(AgpFrames)
  BY ListGetsOne
<1>2. AgpTyped'
  <2>1. queue' = [d \in Connections |-> queue'[d]]
    BY DEF AgpInv, AgpTyped
  <2>2. queue' \in [Connections -> Seq(AgpFrames)]
    BY <1>1, <2>1
  <2> QED
    BY <2>2 DEF AgpInv, AgpTyped, MovesOn
<1>3. \A t \in tasks' : TaskInOrder(t)'
  BY TasksStay
<1> QED
  BY <1>1, <1>2, <1>3, TruthStays, ReadersStay DEF AgpInv

\* A response goes out: the reader's own for a line it cannot decode, a task's for its request.
LEMMA ResponsesKeepQuiet ==
  ASSUME AgpInv,
         \/ \E c \in Connections : AnswerUndecodable(c)
         \/ \E t \in tasks : Respond(t)
  PROVE  AgpInv'
<1>1. ASSUME NEW c \in Connections, AnswerUndecodable(c) PROVE AgpInv'
  <2>1. PICK f : f = Response(asked[c], reader[c].ask, "error")
    OBVIOUS
  <2>2. f \in AgpFrames /\ FrameInOrder(f) /\ f.kind # "event"
    BY <2>1 DEF Response, AgpFrames, FrameInOrder, SaysTheTruth, AgpInv, AgpTyped
  <2>3. queue' = queue \/ queue' = [queue EXCEPT ![c] = Append(@, f)]
    BY <1>1, <2>1 DEF AnswerUndecodable, Sent
  <2>4. MovesOn
    BY <1>1, NothingNew DEF AnswerUndecodable
  <2>5. PICK pc \in {"reading", "leaving"} : reader' = [reader EXCEPT ![c].pc = pc]
    BY <1>1 DEF AnswerUndecodable, GoTo
  <2>6. reader \in [Connections -> [pc : {"reading", "permit", "answering", "leaving", "inspects",
                                          "sink", "joining", "done"}, ask : AgpAsks]]
    BY DEF AgpInv, AgpTyped
  <2>7. /\ reader' \in [Connections -> [pc : {"reading", "permit", "answering", "leaving", "inspects",
                                              "sink", "joining", "done"}, ask : AgpAsks]]
        /\ \A d \in Connections : reader'[d].ask = reader[d].ask
    BY <2>5, <2>6
  <2>8. UNCHANGED << wire, asked, emitted, tasks >>
    BY <1>1 DEF AnswerUndecodable
  <2> QED
    BY <2>2, <2>3, <2>4, <2>7, <2>8, SendingKeepsQuiet
<1>2. ASSUME NEW t \in tasks, Respond(t) PROVE AgpInv'
  <2>1. PICK f : f = Response(t.n, t.ask, t.result)
    OBVIOUS
  <2>2. t \in AgpTasks /\ TaskInOrder(t)
    BY DEF AgpInv, AgpTyped
  <2>3. f \in AgpFrames /\ FrameInOrder(f) /\ f.kind # "event" /\ t.conn \in Connections
    BY <2>1, <2>2 DEF Response, AgpFrames, AgpTasks, FrameInOrder, TaskInOrder
  <2>4. queue' = queue \/ queue' = [queue EXCEPT ![t.conn] = Append(@, f)]
    BY <1>2, <2>1 DEF Respond, Sent
  <2>5. MovesOn
    BY <1>2, NothingNew DEF Respond
  <2>6. /\ reader' \in [Connections -> [pc : {"reading", "permit", "answering", "leaving", "inspects",
                                              "sink", "joining", "done"}, ask : AgpAsks]]
        /\ \A d \in Connections : reader'[d].ask = reader[d].ask
    BY <1>2 DEF Respond, AgpInv, AgpTyped
  <2>7. UNCHANGED << wire, asked, emitted >> /\ tasks' \subseteq tasks
    BY <1>2 DEF Respond
  <2> QED
    BY <2>3, <2>4, <2>5, <2>6, <2>7, SendingKeepsQuiet
<1> QED
  BY <1>1, <1>2

\* The push loops send nothing but inspection frames, and remove their own entry.
LEMMA LoopsKeepQuiet ==
  ASSUME AgpInv, NEW l \in loops, LoopRuns(l) PROVE AgpInv'
<1>1. /\ UNCHANGED << reader, tasks, wire, asked, emitted >> /\ nextId' = nextId
      /\ entries' \subseteq entries
  BY DEF LoopRuns, CheckStream, PushFrame, LeaveStream
<1>2. MovesOn
  BY <1>1, OnlyRemoved
<1>3. reader \in [Connections -> [pc : {"reading", "permit", "answering", "leaving", "inspects",
                                        "sink", "joining", "done"}, ask : AgpAsks]]
      /\ queue \in [Connections -> Seq(AgpFrames)]
  BY DEF AgpInv, AgpTyped
<1>4. CASE queue' = queue
  <2>1. AgpTyped' /\ ReadersKnow'
    BY <1>1, <1>2, <1>4, ReadersStay DEF AgpInv, AgpTyped, MovesOn
  <2> QED
    BY <1>1, <1>2, <1>4, <2>1, SilentStep
<1>5. CASE queue' # queue
  <2>1. queue' = [queue EXCEPT ![l.conn] = TrySent(@, InspectFrame)]
    BY <1>5 DEF LoopRuns, CheckStream, PushFrame, LeaveStream
  <2>2. l.conn \in Connections
    BY <1>3, <1>5, <2>1
  <2>3. InspectFrame \in AgpFrames /\ FrameInOrder(InspectFrame) /\ InspectFrame.kind # "event"
    BY DEF InspectFrame, AgpFrames, FrameInOrder
  <2>4. queue' = queue \/ queue' = [queue EXCEPT ![l.conn] = Append(@, InspectFrame)]
    <3>1. CASE Len(queue[l.conn]) < QueueCap
      BY <2>1, <3>1 DEF TrySent
    <3>2. CASE ~ (Len(queue[l.conn]) < QueueCap)
      BY <1>3, <2>1, <2>2, <3>2 DEF TrySent
    <3> QED
      BY <3>1, <3>2
  <2> QED
    BY <1>1, <1>2, <1>3, <2>2, <2>3, <2>4, SendingKeepsQuiet
<1> QED
  BY <1>4, <1>5

\* What waits is written behind what was written, without the frames of inspections.
LEMMA WriterKeepsQuiet ==
  ASSUME AgpInv, NEW c \in Connections, WriterStep(c) PROVE AgpInv'
<1>1. UNCHANGED << reader, tasks, nextId, entries, asked, emitted >> /\ MovesOn
  BY NothingNew DEF WriterStep, WriteBatch, EndWriter
<1>2. CASE EndWriter(c)
  <2>1. AgpTyped' /\ ReadersKnow' /\ UNCHANGED << queue, wire >>
    BY <1>1, <1>2, ReadersStay DEF EndWriter, AgpInv, AgpTyped
  <2> QED
    BY <1>1, <2>1, SilentStep
<1>3. CASE WriteBatch(c)
  <2>1. queue \in [Connections -> Seq(AgpFrames)] /\ wire \in [Connections -> Seq(AgpFrames)]
    BY DEF AgpInv, AgpTyped
  <2>2. PICK sent, waiting, rest : sent = wire[c] /\ waiting = queue[c] /\ rest = Recorded(waiting)
    OBVIOUS
  <2>3. sent \in Seq(AgpFrames) /\ waiting \in Seq(AgpFrames)
    BY <2>1, <2>2
  <2>4. /\ FramesInOrder(sent) /\ FramesInOrder(waiting)
        /\ HushedWithin(sent) /\ HushedWithin(waiting) /\ Hushed(sent, waiting)
    BY <2>2 DEF AgpInv, ConnectionInOrder
  <2>5. /\ rest \in Seq(AgpFrames) /\ FramesInOrder(rest)
        /\ HushedWithin(rest) /\ Hushed(sent, rest)
    <3>1. PICK S : S = {i \in 1 .. Len(waiting) : waiting[i].kind /= "frame"}
      OBVIOUS
    <3>2. S \subseteq 1 .. Len(waiting) /\ rest = Sublist(waiting, S)
      BY <2>2, <3>1 DEF Recorded
    <3> QED
      BY <2>3, <2>4, <3>2, HushedSublist
  <2>6. sent \o rest \in Seq(AgpFrames) /\ FramesInOrder(sent \o rest) /\ HushedWithin(sent \o rest)
    BY <2>3, <2>4, <2>5, HushedJoin
  <2>7. PICK list, none : /\ list = sent \/ list = sent \o rest
                          /\ none = << >> /\ wire' = [wire EXCEPT ![c] = list]
                          /\ queue' = [queue EXCEPT ![c] = none]
    <3>1. CASE peer[c] = "gone"
      <4>1. wire' = [wire EXCEPT ![c] = sent]
        BY <1>3, <2>1, <2>2, <3>1 DEF WriteBatch
      <4> QED
        BY <1>3, <4>1 DEF WriteBatch
    <3>2. CASE peer[c] # "gone"
      BY <1>3, <2>2, <3>2 DEF WriteBatch
    <3> QED
      BY <3>1, <3>2
  <2>8. list \in Seq(AgpFrames) /\ FramesInOrder(list) /\ HushedWithin(list)
    BY <2>3, <2>4, <2>6, <2>7
  <2>9. none \in Seq(AgpFrames) /\ \A i \in 1 .. Len(none) : FALSE
    BY <2>7
  <2>10. wire' \in [Connections -> Seq(AgpFrames)] /\ queue' \in [Connections -> Seq(AgpFrames)]
    BY <2>1, <2>7, <2>8, <2>9
  <2>11. AgpTyped'
    BY <1>1, <2>10 DEF AgpInv, AgpTyped
  <2>12. ASSUME NEW d \in Connections PROVE ConnectionInOrder(d)'
    <3>1. CASE d # c
      <4>1. wire'[d] = wire[d] /\ queue'[d] = queue[d]
        BY <2>1, <2>7, <3>1
      <4> QED
        BY <1>1, <4>1, ListStays
    <3>2. CASE d = c
      <4>1. wire'[d] = list /\ queue'[d] = none
        BY <2>1, <2>7, <3>2
      <4>2. \A i \in 1 .. Len(list) : FrameInOrder(list[i])'
        BY <1>1, <2>8, TruthStays DEF FramesInOrder, FrameInOrder
      <4>3. FramesInOrder(wire[d])'
        BY <4>1, <4>2 DEF FramesInOrder, FrameInOrder
      <4>4. HushedWithin(wire[d])'
        BY <2>8, <4>1 DEF HushedWithin, Cancels, Ask
      <4>5. FramesInOrder(queue[d])' /\ HushedWithin(queue[d])' /\ Hushed(wire[d], queue[d])'
        BY <2>9, <4>1 DEF FramesInOrder, HushedWithin, Hushed
      <4> QED
        BY <4>3, <4>4, <4>5 DEF ConnectionInOrder
    <3> QED
      BY <3>1, <3>2
  <2>13. \A t \in tasks' : TaskInOrder(t)'
    BY <1>1, TasksStay
  <2>14. EntriesAreGivenOut' /\ ReadersKnow'
    BY <1>1, TruthStays, ReadersStay
  <2> QED
    BY <2>11, <2>12, <2>13, <2>14 DEF AgpInv
<1> QED
  BY <1>2, <1>3 DEF WriterStep

\* The numbers a fan-out tries for a connection are those of its registered subscriptions.
LEMMA DeliveredAreRegistered ==
  ASSUME AgpInv, NEW c \in Connections, NEW seq \in Nat
  PROVE  \E more \in Seq(AgpFrames) :
           /\ Delivered(c, seq) = queue[c] \o more
           /\ \A k \in 1 .. Len(more) : /\ more[k].kind = "event"
                                        /\ \E e \in entries : e.reg = "event" /\ e.id = more[k].id
<1>1. PICK mine : mine = {x \in entries : x.reg = "event" /\ x.conn = c}
  OBVIOUS
<1>2. PICK ids : ids = {e.id : e \in mine}
  OBVIOUS
<1>3. PICK fits : fits = {id \in ids : Cardinality({x \in ids : x < id}) + Len(queue[c]) < QueueCap}
  OBVIOUS
<1>4. IsFiniteSet(ids) /\ ids \subseteq Nat
  <2>1. mine \in SUBSET entries /\ IsFiniteSet(entries)
    BY <1>1 DEF AgpInv, AgpTyped
  <2>2. IsFiniteSet(mine)
    BY <2>1, FS_Subset
  <2>3. PICK f : f = [e \in mine |-> e.id]
    OBVIOUS
  <2>4. f \in Surjection(mine, ids)
    BY <1>2, <2>3 DEF Surjection
  <2> QED
    BY <1>1, <1>2, <2>2, <2>4, FS_Surjection DEF AgpInv, EntriesAreGivenOut, GivenOut
<1>5. IsFiniteSet(fits) /\ fits \subseteq Nat /\ fits \subseteq ids
  <2>1. fits \in SUBSET ids
    BY <1>3
  <2> QED
    BY <1>4, <2>1, FS_Subset
<1>6. PICK n \in Nat : n = Cardinality(fits)
  BY <1>5, FS_CardinalityType
<1>7. ASSUME NEW k \in 1 .. n PROVE Ascending(fits)[k] \in fits
  <2>1. \E i \in fits : Cardinality({j \in fits : j < i}) = k - 1
    BY <1>5, <1>6, RanksAreTaken
  <2>2. Ascending(fits)[k] = CHOOSE i \in fits : Cardinality({j \in fits : j < i}) = k - 1
    BY <1>6 DEF Ascending
  <2> QED
    BY <2>1, <2>2
<1>8. PICK more : more = [k \in 1 .. n |-> EventFrame(Ascending(fits)[k], seq)]
  OBVIOUS
<1>9. ASSUME NEW k \in 1 .. n
      PROVE  /\ more[k] \in AgpFrames /\ more[k].kind = "event"
             /\ \E e \in entries : e.reg = "event" /\ e.id = more[k].id
  <2>1. PICK id \in fits : more[k] = EventFrame(id, seq)
    BY <1>7, <1>8
  <2>2. more[k].kind = "event" /\ more[k].id \in fits
    BY <2>1 DEF EventFrame
  <2>3. more[k] \in [kind : {"event"}, id : Nat, seq : Nat]
    <3>1. id \in Nat
      BY <1>5
    <3> QED
      BY <2>1, <3>1 DEF EventFrame
  <2>4. \E e \in entries : e.reg = "event" /\ e.id = more[k].id
    BY <1>1, <1>2, <1>5, <2>2
  <2> QED
    BY <2>2, <2>3, <2>4 DEF AgpFrames
<1>10. more \in Seq(AgpFrames) /\ Len(more) = n
  <2>1. more = [k \in 1 .. n |-> more[k]]
    BY <1>8
  <2> QED
    BY <1>9, <2>1
<1>11. Delivered(c, seq) = queue[c] \o more
  BY <1>1, <1>2, <1>3, <1>6, <1>8 DEF Delivered
<1> QED
  BY <1>9, <1>10, <1>11

\* A fan-out sends events of registered subscriptions only, and none of those was cancelled.
LEMMA FanOutKeepsQuiet == ASSUME AgpInv, FanOut PROVE AgpInv'
<1>1. /\ UNCHANGED << reader, tasks, wire, nextId, asked >> /\ emitted' = emitted + 1
      /\ queue' = [c \in Connections |-> IF writer[c] THEN Delivered(c, emitted + 1) ELSE queue[c]]
      /\ entries' \subseteq entries
  BY DEF FanOut
<1>2. MovesOn
  BY <1>1, OnlyRemoved
<1>3. emitted + 1 \in Nat
  BY DEF AgpInv, AgpTyped
<1>4. ASSUME NEW c \in Connections PROVE ConnectionInOrder(c)' /\ queue'[c] \in Seq(AgpFrames)
  <2>1. CASE ~ writer[c]
    <3>1. queue'[c] = queue[c] /\ wire'[c] = wire[c]
      BY <1>1, <2>1
    <3> QED
      BY <1>2, <3>1, ListStays DEF AgpInv, AgpTyped
  <2>2. CASE writer[c]
    <3>1. PICK more \in Seq(AgpFrames) :
            /\ Delivered(c, emitted + 1) = queue[c] \o more
            /\ \A k \in 1 .. Len(more) : /\ more[k].kind = "event"
                                         /\ \E e \in entries : e.reg = "event" /\ e.id = more[k].id
      BY <1>3, DeliveredAreRegistered
    <3>2. queue'[c] = queue[c] \o more /\ wire'[c] = wire[c]
      BY <1>1, <2>2, <3>1
    <3>3. FramesInOrder(more) /\ HushedWithin(more)
      BY <3>1 DEF FramesInOrder, FrameInOrder, HushedWithin, Cancels
    <3>4. ASSUME NEW list, FramesInOrder(list) PROVE Hushed(list, more)
      <4> SUFFICES ASSUME NEW i \in 1 .. Len(list), NEW j \in 1 .. Len(more), Cancels(list[i], more[j].id)
                   PROVE  FALSE
        BY DEF Hushed
      <4>1. SaysTheTruth(list[i].ask, list[i].result) /\ list[i].result = "ok"
        BY <3>4 DEF FramesInOrder, FrameInOrder, Cancels
      <4>2. list[i].ask.op = "unsubscribe" /\ list[i].ask.id = more[j].id
        BY DEF Cancels, Ask
      <4>3. Cancelled(more[j].id)
        BY <4>1, <4>2 DEF SaysTheTruth
      <4> QED
        BY <3>1, <4>3 DEF Cancelled
    <3>5. Hushed(queue[c], more) /\ Hushed(wire[c], more)
      BY <3>4 DEF AgpInv, ConnectionInOrder
    <3> QED
      BY <1>2, <3>2, <3>3, <3>5, ListGrows
  <2> QED
    BY <2>1, <2>2
<1>5. AgpTyped'
  <2>1. queue' = [d \in Connections |-> queue'[d]]
    BY <1>1
  <2>2. queue' \in [Connections -> Seq(AgpFrames)]
    BY <1>4, <2>1
  <2> QED
    BY <1>1, <1>2, <1>3, <2>2 DEF AgpInv, AgpTyped, MovesOn
<1>6. \A t \in tasks' : TaskInOrder(t)'
  BY <1>1, <1>2, TasksStay
<1>7. EntriesAreGivenOut' /\ ReadersKnow'
  BY <1>1, <1>2, TruthStays, ReadersStay
<1> QED
  BY <1>4, <1>5, <1>6, <1>7 DEF AgpInv

\* The steps that change nothing of what peers are told.
LEMMA SurroundingsKeepQuiet ==
  ASSUME AgpInv,
         \/ PruneClosed \/ Shutdown \/ Exit \/ UNCHANGED agpVars
         \/ \E c \in Connections : PeerCloses(c)
  PROVE  AgpInv'
<1>1. /\ UNCHANGED << reader, tasks, queue, wire, nextId, asked, emitted >>
      /\ entries' \subseteq entries
  BY DEF PruneClosed, Shutdown, Exit, PeerCloses, agpVars
<1>2. MovesOn
  BY <1>1, OnlyRemoved
<1>3. AgpTyped' /\ ReadersKnow'
  BY <1>1, <1>2, ReadersStay DEF AgpInv, AgpTyped, MovesOn
<1> QED
  BY <1>1, <1>2, <1>3, SilentStep

LEMMA AgpKept == ASSUME AsksAreKnown, AgpInv, [AgpNext]_agpVars PROVE AgpInv'
<1>1. ASSUME NEW c \in Connections,
             ReadRequest(c) \/ ReaderStep(c) \/ LeaveLoop(c) \/ WriterStep(c) \/ PeerCloses(c)
      PROVE  AgpInv'
  BY <1>1, ReaderKeepsQuiet, ResponsesKeepQuiet, WriterKeepsQuiet, SurroundingsKeepQuiet DEF ReaderStep
<1>2. ASSUME NEW t \in tasks, Handle(t) \/ Respond(t) PROVE AgpInv'
  BY <1>2, HandlerKeepsQuiet, ResponsesKeepQuiet
<1>3. ASSUME NEW l \in loops, LoopRuns(l) PROVE AgpInv'
  BY <1>3, LoopsKeepQuiet
<1>4. ASSUME FanOut \/ PruneClosed \/ Shutdown \/ Exit \/ UNCHANGED agpVars PROVE AgpInv'
  BY <1>4, FanOutKeepsQuiet, SurroundingsKeepQuiet
<1> QED
  BY <1>1, <1>2, <1>3, <1>4 DEF AgpNext

LEMMA QuietFollows == AgpInv => QuietAfterUnsubscribe
<1> SUFFICES ASSUME AgpInv, NEW c \in Connections, NEW i \in DOMAIN Stream(c), NEW j \in DOMAIN Stream(c),
                    i < j, Stream(c)[j].kind = "event"
             PROVE  ~ IsAnswer(c, i, "unsubscribe", Stream(c)[j].id)
  BY DEF QuietAfterUnsubscribe
<1>1. PICK sent, waiting, all : sent = wire[c] /\ waiting = queue[c] /\ all = sent \o waiting
  OBVIOUS
<1>2. all \in Seq(AgpFrames) /\ HushedWithin(all)
  <2>1. sent \in Seq(AgpFrames) /\ waiting \in Seq(AgpFrames)
    BY <1>1 DEF AgpInv, AgpTyped
  <2>2. HushedWithin(sent) /\ HushedWithin(waiting) /\ Hushed(sent, waiting)
    BY <1>1 DEF AgpInv, ConnectionInOrder
  <2> QED
    BY <1>1, <2>1, <2>2, HushedJoin
<1>3. all = Stream(c) /\ i \in 1 .. Len(all) /\ j \in 1 .. Len(all)
  <2>1. all = Stream(c)
    BY <1>1 DEF Stream
  <2>2. i \in DOMAIN all /\ j \in DOMAIN all
    BY <2>1
  <2> QED
    BY <1>2, <2>1, <2>2
<1>4. ~ Cancels(all[i], all[j].id)
  BY <1>2, <1>3 DEF HushedWithin
<1> QED
  BY <1>3, <1>4 DEF Cancels, IsAnswer

(***************************************************************************)
(* Once a connection was told that its event subscription is cancelled, no *)
(* event of it follows, whatever it asks, however many of its requests are *)
(* answered at once and however its queue is written (QuietAfterUnsub-     *)
(* scribe; subscriptions.rs, the one lock of fan-out and cancellation).    *)
(***************************************************************************)
THEOREM CancelledSubscriptionsAreQuiet ==
  ASSUME AsksAreKnown PROVE AgpSpec => []QuietAfterUnsubscribe
<1>1. AgpInit => AgpInv
  BY AgpStarts
<1>2. AgpInv /\ [AgpNext]_agpVars => AgpInv'
  BY AgpKept
<1> QED
  BY <1>1, <1>2, QuietFollows, PTL DEF AgpSpec

-----------------------------------------------------------------------------
(* The client's connection: the events of a stream are accounted for.      *)

\* An event channel holds at least one event.
StreamsHoldEvents == StreamCap \in Nat \ {0}

EventStreams ==
  [state : {"none", "live", "ending", "closed", "dropped"}, buffer : Seq({"event"}), skipped : Nat,
   polling : BOOLEAN, offered : Nat, got : Nat, lagged : Nat]

(***************************************************************************)
(* What was offered is delivered, counted, or waits.  A poll that took the *)
(* count and has not polled the queue yet may find the count set again, but*)
(* only by an event that found the queue full, and nobody else empties it: *)
(* so it does not end the stream over a count it has not seen.             *)
(***************************************************************************)
StreamInOrder(s) ==
  /\ s \in EventStreams
  /\ s.offered = s.got + s.lagged + s.skipped + Len(s.buffer)
  /\ s.polling /\ s.skipped > 0 => Len(s.buffer) > 0
  /\ s.state = "closed" => s.skipped = 0 /\ Len(s.buffer) = 0

StreamInv == StreamInOrder(stream)

LEMMA NoStreamInOrder ==
  ASSUME NEW state \in {"none", "dropped", "live", "ending"}
  PROVE  StreamInOrder([NoStream EXCEPT !.state = state]) /\ StreamInOrder(NoStream)
<1>1. PICK none : none = << >>
  OBVIOUS
<1>2. none \in Seq({"event"}) /\ Len(none) = 0
  BY <1>1
<1>3. NoStream = [state |-> "none", buffer |-> none, skipped |-> 0, polling |-> FALSE,
                  offered |-> 0, got |-> 0, lagged |-> 0]
  BY <1>1 DEF NoStream
<1>4. NoStream \in EventStreams
  BY <1>2, <1>3 DEF EventStreams
<1>5. StreamInOrder(NoStream)
  BY <1>2, <1>3, <1>4 DEF StreamInOrder
<1>6. PICK s : s = [NoStream EXCEPT !.state = state]
  OBVIOUS
<1>7. /\ s \in EventStreams /\ s.state = state /\ s.buffer = none /\ s.polling = FALSE
      /\ s.skipped = 0 /\ s.offered = 0 /\ s.got = 0 /\ s.lagged = 0
  BY <1>3, <1>4, <1>6 DEF EventStreams
<1>8. StreamInOrder(s)
  BY <1>2, <1>7 DEF StreamInOrder
<1> QED
  BY <1>5, <1>6, <1>8

LEMMA StreamStarts == TransportInit => StreamInv
BY NoStreamInOrder DEF TransportInit, StreamInv

\* An event is decoded for the stream.
LEMMA OfferedInOrder ==
  ASSUME StreamsHoldEvents, StreamInv, stream.state = "live" PROVE StreamInOrder(Offered(stream))
<1>1. PICK s : s = stream
  OBVIOUS
<1>2. StreamInOrder(s) /\ s.state = "live"
  BY <1>1 DEF StreamInv
<1>3. PICK buffer, n : buffer = s.buffer /\ n = Len(buffer)
  OBVIOUS
<1>4. buffer \in Seq({"event"}) /\ n \in Nat /\ StreamCap \in Nat \ {0}
  BY <1>2, <1>3 DEF StreamInOrder, EventStreams, StreamsHoldEvents
<1>7. /\ s \in EventStreams /\ s.skipped \in Nat /\ s.offered \in Nat /\ s.got \in Nat
      /\ s.lagged \in Nat
  BY <1>2 DEF StreamInOrder, EventStreams
<1>8. /\ s.offered = s.got + s.lagged + s.skipped + n
      /\ s.polling /\ s.skipped > 0 => n > 0
  BY <1>2, <1>3 DEF StreamInOrder
<1>9. PICK offered \in Nat, skipped \in Nat : offered = s.offered + 1 /\ skipped = s.skipped + 1
  BY <1>7
<1>5. CASE n < StreamCap
  <2>1. PICK longer : longer = Append(buffer, "event")
    OBVIOUS
  <2>2. longer \in Seq({"event"}) /\ Len(longer) = n + 1
    BY <1>3, <1>4, <2>1
  <2>3. Offered(s) = [s EXCEPT !.offered = offered, !.buffer = longer]
    BY <1>3, <1>5, <1>9, <2>1 DEF Offered
  <2>4. PICK u : u = [s EXCEPT !.offered = offered, !.buffer = longer]
    OBVIOUS
  <2>5. /\ u \in EventStreams /\ u.state = "live" /\ u.buffer = longer /\ u.polling = s.polling
        /\ u.skipped = s.skipped /\ u.offered = offered /\ u.got = s.got /\ u.lagged = s.lagged
    BY <1>2, <1>7, <2>2, <2>4 DEF EventStreams
  <2>6. StreamInOrder(u)
    <3>1. Len(u.buffer) = n + 1
      BY <2>2, <2>5
    <3>2. u.offered = u.got + u.lagged + u.skipped + (n + 1)
      <4>1. u.offered = s.offered + 1
        BY <1>9, <2>5
      <4>2. u.got + u.lagged + u.skipped = s.got + s.lagged + s.skipped
        BY <2>5
      <4>3. s.got + s.lagged + s.skipped \in Nat
        BY <1>7
      <4> QED
        BY <1>4, <1>8, <4>1, <4>2, <4>3
    <3>3. Len(u.buffer) > 0
      BY <1>4, <3>1
    <3>4. u.offered = u.got + u.lagged + u.skipped + Len(u.buffer)
      BY <3>1, <3>2
    <3>5. u \in EventStreams /\ u.state # "closed"
      BY <2>5
    <3> QED
      BY <3>3, <3>4, <3>5 DEF StreamInOrder
  <2> QED
    BY <1>1, <2>3, <2>4, <2>6
<1>6. CASE ~ (n < StreamCap)
  <2>1. Offered(s) = [s EXCEPT !.offered = offered, !.skipped = skipped]
    BY <1>3, <1>6, <1>9 DEF Offered
  <2>2. n > 0
    BY <1>4, <1>6
  <2>4. PICK u : u = [s EXCEPT !.offered = offered, !.skipped = skipped]
    OBVIOUS
  <2>5. /\ u \in EventStreams /\ u.state = "live" /\ u.buffer = buffer /\ u.polling = s.polling
        /\ u.skipped = skipped /\ u.offered = offered /\ u.got = s.got /\ u.lagged = s.lagged
    BY <1>2, <1>3, <1>7, <2>4 DEF EventStreams
  <2>6. StreamInOrder(u)
    <3>1. Len(u.buffer) = n
      BY <1>3, <2>5
    <3>2. u.offered = u.got + u.lagged + u.skipped + n
      <4>1. PICK g \in Nat, l \in Nat, k \in Nat : g = s.got /\ l = s.lagged /\ k = s.skipped
        BY <1>7
      <4>2. offered = g + l + k + n + 1 /\ skipped = k + 1
        BY <1>4, <1>8, <1>9, <4>1
      <4>3. offered = g + l + skipped + n
        BY <1>4, <4>2
      <4> QED
        BY <2>5, <4>1, <4>3
    <3>3. Len(u.buffer) > 0
      BY <2>2, <3>1
    <3>4. u.offered = u.got + u.lagged + u.skipped + Len(u.buffer)
      BY <3>1, <3>2
    <3>5. u \in EventStreams /\ u.state # "closed"
      BY <2>5
    <3> QED
      BY <3>3, <3>4, <3>5 DEF StreamInOrder
  <2> QED
    BY <1>1, <2>1, <2>4, <2>6
<1> QED
  BY <1>5, <1>6

\* Its owner polls it, or drops it.
LEMMA PollsInOrder ==
  ASSUME StreamInv, PollSkipped \/ PollQueue \/ DropStream PROVE StreamInv'
<1>1. PICK s : s = stream
  OBVIOUS
<1>2. StreamInOrder(s)
  BY <1>1 DEF StreamInv
<1>3. PICK buffer, n : buffer = s.buffer /\ n = Len(buffer)
  OBVIOUS
<1>4. buffer \in Seq({"event"}) /\ n \in Nat
  BY <1>2, <1>3 DEF StreamInOrder, EventStreams
<1>8. /\ s \in EventStreams /\ s.skipped \in Nat /\ s.offered \in Nat /\ s.got \in Nat
      /\ s.lagged \in Nat /\ s.polling \in BOOLEAN
  BY <1>2 DEF StreamInOrder, EventStreams
<1>9. s.offered = s.got + s.lagged + s.skipped + n
  BY <1>2, <1>3 DEF StreamInOrder
<1>5. CASE PollSkipped
  <2>1. CASE s.skipped > 0
    <3>0. PICK lagged \in Nat : lagged = s.lagged + s.skipped
      BY <1>8
    <3>1. stream' = [s EXCEPT !.lagged = lagged, !.skipped = 0]
      BY <1>1, <1>5, <2>1, <3>0 DEF PollSkipped
    <3>2. s.state # "closed" /\ ~ s.polling
      BY <1>1, <1>5 DEF PollSkipped
    <3>3. PICK u : u = stream'
      OBVIOUS
    <3>4. /\ u \in EventStreams /\ u.state = s.state /\ u.buffer = buffer /\ u.polling = s.polling
          /\ u.skipped = 0 /\ u.offered = s.offered /\ u.got = s.got /\ u.lagged = lagged
      BY <1>3, <1>8, <3>1, <3>3 DEF EventStreams
    <3>5. StreamInOrder(u)
      BY <1>3, <1>4, <1>8, <1>9, <3>0, <3>2, <3>4 DEF StreamInOrder
    <3> QED
      BY <3>3, <3>5 DEF StreamInv
  <2>2. CASE ~ (s.skipped > 0)
    <3>1. stream' = [s EXCEPT !.polling = TRUE]
      BY <1>1, <1>5, <2>2 DEF PollSkipped
    <3>3. PICK u : u = stream'
      OBVIOUS
    <3>4. /\ u \in EventStreams /\ u.state = s.state /\ u.buffer = buffer /\ u.skipped = s.skipped
          /\ u.offered = s.offered /\ u.got = s.got /\ u.lagged = s.lagged
      BY <1>3, <1>8, <3>1, <3>3 DEF EventStreams
    <3>5. StreamInOrder(u)
      BY <1>2, <1>3, <1>4, <1>8, <2>2, <3>4 DEF StreamInOrder
    <3> QED
      BY <3>3, <3>5 DEF StreamInv
  <2> QED
    BY <2>1, <2>2
<1>6. CASE PollQueue
  <2>1. CASE buffer = << >>
    <3>1. n = 0
      BY <1>3, <2>1
    <3>2. PICK state : state = IF s.state = "ending" THEN "closed" ELSE s.state
      OBVIOUS
    <3>3. stream' = [s EXCEPT !.polling = FALSE, !.state = state]
      <4>1. stream' = [s EXCEPT !.polling = FALSE, !.buffer = s.buffer, !.got = s.got, !.state = state]
        BY <1>1, <1>3, <1>6, <2>1, <3>2 DEF PollQueue
      <4> QED
        BY <1>8, <4>1 DEF EventStreams
    <3>4. s.skipped = 0
      <4>1. s.polling
        BY <1>1, <1>6 DEF PollQueue
      <4> QED
        BY <1>2, <1>3, <1>8, <3>1, <4>1 DEF StreamInOrder
    <3>5. state \in {"none", "live", "ending", "closed", "dropped"}
      BY <1>2, <3>2 DEF StreamInOrder, EventStreams
    <3>6. PICK u : u = stream'
      OBVIOUS
    <3>7. /\ u \in EventStreams /\ u.buffer = buffer /\ u.skipped = s.skipped
          /\ u.offered = s.offered /\ u.got = s.got /\ u.lagged = s.lagged
      BY <1>3, <1>8, <3>3, <3>5, <3>6 DEF EventStreams
    <3>8. StreamInOrder(u)
      BY <1>2, <1>3, <1>4, <1>8, <3>1, <3>4, <3>7 DEF StreamInOrder
    <3> QED
      BY <3>6, <3>8 DEF StreamInv
  <2>2. CASE buffer # << >>
    <3>1. PICK rest : rest = Tail(buffer)
      OBVIOUS
    <3>2. rest \in Seq({"event"}) /\ Len(rest) = n - 1
      BY <1>3, <1>4, <2>2, <3>1
    <3>5. PICK got \in Nat : got = s.got + 1
      BY <1>8
    <3>3. stream' = [s EXCEPT !.polling = FALSE, !.buffer = rest, !.got = got]
      <4>1. stream' = [s EXCEPT !.polling = FALSE, !.buffer = rest, !.got = got, !.state = s.state]
        BY <1>1, <1>3, <1>6, <2>2, <3>1, <3>5 DEF PollQueue
      <4> QED
        BY <1>8, <4>1 DEF EventStreams
    <3>4. s.state # "closed" /\ n # 0
      BY <1>2, <1>3, <1>4, <2>2 DEF StreamInOrder
    <3>6. PICK u : u = stream'
      OBVIOUS
    <3>7. /\ u \in EventStreams /\ u.state = s.state /\ u.buffer = rest /\ u.polling = FALSE
          /\ u.skipped = s.skipped /\ u.offered = s.offered /\ u.got = got /\ u.lagged = s.lagged
      BY <1>8, <3>2, <3>3, <3>6 DEF EventStreams
    <3>8. StreamInOrder(u)
      <4>1. Len(u.buffer) = n - 1
        BY <3>2, <3>7
      <4>2. u.offered = u.got + u.lagged + u.skipped + (n - 1)
        <5>1. PICK g \in Nat, l \in Nat, k \in Nat : g = s.got /\ l = s.lagged /\ k = s.skipped
          BY <1>8
        <5>2. s.offered = g + l + k + n /\ got = g + 1
          BY <1>9, <3>5, <5>1
        <5>3. s.offered = got + l + k + (n - 1)
          BY <1>4, <5>2
        <5> QED
          BY <3>7, <5>1, <5>3
      <4>3. u.offered = u.got + u.lagged + u.skipped + Len(u.buffer)
        BY <4>1, <4>2
      <4>4. u \in EventStreams /\ ~ u.polling /\ u.state # "closed"
        BY <3>4, <3>7
      <4> QED
        BY <4>3, <4>4 DEF StreamInOrder
    <3> QED
      BY <3>6, <3>8 DEF StreamInv
  <2> QED
    BY <2>1, <2>2
<1>7. CASE DropStream
  BY <1>7, NoStreamInOrder DEF DropStream, StreamInv
<1> QED
  BY <1>5, <1>6, <1>7

\* The stream is opened, and ends with the connection.
LEMMA StateInOrder ==
  ASSUME StreamInv, stream.state # "closed", NEW state \in {"none", "live", "ending", "dropped"}
  PROVE  StreamInOrder([stream EXCEPT !.state = state])
BY DEF StreamInv, StreamInOrder, EventStreams

LEMMA StreamKept ==
  ASSUME StreamsHoldEvents, StreamInv, [TransportNext]_transportVars PROVE StreamInv'
<1>1. ASSUME UNCHANGED stream PROVE StreamInv'
  BY <1>1 DEF StreamInv
<1>2. ASSUME NEW t \in Tasks, CallStep(t) \/ CallMove(t) PROVE StreamInv'
  <2>1. CASE OpenStream(t)
    <3>1. CASE stream.state = "none"
      BY <1>1, <2>1, <3>1, StateInOrder DEF OpenStream, StreamInv
    <3>2. CASE stream.state # "none"
      BY <1>1, <2>1, <3>2 DEF OpenStream
    <3> QED
      BY <3>1, <3>2
  <2>2. CASE ~ OpenStream(t)
    BY <1>1, <1>2, <2>2 DEF CallStep, CallMove, BeginCall, Abandon, RegisterCall, Enqueue, Unregister,
                            LookAgain, Receive
  <2> QED
    BY <2>1, <2>2
<1>3. ASSUME StreamStep PROVE StreamInv'
  BY <1>3, PollsInOrder DEF StreamStep
<1>4. ASSUME IoStep PROVE StreamInv'
  <2>1. CASE ReadFrame
    <3>1. UNCHANGED stream \/ (stream.state = "live" /\ stream' = Offered(stream))
      BY <2>1 DEF ReadFrame
    <3> QED
      BY <1>1, <3>1, OfferedInOrder DEF StreamInv
  <2>2. CASE ~ ReadFrame
    BY <1>1, <1>4, <2>2 DEF IoStep, WriteLine, WriterEnds, ReaderLeaves
  <2> QED
    BY <2>1, <2>2
<1>5. ASSUME UserCloses \/ ServerMoves PROVE StreamInv'
  BY <1>1, <1>5 DEF UserCloses, TakeSender, ServerMoves
<1>6. ASSUME NEW k \in Closers, CloseStep(k) PROVE StreamInv'
  <2>1. CASE CloseFanout(k)
    <3>1. UNCHANGED stream \/ (stream.state = "live" /\ stream' = [stream EXCEPT !.state = "ending"])
      BY <2>1 DEF CloseFanout
    <3> QED
      BY <1>1, <3>1, StateInOrder DEF StreamInv
  <2>2. CASE ~ CloseFanout(k)
    BY <1>1, <1>6, <2>2 DEF CloseStep, SetClosed, DrainPending, SignalReader, JoinTasks
  <2> QED
    BY <2>1, <2>2
<1>7. ASSUME UNCHANGED transportVars PROVE StreamInv'
  BY <1>1, <1>7 DEF transportVars
<1> QED
  BY <1>2, <1>3, <1>4, <1>5, <1>6, <1>7 DEF TransportNext

(***************************************************************************)
(* A stream that says it is closed has handed over or counted every event  *)
(* that was decoded for it, whoever closed the connection and whenever     *)
(* (StreamAccountsForEveryEvent; transport.rs, poll_event and offer).      *)
(***************************************************************************)
THEOREM StreamsLoseNothingUncounted ==
  ASSUME StreamsHoldEvents PROVE TransportSpec => []StreamAccountsForEveryEvent
<1>1. StreamInv /\ [TransportNext]_transportVars => StreamInv'
  BY StreamKept
<1>2. StreamInv => StreamAccountsForEveryEvent
  BY DEF StreamInv, StreamInOrder, EventStreams, StreamAccountsForEveryEvent
<1> QED
  BY <1>1, <1>2, StreamStarts, PTL DEF TransportSpec

-----------------------------------------------------------------------------
(* Launches: attribution follows the evidence each attributor still has.   *)

\* The launches are numbered from 1, a window is of one of them or of none, and the ledger of
\* the compositor holds at least one.
LaunchesAreKnown ==
  /\ (\E n \in Nat : Launches = 1 .. n) /\ NoLaunch \notin Launches
  /\ StartedBy \in [Windows -> Launches \cup {NoLaunch}]
  /\ LedgerCap \in Nat \ {0}

LaunchEntry(l, f) == [launch |-> l, app |-> AppOf[l], pid |-> l, fresh |-> f]
LaunchEntries == {LaunchEntry(l, f) : l \in Launches, f \in BOOLEAN}

\* A ledger holds entries of launches, one per launch; some of them have timed out.
Holds(s, l)      == \E i \in 1 .. Len(s) : s[i].launch = l
HoldsFresh(s, l) == \E i \in 1 .. Len(s) : s[i].launch = l /\ s[i].fresh = TRUE
HoldsStale(s, l) == \E i \in 1 .. Len(s) : s[i].launch = l /\ s[i].fresh = FALSE
LedgerOfLaunches(s) ==
  s \in Seq(LaunchEntries) /\ \A i, j \in 1 .. Len(s) : s[i].launch = s[j].launch => i = j

LEMMA LedgerFields ==
  ASSUME NEW s, LedgerOfLaunches(s), NEW i \in 1 .. Len(s)
  PROVE  /\ s[i].launch \in Launches /\ s[i].pid = s[i].launch /\ s[i].app = AppOf[s[i].launch]
         /\ s[i].fresh \in BOOLEAN /\ s[i] = LaunchEntry(s[i].launch, s[i].fresh)
<1>1. s[i] \in LaunchEntries
  BY DEF LedgerOfLaunches
<1>2. PICK l \in Launches, f \in BOOLEAN : s[i] = LaunchEntry(l, f)
  BY <1>1 DEF LaunchEntries
<1>3. PICK e : e = s[i]
  OBVIOUS
<1>4. e = LaunchEntry(l, f) /\ e = [launch |-> l, app |-> AppOf[l], pid |-> l, fresh |-> f]
  BY <1>2, <1>3 DEF LaunchEntry
<1>5. e.launch = l /\ e.pid = l /\ e.app = AppOf[l] /\ e.fresh = f
  BY <1>4
<1>6. e.launch \in Launches /\ e.pid = e.launch /\ e.app = AppOf[e.launch] /\ e.fresh \in BOOLEAN
      /\ e = LaunchEntry(e.launch, e.fresh)
  BY <1>4, <1>5
<1> QED
  BY <1>3, <1>6

LEMMA EntriesAreEntries ==
  ASSUME NEW l \in Launches, NEW f \in BOOLEAN, NEW e, e = LaunchEntry(l, f)
  PROVE  e \in LaunchEntries /\ e.launch = l /\ e.fresh = f
<1>1. \E m \in Launches, g \in BOOLEAN : e = LaunchEntry(m, g)
  OBVIOUS
<1>2. e \in LaunchEntries
  BY <1>1 DEF LaunchEntries
<1>3. e = [launch |-> l, app |-> AppOf[l], pid |-> l, fresh |-> f]
  BY DEF LaunchEntry
<1>4. e.launch = l /\ e.fresh = f
  BY <1>3
<1> QED
  BY <1>2, <1>4

\* Every entry is fresh or stale, and a launch has one entry.
LEMMA FreshOrStale ==
  ASSUME NEW s, LedgerOfLaunches(s), NEW l
  PROVE  /\ Holds(s, l) <=> HoldsFresh(s, l) \/ HoldsStale(s, l)
         /\ ~ (HoldsFresh(s, l) /\ HoldsStale(s, l))
<1>1. \A i \in 1 .. Len(s) : s[i].fresh = TRUE \/ s[i].fresh = FALSE
  BY LedgerFields
<1>2. Holds(s, l) <=> HoldsFresh(s, l) \/ HoldsStale(s, l)
  BY <1>1 DEF Holds, HoldsFresh, HoldsStale
<1>3. ~ (HoldsFresh(s, l) /\ HoldsStale(s, l))
  BY DEF HoldsFresh, HoldsStale, LedgerOfLaunches
<1> QED
  BY <1>2, <1>3

\* What is left of a ledger when the entries outside S are dropped.
Left(t, s, S) ==
  /\ LedgerOfLaunches(t) /\ Len(t) <= Len(s)
  /\ \A l : HoldsFresh(t, l) <=> \E i \in S : s[i].launch = l /\ s[i].fresh = TRUE
  /\ \A l : HoldsStale(t, l) <=> \E i \in S : s[i].launch = l /\ s[i].fresh = FALSE

LEMMA LedgerSublist ==
  ASSUME NEW s, LedgerOfLaunches(s), NEW S, S \subseteq 1 .. Len(s)
  PROVE  Left(Ledger!Sublist(s, S), s, S)
<1>1. PICK t : t = Ledger!Sublist(s, S)
  OBVIOUS
<1>2. t = Sublist(s, S)
  <2>1. Ledger!Sublist(s, S) = Sublist(s, S)
    BY DEF Ledger!Sublist, Sublist, Ledger!Cardinality, Cardinality
  <2> QED
    BY <1>1, <2>1
<1>3. s \in Seq(LaunchEntries)
  BY DEF LedgerOfLaunches
<1>4. t \in Seq(LaunchEntries) /\ Len(t) <= Len(s) /\ Retains(t, s, S)
  BY <1>2, <1>3, SublistProperties
<1>5. PICK at \in [1 .. Len(t) -> S] : /\ \A k \in 1 .. Len(t) : t[k] = s[at[k]]
                                       /\ \A k, l \in 1 .. Len(t) : at[k] = at[l] => k = l
                                       /\ \A i \in S : \E k \in 1 .. Len(t) : at[k] = i
  BY <1>4 DEF Retains
<1>6. \A k \in 1 .. Len(t) : at[k] \in S /\ at[k] \in 1 .. Len(s)
  BY <1>5
<1>7. \A k, l \in 1 .. Len(t) : t[k].launch = t[l].launch => k = l
  BY <1>5, <1>6 DEF LedgerOfLaunches
<1>8. LedgerOfLaunches(t)
  BY <1>4, <1>7 DEF LedgerOfLaunches
<1>9. \A l : HoldsFresh(t, l) <=> \E i \in S : s[i].launch = l /\ s[i].fresh = TRUE
  BY <1>5, <1>6 DEF HoldsFresh
<1>10. \A l : HoldsStale(t, l) <=> \E i \in S : s[i].launch = l /\ s[i].fresh = FALSE
  BY <1>5, <1>6 DEF HoldsStale
<1> QED
  BY <1>1, <1>4, <1>8, <1>9, <1>10 DEF Left

\* A launch that matched is taken, and no other.
LEMMA TakeTakes ==
  ASSUME NEW s, LedgerOfLaunches(s), NEW m
  PROVE  /\ LedgerOfLaunches(Ledger!Take(s, m))
         /\ \A l : HoldsFresh(Ledger!Take(s, m), l) <=> (HoldsFresh(s, l) /\ l # m)
         /\ \A l : HoldsStale(Ledger!Take(s, m), l) <=> (HoldsStale(s, l) /\ l # m)
<1>1. PICK S : S = {i \in 1 .. Len(s) : s[i].launch # m}
  OBVIOUS
<1>2. Ledger!Take(s, m) = Ledger!Sublist(s, S)
  BY <1>1 DEF Ledger!Take
<1>3. /\ S \subseteq 1 .. Len(s)
      /\ \A l : (\E i \in S : s[i].launch = l /\ s[i].fresh = TRUE) <=> (HoldsFresh(s, l) /\ l # m)
      /\ \A l : (\E i \in S : s[i].launch = l /\ s[i].fresh = FALSE) <=> (HoldsStale(s, l) /\ l # m)
  BY <1>1 DEF HoldsFresh, HoldsStale
<1>4. PICK t : t = Ledger!Sublist(s, S)
  OBVIOUS
<1>5. /\ LedgerOfLaunches(t)
      /\ \A l : HoldsFresh(t, l) <=> \E i \in S : s[i].launch = l /\ s[i].fresh = TRUE
      /\ \A l : HoldsStale(t, l) <=> \E i \in S : s[i].launch = l /\ s[i].fresh = FALSE
  <2>1. S \subseteq 1 .. Len(s)
    BY <1>3
  <2>2. Left(Ledger!Sublist(s, S), s, S)
    BY <2>1, LedgerSublist
  <2> QED
    BY <1>4, <2>2 DEF Left
<1>6. t = Ledger!Take(s, m)
  BY <1>2, <1>4
<1>7. /\ \A l : HoldsFresh(t, l) <=> (HoldsFresh(s, l) /\ l # m)
      /\ \A l : HoldsStale(t, l) <=> (HoldsStale(s, l) /\ l # m)
  BY <1>3, <1>5
<1> QED
  BY <1>5, <1>6, <1>7

AppendedTo(r, s, x, n, S) ==
  r \in Seq(S) /\ Len(r) = n + 1 /\ r[n + 1] = x /\ \A i \in 1 .. n : r[i] = s[i]

LEMMA Appended ==
  ASSUME NEW S, NEW s \in Seq(S), NEW x \in S
  PROVE  AppendedTo(Append(s, x), s, x, Len(s), S)
<1>1. PICK r, n : r = Append(s, x) /\ n = Len(s)
  OBVIOUS
<1>2. r \in Seq(S) /\ Len(r) = n + 1
  BY <1>1
<1>3. r[n + 1] = x
  BY <1>1
<1>4. \A i \in 1 .. n : r[i] = s[i]
  BY <1>1
<1> QED
  BY <1>1, <1>2, <1>3, <1>4 DEF AppendedTo

\* Nothing but a full ledger drops a fresh launch when another one is noted.
LEMMA RecordRecords ==
  ASSUME NEW s, LedgerOfLaunches(s), NEW l \in Launches, ~ Holds(s, l), LedgerCap \in Nat \ {0},
         NEW r, r = Ledger!Record(s, LaunchEntry(l, TRUE))
  PROVE  /\ LedgerOfLaunches(r) /\ HoldsFresh(r, l)
         /\ \A k : HoldsStale(r, k) => HoldsStale(s, k)
         /\ \A k : Holds(r, k) => Holds(s, k) \/ k = l
         /\ Len(s) < LedgerCap => \A k : HoldsFresh(s, k) => HoldsFresh(r, k)
<1>1. PICK kept : kept = Ledger!Expire(s)
  OBVIOUS
<1>2. /\ LedgerOfLaunches(kept) /\ Len(kept) <= Len(s)
      /\ \A k : HoldsFresh(kept, k) <=> HoldsFresh(s, k)
      /\ \A k : ~ HoldsStale(kept, k)
  <2>1. PICK S : S = {i \in 1 .. Len(s) : s[i].fresh}
    OBVIOUS
  <2>2. S \subseteq 1 .. Len(s) /\ \A i \in 1 .. Len(s) : i \in S <=> s[i].fresh = TRUE
    <3>1. \A i \in 1 .. Len(s) : s[i].fresh \in BOOLEAN
      BY LedgerFields
    <3> QED
      BY <2>1, <3>1
  <2>3. kept = Ledger!Sublist(s, S)
    BY <1>1, <2>1 DEF Ledger!Expire
  <2>4. Left(kept, s, S)
    <3>1. Left(Ledger!Sublist(s, S), s, S)
      BY <2>2, LedgerSublist
    <3> QED
      BY <2>3, <3>1
  <2>5. \A k : HoldsFresh(s, k) <=> \E i \in S : s[i].launch = k /\ s[i].fresh = TRUE
    BY <2>2 DEF HoldsFresh
  <2>6. \A i \in S : s[i].fresh # FALSE
    BY <2>2
  <2> QED
    BY <2>4, <2>5, <2>6 DEF Left
<1>3. PICK room : room = IF Len(kept) >= LedgerCap THEN Tail(kept) ELSE kept
  OBVIOUS
<1>4. r = Append(room, LaunchEntry(l, TRUE))
  BY <1>1, <1>3 DEF Ledger!Record
<1>5. /\ LedgerOfLaunches(room) /\ \A k : HoldsFresh(room, k) => HoldsFresh(s, k)
      /\ \A k : ~ HoldsStale(room, k)
      /\ Len(s) < LedgerCap => \A k : HoldsFresh(s, k) => HoldsFresh(room, k)
  <2>1. CASE Len(kept) >= LedgerCap
    <3>1. room = Tail(kept) /\ kept # << >> /\ kept \in Seq(LaunchEntries) /\ Len(s) >= LedgerCap
      <4>1. kept \in Seq(LaunchEntries) /\ s \in Seq(LaunchEntries)
        BY <1>2 DEF LedgerOfLaunches
      <4>2. Len(kept) \in Nat /\ Len(s) \in Nat /\ (kept = << >> => Len(kept) = 0)
        BY <4>1
      <4>3. Len(s) >= LedgerCap /\ kept # << >>
        BY <1>2, <2>1, <4>2
      <4> QED
        BY <1>3, <2>1, <4>1, <4>3
    <3>2. /\ room \in Seq(LaunchEntries) /\ Len(room) = Len(kept) - 1
          /\ \A i \in 1 .. Len(room) : room[i] = kept[i + 1] /\ i + 1 \in 1 .. Len(kept)
      <4>1. PICK E : E = LaunchEntries
        OBVIOUS
      <4>2. kept \in Seq(E) /\ kept # << >> /\ room = Tail(kept)
        BY <3>1, <4>1
      <4>3. /\ room \in Seq(E) /\ Len(room) = Len(kept) - 1 /\ Len(kept) \in Nat
            /\ \A i \in 1 .. Len(room) : room[i] = kept[i + 1]
        BY <4>2
      <4> QED
        BY <4>1, <4>3
    <3>3. \A i, j \in 1 .. Len(room) : room[i].launch = room[j].launch => i = j
      <4> SUFFICES ASSUME NEW i \in 1 .. Len(room), NEW j \in 1 .. Len(room),
                          room[i].launch = room[j].launch
                   PROVE  i = j
        OBVIOUS
      <4>1. i + 1 = j + 1
        BY <1>2, <3>2 DEF LedgerOfLaunches
      <4> QED
        BY <4>1
    <3>4. \A k : HoldsFresh(room, k) => HoldsFresh(kept, k)
      BY <3>2 DEF HoldsFresh
    <3>5. \A k : HoldsStale(room, k) => HoldsStale(kept, k)
      BY <3>2 DEF HoldsStale
    <3>6. ~ (Len(s) < LedgerCap)
      <4>1. Len(s) \in Nat
        BY DEF LedgerOfLaunches
      <4> QED
        BY <3>1, <4>1
    <3> QED
      BY <1>2, <3>2, <3>3, <3>4, <3>5, <3>6 DEF LedgerOfLaunches
  <2>2. CASE ~ (Len(kept) >= LedgerCap)
    BY <1>2, <1>3, <2>2
  <2> QED
    BY <2>1, <2>2
<1>6. PICK n, e : n = Len(room) /\ e = LaunchEntry(l, TRUE)
  OBVIOUS
<1>7. /\ n \in Nat /\ e \in LaunchEntries /\ e.launch = l /\ e.fresh = TRUE /\ room \in Seq(LaunchEntries)
      /\ r \in Seq(LaunchEntries) /\ Len(r) = n + 1 /\ r[n + 1] = e /\ n + 1 \in 1 .. n + 1
      /\ \A i \in 1 .. n : r[i] = room[i] /\ i \in 1 .. n + 1
      /\ \A i \in 1 .. n + 1 : i \in 1 .. n \/ i = n + 1
  <2>1. e \in LaunchEntries /\ e.launch = l /\ e.fresh = TRUE
    BY <1>6, EntriesAreEntries
  <2>2. room \in Seq(LaunchEntries) /\ n \in Nat
    BY <1>5, <1>6 DEF LedgerOfLaunches
  <2>3. \A i \in 1 .. n + 1 : i \in 1 .. n \/ i = n + 1
    BY <2>2
  <2>4. r = Append(room, e)
    BY <1>4, <1>6
  <2>5. /\ r \in Seq(LaunchEntries) /\ Len(r) = n + 1 /\ r[n + 1] = e /\ n + 1 \in 1 .. n + 1
        /\ \A i \in 1 .. n : r[i] = room[i] /\ i \in 1 .. n + 1
    <3>1. PICK E : E = LaunchEntries
      OBVIOUS
    <3>2. room \in Seq(E) /\ e \in E /\ n \in Nat /\ n = Len(room)
      BY <1>6, <2>1, <2>2, <3>1
    <3>3. /\ r \in Seq(E) /\ Len(r) = n + 1 /\ r[n + 1] = e /\ n + 1 \in 1 .. n + 1
          /\ \A i \in 1 .. n : r[i] = room[i] /\ i \in 1 .. n + 1
      <4>1. r \in Seq(E) /\ Len(r) = n + 1 /\ r[n + 1] = e /\ \A i \in 1 .. n : r[i] = room[i]
        <5>1. AppendedTo(Append(room, e), room, e, Len(room), E)
          BY <3>2, Appended
        <5>2. AppendedTo(r, room, e, n, E)
          BY <2>4, <3>2, <5>1
        <5> QED
          BY <5>2 DEF AppendedTo
      <4>2. n + 1 \in 1 .. n + 1 /\ \A i \in 1 .. n : i \in 1 .. n + 1
        BY <3>2
      <4> QED
        BY <4>1, <4>2
    <3> QED
      BY <3>1, <3>3
  <2> QED
    BY <2>1, <2>2, <2>3, <2>5
<1>8. \A i \in 1 .. n : r[i].launch # l /\ r[i].fresh = TRUE
  <2>1. SUFFICES ASSUME NEW i \in 1 .. n PROVE r[i].launch # l /\ r[i].fresh = TRUE
    OBVIOUS
  <2>2. r[i] = room[i] /\ i \in 1 .. Len(room)
    BY <1>6, <1>7
  <2>3. room[i].fresh \in BOOLEAN
    BY <1>5, <2>2, LedgerFields
  <2>4. room[i].fresh = TRUE
    BY <1>5, <2>2, <2>3 DEF HoldsStale
  <2>5. HoldsFresh(room, room[i].launch)
    BY <2>2, <2>4 DEF HoldsFresh
  <2>6. Holds(s, room[i].launch)
    BY <1>5, <2>5, FreshOrStale
  <2> QED
    BY <2>2, <2>4, <2>6
<1>9. \A i, j \in 1 .. Len(r) : r[i].launch = r[j].launch => i = j
  <2> SUFFICES ASSUME NEW i \in 1 .. n + 1, NEW j \in 1 .. n + 1, r[i].launch = r[j].launch
               PROVE  i = j
    BY <1>7
  <2>1. CASE i \in 1 .. n /\ j \in 1 .. n
    <3>1. room[i].launch = room[j].launch
      BY <1>7, <2>1
    <3> QED
      BY <1>5, <1>6, <2>1, <3>1 DEF LedgerOfLaunches
  <2>2. CASE i = n + 1 /\ j \in 1 .. n
    BY <1>7, <1>8, <2>2
  <2>3. CASE i \in 1 .. n /\ j = n + 1
    BY <1>7, <1>8, <2>3
  <2> QED
    BY <1>7, <2>1, <2>2, <2>3
<1>10. \A k : HoldsFresh(r, k) <=> HoldsFresh(room, k) \/ k = l
  BY <1>6, <1>7 DEF HoldsFresh
<1>11. \A k : ~ HoldsStale(r, k)
  BY <1>7, <1>8 DEF HoldsStale
<1>12. LedgerOfLaunches(r)
  BY <1>7, <1>9 DEF LedgerOfLaunches
<1>13. \A k : Holds(r, k) => Holds(s, k) \/ k = l
  BY <1>5, <1>10, <1>11, <1>12, FreshOrStale
<1> QED
  BY <1>5, <1>10, <1>11, <1>12, <1>13

\* The oldest entry times out: it is stale from then on, and no other entry changes.
LEMMA AgeAges ==
  ASSUME NEW s, LedgerOfLaunches(s), NEW r, r = Ledger!Age(s), NEW k,
         NEW changed, changed = {s[i].launch : i \in {j \in DOMAIN s : s[j] # r[j]}}
  PROVE  /\ LedgerOfLaunches(r)
         /\ Holds(r, k) <=> Holds(s, k)
         /\ HoldsStale(r, k) => HoldsStale(s, k) \/ k \in changed
         /\ HoldsFresh(s, k) => HoldsFresh(r, k) \/ k \in changed
<1>1. PICK o : r = [s EXCEPT ![o].fresh = FALSE]
  BY DEF Ledger!Age
<1>2. s \in Seq(LaunchEntries) /\ DOMAIN s = 1 .. Len(s) /\ Len(s) \in Nat
  BY DEF LedgerOfLaunches
<1>3. DOMAIN r = 1 .. Len(s) /\ r = [i \in 1 .. Len(s) |-> r[i]]
  BY <1>1, <1>2
<1>4. ASSUME NEW i \in 1 .. Len(s)
      PROVE  /\ r[i] \in LaunchEntries /\ r[i].launch = s[i].launch
             /\ r[i].fresh = s[i].fresh \/ (r[i].fresh = FALSE /\ r[i] # s[i])
  <2>1. /\ s[i].launch \in Launches /\ s[i].fresh \in BOOLEAN
        /\ s[i] = LaunchEntry(s[i].launch, s[i].fresh)
    BY LedgerFields
  <2>2. PICK m \in Launches, f \in BOOLEAN : s[i] = LaunchEntry(m, f) /\ m = s[i].launch /\ f = s[i].fresh
    BY <2>1
  <2>3. r[i] = s[i] \/ r[i] = [s[i] EXCEPT !.fresh = FALSE]
    BY <1>1, <1>2
  <2>4. r[i] = s[i] \/ r[i] = LaunchEntry(m, FALSE)
    <3>1. PICK d, e : d = s[i] /\ e = r[i]
      OBVIOUS
    <3>2. d = [launch |-> m, app |-> AppOf[m], pid |-> m, fresh |-> f]
      BY <2>2, <3>1 DEF LaunchEntry
    <3>3. CASE e = [d EXCEPT !.fresh = FALSE]
      <4>1. e = [launch |-> m, app |-> AppOf[m], pid |-> m, fresh |-> FALSE]
        BY <3>2, <3>3
      <4> QED
        BY <3>1, <4>1 DEF LaunchEntry
    <3> QED
      BY <2>3, <3>1, <3>3
  <2>5. CASE r[i] = s[i]
    BY <1>2, <2>5
  <2>6. CASE r[i] = LaunchEntry(m, FALSE) /\ r[i] # s[i]
    <3>1. r[i] \in LaunchEntries /\ r[i].launch = m /\ r[i].fresh = FALSE
      BY <2>6, EntriesAreEntries
    <3> QED
      BY <2>2, <2>6, <3>1
  <2> QED
    BY <2>4, <2>5, <2>6
<1>5. r \in Seq(LaunchEntries) /\ Len(r) = Len(s)
  <2>1. PICK n, E : n = Len(s) /\ E = LaunchEntries
    OBVIOUS
  <2>2. n \in Nat /\ r \in [1 .. n -> E]
    BY <1>2, <1>3, <1>4, <2>1
  <2>3. r \in Seq(E) /\ Len(r) = n
    BY <2>2
  <2> QED
    BY <2>1, <2>3
<1>6. LedgerOfLaunches(r)
  <2>1. \A i, j \in 1 .. Len(s) : r[i].launch = r[j].launch => i = j
    <3> SUFFICES ASSUME NEW i \in 1 .. Len(s), NEW j \in 1 .. Len(s), r[i].launch = r[j].launch
                 PROVE  i = j
      OBVIOUS
    <3>1. s[i].launch = s[j].launch
      BY <1>4
    <3> QED
      BY <3>1 DEF LedgerOfLaunches
  <2> QED
    BY <1>5, <2>1 DEF LedgerOfLaunches
<1>7. Holds(r, k) <=> Holds(s, k)
  BY <1>4, <1>5 DEF Holds
<1>8. \A i \in 1 .. Len(s) : r[i] # s[i] => s[i].launch \in changed
  BY <1>2
<1>9. HoldsStale(r, k) => HoldsStale(s, k) \/ k \in changed
  <2>1. ASSUME NEW i \in 1 .. Len(s), r[i].launch = k, r[i].fresh = FALSE
        PROVE  HoldsStale(s, k) \/ k \in changed
    <3>1. s[i].launch = k /\ (s[i].fresh = FALSE \/ r[i] # s[i])
      BY <1>4, <2>1
    <3> QED
      BY <1>8, <3>1 DEF HoldsStale
  <2> QED
    BY <1>5, <2>1 DEF HoldsStale
<1>10. HoldsFresh(s, k) => HoldsFresh(r, k) \/ k \in changed
  BY <1>4, <1>5, <1>8 DEF HoldsFresh
<1> QED
  BY <1>6, <1>7, <1>9, <1>10

\* Trust in launch l for a window w that shows app id `id`, for both attributors.
LedgerTrustIn(w, id, l) ==
  IF l \notin Launches THEN 0
  ELSE IF Pid(w) = l THEN 3
  ELSE IF id # NoLaunch /\ << AppOf[l], id >> \in AppsMatch THEN 2
  ELSE IF TitleOf[w] # NoLaunch /\ << AppOf[l], TitleOf[w] >> \in TitlesMatch THEN 1 ELSE 0

LatestOf(latest, s, hits) ==
  latest = {s[i].launch : i \in {h \in hits : \A j \in hits : j <= h}}

\* The latest of the matching entries is one of them, if there are any.
LEMMA LatestOfHits ==
  ASSUME NEW s, LedgerOfLaunches(s), NEW hits, hits \subseteq 1 .. Len(s),
         NEW latest, LatestOf(latest, s, hits)
  PROVE  /\ hits # {} => latest # {}
         /\ \A l \in latest : \E i \in hits : s[i].launch = l
<1>1. Len(s) \in Nat
  BY DEF LedgerOfLaunches
<1>2. ASSUME hits # {} PROVE latest # {}
  <2>1. PICK n \in Nat : n = Len(s)
    BY <1>1
  <2>2. hits \in SUBSET Nat /\ \A x \in hits : x <= n
    BY <2>1
  <2>3. PICK i \in hits : \A j \in hits : j <= i
    BY <1>2, <2>2, GreatestNatural
  <2>4. s[i].launch \in latest
    BY <2>3 DEF LatestOf
  <2> QED
    BY <2>4
<1>3. \A l \in latest : \E i \in hits : s[i].launch = l
  BY DEF LatestOf
<1> QED
  BY <1>2, <1>3

\* What the compositor's ledger answers: a launch it holds, with some evidence, and with no less
\* of it than any launch it holds that has not timed out.
LEMMA LedgerAnswers ==
  ASSUME LaunchesAreKnown, NEW s, LedgerOfLaunches(s), NEW w \in Windows, NEW id,
         NEW c, c = Ledger!Correlate(s, id, Pid(w), TitleOf[w])
  PROVE  /\ c = NoLaunch \/ (c \in Launches /\ Holds(s, c))
         /\ c # NoLaunch => LedgerTrustIn(w, id, c) > 0
         /\ \A l \in Launches : HoldsFresh(s, l) => LedgerTrustIn(w, id, l) <= LedgerTrustIn(w, id, c)
<1>1. PICK pid, title : pid = Pid(w) /\ title = TitleOf[w]
  OBVIOUS
<1>2. PICK pidHits, appHits, titleHits :
        /\ pidHits = {h \in 1 .. Len(s) : s[h].fresh /\ s[h].pid = pid}
        /\ appHits = {h \in 1 .. Len(s) : s[h].fresh /\ << s[h].app, id >> \in AppsMatch}
        /\ titleHits = {h \in 1 .. Len(s) : s[h].fresh /\ << s[h].app, title >> \in TitlesMatch}
  OBVIOUS
<1>3. PICK pids, apps, titles :
        /\ pids = {s[i].launch : i \in {h \in pidHits : \A j \in pidHits : j <= h}}
        /\ apps = {s[i].launch : i \in {h \in appHits : \A j \in appHits : j <= h}}
        /\ titles = {s[i].launch : i \in {h \in titleHits : \A j \in titleHits : j <= h}}
  OBVIOUS
<1>4. PICK byPid, byApp, byTitle :
        /\ byPid = IF pid = NoLaunch THEN {} ELSE pids
        /\ byApp = IF id = NoLaunch THEN {} ELSE apps
        /\ byTitle = IF title = NoLaunch THEN {} ELSE titles
  OBVIOUS
<1>5. PICK found : found = IF byPid # {} THEN byPid ELSE IF byApp # {} THEN byApp ELSE byTitle
  OBVIOUS
<1>6. c = IF found = {} THEN NoLaunch ELSE CHOOSE l \in found : TRUE
  BY <1>1, <1>2, <1>3, <1>4, <1>5 DEF Ledger!Correlate, Ledger!Latest
<1>7. /\ pidHits # {} => pids # {}
      /\ \A l \in pids : \E i \in pidHits : s[i].launch = l
      /\ appHits # {} => apps # {}
      /\ \A l \in apps : \E i \in appHits : s[i].launch = l
      /\ titleHits # {} => titles # {}
      /\ \A l \in titles : \E i \in titleHits : s[i].launch = l
  <2>1. pidHits \subseteq 1 .. Len(s) /\ appHits \subseteq 1 .. Len(s) /\ titleHits \subseteq 1 .. Len(s)
    BY <1>2
  <2>2. (pidHits # {} => pids # {}) /\ \A l \in pids : \E i \in pidHits : s[i].launch = l
    <3>1. LatestOf(pids, s, pidHits)
      BY <1>3 DEF LatestOf
    <3> QED
      BY <2>1, <3>1, LatestOfHits
  <2>3. (appHits # {} => apps # {}) /\ \A l \in apps : \E i \in appHits : s[i].launch = l
    <3>1. LatestOf(apps, s, appHits)
      BY <1>3 DEF LatestOf
    <3> QED
      BY <2>1, <3>1, LatestOfHits
  <2>4. (titleHits # {} => titles # {}) /\ \A l \in titles : \E i \in titleHits : s[i].launch = l
    <3>1. LatestOf(titles, s, titleHits)
      BY <1>3 DEF LatestOf
    <3> QED
      BY <2>1, <3>1, LatestOfHits
  <2> QED
    BY <2>2, <2>3, <2>4
<1>8. ASSUME NEW i \in 1 .. Len(s)
      PROVE  /\ s[i].launch \in Launches /\ s[i].launch # NoLaunch /\ Holds(s, s[i].launch)
             /\ s[i].pid = s[i].launch /\ s[i].app = AppOf[s[i].launch]
  BY LedgerFields DEF Holds, LaunchesAreKnown
<1>9. \A l \in byPid : l \in Launches /\ Holds(s, l) /\ LedgerTrustIn(w, id, l) = 3
  <2>1. SUFFICES ASSUME NEW l \in byPid
                 PROVE  l \in Launches /\ Holds(s, l) /\ LedgerTrustIn(w, id, l) = 3
    OBVIOUS
  <2>2. PICK i \in 1 .. Len(s) : s[i].launch = l /\ s[i].pid = pid
    BY <1>2, <1>4, <1>7, <2>1
  <2> QED
    BY <1>1, <1>8, <2>2 DEF LedgerTrustIn
<1>10. \A l \in byApp : l \in Launches /\ Holds(s, l) /\ LedgerTrustIn(w, id, l) >= 2
  <2>1. SUFFICES ASSUME NEW l \in byApp
                 PROVE  l \in Launches /\ Holds(s, l) /\ LedgerTrustIn(w, id, l) >= 2
    OBVIOUS
  <2>2. id # NoLaunch /\ l \in apps
    BY <1>4, <2>1
  <2>3. PICK i \in 1 .. Len(s) : s[i].launch = l /\ << s[i].app, id >> \in AppsMatch
    BY <1>2, <1>7, <2>2
  <2>4. l \in Launches /\ Holds(s, l) /\ << AppOf[l], id >> \in AppsMatch
    BY <1>8, <2>3
  <2> QED
    BY <2>2, <2>4 DEF LedgerTrustIn
<1>11. \A l \in byTitle : l \in Launches /\ Holds(s, l) /\ LedgerTrustIn(w, id, l) >= 1
  <2>1. SUFFICES ASSUME NEW l \in byTitle
                 PROVE  l \in Launches /\ Holds(s, l) /\ LedgerTrustIn(w, id, l) >= 1
    OBVIOUS
  <2>2. title # NoLaunch /\ l \in titles
    BY <1>4, <2>1
  <2>3. PICK i \in 1 .. Len(s) : s[i].launch = l /\ << s[i].app, title >> \in TitlesMatch
    BY <1>2, <1>7, <2>2
  <2>4. l \in Launches /\ Holds(s, l) /\ << AppOf[l], title >> \in TitlesMatch
    BY <1>8, <2>3
  <2> QED
    BY <1>1, <2>2, <2>4 DEF LedgerTrustIn
<1>12. ASSUME NEW l \in Launches, HoldsFresh(s, l)
       PROVE  /\ LedgerTrustIn(w, id, l) = 3 => byPid # {}
              /\ LedgerTrustIn(w, id, l) = 2 => byApp # {}
              /\ LedgerTrustIn(w, id, l) = 1 => byTitle # {}
  <2>1. PICK i \in 1 .. Len(s) : s[i].launch = l /\ s[i].fresh = TRUE
    BY <1>12 DEF HoldsFresh
  <2>2. l # NoLaunch /\ s[i].pid = l /\ s[i].app = AppOf[l] /\ s[i].fresh
    BY <1>8, <2>1
  <2>3. ASSUME LedgerTrustIn(w, id, l) = 3 PROVE byPid # {}
    <3>1. pid = l
      BY <1>1, <2>3 DEF LedgerTrustIn
    <3>2. i \in pidHits
      BY <1>2, <2>2, <3>1
    <3> QED
      BY <1>4, <1>7, <2>2, <3>1, <3>2
  <2>4. ASSUME LedgerTrustIn(w, id, l) = 2 PROVE byApp # {}
    <3>1. id # NoLaunch /\ << AppOf[l], id >> \in AppsMatch
      BY <2>4 DEF LedgerTrustIn
    <3>2. i \in appHits
      BY <1>2, <2>2, <3>1
    <3> QED
      BY <1>4, <1>7, <3>1, <3>2
  <2>5. ASSUME LedgerTrustIn(w, id, l) = 1 PROVE byTitle # {}
    <3>1. title # NoLaunch /\ << AppOf[l], title >> \in TitlesMatch
      BY <1>1, <2>5 DEF LedgerTrustIn
    <3>2. i \in titleHits
      BY <1>2, <2>2, <3>1
    <3> QED
      BY <1>4, <1>7, <3>1, <3>2
  <2> QED
    BY <2>3, <2>4, <2>5
<1>13. \A l : LedgerTrustIn(w, id, l) \in 0 .. 3
  BY DEF LedgerTrustIn
<1>14. CASE byPid # {}
  <2>1. c \in byPid
    BY <1>5, <1>6, <1>14
  <2> QED
    BY <1>9, <1>13, <2>1
<1>15. CASE byPid = {} /\ byApp # {}
  <2>1. c \in byApp
    BY <1>5, <1>6, <1>15
  <2>2. \A l \in Launches : HoldsFresh(s, l) => LedgerTrustIn(w, id, l) <= 2
    BY <1>12, <1>13, <1>15
  <2>3. c \in Launches /\ Holds(s, c) /\ LedgerTrustIn(w, id, c) >= 2 /\ LedgerTrustIn(w, id, c) \in 0 .. 3
    BY <1>10, <1>13, <2>1
  <2> QED
    BY <1>13, <2>2, <2>3
<1>16. CASE byPid = {} /\ byApp = {} /\ byTitle # {}
  <2>1. c \in byTitle
    BY <1>5, <1>6, <1>16
  <2>2. \A l \in Launches : HoldsFresh(s, l) => LedgerTrustIn(w, id, l) <= 1
    BY <1>12, <1>13, <1>16
  <2>3. c \in Launches /\ Holds(s, c) /\ LedgerTrustIn(w, id, c) >= 1 /\ LedgerTrustIn(w, id, c) \in 0 .. 3
    BY <1>11, <1>13, <2>1
  <2> QED
    BY <1>13, <2>2, <2>3
<1>17. CASE byPid = {} /\ byApp = {} /\ byTitle = {}
  <2>1. c = NoLaunch
    BY <1>5, <1>6, <1>17
  <2>2. \A l \in Launches : HoldsFresh(s, l) => LedgerTrustIn(w, id, l) <= 0
    BY <1>12, <1>13, <1>17
  <2> QED
    BY <1>13, <2>1, <2>2
<1> QED
  BY <1>14, <1>15, <1>16, <1>17

\* What the correlator answers: a pending launch with some evidence, and with no less of it than
\* any launch that has not timed out.
LEMMA CorrelatorAnswers ==
  ASSUME LaunchesAreKnown, correlator \subseteq Launches, NEW w \in Windows,
         NEW c, c = Correlated(w)
  PROVE  /\ c = NoLaunch \/ c \in Launches
         /\ c # NoLaunch => CorrelatorTrust(w, c) > 0
         /\ \A l \in correlator \ expired : CorrelatorTrust(w, l) <= CorrelatorTrust(w, c)
<1>1. PICK pending : pending = correlator \ expired
  OBVIOUS
<1>2. PICK byPid, byClass, byText :
        byPid = MatchPid(pending, w) /\ byClass = MatchClass(pending, w) /\ byText = MatchText(pending, w)
  OBVIOUS
<1>3. PICK best : best = FirstOf(byPid, byClass, byText)
  OBVIOUS
<1>4. c = BestMatch(best)
  BY <1>1, <1>2, <1>3 DEF Correlated
<1>5. /\ pending \subseteq Launches
      /\ byPid \subseteq pending /\ byClass \subseteq pending /\ byText \subseteq pending
      /\ best \subseteq Launches
  BY <1>1, <1>2, <1>3 DEF MatchPid, MatchClass, MatchText, FirstOf
<1>6. \A l : CorrelatorTrust(w, l) \in 0 .. 3
  BY DEF CorrelatorTrust
<1>7. ASSUME NEW l \in pending
      PROVE  /\ l \in byPid <=> CorrelatorTrust(w, l) = 3
             /\ l \in byClass => CorrelatorTrust(w, l) >= 2
             /\ CorrelatorTrust(w, l) = 2 => l \in byClass
             /\ l \in byText => CorrelatorTrust(w, l) >= 1
             /\ CorrelatorTrust(w, l) = 1 => l \in byText
  BY <1>2, <1>5, <1>7 DEF CorrelatorTrust, MatchPid, MatchClass, MatchText
<1>8. best # {} => c \in best
  <2>1. SUFFICES ASSUME best # {} PROVE c \in best
    OBVIOUS
  <2>2. \E l \in best : \A k \in best : k <= l
    <3>1. PICK n \in Nat : Launches = 1 .. n
      BY DEF LaunchesAreKnown
    <3>2. best \in SUBSET Nat /\ \A x \in best : x <= n
      BY <1>5, <3>1
    <3> QED
      BY <2>1, <3>2, GreatestNatural
  <2> QED
    BY <1>4, <2>1, <2>2 DEF BestMatch
<1>9. best = {} => c = NoLaunch
  BY <1>4 DEF BestMatch
<1>10. CASE byPid # {}
  <2>1. c \in byPid
    BY <1>3, <1>8, <1>10 DEF FirstOf
  <2> QED
    BY <1>1, <1>5, <1>6, <1>7, <2>1
<1>11. CASE byPid = {} /\ byClass # {}
  <2>1. c \in byClass
    BY <1>3, <1>8, <1>11 DEF FirstOf
  <2>2. c \in Launches /\ CorrelatorTrust(w, c) >= 2 /\ CorrelatorTrust(w, c) \in 0 .. 3
    BY <1>5, <1>6, <1>7, <2>1
  <2>3. \A l \in pending : CorrelatorTrust(w, l) <= 2
    BY <1>6, <1>7, <1>11
  <2> QED
    BY <1>1, <1>6, <2>2, <2>3
<1>12. CASE byPid = {} /\ byClass = {} /\ byText # {}
  <2>1. c \in byText
    BY <1>3, <1>8, <1>12 DEF FirstOf
  <2>2. c \in Launches /\ CorrelatorTrust(w, c) >= 1 /\ CorrelatorTrust(w, c) \in 0 .. 3
    BY <1>5, <1>6, <1>7, <2>1
  <2>3. \A l \in pending : CorrelatorTrust(w, l) <= 1
    BY <1>6, <1>7, <1>12
  <2> QED
    BY <1>1, <1>6, <2>2, <2>3
<1>13. CASE byPid = {} /\ byClass = {} /\ byText = {}
  <2>1. c = NoLaunch
    BY <1>3, <1>9, <1>13 DEF FirstOf
  <2>2. \A l \in pending : CorrelatorTrust(w, l) <= 0
    BY <1>6, <1>7, <1>13
  <2> QED
    BY <1>1, <1>6, <2>1, <2>2
<1> QED
  BY <1>10, <1>11, <1>12, <1>13

\* The same for the correlator.
CorrelatorTrustIn(w, id, l) ==
  IF l \notin Launches THEN 0
  ELSE IF Pid(w) = l THEN 3
  ELSE IF id # NoLaunch /\ << AppOf[l], id >> \in ClassesMatch THEN 2
  ELSE IF \E t \in {id, TitleOf[w]} \ {NoLaunch} : << AppOf[l], t >> \in TextsMatch THEN 1 ELSE 0

LEMMA TrustIsOfTheEvent ==
  ASSUME NEW w, NEW l
  PROVE  /\ LedgerTrust(w, l) = LedgerTrustIn(w, mappedAs[w], l)
         /\ CorrelatorTrust(w, l) = CorrelatorTrustIn(w, mappedAs[w], l)
         /\ LedgerTrustIn(w, mappedAs[w], l) \in 0 .. 3
         /\ CorrelatorTrustIn(w, mappedAs[w], l) \in 0 .. 3
         /\ l \notin Launches => LedgerTrust(w, l) = 0 /\ CorrelatorTrust(w, l) = 0
<1>1. LedgerTrust(w, l) = LedgerTrustIn(w, mappedAs[w], l) /\ LedgerTrustIn(w, mappedAs[w], l) \in 0 .. 3
  BY DEF LedgerTrust, LedgerTrustIn
<1>2. /\ CorrelatorTrust(w, l) = CorrelatorTrustIn(w, mappedAs[w], l)
      /\ CorrelatorTrustIn(w, mappedAs[w], l) \in 0 .. 3
  BY DEF CorrelatorTrust, CorrelatorTrustIn, Shown
<1>3. l \notin Launches => LedgerTrust(w, l) = 0 /\ CorrelatorTrust(w, l) = 0
  BY DEF LedgerTrust, CorrelatorTrust
<1> QED
  BY <1>1, <1>2, <1>3

LaunchStages == {"idle", "numbered", "spawned", "recorded", "noted", "answered", "failed"}

LaunchTyped ==
  /\ stage \in [Launches -> LaunchStages]
  /\ window \in [Windows -> {"none", "mapped", "handled"}]
  /\ mappedAs = [w \in Windows |-> mappedAs[w]]
  /\ taken \in [Windows -> Launches \cup {NoLaunch}]
  /\ claimed \in [Windows -> Launches \cup {NoLaunch}]
  /\ told \in [Windows -> Launches \cup {NoLaunch}]
  /\ correlator \subseteq Launches

\* The ledger has lost a launch it was told of.
Gone(l) == l \in aged \/ PushedOut(l) \/ \E v \in Windows : taken[v] = l

\* A noted launch can be found until it times out, a window consumes it, or a full ledger drops it.
LedgerKnows ==
  /\ LedgerOfLaunches(ledger2)
  /\ \A l \in Launches : Holds(ledger2, l) => l \in Noted
  /\ \A l \in Launches : HoldsStale(ledger2, l) => l \in aged
  /\ \A l \in Noted : HoldsFresh(ledger2, l) \/ Gone(l)
  /\ \A w \in Windows : window[w] = "none" => claimed[w] = NoLaunch /\ taken[w] = NoLaunch

\* WindowsFindTheirLaunch for one window; its own launch matters only if it has one.
LedgerBacks(w) ==
  /\ claimed[w] # NoLaunch => LedgerTrustIn(w, mappedAs[w], claimed[w]) > 0
  /\ StartedBy[w] \in Launches /\ claimed[w] # StartedBy[w]
       => \/ LostToLedger(w)
          \/ LedgerTrustIn(w, mappedAs[w], StartedBy[w]) <= LedgerTrustIn(w, mappedAs[w], claimed[w])

CorrelatorBacks(w) ==
  /\ told[w] # NoLaunch => CorrelatorTrustIn(w, mappedAs[w], told[w]) > 0
  /\ StartedBy[w] \in Launches /\ told[w] # StartedBy[w]
       => \/ LostToCorrelator(w)
          \/ CorrelatorTrustIn(w, mappedAs[w], StartedBy[w]) <= CorrelatorTrustIn(w, mappedAs[w], told[w])

WindowFits(w) ==
  /\ window[w] # "none" => LedgerBacks(w)
  /\ window[w] = "handled" /\ claimed[w] = NoLaunch => CorrelatorBacks(w)
  /\ window[w] = "handled" /\ claimed[w] # NoLaunch => told[w] = claimed[w]

WindowsFit == \A w \in Windows : WindowFits(w)

LaunchInv == LaunchTyped /\ LedgerKnows /\ WindowsFit

LEMMA FittingWindowsFind ==
  ASSUME LaunchesAreKnown, LaunchInv
  PROVE  WindowsFindTheirLaunch
<1>1. ASSUME NEW w \in Windows, LedgerBacks(w)
      PROVE  Justified(w, claimed[w], LedgerTrust, LostToLedger(w))
  <2>1. /\ claimed[w] # NoLaunch => LedgerTrust(w, claimed[w]) > 0
        /\ claimed[w] # StartedBy[w]
             => LostToLedger(w) \/ LedgerTrust(w, StartedBy[w]) <= LedgerTrust(w, claimed[w])
    <3>1. CASE StartedBy[w] \in Launches
      BY <1>1, <3>1, TrustIsOfTheEvent DEF LedgerBacks
    <3>2. CASE StartedBy[w] \notin Launches
      <4>1. LedgerTrust(w, StartedBy[w]) = 0 /\ LedgerTrust(w, claimed[w]) \in 0 .. 3
        BY <3>2, TrustIsOfTheEvent
      <4> QED
        BY <1>1, <4>1, TrustIsOfTheEvent DEF LedgerBacks
    <3> QED
      BY <3>1, <3>2
  <2> QED
    BY <2>1 DEF Justified
<1>2. ASSUME NEW w \in Windows, CorrelatorBacks(w)
      PROVE  Justified(w, told[w], CorrelatorTrust, LostToCorrelator(w))
  <2>1. /\ told[w] # NoLaunch => CorrelatorTrust(w, told[w]) > 0
        /\ told[w] # StartedBy[w]
             => LostToCorrelator(w) \/ CorrelatorTrust(w, StartedBy[w]) <= CorrelatorTrust(w, told[w])
    <3>1. CASE StartedBy[w] \in Launches
      BY <1>2, <3>1, TrustIsOfTheEvent DEF CorrelatorBacks
    <3>2. CASE StartedBy[w] \notin Launches
      <4>1. CorrelatorTrust(w, StartedBy[w]) = 0 /\ CorrelatorTrust(w, told[w]) \in 0 .. 3
        BY <3>2, TrustIsOfTheEvent
      <4> QED
        BY <1>2, <4>1, TrustIsOfTheEvent DEF CorrelatorBacks
    <3> QED
      BY <3>1, <3>2
  <2> QED
    BY <2>1 DEF Justified
<1>3. \A w \in Windows : WindowFits(w)
  BY DEF LaunchInv, WindowsFit
<1> QED
  BY <1>1, <1>2, <1>3 DEF WindowFits, WindowsFindTheirLaunch

\* What is pushed out, with the ledger's own words.
LEMMA PushedOutHolds ==
  ASSUME NEW l, LedgerOfLaunches(ledger2)
  PROVE  PushedOut(l) <=> /\ l \in Noted /\ ~ Holds(ledger2, l) /\ Cardinality(Noted) > LedgerCap
<1>1. DOMAIN ledger2 = 1 .. Len(ledger2)
  BY DEF LedgerOfLaunches
<1> QED
  BY <1>1 DEF PushedOut, Holds

LEMMA NotedIsFinite ==
  ASSUME LaunchesAreKnown
  PROVE  IsFiniteSet(Noted) /\ IsFiniteSet(Launches) /\ Cardinality(Noted) \in Nat /\ Noted \subseteq Launches
<1>1. PICK n \in Nat : Launches = 1 .. n
  BY DEF LaunchesAreKnown
<1>2. IsFiniteSet(Launches)
  BY <1>1, FS_Interval
<1>3. Noted \subseteq Launches
  BY DEF Noted
<1>4. IsFiniteSet(Noted)
  BY <1>2, <1>3, FS_Subset
<1> QED
  BY <1>2, <1>3, <1>4, FS_CardinalityType

\* What is lost stays lost in a step that only adds to it.
LossesStay ==
  /\ \A l \in Launches : Gone(l) => Gone(l)'
  /\ \A w \in Windows : StartedBy[w] \in Launches =>
       /\ LostToLedger(w) => LostToLedger(w)'
       /\ LostToCorrelator(w) => LostToCorrelator(w)'

LEMMA LostIsLost ==
  ASSUME LaunchesAreKnown, LaunchInv, LedgerOfLaunches(ledger2)', Noted \subseteq Noted',
         late \subseteq late', expired \subseteq expired', aged \subseteq aged',
         \A v \in Windows : taken[v] # NoLaunch => taken'[v] = taken[v],
         \A l \in Noted : Holds(ledger2', l) => Holds(ledger2, l)
  PROVE  LossesStay
<1>1. Cardinality(Noted) <= Cardinality(Noted') /\ Cardinality(Noted) \in Nat /\ Cardinality(Noted') \in Nat
  <2>1. IsFiniteSet(Noted') /\ Cardinality(Noted') \in Nat
    <3>1. PICK n \in Nat : Launches = 1 .. n
      BY DEF LaunchesAreKnown
    <3>2. IsFiniteSet(Launches)
      BY <3>1, FS_Interval
    <3>3. Noted' \subseteq Launches
      BY DEF Noted
    <3> QED
      BY <3>2, <3>3, FS_Subset, FS_CardinalityType
  <2> QED
    BY <2>1, NotedIsFinite, FS_Subset
<1>2. ASSUME NEW l \in Launches, PushedOut(l) PROVE PushedOut(l)'
  <2>1. l \in Noted /\ ~ Holds(ledger2, l) /\ Cardinality(Noted) > LedgerCap
    BY <1>2, PushedOutHolds DEF LaunchInv, LedgerKnows
  <2>2. l \in Noted' /\ ~ Holds(ledger2', l) /\ Cardinality(Noted') > LedgerCap
    BY <1>1, <2>1 DEF LaunchesAreKnown
  <2>3. DOMAIN ledger2' = 1 .. Len(ledger2')
    BY DEF LedgerOfLaunches
  <2> QED
    BY <2>2, <2>3 DEF PushedOut, Holds
<1>3. \A l \in Launches : l # NoLaunch
  BY DEF LaunchesAreKnown
<1>4. ASSUME NEW l \in Launches, Gone(l) PROVE Gone(l)'
  <2>1. CASE l \in aged
    BY <2>1 DEF Gone
  <2>2. CASE PushedOut(l)
    BY <1>2, <2>2 DEF Gone
  <2>3. CASE \E v \in Windows : taken[v] = l
    <3>1. \E v \in Windows : taken'[v] = l
      BY <1>3, <2>3
    <3> QED
      BY <3>1 DEF Gone
  <2> QED
    BY <1>4, <2>1, <2>2, <2>3 DEF Gone
<1>5. ASSUME NEW w \in Windows, StartedBy[w] \in Launches, LostToLedger(w)
      PROVE  LostToLedger(w)'
  <2>1. CASE PushedOut(StartedBy[w])
    <3>1. PICK l \in Launches : l = StartedBy[w]
      BY <1>5
    <3>2. PushedOut(l)'
      BY <1>2, <2>1, <3>1
    <3> QED
      BY <3>1, <3>2 DEF LostToLedger
  <2>2. CASE \E v \in Windows \ {w} : taken[v] = StartedBy[w]
    <3>1. \E v \in Windows \ {w} : taken'[v] = StartedBy[w]
      BY <1>3, <1>5, <2>2
    <3> QED
      BY <3>1 DEF LostToLedger
  <2>3. CASE << w, "ledger" >> \in late \/ StartedBy[w] \in aged
    BY <2>3 DEF LostToLedger
  <2> QED
    BY <1>5, <2>1, <2>2, <2>3 DEF LostToLedger
<1>6. ASSUME NEW w \in Windows, LostToCorrelator(w) PROVE LostToCorrelator(w)'
  BY <1>6 DEF LostToCorrelator
<1> QED
  BY <1>4, <1>5, <1>6 DEF LossesStay

\* A window nothing happens to goes on fitting.
LEMMA OtherWindowsFit ==
  ASSUME LossesStay, NEW w \in Windows, WindowFits(w), window'[w] = window[w],
         mappedAs'[w] = mappedAs[w], claimed'[w] = claimed[w], told'[w] = told[w]
  PROVE  WindowFits(w)'
<1>1. LedgerBacks(w) => LedgerBacks(w)'
  BY DEF LedgerBacks, LossesStay
<1>2. CorrelatorBacks(w) => CorrelatorBacks(w)'
  BY DEF CorrelatorBacks, LossesStay
<1> QED
  BY <1>1, <1>2 DEF WindowFits

LEMMA LaunchStarts ==
  ASSUME LaunchesAreKnown, LaunchInit
  PROVE  LaunchInv
<1>1. ledger2 = << >> /\ Noted = {}
  BY DEF LaunchInit, Noted
<1>2. LedgerOfLaunches(ledger2) /\ \A l : ~ Holds(ledger2, l) /\ ~ HoldsStale(ledger2, l)
  BY <1>1 DEF LedgerOfLaunches, Holds, HoldsStale
<1>3. \A w \in Windows : window[w] = "none" /\ claimed[w] = NoLaunch /\ taken[w] = NoLaunch
  BY DEF LaunchInit
<1>4. LedgerKnows
  BY <1>1, <1>2, <1>3 DEF LedgerKnows
<1>5. WindowsFit
  BY <1>3 DEF WindowsFit, WindowFits
<1>6. LaunchTyped
  BY DEF LaunchInit, LaunchTyped, LaunchStages
<1> QED
  BY <1>4, <1>5, <1>6 DEF LaunchInv

\* The steps of a launch that touch neither the ledger nor a window.
LEMMA QuietLaunchStep ==
  ASSUME LaunchesAreKnown, LaunchInv, stage' \in [Launches -> LaunchStages],
         UNCHANGED << window, mappedAs, ledger2, aged, taken, claimed, told, late >>, Noted' = Noted,
         correlator' \subseteq Launches, expired \subseteq expired'
  PROVE  LaunchInv'
<1>1. LossesStay
  <2>1. LedgerOfLaunches(ledger2)' /\ \A l \in Noted : Holds(ledger2', l) => Holds(ledger2, l)
    BY DEF LaunchInv, LedgerKnows
  <2> QED
    BY <2>1, LostIsLost
<1>2. WindowsFit'
  BY <1>1, OtherWindowsFit DEF LaunchInv, WindowsFit
<1>3. \A l \in Noted' : HoldsFresh(ledger2', l) \/ Gone(l)'
  BY <1>1, NotedIsFinite DEF LaunchInv, LedgerKnows, LossesStay
<1>4. LedgerKnows'
  BY <1>3 DEF LaunchInv, LedgerKnows
<1>5. LaunchTyped'
  BY DEF LaunchInv, LaunchTyped
<1> QED
  BY <1>2, <1>4, <1>5 DEF LaunchInv

LEMMA QuietLaunchSteps ==
  ASSUME LaunchesAreKnown, LaunchInv, NEW l \in Launches,
         QueryAndReserve(l) \/ Spawn(l) \/ RecordLaunch(l) \/ Announce(l) \/ Expire(l)
  PROVE  LaunchInv'
<1>1. stage \in [Launches -> LaunchStages] /\ correlator \subseteq Launches
  BY DEF LaunchInv, LaunchTyped
<1>2. /\ stage' \in [Launches -> LaunchStages] /\ Noted' = Noted
      /\ UNCHANGED << window, mappedAs, ledger2, aged, taken, claimed, told, late >>
      /\ correlator' \subseteq Launches /\ expired \subseteq expired'
  <2>1. CASE QueryAndReserve(l)
    BY <1>1, <2>1 DEF QueryAndReserve, Reach, LaunchStages, Noted
  <2>2. CASE Spawn(l)
    BY <1>1, <2>2 DEF Spawn, LaunchStages, Noted
  <2>3. CASE RecordLaunch(l)
    BY <1>1, <2>3 DEF RecordLaunch, Reach, LaunchStages, Noted
  <2>4. CASE Announce(l)
    BY <1>1, <2>4 DEF Announce, Reach, LaunchStages, Noted
  <2>5. CASE Expire(l)
    BY <1>1, <2>5 DEF Expire, LaunchStages, Noted
  <2> QED
    BY <2>1, <2>2, <2>3, <2>4, <2>5
<1> QED
  BY <1>2, QuietLaunchStep

\* The compositor hears of a launch: a full ledger drops its oldest one, which is pushed out.
LEMMA NotedLaunchKeeps ==
  ASSUME LaunchesAreKnown, LaunchInv, NEW l \in Launches, NoteLaunch(l)
  PROVE  LaunchInv'
<1>1. PICK s, r : s = ledger2 /\ r = ledger2'
  OBVIOUS
<1>2. /\ stage[l] = "recorded" /\ stage' = [stage EXCEPT ![l] = "noted"]
      /\ r = Ledger!Record(s, LaunchEntry(l, TRUE))
      /\ UNCHANGED << window, mappedAs, correlator, expired, aged, taken, claimed, told, late >>
  <2>1. Ledger!Pending(l, AppOf[l], l) = LaunchEntry(l, TRUE)
    BY DEF Ledger!Pending, LaunchEntry
  <2> QED
    BY <1>1, <2>1 DEF NoteLaunch, Reach
<1>3. /\ LedgerOfLaunches(s) /\ \A k \in Launches : Holds(s, k) => k \in Noted
      /\ \A k \in Launches : HoldsStale(s, k) => k \in aged
      /\ \A k \in Noted : HoldsFresh(s, k) \/ Gone(k)
  BY <1>1 DEF LaunchInv, LedgerKnows
<1>4. stage' \in [Launches -> LaunchStages] /\ Noted' = Noted \cup {l} /\ l \notin Noted
  BY <1>2 DEF LaunchInv, LaunchTyped, LaunchStages, Noted
<1>5. LedgerCap \in Nat \ {0}
  BY DEF LaunchesAreKnown
<1>6. ~ Holds(s, l)
  BY <1>3, <1>4
<1>7. /\ LedgerOfLaunches(r) /\ HoldsFresh(r, l)
      /\ \A k : HoldsStale(r, k) => HoldsStale(s, k)
      /\ \A k : Holds(r, k) => Holds(s, k) \/ k = l
      /\ Len(s) < LedgerCap => \A k : HoldsFresh(s, k) => HoldsFresh(r, k)
  BY <1>2, <1>3, <1>5, <1>6, RecordRecords
<1>8. LossesStay
  <2>1. LedgerOfLaunches(ledger2)'
    BY <1>1, <1>7
  <2>2. \A k \in Noted : Holds(ledger2', k) => Holds(ledger2, k)
    BY <1>1, <1>4, <1>7
  <2>3. /\ Noted \subseteq Noted' /\ late \subseteq late' /\ expired \subseteq expired'
        /\ aged \subseteq aged' /\ taken' = taken
    BY <1>2, <1>4
  <2> QED
    BY <2>1, <2>2, <2>3, LostIsLost
<1>9. Len(s) >= LedgerCap => Cardinality(Noted') > LedgerCap
  <2>1. PICK n \in Nat : n = Len(s)
    BY <1>3 DEF LedgerOfLaunches
  <2>2. PICK of : of = [i \in 1 .. n |-> s[i].launch]
    OBVIOUS
  <2>3. of \in Injection(1 .. n, Noted)
    <3>1. \A i \in 1 .. n : s[i].launch \in Noted
      BY <1>3, <2>1, LedgerFields DEF Holds
    <3>2. of \in [1 .. n -> Noted]
      BY <2>2, <3>1
    <3>3. \A i, j \in 1 .. n : of[i] = of[j] => i = j
      BY <1>3, <2>1, <2>2 DEF LedgerOfLaunches
    <3> QED
      BY <3>2, <3>3 DEF Injection, IsInjective
  <2>4. IsFiniteSet(Noted) /\ Cardinality(Noted) \in Nat
    BY NotedIsFinite
  <2>5. IsFiniteSet(1 .. n) /\ Cardinality(1 .. n) = n
    BY FS_Interval
  <2>6. n <= Cardinality(Noted)
    BY <2>3, <2>4, <2>5, FS_Injection
  <2>7. Cardinality(Noted') = Cardinality(Noted) + 1
    BY <1>4, <2>4, FS_AddElement
  <2> QED
    BY <1>5, <2>1, <2>4, <2>6, <2>7
<1>10. \A k \in Noted' : HoldsFresh(ledger2', k) \/ Gone(k)'
  <2>1. SUFFICES ASSUME NEW k \in Noted', ~ HoldsFresh(r, k) PROVE Gone(k)'
    BY <1>1
  <2>2. k \in Noted /\ k \in Launches
    BY <1>4, <1>7, <2>1, NotedIsFinite
  <2>3. CASE HoldsFresh(s, k)
    <3>1. ~ Holds(r, k)
      <4>1. ~ HoldsStale(r, k)
        BY <1>3, <1>7, <2>3, FreshOrStale
      <4> QED
        BY <1>7, <2>1, <4>1, FreshOrStale
    <3>2. ~ (Len(s) < LedgerCap)
      BY <1>7, <2>1, <2>3
    <3>3. Len(s) \in Nat
      BY <1>3 DEF LedgerOfLaunches
    <3>4. Cardinality(Noted') > LedgerCap
      BY <1>5, <1>9, <3>2, <3>3
    <3>5. DOMAIN r = 1 .. Len(r)
      BY <1>7 DEF LedgerOfLaunches
    <3>6. PushedOut(k)'
      BY <1>1, <2>1, <3>1, <3>4, <3>5 DEF PushedOut, Holds
    <3> QED
      BY <3>6 DEF Gone
  <2>4. CASE ~ HoldsFresh(s, k)
    BY <1>3, <1>8, <2>2, <2>4 DEF LossesStay
  <2> QED
    BY <2>3, <2>4
<1>11. \A k \in Launches : /\ Holds(ledger2', k) => k \in Noted'
                           /\ HoldsStale(ledger2', k) => k \in aged'
  BY <1>1, <1>2, <1>3, <1>4, <1>7
<1>12. LedgerKnows'
  <2>1. LedgerOfLaunches(ledger2)'
    BY <1>1, <1>7
  <2>2. \A w \in Windows : window'[w] = "none" => claimed'[w] = NoLaunch /\ taken'[w] = NoLaunch
    BY <1>2 DEF LaunchInv, LedgerKnows
  <2> QED
    BY <1>10, <1>11, <2>1, <2>2 DEF LedgerKnows
<1>13. WindowsFit'
  BY <1>2, <1>8, OtherWindowsFit DEF LaunchInv, WindowsFit
<1>14. LaunchTyped'
  BY <1>2, <1>4 DEF LaunchInv, LaunchTyped
<1> QED
  BY <1>12, <1>13, <1>14 DEF LaunchInv

\* The timeout of the ledger passes for its oldest launch.
LEMMA AgedLedgerKeeps ==
  ASSUME LaunchesAreKnown, LaunchInv, LedgerAges
  PROVE  LaunchInv'
<1>1. PICK s, r : s = ledger2 /\ r = ledger2'
  OBVIOUS
<1>2. PICK changed : changed = {s[i].launch : i \in {j \in DOMAIN s : s[j] # r[j]}}
  OBVIOUS
<1>3. /\ r = Ledger!Age(s) /\ aged' = aged \cup changed
      /\ UNCHANGED << stage, window, mappedAs, correlator, expired, taken, claimed, told, late >>
  BY <1>1, <1>2 DEF LedgerAges
<1>4. /\ LedgerOfLaunches(s) /\ \A k \in Launches : Holds(s, k) => k \in Noted
      /\ \A k \in Launches : HoldsStale(s, k) => k \in aged
      /\ \A k \in Noted : HoldsFresh(s, k) \/ Gone(k)
  BY <1>1 DEF LaunchInv, LedgerKnows
<1>5. /\ LedgerOfLaunches(r)
      /\ \A k : /\ Holds(r, k) <=> Holds(s, k)
                /\ HoldsStale(r, k) => HoldsStale(s, k) \/ k \in changed
                /\ HoldsFresh(s, k) => HoldsFresh(r, k) \/ k \in changed
  BY <1>2, <1>3, <1>4, AgeAges
<1>6. Noted' = Noted
  BY <1>3 DEF Noted
<1>7. LossesStay
  <2>1. LedgerOfLaunches(ledger2)' /\ \A k \in Noted : Holds(ledger2', k) => Holds(ledger2, k)
    BY <1>1, <1>5
  <2>2. /\ Noted \subseteq Noted' /\ late \subseteq late' /\ expired \subseteq expired'
        /\ aged \subseteq aged' /\ taken' = taken
    BY <1>3, <1>6
  <2> QED
    BY <2>1, <2>2, LostIsLost
<1>8. \A k \in Noted' : HoldsFresh(ledger2', k) \/ Gone(k)'
  <2>1. SUFFICES ASSUME NEW k \in Noted, ~ HoldsFresh(r, k) PROVE Gone(k)'
    BY <1>1, <1>6
  <2>2. CASE HoldsFresh(s, k)
    BY <1>3, <1>5, <2>1, <2>2 DEF Gone
  <2>3. CASE ~ HoldsFresh(s, k)
    BY <1>4, <1>7, <2>1, <2>3, NotedIsFinite DEF LossesStay
  <2> QED
    BY <2>2, <2>3
<1>9. LedgerKnows'
  <2>1. LedgerOfLaunches(ledger2)'
    BY <1>1, <1>5
  <2>2. \A k \in Launches : /\ Holds(ledger2', k) => k \in Noted'
                            /\ HoldsStale(ledger2', k) => k \in aged'
    BY <1>1, <1>3, <1>4, <1>5, <1>6
  <2>3. \A w \in Windows : window'[w] = "none" => claimed'[w] = NoLaunch /\ taken'[w] = NoLaunch
    BY <1>3 DEF LaunchInv, LedgerKnows
  <2> QED
    BY <1>8, <2>1, <2>2, <2>3 DEF LedgerKnows
<1>10. WindowsFit'
  BY <1>3, <1>7, OtherWindowsFit DEF LaunchInv, WindowsFit
<1>11. LaunchTyped'
  BY <1>3 DEF LaunchInv, LaunchTyped
<1> QED
  BY <1>9, <1>10, <1>11 DEF LaunchInv

\* A window w consumes launch c, or none: what the ledger knows then.
LEMMA AttributedWindowKeeps ==
  ASSUME LaunchesAreKnown, LaunchInv, NEW w \in Windows, taken[w] = NoLaunch,
         NEW c, c = NoLaunch \/ (c \in Launches /\ Holds(ledger2, c)), Attribute(w, c),
         UNCHANGED << stage, aged, expired >>, late \subseteq late',
         \A v \in Windows : window'[v] = "none" => window[v] = "none" /\ claimed'[v] = claimed[v],
         window'[w] # "none"
  PROVE  LossesStay /\ LedgerKnows' /\ taken' \in [Windows -> Launches \cup {NoLaunch}]
<1>1. PICK s, r : s = ledger2 /\ r = ledger2'
  OBVIOUS
<1>2. /\ taken' = [taken EXCEPT ![w] = c]
      /\ r = IF c = NoLaunch THEN s ELSE Ledger!Take(s, c)
  BY <1>1 DEF Attribute
<1>3. /\ LedgerOfLaunches(s) /\ \A k \in Launches : Holds(s, k) => k \in Noted
      /\ \A k \in Launches : HoldsStale(s, k) => k \in aged
      /\ \A k \in Noted : HoldsFresh(s, k) \/ Gone(k)
  BY <1>1 DEF LaunchInv, LedgerKnows
<1>4. /\ LedgerOfLaunches(r)
      /\ \A k : HoldsFresh(r, k) <=> (HoldsFresh(s, k) /\ (c = NoLaunch \/ k # c))
      /\ \A k : HoldsStale(r, k) => HoldsStale(s, k)
  <2>1. CASE c = NoLaunch
    BY <1>2, <1>3, <2>1
  <2>2. CASE c # NoLaunch
    <3>1. r = Ledger!Take(s, c)
      BY <1>2, <2>2
    <3>2. /\ LedgerOfLaunches(Ledger!Take(s, c))
          /\ \A k : HoldsFresh(Ledger!Take(s, c), k) <=> (HoldsFresh(s, k) /\ k # c)
          /\ \A k : HoldsStale(Ledger!Take(s, c), k) <=> (HoldsStale(s, k) /\ k # c)
      BY <1>3, TakeTakes
    <3> QED
      BY <2>2, <3>1, <3>2
  <2> QED
    BY <2>1, <2>2
<1>5. \A k : Holds(r, k) => Holds(s, k)
  BY <1>3, <1>4, FreshOrStale
<1>6. Noted' = Noted
  BY DEF Noted
<1>7. /\ taken' \in [Windows -> Launches \cup {NoLaunch}] /\ taken'[w] = c
      /\ \A v \in Windows \ {w} : taken'[v] = taken[v]
  <2>1. taken \in [Windows -> Launches \cup {NoLaunch}]
    BY DEF LaunchInv, LaunchTyped
  <2> QED
    BY <1>2, <2>1
<1>8. LossesStay
  <2>1. LedgerOfLaunches(ledger2)' /\ \A k \in Noted : Holds(ledger2', k) => Holds(ledger2, k)
    BY <1>1, <1>4, <1>5
  <2>2. /\ Noted \subseteq Noted' /\ expired \subseteq expired' /\ aged \subseteq aged'
        /\ \A v \in Windows : taken[v] # NoLaunch => taken'[v] = taken[v]
    BY <1>6, <1>7
  <2> QED
    BY <2>1, <2>2, LostIsLost
<1>9. \A k \in Noted' : HoldsFresh(ledger2', k) \/ Gone(k)'
  <2>1. SUFFICES ASSUME NEW k \in Noted, ~ HoldsFresh(r, k) PROVE Gone(k)'
    BY <1>1, <1>6
  <2>2. CASE HoldsFresh(s, k)
    <3>1. taken'[w] = k
      BY <1>4, <1>7, <2>1, <2>2
    <3> QED
      BY <3>1 DEF Gone
  <2>3. CASE ~ HoldsFresh(s, k)
    BY <1>3, <1>8, <2>1, <2>3, NotedIsFinite DEF LossesStay
  <2> QED
    BY <2>2, <2>3
<1>10. LedgerKnows'
  <2>1. LedgerOfLaunches(ledger2)'
    BY <1>1, <1>4
  <2>2. \A k \in Launches : /\ Holds(ledger2', k) => k \in Noted'
                            /\ HoldsStale(ledger2', k) => k \in aged'
    BY <1>1, <1>3, <1>4, <1>5, <1>6
  <2>3. \A v \in Windows : window'[v] = "none" => claimed'[v] = NoLaunch /\ taken'[v] = NoLaunch
    BY <1>7 DEF LaunchInv, LedgerKnows
  <2> QED
    BY <1>9, <2>1, <2>2, <2>3 DEF LedgerKnows
<1> QED
  BY <1>7, <1>8, <1>10

\* w maps: it consumes what the ledger names, which is its own launch or no worse a match, unless
\* the ledger has lost its own one.
LEMMA MappedWindowKeeps ==
  ASSUME LaunchesAreKnown, LaunchInv, NEW w \in Windows, MapWindow(w)
  PROVE  LaunchInv'
<1>1. PICK id : id = appId[w]
  OBVIOUS
<1>2. PICK c : c = Ledger!Correlate(ledger2, id, Pid(w), TitleOf[w])
  OBVIOUS
<1>3. /\ Running(w) /\ window[w] = "none" /\ window' = [window EXCEPT ![w] = "mapped"]
      /\ mappedAs' = [mappedAs EXCEPT ![w] = id] /\ claimed' = [claimed EXCEPT ![w] = c]
      /\ Attribute(w, c)
      /\ late' = IF StartedBy[w] \in Launches /\ stage[StartedBy[w]] \in {"spawned", "recorded"}
                 THEN late \cup {<< w, "ledger" >>} ELSE late
      /\ UNCHANGED << stage, correlator, expired, aged, told >>
  BY <1>1, <1>2 DEF MapWindow
<1>4. LedgerOfLaunches(ledger2) /\ claimed[w] = NoLaunch /\ taken[w] = NoLaunch
  BY <1>3 DEF LaunchInv, LedgerKnows
<1>5. /\ c = NoLaunch \/ (c \in Launches /\ Holds(ledger2, c))
      /\ c # NoLaunch => LedgerTrustIn(w, id, c) > 0
      /\ \A l \in Launches :
           HoldsFresh(ledger2, l) => LedgerTrustIn(w, id, l) <= LedgerTrustIn(w, id, c)
  BY <1>2, <1>4, LedgerAnswers
<1>6. /\ mappedAs' = [v \in Windows |-> mappedAs'[v]] /\ mappedAs'[w] = id
      /\ claimed' \in [Windows -> Launches \cup {NoLaunch}] /\ claimed'[w] = c
      /\ window' \in [Windows -> {"none", "mapped", "handled"}] /\ window'[w] = "mapped"
      /\ \A v \in Windows \ {w} : /\ mappedAs'[v] = mappedAs[v] /\ claimed'[v] = claimed[v]
                                  /\ window'[v] = window[v]
  <2>1. /\ mappedAs = [v \in Windows |-> mappedAs[v]]
        /\ claimed \in [Windows -> Launches \cup {NoLaunch}]
        /\ window \in [Windows -> {"none", "mapped", "handled"}]
    BY DEF LaunchInv, LaunchTyped
  <2>2. /\ mappedAs' = [v \in Windows |-> mappedAs'[v]] /\ mappedAs'[w] = id
        /\ \A v \in Windows \ {w} : mappedAs'[v] = mappedAs[v]
    BY <1>3, <2>1
  <2> QED
    BY <1>3, <1>5, <2>1, <2>2
<1>7. LossesStay /\ LedgerKnows' /\ taken' \in [Windows -> Launches \cup {NoLaunch}]
  <2>1. /\ UNCHANGED << stage, aged, expired >> /\ late \subseteq late' /\ window'[w] # "none"
        /\ \A v \in Windows : window'[v] = "none" => window[v] = "none" /\ claimed'[v] = claimed[v]
    BY <1>3, <1>6
  <2> QED
    BY <1>3, <1>4, <1>5, <2>1, AttributedWindowKeeps
<1>8. WindowFits(w)'
  <2>1. SUFFICES ASSUME StartedBy[w] \in Launches
                 PROVE  \/ LostToLedger(w)'
                        \/ LedgerTrustIn(w, id, StartedBy[w]) <= LedgerTrustIn(w, id, c)
    BY <1>5, <1>6 DEF WindowFits, LedgerBacks
  <2>2. PICK own \in Launches : own = StartedBy[w]
    BY <2>1
  <2>3. CASE stage[own] \in {"spawned", "recorded"}
    <3>1. << w, "ledger" >> \in late'
      BY <1>3, <2>2, <2>3
    <3> QED
      BY <3>1 DEF LostToLedger
  <2>4. CASE stage[own] \notin {"spawned", "recorded"}
    <3>1. own \in Noted
      BY <1>3, <2>2, <2>4 DEF Running, LaunchInv, LaunchTyped, LaunchStages, Noted
    <3>2. CASE HoldsFresh(ledger2, own)
      BY <1>5, <2>2, <3>2
    <3>3. CASE Gone(own)
      <4>1. own # NoLaunch
        BY DEF LaunchesAreKnown
      <4>2. LostToLedger(w)
        BY <1>4, <2>2, <3>3, <4>1 DEF Gone, LostToLedger
      <4> QED
        BY <1>7, <2>1, <4>2 DEF LossesStay
    <3> QED
      BY <3>1, <3>2, <3>3 DEF LaunchInv, LedgerKnows
  <2> QED
    BY <2>3, <2>4
<1>9. \A v \in Windows \ {w} : WindowFits(v)'
  BY <1>3, <1>6, <1>7, OtherWindowsFit DEF LaunchInv, WindowsFit
<1>10. LaunchTyped'
  BY <1>3, <1>6, <1>7 DEF LaunchInv, LaunchTyped
<1> QED
  BY <1>7, <1>8, <1>9, <1>10 DEF LaunchInv, WindowsFit

\* An app id that arrives late may consume a launch; what the event said stays as it was.
LEMMA LateAppIdKeeps ==
  ASSUME LaunchesAreKnown, LaunchInv, NEW w \in Windows, SetAppId(w)
  PROVE  LaunchInv'
<1>1. UNCHANGED << stage, window, mappedAs, correlator, expired, aged, claimed, told, late >>
  BY DEF SetAppId
<1>2. LossesStay /\ LedgerKnows' /\ taken' \in [Windows -> Launches \cup {NoLaunch}]
  <2>1. CASE window[w] # "none" /\ taken[w] = NoLaunch
    <3>1. PICK c : c = Ledger!Correlate(ledger2, LateAppIdOf[w], Pid(w), TitleOf[w])
      OBVIOUS
    <3>2. Attribute(w, c)
      BY <2>1, <3>1 DEF SetAppId
    <3>3. LedgerOfLaunches(ledger2)
      BY DEF LaunchInv, LedgerKnows
    <3>4. c = NoLaunch \/ (c \in Launches /\ Holds(ledger2, c))
      BY <3>1, <3>3, LedgerAnswers
    <3> QED
      BY <1>1, <2>1, <3>2, <3>4, AttributedWindowKeeps
  <2>2. CASE ~ (window[w] # "none" /\ taken[w] = NoLaunch)
    <3>1. taken' = taken /\ ledger2' = ledger2
      BY <2>2 DEF SetAppId
    <3>2. LaunchInv'
      BY <1>1, <3>1, QuietLaunchStep DEF LaunchInv, LaunchTyped, Noted
    <3>3. LossesStay
      <4>1. LedgerOfLaunches(ledger2)' /\ \A l \in Noted : Holds(ledger2', l) => Holds(ledger2, l)
        BY <3>1 DEF LaunchInv, LedgerKnows
      <4>2. Noted' = Noted
        BY <1>1 DEF Noted
      <4> QED
        BY <1>1, <3>1, <4>1, <4>2, LostIsLost
    <3> QED
      BY <3>2, <3>3 DEF LaunchInv, LaunchTyped
  <2> QED
    BY <2>1, <2>2
<1>3. WindowsFit'
  BY <1>1, <1>2, OtherWindowsFit DEF LaunchInv, WindowsFit
<1>4. LaunchTyped'
  BY <1>1, <1>2 DEF LaunchInv, LaunchTyped
<1> QED
  BY <1>2, <1>3, <1>4 DEF LaunchInv

\* The pump handles the window of w, and asks the correlator if the compositor did not know.
LEMMA HandledWindowKeeps ==
  ASSUME LaunchesAreKnown, LaunchInv, NEW w \in Windows, HandleCreated(w)
  PROVE  LaunchInv'
<1>1. PICK c, answer : c = Correlated(w) /\ answer = IF claimed[w] = NoLaunch THEN c ELSE claimed[w]
  OBVIOUS
<1>2. /\ window[w] = "mapped" /\ window' = [window EXCEPT ![w] = "handled"]
      /\ told' = [told EXCEPT ![w] = answer]
      /\ late' = IF StartedBy[w] \in correlator THEN late ELSE late \cup {<< w, "correlator" >>}
      /\ UNCHANGED << stage, mappedAs, correlator, expired, ledger2, aged, taken, claimed >>
  BY <1>1 DEF HandleCreated
<1>3. /\ c = NoLaunch \/ c \in Launches
      /\ c # NoLaunch => CorrelatorTrustIn(w, mappedAs[w], c) > 0
      /\ \A l \in correlator \ expired :
           CorrelatorTrustIn(w, mappedAs[w], l) <= CorrelatorTrustIn(w, mappedAs[w], c)
  <2>1. correlator \subseteq Launches
    BY DEF LaunchInv, LaunchTyped
  <2>2. /\ c = NoLaunch \/ c \in Launches
        /\ c # NoLaunch => CorrelatorTrust(w, c) > 0
        /\ \A l \in correlator \ expired : CorrelatorTrust(w, l) <= CorrelatorTrust(w, c)
    BY <1>1, <2>1, CorrelatorAnswers
  <2> QED
    BY <2>2, TrustIsOfTheEvent
<1>4. Noted' = Noted
  BY <1>2 DEF Noted
<1>5. LossesStay
  <2>1. LedgerOfLaunches(ledger2)' /\ \A k \in Noted : Holds(ledger2', k) => Holds(ledger2, k)
    BY <1>2 DEF LaunchInv, LedgerKnows
  <2>2. late \subseteq late'
    BY <1>2
  <2> QED
    BY <1>2, <1>4, <2>1, <2>2, LostIsLost
<1>6. /\ window' \in [Windows -> {"none", "mapped", "handled"}] /\ window'[w] = "handled"
      /\ told' \in [Windows -> Launches \cup {NoLaunch}] /\ told'[w] = answer
      /\ \A v \in Windows \ {w} : told'[v] = told[v] /\ window'[v] = window[v]
  BY <1>1, <1>2, <1>3 DEF LaunchInv, LaunchTyped
<1>7. WindowFits(w)'
  <2>1. LedgerBacks(w)'
    <3>1. LedgerBacks(w)
      BY <1>2 DEF LaunchInv, WindowsFit, WindowFits
    <3> QED
      BY <1>2, <1>5, <3>1 DEF LedgerBacks, LossesStay
  <2>2. ASSUME claimed[w] = NoLaunch PROVE CorrelatorBacks(w)'
    <3>1. told'[w] = c
      BY <1>1, <1>6, <2>2
    <3>2. StartedBy[w] \notin correlator \ expired => LostToCorrelator(w)'
      BY <1>2 DEF LostToCorrelator
    <3> QED
      BY <1>2, <1>3, <3>1, <3>2 DEF CorrelatorBacks
  <2>3. claimed[w] # NoLaunch => told'[w] = claimed[w]
    BY <1>1, <1>6
  <2> QED
    BY <1>2, <2>1, <2>2, <2>3 DEF WindowFits
<1>8. \A v \in Windows \ {w} : WindowFits(v)'
  BY <1>2, <1>5, <1>6, OtherWindowsFit DEF LaunchInv, WindowsFit
<1>9. LedgerKnows'
  <2>1. \A k \in Noted' : HoldsFresh(ledger2', k) \/ Gone(k)'
    BY <1>2, <1>4, <1>5, NotedIsFinite DEF LaunchInv, LedgerKnows, LossesStay
  <2>2. \A v \in Windows : window'[v] = "none" => claimed'[v] = NoLaunch /\ taken'[v] = NoLaunch
    BY <1>2, <1>6 DEF LaunchInv, LedgerKnows
  <2> QED
    BY <1>2, <1>4, <2>1, <2>2 DEF LaunchInv, LedgerKnows
<1>10. LaunchTyped'
  BY <1>2, <1>6 DEF LaunchInv, LaunchTyped
<1> QED
  BY <1>7, <1>8, <1>9, <1>10 DEF LaunchInv, WindowsFit

LEMMA LaunchKept ==
  ASSUME LaunchesAreKnown, LaunchInv, [LaunchNext]_launchVars
  PROVE  LaunchInv'
<1>1. ASSUME NEW l \in Launches,
             \/ QueryAndReserve(l) \/ Spawn(l) \/ RecordLaunch(l) \/ NoteLaunch(l) \/ Announce(l)
             \/ Expire(l)
      PROVE  LaunchInv'
  BY <1>1, QuietLaunchSteps, NotedLaunchKeeps
<1>2. ASSUME NEW w \in Windows, MapWindow(w) \/ SetAppId(w) \/ HandleCreated(w)
      PROVE  LaunchInv'
  BY <1>2, MappedWindowKeeps, LateAppIdKeeps, HandledWindowKeeps
<1>3. CASE UNCHANGED launchVars
  <2>1. UNCHANGED << stage, window, mappedAs, correlator, expired, ledger2, aged, taken, claimed,
                     told, late >>
    BY <1>3 DEF launchVars
  <2> QED
    BY <2>1, QuietLaunchStep DEF LaunchInv, LaunchTyped, Noted
<1> QED
  BY <1>1, <1>2, <1>3, AgedLedgerKeeps DEF LaunchNext

(***************************************************************************)
(* However the launches, the windows and the timeouts interleave, whatever *)
(* the windows look like and whatever a full ledger drops: an attribution  *)
(* has evidence, and the launch a window came from is passed over only for *)
(* one with no less evidence, or because it was lost to the attributor     *)
(* (WindowsFindTheirLaunch; dispatch/apps.rs, wm.rs, correlate.rs).        *)
(***************************************************************************)
THEOREM LaunchesAreAttributed ==
  ASSUME LaunchesAreKnown PROVE LaunchSpec => []WindowsFindTheirLaunch
<1>1. LaunchInit => LaunchInv
  BY LaunchStarts
<1>2. LaunchInv /\ [LaunchNext]_launchVars => LaunchInv'
  BY LaunchKept
<1>3. LaunchInv => WindowsFindTheirLaunch
  BY FittingWindowsFind
<1> QED
  BY <1>1, <1>2, <1>3, PTL DEF LaunchSpec
=============================================================================
