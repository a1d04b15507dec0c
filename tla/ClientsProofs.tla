---------------------------- MODULE ClientsProofs ----------------------------
(***************************************************************************)
(* The client programs for every budget and every bound: the agent's loop  *)
(* stops when it says it does and leaves no effect off the record, a reply *)
(* of the viewer's session reaches the call it answers, and the worker     *)
(* behind the viewer's window knows whether the runtime records.           *)
(***************************************************************************)
EXTENDS AgentLoop, ViewerBridge, MapsTheorems, SequenceTheorems

-----------------------------------------------------------------------------
(* Runs of one value at the end of a list, and lists that grow.            *)

\* The last n of s are x, and no more.
RunAtEnd(s, n, x) ==
  /\ n \in Nat /\ n <= Len(s)
  /\ \A i \in Len(s) - n + 1 .. Len(s) : s[i] = x
  /\ n < Len(s) => s[Len(s) - n] # x

LEMMA RunDecides ==
  ASSUME NEW S, NEW s \in Seq(S), NEW n, NEW x, RunAtEnd(s, n, x), NEW m \in Nat
  PROVE  EndsWith(s, m, {x}) <=> m <= n
<1>1. Len(s) \in Nat /\ n \in Nat /\ n <= Len(s)
  BY DEF RunAtEnd
<1>2. ASSUME m <= n PROVE EndsWith(s, m, {x})
  <2>1. m <= Len(s) /\ \A i \in Len(s) - m + 1 .. Len(s) : i \in Len(s) - n + 1 .. Len(s)
    BY <1>1, <1>2
  <2> QED
    BY <2>1 DEF RunAtEnd, EndsWith
<1>3. ASSUME n < m PROVE ~ EndsWith(s, m, {x})
  <2>1. SUFFICES ASSUME EndsWith(s, m, {x}) PROVE FALSE
    OBVIOUS
  <2>2. n < Len(s) /\ Len(s) - n \in Len(s) - m + 1 .. Len(s)
    BY <1>1, <1>3, <2>1 DEF EndsWith
  <2> QED
    BY <2>1, <2>2 DEF RunAtEnd, EndsWith
<1> QED
  BY <1>1, <1>2, <1>3

LEMMA AppendFacts ==
  ASSUME NEW S, NEW s \in Seq(S), NEW e \in S, NEW t, t = Append(s, e), NEW n, n = Len(s)
  PROVE  /\ t \in Seq(S) /\ n \in Nat /\ Len(t) = n + 1 /\ t[n + 1] = e
         /\ \A i \in 1 .. n : t[i] = s[i]
  OBVIOUS

LEMMA RunGrows ==
  ASSUME NEW S, NEW s \in Seq(S), NEW n, NEW x, RunAtEnd(s, n, x), NEW y \in S
  PROVE  /\ y = x => RunAtEnd(Append(s, y), n + 1, x)
         /\ y # x => RunAtEnd(Append(s, y), 0, x)
<1>1. PICK t, l : t = Append(s, y) /\ l = Len(s)
  OBVIOUS
<1>2. /\ l \in Nat /\ n \in Nat /\ n <= l /\ Len(t) = l + 1 /\ t[l + 1] = y
      /\ \A i \in 1 .. l : t[i] = s[i]
      /\ \A i \in l - n + 1 .. l : s[i] = x
      /\ n < l => s[l - n] # x
  BY <1>1, AppendFacts DEF RunAtEnd
<1>3. ASSUME y = x PROVE RunAtEnd(t, n + 1, x)
  <2>1. \A i \in (l + 1) - (n + 1) + 1 .. l + 1 : t[i] = x
    <3>1. ASSUME NEW i \in (l + 1) - (n + 1) + 1 .. l + 1 PROVE t[i] = x
      <4>1. i = l + 1 \/ (i \in 1 .. l /\ i \in l - n + 1 .. l)
        BY <1>2
      <4> QED
        BY <1>2, <1>3, <4>1
    <3> QED
      BY <3>1
  <2>2. n + 1 < l + 1 => t[(l + 1) - (n + 1)] # x
    <3>1. SUFFICES ASSUME n < l PROVE t[l - n] # x
      BY <1>2
    <3>2. l - n \in 1 .. l
      BY <1>2, <3>1
    <3> QED
      BY <1>2, <3>1, <3>2
  <2> QED
    BY <1>2, <2>1, <2>2 DEF RunAtEnd
<1>4. ASSUME y # x PROVE RunAtEnd(t, 0, x)
  BY <1>2, <1>4 DEF RunAtEnd
<1> QED
  BY <1>1, <1>3, <1>4

-----------------------------------------------------------------------------
(* The agent: types.                                                       *)

\* The decisions of the provider and the budgets of a configuration.
AgentIsKnown ==
  /\ Decisions \subseteq {"input", "activate", "read", "observe", "tree", "invoke"}
  /\ MaxSteps \in Nat /\ Retries \in Nat /\ MaxFailures \in Nat \ {0}
  /\ MaxIdleWaits \in Nat \ {0} /\ MaxWakeups \in Nat \ {0}

AgentCalls == {"act", "invoke", "read", "observe", "tree"}
Statuses == {"ok", "recovered", "failed", "finished"}
StepEntries == [status : Statuses, invoke : BOOLEAN, action : Nat, noted : BOOLEAN]
Executions == [invoke : BOOLEAN, action : Nat, attempts : Nat, noted : BOOLEAN]

\* Of the calls left of a decision only the first may have an effect.
AgentTyped ==
  /\ doing \in {"off", "ping", "event", "decision", "call", "over"}
  /\ job \in [steps : Nat, failed : Nat, from : Nat]
  /\ callsLeft \in Seq(AgentCalls) /\ \A i \in 2 .. Len(callsLeft) : callsLeft[i] \notin Acts
  /\ execution \in Executions
  /\ history \in Seq(StepEntries) /\ effects \in Seq(Nat \ {0})

LEMMA CallsAreTyped ==
  ASSUME AgentIsKnown, NEW d \in Decisions
  PROVE  /\ CallsOf(d) \in Seq(AgentCalls)
         /\ \A i \in 2 .. Len(CallsOf(d)) : CallsOf(d)[i] \notin Acts
<1>1. PICK o : o = Observation
  OBVIOUS
<1>2. /\ o \in Seq(AgentCalls) /\ \A i \in 1 .. Len(o) : o[i] \notin Acts
  <2>1. CASE Accessible
    <3>1. o = << "observe", "tree" >> /\ Len(o) = 2
      BY <1>1, <2>1 DEF Observation
    <3>2. o[1] = "observe" /\ o[2] = "tree"
      BY <3>1
    <3>3. \A i \in 1 .. Len(o) : i = 1 \/ i = 2
      BY <3>1
    <3> QED
      BY <3>1, <3>2, <3>3 DEF AgentCalls, Acts
  <2>2. CASE ~ Accessible
    <3>1. o = << "observe" >> /\ Len(o) = 1
      BY <1>1, <2>2 DEF Observation
    <3>2. o[1] = "observe" /\ \A i \in 1 .. Len(o) : i = 1
      BY <3>1
    <3> QED
      BY <3>1, <3>2 DEF AgentCalls, Acts
  <2> QED
    BY <2>1, <2>2
<1>3. d \in {"input", "activate", "read", "observe", "tree", "invoke"}
  BY DEF AgentIsKnown
<1>4. CASE d = "input"
  <2>1. CallsOf(d) = << "act" >> \o o
    BY <1>1, <1>4 DEF CallsOf
  <2>2. << "act" >> \in Seq(AgentCalls)
    BY DEF AgentCalls
  <2>3. << "act" >> \o o \in Seq(AgentCalls) /\ Len(<< "act" >> \o o) = 1 + Len(o) /\ Len(o) \in Nat
    BY <1>2, <2>2
  <2>4. \A i \in 2 .. 1 + Len(o) : (<< "act" >> \o o)[i] = o[i - 1] /\ i - 1 \in 1 .. Len(o)
    BY <1>2, <2>3
  <2> QED
    BY <1>2, <2>1, <2>3, <2>4
<1>5. CASE d = "activate"
  BY <1>5 DEF CallsOf, AgentCalls
<1>6. CASE d = "read"
  BY <1>6 DEF CallsOf, AgentCalls
<1>7. CASE d = "observe"
  BY <1>1, <1>2, <1>7 DEF CallsOf
<1>8. CASE d \in {"tree", "invoke"}
  <2>1. CallsOf(d) = IF Accessible THEN << d >> ELSE << >>
    BY <1>8 DEF CallsOf
  <2> QED
    BY <1>8, <2>1 DEF AgentCalls
<1> QED
  BY <1>3, <1>4, <1>5, <1>6, <1>7, <1>8

-----------------------------------------------------------------------------
(* The agent: what the runtime did is on record.                           *)

\* An effect that no step names has a step with a failed attempt behind it, or an unsure one.
OnRecord(entry, a) ==
  entry.action = a \/ entry.status \in {"recovered", "failed"} \/ Unsure(entry)

Traced(h, e) ==
  \A a \in 1 .. Len(e) : e[a] <= Len(h) + 1 /\ (e[a] <= Len(h) => OnRecord(h[e[a]], a))

NoActLeft == callsLeft = << >> \/ Head(callsLeft) \notin Acts

\* The step under way names its effect, or counts a failed attempt, or is an unsure invocation.
Tracing ==
  \A a \in 1 .. Len(effects) : effects[a] = ThisStep =>
    /\ doing = "call"
    /\ execution.attempts > 0 \/ ((execution.action = a \/ Unsure(execution)) /\ NoActLeft)

\* A call that acts is the first of its decision, and an invocation is known for one.
Invoking ==
  ~ NoActLeft => execution.action = 0 /\ (Head(callsLeft) = "invoke" => execution.invoke)

EffectsInv == Traced(history, effects) /\ Tracing /\ Invoking

LEMMA TraceGrows ==
  ASSUME NEW h \in Seq(StepEntries), NEW e \in Seq(Nat \ {0}), Traced(h, e), NEW x \in StepEntries,
         \A a \in 1 .. Len(e) : e[a] = Len(h) + 1 => OnRecord(x, a)
  PROVE  /\ Traced(Append(h, x), e) /\ Len(Append(h, x)) = Len(h) + 1
         /\ \A a \in 1 .. Len(e) : e[a] <= Len(h) + 1
<1>1. PICK t, n : t = Append(h, x) /\ n = Len(h)
  OBVIOUS
<1>2. n \in Nat /\ Len(t) = n + 1 /\ t[n + 1] = x /\ \A i \in 1 .. n : t[i] = h[i]
  BY <1>1, AppendFacts
<1>3. ASSUME NEW a \in 1 .. Len(e)
      PROVE  e[a] <= Len(t) + 1 /\ e[a] <= n + 1 /\ (e[a] <= Len(t) => OnRecord(t[e[a]], a))
  <2>1. PICK p \in Nat \ {0} : p = e[a]
    OBVIOUS
  <2>2. p <= n + 1 /\ (p <= n => OnRecord(h[p], a)) /\ (p = n + 1 => OnRecord(x, a))
    BY <1>1, <2>1 DEF Traced
  <2>3. p \in 1 .. n \/ p = n + 1
    BY <1>2, <2>2
  <2> QED
    BY <1>2, <2>1, <2>2, <2>3
<1> QED
  BY <1>1, <1>2, <1>3 DEF Traced

LEMMA EffectAdded ==
  ASSUME NEW h \in Seq(StepEntries), NEW e \in Seq(Nat \ {0}), Traced(h, e)
  PROVE  /\ Traced(h, Append(e, Len(h) + 1)) /\ Append(e, Len(h) + 1) \in Seq(Nat \ {0})
         /\ Len(Append(e, Len(h) + 1)) = Len(e) + 1
         /\ Append(e, Len(h) + 1)[Len(e) + 1] = Len(h) + 1
         /\ \A a \in 1 .. Len(e) : Append(e, Len(h) + 1)[a] = e[a]
<1>1. PICK n : n = Len(h) + 1
  OBVIOUS
<1>2. n \in Nat \ {0} /\ ~ (n <= Len(h)) /\ n <= Len(h) + 1
  BY <1>1
<1>3. PICK t, l : t = Append(e, n) /\ l = Len(e)
  OBVIOUS
<1>4. /\ t \in Seq(Nat \ {0}) /\ l \in Nat /\ Len(t) = l + 1 /\ t[l + 1] = n
      /\ \A i \in 1 .. l : t[i] = e[i]
  BY <1>2, <1>3, AppendFacts
<1>5. ASSUME NEW a \in 1 .. Len(t)
      PROVE  t[a] <= Len(h) + 1 /\ (t[a] <= Len(h) => OnRecord(h[t[a]], a))
  <2>1. a \in 1 .. l \/ a = l + 1
    BY <1>4
  <2>2. CASE a \in 1 .. l
    BY <1>3, <1>4, <2>2 DEF Traced
  <2>3. CASE a = l + 1
    BY <1>2, <1>4, <2>3
  <2> QED
    BY <2>1, <2>2, <2>3
<1> QED
  BY <1>1, <1>3, <1>4, <1>5 DEF Traced

\* The steps between two decisions.
LEMMA RestKeepsEffects ==
  ASSUME AgentIsKnown, AgentTyped, EffectsInv,
         Start \/ Ping \/ TimePasses \/ StayIdle \/ WakeUp \/ WaitFails
  PROVE  AgentTyped' /\ EffectsInv'
<1>1. /\ UNCHANGED << callsLeft, execution, history, effects >> /\ doing # "call"
      /\ doing' \in {"off", "ping", "event", "decision", "call", "over"}
      /\ job' \in [steps : Nat, failed : Nat, from : Nat]
  <2>1. CASE Start
    BY <2>1 DEF Start, step, record, AgentTyped
  <2>2. CASE Ping
    BY <2>2 DEF Ping, step, record, AgentTyped, NextStep, JobEnds, Stop
  <2>3. CASE TimePasses
    BY <2>3 DEF TimePasses, step, record, AgentTyped
  <2>4. CASE StayIdle
    BY <2>4 DEF StayIdle, step, record, AgentTyped, Stop
  <2>5. CASE WakeUp
    <3>1. job' = NewJob /\ UNCHANGED << step, record >> /\ doing = "event"
      BY <2>5 DEF WakeUp
    <3>2. Len(history) \in Nat
      BY DEF AgentTyped
    <3>3. NewJob \in [steps : Nat, failed : Nat, from : Nat]
      BY <3>2 DEF NewJob
    <3>4. doing' \in {"decision", "over", "event"}
      BY <2>5, <3>1 DEF WakeUp, Stop
    <3> QED
      BY <3>1, <3>3, <3>4 DEF step, record
  <2>6. CASE WaitFails
    BY <2>6 DEF WaitFails, step, record, AgentTyped, Stop
  <2> QED
    BY <2>1, <2>2, <2>3, <2>4, <2>5, <2>6
<1>2. AgentTyped'
  BY <1>1 DEF AgentTyped
<1>3. \A a \in 1 .. Len(effects) : effects[a] # ThisStep
  BY <1>1 DEF EffectsInv, Tracing
<1> QED
  BY <1>1, <1>2, <1>3 DEF EffectsInv, Tracing, Invoking, NoActLeft, ThisStep

\* A step is recorded, and whatever it caused is behind it.
LEMMA RecordingKeepsEffects ==
  ASSUME AgentTyped, EffectsInv, Invoking', NEW x \in StepEntries, history' = Append(history, x),
         NEW e \in Seq(Nat \ {0}), effects' = e, Traced(history, e),
         \A a \in 1 .. Len(e) : e[a] = Len(history) + 1 => OnRecord(x, a)
  PROVE  EffectsInv' /\ history' \in Seq(StepEntries)
<1>1. PICK h : h = history
  OBVIOUS
<1>2. h \in Seq(StepEntries) /\ Len(h) \in Nat
  BY <1>1 DEF AgentTyped
<1>3. /\ Traced(Append(h, x), e) /\ Len(Append(h, x)) = Len(h) + 1
      /\ \A a \in 1 .. Len(e) : e[a] <= Len(h) + 1
  BY <1>1, <1>2, TraceGrows
<1>4. \A a \in 1 .. Len(e) : e[a] # Len(Append(h, x)) + 1
  <2>1. \A a \in 1 .. Len(e) : e[a] \in Nat
    OBVIOUS
  <2> QED
    BY <1>2, <1>3, <2>1
<1> QED
  BY <1>1, <1>2, <1>3, <1>4 DEF EffectsInv, Tracing, ThisStep

LEMMA JobGrows ==
  ASSUME AgentTyped
  PROVE  /\ [job EXCEPT !.steps = @ + 1] \in [steps : Nat, failed : Nat, from : Nat]
         /\ [job EXCEPT !.steps = @ + 1, !.failed = @ + 1] \in [steps : Nat, failed : Nat, from : Nat]
         /\ [job EXCEPT !.steps = @ + 1, !.failed = 0] \in [steps : Nat, failed : Nat, from : Nat]
<1>1. PICK s \in Nat, f \in Nat : s = job.steps + 1 /\ f = job.failed + 1
  BY DEF AgentTyped
<1> QED
  BY <1>1 DEF AgentTyped

LEMMA InvocationsAreDecided ==
  ASSUME AgentIsKnown, NEW d \in Decisions, CallsOf(d) # << >>, Head(CallsOf(d)) = "invoke"
  PROVE  d = "invoke"
<1>1. PICK o \in Seq(AgentCalls) : o = Observation /\ o # << >> /\ Head(o) = "observe"
  <2>1. /\ << "observe" >> \in Seq(AgentCalls) /\ Head(<< "observe" >>) = "observe"
        /\ << "observe", "tree" >> \in Seq(AgentCalls) /\ Head(<< "observe", "tree" >>) = "observe"
        /\ << "observe" >> # << >> /\ << "observe", "tree" >> # << >>
    BY DEF AgentCalls
  <2>2. Observation = << "observe" >> \/ Observation = << "observe", "tree" >>
    BY DEF Observation
  <2> QED
    BY <2>1, <2>2
<1>2. d \in {"input", "activate", "read", "observe", "tree", "invoke"}
  BY DEF AgentIsKnown
<1>3. CASE d = "input"
  <2>1. CallsOf(d) = << "act" >> \o o
    BY <1>1, <1>3 DEF CallsOf
  <2>2. << "act" >> \in Seq(AgentCalls)
    BY DEF AgentCalls
  <2>3. Head(<< "act" >> \o o) = "act"
    BY <1>1, <2>2
  <2> QED
    BY <2>1, <2>3
<1>4. CASE d \in {"activate", "read"}
  BY <1>4 DEF CallsOf
<1>5. CASE d = "observe"
  BY <1>1, <1>5 DEF CallsOf
<1>6. CASE d = "tree"
  <2>1. CallsOf(d) = << d >>
    BY <1>6 DEF CallsOf
  <2> QED
    BY <1>6, <2>1
<1> QED
  BY <1>2, <1>3, <1>4, <1>5, <1>6

LEMMA DecidingKeepsEffects ==
  ASSUME AgentIsKnown, AgentTyped, EffectsInv, Decide
  PROVE  AgentTyped' /\ EffectsInv'
<1>1. doing = "decision" /\ UNCHANGED effects
  BY DEF Decide
<1>2. \A a \in 1 .. Len(effects) : effects[a] # ThisStep
  BY <1>1 DEF EffectsInv, Tracing
<1>3. CASE Decided
  <2>1. PICK d \in Decisions : /\ doing' = "call" /\ callsLeft' = CallsOf(d) /\ UNCHANGED << job, history >>
                               /\ execution' = [NoExecution EXCEPT !.invoke = (d = "invoke"),
                                                                   !.noted = (callsLeft' = << >>)]
    BY <1>3 DEF Decided
  <2>2. execution' \in Executions /\ execution'.action = 0 /\ execution'.invoke = (d = "invoke")
    BY <2>1 DEF NoExecution, Executions
  <2>3. /\ callsLeft' \in Seq(AgentCalls)
        /\ \A i \in 2 .. Len(callsLeft') : callsLeft'[i] \notin Acts
    BY <2>1, CallsAreTyped
  <2>4. AgentTyped'
    BY <1>1, <2>1, <2>2, <2>3 DEF AgentTyped
  <2>5. ~ NoActLeft' /\ Head(callsLeft') = "invoke" => d = "invoke"
    BY <2>1, InvocationsAreDecided DEF NoActLeft
  <2>6. Invoking'
    BY <2>2, <2>5 DEF Invoking
  <2> QED
    BY <1>1, <1>2, <2>1, <2>4, <2>6 DEF EffectsInv, Tracing, ThisStep
<1>4. CASE Finish
  <2>1. PICK x : x = Entry("finished", NoExecution)
    OBVIOUS
  <2>5. Invoking'
    BY <1>4 DEF Finish, EffectsInv, Invoking, NoActLeft
  <2>2. /\ history' = Append(history, x) /\ job' = [job EXCEPT !.steps = @ + 1]
        /\ UNCHANGED << callsLeft, execution >> /\ doing' \in {"event", "over"}
    BY <1>4, <2>1 DEF Finish, JobEnds, Stop
  <2>3. x \in StepEntries
    BY <2>1 DEF Entry, NoExecution, StepEntries, Statuses
  <2>4. EffectsInv' /\ history' \in Seq(StepEntries)
    <3>1. effects \in Seq(Nat \ {0}) /\ Traced(history, effects)
      BY DEF AgentTyped, EffectsInv
    <3> QED
      BY <1>1, <1>2, <2>2, <2>3, <2>5, <3>1, RecordingKeepsEffects DEF ThisStep
  <2> QED
    BY <1>1, <2>2, <2>4, JobGrows DEF AgentTyped
<1>5. CASE ProviderFails
  <2>1. UNCHANGED << job, history, callsLeft, execution >> /\ doing' \in {"decision", "over"}
    BY <1>1, <1>5 DEF ProviderFails, Stop
  <2>2. AgentTyped'
    BY <1>1, <2>1 DEF AgentTyped
  <2> QED
    BY <1>1, <1>2, <2>1, <2>2 DEF EffectsInv, Tracing, Invoking, NoActLeft, ThisStep
<1> QED
  BY <1>3, <1>4, <1>5 DEF Decide

LEMMA TailOfCalls ==
  ASSUME AgentTyped, callsLeft # << >>
  PROVE  /\ Tail(callsLeft) \in Seq(AgentCalls) /\ Head(callsLeft) \in AgentCalls
         /\ \A i \in 1 .. Len(Tail(callsLeft)) : Tail(callsLeft)[i] \notin Acts
<1>1. PICK s, t : s = callsLeft /\ t = Tail(s)
  OBVIOUS
<1>2. s \in Seq(AgentCalls) /\ s # << >> /\ \A i \in 2 .. Len(s) : s[i] \notin Acts
  BY <1>1 DEF AgentTyped
<1>3. /\ t \in Seq(AgentCalls) /\ Len(t) = Len(s) - 1 /\ Len(s) \in Nat \ {0} /\ Head(s) \in AgentCalls
      /\ \A i \in 1 .. Len(t) : t[i] = s[i + 1] /\ i + 1 \in 2 .. Len(s)
  BY <1>1, <1>2
<1> QED
  BY <1>1, <1>2, <1>3

\* Where effects stand after a call: nothing new, or one more of this step.
LEMMA EffectsOfACall ==
  ASSUME AgentTyped, EffectsInv,
         UNCHANGED effects \/ effects' = Append(effects, ThisStep)
  PROVE  /\ effects' \in Seq(Nat \ {0}) /\ Traced(history, effects')
         /\ \A a \in 1 .. Len(effects) : effects'[a] = effects[a]
         /\ \A a \in 1 .. Len(effects') : a \in 1 .. Len(effects) \/ a = Len(effects')
         /\ ~ UNCHANGED effects => Len(effects') = Len(effects) + 1
<1>1. PICK h, e : h = history /\ e = effects
  OBVIOUS
<1>2. h \in Seq(StepEntries) /\ e \in Seq(Nat \ {0}) /\ Traced(h, e) /\ Len(e) \in Nat
  BY <1>1 DEF AgentTyped, EffectsInv
<1>3. CASE UNCHANGED effects
  BY <1>1, <1>2, <1>3
<1>4. CASE effects' = Append(effects, ThisStep)
  <2>1. effects' = Append(e, Len(h) + 1)
    BY <1>1, <1>4 DEF ThisStep
  <2>2. /\ Traced(h, effects') /\ effects' \in Seq(Nat \ {0}) /\ Len(effects') = Len(e) + 1
        /\ \A a \in 1 .. Len(e) : effects'[a] = e[a]
    BY <1>2, <2>1, EffectAdded
  <2>3. \A a \in 1 .. Len(e) + 1 : a \in 1 .. Len(e) \/ a = Len(e) + 1
    BY <1>2
  <2> QED
    BY <1>1, <2>2, <2>3
<1> QED
  BY <1>3, <1>4

LEMMA AnswersKeepEffects ==
  ASSUME AgentTyped, EffectsInv, doing = "call", callsLeft # << >>, NEW call, call = Head(callsLeft),
         Answered(call)
  PROVE  AgentTyped' /\ EffectsInv'
<1>1. /\ callsLeft' = Tail(callsLeft) /\ UNCHANGED << doing, job, history >>
      /\ IF call \in Acts
         THEN effects' = Append(effects, ThisStep) /\ execution' = [execution EXCEPT !.action = Len(effects')]
         ELSE UNCHANGED << effects, execution >>
  BY DEF Answered
<1>2. /\ effects' \in Seq(Nat \ {0}) /\ Traced(history, effects')
      /\ \A a \in 1 .. Len(effects) : effects'[a] = effects[a]
      /\ \A a \in 1 .. Len(effects') : a \in 1 .. Len(effects) \/ a = Len(effects')
  BY <1>1, EffectsOfACall
<1>3. PICK n \in Nat, x \in Executions : n = Len(effects') /\ x = execution
  BY <1>2 DEF AgentTyped
<1>4. callsLeft' \in Seq(AgentCalls) /\ \A i \in 1 .. Len(callsLeft') : callsLeft'[i] \notin Acts
  BY <1>1, TailOfCalls
<1>5. execution' \in Executions /\ execution'.attempts = execution.attempts
  <2>1. [x EXCEPT !.action = n] \in Executions /\ [x EXCEPT !.action = n].attempts = x.attempts
    BY DEF Executions
  <2> QED
    BY <1>1, <1>3, <2>1
<1>6. AgentTyped'
  BY <1>1, <1>2, <1>4, <1>5 DEF AgentTyped
<1>7. callsLeft' = << >> \/ Head(callsLeft') \notin Acts
  <2>1. callsLeft' # << >> => Head(callsLeft') = callsLeft'[1] /\ 1 \in 1 .. Len(callsLeft')
    BY <1>4
  <2> QED
    BY <1>4, <2>1
<1>8. ASSUME NEW a \in 1 .. Len(effects'), effects'[a] = ThisStep
      PROVE  execution'.attempts > 0 \/ execution'.action = a \/ Unsure(execution')
  <2>1. CASE call \in Acts
    <3>1. CASE a \in 1 .. Len(effects)
      <4>1. effects[a] = ThisStep
        BY <1>2, <1>8, <3>1
      <4>2. execution.attempts > 0
        BY <2>1, <3>1, <4>1 DEF EffectsInv, Tracing, NoActLeft
      <4> QED
        BY <1>5, <4>2
    <3>2. CASE a = Len(effects')
      <4>1. execution' = [x EXCEPT !.action = n]
        BY <1>1, <1>3, <2>1
      <4>2. execution'.action = n
        BY <4>1 DEF Executions
      <4> QED
        BY <1>3, <3>2, <4>2
    <3> QED
      BY <1>2, <3>1, <3>2
  <2>2. CASE call \notin Acts
    BY <1>1, <1>8, <2>2 DEF EffectsInv, Tracing
  <2> QED
    BY <2>1, <2>2
<1>9. Tracing' /\ Invoking'
  BY <1>1, <1>7, <1>8 DEF Tracing, Invoking, NoActLeft, ThisStep
<1> QED
  BY <1>1, <1>2, <1>6, <1>9 DEF EffectsInv

LEMMA DegradingKeepsEffects ==
  ASSUME AgentTyped, EffectsInv, doing = "call", callsLeft # << >>, NEW call, call = Head(callsLeft),
         Degraded(call)
  PROVE  AgentTyped' /\ EffectsInv'
<1>1. /\ callsLeft' = Tail(callsLeft) /\ UNCHANGED << doing, job, history >>
      /\ execution' = [execution EXCEPT !.noted = TRUE]
      /\ UNCHANGED effects \/ (call = "invoke" /\ effects' = Append(effects, ThisStep))
  BY DEF Degraded
<1>2. callsLeft' \in Seq(AgentCalls) /\ \A i \in 1 .. Len(callsLeft') : callsLeft'[i] \notin Acts
  BY <1>1, TailOfCalls
<1>3. PICK x \in Executions : x = execution
  BY DEF AgentTyped
<1>4. /\ execution' \in Executions /\ execution'.attempts = execution.attempts
      /\ execution'.action = execution.action /\ execution'.invoke = execution.invoke
  BY <1>1, <1>3 DEF Executions
<1>5. /\ effects' \in Seq(Nat \ {0}) /\ Traced(history, effects')
      /\ \A a \in 1 .. Len(effects) : effects'[a] = effects[a]
      /\ \A a \in 1 .. Len(effects') : a \in 1 .. Len(effects) \/ a = Len(effects')
  BY <1>1, EffectsOfACall
<1>6. AgentTyped'
  BY <1>1, <1>2, <1>4, <1>5 DEF AgentTyped
<1>7. callsLeft' = << >> \/ Head(callsLeft') \notin Acts
  <2>1. callsLeft' # << >> => Head(callsLeft') = callsLeft'[1] /\ 1 \in 1 .. Len(callsLeft')
    BY <1>2
  <2> QED
    BY <1>2, <2>1
<1>8. call = "invoke" => Unsure(execution')
  BY <1>4 DEF EffectsInv, Invoking, NoActLeft, Acts, Unsure
<1>9. ASSUME NEW a \in 1 .. Len(effects'), effects'[a] = ThisStep
      PROVE  execution'.attempts > 0 \/ execution'.action = a \/ Unsure(execution')
  <2>1. CASE call = "invoke"
    BY <1>8, <2>1
  <2>2. CASE call # "invoke"
    <3>1. UNCHANGED effects
      BY <1>1, <2>2
    <3>2. a \in 1 .. Len(effects) /\ effects[a] = ThisStep
      BY <1>9, <3>1
    <3>3. Unsure(execution) => Unsure(execution')
      BY <1>4 DEF Unsure
    <3> QED
      BY <1>4, <3>2, <3>3 DEF EffectsInv, Tracing
  <2> QED
    BY <2>1, <2>2
<1>10. Tracing' /\ Invoking'
  BY <1>1, <1>7, <1>9 DEF Tracing, Invoking, NoActLeft, ThisStep
<1> QED
  BY <1>1, <1>5, <1>6, <1>10 DEF EffectsInv

LEMMA TriedCounts ==
  ASSUME NEW x \in Executions
  PROVE  /\ Tried(x) \in Executions /\ Tried(x).attempts > 0 /\ Tried(x).action = x.action
         /\ Tried(x).invoke = x.invoke
<1>1. PICK n \in Nat : n = x.attempts
  BY DEF Executions
<1>2. PICK m \in Nat : m = n + 1 /\ m > 0
  OBVIOUS
<1>3. Tried(x) = [x EXCEPT !.attempts = m]
  BY <1>1, <1>2 DEF Tried
<1> QED
  BY <1>2, <1>3 DEF Executions

LEMMA FailedStepKeepsEffects ==
  ASSUME AgentIsKnown, AgentTyped, EffectsInv, NEW done \in Executions, NEW class,
         UNCHANGED effects \/ effects' = Append(effects, ThisStep), FailStep(done, class)
  PROVE  AgentTyped' /\ EffectsInv'
<1>1. PICK x : x = Entry("failed", done)
  OBVIOUS
<1>2. /\ history' = Append(history, x) /\ callsLeft' = << >> /\ execution' = NoExecution
      /\ doing' \in {"decision", "event", "over"}
      /\ job' = job \/ job' = [job EXCEPT !.steps = @ + 1, !.failed = @ + 1]
  <2>1. CASE class = "fatal"
    BY <1>1, <2>1 DEF FailStep, Stop
  <2>2. CASE class # "fatal"
    BY <1>1, <2>2 DEF FailStep, NextStep, JobEnds, Stop
  <2> QED
    BY <2>1, <2>2
<1>3. x \in StepEntries /\ x.status = "failed"
  BY <1>1 DEF Entry, StepEntries, Statuses, Executions
<1>4. effects' \in Seq(Nat \ {0}) /\ Traced(history, effects')
  BY EffectsOfACall
<1>5. EffectsInv' /\ history' \in Seq(StepEntries)
  <2>1. PICK e : e = effects'
    OBVIOUS
  <2>2. \A a \in 1 .. Len(e) : OnRecord(x, a)
    BY <1>3 DEF OnRecord
  <2>3. Invoking'
    BY <1>2 DEF Invoking, NoActLeft
  <2> QED
    BY <1>2, <1>3, <1>4, <2>1, <2>2, <2>3, RecordingKeepsEffects
<1>6. job' \in [steps : Nat, failed : Nat, from : Nat]
  BY <1>2, JobGrows DEF AgentTyped
<1>7. callsLeft' \in Seq(AgentCalls) /\ Len(callsLeft') = 0 /\ execution' \in Executions
  BY <1>2 DEF NoExecution, Executions
<1> QED
  BY <1>2, <1>4, <1>5, <1>6, <1>7 DEF AgentTyped

LEMMA FailuresKeepEffects ==
  ASSUME AgentIsKnown, AgentTyped, EffectsInv, doing = "call", NEW call, CallFails(call)
  PROVE  AgentTyped' /\ EffectsInv'
<1>1. UNCHANGED effects \/ effects' = Append(effects, ThisStep)
  BY DEF CallFails
<1>2. PICK done \in Executions : /\ done = Tried(execution) /\ done.attempts > 0
                                 /\ done.action = execution.action /\ done.invoke = execution.invoke
  BY TriedCounts DEF AgentTyped
<1>3. CASE /\ execution' = Tried(execution) /\ UNCHANGED << doing, job, callsLeft, history >>
  <2>1. effects' \in Seq(Nat \ {0}) /\ Traced(history, effects')
    BY <1>1, EffectsOfACall
  <2>2. AgentTyped'
    BY <1>2, <1>3, <2>1 DEF AgentTyped
  <2> QED
    BY <1>2, <1>3, <2>1, <2>2 DEF EffectsInv, Tracing, Invoking, NoActLeft
<1>4. CASE \E class : FailStep(done, class)
  BY <1>1, <1>4, FailedStepKeepsEffects
<1>5. \/ execution' = Tried(execution) /\ UNCHANGED << doing, job, callsLeft, history >>
      \/ \E class : FailStep(done, class)
  BY <1>2 DEF CallFails
<1> QED
  BY <1>3, <1>4, <1>5

LEMMA CompletingKeepsEffects ==
  ASSUME AgentIsKnown, AgentTyped, EffectsInv, CompleteStep
  PROVE  AgentTyped' /\ EffectsInv'
<1>1. PICK x : x = Entry(StatusOf(execution), execution)
  OBVIOUS
<1>2. /\ doing = "call" /\ callsLeft = << >> /\ history' = Append(history, x)
      /\ execution' = NoExecution /\ job' = [job EXCEPT !.steps = @ + 1, !.failed = 0]
      /\ UNCHANGED << callsLeft, effects >> /\ doing' \in {"decision", "event", "over"}
  BY <1>1 DEF CompleteStep, NextStep, JobEnds, Stop
<1>3. PICK d \in Executions : d = execution
  BY DEF AgentTyped
<1>4. /\ x \in StepEntries /\ x.action = d.action /\ x.invoke = d.invoke
      /\ d.attempts > 0 => x.status = "recovered"
  BY <1>1, <1>3 DEF Entry, StatusOf, StepEntries, Statuses, Executions
<1>5. EffectsInv' /\ history' \in Seq(StepEntries)
  <2>1. effects \in Seq(Nat \ {0}) /\ Traced(history, effects)
    BY DEF AgentTyped, EffectsInv
  <2>2. \A a \in 1 .. Len(effects) : effects[a] = Len(history) + 1 => OnRecord(x, a)
    BY <1>3, <1>4 DEF EffectsInv, Tracing, OnRecord, Unsure, ThisStep
  <2>3. Invoking'
    BY <1>2 DEF Invoking, NoActLeft
  <2> QED
    BY <1>2, <1>4, <2>1, <2>2, <2>3, RecordingKeepsEffects
<1>6. execution' \in Executions
  BY <1>2 DEF NoExecution, Executions
<1> QED
  BY <1>2, <1>5, <1>6, JobGrows DEF AgentTyped

LEMMA EffectsKept ==
  ASSUME AgentIsKnown, AgentTyped, EffectsInv, [AgentNext]_agentVars
  PROVE  AgentTyped' /\ EffectsInv'
<1>1. CASE Start \/ Ping \/ TimePasses \/ StayIdle \/ WakeUp \/ WaitFails
  BY <1>1, RestKeepsEffects
<1>2. CASE Decide
  BY <1>2, DecidingKeepsEffects
<1>3. CASE Call
  <2>1. PICK call : /\ doing = "call" /\ callsLeft # << >> /\ call = Head(callsLeft)
                    /\ Answered(call) \/ Degraded(call) \/ CallFails(call)
    BY <1>3 DEF Call
  <2> QED
    BY <2>1, AnswersKeepEffects, DegradingKeepsEffects, FailuresKeepEffects
<1>4. CASE CompleteStep
  BY <1>4, CompletingKeepsEffects
<1>5. CASE UNCHANGED agentVars
  <2>1. UNCHANGED << doing, job, callsLeft, execution, history, effects >>
    BY <1>5 DEF agentVars
  <2> QED
    BY <2>1 DEF AgentTyped, EffectsInv, Tracing, Invoking, NoActLeft, ThisStep
<1> QED
  BY <1>1, <1>2, <1>3, <1>4, <1>5 DEF AgentNext

LEMMA AgentStarts ==
  ASSUME AgentInit
  PROVE  AgentTyped /\ EffectsInv
<1>1. /\ callsLeft = << >> /\ history = << >> /\ effects = << >> /\ doing = "off"
      /\ job = [steps |-> 0, failed |-> 0, from |-> 0] /\ execution = NoExecution
  BY DEF AgentInit
<1>2. execution \in Executions
  BY <1>1 DEF NoExecution, Executions
<1> QED
  BY <1>1, <1>2 DEF AgentTyped, EffectsInv, Traced, Tracing, Invoking, NoActLeft

(***************************************************************************)
(* Whatever the runtime did for the agent can be told from the record: a   *)
(* step names the action it caused, or a failed attempt stands behind it,  *)
(* or it is an invocation without an action, which was degraded and may    *)
(* have been performed (EffectsAreOnRecord; execute.rs, record_step and    *)
(* degrade_accessibility), whatever the provider decides and whichever     *)
(* call fails.                                                             *)
(***************************************************************************)
THEOREM NothingIsOffTheRecord ==
  ASSUME AgentIsKnown PROVE AgentSpec => []EffectsAreOnRecord
<1>1. AgentInit => AgentTyped /\ EffectsInv
  BY AgentStarts
<1>2. AgentTyped /\ EffectsInv /\ [AgentNext]_agentVars => AgentTyped' /\ EffectsInv'
  BY EffectsKept
<1>3. AgentTyped /\ EffectsInv => EffectsAreOnRecord
  <2>1. SUFFICES ASSUME AgentTyped, EffectsInv, NEW a \in DOMAIN effects, effects[a] <= Len(history)
                 PROVE  OnRecord(history[effects[a]], a)
    BY DEF EffectsAreOnRecord, OnRecord
  <2>2. a \in 1 .. Len(effects)
    BY <2>1 DEF AgentTyped
  <2> QED
    BY <2>1, <2>2 DEF EffectsInv, Traced
<1> QED
  BY <1>1, <1>2, <1>3, PTL DEF AgentSpec

-----------------------------------------------------------------------------
(* The agent: budgets are spent, not exceeded and not forgotten.           *)

StatusesFrom(h, from) == [i \in 1 .. Len(h) - from |-> h[from + i].status]

\* `failed` counts the steps that failed in a row in this job, and `steps` its steps.
JobInv ==
  /\ job.from <= Len(history)
  /\ doing # "over" => job.steps = Len(history) - job.from
  /\ doing \in {"off", "ping"} => job.steps = 0
  /\ doing \in {"off", "ping", "decision", "call"} =>
       /\ RunAtEnd(OfThisJob, job.failed, "failed") /\ job.failed < MaxFailures
       /\ jobVerdict = "none"
  /\ doing \in {"decision", "call"} => job.steps < MaxSteps
  /\ jobVerdict = "failure_budget" => EndsWith(OfThisJob, MaxFailures, {"failed"})

\* `idleWaits` counts the waits without an event since the last wakeup.
WatchInv ==
  /\ waits \in Seq({"idle", "woke"})
  /\ RunAtEnd(waits, idleWaits, "idle") /\ Woken <= MaxWakeups
  /\ doing \in {"off", "ping"} => Woken = 0
  /\ doing # "over" => idleWaits < MaxIdleWaits /\ verdict = "none"
  /\ doing = "event" => Woken < MaxWakeups
  /\ verdict = "idle_budget" => EndsWith(waits, MaxIdleWaits, {"idle"})
  /\ verdict = "wakeup_budget" => Woken = MaxWakeups

LEMMA StatusesGrow ==
  ASSUME NEW h \in Seq(StepEntries), NEW from \in Nat, from <= Len(h), NEW x \in StepEntries
  PROVE  /\ StatusesFrom(h, from) \in Seq(Statuses) /\ Len(StatusesFrom(h, from)) = Len(h) - from
         /\ StatusesFrom(Append(h, x), from) = Append(StatusesFrom(h, from), x.status)
<1>1. PICK t, l : t = Append(h, x) /\ l = Len(h)
  OBVIOUS
<1>2. l \in Nat /\ Len(t) = l + 1 /\ t[l + 1] = x /\ \A i \in 1 .. l : t[i] = h[i]
  BY <1>1, AppendFacts
<1>3. PICK n \in Nat : n = l - from
  <2>1. l - from \in Nat
    BY <1>1, <1>2
  <2> QED
    BY <2>1
<1>4. PICK s, u : s = StatusesFrom(h, from) /\ u = StatusesFrom(t, from)
  OBVIOUS
<1>5. s = [i \in 1 .. n |-> h[from + i].status]
  BY <1>1, <1>3, <1>4 DEF StatusesFrom
<1>6. \A i \in 1 .. n : from + i \in 1 .. l
  BY <1>2, <1>3
<1>7. s \in Seq(Statuses) /\ Len(s) = n
  <2>1. \A i \in 1 .. n : h[from + i].status \in Statuses
    <3>1. \A i \in 1 .. n : h[from + i] \in StepEntries
      BY <1>1, <1>6
    <3>2. \A y \in StepEntries : y.status \in Statuses
      BY DEF StepEntries
    <3> QED
      BY <3>1, <3>2
  <2> QED
    BY <1>5, <2>1
<1>8. (l + 1) - from = n + 1 /\ from + (n + 1) = l + 1
  BY <1>2, <1>3
<1>9. u = [i \in 1 .. n + 1 |-> t[from + i].status]
  BY <1>2, <1>4, <1>8 DEF StatusesFrom
<1>10. x.status \in Statuses
  BY DEF StepEntries
<1>11. Append(s, x.status) = [i \in 1 .. n + 1 |-> IF i <= n THEN s[i] ELSE x.status]
  BY <1>7, <1>10
<1>12. \A i \in 1 .. n + 1 : t[from + i].status = IF i <= n THEN s[i] ELSE x.status
  <2>1. SUFFICES ASSUME NEW i \in 1 .. n + 1 PROVE t[from + i].status = IF i <= n THEN s[i] ELSE x.status
    OBVIOUS
  <2>2. CASE i <= n
    <3>1. i \in 1 .. n /\ from + i \in 1 .. l
      BY <1>6, <2>2
    <3> QED
      BY <1>2, <1>5, <2>2, <3>1
  <2>3. CASE ~ (i <= n)
    <3>1. i = n + 1
      BY <2>3
    <3> QED
      BY <1>2, <1>8, <2>3, <3>1
  <2> QED
    BY <2>2, <2>3
<1> QED
  BY <1>1, <1>3, <1>4, <1>7, <1>9, <1>11, <1>12

LEMMA StatusesOfTheJob ==
  ASSUME AgentTyped, job.from <= Len(history)
  PROVE  /\ OfThisJob = StatusesFrom(history, job.from) /\ OfThisJob \in Seq(Statuses)
         /\ Len(OfThisJob) = Len(history) - job.from
<1>1. PICK h \in Seq(StepEntries), from \in Nat : h = history /\ from = job.from
  BY DEF AgentTyped
<1>2. PICK x \in StepEntries : x = [status |-> "ok", invoke |-> FALSE, action |-> 0, noted |-> TRUE]
  BY DEF StepEntries, Statuses
<1>3. h \in Seq(StepEntries) /\ OfThisJob = StatusesFrom(h, from)
  BY <1>1 DEF AgentTyped, OfThisJob, StatusesFrom
<1> QED
  BY <1>1, <1>2, <1>3, StatusesGrow

\* A step that adds an entry to the history of the job.
LEMMA JobRecords ==
  ASSUME AgentTyped, job.from <= Len(history), NEW x \in StepEntries,
         history' = Append(history, x), job'.from = job.from
  PROVE  /\ OfThisJob' = Append(OfThisJob, x.status) /\ job'.from <= Len(history')
         /\ Len(history') - job'.from = Len(history) - job.from + 1
         /\ x.status \in Statuses
<1>1. PICK h \in Seq(StepEntries), from \in Nat : h = history /\ from = job.from
  BY DEF AgentTyped
<1>2. h \in Seq(StepEntries) /\ OfThisJob = StatusesFrom(h, from) /\ from <= Len(h)
  BY <1>1 DEF AgentTyped, OfThisJob, StatusesFrom
<1>3. StatusesFrom(Append(h, x), from) = Append(StatusesFrom(h, from), x.status)
  BY <1>2, StatusesGrow
<1>4. OfThisJob' = StatusesFrom(Append(h, x), from)
  BY <1>1 DEF OfThisJob, StatusesFrom
<1>5. Len(Append(h, x)) = Len(h) + 1 /\ Len(h) \in Nat
  BY <1>2
<1>6. PICK n \in Nat : n = Len(h)
  OBVIOUS
<1>7. from <= n + 1 /\ (n + 1) - from = (n - from) + 1
  BY <1>2, <1>6
<1>8. x.status \in Statuses
  BY DEF StepEntries
<1>9. OfThisJob' = Append(OfThisJob, x.status)
  BY <1>2, <1>3, <1>4
<1>10. Len(history') = n + 1 /\ Len(history) = n /\ job.from = from /\ job'.from = from
  BY <1>1, <1>5, <1>6
<1> QED
  BY <1>7, <1>8, <1>9, <1>10

LEMMA WokenGrows ==
  ASSUME waits \in Seq({"idle", "woke"}), NEW x \in {"idle", "woke"}, waits' = Append(waits, x)
  PROVE  /\ waits' \in Seq({"idle", "woke"}) /\ Woken \in Nat
         /\ Woken' = IF x = "woke" THEN Woken + 1 ELSE Woken
<1>1. PICK n \in Nat : n = Len(waits)
  OBVIOUS
<1>2. PICK before, after : /\ before = {i \in DOMAIN waits : waits[i] = "woke"}
                           /\ after = {i \in DOMAIN waits' : waits'[i] = "woke"}
  OBVIOUS
<1>3. /\ DOMAIN waits = 1 .. n /\ DOMAIN waits' = 1 .. n + 1 /\ waits'[n + 1] = x
      /\ \A i \in 1 .. n : waits'[i] = waits[i]
      /\ waits' \in Seq({"idle", "woke"})
  <2>1. Len(waits') = n + 1 /\ waits'[n + 1] = x /\ waits' \in Seq({"idle", "woke"})
        /\ \A i \in 1 .. n : waits'[i] = waits[i]
    BY <1>1, AppendFacts
  <2> QED
    BY <1>1, <2>1
<1>4. IsFiniteSet(before) /\ n + 1 \notin before
  <2>1. IsFiniteSet(1 .. n)
    BY FS_Interval
  <2>2. before \subseteq 1 .. n
    BY <1>2, <1>3
  <2>3. IsFiniteSet(before)
    BY <2>1, <2>2, FS_Subset
  <2>4. n + 1 \notin 1 .. n
    OBVIOUS
  <2> QED
    BY <2>2, <2>3, <2>4
<1>5. \A i \in 1 .. n + 1 : i \in 1 .. n \/ i = n + 1
  OBVIOUS
<1>6. after = IF x = "woke" THEN before \cup {n + 1} ELSE before
  BY <1>2, <1>3, <1>5
<1>7. Woken = Cardinality(before) /\ Woken' = Cardinality(after)
  BY <1>2 DEF Woken
<1>8. Cardinality(before \cup {n + 1}) = Cardinality(before) + 1 /\ Cardinality(before) \in Nat
  BY <1>4, FS_AddElement, FS_CardinalityType
<1> QED
  BY <1>3, <1>6, <1>7, <1>8

LEMMA WokenIsNatural ==
  ASSUME waits \in Seq({"idle", "woke"})
  PROVE  Woken \in Nat
<1>1. IsFiniteSet(DOMAIN waits)
  <2>1. Len(waits) \in Nat /\ DOMAIN waits = 1 .. Len(waits)
    OBVIOUS
  <2> QED
    BY <2>1, FS_Interval
<1>2. IsFiniteSet({i \in DOMAIN waits : waits[i] = "woke"})
  BY <1>1, FS_Subset
<1> QED
  BY <1>2, FS_CardinalityType DEF Woken

\* How the loop moves on while no wait ends.
Ends(why) == why \notin {"idle_budget", "wakeup_budget"} /\ Stop(why)
WatchMove ==
  \/ UNCHANGED verdict /\ doing' \in {"ping", "decision", "call"} /\ (doing' = "ping" => doing = "off")
  \/ UNCHANGED verdict /\ doing' = "event" /\ Woken < MaxWakeups
  \/ \E why : Ends(why)
  \/ Stop("wakeup_budget") /\ Woken >= MaxWakeups

LEMMA WatchStays ==
  ASSUME AgentIsKnown, WatchInv, UNCHANGED << waits, idleWaits >>, doing # "over", WatchMove
  PROVE  WatchInv'
<1>1. Woken' = Woken /\ Woken \in Nat
  BY WokenIsNatural DEF WatchInv, Woken
<1>2. verdict = "none" /\ idleWaits < MaxIdleWaits
  BY DEF WatchInv
<1>3. CASE UNCHANGED verdict /\ doing' \in {"ping", "decision", "call"} /\ (doing' = "ping" => doing = "off")
  BY <1>1, <1>2, <1>3 DEF WatchInv
<1>4. CASE UNCHANGED verdict /\ doing' = "event" /\ Woken < MaxWakeups
  BY <1>1, <1>2, <1>4 DEF WatchInv
<1>5. CASE \E why : Ends(why)
  BY <1>1, <1>5 DEF WatchInv, Ends, Stop
<1>6. CASE Stop("wakeup_budget") /\ Woken >= MaxWakeups
  <2>1. Woken = MaxWakeups
    BY <1>1, <1>6 DEF WatchInv, AgentIsKnown
  <2> QED
    BY <1>1, <1>6, <2>1 DEF WatchInv, Stop
<1> QED
  BY <1>3, <1>4, <1>5, <1>6 DEF WatchMove

LEMMA JobEndsWell ==
  ASSUME WatchInv, AgentIsKnown, NEW why \in {"failure_budget", "finished", "step_budget"}, JobEnds(why)
  PROVE  WatchMove /\ doing' \in {"event", "over"} /\ jobVerdict' = why
<1>1. Woken \in Nat
  BY WokenIsNatural DEF WatchInv
<1>2. CASE mode = "job"
  BY <1>2 DEF JobEnds, WatchMove, Ends, Stop
<1>3. CASE mode # "job" /\ Woken >= MaxWakeups
  BY <1>3 DEF JobEnds, WatchMove, Stop
<1>4. CASE mode # "job" /\ ~ (Woken >= MaxWakeups)
  BY <1>1, <1>4 DEF JobEnds, WatchMove, AgentIsKnown
<1> QED
  BY <1>2, <1>3, <1>4

LEMMA NextStepsWell ==
  ASSUME WatchInv, AgentIsKnown, NEW taken, NextStep(taken)
  PROVE  /\ WatchMove /\ doing' \in {"decision", "event", "over"}
         /\ doing' = "decision" => taken < MaxSteps /\ UNCHANGED jobVerdict
         /\ doing' # "decision" => jobVerdict' = "step_budget"
<1>1. CASE taken < MaxSteps
  BY <1>1 DEF NextStep, WatchMove
<1>2. CASE ~ (taken < MaxSteps)
  BY <1>2, JobEndsWell DEF NextStep
<1> QED
  BY <1>1, <1>2

\* The steps of the loop that neither take a step of the job nor end a wait.
LEMMA JobStays ==
  ASSUME JobInv, UNCHANGED << job, history >>, doing # "over",
         doing' \in {"ping", "event", "decision", "call", "over"},
         \/ UNCHANGED jobVerdict
         \/ doing' \in {"event", "over"} /\ jobVerdict' # "failure_budget",
         doing' = "ping" => doing = "off",
         doing' \in {"decision", "call"} =>
           /\ doing \in {"ping", "decision", "call"} /\ job.steps < MaxSteps /\ UNCHANGED jobVerdict
  PROVE  JobInv'
<1>1. OfThisJob' = OfThisJob
  BY DEF OfThisJob
<1>2. CASE doing' = "ping"
  BY <1>1, <1>2 DEF JobInv
<1>3. CASE doing' \in {"event", "over"}
  BY <1>1, <1>3 DEF JobInv
<1>4. CASE doing' \in {"decision", "call"}
  BY <1>1, <1>4 DEF JobInv
<1> QED
  BY <1>2, <1>3, <1>4

LEMMA WaitingSteps ==
  ASSUME AgentIsKnown, AgentTyped, JobInv, WatchInv, Start \/ Ping \/ TimePasses \/ WaitFails
  PROVE  JobInv' /\ WatchInv'
<1>1. CASE Start
  <2>1. doing = "off" /\ doing' = "ping" /\ UNCHANGED << job, history, jobVerdict, verdict, waits, idleWaits >>
    BY <1>1 DEF Start, record, watch
  <2> QED
    BY <2>1, JobStays, WatchStays DEF WatchMove
<1>2. CASE Ping
  <2>1. doing = "ping" /\ UNCHANGED << job, history, waits, idleWaits >> /\ job.steps = 0
    BY <1>2 DEF Ping, record, watch, JobInv
  <2>2. CASE doing' = "event" /\ UNCHANGED << jobVerdict, verdict >>
    <3>1. Woken < MaxWakeups
      BY <2>1, WokenIsNatural DEF WatchInv, AgentIsKnown
    <3> QED
      BY <2>1, <2>2, <3>1, JobStays, WatchStays DEF WatchMove
  <2>3. CASE NextStep(0)
    BY <2>1, <2>3, NextStepsWell, JobStays, WatchStays
  <2>4. CASE Stop("error") /\ UNCHANGED jobVerdict
    <3>1. Ends("error") /\ doing' = "over"
      BY <2>4 DEF Ends, Stop
    <3> QED
      BY <2>1, <2>4, <3>1, JobStays, WatchStays DEF WatchMove
  <2> QED
    BY <1>2, <2>2, <2>3, <2>4 DEF Ping
<1>3. CASE TimePasses
  <2>1. /\ doing = "event" /\ doing' = "event"
        /\ UNCHANGED << job, history, jobVerdict, verdict, waits, idleWaits >>
    BY <1>3 DEF TimePasses, record
  <2> QED
    BY <2>1, JobStays, WatchStays DEF WatchMove, WatchInv
<1>4. CASE WaitFails
  <2>1. PICK why \in {"error", "step_timeout"} : Stop(why)
    BY <1>4 DEF WaitFails
  <2>2. doing = "event" /\ doing' = "over" /\ UNCHANGED << job, history, jobVerdict, waits, idleWaits >>
    BY <1>4 DEF WaitFails, record, watch, Stop
  <2>3. Ends(why)
    BY <2>1 DEF Ends
  <2> QED
    BY <2>2, <2>3, JobStays, WatchStays DEF WatchMove
<1> QED
  BY <1>1, <1>2, <1>3, <1>4

LEMMA StayingIdle ==
  ASSUME AgentIsKnown, AgentTyped, JobInv, WatchInv, StayIdle
  PROVE  JobInv' /\ WatchInv'
<1>1. PICK n \in Nat : n = idleWaits /\ RunAtEnd(waits, n, "idle")
  BY DEF WatchInv, RunAtEnd
<1>2. /\ doing = "event" /\ idleWaits' = n + 1 /\ waits' = Append(waits, "idle")
      /\ IF n + 1 >= MaxIdleWaits THEN Stop("idle_budget") ELSE UNCHANGED << doing, verdict >>
      /\ UNCHANGED << job, history, jobVerdict >>
  BY <1>1 DEF StayIdle, record
<1>3. JobInv'
  <2>1. doing' \in {"event", "over"}
    BY <1>2 DEF Stop
  <2> QED
    BY <1>2, <2>1, JobStays
<1>4. waits \in Seq({"idle", "woke"})
  BY DEF WatchInv
<1>5. waits' \in Seq({"idle", "woke"}) /\ Woken' = Woken /\ Woken \in Nat
  BY <1>2, <1>4, WokenGrows
<1>6. RunAtEnd(waits', n + 1, "idle")
  BY <1>1, <1>2, <1>4, RunGrows
<1>7. Woken < MaxWakeups /\ verdict = "none"
  BY <1>2 DEF WatchInv
<1>8. CASE n + 1 >= MaxIdleWaits
  <2>1. doing' = "over" /\ verdict' = "idle_budget"
    BY <1>2, <1>8 DEF Stop
  <2>2. MaxIdleWaits \in Nat
    BY DEF AgentIsKnown
  <2>3. EndsWith(waits', MaxIdleWaits, {"idle"})
    BY <1>5, <1>6, <1>8, <2>2, RunDecides
  <2>4. Woken' <= MaxWakeups
    BY <1>5, <1>7 DEF AgentIsKnown
  <2> QED
    BY <1>2, <1>3, <1>5, <1>6, <2>1, <2>3, <2>4 DEF WatchInv
<1>9. CASE ~ (n + 1 >= MaxIdleWaits)
  <2>1. doing' = "event" /\ verdict' = "none"
    BY <1>2, <1>7, <1>9
  <2>2. n + 1 < MaxIdleWaits /\ Woken' <= MaxWakeups
    BY <1>5, <1>7, <1>9 DEF AgentIsKnown
  <2> QED
    BY <1>2, <1>3, <1>5, <1>6, <1>7, <2>1, <2>2 DEF WatchInv
<1> QED
  BY <1>8, <1>9

LEMMA WakingUp ==
  ASSUME AgentIsKnown, AgentTyped, JobInv, WatchInv, WakeUp
  PROVE  JobInv' /\ WatchInv'
<1>1. /\ doing = "event" /\ idleWaits' = 0 /\ waits' = Append(waits, "woke") /\ job' = NewJob
      /\ IF MaxSteps > 0 THEN doing' = "decision" /\ jobVerdict' = "none" /\ UNCHANGED verdict
         ELSE /\ jobVerdict' = "step_budget"
              /\ IF Woken + 1 >= MaxWakeups THEN Stop("wakeup_budget") ELSE UNCHANGED << doing, verdict >>
      /\ UNCHANGED history
  BY DEF WakeUp, IdleAfterWakeup, record
<1>2. waits \in Seq({"idle", "woke"})
  BY DEF WatchInv
<1>3. waits' \in Seq({"idle", "woke"}) /\ Woken' = Woken + 1 /\ Woken \in Nat
  BY <1>1, <1>2, WokenGrows
<1>4. RunAtEnd(waits', 0, "idle")
  <2>1. PICK n : RunAtEnd(waits, n, "idle")
    BY DEF WatchInv
  <2> QED
    BY <1>1, <1>2, <2>1, RunGrows
<1>5. Woken < MaxWakeups /\ verdict = "none" /\ 0 < MaxIdleWaits /\ Woken + 1 <= MaxWakeups
  BY <1>1, <1>3 DEF WatchInv, AgentIsKnown
<1>6. PICK n \in Nat : n = Len(history)
  BY DEF AgentTyped
<1>7. job'.steps = 0 /\ job'.failed = 0 /\ job'.from = n /\ Len(history') = n /\ n - n = 0
  BY <1>1, <1>6 DEF NewJob
<1>8. OfThisJob' = << >>
  <2>1. OfThisJob' = [i \in 1 .. n - n |-> history'[job'.from + i].status]
    BY <1>7 DEF OfThisJob
  <2>2. 1 .. n - n = {}
    BY <1>7
  <2> QED
    BY <2>1, <2>2
<1>9. RunAtEnd(OfThisJob', 0, "failed") /\ 0 < MaxFailures
  BY <1>8 DEF RunAtEnd, AgentIsKnown
<1>10. CASE MaxSteps > 0
  <2>1. doing' = "decision" /\ jobVerdict' = "none" /\ verdict' = "none"
    BY <1>1, <1>5, <1>10
  <2>2. JobInv'
    BY <1>6, <1>7, <1>9, <1>10, <2>1 DEF JobInv, AgentIsKnown
  <2>3. WatchInv'
    BY <1>1, <1>3, <1>4, <1>5, <2>1 DEF WatchInv
  <2> QED
    BY <2>2, <2>3
<1>11. CASE ~ (MaxSteps > 0)
  <2>1. jobVerdict' = "step_budget" /\ doing' \in {"event", "over"}
    BY <1>1, <1>11 DEF Stop
  <2>2. JobInv'
    BY <1>6, <1>7, <2>1 DEF JobInv
  <2>3. CASE Woken + 1 >= MaxWakeups
    <3>1. doing' = "over" /\ verdict' = "wakeup_budget" /\ Woken' = MaxWakeups
      BY <1>1, <1>3, <1>5, <1>11, <2>3 DEF Stop, AgentIsKnown
    <3> QED
      BY <1>1, <1>3, <1>4, <1>5, <2>2, <3>1 DEF WatchInv
  <2>4. CASE ~ (Woken + 1 >= MaxWakeups)
    <3>1. doing' = "event" /\ verdict' = "none" /\ Woken' < MaxWakeups
      BY <1>1, <1>3, <1>5, <1>11, <2>4 DEF AgentIsKnown
    <3> QED
      BY <1>1, <1>3, <1>4, <1>5, <2>2, <3>1 DEF WatchInv
  <2> QED
    BY <2>3, <2>4
<1> QED
  BY <1>10, <1>11

LEMMA DecidingSpends ==
  ASSUME AgentIsKnown, AgentTyped, JobInv, WatchInv, Decide
  PROVE  JobInv' /\ WatchInv'
<1>1. doing = "decision" /\ UNCHANGED << waits, idleWaits >>
  BY DEF Decide, watch
<1>2. job.steps < MaxSteps
  BY <1>1 DEF JobInv
<1>3. CASE Decided
  <2>1. doing' = "call" /\ UNCHANGED << job, history, jobVerdict, verdict >>
    BY <1>3 DEF Decided
  <2> QED
    BY <1>1, <1>2, <2>1, JobStays, WatchStays DEF WatchMove
<1>4. CASE Finish
  <2>1. PICK x : x = Entry("finished", NoExecution)
    OBVIOUS
  <2>2. /\ history' = Append(history, x) /\ job' = [job EXCEPT !.steps = @ + 1]
        /\ JobEnds("finished")
    BY <1>4, <2>1 DEF Finish
  <2>3. x \in StepEntries
    BY <2>1 DEF Entry, NoExecution, StepEntries, Statuses
  <2>4. WatchMove /\ doing' \in {"event", "over"} /\ jobVerdict' = "finished"
    BY <2>2, JobEndsWell
  <2>5. PICK s \in Nat : s = job.steps + 1 /\ job.steps \in Nat
    BY DEF AgentTyped
  <2>6. job'.steps = s /\ job'.from = job.from
    BY <2>2, <2>5 DEF AgentTyped
  <2>7. job.from <= Len(history) /\ job.steps = Len(history) - job.from
    BY <1>1 DEF JobInv
  <2>8. job'.from <= Len(history') /\ Len(history') - job'.from = Len(history) - job.from + 1
    BY <2>2, <2>3, <2>6, <2>7, JobRecords
  <2>9. job'.steps = Len(history') - job'.from
    BY <2>5, <2>6, <2>7, <2>8
  <2>10. JobInv'
    BY <2>4, <2>8, <2>9 DEF JobInv
  <2> QED
    BY <1>1, <2>4, <2>10, WatchStays
<1>5. CASE ProviderFails
  <2>1. UNCHANGED << job, history, jobVerdict >>
    BY <1>5 DEF ProviderFails
  <2>2. CASE UNCHANGED << doing, verdict >>
    BY <1>1, <1>2, <2>1, <2>2, JobStays, WatchStays DEF WatchMove
  <2>3. CASE Stop("error")
    <3>1. Ends("error") /\ doing' = "over"
      BY <2>3 DEF Ends, Stop
    <3> QED
      BY <1>1, <2>1, <3>1, JobStays, WatchStays DEF WatchMove
  <2> QED
    BY <1>5, <2>2, <2>3 DEF ProviderFails
<1> QED
  BY <1>3, <1>4, <1>5 DEF Decide

LEMMA FailingSpends ==
  ASSUME AgentIsKnown, AgentTyped, JobInv, WatchInv, doing = "call", UNCHANGED << waits, idleWaits >>,
         NEW done \in Executions, NEW class, FailStep(done, class)
  PROVE  JobInv' /\ WatchInv'
<1>1. PICK x : x = Entry("failed", done)
  OBVIOUS
<1>2. history' = Append(history, x)
  BY <1>1 DEF FailStep
<1>3. x \in StepEntries /\ x.status = "failed"
  BY <1>1 DEF Entry, StepEntries, Statuses, Executions
<1>4. /\ job.from <= Len(history) /\ job.steps = Len(history) - job.from
      /\ RunAtEnd(OfThisJob, job.failed, "failed") /\ job.failed < MaxFailures
      /\ jobVerdict = "none" /\ job.steps < MaxSteps
  BY DEF JobInv
<1>5. CASE class = "fatal"
  <2>1. Stop("error") /\ UNCHANGED << job, jobVerdict >>
    BY <1>5 DEF FailStep
  <2>2. Ends("error") /\ doing' = "over"
    BY <2>1 DEF Ends, Stop
  <2>3. job'.from <= Len(history')
    BY <1>2, <1>3, <1>4, <2>1, JobRecords
  <2>4. JobInv'
    BY <1>4, <2>1, <2>2, <2>3 DEF JobInv
  <2> QED
    BY <2>2, <2>4, WatchStays DEF WatchMove
<1>6. CASE class # "fatal"
  <2>1. /\ job' = [job EXCEPT !.steps = @ + 1, !.failed = @ + 1]
        /\ IF job'.failed >= MaxFailures THEN JobEnds("failure_budget") ELSE NextStep(job'.steps)
    BY <1>6 DEF FailStep
  <2>2. PICK s \in Nat, f \in Nat : s = job.steps + 1 /\ f = job.failed + 1 /\ job.steps \in Nat
    BY DEF AgentTyped
  <2>3. job'.steps = s /\ job'.failed = f /\ job'.from = job.from
    BY <2>1, <2>2 DEF AgentTyped
  <2>4. /\ OfThisJob' = Append(OfThisJob, "failed") /\ job'.from <= Len(history')
        /\ Len(history') - job'.from = Len(history) - job.from + 1
    BY <1>2, <1>3, <1>4, <2>3, JobRecords
  <2>5. job'.steps = Len(history') - job'.from
    BY <1>4, <2>2, <2>3, <2>4
  <2>6. OfThisJob \in Seq(Statuses) /\ OfThisJob' \in Seq(Statuses) /\ "failed" \in Statuses
    <3>1. OfThisJob \in Seq(Statuses) /\ "failed" \in Statuses
      BY <1>4, StatusesOfTheJob DEF Statuses
    <3> QED
      BY <2>4, <3>1
  <2>7. RunAtEnd(OfThisJob', job'.failed, "failed")
    BY <1>4, <2>2, <2>3, <2>4, <2>6, RunGrows
  <2>8. CASE f >= MaxFailures
    <3>1. WatchMove /\ doing' \in {"event", "over"} /\ jobVerdict' = "failure_budget"
      BY <2>1, <2>3, <2>8, JobEndsWell
    <3>2. MaxFailures \in Nat
      BY DEF AgentIsKnown
    <3>3. EndsWith(OfThisJob', MaxFailures, {"failed"})
      <4>1. PICK t : t = OfThisJob'
        OBVIOUS
      <4>2. t \in Seq(Statuses) /\ RunAtEnd(t, f, "failed")
        BY <2>3, <2>6, <2>7, <4>1
      <4>3. EndsWith(t, MaxFailures, {"failed"})
        BY <2>2, <2>8, <3>2, <4>2, RunDecides
      <4> QED
        BY <4>1, <4>3
    <3>4. JobInv'
      BY <2>4, <2>5, <3>1, <3>3 DEF JobInv
    <3> QED
      BY <3>1, <3>4, WatchStays
  <2>9. CASE ~ (f >= MaxFailures)
    <3>1. NextStep(s)
      BY <2>1, <2>3, <2>9
    <3>2. /\ WatchMove /\ doing' \in {"decision", "event", "over"}
          /\ doing' = "decision" => s < MaxSteps /\ UNCHANGED jobVerdict
          /\ doing' # "decision" => jobVerdict' = "step_budget"
      BY <3>1, NextStepsWell
    <3>3. job'.failed < MaxFailures
      BY <2>2, <2>3, <2>9 DEF AgentIsKnown
    <3>4. JobInv'
      BY <1>4, <2>3, <2>4, <2>5, <2>7, <3>2, <3>3 DEF JobInv
    <3> QED
      BY <3>2, <3>4, WatchStays
  <2> QED
    BY <2>8, <2>9
<1> QED
  BY <1>5, <1>6

LEMMA CallingSpends ==
  ASSUME AgentIsKnown, AgentTyped, JobInv, WatchInv, Call
  PROVE  JobInv' /\ WatchInv'
<1>1. doing = "call" /\ UNCHANGED << waits, idleWaits >> /\ job.steps < MaxSteps
  BY DEF Call, watch, JobInv
<1>2. PICK call : Answered(call) \/ Degraded(call) \/ CallFails(call)
  BY DEF Call
<1>3. Tried(execution) \in Executions
  BY TriedCounts DEF AgentTyped
<1>4. \/ UNCHANGED << doing, job, history, jobVerdict, verdict >>
      \/ \E class : FailStep(Tried(execution), class)
  BY <1>2 DEF Answered, Degraded, CallFails
<1>5. CASE UNCHANGED << doing, job, history, jobVerdict, verdict >>
  BY <1>1, <1>5, JobStays, WatchStays DEF WatchMove
<1>6. CASE \E class : FailStep(Tried(execution), class)
  BY <1>1, <1>3, <1>6, FailingSpends
<1> QED
  BY <1>4, <1>5, <1>6

LEMMA CompletingSpends ==
  ASSUME AgentIsKnown, AgentTyped, JobInv, WatchInv, CompleteStep
  PROVE  JobInv' /\ WatchInv'
<1>1. PICK x : x = Entry(StatusOf(execution), execution)
  OBVIOUS
<1>2. /\ doing = "call" /\ history' = Append(history, x) /\ UNCHANGED << waits, idleWaits >>
      /\ job' = [job EXCEPT !.steps = @ + 1, !.failed = 0] /\ NextStep(job'.steps)
  BY <1>1 DEF CompleteStep, watch
<1>3. x \in StepEntries /\ x.status # "failed"
  BY <1>1 DEF Entry, StatusOf, StepEntries, Statuses, Executions, AgentTyped
<1>4. /\ job.from <= Len(history) /\ job.steps = Len(history) - job.from
      /\ RunAtEnd(OfThisJob, job.failed, "failed") /\ jobVerdict = "none"
  BY <1>2 DEF JobInv
<1>5. PICK s \in Nat : s = job.steps + 1 /\ job.steps \in Nat
  BY DEF AgentTyped
<1>6. job'.steps = s /\ job'.failed = 0 /\ job'.from = job.from
  BY <1>2, <1>5 DEF AgentTyped
<1>7. /\ OfThisJob' = Append(OfThisJob, x.status) /\ job'.from <= Len(history')
      /\ Len(history') - job'.from = Len(history) - job.from + 1 /\ x.status \in Statuses
  BY <1>2, <1>3, <1>4, <1>6, JobRecords
<1>8. job'.steps = Len(history') - job'.from
  BY <1>4, <1>5, <1>6, <1>7
<1>9. RunAtEnd(OfThisJob', 0, "failed")
  <2>1. OfThisJob \in Seq(Statuses)
    BY <1>4, StatusesOfTheJob
  <2> QED
    BY <1>3, <1>4, <1>7, <2>1, RunGrows
<1>10. /\ WatchMove /\ doing' \in {"decision", "event", "over"}
       /\ doing' = "decision" => s < MaxSteps /\ UNCHANGED jobVerdict
       /\ doing' # "decision" => jobVerdict' = "step_budget"
  BY <1>2, <1>6, NextStepsWell
<1>11. JobInv'
  BY <1>4, <1>6, <1>7, <1>8, <1>9, <1>10 DEF JobInv, AgentIsKnown
<1> QED
  BY <1>2, <1>10, <1>11, WatchStays

LEMMA BudgetsKept ==
  ASSUME AgentIsKnown, AgentTyped, JobInv, WatchInv, [AgentNext]_agentVars
  PROVE  JobInv' /\ WatchInv'
<1>1. CASE Start \/ Ping \/ TimePasses \/ WaitFails
  BY <1>1, WaitingSteps
<1>2. CASE StayIdle
  BY <1>2, StayingIdle
<1>3. CASE WakeUp
  BY <1>3, WakingUp
<1>4. CASE Decide
  BY <1>4, DecidingSpends
<1>5. CASE Call
  BY <1>5, CallingSpends
<1>6. CASE CompleteStep
  BY <1>6, CompletingSpends
<1>7. CASE UNCHANGED agentVars
  <2>1. UNCHANGED << doing, job, history, jobVerdict, waits, idleWaits, verdict >>
    BY <1>7 DEF agentVars
  <2> QED
    BY <2>1 DEF JobInv, WatchInv, OfThisJob, Woken
<1> QED
  BY <1>1, <1>2, <1>3, <1>4, <1>5, <1>6, <1>7 DEF AgentNext

LEMMA BudgetsStart ==
  ASSUME AgentIsKnown, AgentInit
  PROVE  JobInv /\ WatchInv
<1>1. /\ history = << >> /\ waits = << >> /\ doing = "off" /\ idleWaits = 0
      /\ job = [steps |-> 0, failed |-> 0, from |-> 0] /\ jobVerdict = "none" /\ verdict = "none"
  BY DEF AgentInit
<1>2. OfThisJob = << >>
  <2>1. OfThisJob = [i \in 1 .. 0 |-> history[0 + i].status]
    BY <1>1 DEF OfThisJob
  <2>2. 1 .. 0 = {}
    OBVIOUS
  <2> QED
    BY <2>1, <2>2
<1>3. Woken = 0
  <2>1. {i \in DOMAIN waits : waits[i] = "woke"} = {}
    BY <1>1
  <2> QED
    BY <2>1, FS_EmptySet DEF Woken
<1>4. /\ RunAtEnd(OfThisJob, 0, "failed") /\ RunAtEnd(waits, 0, "idle") /\ waits \in Seq({"idle", "woke"})
      /\ 0 < MaxFailures /\ 0 < MaxIdleWaits /\ 0 <= MaxWakeups
  BY <1>1, <1>2 DEF RunAtEnd, AgentIsKnown
<1>5. JobInv
  BY <1>1, <1>4 DEF JobInv
<1>6. WatchInv
  BY <1>1, <1>3, <1>4 DEF WatchInv
<1> QED
  BY <1>5, <1>6

(***************************************************************************)
(* A job and a watch stop for a budget when it is spent, not before and not*)
(* after: failures and idle waits count in a row, and what one job failed  *)
(* is not held against the next (StopsAsTold; mod.rs, run_body and         *)
(* run_watch), for every budget.                                           *)
(***************************************************************************)
THEOREM BudgetsAreKept ==
  ASSUME AgentIsKnown PROVE AgentSpec => []StopsAsTold
<1>1. AgentInit => AgentTyped /\ EffectsInv /\ JobInv /\ WatchInv
  BY AgentStarts, BudgetsStart
<1>2. AgentTyped /\ EffectsInv /\ JobInv /\ WatchInv /\ [AgentNext]_agentVars
        => AgentTyped' /\ EffectsInv' /\ JobInv' /\ WatchInv'
  BY EffectsKept, BudgetsKept
<1>3. AgentTyped /\ JobInv /\ WatchInv => StopsAsTold
  <2>1. SUFFICES ASSUME AgentTyped, JobInv, WatchInv PROVE StopsAsTold
    OBVIOUS
  <2>2. OfThisJob \in Seq(Statuses) /\ Len(OfThisJob) = Len(history) - job.from
    BY <2>1, StatusesOfTheJob DEF JobInv
  <2>3. doing = "decision" => ~ EndsWith(OfThisJob, MaxFailures, {"failed"}) /\ Len(OfThisJob) < MaxSteps
    <3>1. SUFFICES ASSUME doing = "decision"
                   PROVE  ~ EndsWith(OfThisJob, MaxFailures, {"failed"}) /\ Len(OfThisJob) < MaxSteps
      OBVIOUS
    <3>2. RunAtEnd(OfThisJob, job.failed, "failed") /\ job.failed < MaxFailures /\ Len(OfThisJob) < MaxSteps
      BY <2>1, <2>2, <3>1 DEF JobInv
    <3>3. MaxFailures \in Nat /\ ~ (MaxFailures <= job.failed)
      BY <2>1, <3>2 DEF AgentIsKnown, AgentTyped
    <3> QED
      BY <2>2, <3>2, <3>3, RunDecides
  <2>4. doing = "event" => ~ EndsWith(waits, MaxIdleWaits, {"idle"}) /\ Woken < MaxWakeups
    <3>1. SUFFICES ASSUME doing = "event"
                   PROVE  ~ EndsWith(waits, MaxIdleWaits, {"idle"}) /\ Woken < MaxWakeups
      OBVIOUS
    <3>2. RunAtEnd(waits, idleWaits, "idle") /\ idleWaits < MaxIdleWaits /\ Woken < MaxWakeups
          /\ waits \in Seq({"idle", "woke"})
      BY <2>1, <3>1 DEF WatchInv
    <3>3. MaxIdleWaits \in Nat /\ ~ (MaxIdleWaits <= idleWaits)
      BY <3>2 DEF AgentIsKnown, RunAtEnd
    <3> QED
      BY <3>2, <3>3, RunDecides
  <2>5. /\ jobVerdict = "failure_budget" => EndsWith(OfThisJob, MaxFailures, {"failed"})
        /\ verdict = "idle_budget" => EndsWith(waits, MaxIdleWaits, {"idle"})
        /\ verdict = "wakeup_budget" => Woken = MaxWakeups
    BY <2>1 DEF JobInv, WatchInv
  <2> QED
    BY <2>3, <2>4, <2>5 DEF StopsAsTold
<1> QED
  BY <1>1, <1>2, <1>3, PTL DEF AgentSpec

-----------------------------------------------------------------------------
(* The viewer's client: replies reach the calls they answer.               *)

Askable == Reads \cup Controls \cup {"launch"}
ViewerIsKnown == Asks \subseteq Askable /\ MaxAsks \in Nat

\* A caller begins what can be asked.
Begins(c) ==
  /\ \E ask \in Askable : Begin(c, ask)
  /\ UNCHANGED << slot, down, rx, toClient, up, reads, recording, posts, abandoned >>

\* Input is written, however much was.
WritesInput ==
  /\ toServer' = Append(toServer, [ask |-> "input", id |-> 0])
  /\ UNCHANGED << calls, lastId, fifo, slot, down, rx, toClient, up, reads, recording, abandoned, excuses >>

ViewerCalls ==
  [pc : {"idle", "checked", "subscribed", "registered", "waiting"}, ask : Askable \cup {"none"},
   id : Nat, errors : Seq(Nat), frame : BOOLEAN]
Waiters == [id : Nat \ {0}, ask : Askable]
Requests == [ask : Reads \cup Controls \cup {"launch", "input", "bye"}, id : Nat]
ServerMessages == [kind : Fifos \cup {"frame", "error"}, re : Nat, rec : BOOLEAN]

ViewerTyped ==
  /\ calls \in [Callers -> ViewerCalls] /\ lastId \in Nat /\ lastId <= MaxAsks
  /\ \A c \in Callers : calls[c].pc # "idle" => calls[c].ask \in Askable /\ calls[c].id # 0
  /\ fifo \in [Fifos -> Seq(Waiters)] /\ DOMAIN slot = 1 .. MaxAsks
  /\ toServer \in Seq(Requests) /\ reads \in Seq(Requests) /\ toClient \in Seq(ServerMessages)
  /\ \A p \in 1 .. Len(reads) : reads[p].ask \in Reads
  /\ recording \in BOOLEAN /\ (rx = "up" => down = 0)

\* The ids in the three queues a request and its answer pass through; 0 is nobody's.
IdsOf(requests) == [p \in 1 .. Len(requests) |-> requests[p].id]
AnswersIn(messages) == [p \in 1 .. Len(messages) |-> messages[p].re]
AsksFor(requests, i) == \E p \in 1 .. Len(requests) : requests[p].id = i
RepliesTo(messages, i) == \E p \in 1 .. Len(messages) : messages[p].re = i
OnTheWay(i) ==
  \/ RepliesTo(toClient, i)
  \/ AsksFor(reads, i)
  \/ AsksFor(toServer, i)

\* i and j wait for the same kind of reply, and i registered first.
Ahead(f, i, j) ==
  \E k \in Fifos : \E m, n \in 1 .. Len(f[k]) : m < n /\ f[k][m].id = i /\ f[k][n].id = j

(***************************************************************************)
(* The ids of s are in line with those of t, which are read later: no      *)
(* request is on its way twice, and none is behind one that registered     *)
(* later.                                                                  *)
(***************************************************************************)
Fits(f, i, j) == i = 0 \/ j = 0 \/ (i # j /\ ~ Ahead(f, j, i))
Lined(f, s) == \A p, q \in 1 .. Len(s) : p < q => Fits(f, s[p], s[q])
Across(f, s, t) == \A p \in 1 .. Len(s) : \A q \in 1 .. Len(t) : Fits(f, s[p], t[q])

InLine(f, back, read, sent) ==
  /\ Lined(f, back) /\ Lined(f, read) /\ Lined(f, sent)
  /\ Across(f, back, read) /\ Across(f, back, sent) /\ Across(f, read, sent)

LineInv == InLine(fifo, AnswersIn(toClient), IdsOf(reads), IdsOf(toServer))

\* An id has one owner; what it has not written, or was refused, is not on the way.
Holder(c, i, pcs) == calls[c].pc \in pcs /\ calls[c].id = i
RefusedTo(c) == \E p \in 1 .. Len(calls[c].errors) : calls[c].errors[p] = calls[c].id
Early == {"checked", "subscribed", "registered"}

CallersInv ==
  /\ \A i \in abandoned : i \in Nat /\ i <= lastId
  /\ \A i \in Nat : OnTheWay(i) => i <= lastId
  /\ \A c \in Callers : calls[c].pc # "idle" =>
       /\ calls[c].id <= lastId /\ calls[c].id \notin abandoned
       /\ \A d \in Callers : calls[d].pc # "idle" /\ calls[d].id = calls[c].id => c = d
       /\ calls[c].pc = "checked" => calls[c].errors = << >>
       /\ calls[c].pc \in Early => ~ OnTheWay(calls[c].id)
       /\ RefusedTo(c) => calls[c].pc = "waiting" /\ ~ OnTheWay(calls[c].id)

\* Registrations: one per call; what is not written is behind what is.
Unwritten(i) == \E c \in Callers : Holder(c, i, {"registered"})
Refused(i) == \E c \in Callers : Holder(c, i, {"waiting"}) /\ RefusedTo(c)

WaiterInv(w, k) ==
  /\ FifoOf(w.ask) = k /\ w.ask # "frame"
  /\ \/ w.id \in abandoned
     \/ \E c \in Callers : Holder(c, w.id, {"registered", "waiting"}) /\ calls[c].ask = w.ask
  /\ Unwritten(w.id) \/ OnTheWay(w.id) \/ Refused(w.id)

WaitersInv == \A k \in Fifos : \A i \in 1 .. Len(fifo[k]) : WaiterInv(fifo[k][i], k)

FifoInv ==
  /\ \A k, l \in Fifos : \A i \in 1 .. Len(fifo[k]) : \A j \in 1 .. Len(fifo[l]) :
       fifo[k][i].id = fifo[l][j].id => k = l /\ i = j
  /\ \A k \in Fifos : \A i, j \in 1 .. Len(fifo[k]) :
       i < j /\ Unwritten(fifo[k][i].id) => Unwritten(fifo[k][j].id)

\* Who waits for what is on its way.
Waits(k, i) == \E j \in 1 .. Len(fifo[k]) : fifo[k][j].id = i
Known(ask, i) ==
  /\ \A k \in Fifos : \A j \in 1 .. Len(fifo[k]) : fifo[k][j].id = i => fifo[k][j].ask = ask
  /\ ask # "frame" => Waits(FifoOf(ask), i)
RequestInv(m) ==
  IF m.ask \in {"input", "bye"} THEN m.id = 0 ELSE m.id # 0 /\ Known(m.ask, m.id)
AnswerInv(m) ==
  /\ m.kind \in Fifos => m.re # 0 /\ Waits(m.kind, m.re)
  /\ m.kind = "frame" => \A k \in Fifos : ~ Waits(k, m.re)

MessagesInv ==
  /\ \A c \in Callers : calls[c].pc = "registered" => Known(calls[c].ask, calls[c].id)
  /\ \A p \in 1 .. Len(toServer) : RequestInv(toServer[p])
  /\ \A p \in 1 .. Len(reads) : RequestInv(reads[p])
  /\ \A p \in 1 .. Len(toClient) : AnswerInv(toClient[p])

\* A call that was answered waits for nothing.
SlotInv ==
  \A i \in 1 .. MaxAsks : slot[i] # NoReply =>
    /\ i <= lastId /\ \A k \in Fifos : ~ Waits(k, i)
    /\ \A c \in Callers : ~ Holder(c, i, Early)

Straight == excuses \subseteq {"refused"}
ConnectionInv == CallersInv /\ WaitersInv /\ FifoInv /\ MessagesInv /\ SlotInv /\ LineInv

ViewerInv ==
  /\ ViewerTyped
  /\ Straight => RepliesFindTheirCalls
  /\ Straight /\ rx = "up" => ConnectionInv

-----------------------------------------------------------------------------
(* Queues of ids.                                                          *)

Grew(t, s, x) ==
  Len(s) \in Nat /\ Len(t) = Len(s) + 1 /\ t[Len(s) + 1] = x /\ \A p \in 1 .. Len(s) : t[p] = s[p]
Popped(t, s) == Len(t) \in Nat /\ Len(s) = Len(t) + 1 /\ \A p \in 1 .. Len(t) : t[p] = s[p + 1]

LEMMA IdsOfRequests ==
  ASSUME NEW s \in Seq(Requests)
  PROVE  /\ Len(IdsOf(s)) = Len(s) /\ Len(s) \in Nat
         /\ \A p \in 1 .. Len(s) : IdsOf(s)[p] = s[p].id /\ s[p].id \in Nat
<1>1. PICK n \in Nat : n = Len(s)
  OBVIOUS
<1>2. \A p \in 1 .. n : s[p] \in Requests
  BY <1>1
<1>3. \A p \in 1 .. n : s[p].id \in Nat
  BY <1>2 DEF Requests
<1>4. IdsOf(s) = [p \in 1 .. n |-> s[p].id]
  BY <1>1 DEF IdsOf
<1>5. IdsOf(s) \in [1 .. n -> Nat]
  BY <1>3, <1>4
<1>6. IdsOf(s) \in Seq(Nat) /\ DOMAIN IdsOf(s) = 1 .. n
  BY <1>4, <1>5
<1>7. Len(IdsOf(s)) = n
  BY <1>6
<1> QED
  BY <1>1, <1>3, <1>4, <1>7

LEMMA IdsOfAnswers ==
  ASSUME NEW s \in Seq(ServerMessages)
  PROVE  /\ Len(AnswersIn(s)) = Len(s) /\ Len(s) \in Nat
         /\ \A p \in 1 .. Len(s) : AnswersIn(s)[p] = s[p].re /\ s[p].re \in Nat
<1>1. PICK n \in Nat : n = Len(s)
  OBVIOUS
<1>2. \A p \in 1 .. n : s[p] \in ServerMessages
  BY <1>1
<1>3. \A p \in 1 .. n : s[p].re \in Nat
  BY <1>2 DEF ServerMessages
<1>4. AnswersIn(s) = [p \in 1 .. n |-> s[p].re]
  BY <1>1 DEF AnswersIn
<1>5. AnswersIn(s) \in [1 .. n -> Nat]
  BY <1>3, <1>4
<1>6. AnswersIn(s) \in Seq(Nat) /\ DOMAIN AnswersIn(s) = 1 .. n
  BY <1>4, <1>5
<1>7. Len(AnswersIn(s)) = n
  BY <1>6
<1> QED
  BY <1>1, <1>3, <1>4, <1>7

LEMMA AppendGrows ==
  ASSUME NEW S, NEW s \in Seq(S), NEW x \in S
  PROVE  Append(s, x) \in Seq(S) /\ Grew(Append(s, x), s, x)
<1>1. PICK n \in Nat : n = Len(s)
  OBVIOUS
<1> QED
  BY <1>1 DEF Grew

LEMMA TailPops ==
  ASSUME NEW S, NEW s \in Seq(S), s # << >>
  PROVE  /\ Tail(s) \in Seq(S) /\ Popped(Tail(s), s) /\ Head(s) = s[1] /\ Head(s) \in S
         /\ 1 \in 1 .. Len(s)
<1>1. PICK n \in Nat : n = Len(s)
  OBVIOUS
<1>2. n > 0
  BY <1>1
<1> QED
  BY <1>1, <1>2 DEF Popped

\* The ids of queues that grew or were popped.
LEMMA MoreRequests ==
  ASSUME NEW s \in Seq(Requests), NEW x \in Requests
  PROVE  Grew(IdsOf(Append(s, x)), IdsOf(s), x.id)
<1>1. PICK t : t = Append(s, x)
  OBVIOUS
<1>2. t \in Seq(Requests) /\ Grew(t, s, x)
  BY <1>1, AppendGrows
<1>3. PICK n \in Nat : n = Len(s) /\ n = Len(IdsOf(s)) /\ n + 1 = Len(t) /\ n + 1 = Len(IdsOf(t))
  BY <1>2, IdsOfRequests DEF Grew
<1>4. \A p \in 1 .. n : IdsOf(t)[p] = IdsOf(s)[p]
  BY <1>2, <1>3, IdsOfRequests DEF Grew
<1>5. IdsOf(t)[n + 1] = x.id
  BY <1>2, <1>3, IdsOfRequests DEF Grew
<1> QED
  BY <1>1, <1>3, <1>4, <1>5 DEF Grew

LEMMA MoreAnswers ==
  ASSUME NEW s \in Seq(ServerMessages), NEW x \in ServerMessages
  PROVE  Grew(AnswersIn(Append(s, x)), AnswersIn(s), x.re)
<1>1. PICK t : t = Append(s, x)
  OBVIOUS
<1>2. t \in Seq(ServerMessages) /\ Grew(t, s, x)
  BY <1>1, AppendGrows
<1>3. PICK n \in Nat : n = Len(s) /\ n = Len(AnswersIn(s)) /\ n + 1 = Len(t) /\ n + 1 = Len(AnswersIn(t))
  BY <1>2, IdsOfAnswers DEF Grew
<1>4. \A p \in 1 .. n : AnswersIn(t)[p] = AnswersIn(s)[p]
  BY <1>2, <1>3, IdsOfAnswers DEF Grew
<1>5. AnswersIn(t)[n + 1] = x.re
  BY <1>2, <1>3, IdsOfAnswers DEF Grew
<1> QED
  BY <1>1, <1>3, <1>4, <1>5 DEF Grew

LEMMA FewerRequests ==
  ASSUME NEW s \in Seq(Requests), s # << >>
  PROVE  /\ Popped(IdsOf(Tail(s)), IdsOf(s)) /\ IdsOf(s)[1] = Head(s).id
         /\ 1 \in 1 .. Len(s)
<1>1. PICK t : t = Tail(s)
  OBVIOUS
<1>2. t \in Seq(Requests) /\ Popped(t, s) /\ Head(s) = s[1] /\ 1 \in 1 .. Len(s)
  BY <1>1, TailPops
<1>3. PICK n \in Nat : n = Len(t) /\ n = Len(IdsOf(t)) /\ n + 1 = Len(s) /\ n + 1 = Len(IdsOf(s))
  BY <1>2, IdsOfRequests DEF Popped
<1>4. ASSUME NEW p \in 1 .. n PROVE IdsOf(t)[p] = IdsOf(s)[p + 1]
  <2>1. p + 1 \in 1 .. n + 1 /\ t[p] = s[p + 1]
    BY <1>2, <1>3 DEF Popped
  <2>2. IdsOf(t)[p] = t[p].id
    BY <1>2, <1>3, IdsOfRequests
  <2>3. IdsOf(s)[p + 1] = s[p + 1].id
    BY <1>3, <2>1, IdsOfRequests
  <2> QED
    BY <2>1, <2>2, <2>3
<1>5. IdsOf(s)[1] = Head(s).id
  BY <1>2, IdsOfRequests
<1> QED
  BY <1>1, <1>2, <1>3, <1>4, <1>5 DEF Popped

LEMMA FewerAnswers ==
  ASSUME NEW s \in Seq(ServerMessages), s # << >>
  PROVE  /\ Popped(AnswersIn(Tail(s)), AnswersIn(s)) /\ AnswersIn(s)[1] = Head(s).re
         /\ 1 \in 1 .. Len(s)
<1>1. PICK t : t = Tail(s)
  OBVIOUS
<1>2. t \in Seq(ServerMessages) /\ Popped(t, s) /\ Head(s) = s[1] /\ 1 \in 1 .. Len(s)
  BY <1>1, TailPops
<1>3. PICK n \in Nat : n = Len(t) /\ n = Len(AnswersIn(t)) /\ n + 1 = Len(s) /\ n + 1 = Len(AnswersIn(s))
  BY <1>2, IdsOfAnswers DEF Popped
<1>4. ASSUME NEW p \in 1 .. n PROVE AnswersIn(t)[p] = AnswersIn(s)[p + 1]
  <2>1. p + 1 \in 1 .. n + 1 /\ t[p] = s[p + 1]
    BY <1>2, <1>3 DEF Popped
  <2>2. AnswersIn(t)[p] = t[p].re
    BY <1>2, <1>3, IdsOfAnswers
  <2>3. AnswersIn(s)[p + 1] = s[p + 1].re
    BY <1>3, <2>1, IdsOfAnswers
  <2> QED
    BY <2>1, <2>2, <2>3
<1>5. AnswersIn(s)[1] = Head(s).re
  BY <1>2, IdsOfAnswers
<1> QED
  BY <1>1, <1>2, <1>3, <1>4, <1>5 DEF Popped

-----------------------------------------------------------------------------
(* Requests and answers in line.                                           *)

LEMMA GrownIsLined ==
  ASSUME NEW f, NEW s, NEW t, NEW x, Grew(t, s, x), Lined(f, s), \A p \in 1 .. Len(s) : Fits(f, s[p], x)
  PROVE  Lined(f, t)
<1>1. PICK n \in Nat : n = Len(s)
  BY DEF Grew
<1>2. Len(t) = n + 1 /\ t[n + 1] = x /\ \A p \in 1 .. n : t[p] = s[p]
  BY <1>1 DEF Grew
<1>3. ASSUME NEW p \in 1 .. n + 1, NEW q \in 1 .. n + 1, p < q PROVE Fits(f, t[p], t[q])
  <2>1. p \in 1 .. n /\ t[p] = s[p]
    BY <1>2, <1>3
  <2>2. CASE q = n + 1
    BY <1>1, <1>2, <2>1, <2>2
  <2>3. CASE q \in 1 .. n
    BY <1>1, <1>2, <1>3, <2>1, <2>3 DEF Lined
  <2> QED
    BY <2>2, <2>3
<1> QED
  BY <1>2, <1>3 DEF Lined

LEMMA GrownInFront ==
  ASSUME NEW f, NEW s, NEW t, NEW x, NEW u, Grew(t, s, x), Across(f, s, u),
         \A q \in 1 .. Len(u) : Fits(f, x, u[q])
  PROVE  Across(f, t, u)
<1>1. PICK n \in Nat : n = Len(s)
  BY DEF Grew
<1>2. Len(t) = n + 1 /\ t[n + 1] = x /\ \A p \in 1 .. n : t[p] = s[p]
  BY <1>1 DEF Grew
<1>3. ASSUME NEW p \in 1 .. n + 1, NEW q \in 1 .. Len(u) PROVE Fits(f, t[p], u[q])
  <2>1. CASE p = n + 1
    BY <1>2, <2>1
  <2>2. CASE p \in 1 .. n
    BY <1>1, <1>2, <2>2 DEF Across
  <2> QED
    BY <2>1, <2>2
<1> QED
  BY <1>2, <1>3 DEF Across

LEMMA GrownBehind ==
  ASSUME NEW f, NEW s, NEW t, NEW x, NEW u, Grew(t, s, x), Across(f, u, s),
         \A p \in 1 .. Len(u) : Fits(f, u[p], x)
  PROVE  Across(f, u, t)
<1>1. PICK n \in Nat : n = Len(s)
  BY DEF Grew
<1>2. Len(t) = n + 1 /\ t[n + 1] = x /\ \A p \in 1 .. n : t[p] = s[p]
  BY <1>1 DEF Grew
<1>3. ASSUME NEW p \in 1 .. Len(u), NEW q \in 1 .. n + 1 PROVE Fits(f, u[p], t[q])
  <2>1. CASE q = n + 1
    BY <1>2, <2>1
  <2>2. CASE q \in 1 .. n
    BY <1>1, <1>2, <2>2 DEF Across
  <2> QED
    BY <2>1, <2>2
<1> QED
  BY <1>2, <1>3 DEF Across

LEMMA PoppedIsLined ==
  ASSUME NEW f, NEW s, NEW t, Popped(t, s), Lined(f, s)
  PROVE  Lined(f, t) /\ \A q \in 1 .. Len(t) : Fits(f, s[1], t[q])
<1>1. PICK n \in Nat : n = Len(t)
  BY DEF Popped
<1>2. Len(s) = n + 1 /\ \A p \in 1 .. n : t[p] = s[p + 1]
  BY <1>1 DEF Popped
<1>3. ASSUME NEW p \in 1 .. n, NEW q \in 1 .. n, p < q PROVE Fits(f, t[p], t[q])
  <2>1. p + 1 \in 1 .. n + 1 /\ q + 1 \in 1 .. n + 1 /\ p + 1 < q + 1
    BY <1>3
  <2>2. Fits(f, s[p + 1], s[q + 1])
    BY <1>2, <2>1 DEF Lined
  <2> QED
    BY <1>2, <2>2
<1>4. ASSUME NEW q \in 1 .. n PROVE Fits(f, s[1], t[q])
  <2>1. q + 1 \in 1 .. n + 1 /\ 1 \in 1 .. n + 1 /\ 1 < q + 1
    OBVIOUS
  <2>2. Fits(f, s[1], s[q + 1])
    BY <1>2, <2>1 DEF Lined
  <2> QED
    BY <1>2, <2>2
<1> QED
  BY <1>1, <1>3, <1>4 DEF Lined

LEMMA PoppedInFront ==
  ASSUME NEW f, NEW s, NEW t, NEW u, Popped(t, s), Across(f, s, u)
  PROVE  Across(f, t, u) /\ \A q \in 1 .. Len(u) : Fits(f, s[1], u[q])
<1>1. PICK n \in Nat : n = Len(t)
  BY DEF Popped
<1>2. Len(s) = n + 1 /\ \A p \in 1 .. n : t[p] = s[p + 1] /\ p + 1 \in 1 .. n + 1
  BY <1>1 DEF Popped
<1>3. 1 \in 1 .. n + 1
  OBVIOUS
<1> QED
  BY <1>1, <1>2, <1>3 DEF Across

LEMMA PoppedBehind ==
  ASSUME NEW f, NEW s, NEW t, NEW u, Popped(t, s), Across(f, u, s)
  PROVE  Across(f, u, t) /\ \A p \in 1 .. Len(u) : Fits(f, u[p], s[1])
<1>1. PICK n \in Nat : n = Len(t)
  BY DEF Popped
<1>2. Len(s) = n + 1 /\ \A p \in 1 .. n : t[p] = s[p + 1] /\ p + 1 \in 1 .. n + 1
  BY <1>1 DEF Popped
<1>3. 1 \in 1 .. n + 1
  OBVIOUS
<1> QED
  BY <1>1, <1>2, <1>3 DEF Across

\* A request is read, or what was read is answered: the line stays as it is.
LEMMA HandedOn ==
  ASSUME NEW f, NEW s, NEW t, NEW s2, NEW t2, Popped(t2, t), Grew(s2, s, t[1]),
         Lined(f, s), Lined(f, t), Across(f, s, t)
  PROVE  Lined(f, s2) /\ Lined(f, t2) /\ Across(f, s2, t2)
<1>1. Lined(f, t2) /\ \A q \in 1 .. Len(t2) : Fits(f, t[1], t2[q])
  BY PoppedIsLined
<1>2. Across(f, s, t2) /\ \A p \in 1 .. Len(s) : Fits(f, s[p], t[1])
  BY PoppedBehind
<1> QED
  BY <1>1, <1>2, GrownIsLined, GrownInFront

LEMMA FrontAnswered ==
  ASSUME NEW f, NEW back, NEW read, NEW sent, InLine(f, back, read, sent),
         NEW b, NEW r, Popped(r, read), Grew(b, back, read[1])
  PROVE  InLine(f, b, r, sent)
<1>1. Lined(f, b) /\ Lined(f, r) /\ Across(f, b, r)
  BY HandedOn DEF InLine
<1>2. Across(f, r, sent) /\ \A q \in 1 .. Len(sent) : Fits(f, read[1], sent[q])
  BY PoppedInFront DEF InLine
<1>3. Across(f, b, sent)
  BY <1>2, GrownInFront DEF InLine
<1> QED
  BY <1>1, <1>2, <1>3 DEF InLine

LEMMA FrontQueued ==
  ASSUME NEW f, NEW back, NEW read, NEW sent, InLine(f, back, read, sent),
         NEW r, NEW s, Popped(s, sent), Grew(r, read, sent[1])
  PROVE  InLine(f, back, r, s)
<1>1. Lined(f, r) /\ Lined(f, s) /\ Across(f, r, s)
  BY HandedOn DEF InLine
<1>2. Across(f, back, s) /\ \A p \in 1 .. Len(back) : Fits(f, back[p], sent[1])
  BY PoppedBehind DEF InLine
<1>3. Across(f, back, r)
  BY <1>2, GrownBehind DEF InLine
<1> QED
  BY <1>1, <1>2, <1>3 DEF InLine

\* A request that is answered as it is read passes those that are queued.
LEMMA FrontApplied ==
  ASSUME NEW f, NEW back, NEW read, NEW sent, InLine(f, back, read, sent),
         NEW b, NEW s, Popped(s, sent), Grew(b, back, sent[1]),
         \A p \in 1 .. Len(read) : Fits(f, sent[1], read[p])
  PROVE  InLine(f, b, read, s)
<1>1. Lined(f, b) /\ Lined(f, s) /\ Across(f, b, s)
  BY HandedOn DEF InLine
<1>2. Across(f, read, s)
  BY PoppedBehind DEF InLine
<1>3. Across(f, b, read)
  BY GrownInFront DEF InLine
<1> QED
  BY <1>1, <1>2, <1>3 DEF InLine

LEMMA FrontDropped ==
  ASSUME NEW f, NEW back, NEW read, NEW sent, InLine(f, back, read, sent), NEW s, Popped(s, sent)
  PROVE  InLine(f, back, read, s)
BY PoppedIsLined, PoppedBehind DEF InLine

LEMMA FrontDelivered ==
  ASSUME NEW f, NEW back, NEW read, NEW sent, InLine(f, back, read, sent), NEW b, Popped(b, back)
  PROVE  /\ InLine(f, b, read, sent)
         /\ \A q \in 1 .. Len(b) : Fits(f, back[1], b[q])
         /\ \A q \in 1 .. Len(read) : Fits(f, back[1], read[q])
         /\ \A q \in 1 .. Len(sent) : Fits(f, back[1], sent[q])
BY PoppedIsLined, PoppedInFront DEF InLine

LEMMA PushedLine ==
  ASSUME NEW f, NEW back, NEW read, NEW sent, InLine(f, back, read, sent), NEW b, Grew(b, back, 0)
  PROVE  InLine(f, b, read, sent)
<1>1. \A i : Fits(f, i, 0) /\ Fits(f, 0, i)
  BY DEF Fits
<1> QED
  BY <1>1, GrownIsLined, GrownInFront DEF InLine

LEMMA SentLine ==
  ASSUME NEW f, NEW back, NEW read, NEW sent, InLine(f, back, read, sent), NEW s, NEW x,
         Grew(s, sent, x),
         \A p \in 1 .. Len(back) : Fits(f, back[p], x),
         \A p \in 1 .. Len(read) : Fits(f, read[p], x),
         \A p \in 1 .. Len(sent) : Fits(f, sent[p], x)
  PROVE  InLine(f, back, read, s)
BY GrownIsLined, GrownBehind DEF InLine

\* Fewer registrations put fewer requests in order.
LEMMA LineOfFewer ==
  ASSUME NEW f, NEW g, NEW back, NEW read, NEW sent, InLine(f, back, read, sent),
         \A i, j : Ahead(g, i, j) => Ahead(f, i, j)
  PROVE  InLine(g, back, read, sent)
<1>1. \A i, j : Fits(f, i, j) => Fits(g, i, j)
  BY DEF Fits
<1> QED
  BY <1>1 DEF InLine, Lined, Across

-----------------------------------------------------------------------------
(* The types of the viewer's client.                                       *)

LEMMA IdleIsACall == Idle \in ViewerCalls /\ Idle.pc = "idle" /\ Idle.errors = << >>
BY DEF Idle, ViewerCalls

LEMMA CallChanges ==
  ASSUME ViewerTyped, NEW c \in Callers, NEW x \in ViewerCalls, calls' = [calls EXCEPT ![c] = x],
         x.pc # "idle" => x.ask \in Askable /\ x.id # 0
  PROVE  /\ calls' \in [Callers -> ViewerCalls] /\ calls'[c] = x
         /\ \A d \in Callers : d # c => calls'[d] = calls[d]
         /\ \A d \in Callers : calls'[d].pc # "idle" => calls'[d].ask \in Askable /\ calls'[d].id # 0
<1>1. /\ calls' \in [Callers -> ViewerCalls] /\ calls'[c] = x
      /\ \A d \in Callers : d # c => calls'[d] = calls[d]
  BY DEF ViewerTyped
<1> QED
  BY <1>1 DEF ViewerTyped

LEMMA MoveIsAChange ==
  ASSUME ViewerTyped, NEW c \in Callers, NEW pc \in {"checked", "subscribed", "registered", "waiting"},
         Move(c, pc)
  PROVE  \E x \in ViewerCalls :
           /\ calls' = [calls EXCEPT ![c] = x] /\ x.pc = pc /\ x.ask = calls[c].ask
           /\ x.id = calls[c].id /\ x.errors = calls[c].errors /\ x.frame = calls[c].frame
<1>1. calls[c] \in ViewerCalls
  BY DEF ViewerTyped
<1>2. PICK x : x = [calls[c] EXCEPT !.pc = pc]
  OBVIOUS
<1>3. /\ x \in ViewerCalls /\ x.pc = pc /\ x.ask = calls[c].ask
      /\ x.id = calls[c].id /\ x.errors = calls[c].errors /\ x.frame = calls[c].frame
  BY <1>1, <1>2 DEF ViewerCalls
<1>4. calls' = [calls EXCEPT ![c] = x]
  BY <1>2 DEF Move
<1> QED
  BY <1>3, <1>4

\* What is left of the registrations f when those of id i are removed.
Thins(g, f, i) ==
  \A k \in Fifos : Retains(g[k], f[k], {n \in 1 .. Len(f[k]) : f[k][n].id # i})

LEMMA RemovedThins ==
  ASSUME ViewerTyped, NEW c \in Callers
  PROVE  Removed(c) \in [Fifos -> Seq(Waiters)] /\ Thins(Removed(c), fifo, calls[c].id)
<1>1. ASSUME NEW k \in Fifos
      PROVE  Removed(c)[k] \in Seq(Waiters)
             /\ Retains(Removed(c)[k], fifo[k], {n \in 1 .. Len(fifo[k]) : fifo[k][n].id # calls[c].id})
  <2>1. fifo[k] \in Seq(Waiters)
    BY DEF ViewerTyped
  <2>2. PICK S : S = {n \in 1 .. Len(fifo[k]) : fifo[k][n].id # calls[c].id}
    OBVIOUS
  <2>3. S = {n \in DOMAIN fifo[k] : fifo[k][n].id /= calls[c].id}
    BY <2>1, <2>2
  <2>4. Removed(c)[k] = Sublist(fifo[k], S)
    BY <2>3 DEF Removed
  <2>5. S \subseteq 1 .. Len(fifo[k])
    BY <2>2
  <2> QED
    BY <2>1, <2>2, <2>4, <2>5, SublistProperties
<1>2. Removed(c) = [k \in Fifos |-> Removed(c)[k]]
  BY DEF Removed
<1> QED
  BY <1>1, <1>2 DEF Thins

LEMMA ViewerStartsTyped == ASSUME ViewerIsKnown, ClientInit PROVE ViewerTyped
<1>1. /\ calls = [c \in Callers |-> Idle] /\ lastId = 0 /\ fifo = [k \in Fifos |-> << >>]
      /\ slot = [i \in 1..MaxAsks |-> NoReply] /\ down = 0 /\ rx = "up" /\ toServer = << >>
      /\ toClient = << >> /\ reads = << >> /\ recording \in BOOLEAN
  BY DEF ClientInit
<1>2. fifo \in [Fifos -> Seq(Waiters)] /\ DOMAIN slot = 1 .. MaxAsks
  BY <1>1
<1>3. calls \in [Callers -> ViewerCalls] /\ \A c \in Callers : calls[c].pc = "idle"
  BY <1>1, IdleIsACall
<1> QED
  BY <1>1, <1>2, <1>3 DEF ViewerTyped, ViewerIsKnown

\* The steps of a caller.
LEMMA CallingTyped ==
  ASSUME ViewerIsKnown, ViewerTyped, NEW c \in Callers, Begins(c) \/ Continue(c) \/ Abandon(c)
  PROVE  ViewerTyped'
<1>0. calls[c] \in ViewerCalls /\ fifo \in [Fifos -> Seq(Waiters)] /\ toServer \in Seq(Requests)
      /\ lastId \in Nat /\ lastId <= MaxAsks /\ MaxAsks \in Nat
  BY DEF ViewerTyped, ViewerIsKnown
<1>1. ASSUME Leave(c), UNCHANGED << lastId, slot, down, rx, toServer, toClient, reads, recording >>,
             fifo' = fifo \/ fifo' = Removed(c)
      PROVE  ViewerTyped'
  <2>1. calls' = [calls EXCEPT ![c] = Idle]
    BY <1>1 DEF Leave
  <2>2. /\ calls' \in [Callers -> ViewerCalls]
        /\ \A d \in Callers : calls'[d].pc # "idle" => calls'[d].ask \in Askable /\ calls'[d].id # 0
    BY <2>1, CallChanges, IdleIsACall
  <2>3. fifo' \in [Fifos -> Seq(Waiters)]
    BY <1>0, <1>1, RemovedThins
  <2> QED
    BY <1>1, <2>2, <2>3 DEF ViewerTyped
<1>2. ASSUME NEW pc \in {"checked", "subscribed", "registered", "waiting"}, Move(c, pc),
             calls[c].pc # "idle",
             UNCHANGED << lastId, slot, down, rx, toClient, reads, recording >>,
             fifo' \in [Fifos -> Seq(Waiters)], toServer' \in Seq(Requests)
      PROVE  ViewerTyped'
  <2>1. PICK x \in ViewerCalls :
          /\ calls' = [calls EXCEPT ![c] = x] /\ x.pc = pc /\ x.ask = calls[c].ask /\ x.id = calls[c].id
    BY <1>2, MoveIsAChange
  <2>2. x.ask \in Askable /\ x.id # 0
    BY <1>2, <2>1 DEF ViewerTyped
  <2>3. /\ calls' \in [Callers -> ViewerCalls]
        /\ \A d \in Callers : calls'[d].pc # "idle" => calls'[d].ask \in Askable /\ calls'[d].id # 0
    BY <2>1, <2>2, CallChanges
  <2> QED
    BY <1>2, <2>3 DEF ViewerTyped
<1>3. CASE Begins(c)
  <2>1. PICK ask \in Askable : Begin(c, ask)
    BY <1>3 DEF Begins
  <2>2. /\ UNCHANGED << fifo, slot, down, rx, toServer, toClient, reads, recording >>
        /\ lastId' \in Nat /\ lastId' <= MaxAsks /\ lastId' # 0
    <3>1. UNCHANGED << slot, down, rx, toClient, reads, recording >>
      BY <1>3 DEF Begins
    <3>2. UNCHANGED << fifo, toServer >> /\ lastId < MaxAsks /\ lastId' = lastId + 1
      BY <2>1 DEF Begin
    <3>3. lastId' \in Nat /\ lastId' <= MaxAsks /\ lastId' # 0
      BY <1>0, <3>2
    <3> QED
      BY <3>1, <3>2, <3>3
  <2>3. PICK x : x = [Idle EXCEPT !.pc = "checked", !.ask = ask, !.id = lastId']
    OBVIOUS
  <2>4. x \in ViewerCalls /\ x.ask = ask /\ x.id = lastId'
    BY <2>2, <2>3, IdleIsACall DEF ViewerCalls
  <2>5. calls' = [calls EXCEPT ![c] = Idle] \/ calls' = [calls EXCEPT ![c] = x]
    BY <2>1, <2>3 DEF Begin, Leave
  <2>6. /\ calls' \in [Callers -> ViewerCalls]
        /\ \A d \in Callers : calls'[d].pc # "idle" => calls'[d].ask \in Askable /\ calls'[d].id # 0
    BY <2>2, <2>4, <2>5, CallChanges, IdleIsACall
  <2> QED
    BY <2>2, <2>6 DEF ViewerTyped
<1>4. CASE Abandon(c)
  BY <1>1, <1>4 DEF Abandon
<1>5. CASE Continue(c)
  <2>0. UNCHANGED << slot, down, rx, toClient, reads, recording >>
    BY <1>5 DEF Continue
  <2>1. CASE SubscribeErrors(c)
    <3>1. CASE Leave(c)
      BY <1>1, <2>0, <2>1, <3>1 DEF SubscribeErrors
    <3>2. CASE Move(c, "subscribed")
      BY <1>0, <1>2, <2>0, <2>1, <3>2 DEF SubscribeErrors, At
    <3> QED
      BY <2>1, <3>1, <3>2 DEF SubscribeErrors
  <2>2. CASE Register(c)
    <3>1. PICK w : w = [id |-> calls[c].id, ask |-> calls[c].ask]
      OBVIOUS
    <3>2. w \in Waiters
      BY <1>0, <2>2, <3>1 DEF Register, At, ViewerTyped, Waiters, ViewerCalls
    <3>3. PICK k : k = FifoOf(calls[c].ask)
      OBVIOUS
    <3>4. fifo' = fifo \/ fifo' = [fifo EXCEPT ![k] = Append(@, w)]
      BY <2>2, <3>1, <3>3 DEF Register
    <3>5. fifo' \in [Fifos -> Seq(Waiters)]
      <4>1. ASSUME k \in Fifos PROVE Append(fifo[k], w) \in Seq(Waiters)
        BY <1>0, <3>2, <4>1, AppendGrows
      <4> QED
        BY <1>0, <3>4, <4>1
    <3> QED
      BY <1>0, <1>2, <2>0, <2>2, <3>5 DEF Register, At
  <2>3. CASE Send(c)
    <3>1. CASE toServer' = Append(toServer, [ask |-> calls[c].ask, id |-> calls[c].id])
               /\ Move(c, "waiting") /\ UNCHANGED fifo
      <4>1. [ask |-> calls[c].ask, id |-> calls[c].id] \in Requests
        BY <1>0, <2>3 DEF Send, At, ViewerTyped, Askable, Requests, ViewerCalls
      <4>2. toServer' \in Seq(Requests)
        BY <1>0, <3>1, <4>1, AppendGrows
      <4> QED
        BY <1>0, <1>2, <2>0, <2>3, <3>1, <4>2 DEF Send, At
    <3>2. CASE fifo' = Removed(c) /\ Leave(c) /\ UNCHANGED toServer
      BY <1>1, <2>0, <2>3, <3>2 DEF Send
    <3> QED
      BY <2>3, <3>1, <3>2 DEF Send
  <2>4. CASE TakeReply(c) \/ TakeFrame(c) \/ TakeError(c) \/ TakeEnd(c)
    BY <1>1, <2>0, <2>4 DEF TakeReply, TakeFrame, TakeError, TakeEnd
  <2> QED
    BY <1>5, <2>1, <2>2, <2>3, <2>4 DEF Continue
<1> QED
  BY <1>3, <1>4, <1>5

-----------------------------------------------------------------------------
(* The types of the session's messages and of what is delivered.           *)

LEMMA FifosOfAsks ==
  ASSUME NEW ask \in Reads \cup Controls \cup {"launch"}
  PROVE  IF ask = "frame" THEN FifoOf(ask) = "frame" ELSE FifoOf(ask) \in Fifos
BY DEF Reads, Controls, FifoOf, Fifos

LEMMA AnswerIsAMessage ==
  ASSUME NEW ask \in Reads \cup Controls \cup {"launch"}, NEW i \in Nat, NEW rec \in BOOLEAN
  PROVE  [kind |-> FifoOf(ask), re |-> i, rec |-> rec] \in ServerMessages
<1>1. FifoOf(ask) \in Fifos \cup {"frame", "error"}
  BY FifosOfAsks
<1> QED
  BY <1>1 DEF ServerMessages

LEMMA RefusalIsAMessage ==
  ASSUME NEW i \in Nat
  PROVE  /\ [kind |-> "error", re |-> i, rec |-> FALSE] \in ServerMessages
         /\ [kind |-> "frame", re |-> i, rec |-> FALSE] \in ServerMessages
BY DEF ServerMessages

\* A reply to m: a refusal, or the answer to a call.
Reply(m, x) ==
  /\ x \in ServerMessages /\ x.re = m.id
  /\ x.kind = "error" \/ (x.kind = FifoOf(m.ask) /\ m.ask \in Reads \cup Controls \cup {"launch"})

LEMMA RefusalIsAReply ==
  ASSUME NEW m \in Requests, Refuse(m.id)
  PROVE  \E x : Reply(m, x) /\ toClient' = Append(toClient, x)
<1>1. PICK x : x = [kind |-> "error", re |-> m.id, rec |-> FALSE]
  OBVIOUS
<1>2. m.id \in Nat
  BY DEF Requests
<1>3. Reply(m, x)
  BY <1>1, <1>2, RefusalIsAMessage DEF Reply
<1> QED
  BY <1>1, <1>3 DEF Refuse

LEMMA AnswerIsAReply ==
  ASSUME NEW m \in Requests, m.ask \in Reads \cup Controls \cup {"launch"}, NEW rec \in BOOLEAN,
         Answer(m, rec)
  PROVE  \E x : Reply(m, x) /\ toClient' = Append(toClient, x)
<1>1. PICK x : x = [kind |-> FifoOf(m.ask), re |-> m.id, rec |-> rec]
  OBVIOUS
<1>2. m.id \in Nat
  BY DEF Requests
<1>3. x \in ServerMessages
  BY <1>1, <1>2, AnswerIsAMessage
<1>4. Reply(m, x)
  BY <1>1, <1>3 DEF Reply
<1> QED
  BY <1>1, <1>4 DEF Answer

\* The session reads a message and queues it, answers it, or drops it.
LEMMA WhatIsRead ==
  ASSUME ViewerTyped, ReadMessage, NEW m, m = Head(toServer)
  PROVE  /\ m \in Requests /\ toServer # << >> /\ toServer' = Tail(toServer) /\ recording' \in BOOLEAN
         /\ \/ m.ask \in Reads /\ reads' = Append(reads, m) /\ UNCHANGED toClient
            \/ m.ask \in {"input", "bye"} /\ UNCHANGED << reads, toClient >>
            \/ /\ m.ask \in Controls \cup {"launch", "input"} /\ UNCHANGED reads
               /\ \E x : Reply(m, x) /\ toClient' = Append(toClient, x)
               /\ m.ask \in Controls =>
                    excuses' = IF \E i \in DOMAIN reads : reads[i].ask = "status"
                               THEN excuses \cup {"overtaken"} ELSE excuses
<1>1. toServer # << >> /\ toServer' = Tail(toServer)
      /\ (QueueRead(m) \/ Transition(m) \/ Apply(m) \/ TakeBye(m))
  BY DEF ReadMessage
<1>2. m \in Requests
  BY <1>1, TailPops DEF ViewerTyped
<1>3. recording \in BOOLEAN
  BY DEF ViewerTyped
<1>4. CASE QueueRead(m)
  BY <1>1, <1>2, <1>3, <1>4 DEF QueueRead
<1>5. CASE TakeBye(m)
  BY <1>1, <1>2, <1>3, <1>5 DEF TakeBye
<1>6. CASE Transition(m)
  <2>1. /\ m.ask \in Controls /\ UNCHANGED reads /\ recording' \in BOOLEAN
        /\ excuses' = IF \E i \in DOMAIN reads : reads[i].ask = "status"
                      THEN excuses \cup {"overtaken"} ELSE excuses
        /\ (Refuse(m.id) \/ Answer(m, recording'))
    BY <1>3, <1>6 DEF Transition
  <2>2. PICK rec \in BOOLEAN : rec = recording'
    BY <2>1
  <2>3. Refuse(m.id) \/ Answer(m, rec)
    BY <2>1, <2>2
  <2>4. \E x : Reply(m, x) /\ toClient' = Append(toClient, x)
    BY <1>2, <2>1, <2>3, RefusalIsAReply, AnswerIsAReply
  <2> QED
    BY <1>1, <1>2, <2>1, <2>4
<1>7. CASE Apply(m)
  <2>1. m.ask \in {"launch", "input"} /\ UNCHANGED << reads, recording >>
    BY <1>7 DEF Apply
  <2>2. CASE Refuse(m.id)
    BY <1>1, <1>2, <1>3, <2>1, <2>2, RefusalIsAReply DEF Controls
  <2>3. CASE m.ask = "launch" /\ Answer(m, FALSE)
    BY <1>1, <1>2, <1>3, <2>1, <2>3, AnswerIsAReply DEF Controls
  <2>4. CASE m.ask = "input" /\ UNCHANGED toClient
    BY <1>1, <1>2, <1>3, <2>1, <2>4
  <2> QED
    BY <1>7, <2>1, <2>2, <2>3, <2>4 DEF Apply
<1> QED
  BY <1>1, <1>4, <1>5, <1>6, <1>7

LEMMA WhatIsServed ==
  ASSUME ViewerTyped, ServeRead
  PROVE  /\ reads # << >> /\ reads' = Tail(reads) /\ UNCHANGED << toServer, recording, excuses >>
         /\ Head(reads) \in Requests /\ Head(reads).ask \in Reads
         /\ \E x : Reply(Head(reads), x) /\ toClient' = Append(toClient, x)
<1>1. /\ reads # << >> /\ reads' = Tail(reads) /\ UNCHANGED << toServer, recording, excuses >>
      /\ Answer(Head(reads), recording) \/ Refuse(Head(reads).id)
  BY DEF ServeRead
<1>2. Head(reads) \in Requests /\ Head(reads) = reads[1] /\ 1 \in 1 .. Len(reads)
  BY <1>1, TailPops DEF ViewerTyped
<1>3. Head(reads).ask \in Reads /\ recording \in BOOLEAN
  BY <1>2 DEF ViewerTyped
<1> QED
  BY <1>1, <1>2, <1>3, RefusalIsAReply, AnswerIsAReply

LEMMA WhatIsPushed ==
  ASSUME PushFrame
  PROVE  /\ UNCHANGED << toServer, reads, recording, excuses >>
         /\ \E x \in ServerMessages :
              x.re = 0 /\ x.kind \notin Fifos /\ toClient' = Append(toClient, x)
<1>1. PICK x : (x = [kind |-> "frame", re |-> 0, rec |-> FALSE] \/ x = [kind |-> "error", re |-> 0, rec |-> FALSE])
               /\ toClient' = Append(toClient, x)
  BY DEF PushFrame, Refuse
<1>2. x \in ServerMessages
  BY <1>1, 0 \in Nat, RefusalIsAMessage
<1>3. x.re = 0 /\ x.kind \notin Fifos
  BY <1>1 DEF Fifos
<1> QED
  BY <1>1, <1>2, <1>3 DEF PushFrame

LEMMA SessionTyped ==
  ASSUME ViewerTyped, Session \/ WritesInput
  PROVE  ViewerTyped'
<1>0. toServer \in Seq(Requests) /\ reads \in Seq(Requests) /\ toClient \in Seq(ServerMessages)
  BY DEF ViewerTyped
<1>1. ASSUME UNCHANGED << calls, lastId, fifo, slot, down, rx >>, recording' \in BOOLEAN,
             toServer' \in Seq(Requests), reads' \in Seq(Requests), toClient' \in Seq(ServerMessages),
             \A p \in 1 .. Len(reads') : reads'[p].ask \in Reads
      PROVE  ViewerTyped'
  BY <1>1 DEF ViewerTyped
<1>2. CASE WritesInput
  <2>1. [ask |-> "input", id |-> 0] \in Requests
    BY DEF Requests
  <2>2. toServer' \in Seq(Requests)
    BY <1>0, <1>2, <2>1, AppendGrows DEF WritesInput
  <2> QED
    BY <1>2, <2>2 DEF WritesInput, ViewerTyped
<1>3. CASE Session
  <2>0. UNCHANGED << calls, lastId, fifo, slot, down, rx >>
    BY <1>3 DEF Session
  <2>1. CASE ReadMessage
    <3>1. PICK m : m = Head(toServer)
      OBVIOUS
    <3>2. /\ m \in Requests /\ toServer # << >> /\ toServer' = Tail(toServer) /\ recording' \in BOOLEAN
          /\ \/ m.ask \in Reads /\ reads' = Append(reads, m) /\ UNCHANGED toClient
             \/ UNCHANGED << reads, toClient >>
             \/ UNCHANGED reads /\ \E x : Reply(m, x) /\ toClient' = Append(toClient, x)
      BY <2>1, <3>1, WhatIsRead
    <3>3. toServer' \in Seq(Requests)
      BY <1>0, <3>2, TailPops
    <3>4. CASE m.ask \in Reads /\ reads' = Append(reads, m) /\ UNCHANGED toClient
      <4>1. reads' \in Seq(Requests) /\ Grew(reads', reads, m)
        BY <1>0, <3>2, <3>4, AppendGrows
      <4>2. ASSUME NEW p \in 1 .. Len(reads') PROVE reads'[p].ask \in Reads
        <5>1. p \in 1 .. Len(reads) \/ (p = Len(reads) + 1 /\ reads'[p] = m)
          BY <4>1, <4>2 DEF Grew
        <5>2. p \in 1 .. Len(reads) => reads'[p] = reads[p]
          BY <4>1 DEF Grew
        <5> QED
          BY <3>4, <5>1, <5>2 DEF ViewerTyped
      <4> QED
        BY <1>0, <1>1, <2>0, <3>2, <3>3, <3>4, <4>1, <4>2
    <3>5. CASE UNCHANGED << reads, toClient >>
      BY <1>1, <2>0, <3>2, <3>3, <3>5 DEF ViewerTyped
    <3>6. CASE UNCHANGED reads /\ \E x : Reply(m, x) /\ toClient' = Append(toClient, x)
      <4>1. toClient' \in Seq(ServerMessages)
        BY <1>0, <3>6, AppendGrows DEF Reply
      <4> QED
        BY <1>1, <2>0, <3>2, <3>3, <3>6, <4>1 DEF ViewerTyped
    <3> QED
      BY <3>2, <3>4, <3>5, <3>6
  <2>2. CASE ServeRead
    <3>1. /\ reads # << >> /\ reads' = Tail(reads) /\ UNCHANGED << toServer, recording >>
          /\ \E x : Reply(Head(reads), x) /\ toClient' = Append(toClient, x)
      BY <2>2, WhatIsServed
    <3>2. toClient' \in Seq(ServerMessages)
      BY <1>0, <3>1, AppendGrows DEF Reply
    <3>3. reads' \in Seq(Requests) /\ Popped(reads', reads)
      BY <1>0, <3>1, TailPops
    <3>4. ASSUME NEW p \in 1 .. Len(reads') PROVE reads'[p].ask \in Reads
      <4>1. p + 1 \in 1 .. Len(reads) /\ reads'[p] = reads[p + 1]
        BY <3>3, <3>4 DEF Popped
      <4> QED
        BY <4>1 DEF ViewerTyped
    <3> QED
      BY <1>1, <2>0, <3>1, <3>2, <3>3, <3>4 DEF ViewerTyped
  <2>3. CASE PushFrame
    <3>1. /\ UNCHANGED << toServer, reads, recording >>
          /\ \E x \in ServerMessages : toClient' = Append(toClient, x)
      BY <2>3, WhatIsPushed
    <3>2. toClient' \in Seq(ServerMessages)
      BY <1>0, <3>1, AppendGrows
    <3> QED
      BY <1>1, <2>0, <3>1, <3>2 DEF ViewerTyped
  <2>4. CASE SessionEnds
    BY <1>1, <2>0, <2>4 DEF SessionEnds, ViewerTyped
  <2> QED
    BY <1>3, <2>1, <2>2, <2>3, <2>4 DEF Session
<1> QED
  BY <1>2, <1>3

\* The dispatcher, by the kind of message.
FrameCame ==
  /\ calls' = [c \in Callers |->
       [calls[c] EXCEPT !.frame = @ \/ (calls[c].ask = "frame" /\ ~FramesGone)]]
  /\ UNCHANGED << fifo, slot, excuses >>
ErrorCame(i) ==
  /\ calls' = [c \in Callers |-> [calls[c] EXCEPT
       !.errors = IF Listening(c) /\ ~ErrorsGone THEN Append(@, i) ELSE @]]
  /\ excuses' = IF i \in abandoned THEN excuses \cup {"orphan"} ELSE excuses
  /\ UNCHANGED << fifo, slot >>
ReplyCame(m) ==
  /\ \/ fifo[m.kind] = << >> /\ UNCHANGED << fifo, slot >>
     \/ /\ fifo[m.kind] # << >> /\ fifo' = [fifo EXCEPT ![m.kind] = Tail(fifo[m.kind])]
        /\ slot' = [slot EXCEPT ![Head(fifo[m.kind]).id] =
             [ask |-> Head(fifo[m.kind]).ask, re |-> m.re, rec |-> m.rec]]
  /\ excuses' = IF RefusedUnseen(m.kind) THEN excuses \cup {"late"} ELSE excuses
  /\ UNCHANGED calls

LEMMA WhatIsDispatched ==
  ASSUME ViewerTyped, Dispatch, NEW m, m = Head(toClient)
  PROVE  /\ rx = "up" /\ toClient # << >> /\ toClient' = Tail(toClient) /\ m \in ServerMessages
         /\ UNCHANGED << lastId, down, rx, toServer, up, reads, recording, posts, abandoned >>
         /\ \/ m.kind = "frame" /\ FrameCame
            \/ m.kind = "error" /\ ErrorCame(m.re)
            \/ m.kind \in Fifos /\ ReplyCame(m)
<1>1. /\ rx = "up" /\ toClient # << >> /\ toClient' = Tail(toClient)
      /\ UNCHANGED << lastId, down, rx, toServer, up, reads, recording, posts, abandoned >>
  BY DEF Dispatch
<1>2. m \in ServerMessages
  BY <1>1, TailPops DEF ViewerTyped
<1>3. m.kind \in Fifos \cup {"frame", "error"}
  BY <1>2 DEF ServerMessages
<1>4. CASE m.kind = "frame"
  BY <1>1, <1>2, <1>4 DEF Dispatch, FrameCame
<1>5. CASE m.kind = "error"
  BY <1>1, <1>2, <1>5 DEF Dispatch, ErrorCame
<1>6. CASE m.kind \in Fifos
  <2>1. m.kind # "frame" /\ m.kind # "error"
    BY <1>6 DEF Fifos
  <2>2. ReplyCame(m)
    BY <1>1, <2>1 DEF Dispatch, ReplyCame, Oldest
  <2> QED
    BY <1>1, <1>2, <1>6, <2>2
<1> QED
  BY <1>3, <1>4, <1>5, <1>6

\* A frame and an error change nothing of a call but what its receivers hold.
LEMMA FrameChanges ==
  ASSUME ViewerTyped, FrameCame
  PROVE  /\ calls' \in [Callers -> ViewerCalls]
         /\ \A c \in Callers : /\ calls'[c].pc = calls[c].pc /\ calls'[c].ask = calls[c].ask
                               /\ calls'[c].id = calls[c].id /\ calls'[c].errors = calls[c].errors
<1>1. ASSUME NEW c \in Callers
      PROVE  /\ calls'[c] \in ViewerCalls
             /\ calls'[c].pc = calls[c].pc /\ calls'[c].ask = calls[c].ask
             /\ calls'[c].id = calls[c].id /\ calls'[c].errors = calls[c].errors
  <2>1. calls[c] \in ViewerCalls
    BY DEF ViewerTyped
  <2>2. PICK b \in BOOLEAN : b = (calls[c].frame \/ (calls[c].ask = "frame" /\ ~FramesGone))
    OBVIOUS
  <2>3. calls'[c] = [calls[c] EXCEPT !.frame = b]
    BY <2>2 DEF FrameCame
  <2> QED
    BY <2>1, <2>3 DEF ViewerCalls
<1>2. DOMAIN calls' = Callers /\ calls' = [c \in Callers |-> calls'[c]]
  BY DEF FrameCame
<1>3. calls' \in [Callers -> ViewerCalls]
  BY <1>1, <1>2
<1> QED
  BY <1>1, <1>3

LEMMA ErrorChanges ==
  ASSUME ViewerTyped, NEW i \in Nat, ErrorCame(i)
  PROVE  /\ calls' \in [Callers -> ViewerCalls]
         /\ \A c \in Callers : /\ calls'[c].pc = calls[c].pc /\ calls'[c].ask = calls[c].ask
                               /\ calls'[c].id = calls[c].id
                               /\ \/ calls'[c].errors = calls[c].errors /\ (~Listening(c) \/ ErrorsGone)
                                  \/ Grew(calls'[c].errors, calls[c].errors, i) /\ Listening(c)
<1>1. ASSUME NEW c \in Callers
      PROVE  /\ calls'[c] \in ViewerCalls
             /\ calls'[c].pc = calls[c].pc /\ calls'[c].ask = calls[c].ask
             /\ calls'[c].id = calls[c].id
             /\ \/ calls'[c].errors = calls[c].errors /\ (~Listening(c) \/ ErrorsGone)
                \/ Grew(calls'[c].errors, calls[c].errors, i) /\ Listening(c)
  <2>1. calls[c] \in ViewerCalls /\ calls[c].errors \in Seq(Nat)
    BY DEF ViewerTyped, ViewerCalls
  <2>2. PICK e : e = IF Listening(c) /\ ~ErrorsGone THEN Append(calls[c].errors, i) ELSE calls[c].errors
    OBVIOUS
  <2>3. calls'[c] = [calls[c] EXCEPT !.errors = e]
    BY <2>2 DEF ErrorCame
  <2>4. e \in Seq(Nat)
    BY <2>1, <2>2
  <2>5. \/ e = calls[c].errors /\ (~Listening(c) \/ ErrorsGone)
        \/ Grew(e, calls[c].errors, i) /\ Listening(c)
    BY <2>1, <2>2, AppendGrows
  <2>6. /\ calls'[c] \in ViewerCalls /\ calls'[c].errors = e
        /\ calls'[c].pc = calls[c].pc /\ calls'[c].ask = calls[c].ask /\ calls'[c].id = calls[c].id
    BY <2>1, <2>3, <2>4 DEF ViewerCalls
  <2> QED
    BY <2>5, <2>6
<1>2. DOMAIN calls' = Callers /\ calls' = [c \in Callers |-> calls'[c]]
  BY DEF ErrorCame
<1>3. calls' \in [Callers -> ViewerCalls]
  BY <1>1, <1>2
<1> QED
  BY <1>1, <1>3

LEMMA DispatchTyped == ASSUME ViewerTyped, Dispatch PROVE ViewerTyped'
<1>1. PICK m : m = Head(toClient)
  OBVIOUS
<1>2. /\ toClient # << >> /\ toClient' = Tail(toClient) /\ m \in ServerMessages
      /\ UNCHANGED << lastId, down, rx, toServer, up, reads, recording, posts, abandoned >>
      /\ \/ m.kind = "frame" /\ FrameCame
         \/ m.kind = "error" /\ ErrorCame(m.re)
         \/ m.kind \in Fifos /\ ReplyCame(m)
  BY <1>1, WhatIsDispatched
<1>3. toClient' \in Seq(ServerMessages)
  BY <1>2, TailPops DEF ViewerTyped
<1>4. ASSUME calls' \in [Callers -> ViewerCalls],
             \A c \in Callers : calls'[c].pc = calls[c].pc /\ calls'[c].ask = calls[c].ask /\ calls'[c].id = calls[c].id,
             fifo' \in [Fifos -> Seq(Waiters)], DOMAIN slot' = 1 .. MaxAsks
      PROVE  ViewerTyped'
  BY <1>2, <1>3, <1>4 DEF ViewerTyped
<1>5. CASE FrameCame
  BY <1>4, <1>5, FrameChanges DEF FrameCame, ViewerTyped
<1>6. CASE ErrorCame(m.re)
  <2>1. m.re \in Nat
    BY <1>2 DEF ServerMessages
  <2>2. UNCHANGED << fifo, slot >>
    BY <1>6 DEF ErrorCame
  <2> QED
    BY <1>4, <1>6, <2>1, <2>2, ErrorChanges DEF ViewerTyped
<1>7. CASE m.kind \in Fifos /\ ReplyCame(m)
  <2>1. UNCHANGED calls
    BY <1>7 DEF ReplyCame
  <2>2. fifo' \in [Fifos -> Seq(Waiters)] /\ DOMAIN slot' = 1 .. MaxAsks
    <3>1. CASE UNCHANGED << fifo, slot >>
      BY <3>1 DEF ViewerTyped
    <3>2. CASE /\ fifo[m.kind] # << >> /\ fifo' = [fifo EXCEPT ![m.kind] = Tail(fifo[m.kind])]
               /\ slot' = [slot EXCEPT ![Head(fifo[m.kind]).id] =
                    [ask |-> Head(fifo[m.kind]).ask, re |-> m.re, rec |-> m.rec]]
      <4>1. fifo[m.kind] \in Seq(Waiters) /\ fifo \in [Fifos -> Seq(Waiters)]
        BY <1>7 DEF ViewerTyped
      <4>2. Tail(fifo[m.kind]) \in Seq(Waiters)
        BY <3>2, <4>1, TailPops
      <4>3. fifo' \in [Fifos -> Seq(Waiters)]
        BY <3>2, <4>1, <4>2
      <4>4. DOMAIN slot' = DOMAIN slot
        BY <3>2
      <4> QED
        BY <4>3, <4>4 DEF ViewerTyped
    <3> QED
      BY <1>7, <3>1, <3>2 DEF ReplyCame
  <2> QED
    BY <1>4, <2>1, <2>2 DEF ViewerTyped
<1> QED
  BY <1>2, <1>5, <1>6, <1>7

LEMMA EndingTyped == ASSUME ViewerTyped, ReaderEnds \/ (rx = "closing" /\ ShutdownStep) PROVE ViewerTyped'
<1>1. CASE ReaderEnds
  BY <1>1 DEF ReaderEnds, ViewerTyped
<1>2. CASE rx = "closing" /\ ShutdownStep
  <2>1. /\ UNCHANGED << calls, lastId, toServer, toClient, up, reads, recording >>
        /\ rx' # "up"
        /\ \/ UNCHANGED << fifo, slot >>
           \/ /\ fifo' = [k \in Fifos |-> << >>]
              /\ slot' = [i \in DOMAIN slot |-> IF i \in Cleared THEN Dropped ELSE slot[i]]
    BY <1>2 DEF ShutdownStep
  <2>2. fifo' \in [Fifos -> Seq(Waiters)] /\ DOMAIN slot' = 1 .. MaxAsks
    <3>1. CASE UNCHANGED << fifo, slot >>
      BY <3>1 DEF ViewerTyped
    <3>2. CASE /\ fifo' = [k \in Fifos |-> << >>]
               /\ slot' = [i \in DOMAIN slot |-> IF i \in Cleared THEN Dropped ELSE slot[i]]
      <4>1. DOMAIN slot' = DOMAIN slot
        BY <3>2
      <4>2. fifo' \in [Fifos -> Seq(Waiters)]
        BY <3>2
      <4> QED
        BY <4>1, <4>2 DEF ViewerTyped
    <3> QED
      BY <2>1, <3>1, <3>2
  <2> QED
    BY <2>1, <2>2 DEF ViewerTyped
<1> QED
  BY <1>1, <1>2

LEMMA WaitersAreTyped ==
  ASSUME ViewerTyped, NEW k \in Fifos, NEW j \in 1 .. Len(fifo[k])
  PROVE  fifo[k] \in Seq(Waiters) /\ fifo[k][j] \in Waiters /\ fifo[k][j].id \in Nat /\ fifo[k][j].id # 0
         /\ fifo[k][j].ask \in Askable
<1>1. fifo[k] \in Seq(Waiters)
  BY DEF ViewerTyped
<1>2. fifo[k][j] \in Waiters
  BY <1>1
<1> QED
  BY <1>1, <1>2 DEF Waiters

-----------------------------------------------------------------------------
(* Steps that change no registration and no call.                          *)

LEMMA QuietKeeps ==
  ASSUME ViewerTyped, ConnectionInv, UNCHANGED << lastId, fifo, slot, abandoned >>,
         \A c \in Callers : /\ calls'[c].pc = calls[c].pc /\ calls'[c].ask = calls[c].ask
                            /\ calls'[c].id = calls[c].id /\ calls'[c].errors = calls[c].errors,
         \A i \in Nat : i # 0 /\ OnTheWay(i)' => OnTheWay(i),
         \A i \in Nat : OnTheWay(i) /\ (\E k \in Fifos : Waits(k, i)) => OnTheWay(i)'
  PROVE  /\ CallersInv' /\ WaitersInv' /\ FifoInv' /\ SlotInv'
         /\ \A c \in Callers : calls'[c].pc = "registered" => Known(calls[c].ask, calls[c].id)'
<1>1. CallersInv'
  <2>1. ASSUME NEW i \in Nat, OnTheWay(i)' PROVE i <= lastId
    BY <2>1 DEF ConnectionInv, CallersInv, ViewerTyped
  <2>2. ASSUME NEW c \in Callers, calls'[c].pc # "idle"
        PROVE  /\ calls[c].id <= lastId /\ calls[c].id \notin abandoned
               /\ \A d \in Callers : calls[d].pc # "idle" /\ calls[d].id = calls[c].id => c = d
               /\ calls[c].pc = "checked" => calls[c].errors = << >>
               /\ calls[c].pc \in Early => ~ OnTheWay(calls[c].id)
               /\ RefusedTo(c) => calls[c].pc = "waiting" /\ ~ OnTheWay(calls[c].id)
               /\ calls[c].id \in Nat /\ calls[c].id # 0
    BY <2>2 DEF ConnectionInv, CallersInv, ViewerTyped, ViewerCalls
  <2>3. \A c \in Callers : RefusedTo(c)' <=> RefusedTo(c)
    BY DEF RefusedTo
  <2>4. ASSUME NEW c \in Callers, calls'[c].pc # "idle"
        PROVE  /\ calls'[c].pc \in Early => ~ OnTheWay(calls[c].id)'
               /\ RefusedTo(c)' => calls'[c].pc = "waiting" /\ ~ OnTheWay(calls[c].id)'
    <3>1. PICK i \in Nat : i = calls[c].id /\ i # 0
      BY <2>2, <2>4
    <3>2. OnTheWay(i)' => OnTheWay(i)
      BY <3>1
    <3>3. i = calls'[c].id /\ calls'[c].pc = calls[c].pc
      BY <3>1
    <3> QED
      BY <2>2, <2>3, <2>4, <3>1, <3>2, <3>3
  <2> QED
    BY <2>1, <2>2, <2>4 DEF ConnectionInv, CallersInv
<1>2. /\ \A i : Unwritten(i)' <=> Unwritten(i)
      /\ \A i : Refused(i)' <=> Refused(i)
      /\ \A c \in Callers : RefusedTo(c)' <=> RefusedTo(c)
  BY DEF Unwritten, Refused, RefusedTo, Holder
<1>3. WaitersInv'
  <2>1. ASSUME NEW k \in Fifos, NEW j \in 1 .. Len(fifo[k]) PROVE WaiterInv(fifo[k][j], k)'
    <3>1. PICK w : w = fifo[k][j]
      OBVIOUS
    <3>2. w \in Waiters /\ w.id \in Nat
        BY <3>1, WaitersAreTyped
    <3>3. WaiterInv(w, k)
      BY <3>1 DEF ConnectionInv, WaitersInv
    <3>4. Waits(k, w.id)
      BY <3>1 DEF Waits
    <3>5. PICK i \in Nat : i = w.id
      BY <3>2
    <3>6. OnTheWay(i) => OnTheWay(i)'
      BY <3>4, <3>5
    <3>7. /\ Unwritten(i)' \/ OnTheWay(i)' \/ Refused(i)'
          /\ \/ i \in abandoned
             \/ \E c \in Callers : Holder(c, i, {"registered", "waiting"}) /\ calls[c].ask = w.ask
      BY <1>2, <3>3, <3>5, <3>6 DEF WaiterInv
    <3>8. WaiterInv(w, k)'
      BY <3>3, <3>5, <3>7 DEF WaiterInv, Holder
    <3>9. fifo'[k][j] = w
      BY <3>1
    <3> QED
      BY <3>8, <3>9
  <2> QED
    BY <2>1 DEF WaitersInv
<1>4. FifoInv'
  BY <1>2 DEF ConnectionInv, FifoInv
<1>5. SlotInv'
  BY DEF ConnectionInv, SlotInv, Waits, Holder
<1>6. \A c \in Callers : calls'[c].pc = "registered" => Known(calls[c].ask, calls[c].id)'
  BY DEF ConnectionInv, MessagesInv, Known, Waits
<1> QED
  BY <1>1, <1>3, <1>4, <1>5, <1>6

\* What a queue holds after it grew or was popped.
LEMMA GrownHas ==
  ASSUME NEW s, NEW t, NEW x, Grew(t, s, x)
  PROVE  /\ \A p \in 1 .. Len(t) : t[p] = x \/ \E q \in 1 .. Len(s) : t[p] = s[q]
         /\ \E p \in 1 .. Len(t) : t[p] = x
         /\ \A q \in 1 .. Len(s) : \E p \in 1 .. Len(t) : t[p] = s[q]
<1>1. PICK n \in Nat : n = Len(s)
  BY DEF Grew
<1>2. Len(t) = n + 1 /\ t[n + 1] = x /\ \A p \in 1 .. n : t[p] = s[p]
  BY <1>1 DEF Grew
<1>3. n + 1 \in 1 .. n + 1 /\ \A p \in 1 .. n : p \in 1 .. n + 1
  OBVIOUS
<1>4. \A p \in 1 .. n + 1 : p = n + 1 \/ p \in 1 .. n
  OBVIOUS
<1> QED
  BY <1>1, <1>2, <1>3, <1>4

LEMMA PoppedHas ==
  ASSUME NEW s, NEW t, Popped(t, s)
  PROVE  /\ \A p \in 1 .. Len(t) : \E q \in 1 .. Len(s) : t[p] = s[q]
         /\ 1 \in 1 .. Len(s)
         /\ \A q \in 1 .. Len(s) : s[q] = s[1] \/ \E p \in 1 .. Len(t) : t[p] = s[q]
<1>1. PICK n \in Nat : n = Len(t)
  BY DEF Popped
<1>2. Len(s) = n + 1 /\ \A p \in 1 .. n : t[p] = s[p + 1]
  BY <1>1 DEF Popped
<1>3. 1 \in 1 .. n + 1 /\ \A p \in 1 .. n : p + 1 \in 1 .. n + 1
  OBVIOUS
<1>4. ASSUME NEW q \in 1 .. n + 1 PROVE s[q] = s[1] \/ \E p \in 1 .. n : t[p] = s[q]
  <2>1. CASE q = 1
    BY <2>1
  <2>2. CASE q # 1
    <3>1. q - 1 \in 1 .. n /\ q - 1 + 1 = q
      BY <2>2
    <3>2. t[q - 1] = s[q]
      BY <1>2, <3>1
    <3> QED
      BY <3>1, <3>2
  <2> QED
    BY <2>1, <2>2
<1> QED
  BY <1>1, <1>2, <1>3, <1>4

LEMMA GrownRequests ==
  ASSUME NEW s, NEW t, NEW x, Grew(t, s, x)
  PROVE  \A i : AsksFor(t, i) <=> (x.id = i \/ AsksFor(s, i))
<1> TAKE i
<1>1. ASSUME NEW p \in 1 .. Len(t), t[p].id = i
      PROVE  x.id = i \/ \E q \in 1 .. Len(s) : s[q].id = i
  <2>1. t[p] = x \/ \E q \in 1 .. Len(s) : t[p] = s[q]
    BY GrownHas
  <2> QED
    BY <1>1, <2>1
<1>2. ASSUME NEW q \in 1 .. Len(s), s[q].id = i PROVE AsksFor(t, i)
  <2>1. PICK p \in 1 .. Len(t) : t[p] = s[q]
    BY GrownHas
  <2> QED
    BY <1>2, <2>1 DEF AsksFor, RepliesTo
<1>3. ASSUME x.id = i PROVE AsksFor(t, i)
  <2>1. PICK p \in 1 .. Len(t) : t[p] = x
    BY GrownHas
  <2> QED
    BY <1>3, <2>1 DEF AsksFor, RepliesTo
<1> QED
  BY <1>1, <1>2, <1>3 DEF AsksFor, RepliesTo

LEMMA GrownAnswers ==
  ASSUME NEW s, NEW t, NEW x, Grew(t, s, x)
  PROVE  \A i : RepliesTo(t, i) <=> (x.re = i \/ RepliesTo(s, i))
<1> TAKE i
<1>1. ASSUME NEW p \in 1 .. Len(t), t[p].re = i
      PROVE  x.re = i \/ \E q \in 1 .. Len(s) : s[q].re = i
  <2>1. t[p] = x \/ \E q \in 1 .. Len(s) : t[p] = s[q]
    BY GrownHas
  <2> QED
    BY <1>1, <2>1
<1>2. ASSUME NEW q \in 1 .. Len(s), s[q].re = i PROVE RepliesTo(t, i)
  <2>1. PICK p \in 1 .. Len(t) : t[p] = s[q]
    BY GrownHas
  <2> QED
    BY <1>2, <2>1 DEF AsksFor, RepliesTo
<1>3. ASSUME x.re = i PROVE RepliesTo(t, i)
  <2>1. PICK p \in 1 .. Len(t) : t[p] = x
    BY GrownHas
  <2> QED
    BY <1>3, <2>1 DEF AsksFor, RepliesTo
<1> QED
  BY <1>1, <1>2, <1>3 DEF AsksFor, RepliesTo

LEMMA PoppedRequests ==
  ASSUME NEW s, NEW t, Popped(t, s)
  PROVE  \A i : AsksFor(s, i) <=> (s[1].id = i \/ AsksFor(t, i))
<1> TAKE i
<1>1. ASSUME NEW p \in 1 .. Len(s), s[p].id = i
      PROVE  s[1].id = i \/ \E q \in 1 .. Len(t) : t[q].id = i
  <2>1. s[p] = s[1] \/ \E q \in 1 .. Len(t) : s[p] = t[q]
    BY PoppedHas
  <2> QED
    BY <1>1, <2>1
<1>2. ASSUME NEW q \in 1 .. Len(t), t[q].id = i PROVE AsksFor(s, i)
  <2>1. PICK p \in 1 .. Len(s) : s[p] = t[q]
    BY PoppedHas
  <2> QED
    BY <1>2, <2>1 DEF AsksFor, RepliesTo
<1>3. ASSUME s[1].id = i PROVE AsksFor(s, i)
  <2>1. PICK p \in 1 .. Len(s) : s[p] = s[1]
    BY PoppedHas
  <2> QED
    BY <1>3, <2>1 DEF AsksFor, RepliesTo
<1> QED
  BY <1>1, <1>2, <1>3 DEF AsksFor, RepliesTo

LEMMA PoppedAnswers ==
  ASSUME NEW s, NEW t, Popped(t, s)
  PROVE  \A i : RepliesTo(s, i) <=> (s[1].re = i \/ RepliesTo(t, i))
<1> TAKE i
<1>1. ASSUME NEW p \in 1 .. Len(s), s[p].re = i
      PROVE  s[1].re = i \/ \E q \in 1 .. Len(t) : t[q].re = i
  <2>1. s[p] = s[1] \/ \E q \in 1 .. Len(t) : s[p] = t[q]
    BY PoppedHas
  <2> QED
    BY <1>1, <2>1
<1>2. ASSUME NEW q \in 1 .. Len(t), t[q].re = i PROVE RepliesTo(s, i)
  <2>1. PICK p \in 1 .. Len(s) : s[p] = t[q]
    BY PoppedHas
  <2> QED
    BY <1>2, <2>1 DEF AsksFor, RepliesTo
<1>3. ASSUME s[1].re = i PROVE RepliesTo(s, i)
  <2>1. PICK p \in 1 .. Len(s) : s[p] = s[1]
    BY PoppedHas
  <2> QED
    BY <1>3, <2>1 DEF AsksFor, RepliesTo
<1> QED
  BY <1>1, <1>2, <1>3 DEF AsksFor, RepliesTo

LEMMA StreamsKeep ==
  ASSUME ViewerTyped, ConnectionInv, UNCHANGED << calls, lastId, fifo, slot, abandoned >>,
         \A i \in Nat : i # 0 => (OnTheWay(i)' <=> OnTheWay(i)),
         \A p \in 1 .. Len(toServer') : RequestInv(toServer'[p]),
         \A p \in 1 .. Len(reads') : RequestInv(reads'[p]),
         \A p \in 1 .. Len(toClient') : AnswerInv(toClient'[p]),
         InLine(fifo, AnswersIn(toClient'), IdsOf(reads'), IdsOf(toServer'))
  PROVE  ConnectionInv'
<1>1. ASSUME NEW i \in Nat, OnTheWay(i), NEW k \in Fifos, Waits(k, i) PROVE OnTheWay(i)'
  <2>1. PICK j \in 1 .. Len(fifo[k]) : fifo[k][j].id = i
    BY <1>1 DEF Waits
  <2>2. i # 0
    BY <2>1, WaitersAreTyped
  <2> QED
    BY <1>1, <2>2
<1>2. /\ CallersInv' /\ WaitersInv' /\ FifoInv' /\ SlotInv'
      /\ \A c \in Callers : calls'[c].pc = "registered" => Known(calls[c].ask, calls[c].id)'
  <2>1. \A c \in Callers : /\ calls'[c].pc = calls[c].pc /\ calls'[c].ask = calls[c].ask
                           /\ calls'[c].id = calls[c].id /\ calls'[c].errors = calls[c].errors
    OBVIOUS
  <2> QED
    BY <1>1, <2>1, QuietKeeps
<1>3. MessagesInv'
  <2>1. \A p \in 1 .. Len(toServer') : RequestInv(toServer[p])'
    BY DEF RequestInv, Known, Waits
  <2>2. \A p \in 1 .. Len(reads') : RequestInv(reads[p])'
    BY DEF RequestInv, Known, Waits
  <2>3. \A p \in 1 .. Len(toClient') : AnswerInv(toClient[p])'
    BY DEF AnswerInv, Waits
  <2>4. \A c \in Callers : (calls[c].pc = "registered" => Known(calls[c].ask, calls[c].id))'
    BY <1>2
  <2> QED
    BY <2>1, <2>2, <2>3, <2>4 DEF MessagesInv
<1>4. LineInv'
  BY DEF LineInv
<1> QED
  BY <1>2, <1>3, <1>4 DEF ConnectionInv

\* A reply to a request that somebody knows finds who waits for it.
LEMMA RepliesAreExpected ==
  ASSUME ViewerTyped, ConnectionInv, NEW m \in Requests, RequestInv(m), NEW x, Reply(m, x)
  PROVE  AnswerInv(x)
<1>1. CASE x.kind = "error"
  BY <1>1 DEF AnswerInv, Fifos
<1>2. CASE x.kind # "error"
  <2>1. x.kind = FifoOf(m.ask) /\ m.ask \in Reads \cup Controls \cup {"launch"} /\ x.re = m.id
    BY <1>2 DEF Reply
  <2>2. m.id # 0 /\ Known(m.ask, m.id)
    BY <2>1 DEF RequestInv, Reads, Controls
  <2>3. CASE m.ask = "frame"
    <3>1. ASSUME NEW k \in Fifos, Waits(k, m.id) PROVE FALSE
      <4>1. PICK j \in 1 .. Len(fifo[k]) : fifo[k][j].id = m.id
        BY <3>1 DEF Waits
      <4>2. fifo[k][j].ask = "frame"
        BY <2>2, <2>3, <4>1 DEF Known
      <4>3. WaiterInv(fifo[k][j], k)
        BY DEF ConnectionInv, WaitersInv
      <4> QED
        BY <4>2, <4>3 DEF WaiterInv
    <3>2. x.kind = "frame"
      BY <2>1, <2>3, FifosOfAsks
    <3> QED
      BY <2>1, <3>1, <3>2 DEF AnswerInv, Fifos
  <2>4. CASE m.ask # "frame"
    <3>1. FifoOf(m.ask) \in Fifos /\ Waits(FifoOf(m.ask), m.id)
      BY <2>1, <2>2, <2>4, FifosOfAsks DEF Known
    <3>2. x.kind # "frame"
      BY <2>1, <3>1 DEF Fifos
    <3> QED
      BY <2>1, <2>2, <3>1, <3>2 DEF AnswerInv
  <2> QED
    BY <2>3, <2>4
<1> QED
  BY <1>1, <1>2

\* Two known requests of different kinds are in no order.
LEMMA KindsAreApart ==
  ASSUME ViewerTyped, ConnectionInv, NEW r \in Requests, NEW m \in Requests, RequestInv(r), RequestInv(m),
         r.id = 0 \/ m.id = 0 \/ r.id # m.id, FifoOf(r.ask) # FifoOf(m.ask) \/ m.id = 0
  PROVE  Fits(fifo, m.id, r.id)
<1>1. SUFFICES ASSUME r.id # 0, m.id # 0, Ahead(fifo, r.id, m.id) PROVE FALSE
  BY DEF Fits
<1>2. PICK k \in Fifos : \E i, j \in 1 .. Len(fifo[k]) : fifo[k][i].id = r.id /\ fifo[k][j].id = m.id
  BY <1>1 DEF Ahead
<1>3. PICK i \in 1 .. Len(fifo[k]), j \in 1 .. Len(fifo[k]) : fifo[k][i].id = r.id /\ fifo[k][j].id = m.id
  BY <1>2
<1>4. Known(r.ask, r.id) /\ Known(m.ask, m.id)
  BY <1>1 DEF RequestInv
<1>5. fifo[k][i].ask = r.ask /\ fifo[k][j].ask = m.ask
  BY <1>3, <1>4 DEF Known
<1>6. FifoOf(fifo[k][i].ask) = k /\ FifoOf(fifo[k][j].ask) = k
  BY DEF ConnectionInv, WaitersInv, WaiterInv
<1> QED
  BY <1>1, <1>5, <1>6

LEMMA LineOfIds ==
  ASSUME ViewerTyped, ConnectionInv
  PROVE  /\ InLine(fifo, AnswersIn(toClient), IdsOf(reads), IdsOf(toServer))
         /\ Len(IdsOf(reads)) = Len(reads) /\ \A p \in 1 .. Len(reads) : IdsOf(reads)[p] = reads[p].id
         /\ Len(IdsOf(toServer)) = Len(toServer)
         /\ \A p \in 1 .. Len(toServer) : IdsOf(toServer)[p] = toServer[p].id
         /\ Len(AnswersIn(toClient)) = Len(toClient)
         /\ \A p \in 1 .. Len(toClient) : AnswersIn(toClient)[p] = toClient[p].re
BY IdsOfRequests, IdsOfAnswers DEF ConnectionInv, LineInv, ViewerTyped

LEMMA NothingIsOvertaken ==
  ASSUME ViewerTyped, ConnectionInv, toServer # << >>, NEW m, m = Head(toServer), m \in Requests,
         m.ask \in Controls \cup {"launch", "input"}, RequestInv(m),
         m.ask \in Controls => \A p \in 1 .. Len(reads) : reads[p].ask # "status"
  PROVE  \A p \in 1 .. Len(reads) : Fits(fifo, m.id, reads[p].id)
<1>1. TAKE p \in 1 .. Len(reads)
<1>2. PICK r : r = reads[p]
  OBVIOUS
<1>3. reads \in Seq(Requests) /\ r.ask \in Reads
  BY <1>2 DEF ViewerTyped
<1>4. r \in Requests
  BY <1>2, <1>3
<1>5. RequestInv(r)
  BY <1>2 DEF ConnectionInv, MessagesInv
<1>6. m = toServer[1] /\ 1 \in 1 .. Len(toServer)
  BY TailPops DEF ViewerTyped
<1>7. Fits(fifo, IdsOf(reads)[p], IdsOf(toServer)[1])
  BY <1>6, LineOfIds DEF InLine, Across
<1>8. r.id = 0 \/ m.id = 0 \/ r.id # m.id
  BY <1>2, <1>6, <1>7, LineOfIds DEF Fits
<1>9. FifoOf(r.ask) # FifoOf(m.ask) \/ m.id = 0
  <2>1. CASE m.ask = "input"
    BY <2>1 DEF RequestInv
  <2>2. CASE m.ask = "launch"
    BY <1>3, <2>2 DEF Reads, FifoOf, Controls
  <2>3. CASE m.ask \in Controls
    BY <1>2, <1>3, <2>3 DEF Reads, FifoOf, Controls
  <2> QED
    BY <2>1, <2>2, <2>3
<1> QED
  BY <1>2, <1>4, <1>5, <1>8, <1>9, KindsAreApart

\* What the queues carry after a message moved.
LEMMA SessionKeeps ==
  ASSUME ViewerTyped, ConnectionInv, Session \/ WritesInput, Straight'
  PROVE  ConnectionInv'
<1>0. /\ toServer \in Seq(Requests) /\ reads \in Seq(Requests) /\ toClient \in Seq(ServerMessages)
      /\ InLine(fifo, AnswersIn(toClient), IdsOf(reads), IdsOf(toServer))
      /\ \A p \in 1 .. Len(toServer) : RequestInv(toServer[p])
      /\ \A p \in 1 .. Len(reads) : RequestInv(reads[p])
      /\ \A p \in 1 .. Len(toClient) : AnswerInv(toClient[p])
  BY LineOfIds DEF ViewerTyped, ConnectionInv, MessagesInv
<1>1. UNCHANGED << calls, lastId, fifo, slot, abandoned >>
  BY DEF Session, WritesInput
<1>2. CASE WritesInput
  <2>1. PICK x : x = [ask |-> "input", id |-> 0]
    OBVIOUS
  <2>2. /\ toServer' = Append(toServer, x) /\ UNCHANGED << reads, toClient >>
        /\ x \in Requests /\ x.id = 0 /\ RequestInv(x)
    BY <1>2, <2>1 DEF WritesInput, Requests, RequestInv
  <2>3. Grew(toServer', toServer, x) /\ Grew(IdsOf(toServer'), IdsOf(toServer), 0)
    BY <1>0, <2>2, AppendGrows, MoreRequests
  <2>4. /\ \A p \in 1 .. Len(toServer') : RequestInv(toServer'[p])
        /\ \A i \in Nat : i # 0 => (OnTheWay(i)' <=> OnTheWay(i))
    <3>1. /\ \A p \in 1 .. Len(toServer') :
               toServer'[p] = x \/ \E q \in 1 .. Len(toServer) : toServer'[p] = toServer[q]
          /\ \A j : AsksFor(toServer', j) <=> (x.id = j \/ AsksFor(toServer, j))
      BY <2>3, GrownHas, GrownRequests
    <3>2. \A p \in 1 .. Len(toServer') : RequestInv(toServer'[p])
      BY <1>0, <2>2, <3>1
    <3>3. \A i \in Nat : i # 0 => (OnTheWay(i)' <=> OnTheWay(i))
      BY <2>2, <3>1 DEF OnTheWay
    <3> QED
      BY <3>2, <3>3
  <2>5. InLine(fifo, AnswersIn(toClient'), IdsOf(reads'), IdsOf(toServer'))
    BY <1>0, <2>2, <2>3, SentLine DEF Fits
  <2> QED
    BY <1>0, <1>1, <2>2, <2>4, <2>5, StreamsKeep
<1>3. CASE ReadMessage
  <2>1. PICK m : m = Head(toServer)
    OBVIOUS
  <2>2. /\ m \in Requests /\ toServer # << >> /\ toServer' = Tail(toServer)
        /\ \/ m.ask \in Reads /\ reads' = Append(reads, m) /\ UNCHANGED toClient
           \/ m.ask \in {"input", "bye"} /\ UNCHANGED << reads, toClient >>
           \/ /\ m.ask \in Controls \cup {"launch", "input"} /\ UNCHANGED reads
              /\ \E x : Reply(m, x) /\ toClient' = Append(toClient, x)
              /\ m.ask \in Controls =>
                   excuses' = IF \E i \in DOMAIN reads : reads[i].ask = "status"
                              THEN excuses \cup {"overtaken"} ELSE excuses
    BY <1>3, <2>1, WhatIsRead
  <2>3. /\ Popped(toServer', toServer) /\ m = toServer[1] /\ 1 \in 1 .. Len(toServer)
        /\ Popped(IdsOf(toServer'), IdsOf(toServer)) /\ IdsOf(toServer)[1] = m.id
    BY <1>0, <2>1, <2>2, TailPops, FewerRequests
  <2>4. RequestInv(m) /\ \A p \in 1 .. Len(toServer') : RequestInv(toServer'[p])
    BY <1>0, <2>3, PoppedHas
  <2>5. CASE reads' = Append(reads, m) /\ UNCHANGED toClient
    <3>0. Grew(reads', reads, m)
      BY <1>0, <2>2, <2>5, AppendGrows
    <3>1. Grew(IdsOf(reads'), IdsOf(reads), m.id)
      BY <1>0, <2>2, <2>5, MoreRequests
    <3>2. ASSUME NEW p \in 1 .. Len(reads') PROVE RequestInv(reads'[p])
      <4>1. reads'[p] = m \/ \E q \in 1 .. Len(reads) : reads'[p] = reads[q]
        BY <3>0, GrownHas
      <4> QED
        BY <1>0, <2>4, <4>1
    <3>3. \A i \in Nat : i # 0 => (OnTheWay(i)' <=> OnTheWay(i))
      <4>1. \A i : AsksFor(reads', i) <=> (m.id = i \/ AsksFor(reads, i))
        BY <3>0, GrownRequests
      <4>2. \A i : AsksFor(toServer, i) <=> (m.id = i \/ AsksFor(toServer', i))
        BY <2>3, PoppedRequests
      <4> QED
        BY <2>5, <4>1, <4>2 DEF OnTheWay, AsksFor, RepliesTo
    <3>4. InLine(fifo, AnswersIn(toClient'), IdsOf(reads'), IdsOf(toServer'))
      BY <1>0, <2>3, <2>5, <3>1, FrontQueued
    <3> QED
      BY <1>0, <1>1, <2>4, <2>5, <3>2, <3>3, <3>4, StreamsKeep
  <2>6. CASE m.ask \in {"input", "bye"} /\ UNCHANGED << reads, toClient >>
    <3>1. m.id = 0
      BY <2>4, <2>6 DEF RequestInv
    <3>2. \A i \in Nat : i # 0 => (OnTheWay(i)' <=> OnTheWay(i))
      <4>1. \A i : AsksFor(toServer, i) <=> (m.id = i \/ AsksFor(toServer', i))
        BY <2>3, PoppedRequests
      <4> QED
        BY <2>6, <3>1, <4>1 DEF OnTheWay, AsksFor, RepliesTo
    <3>3. InLine(fifo, AnswersIn(toClient'), IdsOf(reads'), IdsOf(toServer'))
      BY <1>0, <2>3, <2>6, FrontDropped
    <3> QED
      BY <1>0, <1>1, <2>4, <2>6, <3>2, <3>3, StreamsKeep
  <2>7. CASE /\ m.ask \in Controls \cup {"launch", "input"} /\ UNCHANGED reads
             /\ \E x : Reply(m, x) /\ toClient' = Append(toClient, x)
             /\ m.ask \in Controls =>
                  excuses' = IF \E i \in DOMAIN reads : reads[i].ask = "status"
                             THEN excuses \cup {"overtaken"} ELSE excuses
    <3>1. PICK x \in ServerMessages : Reply(m, x) /\ toClient' = Append(toClient, x)
      BY <2>7 DEF Reply
    <3>2. x \in ServerMessages /\ x.re = m.id
      BY <3>1 DEF Reply
    <3>0. Grew(toClient', toClient, x)
      BY <1>0, <3>1, <3>2, AppendGrows
    <3>3. Grew(AnswersIn(toClient'), AnswersIn(toClient), m.id)
      BY <1>0, <3>1, <3>2, MoreAnswers
    <3>4. \A p \in 1 .. Len(toClient') : AnswerInv(toClient'[p])
      BY <1>0, <2>2, <2>4, <3>0, <3>1, GrownHas, RepliesAreExpected
    <3>5. \A i \in Nat : i # 0 => (OnTheWay(i)' <=> OnTheWay(i))
      <4>1. \A i : RepliesTo(toClient', i) <=> (x.re = i \/ RepliesTo(toClient, i))
        <5>1. PICK t : t = toClient'
          OBVIOUS
        <5>2. Grew(t, toClient, x)
          BY <3>0, <5>1
        <5>3. \A i : RepliesTo(t, i) <=> (x.re = i \/ RepliesTo(toClient, i))
          BY <5>2, GrownAnswers
        <5> QED
          BY <5>1, <5>3
      <4>2. \A i : AsksFor(toServer, i) <=> (m.id = i \/ AsksFor(toServer', i))
        BY <2>3, PoppedRequests
      <4> QED
        BY <2>7, <3>2, <4>1, <4>2 DEF OnTheWay, AsksFor, RepliesTo
    <3>6. m.ask \in Controls => \A p \in 1 .. Len(reads) : reads[p].ask # "status"
      <4>1. DOMAIN reads = 1 .. Len(reads)
        BY <1>0
      <4> QED
        BY <2>7, <4>1 DEF Straight
    <3>7. \A p \in 1 .. Len(reads) : Fits(fifo, m.id, reads[p].id)
      BY <2>1, <2>2, <2>4, <2>7, <3>6, NothingIsOvertaken
    <3>8. \A p \in 1 .. Len(IdsOf(reads)) : Fits(fifo, IdsOf(toServer)[1], IdsOf(reads)[p])
      BY <2>3, <3>7, LineOfIds
    <3>9. InLine(fifo, AnswersIn(toClient'), IdsOf(reads'), IdsOf(toServer'))
      BY <1>0, <2>3, <2>7, <3>3, <3>8, FrontApplied
    <3> QED
      BY <1>0, <1>1, <2>4, <2>7, <3>4, <3>5, <3>9, StreamsKeep
  <2> QED
    BY <2>2, <2>5, <2>6, <2>7
<1>4. CASE ServeRead
  <2>1. PICK m : m = Head(reads)
    OBVIOUS
  <2>2. /\ reads # << >> /\ reads' = Tail(reads) /\ UNCHANGED toServer /\ m \in Requests
        /\ \E x : Reply(m, x) /\ toClient' = Append(toClient, x)
    BY <1>4, <2>1, WhatIsServed
  <2>3. /\ Popped(reads', reads) /\ m = reads[1] /\ 1 \in 1 .. Len(reads)
        /\ Popped(IdsOf(reads'), IdsOf(reads)) /\ IdsOf(reads)[1] = m.id
    BY <1>0, <2>1, <2>2, TailPops, FewerRequests
  <2>4. RequestInv(m) /\ \A p \in 1 .. Len(reads') : RequestInv(reads'[p])
    BY <1>0, <2>3, PoppedHas
  <2>5. PICK x \in ServerMessages : Reply(m, x) /\ toClient' = Append(toClient, x)
    BY <2>2 DEF Reply
  <2>6. x \in ServerMessages /\ x.re = m.id
    BY <2>5 DEF Reply
  <2>0. Grew(toClient', toClient, x)
    BY <1>0, <2>5, <2>6, AppendGrows
  <2>7. Grew(AnswersIn(toClient'), AnswersIn(toClient), m.id)
    BY <1>0, <2>5, <2>6, MoreAnswers
  <2>8. \A p \in 1 .. Len(toClient') : AnswerInv(toClient'[p])
    BY <1>0, <2>0, <2>2, <2>4, <2>5, GrownHas, RepliesAreExpected
  <2>9. \A i \in Nat : i # 0 => (OnTheWay(i)' <=> OnTheWay(i))
    <3>1. \A i : RepliesTo(toClient', i) <=> (x.re = i \/ RepliesTo(toClient, i))
      <4>1. PICK t : t = toClient'
        OBVIOUS
      <4>2. Grew(t, toClient, x)
        BY <2>0, <4>1
      <4>3. \A i : RepliesTo(t, i) <=> (x.re = i \/ RepliesTo(toClient, i))
        BY <4>2, GrownAnswers
      <4> QED
        BY <4>1, <4>3
    <3>2. \A i : AsksFor(reads, i) <=> (m.id = i \/ AsksFor(reads', i))
      BY <2>3, PoppedRequests
    <3> QED
      BY <2>2, <2>6, <3>1, <3>2 DEF OnTheWay, AsksFor, RepliesTo
  <2>10. InLine(fifo, AnswersIn(toClient'), IdsOf(reads'), IdsOf(toServer'))
    BY <1>0, <2>2, <2>3, <2>7, FrontAnswered
  <2> QED
    BY <1>0, <1>1, <2>2, <2>4, <2>8, <2>9, <2>10, StreamsKeep
<1>5. CASE PushFrame
  <2>1. PICK x \in ServerMessages : x.re = 0 /\ x.kind \notin Fifos /\ toClient' = Append(toClient, x)
    BY <1>5, WhatIsPushed
  <2>2. UNCHANGED << toServer, reads >>
    BY <1>5, WhatIsPushed
  <2>3. Grew(toClient', toClient, x) /\ Grew(AnswersIn(toClient'), AnswersIn(toClient), 0)
    BY <1>0, <2>1, AppendGrows, MoreAnswers
  <2>4. AnswerInv(x)
    <3>1. ASSUME NEW k \in Fifos, Waits(k, 0) PROVE FALSE
      <4>1. PICK j \in 1 .. Len(fifo[k]) : fifo[k][j].id = 0
        BY <3>1 DEF Waits
      <4> QED
        BY <4>1, WaitersAreTyped
    <3> QED
      BY <2>1, <3>1 DEF AnswerInv
  <2>5. \A p \in 1 .. Len(toClient') : AnswerInv(toClient'[p])
    <3>1. \A p \in 1 .. Len(toClient') : toClient'[p] = x \/ \E q \in 1 .. Len(toClient) : toClient'[p] = toClient[q]
      BY <2>3, GrownHas
    <3> QED
      BY <1>0, <2>4, <3>1
  <2>6. \A i \in Nat : i # 0 => (OnTheWay(i)' <=> OnTheWay(i))
    <3>1. \A i : RepliesTo(toClient', i) <=> (0 = i \/ RepliesTo(toClient, i))
      BY <2>1, <2>3, GrownAnswers
    <3> QED
      BY <2>2, <3>1 DEF OnTheWay, AsksFor, RepliesTo
  <2>7. InLine(fifo, AnswersIn(toClient'), IdsOf(reads'), IdsOf(toServer'))
    BY <1>0, <2>2, <2>3, PushedLine
  <2> QED
    BY <1>0, <1>1, <2>2, <2>5, <2>6, <2>7, StreamsKeep
<1>6. CASE SessionEnds
  <2>1. UNCHANGED << toServer, toClient, reads >>
    BY <1>6 DEF SessionEnds
  <2>2. \A i \in Nat : i # 0 => (OnTheWay(i)' <=> OnTheWay(i))
    BY <2>1 DEF OnTheWay, AsksFor, RepliesTo
  <2> QED
    BY <1>0, <1>1, <2>1, <2>2, StreamsKeep
<1> QED
  BY <1>2, <1>3, <1>4, <1>5, <1>6 DEF Session

-----------------------------------------------------------------------------
(* What the dispatcher takes from the line.                                *)

LEMMA Delivered ==
  ASSUME ViewerTyped, ConnectionInv, toClient # << >>, toClient' = Tail(toClient),
         UNCHANGED << reads, toServer >>, NEW m, m = Head(toClient)
  PROVE  /\ m \in ServerMessages /\ m.re \in Nat /\ OnTheWay(m.re) /\ AnswerInv(m)
         /\ \A i \in Nat : OnTheWay(i) <=> (m.re = i \/ OnTheWay(i)')
         /\ m.re # 0 => ~ OnTheWay(m.re)'
         /\ \A i \in Nat : OnTheWay(i)' => Fits(fifo, m.re, i)
         /\ \A p \in 1 .. Len(toClient') : AnswerInv(toClient'[p])
         /\ InLine(fifo, AnswersIn(toClient'), IdsOf(reads'), IdsOf(toServer'))
<1>0. /\ toClient \in Seq(ServerMessages)
      /\ InLine(fifo, AnswersIn(toClient), IdsOf(reads), IdsOf(toServer))
      /\ \A p \in 1 .. Len(toClient) : AnswerInv(toClient[p])
  BY LineOfIds DEF ViewerTyped, ConnectionInv, MessagesInv
<1>1. /\ Popped(toClient', toClient) /\ m = toClient[1] /\ 1 \in 1 .. Len(toClient) /\ m \in ServerMessages
      /\ toClient' \in Seq(ServerMessages)
  BY <1>0, TailPops
<1>2. Popped(AnswersIn(toClient'), AnswersIn(toClient)) /\ AnswersIn(toClient)[1] = m.re
  BY <1>0, <1>1, FewerAnswers
<1>3. m.re \in Nat /\ AnswerInv(m) /\ OnTheWay(m.re)
  BY <1>0, <1>1 DEF ServerMessages, OnTheWay, AsksFor, RepliesTo
<1>4. \A i \in Nat : OnTheWay(i) <=> (m.re = i \/ OnTheWay(i)')
  <2>1. PICK s, t : s = toClient /\ t = toClient'
    OBVIOUS
  <2>2. Popped(t, s)
    BY <1>1, <2>1
  <2>3. \A i : RepliesTo(s, i) <=> (s[1].re = i \/ RepliesTo(t, i))
    BY <2>2, PoppedAnswers
  <2>4. ASSUME NEW i \in Nat PROVE OnTheWay(i) <=> (m.re = i \/ OnTheWay(i)')
    <3>1. RepliesTo(s, i) <=> (m.re = i \/ RepliesTo(t, i))
      BY <1>1, <2>1, <2>3
    <3>2. OnTheWay(i) <=> \/ RepliesTo(s, i)
                          \/ AsksFor(reads, i)
                          \/ AsksFor(toServer, i)
      BY <2>1 DEF OnTheWay, AsksFor, RepliesTo
    <3>3. OnTheWay(i)' <=> \/ RepliesTo(t, i)
                           \/ AsksFor(reads, i)
                           \/ AsksFor(toServer, i)
      BY <2>1 DEF OnTheWay, AsksFor, RepliesTo
    <3> QED
      BY <3>1, <3>2, <3>3
  <2> QED
    BY <2>4
<1>5. /\ InLine(fifo, AnswersIn(toClient'), IdsOf(reads), IdsOf(toServer))
      /\ \A q \in 1 .. Len(AnswersIn(toClient')) : Fits(fifo, m.re, AnswersIn(toClient')[q])
      /\ \A q \in 1 .. Len(IdsOf(reads)) : Fits(fifo, m.re, IdsOf(reads)[q])
      /\ \A q \in 1 .. Len(IdsOf(toServer)) : Fits(fifo, m.re, IdsOf(toServer)[q])
  BY <1>0, <1>2, FrontDelivered
<1>6. ASSUME NEW i \in Nat, OnTheWay(i)' PROVE Fits(fifo, m.re, i)
  <2>1. CASE RepliesTo(toClient', i)
    <3>1. PICK t : t = toClient'
      OBVIOUS
    <3>2. t \in Seq(ServerMessages)
      BY <1>1, <3>1
    <3>3. Len(AnswersIn(t)) = Len(t) /\ \A p \in 1 .. Len(t) : AnswersIn(t)[p] = t[p].re
      BY <3>2, IdsOfAnswers
    <3>4. PICK p \in 1 .. Len(t) : t[p].re = i
      BY <2>1, <3>1 DEF RepliesTo
    <3> QED
      BY <1>5, <3>1, <3>3, <3>4
  <2>2. CASE AsksFor(reads, i)
    BY <1>5, <2>2, LineOfIds DEF AsksFor
  <2>3. CASE AsksFor(toServer, i)
    BY <1>5, <2>3, LineOfIds DEF AsksFor
  <2> QED
    BY <1>6, <2>1, <2>2, <2>3 DEF OnTheWay, AsksFor, RepliesTo
<1>7. m.re # 0 => ~ OnTheWay(m.re)'
  BY <1>3, <1>6 DEF Fits
<1>8. \A p \in 1 .. Len(toClient') : AnswerInv(toClient'[p])
  BY <1>0, <1>1, PoppedHas
<1> QED
  BY <1>1, <1>3, <1>4, <1>5, <1>6, <1>7, <1>8

\* The messages that stay are known as before.
LEMMA RequestsStay ==
  ASSUME UNCHANGED fifo
  PROVE  /\ \A m : RequestInv(m)' <=> RequestInv(m)
         /\ \A m : AnswerInv(m)' <=> AnswerInv(m)
BY DEF RequestInv, AnswerInv, Known, Waits

LEMMA FrameKeeps ==
  ASSUME ViewerTyped, ConnectionInv, NEW m, m = Head(toClient), toClient # << >>, toClient' = Tail(toClient),
         m.kind = "frame", FrameCame, UNCHANGED << lastId, rx, toServer, reads, abandoned >>
  PROVE  ConnectionInv'
<1>0. UNCHANGED << fifo, slot >>
  BY DEF FrameCame
<1>1. /\ m.re \in Nat /\ AnswerInv(m)
      /\ \A i \in Nat : OnTheWay(i) <=> (m.re = i \/ OnTheWay(i)')
      /\ \A p \in 1 .. Len(toClient') : AnswerInv(toClient'[p])
      /\ InLine(fifo, AnswersIn(toClient'), IdsOf(reads'), IdsOf(toServer'))
  BY Delivered
<1>2. \A i \in Nat : OnTheWay(i) /\ (\E k \in Fifos : Waits(k, i)) => OnTheWay(i)'
  BY <1>1 DEF AnswerInv
<1>3. /\ CallersInv' /\ WaitersInv' /\ FifoInv' /\ SlotInv'
      /\ \A c \in Callers : calls'[c].pc = "registered" => Known(calls[c].ask, calls[c].id)'
  BY <1>0, <1>1, <1>2, FrameChanges, QuietKeeps
<1>4. MessagesInv'
  <2>1. \A p \in 1 .. Len(toClient') : AnswerInv(toClient[p])'
    BY <1>0, <1>1 DEF AnswerInv, Waits
  <2>2. \A p \in 1 .. Len(toServer') : RequestInv(toServer[p])'
    BY <1>0 DEF ConnectionInv, MessagesInv, RequestInv, Known, Waits
  <2>3. \A p \in 1 .. Len(reads') : RequestInv(reads[p])'
    BY <1>0 DEF ConnectionInv, MessagesInv, RequestInv, Known, Waits
  <2>4. \A c \in Callers : (calls[c].pc = "registered" => Known(calls[c].ask, calls[c].id))'
    BY <1>3
  <2> QED
    BY <2>1, <2>2, <2>3, <2>4 DEF MessagesInv
<1>5. LineInv'
  BY <1>0, <1>1 DEF LineInv
<1> QED
  BY <1>3, <1>4, <1>5 DEF ConnectionInv

\* An error reaches every call that listens; the one it answers is refused.
LEMMA ErrorKeeps ==
  ASSUME ViewerTyped, ConnectionInv, NEW m, m = Head(toClient), toClient # << >>, toClient' = Tail(toClient),
         ErrorCame(m.re), down = 0, Straight', UNCHANGED << lastId, rx, toServer, reads, abandoned >>
  PROVE  ConnectionInv'
<1>0. UNCHANGED << fifo, slot >> /\ m.re \notin abandoned
  BY DEF ErrorCame, Straight
<1>1. /\ m.re \in Nat /\ OnTheWay(m.re)
      /\ \A i \in Nat : OnTheWay(i) <=> (m.re = i \/ OnTheWay(i)')
      /\ m.re # 0 => ~ OnTheWay(m.re)'
      /\ \A p \in 1 .. Len(toClient') : AnswerInv(toClient'[p])
      /\ InLine(fifo, AnswersIn(toClient'), IdsOf(reads'), IdsOf(toServer'))
  BY Delivered
<1>2. \A c \in Callers : /\ calls'[c].pc = calls[c].pc /\ calls'[c].ask = calls[c].ask
                         /\ calls'[c].id = calls[c].id
                         /\ \/ calls'[c].errors = calls[c].errors /\ (~Listening(c) \/ ErrorsGone)
                            \/ Grew(calls'[c].errors, calls[c].errors, m.re) /\ Listening(c)
  BY <1>1, ErrorChanges
<1>3. ~ErrorsGone
  BY DEF ErrorsGone
<1>4. ASSUME NEW c \in Callers
      PROVE  RefusedTo(c)' <=> RefusedTo(c) \/ (Listening(c) /\ calls[c].id = m.re)
  <2>1. calls'[c].id = calls[c].id
    BY <1>2
  <2>2. CASE ~Listening(c)
    BY <1>2, <2>1, <2>2 DEF RefusedTo
  <2>3. CASE Listening(c)
    <3>1. PICK e, f : e = calls'[c].errors /\ f = calls[c].errors
      OBVIOUS
    <3>2. Grew(e, f, m.re)
      BY <1>2, <1>3, <2>3, <3>1
    <3>3. /\ \A p \in 1 .. Len(e) : e[p] = m.re \/ \E q \in 1 .. Len(f) : e[p] = f[q]
          /\ \E p \in 1 .. Len(e) : e[p] = m.re
          /\ \A q \in 1 .. Len(f) : \E p \in 1 .. Len(e) : e[p] = f[q]
      BY <3>2, GrownHas
    <3>4. RefusedTo(c)' <=> \E p \in 1 .. Len(e) : e[p] = calls[c].id
      BY <2>1, <3>1 DEF RefusedTo
    <3>5. RefusedTo(c) <=> \E p \in 1 .. Len(f) : f[p] = calls[c].id
      BY <3>1 DEF RefusedTo
    <3> QED
      BY <2>3, <3>3, <3>4, <3>5
  <2> QED
    BY <2>2, <2>3
<1>5. ASSUME NEW c \in Callers, calls[c].pc # "idle"
      PROVE  /\ calls[c].id <= lastId /\ calls[c].id \notin abandoned
             /\ \A d \in Callers : calls[d].pc # "idle" /\ calls[d].id = calls[c].id => c = d
             /\ calls[c].pc = "checked" => calls[c].errors = << >>
             /\ calls[c].pc \in Early => ~ OnTheWay(calls[c].id)
             /\ RefusedTo(c) => calls[c].pc = "waiting" /\ ~ OnTheWay(calls[c].id)
             /\ calls[c].id \in Nat /\ calls[c].id # 0
             /\ calls[c].pc \in Early \cup {"waiting"}
  BY <1>5 DEF ConnectionInv, CallersInv, ViewerTyped, ViewerCalls, Early
<1>6. CallersInv'
  <2>1. ASSUME NEW c \in Callers, calls'[c].pc # "idle"
        PROVE  /\ calls'[c].pc = "checked" => calls'[c].errors = << >>
               /\ calls'[c].pc \in Early => ~ OnTheWay(calls[c].id)'
               /\ RefusedTo(c)' => calls'[c].pc = "waiting" /\ ~ OnTheWay(calls[c].id)'
    <3>1. PICK i \in Nat : i = calls[c].id /\ i # 0 /\ i = calls'[c].id
      BY <1>2, <1>5, <2>1
    <3>2. OnTheWay(i)' => OnTheWay(i)
      BY <1>1
    <3>3. calls'[c].pc = "checked" => calls'[c].errors = << >>
      BY <1>2, <1>5, <2>1 DEF Listening
    <3>4. calls[c].pc \in Early => ~ OnTheWay(i)'
      BY <1>2, <1>5, <2>1, <3>1, <3>2
    <3>5. RefusedTo(c)' => calls[c].pc = "waiting" /\ ~ OnTheWay(i)'
      <4>1. CASE RefusedTo(c)
        BY <1>2, <1>5, <2>1, <3>1, <3>2, <4>1
      <4>2. CASE calls[c].id = m.re
        BY <1>1, <1>2, <1>5, <2>1, <3>1, <4>2
      <4> QED
        BY <1>4, <4>1, <4>2
    <3> QED
      BY <1>2, <3>1, <3>3, <3>4, <3>5
  <2>2. \A i \in Nat : OnTheWay(i)' => i <= lastId
    BY <1>1 DEF ConnectionInv, CallersInv
  <2> QED
    BY <1>2, <1>5, <2>1, <2>2 DEF ConnectionInv, CallersInv
<1>7. /\ \A i : Unwritten(i)' <=> Unwritten(i)
      /\ \A i, pcs : \A c \in Callers : Holder(c, i, pcs)' <=> Holder(c, i, pcs)
  BY <1>2 DEF Unwritten, Holder
<1>8. WaitersInv'
  <2>1. ASSUME NEW k \in Fifos, NEW j \in 1 .. Len(fifo[k]) PROVE WaiterInv(fifo[k][j], k)'
    <3>1. PICK w : w = fifo[k][j]
      OBVIOUS
    <3>2. w.id \in Nat /\ w.id # 0 /\ WaiterInv(w, k)
      BY <3>1, WaitersAreTyped DEF ConnectionInv, WaitersInv
    <3>3. PICK i \in Nat : i = w.id
      BY <3>2
    <3>4. Refused(i) => Refused(i)'
      BY <1>4, <1>7 DEF Refused
    <3>5. Unwritten(i)' \/ OnTheWay(i)' \/ Refused(i)'
      <4>1. CASE i # m.re
        BY <1>1, <1>7, <3>2, <3>3, <3>4, <4>1 DEF WaiterInv
      <4>2. CASE i = m.re
        <5>1. PICK c \in Callers : Holder(c, i, {"registered", "waiting"})
          BY <1>0, <3>2, <3>3, <4>2 DEF WaiterInv
        <5>2. calls[c].pc = "waiting" /\ calls[c].id = i
          BY <1>1, <1>5, <4>2, <5>1 DEF Holder, Early
        <5>3. RefusedTo(c)' /\ Holder(c, i, {"waiting"})'
          BY <1>2, <1>4, <4>2, <5>2 DEF Listening, Holder
        <5> QED
          BY <5>3 DEF Refused
      <4> QED
        BY <4>1, <4>2
    <3>6. \/ i \in abandoned'
          \/ \E c \in Callers : Holder(c, i, {"registered", "waiting"})' /\ calls'[c].ask = w.ask
      BY <1>2, <1>7, <3>2, <3>3 DEF WaiterInv
    <3>7. WaiterInv(w, k)'
      BY <3>2, <3>3, <3>5, <3>6 DEF WaiterInv
    <3>8. fifo'[k][j] = w
      BY <1>0, <3>1
    <3> QED
      BY <3>7, <3>8
  <2> QED
    BY <1>0, <2>1 DEF WaitersInv
<1>9. FifoInv'
  BY <1>0, <1>7 DEF ConnectionInv, FifoInv
<1>10. SlotInv'
  BY <1>0, <1>7 DEF ConnectionInv, SlotInv, Waits
<1>11. MessagesInv'
  <2>1. \A p \in 1 .. Len(toClient') : AnswerInv(toClient[p])'
    BY <1>0, <1>1 DEF AnswerInv, Waits
  <2>2. \A p \in 1 .. Len(toServer') : RequestInv(toServer[p])'
    BY <1>0 DEF ConnectionInv, MessagesInv, RequestInv, Known, Waits
  <2>3. \A p \in 1 .. Len(reads') : RequestInv(reads[p])'
    BY <1>0 DEF ConnectionInv, MessagesInv, RequestInv, Known, Waits
  <2>4. ASSUME NEW c \in Callers, calls'[c].pc = "registered" PROVE Known(calls[c].ask, calls[c].id)'
    <3>1. calls'[c].ask = calls[c].ask /\ calls'[c].id = calls[c].id /\ calls'[c].pc = calls[c].pc
      BY <1>2
    <3>2. Known(calls[c].ask, calls[c].id)
      BY <2>4, <3>1 DEF ConnectionInv, MessagesInv
    <3> QED
      BY <1>0, <3>1, <3>2 DEF Known, Waits
  <2> QED
    BY <2>1, <2>2, <2>3, <2>4 DEF MessagesInv
<1>12. LineInv'
  BY <1>0, <1>1 DEF LineInv
<1> QED
  BY <1>6, <1>8, <1>9, <1>10, <1>11, <1>12 DEF ConnectionInv

-----------------------------------------------------------------------------
(* A call is over: its registrations, if any, are gone.                    *)

\* One place of a list is a place of another that i does not hold; and the other way round.
TakenFrom(h, e, n, i) == \E m \in 1 .. Len(e) : h[n] = e[m] /\ e[m].id # i
StillIn(h, e, m) == \E n \in 1 .. Len(h) : h[n] = e[m]

LEMMA OneIsThinned ==
  ASSUME NEW f, NEW g, NEW i, Thins(g, f, i), NEW k \in Fifos, NEW n \in 1 .. Len(g[k])
  PROVE  TakenFrom(g[k], f[k], n, i)
<1>1. PICK S : S = {x \in 1 .. Len(f[k]) : f[k][x].id # i}
  OBVIOUS
<1>2. Retains(g[k], f[k], S)
  BY <1>1 DEF Thins
<1>3. PICK at \in [1 .. Len(g[k]) -> S] : \A x \in 1 .. Len(g[k]) : g[k][x] = f[k][at[x]]
  BY <1>2 DEF Retains
<1>4. at[n] \in 1 .. Len(f[k]) /\ f[k][at[n]].id # i /\ g[k][n] = f[k][at[n]]
  BY <1>1, <1>3
<1> QED
  BY <1>4 DEF TakenFrom

LEMMA OneIsLeft ==
  ASSUME NEW f, NEW g, NEW i, Thins(g, f, i), NEW k \in Fifos, NEW m \in 1 .. Len(f[k]), f[k][m].id # i
  PROVE  StillIn(g[k], f[k], m)
<1>1. PICK S : S = {x \in 1 .. Len(f[k]) : f[k][x].id # i}
  OBVIOUS
<1>2. Retains(g[k], f[k], S)
  BY <1>1 DEF Thins
<1>3. PICK at \in [1 .. Len(g[k]) -> S] :
        /\ \A x \in 1 .. Len(g[k]) : g[k][x] = f[k][at[x]]
        /\ \A y \in S : \E x \in 1 .. Len(g[k]) : at[x] = y
  BY <1>2 DEF Retains
<1>4. m \in S
  BY <1>1
<1>5. PICK n \in 1 .. Len(g[k]) : at[n] = m
  BY <1>3, <1>4
<1>6. g[k][n] = f[k][m]
  BY <1>3, <1>5
<1> QED
  BY <1>6 DEF StillIn

\* What remains keeps its place to each other.
\* Two places of a list, in their order, are places of another list.
Drawn(h, e, n, m) ==
  \E x \in 1 .. Len(e), y \in 1 .. Len(e) :
    h[n] = e[x] /\ h[m] = e[y] /\ (x = y => n = m) /\ (n < m => x < y)

LEMMA PairIsThinned ==
  ASSUME NEW f, NEW g, NEW i, Thins(g, f, i), NEW k \in Fifos,
         NEW n \in 1 .. Len(g[k]), NEW m \in 1 .. Len(g[k])
  PROVE  Drawn(g[k], f[k], n, m)
<1>1. PICK S : S = {x \in 1 .. Len(f[k]) : f[k][x].id # i}
  OBVIOUS
<1>2. Retains(g[k], f[k], S)
  BY <1>1 DEF Thins
<1>3. PICK at \in [1 .. Len(g[k]) -> S] :
        /\ \A x \in 1 .. Len(g[k]) : g[k][x] = f[k][at[x]]
        /\ \A x, y \in 1 .. Len(g[k]) : at[x] = at[y] => x = y
        /\ \A x, y \in 1 .. Len(g[k]) : x < y => at[x] < at[y]
  BY <1>2 DEF Retains
<1>4. PICK x \in 1 .. Len(f[k]), y \in 1 .. Len(f[k]) : x = at[n] /\ y = at[m]
  BY <1>1, <1>3
<1>5. g[k][n] = f[k][x] /\ g[k][m] = f[k][y] /\ (x = y => n = m) /\ (n < m => x < y)
  BY <1>3, <1>4
<1> QED
  BY <1>5 DEF Drawn

LEMMA ThinnedOrder ==
  ASSUME NEW f, NEW g, NEW i, Thins(g, f, i), NEW x, NEW y, Ahead(g, x, y)
  PROVE  Ahead(f, x, y)
<1>1. PICK k \in Fifos : \E n, m \in 1 .. Len(g[k]) : n < m /\ g[k][n].id = x /\ g[k][m].id = y
  BY DEF Ahead
<1>2. PICK n \in 1 .. Len(g[k]), m \in 1 .. Len(g[k]) : n < m /\ g[k][n].id = x /\ g[k][m].id = y
  BY <1>1
<1>3. PICK u \in 1 .. Len(f[k]), v \in 1 .. Len(f[k]) : u < v /\ g[k][n] = f[k][u] /\ g[k][m] = f[k][v]
  <2>1. Drawn(g[k], f[k], n, m)
    BY PairIsThinned
  <2> QED
    BY <1>2, <2>1 DEF Drawn
<1> QED
  BY <1>2, <1>3 DEF Ahead

LEMMA ThinnedKeeps ==
  ASSUME ViewerIsKnown, ViewerTyped, ViewerTyped', ConnectionInv, NEW i \in Nat, i # 0, i <= lastId,
         Thins(fifo', fifo, i), UNCHANGED << lastId, abandoned >>,
         \A c \in Callers : calls'[c] = calls[c] \/ (calls'[c] = Idle /\ calls[c].id = i),
         \A c \in Callers : ~ (calls'[c].id = i /\ calls'[c].pc \in Early),
         ~ OnTheWay(i)', \A j \in Nat : j # i => (OnTheWay(j)' <=> OnTheWay(j)),
         \A j \in 1 .. MaxAsks : j # i => slot'[j] = slot[j],
         \A p \in 1 .. Len(toServer') : RequestInv(toServer'[p]),
         \A p \in 1 .. Len(reads') : RequestInv(reads'[p]),
         \A p \in 1 .. Len(toClient') : AnswerInv(toClient'[p]),
         InLine(fifo, AnswersIn(toClient'), IdsOf(reads'), IdsOf(toServer'))
  PROVE  ConnectionInv'
<1>0. Idle.pc = "idle" /\ Idle.id = 0 /\ "idle" \notin Early
  BY DEF Idle, Early
<1>1. ASSUME NEW c \in Callers, calls[c].pc # "idle"
      PROVE  /\ calls[c].id <= lastId /\ calls[c].id \notin abandoned
             /\ \A d \in Callers : calls[d].pc # "idle" /\ calls[d].id = calls[c].id => c = d
             /\ calls[c].pc = "checked" => calls[c].errors = << >>
             /\ calls[c].pc \in Early => ~ OnTheWay(calls[c].id)
             /\ RefusedTo(c) => calls[c].pc = "waiting" /\ ~ OnTheWay(calls[c].id)
             /\ calls[c].id \in Nat /\ calls[c].id # 0
  BY <1>1 DEF ConnectionInv, CallersInv, ViewerTyped, ViewerCalls
<1>2. \A j \in Nat : OnTheWay(j)' => OnTheWay(j)
  <2>1. ASSUME NEW j \in Nat, OnTheWay(j)' PROVE OnTheWay(j)
    <3>1. CASE j = i
      BY <2>1, <3>1
    <3>2. CASE j # i
      BY <2>1, <3>2
    <3> QED
      BY <3>1, <3>2
  <2> QED
    BY <2>1
<1>3. CallersInv'
  <2>1. ASSUME NEW c \in Callers, calls'[c].pc # "idle"
        PROVE  /\ calls'[c] = calls[c] /\ calls[c].pc # "idle"
               /\ calls'[c].pc \in Early => ~ OnTheWay(calls[c].id)'
               /\ RefusedTo(c)' => calls'[c].pc = "waiting" /\ ~ OnTheWay(calls[c].id)'
    <3>1. calls'[c] = calls[c] /\ calls[c].pc # "idle"
      BY <1>0, <2>1
    <3>2. PICK j \in Nat : j = calls[c].id /\ j = calls'[c].id
      BY <1>1, <3>1
    <3>3. OnTheWay(j)' => OnTheWay(j)
      BY <1>2
    <3>4. RefusedTo(c)' <=> RefusedTo(c)
      BY <3>1 DEF RefusedTo
    <3> QED
      BY <1>1, <3>1, <3>2, <3>3, <3>4
  <2>2. ASSUME NEW j \in Nat, OnTheWay(j)' PROVE j <= lastId
    BY <1>2, <2>2 DEF ConnectionInv, CallersInv
  <2>3. \A c \in Callers : \A d \in Callers :
          calls'[c].pc # "idle" /\ calls'[d].pc # "idle" /\ calls'[d].id = calls'[c].id => c = d
    BY <1>1, <2>1
  <2> QED
    BY <1>1, <2>1, <2>2, <2>3 DEF ConnectionInv, CallersInv
<1>4. ASSUME NEW j \in Nat, j # i, j # 0
      PROVE  /\ \A c \in Callers : calls'[c].id = j => calls'[c] = calls[c]
             /\ \A c \in Callers : calls[c].id = j => calls'[c] = calls[c]
             /\ Unwritten(j)' <=> Unwritten(j)
             /\ Refused(j)' <=> Refused(j)
  <2>1. \A c \in Callers : calls'[c].id = j \/ calls[c].id = j => calls'[c] = calls[c]
    BY <1>0, <1>4
  <2>2. Unwritten(j)' <=> Unwritten(j)
    BY <2>1 DEF Unwritten, Holder
  <2>3. Refused(j)' <=> Refused(j)
    <3>1. \A c \in Callers : calls'[c].id = j \/ calls[c].id = j => (RefusedTo(c)' <=> RefusedTo(c))
      BY <2>1 DEF RefusedTo
    <3> QED
      BY <2>1, <3>1 DEF Refused, Holder
  <2> QED
    BY <2>1, <2>2, <2>3
<1>5. ASSUME NEW k \in Fifos, NEW n \in 1 .. Len(fifo'[k])
      PROVE  /\ fifo'[k][n].id \in Nat /\ fifo'[k][n].id # i /\ fifo'[k][n].id # 0
             /\ \E m \in 1 .. Len(fifo[k]) : fifo'[k][n] = fifo[k][m]
  <2>1. PICK m \in 1 .. Len(fifo[k]) : fifo'[k][n] = fifo[k][m] /\ fifo[k][m].id # i
    <3>1. TakenFrom(fifo'[k], fifo[k], n, i)
      BY OneIsThinned
    <3> QED
      BY <3>1 DEF TakenFrom
  <2> QED
    BY <2>1, WaitersAreTyped
<1>6. WaitersInv'
  <2>1. ASSUME NEW k \in Fifos, NEW n \in 1 .. Len(fifo'[k]) PROVE WaiterInv(fifo[k][n], k)'
    <3>1. PICK w : w = fifo'[k][n]
      OBVIOUS
    <3>2. PICK m \in 1 .. Len(fifo[k]) : w = fifo[k][m]
      BY <1>5, <2>1, <3>1
    <3>3. WaiterInv(w, k)
      BY <3>2 DEF ConnectionInv, WaitersInv
    <3>4. PICK j \in Nat : j = w.id /\ j # i /\ j # 0
      BY <1>5, <2>1, <3>1
    <3>5. Unwritten(j)' \/ OnTheWay(j)' \/ Refused(j)'
      BY <1>4, <3>3, <3>4 DEF WaiterInv
    <3>6. \/ j \in abandoned'
          \/ \E c \in Callers : Holder(c, j, {"registered", "waiting"})' /\ calls'[c].ask = w.ask
      BY <1>4, <3>3, <3>4 DEF WaiterInv, Holder
    <3>7. WaiterInv(w, k)'
      BY <3>3, <3>4, <3>5, <3>6 DEF WaiterInv
    <3> QED
      BY <3>1, <3>7
  <2> QED
    BY <2>1 DEF WaitersInv
<1>7. FifoInv'
  <2>1. ASSUME NEW k \in Fifos, NEW l \in Fifos, NEW n \in 1 .. Len(fifo'[k]), NEW m \in 1 .. Len(fifo'[l]),
               fifo'[k][n].id = fifo'[l][m].id
        PROVE  k = l /\ n = m
    <3>1. CASE k = l
      <4>1. PICK x \in 1 .. Len(fifo[k]), y \in 1 .. Len(fifo[k]) :
              fifo'[k][n] = fifo[k][x] /\ fifo'[k][m] = fifo[k][y] /\ (x = y => n = m) /\ (n < m => x < y)
        <5>1. m \in 1 .. Len(fifo'[k])
          BY <3>1
        <5>2. Drawn(fifo'[k], fifo[k], n, m)
          BY <5>1, PairIsThinned
        <5> QED
          BY <5>2 DEF Drawn
      <4>2. fifo[k][x].id = fifo[k][y].id
        BY <2>1, <3>1, <4>1
      <4>3. FifoInv
        BY DEF ConnectionInv
      <4>4. x = y
        BY <4>2, <4>3 DEF FifoInv
      <4> QED
        BY <3>1, <4>1, <4>4
    <3>2. CASE k # l
      <4>1. PICK x \in 1 .. Len(fifo[k]) : fifo'[k][n] = fifo[k][x]
        BY <1>5, <2>1
      <4>2. PICK y \in 1 .. Len(fifo[l]) : fifo'[l][m] = fifo[l][y]
        BY <1>5, <2>1
      <4> QED
        BY <2>1, <3>2, <4>1, <4>2 DEF ConnectionInv, FifoInv
    <3> QED
      BY <3>1, <3>2
  <2>2. ASSUME NEW k \in Fifos, NEW n \in 1 .. Len(fifo'[k]), NEW m \in 1 .. Len(fifo'[k]),
               n < m, Unwritten(fifo[k][n].id)'
        PROVE  Unwritten(fifo[k][m].id)'
    <3>1. PICK x \in 1 .. Len(fifo[k]), y \in 1 .. Len(fifo[k]) :
            x < y /\ fifo'[k][n] = fifo[k][x] /\ fifo'[k][m] = fifo[k][y]
      <4>1. Drawn(fifo'[k], fifo[k], n, m)
        BY PairIsThinned
      <4> QED
        BY <2>2, <4>1 DEF Drawn
    <3>2. PICK j \in Nat : j = fifo'[k][n].id /\ j # i /\ j # 0
      BY <1>5, <2>2
    <3>3. PICK h \in Nat : h = fifo'[k][m].id /\ h # i /\ h # 0
      BY <1>5, <2>2
    <3>4. Unwritten(j)
      BY <1>4, <2>2, <3>2
    <3>5. Unwritten(h)
      BY <3>1, <3>2, <3>3, <3>4 DEF ConnectionInv, FifoInv
    <3> QED
      BY <1>4, <3>3, <3>5
  <2> QED
    BY <2>1, <2>2 DEF FifoInv
<1>8. /\ \A k \in Fifos : ~ Waits(k, i)'
      /\ \A j \in Nat : j # i => \A k \in Fifos : Waits(k, j)' <=> Waits(k, j)
  <2>1. \A k \in Fifos : ~ Waits(k, i)'
    BY <1>5 DEF Waits
  <2>2. ASSUME NEW j \in Nat, j # i, NEW k \in Fifos PROVE Waits(k, j)' <=> Waits(k, j)
    <3>1. ASSUME NEW n \in 1 .. Len(fifo'[k]), fifo'[k][n].id = j PROVE \E m \in 1 .. Len(fifo[k]) : fifo[k][m].id = j
      BY <1>5, <3>1
    <3>2. ASSUME NEW m \in 1 .. Len(fifo[k]), fifo[k][m].id = j PROVE \E n \in 1 .. Len(fifo'[k]) : fifo'[k][n].id = j
      <4>1. fifo[k][m].id # i
        BY <2>2, <3>2
      <4>2. PICK n \in 1 .. Len(fifo'[k]) : fifo'[k][n] = fifo[k][m]
        <5>1. StillIn(fifo'[k], fifo[k], m)
          BY <4>1, OneIsLeft
        <5> QED
          BY <5>1 DEF StillIn
      <4> QED
        BY <3>2, <4>2
    <3> QED
      BY <3>1, <3>2 DEF Waits
  <2> QED
    BY <2>1, <2>2
<1>9. ASSUME NEW ask, NEW j \in Nat, j # i, Known(ask, j), ask # "frame" => FifoOf(ask) \in Fifos
      PROVE  Known(ask, j)'
  <2>1. ASSUME NEW k \in Fifos, NEW n \in 1 .. Len(fifo'[k]), fifo'[k][n].id = j PROVE fifo'[k][n].ask = ask
    <3>1. PICK m \in 1 .. Len(fifo[k]) : fifo'[k][n] = fifo[k][m]
      BY <1>5, <2>1
    <3> QED
      BY <1>9, <2>1, <3>1 DEF Known
  <2> QED
    BY <1>8, <1>9, <2>1 DEF Known
<1>10. MessagesInv'
  <2>0. ASSUME NEW m \in Requests, RequestInv(m), m.id # i PROVE RequestInv(m)'
    <3>1. CASE m.ask \in {"input", "bye"}
      BY <2>0, <3>1 DEF RequestInv
    <3>2. CASE m.ask \notin {"input", "bye"}
      <4>1. m.ask \in Reads \cup Controls \cup {"launch"} /\ m.id \in Nat
        BY <3>2 DEF Requests
      <4>2. m.id # 0 /\ Known(m.ask, m.id)
        BY <2>0, <3>2 DEF RequestInv
      <4>3. Known(m.ask, m.id)'
        BY <1>9, <2>0, <4>1, <4>2, FifosOfAsks
      <4> QED
        BY <3>2, <4>2, <4>3 DEF RequestInv
    <3> QED
      BY <3>1, <3>2
  <2>1. ASSUME NEW p \in 1 .. Len(toServer') PROVE RequestInv(toServer[p])'
    <3>1. PICK m : m = toServer'[p]
      OBVIOUS
    <3>2. toServer' \in Seq(Requests)
      BY DEF ViewerTyped
    <3>3. m \in Requests /\ RequestInv(m)
      BY <2>1, <3>1, <3>2
    <3>4. m.id # i
      BY <2>1, <3>1 DEF OnTheWay, AsksFor, RepliesTo
    <3>5. RequestInv(m)'
      BY <2>0, <3>3, <3>4
    <3> QED
      BY <3>1, <3>5
  <2>2. ASSUME NEW p \in 1 .. Len(reads') PROVE RequestInv(reads[p])'
    <3>1. PICK m : m = reads'[p]
      OBVIOUS
    <3>2. reads' \in Seq(Requests)
      BY DEF ViewerTyped
    <3>3. m \in Requests /\ RequestInv(m)
      BY <2>2, <3>1, <3>2
    <3>4. m.id # i
      BY <2>2, <3>1 DEF OnTheWay, AsksFor, RepliesTo
    <3>5. RequestInv(m)'
      BY <2>0, <3>3, <3>4
    <3> QED
      BY <3>1, <3>5
  <2>3. ASSUME NEW p \in 1 .. Len(toClient') PROVE AnswerInv(toClient[p])'
    <3>1. PICK m : m = toClient'[p]
      OBVIOUS
    <3>2. toClient' \in Seq(ServerMessages)
      BY DEF ViewerTyped
    <3>3. m \in ServerMessages /\ AnswerInv(m)
      BY <2>3, <3>1, <3>2
    <3>4. m.re # i /\ m.re \in Nat
      BY <2>3, <3>1, <3>3 DEF OnTheWay, AsksFor, RepliesTo, ServerMessages
    <3>5. AnswerInv(m)'
      BY <1>8, <3>3, <3>4 DEF AnswerInv
    <3> QED
      BY <3>1, <3>5
  <2>4. ASSUME NEW c \in Callers, calls'[c].pc = "registered" PROVE Known(calls[c].ask, calls[c].id)'
    <3>1. calls'[c] = calls[c] /\ calls[c].id # i
      BY <1>0, <2>4 DEF Early
    <3>2. PICK ask, j : ask = calls[c].ask /\ j = calls[c].id
      OBVIOUS
    <3>3. Known(ask, j) /\ ask \in Askable /\ j \in Nat
      BY <2>4, <3>1, <3>2 DEF ConnectionInv, MessagesInv, ViewerTyped, ViewerCalls
    <3>4. Known(ask, j)'
      BY <1>9, <3>1, <3>2, <3>3, FifosOfAsks DEF ViewerIsKnown, Askable
    <3> QED
      BY <3>1, <3>2, <3>4
  <2> QED
    BY <2>1, <2>2, <2>3, <2>4 DEF MessagesInv
<1>11. SlotInv'
  <2>1. ASSUME NEW j \in 1 .. MaxAsks, slot'[j] # NoReply
        PROVE  /\ j <= lastId /\ \A k \in Fifos : ~ Waits(k, j)'
               /\ \A c \in Callers : ~ (calls'[c].pc \in Early /\ calls'[c].id = j)
    <3>1. CASE j = i
      BY <1>8, <3>1
    <3>2. CASE j # i
      <4>1. /\ j <= lastId /\ \A k \in Fifos : ~ Waits(k, j)
            /\ \A c \in Callers : ~ (calls[c].pc \in Early /\ calls[c].id = j)
        BY <2>1, <3>2 DEF ConnectionInv, SlotInv, Holder
      <4>2. \A k \in Fifos : ~ Waits(k, j)'
        BY <1>8, <3>2, <4>1
      <4>3. \A c \in Callers : ~ (calls'[c].pc \in Early /\ calls'[c].id = j)
        BY <1>0, <4>1
      <4> QED
        BY <4>1, <4>2, <4>3
    <3> QED
      BY <3>1, <3>2
  <2> QED
    BY <2>1 DEF SlotInv, Holder
<1>12. LineInv'
  <2>1. \A x, y : Ahead(fifo', x, y) => Ahead(fifo, x, y)
    BY ThinnedOrder
  <2>2. InLine(fifo', AnswersIn(toClient'), IdsOf(reads'), IdsOf(toServer'))
    BY <2>1, LineOfFewer
  <2> QED
    BY <2>2 DEF LineInv
<1> QED
  BY <1>3, <1>6, <1>7, <1>10, <1>11, <1>12 DEF ConnectionInv

-----------------------------------------------------------------------------
(* A reply finds the registration of the call it answers.                  *)

LEMMA OldestIsAnswered ==
  ASSUME ViewerIsKnown, ViewerTyped, ConnectionInv, toClient # << >>, toClient' = Tail(toClient),
         UNCHANGED << reads, toServer >>, NEW m, m = Head(toClient), m.kind \in Fifos,
         ~ RefusedUnseen(m.kind)
  PROVE  /\ fifo[m.kind] # << >> /\ fifo[m.kind] \in Seq(Waiters) /\ Head(fifo[m.kind]).id = m.re
         /\ m.re # 0 /\ m.re \in 1 .. MaxAsks /\ m.re <= lastId
<1>1. PICK k \in Fifos : k = m.kind
  OBVIOUS
<1>2. /\ m.re \in Nat /\ OnTheWay(m.re) /\ AnswerInv(m)
      /\ \A i \in Nat : OnTheWay(i) <=> (m.re = i \/ OnTheWay(i)')
      /\ \A i \in Nat : OnTheWay(i)' => Fits(fifo, m.re, i)
  BY Delivered
<1>3. m.re # 0 /\ Waits(k, m.re)
  BY <1>1, <1>2 DEF AnswerInv
<1>4. m.re <= lastId /\ m.re \in 1 .. MaxAsks
  <2>1. PICK i \in Nat : i = m.re
    BY <1>2
  <2>2. i <= lastId
    BY <1>2, <2>1 DEF ConnectionInv, CallersInv
  <2>3. lastId \in Nat /\ lastId <= MaxAsks /\ MaxAsks \in Nat
    BY DEF ViewerTyped, ViewerIsKnown
  <2> QED
    BY <1>3, <2>1, <2>2, <2>3
<1>5. PICK j \in 1 .. Len(fifo[k]) : fifo[k][j].id = m.re
  BY <1>3 DEF Waits
<1>6. fifo[k] \in Seq(Waiters) /\ Len(fifo[k]) \in Nat
  BY <1>5, WaitersAreTyped
<1>7. fifo[k] # << >> /\ Head(fifo[k]) = fifo[k][1] /\ 1 \in 1 .. Len(fifo[k])
  BY <1>5, <1>6
<1>8. PICK w : w = fifo[k][1]
  OBVIOUS
<1>9. w.id \in Nat /\ w.id # 0 /\ WaiterInv(w, k)
  BY <1>7, <1>8, WaitersAreTyped DEF ConnectionInv, WaitersInv
<1>10. CASE w.id = m.re
  BY <1>1, <1>3, <1>4, <1>6, <1>7, <1>8, <1>10
<1>11. CASE w.id # m.re
  <2>1. 1 < j
    BY <1>5, <1>8, <1>11
  <2>2. Ahead(fifo, w.id, m.re)
    BY <1>5, <1>7, <1>8, <2>1 DEF Ahead
  <2>3. CASE Unwritten(w.id)
    <3>1. Unwritten(m.re)
      BY <1>5, <1>7, <1>8, <2>1, <2>3 DEF ConnectionInv, FifoInv
    <3>2. PICK c \in Callers : calls[c].pc = "registered" /\ calls[c].id = m.re
      BY <3>1 DEF Unwritten, Holder
    <3> QED
      BY <1>2, <3>2 DEF ConnectionInv, CallersInv, Early
  <2>4. CASE OnTheWay(w.id)
    <3>1. OnTheWay(w.id)'
      BY <1>2, <1>9, <1>11, <2>4
    <3>2. Fits(fifo, m.re, w.id)
      BY <1>2, <1>9, <3>1
    <3> QED
      BY <1>3, <1>9, <2>2, <3>2 DEF Fits
  <2>5. CASE Refused(w.id)
    <3>1. PICK c \in Callers : calls[c].id = w.id /\ RefusedTo(c)
      BY <2>5 DEF Refused, Holder
    <3>2. calls[c].id \in Elems(calls[c].errors)
      BY <3>1 DEF RefusedTo, Elems
    <3>3. RefusedUnseen(m.kind)
      BY <1>1, <1>7, <1>8, <3>1, <3>2 DEF RefusedUnseen
    <3> QED
      BY <3>3
  <2> QED
    BY <1>9, <2>3, <2>4, <2>5 DEF WaiterInv
<1> QED
  BY <1>10, <1>11

\* The registrations without the oldest, when it is the only one of its id.
LEMMA TailRetains ==
  ASSUME NEW s \in Seq(Waiters), s # << >>, NEW i, s[1].id = i,
         \A n, m \in 1 .. Len(s) : s[n].id = s[m].id => n = m
  PROVE  Retains(Tail(s), s, {n \in 1 .. Len(s) : s[n].id # i})
<1>0. PICK t : t = Tail(s)
  OBVIOUS
<1>1. PICK n \in Nat : n = Len(t)
  BY <1>0
<1>2. Len(s) = n + 1 /\ \A k \in 1 .. n : t[k] = s[k + 1]
  BY <1>0, <1>1
<1>3. PICK S : S = {k \in 1 .. Len(s) : s[k].id # i}
  OBVIOUS
<1>4. \A k \in 1 .. n + 1 : k \in S <=> k # 1
  BY <1>2, <1>3
<1>5. PICK at : at = [k \in 1 .. n |-> k + 1]
  OBVIOUS
<1>6. at \in [1 .. Len(t) -> S]
  BY <1>1, <1>4, <1>5
<1>7. \A k \in 1 .. n : t[k] = s[at[k]]
  BY <1>2, <1>5
<1>8. /\ \A k, l \in 1 .. n : at[k] = at[l] => k = l
      /\ \A k, l \in 1 .. n : k < l => at[k] < at[l]
  BY <1>5
<1>9. ASSUME NEW k \in S PROVE \E l \in 1 .. n : at[l] = k
  <2>1. k \in 1 .. n + 1 /\ k # 1
    BY <1>2, <1>3, <1>4
  <2>2. k - 1 \in 1 .. n /\ at[k - 1] = k
    BY <1>5, <2>1
  <2> QED
    BY <2>2
<1>10. Retains(t, s, S)
  BY <1>1, <1>6, <1>7, <1>8, <1>9 DEF Retains
<1> QED
  BY <1>0, <1>3, <1>10

LEMMA AllRetained ==
  ASSUME NEW s \in Seq(Waiters), NEW i, \A n \in 1 .. Len(s) : s[n].id # i
  PROVE  Retains(s, s, {n \in 1 .. Len(s) : s[n].id # i})
<1>1. PICK n \in Nat : n = Len(s)
  OBVIOUS
<1>2. PICK S : S = {k \in 1 .. Len(s) : s[k].id # i}
  OBVIOUS
<1>3. S = 1 .. n
  BY <1>1, <1>2
<1>4. PICK at : at = [k \in 1 .. n |-> k]
  OBVIOUS
<1>5. /\ at \in [1 .. n -> S] /\ \A k \in 1 .. n : at[k] = k
  BY <1>3, <1>4
<1>6. Retains(s, s, S)
  BY <1>1, <1>3, <1>5 DEF Retains
<1> QED
  BY <1>2, <1>6

LEMMA ReplyKeeps ==
  ASSUME ViewerIsKnown, ViewerTyped, ViewerTyped', ConnectionInv, NEW m, m = Head(toClient),
         toClient # << >>, toClient' = Tail(toClient), m.kind \in Fifos, ReplyCame(m), Straight',
         UNCHANGED << lastId, rx, toServer, reads, abandoned >>
  PROVE  /\ ConnectionInv' /\ m.re \in 1 .. MaxAsks /\ slot'[m.re].re = m.re
         /\ \A j \in 1 .. MaxAsks : j # m.re => slot'[j] = slot[j]
<1>1. ~ RefusedUnseen(m.kind)
  BY DEF ReplyCame, Straight
<1>2. PICK k \in Fifos : k = m.kind
  OBVIOUS
<1>3. /\ fifo[k] # << >> /\ fifo[k] \in Seq(Waiters) /\ Head(fifo[k]).id = m.re
      /\ m.re # 0 /\ m.re \in 1 .. MaxAsks /\ m.re <= lastId
  BY <1>1, <1>2, OldestIsAnswered
<1>4. /\ fifo' = [fifo EXCEPT ![k] = Tail(fifo[k])] /\ UNCHANGED calls
      /\ slot' = [slot EXCEPT ![Head(fifo[k]).id] = [ask |-> Head(fifo[k]).ask, re |-> m.re, rec |-> m.rec]]
  BY <1>2, <1>3 DEF ReplyCame
<1>5. /\ m.re \in Nat /\ OnTheWay(m.re)
      /\ \A i \in Nat : OnTheWay(i) <=> (m.re = i \/ OnTheWay(i)')
      /\ m.re # 0 => ~ OnTheWay(m.re)'
      /\ \A p \in 1 .. Len(toClient') : AnswerInv(toClient'[p])
      /\ InLine(fifo, AnswersIn(toClient'), IdsOf(reads'), IdsOf(toServer'))
  BY Delivered
<1>6. /\ slot'[m.re].re = m.re /\ \A j \in 1 .. MaxAsks : j # m.re => slot'[j] = slot[j]
  BY <1>3, <1>4 DEF ViewerTyped
<1>7. Thins(fifo', fifo, m.re)
  <2>1. ASSUME NEW l \in Fifos
        PROVE  Retains(fifo'[l], fifo[l], {n \in 1 .. Len(fifo[l]) : fifo[l][n].id # m.re})
    <3>0. fifo[l] \in Seq(Waiters) /\ fifo \in [Fifos -> Seq(Waiters)] /\ fifo[k][1].id = m.re
          /\ 1 \in 1 .. Len(fifo[k])
      BY <1>3 DEF ViewerTyped
    <3>1. CASE l = k
      <4>1. fifo'[l] = Tail(fifo[l])
        BY <1>4, <3>0, <3>1
      <4>2. \A n, h \in 1 .. Len(fifo[l]) : fifo[l][n].id = fifo[l][h].id => n = h
        BY DEF ConnectionInv, FifoInv
      <4> QED
        BY <1>3, <3>0, <3>1, <4>1, <4>2, TailRetains
    <3>2. CASE l # k
      <4>1. fifo'[l] = fifo[l]
        BY <1>4, <3>0, <3>2
      <4>2. \A n \in 1 .. Len(fifo[l]) : fifo[l][n].id # m.re
        BY <3>0, <3>2 DEF ConnectionInv, FifoInv
      <4> QED
        BY <3>0, <4>1, <4>2, AllRetained
    <3> QED
      BY <3>1, <3>2
  <2> QED
    BY <2>1 DEF Thins
<1>8. \A c \in Callers : ~ (calls'[c].id = m.re /\ calls'[c].pc \in Early)
  BY <1>4, <1>5 DEF ConnectionInv, CallersInv, Early
<1>9. \A j \in Nat : j # m.re => (OnTheWay(j)' <=> OnTheWay(j))
  BY <1>5
<1>10. /\ \A p \in 1 .. Len(toServer') : RequestInv(toServer'[p])
       /\ \A p \in 1 .. Len(reads') : RequestInv(reads'[p])
  BY DEF ConnectionInv, MessagesInv
<1>11. ConnectionInv'
  BY <1>3, <1>4, <1>5, <1>6, <1>7, <1>8, <1>9, <1>10, ThinnedKeeps
<1> QED
  BY <1>3, <1>6, <1>11

-----------------------------------------------------------------------------
(* A call starts, registers, writes and is over.                           *)

LEMMA CallerFacts ==
  ASSUME ViewerIsKnown, ViewerTyped, ConnectionInv, NEW c \in Callers, calls[c].pc # "idle"
  PROVE  /\ calls[c].id <= lastId /\ calls[c].id \notin abandoned
         /\ \A d \in Callers : calls[d].pc # "idle" /\ calls[d].id = calls[c].id => c = d
         /\ calls[c].pc = "checked" => calls[c].errors = << >>
         /\ calls[c].pc \in Early => ~ OnTheWay(calls[c].id)
         /\ RefusedTo(c) => calls[c].pc = "waiting" /\ ~ OnTheWay(calls[c].id)
         /\ calls[c].id \in Nat /\ calls[c].id # 0 /\ calls[c].id <= MaxAsks
         /\ calls[c].ask \in Askable /\ calls[c].errors \in Seq(Nat)
         /\ calls[c].pc \in Early \cup {"waiting"}
<1>1. /\ calls[c].id \in Nat /\ calls[c].id # 0 /\ calls[c].ask \in Askable /\ calls[c].errors \in Seq(Nat)
      /\ calls[c].pc \in Early \cup {"waiting"}
  BY DEF ViewerTyped, ViewerCalls, Early
<1>2. /\ calls[c].id <= lastId /\ calls[c].id \notin abandoned
      /\ \A d \in Callers : calls[d].pc # "idle" /\ calls[d].id = calls[c].id => c = d
      /\ calls[c].pc = "checked" => calls[c].errors = << >>
      /\ calls[c].pc \in Early => ~ OnTheWay(calls[c].id)
      /\ RefusedTo(c) => calls[c].pc = "waiting" /\ ~ OnTheWay(calls[c].id)
  BY DEF ConnectionInv, CallersInv
<1>3. calls[c].id <= MaxAsks
  <2>1. PICK i \in Nat : i = calls[c].id
    BY <1>1
  <2>2. i <= lastId /\ lastId \in Nat /\ lastId <= MaxAsks /\ MaxAsks \in Nat
    BY <1>2, <2>1 DEF ViewerTyped, ViewerIsKnown
  <2> QED
    BY <2>1, <2>2
<1> QED
  BY <1>1, <1>2, <1>3

LEMMA QueuesStay ==
  ASSUME UNCHANGED << toServer, toClient, reads >>
  PROVE  /\ \A i : OnTheWay(i)' <=> OnTheWay(i)
         /\ AnswersIn(toClient') = AnswersIn(toClient) /\ IdsOf(reads') = IdsOf(reads)
         /\ IdsOf(toServer') = IdsOf(toServer)
BY DEF OnTheWay, AsksFor, RepliesTo

LEMMA MessagesStay ==
  ASSUME ConnectionInv, UNCHANGED << fifo, toServer, toClient, reads >>
  PROVE  /\ \A p \in 1 .. Len(toClient') : AnswerInv(toClient[p])'
         /\ \A p \in 1 .. Len(toServer') : RequestInv(toServer[p])'
         /\ \A p \in 1 .. Len(reads') : RequestInv(reads[p])'
<1>1. \A p \in 1 .. Len(toClient') : AnswerInv(toClient[p])'
  BY DEF ConnectionInv, MessagesInv, AnswerInv, Waits
<1>2. \A p \in 1 .. Len(toServer') : RequestInv(toServer[p])'
  BY DEF ConnectionInv, MessagesInv, RequestInv, Known, Waits
<1>3. \A p \in 1 .. Len(reads') : RequestInv(reads[p])'
  BY DEF ConnectionInv, MessagesInv, RequestInv, Known, Waits
<1> QED
  BY <1>1, <1>2, <1>3

LEMMA LeavingKeeps ==
  ASSUME ViewerIsKnown, ViewerTyped, ConnectionInv, NEW c \in Callers, Leave(c),
         \/ calls[c].pc = "waiting"
         \/ calls[c].pc = "registered" /\ \A k \in Fifos : ~ Waits(k, calls[c].id),
         UNCHANGED << lastId, fifo, slot, toServer, toClient, reads >>,
         abandoned' = abandoned \/ abandoned' = abandoned \cup {calls[c].id},
         \/ \A k \in Fifos : ~ Waits(k, calls[c].id)
         \/ calls[c].id \in abandoned' /\ OnTheWay(calls[c].id)
  PROVE  ConnectionInv'
<1>0. /\ Idle.pc = "idle" /\ "idle" \notin Early
      /\ calls'[c] = Idle /\ \A d \in Callers : d # c => calls'[d] = calls[d]
  BY DEF Idle, Early, Leave, ViewerTyped
<1>1. PICK i \in Nat : i = calls[c].id /\ i # 0 /\ i <= lastId
  BY CallerFacts
<1>2. \A d \in Callers : d # c /\ calls[d].pc # "idle" => calls[d].id # i
  BY <1>1, CallerFacts
<1>3. \A j : OnTheWay(j)' <=> OnTheWay(j)
  BY QueuesStay
<1>4. \A d \in Callers : calls'[d].pc # "idle" => d # c /\ calls'[d] = calls[d]
  BY <1>0
<1>5. \A d \in Callers : d # c => (RefusedTo(d)' <=> RefusedTo(d))
  BY <1>0 DEF RefusedTo
<1>6. CallersInv'
  <2>1. \A j \in abandoned' : j \in Nat /\ j <= lastId
    BY <1>1 DEF ConnectionInv, CallersInv
  <2>2. ASSUME NEW d \in Callers, calls'[d].pc # "idle"
        PROVE  /\ calls'[d].id <= lastId /\ calls'[d].id \notin abandoned'
               /\ \A e \in Callers : calls'[e].pc # "idle" /\ calls'[e].id = calls'[d].id => d = e
               /\ calls'[d].pc = "checked" => calls'[d].errors = << >>
               /\ calls'[d].pc \in Early => ~ OnTheWay(calls[d].id)'
               /\ RefusedTo(d)' => calls'[d].pc = "waiting" /\ ~ OnTheWay(calls[d].id)'
    <3>1. d # c /\ calls'[d] = calls[d]
      BY <1>4, <2>2
    <3>2. calls[d].id # i
      BY <1>2, <2>2, <3>1
    <3>3. calls'[d].id <= lastId /\ calls'[d].id \notin abandoned'
      BY <1>1, <2>2, <3>1, <3>2, CallerFacts
    <3>4. \A e \in Callers : calls'[e].pc # "idle" /\ calls'[e].id = calls'[d].id => d = e
      BY <1>4, <2>2, <3>1, CallerFacts
    <3>5. PICK j : j = calls[d].id /\ j = calls'[d].id
      BY <3>1
    <3>6. calls'[d].pc \in Early => ~ OnTheWay(j)'
      BY <1>3, <2>2, <3>1, <3>5, CallerFacts
    <3>7. RefusedTo(d)' => calls'[d].pc = "waiting" /\ ~ OnTheWay(j)'
      BY <1>3, <1>5, <2>2, <3>1, <3>5, CallerFacts
    <3> QED
      BY <2>2, <3>1, <3>3, <3>4, <3>5, <3>6, <3>7, CallerFacts
  <2>3. \A j \in Nat : OnTheWay(j)' => j <= lastId
    BY <1>3 DEF ConnectionInv, CallersInv
  <2> QED
    BY <2>1, <2>2, <2>3 DEF CallersInv
<1>7. /\ \A j : j # i => (Unwritten(j)' <=> Unwritten(j))
      /\ \A j : Unwritten(j)' => Unwritten(j)
      /\ \A j : j # i => (Refused(j)' <=> Refused(j))
  <2>1. \A d \in Callers : d # c => (calls'[d].pc = "registered" <=> calls[d].pc = "registered")
    BY <1>0
  <2>2. /\ \A j : j # i => (Unwritten(j)' <=> Unwritten(j))
        /\ \A j : Unwritten(j)' => Unwritten(j)
    BY <1>0, <1>1, <2>1 DEF Unwritten, Holder
  <2>3. ASSUME NEW j, j # i PROVE Refused(j)' <=> Refused(j)
    BY <1>0, <1>1, <1>5, <2>3 DEF Refused, Holder
  <2> QED
    BY <2>2, <2>3
<1>8. WaitersInv'
  <2>1. ASSUME NEW k \in Fifos, NEW n \in 1 .. Len(fifo[k]) PROVE WaiterInv(fifo[k][n], k)'
    <3>1. PICK w : w = fifo[k][n] /\ w = fifo'[k][n]
      OBVIOUS
    <3>2. WaiterInv(w, k) /\ w.id # 0
      BY <3>1, WaitersAreTyped DEF ConnectionInv, WaitersInv
    <3>3. PICK j : j = w.id
      OBVIOUS
    <3>4. CASE j = i
      <4>1. Waits(k, i)
        BY <3>1, <3>3, <3>4 DEF Waits
      <4>2. i \in abandoned' /\ OnTheWay(i)'
        BY <1>1, <1>3, <4>1
      <4>3. WaiterInv(w, k)'
        BY <3>2, <3>3, <3>4, <4>2 DEF WaiterInv
      <4> QED
        BY <3>1, <4>3
    <3>5. CASE j # i
      <4>1. Unwritten(j)' \/ OnTheWay(j)' \/ Refused(j)'
        BY <1>3, <1>7, <3>2, <3>3, <3>5 DEF WaiterInv
      <4>2. \/ j \in abandoned'
            \/ \E d \in Callers : Holder(d, j, {"registered", "waiting"})' /\ calls'[d].ask = w.ask
        BY <1>0, <1>1, <3>2, <3>3, <3>5 DEF WaiterInv, Holder
      <4>3. WaiterInv(w, k)'
        BY <3>2, <3>3, <4>1, <4>2 DEF WaiterInv
      <4> QED
        BY <3>1, <4>3
    <3> QED
      BY <3>4, <3>5
  <2> QED
    BY <2>1 DEF WaitersInv
<1>9. FifoInv'
  <2>1. \A k, l \in Fifos : \A m \in 1 .. Len(fifo'[k]) : \A n \in 1 .. Len(fifo'[l]) :
          fifo'[k][m].id = fifo'[l][n].id => k = l /\ m = n
    BY DEF ConnectionInv, FifoInv
  <2>2. ASSUME NEW k \in Fifos, NEW m \in 1 .. Len(fifo[k]), NEW n \in 1 .. Len(fifo[k]),
               m < n, Unwritten(fifo[k][m].id)'
        PROVE  Unwritten(fifo[k][n].id)'
    <3>1. PICK j : j = fifo[k][n].id
      OBVIOUS
    <3>2. Unwritten(fifo[k][m].id)
      BY <1>7, <2>2
    <3>3. Unwritten(j)
      BY <2>2, <3>1, <3>2 DEF ConnectionInv, FifoInv
    <3>4. j # i
      <4>1. SUFFICES ASSUME j = i PROVE FALSE
        OBVIOUS
      <4>2. Waits(k, calls[c].id)
        BY <1>1, <3>1, <4>1 DEF Waits
      <4>3. calls[c].pc = "waiting"
        BY <4>2
      <4>4. ~ Unwritten(i)
        BY <1>1, <1>2, <4>3 DEF Unwritten, Holder
      <4> QED
        BY <3>3, <4>1, <4>4
    <3>5. Unwritten(j)'
      BY <1>7, <3>3, <3>4
    <3> QED
      BY <3>1, <3>5
  <2> QED
    BY <2>1, <2>2 DEF FifoInv
<1>10. SlotInv'
  <2>1. \A d \in Callers : calls'[d].pc \in Early => calls'[d] = calls[d]
    BY <1>0
  <2> QED
    BY <2>1 DEF ConnectionInv, SlotInv, Waits, Holder
<1>11. MessagesInv'
  <2>1. /\ \A p \in 1 .. Len(toClient') : AnswerInv(toClient[p])'
        /\ \A p \in 1 .. Len(toServer') : RequestInv(toServer[p])'
        /\ \A p \in 1 .. Len(reads') : RequestInv(reads[p])'
    BY MessagesStay
  <2>2. ASSUME NEW d \in Callers, calls'[d].pc = "registered" PROVE Known(calls[d].ask, calls[d].id)'
    <3>1. calls'[d] = calls[d]
      BY <1>4, <2>2
    <3> QED
      BY <2>2, <3>1 DEF ConnectionInv, MessagesInv, Known, Waits
  <2> QED
    BY <2>1, <2>2 DEF MessagesInv
<1>12. LineInv'
  BY QueuesStay DEF ConnectionInv, LineInv
<1> QED
  BY <1>6, <1>8, <1>9, <1>10, <1>11, <1>12 DEF ConnectionInv

\* A call that begins, or that subscribed to the errors, has a number of its own.
LEMMA OpeningKeeps ==
  ASSUME ViewerIsKnown, ViewerTyped, ConnectionInv, NEW c \in Callers, NEW x,
         calls[c].pc \in {"idle", "checked"}, x.pc \in {"checked", "subscribed"}, x.errors = << >>,
         calls'[c] = x, \A d \in Callers : d # c => calls'[d] = calls[d],
         UNCHANGED << fifo, slot, toServer, toClient, reads, abandoned >>,
         lastId' \in Nat, lastId <= lastId', x.id \in Nat, x.id # 0, x.id <= lastId',
         x.id \notin abandoned, ~ OnTheWay(x.id),
         \A d \in Callers : d # c /\ calls[d].pc # "idle" => calls[d].id # x.id,
         x.id \in 1 .. MaxAsks => slot[x.id] = NoReply
  PROVE  ConnectionInv'
<1>0. lastId \in Nat
  BY DEF ViewerTyped
<1>3. \A j : OnTheWay(j)' <=> OnTheWay(j)
  BY QueuesStay
<1>5. /\ ~ RefusedTo(c)'
      /\ \A d \in Callers : d # c => (RefusedTo(d)' <=> RefusedTo(d))
  BY DEF RefusedTo
<1>6. CallersInv'
  <2>1. ASSUME NEW j \in abandoned' PROVE j \in Nat /\ j <= lastId'
    <3>1. j \in Nat /\ j <= lastId
      BY <2>1 DEF ConnectionInv, CallersInv
    <3> QED
      BY <1>0, <3>1
  <2>2. ASSUME NEW d \in Callers, calls'[d].pc # "idle"
        PROVE  /\ calls'[d].id <= lastId' /\ calls'[d].id \notin abandoned'
               /\ \A e \in Callers : calls'[e].pc # "idle" /\ calls'[e].id = calls'[d].id => d = e
               /\ calls'[d].pc = "checked" => calls'[d].errors = << >>
               /\ calls'[d].pc \in Early => ~ OnTheWay(calls[d].id)'
               /\ RefusedTo(d)' => calls'[d].pc = "waiting" /\ ~ OnTheWay(calls[d].id)'
    <3>0. PICK j : j = calls'[d].id
      OBVIOUS
    <3>1. CASE d = c
      <4>1. j = x.id /\ ~ OnTheWay(j)'
        BY <1>3, <3>0, <3>1
      <4>2. \A e \in Callers : calls'[e].pc # "idle" /\ calls'[e].id = calls'[d].id => d = e
        BY <3>1
      <4> QED
        BY <1>5, <3>0, <3>1, <4>1, <4>2
    <3>2. CASE d # c
      <4>1. calls'[d] = calls[d] /\ calls[d].pc # "idle"
        BY <2>2, <3>2
      <4>2. \A e \in Callers : calls'[e].pc # "idle" /\ calls'[e].id = calls'[d].id => d = e
        <5>1. TAKE e \in Callers
        <5>2. CASE e = c
          BY <3>2, <4>1, <5>2
        <5>3. CASE e # c
          BY <4>1, <5>3, CallerFacts
        <5> QED
          BY <5>2, <5>3
      <4>3. j = calls[d].id /\ j \in Nat /\ j <= lastId
        BY <3>0, <4>1, CallerFacts
      <4>4. j <= lastId'
        BY <1>0, <4>3
      <4>5. /\ calls[d].pc \in Early => ~ OnTheWay(j)'
            /\ RefusedTo(d)' => calls[d].pc = "waiting" /\ ~ OnTheWay(j)'
            /\ j \notin abandoned /\ calls[d].pc = "checked" => calls[d].errors = << >>
        BY <1>3, <1>5, <3>2, <4>1, <4>3, CallerFacts
      <4>6. calls[d].id \notin abandoned /\ (calls[d].pc = "checked" => calls[d].errors = << >>)
        BY <4>1, CallerFacts
      <4> QED
        BY <3>0, <4>1, <4>2, <4>3, <4>4, <4>5, <4>6
    <3> QED
      BY <3>1, <3>2
  <2>3. ASSUME NEW j \in Nat, OnTheWay(j)' PROVE j <= lastId'
    <3>1. j <= lastId
      BY <1>3, <2>3 DEF ConnectionInv, CallersInv
    <3> QED
      BY <1>0, <3>1
  <2> QED
    BY <2>1, <2>2, <2>3 DEF CallersInv
<1>7. /\ \A j : Unwritten(j)' <=> Unwritten(j)
      /\ \A j : Refused(j)' <=> Refused(j)
  <2>1. \A d \in Callers : calls'[d].pc \in {"registered", "waiting"} \/ calls[d].pc \in {"registered", "waiting"}
                           => d # c /\ calls'[d] = calls[d]
    OBVIOUS
  <2>2. \A j : Unwritten(j)' <=> Unwritten(j)
    BY <2>1 DEF Unwritten, Holder
  <2>3. \A j : Refused(j)' <=> Refused(j)
    BY <1>5, <2>1 DEF Refused, Holder
  <2> QED
    BY <2>2, <2>3
<1>8. WaitersInv'
  <2>1. ASSUME NEW k \in Fifos, NEW n \in 1 .. Len(fifo[k]) PROVE WaiterInv(fifo[k][n], k)'
    <3>1. PICK w : w = fifo[k][n] /\ w = fifo'[k][n]
      OBVIOUS
    <3>2. WaiterInv(w, k)
      BY <3>1 DEF ConnectionInv, WaitersInv
    <3>3. PICK j : j = w.id
      OBVIOUS
    <3>4. Unwritten(j)' \/ OnTheWay(j)' \/ Refused(j)'
      BY <1>3, <1>7, <3>2, <3>3 DEF WaiterInv
    <3>5. \/ j \in abandoned'
          \/ \E d \in Callers : Holder(d, j, {"registered", "waiting"})' /\ calls'[d].ask = w.ask
      BY <3>2, <3>3 DEF WaiterInv, Holder
    <3>6. WaiterInv(w, k)'
      BY <3>2, <3>3, <3>4, <3>5 DEF WaiterInv
    <3> QED
      BY <3>1, <3>6
  <2> QED
    BY <2>1 DEF WaitersInv
<1>9. FifoInv'
  BY <1>7 DEF ConnectionInv, FifoInv
<1>10. SlotInv'
  <2>1. ASSUME NEW i \in 1 .. MaxAsks, slot[i] # NoReply
        PROVE  i <= lastId' /\ \A d \in Callers : ~ (calls'[d].pc \in Early /\ calls'[d].id = i)
    <3>1. i <= lastId /\ \A d \in Callers : ~ (calls[d].pc \in Early /\ calls[d].id = i)
      BY <2>1 DEF ConnectionInv, SlotInv, Holder
    <3>2. i # x.id
      BY <2>1
    <3> QED
      BY <1>0, <3>1, <3>2
  <2> QED
    BY <2>1 DEF ConnectionInv, SlotInv, Waits, Holder
<1>11. MessagesInv'
  <2>1. /\ \A p \in 1 .. Len(toClient') : AnswerInv(toClient[p])'
        /\ \A p \in 1 .. Len(toServer') : RequestInv(toServer[p])'
        /\ \A p \in 1 .. Len(reads') : RequestInv(reads[p])'
    BY MessagesStay
  <2>2. ASSUME NEW d \in Callers, calls'[d].pc = "registered" PROVE Known(calls[d].ask, calls[d].id)'
    <3>1. calls'[d] = calls[d]
      BY <2>2
    <3> QED
      BY <2>2, <3>1 DEF ConnectionInv, MessagesInv, Known, Waits
  <2> QED
    BY <2>1, <2>2 DEF MessagesInv
<1>12. LineInv'
  BY QueuesStay DEF ConnectionInv, LineInv
<1> QED
  BY <1>6, <1>8, <1>9, <1>10, <1>11, <1>12 DEF ConnectionInv

\* Registrations of ids that are not in line put nothing in order.
LEMMA LineWithout ==
  ASSUME NEW f, NEW g, NEW back, NEW read, NEW sent, InLine(f, back, read, sent), NEW i,
         \A p \in 1 .. Len(back) : back[p] # i,
         \A p \in 1 .. Len(read) : read[p] # i,
         \A p \in 1 .. Len(sent) : sent[p] # i,
         \A x, y : x # i /\ y # i /\ Ahead(g, x, y) => Ahead(f, x, y)
  PROVE  InLine(g, back, read, sent)
<1>1. \A x, y : x # i /\ y # i /\ Fits(f, x, y) => Fits(g, x, y)
  BY DEF Fits
<1>2. Lined(g, back) /\ Lined(g, read) /\ Lined(g, sent)
  BY <1>1 DEF InLine, Lined
<1>3. Across(g, back, read) /\ Across(g, back, sent) /\ Across(g, read, sent)
  BY <1>1 DEF InLine, Across
<1> QED
  BY <1>2, <1>3 DEF InLine

\* Nobody waits under the id of a call that has not registered.
LEMMA NotRegisteredYet ==
  ASSUME ViewerIsKnown, ViewerTyped, ConnectionInv, NEW c \in Callers, calls[c].pc = "subscribed",
         NEW k \in Fifos, NEW n \in 1 .. Len(fifo[k])
  PROVE  fifo[k][n].id # calls[c].id
<1>1. PICK w : w = fifo[k][n]
  OBVIOUS
<1>2. WaiterInv(w, k)
  BY <1>1 DEF ConnectionInv, WaitersInv
<1>3. SUFFICES ASSUME w.id = calls[c].id PROVE FALSE
  BY <1>1
<1>4. w.id \notin abandoned
  BY <1>3, CallerFacts
<1>5. PICK d \in Callers : calls[d].pc \in {"registered", "waiting"} /\ calls[d].id = w.id
  BY <1>2, <1>4 DEF WaiterInv, Holder
<1>6. c = d
  BY <1>3, <1>5, CallerFacts
<1> QED
  BY <1>5, <1>6

LEMMA RegisteringKeeps ==
  ASSUME ViewerIsKnown, ViewerTyped, ViewerTyped', ConnectionInv, NEW c \in Callers, Register(c),
         UNCHANGED << lastId, slot, toServer, toClient, reads, abandoned >>
  PROVE  ConnectionInv'
<1>1. calls[c].pc = "subscribed" /\ Move(c, "registered")
  BY DEF Register, At
<1>2. PICK x \in ViewerCalls :
        /\ calls' = [calls EXCEPT ![c] = x] /\ x.pc = "registered" /\ x.ask = calls[c].ask
        /\ x.id = calls[c].id /\ x.errors = calls[c].errors /\ x.frame = calls[c].frame
  BY <1>1, MoveIsAChange
<1>3. calls'[c] = x /\ \A d \in Callers : d # c => calls'[d] = calls[d]
  BY <1>2 DEF ViewerTyped
<1>4. /\ calls[c].id \in Nat /\ calls[c].ask \in Askable /\ calls[c].id # 0 /\ calls[c].id <= lastId
      /\ calls[c].id \notin abandoned /\ ~ OnTheWay(calls[c].id) /\ ~ RefusedTo(c)
      /\ \A d \in Callers : calls[d].pc # "idle" /\ calls[d].id = calls[c].id => c = d
  BY <1>1, CallerFacts DEF Early
<1>5. PICK i \in Nat : i = calls[c].id /\ i # 0 /\ i = x.id
  BY <1>2, <1>4
<1>6. PICK ask \in Askable : ask = calls[c].ask /\ ask = x.ask
  BY <1>2, <1>4
<1>7. PICK k : k = FifoOf(ask)
  OBVIOUS
<1>8. PICK w : w = [id |-> i, ask |-> ask]
  OBVIOUS
<1>9. w.id = i /\ w.ask = ask /\ w \in Waiters /\ (ask # "frame" => k \in Fifos)
  BY <1>5, <1>6, <1>7, <1>8, FifosOfAsks DEF Waiters, Askable
<1>10. \A l \in Fifos : \/ fifo'[l] = fifo[l] /\ (ask = "frame" \/ l # k)
                        \/ l = k /\ ask # "frame" /\ Grew(fifo'[l], fifo[l], w)
  <2>1. fifo \in [Fifos -> Seq(Waiters)]
    BY DEF ViewerTyped
  <2>2. fifo' = IF ask = "frame" THEN fifo ELSE [fifo EXCEPT ![k] = Append(fifo[k], w)]
    BY <1>5, <1>6, <1>7, <1>8 DEF Register
  <2>3. ASSUME ask # "frame" PROVE Grew(Append(fifo[k], w), fifo[k], w)
    BY <1>9, <2>1, <2>3, AppendGrows
  <2> QED
    BY <2>1, <2>2, <2>3
<1>11. \A l \in Fifos : \A n \in 1 .. Len(fifo'[l]) :
         \/ n \in 1 .. Len(fifo[l]) /\ fifo'[l][n] = fifo[l][n]
         \/ l = k /\ ask # "frame" /\ n = Len(fifo[l]) + 1 /\ fifo'[l][n] = w
  BY <1>10 DEF Grew
<1>12. \A l \in Fifos : \A n \in 1 .. Len(fifo[l]) : n \in 1 .. Len(fifo'[l]) /\ fifo'[l][n] = fifo[l][n]
  BY <1>10 DEF Grew
<1>13. \A l \in Fifos : \A n \in 1 .. Len(fifo[l]) : fifo[l][n].id # i
  BY <1>1, <1>5, NotRegisteredYet
<1>14. \A j : OnTheWay(j)' <=> OnTheWay(j)
  BY QueuesStay
<1>15. /\ ~ RefusedTo(c)' /\ \A d \in Callers : d # c => (RefusedTo(d)' <=> RefusedTo(d))
  BY <1>2, <1>3, <1>4 DEF RefusedTo
<1>16. /\ \A j : Unwritten(j)' <=> Unwritten(j) \/ j = i
       /\ \A j : Refused(j)' <=> Refused(j)
  <2>1. \A j : Unwritten(j)' <=> Unwritten(j) \/ j = i
    BY <1>1, <1>2, <1>3, <1>5 DEF Unwritten, Holder
  <2>2. \A j : Refused(j)' <=> Refused(j)
    BY <1>1, <1>2, <1>3, <1>15 DEF Refused, Holder
  <2> QED
    BY <2>1, <2>2
<1>17. CallersInv'
  <2>1. ASSUME NEW d \in Callers, calls'[d].pc # "idle"
        PROVE  /\ calls'[d].id <= lastId /\ calls'[d].id \notin abandoned
               /\ \A e \in Callers : calls'[e].pc # "idle" /\ calls'[e].id = calls'[d].id => d = e
               /\ calls'[d].pc = "checked" => calls'[d].errors = << >>
               /\ calls'[d].pc \in Early => ~ OnTheWay(calls[d].id)'
               /\ RefusedTo(d)' => calls'[d].pc = "waiting" /\ ~ OnTheWay(calls[d].id)'
    <3>1. calls'[d].id = calls[d].id /\ calls[d].pc # "idle" /\ (d # c => calls'[d] = calls[d])
      BY <1>1, <1>2, <1>3, <2>1
    <3>2. \A e \in Callers : calls'[e].pc # "idle" => calls[e].pc # "idle" /\ calls'[e].id = calls[e].id
      BY <1>1, <1>2, <1>3
    <3>3. PICK j : j = calls[d].id /\ j = calls'[d].id
      BY <3>1
    <3>4. /\ j <= lastId /\ j \notin abandoned
          /\ \A e \in Callers : calls'[e].pc # "idle" /\ calls'[e].id = calls'[d].id => d = e
      BY <3>1, <3>2, <3>3, CallerFacts
    <3>5. calls'[d].pc = "checked" => calls'[d].errors = << >>
      BY <1>2, <1>3, <3>1, CallerFacts
    <3>6. calls'[d].pc \in Early => ~ OnTheWay(j)'
      BY <1>1, <1>3, <1>4, <1>14, <3>1, <3>3, CallerFacts
    <3>7. RefusedTo(d)' => calls'[d].pc = "waiting" /\ ~ OnTheWay(j)'
      BY <1>14, <1>15, <3>1, <3>3, CallerFacts
    <3> QED
      BY <3>3, <3>4, <3>5, <3>6, <3>7
  <2>2. \A j \in Nat : OnTheWay(j)' => j <= lastId
    BY <1>14 DEF ConnectionInv, CallersInv
  <2> QED
    BY <2>1, <2>2 DEF ConnectionInv, CallersInv
<1>18. WaitersInv'
  <2>1. ASSUME NEW l \in Fifos, NEW n \in 1 .. Len(fifo'[l]) PROVE WaiterInv(fifo[l][n], l)'
    <3>1. PICK v : v = fifo'[l][n]
      OBVIOUS
    <3>2. CASE n \in 1 .. Len(fifo[l]) /\ v = fifo[l][n]
      <4>1. WaiterInv(v, l)
        BY <3>2 DEF ConnectionInv, WaitersInv
      <4>2. PICK j : j = v.id
        OBVIOUS
      <4>3. Unwritten(j)' \/ OnTheWay(j)' \/ Refused(j)'
        BY <1>14, <1>16, <4>1, <4>2 DEF WaiterInv
      <4>4. \/ j \in abandoned'
            \/ \E d \in Callers : Holder(d, j, {"registered", "waiting"})' /\ calls'[d].ask = v.ask
        BY <1>1, <1>3, <4>1, <4>2 DEF WaiterInv, Holder
      <4>5. WaiterInv(v, l)'
        BY <4>1, <4>2, <4>3, <4>4 DEF WaiterInv
      <4> QED
        BY <3>1, <4>5
    <3>3. CASE l = k /\ ask # "frame" /\ v = w
      <4>1. Unwritten(i)'
        BY <1>16
      <4>2. Holder(c, i, {"registered", "waiting"})' /\ calls'[c].ask = ask
        BY <1>2, <1>3, <1>5, <1>6 DEF Holder
      <4>3. WaiterInv(v, l)'
        BY <1>7, <1>9, <3>3, <4>1, <4>2 DEF WaiterInv
      <4> QED
        BY <3>1, <4>3
    <3> QED
      BY <1>11, <2>1, <3>1, <3>2, <3>3
  <2> QED
    BY <2>1 DEF WaitersInv
<1>19. FifoInv'
  <2>1. ASSUME NEW l \in Fifos, NEW h \in Fifos, NEW n \in 1 .. Len(fifo'[l]), NEW m \in 1 .. Len(fifo'[h]),
               fifo'[l][n].id = fifo'[h][m].id
        PROVE  l = h /\ n = m
    <3>1. CASE n \in 1 .. Len(fifo[l]) /\ fifo'[l][n] = fifo[l][n] /\ m \in 1 .. Len(fifo[h]) /\ fifo'[h][m] = fifo[h][m]
      BY <2>1, <3>1 DEF ConnectionInv, FifoInv
    <3>2. CASE n \in 1 .. Len(fifo[l]) /\ fifo'[l][n] = fifo[l][n] /\ fifo'[h][m] = w
      BY <1>9, <1>13, <2>1, <3>2
    <3>3. CASE m \in 1 .. Len(fifo[h]) /\ fifo'[h][m] = fifo[h][m] /\ fifo'[l][n] = w
      BY <1>9, <1>13, <2>1, <3>3
    <3>4. CASE l = k /\ h = k /\ n = Len(fifo[l]) + 1 /\ m = Len(fifo[h]) + 1
      BY <3>4
    <3> QED
      BY <1>11, <2>1, <3>1, <3>2, <3>3, <3>4
  <2>2. ASSUME NEW l \in Fifos, NEW n \in 1 .. Len(fifo'[l]), NEW m \in 1 .. Len(fifo'[l]),
               n < m, Unwritten(fifo[l][n].id)'
        PROVE  Unwritten(fifo[l][m].id)'
    <3>0. PICK a, b : a = fifo'[l][n].id /\ b = fifo'[l][m].id
      OBVIOUS
    <3>1. CASE fifo'[l][m] = w
      BY <1>9, <1>16, <3>1
    <3>2. CASE m \in 1 .. Len(fifo[l]) /\ fifo'[l][m] = fifo[l][m]
      <4>1. Len(fifo[l]) \in Nat
        BY <3>2, WaitersAreTyped
      <4>2. n \in 1 .. Len(fifo[l]) /\ fifo'[l][n] = fifo[l][n]
        BY <1>11, <2>2, <3>2, <4>1
      <4>3. Unwritten(a) \/ a = i
        BY <1>16, <2>2, <3>0
      <4>4. Unwritten(a)
        BY <1>13, <3>0, <4>2, <4>3
      <4>5. Unwritten(b)
        BY <2>2, <3>0, <3>2, <4>2, <4>4 DEF ConnectionInv, FifoInv
      <4> QED
        BY <1>16, <3>0, <4>5
    <3> QED
      BY <1>11, <2>2, <3>1, <3>2
  <2> QED
    BY <2>1, <2>2 DEF FifoInv
<1>20. \A j : j # i => \A l \in Fifos : Waits(l, j)' <=> Waits(l, j)
  <2>1. ASSUME NEW j, j # i, NEW l \in Fifos PROVE Waits(l, j)' <=> Waits(l, j)
    <3>1. ASSUME NEW n \in 1 .. Len(fifo'[l]), fifo'[l][n].id = j PROVE \E m \in 1 .. Len(fifo[l]) : fifo[l][m].id = j
      BY <1>9, <1>11, <2>1, <3>1
    <3>2. ASSUME NEW n \in 1 .. Len(fifo[l]), fifo[l][n].id = j PROVE \E m \in 1 .. Len(fifo'[l]) : fifo'[l][m].id = j
      BY <1>12, <3>2
    <3> QED
      BY <3>1, <3>2 DEF Waits
  <2> QED
    BY <2>1
<1>21. ASSUME NEW j, j # i, NEW as, Known(as, j), as # "frame" => FifoOf(as) \in Fifos PROVE Known(as, j)'
  <2>1. \A l \in Fifos : \A n \in 1 .. Len(fifo'[l]) : fifo'[l][n].id = j => fifo'[l][n].ask = as
    BY <1>9, <1>11, <1>21 DEF Known
  <2> QED
    BY <1>20, <1>21, <2>1 DEF Known
<1>22. MessagesInv'
  <2>0. ASSUME NEW m \in Requests, RequestInv(m), m.id # i PROVE RequestInv(m)'
    <3>1. CASE m.ask \in {"input", "bye"}
      BY <2>0, <3>1 DEF RequestInv
    <3>2. CASE m.ask \notin {"input", "bye"}
      <4>1. m.ask \in Reads \cup Controls \cup {"launch"}
        BY <3>2 DEF Requests
      <4>2. m.id # 0 /\ Known(m.ask, m.id)
        BY <2>0, <3>2 DEF RequestInv
      <4>3. Known(m.ask, m.id)'
        BY <1>21, <2>0, <4>1, <4>2, FifosOfAsks
      <4> QED
        BY <3>2, <4>2, <4>3 DEF RequestInv
    <3> QED
      BY <3>1, <3>2
  <2>1. ASSUME NEW p \in 1 .. Len(toServer) PROVE RequestInv(toServer[p])'
    <3>1. PICK m \in Requests : m = toServer[p] /\ m = toServer'[p]
      BY DEF ViewerTyped
    <3>2. RequestInv(m)
      BY <3>1 DEF ConnectionInv, MessagesInv
    <3>3. m.id # i
      BY <1>4, <1>5, <3>1 DEF OnTheWay, AsksFor, RepliesTo
    <3>4. RequestInv(m)'
      BY <2>0, <3>2, <3>3
    <3> QED
      BY <3>1, <3>4
  <2>2. ASSUME NEW p \in 1 .. Len(reads) PROVE RequestInv(reads[p])'
    <3>1. PICK m \in Requests : m = reads[p] /\ m = reads'[p]
      BY DEF ViewerTyped
    <3>2. RequestInv(m)
      BY <3>1 DEF ConnectionInv, MessagesInv
    <3>3. m.id # i
      BY <1>4, <1>5, <3>1 DEF OnTheWay, AsksFor, RepliesTo
    <3>4. RequestInv(m)'
      BY <2>0, <3>2, <3>3
    <3> QED
      BY <3>1, <3>4
  <2>3. ASSUME NEW p \in 1 .. Len(toClient) PROVE AnswerInv(toClient[p])'
    <3>1. PICK m : m = toClient[p] /\ m = toClient'[p]
      OBVIOUS
    <3>2. AnswerInv(m)
      BY <3>1 DEF ConnectionInv, MessagesInv
    <3>3. m.re # i
      BY <1>4, <1>5, <3>1 DEF OnTheWay, AsksFor, RepliesTo
    <3>4. AnswerInv(m)'
      BY <1>20, <3>2, <3>3 DEF AnswerInv
    <3> QED
      BY <3>1, <3>4
  <2>4. ASSUME NEW d \in Callers, calls'[d].pc = "registered" PROVE Known(calls[d].ask, calls[d].id)'
    <3>1. CASE d = c
      <4>1. \A l \in Fifos : \A n \in 1 .. Len(fifo'[l]) : fifo'[l][n].id = i => fifo'[l][n].ask = ask
        BY <1>9, <1>11, <1>13
      <4>2. ASSUME ask # "frame" PROVE \E n \in 1 .. Len(fifo'[k]) : fifo'[k][n].id = i
        <5>1. Grew(fifo'[k], fifo[k], w)
          BY <1>9, <1>10, <4>2
        <5>2. PICK n \in 1 .. Len(fifo'[k]) : fifo'[k][n] = w
          BY <5>1, GrownHas
        <5> QED
          BY <1>9, <5>2
      <4>3. Known(ask, i)'
        BY <1>7, <4>1, <4>2 DEF Known, Waits
      <4> QED
        BY <1>3, <1>5, <1>6, <3>1, <4>3
    <3>2. CASE d # c
      <4>1. calls'[d] = calls[d]
        BY <1>3, <3>2
      <4>2. PICK as, j : as = calls[d].ask /\ j = calls[d].id
        OBVIOUS
      <4>3. as \in Askable /\ j # i
        BY <1>4, <1>5, <2>4, <3>2, <4>1, <4>2, CallerFacts
      <4>4. Known(as, j)
        BY <2>4, <4>1, <4>2 DEF ConnectionInv, MessagesInv
      <4>5. Known(as, j)'
        BY <1>21, <4>3, <4>4, FifosOfAsks DEF ViewerIsKnown, Askable
      <4> QED
        BY <4>1, <4>2, <4>5
    <3> QED
      BY <3>1, <3>2
  <2> QED
    BY <2>1, <2>2, <2>3, <2>4 DEF MessagesInv
<1>23. SlotInv'
  <2>1. ASSUME NEW j \in 1 .. MaxAsks, slot[j] # NoReply
        PROVE  /\ j <= lastId /\ \A l \in Fifos : ~ Waits(l, j)'
               /\ \A d \in Callers : ~ (calls'[d].pc \in Early /\ calls'[d].id = j)
    <3>1. /\ j <= lastId /\ \A l \in Fifos : ~ Waits(l, j)
          /\ \A d \in Callers : ~ (calls[d].pc \in Early /\ calls[d].id = j)
      BY <2>1 DEF ConnectionInv, SlotInv, Holder
    <3>2. j # i
      BY <1>1, <1>5, <3>1 DEF Early
    <3>3. \A d \in Callers : ~ (calls'[d].pc \in Early /\ calls'[d].id = j)
      BY <1>3, <1>5, <3>1, <3>2
    <3> QED
      BY <1>20, <3>1, <3>2, <3>3
  <2> QED
    BY <2>1 DEF SlotInv, Holder
<1>24. LineInv'
  <2>1. ASSUME NEW a, NEW b, a # i, b # i, Ahead(fifo', a, b) PROVE Ahead(fifo, a, b)
    <3>1. PICK l \in Fifos : \E n, m \in 1 .. Len(fifo'[l]) : n < m /\ fifo'[l][n].id = a /\ fifo'[l][m].id = b
      BY <2>1 DEF Ahead
    <3>2. PICK n \in 1 .. Len(fifo'[l]), m \in 1 .. Len(fifo'[l]) :
            n < m /\ fifo'[l][n].id = a /\ fifo'[l][m].id = b
      BY <3>1
    <3>3. /\ n \in 1 .. Len(fifo[l]) /\ m \in 1 .. Len(fifo[l])
          /\ fifo[l][n].id = a /\ fifo[l][m].id = b
      BY <1>9, <1>11, <2>1, <3>2
    <3> QED
      BY <3>2, <3>3 DEF Ahead
  <2>2. /\ InLine(fifo, AnswersIn(toClient), IdsOf(reads), IdsOf(toServer))
        /\ \A p \in 1 .. Len(AnswersIn(toClient)) : AnswersIn(toClient)[p] # i
        /\ \A p \in 1 .. Len(IdsOf(reads)) : IdsOf(reads)[p] # i
        /\ \A p \in 1 .. Len(IdsOf(toServer)) : IdsOf(toServer)[p] # i
    BY <1>4, <1>5, LineOfIds DEF OnTheWay, AsksFor, RepliesTo
  <2>3. InLine(fifo', AnswersIn(toClient), IdsOf(reads), IdsOf(toServer))
    BY <2>1, <2>2, LineWithout
  <2> QED
    BY <2>3, QueuesStay DEF LineInv
<1> QED
  BY <1>17, <1>18, <1>19, <1>22, <1>23, <1>24 DEF ConnectionInv

\* A request that was sent is on the way as well.
LEMMA SentHas ==
  ASSUME NEW r, Grew(toServer', toServer, r), UNCHANGED << toClient, reads, fifo >>, ConnectionInv,
         RequestInv(r)
  PROVE  /\ \A j : OnTheWay(j)' <=> OnTheWay(j) \/ j = r.id
         /\ \A p \in 1 .. Len(toClient') : AnswerInv(toClient[p])'
         /\ \A p \in 1 .. Len(toServer') : RequestInv(toServer[p])'
         /\ \A p \in 1 .. Len(reads') : RequestInv(reads[p])'
<1>1. \A j : AsksFor(toServer', j) <=> (r.id = j \/ AsksFor(toServer, j))
  BY GrownRequests
<1>2. \A j : OnTheWay(j)' <=> OnTheWay(j) \/ j = r.id
  BY <1>1 DEF OnTheWay, AsksFor, RepliesTo
<1>3. \A m : RequestInv(m)' <=> RequestInv(m)
  BY RequestsStay
<1>4. \A p \in 1 .. Len(toServer') : toServer'[p] = r \/ \E q \in 1 .. Len(toServer) : toServer'[p] = toServer[q]
  BY GrownHas
<1>5. ASSUME NEW p \in 1 .. Len(toServer') PROVE RequestInv(toServer[p])'
  <2>1. PICK m : m = toServer'[p]
    OBVIOUS
  <2>2. RequestInv(m)
    BY <1>4, <2>1 DEF ConnectionInv, MessagesInv
  <2>3. RequestInv(m)'
    BY <1>3, <2>2
  <2> QED
    BY <2>1, <2>3
<1>6. \A p \in 1 .. Len(toClient') : AnswerInv(toClient[p])'
  BY DEF ConnectionInv, MessagesInv, AnswerInv, Waits
<1>7. ASSUME NEW p \in 1 .. Len(reads') PROVE RequestInv(reads[p])'
  <2>1. PICK m : m = reads[p]
    OBVIOUS
  <2>2. RequestInv(m)
    BY <2>1 DEF ConnectionInv, MessagesInv
  <2>3. RequestInv(m)'
    BY <1>3, <2>2
  <2> QED
    BY <2>1, <2>3
<1> QED
  BY <1>2, <1>5, <1>6, <1>7

\* A request is written behind those that registered before it.
LEMMA SendingKeeps ==
  ASSUME ViewerIsKnown, ViewerTyped, ViewerTyped', ConnectionInv, NEW c \in Callers, calls[c].pc = "registered",
         toServer' = Append(toServer, [ask |-> calls[c].ask, id |-> calls[c].id]),
         Move(c, "waiting"), ~ Overtakes(c),
         UNCHANGED << lastId, fifo, slot, toClient, reads, abandoned >>
  PROVE  ConnectionInv'
<1>1. calls[c].pc = "registered" /\ toServer \in Seq(Requests)
  BY DEF ViewerTyped
<1>2. PICK x \in ViewerCalls :
        /\ calls' = [calls EXCEPT ![c] = x] /\ x.pc = "waiting" /\ x.ask = calls[c].ask
        /\ x.id = calls[c].id /\ x.errors = calls[c].errors /\ x.frame = calls[c].frame
  BY MoveIsAChange
<1>3. calls'[c] = x /\ \A d \in Callers : d # c => calls'[d] = calls[d]
  BY <1>2 DEF ViewerTyped
<1>4. /\ calls[c].id \in Nat /\ calls[c].ask \in Askable /\ calls[c].id # 0 /\ calls[c].id <= lastId
      /\ calls[c].id \notin abandoned /\ ~ OnTheWay(calls[c].id) /\ ~ RefusedTo(c)
      /\ \A d \in Callers : calls[d].pc # "idle" /\ calls[d].id = calls[c].id => c = d
  BY <1>1, CallerFacts DEF Early
<1>5. PICK i \in Nat : i = calls[c].id /\ i # 0 /\ i = x.id
  BY <1>2, <1>4
<1>6. PICK ask \in Askable : ask = calls[c].ask /\ ask = x.ask
  BY <1>2, <1>4
<1>7. PICK r : r = [ask |-> ask, id |-> i]
  OBVIOUS
<1>8. r \in Requests /\ r.id = i /\ r.ask = ask /\ ask \notin {"input", "bye"}
  BY <1>7 DEF Requests, Askable, Reads, Controls
<1>9. toServer' = Append(toServer, r)
  BY <1>5, <1>6, <1>7
<1>10. Grew(toServer', toServer, r)
  BY <1>1, <1>8, <1>9, AppendGrows
<1>11. Grew(IdsOf(toServer'), IdsOf(toServer), i)
  BY <1>1, <1>8, <1>9, MoreRequests
<1>12. RequestInv(r)
  BY <1>1, <1>5, <1>6, <1>8 DEF RequestInv, ConnectionInv, MessagesInv
<1>13. /\ \A j : OnTheWay(j)' <=> OnTheWay(j) \/ j = r.id
       /\ \A p \in 1 .. Len(toClient') : AnswerInv(toClient[p])'
       /\ \A p \in 1 .. Len(toServer') : RequestInv(toServer[p])'
       /\ \A p \in 1 .. Len(reads') : RequestInv(reads[p])'
  BY <1>10, <1>12, SentHas
<1>14. \A j : OnTheWay(j)' <=> OnTheWay(j) \/ j = i
  BY <1>8, <1>13
<1>15. /\ ~ RefusedTo(c)' /\ \A d \in Callers : d # c => (RefusedTo(d)' <=> RefusedTo(d))
  BY <1>2, <1>3, <1>4 DEF RefusedTo
<1>16. /\ \A j : Unwritten(j)' <=> Unwritten(j) /\ j # i
       /\ \A j : Refused(j)' <=> Refused(j)
       /\ Unwritten(i)
  <2>1. ASSUME NEW j PROVE Unwritten(j)' <=> Unwritten(j) /\ j # i
    <3>1. ASSUME Unwritten(j)' PROVE Unwritten(j) /\ j # i
      <4>1. PICK d \in Callers : calls'[d].pc = "registered" /\ calls'[d].id = j
        BY <3>1 DEF Unwritten, Holder
      <4>2. d # c /\ calls'[d] = calls[d]
        BY <1>2, <1>3, <4>1
      <4> QED
        BY <1>4, <1>5, <4>1, <4>2 DEF Unwritten, Holder
    <3>2. ASSUME Unwritten(j), j # i PROVE Unwritten(j)'
      <4>1. PICK d \in Callers : calls[d].pc = "registered" /\ calls[d].id = j
        BY <3>2 DEF Unwritten, Holder
      <4>2. calls'[d] = calls[d]
        BY <1>3, <1>5, <3>2, <4>1
      <4> QED
        BY <4>1, <4>2 DEF Unwritten, Holder
    <3> QED
      BY <3>1, <3>2
  <2>2. \A j : Refused(j)' <=> Refused(j)
    BY <1>1, <1>3, <1>15 DEF Refused, Holder
  <2>3. Unwritten(i)
    BY <1>1, <1>5 DEF Unwritten, Holder
  <2> QED
    BY <2>1, <2>2, <2>3
<1>17. CallersInv'
  <2>1. ASSUME NEW d \in Callers, calls'[d].pc # "idle"
        PROVE  /\ calls'[d].id <= lastId /\ calls'[d].id \notin abandoned
               /\ \A e \in Callers : calls'[e].pc # "idle" /\ calls'[e].id = calls'[d].id => d = e
               /\ calls'[d].pc = "checked" => calls'[d].errors = << >>
               /\ calls'[d].pc \in Early => ~ OnTheWay(calls[d].id)'
               /\ RefusedTo(d)' => calls'[d].pc = "waiting" /\ ~ OnTheWay(calls[d].id)'
    <3>1. calls'[d].id = calls[d].id /\ calls[d].pc # "idle" /\ (d # c => calls'[d] = calls[d])
      BY <1>1, <1>2, <1>3, <2>1
    <3>2. \A e \in Callers : calls'[e].pc # "idle" => calls[e].pc # "idle" /\ calls'[e].id = calls[e].id
      BY <1>1, <1>2, <1>3
    <3>3. PICK j : j = calls[d].id /\ j = calls'[d].id /\ (d # c => j # i)
      BY <1>4, <1>5, <3>1
    <3>4. /\ j <= lastId /\ j \notin abandoned
          /\ \A e \in Callers : calls'[e].pc # "idle" /\ calls'[e].id = calls'[d].id => d = e
      BY <3>1, <3>2, <3>3, CallerFacts
    <3>5. calls'[d].pc = "checked" => calls'[d].errors = << >>
      BY <1>2, <1>3, <3>1, CallerFacts
    <3>6. calls'[d].pc \in Early => ~ OnTheWay(j)'
      BY <1>2, <1>3, <1>14, <3>1, <3>3, CallerFacts DEF Early
    <3>7. RefusedTo(d)' => calls'[d].pc = "waiting" /\ ~ OnTheWay(j)'
      BY <1>14, <1>15, <3>1, <3>3, CallerFacts
    <3> QED
      BY <3>3, <3>4, <3>5, <3>6, <3>7
  <2>2. \A j \in Nat : OnTheWay(j)' => j <= lastId
    BY <1>4, <1>5, <1>14 DEF ConnectionInv, CallersInv
  <2> QED
    BY <2>1, <2>2 DEF ConnectionInv, CallersInv
<1>18. WaitersInv'
  <2>1. ASSUME NEW l \in Fifos, NEW n \in 1 .. Len(fifo[l]) PROVE WaiterInv(fifo[l][n], l)'
    <3>1. PICK v : v = fifo[l][n] /\ v = fifo'[l][n]
      OBVIOUS
    <3>2. WaiterInv(v, l)
      BY <3>1 DEF ConnectionInv, WaitersInv
    <3>3. PICK j : j = v.id
      OBVIOUS
    <3>4. Unwritten(j)' \/ OnTheWay(j)' \/ Refused(j)'
      BY <1>14, <1>16, <3>2, <3>3 DEF WaiterInv
    <3>5. \/ j \in abandoned'
          \/ \E d \in Callers : Holder(d, j, {"registered", "waiting"})' /\ calls'[d].ask = v.ask
      BY <1>1, <1>2, <1>3, <3>2, <3>3 DEF WaiterInv, Holder
    <3>6. WaiterInv(v, l)'
      BY <3>2, <3>3, <3>4, <3>5 DEF WaiterInv
    <3> QED
      BY <3>1, <3>6
  <2> QED
    BY <2>1 DEF WaitersInv
<1>19. FifoInv'
  <2>1. ASSUME NEW l \in Fifos, NEW n \in 1 .. Len(fifo[l]), NEW m \in 1 .. Len(fifo[l]),
               n < m, Unwritten(fifo[l][n].id)'
        PROVE  Unwritten(fifo[l][m].id)'
    <3>0. PICK a, b : a = fifo[l][n].id /\ b = fifo[l][m].id
      OBVIOUS
    <3>1. Unwritten(a) /\ Unwritten(b)
      BY <1>16, <2>1, <3>0 DEF ConnectionInv, FifoInv
    <3>2. b # i
      <4>1. SUFFICES ASSUME b = i PROVE FALSE
        OBVIOUS
      <4>2. PICK d \in Callers : calls[d].pc = "registered" /\ calls[d].id = a
        BY <3>1 DEF Unwritten, Holder
      <4>3. At(d, "registered") /\ calls[d].id = fifo[l][n].id /\ fifo[l][m].id = calls[c].id
        BY <1>5, <3>0, <4>1, <4>2 DEF At
      <4>4. fifo[l] \in Seq(Waiters)
        BY DEF ViewerTyped
      <4>5. n \in DOMAIN fifo[l] /\ m \in DOMAIN fifo[l]
        BY <4>4
      <4>6. Overtakes(c)
        BY <2>1, <4>3, <4>5 DEF Overtakes
      <4> QED
        BY <4>6
    <3> QED
      BY <1>16, <3>0, <3>1, <3>2
  <2> QED
    BY <2>1 DEF ConnectionInv, FifoInv
<1>20. MessagesInv'
  <2>1. ASSUME NEW d \in Callers, calls'[d].pc = "registered" PROVE Known(calls[d].ask, calls[d].id)'
    <3>1. calls'[d] = calls[d]
      BY <1>2, <1>3, <2>1
    <3> QED
      BY <2>1, <3>1 DEF ConnectionInv, MessagesInv, Known, Waits
  <2> QED
    BY <1>13, <2>1 DEF MessagesInv
<1>21. SlotInv'
  <2>1. \A d \in Callers : calls'[d].pc \in Early => calls'[d] = calls[d]
    BY <1>2, <1>3 DEF Early
  <2> QED
    BY <2>1 DEF ConnectionInv, SlotInv, Waits, Holder
<1>22. LineInv'
  <2>1. ASSUME NEW j, OnTheWay(j) PROVE Fits(fifo, j, i)
    <3>1. j # i
      BY <1>4, <1>5, <2>1
    <3>2. SUFFICES ASSUME Ahead(fifo, i, j) PROVE FALSE
      BY <3>1 DEF Fits
    <3>3. PICK l \in Fifos : \E n, m \in 1 .. Len(fifo[l]) : n < m /\ fifo[l][n].id = i /\ fifo[l][m].id = j
      BY <3>2 DEF Ahead
    <3>4. PICK n \in 1 .. Len(fifo[l]), m \in 1 .. Len(fifo[l]) : n < m /\ fifo[l][n].id = i /\ fifo[l][m].id = j
      BY <3>3
    <3>5. Unwritten(j)
      BY <1>16, <3>4 DEF ConnectionInv, FifoInv
    <3>6. PICK d \in Callers : calls[d].pc = "registered" /\ calls[d].id = j
      BY <3>5 DEF Unwritten, Holder
    <3> QED
      BY <2>1, <3>6, CallerFacts DEF Early
  <2>2. /\ \A p \in 1 .. Len(AnswersIn(toClient)) : Fits(fifo, AnswersIn(toClient)[p], i)
        /\ \A p \in 1 .. Len(IdsOf(reads)) : Fits(fifo, IdsOf(reads)[p], i)
        /\ \A p \in 1 .. Len(IdsOf(toServer)) : Fits(fifo, IdsOf(toServer)[p], i)
    BY <2>1, LineOfIds DEF OnTheWay, AsksFor, RepliesTo
  <2>3. InLine(fifo, AnswersIn(toClient), IdsOf(reads), IdsOf(toServer'))
    BY <1>11, <2>2, SentLine DEF ConnectionInv, LineInv
  <2> QED
    BY <2>3 DEF LineInv
<1> QED
  BY <1>17, <1>18, <1>19, <1>20, <1>21, <1>22 DEF ConnectionInv

\* A call that failed takes its registration with it; nothing of it is on the way.
LEMMA RemovingKeeps ==
  ASSUME ViewerIsKnown, ViewerTyped, ViewerTyped', ConnectionInv, NEW c \in Callers, calls[c].pc # "idle",
         ~ OnTheWay(calls[c].id), Leave(c), fifo' = Removed(c),
         UNCHANGED << lastId, slot, abandoned, toServer, toClient, reads >>
  PROVE  ConnectionInv'
<1>1. PICK i \in Nat : i = calls[c].id /\ i # 0 /\ i <= lastId
  BY CallerFacts
<1>2. Thins(fifo', fifo, i)
  BY <1>1, RemovedThins
<1>3. /\ calls'[c] = Idle /\ Idle.pc = "idle" /\ "idle" \notin Early
      /\ \A d \in Callers : d # c => calls'[d] = calls[d]
  BY IdleIsACall DEF Leave, ViewerTyped, Early
<1>4. \A d \in Callers : calls'[d] = calls[d] \/ (calls'[d] = Idle /\ calls[d].id = i)
  BY <1>1, <1>3
<1>5. \A d \in Callers : ~ (calls'[d].id = i /\ calls'[d].pc \in Early)
  <2>1. ASSUME NEW d \in Callers, calls'[d].id = i, calls'[d].pc \in Early PROVE FALSE
    <3>1. d # c /\ calls[d].id = i /\ calls[d].pc # "idle"
      BY <1>3, <2>1
    <3> QED
      BY <1>1, <3>1, CallerFacts
  <2> QED
    BY <2>1
<1>6. /\ \A j : OnTheWay(j)' <=> OnTheWay(j)
      /\ InLine(fifo, AnswersIn(toClient'), IdsOf(reads'), IdsOf(toServer'))
  BY QueuesStay DEF ConnectionInv, LineInv
<1>7. /\ \A p \in 1 .. Len(toServer') : RequestInv(toServer'[p])
      /\ \A p \in 1 .. Len(reads') : RequestInv(reads'[p])
      /\ \A p \in 1 .. Len(toClient') : AnswerInv(toClient'[p])
  BY DEF ConnectionInv, MessagesInv
<1>8. ~ OnTheWay(i)' /\ \A j \in Nat : j # i => (OnTheWay(j)' <=> OnTheWay(j))
  BY <1>1, <1>6
<1>9. \A j \in 1 .. MaxAsks : j # i => slot'[j] = slot[j]
  OBVIOUS
<1> QED
  BY <1>1, <1>2, <1>4, <1>5, <1>6, <1>7, <1>8, <1>9, ThinnedKeeps

\* What waits under the id of a call is the registration of that call.
LEMMA WaitersOfCalls ==
  ASSUME ViewerIsKnown, ViewerTyped, ConnectionInv, NEW c \in Callers, calls[c].pc = "waiting",
         NEW k \in Fifos, Waits(k, calls[c].id)
  PROVE  calls[c].ask # "frame" /\ (OnTheWay(calls[c].id) \/ RefusedTo(c))
<1>1. PICK n \in 1 .. Len(fifo[k]) : fifo[k][n].id = calls[c].id
  BY DEF Waits
<1>2. PICK w : w = fifo[k][n] /\ w.id = calls[c].id
  BY <1>1
<1>3. WaiterInv(w, k)
  BY <1>2 DEF ConnectionInv, WaitersInv
<1>4. \A d \in Callers : calls[d].pc # "idle" /\ calls[d].id = w.id => d = c
  BY <1>2, CallerFacts
<1>5. w.id \notin abandoned
  BY <1>2, CallerFacts
<1>6. calls[c].ask = w.ask
  BY <1>3, <1>4, <1>5 DEF WaiterInv, Holder
<1>7. ~ Unwritten(w.id)
  BY <1>4 DEF Unwritten, Holder
<1>8. Refused(w.id) => RefusedTo(c)
  BY <1>4 DEF Refused, Holder
<1> QED
  BY <1>2, <1>3, <1>6, <1>7, <1>8 DEF WaiterInv

LEMMA BeginningKeeps ==
  ASSUME ViewerIsKnown, ViewerTyped, ConnectionInv, NEW c \in Callers, Begins(c), down = 0
  PROVE  ConnectionInv'
<1>1. PICK ask \in Askable : Begin(c, ask)
  BY DEF Begins
<1>2. PICK x : x = [Idle EXCEPT !.pc = "checked", !.ask = ask, !.id = lastId']
  OBVIOUS
<1>3. /\ calls[c].pc = "idle" /\ calls' = [calls EXCEPT ![c] = x]
      /\ UNCHANGED << fifo, toServer, slot, toClient, reads, abandoned >>
      /\ lastId \in Nat /\ lastId' = lastId + 1
  BY <1>1, <1>2 DEF Begin, Begins, FramesGone, At, ViewerTyped
<1>4. x.pc = "checked" /\ x.errors = << >> /\ x.id = lastId'
  BY <1>2 DEF Idle
<1>5. calls'[c] = x /\ \A d \in Callers : d # c => calls'[d] = calls[d]
  BY <1>3 DEF ViewerTyped
<1>6. PICK i \in Nat : i = lastId' /\ i = lastId + 1 /\ i # 0 /\ x.id = i
  BY <1>3, <1>4
<1>7. i \notin abandoned /\ ~ OnTheWay(i)
  BY <1>3, <1>6 DEF ConnectionInv, CallersInv
<1>8. \A d \in Callers : d # c /\ calls[d].pc # "idle" => calls[d].id # i
  <2>1. ASSUME NEW d \in Callers, calls[d].pc # "idle", calls[d].id = i PROVE FALSE
    <3>1. calls[d].id <= lastId
      BY <2>1, CallerFacts
    <3> QED
      BY <1>3, <1>6, <2>1, <3>1
  <2> QED
    BY <2>1
<1>9. i \in 1 .. MaxAsks => slot[i] = NoReply
  BY <1>3, <1>6 DEF ConnectionInv, SlotInv
<1>10. lastId' \in Nat /\ lastId <= lastId' /\ x.id <= lastId'
  BY <1>3, <1>6
<1> QED
  BY <1>3, <1>4, <1>5, <1>6, <1>7, <1>8, <1>9, <1>10, OpeningKeeps

LEMMA SubscribingKeeps ==
  ASSUME ViewerIsKnown, ViewerTyped, ConnectionInv, NEW c \in Callers, SubscribeErrors(c), down = 0,
         UNCHANGED << slot, toClient, reads, abandoned >>
  PROVE  ConnectionInv'
<1>1. /\ calls[c].pc = "checked" /\ Move(c, "subscribed")
      /\ UNCHANGED << lastId, fifo, toServer >>
  BY DEF SubscribeErrors, ErrorsGone, At
<1>2. PICK x \in ViewerCalls :
        /\ calls' = [calls EXCEPT ![c] = x] /\ x.pc = "subscribed" /\ x.ask = calls[c].ask
        /\ x.id = calls[c].id /\ x.errors = calls[c].errors /\ x.frame = calls[c].frame
  BY <1>1, MoveIsAChange
<1>3. calls'[c] = x /\ \A d \in Callers : d # c => calls'[d] = calls[d]
  BY <1>2 DEF ViewerTyped
<1>4. PICK i \in Nat : i = calls[c].id /\ i = x.id /\ i # 0 /\ i <= lastId
  BY <1>1, <1>2, CallerFacts
<1>5. x.errors = << >> /\ i \notin abandoned /\ ~ OnTheWay(i)
  BY <1>1, <1>2, <1>4, CallerFacts DEF Early
<1>6. \A d \in Callers : d # c /\ calls[d].pc # "idle" => calls[d].id # i
  BY <1>1, <1>4, CallerFacts
<1>7. i \in 1 .. MaxAsks => slot[i] = NoReply
  BY <1>1, <1>4 DEF ConnectionInv, SlotInv, Holder, Early
<1>8. lastId' \in Nat /\ lastId <= lastId' /\ x.id <= lastId'
  BY <1>1, <1>4 DEF ViewerTyped
<1> QED
  BY <1>1, <1>2, <1>3, <1>4, <1>5, <1>6, <1>7, <1>8, OpeningKeeps

LEMMA SendKeeps ==
  ASSUME ViewerIsKnown, ViewerTyped, ViewerTyped', ConnectionInv, NEW c \in Callers, Send(c), Straight',
         UNCHANGED << slot, toClient, reads, abandoned >>
  PROVE  ConnectionInv'
<1>1. calls[c].pc = "registered" /\ UNCHANGED lastId
  BY DEF Send, At
<1>2. CASE /\ toServer' = Append(toServer, [ask |-> calls[c].ask, id |-> calls[c].id])
           /\ Move(c, "waiting") /\ UNCHANGED fifo
           /\ excuses' = IF Overtakes(c) THEN excuses \cup {"swapped"} ELSE excuses
  <2>1. ~ Overtakes(c)
    <3>1. SUFFICES ASSUME Overtakes(c) PROVE FALSE
      OBVIOUS
    <3>2. "swapped" \in excuses'
      BY <1>2, <3>1
    <3> QED
      BY <3>2 DEF Straight
  <2> QED
    BY <1>1, <1>2, <2>1, SendingKeeps
<1>3. CASE fifo' = Removed(c) /\ Leave(c) /\ UNCHANGED << toServer, excuses >>
  <2>1. ~ OnTheWay(calls[c].id)
    BY <1>1, CallerFacts DEF Early
  <2> QED
    BY <1>1, <1>3, <2>1, RemovingKeeps
<1> QED
  BY <1>2, <1>3 DEF Send

LEMMA TakingKeeps ==
  ASSUME ViewerIsKnown, ViewerTyped, ViewerTyped', ConnectionInv, NEW c \in Callers, Straight', down = 0,
         TakeReply(c) \/ TakeFrame(c) \/ TakeError(c) \/ TakeEnd(c),
         UNCHANGED << slot, toClient, reads, abandoned >>
  PROVE  ConnectionInv'
<1>1. calls[c].pc = "waiting" /\ Leave(c) /\ UNCHANGED << lastId, toServer >>
  BY DEF TakeReply, TakeFrame, TakeError, TakeEnd, At
<1>2. PICK i \in Nat : i = calls[c].id /\ i # 0 /\ i <= MaxAsks
  BY <1>1, CallerFacts
<1>3. CASE TakeReply(c)
  <2>1. i \in 1 .. MaxAsks /\ slot[i] # NoReply /\ UNCHANGED fifo
    BY <1>2, <1>3 DEF TakeReply, ViewerIsKnown
  <2>2. \A k \in Fifos : ~ Waits(k, i)
    BY <2>1 DEF ConnectionInv, SlotInv
  <2> QED
    BY <1>1, <1>2, <2>1, <2>2, LeavingKeeps
<1>4. CASE TakeFrame(c)
  <2>1. UNCHANGED fifo /\ calls[c].ask = "frame"
    BY <1>4 DEF TakeFrame
  <2>2. \A k \in Fifos : ~ Waits(k, calls[c].id)
    BY <1>1, <2>1, WaitersOfCalls
  <2> QED
    BY <1>1, <2>1, <2>2, LeavingKeeps
<1>5. CASE TakeError(c)
  <2>1. /\ fifo' = Removed(c) /\ calls[c].errors # << >>
        /\ excuses' = excuses \cup {IF Head(calls[c].errors) = calls[c].id THEN "refused" ELSE "stray"}
    BY <1>5 DEF TakeError
  <2>2. Head(calls[c].errors) = calls[c].id
    <3>1. SUFFICES ASSUME Head(calls[c].errors) # calls[c].id PROVE FALSE
      OBVIOUS
    <3>2. "stray" \in excuses'
      BY <2>1, <3>1
    <3> QED
      BY <3>2 DEF Straight
  <2>3. RefusedTo(c)
    <3>1. PICK e \in Seq(Nat) : e = calls[c].errors
      BY <1>1, CallerFacts
    <3>2. Head(e) = e[1] /\ 1 \in 1 .. Len(e)
      BY <2>1, <3>1
    <3> QED
      BY <2>2, <3>1, <3>2 DEF RefusedTo
  <2>4. ~ OnTheWay(calls[c].id)
    BY <1>1, <2>3, CallerFacts
  <2> QED
    BY <1>1, <2>1, <2>4, RemovingKeeps
<1>6. CASE TakeEnd(c)
  BY <1>6 DEF TakeEnd, SeesTheEnd, ErrorsGone, FramesGone
<1> QED
  BY <1>3, <1>4, <1>5, <1>6

\* A frame call registers nothing.
LEMMA FramesRegisterNothing ==
  ASSUME ViewerIsKnown, ViewerTyped, ConnectionInv, NEW c \in Callers, calls[c].pc = "registered",
         calls[c].ask = "frame", NEW k \in Fifos
  PROVE  ~ Waits(k, calls[c].id)
<1>1. SUFFICES ASSUME NEW n \in 1 .. Len(fifo[k]), fifo[k][n].id = calls[c].id PROVE FALSE
  BY DEF Waits
<1>2. PICK w : w = fifo[k][n] /\ w.id = calls[c].id
  BY <1>1
<1>3. WaiterInv(w, k)
  BY <1>2 DEF ConnectionInv, WaitersInv
<1>4. \A d \in Callers : calls[d].pc # "idle" /\ calls[d].id = w.id => d = c
  BY <1>2, CallerFacts
<1>5. w.id \notin abandoned
  BY <1>2, CallerFacts
<1>6. calls[c].ask = w.ask
  BY <1>3, <1>4, <1>5 DEF WaiterInv, Holder
<1> QED
  BY <1>3, <1>6 DEF WaiterInv

LEMMA AbandonKeeps ==
  ASSUME ViewerIsKnown, ViewerTyped, ConnectionInv, NEW c \in Callers, Abandon(c), Straight'
  PROVE  ConnectionInv'
<1>1. /\ calls[c].pc \in {"registered", "waiting"} /\ Leave(c)
      /\ abandoned' = abandoned \cup {calls[c].id}
      /\ UNCHANGED << lastId, fifo, slot, toServer, toClient, reads >>
  BY DEF Abandon, At
<1>2. CASE calls[c].pc = "registered"
  <2>1. calls[c].ask # "frame" => excuses' = excuses \cup {"unsent"}
    BY <1>2 DEF Abandon, At
  <2>2. calls[c].ask = "frame"
    <3>1. SUFFICES ASSUME calls[c].ask # "frame" PROVE FALSE
      OBVIOUS
    <3>2. "unsent" \in excuses'
      BY <2>1, <3>1
    <3> QED
      BY <3>2 DEF Straight
  <2>3. \A k \in Fifos : ~ Waits(k, calls[c].id)
    BY <1>2, <2>2, FramesRegisterNothing
  <2> QED
    BY <1>1, <1>2, <2>3, LeavingKeeps
<1>3. CASE calls[c].pc = "waiting"
  <2>1. excuses' = IF calls[c].id \in Elems(calls[c].errors) THEN excuses \cup {"orphan"} ELSE excuses
    BY <1>3 DEF Abandon, At
  <2>2. ~ RefusedTo(c)
    <3>1. SUFFICES ASSUME RefusedTo(c) PROVE FALSE
      OBVIOUS
    <3>2. calls[c].errors \in Seq(Nat)
      BY <1>3, CallerFacts
    <3>3. calls[c].id \in Elems(calls[c].errors)
      BY <3>1, <3>2 DEF RefusedTo, Elems
    <3>4. "orphan" \in excuses'
      BY <2>1, <3>3
    <3> QED
      BY <3>4 DEF Straight
  <2>3. \/ \A k \in Fifos : ~ Waits(k, calls[c].id)
        \/ calls[c].id \in abandoned' /\ OnTheWay(calls[c].id)
    BY <1>1, <1>3, <2>2, WaitersOfCalls
  <2> QED
    BY <1>1, <1>3, <2>3, LeavingKeeps
<1> QED
  BY <1>1, <1>2, <1>3

LEMMA CallingKeeps ==
  ASSUME ViewerIsKnown, ViewerTyped, ViewerTyped', ConnectionInv, NEW c \in Callers, down = 0, Straight',
         Begins(c) \/ Continue(c) \/ Abandon(c)
  PROVE  ConnectionInv'
<1>1. CASE Begins(c)
  BY <1>1, BeginningKeeps
<1>2. CASE Abandon(c)
  BY <1>2, AbandonKeeps
<1>3. CASE Continue(c)
  <2>0. UNCHANGED << slot, toClient, reads, abandoned >>
    BY <1>3 DEF Continue
  <2>1. CASE SubscribeErrors(c)
    BY <2>0, <2>1, SubscribingKeeps
  <2>2. CASE Register(c)
    <3>1. UNCHANGED << lastId, toServer >>
      BY <2>2 DEF Register
    <3> QED
      BY <2>0, <2>2, <3>1, RegisteringKeeps
  <2>3. CASE Send(c)
    BY <2>0, <2>3, SendKeeps
  <2>4. CASE TakeReply(c) \/ TakeFrame(c) \/ TakeError(c) \/ TakeEnd(c)
    BY <2>0, <2>4, TakingKeeps
  <2> QED
    BY <1>3, <2>1, <2>2, <2>3, <2>4 DEF Continue
<1> QED
  BY <1>1, <1>2, <1>3

\* Only a reply changes what a call was sent.
LEMMA DispatchKeeps ==
  ASSUME ViewerIsKnown, ViewerTyped, ViewerTyped', ConnectionInv, Dispatch, Straight'
  PROVE  ConnectionInv' /\ (RepliesFindTheirCalls => RepliesFindTheirCalls')
<1>1. PICK m : m = Head(toClient)
  OBVIOUS
<1>2. /\ rx = "up" /\ toClient # << >> /\ toClient' = Tail(toClient) /\ m \in ServerMessages
      /\ UNCHANGED << lastId, down, rx, toServer, up, reads, recording, posts, abandoned >>
      /\ \/ m.kind = "frame" /\ FrameCame
         \/ m.kind = "error" /\ ErrorCame(m.re)
         \/ m.kind \in Fifos /\ ReplyCame(m)
  BY <1>1, WhatIsDispatched
<1>3. DOMAIN slot = 1 .. MaxAsks /\ DOMAIN slot' = 1 .. MaxAsks /\ down = 0
  BY <1>2 DEF ViewerTyped
<1>4. CASE m.kind = "frame" /\ FrameCame
  <2>1. UNCHANGED slot
    BY <1>4 DEF FrameCame
  <2> QED
    BY <1>1, <1>2, <1>4, <2>1, FrameKeeps DEF RepliesFindTheirCalls, Resolved
<1>5. CASE m.kind = "error" /\ ErrorCame(m.re)
  <2>1. UNCHANGED slot
    BY <1>5 DEF ErrorCame
  <2>2. ConnectionInv'
    BY <1>1, <1>2, <1>3, <1>5, ErrorKeeps
  <2> QED
    BY <2>1, <2>2 DEF RepliesFindTheirCalls, Resolved
<1>6. CASE m.kind \in Fifos /\ ReplyCame(m)
  <2>1. /\ ConnectionInv' /\ m.re \in 1 .. MaxAsks /\ slot'[m.re].re = m.re
        /\ \A j \in 1 .. MaxAsks : j # m.re => slot'[j] = slot[j]
    BY <1>1, <1>2, <1>6, ReplyKeeps
  <2>2. ASSUME RepliesFindTheirCalls, NEW j \in 1 .. MaxAsks, slot'[j] \notin {NoReply, Dropped}
        PROVE  slot'[j].re = j
    BY <1>3, <2>1, <2>2 DEF RepliesFindTheirCalls, Resolved
  <2> QED
    BY <1>3, <2>1, <2>2 DEF RepliesFindTheirCalls, Resolved
<1> QED
  BY <1>2, <1>4, <1>5, <1>6

\* What happened stays on record.
LEMMA SessionKeepsRecord == ASSUME Session PROVE excuses \subseteq excuses'
<1>1. CASE ReadMessage
  BY <1>1 DEF ReadMessage, QueueRead, Transition, Apply, TakeBye
<1>2. CASE ServeRead \/ PushFrame \/ SessionEnds
  BY <1>2 DEF ServeRead, PushFrame, SessionEnds
<1> QED
  BY <1>1, <1>2 DEF Session

LEMMA DispatchKeepsRecord == ASSUME Dispatch PROVE excuses \subseteq excuses'
<1>1. PICK m : m = Head(toClient)
  OBVIOUS
<1>2. CASE m.kind = "frame"
  BY <1>1, <1>2 DEF Dispatch
<1>3. CASE m.kind = "error"
  BY <1>1, <1>3 DEF Dispatch
<1>4. CASE m.kind # "frame" /\ m.kind # "error"
  BY <1>1, <1>4 DEF Dispatch
<1> QED
  BY <1>2, <1>3, <1>4

LEMMA ExcusesStay == ASSUME ClientNext, Straight' PROVE Straight
<1>1. excuses \subseteq excuses'
  <2>1. ASSUME NEW c \in Callers, BeginAny(c) PROVE excuses \subseteq excuses'
    BY <2>1 DEF BeginAny, Begin
  <2>2. ASSUME NEW c \in Callers, Abandon(c) PROVE excuses \subseteq excuses'
    BY <2>2 DEF Abandon
  <2>3. ASSUME NEW c \in Callers, Continue(c) PROVE excuses \subseteq excuses'
    <3>1. CASE SubscribeErrors(c) \/ Register(c) \/ TakeReply(c) \/ TakeFrame(c) \/ TakeEnd(c)
      BY <3>1 DEF SubscribeErrors, Register, TakeReply, TakeFrame, TakeEnd
    <3>2. CASE Send(c)
      BY <3>2 DEF Send
    <3>3. CASE TakeError(c)
      BY <3>3 DEF TakeError
    <3> QED
      BY <2>3, <3>1, <3>2, <3>3 DEF Continue
  <2>4. ASSUME PostInput \/ ReaderEnds \/ ShutdownStep PROVE excuses \subseteq excuses'
    BY <2>4 DEF PostInput, ReaderEnds, ShutdownStep
  <2>5. ASSUME Session PROVE excuses \subseteq excuses'
    BY <2>5, SessionKeepsRecord
  <2>6. ASSUME Dispatch PROVE excuses \subseteq excuses'
    BY <2>6, DispatchKeepsRecord
  <2> QED
    BY <2>1, <2>2, <2>3, <2>4, <2>5, <2>6 DEF ClientNext
<1> QED
  BY <1>1 DEF Straight

LEMMA ViewerStarts == ASSUME ViewerIsKnown, ClientInit PROVE ViewerInv
<1>1. ViewerTyped
  BY ViewerStartsTyped
<1>2. /\ calls = [c \in Callers |-> Idle] /\ lastId = 0 /\ abandoned = {}
      /\ fifo = [k \in Fifos |-> << >>] /\ slot = [i \in 1 .. MaxAsks |-> NoReply]
      /\ toServer = << >> /\ toClient = << >> /\ reads = << >>
  BY DEF ClientInit
<1>3. RepliesFindTheirCalls
  BY <1>2 DEF RepliesFindTheirCalls, Resolved
<1>4. /\ \A k \in Fifos : fifo[k] = << >> /\ Len(fifo[k]) = 0
      /\ \A c \in Callers : calls[c].pc = "idle" /\ calls[c].errors = << >>
      /\ Len(toServer) = 0 /\ Len(toClient) = 0 /\ Len(reads) = 0
  BY <1>2, IdleIsACall
<1>5. \A i : ~ OnTheWay(i)
  BY <1>4 DEF OnTheWay, AsksFor, RepliesTo
<1>6. CallersInv
  BY <1>2, <1>4, <1>5 DEF CallersInv
<1>7. WaitersInv /\ FifoInv
  BY <1>4 DEF WaitersInv, FifoInv
<1>8. MessagesInv
  BY <1>4 DEF MessagesInv
<1>9. SlotInv
  BY <1>2 DEF SlotInv
<1>10. LineInv
  <2>1. Len(AnswersIn(toClient)) = 0 /\ Len(IdsOf(reads)) = 0 /\ Len(IdsOf(toServer)) = 0
    BY <1>1, <1>4, IdsOfRequests, IdsOfAnswers DEF ViewerTyped
  <2> QED
    BY <2>1 DEF LineInv, InLine, Lined, Across
<1> QED
  BY <1>1, <1>3, <1>6, <1>7, <1>8, <1>9, <1>10 DEF ViewerInv, ConnectionInv

LEMMA ViewerSteps == ASSUME ViewerIsKnown, ViewerInv, ClientNext PROVE ViewerInv'
<1>0. ViewerTyped /\ DOMAIN slot = 1 .. MaxAsks
  BY DEF ViewerInv, ViewerTyped
<1>1. ASSUME NEW c \in Callers, Begins(c) \/ Continue(c) \/ Abandon(c), ClientNext PROVE ViewerInv'
  <2>1. ViewerTyped'
    BY <1>0, <1>1, CallingTyped
  <2>2. UNCHANGED << slot, rx >>
    BY <1>1 DEF Begins, Continue, Abandon
  <2>3. Straight' => RepliesFindTheirCalls'
    BY <2>2, ExcusesStay DEF ViewerInv, RepliesFindTheirCalls, Resolved
  <2>4. ASSUME Straight', rx' = "up" PROVE ConnectionInv'
    <3>1. ConnectionInv /\ down = 0
      BY <1>0, <2>2, <2>4, ExcusesStay DEF ViewerInv, ViewerTyped
    <3> QED
      BY <1>0, <1>1, <2>1, <2>4, <3>1, CallingKeeps
  <2> QED
    BY <2>1, <2>3, <2>4 DEF ViewerInv
<1>2. ASSUME Session \/ WritesInput, ClientNext PROVE ViewerInv'
  <2>1. ViewerTyped'
    BY <1>0, <1>2, SessionTyped
  <2>2. UNCHANGED << slot, rx >>
    BY <1>2 DEF Session, WritesInput
  <2>3. Straight' => RepliesFindTheirCalls'
    BY <2>2, ExcusesStay DEF ViewerInv, RepliesFindTheirCalls, Resolved
  <2>4. ASSUME Straight', rx' = "up" PROVE ConnectionInv'
    <3>1. ConnectionInv
      BY <2>2, <2>4, ExcusesStay DEF ViewerInv
    <3> QED
      BY <1>0, <1>2, <2>4, <3>1, SessionKeeps
  <2> QED
    BY <2>1, <2>3, <2>4 DEF ViewerInv
<1>3. ASSUME Dispatch PROVE ViewerInv'
  <2>1. ViewerTyped'
    BY <1>0, <1>3, DispatchTyped
  <2>2. rx = "up"
    BY <1>3 DEF Dispatch
  <2>3. ASSUME Straight' PROVE ConnectionInv' /\ RepliesFindTheirCalls'
    <3>1. ConnectionInv /\ RepliesFindTheirCalls
      BY <2>2, <2>3, ExcusesStay DEF ViewerInv
    <3> QED
      BY <1>0, <1>3, <2>1, <2>3, <3>1, DispatchKeeps
  <2> QED
    BY <2>1, <2>3 DEF ViewerInv
<1>4. ASSUME ReaderEnds \/ (rx = "closing" /\ ShutdownStep) PROVE ViewerInv'
  <2>1. ViewerTyped'
    BY <1>0, <1>4, EndingTyped
  <2>2. rx' # "up"
    BY <1>4 DEF ReaderEnds, ShutdownStep
  <2>3. \/ UNCHANGED slot
        \/ slot' = [i \in DOMAIN slot |-> IF i \in Cleared THEN Dropped ELSE slot[i]]
    BY <1>4 DEF ReaderEnds, ShutdownStep
  <2>4. Straight' => RepliesFindTheirCalls'
    <3>1. DOMAIN slot' = DOMAIN slot /\ \A i \in DOMAIN slot : slot'[i] \in {slot[i], Dropped}
      BY <2>3
    <3> QED
      BY <3>1, ExcusesStay DEF ViewerInv, RepliesFindTheirCalls, Resolved
  <2> QED
    BY <2>1, <2>2, <2>4 DEF ViewerInv
<1>5. (PostInput => WritesInput) /\ \A c \in Callers : BeginAny(c) => Begins(c)
  BY DEF PostInput, WritesInput, BeginAny, Begins, ViewerIsKnown
<1> QED
  BY <1>1, <1>2, <1>3, <1>4, <1>5 DEF ClientNext

LEMMA ClientStays ==
  ASSUME UNCHANGED clientVars
  PROVE  (ViewerTyped' <=> ViewerTyped) /\ (ConnectionInv' <=> ConnectionInv)
<1>1. UNCHANGED << calls, lastId, fifo, slot, down, rx, toServer, toClient, reads, recording, abandoned >>
  BY DEF clientVars
<1>2. ViewerTyped' <=> ViewerTyped
  BY <1>1 DEF ViewerTyped
<1>3. CallersInv' <=> CallersInv
  BY <1>1 DEF CallersInv, OnTheWay, AsksFor, RepliesTo, RefusedTo
<1>4. WaitersInv' <=> WaitersInv
  BY <1>1 DEF WaitersInv, WaiterInv, Unwritten, OnTheWay, AsksFor, RepliesTo, Refused, RefusedTo, Holder
<1>5. (FifoInv' <=> FifoInv) /\ (SlotInv' <=> SlotInv)
  BY <1>1 DEF FifoInv, SlotInv, Unwritten, Holder, Waits
<1>6. MessagesInv' <=> MessagesInv
  BY <1>1 DEF MessagesInv, RequestInv, AnswerInv, Known, Waits
<1>7. LineInv' <=> LineInv
  BY <1>1 DEF LineInv
<1> QED
  BY <1>2, <1>3, <1>4, <1>5, <1>6, <1>7 DEF ConnectionInv

\* RepliesGoAstrayOnlyWhen for any number of callers, calls, messages and frames, whatever is
\* refused and whoever drops a call: reply.rs pops the oldest registration of the kind of the
\* reply, and that is the registration of the call the session answers, unless one of the six
\* things in "excuses" has happened.
THEOREM RepliesReachTheirCalls == ASSUME ViewerIsKnown PROVE ClientSpec => []RepliesGoAstrayOnlyWhen
<1>1. ClientInit => ViewerInv
  BY ViewerStarts
<1>2. ViewerInv /\ [ClientNext]_clientVars => ViewerInv'
  <2>1. ASSUME ViewerInv, ClientNext PROVE ViewerInv'
    BY <2>1, ViewerSteps
  <2>2. ASSUME ViewerInv, UNCHANGED clientVars PROVE ViewerInv'
    <3>1. UNCHANGED << excuses, slot, rx >>
      BY <2>2 DEF clientVars
    <3> QED
      BY <2>2, <3>1, ClientStays DEF ViewerInv, Straight, RepliesFindTheirCalls, Resolved
  <2> QED
    BY <2>1, <2>2
<1>3. ViewerInv => RepliesGoAstrayOnlyWhen
  BY DEF ViewerInv, Straight, RepliesGoAstrayOnlyWhen
<1> QED
  BY <1>1, <1>2, <1>3, PTL DEF ClientSpec

-----------------------------------------------------------------------------
(* The worker of the GUI: what the requester knows of the recording.       *)

\* The worker serves a connection that lives, and nothing went wrong on it.
Serving == loop \in {"connecting", "select"} /\ rx = "up" /\ up /\ excuses = {}

\* The jobs of the start, and how many of them were taken.
FirstJobs == << "state", "frame", "status" >>
Taken == IF todo # << >> /\ calls[Requester].pc = "idle" THEN lastId + 1 ELSE lastId
UnderWay == calls[Requester].pc # "idle" /\ AboutRecording(calls[Requester].ask)

WorkerTyped ==
  /\ clicks \in Seq(Askable \cup {"input"}) /\ jobs \in Seq(Askable \cup {"tick"}) /\ todo \in Seq(Askable)

\* One call at a time, of the job that is served; the first jobs in their order.
JobsInv ==
  /\ abandoned = {} /\ \A c \in Callers : c # Requester => calls[c].pc = "idle"
  /\ calls[Requester].pc # "idle" => todo # << >> /\ todo[1] = calls[Requester].ask
  /\ loop = "connecting" => lastId = 0 /\ todo = << >> /\ calls[Requester].pc = "idle"
  /\ loop = "select" /\ Taken <= 3 =>
       /\ 3 <= Len(jobs) + Taken /\ \A n \in 1 .. 3 : n > Taken => jobs[n - Taken] = FirstJobs[n]
       /\ todo # << >> => Taken # 0 /\ todo = << FirstJobs[Taken] >>

\* What a call was or will be told of the recording is so, and what it was told is known.
RecordingInv ==
  /\ \A p \in 1 .. Len(toClient) : toClient[p].kind = "recording" => toClient[p].rec = recording
  /\ UnderWay /\ slot[calls[Requester].id] # NoReply =>
       slot[calls[Requester].id] # Dropped /\ slot[calls[Requester].id].rec = recording
  /\ 3 <= lastId /\ ~ UnderWay => flag = recording /\ shown = recording

WorkerInv == ViewerTyped /\ WorkerTyped /\ ConnectionInv /\ JobsInv /\ RecordingInv
BridgeInv == Serving => WorkerInv

\* A connection that is served was served before.
LEMMA ServedBefore == ASSUME BridgeNext, Serving' PROVE Serving
<1>1. ASSUME excuses \subseteq excuses', rx' = "up" => rx = "up", up' => up,
             loop' \in {"connecting", "select"} => loop \in {"connecting", "select"}
      PROVE  Serving
  BY <1>1 DEF Serving
<1>2. CASE Click \/ CloseWindow \/ Connect \/ RouteCommand \/ ShowFrame \/ Tick \/ LeaveLoop \/ TakeJob
  BY <1>1, <1>2 DEF Click, CloseWindow, Connect, RouteCommand, ShowFrame, Tick, LeaveLoop, TakeJob, clientVars
<1>3. CASE Close
  BY <1>3 DEF Close, Abort, SayBye, FinishClose, Serving
<1>4. CASE ShutDown
  <2>1. rx' = "up" => rx = "up"
    BY <1>4 DEF ShutDown, ShutdownStep
  <2> QED
    BY <1>1, <1>4, <2>1 DEF ShutDown, ShutdownStep
<1>5. CASE RequesterStep
  <2>1. UNCHANGED << rx, up, loop >>
    BY <1>5 DEF RequesterStep, Ask, Proceed
  <2>2. excuses \subseteq excuses'
    <3>1. CASE Ask
      BY <3>1 DEF Ask, Begin
    <3>2. ASSUME NEW c \in {Requester},
                 \/ SubscribeErrors(c) \/ Register(c) \/ TakeReply(c) \/ TakeFrame(c) \/ TakeEnd(c)
                 \/ Send(c) \/ TakeError(c)
          PROVE  excuses \subseteq excuses'
      <4>1. CASE SubscribeErrors(c) \/ Register(c) \/ TakeReply(c) \/ TakeFrame(c) \/ TakeEnd(c)
        BY <4>1 DEF SubscribeErrors, Register, TakeReply, TakeFrame, TakeEnd
      <4>2. CASE Send(c)
        BY <4>2 DEF Send
      <4>3. CASE TakeError(c)
        BY <4>3 DEF TakeError
      <4> QED
        BY <3>2, <4>1, <4>2, <4>3
    <3>3. CASE Proceed
      BY <3>2, <3>3 DEF Proceed
    <3> QED
      BY <1>5, <3>1, <3>3 DEF RequesterStep
  <2> QED
    BY <1>1, <2>1, <2>2
<1>6. CASE Receive
  <2>1. Dispatch /\ UNCHANGED loop
    BY <1>6 DEF Receive
  <2>2. excuses \subseteq excuses'
    BY <2>1, DispatchKeepsRecord
  <2> QED
    BY <1>1, <2>1, <2>2 DEF Dispatch
<1>7. CASE Remote
  <2>1. (Session \/ ReaderEnds) /\ UNCHANGED loop
    BY <1>7 DEF Remote
  <2>2. excuses \subseteq excuses'
    BY <2>1, SessionKeepsRecord DEF ReaderEnds
  <2>3. up' => up
    BY <2>1 DEF Session, ReadMessage, ServeRead, PushFrame, SessionEnds, ReaderEnds
  <2>4. rx' = "up" => rx = "up"
    BY <2>1 DEF Session, ReaderEnds
  <2> QED
    BY <1>1, <2>1, <2>2, <2>3, <2>4
<1> QED
  BY <1>2, <1>3, <1>4, <1>5, <1>6, <1>7 DEF BridgeNext

\* Jobs are appended behind the first ones.
LEMMA JobsGrow ==
  ASSUME JobsInv, UNCHANGED << calls, lastId, todo, abandoned, loop >>, lastId \in Nat,
         jobs' = jobs \/ \E x : Grew(jobs', jobs, x)
  PROVE  JobsInv'
<1>1. Taken' = Taken /\ Taken \in Nat
  BY DEF Taken
<1>2. CASE jobs' = jobs
  BY <1>1, <1>2 DEF JobsInv
<1>3. ASSUME NEW x, Grew(jobs', jobs, x) PROVE JobsInv'
  <2>1. Len(jobs) \in Nat /\ Len(jobs') = Len(jobs) + 1 /\ \A p \in 1 .. Len(jobs) : jobs'[p] = jobs[p]
    BY <1>3 DEF Grew
  <2>2. ASSUME loop = "select", Taken <= 3
        PROVE  /\ 3 <= Len(jobs') + Taken /\ \A n \in 1 .. 3 : n > Taken => jobs'[n - Taken] = FirstJobs[n]
               /\ todo # << >> => Taken # 0 /\ todo = << FirstJobs[Taken] >>
    <3>1. /\ 3 <= Len(jobs) + Taken /\ \A n \in 1 .. 3 : n > Taken => jobs[n - Taken] = FirstJobs[n]
          /\ todo # << >> => Taken # 0 /\ todo = << FirstJobs[Taken] >>
      BY <2>2 DEF JobsInv
    <3>2. 3 <= Len(jobs') + Taken
      BY <1>1, <2>1, <3>1
    <3>3. ASSUME NEW n \in 1 .. 3, n > Taken PROVE jobs'[n - Taken] = FirstJobs[n]
      <4>1. n - Taken \in 1 .. Len(jobs)
        BY <1>1, <2>1, <3>1, <3>3
      <4> QED
        BY <2>1, <3>1, <3>3, <4>1
    <3> QED
      BY <3>1, <3>2, <3>3
  <2> QED
    BY <1>1, <2>2 DEF JobsInv
<1> QED
  BY <1>2, <1>3

\* What does not move the call under way keeps what is known.
LEMMA RecordingStays ==
  ASSUME RecordingInv, UNCHANGED << calls, lastId, slot, toClient, recording, flag, shown >>
  PROVE  RecordingInv'
BY DEF RecordingInv, UnderWay

LEMMA TakenJobKeeps ==
  ASSUME ViewerTyped, WorkerTyped, JobsInv, Serving, TakeJob
  PROVE  JobsInv' /\ todo' \in Seq(Askable) /\ jobs' \in Seq(Askable \cup {"tick"})
<1>1. /\ loop = "select" /\ loop' = "select" /\ calls[Requester].pc = "idle" /\ todo = << >>
      /\ jobs # << >> /\ jobs' = Tail(jobs)
      /\ todo' = IF Head(jobs) # "tick" THEN << Head(jobs) >>
                 ELSE IF flag THEN << "state", "status" >> ELSE << "state" >>
      /\ UNCHANGED << calls, lastId, abandoned >>
  BY DEF TakeJob, Running, Between, At, Serving, clientVars
<1>2. lastId \in Nat /\ Taken = lastId
  BY <1>1 DEF Taken, ViewerTyped
<1>3. PICK j : j = Head(jobs) /\ j = jobs[1] /\ j \in Askable \cup {"tick"}
  BY <1>1, TailPops DEF WorkerTyped
<1>4. /\ jobs' \in Seq(Askable \cup {"tick"}) /\ Len(jobs') \in Nat /\ Len(jobs) = Len(jobs') + 1
      /\ \A p \in 1 .. Len(jobs') : jobs'[p] = jobs[p + 1]
  BY <1>1, TailPops DEF WorkerTyped, Popped
<1>5. {"state", "status"} \subseteq Askable
  BY DEF Askable, Reads
<1>6. todo' \in Seq(Askable) /\ todo' # << >>
  BY <1>1, <1>3, <1>5
<1>7. Taken' = lastId + 1
  BY <1>1, <1>6 DEF Taken
<1>8. ASSUME Taken' <= 3
      PROVE  /\ 3 <= Len(jobs') + Taken'
             /\ \A n \in 1 .. 3 : n > Taken' => jobs'[n - Taken'] = FirstJobs[n]
             /\ Taken' # 0 /\ todo' = << FirstJobs[Taken'] >>
  <2>1. Taken <= 3
    BY <1>2, <1>7, <1>8
  <2>2. 3 <= Len(jobs) + lastId /\ \A n \in 1 .. 3 : n > lastId => jobs[n - lastId] = FirstJobs[n]
    BY <1>1, <1>2, <2>1 DEF JobsInv
  <2>3. 3 <= Len(jobs') + Taken'
    BY <1>2, <1>4, <1>7, <2>2
  <2>4. ASSUME NEW n \in 1 .. 3, n > Taken' PROVE jobs'[n - Taken'] = FirstJobs[n]
    <3>1. n - Taken' \in 1 .. Len(jobs') /\ (n - Taken') + 1 = n - lastId /\ n > lastId
      BY <1>2, <1>7, <1>4, <2>3, <2>4
    <3> QED
      BY <1>4, <2>2, <3>1
  <2>5. PICK k \in 1 .. 3 : k = lastId + 1
    BY <1>2, <1>7, <1>8
  <2>6. k > lastId /\ k - lastId = 1
    BY <1>2, <2>5
  <2>7. j = FirstJobs[k]
    BY <1>3, <2>2, <2>5, <2>6
  <2>8. j # "tick"
    BY <2>7 DEF FirstJobs
  <2>9. todo' = << FirstJobs[k] >>
    BY <1>1, <1>3, <2>7, <2>8
  <2> QED
    BY <1>2, <1>7, <2>3, <2>4, <2>5, <2>9
<1>9. loop' # "connecting"
  BY <1>1
<1> QED
  BY <1>1, <1>4, <1>6, <1>8, <1>9 DEF JobsInv

\* The window, the timer and the loop leave the connection alone.
LEMMA LoopKeeps ==
  ASSUME WorkerInv, Serving, Click \/ CloseWindow \/ Connect \/ ShowFrame \/ Tick \/ TakeJob, Serving'
  PROVE  WorkerInv'
<1>0. ViewerTyped /\ WorkerTyped /\ ConnectionInv /\ JobsInv /\ RecordingInv /\ lastId \in Nat
  BY DEF WorkerInv, ViewerTyped
<1>1. UNCHANGED clientVars /\ UNCHANGED << flag, shown >>
  BY DEF Click, CloseWindow, Connect, ShowFrame, Tick, TakeJob
<1>2. ViewerTyped' /\ ConnectionInv'
  BY <1>0, <1>1, ClientStays
<1>3. UNCHANGED << calls, lastId, slot, toClient, recording, abandoned >>
  BY <1>1 DEF clientVars
<1>4. RecordingInv'
  BY <1>0, <1>1, <1>3, RecordingStays
<1>5. {"input", "launch", "apps", "start", "stop", "state", "frame", "status"} \subseteq Askable \cup {"input"}
  BY DEF Askable, Reads, Controls
<1>6. WorkerTyped' /\ JobsInv'
  <2>1. CASE Click
    <3>1. PICK command \in {"input", "launch", "apps", "start", "stop"} : clicks' = Append(clicks, command)
      BY <2>1 DEF Click, Toggle
    <3>2. clicks' \in Seq(Askable \cup {"input"}) /\ UNCHANGED << jobs, todo, loop >>
      BY <1>0, <1>5, <2>1, <3>1, AppendGrows DEF Click, WorkerTyped
    <3> QED
      BY <1>0, <1>3, <3>2, JobsGrow DEF WorkerTyped
  <2>2. CASE CloseWindow
    BY <1>0, <1>3, <2>2, JobsGrow DEF CloseWindow, WorkerTyped
  <2>3. CASE Connect
    <3>1. /\ loop = "connecting" /\ loop' = "select" /\ jobs' = << "state", "frame", "status" >>
          /\ UNCHANGED << clicks, todo >>
      BY <2>3 DEF Connect, Serving
    <3>2. lastId = 0 /\ todo = << >> /\ calls[Requester].pc = "idle"
      BY <1>0, <3>1 DEF JobsInv
    <3>3. Taken' = 0
      BY <1>3, <3>1, <3>2 DEF Taken
    <3>4. \A n \in 1 .. 3 : n - 0 = n
      OBVIOUS
    <3>5. 3 <= Len(jobs') + 0 /\ \A n \in 1 .. 3 : n > 0 => jobs'[n - 0] = FirstJobs[n]
      BY <3>1, <3>4 DEF FirstJobs
    <3>6. JobsInv'
      BY <1>0, <1>3, <3>1, <3>2, <3>3, <3>5 DEF JobsInv
    <3>7. jobs' \in Seq(Askable \cup {"tick"})
      BY <1>5, <3>1
    <3> QED
      BY <1>0, <3>1, <3>6, <3>7 DEF WorkerTyped
  <2>4. CASE ShowFrame
    <3>1. /\ jobs' = jobs \/ jobs' = Append(jobs, "state")
          /\ UNCHANGED << clicks, todo, loop >>
      BY <2>4 DEF ShowFrame
    <3>2. jobs' \in Seq(Askable \cup {"tick"}) /\ (jobs' = jobs \/ \E x : Grew(jobs', jobs, x))
      <4>1. /\ Append(jobs, "state") \in Seq(Askable \cup {"tick"})
            /\ Grew(Append(jobs, "state"), jobs, "state")
        BY <1>0, <1>5, AppendGrows DEF WorkerTyped
      <4>2. CASE jobs' = Append(jobs, "state")
        <5>1. Grew(jobs', jobs, "state")
          BY <4>1, <4>2
        <5> QED
          BY <4>1, <4>2, <5>1
      <4>3. CASE jobs' = jobs
        BY <1>0, <4>3 DEF WorkerTyped
      <4> QED
        BY <3>1, <4>2, <4>3
    <3> QED
      BY <1>0, <1>3, <3>1, <3>2, JobsGrow DEF WorkerTyped
  <2>5. CASE Tick
    <3>1. jobs' = Append(jobs, "tick") /\ UNCHANGED << clicks, todo, loop >>
      BY <2>5 DEF Tick
    <3>2. jobs' \in Seq(Askable \cup {"tick"}) /\ Grew(jobs', jobs, "tick")
      BY <1>0, <3>1, AppendGrows DEF WorkerTyped
    <3> QED
      BY <1>0, <1>3, <3>1, <3>2, JobsGrow DEF WorkerTyped
  <2>6. CASE TakeJob
    <3>1. UNCHANGED clicks
      BY <2>6 DEF TakeJob
    <3> QED
      BY <1>0, <2>6, <3>1, TakenJobKeeps DEF WorkerTyped
  <2> QED
    BY <2>1, <2>2, <2>3, <2>4, <2>5, <2>6
<1> QED
  BY <1>2, <1>4, <1>6 DEF WorkerInv

\* A command is written, or becomes a job.
LEMMA RouteKeeps ==
  ASSUME ViewerIsKnown, WorkerInv, Serving, RouteCommand, Serving'
  PROVE  WorkerInv'
<1>0. ViewerTyped /\ WorkerTyped /\ ConnectionInv /\ JobsInv /\ RecordingInv /\ lastId \in Nat
  BY DEF WorkerInv, ViewerTyped
<1>1. /\ clicks # << >> /\ clicks' = Tail(clicks)
      /\ UNCHANGED << calls, lastId, fifo, slot, down, rx, toClient, up, reads, recording, posts,
                      abandoned, excuses, shown, loop, todo, flag >>
  BY DEF RouteCommand
<1>2. PICK command : command = Head(clicks) /\ command \in Askable \cup {"input"}
  BY <1>0, <1>1, TailPops DEF WorkerTyped
<1>3. clicks' \in Seq(Askable \cup {"input"})
  BY <1>0, <1>1, TailPops DEF WorkerTyped
<1>4. RecordingInv'
  BY <1>0, <1>1, RecordingStays
<1>5. CASE command = "input"
  <2>1. WritesInput /\ UNCHANGED jobs
    BY <1>1, <1>2, <1>5 DEF RouteCommand, WritesInput
  <2>2. ViewerTyped' /\ ConnectionInv'
    BY <1>0, <2>1, SessionTyped, SessionKeeps DEF Serving, Straight
  <2>3. JobsInv'
    BY <1>0, <1>1, <2>1, JobsGrow
  <2> QED
    BY <1>0, <1>1, <1>3, <1>4, <2>1, <2>2, <2>3 DEF WorkerInv, WorkerTyped
<1>6. CASE command # "input"
  <2>1. jobs' = Append(jobs, command) /\ UNCHANGED toServer
    BY <1>2, <1>6 DEF RouteCommand
  <2>2. command \in Askable \cup {"tick"}
    BY <1>2, <1>6
  <2>3. jobs' \in Seq(Askable \cup {"tick"}) /\ Grew(jobs', jobs, command)
    BY <1>0, <2>1, <2>2, AppendGrows DEF WorkerTyped
  <2>4. UNCHANGED clientVars
    BY <1>1, <2>1 DEF clientVars
  <2>5. ViewerTyped' /\ ConnectionInv'
    BY <1>0, <2>4, ClientStays
  <2>6. JobsInv'
    BY <1>0, <1>1, <2>3, JobsGrow
  <2> QED
    BY <1>0, <1>1, <1>3, <1>4, <2>3, <2>5, <2>6 DEF WorkerInv, WorkerTyped
<1> QED
  BY <1>5, <1>6

\* The requester's call after a step that does not end it.
LEMMA CallGoesOn ==
  ASSUME ViewerTyped, WorkerTyped, JobsInv, RecordingInv, Requester \in Callers,
         calls[Requester].pc # "idle", calls'[Requester].pc # "idle",
         calls'[Requester].ask = calls[Requester].ask, calls'[Requester].id = calls[Requester].id,
         \A c \in Callers : c # Requester => calls'[c] = calls[c],
         UNCHANGED << lastId, slot, toClient, recording, abandoned, loop, clicks, jobs, todo, flag, shown >>
  PROVE  WorkerTyped' /\ JobsInv' /\ RecordingInv'
<1>1. Taken' = Taken
  BY DEF Taken
<1>2. UnderWay' <=> UnderWay
  BY DEF UnderWay, AboutRecording
<1>3. WorkerTyped'
  BY DEF WorkerTyped
<1>4. JobsInv'
  BY <1>1 DEF JobsInv
<1>5. RecordingInv'
  BY <1>2 DEF RecordingInv
<1> QED
  BY <1>3, <1>4, <1>5

LEMMA CallBegins ==
  ASSUME ViewerIsKnown, ViewerTyped, WorkerTyped, ConnectionInv, JobsInv, RecordingInv, Requester \in Callers,
         Ask, Serving, UNCHANGED << loop, clicks, jobs >>
  PROVE  WorkerTyped' /\ JobsInv' /\ RecordingInv' /\ Begins(Requester)
<1>1. /\ calls[Requester].pc = "idle" /\ todo # << >> /\ down = 0 /\ lastId \in Nat /\ loop = "select"
      /\ Begin(Requester, Head(todo))
      /\ UNCHANGED << slot, down, rx, toClient, up, reads, recording, posts, abandoned >>
  BY DEF Ask, At, Serving, Running, ViewerTyped
<1>2. PICK ask \in Askable : ask = Head(todo) /\ ask = todo[1] /\ ask # "none"
  BY <1>1, TailPops DEF WorkerTyped, Askable, Reads, Controls
<1>3. Begins(Requester)
  BY <1>1, <1>2 DEF Begins
<1>4. PICK x : x = [Idle EXCEPT !.pc = "checked", !.ask = ask, !.id = lastId']
  OBVIOUS
<1>5. calls' = [calls EXCEPT ![Requester] = x] /\ lastId' = lastId + 1
  BY <1>1, <1>2, <1>4 DEF Begin, FramesGone
<1>6. x.pc = "checked" /\ x.ask = ask /\ x.id = lastId' /\ x # Idle
  BY <1>4 DEF Idle
<1>7. calls'[Requester] = x /\ \A c \in Callers : c # Requester => calls'[c] = calls[c]
  BY <1>5 DEF ViewerTyped
<1>8. UNCHANGED << todo, flag, shown >>
  BY <1>6, <1>7 DEF Ask
<1>9. Taken = lastId + 1 /\ Taken' = lastId + 1
  BY <1>1, <1>5, <1>6, <1>7, <1>8 DEF Taken
<1>10. JobsInv'
  BY <1>1, <1>2, <1>6, <1>7, <1>8, <1>9 DEF JobsInv
<1>11. WorkerTyped'
  BY <1>8 DEF WorkerTyped
<1>12. RecordingInv'
  <2>1. PICK i \in Nat : i = lastId' /\ i = lastId + 1 /\ i = calls'[Requester].id
    BY <1>1, <1>5, <1>6, <1>7
  <2>2. slot[i] = NoReply \/ i \notin 1 .. MaxAsks
    BY <1>1, <2>1 DEF ConnectionInv, SlotInv
  <2>3. i \in 1 .. MaxAsks
    BY <1>1, <2>1 DEF Begin, ViewerIsKnown
  <2>4. ~ UnderWay
    BY <1>1 DEF UnderWay
  <2>5. ASSUME 3 <= lastId', ~ UnderWay' PROVE flag' = recording' /\ shown' = recording'
    <3>1. CASE 3 <= lastId
      BY <1>1, <1>8, <2>4, <3>1 DEF RecordingInv
    <3>2. CASE ~ (3 <= lastId)
      <4>1. lastId = 2 /\ Taken = 3
        BY <1>1, <1>5, <1>9, <2>5, <3>2
      <4>2. todo = << FirstJobs[3] >>
        BY <1>1, <4>1 DEF JobsInv
      <4>3. ask = "status"
        BY <1>2, <4>2 DEF FirstJobs
      <4>4. UnderWay'
        BY <1>6, <1>7, <4>3 DEF UnderWay, AboutRecording
      <4> QED
        BY <2>5, <4>4
    <3> QED
      BY <3>1, <3>2
  <2>6. slot'[calls'[Requester].id] = NoReply
    BY <1>1, <2>1, <2>2, <2>3
  <2>7. \A p \in 1 .. Len(toClient') : toClient'[p].kind = "recording" => toClient'[p].rec = recording'
    BY <1>1 DEF RecordingInv
  <2> QED
    BY <2>5, <2>6, <2>7 DEF RecordingInv
<1> QED
  BY <1>3, <1>10, <1>11, <1>12

\* A call that ends with its answer.
LEMMA CallEnds ==
  ASSUME ViewerTyped, WorkerTyped, JobsInv, RecordingInv, Requester \in Callers,
         calls[Requester].pc = "waiting", Leave(Requester),
         UNCHANGED << lastId, slot, toClient, recording, abandoned, loop, clicks, jobs >>,
         todo' = Tail(todo) \/ (calls[Requester].ask = "launch" /\ todo' = << "state" >>),
         UnderWay => flag' = recording /\ shown' = recording,
         ~ UnderWay => UNCHANGED << flag, shown >>
  PROVE  WorkerTyped' /\ JobsInv' /\ RecordingInv'
<1>1. /\ calls'[Requester].pc = "idle" /\ \A c \in Callers : c # Requester => calls'[c] = calls[c]
      /\ lastId \in Nat
  BY IdleIsACall DEF Leave, ViewerTyped
<1>2. todo # << >> /\ todo \in Seq(Askable) /\ todo[1] = calls[Requester].ask /\ Taken = lastId
      /\ loop # "connecting"
  BY DEF JobsInv, WorkerTyped, Taken
<1>3. todo' \in Seq(Askable) /\ Len(Tail(todo)) \in Nat /\ Len(todo) = Len(Tail(todo)) + 1
  <2>1. Tail(todo) \in Seq(Askable) /\ Popped(Tail(todo), todo)
    BY <1>2, TailPops
  <2>2. << "state" >> \in Seq(Askable)
    BY DEF Askable, Reads
  <2> QED
    BY <2>1, <2>2 DEF Popped
<1>4. Taken' \in {lastId, lastId + 1} /\ (todo' = << >> => Taken' = lastId)
      /\ (todo' # << >> => Taken' = lastId + 1)
  BY <1>1 DEF Taken
<1>5. ASSUME loop = "select", Taken' <= 3
      PROVE  /\ 3 <= Len(jobs) + Taken' /\ \A n \in 1 .. 3 : n > Taken' => jobs[n - Taken'] = FirstJobs[n]
             /\ todo' = << >>
  <2>1. Taken <= 3
    BY <1>1, <1>2, <1>4, <1>5
  <2>2. PICK k \in 1 .. 3 : k = Taken /\ todo = << FirstJobs[k] >>
    <3>1. Taken # 0 /\ todo = << FirstJobs[Taken] >>
      BY <1>2, <1>5, <2>1 DEF JobsInv
    <3>2. Taken \in 1 .. 3
      BY <1>1, <1>2, <2>1, <3>1
    <3> QED
      BY <3>1, <3>2
  <2>3. calls[Requester].ask # "launch"
    BY <1>2, <2>2 DEF FirstJobs
  <2>4. Len(todo) = 1
    BY <2>2
  <2>5. Tail(todo) = << >>
    <3>1. PICK t \in Seq(Askable) : t = Tail(todo)
      BY <1>2, TailPops
    <3>2. Len(t) = 0
      BY <1>3, <2>4, <3>1
    <3> QED
      BY <3>1, <3>2
  <2>6. todo' = << >> /\ Taken' = Taken
    BY <1>2, <1>4, <2>3, <2>5
  <2> QED
    BY <1>5, <2>1, <2>6 DEF JobsInv
<1>6. JobsInv'
  BY <1>1, <1>2, <1>5 DEF JobsInv
<1>7. WorkerTyped'
  BY <1>3 DEF WorkerTyped
<1>8. RecordingInv'
  BY <1>1 DEF RecordingInv, UnderWay
<1> QED
  BY <1>6, <1>7, <1>8

LEMMA RequesterKeeps ==
  ASSUME ViewerIsKnown, Requester \in Callers, WorkerInv, Serving, RequesterStep, Serving'
  PROVE  WorkerInv'
<1>0. /\ ViewerTyped /\ WorkerTyped /\ ConnectionInv /\ JobsInv /\ RecordingInv
      /\ UNCHANGED << loop, clicks, jobs >> /\ down = 0 /\ Straight'
      /\ "stray" \notin excuses' /\ "refused" \notin excuses'
  BY DEF WorkerInv, ViewerTyped, RequesterStep, Serving, Straight
<1>1. CASE Ask
  <2>1. WorkerTyped' /\ JobsInv' /\ RecordingInv' /\ Begins(Requester)
    BY <1>0, <1>1, CallBegins
  <2>2. ViewerTyped'
    BY <1>0, <2>1, CallingTyped
  <2>3. ConnectionInv'
    BY <1>0, <2>1, <2>2, CallingKeeps
  <2> QED
    BY <2>1, <2>2, <2>3 DEF WorkerInv
<1>2. CASE Proceed
  <2>1. Continue(Requester)
    BY <1>2 DEF Proceed, Continue
  <2>2. ViewerTyped' /\ ConnectionInv'
    BY <1>0, <2>1, CallingTyped, CallingKeeps
  <2>3. UNCHANGED << slot, toClient, recording, abandoned >>
    BY <1>2 DEF Proceed
  <2>4. WorkerTyped' /\ JobsInv' /\ RecordingInv'
    <3>1. ASSUME NEW pc \in {"checked", "subscribed", "registered", "waiting"}, Move(Requester, pc),
                 calls[Requester].pc # "idle", UNCHANGED << lastId, todo, flag, shown >>
          PROVE  WorkerTyped' /\ JobsInv' /\ RecordingInv'
      <4>1. PICK x \in ViewerCalls :
              /\ calls' = [calls EXCEPT ![Requester] = x] /\ x.pc = pc /\ x.ask = calls[Requester].ask
              /\ x.id = calls[Requester].id
        BY <1>0, <3>1, MoveIsAChange
      <4>2. calls'[Requester] = x /\ \A c \in Callers : c # Requester => calls'[c] = calls[c]
        BY <1>0, <4>1 DEF ViewerTyped
      <4> QED
        BY <1>0, <2>3, <3>1, <4>1, <4>2, CallGoesOn
    <3>2. ASSUME NEW pc \in {"checked", "subscribed", "registered", "waiting"}, Move(Requester, pc)
          PROVE  calls'[Requester] # Idle
      <4>1. calls'[Requester].pc = pc
        BY <1>0, <3>2 DEF Move, ViewerTyped, ViewerCalls
      <4> QED
        BY <4>1, IdleIsACall
    <3>3. CASE SubscribeErrors(Requester)
      <4>1. calls[Requester].pc = "checked" /\ Move(Requester, "subscribed") /\ UNCHANGED lastId
        BY <1>0, <3>3 DEF SubscribeErrors, ErrorsGone, At
      <4>2. UNCHANGED << todo, flag, shown >>
        BY <1>2, <3>2, <3>3, <4>1 DEF Proceed, Register, TakeError, TakeFrame, TakeReply, At
      <4> QED
        BY <3>1, <4>1, <4>2
    <3>4. CASE Send(Requester)
      <4>1. calls[Requester].pc = "registered" /\ Move(Requester, "waiting") /\ UNCHANGED lastId
        BY <3>4 DEF Send, At, Serving
      <4>2. UNCHANGED << todo, flag, shown >>
        BY <1>2, <3>2, <3>4, <4>1 DEF Proceed, Register, TakeError, TakeFrame, TakeReply, At
      <4> QED
        BY <3>1, <4>1, <4>2
    <3>5. CASE Register(Requester)
      <4>1. calls[Requester].pc = "subscribed" /\ Move(Requester, "registered") /\ UNCHANGED lastId
        BY <3>5 DEF Register, At
      <4>2. UNCHANGED << todo, flag, shown >>
        BY <1>2, <3>2, <3>5, <4>1
           DEF Proceed, SubscribeErrors, Send, TakeEnd, TakeError, TakeFrame, TakeReply, At
      <4> QED
        BY <3>1, <4>1, <4>2
    <3>6. ~ TakeEnd(Requester)
      BY <1>0 DEF TakeEnd, SeesTheEnd, ErrorsGone, FramesGone
    <3>7. ~ TakeError(Requester)
      BY <1>0 DEF TakeError
    <3>8. CASE TakeFrame(Requester) /\ Done(calls[Requester].ask, TRUE, FALSE)
      <4>1. /\ calls[Requester].pc = "waiting" /\ calls[Requester].ask = "frame" /\ Leave(Requester)
            /\ UNCHANGED lastId
        BY <3>8 DEF TakeFrame, At
      <4>2. ~ AboutRecording(calls[Requester].ask)
        BY <4>1 DEF AboutRecording, Controls
      <4>3. ~ UnderWay /\ todo' = Tail(todo) /\ UNCHANGED << flag, shown >>
        BY <3>8, <4>1, <4>2 DEF UnderWay, Done
      <4> QED
        BY <1>0, <2>3, <4>1, <4>3, CallEnds
    <3>9. CASE /\ TakeReply(Requester)
               /\ Done(calls[Requester].ask, slot[calls[Requester].id] # Dropped, slot[calls[Requester].id].rec)
      <4>1. PICK ask, s : ask = calls[Requester].ask /\ s = slot[calls[Requester].id]
        OBVIOUS
      <4>2. /\ calls[Requester].pc = "waiting" /\ Leave(Requester) /\ UNCHANGED lastId /\ s # NoReply
        BY <3>9, <4>1 DEF TakeReply, At
      <4>3. Done(ask, s # Dropped, s.rec)
        BY <3>9, <4>1
      <4>4. todo' = Tail(todo) \/ (ask = "launch" /\ todo' = << "state" >>)
        BY <4>3 DEF Done
      <4>5. UnderWay <=> AboutRecording(ask)
        BY <4>1, <4>2 DEF UnderWay
      <4>6. ASSUME UnderWay PROVE flag' = recording /\ shown' = recording
        <5>1. s # Dropped /\ s.rec = recording
          BY <4>1, <4>2, <4>6 DEF RecordingInv, WorkerInv
        <5>2. PICK r \in BOOLEAN : r = recording /\ r = s.rec
          BY <1>0, <5>1 DEF ViewerTyped
        <5>3. Done(ask, TRUE, r)
          BY <4>3, <5>1, <5>2
        <5>4. shown' = r
          BY <4>5, <4>6, <5>3 DEF Done
        <5>5. flag' = (TRUE /\ r)
          BY <4>5, <4>6, <5>3 DEF Done, FlagAfter
        <5> QED
          BY <5>2, <5>4, <5>5
      <4>7. ~ UnderWay => UNCHANGED << flag, shown >>
        BY <4>3, <4>5 DEF Done
      <4> QED
        BY <1>0, <2>3, <4>1, <4>2, <4>4, <4>6, <4>7, CallEnds
    <3> QED
      BY <1>2, <3>3, <3>4, <3>5, <3>6, <3>7, <3>8, <3>9 DEF Proceed
  <2> QED
    BY <2>2, <2>4 DEF WorkerInv
<1> QED
  BY <1>1, <1>2 DEF RequesterStep

\* Whoever waits for a recording reply is the call under way.
LEMMA OneRecordingCall ==
  ASSUME WorkerInv, NEW k \in Fifos, NEW i, Waits(k, i)
  PROVE  /\ calls[Requester].pc # "idle" /\ calls[Requester].id = i /\ FifoOf(calls[Requester].ask) = k
         /\ calls[Requester].ask \in Askable /\ (k = "recording" => UnderWay)
<1>1. PICK n \in 1 .. Len(fifo[k]) : fifo[k][n].id = i
  BY DEF Waits
<1>2. PICK w : w = fifo[k][n] /\ w.id = i
  BY <1>1
<1>3. WaiterInv(w, k)
  BY <1>2 DEF WorkerInv, ConnectionInv, WaitersInv
<1>4. abandoned = {} /\ \A c \in Callers : c # Requester => calls[c].pc = "idle"
  BY DEF WorkerInv, JobsInv
<1>5. PICK c \in Callers : Holder(c, i, {"registered", "waiting"}) /\ calls[c].ask = w.ask
  BY <1>2, <1>3, <1>4 DEF WaiterInv
<1>6. c = Requester /\ calls[Requester].pc # "idle" /\ calls[Requester].id = i
  BY <1>4, <1>5 DEF Holder
<1>7. FifoOf(calls[Requester].ask) = k
  BY <1>3, <1>5, <1>6 DEF WaiterInv
<1>8. calls[Requester].ask \in Askable
  BY <1>5, <1>6 DEF WorkerInv, ViewerTyped
<1>9. k = "recording" => UnderWay
  BY <1>6, <1>7, <1>8 DEF UnderWay, AboutRecording, FifoOf, Askable, Reads, Controls
<1> QED
  BY <1>6, <1>7, <1>8, <1>9

LEMMA TellingGrows ==
  ASSUME RecordingInv, NEW x, Grew(toClient', toClient, x), x.kind = "recording" => x.rec = recording,
         UNCHANGED << calls, lastId, slot, recording, flag, shown >>
  PROVE  RecordingInv'
<1>1. \A p \in 1 .. Len(toClient') : toClient'[p] = x \/ \E q \in 1 .. Len(toClient) : toClient'[p] = toClient[q]
  BY GrownHas
<1>2. ASSUME NEW p \in 1 .. Len(toClient'), toClient'[p].kind = "recording" PROVE toClient'[p].rec = recording'
  BY <1>1, <1>2 DEF RecordingInv
<1> QED
  BY <1>2 DEF RecordingInv, UnderWay

\* A transition is asked for by the call under way, which was told nothing yet.
LEMMA TransitionTells ==
  ASSUME ViewerIsKnown, WorkerInv, toServer # << >>, NEW m, m = Head(toServer), Transition(m),
         UNCHANGED << calls, lastId, slot, flag, shown >>
  PROVE  RecordingInv'
<1>0. /\ ViewerTyped /\ ConnectionInv /\ toServer \in Seq(Requests) /\ toClient \in Seq(ServerMessages)
      /\ recording \in BOOLEAN
  BY DEF WorkerInv, ViewerTyped
<1>1. m \in Requests /\ m = toServer[1] /\ 1 \in 1 .. Len(toServer)
  BY <1>0, TailPops
<1>2. PICK i \in Nat : i = m.id
  BY <1>1 DEF Requests
<1>3. i # 0 /\ Waits("recording", i)
  <2>1. m.ask \in Controls /\ m.ask \notin {"input", "bye"} /\ FifoOf(m.ask) = "recording" /\ m.ask # "frame"
    BY DEF Transition, Controls, FifoOf
  <2>2. RequestInv(m)
    BY <1>0, <1>1 DEF ConnectionInv, MessagesInv
  <2> QED
    BY <1>2, <2>1, <2>2 DEF RequestInv, Known
<1>4. "recording" \in Fifos
  BY DEF Fifos
<1>5. UnderWay /\ calls[Requester].id = i
  BY <1>3, <1>4, OneRecordingCall
<1>6. i \in 1 .. MaxAsks => slot[i] = NoReply
  BY <1>0, <1>3, <1>4 DEF ConnectionInv, SlotInv
<1>7. i \in 1 .. MaxAsks
  <2>1. i <= lastId
    <3>1. OnTheWay(i)
      BY <1>1, <1>2 DEF OnTheWay, AsksFor
    <3> QED
      BY <1>0, <3>1 DEF ConnectionInv, CallersInv
  <2> QED
    BY <1>0, <1>2, <1>3, <2>1 DEF ViewerTyped, ViewerIsKnown
<1>8. ASSUME NEW p \in 1 .. Len(toClient), toClient[p].kind = "recording" PROVE FALSE
  <2>1. AnswerInv(toClient[p])
    BY <1>0 DEF ConnectionInv, MessagesInv
  <2>2. toClient[p].re # 0 /\ Waits("recording", toClient[p].re)
    BY <1>4, <1>8, <2>1 DEF AnswerInv
  <2>3. toClient[p].re = i
    BY <1>4, <1>5, <2>2, OneRecordingCall
  <2>4. Fits(fifo, AnswersIn(toClient)[p], IdsOf(toServer)[1])
    BY <1>0, <1>1, LineOfIds DEF InLine, Across
  <2>5. Fits(fifo, i, i)
    BY <1>0, <1>1, <1>2, <2>3, <2>4, LineOfIds
  <2> QED
    BY <1>3, <2>5 DEF Fits
<1>9. \E x : toClient' = Append(toClient, x) /\ x \in ServerMessages /\ (x.kind = "recording" => x.rec = recording')
  <2>1. m.ask \in Controls /\ FifoOf(m.ask) = "recording"
    BY DEF Transition, Controls, FifoOf
  <2>2. CASE recording' = ~recording /\ Answer(m, recording')
    <3>1. PICK rec \in BOOLEAN : rec = recording'
      BY <1>0, <2>2
    <3>2. PICK x : x = [kind |-> "recording", re |-> i, rec |-> rec]
      OBVIOUS
    <3>3. toClient' = Append(toClient, x) /\ x.rec = recording'
      BY <1>2, <2>1, <2>2, <3>1, <3>2 DEF Answer
    <3>4. x \in ServerMessages
      BY <1>4, <3>2 DEF ServerMessages
    <3> QED
      BY <3>3, <3>4
  <2>3. CASE Refuse(m.id)
    <3>1. PICK x : x = [kind |-> "error", re |-> i, rec |-> FALSE]
      OBVIOUS
    <3>2. toClient' = Append(toClient, x) /\ x.kind # "recording"
      BY <1>2, <2>3, <3>1 DEF Refuse
    <3>3. x \in ServerMessages
      BY <3>1, RefusalIsAMessage
    <3> QED
      BY <3>2, <3>3
  <2> QED
    BY <2>2, <2>3 DEF Transition
<1>10. \A p \in 1 .. Len(toClient') : toClient'[p].kind = "recording" => toClient'[p].rec = recording'
  <2>1. PICK x : toClient' = Append(toClient, x) /\ x \in ServerMessages /\ (x.kind = "recording" => x.rec = recording')
    BY <1>9
  <2>2. Grew(toClient', toClient, x)
    BY <1>0, <2>1, AppendGrows
  <2>3. \A p \in 1 .. Len(toClient') : toClient'[p] = x \/ \E q \in 1 .. Len(toClient) : toClient'[p] = toClient[q]
    BY <2>2, GrownHas
  <2> QED
    BY <1>8, <2>1, <2>3
<1>11. UnderWay' /\ slot'[calls'[Requester].id] = NoReply
  BY <1>5, <1>6, <1>7 DEF UnderWay
<1> QED
  BY <1>10, <1>11 DEF RecordingInv

LEMMA SessionTells ==
  ASSUME ViewerIsKnown, WorkerInv, Session, Serving', UNCHANGED << flag, shown >>
  PROVE  RecordingInv'
<1>0. /\ UNCHANGED << calls, lastId, slot >> /\ RecordingInv /\ up'
      /\ toServer \in Seq(Requests) /\ reads \in Seq(Requests) /\ toClient \in Seq(ServerMessages)
      /\ recording \in BOOLEAN
  BY DEF Session, WorkerInv, Serving, ViewerTyped
<1>1. ASSUME UNCHANGED << toClient, recording >> PROVE RecordingInv'
  BY <1>0, <1>1 DEF RecordingInv, UnderWay
<1>2. ASSUME NEW x \in ServerMessages, toClient' = Append(toClient, x), UNCHANGED recording,
             x.kind = "recording" => x.rec = recording
      PROVE  RecordingInv'
  <2>1. Grew(toClient', toClient, x)
    BY <1>0, <1>2, AppendGrows
  <2> QED
    BY <1>0, <1>2, <2>1, TellingGrows
<1>3. ASSUME NEW i \in Nat, Refuse(i), UNCHANGED recording PROVE RecordingInv'
  <2>1. PICK x : x = [kind |-> "error", re |-> i, rec |-> FALSE]
    OBVIOUS
  <2>2. x \in ServerMessages /\ x.kind # "recording"
    BY <2>1, RefusalIsAMessage
  <2>3. toClient' = Append(toClient, x)
    BY <1>3, <2>1 DEF Refuse
  <2> QED
    BY <1>2, <1>3, <2>2, <2>3
<1>4. CASE ReadMessage
  <2>1. PICK m : m = Head(toServer)
    OBVIOUS
  <2>2. toServer # << >> /\ m \in Requests /\ m.id \in Nat /\ (QueueRead(m) \/ Transition(m) \/ Apply(m) \/ TakeBye(m))
    <3>1. toServer # << >> /\ (QueueRead(m) \/ Transition(m) \/ Apply(m) \/ TakeBye(m))
      BY <1>4, <2>1 DEF ReadMessage
    <3>2. m \in Requests
      BY <1>0, <2>1, <3>1, TailPops
    <3> QED
      BY <3>1, <3>2 DEF Requests
  <2>3. CASE QueueRead(m)
    BY <1>1, <2>3 DEF QueueRead
  <2>4. CASE Transition(m)
    BY <1>0, <2>1, <2>2, <2>4, TransitionTells
  <2>5. CASE Apply(m)
    <3>1. UNCHANGED recording
      BY <2>5 DEF Apply
    <3>2. CASE Refuse(m.id)
      BY <1>3, <2>2, <3>1, <3>2
    <3>3. CASE UNCHANGED toClient
      BY <1>1, <3>1, <3>3
    <3>4. CASE m.ask = "launch" /\ Answer(m, FALSE)
      <4>1. PICK i \in Nat : i = m.id
        BY <2>2
      <4>2. PICK x : x = [kind |-> "launch", re |-> i, rec |-> FALSE]
        OBVIOUS
      <4>3. x \in ServerMessages /\ x.kind # "recording"
        BY <4>2 DEF ServerMessages, Fifos
      <4>4. toClient' = Append(toClient, x)
        BY <3>4, <4>1, <4>2 DEF Answer, FifoOf, Controls
      <4> QED
        BY <1>2, <3>1, <4>3, <4>4
    <3> QED
      BY <2>5, <3>2, <3>3, <3>4 DEF Apply
  <2>6. CASE TakeBye(m)
    BY <1>0, <2>6 DEF TakeBye
  <2> QED
    BY <2>2, <2>3, <2>4, <2>5, <2>6
<1>5. CASE ServeRead
  <2>1. PICK m : m = Head(reads)
    OBVIOUS
  <2>2. /\ m \in Requests /\ m.id \in Nat /\ UNCHANGED recording /\ m.ask \in Reads
        /\ Answer(m, recording) \/ Refuse(m.id)
    BY <1>0, <1>5, <2>1, WhatIsServed DEF ServeRead, Requests, WorkerInv
  <2>3. CASE Refuse(m.id)
    BY <1>3, <2>2, <2>3
  <2>4. CASE Answer(m, recording)
    <3>1. PICK i \in Nat, r \in BOOLEAN, ask \in Reads : i = m.id /\ r = recording /\ ask = m.ask
      BY <1>0, <2>2
    <3>2. PICK x : x = [kind |-> FifoOf(ask), re |-> i, rec |-> r]
      OBVIOUS
    <3>3. x \in ServerMessages
      BY <3>1, <3>2, AnswerIsAMessage
    <3>4. toClient' = Append(toClient, x) /\ x.rec = recording
      BY <2>4, <3>1, <3>2 DEF Answer
    <3> QED
      BY <1>2, <2>2, <3>3, <3>4
  <2> QED
    BY <2>2, <2>3, <2>4
<1>6. CASE PushFrame
  <2>1. UNCHANGED recording
    BY <1>6 DEF PushFrame
  <2>2. PICK x \in ServerMessages : x.re = 0 /\ x.kind \notin Fifos /\ toClient' = Append(toClient, x)
    BY <1>6, WhatIsPushed
  <2>3. x.kind # "recording"
    BY <2>2 DEF Fifos
  <2> QED
    BY <1>2, <2>1, <2>2, <2>3
<1>7. CASE SessionEnds
  BY <1>0, <1>7 DEF SessionEnds
<1> QED
  BY <1>4, <1>5, <1>6, <1>7 DEF Session

LEMMA RemoteKeeps ==
  ASSUME ViewerIsKnown, WorkerInv, Remote, Serving'
  PROVE  WorkerInv'
<1>1. /\ Session /\ UNCHANGED << clicks, shown, loop, jobs, todo, flag >> /\ Straight'
      /\ ViewerTyped /\ ConnectionInv /\ WorkerTyped /\ JobsInv
  BY DEF Remote, ReaderEnds, Serving, Straight, WorkerInv
<1>2. ViewerTyped' /\ ConnectionInv'
  BY <1>1, SessionTyped, SessionKeeps
<1>3. RecordingInv'
  BY <1>1, SessionTells
<1>4. UNCHANGED << calls, lastId, abandoned >>
  BY <1>1 DEF Session
<1>5. WorkerTyped' /\ JobsInv'
  BY <1>1, <1>4 DEF WorkerTyped, JobsInv, Taken
<1> QED
  BY <1>2, <1>3, <1>5 DEF WorkerInv

\* A reply on the recording goes to the call under way.
LEMMA ReplyTells ==
  ASSUME ViewerIsKnown, WorkerInv, toClient # << >>, toClient' = Tail(toClient),
         NEW m, m = Head(toClient), m.kind \in Fifos, ReplyCame(m), Straight',
         UNCHANGED << lastId, reads, toServer, recording, flag, shown >>
  PROVE  RecordingInv'
<1>0. /\ ViewerTyped /\ ConnectionInv /\ toClient \in Seq(ServerMessages)
      /\ fifo[m.kind] \in Seq(Waiters) /\ DOMAIN slot = 1 .. MaxAsks /\ UNCHANGED calls
  BY DEF WorkerInv, ViewerTyped, ReplyCame
<1>1. m \in ServerMessages /\ m = toClient[1] /\ 1 \in 1 .. Len(toClient) /\ Popped(Tail(toClient), toClient)
  BY <1>0, TailPops
<1>2. \A p \in 1 .. Len(toClient') : \E q \in 1 .. Len(toClient) : toClient'[p] = toClient[q]
  BY <1>1, PoppedHas
<1>3. \A p \in 1 .. Len(toClient') : toClient'[p].kind = "recording" => toClient'[p].rec = recording'
  BY <1>2 DEF WorkerInv, RecordingInv
<1>4. ~ RefusedUnseen(m.kind)
  <2>1. SUFFICES ASSUME RefusedUnseen(m.kind) PROVE FALSE
    OBVIOUS
  <2>2. "late" \in excuses'
    BY <2>1 DEF ReplyCame
  <2> QED
    BY <2>2 DEF Straight
<1>5. fifo[m.kind] # << >> /\ Head(fifo[m.kind]).id = m.re /\ m.re # 0 /\ m.re \in 1 .. MaxAsks
  BY <1>0, <1>4, OldestIsAnswered
<1>6. PICK ask : ask = Head(fifo[m.kind]).ask
  OBVIOUS
<1>7. slot' = [slot EXCEPT ![m.re] = [ask |-> ask, re |-> m.re, rec |-> m.rec]]
  BY <1>5, <1>6 DEF ReplyCame
<1>8. slot'[m.re] = [ask |-> ask, re |-> m.re, rec |-> m.rec] /\ \A i : i # m.re => slot'[i] = slot[i]
  BY <1>0, <1>5, <1>7
<1>9. ASSUME UnderWay', slot'[calls'[Requester].id] # NoReply
      PROVE  slot'[calls'[Requester].id] # Dropped /\ slot'[calls'[Requester].id].rec = recording'
  <2>1. PICK i : i = calls[Requester].id /\ i = calls'[Requester].id
    BY <1>0
  <2>2. UnderWay
    BY <1>0, <1>9 DEF UnderWay
  <2>3. CASE i # m.re
    <3>1. slot'[i] = slot[i]
      BY <1>8, <2>3
    <3> QED
      BY <1>9, <2>1, <2>2, <3>1 DEF WorkerInv, RecordingInv
  <2>4. CASE i = m.re
    <3>1. AnswerInv(m)
      BY <1>0, <1>1 DEF ConnectionInv, MessagesInv
    <3>2. FifoOf(calls[Requester].ask) = m.kind
      BY <3>1, OneRecordingCall DEF AnswerInv
    <3>3. m.kind = "recording"
      BY <2>2, <3>2 DEF UnderWay, AboutRecording, FifoOf
    <3>4. m.rec = recording
      BY <1>1, <3>3 DEF WorkerInv, RecordingInv
    <3>5. slot'[i].rec = recording /\ slot'[i].re = m.re
      BY <1>8, <2>4, <3>4
    <3>6. slot'[i] # Dropped
      BY <1>5, <3>5 DEF Dropped
    <3> QED
      BY <2>1, <3>5, <3>6
  <2> QED
    BY <2>3, <2>4
<1>10. (UnderWay' <=> UnderWay)
  BY <1>0 DEF UnderWay
<1>11. 3 <= lastId' /\ ~ UnderWay' => flag' = recording' /\ shown' = recording'
  BY <1>10 DEF WorkerInv, RecordingInv
<1> QED
  BY <1>3, <1>9, <1>11 DEF RecordingInv

LEMMA ReceiveKeeps ==
  ASSUME ViewerIsKnown, Requester \in Callers, WorkerInv, Receive, Serving'
  PROVE  WorkerInv'
<1>1. /\ Dispatch /\ UNCHANGED << clicks, shown, loop, jobs, todo, flag >> /\ Straight'
      /\ ViewerTyped /\ ConnectionInv /\ WorkerTyped /\ JobsInv /\ RecordingInv
  BY DEF Receive, Serving, Straight, WorkerInv
<1>2. ViewerTyped'
  BY <1>1, DispatchTyped
<1>3. ConnectionInv'
  BY <1>1, <1>2, DispatchKeeps
<1>4. PICK m : m = Head(toClient)
  OBVIOUS
<1>5. /\ rx = "up" /\ toClient # << >> /\ toClient' = Tail(toClient) /\ m \in ServerMessages
      /\ UNCHANGED << lastId, down, rx, toServer, up, reads, recording, posts, abandoned >>
      /\ \/ m.kind = "frame" /\ FrameCame
         \/ m.kind = "error" /\ ErrorCame(m.re)
         \/ m.kind \in Fifos /\ ReplyCame(m)
  BY <1>1, <1>4, WhatIsDispatched
<1>6. m.re \in Nat
  BY <1>5 DEF ServerMessages
<1>7. \A c \in Callers : /\ calls'[c].pc = calls[c].pc /\ calls'[c].ask = calls[c].ask
                         /\ calls'[c].id = calls[c].id
  <2>1. CASE FrameCame
    BY <1>1, <2>1, FrameChanges
  <2>2. CASE ErrorCame(m.re)
    BY <1>1, <1>6, <2>2, ErrorChanges
  <2>3. CASE ReplyCame(m)
    BY <2>3 DEF ReplyCame
  <2> QED
    BY <1>5, <2>1, <2>2, <2>3
<1>8. WorkerTyped' /\ JobsInv'
  BY <1>1, <1>5, <1>7 DEF WorkerTyped, JobsInv, Taken
<1>9. RecordingInv'
  <2>1. CASE m.kind \in Fifos /\ ReplyCame(m)
    BY <1>1, <1>4, <1>5, <2>1, ReplyTells
  <2>2. CASE (m.kind = "frame" /\ FrameCame) \/ (m.kind = "error" /\ ErrorCame(m.re))
    <3>1. UNCHANGED slot
      BY <2>2 DEF FrameCame, ErrorCame
    <3>2. (UnderWay' <=> UnderWay) /\ calls'[Requester].id = calls[Requester].id
      BY <1>7 DEF UnderWay, AboutRecording
    <3>3. Popped(Tail(toClient), toClient)
      BY <1>1, <1>5, TailPops DEF ViewerTyped
    <3>4. \A p \in 1 .. Len(Tail(toClient)) : \E q \in 1 .. Len(toClient) : Tail(toClient)[p] = toClient[q]
      BY <3>3, PoppedHas
    <3>5. \A p \in 1 .. Len(toClient') : toClient'[p].kind = "recording" => toClient'[p].rec = recording'
      BY <1>1, <1>5, <3>4 DEF RecordingInv
    <3> QED
      BY <1>1, <1>5, <3>1, <3>2, <3>5 DEF RecordingInv
  <2> QED
    BY <1>5, <2>1, <2>2
<1> QED
  BY <1>2, <1>3, <1>8, <1>9 DEF WorkerInv

LEMMA BridgeStarts == ASSUME ViewerIsKnown, Requester \in Callers, BridgeInit PROVE BridgeInv
<1>1. /\ ClientInit /\ clicks = << >> /\ loop = "connecting" /\ jobs = << >> /\ todo = << >>
      /\ rx = "up" /\ excuses = {} /\ lastId = 0 /\ abandoned = {} /\ toClient = << >>
      /\ calls = [c \in Callers |-> Idle]
  BY DEF BridgeInit, ClientInit
<1>2. ViewerTyped /\ ConnectionInv
  BY <1>1, ViewerStarts DEF ViewerInv, Straight
<1>3. \A c \in Callers : calls[c].pc = "idle"
  BY <1>1, IdleIsACall
<1>4. WorkerTyped
  BY <1>1 DEF WorkerTyped
<1>5. JobsInv
  BY <1>1, <1>3 DEF JobsInv
<1>6. RecordingInv
  BY <1>1, <1>3 DEF RecordingInv, UnderWay
<1> QED
  BY <1>2, <1>4, <1>5, <1>6 DEF BridgeInv, WorkerInv

LEMMA BridgeSteps ==
  ASSUME ViewerIsKnown, Requester \in Callers, BridgeInv, BridgeNext
  PROVE  BridgeInv'
<1>1. SUFFICES ASSUME Serving' PROVE WorkerInv'
  BY DEF BridgeInv
<1>2. Serving /\ WorkerInv
  BY <1>1, ServedBefore DEF BridgeInv
<1>3. CASE Click \/ CloseWindow \/ Connect \/ ShowFrame \/ Tick \/ TakeJob
  BY <1>1, <1>2, <1>3, LoopKeeps
<1>4. CASE RouteCommand
  BY <1>1, <1>2, <1>4, RouteKeeps
<1>5. CASE RequesterStep
  BY <1>1, <1>2, <1>5, RequesterKeeps
<1>6. CASE Receive
  BY <1>1, <1>2, <1>6, ReceiveKeeps
<1>7. CASE Remote
  BY <1>1, <1>2, <1>7, RemoteKeeps
<1>8. CASE LeaveLoop \/ Close \/ ShutDown
  BY <1>1, <1>2, <1>8 DEF LeaveLoop, Close, Abort, SayBye, FinishClose, ShutDown, Serving
<1> QED
  BY <1>3, <1>4, <1>5, <1>6, <1>7, <1>8 DEF BridgeNext

\* KnowsWhetherItRecords for every number of commands, ticks, calls and frames, and whatever the
\* session refuses: on a connection without an error, bridge.rs' flag and the toggle of the window
\* agree with the runtime whenever no call about the recording is under way.
THEOREM WorkerKnowsWhetherItRecords ==
  ASSUME ViewerIsKnown, Requester \in Callers
  PROVE  BridgeSpec => []KnowsWhetherItRecords
<1>1. BridgeInit => BridgeInv
  BY BridgeStarts
<1>2. BridgeInv /\ [BridgeNext]_bridgeVars => BridgeInv'
  <2>1. ASSUME BridgeInv, BridgeNext PROVE BridgeInv'
    BY <2>1, BridgeSteps
  <2>2. ASSUME BridgeInv, UNCHANGED bridgeVars PROVE BridgeInv'
    <3>1. UNCHANGED clientVars /\ UNCHANGED << clicks, shown, loop, jobs, todo, flag >>
      BY <2>2 DEF bridgeVars
    <3>2. UNCHANGED << calls, lastId, slot, rx, toClient, up, recording, abandoned, excuses >>
      BY <3>1 DEF clientVars
    <3>3. (ViewerTyped' <=> ViewerTyped) /\ (ConnectionInv' <=> ConnectionInv)
      BY <3>1, ClientStays
    <3>4. WorkerTyped' <=> WorkerTyped
      BY <3>1 DEF WorkerTyped
    <3>5. JobsInv' <=> JobsInv
      BY <3>1, <3>2 DEF JobsInv, Taken
    <3>6. RecordingInv' <=> RecordingInv
      BY <3>1, <3>2 DEF RecordingInv, UnderWay
    <3>7. Serving' <=> Serving
      BY <3>1, <3>2 DEF Serving
    <3> QED
      BY <2>2, <3>3, <3>4, <3>5, <3>6, <3>7 DEF BridgeInv, WorkerInv
  <2> QED
    BY <2>1, <2>2
<1>3. BridgeInv => KnowsWhetherItRecords
  <2>1. SUFFICES ASSUME BridgeInv, Settled, excuses = {} PROVE flag = recording /\ shown = recording
    BY DEF KnowsWhetherItRecords
  <2>2. Serving /\ 3 <= lastId /\ calls[Requester].pc = "idle"
    BY <2>1 DEF Settled, Serving, Between, At
  <2>3. RecordingInv /\ ~ UnderWay
    BY <2>1, <2>2 DEF BridgeInv, WorkerInv, UnderWay
  <2> QED
    BY <2>2, <2>3 DEF RecordingInv
<1> QED
  BY <1>1, <1>2, <1>3, PTL DEF BridgeSpec
=============================================================================
