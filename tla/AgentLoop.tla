------------------------------- MODULE AgentLoop -------------------------------
(***************************************************************************)
(* The control loop of adesk-agent: a job asks the provider for decisions, *)
(* turns each into bounded calls of the runtime, retries, recovers and     *)
(* counts; watch mode waits for events and runs one job per wakeup. One    *)
(* task: a step of the model is what happens up to the next await.         *)
(***************************************************************************)
EXTENDS Naturals, Sequences, FiniteSets

CONSTANTS
    Decisions,      \* what the provider may decide, "finish" apart
    Accessible,     \* LoopConfig::include_accessibility
    MaxSteps, Retries, MaxFailures,     \* budgets of a job, the last positive
    MaxIdleWaits, MaxWakeups,           \* budgets of a watch, finite and positive
    StepTimeout, WaitTimeout            \* in units of one clock

VARIABLES
    mode,        \* "job" for run, "watch" for run_watch
    doing,       \* what is awaited: "ping", "event", "decision" or "call"; "off", "over"
    job,         \* [steps, failed, from]: failed in a row, and the history before the job
    retry,       \* attempts made again for the call or decision awaited
    callsLeft,        \* calls left of the decision
    execution,   \* [invoke, action, attempts, noted] of the step; invoke: it is an invocation
    history,     \* steps recorded, as [status, invoke, action, noted]
    note,        \* last_error: "none", "error" or "note"
    metrics,     \* [failures, recoveries, lastFailed]
    effects,     \* per action of the runtime, the step that asked for it
    idleWaits,
    waits,       \* results of the waits so far, "idle" or "woke"
    waited,      \* time since the wait began
    jobVerdict, verdict    \* why the last job and the whole run ended

agentVars == << mode, doing, job, retry, callsLeft, execution, history, note, metrics, effects,
                idleWaits, waits, waited, jobVerdict, verdict >>

NoExecution == [invoke |-> FALSE, action |-> 0, attempts |-> 0, noted |-> FALSE]
NewJob == [steps |-> 0, failed |-> 0, from |-> Len(history)]

AgentInit ==
    /\ mode \in {"job", "watch"} /\ doing = "off" /\ job = [steps |-> 0, failed |-> 0, from |-> 0]
    /\ retry = 0 /\ callsLeft = << >> /\ execution = NoExecution /\ history = << >> /\ note = "none"
    /\ metrics = [failures |-> 0, recoveries |-> 0, lastFailed |-> FALSE] /\ effects = << >>
    /\ idleWaits = 0 /\ waits = << >> /\ waited = 0 /\ jobVerdict = "none" /\ verdict = "none"

step == << retry, callsLeft, execution >>
record == << history, note, metrics, effects >>
watch == << idleWaits, waits, waited >>

Stop(why) == doing' = "over" /\ verdict' = why

-----------------------------------------------------------------------------
(* Jobs.                                                                   *)

Woken == Cardinality({i \in DOMAIN waits : waits[i] = "woke"})

\* An outcome ends run, and returns a watch to its next wait.
JobEnds(why) ==
    /\ jobVerdict' = why
    /\ IF mode = "job" THEN Stop(why)
       ELSE IF Woken >= MaxWakeups THEN Stop("wakeup_budget")
       ELSE doing' = "event" /\ UNCHANGED verdict

\* The head of the loop, with `taken` steps behind it.
NextStep(taken) ==
    IF taken < MaxSteps THEN doing' = "decision" /\ UNCHANGED << jobVerdict, verdict >>
    ELSE JobEnds("step_budget")

Start ==
    /\ doing = "off" /\ doing' = "ping"
    /\ UNCHANGED << mode, job, step, record, watch, jobVerdict, verdict >>

\* validate_runtime: no retry.
Ping ==
    /\ doing = "ping"
    /\ \/ IF mode = "watch" THEN doing' = "event" /\ UNCHANGED << jobVerdict, verdict >> ELSE NextStep(0)
       \/ Stop("error") /\ UNCHANGED jobVerdict
    /\ UNCHANGED << mode, job, step, record, watch >>

-----------------------------------------------------------------------------
(* The provider.                                                           *)

Observation == IF Accessible THEN << "observe", "tree" >> ELSE << "observe" >>

\* launch_app reads like list_apps here: the loop keeps nothing of its answer.
CallsOf(decision) ==
    CASE decision = "input"    -> << "act" >> \o Observation
      [] decision = "activate" -> << "act" >>
      [] decision = "read"     -> << "read" >>
      [] decision = "observe"  -> Observation
      [] decision \in {"tree", "invoke"} -> IF Accessible THEN << decision >> ELSE << >>

\* A closed gate leaves a note.
Decided ==
    \E decision \in Decisions :
        /\ doing' = "call" /\ retry' = 0 /\ callsLeft' = CallsOf(decision)
        /\ execution' = [NoExecution EXCEPT !.invoke = (decision = "invoke"),
                                            !.noted = (callsLeft' = << >>)]
        /\ note' = IF callsLeft' = << >> THEN "note" ELSE note
        /\ UNCHANGED << job, history, jobVerdict, verdict >>

Entry(status, done) ==
    [status |-> status, invoke |-> done.invoke, action |-> done.action, noted |-> done.noted]

Finish ==
    /\ history' = Append(history, Entry("finished", NoExecution))
    /\ job' = [job EXCEPT !.steps = @ + 1] /\ retry' = 0
    /\ JobEnds("finished") /\ UNCHANGED << callsLeft, execution, note >>

\* A transient failure is tried again; any other, and one too many, ends the run.
ProviderFails ==
    /\ \/ retry < Retries /\ retry' = retry + 1 /\ UNCHANGED << doing, verdict >>
       \/ Stop("error") /\ UNCHANGED retry
    /\ UNCHANGED << job, history, jobVerdict, callsLeft, execution, note >>

Decide ==
    /\ doing = "decision" /\ (Decided \/ Finish \/ ProviderFails)
    /\ UNCHANGED << mode, metrics, effects, watch >>

-----------------------------------------------------------------------------
(* Calls.                                                                  *)

Acts == {"act", "invoke"}       \* calls that return an action id
ThisStep == Len(history) + 1

Answered(call) ==
    /\ callsLeft' = Tail(callsLeft) /\ retry' = 0
    /\ IF call \in Acts
       THEN /\ effects' = Append(effects, ThisStep)
            /\ execution' = [execution EXCEPT !.action = Len(effects')]
       ELSE UNCHANGED << effects, execution >>
    /\ UNCHANGED << doing, job, history, note, metrics, jobVerdict, verdict >>

\* degrade_accessibility: no failure, only a note. The server records an invocation before it makes
\* it, and takes an element that does not answer, or whose program leaves, for one that is gone: the
\* action may have been performed.
Degraded(call) ==
    /\ call \in {"tree", "invoke"} /\ callsLeft' = Tail(callsLeft) /\ retry' = 0
    /\ note' = "note" /\ execution' = [execution EXCEPT !.noted = TRUE]
    /\ \/ UNCHANGED effects
       \/ call = "invoke" /\ effects' = Append(effects, ThisStep)
    /\ UNCHANGED << doing, job, history, metrics, jobVerdict, verdict >>

\* record_step of a failure. The refresh of the window list changes no state of the loop.
FailStep(done, class) ==
    /\ history' = Append(history, Entry("failed", done)) /\ note' = "error"
    /\ retry' = 0 /\ callsLeft' = << >> /\ execution' = NoExecution
    /\ IF class = "fatal" THEN Stop("error") /\ UNCHANGED << job, jobVerdict >>
       ELSE /\ job' = [job EXCEPT !.steps = @ + 1, !.failed = @ + 1]
            /\ IF job'.failed >= MaxFailures THEN JobEnds("failure_budget") ELSE NextStep(job'.steps)

\* Mutant of Tried: the retries of the last call count, not the attempts that failed.
RetriesCount(done) == [done EXCEPT !.attempts = retry]

\* client_call! counts every attempt that failed.
Tried(done) == [done EXCEPT !.attempts = @ + 1]

\* An error, or the step's deadline, which is fatal. Either may hide an action that was performed.
CallFails(call) ==
    /\ \/ UNCHANGED effects
       \/ call \in Acts /\ effects' = Append(effects, ThisStep)
    /\ metrics' = [metrics EXCEPT !.failures = @ + 1, !.lastFailed = TRUE]
    /\ \/ /\ retry < Retries /\ retry' = retry + 1 /\ execution' = Tried(execution)
          /\ UNCHANGED << doing, job, callsLeft, history, note, jobVerdict, verdict >>
       \/ retry >= Retries /\ FailStep(Tried(execution), "retryable")
       \/ \E class \in {"recoverable", "fatal"} : FailStep(Tried(execution), class)

Call ==
    /\ doing = "call" /\ callsLeft /= << >>
    /\ LET call == Head(callsLeft) IN Answered(call) \/ Degraded(call) \/ CallFails(call)
    /\ UNCHANGED << mode, watch >>

StatusOf(done) == IF done.attempts > 0 THEN "recovered" ELSE "ok"

\* record_step of a success, which clears last_error.
CompleteStep ==
    /\ doing = "call" /\ callsLeft = << >>
    /\ history' = Append(history, Entry(StatusOf(execution), execution)) /\ note' = "none"
    /\ metrics' = [metrics EXCEPT !.lastFailed = FALSE,
                     !.recoveries = IF metrics.lastFailed THEN @ + 1 ELSE @]
    /\ execution' = NoExecution
    /\ job' = [job EXCEPT !.steps = @ + 1, !.failed = 0] /\ NextStep(job'.steps)
    /\ UNCHANGED << mode, retry, callsLeft, effects, watch >>

-----------------------------------------------------------------------------
(* Watching.                                                               *)

TimePasses ==
    /\ doing = "event" /\ waited < StepTimeout /\ waited' = waited + 1
    /\ UNCHANGED << mode, doing, job, step, record, idleWaits, waits, jobVerdict, verdict >>

\* The runtime's own timer has fired.
StayIdle ==
    /\ doing = "event" /\ waited >= WaitTimeout
    /\ idleWaits' = idleWaits + 1 /\ waits' = Append(waits, "idle") /\ waited' = 0
    /\ IF idleWaits' >= MaxIdleWaits THEN Stop("idle_budget") ELSE UNCHANGED << doing, verdict >>
    /\ UNCHANGED << mode, job, step, record, jobVerdict >>

\* Mutant of IdleAfterWakeup: idle waits add up over wakeups.
IdleAddsUp == idleWaits

IdleAfterWakeup == 0

WakeUp ==
    /\ doing = "event"
    /\ idleWaits' = IdleAfterWakeup /\ waits' = Append(waits, "woke") /\ waited' = 0
    /\ job' = NewJob
    /\ IF MaxSteps > 0 THEN doing' = "decision" /\ jobVerdict' = "none" /\ UNCHANGED verdict
       ELSE /\ jobVerdict' = "step_budget"
            /\ IF Woken + 1 >= MaxWakeups THEN Stop("wakeup_budget") ELSE UNCHANGED << doing, verdict >>
    /\ UNCHANGED << mode, step, record >>

\* An error of the wait, of any class, or the step's deadline around it, ends the watch.
WaitFails ==
    /\ doing = "event"
    /\ Stop("error") \/ (waited >= StepTimeout /\ Stop("step_timeout"))
    /\ UNCHANGED << mode, job, step, record, watch, jobVerdict >>

-----------------------------------------------------------------------------

AgentNext == Start \/ Ping \/ Decide \/ Call \/ CompleteStep \/ TimePasses \/ StayIdle \/ WakeUp \/ WaitFails

AgentSpec == AgentInit /\ [][AgentNext]_agentVars

-----------------------------------------------------------------------------
(* Properties.                                                             *)

\* The last n of s are all in `which`.
EndsWith(s, n, which) == n <= Len(s) /\ \A i \in Len(s) - n + 1 .. Len(s) : s[i] \in which

OfThisJob == [i \in 1 .. Len(history) - job.from |-> history[job.from + i].status]

\* A job and a watch stop for a budget when it is spent, not before and not after: failures and
\* idle waits count in a row, a job's failures do not carry over, and a job that failed does not
\* end the watch (mod.rs, run_body and run_watch).
StopsAsTold ==
    LET spent == EndsWith(OfThisJob, MaxFailures, {"failed"})
        quiet == EndsWith(waits, MaxIdleWaits, {"idle"})
    IN  /\ jobVerdict = "failure_budget" /\ doing \in {"event", "over"} => spent
        /\ doing = "decision" => ~spent /\ Len(OfThisJob) < MaxSteps
        /\ verdict = "idle_budget" => quiet
        /\ verdict = "wakeup_budget" => Woken = MaxWakeups
        /\ doing = "event" => ~quiet /\ Woken < MaxWakeups

\* An invocation recorded as a success without an action: the gate was closed, or it was degraded.
Unsure(recorded) == recorded.invoke /\ recorded.action = 0

\* What the runtime did for the agent can be told from its record: a recorded step names the action
\* it caused, or a failed attempt stands behind it, or it is an invocation that names no action,
\* which may have been performed though its step counts as a success.
EffectsAreOnRecord ==
    \A a \in DOMAIN effects : effects[a] <= Len(history) =>
        LET recorded == history[effects[a]] IN
        \/ recorded.action = a
        \/ recorded.status \in {"recovered", "failed"}
        \/ Unsure(recorded)

\* Does not hold, a degraded invocation leaves no trace of what it did. execute.rs:694-695: a
\* missing, stale or unsupported backend is a benign no-op.
DegradedIsANoOp ==
    \A a \in DOMAIN effects : effects[a] <= Len(history) =>
        LET recorded == history[effects[a]] IN
        recorded.status = "ok" => ~Unsure(recorded)

\* Does not hold when the two timers are equal, as they are by default (30 s each: config.rs:45,
\* watch.rs:88): the step's deadline, which starts first, can end the watch before the runtime
\* answers. watch.rs:10: a wait that timed out stays idle. watch.rs:46-47: until the runtime
\* disconnects or a fatal error.
QuietNeverEndsAWatch == verdict = "step_timeout" => waited > WaitTimeout

\* Does not hold, waking up resets the counter. watch.rs:128: idle_waits is the total.
IdleWaitsAreTotal == idleWaits = Len(waits) - Woken

\* Does not hold, record_step clears last_error after the note was left. mod.rs:43-45: a gated or
\* degraded accessibility decision leaves a note to the agent.
NotesReachTheAgent ==
    doing = "decision" /\ history /= << >> =>
        LET last == history[Len(history)] IN last.noted /\ last.status /= "failed" => note = "note"

\* Does not hold, every attempt counts. metrics.rs:16: failures are the steps that errored.
FailuresAreSteps == metrics.failures <= Len(history) + 1
=============================================================================
