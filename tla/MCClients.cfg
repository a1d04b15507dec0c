SPECIFICATION Spec

CONSTANTS
    Parts = {"tasks", "gui", "recorder", "job", "watch"}
    a = a
    b = b
    \* the viewer's client and the worker of the GUI
    Callers = {a, b}
    Requester = a
    NoReply = NoReply
    Asks = {}
    Refusable = {"push"}
    MayAbandon = FALSE
    MaxAsks = 2
    MaxInputs = 0
    MaxPushes = 1
    MaxClicks = 1
    MaxTicks = 0
    \* the agent
    Decisions = {"input", "activate", "read", "tree", "invoke"}
    Accessible = TRUE
    MaxSteps = 3
    Retries = 1
    MaxFailures = 2
    MaxIdleWaits = 2
    MaxWakeups = 2
    StepTimeout = 1
    WaitTimeout = 1

INVARIANTS
    RepliesGoAstrayOnlyWhen
    KnowsWhetherItRecords
    StopsAsTold
    EffectsAreOnRecord

PROPERTY ClosingEndsTheSession

\* Clicks, ticks, calls and frames are bounded: an open connection ends up idle; a job ends.
CHECK_DEADLOCK FALSE
