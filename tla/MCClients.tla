------------------------------- MODULE MCClients -------------------------------
(***************************************************************************)
(* The client programs for TLC, in parts of one run. The viewer's client:  *)
(* two tasks that share it; the worker of the GUI against a server that    *)
(* may refuse, push, fall silent or leave; the same worker on a connection *)
(* that stays. The agent: one job, and a watch.                            *)
(***************************************************************************)
EXTENDS ViewerBridge, AgentLoop

CONSTANTS
    Parts,
    a, b

VARIABLES part

-----------------------------------------------------------------------------
(* The viewer. The worker's requester is a, and b calls nothing; the       *)
(* configuration's constants are those of the part "gui".                  *)

Tasks == INSTANCE ViewerClient WITH
    Asks <- {"status", "start", "stop"}, Refusable <- {"input"},
    MayAbandon <- TRUE, MaxAsks <- 2, MaxInputs <- 1, MaxPushes <- 0

Recorder == INSTANCE ViewerBridge WITH
    Refusable <- {"start"}, MaxAsks <- 5, MaxPushes <- 0, MaxClicks <- 2, MaxTicks <- 1

-----------------------------------------------------------------------------
(* The agent. A job with every kind of decision, as configured, and a      *)
(* watch of jobs that neither retry nor read.                              *)

Watch == INSTANCE AgentLoop WITH
    Decisions <- {"activate", "tree"}, Accessible <- FALSE, Retries <- 0

-----------------------------------------------------------------------------
(* Init and Next.                                                          *)

worker == << window, clicks, clicked, shown, loop, frames, jobs, todo, flag, ticks >>
vars == << part, bridgeVars, agentVars >>

NoWorker ==
    /\ window = TRUE /\ clicks = << >> /\ clicked = 0 /\ shown = FALSE /\ loop = "none"
    /\ frames = 0 /\ jobs = << >> /\ todo = << >> /\ flag = FALSE /\ ticks = 0

Init ==
    /\ part \in Parts /\ AgentInit /\ mode = (IF part = "watch" THEN "watch" ELSE "job")
    /\ \/ part \in {"tasks", "job", "watch"} /\ Tasks!ClientInit /\ NoWorker
       \/ part = "gui" /\ BridgeInit
       \/ part = "recorder" /\ Recorder!BridgeInit

TasksRun == part = "tasks" /\ Tasks!ClientNext /\ UNCHANGED << worker, agentVars >>
GuiRuns == part = "gui" /\ BridgeNext /\ UNCHANGED agentVars
RecorderRuns == part = "recorder" /\ Recorder!BridgeNext /\ up' /\ window' /\ UNCHANGED agentVars
JobRuns == part = "job" /\ AgentNext /\ UNCHANGED bridgeVars
WatchRuns == part = "watch" /\ Watch!AgentNext /\ UNCHANGED bridgeVars

Next ==
    /\ TasksRun \/ GuiRuns \/ RecorderRuns \/ JobRuns \/ WatchRuns
    /\ UNCHANGED part

\* Fairness of the worker; the tasks promise nothing, and without a worker none of it is enabled
\* that the tasks cannot do.
Spec == Init /\ [][Next]_vars /\ BridgeFairness
=============================================================================
