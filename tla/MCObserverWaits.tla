--------------------------- MODULE MCObserverWaits ---------------------------
(***************************************************************************)
(* Request tasks waiting on one window: one task with time to pass between *)
(* its start and its deadline, or two tasks that share its registrations.  *)
(***************************************************************************)
EXTENDS ObserverWaits, TLC

\* wait_for_quiet and observe after an action.
TimedPlans  == {<< "change", TRUE >>, << "quiet", TRUE >>}
\* wait_for_change and observe(timeout), from the watermark at their start.
SharedPlans == {<< "change", FALSE >>, << "sample", FALSE >>}

\* Nothing names a task.
Symmetric == Permutations(Waiters)
==============================================================================
