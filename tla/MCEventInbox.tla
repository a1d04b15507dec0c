---------------------------- MODULE MCEventInbox ----------------------------
(***************************************************************************)
(* Two concurrent requests, one agent that wants everything or only the    *)
(* notifications, and few enough numbers to try every interleaving.        *)
(***************************************************************************)
EXTENDS EventInbox

MCFilters ==
  {{"window", "notification", "closed", "action"}, {"notification", "closed"}}
=============================================================================
