--------------------------- MODULE MCEventPipeline ---------------------------
(***************************************************************************)
(* A small instance of EventPipeline: a channel of two or three events,    *)
(* which mapping a window already overflows.                               *)
(***************************************************************************)
EXTENDS EventPipeline

MCWindowIds == 1 .. 2

\* No action reads the batch of the step before.
View == << live, nextWindow, seq, reserved, channel, pumpVars, obs, actions >>
==============================================================================
