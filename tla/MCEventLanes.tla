---------------------------- MODULE MCEventLanes ----------------------------
(* EventLanes with two commands, of which the caller follows one.          *)
EXTENDS EventLanes

CONSTANTS c1, c2
=============================================================================
