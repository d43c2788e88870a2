---------------------------- MODULE MCTelemetry -----------------------------
(* Two grind sizes; one lost notification, a lost link and two presses.   *)
EXTENDS Telemetry
=============================================================================
