---------------------------- MODULE MCMachineInfo ---------------------------
(* Two attempts, three links and two calls of the service.                 *)
EXTENDS MachineInfo
=============================================================================
