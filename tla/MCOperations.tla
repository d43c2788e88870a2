---------------------------- MODULE MCOperations ----------------------------
(* Small instances of Operations for TLC, with the history of OperationsIntent. *)
EXTENDS OperationsIntent
=============================================================================
