-------------------------- MODULE MCExecutionLogs --------------------------
(* Instances of ExecutionLogs for TLC. *)
EXTENDS ExecutionLogs
=============================================================================
