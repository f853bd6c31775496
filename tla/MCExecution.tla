---------------------------- MODULE MCExecution ----------------------------
(* Execution, for TLC: its constants are numbers. *)
EXTENDS Execution
=============================================================================
