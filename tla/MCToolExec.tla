------------------------------ MODULE MCToolExec ------------------------------
(* ToolExec for TLC. *)
EXTENDS ToolExec
=============================================================================
