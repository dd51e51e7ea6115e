------------------------------ MODULE MCSubagent ------------------------------
(* Subagent for TLC: the cfg files give the constants their values. *)
EXTENDS Subagent
=============================================================================
