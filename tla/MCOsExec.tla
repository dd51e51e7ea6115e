------------------------------- MODULE MCOsExec -------------------------------
(* OsExec for TLC: the cfg files give the constants their values. *)
EXTENDS OsExec
=============================================================================
