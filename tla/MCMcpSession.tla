----------------------------- MODULE MCMcpSession -----------------------------
(* McpSession for TLC: the cfg files give the constants their values. *)
EXTENDS McpSession
=============================================================================
