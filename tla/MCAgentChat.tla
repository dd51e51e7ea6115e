----------------------------- MODULE MCAgentChat -----------------------------
(* AgentChat for TLC. *)
EXTENDS AgentChat
=============================================================================
