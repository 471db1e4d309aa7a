---------------------------- MODULE MCAgentTeams ----------------------------
(* Small instances of AgentTeams for TLC.                                   *)
EXTENDS AgentTeams, TLC
=============================================================================
