---------------------------- MODULE MCAgentLoop ----------------------------
(* The agent's schedule on one host beside another; the cfg gives the clock. *)
EXTENDS AgentLoop
=============================================================================
