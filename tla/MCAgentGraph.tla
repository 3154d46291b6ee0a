---------------------------- MODULE MCAgentGraph -----------------------------
(* Every graph over two signal agents and a decision agent. *)
EXTENDS AgentGraph

CONSTANTS technical, sentiment, decision
=============================================================================
