----------------------------- MODULE MCAgentTurn -----------------------------
(* Small instances of AgentTurn; the configurations give the bounds.       *)
EXTENDS AgentTurn
=============================================================================
