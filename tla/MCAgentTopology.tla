--------------------------- MODULE MCAgentTopology ---------------------------
(* Model-checking instance of AgentTopology: values are in the cfg files. *)
EXTENDS AgentTopology
=============================================================================
