--------------------------- MODULE MCAgentBroker ---------------------------
(* Values of the constants for the run of AgentBroker. *)
EXTENDS AgentBroker
=============================================================================
