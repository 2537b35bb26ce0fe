--------------------------- MODULE MCAgentReport ---------------------------
(* Small instances of AgentReport for TLC.                                 *)
EXTENDS AgentReport

CONSTANTS l1   \* a place for one abandoned request

============================================================================
