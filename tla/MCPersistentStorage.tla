------------------------ MODULE MCPersistentStorage ------------------------
(* Small instances of PersistentStorage for TLC.                           *)
EXTENDS PersistentStorage

CONSTANTS u1, u2, u3, ticker0, main0

============================================================================
