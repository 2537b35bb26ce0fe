-------------------------- MODULE MCMetricsServer --------------------------
(* Small instances of MetricsServer for TLC.                               *)
EXTENDS MetricsServer

CONSTANTS u1, u2, u3, ticker0, main0

============================================================================
