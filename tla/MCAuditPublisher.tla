-------------------------- MODULE MCAuditPublisher --------------------------
(* Small instances of AuditPublisher for TLC.                              *)
EXTENDS AuditPublisher

CONSTANTS e1, e2, e3

============================================================================
