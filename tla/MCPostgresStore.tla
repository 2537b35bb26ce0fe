-------------------------- MODULE MCPostgresStore --------------------------
(* Small instances of PostgresStore for TLC.                               *)
EXTENDS PostgresStore

CONSTANTS r1, r2, a, b

\* Two batches in opposite orders, one of which names a metric twice.
CrossedBatches == [r \in {r1, r2} |-> IF r = r1 THEN <<a, b>> ELSE <<b, a, b>>]

============================================================================
