-------------------------- MODULE MCMetricsHandler --------------------------
(* Small instances of MetricsHandler for TLC.                              *)
EXTENDS MetricsHandler

CONSTANTS q1, q2, q3, n0, n1, n2, v1, v2

\* One client input per case the handlers tell apart.
ClientInputs ==
    { [route |-> "path",    metrics |-> <<Gauge(n1, v1)>>],
      [route |-> "path",    metrics |-> <<Gauge(n2, NaN)>>],
      [route |-> "path",    metrics |-> <<Counter(n1, 1)>>],
      [route |-> "path",    metrics |-> <<Counter(NoName, 1)>>],
      [route |-> "path",    metrics |-> Nil],
      [route |-> "update",  metrics |-> <<Gauge(n1, v2)>>],
      [route |-> "update",  metrics |-> <<Counter(n1, 1)>>],
      [route |-> "update",  metrics |-> <<Counter(NoName, 1)>>],
      [route |-> "updates", metrics |-> <<Counter(n1, 1), Gauge(n1, v2), Counter(n1, 1)>>],
      [route |-> "updates", metrics |-> <<Counter(n1, 1), Counter(n2, Nil)>>],
      [route |-> "updates", metrics |-> <<>>],
      [route |-> "value",   metrics |-> <<Counter(n1, Nil)>>],
      [route |-> "value",   metrics |-> <<Counter(NoName, Nil)>>],
      [route |-> "value",   metrics |-> <<[Gauge(n1, Nil) EXCEPT !.mtype = "other"]>>],
      [route |-> "query",   metrics |-> <<Gauge(n2, Nil)>>],
      [route |-> "list",    metrics |-> <<>>] }

RequestSymmetry == Permutations(Requests)

============================================================================
