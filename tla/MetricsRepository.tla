------------------------- MODULE MetricsRepository -------------------------
(***************************************************************************)
(* What a repository promises to the handlers that update it               *)
(* (repository.MetricsRepository), without saying how: a batch is applied  *)
(* as a whole, success is answered only for a batch that was applied, and  *)
(* no batch is applied more than MaxApplications times.  It may be applied *)
(* although an error is answered, also after the answer.                   *)
(***************************************************************************)
EXTENDS Naturals, Sequences, FiniteSets

CONSTANTS
    Requests,        \* the updates; each is one call of UpdateMetrics
    Rows,            \* the metrics
    Batch,           \* Batch[r]: the metrics that r updates, in its order
    MaxApplications

VARIABLES
    rows,     \* per metric: the updates in its value; a counter is their sum,
              \* a gauge the value of the last one
    applied,  \* per update: how often it was applied
    answer    \* per update: what its caller was told

repositoryVars == <<rows, applied, answer>>

\* The updates of row x in the batch of r: one per occurrence.
Copies(r, x) ==
    [i \in 1..Cardinality({j \in DOMAIN Batch[r] : Batch[r][j] = x}) |-> r]

RepositoryInit ==
    /\ rows = [x \in Rows |-> <<>>]
    /\ applied = [r \in Requests |-> 0]
    /\ answer = [r \in Requests |-> "none"]

Apply(r) ==
    /\ applied[r] < MaxApplications
    /\ applied' = [applied EXCEPT ![r] = @ + 1]
    /\ rows' = [x \in Rows |-> rows[x] \o Copies(r, x)]
    /\ UNCHANGED answer

AnswerOK(r) ==
    /\ answer[r] = "none"
    /\ applied[r] > 0
    /\ answer' = [answer EXCEPT ![r] = "ok"]
    /\ UNCHANGED <<rows, applied>>

AnswerError(r) ==
    /\ answer[r] = "none"
    /\ answer' = [answer EXCEPT ![r] = "error"]
    /\ UNCHANGED <<rows, applied>>

RepositoryNext ==
    \E r \in Requests : Apply(r) \/ AnswerOK(r) \/ AnswerError(r)

RepositorySpec == RepositoryInit /\ [][RepositoryNext]_repositoryVars

=============================================================================
