--------------------------- MODULE PostgresStore ---------------------------
(***************************************************************************)
(* The Postgres storage of the metrics server                              *)
(* (internal/repository/postgres.go): UpdateMetrics runs a transaction     *)
(* that upserts the metrics of a batch one after the other and commits,    *)
(* and retryPostgresConnection runs all of it again when the connection    *)
(* breaks.  UpdateGauge and AddCounter are batches of one metric here: one *)
(* statement that commits itself.                                          *)
(*                                                                         *)
(* The database is external and modelled by what the code relies on: READ  *)
(* COMMITTED with row locks held to the end of the transaction, a deadlock *)
(* detector, and sessions that outlive a broken connection until the       *)
(* server notices.  A row is the sequence of the updates in it.            *)
(***************************************************************************)
EXTENDS Naturals, Sequences, FiniteSets

CONSTANTS
    Requests,     \* calls of UpdateMetrics by handlers
    Rows,         \* metrics
    Batch,        \* Batch[r]: the metrics of request r, in the order of its body
    MaxAttempts   \* 1 + len(postgresRetryDelays): 4

ASSUME PostgresAssumption ==
    /\ Batch \in [Requests -> Seq(Rows)]
    /\ MaxAttempts \in Nat \ {0}

\* A database session: the transaction of one attempt of a request.
Sessions == Requests \X (1..MaxAttempts)

VARIABLES
    pc,       \* per request: where UpdateMetrics is
    attempt,  \* per request: calls of updateMetrics so far
    gone,     \* requests whose context is done: the client has left
    state,    \* per session: its state at the database
    done,     \* per session: statements executed
    rows,     \* per metric: the committed updates
    applied,  \* per request: sessions committed
    lost      \* history: requests whose connection broke during a commit

clientVars == <<pc, attempt, gone>>
vars == <<clientVars, state, done, rows, applied, lost>>

TypeOK ==
    /\ pc \in [Requests -> {"new", "begin", "exec", "commit", "backoff", "acked", "failed"}]
    /\ attempt \in [Requests -> 0..MaxAttempts]
    /\ \A r \in Requests : pc[r] # "new" => attempt[r] > 0
    /\ gone \subseteq Requests
    /\ state \in [Sessions -> {"none", "open", "cut", "commit", "unknown",
                               "committed", "aborted"}]
    /\ done \in [Sessions -> Nat]
    /\ \A s \in Sessions : done[s] <= Len(Batch[s[1]])
    /\ rows \in [Rows -> Seq(Requests)]
    /\ applied \in [Requests -> Nat]
    /\ lost \subseteq Requests

Init ==
    /\ pc = [r \in Requests |-> "new"]
    /\ attempt = [r \in Requests |-> 0]
    /\ gone = {}
    /\ state = [s \in Sessions |-> "none"]
    /\ done = [s \in Sessions |-> 0]
    /\ rows = [x \in Rows |-> <<>>]
    /\ applied = [r \in Requests |-> 0]
    /\ lost = {}

----------------------------------------------------------------------------
(* Locks.                                                                  *)

Session(r) == <<r, attempt[r]>>
NextRow(s) == Batch[s[1]][done[s] + 1]

\* A session locks the rows it has upserted until it ends, wherever its client is.
Holds(s, x) ==
    /\ state[s] \in {"open", "cut", "commit", "unknown"}
    /\ \E i \in 1..done[s] : Batch[s[1]][i] = x

Executing(r) == pc[r] = "exec" /\ done[Session(r)] < Len(Batch[r])

\* s executes an upsert that waits for a row t holds.
WaitsFor(s, t) ==
    /\ s # t
    /\ pc[s[1]] = "exec" /\ s = Session(s[1]) /\ Executing(s[1])
    /\ Holds(t, NextRow(s))

\* s is one of a circle of sessions that wait for each other.
Deadlocked(s) ==
    \E C \in SUBSET {Session(r) : r \in {q \in Requests : Executing(q)}} :
        /\ s \in C
        /\ \A t \in C : \E u \in C : WaitsFor(t, u)
        /\ \A t \in C : \E u \in C : WaitsFor(u, t)

----------------------------------------------------------------------------
(* UpdateMetrics.                                                          *)

Call(r) ==
    /\ pc[r] = "new"
    /\ pc' = [pc EXCEPT ![r] = "begin"]
    /\ attempt' = [attempt EXCEPT ![r] = 1]
    /\ UNCHANGED <<gone, state, done, rows, applied, lost>>

BeginTx(r) ==
    /\ pc[r] = "begin"
    /\ r \notin gone
    /\ pc' = [pc EXCEPT ![r] = "exec"]
    /\ state' = [state EXCEPT ![Session(r)] = "open"]
    /\ UNCHANGED <<attempt, gone, done, rows, applied, lost>>

\* Faulty variants of the definitions below end in _...: each is a slip the
\* properties must detect.  Here: the statement runs outside the transaction.
Upsert_OutsideTx(r) ==
    /\ Executing(r)
    /\ \A t \in Sessions \ {Session(r)} : ~Holds(t, NextRow(Session(r)))
    /\ done' = [done EXCEPT ![Session(r)] = @ + 1]
    /\ rows' = [rows EXCEPT ![NextRow(Session(r))] = Append(@, r)]
    /\ UNCHANGED <<clientVars, state, applied, lost>>

\* INSERT ... ON CONFLICT DO UPDATE: waits while another session holds the row.
Upsert(r) ==
    /\ Executing(r)
    /\ \A t \in Sessions \ {Session(r)} : ~Holds(t, NextRow(Session(r)))
    /\ done' = [done EXCEPT ![Session(r)] = @ + 1]
    /\ UNCHANGED <<clientVars, state, rows, applied, lost>>

SendCommit(r) ==
    /\ pc[r] = "exec"
    /\ ~Executing(r)
    /\ r \notin gone
    /\ pc' = [pc EXCEPT ![r] = "commit"]
    /\ state' = [state EXCEPT ![Session(r)] = "commit"]
    /\ UNCHANGED <<attempt, gone, done, rows, applied, lost>>

\* Faulty: the result of the commit is not looked at.
CommitReturns_Ignored(r) ==
    /\ pc[r] = "commit"
    /\ pc' = [pc EXCEPT ![r] = "acked"]
    /\ UNCHANGED <<attempt, gone, state, done, rows, applied, lost>>

CommitReturns(r) ==
    /\ pc[r] = "commit"
    /\ state[Session(r)] = "committed"
    /\ pc' = [pc EXCEPT ![r] = "acked"]
    /\ UNCHANGED <<attempt, gone, state, done, rows, applied, lost>>

\* Faulty: no deferred tx.Rollback().
Rollback_Missing(r) == UNCHANGED state

\* The deferred tx.Rollback(), also what database/sql does when ctx is done.
Rollback(r) == state' = [state EXCEPT ![Session(r)] = "aborted"]

\* An error that isPostgresConnectionError does not recognise, a deadlock among
\* them: no retry.
StatementFails(r) ==
    /\ Executing(r)
    /\ pc' = [pc EXCEPT ![r] = "failed"]
    /\ Rollback(r)
    /\ UNCHANGED <<attempt, gone, done, rows, applied, lost>>

DeadlockVictim(r) == Deadlocked(Session(r)) /\ StatementFails(r)

\* Faulty: one attempt too many.
ConnectionError_ExtraAttempt(r) ==
    pc' = [pc EXCEPT ![r] = IF attempt[r] <= MaxAttempts THEN "backoff" ELSE "failed"]

\* driver.ErrBadConn or SQLSTATE class 08: another attempt, if there is one left.
ConnectionError(r) ==
    pc' = [pc EXCEPT ![r] = IF attempt[r] < MaxAttempts THEN "backoff" ELSE "failed"]

ConnectFails(r) ==
    /\ pc[r] = "begin"
    /\ ConnectionError(r)
    /\ UNCHANGED <<attempt, gone, state, done, rows, applied, lost>>

\* The connection breaks in the transaction; the session is left to the server.
\* The error may also be one that is not retried.
ConnectionBreaks(r) ==
    /\ pc[r] \in {"exec", "commit"}
    /\ ConnectionError(r) \/ pc' = [pc EXCEPT ![r] = "failed"]
    /\ state' = [state EXCEPT ![Session(r)] =
                    CASE @ = "open"   -> "cut"
                      [] @ = "commit" -> "unknown"
                      [] OTHER        -> @]
    /\ lost' = IF pc[r] = "commit" THEN lost \cup {r} ELSE lost
    /\ UNCHANGED <<attempt, gone, done, rows, applied>>

\* retry.Sleep returns after the delay.
WakeUp(r) ==
    /\ pc[r] = "backoff"
    /\ pc' = [pc EXCEPT ![r] = "begin"]
    /\ attempt' = [attempt EXCEPT ![r] = @ + 1]
    /\ UNCHANGED <<gone, state, done, rows, applied, lost>>

ClientLeaves(r) ==
    /\ r \notin gone
    /\ pc[r] \notin {"new", "acked", "failed"}
    /\ gone' = gone \cup {r}
    /\ UNCHANGED <<pc, attempt, state, done, rows, applied, lost>>

\* ctx is done: BeginTx, a statement, Commit or the pause returns its error.
Cancelled(r) ==
    /\ r \in gone
    /\ pc[r] \in {"begin", "exec", "backoff"}
    /\ pc' = [pc EXCEPT ![r] = "failed"]
    /\ IF pc[r] = "exec" THEN Rollback(r) ELSE UNCHANGED state
    /\ UNCHANGED <<attempt, gone, done, rows, applied, lost>>

----------------------------------------------------------------------------
(* The database.                                                           *)

Copies(r, x) ==
    [i \in 1..Cardinality({j \in DOMAIN Batch[r] : Batch[r][j] = x}) |-> r]

\* The commit takes effect, whether or not somebody waits for the answer.
Commit(s) ==
    /\ state[s] \in {"commit", "unknown"}
    /\ state' = [state EXCEPT ![s] = "committed"]
    /\ rows' = [x \in Rows |-> rows[x] \o Copies(s[1], x)]
    /\ applied' = [applied EXCEPT ![s[1]] = @ + 1]
    /\ UNCHANGED <<clientVars, done, lost>>

\* The server notices that the client of a session is no longer there.
Abandon(s) ==
    /\ state[s] \in {"cut", "unknown"}
    /\ state' = [state EXCEPT ![s] = "aborted"]
    /\ UNCHANGED <<clientVars, done, rows, applied, lost>>

----------------------------------------------------------------------------

Step(r) ==
    \/ BeginTx(r) \/ Upsert(r) \/ SendCommit(r) \/ CommitReturns(r)
    \/ DeadlockVictim(r) \/ WakeUp(r) \/ Cancelled(r)

Fault(r) ==
    StatementFails(r) \/ ConnectFails(r) \/ ConnectionBreaks(r) \/ ClientLeaves(r)

Answered == (\A r \in Requests : pc[r] \in {"acked", "failed"}) /\ UNCHANGED vars

Next ==
    \/ \E r \in Requests : Call(r) \/ Step(r) \/ Fault(r)
    \/ \E s \in Sessions : Commit(s) \/ Abandon(s)
    \/ Answered

Spec == Init /\ [][Next]_vars

\* Goroutines are scheduled, statements that need not wait return, the deadlock
\* detector runs, commits are carried out, broken connections are noticed.
Fairness ==
    /\ \A r \in Requests : WF_vars(Step(r))
    /\ \A s \in Sessions : WF_vars(Commit(s) \/ Abandon(s))

FairSpec == Spec /\ Fairness

----------------------------------------------------------------------------
(* Properties.                                                             *)

\* While the connection does not break during the commit, the answer tells what
\* happened: a batch that was answered with success is applied exactly once, and
\* one that was answered with an error is not, however many attempts it took,
\* deadlocks and clients that leave included.
AnswerIsExact ==
    \A r \in Requests \ lost :
        /\ pc[r] = "acked" => applied[r] = 1
        /\ pc[r] = "failed" => applied[r] = 0

Repository == INSTANCE MetricsRepository WITH
    MaxApplications <- MaxAttempts,
    answer <- [r \in Requests |-> CASE pc[r] = "acked"  -> "ok"
                                    [] pc[r] = "failed" -> "error"
                                    [] OTHER            -> "none"]

\* The storage is a repository: a batch is applied as a whole or not at all,
\* success is answered only for a batch that is applied, and retries apply it
\* at most once per attempt.
ImplementsRepository == Repository!RepositorySpec

\* Every call of UpdateMetrics returns: batches in opposite orders, rows locked
\* by a session whose client is gone and clients that leave hold nobody up for
\* ever.
EveryCallReturns ==
    \A r \in Requests : pc[r] = "begin" ~> pc[r] \in {"acked", "failed"}

============================================================================
