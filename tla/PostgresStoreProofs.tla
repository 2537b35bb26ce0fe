------------------------ MODULE PostgresStoreProofs ------------------------
(***************************************************************************)
(* Theorems about PostgresStore, for any number of requests and metrics,   *)
(* any batches and any number of attempts.                                 *)
(***************************************************************************)
EXTENDS PostgresStore, FiniteSetTheorems, TLAPS

----------------------------------------------------------------------------
(* The inductive invariant.                                                *)

Phases == {"new", "begin", "exec", "commit", "backoff", "acked", "failed"}
States == {"none", "open", "cut", "commit", "unknown", "committed", "aborted"}

\* The attempts of r that have been committed.
Committed(r) == {n \in 1..MaxAttempts : state[<<r, n>>] = "committed"}

\* The session of the attempt in hand is as far as UpdateMetrics is, and later
\* attempts have none yet.
SessionOK(r) ==
    /\ pc[r] = "new" => attempt[r] = 0
    /\ pc[r] \notin {"new", "failed"} => attempt[r] \in 1..MaxAttempts
    /\ pc[r] = "backoff" => attempt[r] < MaxAttempts
    /\ \A n \in 1..MaxAttempts : n > attempt[r] => state[<<r, n>>] = "none"
    /\ pc[r] = "begin" => state[Session(r)] = "none"
    /\ pc[r] = "exec" => state[Session(r)] = "open"
    /\ pc[r] = "commit" => state[Session(r)] \in {"commit", "committed"}
    /\ pc[r] = "acked" => state[Session(r)] = "committed"

SessionInv == \A r \in Requests : SessionOK(r)

\* Only the attempt whose commit is waited for can have been committed.
SingleOK(r) ==
    \A n \in 1..MaxAttempts :
        state[<<r, n>>] \in {"commit", "unknown", "committed"} =>
            pc[r] \in {"commit", "acked"} /\ n = attempt[r]

\* That holds unless the connection broke during a commit.
SingleInv == \A r \in Requests \ lost : SingleOK(r)

CountInv == \A r \in Requests : applied[r] = Cardinality(Committed(r))

StoreInv == TypeOK /\ SessionInv /\ SingleInv /\ CountInv

----------------------------------------------------------------------------
(* Counting.                                                               *)

LEMMA AttemptsFinite ==
    /\ IsFiniteSet(1..MaxAttempts) /\ Cardinality(1..MaxAttempts) = MaxAttempts
  BY PostgresAssumption, FS_Interval

LEMMA CommittedBound ==
    ASSUME NEW r \in Requests
    PROVE  /\ IsFiniteSet(Committed(r))
           /\ Cardinality(Committed(r)) \in Nat
           /\ Cardinality(Committed(r)) <= MaxAttempts
           /\ \A n \in 1..MaxAttempts : state[<<r, n>>] # "committed" =>
                 Cardinality(Committed(r)) < MaxAttempts
  <1>1. Committed(r) \in SUBSET (1..MaxAttempts)
    BY DEF Committed
  <1>2. /\ IsFiniteSet(Committed(r))
        /\ Cardinality(Committed(r)) <= MaxAttempts
        /\ Cardinality(Committed(r)) = MaxAttempts => Committed(r) = 1..MaxAttempts
    BY <1>1, AttemptsFinite, FS_Subset
  <1>3. Cardinality(Committed(r)) \in Nat
    BY <1>2, FS_CardinalityType
  <1>4. \A n \in 1..MaxAttempts : state[<<r, n>>] # "committed" => Committed(r) # 1..MaxAttempts
    BY DEF Committed
  <1>5. QED
    BY <1>2, <1>3, <1>4, PostgresAssumption

\* A batch has as many copies of a metric as it names it.
LEMMA CopiesType ==
    ASSUME NEW r \in Requests, NEW x \in Rows
    PROVE  Copies(r, x) \in Seq(Requests)
  <1> DEFINE J == {j \in DOMAIN Batch[r] : Batch[r][j] = x}
  <1>1. DOMAIN Batch[r] = 1..Len(Batch[r]) /\ Len(Batch[r]) \in Nat
    BY PostgresAssumption
  <1>2. IsFiniteSet(1..Len(Batch[r]))
    BY <1>1, FS_Interval
  <1>3. J \in SUBSET (1..Len(Batch[r]))
    BY <1>1
  <1>4. Cardinality(J) \in Nat
    BY <1>2, <1>3, FS_Subset, FS_CardinalityType
  <1>5. [i \in 1..Cardinality(J) |-> r] \in Seq(Requests)
    BY <1>4
  <1>6. QED
    BY <1>5 DEF Copies

----------------------------------------------------------------------------
(* The invariant is inductive.                                             *)

LEMMA StoreInit == Init => StoreInv
  <1> SUFFICES ASSUME Init
               PROVE  StoreInv
    OBVIOUS
  <1> USE PostgresAssumption
  <1>1. 0 \in 0..MaxAttempts /\ <<>> \in Seq(Requests)
    OBVIOUS
  <1>2. \A s \in Sessions : s[1] \in Requests
    BY DEF Sessions
  <1>3. \A r \in Requests : Len(Batch[r]) \in Nat
    OBVIOUS
  <1>4. done \in [Sessions -> Nat] /\ \A s \in Sessions : done[s] <= Len(Batch[s[1]])
    BY <1>2, <1>3 DEF Init
  <1>5. TypeOK
    BY <1>1, <1>4 DEF Init, TypeOK
  <1>6. \A r \in Requests, n \in 1..MaxAttempts : state[<<r, n>>] = "none"
    BY DEF Init, Sessions
  <1>7. SessionInv /\ SingleInv
    BY <1>6 DEF Init, SessionInv, SessionOK, SingleInv, SingleOK
  <1>8. \A r \in Requests : Committed(r) = {}
    BY <1>6 DEF Committed
  <1>9. CountInv
    BY <1>8, FS_EmptySet DEF Init, CountInv
  <1>10. QED
    BY <1>5, <1>7, <1>9 DEF StoreInv

\* A step of one request keeps the types, and disturbs no session but its own.
MovesAlone(r) ==
    /\ \A q \in Requests \ {r} : pc'[q] = pc[q] /\ attempt'[q] = attempt[q]
    /\ \A q \in Requests \ {r}, n \in 1..MaxAttempts : state'[<<q, n>>] = state[<<q, n>>]
    /\ \A n \in 1..MaxAttempts : n # attempt[r] => state'[<<r, n>>] = state[<<r, n>>]
    /\ UNCHANGED <<rows, applied>>
    /\ pc' \in [Requests -> Phases]
    /\ attempt' \in [Requests -> 0..MaxAttempts]
    /\ pc'[r] # "new" /\ attempt'[r] > 0
    /\ state' \in [Sessions -> States]
    /\ done' \in [Sessions -> Nat]
    /\ \A s \in Sessions : done'[s] <= Len(Batch[s[1]])
    /\ gone' \subseteq Requests /\ lost' \subseteq Requests
    /\ lost \subseteq lost' /\ lost' \subseteq lost \cup {r}

LEMMA ClientSession ==
    ASSUME StoreInv, NEW r \in Requests, Call(r) \/ Step(r) \/ Fault(r)
    PROVE  MovesAlone(r)
  <1> USE PostgresAssumption
  <1>1. /\ pc \in [Requests -> Phases]
        /\ attempt \in [Requests -> 0..MaxAttempts]
        /\ \A q \in Requests : pc[q] # "new" => attempt[q] > 0
        /\ gone \subseteq Requests /\ lost \subseteq Requests
        /\ state \in [Sessions -> States]
        /\ done \in [Sessions -> Nat]
        /\ \A s \in Sessions : done[s] <= Len(Batch[s[1]])
    BY DEF StoreInv, TypeOK, Phases, States
  <1>2. /\ pc[r] \notin {"new", "failed"} => attempt[r] \in 1..MaxAttempts
        /\ pc[r] = "backoff" => attempt[r] < MaxAttempts
    BY DEF StoreInv, SessionInv, SessionOK
  <1>3. CASE \/ Call(r) \/ CommitReturns(r) \/ ConnectFails(r) \/ WakeUp(r)
             \/ ClientLeaves(r) \/ (Cancelled(r) /\ pc[r] # "exec")
    <2>1. UNCHANGED <<state, done, rows, applied, lost>>
      BY <1>3, Zenon
      DEF Call, CommitReturns, ConnectFails, WakeUp, ClientLeaves, Cancelled
    <2>2. /\ pc' \in [Requests -> Phases] /\ \A q \in Requests \ {r} : pc'[q] = pc[q]
          /\ pc'[r] # "new" /\ gone' \subseteq Requests
      BY <1>1, <1>3
      DEF Call, CommitReturns, ConnectFails, ConnectionError, WakeUp, ClientLeaves,
          Cancelled, Phases
    <2>3. /\ attempt' \in [Requests -> 0..MaxAttempts] /\ attempt'[r] > 0
          /\ \A q \in Requests \ {r} : attempt'[q] = attempt[q]
      <3>1. CASE Call(r)
        BY <1>1, <3>1 DEF Call
      <3>2. CASE WakeUp(r)
        <4>1. attempt[r] + 1 \in 0..MaxAttempts /\ attempt[r] + 1 > 0
          BY <1>1, <1>2, <3>2 DEF WakeUp
        <4>2. attempt' = [attempt EXCEPT ![r] = @ + 1]
          BY <3>2 DEF WakeUp
        <4>3. QED
          BY <1>1, <4>1, <4>2
      <3>3. CASE CommitReturns(r) \/ ConnectFails(r) \/ ClientLeaves(r) \/ Cancelled(r)
        <4>1. attempt' = attempt /\ pc[r] # "new"
          BY <3>3 DEF CommitReturns, ConnectFails, ClientLeaves, Cancelled
        <4>2. QED
          BY <1>1, <4>1
      <3>4. QED
        BY <1>3, <3>1, <3>2, <3>3
    <2>4. QED
      BY <1>1, <2>1, <2>2, <2>3 DEF MovesAlone
  <1>4. ASSUME NEW st \in States, state' = [state EXCEPT ![Session(r)] = st],
               NEW p \in Phases, p # "new", pc' = [pc EXCEPT ![r] = p],
               pc[r] \notin {"new", "failed"}, UNCHANGED <<attempt, gone, done, rows, applied>>,
               lost' = lost \/ lost' = lost \cup {r}
        PROVE  MovesAlone(r)
    BY <1>1, <1>4 DEF MovesAlone, Session, Sessions
  <1>5. CASE BeginTx(r) \/ SendCommit(r) \/ StatementFails(r) \/ DeadlockVictim(r)
             \/ (Cancelled(r) /\ pc[r] = "exec")
    <2>1. \E st \in States, p \in Phases :
             /\ state' = [state EXCEPT ![Session(r)] = st]
             /\ p # "new" /\ pc' = [pc EXCEPT ![r] = p]
             /\ pc[r] \notin {"new", "failed"}
             /\ UNCHANGED <<attempt, gone, done, rows, applied>>
             /\ lost' = lost
      BY <1>5
      DEF BeginTx, SendCommit, StatementFails, DeadlockVictim, Cancelled, Rollback,
          Executing, States, Phases
    <2>2. QED
      BY <1>4, <2>1
  <1>6. CASE ConnectionBreaks(r)
    <2>1. \E st \in States, p \in Phases :
             /\ state' = [state EXCEPT ![Session(r)] = st]
             /\ p # "new" /\ pc' = [pc EXCEPT ![r] = p]
             /\ pc[r] \notin {"new", "failed"}
             /\ UNCHANGED <<attempt, gone, done, rows, applied>>
             /\ lost' = lost \/ lost' = lost \cup {r}
      <3>1. Session(r) \in Sessions /\ state[Session(r)] \in States
        BY <1>1, <1>2, <1>6 DEF ConnectionBreaks, Session, Sessions
      <3>2. \E st \in States : state' = [state EXCEPT ![Session(r)] = st]
        BY <1>6, <3>1 DEF ConnectionBreaks, States
      <3>3. \E p \in Phases : p # "new" /\ pc' = [pc EXCEPT ![r] = p]
        BY <1>6 DEF ConnectionBreaks, ConnectionError, Phases
      <3>4. /\ pc[r] \notin {"new", "failed"}
            /\ UNCHANGED <<attempt, gone, done, rows, applied>>
            /\ lost' = lost \/ lost' = lost \cup {r}
        BY <1>6 DEF ConnectionBreaks
      <3>5. QED
        BY <3>2, <3>3, <3>4
    <2>2. QED
      BY <1>4, <2>1
  <1>7. CASE Upsert(r)
    <2>1. /\ pc[r] = "exec" /\ Session(r) \in Sessions /\ Session(r)[1] = r
          /\ done[Session(r)] < Len(Batch[r])
      BY <1>2, <1>7 DEF Upsert, Executing, Session, Sessions
    <2>2. /\ done' = [done EXCEPT ![Session(r)] = @ + 1]
          /\ UNCHANGED <<clientVars, state, rows, applied, lost>>
      BY <1>7 DEF Upsert
    <2>3. Len(Batch[r]) \in Nat
      OBVIOUS
    <2>4. /\ done' \in [Sessions -> Nat]
          /\ \A s \in Sessions : done'[s] <= Len(Batch[s[1]])
      BY <1>1, <2>1, <2>2, <2>3
    <2>5. QED
      BY <1>1, <2>1, <2>2, <2>4 DEF clientVars, MovesAlone
  <1>8. QED
    BY <1>3, <1>5, <1>6, <1>7 DEF Step, Fault

\* And it leaves the session as far as the request is.
LEMMA ClientProgress ==
    ASSUME StoreInv, NEW r \in Requests, Call(r) \/ Step(r) \/ Fault(r)
    PROVE  /\ SessionOK(r)'
           /\ r \notin lost' => SingleOK(r)'
           /\ \A n \in 1..MaxAttempts :
                 (state'[<<r, n>>] = "committed") <=> (state[<<r, n>>] = "committed")
  <1> USE PostgresAssumption
  <1>1. /\ pc \in [Requests -> Phases]
        /\ attempt \in [Requests -> 0..MaxAttempts]
        /\ \A q \in Requests : pc[q] # "new" => attempt[q] > 0
        /\ state \in [Sessions -> States]
    BY DEF StoreInv, TypeOK, Phases, States
  <1>2. SessionOK(r) /\ (r \notin lost => SingleOK(r))
    BY DEF StoreInv, SessionInv, SingleInv
  \* The session changes from a state that is not committed to one that is not.
  <1>3. ASSUME NEW st \in {"open", "cut", "commit", "unknown", "aborted"},
               state' = [state EXCEPT ![Session(r)] = st],
               attempt[r] \in 1..MaxAttempts, state[Session(r)] # "committed"
        PROVE  /\ state'[Session(r)] = st
               /\ \A n \in 1..MaxAttempts : n # attempt[r] => state'[<<r, n>>] = state[<<r, n>>]
               /\ \A n \in 1..MaxAttempts :
                     (state'[<<r, n>>] = "committed") <=> (state[<<r, n>>] = "committed")
    BY <1>1, <1>3 DEF Session, Sessions
  <1> USE DEF SessionOK, SingleOK, Session
  <1>4. CASE Call(r)
    <2>1. /\ pc[r] = "new" /\ UNCHANGED <<state, lost>>
          /\ pc'[r] = "begin" /\ attempt'[r] = 1
      BY <1>1, <1>4 DEF Call
    <2>2. \A n \in 1..MaxAttempts : state[<<r, n>>] = "none"
      BY <1>2, <2>1
    <2>3. QED
      BY <2>1, <2>2
  <1>5. CASE BeginTx(r)
    <2>1. /\ pc[r] = "begin" /\ pc'[r] = "exec" /\ UNCHANGED <<attempt, lost>>
          /\ state' = [state EXCEPT ![Session(r)] = "open"]
      BY <1>1, <1>5 DEF BeginTx
    <2>2. attempt[r] \in 1..MaxAttempts /\ state[Session(r)] # "committed"
      BY <1>2, <2>1
    <2>3. QED
      BY <1>2, <1>3, <2>1, <2>2
  <1>6. CASE Upsert(r) \/ ClientLeaves(r)
    BY <1>2, <1>6 DEF Upsert, ClientLeaves, clientVars
  <1>7. CASE SendCommit(r)
    <2>1. /\ pc[r] = "exec" /\ pc'[r] = "commit" /\ UNCHANGED <<attempt, lost>>
          /\ state' = [state EXCEPT ![Session(r)] = "commit"]
      BY <1>1, <1>7 DEF SendCommit
    <2>2. attempt[r] \in 1..MaxAttempts /\ state[Session(r)] # "committed"
      BY <1>2, <2>1
    <2>3. QED
      BY <1>2, <1>3, <2>1, <2>2
  <1>8. CASE CommitReturns(r)
    <2>1. /\ pc[r] = "commit" /\ pc'[r] = "acked" /\ UNCHANGED <<attempt, state, lost>>
          /\ state[Session(r)] = "committed"
      BY <1>1, <1>8 DEF CommitReturns
    <2>2. QED
      BY <1>2, <2>1
  <1>9. CASE StatementFails(r) \/ DeadlockVictim(r) \/ (Cancelled(r) /\ pc[r] = "exec")
    <2>1. /\ pc[r] = "exec" /\ pc'[r] = "failed" /\ UNCHANGED <<attempt, lost>>
          /\ state' = [state EXCEPT ![Session(r)] = "aborted"]
      BY <1>1, <1>9 DEF StatementFails, DeadlockVictim, Cancelled, Rollback, Executing
    <2>2. attempt[r] \in 1..MaxAttempts /\ state[Session(r)] # "committed"
      BY <1>2, <2>1
    <2>3. QED
      BY <1>2, <1>3, <2>1, <2>2
  <1>10. CASE WakeUp(r)
    <2>1. /\ pc[r] = "backoff" /\ pc'[r] = "begin" /\ attempt'[r] = attempt[r] + 1
          /\ UNCHANGED <<state, lost>>
      BY <1>1, <1>10 DEF WakeUp
    <2>2. /\ attempt[r] + 1 \in 1..MaxAttempts /\ attempt[r] + 1 > attempt[r]
          /\ \A n \in 1..MaxAttempts : n > attempt[r] + 1 => n > attempt[r]
      BY <1>1, <1>2, <2>1
    <2>3. QED
      BY <1>2, <2>1, <2>2
  <1>11. CASE Cancelled(r) /\ pc[r] # "exec"
    <2>1. /\ pc[r] \in {"begin", "backoff"} /\ pc'[r] = "failed"
          /\ UNCHANGED <<attempt, state, lost>>
      BY <1>1, <1>11 DEF Cancelled
    <2>2. QED
      BY <1>2, <2>1
  <1>12. CASE ConnectFails(r)
    <2>1. /\ pc[r] = "begin" /\ UNCHANGED <<attempt, state, lost>>
          /\ pc'[r] = "failed" \/ (pc'[r] = "backoff" /\ attempt[r] < MaxAttempts)
      BY <1>1, <1>12 DEF ConnectFails, ConnectionError
    <2>2. QED
      BY <1>2, <2>1
  <1>13. CASE ConnectionBreaks(r)
    <2>1. /\ pc[r] \in {"exec", "commit"} /\ attempt' = attempt
          /\ pc'[r] = "failed" \/ (pc'[r] = "backoff" /\ attempt[r] < MaxAttempts)
      BY <1>1, <1>13 DEF ConnectionBreaks, ConnectionError
    <2>2. lost' = IF pc[r] = "commit" THEN lost \cup {r} ELSE lost
      BY <1>13 DEF ConnectionBreaks
    <2>3. state' = [state EXCEPT ![Session(r)] =
                       CASE state[Session(r)] = "open"   -> "cut"
                         [] state[Session(r)] = "commit" -> "unknown"
                         [] OTHER                        -> state[Session(r)]]
      BY <1>13, Zenon DEF ConnectionBreaks
    <2>4. CASE pc[r] = "exec"
      <3>1. attempt[r] \in 1..MaxAttempts /\ state[Session(r)] = "open"
        BY <1>2, <2>4
      <3>2. state' = [state EXCEPT ![Session(r)] = "cut"] /\ lost' = lost
        BY <2>2, <2>3, <2>4, <3>1
      <3>3. QED
        BY <1>2, <1>3, <2>1, <2>4, <3>1, <3>2
    <2>5. CASE pc[r] = "commit"
      <3>1. attempt[r] \in 1..MaxAttempts /\ r \in lost'
        BY <1>2, <2>2, <2>5
      <3>2. CASE state[Session(r)] = "commit"
        <4>1. state' = [state EXCEPT ![Session(r)] = "unknown"]
          BY <2>3, <3>2
        <4>2. QED
          BY <1>2, <1>3, <2>1, <3>1, <3>2, <4>1
      <3>3. CASE state[Session(r)] = "committed"
        <4>1. state' = state
          BY <1>1, <2>3, <3>1, <3>3 DEF Sessions
        <4>2. QED
          BY <1>2, <2>1, <3>1, <4>1
      <3>4. QED
        BY <1>2, <2>5, <3>2, <3>3
    <2>6. QED
      BY <2>1, <2>4, <2>5
  <1>14. QED
    BY <1>4, <1>5, <1>6, <1>7, <1>8, <1>9, <1>10, <1>11, <1>12, <1>13 DEF Step, Fault

LEMMA ClientStep ==
    ASSUME StoreInv, NEW r \in Requests, Call(r) \/ Step(r) \/ Fault(r)
    PROVE  StoreInv'
  <1>1. /\ MovesAlone(r)
        /\ SessionOK(r)' /\ (r \notin lost' => SingleOK(r)')
        /\ \A n \in 1..MaxAttempts :
              (state'[<<r, n>>] = "committed") <=> (state[<<r, n>>] = "committed")
    BY ClientSession, ClientProgress
  <1>2. TypeOK'
    BY <1>1 DEF StoreInv, TypeOK, MovesAlone, Phases, States
  <1>3. ASSUME NEW q \in Requests, q # r
        PROVE  SessionOK(q)' /\ (q \notin lost' => SingleOK(q)')
    <2>1. /\ pc'[q] = pc[q] /\ attempt'[q] = attempt[q]
          /\ \A n \in 1..MaxAttempts : state'[<<q, n>>] = state[<<q, n>>]
          /\ lost \subseteq lost'
      BY <1>1, <1>3 DEF MovesAlone
    <2>2. SessionOK(q) /\ (q \notin lost => SingleOK(q))
      BY DEF StoreInv, SessionInv, SingleInv
    <2>3. QED
      BY <2>1, <2>2 DEF SessionOK, SingleOK, Session
  <1>4. SessionInv' /\ SingleInv'
    BY <1>1, <1>3 DEF SessionInv, SingleInv
  <1>5. \A q \in Requests : Committed(q)' = Committed(q)
    BY <1>1 DEF Committed, MovesAlone
  <1>6. CountInv'
    BY <1>1, <1>5 DEF StoreInv, CountInv, MovesAlone
  <1>7. QED
    BY <1>2, <1>4, <1>6 DEF StoreInv

\* A session ends at the database.
LEMMA DatabaseStep ==
    ASSUME StoreInv, NEW r \in Requests, NEW n \in 1..MaxAttempts,
           Commit(<<r, n>>) \/ Abandon(<<r, n>>)
    PROVE  StoreInv'
  <1> USE PostgresAssumption
  <1> DEFINE s == <<r, n>>
  <1>1. /\ s \in Sessions /\ s[1] = r
        /\ state \in [Sessions -> States]
        /\ applied \in [Requests -> Nat]
        /\ rows \in [Rows -> Seq(Requests)]
    BY DEF Sessions, StoreInv, TypeOK, States
  <1>2. PICK st \in {"committed", "aborted"} :
           /\ state' = [state EXCEPT ![s] = st]
           /\ st = "aborted" => state[s] \in {"cut", "unknown"} /\ UNCHANGED <<rows, applied>>
           /\ st = "committed" =>
                 /\ state[s] \in {"commit", "unknown"}
                 /\ rows' = [x \in Rows |-> rows[x] \o Copies(r, x)]
                 /\ applied' = [applied EXCEPT ![r] = @ + 1]
    BY DEF Commit, Abandon
  <1>3. UNCHANGED <<pc, attempt, gone, done, lost>>
    BY DEF Commit, Abandon, clientVars
  <1>4. /\ state' \in [Sessions -> States] /\ state'[s] = st
        /\ \A t \in Sessions \ {s} : state'[t] = state[t]
        /\ \A m \in 1..MaxAttempts : m # n => state'[<<r, m>>] = state[<<r, m>>]
        /\ \A q \in Requests \ {r}, m \in 1..MaxAttempts : state'[<<q, m>>] = state[<<q, m>>]
    BY <1>1, <1>2 DEF States, Sessions
  <1>5. TypeOK'
    <2>1. rows' \in [Rows -> Seq(Requests)]
      <3>1. \A x \in Rows : rows[x] \o Copies(r, x) \in Seq(Requests)
        BY <1>1, CopiesType
      <3>2. QED
        BY <1>1, <1>2, <3>1
    <2>2. applied' \in [Requests -> Nat]
      <3>1. applied[r] + 1 \in Nat
        BY <1>1
      <3>2. applied' = applied \/ applied' = [applied EXCEPT ![r] = @ + 1]
        BY <1>2, Zenon
      <3>3. QED
        BY <1>1, <3>1, <3>2
    <2>3. QED
      BY <1>3, <1>4, <2>1, <2>2 DEF StoreInv, TypeOK, States
  <1>6. SessionOK(r) /\ (r \notin lost => SingleOK(r))
    BY DEF StoreInv, SessionInv, SingleInv
  <1>7. SessionOK(r)' /\ (r \notin lost' => SingleOK(r)')
    <2>1. n <= attempt[r]
      <3>1. attempt[r] \in Nat /\ state[s] # "none"
        BY <1>2 DEF StoreInv, TypeOK
      <3>2. n > attempt[r] => state[s] = "none"
        BY <1>6 DEF SessionOK
      <3>3. QED
        BY <3>1, <3>2
    <2>2. SessionOK(r)'
      BY <1>2, <1>3, <1>4, <1>6, <2>1 DEF SessionOK, Session
    <2>3. ASSUME r \notin lost'
          PROVE  SingleOK(r)'
      BY <1>2, <1>3, <1>4, <1>6, <2>3 DEF SingleOK
    <2>4. QED
      BY <2>2, <2>3
  <1>8. \A q \in Requests \ {r} : SessionOK(q)' /\ (q \notin lost' => SingleOK(q)')
    <2> SUFFICES ASSUME NEW q \in Requests \ {r}
                 PROVE  SessionOK(q)' /\ (q \notin lost' => SingleOK(q)')
      OBVIOUS
    <2>1. SessionOK(q) /\ (q \notin lost => SingleOK(q))
      BY DEF StoreInv, SessionInv, SingleInv
    <2>2. QED
      BY <1>3, <1>4, <2>1 DEF SessionOK, SingleOK, Session
  <1>9. SessionInv' /\ SingleInv'
    BY <1>7, <1>8 DEF SessionInv, SingleInv
  <1>10. \A q \in Requests \ {r} : Committed(q)' = Committed(q) /\ applied'[q] = applied[q]
    BY <1>1, <1>2, <1>4 DEF Committed
  <1>11. applied'[r] = Cardinality(Committed(r)')
    <2>1. applied[r] = Cardinality(Committed(r)) /\ IsFiniteSet(Committed(r))
      BY CommittedBound DEF StoreInv, CountInv
    <2>2. CASE st = "aborted"
      <3>1. Committed(r)' = Committed(r) /\ applied' = applied
        BY <1>2, <1>4, <2>2 DEF Committed
      <3>2. QED
        BY <2>1, <3>1
    <2>3. CASE st = "committed"
      <3>1. Committed(r)' = Committed(r) \cup {n} /\ n \notin Committed(r)
        BY <1>2, <1>4, <2>3 DEF Committed
      <3>2. applied'[r] = applied[r] + 1
        BY <1>1, <1>2, <2>3
      <3>3. Cardinality(Committed(r) \cup {n}) = Cardinality(Committed(r)) + 1
        BY <2>1, <3>1, FS_AddElement
      <3>4. QED
        BY <2>1, <3>1, <3>2, <3>3
    <2>4. QED
      BY <2>2, <2>3
  <1>12. CountInv'
    BY <1>10, <1>11 DEF StoreInv, CountInv
  <1>13. QED
    BY <1>5, <1>9, <1>12 DEF StoreInv

LEMMA StoreInvariant == Spec => []StoreInv
  <1>1. StoreInv /\ [Next]_vars => StoreInv'
    <2> SUFFICES ASSUME StoreInv, [Next]_vars
                 PROVE  StoreInv'
      OBVIOUS
    <2>1. CASE UNCHANGED vars
      BY <2>1
      DEF vars, clientVars, StoreInv, TypeOK, SessionInv, SessionOK, Session, SingleInv,
          SingleOK, CountInv, Committed
    <2>2. ASSUME NEW s \in Sessions, Commit(s) \/ Abandon(s)
          PROVE  StoreInv'
      BY <2>2, DatabaseStep DEF Sessions
    <2>3. QED
      BY <2>1, <2>2, ClientStep DEF Next, Answered
  <1>2. QED
    BY StoreInit, <1>1, PTL DEF Spec

----------------------------------------------------------------------------
(* The theorems.                                                           *)

\* Every reachable state is well typed; no batch is tried more often than the
\* delays of retryPostgresConnection allow.
THEOREM TypeInvariant == Spec => []TypeOK
  BY StoreInvariant, PTL DEF StoreInv

\* Unless the connection breaks during a commit, a batch is applied exactly once
\* if it was answered with success and not at all if with an error
\* (AnswerIsExact).
THEOREM AnswerIsExactHolds == Spec => []AnswerIsExact
  <1>1. StoreInv => AnswerIsExact
    <2> SUFFICES ASSUME StoreInv, NEW r \in Requests \ lost
                 PROVE  /\ pc[r] = "acked" => applied[r] = 1
                        /\ pc[r] = "failed" => applied[r] = 0
      BY DEF AnswerIsExact
    <2>1. /\ applied[r] = Cardinality(Committed(r)) /\ SingleOK(r) /\ SessionOK(r)
      BY DEF StoreInv, CountInv, SingleInv, SessionInv
    <2>2. CASE pc[r] = "acked"
      <3>1. Committed(r) = {attempt[r]}
        BY <2>1, <2>2 DEF Committed, SingleOK, SessionOK, Session
      <3>2. QED
        BY <2>1, <2>2, <3>1, FS_Singleton
    <2>3. CASE pc[r] = "failed"
      <3>1. Committed(r) = {}
        BY <2>1, <2>3 DEF Committed, SingleOK
      <3>2. QED
        BY <2>1, <2>3, <3>1, FS_EmptySet
    <2>4. QED
      BY <2>2, <2>3
  <1>2. QED
    BY <1>1, StoreInvariant, PTL

----------------------------------------------------------------------------
(* The refinement.                                                         *)

\* What the caller of request r has been told.
answerOf == [r \in Requests |-> CASE pc[r] = "acked"  -> "ok"
                                  [] pc[r] = "failed" -> "error"
                                  [] OTHER            -> "none"]

LEMMA RepositoryStep == StoreInv /\ [Next]_vars =>
                           [Repository!RepositoryNext]_Repository!repositoryVars
  <1> USE PostgresAssumption
  <1> SUFFICES ASSUME StoreInv, [Next]_vars
               PROVE  Repository!RepositoryNext \/ UNCHANGED <<rows, applied, answerOf>>
    BY DEF Repository!repositoryVars, answerOf
  <1>1. /\ pc \in [Requests -> Phases]
        /\ applied \in [Requests -> Nat]
    BY DEF StoreInv, TypeOK, Phases
  <1>2. CASE UNCHANGED vars
    BY <1>2 DEF vars, clientVars, answerOf
  <1>3. ASSUME NEW r \in Requests, Call(r) \/ Step(r) \/ Fault(r)
        PROVE  Repository!RepositoryNext \/ UNCHANGED <<rows, applied, answerOf>>
    <2>1. /\ UNCHANGED <<rows, applied>>
          /\ pc' \in [Requests -> Phases]
          /\ \A q \in Requests \ {r} : pc'[q] = pc[q]
      BY <1>3, ClientSession DEF MovesAlone
    <2>2. \/ pc'[r] \notin {"acked", "failed"} /\ pc[r] \notin {"acked", "failed"}
          \/ pc'[r] = pc[r]
          \/ pc[r] = "commit" /\ pc'[r] = "acked"
          \/ pc'[r] = "failed" /\ pc[r] \notin {"acked", "failed"}
      BY <1>1, <1>3
      DEF Call, Step, Fault, BeginTx, Upsert, SendCommit, CommitReturns, DeadlockVictim,
          StatementFails, ConnectFails, ConnectionBreaks, ConnectionError, ClientLeaves,
          WakeUp, Cancelled, Executing, clientVars
    <2>3. CASE \/ pc'[r] \notin {"acked", "failed"} /\ pc[r] \notin {"acked", "failed"}
               \/ pc'[r] = pc[r]
      BY <2>1, <2>3 DEF answerOf
    <2>4. CASE pc[r] = "commit" /\ pc'[r] = "acked"
      <3>1. answerOf[r] = "none" /\ answerOf' = [answerOf EXCEPT ![r] = "ok"]
        BY <2>1, <2>4 DEF answerOf
      <3>2. state'[Session(r)'] = "committed" /\ attempt'[r] \in 1..MaxAttempts
        BY <1>3, <2>4, ClientProgress DEF SessionOK
      <3>3. attempt'[r] \in Committed(r)
        BY <1>3, <2>4, <3>2, ClientProgress DEF Committed, Session
      <3>4. applied[r] > 0
        BY <3>3, CommittedBound, FS_EmptySet DEF StoreInv, CountInv
      <3>5. QED
        BY <2>1, <3>1, <3>4, Zenon DEF Repository!RepositoryNext, Repository!AnswerOK, answerOf
    <2>5. CASE pc'[r] = "failed" /\ pc[r] \notin {"acked", "failed"}
      <3>1. answerOf[r] = "none" /\ answerOf' = [answerOf EXCEPT ![r] = "error"]
        BY <2>1, <2>5 DEF answerOf
      <3>2. QED
        BY <2>1, <3>1, Zenon DEF Repository!RepositoryNext, Repository!AnswerError, answerOf
    <2>6. QED
      BY <2>2, <2>3, <2>4, <2>5
  <1>4. ASSUME NEW r \in Requests, NEW n \in 1..MaxAttempts, Commit(<<r, n>>)
        PROVE  Repository!RepositoryNext
    <2>1. /\ state[<<r, n>>] # "committed"
          /\ applied' = [applied EXCEPT ![r] = @ + 1]
          /\ rows' = [x \in Rows |-> rows[x] \o Copies(r, x)]
          /\ pc' = pc
      BY <1>4 DEF Commit, clientVars
    <2>copies. rows' = [x \in Rows |-> rows[x] \o Repository!Copies(r, x)]
      <3>1. \A x \in Rows : Copies(r, x) = Repository!Copies(r, x)
        BY DEF Copies, Repository!Copies, Cardinality, Repository!Cardinality
      <3>2. QED
        BY <2>1, <3>1
    <2>2. applied[r] < MaxAttempts
      BY <2>1, CommittedBound DEF StoreInv, CountInv
    <2>3. answerOf' = answerOf
      BY <2>1 DEF answerOf
    <2>4. QED
      BY <2>1, <2>copies, <2>2, <2>3, Zenon
      DEF Repository!RepositoryNext, Repository!Apply, answerOf
  <1>5. ASSUME NEW s \in Sessions, Abandon(s)
        PROVE  UNCHANGED <<rows, applied, answerOf>>
    BY <1>5 DEF Abandon, clientVars, answerOf
  <1>6. ASSUME NEW s \in Sessions, Commit(s)
        PROVE  Repository!RepositoryNext
    BY <1>4, <1>6 DEF Sessions
  <1>7. QED
    BY <1>2, <1>3, <1>5, <1>6 DEF Next, Answered

\* The storage is a repository (ImplementsRepository): batches are applied as a
\* whole, success is answered only for a batch that is applied, and no batch is
\* applied more often than it was tried.
THEOREM RepositoryImplemented == Spec => ImplementsRepository
  <1>1. Init => Repository!RepositoryInit
    BY DEF Init, Repository!RepositoryInit
  <1>2. QED
    BY <1>1, RepositoryStep, StoreInvariant, PTL
    DEF Spec, ImplementsRepository, Repository!RepositorySpec

============================================================================
