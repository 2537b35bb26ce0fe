------------------------- MODULE AgentReportProofs -------------------------
(***************************************************************************)
(* Theorems about AgentReport, for every rate limit, number of attempts,   *)
(* set of faults and bound.                                                *)
(***************************************************************************)
EXTENDS AgentReport, RecursionLemmas, FiniteSetTheorems, TLAPS

----------------------------------------------------------------------------
(* Types.                                                                  *)

LEMMA JobTypes ==
    ASSUME TypeOK
    PROVE  /\ BuiltJob \in Job
           /\ NoJob \in Job
           /\ \A s \in Senders : job[s] \in Job
           /\ Final \in Senders
           /\ Workers \subseteq Senders
  BY AgentAssumption DEF TypeOK, BuiltJob, NoJob, Job, Final, Senders, Workers

\* What Return leaves of the types, whoever returns.
LEMMA ReturnTypes ==
    ASSUME TypeOK, NEW s \in Senders, NEW result \in {"acked", "failed"},
           Return(s, result)
    PROVE  /\ phase' \in [Senders -> Phases]
           /\ job' \in [Senders -> Job]
           /\ attempt' \in [Senders -> 0..MaxAttempts]
           /\ \A r \in Senders : phase'[r] = "backoff" => attempt'[r] < MaxAttempts
           /\ main' \in Mains
           /\ outcome' \in {"none", "acked", "failed"}
  BY JobTypes, AgentAssumption DEF TypeOK, Return, Phases, Mains

LEMMA AbandonTypes ==
    ASSUME TypeOK, NEW s \in Senders, Abandon(s)
    PROVE  late' \in [LateSlots -> Job]
  BY JobTypes DEF TypeOK, Abandon

LEMMA StoreTypes ==
    ASSUME TypeOK, NEW j \in Job, Store(j)
    PROVE  served' \in Nat /\ shown' \in [run : Nat, sys : Nat]
  BY DEF TypeOK, Store, Job

\* Every reachable state has the types of the Go program's variables; the
\* queue respects the capacity of the channel and no sender exceeds its
\* attempts.
THEOREM TypeInvariant == Spec => []TypeOK
  <1>1. Init => TypeOK
    <2> SUFFICES ASSUME Init
                 PROVE  TypeOK
      OBVIOUS
    <2>1. NoJob \in Job /\ QueueCap \in Nat
      BY AgentAssumption DEF NoJob, Job, QueueCap
    <2>2. /\ queue \in Seq(Job) /\ Len(queue) <= QueueCap
          /\ shown \in [run : Nat, sys : Nat]
      BY <2>1 DEF Init
    <2>3. /\ phase \in [Senders -> Phases] /\ job \in [Senders -> Job]
          /\ attempt \in [Senders -> 0..MaxAttempts] /\ late \in [LateSlots -> Job]
          /\ \A s \in Senders : phase[s] = "backoff" => attempt[s] < MaxAttempts
      BY <2>1, AgentAssumption DEF Init, Phases
    <2>4. polls \in Nat /\ samples \in Nat /\ counter \in Nat /\ reports \in Nat /\ served \in Nat
      BY DEF Init
    <2>5. cancelled \in BOOLEAN /\ expired \in BOOLEAN /\ closed \in BOOLEAN
      BY DEF Init
    <2>6. /\ collectors \subseteq Collectors /\ main \in Mains /\ pending \in Job
          /\ outcome \in {"none", "acked", "failed"}
      BY <2>1 DEF Init, Mains
    <2>7. QED
      BY <2>2, <2>3, <2>4, <2>5, <2>6 DEF TypeOK
  <1>2. TypeOK /\ [Next]_vars => TypeOK'
    <2> SUFFICES ASSUME TypeOK, [Next]_vars
                 PROVE  TypeOK'
      OBVIOUS
    <2> USE JobTypes, AgentAssumption
    <2>1. CASE UNCHANGED vars
      BY <2>1 DEF TypeOK, vars, agentVars, mainVars, ctxVars, senderVars, serverVars
    <2>2. CASE Returned
      BY <2>2 DEF Returned, TypeOK, vars, agentVars, mainVars, ctxVars, senderVars, serverVars
    <2>3. CASE RefreshMetrics
      BY <2>3 DEF RefreshMetrics, TypeOK, mainVars, ctxVars, senderVars, serverVars
    <2>4. CASE RefreshSystemMetrics
      BY <2>4 DEF RefreshSystemMetrics, TypeOK, mainVars, ctxVars, senderVars, serverVars
    <2>5. CASE Cancel
      BY <2>5 DEF Cancel, TypeOK, agentVars, mainVars, senderVars, serverVars
    <2>6. ASSUME NEW c \in Collectors, StopCollector(c)
          PROVE  TypeOK'
      BY <2>6 DEF StopCollector, TypeOK, mainVars, ctxVars, senderVars, serverVars
    <2>7. CASE BuildReport
      BY <2>7 DEF BuildReport, TypeOK, Mains, agentVars, ctxVars, senderVars, serverVars
    <2>8. CASE EnqueueJob
      <3>1. queue' \in Seq(Job) /\ Len(queue') = Len(queue) + 1
        BY <2>8 DEF EnqueueJob, TypeOK
      <3>2. QED
        BY <2>8, <3>1 DEF EnqueueJob, TypeOK, Mains, QueueCap, agentVars, ctxVars, senderVars, serverVars
    <2>9. CASE DropJob \/ EnqueueCancelled
      BY <2>9 DEF DropJob, EnqueueCancelled, TypeOK, Mains, agentVars, ctxVars, senderVars, serverVars
    <2>10. CASE LeaveLoop
      BY <2>10 DEF LeaveLoop, TypeOK, Mains, agentVars, ctxVars, senderVars, serverVars
    <2>11. CASE CloseJobs
      BY <2>11 DEF CloseJobs, TypeOK, Mains, agentVars, ctxVars, senderVars, serverVars
    <2>12. CASE StartFinalReport
      <3>1. /\ job' \in [Senders -> Job]
            /\ phase' \in [Senders -> Phases]
            /\ attempt' \in [Senders -> 0..MaxAttempts]
        BY <2>12 DEF StartFinalReport, TypeOK, Phases
      <3>2. QED
        BY <2>12, <3>1 DEF StartFinalReport, TypeOK, Mains, agentVars, ctxVars, serverVars
    <2>13. CASE DeliveryTimeout
      BY <2>13 DEF DeliveryTimeout, TypeOK, agentVars, mainVars, senderVars, serverVars
    <2>14. ASSUME NEW w \in Workers, ReceiveJob(w)
           PROVE  TypeOK'
      <3>1. /\ Head(queue) \in Job /\ queue' \in Seq(Job)
            /\ Len(queue') <= QueueCap
        BY <2>14 DEF ReceiveJob, TypeOK, QueueCap
      <3>2. /\ job' \in [Senders -> Job]
            /\ phase' \in [Senders -> Phases]
            /\ attempt' \in [Senders -> 0..MaxAttempts]
        BY <2>14, <3>1 DEF ReceiveJob, TypeOK, Phases
      <3>3. QED
        BY <2>14, <3>1, <3>2 DEF ReceiveJob, TypeOK, agentVars, mainVars, ctxVars, serverVars
    <2>15. ASSUME NEW w \in Workers, ExitWorker(w)
           PROVE  TypeOK'
      BY <2>15 DEF ExitWorker, TypeOK, Phases, agentVars, mainVars, ctxVars, serverVars
    <2>16. ASSUME NEW s \in Senders, Client(s)
           PROVE  TypeOK'
      <3>1. CASE Send(s)
        BY <3>1 DEF Send, TypeOK, Phases, agentVars, mainVars, ctxVars, serverVars
      <3>2. CASE StopSending(s)
        BY <3>2, ReturnTypes DEF StopSending, GiveUp, TypeOK, ctxVars, serverVars
      <3>3. CASE RequestTimeout(s)
        BY <3>3, ReturnTypes, AbandonTypes DEF RequestTimeout, GiveUp, TypeOK, ctxVars
      <3>4. CASE ErrorStatus(s)
        BY <3>4, ReturnTypes DEF ErrorStatus, GiveUp, TypeOK, ctxVars, serverVars
      <3>5. CASE TransportError(s)
        <4>1. CASE attempt[s] < MaxAttempts
          BY <3>5, <4>1, AbandonTypes DEF TransportError, TypeOK, Phases, agentVars, ctxVars
        <4>2. CASE ~(attempt[s] < MaxAttempts)
          BY <3>5, <4>2, ReturnTypes, AbandonTypes DEF TransportError, GiveUp, TypeOK, ctxVars
        <4>3. QED
          BY <4>1, <4>2
      <3>6. CASE WakeUp(s)
        BY <3>6 DEF WakeUp, TypeOK, Phases, agentVars, mainVars, ctxVars, serverVars
      <3>7. CASE ReplyOK(s)
        BY <3>7 DEF ReplyOK, TypeOK, Phases, agentVars, mainVars, ctxVars, serverVars
      <3>8. CASE AckCounters(s)
        <4>1. counter' \in Nat
          BY <3>8 DEF AckCounters, Acked, TypeOK, Job
        <4>2. QED
          BY <3>8, <4>1, ReturnTypes DEF AckCounters, TypeOK, ctxVars, serverVars
      <3>9. QED
        BY <2>16, <3>1, <3>2, <3>3, <3>4, <3>5, <3>6, <3>7, <3>8 DEF Client
    <2>17. ASSUME NEW s \in Senders, Apply(s)
           PROVE  TypeOK'
      <3>1. served' \in Nat /\ shown' \in [run : Nat, sys : Nat]
        BY <2>17, StoreTypes DEF Apply
      <3>2. QED
        BY <2>17, <3>1 DEF Apply, TypeOK, Phases, agentVars, mainVars, ctxVars
    <2>18. ASSUME NEW l \in LateSlots, ApplyLate(l)
           PROVE  TypeOK'
      <3>1. served' \in Nat /\ shown' \in [run : Nat, sys : Nat]
        BY <2>18, StoreTypes DEF ApplyLate, TypeOK
      <3>2. QED
        BY <2>18, <3>1 DEF ApplyLate, TypeOK, agentVars, mainVars, ctxVars, senderVars
    <2>19. QED
      BY <2>1, <2>2, <2>3, <2>4, <2>5, <2>6, <2>7, <2>8, <2>9, <2>10, <2>11,
         <2>12, <2>13, <2>14, <2>15, <2>16, <2>17, <2>18
      DEF Next, ReportLoop, Shutdown, Worker
  <1>3. QED
    BY <1>1, <1>2, PTL DEF Spec

----------------------------------------------------------------------------
(* No poll is lost.  The inductive invariant, CreditedLedger, also counts  *)
(* the deltas that are applied and not yet acknowledged: their sum over    *)
(* the senders changes with the credit of the one sender that takes a step *)
(* (SumShift).                                                             *)

Credits == [s \in Senders |-> Credit(s)]

\* What the balance counts are numbers, before and after a step.
LEMMA NumberTypes ==
    ASSUME TypeOK
    PROVE  /\ polls \in Nat /\ served \in Nat /\ counter \in Nat
           /\ phase \in [Senders -> Phases] /\ job \in [Senders -> Job]
           /\ \A s \in Senders : Credit(s) \in Nat /\ job[s].delta \in Nat
  BY DEF TypeOK, Credit, Job

LEMMA CreditTypes == TypeOK => Credits \in [Senders -> Nat]
  BY DEF TypeOK, Credits, Credit, Job

\* The senders are numbered as SumUpTo counts them.
LEMMA SumOfCredits ==
    ASSUME NEW c \in [Senders -> Nat]
    PROVE  /\ Final \in Nat /\ Senders = 1..Final /\ c \in [1..Final -> Int]
           /\ SumUpTo(c, Final) \in Int
  <1>1. Final \in Nat /\ Senders = 1..Final /\ c \in [1..Final -> Int]
    BY AgentAssumption DEF Final, Senders
  <1>2. QED
    BY <1>1, SumType, Zenon

\* The server's total and the counter grow by what the polls and the credit of
\* k grow by, at least.
Settles(k) ==
    polls' + Credit(k)' + served + counter <= polls + Credit(k) + served' + counter'

\* A step that changes the credit of one sender at most keeps the balance if it
\* settles that credit.
LEMMA Balance ==
    ASSUME TypeOK, TypeOK', CreditedLedger, NEW k \in Senders,
           \A s \in Senders \ {k} : Credit(s)' = Credit(s),
           Settles(k)
    PROVE  CreditedLedger'
  <1>1. PICK c \in [Senders -> Nat] : c = Credits
    BY CreditTypes, Zenon
  <1>2. PICK d \in [Senders -> Nat] : d = Credits'
    <2>1. Credits' \in [Senders -> Nat]
      BY DEF TypeOK, Credits, Credit, Job
    <2>2. QED
      BY <2>1, Zenon
  <1>3. /\ \A s \in Senders : s # k => c[s] = d[s]
        /\ c[k] = Credit(k) /\ d[k] = Credit(k)'
    BY <1>1, <1>2 DEF Credits
  <1>4. PICK x \in Int, y \in Int : x = SumUpTo(c, Final) /\ y = SumUpTo(d, Final)
    BY SumOfCredits, Zenon
  <1>5. y + c[k] = x + d[k]
    <2>1. SumUpTo(d, Final) + c[k] = SumUpTo(c, Final) + d[k]
      <3>1. /\ Final \in Nat /\ c \in [1..Final -> Int] /\ d \in [1..Final -> Int]
            /\ Senders = 1..Final
        BY SumOfCredits, Zenon
      <3>2. k \in 1..Final /\ \A i \in 1..Final : i # k => c[i] = d[i]
        BY <1>3, <3>1, Zenon
      <3>3. QED
        BY <3>1, <3>2, SumShift, Zenon
    <2>2. QED
      BY <1>4, <2>1, Zenon
  <1>6. polls + x <= served + counter
    BY <1>1, <1>4, Zenon DEF CreditedLedger, Credits
  <1>7. polls' + y <= served' + counter'
    <2>1. c[k] \in Nat /\ d[k] \in Nat
      OBVIOUS
    <2>2. /\ polls \in Nat /\ served \in Nat /\ counter \in Nat
          /\ polls' \in Nat /\ served' \in Nat /\ counter' \in Nat
      BY DEF TypeOK
    <2>3. PICK p \in Nat, v \in Nat, n \in Nat, a \in Nat, b \in Nat :
              p = polls' /\ v = served' /\ n = counter' /\ a = c[k] /\ b = d[k]
      BY <2>1, <2>2, Zenon
    <2>4. p + b + served + counter <= polls + a + v + n
      BY <1>3, <2>3, Zenon DEF Settles
    <2>5. y + a = x + b
      BY <1>5, <2>3, Zenon
    <2>6. p + y <= v + n
      BY <1>6, <2>2, <2>4, <2>5
    <2>7. QED
      BY <2>3, <2>6, Zenon
  <1>8. QED
    BY <1>2, <1>4, <1>7, Zenon DEF CreditedLedger, Credits

\* The server's total and the counter cover the polls and the credits of all
\* senders together, for any number of senders (CreditedLedger).
THEOREM CreditedLedgerHolds == Spec => []CreditedLedger
  <1>1. Init => CreditedLedger
    <2> SUFFICES ASSUME Init
                 PROVE  CreditedLedger
      OBVIOUS
    <2>1. /\ Credits \in [Senders -> Nat] /\ \A s \in Senders : Credits[s] = 0
          /\ polls = 1 /\ served = 0 /\ counter = 1
      <3>1. Credits = [s \in Senders |-> 0]
        BY DEF Init, Credits, Credit
      <3>2. polls = 1 /\ served = 0 /\ counter = 1
        BY DEF Init
      <3>3. QED
        BY <3>1, <3>2
    <2>2. Final \in Nat /\ Senders = 1..Final /\ Credits \in [1..Final -> Int]
      BY <2>1, SumOfCredits, Zenon
    <2>3. SumUpTo(Credits, Final) = 0
      BY <2>1, <2>2, SumOfZeros, Zenon
    <2>4. polls + SumUpTo(Credits, Final) <= served + counter
      BY <2>1, <2>3
    <2>5. QED
      BY <2>4, Zenon DEF CreditedLedger, Credits
  <1>2. TypeOK /\ TypeOK' /\ CreditedLedger /\ [Next]_vars => CreditedLedger'
    <2> SUFFICES ASSUME TypeOK, TypeOK', CreditedLedger, [Next]_vars
                 PROVE  CreditedLedger'
      OBVIOUS
    <2>1. /\ polls \in Nat /\ served \in Nat /\ counter \in Nat
          /\ phase \in [Senders -> Phases] /\ job \in [Senders -> Job]
          /\ \A s \in Senders : Credit(s) \in Nat /\ job[s].delta \in Nat
          /\ Final \in Senders /\ Workers \subseteq Senders
      BY NumberTypes, JobTypes
    <2>2. ASSUME phase' = phase, job' = job,
                 polls' + served + counter <= polls + served' + counter'
          PROVE  CreditedLedger'
      <3>1. \A s \in Senders : Credit(s)' = Credit(s)
        BY <2>2 DEF Credit
      <3>2. Credit(Final)' = Credit(Final)
        BY <2>1, <3>1
      <3>3. polls' \in Nat /\ served' \in Nat /\ counter' \in Nat
        BY DEF TypeOK
      <3>4. PICK p \in Nat, v \in Nat, n \in Nat, c \in Nat :
                p = polls' /\ v = served' /\ n = counter' /\ c = Credit(Final)
        BY <2>1, <3>3, Zenon
      <3>5. p + served + counter <= polls + v + n
        BY <2>2, <3>4, Zenon
      <3>6. p + c + served + counter <= polls + c + v + n
        BY <2>1, <3>5
      <3>7. Settles(Final)
        BY <3>2, <3>4, <3>6, Zenon DEF Settles
      <3>8. QED
        BY <2>1, <3>1, <3>7, Balance
    <2>3. ASSUME NEW k \in Senders, NEW p, NEW j,
                 phase' = [phase EXCEPT ![k] = p],
                 job' = [job EXCEPT ![k] = j],
                 Settles(k)
          PROVE  CreditedLedger'
      <3>1. \A s \in Senders \ {k} : Credit(s)' = Credit(s)
        BY <2>1, <2>3 DEF Credit
      <3>2. QED
        BY <2>3, <3>1, Balance
    <2>4. job = [job EXCEPT ![Final] = job[Final]]
          /\ \A s \in Senders : job = [job EXCEPT ![s] = job[s]]
      BY <2>1
    <2>5. CASE UNCHANGED vars \/ Returned
      BY <2>1, <2>2, <2>5 DEF Returned, vars, agentVars, senderVars, serverVars
    <2>6. CASE RefreshMetrics
      BY <2>1, <2>2, <2>6 DEF RefreshMetrics, senderVars, serverVars
    <2>7. CASE RefreshSystemMetrics \/ Cancel
      BY <2>1, <2>2, <2>7 DEF RefreshSystemMetrics, Cancel, agentVars, senderVars, serverVars
    <2>8. ASSUME NEW c \in Collectors, StopCollector(c)
          PROVE  CreditedLedger'
      BY <2>1, <2>2, <2>8 DEF StopCollector, senderVars, serverVars
    <2>9. CASE ReportLoop
      BY <2>1, <2>2, <2>9
      DEF ReportLoop, BuildReport, EnqueueJob, DropJob, EnqueueCancelled, LeaveLoop,
          agentVars, senderVars, serverVars
    <2>10. CASE CloseJobs \/ DeliveryTimeout
      BY <2>1, <2>2, <2>10
      DEF CloseJobs, DeliveryTimeout, agentVars, senderVars, serverVars
    <2>11. CASE StartFinalReport
      <3>1. Credit(Final)' = 0 /\ Credit(Final) \in Nat
        BY <2>1, <2>11 DEF StartFinalReport, Credit
      <3>2. polls' = polls /\ served' = served /\ counter' = counter
        BY <2>11 DEF StartFinalReport, agentVars, serverVars
      <3>3. Settles(Final)
        BY <2>1, <3>1, <3>2 DEF Settles
      <3>4. QED
        BY <2>1, <2>11, <3>3, <2>3 DEF StartFinalReport
    <2>12. ASSUME NEW w \in Workers, Worker(w)
           PROVE  CreditedLedger'
      <3>1. Credit(w)' = 0 /\ Credit(w) \in Nat /\ w \in Senders
        BY <2>1, <2>12 DEF Worker, ReceiveJob, ExitWorker, Credit
      <3>2. polls' = polls /\ served' = served /\ counter' = counter
        BY <2>12 DEF Worker, ReceiveJob, ExitWorker, agentVars, serverVars
      <3>3. Settles(w)
        BY <2>1, <3>1, <3>2 DEF Settles
      <3>4. QED
        BY <2>12, <2>4, <3>1, <3>3, <2>3 DEF Worker, ReceiveJob, ExitWorker
    <2>13. ASSUME NEW s \in Senders, Apply(s)
           PROVE  CreditedLedger'
      <3>1. Credit(s) = 0 /\ Credit(s)' = job[s].delta
        BY <2>1, <2>13 DEF Apply, Credit
      <3>2. served' = served + job[s].delta /\ polls' = polls /\ counter' = counter
        BY <2>13 DEF Apply, Store, agentVars
      <3>3. Settles(s)
        BY <2>1, <3>1, <3>2 DEF Settles
      <3>4. QED
        BY <2>13, <2>4, <3>3, <2>3 DEF Apply
    <2>14. ASSUME NEW l \in LateSlots, ApplyLate(l)
           PROVE  CreditedLedger'
      <3>1. late[l].delta \in Nat
        BY DEF TypeOK, Job
      <3>2. /\ served' = served + late[l].delta /\ polls' = polls /\ counter' = counter
            /\ phase' = phase /\ job' = job
        BY <2>14 DEF ApplyLate, Store, agentVars, senderVars
      <3>3. QED
        BY <2>1, <3>1, <3>2, <2>2
    <2>15. ASSUME NEW s \in Senders, Client(s)
           PROVE  CreditedLedger'
      <3>1. job[s].delta \in Nat /\ Credit(s) \in Nat
        BY <2>1
      <3>2. ASSUME GiveUp(s), served' = served
            PROVE  CreditedLedger'
        <4>1. Credit(s)' = 0
          BY <2>1, <3>2 DEF GiveUp, Return, Credit
        <4>2. polls' = polls /\ counter' = counter
          BY <3>2 DEF GiveUp
        <4>3. Settles(s)
          BY <2>1, <3>1, <3>2, <4>1, <4>2 DEF Settles
        <4>4. QED
          BY <3>2, <4>3, <2>3 DEF GiveUp, Return
      <3>3. ASSUME phase'[s] # "acking" \/ phase[s] = "applied", phase'[s] # "applied",
                   NEW p, phase' = [phase EXCEPT ![s] = p], job' = job,
                   polls' = polls, counter' = counter, served' = served
            PROVE  CreditedLedger'
        <4>1. Credit(s)' = 0 \/ Credit(s)' = Credit(s)
          BY <2>1, <3>3 DEF Credit
        <4>2. Settles(s)
          BY <2>1, <3>1, <3>3, <4>1 DEF Settles
        <4>3. QED
          BY <3>3, <4>2, <2>3, <2>4
      <3>4. CASE AckCounters(s)
        <4>1. Credit(s) = job[s].delta /\ Credit(s)' = 0
          BY <2>1, <3>4 DEF AckCounters, Return, Credit
        <4>2. /\ counter' \in Nat /\ counter' >= counter - job[s].delta
              /\ polls' = polls /\ served' = served
          BY <2>1, <3>1, <3>4 DEF AckCounters, Acked, serverVars
        <4>3. Settles(s)
          BY <2>1, <3>1, <4>1, <4>2 DEF Settles
        <4>4. QED
          BY <3>4, <4>3, <2>3 DEF AckCounters, Return
      <3>5. CASE ReplyOK(s) \/ Send(s) \/ WakeUp(s)
        BY <2>1, <3>3, <3>5 DEF ReplyOK, Send, WakeUp, agentVars, serverVars
      <3>6. CASE StopSending(s) \/ RequestTimeout(s) \/ ErrorStatus(s)
        BY <3>2, <3>6 DEF StopSending, RequestTimeout, ErrorStatus, serverVars
      <3>7. CASE TransportError(s)
        <4>1. CASE attempt[s] < MaxAttempts
          BY <2>1, <3>3, <3>7, <4>1 DEF TransportError, agentVars
        <4>2. CASE ~(attempt[s] < MaxAttempts)
          BY <3>2, <3>7, <4>2 DEF TransportError
        <4>3. QED
          BY <4>1, <4>2
      <3>8. QED
        BY <2>15, <3>4, <3>5, <3>6, <3>7 DEF Client
    <2>16. QED
      BY <2>5, <2>6, <2>7, <2>8, <2>9, <2>10, <2>11, <2>12, <2>13, <2>14, <2>15
      DEF Next, Shutdown
  <1>3. QED
    BY <1>1, <1>2, TypeInvariant, PTL DEF Spec

\* Every poll is in the server's total or still in the agent's counter, in
\* every behaviour (NoPollLost): the credits are not negative.
THEOREM NoPollLostHolds == Spec => []NoPollLost
  <1>1. TypeOK /\ CreditedLedger => NoPollLost
    <2> SUFFICES ASSUME TypeOK, CreditedLedger
                 PROVE  NoPollLost
      OBVIOUS
    <2>1. PICK c \in [Senders -> Nat] : c = Credits
      BY CreditTypes, Zenon
    <2>2. PICK x \in Nat : x = SumUpTo(c, Final)
      <3>1. Final \in Nat /\ Senders = 1..Final
        BY SumOfCredits, Zenon
      <3>2. c \in [1..Final -> Nat]
        BY <3>1
      <3>3. QED
        BY <3>1, <3>2, SumOfNaturals, Zenon
    <2>3. polls + x <= served + counter
      BY <2>1, <2>2, Zenon DEF CreditedLedger, Credits
    <2>4. QED
      BY <2>3, NumberTypes DEF NoPollLost
  <1>2. QED
    BY <1>1, CreditedLedgerHolds, TypeInvariant, PTL

----------------------------------------------------------------------------
(* The end of Run.  The collectors and the workers are gone when the last  *)
(* report is built, so what it carries is still the agent's state when it  *)
(* is acknowledged.                                                        *)

ShutdownInv ==
    /\ main \in {"drain", "final", "done"} => collectors = {}
    /\ main \in {"final", "done"} => WorkersStopped
    /\ main \notin {"final", "done"} => phase[Final] = "idle" /\ outcome = "none"
    /\ main = "final" =>
          /\ phase[Final] \notin {"idle", "exited"}
          /\ job[Final] = BuiltJob
          /\ outcome = "none"
    /\ main = "done" => phase[Final] = "exited"
    /\ outcome = "acked" => counter = 0

LEMMA SenderTypes ==
    ASSUME TypeOK
    PROVE  /\ phase \in [Senders -> Phases] /\ job \in [Senders -> Job]
           /\ counter \in Nat
           /\ Final \in Senders
           /\ \A w \in Workers : w \in Senders /\ w # Final
           /\ \A s \in Senders : s \in Workers \/ s = Final
  BY AgentAssumption DEF TypeOK, Senders, Workers, Final

\* A sender acts on a job only if it is a worker that has not exited, or Run
\* while it sends the last report.
LEMMA ActiveSender ==
    ASSUME TypeOK, ShutdownInv, NEW s \in Senders, phase[s] \notin {"idle", "exited"}
    PROVE  /\ s = Final => main = "final"
           /\ s # Final => main \notin {"final", "done"}
  BY SenderTypes DEF ShutdownInv, WorkersStopped

LEMMA ShutdownInvariant == Spec => []ShutdownInv
  <1>1. Init => ShutdownInv
    BY AgentAssumption DEF Init, ShutdownInv, Senders, Final
  <1>2. TypeOK /\ ShutdownInv /\ [Next]_vars => ShutdownInv'
    <2> SUFFICES ASSUME TypeOK, ShutdownInv, [Next]_vars
                 PROVE  ShutdownInv'
      OBVIOUS
    <2>1. /\ phase \in [Senders -> Phases] /\ job \in [Senders -> Job]
          /\ counter \in Nat
          /\ Final \in Senders
          /\ \A w \in Workers : w \in Senders /\ w # Final
          /\ \A s \in Senders : s \in Workers \/ s = Final
      BY SenderTypes
    <2>2. CASE UNCHANGED vars \/ Returned
      BY <2>2
      DEF Returned, vars, agentVars, mainVars, senderVars, ShutdownInv, WorkersStopped, BuiltJob
    <2>3. CASE RefreshMetrics \/ RefreshSystemMetrics
      BY <2>3
      DEF RefreshMetrics, RefreshSystemMetrics, mainVars, senderVars, ShutdownInv, WorkersStopped
    <2>4. CASE Cancel \/ DeliveryTimeout
      BY <2>4
      DEF Cancel, DeliveryTimeout, agentVars, mainVars, senderVars, ShutdownInv,
          WorkersStopped, BuiltJob
    <2>5. ASSUME NEW c \in Collectors, StopCollector(c)
          PROVE  ShutdownInv'
      BY <2>5 DEF StopCollector, mainVars, senderVars, ShutdownInv, WorkersStopped, BuiltJob
    <2>6. CASE ReportLoop
      BY <2>6
      DEF ReportLoop, BuildReport, EnqueueJob, DropJob, EnqueueCancelled, LeaveLoop,
          agentVars, senderVars, ShutdownInv, WorkersStopped
    <2>7. CASE CloseJobs
      BY <2>7 DEF CloseJobs, CollectorsStopped, agentVars, senderVars, ShutdownInv
    <2>8. CASE StartFinalReport
      BY <2>1, <2>8
      DEF StartFinalReport, agentVars, ShutdownInv, WorkersStopped, BuiltJob
    <2>9. ASSUME NEW w \in Workers, Worker(w)
          PROVE  ShutdownInv'
      BY <2>1, <2>9
      DEF Worker, ReceiveJob, ExitWorker, agentVars, mainVars, ShutdownInv,
          WorkersStopped, BuiltJob
    <2>10. ASSUME NEW s \in Senders, Apply(s)
           PROVE  ShutdownInv'
      BY <2>1, <2>10, ActiveSender
      DEF Apply, agentVars, mainVars, ShutdownInv, WorkersStopped, BuiltJob
    <2>11. ASSUME NEW l \in LateSlots, ApplyLate(l)
           PROVE  ShutdownInv'
      BY <2>11
      DEF ApplyLate, agentVars, mainVars, senderVars, ShutdownInv, WorkersStopped, BuiltJob
    <2>12. ASSUME NEW s \in Senders, Client(s)
           PROVE  ShutdownInv'
      <3>1. phase[s] \notin {"idle", "exited"}
        BY <2>12
        DEF Client, Send, StopSending, RequestTimeout, ErrorStatus, TransportError,
            WakeUp, ReplyOK, AckCounters
      <3>2. ASSUME NEW p \in {"ready", "sent", "backoff", "acking"},
                   phase' = [phase EXCEPT ![s] = p],
                   UNCHANGED <<agentVars, main, job, outcome>>
            PROVE  ShutdownInv'
        BY <2>1, <3>1, <3>2, ActiveSender
        DEF agentVars, ShutdownInv, WorkersStopped, BuiltJob
      <3>3. CASE Send(s) \/ WakeUp(s) \/ ReplyOK(s)
        BY <3>2, <3>3 DEF Send, WakeUp, ReplyOK, mainVars
      <3>4. ASSUME GiveUp(s)
            PROVE  ShutdownInv'
        <4>1. CASE s = Final
          BY <2>1, <3>1, <3>4, <4>1, ActiveSender
          DEF GiveUp, Return, ShutdownInv, WorkersStopped
        <4>2. CASE s # Final
          BY <2>1, <3>1, <3>4, <4>2, ActiveSender
          DEF GiveUp, Return, ShutdownInv, WorkersStopped
        <4>3. QED
          BY <4>1, <4>2
      <3>5. CASE StopSending(s) \/ RequestTimeout(s) \/ ErrorStatus(s)
        BY <3>4, <3>5 DEF StopSending, RequestTimeout, ErrorStatus
      <3>6. CASE TransportError(s)
        BY <3>2, <3>4, <3>6 DEF TransportError
      <3>7. CASE AckCounters(s)
        <4>1. CASE s = Final
          <5>1. main = "final" /\ job[s].delta = counter
            BY <3>1, <4>1, ActiveSender DEF ShutdownInv, BuiltJob
          <5>2. counter' = 0
            BY <2>1, <3>7, <5>1 DEF AckCounters, Acked
          <5>3. QED
            BY <2>1, <3>7, <4>1, <5>1, <5>2
            DEF AckCounters, Return, ShutdownInv, WorkersStopped
        <4>2. CASE s # Final
          BY <2>1, <3>1, <3>7, <4>2, ActiveSender
          DEF AckCounters, Return, ShutdownInv, WorkersStopped
        <4>3. QED
          BY <4>1, <4>2
      <3>8. QED
        BY <2>12, <3>3, <3>5, <3>6, <3>7 DEF Client
    <2>13. QED
      BY <2>2, <2>3, <2>4, <2>5, <2>6, <2>7, <2>8, <2>9, <2>10, <2>11, <2>12
      DEF Next, Shutdown
  <1>3. QED
    BY <1>1, <1>2, TypeInvariant, PTL DEF Spec

\* An acknowledged last report leaves no poll unreported, whatever the workers,
\* the collectors and the network did before it (FinalReportClears).
THEOREM FinalReportClearsHolds == Spec => []FinalReportClears
  <1>1. ShutdownInv => FinalReportClears
    BY DEF ShutdownInv, FinalReportClears
  <1>2. QED
    BY <1>1, ShutdownInvariant, PTL

\* At most RateLimit requests are outstanding, also while the last report is
\* sent (OutgoingWithinLimit).
THEOREM OutgoingWithinLimitHolds == Spec => []OutgoingWithinLimit
  <1> DEFINE Outgoing == {s \in Senders : phase[s] \in {"sent", "applied"}}
  <1>1. TypeOK /\ ShutdownInv => OutgoingWithinLimit
    <2> SUFFICES ASSUME TypeOK, ShutdownInv
                 PROVE  Cardinality(Outgoing) <= RateLimit
      BY DEF OutgoingWithinLimit
    <2>1. IsFiniteSet(Workers) /\ Cardinality(Workers) = RateLimit
      BY AgentAssumption, FS_Interval DEF Workers
    <2>2. CASE main \in {"final", "done"}
      <3>1. Outgoing \subseteq {Final}
        BY <2>2, SenderTypes DEF ShutdownInv, WorkersStopped
      <3>2. IsFiniteSet({Final}) /\ Cardinality({Final}) = 1
        BY FS_Singleton
      <3>3. Cardinality(Outgoing) <= 1
        BY <3>1, <3>2, FS_Subset
      <3>4. Cardinality(Outgoing) \in Nat
        BY <3>1, <3>2, FS_Subset, FS_CardinalityType
      <3>5. QED
        BY <3>3, <3>4, AgentAssumption
    <2>3. CASE main \notin {"final", "done"}
      <3>1. Outgoing \subseteq Workers
        BY <2>3, SenderTypes DEF ShutdownInv
      <3>2. QED
        BY <2>1, <3>1, FS_Subset
    <2>4. QED
      BY <2>2, <2>3
  <1>2. QED
    BY <1>1, TypeInvariant, ShutdownInvariant, PTL

----------------------------------------------------------------------------
(* What the server shows at the end, when the network keeps no request that *)
(* the client abandoned: then only the last report can reach the server    *)
(* once Run has started to send it.                                        *)

Shows == shown.run = polls /\ (samples > 0 => shown.sys = samples)

DeliveredInv ==
    /\ main = "final" /\ phase[Final] \in {"applied", "acking"} => Shows
    /\ outcome = "acked" => main = "done" /\ Shows

LEMMA ReturnDelivered ==
    ASSUME TypeOK, ShutdownInv, DeliveredInv, NEW s \in Senders,
           NEW result \in {"acked", "failed"},
           phase[s] \notin {"idle", "exited"},
           result = "acked" => phase[s] = "acking",
           Return(s, result),
           UNCHANGED <<polls, samples, shown>>
    PROVE  DeliveredInv'
  <1>1. CASE s = Final
    BY <1>1, SenderTypes, ActiveSender DEF Return, DeliveredInv, ShutdownInv, Shows
  <1>2. CASE s # Final
    BY <1>2, SenderTypes, ActiveSender DEF Return, DeliveredInv, ShutdownInv, Shows
  <1>3. QED
    BY <1>1, <1>2

\* If the network drops what the client abandons, an acknowledged last report
\* leaves the newest gauges at the server (FinalReportShown).
THEOREM FinalReportShownHolds ==
    ASSUME LateSlots = {}
    PROVE  Spec => []FinalReportShown
  <1>1. Init => DeliveredInv
    BY DEF Init, DeliveredInv
  <1>2. TypeOK /\ ShutdownInv /\ DeliveredInv /\ [Next]_vars => DeliveredInv'
    <2> SUFFICES ASSUME TypeOK, ShutdownInv, DeliveredInv, [Next]_vars
                 PROVE  DeliveredInv'
      OBVIOUS
    <2>1. /\ phase \in [Senders -> Phases] /\ job \in [Senders -> Job]
          /\ Final \in Senders
          /\ \A w \in Workers : w \in Senders /\ w # Final
          /\ \A s \in Senders : s \in Workers \/ s = Final
      BY SenderTypes
    <2>2. CASE UNCHANGED vars \/ Returned \/ Cancel \/ DeliveryTimeout
      BY <2>2
      DEF Returned, Cancel, DeliveryTimeout, vars, agentVars, mainVars, senderVars,
          serverVars, DeliveredInv, Shows
    <2>3. CASE RefreshMetrics \/ RefreshSystemMetrics
      BY <2>3
      DEF RefreshMetrics, RefreshSystemMetrics, mainVars, senderVars, serverVars,
          ShutdownInv, DeliveredInv, Shows
    <2>4. ASSUME NEW c \in Collectors, StopCollector(c)
          PROVE  DeliveredInv'
      BY <2>4 DEF StopCollector, mainVars, senderVars, serverVars, DeliveredInv, Shows
    <2>5. CASE ReportLoop \/ CloseJobs
      BY <2>5
      DEF ReportLoop, BuildReport, EnqueueJob, DropJob, EnqueueCancelled, LeaveLoop,
          CloseJobs, agentVars, senderVars, serverVars, ShutdownInv, DeliveredInv, Shows
    <2>6. CASE StartFinalReport
      BY <2>1, <2>6
      DEF StartFinalReport, agentVars, serverVars, ShutdownInv, DeliveredInv, Shows
    <2>7. ASSUME NEW w \in Workers, Worker(w)
          PROVE  DeliveredInv'
      BY <2>1, <2>7
      DEF Worker, ReceiveJob, ExitWorker, agentVars, mainVars, serverVars, DeliveredInv, Shows
    <2>8. ASSUME NEW s \in Senders, Apply(s)
          PROVE  DeliveredInv'
      <3>1. CASE s = Final
        <4>1. main = "final" /\ job[s] = BuiltJob
          BY <2>1, <2>8, <3>1, ActiveSender DEF Apply, ShutdownInv
        <4>2. Shows'
          BY <2>8, <4>1 DEF Apply, Store, BuiltJob, Shows, agentVars, TypeOK
        <4>3. QED
          BY <2>8, <4>1, <4>2 DEF Apply, DeliveredInv, ShutdownInv, mainVars
      <3>2. CASE s # Final
        BY <2>1, <2>8, <3>2, ActiveSender
        DEF Apply, mainVars, DeliveredInv, ShutdownInv
      <3>3. QED
        BY <3>1, <3>2
    <2>9. ASSUME NEW s \in Senders, Client(s)
          PROVE  DeliveredInv'
      <3>1. phase[s] \notin {"idle", "exited"}
        BY <2>9
        DEF Client, Send, StopSending, RequestTimeout, ErrorStatus, TransportError,
            WakeUp, ReplyOK, AckCounters
      <3>2. ASSUME GiveUp(s), UNCHANGED shown
            PROVE  DeliveredInv'
        BY <3>1, <3>2, ReturnDelivered DEF GiveUp
      <3>3. ASSUME NEW p \in {"ready", "sent", "backoff", "acking"},
                   p = "acking" => phase[s] = "applied",
                   phase' = [phase EXCEPT ![s] = p],
                   UNCHANGED <<agentVars, main, shown, outcome>>
            PROVE  DeliveredInv'
        BY <2>1, <3>3 DEF agentVars, DeliveredInv, Shows
      <3>4. CASE Send(s) \/ WakeUp(s) \/ ReplyOK(s)
        BY <3>3, <3>4 DEF Send, WakeUp, ReplyOK, mainVars, serverVars
      <3>5. CASE StopSending(s) \/ RequestTimeout(s) \/ ErrorStatus(s)
        BY <3>2, <3>5 DEF StopSending, RequestTimeout, ErrorStatus, serverVars
      <3>6. CASE TransportError(s)
        BY <3>2, <3>3, <3>6 DEF TransportError
      <3>7. CASE AckCounters(s)
        BY <3>7, <3>1, ReturnDelivered DEF AckCounters, serverVars
      <3>8. QED
        BY <2>9, <3>4, <3>5, <3>6, <3>7 DEF Client
    <2>10. QED
      BY <2>2, <2>3, <2>4, <2>5, <2>6, <2>7, <2>8, <2>9 DEF Next, Shutdown
  <1>3. ShutdownInv /\ DeliveredInv => FinalReportShown
    BY DEF DeliveredInv, FinalReportShown, Shows
  <1>4. QED
    BY <1>1, <1>2, <1>3, TypeInvariant, ShutdownInvariant, PTL DEF Spec

----------------------------------------------------------------------------
(* The order of the gauges, with one worker and a network that keeps no    *)
(* request the client abandoned: what the server shows, the job in the     *)
(* worker's hands, the queue, the job not yet enqueued and the agent's     *)
(* state are readings of increasing age, in this order from the oldest.    *)

Older(x, y) == x.run <= y.run /\ x.sys <= y.sys

Busy == phase[1] \notin {"idle", "exited"}

NothingNewer ==
    /\ Older(shown, BuiltJob)
    /\ \A i \in 1..Len(queue) : Older(queue[i], BuiltJob)
    /\ main = "enqueue" => Older(pending, BuiltJob)
    /\ Busy => Older(job[1], BuiltJob)

ShownIsOldest ==
    /\ \A i \in 1..Len(queue) : Older(shown, queue[i])
    /\ main = "enqueue" => Older(shown, pending)
    /\ Busy => Older(shown, job[1])

JobsInOrder ==
    /\ \A i, j \in 1..Len(queue) : i < j => Older(queue[i], queue[j])
    /\ main = "enqueue" => \A i \in 1..Len(queue) : Older(queue[i], pending)
    /\ Busy => \A i \in 1..Len(queue) : Older(job[1], queue[i])
    /\ Busy /\ main = "enqueue" => Older(job[1], pending)

OrderInv == NothingNewer /\ ShownIsOldest /\ JobsInOrder

\* A worker exits when the channel is closed and drained, and reportLoop has
\* ended by then.
ClosedInv ==
    /\ closed => main \notin {"loop", "enqueue", "join"}
    /\ \A w \in Workers : phase[w] = "exited" => closed /\ queue = <<>>

LEMMA ClosedInvariant == Spec => []ClosedInv
  <1>1. Init => ClosedInv
    BY AgentAssumption DEF Init, ClosedInv, Workers, Senders
  <1>2. TypeOK /\ ClosedInv /\ [Next]_vars => ClosedInv'
    <2> SUFFICES ASSUME TypeOK, ClosedInv, [Next]_vars
                 PROVE  ClosedInv'
      OBVIOUS
    <2>1. /\ phase \in [Senders -> Phases] /\ Final \in Senders
          /\ \A w \in Workers : w \in Senders /\ w # Final
      BY SenderTypes
    <2>2. CASE UNCHANGED vars \/ Returned \/ Cancel \/ DeliveryTimeout
      BY <2>2
      DEF Returned, Cancel, DeliveryTimeout, vars, mainVars, senderVars, ClosedInv
    <2>3. CASE RefreshMetrics \/ RefreshSystemMetrics
      BY <2>3 DEF RefreshMetrics, RefreshSystemMetrics, mainVars, senderVars, ClosedInv
    <2>4. ASSUME NEW c \in Collectors, StopCollector(c)
          PROVE  ClosedInv'
      BY <2>4 DEF StopCollector, mainVars, senderVars, ClosedInv
    <2>5. CASE ReportLoop
      BY <2>5
      DEF ReportLoop, BuildReport, EnqueueJob, DropJob, EnqueueCancelled, LeaveLoop,
          senderVars, ClosedInv
    <2>6. CASE CloseJobs
      BY <2>6 DEF CloseJobs, senderVars, ClosedInv
    <2>7. CASE StartFinalReport
      BY <2>1, <2>7 DEF StartFinalReport, ClosedInv
    <2>8. ASSUME NEW w \in Workers, Worker(w)
          PROVE  ClosedInv'
      BY <2>1, <2>8 DEF Worker, ReceiveJob, ExitWorker, mainVars, ClosedInv
    <2>9. ASSUME NEW s \in Senders, Client(s) \/ Apply(s)
          PROVE  ClosedInv'
      <3>1. UNCHANGED <<closed, queue>> /\ main' \in {main, "done"}
        BY <2>9
        DEF Client, Send, StopSending, RequestTimeout, ErrorStatus, TransportError, WakeUp,
            ReplyOK, AckCounters, GiveUp, Return, Apply, mainVars
      <3>2. \A w \in Workers : phase'[w] = "exited" => phase[w] = "exited"
        <4>1. \E p \in Phases : /\ phase' = [phase EXCEPT ![s] = p]
                                /\ s # Final => p # "exited"
          BY <2>9
          DEF Client, Send, StopSending, RequestTimeout, ErrorStatus, TransportError,
              WakeUp, ReplyOK, AckCounters, GiveUp, Return, Apply, Phases
        <4>2. QED
          BY <2>1, <4>1
      <3>3. QED
        BY <3>1, <3>2 DEF ClosedInv
    <2>10. ASSUME NEW l \in LateSlots, ApplyLate(l)
           PROVE  ClosedInv'
      BY <2>10 DEF ApplyLate, mainVars, senderVars, ClosedInv
    <2>11. QED
      BY <2>2, <2>3, <2>4, <2>5, <2>6, <2>7, <2>8, <2>9, <2>10 DEF Next, Shutdown
  <1>3. QED
    BY <1>1, <1>2, TypeInvariant, PTL DEF Spec

LEMMA Stamps ==
    ASSUME TypeOK
    PROVE  /\ shown.run \in Nat /\ shown.sys \in Nat
           /\ polls \in Nat /\ samples \in Nat
           /\ BuiltJob.run = polls /\ BuiltJob.sys = samples
           /\ \A i \in 1..Len(queue) : queue[i] \in Job
           /\ pending \in Job
           /\ 1 \in Senders /\ 1 # Final
           /\ \A s \in Senders : job[s] \in Job
           /\ \A j \in Job : j.run \in Nat /\ j.sys \in Nat
  <1>1. shown.run \in Nat /\ shown.sys \in Nat
    BY DEF TypeOK
  <1>2. /\ polls \in Nat /\ samples \in Nat
        /\ BuiltJob.run = polls /\ BuiltJob.sys = samples
    BY DEF TypeOK, BuiltJob
  <1>3. pending \in Job /\ \A i \in 1..Len(queue) : queue[i] \in Job
    BY DEF TypeOK
  <1>4. 1 \in Senders /\ 1 # Final /\ \A s \in Senders : job[s] \in Job
    BY AgentAssumption DEF TypeOK, Senders, Final
  <1>5. \A j \in Job : j.run \in Nat /\ j.sys \in Nat
    BY DEF Job
  <1>6. QED
    BY <1>1, <1>2, <1>3, <1>4, <1>5

LEMMA OlderIsTransitive ==
    ASSUME NEW x, NEW y, NEW z,
           x.run \in Nat, x.sys \in Nat, y.run \in Nat, y.sys \in Nat,
           z.run \in Nat, z.sys \in Nat,
           Older(x, y), Older(y, z)
    PROVE  Older(x, z)
  BY DEF Older

\* A step that takes readings, or that takes a job away, keeps the order.
LEMMA QuietStep ==
    ASSUME TypeOK, TypeOK', OrderInv,
           UNCHANGED <<shown, queue>>,
           polls <= polls', samples <= samples',
           main' = "enqueue" => main = "enqueue" /\ pending' = pending,
           Busy' => Busy /\ job'[1] = job[1]
    PROVE  OrderInv'
  <1>1. ASSUME NEW x, x.run \in Nat, x.sys \in Nat, Older(x, BuiltJob)
        PROVE  Older(x, BuiltJob')
    <2>1. /\ polls' \in Nat /\ samples' \in Nat
          /\ BuiltJob'.run = polls' /\ BuiltJob'.sys = samples'
      BY DEF TypeOK, BuiltJob
    <2>2. x.run <= polls /\ x.sys <= samples /\ polls \in Nat /\ samples \in Nat
      BY <1>1, Stamps DEF Older
    <2>3. x.run <= polls' /\ x.sys <= samples'
      BY <1>1, <2>1, <2>2
    <2>4. QED
      BY <2>1, <2>3 DEF Older
  <1>2. NothingNewer'
    BY <1>1, Stamps DEF OrderInv, NothingNewer, Older
  <1>3. ShownIsOldest' /\ JobsInOrder'
    BY DEF OrderInv, ShownIsOldest, JobsInOrder, Older
  <1>4. QED
    BY <1>2, <1>3 DEF OrderInv

\* A sender that is not idle is the worker, or Run after the worker has exited.
LEMMA OneWorker ==
    ASSUME RateLimit = 1, TypeOK, ShutdownInv, ClosedInv, NEW s \in Senders
    PROVE  /\ s = 1 \/ s = Final
           /\ s = Final /\ phase[s] \notin {"idle", "exited"} =>
                 main = "final" /\ ~Busy /\ queue = <<>> /\ job[s] = BuiltJob
           /\ Workers = {1}
  BY SenderTypes, ActiveSender
  DEF Senders, Final, Workers, Busy, ShutdownInv, WorkersStopped, ClosedInv

LEMMA OrderStep ==
    ASSUME RateLimit = 1, LateSlots = {},
           TypeOK, TypeOK', ShutdownInv, ClosedInv, OrderInv, [Next]_vars
    PROVE  OrderInv'
  <1>1. /\ phase \in [Senders -> Phases] /\ job \in [Senders -> Job]
        /\ 1 \in Senders /\ Final \in Senders /\ 1 # Final
    BY SenderTypes, Stamps
  <1>2. CASE UNCHANGED vars \/ Returned \/ Cancel \/ DeliveryTimeout
    BY <1>2, Stamps, QuietStep
    DEF Returned, Cancel, DeliveryTimeout, vars, agentVars, mainVars, senderVars,
        serverVars, Busy
  <1>3. CASE RefreshMetrics \/ RefreshSystemMetrics
    BY <1>3, Stamps, QuietStep
    DEF RefreshMetrics, RefreshSystemMetrics, mainVars, senderVars, serverVars, Busy
  <1>4. ASSUME NEW c \in Collectors, StopCollector(c)
        PROVE  OrderInv'
    BY <1>4, Stamps, QuietStep DEF StopCollector, mainVars, senderVars, serverVars, Busy
  <1>5. CASE DropJob \/ EnqueueCancelled \/ LeaveLoop \/ CloseJobs
    BY <1>5, Stamps, QuietStep
    DEF DropJob, EnqueueCancelled, LeaveLoop, CloseJobs, agentVars, senderVars,
        serverVars, Busy
  <1>6. CASE StartFinalReport
    BY <1>1, <1>6, Stamps, QuietStep
    DEF StartFinalReport, agentVars, serverVars, Busy
  <1>7. CASE BuildReport
    <2>1. /\ UNCHANGED <<polls, samples, queue, job, phase, shown>>
          /\ main' = "enqueue" /\ pending' = BuiltJob
      BY <1>7 DEF BuildReport, agentVars, senderVars, serverVars
    <2>2. BuiltJob' = BuiltJob
      BY <1>7 DEF BuildReport, agentVars, BuiltJob
    <2>3. Older(BuiltJob, BuiltJob)
      BY Stamps DEF Older
    <2>4. QED
      BY <2>1, <2>2, <2>3 DEF OrderInv, NothingNewer, ShownIsOldest, JobsInOrder, Busy
  <1>8. CASE EnqueueJob
    <2>1. /\ UNCHANGED <<polls, samples, job, phase, shown>>
          /\ main = "enqueue" /\ main' = "loop" /\ queue' = Append(queue, pending)
      BY <1>8 DEF EnqueueJob, agentVars, senderVars, serverVars
    <2>2. BuiltJob' = BuiltJob /\ (Busy' <=> Busy)
      <3>1. BuiltJob' = BuiltJob
        BY <1>8 DEF EnqueueJob, BuiltJob, agentVars
      <3>2. Busy' <=> Busy
        BY <2>1, Zenon DEF Busy
      <3>3. QED
        BY <3>1, <3>2
    <2>3. /\ queue \in Seq(Job) /\ pending \in Job
      BY DEF TypeOK
    <2>4. /\ Len(queue') = Len(queue) + 1
          /\ \A i \in 1..Len(queue) : queue'[i] = queue[i]
          /\ queue'[Len(queue) + 1] = pending
      BY <2>1, <2>3
    <2>5. \A i \in 1..Len(queue') : i \in 1..Len(queue) \/ i = Len(queue) + 1
      BY <2>3, <2>4
    <2>6. NothingNewer'
      BY <2>1, <2>2, <2>4, <2>5 DEF OrderInv, NothingNewer
    <2>7. ShownIsOldest'
      BY <2>1, <2>2, <2>4, <2>5 DEF OrderInv, ShownIsOldest
    <2>8. JobsInOrder'
      <3>1. ASSUME NEW i \in 1..Len(queue'), NEW j \in 1..Len(queue'), i < j
            PROVE  Older(queue'[i], queue'[j])
        <4>1. i \in 1..Len(queue)
          BY <2>3, <2>4, <2>5, <3>1
        <4>2. QED
          BY <2>1, <2>4, <2>5, <3>1, <4>1 DEF OrderInv, JobsInOrder
      <3>2. Busy' => \A i \in 1..Len(queue') : Older(job'[1], queue'[i])
        BY <2>1, <2>2, <2>4, <2>5 DEF OrderInv, JobsInOrder
      <3>3. QED
        BY <2>1, <3>1, <3>2 DEF JobsInOrder
    <2>9. QED
      BY <2>6, <2>7, <2>8 DEF OrderInv
  <1>9. ASSUME NEW w \in Workers, ReceiveJob(w)
        PROVE  OrderInv'
    <2>1. w = 1
      BY OneWorker, <1>1
    <2>2. /\ UNCHANGED <<polls, samples, shown, main, pending>>
          /\ queue # <<>> /\ queue' = Tail(queue) /\ job'[1] = Head(queue)
      BY <1>1, <1>9, <2>1 DEF ReceiveJob, agentVars, mainVars, serverVars
    <2>3. BuiltJob' = BuiltJob
      BY <1>9 DEF ReceiveJob, agentVars, BuiltJob
    <2>4. queue \in Seq(Job)
      BY DEF TypeOK
    <2>5. /\ Len(queue) \in Nat /\ Len(queue) >= 1 /\ Len(queue') = Len(queue) - 1
          /\ \A i \in 1..Len(queue') : queue'[i] = queue[i + 1]
          /\ job'[1] = queue[1]
      BY <2>2, <2>4
    <2>6. /\ 1 \in 1..Len(queue)
          /\ \A i \in 1..Len(queue') : i + 1 \in 1..Len(queue) /\ 1 < i + 1
      BY <2>5
    <2>7. NothingNewer'
      BY <2>2, <2>3, <2>5, <2>6 DEF OrderInv, NothingNewer
    <2>8. ShownIsOldest'
      BY <2>2, <2>5, <2>6 DEF OrderInv, ShownIsOldest
    <2>9. JobsInOrder'
      <3>1. ASSUME NEW i \in 1..Len(queue'), NEW j \in 1..Len(queue'), i < j
            PROVE  Older(queue'[i], queue'[j])
        <4>1. i + 1 < j + 1
          BY <2>5, <3>1
        <4>2. QED
          BY <2>5, <2>6, <4>1 DEF OrderInv, JobsInOrder
      <3>2. \A i \in 1..Len(queue') : Older(job'[1], queue'[i])
        BY <2>5, <2>6 DEF OrderInv, JobsInOrder
      <3>3. main' = "enqueue" =>
                Older(job'[1], pending') /\ \A i \in 1..Len(queue') : Older(queue'[i], pending')
        BY <2>2, <2>5, <2>6 DEF OrderInv, JobsInOrder
      <3>4. QED
        BY <3>1, <3>2, <3>3 DEF JobsInOrder
    <2>10. QED
      BY <2>7, <2>8, <2>9 DEF OrderInv
  <1>10. ASSUME NEW w \in Workers, ExitWorker(w)
         PROVE  OrderInv'
    <2>1. w = 1
      BY OneWorker, <1>1
    <2>2. QED
      BY <1>1, <1>10, <2>1, Stamps, QuietStep
      DEF ExitWorker, agentVars, mainVars, serverVars, Busy
  <1>11. ASSUME NEW s \in Senders, Apply(s)
         PROVE  OrderInv'
    <2>1. /\ UNCHANGED <<polls, samples, queue, main, pending, job>>
          /\ phase[s] = "sent" /\ phase' = [phase EXCEPT ![s] = "applied"]
      BY <1>11 DEF Apply, agentVars, mainVars
    <2>2. BuiltJob' = BuiltJob
      BY <1>11 DEF Apply, agentVars, BuiltJob
    <2>3. Older(shown, job[s]) => shown'.run = job[s].run /\ shown'.sys = job[s].sys
      BY <1>11, Stamps DEF Apply, Store, Older
    <2>4. CASE s = 1
      <3>1. Busy /\ Busy' /\ shown'.run = job[1].run /\ shown'.sys = job[1].sys
        BY <1>1, <2>1, <2>3, <2>4 DEF OrderInv, ShownIsOldest, Busy
      <3>2. Older(job[1], job[1])
        BY Stamps DEF Older
      <3>3. NothingNewer'
        BY <2>1, <2>2, <3>1 DEF OrderInv, NothingNewer, Older
      <3>4. ShownIsOldest'
        BY <2>1, <3>1, <3>2 DEF OrderInv, JobsInOrder, ShownIsOldest, Older
      <3>5. JobsInOrder'
        BY <2>1, <3>1 DEF OrderInv, JobsInOrder
      <3>6. QED
        BY <3>3, <3>4, <3>5 DEF OrderInv
    <2>5. CASE s = Final
      <3>1. main = "final" /\ ~Busy /\ queue = <<>> /\ job[s] = BuiltJob
        BY <2>1, <2>5, OneWorker
      <3>2. ~Busy' /\ shown'.run = BuiltJob.run /\ shown'.sys = BuiltJob.sys
        BY <1>1, <2>1, <2>3, <2>5, <3>1 DEF OrderInv, NothingNewer, Busy
      <3>3. Older(shown', BuiltJob)
        BY <3>2, Stamps DEF Older
      <3>4. queue' = <<>> /\ main' # "enqueue"
        BY <2>1, <3>1
      <3>5. QED
        BY <2>2, <3>2, <3>3, <3>4 DEF OrderInv, NothingNewer, ShownIsOldest, JobsInOrder
    <2>6. QED
      BY <2>4, <2>5, OneWorker
  <1>12. ASSUME NEW s \in Senders, Client(s)
         PROVE  OrderInv'
    <2>1. UNCHANGED <<polls, samples, shown, queue, pending>>
      BY <1>12
      DEF Client, Send, StopSending, RequestTimeout, ErrorStatus, TransportError, WakeUp,
          ReplyOK, AckCounters, GiveUp, agentVars, mainVars, serverVars
    <2>2. main' \in {main, "done"}
      BY <1>12
      DEF Client, Send, StopSending, RequestTimeout, ErrorStatus, TransportError, WakeUp,
          ReplyOK, AckCounters, GiveUp, Return, agentVars, mainVars
    <2>3. phase[s] \notin {"idle", "exited"}
      BY <1>12
      DEF Client, Send, StopSending, RequestTimeout, ErrorStatus, TransportError, WakeUp,
          ReplyOK, AckCounters
    <2>4. Busy' => Busy /\ job'[1] = job[1]
      <3>1. \/ UNCHANGED job /\ \E p \in Phases : phase' = [phase EXCEPT ![s] = p]
            \/ Return(s, "failed") \/ Return(s, "acked")
        BY <1>12
        DEF Client, Send, StopSending, RequestTimeout, ErrorStatus, TransportError, WakeUp,
            ReplyOK, AckCounters, GiveUp, Phases
      <3>2. CASE UNCHANGED job /\ \E p \in Phases : phase' = [phase EXCEPT ![s] = p]
        BY <1>1, <2>3, <3>2 DEF Busy
      <3>3. CASE Return(s, "failed") \/ Return(s, "acked")
        BY <1>1, <2>3, <3>3 DEF Busy, Return
      <3>4. QED
        BY <3>1, <3>2, <3>3
    <2>5. QED
      BY <2>1, <2>2, <2>4, Stamps, QuietStep
  <1>13. QED
    BY <1>2, <1>3, <1>4, <1>5, <1>6, <1>7, <1>8, <1>9, <1>10, <1>11, <1>12
    DEF Next, ReportLoop, Shutdown, Worker

\* With one worker, and a network that drops what the client abandons, the
\* gauges at the server never go back to an older reading, whatever is retried,
\* dropped or given up (GaugesNeverRegress).
THEOREM GaugesNeverRegressHolds ==
    ASSUME RateLimit = 1, LateSlots = {}
    PROVE  Spec => GaugesNeverRegress
  <1>1. Init => OrderInv
    BY AgentAssumption
    DEF Init, OrderInv, NothingNewer, ShownIsOldest, JobsInOrder, Older, BuiltJob, Busy,
        Senders
  <1>2. TypeOK /\ TypeOK' /\ ShutdownInv /\ ClosedInv /\ OrderInv /\ [Next]_vars => OrderInv'
    BY OrderStep
  <1>3. TypeOK /\ ShutdownInv /\ ClosedInv /\ OrderInv /\ [Next]_vars
            => [shown'.run >= shown.run /\ shown'.sys >= shown.sys]_vars
    <2> SUFFICES ASSUME TypeOK, ShutdownInv, ClosedInv, OrderInv, Next
                 PROVE  shown'.run >= shown.run /\ shown'.sys >= shown.sys
      OBVIOUS
    <2>1. CASE shown' = shown
      BY <2>1, Stamps
    <2>2. ASSUME NEW s \in Senders, Apply(s)
          PROVE  shown'.run >= shown.run /\ shown'.sys >= shown.sys
      <3>1. phase[s] = "sent"
        BY <2>2 DEF Apply
      <3>2. Older(shown, job[s])
        BY <3>1, OneWorker DEF OrderInv, ShownIsOldest, NothingNewer, Busy
      <3>3. QED
        BY <2>2, <3>2, Stamps DEF Apply, Store, Older
    <2>3. shown' = shown \/ \E s \in Senders : Apply(s)
      BY DEF Next, Returned, vars, RefreshMetrics, RefreshSystemMetrics, Cancel,
             StopCollector, ReportLoop, BuildReport, EnqueueJob, DropJob,
             EnqueueCancelled, LeaveLoop, Shutdown, CloseJobs, StartFinalReport,
             DeliveryTimeout, Worker, ReceiveJob, ExitWorker, Client, Send, StopSending,
             RequestTimeout, ErrorStatus, TransportError, WakeUp, ReplyOK, AckCounters,
             serverVars
    <2>4. QED
      BY <2>1, <2>2, <2>3
  <1>4. QED
    BY <1>1, <1>2, <1>3, TypeInvariant, ShutdownInvariant, ClosedInvariant, PTL
    DEF Spec, GaugesNeverRegress

============================================================================
