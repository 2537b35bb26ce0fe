---------------------------- MODULE AgentReport ----------------------------
(***************************************************************************)
(* The report pipeline of the metrics agent (internal/agent/agent.go): two *)
(* collectors refresh the metrics, reportLoop builds jobs and puts them on *)
(* a bounded channel, RateLimit workers send them with retries and         *)
(* acknowledge what the server took, and Run winds everything down and     *)
(* sends one last report when its context is cancelled.                    *)
(*                                                                         *)
(* Data abstraction.  The one counter, PollCount, is a number; all runtime *)
(* gauges of one refresh carry the number of the poll that set them and    *)
(* all system gauges the number of their sample, so a batch is the record  *)
(* [delta, run, sys].  The server is the PollCount total it stores and the *)
(* stamps of the gauges it shows; it answers as the handlers do.           *)
(***************************************************************************)
EXTENDS Integers, Sequences, FiniteSets, PrefixSums

CONSTANTS
    RateLimit,    \* Agent.rateLimit: the number of report workers
    MaxAttempts,  \* 1 + len(Agent.retryDelays); 4 in New
    Faults,       \* what the network and the server may do wrong
    LateSlots,    \* room for requests the client gave up on and the network keeps
    MaxPolls,     \* bound: runtime polls
    MaxSamples,   \* bound: system samples
    MaxReports    \* bound: report ticks

FaultKinds == {"reset", "timeout", "status"}

ASSUME AgentAssumption ==
    /\ RateLimit \in Nat \ {0}
    /\ MaxAttempts \in Nat \ {0}
    /\ Faults \subseteq FaultKinds
    /\ MaxPolls \in Nat /\ MaxSamples \in Nat /\ MaxReports \in Nat

\* The senders: the report workers and Run itself, which sends the last report.
Workers == 1..RateLimit
Final   == RateLimit + 1
Senders == 1..(RateLimit + 1)

\* The capacity of the jobs channel: rateLimit * reportQueueMultiplier.
QueueCap == RateLimit * 2

Collectors == {"runtime", "system"}

Job == [delta : Nat, run : Nat, sys : Nat]

\* No job has it: the first poll precedes every report, so run >= 1 in a job.
NoJob == [delta |-> 0, run |-> 0, sys |-> 0]

VARIABLES
    polls,      \* history: calls of refreshMetrics
    samples,    \* successful calls of refreshSystemMetrics: the system stamp
    counter,    \* Agent.counters[PollCount]
    reports,    \* report ticks so far (for the bound MaxReports)
    cancelled,  \* ctx of Run is done
    expired,    \* deliveryCtx of the last report is done
    collectors, \* collector goroutines still running
    main,       \* where Run is
    pending,    \* the job reportLoop has built and not yet enqueued
    queue,      \* the jobs channel
    closed,     \* close(jobs) was called
    phase,      \* per sender: where sendReportJob is
    job,        \* per sender: the job it sends
    attempt,    \* per sender: calls of operation in doWithRetry
    late,       \* requests abandoned by the client that may still be served
    served,     \* PollCount at the server
    shown,      \* stamps of the gauges at the server
    outcome     \* how the last report ended

agentVars  == <<polls, samples, counter, collectors>>
mainVars   == <<reports, main, pending, closed>>
ctxVars    == <<cancelled, expired>>
senderVars == <<phase, job, attempt>>
serverVars == <<late, served, shown>>
vars == <<agentVars, mainVars, ctxVars, queue, senderVars, serverVars, outcome>>

Mains  == {"loop", "enqueue", "join", "drain", "final", "done"}
Phases == {"idle", "ready", "sent", "applied", "backoff", "acking", "exited"}

TypeOK ==
    /\ polls \in Nat /\ samples \in Nat /\ counter \in Nat /\ reports \in Nat
    /\ cancelled \in BOOLEAN /\ expired \in BOOLEAN /\ closed \in BOOLEAN
    /\ collectors \subseteq Collectors
    /\ main \in Mains
    /\ pending \in Job
    /\ queue \in Seq(Job) /\ Len(queue) <= QueueCap
    /\ phase \in [Senders -> Phases]
    /\ job \in [Senders -> Job]
    /\ attempt \in [Senders -> 0..MaxAttempts]
    /\ \A s \in Senders : phase[s] = "backoff" => attempt[s] < MaxAttempts
    /\ late \in [LateSlots -> Job]
    /\ served \in Nat
    /\ shown \in [run : Nat, sys : Nat]
    /\ outcome \in {"none", "acked", "failed"}

\* Run up to the start of its goroutines: the first two refreshes are done
\* there, the second of which may fail to read the system.
Init ==
    /\ polls = 1 /\ counter = 1 /\ samples \in {0, 1} /\ reports = 0
    /\ cancelled = FALSE /\ expired = FALSE /\ closed = FALSE
    /\ collectors = Collectors
    /\ main = "loop" /\ pending = NoJob /\ queue = <<>>
    /\ phase = [s \in Senders |-> "idle"]
    /\ job = [s \in Senders |-> NoJob]
    /\ attempt = [s \in Senders |-> 0]
    /\ late = [l \in LateSlots |-> NoJob]
    /\ served = 0 /\ shown = [run |-> 0, sys |-> 0]
    /\ outcome = "none"

----------------------------------------------------------------------------
(* Collectors.  A tick may win the select against a context that is done.  *)

RefreshMetrics ==
    /\ "runtime" \in collectors
    /\ polls < MaxPolls
    /\ polls' = polls + 1
    /\ counter' = counter + 1
    /\ UNCHANGED <<samples, collectors, mainVars, ctxVars, queue, senderVars,
                   serverVars, outcome>>

\* A failed read returns early and changes nothing.
RefreshSystemMetrics ==
    /\ "system" \in collectors
    /\ samples < MaxSamples
    /\ samples' = samples + 1
    /\ UNCHANGED <<polls, counter, collectors, mainVars, ctxVars, queue,
                   senderVars, serverVars, outcome>>

StopCollector(c) ==
    /\ cancelled
    /\ c \in collectors
    /\ collectors' = collectors \ {c}
    /\ UNCHANGED <<polls, samples, counter, mainVars, ctxVars, queue,
                   senderVars, serverVars, outcome>>

\* SIGINT, SIGTERM or SIGQUIT reaches the process.
Cancel ==
    /\ ~cancelled
    /\ cancelled' = TRUE
    /\ UNCHANGED <<agentVars, mainVars, expired, queue, senderVars, serverVars,
                   outcome>>

----------------------------------------------------------------------------
(* reportLoop.                                                             *)

\* A snapshot under the lock; the counters keep what the job reports.
BuiltJob == [delta |-> counter, run |-> polls, sys |-> samples]

BuildReport ==
    /\ main = "loop"
    /\ reports < MaxReports
    /\ reports' = reports + 1
    /\ pending' = BuiltJob
    /\ main' = "enqueue"
    /\ UNCHANGED <<closed, agentVars, ctxVars, queue, senderVars, serverVars,
                   outcome>>

\* enqueueReportJob: jobs <- job is ready.
EnqueueJob ==
    /\ main = "enqueue"
    /\ Len(queue) < QueueCap
    /\ queue' = Append(queue, pending)
    /\ main' = "loop"
    /\ pending' = NoJob
    /\ UNCHANGED <<reports, closed, agentVars, ctxVars, senderVars, serverVars,
                   outcome>>

\* enqueueReportJob: the queue is full and the job is dropped.  The loop tests
\* ctx.Err() after that, and ctx may have become done in between.
DropJob ==
    /\ main = "enqueue"
    /\ Len(queue) = QueueCap
    /\ main' = IF cancelled THEN "join" ELSE "loop"
    /\ pending' = NoJob
    /\ UNCHANGED <<reports, closed, agentVars, ctxVars, queue, senderVars,
                   serverVars, outcome>>

\* enqueueReportJob: ctx is done, whether or not the queue has room.
EnqueueCancelled ==
    /\ main = "enqueue"
    /\ cancelled
    /\ main' = "join"
    /\ pending' = NoJob
    /\ UNCHANGED <<reports, closed, agentVars, ctxVars, queue, senderVars,
                   serverVars, outcome>>

LeaveLoop ==
    /\ main = "loop"
    /\ cancelled
    /\ main' = "join"
    /\ UNCHANGED <<reports, pending, closed, agentVars, ctxVars, queue,
                   senderVars, serverVars, outcome>>

----------------------------------------------------------------------------
(* The end of Run.                                                         *)

\* Faulty variants of the definitions below end in _...: each is a slip the
\* properties must detect.  Here: no collectors.Wait().
CollectorsStopped_NoWait == TRUE

\* collectors.Wait() returns.
CollectorsStopped == collectors = {}

\* Faulty: the channel is never closed.
CloseJobs_NotClosed ==
    /\ main = "join"
    /\ CollectorsStopped
    /\ main' = "drain"
    /\ UNCHANGED <<reports, pending, closed, agentVars, ctxVars, queue,
                   senderVars, serverVars, outcome>>

\* collectors.Wait(); close(jobs)
CloseJobs ==
    /\ main = "join"
    /\ CollectorsStopped
    /\ closed' = TRUE
    /\ main' = "drain"
    /\ UNCHANGED <<reports, pending, agentVars, ctxVars, queue, senderVars,
                   serverVars, outcome>>

\* Faulty: no workers.Wait().
WorkersStopped_NoWait == TRUE

\* workers.Wait() returns.
WorkersStopped == \A w \in Workers : phase[w] = "exited"

\* workers.Wait(); the last report is built and sent under deliveryCtx, which
\* does not inherit the cancellation.
StartFinalReport ==
    /\ main = "drain"
    /\ WorkersStopped
    /\ main' = "final"
    /\ job' = [job EXCEPT ![Final] = BuiltJob]
    /\ phase' = [phase EXCEPT ![Final] = "ready"]
    /\ attempt' = [attempt EXCEPT ![Final] = 1]
    /\ UNCHANGED <<reports, pending, closed, agentVars, ctxVars, queue,
                   serverVars, outcome>>

\* The delivery timeout of the last report passes.
DeliveryTimeout ==
    /\ main = "final"
    /\ ~expired
    /\ expired' = TRUE
    /\ UNCHANGED <<agentVars, mainVars, cancelled, queue, senderVars,
                   serverVars, outcome>>

----------------------------------------------------------------------------
(* reportWorker, sendReportJob, sendMetrics and doWithRetry.               *)

CtxDone(s) == IF s = Final THEN expired ELSE cancelled

\* range jobs: the next job, also after close.
ReceiveJob(w) ==
    /\ phase[w] = "idle"
    /\ queue # <<>>
    /\ job' = [job EXCEPT ![w] = Head(queue)]
    /\ queue' = Tail(queue)
    /\ phase' = [phase EXCEPT ![w] = "ready"]
    /\ attempt' = [attempt EXCEPT ![w] = 1]
    /\ UNCHANGED <<agentVars, mainVars, ctxVars, serverVars, outcome>>

\* range jobs: the channel is closed and drained.
ExitWorker(w) ==
    /\ phase[w] = "idle"
    /\ closed
    /\ queue = <<>>
    /\ phase' = [phase EXCEPT ![w] = "exited"]
    /\ UNCHANGED <<agentVars, mainVars, ctxVars, queue, job, attempt,
                   serverVars, outcome>>

\* client.Do refuses a request whose context is done before it writes anything.
Send(s) ==
    /\ phase[s] = "ready"
    /\ ~CtxDone(s)
    /\ phase' = [phase EXCEPT ![s] = "sent"]
    /\ UNCHANGED <<agentVars, mainVars, ctxVars, queue, job, attempt,
                   serverVars, outcome>>

\* sendReportJob returns; a worker goes back to its channel, Run returns.
Return(s, result) ==
    /\ phase' = [phase EXCEPT ![s] = IF s = Final THEN "exited" ELSE "idle"]
    /\ job' = [job EXCEPT ![s] = NoJob]
    /\ attempt' = [attempt EXCEPT ![s] = 0]
    /\ IF s = Final
       THEN main' = "done" /\ outcome' = result
       ELSE UNCHANGED <<main, outcome>>

\* Faulty: a failed job is acknowledged as well.
GiveUp_Acks(s) ==
    /\ Return(s, "failed")
    /\ counter' = IF counter <= job[s].delta THEN 0 ELSE counter - job[s].delta
    /\ UNCHANGED <<polls, samples, collectors>>

\* sendMetrics returns an error: the job is not acknowledged.
GiveUp(s) ==
    /\ Return(s, "failed")
    /\ UNCHANGED <<counter, polls, samples, collectors>>

\* A request the client abandons is lost, or kept by the network for later.
Abandon(s) ==
    \/ UNCHANGED late
    \/ /\ phase[s] = "sent"
       /\ \E l \in LateSlots : /\ late[l] = NoJob
                               /\ late' = [late EXCEPT ![l] = job[s]]

\* The context is done before a request, or during the pause between two.
StopSending(s) ==
    /\ phase[s] \in {"ready", "backoff"}
    /\ CtxDone(s)
    /\ GiveUp(s)
    /\ UNCHANGED <<reports, pending, closed, ctxVars, queue, serverVars>>

\* The context is done, or the client's timeout passes, while a request is in
\* flight: both are errors that isRetriableAgentError does not retry.
RequestTimeout(s) ==
    /\ phase[s] \in {"sent", "applied"}
    /\ CtxDone(s) \/ "timeout" \in Faults
    /\ Abandon(s)
    /\ GiveUp(s)
    /\ UNCHANGED <<reports, pending, closed, ctxVars, queue, served, shown>>

\* The server answers with a status >= 400, before or after it applied the
\* batch: an error that is not retried.
ErrorStatus(s) ==
    /\ phase[s] \in {"sent", "applied"}
    /\ "status" \in Faults
    /\ GiveUp(s)
    /\ UNCHANGED <<reports, pending, closed, ctxVars, queue, serverVars>>

\* Faulty: one attempt too many.
TransportError_ExtraAttempt(s) ==
    /\ phase[s] \in {"sent", "applied"}
    /\ "reset" \in Faults
    /\ Abandon(s)
    /\ IF attempt[s] <= MaxAttempts
       THEN /\ phase' = [phase EXCEPT ![s] = "backoff"]
            /\ UNCHANGED <<agentVars, main, job, attempt, outcome>>
       ELSE GiveUp(s)
    /\ UNCHANGED <<reports, pending, closed, ctxVars, queue, served, shown>>

\* Faulty: a worker puts the job back at the end of the queue instead of
\* trying again itself.
TransportError_Requeue(s) ==
    /\ phase[s] \in {"sent", "applied"}
    /\ "reset" \in Faults
    /\ Abandon(s)
    /\ GiveUp(s)
    /\ IF s # Final /\ Len(queue) < QueueCap
       THEN queue' = Append(queue, job[s])
       ELSE UNCHANGED queue
    /\ UNCHANGED <<reports, pending, closed, ctxVars, served, shown>>

\* The transport fails, before or after the server applied the batch: the
\* request is tried again after a pause, unless it was the last attempt.
TransportError(s) ==
    /\ phase[s] \in {"sent", "applied"}
    /\ "reset" \in Faults
    /\ Abandon(s)
    /\ IF attempt[s] < MaxAttempts
       THEN /\ phase' = [phase EXCEPT ![s] = "backoff"]
            /\ UNCHANGED <<agentVars, main, job, attempt, outcome>>
       ELSE GiveUp(s)
    /\ UNCHANGED <<reports, pending, closed, ctxVars, queue, served, shown>>

\* retry.Sleep returns after the delay; the context may be done as well.
WakeUp(s) ==
    /\ phase[s] = "backoff"
    /\ phase' = [phase EXCEPT ![s] = "ready"]
    /\ attempt' = [attempt EXCEPT ![s] = @ + 1]
    /\ UNCHANGED <<agentVars, mainVars, ctxVars, queue, job, serverVars, outcome>>

\* The answer's headers arrive with a status below 400.
ReplyOK(s) ==
    /\ phase[s] = "applied"
    /\ phase' = [phase EXCEPT ![s] = "acking"]
    /\ UNCHANGED <<agentVars, mainVars, ctxVars, queue, job, attempt,
                   serverVars, outcome>>

\* Faulty: an acknowledgement resets the counter.
Acked_Reset(current, sent) == 0

\* ackCounters for one counter.
Acked(current, sent) == IF current <= sent THEN 0 ELSE current - sent

AckCounters(s) ==
    /\ phase[s] = "acking"
    /\ counter' = Acked(counter, job[s].delta)
    /\ Return(s, "acked")
    /\ UNCHANGED <<polls, samples, collectors, reports, pending, closed,
                   ctxVars, queue, serverVars>>

----------------------------------------------------------------------------
(* The server, as the agent sees it: POST /updates/ adds to the counter    *)
(* and overwrites the gauges of the batch in one step.                     *)

Store(j) ==
    /\ served' = served + j.delta
    /\ shown' = [run |-> j.run, sys |-> IF j.sys = 0 THEN shown.sys ELSE j.sys]

Apply(s) ==
    /\ phase[s] = "sent"
    /\ Store(job[s])
    /\ phase' = [phase EXCEPT ![s] = "applied"]
    /\ UNCHANGED <<agentVars, mainVars, ctxVars, queue, job, attempt, late, outcome>>

ApplyLate(l) ==
    /\ late[l] # NoJob
    /\ Store(late[l])
    /\ late' = [late EXCEPT ![l] = NoJob]
    /\ UNCHANGED <<agentVars, mainVars, ctxVars, queue, senderVars, outcome>>

----------------------------------------------------------------------------

Client(s) ==
    \/ Send(s) \/ StopSending(s) \/ RequestTimeout(s) \/ ErrorStatus(s)
    \/ TransportError(s) \/ WakeUp(s) \/ ReplyOK(s) \/ AckCounters(s)

Worker(w) == ReceiveJob(w) \/ ExitWorker(w)

ReportLoop ==
    BuildReport \/ EnqueueJob \/ DropJob \/ EnqueueCancelled \/ LeaveLoop

Shutdown == CloseJobs \/ StartFinalReport \/ DeliveryTimeout

\* Run has returned and the process exits.
Returned == main = "done" /\ UNCHANGED vars

Next ==
    \/ Returned
    \/ RefreshMetrics \/ RefreshSystemMetrics \/ Cancel
    \/ \E c \in Collectors : StopCollector(c)
    \/ ReportLoop \/ Shutdown
    \/ \E w \in Workers : Worker(w)
    \/ \E s \in Senders : Client(s) \/ Apply(s)
    \/ \E l \in LateSlots : ApplyLate(l)

Spec == Init /\ [][Next]_vars

\* The Go scheduler runs every goroutine and select chooses at random among
\* the ready cases, so a ready ctx.Done() is not passed over for ever; timers
\* fire and a lost request ends in the client's timeout.  Nothing is assumed
\* of the server, of the signals or of the tickers.
Fairness ==
    /\ SF_vars(LeaveLoop)
    /\ WF_vars(EnqueueJob \/ DropJob \/ EnqueueCancelled)
    /\ WF_vars(CloseJobs) /\ WF_vars(StartFinalReport) /\ WF_vars(DeliveryTimeout)
    /\ \A c \in Collectors : WF_vars(StopCollector(c))
    /\ \A w \in Workers : WF_vars(Worker(w))
    /\ \A s \in Senders : WF_vars(Client(s))

FairSpec == Spec /\ Fairness

----------------------------------------------------------------------------
(* Properties.                                                             *)

\* No poll is lost: every call of refreshMetrics is in the server's total or
\* still in the agent's counter, whatever is dropped, retried, refused, timed
\* out or served twice (buildReportJob keeps the counters, ackCounters
\* subtracts only what a successful report carried).
NoPollLost == polls <= served + counter

\* What the server has applied of a sender's job and the agent subtracts from
\* its counter if the answer arrives.
Credit(s) == IF phase[s] \in {"applied", "acking"} THEN job[s].delta ELSE 0

\* The strengthening of NoPollLost that is inductive: also the deltas that are
\* applied and about to be acknowledged, of all senders together, are covered
\* by the server's total (ackCounters, agent.go:353-369, subtracts them later).
CreditedLedger ==
    polls + SumUpTo([s \in Senders |-> Credit(s)], Final) <= served + counter

\* The rate limit holds for the whole of Run: at most RateLimit requests are
\* outstanding, the last report included, because it waits for the workers.
OutgoingWithinLimit ==
    Cardinality({s \in Senders : phase[s] \in {"sent", "applied"}}) <= RateLimit

\* When the last report is acknowledged nothing is left unreported: no poll
\* slips in between building it and acknowledging it, and no worker's
\* acknowledgement lands after it.
FinalReportClears == main = "done" /\ outcome = "acked" => counter = 0

\* When the last report is acknowledged the server shows the newest gauges: no
\* older batch of a worker is served after it.  Holds when the network does
\* not keep abandoned requests (LateSlots = {}).
FinalReportShown ==
    main = "done" /\ outcome = "acked" =>
        shown.run = polls /\ (samples > 0 => shown.sys = samples)

\* With one worker and no abandoned request kept by the network, the gauges at
\* the server never go back to an older reading: jobs are sent in the order in
\* which they were built, the last report after all of them.
GaugesNeverRegress ==
    [][shown'.run >= shown.run /\ shown'.sys >= shown.sys]_vars

\* A cancelled agent terminates: nobody waits for a goroutine that waits for
\* him, and no retry keeps a worker from leaving.
ShutdownCompletes == cancelled ~> main = "done"

\* model.PollCountMetric "contains the number of runtime polls"
\* (internal/model/metrics.go:9): the server never counts more of them.
PollCountIsExact == served <= polls

============================================================================
