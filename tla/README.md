# Verification of the metrics agent and server

The repository holds two programs. The *agent* (`cmd/agent`, `internal/agent`) samples
runtime and system metrics and posts them to the *server* (`cmd/server` and the rest of
`internal`), which stores them in memory, in memory with a file, or in Postgres, answers
queries and writes an audit log of updates. This directory models them in TLA+, checks
the models with TLC on small instances, and proves the central properties with TLAPS for
every value of the constants.

## The system

| part | state | operations | talks to |
|---|---|---|---|
| agent report pipeline (`internal/agent/agent.go`, `internal/retry`) | gauges, counters, the jobs channel, one request per sender | refresh of both collectors, build and enqueue a job, send with retries, acknowledge, wind down, last report | the batch handler by HTTP |
| metrics handlers (`internal/handler/metrics.go`) | none of their own | update by path, by JSON, by batch; value as text or JSON; list | a repository, the audit publisher |
| memory storage (`memstorage.go`) | two maps under one lock | update, add, batch, get, list, snapshot, restore | - |
| file storage (`persistent.go`) | memory storage, the file, the store interval | the updates with or without a save, Save, restore, periodic save | memory storage, the file system |
| Postgres storage (`postgres.go`) | a table | the updates in transactions, reads, migration, ping | Postgres, with retries |
| audit (`internal/audit/audit.go`) | one bounded queue and worker per observer, `closed`, the file | Publish, Close, Notify of the file and the HTTP observer | handlers, main, a file, a URL |
| server life cycle (`cmd/server/main.go`, `internal/server`) | the context of the signals, the goroutine of the ticker | serve, Shutdown with a timeout, wait for the ticker, last save, deferred closes, `log.Fatal` | all of the above |
| middleware (`internal/middleware`, `cryptoutil`, `signature`) | one request | decrypt, verify, decompress; compress and sign the answer; log | the agent's `sendMetrics`, the handlers |
| configuration (`internal/config`) | the configuration so far | defaults, file, flags, environment, refusals | both mains |
| object pool, reset and lint tools, build information, logger | - | - | - |

### What is hard here

* **Agent.** Jobs copy the counters without taking them out, so the same polls can be in
  several jobs; acknowledgements subtract later. Answers are lost, requests time out and
  may still be served, queues fill up, the context ends at any point and the last report
  must come after all workers.
* **File storage.** `Save` has no lock between snapshot and rename; handlers, the ticker
  and main all call it. The process may die between any two steps.
* **Life cycle.** A handler writes its answer and publishes its audit event before it returns, while
  the layers around it may still hold the answer; main ends by Shutdown, a wait for the ticker, a last
  save and two deferred closes, or by `log.Fatal`, which skips the latter. Goroutines end with the process
  only: whatever main does not wait for goes on during the deferred calls.
* **Postgres.** A commit whose answer is lost is repeated; batches lock rows in the order
  of the request; sessions outlive their connection; clients leave in the middle.
* **Audit.** Publishers and Close meet at one RWMutex; queues fill while observers hang;
  the audit file may be closed only after the last event.
* **Handlers.** A counter is added to and read back in two steps, batches are validated
  before they are stored, a save may fail after memory has taken the update, a failed read
  of Postgres looks like a missing metric.
* **Middleware.** Three transformations must be undone in the opposite order although they are
  put together in two files; the body is cut into blocks; the connection may break at any
  byte; the status of an answer is held back until its encoding and signature are known.
* **Configuration.** Four sources with rules of their own override each other per field.

`PROJECT.json` lists each hazard at its line with the properties that watch it.

## The modules

| module | models | form |
|---|---|---|
| `AgentReport` | `Agent.Run` and its goroutines, the batch handler as far as the agent sees it | state machine |
| `DurableLog` | what a storage file promises | abstract specification |
| `PersistentStorage` | file storage, ticker, main's shutdown, crashes and restarts | state machine, implements `DurableLog` |
| `AuditPublisher` | `Publish`, `Close`, the workers, both observers, main's deferred closes | state machine |
| `MetricsServer` | `PersistentStorage` and `AuditPublisher` coupled by the handlers and main | composition, implements `DurableLog` |
| `MetricsRepository` | what an update of a repository promises | abstract specification |
| `PostgresStore` | updates in Postgres: transactions, locks, retries, cancelled contexts | state machine, implements `MetricsRepository` |
| `MetricsHandler` | every handler of `metrics.go` over memory, memory with a file, and Postgres | state machine |
| `RequestPipeline` | one request from the client through the middleware to a handler and back | state machine |
| `Configuration` | `parseServerConfig`, `parseAgentConfig` and the loading of their file | state machine |
| `PrefixSums` | the sum of the first values of a function | pure, used by `AgentReport` and `MetricsHandler` |
| `...Proofs` | | theorems about the module of that name; those about `PersistentStorage` are in `MetricsServerProofs`, which continues them |
| `RecursionLemmas` | recursive functions, `SumUpTo` and `FlattenSeq` | lemmas for three of these |
| `MC...` | constants and symmetry for TLC | |

### How state and actions correspond to the code

**AgentReport.** Each goroutine has a place of its own: `main` for `Run`, `collectors` for the
collectors still running, `pending` for the job `reportLoop` holds, `phase[s]` for the
request of sender `s`. `1..RateLimit` are the workers, `RateLimit + 1` is `Run` when it
sends the last report. A refresh under `a.mu` is one step, so is `buildReportJob`, so is
`ackCounters`; the channel is a sequence of at most `RateLimit * 2` jobs. `select` in
`enqueueReportJob` is three actions: `EnqueueJob`, `DropJob` (queue full), `EnqueueCancelled`.
`sendMetrics` and `doWithRetry` are `Send`, the answers `ReplyOK`, `ErrorStatus`,
`TransportError`, `RequestTimeout`, `StopSending`, and `WakeUp` after a pause; a timeout is
not retried (`isRetriableAgentError`), a transport error is. The server side is `Apply`, in
one step because `MemStorage.UpdateMetrics` is one critical section. Data: the one counter
is a number; all runtime gauges of a refresh carry the number of its poll and all system
gauges the number of their sample.

**PersistentStorage.** Memory is a function of the sequence of updates applied, because every
update is one critical section; memory, a snapshot and the file are therefore such
sequences. `Save` is three places: `begin` (before the snapshot), `rename` (holding it), done. A
write that fails at any point is `SaveFails`; it leaves the file as it was because the write
goes to a temporary file. `main` walks through serving, draining (`Shutdown`), persist (wait for
the ticker), flush (last save), leaving (`log.Fatal` or the deferred calls), exited. The other goroutines run
until `Exit`, handlers on connections that `Shutdown` did not close included; a new connection may bring a
request during `Shutdown`, and `Serve` may fail at the same time (`graceful`). `Crash` may come at any time,
`Start` restores the file.

**AuditPublisher.** `pub[e]` is the place of a call of `Publish`: not called yet, asking for the read lock,
before the test of `closed`, in the loop, done. A writer
that waits for the RWMutex keeps new readers out, as in Go (`LockFree`). `Offer` is one turn of the loop
with its non-blocking send. A worker takes an event, notifies its observer (which for HTTP
retries) and goes on; `Close` sets `closed` and closes the channels under the write lock and
waits for the workers; main then closes the file. `accepted`, `notified` and `handed` (events whose `Notify`
has begun) are history.

**MetricsServer** extends the first and instantiates the second of these, with events named by the
request they report. Its actions join theirs where the code does. `BeginPublish` comes once the storage has
returned nil. `AnswerLeaves` comes at any time after that: `signedResponseWriter` and gzip hold the answer until the
handler has returned, but without them a large body may fill the buffer of `net/http` earlier. A handler is
`Busy` until both have happened, and `ServerDrained` is only when none is. `BeginClose` comes only when main is past its
last save without an error, and the process ends by `ServerExit` (after the deferred calls, or by `log.Fatal`) or by
`ServerCrash`; `Abort` is what both of the latter do to the audit. `NewPublisher` is what a new
process finds; the file and the audit's history survive. `missed`, `answered` and `doomed` are history: events a
full queue turned away, requests whose answer has left, and requests acknowledged by a process that ended in `Abort`.

**PostgresStore.** A session is one attempt of one request. A statement locks its row until the
session ends; `DeadlockVictim` is the database's detector; a connection that breaks leaves the
session "cut" or, during the commit, "unknown", and the server later aborts it (`Abandon`) or
carries the commit out (`Commit`). `retryPostgresConnection` is `ConnectionError`, `WakeUp` and the
guard on `attempt`; a client that leaves ends the call in a statement, a commit or a pause.
A row is the sequence of the updates in it, so a counter is its sum and a
gauge its last element. `UpdateGauge` and `AddCounter` are batches of one.

**MetricsHandler.** `pc[r]` is the place of the handler of request `r`: before, at the storage, in the
synchronous save, before reading the counter back, before the audit event, done. `Refusal`
and `Normal` are the decoding and validation. The empty name `NoName` is refused in JSON, with 404 or 400, but not in
a path: `UpdateMetric` and `GetMetricValue` do not check it, and the router is taken to match `/update/gauge//1`. A counter wraps around after `MaxCounter`, the greatest `int64`,
except in Postgres, whose `BIGINT` reports an error and keeps its value (`Overflows`). `NaN` stands for the values `ParseFloat` accepts and JSON cannot encode. `storage` is chosen once: over a
file every update is followed by `Save`, over Postgres an update may fail whole (`UpdateFails`) and a
read may fail (`ReadFails`), which the handlers take for a metric that is not there. `log`, `began` and
`failed` are history: the order in which the storage took the updates, how many there were when a
request began, and the requests with a failed read.

**RequestPipeline.** `stage` is the layer that handles the request next. `Send` is `sendMetrics`: gzip, then
HMAC over the compressed body, then RSA blocks, cut off anywhere by the network. `DecryptRequest`,
`VerifyRequest` and `DecompressRequest` are the parts of the three middlewares before `next.ServeHTTP`, in
the order of `main.go` and `server.go`; `WriteOutput`, `CloseGzip` and `SignResponse` are the writers on
the way back. `Encrypt` and `Decrypt` have the block arithmetic of `cryptoutil` with `KeySize` and
`Overhead` as constants. RSA-OAEP, HMAC and gzip are ideal: a block opens with its own key only, a
signature fits one text and one key, and a stream without its trailer is read up to where it ends.

**Configuration.** `LoadFile`, `ParseFlags` and `ApplyEnv` are the three sections of `parseServerConfig` and
`parseAgentConfig`, each with its refusals; `Inputs` are the combinations of what the sources give, any file names,
numbers and texts among them. A duration wraps around after `MaxDuration`, the greatest `int64`. The reference the
result is compared with names only the order of the sources, not the code.

## What TLC checks

| run | question | result |
|---|---|---|
| `agent_faults` | two workers, all faults, an abandoned request served late: no poll is lost (`NoPollLost`), what is subtracted was applied (`CreditedLedger`), at most `RateLimit` requests outstanding, an acknowledged last report leaves nothing | holds, 907,874 states |
| `agent_order` | one worker, all faults: gauges at the server never go back and end at the newest reading; a cancelled agent terminates | holds, 333,084 states |
| `agent_exact` | the server never counts more polls than there were (`metrics.go:9`) | **violated**, without any fault |
| `store_interval` | store interval: `DurableLog` with a file that never goes back; a clean exit is complete; shutdown terminates | holds, 35,414 states |
| `store_durable` | an acknowledged update is in the file (`persistent.go:30`) | **violated** by two handlers |
| `audit` | no send on a closed channel; accepted events once and in order; Close drains and returns; the file closes last; Publish never waits for an observer, not behind Close either | holds, 159,644 states |
| `server` | the whole life cycle with a save on every update: `DurableLog`; what is acknowledged is in the file while saves do not overlap; a clean end has answered and audited every acknowledged update; the deferred calls come after handlers, ticker and saves; no audited update is missing from the file while saves do not overlap; a stopped server ends | holds, 349,300 states |
| `postgres` | batches all or nothing, exact answers unless a connection broke during a commit, every call returns | holds, 113,800 states |
| `handlers` | over each storage: it holds the sum of the updates, answers and lists are states it went through, the status of an update tells whether the storage took it, one audit event per answered update | holds, 704,026 states |
| `pipeline` | all keys, compression and broken bodies: exact or refused, compatible sides are served, the answer is intact | holds, 33,178 states |
| `config` | all sources of both programs: the strongest one wins, invalid values are refused | holds, 1,025,192 states |
| `handlers_encodable` | a snapshot can be encoded (`memstorage.go:140`) | **violated** by a gauge of NaN |

Every property of a passing run is also run against a faulty variant of one definition (the
definitions whose names end in `_...`: a dropped guard, a missing wait, a swapped order), which
TLC must find violated.

### Bounds, and why they are enough

* *Agent*: 2 polls, 3 or 4 reports, 1 or 2 workers, 2 attempts. Two polls tell apart a job
  that is behind from one that is not; three reports with two workers are two jobs in flight and
  one queued, and with one worker four reports overflow a queue of two. `MaxAttempts = 2`
  has one retry and one exhausted attempt. `LateSlots = {l1}` keeps one abandoned request. System samples,
  which differ from polls only in who takes them, are in `agent_order`.
* *File*: 3 requests and two restarts; three updates let an old snapshot be renamed over
  a newer one and a third update follow, two restarts let an update survive and be extended.
* *Audit*: 3 events, 2 observers (one of each kind), queues of two, so that one event can overtake another and
  a third finds them full, 2 attempts.
* *Server*: 2 requests that save at the same time, one observer with a queue of one, so that it can be
  full, one attempt, one restart. What more observers and attempts add is the subject of `audit`, and the
  theorems are for any number.
* *Postgres*: 2 requests that lock `a, b` and `b, a, b`, 2 attempts each: a deadlock, a row twice in
  a batch, a request blocked by its own lost session.
* *Handlers*: 3 requests, one input per case the handlers tell apart, counters of 2 bits, so that
  additions wrap.
* *Pipeline*: two keys of each kind and none, so that sides fit, differ or lack one; blocks of 3 cells with
  2 of data, texts of 0 to 3 cells, plain and with the two cells of gzip: empty, exact multiples and short
  last blocks; a break after every cell.
* *Configuration*: for each option every source absent, valid and invalid; an empty text where the code treats
  it differently; up to three `-c` flags, a file that cannot be read; durations of 6 bits, so that an interval given in
  seconds wraps around.

### Fairness

Only what the runtime gives: a goroutine that can go on does, a `select` with several ready cases
does not pass over one for ever (strong fairness of `LeaveLoop` and `StopTicker`, whose case competes
with a ticker), timers and timeouts fire, file operations return. Nothing is assumed of clients,
signals, tickers or, in `PublishNeverBlocks`, of observers. In `AuditPublisher` a
handler that has asked for the read lock gets it once no writer holds or wants it. `CloseReturns` and `ServerStops` have the condition
that Notify returns (`ObserverFairness`, the last conjunct of `ServerFairness`), which holds because the HTTP
client has a timeout and a bounded number of attempts. In `MetricsServer` nothing is assumed of the handlers
either: the shutdown timeout ends the wait for one that hangs. In `PostgresStore` the database finishes a commit
or notices a broken connection.

## What is proved

The proofs depend only on the `ASSUME` of each module: sizes are natural numbers (positive where the
code uses at least one), roles are distinct. A theorem that needs more names it in its `ASSUME`.

**AgentReport** (`AgentReportProofs`), for every number of workers, attempts and abandoned requests:
`TypeInvariant`, `CreditedLedgerHolds`, `NoPollLostHolds`, `OutgoingWithinLimitHolds`, `FinalReportClearsHolds`,
`FinalReportShownHolds`. `NoPollLost` is not inductive: an acknowledgement subtracts what was applied earlier, and
several may be under way. `CreditedLedger` is: it adds the credits of all senders, polls + sum of the credits <=
served + counter, and gives `NoPollLost` because no credit is negative. A step moves one credit and `served` or
`counter` by the same amount; what that does to the sum is `SumShift` (`RecursionLemmas`). The other theorems rest on
`ShutdownInvariant`: which goroutines are gone at which place of `Run`. `GaugesNeverRegressHolds` is for one worker
and a network that keeps no abandoned request, which is when the code can promise it. Its invariant
`OrderInv` is a chain: what the server shows is not newer than the request in flight, that not newer than the first
job of the queue, each job not newer than the next (`JobsInOrder`), the last not newer than the pending job, and
that not newer than the agent's own gauges (`NothingNewer`); `ClosedInv` says that a worker exits only from a closed and empty queue.

**PersistentStorage** (first part of `MetricsServerProofs`), for any requests and restarts: `TypeInvariant`,
`DurableLogImplemented` (with `Restore`, in both modes), `CleanExitIsCompleteHolds` and
`SerialSavesAreDurableHolds`. `SaverInv` says who
can be in `Save` at which place of main and the ticker, and that the ticker is done once main is past its wait; `SnapshotInv` that file and snapshots are prefixes of
memory and, with an interval, no snapshot is older than the file; `DrainInv` that nothing changes memory
after the handlers have ended; `SerialInv` that without
overlaps there is one saver at a time, whose snapshot extends the file and has the update it is about to acknowledge.

**AuditPublisher** (`AuditPublisherProofs`), for any number of events, observers and any queue size:
`TypeInvariant`, `NoSendOnClosedHolds`, `AcceptedInOrderHolds`, `CloseDrainsHolds`, `NothingRefusedHolds`. `LockInv` says
that a handler that may send has kept Close from closing, `RunInv` what a worker has in hand at each place,
`CloseInv` that the file outlives the workers.

**MetricsServer** (second part of `MetricsServerProofs`): `ServerTypeInvariant`, `ServerImplementsDurableLog`, `ServerSerialSaves`,
`CloseComesLastHolds`, `AuditedIsDurableHolds` (with `Restore`), `CleanExitAuditsHolds`. Every step of the composition is a step of the storage, of
the publisher, of both, or the end of a process (`StorageMoves`, `PublisherMoves`), so that the invariants of the
components carry over by their step lemmas; new are `PublishInv` (a call of Publish belongs to a request the storage has acknowledged, and
so does every event in a queue, in hand or handed over), `EndInv` (what has ended when main is in its deferred calls) and `ReachedInv` (an event whose call has
passed an observer was accepted or missed by it).

**PostgresStore** (`PostgresStoreProofs`), for any batches, rows and number of attempts: `TypeInvariant`,
`AnswerIsExactHolds`, `RepositoryImplemented`. `SessionInv` relates the places of a call and its session, `SingleInv` says
that without a commit whose answer was lost at most one session commits, `CountInv` that the history of
applied batches counts the committed sessions. The refinement maps the effect of a session to its commit.

**MetricsHandler** (`MetricsHandlerProofs`), for any number of requests, any names, values and width of a counter, and any
inputs that `HandlerAssumption` allows (a batch of any length, one metric or none otherwise), over each of the three
storages: `HandlerTypeInvariant`, `AnswerTellsEffectHolds`, `AuditedIffAnsweredHolds`, `StoreIsSumOfUpdatesHolds`,
`AnswersAreStatesHolds`, `ListIsSnapshotHolds`.

* `AcceptedInv` says which requests are in the log at which place, `CountInv` that the events of each kind are as many
  as the requests of that kind that have got past `Publish`, `EffectInv` that no request is in the log twice and
  which ones with an answer are in it; an update under way is in the log from the step after "execute" on.
* The state of the storage is related to its reference by `UpdateMetricsAfter`: if the maps are `GaugesAfter(s)` and
  `CountersAfter(s)`, the loop of `UpdateMetrics` over a batch leaves those of `s \o batch` and returns the value of each
  metric right after it. The code wraps a counter at every addition, the reference once at the end; `WrapFacts` says
  that this is the same. `FlatStep` says that a step appends at most one batch and leaves every earlier state
  of the log as it was. So `StoreIsSumOfUpdates` is inductive together with what is known of a request
  in the log (`StoreInv`: `HandlerTypes`, `AcceptedInv`, `ServerInv`, `RouteInv`).
* The answers need what lies between the storage and the answer (`AnswerInv`): `SavedInv` says that a request in `Save`
  holds the values its own metrics had, `CountedInv` that the counter of a request about to read it back has
  been there since its update, `UpdatesInv`, `QueryInv` and `ListInv` that an answer once given stays true of a moment
  in the log. They were checked with TLC on the instance of `handlers` before they were proved.

**RequestPipeline** (`RequestPipelineProofs`), for every size of the RSA keys, every length of the payload, all
combinations of keys and every place where a body breaks off: `ExactOrRefusedHolds`, `CompatibleIsServedHolds`,
`AnswerIsIntactHolds`. The core is `DecryptInverts`: Encrypt then Decrypt is the identity for an empty text, exact
multiples and short last blocks. `FlattenSeq` is recursive, so the proof follows it by the sequence of its partial
results (`FlattenByPrefixes`, in `RecursionLemmas`). `ArrivalInv` says of each stage
whether the body is a beginning of what the client compressed or foreign blocks; `ResponseInv` how much of the answer
has been written.

**Configuration** (`ConfigurationProofs`), for any files, file names, numbers and texts: `FollowsPrecedenceHolds` and
`IntervalInRangeHolds`. `StageInv` says what the configuration is when a section begins, in terms of the sources alone
(`AfterFile`, `AfterFlags`), and that the sections before have refused nothing; `EnvGivesReference` says that what the
last section makes of it is the reference, whose `Strongest` is unfolded by `StrongestOfThree` and `StrongestOfFour`.
`StageInv` was checked with TLC on the instance of `config`. `IntervalInRange` follows: the interval in force is one the
program accepts, provided that it fits a duration.

**RecursionLemmas** has what the others need of recursion. The induction theorems of the library take an operator
as a parameter, which the provers cannot instantiate; `StepwiseCover` is an induction over a *set* of numbers, from the
well-foundedness of the natural numbers, that needs none. From it follow `RecursionExists` (a function defined step by
step exists), the equations of `SumUpTo` (`SumUnfolds`, `SumShift`, `SumExtends`) and what `FlattenSeq` returns
(`FlattenByPrefixes`, `FlattenAppend`).

Only model-checked: liveness (`ShutdownCompletes`, `ShutdownTerminates`, `PublishNeverBlocks`, `CloseReturns`,
`ServerStops`, `EveryCallReturns`), because no prover here treats fairness or `ENABLED`, and the three expected
violations, which are counterexamples. Every invariant, action property and refinement that a passing run checks is a
theorem as well.

## Findings

1. **The server may count polls twice** (`agent.go:315`, run `agent_exact`). Two reports built before the
   first is acknowledged carry the same polls. No fault is needed: a queue that waits is enough.
2. **An acknowledged update can be missing from the file** (`persistent.go:81`, run `store_durable`). Two handlers
   save at the same time and the older snapshot is renamed last. While saves do not overlap it cannot happen
   (`SerialSavesAreDurable`).
3. **A gauge of NaN stops persistence** (`handler/metrics.go:44`, run `handlers_encodable`). The path handler accepts
   it, `Save` cannot encode it and fails for everybody until the gauge changes; under a store interval of 0 every
   update answers 500 although memory has taken it, and an agent would send its batch again.

What `FollowsPrecedence` says of intervals has an edge that is not a finding of a run. The sign of the seconds is checked
before they are multiplied by `time.Second` (`config.go:103-106`, `201-211`, and in the environment), so a number of seconds
from 9,223,372,037 on wraps around, possibly to a negative duration, and is accepted. The server then saves neither on
every update (`main.go:95` asks for 0) nor periodically (`persistent.go:132`), only at its end, and the agent panics in
`time.NewTicker`. `IntervalInRange` therefore has the condition that the interval in force fits.

## Limits

* A crash is one of the process: there is no `fsync` in the code and power loss is not modelled.
* Marshalling, compression and encryption in the agent are taken to succeed; a failure there is a failed report,
  as `GiveUp` is. A failed read of the system metrics changes nothing and is a stutter.
* An empty file path turns the file storage into memory storage; only the other case is modelled. `MetricsServer`
  composes the file storage only: with memory or Postgres main has neither ticker nor last save.
* That a repeated commit applies a batch twice is in `PostgresStore`; `MetricsHandler` leaves it out.
* The audit receiver may get an event twice when it answers 500 after taking it: `RetryHTTP` is modelled and nothing
  in the code promises otherwise.
* `database/sql` repeats single statements on a stale pooled connection before anything was sent; this does not
  change what is applied and is not modelled.
* `RequestPipeline` has posts with a JSON body and gets; an update by path, a post without a body, passes the
  middleware like the empty payload.
* `findConfigPath` scans the arguments on its own and differs from the flag package where `-c` is itself the value
  of another flag or follows a positional argument; the model gives both the same list of values.
* That chi matches a path with an empty name is its doing, not this repository's; if it did not, the model would
  have two inputs too many.
* A commit that Postgres refuses with a definite error has the effect of a failed statement and is not told apart.
* Names, wording, HTML, logging, the rest of routing and headers are left out.

## Not modelled

* *Health check* (`ping.go`): one call and a status, no state.
* *Object pool* (`internal/pool`, `reset.gen.go`): one call of `sync.Pool` each; no other package uses it, so nothing
  says in which order it is called.
* *Reset generator* and *linter* (`cmd/reset`, `cmd/linter`): passes over Go syntax trees, without state of their own.
* *Build information, logger, data model*: output and plain types.

## Plan

1. `System`: an agent and a server with a file composed, to follow a poll from the collector to the file over
   restarts, and with it what of `NoPollLost` survives a crash of the server.
2. The tokens of the command line in `Configuration`, if the two readers of `-c` are ever to be compared.
3. Proofs: `System`, once it is written, from the invariants of its components.
