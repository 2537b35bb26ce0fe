--------------------------- MODULE AuditPublisher ---------------------------
(***************************************************************************)
(* The audit publisher of the metrics server (internal/audit/audit.go):    *)
(* handlers publish events to one bounded queue per observer, a worker per *)
(* observer notifies it, and Close drains the queues.  An observer writes  *)
(* to a file that main closes after the publisher, or posts to a URL with  *)
(* retries.                                                                *)
(*                                                                         *)
(* Data abstraction.  An event is its identity: one call of Publish by one *)
(* handler goroutine.  sync.RWMutex is the set of its readers and main's   *)
(* place in Close: a writer that waits keeps new readers out.              *)
(***************************************************************************)
EXTENDS Naturals, Sequences

CONSTANTS
    Events,         \* calls of Publish
    NumObservers,   \* len(Publisher.workers)
    FileObservers,  \* the observers that are a FileObserver; the rest are HTTPObservers
    QueueSize,      \* observerQueueSize: 64
    MaxAttempts     \* 1 + len(retryClient.delays): 4

Observers == 1..NumObservers

ASSUME AuditAssumption ==
    /\ NumObservers \in Nat
    /\ FileObservers \subseteq Observers
    /\ QueueSize \in Nat \ {0}
    /\ MaxAttempts \in Nat \ {0}

VARIABLES
    pub,       \* per event: where Publish is
    pos,       \* per event: the observer whose turn it is in Publish
    queue,     \* per observer: the channel
    closed,    \* Publisher.closed; the channels are closed with it
    panicked,  \* a send on a closed channel
    worker,    \* per observer: where run is
    current,   \* per observer: the event that run has taken, if any
    attempt,   \* per observer: requests of the current Notify
    main,      \* where main is in its deferred calls
    file,      \* the audit file is open
    accepted,  \* history, per observer: the events put into its queue
    notified,  \* history, per observer: the events whose Notify has returned
    handed,    \* history, per observer: the events whose Notify has begun, so that
               \* the file or the receiver may have them, whatever Notify returns
    refused    \* history: events a FileObserver refused because it was closed

publishVars == <<pub, pos>>
workerVars  == <<worker, current, attempt, notified, handed, refused>>
vars == <<publishVars, queue, closed, panicked, workerVars, main, file, accepted>>

TypeOK ==
    /\ pub \in [Events -> {"new", "asking", "check", "send", "done"}]
    /\ pos \in [Events -> 1..(NumObservers + 1)]
    /\ queue \in [Observers -> Seq(Events)]
    /\ \A o \in Observers : Len(queue[o]) <= QueueSize
    /\ closed \in BOOLEAN /\ panicked \in BOOLEAN /\ file \in BOOLEAN
    /\ worker \in [Observers -> {"idle", "notify", "exited"}]
    /\ current \in [Observers -> Seq(Events)]
    /\ attempt \in [Observers -> 0..MaxAttempts]
    /\ main \in {"serving", "locking", "waiting", "closed", "returned"}
    /\ accepted \in [Observers -> Seq(Events)]
    /\ notified \in [Observers -> Seq(Events)]
    /\ handed \in [Observers -> SUBSET Events]
    /\ refused \subseteq Events

Init ==
    /\ pub = [e \in Events |-> "new"]
    /\ pos = [e \in Events |-> 1]
    /\ queue = [o \in Observers |-> <<>>]
    /\ closed = FALSE /\ panicked = FALSE /\ file = TRUE
    /\ worker = [o \in Observers |-> "idle"]
    /\ current = [o \in Observers |-> <<>>]
    /\ attempt = [o \in Observers |-> 0]
    /\ main = "serving"
    /\ accepted = [o \in Observers |-> <<>>]
    /\ notified = [o \in Observers |-> <<>>]
    /\ handed = [o \in Observers |-> {}]
    /\ refused = {}

----------------------------------------------------------------------------
(* Publish.                                                                *)

\* Faulty variants of the definitions below end in _...: each is a slip the
\* properties must detect.  Here: the lock is given back after the test of closed.
Readers_TestOnly == {e \in Events : pub[e] = "check"}

Readers == {e \in Events : pub[e] \in {"check", "send"}}

\* Faulty: Close gives the lock back when the workers have ended.
LockFree_OverWait == main \notin {"locking", "waiting"}

\* Close asks for the lock or has it, both of which keep new readers out; it
\* gives the lock back before it waits for the workers.
LockFree == main # "locking"

\* A handler calls Publish and asks for the lock.
CallPublish(e) ==
    /\ pub[e] = "new"
    /\ pub' = [pub EXCEPT ![e] = "asking"]
    /\ UNCHANGED <<pos, queue, closed, panicked, workerVars, main, file, accepted>>

\* p.mu.RLock() returns.
RLock(e) ==
    /\ pub[e] = "asking"
    /\ LockFree
    /\ pub' = [pub EXCEPT ![e] = "check"]
    /\ UNCHANGED <<pos, queue, closed, panicked, workerVars, main, file, accepted>>

CheckClosed(e) ==
    /\ pub[e] = "check"
    /\ pub' = [pub EXCEPT ![e] = IF closed THEN "done" ELSE "send"]
    /\ UNCHANGED <<pos, queue, closed, panicked, workerVars, main, file, accepted>>

\* Faulty: the queue takes one event more than it has room for.
Offer_NoBound(e) ==
    /\ pub[e] = "send"
    /\ pos[e] \in Observers
    /\ ~closed
    /\ queue' = [queue EXCEPT ![pos[e]] = Append(@, e)]
    /\ accepted' = [accepted EXCEPT ![pos[e]] = Append(@, e)]
    /\ pos' = [pos EXCEPT ![e] = @ + 1]
    /\ UNCHANGED <<pub, closed, panicked, workerVars, main, file>>

\* One turn of the loop: a send that does not wait, an event too many is dropped.
\* A send on a closed channel panics.
Offer(e) ==
    /\ pub[e] = "send"
    /\ pos[e] \in Observers
    /\ panicked' = (panicked \/ closed)
    /\ LET o == pos[e] IN
       IF ~closed /\ Len(queue[o]) < QueueSize
       THEN /\ queue' = [queue EXCEPT ![o] = Append(@, e)]
            /\ accepted' = [accepted EXCEPT ![o] = Append(@, e)]
       ELSE UNCHANGED <<queue, accepted>>
    /\ pos' = [pos EXCEPT ![e] = @ + 1]
    /\ UNCHANGED <<pub, closed, workerVars, main, file>>

\* p.mu.RUnlock()
RUnlock(e) ==
    /\ pub[e] = "send"
    /\ pos[e] \notin Observers
    /\ pub' = [pub EXCEPT ![e] = "done"]
    /\ UNCHANGED <<pos, queue, closed, panicked, workerVars, main, file, accepted>>

PublishGoesOn(e) == RLock(e) \/ CheckClosed(e) \/ Offer(e) \/ RUnlock(e)

Publish(e) == CallPublish(e) \/ PublishGoesOn(e)

----------------------------------------------------------------------------
(* run, Notify and retryClient.Do.                                         *)

TakeEvent(o) ==
    /\ worker[o] = "idle"
    /\ queue[o] # <<>>
    /\ current' = [current EXCEPT ![o] = <<Head(queue[o])>>]
    /\ queue' = [queue EXCEPT ![o] = Tail(@)]
    /\ worker' = [worker EXCEPT ![o] = "notify"]
    /\ attempt' = [attempt EXCEPT ![o] = 1]
    /\ handed' = [handed EXCEPT ![o] = @ \cup {Head(queue[o])}]
    /\ UNCHANGED <<publishVars, closed, panicked, notified, refused, main, file,
                   accepted>>

\* Faulty: the channel is never closed, the worker waits for ever.
ExitWorker_Never(o) == FALSE /\ UNCHANGED vars

\* range worker.events ends: the channel is closed and drained.
ExitWorker(o) ==
    /\ worker[o] = "idle"
    /\ closed
    /\ queue[o] = <<>>
    /\ worker' = [worker EXCEPT ![o] = "exited"]
    /\ UNCHANGED <<publishVars, queue, closed, panicked, current, attempt,
                   notified, handed, refused, main, file, accepted>>

\* Notify returns, with or without an error: run goes on with the next event.
ReturnNotify(o) ==
    /\ worker' = [worker EXCEPT ![o] = "idle"]
    /\ notified' = [notified EXCEPT ![o] = @ \o current[o]]
    /\ current' = [current EXCEPT ![o] = <<>>]
    /\ attempt' = [attempt EXCEPT ![o] = 0]

\* FileObserver.Notify: a line is written, or the write fails, or the file is
\* closed already.
NotifyFile(o) ==
    /\ o \in FileObservers
    /\ worker[o] = "notify"
    /\ refused' = IF file THEN refused ELSE refused \cup {current[o][1]}
    /\ ReturnNotify(o)
    /\ UNCHANGED <<publishVars, queue, closed, panicked, handed, main, file, accepted>>

\* Faulty: an event that could not be delivered goes back to the end of the queue.
NotifyHTTP_Requeues(o) ==
    /\ o \notin FileObservers
    /\ worker[o] = "notify"
    /\ \/ ReturnNotify(o) /\ UNCHANGED queue
       \/ /\ Len(queue[o]) < QueueSize
          /\ queue' = [queue EXCEPT ![o] = @ \o current[o]]
          /\ worker' = [worker EXCEPT ![o] = "idle"]
          /\ current' = [current EXCEPT ![o] = <<>>]
          /\ attempt' = [attempt EXCEPT ![o] = 0]
          /\ UNCHANGED notified
    /\ UNCHANGED <<publishVars, closed, panicked, handed, refused, main, file, accepted>>

\* HTTPObserver.Notify: a request that ends it, successful or not.
NotifyHTTP(o) ==
    /\ o \notin FileObservers
    /\ worker[o] = "notify"
    /\ ReturnNotify(o)
    /\ UNCHANGED <<publishVars, queue, closed, panicked, handed, refused, main, file,
                   accepted>>

\* A transport error, 429 or a status >= 500: the request is sent again, also to
\* a receiver that has taken it.
RetryHTTP(o) ==
    /\ o \notin FileObservers
    /\ worker[o] = "notify"
    /\ attempt[o] < MaxAttempts
    /\ attempt' = [attempt EXCEPT ![o] = @ + 1]
    /\ UNCHANGED <<publishVars, queue, closed, panicked, worker, current, notified,
                   handed, refused, main, file, accepted>>

Run(o) ==
    TakeEvent(o) \/ ExitWorker(o) \/ NotifyFile(o) \/ NotifyHTTP(o) \/ RetryHTTP(o)

----------------------------------------------------------------------------
(* The deferred calls of main: auditor.Close(), then fileObserver.Close(). *)

\* auditor.Close() asks for the lock.
BeginClose ==
    /\ main = "serving"
    /\ main' = "locking"
    /\ UNCHANGED <<publishVars, queue, closed, panicked, workerVars, file, accepted>>

\* With the lock: closed is set and the channels are closed.
CloseQueues ==
    /\ main = "locking"
    /\ Readers = {}
    /\ closed' = TRUE
    /\ main' = "waiting"
    /\ UNCHANGED <<publishVars, queue, panicked, workerVars, file, accepted>>

\* Faulty: no p.wg.Wait().
WorkersDone_NoWait == TRUE

\* p.wg.Wait() returns.
WorkersDone == \A o \in Observers : worker[o] = "exited"

\* Faulty: the file is closed before the publisher.
EndClose_FileFirst ==
    /\ main = "waiting"
    /\ file' = FALSE
    /\ IF WorkersDone THEN main' = "closed" ELSE UNCHANGED main
    /\ UNCHANGED <<publishVars, queue, closed, panicked, workerVars, accepted>>

EndClose ==
    /\ main = "waiting"
    /\ WorkersDone
    /\ main' = "closed"
    /\ UNCHANGED <<publishVars, queue, closed, panicked, workerVars, file, accepted>>

CloseFile ==
    /\ main = "closed"
    /\ file' = FALSE
    /\ main' = "returned"
    /\ UNCHANGED <<publishVars, queue, closed, panicked, workerVars, accepted>>

Close == CloseQueues \/ EndClose \/ CloseFile

Returned == main = "returned" /\ UNCHANGED vars

Next ==
    \/ \E e \in Events : Publish(e)
    \/ \E o \in Observers : Run(o)
    \/ BeginClose \/ Close
    \/ Returned

Spec == Init /\ [][Next]_vars

\* A handler that has called Publish goes on, and so does main once it closes; the
\* lock is given to a reader that waits for it as soon as no writer does.
\* Nothing is assumed of the observers here.
Fairness ==
    /\ \A e \in Events : WF_vars(PublishGoesOn(e))
    /\ WF_vars(Close)

\* The workers run and every Notify returns: file writes do, and requests have
\* a timeout and a bounded number of attempts.
ObserverFairness == \A o \in Observers : WF_vars(Run(o))

FairSpec == Spec /\ Fairness

----------------------------------------------------------------------------
(* Properties.                                                             *)

\* No handler ever sends on a closed channel, which would panic: the lock is
\* held from the test of closed to the last send (audit.go:73-85), and Close
\* closes the channels under the write lock.
NoSendOnClosed == ~panicked

\* Once accepted into an observer's queue an event is neither lost, nor handed
\* over twice, nor overtaken by a later one, whatever is dropped around it.
AcceptedInOrder ==
    \A o \in Observers : accepted[o] = notified[o] \o current[o] \o queue[o]

\* When Close has returned, every accepted event has been handed to its
\* observer, and none is accepted after that (audit.go:88).
CloseDrains ==
    main \in {"closed", "returned"} =>
        \A o \in Observers : notified[o] = accepted[o]

\* The audit file is closed only after the last event has been written: the
\* deferred calls of main run in that order (cmd/server/main.go:66-77).
NothingRefused == refused = {}

\* A handler is never held up by an observer: from the moment it asks for the lock
\* (audit.go:73) a call of Publish ends, also when no observer ever takes an event
\* or returns.  Full queues do not hold it up, nor does Close, which a handler may
\* have to let pass but which waits for the workers without the lock.
PublishNeverBlocks == \A e \in Events : pub[e] = "asking" ~> pub[e] = "done"

\* Close returns when the observers do: it does not wait for a handler that
\* waits for it, and full queues drain.
CloseReturns == ObserverFairness => (main = "locking" ~> main = "returned")

============================================================================
