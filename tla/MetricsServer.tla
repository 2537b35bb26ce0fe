--------------------------- MODULE MetricsServer ---------------------------
(***************************************************************************)
(* The life cycle of the server (cmd/server/main.go) as one sequence over  *)
(* its file storage and its audit publisher.  A handler updates the        *)
(* storage, writes its answer and calls Publish; the answer leaves the     *)
(* process when the handler and the layers around it have returned, at the *)
(* earliest when a buffer overflows before that.  main shuts the HTTP      *)
(* server down, flushes the storage and only then, if the server ended     *)
(* without error, runs the deferred auditor.Close() and fileObserver.Close(). *)
(* After an error log.Fatal ends the process and the queues with it.       *)
(*                                                                         *)
(* An event is named by the request that it reports.  The components keep  *)
(* their actions; here are the ones that couple them.                      *)
(***************************************************************************)
EXTENDS PersistentStorage

CONSTANTS
    NumObservers, FileObservers, QueueSize, MaxAttempts   \* see AuditPublisher

ASSUME ServerAssumption ==
    /\ NumObservers \in Nat
    /\ FileObservers \subseteq 1..NumObservers
    /\ QueueSize \in Nat \ {0}
    /\ MaxAttempts \in Nat \ {0}

VARIABLES
    pub, pos, queue, closed, panicked, worker, current, attempt, accepted,
    notified, handed, refused,      \* the variables of AuditPublisher
    deferred,   \* its variable main: where main is in its deferred calls
    auditFile,  \* its variable file: the audit file is open
    missed,     \* history, per observer: events its queue had no room for
    answered,   \* history: requests whose answer has left the process
    doomed      \* history: requests acknowledged by a process that did not end cleanly

Audit == INSTANCE AuditPublisher WITH
            Events <- Requests, main <- deferred, file <- auditFile

auditVars == <<pub, pos, queue, closed, panicked, worker, current, attempt,
               accepted, notified, handed, refused, deferred, auditFile,
               missed, answered, doomed>>
serverVars == <<vars, auditVars>>

ServerTypeOK ==
    /\ TypeOK
    /\ Audit!TypeOK
    /\ missed \in [Audit!Observers -> SUBSET Requests]
    /\ answered \subseteq Requests /\ doomed \subseteq Requests
    /\ deferred # "serving" => main \in {"leaving", "exited"} /\ graceful

ServerInit ==
    /\ Init /\ Audit!Init
    /\ missed = [o \in Audit!Observers |-> {}]
    /\ answered = {} /\ doomed = {}

\* Faulty variants of the definitions below end in _...: each is a slip the
\* properties must detect.  Here: main returns also after an error.
Fatal_Returns == FALSE

\* if serveErr != nil { log.Fatal(serveErr) }
Fatal == ~graceful

\* The handler of r, or a layer around it, has not returned.
Busy(r) ==
    \/ InFlight(r)
    \/ Acked(r) /\ r \notin doomed /\ (pub[r] # "done" \/ r \notin answered)

----------------------------------------------------------------------------
(* The end of a process, and a new one.                                    *)

\* NewPublisher: empty queues, waiting workers, the file opened for appending.
\* What the process before had accepted and not handed over is gone.
NewPublisher ==
    /\ pub' = [r \in Requests |-> IF Acked(r) THEN "done" ELSE pub[r]]
    /\ queue' = [o \in Audit!Observers |-> <<>>]
    /\ current' = [o \in Audit!Observers |-> <<>>]
    /\ accepted' = notified
    /\ worker' = [o \in Audit!Observers |-> "idle"]
    /\ attempt' = [o \in Audit!Observers |-> 0]
    /\ closed' = FALSE /\ deferred' = "serving" /\ auditFile' = TRUE
    /\ UNCHANGED <<pos, panicked, notified, handed, refused, missed, answered>>

\* The process ends at once: a crash, or log.Fatal.
Abort ==
    /\ NewPublisher
    /\ doomed' = doomed \cup {r \in Requests : Acked(r)}

ServerCrash == Crash /\ Abort

\* main ends: with log.Fatal, or returning from its deferred calls.
ServerExit ==
    /\ Exit
    /\ \/ Fatal /\ Abort
       \/ ~Fatal /\ deferred = "returned" /\ UNCHANGED auditVars

ServerStart ==
    /\ Start
    /\ NewPublisher
    /\ UNCHANGED doomed

----------------------------------------------------------------------------
(* Handlers: the storage, the audit event, the answer.                     *)

HandlerStep(r) ==
    /\ Accept(r) \/ Update(r) \/ SaveStep(r)
    /\ UNCHANGED auditVars

\* Faulty: the event is published while the storage is still at work.
BeginPublish_Early(r) ==
    /\ Alive
    /\ InFlight(r) \/ Acked(r)
    /\ Audit!CallPublish(r)
    /\ UNCHANGED <<vars, missed, answered, doomed>>

\* The storage has returned nil: the handler writes its answer and publishes.
BeginPublish(r) ==
    /\ Alive
    /\ Acked(r)
    /\ Audit!CallPublish(r)
    /\ UNCHANGED <<vars, missed, answered, doomed>>

PublishStep(r) ==
    /\ Alive
    /\ \/ (Audit!RLock(r) \/ Audit!CheckClosed(r) \/ Audit!RUnlock(r)) /\ UNCHANGED missed
       \/ /\ Audit!Offer(r)
          /\ missed' = [missed EXCEPT ![pos[r]] =
                           IF queue' = queue THEN @ \cup {r} ELSE @]
    /\ UNCHANGED <<vars, answered, doomed>>

\* The answer leaves the process.  With a key or gzip, or with a small body, it is
\* held until Publish has returned; a large body may fill net/http's buffer before.
AnswerLeaves(r) ==
    /\ Alive
    /\ Acked(r)
    /\ r \notin answered \cup doomed
    /\ answered' = answered \cup {r}
    /\ UNCHANGED <<vars, pub, pos, queue, closed, panicked, worker, current, attempt,
                   accepted, notified, handed, refused, deferred, auditFile,
                   missed, doomed>>

ObserverStep(o) ==
    /\ Alive
    /\ Audit!Run(o)
    /\ UNCHANGED <<vars, missed, answered, doomed>>

----------------------------------------------------------------------------
(* main.                                                                   *)

TickerStep == (Tick \/ StopTicker \/ SaveStep(Ticker)) /\ UNCHANGED auditVars

Signal == (Cancel \/ ServeFails) /\ UNCHANGED auditVars

\* Faulty: Shutdown counts a handler as finished once its answer has left.
HandlersDone_Answered ==
    \A r \in Requests : ~InFlight(r) /\ (Acked(r) => r \in answered \cup doomed)

HandlersDone == \A r \in Requests : ~Busy(r)

\* srv.Shutdown returns: every handler has returned, from Publish too, and every
\* answer has left.
ServerDrained == Drained /\ HandlersDone /\ UNCHANGED auditVars

\* main is done without an error: the deferred calls begin.
BeginClose ==
    /\ main = "leaving" /\ ~Fatal
    /\ Audit!BeginClose
    /\ UNCHANGED <<vars, missed, answered, doomed>>

CloseStep ==
    /\ Alive
    /\ Audit!Close
    /\ UNCHANGED <<vars, missed, answered, doomed>>

\* The process has ended and is not started again.
Ended == ~Alive /\ UNCHANGED serverVars

MainGoesOn ==
    \/ (ShutdownHTTP \/ ShutdownTimeout \/ Flush \/ SaveStep(Main)) /\ UNCHANGED auditVars
    \/ ServerDrained
    \/ BeginClose \/ CloseStep \/ ServerExit

ServerNext ==
    \/ \E r \in Requests :
          HandlerStep(r) \/ BeginPublish(r) \/ PublishStep(r) \/ AnswerLeaves(r)
    \/ \E o \in Audit!Observers : ObserverStep(o)
    \/ TickerStep \/ Signal \/ MainGoesOn
    \/ ServerCrash \/ ServerStart \/ Ended

ServerSpec == ServerInit /\ [][ServerNext]_serverVars

\* As in PersistentStorage and AuditPublisher: goroutines that can go on do,
\* the shutdown timeout fires, file operations and calls of Notify return.
ServerFairness ==
    /\ SF_serverVars(StopTicker /\ UNCHANGED auditVars)
    /\ WF_serverVars(SaveStep(Ticker) /\ UNCHANGED auditVars)
    /\ WF_serverVars(MainGoesOn)
    /\ \A o \in Audit!Observers : WF_serverVars(ObserverStep(o))

FairServerSpec == ServerSpec /\ ServerFairness

----------------------------------------------------------------------------
(* Properties.                                                             *)

\* A server that ends without error has answered every update it acknowledged,
\* and has handed it to every observer whose queue had room for it: no handler
\* finds the publisher closed, and no event is left in a queue (main.go:127-141
\* with the defer of line 77).  Only a crash and log.Fatal lose audit events.
CleanExitAudits ==
    deferred = "returned" =>
        \A r \in Requests : Acked(r) /\ r \notin doomed =>
            /\ r \in answered
            /\ \A o \in Audit!Observers :
                  r \in missed[o] \/ \E i \in 1..Len(notified[o]) : notified[o][i] = r

\* The deferred calls run only when nobody uses what they close and nobody
\* writes the storage file any more: no handler is busy, the persistence goroutine
\* has ended and is not inside its last Save (main.go:130-132).
CloseComesLast ==
    deferred # "serving" =>
        /\ HandlersDone
        /\ ticker = "done"
        /\ \A p \in Savers : save[p] = "idle"

\* An update that an observer was told of is in the file under syncWrites, as long
\* as no two calls of Save have overlapped: the event follows the save, so a
\* crash at any point, before or after the answer has left, leaves no audit line
\* of an update that the next process does not have.
AuditedIsDurable ==
    SyncWrites /\ ~overlapped =>
        \A o \in Audit!Observers : \A r \in handed[o] : InFile(r)

\* A server that was told to stop, or whose listener failed, ends: the HTTP
\* server, the ticker, the last save and the drain of the audit queues do not
\* wait for each other in a circle.
ServerStops == cancelled ~> ~Alive

============================================================================
