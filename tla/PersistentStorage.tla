------------------------- MODULE PersistentStorage -------------------------
(***************************************************************************)
(* The file storage of the metrics server                                  *)
(* (internal/repository/persistent.go) with the callers that drive it: the *)
(* HTTP handlers, the goroutine of RunPersistencePeriodically, and the     *)
(* shutdown sequence of cmd/server/main.go.                                *)
(*                                                                         *)
(* Data abstraction.  MemStorage applies an update request (one metric or  *)
(* a batch) in one critical section, so the metrics in memory are a        *)
(* function of the sequence of the updates applied, and memory, a snapshot *)
(* and the file are such sequences.  A request is its own goroutine; its   *)
(* identity is the update it carries.                                      *)
(*                                                                         *)
(* A crash is one of the process: what rename(2) put in place stays.       *)
(***************************************************************************)
EXTENDS Naturals, Sequences

CONSTANTS
    Requests,    \* the update requests of clients
    Ticker,      \* the goroutine of RunPersistencePeriodically
    Main,        \* the main goroutine
    SyncWrites,  \* PersistentStorage.syncWrites: the store interval is 0
    Restore,     \* Config.Restore
    MaxStarts    \* bound: restarts of the process

ASSUME StorageAssumption ==
    /\ Ticker # Main /\ Ticker \notin Requests /\ Main \notin Requests
    /\ SyncWrites \in BOOLEAN /\ Restore \in BOOLEAN
    /\ MaxStarts \in Nat

Savers == Requests \cup {Ticker, Main}

VARIABLES
    mem,        \* the updates applied to MemStorage
    file,       \* the updates in the storage file
    req,        \* per request: where its handler is; "acked": the storage has
                \* returned nil, the answer will be a success
    save,       \* per saver: where its call of Save is
    snap,       \* per saver: the snapshot that Save holds
    ticker,     \* where RunPersistencePeriodically is
    main,       \* where main is
    cancelled,  \* ctx of main is done
    open,       \* connections still bring requests
    graceful,   \* neither Serve nor Shutdown has returned an error
    flushed,    \* the last Save of main succeeded
    starts,     \* restarts so far (for the bound MaxStarts)
    overlapped  \* history: two calls of Save have overlapped

saveVars == <<save, snap>>
mainVars == <<main, cancelled, open, graceful, flushed, starts>>
vars == <<mem, file, req, saveVars, ticker, mainVars, overlapped>>

Alive == main \notin {"exited", "down"}
InFlight(r) == req[r] \in {"handling", "saving"}

TypeOK ==
    /\ mem \in Seq(Requests) /\ file \in Seq(Requests)
    /\ req \in [Requests -> {"new", "handling", "saving", "acked", "failed", "lost"}]
    /\ save \in [Savers -> {"idle", "begin", "rename"}]
    /\ snap \in [Savers -> Seq(Requests)]
    /\ ticker \in {"waiting", "saving", "last", "done"}
    /\ main \in {"serving", "draining", "persist", "flush", "leaving", "exited", "down"}
    /\ cancelled \in BOOLEAN /\ open \in BOOLEAN /\ graceful \in BOOLEAN
    /\ flushed \in BOOLEAN /\ starts \in 0..MaxStarts /\ overlapped \in BOOLEAN
    /\ \A r \in Requests : save[r] # "idle" <=> req[r] = "saving"
    /\ save[Ticker] # "idle" => ticker \in {"saving", "last"}
    /\ save[Main] # "idle" <=> main = "flush"

Init ==
    /\ mem = <<>> /\ file = <<>>
    /\ req = [r \in Requests |-> "new"]
    /\ save = [p \in Savers |-> "idle"]
    /\ snap = [p \in Savers |-> <<>>]
    /\ ticker = "waiting" /\ main = "serving"
    /\ cancelled = FALSE /\ open = TRUE /\ graceful = TRUE /\ flushed = FALSE
    /\ starts = 0 /\ overlapped = FALSE

----------------------------------------------------------------------------
(* Save, as called by a handler, by the ticker and by main.  It holds no   *)
(* lock from the snapshot to the rename.                                   *)

BeginSave(p) ==
    /\ save' = [save EXCEPT ![p] = "begin"]
    /\ overlapped' = (overlapped \/ \E q \in Savers : save[q] # "idle")
    /\ UNCHANGED snap

TakeSnapshot(p) ==
    /\ save[p] = "begin"
    /\ save' = [save EXCEPT ![p] = "rename"]
    /\ snap' = [snap EXCEPT ![p] = mem]
    /\ UNCHANGED <<mem, file, req, ticker, mainVars, overlapped>>

EndSave(p) ==
    /\ save' = [save EXCEPT ![p] = "idle"]
    /\ snap' = [snap EXCEPT ![p] = <<>>]

\* Faulty variants of the definitions below end in _...: each is a slip the
\* properties must detect.  Here: a handler ignores the error of Save.
ReturnSave_IgnoresError(p, ok) ==
    \/ /\ p \in Requests
       /\ req' = [req EXCEPT ![p] = "acked"]
       /\ EndSave(p)
       /\ UNCHANGED <<ticker, mainVars>>
    \/ /\ p = Ticker
       /\ ticker' = IF ticker = "last" THEN "done" ELSE "waiting"
       /\ EndSave(p)
       /\ UNCHANGED <<req, mainVars>>
    \/ /\ p = Main
       /\ main' = "leaving"
       /\ flushed' = ok
       /\ EndSave(p)
       /\ UNCHANGED <<req, ticker, cancelled, open, graceful, starts>>

\* The caller goes on with the result of Save.  A handler gets nil or the error;
\* the ticker ignores an error and ends after its last save; main goes on to its
\* end while the other goroutines still run.
ReturnSave(p, ok) ==
    \/ /\ p \in Requests
       /\ req' = [req EXCEPT ![p] = IF ok THEN "acked" ELSE "failed"]
       /\ EndSave(p)
       /\ UNCHANGED <<ticker, mainVars>>
    \/ /\ p = Ticker
       /\ ticker' = IF ticker = "last" THEN "done" ELSE "waiting"
       /\ EndSave(p)
       /\ UNCHANGED <<req, mainVars>>
    \/ /\ p = Main
       /\ main' = "leaving"
       /\ flushed' = ok
       /\ EndSave(p)
       /\ UNCHANGED <<req, ticker, cancelled, open, graceful, starts>>

\* The rename puts the snapshot in place; the caller sees no error.
Rename(p) ==
    /\ save[p] = "rename"
    /\ file' = snap[p]
    /\ ReturnSave(p, TRUE)
    /\ UNCHANGED <<mem, overlapped>>

\* MkdirAll, CreateTemp, Write, Close or Rename fails: the file is as it was.
SaveFails(p) ==
    /\ save[p] # "idle"
    /\ ReturnSave(p, FALSE)
    /\ UNCHANGED <<mem, file, overlapped>>

----------------------------------------------------------------------------
(* Handlers: UpdateGauge, AddCounter, UpdateMetrics.                       *)

Accept(r) ==
    /\ Alive /\ open
    /\ req[r] = "new"
    /\ req' = [req EXCEPT ![r] = "handling"]
    /\ UNCHANGED <<mem, file, saveVars, ticker, mainVars, overlapped>>

\* Faulty: the handlers save in both modes.
Update_AlwaysSaves(r) ==
    /\ req[r] = "handling"
    /\ mem' = Append(mem, r)
    /\ req' = [req EXCEPT ![r] = "saving"]
    /\ BeginSave(r)
    /\ UNCHANGED <<file, ticker, mainVars>>

\* MemStorage is updated; with syncWrites the handler goes on to Save.
Update(r) ==
    /\ req[r] = "handling"
    /\ mem' = Append(mem, r)
    /\ IF SyncWrites
       THEN req' = [req EXCEPT ![r] = "saving"] /\ BeginSave(r)
       ELSE req' = [req EXCEPT ![r] = "acked"] /\ UNCHANGED <<saveVars, overlapped>>
    /\ UNCHANGED <<file, ticker, mainVars>>

----------------------------------------------------------------------------
(* RunPersistencePeriodically.                                             *)

\* Faulty: the save of a tick is a goroutine of its own.
Tick_InBackground ==
    /\ ~SyncWrites
    /\ ticker = "waiting"
    /\ save[Ticker] = "idle"
    /\ BeginSave(Ticker)
    /\ UNCHANGED <<mem, file, req, ticker, mainVars>>

Tick ==
    /\ ~SyncWrites
    /\ ticker = "waiting"
    /\ ticker' = "saving"
    /\ BeginSave(Ticker)
    /\ UNCHANGED <<mem, file, req, mainVars>>

\* Faulty: with a store interval of 0 nothing waits for ctx.
StopTicker_IntervalOnly ==
    /\ ~SyncWrites
    /\ ticker = "waiting"
    /\ cancelled
    /\ ticker' = "last"
    /\ BeginSave(Ticker)
    /\ UNCHANGED <<mem, file, req, mainVars>>

\* Faulty: the case of ctx saves, but does not leave the loop.
StopTicker_NoReturn ==
    /\ ticker = "waiting"
    /\ cancelled
    /\ ticker' = "saving"
    /\ BeginSave(Ticker)
    /\ UNCHANGED <<mem, file, req, mainVars>>

\* ctx is done: the last save, in both modes.
StopTicker ==
    /\ ticker = "waiting"
    /\ cancelled
    /\ ticker' = "last"
    /\ BeginSave(Ticker)
    /\ UNCHANGED <<mem, file, req, mainVars>>

----------------------------------------------------------------------------
(* main and runServerWithShutdownTimeout.                                  *)

\* A signal arrives.
Cancel ==
    /\ main = "serving"
    /\ ~cancelled
    /\ cancelled' = TRUE
    /\ UNCHANGED <<mem, file, req, saveVars, ticker, main, open, graceful,
                   flushed, starts, overlapped>>

\* srv.Shutdown closes the listener and the idle connections; a connection that
\* is new may still bring a request.  Serve may have failed at the same time,
\* which main learns when both have returned.
ShutdownHTTP ==
    /\ main = "serving"
    /\ cancelled
    /\ main' = "draining"
    /\ graceful' \in BOOLEAN
    /\ UNCHANGED <<mem, file, req, saveVars, ticker, cancelled, open,
                   flushed, starts, overlapped>>

\* srv.Serve fails: no Shutdown, main calls stop() itself; the connections
\* that are open go on.
ServeFails ==
    /\ main = "serving"
    /\ main' = "persist"
    /\ cancelled' = TRUE
    /\ graceful' = FALSE
    /\ UNCHANGED <<mem, file, req, saveVars, ticker, open, flushed, starts,
                   overlapped>>

\* Faulty: the server is closed without waiting for its handlers.
Drained_NoWait ==
    /\ main = "draining"
    /\ main' = "persist"
    /\ open' = FALSE
    /\ UNCHANGED <<mem, file, req, saveVars, ticker, cancelled, graceful,
                   flushed, starts, overlapped>>

\* srv.Shutdown returns: every handler has returned, every connection is closed.
Drained ==
    /\ main = "draining"
    /\ \A r \in Requests : ~InFlight(r)
    /\ main' = "persist"
    /\ open' = FALSE
    /\ UNCHANGED <<mem, file, req, saveVars, ticker, cancelled, graceful,
                   flushed, starts, overlapped>>

\* gracefulShutdownTimeout passes while connections are busy or new; they and
\* their handlers are not stopped.
ShutdownTimeout ==
    /\ main = "draining"
    /\ main' = "persist"
    /\ graceful' = FALSE
    /\ UNCHANGED <<mem, file, req, saveVars, ticker, cancelled, open, flushed,
                   starts, overlapped>>

\* Faulty: main does not wait for the persistence goroutine.
PersistenceDone_Skipped == TRUE

\* <-persistenceDone is ready.
PersistenceDone == ticker = "done"

Flush ==
    /\ main = "persist"
    /\ PersistenceDone
    /\ main' = "flush"
    /\ BeginSave(Main)
    /\ UNCHANGED <<mem, file, req, ticker, cancelled, open, graceful, flushed,
                   starts>>

\* The process ends: its goroutines are gone, requests in flight get no answer.
Gone ==
    /\ save' = [p \in Savers |-> "idle"]
    /\ snap' = [p \in Savers |-> <<>>]
    /\ req' = [r \in Requests |-> IF InFlight(r) THEN "lost" ELSE req[r]]
    /\ ticker' = "done"

\* main returns from its deferred calls, or log.Fatal ends the process.
Exit ==
    /\ main = "leaving"
    /\ main' = "exited"
    /\ Gone
    /\ UNCHANGED <<mem, file, cancelled, open, graceful, flushed, starts, overlapped>>

Crash ==
    /\ Alive
    /\ main' = "down"
    /\ Gone
    /\ UNCHANGED <<mem, file, cancelled, open, graceful, flushed, starts, overlapped>>

\* Faulty: the file is not read.
Start_NoRestore ==
    /\ ~Alive
    /\ starts < MaxStarts
    /\ starts' = starts + 1
    /\ mem' = <<>>
    /\ main' = "serving" /\ ticker' = "waiting"
    /\ cancelled' = FALSE /\ open' = TRUE /\ graceful' = TRUE /\ flushed' = FALSE
    /\ UNCHANGED <<file, req, saveVars, overlapped>>

\* The process starts again; RestoreFromFile reads what the file holds.
Start ==
    /\ ~Alive
    /\ starts < MaxStarts
    /\ starts' = starts + 1
    /\ mem' = IF Restore THEN file ELSE <<>>
    /\ main' = "serving" /\ ticker' = "waiting"
    /\ cancelled' = FALSE /\ open' = TRUE /\ graceful' = TRUE /\ flushed' = FALSE
    /\ UNCHANGED <<file, req, saveVars, overlapped>>

\* The process is not started again.
Stopped == ~Alive /\ UNCHANGED vars

----------------------------------------------------------------------------

SaveStep(p) == TakeSnapshot(p) \/ Rename(p) \/ SaveFails(p)

MainStep ==
    ShutdownHTTP \/ Drained \/ ShutdownTimeout \/ Flush \/ Exit

Next ==
    \/ \E p \in Savers : SaveStep(p)
    \/ \E r \in Requests : Accept(r) \/ Update(r)
    \/ Tick \/ StopTicker
    \/ Cancel \/ ServeFails \/ MainStep
    \/ Crash \/ Start \/ Stopped

Spec == Init /\ [][Next]_vars

\* Every goroutine of the server is scheduled, select does not pass over
\* ctx.Done() for ever, file operations return and the shutdown timeout fires.
\* Nothing is assumed of clients, signals, tickers or how long a handler takes.
Fairness ==
    /\ \A p \in Savers : WF_vars(SaveStep(p))
    /\ SF_vars(StopTicker)
    /\ WF_vars(MainStep)

FairSpec == Spec /\ Fairness

----------------------------------------------------------------------------
(* Properties.                                                             *)

\* The storage implements DurableLog: what a restart reads back is always a
\* state memory went through, updates in their order and none missing in the
\* middle, because Save works on one snapshot and replaces the file by a
\* rename.  With a store interval the file also never goes back to an older
\* state: its only writers are the ticker and, after it, main.
Log == INSTANCE DurableLog WITH
          Updates <- Requests, Monotone <- ~SyncWrites, alive <- Alive

ImplementsDurableLog == Log!LogSpec

\* After a shutdown in which the handlers finished in time and the last Save
\* succeeded, the file holds everything memory held, whatever older snapshots
\* were being written when the signal came; nobody replaces it while main is in
\* its deferred calls.
CleanExitIsComplete ==
    main \in {"leaving", "exited"} /\ graceful /\ flushed => file = mem

Acked(r) == req[r] = "acked"
InFile(r) == \E i \in 1..Len(file) : file[i] = r

\* As long as no two calls of Save have overlapped, an update that the storage
\* acknowledged to its handler under syncWrites is in the file, so a crash does
\* not lose it; failed saves, crashes and restarts included.
SerialSavesAreDurable ==
    ~overlapped => \A r \in Requests : Acked(r) => InFile(r)

\* A server that is told to stop does stop: Shutdown, the ticker and main do
\* not wait for each other in a circle, in either mode.
ShutdownTerminates == cancelled ~> ~Alive

\* "UpdateGauge updates a gauge and, when needed, saves the state
\* synchronously" (persistent.go:30): an update that the storage acknowledged
\* under syncWrites is in the file.
AckedUpdateIsDurable == \A r \in Requests : Acked(r) => InFile(r)

============================================================================
