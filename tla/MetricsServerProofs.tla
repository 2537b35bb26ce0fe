------------------------ MODULE MetricsServerProofs ------------------------
(***************************************************************************)
(* Theorems about PersistentStorage, for every set of requests, number of  *)
(* restarts and, where a theorem does not say otherwise, both modes; then  *)
(* about MetricsServer, which extends it.  Every step of the composition   *)
(* is one of PersistentStorage or leaves it alone, and one of              *)
(* AuditPublisher or leaves it alone but for a new publisher, so the       *)
(* lemmas of the first part and of AuditPublisherProofs carry over.        *)
(***************************************************************************)
EXTENDS MetricsServer, TLAPS

----------------------------------------------------------------------------
(* The storage on its own: the inductive invariant.                        *)

\* Types, and which goroutine is in a call of Save when.
SaverInv ==
    /\ TypeOK
    /\ ~Alive => ticker = "done"
    /\ ~Alive => \A p \in Savers : save[p] = "idle"
    /\ ~Alive => \A r \in Requests : ~InFlight(r)
    /\ main \in {"flush", "leaving"} => ticker = "done"
    /\ ~SyncWrites => \A r \in Requests : req[r] # "saving"

\* The file and the snapshots are states that memory went through, and with a
\* store interval no snapshot in hand is older than the file.
SnapshotInv ==
    /\ Log!Prefix(file, mem)
    /\ \A p \in Savers : save[p] = "rename" => Log!Prefix(snap[p], mem)
    /\ ~SyncWrites => \A p \in Savers : save[p] = "rename" => Log!Prefix(file, snap[p])

\* Nothing changes memory between a graceful drain and the end of main.
DrainInv ==
    graceful =>
        /\ main \in {"persist", "flush", "leaving"} => ~open
        /\ main \in {"persist", "flush", "leaving", "exited"} =>
              \A r \in Requests : ~InFlight(r)
        /\ main = "flush" /\ save[Main] = "rename" => snap[Main] = mem
        /\ main \in {"leaving", "exited"} /\ flushed => file = mem

----------------------------------------------------------------------------
(* Prefixes.                                                               *)

LEMMA PrefixReflexive ==
    ASSUME NEW S, NEW s \in Seq(S)
    PROVE  Log!Prefix(s, s)
  BY DEF Log!Prefix

LEMMA PrefixEmpty ==
    ASSUME NEW S, NEW s \in Seq(S)
    PROVE  Log!Prefix(<<>>, s)
  BY DEF Log!Prefix

LEMMA PrefixAppend ==
    ASSUME NEW S, NEW s \in Seq(S), NEW t \in Seq(S), NEW e \in S, Log!Prefix(s, t)
    PROVE  Log!Prefix(s, Append(t, e))
  BY DEF Log!Prefix

----------------------------------------------------------------------------
(* Who saves when.                                                         *)

LEMMA SaverTypes == Ticker \in Savers /\ Main \in Savers /\ Requests \subseteq Savers
  BY DEF Savers

LEMMA BeginSaveTypes ==
    ASSUME TypeOK, NEW p \in Savers, BeginSave(p)
    PROVE  /\ save' \in [Savers -> {"idle", "begin", "rename"}]
           /\ save'[p] = "begin"
           /\ \A q \in Savers \ {p} : save'[q] = save[q]
           /\ snap' = snap
           /\ overlapped' \in BOOLEAN
  <1>1. overlapped' \in BOOLEAN
    BY Zenon DEF BeginSave
  <1>2. QED
    BY <1>1 DEF BeginSave, TypeOK

\* The end of a call of Save, for a caller that goes on.
LEMMA EndSaveTypes ==
    ASSUME TypeOK, NEW p \in Savers, EndSave(p)
    PROVE  /\ save' \in [Savers -> {"idle", "begin", "rename"}]
           /\ snap' \in [Savers -> Seq(Requests)]
           /\ save'[p] = "idle"
           /\ \A q \in Savers \ {p} : save'[q] = save[q] /\ snap'[q] = snap[q]
  BY DEF EndSave, TypeOK

LEMMA SaverStep == SaverInv /\ [Next]_vars => SaverInv'
  <1> USE StorageAssumption, SaverTypes
  <1> SUFFICES ASSUME SaverInv, [Next]_vars
               PROVE  SaverInv'
    OBVIOUS
  <1> USE DEF SaverInv
  <1>1. CASE UNCHANGED vars \/ Stopped
    BY <1>1 DEF Stopped, TypeOK, Alive, InFlight, vars, mainVars, saveVars
  <1>2. ASSUME NEW p \in Savers, TakeSnapshot(p)
        PROVE  SaverInv'
    BY <1>2 DEF TakeSnapshot, TypeOK, Alive, InFlight, mainVars
  <1>3. ASSUME NEW p \in Savers, NEW ok \in BOOLEAN, save[p] # "idle",
               file' \in Seq(Requests), ReturnSave(p, ok),
               UNCHANGED <<mem, overlapped>>
        PROVE  SaverInv'
    <2>1. CASE p \in Requests
      <3>1. /\ req' \in [Requests -> {"new", "handling", "saving", "acked", "failed", "lost"}]
            /\ req'[p] \in {"acked", "failed"}
            /\ \A r \in Requests \ {p} : req'[r] = req[r]
            /\ p # Ticker /\ p # Main
        BY <1>3, <2>1 DEF ReturnSave, TypeOK
      <3>2. EndSave(p) /\ UNCHANGED <<ticker, mainVars>>
        BY <1>3, <3>1 DEF ReturnSave
      <3>3. Alive
        BY <1>3
      <3>4. /\ save' \in [Savers -> {"idle", "begin", "rename"}]
            /\ snap' \in [Savers -> Seq(Requests)]
            /\ save'[p] = "idle"
            /\ save'[Ticker] = save[Ticker] /\ save'[Main] = save[Main]
            /\ \A r \in Requests \ {p} : save'[r] = save[r]
        BY <3>1, <3>2, EndSaveTypes
      <3>5. TypeOK'
        BY <1>3, <2>1, <3>1, <3>2, <3>4 DEF TypeOK, mainVars
      <3>6. QED
        BY <3>1, <3>2, <3>3, <3>5 DEF Alive, InFlight, mainVars
    <2>2. CASE p = Ticker
      <3>1. /\ ticker' \in {"done", "waiting"}
            /\ EndSave(p) /\ UNCHANGED <<req, mainVars>>
        BY <1>3, <2>2 DEF ReturnSave
      <3>2. Alive /\ main \notin {"flush", "leaving"}
        BY <1>3, <2>2 DEF TypeOK
      <3>3. /\ save' \in [Savers -> {"idle", "begin", "rename"}]
            /\ snap' \in [Savers -> Seq(Requests)]
            /\ save'[Ticker] = "idle" /\ save'[Main] = save[Main]
            /\ \A r \in Requests : save'[r] = save[r]
        BY <2>2, <3>1, EndSaveTypes
      <3>4. TypeOK'
        BY <1>3, <3>1, <3>3 DEF TypeOK, mainVars
      <3>5. QED
        BY <3>1, <3>2, <3>4 DEF Alive, InFlight, mainVars
    <2>3. CASE p = Main
      <3>1. /\ main' = "leaving" /\ flushed' \in BOOLEAN /\ EndSave(p)
            /\ UNCHANGED <<req, ticker, cancelled, open, graceful, starts>>
        BY <1>3, <2>3 DEF ReturnSave
      <3>2. ticker = "done"
        BY <1>3, <2>3 DEF TypeOK
      <3>3. /\ save' \in [Savers -> {"idle", "begin", "rename"}]
            /\ snap' \in [Savers -> Seq(Requests)]
            /\ save'[Main] = "idle" /\ save'[Ticker] = save[Ticker]
            /\ \A r \in Requests : save'[r] = save[r]
        BY <2>3, <3>1, EndSaveTypes
      <3>4. TypeOK'
        BY <1>3, <3>1, <3>3 DEF TypeOK
      <3>5. QED
        BY <3>1, <3>2, <3>4 DEF Alive, InFlight
    <2>4. QED
      BY <2>1, <2>2, <2>3 DEF Savers
  <1>4. ASSUME NEW p \in Savers, Rename(p) \/ SaveFails(p)
        PROVE  SaverInv'
    <2>1. CASE Rename(p)
      <3>1. file' \in Seq(Requests) /\ save[p] # "idle"
        BY <2>1 DEF Rename, TypeOK
      <3>2. QED
        BY <1>3, <2>1, <3>1 DEF Rename
    <2>2. CASE SaveFails(p)
      <3>1. file' \in Seq(Requests) /\ save[p] # "idle"
        BY <2>2 DEF SaveFails, TypeOK
      <3>2. QED
        BY <1>3, <2>2, <3>1 DEF SaveFails
    <2>3. QED
      BY <1>4, <2>1, <2>2
  <1>5. ASSUME NEW r \in Requests, Accept(r)
        PROVE  SaverInv'
    BY <1>5 DEF Accept, TypeOK, Alive, InFlight, mainVars, saveVars
  <1>6. ASSUME NEW r \in Requests, Update(r)
        PROVE  SaverInv'
    <2>1. mem' \in Seq(Requests)
      BY <1>6 DEF Update, TypeOK
    <2>2. CASE SyncWrites
      <3>1. /\ req' = [req EXCEPT ![r] = "saving"] /\ BeginSave(r)
            /\ UNCHANGED <<file, ticker, mainVars>>
        BY <1>6, <2>2 DEF Update
      <3>2. Alive
        BY <1>6 DEF Update, InFlight
      <3>3. TypeOK'
        BY <2>1, <3>1, BeginSaveTypes DEF TypeOK, mainVars
      <3>4. QED
        BY <2>2, <3>1, <3>2, <3>3 DEF Alive, InFlight, mainVars
    <2>3. CASE ~SyncWrites
      BY <1>6, <2>1, <2>3 DEF Update, TypeOK, Alive, InFlight, mainVars, saveVars
    <2>4. QED
      BY <2>2, <2>3
  <1>7. CASE Tick \/ StopTicker
    <2>1. Alive /\ main \notin {"flush", "leaving"}
      BY <1>7 DEF Tick, StopTicker
    <2>2. QED
      BY <1>7, <2>1, BeginSaveTypes DEF Tick, StopTicker, TypeOK, Alive, InFlight, mainVars
  <1>8. CASE Cancel \/ ServeFails \/ ShutdownHTTP \/ Drained \/ ShutdownTimeout
    BY <1>8
    DEF Cancel, ServeFails, ShutdownHTTP, Drained, ShutdownTimeout, TypeOK, Alive,
        InFlight, saveVars
  <1>9. CASE Flush
    BY <1>9, BeginSaveTypes DEF Flush, PersistenceDone, TypeOK, Alive, InFlight
  <1>10. CASE Crash \/ Exit
    <2>1. /\ main' \in {"exited", "down"} /\ Gone
          /\ UNCHANGED <<mem, file, cancelled, open, graceful, flushed, starts, overlapped>>
      BY <1>10 DEF Crash, Exit
    <2>2. TypeOK'
      BY <2>1 DEF Gone, TypeOK, InFlight
    <2>3. QED
      BY <2>1, <2>2 DEF Gone, Alive, InFlight, TypeOK
  <1>11. CASE Start
    <2>1. mem' \in Seq(Requests) /\ starts' \in 0..MaxStarts
      BY <1>11 DEF Start, TypeOK
    <2>2. TypeOK'
      BY <1>11, <2>1 DEF Start, TypeOK, Alive, saveVars
    <2>3. QED
      BY <1>11, <2>2 DEF Start, Alive, InFlight
  <1>12. QED
    BY <1>1, <1>2, <1>4, <1>5, <1>6, <1>7, <1>8, <1>9, <1>10, <1>11
    DEF Next, SaveStep, MainStep

LEMMA SaverInit == Init => SaverInv
  <1> USE StorageAssumption, SaverTypes
  <1> SUFFICES ASSUME Init
               PROVE  SaverInv
    OBVIOUS
  <1>1. /\ cancelled \in BOOLEAN /\ open \in BOOLEAN /\ graceful \in BOOLEAN
        /\ flushed \in BOOLEAN /\ overlapped \in BOOLEAN
    BY DEF Init
  <1>2. starts \in 0..MaxStarts
    BY DEF Init
  <1>3. mem \in Seq(Requests) /\ file \in Seq(Requests) /\ snap \in [Savers -> Seq(Requests)]
    BY DEF Init
  <1>4. QED
    BY <1>1, <1>2, <1>3 DEF Init, SaverInv, TypeOK, Alive, InFlight

LEMMA SaverInvariant == Spec => []SaverInv
  <1>1. SaverInv /\ [Next]_vars => SaverInv'
    BY SaverStep
  <1>2. QED
    BY SaverInit, <1>1, PTL DEF Spec

\* Types and the states in which a goroutine can be in a call of Save.
THEOREM TypeInvariant == Spec => []TypeOK
  BY SaverInvariant, PTL DEF SaverInv

----------------------------------------------------------------------------
(* What the file and the snapshots hold.                                   *)

LEMMA SnapshotStep ==
    Restore = TRUE /\ SaverInv /\ SaverInv' /\ SnapshotInv /\ [Next]_vars => SnapshotInv'
  <1> USE StorageAssumption, SaverTypes
  <1> SUFFICES ASSUME Restore = TRUE, SaverInv, SaverInv', SnapshotInv, [Next]_vars
               PROVE  SnapshotInv'
    OBVIOUS
  <1>1. /\ save \in [Savers -> {"idle", "begin", "rename"}]
        /\ snap \in [Savers -> Seq(Requests)]
        /\ mem \in Seq(Requests) /\ file \in Seq(Requests)
    BY DEF SaverInv, TypeOK
  <1>2. ASSUME UNCHANGED <<mem, file>>,
               \A p \in Savers : save'[p] = "rename" => save[p] = "rename" /\ snap'[p] = snap[p]
        PROVE  SnapshotInv'
    BY <1>2 DEF SnapshotInv
  <1>3. ASSUME NEW p \in Savers, BeginSave(p), UNCHANGED <<mem, file>>
        PROVE  SnapshotInv'
    <2>1. \A q \in Savers : save'[q] = "rename" => save[q] = "rename" /\ snap'[q] = snap[q]
      BY <1>1, <1>3 DEF BeginSave
    <2>2. QED
      BY <1>2, <1>3, <2>1
  <1>4. ASSUME NEW p \in Savers, NEW ok \in BOOLEAN, ReturnSave(p, ok)
        PROVE  \A q \in Savers : save'[q] = "rename" =>
                   q # p /\ save[q] = "rename" /\ snap'[q] = snap[q]
    BY <1>1, <1>4 DEF ReturnSave, EndSave
  <1>5. CASE UNCHANGED vars \/ Stopped
    BY <1>2, <1>5 DEF Stopped, vars, saveVars
  <1>6. ASSUME NEW p \in Savers, TakeSnapshot(p)
        PROVE  SnapshotInv'
    <2>1. /\ \A q \in Savers : save'[q] = "rename" =>
                \/ q = p /\ snap'[q] = mem
                \/ save[q] = "rename" /\ snap'[q] = snap[q]
          /\ UNCHANGED <<mem, file>>
      BY <1>1, <1>6 DEF TakeSnapshot
    <2>2. Log!Prefix(mem, mem)
      BY <1>1, PrefixReflexive
    <2>3. QED
      BY <2>1, <2>2 DEF SnapshotInv
  <1>7. ASSUME NEW p \in Savers, SaveFails(p)
        PROVE  SnapshotInv'
    BY <1>2, <1>4, <1>7 DEF SaveFails
  <1>8. ASSUME NEW p \in Savers, Rename(p)
        PROVE  SnapshotInv'
    <2>1. file' = snap[p] /\ mem' = mem /\ save[p] = "rename" /\ ReturnSave(p, TRUE)
      BY <1>8 DEF Rename
    <2>2. /\ Log!Prefix(file', mem')
          /\ \A q \in Savers : save'[q] = "rename" => Log!Prefix(snap'[q], mem')
      BY <1>4, <2>1 DEF SnapshotInv
    <2>3. ASSUME ~SyncWrites, NEW q \in Savers, save'[q] = "rename"
          PROVE  FALSE
      \* the ticker and main never save at the same time
      <3>1. q # p /\ save[q] = "rename" /\ ~SyncWrites
        BY <1>4, <2>1, <2>3
      <3>2. {p, q} = {Ticker, Main}
        BY <2>1, <3>1 DEF SaverInv, TypeOK, Savers
      <3>3. QED
        BY <2>1, <3>1, <3>2 DEF SaverInv, TypeOK
    <2>4. QED
      BY <2>2, <2>3 DEF SnapshotInv
  <1>9. ASSUME NEW r \in Requests, Accept(r)
        PROVE  SnapshotInv'
    BY <1>2, <1>9 DEF Accept, saveVars
  <1>10. ASSUME NEW r \in Requests, Update(r)
         PROVE  SnapshotInv'
    <2>1. /\ mem' = Append(mem, r) /\ file' = file
          /\ \A q \in Savers : save'[q] = "rename" => save[q] = "rename" /\ snap'[q] = snap[q]
      BY <1>1, <1>10 DEF Update, BeginSave, saveVars
    <2>2. /\ Log!Prefix(file, Append(mem, r))
          /\ \A q \in Savers : save[q] = "rename" => Log!Prefix(snap[q], Append(mem, r))
      BY <1>1, PrefixAppend DEF SnapshotInv
    <2>3. QED
      BY <2>1, <2>2 DEF SnapshotInv
  <1>11. CASE Tick \/ StopTicker
    BY <1>3, <1>11 DEF Tick, StopTicker
  <1>12. CASE Flush
    BY <1>3, <1>12 DEF Flush
  <1>13. CASE Cancel \/ ServeFails \/ ShutdownHTTP \/ Drained \/ ShutdownTimeout
    BY <1>2, <1>13
    DEF Cancel, ServeFails, ShutdownHTTP, Drained, ShutdownTimeout, saveVars
  <1>14. CASE Crash \/ Exit
    BY <1>2, <1>14 DEF Crash, Exit, Gone
  <1>15. CASE Start
    <2>1. mem' = file /\ file' = file /\ \A q \in Savers : save'[q] = "idle"
      BY <1>15 DEF Start, saveVars, SaverInv
    <2>2. Log!Prefix(file, file)
      BY <1>1, PrefixReflexive
    <2>3. QED
      BY <2>1, <2>2 DEF SnapshotInv
  <1>16. QED
    BY <1>5, <1>6, <1>7, <1>8, <1>9, <1>10, <1>11, <1>12, <1>13, <1>14, <1>15
    DEF Next, SaveStep, MainStep

LEMMA SnapshotInvariant == Restore = TRUE => (Spec => []SnapshotInv)
  <1> SUFFICES ASSUME Restore = TRUE
               PROVE  Spec => []SnapshotInv
    OBVIOUS
  <1> USE StorageAssumption, SaverTypes
  <1>1. Init => SnapshotInv
    BY PrefixEmpty DEF Init, SnapshotInv, Log!Prefix
  <1>2. SaverInv /\ SaverInv' /\ SnapshotInv /\ [Next]_vars => SnapshotInv'
    BY SnapshotStep
  <1>3. QED
    BY <1>1, <1>2, SaverInvariant, PTL DEF Spec

LEMMA LogStep ==
    Restore = TRUE /\ SaverInv /\ SnapshotInv /\ SnapshotInv' /\ [Next]_vars => [Log!LogNext]_Log!logVars
  <1> USE StorageAssumption, SaverTypes
  <1> SUFFICES ASSUME Restore = TRUE, SaverInv, SnapshotInv, SnapshotInv', [Next]_vars
               PROVE  Log!LogNext \/ UNCHANGED <<mem, file, Alive>>
    BY DEF Log!logVars
  <1>1. CASE UNCHANGED vars \/ Stopped
    BY <1>1 DEF Stopped, vars, mainVars, Alive
  <1>2. ASSUME NEW p \in Savers, TakeSnapshot(p)
        PROVE  UNCHANGED <<mem, file, Alive>>
    BY <1>2 DEF TakeSnapshot, mainVars, Alive
  <1>3. ASSUME NEW p \in Savers, Rename(p)
        PROVE  Log!LogNext
    <2>1. Alive
      BY <1>3 DEF Rename, SaverInv
    <2>2. /\ Log!Prefix(file', mem) /\ mem' = mem
          /\ ~SyncWrites => Log!Prefix(file, file')
      BY <1>3 DEF Rename, SnapshotInv
    <2>3. Alive' = Alive
      <3>1. main' = main \/ (p = Main /\ main' = "leaving")
        BY <1>3 DEF Rename, ReturnSave, mainVars
      <3>2. QED
        BY <2>1, <3>1 DEF Alive
    <2>4. QED
      BY <2>1, <2>2, <2>3, Zenon DEF Log!LogNext, Log!Persist
  <1>4. ASSUME NEW p \in Savers, SaveFails(p)
        PROVE  UNCHANGED <<mem, file, Alive>>
    <2>1. Alive /\ UNCHANGED <<mem, file>>
      BY <1>4 DEF SaveFails, SaverInv
    <2>2. main' = main \/ (p = Main /\ main' = "leaving")
      BY <1>4 DEF SaveFails, ReturnSave, mainVars
    <2>3. QED
      BY <2>1, <2>2 DEF Alive
  <1>5. ASSUME NEW r \in Requests, Accept(r)
        PROVE  UNCHANGED <<mem, file, Alive>>
    BY <1>5 DEF Accept, mainVars, Alive
  <1>6. ASSUME NEW r \in Requests, Update(r)
        PROVE  Log!LogNext
    <2>1. Alive
      BY <1>6 DEF Update, SaverInv, InFlight
    <2>2. mem' = Append(mem, r) /\ UNCHANGED <<file, Alive>>
      BY <1>6 DEF Update, mainVars, Alive
    <2>3. QED
      BY <2>1, <2>2, Zenon DEF Log!LogNext, Log!Update
  <1>7. CASE Tick \/ StopTicker
    BY <1>7 DEF Tick, StopTicker, mainVars, Alive
  <1>8. CASE Cancel \/ ServeFails \/ ShutdownHTTP \/ Drained \/ ShutdownTimeout \/ Flush
    BY <1>8
    DEF Cancel, ServeFails, ShutdownHTTP, Drained, ShutdownTimeout, Flush, Alive
  <1>9. CASE Crash \/ Exit
    <2>1. Alive /\ Alive' = FALSE /\ UNCHANGED <<mem, file>>
      BY <1>9 DEF Crash, Exit, Alive
    <2>2. QED
      BY <2>1, Zenon DEF Log!LogNext, Log!Halt
  <1>10. CASE Start
    <2>1. ~Alive /\ Alive' /\ mem' = file /\ file' = file
      BY <1>10 DEF Start, Alive
    <2>2. QED
      BY <2>1, Zenon DEF Log!LogNext, Log!Recover
  <1>11. QED
    BY <1>1, <1>2, <1>3, <1>4, <1>5, <1>6, <1>7, <1>8, <1>9, <1>10
    DEF Next, SaveStep, MainStep

\* With restoring switched on the file storage implements DurableLog, in both
\* modes (ImplementsDurableLog).
THEOREM DurableLogImplemented == Restore = TRUE => (Spec => ImplementsDurableLog)
  <1> SUFFICES ASSUME Restore = TRUE
               PROVE  Spec => ImplementsDurableLog
    OBVIOUS
  <1> USE StorageAssumption, SaverTypes
  <1>1. Init => Log!LogInit
    BY DEF Init, Log!LogInit, Alive
  <1>2. SaverInv /\ SnapshotInv /\ SnapshotInv' /\ [Next]_vars => [Log!LogNext]_Log!logVars
    BY LogStep
  <1>3. QED
    BY <1>1, <1>2, SaverInvariant, SnapshotInvariant, PTL
    DEF Spec, ImplementsDurableLog, Log!LogSpec

----------------------------------------------------------------------------
(* A clean exit.                                                           *)

LEMMA DrainStep == SaverInv /\ DrainInv /\ [Next]_vars => DrainInv'
  <1> USE StorageAssumption, SaverTypes
  <1> SUFFICES ASSUME SaverInv, DrainInv, [Next]_vars
               PROVE  DrainInv'
    OBVIOUS
  <1>1. /\ save \in [Savers -> {"idle", "begin", "rename"}]
        /\ snap \in [Savers -> Seq(Requests)]
        /\ req \in [Requests -> {"new", "handling", "saving", "acked", "failed", "lost"}]
    BY DEF SaverInv, TypeOK
  <1>2. CASE UNCHANGED vars \/ Stopped
    BY <1>2 DEF Stopped, vars, mainVars, saveVars, DrainInv, Alive, InFlight
  <1>3. ASSUME NEW p \in Savers, TakeSnapshot(p)
        PROVE  DrainInv'
    BY <1>1, <1>3 DEF TakeSnapshot, mainVars, DrainInv, Alive, InFlight, SaverInv
  <1>4. ASSUME NEW p \in Savers, Rename(p)
        PROVE  DrainInv'
    <2>1. CASE p \in Requests
      <3>1. /\ req[p] = "saving" /\ InFlight(p) /\ main # "exited"
            /\ graceful => main # "leaving"
        BY <1>4, <2>1 DEF Rename, SaverInv, TypeOK, InFlight, Alive, DrainInv
      <3>2. QED
        BY <1>1, <1>4, <2>1, <3>1
        DEF Rename, ReturnSave, EndSave, mainVars, DrainInv, InFlight
    <2>2. CASE p = Ticker
      <3>1. main \notin {"leaving", "exited"}
        BY <1>4, <2>2 DEF Rename, SaverInv, TypeOK, Alive
      <3>2. QED
        BY <1>1, <1>4, <2>2, <3>1
        DEF Rename, ReturnSave, EndSave, mainVars, DrainInv, InFlight
    <2>3. CASE p = Main
      <3>1. main = "flush" /\ save[Main] = "rename"
        BY <1>4, <2>3 DEF Rename, SaverInv, TypeOK
      <3>2. QED
        BY <1>1, <1>4, <2>3, <3>1
        DEF Rename, ReturnSave, EndSave, DrainInv, InFlight
    <2>4. QED
      BY <2>1, <2>2, <2>3 DEF Savers
  <1>5. ASSUME NEW p \in Savers, SaveFails(p)
        PROVE  DrainInv'
    <2>1. main # "exited" /\ (p = Main => main = "flush")
      BY <1>5 DEF SaveFails, SaverInv, TypeOK, Alive
    <2>2. QED
      BY <1>1, <1>5, <2>1
      DEF SaveFails, ReturnSave, EndSave, mainVars, DrainInv, InFlight
  <1>6. ASSUME NEW r \in Requests, Accept(r)
        PROVE  DrainInv'
    <2>1. graceful => main \notin {"persist", "flush", "leaving", "exited"}
      BY <1>6 DEF Accept, DrainInv, Alive
    <2>2. QED
      BY <1>6, <2>1 DEF Accept, mainVars, DrainInv
  <1>7. ASSUME NEW r \in Requests, Update(r)
        PROVE  DrainInv'
    <2>1. InFlight(r) /\ Alive
      BY <1>7 DEF Update, InFlight, SaverInv
    <2>2. graceful => main \notin {"persist", "flush", "leaving", "exited"}
      BY <2>1 DEF DrainInv
    <2>3. QED
      BY <1>7, <2>1, <2>2 DEF Update, mainVars, DrainInv, Alive
  <1>8. CASE Tick \/ StopTicker
    <2>1. main # "flush"
      BY <1>8 DEF Tick, StopTicker, SaverInv
    <2>2. QED
      BY <1>1, <1>8, <2>1
      DEF Tick, StopTicker, BeginSave, mainVars, DrainInv, Alive, InFlight
  <1>9. CASE Cancel \/ ServeFails \/ ShutdownHTTP \/ Drained \/ ShutdownTimeout
    BY <1>9
    DEF Cancel, ServeFails, ShutdownHTTP, Drained, ShutdownTimeout, DrainInv, Alive, InFlight
  <1>10. CASE Flush
    BY <1>1, <1>10 DEF Flush, BeginSave, DrainInv, Alive, InFlight
  <1>11. CASE Crash \/ Exit
    BY <1>1, <1>11 DEF Crash, Exit, Gone, DrainInv, InFlight
  <1>12. CASE Start
    BY <1>12 DEF Start, DrainInv, Alive
  <1>13. QED
    BY <1>2, <1>3, <1>4, <1>5, <1>6, <1>7, <1>8, <1>9, <1>10, <1>11, <1>12
    DEF Next, SaveStep, MainStep

\* After a shutdown without timeout the file holds everything memory held
\* (CleanExitIsComplete).
THEOREM CleanExitIsCompleteHolds == Spec => []CleanExitIsComplete
  <1> USE StorageAssumption, SaverTypes
  <1>1. Init => DrainInv
    BY DEF Init, DrainInv, InFlight
  <1>2. SaverInv /\ DrainInv /\ [Next]_vars => DrainInv'
    BY DrainStep
  <1>3. DrainInv => CleanExitIsComplete
    BY DEF DrainInv, CleanExitIsComplete
  <1>4. QED
    BY <1>1, <1>2, <1>3, SaverInvariant, PTL DEF Spec

----------------------------------------------------------------------------
(* Saves that do not overlap.                                              *)

Has(s, r) == \E i \in 1..Len(s) : s[i] = r

\* While no two calls of Save have overlapped there is one saver at a time; what
\* it holds extends the file, and a handler that saves finds its own update in
\* memory and in its snapshot.
SerialInv ==
    ~overlapped =>
        /\ \A p, q \in Savers : save[p] # "idle" /\ save[q] # "idle" => p = q
        /\ \A p \in Savers : save[p] = "rename" => Log!Prefix(file, snap[p])
        /\ \A r \in Requests : req[r] = "saving" => Has(mem, r)
        /\ \A r \in Requests : save[r] = "rename" => Has(snap[r], r)
        /\ \A r \in Requests : Acked(r) => Has(file, r)

LEMMA HasAppend ==
    ASSUME NEW S, NEW s \in Seq(S), NEW e \in S
    PROVE  /\ Has(Append(s, e), e)
           /\ \A r \in S : Has(s, r) => Has(Append(s, e), r)
  <1>1. /\ Len(Append(s, e)) = Len(s) + 1 /\ Len(s) \in Nat
        /\ Append(s, e)[Len(s) + 1] = e
        /\ \A i \in 1..Len(s) : Append(s, e)[i] = s[i]
    OBVIOUS
  <1>2. Len(s) + 1 \in 1..Len(Append(s, e)) /\ 1..Len(s) \subseteq 1..Len(Append(s, e))
    BY <1>1
  <1>3. QED
    BY <1>1, <1>2, Zenon DEF Has

LEMMA HasExtended ==
    ASSUME NEW S, NEW s \in Seq(S), NEW t \in Seq(S), NEW r, Log!Prefix(s, t), Has(s, r)
    PROVE  Has(t, r)
  BY DEF Log!Prefix, Has

LEMMA SerialStep ==
    Restore = TRUE /\ SyncWrites = TRUE /\ SaverInv /\ SaverInv' /\ SnapshotInv /\ SerialInv /\ [Next]_vars
    => SerialInv'
  <1> USE StorageAssumption, SaverTypes
  <1> SUFFICES ASSUME Restore = TRUE, SyncWrites = TRUE, SaverInv, SaverInv',
                      SnapshotInv, SerialInv, [Next]_vars, ~overlapped'
               PROVE  SerialInv'
    BY DEF SerialInv
  <1>1. /\ save \in [Savers -> {"idle", "begin", "rename"}]
        /\ snap \in [Savers -> Seq(Requests)]
        /\ mem \in Seq(Requests) /\ file \in Seq(Requests)
        /\ req \in [Requests -> {"new", "handling", "saving", "acked", "failed", "lost"}]
        /\ Log!Prefix(file, mem)
    BY DEF SaverInv, TypeOK, SnapshotInv
  <1>2. CASE UNCHANGED vars \/ Stopped
    BY <1>2 DEF Stopped, vars, saveVars, SerialInv, Acked
  <1>3. ASSUME NEW p \in Savers, TakeSnapshot(p)
        PROVE  SerialInv'
    <2>1. /\ save[p] = "begin" /\ UNCHANGED <<mem, file, req, overlapped>>
          /\ \A q \in Savers : save'[q] # "idle" => save[q] # "idle"
          /\ \A q \in Savers : save'[q] = "rename" =>
                \/ q = p /\ snap'[q] = mem
                \/ save[q] = "rename" /\ snap'[q] = snap[q]
      BY <1>1, <1>3 DEF TakeSnapshot
    <2>2. p \in Requests => req[p] = "saving"
      BY <2>1 DEF SaverInv, TypeOK
    <2>3. QED
      BY <1>1, <2>1, <2>2 DEF SerialInv, Acked
  <1>4. ASSUME NEW p \in Savers, NEW ok \in BOOLEAN, ReturnSave(p, ok),
               overlapped' = overlapped, save[p] # "idle"
        PROVE  /\ \A q \in Savers : save'[q] = "idle"
               /\ \A r \in Requests : req'[r] # "saving"
               /\ \A r \in Requests : req'[r] = "acked" =>
                     req[r] = "acked" \/ (r = p /\ ok)
    <2>1. \A q \in Savers : save[q] # "idle" => q = p
      BY <1>4 DEF SerialInv
    <2>2. \A q \in Savers : save'[q] = "idle"
      BY <1>1, <1>4, <2>1 DEF ReturnSave, EndSave
    <2>3. \A r \in Requests : req'[r] # "saving"
      BY <2>2 DEF SaverInv, TypeOK
    <2>4. \A r \in Requests : req'[r] = "acked" => req[r] = "acked" \/ (r = p /\ ok)
      BY <1>1, <1>4 DEF ReturnSave
    <2>5. QED
      BY <2>2, <2>3, <2>4
  <1>5. ASSUME NEW p \in Savers, Rename(p)
        PROVE  SerialInv'
    <2>1. /\ save[p] = "rename" /\ file' = snap[p] /\ mem' = mem
          /\ overlapped' = overlapped /\ ReturnSave(p, TRUE)
      BY <1>5 DEF Rename
    <2>2. /\ Log!Prefix(file, snap[p]) /\ (p \in Requests => Has(snap[p], p))
          /\ \A r \in Requests : Acked(r) => Has(file, r)
      BY <2>1 DEF SerialInv
    <2>3. \A r \in Requests : Acked(r) => Has(snap[p], r)
      BY <1>1, <2>2, HasExtended
    <2>4. \A r \in Requests : req'[r] = "acked" => Has(file', r)
      BY <1>4, <2>1, <2>2, <2>3 DEF Acked
    <2>5. QED
      BY <1>4, <2>1, <2>4 DEF SerialInv, Acked
  <1>6. ASSUME NEW p \in Savers, SaveFails(p)
        PROVE  SerialInv'
    <2>1. /\ save[p] # "idle" /\ UNCHANGED <<mem, file, overlapped>>
          /\ ReturnSave(p, FALSE)
      BY <1>6 DEF SaveFails
    <2>2. QED
      BY <1>4, <2>1 DEF SerialInv, Acked
  <1>7. ASSUME NEW r \in Requests, Accept(r)
        PROVE  SerialInv'
    <2>1. /\ UNCHANGED <<mem, file, save, snap, overlapped>>
          /\ \A q \in Requests : req'[q] \in {"saving", "acked"} => req'[q] = req[q]
      BY <1>1, <1>7 DEF Accept, saveVars
    <2>2. QED
      BY <2>1 DEF SerialInv, Acked
  <1>8. ASSUME NEW p \in Savers, BeginSave(p)
        PROVE  /\ ~overlapped
               /\ \A q \in Savers : save'[q] # "idle" => q = p /\ save'[q] = "begin"
    BY <1>1, <1>8 DEF BeginSave
  <1>9. ASSUME NEW r \in Requests, Update(r)
        PROVE  SerialInv'
    <2>1. /\ mem' = Append(mem, r) /\ file' = file /\ BeginSave(r)
          /\ req' = [req EXCEPT ![r] = "saving"]
      BY <1>9 DEF Update
    <2>2. /\ Has(mem', r)
          /\ \A q \in Requests : Has(mem, q) => Has(mem', q)
      BY <1>1, <2>1, HasAppend
    <2>3. \A q \in Requests : req'[q] = "saving" => Has(mem', q)
      BY <1>1, <1>8, <2>1, <2>2 DEF SerialInv
    <2>4. \A q \in Requests : req'[q] = "acked" => Has(file', q)
      BY <1>1, <1>8, <2>1 DEF SerialInv, Acked
    <2>5. QED
      BY <1>8, <2>1, <2>3, <2>4 DEF SerialInv, Acked
  <1>10. CASE Tick \/ StopTicker \/ Flush
    <2>1. PICK p \in Savers : BeginSave(p) /\ UNCHANGED <<mem, file, req>>
      BY <1>10 DEF Tick, StopTicker, Flush
    <2>2. QED
      BY <1>8, <2>1 DEF SerialInv, Acked
  <1>11. CASE Cancel \/ ServeFails \/ ShutdownHTTP \/ Drained \/ ShutdownTimeout
    BY <1>11
    DEF Cancel, ServeFails, ShutdownHTTP, Drained, ShutdownTimeout, saveVars,
        SerialInv, Acked
  <1>12. CASE Crash \/ Exit
    <2>1. /\ UNCHANGED <<mem, file, overlapped>>
          /\ \A q \in Savers : save'[q] = "idle"
          /\ \A r \in Requests : req'[r] # "saving"
          /\ \A r \in Requests : req'[r] = "acked" => req[r] = "acked"
      BY <1>1, <1>12 DEF Crash, Exit, Gone, InFlight
    <2>2. QED
      BY <2>1 DEF SerialInv, Acked
  <1>13. CASE Start
    <2>1. /\ UNCHANGED <<file, req, save, snap, overlapped>>
          /\ \A q \in Savers : save[q] = "idle"
          /\ \A r \in Requests : req[r] # "saving"
      BY <1>13 DEF Start, saveVars, SaverInv, InFlight
    <2>2. QED
      BY <2>1 DEF SerialInv, Acked
  <1>14. QED
    BY <1>2, <1>3, <1>5, <1>6, <1>7, <1>9, <1>10, <1>11, <1>12, <1>13
    DEF Next, SaveStep, MainStep

\* With restoring on and a save on every update, an update that the storage
\* acknowledged is in the file while saves do not overlap
\* (SerialSavesAreDurable), across failed saves, crashes and restarts.
THEOREM SerialSavesAreDurableHolds ==
    Restore = TRUE /\ SyncWrites = TRUE => (Spec => []SerialSavesAreDurable)
  <1> SUFFICES ASSUME Restore = TRUE, SyncWrites = TRUE
               PROVE  Spec => []SerialSavesAreDurable
    OBVIOUS
  <1> USE StorageAssumption, SaverTypes
  <1>1. Init => SerialInv
    BY DEF Init, SerialInv, Acked
  <1>2. SaverInv /\ SaverInv' /\ SnapshotInv /\ SerialInv /\ [Next]_vars => SerialInv'
    BY SerialStep
  <1>3. SerialInv => SerialSavesAreDurable
    BY DEF SerialInv, SerialSavesAreDurable, InFile, Has
  <1>4. QED
    BY <1>1, <1>2, <1>3, SaverInvariant, SnapshotInvariant, PTL DEF Spec

----------------------------------------------------------------------------
(* The server.                                                             *)

AuditThm == INSTANCE AuditPublisherProofs WITH
               Events <- Requests, main <- deferred, file <- auditFile

----------------------------------------------------------------------------
(* The storage in the server.                                              *)

\* Steps of handlers, of the ticker and of main.
StorageStep ==
    \/ \E r \in Requests : Accept(r) \/ Update(r) \/ SaveStep(r)
    \/ Tick \/ StopTicker \/ SaveStep(Ticker)
    \/ Cancel \/ ServeFails
    \/ ShutdownHTTP \/ (Drained /\ HandlersDone) \/ ShutdownTimeout \/ Flush \/ SaveStep(Main)
    \/ (Exit /\ ~Fatal /\ deferred = "returned")
    \/ UNCHANGED vars

\* Steps of the publisher while the storage stands still.
PublisherStep ==
    /\ \/ \E r \in Requests : BeginPublish(r) \/ PublishStep(r)
       \/ \E o \in Audit!Observers : ObserverStep(o)
       \/ BeginClose \/ CloseStep
    /\ UNCHANGED <<vars, answered, doomed>>

\* The process ends without leave.
Death == (Crash \/ (Exit /\ Fatal)) /\ Abort

LEMMA ServerMoves ==
    ASSUME [ServerNext]_serverVars
    PROVE  \/ StorageStep /\ UNCHANGED auditVars
           \/ PublisherStep
           \/ \E r \in Requests : AnswerLeaves(r)
           \/ Death \/ ServerStart
  <1>1. CASE UNCHANGED serverVars
    BY <1>1 DEF serverVars, StorageStep
  <1>2. ASSUME NEW r \in Requests, HandlerStep(r)
        PROVE  StorageStep /\ UNCHANGED auditVars
    BY <1>2 DEF HandlerStep, StorageStep
  <1>3. ASSUME NEW r \in Requests, BeginPublish(r) \/ PublishStep(r)
        PROVE  PublisherStep
    BY <1>3, Zenon DEF BeginPublish, PublishStep, PublisherStep
  <1>4. ASSUME NEW o \in Audit!Observers, ObserverStep(o)
        PROVE  PublisherStep
    BY <1>4, Zenon DEF ObserverStep, PublisherStep
  <1>5. CASE TickerStep \/ Signal
    BY <1>5 DEF TickerStep, Signal, StorageStep
  <1>6. CASE MainGoesOn
    <2>1. CASE (ShutdownHTTP \/ ShutdownTimeout \/ Flush \/ SaveStep(Main)) /\ UNCHANGED auditVars
      BY <2>1 DEF StorageStep
    <2>2. CASE ServerDrained
      BY <2>2 DEF ServerDrained, StorageStep
    <2>3. CASE ServerExit
      BY <2>3, Zenon DEF ServerExit, StorageStep, Death
    <2>4. CASE BeginClose
      BY <2>4, Zenon DEF BeginClose, PublisherStep
    <2>5. CASE CloseStep
      BY <2>5, Zenon DEF CloseStep, PublisherStep
    <2>6. QED
      BY <1>6, <2>1, <2>2, <2>3, <2>4, <2>5 DEF MainGoesOn
  <1>7. CASE ServerCrash
    BY <1>7 DEF ServerCrash, Death
  <1>8. CASE Ended
    BY <1>8 DEF Ended, serverVars, StorageStep
  <1>9. QED
    BY <1>1, <1>2, <1>3, <1>4, <1>5, <1>6, <1>7, <1>8 DEF ServerNext

\* To the storage every step of the server is one of its own, or none.
LEMMA StorageMoves ==
    ASSUME [ServerNext]_serverVars
    PROVE  [Next]_vars
  <1>1. CASE StorageStep
    BY <1>1 DEF StorageStep, Next, MainStep, Savers
  <1>2. CASE PublisherStep
    BY <1>2 DEF PublisherStep
  <1>3. CASE \E r \in Requests : AnswerLeaves(r)
    BY <1>3 DEF AnswerLeaves
  <1>4. CASE Death
    BY <1>4 DEF Death, Next, MainStep
  <1>5. CASE ServerStart
    BY <1>5 DEF ServerStart, Next
  <1>6. QED
    BY <1>1, <1>2, <1>3, <1>4, <1>5, ServerMoves

LEMMA ServerSaver == ServerSpec => [](SaverInv /\ DrainInv)
  <1>1. ServerInit => SaverInv /\ DrainInv
    BY SaverInit DEF ServerInit, Init, DrainInv, InFlight
  <1>2. SaverInv /\ DrainInv /\ [ServerNext]_serverVars => (SaverInv /\ DrainInv)'
    BY StorageMoves, SaverStep, DrainStep
  <1>3. QED
    BY <1>1, <1>2, PTL DEF ServerSpec

LEMMA ServerSnapshot == Restore = TRUE => (ServerSpec => []SnapshotInv)
  <1> SUFFICES ASSUME Restore = TRUE
               PROVE  ServerSpec => []SnapshotInv
    OBVIOUS
  <1>1. ServerInit => SnapshotInv
    BY PrefixEmpty DEF ServerInit, Init, SnapshotInv, Log!Prefix
  <1>2. SaverInv /\ SaverInv' /\ SnapshotInv /\ [ServerNext]_serverVars => SnapshotInv'
    BY StorageMoves, SnapshotStep
  <1>3. QED
    BY <1>1, <1>2, ServerSaver, PTL DEF ServerSpec

\* The storage of the whole server, its deferred calls included, implements
\* DurableLog (ImplementsDurableLog) when it restores.
THEOREM ServerImplementsDurableLog ==
    Restore = TRUE => (ServerSpec => ImplementsDurableLog)
  <1> SUFFICES ASSUME Restore = TRUE
               PROVE  ServerSpec => ImplementsDurableLog
    OBVIOUS
  <1>1. ServerInit => Log!LogInit
    BY DEF ServerInit, Init, Log!LogInit, Alive
  <1>2. SaverInv /\ SnapshotInv /\ SnapshotInv' /\ [ServerNext]_serverVars
        => [Log!LogNext]_Log!logVars
    BY StorageMoves, LogStep
  <1>3. QED
    BY <1>1, <1>2, ServerSaver, ServerSnapshot, PTL
    DEF ServerSpec, ImplementsDurableLog, Log!LogSpec

LEMMA ServerSerial ==
    Restore = TRUE /\ SyncWrites = TRUE => (ServerSpec => []SerialInv)
  <1> SUFFICES ASSUME Restore = TRUE, SyncWrites = TRUE
               PROVE  ServerSpec => []SerialInv
    OBVIOUS
  <1>1. ServerInit => SerialInv
    BY StorageAssumption, SaverTypes DEF ServerInit, Init, SerialInv, Acked
  <1>2. SaverInv /\ SaverInv' /\ SnapshotInv /\ SerialInv /\ [ServerNext]_serverVars
        => SerialInv'
    BY StorageMoves, SerialStep
  <1>3. QED
    BY <1>1, <1>2, ServerSaver, ServerSnapshot, PTL DEF ServerSpec

\* In the whole server, too, an acknowledged update is in the file as long as no
\* two calls of Save have overlapped (SerialSavesAreDurable).
THEOREM ServerSerialSaves ==
    Restore = TRUE /\ SyncWrites = TRUE => (ServerSpec => []SerialSavesAreDurable)
  <1> SUFFICES ASSUME Restore = TRUE, SyncWrites = TRUE
               PROVE  ServerSpec => []SerialSavesAreDurable
    OBVIOUS
  <1>1. SerialInv => SerialSavesAreDurable
    BY DEF SerialInv, SerialSavesAreDurable, InFile, Has
  <1>2. QED
    BY <1>1, ServerSerial, PTL

----------------------------------------------------------------------------
(* The publisher in the server.                                            *)

LEMMA Assumed == AuditThm!AuditAssumption
  BY ServerAssumption DEF AuditThm!AuditAssumption, AuditThm!Observers

LEMMA SameObservers == Audit!Observers = AuditThm!Observers
  BY DEF Audit!Observers, AuditThm!Observers

\* The actions of the instance here are those of the instance of the proofs.
LEMMA SamePublish ==
    ASSUME NEW r \in Requests
    PROVE  /\ Audit!CallPublish(r) => AuditThm!CallPublish(r)
           /\ Audit!RLock(r) => AuditThm!RLock(r)
           /\ Audit!CheckClosed(r) => AuditThm!CheckClosed(r)
           /\ Audit!Offer(r) => AuditThm!Offer(r)
           /\ Audit!RUnlock(r) => AuditThm!RUnlock(r)
  BY Zenon
  DEF Audit!CallPublish, AuditThm!CallPublish, Audit!LockFree, AuditThm!LockFree,
      Audit!RLock, AuditThm!RLock, Audit!CheckClosed, AuditThm!CheckClosed,
      Audit!Offer, AuditThm!Offer, Audit!RUnlock, AuditThm!RUnlock,
      Audit!Observers, AuditThm!Observers, Audit!workerVars, AuditThm!workerVars

LEMMA SameRun ==
    ASSUME NEW o \in Audit!Observers, Audit!Run(o)
    PROVE  AuditThm!Run(o)
  <1> USE DEF Audit!publishVars, AuditThm!publishVars,
              Audit!ReturnNotify, AuditThm!ReturnNotify
  <1>1. Audit!TakeEvent(o) => AuditThm!TakeEvent(o)
    BY Zenon DEF Audit!TakeEvent, AuditThm!TakeEvent
  <1>2. Audit!ExitWorker(o) => AuditThm!ExitWorker(o)
    BY Zenon DEF Audit!ExitWorker, AuditThm!ExitWorker
  <1>3. Audit!NotifyFile(o) => AuditThm!NotifyFile(o)
    BY Zenon DEF Audit!NotifyFile, AuditThm!NotifyFile
  <1>4. Audit!NotifyHTTP(o) => AuditThm!NotifyHTTP(o)
    BY Zenon DEF Audit!NotifyHTTP, AuditThm!NotifyHTTP
  <1>5. Audit!RetryHTTP(o) => AuditThm!RetryHTTP(o)
    BY Zenon DEF Audit!RetryHTTP, AuditThm!RetryHTTP
  <1>6. QED
    BY <1>1, <1>2, <1>3, <1>4, <1>5, Zenon DEF Audit!Run, AuditThm!Run

LEMMA SameClose ==
    /\ Audit!BeginClose => AuditThm!BeginClose
    /\ Audit!Close => AuditThm!Close
  BY Zenon
  DEF Audit!BeginClose, AuditThm!BeginClose, Audit!Close, AuditThm!Close,
      Audit!CloseQueues, AuditThm!CloseQueues, Audit!EndClose, AuditThm!EndClose,
      Audit!CloseFile, AuditThm!CloseFile, Audit!Readers, AuditThm!Readers,
      Audit!WorkersDone, AuditThm!WorkersDone, Audit!Observers, AuditThm!Observers,
      Audit!publishVars, AuditThm!publishVars, Audit!workerVars, AuditThm!workerVars

\* Every step of the publisher in the server is one of AuditPublisher.
LEMMA PublisherMoves == PublisherStep => AuditThm!Next
  <1>1. ASSUME NEW r \in Requests, BeginPublish(r) \/ PublishStep(r)
        PROVE  AuditThm!Next
    BY <1>1, SamePublish, Zenon
    DEF BeginPublish, PublishStep, AuditThm!Next, AuditThm!Publish, AuditThm!PublishGoesOn
  <1>2. ASSUME NEW o \in Audit!Observers, ObserverStep(o)
        PROVE  AuditThm!Next
    BY <1>2, SameRun, SameObservers, Zenon DEF ObserverStep, AuditThm!Next
  <1>3. CASE BeginClose \/ CloseStep
    BY <1>3, SameClose, Zenon DEF BeginClose, CloseStep, AuditThm!Next
  <1>4. QED
    BY <1>1, <1>2, <1>3, Zenon DEF PublisherStep

\* A new process starts with a publisher of its own; what the publishers have
\* notified is kept.
LEMMA FreshPublisher ==
    ASSUME AuditThm!AuditInv, NewPublisher
    PROVE  AuditThm!AuditInv' /\ AuditThm!AcceptedInOrder'
  <1> USE SameObservers, Assumed DEF AuditThm!AuditAssumption
  <1>1. AuditThm!TypeOK /\ AuditThm!NoSendOnClosed /\ AuditThm!NothingRefused
    BY DEF AuditThm!AuditInv, AuditThm!LockInv, AuditThm!CloseInv
  <1>2. /\ closed' = FALSE /\ auditFile' = TRUE /\ deferred' = "serving"
        /\ UNCHANGED <<pos, panicked, notified, handed, refused>>
    BY Zenon DEF NewPublisher
  <1>3. /\ queue' = [o \in AuditThm!Observers |-> <<>>]
        /\ current' = [o \in AuditThm!Observers |-> <<>>]
        /\ worker' = [o \in AuditThm!Observers |-> "idle"]
        /\ attempt' = [o \in AuditThm!Observers |-> 0]
        /\ accepted' = notified
        /\ pub' = [r \in Requests |-> IF Acked(r) THEN "done" ELSE pub[r]]
    BY DEF NewPublisher
  <1>4. /\ <<>> \in Seq(Requests) /\ Len(<<>>) = 0
        /\ 0 \in 0..MaxAttempts /\ 0 <= QueueSize
    OBVIOUS
  <1>5. closed' \in BOOLEAN /\ auditFile' \in BOOLEAN
    BY <1>2
  <1>6. /\ queue' \in [AuditThm!Observers -> Seq(Requests)]
        /\ \A o \in AuditThm!Observers : queue'[o] = <<>> /\ current'[o] = <<>>
        /\ \A o \in AuditThm!Observers : Len(queue'[o]) <= QueueSize
        /\ current' \in [AuditThm!Observers -> Seq(Requests)]
        /\ worker' \in [AuditThm!Observers -> {"idle", "notify", "exited"}]
        /\ attempt' \in [AuditThm!Observers -> 0..MaxAttempts]
    BY <1>3, <1>4
  <1>7. pub' \in [Requests -> {"new", "asking", "check", "send", "done"}]
    BY <1>1, <1>3 DEF AuditThm!TypeOK
  <1>8. AuditThm!TypeOK'
    BY <1>1, <1>2, <1>3, <1>5, <1>6, <1>7 DEF AuditThm!TypeOK
  <1>9. AuditThm!LockInv' /\ AuditThm!CloseInv'
    BY <1>1, <1>2
    DEF AuditThm!LockInv, AuditThm!CloseInv, AuditThm!NoSendOnClosed, AuditThm!NothingRefused
  <1>10. AuditThm!RunInv'
    BY <1>3 DEF AuditThm!RunInv
  <1>11. AuditThm!AcceptedInOrder'
    <2>1. \A s \in Seq(Requests) : s = s \o <<>> \o <<>>
      OBVIOUS
    <2>2. \A o \in AuditThm!Observers : notified[o] \in Seq(Requests)
      BY <1>1 DEF AuditThm!TypeOK
    <2>3. QED
      BY <1>2, <1>3, <1>6, <2>1, <2>2 DEF AuditThm!AcceptedInOrder
  <1>12. QED
    BY <1>8, <1>9, <1>10, <1>11 DEF AuditThm!AuditInv

PublisherInv == AuditThm!AuditInv /\ AuditThm!AcceptedInOrder

LEMMA PublisherKeeps == PublisherInv /\ [ServerNext]_serverVars => PublisherInv'
  <1> SUFFICES ASSUME PublisherInv, [ServerNext]_serverVars
               PROVE  PublisherInv'
    OBVIOUS
  <1> USE Assumed
  <1>1. CASE UNCHANGED auditVars
    BY <1>1, AuditThm!AuditStep, AuditThm!OrderStep
    DEF PublisherInv, auditVars, AuditThm!vars, AuditThm!publishVars, AuditThm!workerVars
  <1>2. CASE PublisherStep
    BY <1>2, PublisherMoves, AuditThm!AuditStep, AuditThm!OrderStep DEF PublisherInv
  <1>3. CASE NewPublisher
    BY <1>3, FreshPublisher DEF PublisherInv
  <1>4. CASE \E r \in Requests : AnswerLeaves(r)
    <2>1. UNCHANGED AuditThm!vars
      BY <1>4, Zenon
      DEF AnswerLeaves, AuditThm!vars, AuditThm!publishVars, AuditThm!workerVars
    <2>2. QED
      BY <2>1, AuditThm!AuditStep, AuditThm!OrderStep DEF PublisherInv
  <1>5. QED
    BY <1>1, <1>2, <1>3, <1>4, ServerMoves, Zenon DEF Death, Abort, ServerStart

LEMMA ServerPublisher == ServerSpec => []PublisherInv
  <1> USE Assumed
  <1>1. ServerInit => AuditThm!Init
    BY Zenon DEF ServerInit, Audit!Init, AuditThm!Init, Audit!Observers, AuditThm!Observers
  <1>2. AuditThm!Init => AuditThm!AcceptedInOrder
    BY DEF AuditThm!Init, AuditThm!AcceptedInOrder
  <1>3. ServerInit => PublisherInv
    BY <1>1, <1>2, AuditThm!AuditInit DEF PublisherInv
  <1>4. QED
    BY <1>3, PublisherKeeps, PTL DEF ServerSpec

----------------------------------------------------------------------------
(* Handlers, main and the publisher.                                       *)

\* The queue of o had no room for the event of r, or took it.
Reached(o, r) == r \in missed[o] \/ Has(accepted[o], r)

\* What waits in a queue or has been handed to an observer was acknowledged.
QueuedAcked ==
    \A o \in Audit!Observers :
        /\ \A i \in 1..Len(queue[o]) : Acked(queue[o][i])
        /\ \A r \in handed[o] : Acked(r)

\* A handler publishes once the storage has acknowledged its update; no handler
\* outlives its process.
PublishInv ==
    /\ answered \subseteq Requests /\ doomed \subseteq Requests
    /\ missed \in [Audit!Observers -> SUBSET Requests]
    /\ \A r \in Requests : pub[r] # "new" => Acked(r)
    /\ \A r \in Requests : pub[r] \in {"new", "asking", "check"} => pos[r] = 1
    /\ \A r \in doomed : pub[r] = "done"
    /\ QueuedAcked

\* When main is past the drain of the HTTP server no handler is busy; the
\* deferred calls are for a main that returns, all others leave their requests
\* doomed.
EndInv ==
    /\ deferred # "serving" => main \in {"leaving", "exited"} /\ graceful
    /\ main = "exited" /\ graceful => deferred = "returned"
    /\ graceful /\ main \in {"persist", "flush", "leaving", "exited"} => HandlersDone
    /\ main = "down" \/ (main = "exited" /\ ~graceful) =>
          \A r \in Requests : Acked(r) => r \in doomed

\* What a handler has behind it in Publish has reached the observers.
ReachedInv ==
    \A o \in Audit!Observers, r \in Requests :
        ( /\ Acked(r) /\ r \notin doomed
          /\ pub[r] = "done" \/ (pub[r] = "send" /\ o < pos[r]) )
        => Reached(o, r)

\* What a step of the storage does to requests and to main.
LEMMA StorageStepFacts ==
    ASSUME SaverInv, DrainInv, StorageStep
    PROVE  /\ \A r \in Requests : Acked(r) => Acked(r)'
           /\ \A r \in Requests : Acked(r)' => Acked(r) \/ InFlight(r)
           /\ main = "exited" => main' = "exited" /\ graceful' = graceful
           /\ main = "leaving" => main' \in {"leaving", "exited"} /\ graceful' = graceful
           /\ main' = "down" => main = "down"
           /\ main' = "exited" /\ main # "exited" =>
                 main = "leaving" /\ graceful /\ deferred = "returned"
           /\ graceful' /\ main' \in {"persist", "flush", "leaving"} =>
                 /\ graceful
                 /\ main \in {"persist", "flush", "leaving"} \/ HandlersDone
           /\ graceful /\ main \in {"persist", "flush", "leaving", "exited"} =>
                 \A r \in Requests : ~InFlight(r)
           /\ graceful' /\ main' \in {"persist", "flush", "leaving", "exited"} =>
                 \A r \in Requests : ~InFlight(r)'
  <1> USE StorageAssumption, SaverTypes
  <1>1. /\ req \in [Requests -> {"new", "handling", "saving", "acked", "failed", "lost"}]
        /\ main \in {"serving", "draining", "persist", "flush", "leaving", "exited", "down"}
        /\ graceful \in BOOLEAN
    BY DEF SaverInv, TypeOK
  <1>2. graceful /\ main \in {"persist", "flush", "leaving", "exited"} =>
           \A r \in Requests : ~InFlight(r)
    BY DEF DrainInv
  <1>3. DrainInv'
    <2>1. [Next]_vars
      BY DEF StorageStep, Next, MainStep, Savers
    <2>2. QED
      BY <2>1, DrainStep
  <1>4. graceful' /\ main' \in {"persist", "flush", "leaving", "exited"} =>
           \A r \in Requests : ~InFlight(r)'
    BY <1>3 DEF DrainInv
  <1>5. ASSUME NEW r \in Requests, Accept(r) \/ Update(r)
        PROVE  /\ \A q \in Requests : Acked(q) => Acked(q)'
               /\ \A q \in Requests : Acked(q)' => Acked(q) \/ InFlight(q)
               /\ UNCHANGED <<main, graceful>>
    BY <1>1, <1>5 DEF Accept, Update, Acked, InFlight, mainVars
  <1>6. ASSUME NEW p \in Savers, SaveStep(p)
        PROVE  /\ \A q \in Requests : Acked(q) => Acked(q)'
               /\ \A q \in Requests : Acked(q)' => Acked(q) \/ InFlight(q)
               /\ UNCHANGED graceful
               /\ main' = main \/ (main = "flush" /\ main' = "leaving")
    <2>1. save[p] # "idle" /\ (p = Main => main = "flush")
      BY <1>6 DEF SaveStep, TakeSnapshot, Rename, SaveFails, SaverInv, TypeOK
    <2>2. p \in Requests => req[p] = "saving"
      BY <2>1 DEF SaverInv, TypeOK
    <2>3. CASE TakeSnapshot(p)
      BY <2>1, <2>3 DEF TakeSnapshot, Acked, mainVars
    <2>4. ASSUME NEW ok \in BOOLEAN, ReturnSave(p, ok)
          PROVE  /\ \A q \in Requests : Acked(q) => Acked(q)'
                 /\ \A q \in Requests : Acked(q)' => Acked(q) \/ InFlight(q)
                 /\ UNCHANGED graceful
                 /\ main' = main \/ (p = Main /\ main' = "leaving")
      BY <1>1, <2>2, <2>4 DEF ReturnSave, Acked, InFlight, mainVars
    <2>5. QED
      BY <1>6, <2>1, <2>3, <2>4 DEF SaveStep, Rename, SaveFails
  <1>7. CASE Tick \/ StopTicker \/ Cancel \/ ShutdownHTTP \/ UNCHANGED vars
    BY <1>1, <1>2, <1>4, <1>7
    DEF Tick, StopTicker, Cancel, ShutdownHTTP, Acked, mainVars, vars
  <1>8. CASE ServeFails \/ (Drained /\ HandlersDone) \/ ShutdownTimeout \/ Flush
    <2>1. CASE ServeFails
      BY <1>1, <1>2, <1>4, <2>1 DEF ServeFails, Acked
    <2>2. CASE Drained /\ HandlersDone
      <3>1. main = "draining" /\ main' = "persist" /\ UNCHANGED <<req, graceful>> /\ HandlersDone
        BY <2>2, Zenon DEF Drained
      <3>2. QED
        BY <1>1, <1>2, <1>4, <3>1 DEF Acked
    <2>3. CASE ShutdownTimeout \/ Flush
      BY <1>1, <1>2, <1>4, <2>3 DEF ShutdownTimeout, Flush, Acked
    <2>4. QED
      BY <1>8, <2>1, <2>2, <2>3
  <1>9. CASE Exit /\ ~Fatal /\ deferred = "returned"
    BY <1>1, <1>2, <1>4, <1>9 DEF Exit, Gone, Acked, InFlight, Fatal
  <1>10. CASE \E r \in Requests : Accept(r) \/ Update(r)
    BY <1>1, <1>2, <1>4, <1>5, <1>10
  <1>11. CASE \E p \in Savers : SaveStep(p)
    BY <1>1, <1>2, <1>4, <1>6, <1>11
  <1>12. QED
    BY <1>7, <1>8, <1>9, <1>10, <1>11, SaverTypes, Zenon DEF StorageStep

ServerInv == SaverInv /\ DrainInv /\ PublisherInv /\ PublishInv /\ EndInv /\ ReachedInv

LEMMA PublisherTypes ==
    ASSUME PublisherInv
    PROVE  /\ pub \in [Requests -> {"new", "asking", "check", "send", "done"}]
           /\ pos \in [Requests -> 1..(NumObservers + 1)]
           /\ accepted \in [Audit!Observers -> Seq(Requests)]
           /\ notified \in [Audit!Observers -> Seq(Requests)]
           /\ queue \in [Audit!Observers -> Seq(Requests)]
           /\ handed \in [Audit!Observers -> SUBSET Requests]
           /\ closed => deferred # "serving"
           /\ \A r \in Requests : pub[r] = "send" => ~closed
  BY SameObservers
  DEF PublisherInv, AuditThm!AuditInv, AuditThm!TypeOK, AuditThm!LockInv

\* Steps of the storage.
LEMMA StorageKeepsEnds ==
    ASSUME ServerInv, StorageStep, UNCHANGED auditVars
    PROVE  PublishInv' /\ EndInv' /\ ReachedInv'
  <1> USE DEF ServerInv
  <1>1. /\ \A r \in Requests : Acked(r) => Acked(r)'
        /\ \A r \in Requests : Acked(r)' => Acked(r) \/ InFlight(r)
        /\ main = "exited" => main' = "exited" /\ graceful' = graceful
        /\ main = "leaving" => main' \in {"leaving", "exited"} /\ graceful' = graceful
        /\ main' = "down" => main = "down"
        /\ main' = "exited" /\ main # "exited" =>
              main = "leaving" /\ graceful /\ deferred = "returned"
        /\ graceful' /\ main' \in {"persist", "flush", "leaving"} =>
              /\ graceful
              /\ main \in {"persist", "flush", "leaving"} \/ HandlersDone
        /\ graceful /\ main \in {"persist", "flush", "leaving", "exited"} =>
              \A r \in Requests : ~InFlight(r)
        /\ graceful' /\ main' \in {"persist", "flush", "leaving", "exited"} =>
              \A r \in Requests : ~InFlight(r)'
    BY StorageStepFacts
  <1>2. UNCHANGED <<pub, pos, accepted, queue, handed, missed, answered, doomed, deferred>>
    BY DEF auditVars
  <1>3. PublishInv'
    <2>1. \A o \in Audit!Observers :
             /\ \A i \in 1..Len(queue[o]) : queue[o][i] \in Requests
             /\ handed[o] \subseteq Requests
      BY PublisherTypes
    <2>2. QueuedAcked'
      BY <1>1, <1>2, <2>1 DEF PublishInv, QueuedAcked, Audit!Observers
    <2>3. QED
      BY <1>1, <1>2, <2>2 DEF PublishInv, Audit!Observers
  <1>4. ReachedInv'
    <2>1. \A r \in Requests : Acked(r)' /\ pub[r] # "new" => Acked(r)
      BY DEF PublishInv
    <2>2. QED
      BY <1>2, <2>1 DEF ReachedInv, Reached, Audit!Observers
  <1>5. EndInv'
    <2>1. /\ deferred' # "serving" => main' \in {"leaving", "exited"} /\ graceful'
          /\ main' = "exited" /\ graceful' => deferred' = "returned"
      BY <1>1, <1>2 DEF EndInv
    <2>2. ASSUME graceful', main' \in {"persist", "flush", "leaving", "exited"}
          PROVE  HandlersDone'
      <3>1. HandlersDone /\ graceful
        BY <1>1, <2>2 DEF EndInv
      <3>2. \A r \in Requests : ~InFlight(r)' /\ ~InFlight(r)
        BY <1>1, <2>2, <3>1 DEF HandlersDone, Busy
      <3>3. QED
        BY <1>1, <1>2, <3>1, <3>2 DEF HandlersDone, Busy
    <2>3. ASSUME main' = "down" \/ (main' = "exited" /\ ~graceful'),
                 NEW r \in Requests, Acked(r)'
          PROVE  r \in doomed'
      <3>1. main = "down" \/ (main = "exited" /\ ~graceful)
        BY <1>1, <2>3
      <3>2. ~InFlight(r)
        BY <3>1 DEF SaverInv, Alive
      <3>3. QED
        BY <1>1, <1>2, <2>3, <3>1, <3>2 DEF EndInv
    <2>4. QED
      BY <2>1, <2>2, <2>3 DEF EndInv
  <1>6. QED
    BY <1>3, <1>4, <1>5

\* The answer leaves.
LEMMA AnswerKeepsEnds ==
    ASSUME ServerInv, NEW a \in Requests, AnswerLeaves(a)
    PROVE  PublishInv' /\ EndInv' /\ ReachedInv'
  <1> USE DEF ServerInv
  <1>1. /\ answered' = answered \cup {a}
        /\ UNCHANGED <<vars, pub, pos, accepted, queue, handed, missed, doomed, deferred>>
    BY Zenon DEF AnswerLeaves
  <1>2. /\ UNCHANGED <<main, graceful, req>>
        /\ \A r \in Requests : (Acked(r)' <=> Acked(r)) /\ (InFlight(r)' <=> InFlight(r))
    BY <1>1 DEF vars, mainVars, Acked, InFlight
  <1>3. HandlersDone => HandlersDone'
    BY <1>1, <1>2 DEF HandlersDone, Busy
  <1>4. QueuedAcked'
    BY <1>1, <1>2 DEF PublishInv, QueuedAcked, Acked, Audit!Observers
  <1>5. PublishInv'
    BY <1>1, <1>2, <1>4 DEF PublishInv, Audit!Observers
  <1>6. EndInv' /\ ReachedInv'
    BY <1>1, <1>2, <1>3 DEF EndInv, ReachedInv, Reached, Audit!Observers
  <1>7. QED
    BY <1>5, <1>6

\* Steps of the publisher.
LEMMA PublisherKeepsEnds ==
    ASSUME ServerInv, PublisherStep
    PROVE  PublishInv' /\ EndInv' /\ ReachedInv'
  <1> USE DEF ServerInv
  <1>1. /\ UNCHANGED <<main, graceful, req, answered, doomed>>
        /\ \A r \in Requests : (Acked(r)' <=> Acked(r)) /\ (InFlight(r)' <=> InFlight(r))
    BY DEF PublisherStep, vars, mainVars, Acked, InFlight
  <1>2. /\ pub \in [Requests -> {"new", "asking", "check", "send", "done"}]
        /\ pos \in [Requests -> 1..(NumObservers + 1)]
        /\ accepted \in [Audit!Observers -> Seq(Requests)]
        /\ queue \in [Audit!Observers -> Seq(Requests)]
        /\ handed \in [Audit!Observers -> SUBSET Requests]
    BY PublisherTypes
  \* A step of one handler in Publish, and what is left to show for it.
  <1>3. ASSUME NEW r \in Requests, Acked(r), pub[r] # "done",
               UNCHANGED <<deferred, handed>>,
               \A q \in Requests \ {r} : pub'[q] = pub[q] /\ pos'[q] = pos[q],
               pub'[r] # "new",
               pub'[r] \in {"asking", "check"} => pos'[r] = 1,
               missed' \in [Audit!Observers -> SUBSET Requests],
               \A o \in Audit!Observers :
                  \/ accepted'[o] = accepted[o] /\ queue'[o] = queue[o]
                  \/ accepted'[o] = Append(accepted[o], r) /\ queue'[o] = Append(queue[o], r),
               \A o \in Audit!Observers : missed[o] \subseteq missed'[o],
               \A o \in Audit!Observers :
                  /\ r \notin doomed
                  /\ pub'[r] = "done" \/ (pub'[r] = "send" /\ o < pos'[r])
                  => Reached(o, r)'
        PROVE  PublishInv' /\ EndInv' /\ ReachedInv'
    <2>1. r \notin doomed /\ ~HandlersDone
      BY <1>3 DEF PublishInv, HandlersDone, Busy
    <2>2. EndInv'
      BY <1>1, <1>3, <2>1 DEF EndInv
    <2>3. \A o \in Audit!Observers :
             \A q \in Requests : Has(accepted[o], q) => Has(accepted'[o], q)
      <3>1. ASSUME NEW t \in Seq(Requests)
            PROVE  \A q \in Requests : Has(t, q) => Has(Append(t, r), q)
        BY HasAppend
      <3>2. QED
        BY <1>2, <1>3, <3>1, Zenon
    <2>4. QueuedAcked'
      <3>1. ASSUME NEW t \in Seq(Requests), \A i \in 1..Len(t) : Acked(t[i])
            PROVE  \A i \in 1..Len(Append(t, r)) : Acked(Append(t, r)[i])
        <4>1. \A i \in 1..Len(Append(t, r)) :
                 (i \in 1..Len(t) /\ Append(t, r)[i] = t[i]) \/ Append(t, r)[i] = r
          OBVIOUS
        <4>2. QED
          BY <1>3, <3>1, <4>1
      <3>2. \A o \in Audit!Observers :
               /\ \A i \in 1..Len(queue'[o]) : Acked(queue'[o][i])
               /\ \A q \in handed[o] : Acked(q)
        BY <1>2, <1>3, <3>1, Zenon DEF PublishInv, QueuedAcked
      <3>3. QED
        BY <1>1, <1>3, <3>2 DEF QueuedAcked, Acked, Audit!Observers
    <2>5. PublishInv'
      <3>1. \A q \in Requests : pub'[q] # "new" => Acked(q)'
        BY <1>1, <1>3 DEF PublishInv
      <3>2. \A q \in Requests : pub'[q] \in {"new", "asking", "check"} => pos'[q] = 1
        BY <1>3 DEF PublishInv
      <3>3. \A q \in doomed : pub'[q] = "done"
        BY <1>3, <2>1 DEF PublishInv
      <3>4. QED
        BY <1>1, <1>3, <2>4, <3>1, <3>2, <3>3 DEF PublishInv, Audit!Observers
    <2>6. ReachedInv'
      <3>1. \A o \in Audit!Observers, q \in Requests : Reached(o, q) => Reached(o, q)'
        BY <1>3, <2>3 DEF Reached
      <3>2. ASSUME NEW o \in Audit!Observers, NEW q \in Requests,
                   Acked(q)', q \notin doomed',
                   pub'[q] = "done" \/ (pub'[q] = "send" /\ o < pos'[q])
            PROVE  Reached(o, q)'
        <4>1. CASE q = r
          BY <1>1, <1>3, <3>2, <4>1
        <4>2. CASE q # r
          BY <1>1, <1>3, <3>1, <3>2, <4>2 DEF ReachedInv
        <4>3. QED
          BY <4>1, <4>2
      <3>3. QED
        BY <3>2, SameObservers DEF ReachedInv, Audit!Observers
    <2>7. QED
      BY <2>2, <2>5, <2>6
  \* Everything else leaves Publish alone.
  <1>4. ASSUME UNCHANGED <<pub, pos, accepted, missed>>, QueuedAcked',
               /\ deferred' # "serving" => main \in {"leaving", "exited"} /\ graceful
               /\ main = "exited" => deferred' = deferred
        PROVE  PublishInv' /\ EndInv' /\ ReachedInv'
    <2>1. HandlersDone => HandlersDone'
      BY <1>1, <1>4 DEF HandlersDone, Busy
    <2>2. PublishInv'
      BY <1>1, <1>4 DEF PublishInv, Audit!Observers
    <2>3. EndInv'
      BY <1>1, <1>4, <2>1 DEF EndInv
    <2>4. ReachedInv'
      BY <1>1, <1>4 DEF ReachedInv, Reached, Audit!Observers
    <2>5. QED
      BY <2>2, <2>3, <2>4
  <1>5. ASSUME NEW r \in Requests, BeginPublish(r)
        PROVE  PublishInv' /\ EndInv' /\ ReachedInv'
    <2>1. /\ Acked(r) /\ pub[r] = "new" /\ pub' = [pub EXCEPT ![r] = "asking"]
          /\ UNCHANGED <<pos, deferred, accepted, queue, handed, missed>>
      BY <1>5 DEF BeginPublish, Audit!CallPublish, Audit!workerVars
    <2>2. pos[r] = 1
      BY <2>1 DEF PublishInv
    <2>3. QED
      BY <1>2, <1>3, <2>1, <2>2 DEF PublishInv
  <1>6. ASSUME NEW r \in Requests, PublishStep(r)
        PROVE  PublishInv' /\ EndInv' /\ ReachedInv'
    <2>1. CASE Audit!CheckClosed(r) /\ UNCHANGED missed
      <3>1. /\ pub[r] = "check" /\ pub' = [pub EXCEPT ![r] = IF closed THEN "done" ELSE "send"]
            /\ UNCHANGED <<pos, deferred, accepted, queue, handed, missed>>
        BY <2>1 DEF Audit!CheckClosed, Audit!workerVars
      <3>2. Acked(r) /\ pos[r] = 1 /\ r \notin doomed
        BY <3>1 DEF PublishInv
      <3>3. ~closed
        BY <3>1, <3>2, PublisherTypes DEF EndInv, HandlersDone, Busy
      <3>4. pub' = [pub EXCEPT ![r] = "send"]
        BY <3>1, <3>3
      <3>5. \A o \in Audit!Observers : ~(o < 1)
        BY DEF Audit!Observers
      <3>6. QED
        BY <1>2, <1>3, <3>1, <3>2, <3>4, <3>5 DEF PublishInv
    <2>lock. CASE Audit!RLock(r) /\ UNCHANGED missed
      <3>1. /\ pub[r] = "asking" /\ pub' = [pub EXCEPT ![r] = "check"]
            /\ UNCHANGED <<pos, deferred, accepted, queue, handed, missed>>
        BY <2>lock DEF Audit!RLock, Audit!workerVars
      <3>2. Acked(r) /\ pos[r] = 1
        BY <3>1 DEF PublishInv
      <3>3. QED
        BY <1>2, <1>3, <3>1, <3>2 DEF PublishInv
    <2>2. CASE /\ Audit!Offer(r)
               /\ missed' = [missed EXCEPT ![pos[r]] =
                                IF queue' = queue THEN @ \cup {r} ELSE @]
      <3>1. /\ pub[r] = "send" /\ pos[r] \in Audit!Observers
            /\ pub' = pub /\ deferred' = deferred /\ handed' = handed
            /\ pos' = [pos EXCEPT ![r] = @ + 1]
        BY <2>2, Zenon DEF Audit!Offer, Audit!workerVars
      <3>2. Acked(r)
        BY <3>1 DEF PublishInv
      <3> PICK o \in Audit!Observers : o = pos[r]
        BY <3>1
      <3>3. \/ queue' = queue /\ accepted' = accepted
            \/ /\ accepted' = [accepted EXCEPT ![o] = Append(@, r)]
               /\ queue' = [queue EXCEPT ![o] = Append(@, r)]
        BY <2>2, Zenon DEF Audit!Offer
      <3>4. missed \in [Audit!Observers -> SUBSET Requests]
        BY DEF PublishInv
      <3>5. /\ missed' \in [Audit!Observers -> SUBSET Requests]
            /\ \A w \in Audit!Observers : missed[w] \subseteq missed'[w]
            /\ queue' = queue => r \in missed'[o]
        <4>1. PICK m \in SUBSET Requests :
                 /\ missed' = [missed EXCEPT ![o] = m]
                 /\ missed[o] \subseteq m
                 /\ queue' = queue => r \in m
          <5>1. missed[o] \in SUBSET Requests /\ missed[o] \cup {r} \in SUBSET Requests
            BY <3>4
          <5>2. CASE queue' = queue
            <6>1. missed' = [missed EXCEPT ![o] = missed[o] \cup {r}]
              BY <2>2, <5>2, Zenon
            <6>2. QED
              BY <5>1, <6>1
          <5>3. CASE queue' # queue
            <6>1. missed' = [missed EXCEPT ![o] = missed[o]]
              BY <2>2, <5>3, Zenon
            <6>2. QED
              BY <5>1, <5>3, <6>1
          <5>4. QED
            BY <5>2, <5>3
        <4>2. QED
          BY <3>4, <4>1
      <3>6. \A w \in Audit!Observers :
               \/ accepted'[w] = accepted[w] /\ queue'[w] = queue[w]
               \/ accepted'[w] = Append(accepted[w], r) /\ queue'[w] = Append(queue[w], r)
        <4>1. CASE queue' = queue /\ accepted' = accepted
          BY <4>1
        <4>2. CASE /\ accepted' = [accepted EXCEPT ![o] = Append(@, r)]
                   /\ queue' = [queue EXCEPT ![o] = Append(@, r)]
          BY <1>2, <4>2
        <4>3. QED
          BY <3>3, <4>1, <4>2
      <3>7. \A w \in Audit!Observers : Has(accepted[w], r) => Has(accepted'[w], r)
        <4>1. \A s \in Seq(Requests) : Has(Append(s, r), r)
          BY HasAppend
        <4>2. QED
          BY <1>2, <3>6, <4>1, Zenon
      <3>8. Reached(o, r)'
        <4>1. CASE queue' = queue
          BY <3>5, <4>1 DEF Reached
        <4>2. CASE accepted' = [accepted EXCEPT ![o] = Append(@, r)]
          <5>1. accepted'[o] = Append(accepted[o], r) /\ accepted[o] \in Seq(Requests)
            BY <1>2, <4>2
          <5>2. QED
            BY <5>1, HasAppend DEF Reached
        <4>3. QED
          BY <3>3, <4>1, <4>2
      <3>9. \A w \in Audit!Observers : w < pos'[r] => w = o \/ w < pos[r]
        <4>1. pos'[r] = o + 1
          BY <1>2, <3>1
        <4>2. QED
          BY <4>1 DEF Audit!Observers
      <3>10. \A w \in Audit!Observers : w < pos[r] /\ r \notin doomed => Reached(w, r)
        BY <3>1, <3>2, SameObservers DEF ReachedInv, Audit!Observers
      <3>11. QED
        BY <1>2, <1>3, <3>1, <3>2, <3>5, <3>6, <3>7, <3>8, <3>9, <3>10
        DEF Reached
    <2>3. CASE Audit!RUnlock(r) /\ UNCHANGED missed
      <3>1. /\ pub[r] = "send" /\ pos[r] \notin Audit!Observers
            /\ pub' = [pub EXCEPT ![r] = "done"]
            /\ UNCHANGED <<pos, deferred, accepted, queue, handed, missed>>
        BY <2>3 DEF Audit!RUnlock, Audit!workerVars
      <3>2. Acked(r)
        BY <3>1 DEF PublishInv
      <3>3. \A o \in Audit!Observers : o < pos[r]
        BY <1>2, <3>1, ServerAssumption DEF Audit!Observers
      <3>4. \A o \in Audit!Observers : r \notin doomed => Reached(o, r)
        BY <3>1, <3>2, <3>3 DEF ReachedInv
      <3>5. QED
        BY <1>2, <1>3, <3>1, <3>2, <3>4 DEF PublishInv, Reached
    <2>4. QED
      BY <1>6, <2>1, <2>lock, <2>2, <2>3, Zenon DEF PublishStep
  <1>7. ASSUME NEW o \in Audit!Observers, ObserverStep(o)
        PROVE  PublishInv' /\ EndInv' /\ ReachedInv'
    <2>1. UNCHANGED <<pub, pos, accepted, missed, deferred>>
      BY <1>7, Zenon
      DEF ObserverStep, Audit!Run, Audit!TakeEvent, Audit!ExitWorker, Audit!NotifyFile,
          Audit!NotifyHTTP, Audit!RetryHTTP, Audit!publishVars
    <2>2. \/ UNCHANGED <<queue, handed>>
          \/ /\ queue[o] # <<>>
             /\ queue' = [queue EXCEPT ![o] = Tail(@)]
             /\ handed' = [handed EXCEPT ![o] = @ \cup {Head(queue[o])}]
      BY <1>7, Zenon
      DEF ObserverStep, Audit!Run, Audit!TakeEvent, Audit!ExitWorker, Audit!NotifyFile,
          Audit!NotifyHTTP, Audit!RetryHTTP
    <2>3. \A w \in Audit!Observers :
             /\ \A i \in 1..Len(queue'[w]) : Acked(queue'[w][i])
             /\ \A r \in handed'[w] : Acked(r)
      <3>1. CASE UNCHANGED <<queue, handed>>
        BY <3>1 DEF PublishInv, QueuedAcked
      <3>2. CASE /\ queue[o] # <<>>
                 /\ queue' = [queue EXCEPT ![o] = Tail(@)]
                 /\ handed' = [handed EXCEPT ![o] = @ \cup {Head(queue[o])}]
        <4>1. ASSUME NEW t \in Seq(Requests), t # <<>>, \A i \in 1..Len(t) : Acked(t[i])
              PROVE  /\ \A i \in 1..Len(Tail(t)) : Acked(Tail(t)[i])
                     /\ Acked(Head(t))
          <5>1. \A i \in 1..Len(Tail(t)) : Tail(t)[i] = t[i + 1] /\ i + 1 \in 1..Len(t)
            BY <4>1
          <5>2. Head(t) = t[1] /\ 1 \in 1..Len(t)
            BY <4>1
          <5>3. QED
            BY <4>1, <5>1, <5>2, Zenon
        <4>2. queue[o] \in Seq(Requests) /\ \A i \in 1..Len(queue[o]) : Acked(queue[o][i])
          BY <1>2 DEF PublishInv, QueuedAcked
        <4>3. /\ \A i \in 1..Len(Tail(queue[o])) : Acked(Tail(queue[o])[i])
              /\ Acked(Head(queue[o]))
          BY <3>2, <4>1, <4>2, Zenon
        <4>4. \A w \in Audit!Observers :
                 /\ queue'[w] = IF w = o THEN Tail(queue[o]) ELSE queue[w]
                 /\ handed'[w] = IF w = o THEN handed[o] \cup {Head(queue[o])} ELSE handed[w]
          BY <1>2, <3>2
        <4>5. QED
          BY <4>3, <4>4 DEF PublishInv, QueuedAcked
      <3>3. QED
        BY <2>2, <3>1, <3>2, Zenon
    <2>4. QueuedAcked'
      BY <1>1, <2>3 DEF QueuedAcked, Acked, Audit!Observers
    <2>5. QED
      BY <1>4, <2>1, <2>4 DEF EndInv
  <1>8. CASE BeginClose
    <2>1. /\ main = "leaving" /\ graceful
          /\ UNCHANGED <<pub, pos, accepted, queue, handed, missed>>
      BY <1>8 DEF BeginClose, Fatal, Audit!BeginClose, Audit!publishVars, Audit!workerVars
    <2>2. QueuedAcked'
      BY <1>1, <2>1 DEF PublishInv, QueuedAcked, Acked, Audit!Observers
    <2>3. QED
      BY <1>4, <2>1, <2>2
  <1>9. CASE CloseStep
    <2>1. /\ deferred # "serving" /\ Alive
          /\ UNCHANGED <<pub, pos, accepted, queue, handed, missed>>
      BY <1>9
      DEF CloseStep, Audit!Close, Audit!CloseQueues, Audit!EndClose, Audit!CloseFile,
          Audit!publishVars, Audit!workerVars
    <2>2. QueuedAcked'
      BY <1>1, <2>1 DEF PublishInv, QueuedAcked, Acked, Audit!Observers
    <2>3. QED
      BY <1>4, <2>1, <2>2 DEF EndInv, Alive
  <1>10. QED
    BY <1>5, <1>6, <1>7, <1>8, <1>9, Zenon DEF PublisherStep

\* The process ends without leave: what it has acknowledged is doomed.
LEMMA DeathKeepsEnds ==
    ASSUME ServerInv, Death
    PROVE  PublishInv' /\ EndInv' /\ ReachedInv'
  <1> USE DEF ServerInv
  <1>1. /\ NewPublisher
        /\ doomed' = doomed \cup {r \in Requests : Acked(r)}
    BY DEF Death, Abort
  <1>2. /\ deferred' = "serving" /\ UNCHANGED <<pos, missed, handed, answered>>
        /\ pub' = [r \in Requests |-> IF Acked(r) THEN "done" ELSE pub[r]]
        /\ queue' = [o \in Audit!Observers |-> <<>>]
    BY <1>1, Zenon DEF NewPublisher
  <1>3. /\ \A r \in Requests : Acked(r)' <=> Acked(r)
        /\ main' = "down" \/ (main' = "exited" /\ ~graceful')
    <2>1. req \in [Requests -> {"new", "handling", "saving", "acked", "failed", "lost"}]
      BY DEF SaverInv, TypeOK
    <2>2. CASE Crash
      BY <2>1, <2>2 DEF Crash, Gone, Acked, InFlight
    <2>3. CASE Exit /\ Fatal
      BY <2>1, <2>3 DEF Exit, Gone, Acked, InFlight, Fatal
    <2>4. QED
      BY <2>2, <2>3 DEF Death
  <1>4. QueuedAcked'
    <2>1. \A o \in Audit!Observers : \A r \in handed[o] : r \in Requests /\ Acked(r)
      BY PublisherTypes DEF PublishInv, QueuedAcked
    <2>2. QED
      BY <1>2, <1>3, <2>1 DEF QueuedAcked, Audit!Observers
  <1>5. PublishInv'
    BY <1>1, <1>2, <1>3, <1>4 DEF PublishInv, Audit!Observers
  <1>6. EndInv'
    BY <1>1, <1>2, <1>3 DEF EndInv
  <1>7. ReachedInv'
    BY <1>1, <1>3 DEF ReachedInv
  <1>8. QED
    BY <1>5, <1>6, <1>7

\* A new process.
LEMMA StartKeepsEnds ==
    ASSUME ServerInv, ServerStart
    PROVE  PublishInv' /\ EndInv' /\ ReachedInv'
  <1> USE DEF ServerInv
  <1>1. NewPublisher /\ doomed' = doomed /\ ~Alive /\ Start
    BY DEF ServerStart, Start
  <1>2. /\ deferred' = "serving" /\ accepted' = notified
        /\ UNCHANGED <<pos, missed, handed, answered>>
        /\ pub' = [r \in Requests |-> IF Acked(r) THEN "done" ELSE pub[r]]
        /\ queue' = [o \in Audit!Observers |-> <<>>]
    BY <1>1, Zenon DEF NewPublisher
  <1>3. main' = "serving" /\ \A r \in Requests : Acked(r)' <=> Acked(r)
    BY <1>1 DEF Start, Acked
  <1>4. QueuedAcked'
    <2>1. \A o \in Audit!Observers : \A r \in handed[o] : r \in Requests /\ Acked(r)
      BY PublisherTypes DEF PublishInv, QueuedAcked
    <2>2. QED
      BY <1>2, <1>3, <2>1 DEF QueuedAcked, Audit!Observers
  <1>5. PublishInv'
    BY <1>1, <1>2, <1>3, <1>4 DEF PublishInv, Audit!Observers
  <1>6. EndInv'
    BY <1>2, <1>3 DEF EndInv
  <1>7. ReachedInv'
    <2>1. CASE \A r \in Requests : Acked(r) => r \in doomed
      BY <1>1, <1>3, <2>1 DEF ReachedInv
    <2>2. CASE main = "exited" /\ graceful /\ deferred = "returned"
      <3>1. accepted' = accepted
        <4>1. \A o \in Audit!Observers : notified[o] = accepted[o]
          BY <2>2, Assumed, SameObservers, AuditThm!DrainedWhenClosed
          DEF PublisherInv, AuditThm!CloseDrains
        <4>2. QED
          BY <1>2, <4>1, PublisherTypes
      <3>2. HandlersDone
        BY <2>2 DEF EndInv
      <3>3. \A r \in Requests : Acked(r) /\ r \notin doomed => pub[r] = "done"
        BY <3>2 DEF HandlersDone, Busy
      <3>4. \A o \in Audit!Observers, r \in Requests : Acked(r) /\ r \notin doomed => Reached(o, r)
        BY <3>3 DEF ReachedInv
      <3>5. QED
        BY <1>1, <1>2, <1>3, <3>1, <3>4, SameObservers DEF ReachedInv, Reached, Audit!Observers
    <2>3. main \in {"exited", "down"}
      BY <1>1 DEF Alive
    <2>4. QED
      BY <2>1, <2>2, <2>3 DEF EndInv
  <1>8. QED
    BY <1>5, <1>6, <1>7

LEMMA ServerInvariant == ServerSpec => []ServerInv
  <1>1. ServerInit => PublishInv /\ EndInv /\ ReachedInv
    <2> SUFFICES ASSUME ServerInit
                 PROVE  PublishInv /\ EndInv /\ ReachedInv
      OBVIOUS
    <2>1. /\ \A r \in Requests : pub[r] = "new" /\ pos[r] = 1
          /\ accepted = [o \in Audit!Observers |-> <<>>]
          /\ missed = [o \in Audit!Observers |-> {}]
          /\ queue = [o \in Audit!Observers |-> <<>>]
          /\ handed = [o \in Audit!Observers |-> {}]
          /\ deferred = "serving" /\ answered = {} /\ doomed = {}
      BY DEF ServerInit, Audit!Init
    <2>2. main = "serving"
      BY DEF ServerInit, Init
    <2>3. QED
      BY <2>1, <2>2 DEF PublishInv, QueuedAcked, EndInv, ReachedInv
  <1>2. /\ SaverInv /\ DrainInv /\ PublisherInv /\ PublishInv /\ EndInv /\ ReachedInv
        /\ (SaverInv /\ DrainInv)' /\ [ServerNext]_serverVars
        => (PublishInv /\ EndInv /\ ReachedInv)'
    BY ServerMoves, StorageKeepsEnds, PublisherKeepsEnds, AnswerKeepsEnds, DeathKeepsEnds,
       StartKeepsEnds
    DEF ServerInv
  <1>3. QED
    BY <1>1, <1>2, ServerSaver, ServerPublisher, PTL DEF ServerSpec, ServerInv

----------------------------------------------------------------------------
(* The theorems.                                                           *)

\* Every reachable state of the whole server is well typed.
THEOREM ServerTypeInvariant == ServerSpec => []ServerTypeOK
  <1>1. ASSUME ServerInv
        PROVE  ServerTypeOK
    <2>1. AuditThm!TypeOK => Audit!TypeOK
      BY Zenon DEF AuditThm!TypeOK, Audit!TypeOK, AuditThm!Observers, Audit!Observers
    <2>2. TypeOK /\ AuditThm!TypeOK
      BY <1>1 DEF ServerInv, SaverInv, PublisherInv, AuditThm!AuditInv
    <2>3. missed \in [Audit!Observers -> SUBSET Requests]
      BY <1>1 DEF ServerInv, PublishInv
    <2>4. deferred # "serving" => main \in {"leaving", "exited"} /\ graceful
      BY <1>1 DEF ServerInv, EndInv
    <2>5. QED
      BY <1>1, <2>1, <2>2, <2>3, <2>4 DEF ServerTypeOK, ServerInv, PublishInv
  <1>2. QED
    BY <1>1, ServerInvariant, PTL

\* When the deferred calls of main begin, and as long as they last, nobody is in a
\* handler and nobody writes the storage file (CloseComesLast).
THEOREM CloseComesLastHolds == ServerSpec => []CloseComesLast
  <1>1. ASSUME ServerInv, deferred # "serving"
        PROVE  HandlersDone /\ ticker = "done" /\ \A p \in Savers : save[p] = "idle"
    <2>1. main \in {"leaving", "exited"} /\ graceful /\ HandlersDone
      BY <1>1 DEF ServerInv, EndInv
    <2>2. ticker = "done"
      BY <1>1, <2>1 DEF ServerInv, SaverInv, Alive
    <2>3. \A r \in Requests : ~InFlight(r)
      BY <2>1 DEF HandlersDone, Busy
    <2>4. \A p \in Savers : save[p] = "idle"
      BY <1>1, <2>1, <2>2, <2>3 DEF ServerInv, SaverInv, TypeOK, Savers, InFlight
    <2>5. QED
      BY <2>1, <2>2, <2>4
  <1>2. ServerInv => CloseComesLast
    BY <1>1 DEF CloseComesLast
  <1>3. QED
    BY <1>2, ServerInvariant, PTL

\* With restoring on, what an observer has been told of is in the file as long as
\* saves do not overlap, across failed saves, crashes and restarts
\* (AuditedIsDurable): only what the storage acknowledged is handed over, and
\* that is durable.
THEOREM AuditedIsDurableHolds ==
    Restore = TRUE => (ServerSpec => []AuditedIsDurable)
  <1>1. CASE SyncWrites = TRUE
    <2>1. ServerInv /\ SerialInv => AuditedIsDurable
      <3>1. ASSUME ServerInv, SerialInv, ~overlapped,
                   NEW o \in Audit!Observers, NEW r \in handed[o]
            PROVE  InFile(r)
        <4>1. r \in Requests
          BY <3>1, PublisherTypes DEF ServerInv
        <4>2. Acked(r)
          BY <3>1 DEF ServerInv, PublishInv, QueuedAcked
        <4>3. QED
          BY <3>1, <4>1, <4>2 DEF SerialInv, Has, InFile
      <3>2. QED
        BY <3>1 DEF AuditedIsDurable
    <2>2. QED
      BY <1>1, <2>1, ServerInvariant, ServerSerial, PTL
  <1>2. CASE SyncWrites # TRUE
    <2>1. AuditedIsDurable
      BY <1>2, StorageAssumption DEF AuditedIsDurable
    <2>2. QED
      BY <2>1, PTL
  <1>3. QED
    BY <1>1, <1>2

\* A server that ends without error has answered what it acknowledged and has
\* handed it to every observer whose queue had room (CleanExitAudits).
THEOREM CleanExitAuditsHolds == ServerSpec => []CleanExitAudits
  <1>1. ASSUME ServerInv, deferred = "returned", NEW r \in Requests, Acked(r), r \notin doomed
        PROVE  /\ r \in answered
               /\ \A o \in Audit!Observers :
                     r \in missed[o] \/ \E i \in 1..Len(notified[o]) : notified[o][i] = r
    <2>1. pub[r] = "done" /\ r \in answered
      BY <1>1 DEF ServerInv, EndInv, HandlersDone, Busy
    <2>2. \A o \in Audit!Observers : Reached(o, r)
      BY <1>1, <2>1 DEF ServerInv, ReachedInv
    <2>3. \A o \in Audit!Observers : notified[o] = accepted[o]
      BY <1>1, Assumed, SameObservers, AuditThm!DrainedWhenClosed
      DEF ServerInv, PublisherInv, AuditThm!CloseDrains
    <2>4. QED
      BY <2>1, <2>2, <2>3 DEF Reached, Has
  <1>2. ServerInv => CleanExitAudits
    BY <1>1 DEF CleanExitAudits
  <1>3. QED
    BY <1>2, ServerInvariant, PTL

============================================================================
