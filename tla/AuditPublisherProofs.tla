------------------------ MODULE AuditPublisherProofs ------------------------
(***************************************************************************)
(* Theorems about AuditPublisher, for any number of events, observers and  *)
(* attempts and any size of the queues.                                    *)
(***************************************************************************)
EXTENDS AuditPublisher, SequenceTheorems, TLAPS

----------------------------------------------------------------------------
(* The inductive invariant.                                                *)

\* A handler that may send holds the lock, so the channels are still open.
LockInv ==
    /\ closed <=> main \in {"waiting", "closed", "returned"}
    /\ closed => \A e \in Events : pub[e] # "send"
    /\ NoSendOnClosed

\* What run has in hand, and when it has ended.
RunInv ==
    \A o \in Observers :
        /\ worker[o] = "notify" => \E e \in Events : current[o] = <<e>>
        /\ worker[o] # "notify" => current[o] = <<>>
        /\ worker[o] = "exited" => closed /\ queue[o] = <<>>

\* Main waits for the workers, then closes the file.
CloseInv ==
    /\ main \in {"closed", "returned"} => WorkersDone
    /\ ~file => main = "returned"
    /\ NothingRefused

AuditInv == TypeOK /\ LockInv /\ RunInv /\ CloseInv

----------------------------------------------------------------------------
(* Sequences.                                                              *)

\* The three ways an event moves on.

LEMMA OfferKeepsOrder ==
    ASSUME NEW S, NEW n \in Seq(S), NEW c \in Seq(S), NEW q \in Seq(S), NEW e \in S
    PROVE  n \o c \o Append(q, e) = Append(n \o c \o q, e)
  OBVIOUS

LEMMA TakeKeepsOrder ==
    ASSUME NEW S, NEW n \in Seq(S), NEW q \in Seq(S), q # <<>>
    PROVE  n \o <<>> \o q = n \o <<Head(q)>> \o Tail(q)
  OBVIOUS

LEMMA NotifiedKeepsOrder ==
    ASSUME NEW S, NEW n \in Seq(S), NEW c \in Seq(S), NEW q \in Seq(S)
    PROVE  n \o c \o q = (n \o c) \o <<>> \o q
  OBVIOUS

----------------------------------------------------------------------------
(* The invariant is inductive.                                             *)

LEMMA AuditInit == Init => AuditInv
  <1> SUFFICES ASSUME Init PROVE AuditInv
    OBVIOUS
  <1>1. closed = FALSE /\ panicked = FALSE /\ file = TRUE
    BY Zenon DEF Init
  <1>2. 1 \in 1..(NumObservers + 1) /\ 0 \in 0..MaxAttempts /\ 0 <= QueueSize
    BY AuditAssumption
  <1>3. TypeOK
    <2>1. closed \in BOOLEAN /\ panicked \in BOOLEAN /\ file \in BOOLEAN
      BY <1>1
    <2>2. /\ pos \in [Events -> 1..(NumObservers + 1)]
          /\ attempt \in [Observers -> 0..MaxAttempts]
      BY <1>2 DEF Init
    <2>3. /\ <<>> \in Seq(Events) /\ Len(<<>>) = 0
      OBVIOUS
    <2>4. /\ \A o \in Observers : queue[o] = <<>>
          /\ queue \in [Observers -> Seq(Events)]
          /\ current \in [Observers -> Seq(Events)]
          /\ accepted \in [Observers -> Seq(Events)]
          /\ notified \in [Observers -> Seq(Events)]
      BY <2>3 DEF Init
    <2>5. QED
      BY <1>2, <2>1, <2>2, <2>3, <2>4 DEF Init, TypeOK
  <1>4. LockInv /\ RunInv /\ CloseInv
    BY <1>1 DEF Init, LockInv, RunInv, CloseInv, NoSendOnClosed, NothingRefused
  <1>5. QED
    BY <1>3, <1>4 DEF AuditInv

\* Publish.
LEMMA PublishStep ==
    ASSUME AuditInv, NEW e \in Events, Publish(e)
    PROVE  AuditInv'
  <1>1. CASE CallPublish(e) \/ RLock(e) \/ CheckClosed(e) \/ RUnlock(e)
    <2>1. /\ pub' \in [Events -> {"new", "asking", "check", "send", "done"}]
          /\ closed => \A d \in Events : pub'[d] # "send"
      BY <1>1 DEF CallPublish, RLock, CheckClosed, RUnlock, AuditInv, TypeOK, LockInv
    <2>2. UNCHANGED <<pos, queue, closed, panicked, workerVars, main, file, accepted>>
      BY <1>1, Zenon DEF CallPublish, RLock, CheckClosed, RUnlock
    <2>3. TypeOK'
      BY <2>1, <2>2 DEF workerVars, AuditInv, TypeOK
    <2>4. QED
      BY <2>1, <2>2, <2>3
      DEF workerVars, AuditInv, LockInv, RunInv, CloseInv, NoSendOnClosed,
          NothingRefused, WorkersDone
  <1>2. CASE Offer(e)
    <2>1. ~closed
      BY <1>2 DEF Offer, AuditInv, LockInv
    <2>2. panicked' = FALSE
      BY <1>2, <2>1, Zenon DEF Offer, AuditInv, LockInv, NoSendOnClosed
    <2> PICK o \in Observers : o = pos[e]
      BY <1>2 DEF Offer
    <2>3. pos' \in [Events -> 1..(NumObservers + 1)]
      <3>1. o + 1 \in 1..(NumObservers + 1)
        BY AuditAssumption DEF Observers
      <3>2. pos' = [pos EXCEPT ![e] = o + 1]
        BY <1>2 DEF Offer
      <3>3. QED
        BY <3>1, <3>2 DEF AuditInv, TypeOK
    <2>room. \/ queue' = queue /\ accepted' = accepted
             \/ /\ Len(queue[o]) < QueueSize
                /\ queue' = [queue EXCEPT ![o] = Append(@, e)]
                /\ accepted' = [accepted EXCEPT ![o] = Append(@, e)]
      BY <1>2, Zenon DEF Offer
    <2>4. /\ queue' \in [Observers -> Seq(Events)]
          /\ accepted' \in [Observers -> Seq(Events)]
      <3>1. /\ queue \in [Observers -> Seq(Events)]
            /\ accepted \in [Observers -> Seq(Events)]
        BY DEF AuditInv, TypeOK
      <3>2. \A t \in Seq(Events) : Append(t, e) \in Seq(Events)
        OBVIOUS
      <3>3. /\ Append(queue[o], e) \in Seq(Events)
            /\ Append(accepted[o], e) \in Seq(Events)
        BY <3>1, <3>2
      <3>4. CASE queue' = queue /\ accepted' = accepted
        BY <3>1, <3>4
      <3>5. CASE /\ queue' = [queue EXCEPT ![o] = Append(@, e)]
                 /\ accepted' = [accepted EXCEPT ![o] = Append(@, e)]
        BY <3>1, <3>3, <3>5
      <3>6. QED
        BY <2>room, <3>4, <3>5, Zenon
    <2>5. \A w \in Observers : Len(queue'[w]) <= QueueSize
      <3>1. \A w \in Observers : queue[w] \in Seq(Events) /\ Len(queue[w]) <= QueueSize
        BY DEF AuditInv, TypeOK
      <3>2. Len(queue[o]) < QueueSize => Len(Append(queue[o], e)) <= QueueSize
        BY <3>1, AuditAssumption
      <3>3. \A w \in Observers :
               \/ queue'[w] = queue[w]
               \/ w = o /\ Len(queue[o]) < QueueSize /\ queue'[w] = Append(queue[o], e)
        BY <2>room DEF AuditInv, TypeOK
      <3>4. QED
        BY <3>1, <3>2, <3>3
    <2>6. TypeOK'
      BY <1>2, <2>2, <2>3, <2>4, <2>5 DEF Offer, workerVars, AuditInv, TypeOK
    <2>7. LockInv' /\ CloseInv'
      BY <1>2, <2>2
      DEF Offer, workerVars, AuditInv, LockInv, CloseInv, NoSendOnClosed, NothingRefused,
          WorkersDone
    <2>8. RunInv'
      BY <1>2, <2>1 DEF Offer, workerVars, AuditInv, RunInv
    <2>9. QED
      BY <2>6, <2>7, <2>8 DEF AuditInv
  <1>3. QED
    BY <1>1, <1>2 DEF Publish, PublishGoesOn

\* run.
LEMMA RunStep ==
    ASSUME AuditInv, NEW o \in Observers, Run(o)
    PROVE  AuditInv'
  <1>1. CASE TakeEvent(o)
    <2>1. /\ Head(queue[o]) \in Events
          /\ Tail(queue[o]) \in Seq(Events)
          /\ Len(Tail(queue[o])) <= QueueSize
      BY <1>1, AuditAssumption, HeadTailProperties DEF TakeEvent, AuditInv, TypeOK
    <2>2. TypeOK'
      BY <1>1, <2>1, AuditAssumption DEF TakeEvent, publishVars, AuditInv, TypeOK
    <2>3. LockInv' /\ RunInv' /\ CloseInv'
      BY <1>1, <2>1
      DEF TakeEvent, publishVars, AuditInv, TypeOK, LockInv, RunInv, CloseInv,
          NoSendOnClosed, NothingRefused, WorkersDone
    <2>4. QED
      BY <2>2, <2>3 DEF AuditInv
  <1>2. CASE ExitWorker(o)
    BY <1>2
    DEF ExitWorker, publishVars, AuditInv, TypeOK, LockInv, RunInv, CloseInv,
        NoSendOnClosed, NothingRefused, WorkersDone
  <1>3. CASE NotifyFile(o) \/ NotifyHTTP(o)
    <2>1. PICK e \in Events : current[o] = <<e>>
      BY <1>3 DEF NotifyFile, NotifyHTTP, AuditInv, RunInv
    <2>2. worker[o] = "notify" /\ ~WorkersDone
      BY <1>3 DEF NotifyFile, NotifyHTTP, WorkersDone
    <2>3. file
      BY <2>2 DEF AuditInv, CloseInv
    <2>4. /\ refused' = refused
          /\ ReturnNotify(o)
          /\ UNCHANGED <<publishVars, queue, closed, panicked, handed, main, file, accepted>>
      BY <1>3, <2>3, Zenon DEF NotifyFile, NotifyHTTP
    <2>return. /\ worker' \in [Observers -> {"idle", "notify", "exited"}]
               /\ current' \in [Observers -> Seq(Events)]
               /\ attempt' \in [Observers -> 0..MaxAttempts]
               /\ notified' \in [Observers -> Seq(Events)]
      <3>1. <<>> \in Seq(Events) /\ notified[o] \o current[o] \in Seq(Events)
        BY ConcatProperties, EmptySeq DEF AuditInv, TypeOK
      <3>2. 0 \in 0..MaxAttempts
        BY AuditAssumption
      <3>3. QED
        BY <2>4, <3>1, <3>2 DEF ReturnNotify, AuditInv, TypeOK
    <2>5. TypeOK'
      BY <2>4, <2>return DEF publishVars, AuditInv, TypeOK
    <2>6. LockInv' /\ RunInv' /\ CloseInv'
      <3>1. LockInv' /\ CloseInv'
        BY <2>2, <2>4
        DEF publishVars, AuditInv, LockInv, CloseInv, NoSendOnClosed, NothingRefused,
            WorkersDone
      <3>2. RunInv'
        BY <2>4 DEF ReturnNotify, AuditInv, TypeOK, RunInv
      <3>3. QED
        BY <3>1, <3>2
    <2>7. QED
      BY <2>5, <2>6 DEF AuditInv
  <1>4. CASE RetryHTTP(o)
    <2>1. attempt' \in [Observers -> 0..MaxAttempts]
      BY <1>4, AuditAssumption DEF RetryHTTP, AuditInv, TypeOK
    <2>2. QED
      BY <1>4, <2>1
      DEF RetryHTTP, publishVars, AuditInv, TypeOK, LockInv, RunInv, CloseInv,
          NoSendOnClosed, NothingRefused, WorkersDone
  <1>5. QED
    BY <1>1, <1>2, <1>3, <1>4 DEF Run

\* The deferred calls of main.
LEMMA CloseStep ==
    ASSUME AuditInv, BeginClose \/ Close
    PROVE  AuditInv'
  <1>1. CASE BeginClose \/ EndClose
    BY <1>1
    DEF BeginClose, EndClose, publishVars, workerVars, AuditInv, TypeOK, LockInv, RunInv,
        CloseInv, NoSendOnClosed, NothingRefused, WorkersDone
  <1>2. CASE CloseQueues
    <2>1. \A e \in Events : pub[e] # "send"
      BY <1>2 DEF CloseQueues, Readers
    <2>2. closed' = TRUE
      BY <1>2, Zenon DEF CloseQueues
    <2>3. QED
      BY <1>2, <2>1, <2>2
      DEF CloseQueues, publishVars, workerVars, AuditInv, TypeOK, LockInv, RunInv,
          CloseInv, NoSendOnClosed, NothingRefused, WorkersDone
  <1>3. CASE CloseFile
    <2>1. file' = FALSE
      BY <1>3, Zenon DEF CloseFile
    <2>2. QED
      BY <1>3, <2>1
      DEF CloseFile, publishVars, workerVars, AuditInv, TypeOK, LockInv, RunInv,
          CloseInv, NoSendOnClosed, NothingRefused, WorkersDone
  <1>4. QED
    BY <1>1, <1>2, <1>3 DEF Close

\* Each step of handlers, workers and main keeps the invariant.
LEMMA AuditStep == AuditInv /\ [Next]_vars => AuditInv'
  <1> SUFFICES ASSUME AuditInv, [Next]_vars
               PROVE  AuditInv'
    OBVIOUS
  <1>1. CASE UNCHANGED vars
    BY <1>1
    DEF vars, publishVars, workerVars, AuditInv, TypeOK, LockInv, RunInv, CloseInv,
        NoSendOnClosed, NothingRefused, WorkersDone
  <1>2. CASE Next
    BY <1>1, <1>2, PublishStep, RunStep, CloseStep DEF Next, Returned
  <1>3. QED
    BY <1>1, <1>2

LEMMA AuditInvariant == Spec => []AuditInv
  <1>1. AuditInv /\ [Next]_vars => AuditInv'
    BY AuditStep
  <1>2. QED
    BY AuditInit, <1>1, PTL DEF Spec

----------------------------------------------------------------------------
(* The theorems.                                                           *)

\* Every reachable state is well typed: no queue exceeds its size and no event
\* is sent more often than the delays of the retry client allow.
THEOREM TypeInvariant == Spec => []TypeOK
  BY AuditInvariant, PTL DEF AuditInv

\* No handler sends on a closed channel, however many publish while main closes.
THEOREM NoSendOnClosedHolds == Spec => []NoSendOnClosed
  BY AuditInvariant, PTL DEF AuditInv, LockInv

\* The audit file is never closed under an event that is yet to be written.
THEOREM NothingRefusedHolds == Spec => []NothingRefused
  BY AuditInvariant, PTL DEF AuditInv, CloseInv

LEMMA OrderStep == AcceptedInOrder /\ AuditInv /\ [Next]_vars => AcceptedInOrder'
  <1> SUFFICES ASSUME AcceptedInOrder, AuditInv, [Next]_vars,
                      NEW o \in Observers
               PROVE  (accepted[o] = notified[o] \o current[o] \o queue[o])'
    BY DEF AcceptedInOrder
  <1>1. /\ accepted[o] = notified[o] \o current[o] \o queue[o]
        /\ notified[o] \in Seq(Events)
        /\ current[o] \in Seq(Events)
        /\ queue[o] \in Seq(Events)
    BY DEF AcceptedInOrder, AuditInv, TypeOK
  <1>2. CASE UNCHANGED <<queue, current, notified, accepted>>
    BY <1>1, <1>2
  <1>3. ASSUME NEW e \in Events, Offer(e)
        PROVE  accepted'[o] = notified'[o] \o current'[o] \o queue'[o]
    <2>1. notified'[o] = notified[o] /\ current'[o] = current[o]
      BY <1>3 DEF Offer, workerVars
    <2>2. \/ queue'[o] = queue[o] /\ accepted'[o] = accepted[o]
          \/ queue'[o] = Append(queue[o], e) /\ accepted'[o] = Append(accepted[o], e)
      <3>1. \/ queue' = queue /\ accepted' = accepted
            \/ /\ queue' = [queue EXCEPT ![pos[e]] = Append(@, e)]
               /\ accepted' = [accepted EXCEPT ![pos[e]] = Append(@, e)]
        BY <1>3, Zenon DEF Offer
      <3>2. queue \in [Observers -> Seq(Events)] /\ accepted \in [Observers -> Seq(Events)]
        BY DEF AuditInv, TypeOK
      <3>3. CASE queue' = queue /\ accepted' = accepted
        BY <3>3
      <3>4. CASE /\ queue' = [queue EXCEPT ![pos[e]] = Append(@, e)]
                 /\ accepted' = [accepted EXCEPT ![pos[e]] = Append(@, e)]
        BY <3>2, <3>4
      <3>5. QED
        BY <3>1, <3>3, <3>4, Zenon
    <2>3. notified[o] \o current[o] \o Append(queue[o], e)
             = Append(notified[o] \o current[o] \o queue[o], e)
      <3>1. ASSUME NEW n \in Seq(Events), NEW c \in Seq(Events), NEW q \in Seq(Events)
            PROVE  n \o c \o Append(q, e) = Append(n \o c \o q, e)
        BY OfferKeepsOrder
      <3>2. QED
        BY <1>1, <3>1, Zenon
    <2>4. QED
      BY <1>1, <2>1, <2>2, <2>3
  <1>4. ASSUME NEW w \in Observers, TakeEvent(w)
        PROVE  accepted'[o] = notified'[o] \o current'[o] \o queue'[o]
    <2>1. CASE w = o
      <3>1. current[o] = <<>> /\ queue[o] # <<>>
        BY <1>4, <2>1 DEF TakeEvent, AuditInv, RunInv
      <3>2. /\ accepted'[o] = accepted[o] /\ notified'[o] = notified[o]
            /\ current'[o] = <<Head(queue[o])>> /\ queue'[o] = Tail(queue[o])
        BY <1>4, <2>1 DEF TakeEvent, AuditInv, TypeOK
      <3>3. notified[o] \o <<>> \o queue[o]
               = notified[o] \o <<Head(queue[o])>> \o Tail(queue[o])
        BY <1>1, <3>1, TakeKeepsOrder
      <3>4. QED
        BY <1>1, <3>1, <3>2, <3>3
    <2>2. CASE w # o
      BY <1>1, <1>4, <2>2 DEF TakeEvent, AuditInv, TypeOK
    <2>3. QED
      BY <2>1, <2>2
  <1>5. ASSUME NEW w \in Observers, NotifyFile(w) \/ NotifyHTTP(w)
        PROVE  accepted'[o] = notified'[o] \o current'[o] \o queue'[o]
    <2>1. CASE w = o
      <3>1. /\ accepted'[o] = accepted[o] /\ notified'[o] = notified[o] \o current[o]
            /\ current'[o] = <<>> /\ queue'[o] = queue[o]
        BY <1>5, <2>1 DEF NotifyFile, NotifyHTTP, ReturnNotify, AuditInv, TypeOK
      <3>2. notified[o] \o current[o] \o queue[o]
               = (notified[o] \o current[o]) \o <<>> \o queue[o]
        BY <1>1, NotifiedKeepsOrder
      <3>3. QED
        BY <1>1, <3>1, <3>2
    <2>2. CASE w # o
      BY <1>1, <1>5, <2>2 DEF NotifyFile, NotifyHTTP, ReturnNotify, AuditInv, TypeOK
    <2>3. QED
      BY <2>1, <2>2
  <1>6. QED
    BY <1>2, <1>3, <1>4, <1>5
    DEF Next, Publish, PublishGoesOn, CallPublish, RLock, CheckClosed, RUnlock, Run, ExitWorker, RetryHTTP,
        BeginClose, Close, CloseQueues, EndClose, CloseFile, Returned, vars, workerVars

\* Accepted events reach their observer once and in the order of acceptance.
THEOREM AcceptedInOrderHolds == Spec => []AcceptedInOrder
  <1>1. Init => AcceptedInOrder
    BY ConcatEmptySeq DEF Init, AcceptedInOrder
  <1>2. AcceptedInOrder /\ AuditInv /\ [Next]_vars => AcceptedInOrder'
    BY OrderStep
  <1>3. QED
    BY AuditInvariant, <1>1, <1>2, PTL DEF Spec

LEMMA DrainedWhenClosed == AuditInv /\ AcceptedInOrder => CloseDrains
  <1> SUFFICES ASSUME AuditInv, AcceptedInOrder, main \in {"closed", "returned"},
                      NEW o \in Observers
               PROVE  notified[o] = accepted[o]
    BY DEF CloseDrains
  <1>1. current[o] = <<>> /\ queue[o] = <<>>
    BY DEF AuditInv, CloseInv, RunInv, WorkersDone
  <1>2. notified[o] \in Seq(Events)
    BY DEF AuditInv, TypeOK
  <1>3. notified[o] \o <<>> = notified[o]
    BY <1>2, ConcatEmptySeq
  <1>4. QED
    BY <1>1, <1>3 DEF AcceptedInOrder

\* Close returns only when every accepted event has been handed to its observer.
THEOREM CloseDrainsHolds == Spec => []CloseDrains
  <1>1. AuditInv /\ AcceptedInOrder => CloseDrains
    BY DrainedWhenClosed
  <1>2. QED
    BY AuditInvariant, AcceptedInOrderHolds, <1>1, PTL

============================================================================
