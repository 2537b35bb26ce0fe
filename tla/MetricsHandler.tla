--------------------------- MODULE MetricsHandler ---------------------------
(***************************************************************************)
(* The HTTP handlers of the metrics server (internal/handler/metrics.go)   *)
(* over each of the storages: memory (memstorage.go), memory with a save   *)
(* on every update (persistent.go), and Postgres, whose calls may fail     *)
(* (postgres.go).  Every request runs in its own goroutine; a critical     *)
(* section of MemStorage and a transaction that PostgresStore describes    *)
(* are one step each.  That a retried commit may apply a batch twice is    *)
(* the subject of PostgresStore and left out here.                         *)
(*                                                                         *)
(* Data abstraction.  Names and gauge values are model values, NaN stands  *)
(* for the values ParseFloat accepts and JSON cannot encode (NaN, Inf).  A *)
(* counter is a signed integer of the width whose greatest value is        *)
(* MaxCounter.  A request is its route and the metrics it carries, Nil if  *)
(* they do not parse; every type the server does not know is "other".      *)
(***************************************************************************)
EXTENDS Integers, FiniteSets, SequencesExt, PrefixSums

CONSTANTS
    Requests,
    Inputs,      \* what a client may send: records [route, metrics]
    Names,
    NoName,      \* the empty name
    Values,      \* the values of a gauge
    Nil,         \* a nil pointer, a body or a number that does not parse
    NaN,
    MaxCounter   \* math.MaxInt64

\* model.Metrics, as a client may send it.
Metric == [id : Names, mtype : {"gauge", "counter", "other"},
           value : Values \cup {Nil}, delta : Int \cup {Nil}]

Routes == {"path", "update", "updates", "value", "query", "list"}

\* A list carries no metric, a batch any number, every other request one.
ASSUME HandlerAssumption ==
    /\ MaxCounter \in Nat
    /\ NoName \in Names
    /\ \A in \in Inputs :
          /\ in.route \in Routes
          /\ \/ in.metrics = <<>> /\ in.route = "list"
             \/ in.metrics = Nil /\ in.route # "list"
             \/ /\ in.metrics \in Seq(Metric) /\ in.route # "list"
                /\ in.route # "updates" => Len(in.metrics) = 1

VARIABLES
    storage,   \* "memory", "file" (syncWrites) or "postgres"
    gauges,    \* MemStorage.gauges, the gauges of the table
    counters,  \* MemStorage.counters, the counters of the table
    pc,        \* per request: where its handler is
    input,     \* per request: what the client sent
    status,    \* per request: the status of the answer, 0 before
    body,      \* per request: the metrics of the answer
    events,    \* the audit events published: sequences of names
    log,       \* history: the updates in the order the storage took them
    began,     \* history, per request: updates taken when it began
    failed     \* history: requests with a read that failed

store == <<gauges, counters>>
history == <<log, began, failed>>
vars == <<storage, store, pc, input, status, body, events, history>>

\* Metrics as the handlers see them; a map is a function on the names it has.
Gauge(n, v)   == [id |-> n, mtype |-> "gauge", value |-> v, delta |-> Nil]
Counter(n, d) == [id |-> n, mtype |-> "counter", value |-> Nil, delta |-> d]

\* Faulty variants of the definitions below end in _...: each is a slip the
\* properties must detect.  Here: integers without a width.
Wrap_None(i) == i

\* int64 arithmetic wraps around.
Wrap(i) == ((i + MaxCounter + 1) % (2 * (MaxCounter + 1))) - (MaxCounter + 1)

Put(map, n, v) == [m \in DOMAIN map \cup {n} |-> IF m = n THEN v ELSE map[m]]
At(map, n) == IF n \in DOMAIN map THEN map[n] ELSE 0

TypeOK ==
    /\ DOMAIN gauges \subseteq Names /\ DOMAIN counters \subseteq Names
    /\ \A n \in DOMAIN counters :
          counters[n] \in (-(MaxCounter + 1))..MaxCounter
    /\ storage \in {"memory", "file", "postgres"}
    /\ storage # "postgres" => failed = {}
    /\ pc \in [Requests -> {"new", "execute", "save", "read", "publish", "done"}]
    /\ \A r \in Requests : pc[r] # "new" => input[r] \in Inputs
    /\ status \in [Requests -> {0, 200, 400, 404, 500}]
    /\ \A r \in Requests : status[r] # 0 <=> pc[r] \in {"publish", "done"}
    /\ log \in Seq(Requests)
    /\ began \in [Requests -> 0..Len(log)] /\ failed \subseteq Requests

Init ==
    /\ storage \in {"memory", "file", "postgres"}
    /\ gauges = <<>> /\ counters = <<>>
    /\ pc = [r \in Requests |-> "new"]
    /\ input = [r \in Requests |-> Nil]
    /\ status = [r \in Requests |-> 0]
    /\ body = [r \in Requests |-> <<>>]
    /\ events = <<>> /\ log = <<>>
    /\ began = [r \in Requests |-> 0] /\ failed = {}

Answer(r, code, metrics, next) ==
    /\ status' = [status EXCEPT ![r] = code]
    /\ body' = [body EXCEPT ![r] = metrics]
    /\ pc' = [pc EXCEPT ![r] = next]

----------------------------------------------------------------------------
(* MemStorage.                                                             *)

State == [gauges |-> gauges, counters |-> counters, updated |-> <<>>]

\* Faulty: a delta of a counter takes the place of its value.
UpdateOne_Overwrites(st, m) ==
    CASE m.mtype = "gauge" /\ m.value # Nil ->
            [st EXCEPT !.gauges = Put(@, m.id, m.value), !.updated = Append(@, m)]
      [] m.mtype = "counter" /\ m.delta # Nil ->
            [st EXCEPT !.counters = Put(@, m.id, m.delta), !.updated = Append(@, m)]
      [] OTHER -> st

\* One metric of a batch, in the loop of UpdateMetrics.
UpdateOne(st, m) ==
    CASE m.mtype = "gauge" /\ m.value # Nil ->
            [st EXCEPT !.gauges = Put(@, m.id, m.value), !.updated = Append(@, m)]
      [] m.mtype = "counter" /\ m.delta # Nil ->
            LET sum == Wrap(At(st.counters, m.id) + m.delta) IN
            [st EXCEPT !.counters = Put(@, m.id, sum),
                       !.updated = Append(@, Counter(m.id, sum))]
      [] OTHER -> st

UpdateMetrics(metrics) ==
    LET after[i \in 0..Len(metrics)] ==
            IF i = 0 THEN State ELSE UpdateOne(after[i - 1], metrics[i])
    IN  after[Len(metrics)]

\* The BIGINT of Postgres does not wrap around: the sum of a counter that does
\* not fit is an error.
Overflows(metrics) ==
    \E i \in DOMAIN metrics :
        LET before == UpdateMetrics(SubSeq(metrics, 1, i - 1)).counters
            sum == At(before, metrics[i].id) + metrics[i].delta
        IN  metrics[i].mtype = "counter" /\ Wrap(sum) # sum

\* The error of a storage that saves on every update; memory keeps the update.
Encodable == \A n \in DOMAIN gauges : gauges[n] # NaN

----------------------------------------------------------------------------
(* What the handlers refuse before they touch the storage.                 *)

Missing(m) ==
    \/ m.mtype = "gauge" /\ m.value = Nil
    \/ m.mtype = "counter" /\ m.delta = Nil

\* UpdateMetricJSON and GetMetricValueJSON answer 404 for a metric without a
\* name, UpdateMetricsJSON (validateMetric) 400.  UpdateMetric and GetMetricValue
\* take the name of the path as it is, the empty one of /update/gauge//1 too.
Refusal(in) ==
    IF in.metrics = Nil THEN 400
    ELSE IF in.route \in {"update", "query"} /\ in.metrics[1].id = NoName THEN 404
    ELSE IF \E i \in DOMAIN in.metrics :
               \/ in.route = "updates" /\ in.metrics[i].id = NoName
               \/ in.metrics[i].mtype \notin {"gauge", "counter"}
               \/ in.route \notin {"value", "query"} /\ Missing(in.metrics[i])
    THEN 400 ELSE 0

\* validateMetric and the single handlers drop the field of the other type.
Normal(m) ==
    CASE m.mtype = "gauge"   -> Gauge(m.id, m.value)
      [] m.mtype = "counter" -> Counter(m.id, m.delta)
      [] OTHER               -> m

Items(r) == [i \in DOMAIN input[r].metrics |-> Normal(input[r].metrics[i])]

\* Faulty: one loop validates a metric of a batch and stores it.
Call_InOneLoop(r) ==
    /\ pc[r] = "new"
    /\ \E in \in Inputs :
        LET first == <<in.metrics[1]>> IN
        /\ input' = [input EXCEPT ![r] = in]
        /\ IF Refusal(in) # 0 THEN Answer(r, Refusal(in), <<>>, "done")
           ELSE pc' = [pc EXCEPT ![r] = "execute"] /\ UNCHANGED <<status, body>>
        /\ IF /\ in.route = "updates" /\ in.metrics \notin {Nil, <<>>}
              /\ Refusal(in) # 0 /\ Refusal([in EXCEPT !.metrics = first]) = 0
           THEN /\ gauges' = UpdateMetrics(first).gauges
                /\ counters' = UpdateMetrics(first).counters
                /\ log' = Append(log, r)
           ELSE UNCHANGED <<store, log>>
    /\ began' = [began EXCEPT ![r] = Len(log)]
    /\ UNCHANGED <<storage, events, failed>>

Call(r) ==
    /\ pc[r] = "new"
    /\ \E in \in Inputs :
        /\ input' = [input EXCEPT ![r] = in]
        /\ IF Refusal(in) # 0 THEN Answer(r, Refusal(in), <<>>, "done")
           ELSE pc' = [pc EXCEPT ![r] = "execute"] /\ UNCHANGED <<status, body>>
    /\ began' = [began EXCEPT ![r] = Len(log)]
    /\ UNCHANGED <<storage, store, events, log, failed>>

----------------------------------------------------------------------------
(* The updates and the reads.                                              *)

\* Where the handler goes once the storage has taken the update.
AfterUpdate(r, metrics) ==
    IF input[r].route = "update" /\ metrics[1].mtype = "counter"
    THEN pc' = [pc EXCEPT ![r] = "read"] /\ UNCHANGED <<status, body>>
    ELSE Answer(r, 200, IF input[r].route = "path" THEN <<>> ELSE metrics, "publish")

\* Faulty: the batch is not one critical section.
Update_ItemByItem(r) ==
    /\ pc[r] = "execute"
    /\ input[r].route \in {"path", "update", "updates"}
    /\ IF Len(body[r]) + 1 < Len(Items(r))
       THEN LET st == UpdateMetrics(<<Items(r)[Len(body[r]) + 1]>>) IN
            /\ gauges' = st.gauges /\ counters' = st.counters
            /\ body' = [body EXCEPT ![r] = @ \o st.updated]
            /\ log' = IF body[r] = <<>> THEN Append(log, r) ELSE log
            /\ UNCHANGED <<pc, status>>
       ELSE LET st == UpdateMetrics(SubSeq(Items(r), Len(body[r]) + 1, Len(Items(r)))) IN
            /\ gauges' = st.gauges /\ counters' = st.counters
            /\ log' = IF body[r] = <<>> THEN Append(log, r) ELSE log
            /\ IF storage = "file"
               THEN /\ pc' = [pc EXCEPT ![r] = "save"]
                    /\ body' = [body EXCEPT ![r] = @ \o st.updated]
                    /\ UNCHANGED status
               ELSE AfterUpdate(r, body[r] \o st.updated)
    /\ UNCHANGED <<storage, input, events, began, failed>>

Updating(r) == pc[r] = "execute" /\ input[r].route \in {"path", "update", "updates"}

\* UpdateGauge, AddCounter and UpdateMetrics: one critical section.
Update(r) ==
    /\ Updating(r)
    /\ storage = "postgres" => ~Overflows(Items(r))
    /\ LET st == UpdateMetrics(Items(r)) IN
       /\ gauges' = st.gauges
       /\ counters' = st.counters
       /\ IF storage = "file"
          THEN /\ pc' = [pc EXCEPT ![r] = "save"]
               /\ body' = [body EXCEPT ![r] = st.updated]
               /\ UNCHANGED status
          ELSE AfterUpdate(r, st.updated)
    /\ log' = Append(log, r)
    /\ UNCHANGED <<storage, input, events, began, failed>>

\* Postgres reports an error, an overflow among them: nothing of the batch is
\* applied, or all of it by a commit whose answer was lost.
UpdateFails(r) ==
    /\ storage = "postgres" /\ Updating(r)
    /\ LET st == UpdateMetrics(Items(r)) IN
       \/ UNCHANGED <<store, log>>
       \/ /\ ~Overflows(Items(r))
          /\ gauges' = st.gauges /\ counters' = st.counters
          /\ log' = Append(log, r)
    /\ Answer(r, 500, <<>>, "done")
    /\ UNCHANGED <<storage, input, events, began, failed>>

\* Faulty: an update is audited even if the storage reports an error.
Save_AuditsError(r) ==
    /\ pc[r] = "save"
    /\ \/ Encodable /\ AfterUpdate(r, body[r])
       \/ Answer(r, 500, <<>>, "publish")
    /\ UNCHANGED <<storage, store, input, events, history>>

\* Save: a write that fails or a snapshot JSON cannot encode is an error, and
\* the handler answers 500.
Save(r) ==
    /\ pc[r] = "save"
    /\ \/ Encodable /\ AfterUpdate(r, body[r])
       \/ Answer(r, 500, <<>>, "done")
    /\ UNCHANGED <<storage, store, input, events, history>>

\* Faulty: the answer has the delta of the request.
ReadBack_OwnDelta(r) ==
    /\ pc[r] = "read"
    /\ Answer(r, 200, <<Counter(Items(r)[1].id, Items(r)[1].delta)>>, "publish")
    /\ UNCHANGED <<storage, store, input, events, history>>

\* UpdateMetricJSON reads the counter back after AddCounter.
ReadBack(r) ==
    /\ pc[r] = "read"
    /\ LET n == Items(r)[1].id IN Answer(r, 200, <<Counter(n, At(counters, n))>>, "publish")
    /\ UNCHANGED <<storage, store, input, events, history>>

\* GetMetricValue ("value", as text) and GetMetricValueJSON ("query"), whose body
\* stays empty when JSON cannot encode the gauge.
GetValue(r) ==
    /\ pc[r] = "execute"
    /\ input[r].route \in {"value", "query"}
    /\ LET m == input[r].metrics[1] IN
       CASE m.mtype = "gauge" /\ m.id \in DOMAIN gauges ->
                Answer(r, 200, IF input[r].route = "query" /\ gauges[m.id] = NaN THEN <<>>
                               ELSE <<Gauge(m.id, gauges[m.id])>>, "done")
         [] m.mtype = "counter" /\ m.id \in DOMAIN counters ->
                Answer(r, 200, <<Counter(m.id, counters[m.id])>>, "done")
         [] OTHER -> Answer(r, 404, <<>>, "done")
    /\ UNCHANGED <<storage, store, input, events, history>>

\* Snapshot and List: both maps under one lock, in the order of SetToSeq here,
\* by type and name in the code.
Snapshot ==
    SetToSeq({Gauge(n, gauges[n]) : n \in DOMAIN gauges})
    \o SetToSeq({Counter(n, counters[n]) : n \in DOMAIN counters})

ListMetrics(r) ==
    /\ pc[r] = "execute"
    /\ input[r].route = "list"
    /\ Answer(r, 200, Snapshot, "done")
    /\ UNCHANGED <<storage, store, input, events, history>>

\* A read of Postgres that fails is answered like a metric that does not exist,
\* an empty list, or, after AddCounter, a counter of 0.
ReadFails(r) ==
    /\ storage = "postgres"
    /\ \/ pc[r] = "read" /\ Answer(r, 200, <<Counter(Items(r)[1].id, 0)>>, "publish")
       \/ /\ pc[r] = "execute" /\ input[r].route \in {"value", "query"}
          /\ Answer(r, 404, <<>>, "done")
       \/ /\ pc[r] = "execute" /\ input[r].route = "list"
          /\ Answer(r, 200, <<>>, "done")
    /\ failed' = failed \cup {r}
    /\ UNCHANGED <<storage, store, input, events, log, began>>

\* The names an audit event carries: those of the metrics of the request.
Named(r) == [i \in DOMAIN Items(r) |-> Items(r)[i].id]

\* The handler has written its answer and publishes the event before it returns.
Publish(r) ==
    /\ pc[r] = "publish"
    /\ events' = Append(events, Named(r))
    /\ pc' = [pc EXCEPT ![r] = "done"]
    /\ UNCHANGED <<storage, store, input, status, body, history>>

Served == (\A r \in Requests : pc[r] = "done") /\ UNCHANGED vars

Next ==
    \/ \E r \in Requests :
        Call(r) \/ Update(r) \/ UpdateFails(r) \/ Save(r) \/ ReadBack(r)
        \/ GetValue(r) \/ ListMetrics(r) \/ ReadFails(r) \/ Publish(r)
    \/ Served

Spec == Init /\ [][Next]_vars

----------------------------------------------------------------------------
(* Properties.                                                             *)

\* The metrics of the first k updates, one after the other.
Flat(k) == FlattenSeq([i \in 1..k |-> Items(log[i])])

Ids(metrics, t) == {metrics[i].id : i \in {j \in DOMAIN metrics : metrics[j].mtype = t}}

\* Where a gauge was set last, and what a counter was given.
Latest(metrics, n) ==
    Max({i \in DOMAIN metrics : metrics[i].mtype = "gauge" /\ metrics[i].id = n})
Deltas(metrics, n) ==
    [i \in DOMAIN metrics |->
        IF metrics[i].mtype = "counter" /\ metrics[i].id = n THEN metrics[i].delta ELSE 0]

\* Reference: a gauge is the last value it got, a counter the sum of its deltas,
\* which wraps around once.
GaugesAfter(metrics) ==
    [n \in Ids(metrics, "gauge") |-> metrics[Latest(metrics, n)].value]
CountersAfter(metrics) ==
    [n \in Ids(metrics, "counter") |->
        Wrap(SumUpTo(Deltas(metrics, n), Len(metrics)))]

\* Whatever requests run at the same time, memory holds what the updates it took
\* add up to, one whole request after the other (memstorage.go:37-89).
StoreIsSumOfUpdates ==
    /\ gauges = GaugesAfter(Flat(Len(log)))
    /\ counters = CountersAfter(Flat(Len(log)))

\* The value of metric m after some updates, as an answer has it.
Valued(m, metrics) ==
    IF m.mtype = "gauge" THEN Gauge(m.id, GaugesAfter(metrics)[m.id])
    ELSE Counter(m.id, CountersAfter(metrics)[m.id])

\* What an update answers with success: a batch the value of each metric right
\* after it was applied, a single counter a value it had then or later, so never
\* one without the request's own delta, unless its read failed.
UpdateAnswered(i) ==
    LET r == log[i] IN
        /\ status[r] = 200 /\ input[r].route = "updates" =>
              body[r] = [j \in DOMAIN Items(r) |->
                  Valued(Items(r)[j], Flat(i - 1) \o SubSeq(Items(r), 1, j))]
        /\ status[r] = 200 /\ input[r].route = "update" /\ r \notin failed =>
              \E k \in i..Len(log) : body[r] = <<Valued(Items(r)[1], Flat(k))>>

\* What a query answers: a value the metric had after the query began, or that
\* there was none.
QueryAnswered(r) ==
    LET m == input[r].metrics[1] IN
    \E k \in began[r]..Len(log) :
        IF status[r] = 404 THEN m.id \notin Ids(Flat(k), m.mtype)
        ELSE /\ m.id \in Ids(Flat(k), m.mtype)
             /\ \/ body[r] = <<Valued(m, Flat(k))>>
                \/ body[r] = <<>> /\ Valued(m, Flat(k)).value = NaN

\* Answers are true of a moment between the request and its answer, whatever
\* runs at the same time: an answer of 0 after an update that succeeded, or "not
\* found" for a metric that exists, comes only from a failed read
\* (handler/metrics.go:101-107, 132-138, 142-208).
AnswersAreStates ==
    /\ \A i \in DOMAIN log : UpdateAnswered(i)
    /\ \A r \in Requests \ failed :
          /\ input[r] # Nil /\ status[r] \in {200, 404}
          /\ input[r].route \in {"value", "query"} /\ Refusal(input[r]) = 0
          => QueryAnswered(r)

\* A list shows every batch as a whole or not at all, and each that was applied
\* before the request began (memstorage.go:110-138); a list that could not be
\* read is empty.
ListIsSnapshot ==
    \A r \in Requests \ failed :
        status[r] = 200 /\ input[r].route = "list" =>
            \E k \in began[r]..Len(log) :
                ToSet(body[r]) = {Gauge(n, GaugesAfter(Flat(k))[n]) : n \in Ids(Flat(k), "gauge")}
                         \cup {Counter(n, CountersAfter(Flat(k))[n]) : n \in Ids(Flat(k), "counter")}

\* What the storage took of request r: its place, or places, in the log.
Taken(r) == {i \in DOMAIN log : log[i] = r}

\* The status of an update tells what became of it.  With 200 the storage took
\* it exactly once, with 400 and 404 not at all, not even the valid metrics in
\* front of an invalid one.  A 500 tells the client nothing: memory that saves
\* on every update has taken it and keeps it, Postgres has taken it once or not
\* at all; memory alone never answers so (handler/metrics.go:49-62, 91-104,
\* 125-136; persistent.go:60-78).
AnswerTellsEffect ==
    \A r \in Requests :
        /\ Cardinality(Taken(r)) <= 1
        /\ status[r] = 200 /\ input[r].route \in {"path", "update", "updates"}
              => Taken(r) # {}
        /\ status[r] \in {400, 404} => Taken(r) = {}
        /\ status[r] = 500 => /\ storage # "memory"
                              /\ storage = "file" => Taken(r) # {}

\* The updates that were answered with success and whose handler has returned.
Audited == {r \in ToSet(log) : pc[r] = "done" /\ status[r] = 200}

\* The audit log has one event for each update answered with success and none
\* for any other request (handler/metrics.go:70, 114, 139).
AuditedIffAnswered ==
    \A names \in ToSet(events) \cup {Named(r) : r \in Audited} :
        Cardinality({i \in DOMAIN events : events[i] = names})
            = Cardinality({r \in Audited : Named(r) = names})

\* "Snapshot returns all metrics in a form compatible with JSON"
\* (memstorage.go:140).
SnapshotIsEncodable == storage # "postgres" => Encodable

============================================================================
