------------------------ MODULE MetricsHandlerProofs ------------------------
(***************************************************************************)
(* Theorems about MetricsHandler, for any requests, inputs and names and   *)
(* any width of a counter.  First what the storage computes, metric after  *)
(* metric, then the handlers: what a request is before and after it gets   *)
(* to the storage, one event per update, the maps as the sum of the log,   *)
(* and the answers.                                                        *)
(***************************************************************************)
EXTENDS MetricsHandler, RecursionLemmas, FiniteSetTheorems

----------------------------------------------------------------------------
(* What the storage computes.                                              *)

\* The metrics of an update that was not refused.
Accepted ==
    {Gauge(n, v) : n \in Names, v \in Values \ {Nil}}
    \cup {Counter(n, d) : n \in Names, d \in Int \ {Nil}}

LEMMA AcceptedFields ==
    ASSUME NEW m \in Accepted
    PROVE  /\ m.id \in Names /\ m.mtype \in {"gauge", "counter"}
           /\ m.mtype = "gauge" => m = Gauge(m.id, m.value) /\ m.value # Nil
           /\ m.mtype = "counter" =>
                 m = Counter(m.id, m.delta) /\ m.delta \in Int /\ m.delta # Nil
  BY DEF Accepted, Gauge, Counter

\* A number has one remainder.
LEMMA SmallMultiple ==
    ASSUME NEW w \in Nat \ {0}, NEW t \in Int, NEW x \in Int, x = t * w,
           -w < x, x < w
    PROVE  t = 0
  <1>1. ASSUME t >= 1 PROVE FALSE
    <2>1. t * w >= w
      BY <1>1
    <2>2. QED
      BY <2>1
  <1>2. ASSUME t <= -1 PROVE FALSE
    <2>1. t * w <= -w
      BY <1>2
    <2>2. QED
      BY <2>1
  <1>3. QED
    BY <1>1, <1>2

LEMMA Remainder ==
    ASSUME NEW w \in Nat \ {0}, NEW x \in Int
    PROVE  \E q \in Int, r \in 0..(w - 1) : r = x % w /\ x = q * w + r
  <1>1. x % w \in 0..(w - 1) /\ x \div w \in Int /\ x = (x \div w) * w + (x % w)
    OBVIOUS
  <1>2. QED
    BY <1>1

LEMMA RemainderUnique ==
    ASSUME NEW w \in Nat \ {0}, NEW q \in Int, NEW p \in Int,
           NEW r \in 0..(w - 1), NEW s \in 0..(w - 1), q * w + r = p * w + s
    PROVE  r = s
  <1>1. (q - p) * w = q * w - p * w
    OBVIOUS
  <1>2. PICK x \in Int : x = (q - p) * w
    OBVIOUS
  <1>3. x = s - r
    BY <1>1, <1>2
  <1>4. q - p = 0
    BY <1>2, <1>3, SmallMultiple
  <1>5. x = 0
    BY <1>2, <1>4
  <1>6. QED
    BY <1>3, <1>5

\* Wrapping around on the way changes nothing.
LEMMA WrapFacts ==
    ASSUME NEW a \in Int, NEW d \in Int
    PROVE  /\ Wrap(a) \in (-(MaxCounter + 1))..MaxCounter
           /\ Wrap(Wrap(a) + d) = Wrap(a + d)
  <1> DEFINE h == MaxCounter + 1
             w == 2 * h
  <1>1. h \in Nat \ {0} /\ w \in Nat \ {0} /\ w = h + h /\ MaxCounter \in Nat
    BY HandlerAssumption
  <1>2. \A i \in Int : Wrap(i) = ((i + h) % w) - h
    BY <1>1 DEF Wrap
  <1> HIDE DEF h, w
  <1>3. PICK q \in Int, r \in 0..(w - 1) : r = (a + h) % w /\ a + h = q * w + r
    <2>1. a + h \in Int
      BY <1>1
    <2>2. QED
      BY <1>1, <2>1, Remainder, Zenon
  <1>4. Wrap(a) = r - h
    BY <1>2, <1>3
  <1>5. PICK p \in Int, s \in 0..(w - 1) : s = (a + d + h) % w /\ a + d + h = p * w + s
    <2>1. a + d + h \in Int
      BY <1>1
    <2>2. QED
      BY <1>1, <2>1, Remainder, Zenon
  <1>6. PICK u \in Int, t \in 0..(w - 1) : t = (r + d) % w /\ r + d = u * w + t
    BY <1>1, Remainder
  <1>7. Wrap(a + d) = s - h
    BY <1>2, <1>5
  <1>8. Wrap(Wrap(a) + d) = t - h
    <2>1. Wrap(a) + d \in Int /\ Wrap(a) + d + h = r + d
      BY <1>1, <1>4
    <2>2. Wrap(Wrap(a) + d) = ((Wrap(a) + d + h) % w) - h
      BY <1>2, <2>1
    <2>3. QED
      BY <1>6, <2>1, <2>2, Zenon
  <1>9. p * w + s = (q + u) * w + t
    <2>1. (q + u) * w = q * w + u * w
      BY <1>1
    <2>2. QED
      BY <1>1, <1>3, <1>5, <1>6, <2>1
  <1>10. s = t
    <2>1. q + u \in Int
      OBVIOUS
    <2>2. QED
      BY <1>1, <1>9, <2>1, RemainderUnique
  <1>11. Wrap(a) \in (-(MaxCounter + 1))..MaxCounter
    BY <1>1, <1>4 DEF h
  <1>12. QED
    BY <1>7, <1>8, <1>10, <1>11

LEMMA MaxIs ==
    ASSUME NEW S, S \subseteq Int, NEW x \in S, \A y \in S : x >= y
    PROVE  Max(S) = x
  <1>1. \A z \in S : (\A y \in S : z >= y) => z = x
    <2> SUFFICES ASSUME NEW z \in S, \A y \in S : z >= y PROVE z = x
      OBVIOUS
    <2>1. z >= x /\ x >= z /\ z \in Int /\ x \in Int
      OBVIOUS
    <2>2. QED
      BY <2>1
  <1>2. QED
    BY <1>1, Zenon DEF Max

LEMMA MaxExists ==
    ASSUME NEW k \in Nat, NEW S, S \subseteq 1..k, S # {}
    PROVE  Max(S) \in S
  <1> DEFINE T == {y \in Nat : \E x \in S : y = k - x}
  <1>1. T # {}
    <2>1. PICK x \in S : x \in 1..k
      OBVIOUS
    <2>2. k - x \in T
      BY <2>1
    <2>3. QED
      BY <2>2
  <1>2. PICK m \in T : \A y \in T : m <= y
    <2>1. T \subseteq Nat
      OBVIOUS
    <2>2. QED
      BY <1>1, <2>1, LeastElement, Zenon
  <1>3. PICK x \in S : m = k - x
    OBVIOUS
  <1>4. \A y \in S : x >= y
    <2> SUFFICES ASSUME NEW y \in S PROVE x >= y
      OBVIOUS
    <2>1. x \in 1..k /\ y \in 1..k
      OBVIOUS
    <2>2. k - y \in T
      BY <2>1
    <2>3. m <= k - y
      BY <1>2, <2>2
    <2>4. QED
      BY <1>3, <2>1, <2>3
  <1>5. S \subseteq Int
    OBVIOUS
  <1>6. QED
    BY <1>4, <1>5, MaxIs

\* One metric more.
LEMMA OneMore ==
    ASSUME NEW s \in Seq(Accepted), NEW m \in Accepted
    PROVE  /\ Append(s, m) \in Seq(Accepted)
           /\ Len(s) \in Nat /\ Len(Append(s, m)) = Len(s) + 1
           /\ DOMAIN s = 1..Len(s) /\ DOMAIN Append(s, m) = 1..(Len(s) + 1)
           /\ \A i \in 1..Len(s) : Append(s, m)[i] = s[i] /\ s[i] \in Accepted
           /\ Append(s, m)[Len(s) + 1] = m
  OBVIOUS

LEMMA IdsAppend ==
    ASSUME NEW s \in Seq(Accepted), NEW m \in Accepted, NEW t
    PROVE  Ids(Append(s, m), t) = Ids(s, t) \cup (IF m.mtype = t THEN {m.id} ELSE {})
  <1> DEFINE a == Append(s, m)
             n == Len(s)
  <1>1. /\ n \in Nat /\ DOMAIN s = 1..n /\ DOMAIN a = 1..(n + 1)
        /\ \A i \in 1..n : a[i] = s[i]
        /\ a[n + 1] = m
    BY OneMore
  <1> HIDE DEF a, n
  <1>2. 1..(n + 1) = (1..n) \cup {n + 1}
    BY <1>1
  <1>3. Ids(a, t) = Ids(s, t) \cup (IF m.mtype = t THEN {m.id} ELSE {})
    <2>1. ASSUME NEW x \in Ids(a, t)
          PROVE  x \in Ids(s, t) \/ (m.mtype = t /\ x = m.id)
      <3>1. PICK i \in 1..(n + 1) : a[i].mtype = t /\ x = a[i].id
        BY <1>1, <2>1, Zenon DEF Ids
      <3>2. CASE i \in 1..n
        BY <1>1, <3>1, <3>2, Zenon DEF Ids
      <3>3. CASE i = n + 1
        BY <1>1, <3>1, <3>3, Zenon
      <3>4. QED
        BY <1>2, <3>2, <3>3, Zenon
    <2>2. ASSUME NEW x \in Ids(s, t)
          PROVE  x \in Ids(a, t)
      <3>1. PICK i \in 1..n : s[i].mtype = t /\ x = s[i].id
        BY <1>1, <2>2, Zenon DEF Ids
      <3>2. i \in DOMAIN a /\ a[i] = s[i]
        BY <1>1, <1>2, Zenon
      <3>3. QED
        BY <3>1, <3>2, Zenon DEF Ids
    <2>3. ASSUME m.mtype = t
          PROVE  m.id \in Ids(a, t)
      <3>1. n + 1 \in DOMAIN a
        BY <1>1, <1>2, Zenon
      <3>2. QED
        BY <1>1, <2>3, <3>1, Zenon DEF Ids
    <2>4. QED
      BY <2>1, <2>2, <2>3, Zenon
  <1>4. QED
    BY <1>3 DEF a

LEMMA GaugesAppend ==
    ASSUME NEW s \in Seq(Accepted), NEW m \in Accepted
    PROVE  GaugesAfter(Append(s, m)) =
              IF m.mtype = "gauge" THEN Put(GaugesAfter(s), m.id, m.value) ELSE GaugesAfter(s)
  <1> DEFINE a == Append(s, m)
             k == Len(s)
             Sets(x, n) == {i \in DOMAIN x : x[i].mtype = "gauge" /\ x[i].id = n}
  <1>1. /\ k \in Nat /\ DOMAIN s = 1..k /\ DOMAIN a = 1..(k + 1)
        /\ \A i \in 1..k : a[i] = s[i]
        /\ a[k + 1] = m
    BY OneMore
  <1>2. Ids(a, "gauge") = Ids(s, "gauge") \cup (IF m.mtype = "gauge" THEN {m.id} ELSE {})
    BY IdsAppend
  <1> HIDE DEF a, k
  <1>3. ASSUME NEW n \in Ids(a, "gauge")
        PROVE  a[Latest(a, n)].value =
                  IF m.mtype = "gauge" /\ n = m.id THEN m.value ELSE s[Latest(s, n)].value
    <2>1. CASE m.mtype = "gauge" /\ n = m.id
      <3>1. k + 1 \in Sets(a, n) /\ Sets(a, n) \subseteq Int /\ \A i \in Sets(a, n) : k + 1 >= i
        BY <1>1, <2>1
      <3>2. Max(Sets(a, n)) = k + 1
        BY <3>1, MaxIs, Zenon
      <3>3. QED
        BY <1>1, <2>1, <3>2, Zenon DEF Latest
    <2>2. CASE ~(m.mtype = "gauge" /\ n = m.id)
      <3>1. Sets(a, n) = Sets(s, n)
        <4>1. 1..(k + 1) = (1..k) \cup {k + 1}
          BY <1>1
        <4>2. QED
          BY <1>1, <2>2, <4>1, Zenon
      <3>2. n \in Ids(s, "gauge")
        BY <1>2, <2>2, Zenon
      <3>3. Sets(s, n) # {}
        BY <3>2, Zenon DEF Ids
      <3>4. Max(Sets(s, n)) \in Sets(s, n)
        <4>1. Sets(s, n) \subseteq 1..k
          BY <1>1, Zenon
        <4>2. QED
          BY <1>1, <3>3, <4>1, MaxExists, Zenon
      <3>5. Latest(s, n) \in 1..k
        BY <1>1, <3>4, Zenon DEF Latest
      <3>6. Latest(a, n) = Latest(s, n)
        BY <3>1, Zenon DEF Latest
      <3>7. QED
        BY <1>1, <2>2, <3>5, <3>6, Zenon
    <2>3. QED
      BY <2>1, <2>2, Zenon
  <1>4. CASE m.mtype = "gauge"
    <2>1. GaugesAfter(a) = [n \in Ids(s, "gauge") \cup {m.id} |->
              IF n = m.id THEN m.value ELSE s[Latest(s, n)].value]
      BY <1>2, <1>3, <1>4, Zenon DEF GaugesAfter
    <2>2. /\ DOMAIN GaugesAfter(s) = Ids(s, "gauge")
          /\ \A n \in Ids(s, "gauge") : GaugesAfter(s)[n] = s[Latest(s, n)].value
      BY Zenon DEF GaugesAfter
    <2>3. Put(GaugesAfter(s), m.id, m.value) = [n \in Ids(s, "gauge") \cup {m.id} |->
              IF n = m.id THEN m.value ELSE s[Latest(s, n)].value]
      BY <2>2, Zenon DEF Put
    <2>4. QED
      BY <1>4, <2>1, <2>3, Zenon DEF a
  <1>5. CASE m.mtype # "gauge"
    <2>1. GaugesAfter(a) = GaugesAfter(s)
      BY <1>2, <1>3, <1>5, Zenon DEF GaugesAfter
    <2>2. QED
      BY <1>5, <2>1, Zenon DEF a
  <1>6. QED
    BY <1>4, <1>5, Zenon

Total(metrics, n) == SumUpTo(Deltas(metrics, n), Len(metrics))

LEMMA DeltasType ==
    ASSUME NEW s \in Seq(Accepted), NEW n
    PROVE  /\ Deltas(s, n) \in [1..Len(s) -> Int]
           /\ \A i \in 1..Len(s) :
                 Deltas(s, n)[i] = IF s[i].mtype = "counter" /\ s[i].id = n THEN s[i].delta ELSE 0
           /\ Total(s, n) \in Int
  <1>1. \A i \in 1..Len(s) : s[i].mtype = "counter" => s[i].delta \in Int
    BY AcceptedFields
  <1>2. DOMAIN s = 1..Len(s) /\ Len(s) \in Nat
    OBVIOUS
  <1>3. Deltas(s, n) = [i \in 1..Len(s) |->
            IF s[i].mtype = "counter" /\ s[i].id = n THEN s[i].delta ELSE 0]
    BY <1>2, Zenon DEF Deltas
  <1>4. Deltas(s, n) \in [1..Len(s) -> Int]
    BY <1>1, <1>3
  <1>5. \A i \in 1..Len(s) :
           Deltas(s, n)[i] = IF s[i].mtype = "counter" /\ s[i].id = n THEN s[i].delta ELSE 0
    BY <1>3, Zenon
  <1>6. QED
    BY <1>2, <1>4, <1>5, SumType, Zenon DEF Total

LEMMA TotalAppend ==
    ASSUME NEW s \in Seq(Accepted), NEW m \in Accepted, NEW n
    PROVE  Total(Append(s, m), n) =
              Total(s, n) + (IF m.mtype = "counter" /\ m.id = n THEN m.delta ELSE 0)
  <1> DEFINE a == Append(s, m)
             k == Len(s)
  <1>1. /\ a \in Seq(Accepted) /\ k \in Nat /\ Len(a) = k + 1 /\ k + 1 \in 1..(k + 1)
        /\ \A i \in 1..k : a[i] = s[i]
        /\ \A i \in 1..k : i \in 1..(k + 1)
        /\ a[k + 1] = m
    BY OneMore
  <1> HIDE DEF a
  <1>2. /\ Deltas(s, n) \in [1..k -> Int]
        /\ \A i \in 1..k :
              Deltas(s, n)[i] = IF s[i].mtype = "counter" /\ s[i].id = n THEN s[i].delta ELSE 0
    BY DeltasType, Zenon
  <1> HIDE DEF k
  <1>3. /\ Deltas(a, n) \in [1..(k + 1) -> Int]
        /\ \A i \in 1..(k + 1) :
              Deltas(a, n)[i] = IF a[i].mtype = "counter" /\ a[i].id = n THEN a[i].delta ELSE 0
    <2>1. /\ Deltas(a, n) \in [1..Len(a) -> Int]
          /\ \A i \in 1..Len(a) :
                Deltas(a, n)[i] = IF a[i].mtype = "counter" /\ a[i].id = n THEN a[i].delta ELSE 0
      <3>1. a \in Seq(Accepted)
        BY <1>1
      <3>2. QED
        BY <3>1, DeltasType
    <2>2. Len(a) = k + 1
      BY <1>1
    <2>3. QED
      BY <2>1, <2>2, Zenon
  <1>4. \A i \in 1..k : Deltas(s, n)[i] = Deltas(a, n)[i]
    BY <1>1, <1>2, <1>3, Zenon
  <1>5. SumUpTo(Deltas(a, n), k + 1) = SumUpTo(Deltas(s, n), k) + Deltas(a, n)[k + 1]
    BY <1>1, <1>2, <1>3, <1>4, SumExtends, Zenon
  <1>6. Deltas(a, n)[k + 1] = IF m.mtype = "counter" /\ m.id = n THEN m.delta ELSE 0
    BY <1>1, <1>3, Zenon
  <1>7. QED
    BY <1>1, <1>5, <1>6, Zenon DEF Total, a, k

\* What was never counted adds up to nothing.
LEMMA TotalOfNone ==
    ASSUME NEW s \in Seq(Accepted), NEW n, n \notin Ids(s, "counter")
    PROVE  Total(s, n) = 0
  <1>1. Deltas(s, n) \in [1..Len(s) -> Int] /\ Len(s) \in Nat /\ DOMAIN s = 1..Len(s)
    BY DeltasType
  <1>2. \A i \in 1..Len(s) : ~(s[i].mtype = "counter" /\ s[i].id = n)
    BY <1>1, Zenon DEF Ids
  <1>3. \A i \in 1..Len(s) : Deltas(s, n)[i] = 0
    BY <1>2, DeltasType, Zenon
  <1>4. QED
    BY <1>1, <1>3, SumOfZeros, Zenon DEF Total

LEMMA CountersAppend ==
    ASSUME NEW s \in Seq(Accepted), NEW m \in Accepted
    PROVE  CountersAfter(Append(s, m)) =
              IF m.mtype = "counter"
              THEN Put(CountersAfter(s), m.id, Wrap(At(CountersAfter(s), m.id) + m.delta))
              ELSE CountersAfter(s)
  <1> DEFINE a == Append(s, m)
  <1>1. Ids(a, "counter") = Ids(s, "counter") \cup (IF m.mtype = "counter" THEN {m.id} ELSE {})
    BY IdsAppend
  <1>2. \A n : Total(a, n) =
            Total(s, n) + (IF m.mtype = "counter" /\ m.id = n THEN m.delta ELSE 0)
    BY TotalAppend
  <1>3. \A n : Total(s, n) \in Int
    BY DeltasType, Zenon
  <1> HIDE DEF a
  <1>4. \A x : CountersAfter(x) = [n \in Ids(x, "counter") |-> Wrap(Total(x, n))]
    BY Zenon DEF CountersAfter, Total
  <1>5. /\ DOMAIN CountersAfter(s) = Ids(s, "counter")
        /\ \A n \in Ids(s, "counter") : CountersAfter(s)[n] = Wrap(Total(s, n))
    BY <1>4, Zenon
  <1>6. ASSUME NEW n, ~(m.mtype = "counter" /\ m.id = n)
        PROVE  Total(a, n) = Total(s, n)
    <2>1. Total(a, n) = Total(s, n) + 0
      BY <1>2, <1>6, Zenon
    <2>2. PICK x \in Int : x = Total(s, n)
      BY <1>3, Zenon
    <2>3. x + 0 = x
      OBVIOUS
    <2>4. QED
      BY <2>1, <2>2, <2>3, Zenon
  <1>7. CASE m.mtype = "counter"
    <2> DEFINE v == Wrap(At(CountersAfter(s), m.id) + m.delta)
    <2>1. m.delta \in Int
      BY <1>7, AcceptedFields
    <2>2. Total(a, m.id) = Total(s, m.id) + m.delta
      BY <1>2, <1>7, Zenon
    <2>3. Wrap(Total(a, m.id)) = v
      <3>1. CASE m.id \in Ids(s, "counter")
        <4>1. At(CountersAfter(s), m.id) = Wrap(Total(s, m.id))
          BY <1>5, <3>1, Zenon DEF At
        <4>2. Wrap(Wrap(Total(s, m.id)) + m.delta) = Wrap(Total(s, m.id) + m.delta)
          BY <1>3, <2>1, WrapFacts, Zenon
        <4>3. QED
          BY <2>2, <4>1, <4>2, Zenon
      <3>2. CASE m.id \notin Ids(s, "counter")
        <4>1. At(CountersAfter(s), m.id) = 0
          BY <1>5, <3>2, Zenon DEF At
        <4>2. Total(s, m.id) = 0
          BY <3>2, TotalOfNone, Zenon
        <4>3. QED
          BY <2>2, <4>1, <4>2, Zenon
      <3>3. QED
        BY <3>1, <3>2, Zenon
    <2> HIDE DEF v
    <2>4. \A n \in Ids(s, "counter") \cup {m.id} :
             Wrap(Total(a, n)) = IF n = m.id THEN v ELSE CountersAfter(s)[n]
      BY <1>5, <1>6, <2>3, Zenon
    <2>5. CountersAfter(a) = [n \in Ids(s, "counter") \cup {m.id} |->
              IF n = m.id THEN v ELSE CountersAfter(s)[n]]
      BY <1>1, <1>4, <1>7, <2>4, Zenon
    <2>6. Put(CountersAfter(s), m.id, v) = [n \in Ids(s, "counter") \cup {m.id} |->
              IF n = m.id THEN v ELSE CountersAfter(s)[n]]
      BY <1>5, Zenon DEF Put
    <2>7. QED
      BY <1>7, <2>5, <2>6, Zenon DEF a, v
  <1>8. CASE m.mtype # "counter"
    <2>1. \A n \in Ids(s, "counter") : Wrap(Total(a, n)) = Wrap(Total(s, n))
      BY <1>6, <1>8, Zenon
    <2>2. Ids(a, "counter") = Ids(s, "counter")
      BY <1>1, <1>8, Zenon
    <2>3. CountersAfter(a) = CountersAfter(s)
      BY <1>4, <2>1, <2>2, Zenon
    <2>4. QED
      BY <1>8, <2>3, Zenon DEF a
  <1>9. QED
    BY <1>7, <1>8, Zenon

\* One metric of a batch does to the maps what it does to the reference.
LEMMA UpdateOneAfter ==
    ASSUME NEW s \in Seq(Accepted), NEW m \in Accepted, NEW u
    PROVE  UpdateOne([gauges |-> GaugesAfter(s), counters |-> CountersAfter(s),
                      updated |-> u], m)
           = [gauges |-> GaugesAfter(Append(s, m)), counters |-> CountersAfter(Append(s, m)),
              updated |-> Append(u, Valued(m, Append(s, m)))]
  <1> DEFINE st == [gauges |-> GaugesAfter(s), counters |-> CountersAfter(s), updated |-> u]
             a == Append(s, m)
  <1>1. /\ m.mtype = "gauge" => m = Gauge(m.id, m.value) /\ m.value # Nil
        /\ m.mtype = "counter" => m.delta # Nil
        /\ m.mtype \in {"gauge", "counter"}
    BY AcceptedFields
  <1>2. \A map, n, v : Put(map, n, v)[n] = v
    BY Zenon DEF Put
  <1>3. CASE m.mtype = "gauge"
    <2>1. UpdateOne(st, m) = [st EXCEPT !.gauges = Put(@, m.id, m.value), !.updated = Append(@, m)]
      BY <1>1, <1>3, Zenon DEF UpdateOne
    <2>2. UpdateOne(st, m) = [gauges |-> Put(GaugesAfter(s), m.id, m.value),
                              counters |-> CountersAfter(s), updated |-> Append(u, m)]
      BY <2>1
    <2>3. /\ GaugesAfter(a) = Put(GaugesAfter(s), m.id, m.value)
          /\ CountersAfter(a) = CountersAfter(s)
      BY <1>3, GaugesAppend, CountersAppend
    <2>4. Valued(m, a) = m
      <3>1. Valued(m, a) = Gauge(m.id, GaugesAfter(a)[m.id])
        BY <1>3, Zenon DEF Valued
      <3>2. GaugesAfter(a)[m.id] = m.value
        BY <1>2, <2>3
      <3>3. Gauge(m.id, m.value) = m
        BY <1>1, <1>3
      <3>4. QED
        BY <3>1, <3>2, <3>3, Zenon
    <2>5. QED
      BY <2>2, <2>3, <2>4, Zenon
  <1>4. CASE m.mtype = "counter"
    <2> DEFINE v == Wrap(At(CountersAfter(s), m.id) + m.delta)
    <2>1. UpdateOne(st, m) = [st EXCEPT !.counters = Put(@, m.id, v),
                                        !.updated = Append(@, Counter(m.id, v))]
      <3>1. UpdateOne(st, m) =
               LET sum == Wrap(At(st.counters, m.id) + m.delta) IN
               [st EXCEPT !.counters = Put(@, m.id, sum),
                          !.updated = Append(@, Counter(m.id, sum))]
        BY <1>1, <1>4 DEF UpdateOne
      <3>2. st.counters = CountersAfter(s)
        OBVIOUS
      <3>3. QED
        BY <3>1, <3>2, Zenon
    <2> HIDE DEF v
    <2>2. UpdateOne(st, m) = [gauges |-> GaugesAfter(s),
                              counters |-> Put(CountersAfter(s), m.id, v),
                              updated |-> Append(u, Counter(m.id, v))]
      BY <2>1
    <2>3. /\ GaugesAfter(a) = GaugesAfter(s)
          /\ CountersAfter(a) = Put(CountersAfter(s), m.id, v)
      BY <1>4, GaugesAppend, CountersAppend DEF v
    <2>4. Valued(m, a) = Counter(m.id, v)
      BY <1>2, <1>4, <2>3 DEF Valued
    <2>5. QED
      BY <2>2, <2>3, <2>4, Zenon
  <1>5. QED
    BY <1>1, <1>3, <1>4

LEMMA PrefixType ==
    ASSUME NEW S, NEW s \in Seq(S), NEW k \in 0..Len(s)
    PROVE  SubSeq(s, 1, k) \in Seq(S)
  OBVIOUS

\* The maps and the answer of a batch, whatever came before it.
LEMMA UpdateMetricsAfter ==
    ASSUME NEW s \in Seq(Accepted), NEW ms \in Seq(Accepted),
           gauges = GaugesAfter(s), counters = CountersAfter(s)
    PROVE  /\ UpdateMetrics(ms).gauges = GaugesAfter(s \o ms)
           /\ UpdateMetrics(ms).counters = CountersAfter(s \o ms)
           /\ UpdateMetrics(ms).updated =
                 [j \in DOMAIN ms |-> Valued(ms[j], s \o SubSeq(ms, 1, j))]
  <1> DEFINE n == Len(ms)
             upTo(i) == s \o SubSeq(ms, 1, i)
             answer(i) == [j \in 1..i |-> Valued(ms[j], upTo(j))]
             state(i) == [gauges |-> GaugesAfter(upTo(i)),
                          counters |-> CountersAfter(upTo(i)), updated |-> answer(i)]
             g == [i \in 0..n |-> state(i)]
             Follows(h) == h = [i \in 0..n |-> IF i = 0 THEN State ELSE UpdateOne(h[i - 1], ms[i])]
             h == CHOOSE h : Follows(h)
  <1>1. n \in Nat /\ \A i \in 1..n : ms[i] \in Accepted
    OBVIOUS
  <1>2. UpdateMetrics(ms) = h[n]
    BY Zenon DEF UpdateMetrics
  <1>3. state(0) = State
    <2>1. upTo(0) = s
      OBVIOUS
    <2>2. answer(0) = <<>>
      OBVIOUS
    <2>3. QED
      BY <2>1, <2>2, Zenon DEF State
  <1>4. ASSUME NEW i \in 1..n
        PROVE  state(i) = UpdateOne(state(i - 1), ms[i])
    <2>1. upTo(i) = Append(upTo(i - 1), ms[i]) /\ upTo(i - 1) \in Seq(Accepted)
      <3>1. PICK k \in 0..(n - 1) : i = k + 1 /\ i - 1 = k
        BY <1>1
      <3>2. SubSeq(ms, 1, k + 1) = Append(SubSeq(ms, 1, k), ms[k + 1])
        BY <1>1
      <3>3. PICK t \in Seq(Accepted) : t = SubSeq(ms, 1, k)
        <4>1. k \in 0..Len(ms)
          BY <1>1
        <4>2. SubSeq(ms, 1, k) \in Seq(Accepted)
          BY <4>1, PrefixType, Zenon
        <4>3. QED
          BY <4>2, Zenon
      <3>4. PICK m \in Accepted : m = ms[i]
        BY <1>1
      <3>5. s \o Append(t, m) = Append(s \o t, m) /\ s \o t \in Seq(Accepted)
        OBVIOUS
      <3>6. QED
        BY <3>1, <3>2, <3>3, <3>4, <3>5, Zenon
    <2> HIDE DEF upTo
    <2>2. answer(i) = Append(answer(i - 1), Valued(ms[i], upTo(i)))
      OBVIOUS
    <2>3. ms[i] \in Accepted
      BY <1>1
    <2> HIDE DEF answer
    <2>4. PICK t \in Seq(Accepted), m \in Accepted : t = upTo(i - 1) /\ m = ms[i]
      BY <2>1, <2>3, Zenon
    <2>5. PICK u : u = answer(i - 1)
      OBVIOUS
    <2>6. UpdateOne([gauges |-> GaugesAfter(t), counters |-> CountersAfter(t), updated |-> u], m)
          = [gauges |-> GaugesAfter(Append(t, m)), counters |-> CountersAfter(Append(t, m)),
             updated |-> Append(u, Valued(m, Append(t, m)))]
      BY UpdateOneAfter, Zenon
    <2>7. upTo(i) = Append(t, m) /\ answer(i) = Append(u, Valued(m, Append(t, m)))
      BY <2>1, <2>2, <2>4, <2>5, Zenon
    <2>8. QED
      BY <2>4, <2>5, <2>6, <2>7, Zenon
  <1>5. Follows(g)
    <2>1. ASSUME NEW i \in 0..n
          PROVE  state(i) = IF i = 0 THEN State ELSE UpdateOne(g[i - 1], ms[i])
      <3>1. CASE i = 0
        BY <1>3, <3>1, Zenon
      <3>2. CASE i # 0
        <4>1. i \in 1..n /\ i - 1 \in 0..n
          BY <1>1, <3>2
        <4>2. g[i - 1] = state(i - 1)
          BY <4>1, Zenon
        <4>3. QED
          BY <1>4, <3>2, <4>1, <4>2, Zenon
      <3>3. QED
        BY <3>1, <3>2, Zenon
    <2>2. QED
      BY <2>1, Zenon
  <1>6. Follows(h)
    BY <1>5, Zenon
  <1> HIDE DEF h
  <1> DEFINE T == {i \in 0..n : h[i] = state(i)}
  <1>7. \A i \in 0..n : h[i] = IF i = 0 THEN State ELSE UpdateOne(h[i - 1], ms[i])
    BY <1>6, Zenon
  <1>8. 0 \in T
    <2>1. 0 \in 0..n /\ 0 = 0
      BY <1>1
    <2>2. h[0] = State
      BY <1>7, <2>1, Zenon
    <2>3. QED
      BY <1>3, <2>1, <2>2, Zenon
  <1>9. ASSUME NEW k \in 0..n, k \in T, k < n PROVE k + 1 \in T
    <2>1. PICK i \in 1..n : i = k + 1 /\ i - 1 = k /\ i \in 0..n /\ i # 0
      BY <1>1, <1>9
    <2>2. h[i] = UpdateOne(h[i - 1], ms[i])
      BY <1>7, <2>1, Zenon
    <2>3. h[i - 1] = state(i - 1)
      BY <1>9, <2>1, Zenon
    <2>4. h[i] = state(i)
      BY <1>4, <2>2, <2>3, Zenon
    <2>5. i \in T
      BY <2>1, <2>4, Zenon
    <2>6. QED
      BY <2>1, <2>5
  <1> HIDE DEF T
  <1>10. n \in T
    <2>1. n \in 0..n
      BY <1>1
    <2>2. QED
      BY <2>1, <1>1, <1>8, <1>9, StepwiseCover, Zenon
  <1>11. UpdateMetrics(ms) = state(n)
    BY <1>2, <1>10, Zenon DEF T
  <1>12. upTo(n) = s \o ms /\ DOMAIN ms = 1..n
    OBVIOUS
  <1>13. answer(n) = [j \in DOMAIN ms |-> Valued(ms[j], s \o SubSeq(ms, 1, j))]
    BY <1>12, Zenon
  <1> HIDE DEF upTo, answer, n
  <1>14. /\ state(n).gauges = GaugesAfter(upTo(n)) /\ state(n).updated = answer(n)
         /\ state(n).counters = CountersAfter(upTo(n))
    OBVIOUS
  <1> HIDE DEF state
  <1>15. QED
    BY <1>11, <1>12, <1>13, <1>14, Zenon

LEMMA IdsConcat ==
    ASSUME NEW s \in Seq(Accepted), NEW ms \in Seq(Accepted), NEW t
    PROVE  Ids(s, t) \subseteq Ids(s \o ms, t) /\ Ids(ms, t) \subseteq Ids(s \o ms, t)
  <1> DEFINE c == s \o ms
  <1>1. /\ \A i \in DOMAIN s : i \in DOMAIN c /\ c[i] = s[i]
        /\ \A i \in DOMAIN ms : Len(s) + i \in DOMAIN c /\ c[Len(s) + i] = ms[i]
    OBVIOUS
  <1> HIDE DEF c
  <1>2. ASSUME NEW x \in Ids(s, t) PROVE x \in Ids(c, t)
    <2>1. PICK i \in DOMAIN s : s[i].mtype = t /\ x = s[i].id
      BY <1>2, Zenon DEF Ids
    <2>2. i \in DOMAIN c /\ c[i] = s[i]
      BY <1>1, Zenon
    <2>3. QED
      BY <2>1, <2>2, Zenon DEF Ids
  <1>3. ASSUME NEW x \in Ids(ms, t) PROVE x \in Ids(c, t)
    <2>1. PICK i \in DOMAIN ms : ms[i].mtype = t /\ x = ms[i].id
      BY <1>3, Zenon DEF Ids
    <2>2. Len(s) + i \in DOMAIN c /\ c[Len(s) + i] = ms[i]
      BY <1>1, Zenon
    <2>3. QED
      BY <2>1, <2>2, Zenon DEF Ids
  <1>4. QED
    BY <1>2, <1>3, Zenon DEF c

LEMMA IdsType ==
    ASSUME NEW s \in Seq(Accepted), NEW t
    PROVE  Ids(s, t) \subseteq Names /\ IsFiniteSet(Ids(s, t))
  <1>1. \A i \in DOMAIN s : s[i] \in Accepted
    OBVIOUS
  <1>2. Ids(s, t) \subseteq Names
    <2>1. ASSUME NEW x \in Ids(s, t) PROVE x \in Names
      <3>1. PICK i \in DOMAIN s : x = s[i].id
        BY <2>1, Zenon DEF Ids
      <3>2. QED
        BY <1>1, <3>1, AcceptedFields, Zenon
    <2>2. QED
      BY <2>1, Zenon
  <1>3. IsFiniteSet(Ids(s, t))
    <2> DEFINE D == {j \in DOMAIN s : s[j].mtype = t}
               f == [i \in D |-> s[i].id]
    <2>1. IsFiniteSet(D)
      <3>1. DOMAIN s = 1..Len(s) /\ Len(s) \in Nat /\ IsFiniteSet(1..Len(s))
        BY FS_Interval
      <3>2. D \in SUBSET (1..Len(s))
        BY <3>1, Zenon
      <3>3. QED
        BY <3>1, <3>2, FS_Subset, Zenon
    <2>2. f \in Surjection(D, Ids(s, t))
      BY DEF Surjection, Ids
    <2>3. QED
      BY <2>1, <2>2, FS_Surjection, Zenon
  <1>4. QED
    BY <1>2, <1>3, Zenon

\* A set in some order.
LEMMA ListOfSet ==
    ASSUME NEW S, IsFiniteSet(S)
    PROVE  SetToSeq(S) \in Seq(S) /\ ToSet(SetToSeq(S)) = S
  <1> DEFINE n == Cardinality(S)
             f == SetToSeq(S)
  <1>1. n \in Nat /\ ExistsBijection(1..n, S)
    BY FS_CardinalityType, Zenon
  <1>2. PICK g \in [1..n -> S] : IsInjective(g)
    <2>1. PICK g : g \in Bijection(1..n, S)
      BY <1>1, Zenon DEF ExistsBijection
    <2>2. g \in [1..n -> S] /\ IsInjective(g)
      BY <2>1 DEF Bijection, Injection, IsInjective
    <2>3. QED
      BY <2>2, Zenon
  <1>3. f \in [1..n -> S] /\ IsInjective(f)
    BY <1>2, Zenon DEF SetToSeq
  <1> HIDE DEF f
  <1>4. f \in Injection(1..n, S)
    BY <1>3 DEF Injection, IsInjective
  <1>5. IsFiniteSet(1..n) /\ Cardinality(1..n) = n
    BY <1>1, FS_Interval
  <1>6. f \in Surjection(1..n, S)
    BY <1>4, <1>5, FS_Injection, Zenon
  <1>7. f \in Seq(S)
    BY <1>1, <1>3
  <1>8. ToSet(f) = S
    BY <1>3, <1>6 DEF ToSet, Surjection
  <1>9. QED
    BY <1>7, <1>8, Zenon DEF f

LEMMA ToSetConcat ==
    ASSUME NEW S, NEW T, NEW s \in Seq(S), NEW t \in Seq(T)
    PROVE  ToSet(s \o t) = ToSet(s) \cup ToSet(t)
  <1> DEFINE c == s \o t
             k == Len(s)
             n == Len(t)
  <1>1. k \in Nat /\ n \in Nat /\ DOMAIN s = 1..k /\ DOMAIN t = 1..n
    OBVIOUS
  <1>2. /\ DOMAIN c = 1..(k + n)
        /\ \A i \in 1..k : c[i] = s[i]
        /\ \A i \in 1..n : c[k + i] = t[i]
    OBVIOUS
  <1> HIDE DEF c, k, n
  <1>3. ASSUME NEW x \in ToSet(c) PROVE x \in ToSet(s) \cup ToSet(t)
    <2>1. PICK i \in 1..(k + n) : x = c[i]
      BY <1>2, <1>3, Zenon DEF ToSet
    <2>2. CASE i <= k
      <3>1. i \in 1..k
        BY <1>1, <2>2
      <3>2. QED
        BY <1>1, <1>2, <2>1, <3>1, Zenon DEF ToSet
    <2>3. CASE i > k
      <3>1. PICK j \in 1..n : i = k + j
        BY <1>1, <2>3
      <3>2. x = t[j]
        BY <1>2, <2>1, <3>1, Zenon
      <3>3. QED
        BY <1>1, <3>2, Zenon DEF ToSet
    <2>4. QED
      BY <1>1, <2>2, <2>3
  <1>4. ASSUME NEW x \in ToSet(s) PROVE x \in ToSet(c)
    <2>1. PICK i \in 1..k : x = s[i]
      BY <1>1, <1>4, Zenon DEF ToSet
    <2>2. i \in 1..(k + n)
      BY <1>1
    <2>3. QED
      BY <1>2, <2>1, <2>2, Zenon DEF ToSet
  <1>5. ASSUME NEW x \in ToSet(t) PROVE x \in ToSet(c)
    <2>1. PICK i \in 1..n : x = t[i]
      BY <1>1, <1>5, Zenon DEF ToSet
    <2>2. k + i \in 1..(k + n)
      BY <1>1
    <2>3. QED
      BY <1>2, <2>1, <2>2, Zenon DEF ToSet
  <1>6. QED
    BY <1>3, <1>4, <1>5, Zenon DEF c

\* What a list shows.
LEMMA SnapshotShows ==
    ASSUME IsFiniteSet(DOMAIN gauges), IsFiniteSet(DOMAIN counters)
    PROVE  ToSet(Snapshot) = {Gauge(n, gauges[n]) : n \in DOMAIN gauges}
                             \cup {Counter(n, counters[n]) : n \in DOMAIN counters}
  <1> DEFINE A == {Gauge(n, gauges[n]) : n \in DOMAIN gauges}
             B == {Counter(n, counters[n]) : n \in DOMAIN counters}
  <1>1. IsFiniteSet(A)
    <2> DEFINE f == [n \in DOMAIN gauges |-> Gauge(n, gauges[n])]
    <2>1. f \in Surjection(DOMAIN gauges, A)
      BY DEF Surjection
    <2>2. QED
      BY <2>1, FS_Surjection, Zenon
  <1>2. IsFiniteSet(B)
    <2> DEFINE f == [n \in DOMAIN counters |-> Counter(n, counters[n])]
    <2>1. f \in Surjection(DOMAIN counters, B)
      BY DEF Surjection
    <2>2. QED
      BY <2>1, FS_Surjection, Zenon
  <1>3. Snapshot = SetToSeq(A) \o SetToSeq(B)
    BY Zenon DEF Snapshot
  <1> HIDE DEF A, B
  <1>4. /\ SetToSeq(A) \in Seq(A) /\ ToSet(SetToSeq(A)) = A
        /\ SetToSeq(B) \in Seq(B) /\ ToSet(SetToSeq(B)) = B
    BY <1>1, <1>2, ListOfSet, Zenon
  <1>5. ToSet(SetToSeq(A) \o SetToSeq(B)) = A \cup B
    <2>1. PICK s \in Seq(A), t \in Seq(B) : s = SetToSeq(A) /\ t = SetToSeq(B)
      BY <1>4, Zenon
    <2>2. ToSet(s \o t) = ToSet(s) \cup ToSet(t)
      BY ToSetConcat
    <2>3. QED
      BY <1>4, <2>1, <2>2, Zenon
  <1>6. QED
    BY <1>3, <1>5, Zenon DEF A, B

----------------------------------------------------------------------------
(* Handlers and the log.                                                   *)

Places == {"new", "execute", "save", "read", "publish", "done"}

EventNames ==
    {[i \in DOMAIN in.metrics |-> Normal(in.metrics[i]).id] : in \in Inputs}

\* The part of the types that does not depend on what the storage computes.
HandlerTypes ==
    /\ pc \in [Requests -> Places]
    /\ status \in [Requests -> {0, 200, 400, 404, 500}]
    /\ DOMAIN input = Requests
    /\ \A r \in Requests : pc[r] # "new" => input[r] \in Inputs
    /\ log \in Seq(Requests)
    /\ events \in Seq(EventNames)

\* Only a request that was not refused gets to the storage, and to an event
\* only one the storage has taken.
AcceptedInv ==
    /\ \A r \in Requests :
          pc[r] \in {"execute", "save", "read", "publish"} => Refusal(input[r]) = 0
    /\ \A r \in Requests :
          /\ pc[r] = "new" => r \notin ToSet(log)
          /\ pc[r] = "execute" => r \notin ToSet(log)
          /\ pc[r] \in {"save", "read", "publish"} => r \in ToSet(log)
          /\ pc[r] = "publish" => status[r] = 200
          /\ pc[r] = "new" => status[r] # 200
    /\ \A r \in ToSet(log) : Refusal(input[r]) = 0

LEMMA ToSetOfAppend ==
    ASSUME NEW S, NEW s \in Seq(S), NEW x \in S
    PROVE  ToSet(Append(s, x)) = ToSet(s) \cup {x}
  <1>1. /\ DOMAIN Append(s, x) = DOMAIN s \cup {Len(s) + 1}
        /\ \A i \in DOMAIN s : Append(s, x)[i] = s[i]
        /\ Append(s, x)[Len(s) + 1] = x
    OBVIOUS
  <1>2. QED
    BY <1>1, Zenon DEF ToSet

LEMMA LogMembers == HandlerTypes => ToSet(log) \subseteq Requests
  BY DEF HandlerTypes, ToSet

\* What Answer writes, whatever the answer is.
LEMMA AnswerTypes ==
    ASSUME HandlerTypes, NEW r \in Requests, NEW code \in {200, 400, 404, 500},
           NEW metrics, NEW next \in Places, Answer(r, code, metrics, next)
    PROVE  /\ pc' = [pc EXCEPT ![r] = next] /\ status' = [status EXCEPT ![r] = code]
           /\ pc' \in [Requests -> Places]
           /\ status' \in [Requests -> {0, 200, 400, 404, 500}]
  BY DEF Answer, HandlerTypes

LEMMA RefusalValues == \A in : Refusal(in) \in {0, 400, 404}
  BY DEF Refusal

\* A handler goes from one place to a later one; it is in the log from the step
\* in which the storage takes its update; a success is answered on the way to the
\* event, or by a request that is no update.
Goes(r, p, c) ==
    /\ pc' = [pc EXCEPT ![r] = p]
    /\ status' = [status EXCEPT ![r] = c]
    /\ \/ log' = log
       \/ log' = Append(log, r) /\ pc[r] = "execute"
    /\ pc[r] = "new" => p \in {"execute", "done"} /\ c # 200
    /\ pc[r] = "execute" =>
          \/ p \in {"save", "read", "publish"} /\ log' = Append(log, r)
          \/ p = "done" /\ (c # 200 \/ log' = log)
    /\ pc[r] = "save" => p \in {"read", "publish"} \/ (p = "done" /\ c # 200)
    /\ pc[r] = "read" => p = "publish"
    /\ p = "publish" => c = 200
    /\ pc[r] = "publish" => p = "done" /\ c = status[r]
    /\ pc[r] # "done"

Steps(r) ==
    \/ Call(r) \/ Update(r) \/ UpdateFails(r) \/ Save(r) \/ ReadBack(r)
    \/ GetValue(r) \/ ListMetrics(r) \/ ReadFails(r) \/ Publish(r)

LEMMA HandlerGoes ==
    ASSUME HandlerTypes, AcceptedInv, NEW r \in Requests, Steps(r)
    PROVE  \E p \in Places, c \in {0, 200, 400, 404, 500} : Goes(r, p, c)
  <1> USE DEF HandlerTypes, Places
  <1>1. /\ pc \in [Requests -> Places] /\ status \in [Requests -> {0, 200, 400, 404, 500}]
        /\ status = [status EXCEPT ![r] = status[r]]
        /\ status[r] \in {0, 200, 400, 404, 500}
    OBVIOUS
  <1>2. CASE Call(r)
    <2>1. PICK in \in Inputs :
              IF Refusal(in) # 0 THEN Answer(r, Refusal(in), <<>>, "done")
              ELSE pc' = [pc EXCEPT ![r] = "execute"] /\ UNCHANGED <<status, body>>
      BY <1>2 DEF Call
    <2>2. pc[r] = "new" /\ log' = log
      BY <1>2 DEF Call
    <2>3. CASE Refusal(in) # 0
      <3>1. PICK c \in {400, 404} : c = Refusal(in)
        BY <2>3, RefusalValues
      <3>2. pc' = [pc EXCEPT ![r] = "done"] /\ status' = [status EXCEPT ![r] = c]
        BY <2>1, <2>3, <3>1, Zenon DEF Answer
      <3>3. Goes(r, "done", c)
        BY <2>2, <3>2 DEF Goes
      <3>4. QED
        BY <3>3
    <2>4. CASE Refusal(in) = 0
      <3>1. pc' = [pc EXCEPT ![r] = "execute"] /\ status' = status
        BY <2>1, <2>4, Zenon
      <3>2. status[r] # 200
        BY <2>2, Zenon DEF AcceptedInv
      <3>3. Goes(r, "execute", status[r])
        BY <1>1, <2>2, <3>1, <3>2 DEF Goes
      <3>4. QED
        <4>1. "execute" \in Places /\ status[r] \in {0, 200, 400, 404, 500}
          BY <1>1
        <4>2. QED
          BY <3>3, <4>1
    <2>5. QED
      BY <2>3, <2>4
  <1>3. CASE Update(r)
    <2>1. pc[r] = "execute" /\ log' = Append(log, r)
      BY <1>3, Zenon DEF Update, Updating
    <2>2. \/ pc' = [pc EXCEPT ![r] = "save"] /\ status' = status
          \/ pc' = [pc EXCEPT ![r] = "read"] /\ status' = status
          \/ pc' = [pc EXCEPT ![r] = "publish"] /\ status' = [status EXCEPT ![r] = 200]
      BY <1>3, Zenon DEF Update, AfterUpdate, Answer
    <2>3. \/ Goes(r, "save", status[r]) \/ Goes(r, "read", status[r])
          \/ Goes(r, "publish", 200)
      BY <1>1, <2>1, <2>2 DEF Goes
    <2>4. QED
      BY <1>1, <2>3
  <1>4. CASE UpdateFails(r)
    <2>1. /\ pc[r] = "execute" /\ (log' = log \/ log' = Append(log, r))
          /\ pc' = [pc EXCEPT ![r] = "done"] /\ status' = [status EXCEPT ![r] = 500]
      BY <1>4, Zenon DEF UpdateFails, Updating, Answer
    <2>2. Goes(r, "done", 500)
      BY <2>1 DEF Goes
    <2>3. QED
      BY <2>2
  <1>5. CASE Save(r)
    BY <1>1, <1>5 DEF Save, AfterUpdate, Answer, Goes, history
  <1>6. CASE ReadBack(r)
    BY <1>6 DEF ReadBack, Answer, Goes, history
  <1>7. CASE GetValue(r)
    <2>1. /\ pc[r] = "execute" /\ log' = log
          /\ pc' = [pc EXCEPT ![r] = "done"]
          /\ \/ status' = [status EXCEPT ![r] = 200]
             \/ status' = [status EXCEPT ![r] = 404]
      BY <1>7 DEF GetValue, Answer, history
    <2>2. Goes(r, "done", 200) \/ Goes(r, "done", 404)
      BY <2>1 DEF Goes
    <2>3. QED
      BY <2>2
  <1>8. CASE ListMetrics(r)
    BY <1>8 DEF ListMetrics, Answer, Goes, history
  <1>9. CASE ReadFails(r)
    BY <1>9 DEF ReadFails, Answer, Goes, history
  <1>10. CASE Publish(r)
    BY <1>1, <1>10 DEF Publish, Goes, history, AcceptedInv
  <1>11. QED
    BY <1>2, <1>3, <1>4, <1>5, <1>6, <1>7, <1>8, <1>9, <1>10 DEF Steps

\* What a step writes of the inputs and the events.
LEMMA HandlerWrites ==
    ASSUME HandlerTypes, NEW r \in Requests, Steps(r)
    PROVE  /\ \/ input' = input /\ pc[r] # "new"
              \/ /\ pc[r] = "new" /\ log' = log
                 /\ \E in \in Inputs :
                       /\ input' = [input EXCEPT ![r] = in]
                       /\ pc'[r] # "done" => Refusal(in) = 0
           /\ \/ events' = events /\ pc[r] # "publish"
              \/ events' = Append(events, Named(r)) /\ pc[r] = "publish"
  <1>1. CASE Call(r)
    <2>1. /\ pc[r] = "new" /\ log' = log /\ events' = events
          /\ \E in \in Inputs :
                /\ input' = [input EXCEPT ![r] = in]
                /\ \/ Refusal(in) = 0
                   \/ pc' = [pc EXCEPT ![r] = "done"]
      BY <1>1, Zenon DEF Call, Answer
    <2>2. pc' = [pc EXCEPT ![r] = "done"] => pc'[r] = "done"
      BY DEF HandlerTypes
    <2>3. PICK in \in Inputs : /\ input' = [input EXCEPT ![r] = in]
                               /\ \/ Refusal(in) = 0
                                  \/ pc' = [pc EXCEPT ![r] = "done"]
      BY <2>1
    <2>4. pc'[r] # "done" => Refusal(in) = 0
      BY <2>2, <2>3
    <2>5. "new" # "publish"
      OBVIOUS
    <2>6. QED
      BY <2>1, <2>3, <2>4, <2>5, Zenon
  <1>2. CASE ~Call(r)
    <2>1. /\ input' = input /\ pc[r] # "new"
          /\ \/ events' = events /\ pc[r] # "publish"
             \/ events' = Append(events, Named(r)) /\ pc[r] = "publish"
      BY <1>2
      DEF Steps, Update, UpdateFails, Updating, Save, ReadBack, GetValue, ListMetrics,
          ReadFails, Publish
    <2>2. QED
      BY <2>1
  <1>3. QED
    BY <1>1, <1>2

LEMMA TypesStep ==
    ASSUME HandlerTypes, AcceptedInv, NEW r \in Requests, Steps(r)
    PROVE  HandlerTypes'
  <1>1. PICK p \in Places, c \in {0, 200, 400, 404, 500} : Goes(r, p, c)
    BY HandlerGoes
  <1>2. /\ pc' \in [Requests -> Places]
        /\ status' \in [Requests -> {0, 200, 400, 404, 500}]
    BY <1>1 DEF Goes, HandlerTypes
  <1>3. log' \in Seq(Requests)
    <2>1. log' = log \/ log' = Append(log, r)
      BY <1>1, Zenon DEF Goes
    <2>2. log \in Seq(Requests)
      BY Zenon DEF HandlerTypes
    <2>3. QED
      BY <2>1, <2>2
  <1>4. DOMAIN input' = Requests /\ \A x \in Requests : pc'[x] # "new" => input'[x] \in Inputs
    <2>1. \A x \in Requests \ {r} : pc'[x] = pc[x]
      BY <1>1 DEF Goes, HandlerTypes
    <2>2. CASE input' = input /\ pc[r] # "new"
      BY <2>1, <2>2 DEF HandlerTypes
    <2>3. CASE \E in \in Inputs : input' = [input EXCEPT ![r] = in]
      BY <2>1, <2>3 DEF HandlerTypes
    <2>4. QED
      BY <2>2, <2>3, HandlerWrites
  <1>5. events' \in Seq(EventNames)
    <2>1. ASSUME pc[r] = "publish"
          PROVE  Named(r) \in EventNames
      <3>1. input[r] \in Inputs
        BY <2>1 DEF HandlerTypes
      <3>2. Named(r) = [i \in DOMAIN input[r].metrics |-> Normal(input[r].metrics[i]).id]
        BY Zenon DEF Named, Items
      <3>3. QED
        BY <3>1, <3>2, Zenon DEF EventNames
    <2>2. QED
      BY <2>1, HandlerWrites DEF HandlerTypes
  <1>6. QED
    BY <1>2, <1>3, <1>4, <1>5 DEF HandlerTypes

LEMMA AcceptedStep ==
    ASSUME HandlerTypes, AcceptedInv, NEW r \in Requests, Steps(r)
    PROVE  AcceptedInv'
  <1>1. PICK p \in Places, c \in {0, 200, 400, 404, 500} : Goes(r, p, c)
    BY HandlerGoes
  <1>2. /\ pc'[r] = p /\ status'[r] = c
        /\ \A x \in Requests \ {r} : pc'[x] = pc[x] /\ status'[x] = status[x]
    BY <1>1 DEF Goes, HandlerTypes
  <1>3. ToSet(log') \in {ToSet(log), ToSet(log) \cup {r}}
    <2>1. ToSet(Append(log, r)) = ToSet(log) \cup {r}
      BY ToSetOfAppend DEF HandlerTypes
    <2>2. log' = log \/ log' = Append(log, r)
      BY <1>1 DEF Goes
    <2>3. QED
      BY <2>1, <2>2
  <1>4. log' = Append(log, r) => ToSet(log') = ToSet(log) \cup {r}
    BY ToSetOfAppend DEF HandlerTypes
  <1>5. \A x \in Requests \ {r} : input'[x] = input[x]
    BY HandlerWrites DEF HandlerTypes
  <1>6. p \in {"execute", "save", "read", "publish"} => Refusal(input'[r]) = 0
    <2>1. CASE input' = input /\ pc[r] # "new"
      BY <1>1, <2>1 DEF Goes, AcceptedInv, HandlerTypes, Places
    <2>2. CASE \E in \in Inputs : /\ input' = [input EXCEPT ![r] = in]
                                  /\ pc'[r] # "done" => Refusal(in) = 0
      BY <1>2, <2>2 DEF HandlerTypes
    <2>3. QED
      BY <2>1, <2>2, HandlerWrites
  <1>7. /\ p = "new" => FALSE
        /\ p = "execute" => r \notin ToSet(log')
        /\ p \in {"save", "read", "publish"} => r \in ToSet(log')
        /\ p = "publish" => c = 200
    BY <1>1, <1>4 DEF Goes, AcceptedInv, HandlerTypes, Places
  <1>8. \A x \in ToSet(log') : Refusal(input'[x]) = 0
    <2>1. ASSUME r \in ToSet(log')
          PROVE  Refusal(input'[r]) = 0
      <3>1. CASE input' = input /\ pc[r] # "new"
        BY <1>1, <1>4, <2>1, <3>1 DEF Goes, AcceptedInv, HandlerTypes, Places
      <3>2. CASE pc[r] = "new" /\ log' = log
        BY <2>1, <3>2 DEF AcceptedInv
      <3>3. QED
        BY <3>1, <3>2, HandlerWrites
    <2>2. \A x \in ToSet(log') : x = r \/ (x \in Requests \ {r} /\ x \in ToSet(log))
      BY <1>3, LogMembers
    <2>3. QED
      BY <1>5, <2>1, <2>2 DEF AcceptedInv
  <1>9. QED
    <2>1. \A x \in Requests \ {r} : x \in ToSet(log') <=> x \in ToSet(log)
      BY <1>3
    <2>2. ASSUME NEW x \in Requests
          PROVE  /\ pc'[x] \in {"execute", "save", "read", "publish"} =>
                       Refusal(input'[x]) = 0
                 /\ pc'[x] = "new" => x \notin ToSet(log')
                 /\ pc'[x] = "execute" => x \notin ToSet(log')
                 /\ pc'[x] \in {"save", "read", "publish"} => x \in ToSet(log')
                 /\ pc'[x] = "publish" => status'[x] = 200
                 /\ pc'[x] = "new" => status'[x] # 200
      <3>1. CASE x = r
        BY <1>2, <1>6, <1>7, <3>1
      <3>2. CASE x # r
        BY <1>2, <1>5, <2>1, <3>2 DEF AcceptedInv
      <3>3. QED
        BY <3>1, <3>2
    <2>3. QED
      BY <1>8, <2>2 DEF AcceptedInv

LEMMA HandlerInvariant == Spec => [](HandlerTypes /\ AcceptedInv)
  <1>1. Init => HandlerTypes /\ AcceptedInv
    BY DEF Init, HandlerTypes, AcceptedInv, Places, ToSet
  <1>2. HandlerTypes /\ AcceptedInv /\ [Next]_vars => HandlerTypes' /\ AcceptedInv'
    <2> SUFFICES ASSUME HandlerTypes, AcceptedInv, [Next]_vars
                 PROVE  HandlerTypes' /\ AcceptedInv'
      OBVIOUS
    <2>1. CASE UNCHANGED vars
      <3>1. UNCHANGED <<pc, status, input, log, events>>
        BY <2>1 DEF vars, history
      <3>2. HandlerTypes'
        BY <3>1 DEF HandlerTypes
      <3>3. AcceptedInv'
        BY <3>1 DEF AcceptedInv
      <3>4. QED
        BY <3>2, <3>3
    <2>2. ASSUME NEW r \in Requests, Steps(r)
          PROVE  HandlerTypes' /\ AcceptedInv'
      BY <2>2, TypesStep, AcceptedStep
    <2>3. QED
      BY <2>1, <2>2 DEF Next, Steps, Served
  <1>3. QED
    BY <1>1, <1>2, PTL DEF Spec

----------------------------------------------------------------------------
(* One event per update.  The two sets of the property grow together: when *)
(* a handler publishes, one by the place of its event and the other by its *)
(* request, and no other step changes either of them.                      *)

EventsOf(names) == {i \in DOMAIN events : events[i] = names}
AuditedAs(names) == {r \in Audited : Named(r) = names}

CountInv ==
    /\ IsFiniteSet(ToSet(log))
    /\ \A names : /\ IsFiniteSet(EventsOf(names))
                  /\ Cardinality(EventsOf(names)) = Cardinality(AuditedAs(names))

\* A handler is done with an update that was answered with success only by
\* publishing.
LEMMA AuditedStep ==
    ASSUME HandlerTypes, AcceptedInv, NEW r \in Requests, Steps(r)
    PROVE  /\ r \notin Audited
           /\ \A x \in Audited : Named(x)' = Named(x)
           /\ ToSet(log') = ToSet(log) \/ ToSet(log') = ToSet(log) \cup {r}
           /\ pc[r] # "publish" => events' = events /\ Audited' = Audited
           /\ pc[r] = "publish" =>
                 /\ events' = Append(events, Named(r))
                 /\ Named(r)' = Named(r)
                 /\ Audited' = Audited \cup {r}
  <1>1. PICK p \in Places, c \in {0, 200, 400, 404, 500} : Goes(r, p, c)
    BY HandlerGoes
  <1>2. /\ pc'[r] = p /\ status'[r] = c
        /\ \A x \in Requests \ {r} : pc'[x] = pc[x] /\ status'[x] = status[x]
    BY <1>1 DEF Goes, HandlerTypes
  <1>3. log' = Append(log, r) => ToSet(log') = ToSet(log) \cup {r}
    BY ToSetOfAppend DEF HandlerTypes
  <1>4. ToSet(log') = ToSet(log) \/ ToSet(log') = ToSet(log) \cup {r}
    BY <1>1, <1>3 DEF Goes
  <1>5. pc[r] # "done"
    BY <1>1 DEF Goes
  <1>6. ASSUME NEW x \in Audited
        PROVE  Named(x)' = Named(x)
    <2>1. x \in Requests /\ pc[x] = "done"
      BY LogMembers DEF Audited
    <2>2. input'[x] = input[x]
      BY <1>5, <2>1, HandlerWrites DEF HandlerTypes
    <2>3. QED
      BY <2>2, Zenon DEF Named, Items
  <1>7. \A x \in Requests \ {r} : x \in Audited' <=> x \in Audited
    <2>1. ASSUME NEW x \in Requests \ {r}
          PROVE  x \in Audited' <=> x \in Audited
      <3>1. x \in ToSet(log') <=> x \in ToSet(log)
        BY <1>4
      <3>2. (x \in Audited) <=> (x \in ToSet(log) /\ pc[x] = "done" /\ status[x] = 200)
        BY Zenon DEF Audited
      <3>3. (x \in Audited') <=> (x \in ToSet(log') /\ pc'[x] = "done" /\ status'[x] = 200)
        BY Zenon DEF Audited
      <3>4. QED
        BY <1>2, <3>1, <3>2, <3>3
    <2>2. QED
      BY <2>1
  <1>8. \A x \in Audited \cup Audited' : x \in Requests
    BY <1>4, LogMembers DEF Audited
  <1>9. ASSUME pc[r] # "publish"
        PROVE  r \notin Audited'
    BY <1>1, <1>2, <1>5, <1>9 DEF Goes, Audited, AcceptedInv, HandlerTypes, Places
  <1>10. ASSUME pc[r] = "publish"
         PROVE  /\ r \in Audited' /\ Named(r)' = Named(r)
                /\ events' = Append(events, Named(r))
    <2>1. r \in ToSet(log) /\ status[r] = 200
      BY <1>10 DEF AcceptedInv
    <2>2. log' = log /\ p = "done" /\ c = status[r]
      BY <1>1, <1>10 DEF Goes
    <2>3. r \in Audited'
      BY <1>2, <2>1, <2>2 DEF Audited
    <2>4. input' = input /\ events' = Append(events, Named(r))
      BY <1>10, HandlerWrites
    <2>5. QED
      BY <2>3, <2>4, Zenon DEF Named, Items
  <1>11. r \notin Audited
    BY <1>5 DEF Audited
  <1>12. pc[r] # "publish" => Audited' = Audited
    <2> SUFFICES ASSUME pc[r] # "publish"
                 PROVE  Audited' = Audited
      OBVIOUS
    <2>1. \A x : x \in Audited' <=> x \in Audited
      BY <1>7, <1>8, <1>9, <1>11
    <2>2. Audited' \subseteq Audited /\ Audited \subseteq Audited'
      BY <2>1
    <2>3. QED
      BY <2>2
  <1>13. pc[r] = "publish" => Audited' = Audited \cup {r}
    BY <1>7, <1>8, <1>10, Zenon
  <1>14. pc[r] # "publish" => events' = events
    BY HandlerWrites
  <1>15. QED
    BY <1>4, <1>6, <1>10, <1>11, <1>12, <1>13, <1>14, Zenon

LEMMA CountStep ==
    ASSUME HandlerTypes, AcceptedInv, CountInv, NEW r \in Requests, Steps(r)
    PROVE  CountInv'
  <1>1. IsFiniteSet(ToSet(log'))
    <2>1. IsFiniteSet(ToSet(log) \cup {r})
      BY FS_AddElement DEF CountInv
    <2>2. QED
      BY <2>1, AuditedStep DEF CountInv
  <1>2. ASSUME NEW names
        PROVE  /\ IsFiniteSet(EventsOf(names)')
               /\ Cardinality(EventsOf(names)') = Cardinality(AuditedAs(names)')
    <2>1. /\ IsFiniteSet(EventsOf(names)) /\ IsFiniteSet(AuditedAs(names))
          /\ Cardinality(EventsOf(names)) = Cardinality(AuditedAs(names))
      <3>1. AuditedAs(names) \subseteq ToSet(log)
        BY DEF AuditedAs, Audited
      <3>2. QED
        BY <3>1, FS_Subset DEF CountInv
    <2>2. CASE pc[r] # "publish"
      <3>1. EventsOf(names)' = EventsOf(names)
        BY <2>2, AuditedStep, Zenon DEF EventsOf
      <3>2. AuditedAs(names)' = AuditedAs(names)
        BY <2>2, AuditedStep, Zenon DEF AuditedAs
      <3>3. QED
        BY <2>1, <3>1, <3>2, Zenon
    <2>3. CASE pc[r] = "publish"
      <3> DEFINE n == Len(events) + 1
      <3>1. /\ DOMAIN events' = DOMAIN events \cup {n}
            /\ \A i \in DOMAIN events : events'[i] = events[i]
            /\ events'[n] = Named(r)
            /\ n \notin DOMAIN events
        <4>1. events' = Append(events, Named(r)) /\ Named(r) \in EventNames
          <5>1. input[r] \in Inputs
            BY <2>3 DEF HandlerTypes
          <5>2. Named(r) = [i \in DOMAIN input[r].metrics |-> Normal(input[r].metrics[i]).id]
            BY Zenon DEF Named, Items
          <5>3. QED
            BY <2>3, <5>1, <5>2, AuditedStep, Zenon DEF EventNames
        <4>2. QED
          BY <4>1 DEF HandlerTypes
      <3> HIDE DEF n
      <3>2. CASE names = Named(r)
        <4>1. EventsOf(names)' = EventsOf(names) \cup {n} /\ n \notin EventsOf(names)
          BY <3>1, <3>2, Zenon DEF EventsOf
        <4>2. AuditedAs(names)' = AuditedAs(names) \cup {r} /\ r \notin AuditedAs(names)
          BY <2>3, <3>2, AuditedStep, Zenon DEF AuditedAs
        <4>3. /\ IsFiniteSet(EventsOf(names) \cup {n})
              /\ Cardinality(EventsOf(names) \cup {n}) = Cardinality(EventsOf(names)) + 1
          BY <2>1, <4>1, FS_AddElement
        <4>4. Cardinality(AuditedAs(names) \cup {r}) = Cardinality(AuditedAs(names)) + 1
          BY <2>1, <4>2, FS_AddElement
        <4>5. QED
          BY <2>1, <4>1, <4>2, <4>3, <4>4, Zenon
      <3>3. CASE names # Named(r)
        <4>1. EventsOf(names)' = EventsOf(names)
          BY <3>1, <3>3, Zenon DEF EventsOf
        <4>2. AuditedAs(names)' = AuditedAs(names)
          BY <2>3, <3>3, AuditedStep, Zenon DEF AuditedAs
        <4>3. QED
          BY <2>1, <4>1, <4>2, Zenon
      <3>4. QED
        BY <3>2, <3>3
    <2>4. QED
      BY <2>2, <2>3
  <1>3. QED
    BY <1>1, <1>2 DEF CountInv

\* Every update answered with success has exactly one audit event and nothing
\* else has one, for any number of requests that run at the same time
\* (AuditedIffAnswered).
THEOREM AuditedIffAnsweredHolds == Spec => []AuditedIffAnswered
  <1>1. Init => CountInv
    <2> SUFFICES ASSUME Init
                 PROVE  CountInv
      OBVIOUS
    <2>1. ToSet(log) = {} /\ Audited = {} /\ \A names : EventsOf(names) = {}
      BY DEF Init, ToSet, Audited, EventsOf
    <2>2. \A names : AuditedAs(names) = {}
      BY <2>1 DEF AuditedAs
    <2>3. QED
      BY <2>1, <2>2, FS_EmptySet DEF CountInv
  <1>2. HandlerTypes /\ AcceptedInv /\ CountInv /\ [Next]_vars => CountInv'
    <2> SUFFICES ASSUME HandlerTypes, AcceptedInv, CountInv, [Next]_vars
                 PROVE  CountInv'
      OBVIOUS
    <2>1. CASE UNCHANGED vars
      <3>1. UNCHANGED <<pc, status, input, log, events>>
        BY <2>1 DEF vars, history
      <3>2. ToSet(log') = ToSet(log) /\ Audited' = Audited
        BY <3>1, Zenon DEF Audited
      <3>3. \A x : Named(x)' = Named(x)
        BY <3>1, Zenon DEF Named, Items
      <3>4. \A names : EventsOf(names)' = EventsOf(names) /\ AuditedAs(names)' = AuditedAs(names)
        BY <3>1, <3>2, <3>3, Zenon DEF EventsOf, AuditedAs
      <3>5. QED
        BY <3>2, <3>4, Zenon DEF CountInv
    <2>2. ASSUME NEW r \in Requests, Steps(r)
          PROVE  CountInv'
      BY <2>2, CountStep
    <2>3. QED
      BY <2>1, <2>2 DEF Next, Steps, Served
  <1>3. CountInv => AuditedIffAnswered
    BY Zenon DEF CountInv, AuditedIffAnswered, EventsOf, AuditedAs
  <1>4. QED
    BY <1>1, <1>2, <1>3, HandlerInvariant, PTL DEF Spec

----------------------------------------------------------------------------
(* What was accepted.                                                      *)

UpdateRoutes == {"path", "update", "updates"}

\* The items of an update that was not refused.
LEMMA AcceptedItems ==
    ASSUME NEW r, input[r] \in Inputs, Refusal(input[r]) = 0,
           input[r].route \in UpdateRoutes
    PROVE  /\ Items(r) \in Seq(Accepted)
           /\ input[r].route # "updates" => Len(Items(r)) = 1
  <1> DEFINE ms == input[r].metrics
             route == input[r].route
  <1>1. /\ ms # Nil
        /\ \A i \in DOMAIN ms : ms[i].mtype \in {"gauge", "counter"} /\ ~Missing(ms[i])
    <2>1. Refusal(input[r]) = IF ms = Nil THEN 400
             ELSE IF route \in {"update", "query"} /\ ms[1].id = NoName THEN 404
             ELSE IF \E i \in DOMAIN ms :
                        \/ route = "updates" /\ ms[i].id = NoName
                        \/ ms[i].mtype \notin {"gauge", "counter"}
                        \/ route \notin {"value", "query"} /\ Missing(ms[i])
             THEN 400 ELSE 0
      BY Zenon DEF Refusal
    <2>2. route \notin {"value", "query"}
      BY DEF UpdateRoutes
    <2>3. 400 # 0 /\ 404 # 0
      OBVIOUS
    <2>4. ms # Nil
      BY <2>1, <2>3, Zenon
    <2>5. ~(\E i \in DOMAIN ms :
                \/ route = "updates" /\ ms[i].id = NoName
                \/ ms[i].mtype \notin {"gauge", "counter"}
                \/ route \notin {"value", "query"} /\ Missing(ms[i]))
      BY <2>1, <2>3, <2>4, Zenon
    <2>6. QED
      BY <2>2, <2>4, <2>5, Zenon
  <1>2. ms \in Seq(Metric) /\ (route # "updates" => Len(ms) = 1)
    BY <1>1, HandlerAssumption, Zenon DEF UpdateRoutes
  <1>3. ASSUME NEW i \in DOMAIN ms
        PROVE  Normal(ms[i]) \in Accepted
    <2>1. /\ ms[i].id \in Names
          /\ ms[i].mtype = "gauge" => ms[i].value \in Values \ {Nil}
          /\ ms[i].mtype = "counter" => ms[i].delta \in Int \ {Nil}
          /\ ms[i].mtype \in {"gauge", "counter"}
      <3>1. ms[i] \in Metric
        BY <1>2
      <3>2. /\ ms[i].id \in Names
            /\ ms[i].value \in Values \cup {Nil}
            /\ ms[i].delta \in Int \cup {Nil}
        BY <3>1 DEF Metric
      <3>3. QED
        BY <1>1, <3>2 DEF Missing
    <2> DEFINE m == ms[i]
    <2>2. CASE m.mtype = "gauge"
      <3>1. Normal(m) = Gauge(m.id, m.value)
        BY <2>2, Zenon DEF Normal
      <3>2. PICK n \in Names, v \in Values \ {Nil} : n = m.id /\ v = m.value
        BY <2>1, <2>2
      <3>3. Gauge(n, v) \in Accepted
        BY DEF Accepted
      <3>4. QED
        BY <3>1, <3>2, <3>3, Zenon
    <2>3. CASE m.mtype = "counter"
      <3>1. Normal(m) = Counter(m.id, m.delta)
        BY <2>3 DEF Normal
      <3>2. PICK n \in Names, d \in Int \ {Nil} : n = m.id /\ d = m.delta
        BY <2>1, <2>3
      <3>3. Counter(n, d) \in Accepted
        BY DEF Accepted
      <3>4. QED
        BY <3>1, <3>2, <3>3, Zenon
    <2>4. QED
      BY <2>1, <2>2, <2>3
  <1>4. DOMAIN ms = 1..Len(ms) /\ Len(ms) \in Nat
    BY <1>2
  <1>5. Items(r) = [i \in 1..Len(ms) |-> Normal(ms[i])]
    BY <1>4, Zenon DEF Items
  <1> HIDE DEF ms
  <1>6. Items(r) \in Seq(Accepted) /\ Len(Items(r)) = Len(ms)
    <2>1. \A i \in 1..Len(ms) : Normal(ms[i]) \in Accepted
      BY <1>3, <1>4
    <2>2. QED
      BY <1>4, <1>5, <2>1
  <1>7. QED
    BY <1>2, <1>6 DEF UpdateRoutes

\* Only updates get to the log, and only a single one reads back.
RouteInv ==
    /\ \A r \in ToSet(log) : pc[r] # "new" /\ input[r].route \in UpdateRoutes
    /\ \A r \in Requests : pc[r] = "read" => input[r].route = "update"

ItemsAccepted == \A r \in ToSet(log) :
    /\ Items(r) \in Seq(Accepted)
    /\ input[r].route # "updates" => Len(Items(r)) = 1

LEMMA LogItems == HandlerTypes /\ AcceptedInv /\ RouteInv => ItemsAccepted
  <1> SUFFICES ASSUME HandlerTypes, AcceptedInv, RouteInv, NEW r \in ToSet(log)
               PROVE  /\ Items(r) \in Seq(Accepted)
                      /\ input[r].route # "updates" => Len(Items(r)) = 1
    BY DEF ItemsAccepted
  <1>1. r \in Requests
    BY LogMembers
  <1>2. input[r] \in Inputs
    BY <1>1 DEF RouteInv, HandlerTypes
  <1>3. Refusal(input[r]) = 0
    BY DEF AcceptedInv
  <1>4. input[r].route \in UpdateRoutes
    BY DEF RouteInv
  <1>5. QED
    BY <1>2, <1>3, <1>4, AcceptedItems

----------------------------------------------------------------------------
(* The log, one update after the other.                                    *)

LEMMA LogMember ==
    ASSUME HandlerTypes, NEW i \in 1..Len(log)
    PROVE  log[i] \in ToSet(log) /\ log[i] \in Requests
  BY DEF HandlerTypes, ToSet

LEMMA FlatFacts ==
    ASSUME HandlerTypes, ItemsAccepted
    PROVE  /\ Flat(0) = <<>>
           /\ \A k \in 0..Len(log) : Flat(k) \in Seq(Accepted)
           /\ \A k \in 1..Len(log) : Flat(k) = Flat(k - 1) \o Items(log[k])
  <1> DEFINE parts(k) == [i \in 1..k |-> Items(log[i])]
             n == Len(log)
  <1>1. n \in Nat /\ \A i \in 1..n : Items(log[i]) \in Seq(Accepted)
    BY LogMember DEF HandlerTypes, ItemsAccepted
  <1>2. \A k : Flat(k) = FlattenSeq(parts(k))
    BY Zenon DEF Flat
  <1>3. \A k \in 0..n : parts(k) \in Seq(Seq(Accepted))
    BY <1>1
  <1>4. \A k \in 1..n : parts(k) = Append(parts(k - 1), Items(log[k]))
    <2> SUFFICES ASSUME NEW k \in 1..n
                 PROVE  parts(k) = Append(parts(k - 1), Items(log[k]))
      OBVIOUS
    <2>1. PICK j \in Nat : k = j + 1 /\ k - 1 = j
      BY <1>1
    <2>2. parts(j + 1) = Append(parts(j), Items(log[j + 1]))
      BY <2>1
    <2>3. QED
      BY <2>1, <2>2, Zenon
  <1>5. parts(0) = <<>>
    OBVIOUS
  <1> HIDE DEF parts, n
  <1>6. Flat(0) = <<>>
    BY <1>2, <1>5 DEF FlattenSeq
  <1>7. ASSUME NEW k \in 0..n PROVE Flat(k) \in Seq(Accepted)
    <2>1. <<>> \in Seq(Accepted)
      OBVIOUS
    <2>2. PICK p \in Seq(Seq(Accepted)) : p = parts(k)
      BY <1>3, Zenon
    <2>3. FlattenSeq(p) \in Seq(Accepted)
      BY <2>1, FlattenAppend, Zenon
    <2>4. QED
      BY <1>2, <2>2, <2>3, Zenon
  <1>8. ASSUME NEW k \in 1..n PROVE Flat(k) = Flat(k - 1) \o Items(log[k])
    <2>1. k - 1 \in 0..n
      BY <1>1
    <2>2. PICK p \in Seq(Seq(Accepted)), s \in Seq(Accepted) :
              p = parts(k - 1) /\ s = Items(log[k])
      BY <1>1, <1>3, <2>1, Zenon
    <2>3. FlattenSeq(Append(p, s)) = FlattenSeq(p) \o s
      BY FlattenAppend, Zenon
    <2>4. QED
      BY <1>2, <1>4, <2>2, <2>3, Zenon
  <1>9. QED
    BY <1>6, <1>7, <1>8, Zenon DEF n

----------------------------------------------------------------------------
(* What a step leaves alone.                                               *)

\* The rest of the types, and when a request has its answer.
ServerInv ==
    /\ DOMAIN body = Requests
    /\ began \in [Requests -> 0..Len(log)]
    /\ failed \subseteq Requests
    /\ storage \in {"memory", "file", "postgres"}
    /\ storage # "postgres" => failed = {}
    /\ \A r \in Requests : status[r] # 0 <=> pc[r] \in {"publish", "done"}

Same(x) ==
    /\ pc'[x] = pc[x] /\ status'[x] = status[x] /\ body'[x] = body[x]
    /\ input'[x] = input[x] /\ began'[x] = began[x]
    /\ x \in failed' <=> x \in failed

\* A step of one request leaves the others as they are, and its own input once
\* it has one; the log only grows.
LEMMA StepFrame ==
    ASSUME HandlerTypes, AcceptedInv, ServerInv, NEW r \in Requests, Steps(r)
    PROVE  /\ \A x \in Requests \ {r} : Same(x)
           /\ pc[r] # "new" => input'[r] = input[r] /\ began'[r] = began[r]
           /\ pc[r] = "new" => began'[r] = Len(log) /\ log' = log
           /\ \/ log' = log
              \/ log' = Append(log, r) /\ Updating(r)
           /\ storage' = storage /\ failed \subseteq failed' /\ failed' \subseteq failed \cup {r}
           /\ failed' # failed => storage = "postgres"
           /\ DOMAIN body' = Requests /\ began' = [x \in Requests |-> began'[x]]
  <1>1. DOMAIN body = Requests /\ DOMAIN began = Requests
    BY DEF ServerInv
  <1>2. /\ \E b : body' = [body EXCEPT ![r] = b] \/ body' = body
        /\ \/ began' = began /\ pc[r] # "new" /\ input' = input
           \/ began' = [began EXCEPT ![r] = Len(log)] /\ pc[r] = "new" /\ log' = log
        /\ failed' = failed \/ (failed' = failed \cup {r} /\ storage = "postgres")
        /\ storage' = storage
        /\ log' = log \/ (log' = Append(log, r) /\ Updating(r))
    <2>1. CASE Call(r)
      BY <2>1, Zenon DEF Call, Answer
    <2>2. CASE Update(r)
      <3>1. pc[r] # "new"
        BY <2>2 DEF Update, Updating
      <3>2. QED
        BY <2>2, <3>1, Zenon DEF Update, AfterUpdate, Answer
    <2>3. CASE UpdateFails(r)
      <3>1. pc[r] # "new"
        BY <2>3 DEF UpdateFails, Updating
      <3>2. QED
        BY <2>3, <3>1, Zenon DEF UpdateFails, Answer
    <2>4. CASE Save(r)
      <3>1. pc[r] # "new"
        BY <2>4 DEF Save
      <3>2. QED
        BY <2>4, <3>1, Zenon DEF Save, AfterUpdate, Answer, history
    <2>5. CASE ReadBack(r)
      <3>1. pc[r] # "new"
        BY <2>5 DEF ReadBack
      <3>2. QED
        BY <2>5, <3>1, Zenon DEF ReadBack, Answer, history
    <2>6. CASE GetValue(r)
      <3>1. pc[r] # "new"
        BY <2>6 DEF GetValue
      <3>2. QED
        BY <2>6, <3>1, Zenon DEF GetValue, Answer, history
    <2>7. CASE ListMetrics(r)
      <3>1. pc[r] # "new"
        BY <2>7 DEF ListMetrics
      <3>2. QED
        BY <2>7, <3>1, Zenon DEF ListMetrics, Answer, history
    <2>8. CASE ReadFails(r)
      <3>1. pc[r] # "new"
        BY <2>8 DEF ReadFails
      <3>2. QED
        BY <2>8, <3>1, Zenon DEF ReadFails, Answer
    <2>9. CASE Publish(r)
      <3>1. pc[r] # "new"
        BY <2>9 DEF Publish
      <3>2. QED
        BY <2>9, <3>1, Zenon DEF Publish, history
    <2>10. QED
      BY <2>1, <2>2, <2>3, <2>4, <2>5, <2>6, <2>7, <2>8, <2>9 DEF Steps
  <1>3. PICK p \in Places, c \in {0, 200, 400, 404, 500} : Goes(r, p, c)
    BY HandlerGoes
  <1>4. ASSUME NEW x \in Requests, x # r PROVE Same(x)
    <2>1. pc'[x] = pc[x] /\ status'[x] = status[x]
      BY <1>3, <1>4 DEF Goes, HandlerTypes
    <2>2. body'[x] = body[x] /\ began'[x] = began[x]
      BY <1>1, <1>2, <1>4
    <2>3. input'[x] = input[x]
      BY <1>4, HandlerWrites DEF HandlerTypes
    <2>4. x \in failed' <=> x \in failed
      BY <1>2, <1>4
    <2>5. QED
      BY <2>1, <2>2, <2>3, <2>4, Zenon DEF Same
  <1>5. pc[r] = "new" => began'[r] = Len(log)
    BY <1>1, <1>2
  <1>6. DOMAIN body' = Requests /\ began' = [x \in Requests |-> began'[x]]
    BY <1>1, <1>2 DEF ServerInv
  <1>7. QED
    BY <1>2, <1>4, <1>5, <1>6

LEMMA ServerStep ==
    ASSUME HandlerTypes, AcceptedInv, ServerInv, NEW r \in Requests, Steps(r)
    PROVE  ServerInv'
  <1>1. PICK p \in Places, c \in {0, 200, 400, 404, 500} : Goes(r, p, c)
    BY HandlerGoes
  <1>2. /\ pc'[r] = p /\ status'[r] = c
        /\ \A x \in Requests \ {r} : pc'[x] = pc[x] /\ status'[x] = status[x]
    BY <1>1 DEF Goes, HandlerTypes
  <1>3. c # 0 <=> p \in {"publish", "done"}
    <2>1. status[r] # 0 <=> pc[r] \in {"publish", "done"}
      BY DEF ServerInv
    <2>2. r \in DOMAIN pc /\ r \in DOMAIN status
      BY DEF HandlerTypes
    <2>3. \/ /\ pc'[r] \in {"execute", "save", "read"} /\ status'[r] = status[r]
             /\ pc[r] \notin {"publish", "done"}
          \/ pc'[r] \in {"publish", "done"} /\ status'[r] \in {200, 400, 404, 500}
          \/ pc'[r] = "done" /\ status'[r] = status[r] /\ pc[r] = "publish"
      <3>1. CASE Call(r)
        <4>1. PICK in \in Inputs :
                  IF Refusal(in) # 0 THEN Answer(r, Refusal(in), <<>>, "done")
                  ELSE pc' = [pc EXCEPT ![r] = "execute"] /\ UNCHANGED <<status, body>>
          BY <3>1 DEF Call
        <4>2. pc[r] = "new"
          BY <3>1 DEF Call
        <4>3. CASE Refusal(in) # 0
          <5>1. PICK code \in {400, 404} : code = Refusal(in)
            BY <4>3, RefusalValues
          <5>2. pc' = [pc EXCEPT ![r] = "done"] /\ status' = [status EXCEPT ![r] = code]
            BY <4>1, <4>3, <5>1, Zenon DEF Answer
          <5>3. QED
            BY <2>2, <5>1, <5>2
        <4>4. CASE Refusal(in) = 0
          <5>1. pc' = [pc EXCEPT ![r] = "execute"] /\ status' = status
            BY <4>1, <4>4, Zenon
          <5>2. QED
            BY <2>2, <4>2, <5>1
        <4>5. QED
          BY <4>3, <4>4
      <3>2. CASE Update(r)
        <4>1. pc[r] = "execute"
          BY <3>2 DEF Update, Updating
        <4>2. \/ pc' = [pc EXCEPT ![r] = "save"] /\ status' = status
              \/ pc' = [pc EXCEPT ![r] = "read"] /\ status' = status
              \/ pc' = [pc EXCEPT ![r] = "publish"] /\ status' = [status EXCEPT ![r] = 200]
          BY <3>2, Zenon DEF Update, AfterUpdate, Answer
        <4>3. QED
          BY <2>2, <4>1, <4>2
      <3>3. CASE UpdateFails(r)
        <4>1. pc' = [pc EXCEPT ![r] = "done"] /\ status' = [status EXCEPT ![r] = 500]
          BY <3>3, Zenon DEF UpdateFails, Answer
        <4>2. QED
          BY <2>2, <4>1
      <3>4. CASE Save(r)
        <4>1. pc[r] = "save"
          BY <3>4 DEF Save
        <4>2. \/ pc' = [pc EXCEPT ![r] = "read"] /\ status' = status
              \/ pc' = [pc EXCEPT ![r] = "publish"] /\ status' = [status EXCEPT ![r] = 200]
              \/ pc' = [pc EXCEPT ![r] = "done"] /\ status' = [status EXCEPT ![r] = 500]
          BY <3>4 DEF Save, AfterUpdate, Answer
        <4>3. QED
          BY <2>2, <4>1, <4>2
      <3>5. CASE ReadBack(r)
        BY <2>2, <3>5 DEF ReadBack, Answer
      <3>6. CASE GetValue(r)
        BY <2>2, <3>6 DEF GetValue, Answer
      <3>7. CASE ListMetrics(r)
        BY <2>2, <3>7 DEF ListMetrics, Answer
      <3>8. CASE ReadFails(r)
        BY <2>2, <3>8 DEF ReadFails, Answer
      <3>9. CASE Publish(r)
        BY <2>2, <3>9 DEF Publish
      <3>10. QED
        BY <3>1, <3>2, <3>3, <3>4, <3>5, <3>6, <3>7, <3>8, <3>9 DEF Steps
    <2>4. QED
      BY <1>2, <2>1, <2>3
  <1>4. \A x \in Requests : status'[x] # 0 <=> pc'[x] \in {"publish", "done"}
    BY <1>2, <1>3 DEF ServerInv
  <1>5. began' \in [Requests -> 0..Len(log')]
    <2>1. Len(log) \in Nat /\ Len(log') \in {Len(log), Len(log) + 1}
      <3>1. log \in Seq(Requests) /\ (log' = log \/ log' = Append(log, r))
        BY StepFrame DEF HandlerTypes
      <3>2. QED
        BY <3>1
    <2>2. PICK n \in Nat, k \in Nat : n = Len(log) /\ k = Len(log') /\ k \in {n, n + 1}
      BY <2>1
    <2>3. \A x \in Requests : began'[x] = began[x] \/ began'[x] = n
      BY <2>2, StepFrame DEF Same
    <2>4. \A x \in Requests : began[x] \in 0..n
      BY <2>2 DEF ServerInv
    <2>5. \A x \in Requests : began'[x] \in 0..k
      BY <2>2, <2>3, <2>4
    <2>6. began' = [x \in Requests |-> began'[x]]
      BY StepFrame
    <2>7. QED
      BY <2>2, <2>5, <2>6
  <1>6. QED
    BY <1>4, <1>5, StepFrame DEF ServerInv

LEMMA RouteStep ==
    ASSUME HandlerTypes, AcceptedInv, ServerInv, RouteInv, NEW r \in Requests, Steps(r)
    PROVE  RouteInv'
  <1>1. \A x \in ToSet(log') : x = r \/ (x \in Requests \ {r} /\ x \in ToSet(log))
    <2>1. ToSet(Append(log, r)) = ToSet(log) \cup {r}
      BY ToSetOfAppend DEF HandlerTypes
    <2>2. log' = log \/ log' = Append(log, r)
      BY StepFrame
    <2>3. QED
      BY <2>1, <2>2, LogMembers
  <1>2. PICK p \in Places, c \in {0, 200, 400, 404, 500} : Goes(r, p, c)
    BY HandlerGoes
  <1>3. pc'[r] = p /\ p # "new"
    BY <1>2 DEF Goes, HandlerTypes, Places
  <1>4. r \in ToSet(log') => input'[r].route \in UpdateRoutes
    <2>1. CASE log' = log
      <3>1. r \in ToSet(log') => pc[r] # "new" /\ input[r].route \in UpdateRoutes
        BY <2>1 DEF RouteInv
      <3>2. QED
        BY <3>1, StepFrame
    <2>2. CASE Updating(r)
      <3>1. pc[r] # "new" /\ input[r].route \in UpdateRoutes
        BY <2>2 DEF Updating, UpdateRoutes
      <3>2. QED
        BY <3>1, StepFrame
    <2>3. QED
      BY <2>1, <2>2, StepFrame
  <1>5. ASSUME p = "read" PROVE input'[r].route = "update"
    <2>1. Update(r) \/ Save(r)
      <3>1. pc'[r] = "read"
        BY <1>3, <1>5
      <3>2. ~Update(r) => \/ Save(r)
                         \/ pc' = [pc EXCEPT ![r] = "execute"]
                         \/ pc' = [pc EXCEPT ![r] = "publish"]
                         \/ pc' = [pc EXCEPT ![r] = "done"]
        BY DEF Steps, Call, UpdateFails, ReadBack, GetValue, ListMetrics, ReadFails,
               Publish, Answer
      <3>3. QED
        BY <3>1, <3>2 DEF HandlerTypes
    <2>2. \/ input[r].route = "update"
          \/ pc' = [pc EXCEPT ![r] = "save"]
          \/ pc' = [pc EXCEPT ![r] = "publish"]
          \/ pc' = [pc EXCEPT ![r] = "done"]
      BY <2>1, Zenon DEF Update, Save, AfterUpdate, Answer
    <2>3. pc[r] # "new"
      BY <2>1 DEF Update, Updating, Save
    <2>4. input[r].route = "update"
      BY <1>3, <1>5, <2>2 DEF HandlerTypes
    <2>5. QED
      BY <2>3, <2>4, StepFrame
  <1>6. QED
    <2>1. \A x \in ToSet(log') : pc'[x] # "new" /\ input'[x].route \in UpdateRoutes
      BY <1>1, <1>3, <1>4, StepFrame DEF Same, RouteInv
    <2>2. \A x \in Requests : pc'[x] = "read" => input'[x].route = "update"
      BY <1>3, <1>5, StepFrame DEF Same, RouteInv
    <2>3. QED
      BY <2>1, <2>2, Zenon DEF RouteInv

\* What the metrics of one request add to those before them.
LEMMA FlatStep ==
    ASSUME HandlerTypes, AcceptedInv, ServerInv, RouteInv, NEW r \in Requests, Steps(r)
    PROVE  /\ \A k \in 0..Len(log) : Flat(k)' = Flat(k)
           /\ log' = Append(log, r) =>
                 /\ Items(r) \in Seq(Accepted)
                 /\ input[r].route # "updates" => Len(Items(r)) = 1
                 /\ Items(r)' = Items(r)
                 /\ Flat(Len(log))' = Flat(Len(log)) \o Items(r)
           /\ log' = log => Flat(Len(log))' = Flat(Len(log))
  <1>1. PICK n \in Nat : n = Len(log) /\ DOMAIN log = 1..n
    BY DEF HandlerTypes
  <1>2. \A i \in 1..n : log'[i] = log[i] /\ input'[log[i]] = input[log[i]]
    <2>1. \A i \in 1..n : log'[i] = log[i]
      BY <1>1, StepFrame DEF HandlerTypes
    <2>2. \A i \in 1..n : log[i] \in ToSet(log) /\ log[i] \in Requests
      BY <1>1, LogMember, Zenon
    <2>3. \A x \in ToSet(log) : pc[x] # "new"
      BY DEF RouteInv
    <2>4. \A x \in Requests : pc[x] # "new" => input'[x] = input[x]
      BY StepFrame, Zenon DEF Same
    <2>5. QED
      BY <2>1, <2>2, <2>3, <2>4, Zenon
  <1>3. \A i \in 1..n : Items(log[i])' = Items(log[i])
    BY <1>2, Zenon DEF Items
  <1>4. ASSUME NEW k \in 0..n PROVE Flat(k)' = Flat(k)
    <2>1. \A i \in 1..k : i \in 1..n
      BY <1>1
    <2>2. QED
      BY <1>3, <2>1, Zenon DEF Flat
  <1>5. ASSUME log' = Append(log, r)
        PROVE  /\ Items(r) \in Seq(Accepted)
               /\ input[r].route # "updates" => Len(Items(r)) = 1
               /\ Items(r)' = Items(r)
               /\ Flat(Len(log))' = Flat(Len(log)) \o Items(r)
    <2>1. Updating(r)
      <3>1. Append(log, r) # log
        BY DEF HandlerTypes
      <3>2. QED
        BY <1>5, <3>1, StepFrame
    <2>2. /\ input[r] \in Inputs /\ Refusal(input[r]) = 0 /\ pc[r] # "new"
          /\ input[r].route \in UpdateRoutes
      BY <2>1 DEF Updating, HandlerTypes, AcceptedInv, UpdateRoutes
    <2>3. /\ Items(r) \in Seq(Accepted)
          /\ input[r].route # "updates" => Len(Items(r)) = 1
      BY <2>2, AcceptedItems
    <2>4. input'[r] = input[r]
      BY <2>2, StepFrame
    <2>5. Items(r)' = Items(r)
      BY <2>4, Zenon DEF Items
    <2> DEFINE parts == [i \in 1..n |-> Items(log[i])]
    <2>6. parts \in Seq(Seq(Accepted))
      <3>1. \A i \in 1..n : Items(log[i]) \in Seq(Accepted)
        <4>1. ItemsAccepted
          BY LogItems
        <4>2. QED
          BY <1>1, <4>1, LogMember DEF ItemsAccepted
      <3>2. QED
        BY <3>1
    <2>7. Len(log') = n + 1 /\ log'[n + 1] = r
      BY <1>1, <1>5 DEF HandlerTypes
    <2>8. Flat(n + 1)' = FlattenSeq(Append(parts, Items(r)))
      <3>1. \A i \in 1..(n + 1) : i \in 1..n \/ i = n + 1
        BY <1>1
      <3>2. PICK its : its = Items(r)
        OBVIOUS
      <3>3. \A i \in 1..(n + 1) : Items(log[i])' = IF i = n + 1 THEN its ELSE parts[i]
        <4>1. Items(log[n + 1])' = its
          BY <2>4, <2>7, <3>2, Zenon DEF Items
        <4>2. \A i \in 1..n : Items(log[i])' = parts[i]
          BY <1>3, Zenon
        <4>3. \A i \in 1..n : i # n + 1
          BY <1>1
        <4>4. QED
          BY <3>1, <4>1, <4>2, <4>3, Zenon
      <3>4. Append(parts, its) = [i \in 1..(n + 1) |-> IF i = n + 1 THEN its ELSE parts[i]]
        <4>1. PICK ps \in Seq(Seq(Accepted)) : ps = parts /\ Len(ps) = n
          <5>1. Len(parts) = n
            BY <1>1
          <5>2. QED
            BY <2>6, <5>1, Zenon
        <4>2. Append(ps, its) = [i \in 1..(n + 1) |-> IF i = n + 1 THEN its ELSE ps[i]]
          BY <4>1
        <4>3. QED
          BY <4>1, <4>2, Zenon
      <3> HIDE DEF parts
      <3>5. Flat(n + 1)' = FlattenSeq([i \in 1..(n + 1) |-> IF i = n + 1 THEN its ELSE parts[i]])
        BY <3>3, Zenon DEF Flat
      <3>6. QED
        BY <3>2, <3>4, <3>5, Zenon
    <2>9. Flat(n) = FlattenSeq(parts)
      BY Zenon DEF Flat
    <2> HIDE DEF parts
    <2>10. Flat(n + 1)' = Flat(n) \o Items(r)
      <3>1. PICK ps \in Seq(Seq(Accepted)), its \in Seq(Accepted) :
                ps = parts /\ its = Items(r)
        BY <2>3, <2>6, Zenon
      <3>2. FlattenSeq(Append(ps, its)) = FlattenSeq(ps) \o its
        BY FlattenAppend, Zenon
      <3>3. QED
        BY <2>8, <2>9, <3>1, <3>2, Zenon
    <2>11. Flat(Len(log))' = Flat(n + 1)'
      BY <2>7, Zenon DEF Flat
    <2>12. QED
      BY <1>1, <2>3, <2>5, <2>10, <2>11, Zenon
  <1>6. ASSUME log' = log PROVE Flat(Len(log))' = Flat(Len(log))
    <2>1. n \in 0..n
      BY <1>1
    <2>2. Flat(n)' = Flat(n)
      BY <1>4, <2>1, Zenon
    <2>3. QED
      BY <1>1, <1>6, <2>2, Zenon DEF Flat
  <1>7. QED
    BY <1>1, <1>4, <1>5, <1>6, Zenon

\* What the storage computes for an update.
BatchAfter(r, s) == [j \in DOMAIN Items(r) |-> Valued(Items(r)[j], s \o SubSeq(Items(r), 1, j))]

LEMMA UpdateComputes ==
    ASSUME HandlerTypes, AcceptedInv, RouteInv, StoreIsSumOfUpdates,
           NEW r \in Requests, Updating(r)
    PROVE  /\ Items(r) \in Seq(Accepted)
           /\ input[r].route # "updates" => Len(Items(r)) = 1
           /\ UpdateMetrics(Items(r)).gauges = GaugesAfter(Flat(Len(log)) \o Items(r))
           /\ UpdateMetrics(Items(r)).counters = CountersAfter(Flat(Len(log)) \o Items(r))
           /\ UpdateMetrics(Items(r)).updated = BatchAfter(r, Flat(Len(log)))
  <1>1. /\ input[r] \in Inputs /\ Refusal(input[r]) = 0 /\ pc[r] # "new"
        /\ input[r].route \in UpdateRoutes
    BY DEF Updating, HandlerTypes, AcceptedInv, UpdateRoutes
  <1>2. /\ Items(r) \in Seq(Accepted)
        /\ input[r].route # "updates" => Len(Items(r)) = 1
    BY <1>1, AcceptedItems
  <1>3. Flat(Len(log)) \in Seq(Accepted)
    <2>1. Len(log) \in 0..Len(log)
      BY DEF HandlerTypes
    <2>2. QED
      BY <2>1, LogItems, FlatFacts, Zenon
  <1>4. PICK s \in Seq(Accepted), ms \in Seq(Accepted) :
            s = Flat(Len(log)) /\ ms = Items(r)
    BY <1>2, <1>3, Zenon
  <1>5. gauges = GaugesAfter(s) /\ counters = CountersAfter(s)
    BY <1>4, Zenon DEF StoreIsSumOfUpdates
  <1>6. /\ UpdateMetrics(ms).gauges = GaugesAfter(s \o ms)
        /\ UpdateMetrics(ms).counters = CountersAfter(s \o ms)
        /\ UpdateMetrics(ms).updated =
              [j \in DOMAIN ms |-> Valued(ms[j], s \o SubSeq(ms, 1, j))]
    BY <1>5, UpdateMetricsAfter, Zenon
  <1>7. QED
    BY <1>2, <1>4, <1>6, Zenon DEF BatchAfter

\* An update that the storage takes extends the reference by all its metrics,
\* and no other step touches the maps.
LEMMA StoreStep ==
    ASSUME HandlerTypes, AcceptedInv, ServerInv, RouteInv, StoreIsSumOfUpdates,
           NEW r \in Requests, Steps(r)
    PROVE  StoreIsSumOfUpdates'
  <1>1. \/ UNCHANGED <<gauges, counters, log>>
        \/ /\ Updating(r) /\ log' = Append(log, r)
           /\ gauges' = UpdateMetrics(Items(r)).gauges
           /\ counters' = UpdateMetrics(Items(r)).counters
    <2>1. CASE Update(r)
      BY <2>1, Zenon DEF Update
    <2>2. CASE UpdateFails(r)
      BY <2>2, Zenon DEF UpdateFails, store
    <2>3. CASE ~Update(r) /\ ~UpdateFails(r)
      BY <2>3 DEF Steps, Call, Save, ReadBack, GetValue, ListMetrics, ReadFails, Publish,
                  store, history
    <2>4. QED
      BY <2>1, <2>2, <2>3
  <1>2. CASE UNCHANGED <<gauges, counters, log>>
    <2>1. Flat(Len(log))' = Flat(Len(log))
      BY <1>2, FlatStep
    <2>2. QED
      BY <1>2, <2>1, Zenon DEF StoreIsSumOfUpdates
  <1>3. CASE /\ Updating(r) /\ log' = Append(log, r)
             /\ gauges' = UpdateMetrics(Items(r)).gauges
             /\ counters' = UpdateMetrics(Items(r)).counters
    <2>1. Flat(Len(log))' = Flat(Len(log)) \o Items(r)
      BY <1>3, FlatStep, Zenon
    <2>2. /\ gauges' = GaugesAfter(Flat(Len(log)) \o Items(r))
          /\ counters' = CountersAfter(Flat(Len(log)) \o Items(r))
      BY <1>3, UpdateComputes, Zenon
    <2>3. QED
      BY <2>1, <2>2, Zenon DEF StoreIsSumOfUpdates
  <1>4. QED
    BY <1>1, <1>2, <1>3

----------------------------------------------------------------------------
(* What a handler knows between its update and its answer.                 *)

\* A counter that is read back was counted: it stays in the map.
CountedInv ==
    \A r \in Requests :
        /\ /\ pc[r] = "save" /\ input[r].route = "update"
           /\ Items(r)[1].mtype = "counter"
           => Items(r)[1].id \in DOMAIN counters
        /\ pc[r] = "read" =>
              Items(r)[1].mtype = "counter" /\ Items(r)[1].id \in DOMAIN counters

\* While the file is written, the handler keeps the answer of its own update.
SavedInv ==
    \A i \in 1..Len(log) :
        pc[log[i]] = "save" => body[log[i]] = BatchAfter(log[i], Flat(i - 1))

LEMMA ValuedFields ==
    ASSUME NEW m, NEW s
    PROVE  m.mtype \in {"gauge", "counter"} => Valued(m, s).mtype = m.mtype
  BY DEF Valued, Gauge, Counter

\* A single update answers with its one metric, as it is right after it.
LEMMA BatchOfOne ==
    ASSUME NEW r, Items(r) \in Seq(Accepted), Len(Items(r)) = 1, NEW s
    PROVE  /\ BatchAfter(r, s) = <<Valued(Items(r)[1], s \o Items(r))>>
           /\ BatchAfter(r, s)[1].mtype = Items(r)[1].mtype
           /\ 1 \in DOMAIN Items(r)
           /\ Items(r)[1] \in Accepted
  <1>1. PICK ms \in Seq(Accepted) : ms = Items(r) /\ Len(ms) = 1
    OBVIOUS
  <1>2. DOMAIN ms = 1..1 /\ 1 \in DOMAIN ms /\ SubSeq(ms, 1, 1) = ms /\ ms[1] \in Accepted
    BY <1>1
  <1>3. BatchAfter(r, s) = [j \in 1..1 |-> Valued(ms[j], s \o SubSeq(ms, 1, j))]
    BY <1>1, <1>2, Zenon DEF BatchAfter
  <1>4. PICK v : v = Valued(ms[1], s \o ms)
    OBVIOUS
  <1>5. \A j \in 1..1 : Valued(ms[j], s \o SubSeq(ms, 1, j)) = v
    <2>1. \A j \in 1..1 : j = 1
      OBVIOUS
    <2>2. QED
      BY <1>2, <1>4, <2>1, Zenon
  <1>6. BatchAfter(r, s) = [j \in 1..1 |-> v]
    BY <1>3, <1>5, Zenon
  <1>7. [j \in 1..1 |-> v] = <<v>> /\ [j \in 1..1 |-> v][1] = v
    OBVIOUS
  <1>8. v.mtype = ms[1].mtype
    BY <1>2, <1>4, ValuedFields, AcceptedFields
  <1>9. QED
    BY <1>1, <1>2, <1>4, <1>6, <1>7, <1>8, Zenon

\* How a handler gets to the places between the update and the event.
LEMMA HowSaved ==
    ASSUME HandlerTypes, AcceptedInv, ServerInv, NEW r \in Requests, Steps(r),
           pc'[r] = "save"
    PROVE  /\ Update(r) /\ body'[r] = UpdateMetrics(Items(r)).updated
           /\ status'[r] = status[r]
  <1>1. pc \in [Requests -> Places] /\ DOMAIN body = Requests
    BY DEF HandlerTypes, ServerInv
  <1>2. Update(r)
    <2>1. ~Update(r) => \E next \in {"execute", "read", "publish", "done"} :
                            pc' = [pc EXCEPT ![r] = next]
      BY DEF Steps, Call, UpdateFails, Save, AfterUpdate, ReadBack, GetValue, ListMetrics,
             ReadFails, Publish, Answer
    <2>2. QED
      BY <1>1, <2>1
  <1>3. \/ pc' = [pc EXCEPT ![r] = "read"] \/ pc' = [pc EXCEPT ![r] = "publish"]
        \/ /\ body' = [body EXCEPT ![r] = UpdateMetrics(Items(r)).updated]
           /\ status' = status
    BY <1>2, Zenon DEF Update, AfterUpdate, Answer
  <1>4. QED
    BY <1>1, <1>2, <1>3

LEMMA HowRead ==
    ASSUME HandlerTypes, AcceptedInv, ServerInv, NEW r \in Requests, Steps(r),
           pc'[r] = "read"
    PROVE  /\ input[r].route = "update" /\ status'[r] = status[r]
           /\ \/ Update(r) /\ UpdateMetrics(Items(r)).updated[1].mtype = "counter"
              \/ Save(r) /\ body[r][1].mtype = "counter"
  <1>1. pc \in [Requests -> Places]
    BY DEF HandlerTypes
  <1>2. Update(r) \/ Save(r)
    <2>1. ~Update(r) => \/ Save(r)
                        \/ \E next \in {"execute", "publish", "done"} :
                                pc' = [pc EXCEPT ![r] = next]
      BY DEF Steps, Call, UpdateFails, ReadBack, GetValue, ListMetrics,
             ReadFails, Publish, Answer
    <2>2. QED
      BY <1>1, <2>1
  <1>3. \A next \in {"save", "publish", "done"} : pc' # [pc EXCEPT ![r] = next]
    BY <1>1
  <1>4. CASE Update(r)
    <2>1. \/ pc' = [pc EXCEPT ![r] = "save"]
          \/ pc' = [pc EXCEPT ![r] = "publish"]
          \/ /\ input[r].route = "update" /\ status' = status
             /\ UpdateMetrics(Items(r)).updated[1].mtype = "counter"
      BY <1>4, Zenon DEF Update, AfterUpdate, Answer
    <2>2. QED
      BY <1>3, <1>4, <2>1
  <1>5. CASE Save(r)
    <2>1. \/ pc' = [pc EXCEPT ![r] = "done"]
          \/ pc' = [pc EXCEPT ![r] = "publish"]
          \/ /\ input[r].route = "update" /\ status' = status
             /\ body[r][1].mtype = "counter"
      BY <1>5, Zenon DEF Save, AfterUpdate, Answer
    <2>2. QED
      BY <1>3, <1>5, <2>1
  <1>6. QED
    BY <1>2, <1>4, <1>5

LEMMA CountersStay ==
    ASSUME HandlerTypes, AcceptedInv, ServerInv, RouteInv, StoreIsSumOfUpdates,
           NEW r \in Requests, Steps(r)
    PROVE  /\ DOMAIN counters \subseteq DOMAIN counters'
           /\ Update(r) => Ids(Items(r), "counter") \subseteq DOMAIN counters'
  <1>1. DOMAIN counters = Ids(Flat(Len(log)), "counter")
    BY Zenon DEF StoreIsSumOfUpdates, CountersAfter
  <1>2. DOMAIN counters' = Ids(Flat(Len(log))', "counter")
    BY StoreStep, Zenon DEF StoreIsSumOfUpdates, CountersAfter
  <1>3. CASE log' = Append(log, r)
    <2>1. Flat(Len(log)) \in Seq(Accepted)
      <3>1. Len(log) \in 0..Len(log)
        BY DEF HandlerTypes
      <3>2. QED
        BY <3>1, LogItems, FlatFacts, Zenon
    <2>2. PICK s \in Seq(Accepted), ms \in Seq(Accepted) :
              s = Flat(Len(log)) /\ ms = Items(r)
      BY <1>3, <2>1, FlatStep, Zenon
    <2>3. Flat(Len(log))' = s \o ms
      BY <1>3, <2>2, FlatStep, Zenon
    <2>4. Ids(s, "counter") \subseteq Ids(s \o ms, "counter")
          /\ Ids(ms, "counter") \subseteq Ids(s \o ms, "counter")
      BY IdsConcat, Zenon
    <2>5. QED
      BY <1>1, <1>2, <2>2, <2>3, <2>4, Zenon
  <1>4. CASE log' = log
    <2>1. ~Update(r)
      <3>1. Append(log, r) # log
        BY DEF HandlerTypes
      <3>2. QED
        BY <1>4, <3>1 DEF Update
    <2>2. QED
      BY <1>1, <1>2, <1>4, <2>1, FlatStep, Zenon
  <1>5. QED
    BY <1>3, <1>4, StepFrame

LEMMA SavedStep ==
    ASSUME HandlerTypes, AcceptedInv, ServerInv, RouteInv, StoreIsSumOfUpdates,
           SavedInv, NEW r \in Requests, Steps(r)
    PROVE  SavedInv'
  <1>1. PICK n \in Nat : n = Len(log) /\ DOMAIN log = 1..n
    BY DEF HandlerTypes
  <1>2. ASSUME NEW i \in 1..n
        PROVE  /\ log'[i] = log[i] /\ log[i] \in Requests /\ log[i] \in ToSet(log)
               /\ BatchAfter(log[i], Flat(i - 1))' = BatchAfter(log[i], Flat(i - 1))
    <2>1. log'[i] = log[i] /\ i - 1 \in 0..n
      BY <1>1, StepFrame DEF HandlerTypes
    <2>2. log[i] \in ToSet(log) /\ log[i] \in Requests
      BY <1>1, LogMember, Zenon
    <2>3. input'[log[i]] = input[log[i]]
      <3>1. pc[log[i]] # "new"
        BY <2>2 DEF RouteInv
      <3>2. QED
        BY <2>2, <3>1, StepFrame, Zenon DEF Same
    <2>4. Flat(i - 1)' = Flat(i - 1)
      BY <1>1, <2>1, FlatStep, Zenon
    <2>5. Items(log[i])' = Items(log[i])
      BY <2>1, <2>3, Zenon DEF Items
    <2>6. BatchAfter(log[i], Flat(i - 1))' = BatchAfter(log[i], Flat(i - 1))
      BY <2>4, <2>5, Zenon DEF BatchAfter
    <2>7. QED
      BY <2>1, <2>2, <2>6
  <1>3. ASSUME NEW i \in 1..n, pc'[log'[i]] = "save"
        PROVE  body'[log'[i]] = BatchAfter(log[i], Flat(i - 1))'
    <2>1. log[i] # r
      <3>1. ASSUME log[i] = r PROVE FALSE
        <4>1. Update(r)
          BY <1>2, <1>3, <3>1, HowSaved
        <4>2. pc[r] = "execute"
          BY <4>1 DEF Update, Updating
        <4>3. QED
          BY <1>2, <3>1, <4>2 DEF AcceptedInv
      <3>2. QED
        BY <3>1
    <2>2. Same(log[i])
      BY <1>2, <2>1, StepFrame
    <2>3. pc[log[i]] = "save"
      BY <1>2, <1>3, <2>2 DEF Same
    <2>4. body[log[i]] = BatchAfter(log[i], Flat(i - 1))
      BY <1>1, <2>3 DEF SavedInv
    <2>5. QED
      BY <1>2, <2>2, <2>4, Zenon DEF Same
  <1>4. ASSUME log' = Append(log, r), pc'[r] = "save"
        PROVE  body'[r] = BatchAfter(log[n + 1], Flat(n))' /\ log'[n + 1] = r
    <2>1. log'[n + 1] = r
      BY <1>1, <1>4 DEF HandlerTypes
    <2>2. body'[r] = BatchAfter(r, Flat(n))
      <3>1. Updating(r) /\ body'[r] = UpdateMetrics(Items(r)).updated
        BY <1>4, HowSaved DEF Update
      <3>2. QED
        BY <1>1, <3>1, UpdateComputes, Zenon
    <2>3. Items(log[n + 1])' = Items(r)
      <3>1. Items(r)' = Items(r)
        BY <1>4, FlatStep, Zenon
      <3>2. QED
        BY <2>1, <3>1, Zenon DEF Items
    <2>4. Flat(n)' = Flat(n)
      <3>1. n \in 0..n
        BY <1>1
      <3>2. QED
        BY <1>1, <3>1, FlatStep, Zenon
    <2>5. BatchAfter(log[n + 1], Flat(n))' = BatchAfter(r, Flat(n))
      BY <2>3, <2>4, Zenon DEF BatchAfter
    <2>6. QED
      BY <2>1, <2>2, <2>5, Zenon
  <1>5. ASSUME NEW i \in 1..Len(log'), pc'[log'[i]] = "save"
        PROVE  body'[log'[i]] = BatchAfter(log[i], Flat(i - 1))'
    <2>1. CASE i \in 1..n
      BY <1>3, <1>5, <2>1, Zenon
    <2>2. CASE i \notin 1..n
      <3>1. log' = Append(log, r) /\ i = n + 1 /\ i - 1 = n
        BY <1>1, <1>5, <2>2, StepFrame DEF HandlerTypes
      <3>2. log'[n + 1] = r
        BY <1>1, <3>1 DEF HandlerTypes
      <3>3. QED
        BY <1>4, <1>5, <3>1, <3>2, Zenon
    <2>3. QED
      BY <2>1, <2>2
  <1>6. QED
    BY <1>5, Zenon DEF SavedInv

LEMMA CountedStep ==
    ASSUME HandlerTypes, AcceptedInv, ServerInv, RouteInv, StoreIsSumOfUpdates,
           SavedInv, CountedInv, NEW r \in Requests, Steps(r)
    PROVE  CountedInv'
  <1>1. DOMAIN counters \subseteq DOMAIN counters'
    BY CountersStay
  <1>2. ASSUME Update(r), input[r].route = "update"
        PROVE  /\ Items(r)' = Items(r)
               /\ Items(r)[1].mtype = "counter" => Items(r)[1].id \in DOMAIN counters'
               /\ UpdateMetrics(Items(r)).updated[1].mtype = Items(r)[1].mtype
    <2>1. Updating(r) /\ log' = Append(log, r)
      BY <1>2 DEF Update
    <2>2. /\ Items(r) \in Seq(Accepted) /\ Len(Items(r)) = 1
          /\ UpdateMetrics(Items(r)).updated = BatchAfter(r, Flat(Len(log)))
      BY <1>2, <2>1, UpdateComputes
    <2>3. Items(r)' = Items(r)
      BY <2>1, FlatStep, Zenon
    <2>4. 1 \in DOMAIN Items(r) /\ BatchAfter(r, Flat(Len(log)))[1].mtype = Items(r)[1].mtype
      BY <2>2, BatchOfOne, Zenon
    <2>5. Items(r)[1].mtype = "counter" => Items(r)[1].id \in Ids(Items(r), "counter")
      BY <2>4, Zenon DEF Ids
    <2>6. QED
      BY <1>2, <2>2, <2>3, <2>4, <2>5, CountersStay, Zenon
  <1>3. /\ pc'[r] = "save" /\ input'[r].route = "update"
        /\ Items(r)[1].mtype' = "counter"
        => Items(r)[1].id' \in DOMAIN counters'
    <2> SUFFICES ASSUME pc'[r] = "save", input'[r].route = "update",
                        Items(r)[1].mtype' = "counter"
                 PROVE  Items(r)[1].id' \in DOMAIN counters'
      OBVIOUS
    <2>1. Update(r)
      BY HowSaved
    <2>2. input[r].route = "update"
      <3>1. pc[r] # "new"
        BY <2>1 DEF Update, Updating
      <3>2. QED
        BY <3>1, StepFrame
    <2>3. QED
      BY <1>2, <2>1, <2>2, Zenon
  <1>4. pc'[r] = "read" =>
           Items(r)[1].mtype' = "counter" /\ Items(r)[1].id' \in DOMAIN counters'
    <2> SUFFICES ASSUME pc'[r] = "read"
                 PROVE  Items(r)[1].mtype' = "counter" /\ Items(r)[1].id' \in DOMAIN counters'
      OBVIOUS
    <2>1. input[r].route = "update"
      BY HowRead
    <2>2. CASE Update(r)
      <3>1. UpdateMetrics(Items(r)).updated[1].mtype = "counter"
        <4>1. ~Save(r)
          BY <2>2 DEF Update, Updating, Save
        <4>2. QED
          BY <4>1, HowRead
      <3>2. QED
        BY <1>2, <2>1, <2>2, <3>1, Zenon
    <2>3. CASE Save(r)
      <3>1. body[r][1].mtype = "counter" /\ pc[r] = "save"
        <4>1. pc[r] = "save"
          BY <2>3 DEF Save
        <4>2. ~Update(r)
          BY <4>1 DEF Update, Updating
        <4>3. QED
          BY <4>1, <4>2, HowRead
      <3>2. r \in ToSet(log)
        BY <3>1 DEF AcceptedInv
      <3>3. PICK i \in 1..Len(log) : log[i] = r
        BY <3>2 DEF HandlerTypes, ToSet
      <3>4. body[r] = BatchAfter(r, Flat(i - 1))
        BY <3>1, <3>3, Zenon DEF SavedInv
      <3>5. Items(r) \in Seq(Accepted) /\ Len(Items(r)) = 1
        BY <2>1, <3>2, LogItems DEF ItemsAccepted
      <3>6. Items(r)[1].mtype = "counter"
        BY <3>1, <3>4, <3>5, BatchOfOne, Zenon
      <3>7. Items(r)[1].id \in DOMAIN counters
        BY <2>1, <3>1, <3>6 DEF CountedInv
      <3>8. input'[r] = input[r]
        BY <3>1, StepFrame
      <3>9. Items(r)' = Items(r)
        BY <3>8, Zenon DEF Items
      <3>10. QED
        BY <1>1, <3>6, <3>7, <3>9, Zenon
    <2>4. QED
      BY <2>2, <2>3, HowRead
  <1>5. ASSUME NEW x \in Requests, x # r
        PROVE  /\ /\ pc'[x] = "save" /\ input'[x].route = "update"
                  /\ Items(x)[1].mtype' = "counter"
                  => Items(x)[1].id' \in DOMAIN counters'
               /\ pc'[x] = "read" =>
                     Items(x)[1].mtype' = "counter" /\ Items(x)[1].id' \in DOMAIN counters'
    <2>1. Same(x)
      BY <1>5, StepFrame
    <2>2. pc'[x] = pc[x] /\ input'[x] = input[x]
      BY <2>1 DEF Same
    <2>3. Items(x)' = Items(x)
      BY <2>2, Zenon DEF Items
    <2>4. /\ /\ pc[x] = "save" /\ input[x].route = "update"
             /\ Items(x)[1].mtype = "counter"
             => Items(x)[1].id \in DOMAIN counters
          /\ pc[x] = "read" =>
                Items(x)[1].mtype = "counter" /\ Items(x)[1].id \in DOMAIN counters
      BY Zenon DEF CountedInv
    <2>5. QED
      BY <1>1, <2>2, <2>3, <2>4, Zenon
  <1>6. QED
    <2>1. ASSUME NEW x \in Requests
          PROVE  /\ /\ pc'[x] = "save" /\ input'[x].route = "update"
                    /\ Items(x)[1].mtype' = "counter"
                    => Items(x)[1].id' \in DOMAIN counters'
                 /\ pc'[x] = "read" =>
                       Items(x)[1].mtype' = "counter" /\ Items(x)[1].id' \in DOMAIN counters'
      <3>1. CASE x = r
        BY <1>3, <1>4, <3>1, Zenon
      <3>2. CASE x # r
        BY <1>5, <3>2, Zenon
      <3>3. QED
        BY <3>1, <3>2
    <2>2. QED
      BY <2>1, Zenon DEF CountedInv

----------------------------------------------------------------------------
(* Answers.                                                                *)

\* What UpdateAnswered says of update i, which is one of request r.
Answers(r, i) ==
    /\ status[r] = 200 /\ input[r].route = "updates" =>
          body[r] = BatchAfter(r, Flat(i - 1))
    /\ status[r] = 200 /\ input[r].route = "update" /\ r \notin failed =>
          \E k \in i..Len(log) : body[r] = <<Valued(Items(r)[1], Flat(k))>>

UpdatesInv == \A r \in Requests : \A i \in 1..Len(log) : log[i] = r => Answers(r, i)

LEMMA AnswersKept ==
    ASSUME HandlerTypes, AcceptedInv, ServerInv, RouteInv,
           NEW r \in Requests, Steps(r), NEW i \in 1..Len(log),
           NEW x \in Requests, log[i] = x, Answers(x, i),
           body'[x] = body[x], status'[x] = status[x]
    PROVE  Answers(x, i)'
  <1>1. PICK n \in Nat, m \in Nat :
            n = Len(log) /\ DOMAIN log = 1..n /\ m = Len(log') /\ n <= m
    <2>1. log \in Seq(Requests) /\ (log' = log \/ log' = Append(log, r))
      BY StepFrame DEF HandlerTypes
    <2>2. Len(log) \in Nat /\ Len(log') \in Nat /\ Len(log) <= Len(log')
          /\ DOMAIN log = 1..Len(log)
      BY <2>1
    <2>3. QED
      BY <2>2
  <1>2. x \in ToSet(log) /\ x \in Requests
    BY LogMember, Zenon
  <1>3. input'[x] = input[x] /\ (x \notin failed' => x \notin failed)
    <2>1. pc[x] # "new"
      BY <1>2 DEF RouteInv
    <2>2. QED
      BY <1>2, <2>1, StepFrame, Zenon DEF Same
  <1>4. Items(x)' = Items(x)
    BY <1>3, Zenon DEF Items
  <1>5. i - 1 \in 0..n /\ (\A k \in i..n : k \in 0..n /\ k \in i..m)
    BY <1>1
  <1>6. \A k \in 0..n : Flat(k)' = Flat(k)
    BY <1>1, FlatStep, Zenon
  <1>7. BatchAfter(x, Flat(i - 1))' = BatchAfter(x, Flat(i - 1))
    BY <1>4, <1>5, <1>6, Zenon DEF BatchAfter
  <1>8. ASSUME status'[x] = 200, input'[x].route = "updates"
        PROVE  body'[x] = BatchAfter(x, Flat(i - 1))'
    BY <1>3, <1>7, <1>8, Zenon DEF Answers
  <1>9. ASSUME status'[x] = 200, input'[x].route = "update", x \notin failed'
         PROVE  \E k \in i..m : body'[x] = <<Valued(Items(x)[1], Flat(k))>>'
    <2>1. \E k \in i..n : body[x] = <<Valued(Items(x)[1], Flat(k))>>
      BY <1>1, <1>3, <1>9, Zenon DEF Answers
    <2>2. PICK k \in i..n : body[x] = <<Valued(Items(x)[1], Flat(k))>>
      BY <2>1
    <2>3. k \in 0..n /\ k \in i..m
      BY <1>5, Zenon
    <2>4. <<Valued(Items(x)[1], Flat(k))>>' = <<Valued(Items(x)[1], Flat(k))>>
      BY <1>4, <1>6, <2>3, Zenon DEF Valued
    <2>5. QED
      BY <2>2, <2>3, <2>4, Zenon
  <1>10. QED
    BY <1>1, <1>8, <1>9, Zenon DEF Answers

\* The step that answers an update.
LEMMA AnswersGiven ==
    ASSUME HandlerTypes, AcceptedInv, ServerInv, RouteInv, StoreIsSumOfUpdates,
           SavedInv, CountedInv, NEW r \in Requests, Steps(r), pc[r] # "publish",
           NEW i \in 1..Len(log'), log'[i] = r
    PROVE  Answers(r, i)'
  <1>1. PICK n \in Nat, m \in Nat :
            n = Len(log) /\ DOMAIN log = 1..n /\ m = Len(log') /\ n <= m
    <2>1. log \in Seq(Requests) /\ (log' = log \/ log' = Append(log, r))
      BY StepFrame DEF HandlerTypes
    <2>2. Len(log) \in Nat /\ Len(log') \in Nat /\ Len(log) <= Len(log')
          /\ DOMAIN log = 1..Len(log)
      BY <2>1
    <2>3. QED
      BY <2>2
  <1>2. CASE status'[r] # 200
    BY <1>2, Zenon DEF Answers
  <1>3. /\ log' = log => i \in 1..n /\ log[i] = r /\ r \in ToSet(log)
        /\ r \notin ToSet(log) => log' = Append(log, r) /\ i = n + 1
        /\ pc[r] # "new" /\ status[r] # 200
    <2>1. i \in 1..n /\ log[i] = r => r \in ToSet(log)
      BY <1>1, LogMember, Zenon
    <2>2. log' = log \/ (log' = Append(log, r) /\ (i \in 1..n => log'[i] = log[i]))
      BY <1>1, StepFrame DEF HandlerTypes
    <2>3. log' = Append(log, r) => i \in 1..n \/ i = n + 1
      BY <1>1 DEF HandlerTypes
    <2>4. log' = log => i \in 1..n /\ log[i] = r
      BY <1>1
    <2>5. pc[r] # "new"
      <3>1. pc[r] = "new" => log' = log
        BY StepFrame
      <3>2. QED
        BY <2>1, <2>4, <3>1 DEF AcceptedInv
    <2>6. status[r] # 200
      <3>1. pc[r] # "done"
        <4>1. PICK p \in Places, c \in {0, 200, 400, 404, 500} : Goes(r, p, c)
          BY HandlerGoes
        <4>2. QED
          BY <4>1 DEF Goes
      <3>2. QED
        BY <3>1 DEF ServerInv
    <2>7. QED
      BY <2>1, <2>2, <2>3, <2>4, <2>5, <2>6, Zenon
  <1>4. /\ input'[r] = input[r] /\ Items(r)' = Items(r)
        /\ DOMAIN body = Requests /\ DOMAIN status = Requests
    <2>1. input'[r] = input[r]
      BY <1>3, StepFrame
    <2>2. Items(r)' = Items(r)
      BY <2>1, Zenon DEF Items
    <2>3. QED
      BY <2>1, <2>2 DEF ServerInv, HandlerTypes
  <1>5. \A k \in 0..n : Flat(k)' = Flat(k)
    BY <1>1, FlatStep, Zenon
  <1>6. r \in ToSet(log) => /\ Items(r) \in Seq(Accepted)
                            /\ input[r].route # "updates" => Len(Items(r)) = 1
    BY LogItems DEF ItemsAccepted
  <1>7. CASE Update(r) /\ status'[r] = 200
    <2>1. /\ Updating(r) /\ log' = Append(log, r) /\ i = n + 1 /\ i - 1 = n
          /\ n \in 0..n /\ m \in i..m /\ m = n + 1
      <3>1. Updating(r) /\ log' = Append(log, r)
        BY <1>7 DEF Update
      <3>2. r \notin ToSet(log)
        BY <3>1 DEF Updating, AcceptedInv
      <3>3. i = n + 1
        BY <1>3, <3>2
      <3>4. m = n + 1
        BY <1>1, <3>1 DEF HandlerTypes
      <3>5. QED
        BY <1>1, <3>1, <3>3, <3>4
    <2>2. body' = [body EXCEPT ![r] = IF input[r].route = "path" THEN <<>>
                                      ELSE UpdateMetrics(Items(r)).updated]
      <3>1. \/ status' = status
            \/ body' = [body EXCEPT ![r] = IF input[r].route = "path" THEN <<>>
                                           ELSE UpdateMetrics(Items(r)).updated]
        BY <1>7, Zenon DEF Update, AfterUpdate, Answer
      <3>2. QED
        BY <1>3, <1>7, <3>1
    <2>3. input[r].route # "path" => body'[r] = BatchAfter(r, Flat(n))
      <3>1. UpdateMetrics(Items(r)).updated = BatchAfter(r, Flat(n))
        BY <1>1, <2>1, UpdateComputes, Zenon
      <3>2. QED
        BY <1>4, <2>2, <3>1
    <2>4. Flat(m)' = Flat(n) \o Items(r)
      <3>1. Flat(Len(log))' = Flat(Len(log)) \o Items(r)
        BY <2>1, FlatStep, Zenon
      <3>2. QED
        BY <1>1, <3>1, Zenon DEF Flat
    <2>5. input[r].route = "updates" => body'[r] = BatchAfter(r, Flat(i - 1))'
      <3>1. Flat(i - 1)' = Flat(n)
        BY <1>5, <2>1, Zenon
      <3>2. BatchAfter(r, Flat(i - 1))' = BatchAfter(r, Flat(n))
        BY <1>4, <3>1, Zenon DEF BatchAfter
      <3>3. QED
        BY <2>3, <3>2, Zenon
    <2>6. input[r].route = "update" => body'[r] = <<Valued(Items(r)[1], Flat(m))>>'
      <3>1. Items(r) \in Seq(Accepted) /\ (input[r].route = "update" => Len(Items(r)) = 1)
        BY <2>1, UpdateComputes
      <3>2. input[r].route = "update" =>
                body'[r] = <<Valued(Items(r)[1], Flat(n) \o Items(r))>>
        BY <2>3, <3>1, BatchOfOne, Zenon
      <3>3. <<Valued(Items(r)[1], Flat(m))>>' = <<Valued(Items(r)[1], Flat(n) \o Items(r))>>
        BY <1>4, <2>4, Zenon DEF Valued
      <3>4. QED
        BY <3>2, <3>3, Zenon
    <2>7. QED
      BY <1>1, <1>4, <2>1, <2>5, <2>6, Zenon DEF Answers
  <1>8. CASE Save(r) /\ status'[r] = 200
    <2>1. /\ pc[r] = "save" /\ r \in ToSet(log) /\ i \in 1..n /\ log[i] = r
          /\ i - 1 \in 0..n /\ i \in 0..n /\ i \in i..m
      <3>1. pc[r] = "save" /\ log' = log
        BY <1>8 DEF Save, history
      <3>2. QED
        BY <1>1, <1>3, <3>1
    <2>2. body' = [body EXCEPT ![r] = IF input[r].route = "path" THEN <<>> ELSE body[r]]
      <3>1. \/ status' = status
            \/ status' = [status EXCEPT ![r] = 500]
            \/ body' = [body EXCEPT ![r] = IF input[r].route = "path" THEN <<>> ELSE body[r]]
        BY <1>8, Zenon DEF Save, AfterUpdate, Answer
      <3>2. QED
        BY <1>3, <1>4, <1>8, <3>1
    <2>3. body[r] = BatchAfter(r, Flat(i - 1))
      BY <1>1, <2>1, Zenon DEF SavedInv
    <2>4. input[r].route # "path" => body'[r] = BatchAfter(r, Flat(i - 1))
      BY <1>4, <2>2, <2>3
    <2>5. input[r].route = "updates" => body'[r] = BatchAfter(r, Flat(i - 1))'
      <3>1. Flat(i - 1)' = Flat(i - 1)
        BY <1>5, <2>1, Zenon
      <3>2. BatchAfter(r, Flat(i - 1))' = BatchAfter(r, Flat(i - 1))
        BY <1>4, <3>1, Zenon DEF BatchAfter
      <3>3. QED
        BY <2>4, <3>2, Zenon
    <2>6. input[r].route = "update" => body'[r] = <<Valued(Items(r)[1], Flat(i))>>'
      <3>1. Flat(i) = Flat(i - 1) \o Items(r)
        BY <1>1, <2>1, LogItems, FlatFacts, Zenon
      <3>2. input[r].route = "update" => body'[r] = <<Valued(Items(r)[1], Flat(i))>>
        BY <1>6, <2>1, <2>4, <3>1, BatchOfOne, Zenon
      <3>3. <<Valued(Items(r)[1], Flat(i))>>' = <<Valued(Items(r)[1], Flat(i))>>
        BY <1>4, <1>5, <2>1, Zenon DEF Valued
      <3>4. QED
        BY <3>2, <3>3, Zenon
    <2>7. QED
      BY <1>1, <1>4, <2>1, <2>5, <2>6, Zenon DEF Answers
  <1>9. CASE ReadBack(r)
    <2>1. /\ pc[r] = "read" /\ log' = log /\ input[r].route = "update"
          /\ body' = [body EXCEPT ![r] = <<Counter(Items(r)[1].id, At(counters, Items(r)[1].id))>>]
      BY <1>9 DEF ReadBack, Answer, history, RouteInv
    <2>2. i \in 1..n /\ n \in 0..n /\ n \in i..m
      BY <1>1, <1>3, <2>1
    <2>3. /\ Items(r)[1].mtype = "counter" /\ Items(r)[1].id \in DOMAIN counters
      BY <2>1 DEF CountedInv
    <2>4. counters = CountersAfter(Flat(n))
      BY <1>1, Zenon DEF StoreIsSumOfUpdates
    <2>5. Valued(Items(r)[1], Flat(n)) = Counter(Items(r)[1].id, At(counters, Items(r)[1].id))
      BY <2>3, <2>4 DEF Valued, At
    <2>6. body'[r] = <<Valued(Items(r)[1], Flat(n))>>
      BY <1>4, <2>1, <2>5
    <2>7. <<Valued(Items(r)[1], Flat(n))>>' = <<Valued(Items(r)[1], Flat(n))>>
      BY <1>4, <1>5, <2>2, Zenon DEF Valued
    <2>8. body'[r] = <<Valued(Items(r)[1], Flat(n))>>'
      BY <2>6, <2>7, Zenon
    <2>9. input'[r].route # "updates"
      BY <1>4, <2>1
    <2>10. \E k \in i..Len(log') : body'[r] = <<Valued(Items(r)[1], Flat(k))>>'
      BY <1>1, <2>2, <2>8, Zenon
    <2>11. QED
      BY <2>9, <2>10, Zenon DEF Answers
  <1>10. CASE ReadFails(r)
    <2>1. r \in failed' /\ log' = log /\ pc[r] \in {"read", "execute"}
      BY <1>10 DEF ReadFails
    <2>2. pc[r] = "read"
      BY <1>3, <2>1 DEF AcceptedInv
    <2>3. input'[r].route # "updates"
      BY <1>4, <2>2 DEF RouteInv
    <2>4. QED
      BY <2>1, <2>3, Zenon DEF Answers
  <1>11. QED
    <2>1. ASSUME Call(r) \/ GetValue(r) \/ ListMetrics(r) PROVE FALSE
      <3>1. log' = log /\ pc[r] \in {"new", "execute"}
        BY <2>1 DEF Call, GetValue, ListMetrics, history
      <3>2. QED
        BY <1>3, <3>1 DEF AcceptedInv
    <2>2. UpdateFails(r) => status'[r] = 500
      <3>1. UpdateFails(r) => status' = [status EXCEPT ![r] = 500]
        BY Zenon DEF UpdateFails, Answer
      <3>2. QED
        BY <1>4, <3>1
    <2>3. Publish(r) => pc[r] = "publish"
      BY DEF Publish
    <2>4. QED
      BY <1>2, <1>7, <1>8, <1>9, <1>10, <2>1, <2>2, <2>3 DEF Steps

LEMMA UpdatesStep ==
    ASSUME HandlerTypes, AcceptedInv, ServerInv, RouteInv, StoreIsSumOfUpdates,
           SavedInv, CountedInv, UpdatesInv, NEW r \in Requests, Steps(r)
    PROVE  UpdatesInv'
  <1> SUFFICES ASSUME NEW x \in Requests, NEW i \in 1..Len(log'), log'[i] = x
               PROVE  Answers(x, i)'
    BY Zenon DEF UpdatesInv
  <1>1. CASE x # r \/ pc[r] = "publish"
    <2>1. body'[x] = body[x] /\ status'[x] = status[x] /\ log[i] = x /\ i \in 1..Len(log)
      <3>1. CASE x # r
        <4>1. body'[x] = body[x] /\ status'[x] = status[x]
          BY <3>1, StepFrame DEF Same
        <4>2. i \in 1..Len(log) /\ log'[i] = log[i]
          BY <3>1, StepFrame DEF HandlerTypes
        <4>3. QED
          BY <4>1, <4>2
      <3>2. CASE pc[r] = "publish"
        <4>1. Publish(r)
          BY <3>2 DEF Steps, Call, Update, UpdateFails, Updating, Save, ReadBack, GetValue,
                      ListMetrics, ReadFails
        <4>2. UNCHANGED <<body, status, log>>
          BY <4>1 DEF Publish, history
        <4>3. QED
          BY <4>2
      <3>3. QED
        BY <1>1, <3>1, <3>2
    <2>2. Answers(x, i)
      BY <2>1, Zenon DEF UpdatesInv
    <2>3. QED
      BY <2>1, <2>2, AnswersKept, Zenon
  <1>2. CASE x = r /\ pc[r] # "publish"
    BY <1>2, AnswersGiven, Zenon
  <1>3. QED
    BY <1>1, <1>2

----------------------------------------------------------------------------
(* Queries and lists.                                                      *)

\* The answer of a request that is no update and whose read did not fail.
QueryInv ==
    \A r \in Requests \ failed :
        /\ input[r] # Nil /\ status[r] \in {200, 404}
        /\ input[r].route \in {"value", "query"} /\ Refusal(input[r]) = 0
        => QueryAnswered(r)

\* What a list shows after the metrics of s, and after k updates.
ShownOf(s) ==
    {Gauge(n, GaugesAfter(s)[n]) : n \in Ids(s, "gauge")}
    \cup {Counter(n, CountersAfter(s)[n]) : n \in Ids(s, "counter")}
Shown(k) == ShownOf(Flat(k))

ListInv ==
    \A r \in Requests \ failed :
        status[r] = 200 /\ input[r].route = "list" =>
            \E k \in began[r]..Len(log) : ToSet(body[r]) = Shown(k)

\* Only GetValue and ListMetrics answer such a request.
LEMMA WhoAnswers ==
    ASSUME HandlerTypes, AcceptedInv, ServerInv, RouteInv, NEW r \in Requests, Steps(r),
           r \notin failed', status'[r] \in {200, 404},
           input'[r].route \notin UpdateRoutes, Refusal(input'[r]) = 0 \/ status'[r] = 200
    PROVE  GetValue(r) \/ ListMetrics(r)
  <1>1. ASSUME Call(r) PROVE FALSE
    <2>1. PICK in \in Inputs :
              /\ input' = [input EXCEPT ![r] = in]
              /\ IF Refusal(in) # 0 THEN Answer(r, Refusal(in), <<>>, "done")
                 ELSE pc' = [pc EXCEPT ![r] = "execute"] /\ UNCHANGED <<status, body>>
      BY <1>1 DEF Call
    <2>2. status[r] = 0
      BY <1>1 DEF Call, ServerInv
    <2>3. input'[r] = in
      BY <2>1 DEF HandlerTypes
    <2>4. CASE Refusal(in) # 0
      <3>1. PICK code \in {400, 404} : code = Refusal(in)
        BY <2>4, RefusalValues
      <3>2. status' = [status EXCEPT ![r] = code]
        BY <2>1, <2>4, <3>1, Zenon DEF Answer
      <3>3. status'[r] = code
        BY <3>2 DEF HandlerTypes
      <3>4. QED
        BY <2>3, <3>1, <3>3
    <2>5. CASE Refusal(in) = 0
      <3>1. status' = status
        BY <2>1, <2>5, Zenon
      <3>2. QED
        BY <2>2, <3>1
    <2>6. QED
      BY <2>4, <2>5
  <1>2. ASSUME r \in ToSet(log) PROVE FALSE
    <2>1. input[r].route \in UpdateRoutes /\ pc[r] # "new"
      BY <1>2 DEF RouteInv
    <2>2. QED
      BY <2>1, StepFrame
  <1>3. ASSUME Updating(r) PROVE FALSE
    <2>1. input[r].route \in UpdateRoutes /\ pc[r] # "new"
      BY <1>3 DEF Updating, UpdateRoutes
    <2>2. QED
      BY <2>1, StepFrame
  <1>4. Save(r) \/ ReadBack(r) \/ Publish(r) => r \in ToSet(log)
    BY DEF Save, ReadBack, Publish, AcceptedInv
  <1>5. Update(r) \/ UpdateFails(r) => Updating(r)
    BY DEF Update, UpdateFails
  <1>6. ReadFails(r) => r \in failed'
    BY DEF ReadFails
  <1>7. QED
    BY <1>1, <1>2, <1>3, <1>4, <1>5, <1>6 DEF Steps

LEMMA MapsAreReference ==
    ASSUME HandlerTypes, AcceptedInv, RouteInv, StoreIsSumOfUpdates
    PROVE  /\ Flat(Len(log)) \in Seq(Accepted)
           /\ gauges = GaugesAfter(Flat(Len(log)))
           /\ counters = CountersAfter(Flat(Len(log)))
           /\ DOMAIN gauges = Ids(Flat(Len(log)), "gauge")
           /\ DOMAIN counters = Ids(Flat(Len(log)), "counter")
           /\ DOMAIN gauges \subseteq Names /\ IsFiniteSet(DOMAIN gauges)
           /\ DOMAIN counters \subseteq Names /\ IsFiniteSet(DOMAIN counters)
  <1>1. Flat(Len(log)) \in Seq(Accepted)
    <2>1. Len(log) \in 0..Len(log)
      BY DEF HandlerTypes
    <2>2. QED
      BY <2>1, LogItems, FlatFacts, Zenon
  <1>2. PICK s \in Seq(Accepted) : s = Flat(Len(log))
    BY <1>1, Zenon
  <1>3. gauges = GaugesAfter(s) /\ counters = CountersAfter(s)
    BY <1>2, Zenon DEF StoreIsSumOfUpdates
  <1>4. DOMAIN gauges = Ids(s, "gauge") /\ DOMAIN counters = Ids(s, "counter")
    BY <1>3, Zenon DEF GaugesAfter, CountersAfter
  <1>5. QED
    BY <1>1, <1>2, <1>3, <1>4, IdsType, Zenon

\* What a query may answer of metric m after the metrics of s.
TrueOf(code, b, m, s) ==
    IF code = 404 THEN m.id \notin Ids(s, m.mtype)
    ELSE /\ m.id \in Ids(s, m.mtype)
         /\ \/ b = <<Valued(m, s)>>
            \/ b = <<>> /\ Valued(m, s).value = NaN

LEMMA QueryAnsweredIs ==
    ASSUME NEW r
    PROVE  QueryAnswered(r) <=>
              \E k \in began[r]..Len(log) :
                  TrueOf(status[r], body[r], input[r].metrics[1], Flat(k))
  BY Zenon DEF QueryAnswered, TrueOf

\* A query answers with the maps as they are at that step.
LEMMA QueryGiven ==
    ASSUME HandlerTypes, AcceptedInv, ServerInv, RouteInv, StoreIsSumOfUpdates,
           NEW r \in Requests, GetValue(r)
    PROVE  TrueOf(status'[r], body'[r], input[r].metrics[1], Flat(Len(log)))
  <1> DEFINE ms == input[r].metrics
             m == ms[1]
  <1>1. /\ DOMAIN status = Requests /\ DOMAIN body = Requests
        /\ input[r] \in Inputs /\ Refusal(input[r]) = 0 /\ pc[r] = "execute"
        /\ input[r].route \in {"value", "query"}
    BY DEF GetValue, HandlerTypes, ServerInv, AcceptedInv
  <1>2. /\ ms # Nil
        /\ \A i \in DOMAIN ms : ms[i].mtype \in {"gauge", "counter"}
    <2>1. Refusal(input[r]) = IF ms = Nil THEN 400
             ELSE IF input[r].route \in {"update", "query"} /\ ms[1].id = NoName THEN 404
             ELSE IF \E i \in DOMAIN ms :
                        \/ input[r].route = "updates" /\ ms[i].id = NoName
                        \/ ms[i].mtype \notin {"gauge", "counter"}
                        \/ input[r].route \notin {"value", "query"} /\ Missing(ms[i])
             THEN 400 ELSE 0
      BY Zenon DEF Refusal
    <2>2. 400 # 0 /\ 404 # 0
      OBVIOUS
    <2>3. QED
      BY <1>1, <2>1, <2>2, Zenon
  <1>3. ms \in Seq(Metric) /\ Len(ms) = 1
    BY <1>1, <1>2, HandlerAssumption
  <1>4. m.mtype \in {"gauge", "counter"}
    BY <1>2, <1>3
  <1>5. PICK s : /\ s = Flat(Len(log))
                 /\ gauges = GaugesAfter(s) /\ counters = CountersAfter(s)
                 /\ DOMAIN gauges = Ids(s, "gauge") /\ DOMAIN counters = Ids(s, "counter")
    BY MapsAreReference, Zenon
  <1>6. ASSUME m.mtype = "gauge" /\ m.id \in DOMAIN gauges
        PROVE  TrueOf(status'[r], body'[r], m, s)
    <2>1. /\ status' = [status EXCEPT ![r] = 200]
          /\ body' = [body EXCEPT ![r] = IF input[r].route = "query" /\ gauges[m.id] = NaN
                                         THEN <<>> ELSE <<Gauge(m.id, gauges[m.id])>>]
      BY <1>6, Zenon DEF GetValue, Answer
    <2>2. status'[r] = 200
      BY <1>1, <2>1
    <2>3. body'[r] = <<Gauge(m.id, gauges[m.id])>> \/ (body'[r] = <<>> /\ gauges[m.id] = NaN)
      BY <1>1, <2>1
    <2>4. Valued(m, s) = Gauge(m.id, gauges[m.id])
      BY <1>5, <1>6, Zenon DEF Valued
    <2>5. Gauge(m.id, gauges[m.id]).value = gauges[m.id]
      BY DEF Gauge
    <2>6. m.id \in Ids(s, m.mtype)
      BY <1>5, <1>6, Zenon
    <2>7. status'[r] # 404
      BY <2>2
    <2>8. body'[r] = <<Valued(m, s)>> \/ (body'[r] = <<>> /\ Valued(m, s).value = NaN)
      BY <2>3, <2>4, <2>5, Zenon
    <2>9. QED
      BY <2>6, <2>7, <2>8, Zenon DEF TrueOf
  <1>7. ASSUME m.mtype = "counter" /\ m.id \in DOMAIN counters
        PROVE  TrueOf(status'[r], body'[r], m, s)
    <2>1. /\ status' = [status EXCEPT ![r] = 200]
          /\ body' = [body EXCEPT ![r] = <<Counter(m.id, counters[m.id])>>]
      BY <1>7 DEF GetValue, Answer
    <2>2. status'[r] = 200 /\ body'[r] = <<Counter(m.id, counters[m.id])>>
      BY <1>1, <2>1
    <2>3. Valued(m, s) = Counter(m.id, counters[m.id])
      BY <1>5, <1>7 DEF Valued
    <2>4. m.id \in Ids(s, m.mtype)
      BY <1>5, <1>7, Zenon
    <2>5. status'[r] # 404
      BY <2>2
    <2>6. body'[r] = <<Valued(m, s)>>
      BY <2>2, <2>3, Zenon
    <2>7. QED
      BY <2>4, <2>5, <2>6, Zenon DEF TrueOf
  <1>8. ASSUME ~(m.mtype = "gauge" /\ m.id \in DOMAIN gauges),
               ~(m.mtype = "counter" /\ m.id \in DOMAIN counters)
        PROVE  TrueOf(status'[r], body'[r], m, s)
    <2>1. status' = [status EXCEPT ![r] = 404]
      BY <1>8 DEF GetValue, Answer
    <2>2. status'[r] = 404
      BY <1>1, <2>1
    <2>3. m.id \notin Ids(s, m.mtype)
      BY <1>4, <1>5, <1>8
    <2>4. QED
      BY <2>2, <2>3, Zenon DEF TrueOf
  <1>9. TrueOf(status'[r], body'[r], m, s)
    BY <1>6, <1>7, <1>8
  <1>10. QED
    BY <1>5, <1>9, Zenon

LEMMA ListGiven ==
    ASSUME HandlerTypes, AcceptedInv, ServerInv, RouteInv, StoreIsSumOfUpdates,
           NEW r \in Requests, ListMetrics(r)
    PROVE  ToSet(body'[r]) = Shown(Len(log))
  <1>1. body'[r] = Snapshot
    BY DEF ListMetrics, Answer, ServerInv
  <1>2. PICK s : /\ s = Flat(Len(log))
                 /\ gauges = GaugesAfter(s) /\ counters = CountersAfter(s)
                 /\ DOMAIN gauges = Ids(s, "gauge") /\ DOMAIN counters = Ids(s, "counter")
                 /\ IsFiniteSet(DOMAIN gauges) /\ IsFiniteSet(DOMAIN counters)
    BY MapsAreReference, Zenon
  <1>3. ToSet(Snapshot) = {Gauge(n, gauges[n]) : n \in DOMAIN gauges}
                          \cup {Counter(n, counters[n]) : n \in DOMAIN counters}
    BY <1>2, SnapshotShows
  <1>4. ToSet(Snapshot) = {Gauge(n, GaugesAfter(s)[n]) : n \in Ids(s, "gauge")}
                          \cup {Counter(n, CountersAfter(s)[n]) : n \in Ids(s, "counter")}
    BY <1>2, <1>3, Zenon
  <1>5. QED
    BY <1>1, <1>2, <1>4, Zenon DEF Shown, ShownOf

\* The moments between the beginning of a request and now: none is forgotten.
LEMMA Moments ==
    ASSUME HandlerTypes, AcceptedInv, ServerInv, RouteInv, NEW r \in Requests, Steps(r)
    PROVE  /\ \A x \in Requests : \A k \in began[x]..Len(log) :
                  k \in 0..Len(log) /\ k \in began[x]..Len(log')
           /\ \A x \in Requests : Len(log) \in began[x]..Len(log)
  <1>1. PICK n \in Nat, m \in Nat : n = Len(log) /\ m = Len(log') /\ n <= m
    <2>1. log \in Seq(Requests) /\ (log' = log \/ log' = Append(log, r))
      BY StepFrame DEF HandlerTypes
    <2>2. Len(log) \in Nat /\ Len(log') \in Nat /\ Len(log) <= Len(log')
      BY <2>1
    <2>3. QED
      BY <2>2
  <1>2. \A x \in Requests : began[x] \in 0..n
    BY <1>1 DEF ServerInv
  <1>3. \A x \in Requests : n \in began[x]..n
    BY <1>2
  <1>4. \A x \in Requests : \A k \in began[x]..n : k \in 0..n /\ k \in began[x]..m
    BY <1>1, <1>2
  <1>5. QED
    BY <1>1, <1>3, <1>4, Zenon

LEMMA QueryStep ==
    ASSUME HandlerTypes, AcceptedInv, ServerInv, RouteInv, StoreIsSumOfUpdates,
           QueryInv, NEW r \in Requests, Steps(r)
    PROVE  QueryInv'
  <1> SUFFICES ASSUME NEW x \in Requests, x \notin failed', input'[x] # Nil,
                      status'[x] \in {200, 404}, input'[x].route \in {"value", "query"},
                      Refusal(input'[x]) = 0
               PROVE  QueryAnswered(x)'
    BY Zenon DEF QueryInv
  <1>1. PICK k \in began[x]..Len(log) :
            /\ TrueOf(status'[x], body'[x], input[x].metrics[1], Flat(k))
            /\ input'[x] = input[x] /\ began'[x] = began[x]
    <2>1. CASE x # r
      <3>1. Same(x)
        BY <2>1, StepFrame
      <3>2. QueryAnswered(x)
        BY <3>1 DEF Same, QueryInv
      <3>3. \E k \in began[x]..Len(log) :
                TrueOf(status[x], body[x], input[x].metrics[1], Flat(k))
        BY <3>2, QueryAnsweredIs, Zenon
      <3>4. QED
        BY <3>1, <3>3, Zenon DEF Same
    <2>2. CASE x = r
      <3>1. GetValue(r)
        <4>1. input'[r].route \notin UpdateRoutes
          BY <2>2 DEF UpdateRoutes
        <4>2. GetValue(r) \/ ListMetrics(r)
          BY <2>2, <4>1, WhoAnswers
        <4>3. ~ListMetrics(r)
          BY <2>2 DEF ListMetrics
        <4>4. QED
          BY <4>2, <4>3
      <3>2. pc[r] # "new"
        BY <3>1 DEF GetValue
      <3>3. input'[r] = input[r] /\ began'[r] = began[r]
        BY <3>2, StepFrame
      <3>4. TrueOf(status'[r], body'[r], input[r].metrics[1], Flat(Len(log)))
        BY <3>1, QueryGiven
      <3>5. Len(log) \in began[r]..Len(log)
        BY Moments, Zenon
      <3>6. QED
        BY <2>2, <3>3, <3>4, <3>5, Zenon
    <2>3. QED
      BY <2>1, <2>2
  <1>2. k \in began[x]..Len(log') /\ Flat(k)' = Flat(k)
    <2>1. k \in began[x]..Len(log)
      BY <1>1, Zenon
    <2>2. k \in 0..Len(log) /\ k \in began[x]..Len(log')
      BY <2>1, Moments, Zenon
    <2>3. Flat(k)' = Flat(k)
      BY <2>2, FlatStep, Zenon
    <2>4. QED
      BY <2>2, <2>3
  <1>3. k \in began'[x]..Len(log')
    BY <1>1, <1>2, Zenon
  <1>4. PICK s : s = Flat(k) /\ s = Flat(k)'
    BY <1>2
  <1>5. TrueOf(status'[x], body'[x], input'[x].metrics[1], s)
    BY <1>1, <1>4, Zenon
  <1>6. TrueOf(status'[x], body'[x], input'[x].metrics[1], Flat(k)')
    BY <1>4, <1>5, Zenon
  <1>7. QED
    BY <1>3, <1>6, Zenon DEF QueryAnswered, TrueOf

LEMMA ListStep ==
    ASSUME HandlerTypes, AcceptedInv, ServerInv, RouteInv, StoreIsSumOfUpdates,
           ListInv, NEW r \in Requests, Steps(r)
    PROVE  ListInv'
  <1> SUFFICES ASSUME NEW x \in Requests, x \notin failed',
                      status'[x] = 200, input'[x].route = "list"
               PROVE  \E k \in began'[x]..Len(log') : ToSet(body'[x]) = Shown(k)'
    BY Zenon DEF ListInv
  <1>1. PICK k \in began[x]..Len(log) :
            ToSet(body'[x]) = Shown(k) /\ began'[x] = began[x]
    <2>1. CASE x # r
      <3>1. Same(x)
        BY <2>1, StepFrame
      <3>2. \E k \in began[x]..Len(log) : ToSet(body[x]) = Shown(k)
        BY <3>1 DEF Same, ListInv
      <3>3. QED
        BY <3>1, <3>2, Zenon DEF Same
    <2>2. CASE x = r
      <3>1. ListMetrics(r)
        <4>1. input'[r].route \notin UpdateRoutes
          BY <2>2 DEF UpdateRoutes
        <4>2. GetValue(r) \/ ListMetrics(r)
          BY <2>2, <4>1, WhoAnswers
        <4>3. ~GetValue(r)
          BY <2>2 DEF GetValue
        <4>4. QED
          BY <4>2, <4>3
      <3>2. pc[r] # "new"
        BY <3>1 DEF ListMetrics
      <3>3. began'[r] = began[r]
        BY <3>2, StepFrame
      <3>4. ToSet(body'[r]) = Shown(Len(log))
        BY <3>1, ListGiven
      <3>5. Len(log) \in began[r]..Len(log)
        BY Moments, Zenon
      <3>6. QED
        BY <2>2, <3>3, <3>4, <3>5, Zenon
    <2>3. QED
      BY <2>1, <2>2
  <1>2. k \in began'[x]..Len(log') /\ Flat(k)' = Flat(k)
    <2>1. k \in began[x]..Len(log)
      BY <1>1, Zenon
    <2>2. k \in 0..Len(log) /\ k \in began[x]..Len(log')
      BY <2>1, Moments, Zenon
    <2>3. Flat(k)' = Flat(k)
      BY <2>2, FlatStep, Zenon
    <2>4. k \in began'[x]..Len(log')
      BY <1>1, <2>2, Zenon
    <2>5. QED
      BY <2>3, <2>4
  <1>3. Shown(k)' = Shown(k)
    BY <1>2, Zenon DEF Shown
  <1>4. QED
    BY <1>1, <1>2, <1>3, Zenon

----------------------------------------------------------------------------
(* The theorems.                                                           *)

StoreInv ==
    HandlerTypes /\ AcceptedInv /\ ServerInv /\ RouteInv /\ StoreIsSumOfUpdates

AnswerInv == SavedInv /\ CountedInv /\ UpdatesInv /\ QueryInv /\ ListInv

LEMMA StoreInvariant == Spec => []StoreInv
  <1>1. Init => HandlerTypes /\ AcceptedInv
    BY DEF Init, HandlerTypes, AcceptedInv, Places, ToSet
  <1>2. Init => ServerInv /\ RouteInv
    BY <1>1 DEF Init, ServerInv, RouteInv, ToSet
  <1>3. Init => StoreIsSumOfUpdates
    <2> SUFFICES ASSUME Init PROVE StoreIsSumOfUpdates
      OBVIOUS
    <2>1. Flat(Len(log)) = <<>>
      BY DEF Init, Flat, FlattenSeq
    <2>2. Ids(<<>>, "gauge") = {} /\ Ids(<<>>, "counter") = {}
      BY DEF Ids
    <2>3. GaugesAfter(<<>>) = <<>> /\ CountersAfter(<<>>) = <<>>
      BY <2>2 DEF GaugesAfter, CountersAfter
    <2>4. QED
      BY <2>1, <2>3 DEF Init, StoreIsSumOfUpdates
  <1>4. StoreInv /\ [Next]_vars => StoreInv'
    <2> SUFFICES ASSUME StoreInv, [Next]_vars PROVE StoreInv'
      OBVIOUS
    <2>1. CASE UNCHANGED vars
      BY <2>1
      DEF vars, store, history, StoreInv, HandlerTypes, AcceptedInv, ServerInv, RouteInv,
          StoreIsSumOfUpdates, Flat, Items
    <2>2. ASSUME NEW r \in Requests, Steps(r) PROVE StoreInv'
      BY <2>2, TypesStep, AcceptedStep, ServerStep, RouteStep, StoreStep DEF StoreInv
    <2>3. QED
      BY <2>1, <2>2 DEF Next, Steps, Served
  <1>5. QED
    BY <1>1, <1>2, <1>3, <1>4, PTL DEF Spec, StoreInv

LEMMA AnswerInvariant == Spec => []AnswerInv
  <1>1. Init => AnswerInv
    <2> SUFFICES ASSUME Init PROVE AnswerInv
      OBVIOUS
    <2>1. Len(log) = 0 /\ (\A r \in Requests : pc[r] = "new" /\ status[r] = 0)
      BY DEF Init
    <2>2. 1..Len(log) = {} /\ 0 \notin {200, 404}
      BY <2>1
    <2>3. SavedInv /\ UpdatesInv
      BY <2>2, Zenon DEF SavedInv, UpdatesInv
    <2>4. CountedInv
      BY <2>1 DEF CountedInv
    <2>5. QueryInv /\ ListInv
      BY <2>1 DEF QueryInv, ListInv
    <2>6. QED
      BY <2>3, <2>4, <2>5 DEF AnswerInv
  <1>2. StoreInv /\ AnswerInv /\ [Next]_vars => AnswerInv'
    <2> SUFFICES ASSUME StoreInv, AnswerInv, [Next]_vars PROVE AnswerInv'
      OBVIOUS
    <2>1. CASE UNCHANGED vars
      <3>1. UNCHANGED <<gauges, counters, pc, input, status, body, log, began, failed>>
        BY <2>1 DEF vars, store, history
      <3>2. \A x : Items(x)' = Items(x)
        BY <3>1, Zenon DEF Items
      <3>3. \A k : Flat(k)' = Flat(k)
        BY <3>1, Zenon DEF Flat, Items
      <3>4. \A x, i : BatchAfter(x, Flat(i - 1))' = BatchAfter(x, Flat(i - 1))
        BY <3>2, <3>3, Zenon DEF BatchAfter
      <3>5. SavedInv'
        <4>1. ASSUME NEW i
              PROVE  BatchAfter(log[i], Flat(i - 1))' = BatchAfter(log[i], Flat(i - 1))
          <5>1. Items(log[i])' = Items(log[i]) /\ Flat(i - 1)' = Flat(i - 1)
            BY <3>1, <3>3, Zenon DEF Items
          <5>2. QED
            BY <5>1, Zenon DEF BatchAfter
        <4>2. QED
          BY <3>1, <4>1, Zenon DEF AnswerInv, SavedInv
      <3>6. CountedInv'
        BY <3>1, <3>2, Zenon DEF AnswerInv, CountedInv
      <3>7. UpdatesInv'
        <4>1. ASSUME NEW x, NEW i PROVE Answers(x, i) => Answers(x, i)'
          <5>1. \A k : <<Valued(Items(x)[1], Flat(k))>>' = <<Valued(Items(x)[1], Flat(k))>>
            BY <3>2, <3>3, Zenon DEF Valued
          <5>2. BatchAfter(x, Flat(i - 1))' = BatchAfter(x, Flat(i - 1))
            BY <3>4, Zenon
          <5>3. ASSUME Answers(x, i), status'[x] = 200, input'[x].route = "updates"
                PROVE  body'[x] = BatchAfter(x, Flat(i - 1))'
            BY <3>1, <5>2, <5>3, Zenon DEF Answers
          <5>4. ASSUME Answers(x, i), status'[x] = 200, input'[x].route = "update",
                       x \notin failed'
                PROVE  \E k \in i..Len(log') : body'[x] = <<Valued(Items(x)[1], Flat(k))>>'
            <6>1. status[x] = 200 /\ input[x].route = "update" /\ x \notin failed
              BY <3>1, <5>4, Zenon
            <6>2. \E k \in i..Len(log) : body[x] = <<Valued(Items(x)[1], Flat(k))>>
              BY <5>4, <6>1, Zenon DEF Answers
            <6>3. PICK k \in i..Len(log) : body[x] = <<Valued(Items(x)[1], Flat(k))>>
              BY <6>2
            <6>4. body'[x] = <<Valued(Items(x)[1], Flat(k))>>'
              BY <3>1, <5>1, <6>3, Zenon
            <6>5. k \in i..Len(log')
              BY <3>1, <6>3, Zenon
            <6>6. QED
              BY <6>4, <6>5, Zenon
          <5>5. QED
            BY <5>3, <5>4, Zenon DEF Answers
        <4>2. QED
          BY <3>1, <4>1, Zenon DEF AnswerInv, UpdatesInv
      <3>8. QueryInv'
        <4>1. ASSUME NEW x PROVE QueryAnswered(x) => QueryAnswered(x)'
          BY <3>1, <3>3, Zenon DEF QueryAnswered
        <4>2. QED
          BY <3>1, <4>1, Zenon DEF AnswerInv, QueryInv
      <3>9. ListInv'
        <4>1. \A k : Shown(k)' = Shown(k)
          BY <3>3, Zenon DEF Shown
        <4>2. QED
          BY <3>1, <4>1, Zenon DEF AnswerInv, ListInv
      <3>10. QED
        BY <3>5, <3>6, <3>7, <3>8, <3>9 DEF AnswerInv
    <2>2. ASSUME NEW r \in Requests, Steps(r) PROVE AnswerInv'
      BY <2>2, SavedStep, CountedStep, UpdatesStep, QueryStep, ListStep
      DEF StoreInv, AnswerInv
    <2>3. QED
      BY <2>1, <2>2 DEF Next, Steps, Served
  <1>3. QED
    BY <1>1, <1>2, StoreInvariant, PTL DEF Spec

----------------------------------------------------------------------------
(* What the status of an update tells.  No request is in the log twice, for *)
(* it gets there from "execute" only, where it is not in it yet; and the    *)
(* status is written by a step that knows whether the request is in it.     *)

EffectInv ==
    /\ \A i, j \in DOMAIN log : log[i] = log[j] => i = j
    /\ \A r \in Requests :
          /\ pc[r] = "save" => storage = "file"
          /\ status[r] = 200 /\ input[r].route \in UpdateRoutes => r \in ToSet(log)
          /\ status[r] \in {400, 404} => r \notin ToSet(log)
          /\ status[r] = 500 => /\ storage # "memory"
                                /\ storage = "file" => r \in ToSet(log)

\* What the step of a request itself writes.
LEMMA EffectGiven ==
    ASSUME StoreInv, EffectInv, NEW r \in Requests, Steps(r)
    PROVE  /\ pc'[r] = "save" => storage = "file"
           /\ status'[r] = 200 /\ input'[r].route \in UpdateRoutes => r \in ToSet(log')
           /\ status'[r] \in {400, 404} => r \notin ToSet(log')
           /\ status'[r] = 500 => /\ storage # "memory"
                                  /\ storage = "file" => r \in ToSet(log')
  <1>1. /\ r \in DOMAIN pc /\ r \in DOMAIN status
        /\ storage \in {"memory", "file", "postgres"}
        /\ pc[r] \notin {"publish", "done"} => status[r] = 0
    BY DEF StoreInv, HandlerTypes, ServerInv
  <1>2. /\ pc[r] \in {"new", "execute"} => r \notin ToSet(log)
        /\ pc[r] \in {"save", "read", "publish"} => r \in ToSet(log)
    BY DEF StoreInv, AcceptedInv
  <1>3. CASE Call(r)
    <2>1. pc[r] = "new" /\ log' = log
      BY <1>3 DEF Call
    <2>2. PICK in \in Inputs :
              IF Refusal(in) # 0 THEN Answer(r, Refusal(in), <<>>, "done")
              ELSE pc' = [pc EXCEPT ![r] = "execute"] /\ UNCHANGED <<status, body>>
      BY <1>3 DEF Call
    <2>3. CASE Refusal(in) # 0
      <3>1. PICK code \in {400, 404} : code = Refusal(in)
        BY <2>3, RefusalValues
      <3>2. pc' = [pc EXCEPT ![r] = "done"] /\ status' = [status EXCEPT ![r] = code]
        BY <2>2, <2>3, <3>1, Zenon DEF Answer
      <3>3. QED
        BY <1>1, <1>2, <2>1, <3>1, <3>2
    <2>4. CASE Refusal(in) = 0
      <3>1. pc' = [pc EXCEPT ![r] = "execute"] /\ status' = status
        BY <2>2, <2>4, Zenon
      <3>2. QED
        BY <1>1, <2>1, <3>1
    <2>5. QED
      BY <2>3, <2>4
  <1>4. CASE Update(r)
    <2>1. pc[r] = "execute" /\ log' = Append(log, r)
      BY <1>4, Zenon DEF Update, Updating
    <2>2. r \in ToSet(log')
      BY <2>1, ToSetOfAppend DEF StoreInv, HandlerTypes
    <2>3. \/ pc' = [pc EXCEPT ![r] = "save"] /\ status' = status /\ storage = "file"
          \/ pc' = [pc EXCEPT ![r] = "read"] /\ status' = status
          \/ pc' = [pc EXCEPT ![r] = "publish"] /\ status' = [status EXCEPT ![r] = 200]
      BY <1>4, Zenon DEF Update, AfterUpdate, Answer
    <2>4. QED
      BY <1>1, <2>1, <2>2, <2>3
  <1>5. CASE UpdateFails(r)
    <2>1. /\ storage = "postgres" /\ pc' = [pc EXCEPT ![r] = "done"]
          /\ status' = [status EXCEPT ![r] = 500]
      BY <1>5, Zenon DEF UpdateFails, Answer
    <2>2. QED
      BY <1>1, <2>1
  <1>6. CASE Save(r)
    <2>1. /\ pc[r] = "save" /\ log' = log
          /\ \/ pc' = [pc EXCEPT ![r] = "read"] /\ status' = status
             \/ pc' = [pc EXCEPT ![r] = "publish"] /\ status' = [status EXCEPT ![r] = 200]
             \/ pc' = [pc EXCEPT ![r] = "done"] /\ status' = [status EXCEPT ![r] = 500]
      BY <1>6 DEF Save, AfterUpdate, Answer, history
    <2>2. storage = "file"
      BY <2>1 DEF EffectInv
    <2>3. QED
      BY <1>1, <1>2, <2>1, <2>2
  <1>7. CASE ReadBack(r)
    <2>1. /\ pc[r] = "read" /\ log' = log
          /\ pc' = [pc EXCEPT ![r] = "publish"] /\ status' = [status EXCEPT ![r] = 200]
      BY <1>7, Zenon DEF ReadBack, Answer, history
    <2>2. QED
      BY <1>1, <1>2, <2>1
  <1>8. CASE GetValue(r)
    <2>1. /\ pc[r] = "execute" /\ log' = log /\ input' = input
          /\ input[r].route \in {"value", "query"}
          /\ pc' = [pc EXCEPT ![r] = "done"]
          /\ \/ status' = [status EXCEPT ![r] = 200]
             \/ status' = [status EXCEPT ![r] = 404]
      BY <1>8 DEF GetValue, Answer, history
    <2>2. QED
      BY <1>1, <1>2, <2>1 DEF UpdateRoutes
  <1>9. CASE ListMetrics(r)
    <2>1. /\ input' = input /\ input[r].route = "list"
          /\ pc' = [pc EXCEPT ![r] = "done"] /\ status' = [status EXCEPT ![r] = 200]
      BY <1>9 DEF ListMetrics, Answer
    <2>2. QED
      BY <1>1, <2>1 DEF UpdateRoutes
  <1>10. CASE ReadFails(r)
    <2>1. /\ log' = log /\ input' = input
          /\ \/ /\ pc[r] = "read" /\ pc' = [pc EXCEPT ![r] = "publish"]
                /\ status' = [status EXCEPT ![r] = 200]
             \/ /\ pc[r] = "execute" /\ pc' = [pc EXCEPT ![r] = "done"]
                /\ status' = [status EXCEPT ![r] = 404]
             \/ /\ input[r].route = "list" /\ pc' = [pc EXCEPT ![r] = "done"]
                /\ status' = [status EXCEPT ![r] = 200]
      BY <1>10, Zenon DEF ReadFails, Answer
    <2>2. QED
      BY <1>1, <1>2, <2>1 DEF UpdateRoutes
  <1>11. CASE Publish(r)
    <2>1. /\ pc[r] = "publish" /\ log' = log /\ status' = status
          /\ pc' = [pc EXCEPT ![r] = "done"]
      BY <1>11 DEF Publish, history
    <2>2. status[r] = 200
      BY <2>1 DEF StoreInv, AcceptedInv
    <2>3. QED
      BY <1>1, <1>2, <2>1, <2>2
  <1>12. QED
    BY <1>3, <1>4, <1>5, <1>6, <1>7, <1>8, <1>9, <1>10, <1>11 DEF Steps

LEMMA EffectStep ==
    ASSUME StoreInv, EffectInv, NEW r \in Requests, Steps(r)
    PROVE  EffectInv'
  <1>1. /\ \A x \in Requests \ {r} : Same(x)
        /\ storage' = storage
        /\ log' = log \/ (log' = Append(log, r) /\ Updating(r))
    BY StepFrame DEF StoreInv
  <1>2. log \in Seq(Requests)
    BY DEF StoreInv, HandlerTypes
  <1>3. \A x \in Requests \ {r} : x \in ToSet(log') <=> x \in ToSet(log)
    <2>1. ToSet(Append(log, r)) = ToSet(log) \cup {r}
      BY <1>2, ToSetOfAppend
    <2>2. ToSet(log') = ToSet(log) \/ ToSet(log') = ToSet(log) \cup {r}
      BY <1>1, <2>1, Zenon
    <2>3. QED
      BY <2>2
  <1>4. ASSUME NEW i \in DOMAIN log', NEW j \in DOMAIN log', log'[i] = log'[j]
        PROVE  i = j
    <2>1. CASE log' = log
      BY <1>4, <2>1 DEF EffectInv
    <2>2. CASE log' = Append(log, r) /\ Updating(r)
      <3>1. r \notin ToSet(log)
        BY <2>2 DEF Updating, StoreInv, AcceptedInv
      <3>2. \A k \in DOMAIN log : log[k] # r
        BY <3>1 DEF ToSet
      <3>3. /\ DOMAIN log' = DOMAIN log \cup {Len(log) + 1}
            /\ \A k \in DOMAIN log : log'[k] = log[k]
            /\ log'[Len(log) + 1] = r
        BY <1>2, <2>2
      <3>4. CASE i \in DOMAIN log /\ j \in DOMAIN log
        <4>1. log[i] = log[j]
          BY <1>4, <3>3, <3>4, Zenon
        <4>2. QED
          BY <3>4, <4>1 DEF EffectInv
      <3>5. CASE i = Len(log) + 1 /\ j = Len(log) + 1
        BY <3>5, Zenon
      <3>6. CASE i \in DOMAIN log /\ j = Len(log) + 1
        BY <1>4, <3>2, <3>3, <3>6, Zenon
      <3>7. CASE i = Len(log) + 1 /\ j \in DOMAIN log
        BY <1>4, <3>2, <3>3, <3>7, Zenon
      <3>8. i \in DOMAIN log \cup {Len(log) + 1} /\ j \in DOMAIN log \cup {Len(log) + 1}
        BY <1>4, <3>3, Zenon
      <3>9. QED
        BY <3>4, <3>5, <3>6, <3>7, <3>8, Zenon
    <2>3. QED
      BY <1>1, <2>1, <2>2
  <1>5. ASSUME NEW x \in Requests
        PROVE  /\ pc'[x] = "save" => storage' = "file"
               /\ status'[x] = 200 /\ input'[x].route \in UpdateRoutes => x \in ToSet(log')
               /\ status'[x] \in {400, 404} => x \notin ToSet(log')
               /\ status'[x] = 500 => /\ storage' # "memory"
                                      /\ storage' = "file" => x \in ToSet(log')
    <2>1. CASE x = r
      BY <1>1, <2>1, EffectGiven
    <2>2. CASE x # r
      BY <1>1, <1>3, <2>2 DEF EffectInv, Same
    <2>3. QED
      BY <2>1, <2>2
  <1>6. QED
    BY <1>4, <1>5, Zenon DEF EffectInv

LEMMA EffectInvariant == Spec => []EffectInv
  <1>1. Init => EffectInv
    BY DEF Init, EffectInv
  <1>2. StoreInv /\ EffectInv /\ [Next]_vars => EffectInv'
    <2> SUFFICES ASSUME StoreInv, EffectInv, [Next]_vars PROVE EffectInv'
      OBVIOUS
    <2>1. CASE UNCHANGED vars
      BY <2>1 DEF vars, history, EffectInv
    <2>2. ASSUME NEW r \in Requests, Steps(r) PROVE EffectInv'
      BY <2>2, EffectStep
    <2>3. QED
      BY <2>1, <2>2 DEF Next, Steps, Served
  <1>3. QED
    BY <1>1, <1>2, StoreInvariant, PTL DEF Spec

\* What a client can conclude from the status of an update, for any number of
\* requests, each storage and each of its errors (AnswerTellsEffect).
THEOREM AnswerTellsEffectHolds == Spec => []AnswerTellsEffect
  <1>1. StoreInv /\ EffectInv => AnswerTellsEffect
    <2> SUFFICES ASSUME StoreInv, EffectInv, NEW r \in Requests
                 PROVE  /\ Cardinality(Taken(r)) <= 1
                        /\ Taken(r) # {} <=> r \in ToSet(log)
      BY DEF AnswerTellsEffect, EffectInv, UpdateRoutes
    <2>1. Taken(r) # {} <=> r \in ToSet(log)
      BY DEF Taken, ToSet
    <2>2. Cardinality(Taken(r)) <= 1
      <3>1. CASE Taken(r) = {}
        BY <3>1, FS_EmptySet
      <3>2. CASE Taken(r) # {}
        <4>1. PICK i : i \in Taken(r)
          BY <3>2
        <4>2. Taken(r) = {i}
          BY <4>1 DEF Taken, EffectInv
        <4>3. Cardinality({i}) = 1
          BY FS_Singleton
        <4>4. QED
          BY <4>2, <4>3
      <3>3. QED
        BY <3>1, <3>2
    <2>3. QED
      BY <2>1, <2>2
  <1>2. QED
    BY <1>1, StoreInvariant, EffectInvariant, PTL

\* The types of the handlers' state: the maps have only known names, counters
\* keep their width, and a request has a status once it is answered (TypeOK).
THEOREM HandlerTypeInvariant == Spec => []TypeOK
  <1>1. StoreInv => TypeOK
    <2> SUFFICES ASSUME StoreInv PROVE TypeOK
      OBVIOUS
    <2>1. DOMAIN gauges \subseteq Names /\ DOMAIN counters \subseteq Names
      BY MapsAreReference DEF StoreInv
    <2>2. \A n \in DOMAIN counters : counters[n] \in (-(MaxCounter + 1))..MaxCounter
      <3>1. PICK s \in Seq(Accepted) : counters = CountersAfter(s)
        BY MapsAreReference, Zenon DEF StoreInv
      <3>2. counters = [n \in Ids(s, "counter") |-> Wrap(Total(s, n))]
        BY <3>1, Zenon DEF CountersAfter, Total
      <3>3. \A n : Total(s, n) \in Int
        BY DeltasType, Zenon
      <3>4. \A n \in DOMAIN counters : counters[n] = Wrap(Total(s, n))
        BY <3>2, Zenon
      <3>5. \A a \in Int : Wrap(a) \in (-(MaxCounter + 1))..MaxCounter
        <4>1. 0 \in Int
          OBVIOUS
        <4>2. QED
          BY <4>1, WrapFacts, Zenon
      <3>6. QED
        BY <3>3, <3>4, <3>5, Zenon
    <2>3. QED
      BY <2>1, <2>2 DEF TypeOK, StoreInv, HandlerTypes, ServerInv, Places
  <1>2. QED
    BY <1>1, StoreInvariant, PTL

\* Whatever requests run at the same time and whichever of them fail, the maps
\* are what the updates the storage took add up to, one whole request after the
\* other (StoreIsSumOfUpdates).
THEOREM StoreIsSumOfUpdatesHolds == Spec => []StoreIsSumOfUpdates
  <1>1. StoreInv => StoreIsSumOfUpdates
    BY DEF StoreInv
  <1>2. QED
    BY <1>1, StoreInvariant, PTL

\* An update answers with the values its own metrics had, a query with a value
\* of a moment between its request and its answer (AnswersAreStates).
THEOREM AnswersAreStatesHolds == Spec => []AnswersAreStates
  <1>1. StoreInv /\ AnswerInv => AnswersAreStates
    <2> SUFFICES ASSUME StoreInv, AnswerInv PROVE AnswersAreStates
      OBVIOUS
    <2>1. ASSUME NEW i \in DOMAIN log PROVE UpdateAnswered(i)
      <3>1. i \in 1..Len(log) /\ log[i] \in Requests
        BY DEF StoreInv, HandlerTypes
      <3>2. Answers(log[i], i)
        BY <3>1, Zenon DEF AnswerInv, UpdatesInv
      <3>3. QED
        BY <3>2, Zenon DEF Answers, UpdateAnswered, BatchAfter
    <2>2. QueryInv
      BY DEF AnswerInv
    <2>3. QED
      BY <2>1, <2>2, Zenon DEF AnswersAreStates, QueryInv
  <1>2. QED
    BY <1>1, StoreInvariant, AnswerInvariant, PTL

\* A list shows the storage after some number of whole requests, no fewer than
\* when it began (ListIsSnapshot).
THEOREM ListIsSnapshotHolds == Spec => []ListIsSnapshot
  <1>1. AnswerInv => ListIsSnapshot
    BY Zenon DEF AnswerInv, ListInv, ListIsSnapshot, Shown, ShownOf
  <1>2. QED
    BY <1>1, AnswerInvariant, PTL

=============================================================================
