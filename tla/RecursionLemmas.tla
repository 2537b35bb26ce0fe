-------------------------- MODULE RecursionLemmas --------------------------
(***************************************************************************)
(* Facts about recursive functions on 0..n that the proofs about the       *)
(* components need: there is one, what a sum of the first n values does    *)
(* when one value changes or is added, and what FlattenSeq puts together.  *)
(* Recursion is followed by an induction over a set of numbers             *)
(* (StepwiseCover), and a step of it is a function, not an operator.       *)
(***************************************************************************)
EXTENDS PrefixSums, SequencesExt, WellFoundedInduction, TLAPS

----------------------------------------------------------------------------
(* Induction.                                                              *)

LEMMA LeastElement ==
    ASSUME NEW T, T \subseteq Nat, T # {}
    PROVE  \E m \in T : \A n \in T : m <= n
  <1> DEFINE R == {ss \in Nat \X Nat : ss[1] < ss[2]}
  <1>1. IsWellFoundedOn(R, Nat)
    BY NatLessThanWellFounded, Zenon DEF OpToRel
  <1> HIDE DEF R
  <1>2. PICK m \in T : \A n \in T : ~(<<n, m>> \in R)
    BY <1>1, WFMin, Zenon
  <1>3. \A n \in T : ~(n < m)
    <2>1. ASSUME NEW n \in T, n < m PROVE FALSE
      <3>1. <<n, m>> \in R BY <2>1 DEF R
      <3>2. QED BY <3>1, <1>2
    <2>2. QED BY <2>1
  <1>4. QED
    BY <1>3

\* Induction up to n, over the members of a set.
LEMMA StepwiseCover ==
    ASSUME NEW n \in Nat, NEW T, 0 \in T,
           \A k \in 0..n : k \in T /\ k < n => k + 1 \in T
    PROVE  \A k \in 0..n : k \in T
  <1> DEFINE Gap == {k \in 0..n : k \notin T}
  <1>1. SUFFICES ASSUME Gap # {} PROVE FALSE
    OBVIOUS
  <1>2. PICK m \in Gap : \A k \in Gap : m <= k
    <2>1. Gap \subseteq Nat
      OBVIOUS
    <2>2. QED
      BY <1>1, <2>1, LeastElement, Zenon
  <1>3. m # 0 /\ m \in 1..n
    BY <1>2
  <1>4. m - 1 \in 0..n /\ m - 1 < n /\ m - 1 \notin Gap
    BY <1>2, <1>3
  <1>5. QED
    BY <1>2, <1>3, <1>4

\* One function per step of a recursion on 1..n.
StepsIn(n, S) == [1..n -> [S -> S]]

Solves(f, n, base, step) == f[0] = base /\ \A i \in 1..n : f[i] = step[i][f[i - 1]]

\* A recursion whose steps stay in a set has a solution.
LEMMA RecursionExists ==
    ASSUME NEW n \in Nat, NEW S, NEW base \in S, NEW step \in StepsIn(n, S)
    PROVE  \E f \in [0..n -> S] : Solves(f, n, base, step)
  <1> DEFINE T == {k \in 0..n : \E f \in [0..k -> S] : Solves(f, k, base, step)}
  <1>1. 0 \in T
    <2> DEFINE f == [i \in 0..0 |-> base]
    <2>1. f \in [0..0 -> S] /\ Solves(f, 0, base, step) /\ 0 \in 0..n
      BY DEF Solves
    <2> HIDE DEF f
    <2>2. QED
      BY <2>1, Zenon
  <1>2. ASSUME NEW k \in 0..n, k \in T, k < n PROVE k + 1 \in T
    <2>1. PICK f \in [0..k -> S] : Solves(f, k, base, step)
      BY <1>2
    <2>2. k \in Nat /\ k + 1 \in 1..n /\ f[k] \in S /\ step[k + 1] \in [S -> S]
      BY <1>2, <2>1 DEF StepsIn
    <2>3. PICK next \in S : next = step[k + 1][f[k]]
      BY <2>2
    <2> DEFINE g == [i \in 0..(k + 1) |-> IF i <= k THEN f[i] ELSE next]
    <2>4. g \in [0..(k + 1) -> S]
      BY <2>1, <2>2
    <2>5. (\A i \in 0..k : g[i] = f[i]) /\ g[k + 1] = next
      BY <2>2
    <2> HIDE DEF g
    <2>6. g[0] = base
      BY <2>1, <2>2, <2>5 DEF Solves
    <2>7. ASSUME NEW i \in 1..(k + 1) PROVE g[i] = step[i][g[i - 1]]
      <3>1. CASE i <= k
        <4>1. i \in 1..k /\ i \in 0..k /\ i - 1 \in 0..k
          BY <3>1, <2>2
        <4>2. g[i] = f[i] /\ g[i - 1] = f[i - 1] /\ f[i] = step[i][f[i - 1]]
          BY <4>1, <2>1, <2>5 DEF Solves
        <4>3. QED
          BY <4>2
      <3>2. CASE i = k + 1
        <4>1. i - 1 = k /\ k \in 0..k
          BY <3>2, <2>2
        <4>2. g[i - 1] = f[k] /\ g[i] = next
          BY <4>1, <3>2, <2>5
        <4>3. QED
          BY <2>3, <3>2, <4>2
      <3>3. QED
        BY <3>1, <3>2, <2>2
    <2>8. Solves(g, k + 1, base, step) /\ k + 1 \in 0..n
      BY <2>2, <2>6, <2>7 DEF Solves
    <2>9. QED
      BY <2>4, <2>8
  <1> HIDE DEF T
  <1>3. n \in T
    <2>1. n \in 0..n
      OBVIOUS
    <2>2. QED
      BY <2>1, <1>1, <1>2, StepwiseCover, Zenon
  <1>4. QED
    BY <1>3, Zenon DEF T

----------------------------------------------------------------------------
(* Sums.                                                                   *)

\* What the recursive function of SumUpTo is.
LEMMA SumUnfolds ==
    ASSUME NEW n \in Nat, NEW f \in [1..n -> Int]
    PROVE  \E sum \in [0..n -> Int] :
              /\ sum[0] = 0
              /\ \A i \in 1..n : sum[i] = sum[i - 1] + f[i]
              /\ sum[n] = SumUpTo(f, n)
  <1> DEFINE step == [i \in 1..n |-> [x \in Int |-> x + f[i]]]
  <1>1. step \in StepsIn(n, Int)
    BY DEF StepsIn
  <1>2. \A i \in 1..n : \A x \in Int : step[i][x] = x + f[i]
    OBVIOUS
  <1> HIDE DEF step
  <1>3. PICK g \in [0..n -> Int] : Solves(g, n, 0, step)
    <2>1. 0 \in Int
      OBVIOUS
    <2>2. QED
      BY <1>1, <2>1, RecursionExists, Zenon
  <1>4. ASSUME NEW i \in 1..n PROVE g[i] = g[i - 1] + f[i]
    <2>1. g[i - 1] \in Int
      BY <1>3
    <2>2. g[i] = step[i][g[i - 1]]
      BY <1>3, Zenon DEF Solves
    <2>3. QED
      BY <1>2, <2>1, <2>2, Zenon
  <1> DEFINE Sums(h) == h = [i \in 0..n |-> IF i = 0 THEN 0 ELSE h[i - 1] + f[i]]
             h == CHOOSE h : Sums(h)
  <1>5. SumUpTo(f, n) = h[n]
    BY Zenon DEF SumUpTo
  <1>6. Sums(g)
    <2>1. ASSUME NEW i \in 0..n PROVE g[i] = IF i = 0 THEN 0 ELSE g[i - 1] + f[i]
      <3>1. CASE i = 0
        BY <1>3, <3>1 DEF Solves
      <3>2. CASE i # 0
        <4>1. i \in 1..n
          BY <3>2
        <4>2. QED
          BY <1>4, <3>2, <4>1
      <3>3. QED
        BY <3>1, <3>2
    <2>2. QED
      BY <2>1, Zenon
  <1>7. Sums(h)
    BY <1>6, Zenon
  <1> HIDE DEF h
  <1>8. \A i \in 0..n : h[i] = IF i = 0 THEN 0 ELSE h[i - 1] + f[i]
    BY <1>7, Zenon
  <1> DEFINE A == {k \in 0..n : h[k] = g[k]}
  <1>9. 0 \in A
    <2>1. 0 \in 0..n
      OBVIOUS
    <2>2. h[0] = 0
      BY <1>8, <2>1, Zenon
    <2>3. QED
      BY <1>3, <2>1, <2>2 DEF Solves
  <1>10. ASSUME NEW k \in 0..n, k \in A, k < n PROVE k + 1 \in A
    <2>1. PICK i \in 1..n : i = k + 1 /\ i - 1 = k /\ i # 0 /\ i \in 0..n
      BY <1>10
    <2>2. h[i] = h[i - 1] + f[i]
      BY <1>8, <2>1, Zenon
    <2>3. g[i] = g[i - 1] + f[i]
      BY <1>4, <2>1, Zenon
    <2>4. h[i - 1] = g[i - 1]
      BY <1>10, <2>1
    <2>5. QED
      BY <2>1, <2>2, <2>3, <2>4, Zenon
  <1> HIDE DEF A
  <1>11. n \in A
    <2>1. n \in 0..n
      OBVIOUS
    <2>2. QED
      BY <2>1, <1>9, <1>10, StepwiseCover, Zenon
  <1>12. QED
    BY <1>3, <1>4, <1>5, <1>11 DEF A, Solves

LEMMA SumType ==
    ASSUME NEW n \in Nat, NEW f \in [1..n -> Int]
    PROVE  SumUpTo(f, n) \in Int
  <1>1. PICK sum \in [0..n -> Int] : sum[n] = SumUpTo(f, n)
    BY SumUnfolds, Zenon
  <1>2. QED
    BY <1>1

LEMMA SumOfNaturals ==
    ASSUME NEW n \in Nat, NEW f \in [1..n -> Nat]
    PROVE  SumUpTo(f, n) \in Nat
  <1>1. PICK sum \in [0..n -> Int] : /\ sum[0] = 0
                                     /\ \A i \in 1..n : sum[i] = sum[i - 1] + f[i]
                                     /\ sum[n] = SumUpTo(f, n)
    <2>1. f \in [1..n -> Int]
      OBVIOUS
    <2>2. QED
      BY <2>1, SumUnfolds, Zenon
  <1> DEFINE T == {k \in 0..n : sum[k] \in Nat}
  <1>2. 0 \in T
    BY <1>1
  <1>3. ASSUME NEW k \in 0..n, k \in T, k < n PROVE k + 1 \in T
    <2>1. PICK i \in 1..n : i = k + 1 /\ i - 1 = k
      BY <1>3
    <2>2. sum[i] = sum[k] + f[i]
      BY <1>1, <2>1
    <2>3. sum[k] \in Nat /\ f[i] \in Nat
      BY <1>3
    <2>4. QED
      BY <2>1, <2>2, <2>3
  <1> HIDE DEF T
  <1>4. n \in T
    <2>1. n \in 0..n
      OBVIOUS
    <2>2. QED
      BY <2>1, <1>2, <1>3, StepwiseCover, Zenon
  <1>5. QED
    BY <1>1, <1>4 DEF T

LEMMA SumOfZeros ==
    ASSUME NEW n \in Nat, NEW f \in [1..n -> Int], \A i \in 1..n : f[i] = 0
    PROVE  SumUpTo(f, n) = 0
  <1>1. PICK sum \in [0..n -> Int] : /\ sum[0] = 0
                                     /\ \A i \in 1..n : sum[i] = sum[i - 1] + f[i]
                                     /\ sum[n] = SumUpTo(f, n)
    BY SumUnfolds, Zenon
  <1> DEFINE T == {k \in 0..n : sum[k] = 0}
  <1>2. 0 \in T
    BY <1>1
  <1>3. ASSUME NEW k \in 0..n, k \in T, k < n PROVE k + 1 \in T
    <2>1. PICK i \in 1..n : i = k + 1 /\ i - 1 = k
      BY <1>3
    <2>2. sum[i] = sum[k] + f[i] /\ sum[k] = 0 /\ f[i] = 0
      BY <1>1, <1>3, <2>1
    <2>3. QED
      BY <2>1, <2>2
  <1> HIDE DEF T
  <1>4. n \in T
    <2>1. n \in 0..n
      OBVIOUS
    <2>2. QED
      BY <2>1, <1>2, <1>3, StepwiseCover, Zenon
  <1>5. QED
    BY <1>1, <1>4 DEF T

\* Two functions that agree everywhere but at k: so do their sums, but for the
\* difference at k.
LEMMA SumShift ==
    ASSUME NEW n \in Nat, NEW f \in [1..n -> Int], NEW g \in [1..n -> Int],
           NEW k \in 1..n, \A i \in 1..n : i # k => f[i] = g[i]
    PROVE  SumUpTo(g, n) + f[k] = SumUpTo(f, n) + g[k]
  <1>1. PICK F \in [0..n -> Int] : /\ F[0] = 0
                                   /\ \A i \in 1..n : F[i] = F[i - 1] + f[i]
                                   /\ F[n] = SumUpTo(f, n)
    BY SumUnfolds, Zenon
  <1>2. PICK G \in [0..n -> Int] : /\ G[0] = 0
                                   /\ \A i \in 1..n : G[i] = G[i - 1] + g[i]
                                   /\ G[n] = SumUpTo(g, n)
    BY SumUnfolds, Zenon
  <1> DEFINE Good(i) == /\ i < k => F[i] = G[i]
                        /\ i >= k => G[i] + f[k] = F[i] + g[k]
             T == {i \in 0..n : Good(i)}
  <1>3. 0 \in T
    BY <1>1, <1>2
  <1>4. ASSUME NEW j \in 0..n, j \in T, j < n PROVE j + 1 \in T
    <2>1. PICK i \in 1..n : i = j + 1 /\ i - 1 = j
      BY <1>4
    <2>2. F[i] = F[j] + f[i] /\ G[i] = G[j] + g[i]
      BY <1>1, <1>2, <2>1
    <2>3. /\ F[i] \in Int /\ F[j] \in Int /\ G[i] \in Int /\ G[j] \in Int
          /\ f[i] \in Int /\ g[i] \in Int /\ f[k] \in Int /\ g[k] \in Int
      BY <2>1
    <2>4. CASE i < k
      <3>1. F[j] = G[j] /\ f[i] = g[i]
        BY <1>4, <2>1, <2>4
      <3>2. F[i] = G[i]
        BY <2>2, <3>1
      <3>3. QED
        BY <2>1, <2>4, <3>2
    <2>5. CASE i = k
      <3>1. F[j] = G[j]
        BY <1>4, <2>1, <2>5
      <3>2. f[i] = f[k] /\ g[i] = g[k]
        BY <2>5
      <3>3. G[i] + f[k] = F[i] + g[k]
        BY <2>2, <2>3, <3>1, <3>2
      <3>4. QED
        BY <2>1, <2>5, <3>3
    <2>6. CASE i > k
      <3>1. G[j] + f[k] = F[j] + g[k] /\ f[i] = g[i]
        BY <1>4, <2>1, <2>6
      <3>2. PICK x \in Int, y \in Int, u \in Int, v \in Int, d \in Int :
                x = F[j] /\ y = G[j] /\ u = f[k] /\ v = g[k] /\ d = f[i]
        BY <2>3, Zenon
      <3>3. F[i] = x + d /\ G[i] = y + d /\ y + u = x + v
        BY <2>2, <3>1, <3>2, Zenon
      <3>4. (y + d) + u = (x + d) + v
        BY <3>3
      <3>5. G[i] + f[k] = F[i] + g[k]
        BY <3>2, <3>3, <3>4, Zenon
      <3>6. QED
        BY <2>1, <2>6, <3>5
    <2>7. QED
      BY <2>4, <2>5, <2>6
  <1> HIDE DEF T
  <1>5. n \in T
    <2>1. n \in 0..n
      OBVIOUS
    <2>2. QED
      BY <2>1, <1>3, <1>4, StepwiseCover, Zenon
  <1>6. QED
    BY <1>1, <1>2, <1>5 DEF T

\* One more value, whatever function carries the others.
LEMMA SumExtends ==
    ASSUME NEW n \in Nat, NEW f \in [1..n -> Int], NEW g \in [1..(n + 1) -> Int],
           \A i \in 1..n : f[i] = g[i]
    PROVE  SumUpTo(g, n + 1) = SumUpTo(f, n) + g[n + 1]
  <1>0. n + 1 \in Nat
    OBVIOUS
  <1>1. PICK F \in [0..n -> Int] : /\ F[0] = 0
                                   /\ \A i \in 1..n : F[i] = F[i - 1] + f[i]
                                   /\ F[n] = SumUpTo(f, n)
    BY SumUnfolds, Zenon
  <1>2. PICK G \in [0..(n + 1) -> Int] : /\ G[0] = 0
                                         /\ \A i \in 1..(n + 1) : G[i] = G[i - 1] + g[i]
                                         /\ G[n + 1] = SumUpTo(g, n + 1)
    BY <1>0, SumUnfolds, Zenon
  <1> DEFINE T == {i \in 0..n : F[i] = G[i]}
  <1>3. 0 \in T
    BY <1>1, <1>2
  <1>4. ASSUME NEW j \in 0..n, j \in T, j < n PROVE j + 1 \in T
    <2>1. PICK i \in 1..n : i = j + 1 /\ i - 1 = j /\ i \in 1..(n + 1)
      BY <1>4
    <2>2. F[i] = F[j] + f[i] /\ G[i] = G[j] + g[i]
      BY <1>1, <1>2, <2>1
    <2>3. F[j] = G[j] /\ f[i] = g[i]
      BY <1>4, <2>1
    <2>4. QED
      BY <2>1, <2>2, <2>3
  <1> HIDE DEF T
  <1>5. n \in T
    <2>1. n \in 0..n
      OBVIOUS
    <2>2. QED
      BY <2>1, <1>3, <1>4, StepwiseCover, Zenon
  <1>6. F[n] = G[n]
    BY <1>5 DEF T
  <1>7. PICK i \in 1..(n + 1) : i = n + 1 /\ i - 1 = n
    OBVIOUS
  <1>8. G[i] = G[i - 1] + g[i]
    BY <1>2, Zenon
  <1>9. G[n + 1] = G[n] + g[n + 1]
    BY <1>7, <1>8
  <1>10. SumUpTo(f, n) = G[n] /\ SumUpTo(g, n + 1) = G[n + 1]
    BY <1>1, <1>2, <1>6
  <1>11. QED
    BY <1>9, <1>10, Zenon

----------------------------------------------------------------------------
(* Sequences of sequences.                                                 *)

\* f[i] is what the first i sequences make when they are put together.
Builds(f, seqs) ==
    /\ f[0] = <<>>
    /\ \A i \in 1..Len(seqs) : f[i] = f[i - 1] \o seqs[i]

LEMMA FlattenByPrefixes ==
    ASSUME NEW S, NEW seqs \in Seq(Seq(S))
    PROVE  \E f \in [0..Len(seqs) -> Seq(S)] :
              Builds(f, seqs) /\ f[Len(seqs)] = FlattenSeq(seqs)
  <1> DEFINE n == Len(seqs)
             step == [i \in 1..n |-> [x \in Seq(S) |-> x \o seqs[i]]]
  <1>1. n \in Nat /\ \A i \in 1..n : seqs[i] \in Seq(S)
    OBVIOUS
  <1>2. step \in StepsIn(n, Seq(S)) /\ <<>> \in Seq(S)
    BY DEF StepsIn
  <1>3. \A i \in 1..n : \A x \in Seq(S) : step[i][x] = x \o seqs[i]
    OBVIOUS
  <1> HIDE DEF step
  <1>4. PICK f \in [0..n -> Seq(S)] : Solves(f, n, <<>>, step)
    BY <1>1, <1>2, RecursionExists, Zenon
  <1>5. ASSUME NEW i \in 1..n PROVE f[i] = f[i - 1] \o seqs[i]
    <2>1. f[i - 1] \in Seq(S)
      <3>1. i - 1 \in 0..n
        BY <1>1
      <3>2. QED
        BY <3>1
    <2>2. f[i] = step[i][f[i - 1]]
      BY <1>4, Zenon DEF Solves
    <2>3. QED
      BY <1>3, <2>1, <2>2, Zenon
  <1>6. /\ f[0] = <<>>
        /\ \A i \in 1..n : f[i] = f[i - 1] \o seqs[i]
    BY <1>4, <1>5 DEF Solves
  <1>7. CASE n = 0
    <2>1. FlattenSeq(seqs) = <<>>
      BY <1>7 DEF FlattenSeq
    <2>2. QED
      BY <1>4, <1>6, <1>7, <2>1 DEF Builds
  <1>8. CASE n # 0
    <2> DEFINE Flattens(h) ==
                 h = [i \in 1..n |-> IF i = 1 THEN seqs[i] ELSE h[i - 1] \o seqs[i]]
               h == CHOOSE h : Flattens(h)
               g == [i \in 1..n |-> f[i]]
    <2>1. FlattenSeq(seqs) = h[n]
      BY <1>8, Zenon DEF FlattenSeq
    <2>2. Flattens(g)
      <3>1. ASSUME NEW i \in 1..n
            PROVE  f[i] = IF i = 1 THEN seqs[i] ELSE g[i - 1] \o seqs[i]
        <4>1. f[i] = f[i - 1] \o seqs[i] /\ seqs[i] \in Seq(S)
          BY <1>6, <1>1
        <4>2. CASE i = 1
          <5>1. f[0] \o seqs[i] = seqs[i]
            BY <1>6, <4>1
          <5>2. i - 1 = 0
            BY <4>2
          <5>3. QED
            BY <4>1, <4>2, <5>1, <5>2, Zenon
        <4>3. CASE i # 1
          <5>1. i - 1 \in 1..n
            BY <4>3
          <5>2. g[i - 1] = f[i - 1]
            BY <5>1
          <5>3. QED
            BY <4>1, <4>3, <5>2, Zenon
        <4>4. QED
          BY <4>2, <4>3, Zenon
      <3>2. QED
        BY <3>1, Zenon
    <2>3. Flattens(h)
      BY <2>2, Zenon
    <2> HIDE DEF h
    <2> DEFINE A == {k \in 0..n : k = 0 \/ h[k] = f[k]}
    <2>4. 0 \in A
      BY <1>1
    <2>5. ASSUME NEW k \in 0..n, k \in A, k < n PROVE k + 1 \in A
      <3>1. PICK i \in 1..n : i = k + 1
        BY <1>1, <2>5
      <3>2. h[i] = IF i = 1 THEN seqs[i] ELSE h[i - 1] \o seqs[i]
        <4>1. \A x \in 1..n : h[x] = IF x = 1 THEN seqs[x] ELSE h[x - 1] \o seqs[x]
          BY <2>3, Zenon
        <4>2. QED
          BY <4>1, Zenon
      <3>3. f[i] = f[i - 1] \o seqs[i]
        BY <1>6, Zenon
      <3>4. i - 1 = k /\ (i = 1 <=> k = 0) /\ i \in 0..n /\ seqs[i] \in Seq(S)
        BY <3>1, <1>1
      <3>5. CASE k = 0
        <4>1. f[0] \o seqs[i] = seqs[i]
          BY <1>6, <3>4
        <4>2. QED
          BY <3>1, <3>2, <3>3, <3>4, <3>5, <4>1, Zenon
      <3>6. CASE k # 0
        <4>1. h[k] = f[k]
          BY <2>5, <3>6
        <4>2. QED
          BY <3>1, <3>2, <3>3, <3>4, <3>6, <4>1, Zenon
      <3>7. QED
        BY <3>5, <3>6
    <2> HIDE DEF A
    <2>6. n \in A
      <3>1. n \in 0..n
        BY <1>1
      <3>2. QED
        BY <3>1, <1>1, <2>4, <2>5, StepwiseCover, Zenon
    <2>7. h[n] = f[n]
      BY <2>6, <1>8 DEF A
    <2>8. QED
      BY <1>4, <1>6, <2>1, <2>7 DEF Builds
  <1>9. QED
    BY <1>7, <1>8

\* One more sequence comes after all the others.
LEMMA FlattenAppend ==
    ASSUME NEW S, NEW seqs \in Seq(Seq(S)), NEW s \in Seq(S)
    PROVE  /\ FlattenSeq(seqs) \in Seq(S)
           /\ FlattenSeq(Append(seqs, s)) = FlattenSeq(seqs) \o s
  <1> DEFINE n == Len(seqs)
             more == Append(seqs, s)
  <1>1. PICK f \in [0..n -> Seq(S)] : Builds(f, seqs) /\ f[n] = FlattenSeq(seqs)
    BY FlattenByPrefixes, Zenon
  <1>2. /\ more \in Seq(Seq(S)) /\ Len(more) = n + 1 /\ n \in Nat
        /\ \A i \in 1..n : more[i] = seqs[i]
        /\ more[n + 1] = s
    OBVIOUS
  <1> HIDE DEF more
  <1>3. PICK g \in [0..(n + 1) -> Seq(S)] :
            Builds(g, more) /\ g[n + 1] = FlattenSeq(more)
    <2>1. PICK g \in [0..Len(more) -> Seq(S)] :
              Builds(g, more) /\ g[Len(more)] = FlattenSeq(more)
      BY <1>2, FlattenByPrefixes, Zenon
    <2>2. QED
      BY <1>2, <2>1
  <1> DEFINE T == {k \in 0..n : g[k] = f[k]}
  <1>4. 0 \in T
    BY <1>1, <1>2, <1>3 DEF Builds
  <1>5. ASSUME NEW k \in 0..n, k \in T, k < n PROVE k + 1 \in T
    <2>1. PICK i \in 1..n : i = k + 1 /\ i - 1 = k /\ i \in 1..(n + 1) /\ i \in 0..n
      BY <1>2, <1>5
    <2>2. f[i] = f[i - 1] \o seqs[i]
      BY <1>1, <2>1, Zenon DEF Builds
    <2>3. g[i] = g[i - 1] \o more[i]
      BY <1>2, <1>3, <2>1, Zenon DEF Builds
    <2>4. g[i - 1] = f[i - 1] /\ more[i] = seqs[i]
      BY <1>2, <1>5, <2>1
    <2>5. QED
      BY <2>1, <2>2, <2>3, <2>4
  <1> HIDE DEF T
  <1>6. n \in T
    <2>1. n \in 0..n
      BY <1>2
    <2>2. QED
      BY <2>1, <1>2, <1>4, <1>5, StepwiseCover, Zenon
  <1>7. g[n] = f[n]
    BY <1>6 DEF T
  <1>8. PICK i \in 1..(n + 1) : i = n + 1 /\ i - 1 = n
    BY <1>2
  <1>9. g[i] = g[i - 1] \o more[i]
    BY <1>2, <1>3, Zenon DEF Builds
  <1>10. FlattenSeq(more) = f[n] \o s
    BY <1>2, <1>3, <1>7, <1>8, <1>9
  <1>11. f[n] \in Seq(S)
    <2>1. n \in 0..n
      BY <1>2
    <2>2. QED
      BY <2>1
  <1>12. QED
    BY <1>1, <1>10, <1>11, Zenon DEF more

============================================================================
