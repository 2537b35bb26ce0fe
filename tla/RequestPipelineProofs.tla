----------------------- MODULE RequestPipelineProofs -----------------------
(***************************************************************************)
(* Theorems about RequestPipeline, for every size of the RSA keys, every   *)
(* length of the payload, any keys on both sides and a body that breaks    *)
(* off anywhere.                                                           *)
(***************************************************************************)
EXTENDS RequestPipeline, RecursionLemmas

----------------------------------------------------------------------------
(* Blocks and chunks.                                                      *)

LEMMA MinOfTwo ==
    ASSUME NEW a \in Nat, NEW b \in Nat
    PROVE  Min({a, b}) = IF a <= b THEN a ELSE b
  <1> DEFINE c == IF a <= b THEN a ELSE b
  <1>1. c \in {a, b} /\ \A y \in {a, b} : c <= y
    OBVIOUS
  <1>2. \A x \in {a, b} : (\A y \in {a, b} : x <= y) => x = c
    OBVIOUS
  <1> HIDE DEF c
  <1>3. Min({a, b}) = c
    BY <1>1, <1>2, Zenon DEF Min
  <1>4. QED
    BY <1>3 DEF c

LEMMA Products ==
    ASSUME NEW n \in Nat, NEW p \in Nat
    PROVE  n * p \in Nat /\ (n + 1) * p = n * p + p
  OBVIOUS

\* Blocks of one size lie where the arithmetic of Decrypt looks for them.
LEMMA EqualBlocks ==
    ASSUME NEW S, NEW k \in Nat \ {0}, NEW seqs \in Seq(Seq(S)),
           \A b \in 1..Len(seqs) : Len(seqs[b]) = k
    PROVE  /\ FlattenSeq(seqs) \in Seq(S)
           /\ Len(FlattenSeq(seqs)) = Len(seqs) * k
           /\ \A b \in 1..Len(seqs) :
                 SubSeq(FlattenSeq(seqs), (b - 1) * k + 1, b * k) = seqs[b]
  <1> DEFINE n == Len(seqs)
  <1>1. PICK f \in [0..n -> Seq(S)] : Builds(f, seqs) /\ f[n] = FlattenSeq(seqs)
    BY FlattenByPrefixes, Zenon
  <1>2. n \in Nat /\ \A i \in 1..n : seqs[i] \in Seq(S)
    OBVIOUS
  <1> DEFINE Good(i) == /\ Len(f[i]) = i * k
                        /\ \A b \in 1..i : SubSeq(f[i], (b - 1) * k + 1, b * k) = seqs[b]
             T == {i \in 0..n : Good(i)}
  <1>3. 0 \in T
    BY <1>1, <1>2 DEF Builds
  <1>4. ASSUME NEW j \in 0..n, j \in T, j < n PROVE j + 1 \in T
    <2>1. PICK i \in 1..n : i = j + 1 /\ i - 1 = j
      BY <1>2, <1>4
    <2>2. f[i] = f[i - 1] \o seqs[i]
      BY <1>1, Zenon DEF Builds
    <2>3. PICK s \in Seq(S), t \in Seq(S) : s = f[j] /\ t = seqs[i]
      BY <1>1, <1>2, <2>1
    <2>4. f[i] = s \o t
      BY <2>1, <2>2, <2>3, Zenon
    <2>5. Len(s) = j * k /\ Len(t) = k
      BY <1>4, <2>1, <2>3
    <2>6. i * k = j * k + k /\ j * k \in Nat
      BY <2>1, <1>2, Products
    <2>7. Len(f[i]) = i * k
      <3>1. Len(s \o t) = Len(s) + Len(t)
        OBVIOUS
      <3>2. QED
        BY <2>4, <2>5, <2>6, <3>1
    <2>8. ASSUME NEW b \in 1..i PROVE SubSeq(f[i], (b - 1) * k + 1, b * k) = seqs[b]
      <3>1. CASE b = i
        <4>1. SubSeq(s \o t, Len(s) + 1, Len(s) + Len(t)) = t
          OBVIOUS
        <4>2. QED
          BY <2>1, <2>3, <2>4, <2>5, <2>6, <3>1, <4>1
      <3>2. CASE b # i
        <4>1. b \in 1..j
          BY <2>1, <3>2
        <4>2. SubSeq(s, (b - 1) * k + 1, b * k) = seqs[b]
          BY <4>1, <1>4, <2>3
        <4>3. b \in Nat /\ b - 1 \in Nat
          BY <4>1
        <4>4. PICK x \in Nat : x = (b - 1) * k
          BY <4>3, Products
        <4>5. PICK hi \in Nat : hi = b * k
          BY <4>3, Products
        <4>6. b * k <= j * k
          BY <4>1, <1>2, <2>1
        <4>7. hi <= Len(s)
          BY <4>5, <4>6, <2>5
        <4>8. SubSeq(s \o t, x + 1, hi) = SubSeq(s, x + 1, hi)
          BY <4>7
        <4>9. QED
          BY <2>4, <4>2, <4>4, <4>5, <4>8, Zenon
      <3>3. QED
        BY <3>1, <3>2
    <2>9. QED
      BY <2>1, <2>7, <2>8
  <1> HIDE DEF T
  <1>5. n \in T
    <2>1. n \in 0..n
      BY <1>2
    <2>2. QED
      BY <2>1, <1>2, <1>3, <1>4, StepwiseCover, Zenon
  <1>6. Good(n)
    BY <1>5, Zenon DEF T
  <1>7. f[n] \in Seq(S)
    BY <1>1, <1>2
  <1>8. QED
    BY <1>1, <1>6, <1>7, Zenon

\* The chunks of a text, in order, are the text: none is lost and none is cut,
\* whether its length is a multiple of the size of a chunk or not.
LEMMA ChunksAreData ==
    ASSUME NEW S, NEW data \in Seq(S)
    PROVE  /\ BlockCount(data) \in Nat
           /\ [b \in 1..BlockCount(data) |-> Chunk(data, b)] \in Seq(Seq(S))
           /\ FlattenSeq([b \in 1..BlockCount(data) |-> Chunk(data, b)]) = data
  <1> DEFINE p == PlainSize
             n == BlockCount(data)
             seqs == [b \in 1..n |-> Chunk(data, b)]
  <1>1. p \in Nat \ {0} /\ Len(data) \in Nat
    BY PipelineAssumption DEF PlainSize
  <1>2. n \in Nat /\ n * p >= Len(data) /\ n * p < Len(data) + p
    <2>1. PICK m \in Nat : m = Len(data) + p - 1
      BY <1>1
    <2>2. n = m \div p
      BY <2>1 DEF BlockCount
    <2> HIDE DEF p
    <2>3. m \div p \in Nat /\ (m \div p) * p <= m /\ m < (m \div p) * p + p
      BY <1>1
    <2> HIDE DEF n
    <2>4. PICK x \in Nat : x = n * p
      BY <2>2, <2>3, <1>1, Products
    <2>5. x <= m /\ m < x + p
      BY <2>2, <2>3, <2>4
    <2>6. QED
      BY <2>1, <2>2, <2>3, <2>4, <2>5, <1>1
  <1> HIDE DEF n
  <1>3. ASSUME NEW b \in 1..n
        PROVE  /\ (b - 1) * p \in Nat /\ b * p \in Nat /\ b * p = (b - 1) * p + p
               /\ (b - 1) * p < Len(data)
               /\ Chunk(data, b) = SubSeq(data, (b - 1) * p + 1,
                                          IF b * p <= Len(data) THEN b * p ELSE Len(data))
    <2> HIDE DEF p
    <2>1. PICK a \in Nat : a = b - 1 /\ a + 1 = b
      OBVIOUS
    <2>2. a * p \in Nat /\ b * p \in Nat /\ b * p = a * p + p
      BY <2>1, <1>1, Products
    <2>3. b * p <= n * p
      BY <1>1, <1>2
    <2>4. PICK x \in Nat, y \in Nat, z \in Nat : x = a * p /\ y = b * p /\ z = n * p
      BY <2>2, <1>1, <1>2, Products
    <2>5. x < Len(data)
      BY <2>2, <2>3, <2>4, <1>2, <1>1
    <2>6. Min({b * p, Len(data)}) = IF b * p <= Len(data) THEN b * p ELSE Len(data)
      BY <2>2, <1>1, MinOfTwo
    <2>7. Chunk(data, b) = SubSeq(data, (b - 1) * p + 1, Min({b * p, Len(data)}))
      BY Zenon DEF Chunk, p
    <2>8. QED
      BY <2>1, <2>2, <2>4, <2>5, <2>6, <2>7
  <1> HIDE DEF p
  <1>4. \A b \in 1..n : Chunk(data, b) \in Seq(S)
    <2>1. ASSUME NEW b \in 1..n PROVE Chunk(data, b) \in Seq(S)
      <3>1. PICK lo \in Nat, hi \in Nat :
               Chunk(data, b) = SubSeq(data, lo, hi) /\ 1 <= lo /\ hi <= Len(data)
        <4>1. PICK x \in Nat, y \in Nat :
                 /\ x = (b - 1) * p /\ y = b * p
                 /\ Chunk(data, b) = SubSeq(data, x + 1, IF y <= Len(data) THEN y ELSE Len(data))
          BY <1>3
        <4>2. x + 1 \in Nat /\ 1 <= x + 1
          OBVIOUS
        <4>3. CASE y <= Len(data)
          BY <4>2, <4>1, <4>3, Zenon
        <4>4. CASE ~(y <= Len(data))
          <5>1. Len(data) <= Len(data)
            BY <1>1
          <5>2. QED
            BY <4>2, <4>1, <4>4, <5>1, <1>1, Zenon
        <4>5. QED
          BY <4>3, <4>4
      <3>2. SubSeq(data, lo, hi) \in Seq(S)
        BY <3>1
      <3>3. QED
        BY <3>1, <3>2, Zenon
    <2>2. QED
      BY <2>1
  <1>5. seqs \in Seq(Seq(S)) /\ Len(seqs) = n /\ \A b \in 1..n : seqs[b] = Chunk(data, b)
    BY <1>2, <1>4
  <1> HIDE DEF seqs
  <1>6. PICK f \in [0..n -> Seq(S)] : Builds(f, seqs) /\ f[n] = FlattenSeq(seqs)
    BY <1>5, FlattenByPrefixes, Zenon
  <1> DEFINE T == {i \in 0..n :
                     f[i] = SubSeq(data, 1, IF i * p <= Len(data) THEN i * p ELSE Len(data))}
  <1>7. 0 \in T
    BY <1>1, <1>2, <1>6 DEF Builds
  <1>8. ASSUME NEW j \in 0..n, j \in T, j < n PROVE j + 1 \in T
    <2>1. PICK i \in 1..n : i = j + 1 /\ i - 1 = j
      BY <1>2, <1>8
    <2>2. f[i] = f[i - 1] \o seqs[i]
      BY <1>5, <1>6, Zenon DEF Builds
    <2>3. PICK x \in Nat, y \in Nat : x = j * p /\ y = i * p /\ y = x + p /\ x < Len(data)
      BY <1>3, <2>1
    <2>4. f[j] = SubSeq(data, 1, x)
      BY <1>8, <2>3, <1>1
    <2>5. PICK z \in Nat : z = IF y <= Len(data) THEN y ELSE Len(data)
      BY <1>1
    <2>6. seqs[i] = SubSeq(data, x + 1, z)
      BY <1>3, <1>5, <2>1, <2>3, <2>5
    <2>7. x <= z /\ z <= Len(data)
      BY <2>3, <2>5, <1>1
    <2>8. SubSeq(data, 1, x) \o SubSeq(data, x + 1, z) = SubSeq(data, 1, z)
      BY <2>7
    <2>9. f[i] = SubSeq(data, 1, z)
      BY <2>1, <2>2, <2>4, <2>6, <2>8, Zenon
    <2>10. QED
      BY <2>1, <2>3, <2>5, <2>9
  <1> HIDE DEF T
  <1>9. n \in T
    <2>1. n \in 0..n
      BY <1>2
    <2>2. QED
      BY <2>1, <1>2, <1>7, <1>8, StepwiseCover, Zenon
  <1>10. f[n] = data
    <2>1. f[n] = SubSeq(data, 1, Len(data))
      BY <1>9, <1>2, <1>1 DEF T
    <2>2. QED
      BY <2>1
  <1>11. QED
    BY <1>2, <1>5, <1>6, <1>10, Zenon DEF n, seqs

----------------------------------------------------------------------------
\* Data cells, and the cells of blocks under a key.
PlainCells == {"data", "end", "gzip"} \X Nat
BlockCells(key) == {"rsa"} \X {key} \X Seq(PlainCells) \X (1..KeySize)

LEMMA KeySizes == KeySize \in Nat \ {0}
  BY PipelineAssumption

\* Encrypt puts one block of the size of the key after the other.
LEMMA EncryptLayout ==
    ASSUME NEW data \in Seq(PlainCells), NEW key
    PROVE  /\ BlockCount(data) \in Nat
           /\ Encrypt(data, key) \in Seq(BlockCells(key))
           /\ Len(Encrypt(data, key)) = BlockCount(data) * KeySize
           /\ \A b \in 1..BlockCount(data) :
                 CipherBlock(Encrypt(data, key), b) = Block(Chunk(data, b), key)
  <1> DEFINE n == BlockCount(data)
             seqs == [b \in 1..n |-> Block(Chunk(data, b), key)]
  <1>1. /\ n \in Nat
        /\ [b \in 1..n |-> Chunk(data, b)] \in Seq(Seq(PlainCells))
    BY ChunksAreData, Zenon
  <1> HIDE DEF n
  <1>2. \A b \in 1..n : Chunk(data, b) \in Seq(PlainCells)
    BY <1>1
  <1>3. \A b \in 1..n : /\ Block(Chunk(data, b), key) \in Seq(BlockCells(key))
                        /\ Len(Block(Chunk(data, b), key)) = KeySize
    <2>1. ASSUME NEW chunk \in Seq(PlainCells)
          PROVE  /\ Block(chunk, key) \in Seq(BlockCells(key))
                 /\ Len(Block(chunk, key)) = KeySize
      <3>1. \A i \in 1..KeySize : <<"rsa", key, chunk, i>> \in BlockCells(key)
        BY DEF BlockCells
      <3>2. [i \in 1..KeySize |-> <<"rsa", key, chunk, i>>] \in Seq(BlockCells(key))
        BY <3>1, KeySizes
      <3>3. Len([i \in 1..KeySize |-> <<"rsa", key, chunk, i>>]) = KeySize
        BY KeySizes
      <3>4. QED
        BY <3>2, <3>3 DEF Block
    <2>2. QED
      BY <1>2, <2>1
  <1>4. seqs \in Seq(Seq(BlockCells(key))) /\ Len(seqs) = n
    BY <1>1, <1>3
  <1>5. \A b \in 1..n : seqs[b] = Block(Chunk(data, b), key)
    BY Zenon
  <1>6. Encrypt(data, key) = FlattenSeq(seqs)
    BY Zenon DEF Encrypt, n
  <1> HIDE DEF seqs
  <1>7. \A b \in 1..Len(seqs) : Len(seqs[b]) = KeySize
    BY <1>3, <1>4, <1>5
  <1>8. /\ FlattenSeq(seqs) \in Seq(BlockCells(key))
        /\ Len(FlattenSeq(seqs)) = Len(seqs) * KeySize
        /\ \A b \in 1..Len(seqs) :
              SubSeq(FlattenSeq(seqs), (b - 1) * KeySize + 1, b * KeySize) = seqs[b]
    BY <1>4, <1>7, KeySizes, EqualBlocks, Zenon
  <1>9. QED
    BY <1>1, <1>4, <1>5, <1>6, <1>8, Zenon DEF CipherBlock, n

LEMMA WholeBlocks ==
    ASSUME NEW n \in Nat, NEW p \in Nat \ {0}
    PROVE  (n * p) % p = 0 /\ (n * p) \div p = n
  OBVIOUS

LEMMA FirstOfBlock ==
    ASSUME NEW chunk, NEW key
    PROVE  Block(chunk, key)[1] = <<"rsa", key, chunk, 1>>
  <1>1. 1 \in 1..KeySize
    BY KeySizes
  <1>2. QED
    BY <1>1 DEF Block

\* Decrypt undoes Encrypt, for every length of the data and every size of key.
LEMMA DecryptInverts ==
    ASSUME NEW data \in Seq(PlainCells), NEW key
    PROVE  /\ Decryptable(Encrypt(data, key), key)
           /\ \A other : Decrypt(Encrypt(data, key), other) = data
  <1> DEFINE n == BlockCount(data)
             enc == Encrypt(data, key)
  <1>1. /\ n \in Nat /\ Len(enc) = n * KeySize
        /\ \A b \in 1..n : CipherBlock(enc, b) = Block(Chunk(data, b), key)
    BY EncryptLayout, Zenon
  <1>2. FlattenSeq([b \in 1..n |-> Chunk(data, b)]) = data
    BY ChunksAreData, Zenon
  <1> HIDE DEF n, enc
  <1>3. Len(enc) % KeySize = 0 /\ Len(enc) \div KeySize = n
    BY <1>1, KeySizes, WholeBlocks, Zenon
  <1>4. ASSUME NEW b \in 1..n
        PROVE  Opens(CipherBlock(enc, b), key) /\ CipherBlock(enc, b)[1][3] = Chunk(data, b)
    <2>1. CipherBlock(enc, b)[1] = <<"rsa", key, Chunk(data, b), 1>>
      BY <1>1, FirstOfBlock, Zenon
    <2>2. CipherBlock(enc, b)[1][3] = Chunk(data, b) /\ Len(CipherBlock(enc, b)[1]) = 4
      BY <2>1
    <2>3. QED
      BY <1>1, <2>2, Zenon DEF Opens
  <1>5. Decryptable(enc, key)
    BY <1>3, <1>4, Zenon DEF Decryptable
  <1>6. [b \in 1..(Len(enc) \div KeySize) |-> CipherBlock(enc, b)[1][3]]
           = [b \in 1..n |-> Chunk(data, b)]
    BY <1>3, <1>4, Zenon
  <1>7. \A other : Decrypt(enc, other) = data
    BY <1>2, <1>6, Zenon DEF Decrypt
  <1>8. QED
    BY <1>5, <1>7, Zenon DEF enc

----------------------------------------------------------------------------
LEMMA PayloadCells ==
    ASSUME NEW body \in Payloads
    PROVE  /\ body \in Seq(PlainCells)
           /\ \A i \in 1..Len(body) : /\ body[i] \in {"data", "end"} \X Nat
                                      /\ body[i][1] = "end" <=> i = Len(body)
  <1>1. PICK n \in 0..MaxLen : body = [i \in 1..n |-> IF i = n THEN End(n) ELSE Data(i)]
    BY DEF Payloads
  <1>2. n \in Nat
    BY PipelineAssumption
  <1>3. \A i \in 1..n : /\ body[i] \in PlainCells
                        /\ body[i] \in {"data", "end"} \X Nat
                        /\ body[i][1] = "end" <=> i = n
    BY <1>1, <1>2 DEF End, Data, PlainCells
  <1>4. Len(body) = n
    BY <1>1, <1>2
  <1>5. QED
    BY <1>1, <1>2, <1>3, <1>4

LEMMA NoCells ==
    ASSUME NEW S, NEW s \in Seq(S), 0 = Len(s)
    PROVE  s = <<>>
  OBVIOUS

\* A text that breaks off decodes to nothing.
LEMMA DecodePrefix ==
    ASSUME NEW body \in Payloads, NEW m \in 0..Len(body)
    PROVE  DecodeJSON(SubSeq(body, 1, m)) = IF m = Len(body) THEN body ELSE <<>>
  <1>1. body \in Seq(PlainCells)
    BY PayloadCells
  <1> DEFINE pre == SubSeq(body, 1, m)
             ends == {i \in 1..Len(pre) : pre[i][1] = "end"}
  <1>2. Len(pre) = m /\ \A i \in 1..m : pre[i] = body[i] /\ i \in 1..Len(body)
    BY <1>1
  <1> HIDE DEF pre
  <1>3. ends = {i \in 1..m : i = Len(body)}
    BY <1>2, PayloadCells
  <1>4. DecodeJSON(pre) = IF ends = {} THEN <<>> ELSE SubSeq(pre, 1, Min(ends))
    BY Zenon DEF DecodeJSON
  <1>5. CASE m = Len(body) /\ m # 0
    <2>1. m \in Nat /\ ends = {m}
      BY <1>1, <1>3, <1>5
    <2>2. Min({m, m}) = m
      BY <2>1, MinOfTwo
    <2>3. {m, m} = {m}
      OBVIOUS
    <2>4. SubSeq(pre, 1, m) = body
      BY <1>1, <1>5 DEF pre
    <2>5. QED
      BY <1>4, <1>5, <2>1, <2>2, <2>3, <2>4 DEF pre
  <1>6. CASE m = Len(body) /\ m = 0
    <2>1. ends = {}
      BY <1>3, <1>6
    <2>2. body = <<>>
      BY <1>1, <1>6, NoCells, Zenon
    <2>3. QED
      BY <1>4, <1>6, <2>1, <2>2, Zenon DEF pre
  <1>7. CASE m # Len(body)
    <2>1. ends = {}
      BY <1>1, <1>3, <1>7
    <2>2. QED
      BY <1>4, <1>7, <2>1 DEF pre
  <1>8. QED
    BY <1>5, <1>6, <1>7

\* Blocks that nobody has decrypted are neither JSON nor a gzip stream.
LEMMA BlocksDecodeToNothing ==
    ASSUME NEW key, NEW body \in Seq(BlockCells(key))
    PROVE  DecodeJSON(body) = <<>> /\ ~HasGzipHeader(body)
  <1>1. \A i \in 1..Len(body) : body[i][1] = "rsa"
    BY DEF BlockCells
  <1>2. {i \in 1..Len(body) : body[i][1] = "end"} = {}
    BY <1>1
  <1>3. DecodeJSON(body) = <<>>
    BY <1>2, Zenon DEF DecodeJSON
  <1>4. GzipHeader[1] = "gzip"
    BY DEF GzipHeader
  <1>5. ASSUME body # <<>> PROVE 1 \in 1..Len(body)
    BY <1>5
  <1>6. QED
    BY <1>1, <1>3, <1>4, <1>5 DEF HasGzipHeader

LEMMA GzipCells ==
    ASSUME NEW body \in Seq(PlainCells)
    PROVE  /\ Gzip(body) \in Seq(PlainCells)
           /\ Len(Gzip(body)) = Len(body) + 2
           /\ Gzip(body)[1] = GzipHeader
           /\ Gzip(body)[Len(body) + 2] = GzipTrailer
           /\ \A i \in 1..Len(body) : Gzip(body)[i + 1] = body[i]
  <1>1. GzipHeader \in PlainCells /\ GzipTrailer \in PlainCells
    BY DEF GzipHeader, GzipTrailer, PlainCells
  <1>2. QED
    BY <1>1 DEF Gzip

\* What gzip reads of a stream that breaks off is the beginning of the text.
LEMMA InflatePrefix ==
    ASSUME NEW body \in Payloads, NEW n \in 1..(Len(body) + 2)
    PROVE  \E m \in 0..Len(body) :
              /\ Inflate(SubSeq(Gzip(body), 1, n)) = SubSeq(body, 1, m)
              /\ n = Len(body) + 2 => m = Len(body)
  <1>1. body \in Seq(PlainCells) /\ \A i \in 1..Len(body) : body[i][1] # "gzip"
    BY PayloadCells
  <1>2. /\ Gzip(body) \in Seq(PlainCells)
        /\ Len(Gzip(body)) = Len(body) + 2
        /\ Gzip(body)[1] = GzipHeader
        /\ Gzip(body)[Len(body) + 2] = GzipTrailer
        /\ \A i \in 1..Len(body) : Gzip(body)[i + 1] = body[i]
    BY <1>1, GzipCells
  <1>3. PICK g \in Seq(PlainCells) : g = Gzip(body)
    BY <1>2
  <1>4. PICK pre \in Seq(PlainCells) : pre = SubSeq(g, 1, n)
    <2>1. n \in 1..Len(g)
      BY <1>1, <1>2, <1>3
    <2>2. SubSeq(g, 1, n) \in Seq(PlainCells)
      BY <2>1
    <2>3. QED
      BY <2>2, Zenon
  <1>5. Len(pre) = n /\ pre # <<>> /\ \A i \in 1..n : pre[i] = g[i]
    BY <1>2, <1>3, <1>4
  <1>6. GzipTrailer[1] = "gzip" /\ GzipHeader # GzipTrailer
    BY DEF GzipTrailer, GzipHeader
  <1>7. CASE n = Len(body) + 2
    <2>1. HasGzipTrailer(pre)
      BY <1>2, <1>3, <1>5, <1>7 DEF HasGzipTrailer
    <2>2. Inflate(pre) = SubSeq(pre, 2, n - 1)
      BY <1>5, <2>1 DEF Inflate
    <2>3. SubSeq(pre, 2, n - 1) = SubSeq(body, 1, Len(body))
      BY <1>1, <1>2, <1>3, <1>5, <1>7
    <2>4. Len(body) \in 0..Len(body)
      BY <1>1
    <2>5. QED
      BY <1>3, <1>4, <2>2, <2>3, <2>4, Zenon
  <1>8. CASE n # Len(body) + 2
    <2>1. ~HasGzipTrailer(pre)
      <3>1. pre[n] = g[n]
        BY <1>5
      <3>2. CASE n = 1
        BY <1>2, <1>3, <1>5, <1>6, <3>1, <3>2 DEF HasGzipTrailer
      <3>3. CASE n # 1
        <4>1. n - 1 \in 1..Len(body) /\ n - 1 + 1 = n
          BY <1>1, <1>8, <3>3
        <4>2. g[n] = body[n - 1]
          BY <1>2, <1>3, <4>1
        <4>3. QED
          BY <1>1, <1>5, <1>6, <3>1, <4>1, <4>2 DEF HasGzipTrailer
      <3>4. QED
        BY <3>2, <3>3
    <2>2. Inflate(pre) = SubSeq(pre, 2, n)
      BY <1>5, <2>1 DEF Inflate
    <2>3. n - 1 \in 0..Len(body)
      BY <1>1, <1>8
    <2>4. SubSeq(pre, 2, n) = SubSeq(body, 1, n - 1)
      BY <1>1, <1>2, <1>3, <1>5, <2>3
    <2>5. QED
      BY <1>3, <1>4, <1>8, <2>2, <2>3, <2>4
  <1>9. QED
    BY <1>7, <1>8

----------------------------------------------------------------------------
(* What is on the wire, stage by stage.                                    *)

Compressed == IF client.compress THEN Gzip(payload) ELSE payload
Sent == IF client.public = NoKey THEN Compressed ELSE Encrypt(Compressed, client.public)

\* The request holds the text up to where the connection broke.
Carries(text) ==
    \E n \in 0..Len(text) : request.body = SubSeq(text, 1, n) /\ (request.cut <=> n < Len(text))

Clients ==
    /\ \/ client \in Posts /\ payload \in Payloads
       \/ client = Get /\ payload = <<>>
    /\ server \in Servers

\* The request as the client has made it, the body aside.
Headed ==
    /\ DOMAIN request = {"body", "cut", "gzip", "rsa", "hash"}
    /\ request.gzip = client.compress
    /\ request.hash = IF client.key = NoKey THEN NoHash ELSE Sum(Compressed, client.key)

Plain == ~request.rsa /\ Carries(Compressed)

\* Encrypted, and the server has no key to decrypt it.
Foreign ==
    /\ server.private = NoKey /\ client.public # NoKey
    /\ request.body \in Seq(BlockCells(client.public))

\* What the stages after the handler know.
Outcome ==
    /\ \/ seen = payload /\ (server.key # NoKey /\ client.post => client.key = server.key)
       \/ seen = <<>>
    /\ seen = <<>> /\ client.post <=> output.status = 400
    /\ Compatible /\ ~request.cut /\ client.post => seen = payload

ArrivalInv ==
    /\ Clients
    /\ stage # "client" => Headed
    /\ stage = "decrypt" => Carries(Sent) /\ (request.rsa <=> client.public # NoKey)
    /\ stage \in {"signature", "gzip", "handler"} => Plain \/ Foreign
    /\ stage \in {"gzip", "handler"} => Verified
    /\ stage = "handler" /\ request.gzip => HasGzipHeader(request.body)
    /\ stage \in {"client", "decrypt", "signature", "gzip", "handler"} => seen = <<>>
    /\ stage \in {"write", "close", "sign", "answered"} => Outcome

LEMMA CompressedCells ==
    ASSUME Clients
    PROVE  Compressed \in Seq(PlainCells) /\ payload \in Seq(PlainCells)
  <1>1. payload \in Seq(PlainCells)
    <2>1. CASE payload \in Payloads
      BY <2>1, PayloadCells
    <2>2. CASE payload = <<>>
      BY <2>2
    <2>3. QED
      BY <2>1, <2>2 DEF Clients
  <1>2. QED
    BY <1>1, GzipCells, Zenon DEF Compressed

LEMMA ClientKinds ==
    ASSUME Clients
    PROVE  \/ client.post /\ payload \in Payloads
           \/ ~client.post /\ payload = <<>> /\ client.public = NoKey /\ ~client.compress
  <1>1. CASE client \in Posts /\ payload \in Payloads
    <2>1. client.post \in {TRUE}
      BY <1>1 DEF Posts
    <2>2. QED
      BY <1>1, <2>1
  <1>2. CASE client = Get /\ payload = <<>>
    BY <1>2, Zenon DEF Get
  <1>3. QED
    BY <1>1, <1>2, Zenon DEF Clients

LEMMA EmptyPayload == <<>> \in Payloads
  <1>1. 0 \in 0..MaxLen
    BY PipelineAssumption
  <1>2. [i \in 1..0 |-> IF i = 0 THEN End(0) ELSE Data(i)] = <<>>
    OBVIOUS
  <1>3. QED
    BY <1>1, <1>2, Zenon DEF Payloads

\* What a handler decodes: the payload of a request that has arrived whole,
\* and nothing of one that has not.
LEMMA HandlerSees ==
    ASSUME ArrivalInv, stage = "handler"
    PROVE  /\ DecodeJSON(ReadBody) \in {payload, <<>>}
           /\ Plain /\ ~request.cut => DecodeJSON(ReadBody) = payload
  <1>1. payload \in Payloads /\ Compressed \in Seq(PlainCells) /\ payload \in Seq(PlainCells)
    BY EmptyPayload, CompressedCells, Zenon DEF ArrivalInv, Clients
  <1>2. request.gzip = client.compress /\ (request.gzip => HasGzipHeader(request.body))
    BY DEF ArrivalInv, Headed
  <1>3. CASE Plain
    <2>1. PICK n \in 0..Len(Compressed) :
             request.body = SubSeq(Compressed, 1, n) /\ (request.cut <=> n < Len(Compressed))
      BY <1>3, Zenon DEF Plain, Carries
    <2>2. \E m \in 0..Len(payload) :
             /\ ReadBody = SubSeq(payload, 1, m)
             /\ n = Len(Compressed) => m = Len(payload)
      <3>1. CASE request.gzip
        <4>1. Compressed = Gzip(payload) /\ ReadBody = Inflate(request.body)
          BY <1>2, <3>1, Zenon DEF Compressed, ReadBody
        <4>2. Len(Compressed) = Len(payload) + 2
          BY <1>1, <4>1, GzipCells, Zenon
        <4>3. n # 0
          <5>1. SubSeq(Compressed, 1, 0) = <<>>
            BY <1>1
          <5>2. QED
            BY <1>2, <2>1, <3>1, <5>1, Zenon DEF HasGzipHeader
        <4>4. n \in 1..(Len(payload) + 2)
          BY <1>1, <2>1, <4>2, <4>3
        <4>5. QED
          BY <1>1, <2>1, <4>1, <4>2, <4>4, InflatePrefix, Zenon
      <3>2. CASE ~request.gzip
        <4>1. Compressed = payload /\ ReadBody = request.body
          BY <1>2, <3>2, Zenon DEF Compressed, ReadBody
        <4>2. QED
          BY <2>1, <4>1, Zenon
      <3>3. QED
        BY <3>1, <3>2
    <2>3. PICK m \in 0..Len(payload) :
             /\ ReadBody = SubSeq(payload, 1, m)
             /\ n = Len(Compressed) => m = Len(payload)
      BY <2>2
    <2>4. DecodeJSON(ReadBody) = IF m = Len(payload) THEN payload ELSE <<>>
      BY <1>1, <2>3, DecodePrefix, Zenon
    <2>5. ~request.cut => n = Len(Compressed)
      BY <1>1, <2>1
    <2>6. QED
      BY <2>3, <2>4, <2>5, Zenon
  <1>4. CASE Foreign /\ ~Plain
    <2>1. DecodeJSON(request.body) = <<>> /\ ~HasGzipHeader(request.body)
      BY <1>4, BlocksDecodeToNothing, Zenon DEF Foreign
    <2>2. ReadBody = request.body
      BY <1>2, <2>1, Zenon DEF ReadBody
    <2>3. QED
      BY <1>4, <2>1, <2>2, Zenon
  <1>5. QED
    BY <1>3, <1>4, Zenon DEF ArrivalInv

LEMMA ArrivalInit == Init => ArrivalInv
  BY Zenon DEF Init, ArrivalInv, Clients

\* The definitions that depend on the configuration and the payload alone.
Configured == <<client, server, payload, accept>>

LEMMA SameText ==
    ASSUME UNCHANGED Configured
    PROVE  /\ Compressed' = Compressed /\ Sent' = Sent
           /\ Compatible' <=> Compatible
           /\ Clients' <=> Clients
  BY Zenon DEF Configured, Compressed, Sent, Compatible, Clients

LEMMA ArrivalSend ==
    ASSUME ArrivalInv, Send
    PROVE  ArrivalInv'
  <1>1. UNCHANGED Configured /\ stage' = "decrypt" /\ seen' = seen /\ stage = "client"
    BY Zenon DEF Send, Configured
  <1>2. PICK n \in 0..Len(Sent) :
           request' = [body |-> SubSeq(Sent, 1, n), cut |-> n < Len(Sent),
                       gzip |-> client.compress, rsa |-> client.public # NoKey,
                       hash |-> IF client.key = NoKey THEN NoHash
                                ELSE Sum(Compressed, client.key)]
    BY Zenon DEF Send, Sent, Compressed
  <1>3. /\ request'.body = SubSeq(Sent, 1, n)
        /\ request'.cut <=> n < Len(Sent)
        /\ request'.gzip = client.compress
        /\ request'.rsa <=> client.public # NoKey
        /\ request'.hash = IF client.key = NoKey THEN NoHash ELSE Sum(Compressed, client.key)
    BY <1>2, Zenon
  <1>4. DOMAIN request' = {"body", "cut", "gzip", "rsa", "hash"}
    BY <1>2
  <1>5. client' = client
    BY <1>1, Zenon DEF Configured
  <1>6. Headed' /\ Carries(Sent)' /\ (request.rsa <=> client.public # NoKey)'
    BY <1>1, <1>3, <1>4, <1>5, SameText, Zenon DEF Headed, Carries
  <1>7. QED
    BY <1>1, <1>6, SameText, Zenon DEF ArrivalInv

LEMMA ArrivalDecrypt ==
    ASSUME ArrivalInv, DecryptRequest
    PROVE  ArrivalInv'
  <1>1. UNCHANGED Configured /\ stage = "decrypt" /\ seen' = seen /\ seen = <<>>
    BY Zenon DEF DecryptRequest, Refuse, Configured, ArrivalInv
  <1>2. client' = client /\ server' = server
    BY <1>1, Zenon DEF Configured
  <1>3. Headed /\ Carries(Sent) /\ (request.rsa <=> client.public # NoKey) /\ Clients
    BY <1>1, Zenon DEF ArrivalInv
  <1>4. CASE stage' = "signature" /\ request' = request /\ (server.private = NoKey \/ ~request.rsa)
    <2>1. CASE client.public = NoKey
      <3>1. Plain
        BY <1>3, <2>1, Zenon DEF Plain, Carries, Sent
      <3>2. Plain'
        BY <1>1, <1>4, <3>1, SameText, Zenon DEF Plain, Carries
      <3>3. QED
        BY <1>1, <1>2, <1>3, <1>4, <3>2, SameText, Zenon DEF ArrivalInv, Headed
    <2>2. CASE client.public # NoKey
      <3>1. server.private = NoKey
        BY <1>3, <1>4, <2>2
      <3>2. Sent \in Seq(BlockCells(client.public))
        BY <1>3, <2>2, CompressedCells, EncryptLayout, Zenon DEF Sent
      <3>3. request.body \in Seq(BlockCells(client.public))
        <4>1. PICK n \in 0..Len(Sent) : request.body = SubSeq(Sent, 1, n)
          BY <1>3, Zenon DEF Carries
        <4>2. SubSeq(Sent, 1, n) \in Seq(BlockCells(client.public))
          BY <3>2
        <4>3. QED
          BY <4>1, <4>2, Zenon
      <3>4. Foreign'
        BY <1>2, <1>4, <2>2, <3>1, <3>3, Zenon DEF Foreign, BlockCells
      <3>5. QED
        BY <1>1, <1>2, <1>3, <1>4, <3>4, SameText, Zenon DEF ArrivalInv, Headed
    <2>3. QED
      BY <2>1, <2>2
  <1>5. CASE /\ server.private # NoKey /\ request.rsa /\ stage' = "answered"
             /\ request.cut \/ ~Decryptable(request.body, server.private)
             /\ Refuse
    <2>1. request' = request /\ output'.status = 400
      BY <1>5, Zenon DEF Refuse
    <2>2. ASSUME Compatible, ~request.cut PROVE FALSE
      <3>1. client.public # NoKey /\ client.public = server.private
        BY <1>3, <1>5, <2>2, Zenon DEF Compatible
      <3>2. PICK n \in 0..Len(Sent) :
               request.body = SubSeq(Sent, 1, n) /\ (request.cut <=> n < Len(Sent))
        BY <1>3, Zenon DEF Carries
      <3>3. Sent \in Seq(BlockCells(client.public)) /\ Decryptable(Sent, server.private)
        BY <1>3, <3>1, CompressedCells, EncryptLayout, DecryptInverts, Zenon DEF Sent
      <3>4. n = Len(Sent)
        BY <2>2, <3>2, <3>3
      <3>5. SubSeq(Sent, 1, Len(Sent)) = Sent
        BY <3>3
      <3>6. QED
        BY <1>5, <2>2, <3>2, <3>3, <3>4, <3>5, Zenon
    <2>3. client.post
      BY <1>3, <1>5, ClientKinds, Zenon
    <2>4. Outcome'
      <3>1. seen' = <<>> /\ client'.post /\ output'.status = 400
        BY <1>1, <1>2, <2>1, <2>3, Zenon
      <3>2. ~(Compatible' /\ ~request'.cut)
        BY <1>1, <2>1, <2>2, SameText, Zenon
      <3>3. QED
        BY <3>1, <3>2, Zenon DEF Outcome
    <2>5. QED
      BY <1>1, <1>2, <1>3, <1>5, <2>1, <2>4, SameText, Zenon DEF ArrivalInv, Headed
  <1>6. CASE /\ server.private # NoKey /\ request.rsa /\ ~request.cut /\ stage' = "signature"
             /\ request' = [request EXCEPT !.body = Decrypt(@, server.private), !.rsa = FALSE]
    <2>1. PICK n \in 0..Len(Sent) :
             request.body = SubSeq(Sent, 1, n) /\ (request.cut <=> n < Len(Sent))
      BY <1>3, Zenon DEF Carries
    <2>2. /\ Sent = Encrypt(Compressed, client.public)
          /\ Sent \in Seq(BlockCells(client.public)) /\ Compressed \in Seq(PlainCells)
      BY <1>3, <1>6, CompressedCells, EncryptLayout, Zenon DEF Sent
    <2>3. n = Len(Sent)
      BY <1>6, <2>1, <2>2
    <2>4. SubSeq(Sent, 1, Len(Sent)) = Sent
      BY <2>2
    <2>5. Decrypt(request.body, server.private) = Compressed
      <3>1. request.body = Encrypt(Compressed, client.public)
        BY <2>1, <2>2, <2>3, <2>4, Zenon
      <3>2. \A other : Decrypt(Encrypt(Compressed, client.public), other) = Compressed
        BY <2>2, DecryptInverts, Zenon
      <3>3. QED
        BY <3>1, <3>2, Zenon
    <2>6. /\ request'.body = Compressed /\ request'.rsa = FALSE /\ request'.cut = request.cut
          /\ request'.gzip = request.gzip /\ request'.hash = request.hash
          /\ DOMAIN request' = DOMAIN request
      BY <1>3, <1>6, <2>5 DEF Headed
    <2>7. /\ Compressed = SubSeq(Compressed, 1, Len(Compressed))
          /\ Len(Compressed) \in 0..Len(Compressed) /\ ~(Len(Compressed) < Len(Compressed))
      BY <2>2
    <2>8. Plain'
      BY <1>1, <1>6, <2>6, <2>7, SameText, Zenon DEF Plain, Carries
    <2>9. QED
      BY <1>1, <1>2, <1>3, <1>6, <2>6, <2>8, SameText, Zenon DEF ArrivalInv, Headed
  <1>7. QED
    BY <1>4, <1>5, <1>6, Zenon DEF DecryptRequest

LEMMA ArrivalVerify ==
    ASSUME ArrivalInv, VerifyRequest
    PROVE  ArrivalInv'
  <1>1. UNCHANGED Configured /\ stage = "signature" /\ seen' = seen /\ seen = <<>> /\ request' = request
    BY Zenon DEF VerifyRequest, Refuse, Configured, ArrivalInv
  <1>2. client' = client /\ server' = server
    BY <1>1, Zenon DEF Configured
  <1>3. Headed /\ (Plain \/ Foreign) /\ Clients
    BY <1>1, Zenon DEF ArrivalInv
  <1>4. Headed' /\ (Plain' \/ Foreign') /\ Clients'
    BY <1>1, <1>2, <1>3, SameText, Zenon DEF Headed, Plain, Carries, Foreign, BlockCells
  <1>5. CASE Verified /\ stage' = "gzip"
    <2>1. Verified'
      BY <1>1, <1>2, <1>5, Zenon DEF Verified, ValidHash, Sum
    <2>2. QED
      BY <1>1, <1>4, <1>5, <2>1, Zenon DEF ArrivalInv
  <1>6. CASE ~Verified /\ Refuse /\ stage' = "answered"
    <2>1. client.post /\ server.key # NoKey /\ (request.cut \/ ~ValidHash)
      BY <1>6, Zenon DEF Verified
    <2>2. output'.status = 400
      BY <1>6, Zenon DEF Refuse
    <2>3. ASSUME Compatible, ~request.cut PROVE FALSE
      <3>1. client.key = server.key /\ ~Foreign
        BY <2>1, <2>3, Zenon DEF Compatible, Foreign
      <3>2. PICK n \in 0..Len(Compressed) :
               request.body = SubSeq(Compressed, 1, n) /\ (request.cut <=> n < Len(Compressed))
        BY <1>3, <3>1, Zenon DEF Plain, Carries
      <3>3. Compressed \in Seq(PlainCells)
        BY <1>3, CompressedCells
      <3>4. n = Len(Compressed)
        BY <2>3, <3>2, <3>3
      <3>5. SubSeq(Compressed, 1, Len(Compressed)) = Compressed
        BY <3>3
      <3>6. ValidHash
        BY <1>3, <2>1, <3>1, <3>2, <3>4, <3>5, Zenon DEF ValidHash, Headed
      <3>7. QED
        BY <2>1, <2>3, <3>6
    <2>4. Outcome'
      <3>1. seen' = <<>> /\ client'.post /\ output'.status = 400
        BY <1>1, <1>2, <2>1, <2>2, Zenon
      <3>2. ~(Compatible' /\ ~request'.cut)
        BY <1>1, <2>3, SameText, Zenon
      <3>3. QED
        BY <3>1, <3>2, Zenon DEF Outcome
    <2>5. QED
      BY <1>1, <1>4, <1>6, <2>4, Zenon DEF ArrivalInv
  <1>7. QED
    BY <1>5, <1>6, Zenon DEF VerifyRequest

LEMMA ArrivalDecompress ==
    ASSUME ArrivalInv, DecompressRequest
    PROVE  ArrivalInv'
  <1>1. UNCHANGED Configured /\ stage = "gzip" /\ seen' = seen /\ seen = <<>> /\ request' = request
    BY Zenon DEF DecompressRequest, Refuse, Configured, ArrivalInv
  <1>2. client' = client /\ server' = server
    BY <1>1, Zenon DEF Configured
  <1>3. Headed /\ (Plain \/ Foreign) /\ Clients /\ Verified
    BY <1>1, Zenon DEF ArrivalInv
  <1>4. Headed' /\ (Plain' \/ Foreign') /\ Clients' /\ Verified'
    BY <1>1, <1>2, <1>3, SameText, Zenon
    DEF Headed, Plain, Carries, Foreign, BlockCells, Verified, ValidHash, Sum
  <1>5. CASE request.gzip /\ ~HasGzipHeader(request.body) /\ Refuse /\ stage' = "sign"
    <2>1. client.compress /\ client.post
      BY <1>3, <1>5, ClientKinds, Zenon DEF Headed
    <2>2. output'.status = 400
      BY <1>5, Zenon DEF Refuse
    <2>3. ASSUME Compatible, ~request.cut PROVE FALSE
      <3>1. Plain
        BY <1>3, <2>3, Zenon DEF Compatible, Foreign
      <3>2. PICK n \in 0..Len(Compressed) :
               request.body = SubSeq(Compressed, 1, n) /\ (request.cut <=> n < Len(Compressed))
        BY <3>1, Zenon DEF Plain, Carries
      <3>3. Compressed \in Seq(PlainCells) /\ payload \in Seq(PlainCells) /\ Compressed = Gzip(payload)
        BY <1>3, <2>1, CompressedCells, Zenon DEF Compressed
      <3>4. n = Len(Compressed)
        BY <2>3, <3>2, <3>3
      <3>5. SubSeq(Compressed, 1, Len(Compressed)) = Compressed
        BY <3>3
      <3>6. Compressed[1] = GzipHeader /\ Len(Compressed) = Len(payload) + 2
        BY <3>3, GzipCells, Zenon
      <3>7. Compressed # <<>>
        BY <3>3, <3>6
      <3>8. QED
        BY <1>5, <3>2, <3>4, <3>5, <3>6, <3>7, Zenon DEF HasGzipHeader
    <2>4. Outcome'
      <3>1. seen' = <<>> /\ client'.post /\ output'.status = 400
        BY <1>1, <1>2, <2>1, <2>2, Zenon
      <3>2. ~(Compatible' /\ ~request'.cut)
        BY <1>1, <2>3, SameText, Zenon
      <3>3. QED
        BY <3>1, <3>2, Zenon DEF Outcome
    <2>5. QED
      BY <1>1, <1>4, <1>5, <2>4, Zenon DEF ArrivalInv
  <1>6. CASE ~(request.gzip /\ ~HasGzipHeader(request.body)) /\ stage' = "handler"
    BY <1>1, <1>4, <1>6, Zenon DEF ArrivalInv, HasGzipHeader
  <1>7. QED
    BY <1>5, <1>6, Zenon DEF DecompressRequest

LEMMA ArrivalHandle ==
    ASSUME ArrivalInv, Handle
    PROVE  ArrivalInv'
  <1>1. /\ UNCHANGED Configured /\ stage = "handler" /\ request' = request /\ stage' = "write"
        /\ seen' = DecodeJSON(ReadBody)
        /\ IF client.post /\ seen' = <<>>
           THEN output' = [type |-> "text", status |-> 400, body |-> ErrorBody]
           ELSE output' \in Outputs
    BY Zenon DEF Handle, Configured
  <1>2. client' = client /\ server' = server /\ payload' = payload
    BY <1>1, Zenon DEF Configured
  <1>3. Headed /\ (Plain \/ Foreign) /\ Clients /\ Verified
    BY <1>1, Zenon DEF ArrivalInv
  <1>4. Headed' /\ Clients'
    BY <1>1, <1>2, <1>3, SameText, Zenon DEF Headed
  <1>5. /\ seen' \in {payload, <<>>}
        /\ Plain /\ ~request.cut => seen' = payload
    BY <1>1, HandlerSees, Zenon
  <1>6. output'.status = 400 <=> (client.post /\ seen' = <<>>)
    <2>1. CASE client.post /\ seen' = <<>>
      <3>1. output' = [type |-> "text", status |-> 400, body |-> ErrorBody]
        BY <1>1, <2>1, Zenon
      <3>2. output'.status = 400
        BY <3>1
      <3>3. QED
        BY <2>1, <3>2, Zenon
    <2>2. CASE ~(client.post /\ seen' = <<>>)
      <3>1. output' \in Outputs
        BY <1>1, <2>2, Zenon
      <3>2. output'.status \in {200, 404, 500}
        BY <3>1 DEF Outputs
      <3>3. output'.status # 400
        BY <3>2
      <3>4. QED
        BY <2>2, <3>3, Zenon
    <2>3. QED
      BY <2>1, <2>2
  <1>7. server.key # NoKey /\ client.post => client.key = server.key
    <2>1. SUFFICES ASSUME server.key # NoKey, client.post
                   PROVE  client.key = server.key
      OBVIOUS
    <2>2. request.hash = <<server.key, request.body>>
      BY <1>3, <2>1, Zenon DEF Verified, ValidHash, Sum
    <2>3. client.key # NoKey
      BY <1>3, <2>2 DEF Headed, NoHash
    <2>4. QED
      BY <1>3, <2>2, <2>3 DEF Headed, Sum
  <1>8. Compatible /\ ~request.cut => Plain
    <2>1. Compatible => ~Foreign
      BY Zenon DEF Compatible, Foreign
    <2>2. QED
      BY <1>3, <2>1
  <1>9. Outcome'
    BY <1>1, <1>2, <1>5, <1>6, <1>7, <1>8, SameText, Zenon DEF Outcome
  <1>10. QED
    BY <1>1, <1>4, <1>9, Zenon DEF ArrivalInv

LEMMA ArrivalLater ==
    ASSUME ArrivalInv, WriteOutput \/ CloseGzip \/ SignResponse \/ UNCHANGED vars
    PROVE  ArrivalInv'
  <1>1. CASE UNCHANGED vars
    <2>1. /\ UNCHANGED Configured /\ client' = client /\ server' = server
          /\ payload' = payload /\ stage' = stage /\ request' = request
          /\ seen' = seen /\ output' = output
      BY <1>1, Zenon DEF vars, Configured
    <2>2. /\ Compressed' = Compressed /\ Sent' = Sent
          /\ Compatible' <=> Compatible
          /\ Clients' <=> Clients
      BY <2>1, SameText, Zenon
    <2>3. (Headed' <=> Headed) /\ (Carries(Sent)' <=> Carries(Sent))
      BY <2>1, <2>2, Zenon DEF Headed, Carries
    <2>4. (Plain' <=> Plain) /\ (Foreign' <=> Foreign)
      BY <2>1, <2>2, Zenon DEF Carries, Plain, Foreign, BlockCells
    <2>5. Verified => Verified'
      BY <2>1, Zenon DEF Verified, ValidHash, Sum
    <2>6. Outcome => Outcome'
      BY <2>1, <2>2, Zenon DEF Outcome
    <2>7. QED
      BY <2>1, <2>2, <2>3, <2>4, <2>5, <2>6, Zenon DEF ArrivalInv, HasGzipHeader
  <1>2. CASE WriteOutput \/ CloseGzip \/ SignResponse
    <2>1. /\ UNCHANGED Configured /\ request' = request /\ seen' = seen /\ output' = output
          /\ stage \in {"write", "close", "sign"} /\ stage' \in {"close", "sign", "answered"}
      BY <1>2, Zenon DEF WriteOutput, CloseGzip, SignResponse, Configured
    <2>2. client' = client /\ server' = server /\ payload' = payload
      BY <2>1, Zenon DEF Configured
    <2>3. Headed' /\ Clients' /\ Outcome'
      BY <2>1, <2>2, SameText, Zenon DEF ArrivalInv, Headed, Outcome
    <2>4. QED
      BY <2>1, <2>3, Zenon DEF ArrivalInv
  <1>3. QED
    BY <1>1, <1>2

\* What the stages know about the request is inductive.
LEMMA ArrivalInvariant == Spec => []ArrivalInv
  <1>1. ArrivalInv /\ [Next]_vars => ArrivalInv'
    BY ArrivalSend, ArrivalDecrypt, ArrivalVerify, ArrivalDecompress, ArrivalHandle,
       ArrivalLater, Zenon
    DEF Next, Answered
  <1>2. QED
    BY <1>1, ArrivalInit, PTL DEF Spec

\* A handler gets exactly what the client wanted to send, signed with the key of
\* the server if it has one, or the request is refused with 400; for every size of
\* the keys and every place where the body breaks off (ExactOrRefused).
THEOREM ExactOrRefusedHolds == Spec => []ExactOrRefused
  <1>1. ArrivalInv => ExactOrRefused
    BY Zenon DEF ArrivalInv, Outcome, ExactOrRefused
  <1>2. QED
    BY <1>1, ArrivalInvariant, PTL

\* A whole request of a client whose keys fit is never refused: no length of the
\* body and no size of the key keeps the server from undoing what the client did
\* (CompatibleIsServed).
THEOREM CompatibleIsServedHolds == Spec => []CompatibleIsServed
  <1>1. ArrivalInv => CompatibleIsServed
    <2>1. SUFFICES ASSUME ArrivalInv, stage = "answered", Compatible, ~request.cut
                   PROVE  IF client.post /\ payload # <<>> THEN seen = payload
                          ELSE output.status = 400 <=> client.post
      BY Zenon DEF CompatibleIsServed
    <2>2. Outcome /\ Clients
      BY <2>1, Zenon DEF ArrivalInv
    <2>3. QED
      BY <2>1, <2>2, ClientKinds, Zenon DEF Outcome
  <1>2. QED
    BY <1>1, ArrivalInvariant, PTL

----------------------------------------------------------------------------
(* The way back.                                                           *)

\* The outputs of handlers and refusals.
Answerable ==
    /\ output.body \in {<<>>, ErrorBody, <<Data(1)>>}
    /\ output.status \in {200, 400, 404, 500}

\* What the handler wrote is all there, in a complete encoding.
Written ==
    /\ response.status = output.status
    /\ \/ ~response.gzip /\ response.body = output.body
       \/ response.gzip /\ accept /\ response.body = Gzip(output.body)

\* What the first write has left, before Close.
Begun ==
    IF output.body = <<>> /\ accept THEN response = NoResponse
    ELSE response = [status |-> output.status,
                     body |-> IF ShouldCompress THEN <<GzipHeader>> \o output.body
                              ELSE output.body,
                     gzip |-> ShouldCompress, hash |-> NoHash]

\* Every answer of a server with a key is signed, a refusal by Decrypt aside.
Signed ==
    /\ response.hash # NoHash => response.hash = Sum(response.body, server.key)
    /\ server.key # NoKey /\ ~request.rsa => response.hash # NoHash

ResponseInv ==
    /\ DOMAIN response = {"status", "body", "gzip", "hash"}
    /\ stage \in {"client", "decrypt", "signature", "gzip", "handler", "write"} => response = NoResponse
    /\ stage \in {"write", "close", "sign", "answered"} => Answerable
    /\ stage = "close" => Begun
    /\ stage = "sign" => Written /\ response.hash = NoHash
    /\ stage = "answered" => Written /\ Signed

LEMMA AnswerCells ==
    ASSUME Answerable
    PROVE  output.body \in Seq(PlainCells) /\ Inflate(Gzip(output.body)) = output.body
  <1>1. output.body \in Seq(PlainCells)
    <2>1. Data(0) \in PlainCells /\ Data(1) \in PlainCells
      BY DEF Data, PlainCells
    <2>2. \A cell \in PlainCells : <<cell>> \in Seq(PlainCells)
      OBVIOUS
    <2>3. <<>> \in Seq(PlainCells)
      OBVIOUS
    <2>4. output.body = <<>> \/ \E cell \in PlainCells : output.body = <<cell>>
      BY <2>1 DEF Answerable, ErrorBody
    <2>5. QED
      BY <2>2, <2>3, <2>4, Zenon
  <1>2. PICK b \in Seq(PlainCells) : b = output.body
    BY <1>1
  <1>3. PICK g \in Seq(PlainCells) :
           /\ g = Gzip(b) /\ Len(g) = Len(b) + 2 /\ g[Len(b) + 2] = GzipTrailer
           /\ \A i \in 1..Len(b) : g[i + 1] = b[i]
    BY GzipCells
  <1>4. HasGzipTrailer(g)
    BY <1>3 DEF HasGzipTrailer
  <1>5. Inflate(g) = SubSeq(g, 2, Len(b) + 1)
    BY <1>3, <1>4 DEF Inflate
  <1>6. SubSeq(g, 2, Len(b) + 1) = b
    BY <1>3
  <1>7. QED
    BY <1>1, <1>2, <1>3, <1>5, <1>6, Zenon

LEMMA ResponseInit == Init => ResponseInv
  <1>1. DOMAIN NoResponse = {"status", "body", "gzip", "hash"}
    BY DEF NoResponse
  <1>2. QED
    BY <1>1, Zenon DEF Init, ResponseInv

\* A refusal is a text with its status, signed or not.
LEMMA RefusalIsWritten ==
    ASSUME Refuse, NEW hash,
           response' = [status |-> 400, body |-> ErrorBody, gzip |-> FALSE, hash |-> hash]
    PROVE  /\ Written' /\ Answerable'
           /\ response'.hash = hash /\ response'.body = ErrorBody
           /\ DOMAIN response' = {"status", "body", "gzip", "hash"}
  <1>1. output'.status = 400 /\ output'.body = ErrorBody
    BY Zenon DEF Refuse
  <1>2. /\ response'.status = 400 /\ response'.body = ErrorBody /\ ~response'.gzip
        /\ response'.hash = hash /\ DOMAIN response' = {"status", "body", "gzip", "hash"}
    OBVIOUS
  <1>3. 400 \in {200, 400, 404, 500}
    OBVIOUS
  <1>4. Written'
    BY <1>1, <1>2, Zenon DEF Written
  <1>5. Answerable'
    BY <1>1, <1>3, Zenon DEF Answerable, ErrorBody
  <1>6. QED
    BY <1>2, <1>4, <1>5, Zenon

LEMMA ResponseArrival ==
    ASSUME ResponseInv, Send \/ DecryptRequest \/ VerifyRequest \/ DecompressRequest
    PROVE  ResponseInv'
  <1>1. CASE response' = response /\ stage' \in {"decrypt", "signature", "gzip", "handler"}
             /\ stage \in {"client", "decrypt", "signature", "gzip"}
    BY <1>1, Zenon DEF ResponseInv, NoResponse
  <1>2. CASE /\ Refuse /\ server' = server /\ request' = request
             /\ \E hash : /\ response' = [status |-> 400, body |-> ErrorBody, gzip |-> FALSE, hash |-> hash]
                          /\ \/ stage' = "sign" /\ hash = NoHash
                             \/ stage' = "answered" /\ hash = NoHash /\ request.rsa
                             \/ stage' = "answered" /\ hash = Sum(ErrorBody, server.key)
    <2>1. PICK hash : /\ response' = [status |-> 400, body |-> ErrorBody, gzip |-> FALSE, hash |-> hash]
                      /\ \/ stage' = "sign" /\ hash = NoHash
                         \/ stage' = "answered" /\ hash = NoHash /\ request.rsa
                         \/ stage' = "answered" /\ hash = Sum(ErrorBody, server.key)
      BY <1>2, Zenon
    <2>2. /\ Written' /\ Answerable'
          /\ response'.hash = hash /\ response'.body = ErrorBody
          /\ DOMAIN response' = {"status", "body", "gzip", "hash"}
      BY <1>2, <2>1, RefusalIsWritten, Zenon
    <2>3. Sum(ErrorBody, server.key) # NoHash
      BY DEF Sum, NoHash
    <2>4. ASSUME stage' = "answered" PROVE Signed'
      <3>1. (hash = NoHash /\ request.rsa) \/ hash = Sum(ErrorBody, server.key)
        BY <2>1, <2>4
      <3>2. Sum(response'.body, server'.key) = Sum(ErrorBody, server.key)
        BY <1>2, <2>2, Zenon
      <3>3. QED
        BY <1>2, <2>2, <2>3, <3>1, <3>2, Zenon DEF Signed, Sum, NoHash
    <2>5. stage' \in {"sign", "answered"}
      BY <2>1, Zenon
    <2>6. CASE stage' = "sign"
      <3>1. response'.hash = NoHash
        BY <2>1, <2>2, <2>6
      <3>2. QED
        BY <2>2, <2>6, <3>1, Zenon DEF ResponseInv, NoHash
    <2>7. CASE stage' = "answered"
      <3>1. Written' /\ Signed' /\ Answerable'
        BY <2>2, <2>4, <2>7, Zenon
      <3>2. QED
        BY <2>2, <2>7, <3>1 DEF ResponseInv
    <2>8. QED
      BY <2>5, <2>6, <2>7, Zenon
  <1>3. CASE Send
    BY <1>1, <1>3, Zenon DEF Send
  <1>4. CASE DecryptRequest
    <2>1. CASE stage' = "signature"
      BY <1>1, <1>4, <2>1, Zenon DEF DecryptRequest
    <2>2. CASE stage' # "signature"
      <3>1. /\ Refuse /\ request.rsa /\ stage' = "answered"
            /\ response' = [NoResponse EXCEPT !.status = 400, !.body = ErrorBody]
        BY <1>4, <2>2, Zenon DEF DecryptRequest
      <3>2. response' = [status |-> 400, body |-> ErrorBody, gzip |-> FALSE, hash |-> NoHash]
        BY <3>1 DEF NoResponse
      <3>3. QED
        BY <1>2, <3>1, <3>2, Zenon DEF Refuse
    <2>3. QED
      BY <2>1, <2>2
  <1>5. CASE VerifyRequest
    <2>1. CASE Verified
      BY <1>1, <1>5, <2>1, Zenon DEF VerifyRequest
    <2>2. CASE ~Verified
      <3>1. /\ Refuse /\ stage' = "answered"
            /\ response' = [NoResponse EXCEPT !.status = 400, !.body = ErrorBody,
                                             !.hash = Sum(ErrorBody, server.key)]
        BY <1>5, <2>2, Zenon DEF VerifyRequest
      <3>2. response' = [status |-> 400, body |-> ErrorBody, gzip |-> FALSE,
                         hash |-> Sum(ErrorBody, server.key)]
        BY <3>1 DEF NoResponse
      <3>3. QED
        BY <1>2, <3>1, <3>2, Zenon DEF Refuse
    <2>3. QED
      BY <2>1, <2>2
  <1>6. CASE DecompressRequest
    <2>1. CASE request.gzip /\ ~HasGzipHeader(request.body)
      <3>1. /\ Refuse /\ stage' = "sign"
            /\ response' = [NoResponse EXCEPT !.status = 400, !.body = ErrorBody]
        BY <1>6, <2>1, Zenon DEF DecompressRequest
      <3>2. response' = [status |-> 400, body |-> ErrorBody, gzip |-> FALSE, hash |-> NoHash]
        BY <3>1 DEF NoResponse
      <3>3. QED
        BY <1>2, <3>1, <3>2, Zenon DEF Refuse
    <2>2. CASE ~(request.gzip /\ ~HasGzipHeader(request.body))
      BY <1>1, <1>6, <2>2, Zenon DEF DecompressRequest
    <2>3. QED
      BY <2>1, <2>2
  <1>7. QED
    BY <1>3, <1>4, <1>5, <1>6

LEMMA ResponseHandle ==
    ASSUME ResponseInv, Handle
    PROVE  ResponseInv'
  <1>1. /\ response' = response /\ stage = "handler" /\ stage' = "write"
        /\ \/ output' = [type |-> "text", status |-> 400, body |-> ErrorBody]
           \/ output' \in Outputs
    BY Zenon DEF Handle
  <1>2. Answerable'
    <2>1. CASE output' = [type |-> "text", status |-> 400, body |-> ErrorBody]
      <3>1. output'.status = 400 /\ output'.body = ErrorBody /\ 400 \in {200, 400, 404, 500}
        BY <2>1
      <3>2. QED
        BY <3>1, Zenon DEF Answerable, ErrorBody
    <2>2. CASE output' \in Outputs
      <3>1. output'.status \in {200, 404, 500} /\ output'.body \in {<<Data(1)>>, <<>>}
        BY <2>2 DEF Outputs
      <3>2. output'.status \in {200, 400, 404, 500}
        BY <3>1
      <3>3. QED
        BY <3>1, <3>2, Zenon DEF Answerable, Data
    <2>3. QED
      BY <1>1, <2>1, <2>2
  <1>3. QED
    BY <1>1, <1>2, Zenon DEF ResponseInv, NoResponse

LEMMA ResponseWrite ==
    ASSUME ResponseInv, WriteOutput
    PROVE  ResponseInv'
  <1>1. /\ stage = "write" /\ stage' = "close" /\ output' = output /\ accept' = accept
        /\ response = NoResponse /\ Answerable
        /\ response' =
              IF output.body = <<>> /\ accept THEN response
              ELSE [response EXCEPT
                      !.status = output.status,
                      !.gzip = ShouldCompress,
                      !.body = IF ShouldCompress THEN <<GzipHeader>> \o output.body
                               ELSE output.body]
    BY Zenon DEF WriteOutput, ResponseInv
  <1>2. ShouldCompress' = ShouldCompress /\ Answerable'
    BY <1>1, Zenon DEF ShouldCompress, Answerable, ErrorBody, Data
  <1>3. CASE output.body = <<>> /\ accept
    <2>1. Begun'
      BY <1>1, <1>3, Zenon DEF Begun, NoResponse
    <2>2. QED
      BY <1>1, <1>2, <1>3, <2>1, Zenon DEF ResponseInv
  <1>4. CASE ~(output.body = <<>> /\ accept)
    <2>1. PICK st, bo, gz : /\ st = output.status /\ gz = ShouldCompress
                            /\ bo = IF ShouldCompress THEN <<GzipHeader>> \o output.body
                                    ELSE output.body
      BY Zenon
    <2>2. response' = [NoResponse EXCEPT !.status = st, !.gzip = gz, !.body = bo]
      BY <1>1, <1>4, <2>1, Zenon
    <2>3. response' = [status |-> st, body |-> bo, gzip |-> gz, hash |-> NoHash]
      BY <2>2 DEF NoResponse
    <2>4. Begun'
      BY <1>1, <1>2, <1>4, <2>1, <2>3, Zenon DEF Begun, NoHash, GzipHeader
    <2>5. DOMAIN response' = {"status", "body", "gzip", "hash"}
      BY <2>3
    <2>6. QED
      BY <1>1, <1>2, <2>4, <2>5, Zenon DEF ResponseInv
  <1>5. QED
    BY <1>3, <1>4

LEMMA ResponseClose ==
    ASSUME ResponseInv, CloseGzip
    PROVE  ResponseInv'
  <1>1. /\ stage = "close" /\ stage' = "sign" /\ output' = output /\ accept' = accept
        /\ Begun /\ Answerable
        /\ response' =
              IF response.status # 0
              THEN [response EXCEPT !.body = IF response.gzip THEN @ \o <<GzipTrailer>> ELSE @]
              ELSE [response EXCEPT
                      !.status = output.status,
                      !.gzip = ShouldCompress,
                      !.body = IF ShouldCompress THEN Gzip(<<>>) ELSE <<>>]
    BY Zenon DEF CloseGzip, ResponseInv
  <1>2. Answerable'
    BY <1>1, Zenon DEF Answerable, ErrorBody, Data
  <1>3. /\ response'.status = output.status /\ response'.hash = NoHash
        /\ DOMAIN response' = {"status", "body", "gzip", "hash"}
        /\ response'.gzip = ShouldCompress
        /\ response'.body = IF ShouldCompress THEN Gzip(output.body) ELSE output.body
    <2>1. PICK st, gz : st = output.status /\ gz = ShouldCompress
      BY Zenon
    <2>2. CASE output.body = <<>> /\ accept
      <3>1. PICK bo : bo = IF ShouldCompress THEN Gzip(<<>>) ELSE <<>>
        BY Zenon
      <3>2. response = NoResponse
        BY <1>1, <2>2, Zenon DEF Begun
      <3>3. ~(response.status # 0)
        BY <3>2 DEF NoResponse
      <3>4. response' = [NoResponse EXCEPT !.status = st, !.gzip = gz, !.body = bo]
        BY <1>1, <2>1, <3>1, <3>2, <3>3, Zenon
      <3>5. response' = [status |-> st, body |-> bo, gzip |-> gz, hash |-> NoHash]
        BY <3>4 DEF NoResponse
      <3>6. /\ response'.status = st /\ response'.hash = NoHash
            /\ DOMAIN response' = {"status", "body", "gzip", "hash"}
            /\ response'.gzip = gz /\ response'.body = bo
        BY <3>5
      <3>7. QED
        BY <2>1, <2>2, <3>1, <3>6, Zenon
    <2>3. CASE ~(output.body = <<>> /\ accept)
      <3>1. PICK bo : bo = IF ShouldCompress THEN <<GzipHeader>> \o output.body ELSE output.body
        BY Zenon
      <3>2. response = [status |-> st, body |-> bo, gzip |-> gz, hash |-> NoHash]
        BY <1>1, <2>1, <2>3, <3>1, Zenon DEF Begun
      <3>3. response.status = st /\ response.body = bo /\ response.gzip = gz
        BY <3>2
      <3>4. st # 0
        BY <1>1, <2>1 DEF Answerable
      <3>5. PICK end : end = IF response.gzip THEN response.body \o <<GzipTrailer>>
                             ELSE response.body
        BY Zenon
      <3>6. response' = [response EXCEPT !.body = IF response.gzip THEN @ \o <<GzipTrailer>> ELSE @]
        BY <1>1, <3>3, <3>4, Zenon
      <3>7. response' = [response EXCEPT !.body = end]
        BY <3>5, <3>6, Zenon
      <3>8. /\ response'.status = st /\ response'.hash = NoHash
            /\ DOMAIN response' = {"status", "body", "gzip", "hash"}
            /\ response'.gzip = gz /\ response'.body = end
        BY <3>2, <3>7
      <3>9. end = IF ShouldCompress THEN Gzip(output.body) ELSE output.body
        <4>1. response.gzip = ShouldCompress
          BY <2>1, <3>3
        <4>2. CASE ShouldCompress
          <5>1. bo = <<GzipHeader>> \o output.body
            BY <3>1, <4>2, Zenon
          <5>2. end = bo \o <<GzipTrailer>>
            BY <3>3, <3>5, <4>1, <4>2, Zenon
          <5>3. QED
            BY <4>2, <5>1, <5>2, Zenon DEF Gzip
        <4>3. CASE ~ShouldCompress
          BY <3>1, <3>3, <3>5, <4>1, <4>3, Zenon
        <4>4. QED
          BY <4>2, <4>3
      <3>10. QED
        BY <2>1, <3>8, <3>9, Zenon
    <2>4. QED
      BY <2>2, <2>3
  <1>4. Written'
    BY <1>1, <1>3, Zenon DEF Written, ShouldCompress, Gzip
  <1>5. QED
    BY <1>1, <1>2, <1>3, <1>4, Zenon DEF ResponseInv, NoHash

LEMMA ResponseSign ==
    ASSUME ResponseInv, SignResponse
    PROVE  ResponseInv'
  <1>1. /\ stage = "sign" /\ stage' = "answered" /\ UNCHANGED <<output, accept, server, request>>
        /\ Written /\ Answerable
        /\ DOMAIN response = {"status", "body", "gzip", "hash"}
    BY Zenon DEF SignResponse, ResponseInv
  <1>2. PICK hash : hash = IF server.key = NoKey THEN NoHash ELSE Sum(response.body, server.key)
    BY Zenon
  <1>3. response' = [response EXCEPT !.hash = hash]
    BY <1>2, Zenon DEF SignResponse
  <1>4. /\ response'.status = response.status /\ response'.body = response.body
        /\ response'.gzip = response.gzip /\ response'.hash = hash
        /\ DOMAIN response' = DOMAIN response
    BY <1>1, <1>3
  <1>5. Written' /\ Answerable'
    <2>1. Gzip(output.body)' = Gzip(output.body)
      BY <1>1, Zenon DEF Gzip, GzipHeader, GzipTrailer
    <2>2. Written'
      BY <1>1, <1>4, <2>1, Zenon DEF Written
    <2>3. Answerable'
      BY <1>1, Zenon DEF Answerable, ErrorBody, Data
    <2>4. QED
      BY <2>2, <2>3
  <1>6. Sum(response.body, server.key) # NoHash
    BY DEF Sum, NoHash
  <1>7. Signed'
    BY <1>1, <1>2, <1>4, <1>6, Zenon DEF Signed, Sum, NoHash
  <1>8. QED
    BY <1>1, <1>4, <1>5, <1>7, Zenon DEF ResponseInv

LEMMA ResponseStays ==
    ASSUME ResponseInv, UNCHANGED vars
    PROVE  ResponseInv'
  <1>1. UNCHANGED <<client, server, accept, stage, request, output, response>>
    BY Zenon DEF vars
  <1>2. (Written => Written') /\ (Signed => Signed') /\ (Answerable => Answerable')
    <2>1. Gzip(output.body)' = Gzip(output.body)
      BY <1>1, Zenon DEF Gzip, GzipHeader, GzipTrailer
    <2>2. Written => Written'
      BY <1>1, <2>1, Zenon DEF Written
    <2>3. Signed => Signed'
      BY <1>1, Zenon DEF Signed, Sum, NoHash
    <2>4. Answerable => Answerable'
      BY <1>1, Zenon DEF Answerable, ErrorBody, Data
    <2>5. QED
      BY <2>2, <2>3, <2>4
  <1>3. Begun' <=> Begun
    BY <1>1, Zenon DEF Begun, ShouldCompress, NoResponse, NoHash, GzipHeader
  <1>4. QED
    BY <1>1, <1>2, <1>3, Zenon DEF ResponseInv, NoResponse, NoHash

\* An answer arrives as it was written, in a complete encoding that the client
\* takes, and signed over the bytes that were sent (AnswerIsIntact).
THEOREM AnswerIsIntactHolds == Spec => []AnswerIsIntact
  <1>1. ResponseInv /\ [Next]_vars => ResponseInv'
    BY ResponseArrival, ResponseHandle, ResponseWrite, ResponseClose, ResponseSign,
       ResponseStays, Zenon
    DEF Next, Answered
  <1>2. ResponseInv => AnswerIsIntact
    <2>1. SUFFICES ASSUME ResponseInv, stage = "answered"
                   PROVE  /\ response.status = output.status
                          /\ Decoded = output.body
                          /\ response.gzip => accept /\ response.body = Gzip(output.body)
                          /\ Signed
      BY Zenon DEF AnswerIsIntact, Signed
    <2>2. Written /\ Signed /\ Answerable
      BY <2>1, Zenon DEF ResponseInv
    <2>3. QED
      BY <2>2, AnswerCells, Zenon DEF Written, Decoded
  <1>3. QED
    BY <1>1, <1>2, ResponseInit, PTL DEF Spec
=============================================================================
