--------------------------- MODULE LiveCheckProofs --------------------------
(***************************************************************************)
(* Proofs about LiveCheck and Multicall, for any chain, any word of at     *)
(* least two cells, calls and answers of any length, and a node that       *)
(* answers each request from any block or not at all.  First what lies     *)
(* where in encoded data; then the two round trips, of the calls through   *)
(* the contract's reading and of the answers through the decoder's; then   *)
(* what each batch hears and reads; then the invariant and its steps.      *)
(***************************************************************************)
EXTENDS LiveCheck, Induction, SequenceTheorems

Bytes == Seq(Nat)

(* s lies in data after the first o cells. *)
Lies(data, o, s) ==
    /\ o \in Nat /\ o + Len(s) <= Len(data)
    /\ \A i \in 1 .. Len(s) : data[o + i] = s[i]

(* Where the two parts of a concatenation lie. *)
LEMMA AtEnds ==
    ASSUME NEW a \in Bytes, NEW b \in Bytes
    PROVE  /\ a \o b \in Bytes /\ Len(a \o b) = Len(a) + Len(b)
           /\ Lies(a \o b, 0, a) /\ Lies(a \o b, Len(a), b)
<1>1. /\ a \o b \in Seq(Nat) /\ Len(a \o b) = Len(a) + Len(b)
      /\ \A i \in 1 .. Len(a) + Len(b) : (a \o b)[i] = IF i <= Len(a) THEN a[i] ELSE b[i - Len(a)]
  BY ConcatProperties DEF Bytes
<1>2. Len(a) \in Nat /\ Len(b) \in Nat
  BY LenProperties DEF Bytes
<1> QED
  BY <1>1, <1>2 DEF Lies, Bytes

(* What lies in a part lies in the whole. *)
LEMMA AtWithin ==
    ASSUME NEW data \in Bytes, NEW s \in Bytes, NEW t \in Bytes, NEW o, NEW p,
           Lies(data, o, s), Lies(s, p, t)
    PROVE  Lies(data, o + p, t)
<1>1. Len(s) \in Nat /\ Len(t) \in Nat /\ Len(data) \in Nat
  BY LenProperties DEF Bytes
<1>2. o \in Nat /\ p \in Nat
  BY DEF Lies
<1>3. ASSUME NEW i \in 1 .. Len(t) PROVE data[o + p + i] = t[i]
  <2>1. p + i \in 1 .. Len(s) /\ s[p + i] = t[i]
    BY <1>1, <1>2 DEF Lies
  <2>2. data[o + (p + i)] = s[p + i]
    BY <2>1 DEF Lies
  <2>3. o + (p + i) = o + p + i
    BY <1>1, <1>2
  <2> QED
    BY <2>1, <2>2, <2>3
<1>4. o + p + Len(t) <= Len(data) /\ o + p \in Nat
  BY <1>1, <1>2 DEF Lies
<1> QED
  BY <1>3, <1>4 DEF Lies

(* What lies in the first part keeps its offset when a part is added. *)
LEMMA AtLeft ==
    ASSUME NEW a \in Bytes, NEW b \in Bytes, NEW s \in Bytes, NEW o, Lies(a, o, s)
    PROVE  Lies(a \o b, o, s)
<1>1. a \o b \in Bytes /\ Lies(a \o b, 0, a)
  BY AtEnds
<1>2. Lies(a \o b, 0 + o, s)
  BY <1>1, AtWithin
<1>3. 0 + o = o
  BY DEF Lies
<1> QED
  BY <1>2, <1>3

LEMMA AtRight ==
    ASSUME NEW a \in Bytes, NEW b \in Bytes, NEW s \in Bytes, NEW o, Lies(b, o, s)
    PROVE  Lies(a \o b, Len(a) + o, s)
<1>1. a \o b \in Bytes /\ Lies(a \o b, Len(a), b)
  BY AtEnds
<1>2. \A c \in Bytes : Lies(c, Len(a), b) => Lies(c, Len(a) + o, s)
  BY AtWithin
<1> QED
  BY <1>1, <1>2

(* A slice of its length is what lies there. *)
LEMMA AtSlice ==
    ASSUME NEW data \in Bytes, NEW s \in Bytes, NEW o, Lies(data, o, s)
    PROVE  Slice(data, o, Len(s)) = s
<1>1. Len(s) \in Nat /\ Len(data) \in Nat /\ o \in Nat
  BY LenProperties DEF Bytes, Lies
<1> DEFINE m == o + 1
           k == o + Len(s)
<1>2. m \in Int /\ k \in Int /\ \A i \in m .. k : data[i] \in Nat
  BY <1>1, ElementOfSeq DEF Lies, Bytes
<1>3. (m <= k => k - m + 1 = Len(s)) /\ (~(m <= k) => Len(s) = 0) /\ k - m + 1 = Len(s)
      /\ \A i \in 1 .. Len(s) : data[m + i - 1] = s[i]
  <2>1. ASSUME NEW i \in 1 .. Len(s) PROVE data[m + i - 1] = s[i]
    <3>1. m + i - 1 = o + i
      BY <1>1
    <3> QED
      BY <3>1 DEF Lies
  <2> QED
    BY <1>1, <2>1
<1>4. Slice(data, o, Len(s)) = SubSeq(data, m, k)
  BY DEF Slice
<1> HIDE DEF m, k
<1>5. /\ SubSeq(data, m, k) \in Seq(Nat)
      /\ Len(SubSeq(data, m, k)) = IF m <= k THEN k - m + 1 ELSE 0
      /\ \A i \in 1 .. k - m + 1 : SubSeq(data, m, k)[i] = data[m + i - 1]
  BY <1>2, SubSeqProperties
<1>6. Len(SubSeq(data, m, k)) = Len(s)
  BY <1>3, <1>5
<1>7. \A i \in 1 .. Len(s) : SubSeq(data, m, k)[i] = s[i]
  BY <1>3, <1>5
<1> QED
  BY <1>4, <1>5, <1>6, <1>7, SeqEqual DEF Bytes

(* Words. *)

LEMMA ZerosAre ==
    ASSUME NEW n \in Nat
    PROVE  Zeros(n) \in Bytes /\ Len(Zeros(n)) = n /\ \A i \in 1 .. n : Zeros(n)[i] = 0
<1>1. Zeros(n) \in [1 .. n -> Nat]
  BY DEF Zeros
<1>2. Zeros(n) \in Seq(Nat)
  BY <1>1, SeqDef
<1>3. Len(Zeros(n)) = n
  BY <1>2, LenProperties DEF Zeros
<1> QED
  BY <1>2, <1>3 DEF Bytes, Zeros

(* A number is in the last cell of its word, below zeros. *)
LEMMA WordIs ==
    ASSUME NEW v \in Nat
    PROVE  Word(v) \in Bytes /\ Len(Word(v)) = W /\ Word(v)[W] = v
           /\ \A i \in 1 .. W - 1 : Word(v)[i] = 0
<1>1. W - 1 \in Nat /\ v # Huge
  BY MulticallAssumption
<1>2. /\ Zeros(W - 1) \in Bytes /\ Len(Zeros(W - 1)) = W - 1
      /\ \A i \in 1 .. W - 1 : Zeros(W - 1)[i] = 0
  BY <1>1, ZerosAre
<1>3. <<v>> \in Seq(Nat) /\ Len(<<v>>) = 1 /\ <<v>>[1] = v
  OBVIOUS
<1>4. Word(v) = Zeros(W - 1) \o <<v>>
  BY <1>1 DEF Word
<1>5. /\ Word(v) \in Bytes /\ Len(Word(v)) = (W - 1) + 1
      /\ \A i \in 1 .. (W - 1) + 1 :
           Word(v)[i] = IF i <= W - 1 THEN Zeros(W - 1)[i] ELSE <<v>>[i - (W - 1)]
  BY <1>2, <1>3, <1>4, ConcatProperties DEF Bytes
<1>6. Word(v)[W] = v
  <2>1. W \in 1 .. (W - 1) + 1 /\ ~(W <= W - 1) /\ W - (W - 1) = 1
    BY <1>1, MulticallAssumption
  <2> QED
    BY <1>3, <1>5, <2>1
<1>7. \A i \in 1 .. W - 1 : Word(v)[i] = 0
  BY <1>1, <1>2, <1>5
<1> QED
  BY <1>5, <1>6, <1>7, MulticallAssumption

(* The word of a number that does not fit in half a word. *)
LEMMA HugeWord ==
    Word(Huge) \in Bytes /\ Len(Word(Huge)) = W /\ Word(Huge)[1] = 1
<1>1. W - 1 \in Nat
  BY MulticallAssumption
<1>2. Zeros(W - 1) \in Bytes /\ Len(Zeros(W - 1)) = W - 1
  BY <1>1, ZerosAre
<1>3. <<1>> \in Seq(Nat) /\ Len(<<1>>) = 1 /\ <<1>>[1] = 1
  OBVIOUS
<1>4. Word(Huge) = <<1>> \o Zeros(W - 1)
  BY DEF Word
<1>5. /\ Word(Huge) \in Bytes /\ Len(Word(Huge)) = 1 + (W - 1)
      /\ \A i \in 1 .. 1 + (W - 1) :
           Word(Huge)[i] = IF i <= 1 THEN <<1>>[i] ELSE Zeros(W - 1)[i - 1]
  BY <1>2, <1>3, <1>4, ConcatProperties DEF Bytes
<1>6. Word(Huge)[1] = 1
  <2>1. 1 \in 1 .. 1 + (W - 1)
    BY <1>1
  <2> QED
    BY <1>3, <1>5, <2>1
<1> QED
  BY <1>5, <1>6, MulticallAssumption

(* A number is read back where its word lies. *)
LEMMA AtWord ==
    ASSUME NEW data \in Bytes, NEW v \in Nat, NEW o, Lies(data, o, Word(v))
    PROVE  WordAt(data, o) = v
<1>1. Len(Word(v)) = W /\ Word(v)[W] = v /\ W \in 1 .. W
  BY WordIs, MulticallAssumption
<1> QED
  BY <1>1 DEF Lies, WordAt

(* Data of any length, with its length before it. *)

LEMMA EncodedBytes ==
    ASSUME NEW d \in Bytes
    PROVE  /\ EncodeBytes(d) \in Bytes
           /\ Len(EncodeBytes(d)) = W + Len(d) + Padding(Len(d)) /\ Padding(Len(d)) \in Nat
           /\ Lies(EncodeBytes(d), 0, Word(Len(d))) /\ Lies(EncodeBytes(d), W, d)
<1>1. Len(d) \in Nat
  BY LenProperties DEF Bytes
<1>2. Padding(Len(d)) \in Nat
  <2>1. Len(d) % W \in 0 .. W - 1
    BY <1>1, MulticallAssumption
  <2>2. W - (Len(d) % W) \in Nat
    BY <2>1, MulticallAssumption
  <2> QED
    BY <2>2, MulticallAssumption DEF Padding
<1> DEFINE word == Word(Len(d))
           zeros == Zeros(Padding(Len(d)))
<1>3. word \in Bytes /\ Len(word) = W /\ zeros \in Bytes /\ Len(zeros) = Padding(Len(d))
  BY <1>1, <1>2, WordIs, ZerosAre
<1>4. EncodeBytes(d) = (word \o d) \o zeros
  BY DEF EncodeBytes
<1> HIDE DEF word, zeros
<1>5. /\ word \o d \in Bytes /\ Len(word \o d) = W + Len(d)
      /\ Lies(word \o d, 0, word) /\ Lies(word \o d, W, d)
  BY <1>3, AtEnds
<1>6. /\ (word \o d) \o zeros \in Bytes /\ Len((word \o d) \o zeros) = W + Len(d) + Padding(Len(d))
  BY <1>3, <1>5, AtEnds
<1>7. Lies((word \o d) \o zeros, 0, word) /\ Lies((word \o d) \o zeros, W, d)
  BY <1>3, <1>5, AtLeft
<1> QED
  BY <1>2, <1>4, <1>6, <1>7 DEF word

(* Data that is encoded at the offset that a tuple names is what is read of it. *)
LEMMA BytesRead ==
    ASSUME NEW data \in Bytes, NEW tuple \in Bytes, NEW d \in Bytes, NEW o, NEW p \in Nat,
           NEW word \in Nat, Lies(data, o, tuple),
           Lies(tuple, W * word, Word(p)), Lies(tuple, p, EncodeBytes(d))
    PROVE  BytesOf(data, o, word) = d
<1>1. Word(p) \in Bytes /\ Len(d) \in Nat /\ Word(Len(d)) \in Bytes /\ o \in Nat
  BY WordIs, LenProperties DEF Bytes, Lies
<1>2. /\ EncodeBytes(d) \in Bytes
      /\ Lies(EncodeBytes(d), 0, Word(Len(d))) /\ Lies(EncodeBytes(d), W, d)
  BY EncodedBytes
<1>3. WordAt(data, o + W * word) = p
  <2>1. Lies(data, o + W * word, Word(p))
    BY <1>1, AtWithin
  <2> QED
    BY <2>1, AtWord
<1>4. Lies(data, o + p, EncodeBytes(d))
  BY <1>2, AtWithin
<1>5. WordAt(data, o + p) = Len(d)
  <2>1. Lies(data, (o + p) + 0, Word(Len(d)))
    BY <1>1, <1>2, <1>4, AtWithin
  <2>2. (o + p) + 0 = o + p
    BY <1>1
  <2> QED
    BY <1>1, <2>1, <2>2, AtWord
<1>6. Slice(data, (o + p) + W, Len(d)) = d
  <2>1. Lies(data, (o + p) + W, d)
    BY <1>2, <1>4, AtWithin
  <2> QED
    BY <2>1, AtSlice
<1> QED
  BY <1>3, <1>5, <1>6 DEF BytesOf

(* The loop that writes sequences one after the other. *)

IsFlat(f, seqs) ==
    f = [i \in 1 .. Len(seqs) |-> IF i = 1 THEN seqs[i] ELSE f[i - 1] \o seqs[i]]

IsRunning(f, bodies) ==
    f = [k \in DOMAIN bodies |->
            IF k = 1 THEN W * Len(bodies) ELSE f[k - 1] + Len(bodies[k - 1])]

(* FlattenSeq as a function on the lengths, to be reasoned about by induction. *)
LEMMA Flat ==
    ASSUME NEW bodies \in Seq(Bytes), Len(bodies) # 0
    PROVE  \E f : IsFlat(f, bodies) /\ f \in [1 .. Len(bodies) -> Bytes]
                 /\ FlattenSeq(bodies) = f[Len(bodies)]
<1> DEFINE n == Len(bodies)
<1>1. n \in Nat \ {0} /\ \A i \in 1 .. n : bodies[i] \in Bytes
  BY LenProperties, ElementOfSeq
<1> DEFINE step == [p \in Nat \X Bytes |-> IF p[1] + 2 <= n THEN p[2] \o bodies[p[1] + 2] ELSE p[2]]
<1>2. IsStep(step, Bytes)
  <2>1. ASSUME NEW p \in Nat \X Bytes
        PROVE  (IF p[1] + 2 <= n THEN p[2] \o bodies[p[1] + 2] ELSE p[2]) \in Bytes
    <3>1. p[1] \in Nat /\ p[2] \in Bytes
      OBVIOUS
    <3>2. CASE p[1] + 2 <= n
      <4>1. bodies[p[1] + 2] \in Bytes
        BY <1>1, <3>1, <3>2
      <4> QED
        BY <3>1, <3>2, <4>1, AtEnds
    <3> QED
      BY <3>1, <3>2
  <2> QED
    BY <2>1 DEF IsStep
<1>3. bodies[1] \in Bytes
  BY <1>1
<1>4. PICK g : IsRecursion(g, Bytes, bodies[1], step)
  <2> HIDE DEF step
  <2> QED
    BY <1>2, <1>3, Recursion
<1> DEFINE f == [i \in 1 .. n |-> g[i - 1]]
<1>5. f \in [1 .. n -> Bytes]
  <2>1. \A i \in 1 .. n : i - 1 \in Nat
    BY <1>1
  <2> QED
    BY <1>4, <2>1 DEF IsRecursion
<1>6. ASSUME NEW i \in 1 .. n
      PROVE  f[i] = IF i = 1 THEN bodies[i] ELSE f[i - 1] \o bodies[i]
  <2>1. CASE i = 1
    BY <1>4, <2>1 DEF IsRecursion
  <2>2. CASE i # 1
    <3>1. i - 2 \in Nat /\ (i - 2) + 1 = i - 1 /\ (i - 1) - 1 = i - 2 /\ i - 1 \in 1 .. n /\ (i - 2) + 2 = i
          /\ i <= n
      BY <1>1, <2>2
    <3>2. g[i - 1] = step[<<i - 2, g[i - 2]>>] /\ g[i - 2] \in Bytes
      <4> HIDE DEF step
      <4> QED
        BY <1>4, <3>1 DEF IsRecursion
    <3>3. step[<<i - 2, g[i - 2]>>] = g[i - 2] \o bodies[i]
      BY <3>1, <3>2
    <3> QED
      BY <2>2, <3>1, <3>2, <3>3
  <2> QED
    BY <2>1, <2>2
<1>7. IsFlat(f, bodies)
  BY <1>6 DEF IsFlat
<1> HIDE DEF f
<1> DEFINE c == CHOOSE h : IsFlat(h, bodies)
<1>8. IsFlat(c, bodies)
  BY <1>7
<1>9. FlattenSeq(bodies) = c[Len(bodies)]
  BY <1>1 DEF FlattenSeq, IsFlat
<1> HIDE DEF c
<1>10. \A i \in 1 .. n : c[i] = f[i]
  <2> DEFINE U == {m \in Nat : m + 1 <= n => c[m + 1] = f[m + 1]}
  <2>1. 0 \in U
    BY <1>1, <1>7, <1>8 DEF IsFlat
  <2>2. ASSUME NEW m \in Nat, m \in U PROVE m + 1 \in U
    <3>1. CASE m + 2 <= n
      <4>1. c[m + 1] = f[m + 1] /\ (m + 2) - 1 = m + 1 /\ m + 2 # 1 /\ m + 2 \in 1 .. n
            /\ (m + 1) + 1 = m + 2
        BY <2>2, <3>1
      <4>2. c[m + 2] = c[(m + 2) - 1] \o bodies[m + 2]
        BY <1>8, <4>1 DEF IsFlat
      <4>3. f[m + 2] = f[(m + 2) - 1] \o bodies[m + 2]
        BY <1>7, <4>1 DEF IsFlat
      <4>4. c[m + 2] = f[m + 2]
        <5>1. c[(m + 2) - 1] = f[(m + 2) - 1]
          BY <4>1
        <5> QED
          BY <4>2, <4>3, <5>1, Zenon
      <4> QED
        BY <4>1, <4>4
    <3> QED
      BY <3>1
  <2>3. \A m \in Nat : m \in U
    <3> HIDE DEF U
    <3> QED
      BY <2>1, <2>2, NatSet
  <2>4. ASSUME NEW i \in 1 .. n PROVE c[i] = f[i]
    <3>1. i - 1 \in Nat /\ (i - 1) + 1 = i /\ (i - 1) + 1 <= n
      BY <1>1
    <3> QED
      BY <2>3, <3>1
  <2> QED
    BY <2>4
<1>11. n \in 1 .. n
  BY <1>1
<1> QED
  BY <1>5, <1>7, <1>9, <1>10, <1>11

(* The running offsets of the encoder are numbers with the loop's equation. *)
LEMMA RunningOffsets ==
    ASSUME NEW bodies \in Seq(Bytes), Len(bodies) # 0
    PROVE  /\ IsRunning(Offsets(bodies), bodies)
           /\ \A k \in 1 .. Len(bodies) : Offsets(bodies)[k] \in Nat
<1> DEFINE n == Len(bodies)
           first == W * Len(bodies)
<1>1. n \in Nat \ {0} /\ DOMAIN bodies = 1 .. n /\ first \in Nat
      /\ \A k \in 1 .. n : Len(bodies[k]) \in Nat
  BY LenProperties, ElementOfSeq, MulticallAssumption DEF Bytes
<1> DEFINE step == [p \in Nat \X Nat |-> IF p[1] + 1 <= n THEN p[2] + Len(bodies[p[1] + 1]) ELSE p[2]]
<1>2. IsStep(step, Nat)
  <2>1. ASSUME NEW p \in Nat \X Nat
        PROVE  (IF p[1] + 1 <= n THEN p[2] + Len(bodies[p[1] + 1]) ELSE p[2]) \in Nat
    <3>1. p[1] \in Nat /\ p[2] \in Nat
      OBVIOUS
    <3>2. CASE p[1] + 1 <= n
      <4>1. Len(bodies[p[1] + 1]) \in Nat
        BY <1>1, <3>1, <3>2
      <4> QED
        BY <3>1, <3>2, <4>1
    <3> QED
      BY <3>1, <3>2
  <2> QED
    BY <2>1 DEF IsStep
<1> HIDE DEF first
<1>3. PICK g : IsRecursion(g, Nat, first, step)
  <2> HIDE DEF step
  <2> QED
    BY <1>1, <1>2, Recursion
<1> DEFINE f == [k \in DOMAIN bodies |-> g[k - 1]]
<1>4. ASSUME NEW k \in DOMAIN bodies
      PROVE  f[k] = IF k = 1 THEN first ELSE f[k - 1] + Len(bodies[k - 1])
  <2>1. CASE k = 1
    BY <1>3, <2>1 DEF IsRecursion
  <2>2. CASE k # 1
    <3>1. k - 2 \in Nat /\ (k - 2) + 1 = k - 1 /\ (k - 1) - 1 = k - 2 /\ k - 1 \in 1 .. n
      BY <1>1, <2>2
    <3>2. g[k - 1] = step[<<k - 2, g[k - 2]>>] /\ g[k - 2] \in Nat
      <4> HIDE DEF step
      <4> QED
        BY <1>3, <3>1 DEF IsRecursion
    <3>3. step[<<k - 2, g[k - 2]>>] = g[k - 2] + Len(bodies[k - 1])
      BY <3>1, <3>2
    <3> QED
      BY <1>1, <2>2, <3>1, <3>2, <3>3
  <2> QED
    BY <2>1, <2>2
<1>5. IsRunning(f, bodies)
  BY <1>4 DEF IsRunning, first
<1> HIDE DEF f
<1>6. IsRunning(Offsets(bodies), bodies)
  <2>1. IsRunning(CHOOSE h : IsRunning(h, bodies), bodies)
    BY <1>5
  <2> QED
    BY <2>1 DEF Offsets, IsRunning
<1>7. ASSUME NEW k \in 1 .. n PROVE Offsets(bodies)[k] \in Nat
  <2> DEFINE r == Offsets(bodies)
             U == {m \in Nat : m + 1 <= n => r[m + 1] \in Nat}
  <2> HIDE DEF r
  <2>0. r = [i \in 1 .. n |-> IF i = 1 THEN first ELSE r[i - 1] + Len(bodies[i - 1])]
    BY <1>1, <1>6 DEF IsRunning, first, r
  <2>1. 0 \in U
    BY <1>1, <2>0
  <2>2. ASSUME NEW m \in Nat, m \in U PROVE m + 1 \in U
    <3>1. CASE m + 2 <= n
      <4>1. r[m + 1] \in Nat /\ (m + 2) - 1 = m + 1 /\ m + 2 # 1 /\ m + 2 \in 1 .. n
            /\ m + 1 \in 1 .. n /\ (m + 1) + 1 = m + 2
        BY <2>2, <3>1
      <4>2. r[m + 2] = r[m + 1] + Len(bodies[m + 1])
        BY <2>0, <4>1
      <4> QED
        BY <1>1, <4>1, <4>2
    <3> QED
      BY <3>1
  <2>3. k - 1 \in Nat /\ (k - 1) + 1 = k /\ k <= n
    BY <1>1
  <2>4. k - 1 \in U
    <3> HIDE DEF U
    <3> QED
      BY <2>1, <2>2, <2>3, NatSet
  <2> QED
    BY <2>3, <2>4 DEF r
<1> QED
  BY <1>6, <1>7

(* Each of the sequences lies where the running offset says. *)
LEMMA FlatLies ==
    ASSUME NEW bodies \in Seq(Bytes), Len(bodies) # 0
    PROVE  /\ FlattenSeq(bodies) \in Bytes
           /\ \A k \in 1 .. Len(bodies) :
                 Lies(FlattenSeq(bodies), Offsets(bodies)[k] - W * Len(bodies), bodies[k])
           /\ Len(FlattenSeq(bodies))
                 = Offsets(bodies)[Len(bodies)] - W * Len(bodies) + Len(bodies[Len(bodies)])
<1> DEFINE n == Len(bodies)
           first == W * Len(bodies)
           r == Offsets(bodies)
<1>1. n \in Nat \ {0} /\ DOMAIN bodies = 1 .. n /\ first \in Nat
      /\ \A k \in 1 .. n : bodies[k] \in Bytes /\ Len(bodies[k]) \in Nat
  BY LenProperties, ElementOfSeq, MulticallAssumption DEF Bytes
<1>2. IsRunning(r, bodies) /\ \A k \in 1 .. n : r[k] \in Nat
  BY RunningOffsets
<1>3. PICK f : IsFlat(f, bodies) /\ f \in [1 .. n -> Bytes] /\ FlattenSeq(bodies) = f[n]
  BY Flat
<1> DEFINE Right(m) == /\ Len(f[m]) = r[m] - first + Len(bodies[m])
                       /\ \A k \in 1 .. m : Lies(f[m], r[k] - first, bodies[k])
           U == {m \in Nat : m + 1 <= n => Right(m + 1)}
<1>4. /\ \A k \in 1 .. n : r[k] = IF k = 1 THEN first ELSE r[k - 1] + Len(bodies[k - 1])
      /\ \A k \in 1 .. n : f[k] = IF k = 1 THEN bodies[k] ELSE f[k - 1] \o bodies[k]
  BY <1>1, <1>2, <1>3 DEF IsRunning, IsFlat
<1> HIDE DEF r, first
<1>5. 0 \in U
  <2>1. f[1] = bodies[1] /\ r[1] = first /\ r[1] - first = 0 /\ bodies[1] \in Bytes /\ Len(bodies[1]) \in Nat
    BY <1>1, <1>4
  <2>2. Lies(bodies[1], 0, bodies[1])
    BY <2>1 DEF Lies
  <2>3. Len(f[1]) = r[1] - first + Len(bodies[1])
    BY <2>1
  <2>4. \A k \in 1 .. 1 : Lies(f[1], r[k] - first, bodies[k])
    <3>1. \A k \in 1 .. 1 : k = 1
      OBVIOUS
    <3> QED
      BY <2>1, <2>2, <3>1
  <2> QED
    BY <2>3, <2>4
<1>6. ASSUME NEW m \in Nat, m \in U PROVE m + 1 \in U
  <2>1. CASE m + 2 <= n
    <3>1. /\ (m + 2) - 1 = m + 1 /\ m + 2 # 1 /\ m + 2 \in 1 .. n /\ m + 1 \in 1 .. n
          /\ (m + 1) + 1 = m + 2 /\ m + 1 <= n
      BY <2>1
    <3>2. Right(m + 1)
      BY <1>6, <3>1
    <3>3. f[m + 2] = f[m + 1] \o bodies[m + 2] /\ r[m + 2] = r[m + 1] + Len(bodies[m + 1])
      BY <1>4, <3>1
    <3>4. f[m + 1] \in Bytes /\ bodies[m + 2] \in Bytes /\ r[m + 1] \in Nat /\ r[m + 2] \in Nat
          /\ Len(bodies[m + 1]) \in Nat /\ Len(bodies[m + 2]) \in Nat
      BY <1>1, <1>2, <1>3, <3>1
    <3>5. Len(f[m + 1]) = r[m + 2] - first
      BY <1>1, <3>2, <3>3, <3>4
    <3>6. /\ Len(f[m + 2]) = Len(f[m + 1]) + Len(bodies[m + 2])
          /\ Lies(f[m + 2], Len(f[m + 1]), bodies[m + 2])
      BY <3>3, <3>4, AtEnds
    <3>7. ASSUME NEW k \in 1 .. m + 2 PROVE Lies(f[m + 2], r[k] - first, bodies[k])
      <4>1. CASE k = m + 2
        BY <3>5, <3>6, <4>1
      <4>2. CASE k # m + 2
        <5>1. k \in 1 .. m + 1 /\ k \in 1 .. n
          BY <2>1, <4>2
        <5>2. Lies(f[m + 1], r[k] - first, bodies[k]) /\ bodies[k] \in Bytes
          BY <1>1, <3>2, <5>1
        <5> QED
          BY <3>3, <3>4, <5>2, AtLeft
      <4> QED
        BY <4>1, <4>2
    <3>8. Right(m + 2)
      BY <3>5, <3>6, <3>7
    <3> HIDE DEF Right
    <3> QED
      BY <3>1, <3>8
  <2> QED
    BY <2>1
<1>7. Right(n)
  <2>1. n - 1 \in Nat /\ (n - 1) + 1 = n
    BY <1>1
  <2>2. n - 1 \in U
    <3> HIDE DEF U
    <3> QED
      BY <1>5, <1>6, <2>1, NatSet
  <2> HIDE DEF Right, n
  <2>3. n <= n => Right(n)
    BY <2>1, <2>2
  <2> QED
    BY <1>1, <2>3
<1>8. f[n] \in Bytes
  BY <1>1, <1>3
<1> QED
  BY <1>3, <1>7, <1>8 DEF r, first

(* Words one after the other. *)
LEMMA WordsLie ==
    ASSUME NEW n \in Nat \ {0}, NEW x \in [1 .. n -> Nat]
    PROVE  LET words == [k \in 1 .. n |-> Word(x[k])] IN
           /\ FlattenSeq(words) \in Bytes /\ Len(FlattenSeq(words)) = W * n
           /\ \A k \in 1 .. n : Lies(FlattenSeq(words), W * (k - 1), Word(x[k]))
<1> DEFINE words == [k \in 1 .. n |-> Word(x[k])]
           r == Offsets(words)
<1>1. \A k \in 1 .. n : Word(x[k]) \in Bytes /\ Len(Word(x[k])) = W
  BY WordIs
<1>2. words \in Seq(Bytes) /\ Len(words) = n
  <2>1. words \in [1 .. n -> Bytes]
    BY <1>1
  <2> HIDE DEF words
  <2>2. words \in Seq(Bytes)
    BY <2>1, SeqDef
  <2> QED
    BY <2>1, <2>2, LenProperties
<1>3. \A k \in 1 .. n : words[k] = Word(x[k]) /\ Len(words[k]) = W
  BY <1>1
<1> HIDE DEF words
<1>4. IsRunning(r, words) /\ DOMAIN words = 1 .. n
  BY <1>2, RunningOffsets, LenProperties
<1>5. \A k \in 1 .. n : r[k] = IF k = 1 THEN W * n ELSE r[k - 1] + Len(words[k - 1])
  BY <1>2, <1>4 DEF IsRunning
<1> HIDE DEF r
<1>6. \A k \in 1 .. n : r[k] = W * n + W * (k - 1)
  <2> DEFINE U == {m \in Nat : m + 1 <= n => r[m + 1] = W * n + W * m}
  <2>1. 0 \in U
    BY <1>5, MulticallAssumption
  <2>2. ASSUME NEW m \in Nat, m \in U PROVE m + 1 \in U
    <3>1. CASE m + 2 <= n
      <4>1. r[m + 1] = W * n + W * m /\ (m + 2) - 1 = m + 1 /\ m + 2 # 1 /\ m + 2 \in 1 .. n
            /\ m + 1 \in 1 .. n /\ (m + 1) + 1 = m + 2
        BY <2>2, <3>1
      <4>2. r[m + 2] = r[m + 1] + W
        BY <1>3, <1>5, <4>1
      <4>3. W * n + W * m + W = W * n + W * (m + 1)
        BY MulticallAssumption
      <4> QED
        BY <4>1, <4>2, <4>3
    <3> QED
      BY <3>1
  <2>3. ASSUME NEW k \in 1 .. n PROVE r[k] = W * n + W * (k - 1)
    <3>1. k - 1 \in Nat /\ (k - 1) + 1 = k /\ k <= n
      OBVIOUS
    <3>2. k - 1 \in U
      <4> HIDE DEF U
      <4> QED
        BY <2>1, <2>2, <3>1, NatSet
    <3> QED
      BY <3>1, <3>2
  <2> QED
    BY <2>3
<1>7. /\ FlattenSeq(words) \in Bytes
      /\ \A k \in 1 .. n : Lies(FlattenSeq(words), r[k] - W * n, words[k])
      /\ Len(FlattenSeq(words)) = r[n] - W * n + Len(words[n])
  BY <1>2, FlatLies DEF r
<1>8. \A k \in 1 .. n : r[k] - W * n = W * (k - 1)
  <2>1. ASSUME NEW k \in 1 .. n PROVE r[k] - W * n = W * (k - 1)
    <3>1. W * n \in Nat /\ W * (k - 1) \in Nat
      BY MulticallAssumption
    <3> QED
      BY <1>6, <3>1
  <2> QED
    BY <2>1
<1>9. W * (n - 1) + W = W * n
  BY MulticallAssumption
<1>10. n \in 1 .. n
  OBVIOUS
<1> QED
  BY <1>3, <1>7, <1>8, <1>9, <1>10 DEF words

(* An array: its elements are where the offsets lead. *)
LEMMA ArrayRead ==
    ASSUME NEW bodies \in Seq(Bytes), Len(bodies) # 0
    PROVE  LET data == EncodeArray(bodies) IN
           /\ data \in Bytes /\ Len(data) >= 2 * W
           /\ WordAt(data, 0) = W /\ WordAt(data, W) = Len(bodies)
           /\ \A k \in 1 .. Len(bodies) : Lies(data, Element(data, W, k), bodies[k])
<1> DEFINE n == Len(bodies)
           r == Offsets(bodies)
           top == Word(W) \o Word(n)
           heads == FlattenSeq([k \in 1 .. n |-> Word(r[k])])
           flat == FlattenSeq(bodies)
           data == EncodeArray(bodies)
<1>1. n \in Nat \ {0} /\ DOMAIN bodies = 1 .. n /\ W \in Nat /\ \A k \in 1 .. n : bodies[k] \in Bytes
  BY LenProperties, ElementOfSeq, MulticallAssumption
<1>2. IsRunning(r, bodies) /\ \A k \in 1 .. n : r[k] \in Nat
  BY RunningOffsets
<1>3. r \in [1 .. n -> Nat]
  BY <1>1, <1>2 DEF IsRunning
<1>4. data = top \o (heads \o flat)
  BY <1>1 DEF EncodeArray, WithOffsets
<1>5. heads \in Bytes /\ Len(heads) = W * n /\ \A k \in 1 .. n : Lies(heads, W * (k - 1), Word(r[k]))
  <2> HIDE DEF r, n
  <2> QED
    BY <1>1, <1>3, WordsLie
<1>6. flat \in Bytes /\ \A k \in 1 .. n : Lies(flat, r[k] - W * n, bodies[k])
  BY FlatLies
<1>7. Word(W) \in Bytes /\ Len(Word(W)) = W /\ Word(n) \in Bytes /\ Len(Word(n)) = W
      /\ \A k \in 1 .. n : Word(r[k]) \in Bytes
  BY <1>1, <1>2, WordIs
<1> HIDE DEF heads, flat, data, r, n
<1>8. top \in Bytes /\ Len(top) = 2 * W /\ Lies(top, 0, Word(W)) /\ Lies(top, W, Word(n))
  BY <1>7, AtEnds, MulticallAssumption
<1> HIDE DEF top
<1>9. heads \o flat \in Bytes
  BY <1>5, <1>6, AtEnds
<1>10. data \in Bytes /\ Lies(data, 0, Word(W)) /\ Lies(data, W, Word(n)) /\ Len(data) >= 2 * W
  <2>1. Len(heads \o flat) \in Nat
    BY <1>9, LenProperties DEF Bytes
  <2> QED
    BY <1>1, <1>4, <1>7, <1>8, <1>9, <2>1, AtEnds, AtLeft
<1>11. WordAt(data, 0) = W /\ WordAt(data, W) = n
  BY <1>1, <1>10, AtWord
<1>12. ASSUME NEW k \in 1 .. n PROVE Lies(data, Element(data, W, k), bodies[k])
  <2>1. Lies(heads \o flat, W * (k - 1), Word(r[k]))
    BY <1>5, <1>6, <1>7, AtLeft
  <2>2. Lies(data, 2 * W + W * (k - 1), Word(r[k]))
    BY <1>4, <1>7, <1>8, <1>9, <2>1, AtRight
  <2>3. 2 * W + W * (k - 1) = W + W * k
    BY <1>1
  <2>4. WordAt(data, W + W * k) = r[k]
    BY <1>2, <1>10, <2>2, <2>3, AtWord
  <2>5. Lies(heads \o flat, W * n + (r[k] - W * n), bodies[k])
    BY <1>1, <1>5, <1>6, AtRight
  <2>6. Lies(data, 2 * W + (W * n + (r[k] - W * n)), bodies[k])
    BY <1>1, <1>4, <1>8, <1>9, <2>5, AtRight
  <2>7. 2 * W + (W * n + (r[k] - W * n)) = W + W + r[k]
    <3>1. W * n \in Nat
      BY <1>1
    <3> QED
      BY <1>1, <1>2, <3>1
  <2>8. Element(data, W, k) = W + W + r[k]
    BY <2>4 DEF Element
  <2> QED
    BY <2>6, <2>7, <2>8
<1> QED
  BY <1>10, <1>11, <1>12 DEF data, n

(* A tuple of three words, the last the offset of the bytes that follow them, *)
(* or of two.                                                                 *)
LEMMA EncodedCall ==
    ASSUME NEW call \in [target : Nat, data : Bytes]
    PROVE  /\ EncodeCall(call) \in Bytes
           /\ Lies(EncodeCall(call), 0, Word(call.target)) /\ Lies(EncodeCall(call), W, Word(0))
           /\ Lies(EncodeCall(call), W * 2, Word(3 * W))
           /\ Lies(EncodeCall(call), 3 * W, EncodeBytes(call.data))
<1> DEFINE a == Word(call.target)
           b == Word(0)
           c == Word(3 * W)
           d == EncodeBytes(call.data)
<1>1. W \in Nat /\ 3 * W \in Nat /\ call.target \in Nat /\ call.data \in Bytes
  BY MulticallAssumption
<1>2. /\ a \in Bytes /\ Len(a) = W /\ b \in Bytes /\ Len(b) = W /\ c \in Bytes /\ Len(c) = W
      /\ d \in Bytes
  BY <1>1, WordIs, EncodedBytes
<1>3. EncodeCall(call) = ((a \o b) \o c) \o d
  BY DEF EncodeCall, WordBool, AllowFailure
<1> HIDE DEF a, b, c, d
<1>4. a \o b \in Bytes /\ Len(a \o b) = W + W /\ Lies(a \o b, 0, a) /\ Lies(a \o b, W, b)
  BY <1>2, AtEnds
<1>5. /\ (a \o b) \o c \in Bytes /\ Len((a \o b) \o c) = W + W + W
      /\ Lies((a \o b) \o c, W + W, c)
  <2> DEFINE ab == a \o b
  <2>1. ab \in Bytes /\ Len(ab) = W + W
    BY <1>4
  <2> HIDE DEF ab
  <2>2. ab \o c \in Bytes /\ Len(ab \o c) = Len(ab) + Len(c) /\ Lies(ab \o c, Len(ab), c)
    BY <1>2, <2>1, AtEnds
  <2> QED
    BY <1>2, <2>1, <2>2 DEF ab
<1>6. Lies((a \o b) \o c, 0, a) /\ Lies((a \o b) \o c, W, b)
  BY <1>2, <1>4, AtLeft
<1>7. ((a \o b) \o c) \o d \in Bytes /\ Lies(((a \o b) \o c) \o d, W + W + W, d)
  BY <1>2, <1>5, AtEnds
<1>8. /\ Lies(((a \o b) \o c) \o d, 0, a) /\ Lies(((a \o b) \o c) \o d, W, b)
      /\ Lies(((a \o b) \o c) \o d, W + W, c)
  BY <1>2, <1>5, <1>6, AtLeft
<1>9. W + W + W = 3 * W /\ W + W = W * 2
  BY <1>1
<1> QED
  BY <1>3, <1>7, <1>8, <1>9 DEF a, b, c, d

(* The same of the two words of a result. *)
LEMMA EncodedResult ==
    ASSUME NEW bytes \in Bytes, bytes # Reverted
    PROVE  /\ EncodeResult(bytes) \in Bytes
           /\ Lies(EncodeResult(bytes), 0, Word(1)) /\ Lies(EncodeResult(bytes), W * 1, Word(2 * W))
           /\ Lies(EncodeResult(bytes), 2 * W, EncodeBytes(bytes))
<1> DEFINE a == Word(1)
           b == Word(2 * W)
           d == EncodeBytes(bytes)
<1>1. W \in Nat /\ 2 * W \in Nat
  BY MulticallAssumption
<1>2. a \in Bytes /\ Len(a) = W /\ b \in Bytes /\ Len(b) = W /\ d \in Bytes
  BY <1>1, WordIs, EncodedBytes
<1>3. EncodeResult(bytes) = (a \o b) \o d
  BY DEF EncodeResult, WordBool
<1> HIDE DEF a, b, d
<1>4. a \o b \in Bytes /\ Len(a \o b) = W + W /\ Lies(a \o b, 0, a) /\ Lies(a \o b, W, b)
  BY <1>2, AtEnds
<1>5. (a \o b) \o d \in Bytes /\ Lies((a \o b) \o d, W + W, d)
  BY <1>2, <1>4, AtEnds
<1>6. Lies((a \o b) \o d, 0, a) /\ Lies((a \o b) \o d, W, b)
  BY <1>2, <1>4, AtLeft
<1>7. W + W = 2 * W /\ W * 1 = W
  BY <1>1
<1> QED
  BY <1>3, <1>5, <1>6, <1>7 DEF a, b, d

(* What the encoder writes the contract reads. *)
LEMMA CallsRoundTrip ==
    ASSUME NEW calls \in Seq([target : Nat, data : Bytes]), Len(calls) # 0
    PROVE  /\ EncodeAggregate3(calls) # <<>> /\ Head(EncodeAggregate3(calls)) = Aggregate3
           /\ CallsIn(EncodeAggregate3(calls))
                = [k \in 1 .. Len(calls) |->
                     [target |-> calls[k].target, lenient |-> FALSE, data |-> calls[k].data]]
<1> DEFINE n == Len(calls)
           bodies == [k \in DOMAIN calls |-> EncodeCall(calls[k])]
           data == EncodeArray(bodies)
<1>1. n \in Nat \ {0} /\ DOMAIN calls = 1 .. n /\ W \in Nat
      /\ \A k \in 1 .. n : calls[k] \in [target : Nat, data : Bytes]
  BY LenProperties, ElementOfSeq, MulticallAssumption
<1>2. bodies \in Seq(Bytes) /\ Len(bodies) = n /\ \A k \in 1 .. n : bodies[k] = EncodeCall(calls[k])
  <2>1. bodies \in [1 .. n -> Bytes]
    BY <1>1, EncodedCall
  <2>2. \A k \in 1 .. n : bodies[k] = EncodeCall(calls[k])
    BY <1>1
  <2> HIDE DEF bodies
  <2>3. bodies \in Seq(Bytes)
    BY <1>1, <2>1, SeqDef
  <2> QED
    BY <1>1, <2>1, <2>2, <2>3, LenProperties
<1>3. EncodeAggregate3(calls) = <<Aggregate3>> \o data
  BY DEF EncodeAggregate3
<1> HIDE DEF bodies
<1>4. /\ data \in Bytes /\ WordAt(data, 0) = W /\ WordAt(data, W) = n
      /\ \A k \in 1 .. n : Lies(data, Element(data, W, k), bodies[k])
  BY <1>1, <1>2, ArrayRead
<1> HIDE DEF data
<1>5. /\ <<Aggregate3>> \o data # <<>> /\ Head(<<Aggregate3>> \o data) = Aggregate3
      /\ Tail(<<Aggregate3>> \o data) = data
  <2> DEFINE all == <<Aggregate3>> \o data
  <2>1. <<Aggregate3>> \in Seq(Nat) /\ Len(<<Aggregate3>>) = 1 /\ <<Aggregate3>>[1] = Aggregate3
        /\ Len(data) \in Nat
    BY <1>4, MulticallAssumption, LenProperties DEF Bytes
  <2>2. /\ all \in Seq(Nat) /\ Len(all) = 1 + Len(data)
        /\ \A i \in 1 .. 1 + Len(data) : all[i] = IF i <= 1 THEN <<Aggregate3>>[i] ELSE data[i - 1]
    BY <1>4, <2>1, ConcatProperties DEF Bytes
  <2> HIDE DEF all
  <2>3. all # <<>> /\ 1 \in 1 .. 1 + Len(data) /\ all[1] = Aggregate3
    BY <2>1, <2>2
  <2>4. Head(all) = Aggregate3
    BY <2>3
  <2>5. /\ Tail(all) \in Seq(Nat) /\ Len(Tail(all)) = Len(all) - 1
        /\ \A i \in 1 .. Len(Tail(all)) : Tail(all)[i] = all[i + 1]
    BY <2>2, <2>3, HeadTailProperties
  <2>6. Len(Tail(all)) = Len(data) /\ \A i \in 1 .. Len(Tail(all)) : Tail(all)[i] = data[i]
    BY <2>1, <2>2, <2>5
  <2>7. Tail(all) = data
    BY <1>4, <2>5, <2>6, SeqEqual DEF Bytes
  <2> QED
    BY <2>3, <2>4, <2>7 DEF all
<1>6. ASSUME NEW k \in 1 .. n
      PROVE  /\ WordAt(data, Element(data, W, k)) = calls[k].target
             /\ WordAt(data, Element(data, W, k) + W) = 0
             /\ BytesOf(data, Element(data, W, k), 2) = calls[k].data
  <2> DEFINE o == Element(data, W, k)
             body == EncodeCall(calls[k])
  <2>1. calls[k].target \in Nat /\ calls[k].data \in Bytes
    BY <1>1
  <2>2. Lies(data, o, body)
    BY <1>2, <1>4
  <2>3. /\ body \in Bytes
        /\ Lies(body, 0, Word(calls[k].target)) /\ Lies(body, W, Word(0))
        /\ Lies(body, W * 2, Word(3 * W))
        /\ Lies(body, 3 * W, EncodeBytes(calls[k].data))
    BY <1>1, EncodedCall
  <2> HIDE DEF o, body
  <2>4. Word(calls[k].target) \in Bytes /\ Word(0) \in Bytes /\ 3 * W \in Nat /\ o + 0 = o
    BY <1>1, <2>1, <2>2, WordIs DEF Lies
  <2>5. Lies(data, o + 0, Word(calls[k].target)) /\ Lies(data, o + W, Word(0))
    BY <1>4, <2>2, <2>3, <2>4, AtWithin
  <2>6. WordAt(data, o) = calls[k].target /\ WordAt(data, o + W) = 0
    BY <1>4, <2>1, <2>4, <2>5, AtWord
  <2>7. BytesOf(data, o, 2) = calls[k].data
    BY <1>4, <2>1, <2>2, <2>3, <2>4, BytesRead
  <2> QED
    BY <2>6, <2>7 DEF o
<1> DEFINE read == [k \in 1 .. n |->
                      [target |-> WordAt(data, Element(data, W, k)),
                       lenient |-> WordAt(data, Element(data, W, k) + W) # 0,
                       data |-> BytesOf(data, Element(data, W, k), 2)]]
<1>7. CallsIn(EncodeAggregate3(calls)) = read
  BY <1>3, <1>4, <1>5 DEF CallsIn
<1>8. \A k \in 1 .. n : read[k] = [target |-> calls[k].target, lenient |-> FALSE, data |-> calls[k].data]
  BY <1>6
<1> QED
  BY <1>3, <1>5, <1>7, <1>8

(* What the contract answers the decoder reads. *)
LEMMA AnswersRoundTrip ==
    ASSUME NEW n \in Nat \ {0}, NEW answers \in [1 .. n -> Bytes], \A k \in 1 .. n : answers[k] # Reverted
    PROVE  LET data == EncodeArray([k \in 1 .. n |-> EncodeResult(answers[k])]) IN
           Decodes(data) /\ Decoded(data) = answers /\ data \in Bytes /\ Len(data) >= 2 * W
<1> DEFINE bodies == [k \in 1 .. n |-> EncodeResult(answers[k])]
           data == EncodeArray(bodies)
<1>1. bodies \in Seq(Bytes) /\ Len(bodies) = n /\ \A k \in 1 .. n : bodies[k] = EncodeResult(answers[k])
  <2>1. bodies \in [1 .. n -> Bytes]
    BY EncodedResult
  <2>2. \A k \in 1 .. n : bodies[k] = EncodeResult(answers[k])
    OBVIOUS
  <2> HIDE DEF bodies
  <2>3. bodies \in Seq(Bytes)
    BY <2>1, SeqDef
  <2> QED
    BY <2>1, <2>2, <2>3, LenProperties
<1> HIDE DEF bodies
<1>2. /\ data \in Bytes /\ Len(data) >= 2 * W /\ WordAt(data, 0) = W /\ WordAt(data, W) = n
      /\ \A k \in 1 .. n : Lies(data, Element(data, W, k), bodies[k])
  BY <1>1, ArrayRead
<1> HIDE DEF data
<1>3. ASSUME NEW k \in 1 .. n
      PROVE  /\ WordAt(data, Element(data, W, k)) = 1
             /\ BytesOf(data, Element(data, W, k), 1) = answers[k]
  <2> DEFINE o == Element(data, W, k)
             body == EncodeResult(answers[k])
  <2>1. Lies(data, o, body) /\ answers[k] \in Bytes
    BY <1>1, <1>2
  <2>2. /\ body \in Bytes /\ Lies(body, 0, Word(1)) /\ Lies(body, W * 1, Word(2 * W))
        /\ Lies(body, 2 * W, EncodeBytes(answers[k]))
    BY EncodedResult
  <2> HIDE DEF o, body
  <2>3. Word(1) \in Bytes /\ 2 * W \in Nat /\ o + 0 = o
    BY <2>1, WordIs, MulticallAssumption DEF Lies
  <2>4. Lies(data, o + 0, Word(1))
    BY <1>2, <2>1, <2>2, <2>3, AtWithin
  <2>5. WordAt(data, o) = 1
    BY <1>2, <2>3, <2>4, AtWord
  <2>6. BytesOf(data, o, 1) = answers[k]
    BY <1>2, <2>1, <2>2, <2>3, BytesRead
  <2> QED
    BY <2>5, <2>6 DEF o
<1>4. Decodes(data)
  <2>1. InRange(data, 0, W)
    <3>1. Len(data) \in Nat
      BY <1>2, LenProperties DEF Bytes
    <3> QED
      BY <1>2, <3>1, MulticallAssumption DEF InRange
  <2>2. \A k \in 1 .. WordAt(data, WordAt(data, 0)) : Succeeded(data, k)
    BY <1>2, <1>3 DEF Succeeded
  <2> QED
    BY <2>1, <2>2 DEF Decodes
<1>5. Decoded(data) = answers
  <2>1. Decoded(data) = [k \in 1 .. n |-> BytesOf(data, Element(data, W, k), 1)]
    BY <1>2 DEF Decoded
  <2> QED
    BY <1>3, <2>1
<1> QED
  BY <1>2, <1>4, <1>5 DEF data, bodies

-----------------------------------------------------------------------------
(* The contracts. *)

(* No address is another's, and no selector another's of the same contract. *)
LEMMA Addresses ==
    /\ UniswapPair \in Nat /\ ThreePool \in Nat /\ NoCode \in Nat /\ Token0 \in Nat /\ Token1 \in Nat
    /\ UniswapPair # ThreePool /\ UniswapPair # NoCode /\ UniswapPair # Token0 /\ UniswapPair # Token1
    /\ ThreePool # NoCode /\ ThreePool # Token0 /\ ThreePool # Token1
    /\ NoCode # Token0 /\ NoCode # Token1
<1> DEFINE s == <<UniswapPair, ThreePool, NoCode, Token0, Token1>>
<1>1. /\ s[1] = UniswapPair /\ s[2] = ThreePool /\ s[3] = NoCode /\ s[4] = Token0 /\ s[5] = Token1
      /\ Len(s) = 5
  OBVIOUS
<1>2. s \in Seq(Nat) /\ IsInjective(s)
  BY LiveAssumption
<1> HIDE DEF s
<1>3. DOMAIN s = 1 .. 5 /\ \A i \in 1 .. 5 : s[i] \in Nat
  BY <1>1, <1>2, LenProperties
<1>4. \A i, j \in 1 .. 5 : s[i] = s[j] => i = j
  BY <1>2, <1>3 DEF IsInjective
<1> QED
  BY <1>1, <1>3, <1>4

LEMMA Selectors ==
    /\ GetReserves \in Nat /\ GetToken0 \in Nat /\ GetToken1 \in Nat /\ GetDecimals \in Nat
    /\ GetBalance \in Nat /\ GetA \in Nat /\ GetFee \in Nat
    /\ GetReserves # GetToken0 /\ GetReserves # GetToken1 /\ GetToken0 # GetToken1
    /\ GetBalance # GetReserves /\ GetBalance # GetToken0 /\ GetBalance # GetToken1
    /\ GetBalance # GetA /\ GetBalance # GetFee /\ GetA # GetFee
<1> DEFINE s == <<GetReserves, GetToken0, GetToken1, GetDecimals, GetBalance, GetA, GetFee>>
<1>1. /\ s[1] = GetReserves /\ s[2] = GetToken0 /\ s[3] = GetToken1 /\ s[4] = GetDecimals
      /\ s[5] = GetBalance /\ s[6] = GetA /\ s[7] = GetFee /\ Len(s) = 7
  OBVIOUS
<1>2. s \in Seq(Nat) /\ IsInjective(s)
  BY LiveAssumption
<1> HIDE DEF s
<1>3. DOMAIN s = 1 .. 7 /\ \A i \in 1 .. 7 : s[i] \in Nat
  BY <1>1, <1>2, LenProperties
<1>4. \A i, j \in 1 .. 7 : s[i] = s[j] => i = j
  BY <1>2, <1>3 DEF IsInjective
<1> QED
  BY <1>1, <1>3, <1>4

Requests == [target : Nat, data : Bytes]

(* A batch of which no call reverts gives every answer, and as it was given; *)
(* one of which a call reverts gives none.                                   *)
LEMMA BatchAnswered ==
    ASSUME env.multicall, NEW calls \in Seq(Requests), Len(calls) # 0,
           request = EncodeAggregate3(calls), NEW b,
           NEW answers \in [1 .. Len(calls) -> Bytes],
           \A k \in 1 .. Len(calls) :
              answers[k] = InBlock(b, calls[k].target, calls[k].data) /\ answers[k] # Reverted
    PROVE  /\ NodeAnswer(b) # Reverted /\ NodeAnswer(b) # Fault
           /\ Decodes(NodeAnswer(b)) /\ Decoded(NodeAnswer(b)) = answers
<1> DEFINE n == Len(calls)
           read == [k \in 1 .. n |->
                      [target |-> calls[k].target, lenient |-> FALSE, data |-> calls[k].data]]
           given == [k \in DOMAIN read |-> InBlock(b, read[k].target, read[k].data)]
           data == EncodeArray([k \in 1 .. n |-> EncodeResult(answers[k])])
<1>1. n \in Nat \ {0}
  BY LenProperties
<1>2. Head(request) = Aggregate3 /\ CallsIn(request) = read
  BY CallsRoundTrip DEF Requests
<1>3. DOMAIN read = 1 .. n /\ given = answers
  <2>1. \A k \in 1 .. n : given[k] = answers[k]
    OBVIOUS
  <2> QED
    BY <2>1
<1>4. NodeAnswer(b) = data
  <2>1. NodeAnswer(b) = IF Head(request) # Aggregate3
                           \/ \E k \in DOMAIN read : given[k] = Reverted /\ ~read[k].lenient
                        THEN Reverted
                        ELSE EncodeArray([k \in DOMAIN read |-> EncodeResult(given[k])])
    BY <1>2 DEF NodeAnswer, Aggregate
  <2> QED
    BY <1>2, <1>3, <2>1
<1>5. Decodes(data) /\ Decoded(data) = answers /\ data \in Bytes /\ Len(data) >= 2 * W
  BY <1>1, AnswersRoundTrip
<1>6. Len(data) # 1
  <2>1. W \in Nat /\ W >= 2
    BY MulticallAssumption
  <2> HIDE DEF data
  <2>2. Len(data) \in Nat
    BY <1>5, LenProperties DEF Bytes
  <2>3. Len(data) >= 2 * W
    BY <1>5
  <2>4. \A m \in Nat : m >= 2 * W => m # 1
    BY <2>1
  <2> QED
    BY <2>2, <2>3, <2>4
<1>7. Len(Reverted) = 1 /\ Len(Fault) = 1
  BY DEF Reverted, Fault
<1> HIDE DEF data
<1> QED
  BY <1>4, <1>5, <1>6, <1>7

LEMMA BatchReverted ==
    ASSUME env.multicall, NEW calls \in Seq(Requests), Len(calls) # 0,
           request = EncodeAggregate3(calls), NEW b,
           NEW k \in 1 .. Len(calls), InBlock(b, calls[k].target, calls[k].data) = Reverted
    PROVE  NodeAnswer(b) = Reverted
<1> DEFINE n == Len(calls)
           read == [i \in 1 .. n |->
                      [target |-> calls[i].target, lenient |-> FALSE, data |-> calls[i].data]]
           given == [i \in DOMAIN read |-> InBlock(b, read[i].target, read[i].data)]
<1>1. CallsIn(request) = read
  BY CallsRoundTrip DEF Requests
<1>2. given[k] = Reverted /\ ~read[k].lenient /\ k \in DOMAIN read
  OBVIOUS
<1>3. NodeAnswer(b) = IF Head(request) # Aggregate3
                         \/ \E i \in DOMAIN read : given[i] = Reverted /\ ~read[i].lenient
                      THEN Reverted
                      ELSE EncodeArray([i \in DOMAIN read |-> EncodeResult(given[i])])
  BY <1>1 DEF NodeAnswer, Aggregate
<1> QED
  BY <1>2, <1>3

(* decode_uint256_as_u128 accepts a word if its number fits. *)
LEMMA WordOfContract ==
    ASSUME NEW x \in Words
    PROVE  /\ Word(x) \in Bytes /\ Len(Word(x)) = W
           /\ FitsU128(Word(x)) <=> x \in Nat
<1>1. W \in Nat /\ W >= 2 /\ Huge \notin Nat
  BY MulticallAssumption
<1>2. CASE x \in Nat
  <2>1. Word(x) \in Bytes /\ Len(Word(x)) = W /\ \A i \in 1 .. W - 1 : Word(x)[i] = 0
    BY <1>2, WordIs
  <2>2. \A i \in 1 .. W \div 2 : i \in 1 .. W - 1
    BY <1>1
  <2> QED
    BY <1>2, <2>1, <2>2 DEF FitsU128
<1>3. CASE x = Huge
  <2>1. Word(x) \in Bytes /\ Len(Word(x)) = W /\ Word(x)[1] = 1
    BY <1>3, HugeWord
  <2>2. 1 \in 1 .. W \div 2
    BY <1>1
  <2> QED
    BY <1>1, <1>3, <2>1, <2>2 DEF FitsU128
<1> QED
  BY <1>2, <1>3 DEF Words

(* A word by itself gives its number. *)
LEMMA OwnWord ==
    ASSUME NEW v \in Nat
    PROVE  Word(v) \in Bytes /\ Len(Word(v)) = W /\ WordAt(Word(v), 0) = v
<1>1. Word(v) \in Bytes /\ Len(Word(v)) = W /\ Word(v)[W] = v
  BY WordIs
<1> QED
  BY <1>1, MulticallAssumption DEF WordAt

(* What the contracts hold in a block. *)
LEMMA BlockTypes ==
    ASSUME chain \in Chains, NEW b \in Blocks
    PROVE  /\ b \in Nat
           /\ chain[b].reserves[1] \in Words /\ chain[b].reserves[2] \in Words
           /\ \A k \in 1 .. 3 : chain[b].balances[k] \in Words
           /\ chain[b].A \in Words /\ chain[b].fee \in Words
<1>1. chain[b] \in [reserves : [1 .. 2 -> Words], balances : [1 .. 3 -> Words], A : Words, fee : Words]
  BY LiveAssumption
<1>2. b \in Nat
  BY LiveAssumption
<1> QED
  BY <1>1, <1>2

(* What getReserves gives. *)
ReservesData(b) == Word(chain[b].reserves[1]) \o Word(chain[b].reserves[2]) \o Word(b)

LEMMA ReservesRead ==
    ASSUME chain \in Chains, NEW b \in Blocks
    PROVE  /\ ReservesData(b) \in Bytes /\ Len(ReservesData(b)) = 3 * W
           /\ InRange(ReservesData(b), 0, 2 * W)
           /\ Slice(ReservesData(b), 0, W) = Word(chain[b].reserves[1])
           /\ Slice(ReservesData(b), W, W) = Word(chain[b].reserves[2])
           /\ chain[b].reserves[1] \in Nat => Number(ReservesData(b), 0) = chain[b].reserves[1]
           /\ chain[b].reserves[2] \in Nat => Number(ReservesData(b), W) = chain[b].reserves[2]
<1> DEFINE r0 == Word(chain[b].reserves[1])
           r1 == Word(chain[b].reserves[2])
           t == Word(b)
           data == (r0 \o r1) \o t
<1>1. W \in Nat
  BY MulticallAssumption
<1>2. r0 \in Bytes /\ Len(r0) = W /\ r1 \in Bytes /\ Len(r1) = W /\ t \in Bytes /\ Len(t) = W
  BY BlockTypes, WordOfContract, WordIs
<1>3. ReservesData(b) = data
  BY DEF ReservesData
<1> HIDE DEF r0, r1, t
<1>4. r0 \o r1 \in Bytes /\ Len(r0 \o r1) = W + W /\ Lies(r0 \o r1, 0, r0) /\ Lies(r0 \o r1, W, r1)
  BY <1>2, AtEnds
<1>5. data \in Bytes /\ Len(data) = W + W + W
  BY <1>2, <1>4, AtEnds
<1>6. Lies(data, 0, r0) /\ Lies(data, W, r1)
  BY <1>2, <1>4, AtLeft
<1> HIDE DEF data
<1>7. Slice(data, 0, W) = r0 /\ Slice(data, W, W) = r1
  BY <1>2, <1>5, <1>6, AtSlice
<1>8. /\ chain[b].reserves[1] \in Nat => WordAt(data, 0) = chain[b].reserves[1]
      /\ chain[b].reserves[2] \in Nat => WordAt(data, W) = chain[b].reserves[2]
  BY <1>5, <1>6, AtWord DEF r0, r1
<1>9. InRange(data, 0, 2 * W) /\ Len(data) = 3 * W
  BY <1>1, <1>5 DEF InRange
<1> QED
  BY <1>3, <1>5, <1>7, <1>8, <1>9 DEF r0, r1, Number

(* What block b answers to the batch at hand, where all of it is answered. *)
Told(b) ==
    CASE batch = "pair" /\ env.uniswap = UniswapPair ->
           <<ReservesData(b), Word(Token0), Word(Token1)>>
      [] batch = "pair" /\ env.uniswap # UniswapPair -> <<<<>>, <<>>, <<>>>>
      [] batch = "decimals" -> <<Word(DecimalsOf[Token0]), Word(DecimalsOf[Token1])>>
      [] batch = "3pool" ->
           <<Word(chain[b].balances[1]), Word(chain[b].balances[2]), Word(chain[b].balances[3]),
             Word(chain[b].A), Word(chain[b].fee)>>

EnvOK ==
    env \in [rpc : BOOLEAN, uniswap : {UniswapPair, NoCode}, curve : {ThreePool, UniswapPair},
             multicall : BOOLEAN]

(* Calldata of a selector alone. *)
LEMMA PlainCall ==
    ASSUME NEW target \in Nat, NEW selector \in Nat
    PROVE  Call(target, <<selector>>) \in Requests
<1>1. <<selector>> \in Bytes
  BY DEF Bytes
<1> QED
  BY <1>1 DEF Call, Requests

(* The first batch tells the pair of one block, or nothing of an address without *)
(* code, which answers every call with no data.                                  *)
LEMMA PairAnswered ==
    ASSUME chain \in Chains, EnvOK, env.multicall, batch = "pair",
           request = EncodeAggregate3(Calls), NEW b \in Blocks
    PROVE  /\ NodeAnswer(b) # Reverted /\ NodeAnswer(b) # Fault
           /\ Decodes(NodeAnswer(b)) /\ Decoded(NodeAnswer(b)) = Told(b)
<1> DEFINE pool == env.uniswap
           calls == PairCalls(pool)
<1>1. Calls = calls
  BY DEF Calls
<1>2. pool \in {UniswapPair, NoCode} /\ pool \in Nat
  BY Addresses DEF EnvOK
<1> HIDE DEF pool
<1>3. /\ calls[1] = Call(pool, <<GetReserves>>) /\ calls[2] = Call(pool, <<GetToken0>>)
      /\ calls[3] = Call(pool, <<GetToken1>>) /\ Len(calls) = 3
  BY DEF PairCalls
<1>4. calls \in Seq(Requests)
  <2>1. /\ Call(pool, <<GetReserves>>) \in Requests /\ Call(pool, <<GetToken0>>) \in Requests
        /\ Call(pool, <<GetToken1>>) \in Requests
    BY <1>2, Selectors, PlainCall
  <2> QED
    BY <2>1 DEF PairCalls
<1>5. /\ calls[1].target = pool /\ Head(calls[1].data) = GetReserves
      /\ calls[2].target = pool /\ Head(calls[2].data) = GetToken0
      /\ calls[3].target = pool /\ Head(calls[3].data) = GetToken1
  BY <1>3 DEF Call
<1> HIDE DEF calls
<1> DEFINE told == Told(b)
<1>6. /\ told \in [1 .. Len(calls) -> Bytes]
      /\ \A k \in 1 .. Len(calls) :
           told[k] = InBlock(b, calls[k].target, calls[k].data) /\ told[k] # Reverted
  <2>1. CASE pool = UniswapPair
    <3>1. told = <<ReservesData(b), Word(Token0), Word(Token1)>>
      BY <2>1 DEF Told, pool
    <3>2. ReservesData(b) \in Bytes /\ Len(ReservesData(b)) = 3 * W
      BY ReservesRead
    <3>3. Word(Token0) \in Bytes /\ Len(Word(Token0)) = W /\ Word(Token1) \in Bytes /\ Len(Word(Token1)) = W
      BY Addresses, WordIs
    <3>4. Len(Reverted) = 1 /\ 3 * W # 1 /\ W # 1
      BY MulticallAssumption DEF Reverted
    <3>5. /\ InBlock(b, pool, calls[1].data) = ReservesData(b)
          /\ InBlock(b, pool, calls[2].data) = Word(Token0)
          /\ InBlock(b, pool, calls[3].data) = Word(Token1)
      BY <1>5, <2>1, Addresses, Selectors DEF InBlock, ReservesData
    <3>6. ReservesData(b) # Reverted /\ Word(Token0) # Reverted /\ Word(Token1) # Reverted
      BY <3>2, <3>3, <3>4
    <3> QED
      BY <1>3, <1>5, <3>1, <3>2, <3>3, <3>5, <3>6
  <2>2. CASE pool # UniswapPair
    <3>1. told = <<<<>>, <<>>, <<>>>> /\ pool = NoCode
      BY <1>2, <2>2 DEF Told, pool
    <3>2. <<>> \in Bytes /\ <<>> # Reverted
      BY DEF Bytes, Reverted
    <3>3. \A data : InBlock(b, pool, data) = <<>>
      BY <2>2, <3>1, Addresses DEF InBlock
    <3>4. told = [k \in 1 .. 3 |-> <<>>]
      BY <3>1
    <3> HIDE DEF told
    <3>5. told \in [1 .. 3 -> Bytes] /\ \A k \in 1 .. 3 : told[k] = <<>>
      BY <3>2, <3>4
    <3>6. \A k \in 1 .. 3 : calls[k].target = pool
      BY <1>5
    <3>7. \A k \in 1 .. 3 : told[k] = InBlock(b, calls[k].target, calls[k].data) /\ told[k] # Reverted
      BY <3>2, <3>3, <3>5, <3>6
    <3>8. Len(calls) = 3
      BY <1>3
    <3> QED
      BY <3>5, <3>7, <3>8
  <2> QED
    BY <2>1, <2>2
<1> HIDE DEF told
<1>7. Len(calls) # 0 /\ request = EncodeAggregate3(calls)
  BY <1>1, <1>3
<1>8. /\ NodeAnswer(b) # Reverted /\ NodeAnswer(b) # Fault
      /\ Decodes(NodeAnswer(b)) /\ Decoded(NodeAnswer(b)) = told
  BY <1>4, <1>6, <1>7, BatchAnswered
<1> QED
  BY <1>8 DEF told

(* The second batch tells the decimals of the tokens that the first one named. *)
LEMMA DecimalsAnswered ==
    ASSUME env.multicall, batch = "decimals", held.tokens = <<Token0, Token1>>,
           request = EncodeAggregate3(Calls), NEW b \in Blocks
    PROVE  /\ NodeAnswer(b) # Reverted /\ NodeAnswer(b) # Fault
           /\ Decodes(NodeAnswer(b)) /\ Decoded(NodeAnswer(b)) = Told(b)
<1> DEFINE calls == <<Call(Token0, <<GetDecimals>>), Call(Token1, <<GetDecimals>>)>>
           told == Told(b)
<1>1. Calls = calls
  BY DEF Calls, DecimalsCalls
<1>2. /\ calls[1] = Call(Token0, <<GetDecimals>>) /\ calls[2] = Call(Token1, <<GetDecimals>>)
      /\ Len(calls) = 2
  OBVIOUS
<1>3. calls \in Seq(Requests)
  <2>1. Call(Token0, <<GetDecimals>>) \in Requests /\ Call(Token1, <<GetDecimals>>) \in Requests
    BY Addresses, Selectors, PlainCall
  <2> QED
    BY <2>1
<1>4. /\ calls[1].target = Token0 /\ Head(calls[1].data) = GetDecimals
      /\ calls[2].target = Token1 /\ Head(calls[2].data) = GetDecimals
  BY <1>2 DEF Call
<1> HIDE DEF calls
<1>5. told = <<Word(DecimalsOf[Token0]), Word(DecimalsOf[Token1])>>
  BY DEF Told
<1>6. /\ told \in [1 .. Len(calls) -> Bytes]
      /\ \A k \in 1 .. Len(calls) :
           told[k] = InBlock(b, calls[k].target, calls[k].data) /\ told[k] # Reverted
  <2>1. DecimalsOf[Token0] \in Nat /\ DecimalsOf[Token1] \in Nat
    BY LiveAssumption
  <2>2. /\ Word(DecimalsOf[Token0]) \in Bytes /\ Len(Word(DecimalsOf[Token0])) = W
        /\ Word(DecimalsOf[Token1]) \in Bytes /\ Len(Word(DecimalsOf[Token1])) = W
    BY <2>1, WordIs
  <2>3. Len(Reverted) = 1 /\ W # 1
    BY MulticallAssumption DEF Reverted
  <2>4. /\ InBlock(b, calls[1].target, calls[1].data) = Word(DecimalsOf[Token0])
        /\ InBlock(b, calls[2].target, calls[2].data) = Word(DecimalsOf[Token1])
    BY <1>4, Addresses DEF InBlock
  <2>5. Word(DecimalsOf[Token0]) # Reverted /\ Word(DecimalsOf[Token1]) # Reverted
    BY <2>2, <2>3
  <2> QED
    BY <1>2, <1>5, <2>2, <2>4, <2>5
<1> HIDE DEF told
<1>7. Len(calls) # 0 /\ request = EncodeAggregate3(calls)
  BY <1>1, <1>2
<1>8. /\ NodeAnswer(b) # Reverted /\ NodeAnswer(b) # Fault
      /\ Decodes(NodeAnswer(b)) /\ Decoded(NodeAnswer(b)) = told
  BY <1>3, <1>6, <1>7, BatchAnswered
<1> QED
  BY <1>8 DEF told

(* The calls to the 3pool, one by one. *)
LEMMA ThreePoolCallsAre ==
    ASSUME NEW pool \in Nat
    PROVE  /\ ThreePoolCalls(pool) \in Seq(Requests) /\ Len(ThreePoolCalls(pool)) = 5
           /\ \A k \in 1 .. 5 : ThreePoolCalls(pool)[k].target = pool
           /\ \A k \in 1 .. 3 : /\ Head(ThreePoolCalls(pool)[k].data) = GetBalance
                                /\ Len(ThreePoolCalls(pool)[k].data) = 1 + W
                                /\ WordAt(ThreePoolCalls(pool)[k].data, 1) = k - 1
           /\ Head(ThreePoolCalls(pool)[4].data) = GetA
           /\ Head(ThreePoolCalls(pool)[5].data) = GetFee
<1> DEFINE asked(k) == <<GetBalance>> \o Word(k - 1)
           balances == [k \in 1 .. 3 |-> Call(pool, asked(k))]
           rest == <<Call(pool, <<GetA>>), Call(pool, <<GetFee>>)>>
<1>1. ASSUME NEW k \in 1 .. 3
      PROVE  /\ asked(k) \in Bytes /\ Len(asked(k)) = 1 + W /\ Head(asked(k)) = GetBalance
             /\ WordAt(asked(k), 1) = k - 1
  <2> DEFINE w == Word(k - 1)
             front == <<GetBalance>>
             both == front \o w
  <2>1. k - 1 \in Nat /\ w \in Bytes /\ Len(w) = W
    BY WordIs
  <2>2. front \in Bytes /\ Len(front) = 1 /\ front[1] = GetBalance
    BY Selectors DEF Bytes
  <2> HIDE DEF front
  <2> HIDE DEF w
  <2>3. both \in Bytes /\ Len(both) = 1 + W /\ Lies(both, 0, front) /\ Lies(both, 1, w)
    BY <2>1, <2>2, AtEnds
  <2>4. both[1] = GetBalance /\ Head(both) = both[1]
    BY <2>1, <2>2, <2>3, MulticallAssumption DEF Bytes
  <2> HIDE DEF both
  <2>5. WordAt(both, 1) = k - 1
    BY <2>1, <2>3, AtWord DEF w
  <2>6. asked(k) = both
    BY DEF both, front, w
  <2> QED
    BY <2>3, <2>4, <2>5, <2>6
<1> HIDE DEF asked
<1>2. /\ balances \in Seq(Requests) /\ Len(balances) = 3
      /\ \A k \in 1 .. 3 : balances[k] = Call(pool, asked(k))
  <2>1. \A k \in 1 .. 3 : Call(pool, asked(k)) \in Requests
    BY <1>1 DEF Call, Requests
  <2>2. balances \in [1 .. 3 -> Requests]
    BY <2>1
  <2>3. \A k \in 1 .. 3 : balances[k] = Call(pool, asked(k))
    OBVIOUS
  <2> HIDE DEF balances
  <2>4. balances \in Seq(Requests)
    BY <2>2, SeqDef
  <2> QED
    BY <2>2, <2>3, <2>4, LenProperties
<1>3. /\ rest \in Seq(Requests) /\ Len(rest) = 2
      /\ rest[1] = Call(pool, <<GetA>>) /\ rest[2] = Call(pool, <<GetFee>>)
  <2>1. Call(pool, <<GetA>>) \in Requests /\ Call(pool, <<GetFee>>) \in Requests
    BY Selectors, PlainCall
  <2> QED
    BY <2>1
<1> DEFINE calls == balances \o rest
<1>4. ThreePoolCalls(pool) = calls
  BY DEF ThreePoolCalls, asked
<1> HIDE DEF balances, rest
<1>5. /\ calls \in Seq(Requests) /\ Len(calls) = 5
      /\ \A k \in 1 .. 3 : calls[k] = balances[k]
      /\ calls[4] = rest[1] /\ calls[5] = rest[2]
  <2>1. /\ calls \in Seq(Requests) /\ Len(calls) = Len(balances) + Len(rest)
        /\ \A k \in 1 .. Len(balances) + Len(rest) :
             calls[k] = IF k <= Len(balances) THEN balances[k] ELSE rest[k - Len(balances)]
    <3>1. balances \in Seq(Requests) /\ rest \in Seq(Requests)
      BY <1>2, <1>3
    <3> QED
      BY ONLY <3>1, ConcatProperties
  <2> HIDE DEF calls
  <2>2. Len(balances) = 3 /\ Len(rest) = 2
    BY <1>2, <1>3
  <2>3. \A k \in 1 .. 5 : calls[k] = IF k <= 3 THEN balances[k] ELSE rest[k - 3]
    BY <2>1, <2>2
  <2> QED
    BY <2>1, <2>2, <2>3
<1> HIDE DEF calls
<1>6. \A k \in 1 .. 3 : calls[k].target = pool /\ calls[k].data = asked(k)
  BY <1>2, <1>5 DEF Call
<1>7. /\ calls[4].target = pool /\ Head(calls[4].data) = GetA
      /\ calls[5].target = pool /\ Head(calls[5].data) = GetFee
  BY <1>3, <1>5 DEF Call
<1>8. \A k \in 1 .. 5 : calls[k].target = pool
  BY <1>6, <1>7
<1> QED
  BY <1>1, <1>4, <1>5, <1>6, <1>7, <1>8

(* The third tells the 3pool of one block. *)
LEMMA ThreePoolAnswered ==
    ASSUME chain \in Chains, env.multicall, batch = "3pool", env.curve = ThreePool,
           request = EncodeAggregate3(Calls), NEW b \in Blocks
    PROVE  /\ NodeAnswer(b) # Reverted /\ NodeAnswer(b) # Fault
           /\ Decodes(NodeAnswer(b)) /\ Decoded(NodeAnswer(b)) = Told(b)
<1> DEFINE calls == ThreePoolCalls(ThreePool)
           told == Told(b)
           c == chain[b]
<1>1. Calls = calls
  BY DEF Calls
<1>2. /\ calls \in Seq(Requests) /\ Len(calls) = 5
      /\ \A k \in 1 .. 5 : calls[k].target = ThreePool
      /\ \A k \in 1 .. 3 : /\ Head(calls[k].data) = GetBalance
                           /\ Len(calls[k].data) = 1 + W
                           /\ WordAt(calls[k].data, 1) = k - 1
      /\ Head(calls[4].data) = GetA /\ Head(calls[5].data) = GetFee
  BY Addresses, ThreePoolCallsAre
<1> HIDE DEF calls
<1>3. told = <<Word(c.balances[1]), Word(c.balances[2]), Word(c.balances[3]), Word(c.A), Word(c.fee)>>
  BY DEF Told
<1>4. /\ \A k \in 1 .. 3 : Word(c.balances[k]) \in Bytes /\ Len(Word(c.balances[k])) = W
      /\ Word(c.A) \in Bytes /\ Len(Word(c.A)) = W /\ Word(c.fee) \in Bytes /\ Len(Word(c.fee)) = W
  BY BlockTypes, WordOfContract
<1>5. Len(Reverted) = 1 /\ W # 1
  BY MulticallAssumption DEF Reverted
<1>6. \A k \in 1 .. 3 : InBlock(b, calls[k].target, calls[k].data) = Word(c.balances[k])
  <2>1. ASSUME NEW k \in 1 .. 3
        PROVE  InBlock(b, ThreePool, calls[k].data) = Word(c.balances[k])
    <3>1. /\ Head(calls[k].data) = GetBalance /\ Len(calls[k].data) = 1 + W
          /\ WordAt(calls[k].data, 1) = k - 1 /\ k - 1 \in 0 .. 2 /\ (k - 1) + 1 = k
      BY <1>2
    <3> QED
      BY <3>1, Addresses, Selectors DEF InBlock
  <2> QED
    BY <1>2, <2>1
<1>7. /\ InBlock(b, calls[4].target, calls[4].data) = Word(c.A)
      /\ InBlock(b, calls[5].target, calls[5].data) = Word(c.fee)
  <2>1. calls[4].target = ThreePool /\ calls[5].target = ThreePool
    BY <1>2
  <2> QED
    BY <1>2, <2>1, Addresses, Selectors DEF InBlock
<1>8. /\ told \in [1 .. 5 -> Bytes]
      /\ \A k \in 1 .. 3 : told[k] = Word(c.balances[k])
      /\ told[4] = Word(c.A) /\ told[5] = Word(c.fee)
  BY <1>3, <1>4
<1> HIDE DEF told
<1>9. ASSUME NEW k \in 1 .. 5
      PROVE  told[k] = InBlock(b, calls[k].target, calls[k].data) /\ told[k] # Reverted
  <2>1. CASE k \in 1 .. 3
    BY <1>4, <1>5, <1>6, <1>8, <2>1
  <2>2. CASE k = 4
    BY <1>4, <1>5, <1>7, <1>8, <2>2
  <2>3. CASE k = 5
    BY <1>4, <1>5, <1>7, <1>8, <2>3
  <2> QED
    BY <2>1, <2>2, <2>3
<1>10. Len(calls) # 0 /\ Len(calls) = 5 /\ calls \in Seq(Requests)
  BY <1>2
<1>11. request = EncodeAggregate3(calls)
  BY <1>1
<1>12. /\ told \in [1 .. Len(calls) -> Bytes]
       /\ \A k \in 1 .. Len(calls) :
            told[k] = InBlock(b, calls[k].target, calls[k].data) /\ told[k] # Reverted
  BY <1>8, <1>9, <1>10
<1>13. /\ NodeAnswer(b) # Reverted /\ NodeAnswer(b) # Fault
       /\ Decodes(NodeAnswer(b)) /\ Decoded(NodeAnswer(b)) = told
  BY <1>10, <1>11, <1>12, BatchAnswered
<1> QED
  BY <1>13 DEF told

(* The pair has no balances(k): asked for them, it reverts the whole batch. *)
LEMMA WrongPoolReverts ==
    ASSUME env.multicall, batch = "3pool", env.curve = UniswapPair,
           request = EncodeAggregate3(Calls), NEW b \in Blocks
    PROVE  NodeAnswer(b) = Reverted
<1> DEFINE calls == ThreePoolCalls(UniswapPair)
<1>1. Calls = calls
  BY DEF Calls
<1>2. /\ calls \in Seq(Requests) /\ Len(calls) = 5 /\ 1 \in 1 .. Len(calls)
      /\ calls[1].target = UniswapPair /\ Head(calls[1].data) = GetBalance
  BY Addresses, ThreePoolCallsAre
<1> HIDE DEF calls
<1>3. InBlock(b, calls[1].target, calls[1].data) = Reverted
  BY <1>2, Addresses, Selectors DEF InBlock
<1>4. Len(calls) # 0 /\ request = EncodeAggregate3(calls)
  BY <1>1, <1>2
<1> QED
  BY <1>2, <1>3, <1>4, BatchReverted

(* A chain without Multicall3 answers with no data, which is no array. *)
LEMMA NoMulticall ==
    ASSUME ~env.multicall, NEW b
    PROVE  NodeAnswer(b) = <<>> /\ ~Decodes(NodeAnswer(b))
<1>1. NodeAnswer(b) = <<>>
  BY DEF NodeAnswer
<1>2. Len(<<>>) = 0 /\ W \in Nat /\ W >= 2
  BY MulticallAssumption
<1> QED
  BY <1>1, <1>2 DEF Decodes, InRange

-----------------------------------------------------------------------------
(* The inductive invariant.                                                *)

(* What is held of the pools in block b on the way to sizing them. *)
PairRead(b) ==
    [reserves |-> <<chain[b].reserves[1], chain[b].reserves[2]>>, tokens |-> <<Token0, Token1>>]

ThreePoolRead(b) ==
    [amounts |-> [k \in 1 .. 3 |-> Amount(chain[b].balances[k], <<18, 6, 6>>[k])],
     A |-> chain[b].A, fee |-> chain[b].fee]

(* The addresses are the pools', on a chain that has Multicall3. *)
Healthy == env.multicall /\ env.uniswap = UniswapPair /\ env.curve = ThreePool

ControlOK ==
    /\ EnvOK /\ chain \in Chains
    /\ pc \in {"start", "send", "wait", "size"} \cup Ended
    /\ batch \in {"pair", "decimals", "3pool"}
    /\ pc = "start" => batch = "pair"
    /\ pc = "size" => batch # "pair"

(* The request that is on its way asks for the batch at hand. *)
RequestOK == request # None => pc = "wait" /\ request = EncodeAggregate3(Calls)

(* What is held is one block's, whichever blocks answered. *)
HeldOK ==
    /\ pc \in {"start", "send", "wait"} /\ batch = "pair" => reports = <<>>
    /\ pc \in {"send", "wait"} /\ batch = "decimals" =>
         reports = <<>> /\ env.uniswap = UniswapPair /\ \E b \in Blocks : held = PairRead(b)
    /\ pc = "size" /\ batch = "decimals" => reports = <<>> /\ \E b \in Blocks : held = PairIn(b)
    /\ pc \in {"send", "wait", "size"} /\ batch = "3pool" => reports = <<reports[1]>>
    /\ pc = "size" /\ batch = "3pool" => \E b \in Blocks : held = ThreePoolRead(b)

(* An answer is a failure, nothing, a revert, or all that one block tells. *)
ReplyOK ==
    pc = "wait" /\ request = None =>
      \/ reply = Fault /\ faulted
      \/ reply \in {<<>>, Reverted} /\ ~Healthy /\ ~Decodes(<<>>)
      \/ /\ reply \notin {Fault, Reverted} /\ Decodes(reply)
         /\ \E b \in Blocks : Decoded(reply) = Told(b)

LiveInv ==
    /\ ControlOK /\ RequestOK /\ HeldOK /\ ReplyOK
    /\ SizesOneBlock /\ HealthyRunDecodes

-----------------------------------------------------------------------------
(* What every batch asks, hears and reads. *)

(* Every batch consists of calls, and of at least one. *)
LEMMA CallsAre ==
    ASSUME EnvOK, batch \in {"pair", "decimals", "3pool"},
           batch = "decimals" => held.tokens = <<Token0, Token1>>
    PROVE  Calls \in Seq(Requests) /\ Len(Calls) # 0
<1>1. CASE batch = "pair"
  <2> DEFINE pool == env.uniswap
  <2>1. pool \in Nat
    BY Addresses DEF EnvOK
  <2> HIDE DEF pool
  <2>2. /\ Call(pool, <<GetReserves>>) \in Requests /\ Call(pool, <<GetToken0>>) \in Requests
        /\ Call(pool, <<GetToken1>>) \in Requests
    BY <2>1, Selectors, PlainCall
  <2>3. PairCalls(pool) \in Seq(Requests) /\ Len(PairCalls(pool)) = 3
    BY <2>2 DEF PairCalls
  <2>4. Calls = PairCalls(pool)
    BY <1>1 DEF Calls, pool
  <2> QED
    BY <2>3, <2>4
<1>2. CASE batch = "decimals"
  <2>1. Call(Token0, <<GetDecimals>>) \in Requests /\ Call(Token1, <<GetDecimals>>) \in Requests
    BY Addresses, Selectors, PlainCall
  <2>2. Calls = <<Call(Token0, <<GetDecimals>>), Call(Token1, <<GetDecimals>>)>>
    BY <1>2 DEF Calls, DecimalsCalls
  <2> QED
    BY <2>1, <2>2
<1>3. CASE batch = "3pool"
  <2>1. env.curve \in Nat
    BY Addresses DEF EnvOK
  <2>2. Calls = ThreePoolCalls(env.curve)
    BY <1>3 DEF Calls
  <2> QED
    BY <2>1, <2>2, ThreePoolCallsAre
<1> QED
  BY <1>1, <1>2, <1>3

LEMMA HeldTokens ==
    ASSUME NEW b, held = PairRead(b)
    PROVE  held.tokens = <<Token0, Token1>>
BY DEF PairRead

(* What the node answers to the request that is on its way. *)
LEMMA RequestAnswered ==
    ASSUME LiveInv, request # None, NEW b \in Blocks
    PROVE  \/ NodeAnswer(b) \in {<<>>, Reverted} /\ ~Healthy /\ ~Decodes(<<>>)
           \/ /\ NodeAnswer(b) \notin {Fault, Reverted} /\ Decodes(NodeAnswer(b))
              /\ Decoded(NodeAnswer(b)) = Told(b)
<1>1. pc = "wait" /\ request = EncodeAggregate3(Calls) /\ EnvOK /\ chain \in Chains
  BY DEF LiveInv, RequestOK, ControlOK
<1>2. CASE ~env.multicall
  BY <1>2, NoMulticall DEF Healthy
<1>3. CASE env.multicall /\ batch = "pair"
  BY <1>1, <1>3, PairAnswered
<1>4. CASE env.multicall /\ batch = "decimals"
  <2>1. held.tokens = <<Token0, Token1>>
    BY <1>1, <1>4, HeldTokens DEF LiveInv, HeldOK
  <2> QED
    BY <1>1, <1>4, <2>1, DecimalsAnswered
<1>5. CASE env.multicall /\ batch = "3pool" /\ env.curve = ThreePool
  BY <1>1, <1>5, ThreePoolAnswered
<1>6. CASE env.multicall /\ batch = "3pool" /\ env.curve = UniswapPair
  <2>1. NodeAnswer(b) = Reverted /\ ~Healthy
    BY <1>1, <1>6, WrongPoolReverts, Addresses DEF Healthy
  <2>2. ~Decodes(<<>>)
    <3>1. Len(<<>>) = 0 /\ W \in Nat /\ W >= 2
      BY MulticallAssumption
    <3> QED
      BY <3>1 DEF Decodes, InRange
  <2> QED
    BY <2>1, <2>2
<1>7. env.curve \in {ThreePool, UniswapPair} /\ env.multicall \in BOOLEAN
  BY <1>1 DEF EnvOK
<1>8. batch \in {"pair", "decimals", "3pool"}
  BY DEF LiveInv, ControlOK
<1> QED
  BY <1>2, <1>3, <1>4, <1>5, <1>6, <1>7, <1>8

(* What main reads of the answer is the pair of that block; it can read it if *)
(* the numbers fit.                                                            *)
LEMMA PairReadable ==
    ASSUME chain \in Chains, EnvOK, batch = "pair", NEW b \in Blocks
    PROVE  /\ Readable(Told(b)) => env.uniswap = UniswapPair /\ Read(Told(b)) = PairRead(b)
           /\ env.uniswap = UniswapPair /\ Sound(b) => Readable(Told(b))
<1> DEFINE told == Told(b)
           r0 == chain[b].reserves[1]
           r1 == chain[b].reserves[2]
<1>1. W \in Nat /\ W >= 2
  BY MulticallAssumption
<1>2. CASE env.uniswap # UniswapPair
  <2>1. told[1] = <<>>
    BY <1>2 DEF Told
  <2>2. ~InRange(told[1], 0, 2 * W)
    BY <1>1, <2>1 DEF InRange
  <2> HIDE DEF told
  <2>3. ~Readable(told)
    BY <2>2 DEF Readable
  <2> QED
    BY <1>2, <2>3 DEF told
<1>3. CASE env.uniswap = UniswapPair
  <2>1. told[1] = ReservesData(b) /\ told[2] = Word(Token0) /\ told[3] = Word(Token1)
    BY <1>3 DEF Told
  <2> HIDE DEF told
  <2>2. /\ Word(Token0) \in Bytes /\ Len(Word(Token0)) = W /\ WordAt(Word(Token0), 0) = Token0
        /\ Word(Token1) \in Bytes /\ Len(Word(Token1)) = W /\ WordAt(Word(Token1), 0) = Token1
    BY Addresses, OwnWord
  <2>3. Readable(told) <=> FitsU128(Word(r0)) /\ FitsU128(Word(r1))
    BY <2>1, <2>2, ReservesRead DEF Readable
  <2>4. r0 \in Words /\ r1 \in Words
    BY BlockTypes
  <2>5. Readable(told) <=> r0 \in Nat /\ r1 \in Nat
    BY <2>3, <2>4, WordOfContract
  <2>6. Readable(told) => Read(told) = PairRead(b)
    BY <2>1, <2>2, <2>5, ReservesRead DEF Read, PairRead, Address
  <2>7. Sound(b) => r0 \in Nat /\ r1 \in Nat
    BY <2>4 DEF Sound, Words
  <2> QED
    BY <1>3, <2>5, <2>6, <2>7 DEF told
<1> QED
  BY <1>2, <1>3

(* It can always read the decimals, and joins them to the reserves it holds. *)
LEMMA DecimalsReadable ==
    ASSUME chain \in Chains, batch = "decimals", NEW a \in Blocks, held = PairRead(a), NEW b \in Blocks
    PROVE  Readable(Told(b)) /\ Read(Told(b)) = PairIn(a)
<1> DEFINE told == Told(b)
<1>1. /\ DecimalsOf[Token0] \in Nat /\ DecimalsOf[Token0] % U32 = DecimalsOf[Token0]
      /\ DecimalsOf[Token1] \in Nat /\ DecimalsOf[Token1] % U32 = DecimalsOf[Token1]
  <2>1. U32 \in Nat /\ DecimalsOf[Token0] \in 0 .. U32 - 1 /\ DecimalsOf[Token1] \in 0 .. U32 - 1
    BY LiveAssumption
  <2>2. \A n \in Nat : \A m \in 0 .. n - 1 : m \in Nat /\ m % n = m
    BY Z3
  <2> QED
    BY <2>1, <2>2
<1>2. told = <<Word(DecimalsOf[Token0]), Word(DecimalsOf[Token1])>>
  BY DEF Told
<1>3. /\ DOMAIN told = 1 .. 2
      /\ told[1] = Word(DecimalsOf[Token0]) /\ told[2] = Word(DecimalsOf[Token1])
  BY <1>2
<1> HIDE DEF told
<1>4. /\ FitsU128(Word(DecimalsOf[Token0])) /\ WordAt(Word(DecimalsOf[Token0]), 0) = DecimalsOf[Token0]
      /\ FitsU128(Word(DecimalsOf[Token1])) /\ WordAt(Word(DecimalsOf[Token1]), 0) = DecimalsOf[Token1]
  BY <1>1, OwnWord, WordOfContract DEF Words
<1>5. Readable(told)
  BY <1>3, <1>4 DEF Readable
<1>6. held.reserves[1] = chain[a].reserves[1] /\ held.reserves[2] = chain[a].reserves[2]
  BY DEF PairRead
<1>7. Read(told) = [amounts |-> [k \in 1 .. 2 |-> Amount(held.reserves[k], WordAt(told[k], 0) % U32)]]
  BY DEF Read, Number
<1>8. [k \in 1 .. 2 |-> Amount(held.reserves[k], WordAt(told[k], 0) % U32)]
        = <<Amount(chain[a].reserves[1], DecimalsOf[Token0]),
            Amount(chain[a].reserves[2], DecimalsOf[Token1])>>
  BY <1>1, <1>3, <1>4, <1>6
<1> QED
  BY <1>5, <1>7, <1>8 DEF told, PairIn

(* It reads the 3pool of that block, if the numbers fit. *)
LEMMA ThreePoolReadable ==
    ASSUME chain \in Chains, batch = "3pool", NEW b \in Blocks
    PROVE  /\ Readable(Told(b)) => Read(Told(b)) = ThreePoolRead(b)
           /\ Sound(b) => Readable(Told(b))
<1> DEFINE told == Told(b)
           c == chain[b]
           x == <<c.balances[1], c.balances[2], c.balances[3], c.A, c.fee>>
<1>1. told = <<Word(c.balances[1]), Word(c.balances[2]), Word(c.balances[3]), Word(c.A), Word(c.fee)>>
  BY DEF Told
<1>2. DOMAIN told = 1 .. 5 /\ \A k \in 1 .. 5 : told[k] = Word(x[k])
  BY <1>1
<1>3. \A k \in 1 .. 5 : x[k] \in Words
  BY BlockTypes
<1>4. /\ x[1] = c.balances[1] /\ x[2] = c.balances[2] /\ x[3] = c.balances[3]
      /\ x[4] = c.A /\ x[5] = c.fee
  OBVIOUS
<1> HIDE DEF told, x
<1>5. Readable(told) <=> \A k \in 1 .. 5 : x[k] \in Nat
  BY <1>2, <1>3, WordOfContract DEF Readable
<1>6. ASSUME Readable(told)
      PROVE  Read(told) = ThreePoolRead(b)
  <2>1. \A k \in 1 .. 5 : Number(told[k], 0) = x[k]
    BY <1>2, <1>5, <1>6, OwnWord DEF Number
  <2>2. [k \in 1 .. 3 |-> Amount(Number(told[k], 0), <<18, 6, 6>>[k])]
          = [k \in 1 .. 3 |-> Amount(c.balances[k], <<18, 6, 6>>[k])]
    BY <1>4, <2>1
  <2> QED
    BY <1>4, <2>1, <2>2 DEF Read, ThreePoolRead
<1>7. Sound(b) => \A k \in 1 .. 5 : x[k] \in Nat
  <2>1. Sound(b) => \A k \in 1 .. 5 : x[k] # Huge
    BY <1>4 DEF Sound
  <2> QED
    BY <1>3, <2>1 DEF Words
<1> QED
  BY <1>5, <1>6, <1>7 DEF told

-----------------------------------------------------------------------------
(* The steps. *)

LEMMA LiveInit ==
    ASSUME Init
    PROVE  LiveInv
<1>1. Len(reports) = 0 /\ pc = "start" /\ batch = "pair" /\ reports = <<>> /\ request = <<>>
  BY DEF Init, None
<1> QED
  BY <1>1 DEF Init, LiveInv, ControlOK, EnvOK, RequestOK, HeldOK, ReplyOK, SizesOneBlock,
              HealthyRunDecodes, Ended, None

(* The blocks stay as they are. *)
LEMMA SameBlocks ==
    ASSUME UNCHANGED <<env, chain>>
    PROVE  /\ Healthy' = Healthy /\ EnvOK' = EnvOK
           /\ \A b : /\ PairIn(b)' = PairIn(b) /\ PairRead(b)' = PairRead(b)
                     /\ ThreePoolRead(b)' = ThreePoolRead(b) /\ Sound(b)' = Sound(b)
           /\ \A b, A : ThreePoolIn(b, A)' = ThreePoolIn(b, A)
BY DEF Healthy, EnvOK, PairIn, PairRead, ThreePoolRead, Sound, ThreePoolIn

LEMMA StartStep ==
    ASSUME LiveInv, Start
    PROVE  LiveInv'
<1>1. /\ UNCHANGED <<env, chain, request, reply, held, reports, faulted>> /\ batch' = batch
      /\ pc = "start" /\ pc' \in {"send", "exited"} /\ batch = "pair"
  BY DEF Start, Goto, LiveInv, ControlOK
<1>2. ControlOK' /\ RequestOK'
  BY <1>1, SameBlocks DEF LiveInv, ControlOK, RequestOK, Ended
<1>3. HeldOK' /\ ReplyOK' /\ HealthyRunDecodes'
  BY <1>1 DEF LiveInv, HeldOK, ReplyOK, HealthyRunDecodes
<1>4. SizesOneBlock'
  BY <1>1, SameBlocks DEF LiveInv, SizesOneBlock
<1> QED
  BY <1>2, <1>3, <1>4 DEF LiveInv

LEMMA SendStep ==
    ASSUME LiveInv, Send
    PROVE  LiveInv'
<1>1. /\ UNCHANGED <<env, chain, held, reports, faulted>> /\ batch' = batch
      /\ pc = "send" /\ pc' = "wait" /\ request' = EncodeAggregate3(Calls)
  BY DEF Send, Goto
<1>2. EnvOK /\ batch \in {"pair", "decimals", "3pool"}
  BY DEF LiveInv, ControlOK
<1>3. batch = "decimals" => held.tokens = <<Token0, Token1>>
  BY <1>1, HeldTokens DEF LiveInv, HeldOK
<1>4. request' # None
  <2>1. Calls \in Seq(Requests) /\ Len(Calls) # 0
    BY <1>2, <1>3, CallsAre
  <2> QED
    BY <1>1, <2>1, CallsRoundTrip DEF Requests, None
<1>5. ControlOK'
  BY <1>1, SameBlocks DEF LiveInv, ControlOK, Ended
<1>6. RequestOK'
  <2>1. Calls' = Calls
    BY <1>1 DEF Calls
  <2> QED
    BY <1>1, <2>1 DEF RequestOK
<1>7. HeldOK'
  BY <1>1, SameBlocks DEF LiveInv, HeldOK
<1>8. ReplyOK' /\ HealthyRunDecodes'
  BY <1>1, <1>4 DEF ReplyOK, HealthyRunDecodes
<1>9. SizesOneBlock'
  BY <1>1, SameBlocks DEF LiveInv, SizesOneBlock
<1> QED
  BY <1>5, <1>6, <1>7, <1>8, <1>9 DEF LiveInv

(* Whichever block answers, it is one block. *)
LEMMA AnswerStep ==
    ASSUME LiveInv, NEW b \in Blocks, Answer(b)
    PROVE  LiveInv'
<1>1. /\ UNCHANGED <<env, chain, pc, batch, held, reports, faulted>>
      /\ request # None /\ request' = None /\ reply' = NodeAnswer(b)
  BY DEF Answer
<1>2. pc = "wait"
  BY <1>1 DEF LiveInv, RequestOK
<1>3. ControlOK' /\ RequestOK'
  BY <1>1, SameBlocks DEF LiveInv, ControlOK, RequestOK
<1>4. HeldOK'
  BY <1>1, SameBlocks DEF LiveInv, HeldOK
<1>5. ReplyOK'
  <2>1. Told(b)' = Told(b)
    BY <1>1 DEF Told, ReservesData
  <2>2. Healthy' = Healthy
    BY <1>1, SameBlocks
  <2>3. \/ NodeAnswer(b) \in {<<>>, Reverted} /\ ~Healthy /\ ~Decodes(<<>>)
        \/ /\ NodeAnswer(b) \notin {Fault, Reverted} /\ Decodes(NodeAnswer(b))
           /\ Decoded(NodeAnswer(b)) = Told(b)
    BY <1>1, RequestAnswered
  <2> DEFINE a == NodeAnswer(b)
  <2> HIDE DEF a
  <2>4. CASE a \in {<<>>, Reverted} /\ ~Healthy /\ ~Decodes(<<>>)
    BY <1>1, <2>2, <2>4 DEF ReplyOK, a
  <2>5. CASE a \notin {Fault, Reverted} /\ Decodes(a) /\ Decoded(a) = Told(b)
    <3>1. reply' = a
      BY <1>1 DEF a
    <3>2. reply' \notin {Fault, Reverted} /\ Decodes(reply') /\ Decoded(reply') = Told(b)'
      BY <2>1, <2>5, <3>1
    <3> QED
      BY <3>2 DEF ReplyOK
  <2> QED
    BY <2>3, <2>4, <2>5 DEF a
<1>6. HealthyRunDecodes'
  BY <1>1, <1>2 DEF HealthyRunDecodes
<1>7. SizesOneBlock'
  BY <1>1, SameBlocks DEF LiveInv, SizesOneBlock
<1> QED
  BY <1>3, <1>4, <1>5, <1>6, <1>7 DEF LiveInv

LEMMA FailStep ==
    ASSUME LiveInv, Fail
    PROVE  LiveInv'
<1>1. /\ UNCHANGED <<env, chain, pc, batch, held, reports>>
      /\ request # None /\ request' = None /\ reply' = Fault /\ faulted' = TRUE
  BY DEF Fail
<1>2. pc = "wait"
  BY <1>1 DEF LiveInv, RequestOK
<1>3. ControlOK' /\ RequestOK'
  BY <1>1, SameBlocks DEF LiveInv, ControlOK, RequestOK
<1>4. HeldOK'
  BY <1>1, SameBlocks DEF LiveInv, HeldOK
<1>5. ReplyOK' /\ HealthyRunDecodes'
  BY <1>1, <1>2 DEF ReplyOK, HealthyRunDecodes
<1>6. SizesOneBlock'
  BY <1>1, SameBlocks DEF LiveInv, SizesOneBlock
<1> QED
  BY <1>3, <1>4, <1>5, <1>6 DEF LiveInv

(* Either all of the answer is read, and it is one block's, or main panics, which *)
(* it does not where the run is healthy.                                         *)
LEMMA DecodeStep ==
    ASSUME LiveInv, Decode
    PROVE  LiveInv'
<1> DEFINE answers == Decoded(reply)
           good == reply \notin {Fault, Reverted} /\ Decodes(reply) /\ Readable(answers)
<1>1. UNCHANGED <<env, chain, request, faulted>> /\ pc = "wait" /\ request = None
  BY DEF Decode
<1>2. \/ /\ good /\ held' = Read(answers) /\ reports' = reports
         /\ IF batch = "pair" THEN Goto("send", "decimals") ELSE Goto("size", batch)
      \/ ~good /\ Panic
  BY DEF Decode
<1>3. \/ reply = Fault /\ faulted
      \/ reply \in {<<>>, Reverted} /\ ~Healthy /\ ~Decodes(<<>>)
      \/ /\ reply \notin {Fault, Reverted} /\ Decodes(reply)
         /\ \E b \in Blocks : answers = Told(b)
  BY <1>1 DEF LiveInv, ReplyOK
<1>4. chain \in Chains /\ EnvOK /\ batch \in {"pair", "decimals", "3pool"}
  BY DEF LiveInv, ControlOK
<1> HIDE DEF answers
<1>5. CASE ~good /\ Panic
  <2>1. pc' = "panicked" /\ batch' = batch /\ held' = held /\ reports' = reports
    BY <1>5 DEF Panic, Goto
  <2>2. ControlOK' /\ RequestOK'
    BY <1>1, <2>1, SameBlocks DEF LiveInv, ControlOK, RequestOK, Ended
  <2>3. HeldOK' /\ ReplyOK'
    BY <2>1 DEF HeldOK, ReplyOK
  <2>4. SizesOneBlock'
    BY <1>1, <2>1, SameBlocks DEF LiveInv, SizesOneBlock
  <2>5. ~faulted /\ Healthy => \E b \in Blocks : ~Sound(b)
    <3> SUFFICES ASSUME ~faulted, Healthy
                 PROVE  \E b \in Blocks : ~Sound(b)
      OBVIOUS
    <3>1. PICK b \in Blocks : answers = Told(b)
      BY <1>3
    <3>2. ~Readable(Told(b))
      BY <1>3, <1>5, <3>1
    <3>3. env.uniswap = UniswapPair
      BY DEF Healthy
    <3>4. CASE batch = "pair"
      BY <1>4, <3>2, <3>3, <3>4, PairReadable
    <3>5. CASE batch = "decimals"
      <4>1. PICK a \in Blocks : held = PairRead(a)
        BY <1>1, <3>5 DEF LiveInv, HeldOK
      <4> QED
        BY <1>4, <3>2, <3>5, <4>1, DecimalsReadable
    <3>6. CASE batch = "3pool"
      BY <1>4, <3>2, <3>6, ThreePoolReadable
    <3> QED
      BY <1>4, <3>4, <3>5, <3>6
  <2>6. HealthyRunDecodes'
    <3>1. faulted' = faulted /\ Healthy' = Healthy /\ \A b : Sound(b)' = Sound(b)
      BY <1>1, SameBlocks
    <3> QED
      BY <2>5, <3>1 DEF HealthyRunDecodes, Healthy
  <2> QED
    BY <2>2, <2>3, <2>4, <2>6 DEF LiveInv
<1>6. CASE /\ good /\ held' = Read(answers) /\ reports' = reports
           /\ IF batch = "pair" THEN Goto("send", "decimals") ELSE Goto("size", batch)
  <2>1. PICK b \in Blocks : answers = Told(b)
    <3>1. Fault \in {Fault, Reverted} /\ Reverted \in {Fault, Reverted}
      OBVIOUS
    <3>2. ~(reply \in {<<>>, Reverted} /\ ~Healthy /\ ~Decodes(<<>>)) /\ ~(reply = Fault)
      BY <1>6, <3>1
    <3> QED
      BY <1>3, <3>2
  <2>2. Readable(Told(b)) /\ held' = Read(Told(b))
    BY <1>6, <2>1
  <2>3. SizesOneBlock'
    BY <1>1, <1>6, SameBlocks DEF LiveInv, SizesOneBlock
  <2>4. CASE batch = "pair"
    <3>1. pc' = "send" /\ batch' = "decimals" /\ reports' = reports /\ reports = <<>>
      BY <1>1, <1>6, <2>4 DEF Goto, LiveInv, HeldOK
    <3>2. env.uniswap = UniswapPair /\ held' = PairRead(b)
      BY <1>4, <2>2, <2>4, PairReadable
    <3>3. HeldOK'
      BY <1>1, <3>1, <3>2, SameBlocks DEF HeldOK
    <3>4. ControlOK' /\ RequestOK' /\ ReplyOK' /\ HealthyRunDecodes'
      BY <1>1, <3>1, SameBlocks DEF LiveInv, ControlOK, RequestOK, ReplyOK, HealthyRunDecodes
    <3> QED
      BY <2>3, <3>3, <3>4 DEF LiveInv
  <2>5. CASE batch = "decimals"
    <3>1. pc' = "size" /\ batch' = "decimals" /\ reports' = reports /\ reports = <<>>
      BY <1>1, <1>6, <2>5 DEF Goto, LiveInv, HeldOK
    <3>2. PICK a \in Blocks : held = PairRead(a)
      BY <1>1, <2>5 DEF LiveInv, HeldOK
    <3>3. held' = PairIn(a)
      BY <1>4, <2>2, <2>5, <3>2, DecimalsReadable
    <3>4. HeldOK'
      BY <1>1, <3>1, <3>3, SameBlocks DEF HeldOK
    <3>5. ControlOK' /\ RequestOK' /\ ReplyOK' /\ HealthyRunDecodes'
      BY <1>1, <3>1, SameBlocks DEF LiveInv, ControlOK, RequestOK, ReplyOK, HealthyRunDecodes
    <3> QED
      BY <2>3, <3>4, <3>5 DEF LiveInv
  <2>6. CASE batch = "3pool"
    <3>1. pc' = "size" /\ batch' = "3pool" /\ reports' = reports /\ reports = <<reports[1]>>
      BY <1>1, <1>6, <2>6 DEF Goto, LiveInv, HeldOK
    <3>2. held' = ThreePoolRead(b)
      BY <1>4, <2>2, <2>6, ThreePoolReadable
    <3>3. HeldOK'
      BY <1>1, <3>1, <3>2, SameBlocks DEF HeldOK
    <3>4. ControlOK' /\ RequestOK' /\ ReplyOK' /\ HealthyRunDecodes'
      BY <1>1, <3>1, SameBlocks DEF LiveInv, ControlOK, RequestOK, ReplyOK, HealthyRunDecodes
    <3> QED
      BY <2>3, <3>3, <3>4 DEF LiveInv
  <2> QED
    BY <1>4, <2>4, <2>5, <2>6
<1> QED
  BY <1>2, <1>5, <1>6

(* A panic once the amounts are held. *)
LEMMA LatePanic ==
    ASSUME LiveInv, pc = "size", "amounts" \in DOMAIN held, Panic,
           UNCHANGED <<env, chain, request, reply, faulted>>
    PROVE  LiveInv'
<1>1. pc' = "panicked" /\ batch' = batch /\ held' = held /\ reports' = reports
  BY DEF Panic, Goto
<1>2. request = None
  BY DEF LiveInv, RequestOK
<1>3. ControlOK' /\ RequestOK'
  BY <1>1, <1>2, SameBlocks DEF LiveInv, ControlOK, RequestOK, Ended
<1>4. HeldOK' /\ ReplyOK' /\ HealthyRunDecodes'
  BY <1>1 DEF HeldOK, ReplyOK, HealthyRunDecodes
<1>5. SizesOneBlock'
  BY <1>1, SameBlocks DEF LiveInv, SizesOneBlock
<1> QED
  BY <1>3, <1>4, <1>5 DEF LiveInv

LEMMA SizePairStep ==
    ASSUME LiveInv, SizePair
    PROVE  LiveInv'
<1>1. /\ UNCHANGED <<env, chain, request, reply, faulted>>
      /\ pc = "size" /\ batch = "decimals"
  BY DEF SizePair
<1>2. PICK price \in Overrides :
        \/ Report([amounts |-> held.amounts], price) /\ Goto("send", "3pool")
        \/ Panic
  BY DEF SizePair
<1>3. reports = <<>> /\ \E b \in Blocks : held = PairIn(b)
  BY <1>1 DEF LiveInv, HeldOK
<1>4. PICK b \in Blocks : held = PairIn(b)
  BY <1>3
<1>5. [amounts |-> held.amounts] = PairIn(b) /\ "amounts" \in DOMAIN held
  BY <1>4 DEF PairIn
<1>6. request = None
  BY <1>1 DEF LiveInv, RequestOK
<1>7. CASE Report([amounts |-> held.amounts], price) /\ Goto("send", "3pool")
  <2> DEFINE sized == [pool |-> PairIn(b), price |-> price]
  <2>1. reports' = <<sized>> /\ pc' = "send" /\ batch' = "3pool"
    BY <1>3, <1>5, <1>7 DEF Report, Goto
  <2>2. sized.pool = PairIn(b)
    OBVIOUS
  <2> HIDE DEF sized
  <2>3. reports' = <<reports'[1]>> /\ Len(reports') = 1 /\ reports'[1].pool = PairIn(b)
    BY <2>1, <2>2
  <2>4. PairIn(b)' = PairIn(b)
    BY <1>1, SameBlocks
  <2>5. SizesOneBlock'
    BY <2>3, <2>4 DEF SizesOneBlock
  <2>6. HeldOK'
    BY <2>1, <2>3 DEF HeldOK
  <2>7. ControlOK' /\ RequestOK' /\ ReplyOK' /\ HealthyRunDecodes'
    BY <1>1, <1>6, <2>1, SameBlocks DEF LiveInv, ControlOK, RequestOK, ReplyOK, HealthyRunDecodes
  <2> QED
    BY <2>5, <2>6, <2>7 DEF LiveInv
<1>8. CASE Panic
  BY <1>1, <1>5, <1>8, LatePanic
<1> QED
  BY <1>2, <1>7, <1>8

LEMMA Size3PoolStep ==
    ASSUME LiveInv, Size3Pool
    PROVE  LiveInv'
<1>1. /\ UNCHANGED <<env, chain, request, reply, faulted>>
      /\ pc = "size" /\ batch = "3pool"
  BY DEF Size3Pool
<1> DEFINE pool(A) == [amounts |-> held.amounts, A |-> Override(A, held.A),
                       retention |-> FeeUnit - held.fee]
<1>2. PICK A \in Overrides, price \in Overrides :
        \/ A # {Garbage} /\ Report(pool(A), price) /\ Goto("done", batch)
        \/ Panic
  BY DEF Size3Pool
<1>3. reports = <<reports[1]>> /\ \E b \in Blocks : held = ThreePoolRead(b)
  BY <1>1 DEF LiveInv, HeldOK
<1>4. PICK b \in Blocks : held = ThreePoolRead(b)
  BY <1>3
<1>5. /\ "amounts" \in DOMAIN held /\ held.A = chain[b].A /\ held.fee = chain[b].fee
      /\ held.amounts = [k \in 1 .. 3 |-> Amount(chain[b].balances[k], <<18, 6, 6>>[k])]
  BY <1>4 DEF ThreePoolRead
<1>6. request = None
  BY <1>1 DEF LiveInv, RequestOK
<1>7. CASE A # {Garbage} /\ Report(pool(A), price) /\ Goto("done", batch)
  <2> DEFINE sized == [pool |-> pool(A), price |-> price]
             used == Override(A, held.A)
  <2>1. used \in {chain[b].A, 7}
    <3>1. A = {} \/ A = {7}
      BY <1>7 DEF Overrides
    <3> QED
      BY <1>5, <3>1 DEF Override
  <2>2. pool(A) = ThreePoolIn(b, used)
    BY <1>5 DEF ThreePoolIn
  <2>3. reports' = Append(reports, sized) /\ pc' = "done" /\ batch' = "3pool"
    BY <1>1, <1>7 DEF Report, Goto
  <2>4. sized.pool = ThreePoolIn(b, used)
    BY <2>2
  <2> HIDE DEF sized, used, pool
  <2>5. Len(reports') = 2 /\ reports'[1] = reports[1] /\ reports'[2] = sized
    <3> DEFINE first == reports[1]
    <3>1. reports = <<first>> /\ reports' = Append(<<first>>, sized)
      BY <1>3, <2>3
    <3> HIDE DEF first
    <3>2. Len(Append(<<first>>, sized)) = 2 /\ Append(<<first>>, sized)[1] = first
          /\ Append(<<first>>, sized)[2] = sized
      OBVIOUS
    <3> QED
      BY <3>1, <3>2 DEF first
  <2>6. \E a \in Blocks : reports[1].pool = PairIn(a)
    <3>1. Len(reports) = 1
      BY <1>3
    <3> QED
      BY <3>1 DEF LiveInv, SizesOneBlock
  <2>7. chain' = chain /\ (\A a : PairIn(a)' = PairIn(a)) /\ \A a, v : ThreePoolIn(a, v)' = ThreePoolIn(a, v)
    BY <1>1, SameBlocks
  <2>8. SizesOneBlock'
    BY <2>1, <2>4, <2>5, <2>6, <2>7 DEF SizesOneBlock
  <2>9. ControlOK' /\ RequestOK' /\ HeldOK' /\ ReplyOK' /\ HealthyRunDecodes'
    BY <1>1, <1>6, <2>3, SameBlocks DEF LiveInv, ControlOK, RequestOK, HeldOK, ReplyOK,
                                        HealthyRunDecodes, Ended
  <2> QED
    BY <2>8, <2>9 DEF LiveInv
<1>8. CASE Panic
  BY <1>1, <1>5, <1>8, LatePanic
<1> QED
  BY <1>2, <1>7, <1>8

LEMMA LiveStutter ==
    ASSUME LiveInv, UNCHANGED vars
    PROVE  LiveInv'
<1>1. UNCHANGED <<env, chain, pc, batch, request, reply, held, reports, faulted>>
  BY DEF vars
<1>2. ControlOK' /\ HeldOK' /\ HealthyRunDecodes'
  BY <1>1, SameBlocks DEF LiveInv, ControlOK, HeldOK, HealthyRunDecodes
<1>3. RequestOK'
  BY <1>1 DEF LiveInv, RequestOK, Calls
<1>4. ReplyOK'
  BY <1>1 DEF LiveInv, ReplyOK, Healthy, Told, ReservesData
<1>5. SizesOneBlock'
  BY <1>1, SameBlocks DEF LiveInv, SizesOneBlock
<1> QED
  BY <1>2, <1>3, <1>4, <1>5 DEF LiveInv

(* The inductive invariant holds: what is held is one block's, and an answer is *)
(* all of one block's or nothing.                                               *)
THEOREM LiveInvariant == Spec => []LiveInv
<1>1. Init => LiveInv
  BY LiveInit
<1>2. LiveInv /\ [Next]_vars => LiveInv'
  <2> SUFFICES ASSUME LiveInv, [Next]_vars
               PROVE  LiveInv'
    OBVIOUS
  <2>1. CASE Program
    BY <2>1, StartStep, SendStep, DecodeStep, SizePairStep, Size3PoolStep DEF Program
  <2>2. CASE Node
    BY <2>2, FailStep, AnswerStep DEF Node
  <2>3. CASE Over \/ UNCHANGED vars
    BY <2>3, LiveStutter DEF Over
  <2> QED
    BY <2>1, <2>2, <2>3 DEF Next
<1> QED
  BY <1>1, <1>2, PTL DEF Spec

(* A pool that is sized is the pool as it was in one block, every number in *)
(* its place and with its own token's decimals, although main reads the     *)
(* pair in two batches and the node may answer each from another block.     *)
THEOREM AlwaysSizesOneBlock == Spec => []SizesOneBlock
<1>1. LiveInv => SizesOneBlock
  BY DEF LiveInv
<1> QED
  BY <1>1, LiveInvariant, PTL

(* With the right addresses, a node that answers and pools that can be sized, *)
(* main does not panic before the pair is sized and the answer for the 3pool  *)
(* is decoded.                                                                *)
THEOREM AlwaysDecodes == Spec => []HealthyRunDecodes
<1>1. LiveInv => HealthyRunDecodes
  BY DEF LiveInv
<1> QED
  BY <1>1, LiveInvariant, PTL

=============================================================================
