---------------------------- MODULE FileLogProofs ----------------------------
(***************************************************************************)
(* Theorems about FileLog, for any number of threads, calls and loggers    *)
(* and messages of any length: what a logger wrote is what postform_persist*)
(* reads, behind whatever an earlier run or a crash left in the file.      *)
(***************************************************************************)
EXTENDS FileLog, Recursion, SequenceTheorems

\* What uint32_t can say of a message.
Fits(n) == n \in Nat /\ n \div 16777216 <= 255
-----------------------------------------------------------------------------
(* Sizes and records. *)

\* The four bytes of a size say it.
LEMMA SizeBytesSay ==
  ASSUME NEW n, Fits(n)
  PROVE  /\ SizeBytes(n) \in Seq(Byte) /\ Len(SizeBytes(n)) = 4
         /\ SizeBytes(n)[1] + 256 * SizeBytes(n)[2] + 65536 * SizeBytes(n)[3]
              + 16777216 * SizeBytes(n)[4] = n
<1> DEFINE b1 == n % 256
           b2 == (n \div 256) % 256
           b3 == (n \div 65536) % 256
           b4 == (n \div 16777216) % 256
<1>1. n \in Nat
      BY DEF Fits
<1>2. b1 \in Byte /\ b2 \in Byte /\ b3 \in Byte /\ b4 \in Byte
      BY <1>1 DEF Byte
<1>3. b4 = n \div 16777216
      BY <1>1 DEF Fits
<1>4. n = 256 * (n \div 256) + b1
      BY <1>1
<1>5. n \div 256 = 256 * (n \div 65536) + b2
      BY <1>1
<1>6. n \div 65536 = 256 * (n \div 16777216) + b3
      BY <1>1
<1>7. b1 + 256 * b2 + 65536 * b3 + 16777216 * b4 = n
  <2>1. n \div 256 \in Nat /\ n \div 65536 \in Nat /\ n \div 16777216 \in Nat
        BY <1>1
  <2>2. \A x1, x2, x3, x4, y1, y2 \in Nat :
          n = 256 * y1 + x1 /\ y1 = 256 * y2 + x2 /\ y2 = 256 * x4 + x3
            => x1 + 256 * x2 + 65536 * x3 + 16777216 * x4 = n
        BY <1>1
  <2>3. b1 \in Nat /\ b2 \in Nat /\ b3 \in Nat /\ b4 \in Nat
        BY <1>2 DEF Byte
  <2> HIDE DEF b1, b2, b3, b4
  <2>4. QED
        BY <1>3, <1>4, <1>5, <1>6, <2>1, <2>2, <2>3
<1> HIDE DEF b1, b2, b3, b4
<1>8. SizeBytes(n) = <<b1, b2, b3, b4>>
      BY DEF SizeBytes, b1, b2, b3, b4
<1>9. QED
      BY <1>2, <1>7, <1>8

LEMMA RecordSizeType ==
  ASSUME NEW data \in Seq(Byte), NEW p \in Nat, p + 4 <= Len(data)
  PROVE  RecordSize(data, p) \in Nat /\ NextRecord(data, p) \in Nat
         /\ NextRecord(data, p) >= p + 4
<1>1. Len(data) \in Nat
      BY LenProperties
<1>2. \A i \in 1 .. Len(data) : data[i] \in Nat
  <2>1. \A i \in 1 .. Len(data) : data[i] \in Byte
        BY ElementOfSeq
  <2>2. Byte \subseteq Nat
        BY DEF Byte
  <2>3. QED
        BY <2>1, <2>2
<1>3. /\ data[p + 1] \in Nat /\ data[p + 2] \in Nat
      /\ data[p + 3] \in Nat /\ data[p + 4] \in Nat
      BY <1>1, <1>2
<1>4. RecordSize(data, p) \in Nat
  <2> DEFINE b1 == data[p + 1]
             b2 == data[p + 2]
             b3 == data[p + 3]
             b4 == data[p + 4]
  <2>1. RecordSize(data, p) = b1 + 256 * b2 + 65536 * b3 + 16777216 * b4
        BY DEF RecordSize
  <2>2. b1 \in Nat /\ b2 \in Nat /\ b3 \in Nat /\ b4 \in Nat
        BY <1>3
  <2> HIDE DEF b1, b2, b3, b4
  <2>3. QED
        BY <2>1, <2>2
<1>5. QED
      BY <1>4 DEF NextRecord

ReadState == [records : Seq(Seq(Byte)), panics : BOOLEAN]

\* A record is there, after p bytes.
Readable(data, p) == p + 4 <= Len(data) /\ NextRecord(data, p) <= Len(data)

\* The recursive definition of ReadFrom, unfolded: a readable record is read
\* before what follows it.
LEMMA ReadFromIs ==
  ASSUME NEW data \in Seq(Byte)
  PROVE  /\ ReadFrom(data) \in [0 .. Len(data) -> ReadState]
         /\ ReadFrom(data)[Len(data)] = [records |-> << >>, panics |-> FALSE]
         /\ \A p \in 0 .. Len(data) : Readable(data, p) =>
              ReadFrom(data)[p] =
                [records |-> <<SubSeq(data, p + 5, NextRecord(data, p))>>
                               \o ReadFrom(data)[NextRecord(data, p)].records,
                 panics  |-> ReadFrom(data)[NextRecord(data, p)].panics]
         /\ \A p \in 0 .. Len(data) : p # Len(data) /\ ~ Readable(data, p) =>
              ReadFrom(data)[p] = Panic
<1> DEFINE N == Len(data)
           Rec(p) == SubSeq(data, p + 5, NextRecord(data, p))
           More(p, r) == [records |-> <<Rec(p)>> \o r.records, panics |-> r.panics]
           At(p, r) == IF Readable(data, p) THEN More(p, r) ELSE Panic
           done == [records |-> << >>, panics |-> FALSE]
           \* by the number of bytes left
           link == [k \in 1 .. N |-> IF Readable(data, N - k)
                                     THEN N - NextRecord(data, N - k) ELSE 0]
           step == [k \in 1 .. N |-> [r \in ReadState |-> At(N - k, r)]]
<1>1. N \in Nat
      BY LenProperties
<1>2. ASSUME NEW p \in 0 .. N, Readable(data, p)
      PROVE  /\ RecordSize(data, p) \in Nat
             /\ NextRecord(data, p) \in p + 4 .. N
             /\ p < N
  <2>1. p \in Nat /\ p + 4 <= Len(data) /\ NextRecord(data, p) <= N
        BY <1>1, <1>2 DEF Readable
  <2>2. QED
        BY <1>1, <2>1, RecordSizeType
<1>3. Backward(link, N)
  <2>1. ASSUME NEW k \in 1 .. N PROVE link[k] \in Nat /\ link[k] < k
    <3>1. N - k \in 0 .. N /\ k \in Nat /\ k > 0
          BY <1>1
    <3>2. CASE Readable(data, N - k)
      <4>1. NextRecord(data, N - k) \in (N - k) + 4 .. N
            BY <1>2, <3>1, <3>2
      <4>2. link[k] = N - NextRecord(data, N - k)
            BY <3>2
      <4>3. QED
            BY <1>1, <3>1, <4>1, <4>2
    <3>3. CASE ~ Readable(data, N - k)
          BY <3>1, <3>3
    <3>4. QED
          BY <3>2, <3>3
  <2>2. link = [k \in 1 .. N |-> link[k]]
        OBVIOUS
  <2> HIDE DEF link
  <2>3. QED
        BY <2>1, <2>2 DEF Backward
<1>4. ASSUME NEW p \in 0 .. N, NEW r \in ReadState PROVE At(p, r) \in ReadState
  <2>1. Panic \in ReadState
        BY EmptySeq DEF Panic, ReadState
  <2>2. ASSUME Readable(data, p) PROVE More(p, r) \in ReadState
    <3>1. NextRecord(data, p) \in p + 4 .. N /\ p \in Nat
          BY <1>2, <2>2
    <3>2. Rec(p) \in Seq(Byte)
      <4>1. p + 5 \in 1 .. Len(data) + 1 /\ NextRecord(data, p) \in 0 .. Len(data)
            BY <1>1, <3>1
      <4>a. \A i \in p + 5 .. NextRecord(data, p) : i \in 1 .. Len(data)
            BY <1>1, <3>1
      <4>2. \A i \in p + 5 .. NextRecord(data, p) : data[i] \in Byte
        <5>1. \A i \in 1 .. Len(data) : data[i] \in Byte
              BY ElementOfSeq
        <5>2. QED
              BY <4>a, <5>1
      <4>3. QED
            BY <1>1, <3>1, <4>2, SubSeqProperties
    <3> HIDE DEF Rec
    <3>3. <<Rec(p)>> \in Seq(Seq(Byte))
          BY <3>2
    <3>4. r.records \in Seq(Seq(Byte)) /\ r.panics \in BOOLEAN
          BY DEF ReadState
    <3>5. <<Rec(p)>> \o r.records \in Seq(Seq(Byte))
          BY <3>3, <3>4, ConcatProperties
    <3>6. QED
          BY <3>4, <3>5 DEF ReadState
  <2>3. QED
        BY <2>1, <2>2
<1>5. StepsIn(step, N, ReadState)
  <2>1. \A k \in 1 .. N : N - k \in 0 .. N
        BY <1>1
  <2> HIDE DEF At, N
  <2>2. QED
        BY <1>4, <2>1 DEF StepsIn
<1>6. done \in ReadState
      BY EmptySeq DEF ReadState
<1>7. PICK g : Recursive(g, N, ReadState, done, link, step)
  <2> HIDE DEF N, link, step, done
  <2>1. QED
        BY <1>1, <1>3, <1>5, <1>6, RecursiveFunction
<1> DEFINE f == [p \in 0 .. N |-> g[N - p]]
<1>8. g \in [0 .. N -> ReadState] /\ g[0] = done
      BY <1>7 DEF Recursive
<1>9. f \in [0 .. N -> ReadState]
  <2>1. \A p \in 0 .. N : N - p \in 0 .. N
        BY <1>1
  <2> HIDE DEF N
  <2>2. QED
        BY <1>8, <2>1
<1>10. f[N] = done
  <2>1. N \in 0 .. N /\ N - N = 0
        BY <1>1
  <2> HIDE DEF N, done
  <2>2. QED
        BY <1>8, <2>1
<1>11. ASSUME NEW p \in 0 .. N, p # N
       PROVE  f[p] = At(p, f[NextRecord(data, p)])
  <2> DEFINE k == N - p
  <2>1. k \in 1 .. N /\ N - k = p /\ f[p] = g[k]
        BY <1>1, <1>11
  <2>2. g[k] = step[k][g[link[k]]]
    <3> HIDE DEF link, step, k, N, done
    <3>1. QED
          BY <1>7, <2>1 DEF Recursive
  <2>3. link[k] \in 0 .. N
    <3> HIDE DEF link, k
    <3>1. QED
          BY <1>1, <1>3, <2>1 DEF Backward
  <2>4. g[link[k]] \in ReadState
    <3> HIDE DEF link, k, N
    <3>1. QED
          BY <1>8, <2>3
  <2>5. step[k] = [r \in ReadState |-> At(p, r)]
    <3> HIDE DEF At, k, N
    <3>1. QED
          BY <2>1
  <2>6. g[k] = At(p, g[link[k]])
    <3> HIDE DEF At, k, N, step, link
    <3>1. QED
          BY <2>2, <2>4, <2>5
  <2>7. CASE Readable(data, p)
    <3>1. NextRecord(data, p) \in 0 .. N
          BY <1>1, <1>2, <2>7
    <3>2. link[k] = N - NextRecord(data, p)
      <4> HIDE DEF k, N
      <4>1. QED
            BY <2>1, <2>7
    <3>3. f[NextRecord(data, p)] = g[link[k]]
      <4> HIDE DEF k, link, N
      <4>1. QED
            BY <3>1, <3>2
    <3> HIDE DEF f, At, k, link, N
    <3>4. QED
          BY <2>1, <2>6, <3>3
  <2>8. CASE ~ Readable(data, p)
    <3> HIDE DEF f, More, k, link, N
    <3>1. QED
          BY <2>1, <2>6, <2>8
  <2>9. QED
        BY <2>7, <2>8
<1>12. ASSUME NEW p \in 0 .. N, NEW h
       PROVE  (IF p = Len(data) THEN [records |-> << >>, panics |-> FALSE]
               ELSE IF p + 4 > Len(data) \/ p + 4 + RecordSize(data, p) > Len(data)
                    THEN Panic
               ELSE [records |-> <<SubSeq(data, p + 5, p + 4 + RecordSize(data, p))>>
                                 \o h[NextRecord(data, p)].records,
                     panics  |-> h[NextRecord(data, p)].panics])
              = (IF p = N THEN done ELSE At(p, h[NextRecord(data, p)]))
  <2>1. NextRecord(data, p) = p + 4 + RecordSize(data, p)
        BY DEF NextRecord
  <2>2. p + 4 \in Nat /\ N \in Nat
        BY <1>1
  <2>3. CASE p + 4 > N
        BY <2>2, <2>3 DEF Readable
  <2>4. CASE p + 4 <= N
    <3>1. RecordSize(data, p) \in Nat
          BY <1>1, <2>4, RecordSizeType
    <3>2. Readable(data, p) <=> p + 4 + RecordSize(data, p) <= N
          BY <2>1, <2>4 DEF Readable
    <3>3. QED
      <4>1. p + 4 > Len(data) \/ p + 4 + RecordSize(data, p) > Len(data)
              <=> ~ Readable(data, p)
            BY <2>2, <2>4, <3>1, <3>2
      <4> HIDE DEF N
      <4>2. QED
            BY <2>1, <4>1 DEF N
  <2>5. QED
        BY <2>2, <2>3, <2>4
<1> HIDE DEF f
<1>13. f = [p \in 0 .. Len(data) |->
             IF p = Len(data) THEN [records |-> << >>, panics |-> FALSE]
             ELSE IF p + 4 > Len(data) \/ p + 4 + RecordSize(data, p) > Len(data) THEN Panic
             ELSE [records |-> <<SubSeq(data, p + 5, p + 4 + RecordSize(data, p))>>
                               \o f[NextRecord(data, p)].records,
                   panics  |-> f[NextRecord(data, p)].panics]]
  <2>1. ASSUME NEW p \in 0 .. N
        PROVE  f[p] = IF p = N THEN done ELSE At(p, f[NextRecord(data, p)])
    <3> HIDE DEF At, done
    <3>1. QED
          BY <1>10, <1>11
  <2>2. f = [p \in 0 .. N |-> f[p]]
        BY <1>9
  <2>3. f = [p \in 0 .. N |-> IF p = N THEN done ELSE At(p, f[NextRecord(data, p)])]
    <3> HIDE DEF At, done
    <3>1. QED
          BY <2>1, <2>2
  <2>4. QED
    <3>1. \A p \in 0 .. N :
            (IF p = Len(data) THEN [records |-> << >>, panics |-> FALSE]
             ELSE IF p + 4 > Len(data) \/ p + 4 + RecordSize(data, p) > Len(data)
                  THEN Panic
             ELSE [records |-> <<SubSeq(data, p + 5, p + 4 + RecordSize(data, p))>>
                               \o f[NextRecord(data, p)].records,
                   panics  |-> f[NextRecord(data, p)].panics])
            = f[p]
          BY <1>12, <2>1
    <3>2. QED
          BY <2>2, <3>1
<1>14. ReadFrom(data) =
         [p \in 0 .. Len(data) |->
           IF p = Len(data) THEN [records |-> << >>, panics |-> FALSE]
           ELSE IF p + 4 > Len(data) \/ p + 4 + RecordSize(data, p) > Len(data) THEN Panic
           ELSE [records |-> <<SubSeq(data, p + 5, p + 4 + RecordSize(data, p))>>
                             \o ReadFrom(data)[NextRecord(data, p)].records,
                 panics  |-> ReadFrom(data)[NextRecord(data, p)].panics]]
       BY <1>13 DEF ReadFrom
<1> HIDE DEF f, N
<1>15. ReadFrom(data)[Len(data)] = done
       BY <1>1, <1>14 DEF N
<1>16. ASSUME NEW p \in 0 .. Len(data), Readable(data, p)
       PROVE  ReadFrom(data)[p] = More(p, ReadFrom(data)[NextRecord(data, p)])
  <2>1. /\ RecordSize(data, p) \in Nat /\ NextRecord(data, p) \in p + 4 .. Len(data)
        /\ p < Len(data) /\ p \in Nat
        BY <1>1, <1>2, <1>16 DEF N
  <2>2. NextRecord(data, p) = p + 4 + RecordSize(data, p)
        BY DEF NextRecord
  <2>3. p # Len(data) /\ ~ (p + 4 > Len(data) \/ p + 4 + RecordSize(data, p) > Len(data))
        BY <1>1, <2>1, <2>2 DEF N
  <2>4. ReadFrom(data)[p] =
          [records |-> <<SubSeq(data, p + 5, p + 4 + RecordSize(data, p))>>
                         \o ReadFrom(data)[NextRecord(data, p)].records,
           panics  |-> ReadFrom(data)[NextRecord(data, p)].panics]
        BY <1>14, <2>3
  <2>5. QED
        BY <2>2, <2>4
<1>17. ASSUME NEW p \in 0 .. Len(data), p # Len(data), ~ Readable(data, p)
       PROVE  ReadFrom(data)[p] = Panic
  <2>1. (IF p = N THEN done
         ELSE At(p, ReadFrom(data)[NextRecord(data, p)])) = ReadFrom(data)[p]
    <3>1. p \in 0 .. N
          BY DEF N
    <3> HIDE DEF At, done
    <3>2. QED
          BY <1>12, <1>14, <3>1
  <2> HIDE DEF done
  <2>2. QED
        BY <1>17, <2>1 DEF N
<1>18. ReadFrom(data) \in [0 .. Len(data) -> ReadState]
  <2> DEFINE K == {k \in Nat : k <= N => ReadFrom(data)[N - k] \in ReadState}
  <2>1. ASSUME NEW k \in Nat, 0 .. k - 1 \subseteq K
        PROVE  k \in K
    <3>1. SUFFICES ASSUME k <= N PROVE ReadFrom(data)[N - k] \in ReadState
          OBVIOUS
    <3> DEFINE p == N - k
    <3>2. p \in 0 .. N /\ p \in 0 .. Len(data) /\ k = N - p
          BY <1>1, <3>1 DEF N
    <3> HIDE DEF p
    <3>3. SUFFICES ReadFrom(data)[p] \in ReadState
          BY DEF p
    <3>4. CASE p = Len(data)
          BY <1>6, <1>15, <3>4
    <3>5. CASE Readable(data, p)
      <4> DEFINE q == NextRecord(data, p)
      <4>1. q \in p + 4 .. N
            BY <1>2, <3>2, <3>5
      <4> HIDE DEF q
      <4>2. N - q \in 0 .. k - 1 /\ N - q <= N /\ N - (N - q) = q
            BY <1>1, <3>2, <4>1
      <4>3. ReadFrom(data)[q] \in ReadState
            BY <2>1, <4>2
      <4>4. ReadFrom(data)[p] = More(p, ReadFrom(data)[q])
            BY <1>16, <3>2, <3>5 DEF q
      <4>5. At(p, ReadFrom(data)[q]) \in ReadState
        <5> HIDE DEF At
        <5>1. QED
              BY <1>4, <3>2, <4>3
      <4>6. QED
            BY <3>5, <4>4, <4>5
    <3>6. CASE p # Len(data) /\ ~ Readable(data, p)
      <4>1. ReadFrom(data)[p] = Panic
            BY <1>17, <3>2, <3>6
      <4>2. Panic \in ReadState
            BY EmptySeq DEF Panic, ReadState
      <4>3. QED
            BY <4>1, <4>2
    <3>7. QED
          BY <3>4, <3>5, <3>6
  <2>2. Nat \subseteq K
    <3> HIDE DEF K
    <3>1. QED
          BY <2>1, StrongInduction
  <2>3. ASSUME NEW p \in 0 .. Len(data) PROVE ReadFrom(data)[p] \in ReadState
    <3>1. N - p \in Nat /\ N - p <= N /\ N - (N - p) = p
          BY <1>1 DEF N
    <3>2. N - p \in K
          BY <2>2, <3>1
    <3>3. QED
          BY <3>1, <3>2
  <2>4. ReadFrom(data) = [p \in 0 .. Len(data) |-> ReadFrom(data)[p]]
        BY <1>14
  <2>5. QED
        BY <2>3, <2>4
<1>19. QED
       BY <1>15, <1>16, <1>17, <1>18
-----------------------------------------------------------------------------
(* Files that begin with given records. *)

\* The record of message m is in the file after p bytes.
RecordAt(data, p, m) ==
  /\ p + 4 + Len(m) <= Len(data)
  /\ RecordSize(data, p) = Len(m)
  /\ SubSeq(data, p + 5, p + 4 + Len(m)) = m

\* The records of ms follow each other from the start; at[i] is where the first i
\* of them end.
Placed(data, ms, at) ==
  /\ at \in [0 .. Len(ms) -> Nat] /\ at[0] = 0
  /\ \A i \in 1 .. Len(ms) :
       at[i] = at[i - 1] + 4 + Len(ms[i]) /\ RecordAt(data, at[i - 1], ms[i])
  /\ \A i \in 0 .. Len(ms) : at[i] <= at[Len(ms)]
Laid(data, ms, end) ==
  end <= Len(data) /\ \E at : Placed(data, ms, at) /\ at[Len(ms)] = end

\* A record depends on the bytes up to its end only.
LEMMA RecordKept ==
  ASSUME NEW data \in Seq(Byte), NEW new \in Seq(Byte), NEW p \in Nat,
         NEW m \in Seq(Byte), NEW end \in Nat, end <= Len(data), end <= Len(new),
         \A i \in 1 .. end : new[i] = data[i],
         p + 4 + Len(m) <= end, RecordAt(data, p, m)
  PROVE  RecordAt(new, p, m)
<1> DEFINE k == Len(m)
<1>1. k \in Nat /\ Len(data) \in Nat /\ Len(new) \in Nat
      BY LenProperties
<1>2. RecordSize(new, p) = RecordSize(data, p)
  <2>1. p + 1 \in 1 .. end /\ p + 2 \in 1 .. end /\ p + 3 \in 1 .. end /\ p + 4 \in 1 .. end
        BY <1>1
  <2>2. new[p + 1] = data[p + 1] /\ new[p + 2] = data[p + 2]
        /\ new[p + 3] = data[p + 3] /\ new[p + 4] = data[p + 4]
        BY <2>1
  <2>3. QED
        BY <2>2 DEF RecordSize
<1> DEFINE i == p + 5
           j == p + 4 + k
<1>3. /\ i \in Int /\ j \in Int
      /\ \A n \in i .. j : new[n] \in Byte /\ data[n] \in Byte /\ new[n] = data[n]
  <2>1. i \in Int /\ j \in Int /\ \A n \in i .. j : n \in 1 .. end
        BY <1>1
  <2>2. \A n \in 1 .. end : n \in 1 .. Len(data)
        BY <1>1
  <2>3. \A n \in 1 .. Len(data) : data[n] \in Byte
        BY ElementOfSeq
  <2> HIDE DEF i, j
  <2>4. QED
        BY <2>1, <2>2, <2>3
<1> HIDE DEF i, j
<1>4. SubSeq(new, i, j) = SubSeq(data, i, j)
  <2>1. /\ SubSeq(data, i, j) \in Seq(Byte)
        /\ Len(SubSeq(data, i, j)) = IF i <= j THEN j - i + 1 ELSE 0
        /\ \A n \in 1 .. j - i + 1 : SubSeq(data, i, j)[n] = data[i + n - 1]
        BY <1>3, SubSeqProperties
  <2>2. /\ SubSeq(new, i, j) \in Seq(Byte)
        /\ Len(SubSeq(new, i, j)) = IF i <= j THEN j - i + 1 ELSE 0
        /\ \A n \in 1 .. j - i + 1 : SubSeq(new, i, j)[n] = new[i + n - 1]
        BY <1>3, SubSeqProperties
  <2>3. ASSUME NEW n \in 1 .. Len(SubSeq(new, i, j))
        PROVE  SubSeq(new, i, j)[n] = SubSeq(data, i, j)[n]
    <3>1. n \in 1 .. j - i + 1 /\ i + n - 1 \in i .. j
          BY <1>3, <2>2
    <3>2. QED
          BY <1>3, <2>1, <2>2, <3>1
  <2>4. Len(SubSeq(new, i, j)) = Len(SubSeq(data, i, j))
        BY <2>1, <2>2
  <2>5. QED
        BY <2>1, <2>2, <2>3, <2>4, SeqEqual
<1>5. QED
      BY <1>1, <1>2, <1>4 DEF RecordAt, i, j

\* So do the records up to there.
LEMMA LaidKept ==
  ASSUME NEW data \in Seq(Byte), NEW new \in Seq(Byte), NEW ms \in Seq(Seq(Byte)),
         NEW end \in Nat, end <= Len(new), \A i \in 1 .. end : new[i] = data[i],
         Laid(data, ms, end)
  PROVE  Laid(new, ms, end)
<1>1. end <= Len(data)
      BY DEF Laid
<1>2. PICK at : Placed(data, ms, at) /\ at[Len(ms)] = end
      BY DEF Laid
<1>3. Len(ms) \in Nat
      BY LenProperties
<1>4. ASSUME NEW i \in 1 .. Len(ms) PROVE RecordAt(new, at[i - 1], ms[i])
  <2>1. ms[i] \in Seq(Byte) /\ Len(ms[i]) \in Nat
        BY ElementOfSeq, LenProperties
  <2>2. i - 1 \in 0 .. Len(ms) /\ i \in 0 .. Len(ms)
        BY <1>3
  <2>3. at[i - 1] \in Nat
        BY <1>2, <2>2 DEF Placed
  <2>4. at[i] = at[i - 1] + 4 + Len(ms[i]) /\ RecordAt(data, at[i - 1], ms[i])
        BY <1>2 DEF Placed
  <2>5. at[i] <= end
        BY <1>2, <2>2 DEF Placed
  <2>6. QED
        BY <1>1, <2>1, <2>3, <2>4, <2>5, RecordKept
<1>5. Placed(new, ms, at)
      BY <1>2, <1>4 DEF Placed
<1>6. QED
      BY <1>2, <1>5 DEF Laid

LEMMA LaidNone ==
  ASSUME NEW data \in Seq(Byte), NEW end
  PROVE  Laid(data, << >>, end) <=> end = 0
<1>1. Len(data) \in Nat /\ Len(<< >>) = 0
      BY LenProperties
<1>2. ASSUME Laid(data, << >>, end) PROVE end = 0
      BY <1>1, <1>2 DEF Laid, Placed
<1>3. Placed(data, << >>, [i \in 0 .. 0 |-> 0])
      BY <1>1 DEF Placed
<1>4. Laid(data, << >>, 0)
  <2>1. [i \in 0 .. 0 |-> 0][Len(<< >>)] = 0
        BY <1>1
  <2>2. QED
        BY <1>1, <1>3, <2>1 DEF Laid
<1>5. QED
      BY <1>2, <1>4

\* One record more.
LEMMA LaidMore ==
  ASSUME NEW data \in Seq(Byte), NEW ms \in Seq(Seq(Byte)), NEW end \in Nat,
         NEW m \in Seq(Byte), Laid(data, ms, end), RecordAt(data, end, m)
  PROVE  Laid(data, Append(ms, m), end + 4 + Len(m))
<1>1. PICK at : Placed(data, ms, at) /\ at[Len(ms)] = end
      BY DEF Laid
<1>2. Len(ms) \in Nat /\ Len(m) \in Nat
      BY LenProperties
<1>3. PICK ns : ns = Append(ms, m)
      OBVIOUS
<1>4. /\ ns \in Seq(Seq(Byte)) /\ Len(ns) = Len(ms) + 1 /\ ns[Len(ms) + 1] = m
      /\ \A i \in 1 .. Len(ms) : ns[i] = ms[i]
      BY <1>3, AppendProperties
<1> DEFINE L == Len(ms)
           last == end + 4 + Len(m)
           more == [i \in 0 .. L + 1 |-> IF i = L + 1 THEN last ELSE at[i]]
<1>5. \A i \in 0 .. L : at[i] \in Nat /\ at[i] <= end
      BY <1>1 DEF Placed
<1>6. last \in Nat /\ end <= last
      BY <1>2
<1> HIDE DEF last
<1>7. more \in [0 .. L + 1 -> Nat] /\ more[0] = 0 /\ more[L + 1] = last
      /\ \A i \in 0 .. L : more[i] = at[i]
  <2>1. 0 # L + 1 /\ 0 \in 0 .. L + 1 /\ L + 1 \in 0 .. L + 1
        /\ \A i \in 0 .. L : i \in 0 .. L + 1 /\ i # L + 1
        BY <1>2
  <2>2. \A i \in 0 .. L + 1 : i # L + 1 => i \in 0 .. L
        BY <1>2
  <2>3. at[0] = 0
        BY <1>1 DEF Placed
  <2> HIDE DEF L
  <2>4. QED
        BY <1>5, <1>6, <2>1, <2>2, <2>3
<1> HIDE DEF more
<1>8. ASSUME NEW i \in 1 .. L + 1
      PROVE  more[i] = more[i - 1] + 4 + Len(ns[i]) /\ RecordAt(data, more[i - 1], ns[i])
  <2>1. CASE i = L + 1
    <3>1. i - 1 = L /\ L \in 0 .. L
          BY <1>2, <2>1
    <3>2. more[i - 1] = end /\ ns[i] = m /\ more[i] = last
          BY <1>1, <1>4, <1>7, <2>1, <3>1
    <3>3. QED
          BY <3>2 DEF last
  <2>2. CASE i # L + 1
    <3>1. i \in 1 .. L /\ i \in 0 .. L /\ i - 1 \in 0 .. L
          BY <1>2, <2>2
    <3>2. more[i] = at[i] /\ more[i - 1] = at[i - 1] /\ ns[i] = ms[i]
          BY <1>4, <1>7, <3>1
    <3>3. at[i] = at[i - 1] + 4 + Len(ms[i]) /\ RecordAt(data, at[i - 1], ms[i])
          BY <1>1, <3>1 DEF Placed
    <3>4. QED
          BY <3>2, <3>3
  <2>3. QED
        BY <2>1, <2>2
<1>9. \A i \in 0 .. L + 1 : more[i] <= last
  <2>1. ASSUME NEW i \in 0 .. L + 1 PROVE more[i] <= last
    <3>1. CASE i = L + 1
          BY <1>6, <1>7, <3>1
    <3>2. CASE i # L + 1
      <4>1. i \in 0 .. L
            BY <1>2, <3>2
      <4>2. more[i] \in Nat /\ more[i] <= end
            BY <1>5, <1>7, <4>1
      <4>3. QED
            BY <1>6, <4>2
    <3>3. QED
          BY <3>1, <3>2
  <2>2. QED
        BY <2>1
<1>10. Placed(data, ns, more) /\ more[Len(ns)] = last
       BY <1>4, <1>7, <1>8, <1>9 DEF Placed
<1>11. last <= Len(data)
       BY DEF last, RecordAt
<1>12. QED
       BY <1>3, <1>10, <1>11 DEF Laid, last

\* Concatenation of records is associative.
LEMMA RecordsAssociative ==
  ASSUME NEW a \in Seq(Seq(Byte)), NEW b \in Seq(Seq(Byte)), NEW c \in Seq(Seq(Byte))
  PROVE  (a \o b) \o c = a \o (b \o c)
<1> DEFINE S == Seq(Byte)
<1>1. a \in Seq(S) /\ b \in Seq(S) /\ c \in Seq(S)
      OBVIOUS
<1> HIDE DEF S
<1>2. QED
      BY <1>1, ConcatAssociative, SMTT(30)

\* The reader takes the records a file begins with first, and then goes on where
\* they end.
LEMMA LaidRead ==
  ASSUME NEW data \in Seq(Byte), NEW ms \in Seq(Seq(Byte)), NEW end \in Nat,
         Laid(data, ms, end)
  PROVE  /\ ReadFrom(data)[end] \in ReadState
         /\ ReadFrom(data)[0] = [records |-> ms \o ReadFrom(data)[end].records,
                                 panics  |-> ReadFrom(data)[end].panics]
<1> DEFINE L == Len(ms)
           R == ReadFrom(data)
<1>1. L \in Nat /\ Len(data) \in Nat /\ end <= Len(data)
      BY LenProperties DEF Laid
<1>2. PICK at : Placed(data, ms, at) /\ at[L] = end
      BY DEF Laid
<1>3. /\ \A p \in 0 .. Len(data) : R[p] \in ReadState
      /\ \A p \in 0 .. Len(data) : Readable(data, p) =>
           R[p] = [records |-> <<SubSeq(data, p + 5, NextRecord(data, p))>>
                                 \o R[NextRecord(data, p)].records,
                   panics  |-> R[NextRecord(data, p)].panics]
      BY ReadFromIs
<1>4. \A i \in 0 .. L : at[i] \in 0 .. Len(data) /\ R[at[i]] \in ReadState
  <2>1. \A i \in 0 .. L : at[i] \in Nat /\ at[i] <= end
        BY <1>2 DEF Placed
  <2>2. \A i \in 0 .. L : at[i] \in 0 .. Len(data)
        BY <1>1, <2>1
  <2> HIDE DEF R, L
  <2>3. QED
        BY <1>3, <2>2
<1> HIDE DEF R
<1>5. \A i \in 0 .. L : R[at[i]].records \in Seq(Seq(Byte))
      BY <1>4 DEF ReadState
<1>6. ASSUME NEW i \in 1 .. L
      PROVE  R[at[i - 1]] = [records |-> <<ms[i]>> \o R[at[i]].records,
                             panics  |-> R[at[i]].panics]
  <2>1. at[i] = at[i - 1] + 4 + Len(ms[i]) /\ RecordAt(data, at[i - 1], ms[i])
        BY <1>2 DEF Placed
  <2>2. i - 1 \in 0 .. L
        BY <1>1
  <2>3. ms[i] \in Seq(Byte) /\ Len(ms[i]) \in Nat
        BY ElementOfSeq, LenProperties
  <2> DEFINE p == at[i - 1]
  <2>4. p \in 0 .. Len(data)
        BY <1>4, <2>2
  <2>5. /\ at[i] = p + 4 + Len(ms[i]) /\ p + 4 + Len(ms[i]) <= Len(data)
        /\ RecordSize(data, p) = Len(ms[i])
        /\ SubSeq(data, p + 5, p + 4 + Len(ms[i])) = ms[i]
        BY <2>1 DEF RecordAt
  <2> HIDE DEF p
  <2>6. NextRecord(data, p) = at[i] /\ Readable(data, p)
    <3> DEFINE k == Len(ms[i])
    <3>1. NextRecord(data, p) = p + 4 + k
          BY <2>5 DEF NextRecord
    <3>a. p + 4 + k <= Len(data) /\ at[i] = p + 4 + k
          BY <2>5
    <3>b. k \in Nat
          BY <2>3
    <3>c. p \in Nat
          BY <1>1, <2>4
    <3>2. p + 4 + k <= Len(data) /\ at[i] = p + 4 + k /\ k \in Nat /\ p \in Nat
          BY <3>a, <3>b, <3>c
    <3> HIDE DEF k
    <3>3. p + 4 <= Len(data)
          BY <1>1, <3>2
    <3>4. QED
          BY <3>1, <3>2, <3>3 DEF Readable
  <2>7. R[p] = [records |-> <<SubSeq(data, p + 5, at[i])>> \o R[at[i]].records,
                panics  |-> R[at[i]].panics]
        BY <1>3, <2>4, <2>6
  <2>8. QED
        BY <2>5, <2>7 DEF p
<1> DEFINE K == {i \in Nat : i <= L =>
                   R[0] = [records |-> SubSeq(ms, 1, i) \o R[at[i]].records,
                           panics  |-> R[at[i]].panics]}
<1>7. 0 \in K
  <2>1. at[0] = 0 /\ 0 \in 0 .. L
        BY <1>1, <1>2 DEF Placed
  <2>2. SubSeq(ms, 1, 0) = << >>
        BY SubSeqEmpty
  <2>3. SubSeq(ms, 1, 0) \o R[0].records = R[0].records
        BY <1>5, <2>1, <2>2, ConcatEmptySeq
  <2>4. R[0] = [records |-> R[0].records, panics |-> R[0].panics]
        BY <1>4, <2>1 DEF ReadState
  <2>5. QED
        BY <2>1, <2>3, <2>4
<1>8. ASSUME NEW i \in Nat, i \in K
      PROVE  i + 1 \in K
  <2> DEFINE j == i + 1
  <2>1. SUFFICES ASSUME j <= L
                 PROVE  R[0] = [records |-> SubSeq(ms, 1, j) \o R[at[j]].records,
                                panics  |-> R[at[j]].panics]
        OBVIOUS
  <2>2. R[0] = [records |-> SubSeq(ms, 1, i) \o R[at[i]].records,
                panics  |-> R[at[i]].panics]
        BY <1>1, <1>8, <2>1
  <2>3. j \in 1 .. L /\ j - 1 = i /\ i \in 0 .. L /\ j \in 0 .. L
        BY <1>1, <2>1
  <2> HIDE DEF j, K
  <2>4. R[at[i]] = [records |-> <<ms[j]>> \o R[at[j]].records,
                    panics  |-> R[at[j]].panics]
        BY <1>6, <2>3
  <2>5. ms[j] \in Seq(Byte) /\ <<ms[j]>> \in Seq(Seq(Byte))
        BY <2>3, ElementOfSeq
  <2>6. SubSeq(ms, 1, i) \in Seq(Seq(Byte))
    <3>1. \A n \in 1 .. i : n \in 1 .. L
          BY <1>1, <2>3
    <3>2. \A n \in 1 .. L : ms[n] \in Seq(Byte)
          BY ElementOfSeq
    <3>3. \A n \in 1 .. i : ms[n] \in Seq(Byte)
          BY <3>1, <3>2
    <3>4. QED
          BY <3>3, SubSeqProperties
  <2>7. SubSeq(ms, 1, j) = SubSeq(ms, 1, i) \o <<ms[j]>>
    <3>1. 1 \in 1 .. Len(ms) /\ j \in 1 .. Len(ms)
          BY <1>1, <2>3
    <3>2. SubSeq(ms, 1, j) = SubSeq(ms, 1, j - 1) \o <<ms[j]>>
          BY <3>1, SubSeqRecursiveSecond
    <3>3. QED
          BY <2>3, <3>2
  <2>8. R[at[j]].records \in Seq(Seq(Byte))
        BY <1>5, <2>3
  <2>9. (SubSeq(ms, 1, i) \o <<ms[j]>>) \o R[at[j]].records
          = SubSeq(ms, 1, i) \o (<<ms[j]>> \o R[at[j]].records)
    <3> DEFINE a == SubSeq(ms, 1, i)
               b == <<ms[j]>>
               c == R[at[j]].records
    <3>1. a \in Seq(Seq(Byte)) /\ b \in Seq(Seq(Byte)) /\ c \in Seq(Seq(Byte))
          BY <2>5, <2>6, <2>8
    <3> HIDE DEF a, b, c
    <3>2. (a \o b) \o c = a \o (b \o c)
          BY <3>1, RecordsAssociative
    <3>3. QED
          BY <3>2 DEF a, b, c
  <2>10. R[at[i]].records = <<ms[j]>> \o R[at[j]].records /\ R[at[i]].panics = R[at[j]].panics
    <3> DEFINE r == <<ms[j]>> \o R[at[j]].records
               p == R[at[j]].panics
    <3>1. R[at[i]] = [records |-> r, panics |-> p]
          BY <2>4
    <3> HIDE DEF r, p
    <3>2. R[at[i]].records = r /\ R[at[i]].panics = p
          BY <3>1
    <3>3. QED
          BY <3>2 DEF r, p
  <2>11. SubSeq(ms, 1, i) \o R[at[i]].records = SubSeq(ms, 1, j) \o R[at[j]].records
        BY <2>7, <2>9, <2>10
  <2>12. QED
        BY <2>2, <2>10, <2>11
<1>9. L \in K
  <2> HIDE DEF K
  <2>1. QED
        BY <1>1, <1>7, <1>8, Induction
<1>10. SubSeq(ms, 1, L) = ms
       BY SubSeqFull
<1>11. end \in 0 .. Len(data) /\ L \in 0 .. L
       BY <1>1
<1>12. R[0] = [records |-> ms \o R[end].records, panics |-> R[end].panics]
  <2>1. R[0] = [records |-> SubSeq(ms, 1, L) \o R[at[L]].records,
                panics  |-> R[at[L]].panics]
    <3> HIDE DEF L
    <3>1. QED
          BY <1>1, <1>9
  <2>2. QED
        BY <1>2, <1>10, <2>1
<1>13. R[end] \in ReadState
       BY <1>3, <1>11
<1>14. QED
       BY <1>12, <1>13 DEF R

\* Reading a file that begins with some records.
LEMMA LaidPersistRead ==
  ASSUME NEW data \in Seq(Byte), NEW ms \in Seq(Seq(Byte)), NEW end \in Nat,
         Laid(data, ms, end)
  PROVE  /\ PersistRead(data).records \in Seq(Seq(Byte))
         /\ PersistRead(data).records = ms \o ReadFrom(data)[end].records
         /\ data # << >> => PersistRead(data).panics = ReadFrom(data)[end].panics
<1>1. /\ ReadFrom(data)[end] \in ReadState
      /\ ReadFrom(data)[0] = [records |-> ms \o ReadFrom(data)[end].records,
                              panics  |-> ReadFrom(data)[end].panics]
      BY LaidRead
<1>2. ReadFrom(data)[end].records \in Seq(Seq(Byte))
      BY <1>1 DEF ReadState
<1>3. ms \o ReadFrom(data)[end].records \in Seq(Seq(Byte))
  <2> DEFINE rest == ReadFrom(data)[end].records
  <2>1. rest \in Seq(Seq(Byte))
        BY <1>2
  <2> HIDE DEF rest
  <2>2. ms \o rest \in Seq(Seq(Byte))
        BY <2>1, ConcatProperties
  <2>3. QED
        BY <2>2 DEF rest
<1>4. CASE data # << >>
  <2> DEFINE all == ms \o ReadFrom(data)[end].records
             panics == ReadFrom(data)[end].panics
  <2>1. PersistRead(data) = [records |-> all, panics |-> panics]
        BY <1>1, <1>4 DEF PersistRead
  <2>2. all \in Seq(Seq(Byte))
        BY <1>3
  <2> HIDE DEF all, panics
  <2>3. PersistRead(data).records = all /\ PersistRead(data).panics = panics
        BY <2>1
  <2>4. QED
        BY <2>2, <2>3 DEF all, panics
<1>5. CASE data = << >>
  <2>1. Len(data) = 0 /\ end = 0
        BY <1>5 DEF Laid
  <2>2. Len(ms) = 0
    <3>1. Len(ms) \in Nat
          BY LenProperties
    <3>2. ASSUME Len(ms) # 0 PROVE FALSE
      <4>1. PICK at : Placed(data, ms, at)
            BY DEF Laid
      <4>2. 1 \in 1 .. Len(ms) /\ 0 \in 0 .. Len(ms) /\ 1 - 1 = 0
            BY <3>1, <3>2
      <4>3. RecordAt(data, at[0], ms[1]) /\ at[0] = 0
            BY <4>1, <4>2 DEF Placed
      <4>4. Len(ms[1]) \in Nat
            BY <4>2, ElementOfSeq, LenProperties
      <4>5. QED
            BY <2>1, <4>3, <4>4 DEF RecordAt
    <3>3. QED
          BY <3>2
  <2>3. ms = << >>
        BY <2>2, EmptySeq
  <2>4. ReadFrom(data)[end].records = << >>
    <3>1. ReadFrom(data)[Len(data)] = [records |-> << >>, panics |-> FALSE]
          BY ReadFromIs
    <3>2. QED
          BY <2>1, <3>1
  <2>5. PersistRead(data).records = << >> /\ << >> \in Seq(Seq(Byte))
        BY <1>5, EmptySeq DEF PersistRead, Panic
  <2>6. << >> \o << >> = << >>
        BY <2>5, ConcatEmptySeq
  <2>7. QED
        BY <1>5, <2>3, <2>4, <2>5, <2>6
<1>6. QED
      BY <1>4, <1>5
-----------------------------------------------------------------------------
(* The state: types, one writer at a time. *)

Busy == {"size", "data", "release"}

\* What a thread logs is a message, stamped with the number of the call.
CallsAreMessages ==
  /\ clock = calls
  /\ \A c \in Context : pc[c] # "idle" => message[c] \in Message

\* At most one thread has the writer, and m_taken says whether one does.
OneWriter ==
  /\ \A c, d \in Context : pc[c] \in Busy /\ pc[d] \in Busy => c = d
  /\ taken <=> \E c \in Context : pc[c] \in Busy

\* Its message is the last that was accepted.
LastIsWriters ==
  \A c \in Context : pc[c] \in Busy =>
    accepted # << >> /\ accepted[Len(accepted)] = message[c]

\* A message is not empty, and its size can be said.
LEMMA MessageIs ==
  ASSUME NEW m \in Message
  PROVE  /\ m \in Seq(Byte) /\ m # << >>
         /\ Len(m) \in Nat /\ Len(m) >= 1 /\ Fits(Len(m))
<1>1. PICK t \in 0 .. MaxCalls, args \in Payload : m = UnsignedBytes(t) \o args
      BY DEF Message
<1>2. args \in Seq(Byte) /\ Len(args) \in Nat
      BY PayloadAssumption, LenProperties
<1>3. UnsignedBytes(t) \in Seq(Byte) /\ Len(UnsignedBytes(t)) \in Nat
        /\ Len(UnsignedBytes(t)) >= 1
  <2>1. t \in Nat
        BY MaxCallsAssumption
  <2>2. UnsignedBytes(t) \in Seq(Byte)
        BY <2>1, UnsignedBytesAre DEF Byte
  <2>3. Len(UnsignedBytes(t)) >= 1
        BY <2>1, UnsignedBytesEnd
  <2>4. QED
        BY <2>2, <2>3, LenProperties
<1>4. m \in Seq(Byte) /\ Len(m) = Len(UnsignedBytes(t)) + Len(args)
      BY <1>1, <1>2, <1>3, ConcatProperties
<1>5. Len(m) \in Nat /\ Len(m) >= 1
      BY <1>2, <1>3, <1>4
<1>6. Fits(Len(m))
      BY <1>5, MessageAssumption DEF Fits
<1>7. m # << >>
  <2>1. Len(<< >>) = 0
        BY EmptySeq
  <2>2. QED
        BY <1>5, <2>1
<1>8. QED
      BY <1>4, <1>5, <1>6, <1>7

\* The first n bytes of data are on the file behind what the descriptor is past.
LEMMA WriteOverIs ==
  ASSUME file \in Seq(Byte), offset \in 0 .. Len(file), short \in BOOLEAN,
         NEW data \in Seq(Byte), NEW n \in 0 .. Len(data), WriteOver(data, n)
  PROVE  /\ file' \in Seq(Byte) /\ offset' = offset + n /\ offset' \in 0 .. Len(file')
         /\ \A i \in 1 .. offset : file'[i] = file[i]
         /\ \A i \in 1 .. n : file'[offset + i] = data[i]
         /\ short' \in BOOLEAN /\ (~ short' => ~ short /\ n = Len(data))
<1> DEFINE L == Len(file)
           o == offset
           size == IF o + n > L THEN o + n ELSE L
           At(i) == IF i \in o + 1 .. o + n THEN data[i - o] ELSE file[i]
<1>1. L \in Nat /\ Len(data) \in Nat /\ o \in Nat /\ o <= L /\ n \in Nat /\ n <= Len(data)
      BY LenProperties
<1>2. /\ file' = [i \in 1 .. size |-> At(i)]
      /\ offset' = o + n
      /\ short' = (short \/ n < Len(data))
      BY DEF WriteOver
<1>3. size \in Nat /\ o + n <= size
      BY <1>1
<1>4. ASSUME NEW i \in 1 .. size PROVE At(i) \in Byte
  <2>1. CASE i \in o + 1 .. o + n
    <3>1. i - o \in 1 .. Len(data)
          BY <1>1, <2>1
    <3>2. data[i - o] \in Byte
          BY <3>1, ElementOfSeq
    <3>3. QED
          BY <2>1, <3>2
  <2>2. CASE i \notin o + 1 .. o + n
    <3>1. i \in 1 .. L
          BY <1>1, <2>2
    <3>2. file[i] \in Byte
          BY <3>1, ElementOfSeq
    <3>3. QED
          BY <2>2, <3>2
  <2>3. QED
        BY <2>1, <2>2
<1> HIDE DEF size
<1>5. file' \in Seq(Byte) /\ Len(file') = size
  <2> HIDE DEF At
  <2>1. QED
        BY <1>2, <1>3, <1>4
<1>6. ASSUME NEW i \in 1 .. o PROVE file'[i] = file[i]
  <2>1. i \in 1 .. size /\ i \notin o + 1 .. o + n
        BY <1>1, <1>3
  <2> HIDE DEF o
  <2>2. QED
        BY <1>2, <2>1
<1>7. ASSUME NEW i \in 1 .. n PROVE file'[o + i] = data[i]
  <2>1. o + i \in 1 .. size /\ o + i \in o + 1 .. o + n /\ (o + i) - o = i
        BY <1>1, <1>3
  <2>2. file'[o + i] = At(o + i)
    <3> HIDE DEF At, o
    <3>1. QED
          BY <1>2, <2>1
  <2> HIDE DEF o
  <2>3. QED
        BY <2>1, <2>2
<1>8. o + n \in 0 .. size
      BY <1>1, <1>3
<1>9. n < Len(data) \/ n = Len(data)
      BY <1>1
<1>10. QED
       BY <1>2, <1>5, <1>6, <1>7, <1>8, <1>9

LEMMA TypeInit == Init => TypeOK /\ CallsAreMessages
<1> SUFFICES ASSUME Init PROVE TypeOK /\ CallsAreMessages
    OBVIOUS
<1>1. /\ << >> \in Seq(Byte) /\ << >> \in Seq(Seq(Byte)) /\ Len(<< >>) = 0
      BY EmptySeq
<1>2. 0 \in 0 .. Len(<< >>) /\ 0 \in 0 .. MaxCalls /\ 0 \in 0 .. MaxRuns
      BY <1>1, MaxCallsAssumption, MaxRunsAssumption
<1>3. QED
      BY <1>1, <1>2 DEF Init, TypeOK, CallsAreMessages

LEMMA TypeStep ==
  TypeOK /\ CallsAreMessages /\ [Next]_vars => TypeOK' /\ CallsAreMessages'
<1> SUFFICES ASSUME TypeOK, CallsAreMessages, [Next]_vars
             PROVE  TypeOK' /\ CallsAreMessages'
    OBVIOUS
<1>0. \A t \in 0 .. MaxCalls, args \in Payload : UnsignedBytes(t) \o args \in Message
      BY DEF Message
<1> USE DEF TypeOK, CallsAreMessages
<1>1. CASE Open
  <2>1. << >> \in Seq(Byte) /\ << >> \in Seq(Seq(Byte))
        BY EmptySeq
  <2>2. 0 \in 0 .. Len(file) /\ 0 \in 0 .. MaxCalls
        BY MaxCallsAssumption, LenProperties
  <2>3. runs + 1 \in 0 .. MaxRuns
        BY <1>1, MaxRunsAssumption DEF Open
  <2>4. QED
        BY <1>1, <2>1, <2>2, <2>3 DEF Open
<1>2. ASSUME NEW c \in Context, NEW args \in Payload, Log(c, args)
      PROVE  TypeOK' /\ CallsAreMessages'
  <2> DEFINE m == UnsignedBytes(clock) \o args
  <2>1. m \in Message
        BY <1>0
  <2>2. m \in Seq(Byte)
        BY <2>1, MessageIs
  <2> HIDE DEF m
  <2>3. clock + 1 \in 0 .. MaxCalls /\ calls + 1 \in 0 .. MaxCalls
        BY <1>2, MaxCallsAssumption DEF Log
  <2>4. /\ message' = [message EXCEPT ![c] = m]
        /\ pc' = [pc EXCEPT ![c] = "take"]
        /\ clock' = clock + 1 /\ calls' = calls + 1
        /\ UNCHANGED <<up, taken, file, offset, runs, accepted, short>>
        BY <1>2 DEF Log, Goto, m
  <2>5. TypeOK'
        BY <2>2, <2>3, <2>4
  <2>6. ASSUME NEW d \in Context, pc'[d] # "idle" PROVE message'[d] \in Message
        BY <2>1, <2>4, <2>6
  <2>7. QED
        BY <2>4, <2>5, <2>6
<1>3. ASSUME NEW c \in Context, Take(c)
      PROVE  TypeOK' /\ CallsAreMessages'
  <2>1. message[c] \in Seq(Byte)
        OBVIOUS
  <2>2. Append(accepted, message[c]) \in Seq(Seq(Byte))
        BY <2>1, AppendProperties
  <2>3. TypeOK'
        BY <1>3, <2>2 DEF Take, Goto
  <2>4. CallsAreMessages'
        BY <1>3 DEF Take, Goto
  <2>5. QED
        BY <2>3, <2>4
<1>4. ASSUME NEW c \in Context, Drop(c)
      PROVE  TypeOK' /\ CallsAreMessages'
      BY <1>4 DEF Drop, Goto
<1>5. ASSUME NEW c \in Context, WriteSize(c)
      PROVE  TypeOK' /\ CallsAreMessages'
  <2>1. message[c] \in Message
        BY <1>5 DEF WriteSize
  <2>2. SizeBytes(Len(message[c])) \in Seq(Byte) /\ Len(SizeBytes(Len(message[c]))) = 4
        BY <2>1, MessageIs, SizeBytesSay
  <2>3. PICK n \in 0 .. 4 : WriteOver(SizeBytes(Len(message[c])), n)
        BY <1>5 DEF WriteSize
  <2>4. file' \in Seq(Byte) /\ offset' \in 0 .. Len(file') /\ short' \in BOOLEAN
        BY <2>2, <2>3, WriteOverIs
  <2>5. TypeOK'
        BY <1>5, <2>4 DEF WriteSize, Goto
  <2>6. CallsAreMessages'
        BY <1>5 DEF WriteSize, Goto
  <2>7. QED
        BY <2>5, <2>6
<1>6. ASSUME NEW c \in Context, WriteData(c)
      PROVE  TypeOK' /\ CallsAreMessages'
  <2>1. message[c] \in Seq(Byte)
        OBVIOUS
  <2>2. PICK n \in 0 .. Len(message[c]) : WriteOver(message[c], n)
        BY <1>6 DEF WriteData
  <2>3. file' \in Seq(Byte) /\ offset' \in 0 .. Len(file') /\ short' \in BOOLEAN
        BY <2>1, <2>2, WriteOverIs
  <2>4. TypeOK'
        BY <1>6, <2>3 DEF WriteData, Goto
  <2>5. CallsAreMessages'
        BY <1>6 DEF WriteData, Goto
  <2>6. QED
        BY <2>4, <2>5
<1>7. ASSUME NEW c \in Context, Release(c)
      PROVE  TypeOK' /\ CallsAreMessages'
      BY <1>7 DEF Release, Goto
<1>8. CASE Close
      BY <1>8 DEF Close
<1>9. CASE Crash
      BY <1>9 DEF Crash
<1>10. CASE UNCHANGED vars
       BY <1>10 DEF vars
<1>11. QED
       BY <1>1, <1>2, <1>3, <1>4, <1>5, <1>6, <1>7, <1>8, <1>9, <1>10 DEF Next, Call

(* The state stays well-typed: in particular the descriptor never gets past the
   end of the file. *)
THEOREM TypeCorrect == Spec => []TypeOK
<1>1. Spec => [](TypeOK /\ CallsAreMessages)
      BY TypeInit, TypeStep, PTL DEF Spec
<1>2. QED
      BY <1>1, PTL

LEMMA CallsCorrect == Spec => []CallsAreMessages
<1>1. Spec => [](TypeOK /\ CallsAreMessages)
      BY TypeInit, TypeStep, PTL DEF Spec
<1>2. QED
      BY <1>1, PTL

LEMMA OneWriterStep == TypeOK /\ OneWriter /\ [Next]_vars => OneWriter'
<1> SUFFICES ASSUME TypeOK, OneWriter, [Next]_vars PROVE OneWriter'
    OBVIOUS
<1> USE DEF TypeOK, OneWriter, Busy
<1>1. CASE Open
      BY <1>1 DEF Open
<1>2. ASSUME NEW c \in Context, NEW args \in Payload, Log(c, args) PROVE OneWriter'
      BY <1>2 DEF Log, Goto
<1>3. ASSUME NEW c \in Context, Take(c) PROVE OneWriter'
      BY <1>3 DEF Take, Goto
<1>4. ASSUME NEW c \in Context, Drop(c) PROVE OneWriter'
      BY <1>4 DEF Drop, Goto
<1>5. ASSUME NEW c \in Context, WriteSize(c) PROVE OneWriter'
      BY <1>5 DEF WriteSize, Goto
<1>6. ASSUME NEW c \in Context, WriteData(c) PROVE OneWriter'
      BY <1>6 DEF WriteData, Goto
<1>7. ASSUME NEW c \in Context, Release(c) PROVE OneWriter'
      BY <1>7 DEF Release, Goto
<1>8. CASE Close
      BY <1>8 DEF Close
<1>9. CASE Crash
      BY <1>9 DEF Crash
<1>10. CASE UNCHANGED vars
       BY <1>10 DEF vars
<1>11. QED
       BY <1>1, <1>2, <1>3, <1>4, <1>5, <1>6, <1>7, <1>8, <1>9, <1>10 DEF Next, Call

(* Threads never write to the file at the same time: m_taken admits one
   (file_logger.cpp 35-48), also after a crash. *)
THEOREM OneWriterCorrect == Spec => []OneWriter
<1>1. Init => OneWriter
      BY DEF Init, OneWriter, Busy
<1>2. QED
      BY <1>1, TypeCorrect, OneWriterStep, PTL DEF Spec

LEMMA LastIsWritersStep ==
  TypeOK /\ OneWriter /\ LastIsWriters /\ [Next]_vars => LastIsWriters'
<1> SUFFICES ASSUME TypeOK, OneWriter, LastIsWriters, [Next]_vars PROVE LastIsWriters'
    OBVIOUS
<1> USE DEF TypeOK, LastIsWriters, Busy
<1>1. CASE Open
      BY <1>1 DEF Open
<1>2. ASSUME NEW c \in Context, NEW args \in Payload, Log(c, args) PROVE LastIsWriters'
      BY <1>2 DEF Log, Goto
<1>3. ASSUME NEW c \in Context, Take(c) PROVE LastIsWriters'
  <2> DEFINE more == Append(accepted, message[c])
  <2>1. more # << >> /\ more[Len(more)] = message[c]
    <3>1. message[c] \in Seq(Byte) /\ Len(accepted) \in Nat
          BY LenProperties
    <3>2. /\ Len(more) = Len(accepted) + 1
          /\ more[Len(accepted) + 1] = message[c]
          BY <3>1, AppendProperties
    <3>3. Len(<< >>) = 0
          BY EmptySeq
    <3> HIDE DEF more
    <3>4. QED
          BY <3>1, <3>2, <3>3
  <2>2. \A d \in Context : pc[d] \notin Busy
        BY <1>3 DEF Take, OneWriter
  <2>3. ASSUME NEW d \in Context, pc'[d] \in Busy
        PROVE  accepted' # << >> /\ accepted'[Len(accepted')] = message'[d]
    <3>1. d = c /\ accepted' = Append(accepted, message[c]) /\ message' = message
          BY <1>3, <2>2, <2>3 DEF Take, Goto
    <3>2. QED
          BY <2>1, <3>1
  <2>4. QED
        BY <2>3
<1>4. ASSUME NEW c \in Context, Drop(c) PROVE LastIsWriters'
      BY <1>4 DEF Drop, Goto
<1>5. ASSUME NEW c \in Context, WriteSize(c) PROVE LastIsWriters'
      BY <1>5 DEF WriteSize, Goto
<1>6. ASSUME NEW c \in Context, WriteData(c) PROVE LastIsWriters'
      BY <1>6 DEF WriteData, Goto
<1>7. ASSUME NEW c \in Context, Release(c) PROVE LastIsWriters'
      BY <1>7 DEF Release, Goto
<1>8. CASE Close
      BY <1>8 DEF Close
<1>9. CASE Crash
      BY <1>9 DEF Crash
<1>10. CASE UNCHANGED vars
       BY <1>10 DEF vars
<1>11. QED
       BY <1>1, <1>2, <1>3, <1>4, <1>5, <1>6, <1>7, <1>8, <1>9, <1>10 DEF Next, Call

LEMMA LastIsWritersCorrect == Spec => []LastIsWriters
<1>1. Init => LastIsWriters
      BY DEF Init, LastIsWriters, Busy
<1>2. QED
      BY <1>1, TypeCorrect, OneWriterCorrect, LastIsWritersStep, PTL DEF Spec
-----------------------------------------------------------------------------
(* The file. *)

\* Between two calls the file begins with the records of this run, and the
\* descriptor is behind them; a size that is waiting for its message follows them.
FileIsLaidOut ==
  ~ short =>
    \E end \in 0 .. offset :
      /\ Laid(file, Complete, end)
      /\ (\A c \in Context : pc[c] # "data") => end = offset
      /\ \A c \in Context : pc[c] = "data" =>
           offset = end + 4 /\ RecordSize(file, end) = Len(message[c])

LEMMA FrontAndLast ==
  ASSUME NEW s \in Seq(Seq(Byte))
  PROVE  /\ SubSeq(s, 1, Len(s) - 1) \in Seq(Seq(Byte))
         /\ s # << >> => Append(SubSeq(s, 1, Len(s) - 1), s[Len(s)]) = s
         /\ \A m \in Seq(Byte) :
              SubSeq(Append(s, m), 1, Len(Append(s, m)) - 1) = s
<1>1. Len(s) \in Nat /\ \A i \in 1 .. Len(s) : s[i] \in Seq(Byte)
      BY LenProperties, ElementOfSeq
<1>2. SubSeq(s, 1, Len(s) - 1) \in Seq(Seq(Byte))
  <2>1. \A i \in 1 .. Len(s) - 1 : s[i] \in Seq(Byte)
        BY <1>1
  <2>2. QED
        BY <1>1, <2>1, SubSeqProperties
<1>3. ASSUME s # << >> PROVE Append(SubSeq(s, 1, Len(s) - 1), s[Len(s)]) = s
  <2>1. Len(s) \in 1 .. Len(s) /\ 1 \in 1 .. Len(s)
        BY <1>1, <1>3, EmptySeq
  <2>2. SubSeq(s, 1, Len(s)) = SubSeq(s, 1, Len(s) - 1) \o <<s[Len(s)]>>
        BY <2>1, SubSeqRecursiveSecond
  <2>3. SubSeq(s, 1, Len(s)) = s
        BY SubSeqFull
  <2>4. s[Len(s)] \in Seq(Byte)
        BY <1>1, <2>1
  <2>5. Append(SubSeq(s, 1, Len(s) - 1), s[Len(s)])
          = SubSeq(s, 1, Len(s) - 1) \o <<s[Len(s)]>>
        BY <1>2, <2>4, AppendIsConcat
  <2>6. QED
        BY <2>2, <2>3, <2>5
<1>4. ASSUME NEW m \in Seq(Byte)
      PROVE  SubSeq(Append(s, m), 1, Len(Append(s, m)) - 1) = s
  <2>1. PICK t : t = Append(s, m)
        OBVIOUS
  <2>2. /\ t \in Seq(Seq(Byte)) /\ Len(t) = Len(s) + 1
        /\ \A i \in 1 .. Len(s) : t[i] = s[i]
        BY <2>1, AppendProperties
  <2>3. Len(t) - 1 = Len(s)
        BY <1>1, <2>2
  <2>4. \A i \in 1 .. Len(s) : t[i] \in Seq(Byte)
        BY <1>1, <2>2
  <2>5. /\ SubSeq(t, 1, Len(s)) \in Seq(Seq(Byte))
        /\ Len(SubSeq(t, 1, Len(s))) = IF 1 <= Len(s) THEN Len(s) - 1 + 1 ELSE 0
        /\ \A i \in 1 .. Len(s) - 1 + 1 : SubSeq(t, 1, Len(s))[i] = t[1 + i - 1]
        BY <1>1, <2>4, SubSeqProperties
  <2>6. Len(SubSeq(t, 1, Len(s))) = Len(s)
        BY <1>1, <2>5
  <2>7. \A i \in 1 .. Len(s) : SubSeq(t, 1, Len(s))[i] = s[i]
    <3>1. ASSUME NEW i \in 1 .. Len(s) PROVE SubSeq(t, 1, Len(s))[i] = s[i]
      <4>1. i \in 1 .. Len(s) - 1 + 1 /\ 1 + i - 1 = i
            BY <1>1
      <4>2. QED
            BY <2>2, <2>5, <4>1
    <3>2. QED
          BY <3>1
  <2>8. SubSeq(t, 1, Len(s)) = s
        BY <2>5, <2>6, <2>7, SeqEqual
  <2>9. QED
        BY <2>1, <2>3, <2>8
<1>5. QED
      BY <1>2, <1>3, <1>4

\* A size that was written whole is there.
LEMMA SizeIsThere ==
  ASSUME NEW data \in Seq(Byte), NEW p \in Nat, NEW n, Fits(n),
         \A i \in 1 .. 4 : data[p + i] = SizeBytes(n)[i]
  PROVE  RecordSize(data, p) = n
<1>1. /\ data[p + 1] = SizeBytes(n)[1] /\ data[p + 2] = SizeBytes(n)[2]
      /\ data[p + 3] = SizeBytes(n)[3] /\ data[p + 4] = SizeBytes(n)[4]
      OBVIOUS
<1>2. QED
      BY <1>1, SizeBytesSay DEF RecordSize

\* So is a record.
LEMMA RecordIsThere ==
  ASSUME NEW data \in Seq(Byte), NEW p \in Nat, NEW m \in Seq(Byte),
         RecordSize(data, p) = Len(m), p + 4 + Len(m) <= Len(data),
         \A i \in 1 .. Len(m) : data[p + 4 + i] = m[i]
  PROVE  RecordAt(data, p, m)
<1> DEFINE k == Len(m)
           i == p + 5
           j == p + 4 + k
<1>1. k \in Nat /\ Len(data) \in Nat /\ i \in Int /\ j \in Int
      BY LenProperties
<1>2. \A n \in i .. j : data[n] \in Byte
  <2>1. \A n \in i .. j : n \in 1 .. Len(data)
        BY <1>1
  <2>2. \A n \in 1 .. Len(data) : data[n] \in Byte
        BY ElementOfSeq
  <2> HIDE DEF i, j
  <2>3. QED
        BY <2>1, <2>2
<1>3. /\ SubSeq(data, i, j) \in Seq(Byte)
      /\ Len(SubSeq(data, i, j)) = IF i <= j THEN j - i + 1 ELSE 0
      /\ \A n \in 1 .. j - i + 1 : SubSeq(data, i, j)[n] = data[i + n - 1]
  <2> HIDE DEF i, j
  <2>1. QED
        BY <1>1, <1>2, SubSeqProperties
<1>4. j - i + 1 = k /\ (i <= j <=> k # 0)
      BY <1>1
<1>5. Len(SubSeq(data, i, j)) = k
  <2> HIDE DEF i, j, k
  <2>1. QED
        BY <1>1, <1>3, <1>4
<1>6. ASSUME NEW n \in 1 .. k PROVE SubSeq(data, i, j)[n] = m[n]
  <2>1. i + n - 1 = p + 4 + n /\ n \in 1 .. j - i + 1
        BY <1>1, <1>4
  <2>2. data[p + 4 + n] = m[n]
        OBVIOUS
  <2> HIDE DEF i, j, k
  <2>3. QED
        BY <1>3, <2>1, <2>2
<1> HIDE DEF i, j
<1>7. SubSeq(data, i, j) = m
      BY <1>3, <1>5, <1>6, SeqEqual
<1>8. QED
      BY <1>7 DEF RecordAt, i, j

\* What FileIsLaidOut says with a given end.
LaidUpTo(end) ==
  /\ Laid(file, Complete, end)
  /\ (\A c \in Context : pc[c] # "data") => end = offset
  /\ \A c \in Context : pc[c] = "data" =>
       offset = end + 4 /\ RecordSize(file, end) = Len(message[c])

LEMMA LaidOutStep ==
  TypeOK /\ CallsAreMessages /\ OneWriter /\ LastIsWriters /\ FileIsLaidOut
    /\ [Next]_vars /\ TypeOK' => FileIsLaidOut'
<1> SUFFICES ASSUME TypeOK, CallsAreMessages, OneWriter, LastIsWriters, FileIsLaidOut,
                    [Next]_vars, TypeOK', ~ short'
             PROVE  \E end \in 0 .. offset' : LaidUpTo(end)'
    BY DEF FileIsLaidOut, LaidUpTo
<1>0. /\ pc \in [Context -> {"idle", "take", "size", "data", "release"}]
      /\ message \in [Context -> Seq(Byte)]
      /\ file \in Seq(Byte) /\ file' \in Seq(Byte)
      /\ offset \in 0 .. Len(file) /\ short \in BOOLEAN
      /\ offset' \in 0 .. Len(file') /\ Len(file) \in Nat /\ Len(file') \in Nat
      /\ accepted \in Seq(Seq(Byte))
  <2>1. file \in Seq(Byte) /\ file' \in Seq(Byte)
        BY DEF TypeOK
  <2>2. QED
        BY <2>1, LenProperties DEF TypeOK
<1>f. /\ SubSeq(accepted, 1, Len(accepted) - 1) \in Seq(Seq(Byte))
      /\ accepted # << >> =>
           Append(SubSeq(accepted, 1, Len(accepted) - 1), accepted[Len(accepted)]) = accepted
      BY <1>0, FrontAndLast
<1>i. ASSUME ~ short
      PROVE  \E end \in 0 .. offset : LaidUpTo(end)
      BY <1>i DEF FileIsLaidOut, LaidUpTo
<1>q. ASSUME UNCHANGED <<file, offset, accepted, short>>,
             \A d \in Context : pc[d] \in {"size", "data"} \/ pc'[d] \in {"size", "data"} =>
               pc'[d] = pc[d] /\ message'[d] = message[d]
      PROVE  \E end \in 0 .. offset' : LaidUpTo(end)'
  <2>1. PICK end \in 0 .. offset : LaidUpTo(end)
        BY <1>i, <1>q
  <2>2. InRecord' <=> InRecord
        BY <1>q DEF InRecord
  <2>3. Complete' = Complete
        BY <1>q, <2>2 DEF Complete
  <2>4. Laid(file, Complete, end)' <=> Laid(file, Complete, end)
        BY <1>q, <2>3
  <2>5. RecordSize(file, end)' = RecordSize(file, end)
        BY <1>q DEF RecordSize
  <2>6. QED
        BY <1>q, <2>1, <2>4, <2>5 DEF LaidUpTo
<1>1. CASE Open
  <2>1. Complete' = << >>
        BY <1>1 DEF Open, Complete, InRecord
  <2>2. Laid(file', << >>, 0)
        BY <1>0, LaidNone
  <2>3. LaidUpTo(0)'
        BY <1>1, <2>1, <2>2 DEF LaidUpTo, Open
  <2>4. 0 \in 0 .. offset'
        BY <1>0
  <2>5. QED
        BY <2>3, <2>4
<1>2. ASSUME NEW c \in Context, NEW args \in Payload, Log(c, args)
      PROVE  \E end \in 0 .. offset' : LaidUpTo(end)'
      BY <1>0, <1>2, <1>q DEF Log, Goto
<1>3. ASSUME NEW c \in Context, Take(c)
      PROVE  \E end \in 0 .. offset' : LaidUpTo(end)'
  <2>1. ~ InRecord /\ InRecord' /\ \A d \in Context : pc[d] # "data" /\ pc'[d] # "data"
        BY <1>0, <1>3 DEF Take, Goto, OneWriter, Busy, InRecord
  <2>2. Complete = accepted
        BY <2>1 DEF Complete
  <2>3. Complete' = accepted
    <3>1. message[c] \in Seq(Byte)
          BY <1>0
    <3>2. accepted' = Append(accepted, message[c])
          BY <1>3 DEF Take
    <3>3. QED
          BY <1>0, <2>1, <3>1, <3>2, FrontAndLast DEF Complete
  <2>4. UNCHANGED <<file, offset, short>>
        BY <1>3 DEF Take
  <2>5. LaidUpTo(offset)
        BY <1>0, <1>i, <2>1, <2>4 DEF LaidUpTo
  <2>6. LaidUpTo(offset)'
        BY <2>1, <2>2, <2>3, <2>4, <2>5 DEF LaidUpTo
  <2>7. offset' \in 0 .. offset'
        BY <1>0
  <2>8. QED
        BY <2>6, <2>7
<1>4. ASSUME NEW c \in Context, Drop(c)
      PROVE  \E end \in 0 .. offset' : LaidUpTo(end)'
      BY <1>0, <1>4, <1>q DEF Drop, Goto
<1>5. ASSUME NEW c \in Context, WriteSize(c)
      PROVE  \E end \in 0 .. offset' : LaidUpTo(end)'
  <2> DEFINE m == message[c]
             size == SizeBytes(Len(m))
  <2>1. m \in Message
        BY <1>5 DEF WriteSize, CallsAreMessages
  <2>2. size \in Seq(Byte) /\ Len(size) = 4 /\ Fits(Len(m))
        BY <2>1, MessageIs, SizeBytesSay
  <2> HIDE DEF m, size
  <2>3. PICK n \in 0 .. 4 : WriteOver(size, n)
        BY <1>5 DEF WriteSize, m, size
  <2>4. /\ offset' = offset + n
        /\ \A i \in 1 .. offset : file'[i] = file[i]
        /\ \A i \in 1 .. n : file'[offset + i] = size[i]
        /\ ~ short /\ n = 4
        BY <1>0, <2>2, <2>3, WriteOverIs
  <2>5. /\ \A d \in Context : pc[d] # "data" /\ (pc'[d] = "data" => d = c)
        /\ InRecord /\ InRecord' /\ accepted' = accepted /\ message' = message
        BY <1>0, <1>5 DEF WriteSize, Goto, OneWriter, Busy, InRecord
  <2>6. Complete = SubSeq(accepted, 1, Len(accepted) - 1) /\ Complete' = Complete
        BY <2>5 DEF Complete
  <2>7. LaidUpTo(offset)
    <3>1. PICK end \in 0 .. offset : LaidUpTo(end)
          BY <1>i, <2>4
    <3>2. end = offset
          BY <2>5, <3>1 DEF LaidUpTo
    <3>3. QED
          BY <3>1, <3>2
  <2>8. Laid(file', Complete, offset)
    <3>1. offset \in Nat /\ offset <= Len(file')
          BY <1>0, <2>4
    <3>2. Laid(file, Complete, offset)
          BY <2>7 DEF LaidUpTo
    <3>3. Complete \in Seq(Seq(Byte))
          BY <1>f, <2>6
    <3>4. QED
          BY <1>0, <2>4, <3>1, <3>2, <3>3, LaidKept
  <2>9. RecordSize(file', offset) = Len(m)
    <3>1. offset \in Nat /\ \A i \in 1 .. 4 : file'[offset + i] = SizeBytes(Len(m))[i]
          BY <1>0, <2>4 DEF size
    <3>2. QED
          BY <1>0, <2>2, <3>1, SizeIsThere
  <2>10. PICK end : end = offset
         OBVIOUS
  <2>11. pc'[c] = "data" /\ message'[c] = m
         BY <1>0, <1>5 DEF WriteSize, Goto, m
  <2>12. LaidUpTo(end)'
         BY <2>4, <2>5, <2>6, <2>8, <2>9, <2>10, <2>11 DEF LaidUpTo
  <2>13. end \in 0 .. offset'
         BY <1>0, <2>4, <2>10
  <2>14. QED
         BY <2>12, <2>13
<1>6. ASSUME NEW c \in Context, WriteData(c)
      PROVE  \E end \in 0 .. offset' : LaidUpTo(end)'
  <2> DEFINE m == message[c]
             front == SubSeq(accepted, 1, Len(accepted) - 1)
  <2>1. m \in Seq(Byte) /\ Len(m) \in Nat
        BY <1>0, LenProperties
  <2> HIDE DEF m
  <2>2. PICK n \in 0 .. Len(m) : WriteOver(m, n)
        BY <1>6 DEF WriteData, m
  <2>3. /\ offset' = offset + Len(m)
        /\ \A i \in 1 .. offset : file'[i] = file[i]
        /\ \A i \in 1 .. Len(m) : file'[offset + i] = m[i]
        /\ ~ short
        BY <1>0, <2>1, <2>2, WriteOverIs
  <2>4. /\ \A d \in Context : pc'[d] # "data" /\ pc'[d] # "size"
        /\ InRecord /\ ~ InRecord' /\ accepted' = accepted
        BY <1>0, <1>6 DEF WriteData, Goto, OneWriter, Busy, InRecord
  <2>5. Complete = front /\ Complete' = accepted
        BY <2>4 DEF Complete
  <2>6. PICK end \in 0 .. offset : LaidUpTo(end)
        BY <1>i, <2>3
  <2>7. /\ Laid(file, front, end) /\ offset = end + 4
        /\ RecordSize(file, end) = Len(m)
        BY <1>6, <2>5, <2>6 DEF LaidUpTo, WriteData, m
  <2>8. end \in Nat /\ end <= Len(file') /\ \A i \in 1 .. end : i \in 1 .. offset
    <3>1. end \in Nat /\ end <= offset
          BY <1>0
    <3>2. offset \in Nat /\ offset + Len(m) <= Len(file')
          BY <1>0, <2>3
    <3>3. end <= Len(file')
          BY <1>0, <2>1, <3>1, <3>2
    <3>4. QED
          BY <3>1, <3>2, <3>3
  <2>9. Laid(file', front, end)
    <3>1. front \in Seq(Seq(Byte)) /\ \A i \in 1 .. end : file'[i] = file[i]
          BY <1>f, <2>3, <2>8
    <3> HIDE DEF front
    <3>2. QED
          BY <1>0, <2>7, <2>8, <3>1, LaidKept
  <2>10. RecordSize(file', end) = Len(m)
    <3>1. end + 1 \in 1 .. offset /\ end + 2 \in 1 .. offset
          /\ end + 3 \in 1 .. offset /\ end + 4 \in 1 .. offset
          BY <2>7, <2>8
    <3>2. file'[end + 1] = file[end + 1] /\ file'[end + 2] = file[end + 2]
          /\ file'[end + 3] = file[end + 3] /\ file'[end + 4] = file[end + 4]
          BY <2>3, <3>1
    <3>3. RecordSize(file', end) = RecordSize(file, end)
          BY <3>2 DEF RecordSize
    <3>4. QED
          BY <2>7, <3>3
  <2>11. RecordAt(file', end, m)
    <3>1. \A i \in 1 .. Len(m) : file'[end + 4 + i] = m[i]
          BY <2>3, <2>7
    <3>2. end + 4 + Len(m) <= Len(file')
          BY <1>0, <2>1, <2>3, <2>7, <2>8
    <3>3. QED
          BY <1>0, <2>1, <2>8, <2>10, <3>1, <3>2, RecordIsThere
  <2>12. Append(front, m) = accepted
         BY <1>6, <1>f DEF LastIsWriters, Busy, WriteData, m
  <2>13. Laid(file', accepted, offset')
    <3>1. front \in Seq(Seq(Byte))
          BY <1>f
    <3> HIDE DEF front
    <3>2. Laid(file', Append(front, m), end + 4 + Len(m))
          BY <1>0, <2>1, <2>8, <2>9, <2>11, <3>1, LaidMore
    <3>3. QED
          BY <2>3, <2>7, <2>12, <3>2
  <2>14. LaidUpTo(offset)'
         BY <2>4, <2>5, <2>13 DEF LaidUpTo
  <2>15. offset' \in 0 .. offset'
         BY <1>0
  <2>16. QED
         BY <2>14, <2>15
<1>7. ASSUME NEW c \in Context, Release(c)
      PROVE  \E end \in 0 .. offset' : LaidUpTo(end)'
      BY <1>0, <1>7, <1>q DEF Release, Goto
<1>8. CASE Close
      BY <1>0, <1>8, <1>q DEF Close
<1>9. CASE Crash
      BY <1>0, <1>9, <1>q DEF Crash
<1>10. CASE UNCHANGED vars
       BY <1>0, <1>10, <1>q DEF vars
<1>11. QED
       BY <1>1, <1>2, <1>3, <1>4, <1>5, <1>6, <1>7, <1>8, <1>9, <1>10 DEF Next, Call

LEMMA LaidOutCorrect == Spec => []FileIsLaidOut
<1>1. Init => FileIsLaidOut
  <2> SUFFICES ASSUME Init PROVE \E end \in 0 .. offset : LaidUpTo(end)
      BY DEF FileIsLaidOut, LaidUpTo
  <2>1. file = << >> /\ offset = 0 /\ Complete = << >>
        BY DEF Init, Complete, InRecord
  <2>2. << >> \in Seq(Byte)
        BY EmptySeq
  <2>3. Laid(<< >>, << >>, 0)
        BY <2>2, LaidNone
  <2>4. LaidUpTo(0)
        BY <2>1, <2>3 DEF Init, LaidUpTo
  <2>5. QED
        BY <2>1, <2>4
<1>2. QED
      BY <1>1, LaidOutStep, TypeCorrect, CallsCorrect, OneWriterCorrect,
         LastIsWritersCorrect, PTL DEF Spec
-----------------------------------------------------------------------------
(* What is read back. *)

LEMMA CompleteType == TypeOK => Complete \in Seq(Seq(Byte))
<1> SUFFICES ASSUME TypeOK PROVE Complete \in Seq(Seq(Byte))
    OBVIOUS
<1>1. accepted \in Seq(Seq(Byte))
      BY DEF TypeOK
<1>2. SubSeq(accepted, 1, Len(accepted) - 1) \in Seq(Seq(Byte))
      BY <1>1, FrontAndLast
<1>3. QED
      BY <1>1, <1>2 DEF Complete

LEMMA PrefixOfConcat ==
  ASSUME NEW a \in Seq(Seq(Byte)), NEW b \in Seq(Seq(Byte))
  PROVE  Len(a) <= Len(a \o b) /\ SubSeq(a \o b, 1, Len(a)) = a
<1>1. PICK s : s = a \o b
      OBVIOUS
<1>2. Len(a) \in Nat /\ Len(b) \in Nat /\ \A i \in 1 .. Len(a) : a[i] \in Seq(Byte)
      BY LenProperties, ElementOfSeq
<1>3. /\ Len(s) = Len(a) + Len(b)
      /\ \A i \in 1 .. Len(a) + Len(b) : s[i] = IF i <= Len(a) THEN a[i] ELSE b[i - Len(a)]
      BY <1>1, ConcatProperties
<1>4. \A i \in 1 .. Len(a) : s[i] = a[i] /\ s[i] \in Seq(Byte)
      BY <1>2, <1>3
<1>5. /\ SubSeq(s, 1, Len(a)) \in Seq(Seq(Byte))
      /\ Len(SubSeq(s, 1, Len(a))) = IF 1 <= Len(a) THEN Len(a) - 1 + 1 ELSE 0
      /\ \A i \in 1 .. Len(a) - 1 + 1 : SubSeq(s, 1, Len(a))[i] = s[1 + i - 1]
      BY <1>2, <1>4, SubSeqProperties
<1>6. Len(SubSeq(s, 1, Len(a))) = Len(a)
      BY <1>2, <1>5
<1>7. ASSUME NEW i \in 1 .. Len(a) PROVE SubSeq(s, 1, Len(a))[i] = a[i]
  <2>1. i \in 1 .. Len(a) - 1 + 1 /\ 1 + i - 1 = i
        BY <1>2
  <2>2. QED
        BY <1>4, <1>5, <2>1
<1>8. SubSeq(s, 1, Len(a)) = a
      BY <1>5, <1>6, <1>7, SeqEqual
<1>9. QED
      BY <1>1, <1>2, <1>3, <1>8

(* Whatever earlier runs and a crash left in the file, and however threads took
   turns: postform_persist gets the complete messages of the last run first, in
   order and unchanged (file_logger.cpp 17-26, persist main.rs 54-68). *)
THEOREM RunIsReadFirstCorrect == Spec => []RunIsReadFirst
<1>1. TypeOK /\ FileIsLaidOut => RunIsReadFirst
  <2> SUFFICES ASSUME TypeOK, FileIsLaidOut, ~ short
               PROVE  /\ Len(Complete) <= Len(PersistRead(file).records)
                      /\ SubSeq(PersistRead(file).records, 1, Len(Complete)) = Complete
      BY DEF RunIsReadFirst
  <2>1. file \in Seq(Byte) /\ offset \in Nat /\ Complete \in Seq(Seq(Byte))
    <3>1. offset \in 0 .. Len(file)
          BY DEF TypeOK
    <3>2. QED
          BY <3>1, CompleteType DEF TypeOK
  <2>2. PICK end \in 0 .. offset : LaidUpTo(end)
        BY DEF FileIsLaidOut, LaidUpTo
  <2>3. Laid(file, Complete, end) /\ end \in Nat
        BY <2>1, <2>2 DEF LaidUpTo
  <2>4. PersistRead(file).records = Complete \o ReadFrom(file)[end].records
        BY <2>1, <2>3, LaidPersistRead
  <2>5. ReadFrom(file)[end].records \in Seq(Seq(Byte))
    <3>1. ReadFrom(file)[end] \in ReadState
          BY <2>1, <2>3, LaidRead
    <3>2. QED
          BY <3>1 DEF ReadState
  <2>6. QED
        BY <2>1, <2>4, <2>5, PrefixOfConcat
<1>2. QED
      BY <1>1, TypeCorrect, LaidOutCorrect, PTL

\* A size without its message ends the reader.
LEMMA TornIsPanic ==
  ASSUME NEW data \in Seq(Byte), NEW end \in Nat, NEW k \in Nat, k >= 1,
         Len(data) = end + 4, RecordSize(data, end) = k
  PROVE  ReadFrom(data)[end] = Panic
<1>1. NextRecord(data, end) = end + 4 + k
      BY DEF NextRecord
<1>2. ~ Readable(data, end)
      BY <1>1 DEF Readable
<1>3. end \in 0 .. Len(data) /\ end # Len(data)
      OBVIOUS
<1>4. QED
      BY <1>2, <1>3, ReadFromIs

(* A file with nothing older behind the descriptor is read to the end, and gives
   the complete messages of the run and nothing else; the reader panics then if
   the size of a record is all there is of it or no run left a record, and only
   then (file_logger.cpp 17-26, persist main.rs 54-68). *)
THEOREM WholeFileIsReadCorrect == Spec => []WholeFileIsRead
<1>1. TypeOK /\ CallsAreMessages /\ FileIsLaidOut => WholeFileIsRead
  <2> SUFFICES ASSUME TypeOK, CallsAreMessages, FileIsLaidOut, ~ short, offset = Len(file)
               PROVE  PersistRead(file)
                        = [records |-> Complete, panics |-> Torn \/ file = << >>]
      BY DEF WholeFileIsRead
  <2>1. file \in Seq(Byte) /\ Complete \in Seq(Seq(Byte)) /\ offset \in Nat
        BY CompleteType, LenProperties DEF TypeOK
  <2>2. PICK end \in 0 .. offset : LaidUpTo(end)
        BY DEF FileIsLaidOut, LaidUpTo
  <2>3. Laid(file, Complete, end) /\ end \in Nat
        BY <2>1, <2>2 DEF LaidUpTo
  <2>4. ReadFrom(file)[end] = [records |-> << >>, panics |-> Torn]
    <3>1. CASE ~ Torn
      <4>1. end = Len(file)
            BY <2>2, <3>1 DEF LaidUpTo, Torn
      <4>2. ReadFrom(file)[Len(file)] = [records |-> << >>, panics |-> FALSE]
            BY <2>1, ReadFromIs
      <4>3. Torn = FALSE
            BY <3>1, Zenon DEF Torn
      <4>4. QED
            BY <4>1, <4>2, <4>3, Zenon
    <3>2. CASE Torn
      <4>1. PICK c \in Context : pc[c] = "data"
            BY <3>2 DEF Torn
      <4>2. message[c] \in Message
            BY <4>1 DEF CallsAreMessages
      <4>3. Len(message[c]) \in Nat /\ Len(message[c]) >= 1
            BY <4>2, MessageIs
      <4>4. Len(file) = end + 4 /\ RecordSize(file, end) = Len(message[c])
            BY <2>2, <4>1 DEF LaidUpTo
      <4>5. ReadFrom(file)[end] = Panic
            BY <2>1, <2>3, <4>3, <4>4, TornIsPanic
      <4>6. Torn = TRUE
            BY <3>2, Zenon DEF Torn
      <4>7. QED
            BY <4>5, <4>6, Zenon DEF Panic
    <3>3. QED
          BY <3>1, <3>2
  <2>5. Complete \o << >> = Complete
        BY <2>1, ConcatEmptySeq
  <2>6. PersistRead(file).records = Complete
    <3>1. PersistRead(file).records = Complete \o ReadFrom(file)[end].records
          BY <2>1, <2>3, LaidPersistRead
    <3>2. QED
          BY <2>4, <2>5, <3>1
  <2>7. CASE file = << >>
    <3>1. PersistRead(file) = [records |-> << >>, panics |-> TRUE]
          BY <2>7 DEF PersistRead, Panic
    <3>2. Complete = << >>
          BY <2>6, <3>1
    <3>3. (Torn \/ file = << >>) = TRUE
          BY <2>7, Zenon
    <3>4. QED
          BY <3>1, <3>2, <3>3, Zenon
  <2>8. CASE file # << >>
    <3>1. PersistRead(file) = ReadFrom(file)[0]
          BY <2>8 DEF PersistRead
    <3>2. ReadFrom(file)[0] = [records |-> Complete \o ReadFrom(file)[end].records,
                               panics  |-> ReadFrom(file)[end].panics]
          BY <2>1, <2>3, LaidRead
    <3>3. ReadFrom(file)[0] = [records |-> Complete, panics |-> Torn]
          BY <2>4, <2>5, <3>2
    <3>4. (Torn \/ file = << >>) = Torn
          BY <2>8, Zenon DEF Torn
    <3>5. QED
          BY <3>1, <3>3, <3>4, Zenon
  <2>9. QED
        BY <2>7, <2>8
<1>2. QED
      BY <1>1, TypeCorrect, CallsCorrect, LaidOutCorrect, PTL
-----------------------------------------------------------------------------
(* A FileLogger is a LogStream. *)

\* What is read of the bytes up to the descriptor is what is complete.
LEMMA StreamIs ==
  TypeOK /\ CallsAreMessages /\ FileIsLaidOut /\ ~ short => Stream = Complete
<1> SUFFICES ASSUME TypeOK, CallsAreMessages, FileIsLaidOut, ~ short
             PROVE  Stream = Complete
    OBVIOUS
<1>1. /\ file \in Seq(Byte) /\ offset \in Nat /\ offset <= Len(file) /\ Len(file) \in Nat
      /\ Complete \in Seq(Seq(Byte))
  <2>1. file \in Seq(Byte) /\ offset \in 0 .. Len(file)
        BY DEF TypeOK
  <2>2. Len(file) \in Nat
        BY <2>1, LenProperties
  <2>3. QED
        BY <2>1, <2>2, CompleteType
<1>2. PICK cut : cut = SubSeq(file, 1, offset)
      OBVIOUS
<1>3. cut \in Seq(Byte) /\ Len(cut) = offset /\ \A i \in 1 .. offset : cut[i] = file[i]
  <2>1. \A i \in 1 .. offset : file[i] \in Byte
    <3>1. \A i \in 1 .. Len(file) : file[i] \in Byte
          BY <1>1, ElementOfSeq
    <3>2. QED
          BY <1>1, <3>1
  <2>2. /\ cut \in Seq(Byte)
        /\ Len(cut) = IF 1 <= offset THEN offset - 1 + 1 ELSE 0
        /\ \A i \in 1 .. offset - 1 + 1 : cut[i] = file[1 + i - 1]
        BY <1>1, <1>2, <2>1, SubSeqProperties
  <2>3. Len(cut) = offset
        BY <1>1, <2>2
  <2>4. ASSUME NEW i \in 1 .. offset PROVE cut[i] = file[i]
    <3>1. i \in 1 .. offset - 1 + 1 /\ 1 + i - 1 = i
          BY <1>1
    <3>2. QED
          BY <2>2, <3>1
  <2>5. QED
        BY <2>2, <2>3, <2>4
<1>4. PICK end \in 0 .. offset : LaidUpTo(end)
      BY DEF FileIsLaidOut, LaidUpTo
<1>5. end \in Nat /\ end <= Len(cut) /\ \A i \in 1 .. end : cut[i] = file[i]
      BY <1>1, <1>3
<1>6. Laid(cut, Complete, end)
  <2>1. Laid(file, Complete, end)
        BY <1>4 DEF LaidUpTo
  <2>2. QED
        BY <1>1, <1>3, <1>5, <2>1, LaidKept
<1>7. ReadFrom(cut)[end].records = << >>
  <2>1. CASE \A c \in Context : pc[c] # "data"
    <3>1. end = Len(cut)
          BY <1>3, <1>4, <2>1 DEF LaidUpTo
    <3>2. ReadFrom(cut)[Len(cut)] = [records |-> << >>, panics |-> FALSE]
          BY <1>3, ReadFromIs
    <3>3. QED
          BY <3>1, <3>2
  <2>2. CASE \E c \in Context : pc[c] = "data"
    <3>1. PICK c \in Context : pc[c] = "data"
          BY <2>2
    <3>2. message[c] \in Message
          BY <3>1 DEF CallsAreMessages
    <3>3. Len(message[c]) \in Nat /\ Len(message[c]) >= 1
          BY <3>2, MessageIs
    <3>4. offset = end + 4 /\ RecordSize(file, end) = Len(message[c])
          BY <1>4, <3>1 DEF LaidUpTo
    <3>5. RecordSize(cut, end) = RecordSize(file, end)
      <4>1. end + 1 \in 1 .. offset /\ end + 2 \in 1 .. offset
            /\ end + 3 \in 1 .. offset /\ end + 4 \in 1 .. offset
            BY <1>5, <3>4
      <4>2. cut[end + 1] = file[end + 1] /\ cut[end + 2] = file[end + 2]
            /\ cut[end + 3] = file[end + 3] /\ cut[end + 4] = file[end + 4]
            BY <1>3, <4>1
      <4>3. QED
            BY <4>2 DEF RecordSize
    <3>6. Len(cut) = end + 4
          BY <1>3, <3>4
    <3>7. ReadFrom(cut)[end] = Panic
          BY <1>3, <1>5, <3>3, <3>4, <3>5, <3>6, TornIsPanic
    <3>8. QED
          BY <3>7 DEF Panic
  <2>3. QED
        BY <2>1, <2>2
<1>8. PersistRead(cut).records = Complete \o << >>
  <2>1. PersistRead(cut).records = Complete \o ReadFrom(cut)[end].records
        BY <1>1, <1>3, <1>5, <1>6, LaidPersistRead
  <2>2. QED
        BY <1>7, <2>1
<1>9. Complete \o << >> = Complete
      BY <1>1, ConcatEmptySeq
<1>10. QED
       BY <1>2, <1>8, <1>9 DEF Stream

LEMMA StreamStep ==
  TypeOK /\ CallsAreMessages /\ OneWriter /\ LastIsWriters /\ FileIsLaidOut
    /\ TypeOK' /\ CallsAreMessages' /\ FileIsLaidOut'
    /\ [Next]_vars /\ up /\ up' /\ ~ short'
  => Abstract!Next \/ UNCHANGED Abstract!streamVars
<1> SUFFICES ASSUME TypeOK, CallsAreMessages, OneWriter, LastIsWriters, FileIsLaidOut,
                    TypeOK', CallsAreMessages', FileIsLaidOut',
                    [Next]_vars, up, up', ~ short'
             PROVE  Abstract!Next \/ UNCHANGED Abstract!streamVars
    OBVIOUS
<1>0. /\ pc \in [Context -> {"idle", "take", "size", "data", "release"}]
      /\ message \in [Context -> Seq(Byte)]
      /\ file \in Seq(Byte) /\ offset \in 0 .. Len(file) /\ short \in BOOLEAN
      /\ accepted \in Seq(Seq(Byte))
      BY DEF TypeOK
<1>c. Stream' = Complete'
  <2>1. (TypeOK /\ CallsAreMessages /\ FileIsLaidOut /\ ~ short => Stream = Complete)'
        BY StreamIs, PTL
  <2>2. QED
        BY <2>1
<1>m. \A c \in Context : pc[c] # "idle" => message[c] # << >>
      BY MessageIs DEF CallsAreMessages
<1>s. ASSUME UNCHANGED <<file, offset>> PROVE Stream' = Stream
      BY <1>s DEF Stream
<1>1. CASE Open
      BY <1>1 DEF Open
<1>2. ASSUME NEW c \in Context, NEW args \in Payload, Log(c, args)
      PROVE  Abstract!Next
  <2> DEFINE m == UnsignedBytes(clock) \o args
  <2>1. m \in Message
    <3>1. clock \in 0 .. MaxCalls
          BY DEF TypeOK
    <3>2. \A t \in 0 .. MaxCalls, a \in Payload : UnsignedBytes(t) \o a \in Message
          BY DEF Message
    <3>3. QED
          BY <3>1, <3>2
  <2>2. /\ message' = [message EXCEPT ![c] = m] /\ pc[c] = "idle"
        /\ pc' = [pc EXCEPT ![c] = "take"] /\ UNCHANGED <<file, offset>>
        BY <1>2 DEF Log, Goto
  <2> HIDE DEF m
  <2>a. CallOf[c] = NoCall
        BY <1>0, <2>2 DEF CallOf
  <2>b. CallOf' = [CallOf EXCEPT ![c] = m]
        BY <1>0, <2>2 DEF CallOf
  <2>c. Delivered' = Delivered
        BY <1>0, <2>2 DEF Delivered
  <2>3. /\ CallOf[c] = NoCall /\ CallOf' = [CallOf EXCEPT ![c] = m]
        /\ Delivered' = Delivered
        BY <2>a, <2>b, <2>c
  <2>4. Abstract!Begin(c, m)
        BY <1>s, <2>2, <2>3 DEF Abstract!Begin
  <2>5. \E a \in Message : Abstract!Begin(c, a)
        BY <2>1, <2>4
  <2>6. QED
        BY <2>5 DEF Abstract!Next, Message
<1>3. ASSUME NEW c \in Context, Take(c)
      PROVE  UNCHANGED Abstract!streamVars
  <2>1. CallOf' = CallOf /\ Delivered' = Delivered /\ UNCHANGED <<file, offset>>
        BY <1>0, <1>3 DEF Take, Goto, CallOf, Delivered
  <2>2. QED
        BY <1>s, <2>1 DEF Abstract!streamVars
<1>4. ASSUME NEW c \in Context, Drop(c)
      PROVE  Abstract!Next
  <2>1. /\ pc[c] = "take" /\ pc' = [pc EXCEPT ![c] = "idle"]
        /\ UNCHANGED <<file, offset, message>>
        BY <1>4 DEF Drop, Goto
  <2>2. PICK d \in Context : pc[d] \in Busy
        BY <1>4 DEF Drop, OneWriter
  <2>3. d # c /\ CallOf[d] # NoCall
        BY <1>m, <2>1, <2>2 DEF Busy, CallOf, NoCall
  <2>4. CallOf[c] # NoCall /\ ~ Delivered[c]
        BY <1>m, <2>1 DEF CallOf, NoCall, Delivered
  <2>5. CallOf' = [CallOf EXCEPT ![c] = NoCall] /\ Delivered' = Delivered
        BY <1>0, <2>1 DEF CallOf, Delivered
  <2>6. Abstract!Drop(c)
        BY <1>s, <2>1, <2>3, <2>4, <2>5 DEF Abstract!Drop
  <2>7. QED
        BY <2>6 DEF Abstract!Next
<1>5. ASSUME NEW c \in Context, WriteSize(c)
      PROVE  UNCHANGED Abstract!streamVars
  <2>1. /\ pc[c] = "size" /\ pc' = [pc EXCEPT ![c] = "data"]
        /\ UNCHANGED <<message, accepted>>
        /\ \E n \in 0 .. 4 : WriteOver(SizeBytes(Len(message[c])), n)
        BY <1>5 DEF WriteSize, Goto
  <2>2. ~ short
        BY <1>0, <2>1 DEF WriteOver
  <2>3. Stream = Complete
        BY <2>2, StreamIs
  <2>4. InRecord /\ InRecord'
        BY <1>0, <2>1 DEF InRecord
  <2>5. Complete' = Complete
        BY <2>1, <2>4 DEF Complete
  <2>6. CallOf' = CallOf /\ Delivered' = Delivered
        BY <1>0, <2>1 DEF CallOf, Delivered
  <2>7. QED
        BY <1>c, <2>3, <2>5, <2>6 DEF Abstract!streamVars
<1>6. ASSUME NEW c \in Context, WriteData(c)
      PROVE  Abstract!Next
  <2>1. /\ pc[c] = "data" /\ pc' = [pc EXCEPT ![c] = "release"]
        /\ UNCHANGED <<message, accepted>>
        /\ \E n \in 0 .. Len(message[c]) : WriteOver(message[c], n)
        BY <1>6 DEF WriteData, Goto
  <2>2. ~ short
        BY <1>0, <2>1 DEF WriteOver
  <2>3. Stream = Complete
        BY <2>2, StreamIs
  <2>4. InRecord /\ ~ InRecord'
        BY <1>0, <2>1 DEF InRecord, OneWriter, Busy
  <2>5. Complete = SubSeq(accepted, 1, Len(accepted) - 1) /\ Complete' = accepted
        BY <2>1, <2>4 DEF Complete
  <2>6. accepted # << >> /\ accepted[Len(accepted)] = message[c]
        BY <2>1 DEF LastIsWriters, Busy
  <2>7. accepted = Append(Complete, message[c])
        BY <1>0, <2>5, <2>6, FrontAndLast
  <2>8. CallOf[c] = message[c] /\ CallOf[c] # NoCall /\ ~ Delivered[c]
        BY <1>m, <2>1 DEF CallOf, NoCall, Delivered
  <2>9. CallOf' = CallOf /\ Delivered' = [Delivered EXCEPT ![c] = TRUE]
        BY <1>0, <2>1 DEF CallOf, Delivered
  <2>10. Stream' = Append(Stream, CallOf[c])
         BY <1>c, <2>3, <2>5, <2>7, <2>8
  <2>11. Abstract!Deliver(c)
         BY <2>8, <2>9, <2>10 DEF Abstract!Deliver
  <2>12. QED
         BY <2>11 DEF Abstract!Next
<1>7. ASSUME NEW c \in Context, Release(c)
      PROVE  Abstract!Next
  <2>1. /\ pc[c] = "release" /\ pc' = [pc EXCEPT ![c] = "idle"]
        /\ UNCHANGED <<file, offset, message>>
        BY <1>7 DEF Release, Goto
  <2>2. Delivered[c]
        BY <2>1 DEF Delivered
  <2>3. CallOf' = [CallOf EXCEPT ![c] = NoCall]
        /\ Delivered' = [Delivered EXCEPT ![c] = FALSE]
        BY <1>0, <2>1 DEF CallOf, Delivered
  <2>4. Abstract!Return(c)
        BY <1>s, <2>1, <2>2, <2>3 DEF Abstract!Return
  <2>5. QED
        BY <2>4 DEF Abstract!Next
<1>8. CASE Close \/ Crash
      BY <1>8 DEF Close, Crash
<1>9. CASE UNCHANGED vars
  <2>1. CallOf' = CallOf /\ Delivered' = Delivered /\ UNCHANGED <<file, offset>>
        BY <1>9 DEF vars, CallOf, Delivered
  <2>2. QED
        BY <1>s, <2>1 DEF Abstract!streamVars
<1>10. QED
       BY <1>1, <1>2, <1>3, <1>4, <1>5, <1>6, <1>7, <1>8, <1>9 DEF Next, Call

(* While the process lives and the disk takes what it is given, every call is on
   the file whole and once before it returns, or is dropped because of a call
   that overlaps it (file_logger.cpp 11-48): a FileLogger is a LogStream. *)
THEOREM IsLogStream == Spec => ImplementsLogStream
<1>1. TypeOK /\ CallsAreMessages /\ OneWriter /\ LastIsWriters /\ FileIsLaidOut
        /\ TypeOK' /\ CallsAreMessages' /\ FileIsLaidOut' /\ [Next]_vars
      => [up /\ up' /\ ~ short' => Abstract!Next \/ UNCHANGED Abstract!streamVars]_vars
      BY StreamStep
<1>2. QED
      BY <1>1, TypeCorrect, CallsCorrect, OneWriterCorrect, LastIsWritersCorrect,
         LaidOutCorrect, PTL DEF Spec, ImplementsLogStream
=============================================================================
