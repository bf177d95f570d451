--------------------------- MODULE LogFormatProofs ---------------------------
(***************************************************************************)
(* Proofs about Leb128 and LogFormat: every number is read back, and every *)
(* call outside the known gaps is printed, for every format and arguments. *)
(***************************************************************************)
EXTENDS LogFormat, Recursion, SequenceTheorems, FiniteSetTheorems

Byte == 0 .. 255
-----------------------------------------------------------------------------
(* Sequences. *)

\* Concatenation is associative.
LEMMA Associative ==
  ASSUME NEW S, NEW a \in Seq(S), NEW b \in Seq(S), NEW c \in Seq(S)
  PROVE  (a \o b) \o c = a \o (b \o c)
BY ConcatAssociative

-----------------------------------------------------------------------------
(* Leb128: the recursive definitions, unfolded. *)

LEMMA UnsignedBytesIs ==
  ASSUME NEW v \in Nat
  PROVE  /\ UnsignedBytes(v) \in Seq(Byte)
         /\ v < 128 => UnsignedBytes(v) = <<v>>
         /\ v >= 128 => /\ v \div 128 \in Nat /\ v \div 128 < v
                        /\ UnsignedBytes(v) = <<(v % 128) + 128>> \o UnsignedBytes(v \div 128)
BY UnsignedBytesAre DEF Byte

\* How far a number is from the end of its encoding.
Magnitude(v) == IF v < 0 THEN -v - 1 ELSE v

LEMMA SignedBytesIs ==
  ASSUME NEW v \in Int
  PROVE  /\ SignedBytes(v) \in Seq(Byte)
         /\ v \in -64 .. 63 => SignedBytes(v) = <<v % 128>>
         /\ v \notin -64 .. 63 =>
              /\ v \div 128 \in Int /\ Magnitude(v \div 128) < Magnitude(v)
              /\ SignedBytes(v) = <<(v % 128) + 128>> \o SignedBytes(v \div 128)
<1> DEFINE S == Seq(Byte)
           Last(u) == \/ u \div 128 = -1 /\ u % 128 >= 64
                      \/ u \div 128 = 0 /\ u % 128 < 64
           measure == [u \in Int |-> Magnitude(u)]
           base == -64 .. 63
           link == [u \in Int |-> u \div 128]
           init == [u \in Int |-> <<u % 128>>]
           step == [u \in Int |-> [s \in S |-> <<(u % 128) + 128>> \o s]]
           Body(f) == [u \in Int |-> IF Last(u) THEN <<u % 128>>
                                     ELSE <<(u % 128) + 128>> \o f[u \div 128]]
           from == CHOOSE f : f = Body(f)
<1>1. ASSUME NEW u \in Int
      PROVE  /\ u \div 128 \in Int /\ (u % 128) + 128 \in Byte /\ u % 128 \in Byte
             /\ Magnitude(u) \in Nat
             /\ Last(u) <=> u \in base
             /\ u \notin base => Magnitude(u \div 128) < Magnitude(u)
      BY DEF Byte, Magnitude
<1>2. Measured(Int, measure, base, link)
      BY <1>1 DEF Measured
<1>3. init \in [Int -> S]
  <2>1. ASSUME NEW u \in Int PROVE <<u % 128>> \in S
        BY <1>1
  <2>2. QED
        BY <2>1
<1>4. Steps(step, Int, S)
  <2>1. ASSUME NEW u \in Int, NEW s \in S PROVE <<(u % 128) + 128>> \o s \in S
        BY <1>1, Pushed
  <2> HIDE DEF S
  <2>2. QED
        BY <2>1 DEF Steps
<1>5. PICK f : f \in [Int -> S] /\ Follows(f, Int, base, init, link, step)
  <2> HIDE DEF S, measure, base, link, init, step
  <2>1. QED
        BY <1>2, <1>3, <1>4, MeasuredFunction
<1> HIDE DEF S, Last, base
<1>6. f = Body(f)
  <2>1. ASSUME NEW u \in Int
        PROVE  f[u] = IF Last(u) THEN <<u % 128>> ELSE <<(u % 128) + 128>> \o f[u \div 128]
    <3>1. f[u] = IF u \in base THEN init[u] ELSE step[u][f[link[u]]]
          BY <1>5 DEF Follows
    <3>2. CASE Last(u)
          BY <1>1, <3>1, <3>2
    <3>3. CASE ~Last(u)
      <4>1. PICK q \in Int : q = u \div 128
            BY <1>1
      <4>2. f[q] \in S
            BY <1>5
      <4>3. step[u][f[q]] = <<(u % 128) + 128>> \o f[q]
            BY <4>2
      <4>4. u \notin base /\ link[u] = q
            BY <1>1, <3>3, <4>1
      <4> HIDE DEF step, link
      <4>5. f[u] = <<(u % 128) + 128>> \o f[q]
            BY <3>1, <4>3, <4>4
      <4>6. QED
            BY <3>3, <4>1, <4>5
    <3>4. QED
          BY <3>2, <3>3
  <2>2. QED
        BY <1>5, <2>1
<1>7. from = Body(from)
  <2> HIDE DEF Body
  <2>1. QED
        BY <1>6
<1>8. \A u : SignedBytes(u) = from[u]
      BY DEF SignedBytes, Last
<1> HIDE DEF from
<1>9. ASSUME NEW u \in Int
      PROVE  /\ u \in base => from[u] = <<u % 128>>
             /\ u \notin base => from[u] = <<(u % 128) + 128>> \o from[u \div 128]
  <2>1. from[u] = IF Last(u) THEN <<u % 128>> ELSE <<(u % 128) + 128>> \o from[u \div 128]
        BY <1>7
  <2>2. QED
        BY <1>1, <2>1
<1>10. \A u \in Int : from[u] \in S
  <2> DEFINE K == {n \in Nat : \A u \in Int : Magnitude(u) = n => from[u] \in S}
  <2>1. ASSUME NEW n \in Nat, 0 .. n - 1 \subseteq K PROVE n \in K
    <3>1. SUFFICES ASSUME NEW u \in Int, Magnitude(u) = n PROVE from[u] \in S
          OBVIOUS
    <3>2. CASE u \in base
      <4>1. from[u] = <<u % 128>> /\ u % 128 \in Byte
            BY <1>1, <1>9, <3>2
      <4>2. QED
            BY <4>1 DEF S
    <3>3. CASE u \notin base
      <4>1. PICK q \in Int : q = u \div 128
            BY <1>1
      <4>2. Magnitude(q) < n /\ Magnitude(q) \in Nat
            BY <1>1, <3>1, <3>3, <4>1
      <4>3. from[q] \in S
            BY <2>1, <4>2
      <4>4. <<(u % 128) + 128>> \o from[q] \in S
            BY <1>1, <4>3, Pushed DEF S
      <4>5. from[u] = <<(u % 128) + 128>> \o from[q]
            BY <1>9, <3>3, <4>1
      <4>6. QED
            BY <4>4, <4>5
    <3>4. QED
          BY <3>2, <3>3
  <2>2. Nat \subseteq K
    <3> HIDE DEF K
    <3>1. QED
          BY <2>1, StrongInduction
  <2>3. QED
        BY <1>1, <2>2
<1>11. /\ v \in -64 .. 63 => from[v] = <<v % 128>>
       /\ v \notin -64 .. 63 => from[v] = <<(v % 128) + 128>> \o from[v \div 128]
       BY <1>9 DEF base
<1>12. v \notin -64 .. 63 => v \div 128 \in Int /\ Magnitude(v \div 128) < Magnitude(v)
       BY <1>1 DEF base
<1>13. from[v] \in Seq(Byte)
       BY <1>10 DEF S
<1>14. QED
       BY <1>8, <1>11, <1>12, <1>13
-----------------------------------------------------------------------------
(* The readers. *)

LEMMA Groups == \A x \in Byte : x \in Int /\ x \in Nat /\ (x < 128 => x \in 0 .. 127)
BY DEF Byte

\* The reader of a number whose last byte means what last gives for it.
\* Opaque to the arithmetic of the proofs below.
Empty(b) == b = << >>

Reader(last) ==
  CHOOSE f : f = [b \in Seq(Byte) |-> IF b = << >> THEN 0
                                      ELSE IF b[1] < 128 THEN last[b[1]]
                                      ELSE (b[1] - 128) + 128 * f[Tail(b)]]

LEMMA ReaderIs ==
  ASSUME NEW last \in [0 .. 127 -> Int]
  PROVE  /\ Reader(last) \in [Seq(Byte) -> Int]
         /\ \A x \in Byte : \A t \in Seq(Byte) :
              Reader(last)[<<x>> \o t] =
                IF x < 128 THEN last[x] ELSE (x - 128) + 128 * Reader(last)[t]
<1> DEFINE S == Seq(Byte)
           measure == [b \in S |-> Len(b)]
           base == {b \in S : Empty(b) \/ b[1] < 128}
           link == [b \in S |-> IF Empty(b) THEN b ELSE Tail(b)]
           init == [b \in S |-> IF Empty(b) \/ ~ (b[1] < 128) THEN 0 ELSE last[b[1]]]
           step == [b \in S |-> [n \in Int |-> IF Empty(b) THEN 0 ELSE (b[1] - 128) + 128 * n]]
           Body(f) == [b \in S |-> IF Empty(b) THEN 0
                                   ELSE IF b[1] < 128 THEN last[b[1]]
                                   ELSE (b[1] - 128) + 128 * f[Tail(b)]]
           from == Reader(last)
<1>1. ASSUME NEW b \in S, ~Empty(b)
      PROVE  /\ b[1] \in Byte /\ Tail(b) \in S
             /\ Len(b) \in Nat /\ Len(Tail(b)) \in Nat /\ Len(Tail(b)) < Len(b)
  <2>1. Len(b) \in Nat /\ Len(b) # 0
        BY <1>1, EmptySeq, LenProperties DEF Empty
  <2>2. b[1] \in Byte
    <3>1. 1 \in 1 .. Len(b)
          BY <2>1
    <3>2. QED
          BY <3>1, ElementOfSeq
  <2>3. Tail(b) \in S /\ Len(Tail(b)) = Len(b) - 1
        BY <1>1, HeadTailProperties DEF Empty
  <2> DEFINE n == Len(b)
             k == Len(Tail(b))
  <2>4. n \in Nat /\ n # 0 /\ k = n - 1
        BY <2>1, <2>3
  <2> HIDE DEF n, k
  <2>5. k \in Nat /\ k < n
        BY <2>4
  <2>6. QED
        BY <2>2, <2>3, <2>4, <2>5 DEF n, k
<1>2. << >> \in S /\ \A b \in S : Len(b) \in Nat
      BY EmptySeq, LenProperties
<1> HIDE DEF S
<1>3. Measured(S, measure, base, link)
      BY <1>1, <1>2 DEF Measured
<1>4. init \in [S -> Int]
  <2>1. ASSUME NEW b \in S, ~Empty(b), b[1] < 128 PROVE last[b[1]] \in Int
    <3>1. b[1] \in 0 .. 127
          BY <1>1, <2>1, Groups
    <3>2. QED
          BY <3>1
  <2>2. QED
        BY <2>1
<1>5. Steps(step, S, Int)
  <2>1. SUFFICES ASSUME NEW b \in S PROVE step[b] \in [Int -> Int]
        BY DEF Steps
  <2>2. ASSUME NEW n \in Int, ~Empty(b) PROVE (b[1] - 128) + 128 * n \in Int
    <3>1. b[1] \in Byte
          BY <1>1, <2>2
    <3>2. b[1] \in Int
          BY <3>1, Groups
    <3>3. QED
          BY <3>2
  <2>3. QED
        BY <2>2
<1>6. PICK f : f \in [S -> Int] /\ Follows(f, S, base, init, link, step)
  <2> HIDE DEF measure, base, link, init, step
  <2>1. QED
        BY <1>3, <1>4, <1>5, MeasuredFunction
<1>7. ASSUME NEW b \in S
      PROVE  f[b] = IF Empty(b) THEN 0
                    ELSE IF b[1] < 128 THEN last[b[1]]
                    ELSE (b[1] - 128) + 128 * f[Tail(b)]
  <2>1. f[b] = IF b \in base THEN init[b] ELSE step[b][f[link[b]]]
        BY <1>6 DEF Follows
  <2>2. CASE Empty(b)
        BY <2>1, <2>2
  <2>3. CASE ~Empty(b) /\ b[1] < 128
    <3>1. b \in base
          BY <2>3
    <3>2. init[b] = last[b[1]]
          BY <2>3
    <3> HIDE DEF base, init
    <3>3. QED
          BY <2>1, <2>3, <3>1, <3>2
  <2>4. CASE ~Empty(b) /\ ~ (b[1] < 128)
    <3>1. b \notin base /\ link[b] = Tail(b)
          BY <2>4
    <3>2. f[Tail(b)] \in Int
          BY <1>1, <1>6, <2>4
    <3>3. step[b][f[Tail(b)]] = (b[1] - 128) + 128 * f[Tail(b)]
          BY <2>4, <3>2
    <3> HIDE DEF base, init, link, step
    <3>4. f[b] = step[b][f[Tail(b)]]
          BY <2>1, <3>1
    <3>5. QED
          BY <2>4, <3>3, <3>4
  <2>5. QED
        BY <2>2, <2>3, <2>4
<1>8. f = Body(f)
      BY <1>6, <1>7
<1>9. from = CHOOSE g : g = Body(g)
      BY DEF S, Reader, Empty
<1> HIDE DEF from
<1>10. from = Body(from)
  <2> HIDE DEF Body
  <2>1. QED
        BY <1>8, <1>9
<1>11. ASSUME NEW b \in S
       PROVE  from[b] = IF Empty(b) THEN 0
                        ELSE IF b[1] < 128 THEN last[b[1]]
                        ELSE (b[1] - 128) + 128 * from[Tail(b)]
       BY <1>10
<1>12. \A b \in S : Empty(b) => from[b] = 0
       BY <1>11
<1>13. ASSUME NEW x \in Byte, NEW t \in S
       PROVE  from[<<x>> \o t] = IF x < 128 THEN last[x] ELSE (x - 128) + 128 * from[t]
  <2> DEFINE b == <<x>> \o t
  <2>1. b \in S /\ Len(b) = 1 + Len(t) /\ b[1] = x /\ Tail(b) = t
        BY Pushed, ZenonT(30) DEF S
  <2>2. ~Empty(b)
        BY <1>2, <2>1, EmptySeq DEF Empty
  <2> HIDE DEF b
  <2>3. from[b] = IF b[1] < 128 THEN last[b[1]] ELSE (b[1] - 128) + 128 * from[Tail(b)]
        BY <1>11, <2>1, <2>2
  <2>4. from[b] = IF x < 128 THEN last[x] ELSE (x - 128) + 128 * from[t]
    <3>1. b[1] = x /\ Tail(b) = t
          BY <2>1
    <3>2. QED
          BY <2>3, <3>1, Zenon
  <2>5. QED
        BY <2>4 DEF b
<1>14. from \in [S -> Int]
  <2> DEFINE K == {n \in Nat : \A b \in S : Len(b) = n => from[b] \in Int}
  <2>1. ASSUME NEW n \in Nat, 0 .. n - 1 \subseteq K PROVE n \in K
    <3>1. SUFFICES ASSUME NEW b \in S, Len(b) = n PROVE from[b] \in Int
          OBVIOUS
    <3>2. CASE Empty(b)
          BY <1>12, <3>2
    <3>3. CASE ~Empty(b)
      <4>1. from[Tail(b)] \in Int
        <5>1. /\ Tail(b) \in S /\ Len(Tail(b)) \in Nat /\ Len(b) \in Nat
              /\ Len(Tail(b)) < Len(b)
              BY <1>1, <3>3
        <5> DEFINE k == Len(Tail(b))
        <5>2. k \in Nat /\ k < n
              BY <3>1, <5>1
        <5> HIDE DEF k
        <5>3. k \in 0 .. n - 1
              BY <5>2
        <5>4. k \in K
              BY <2>1, <5>3
        <5>5. QED
              BY <5>1, <5>4 DEF k
      <4>2. b[1] \in Int /\ b[1] \in Byte
        <5>1. b[1] \in Byte
              BY <1>1, <3>3
        <5>2. QED
              BY <5>1, Groups
      <4>3. b[1] < 128 => last[b[1]] \in Int
        <5>1. b[1] < 128 => b[1] \in 0 .. 127
              BY <4>2, Groups
        <5>2. QED
              BY <5>1
      <4>4. from[b] = IF b[1] < 128 THEN last[b[1]] ELSE (b[1] - 128) + 128 * from[Tail(b)]
            BY <1>11, <3>3
      <4>5. QED
            BY <4>1, <4>2, <4>3, <4>4
    <3>4. QED
          BY <3>2, <3>3
  <2>2. Nat \subseteq K
    <3> HIDE DEF K
    <3>1. QED
          BY <2>1, StrongInduction
  <2>3. \A b \in S : from[b] \in Int
        BY <1>2, <2>2
  <2>4. QED
        BY <1>10, <2>3
<1>15. \A x \in Byte : \A t \in Seq(Byte) :
         from[<<x>> \o t] = IF x < 128 THEN last[x] ELSE (x - 128) + 128 * from[t]
       BY <1>13 DEF S
<1>16. from \in [Seq(Byte) -> Int]
       BY <1>14 DEF S
<1>17. QED
       BY <1>15, <1>16 DEF from

LEMMA UnsignedValueIs ==
  /\ \A b \in Seq(Byte) : UnsignedValue(b) \in Int
  /\ \A x \in Byte : \A t \in Seq(Byte) :
       UnsignedValue(<<x>> \o t) = IF x < 128 THEN x ELSE (x - 128) + 128 * UnsignedValue(t)
<1> DEFINE last == [x \in 0 .. 127 |-> x]
           Mine(f) == [b \in Seq(Byte) |->
                  IF b = << >> THEN 0
                  ELSE IF b[1] < 128 THEN b[1]
                  ELSE (b[1] - 128) + 128 * f[Tail(b)]]
           Its(f) == [b \in Seq(Byte) |->
                  IF b = << >> THEN 0
                  ELSE IF b[1] < 128 THEN last[b[1]]
                  ELSE (b[1] - 128) + 128 * f[Tail(b)]]
           from == CHOOSE f : f = Mine(f)
<1>1. ASSUME NEW f PROVE Mine(f) = Its(f)
  <2>1. ASSUME NEW b \in Seq(Byte), b # << >>, b[1] < 128 PROVE last[b[1]] = b[1]
    <3>1. Len(b) \in Nat /\ Len(b) # 0
          BY <2>1, EmptySeq, LenProperties
    <3>2. b[1] \in Byte
          BY <3>1, ElementOfSeq
    <3>3. b[1] \in 0 .. 127
          BY <2>1, <3>2, Groups
    <3>4. QED
          BY <3>3
  <2> HIDE DEF last
  <2>2. QED
        BY <2>1
<1>2. from = Reader(last)
  <2>1. from = CHOOSE f : f = Its(f)
    <3> HIDE DEF Mine, Its
    <3>1. QED
          BY <1>1
  <2>2. QED
        BY <2>1 DEF Reader
<1>3. last \in [0 .. 127 -> Int]
      OBVIOUS
<1>4. \A b : UnsignedValue(b) = from[b]
      BY DEF UnsignedValue, Byte
<1> HIDE DEF from
<1>5. /\ from \in [Seq(Byte) -> Int]
      /\ \A x \in Byte : \A t \in Seq(Byte) :
           from[<<x>> \o t] = IF x < 128 THEN last[x] ELSE (x - 128) + 128 * from[t]
  <2> HIDE DEF last
  <2>1. /\ Reader(last) \in [Seq(Byte) -> Int]
        /\ \A x \in Byte : \A t \in Seq(Byte) :
             Reader(last)[<<x>> \o t] =
               IF x < 128 THEN last[x] ELSE (x - 128) + 128 * Reader(last)[t]
        BY <1>3, ReaderIs
  <2>2. QED
        BY <1>2, <2>1
<1>6. ASSUME NEW x \in Byte, NEW t \in Seq(Byte)
      PROVE  from[<<x>> \o t] = IF x < 128 THEN x ELSE (x - 128) + 128 * from[t]
  <2>1. x < 128 => last[x] = x
        BY Groups
  <2> HIDE DEF last
  <2>2. QED
        BY <1>5, <2>1
<1> HIDE DEF last
<1>7. \A b \in Seq(Byte) : from[b] \in Int
      BY <1>5
<1>8. \A x \in Byte : \A t \in Seq(Byte) :
         from[<<x>> \o t] = IF x < 128 THEN x ELSE (x - 128) + 128 * from[t]
      BY <1>6
<1>9. QED
      BY <1>4, <1>7, <1>8

LEMMA SignedValueIs ==
  /\ \A b \in Seq(Byte) : SignedValue(b) \in Int
  /\ \A x \in Byte : \A t \in Seq(Byte) :
       SignedValue(<<x>> \o t) = IF x < 64 THEN x ELSE IF x < 128 THEN x - 128
                                 ELSE (x - 128) + 128 * SignedValue(t)
<1> DEFINE Last(x) == IF x < 64 THEN x ELSE x - 128
           last == [x \in 0 .. 127 |-> Last(x)]
           Mine(f) == [b \in Seq(Byte) |->
                  IF b = << >> THEN 0
                  ELSE IF b[1] < 64 THEN b[1]
                  ELSE IF b[1] < 128 THEN b[1] - 128
                  ELSE (b[1] - 128) + 128 * f[Tail(b)]]
           Its(f) == [b \in Seq(Byte) |->
                  IF b = << >> THEN 0
                  ELSE IF b[1] < 128 THEN last[b[1]]
                  ELSE (b[1] - 128) + 128 * f[Tail(b)]]
           from == CHOOSE f : f = Mine(f)
<1>1. ASSUME NEW x \in Byte, x < 128 PROVE last[x] = IF x < 64 THEN x ELSE x - 128
  <2>1. x \in 0 .. 127
        BY <1>1, Groups
  <2>2. QED
        BY <2>1
<1>2. ASSUME NEW x \in Byte PROVE x < 64 => x < 128
      BY DEF Byte
<1> HIDE DEF last
<1>3. ASSUME NEW f PROVE Mine(f) = Its(f)
  <2>1. ASSUME NEW b \in Seq(Byte), ~Empty(b) PROVE b[1] \in Byte
    <3>1. Len(b) \in Nat /\ Len(b) # 0
          BY <2>1, EmptySeq, LenProperties DEF Empty
    <3>2. 1 \in 1 .. Len(b)
          BY <3>1
    <3>3. QED
          BY <3>2, ElementOfSeq
  <2>2. ASSUME NEW b \in Seq(Byte), ~Empty(b)
        PROVE  (IF b[1] < 64 THEN b[1] ELSE IF b[1] < 128 THEN b[1] - 128
                ELSE (b[1] - 128) + 128 * f[Tail(b)])
               = IF b[1] < 128 THEN last[b[1]] ELSE (b[1] - 128) + 128 * f[Tail(b)]
    <3>1. PICK x \in Byte : x = b[1]
          BY <2>1, <2>2
    <3>2. /\ x < 128 => last[x] = IF x < 64 THEN x ELSE x - 128
          /\ x < 64 => x < 128
          BY <1>1, <1>2
    <3>3. QED
          BY <3>1, <3>2
  <2>3. QED
        BY <2>2 DEF Empty
<1>4. from = Reader(last)
  <2>1. from = CHOOSE f : f = Its(f)
    <3> HIDE DEF Mine, Its
    <3>1. QED
          BY <1>3
  <2>2. QED
        BY <2>1 DEF Reader
<1>5. last \in [0 .. 127 -> Int]
      BY DEF last
<1>6. \A b : SignedValue(b) = from[b]
      BY DEF SignedValue, Byte
<1> HIDE DEF from
<1>7. /\ from \in [Seq(Byte) -> Int]
      /\ \A x \in Byte : \A t \in Seq(Byte) :
           from[<<x>> \o t] = IF x < 128 THEN last[x] ELSE (x - 128) + 128 * from[t]
  <2>1. /\ Reader(last) \in [Seq(Byte) -> Int]
        /\ \A x \in Byte : \A t \in Seq(Byte) :
             Reader(last)[<<x>> \o t] =
               IF x < 128 THEN last[x] ELSE (x - 128) + 128 * Reader(last)[t]
        BY <1>5, ReaderIs
  <2>2. QED
        BY <1>4, <2>1
<1>8. ASSUME NEW x \in Byte, NEW t \in Seq(Byte)
      PROVE  from[<<x>> \o t] = IF x < 64 THEN x ELSE IF x < 128 THEN x - 128
                                ELSE (x - 128) + 128 * from[t]
  <2>1. /\ x < 128 => last[x] = IF x < 64 THEN x ELSE x - 128
        /\ x < 64 => x < 128
        BY <1>1, <1>2
  <2>2. from[<<x>> \o t] = IF x < 128 THEN last[x] ELSE (x - 128) + 128 * from[t]
        BY <1>7
  <2>3. QED
        BY <2>1, <2>2
<1>9. \A b \in Seq(Byte) : from[b] \in Int
      BY <1>7
<1>10. \A x \in Byte : \A t \in Seq(Byte) :
         from[<<x>> \o t] = IF x < 64 THEN x ELSE IF x < 128 THEN x - 128
                            ELSE (x - 128) + 128 * from[t]
       BY <1>8
<1>11. QED
       BY <1>6, <1>9, <1>10
-----------------------------------------------------------------------------
(* Numbers are read back. *)

\* Only the last byte of a number is without its top bit.
Number(e) ==
  /\ e \in Seq(Byte) /\ Len(e) >= 1
  /\ e[Len(e)] < 128
  /\ \A i \in 1 .. Len(e) - 1 : e[i] >= 128

LEMMA ShortNumber == ASSUME NEW x \in Byte, x < 128 PROVE Number(<<x>>)
BY DEF Number

LEMMA LongNumber ==
  ASSUME NEW x \in Byte, x >= 128, NEW t, Number(t)
  PROVE  Number(<<x>> \o t)
<1> DEFINE s == <<x>> \o t
<1>1. t \in Seq(Byte) /\ Len(t) \in Nat /\ Len(t) >= 1
      BY LenProperties DEF Number
<1>2. /\ s \in Seq(Byte) /\ Len(s) = 1 + Len(t) /\ s[1] = x
      /\ \A i \in 1 .. Len(t) : s[1 + i] = t[i]
      BY <1>1, Pushed
<1> HIDE DEF s
<1>3. s[Len(s)] < 128
  <2>1. Len(t) \in 1 .. Len(t)
        BY <1>1
  <2>2. s[Len(s)] = t[Len(t)]
        BY <1>2, <2>1
  <2>3. QED
        BY <2>2 DEF Number
<1>4. ASSUME NEW i \in 1 .. Len(s) - 1 PROVE s[i] >= 128
  <2>1. CASE i = 1
        BY <1>2, <2>1
  <2>2. CASE i # 1
    <3>1. PICK j \in 1 .. Len(t) - 1 : i = 1 + j
      <4>1. i - 1 \in 1 .. Len(t) - 1 /\ i = 1 + (i - 1)
            BY <1>1, <1>2, <2>2
      <4>2. QED
            BY <4>1
    <3>2. j \in 1 .. Len(t)
          BY <1>1
    <3>3. s[i] = t[j] /\ t[j] >= 128
          BY <1>2, <3>1, <3>2 DEF Number
    <3>4. QED
          BY <3>3
  <2>3. QED
        BY <2>1, <2>2
<1>5. Number(s)
      BY <1>1, <1>2, <1>3, <1>4 DEF Number
<1>6. QED
      BY <1>5 DEF s

LEMMA NumberEnds ==
  ASSUME NEW e, Number(e), NEW rest \in Seq(Byte)
  PROVE  NumberLength(e \o rest) = Len(e)
<1> DEFINE s == e \o rest
           n == Len(e)
           ends == {i \in DOMAIN s : s[i] < 128}
<1>1. e \in Seq(Byte) /\ n \in Nat /\ n >= 1 /\ Len(rest) \in Nat
      BY LenProperties DEF Number
<1>2. /\ Len(s) = n + Len(rest) /\ DOMAIN s = 1 .. Len(s)
      /\ \A i \in 1 .. n : s[i] = e[i]
  <2>1. s \in Seq(Byte) /\ Len(s) = n + Len(rest)
        BY <1>1, ConcatProperties
  <2>2. DOMAIN s = 1 .. Len(s)
        BY <2>1, LenProperties
  <2>3. ASSUME NEW i \in 1 .. n PROVE s[i] = e[i]
    <3>1. i \in 1 .. Len(e) + Len(rest) /\ i <= Len(e)
          BY <1>1
    <3>2. QED
          BY <1>1, <3>1, ConcatProperties
  <2>4. QED
        BY <2>1, <2>2, <2>3
<1>3. NumberLength(s) = IF ends = {} THEN 0 ELSE CHOOSE i \in ends : \A j \in ends : i <= j
      BY DEF NumberLength
<1> HIDE DEF s
<1>4. n \in ends
  <2>1. n \in 1 .. n /\ n \in 1 .. Len(s)
        BY <1>1, <1>2
  <2>2. s[n] = e[n] /\ e[n] < 128
        BY <1>2, <2>1 DEF Number
  <2> HIDE DEF n
  <2>3. QED
        BY <1>2, <2>1, <2>2
<1>5. ASSUME NEW j \in ends PROVE n <= j
  <2>1. j \in 1 .. Len(s) /\ j \in Nat /\ s[j] < 128
        BY <1>2
  <2>2. SUFFICES ASSUME j < n PROVE FALSE
        BY <1>1, <2>1
  <2>3. j \in 1 .. n /\ j \in 1 .. Len(e) - 1
        BY <1>1, <2>1, <2>2
  <2>4. PICK x \in Byte : x = e[j]
        BY <1>1, <2>3, ElementOfSeq
  <2>5. x >= 128 /\ x < 128
        BY <1>2, <2>1, <2>3, <2>4 DEF Number
  <2>6. QED
        BY <2>5 DEF Byte
<1>6. \A i \in ends : (\A j \in ends : i <= j) => i = n
  <2>1. SUFFICES ASSUME NEW i \in ends, \A j \in ends : i <= j PROVE i = n
        OBVIOUS
  <2>2. i <= n /\ n <= i /\ i \in Nat
        BY <1>2, <1>4, <1>5, <2>1
  <2> HIDE DEF n, ends
  <2>3. QED
        BY <1>1, <2>2
<1> HIDE DEF ends, n
<1>7. (CHOOSE i \in ends : \A j \in ends : i <= j) = n
      BY <1>4, <1>5, <1>6
<1>8. NumberLength(s) = n
      BY <1>3, <1>4, <1>7
<1>9. QED
      BY <1>8 DEF s, n

\* What is written in front of anything is read as what it was.
LEMMA UnsignedRead ==
  ASSUME NEW v \in Nat, NEW rest \in Seq(Byte)
  PROVE  /\ Number(UnsignedBytes(v))
         /\ UnsignedValue(UnsignedBytes(v) \o rest) = v
<1> DEFINE Read(u) == /\ Number(UnsignedBytes(u))
                      /\ UnsignedValue(UnsignedBytes(u) \o rest) = u
           K == {u \in Nat : Read(u)}
<1>1. ASSUME NEW u \in Nat, 0 .. u - 1 \subseteq K PROVE u \in K
  <2>1. CASE u < 128
    <3>1. u \in Byte /\ UnsignedBytes(u) = <<u>>
      <4>1. UnsignedBytes(u) = <<u>>
            BY <2>1, UnsignedBytesIs
      <4>2. u \in Byte
            BY <2>1 DEF Byte
      <4>3. QED
            BY <4>1, <4>2
    <3>2. UnsignedValue(<<u>> \o rest) = u
          BY <2>1, <3>1, UnsignedValueIs
    <3>3. Number(<<u>>)
          BY <2>1, <3>1, ShortNumber
    <3>4. QED
          BY <3>1, <3>2, <3>3
  <2>2. CASE u >= 128
    <3>1. PICK q \in Nat : q = u \div 128
          BY <2>2, UnsignedBytesIs
    <3>2. PICK x \in Byte : x = (u % 128) + 128
          BY DEF Byte
    <3>3. q < u /\ UnsignedBytes(u) = <<x>> \o UnsignedBytes(q)
          BY <2>2, <3>1, <3>2, UnsignedBytesIs
    <3>4. x >= 128 /\ u = (x - 128) + 128 * q
          BY <3>1, <3>2
    <3>5. q \in 0 .. u - 1
          BY <3>3
    <3>6. Read(q)
          BY <1>1, <3>5
    <3>7. UnsignedBytes(q) \in Seq(Byte) /\ <<x>> \in Seq(Byte)
          BY <3>6 DEF Number
    <3> DEFINE t == UnsignedBytes(q) \o rest
    <3>8. t \in Seq(Byte)
          BY <3>7, ConcatProperties
    <3>9. (<<x>> \o UnsignedBytes(q)) \o rest = <<x>> \o t
          BY <3>7, Associative
    <3>10. UnsignedValue(t) = q
           BY <3>6
    <3> HIDE DEF t
    <3>11. UnsignedValue(<<x>> \o t) =
             IF x < 128 THEN x ELSE (x - 128) + 128 * UnsignedValue(t)
           BY <3>8, UnsignedValueIs
    <3>12. UnsignedValue(<<x>> \o t) = u
      <4>1. x \in Nat
            BY DEF Byte
      <4>2. QED
            BY <3>4, <3>10, <3>11, <4>1
    <3>13. Number(<<x>> \o UnsignedBytes(q))
           BY <3>4, <3>6, LongNumber
    <3>14. QED
           BY <3>3, <3>9, <3>12, <3>13
  <2>3. QED
        BY <2>1, <2>2
<1>2. Nat \subseteq K
  <2> HIDE DEF K
  <2>1. QED
        BY <1>1, StrongInduction
<1>3. QED
      BY <1>2

LEMMA SignedRead ==
  ASSUME NEW v \in Int, NEW rest \in Seq(Byte)
  PROVE  /\ Number(SignedBytes(v))
         /\ SignedValue(SignedBytes(v) \o rest) = v
         /\ v >= 0 => UnsignedValue(SignedBytes(v) \o rest) = v
<1> DEFINE Read(u) == /\ Number(SignedBytes(u))
                      /\ SignedValue(SignedBytes(u) \o rest) = u
                      /\ u >= 0 => UnsignedValue(SignedBytes(u) \o rest) = u
           K == {n \in Nat : \A u \in Int : Magnitude(u) = n => Read(u)}
<1>1. \A u \in Int : Magnitude(u) \in Nat
      BY DEF Magnitude
<1>2. ASSUME NEW n \in Nat, 0 .. n - 1 \subseteq K PROVE n \in K
  <2>1. SUFFICES ASSUME NEW u \in Int, Magnitude(u) = n PROVE Read(u)
        OBVIOUS
  <2>2. CASE u \in -64 .. 63
    <3>1. PICK x \in Byte : x = u % 128
          BY DEF Byte
    <3>2. SignedBytes(u) = <<x>>
          BY <2>2, <3>1, SignedBytesIs
    <3>3. /\ x < 128 /\ u = (IF x < 64 THEN x ELSE x - 128)
          /\ u >= 0 => x = u
          BY <2>2, <3>1
    <3>4. SignedValue(<<x>> \o rest) = u
          BY <3>3, SignedValueIs
    <3>5. UnsignedValue(<<x>> \o rest) = x
          BY <3>3, UnsignedValueIs
    <3>6. Number(<<x>>)
          BY <3>3, ShortNumber
    <3>7. QED
          BY <3>2, <3>3, <3>4, <3>5, <3>6
  <2>3. CASE u \notin -64 .. 63
    <3>1. PICK q \in Int : q = u \div 128
          BY <2>3, SignedBytesIs
    <3>2. PICK x \in Byte : x = (u % 128) + 128
          BY DEF Byte
    <3>3. SignedBytes(u) = <<x>> \o SignedBytes(q)
          BY <2>3, <3>1, <3>2, SignedBytesIs
    <3>4. /\ x \in Nat /\ x >= 128 /\ u = (x - 128) + 128 * q
          /\ u >= 0 => q >= 0
          BY <3>1, <3>2
    <3>5. Magnitude(q) \in 0 .. n - 1
      <4>1. Magnitude(q) < Magnitude(u)
            BY <2>3, <3>1, SignedBytesIs
      <4>2. QED
            BY <1>1, <2>1, <4>1
    <3>6. Read(q)
          BY <1>2, <3>5
    <3>7. SignedBytes(q) \in Seq(Byte) /\ <<x>> \in Seq(Byte)
          BY <3>6 DEF Number
    <3> DEFINE t == SignedBytes(q) \o rest
    <3>8. t \in Seq(Byte)
          BY <3>7, ConcatProperties
    <3>9. (<<x>> \o SignedBytes(q)) \o rest = <<x>> \o t
          BY <3>7, Associative
    <3>10. SignedValue(t) = q /\ (q >= 0 => UnsignedValue(t) = q)
           BY <3>6
    <3> HIDE DEF t
    <3>11. UnsignedValue(<<x>> \o t) =
             IF x < 128 THEN x ELSE (x - 128) + 128 * UnsignedValue(t)
           BY <3>8, UnsignedValueIs
    <3>12. SignedValue(<<x>> \o t) =
             IF x < 64 THEN x ELSE IF x < 128 THEN x - 128
             ELSE (x - 128) + 128 * SignedValue(t)
           BY <3>8, SignedValueIs
    <3>13. SignedValue(<<x>> \o t) = u
           BY <3>4, <3>10, <3>12
    <3>14. u >= 0 => UnsignedValue(<<x>> \o t) = u
           BY <3>4, <3>10, <3>11
    <3>15. Number(<<x>> \o SignedBytes(q))
           BY <3>4, <3>6, LongNumber
    <3>16. QED
           BY <3>3, <3>9, <3>13, <3>14, <3>15
  <2>4. QED
        BY <2>2, <2>3
<1>3. Nat \subseteq K
  <2> HIDE DEF K
  <2>1. QED
        BY <1>2, StrongInduction
<1>4. Read(v)
      BY <1>1, <1>3
<1>5. QED
      BY <1>4

(* Every number the target writes is read back by the host, whatever follows
   it: writeLeb128 (logger.h) and leb128::read agree for every value, an
   unsigned reader is right about a number written with a sign as long as it is
   not negative, and both find where it ends. *)
THEOREM NumbersAreReadBack ==
  ASSUME NEW rest \in Seq(Byte)
  PROVE  /\ \A v \in Nat :
              /\ NumberLength(UnsignedBytes(v) \o rest) = Len(UnsignedBytes(v))
              /\ UnsignedValue(UnsignedBytes(v) \o rest) = v
         /\ \A v \in Int :
              /\ NumberLength(SignedBytes(v) \o rest) = Len(SignedBytes(v))
              /\ SignedValue(SignedBytes(v) \o rest) = v
              /\ v >= 0 => UnsignedValue(SignedBytes(v) \o rest) = v
<1>1. ASSUME NEW v \in Nat
      PROVE  /\ NumberLength(UnsignedBytes(v) \o rest) = Len(UnsignedBytes(v))
             /\ UnsignedValue(UnsignedBytes(v) \o rest) = v
      BY UnsignedRead, NumberEnds
<1>2. ASSUME NEW v \in Int
      PROVE  /\ NumberLength(SignedBytes(v) \o rest) = Len(SignedBytes(v))
             /\ SignedValue(SignedBytes(v) \o rest) = v
             /\ v >= 0 => UnsignedValue(SignedBytes(v) \o rest) = v
      BY SignedRead, NumberEnds
<1>3. QED
      BY <1>1, <1>2
-----------------------------------------------------------------------------
(* Formats and arguments, part by part. *)

\* The recursive definition of After, unfolded.
LEMMA AfterIs ==
  ASSUME NEW S, NEW parts \in Seq(Seq(S))
  PROVE  /\ \A k \in 0 .. Len(parts) : After(parts, k) \in Seq(S)
         /\ After(parts, Len(parts)) = << >>
         /\ \A k \in 1 .. Len(parts) : After(parts, k - 1) = parts[k] \o After(parts, k)
<1> DEFINE T == Seq(S)
           N == Len(parts)
           D == 0 .. N
           measure == [k \in D |-> N - k]
           base == {N}
           link == [k \in D |-> IF k = N THEN N ELSE k + 1]
           init == [k \in D |-> << >>]
           step == [k \in D |-> [t \in T |-> IF k = N THEN t ELSE parts[k + 1] \o t]]
           Body(f) == [k \in D |-> IF k = N THEN << >> ELSE parts[k + 1] \o f[k + 1]]
           after == CHOOSE f : f = Body(f)
<1>1. N \in Nat /\ \A k \in 1 .. N : parts[k] \in T
      BY LenProperties, ElementOfSeq
<1>2. << >> \in T /\ \A s, t \in T : s \o t \in T
      BY EmptySeq, ConcatProperties
<1>3. \A n : After(parts, n) = after[n]
      BY DEF After
<1> HIDE DEF N, T
<1>4. Measured(D, measure, base, link)
      BY <1>1 DEF Measured
<1>5. init \in [D -> T]
      BY <1>2
<1>6. Steps(step, D, T)
  <2>1. ASSUME NEW k \in D, k # N, NEW t \in T PROVE parts[k + 1] \o t \in T
    <3>1. k + 1 \in 1 .. N
          BY <1>1, <2>1
    <3>2. QED
          BY <1>1, <1>2, <3>1
  <2>2. QED
        BY <2>1 DEF Steps
<1>7. PICK f : f \in [D -> T] /\ Follows(f, D, base, init, link, step)
  <2> HIDE DEF D, measure, base, link, init, step
  <2>1. QED
        BY <1>4, <1>5, <1>6, MeasuredFunction
<1>8. ASSUME NEW k \in D
      PROVE  f[k] = IF k = N THEN << >> ELSE parts[k + 1] \o f[k + 1]
  <2>1. f[k] = IF k \in base THEN init[k] ELSE step[k][f[link[k]]]
        BY <1>7 DEF Follows
  <2>2. CASE k = N
        BY <2>1, <2>2
  <2>3. CASE k # N
    <3>1. k + 1 \in D /\ link[k] = k + 1 /\ k \notin base
          BY <1>1, <2>3
    <3>2. f[k + 1] \in T
          BY <1>7, <3>1
    <3>3. step[k][f[k + 1]] = parts[k + 1] \o f[k + 1]
          BY <2>3, <3>2
    <3> HIDE DEF step, link, base
    <3>4. QED
          BY <2>1, <2>3, <3>1, <3>3
  <2>4. QED
        BY <2>2, <2>3
<1>9. f = Body(f)
      BY <1>7, <1>8
<1>10. after = Body(after)
  <2> HIDE DEF Body
  <2>1. QED
        BY <1>9
<1> HIDE DEF after
<1>11. after[N] = << >>
       BY <1>1, <1>10
<1>12. ASSUME NEW k \in 1 .. N PROVE after[k - 1] = parts[k] \o after[k]
  <2>1. k - 1 \in D /\ k - 1 # N /\ (k - 1) + 1 = k
        BY <1>1
  <2>2. after[k - 1] = parts[(k - 1) + 1] \o after[(k - 1) + 1]
        BY <1>10, <2>1
  <2>3. QED
        BY <2>1, <2>2
<1>13. ASSUME NEW k \in D PROVE after[k] \in T
  <2> DEFINE K == {n \in Nat : n <= N => after[N - n] \in T}
  <2>1. 0 \in K
    <3>1. N - 0 = N
          BY <1>1
    <3>2. QED
          BY <1>2, <1>11, <3>1
  <2>2. ASSUME NEW n \in Nat, n \in K PROVE n + 1 \in K
    <3>1. SUFFICES ASSUME n + 1 <= N PROVE after[N - (n + 1)] \in T
          OBVIOUS
    <3>2. PICK j \in 1 .. N : j = N - n
          BY <1>1, <3>1
    <3>3. N - (n + 1) = j - 1
          BY <1>1, <3>2
    <3>4. after[j] \in T /\ parts[j] \in T
      <4>1. n <= N
            BY <1>1, <3>1
      <4>2. QED
            BY <1>1, <2>2, <3>2, <4>1
    <3>5. after[j - 1] \in T
          BY <1>2, <1>12, <3>4
    <3>6. QED
          BY <3>3, <3>5
  <2>3. Nat \subseteq K
    <3> HIDE DEF K
    <3>1. QED
          BY <2>1, <2>2, Induction
  <2>4. PICK n \in Nat : n <= N /\ N - n = k
    <3>1. N - k \in Nat /\ N - k <= N /\ N - (N - k) = k
          BY <1>1
    <3>2. QED
          BY <3>1
  <2>5. QED
        BY <2>3, <2>4
<1>14. QED
       BY <1>3, <1>11, <1>12, <1>13 DEF N, T

\* The first of a character, in what begins without it.
LEMMA FindFirst ==
  ASSUME NEW S, NEW s \in Seq(S), NEW c, NEW n \in 1 .. Len(s),
         s[n] = c, \A i \in 1 .. n - 1 : s[i] # c
  PROVE  Find(c, s) = n
<1> DEFINE found == {i \in DOMAIN s : s[i] = c}
<1>1. DOMAIN s = 1 .. Len(s) /\ Len(s) \in Nat
      BY LenProperties
<1>2. n \in found
      BY <1>1
<1>3. ASSUME NEW j \in found PROVE n <= j
  <2>1. j \in 1 .. Len(s) /\ s[j] = c
        BY <1>1
  <2>2. j \notin 1 .. n - 1
        BY <2>1
  <2>3. QED
        BY <1>1, <2>1, <2>2
<1>4. \A i \in found : (\A j \in found : i <= j) => i = n
  <2>1. SUFFICES ASSUME NEW i \in found, \A j \in found : i <= j PROVE i = n
        OBVIOUS
  <2>2. i <= n /\ n <= i /\ i \in Nat /\ n \in Nat
        BY <1>1, <1>2, <1>3, <2>1
  <2>3. QED
        BY <2>2
<1> HIDE DEF found
<1>5. (CHOOSE i \in found : \A j \in found : i <= j) = n
      BY <1>2, <1>3, <1>4
<1>6. found # {}
      BY <1>2
<1>7. QED
      BY <1>5, <1>6 DEF Find, found

LEMMA FindNone ==
  ASSUME NEW S, NEW s \in Seq(S), NEW c, \A i \in 1 .. Len(s) : s[i] # c
  PROVE  Find(c, s) = 0
<1>1. DOMAIN s = 1 .. Len(s)
      BY LenProperties
<1>2. {i \in DOMAIN s : s[i] = c} = {}
      BY <1>1
<1>3. QED
      BY <1>2 DEF Find

\* What Find answers, whatever it is given.
LEMMA FindIs ==
  ASSUME NEW S, NEW s \in Seq(S), NEW c
  PROVE  \/ /\ Find(c, s) = 0
            /\ \A i \in 1 .. Len(s) : s[i] # c
         \/ /\ Find(c, s) \in 1 .. Len(s) /\ s[Find(c, s)] = c
            /\ \A i \in 1 .. Find(c, s) - 1 : s[i] # c
<1>1. CASE \A i \in 1 .. Len(s) : s[i] # c
      BY <1>1, FindNone
<1>2. CASE \E i \in 1 .. Len(s) : s[i] = c
  <2> DEFINE P == {i \in 1 .. Len(s) : s[i] = c}
             K == {n \in Nat : n \notin P}
  <2>1. Len(s) \in Nat
        BY LenProperties
  <2>2. \E n \in P : 0 .. n - 1 \subseteq K
    <3>1. SUFFICES ASSUME \A n \in P : ~ (0 .. n - 1 \subseteq K) PROVE FALSE
          OBVIOUS
    <3>2. ASSUME NEW n \in Nat, 0 .. n - 1 \subseteq K PROVE n \in K
          BY <3>1, <3>2
    <3>3. Nat \subseteq K
      <4> HIDE DEF K
      <4>1. QED
            BY <3>2, StrongInduction
    <3>4. PICK i \in 1 .. Len(s) : s[i] = c
          BY <1>2
    <3>5. i \in P /\ i \in Nat
          BY <2>1, <3>4
    <3>6. i \in K
          BY <3>3, <3>5
    <3>7. QED
          BY <3>5, <3>6
  <2>3. PICK n \in P : 0 .. n - 1 \subseteq K
        BY <2>2
  <2>4. n \in 1 .. Len(s) /\ s[n] = c
        OBVIOUS
  <2>5. ASSUME NEW i \in 1 .. n - 1 PROVE s[i] # c
    <3>1. i \in 0 .. n - 1 /\ i \in 1 .. Len(s)
          BY <2>1, <2>4
    <3>2. i \notin P
          BY <2>3, <3>1
    <3>3. QED
          BY <3>1, <3>2
  <2>6. Find(c, s) = n
        BY <2>4, <2>5, FindFirst
  <2>7. QED
        BY <2>4, <2>5, <2>6
<1>3. QED
      BY <1>1, <1>2

\* The two parts of a sequence, taken and dropped.
LEMMA Front ==
  ASSUME NEW S, NEW e \in Seq(S), NEW t \in Seq(S)
  PROVE  /\ SubSeq(e \o t, 1, Len(e)) = e
         /\ Drop(Len(e), e \o t) = t
<1> DEFINE s == e \o t
           n == Len(e)
<1>1. n \in Nat /\ Len(t) \in Nat
      BY LenProperties
<1>2. /\ s \in Seq(S) /\ Len(s) = n + Len(t)
      /\ \A i \in 1 .. n + Len(t) : s[i] = IF i <= n THEN e[i] ELSE t[i - n]
      BY ConcatProperties
<1>3. \A i \in 1 .. Len(s) : s[i] \in S
      BY <1>2, ElementOfSeq
<1> HIDE DEF s, n
<1>4. SubSeq(s, 1, n) = e
  <2>1. /\ SubSeq(s, 1, n) \in Seq(S) /\ Len(SubSeq(s, 1, n)) = n
        /\ \A i \in 1 .. n : SubSeq(s, 1, n)[i] = s[i]
    <3>1. \A i \in 1 .. n : s[i] \in S
          BY <1>1, <1>2, <1>3
    <3>2. /\ SubSeq(s, 1, n) \in Seq(S)
          /\ Len(SubSeq(s, 1, n)) = IF 1 <= n THEN n - 1 + 1 ELSE 0
          /\ \A i \in 1 .. n - 1 + 1 : SubSeq(s, 1, n)[i] = s[1 + i - 1]
          BY <1>1, <3>1, SubSeqProperties
    <3>3. \A i \in 1 .. n : 1 + i - 1 = i /\ i \in 1 .. n - 1 + 1
          BY <1>1
    <3>4. QED
          BY <1>1, <3>2, <3>3
  <2>2. \A i \in 1 .. n : SubSeq(s, 1, n)[i] = e[i]
        BY <1>1, <1>2, <2>1
  <2>3. QED
        BY <2>1, <2>2, SeqEqual DEF n
<1>5. SubSeq(s, n + 1, Len(s)) = t
  <2> DEFINE r == SubSeq(s, n + 1, Len(s))
             k == Len(t)
  <2>1. k \in Nat /\ Len(s) = n + k
        BY <1>1, <1>2
  <2>2. \A i \in n + 1 .. Len(s) : s[i] \in S
        BY <1>1, <1>3, <2>1
  <2>3. /\ r \in Seq(S)
        /\ Len(r) = IF n + 1 <= Len(s) THEN Len(s) - (n + 1) + 1 ELSE 0
        /\ \A i \in 1 .. Len(s) - (n + 1) + 1 : r[i] = s[n + 1 + i - 1]
        BY <1>1, <2>1, <2>2, SubSeqProperties
  <2>4. /\ Len(s) - (n + 1) + 1 = k
        /\ \A i \in 1 .. k : n + 1 + i - 1 = n + i
        BY <1>1, <2>1
  <2>5. Len(r) = k
        BY <1>1, <2>1, <2>3, <2>4
  <2>6. ASSUME NEW i \in 1 .. k PROVE r[i] = t[i]
    <3>1. n + i \in 1 .. n + Len(t) /\ ~ (n + i <= n) /\ (n + i) - n = i
          BY <1>1
    <3>2. s[n + i] = t[i]
          BY <1>2, <3>1
    <3>3. r[i] = s[n + i]
          BY <2>3, <2>4
    <3>4. QED
          BY <3>2, <3>3
  <2> HIDE DEF r
  <2>7. r = t
        BY <2>3, <2>5, <2>6, SeqEqual
  <2>8. QED
        BY <2>7 DEF r
<1>6. QED
      BY <1>4, <1>5 DEF s, n, Drop

\* A prefix and what is dropped with it.
LEMMA Cut ==
  ASSUME NEW S, NEW s \in Seq(S), NEW n \in 0 .. Len(s)
  PROVE  /\ SubSeq(s, 1, n) \in Seq(S) /\ Len(SubSeq(s, 1, n)) = n
         /\ \A i \in 1 .. n : SubSeq(s, 1, n)[i] = s[i]
         /\ Drop(n, s) \in Seq(S) /\ Len(Drop(n, s)) = Len(s) - n
         /\ \A i \in 1 .. Len(s) - n : Drop(n, s)[i] = s[n + i]
<1>1. Len(s) \in Nat /\ n \in Nat /\ \A i \in 1 .. Len(s) : s[i] \in S
      BY LenProperties, ElementOfSeq
<1>2. \A i \in 1 .. n : s[i] \in S
      BY <1>1
<1>3. /\ SubSeq(s, 1, n) \in Seq(S)
      /\ Len(SubSeq(s, 1, n)) = IF 1 <= n THEN n - 1 + 1 ELSE 0
      /\ \A i \in 1 .. n - 1 + 1 : SubSeq(s, 1, n)[i] = s[1 + i - 1]
      BY <1>1, <1>2, SubSeqProperties
<1>4. /\ n - 1 + 1 = n /\ (~ (1 <= n) => n = 0)
      /\ \A i \in 1 .. n : 1 + i - 1 = i
      BY <1>1
<1>5. Len(SubSeq(s, 1, n)) = n
      BY <1>3, <1>4
<1>6. \A i \in 1 .. n : SubSeq(s, 1, n)[i] = s[i]
      BY <1>3, <1>4
<1>7. \A i \in n + 1 .. Len(s) : s[i] \in S
      BY <1>1
<1> DEFINE r == SubSeq(s, n + 1, Len(s))
           k == Len(s) - n
<1>8. k \in Nat /\ Len(s) - (n + 1) + 1 = k /\ (~ (n + 1 <= Len(s)) => k = 0)
      /\ \A i \in 1 .. k : n + 1 + i - 1 = n + i
      BY <1>1
<1>9. /\ r \in Seq(S)
      /\ Len(r) = IF n + 1 <= Len(s) THEN Len(s) - (n + 1) + 1 ELSE 0
      /\ \A i \in 1 .. Len(s) - (n + 1) + 1 : r[i] = s[n + 1 + i - 1]
      BY <1>1, <1>7, SubSeqProperties
<1> HIDE DEF r, k
<1>10. Len(r) = k /\ \A i \in 1 .. k : r[i] = s[n + i]
       BY <1>8, <1>9
<1>11. QED
       BY <1>3, <1>5, <1>6, <1>9, <1>10 DEF r, k, Drop

\* Conversions counts up one by one.
LEMMA ConversionsAre ==
  ASSUME NEW fmt
  PROVE  /\ Conversions(fmt, 0) = 0
         /\ \A n \in Nat :
              /\ Conversions(fmt, n) \in Nat
              /\ Conversions(fmt, n + 1) =
                   Conversions(fmt, n) + (IF Conversion(fmt[n + 1]) THEN 1 ELSE 0)
         /\ \A m, n \in Nat : m <= n => Conversions(fmt, m) <= Conversions(fmt, n)
<1> DEFINE Set(n) == {i \in 1 .. n : Conversion(fmt[i])}
<1>1. ASSUME NEW n \in Nat PROVE IsFiniteSet(Set(n)) /\ Cardinality(Set(n)) \in Nat
  <2>1. IsFiniteSet(1 .. n)
        BY FS_Interval
  <2>2. QED
        BY <2>1, FS_Subset, FS_CardinalityType
<1>2. ASSUME NEW n \in Nat
      PROVE  Cardinality(Set(n + 1)) =
               Cardinality(Set(n)) + (IF Conversion(fmt[n + 1]) THEN 1 ELSE 0)
  <2>1. n + 1 \notin Set(n)
        OBVIOUS
  <2>2. CASE Conversion(fmt[n + 1])
    <3>1. Set(n + 1) = Set(n) \cup {n + 1}
          BY <2>2
    <3> HIDE DEF Set
    <3>2. Cardinality(Set(n) \cup {n + 1}) = Cardinality(Set(n)) + 1
          BY <1>1, <2>1, FS_AddElement
    <3>3. QED
          BY <2>2, <3>1, <3>2
  <2>3. CASE ~Conversion(fmt[n + 1])
    <3>1. Set(n + 1) = Set(n)
          BY <2>3
    <3> HIDE DEF Set
    <3>2. QED
          BY <1>1, <2>3, <3>1
  <2>4. QED
        BY <2>2, <2>3
<1>3. Cardinality(Set(0)) = 0
  <2>1. Set(0) = {}
        OBVIOUS
  <2>2. QED
        BY <2>1, FS_EmptySet
<1>4. ASSUME NEW m \in Nat, NEW n \in Nat, m <= n
      PROVE  Cardinality(Set(m)) <= Cardinality(Set(n))
  <2>1. Set(m) \subseteq Set(n)
        BY <1>4
  <2> HIDE DEF Set
  <2>2. QED
        BY <1>1, <2>1, FS_Subset
<1>5. \A n : Conversions(fmt, n) = Cardinality(Set(n))
      BY DEF Conversions
<1> HIDE DEF Set
<1>6. QED
      BY <1>1, <1>2, <1>3, <1>4, <1>5

\* Short sequences, put together.
LEMMA Prefixed ==
  ASSUME NEW S, NEW x \in S, NEW t \in Seq(S), NEW s \in Seq(S), NEW n \in 1 .. 3,
         Len(t) = n, Len(s) = 1 + n, s[1] = x, s[2] = t[1],
         n = 2 \/ n = 3 => s[3] = t[2], n = 3 => s[4] = t[3]
  PROVE  <<x>> \o t = s
<1> DEFINE r == <<x>> \o t
<1>1. /\ r \in Seq(S) /\ Len(r) = 1 + n /\ r[1] = x
      /\ \A i \in 1 .. n : r[1 + i] = t[i]
      BY Pushed
<1> HIDE DEF r
<1>2. ASSUME NEW i \in 1 .. Len(r) PROVE r[i] = s[i]
  <2>1. i \in 1 .. 4 /\ i <= 1 + n
        BY <1>1
  <2>2. CASE i = 1
        BY <1>1, <2>2
  <2>3. CASE i = 2
    <3>1. r[1 + 1] = t[1] /\ 1 + 1 = 2
          BY <1>1
    <3>2. QED
          BY <2>3, <3>1
  <2>4. CASE i = 3
    <3>1. n = 2 \/ n = 3
          BY <2>1, <2>4
    <3>2. 2 \in 1 .. n /\ 1 + 2 = 3
          BY <3>1
    <3>3. r[1 + 2] = t[2]
          BY <1>1, <3>2
    <3>4. s[3] = t[2]
          BY <3>1
    <3>5. QED
          BY <2>4, <3>2, <3>3, <3>4
  <2>5. CASE i = 4
    <3>1. n = 3
          BY <2>1, <2>5
    <3>2. 3 \in 1 .. n /\ 1 + 3 = 4
          BY <3>1
    <3>3. r[1 + 3] = t[3]
          BY <1>1, <3>2
    <3>4. s[4] = t[3]
          BY <3>1
    <3>5. QED
          BY <2>5, <3>2, <3>3, <3>4
  <2>6. QED
        BY <2>1, <2>2, <2>3, <2>4, <2>5
<1>3. r = s
      BY <1>1, <1>2, SeqEqual
<1>4. QED
      BY <1>3 DEF r

LEMMA Joined ==
  ASSUME NEW a, NEW b, NEW c, NEW d
  PROVE  /\ <<a>> \o << >> = <<a>> /\ <<a>> \o <<b>> = <<a, b>>
         /\ <<a>> \o <<b, c>> = <<a, b, c>>
         /\ <<a, b>> \o <<c>> = <<a, b, c>>
         /\ <<a, b, c>> \o <<d>> = <<a, b, c, d>>
<1>1. ASSUME NEW x, NEW y PROVE <<x>> \o <<y>> = <<x, y>>
  <2> DEFINE S == {x, y}
             t == <<y>>
             s == <<x, y>>
  <2>1. /\ x \in S /\ t \in Seq(S) /\ s \in Seq(S)
        /\ Len(t) = 1 /\ Len(s) = 1 + 1 /\ s[1] = x /\ s[2] = t[1]
        OBVIOUS
  <2> HIDE DEF S, t, s
  <2>2. <<x>> \o t = s
        BY <2>1, Prefixed
  <2>3. QED
        BY <2>2 DEF t, s
<1>2. ASSUME NEW x, NEW y, NEW z PROVE <<x>> \o <<y, z>> = <<x, y, z>>
  <2> DEFINE S == {x, y, z}
             t == <<y, z>>
             s == <<x, y, z>>
  <2>1. /\ x \in S /\ t \in Seq(S) /\ s \in Seq(S)
        /\ Len(t) = 2 /\ Len(s) = 1 + 2 /\ s[1] = x /\ s[2] = t[1] /\ s[3] = t[2]
        BY SMTT(30)
  <2> HIDE DEF S, t, s
  <2>2. <<x>> \o t = s
        BY <2>1, Prefixed
  <2>3. QED
        BY <2>2 DEF t, s
<1>3. <<a>> \o <<b, c, d>> = <<a, b, c, d>>
  <2> DEFINE S == {a, b, c, d}
             t == <<b, c, d>>
             s == <<a, b, c, d>>
  <2>1. /\ a \in S /\ t \in Seq(S) /\ s \in Seq(S)
        /\ Len(t) = 3 /\ Len(s) = 1 + 3 /\ s[1] = a
        /\ s[2] = t[1] /\ s[3] = t[2] /\ s[4] = t[3]
        BY SMTT(30)
  <2> HIDE DEF S, t, s
  <2>2. <<a>> \o t = s
        BY <2>1, Prefixed
  <2>3. QED
        BY <2>2 DEF t, s
<1> DEFINE S == {a, b, c, d}
<1>4. /\ << >> \in Seq(S) /\ <<a>> \in Seq(S) /\ <<b>> \in Seq(S) /\ <<c>> \in Seq(S)
      /\ <<d>> \in Seq(S) /\ <<b, c>> \in Seq(S)
      OBVIOUS
<1> HIDE DEF S
<1>5. <<a>> \o << >> = <<a>>
      BY <1>4, ConcatEmptySeq
<1>6. ASSUME NEW x, NEW y, NEW z, <<x>> \in Seq(S), <<y>> \in Seq(S), <<z>> \in Seq(S)
      PROVE  <<x, y>> \o <<z>> = <<x, y, z>>
  <2>1. (<<x>> \o <<y>>) \o <<z>> = <<x>> \o (<<y>> \o <<z>>)
        BY <1>6, Associative
  <2>2. QED
        BY <1>1, <1>2, <2>1
<1>7. <<a, b, c>> \o <<d>> = <<a, b, c, d>>
  <2>1. (<<a>> \o <<b, c>>) \o <<d>> = <<a>> \o (<<b, c>> \o <<d>>)
        BY <1>4, Associative
  <2>2. <<b, c>> \o <<d>> = <<b, c, d>>
        BY <1>4, <1>6
  <2>3. <<a>> \o <<b, c>> = <<a, b, c>>
        BY <1>2
  <2>4. QED
        BY <1>3, <2>1, <2>2, <2>3
<1>8. QED
      BY <1>1, <1>2, <1>4, <1>5, <1>6, <1>7
-----------------------------------------------------------------------------
(* Conversion specifiers. *)

SizeNames == {"none", "l", "ll", "h", "hh"}
Integral == {"d", "u", "o", "x"}
Unsized == {"s", "p", "k", "c", "%"}

\* The characters of a specifier.
Shape(size, conv) ==
  CASE size = "none" -> <<"%", conv>>
    [] size = "l" -> <<"%", "l", conv>>
    [] size = "ll" -> <<"%", "l", "l", conv>>
    [] size = "h" -> <<"%", "h", conv>>
    [] OTHER -> <<"%", "h", "h", conv>>

LEMMA Tuples ==
  ASSUME NEW S, NEW a \in S, NEW b \in S, NEW c \in S, NEW d \in S
  PROVE  /\ /\ <<a, b>> \in Seq(S) /\ Len(<<a, b>>) = 2
            /\ <<a, b>>[1] = a /\ <<a, b>>[2] = b
         /\ /\ <<a, b, c>> \in Seq(S) /\ Len(<<a, b, c>>) = 3
            /\ <<a, b, c>>[1] = a /\ <<a, b, c>>[2] = b /\ <<a, b, c>>[3] = c
         /\ /\ <<a, b, c, d>> \in Seq(S) /\ Len(<<a, b, c, d>>) = 4
            /\ <<a, b, c, d>>[1] = a /\ <<a, b, c, d>>[2] = b
            /\ <<a, b, c, d>>[3] = c /\ <<a, b, c, d>>[4] = d
OBVIOUS

LEMMA ShapeIs ==
  ASSUME NEW size \in SizeNames, NEW S, {"%", "l", "h"} \subseteq S, NEW conv \in S
  PROVE  /\ Shape(size, conv) \in Seq(S)
         /\ Len(Shape(size, conv)) \in 2 .. 4 /\ Shape(size, conv)[1] = "%"
         /\ size = "none" => Len(Shape(size, conv)) = 2 /\ Shape(size, conv)[2] = conv
         /\ size = "l" => /\ Len(Shape(size, conv)) = 3 /\ Shape(size, conv)[2] = "l"
                          /\ Shape(size, conv)[3] = conv
         /\ size = "h" => /\ Len(Shape(size, conv)) = 3 /\ Shape(size, conv)[2] = "h"
                          /\ Shape(size, conv)[3] = conv
         /\ size = "ll" => /\ Len(Shape(size, conv)) = 4 /\ Shape(size, conv)[2] = "l"
                           /\ Shape(size, conv)[3] = "l"
         /\ size = "hh" => /\ Len(Shape(size, conv)) = 4 /\ Shape(size, conv)[2] = "h"
                           /\ Shape(size, conv)[3] = "h"
         /\ size \in {"ll", "hh"} => Shape(size, conv)[4] = conv
<1>1. "%" \in S /\ "l" \in S /\ "h" \in S
      OBVIOUS
<1> DEFINE s == Shape(size, conv)
<1>2. \/ size = "none" \/ size = "l" \/ size = "ll" \/ size = "h" \/ size = "hh"
      BY DEF SizeNames
<1>3. CASE size = "none"
  <2>1. s = <<"%", conv>>
        BY <1>3 DEF Shape
  <2>2. /\ <<"%", conv>> \in Seq(S) /\ Len(<<"%", conv>>) = 2
        /\ <<"%", conv>>[1] = "%"
        /\ <<"%", conv>>[2] = conv
        BY <1>1, Tuples
  <2>3. /\ s \in Seq(S) /\ Len(s) = 2 /\ s[1] = "%"
        /\ s[2] = conv
        BY <2>1, <2>2, Zenon
  <2> HIDE DEF s
  <2>4. Len(s) \in 2 .. 4
        BY <2>3
  <2>5. QED
        BY <1>3, <2>3, <2>4 DEF s
<1>4. CASE size = "l"
  <2>1. s = <<"%", "l", conv>>
        BY <1>4 DEF Shape
  <2>2. /\ <<"%", "l", conv>> \in Seq(S) /\ Len(<<"%", "l", conv>>) = 3
        /\ <<"%", "l", conv>>[1] = "%"
        /\ <<"%", "l", conv>>[2] = "l"
        /\ <<"%", "l", conv>>[3] = conv
        BY <1>1, Tuples
  <2>3. /\ s \in Seq(S) /\ Len(s) = 3 /\ s[1] = "%"
        /\ s[2] = "l" /\ s[3] = conv
        BY <2>1, <2>2, Zenon
  <2> HIDE DEF s
  <2>4. Len(s) \in 2 .. 4
        BY <2>3
  <2>5. QED
        BY <1>4, <2>3, <2>4 DEF s
<1>5. CASE size = "ll"
  <2>1. s = <<"%", "l", "l", conv>>
        BY <1>5 DEF Shape
  <2>2. /\ <<"%", "l", "l", conv>> \in Seq(S) /\ Len(<<"%", "l", "l", conv>>) = 4
        /\ <<"%", "l", "l", conv>>[1] = "%"
        /\ <<"%", "l", "l", conv>>[2] = "l"
        /\ <<"%", "l", "l", conv>>[3] = "l"
        /\ <<"%", "l", "l", conv>>[4] = conv
        BY <1>1, Tuples
  <2>3. /\ s \in Seq(S) /\ Len(s) = 4 /\ s[1] = "%"
        /\ s[2] = "l" /\ s[3] = "l" /\ s[4] = conv
        BY <2>1, <2>2, Zenon
  <2> HIDE DEF s
  <2>4. Len(s) \in 2 .. 4
        BY <2>3
  <2>5. QED
        BY <1>5, <2>3, <2>4 DEF s
<1>6. CASE size = "h"
  <2>1. s = <<"%", "h", conv>>
        BY <1>6 DEF Shape
  <2>2. /\ <<"%", "h", conv>> \in Seq(S) /\ Len(<<"%", "h", conv>>) = 3
        /\ <<"%", "h", conv>>[1] = "%"
        /\ <<"%", "h", conv>>[2] = "h"
        /\ <<"%", "h", conv>>[3] = conv
        BY <1>1, Tuples
  <2>3. /\ s \in Seq(S) /\ Len(s) = 3 /\ s[1] = "%"
        /\ s[2] = "h" /\ s[3] = conv
        BY <2>1, <2>2, Zenon
  <2> HIDE DEF s
  <2>4. Len(s) \in 2 .. 4
        BY <2>3
  <2>5. QED
        BY <1>6, <2>3, <2>4 DEF s
<1>7. CASE size = "hh"
  <2>1. s = <<"%", "h", "h", conv>>
        BY <1>7 DEF Shape
  <2>2. /\ <<"%", "h", "h", conv>> \in Seq(S) /\ Len(<<"%", "h", "h", conv>>) = 4
        /\ <<"%", "h", "h", conv>>[1] = "%"
        /\ <<"%", "h", "h", conv>>[2] = "h"
        /\ <<"%", "h", "h", conv>>[3] = "h"
        /\ <<"%", "h", "h", conv>>[4] = conv
        BY <1>1, Tuples
  <2>3. /\ s \in Seq(S) /\ Len(s) = 4 /\ s[1] = "%"
        /\ s[2] = "h" /\ s[3] = "h" /\ s[4] = conv
        BY <2>1, <2>2, Zenon
  <2> HIDE DEF s
  <2>4. Len(s) \in 2 .. 4
        BY <2>3
  <2>5. QED
        BY <1>7, <2>3, <2>4 DEF s
<1>8. QED
      BY <1>2, <1>3, <1>4, <1>5, <1>6, <1>7

\* A specifier put together from its parts.
Word(size, conv) == (<<"%">> \o size) \o <<conv>>

LEMMA Shapes ==
  ASSUME NEW conv
  PROVE  /\ Word(<< >>, conv) = Shape("none", conv)
         /\ Word(<<"l">>, conv) = Shape("l", conv)
         /\ Word(<<"l", "l">>, conv) = Shape("ll", conv)
         /\ Word(<<"h">>, conv) = Shape("h", conv)
         /\ Word(<<"h", "h">>, conv) = Shape("hh", conv)
<1>1. (<<"%">> \o << >>) \o <<conv>> = <<"%", conv>>
      BY Joined, Zenon
<1>2. (<<"%">> \o <<"l">>) \o <<conv>> = <<"%", "l", conv>>
      BY Joined, Zenon
<1>3. (<<"%">> \o <<"l", "l">>) \o <<conv>> = <<"%", "l", "l", conv>>
  <2>1. <<"%">> \o <<"l", "l">> = <<"%", "l", "l">>
        BY Joined
  <2>2. <<"%", "l", "l">> \o <<conv>> = <<"%", "l", "l", conv>>
        BY Joined, ZenonT(30)
  <2>3. QED
        BY <2>1, <2>2, Zenon
<1>4. (<<"%">> \o <<"h">>) \o <<conv>> = <<"%", "h", conv>>
      BY Joined, Zenon
<1>5. (<<"%">> \o <<"h", "h">>) \o <<conv>> = <<"%", "h", "h", conv>>
  <2>1. <<"%">> \o <<"h", "h">> = <<"%", "h", "h">>
        BY Joined
  <2>2. <<"%", "h", "h">> \o <<conv>> = <<"%", "h", "h", conv>>
        BY Joined, ZenonT(30)
  <2>3. QED
        BY <2>1, <2>2, Zenon
<1>6. QED
      BY <1>1, <1>2, <1>3, <1>4, <1>5 DEF Shape, Word

LEMMA CharsAre ==
  ASSUME NEW item \in Items
  PROVE  /\ item.conv = "text" => Chars(item) = <<"a">>
         /\ item.conv = "wide" => Chars(item) = <<"wide">>
         /\ item.conv = "at" => Chars(item) = <<"@">>
         /\ item.conv = "percent" => Chars(item) = Shape("none", "%")
         /\ Conversion(item) => /\ Chars(item) = Shape(item.size, item.conv)
                                /\ item.size \in SizeNames /\ item.conv \in Character
                                /\ item.conv \in Integral \cup {"i"} \/ item.size = "none"
                                /\ item.conv \in Integral \cup {"i", "s", "p", "k", "c"}
<1>1. /\ item.conv = "text" => Chars(item) = <<"a">>
      /\ item.conv = "wide" => Chars(item) = <<"wide">>
      /\ item.conv = "at" => Chars(item) = <<"@">>
      /\ item.conv = "percent" => Chars(item) = <<"%", "%">>
      BY DEF Chars
<1>2. item.conv = "percent" => Chars(item) = Shape("none", "%")
      BY <1>1 DEF Shape
<1>3. ASSUME Conversion(item)
      PROVE  /\ item.size \in SizeNames /\ item.conv \in Character
             /\ item.conv \in Integral \cup {"i"} \/ item.size = "none"
             /\ item.conv \in Integral \cup {"i", "s", "p", "k", "c"}
      BY <1>3 DEF Conversion, Items, SizeNames, Character, Integral
<1>4. ASSUME Conversion(item) PROVE Chars(item) = Shape(item.size, item.conv)
  <2>1. Chars(item) = (<<"%">> \o (CASE item.size = "none" -> << >>
                              [] item.size \in {"l", "h"} -> <<item.size>>
                              [] item.size = "ll" -> <<"l", "l">>
                              [] item.size = "hh" -> <<"h", "h">>)) \o <<item.conv>>
        BY <1>4 DEF Chars, Conversion
  <2>2. CASE item.size = "none"
    <3>1. Chars(item) = Word(<< >>, item.conv)
          BY <2>1, <2>2 DEF Word
    <3>2. QED
          BY <2>2, <3>1, Shapes
  <2>3. CASE item.size = "l"
    <3>1. Chars(item) = Word(<<"l">>, item.conv)
          BY <2>1, <2>3 DEF Word
    <3>2. QED
          BY <2>3, <3>1, Shapes
  <2>4. CASE item.size = "h"
    <3>1. Chars(item) = Word(<<"h">>, item.conv)
          BY <2>1, <2>4 DEF Word
    <3>2. QED
          BY <2>4, <3>1, Shapes
  <2>5. CASE item.size = "ll"
    <3>1. Chars(item) = Word(<<"l", "l">>, item.conv)
          BY <2>1, <2>5 DEF Word
    <3>2. QED
          BY <2>5, <3>1, Shapes
  <2>6. CASE item.size = "hh"
    <3>1. Chars(item) = Word(<<"h", "h">>, item.conv)
          BY <2>1, <2>6 DEF Word
    <3>2. QED
          BY <2>6, <3>1, Shapes
  <2>7. QED
        BY <1>3, <1>4, <2>2, <2>3, <2>4, <2>5, <2>6 DEF SizeNames
<1>5. QED
      BY <1>1, <1>2, <1>3, <1>4

\* The entries of the table: a specifier and its conversion.
Entry(size, conv) == [chars |-> Shape(size, conv), conv |-> conv]

LEMMA TableIs ==
  /\ \A spec \in FORMAT_SPEC_TABLE : \E size \in SizeNames : \E conv \in Integral \cup Unsized :
        spec = Entry(size, conv) /\ (conv \in Integral \/ size = "none")
  /\ \A size \in SizeNames : \A conv \in Integral : Entry(size, conv) \in FORMAT_SPEC_TABLE
  /\ \A conv \in Unsized : Entry("none", conv) \in FORMAT_SPEC_TABLE
<1> DEFINE Parts == {<< >>, <<"l">>, <<"l", "l">>, <<"h">>, <<"h", "h">>}
           Sized == {[chars |-> (<<"%">> \o part) \o <<conv>>, conv |-> conv] :
                       part \in Parts, conv \in Integral}
           Plain == {[chars |-> <<"%", conv>>, conv |-> conv] : conv \in Unsized}
<1>1. FORMAT_SPEC_TABLE = Sized \cup Plain
      BY DEF FORMAT_SPEC_TABLE, Integral, Unsized
<1>2. ASSUME NEW spec \in Sized
      PROVE  \E size \in SizeNames : \E conv \in Integral : spec = Entry(size, conv)
  <2> DEFINE Made(part, conv) == [chars |-> Word(part, conv), conv |-> conv]
  <2>1. PICK part \in Parts, conv \in Integral : spec = Made(part, conv)
    <3>1. Sized = {Made(part, conv) : part \in Parts, conv \in Integral}
          BY DEF Word
    <3> HIDE DEF Parts, Sized
    <3>2. spec \in {Made(part, conv) : part \in Parts, conv \in Integral}
          BY <3>1
    <3>3. QED
          BY <3>2
  <2>2. \/ part = << >> \/ part = <<"l">> \/ part = <<"l", "l">> \/ part = <<"h">>
        \/ part = <<"h", "h">>
        OBVIOUS
  <2>3. CASE part = << >>
    <3>1. Word(<< >>, conv) = Shape("none", conv)
          BY Shapes
    <3>2. "none" \in SizeNames
          BY DEF SizeNames
    <3>3. Made(<< >>, conv) = Entry("none", conv)
          BY <3>1 DEF Entry
    <3> HIDE DEF Made
    <3>4. spec = Entry("none", conv)
          BY <2>1, <2>3, <3>3
    <3>5. QED
          BY <3>2, <3>4
  <2>4. CASE part = <<"l">>
    <3>1. Word(<<"l">>, conv) = Shape("l", conv)
          BY Shapes
    <3>2. "l" \in SizeNames
          BY DEF SizeNames
    <3>3. Made(<<"l">>, conv) = Entry("l", conv)
          BY <3>1 DEF Entry
    <3> HIDE DEF Made
    <3>4. spec = Entry("l", conv)
          BY <2>1, <2>4, <3>3
    <3>5. QED
          BY <3>2, <3>4
  <2>5. CASE part = <<"l", "l">>
    <3>1. Word(<<"l", "l">>, conv) = Shape("ll", conv)
          BY Shapes
    <3>2. "ll" \in SizeNames
          BY DEF SizeNames
    <3>3. Made(<<"l", "l">>, conv) = Entry("ll", conv)
          BY <3>1 DEF Entry
    <3> HIDE DEF Made
    <3>4. spec = Entry("ll", conv)
          BY <2>1, <2>5, <3>3
    <3>5. QED
          BY <3>2, <3>4
  <2>6. CASE part = <<"h">>
    <3>1. Word(<<"h">>, conv) = Shape("h", conv)
          BY Shapes
    <3>2. "h" \in SizeNames
          BY DEF SizeNames
    <3>3. Made(<<"h">>, conv) = Entry("h", conv)
          BY <3>1 DEF Entry
    <3> HIDE DEF Made
    <3>4. spec = Entry("h", conv)
          BY <2>1, <2>6, <3>3
    <3>5. QED
          BY <3>2, <3>4
  <2>7. CASE part = <<"h", "h">>
    <3>1. Word(<<"h", "h">>, conv) = Shape("hh", conv)
          BY Shapes
    <3>2. "hh" \in SizeNames
          BY DEF SizeNames
    <3>3. Made(<<"h", "h">>, conv) = Entry("hh", conv)
          BY <3>1 DEF Entry
    <3> HIDE DEF Made
    <3>4. spec = Entry("hh", conv)
          BY <2>1, <2>7, <3>3
    <3>5. QED
          BY <3>2, <3>4
  <2>8. QED
        BY <2>2, <2>3, <2>4, <2>5, <2>6, <2>7
<1>3. ASSUME NEW spec \in Plain
      PROVE  \E conv \in Unsized : spec = Entry("none", conv)
      BY DEF Entry, Shape
<1>4. ASSUME NEW size \in SizeNames, NEW conv \in Integral
      PROVE  Entry(size, conv) \in Sized
  <2>1. PICK part \in Parts : Word(part, conv) = Shape(size, conv)
    <3>1. size = "none" \/ size = "l" \/ size = "ll" \/ size = "h" \/ size = "hh"
          BY DEF SizeNames
    <3>2. \E part \in Parts : Word(part, conv) = Shape(size, conv)
      <4>1. << >> \in Parts /\ <<"l">> \in Parts /\ <<"l", "l">> \in Parts
            /\ <<"h">> \in Parts /\ <<"h", "h">> \in Parts
            OBVIOUS
      <4> HIDE DEF Parts
      <4>2. CASE size = "none"
            BY <4>1, <4>2, Shapes
      <4>3. CASE size = "l"
            BY <4>1, <4>3, Shapes
      <4>4. CASE size = "ll"
            BY <4>1, <4>4, Shapes
      <4>5. CASE size = "h"
            BY <4>1, <4>5, Shapes
      <4>6. CASE size = "hh"
            BY <4>1, <4>6, Shapes
      <4>7. QED
            BY <3>1, <4>2, <4>3, <4>4, <4>5, <4>6
    <3> HIDE DEF Parts
    <3>3. QED
          BY <3>2
  <2> HIDE DEF Parts
  <2>2. QED
        BY <2>1 DEF Entry, Word
<1>5. ASSUME NEW conv \in Unsized PROVE Entry("none", conv) \in Plain
      BY DEF Entry, Shape
<1>6. "none" \in SizeNames
      BY DEF SizeNames
<1> HIDE DEF Sized, Plain
<1>7. ASSUME NEW spec \in FORMAT_SPEC_TABLE
      PROVE  \E size \in SizeNames : \E conv \in Integral \cup Unsized :
                spec = Entry(size, conv) /\ (conv \in Integral \/ size = "none")
      BY <1>1, <1>2, <1>3, <1>6
<1>8. QED
      BY <1>1, <1>4, <1>5, <1>7
-----------------------------------------------------------------------------
(* The type invariant. *)

CallOK == items \in Seq(Items) /\ args \in Seq(Arg) /\ Compiles(items, args)

CharParts == [i \in DOMAIN items |-> Chars(items[i])]
ArgParts  == [i \in DOMAIN args |-> ArgBytes(args[i])]

LEMMA Specifier == {"%", "l", "h"} \subseteq Character
BY DEF Character

LEMMA CharsType == \A item \in Items : Chars(item) \in Seq(Character)
<1>1. SUFFICES ASSUME NEW item \in Items PROVE Chars(item) \in Seq(Character)
      OBVIOUS
<1>2. /\ <<"a">> \in Seq(Character) /\ <<"wide">> \in Seq(Character)
      /\ <<"@">> \in Seq(Character)
  <2>1. "a" \in Character /\ "wide" \in Character /\ "@" \in Character
        BY DEF Character
  <2>2. QED
        BY <2>1
<1>3. "%" \in Character /\ "none" \in SizeNames
      BY DEF Character, SizeNames
<1>4. Shape("none", "%") \in Seq(Character)
      BY <1>3, ShapeIs, Specifier
<1>5. Conversion(item) => Shape(item.size, item.conv) \in Seq(Character)
      BY CharsAre, ShapeIs, Specifier
<1>6. \/ item.conv = "text" \/ item.conv = "wide" \/ item.conv = "at"
      \/ item.conv = "percent" \/ Conversion(item)
      BY DEF Conversion
<1>7. QED
      BY <1>2, <1>4, <1>5, <1>6, CharsAre

LEMMA ArgBytesType == \A arg \in Arg : ArgBytes(arg) \in Seq(Byte)
<1>1. SUFFICES ASSUME NEW arg \in Arg PROVE ArgBytes(arg) \in Seq(Byte)
      OBVIOUS
<1>2. CASE arg.type = "string"
  <2>1. arg.value \in Seq(1 .. 255)
        BY <1>2, ArgAssumption DEF Value
  <2>2. 1 .. 255 \subseteq Byte /\ 0 \in Byte
        BY DEF Byte
  <2>3. arg.value \in Seq(Byte)
        BY <2>1, <2>2, SeqMonotonic
  <2>4. Append(arg.value, 0) \in Seq(Byte)
        BY <2>2, <2>3, AppendProperties
  <2>5. ArgBytes(arg) = Append(arg.value, 0)
        BY <1>2 DEF ArgBytes, ArgumentType
  <2>6. QED
        BY <2>4, <2>5
<1>3. CASE arg.type = "signed"
  <2>1. arg.value \in Int
        BY <1>3, ArgAssumption DEF Value
  <2>2. ArgBytes(arg) = SignedBytes(arg.value)
        BY <1>3 DEF ArgBytes, ArgumentType
  <2>3. QED
        BY <2>1, <2>2, SignedBytesIs
<1>4. CASE arg.type \in {"unsigned", "pointer", "volatile pointer", "interned"}
  <2>1. arg.value \in Nat
        BY <1>4, ArgAssumption DEF Value
  <2>2. ArgBytes(arg) = UnsignedBytes(arg.value)
        BY <1>4 DEF ArgBytes, ArgumentType
  <2>3. QED
        BY <2>1, <2>2, UnsignedBytesIs
<1>5. QED
      BY <1>1, <1>2, <1>3, <1>4, ArgAssumption

LEMMA PartsAre ==
  ASSUME CallOK
  PROVE  /\ CharParts \in Seq(Seq(Character)) /\ Len(CharParts) = Len(items)
         /\ \A i \in 1 .. Len(items) : items[i] \in Items /\ CharParts[i] = Chars(items[i])
         /\ ArgParts \in Seq(Seq(Byte)) /\ Len(ArgParts) = Len(args)
         /\ \A i \in 1 .. Len(args) : args[i] \in Arg /\ ArgParts[i] = ArgBytes(args[i])
         /\ Len(items) \in Nat /\ Len(args) \in Nat
         /\ FormatOf(items) = After(CharParts, 0) /\ BufferOf(args) = After(ArgParts, 0)
<1>1. /\ DOMAIN items = 1 .. Len(items) /\ Len(items) \in Nat
      /\ DOMAIN args = 1 .. Len(args) /\ Len(args) \in Nat
      BY LenProperties DEF CallOK
<1>2. /\ \A i \in 1 .. Len(items) : items[i] \in Items
      /\ \A i \in 1 .. Len(args) : args[i] \in Arg
      BY ElementOfSeq DEF CallOK
<1>3. CharParts \in Seq(Seq(Character)) /\ Len(CharParts) = Len(items)
  <2> DEFINE N == Len(items)
             T == Seq(Character)
  <2>1. \A i \in 1 .. N : Chars(items[i]) \in T
        BY <1>2, CharsType
  <2>2. CharParts = [i \in 1 .. N |-> Chars(items[i])] /\ N \in Nat
        BY <1>1 DEF CharParts
  <2> HIDE DEF N, T
  <2>3. CharParts \in Seq(T) /\ Len(CharParts) = N
        BY <2>1, <2>2
  <2>4. QED
        BY <2>3 DEF N, T
<1>4. ArgParts \in Seq(Seq(Byte)) /\ Len(ArgParts) = Len(args)
  <2> DEFINE N == Len(args)
             T == Seq(Byte)
  <2>1. \A i \in 1 .. N : ArgBytes(args[i]) \in T
        BY <1>2, ArgBytesType
  <2>2. ArgParts = [i \in 1 .. N |-> ArgBytes(args[i])] /\ N \in Nat
        BY <1>1 DEF ArgParts
  <2> HIDE DEF N, T
  <2>3. ArgParts \in Seq(T) /\ Len(ArgParts) = N
        BY <2>1, <2>2
  <2>4. QED
        BY <2>3 DEF N, T
<1>5. /\ \A i \in 1 .. Len(items) : CharParts[i] = Chars(items[i])
      /\ \A i \in 1 .. Len(args) : ArgParts[i] = ArgBytes(args[i])
      BY <1>1 DEF CharParts, ArgParts
<1>6. FormatOf(items) = After(CharParts, 0) /\ BufferOf(args) = After(ArgParts, 0)
      BY DEF FormatOf, BufferOf, CharParts, ArgParts
<1>7. QED
      BY <1>1, <1>2, <1>3, <1>4, <1>5, <1>6

LEMMA TypeInit == Init => CallOK /\ TypeOK
<1> SUFFICES ASSUME Init PROVE CallOK /\ TypeOK
    OBVIOUS
<1>1. CallOK
  <2>1. items \in Seq(Items) /\ Compiles(items, args)
        BY FormatAssumption DEF Init
  <2>2. PICK n \in 0 .. MaxArgs : args \in [1 .. n -> Arg]
        BY DEF Init
  <2>3. n \in Nat
        BY MaxArgsAssumption
  <2>4. args \in Seq(Arg)
        BY <2>2, <2>3
  <2>5. QED
        BY <2>1, <2>4 DEF CallOK
<1>2. 0 \in 0 .. Len(CharParts) /\ 0 \in 0 .. Len(ArgParts)
      BY <1>1, PartsAre
<1>3. format \in Seq(Character)
  <2>1. CharParts \in Seq(Seq(Character)) /\ format = After(CharParts, 0)
        BY <1>1, PartsAre DEF Init
  <2>2. QED
        BY <1>2, <2>1, AfterIs
<1>4. buffer \in Seq(Byte)
  <2>1. ArgParts \in Seq(Seq(Byte)) /\ buffer = After(ArgParts, 0)
        BY <1>1, PartsAre DEF Init
  <2>2. QED
        BY <1>2, <2>1, AfterIs
<1>5. out \in Seq(Output) /\ Len(out) = 0
      BY EmptySeq DEF Init
<1>6. Len(format) \in Nat
      BY <1>3, LenProperties
<1>7. Len(out) + Len(format) <= Len(FormatOf(items))
      BY <1>5, <1>6 DEF Init
<1>8. status \in {"split", "text", "spec", "done", "error", "panic"}
      BY DEF Init
<1>9. QED
      BY <1>1, <1>3, <1>4, <1>5, <1>7, <1>8 DEF TypeOK, Byte

\* Characters pushed.
LEMMA PushIs ==
  ASSUME TypeOK, NEW chars \in Seq(Character), Push(chars)
  PROVE  /\ out' \in Seq(Output) /\ Len(out') = Len(out) + Len(chars)
         /\ \A i \in 1 .. Len(out) : out'[i] = out[i]
         /\ \A i \in 1 .. Len(chars) : out'[Len(out) + i] = <<"char", chars[i]>>
<1> DEFINE t == [i \in DOMAIN chars |-> <<"char", chars[i]>>]
           n == Len(chars)
           m == Len(out)
<1>1. DOMAIN chars = 1 .. n /\ n \in Nat /\ \A i \in 1 .. n : chars[i] \in Character
      BY LenProperties, ElementOfSeq
<1>2. out \in Seq(Output) /\ m \in Nat
      BY LenProperties DEF TypeOK
<1>3. \A i \in 1 .. n : <<"char", chars[i]>> \in Output
      BY <1>1 DEF Output
<1>4. t \in Seq(Output) /\ Len(t) = n /\ \A i \in 1 .. n : t[i] = <<"char", chars[i]>>
  <2> HIDE DEF n
  <2>1. t = [i \in 1 .. n |-> <<"char", chars[i]>>]
        BY <1>1
  <2>2. QED
        BY <1>1, <1>3, <2>1
<1>5. out' = out \o t
      BY DEF Push
<1> HIDE DEF t, n, m
<1>6. /\ out' \in Seq(Output) /\ Len(out') = Len(out) + Len(t)
      /\ \A i \in 1 .. Len(out) + Len(t) :
           out'[i] = IF i <= Len(out) THEN out[i] ELSE t[i - Len(out)]
      BY <1>2, <1>4, <1>5, ConcatProperties
<1>7. /\ Len(out') = m + n
      /\ \A i \in 1 .. m + n : out'[i] = IF i <= m THEN out[i] ELSE t[i - m]
      BY <1>4, <1>6 DEF m
<1>8. ASSUME NEW i \in 1 .. m PROVE out'[i] = out[i]
  <2>1. i \in 1 .. m + n /\ i <= m
        BY <1>1, <1>2
  <2>2. QED
        BY <1>7, <2>1
<1>9. ASSUME NEW i \in 1 .. n PROVE out'[m + i] = <<"char", chars[i]>>
  <2>1. m + i \in 1 .. m + n /\ ~ (m + i <= m) /\ (m + i) - m = i
        BY <1>1, <1>2
  <2>2. out'[m + i] = t[(m + i) - m]
        BY <1>7, <2>1
  <2>3. QED
        BY <1>4, <2>1, <2>2
<1>10. QED
       BY <1>6, <1>7, <1>8, <1>9 DEF m, n

\* An entry of the table, taken apart.
LEMMA EntryIs ==
  ASSUME NEW spec \in FORMAT_SPEC_TABLE
  PROVE  /\ \E size \in SizeNames : \E conv \in Integral \cup Unsized :
               /\ spec.chars = Shape(size, conv) /\ spec.conv = conv
               /\ conv \in Integral \/ size = "none"
         /\ spec.chars \in Seq(Character) /\ Len(spec.chars) \in 2 .. 4
         /\ spec.conv \in Integral \cup Unsized
<1>1. PICK size \in SizeNames, conv \in Integral \cup Unsized :
             spec = Entry(size, conv) /\ (conv \in Integral \/ size = "none")
      BY TableIs
<1>2. spec.chars = Shape(size, conv) /\ spec.conv = conv
      BY <1>1 DEF Entry
<1>3. conv \in Character
      BY DEF Integral, Unsized, Character
<1>4. Shape(size, conv) \in Seq(Character) /\ Len(Shape(size, conv)) \in 2 .. 4
      BY <1>3, ShapeIs, Specifier
<1>5. QED
      BY <1>1, <1>2, <1>4

\* What a handler reads is something its conversion can show, and is there.
LEMMA ReadsType ==
  ASSUME TypeOK, NEW conv \in Integral \cup Unsized
  PROVE  /\ <<IF conv = "%" THEN "char" ELSE conv, Reads(conv).value>> \in Output
         /\ Reads(conv).length \in 0 .. Len(buffer)
         /\ Outcome(conv) \in {"text", "error", "panic"}
<1>0. Outcome(conv) \in {"text", "error", "panic"}
  <2>1. NumberOutcome(conv) \in {"text", "error"}
        BY DEF NumberOutcome
  <2>2. QED
        BY <2>1 DEF Outcome
<1>1. buffer \in Seq(Byte) /\ Len(buffer) \in Nat /\ DOMAIN buffer = 1 .. Len(buffer)
      BY LenProperties DEF TypeOK, Byte
<1>2. NumberLength(buffer) \in 0 .. Len(buffer)
  <2> DEFINE ends == {i \in DOMAIN buffer : buffer[i] < 128}
             low(i) == \A j \in ends : i <= j
  <2>1. NumberLength(buffer) = IF ends = {} THEN 0 ELSE CHOOSE i \in ends : low(i)
        BY DEF NumberLength
  <2>2. CASE ends = {}
        BY <1>1, <2>1, <2>2
  <2>3. CASE ends # {}
    <3>1. \E i \in ends : low(i)
      <4> DEFINE K == {n \in Nat : n \notin ends}
      <4>1. SUFFICES ASSUME ~ \E i \in ends : low(i) PROVE FALSE
            OBVIOUS
      <4>2. ASSUME NEW n \in Nat, 0 .. n - 1 \subseteq K PROVE n \in K
        <5>1. SUFFICES ASSUME n \in ends PROVE FALSE
              OBVIOUS
        <5>2. ASSUME NEW j \in ends PROVE n <= j
          <6>1. j \in Nat
                BY <1>1
          <6>2. j \notin 0 .. n - 1
                BY <4>2
          <6>3. QED
                BY <6>1, <6>2
        <5>3. QED
              BY <4>1, <5>1, <5>2
      <4>3. Nat \subseteq K
        <5> HIDE DEF K
        <5>1. QED
              BY <4>2, StrongInduction
      <4>4. \A i \in ends : i \in Nat
            BY <1>1
      <4>5. QED
            BY <2>3, <4>3, <4>4
    <3> HIDE DEF low
    <3>2. NumberLength(buffer) \in ends
          BY <2>1, <2>3, <3>1
    <3>3. QED
          BY <1>1, <3>2
  <2>4. QED
        BY <2>2, <2>3
<1>3. SignedValue(buffer) \in Int /\ UnsignedValue(buffer) \in Int
      BY <1>1, SignedValueIs, UnsignedValueIs
<1>4. CASE conv = "%"
  <2>1. Reads(conv) = [length |-> 0, value |-> "%"]
        BY <1>4 DEF Reads
  <2>2. <<"char", "%">> \in Output
        BY DEF Output, Character
  <2>3. QED
        BY <1>0, <1>1, <1>4, <2>1, <2>2
<1>5. CASE conv = "s"
  <2> DEFINE nul == Find(0, buffer)
             last == IF nul = 0 THEN Len(buffer) ELSE nul - 1
             read == SubSeq(buffer, 1, last)
  <2>1. Reads(conv) = [length |-> nul, value |-> read]
        BY <1>5 DEF Reads, CString
  <2>2. nul \in 0 .. Len(buffer)
        BY <1>1, FindIs
  <2>3. read \in Seq(Byte)
    <3>1. last \in 0 .. Len(buffer)
      <4> HIDE DEF nul
      <4>1. QED
            BY <1>1, <2>2
    <3> HIDE DEF last
    <3>2. QED
          BY <1>1, <3>1, Cut
  <2> HIDE DEF nul, last, read
  <2>4. <<"s", read>> \in Output
        BY <2>3 DEF Output, Byte
  <2>5. QED
        BY <1>0, <1>5, <2>1, <2>2, <2>4
<1>6. CASE conv = "d"
  <2>1. Reads(conv) = [length |-> NumberLength(buffer), value |-> SignedValue(buffer)]
        BY <1>6 DEF Reads
  <2>2. <<"d", SignedValue(buffer)>> \in Output
        BY <1>3 DEF Output
  <2>3. QED
        BY <1>0, <1>2, <1>6, <2>1, <2>2
<1>7. CASE conv \in {"u", "o", "x", "p", "k", "c"}
  <2>1. Reads(conv) = [length |-> NumberLength(buffer), value |-> UnsignedValue(buffer)]
        BY <1>7 DEF Reads
  <2>2. <<conv, UnsignedValue(buffer)>> \in Output
        BY <1>3, <1>7 DEF Output
  <2>3. conv # "%"
        BY <1>7
  <2>4. QED
        BY <1>0, <1>2, <2>1, <2>2, <2>3
<1>8. QED
      BY <1>4, <1>5, <1>6, <1>7 DEF Integral, Unsized

LEMMA TypeStep == CallOK /\ TypeOK /\ [Next]_vars => (CallOK /\ TypeOK)'
<1> SUFFICES ASSUME CallOK, TypeOK, [Next]_vars
             PROVE  (CallOK /\ TypeOK)'
    OBVIOUS
<1> DEFINE Room(o, f) == Len(o) + Len(f) <= Len(FormatOf(items))
<1>1. items' = items /\ args' = args
      BY DEF Next, vars, call, Split, Text, Finish, Handle, NoHandler
<1>2. CallOK'
      BY <1>1 DEF CallOK
<1>3. /\ format \in Seq(Character) /\ Len(format) \in Nat
      /\ buffer \in Seq(Byte) /\ Len(buffer) \in Nat
      /\ out \in Seq(Output) /\ Len(out) \in Nat
      /\ Room(out, format) /\ Len(FormatOf(items)) \in Nat
  <2>1. /\ format \in Seq(Character) /\ buffer \in Seq(Byte) /\ out \in Seq(Output)
        /\ Room(out, format)
        BY DEF TypeOK, Byte
  <2>2. FormatOf(items) \in Seq(Character)
    <3>1. /\ CharParts \in Seq(Seq(Character)) /\ FormatOf(items) = After(CharParts, 0)
          /\ 0 \in 0 .. Len(CharParts)
          BY PartsAre
    <3>2. QED
          BY <3>1, AfterIs
  <2>3. QED
        BY <2>1, <2>2, LenProperties
<1>4. ASSUME format' \in Seq(Character), buffer' \in Seq(Byte), out' \in Seq(Output),
             Room(out', format'),
             status' \in {"split", "text", "spec", "done", "error", "panic"}
      PROVE  TypeOK'
      BY <1>1, <1>4 DEF TypeOK, Byte
<1>5. CASE Split
  <2> DEFINE at == Find("@", format)
  <2>1. at = 0 \/ at \in 1 .. Len(format)
        BY <1>3, FindIs
  <2>2. format' = IF at = 0 THEN format ELSE SubSeq(format, 1, at - 1)
        BY <1>5 DEF Split
  <2> HIDE DEF at
  <2>3. format' \in Seq(Character) /\ Len(format') <= Len(format) /\ Len(format') \in Nat
    <3>1. CASE at = 0
          BY <1>3, <2>2, <3>1
    <3>2. CASE at # 0
      <4>1. PICK n \in 0 .. Len(format) : n = at - 1
        <5>1. at - 1 \in 0 .. Len(format)
              BY <1>3, <2>1, <3>2
        <5>2. QED
              BY <5>1
      <4>2. SubSeq(format, 1, n) \in Seq(Character) /\ Len(SubSeq(format, 1, n)) = n
            BY <1>3, Cut
      <4>3. format' = SubSeq(format, 1, n)
            BY <2>2, <3>2, <4>1
      <4>4. QED
            BY <1>3, <4>2, <4>3
    <3>3. QED
          BY <3>1, <3>2
  <2>4. out' = out /\ buffer' = buffer /\ status' = "text"
        BY <1>5 DEF Split
  <2>5. Room(out', format')
        BY <1>3, <2>3, <2>4
  <2>6. QED
        BY <1>2, <1>3, <1>4, <2>3, <2>4, <2>5
<1>6. CASE Text
  <2> DEFINE pos == Bytes(SubSeq(format, 1, Find("%", format) - 1))
             take == IF pos < Len(format) THEN pos ELSE Len(format)
  <2>1. Push(SubSeq(format, 1, take)) /\ format' = Drop(take, format)
        BY <1>6 DEF Text
  <2>2. buffer' = buffer /\ status' = "spec"
        BY <1>6 DEF Text
  <2>3. Find("%", format) \in 1 .. Len(format)
        BY <1>3, <1>6, FindIs DEF Text
  <2>4. pos \in Nat
    <3>1. PICK n \in 0 .. Len(format) : n = Find("%", format) - 1
      <4>1. Find("%", format) - 1 \in 0 .. Len(format)
            BY <1>3, <2>3
      <4>2. QED
            BY <4>1
    <3> DEFINE t == SubSeq(format, 1, n)
    <3>2. t \in Seq(Character)
          BY <1>3, Cut
    <3>3. pos = Bytes(t)
          BY <3>1
    <3> HIDE DEF t
    <3>4. Len(t) \in Nat /\ DOMAIN t = 1 .. Len(t)
          BY <3>2, LenProperties
    <3>5. IsFiniteSet(1 .. Len(t))
          BY <3>4, FS_Interval
    <3>6. Cardinality({i \in DOMAIN t : t[i] = "wide"}) \in Nat
          BY <3>4, <3>5, FS_Subset, FS_CardinalityType
    <3>7. Bytes(t) \in Nat
          BY <3>4, <3>6 DEF Bytes
    <3> HIDE DEF pos
    <3>8. QED
          BY <3>3, <3>7
  <2> HIDE DEF pos
  <2>5. take \in 0 .. Len(format)
        BY <1>3, <2>4
  <2> HIDE DEF take
  <2>6. /\ SubSeq(format, 1, take) \in Seq(Character) /\ Len(SubSeq(format, 1, take)) = take
        /\ Drop(take, format) \in Seq(Character) /\ Len(Drop(take, format)) = Len(format) - take
        BY <1>3, <2>5, Cut
  <2>7. out' \in Seq(Output) /\ Len(out') = Len(out) + take
        BY <2>1, <2>6, PushIs
  <2>8. Room(out', format')
        BY <1>3, <2>1, <2>5, <2>6, <2>7
  <2>9. QED
        BY <1>2, <1>3, <1>4, <2>1, <2>2, <2>6, <2>7, <2>8
<1>7. CASE Finish
  <2>1. Push(format) /\ format' = << >> /\ buffer' = buffer /\ status' = "done"
        BY <1>7 DEF Finish
  <2>2. out' \in Seq(Output) /\ Len(out') = Len(out) + Len(format)
        BY <1>3, <2>1, PushIs
  <2>3. format' \in Seq(Character) /\ Len(format') = 0
        BY <2>1, EmptySeq
  <2>4. Room(out', format')
        BY <1>3, <2>2, <2>3
  <2>5. QED
        BY <1>2, <1>3, <1>4, <2>1, <2>2, <2>3, <2>4
<1>8. ASSUME NEW spec \in FORMAT_SPEC_TABLE, Handle(spec)
      PROVE  (CallOK /\ TypeOK)'
  <2> DEFINE read == Reads(spec.conv)
             shown == <<IF spec.conv = "%" THEN "char" ELSE spec.conv, read.value>>
             n == Len(spec.chars)
  <2>1. /\ spec.conv \in Integral \cup Unsized
        /\ n \in 2 .. 4 /\ n <= Len(format)
        BY <1>8, EntryIs DEF Handle, StartsWith
  <2>2. shown \in Output /\ read.length \in 0 .. Len(buffer)
        BY <2>1, ReadsType
  <2>3. \/ /\ status' \in {"panic", "error"}
           /\ format' = format /\ buffer' = buffer /\ out' = out
        \/ /\ out' = Append(out, shown) /\ buffer' = Drop(read.length, buffer)
           /\ format' = Drop(n, format) /\ status' = "text"
    <3>1. status' \in {"text", "error", "panic"}
          BY <1>8, <2>1, ReadsType DEF Handle
    <3>2. QED
          BY <1>8, <3>1 DEF Handle
  <2> HIDE DEF shown, read, n
  <2>4. CASE /\ status' \in {"panic", "error"}
             /\ format' = format /\ buffer' = buffer /\ out' = out
        BY <1>2, <1>3, <1>4, <2>4
  <2>5. CASE /\ out' = Append(out, shown) /\ buffer' = Drop(read.length, buffer)
             /\ format' = Drop(n, format) /\ status' = "text"
    <3>1. out' \in Seq(Output) /\ Len(out') = Len(out) + 1
          BY <1>3, <2>2, <2>5, AppendProperties
    <3>2. buffer' \in Seq(Byte)
          BY <1>3, <2>2, <2>5, Cut
    <3>3. n \in 0 .. Len(format) /\ n \in Nat /\ n >= 1
          BY <1>3, <2>1
    <3>4. format' \in Seq(Character) /\ Len(format') = Len(format) - n
          BY <1>3, <2>5, <3>3, Cut
    <3>5. Room(out', format')
          BY <1>3, <3>1, <3>3, <3>4
    <3>6. QED
          BY <1>2, <1>4, <2>5, <3>1, <3>2, <3>4, <3>5
  <2>6. QED
        BY <2>3, <2>4, <2>5
<1>9. CASE NoHandler
  <2>1. /\ format' = format /\ buffer' = buffer /\ out' = out
        /\ status' \in {"panic", "error"}
        BY <1>9 DEF NoHandler
  <2>2. QED
        BY <1>2, <1>3, <1>4, <2>1
<1>10. CASE UNCHANGED vars
       BY <1>10, <1>2 DEF vars, call, TypeOK
<1>11. QED
       BY <1>5, <1>6, <1>7, <1>8, <1>9, <1>10 DEF Next

(* The type invariant, for every set of formats and arguments: what the host
   reads are bytes and numbers whatever the buffer holds, and format_string
   prints no character of the format twice (lib.rs 369-398). *)
THEOREM TypeCorrect == Spec => []TypeOK
<1>1. Init => CallOK /\ TypeOK
      BY TypeInit
<1>2. CallOK /\ TypeOK /\ [Next]_vars => (CallOK /\ TypeOK)'
      BY TypeStep
<1>3. QED
      BY <1>1, <1>2, PTL DEF Spec
-----------------------------------------------------------------------------
(* What is printed. *)

FormatLeft(k) == After(CharParts, k)
ArgsLeft(n)   == After(ArgParts, n)
Passed(k)     == Conversions(items, k)

\* The characters of a call outside the gaps.
Ascii == Character \ {"wide", "@"}

LEMMA NoGap ==
  ASSUME CallOK, ~KnownGap, NEW i \in 1 .. Len(items)
  PROVE  /\ items[i] \in Items /\ items[i].conv \notin {"i", "at", "wide"}
         /\ items[i].conv = "text" \/ items[i].conv = "percent" \/ Conversion(items[i])
<1>1. DOMAIN items = 1 .. Len(items) /\ items[i] \in Items
      BY LenProperties, ElementOfSeq DEF CallOK
<1>2. items[i].conv \notin {"i", "at", "wide"}
      BY <1>1 DEF KnownGap
<1>3. QED
      BY <1>1, <1>2 DEF Conversion

\* A part of the format that is not text is an entry of the table.
LEMMA ItemIs ==
  ASSUME CallOK, ~KnownGap, NEW i \in 1 .. Len(items), items[i].conv # "text"
  PROVE  \E size \in SizeNames : \E conv \in Integral \cup Unsized :
           /\ Chars(items[i]) = Shape(size, conv)
           /\ Entry(size, conv) \in FORMAT_SPEC_TABLE
           /\ \/ items[i].conv = "percent" /\ conv = "%"
              \/ Conversion(items[i]) /\ conv = items[i].conv /\ conv # "%"
<1>1. /\ items[i] \in Items /\ items[i].conv # "i"
      /\ items[i].conv = "percent" \/ Conversion(items[i])
      BY NoGap
<1>2. CASE items[i].conv = "percent"
  <2>1. Chars(items[i]) = Shape("none", "%")
        BY <1>1, <1>2, CharsAre
  <2>2. "none" \in SizeNames /\ "%" \in Unsized
        BY DEF SizeNames, Unsized
  <2>3. Entry("none", "%") \in FORMAT_SPEC_TABLE
        BY <2>2, TableIs
  <2>4. "%" \in Integral \cup Unsized
        BY <2>2
  <2> DEFINE none == "none"
             percent == "%"
  <2>5. percent = "%"
        OBVIOUS
  <2> HIDE DEF none, percent
  <2>6. /\ none \in SizeNames /\ percent \in Integral \cup Unsized
        /\ Chars(items[i]) = Shape(none, percent)
        /\ Entry(none, percent) \in FORMAT_SPEC_TABLE
        BY <2>1, <2>2, <2>3, <2>4 DEF none, percent
  <2>7. \/ items[i].conv = "percent" /\ percent = "%"
        \/ Conversion(items[i]) /\ percent = items[i].conv /\ percent # "%"
        BY <1>2, <2>5
  <2>8. QED
        BY <2>6, <2>7
<1>3. CASE Conversion(items[i])
  <2> DEFINE size == items[i].size
             conv == items[i].conv
  <2>1. /\ Chars(items[i]) = Shape(size, conv) /\ size \in SizeNames
        /\ conv \in Integral \cup {"i"} \/ size = "none"
        /\ conv \in Integral \cup {"i", "s", "p", "k", "c"}
        BY <1>1, <1>3, CharsAre
  <2>2. conv \in Integral \cup Unsized /\ conv # "%" /\ (conv \in Integral \/ size = "none")
        BY <1>1, <2>1 DEF Integral, Unsized
  <2>3. Entry(size, conv) \in FORMAT_SPEC_TABLE
    <3>1. CASE conv \in Integral
          BY <2>1, <3>1, TableIs
    <3>2. CASE conv \notin Integral
      <4>1. conv \in Unsized /\ size = "none"
            BY <2>2, <3>2
      <4> HIDE DEF conv, size
      <4>2. QED
            BY <4>1, TableIs
    <3>3. QED
          BY <3>1, <3>2
  <2>4. QED
        BY <1>3, <2>1, <2>2, <2>3
<1>4. QED
      BY <1>1, <1>2, <1>3

LEMMA ItemChars ==
  ASSUME CallOK, ~KnownGap, NEW i \in 1 .. Len(items)
  PROVE  /\ Chars(items[i]) \in Seq(Ascii)
         /\ items[i].conv = "text" => Chars(items[i]) = <<"a">>
         /\ items[i].conv # "text" => Len(Chars(items[i])) \in 2 .. 4 /\ Chars(items[i])[1] = "%"
<1>1. items[i] \in Items
      BY NoGap
<1>2. CASE items[i].conv = "text"
  <2>1. Chars(items[i]) = <<"a">>
        BY <1>1, <1>2, CharsAre
  <2>2. "a" \in Ascii
        BY DEF Ascii, Character
  <2>3. QED
        BY <1>2, <2>1, <2>2
<1>3. CASE items[i].conv # "text"
  <2>1. PICK size \in SizeNames, conv \in Integral \cup Unsized :
               Chars(items[i]) = Shape(size, conv)
        BY <1>3, ItemIs
  <2>2. {"%", "l", "h"} \subseteq Ascii /\ conv \in Ascii
        BY DEF Ascii, Character, Integral, Unsized
  <2>3. /\ Shape(size, conv) \in Seq(Ascii) /\ Len(Shape(size, conv)) \in 2 .. 4
        /\ Shape(size, conv)[1] = "%"
        BY <2>2, ShapeIs
  <2>4. QED
        BY <1>3, <2>1, <2>3
<1>4. QED
      BY <1>2, <1>3

LEMMA LeftIs ==
  ASSUME CallOK, ~KnownGap
  PROVE  /\ \A k \in 0 .. Len(items) : FormatLeft(k) \in Seq(Ascii)
         /\ FormatLeft(Len(items)) = << >>
         /\ \A k \in 1 .. Len(items) : FormatLeft(k - 1) = Chars(items[k]) \o FormatLeft(k)
         /\ \A n \in 0 .. Len(args) : ArgsLeft(n) \in Seq(Byte)
         /\ ArgsLeft(Len(args)) = << >>
         /\ \A n \in 1 .. Len(args) : ArgsLeft(n - 1) = ArgBytes(args[n]) \o ArgsLeft(n)
<1>1. /\ Len(CharParts) = Len(items) /\ Len(items) \in Nat
      /\ CharParts \in Seq(Seq(Character))
      /\ \A i \in 1 .. Len(items) : CharParts[i] = Chars(items[i])
      /\ ArgParts \in Seq(Seq(Byte)) /\ Len(ArgParts) = Len(args)
      /\ \A i \in 1 .. Len(args) : ArgParts[i] = ArgBytes(args[i])
      BY PartsAre
<1>2. CharParts \in Seq(Seq(Ascii))
  <2> DEFINE T == Seq(Ascii)
             N == Len(items)
  <2>1. \A i \in 1 .. N : CharParts[i] \in T
        BY <1>1, ItemChars
  <2>2. CharParts = [i \in 1 .. N |-> CharParts[i]] /\ N \in Nat
    <3>1. CharParts = [i \in DOMAIN items |-> CharParts[i]]
          BY DEF CharParts
    <3>2. DOMAIN items = 1 .. N
          BY LenProperties DEF CallOK
    <3>3. QED
          BY <1>1, <3>1, <3>2
  <2> HIDE DEF N, T
  <2>3. CharParts \in Seq(T)
        BY <2>1, <2>2
  <2>4. QED
        BY <2>3 DEF T
<1>3. /\ \A k \in 0 .. Len(CharParts) : After(CharParts, k) \in Seq(Ascii)
      /\ After(CharParts, Len(CharParts)) = << >>
      /\ \A k \in 1 .. Len(CharParts) :
           After(CharParts, k - 1) = CharParts[k] \o After(CharParts, k)
      BY <1>2, AfterIs
<1>4. /\ \A k \in 0 .. Len(ArgParts) : After(ArgParts, k) \in Seq(Byte)
      /\ After(ArgParts, Len(ArgParts)) = << >>
      /\ \A k \in 1 .. Len(ArgParts) :
           After(ArgParts, k - 1) = ArgParts[k] \o After(ArgParts, k)
      BY <1>1, AfterIs
<1>5. QED
      BY <1>1, <1>3, <1>4 DEF FormatLeft, ArgsLeft

\* The text at the front of what is left of the format: j characters.
Run(k, j) ==
  /\ j \in Nat /\ k + j <= Len(items)
  /\ \A i \in 1 .. j : items[k + i].conv = "text"
  /\ k + j = Len(items) \/ items[k + j + 1].conv # "text"
  /\ Len(FormatLeft(k)) = j + Len(FormatLeft(k + j))
  /\ \A i \in 1 .. j : FormatLeft(k)[i] = "a"
  /\ \A i \in 1 .. Len(FormatLeft(k + j)) : FormatLeft(k)[j + i] = FormatLeft(k + j)[i]
  /\ Passed(k + j) = Passed(k)

LEMMA RunExists ==
  ASSUME CallOK, ~KnownGap, NEW k \in 0 .. Len(items)
  PROVE  \E j \in Nat : Run(k, j)
<1> DEFINE N == Len(items)
           K == {n \in Nat : \A i \in 0 .. N : i + n = N => \E j \in Nat : Run(i, j)}
<1>1. N \in Nat
      BY PartsAre
<1>2. ASSUME NEW i \in 0 .. N, i = N \/ items[i + 1].conv # "text"
      PROVE  Run(i, 0)
  <2>1. i + 0 = i /\ i \in Nat
        BY <1>1
  <2>2. Len(FormatLeft(i)) \in Nat
        BY LeftIs, LenProperties
  <2> DEFINE L == FormatLeft(i)
  <2> HIDE DEF L
  <2>3. /\ Len(L) = 0 + Len(L) /\ \A h \in 1 .. Len(L) : L[0 + h] = L[h]
        BY <2>2 DEF L
  <2>4. QED
        BY <1>1, <1>2, <2>1, <2>3 DEF Run, L
<1>3. 0 \in K
  <2>1. \A i \in 0 .. N : i + 0 = N => i = N
        BY <1>1
  <2>2. QED
        BY <1>2, <2>1
<1>4. ASSUME NEW n \in Nat, n \in K PROVE n + 1 \in K
  <2>1. SUFFICES ASSUME NEW i \in 0 .. N, i + (n + 1) = N PROVE \E j \in Nat : Run(i, j)
        OBVIOUS
  <2>2. i \in Nat /\ i + 1 \in 1 .. N /\ i + 1 \in 0 .. N /\ (i + 1) + n = N /\ (i + 1) - 1 = i
        BY <1>1, <2>1
  <2>3. PICK j \in Nat : Run(i + 1, j)
        BY <1>4, <2>2
  <2>4. CASE items[i + 1].conv # "text"
    <3>1. Run(i, 0)
          BY <1>2, <2>4
    <3>2. QED
          BY <3>1
  <2>5. CASE items[i + 1].conv = "text"
    <3>1. FormatLeft(i) = <<"a">> \o FormatLeft(i + 1) /\ FormatLeft(i + 1) \in Seq(Ascii)
      <4>1. Chars(items[i + 1]) = <<"a">>
            BY <2>2, <2>5, ItemChars
      <4>2. FormatLeft((i + 1) - 1) = Chars(items[i + 1]) \o FormatLeft(i + 1)
            BY <2>2, LeftIs
      <4>3. QED
            BY <2>2, <4>1, <4>2, LeftIs
    <3>2. "a" \in Ascii
          BY DEF Ascii, Character
    <3> DEFINE L == FormatLeft(i)
               R == FormatLeft(i + 1)
               E == FormatLeft((i + 1) + j)
    <3>3. /\ Len(L) = 1 + Len(R) /\ L[1] = "a" /\ Len(R) \in Nat
          /\ \A h \in 1 .. Len(R) : L[1 + h] = R[h]
          BY <3>1, <3>2, Pushed, LenProperties
    <3>4. /\ (i + 1) + j <= N
          /\ \A h \in 1 .. j : items[(i + 1) + h].conv = "text"
          /\ (i + 1) + j = N \/ items[(i + 1) + j + 1].conv # "text"
          /\ Len(R) = j + Len(E)
          /\ \A h \in 1 .. j : R[h] = "a"
          /\ \A h \in 1 .. Len(E) : R[j + h] = E[h]
          /\ Passed((i + 1) + j) = Passed(i + 1)
          BY <2>3 DEF Run
    <3>5. Len(E) \in Nat
      <4>1. (i + 1) + j \in 0 .. N
            BY <1>1, <2>2, <3>4, SMTT(30)
      <4>2. QED
            BY <4>1, LeftIs, LenProperties
    <3>6. (i + 1) + j = i + (j + 1) /\ E = FormatLeft(i + (j + 1))
          BY <2>2
    <3> HIDE DEF L, R, E
    <3>7. Len(L) = (j + 1) + Len(E)
          BY <3>3, <3>4, <3>5
    <3>8. ASSUME NEW h \in 1 .. j + 1 PROVE L[h] = "a" /\ items[i + h].conv = "text"
      <4>1. CASE h = 1
            BY <2>5, <3>3, <4>1
      <4>2. CASE h # 1
        <5>1. PICK g \in 1 .. j : h = 1 + g
          <6>1. h - 1 \in 1 .. j /\ h = 1 + (h - 1)
                BY <4>2
          <6>2. QED
                BY <6>1
        <5>2. g \in 1 .. Len(R) /\ i + (1 + g) = (i + 1) + g
              BY <2>2, <3>4, <3>5
        <5>3. L[1 + g] = R[g] /\ R[g] = "a" /\ items[(i + 1) + g].conv = "text"
              BY <3>3, <3>4, <5>2
        <5>4. QED
              BY <5>1, <5>2, <5>3
      <4>3. QED
            BY <4>1, <4>2
    <3>9. ASSUME NEW h \in 1 .. Len(E) PROVE L[(j + 1) + h] = E[h]
      <4>1. j + h \in 1 .. Len(R) /\ (j + 1) + h = 1 + (j + h)
            BY <3>4, <3>5, SMTT(30)
      <4>2. L[1 + (j + h)] = R[j + h] /\ R[j + h] = E[h]
            BY <3>3, <3>4, <4>1
      <4>3. QED
            BY <4>1, <4>2
    <3>10. Passed(i + 1) = Passed(i)
      <4>1. ~Conversion(items[i + 1])
            BY <2>5 DEF Conversion
      <4>2. /\ Conversions(items, i) \in Nat
            /\ Conversions(items, i + 1) =
                 Conversions(items, i) + (IF Conversion(items[i + 1]) THEN 1 ELSE 0)
            BY <2>2, ConversionsAre
      <4>3. QED
            BY <4>1, <4>2 DEF Passed
    <3>11. /\ j + 1 \in Nat /\ i + (j + 1) <= N
           /\ i + (j + 1) = N \/ items[i + (j + 1) + 1].conv # "text"
           /\ Passed(i + (j + 1)) = Passed(i)
           BY <3>4, <3>6, <3>10
    <3>12. Run(i, j + 1)
           BY <3>6, <3>7, <3>8, <3>9, <3>11 DEF Run, L
    <3>13. QED
           BY <3>11, <3>12
  <2>6. QED
        BY <2>4, <2>5
<1>5. Nat \subseteq K
  <2> HIDE DEF K
  <2>1. QED
        BY <1>3, <1>4, Induction
<1>6. N - k \in Nat /\ k + (N - k) = N
      BY <1>1
<1>7. QED
      BY <1>5, <1>6

\* A string is followed by the 0 that ends it.
LEMMA StringRead ==
  ASSUME NEW value \in Seq(1 .. 255), NEW rest \in Seq(Byte)
  PROVE  LET s == Append(value, 0) \o rest IN
         Find(0, s) = Len(value) + 1 /\ SubSeq(s, 1, Len(value)) = value
<1> DEFINE e == Append(value, 0)
           s == e \o rest
           n == Len(value)
<1>1. /\ 1 .. 255 \subseteq Byte /\ 0 \in Byte
      /\ value \in Seq(Byte) /\ n \in Nat /\ Len(rest) \in Nat
  <2>1. 1 .. 255 \subseteq Byte /\ 0 \in Byte
        BY DEF Byte
  <2>2. value \in Seq(Byte)
        BY <2>1, SeqMonotonic
  <2>3. n \in Nat
        BY LenProperties
  <2>4. Len(rest) \in Nat
        BY LenProperties
  <2>5. QED
        BY <2>1, <2>2, <2>3, <2>4
<1>2. \A i \in 1 .. n : value[i] # 0
  <2>1. \A i \in 1 .. n : value[i] \in 1 .. 255
        BY ElementOfSeq
  <2>2. \A x \in 1 .. 255 : x # 0
        OBVIOUS
  <2>3. QED
        BY <2>1, <2>2, Zenon
<1>3. /\ e \in Seq(Byte) /\ Len(e) = n + 1 /\ e[n + 1] = 0
      /\ \A i \in 1 .. n : e[i] = value[i]
      BY <1>1, AppendProperties
<1> HIDE DEF e, n
<1>4. /\ s \in Seq(Byte) /\ Len(s) = (n + 1) + Len(rest)
      /\ \A i \in 1 .. n + 1 : s[i] = e[i]
  <2>1. /\ s \in Seq(Byte) /\ Len(s) = Len(e) + Len(rest)
        /\ \A i \in 1 .. Len(e) + Len(rest) :
             s[i] = IF i <= Len(e) THEN e[i] ELSE rest[i - Len(e)]
    <3>1. e \in Seq(Byte) /\ rest \in Seq(Byte)
          BY <1>1, <1>3
    <3>2. QED
          BY <3>1, ConcatProperties, ZenonT(30)
  <2>2. \A i \in 1 .. n + 1 : i \in 1 .. Len(e) + Len(rest) /\ i <= Len(e)
        BY <1>1, <1>3
  <2> HIDE DEF s
  <2>3. \A i \in 1 .. n + 1 : s[i] = e[i]
        BY <2>1, <2>2
  <2>4. QED
        BY <1>3, <2>1, <2>3
<1> HIDE DEF s
<1>5. Find(0, s) = n + 1
  <2>1. n + 1 \in 1 .. Len(s) /\ n + 1 \in 1 .. n + 1 /\ (n + 1) - 1 = n
    <3>1. PICK l \in Nat : l = Len(rest)
          BY <1>1
    <3>2. n \in Nat /\ Len(s) = (n + 1) + l
          BY <1>1, <1>4, <3>1
    <3>3. QED
          BY <3>2
  <2>2. s[n + 1] = 0
        BY <1>3, <1>4, <2>1
  <2>3. ASSUME NEW i \in 1 .. (n + 1) - 1 PROVE s[i] # 0
    <3>1. i \in 1 .. n /\ i \in 1 .. n + 1
          BY <1>1
    <3>2. s[i] = value[i]
          BY <1>3, <1>4, <3>1
    <3>3. QED
          BY <1>2, <3>1, <3>2
  <2>4. QED
        BY <1>4, <2>1, <2>2, <2>3, FindFirst
<1>6. SubSeq(s, 1, n) = value
  <2>1. n \in 0 .. Len(s)
        BY <1>1, <1>4
  <2>2. /\ SubSeq(s, 1, n) \in Seq(Byte) /\ Len(SubSeq(s, 1, n)) = n
        /\ \A i \in 1 .. n : SubSeq(s, 1, n)[i] = s[i]
        BY <1>4, <2>1, Cut
  <2>3. \A i \in 1 .. n : s[i] = value[i]
    <3>1. \A i \in 1 .. n : i \in 1 .. n + 1
          BY <1>1
    <3>2. QED
          BY <1>3, <1>4, <3>1
  <2>4. QED
        BY <1>1, <2>2, <2>3, SeqEqual DEF n
<1>7. QED
      BY <1>5, <1>6 DEF s, e, n

LEMMA ByteIsChar == \A n \in 0 .. 255 : IsChar(n)
<1>1. SUFFICES ASSUME NEW n \in 0 .. 255 PROVE IsChar(n)
      OBVIOUS
<1>2. n \div 65536 = 0 /\ n % 65536 = n
      BY <1>1
<1>3. (n \div 65536) % 65536 = 0
      BY <1>2
<1>4. Cut32(n) = n
      BY <1>1, <1>2, <1>3 DEF Cut32
<1>5. QED
      BY <1>1, <1>4, SMTT(30) DEF IsChar

\* What %c takes, apart from negative numbers, is a byte.
LEMMA CharArgIs ==
  ASSUME NEW item \in Items, NEW arg \in Arg, Matches(item, arg), item.conv = "c",
         ~ (item.conv \in {"o", "x", "c"} /\ arg.type = "signed" /\ arg.value < 0)
  PROVE  arg.value \in 0 .. 255
<1>1. arg.type \in {"signed", "unsigned"} /\ arg.size = 1
      BY DEF Matches
<1>2. arg.value \in Value(arg.type) /\ FitsSize(arg)
      BY <1>1, ArgAssumption
<1>3. CASE arg.type = "signed"
  <2>1. arg.value \in Int /\ arg.value >= 0
        BY <1>2, <1>3 DEF Value
  <2>2. (2 * arg.value) \div 256 \in {-1, 0}
        BY <1>1, <1>2, <1>3 DEF FitsSize, Above
  <2>3. QED
        BY <2>1, <2>2
<1>4. CASE arg.type = "unsigned"
  <2>1. arg.value \in Nat
        BY <1>2, <1>4 DEF Value
  <2>2. arg.value \div 256 = 0
        BY <1>1, <1>2, <1>4 DEF FitsSize, Above
  <2>3. QED
        BY <2>1, <2>2
<1>5. QED
      BY <1>1, <1>3, <1>4

\* The host reads, of what a conversion takes, the argument it is for.
LEMMA ArgRead ==
  ASSUME NEW item \in Items, NEW arg \in Arg, Conversion(item), item.conv # "i",
         Matches(item, arg), ArgumentType(arg) # "none",
         ~ (item.conv \in {"o", "x", "c"} /\ arg.type = "signed" /\ arg.value < 0),
         ~ (item.conv = "p" /\ arg.type = "string"),
         ~ (item.conv = "s" /\ ~IsUtf8(arg.value)),
         NEW rest \in Seq(Byte), buffer = ArgBytes(arg) \o rest
  PROVE  /\ Reads(item.conv) = [length |-> Len(ArgBytes(arg)), value |-> Shown(item, arg)]
         /\ Len(ArgBytes(arg)) # 0
         /\ Drop(Len(ArgBytes(arg)), buffer) = rest
         /\ Outcome(item.conv) = "text"
<1> DEFINE e == ArgBytes(arg)
<1>1. e \in Seq(Byte) /\ Len(e) \in Nat
      BY ArgBytesType, LenProperties
<1>2. Drop(Len(e), buffer) = rest
      BY <1>1, Front
<1>3. /\ arg.type \in {"string", "signed", "unsigned", "pointer", "volatile pointer", "interned"}
      /\ arg.value \in Value(arg.type) /\ arg.type # "volatile pointer"
      BY ArgAssumption DEF ArgumentType
<1>4. Shown(item, arg) = arg.value
      BY DEF Shown
<1>5. item.conv \in {"d", "u", "o", "x", "s", "p", "k", "c"}
      BY DEF Conversion, Items
<1>6. CASE item.conv = "s"
  <2>1. arg.type = "string"
        BY <1>6 DEF Matches
  <2>2. arg.value \in Seq(1 .. 255) /\ e = Append(arg.value, 0)
        BY <1>3, <2>1 DEF Value, ArgBytes, ArgumentType
  <2> DEFINE n == Len(arg.value)
  <2>3. Find(0, buffer) = n + 1 /\ SubSeq(buffer, 1, n) = arg.value
        BY <2>2, StringRead
  <2>4. Len(e) = n + 1 /\ n \in Nat
    <3>1. 0 \in Byte /\ 1 .. 255 \subseteq Byte
          BY DEF Byte
    <3>2. arg.value \in Seq(Byte)
          BY <2>2, <3>1, SeqMonotonic
    <3>3. n \in Nat
          BY <3>2, LenProperties
    <3> HIDE DEF n
    <3>4. Len(Append(arg.value, 0)) = n + 1
      <4>1. Len(Append(arg.value, 0)) = Len(arg.value) + 1
            BY <3>1, <3>2, AppendProperties
      <4>2. QED
            BY <4>1 DEF n
    <3>5. QED
          BY <2>2, <3>3, <3>4, Zenon
  <2>5. Reads(item.conv) = [length |-> Find(0, buffer), value |-> CString]
        BY <1>6 DEF Reads
  <2> HIDE DEF n, e
  <2>6. (n + 1) - 1 = n /\ n + 1 # 0
        BY <2>4
  <2>7. CString = arg.value
        BY <2>3, <2>6 DEF CString
  <2>8. Reads(item.conv) = [length |-> Len(e), value |-> arg.value]
        BY <2>3, <2>4, <2>5, <2>7
  <2>9. Len(e) # 0
        BY <2>4, <2>6
  <2>10. Find(0, buffer) # 0
         BY <2>3, <2>6
  <2>11. Outcome(item.conv) = "text"
         BY <1>6, <2>7, <2>10 DEF Outcome
  <2>12. QED
         BY <1>2, <1>4, <2>8, <2>9, <2>11 DEF e
<1>7. CASE item.conv = "d"
  <2>1. arg.type = "signed"
        BY <1>7 DEF Matches
  <2>2. arg.value \in Int /\ e = SignedBytes(arg.value)
        BY <1>3, <2>1 DEF Value, ArgBytes, ArgumentType
  <2>3. Number(e) /\ SignedValue(buffer) = arg.value
        BY <2>2, SignedRead
  <2>4. NumberLength(buffer) = Len(e)
        BY <2>3, NumberEnds
  <2>5. Reads(item.conv) = [length |-> NumberLength(buffer), value |-> SignedValue(buffer)]
        BY <1>7 DEF Reads
  <2>6. Len(e) # 0
        BY <1>1, <2>3 DEF Number
  <2> HIDE DEF e
  <2>7. Reads(item.conv) = [length |-> Len(e), value |-> arg.value]
        BY <2>3, <2>4, <2>5
  <2>8. Outcome(item.conv) = "text"
    <3>1. NumberLength(buffer) # 0 /\ item.conv # "c"
          BY <1>7, <2>4, <2>6
    <3>2. NumberOutcome(item.conv) = "text"
          BY <3>1, Zenon DEF NumberOutcome
    <3>3. Outcome(item.conv) = NumberOutcome(item.conv)
          BY <1>7 DEF Outcome
    <3>4. QED
          BY <3>2, <3>3
  <2>9. QED
        BY <1>2, <1>4, <2>6, <2>7, <2>8 DEF e
<1>8. CASE item.conv \in {"u", "o", "x", "p", "k", "c"}
  <2>1. Number(e) /\ UnsignedValue(buffer) = arg.value
    <3>1. CASE arg.type = "signed"
      <4>1. arg.value \in Int /\ e = SignedBytes(arg.value)
            BY <1>3, <3>1 DEF Value, ArgBytes, ArgumentType
      <4>2. item.conv \in {"o", "x", "c"}
            BY <1>8, <3>1 DEF Matches
      <4>3. arg.value >= 0
            BY <3>1, <4>1, <4>2
      <4>4. QED
            BY <4>1, <4>3, SignedRead
    <3>2. CASE arg.type # "signed"
      <4>1. arg.type # "string"
            BY <1>8 DEF Matches
      <4>2. arg.value \in Nat /\ e = UnsignedBytes(arg.value)
            BY <1>3, <3>2, <4>1 DEF Value, ArgBytes, ArgumentType
      <4>3. QED
            BY <4>2, UnsignedRead
    <3>3. QED
          BY <3>1, <3>2
  <2>2. NumberLength(buffer) = Len(e)
        BY <2>1, NumberEnds
  <2>3. Reads(item.conv) = [length |-> NumberLength(buffer), value |-> UnsignedValue(buffer)]
        BY <1>8 DEF Reads
  <2>4. Len(e) # 0
        BY <1>1, <2>1 DEF Number
  <2> HIDE DEF e
  <2>5. Reads(item.conv) = [length |-> Len(e), value |-> arg.value]
        BY <2>1, <2>2, <2>3
  <2>6. item.conv = "c" => IsChar(UnsignedValue(buffer))
    <3>1. SUFFICES ASSUME item.conv = "c" PROVE IsChar(arg.value)
          BY <2>1
    <3>2. arg.value \in 0 .. 255
          BY <3>1, CharArgIs
    <3>3. QED
          BY <3>2, ByteIsChar
  <2>7. Outcome(item.conv) = "text"
    <3>1. NumberLength(buffer) # 0
          BY <2>2, <2>4
    <3>2. NumberOutcome(item.conv) = "text"
          BY <2>6, <3>1, Zenon DEF NumberOutcome
    <3>3. item.conv # "%" /\ item.conv # "s"
          BY <1>8
    <3>4. Outcome(item.conv) = NumberOutcome(item.conv)
          BY <3>3 DEF Outcome
    <3>5. QED
          BY <3>2, <3>4
  <2>8. QED
        BY <1>2, <1>4, <2>4, <2>5, <2>7 DEF e
<1>9. QED
      BY <1>5, <1>6, <1>7, <1>8

\* The argument of a conversion is the next one.
LEMMA ArgOfIs ==
  ASSUME CallOK, ~KnownGap, NEW k \in Nat, k + 1 \in 1 .. Len(items),
         Conversion(items[k + 1])
  PROVE  /\ Passed(k + 1) = Passed(k) + 1 /\ Passed(k) \in Nat
         /\ Passed(k + 1) \in 1 .. Len(args) /\ args[Passed(k + 1)] \in Arg
         /\ Matches(items[k + 1], args[Passed(k + 1)])
         /\ ArgumentType(args[Passed(k + 1)]) # "none"
         /\ ~ (/\ items[k + 1].conv \in {"o", "x", "c"}
               /\ args[Passed(k + 1)].type = "signed" /\ args[Passed(k + 1)].value < 0)
         /\ ~ (items[k + 1].conv = "p" /\ args[Passed(k + 1)].type = "string")
         /\ ~ (items[k + 1].conv = "s" /\ ~IsUtf8(args[Passed(k + 1)].value))
<1> DEFINE n == Passed(k + 1)
           N == Len(items)
<1>1. /\ N \in Nat /\ Len(args) \in Nat /\ DOMAIN items = 1 .. N
      /\ DOMAIN args = 1 .. Len(args) /\ \A i \in 1 .. Len(args) : args[i] \in Arg
      BY PartsAre, LenProperties DEF CallOK
<1>2. /\ n = Passed(k) + 1 /\ Passed(k) \in Nat
      BY ConversionsAre DEF Passed
<1>3. n <= Passed(N)
  <2>1. k + 1 \in Nat /\ k + 1 <= N
        BY <1>1
  <2>2. \A a, b \in Nat : a <= b => Conversions(items, a) <= Conversions(items, b)
        BY ConversionsAre
  <2>3. QED
        BY <1>1, <2>1, <2>2 DEF Passed
<1>4. Passed(N) = Len(args)
      BY DEF CallOK, Compiles, Validated, Passed
<1>5. n \in 1 .. Len(args)
  <2> HIDE DEF n
  <2>1. QED
        BY <1>1, <1>2, <1>3, <1>4
<1>6. Matches(items[k + 1], args[n])
      BY <1>1 DEF CallOK, Compiles, Validated, Passed
<1>7. ArgumentType(args[n]) # "none"
      BY <1>1, <1>5 DEF CallOK, Compiles
<1>8. /\ ~ (items[k + 1].conv \in {"o", "x", "c"} /\ args[n].type = "signed" /\ args[n].value < 0)
      /\ ~ (items[k + 1].conv = "p" /\ args[n].type = "string")
      /\ ~ (items[k + 1].conv = "s" /\ ~IsUtf8(args[n].value))
      BY <1>1 DEF KnownGap, SignLost, StringPrintedAsPointer, NotUtf8, ArgOf, Passed
<1>9. QED
      BY <1>1, <1>2, <1>5, <1>6, <1>7, <1>8

\* What is printed for each item.
LEMMA PrintedIs ==
  ASSUME CallOK, ~KnownGap, NEW i \in 1 .. Len(items)
  PROVE  /\ items[i].conv = "text" => Printed[i] = <<"char", "a">>
         /\ items[i].conv = "percent" => Printed[i] = <<"char", "%">>
         /\ Conversion(items[i]) =>
              Printed[i] = <<items[i].conv, Shown(items[i], args[Passed(i)])>>
<1>1. DOMAIN items = 1 .. Len(items)
      BY PartsAre, LenProperties DEF CallOK
<1> DEFINE Is(item) ==
             CASE item.conv = "percent" -> <<"char", "%">>
               [] Conversion(item) ->
                    <<IF item.conv = "i" THEN "d" ELSE item.conv, Shown(item, ArgOf(i))>>
               [] OTHER -> <<"char", Chars(item)[1]>>
<1>2. Printed[i] = Is(items[i])
      BY <1>1 DEF Printed
<1>3. items[i].conv = "text" => Printed[i] = <<"char", "a">>
  <2>1. SUFFICES ASSUME items[i].conv = "text" PROVE Printed[i] = <<"char", "a">>
        OBVIOUS
  <2>2. Chars(items[i]) = <<"a">>
        BY <2>1, ItemChars
  <2>3. Chars(items[i])[1] = "a"
        BY <2>2
  <2>4. ~Conversion(items[i])
        BY <2>1 DEF Conversion
  <2>5. Is(items[i]) = <<"char", Chars(items[i])[1]>>
        BY <2>1, <2>4
  <2> HIDE DEF Is
  <2>6. QED
        BY <1>2, <2>3, <2>5
<1>4. items[i].conv = "percent" => Printed[i] = <<"char", "%">>
  <2>1. items[i].conv = "percent" => Is(items[i]) = <<"char", "%">>
    <3>1. items[i].conv = "percent" => ~Conversion(items[i])
          BY DEF Conversion
    <3>2. QED
          BY <3>1
  <2> HIDE DEF Is
  <2>2. QED
        BY <1>2, <2>1
<1>5. Conversion(items[i]) =>
        Printed[i] = <<items[i].conv, Shown(items[i], args[Passed(i)])>>
  <2>1. SUFFICES ASSUME Conversion(items[i])
                 PROVE  Printed[i] = <<items[i].conv, Shown(items[i], args[Passed(i)])>>
        OBVIOUS
  <2>2. items[i].conv # "i" /\ items[i].conv # "percent"
        BY <2>1, NoGap DEF Conversion
  <2>3. QED
        BY <1>2, <2>1, <2>2 DEF ArgOf, Passed
<1>6. QED
      BY <1>3, <1>4, <1>5

\* The state after the first k items of the format.
PrintedUpTo(k) ==
  /\ format = FormatLeft(k) /\ buffer = ArgsLeft(Passed(k))
  /\ Len(out) = k /\ \A i \in 1 .. k : out[i] = Printed[i]

\* The inductive invariant: between two steps, the host is between two items.
PrintInv ==
  ~KnownGap =>
    /\ status \in {"split", "text", "spec", "done"}
    /\ status \in {"split", "text", "spec"} =>
         \E k \in 0 .. Len(items) :
           /\ PrintedUpTo(k)
           /\ status = "spec" => k < Len(items) /\ items[k + 1].conv # "text"
    /\ status = "done" => out = Printed /\ buffer = << >>

LEMMA PrintInit == Init => PrintInv
<1> SUFFICES ASSUME Init, ~KnownGap
             PROVE  status = "split" /\ PrintedUpTo(0) /\ 0 \in 0 .. Len(items)
    BY DEF PrintInv
<1>1. CallOK
      BY TypeInit
<1>2. /\ Len(items) \in Nat
      /\ FormatOf(items) = After(CharParts, 0) /\ BufferOf(args) = After(ArgParts, 0)
      BY <1>1, PartsAre
<1>3. Passed(0) = 0
      BY ConversionsAre DEF Passed
<1>4. Len(out) = 0
      BY DEF Init
<1>5. QED
      BY <1>2, <1>3, <1>4 DEF Init, PrintedUpTo, FormatLeft, ArgsLeft

\* The text in front of the host: where the next "%" is, and what follows.
LEMMA TextAhead ==
  ASSUME CallOK, ~KnownGap, NEW k \in 0 .. Len(items), format = FormatLeft(k)
  PROVE  \E j \in Nat :
           /\ k + j <= Len(items)
           /\ k + j = Len(items) \/ items[k + j + 1].conv # "text"
           /\ \A i \in 1 .. j : items[k + i].conv = "text"
           /\ j <= Len(format) /\ (k + j # Len(items) => j < Len(format))
           /\ k + j = Len(items) => j = Len(format)
           /\ \A i \in 1 .. j : format[i] = "a"
           /\ Drop(j, format) = FormatLeft(k + j)
           /\ Passed(k + j) = Passed(k)
           /\ Find("%", format) = IF k + j = Len(items) THEN 0 ELSE j + 1
<1> DEFINE N == Len(items)
<1>1. PICK j \in Nat : Run(k, j)
      BY RunExists
<1> DEFINE E == FormatLeft(k + j)
<1>2. N \in Nat /\ k \in Nat /\ k + j \in 0 .. N
      BY <1>1, PartsAre DEF Run
<1>3. /\ format \in Seq(Ascii) /\ E \in Seq(Ascii)
      /\ Len(format) \in Nat /\ Len(E) \in Nat
      BY <1>2, LeftIs, LenProperties
<1>4. /\ Len(format) = j + Len(E)
      /\ \A i \in 1 .. j : format[i] = "a"
      /\ \A i \in 1 .. Len(E) : format[j + i] = E[i]
      BY <1>1 DEF Run
<1>5. k + j = N => Len(E) = 0
  <2>1. k + j = N => E = << >>
        BY LeftIs
  <2>2. QED
        BY <2>1
<1>6. k + j # N => Len(E) >= 1 /\ E[1] = "%"
  <2>1. SUFFICES ASSUME k + j # N PROVE Len(E) >= 1 /\ E[1] = "%"
        OBVIOUS
  <2>2. PICK h \in 1 .. N : h = k + j + 1
    <3>1. k + j + 1 \in 1 .. N
          BY <1>2, <2>1
    <3>2. QED
          BY <3>1
  <2>3. items[h].conv # "text"
        BY <1>1, <2>1, <2>2 DEF Run
  <2>4. /\ Chars(items[h]) \in Seq(Ascii)
        /\ Len(Chars(items[h])) \in 2 .. 4 /\ Chars(items[h])[1] = "%"
        BY <2>3, ItemChars
  <2>5. h - 1 = k + j /\ h \in 0 .. N
        BY <1>2, <2>2
  <2>6. E = Chars(items[h]) \o FormatLeft(h) /\ FormatLeft(h) \in Seq(Ascii)
        BY <2>5, LeftIs
  <2> DEFINE c == Chars(items[h])
             t == FormatLeft(h)
  <2>7. Len(t) \in Nat /\ Len(c) \in 2 .. 4 /\ c \in Seq(Ascii) /\ t \in Seq(Ascii)
        BY <2>4, <2>6, LenProperties
  <2> HIDE DEF c, t, E
  <2>8. /\ Len(c \o t) = Len(c) + Len(t)
        /\ \A i \in 1 .. Len(c) + Len(t) :
             (c \o t)[i] = IF i <= Len(c) THEN c[i] ELSE t[i - Len(c)]
        BY <2>7, ConcatProperties
  <2>9. 1 \in 1 .. Len(c) + Len(t) /\ 1 <= Len(c) /\ Len(c) + Len(t) >= 1
    <3>1. PICK a \in 2 .. 4 : a = Len(c)
          BY <2>7
    <3>2. PICK b \in Nat : b = Len(t)
          BY <2>7
    <3>3. 1 \in 1 .. a + b /\ 1 <= a /\ a + b >= 1
          OBVIOUS
    <3>4. QED
          BY <3>1, <3>2, <3>3
  <2>10. (c \o t)[1] = c[1]
         BY <2>8, <2>9
  <2>11. E = c \o t /\ c[1] = "%"
         BY <2>4, <2>6 DEF c, t
  <2>12. QED
         BY <2>8, <2>9, <2>10, <2>11
<1> HIDE DEF E
<1>7. Drop(j, format) = E
  <2>1. j \in 0 .. Len(format) /\ Len(format) - j = Len(E)
        BY <1>3, <1>4
  <2>2. /\ Drop(j, format) \in Seq(Ascii) /\ Len(Drop(j, format)) = Len(format) - j
        /\ \A i \in 1 .. Len(format) - j : Drop(j, format)[i] = format[j + i]
        BY <1>3, <2>1, Cut
  <2>3. QED
        BY <1>3, <1>4, <2>1, <2>2, SeqEqual
<1>8. Find("%", format) = IF k + j = N THEN 0 ELSE j + 1
  <2>1. CASE k + j = N
    <3>1. Len(format) = j
          BY <1>3, <1>4, <1>5, <2>1
    <3>2. \A i \in 1 .. Len(format) : format[i] # "%"
          BY <1>4, <3>1
    <3>3. QED
          BY <1>3, <2>1, <3>2, FindNone
  <2>2. CASE k + j # N
    <3>1. Len(E) >= 1 /\ E[1] = "%"
          BY <1>6, <2>2
    <3>2. j + 1 \in 1 .. Len(format) /\ 1 \in 1 .. Len(E) /\ (j + 1) - 1 = j
          BY <1>3, <1>4, <3>1
    <3>3. format[j + 1] = "%"
          BY <1>4, <3>1, <3>2
    <3>4. \A i \in 1 .. (j + 1) - 1 : format[i] # "%"
          BY <1>4, <3>2
    <3>5. Find("%", format) = j + 1
          BY <1>3, <3>2, <3>3, <3>4, FindFirst
    <3>6. QED
          BY <2>2, <3>5
  <2>3. QED
        BY <2>1, <2>2
<1>9. /\ k + j <= N
      /\ k + j = N \/ items[k + j + 1].conv # "text"
      /\ \A i \in 1 .. j : items[k + i].conv = "text"
      /\ Passed(k + j) = Passed(k)
      BY <1>1 DEF Run
<1>10. /\ j <= Len(format) /\ (k + j # N => j < Len(format))
       /\ k + j = N => j = Len(format)
       BY <1>3, <1>4, <1>5, <1>6
<1>11. QED
       BY <1>4, <1>7, <1>8, <1>9, <1>10 DEF E

\* Text that is pushed is what is printed for its items.
LEMMA TextPrinted ==
  ASSUME CallOK, TypeOK, ~KnownGap, NEW k \in 0 .. Len(items), PrintedUpTo(k),
         NEW j \in Nat, k + j <= Len(items),
         \A i \in 1 .. j : items[k + i].conv = "text",
         NEW chars \in Seq(Character), Len(chars) = j, \A i \in 1 .. j : chars[i] = "a",
         Push(chars)
  PROVE  Len(out') = k + j /\ \A i \in 1 .. k + j : out'[i] = Printed[i]
<1>1. Len(items) \in Nat /\ k \in Nat
      BY PartsAre
<1>2. Len(out) = k /\ \A i \in 1 .. k : out[i] = Printed[i]
      BY DEF PrintedUpTo
<1>3. /\ Len(out') = k + j
      /\ \A i \in 1 .. k : out'[i] = out[i]
      /\ \A i \in 1 .. j : out'[k + i] = <<"char", chars[i]>>
      BY <1>2, PushIs
<1>4. ASSUME NEW i \in 1 .. k + j PROVE out'[i] = Printed[i]
  <2>1. CASE i <= k
    <3>1. i \in 1 .. k
          BY <1>1, <2>1
    <3>2. QED
          BY <1>2, <1>3, <3>1
  <2>2. CASE ~ (i <= k)
    <3>1. PICK h \in 1 .. j : i = k + h
      <4>1. i - k \in 1 .. j /\ i = k + (i - k)
            BY <1>1, <2>2
      <4>2. QED
            BY <4>1
    <3>2. i \in 1 .. Len(items)
          BY <1>1, <2>2, <3>1
    <3>3. items[i].conv = "text"
          BY <3>1
    <3>4. Printed[i] = <<"char", "a">>
          BY <3>2, <3>3, PrintedIs
    <3>5. out'[i] = <<"char", "a">>
          BY <1>3, <3>1
    <3>6. QED
          BY <3>4, <3>5
  <2>3. QED
        BY <2>1, <2>2
<1>5. QED
      BY <1>3, <1>4

\* The handler of an item: an entry of the table that the format starts with is
\* the item's.
LEMMA HandlerIs ==
  ASSUME CallOK, TypeOK, ~KnownGap, NEW k \in Nat, k + 1 \in 1 .. Len(items),
         items[k + 1].conv # "text", format = FormatLeft(k),
         NEW spec \in FORMAT_SPEC_TABLE, StartsWith(spec.chars)
  PROVE  /\ Drop(Len(spec.chars), format) = FormatLeft(k + 1)
         /\ \/ items[k + 1].conv = "percent" /\ spec.conv = "%"
            \/ /\ Conversion(items[k + 1]) /\ spec.conv = items[k + 1].conv
               /\ spec.conv # "%"
<1>1. PICK size \in SizeNames, conv \in Integral \cup Unsized :
             /\ Chars(items[k + 1]) = Shape(size, conv)
             /\ \/ items[k + 1].conv = "percent" /\ conv = "%"
                \/ Conversion(items[k + 1]) /\ conv = items[k + 1].conv /\ conv # "%"
      BY ItemIs
<1>2. PICK other \in SizeNames, read \in Integral \cup Unsized :
             spec.chars = Shape(other, read) /\ spec.conv = read
      BY EntryIs
<1>3. {"%", "l", "h"} \subseteq Ascii /\ conv \in Ascii /\ read \in Ascii
      BY DEF Ascii, Character, Integral, Unsized
<1> DEFINE a == Shape(size, conv)
           b == Shape(other, read)
           t == FormatLeft(k + 1)
<1>4. format = a \o t /\ t \in Seq(Ascii)
  <2>1. (k + 1) - 1 = k /\ k + 1 \in 0 .. Len(items)
        BY PartsAre
  <2>2. FormatLeft((k + 1) - 1) = Chars(items[k + 1]) \o FormatLeft(k + 1)
        BY LeftIs
  <2>3. QED
        BY <1>1, <2>1, <2>2, LeftIs
<1>5. /\ a \in Seq(Ascii) /\ Len(a) \in 2 .. 4
      /\ size = "none" => Len(a) = 2 /\ a[2] = conv
      /\ size = "l" => Len(a) = 3 /\ a[2] = "l" /\ a[3] = conv
      /\ size = "h" => Len(a) = 3 /\ a[2] = "h" /\ a[3] = conv
      /\ size = "ll" => Len(a) = 4 /\ a[2] = "l" /\ a[3] = "l"
      /\ size = "hh" => Len(a) = 4 /\ a[2] = "h" /\ a[3] = "h"
      /\ size \in {"ll", "hh"} => a[4] = conv
      BY <1>3, ShapeIs
<1>6. /\ b \in Seq(Ascii) /\ Len(b) \in 2 .. 4
      /\ other = "none" => Len(b) = 2 /\ b[2] = read
      /\ other = "l" => Len(b) = 3 /\ b[2] = "l" /\ b[3] = read
      /\ other = "h" => Len(b) = 3 /\ b[2] = "h" /\ b[3] = read
      /\ other = "ll" => Len(b) = 4 /\ b[2] = "l" /\ b[3] = "l"
      /\ other = "hh" => Len(b) = 4 /\ b[2] = "h" /\ b[3] = "h"
      /\ other \in {"ll", "hh"} => b[4] = read
      BY <1>3, ShapeIs
<1>7. /\ Len(b) <= Len(format) /\ SubSeq(format, 1, Len(b)) = b
      BY <1>2 DEF StartsWith
<1> HIDE DEF a, b, t
<1>8. format \in Seq(Ascii) /\ Len(t) \in Nat /\ Len(format) \in Nat
      BY <1>4, <1>5, ConcatProperties, LenProperties
<1>9. \A i \in 1 .. Len(a) : format[i] = a[i]
  <2>1. \A i \in 1 .. Len(a) + Len(t) :
          (a \o t)[i] = IF i <= Len(a) THEN a[i] ELSE t[i - Len(a)]
        BY <1>4, <1>5, ConcatProperties
  <2>2. SUFFICES ASSUME NEW i \in 1 .. Len(a) PROVE format[i] = a[i]
        OBVIOUS
  <2>3. i \in 1 .. Len(a) + Len(t) /\ i <= Len(a)
        BY <1>5, <1>8
  <2>4. QED
        BY <1>4, <2>1, <2>3
<1>10. \A i \in 1 .. Len(b) : format[i] = b[i]
  <2>1. Len(b) \in 0 .. Len(format)
        BY <1>6, <1>7, <1>8
  <2>2. \A i \in 1 .. Len(b) : SubSeq(format, 1, Len(b))[i] = format[i]
        BY <1>8, <2>1, Cut
  <2>3. QED
        BY <1>7, <2>2
<1>11. \A n \in 2 .. 4 : n <= Len(a) /\ n <= Len(b) => a[n] = b[n]
  <2>1. SUFFICES ASSUME NEW n \in 2 .. 4, n <= Len(a), n <= Len(b) PROVE a[n] = b[n]
        OBVIOUS
  <2>2. n \in 1 .. Len(a) /\ n \in 1 .. Len(b)
        BY <1>5, <1>6, <2>1
  <2>3. QED
        BY <1>9, <1>10, <2>2
<1>12. /\ a[2] = b[2]
       /\ Len(a) >= 3 /\ Len(b) >= 3 => a[3] = b[3]
       /\ Len(a) >= 4 /\ Len(b) >= 4 => a[4] = b[4]
  <2>1. PICK A \in 2 .. 4 : A = Len(a)
        BY <1>5
  <2>2. PICK B \in 2 .. 4 : B = Len(b)
        BY <1>6
  <2>3. A >= 2 /\ B >= 2 /\ A \in Nat /\ B \in Nat
        OBVIOUS
  <2>4. \A n \in 2 .. 4 : n <= A /\ n <= B => a[n] = b[n]
        BY <1>11, <2>1, <2>2
  <2>5. a[2] = b[2]
        BY <2>3, <2>4
  <2>6. A >= 3 /\ B >= 3 => a[3] = b[3]
        BY <2>3, <2>4
  <2>7. A >= 4 /\ B >= 4 => a[4] = b[4]
        BY <2>3, <2>4
  <2>8. QED
        BY <2>1, <2>2, <2>5, <2>6, <2>7
<1>13. conv \notin {"l", "h"} /\ read \notin {"l", "h"}
       BY DEF Integral, Unsized
<1>14. size = other /\ conv = read
  <2>1. /\ size \in {"none", "l", "h", "ll", "hh"} /\ other \in {"none", "l", "h", "ll", "hh"}
        BY DEF SizeNames
  <2>2. \/ Len(a) = 2 \/ Len(a) = 3 \/ Len(a) = 4
        BY <1>5
  <2>3. QED
        BY <1>5, <1>6, <1>12, <1>13, <2>1, SMTT(60)
<1>15. a = b
       BY <1>14 DEF a, b
<1>16. Drop(Len(a), a \o t) = t
       BY <1>4, <1>5, Front
<1>17. Drop(Len(spec.chars), format) = t
       BY <1>2, <1>4, <1>15, <1>16 DEF b
<1>18. QED
       BY <1>1, <1>2, <1>14, <1>17 DEF t

\* There is one.
LEMMA HandlerExists ==
  ASSUME CallOK, ~KnownGap, NEW k \in Nat, k + 1 \in 1 .. Len(items),
         items[k + 1].conv # "text", format = FormatLeft(k)
  PROVE  \E spec \in FORMAT_SPEC_TABLE : StartsWith(spec.chars)
<1>1. PICK size \in SizeNames, conv \in Integral \cup Unsized :
             /\ Chars(items[k + 1]) = Shape(size, conv)
             /\ Entry(size, conv) \in FORMAT_SPEC_TABLE
      BY ItemIs
<1> DEFINE a == Chars(items[k + 1])
           t == FormatLeft(k + 1)
<1>2. /\ format = a \o t /\ t \in Seq(Ascii) /\ a \in Seq(Ascii)
      /\ Len(a) \in Nat /\ Len(t) \in Nat
  <2>1. (k + 1) - 1 = k /\ k + 1 \in 0 .. Len(items)
        BY PartsAre
  <2>2. FormatLeft((k + 1) - 1) = Chars(items[k + 1]) \o FormatLeft(k + 1)
        BY LeftIs
  <2>3. QED
        BY <2>1, <2>2, LeftIs, ItemChars, LenProperties
<1> HIDE DEF a, t
<1>3. SubSeq(format, 1, Len(a)) = a /\ Len(format) = Len(a) + Len(t)
      BY <1>2, Front, ConcatProperties
<1>4. StartsWith(a)
      BY <1>2, <1>3 DEF StartsWith
<1>5. Entry(size, conv).chars = a
      BY <1>1 DEF Entry, a
<1>6. QED
      BY <1>1, <1>4, <1>5

\* The call stays what it is, and with it all that the invariant compares.
LEMMA CallKept ==
  ASSUME items' = items, args' = args
  PROVE  /\ KnownGap' <=> KnownGap
         /\ Printed' = Printed
         /\ \A k : PrintedUpTo(k)' <=>
              /\ format' = FormatLeft(k) /\ buffer' = ArgsLeft(Passed(k))
              /\ Len(out') = k /\ \A i \in 1 .. k : out'[i] = Printed[i]
<1>1. \A i : ArgOf(i)' = ArgOf(i)
      BY DEF ArgOf, Conversions, Conversion
<1>2. SignLost' <=> SignLost
      BY <1>1 DEF SignLost
<1>3. StringPrintedAsPointer' <=> StringPrintedAsPointer
      BY <1>1 DEF StringPrintedAsPointer
<1>4. KnownGap' <=> KnownGap
  <2>1. NotUtf8' <=> NotUtf8
        BY <1>1 DEF NotUtf8
  <2>2. QED
        BY <1>2, <1>3, <2>1 DEF KnownGap
<1>5. Printed' = Printed
      BY <1>1 DEF Printed, Conversion, Shown, Chars
<1>6. CharParts' = CharParts
      BY DEF CharParts, Chars
<1>7. ArgParts' = ArgParts
      BY DEF ArgParts, ArgBytes, ArgumentType, SignedBytes, UnsignedBytes
<1>8. \A k : FormatLeft(k)' = FormatLeft(k)
      BY <1>6 DEF FormatLeft, After
<1>9. \A k : Passed(k)' = Passed(k)
      BY DEF Passed, Conversions, Conversion
<1>10. \A n : ArgsLeft(n)' = ArgsLeft(n)
       BY <1>7 DEF ArgsLeft, After
<1>11. \A k : ArgsLeft(Passed(k))' = ArgsLeft(Passed(k))
       BY <1>7, <1>9 DEF ArgsLeft, After
<1>12. QED
       BY <1>4, <1>5, <1>8, <1>11 DEF PrintedUpTo

\* There is no "@" to cut at.
LEMMA SplitKeeps ==
  ASSUME CallOK, ~KnownGap, NEW k \in 0 .. Len(items), PrintedUpTo(k), Split
  PROVE  format' = format /\ buffer' = buffer /\ out' = out /\ status' = "text"
<1>1. format \in Seq(Ascii)
      BY LeftIs DEF PrintedUpTo
<1>2. \A i \in 1 .. Len(format) : format[i] # "@"
      BY <1>1, ElementOfSeq DEF Ascii
<1>3. Find("@", format) = 0
      BY <1>1, <1>2, FindNone
<1>4. QED
      BY <1>3 DEF Split

\* The text up to a "%": its bytes are its characters.
LEMMA TextAdvances ==
  ASSUME CallOK, TypeOK, ~KnownGap, NEW k \in 0 .. Len(items), PrintedUpTo(k), Text
  PROVE  \E n \in 0 .. Len(items) :
           /\ format' = FormatLeft(n) /\ buffer' = ArgsLeft(Passed(n))
           /\ Len(out') = n /\ \A i \in 1 .. n : out'[i] = Printed[i]
           /\ n < Len(items) /\ items[n + 1].conv # "text" /\ status' = "spec"
<1>1. format = FormatLeft(k) /\ buffer = ArgsLeft(Passed(k))
      BY DEF PrintedUpTo
<1>2. Len(items) \in Nat /\ format \in Seq(Character) /\ Len(format) \in Nat
      BY PartsAre, LenProperties DEF TypeOK
<1>3. PICK j \in Nat :
        /\ k + j <= Len(items)
        /\ k + j = Len(items) \/ items[k + j + 1].conv # "text"
        /\ \A i \in 1 .. j : items[k + i].conv = "text"
        /\ j <= Len(format) /\ (k + j # Len(items) => j < Len(format))
        /\ k + j = Len(items) => j = Len(format)
        /\ \A i \in 1 .. j : format[i] = "a"
        /\ Drop(j, format) = FormatLeft(k + j)
        /\ Passed(k + j) = Passed(k)
        /\ Find("%", format) = IF k + j = Len(items) THEN 0 ELSE j + 1
      BY <1>1, TextAhead
<1> DEFINE chars == SubSeq(format, 1, j)
           n == k + j
<1>4. n # Len(items) /\ Find("%", format) = j + 1
      BY <1>3 DEF Text
<1>5. j \in 0 .. Len(format) /\ j < Len(format) /\ (j + 1) - 1 = j
      BY <1>2, <1>3, <1>4
<1>6. /\ chars \in Seq(Character) /\ Len(chars) = j
      /\ \A i \in 1 .. j : chars[i] = format[i]
      BY <1>2, <1>5, Cut
<1>7. Bytes(chars) = j
  <2>1. DOMAIN chars = 1 .. j
        BY <1>6, LenProperties
  <2> HIDE DEF chars
  <2>2. {i \in DOMAIN chars : chars[i] = "wide"} = {}
        BY <1>3, <1>6, <2>1
  <2>3. Cardinality({i \in DOMAIN chars : chars[i] = "wide"}) = 0
        BY <2>2, FS_EmptySet
  <2>4. Bytes(chars) = j + 0
        BY <1>6, <2>3 DEF Bytes
  <2>5. QED
        BY <2>4
<1>8. /\ Push(chars) /\ format' = Drop(j, format) /\ status' = "spec" /\ buffer' = buffer
  <2>1. SubSeq(format, 1, Find("%", format) - 1) = chars
        BY <1>4, <1>5
  <2>2. (IF Bytes(chars) < Len(format) THEN Bytes(chars) ELSE Len(format)) = j
        BY <1>5, <1>7
  <2> HIDE DEF chars
  <2>3. /\ LET pos  == Bytes(SubSeq(format, 1, Find("%", format) - 1))
               take == IF pos < Len(format) THEN pos ELSE Len(format)
           IN  Push(SubSeq(format, 1, take)) /\ format' = Drop(take, format)
        /\ status' = "spec" /\ buffer' = buffer
        BY DEF Text
  <2>4. Push(SubSeq(format, 1, j)) /\ format' = Drop(j, format)
        BY <2>1, <2>2, <2>3
  <2>5. QED
        BY <2>3, <2>4 DEF chars
<1> HIDE DEF chars
<1>9. \A i \in 1 .. j : chars[i] = "a"
      BY <1>3, <1>6
<1>10. Len(out') = k + j /\ \A i \in 1 .. k + j : out'[i] = Printed[i]
       BY <1>3, <1>6, <1>8, <1>9, TextPrinted
<1>11. n \in 0 .. Len(items) /\ n < Len(items) /\ items[n + 1].conv # "text"
       BY <1>2, <1>3, <1>4
<1>12. QED
       BY <1>1, <1>3, <1>8, <1>10, <1>11

\* The end: what is left is text, and no argument is.
LEMMA FinishPrints ==
  ASSUME CallOK, TypeOK, TypeOK', ~KnownGap, NEW k \in 0 .. Len(items), PrintedUpTo(k), Finish
  PROVE  out' = Printed /\ buffer' = << >> /\ status' = "done"
<1>1. format = FormatLeft(k) /\ buffer = ArgsLeft(Passed(k))
      BY DEF PrintedUpTo
<1> DEFINE N == Len(items)
<1>2. N \in Nat /\ format \in Seq(Character) /\ Len(format) \in Nat /\ items \in Seq(Items)
      BY PartsAre, LenProperties DEF TypeOK, CallOK
<1>3. PICK j \in Nat :
        /\ k + j <= N
        /\ \A i \in 1 .. j : items[k + i].conv = "text"
        /\ k + j = N => j = Len(format)
        /\ \A i \in 1 .. j : format[i] = "a"
        /\ Passed(k + j) = Passed(k)
        /\ Find("%", format) = IF k + j = N THEN 0 ELSE j + 1
      BY <1>1, TextAhead
<1>4. k + j = N /\ j = Len(format)
      BY <1>3 DEF Finish
<1>5. Push(format) /\ buffer' = buffer /\ status' = "done"
      BY DEF Finish
<1>6. Len(out') = N /\ \A i \in 1 .. N : out'[i] = Printed[i]
      BY <1>2, <1>3, <1>4, <1>5, TextPrinted
<1>7. out' = Printed
  <2>1. out' \in Seq(Output)
        BY DEF TypeOK
  <2>2. DOMAIN items = 1 .. N /\ DOMAIN out' = 1 .. N
        BY <1>2, <1>6, <2>1, LenProperties
  <2>3. out' = [i \in 1 .. N |-> out'[i]]
        BY <1>6, <2>1
  <2>4. Printed = [i \in DOMAIN items |-> Printed[i]]
        BY DEF Printed
  <2>5. QED
        BY <1>6, <2>2, <2>3, <2>4
<1>8. buffer = << >>
  <2>1. Passed(N) = Len(args)
        BY DEF Passed, CallOK, Compiles, Validated
  <2>2. buffer = ArgsLeft(Len(args))
        BY <1>1, <1>3, <1>4, <2>1
  <2>3. QED
        BY <2>2, LeftIs
<1>9. QED
      BY <1>5, <1>7, <1>8

\* A handler reads the argument of its item and prints it.
LEMMA HandleAdvances ==
  ASSUME CallOK, TypeOK, ~KnownGap, NEW k \in 0 .. Len(items), PrintedUpTo(k),
         k < Len(items), items[k + 1].conv # "text",
         NEW spec \in FORMAT_SPEC_TABLE, Handle(spec)
  PROVE  /\ k + 1 \in 0 .. Len(items) /\ status' = "text"
         /\ format' = FormatLeft(k + 1) /\ buffer' = ArgsLeft(Passed(k + 1))
         /\ Len(out') = k + 1 /\ \A i \in 1 .. k + 1 : out'[i] = Printed[i]
<1> DEFINE item == items[k + 1]
           n == Passed(k + 1)
           arg == args[n]
           read == Reads(spec.conv)
           shown == <<IF spec.conv = "%" THEN "char" ELSE spec.conv, read.value>>
<1>1. /\ format = FormatLeft(k) /\ buffer = ArgsLeft(Passed(k))
      /\ Len(out) = k /\ \A i \in 1 .. k : out[i] = Printed[i]
      BY DEF PrintedUpTo
<1>2. /\ k \in Nat /\ Len(items) \in Nat /\ Len(args) \in Nat /\ k + 1 \in 1 .. Len(items)
      /\ k + 1 \in 0 .. Len(items)
      BY PartsAre
<1>3. buffer \in Seq(Byte) /\ Len(buffer) \in Nat /\ out \in Seq(Output)
      BY LenProperties DEF TypeOK, Byte
<1>4. StartsWith(spec.chars)
      BY DEF Handle
<1>5. /\ Drop(Len(spec.chars), format) = FormatLeft(k + 1)
      /\ \/ item.conv = "percent" /\ spec.conv = "%"
         \/ Conversion(item) /\ spec.conv = item.conv /\ spec.conv # "%"
      BY <1>1, <1>2, <1>4, HandlerIs
<1>6. Outcome(spec.conv) = "text" =>
        /\ out' = Append(out, shown) /\ buffer' = Drop(read.length, buffer)
        /\ format' = Drop(Len(spec.chars), format) /\ status' = "text"
      BY DEF Handle
<1>7. /\ Outcome(spec.conv) = "text"
      /\ Drop(read.length, buffer) = ArgsLeft(n)
      /\ shown = Printed[k + 1]
  <2>1. CASE item.conv = "percent" /\ spec.conv = "%"
    <3>1. read = [length |-> 0, value |-> "%"]
          BY <2>1 DEF Reads
    <3>2. read.length = 0 /\ read.value = "%" /\ Outcome(spec.conv) = "text"
          BY <2>1, <3>1 DEF Outcome
    <3>3. Drop(0, buffer) = buffer
      <4>1. /\ Drop(0, buffer) \in Seq(Byte) /\ Len(Drop(0, buffer)) = Len(buffer) - 0
            /\ \A i \in 1 .. Len(buffer) - 0 : Drop(0, buffer)[i] = buffer[0 + i]
            BY <1>3, Cut
      <4>2. \A i \in 1 .. Len(buffer) : Drop(0, buffer)[i] = buffer[i]
            BY <1>3, <4>1
      <4>3. QED
            BY <1>3, <4>1, <4>2, SeqEqual
    <3>4. ~Conversion(item)
          BY <2>1 DEF Conversion
    <3>5. n = Passed(k)
      <4>1. Passed(k + 1) = Passed(k) + 0 /\ Passed(k) \in Nat
            BY <1>2, <3>4, ConversionsAre DEF Passed
      <4>2. QED
            BY <4>1
    <3>6. Printed[k + 1] = <<"char", "%">>
          BY <1>2, <2>1, PrintedIs
    <3>7. shown = <<"char", "%">>
          BY <2>1, <3>2
    <3>8. QED
          BY <1>1, <2>1, <3>2, <3>3, <3>5, <3>6, <3>7
  <2>2. CASE Conversion(item) /\ spec.conv = item.conv /\ spec.conv # "%"
    <3>1. /\ n = Passed(k) + 1 /\ Passed(k) \in Nat
          /\ n \in 1 .. Len(args) /\ arg \in Arg
          /\ Matches(item, arg) /\ ArgumentType(arg) # "none"
          /\ ~ (item.conv \in {"o", "x", "c"} /\ arg.type = "signed" /\ arg.value < 0)
          /\ ~ (item.conv = "p" /\ arg.type = "string")
          /\ ~ (item.conv = "s" /\ ~IsUtf8(arg.value))
          BY <1>2, <2>2, ArgOfIs
    <3>2. n - 1 = Passed(k) /\ n \in 0 .. Len(args)
          BY <1>2, <3>1
    <3>3. buffer = ArgBytes(arg) \o ArgsLeft(n) /\ ArgsLeft(n) \in Seq(Byte)
      <4>1. ArgsLeft(n - 1) = ArgBytes(args[n]) \o ArgsLeft(n) /\ ArgsLeft(n) \in Seq(Byte)
            BY <3>1, <3>2, LeftIs
      <4>2. QED
            BY <1>1, <3>2, <4>1
    <3>4. item \in Items /\ item.conv # "i"
          BY <1>2, NoGap
    <3>5. /\ Reads(item.conv) = [length |-> Len(ArgBytes(arg)), value |-> Shown(item, arg)]
          /\ Len(ArgBytes(arg)) # 0
          /\ Drop(Len(ArgBytes(arg)), buffer) = ArgsLeft(n)
          /\ Outcome(item.conv) = "text"
      <4> HIDE DEF item, arg, n
      <4>1. QED
            BY <2>2, <3>1, <3>3, <3>4, ArgRead
    <3>6. read.length = Len(ArgBytes(arg)) /\ read.value = Shown(item, arg)
          BY <2>2, <3>5
    <3>7. Printed[k + 1] = <<item.conv, Shown(item, arg)>>
          BY <1>2, <2>2, PrintedIs
    <3>8. shown = <<item.conv, Shown(item, arg)>>
          BY <2>2, <3>6
    <3>9. QED
          BY <2>2, <3>5, <3>6, <3>7, <3>8
  <2>3. QED
        BY <1>5, <2>1, <2>2
<1>8. /\ out' = Append(out, Printed[k + 1]) /\ buffer' = ArgsLeft(n)
      /\ format' = FormatLeft(k + 1) /\ status' = "text"
  <2> HIDE DEF n, read, shown
  <2>1. QED
        BY <1>5, <1>6, <1>7
<1>9. Len(out') = k + 1 /\ \A i \in 1 .. k + 1 : out'[i] = Printed[i]
  <2>1. shown \in Output
    <3>1. spec.conv \in Integral \cup Unsized
          BY EntryIs
    <3>2. QED
          BY <3>1, ReadsType
  <2>2. Printed[k + 1] \in Output
        BY <1>7, <2>1
  <2>3. /\ Len(out') = Len(out) + 1
        /\ \A i \in 1 .. Len(out) : out'[i] = out[i]
        /\ out'[Len(out) + 1] = Printed[k + 1]
        BY <1>3, <1>8, <2>2, AppendProperties
  <2>4. SUFFICES ASSUME NEW i \in 1 .. k + 1 PROVE out'[i] = Printed[i]
        BY <1>1, <2>3
  <2>5. i \in 1 .. k \/ i = k + 1
        BY <1>2
  <2>6. QED
        BY <1>1, <2>3, <2>5
<1>10. QED
       BY <1>2, <1>8, <1>9

LEMMA PrintStep == CallOK /\ TypeOK /\ TypeOK' /\ PrintInv /\ [Next]_vars => PrintInv'
<1> SUFFICES ASSUME CallOK, TypeOK, TypeOK', PrintInv, [Next]_vars, ~KnownGap'
             PROVE  /\ status' \in {"split", "text", "spec", "done"}
                    /\ status' \in {"split", "text", "spec"} =>
                         \E k \in 0 .. Len(items') :
                           /\ PrintedUpTo(k)'
                           /\ status' = "spec" =>
                                k < Len(items') /\ items'[k + 1].conv # "text"
                    /\ status' = "done" => out' = Printed' /\ buffer' = << >>
    BY DEF PrintInv
<1> DEFINE Reached(n) ==
      /\ format' = FormatLeft(n) /\ buffer' = ArgsLeft(Passed(n))
      /\ Len(out') = n /\ \A i \in 1 .. n : out'[i] = Printed[i]
<1>1. items' = items /\ args' = args
      BY DEF Next, vars, call, Split, Text, Finish, Handle, NoHandler
<1>2. ~KnownGap /\ Printed' = Printed /\ \A n : PrintedUpTo(n)' <=> Reached(n)
      BY <1>1, CallKept
<1>3. SUFFICES \/ /\ status' \in {"split", "text", "spec"}
                  /\ \E n \in 0 .. Len(items) :
                       /\ Reached(n)
                       /\ status' = "spec" => n < Len(items) /\ items[n + 1].conv # "text"
               \/ status' = "done" /\ out' = Printed /\ buffer' = << >>
  <2> HIDE DEF Reached
  <2>1. QED
        BY <1>1, <1>2
<1>4. /\ status \in {"split", "text", "spec", "done"}
      /\ status \in {"split", "text", "spec"} =>
           \E k \in 0 .. Len(items) :
             /\ PrintedUpTo(k)
             /\ status = "spec" => k < Len(items) /\ items[k + 1].conv # "text"
      /\ status = "done" => out = Printed /\ buffer = << >>
      BY <1>2 DEF PrintInv
<1>5. CASE Split
  <2>1. PICK k \in 0 .. Len(items) : PrintedUpTo(k)
        BY <1>4, <1>5 DEF Split
  <2>2. format' = format /\ buffer' = buffer /\ out' = out /\ status' = "text"
        BY <1>2, <1>5, <2>1, SplitKeeps
  <2>3. Reached(k)
        BY <2>1, <2>2 DEF PrintedUpTo
  <2>4. QED
        BY <2>2, <2>3
<1>6. CASE Text
  <2>1. PICK k \in 0 .. Len(items) : PrintedUpTo(k)
        BY <1>4, <1>6 DEF Text
  <2>2. PICK n \in 0 .. Len(items) :
          Reached(n) /\ n < Len(items) /\ items[n + 1].conv # "text" /\ status' = "spec"
        BY <1>2, <1>6, <2>1, TextAdvances
  <2> HIDE DEF Reached
  <2>3. QED
        BY <2>2
<1>7. CASE Finish
  <2>1. PICK k \in 0 .. Len(items) : PrintedUpTo(k)
        BY <1>4, <1>7 DEF Finish
  <2>2. out' = Printed /\ buffer' = << >> /\ status' = "done"
        BY <1>2, <1>7, <2>1, FinishPrints
  <2>3. QED
        BY <2>2
<1>8. ASSUME NEW spec \in FORMAT_SPEC_TABLE, Handle(spec)
      PROVE  /\ status' = "text"
             /\ \E n \in 0 .. Len(items) : Reached(n)
  <2>1. PICK k \in 0 .. Len(items) :
          PrintedUpTo(k) /\ k < Len(items) /\ items[k + 1].conv # "text"
        BY <1>4, <1>8 DEF Handle
  <2>2. k + 1 \in 0 .. Len(items) /\ status' = "text" /\ Reached(k + 1)
        BY <1>2, <1>8, <2>1, HandleAdvances
  <2>3. QED
        BY <2>2
<1>9. CASE NoHandler
  <2>1. PICK k \in 0 .. Len(items) :
          PrintedUpTo(k) /\ k < Len(items) /\ items[k + 1].conv # "text"
        BY <1>4, <1>9 DEF NoHandler
  <2>2. k \in Nat /\ k + 1 \in 1 .. Len(items)
        BY <2>1, PartsAre
  <2>3. \E spec \in FORMAT_SPEC_TABLE : StartsWith(spec.chars)
        BY <1>2, <2>1, <2>2, HandlerExists DEF PrintedUpTo
  <2>4. QED
        BY <1>9, <2>3 DEF NoHandler
<1>10. CASE UNCHANGED vars
  <2>1. format' = format /\ buffer' = buffer /\ out' = out /\ status' = status
        BY <1>10 DEF vars
  <2>2. \A k : PrintedUpTo(k) => Reached(k)
        BY <2>1 DEF PrintedUpTo
  <2> HIDE DEF Reached
  <2>3. QED
        BY <1>4, <2>1, <2>2
<1>11. QED
  <2> HIDE DEF Reached
  <2>1. CASE \E spec \in FORMAT_SPEC_TABLE : Handle(spec)
        BY <1>8, <2>1
  <2>2. QED
        BY <1>5, <1>6, <1>7, <1>9, <1>10, <2>1 DEF Next

(* What compiles is printed, for every set of formats and arguments and every
   value of the arguments: outside the listed gaps the host reads each argument
   where vlog wrote it, with the handler that belongs to its conversion, and
   has read every byte when the format ends (format_validator.h 24-82, args.h,
   logger.h 225-262, lib.rs 265-398). *)
THEOREM PrintsCorrect == Spec => []PrintsWhatWasLogged
<1>1. Init => CallOK /\ TypeOK /\ PrintInv
      BY TypeInit, PrintInit
<1>2. CallOK /\ TypeOK /\ PrintInv /\ [Next]_vars => (CallOK /\ TypeOK /\ PrintInv)'
      BY TypeStep, PrintStep
<1>3. PrintInv => PrintsWhatWasLogged
      BY DEF PrintInv, PrintsWhatWasLogged
<1>4. QED
      BY <1>1, <1>2, <1>3, PTL DEF Spec
=============================================================================
