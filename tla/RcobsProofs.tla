----------------------------- MODULE RcobsProofs -----------------------------
(***************************************************************************)
(* Reverse COBS loses nothing, for every message and every length of a     *)
(* full run: the decoder undoes what the SerialWriter does.                *)
(***************************************************************************)
EXTENDS Rcobs, Recursion, SequenceTheorems

NonZero == Nat \ {0}

\* The states a SerialWriter can be in.
WriterState == [out : Seq(NonZero), marker : 1 .. MaxMarker]
-----------------------------------------------------------------------------
(* The encoder, one byte at a time. *)

LEMMA NewWriterType == NewWriter \in WriterState
<1>1. << >> \in Seq(NonZero)
      BY EmptySeq
<1>2. QED
      BY <1>1, MaxMarkerAssumption DEF NewWriter, WriterState

\* A writer never sends a 0, and its count fits its byte.
LEMMA AfterByteType ==
  ASSUME NEW w \in WriterState, NEW b \in Nat
  PROVE  /\ CloseFull(w) \in WriterState /\ CloseFull(w).marker # MaxMarker
         /\ AfterByte(w, b) \in WriterState
<1>1. /\ w.out \in Seq(NonZero) /\ w.marker \in 1 .. MaxMarker
      /\ w = [out |-> w.out, marker |-> w.marker]
      BY DEF WriterState
<1>2. CloseFull(w) \in WriterState /\ CloseFull(w).marker # MaxMarker
  <2>1. Append(w.out, MaxMarker) \in Seq(NonZero)
        BY <1>1, MaxMarkerAssumption, AppendProperties DEF NonZero
  <2>2. QED
        BY <1>1, <2>1, MaxMarkerAssumption DEF CloseFull, WriterState
<1> DEFINE open == CloseFull(w)
<1>3. /\ open.out \in Seq(NonZero) /\ open.marker \in 1 .. MaxMarker
      /\ open.marker # MaxMarker
      BY <1>2 DEF WriterState
<1>4. AfterByte(w, b) = [out    |-> Append(open.out, WireByte(open.marker, b)),
                         marker |-> NextMarker(open.marker, b)]
      BY DEF AfterByte
<1> HIDE DEF open
<1>5. WireByte(open.marker, b) \in NonZero
      BY <1>3, MaxMarkerAssumption DEF WireByte, NonZero
<1>6. NextMarker(open.marker, b) \in 1 .. MaxMarker
      BY <1>3, MaxMarkerAssumption DEF NextMarker
<1>7. Append(open.out, WireByte(open.marker, b)) \in Seq(NonZero)
      BY <1>3, <1>5, AppendProperties
<1>8. QED
      BY <1>2, <1>4, <1>6, <1>7 DEF WriterState

\* The recursive definition of Writer, unfolded.
LEMMA WriterIs ==
  ASSUME NEW m \in Seq(Nat)
  PROVE  /\ Writer(m) \in [0 .. Len(m) -> WriterState]
         /\ Writer(m)[0] = NewWriter
         /\ \A n \in 1 .. Len(m) : Writer(m)[n] = AfterByte(Writer(m)[n - 1], m[n])
<1> DEFINE N == Len(m)
           link == [n \in 1 .. N |-> n - 1]
           step == [n \in 1 .. N |-> [w \in WriterState |-> AfterByte(w, m[n])]]
<1>1. N \in Nat /\ \A n \in 1 .. N : m[n] \in Nat
      BY LenProperties, ElementOfSeq
<1>2. Backward(link, N)
      BY <1>1 DEF Backward
<1>3. StepsIn(step, N, WriterState)
      BY <1>1, AfterByteType DEF StepsIn
<1>4. NewWriter \in WriterState
      BY NewWriterType
<1>5. PICK f : Recursive(f, N, WriterState, NewWriter, link, step)
  <2> HIDE DEF N, link, step
  <2>1. QED
        BY <1>1, <1>2, <1>3, <1>4, RecursiveFunction
<1>6. f = [n \in 0 .. N |-> IF n = 0 THEN NewWriter ELSE AfterByte(f[n - 1], m[n])]
  <2>1. ASSUME NEW n \in 1 .. N PROVE f[n] = AfterByte(f[n - 1], m[n])
    <3>1. n - 1 \in 0 .. N /\ link[n] = n - 1
          BY <1>1
    <3>2. f[n - 1] \in WriterState
          BY <1>5, <3>1 DEF Recursive
    <3>3. step[n][f[n - 1]] = AfterByte(f[n - 1], m[n])
          BY <3>2
    <3> HIDE DEF step, link
    <3>4. QED
          BY <1>5, <3>1, <3>3 DEF Recursive
  <2> HIDE DEF step, link
  <2>2. QED
        BY <1>1, <1>5, <2>1 DEF Recursive
<1>7. Writer(m) = [n \in 0 .. N |-> IF n = 0 THEN NewWriter
                                   ELSE AfterByte(Writer(m)[n - 1], m[n])]
      BY <1>6 DEF Writer
<1>8. Writer(m)[0] = NewWriter
      BY <1>1, <1>7
<1>9. \A n \in 1 .. N : Writer(m)[n] = AfterByte(Writer(m)[n - 1], m[n])
  <2> DEFINE w == Writer(m)
  <2>1. w = [n \in 0 .. N |-> IF n = 0 THEN NewWriter ELSE AfterByte(w[n - 1], m[n])]
        BY <1>7
  <2> HIDE DEF w
  <2>2. \A n \in 1 .. N : n \in 0 .. N /\ n # 0
        BY <1>1
  <2>3. \A n \in 1 .. N : w[n] = AfterByte(w[n - 1], m[n])
        BY <2>1, <2>2, SMTT(30)
  <2>4. QED
        BY <2>3 DEF w
<1>10. Writer(m) \in [0 .. N -> WriterState]
  <2> DEFINE K == {n \in Nat : n <= N => Writer(m)[n] \in WriterState}
  <2>1. 0 \in K
        BY <1>4, <1>8
  <2>2. ASSUME NEW n \in Nat, n \in K PROVE n + 1 \in K
    <3>1. SUFFICES ASSUME n + 1 <= N PROVE Writer(m)[n + 1] \in WriterState
          OBVIOUS
    <3>2. Writer(m)[n] \in WriterState /\ n + 1 \in 1 .. N /\ (n + 1) - 1 = n
          BY <1>1, <2>2, <3>1
    <3>3. Writer(m)[n + 1] = AfterByte(Writer(m)[n], m[n + 1])
          BY <1>9, <3>2
    <3>4. QED
          BY <1>1, <3>2, <3>3, AfterByteType
  <2>3. Nat \subseteq K
    <3> HIDE DEF K
    <3>1. QED
          BY <2>1, <2>2, Induction
  <2>4. \A n \in 0 .. N : Writer(m)[n] \in WriterState
        BY <1>1, <2>3
  <2>5. QED
        BY <1>7, <2>4
<1>11. QED
       BY <1>8, <1>9, <1>10
-----------------------------------------------------------------------------
(* The decoder, one marker at a time. *)

\* Where the marker at n leads, or 0 when it leads out of the frame.
Link(s) == [n \in 1 .. Len(s) |-> IF s[n] \in 1 .. n THEN n - s[n] ELSE 0]

LEMMA LinkIs ==
  ASSUME NEW s \in Seq(Nat)
  PROVE  /\ Len(s) \in Nat
         /\ \A n \in 1 .. Len(s) : s[n] \in Nat
         /\ Backward(Link(s), Len(s))
<1>1. Len(s) \in Nat /\ \A n \in 1 .. Len(s) : s[n] \in Nat
      BY LenProperties, ElementOfSeq
<1>2. QED
      BY <1>1 DEF Link, Backward

\* The recursive definition of Chain, unfolded.
LEMMA ChainIs ==
  ASSUME NEW s \in Seq(Nat)
  PROVE  /\ Chain(s) \in [0 .. Len(s) -> BOOLEAN]
         /\ Chain(s)[0]
         /\ \A n \in 1 .. Len(s) :
              Chain(s)[n] <=> s[n] \in 1 .. n /\ Chain(s)[n - s[n]]
<1> DEFINE N == Len(s)
           link == Link(s)
           step == [n \in 1 .. N |-> [b \in BOOLEAN |-> s[n] \in 1 .. n /\ b]]
<1>1. /\ N \in Nat /\ \A n \in 1 .. N : s[n] \in Nat
      /\ Backward(link, N)
      BY LinkIs
<1>2. StepsIn(step, N, BOOLEAN)
      BY DEF StepsIn
<1>3. PICK f : Recursive(f, N, BOOLEAN, TRUE, link, step)
  <2> HIDE DEF N, link, step
  <2>1. QED
        BY <1>1, <1>2, RecursiveFunction
<1>4. f = [n \in 0 .. N |-> n = 0 \/ (s[n] \in 1 .. n /\ f[n - s[n]])]
  <2>1. f \in [0 .. N -> BOOLEAN] /\ f[0] = TRUE
        BY <1>3 DEF Recursive
  <2>2. ASSUME NEW n \in 1 .. N
        PROVE  f[n] = (s[n] \in 1 .. n /\ f[n - s[n]])
    <3>1. link[n] \in 0 .. N /\ f[link[n]] \in BOOLEAN
      <4>1. link[n] \in 0 .. N
            BY <1>1 DEF Backward
      <4>2. QED
            BY <2>1, <4>1
    <3>2. f[n] = step[n][f[link[n]]]
          BY <1>3 DEF Recursive
    <3>3. f[n] = (s[n] \in 1 .. n /\ f[link[n]])
          BY <3>1, <3>2
    <3>4. CASE s[n] \in 1 .. n
      <4>1. link[n] = n - s[n]
            BY <3>4 DEF Link
      <4>2. QED
            BY <3>3, <4>1
    <3>5. CASE s[n] \notin 1 .. n
          BY <3>3, <3>5
    <3>6. QED
          BY <3>4, <3>5
  <2> HIDE DEF link, step
  <2>3. ASSUME NEW n \in 0 .. N
        PROVE  f[n] = (n = 0 \/ (s[n] \in 1 .. n /\ f[n - s[n]]))
    <3>1. CASE n = 0
          BY <2>1, <3>1
    <3>2. CASE n # 0
      <4>1. n \in 1 .. N
            BY <3>2
      <4>2. QED
            BY <2>2, <3>2, <4>1
    <3>3. QED
          BY <3>1, <3>2
  <2>4. QED
        BY <2>1, <2>3
<1>5. Chain(s) = [n \in 0 .. N |-> n = 0 \/ (s[n] \in 1 .. n /\ Chain(s)[n - s[n]])]
      BY <1>4 DEF Chain
<1>6. QED
      BY <1>1, <1>5

\* The bytes a marker closes, and what it stands for, are bytes.
LEMMA RunIs ==
  ASSUME NEW s \in Seq(Nat), NEW n \in 1 .. Len(s), s[n] \in 1 .. n
  PROVE  /\ Run(s, n) \in Seq(Nat)
         /\ Len(Run(s, n)) = s[n] - 1
         /\ \A i \in 1 .. s[n] - 1 : Run(s, n)[i] = s[n - s[n] + i]
<1> DEFINE first == n - s[n] + 1
<1>1. /\ Len(s) \in Nat /\ s[n] \in Nat /\ first \in Int /\ n - 1 \in Int
      /\ \A i \in first .. n - 1 : s[i] \in Nat
      BY LinkIs
<1>2. Run(s, n) = SubSeq(s, first, n - 1)
      BY DEF Run
<1>3. /\ (n - 1) - first + 1 = s[n] - 1
      /\ first <= n - 1 <=> 1 <= s[n] - 1
      /\ \A i \in Int : first + i - 1 = n - s[n] + i
  <2>1. n \in Int /\ s[n] \in Int
        BY <1>1
  <2>2. \A k, l, i \in Int :
          /\ (k - 1) - (k - l + 1) + 1 = l - 1
          /\ k - l + 1 <= k - 1 <=> 1 <= l - 1
          /\ (k - l + 1) + i - 1 = k - l + i
        OBVIOUS
  <2>3. QED
        BY <2>1, <2>2
<1>4. s[n] - 1 = IF 1 <= s[n] - 1 THEN s[n] - 1 ELSE 0
      BY <1>1
<1> DEFINE last == n - 1
           len == s[n] - 1
<1>5. /\ first \in Int /\ last \in Int /\ \A i \in first .. last : s[i] \in Nat
      /\ last - first + 1 = len /\ (first <= last <=> 1 <= len)
      /\ len = IF 1 <= len THEN len ELSE 0
      BY <1>1, <1>3, <1>4
<1>6. Run(s, n) = SubSeq(s, first, last)
      BY <1>2
<1>7. \A i \in Int : first + i - 1 = n - s[n] + i
      BY <1>3
<1> HIDE DEF first, last, len
<1>8. /\ SubSeq(s, first, last) \in Seq(Nat)
      /\ Len(SubSeq(s, first, last)) = IF first <= last THEN last - first + 1 ELSE 0
      /\ \A i \in 1 .. last - first + 1 : SubSeq(s, first, last)[i] = s[first + i - 1]
      BY <1>5, SubSeqProperties
<1>9. Len(Run(s, n)) = len
      BY <1>5, <1>6, <1>8
<1>10. \A i \in 1 .. len : Run(s, n)[i] = s[n - s[n] + i]
  <2>1. \A i \in 1 .. len : SubSeq(s, first, last)[i] = s[first + i - 1]
        BY <1>5, <1>8
  <2>2. SUFFICES ASSUME NEW i \in 1 .. len PROVE Run(s, n)[i] = s[n - s[n] + i]
        OBVIOUS
  <2>3. first + i - 1 = n - s[n] + i
        BY <1>7
  <2>4. QED
        BY <1>6, <2>1, <2>3
<1>11. QED
      BY <1>6, <1>8, <1>9, <1>10 DEF len

LEMMA ImpliedZeroType == \A marker : ImpliedZero(marker) \in Seq(Nat)
BY EmptySeq DEF ImpliedZero

\* The recursive definition of UpTo, unfolded.
LEMMA UpToIs ==
  ASSUME NEW s \in Seq(Nat)
  PROVE  /\ UpTo(s) \in [0 .. Len(s) -> Seq(Nat)]
         /\ UpTo(s)[0] = << >>
         /\ \A n \in 1 .. Len(s) : s[n] \in 1 .. n =>
              UpTo(s)[n] = UpTo(s)[n - s[n]] \o Run(s, n) \o ImpliedZero(s[n])
<1> DEFINE N == Len(s)
           link == Link(s)
           At(n, u) == IF s[n] \notin 1 .. n THEN << >>
                       ELSE u \o Run(s, n) \o ImpliedZero(s[n])
           step == [n \in 1 .. N |-> [u \in Seq(Nat) |-> At(n, u)]]
<1>1. /\ N \in Nat /\ \A n \in 1 .. N : s[n] \in Nat
      /\ Backward(link, N)
      BY LinkIs
<1>2. ASSUME NEW n \in 1 .. N, NEW u \in Seq(Nat) PROVE At(n, u) \in Seq(Nat)
  <2>1. CASE s[n] \notin 1 .. n
        BY <2>1, EmptySeq
  <2>2. CASE s[n] \in 1 .. n
    <3>1. Run(s, n) \in Seq(Nat) /\ ImpliedZero(s[n]) \in Seq(Nat)
          BY <2>2, RunIs, ImpliedZeroType
    <3>2. u \o Run(s, n) \o ImpliedZero(s[n]) \in Seq(Nat)
          BY <3>1, ConcatProperties
    <3>3. QED
          BY <2>2, <3>2
  <2>3. QED
        BY <2>1, <2>2
<1>3. StepsIn(step, N, Seq(Nat))
  <2> HIDE DEF At
  <2>1. QED
        BY <1>2 DEF StepsIn
<1>4. << >> \in Seq(Nat)
      BY EmptySeq
<1>5. PICK f : Recursive(f, N, Seq(Nat), << >>, link, step)
  <2> HIDE DEF N, link, step
  <2>1. QED
        BY <1>1, <1>3, <1>4, RecursiveFunction
<1>6. f \in [0 .. N -> Seq(Nat)] /\ f[0] = << >>
      BY <1>5 DEF Recursive
<1>7. ASSUME NEW n \in 1 .. N PROVE f[n] = At(n, f[n - s[n]])
  <2>1. link[n] \in 0 .. N
        BY <1>1 DEF Backward
  <2>2. f[n] = step[n][f[link[n]]]
        BY <1>5 DEF Recursive
  <2>3. f[link[n]] \in Seq(Nat)
        BY <1>6, <2>1
  <2>4. f[n] = At(n, f[link[n]])
    <3> HIDE DEF At, link
    <3>1. QED
          BY <2>2, <2>3
  <2>5. CASE s[n] \in 1 .. n
    <3>1. link[n] = n - s[n]
          BY <2>5 DEF Link
    <3> HIDE DEF At, link
    <3>2. QED
          BY <2>4, <3>1
  <2>6. CASE s[n] \notin 1 .. n
        BY <2>4, <2>6
  <2>7. QED
        BY <2>5, <2>6
<1>8. f = [n \in 0 .. N |-> IF n = 0 \/ s[n] \notin 1 .. n THEN << >>
                           ELSE f[n - s[n]] \o Run(s, n) \o ImpliedZero(s[n])]
  <2>1. ASSUME NEW n \in 0 .. N
        PROVE  f[n] = IF n = 0 \/ s[n] \notin 1 .. n THEN << >>
                      ELSE f[n - s[n]] \o Run(s, n) \o ImpliedZero(s[n])
    <3>1. CASE n = 0
          BY <1>6, <3>1
    <3>2. CASE n # 0
      <4>1. n \in 1 .. N
            BY <3>2
      <4>2. QED
            BY <1>7, <3>2, <4>1
    <3>3. QED
          BY <3>1, <3>2
  <2> HIDE DEF link, step
  <2>2. QED
        BY <1>6, <2>1
<1>9. UpTo(s) = [n \in 0 .. N |-> IF n = 0 \/ s[n] \notin 1 .. n THEN << >>
                 ELSE UpTo(s)[n - s[n]] \o Run(s, n) \o ImpliedZero(s[n])]
      BY <1>8 DEF UpTo
<1>10. UpTo(s)[0] = << >> /\ \A n \in 1 .. N : UpTo(s)[n] = At(n, UpTo(s)[n - s[n]])
       BY <1>1, <1>9
<1>11. UpTo(s) \in [0 .. N -> Seq(Nat)]
  <2> DEFINE K == {n \in Nat : n <= N => UpTo(s)[n] \in Seq(Nat)}
  <2> HIDE DEF link, step
  <2>1. ASSUME NEW n \in Nat, 0 .. n - 1 \subseteq K PROVE n \in K
    <3>1. SUFFICES ASSUME n <= N PROVE UpTo(s)[n] \in Seq(Nat)
          OBVIOUS
    <3>2. CASE n = 0
          BY <1>4, <1>10, <3>2
    <3>3. CASE n # 0 /\ s[n] \in 1 .. n
      <4>1. n \in 1 .. N /\ n - s[n] \in 0 .. n - 1 /\ n - s[n] <= N
            BY <1>1, <3>1, <3>3
      <4>2. UpTo(s)[n - s[n]] \in Seq(Nat)
            BY <2>1, <4>1
      <4> HIDE DEF At, K
      <4>3. At(n, UpTo(s)[n - s[n]]) \in Seq(Nat)
            BY <1>2, <4>1, <4>2
      <4>4. QED
            BY <1>10, <4>1, <4>3
    <3>4. CASE n # 0 /\ s[n] \notin 1 .. n
      <4>1. n \in 1 .. N
            BY <1>1, <3>1, <3>4
      <4>2. QED
            BY <1>4, <1>10, <3>4, <4>1
    <3>5. QED
          BY <3>2, <3>3, <3>4
  <2>2. Nat \subseteq K
    <3> HIDE DEF K
    <3>1. QED
          BY <2>1, StrongInduction
  <2>3. \A n \in 0 .. N : UpTo(s)[n] \in Seq(Nat)
        BY <1>1, <2>2
  <2>4. QED
        BY <1>9, <2>3
<1>12. QED
       BY <1>10, <1>11
-----------------------------------------------------------------------------
(* What a frame says up to a marker does not depend on what comes after. *)

IsPrefixOf(s, t) == Len(s) <= Len(t) /\ \A i \in 1 .. Len(s) : t[i] = s[i]

LEMMA BytesAssociative ==
  ASSUME NEW s \in Seq(Nat), NEW t \in Seq(Nat), NEW u \in Seq(Nat)
  PROVE  (s \o t) \o u = s \o (t \o u)
BY ConcatAssociative, SMTT(30)

LEMMA AppendPrefix ==
  ASSUME NEW S, NEW s \in Seq(S), NEW b \in S
  PROVE  IsPrefixOf(s, Append(s, b))
BY AppendProperties, LenProperties DEF IsPrefixOf

LEMMA SubSeqPrefix ==
  ASSUME NEW s \in Seq(Nat), NEW t \in Seq(Nat), IsPrefixOf(s, t),
         NEW i \in 1 .. Len(s) + 1, NEW j \in 0 .. Len(s)
  PROVE  SubSeq(t, i, j) = SubSeq(s, i, j)
<1>1. /\ Len(s) \in Nat /\ Len(t) \in Nat /\ i \in Int /\ j \in Int
      /\ \A k \in i .. j : s[k] \in Nat /\ t[k] \in Nat /\ t[k] = s[k]
  <2>1. /\ Len(s) \in Nat /\ Len(t) \in Nat
        /\ \A k \in 1 .. Len(s) : s[k] \in Nat
        BY LinkIs
  <2>2. \A k \in 1 .. Len(s) : t[k] = s[k]
        BY DEF IsPrefixOf
  <2>3. \A k \in i .. j : k \in 1 .. Len(s)
        BY <2>1
  <2>4. QED
        BY <2>1, <2>2, <2>3
<1>2. /\ SubSeq(s, i, j) \in Seq(Nat)
      /\ Len(SubSeq(s, i, j)) = IF i <= j THEN j - i + 1 ELSE 0
      /\ \A k \in 1 .. j - i + 1 : SubSeq(s, i, j)[k] = s[i + k - 1]
      BY <1>1, SubSeqProperties
<1>3. /\ SubSeq(t, i, j) \in Seq(Nat)
      /\ Len(SubSeq(t, i, j)) = IF i <= j THEN j - i + 1 ELSE 0
      /\ \A k \in 1 .. j - i + 1 : SubSeq(t, i, j)[k] = t[i + k - 1]
      BY <1>1, SubSeqProperties
<1>4. ASSUME NEW k \in 1 .. Len(SubSeq(s, i, j))
      PROVE  SubSeq(s, i, j)[k] = SubSeq(t, i, j)[k]
  <2>1. k \in 1 .. j - i + 1 /\ i + k - 1 \in i .. j
        BY <1>1, <1>2
  <2>2. QED
        BY <1>1, <1>2, <1>3, <2>1
<1>5. Len(SubSeq(s, i, j)) = Len(SubSeq(t, i, j))
      BY <1>2, <1>3
<1>6. QED
      BY <1>2, <1>3, <1>4, <1>5, SeqEqual

LEMMA PrefixDecides ==
  ASSUME NEW s \in Seq(Nat), NEW t \in Seq(Nat), IsPrefixOf(s, t)
  PROVE  \A n \in 0 .. Len(s) :
           Chain(s)[n] => Chain(t)[n] /\ UpTo(t)[n] = UpTo(s)[n]
<1> DEFINE Same(n) == Chain(s)[n] => Chain(t)[n] /\ UpTo(t)[n] = UpTo(s)[n]
           K == {n \in Nat : n <= Len(s) => Same(n)}
<1>1. /\ Len(s) \in Nat /\ Len(t) \in Nat /\ Len(s) <= Len(t)
      /\ \A n \in 1 .. Len(s) : s[n] \in Nat /\ t[n] = s[n] /\ n \in 1 .. Len(t)
      BY LinkIs DEF IsPrefixOf
<1>2. ASSUME NEW n \in Nat, 0 .. n - 1 \subseteq K PROVE n \in K
  <2>1. SUFFICES ASSUME n <= Len(s), Chain(s)[n]
                 PROVE  Chain(t)[n] /\ UpTo(t)[n] = UpTo(s)[n]
        OBVIOUS
  <2>2. CASE n = 0
        BY <2>2, ChainIs, UpToIs
  <2>3. CASE n # 0
    <3>1. /\ n \in 1 .. Len(s) /\ n \in 1 .. Len(t)
          /\ s[n] \in Nat /\ t[n] = s[n]
          BY <1>1, <2>1, <2>3
    <3>2. s[n] \in 1 .. n /\ Chain(s)[n - s[n]]
          BY <2>1, <3>1, ChainIs
    <3>3. n - s[n] \in 0 .. n - 1 /\ n - s[n] <= Len(s)
          BY <2>1, <1>1, <3>1, <3>2, SMTT(30)
    <3>4. Chain(t)[n - s[n]] /\ UpTo(t)[n - s[n]] = UpTo(s)[n - s[n]]
          BY <1>2, <3>2, <3>3
    <3> HIDE DEF K
    <3>5. Chain(t)[n]
          BY <3>1, <3>2, <3>4, ChainIs
    <3>6. Run(t, n) = Run(s, n)
      <4> DEFINE x == n - s[n]
      <4>1. x \in 0 .. n - 1 /\ x <= Len(s)
            BY <3>3
      <4> HIDE DEF x
      <4>2. x + 1 \in 1 .. Len(s) + 1
            BY <1>1, <4>1
      <4>3. n - 1 \in 0 .. Len(s)
            BY <1>1, <3>1
      <4>4. SubSeq(t, x + 1, n - 1) = SubSeq(s, x + 1, n - 1)
            BY <4>2, <4>3, SubSeqPrefix
      <4>5. QED
            BY <3>1, <4>4 DEF Run, x
    <3>7. /\ UpTo(s)[n] = UpTo(s)[n - s[n]] \o Run(s, n) \o ImpliedZero(s[n])
          /\ UpTo(t)[n] = UpTo(t)[n - t[n]] \o Run(t, n) \o ImpliedZero(t[n])
          BY <3>1, <3>2, UpToIs
    <3>8. QED
          BY <3>1, <3>4, <3>5, <3>6, <3>7
  <2>4. QED
        BY <2>2, <2>3
<1>3. Nat \subseteq K
  <2> HIDE DEF K
  <2>1. QED
        BY <1>2, StrongInduction
<1>4. QED
      BY <1>1, <1>3
-----------------------------------------------------------------------------
(* What a SerialWriter has sent stands for what it was given. *)

\* A writer that has sent `out` and counts `marker` was given m: the last
\* marker - 1 bytes are the run it is in, the ones before are a chain.
Sent(out, marker, m) ==
  \E base \in 0 .. Len(out) :
    /\ base + marker = Len(out) + 1
    /\ Chain(out)[base]
    /\ m = UpTo(out)[base] \o SubSeq(out, base + 1, Len(out))

\* t is what it has sent once it has sent its marker.
Closed(t, out, marker, m) ==
  /\ t \in Seq(Nat) /\ t = Append(out, marker)
  /\ Len(t) = Len(out) + 1 /\ t[Len(t)] = marker
  /\ Chain(t)[Len(t)]
  /\ UpTo(t)[Len(t) - marker] \o Run(t, Len(t)) = m
  /\ UpTo(t)[Len(t)] = m \o ImpliedZero(marker)

\* The marker it counts, sent, continues the chain and stands for that message.
LEMMA MarkerCloses ==
  ASSUME NEW out \in Seq(Nat), NEW k \in 1 .. MaxMarker,
         NEW m \in Seq(Nat), Sent(out, k, m)
  PROVE  \E t : Closed(t, out, k, m)
<1> DEFINE L == Len(out)
<1>t. PICK t : t = Append(out, k)
      OBVIOUS
<1>b. PICK base \in 0 .. L :
        /\ base + k = L + 1 /\ Chain(out)[base]
        /\ m = UpTo(out)[base] \o SubSeq(out, base + 1, L)
      BY DEF Sent
<1>1. L \in Nat /\ k \in Nat /\ base \in 0 .. L
      BY MaxMarkerAssumption, LenProperties
<1>2. t \in Seq(Nat) /\ Len(t) = L + 1 /\ t[L + 1] = k
      BY <1>t, <1>1, AppendProperties
<1>3. IsPrefixOf(out, t)
      BY <1>t, <1>1, AppendPrefix
<1>4. Chain(t)[base] /\ UpTo(t)[base] = UpTo(out)[base]
      BY <1>b, <1>2, <1>3, PrefixDecides
<1>5. /\ L + 1 \in 1 .. Len(t) /\ k \in 1 .. L + 1 /\ (L + 1) - k = base
      /\ (L + 1) - 1 = L
      BY <1>b, <1>1, <1>2
<1>6. Run(t, L + 1) = SubSeq(out, base + 1, L)
  <2>1. Run(t, L + 1) = SubSeq(t, base + 1, L)
        BY <1>2, <1>5 DEF Run
  <2>2. base + 1 \in 1 .. Len(out) + 1 /\ L \in 0 .. Len(out)
        BY <1>1
  <2>3. QED
        BY <1>2, <1>3, <2>1, <2>2, SubSeqPrefix
<1> HIDE DEF L
<1>7. Chain(t)[L + 1]
  <2>1. t[L + 1] \in 1 .. L + 1 /\ Chain(t)[(L + 1) - t[L + 1]]
        BY <1>2, <1>4, <1>5
  <2>2. QED
        BY <1>2, <1>5, <2>1, ChainIs
<1>8. UpTo(t)[L + 1] = UpTo(t)[base] \o Run(t, L + 1) \o ImpliedZero(k)
      BY <1>2, <1>5, UpToIs
<1>9. UpTo(t)[base] \o Run(t, L + 1) = m
      BY <1>b, <1>4, <1>6
<1>10. UpTo(t)[L + 1] = m \o ImpliedZero(k)
      BY <1>8, <1>9
<1>11. QED
      BY <1>t, <1>2, <1>5, <1>7, <1>9, <1>10 DEF L, Closed

\* ... so that the writer starts a new run after it.
LEMMA NewRun ==
  ASSUME NEW out \in Seq(Nat), NEW k \in 1 .. MaxMarker,
         NEW m \in Seq(Nat), Sent(out, k, m)
  PROVE  Sent(Append(out, k), 1, m \o ImpliedZero(k))
<1>c. PICK t : Closed(t, out, k, m)
      BY MarkerCloses
<1>1. /\ t \in Seq(Nat) /\ t = Append(out, k)
      /\ Chain(t)[Len(t)]
      /\ UpTo(t)[Len(t)] = m \o ImpliedZero(k)
      BY <1>c DEF Closed
<1>2. Len(t) \in 0 .. Len(t) /\ Len(t) < Len(t) + 1
      BY <1>1, LenProperties
<1>3. SubSeq(t, Len(t) + 1, Len(t)) = << >>
      BY <1>2, SubSeqEmpty
<1>4. m \o ImpliedZero(k) \in Seq(Nat)
      BY ImpliedZeroType, ConcatProperties
<1>5. m \o ImpliedZero(k) = UpTo(t)[Len(t)] \o SubSeq(t, Len(t) + 1, Len(t))
      BY <1>1, <1>3, <1>4, ConcatEmptySeq
<1>6. QED
      BY <1>1, <1>2, <1>5 DEF Sent

\* A byte other than 0 lengthens the run.
LEMMA LongerRun ==
  ASSUME NEW out \in Seq(Nat), NEW k \in 1 .. MaxMarker,
         NEW m \in Seq(Nat), Sent(out, k, m), NEW b \in Nat
  PROVE  Sent(Append(out, b), k + 1, Append(m, b))
<1> DEFINE L == Len(out)
<1>b. PICK base \in 0 .. L :
        /\ base + k = L + 1 /\ Chain(out)[base]
        /\ m = UpTo(out)[base] \o SubSeq(out, base + 1, L)
      BY DEF Sent
<1>t. PICK t : t = Append(out, b)
      OBVIOUS
<1>1. L \in Nat /\ k \in Nat /\ base \in 0 .. L
      BY MaxMarkerAssumption, LenProperties
<1>2. t \in Seq(Nat) /\ Len(t) = L + 1 /\ t[L + 1] = b
      BY <1>t, <1>1, AppendProperties
<1>3. IsPrefixOf(out, t)
      BY <1>t, <1>1, AppendPrefix
<1>4. /\ base \in 0 .. Len(t) /\ base + (k + 1) = Len(t) + 1
      /\ base + 1 \in 1 .. L + 1 /\ L \in 0 .. L /\ (L + 1) - 1 = L
      /\ base + 1 \in 1 .. Len(t) /\ L + 1 \in base + 1 .. Len(t)
      BY <1>b, <1>1, <1>2
<1>5. Chain(t)[base] /\ UpTo(t)[base] = UpTo(out)[base]
      BY <1>b, <1>2, <1>3, PrefixDecides
<1>6. UpTo(t)[base] \in Seq(Nat)
      BY <1>2, <1>4, UpToIs
<1>7. SubSeq(t, base + 1, L) = SubSeq(out, base + 1, L)
      BY <1>2, <1>3, <1>4, SubSeqPrefix
<1>8. SubSeq(t, base + 1, L + 1) = SubSeq(t, base + 1, L) \o <<b>>
      BY <1>2, <1>4, SubSeqRecursiveSecond
<1> DEFINE run == SubSeq(t, base + 1, L)
<1>9. run \in Seq(Nat)
  <2>1. \A i \in base + 1 .. L : t[i] \in Nat
    <3>1. \A i \in base + 1 .. L : i \in 1 .. Len(t)
          BY <1>1, <1>2
    <3>2. QED
          BY <1>2, <3>1, LinkIs
  <2>2. base + 1 \in Int /\ L \in Int
        BY <1>1
  <2> HIDE DEF L
  <2>3. QED
        BY <2>1, <2>2, SubSeqProperties
<1>10. m = UpTo(t)[base] \o run
      BY <1>b, <1>5, <1>7
<1>11. Append(m, b) = m \o <<b>> /\ <<b>> \in Seq(Nat)
      BY AppendIsConcat
<1> HIDE DEF run
<1>12. (UpTo(t)[base] \o run) \o <<b>> = UpTo(t)[base] \o (run \o <<b>>)
      BY <1>6, <1>9, <1>11, BytesAssociative
<1>13. Append(m, b) = UpTo(t)[base] \o SubSeq(t, base + 1, Len(t))
      BY <1>2, <1>8, <1>10, <1>11, <1>12 DEF run
<1>14. QED
      BY <1>t, <1>4, <1>5, <1>13 DEF Sent

LEMMA AfterByteSent ==
  ASSUME NEW w \in WriterState, NEW m \in Seq(Nat), Sent(w.out, w.marker, m),
         NEW b \in Nat
  PROVE  LET v == AfterByte(w, b) IN Sent(v.out, v.marker, Append(m, b))
<1>1. PICK open \in WriterState : open = CloseFull(w)
      BY AfterByteType
<1>2. /\ open.out \in Seq(NonZero) /\ open.out \in Seq(Nat)
      /\ open.marker \in 1 .. MaxMarker /\ open.marker # MaxMarker
  <2>1. /\ open.out \in Seq(NonZero) /\ open.marker \in 1 .. MaxMarker
        /\ open.marker # MaxMarker
        BY <1>1, AfterByteType DEF WriterState
  <2>2. open.out \in Seq(Nat)
        BY <2>1, SeqMonotonic DEF NonZero
  <2>3. QED
        BY <2>1, <2>2
<1>3. Sent(open.out, open.marker, m)
  <2>1. CASE w.marker = MaxMarker
    <3>1. open.out = Append(w.out, MaxMarker) /\ open.marker = 1
          BY <1>1, <2>1 DEF CloseFull
    <3>2. w.out \in Seq(Nat) /\ MaxMarker \in 1 .. MaxMarker
      <4>1. w.out \in Seq(NonZero)
            BY DEF WriterState
      <4>2. QED
            BY <4>1, SeqMonotonic, MaxMarkerAssumption DEF NonZero
    <3>3. Sent(w.out, MaxMarker, m)
          BY <2>1
    <3>4. Sent(Append(w.out, MaxMarker), 1, m \o ImpliedZero(MaxMarker))
          BY <3>2, <3>3, NewRun
    <3>5. m \o ImpliedZero(MaxMarker) = m
          BY ConcatEmptySeq DEF ImpliedZero
    <3>6. QED
          BY <3>1, <3>4, <3>5
  <2>2. CASE w.marker # MaxMarker
        BY <1>1, <2>2 DEF CloseFull
  <2>3. QED
        BY <2>1, <2>2
<1>4. /\ AfterByte(w, b).out = Append(open.out, WireByte(open.marker, b))
      /\ AfterByte(w, b).marker = NextMarker(open.marker, b)
      BY <1>1 DEF AfterByte
<1>5. CASE b = 0
  <2>1. ImpliedZero(open.marker) = <<0>>
        BY <1>2 DEF ImpliedZero
  <2>2. Append(m, b) = m \o <<0>>
        BY <1>5, AppendIsConcat
  <2>3. Sent(Append(open.out, open.marker), 1, m \o ImpliedZero(open.marker))
        BY <1>2, <1>3, NewRun
  <2>4. WireByte(open.marker, b) = open.marker /\ NextMarker(open.marker, b) = 1
        BY <1>5 DEF WireByte, NextMarker
  <2>5. QED
        BY <1>4, <2>1, <2>2, <2>3, <2>4
<1>6. CASE b # 0
  <2>1. Sent(Append(open.out, b), open.marker + 1, Append(m, b))
        BY <1>2, <1>3, LongerRun
  <2>2. WireByte(open.marker, b) = b /\ NextMarker(open.marker, b) = open.marker + 1
        BY <1>6 DEF WireByte, NextMarker
  <2>3. QED
        BY <1>4, <2>1, <2>2
<1>7. QED
      BY <1>5, <1>6

LEMMA WriterSent ==
  ASSUME NEW m \in Seq(Nat)
  PROVE  \A n \in 0 .. Len(m) :
           Sent(Writer(m)[n].out, Writer(m)[n].marker, SubSeq(m, 1, n))
<1> DEFINE OK(n) == Sent(Writer(m)[n].out, Writer(m)[n].marker, SubSeq(m, 1, n))
           K == {n \in Nat : n <= Len(m) => OK(n)}
<1>1. Len(m) \in Nat
      BY LenProperties
<1>2. 0 \in K
  <2>1. Writer(m)[0].out = << >> /\ Writer(m)[0].marker = 1
        BY WriterIs DEF NewWriter
  <2>2. SubSeq(m, 1, 0) = << >>
        BY SubSeqEmpty
  <2>3. << >> \in Seq(Nat) /\ Len(<< >>) = 0
        BY EmptySeq
  <2>4. Chain(<< >>)[0] /\ UpTo(<< >>)[0] = << >>
        BY <2>3, ChainIs, UpToIs
  <2>5. SubSeq(<< >>, 1, 0) = << >>
        BY SubSeqEmpty
  <2>6. << >> \o << >> = << >>
        BY <2>3, ConcatEmptySeq
  <2>7. << >> = UpTo(<< >>)[0] \o SubSeq(<< >>, 0 + 1, Len(<< >>))
        BY <2>3, <2>4, <2>5, <2>6
  <2>8. Sent(<< >>, 1, << >>)
    <3>1. PICK e \in Seq(Nat) : e = << >>
          BY <2>3
    <3>2. /\ Len(e) = 0 /\ Chain(e)[0]
          /\ e = UpTo(e)[0] \o SubSeq(e, 0 + 1, Len(e))
          BY <2>3, <2>4, <2>7, <3>1
    <3>3. Sent(e, 1, e)
          BY <3>2 DEF Sent
    <3>4. QED
          BY <3>1, <3>3
  <2>9. QED
        BY <2>1, <2>2, <2>8
<1>3. ASSUME NEW n \in Nat, n \in K PROVE n + 1 \in K
  <2>1. SUFFICES ASSUME n + 1 <= Len(m) PROVE OK(n + 1)
        OBVIOUS
  <2>2. /\ n \in 0 .. Len(m) /\ n + 1 \in 1 .. Len(m) /\ (n + 1) - 1 = n
        /\ 1 \in 1 .. Len(m) /\ n + 1 \in 1 .. Len(m)
        BY <1>1, <2>1
  <2>3. OK(n)
        BY <1>3, <2>2
  <2>4. /\ Writer(m)[n] \in WriterState
        /\ Writer(m)[n + 1] = AfterByte(Writer(m)[n], m[n + 1])
        BY <2>2, WriterIs
  <2>5. m[n + 1] \in Nat /\ SubSeq(m, 1, n) \in Seq(Nat)
    <3>1. \A i \in 1 .. n : i \in 1 .. Len(m)
          BY <1>1, <2>2
    <3>2. \A i \in 1 .. Len(m) : m[i] \in Nat
          BY ElementOfSeq
    <3>3. 1 \in Int /\ n \in Int /\ \A i \in 1 .. n : m[i] \in Nat
          BY <3>1, <3>2
    <3>4. QED
          BY <2>2, <3>2, <3>3, SubSeqProperties
  <2>6. Append(SubSeq(m, 1, n), m[n + 1]) = SubSeq(m, 1, n + 1)
    <3>1. SubSeq(m, 1, n + 1) = SubSeq(m, 1, n) \o <<m[n + 1]>>
          BY <2>2, SubSeqRecursiveSecond
    <3>2. QED
          BY <2>5, <3>1, AppendIsConcat
  <2> HIDE DEF K
  <2>7. QED
        BY <2>3, <2>4, <2>5, <2>6, AfterByteSent
<1>4. Nat \subseteq K
  <2> HIDE DEF K
  <2>1. QED
        BY <1>2, <1>3, Induction
<1>5. QED
      BY <1>1, <1>4

(* Framing loses nothing: what a SerialWriter sends for a message has no 0 in
   it, is well formed, and is decoded to that message, whatever its zeros and
   the lengths of the runs between them. *)
THEOREM RoundTrip ==
  ASSUME NEW m \in Seq(Nat)
  PROVE  /\ Encode(m) \in Seq(Nat \ {0})
         /\ WellFormed(Encode(m))
         /\ Decode(Encode(m)) = m
<1> DEFINE done == Writer(m)[Len(m)]
<1>1. Len(m) \in Nat /\ SubSeq(m, 1, Len(m)) = m
      BY LenProperties, SubSeqFull
<1>2. done \in WriterState
      BY <1>1, WriterIs
<1>3. Sent(done.out, done.marker, m)
  <2>1. Len(m) \in 0 .. Len(m)
        BY <1>1
  <2>2. Sent(Writer(m)[Len(m)].out, Writer(m)[Len(m)].marker, SubSeq(m, 1, Len(m)))
        BY <2>1, WriterSent
  <2>3. QED
        BY <1>1, <2>2
<1>4. Encode(m) = Append(done.out, done.marker)
      BY DEF Encode
<1> HIDE DEF done
<1>5. /\ done.out \in Seq(NonZero) /\ done.out \in Seq(Nat)
      /\ done.marker \in 1 .. MaxMarker
  <2>1. done.out \in Seq(NonZero) /\ done.marker \in 1 .. MaxMarker
        BY <1>2 DEF WriterState
  <2>2. QED
        BY <2>1, SeqMonotonic DEF NonZero
<1>6. PICK t : Closed(t, done.out, done.marker, m)
      BY <1>3, <1>5, MarkerCloses
<1>7. /\ t \in Seq(Nat) /\ t = Encode(m)
      /\ Len(t) = Len(done.out) + 1 /\ t[Len(t)] = done.marker
      /\ Chain(t)[Len(t)]
      /\ UpTo(t)[Len(t) - t[Len(t)]] \o Run(t, Len(t)) = m
      BY <1>4, <1>6 DEF Closed
<1>8. Encode(m) \in Seq(Nat \ {0})
  <2>1. done.marker \in NonZero
        BY <1>5, MaxMarkerAssumption DEF NonZero
  <2>2. QED
        BY <1>4, <1>5, <2>1, AppendProperties DEF NonZero
<1>9. Len(t) > 0
  <2>1. Len(done.out) \in Nat
        BY <1>5, LenProperties
  <2>2. QED
        BY <1>7, <2>1
<1>10. WellFormed(t) /\ Decode(t) = m
       BY <1>7, <1>9 DEF WellFormed, Decode
<1>11. QED
       BY <1>7, <1>8, <1>10
=============================================================================
