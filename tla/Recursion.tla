------------------------------ MODULE Recursion ------------------------------
(***************************************************************************)
(* Induction on the natural numbers, and the recursive functions it        *)
(* justifies, stated with sets and functions in place of predicates and    *)
(* operators.  A definition f[n \in 0 .. N] == e is CHOOSE f : f = [n \in  *)
(* 0 .. N |-> e]: nothing is known of it until such an f is shown to exist.*)
(***************************************************************************)
EXTENDS Leb128, SequenceTheorems, WellFoundedInduction, TLAPS

\* The pairs of naturals in order.
NatLess == {p \in Nat \X Nat : p[1] < p[2]}

(* Course-of-values induction: a set that has n whenever it has all that is
   below n has every natural number. *)
THEOREM StrongInduction ==
  ASSUME NEW S, \A n \in Nat : 0 .. n - 1 \subseteq S => n \in S
  PROVE  Nat \subseteq S
<1> DEFINE T == Nat \ S
<1>1. IsWellFoundedOn(NatLess, Nat)
  <2>1. IsWellFoundedOn(OpToRel(<, Nat), Nat)
        BY NatLessThanWellFounded
  <2>2. OpToRel(<, Nat) = NatLess
        BY DEF OpToRel, NatLess
  <2>3. QED
        BY <2>1, <2>2
<1>2. SUFFICES ASSUME T # {} PROVE FALSE
      OBVIOUS
<1>3. PICK x \in T : \A y \in T : ~ (<<y, x>> \in NatLess)
  <2>1. T \subseteq Nat
        OBVIOUS
  <2> HIDE DEF T
  <2>2. QED
        BY <1>1, <1>2, <2>1, WFMin
<1>4. \A y \in 0 .. x - 1 : y \in S
  <2>1. SUFFICES ASSUME NEW y \in 0 .. x - 1 PROVE y \in S
        OBVIOUS
  <2>2. x \in Nat /\ y \in Nat /\ y < x
        BY <1>3
  <2>3. <<y, x>> \in NatLess
        BY <2>2 DEF NatLess
  <2>4. QED
        BY <1>3, <2>2, <2>3
<1>5. QED
      BY <1>3, <1>4

(* Induction from n to n + 1. *)
THEOREM Induction ==
  ASSUME NEW S, 0 \in S, \A n \in Nat : n \in S => n + 1 \in S
  PROVE  Nat \subseteq S
<1>1. ASSUME NEW n \in Nat, 0 .. n - 1 \subseteq S
      PROVE  n \in S
  <2>1. CASE n = 0
        BY <2>1
  <2>2. CASE n # 0
    <3>1. n - 1 \in Nat /\ n - 1 \in S /\ (n - 1) + 1 = n
          BY <1>1, <2>2
    <3>2. QED
          BY <3>1
  <2>3. QED
        BY <2>1, <2>2
<1>2. QED
      BY <1>1, StrongInduction

\* A function on 0 .. N defined by its value at 0 and, at each n, by a step from
\* its value at an earlier link[n].
Backward(link, N) == link \in [1 .. N -> Nat] /\ \A n \in 1 .. N : link[n] < n
StepsIn(step, N, S) == step \in [1 .. N -> [S -> S]]
Recursive(f, N, S, init, link, step) ==
  /\ f \in [0 .. N -> S]
  /\ f[0] = init
  /\ \A n \in 1 .. N : f[n] = step[n][f[link[n]]]

(* There is one. *)
THEOREM RecursiveFunction ==
  ASSUME NEW N \in Nat, NEW S, NEW init \in S, NEW link, NEW step,
         Backward(link, N), StepsIn(step, N, S)
  PROVE  \E f : Recursive(f, N, S, init, link, step)
<1> USE DEF Backward, StepsIn, Recursive
<1> DEFINE Is(f, k) == Recursive(f, k, S, init, link, step)
           K == {k \in Nat : k <= N => \E f : Is(f, k)}
<1>1. 0 \in K
  <2>1. Is([n \in 0 .. 0 |-> init], 0)
        OBVIOUS
  <2>2. QED
        BY <2>1
<1>2. ASSUME NEW k \in Nat, k \in K
      PROVE  k + 1 \in K
  <2>1. SUFFICES ASSUME k + 1 <= N PROVE \E f : Is(f, k + 1)
        BY SMTT(30)
  <2>2. PICK f : Is(f, k)
        BY <1>2, <2>1
  <2> DEFINE g == [n \in 0 .. k + 1 |->
                     IF n = k + 1 THEN step[n][f[link[n]]] ELSE f[n]]
  <2>3. \A n \in 1 .. k + 1 : link[n] \in 0 .. k /\ n \in 1 .. N
        BY <2>1
  <2>4. \A n \in 0 .. k : f[n] \in S
        BY <2>2
  <2>5. \A n \in 1 .. k + 1 : step[n][f[link[n]]] \in S
        BY <2>3, <2>4
  <2>6. g \in [0 .. k + 1 -> S]
        BY <2>4, <2>5
  <2>7. \A n \in 0 .. k : g[n] = f[n]
        OBVIOUS
  <2>8. g[0] = init
        BY <2>2, <2>7
  <2>9. \A n \in 1 .. k + 1 : g[n] = step[n][g[link[n]]]
    <3>1. \A n \in 1 .. k + 1 : g[link[n]] = f[link[n]]
          BY <2>3, <2>7
    <3>2. \A n \in 1 .. k : f[n] = step[n][f[link[n]]]
          BY <2>2
    <3>3. g[k + 1] = step[k + 1][f[link[k + 1]]]
          OBVIOUS
    <3> HIDE DEF g
    <3>4. SUFFICES ASSUME NEW n \in 1 .. k + 1
                   PROVE  g[n] = step[n][g[link[n]]]
          OBVIOUS
    <3>5. g[n] = step[n][f[link[n]]]
      <4>1. CASE n = k + 1
            BY <3>3, <4>1
      <4>2. CASE n # k + 1
            BY <2>7, <3>2, <4>2
      <4>3. QED
            BY <4>1, <4>2
    <3>6. g[link[n]] = f[link[n]]
          BY <3>1
    <3>7. QED
          BY <3>5, <3>6
  <2>10. QED
        BY <2>6, <2>8, <2>9
<1>3. N \in K
  <2> HIDE DEF K
  <2>1. QED
        BY <1>1, <1>2, Induction
<1>4. QED
      BY <1>3
-----------------------------------------------------------------------------
\* A function on any set, infinite ones too: its value is given on some
\* elements, and is a step from the value at an earlier one, by some measure, on
\* the others.
Measured(D, measure, base, link) ==
  /\ measure \in [D -> Nat] /\ link \in [D -> D]
  /\ \A d \in D \ base : measure[link[d]] < measure[d]
Steps(step, D, S) == step \in [D -> [S -> S]]
Follows(f, E, base, init, link, step) ==
  \A d \in E : f[d] = IF d \in base THEN init[d] ELSE step[d][f[link[d]]]

(* There is one. *)
THEOREM MeasuredFunction ==
  ASSUME NEW D, NEW S, NEW measure, NEW base, NEW link,
         NEW init \in [D -> S], NEW step,
         Measured(D, measure, base, link), Steps(step, D, S)
  PROVE  \E f : f \in [D -> S] /\ Follows(f, D, base, init, link, step)
<1> USE DEF Measured, Steps
<1> DEFINE Part(n) == {d \in D : measure[d] <= n}
           Is(f, n) == f \in [Part(n) -> S] /\ Follows(f, Part(n), base, init, link, step)
           One(f, d) == IF d \in base THEN init[d] ELSE step[d][f[link[d]]]
<1>1. \A d \in D : measure[d] \in Nat /\ link[d] \in D /\ init[d] \in S
      OBVIOUS
<1>2. ASSUME NEW n \in Nat, NEW d \in D, d \notin base, measure[d] <= n + 1
      PROVE  link[d] \in Part(n)
  <2>1. measure[link[d]] < measure[d] /\ link[d] \in D
        BY <1>2
  <2>2. measure[link[d]] \in Nat /\ measure[d] \in Nat
        BY <1>1, <2>1
  <2>3. measure[link[d]] <= n
        BY <1>2, <2>1, <2>2
  <2>4. QED
        BY <2>1, <2>3
<1>3. ASSUME NEW n \in Nat PROVE \E f : Is(f, n)
  <2> DEFINE K == {k \in Nat : \E f : Is(f, k)}
  <2>1. 0 \in K
    <3> DEFINE f == [d \in Part(0) |-> init[d]]
    <3>1. \A d \in Part(0) : d \in base
      <4> SUFFICES ASSUME NEW d \in Part(0), d \notin base PROVE FALSE
          OBVIOUS
      <4>1. d \in D /\ measure[d] <= 0 /\ measure[d] \in Nat
            BY <1>1
      <4>2. measure[link[d]] < measure[d] /\ measure[link[d]] \in Nat
            BY <1>1, <4>1
      <4>3. QED
            BY <4>1, <4>2
    <3>2. f \in [Part(0) -> S]
          BY <1>1
    <3>3. Follows(f, Part(0), base, init, link, step)
          BY <3>1 DEF Follows
    <3>4. Is(f, 0)
          BY <3>2, <3>3
    <3> HIDE DEF Is
    <3>5. QED
          BY <3>4
  <2>2. ASSUME NEW k \in Nat, k \in K PROVE k + 1 \in K
    <3>1. PICK f : Is(f, k)
          BY <2>2
    <3> DEFINE g == [d \in Part(k + 1) |-> One(f, d)]
    <3>2. g \in [Part(k + 1) -> S]
      <4>1. ASSUME NEW d \in Part(k + 1) PROVE One(f, d) \in S
        <5>1. CASE d \in base
              BY <1>1, <5>1
        <5>2. CASE d \notin base
          <6>1. link[d] \in Part(k)
                BY <1>2, <5>2
          <6>2. f[link[d]] \in S
                BY <3>1, <6>1
          <6>3. QED
                BY <5>2, <6>2
        <5>3. QED
              BY <5>1, <5>2
      <4> HIDE DEF One
      <4>2. QED
            BY <4>1
    <3>3. ASSUME NEW d \in Part(k) PROVE d \in Part(k + 1) /\ g[d] = f[d]
      <4>1. d \in Part(k + 1)
            BY <1>1
      <4>2. f[d] = One(f, d)
            BY <3>1 DEF Follows
      <4> HIDE DEF One
      <4>3. QED
            BY <4>1, <4>2
    <3>4. ASSUME NEW d \in Part(k + 1)
          PROVE  g[d] = IF d \in base THEN init[d] ELSE step[d][g[link[d]]]
      <4>1. g[d] = One(f, d)
            OBVIOUS
      <4>2. d \notin base => link[d] \in Part(k)
            BY <1>2
      <4> HIDE DEF g
      <4>3. d \notin base => g[link[d]] = f[link[d]]
            BY <3>3, <4>2
      <4>4. QED
            BY <4>1, <4>3
    <3> HIDE DEF g
    <3>5. Is(g, k + 1)
          BY <3>2, <3>4 DEF Follows
    <3> HIDE DEF Is
    <3>6. QED
          BY <3>5
  <2>3. Nat \subseteq K
    <3> HIDE DEF K
    <3>1. QED
          BY <2>1, <2>2, Induction
  <2> HIDE DEF Is
  <2>4. QED
        BY <2>3
<1>4. ASSUME NEW n \in Nat, NEW k \in Nat, NEW f, NEW g, Is(f, n), Is(g, k)
      PROVE  \A d \in Part(n) \cap Part(k) : f[d] = g[d]
  <2> DEFINE K == {j \in Nat : \A d \in Part(n) \cap Part(k) : measure[d] = j => f[d] = g[d]}
  <2>1. ASSUME NEW j \in Nat, 0 .. j - 1 \subseteq K PROVE j \in K
    <3>1. SUFFICES ASSUME NEW d \in Part(n) \cap Part(k), measure[d] = j PROVE f[d] = g[d]
          OBVIOUS
    <3>2. f[d] = One(f, d) /\ g[d] = One(g, d)
          BY <1>4, <3>1 DEF Follows
    <3>3. CASE d \in base
          BY <3>2, <3>3
    <3>4. CASE d \notin base
      <4>1. /\ link[d] \in D /\ measure[link[d]] < j /\ measure[link[d]] \in Nat
            /\ j <= n /\ j <= k
            BY <1>1, <3>1, <3>4
      <4>2. link[d] \in Part(n) \cap Part(k) /\ measure[link[d]] \in 0 .. j - 1
            BY <4>1
      <4>3. f[link[d]] = g[link[d]]
            BY <2>1, <4>2
      <4>4. QED
            BY <3>2, <3>4, <4>3
    <3>5. QED
          BY <3>3, <3>4
  <2>2. Nat \subseteq K
    <3> HIDE DEF K
    <3>1. QED
          BY <2>1, StrongInduction
  <2>3. QED
        BY <1>1, <2>2
<1> DEFINE F == [n \in Nat |-> CHOOSE f : Is(f, n)]
           h == [d \in D |-> F[measure[d]][d]]
<1>5. \A n \in Nat : Is(F[n], n)
  <2> HIDE DEF Is
  <2>1. QED
        BY <1>3
<1> HIDE DEF F
<1>6. ASSUME NEW d \in D
      PROVE  h[d] \in S /\ h[d] = IF d \in base THEN init[d] ELSE step[d][h[link[d]]]
  <2> DEFINE n == measure[d]
  <2>1. n \in Nat /\ d \in Part(n) /\ h[d] = F[n][d]
        BY <1>1
  <2>2. Is(F[n], n)
        BY <1>5, <2>1
  <2>3. F[n][d] \in S /\ F[n][d] = One(F[n], d)
        BY <2>1, <2>2 DEF Follows
  <2>4. ASSUME d \notin base PROVE F[n][link[d]] = h[link[d]]
    <3> DEFINE k == measure[link[d]]
    <3>1. /\ link[d] \in D /\ k \in Nat /\ k < n
          /\ h[link[d]] = F[k][link[d]]
          BY <1>1, <2>4
    <3>2. link[d] \in Part(n) \cap Part(k)
          BY <2>1, <3>1
    <3>3. Is(F[k], k)
          BY <1>5, <3>1
    <3> HIDE DEF k, n, Is, Part
    <3>4. F[n][link[d]] = F[k][link[d]]
          BY <1>4, <2>1, <2>2, <3>1, <3>2, <3>3
    <3>5. QED
          BY <3>1, <3>4
  <2> HIDE DEF h, n
  <2>5. QED
        BY <2>1, <2>3, <2>4
<1>7. h \in [D -> S]
      BY <1>6
<1> HIDE DEF h
<1>8. Follows(h, D, base, init, link, step)
      BY <1>6 DEF Follows
<1>9. QED
      BY <1>7, <1>8
-----------------------------------------------------------------------------
(* What two of the components use it for: a timestamp, and any other unsigned
   number, in LEB128. *)

\* A sequence with something before it.
LEMMA Pushed ==
  ASSUME NEW S, NEW x \in S, NEW t \in Seq(S)
  PROVE  /\ <<x>> \o t \in Seq(S)
         /\ Len(<<x>> \o t) = 1 + Len(t)
         /\ (<<x>> \o t)[1] = x
         /\ \A i \in 1 .. Len(t) : (<<x>> \o t)[1 + i] = t[i]
         /\ Tail(<<x>> \o t) = t
<1> DEFINE s == <<x>> \o t
<1>1. <<x>> \in Seq(S) /\ Len(<<x>>) = 1 /\ <<x>>[1] = x
      OBVIOUS
<1>2. Len(t) \in Nat
      BY LenProperties
<1>3. s \in Seq(S) /\ Len(s) = 1 + Len(t)
      BY <1>1, ConcatProperties
<1>4. s[1] = x
      BY <1>1, <1>2, ConcatProperties
<1>5. ASSUME NEW i \in 1 .. Len(t) PROVE s[1 + i] = t[i]
  <2>1. 1 + i \in 1 .. Len(<<x>>) + Len(t) /\ ~ (1 + i <= Len(<<x>>)) /\ (1 + i) - Len(<<x>>) = i
        BY <1>1, <1>2
  <2>2. s[1 + i] = t[(1 + i) - Len(<<x>>)]
        BY <1>1, <2>1, ConcatProperties
  <2>3. QED
        BY <2>1, <2>2
<1> HIDE DEF s
<1>6. Tail(s) = t
  <2>1. s # << >>
        BY <1>2, <1>3, EmptySeq
  <2>2. /\ Tail(s) \in Seq(S) /\ Len(Tail(s)) = Len(s) - 1
        /\ \A i \in 1 .. Len(Tail(s)) : Tail(s)[i] = s[i + 1]
        BY <1>3, <2>1, HeadTailProperties
  <2>3. Len(Tail(s)) = Len(t)
        BY <1>2, <1>3, <2>2
  <2>4. \A i \in 1 .. Len(t) : Tail(s)[i] = t[i]
        BY <1>2, <1>5, <2>2, <2>3
  <2>5. QED
        BY <2>2, <2>3, <2>4, SeqEqual
<1>7. QED
      BY <1>3, <1>4, <1>5, <1>6 DEF s

\* The definition of UnsignedBytes, unfolded once.
LEMMA UnsignedBytesAre ==
  ASSUME NEW v \in Nat
  PROVE  /\ UnsignedBytes(v) \in Seq(0 .. 255)
         /\ v < 128 => UnsignedBytes(v) = <<v>>
         /\ v >= 128 => /\ v \div 128 \in Nat /\ v \div 128 < v
                        /\ UnsignedBytes(v) = <<(v % 128) + 128>> \o UnsignedBytes(v \div 128)
<1> DEFINE S == Seq(0 .. 255)
           measure == [u \in Nat |-> u]
           base == 0 .. 127
           link == [u \in Nat |-> u \div 128]
           init == [u \in Nat |-> IF u < 128 THEN <<u>> ELSE << >>]
           step == [u \in Nat |-> [s \in S |-> <<(u % 128) + 128>> \o s]]
           Body(f) == [u \in Nat |-> IF u < 128 THEN <<u>>
                                     ELSE <<(u % 128) + 128>> \o f[u \div 128]]
           from == CHOOSE f : f = Body(f)
<1>1. \A u \in Nat : /\ u \div 128 \in Nat /\ (u % 128) + 128 \in 0 .. 255
                     /\ u >= 128 => u \div 128 < u
      OBVIOUS
<1>2. Measured(Nat, measure, base, link)
      BY <1>1 DEF Measured
<1>3. init \in [Nat -> S]
  <2>1. ASSUME NEW u \in Nat, u < 128 PROVE <<u>> \in S
        BY <2>1
  <2>2. << >> \in S
        BY EmptySeq
  <2>3. QED
        BY <2>1, <2>2
<1>4. Steps(step, Nat, S)
  <2>1. ASSUME NEW u \in Nat, NEW s \in S PROVE <<(u % 128) + 128>> \o s \in S
        BY <1>1, Pushed
  <2> HIDE DEF S
  <2>2. QED
        BY <2>1 DEF Steps
<1>5. PICK f : f \in [Nat -> S] /\ Follows(f, Nat, base, init, link, step)
  <2> HIDE DEF S, measure, base, link, init, step
  <2>1. QED
        BY <1>2, <1>3, <1>4, MeasuredFunction
<1> HIDE DEF S
<1>6. f = Body(f)
  <2>1. ASSUME NEW u \in Nat
        PROVE  f[u] = IF u < 128 THEN <<u>> ELSE <<(u % 128) + 128>> \o f[u \div 128]
    <3>1. f[u] = IF u \in base THEN init[u] ELSE step[u][f[link[u]]]
          BY <1>5 DEF Follows
    <3>2. CASE u < 128
      <4>1. u \in base /\ init[u] = <<u>>
            BY <3>2
      <4> HIDE DEF base, init, step, link
      <4>2. QED
            BY <3>1, <3>2, <4>1
    <3>3. CASE u >= 128
      <4>1. PICK q \in Nat : q = u \div 128
            BY <1>1
      <4>2. f[q] \in S
            BY <1>5
      <4>3. step[u][f[q]] = <<(u % 128) + 128>> \o f[q]
            BY <4>2
      <4>4. u \notin base /\ link[u] = q
            BY <3>3, <4>1
      <4> HIDE DEF step, link, base
      <4>5. f[u] = <<(u % 128) + 128>> \o f[q]
            BY <3>1, <4>3, <4>4
      <4>6. ~ (u < 128)
            BY <3>3
      <4>7. QED
            BY <4>1, <4>5, <4>6
    <3>4. QED
          BY <3>2, <3>3
  <2>2. QED
        BY <1>5, <2>1
<1>7. from = Body(from)
  <2> HIDE DEF Body
  <2>1. QED
        BY <1>6
<1>8. \A u : UnsignedBytes(u) = from[u]
      BY DEF UnsignedBytes
<1> HIDE DEF from
<1>9. ASSUME NEW u \in Nat
      PROVE  /\ u < 128 => from[u] = <<u>>
             /\ u >= 128 => from[u] = <<(u % 128) + 128>> \o from[u \div 128]
  <2>1. from[u] = IF u < 128 THEN <<u>> ELSE <<(u % 128) + 128>> \o from[u \div 128]
        BY <1>7
  <2>2. u >= 128 => ~ (u < 128)
        OBVIOUS
  <2>3. QED
        BY <2>1, <2>2
<1>10. \A u \in Nat : from[u] \in S
  <2> DEFINE K == {u \in Nat : from[u] \in S}
  <2>1. ASSUME NEW u \in Nat, 0 .. u - 1 \subseteq K PROVE u \in K
    <3>1. CASE u < 128
      <4>1. <<u>> \in S
            BY <3>1 DEF S
      <4>2. QED
            BY <1>9, <3>1, <4>1
    <3>2. CASE u >= 128
      <4>1. u \div 128 \in 0 .. u - 1
            BY <1>1, <3>2
      <4>2. from[u \div 128] \in S
            BY <2>1, <4>1
      <4>3. <<(u % 128) + 128>> \o from[u \div 128] \in S
            BY <1>1, <4>2, Pushed DEF S
      <4>4. from[u] = <<(u % 128) + 128>> \o from[u \div 128]
            BY <1>9, <3>2
      <4>5. QED
            BY <4>3, <4>4
    <3>3. QED
          BY <3>1, <3>2
  <2>2. Nat \subseteq K
    <3> HIDE DEF K
    <3>1. QED
          BY <2>1, StrongInduction
  <2>3. QED
        BY <2>2
<1>11. /\ v < 128 => from[v] = <<v>>
       /\ v >= 128 => from[v] = <<(v % 128) + 128>> \o from[v \div 128]
       BY <1>9
<1>12. v >= 128 => v \div 128 \in Nat /\ v \div 128 < v
       BY <1>1
<1>13. from[v] \in Seq(0 .. 255)
       BY <1>10 DEF S
<1>14. QED
       BY <1>8, <1>11, <1>12, <1>13

\* There is a byte at least.
LEMMA UnsignedBytesEnd ==
  ASSUME NEW v \in Nat
  PROVE  Len(UnsignedBytes(v)) >= 1
<1>1. CASE v < 128
  <2>1. UnsignedBytes(v) = <<v>> /\ Len(<<v>>) = 1
        BY <1>1, UnsignedBytesAre
  <2>2. QED
        BY <2>1
<1>2. CASE v >= 128
  <2>1. PICK q \in Nat : q = v \div 128
        BY <1>2, UnsignedBytesAre
  <2> DEFINE rest == UnsignedBytes(q)
             x == (v % 128) + 128
  <2>2. UnsignedBytes(v) = <<x>> \o rest /\ rest \in Seq(0 .. 255) /\ Len(rest) \in Nat
    <3>1. UnsignedBytes(v) = <<x>> \o rest
          BY <1>2, <2>1, UnsignedBytesAre
    <3>2. rest \in Seq(0 .. 255)
          BY UnsignedBytesAre
    <3> HIDE DEF rest
    <3>3. QED
          BY <3>1, <3>2, LenProperties
  <2>3. x \in 0 .. 255
        OBVIOUS
  <2> HIDE DEF rest, x
  <2>4. Len(UnsignedBytes(v)) = 1 + Len(rest)
        BY <2>2, <2>3, Pushed
  <2>5. QED
        BY <2>2, <2>4
<1>3. QED
      BY <1>1, <1>2
=============================================================================
