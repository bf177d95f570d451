------------------------ MODULE SerialDecoderProofs ------------------------
(***************************************************************************)
(* Proofs about the interned strings and SerialDecoder, for every set of   *)
(* strings and calls, every run length and any number of losses.           *)
(***************************************************************************)
EXTENDS SerialDecoder, RcobsProofs, FiniteSetTheorems

-----------------------------------------------------------------------------
(* Sums: Offset and End add up sizes. *)

IsSum(f, N, w) == f = [n \in 0 .. N |-> IF n = 0 THEN 0 ELSE f[n - 1] + w[n]]

LEMMA SumExists ==
  ASSUME NEW N \in Nat, NEW w \in [1 .. N -> Nat]
  PROVE  \E f : IsSum(f, N, w)
<1> DEFINE link == [n \in 1 .. N |-> n - 1]
           step == [n \in 1 .. N |-> [s \in Nat |-> s + w[n]]]
<1>1. Backward(link, N)
      BY DEF Backward
<1>2. StepsIn(step, N, Nat)
      BY DEF StepsIn
<1>3. PICK f : Recursive(f, N, Nat, 0, link, step)
  <2> HIDE DEF link, step
  <2>1. QED
        BY <1>1, <1>2, RecursiveFunction
<1>4. ASSUME NEW n \in 1 .. N PROVE f[n] = f[n - 1] + w[n]
  <2>1. n - 1 \in 0 .. N /\ link[n] = n - 1
        OBVIOUS
  <2>2. f[n - 1] \in Nat
        BY <1>3, <2>1 DEF Recursive
  <2>3. step[n][f[n - 1]] = f[n - 1] + w[n]
        BY <2>2
  <2> HIDE DEF step, link
  <2>4. QED
        BY <1>3, <2>1, <2>3 DEF Recursive
<1> HIDE DEF step, link
<1>5. QED
      BY <1>3, <1>4 DEF Recursive, IsSum

\* It grows with every term.
LEMMA SumIs ==
  ASSUME NEW N \in Nat, NEW w \in [1 .. N -> Nat], NEW f, IsSum(f, N, w)
  PROVE  /\ f \in [0 .. N -> Nat]
         /\ f[0] = 0
         /\ \A n \in 1 .. N : f[n] = f[n - 1] + w[n]
         /\ \A m, n \in 0 .. N : m <= n => f[m] <= f[n]
<1>1. f[0] = 0 /\ \A n \in 1 .. N : f[n] = f[n - 1] + w[n]
  <2>1. 0 \in 0 .. N /\ f[0] = 0
        BY DEF IsSum
  <2>2. ASSUME NEW n \in 1 .. N PROVE f[n] = f[n - 1] + w[n]
    <3>1. n \in 0 .. N /\ n # 0
          OBVIOUS
    <3>2. QED
          BY <3>1 DEF IsSum
  <2>3. QED
        BY <2>1, <2>2
<1>2. \A n \in 0 .. N : f[n] \in Nat /\ \A m \in 0 .. n : f[m] <= f[n]
  <2> DEFINE OK(n) == f[n] \in Nat /\ \A m \in 0 .. n : f[m] \in Nat /\ f[m] <= f[n]
             K == {n \in Nat : n <= N => OK(n)}
  <2>1. 0 \in K
        BY <1>1
  <2>2. ASSUME NEW n \in Nat, n \in K PROVE n + 1 \in K
    <3>1. SUFFICES ASSUME n + 1 <= N PROVE OK(n + 1)
          OBVIOUS
    <3>2. OK(n) /\ n + 1 \in 1 .. N /\ (n + 1) - 1 = n
          BY <2>2, <3>1
    <3>3. f[n + 1] = f[n] + w[n + 1] /\ w[n + 1] \in Nat
          BY <1>1, <3>2
    <3>4. f[n + 1] \in Nat /\ f[n] <= f[n + 1]
          BY <3>2, <3>3
    <3>5. ASSUME NEW m \in 0 .. n + 1 PROVE f[m] \in Nat /\ f[m] <= f[n + 1]
      <4>1. CASE m = n + 1
            BY <3>4, <4>1
      <4>2. CASE m # n + 1
        <5>1. m \in 0 .. n
              BY <4>2
        <5>2. QED
              BY <3>2, <3>4, <5>1
      <4>3. QED
            BY <4>1, <4>2
    <3>6. QED
          BY <3>4, <3>5
  <2>3. Nat \subseteq K
    <3> HIDE DEF K
    <3>1. QED
          BY <2>1, <2>2, Induction
  <2>4. ASSUME NEW n \in 0 .. N PROVE OK(n)
        BY <2>3
  <2>5. QED
        BY <2>4
<1>3. f \in [0 .. N -> Nat]
      BY <1>2 DEF IsSum
<1>4. QED
      BY <1>1, <1>2, <1>3

-----------------------------------------------------------------------------
(* The layout of the interned strings. *)

Sized == [size : Nat \ {0}]

\* Sequences of strings that take room.
Room(strings) ==
  /\ Len(strings) \in Nat
  /\ DOMAIN strings = 1 .. Len(strings)
  /\ \A n \in 1 .. Len(strings) : strings[n].size \in Nat \ {0}

LEMMA OffsetIs ==
  ASSUME NEW s, Room(s)
  PROVE  /\ \A n \in 0 .. Len(s) : Offset(s, n) \in Nat
         /\ Offset(s, 0) = 0
         /\ \A n \in 1 .. Len(s) : Offset(s, n) = Offset(s, n - 1) + s[n].size
         /\ \A m, n \in 0 .. Len(s) : m <= n => Offset(s, m) <= Offset(s, n)
<1> DEFINE N == Len(s)
           w == [n \in 1 .. N |-> s[n].size]
           Body(f) == [n \in 0 .. N |-> IF n = 0 THEN 0 ELSE f[n - 1] + s[n].size]
           upTo == CHOOSE f : f = Body(f)
<1>1. N \in Nat /\ w \in [1 .. N -> Nat]
      BY DEF Room
<1>2. ASSUME NEW f PROVE f = Body(f) <=> IsSum(f, N, w)
  <2>1. Body(f) = [n \in 0 .. N |-> IF n = 0 THEN 0 ELSE f[n - 1] + w[n]]
        BY <1>1
  <2>2. QED
        BY <2>1 DEF IsSum
<1>3. PICK f : IsSum(f, N, w)
  <2> HIDE DEF w, N
  <2>1. QED
        BY <1>1, SumExists
<1>4. f = Body(f)
      BY <1>2, <1>3
<1>5. upTo = Body(upTo)
  <2> HIDE DEF Body
  <2>1. QED
        BY <1>4
<1>6. IsSum(upTo, N, w)
      BY <1>2, <1>5
<1>7. \A n : Offset(s, n) = upTo[n]
      BY DEF Offset
<1>8. /\ upTo \in [0 .. N -> Nat]
      /\ upTo[0] = 0
      /\ \A n \in 1 .. N : upTo[n] = upTo[n - 1] + w[n]
      /\ \A m, n \in 0 .. N : m <= n => upTo[m] <= upTo[n]
  <2> HIDE DEF w, N, upTo
  <2>1. QED
        BY <1>1, <1>6, SumIs
<1> HIDE DEF upTo
<1>9. \A n \in 1 .. N : w[n] = s[n].size
      OBVIOUS
<1> HIDE DEF w
<1>10. QED
      BY <1>1, <1>7, <1>8, <1>9

LEMMA SectionsAre ==
  /\ DOMAIN Sections = 1 .. 5 /\ Len(Sections) = 5
  /\ \A k \in 1 .. 5 : Sections[k] \in Levels \cup {"user"}
  /\ \A k \in 1 .. 5 : Sections[k] \in Levels <=> k # 5
  /\ \A j, k \in 1 .. 5 : Sections[j] = Sections[k] => j = k
  /\ \A v \in Levels : \E k \in 1 .. 5 : Sections[k] = v
BY DEF Sections, Levels

LEMMA StringsHaveRoom == \A k \in 1 .. 5 : Room(Strings[Sections[k]])
<1>1. ASSUME NEW s \in Levels PROVE Room(Strings[s])
  <2>1. Strings[s] \in Seq(Format)
        BY StringsAssumption
  <2>2. \A f \in Format : f.size \in Nat \ {0}
        BY DEF Format
  <2>3. QED
        BY <2>1, <2>2, LenProperties, ElementOfSeq DEF Room
<1>2. Room(Strings["user"])
  <2>1. Strings["user"] \in Seq(User)
        BY StringsAssumption
  <2>2. \A u \in User : u.size \in Nat \ {0}
        BY DEF User
  <2>3. QED
        BY <2>1, <2>2, LenProperties, ElementOfSeq DEF Room
<1>3. QED
      BY <1>1, <1>2, SectionsAre

LEMMA SizeIs == \A k \in 1 .. 5 : Size(Strings[Sections[k]]) \in Nat
<1> TAKE k \in 1 .. 5
<1> DEFINE s == Strings[Sections[k]]
<1>1. Room(s)
      BY StringsHaveRoom
<1> HIDE DEF s
<1>2. Len(s) \in 0 .. Len(s)
      BY <1>1 DEF Room
<1>3. Offset(s, Len(s)) \in Nat
      BY <1>1, <1>2, OffsetIs
<1>4. QED
      BY <1>3 DEF s, Size

LEMMA EndIs ==
  /\ \A k \in 0 .. 5 : End(k) \in Nat
  /\ \A k \in 1 .. 5 : End(k) = End(k - 1) + Size(Strings[Sections[k]])
  /\ \A j, k \in 0 .. 5 : j <= k => End(j) <= End(k)
<1> DEFINE N == Len(Sections)
           w == [n \in 1 .. N |-> Size(Strings[Sections[n]])]
           Body(f) == [j \in 0 .. N |-> IF j = 0 THEN 0
                                        ELSE f[j - 1] + Size(Strings[Sections[j]])]
           upTo == CHOOSE f : f = Body(f)
<1>1. N = 5 /\ w \in [1 .. N -> Nat]
      BY SectionsAre, SizeIs
<1>2. ASSUME NEW f PROVE f = Body(f) <=> IsSum(f, N, w)
  <2>1. Body(f) = [n \in 0 .. N |-> IF n = 0 THEN 0 ELSE f[n - 1] + w[n]]
        BY <1>1
  <2>2. QED
        BY <2>1 DEF IsSum
<1>3. PICK f : IsSum(f, N, w)
  <2> HIDE DEF w, N
  <2>1. N \in Nat
        BY <1>1
  <2>2. QED
        BY <1>1, <2>1, SumExists
<1>4. f = Body(f)
      BY <1>2, <1>3
<1>5. upTo = Body(upTo)
  <2> HIDE DEF Body
  <2>1. QED
        BY <1>4
<1>6. IsSum(upTo, N, w)
      BY <1>2, <1>5
<1>7. \A n : End(n) = upTo[n]
      BY DEF End
<1>8. /\ upTo \in [0 .. N -> Nat]
      /\ \A n \in 1 .. N : upTo[n] = upTo[n - 1] + w[n]
      /\ \A m, n \in 0 .. N : m <= n => upTo[m] <= upTo[n]
  <2> HIDE DEF w, N, upTo
  <2>1. N \in Nat
        BY <1>1
  <2>2. QED
        BY <1>1, <1>6, <2>1, SumIs, ZenonT(30)
<1> HIDE DEF upTo
<1>9. \A n \in 1 .. N : w[n] = Size(Strings[Sections[n]])
      OBVIOUS
<1> HIDE DEF w
<1>10. QED
      BY <1>1, <1>7, <1>8, <1>9

\* The n-th string of the k-th section.
Position == {p \in (1 .. 5) \X Nat : p[2] \in 1 .. Len(Strings[Sections[p[1]]])}
TheString(p) == Strings[Sections[p[1]]][p[2]]
Address(p)   == Start(p[1]) + Offset(Strings[Sections[p[1]]], p[2] - 1)
Entry(p)     == [section |-> Sections[p[1]], string |-> TheString(p), address |-> Address(p)]

LEMMA LinkedIs == \A l : l \in Linked <=> \E p \in Position : l = Entry(p)
<1> TAKE l
<1>1. \A k \in 1 .. 5 : DOMAIN Strings[Sections[k]] = 1 .. Len(Strings[Sections[k]])
      BY StringsHaveRoom DEF Room
<1>2. l \in Linked <=> \E k \in 1 .. 5 : \E n \in 1 .. Len(Strings[Sections[k]]) :
                          l = [section |-> Sections[k], string |-> Strings[Sections[k]][n],
                               address |-> Start(k) + Offset(Strings[Sections[k]], n - 1)]
  <2> DEFINE At(k, n) == [section |-> Sections[k], string |-> Strings[Sections[k]][n],
                          address |-> Start(k) + Offset(Strings[Sections[k]], n - 1)]
             In(k) == {At(k, n) : n \in DOMAIN Strings[Sections[k]]}
  <2>1. Linked = UNION {In(k) : k \in DOMAIN Sections}
        BY DEF Linked
  <2>2. \A k \in 1 .. 5 :
          l \in In(k) <=> \E n \in 1 .. Len(Strings[Sections[k]]) : l = At(k, n)
        BY <1>1
  <2>3. l \in Linked <=> \E k \in 1 .. 5 : l \in In(k)
    <3> HIDE DEF In
    <3>1. QED
          BY <2>1, SectionsAre
  <2>4. QED
        BY <2>2, <2>3
<1>3. ASSUME NEW p \in Position, l = Entry(p) PROVE l \in Linked
  <2>1. p[1] \in 1 .. 5 /\ p[2] \in 1 .. Len(Strings[Sections[p[1]]])
        BY DEF Position
  <2>2. QED
        BY <1>2, <1>3, <2>1 DEF Entry, TheString, Address
<1>4. ASSUME l \in Linked PROVE \E p \in Position : l = Entry(p)
  <2>0. PICK k \in 1 .. 5 : \E n \in 1 .. Len(Strings[Sections[k]]) :
          l = [section |-> Sections[k], string |-> Strings[Sections[k]][n],
               address |-> Start(k) + Offset(Strings[Sections[k]], n - 1)]
        BY <1>2, <1>4
  <2>1. PICK n \in 1 .. Len(Strings[Sections[k]]) :
          l = [section |-> Sections[k], string |-> Strings[Sections[k]][n],
               address |-> Start(k) + Offset(Strings[Sections[k]], n - 1)]
        BY <2>0
  <2>2. Len(Strings[Sections[k]]) \in Nat
        BY StringsHaveRoom DEF Room
  <2>3. <<k, n>> \in Position
        BY <2>2 DEF Position
  <2>4. l = Entry(<<k, n>>)
        BY <2>1 DEF Entry, TheString, Address
  <2>5. QED
        BY <2>3, <2>4
<1>5. QED
      BY <1>3, <1>4

\* A string lies within its section.
LEMMA Placed ==
  ASSUME NEW p \in Position
  PROVE  /\ p[1] \in 1 .. 5 /\ p[2] \in Nat \ {0}
         /\ p[2] \in 1 .. Len(Strings[Sections[p[1]]])
         /\ TheString(p).size \in Nat \ {0}
         /\ Address(p) \in Nat
         /\ Start(p[1]) \in Nat /\ Start(p[1]) <= Address(p)
         /\ End(p[1]) \in Nat /\ Address(p) + TheString(p).size <= End(p[1])
<1> DEFINE k == p[1]  n == p[2]  s == Strings[Sections[k]]
<1>1. k \in 1 .. 5 /\ n \in Nat /\ n \in 1 .. Len(s)
      BY DEF Position
<1>2. Room(s)
      BY <1>1, StringsHaveRoom
<1>3. Start(k) = End(k - 1) /\ k - 1 \in 0 .. 5
      BY <1>1 DEF Start
<1>4. /\ TheString(p) = s[n] /\ Address(p) = Start(k) + Offset(s, n - 1)
      /\ Size(s) = Offset(s, Len(s))
      BY DEF TheString, Address, Size
<1>5. End(k) \in Nat /\ Start(k) \in Nat /\ End(k) = Start(k) + Size(s)
  <2> HIDE DEF k
  <2>1. k \in 0 .. 5
        BY <1>1
  <2>2. QED
        BY <1>1, <1>3, <2>1, EndIs
<1> HIDE DEF s, k, n
<1>6. /\ n - 1 \in 0 .. Len(s) /\ n \in 0 .. Len(s) /\ Len(s) \in 0 .. Len(s) /\ n <= Len(s)
      /\ s[n].size \in Nat \ {0}
      BY <1>1, <1>2 DEF Room
<1>7. /\ Offset(s, n - 1) \in Nat /\ Offset(s, n) \in Nat /\ Offset(s, Len(s)) \in Nat
      /\ Offset(s, n) = Offset(s, n - 1) + s[n].size
      /\ Offset(s, n) <= Offset(s, Len(s))
      BY <1>1, <1>2, <1>6, OffsetIs
<1>8. /\ Address(p) \in Nat /\ Start(k) <= Address(p)
      /\ Address(p) + TheString(p).size <= End(k)
  <2> DEFINE a == Offset(s, n - 1)  z == Offset(s, Len(s))  room == s[n].size
  <2>1. a \in Nat /\ z \in Nat /\ room \in Nat /\ a + room <= z
        BY <1>6, <1>7
  <2>2. /\ Address(p) = Start(k) + a /\ TheString(p).size = room
        /\ End(k) = Start(k) + z /\ Start(k) \in Nat
        BY <1>4, <1>5
  <2> HIDE DEF a, z, room
  <2>3. QED
        BY <2>1, <2>2
<1>9. QED
      BY <1>1, <1>4, <1>5, <1>6, <1>8 DEF s, k, n

\* No two strings share an address.
LEMMA Apart ==
  ASSUME NEW p \in Position, NEW q \in Position, p # q
  PROVE  \/ Address(p) + TheString(p).size <= Address(q)
         \/ Address(q) + TheString(q).size <= Address(p)
<1> DEFINE Before(x, y) == x[1] < y[1] \/ (x[1] = y[1] /\ x[2] < y[2])
<1>1. Before(p, q) \/ Before(q, p)
  <2>1. p = <<p[1], p[2]>> /\ q = <<q[1], q[2]>>
        BY DEF Position
  <2>2. p[1] \in 1 .. 5 /\ p[2] \in Nat
        BY Placed
  <2>3. q[1] \in 1 .. 5 /\ q[2] \in Nat
        BY Placed
  <2>4. p[1] # q[1] \/ p[2] # q[2]
        BY <2>1
  <2>5. QED
        BY <2>2, <2>3, <2>4
<1>2. ASSUME NEW x \in Position, NEW y \in Position, Before(x, y)
      PROVE  Address(x) + TheString(x).size <= Address(y)
  <2>1. CASE x[1] < y[1]
    <3>1. x[1] \in 0 .. 5 /\ y[1] - 1 \in 0 .. 5 /\ x[1] <= y[1] - 1
      <4>1. x[1] \in 1 .. 5
            BY Placed
      <4>2. y[1] \in 1 .. 5
            BY Placed
      <4>3. QED
            BY <2>1, <4>1, <4>2
    <3>2. End(x[1]) <= Start(y[1])
          BY <3>1, EndIs DEF Start
    <3>3. QED
          BY <3>2, Placed, SMTT(30)
  <2>2. CASE x[1] = y[1] /\ x[2] < y[2]
    <3> DEFINE k == x[1]  n == x[2]  m == y[2]  s == Strings[Sections[k]]
    <3>1. k \in 1 .. 5 /\ n \in 1 .. Len(s) /\ m \in 1 .. Len(s) /\ n < m
          BY <2>2, Placed
    <3>2. Room(s)
          BY <3>1, StringsHaveRoom
    <3>3. /\ TheString(x) = s[n] /\ Address(x) = Start(k) + Offset(s, n - 1)
          /\ Address(y) = Start(k) + Offset(s, m - 1)
          BY <2>2 DEF TheString, Address
    <3>4. Start(k) \in Nat /\ s[n].size \in Nat
          BY <3>3, Placed
    <3> HIDE DEF s, k, n, m
    <3>5. /\ n \in 0 .. Len(s) /\ n - 1 \in 0 .. Len(s) /\ m - 1 \in 0 .. Len(s)
          /\ n <= m - 1
          BY <3>1, <3>2 DEF Room
    <3>6. /\ Offset(s, n - 1) \in Nat /\ Offset(s, n) \in Nat /\ Offset(s, m - 1) \in Nat
          /\ Offset(s, n) = Offset(s, n - 1) + s[n].size
          /\ Offset(s, n) <= Offset(s, m - 1)
          BY <3>1, <3>2, <3>5, OffsetIs
    <3>7. QED
          BY <3>3, <3>4, <3>6
  <2>3. QED
        BY <1>2, <2>1, <2>2
<1>3. QED
      BY <1>1, <1>2

\* An address inside of a string of a level gives the level.
LEMMA SectionFound ==
  ASSUME NEW p \in Position, Sections[p[1]] \in Levels, NEW a \in Nat,
         Address(p) <= a, a < Address(p) + TheString(p).size
  PROVE  GetLogSection(a) = Sections[p[1]]
<1> DEFINE At(k) == [level |-> Sections[k], start |-> Start(k), end |-> End(k)]
           found == {s \in LogSections : s.start <= a /\ a < s.end}
<1>1. ASSUME NEW s
      PROVE  s \in LogSections <=> \E k \in 1 .. 5 : Sections[k] \in Levels /\ s = At(k)
  <2>1. LogSections = {At(k) : k \in {k \in 1 .. 5 : Sections[k] \in Levels}}
        BY SectionsAre DEF LogSections
  <2>2. QED
        BY <2>1
<1>2. p[1] \in 1 .. 5 /\ Start(p[1]) <= a /\ a < End(p[1])
  <2>1. /\ Address(p) \in Nat /\ TheString(p).size \in Nat
        /\ Start(p[1]) \in Nat /\ End(p[1]) \in Nat
        /\ Start(p[1]) <= Address(p) /\ Address(p) + TheString(p).size <= End(p[1])
        BY Placed
  <2>2. QED
        BY <2>1, Placed
<1>3. At(p[1]) \in found
      BY <1>1, <1>2
<1>4. ASSUME NEW s \in found PROVE s.level = Sections[p[1]]
  <2>1. PICK k \in 1 .. 5 : s = At(k)
        BY <1>1
  <2>2. Start(k) <= a /\ a < End(k)
        BY <2>1
  <2>3. /\ k \in 0 .. 5 /\ k - 1 \in 0 .. 5 /\ p[1] \in 0 .. 5 /\ p[1] - 1 \in 0 .. 5
        /\ Start(k) = End(k - 1) /\ Start(p[1]) = End(p[1] - 1)
        BY <1>2 DEF Start
  <2>4. /\ End(k) \in Nat /\ End(k - 1) \in Nat
        /\ End(p[1]) \in Nat /\ End(p[1] - 1) \in Nat
        BY <2>3, EndIs
  <2>5. k <= p[1] - 1 => End(k) <= End(p[1] - 1)
        BY <2>3, EndIs
  <2>6. p[1] <= k - 1 => End(p[1]) <= End(k - 1)
        BY <2>3, EndIs
  <2>7. k = p[1]
    <3> DEFINE j == p[1]
    <3> HIDE DEF j
    <3>1. k \in Int /\ j \in Int
          BY <1>2 DEF j
    <3>2. ~(k <= j - 1) /\ ~(j <= k - 1)
          BY <1>2, <2>2, <2>3, <2>4, <2>5, <2>6 DEF j
    <3>3. k = j
          BY <3>1, <3>2
    <3>4. QED
          BY <3>3 DEF j
  <2>8. QED
        BY <2>1, <2>7
<1>5. GetLogSection(a) = IF found = {} THEN "unknown" ELSE (CHOOSE s \in found : TRUE).level
      BY DEF GetLogSection
<1> HIDE DEF found
<1>6. QED
      BY <1>3, <1>4, <1>5

\* A string of a level has its file name and the kinds of its arguments.
LEMMA FormatIs ==
  ASSUME NEW p \in Position, Sections[p[1]] \in Levels
  PROVE  /\ TheString(p) \in Format /\ TheString(p).args \in Seq(Kinds)
         /\ TheString(p).file \in Nat /\ TheString(p).file < TheString(p).size
<1> DEFINE s == Strings[Sections[p[1]]]
<1>1. s \in Seq(Format) /\ p[2] \in 1 .. Len(s)
      BY StringsAssumption, Placed
<1>2. TheString(p) \in Format
  <2> HIDE DEF s
  <2>1. s[p[2]] \in Format
        BY <1>1, ElementOfSeq
  <2>2. QED
        BY <2>1 DEF s, TheString
<1>3. QED
      BY <1>2 DEF Format

\* An address in the first `file` bytes of a log's string gives that string.
LEMMA FormatFound ==
  ASSUME NEW p \in Position, Sections[p[1]] \in Levels,
         NEW a \in Address(p) .. Address(p) + TheString(p).file
  PROVE  WithFormat(a) = {Entry(p)} /\ GetLogSection(a) = Sections[p[1]]
<1>1. ASSUME NEW q \in Position, Sections[q[1]] \in Levels
      PROVE  /\ TheString(q).file \in Nat /\ TheString(q).size \in Nat
             /\ Address(q) \in Nat
             /\ TheString(q).file < TheString(q).size
      BY <1>1, FormatIs, Placed
<1>2. a \in Nat /\ Address(p) <= a /\ a < Address(p) + TheString(p).size
      BY <1>1
<1>3. Entry(p) \in WithFormat(a)
  <2>1. Entry(p) \in Linked
        BY LinkedIs
  <2>2. QED
        BY <2>1 DEF WithFormat, Entry
<1>4. ASSUME NEW l \in WithFormat(a) PROVE l = Entry(p)
  <2>1. PICK q \in Position : l = Entry(q)
        BY LinkedIs DEF WithFormat
  <2>2. Sections[q[1]] \in Levels /\ a \in Address(q) .. Address(q) + TheString(q).file
        BY <2>1 DEF WithFormat, Entry
  <2>3. Address(q) \in Nat /\ Address(q) <= a /\ a < Address(q) + TheString(q).size
        BY <1>1, <2>2
  <2>4. Address(p) \in Nat /\ TheString(p).size \in Nat /\ TheString(q).size \in Nat
        BY <1>1, <2>2
  <2>5. p = q
        BY <1>2, <2>3, <2>4, Apart
  <2>6. QED
        BY <2>1, <2>5
<1>5. GetLogSection(a) = Sections[p[1]]
      BY <1>2, SectionFound
<1>6. QED
      BY <1>3, <1>4, <1>5

\* Every string ends inside of the section.
LEMMA InStrings ==
  ASSUME NEW l \in Linked
  PROVE  l.address \in Nat /\ ~OutOfStrings(l.address) /\ ~Unterminated(l.address)
<1>1. PICK p \in Position : l = Entry(p)
      BY LinkedIs
<1>2. /\ Address(p) \in Nat /\ TheString(p).size \in Nat \ {0}
      /\ End(p[1]) \in Nat /\ Address(p) + TheString(p).size <= End(p[1])
      BY Placed
<1>3. p[1] \in 0 .. 5 /\ p[1] <= 5 /\ 5 \in 0 .. 5
      BY Placed
<1>4. End(p[1]) <= End(5) /\ End(5) \in Nat
      BY <1>3, EndIs
<1>5. StringsLen = End(5)
      BY SectionsAre DEF StringsLen
<1>6. QED
      BY <1>1, <1>2, <1>4, <1>5 DEF Entry, OutOfStrings, Unterminated

(* The address that a LOG macro sends leads the host back to the string that
   the linker put there and to the level of the macro, whatever else was linked:
   the labels of empty levels, strings of other levels and user strings between
   them included (__POSTFORM_LOG, get_log_section, decode_format_string). *)
THEOREM StringsAreFound ==
  ASSUME NEW l \in Linked, l.section \in Levels
  PROVE  /\ GetLogSection(l.address) = l.section
         /\ WithFormat(l.address) = {l}
         /\ ~OutOfStrings(l.address) /\ ~Unterminated(l.address)
<1>1. PICK p \in Position : l = Entry(p)
      BY LinkedIs
<1>2. Sections[p[1]] \in Levels /\ l.section = Sections[p[1]] /\ l.address = Address(p)
      BY <1>1 DEF Entry
<1>3. Address(p) \in Nat
      BY Placed
<1>4. TheString(p).file \in Nat
      BY <1>2, FormatIs
<1>5. Address(p) \in Address(p) .. Address(p) + TheString(p).file
      BY <1>3, <1>4
<1>6. WithFormat(Address(p)) = {Entry(p)} /\ GetLogSection(Address(p)) = Sections[p[1]]
      BY <1>2, <1>5, FormatFound
<1>7. QED
      BY <1>1, <1>2, <1>6, InStrings

-----------------------------------------------------------------------------
(* The message of a call, and what Decoder::decode makes of it. *)

LEMMA StringOfIs ==
  ASSUME NEW c \in Call
  PROVE  /\ StringOf(c) \in Linked
         /\ StringOf(c).section = c.level /\ c.level \in Levels
         /\ StringOf(c).string = Strings[c.level][c.nth]
         /\ StringOf(c).address \in Nat
<1> DEFINE Is(l) == /\ l.section = c.level
                    /\ \E k \in DOMAIN Sections :
                         /\ Sections[k] = c.level
                         /\ l.address = Start(k) + Offset(Strings[c.level], c.nth - 1)
<1>1. c.level \in Levels /\ c.nth \in DOMAIN Strings[c.level]
      BY CallAssumption
<1>2. PICK k \in 1 .. 5 : Sections[k] = c.level
      BY <1>1, SectionsAre
<1>3. c.nth \in 1 .. Len(Strings[c.level]) /\ c.nth \in Nat
  <2>1. Room(Strings[c.level])
        BY <1>2, StringsHaveRoom
  <2>2. QED
        BY <1>1, <2>1 DEF Room
<1>4. PICK p : p = <<k, c.nth>>
      OBVIOUS
<1>5. p \in Position /\ p[1] = k /\ p[2] = c.nth
      BY <1>2, <1>3, <1>4 DEF Position
<1>6. /\ Entry(p).section = c.level /\ Entry(p).string = Strings[c.level][c.nth]
      /\ Entry(p).address = Address(p)
      /\ Address(p) = Start(k) + Offset(Strings[c.level], c.nth - 1)
      BY <1>2, <1>5 DEF Entry, TheString, Address
<1>7. Entry(p) \in Linked /\ Is(Entry(p))
      BY <1>2, <1>5, <1>6, LinkedIs, SectionsAre
<1>8. ASSUME NEW l \in Linked, Is(l) PROVE l = Entry(p)
  <2>1. PICK q \in Position : l = Entry(q)
        BY LinkedIs
  <2>2. PICK j \in 1 .. 5 : /\ Sections[j] = c.level
                            /\ l.address = Start(j) + Offset(Strings[c.level], c.nth - 1)
        BY <1>8, SectionsAre
  <2>3. j = k
        BY <1>2, <2>2, SectionsAre
  <2>4. Address(q) = Address(p)
        BY <1>6, <2>1, <2>2, <2>3 DEF Entry
  <2>5. /\ Address(q) \in Nat /\ TheString(q).size \in Nat \ {0}
        /\ TheString(p).size \in Nat \ {0}
        BY <1>5, Placed
  <2>6. p = q
        BY <1>5, <2>4, <2>5, Apart
  <2>7. QED
        BY <2>1, <2>6
<1>9. StringOf(c) = CHOOSE l \in Linked : Is(l)
      BY DEF StringOf
<1> HIDE DEF Is
<1>10. StringOf(c) = Entry(p)
      BY <1>7, <1>8, <1>9
<1>11. QED
      BY <1>1, <1>6, <1>7, <1>10, InStrings

LEMMA CallNumbers ==
  ASSUME NEW c \in Call PROVE c.time \in Nat /\ c.args \in Seq(Nat)
<1>1. c.time \in 0 .. 127 /\ c.args \in Seq(0 .. 127)
      BY CallAssumption
<1>2. 0 .. 127 \subseteq Nat
      OBVIOUS
<1>3. QED
      BY <1>1, <1>2, SeqMonotonic

LEMMA MessageIs ==
  ASSUME NEW c \in Call
  PROVE  /\ Message(c) \in Seq(Nat)
         /\ Len(c.args) \in Nat /\ Len(Message(c)) = Len(c.args) + 2
         /\ Message(c)[1] = c.time /\ Message(c)[2] = StringOf(c).address
         /\ \A i \in 1 .. Len(c.args) : Message(c)[2 + i] = c.args[i]
         /\ SubSeq(Message(c), 3, Len(Message(c))) = c.args
<1> DEFINE head == <<c.time, StringOf(c).address>>  args == c.args  m == head \o args
<1>1. c.time \in Nat /\ StringOf(c).address \in Nat /\ args \in Seq(Nat)
      BY CallNumbers, StringOfIs
<1>2. head \in Seq(Nat) /\ Len(head) = 2 /\ head[1] = c.time /\ head[2] = StringOf(c).address
      BY <1>1
<1>3. Message(c) = m
      BY DEF Message
<1> HIDE DEF head, args
<1>4. /\ m \in Seq(Nat) /\ Len(m) = 2 + Len(args) /\ Len(args) \in Nat
      /\ \A i \in 1 .. 2 + Len(args) : m[i] = IF i <= 2 THEN head[i] ELSE args[i - 2]
  <2>1. /\ head \o args \in Seq(Nat)
        /\ Len(head \o args) = Len(head) + Len(args)
        /\ \A i \in 1 .. Len(head) + Len(args) :
             (head \o args)[i] = IF i <= Len(head) THEN head[i] ELSE args[i - Len(head)]
        BY <1>1, <1>2, ConcatProperties
  <2>2. Len(args) \in Nat
        BY <1>1, LenProperties
  <2>3. QED
        BY <1>2, <2>1, <2>2
<1> HIDE DEF m
<1>5. m[1] = head[1] /\ m[2] = head[2]
      BY <1>4
<1>6. \A i \in 1 .. Len(args) : m[2 + i] = args[i]
  <2> TAKE i \in 1 .. Len(args)
  <2>1. 2 + i \in 1 .. 2 + Len(args) /\ ~(2 + i <= 2) /\ (2 + i) - 2 = i
        BY <1>4
  <2>2. QED
        BY <1>4, <2>1
<1>7. SubSeq(m, 3, Len(m)) = args
  <2>1. \A i \in 3 .. Len(m) : m[i] \in Nat
        BY <1>4, ElementOfSeq
  <2>2. PICK t : t = SubSeq(m, 3, Len(m))
        OBVIOUS
  <2>3. /\ t \in Seq(Nat)
        /\ Len(t) = IF 3 <= Len(m) THEN Len(m) - 3 + 1 ELSE 0
        /\ \A i \in 1 .. Len(m) - 3 + 1 : t[i] = m[3 + i - 1]
        BY <1>4, <2>1, <2>2, SubSeqProperties
  <2>4. Len(t) = Len(args)
        BY <1>4, <2>3
  <2>5. \A i \in 1 .. Len(t) : t[i] = args[i]
    <3> TAKE i \in 1 .. Len(t)
    <3>1. i \in 1 .. Len(m) - 3 + 1 /\ 3 + i - 1 = 2 + i /\ i \in 1 .. Len(args)
          BY <1>4, <2>4
    <3>2. QED
          BY <1>6, <2>3, <3>1
  <2>6. t = args
        BY <1>1, <2>3, <2>4, <2>5, SeqEqual
  <2>7. QED
        BY <2>2, <2>6
<1>8. QED
      BY <1>2, <1>3, <1>4, <1>5, <1>6, <1>7 DEF args

\* decode finds the end of an argument where the target wrote it.
LEMMA ArgEndIs ==
  ASSUME NEW kind \in Kinds, NEW m \in Seq(Nat), NEW n \in Nat, NEW e \in Nat,
         n < e, e <= Len(m),
         IF kind = "string" THEN {j \in n + 1 .. e : m[j] = 0} = {e}
         ELSE /\ e = n + 1
              /\ kind = "interned" => ~OutOfStrings(m[e]) /\ ~Unterminated(m[e])
  PROVE  ArgEnd(kind, m, n) = e
<1>1. Len(m) \in Nat
      BY LenProperties
<1>2. CASE kind = "string"
  <2> DEFINE nuls == {k \in n + 1 .. Len(m) : m[k] = 0}
  <2>1. e \in nuls
        BY <1>1, <1>2
  <2>2. ASSUME NEW j \in nuls PROVE e <= j
    <3>1. j \in Nat /\ n + 1 <= j /\ m[j] = 0
          BY <1>1
    <3>2. j <= e => j \in {i \in n + 1 .. e : m[i] = 0}
          BY <3>1
    <3>3. QED
          BY <1>2, <3>1, <3>2
  <2>3. nuls \subseteq Nat
        BY <1>1
  <2>4. ArgEnd(kind, m, n) = IF nuls = {} THEN Panicking
                             ELSE CHOOSE k \in nuls : \A j \in nuls : k <= j
        BY <1>2 DEF ArgEnd
  <2> HIDE DEF nuls
  <2>5. PICK x : x = CHOOSE k \in nuls : \A j \in nuls : k <= j
        OBVIOUS
  <2>6. x \in nuls /\ x <= e
        BY <2>1, <2>2, <2>5
  <2>7. x = e
        BY <2>1, <2>2, <2>3, <2>6
  <2>8. QED
        BY <2>1, <2>4, <2>5, <2>7
<1>3. CASE kind # "string"
      BY <1>1, <1>3 DEF ArgEnd
<1>4. QED
      BY <1>2, <1>3

\* The ends of the arguments, found one after the other.
LEMMA LogEndIs ==
  ASSUME NEW c \in Call
  PROVE  LogEnd(Message(c)) = Len(Message(c))
<1> DEFINE m == Message(c)  kinds == Strings[c.level][c.nth].args  N == Len(kinds)
           Body(f) == [k \in 0 .. N |->
                         IF k = 0 THEN 2
                         ELSE IF f[k - 1] \in {Invalid, Panicking} THEN f[k - 1]
                         ELSE ArgEnd(kinds[k], m, f[k - 1])]
           found == CHOOSE f : f = Body(f)
<1>1. kinds \in Seq(Kinds)
  <2> DEFINE s == Strings[c.level]
  <2>1. s \in Seq(Format) /\ c.nth \in DOMAIN s
        BY CallAssumption, StringsAssumption
  <2> HIDE DEF s
  <2>2. s[c.nth] \in Format
        BY <2>1, LenProperties, ElementOfSeq
  <2>3. QED
        BY <2>2 DEF s, Format
<1>2. N \in Nat /\ DOMAIN kinds = 1 .. N /\ \A k \in 1 .. N : kinds[k] \in Kinds
  <2> HIDE DEF kinds
  <2>1. QED
        BY <1>1, LenProperties, ElementOfSeq
<1>3. EncodedAs(kinds, c.args)
      BY CallAssumption
<1>4. /\ m \in Seq(Nat) /\ Len(c.args) \in Nat /\ Len(m) = Len(c.args) + 2
      /\ m[2] = StringOf(c).address
      /\ \A i \in 1 .. Len(c.args) : m[2 + i] = c.args[i]
      BY MessageIs
<1>5. /\ ~OutOfStrings(m[2]) /\ WithFormat(m[2]) = {StringOf(c)}
      /\ StringOf(c).string.args = kinds
      BY <1>4, StringOfIs, StringsAreFound
<1> HIDE DEF kinds, m
<1>6. PICK end \in [0 .. N -> 0 .. Len(c.args)] :
        /\ end[0] = 0 /\ end[N] = Len(c.args)
        /\ \A k \in DOMAIN kinds :
             LET arg == end[k - 1] + 1 .. end[k] IN
             IF kinds[k] = "string" THEN {j \in arg : c.args[j] = 0} = {end[k]}
             ELSE /\ end[k] = end[k - 1] + 1
                  /\ kinds[k] = "interned" =>
                       \E l \in Linked : l.section = "user" /\ l.address = c.args[end[k]]
      BY <1>3 DEF EncodedAs
<1>7. \A k \in 0 .. N : end[k] \in Nat /\ end[k] <= Len(c.args)
      BY <1>4, <1>6
<1>8. ASSUME NEW k \in 1 .. N
      PROVE  ArgEnd(kinds[k], m, 2 + end[k - 1]) = 2 + end[k]
  <2> DEFINE from == end[k - 1]  to == end[k]
  <2>1. k - 1 \in 0 .. N /\ k \in 0 .. N /\ k \in DOMAIN kinds
        BY <1>2
  <2>2. from \in Nat /\ to \in Nat /\ to <= Len(c.args)
        BY <1>7, <2>1
  <2>3. IF kinds[k] = "string" THEN {j \in from + 1 .. to : c.args[j] = 0} = {to}
        ELSE /\ to = from + 1
             /\ kinds[k] = "interned" =>
                  \E l \in Linked : l.section = "user" /\ l.address = c.args[to]
        BY <1>6, <2>1
  <2> HIDE DEF from, to
  <2>4. from < to
    <3>1. CASE kinds[k] = "string"
      <4>1. to \in from + 1 .. to
            BY <2>3, <3>1
      <4>2. QED
            BY <2>2, <4>1
    <3>2. CASE kinds[k] # "string"
          BY <2>2, <2>3, <3>2
    <3>3. QED
          BY <3>1, <3>2
  <2>5. m[2 + to] = c.args[to] /\ to \in 1 .. Len(c.args)
        BY <1>4, <2>2, <2>4
  <2>6. ASSUME kinds[k] = "string"
        PROVE  {j \in 2 + from + 1 .. 2 + to : m[j] = 0} = {2 + to}
    <3>1. {j \in from + 1 .. to : c.args[j] = 0} = {to}
          BY <2>3, <2>6
    <3>2. c.args[to] = 0
          BY <3>1
    <3>3. 2 + to \in 2 + from + 1 .. 2 + to
          BY <2>2, <2>4
    <3>4. ASSUME NEW j \in 2 + from + 1 .. 2 + to, m[j] = 0 PROVE j = 2 + to
      <4>1. PICK i \in from + 1 .. to : j = 2 + i
        <5>1. j - 2 \in from + 1 .. to /\ j = 2 + (j - 2)
              BY <2>2
        <5>2. QED
              BY <5>1
      <4>2. i \in 1 .. Len(c.args)
            BY <1>4, <2>2
      <4>3. c.args[i] = 0
            BY <1>4, <3>4, <4>1, <4>2
      <4>4. i = to
            BY <3>1, <4>3
      <4>5. QED
            BY <4>1, <4>4
    <3>5. QED
          BY <2>5, <3>2, <3>3, <3>4
  <2>7. ASSUME kinds[k] # "string"
        PROVE  /\ 2 + to = (2 + from) + 1
               /\ kinds[k] = "interned" => ~OutOfStrings(m[2 + to]) /\ ~Unterminated(m[2 + to])
    <3>1. 2 + to = (2 + from) + 1
          BY <2>2, <2>3, <2>7
    <3>2. kinds[k] = "interned" => \E l \in Linked : l.address = m[2 + to]
          BY <2>3, <2>5, <2>7
    <3>3. QED
          BY <3>1, <3>2, InStrings
  <2>8. /\ 2 + from \in Nat /\ 2 + to \in Nat /\ 2 + from < 2 + to /\ 2 + to <= Len(m)
        /\ kinds[k] \in Kinds
        BY <1>2, <1>4, <2>2, <2>4
  <2>9. PICK n, e : n = 2 + from /\ e = 2 + to
        OBVIOUS
  <2>10. ArgEnd(kinds[k], m, n) = e
    <3>1. n \in Nat /\ e \in Nat /\ n < e /\ e <= Len(m)
          BY <2>8, <2>9
    <3>2. kinds[k] = "string" => {j \in n + 1 .. e : m[j] = 0} = {e}
          BY <2>6, <2>9
    <3>3. kinds[k] # "string" =>
            /\ e = n + 1
            /\ kinds[k] = "interned" => ~OutOfStrings(m[e]) /\ ~Unterminated(m[e])
          BY <2>7, <2>9
    <3>4. QED
          BY <1>4, <2>8, <3>1, <3>2, <3>3, ArgEndIs
  <2>11. QED
        BY <2>9, <2>10 DEF from, to
<1>9. \E f : f = Body(f)
  <2> DEFINE f == [k \in 0 .. N |-> 2 + end[k]]
  <2>1. f = Body(f)
    <3>1. f[0] = 2
          BY <1>2, <1>6
    <3>2. ASSUME NEW k \in 0 .. N, k # 0
          PROVE  /\ f[k - 1] \notin {Invalid, Panicking}
                 /\ f[k] = ArgEnd(kinds[k], m, f[k - 1])
      <4>1. k \in 1 .. N /\ k - 1 \in 0 .. N
            BY <1>2, <3>2
      <4>2. f[k - 1] = 2 + end[k - 1] /\ end[k - 1] \in Nat /\ f[k] = 2 + end[k]
            BY <1>7, <4>1
      <4>3. f[k - 1] \notin {Invalid, Panicking}
            BY <4>2 DEF Invalid, Panicking
      <4>4. QED
            BY <1>8, <4>1, <4>2, <4>3
    <3>3. f = [k \in 0 .. N |-> f[k]]
          OBVIOUS
    <3> HIDE DEF f
    <3>4. QED
          BY <3>1, <3>2, <3>3
  <2>2. QED
        BY <2>1
<1>10. found = Body(found)
  <2> HIDE DEF Body
  <2>1. QED
        BY <1>9
<1>11. \A k \in 0 .. N : found[k] = 2 + end[k]
  <2> HIDE DEF found
  <2> DEFINE K == {k \in Nat : k <= N => found[k] = 2 + end[k]}
  <2>1. 0 \in K
        BY <1>2, <1>6, <1>10
  <2>2. ASSUME NEW k \in Nat, k \in K PROVE k + 1 \in K
    <3>1. SUFFICES ASSUME k + 1 <= N PROVE found[k + 1] = 2 + end[k + 1]
          OBVIOUS
    <3>2. k + 1 \in 1 .. N /\ (k + 1) - 1 = k /\ k \in 0 .. N /\ k + 1 # 0
          BY <1>2, <3>1
    <3>3. found[k] = 2 + end[k] /\ end[k] \in Nat
          BY <1>7, <2>2, <3>2
    <3>4. found[k] \notin {Invalid, Panicking}
          BY <3>3 DEF Invalid, Panicking
    <3>5. found[k + 1] = ArgEnd(kinds[k + 1], m, found[k])
          BY <1>10, <3>2, <3>4
    <3>6. QED
          BY <1>8, <3>2, <3>3, <3>5
  <2>3. Nat \subseteq K
    <3> HIDE DEF K
    <3>1. QED
          BY <2>1, <2>2, Induction
  <2>4. QED
        BY <2>3
<1>12. LogEnd(m) = found[N]
  <2>1. (CHOOSE l \in WithFormat(m[2]) : TRUE).string.args = kinds
        BY <1>5
  <2>2. ~(Len(m) < 2) /\ WithFormat(m[2]) # {}
        BY <1>4, <1>5
  <2>3. QED
        BY <1>5, <2>1, <2>2 DEF LogEnd
<1>13. N \in 0 .. N
       BY <1>2
<1>14. QED
  <2> HIDE DEF found, N
  <2>1. LogEnd(m) = Len(m)
        BY <1>4, <1>6, <1>11, <1>12, <1>13
  <2>2. QED
        BY <2>1 DEF m

(* A frame that arrives whole is printed as what was logged: the decoder finds
   the level, the string, the time and every argument of the call in it
   (SerialWriter, rcobs::decode, Decoder::decode). *)
THEOREM CallIsDecoded ==
  ASSUME NEW c \in Call
  PROVE  LET frame == Encode(Message(c)) IN
         /\ WellFormed(frame)
         /\ LogEnd(Decode(frame)) \notin {Invalid, Panicking}
         /\ LogOf(Decode(frame)) = Logged(c)
<1> DEFINE m == Message(c)
<1>1. /\ m \in Seq(Nat) /\ Len(c.args) \in Nat /\ Len(m) = Len(c.args) + 2
      /\ m[1] = c.time /\ m[2] = StringOf(c).address
      /\ SubSeq(m, 3, Len(m)) = c.args
      BY MessageIs
<1>2. LogEnd(m) = Len(m)
      BY LogEndIs
<1>3. GetLogSection(m[2]) = c.level
      BY <1>1, StringOfIs, StringsAreFound
<1> HIDE DEF m
<1>4. WellFormed(Encode(m)) /\ Decode(Encode(m)) = m
      BY <1>1, RoundTrip
<1>5. LogEnd(m) \notin {Invalid, Panicking}
      BY <1>1, <1>2 DEF Invalid, Panicking
<1>6. LogOf(m) = Logged(c)
      BY <1>1, <1>2, <1>3 DEF LogOf, Logged
<1>7. QED
      BY <1>4, <1>5, <1>6 DEF m

-----------------------------------------------------------------------------
(* Type correctness: what any frame is decoded to. *)

LEMMA LeastExists ==
  ASSUME NEW S \in SUBSET Nat, S # {}
  PROVE  \E x \in S : \A y \in S : x <= y
<1>1. SUFFICES ASSUME \A x \in S : \E y \in S : y < x PROVE FALSE
      OBVIOUS
<1> DEFINE K == Nat \ S
<1>2. ASSUME NEW n \in Nat, 0 .. n - 1 \subseteq K PROVE n \in K
  <2>1. ASSUME n \in S PROVE FALSE
    <3>1. PICK y \in S : y < n
          BY <1>1, <2>1
    <3>2. y \in 0 .. n - 1
          BY <3>1
    <3>3. QED
          BY <1>2, <3>2
  <2>2. QED
        BY <2>1
<1>3. Nat \subseteq K
  <2> HIDE DEF K
  <2>1. QED
        BY <1>2, StrongInduction
<1>4. QED
      BY <1>3

LEMMA DecodeType ==
  ASSUME NEW s \in Seq(Nat), WellFormed(s)
  PROVE  Decode(s) \in Seq(Nat)
<1> DEFINE last == Len(s)
<1>1. last \in Nat /\ last > 0 /\ Chain(s)[last]
      BY LenProperties DEF WellFormed
<1>2. last \in 1 .. Len(s)
      BY <1>1
<1>3. s[last] \in 1 .. last
      BY <1>1, <1>2, ChainIs
<1>4. last - s[last] \in 0 .. Len(s)
      BY <1>1, <1>3
<1>5. UpTo(s)[last - s[last]] \in Seq(Nat)
      BY <1>4, UpToIs
<1>6. Run(s, last) \in Seq(Nat)
      BY <1>2, <1>3, RunIs
<1>7. Decode(s) = UpTo(s)[last - s[last]] \o Run(s, last)
      BY DEF Decode
<1> HIDE DEF last
<1>8. QED
      BY <1>5, <1>6, <1>7, ConcatProperties

LEMMA ArgEndType ==
  ASSUME NEW kind \in Kinds, NEW m \in Seq(Nat), Len(m) >= 2, NEW n \in 0 .. Len(m)
  PROVE  ArgEnd(kind, m, n) \in 0 .. Len(m)
<1>1. Len(m) \in Nat
      BY LenProperties
<1>2. CASE kind = "string"
  <2> DEFINE nuls == {k \in n + 1 .. Len(m) : m[k] = 0}
  <2>1. nuls \in SUBSET Nat /\ nuls \subseteq 0 .. Len(m)
        BY <1>1
  <2>2. ArgEnd(kind, m, n) = IF nuls = {} THEN Panicking
                             ELSE CHOOSE k \in nuls : \A j \in nuls : k <= j
        BY <1>2 DEF ArgEnd
  <2> HIDE DEF nuls
  <2>3. nuls # {} => (CHOOSE k \in nuls : \A j \in nuls : k <= j) \in nuls
        BY <2>1, LeastExists
  <2>4. Panicking \in 0 .. Len(m)
        BY <1>1 DEF Panicking
  <2>5. QED
        BY <2>1, <2>2, <2>3, <2>4
<1>3. CASE kind # "string"
  <2>1. ArgEnd(kind, m, n) \in {Invalid, Panicking} \cup (IF n = Len(m) THEN {} ELSE {n + 1})
        BY <1>3 DEF ArgEnd
  <2>2. QED
        BY <1>1, <2>1 DEF Invalid, Panicking
<1>4. QED
      BY <1>2, <1>3

\* A message that is printed is as long as what is printed of it, and its
\* string is known.
LEMMA LogEndType ==
  ASSUME NEW m \in Seq(Nat)
  PROVE  /\ LogEnd(m) \in Nat
         /\ LogEnd(m) \notin {Invalid, Panicking} =>
              Len(m) >= 2 /\ LogEnd(m) <= Len(m) /\ WithFormat(m[2]) # {}
<1>1. Len(m) \in Nat
      BY LenProperties
<1>2. CASE Len(m) < 2 \/ OutOfStrings(m[2]) \/ WithFormat(m[2]) = {}
  <2>1. LogEnd(m) \in {Invalid, Panicking}
        BY <1>2 DEF LogEnd
  <2>2. QED
        BY <2>1 DEF Invalid, Panicking
<1>3. CASE ~(Len(m) < 2) /\ ~OutOfStrings(m[2]) /\ WithFormat(m[2]) # {}
  <2> DEFINE l == CHOOSE l \in WithFormat(m[2]) : TRUE
             kinds == l.string.args  N == Len(kinds)  S == 0 .. Len(m)
             At(k, e) == IF e \in {Invalid, Panicking} THEN e ELSE ArgEnd(kinds[k], m, e)
             Body(f) == [k \in 0 .. N |->
                           IF k = 0 THEN 2
                           ELSE IF f[k - 1] \in {Invalid, Panicking} THEN f[k - 1]
                           ELSE ArgEnd(kinds[k], m, f[k - 1])]
             found == CHOOSE f : f = Body(f)
             link == [k \in 1 .. N |-> k - 1]
             step == [k \in 1 .. N |-> [e \in S |-> At(k, e)]]
  <2>1. kinds \in Seq(Kinds)
    <3>1. l \in WithFormat(m[2])
          BY <1>3
    <3> HIDE DEF l
    <3>2. PICK p \in Position : l = Entry(p)
          BY <3>1, LinkedIs DEF WithFormat
    <3>3. Sections[p[1]] \in Levels /\ l.string = TheString(p)
          BY <3>1, <3>2 DEF WithFormat, Entry
    <3>4. QED
          BY <3>3, FormatIs
  <2> HIDE DEF kinds
  <2>2. N \in Nat /\ \A k \in 1 .. N : kinds[k] \in Kinds
        BY <2>1, LenProperties, ElementOfSeq
  <2>3. Backward(link, N)
        BY <2>2 DEF Backward
  <2>4. ASSUME NEW k \in 1 .. N, NEW e \in S PROVE At(k, e) \in S
    <3>1. Len(m) >= 2
          BY <1>1, <1>3
    <3>2. PICK kind \in Kinds : kind = kinds[k]
          BY <2>2
    <3>3. ArgEnd(kind, m, e) \in S
          BY <3>1, ArgEndType
    <3>4. QED
          BY <3>2, <3>3
  <2>5. StepsIn(step, N, S)
    <3> HIDE DEF At
    <3>1. QED
          BY <2>4 DEF StepsIn
  <2>6. 2 \in S
        BY <1>1, <1>3
  <2>7. PICK f : Recursive(f, N, S, 2, link, step)
    <3> HIDE DEF N, S, link, step
    <3>1. QED
          BY <2>2, <2>3, <2>5, <2>6, RecursiveFunction
  <2>8. \E g : g = Body(g)
    <3>1. ASSUME NEW k \in 1 .. N PROVE f[k] = At(k, f[k - 1])
      <4>1. k - 1 \in 0 .. N /\ link[k] = k - 1
            BY <2>2
      <4>2. f[k - 1] \in S
            BY <2>7, <4>1 DEF Recursive
      <4>3. step[k][f[k - 1]] = At(k, f[k - 1])
            BY <4>2
      <4> HIDE DEF step, link, At
      <4>4. QED
            BY <2>7, <4>1, <4>3 DEF Recursive
    <3>2. f = [k \in 0 .. N |-> IF k = 0 THEN 2 ELSE At(k, f[k - 1])]
      <4> HIDE DEF step, link, At
      <4>1. QED
            BY <2>2, <2>7, <3>1 DEF Recursive
    <3>3. f = Body(f)
          BY <3>2
    <3>4. QED
          BY <3>3
  <2>9. found = Body(found)
    <3> HIDE DEF Body
    <3>1. QED
          BY <2>8
  <2>10. \A k \in 0 .. N : found[k] \in S
    <3> HIDE DEF found, S
    <3> DEFINE K == {k \in Nat : k <= N => found[k] \in S}
    <3>1. 0 \in K
          BY <2>2, <2>6, <2>9
    <3>2. ASSUME NEW k \in Nat, k \in K PROVE k + 1 \in K
      <4>1. SUFFICES ASSUME k + 1 <= N PROVE found[k + 1] \in S
            OBVIOUS
      <4>2. k + 1 \in 1 .. N /\ k + 1 \in 0 .. N /\ (k + 1) - 1 = k /\ k + 1 # 0
            BY <2>2, <4>1
      <4>3. found[k] \in S
            BY <2>2, <3>2, <4>1
      <4>4. found[k + 1] = At(k + 1, found[k])
            BY <2>9, <4>2
      <4> HIDE DEF At
      <4>5. QED
            BY <2>4, <4>2, <4>3, <4>4
    <3>3. Nat \subseteq K
      <4> HIDE DEF K
      <4>1. QED
            BY <3>1, <3>2, Induction
    <3>4. QED
          BY <3>3
  <2>11. LogEnd(m) = found[N]
        BY <1>3 DEF LogEnd, kinds
  <2>12. N \in 0 .. N
        BY <2>2
  <2> HIDE DEF found, N, S
  <2>13. LogEnd(m) \in S
        BY <2>10, <2>11, <2>12
  <2>14. QED
        BY <1>1, <1>3, <2>13 DEF S
<1>4. QED
      BY <1>2, <1>3

LEMMA LogType ==
  ASSUME NEW m \in Seq(Nat), LogEnd(m) \notin {Invalid, Panicking}
  PROVE  LogOf(m) \in DecodedLog
<1>1. /\ Len(m) \in Nat /\ Len(m) >= 2 /\ LogEnd(m) \in Nat /\ LogEnd(m) <= Len(m)
      /\ WithFormat(m[2]) # {}
      BY LenProperties, LogEndType
<1>2. \A i \in 1 .. Len(m) : m[i] \in Nat
      BY ElementOfSeq
<1>3. m[1] \in Nat /\ m[2] \in Nat
      BY <1>1, <1>2
<1>4. SubSeq(m, 3, LogEnd(m)) \in Seq(Nat)
  <2>1. \A i \in 3 .. LogEnd(m) : m[i] \in Nat
        BY <1>1, <1>2
  <2>2. QED
        BY <1>1, <2>1, SubSeqProperties
<1>5. GetLogSection(m[2]) \in Levels
  <2>1. PICK l \in WithFormat(m[2]) : TRUE
        BY <1>1
  <2>2. PICK p \in Position : l = Entry(p)
        BY LinkedIs DEF WithFormat
  <2>3. Sections[p[1]] \in Levels /\ m[2] \in Address(p) .. Address(p) + TheString(p).file
        BY <2>1, <2>2 DEF WithFormat, Entry
  <2>4. QED
        BY <2>3, FormatFound
<1>6. QED
      BY <1>3, <1>4, <1>5 DEF LogOf, DecodedLog

\* The frame that Send puts into the queue.
LEMMA FrameType ==
  ASSUME NEW c \in Call
  PROVE  /\ Encode(Message(c)) \in Seq(Nat \ {0})
         /\ Append(Encode(Message(c)), 0) \in Seq(Nat)
         /\ Len(Encode(Message(c))) \in Nat
         /\ Len(Append(Encode(Message(c)), 0)) = Len(Encode(Message(c))) + 1
         /\ \A i \in 1 .. Len(Encode(Message(c))) :
              /\ Encode(Message(c))[i] \in Nat \ {0}
              /\ Append(Encode(Message(c)), 0)[i] = Encode(Message(c))[i]
         /\ Append(Encode(Message(c)), 0)[Len(Encode(Message(c))) + 1] = 0
<1> DEFINE m == Message(c)  f == Encode(m)
<1>1. m \in Seq(Nat)
      BY MessageIs
<1> HIDE DEF m
<1>2. f \in Seq(Nat \ {0})
      BY <1>1, RoundTrip
<1> HIDE DEF f
<1>3. Len(f) \in Nat /\ \A i \in 1 .. Len(f) : f[i] \in Nat \ {0}
      BY <1>2, LenProperties, ElementOfSeq
<1>4. f \in Seq(Nat)
      BY <1>2
<1>5. /\ Append(f, 0) \in Seq(Nat) /\ Len(Append(f, 0)) = Len(f) + 1
      /\ \A i \in 1 .. Len(f) : Append(f, 0)[i] = f[i]
      /\ Append(f, 0)[Len(f) + 1] = 0
      BY <1>4, AppendProperties
<1>6. QED
      BY <1>2, <1>3, <1>5 DEF f, m

LEMMA QueueIs ==
  ASSUME queue \in Seq(Nat), queue # << >>
  PROVE  /\ Len(queue) \in Nat \ {0} /\ Head(queue) = queue[1] /\ queue[1] \in Nat
         /\ Tail(queue) \in Seq(Nat) /\ Len(Tail(queue)) = Len(queue) - 1
         /\ \A i \in 1 .. Len(queue) - 1 : Tail(queue)[i] = queue[i + 1]
<1>1. Len(queue) \in Nat /\ Len(queue) # 0
      BY LenProperties, EmptySeq
<1>2. queue[1] \in Nat
      BY <1>1, ElementOfSeq
<1>3. QED
      BY <1>1, <1>2, HeadTailProperties

\* What the end of a frame does to the logs.
LEMMA FeedEndLogs ==
  ASSUME TypeOK, FeedEnd
  PROVE  /\ errors' \in Nat /\ crashed' \in BOOLEAN
         /\ logs' = logs \/ \E log \in DecodedLog : logs' = Append(logs, log)
<1> DEFINE m == Decode(msgBuffer)
           end == IF WellFormed(msgBuffer) THEN LogEnd(m) ELSE Invalid
<1>1. /\ crashed' = (end = Panicking)
      /\ errors' = IF end = Invalid THEN errors + 1 ELSE errors
      /\ logs' = IF end \in {Invalid, Panicking} THEN logs ELSE Append(logs, LogOf(m))
      BY DEF FeedEnd
<1>2. errors \in Nat /\ msgBuffer \in Seq(Nat)
      BY DEF TypeOK
<1>3. end \notin {Invalid, Panicking} => LogOf(m) \in DecodedLog
  <2> SUFFICES ASSUME end \notin {Invalid, Panicking} PROVE LogOf(m) \in DecodedLog
      OBVIOUS
  <2>1. WellFormed(msgBuffer) /\ LogEnd(m) \notin {Invalid, Panicking}
        OBVIOUS
  <2>2. m \in Seq(Nat)
        BY <1>2, <2>1, DecodeType
  <2> HIDE DEF m
  <2>3. QED
        BY <2>1, <2>2, LogType
<1> HIDE DEF m, end
<1>4. QED
      BY <1>1, <1>2, <1>3

LEMMA TypeInit == Init => TypeOK
<1> SUFFICES ASSUME Init PROVE TypeOK
    OBVIOUS
<1>1. << >> \in Seq(Nat) /\ << >> \in Seq(Nat \ {0}) /\ << >> \in Seq(DecodedLog)
      BY EmptySeq
<1>2. current \in Call
      BY CallAssumption DEF Init
<1>3. count \in 0 .. MaxMessages /\ losses \in 0 .. MaxLoss /\ errors \in Nat
      BY MaxLossAssumption, MaxMessagesAssumption DEF Init
<1>4. /\ queue = << >> /\ msgBuffer = << >> /\ logs = << >>
      /\ intact = TRUE /\ crashed = FALSE
      BY DEF Init
<1>5. QED
      BY <1>1, <1>2, <1>3, <1>4 DEF TypeOK

LEMMA TypeStep == TypeOK /\ [Next]_vars => TypeOK'
<1> SUFFICES ASSUME TypeOK, [Next]_vars PROVE TypeOK'
    OBVIOUS
<1>0. /\ queue \in Seq(Nat) /\ msgBuffer \in Seq(Nat \ {0}) /\ current \in Call
      /\ count \in 0 .. MaxMessages /\ losses \in 0 .. MaxLoss
      /\ logs \in Seq(DecodedLog) /\ errors \in Nat
      /\ intact \in BOOLEAN /\ crashed \in BOOLEAN
      BY DEF TypeOK
<1>1. ASSUME NEW c \in Call, Send(c) PROVE TypeOK'
  <2>1. queue' \in Seq(Nat)
        BY <1>1, FrameType DEF Send
  <2>2. count' \in 0 .. MaxMessages
        BY <1>0, <1>1, MaxMessagesAssumption DEF Send
  <2>3. QED
        BY <1>0, <1>1, <2>1, <2>2 DEF Send, TypeOK
<1>2. CASE Lose
  <2>1. queue' \in Seq(Nat)
        BY <1>0, <1>2, QueueIs DEF Lose
  <2>2. losses' \in 0 .. MaxLoss
        BY <1>0, <1>2, MaxLossAssumption DEF Lose
  <2>3. QED
        BY <1>0, <1>2, <2>1, <2>2 DEF Lose, TypeOK
<1>3. CASE FeedByte
  <2>1. queue' \in Seq(Nat) /\ Head(queue) \in Nat \ {0}
        BY <1>0, <1>3, QueueIs DEF FeedByte
  <2>2. msgBuffer' \in Seq(Nat \ {0})
        BY <1>0, <1>3, <2>1, AppendProperties DEF FeedByte
  <2>3. QED
        BY <1>0, <1>3, <2>1, <2>2 DEF FeedByte, TypeOK
<1>4. CASE FeedEnd
  <2>1. queue' \in Seq(Nat)
        BY <1>0, <1>4, QueueIs DEF FeedEnd
  <2>2. errors' \in Nat /\ crashed' \in BOOLEAN /\ logs' \in Seq(DecodedLog)
    <3>1. /\ errors' \in Nat /\ crashed' \in BOOLEAN
          /\ logs' = logs \/ \E log \in DecodedLog : logs' = Append(logs, log)
          BY <1>4, FeedEndLogs
    <3>2. CASE logs' = logs
          BY <1>0, <3>1, <3>2
    <3>3. ASSUME NEW log \in DecodedLog, logs' = Append(logs, log)
          PROVE  logs' \in Seq(DecodedLog)
          BY <1>0, <3>3, AppendProperties
    <3>4. QED
          BY <3>1, <3>2, <3>3
  <2>3. msgBuffer' \in Seq(Nat \ {0})
        BY <1>4, EmptySeq DEF FeedEnd
  <2>4. intact' \in BOOLEAN
        BY <1>4 DEF FeedEnd
  <2>5. /\ current' = current /\ count' = count /\ losses' = losses
        BY <1>4 DEF FeedEnd
  <2>6. QED
        BY <1>0, <2>1, <2>2, <2>3, <2>4, <2>5 DEF TypeOK
<1>5. CASE Restart
  <2>1. msgBuffer' \in Seq(Nat \ {0})
        BY <1>5, EmptySeq DEF Restart
  <2>2. losses' \in 0 .. MaxLoss
        BY <1>0, <1>5, MaxLossAssumption DEF Restart
  <2>3. intact' \in BOOLEAN /\ crashed' \in BOOLEAN
        BY <1>5 DEF Restart
  <2>4. QED
        BY <1>0, <1>5, <2>1, <2>2, <2>3 DEF Restart, TypeOK
<1>6. CASE UNCHANGED vars
      BY <1>0, <1>6 DEF vars, TypeOK
<1>7. QED
      BY <1>1, <1>2, <1>3, <1>4, <1>5, <1>6 DEF Next

(* The buffer never holds a 0, and every log that was ever printed has one of
   the four levels and is made of bytes of its frame, whatever the link lost
   (SerialDecoder::feed_and_do, Decoder::decode). *)
THEOREM TypeCorrect == Spec => []TypeOK
<1>1. Init => TypeOK
      BY TypeInit
<1>2. TypeOK /\ [Next]_vars => TypeOK'
      BY TypeStep
<1>3. QED
      BY <1>1, <1>2, PTL DEF Spec

-----------------------------------------------------------------------------
(* A message that is not damaged is printed. *)

\* The queue ends with its only 0.  While nothing of a message is lost, the
\* buffer and the queue are the two parts of its frame.
QueueEnds == \A i \in 1 .. Len(queue) : queue[i] = 0 <=> i = Len(queue)
IntactInv ==
  intact =>
    IF queue = << >> THEN msgBuffer = << >>
    ELSE LET frame == Encode(Message(current)) IN
         /\ Len(msgBuffer) + Len(queue) = Len(frame) + 1
         /\ \A i \in 1 .. Len(msgBuffer) : msgBuffer[i] = frame[i]
         /\ \A i \in 1 .. Len(queue) - 1 : queue[i] = frame[Len(msgBuffer) + i]

LEMMA LastByte ==
  ASSUME TypeOK, QueueEnds, queue # << >>, Head(queue) = 0
  PROVE  Len(queue) = 1 /\ Tail(queue) = << >>
<1>1. queue \in Seq(Nat)
      BY DEF TypeOK
<1>2. /\ Len(queue) \in Nat \ {0} /\ queue[1] = 0
      /\ Tail(queue) \in Seq(Nat) /\ Len(Tail(queue)) = Len(queue) - 1
      BY <1>1, QueueIs
<1>3. Len(queue) = 1
  <2>1. 1 \in 1 .. Len(queue)
        BY <1>2
  <2>2. QED
        BY <1>2, <2>1 DEF QueueEnds
<1>4. Len(Tail(queue)) = 0
      BY <1>2, <1>3
<1>5. QED
      BY <1>2, <1>3, <1>4, EmptySeq

LEMMA QueueStep == TypeOK /\ QueueEnds /\ [Next]_vars => QueueEnds'
<1> SUFFICES ASSUME TypeOK, QueueEnds, [Next]_vars PROVE QueueEnds'
    OBVIOUS
<1>1. ASSUME NEW c \in Call, Send(c) PROVE QueueEnds'
  <2> DEFINE f == Encode(Message(c))
  <2>1. /\ Len(f) \in Nat /\ queue' = Append(f, 0) /\ Len(queue') = Len(f) + 1
        /\ \A i \in 1 .. Len(f) : f[i] # 0 /\ Append(f, 0)[i] = f[i]
        /\ Append(f, 0)[Len(f) + 1] = 0
        BY <1>1, FrameType DEF Send
  <2> HIDE DEF f
  <2>2. QED
        BY <2>1 DEF QueueEnds
<1>2. CASE queue # << >> /\ queue' = Tail(queue)
  <2>1. queue \in Seq(Nat)
        BY DEF TypeOK
  <2>2. /\ Len(queue) \in Nat /\ Len(queue') = Len(queue) - 1
        /\ \A i \in 1 .. Len(queue) - 1 : queue'[i] = queue[i + 1]
        BY <1>2, <2>1, QueueIs
  <2>3. SUFFICES ASSUME NEW i \in 1 .. Len(queue')
                 PROVE  queue'[i] = 0 <=> i = Len(queue')
        BY DEF QueueEnds
  <2>4. i \in 1 .. Len(queue) - 1 /\ i + 1 \in 1 .. Len(queue)
        BY <2>2, <2>3
  <2>5. queue[i + 1] = 0 <=> i + 1 = Len(queue)
        BY <2>4 DEF QueueEnds
  <2>6. QED
        BY <2>2, <2>4, <2>5
<1>3. CASE queue' = queue
      BY <1>3 DEF QueueEnds
<1>4. QED
      BY <1>1, <1>2, <1>3 DEF Next, Lose, FeedByte, FeedEnd, Restart, vars

LEMMA IntactStep ==
  TypeOK /\ QueueEnds /\ IntactInv /\ [Next]_vars => IntactInv'
<1> SUFFICES ASSUME TypeOK, QueueEnds, IntactInv, [Next]_vars PROVE IntactInv'
    OBVIOUS
<1>0. queue \in Seq(Nat) /\ msgBuffer \in Seq(Nat \ {0}) /\ current \in Call
      /\ intact \in BOOLEAN
      BY DEF TypeOK
<1>1. ASSUME NEW c \in Call, Send(c) PROVE IntactInv'
  <2> DEFINE f == Encode(Message(c))
  <2>1. /\ Len(f) \in Nat /\ queue' = Append(f, 0) /\ Len(queue') = Len(f) + 1
        /\ \A i \in 1 .. Len(f) : queue'[i] = f[i]
        BY <1>1, FrameType DEF Send
  <2>2. queue = << >> /\ current' = c /\ msgBuffer' = msgBuffer /\ intact' = intact
        BY <1>1 DEF Send
  <2> HIDE DEF f
  <2>3. SUFFICES ASSUME intact
                 PROVE  /\ queue' # << >>
                        /\ Len(msgBuffer) + Len(queue') = Len(f) + 1
                        /\ \A i \in 1 .. Len(msgBuffer) : msgBuffer[i] = f[i]
                        /\ \A i \in 1 .. Len(queue') - 1 : queue'[i] = f[Len(msgBuffer) + i]
    <3>1. Encode(Message(current'))  = f
          BY <2>2 DEF f
    <3>2. QED
          BY <2>2, <3>1 DEF IntactInv
  <2>4. msgBuffer = << >>
        BY <2>2, <2>3 DEF IntactInv
  <2>5. Len(msgBuffer) = 0
        BY <2>4
  <2>6. queue' # << >>
    <3>1. Len(queue') # 0
          BY <2>1
    <3>2. QED
          BY <3>1
  <2>7. QED
        BY <2>1, <2>5, <2>6
<1>2. CASE Lose
      BY <1>2 DEF Lose, IntactInv
<1>3. CASE FeedByte
  <2> DEFINE f == Encode(Message(current))  b == Head(queue)
  <2>1. /\ queue # << >> /\ b # 0 /\ msgBuffer' = Append(msgBuffer, b)
        /\ queue' = Tail(queue) /\ intact' = intact /\ current' = current
        BY <1>3 DEF FeedByte
  <2>2. /\ Len(queue) \in Nat \ {0} /\ b = queue[1] /\ b \in Nat
        /\ Len(queue') = Len(queue) - 1 /\ queue' \in Seq(Nat)
        /\ \A i \in 1 .. Len(queue) - 1 : queue'[i] = queue[i + 1]
        BY <1>0, <2>1, QueueIs
  <2>3. Len(queue) # 1
    <3>1. 1 \in 1 .. Len(queue) /\ queue[1] # 0
          BY <2>1, <2>2
    <3>2. QED
          BY <3>1 DEF QueueEnds
  <2>4. /\ Len(msgBuffer) \in Nat /\ Len(msgBuffer') = Len(msgBuffer) + 1
        /\ \A i \in 1 .. Len(msgBuffer) : msgBuffer'[i] = msgBuffer[i]
        /\ msgBuffer'[Len(msgBuffer) + 1] = b
        BY <1>0, <2>1, <2>2, AppendProperties, LenProperties
  <2>5. SUFFICES ASSUME intact
                 PROVE  /\ queue' # << >>
                        /\ Len(msgBuffer') + Len(queue') = Len(f) + 1
                        /\ \A i \in 1 .. Len(msgBuffer') : msgBuffer'[i] = f[i]
                        /\ \A i \in 1 .. Len(queue') - 1 : queue'[i] = f[Len(msgBuffer') + i]
    <3>1. Encode(Message(current')) = f
          BY <2>1
    <3> HIDE DEF f
    <3>2. QED
          BY <2>1, <3>1 DEF IntactInv
  <2>6. /\ Len(msgBuffer) + Len(queue) = Len(f) + 1
        /\ \A i \in 1 .. Len(msgBuffer) : msgBuffer[i] = f[i]
        /\ \A i \in 1 .. Len(queue) - 1 : queue[i] = f[Len(msgBuffer) + i]
        BY <2>1, <2>5 DEF IntactInv
  <2>7. Len(f) \in Nat
        BY <1>0, FrameType
  <2> HIDE DEF f, b
  <2>8. queue' # << >>
    <3>1. Len(queue') # 0
          BY <2>2, <2>3
    <3>2. QED
          BY <3>1
  <2>9. Len(msgBuffer') + Len(queue') = Len(f) + 1
    <3>1. Len(queue) \in Nat /\ Len(queue') = Len(queue) - 1
          BY <2>2
    <3>2. Len(msgBuffer) \in Nat /\ Len(msgBuffer') = Len(msgBuffer) + 1
          BY <2>4
    <3>3. Len(msgBuffer) + Len(queue) = Len(f) + 1
          BY <2>6
    <3>4. QED
          BY <2>7, <3>1, <3>2, <3>3
  <2>10. b = f[Len(msgBuffer) + 1]
        BY <2>2, <2>3, <2>6
  <2>11. \A i \in 1 .. Len(msgBuffer') : msgBuffer'[i] = f[i]
    <3> TAKE i \in 1 .. Len(msgBuffer')
    <3>1. CASE i = Len(msgBuffer) + 1
          BY <2>4, <2>10, <3>1
    <3>2. CASE i # Len(msgBuffer) + 1
      <4>1. i \in 1 .. Len(msgBuffer)
            BY <2>4, <3>2
      <4>2. QED
            BY <2>4, <2>6, <4>1
    <3>3. QED
          BY <3>1, <3>2
  <2>12. \A i \in 1 .. Len(queue') - 1 : queue'[i] = f[Len(msgBuffer') + i]
    <3> TAKE i \in 1 .. Len(queue') - 1
    <3>1. /\ i \in 1 .. Len(queue) - 1 /\ i + 1 \in 1 .. Len(queue) - 1
          /\ Len(msgBuffer') + i = Len(msgBuffer) + (i + 1)
          BY <2>2, <2>4
    <3>2. QED
          BY <2>2, <2>6, <3>1
  <2>13. QED
        BY <2>8, <2>9, <2>11, <2>12
<1>4. CASE FeedEnd
  <2>1. queue # << >> /\ Head(queue) = 0 /\ queue' = Tail(queue) /\ msgBuffer' = << >>
        BY <1>4 DEF FeedEnd
  <2>2. queue' = << >>
        BY <2>1, LastByte
  <2>3. QED
        BY <2>1, <2>2 DEF IntactInv
<1>5. CASE Restart
  <2>1. /\ intact' = (intact /\ msgBuffer = << >>) /\ msgBuffer' = << >>
        /\ queue' = queue /\ current' = current
        BY <1>5 DEF Restart
  <2>2. CASE intact /\ msgBuffer = << >>
        BY <2>1, <2>2 DEF IntactInv
  <2>3. CASE ~(intact /\ msgBuffer = << >>)
        BY <2>1, <2>3 DEF IntactInv
  <2>4. QED
        BY <2>2, <2>3
<1>6. CASE UNCHANGED vars
      BY <1>6 DEF vars, IntactInv
<1>7. QED
      BY <1>1, <1>2, <1>3, <1>4, <1>5, <1>6 DEF Next

LEMMA FrameInvariant == Spec => [](TypeOK /\ QueueEnds /\ IntactInv)
<1>1. Init => TypeOK /\ QueueEnds /\ IntactInv
  <2>1. Init => QueueEnds
        BY DEF Init, QueueEnds
  <2>2. Init => IntactInv
        BY DEF Init, IntactInv
  <2>3. QED
        BY <2>1, <2>2, TypeInit
<1>2. TypeOK /\ QueueEnds /\ IntactInv /\ [Next]_vars => (TypeOK /\ QueueEnds /\ IntactInv)'
      BY TypeStep, QueueStep, IntactStep
<1>3. QED
      BY <1>1, <1>2, PTL DEF Spec

\* The end of a frame none of whose bytes was lost.
LEMMA IntactEnd ==
  ASSUME TypeOK, QueueEnds, IntactInv, FeedEnd, intact
  PROVE  logs' = Append(logs, Logged(current)) /\ Logged(current) \in DecodedLog
<1> DEFINE f == Encode(Message(current))
<1>1. queue # << >> /\ Head(queue) = 0 /\ Len(queue) = 1
      BY LastByte DEF FeedEnd
<1>2. current \in Call /\ msgBuffer \in Seq(Nat \ {0})
      BY DEF TypeOK
<1>3. Len(f) \in Nat /\ f \in Seq(Nat \ {0})
      BY <1>2, FrameType
<1>4. /\ Len(msgBuffer) + Len(queue) = Len(f) + 1
      /\ \A i \in 1 .. Len(msgBuffer) : msgBuffer[i] = f[i]
      BY <1>1 DEF IntactInv
<1>5. WellFormed(f) /\ LogEnd(Decode(f)) \notin {Invalid, Panicking}
      /\ LogOf(Decode(f)) = Logged(current)
      BY <1>2, CallIsDecoded
<1> HIDE DEF f
<1>6. Len(msgBuffer) = Len(f)
  <2>1. Len(msgBuffer) \in Nat
        BY <1>2, LenProperties
  <2>2. QED
        BY <1>1, <1>3, <1>4, <2>1
<1>7. msgBuffer = f
      BY <1>2, <1>3, <1>4, <1>6, SeqEqual
<1>8. logs' = Append(logs, Logged(current))
      BY <1>5, <1>7 DEF FeedEnd
<1>9. Logged(current) \in DecodedLog
      BY <1>2, StringOfIs, CallNumbers, CallAssumption DEF Logged, DecodedLog
<1>10. QED
      BY <1>8, <1>9

(* Whatever was lost before, a message none of whose bytes is lost is printed,
   with the level of its macro, its string, its time and its arguments: the 0
   before it puts the decoder back into step (feed_and_do, lib.rs 419-445). *)
THEOREM IntactMessageCorrect == Spec => IntactMessageIsLogged
<1>1. ASSUME TypeOK, QueueEnds, IntactInv, [Next]_vars
      PROVE  [intact /\ queue = <<0>> /\ queue' = << >> /\ losses' = losses
                => logs' = Append(logs, Logged(current))]_vars
  <2>1. SUFFICES ASSUME intact, queue = << 0 >>, queue' = << >>, losses' = losses
                 PROVE  logs' = Append(logs, Logged(current))
        OBVIOUS
  <2>2. queue # << >> /\ Head(queue) = 0
        BY <2>1
  <2>3. losses \in Nat
    <3>1. losses \in 0 .. MaxLoss
          BY <1>1 DEF TypeOK
    <3>2. QED
          BY <3>1, MaxLossAssumption
  <2>4. FeedEnd
        BY <1>1, <2>1, <2>2, <2>3 DEF Next, Send, Lose, FeedByte, Restart, vars
  <2>5. QED
        BY <1>1, <2>1, <2>4, IntactEnd
<1>2. QED
      BY <1>1, FrameInvariant, PTL DEF Spec, IntactMessageIsLogged

-----------------------------------------------------------------------------
(* What a lost byte costs. *)

\* What is still owed: a loss pays for two messages when it happens.  A damaged
\* message whose 0 is to come is paid for; when its 0 is lost as well, so is
\* the next.
Balance ==
  IF intact THEN IF queue = << >> THEN 0 ELSE -1
  ELSE IF queue = << >> THEN 1 ELSE 0
LossInv == Cardinality(Correct) + 2 * losses >= count + Balance

LEMMA CorrectIs ==
  ASSUME TypeOK
  PROVE  IsFiniteSet(Correct) /\ Cardinality(Correct) \in Nat /\ Len(logs) \in Nat
         /\ Correct \subseteq 1 .. Len(logs)
<1>1. logs \in Seq(DecodedLog)
      BY DEF TypeOK
<1>2. Len(logs) \in Nat /\ DOMAIN logs = 1 .. Len(logs)
      BY <1>1, LenProperties
<1>3. Correct \subseteq 1 .. Len(logs)
      BY <1>2 DEF Correct
<1>4. IsFiniteSet(1 .. Len(logs))
      BY <1>2, FS_Interval
<1>5. QED
      BY <1>2, <1>3, <1>4, FS_Subset, FS_CardinalityType

\* Correct logs are never taken back, and one more may come.
LEMMA CorrectGrows ==
  ASSUME TypeOK, NEW log \in DecodedLog, logs' = Append(logs, log)
  PROVE  /\ Cardinality(Correct') \in Nat
         /\ Cardinality(Correct) <= Cardinality(Correct')
         /\ (\E c \in Call : log = Logged(c))
              => Cardinality(Correct') = Cardinality(Correct) + 1
<1>1. logs \in Seq(DecodedLog)
      BY DEF TypeOK
<1>2. /\ Len(logs) \in Nat /\ IsFiniteSet(Correct) /\ Cardinality(Correct) \in Nat
      /\ Correct \subseteq 1 .. Len(logs)
      BY CorrectIs
<1>3. /\ logs' \in Seq(DecodedLog) /\ Len(logs') = Len(logs) + 1
      /\ \A i \in 1 .. Len(logs) : logs'[i] = logs[i]
      /\ logs'[Len(logs) + 1] = log
      BY <1>1, AppendProperties
<1>4. DOMAIN logs = 1 .. Len(logs) /\ DOMAIN logs' = 1 .. Len(logs) + 1
      BY <1>1, <1>3, LenProperties
<1> DEFINE Good(x) == \E c \in Call : x = Logged(c)
<1>5. /\ Correct = {i \in DOMAIN logs : Good(logs[i])}
      /\ Correct' = {i \in DOMAIN logs' : Good(logs'[i])}
      BY DEF Correct, Logged, StringOf
<1> HIDE DEF Good
<1>6. Correct' = Correct \cup (IF Good(log) THEN {Len(logs) + 1} ELSE {})
  <2>1. ASSUME NEW i \in Correct' PROVE i \in Correct \/ (Good(log) /\ i = Len(logs) + 1)
    <3>1. i \in 1 .. Len(logs) + 1 /\ Good(logs'[i])
          BY <1>4, <1>5
    <3>2. CASE i = Len(logs) + 1
          BY <1>3, <3>1, <3>2
    <3>3. CASE i # Len(logs) + 1
      <4>1. i \in 1 .. Len(logs)
            BY <1>2, <3>1, <3>3
      <4>2. QED
            BY <1>3, <1>4, <1>5, <3>1, <4>1
    <3>4. QED
          BY <3>2, <3>3
  <2>2. ASSUME NEW i \in Correct PROVE i \in Correct'
    <3>1. i \in 1 .. Len(logs) /\ i \in 1 .. Len(logs) + 1
          BY <1>2
    <3>2. QED
          BY <1>3, <1>4, <1>5, <3>1
  <2>3. Good(log) => Len(logs) + 1 \in Correct'
    <3>1. Len(logs) + 1 \in 1 .. Len(logs) + 1
          BY <1>2
    <3>2. QED
          BY <1>3, <1>4, <1>5, <3>1
  <2>4. QED
        BY <2>1, <2>2, <2>3
<1>7. Len(logs) + 1 \notin Correct
      BY <1>2
<1>8. CASE Good(log)
  <2>1. Cardinality(Correct \cup {Len(logs) + 1}) = Cardinality(Correct) + 1
        BY <1>2, <1>7, FS_AddElement
  <2>2. Correct' = Correct \cup {Len(logs) + 1}
        BY <1>6, <1>8
  <2>3. QED
        BY <1>2, <1>8, <2>1, <2>2
<1>9. CASE ~Good(log)
  <2>1. Correct' = Correct
        BY <1>6, <1>9
  <2>2. QED
        BY <1>2, <1>9, <2>1 DEF Good
<1>10. QED
       BY <1>8, <1>9

LEMMA LossStep ==
  TypeOK /\ QueueEnds /\ IntactInv /\ LossInv /\ [Next]_vars => LossInv'
<1> SUFFICES ASSUME TypeOK, QueueEnds, IntactInv, LossInv, [Next]_vars PROVE LossInv'
    OBVIOUS
<1> DEFINE G == Cardinality(Correct)
<1>0. /\ G \in Nat /\ G + 2 * losses >= count + Balance
      /\ losses \in Nat /\ count \in Nat /\ intact \in BOOLEAN
  <2>1. losses \in 0 .. MaxLoss /\ count \in 0 .. MaxMessages /\ intact \in BOOLEAN
        BY DEF TypeOK
  <2>2. QED
        BY <2>1, CorrectIs, MaxLossAssumption, MaxMessagesAssumption DEF LossInv
<1>1. logs' = logs => Cardinality(Correct') = G
      BY DEF Correct, Logged, StringOf
<1> HIDE DEF G
<1>2. ASSUME NEW c \in Call, Send(c) PROVE LossInv'
  <2>1. Encode(Message(c)) \in Seq(Nat \ {0}) /\ Len(queue') # 0
        BY <1>2, FrameType DEF Send
  <2>2. queue' # << >>
        BY <2>1
  <2>3. /\ queue = << >> /\ count' = count + 1 /\ losses' = losses /\ intact' = intact
        /\ logs' = logs
        BY <1>2 DEF Send
  <2>4. QED
        BY <1>0, <1>1, <2>2, <2>3 DEF LossInv, Balance
<1>3. CASE Lose
  <2>1. /\ queue # << >> /\ losses' = losses + 1 /\ intact' = FALSE
        /\ count' = count /\ logs' = logs
        BY <1>3 DEF Lose
  <2>2. QED
        BY <1>0, <1>1, <2>1 DEF LossInv, Balance
<1>4. CASE FeedByte
  <2>1. /\ queue # << >> /\ Head(queue) # 0 /\ queue' = Tail(queue) /\ queue \in Seq(Nat)
        /\ losses' = losses /\ intact' = intact /\ count' = count /\ logs' = logs
        BY <1>4 DEF FeedByte, TypeOK
  <2>2. queue' # << >>
    <3>1. /\ Len(queue) \in Nat \ {0} /\ queue[1] # 0 /\ Len(queue') = Len(queue) - 1
          BY <2>1, QueueIs
    <3>2. 1 \in 1 .. Len(queue)
          BY <3>1
    <3>3. Len(queue) # 1
          BY <3>1, <3>2 DEF QueueEnds
    <3>4. Len(queue') # 0
          BY <3>1, <3>3
    <3>5. QED
          BY <3>4
  <2>3. QED
        BY <1>0, <1>1, <2>1, <2>2 DEF LossInv, Balance
<1>5. CASE FeedEnd
  <2>1. /\ queue # << >> /\ Head(queue) = 0 /\ queue' = Tail(queue)
        /\ losses' = losses /\ intact' = TRUE /\ count' = count
        BY <1>5 DEF FeedEnd
  <2>2. queue' = << >>
        BY <2>1, LastByte
  <2>3. CASE intact
    <3>1. logs' = Append(logs, Logged(current)) /\ Logged(current) \in DecodedLog
          BY <1>5, <2>3, IntactEnd
    <3>2. current \in Call
          BY DEF TypeOK
    <3>3. Cardinality(Correct') = G + 1
          BY <3>1, <3>2, CorrectGrows DEF G
    <3>4. QED
          BY <1>0, <2>1, <2>2, <2>3, <3>3 DEF LossInv, Balance
  <2>4. CASE ~intact
    <3>1. Cardinality(Correct') \in Nat /\ G <= Cardinality(Correct')
      <4>1. CASE logs' = logs
            BY <1>0, <1>1, <4>1
      <4>2. ASSUME NEW log \in DecodedLog, logs' = Append(logs, log)
            PROVE  Cardinality(Correct') \in Nat /\ G <= Cardinality(Correct')
            BY <4>2, CorrectGrows DEF G
      <4>3. QED
            BY <1>5, <4>1, <4>2, FeedEndLogs
    <3>2. QED
          BY <1>0, <2>1, <2>2, <2>4, <3>1 DEF LossInv, Balance
  <2>5. QED
        BY <2>3, <2>4
<1>6. CASE Restart
  <2>1. /\ losses' = losses + 1 /\ intact' = (intact /\ msgBuffer = << >>)
        /\ queue' = queue /\ count' = count /\ logs' = logs
        BY <1>6 DEF Restart
  <2>2. queue = << >> => intact' = intact
        BY <1>0, <2>1 DEF IntactInv
  <2>3. QED
        BY <1>0, <1>1, <2>1, <2>2 DEF LossInv, Balance
<1>7. CASE UNCHANGED vars
      BY <1>0, <1>1, <1>7 DEF vars, LossInv, Balance
<1>8. QED
      BY <1>2, <1>3, <1>4, <1>5, <1>6, <1>7 DEF Next

(* A lost byte or a restart of the host costs at most two messages, for ever:
   no run of losses can keep the decoder out of step (feed_and_do). *)
THEOREM LossBoundCorrect == Spec => []LossIsBounded
<1>1. Init => LossInv
  <2>1. SUFFICES ASSUME Init PROVE LossInv
        OBVIOUS
  <2>2. TypeOK
        BY <2>1, TypeInit
  <2>3. Cardinality(Correct) \in Nat
        BY <2>2, CorrectIs
  <2>4. count = 0 /\ losses = 0 /\ intact = TRUE /\ queue = << >>
        BY <2>1 DEF Init
  <2>5. QED
        BY <2>3, <2>4 DEF LossInv, Balance
<1>2. TypeOK /\ QueueEnds /\ IntactInv /\ LossInv /\ [Next]_vars => LossInv'
      BY LossStep
<1>3. TypeOK /\ LossInv => LossIsBounded
  <2>1. SUFFICES ASSUME TypeOK, LossInv PROVE LossIsBounded
        OBVIOUS
  <2>2. /\ Cardinality(Correct) \in Nat /\ losses \in Nat /\ count \in Nat
        /\ Cardinality(Correct) + 2 * losses >= count + Balance
    <3>1. losses \in 0 .. MaxLoss /\ count \in 0 .. MaxMessages
          BY <2>1 DEF TypeOK
    <3>2. QED
          BY <2>1, <3>1, CorrectIs, MaxLossAssumption, MaxMessagesAssumption DEF LossInv
  <2>3. QED
        BY <2>2 DEF Balance, LossIsBounded, Complete
<1>4. QED
      BY <1>1, <1>2, <1>3, FrameInvariant, PTL DEF Spec

=============================================================================
