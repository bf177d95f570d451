----------------------------- MODULE RttProofs -----------------------------
(***************************************************************************)
(* Proofs about RttTransport for every ring size, host buffer, byte set    *)
(* and number of writes, from them about the sessions of RttSession, and   *)
(* then about the logs that these print in EndToEnd, for every set of      *)
(* messages and any number of overruns, sessions and resets.               *)
(***************************************************************************)
EXTENDS EndToEnd, RcobsProofs

Cell == Byte \cup {Uninit}

-----------------------------------------------------------------------------
(* Ring arithmetic. *)

LEMMA NextPtrType == \A p \in Slot : NextPtr(p) \in Slot
BY SizeAssumption DEF Slot, NextPtr

LEMMA DistType == \A p, q \in Slot : Dist(p, q) \in 0 .. Size - 1
BY SizeAssumption DEF Slot, Dist

LEMMA SlotAtType == \A p \in Slot, k \in 0 .. Size - 1 : SlotAt(p, k) \in Slot
BY SizeAssumption DEF Slot, SlotAt

\* Moving a cursor on by one lengthens the distance to it by one, unless that
\* makes it meet the cursor it is measured from.
LEMMA DistNext ==
  ASSUME NEW p \in Slot, NEW q \in Slot, NextPtr(q) # p
  PROVE  Dist(p, NextPtr(q)) = Dist(p, q) + 1
BY SizeAssumption DEF Slot, NextPtr, Dist

\* A slot and its distance determine each other.
LEMMA SlotOfDist ==
  ASSUME NEW p \in Slot, NEW q \in Slot
  PROVE  /\ SlotAt(p, Dist(p, q)) = q
         /\ Dist(p, p) = 0
         /\ Dist(p, q) = 0 => p = q
         /\ \A k \in 0 .. Size - 1 : Dist(p, SlotAt(p, k)) = k
BY SizeAssumption DEF Slot, Dist, SlotAt

\* Measuring from a cursor m on the way from p to q.
LEMMA DistSplit ==
  ASSUME NEW p \in Slot, NEW m \in Slot, NEW q \in Slot,
         Dist(p, m) <= Dist(p, q)
  PROVE  /\ Dist(m, q) = Dist(p, q) - Dist(p, m)
         /\ \A k \in 0 .. Dist(m, q) : SlotAt(m, k) = SlotAt(p, Dist(p, m) + k)
BY SizeAssumption DEF Slot, Dist, SlotAt

-----------------------------------------------------------------------------
(* Type correctness. *)

LEMMA TypeStep == TypeOK /\ [Next]_vars => TypeOK'
<1> SUFFICES ASSUME TypeOK, [Next]_vars PROVE TypeOK'
    OBVIOUS
<1> USE DEF TypeOK
<1>1. ASSUME NEW b \in Byte, WriteByte(b) PROVE TypeOK'
      BY <1>1 DEF WriteByte, channel, host
<1>2. CASE CheckFull
      BY <1>2 DEF CheckFull, channel, host, history
<1>3. CASE Publish
      BY <1>3 DEF Publish, host, history
<1>4. CASE Store
      BY <1>4, NextPtrType DEF Store, host
<1>5. CASE Commit
      BY <1>5 DEF Commit, target, host, history
<1>6. CASE Poll
      BY <1>6 DEF Poll, channel, target, history
<1>7. CASE Copy
      BY <1>7, NextPtrType DEF Copy, channel, target, history
<1>8. CASE Ack
      BY <1>8, ConcatProperties DEF Ack, target
<1>9. ASSUME NEW m \in Flags, SetMode(m) PROVE TypeOK'
      BY <1>9 DEF SetMode, target, host, history
<1>10. CASE Abandon
      BY <1>10 DEF Abandon, channel, target, history
<1>11. CASE UNCHANGED vars
      BY <1>11 DEF vars
<1>12. QED
      BY <1>1, <1>2, <1>3, <1>4, <1>5, <1>6, <1>7, <1>8, <1>9, <1>10, <1>11
      DEF Next, Transfer

LEMMA TypeInit == Init => TypeOK
<1> SUFFICES ASSUME Init PROVE TypeOK
    OBVIOUS
<1>1. 0 \in Slot
      BY SizeAssumption DEF Slot
<1>2. sent \in Seq(Byte) /\ received \in Seq(Cell) /\ batch \in Seq(Cell)
      BY EmptySeq DEF Init
<1>3. buffer \in [Slot -> Cell]
      BY DEF Init, Cell
<1>4. QED
      BY <1>1, <1>2, <1>3 DEF Init, TypeOK, Cell

(* Every cursor, flag and history stays in its type, for every ring size. *)
THEOREM TypeCorrect == Spec => []TypeOK
BY TypeInit, TypeStep, PTL DEF Spec

-----------------------------------------------------------------------------
(* The ring invariant. *)

LEMMA RingInit == Init => RingInv
<1> SUFFICES ASSUME Init PROVE RingInv
    OBVIOUS
<1>1. Dist(0, 0) = 0
      BY DEF Dist
<1>2. CursorsOrdered /\ BytesInPlace
      BY <1>1 DEF Init, CursorsOrdered, BytesInPlace
<1>3. RoomToStore
      BY DEF Init, RoomToStore
<1>4. UninitAhead
      BY SizeAssumption DEF Init, UninitAhead, Slot
<1>5. QED
      BY <1>2, <1>3, <1>4 DEF Init, RingInv, OverrunNeedsTrim

LEMMA PublishRing ==
  ASSUME TypeOK, RingInv, write' = writePtr,
         pc' \in {"idle", "wait"},
         UNCHANGED <<buffer, read, writePtr, host, history>>
  PROVE  RingInv'
<1> USE DEF TypeOK, host, history
<1>1. ASSUME ~overrun PROVE CursorsOrdered'
  <2>1. /\ Dist(read, writePtr) \in Nat /\ Dist(read, write) \in Nat
        /\ Dist(read, hWrite) \in Nat /\ Dist(read, hRead) \in Nat
        BY DistType
  <2>2. QED
        BY <1>1, <2>1 DEF RingInv, CursorsOrdered
<1>2. ASSUME ~overrun PROVE BytesInPlace'
      BY <1>2 DEF RingInv, BytesInPlace
<1>3. RoomToStore'
      BY DEF RoomToStore
<1>4. UninitAhead'
      BY SizeAssumption DEF RingInv, UninitAhead, Slot
<1>5. QED
      BY <1>1, <1>2, <1>3, <1>4 DEF RingInv, OverrunNeedsTrim

LEMMA StoreRing ==
  ASSUME TypeOK, RingInv, Store
  PROVE  RingInv'
<1> USE DEF TypeOK, Store, host
<1> DEFINE next == NextPtr(writePtr)
<1>0. next \in Slot
      BY NextPtrType
<1>1. ASSUME ~overrun' PROVE CursorsOrdered' /\ BytesInPlace'
  <2>1. ~overrun /\ next # read
        BY <1>1
  <2>2. CursorsOrdered /\ BytesInPlace
        BY <2>1 DEF RingInv
  <2>3. Dist(read, next) = Dist(read, writePtr) + 1
        BY <2>1, DistNext
  <2>4. /\ Dist(read, write) \in Nat
        /\ Dist(read, writePtr) \in 0 .. Size - 1
        /\ Dist(read, next) \in 0 .. Size - 1
        BY <1>0, DistType
  <2>5. CursorsOrdered'
        BY <2>2, <2>3, <2>4 DEF CursorsOrdered
  <2>6. sent' \in Seq(Byte) /\ Len(sent') = Len(sent) + 1
        OBVIOUS
  <2>7. \A i \in 1 .. Len(sent) : sent'[i] = sent[i]
        OBVIOUS
  <2>8. Len(sent') = Len(received) + Dist(read, next)
        BY <2>2, <2>3, <2>4, <2>6 DEF BytesInPlace
  <2>9. \A i \in 1 .. Len(received) : received[i] = sent'[i]
        BY <2>2, <2>4, <2>7 DEF BytesInPlace
  <2>10. ASSUME NEW k \in 1 .. Dist(read, next)
         PROVE  buffer'[SlotAt(read, k - 1)] = sent'[Len(received) + k]
    <3>1. k - 1 \in 0 .. Size - 1 /\ SlotAt(read, k - 1) \in Slot
          BY <2>4, SlotAtType, SizeAssumption
    <3>2. CASE k = Dist(read, next)
      <4>1. SlotAt(read, k - 1) = writePtr
            BY <3>2, <2>3, <2>4, SlotOfDist
      <4>2. buffer'[writePtr] = value
            OBVIOUS
      <4>3. Len(received) + k = Len(sent) + 1
            BY <3>2, <2>3, <2>4, <2>2 DEF BytesInPlace
      <4>4. QED
            BY <4>1, <4>2, <4>3
    <3>3. CASE k # Dist(read, next)
      <4>1. k \in 1 .. Dist(read, writePtr)
            BY <3>3, <2>3, <2>4
      <4>2. SlotAt(read, k - 1) # writePtr
            BY <4>1, <3>1, <2>4, SlotOfDist
      <4>3. buffer'[SlotAt(read, k - 1)] = buffer[SlotAt(read, k - 1)]
            BY <4>2, <3>1
      <4>4. Len(received) + k \in 1 .. Len(sent)
            BY <4>1, <2>2, <2>4 DEF BytesInPlace
      <4>5. QED
            BY <4>1, <4>3, <4>4, <2>2, <2>7 DEF BytesInPlace
    <3>4. QED
          BY <3>2, <3>3
  <2>11. ASSUME hpc = "copy"
         PROVE  /\ Len(batch) = Dist(read, hRead)
                /\ \A k \in 1 .. Len(batch) : batch[k] = sent'[Len(received) + k]
    <3>1. Dist(read, hRead) \in Nat /\ Dist(read, hWrite) \in Nat
          BY DistType
    <3>2. Dist(read, hRead) <= Dist(read, writePtr)
          BY <2>11, <3>1, <2>2, <2>4 DEF CursorsOrdered
    <3>3. \A k \in 1 .. Len(batch) : Len(received) + k \in 1 .. Len(sent)
          BY <2>11, <3>1, <3>2, <2>2, <2>4 DEF BytesInPlace
    <3>4. QED
          BY <2>11, <3>3, <2>2, <2>7 DEF BytesInPlace
  <2>12. BytesInPlace'
         BY <2>8, <2>9, <2>10, <2>11 DEF BytesInPlace
  <2>13. QED
         BY <2>5, <2>12
<1>2. RoomToStore'
      BY DEF RoomToStore
<1>3. UninitAhead'
      BY SizeAssumption, UninitAssumption DEF RingInv, UninitAhead, Slot, NextPtr
<1>4. OverrunNeedsTrim'
      BY DEF RingInv, RoomToStore, OverrunNeedsTrim
<1>5. QED
      BY <1>1, <1>2, <1>3, <1>4 DEF RingInv

LEMMA PollRing ==
  ASSUME TypeOK, RingInv, Poll
  PROVE  RingInv'
<1> USE DEF TypeOK, Poll, channel, target, history
<1>1. ASSUME ~overrun PROVE CursorsOrdered'
  <2>1. Dist(read, read) = 0 /\ Dist(read, write) \in Nat
        BY DistType, SlotOfDist
  <2>2. QED
        BY <1>1, <2>1 DEF RingInv, CursorsOrdered
<1>2. ASSUME ~overrun PROVE BytesInPlace'
  <2>1. Dist(read, read) = 0
        BY SlotOfDist
  <2>2. QED
        BY <1>2, <2>1 DEF RingInv, BytesInPlace
<1>3. RoomToStore'
      BY DEF RingInv, RoomToStore
<1>4. UninitAhead'
      BY SizeAssumption DEF RingInv, UninitAhead, Slot
<1>5. QED
      BY <1>1, <1>2, <1>3, <1>4 DEF RingInv, OverrunNeedsTrim

LEMMA CopyRing ==
  ASSUME TypeOK, RingInv, Copy
  PROVE  RingInv'
<1> USE DEF TypeOK, Copy, channel, target, history
<1> DEFINE next == NextPtr(hRead)
<1>0. /\ next \in Slot
      /\ batch' \in Seq(Cell) /\ Len(batch') = Len(batch) + 1
      /\ batch'[Len(batch) + 1] = buffer[hRead]
      /\ \A k \in 1 .. Len(batch) : batch'[k] = batch[k]
      BY NextPtrType DEF Cell
<1>1. ASSUME ~overrun' PROVE CursorsOrdered' /\ BytesInPlace'
  <2>1. CursorsOrdered /\ BytesInPlace
        BY <1>1 DEF RingInv
  <2>2. /\ Dist(read, hRead) \in Nat /\ Dist(read, hWrite) \in Nat
        /\ Dist(read, write) \in Nat /\ Dist(read, writePtr) \in 0 .. Size - 1
        BY DistType
  <2>3. Dist(read, hRead) # Dist(read, hWrite)
    <3>1. SlotAt(read, Dist(read, hRead)) = hRead
          BY SlotOfDist
    <3>2. SlotAt(read, Dist(read, hWrite)) = hWrite
          BY SlotOfDist
    <3>3. QED
          BY <3>1, <3>2
  <2>4. Dist(read, hRead) < Dist(read, hWrite)
        BY <2>1, <2>2, <2>3 DEF CursorsOrdered
  <2>5. next # read
    <3>1. Dist(read, hWrite) \in 0 .. Size - 1
          BY DistType
    <3>2. QED
          BY <2>4, <3>1, SizeAssumption DEF NextPtr, Dist, Slot
  <2>6. Dist(read, next) = Dist(read, hRead) + 1
        BY <2>5, DistNext
  <2>7. CursorsOrdered'
        BY <2>1, <2>2, <2>4, <2>6 DEF CursorsOrdered
  <2>8. Len(batch) = Dist(read, hRead) /\ Len(batch) \in Nat
        BY <2>1 DEF BytesInPlace
  <2>9. buffer[hRead] = sent[Len(received) + Len(batch) + 1]
    <3>1. Len(batch) + 1 \in 1 .. Dist(read, writePtr)
          BY <2>1, <2>2, <2>4, <2>8 DEF CursorsOrdered
    <3>2. SlotAt(read, (Len(batch) + 1) - 1) = hRead
          BY <2>2, <2>8, SlotOfDist
    <3>3. buffer[SlotAt(read, (Len(batch) + 1) - 1)]
            = sent[Len(received) + (Len(batch) + 1)]
          BY <2>1, <3>1 DEF BytesInPlace
    <3>4. Len(received) \in Nat
          OBVIOUS
    <3>5. QED
          BY <3>2, <3>3, <3>4, <2>8
  <2>10. \A k \in 1 .. Len(batch') : batch'[k] = sent[Len(received) + k]
    <3>1. ASSUME NEW k \in 1 .. Len(batch') PROVE batch'[k] = sent[Len(received) + k]
      <4>1. CASE k = Len(batch) + 1
            BY <4>1, <1>0, <2>9, <2>8
      <4>2. CASE k # Len(batch) + 1
        <5>1. k \in 1 .. Len(batch)
              BY <4>2, <1>0, <2>8
        <5>2. QED
              BY <5>1, <1>0, <2>1 DEF BytesInPlace
      <4>3. QED
            BY <4>1, <4>2
    <3>2. QED
          BY <3>1
  <2>11. BytesInPlace'
         BY <2>1, <1>0, <2>6, <2>8, <2>10 DEF BytesInPlace
  <2>12. QED
         BY <2>7, <2>11
<1>2. RoomToStore'
      BY DEF RingInv, RoomToStore
<1>3. UninitAhead'
  <2>1. ASSUME NEW i \in Slot, buffer[i] = Uninit
        PROVE  read <= next /\ next <= hWrite
        BY <2>1, SizeAssumption DEF RingInv, UninitAhead, Slot, NextPtr
  <2>2. buffer[hRead] # Uninit
        BY SizeAssumption DEF RingInv, UninitAhead, Slot
  <2>3. \A k \in DOMAIN batch' : batch'[k] # Uninit
        BY <1>0, <2>2 DEF RingInv, UninitAhead
  <2>4. QED
        BY <2>1, <2>3 DEF RingInv, UninitAhead
<1>4. OverrunNeedsTrim'
      BY DEF RingInv, RoomToStore, OverrunNeedsTrim
<1>5. QED
      BY <1>1, <1>2, <1>3, <1>4 DEF RingInv

LEMMA AckRing ==
  ASSUME TypeOK, RingInv, Ack
  PROVE  RingInv'
<1> USE DEF TypeOK, Ack, target
<1>0. /\ received' \in Seq(Cell)
      /\ Len(received') = Len(received) + Len(batch)
      /\ \A i \in 1 .. Len(received) : received'[i] = received[i]
      /\ \A k \in 1 .. Len(batch) : received'[Len(received) + k] = batch[k]
  <2> USE DEF Cell
  <2>1. batch \in Seq(Cell) /\ received \in Seq(Cell)
        OBVIOUS
  <2>2. Len(batch) \in Nat /\ Len(received) \in Nat
        BY <2>1
  <2>3. QED
        BY <2>1, <2>2, ConcatProperties
<1>1. ASSUME ~overrun
      PROVE  CursorsOrdered' /\ BytesInPlace' /\ RoomToStore'
  <2>1. CursorsOrdered /\ BytesInPlace
        BY <1>1 DEF RingInv
  <2>2. /\ Dist(read, hRead) \in Nat /\ Dist(read, hWrite) \in Nat
        /\ Dist(read, write) \in Nat /\ Dist(read, writePtr) \in 0 .. Size - 1
        /\ Dist(hRead, writePtr) \in 0 .. Size - 1
        BY DistType
  <2>0. Len(received) \in Nat /\ Len(batch) \in Nat
        BY DEF Cell
  <2>3. /\ Dist(read, hRead) <= Dist(read, write)
        /\ Dist(read, write) <= Dist(read, writePtr)
        /\ Len(batch) = Dist(read, hRead)
        BY <2>1, <2>0, <2>2 DEF CursorsOrdered, BytesInPlace
  <2>4. Dist(hRead, write) = Dist(read, write) - Dist(read, hRead)
        BY <2>3, DistSplit
  <2>5. /\ Dist(hRead, writePtr) = Dist(read, writePtr) - Dist(read, hRead)
        /\ \A k \in 0 .. Dist(hRead, writePtr) :
             SlotAt(hRead, k) = SlotAt(read, Dist(read, hRead) + k)
    <3>1. Dist(read, hRead) <= Dist(read, writePtr)
          BY <2>0, <2>2, <2>3
    <3>2. QED
          BY <3>1, DistSplit
  <2>6. CursorsOrdered'
        BY <2>0, <2>2, <2>3, <2>4, <2>5 DEF CursorsOrdered
  <2>7. Len(sent) = Len(received') + Dist(hRead, writePtr)
        BY <2>1, <2>0, <2>2, <2>3, <2>5, <1>0 DEF BytesInPlace
  <2>8. ASSUME NEW i \in 1 .. Len(received')
        PROVE  received'[i] = sent[i]
    <3>1. CASE i <= Len(received)
          BY <3>1, <1>0, <2>1, <2>0, <2>2 DEF BytesInPlace
    <3>2. CASE i > Len(received)
      <4>1. i - Len(received) \in 1 .. Len(batch)
            BY <3>2, <1>0, <2>0, <2>2
      <4>2. received'[Len(received) + (i - Len(received))] = batch[i - Len(received)]
            BY <4>1, <1>0
      <4>3. batch[i - Len(received)] = sent[Len(received) + (i - Len(received))]
            BY <4>1, <2>1 DEF BytesInPlace
      <4>4. QED
            BY <4>2, <4>3, <2>0, <2>2, <1>0
    <3>3. QED
          BY <3>1, <3>2, <1>0, <2>0, <2>2
  <2>9. ASSUME NEW k \in 1 .. Dist(hRead, writePtr)
        PROVE  buffer[SlotAt(hRead, k - 1)] = sent[Len(received') + k]
    <3>1. k - 1 \in 0 .. Dist(hRead, writePtr)
          BY <2>0, <2>2
    <3>2. SlotAt(hRead, k - 1) = SlotAt(read, Dist(read, hRead) + (k - 1))
          BY <3>1, <2>5
    <3>3. Dist(read, hRead) + k \in 1 .. Dist(read, writePtr)
          BY <2>0, <2>2, <2>5
    <3>4. buffer[SlotAt(read, (Dist(read, hRead) + k) - 1)]
            = sent[Len(received) + (Dist(read, hRead) + k)]
          BY <3>3, <2>1 DEF BytesInPlace
    <3>5. QED
          BY <3>2, <3>4, <2>0, <2>2, <2>3, <1>0, SMTT(30)
  <2>10. BytesInPlace'
         BY <2>7, <2>8, <2>9 DEF BytesInPlace
  <2>11. RoomToStore'
    <3>1. SUFFICES ASSUME pc = "store", ~trimmed PROVE NextPtr(writePtr) # hRead
          BY DEF RoomToStore
    <3>2. NextPtr(writePtr) # read
          BY <3>1 DEF RingInv, RoomToStore
    <3>3. Dist(read, NextPtr(writePtr)) = Dist(read, writePtr) + 1
          BY <3>2, DistNext
    <3>4. QED
          BY <3>3, <2>0, <2>2, <2>3
  <2>12. QED
         BY <2>6, <2>10, <2>11
<1>2. UninitAhead'
      BY SizeAssumption DEF RingInv, UninitAhead, Slot
<1>3. CASE overrun
      BY <1>2, <1>3 DEF RingInv, RoomToStore, OverrunNeedsTrim
<1>4. CASE ~overrun
      BY <1>1, <1>2, <1>4 DEF RingInv, OverrunNeedsTrim
<1>5. QED
      BY <1>3, <1>4

LEMMA RingStep == TypeOK /\ RingInv /\ [Next]_vars => RingInv'
<1> SUFFICES ASSUME TypeOK, RingInv, [Next]_vars PROVE RingInv'
    OBVIOUS
<1> USE DEF RingInv, OverrunNeedsTrim, CursorsOrdered, BytesInPlace,
            RoomToStore, UninitAhead
<1>1. ASSUME NEW b \in Byte, WriteByte(b) PROVE RingInv'
  <2>1. /\ UNCHANGED <<channel, writePtr, host, sent, received, overrun>>
        /\ trimmed => trimmed'
        BY <1>1 DEF WriteByte
  <2>2. RoomToStore'
        BY <1>1 DEF WriteByte, TypeOK, Flags
  <2>3. QED
        BY <2>1, <2>2 DEF channel, host
<1>2. CASE CheckFull
      BY <1>2 DEF CheckFull, channel, host, history
<1>3. CASE Publish
      BY <1>3, PublishRing DEF Publish
<1>4. CASE Store
      BY <1>4, StoreRing
<1>5. CASE Commit
      BY <1>5, PublishRing DEF Commit, target
<1>6. CASE Poll
      BY <1>6, PollRing
<1>7. CASE Copy
      BY <1>7, CopyRing
<1>8. CASE Ack
      BY <1>8, AckRing
<1>9. ASSUME NEW m \in Flags, SetMode(m) PROVE RingInv'
      BY <1>9 DEF SetMode, target, host, history
<1>10. CASE Abandon
      BY <1>10 DEF Abandon, channel, target, history
<1>11. CASE UNCHANGED vars
      BY <1>11 DEF vars
<1>12. QED
      BY <1>1, <1>2, <1>3, <1>4, <1>5, <1>6, <1>7, <1>8, <1>9, <1>10, <1>11
      DEF Next, Transfer

(* The cursors keep their order and every byte its place, in every mode and
   under every interleaving of target, host and mode changes. *)
THEOREM RingInvariant == Spec => []RingInv
<1>1. TypeOK /\ RingInv /\ [Next]_vars => RingInv'
      BY RingStep
<1>2. QED
      BY <1>1, RingInit, TypeCorrect, PTL DEF Spec

-----------------------------------------------------------------------------
(* What the invariant gives. *)

LEMMA FifoFromRing == TypeOK /\ RingInv => FifoIntact
<1> SUFFICES ASSUME TypeOK, RingInv, ~overrun PROVE sent = received \o Pending
    BY DEF FifoIntact
<1> DEFINE n == Dist(read, writePtr)
<1>1. BytesInPlace
      BY DEF RingInv
<1>2. n \in 0 .. Size - 1
      BY DistType DEF TypeOK
<1>3. n \in Nat
      BY <1>2
<1>4. \A k \in 1 .. n : buffer[SlotAt(read, k - 1)] \in Cell
  <2>1. \A k \in 1 .. n : k - 1 \in 0 .. Size - 1
        BY <1>2, SizeAssumption
  <2>2. \A k \in 1 .. n : SlotAt(read, k - 1) \in Slot
        BY <2>1, SlotAtType DEF TypeOK
  <2>3. QED
        BY <2>2 DEF TypeOK, Cell
<1>5. Pending \in Seq(Cell) /\ Len(Pending) = n
  <2>1. Pending \in [1 .. n -> Cell]
        BY <1>4 DEF Pending
  <2>2. QED
        BY <2>1, <1>3
<1>6. /\ received \in Seq(Cell) /\ sent \in Seq(Cell)
      /\ Len(received) \in Nat
      BY SeqMonotonic DEF TypeOK, Cell
<1>7. /\ received \o Pending \in Seq(Cell)
      /\ Len(received \o Pending) = Len(received) + n
      /\ \A i \in 1 .. Len(received) + n : (received \o Pending)[i] =
            IF i <= Len(received) THEN received[i] ELSE Pending[i - Len(received)]
      BY <1>5, <1>6, ConcatProperties
<1>8. ASSUME NEW i \in 1 .. Len(sent)
      PROVE  sent[i] = (received \o Pending)[i]
  <2>1. i \in 1 .. Len(received) + n
        BY <1>1 DEF BytesInPlace
  <2>2. CASE i <= Len(received)
        BY <2>1, <2>2, <1>1, <1>6, <1>7 DEF BytesInPlace
  <2>3. CASE ~(i <= Len(received))
    <3>1. i - Len(received) \in 1 .. n
          BY <2>1, <2>3, <1>3, <1>6
    <3>2. Pending[i - Len(received)] = buffer[SlotAt(read, (i - Len(received)) - 1)]
          BY <3>1 DEF Pending
    <3>3. buffer[SlotAt(read, (i - Len(received)) - 1)]
            = sent[Len(received) + (i - Len(received))]
          BY <3>1, <1>1 DEF BytesInPlace
    <3>4. Len(received) + (i - Len(received)) = i
          BY <1>6
    <3>5. QED
          BY <2>1, <2>3, <3>2, <3>3, <3>4, <1>6, <1>7
  <2>4. QED
        BY <2>2, <2>3
<1>9. Len(sent) = Len(received \o Pending)
      BY <1>1, <1>7 DEF BytesInPlace
<1>10. QED
       BY <1>6, <1>7, <1>8, <1>9, SeqEqual

(* No byte is lost, doubled or reordered before a store laps the reader. *)
THEOREM FifoCorrect == Spec => []FifoIntact
BY FifoFromRing, TypeCorrect, RingInvariant, PTL

(* The wait loop of write() is enough to keep the writer behind the reader. *)
THEOREM BlockingNeverOverruns == Spec => []OverrunNeedsTrim
<1>1. RingInv => OverrunNeedsTrim
      BY DEF RingInv
<1>2. QED
      BY <1>1, RingInvariant, PTL

(* The host is never handed memory the target has not written. *)
THEOREM HostReadsWrittenMemory == Spec => []NoUninitRead
<1>1. Init => NoUninitRead
      BY DEF Init, NoUninitRead
<1>2. ASSUME TypeOK, RingInv, NoUninitRead, [Next]_vars PROVE NoUninitRead'
  <2>1. CASE Ack
    <3>1. /\ Len(received) \in Nat /\ Len(batch) \in Nat
          /\ DOMAIN batch = 1 .. Len(batch)
          /\ DOMAIN received = 1 .. Len(received)
          BY <1>2 DEF TypeOK
    <3>2. \A k \in 1 .. Len(batch) : batch[k] # Uninit
          BY <1>2, <2>1, <3>1 DEF RingInv, UninitAhead, Ack
    <3>3. \A i \in 1 .. Len(received) + Len(batch) :
            (received \o batch)[i] = IF i <= Len(received) THEN received[i]
                                     ELSE batch[i - Len(received)]
          BY <1>2, ConcatProperties DEF TypeOK
    <3>4. /\ received' = received \o batch
          /\ DOMAIN (received \o batch) = 1 .. Len(received) + Len(batch)
          BY <1>2, <2>1, ConcatProperties, LenProperties DEF TypeOK, Ack
    <3>5. ASSUME NEW i \in 1 .. Len(received) + Len(batch)
          PROVE  (received \o batch)[i] # Uninit
      <4>1. CASE i <= Len(received)
            BY <4>1, <1>2, <3>1, <3>3 DEF NoUninitRead
      <4>2. CASE i > Len(received)
        <5>1. i - Len(received) \in 1 .. Len(batch)
              BY <4>2, <3>1
        <5>2. QED
              BY <4>2, <5>1, <3>1, <3>2, <3>3
      <4>3. QED
            BY <4>1, <4>2, <3>1
    <3>6. QED
          BY <3>4, <3>5 DEF NoUninitRead
  <2>2. CASE ~Ack
    <3>1. received' = received
          BY <1>2, <2>2 DEF Next, Transfer, WriteByte, CheckFull, Publish, Store,
             Commit, Poll, Copy, Abandon, SetMode, history, vars
    <3>2. QED
          BY <3>1, <1>2 DEF NoUninitRead
  <2>3. QED
        BY <2>1, <2>2
<1>3. QED
      BY <1>1, <1>2, TypeCorrect, RingInvariant, PTL DEF Spec

-----------------------------------------------------------------------------
(* Refinement. *)

Blocking == flags = BLOCK_IF_FULL /\ ~trimmed

LEMMA BlockingInvariant == BlockingSpec => [](TypeOK /\ RingInv /\ Blocking)
<1>1. BlockingInit => TypeOK /\ RingInv /\ Blocking
      BY TypeInit, RingInit DEF BlockingInit, Init, Blocking
<1>2. ASSUME TypeOK, RingInv, Blocking, [Transfer]_vars
      PROVE  TypeOK' /\ RingInv' /\ Blocking'
  <2>1. [Next]_vars
        BY <1>2 DEF Next
  <2>2. Blocking'
    <3>1. ASSUME NEW b \in Byte, WriteByte(b) PROVE Blocking'
          BY <1>2, <3>1 DEF Blocking, WriteByte, channel
    <3>2. CASE UNCHANGED <<flags, trimmed>>
          BY <1>2, <3>2 DEF Blocking
    <3>3. QED
          BY <1>2, <3>1, <3>2 DEF Transfer, CheckFull, Publish, Store, Commit,
             Poll, Copy, Ack, channel, history, vars
  <2>3. QED
        BY <1>2, <2>1, <2>2, TypeStep, RingStep
<1>3. QED
      BY <1>1, <1>2, PTL DEF BlockingSpec

LEMMA StoreSends ==
  ASSUME TypeOK, RingInv, Blocking, Store
  PROVE  Abstract!Send(value)
<1>1. NextPtr(writePtr) # read /\ ~overrun
      BY DEF RingInv, RoomToStore, OverrunNeedsTrim, Blocking, Store
<1>2. Dist(read, NextPtr(writePtr)) = Dist(read, writePtr) + 1
      BY <1>1, DistNext DEF TypeOK
<1>3. /\ Dist(read, NextPtr(writePtr)) \in 0 .. Size - 1
      /\ Dist(read, writePtr) \in Nat
  <2>1. NextPtr(writePtr) \in Slot /\ writePtr \in Slot /\ read \in Slot
        BY NextPtrType DEF TypeOK
  <2>2. QED
        BY <2>1, DistType
<1>4. Len(sent) = Len(received) + Dist(read, writePtr)
      BY <1>1 DEF RingInv, BytesInPlace
<1>5. Len(received) \in Nat
      BY DEF TypeOK
<1>6. Len(sent) - Len(received) < Size - 1
      BY <1>2, <1>3, <1>4, <1>5, SizeAssumption
<1>7. QED
      BY <1>6 DEF Abstract!Send, Store

LEMMA AckDelivers ==
  ASSUME TypeOK, RingInv, Blocking, Ack
  PROVE  \/ UNCHANGED <<sent, received>>
         \/ \E n \in (Len(received) + 1) .. Len(sent) : Abstract!Deliver(n)
<1> DEFINE n == Len(received) + Len(batch)
<1>1. ~overrun /\ ~overrun'
      BY DEF RingInv, OverrunNeedsTrim, Blocking, Ack
<1>2. BytesInPlace /\ BytesInPlace'
      BY <1>1, AckRing DEF RingInv
<1>3. /\ received' \in Seq(Cell) /\ Len(received') = n
      /\ Len(received) \in Nat /\ Len(batch) \in Nat
      BY ConcatProperties DEF TypeOK, Ack, Cell
<1>4. n <= Len(sent)
  <2>1. Dist(read', writePtr') \in Nat
        BY DistType DEF TypeOK, Ack, target
  <2>2. QED
        BY <2>1, <1>2, <1>3 DEF BytesInPlace, Ack
<1>5. received' = SubSeq(sent, 1, n)
  <2>1. sent \in Seq(Cell) /\ \A i \in 1 .. n : sent[i] \in Cell
        BY <1>3, <1>4, SeqMonotonic, ElementOfSeq DEF TypeOK, Cell
  <2>2. /\ SubSeq(sent, 1, n) \in Seq(Cell)
        /\ Len(SubSeq(sent, 1, n)) = n
        /\ \A i \in 1 .. n : SubSeq(sent, 1, n)[i] = sent[i]
        BY <2>1, <1>3, SubSeqProperties
  <2>3. \A i \in 1 .. n : received'[i] = sent[i]
        BY <1>2, <1>3 DEF BytesInPlace, Ack
  <2>4. QED
        BY <2>2, <2>3, <1>3, SeqEqual
<1>6. sent' = sent
      BY DEF Ack
<1>7. CASE Len(batch) = 0
  <2>1. batch = << >>
        BY <1>7 DEF TypeOK
  <2>2. received \o batch = received
        BY <2>1, ConcatEmptySeq DEF TypeOK
  <2>3. QED
        BY <2>2, <1>6 DEF Ack
<1>8. CASE Len(batch) # 0
  <2>1. n \in (Len(received) + 1) .. Len(sent)
        BY <1>8, <1>3, <1>4 DEF TypeOK
  <2>2. QED
        BY <2>1, <1>5, <1>6 DEF Abstract!Deliver
<1>9. QED
      BY <1>7, <1>8

(* While blocking, the ring, its cursors and the host's polling implement a
   loss-free first-in first-out channel of Size - 1 bytes. *)
THEOREM RingImplementsByteChannel == BlockingSpec => ImplementsByteChannel
<1>1. BlockingInit => Abstract!Init
      BY DEF BlockingInit, Init, Abstract!Init
<1>2. ASSUME TypeOK, RingInv, Blocking, [Transfer]_vars
      PROVE  [Abstract!Next]_(Abstract!channelVars)
  <2>1. CASE Store
        BY <2>1, <1>2, StoreSends DEF Abstract!Next, TypeOK
  <2>2. CASE Ack
        BY <2>2, <1>2, AckDelivers DEF Abstract!Next, Abstract!channelVars
  <2>3. CASE ~Store /\ ~Ack
    <3>1. UNCHANGED <<sent, received>>
          BY <1>2, <2>3 DEF Transfer, WriteByte, CheckFull, Publish, Commit, Poll,
             Copy, history, vars
    <3>2. QED
          BY <3>1 DEF Abstract!channelVars
  <2>4. QED
        BY <2>1, <2>2, <2>3
<1>3. QED
      BY <1>1, <1>2, BlockingInvariant, PTL
      DEF BlockingSpec, ImplementsByteChannel, Abstract!Spec
-----------------------------------------------------------------------------
(* A session of postform_rtt. *)

\* Each of its steps is one of the channel or leaves the channel alone.
LEMMA SessionStepIsTransport ==
  ASSUME [SessionNext]_sessionVars
  PROVE  [Next]_vars
<1>1. CASE TargetCall
      BY <1>1 DEF TargetCall, Next, Transfer
<1>2. CASE TargetProgress
      BY <1>2 DEF TargetProgress, Next, Transfer
<1>3. CASE Configure
  <2>1. SetMode(BLOCK_IF_FULL)
        BY <1>3 DEF Configure
  <2>2. QED
        BY <2>1 DEF Next, Flags
<1>4. CASE ReadBytes \/ ReadReturns
      BY <1>4 DEF ReadBytes, ReadReturns, Next, Transfer
<1>5. CASE Restore
  <2>1. SetMode(NO_BLOCK_TRIM)
        BY <1>5 DEF Restore
  <2>2. QED
        BY <2>1 DEF Next, Flags
<1>6. CASE Fail
  <2>1. Abandon \/ UNCHANGED vars
        BY <1>6 DEF Fail
  <2>2. QED
        BY <2>1 DEF Next
<1>7. CASE UNCHANGED vars
      BY <1>7
<1>8. QED
      BY <1>1, <1>2, <1>3, <1>4, <1>5, <1>6, <1>7 DEF SessionNext, HostMain,
         Download, Attach, RunCore, DisableDebug, GdbHaltsOrResumes, ReadNothing,
         CheckStop, CtrlC, Reattach, sessionVars, vars

(* Every session is a behaviour of the channel, so that what is proved of
   RttTransport holds in every session. *)
THEOREM SessionIsTransport == SessionSpec => Spec
<1>1. SessionInit => Init
      BY DEF SessionInit
<1>2. [SessionNext]_sessionVars => [Next]_vars
      BY SessionStepIsTransport
<1>3. QED
      BY <1>1, <1>2, PTL DEF SessionSpec, Spec

LEMMA SessionTypeInit == SessionInit => SessionTypeOK
<1> SUFFICES ASSUME SessionInit PROVE SessionTypeOK
    OBVIOUS
<1>1. TypeOK
      BY TypeInit DEF SessionInit
<1>2. QED
      BY <1>1 DEF SessionInit, SessionTypeOK, Phase

LEMMA SessionTypeStep == SessionTypeOK /\ [SessionNext]_sessionVars => SessionTypeOK'
<1> SUFFICES ASSUME SessionTypeOK, [SessionNext]_sessionVars PROVE SessionTypeOK'
    OBVIOUS
<1>1. TypeOK'
      BY SessionStepIsTransport, TypeStep DEF SessionTypeOK
<1>2. /\ phase' \in Phase
      /\ attach' \in BOOLEAN /\ gdb' \in BOOLEAN
      /\ running' \in BOOLEAN /\ stop' \in BOOLEAN
  <2> USE DEF SessionTypeOK, Phase
  <2>1. CASE TargetCall \/ TargetProgress \/ UNCHANGED sessionVars
        BY <2>1 DEF TargetCall, TargetProgress, session, sessionVars
  <2>2. CASE Download \/ Configure \/ Attach \/ RunCore \/ DisableDebug
        BY <2>2 DEF Download, Configure, Attach, RunCore, DisableDebug, Goto
  <2>3. CASE ReadNothing \/ ReadBytes \/ ReadReturns
        BY <2>3 DEF ReadNothing, ReadBytes, ReadReturns, Goto, session
  <2>4. CASE CheckStop \/ Restore \/ CtrlC \/ Fail \/ Reattach
        BY <2>4 DEF CheckStop, Restore, CtrlC, Fail, Reattach, Goto
  <2>5. CASE GdbHaltsOrResumes
        BY <2>5 DEF GdbHaltsOrResumes
  <2>6. QED
        BY <2>1, <2>2, <2>3, <2>4, <2>5 DEF SessionNext, HostMain
<1>3. QED
      BY <1>1, <1>2 DEF SessionTypeOK

(* Every part of a session stays in its type. *)
THEOREM SessionTypeCorrect == SessionSpec => []SessionTypeOK
BY SessionTypeInit, SessionTypeStep, PTL DEF SessionSpec

LEMMA DownloadedSessionStep ==
  DownloadedSessionInv /\ [SessionNext]_sessionVars => DownloadedSessionInv'
<1> SUFFICES ASSUME DownloadedSessionInv, [SessionNext]_sessionVars,
                    ~attach', phase' # "done"
             PROVE  /\ ~trimmed'
                    /\ running' \/ phase' \in {"attach", "run", "debug", "read",
                                               "check", "restore"}
                         => flags' = BLOCK_IF_FULL
    BY DEF DownloadedSessionInv
<1> USE DEF DownloadedSessionInv
<1>1. CASE TargetCall
  <2>1. UNCHANGED <<phase, attach, running, flags>> /\ running
        BY <1>1 DEF TargetCall, WriteByte, Commit, session, channel
  <2>2. flags = BLOCK_IF_FULL /\ ~trimmed
        BY <2>1
  <2>3. ~trimmed'
        BY <1>1, <2>2 DEF TargetCall, WriteByte, Commit, history
  <2>4. QED
        BY <2>1, <2>2, <2>3
<1>2. CASE TargetProgress
      BY <1>2 DEF TargetProgress, CheckFull, Publish, Store, session, channel, history
<1>3. CASE Download
      BY <1>3 DEF Download, Goto, vars
<1>4. CASE Configure
      BY <1>4 DEF Configure, SetMode, Goto, history
<1>5. CASE Attach
      BY <1>5 DEF Attach, Goto, vars
<1>6. CASE RunCore
      BY <1>6 DEF RunCore, Goto, vars
<1>7. CASE ReadNothing
      BY <1>7 DEF ReadNothing, Goto, vars
<1>8. CASE ReadBytes
      BY <1>8 DEF ReadBytes, Poll, Copy, session, channel, history
<1>9. CASE ReadReturns
      BY <1>9 DEF ReadReturns, Ack, Goto
<1>10. CASE CheckStop
       BY <1>10 DEF CheckStop, Goto, vars
<1>11. CASE Restore
       BY <1>11 DEF Restore, Goto
<1>12. CASE CtrlC
       BY <1>12 DEF CtrlC, vars
<1>13. CASE Fail
       BY <1>13 DEF Fail, Abandon, Goto, Exited, channel, history, vars
<1>14. CASE Reattach
       BY <1>14 DEF Reattach
<1>15. CASE DisableDebug
       BY <1>15 DEF DisableDebug, Goto, vars
<1>16. CASE GdbHaltsOrResumes
       BY <1>16 DEF GdbHaltsOrResumes, vars
<1>17. CASE UNCHANGED sessionVars
       BY <1>17 DEF sessionVars
<1>18. QED
       BY <1>1, <1>2, <1>3, <1>4, <1>5, <1>6, <1>7, <1>8, <1>9, <1>10, <1>11,
          <1>12, <1>13, <1>14, <1>15, <1>16, <1>17 DEF SessionNext, HostMain

(* A session that downloads the firmware loses nothing, whatever the size of
   the ring and of the host's buffer, until it hands the target back. *)
THEOREM DownloadedSessionCorrect == SessionSpec => []DownloadedSessionIsLossless
<1>1. SessionInit => DownloadedSessionInv
      BY DEF SessionInit, Init, DownloadedSessionInv
<1>2. FifoIntact /\ OverrunNeedsTrim /\ DownloadedSessionInv
        => DownloadedSessionIsLossless
      BY DEF FifoIntact, OverrunNeedsTrim, DownloadedSessionInv,
         DownloadedSessionIsLossless
<1>3. QED
      BY <1>1, <1>2, DownloadedSessionStep, SessionIsTransport, FifoCorrect,
         BlockingNeverOverruns, PTL DEF SessionSpec

\* A session that has ended well leaves the channel in the mode that it restored.
DoneInv == phase = "done" => flags = NO_BLOCK_TRIM

LEMMA DoneStep == DoneInv /\ [SessionNext]_sessionVars => DoneInv'
<1> SUFFICES ASSUME DoneInv, [SessionNext]_sessionVars, phase' = "done"
             PROVE  flags' = NO_BLOCK_TRIM
    BY DEF DoneInv
<1> USE DEF DoneInv
<1>1. CASE TargetCall
      BY <1>1 DEF TargetCall, WriteByte, Commit, session, channel
<1>2. CASE TargetProgress
      BY <1>2 DEF TargetProgress, CheckFull, Publish, Store, session, channel
<1>3. CASE Restore
      BY <1>3 DEF Restore, SetMode
<1>4. CASE ReadBytes
      BY <1>4 DEF ReadBytes, Poll, Copy, session, channel
<1>5. CASE GdbHaltsOrResumes \/ CtrlC \/ UNCHANGED sessionVars
      BY <1>5 DEF GdbHaltsOrResumes, CtrlC, vars, sessionVars
<1>6. CASE Download \/ Configure \/ Attach \/ RunCore \/ DisableDebug
      BY <1>6 DEF Download, Configure, Attach, RunCore, DisableDebug, Goto
<1>7. CASE ReadNothing \/ ReadReturns \/ CheckStop \/ Fail \/ Reattach
      BY <1>7 DEF ReadNothing, ReadReturns, CheckStop, Fail, Reattach, Goto
<1>8. QED
      BY <1>1, <1>2, <1>3, <1>4, <1>5, <1>6, <1>7 DEF SessionNext, HostMain

(* Once a session has ended well, a write() that begins stores its byte without
   waiting for a reader, as long as no host comes back. *)
THEOREM NewWritesCorrect == SessionSpec => NewWritesDoNotWait
<1>1. SessionInit => DoneInv
      BY DEF SessionInit, DoneInv
<1>2. ASSUME DoneInv, [SessionNext]_sessionVars, phase = "done", pc = "idle"
      PROVE  pc' # "wait"
  <2>1. flags # BLOCK_IF_FULL
        BY <1>2 DEF DoneInv, NO_BLOCK_TRIM, BLOCK_IF_FULL
  <2>2. CASE \E b \in Byte : WriteByte(b)
        BY <2>1, <2>2 DEF WriteByte
  <2>3. CASE UNCHANGED pc
        BY <1>2, <2>3
  <2>4. QED
        BY <1>2, <2>2, <2>3 DEF SessionNext, HostMain, TargetCall, TargetProgress,
           Commit, CheckFull, Publish, Store, Download, Configure, SetMode, Attach,
           RunCore, DisableDebug, ReadNothing, ReadBytes, Poll, Copy, ReadReturns,
           Ack, CheckStop, Restore, GdbHaltsOrResumes, CtrlC, Fail, Abandon,
           Reattach, target, vars, sessionVars
<1>3. QED
      BY <1>1, <1>2, DoneStep, PTL DEF SessionSpec, NewWritesDoNotWait
-----------------------------------------------------------------------------
(* The piece of the stream from a mark on stays in place. *)

LEMMA StoreInPlace ==
  ASSUME TypeOK, CursorsOrdered, NEW at \in Nat, NEW from \in Nat,
         InPlaceFrom(at, from), Store, NextPtr(writePtr) # read
  PROVE  CursorsOrdered' /\ InPlaceFrom(at, from)'
<1> USE DEF TypeOK, Store, host
<1> DEFINE next == NextPtr(writePtr)
           got  == Len(received) - at
<1>0. next \in Slot
      BY NextPtrType
<1>1. Dist(read, next) = Dist(read, writePtr) + 1
      BY DistNext
<1>2. /\ Dist(read, write) \in Nat
      /\ Dist(read, writePtr) \in 0 .. Size - 1
      /\ Dist(read, next) \in 0 .. Size - 1
      BY <1>0, DistType
<1>3. CursorsOrdered'
      BY <1>1, <1>2 DEF CursorsOrdered
<1>4. /\ sent' \in Seq(Byte) /\ Len(sent') = Len(sent) + 1
      /\ \A i \in 1 .. Len(sent) : sent'[i] = sent[i]
      OBVIOUS
<1>5. /\ got \in Nat /\ Len(sent) = from + got + Dist(read, writePtr)
      /\ received' = received
  <2>1. Len(received) \in Nat
        OBVIOUS
  <2>2. QED
        BY <2>1 DEF InPlaceFrom
<1>6. Len(sent') = from + got + Dist(read, next)
      BY <1>1, <1>2, <1>4, <1>5
<1>7. \A i \in 1 .. got : received[at + i] = sent'[from + i]
  <2>1. \A i \in 1 .. got : received[at + i] = sent[from + i]
        BY DEF InPlaceFrom
  <2>2. \A i \in 1 .. got : from + i \in 1 .. Len(sent)
    <3> HIDE DEF got, TypeOK, Store
    <3> QED
        BY <1>2, <1>5
  <2> HIDE DEF TypeOK, Store
  <2>3. QED
        BY <2>1, <2>2, <1>4
<1>8. ASSUME NEW k \in 1 .. Dist(read, next)
      PROVE  buffer'[SlotAt(read, k - 1)] = sent'[from + (got + k)]
  <2>1. k - 1 \in 0 .. Size - 1 /\ SlotAt(read, k - 1) \in Slot
        BY <1>2, SlotAtType, SizeAssumption
  <2>2. CASE k = Dist(read, next)
    <3>1. SlotAt(read, k - 1) = writePtr
          BY <2>2, <1>1, <1>2, SlotOfDist
    <3>2. buffer'[writePtr] = value /\ sent'[Len(sent) + 1] = value
          OBVIOUS
    <3>3. from + (got + k) = Len(sent) + 1
      <4> HIDE DEF got, next, TypeOK, Store
      <4>1. k = Dist(read, writePtr) + 1
            BY <2>2, <1>1
      <4>2. from \in Nat /\ got \in Nat /\ Dist(read, writePtr) \in Nat
            BY <1>2, <1>5
      <4>3. from + (got + k) = (from + got + Dist(read, writePtr)) + 1
            BY <4>1, <4>2
      <4>4. QED
            BY <4>3, <1>5
    <3>4. QED
          BY <3>1, <3>2, <3>3
  <2>3. CASE k # Dist(read, next)
    <3>1. k \in 1 .. Dist(read, writePtr)
          BY <2>3, <1>1, <1>2
    <3>2. SlotAt(read, k - 1) # writePtr
          BY <3>1, <2>1, <1>2, SlotOfDist
    <3>3. buffer'[SlotAt(read, k - 1)] = buffer[SlotAt(read, k - 1)]
          BY <3>2, <2>1
    <3>4. from + (got + k) \in 1 .. Len(sent)
          BY <3>1, <1>2, <1>5
    <3>5. buffer[SlotAt(read, k - 1)] = sent[from + (got + k)]
          BY <3>1 DEF InPlaceFrom
    <3>6. QED
          BY <3>3, <3>4, <3>5, <1>4
  <2>4. QED
        BY <2>2, <2>3
<1>9. ASSUME hpc = "copy"
      PROVE  /\ Len(batch) = Dist(read, hRead)
             /\ \A k \in 1 .. Len(batch) : batch[k] = sent'[from + (got + k)]
  <2>1. Dist(read, hRead) \in Nat /\ Dist(read, hWrite) \in Nat
        BY DistType
  <2>2. Dist(read, hRead) <= Dist(read, writePtr)
        BY <1>9, <2>1, <1>2 DEF CursorsOrdered
  <2>3. /\ Len(batch) = Dist(read, hRead)
        /\ \A k \in 1 .. Len(batch) : batch[k] = sent[from + (got + k)]
        BY <1>9 DEF InPlaceFrom
  <2>4. \A k \in 1 .. Len(batch) : from + (got + k) \in 1 .. Len(sent)
    <3> HIDE DEF got, next, TypeOK, Store
    <3> QED
        BY <2>1, <2>2, <2>3, <1>2, <1>5
  <2>5. QED
        BY <2>3, <2>4, <1>4
<1>10. at <= Len(received)
       BY DEF InPlaceFrom
<1>11. QED
       BY <1>3, <1>5, <1>6, <1>7, <1>8, <1>9, <1>10 DEF InPlaceFrom

LEMMA PollInPlace ==
  ASSUME TypeOK, CursorsOrdered, NEW at \in Nat, NEW from \in Nat,
         InPlaceFrom(at, from), Poll
  PROVE  CursorsOrdered' /\ InPlaceFrom(at, from)'
<1> USE DEF TypeOK, Poll, channel, target, history
<1>1. Dist(read, read) = 0 /\ Dist(read, write) \in Nat
      BY DistType, SlotOfDist
<1>2. CursorsOrdered'
      BY <1>1 DEF CursorsOrdered
<1>3. InPlaceFrom(at, from)'
      BY <1>1 DEF InPlaceFrom
<1>4. QED
      BY <1>2, <1>3

LEMMA CopyInPlace ==
  ASSUME TypeOK, CursorsOrdered, NEW at \in Nat, NEW from \in Nat,
         InPlaceFrom(at, from), Copy
  PROVE  CursorsOrdered' /\ InPlaceFrom(at, from)'
<1> USE DEF TypeOK, Copy, channel, target, history
<1> DEFINE next == NextPtr(hRead)
           got  == Len(received) - at
<1>0. /\ next \in Slot
      /\ Len(batch') = Len(batch) + 1
      /\ batch'[Len(batch) + 1] = buffer[hRead]
      /\ \A k \in 1 .. Len(batch) : batch'[k] = batch[k]
      BY NextPtrType
<1>1. /\ Dist(read, hRead) \in Nat /\ Dist(read, hWrite) \in 0 .. Size - 1
      /\ Dist(read, write) \in Nat /\ Dist(read, writePtr) \in 0 .. Size - 1
      BY DistType
<1>2. Dist(read, hRead) # Dist(read, hWrite)
  <2>1. SlotAt(read, Dist(read, hRead)) = hRead
        BY SlotOfDist
  <2>2. SlotAt(read, Dist(read, hWrite)) = hWrite
        BY SlotOfDist
  <2>3. QED
        BY <2>1, <2>2
<1>3. Dist(read, hRead) < Dist(read, hWrite)
      BY <1>1, <1>2 DEF CursorsOrdered
<1>4. next # read
      BY <1>3, <1>1, SizeAssumption DEF NextPtr, Dist, Slot
<1>5. Dist(read, next) = Dist(read, hRead) + 1
      BY <1>4, DistNext
<1>6. CursorsOrdered'
      BY <1>1, <1>3, <1>5 DEF CursorsOrdered
<1>7. /\ Len(batch) = Dist(read, hRead)
      /\ \A k \in 1 .. Len(batch) : batch[k] = sent[from + (got + k)]
      /\ \A k \in 1 .. Dist(read, writePtr) :
           buffer[SlotAt(read, k - 1)] = sent[from + (got + k)]
      BY DEF InPlaceFrom
<1>8. buffer[hRead] = sent[from + (got + (Len(batch) + 1))]
  <2>1. Len(batch) + 1 \in 1 .. Dist(read, writePtr)
        BY <1>1, <1>3, <1>7 DEF CursorsOrdered
  <2>2. SlotAt(read, (Len(batch) + 1) - 1) = hRead
        BY <1>1, <1>7, SlotOfDist
  <2>3. QED
        BY <2>1, <2>2, <1>7
<1>9. \A k \in 1 .. Len(batch') : batch'[k] = sent[from + (got + k)]
  <2>1. ASSUME NEW k \in 1 .. Len(batch') PROVE batch'[k] = sent[from + (got + k)]
    <3>1. CASE k = Len(batch) + 1
          BY <3>1, <1>0, <1>8
    <3>2. CASE k # Len(batch) + 1
      <4>1. k \in 1 .. Len(batch)
            BY <3>2, <1>0, <1>1, <1>7
      <4>2. QED
            BY <4>1, <1>0, <1>7
    <3>3. QED
          BY <3>1, <3>2
  <2>2. QED
        BY <2>1
<1>10. InPlaceFrom(at, from)'
       BY <1>0, <1>5, <1>7, <1>9 DEF InPlaceFrom
<1>11. QED
       BY <1>6, <1>10

LEMMA AckInPlace ==
  ASSUME TypeOK, CursorsOrdered, NEW at \in Nat, NEW from \in Nat,
         InPlaceFrom(at, from), Ack, hpc = "copy",
         pc = "store" => NextPtr(writePtr) # read
  PROVE  /\ CursorsOrdered' /\ InPlaceFrom(at, from)'
         /\ pc' = "store" => NextPtr(writePtr') # read'
<1> USE DEF TypeOK, Ack, target
<1> DEFINE got == Len(received) - at
           n   == Len(batch)
<1>0. /\ Len(received') = Len(received) + n
      /\ \A i \in 1 .. Len(received) : received'[i] = received[i]
      /\ \A k \in 1 .. n : received'[Len(received) + k] = batch[k]
  <2> USE DEF Cell
  <2>1. batch \in Seq(Cell) /\ received \in Seq(Cell)
        OBVIOUS
  <2>2. Len(batch) \in Nat /\ Len(received) \in Nat
        BY <2>1
  <2>3. QED
        BY <2>1, <2>2, ConcatProperties
<1>1. /\ Dist(read, hRead) \in Nat /\ Dist(read, hWrite) \in Nat
      /\ Dist(read, write) \in Nat /\ Dist(read, writePtr) \in 0 .. Size - 1
      /\ Dist(hRead, writePtr) \in 0 .. Size - 1
      BY DistType
<1>2. n \in Nat /\ Len(received) \in Nat /\ at <= Len(received)
      BY DEF InPlaceFrom
<1>3. got \in Nat /\ at + got = Len(received)
      BY <1>2
<1>4. /\ Len(sent) = from + got + Dist(read, writePtr)
      /\ \A i \in 1 .. got : received[at + i] = sent[from + i]
      /\ \A k \in 1 .. Dist(read, writePtr) :
           buffer[SlotAt(read, k - 1)] = sent[from + (got + k)]
      /\ n = Dist(read, hRead)
      /\ \A k \in 1 .. n : batch[k] = sent[from + (got + k)]
      BY DEF InPlaceFrom
<1>5. Dist(read, hRead) <= Dist(read, write) /\ Dist(read, write) <= Dist(read, writePtr)
      BY <1>1 DEF CursorsOrdered
<1>6. Dist(hRead, write) = Dist(read, write) - Dist(read, hRead)
      BY <1>5, DistSplit
<1>7. /\ Dist(hRead, writePtr) = Dist(read, writePtr) - Dist(read, hRead)
      /\ \A k \in 0 .. Dist(hRead, writePtr) :
           SlotAt(hRead, k) = SlotAt(read, Dist(read, hRead) + k)
  <2>1. Dist(read, hRead) <= Dist(read, writePtr)
        BY <1>1, <1>5
  <2>2. QED
        BY <2>1, DistSplit
<1>8. CursorsOrdered'
      BY <1>1, <1>5, <1>6, <1>7 DEF CursorsOrdered
<1>9. pc' = "store" => NextPtr(writePtr') # read'
  <2>1. SUFFICES ASSUME pc = "store" PROVE NextPtr(writePtr) # hRead
        OBVIOUS
  <2>2. Dist(read, NextPtr(writePtr)) = Dist(read, writePtr) + 1
        BY <2>1, DistNext
  <2>3. QED
        BY <2>2, <1>1, <1>5
<1>10. read' = hRead /\ UNCHANGED <<sent, writePtr, buffer>> /\ hpc' = "idle"
       OBVIOUS
<1>11. Len(received') - at = got + n
  <2> HIDE DEF TypeOK, Ack, n
  <2>1. Len(received') = Len(received) + n
        BY <1>0 DEF n
  <2>2. QED
        BY <2>1, <1>2
<1> HIDE DEF got, n, TypeOK, Ack
<1>12. ASSUME NEW i \in 1 .. got + n
       PROVE  received'[at + i] = sent[from + i]
  <2>1. CASE i <= got
    <3>1. at + i \in 1 .. Len(received) /\ i \in 1 .. got
          BY <2>1, <1>3
    <3>2. QED
          BY <3>1, <1>0, <1>4
  <2>2. CASE i > got
    <3>1. i - got \in 1 .. n
          BY <2>2, <1>2, <1>3
    <3>2. /\ received'[Len(received) + (i - got)] = batch[i - got]
          /\ batch[i - got] = sent[from + (got + (i - got))]
          BY <3>1, <1>0, <1>4
    <3>3. Len(received) + (i - got) = at + i /\ got + (i - got) = i
          BY <1>2, <1>3
    <3>4. QED
          BY <3>2, <3>3
  <2>3. QED
        BY <2>1, <2>2, <1>2, <1>3
<1>13. ASSUME NEW k \in 1 .. Dist(hRead, writePtr)
       PROVE  buffer[SlotAt(hRead, k - 1)] = sent[from + ((got + n) + k)]
  <2>1. k - 1 \in 0 .. Dist(hRead, writePtr)
        BY <1>1
  <2>2. SlotAt(hRead, k - 1) = SlotAt(read, Dist(read, hRead) + (k - 1))
        BY <2>1, <1>7
  <2>3. n + k \in 1 .. Dist(read, writePtr)
    <3>1. Dist(read, writePtr) = n + Dist(hRead, writePtr)
          BY <1>1, <1>2, <1>4, <1>7
    <3>2. QED
          BY <3>1, <1>1, <1>2
  <2>4. buffer[SlotAt(read, (n + k) - 1)] = sent[from + (got + (n + k))]
        BY <2>3, <1>4
  <2>5. n + (k - 1) = (n + k) - 1 /\ got + (n + k) = (got + n) + k
        BY <1>2, <1>3
  <2>6. QED
        BY <2>2, <2>4, <2>5, <1>4
<1>14. /\ at <= Len(received')
       /\ Len(sent) = from + (got + n) + Dist(hRead, writePtr)
  <2>1. Len(received') = Len(received) + n
        BY <1>0 DEF n
  <2>2. at <= Len(received')
        BY <2>1, <1>2
  <2>3. /\ n + Dist(hRead, writePtr) = Dist(read, writePtr)
        /\ Len(sent) = from + got + Dist(read, writePtr)
        BY <1>1, <1>2, <1>4, <1>7
  <2>4. Len(sent) = from + (got + n) + Dist(hRead, writePtr)
        BY <2>3, <1>1, <1>2, <1>3
  <2>5. QED
        BY <2>2, <2>4
<1>15. InPlaceFrom(at, from)'
  <2> DEFINE all == Len(received') - at
  <2>1. all = got + n
        BY <1>11
  <2> HIDE DEF all
  <2>2. /\ Len(sent) = from + all + Dist(hRead, writePtr)
        /\ \A i \in 1 .. all : received'[at + i] = sent[from + i]
        /\ \A k \in 1 .. Dist(hRead, writePtr) :
             buffer[SlotAt(hRead, k - 1)] = sent[from + (all + k)]
        BY <2>1, <1>12, <1>13, <1>14
  <2>3. QED
        BY <2>2, <1>10, <1>14 DEF InPlaceFrom, all
<1>16. QED
       BY <1>8, <1>9, <1>15

-----------------------------------------------------------------------------
(* Type correctness. *)

\* Unless the target resets, a step is one of the session.
LEMMA SessionStep ==
  ASSUME EndToEndTypeOK, [EndToEndNext]_endToEndVars, ~Reset
  PROVE  [SessionNext]_sessionVars /\ UNCHANGED <<resets, boot>>
<1>1. CASE UNCHANGED endToEndVars
      BY <1>1 DEF endToEndVars, sessionVars
<1>2. CASE EndToEndNext
  <2>1. (TargetNext \/ HostNext) /\ UNCHANGED <<resets, boot>>
        BY <1>2 DEF EndToEndNext
  <2>2. CASE WriteNext
    <3>1. Head(todo) \in Byte
          BY <2>2 DEF WriteNext, EndToEndTypeOK
    <3>2. TargetCall
          BY <2>2, <3>1 DEF WriteNext, TargetCall
    <3>3. QED
          BY <2>1, <3>2 DEF SessionNext
  <2>3. CASE CommitMessage
        BY <2>1, <2>3 DEF CommitMessage, TargetCall, SessionNext
  <2>4. CASE (\E m \in Message : LogMessage(m)) \/ TargetProgress
        BY <2>1, <2>4 DEF LogMessage, SessionNext
  <2>5. CASE HostNext
        BY <2>1, <2>5 DEF HostNext, SessionNext
  <2>6. QED
        BY <2>1, <2>2, <2>3, <2>4, <2>5 DEF TargetNext
<1>3. QED
      BY <1>1, <1>2

LEMMA ResetType ==
  ASSUME SessionTypeOK, Reset
  PROVE  SessionTypeOK'
<1>1. 0 \in Slot
      BY SizeAssumption DEF Slot
<1>2. TypeOK'
      BY <1>1 DEF SessionTypeOK, Reset, TypeOK, Flags, host, history
<1>3. QED
      BY <1>2 DEF SessionTypeOK, Reset, session

LEMMA SessionTypeKept ==
  ASSUME EndToEndTypeOK, [EndToEndNext]_endToEndVars
  PROVE  SessionTypeOK'
BY ResetType, SessionStep, SessionTypeStep DEF EndToEndTypeOK

LEMMA HistoryGrows ==
  ASSUME EndToEndTypeOK, [EndToEndNext]_endToEndVars
  PROVE  Len(sent) <= Len(sent') /\ Len(received) <= Len(received')
<1>1. TypeOK /\ Len(sent) \in Nat /\ Len(received) \in Nat
      BY DEF EndToEndTypeOK, SessionTypeOK, TypeOK
<1>2. CASE UNCHANGED <<sent, received>>
      BY <1>1, <1>2
<1>3. CASE Reset
      BY <1>1, <1>3 DEF Reset, history
<1>4. CASE Store
  <2>1. Len(sent') = Len(sent) + 1 /\ received' = received
        BY <1>1, <1>4 DEF Store, TypeOK
  <2>2. QED
        BY <1>1, <2>1
<1>5. CASE Ack
  <2>1. Len(received') = Len(received) + Len(batch) /\ sent' = sent /\ Len(batch) \in Nat
        BY <1>1, <1>5, ConcatProperties DEF Ack, TypeOK
  <2>2. QED
        BY <1>1, <2>1
<1>6. CASE ~Reset /\ ~Store /\ ~Ack
  <2>1. [Next]_vars
        BY <1>6, SessionStep, SessionStepIsTransport
  <2>2. UNCHANGED <<sent, received>>
        BY <1>6, <2>1 DEF Next, Transfer, WriteByte, CheckFull, Publish, Commit,
           Poll, Copy, Abandon, SetMode, history, vars
  <2>3. QED
        BY <1>2, <2>2
<1>7. QED
      BY <1>3, <1>4, <1>5, <1>6

LEMMA EndToEndTypeInit == EndToEndInit => EndToEndTypeOK
<1> SUFFICES ASSUME EndToEndInit PROVE EndToEndTypeOK
    OBVIOUS
<1>1. SessionTypeOK
      BY SessionTypeInit DEF EndToEndInit
<1>2. Len(received) = 0 /\ Len(sent) = 0
      BY DEF EndToEndInit, SessionInit, Init
<1>3. todo \in Seq(Byte) /\ open \in BOOLEAN
      BY EmptySeq DEF EndToEndInit
<1>4. joined \in 0 .. Len(received) /\ resets \in 0 .. MaxResets /\ boot \in 0 .. Len(sent)
      BY <1>2, EndToEndBounds DEF EndToEndInit
<1>5. QED
      BY <1>1, <1>3, <1>4 DEF EndToEndInit, EndToEndTypeOK

LEMMA EndToEndTypeStep ==
  EndToEndTypeOK /\ [EndToEndNext]_endToEndVars => EndToEndTypeOK'
<1> SUFFICES ASSUME EndToEndTypeOK, [EndToEndNext]_endToEndVars PROVE EndToEndTypeOK'
    OBVIOUS
<1>1. SessionTypeOK'
      BY SessionTypeKept
<1>2. /\ Len(sent) \in Nat /\ Len(sent') \in Nat
      /\ Len(received) \in Nat /\ Len(received') \in Nat
      /\ Dist(read', writePtr') \in Nat
  <2>1. TypeOK /\ TypeOK'
        BY <1>1 DEF EndToEndTypeOK, SessionTypeOK
  <2>2. Len(sent) \in Nat /\ Len(received) \in Nat
        BY <2>1 DEF TypeOK
  <2>3. Len(sent') \in Nat /\ Len(received') \in Nat
        BY <2>1 DEF TypeOK
  <2>4. Dist(read', writePtr') \in Nat
        BY <2>1, DistType DEF TypeOK
  <2>5. QED
        BY <2>2, <2>3, <2>4
<1>3. Len(sent) <= Len(sent') /\ Len(received) <= Len(received')
      BY HistoryGrows
<1>4. todo' \in Seq(Byte) /\ open' \in BOOLEAN
  <2>1. CASE \E m \in Message : LogMessage(m)
        BY <2>1, MessageAssumption DEF LogMessage
  <2>2. CASE WriteNext
        BY <2>2 DEF EndToEndTypeOK, WriteNext
  <2>3. CASE CommitMessage
        BY <2>3 DEF EndToEndTypeOK, CommitMessage
  <2>4. CASE Reset
        BY <2>4, EmptySeq DEF Reset
  <2>5. CASE UNCHANGED writer
        BY <2>5 DEF EndToEndTypeOK, writer
  <2>6. QED
        BY <2>1, <2>2, <2>3, <2>4, <2>5 DEF EndToEndNext, TargetNext, HostNext,
           endToEndVars, writer
<1>5. joined' \in 0 .. Len(received')
      BY <1>2, <1>3 DEF EndToEndTypeOK, EndToEndNext, Follow, endToEndVars
<1>6. resets' \in 0 .. MaxResets /\ boot' \in 0 .. Len(sent')
  <2>1. resets \in 0 .. MaxResets /\ boot \in 0 .. Len(sent)
        BY DEF EndToEndTypeOK
  <2>2. CASE Reset
        BY <2>1, <2>2, <1>2, <1>3, EndToEndBounds DEF Reset
  <2>3. CASE UNCHANGED <<resets, boot>>
        BY <2>1, <2>3, <1>2, <1>3
  <2>4. QED
        BY <2>2, <2>3 DEF EndToEndNext, endToEndVars
<1>7. mark' \in [at : 0 .. Len(received'), from : 0 .. Len(sent')] \cup {NoMark}
  <2>1. CASE mark' = NoMark
        BY <2>1
  <2>2. CASE mark' = mark
        BY <2>2, <1>2, <1>3 DEF EndToEndTypeOK
  <2>3. CASE Settled' /\ mark' = Here'
    <3>1. boot' + Dist(read', writePtr') <= Len(sent')
          BY <2>3 DEF Settled
    <3>2. Len(sent') - Dist(read', writePtr') \in 0 .. Len(sent')
          BY <3>1, <1>2, <1>6
    <3>3. QED
          BY <2>3, <3>2, <1>2 DEF Here
  <2>4. QED
        BY <2>1, <2>2, <2>3 DEF EndToEndNext, Follow, endToEndVars
<1>8. QED
      BY <1>1, <1>4, <1>5, <1>6, <1>7 DEF EndToEndTypeOK

(* The writer, the mark and the histories stay in their types, through every
   reset and every session. *)
THEOREM EndToEndTypeCorrect == EndToEndSpec => []EndToEndTypeOK
BY EndToEndTypeInit, EndToEndTypeStep, PTL DEF EndToEndSpec
-----------------------------------------------------------------------------
(* The last bytes written are behind the write cursor, in every mode. *)

LEMMA LatestStored ==
  ASSUME TypeOK, boot \in Nat, LatestInPlace, Store, boot' = boot
  PROVE  LatestInPlace'
<1> USE DEF TypeOK, Store
<1> DEFINE next == NextPtr(writePtr)
<1>1. SUFFICES ASSUME NEW s \in Slot, s # next,
                      boot + Dist(s, next) <= Len(sent')
               PROVE  buffer'[s] = sent'[Len(sent') + 1 - Dist(s, next)]
      BY DEF LatestInPlace
<1>2. /\ Len(sent) \in Nat /\ Len(sent') = Len(sent) + 1
      /\ sent'[Len(sent) + 1] = value
      /\ \A i \in 1 .. Len(sent) : sent'[i] = sent[i]
      OBVIOUS
<1>3. Dist(s, next) = Dist(s, writePtr) + 1
      BY <1>1, DistNext
<1>4. Dist(s, writePtr) \in Nat
      BY DistType
<1>5. CASE s = writePtr
  <2>1. Dist(s, writePtr) = 0
        BY <1>5, SlotOfDist
  <2>2. buffer'[s] = value
        BY <1>5
  <2>3. Len(sent') + 1 - Dist(s, next) = Len(sent) + 1
        BY <2>1, <1>2, <1>3
  <2>4. QED
        BY <2>2, <2>3, <1>2
<1>6. CASE s # writePtr
  <2>1. boot + Dist(s, writePtr) <= Len(sent)
        BY <1>1, <1>2, <1>3, <1>4
  <2>2. buffer[s] = sent[Len(sent) + 1 - Dist(s, writePtr)]
        BY <1>6, <2>1 DEF LatestInPlace
  <2>3. Dist(s, writePtr) # 0
        BY <1>6, SlotOfDist
  <2>4. Len(sent) + 1 - Dist(s, writePtr) \in 1 .. Len(sent)
        BY <2>1, <2>3, <1>2, <1>4
  <2>5. Len(sent') + 1 - Dist(s, next) = Len(sent) + 1 - Dist(s, writePtr)
        BY <1>2, <1>3, <1>4
  <2>6. buffer'[s] = buffer[s]
        BY <1>6
  <2>7. QED
        BY <2>2, <2>4, <2>5, <2>6, <1>2
<1>7. QED
      BY <1>5, <1>6

LEMMA LatestReset ==
  ASSUME TypeOK, Reset
  PROVE  LatestInPlace'
<1>1. /\ boot' = Len(sent') /\ writePtr' = 0
      BY DEF Reset, history
<1>2. \A s \in Slot \ {0} : Dist(s, 0) \in Nat /\ Dist(s, 0) > 0
      BY SizeAssumption DEF Slot, Dist
<1>3. Len(sent') \in Nat
      BY DEF TypeOK, Reset, history
<1>4. QED
      BY <1>1, <1>2, <1>3 DEF LatestInPlace

LEMMA LatestStep ==
  ASSUME EndToEndTypeOK, LatestInPlace, [EndToEndNext]_endToEndVars
  PROVE  LatestInPlace'
<1>1. TypeOK /\ boot \in Nat
  <2>1. TypeOK /\ boot \in 0 .. Len(sent)
        BY DEF EndToEndTypeOK, SessionTypeOK
  <2>2. QED
        BY <2>1
<1>2. CASE Reset
      BY <1>1, <1>2, LatestReset
<1>3. CASE ~Reset
  <2>1. [Next]_vars /\ boot' = boot
        BY <1>3, SessionStep, SessionStepIsTransport
  <2>2. CASE Store
        BY <2>1, <2>2, <1>1, LatestStored
  <2>3. CASE ~Store
    <3>1. UNCHANGED <<buffer, writePtr, sent>>
          BY <2>1, <2>3 DEF Next, Transfer, WriteByte, CheckFull, Publish, Commit,
             Poll, Copy, Ack, Abandon, SetMode, channel, target, host, history, vars
    <3>2. QED
          BY <3>1, <2>1 DEF LatestInPlace
  <2>4. QED
        BY <2>2, <2>3
<1>4. QED
      BY <1>2, <1>3

-----------------------------------------------------------------------------
(* The stream invariant. *)

\* The mode takes effect: what is in the ring is the start of the piece.
LEMMA MarkSet ==
  ASSUME TypeOK, boot \in Nat, LatestInPlace, Settled
  PROVE  CursorsOrdered /\ InPlaceFrom(Here.at, Here.from)
<1> DEFINE n == Dist(read, writePtr)
<1>1. n \in 0 .. Size - 1 /\ Len(sent) \in Nat /\ Len(received) \in Nat
  <2>1. n \in 0 .. Size - 1
        BY DistType DEF TypeOK
  <2>2. Len(sent) \in Nat /\ Len(received) \in Nat
        BY DEF TypeOK
  <2>3. QED
        BY <2>1, <2>2
<1>2. /\ Here.at = Len(received) /\ Here.from = Len(sent) - n
      /\ hpc = "idle" /\ boot + n <= Len(sent)
      BY DEF Here, Settled
<1>3. CursorsOrdered
      BY DEF CursorsOrdered, Settled
<1>4. ASSUME NEW k \in 1 .. n
      PROVE  buffer[SlotAt(read, k - 1)] = sent[Len(sent) - n + k]
  <2> DEFINE s == SlotAt(read, k - 1)
  <2>1. k - 1 \in 0 .. Size - 1
    <3> HIDE DEF n
    <3> QED
        BY <1>1, SizeAssumption
  <2>2. s \in Slot /\ Dist(read, s) = k - 1
        BY <2>1, SlotAtType, SlotOfDist DEF TypeOK
  <2>3. Dist(s, writePtr) = n - (k - 1)
    <3>1. Dist(read, s) <= Dist(read, writePtr)
          BY <2>2, <1>1
    <3>2. QED
          BY <2>2, <3>1, DistSplit DEF TypeOK
  <2>4. s # writePtr
        BY <2>2, <1>1
  <2>5. boot + Dist(s, writePtr) <= Len(sent)
        BY <2>3, <1>1, <1>2
  <2>6. buffer[s] = sent[Len(sent) + 1 - Dist(s, writePtr)]
        BY <2>2, <2>4, <2>5 DEF LatestInPlace
  <2>7. Len(sent) + 1 - Dist(s, writePtr) = Len(sent) - n + k
        BY <2>3, <1>1
  <2>8. QED
        BY <2>6, <2>7
<1>5. ASSUME NEW at, NEW from, at = Len(received), from = Len(sent) - n
      PROVE  InPlaceFrom(at, from)
  <2>1. Len(received) - at = 0 /\ Len(sent) = from + 0 + n
        BY <1>1, <1>5
  <2>2. \A k \in 1 .. n : 0 + k = k
        BY <1>1
  <2>3. QED
        BY <2>1, <2>2, <1>1, <1>2, <1>4, <1>5 DEF InPlaceFrom
<1>6. QED
      BY <1>2, <1>3, <1>5

\* As long as the mode stays, the piece goes on.
LEMMA MarkKept ==
  ASSUME TypeOK, CursorsOrdered, NEW at \in Nat, NEW from \in Nat,
         InPlaceFrom(at, from), pc = "store" => NextPtr(writePtr) # read,
         flags = BLOCK_IF_FULL, [Next]_vars
  PROVE  /\ CursorsOrdered' /\ InPlaceFrom(at, from)'
         /\ pc' = "store" => NextPtr(writePtr') # read'
<1>1. CASE Store
  <2>1. pc = "store" /\ pc' = "idle"
        BY <1>1 DEF Store
  <2>2. QED
        BY <1>1, <2>1, StoreInPlace
<1>2. CASE Ack
  <2>1. hpc = "copy"
        BY <1>2 DEF Ack
  <2>2. QED
        BY <1>2, <2>1, AckInPlace
<1>3. CASE Poll
      BY <1>3, PollInPlace DEF Poll, channel, target
<1>4. CASE Copy
      BY <1>4, CopyInPlace DEF Copy, channel, target
<1>5. CASE Publish \/ Commit
  <2>1. /\ write' = writePtr /\ pc' # "store"
        /\ UNCHANGED <<buffer, read, writePtr, hpc, hWrite, hRead, batch, sent, received>>
        BY <1>5 DEF Publish, Commit, target, host, history
  <2>2. CursorsOrdered'
    <3>1. /\ Dist(read, writePtr) \in Nat /\ Dist(read, write) \in Nat
          /\ Dist(read, hWrite) \in Nat /\ Dist(read, hRead) \in Nat
          BY DistType DEF TypeOK
    <3>2. QED
          BY <2>1, <3>1 DEF CursorsOrdered
  <2>3. InPlaceFrom(at, from)'
        BY <2>1 DEF InPlaceFrom
  <2>4. QED
        BY <2>1, <2>2, <2>3
<1>6. CASE \/ \E b \in Byte : WriteByte(b)
           \/ CheckFull \/ Abandon \/ (\E m \in Flags : SetMode(m)) \/ UNCHANGED vars
  <2>1. /\ UNCHANGED <<buffer, write, read, writePtr, sent, received>>
        /\ hpc' = "copy" => hpc = "copy" /\ UNCHANGED <<hWrite, hRead, batch>>
        BY <1>6 DEF WriteByte, CheckFull, Abandon, SetMode, channel, target, host,
           history, vars
  <2>2. CursorsOrdered'
        BY <2>1 DEF CursorsOrdered
  <2>3. InPlaceFrom(at, from)'
        BY <2>1 DEF InPlaceFrom
  <2>4. pc' = "store" => NextPtr(writePtr') # read'
        BY <1>6 DEF WriteByte, CheckFull, Abandon, SetMode, channel, target, vars
  <2>5. QED
        BY <2>2, <2>3, <2>4
<1>7. QED
      BY <1>1, <1>2, <1>3, <1>4, <1>5, <1>6 DEF Next, Transfer

LEMMA StreamInit == EndToEndInit => StreamInv
<1> SUFFICES ASSUME EndToEndInit PROVE StreamInv
    OBVIOUS
<1>1. Len(sent) = 0 /\ boot = 0 /\ mark = NoMark /\ writePtr = 0
      BY DEF EndToEndInit, SessionInit, Init
<1>2. \A s \in Slot \ {0} : ~(0 + Dist(s, 0) <= 0)
      BY SizeAssumption DEF Slot, Dist
<1>3. QED
      BY <1>1, <1>2 DEF StreamInv, LatestInPlace

LEMMA StreamStep ==
  EndToEndTypeOK /\ StreamInv /\ [EndToEndNext]_endToEndVars => StreamInv'
<1> SUFFICES ASSUME EndToEndTypeOK, StreamInv, [EndToEndNext]_endToEndVars
             PROVE  StreamInv'
    OBVIOUS
<1>1. LatestInPlace'
      BY LatestStep DEF StreamInv
<1>2. EndToEndTypeOK'
      BY EndToEndTypeStep
<1>3. TypeOK' /\ boot' \in Nat /\ boot' <= Len(sent')
  <2>1. TypeOK' /\ boot' \in 0 .. Len(sent')
        BY <1>2 DEF EndToEndTypeOK, SessionTypeOK
  <2>2. Len(sent') \in Nat
        BY <2>1 DEF TypeOK
  <2>3. QED
        BY <2>1, <2>2
<1>4. ASSUME mark' # NoMark
      PROVE  /\ flags' = BLOCK_IF_FULL
             /\ pc' = "store" => NextPtr(writePtr') # read'
             /\ CursorsOrdered'
             /\ InPlaceFrom(mark.at, mark.from)'
  <2>1. CASE mark = NoMark
    <3>1. Settled' /\ mark' = Here'
          BY <1>4, <2>1 DEF EndToEndNext, Follow, endToEndVars
    <3>2. CursorsOrdered' /\ InPlaceFrom(Here.at, Here.from)'
      <4>1. TypeOK' /\ boot' \in Nat /\ LatestInPlace' /\ Settled'
            BY <3>1, <1>1, <1>3
      <4>2. (TypeOK /\ boot \in Nat /\ LatestInPlace /\ Settled
               => CursorsOrdered /\ InPlaceFrom(Here.at, Here.from))'
            BY MarkSet, PTL
      <4>3. QED
            BY <4>1, <4>2
    <3>3. InPlaceFrom(mark.at, mark.from)'
          BY <3>1, <3>2
    <3>4. QED
          BY <3>1, <3>2, <3>3 DEF Settled
  <2>2. CASE mark # NoMark
    <3>0. mark' = mark /\ flags' = BLOCK_IF_FULL
      <4>1. flags = BLOCK_IF_FULL
            BY <2>2 DEF StreamInv
      <4>2. CASE UNCHANGED endToEndVars
            BY <4>1, <4>2 DEF endToEndVars, sessionVars
      <4>3. CASE Follow
            BY <1>4, <2>2, <4>3 DEF Follow, Settled
      <4>4. QED
            BY <4>2, <4>3 DEF EndToEndNext
    <3>1. /\ mark' = mark /\ flags' = BLOCK_IF_FULL /\ flags = BLOCK_IF_FULL
          /\ pc = "store" => NextPtr(writePtr) # read
          /\ CursorsOrdered /\ InPlaceFrom(mark.at, mark.from)
          BY <2>2, <3>0 DEF StreamInv
    <3>2. ~Reset
          BY <3>1 DEF Reset, NO_BLOCK_TRIM, BLOCK_IF_FULL
    <3>3. [Next]_vars /\ TypeOK
          BY <3>2, SessionStep, SessionStepIsTransport DEF EndToEndTypeOK, SessionTypeOK
    <3>4. mark.at \in Nat /\ mark.from \in Nat
      <4>1. mark \in [at : 0 .. Len(received), from : 0 .. Len(sent)]
            BY <2>2 DEF EndToEndTypeOK
      <4>2. QED
            BY <4>1
    <3>5. PICK at \in Nat, from \in Nat : at = mark.at /\ from = mark.from
          BY <3>4
    <3>6. InPlaceFrom(at, from)
          BY <3>1, <3>5
    <3>7. /\ CursorsOrdered' /\ InPlaceFrom(at, from)'
          /\ pc' = "store" => NextPtr(writePtr') # read'
          BY <3>1, <3>3, <3>6, MarkKept
    <3>8. at = mark'.at /\ from = mark'.from
          BY <3>1, <3>5
    <3>9. InPlaceFrom(mark.at, mark.from)'
          BY <3>7, <3>8 DEF InPlaceFrom
    <3>10. QED
          BY <3>1, <3>7, <3>9
  <2>3. QED
        BY <2>1, <2>2
<1>5. QED
      BY <1>1, <1>3, <1>4 DEF StreamInv

LEMMA SinceIs ==
  ASSUME received \in Seq(Cell), NEW n \in Nat, n <= Len(received)
  PROVE  /\ Since(n) \in Seq(Cell) /\ Len(Since(n)) \in Nat
         /\ n + Len(Since(n)) = Len(received)
         /\ \A i \in 1 .. Len(Since(n)) : Since(n)[i] = received[n + i]
<1>1. Len(received) \in Nat
      BY LenProperties
<1>2. \A i \in n + 1 .. Len(received) : received[i] \in Cell
  <2>1. \A i \in n + 1 .. Len(received) : i \in 1 .. Len(received)
        BY <1>1
  <2>2. QED
        BY <2>1, ElementOfSeq
<1>3. /\ Since(n) \in Seq(Cell)
      /\ Len(Since(n)) = IF n + 1 <= Len(received)
                           THEN Len(received) - (n + 1) + 1 ELSE 0
      /\ \A i \in 1 .. Len(received) - (n + 1) + 1 :
           Since(n)[i] = received[(n + 1) + i - 1]
      BY <1>1, <1>2, SubSeqProperties DEF Since
<1>4. Len(Since(n)) \in Nat /\ n + Len(Since(n)) = Len(received)
      BY <1>1, <1>3
<1>5. ASSUME NEW i \in 1 .. Len(Since(n)) PROVE Since(n)[i] = received[n + i]
  <2>1. i \in 1 .. Len(received) - (n + 1) + 1 /\ (n + 1) + i - 1 = n + i
        BY <1>1, <1>4
  <2>2. QED
        BY <1>3, <2>1
<1>6. QED
      BY <1>3, <1>4, <1>5

\* What the invariant gives.
LEMMA ContiguousFromInv ==
  EndToEndTypeOK /\ StreamInv => StreamIsContiguous
<1> SUFFICES ASSUME EndToEndTypeOK, StreamInv, mark # NoMark
             PROVE  Since(mark.at) \o Pending = SubSeq(sent, mark.from + 1, Len(sent))
    BY DEF StreamIsContiguous
<1> DEFINE at   == mark.at
           from == mark.from
           n    == Dist(read, writePtr)
           got  == Len(received) - at
<1>1. TypeOK /\ InPlaceFrom(at, from)
      BY DEF StreamInv, EndToEndTypeOK, SessionTypeOK
<1>2. at \in Nat /\ from \in Nat
  <2>1. mark \in [at : 0 .. Len(received), from : 0 .. Len(sent)]
        BY DEF EndToEndTypeOK
  <2>2. QED
        BY <2>1
<1>3. n \in 0 .. Size - 1 /\ n \in Nat
      BY <1>1, DistType, SizeAssumption DEF TypeOK
<1>4. received \in Seq(Cell) /\ sent \in Seq(Cell)
      BY <1>1, SeqMonotonic DEF TypeOK, Cell
<1>5. Len(received) \in Nat /\ Len(sent) \in Nat
      BY <1>4
<1>6. /\ at <= Len(received) /\ Len(sent) = from + got + n
      /\ \A i \in 1 .. got : received[at + i] = sent[from + i]
      /\ \A k \in 1 .. n : buffer[SlotAt(read, k - 1)] = sent[from + (got + k)]
      BY <1>1 DEF InPlaceFrom
<1>7. \A k \in 1 .. n : buffer[SlotAt(read, k - 1)] \in Cell
  <2>1. \A k \in 1 .. n : k - 1 \in 0 .. Size - 1
    <3> HIDE DEF n
    <3> QED
        BY <1>3, SizeAssumption
  <2>2. \A k \in 1 .. n : SlotAt(read, k - 1) \in Slot
        BY <2>1, <1>1, SlotAtType DEF TypeOK
  <2>3. QED
        BY <2>2, <1>1 DEF TypeOK, Cell
<1>8. /\ Pending \in Seq(Cell) /\ Len(Pending) = n
      /\ \A k \in 1 .. n : Pending[k] = buffer[SlotAt(read, k - 1)]
  <2>1. Pending \in [1 .. n -> Cell]
        BY <1>7 DEF Pending
  <2>2. QED
        BY <2>1, <1>3 DEF Pending
<1> HIDE DEF at, from, n, got
<1>9. got \in Nat /\ at + got = Len(received)
      BY <1>2, <1>5, <1>6 DEF got
<1>10. /\ Since(at) \in Seq(Cell) /\ Len(Since(at)) = got
       /\ \A i \in 1 .. got : Since(at)[i] = received[at + i]
  <2>1. /\ Since(at) \in Seq(Cell) /\ Len(Since(at)) \in Nat
        /\ at + Len(Since(at)) = Len(received)
        /\ \A i \in 1 .. Len(Since(at)) : Since(at)[i] = received[at + i]
        BY <1>2, <1>4, <1>6, SinceIs
  <2>2. Len(Since(at)) = got
        BY <1>2, <1>9, <2>1
  <2>3. QED
        BY <2>1, <2>2
<1> DEFINE rest == SubSeq(sent, from + 1, Len(sent))
<1>11. /\ rest \in Seq(Cell) /\ Len(rest) = got + n
       /\ \A i \in 1 .. got + n : rest[i] = sent[from + i]
  <2>1. \A i \in from + 1 .. Len(sent) : sent[i] \in Cell
        BY <1>2, <1>4, <1>5, ElementOfSeq
  <2>2. /\ rest \in Seq(Cell)
        /\ Len(rest) = IF from + 1 <= Len(sent)
                         THEN Len(sent) - (from + 1) + 1 ELSE 0
        /\ \A i \in 1 .. Len(sent) - (from + 1) + 1 :
             rest[i] = sent[(from + 1) + i - 1]
        BY <2>1, <1>2, <1>5, SubSeqProperties
  <2> HIDE DEF rest
  <2>3. Len(rest) = got + n
        BY <2>2, <1>2, <1>3, <1>5, <1>6, <1>9
  <2>4. ASSUME NEW i \in 1 .. got + n PROVE rest[i] = sent[from + i]
    <3>1. i \in 1 .. Len(sent) - (from + 1) + 1 /\ (from + 1) + i - 1 = from + i
          BY <1>2, <1>3, <1>5, <1>6, <1>9
    <3>2. QED
          BY <3>1, <2>2
  <2>5. QED
        BY <2>2, <2>3, <2>4
<1>12. /\ Since(at) \o Pending \in Seq(Cell)
       /\ Len(Since(at) \o Pending) = got + n
       /\ \A i \in 1 .. got + n : (Since(at) \o Pending)[i] =
             IF i <= got THEN Since(at)[i] ELSE Pending[i - got]
  <2>1. Since(at) \in Seq(Cell) /\ Pending \in Seq(Cell)
        BY <1>8, <1>10
  <2>2. Len(Since(at)) = got /\ Len(Pending) = n
        BY <1>8, <1>10
  <2>3. QED
        BY <2>1, <2>2, ConcatProperties
<1>13. ASSUME NEW i \in 1 .. got + n
       PROVE  (Since(at) \o Pending)[i] = sent[from + i]
  <2>1. CASE i <= got
    <3>1. i \in 1 .. got
          BY <2>1, <1>9
    <3>2. QED
          BY <2>1, <3>1, <1>6, <1>10, <1>12
  <2>2. CASE ~(i <= got)
    <3>1. i - got \in 1 .. n /\ got + (i - got) = i
          BY <2>2, <1>3, <1>9
    <3>2. Pending[i - got] = sent[from + (got + (i - got))]
          BY <3>1, <1>6, <1>8
    <3>3. QED
          BY <2>2, <3>1, <3>2, <1>12
  <2>3. QED
        BY <2>1, <2>2
<1>14. Since(at) \o Pending = rest
  <2> DEFINE whole == Since(at) \o Pending
  <2> HIDE DEF rest, whole
  <2>1. /\ whole \in Seq(Cell) /\ Len(whole) = Len(rest)
        /\ \A i \in 1 .. Len(whole) : whole[i] = rest[i]
        BY <1>11, <1>12, <1>13 DEF whole
  <2>2. QED
        BY <2>1, <1>11, SeqEqual DEF whole
<1>15. QED
       BY <1>14 DEF at, from

(* From the moment the blocking mode takes effect the host gets one piece of
   the stream without a gap: for every ring and host buffer, after any number
   of overruns before it, of sessions and of resets. *)
THEOREM StreamCorrect == EndToEndSpec => []StreamIsContiguous
BY StreamInit, StreamStep, ContiguousFromInv, EndToEndTypeCorrect, PTL DEF EndToEndSpec
-----------------------------------------------------------------------------
(* The decoder, one byte at a time. *)

\* The states a SerialDecoder can be in.
DecoderState == [frames : Seq(Seq(Cell)), buffer : Seq(Cell)]

LEMMA NewDecoderType == NewDecoder \in DecoderState
<1>1. << >> \in Seq(Seq(Cell)) /\ << >> \in Seq(Cell)
      BY EmptySeq
<1>2. QED
      BY <1>1 DEF NewDecoder, DecoderState

LEMMA FedIs ==
  ASSUME NEW d \in DecoderState, NEW c \in Cell
  PROVE  /\ Fed(d, c) \in DecoderState
         /\ c = 0 => Fed(d, c) = [frames |-> Append(d.frames, d.buffer), buffer |-> << >>]
         /\ c # 0 => Fed(d, c) = [frames |-> d.frames, buffer |-> Append(d.buffer, c)]
<1>1. /\ d.frames \in Seq(Seq(Cell)) /\ d.buffer \in Seq(Cell)
      /\ d = [frames |-> d.frames, buffer |-> d.buffer]
      BY DEF DecoderState
<1>2. CASE c = 0
  <2>1. Append(d.frames, d.buffer) \in Seq(Seq(Cell)) /\ << >> \in Seq(Cell)
        BY <1>1, AppendProperties, EmptySeq
  <2>2. Fed(d, c) = [frames |-> Append(d.frames, d.buffer), buffer |-> << >>]
        BY <1>2 DEF Fed
  <2>3. Fed(d, c) \in DecoderState
        BY <2>1, <2>2 DEF DecoderState
  <2>4. QED
        BY <1>2, <2>2, <2>3
<1>3. CASE c # 0
  <2>1. Append(d.buffer, c) \in Seq(Cell)
        BY <1>1, AppendProperties
  <2>2. Fed(d, c) = [frames |-> d.frames, buffer |-> Append(d.buffer, c)]
        BY <1>1, <1>3 DEF Fed
  <2>3. QED
        BY <1>1, <1>3, <2>1, <2>2 DEF DecoderState
<1>4. QED
      BY <1>2, <1>3

\* The recursive definition of Decoder, unfolded.
LEMMA DecoderIs ==
  ASSUME NEW s \in Seq(Cell)
  PROVE  /\ Len(s) \in Nat
         /\ \A n \in 1 .. Len(s) : s[n] \in Cell
         /\ \A n \in 0 .. Len(s) : Decoder(s)[n] \in DecoderState
         /\ Decoder(s)[0] = NewDecoder
         /\ \A n \in 1 .. Len(s) : Decoder(s)[n] = Fed(Decoder(s)[n - 1], s[n])
<1> DEFINE N == Len(s)
           link == [n \in 1 .. N |-> n - 1]
           step == [n \in 1 .. N |-> [d \in DecoderState |-> Fed(d, s[n])]]
<1>1. N \in Nat /\ \A n \in 1 .. N : s[n] \in Cell
      BY LenProperties, ElementOfSeq
<1>2. Backward(link, N)
      BY <1>1 DEF Backward
<1>3. StepsIn(step, N, DecoderState)
      BY <1>1, FedIs DEF StepsIn
<1>4. NewDecoder \in DecoderState
      BY NewDecoderType
<1>5. PICK f : Recursive(f, N, DecoderState, NewDecoder, link, step)
  <2> HIDE DEF N, link, step
  <2>1. QED
        BY <1>1, <1>2, <1>3, <1>4, RecursiveFunction
<1>6. f = [n \in 0 .. N |-> IF n = 0 THEN NewDecoder ELSE Fed(f[n - 1], s[n])]
  <2>1. ASSUME NEW n \in 1 .. N PROVE f[n] = Fed(f[n - 1], s[n])
    <3>1. n - 1 \in 0 .. N /\ link[n] = n - 1
          BY <1>1
    <3>2. f[n - 1] \in DecoderState
          BY <1>5, <3>1 DEF Recursive
    <3>3. step[n][f[n - 1]] = Fed(f[n - 1], s[n])
          BY <3>2
    <3> HIDE DEF step, link
    <3>4. QED
          BY <1>5, <3>1, <3>3 DEF Recursive
  <2> HIDE DEF step, link
  <2>2. QED
        BY <1>1, <1>5, <2>1 DEF Recursive
<1>7. Decoder(s) = [n \in 0 .. N |-> IF n = 0 THEN NewDecoder
                                    ELSE Fed(Decoder(s)[n - 1], s[n])]
      BY <1>6 DEF Decoder
<1>8. Decoder(s)[0] = NewDecoder
      BY <1>1, <1>7
<1>9. \A n \in 1 .. N : Decoder(s)[n] = Fed(Decoder(s)[n - 1], s[n])
      BY <1>1, <1>7
<1>10. \A n \in 0 .. N : Decoder(s)[n] \in DecoderState
  <2> DEFINE K == {n \in Nat : n <= N => Decoder(s)[n] \in DecoderState}
  <2>1. 0 \in K
        BY <1>4, <1>8
  <2>2. ASSUME NEW n \in Nat, n \in K PROVE n + 1 \in K
    <3>1. SUFFICES ASSUME n + 1 <= N PROVE Decoder(s)[n + 1] \in DecoderState
          OBVIOUS
    <3>2. Decoder(s)[n] \in DecoderState /\ n + 1 \in 1 .. N /\ (n + 1) - 1 = n
          BY <1>1, <2>2, <3>1
    <3>3. Decoder(s)[n + 1] = Fed(Decoder(s)[n], s[n + 1])
          BY <1>9, <3>2
    <3>4. QED
          BY <1>1, <3>2, <3>3, FedIs
  <2>3. Nat \subseteq K
    <3> HIDE DEF K
    <3>1. QED
          BY <2>1, <2>2, Induction
  <2>4. QED
        BY <1>1, <2>3
<1>11. QED
       BY <1>1, <1>8, <1>9, <1>10

\* f is what d becomes when it gets the bytes that make a new decoder e: the same
\* frames follow, but for the first, which begins with what d held already.
Joins(d, e, f) ==
  /\ Len(f.frames) = Len(d.frames) + Len(e.frames)
  /\ \A i \in 1 .. Len(d.frames) : f.frames[i] = d.frames[i]
  /\ \A i \in 1 .. Len(e.frames) :
       i > 1 \/ d.buffer = << >> => f.frames[Len(d.frames) + i] = e.frames[i]
  /\ Len(e.frames) > 0 \/ d.buffer = << >> => f.buffer = e.buffer

LEMMA JoinsFed ==
  ASSUME NEW d \in DecoderState, NEW e \in DecoderState, NEW f \in DecoderState,
         NEW c \in Cell, Joins(d, e, f)
  PROVE  Joins(d, Fed(e, c), Fed(f, c))
<1> DEFINE ld == Len(d.frames)
           le == Len(e.frames)
           lf == Len(f.frames)
<1>1. /\ d.frames \in Seq(Seq(Cell))
      /\ e.frames \in Seq(Seq(Cell)) /\ e.buffer \in Seq(Cell)
      /\ f.frames \in Seq(Seq(Cell)) /\ f.buffer \in Seq(Cell)
      BY DEF DecoderState
<1>2. ld \in Nat /\ le \in Nat /\ lf \in Nat
      BY <1>1, LenProperties
<1>3. /\ lf = ld + le
      /\ \A i \in 1 .. ld : f.frames[i] = d.frames[i]
      /\ \A i \in 1 .. le :
           i > 1 \/ d.buffer = << >> => f.frames[ld + i] = e.frames[i]
      /\ le > 0 \/ d.buffer = << >> => f.buffer = e.buffer
      BY DEF Joins
<1>4. CASE c # 0
  <2>1. /\ Fed(e, c).frames = e.frames /\ Fed(e, c).buffer = Append(e.buffer, c)
        /\ Fed(f, c).frames = f.frames /\ Fed(f, c).buffer = Append(f.buffer, c)
    <3>1. /\ Fed(e, c) = [frames |-> e.frames, buffer |-> Append(e.buffer, c)]
          /\ Fed(f, c) = [frames |-> f.frames, buffer |-> Append(f.buffer, c)]
          BY <1>4, FedIs
    <3>2. QED
          BY <3>1
  <2>2. le > 0 \/ d.buffer = << >> => Append(f.buffer, c) = Append(e.buffer, c)
        BY <1>3
  <2>3. QED
        BY <1>3, <2>1, <2>2 DEF Joins
<1>5. CASE c = 0
  <2> DEFINE ee == Append(e.frames, e.buffer)
             ff == Append(f.frames, f.buffer)
  <2>1. /\ Fed(e, c).frames = ee /\ Fed(e, c).buffer = << >>
        /\ Fed(f, c).frames = ff /\ Fed(f, c).buffer = << >>
    <3>1. /\ Fed(e, c) = [frames |-> ee, buffer |-> << >>]
          /\ Fed(f, c) = [frames |-> ff, buffer |-> << >>]
          BY <1>5, FedIs
    <3> HIDE DEF ee, ff
    <3>2. QED
          BY <3>1
  <2>2. /\ Len(ee) = le + 1 /\ ee[le + 1] = e.buffer
        /\ \A i \in 1 .. le : ee[i] = e.frames[i]
        BY <1>1, AppendProperties
  <2>3. /\ Len(ff) = lf + 1 /\ ff[lf + 1] = f.buffer
        /\ \A i \in 1 .. lf : ff[i] = f.frames[i]
        BY <1>1, AppendProperties
  <2> HIDE DEF ee, ff, ld, le, lf
  <2>4. Len(ff) = ld + Len(ee)
        BY <1>2, <1>3, <2>2, <2>3
  <2>5. \A i \in 1 .. ld : ff[i] = d.frames[i]
        BY <1>2, <1>3, <2>3
  <2>6. ASSUME NEW i \in 1 .. Len(ee), i > 1 \/ d.buffer = << >>
        PROVE  ff[ld + i] = ee[i]
    <3>1. CASE i \in 1 .. le
      <4>1. f.frames[ld + i] = e.frames[i]
            BY <1>3, <2>6, <3>1
      <4>2. ld + i \in 1 .. lf
            BY <1>2, <1>3, <3>1
      <4>3. QED
            BY <2>2, <2>3, <3>1, <4>1, <4>2
    <3>2. CASE i \notin 1 .. le
      <4>1. i = le + 1
            BY <1>2, <2>2, <3>2
      <4>2. ld + i = lf + 1
            BY <1>2, <1>3, <4>1
      <4>3. le > 0 \/ d.buffer = << >>
            BY <1>2, <2>6, <4>1
      <4>4. f.buffer = e.buffer
            BY <1>3, <4>3
      <4>5. QED
            BY <2>2, <2>3, <4>1, <4>2, <4>4
    <3>3. QED
          BY <3>1, <3>2
  <2>7. QED
        BY <2>1, <2>4, <2>5, <2>6 DEF Joins, ld
<1>6. QED
      BY <1>4, <1>5

\* A decoder that starts in the middle of a stream: from the first frame that
\* ends, it finds the frames of the whole stream.
LEMMA DecoderJoins ==
  ASSUME NEW s \in Seq(Cell), NEW t \in Seq(Cell), NEW a \in Nat,
         a + Len(t) <= Len(s), \A i \in 1 .. Len(t) : t[i] = s[a + i]
  PROVE  \A k \in 0 .. Len(t) : Joins(Decoder(s)[a], Decoder(t)[k], Decoder(s)[a + k])
<1> DEFINE D(n) == Decoder(s)[n]
           E(n) == Decoder(t)[n]
<1>1. /\ Len(s) \in Nat /\ Len(t) \in Nat
      /\ \A n \in 1 .. Len(t) : t[n] \in Cell
      /\ \A n \in 0 .. Len(s) : D(n) \in DecoderState
      /\ \A n \in 0 .. Len(t) : E(n) \in DecoderState
      /\ E(0) = NewDecoder
      /\ \A n \in 1 .. Len(s) : D(n) = Fed(D(n - 1), s[n])
      /\ \A n \in 1 .. Len(t) : E(n) = Fed(E(n - 1), t[n])
      BY DecoderIs
<1> HIDE DEF D, E
<1> DEFINE K == {k \in Nat : k <= Len(t) => Joins(D(a), E(k), D(a + k))}
<1>2. 0 \in K
  <2>1. D(a) \in DecoderState /\ a + 0 = a
        BY <1>1
  <2>2. Len(D(a).frames) \in Nat
        BY <2>1 DEF DecoderState
  <2>3. Joins(D(a), NewDecoder, D(a))
        BY <2>2 DEF Joins, NewDecoder
  <2>4. QED
        BY <1>1, <2>1, <2>3
<1>3. ASSUME NEW k \in Nat, k \in K PROVE k + 1 \in K
  <2>1. SUFFICES ASSUME k + 1 <= Len(t) PROVE Joins(D(a), E(k + 1), D(a + (k + 1)))
        OBVIOUS
  <2>2. /\ k \in 0 .. Len(t) /\ k + 1 \in 1 .. Len(t) /\ (k + 1) - 1 = k
        /\ a \in 0 .. Len(s) /\ a + k \in 0 .. Len(s)
        /\ a + (k + 1) \in 1 .. Len(s) /\ (a + (k + 1)) - 1 = a + k
        BY <1>1, <2>1
  <2>3. Joins(D(a), E(k), D(a + k))
        BY <1>3, <2>2
  <2>4. E(k + 1) = Fed(E(k), t[k + 1])
        BY <1>1, <2>2
  <2>5. D(a + (k + 1)) = Fed(D(a + k), t[k + 1])
        BY <1>1, <2>2
  <2>6. D(a) \in DecoderState /\ D(a + k) \in DecoderState /\ E(k) \in DecoderState
        BY <1>1, <2>2
  <2>7. Joins(D(a), Fed(E(k), t[k + 1]), Fed(D(a + k), t[k + 1]))
        BY <1>1, <2>2, <2>3, <2>6, JoinsFed
  <2>8. QED
        BY <2>4, <2>5, <2>7
<1>4. Nat \subseteq K
  <2> HIDE DEF K
  <2>1. QED
        BY <1>2, <1>3, Induction
<1>5. QED
      BY <1>1, <1>4 DEF D, E

\* What it has found stays found.
LEMMA FramesKept ==
  ASSUME NEW s \in Seq(Cell), NEW a \in 0 .. Len(s)
  PROVE  /\ Len(Decoder(s)[a].frames) <= Len(Feed(s).frames)
         /\ \A i \in 1 .. Len(Decoder(s)[a].frames) :
              Feed(s).frames[i] = Decoder(s)[a].frames[i]
<1>1. Len(s) \in Nat /\ \A n \in 1 .. Len(s) : s[n] \in Cell
      BY DecoderIs
<1> DEFINE rest == Len(s) - a
           t == [i \in 1 .. rest |-> s[a + i]]
<1>2. rest \in Nat /\ a \in Nat /\ a + rest = Len(s)
      BY <1>1
<1> HIDE DEF rest
<1>3. \A i \in 1 .. rest : s[a + i] \in Cell
      BY <1>1, <1>2
<1>4. t \in Seq(Cell) /\ Len(t) = rest
      BY <1>2, <1>3
<1>5. \A i \in 1 .. Len(t) : t[i] = s[a + i]
      BY <1>4
<1> HIDE DEF t
<1>6. Joins(Decoder(s)[a], Decoder(t)[rest], Decoder(s)[a + rest])
  <2>1. a + Len(t) <= Len(s)
        BY <1>1, <1>2, <1>4
  <2>2. \A k \in 0 .. Len(t) : Joins(Decoder(s)[a], Decoder(t)[k], Decoder(s)[a + k])
        BY <1>2, <1>4, <1>5, <2>1, DecoderJoins
  <2>3. QED
        BY <1>2, <1>4, <2>2
<1>7. Joins(Decoder(s)[a], Decoder(t)[rest], Feed(s))
      BY <1>2, <1>6 DEF Feed
<1>8. /\ Decoder(s)[a] \in DecoderState /\ Decoder(t)[rest] \in DecoderState
      /\ Feed(s) \in DecoderState
      BY <1>1, <1>2, <1>4, DecoderIs DEF Feed
<1> DEFINE ld == Len(Decoder(s)[a].frames)
           le == Len(Decoder(t)[rest].frames)
<1>9. ld \in Nat /\ le \in Nat
      BY <1>8 DEF DecoderState
<1>10. /\ Len(Feed(s).frames) = ld + le
       /\ \A i \in 1 .. ld : Feed(s).frames[i] = Decoder(s)[a].frames[i]
       BY <1>7 DEF Joins
<1> HIDE DEF le
<1>11. Len(Decoder(s)[a].frames) <= Len(Feed(s).frames)
  <2> HIDE DEF ld
  <2>1. QED
        BY <1>9, <1>10 DEF ld
<1>12. QED
       BY <1>10, <1>11

\* The bytes of a message and the 0 after them make one frame of it.
LEMMA MessageIsFrame ==
  ASSUME NEW m \in Message
  PROVE  /\ Append(Encode(m), 0) \in Seq(Cell)
         /\ Feed(Append(Encode(m), 0)) = [frames |-> <<Encode(m)>>, buffer |-> << >>]
<1> DEFINE enc == Encode(m)
           whole == Append(enc, 0)
           size == Len(enc)
           D(k) == Decoder(whole)[k]
           Holds(k) == /\ D(k).frames = << >>
                       /\ D(k).buffer \in Seq(Cell) /\ Len(D(k).buffer) = k
                       /\ \A i \in 1 .. k : D(k).buffer[i] = enc[i]
<1>1. enc \in Seq(Nat \ {0}) /\ whole \in Seq(Byte)
      BY MessageAssumption, RoundTrip
<1>2. whole \in Seq(Cell)
      BY <1>1, SeqMonotonic DEF Cell
<1> HIDE DEF enc
<1>3. /\ size \in Nat /\ Len(whole) = size + 1 /\ whole[size + 1] = 0
      /\ \A i \in 1 .. size : whole[i] = enc[i] /\ enc[i] \in Nat \ {0}
      BY <1>1, LenProperties, AppendProperties, ElementOfSeq
<1> HIDE DEF whole, size
<1>4. /\ \A n \in 1 .. size + 1 : whole[n] \in Cell
      /\ \A n \in 0 .. size + 1 : D(n) \in DecoderState
      /\ D(0) = NewDecoder
      /\ \A n \in 1 .. size + 1 : D(n) = Fed(D(n - 1), whole[n])
  <2> HIDE DEF D
  <2>1. QED
        BY <1>2, <1>3, DecoderIs DEF D
<1> DEFINE K == {k \in Nat : k <= size => Holds(k)}
<1> HIDE DEF D
<1>5. 0 \in K
  <2>1. << >> \in Seq(Cell) /\ Len(<< >>) = 0
        BY EmptySeq
  <2>2. D(0).frames = << >> /\ D(0).buffer = << >>
        BY <1>4 DEF NewDecoder
  <2>3. Holds(0)
    <3>1. D(0).buffer \in Seq(Cell) /\ Len(D(0).buffer) = 0
          BY <2>1, <2>2
    <3>2. QED
          BY <2>2, <3>1
  <2> HIDE DEF Holds
  <2>4. QED
        BY <2>3
<1>6. ASSUME NEW k \in Nat, k \in K PROVE k + 1 \in K
  <2>1. SUFFICES ASSUME k + 1 <= size PROVE Holds(k + 1)
        OBVIOUS
  <2>2. /\ k + 1 \in 1 .. size /\ k + 1 \in 1 .. size + 1 /\ (k + 1) - 1 = k
        /\ k \in 0 .. size + 1 /\ k <= size
        BY <1>3, <2>1
  <2>3. Holds(k)
        BY <1>6, <2>2
  <2>4. whole[k + 1] = enc[k + 1] /\ whole[k + 1] # 0 /\ whole[k + 1] \in Cell
        BY <1>3, <1>4, <2>2
  <2>5. D(k + 1) = Fed(D(k), whole[k + 1]) /\ D(k) \in DecoderState
        BY <1>4, <2>2
  <2>6. D(k + 1) = [frames |-> D(k).frames, buffer |-> Append(D(k).buffer, whole[k + 1])]
        BY <2>4, <2>5, FedIs
  <2> DEFINE before == D(k).buffer
             after == Append(before, whole[k + 1])
  <2>7. D(k + 1).frames = << >> /\ D(k + 1).buffer = after
    <3> HIDE DEF after
    <3>1. QED
          BY <2>3, <2>6 DEF after
  <2>8. before \in Seq(Cell) /\ Len(before) = k /\ \A i \in 1 .. k : before[i] = enc[i]
        BY <2>3
  <2> HIDE DEF before
  <2>9. /\ after \in Seq(Cell) /\ Len(after) = k + 1 /\ after[k + 1] = enc[k + 1]
        /\ \A i \in 1 .. k : after[i] = before[i]
        BY <2>4, <2>8, AppendProperties
  <2> HIDE DEF after
  <2>10. \A i \in 1 .. k + 1 : after[i] = enc[i]
         BY <2>8, <2>9
  <2>11. QED
         BY <2>7, <2>9, <2>10
<1>7. Nat \subseteq K
  <2> HIDE DEF K
  <2>1. QED
        BY <1>5, <1>6, Induction
<1>8. Holds(size)
  <2> HIDE DEF Holds
  <2>1. QED
        BY <1>3, <1>7
<1>9. D(size).buffer = enc
  <2>1. enc \in Seq(Nat) /\ Len(enc) = size
        BY <1>1, SeqMonotonic DEF size
  <2>2. QED
        BY <1>8, <2>1, SeqEqual
<1>10. D(size + 1) = [frames |-> Append(D(size).frames, D(size).buffer), buffer |-> << >>]
  <2>1. /\ size + 1 \in 1 .. size + 1 /\ size \in 0 .. size + 1 /\ (size + 1) - 1 = size
        BY <1>3
  <2>2. D(size + 1) = Fed(D(size), whole[size + 1]) /\ D(size) \in DecoderState
        BY <1>4, <2>1
  <2>3. whole[size + 1] = 0 /\ whole[size + 1] \in Cell
        BY <1>3, <1>4, <2>1
  <2>4. QED
        BY <2>2, <2>3, FedIs
<1>11. D(size + 1) = [frames |-> <<enc>>, buffer |-> << >>]
  <2>1. Append(<< >>, enc) = <<enc>>
        OBVIOUS
  <2>2. QED
        BY <1>8, <1>9, <1>10, <2>1
<1>12. QED
       BY <1>2, <1>3, <1>11 DEF Feed, D, whole, enc

\* A decoder whose buffer is empty finds that frame.
LEMMA MessageFed ==
  ASSUME NEW s \in Seq(Cell), Feed(s).buffer = << >>, NEW m \in Message
  PROVE  LET next == s \o Append(Encode(m), 0)
         IN  /\ next \in Seq(Cell)
             /\ Feed(next) = [frames |-> Append(Feed(s).frames, Encode(m)), buffer |-> << >>]
<1> DEFINE t == Append(Encode(m), 0)
           next == s \o t
           a == Len(s)
           b == Len(t)
           D(k) == Decoder(next)[k]
<1>1. t \in Seq(Cell) /\ Feed(t) = [frames |-> <<Encode(m)>>, buffer |-> << >>]
      BY MessageIsFrame
<1> HIDE DEF t
<1>2. /\ next \in Seq(Cell) /\ a \in Nat /\ b \in Nat
      /\ Len(next) = a + b
      /\ \A i \in 1 .. a : next[i] = s[i]
  <2>1. next \in Seq(Cell) /\ Len(next) = a + b
        BY <1>1, ConcatProperties
  <2>2. a \in Nat /\ b \in Nat
        BY <1>1, LenProperties
  <2>3. \A i \in 1 .. a + b : next[i] = IF i <= a THEN s[i] ELSE t[i - a]
        BY <1>1, ConcatProperties
  <2>4. QED
        BY <2>1, <2>2, <2>3
<1>3. \A i \in 1 .. b : next[a + i] = t[i]
  <2>1. \A i \in 1 .. a + b : next[i] = IF i <= a THEN s[i] ELSE t[i - a]
        BY <1>1, ConcatProperties
  <2> HIDE DEF a, b, next
  <2>2. SUFFICES ASSUME NEW i \in 1 .. b PROVE next[a + i] = t[i]
        OBVIOUS
  <2>3. a + i \in 1 .. a + b /\ ~(a + i <= a) /\ (a + i) - a = i
        BY <1>2
  <2>4. QED
        BY <2>1, <2>3
<1> HIDE DEF next, a, b
<1>4. Feed(s) \in DecoderState /\ D(a) \in DecoderState /\ D(a + b) \in DecoderState
      /\ Decoder(next)[0] = NewDecoder
  <2>1. a \in 0 .. a /\ a \in 0 .. a + b /\ a + b \in 0 .. a + b
        BY <1>2
  <2>2. QED
        BY <1>2, <2>1, DecoderIs DEF Feed, a
<1>5. Joins(NewDecoder, Feed(s), D(a))
  <2>1. 0 + a <= Len(next) /\ \A i \in 1 .. a : 0 + i = i
        BY <1>2
  <2>2. \A i \in 1 .. a : s[i] = next[0 + i]
        BY <1>2, <2>1
  <2>3. \A k \in 0 .. a : Joins(Decoder(next)[0], Decoder(s)[k], Decoder(next)[0 + k])
        BY <1>2, <2>1, <2>2, DecoderJoins DEF a
  <2>4. Joins(Decoder(next)[0], Decoder(s)[a], Decoder(next)[0 + a])
        BY <1>2, <2>3
  <2>5. 0 + a = a
        BY <1>2
  <2>6. QED
        BY <1>4, <2>4, <2>5 DEF Feed, a
<1>6. D(a).frames = Feed(s).frames /\ D(a).buffer = << >>
  <2> DEFINE f == D(a).frames
             g == Feed(s).frames
  <2>1. f \in Seq(Seq(Cell)) /\ g \in Seq(Seq(Cell))
        BY <1>4 DEF DecoderState
  <2>2. NewDecoder.frames = << >> /\ NewDecoder.buffer = << >> /\ Len(<< >>) = 0
        BY DEF NewDecoder
  <2>3. /\ Len(f) = 0 + Len(g)
        /\ \A i \in 1 .. Len(g) : f[0 + i] = g[i]
        /\ D(a).buffer = Feed(s).buffer
        BY <1>5, <2>2 DEF Joins
  <2> HIDE DEF f, g
  <2>4. Len(f) \in Nat /\ Len(g) \in Nat
        BY <2>1, LenProperties
  <2>5. Len(f) = Len(g) /\ \A i \in 1 .. Len(f) : f[i] = g[i]
        BY <2>3, <2>4
  <2>6. f = g
        BY <2>1, <2>5, SeqEqual
  <2>7. QED
        BY <2>3, <2>6 DEF f, g
<1>7. Joins(D(a), Feed(t), D(a + b))
  <2>1. a + b <= Len(next) /\ b \in 0 .. b
        BY <1>2
  <2>2. \A i \in 1 .. b : t[i] = next[a + i]
        BY <1>3
  <2>3. \A k \in 0 .. b : Joins(Decoder(next)[a], Decoder(t)[k], Decoder(next)[a + k])
        BY <1>1, <1>2, <2>1, <2>2, DecoderJoins DEF b
  <2>4. QED
        BY <2>1, <2>3 DEF Feed, b
<1>8. D(a + b) = [frames |-> Append(Feed(s).frames, Encode(m)), buffer |-> << >>]
  <2> DEFINE f == D(a + b).frames
             g == Feed(s).frames
             h == Append(g, Encode(m))
  <2>1. f \in Seq(Seq(Cell)) /\ g \in Seq(Seq(Cell))
        BY <1>4 DEF DecoderState
  <2>2. /\ Feed(t).frames = <<Encode(m)>> /\ Feed(t).buffer = << >>
        /\ Len(<<Encode(m)>>) = 1 /\ <<Encode(m)>>[1] = Encode(m)
        BY <1>1
  <2>3. /\ Len(f) = Len(g) + 1
        /\ \A i \in 1 .. Len(g) : f[i] = g[i]
        /\ f[Len(g) + 1] = Encode(m)
        /\ D(a + b).buffer = << >>
    <3>1. 1 \in 1 .. 1
          OBVIOUS
    <3>2. QED
          BY <1>6, <1>7, <2>2, <3>1 DEF Joins
  <2>4. Encode(m) \in Seq(Cell)
    <3>1. Feed(t) \in DecoderState
      <4>1. b \in 0 .. b
            BY <1>2
      <4>2. QED
            BY <1>1, <4>1, DecoderIs DEF Feed, b
    <3>2. Feed(t).frames \in Seq(Seq(Cell))
          BY <3>1 DEF DecoderState
    <3>3. QED
          BY <2>2, <3>2
  <2>5. D(a + b) = [frames |-> f, buffer |-> D(a + b).buffer]
        BY <1>4 DEF DecoderState
  <2> HIDE DEF f, g
  <2>6. /\ h \in Seq(Seq(Cell)) /\ Len(h) = Len(g) + 1
        /\ \A i \in 1 .. Len(g) : h[i] = g[i]
        /\ h[Len(g) + 1] = Encode(m) /\ Len(g) \in Nat
        BY <2>1, <2>4, AppendProperties, LenProperties
  <2> HIDE DEF h
  <2>7. Len(f) = Len(h) /\ \A i \in 1 .. Len(f) : f[i] = h[i]
        BY <2>3, <2>6
  <2>8. f = h
        BY <2>1, <2>6, <2>7, SeqEqual
  <2>9. QED
        BY <2>3, <2>5, <2>8 DEF h, g
<1>9. Feed(next) = D(a + b)
      BY <1>2 DEF Feed
<1>10. QED
       BY <1>2, <1>8, <1>9 DEF next, t
-----------------------------------------------------------------------------
(* What the target has written since its last reset, and has still to write of
   the message at hand, is a stream of whole logs. *)

Past     == SubSeq(sent, boot + 1, Len(sent))
InFlight == IF pc = "idle" THEN << >> ELSE <<value>>
Unsent   == InFlight \o todo
Flow     == Past \o Unsent

\* These bytes are the frames of the messages from the n-th on; only a reset
\* cuts messages off.
LogsFrom(bytes, n) ==
  /\ Feed(bytes).buffer = << >>
  /\ n + Len(Feed(bytes).frames) = Len(logged)
  /\ \A i \in 1 .. Len(Feed(bytes).frames) :
       Feed(bytes).frames[i] = Encode(logged[n + i])
  /\ resets = 0 => n = 0 /\ boot = 0

FlowInv ==
  /\ logged \in Seq(Message)
  /\ open \/ (todo = << >> /\ pc = "idle")
  /\ \E n \in Nat : LogsFrom(Flow, n)

LEMMA PastIs ==
  ASSUME EndToEndTypeOK
  PROVE  /\ Past \in Seq(Byte) /\ Len(Past) \in Nat /\ boot \in Nat /\ Len(sent) \in Nat
         /\ boot + Len(Past) = Len(sent)
         /\ \A i \in 1 .. Len(Past) : Past[i] = sent[boot + i]
<1>1. sent \in Seq(Byte)
      BY DEF EndToEndTypeOK, SessionTypeOK, TypeOK
<1>2. Len(sent) \in Nat
      BY <1>1, LenProperties
<1>3. boot \in Nat /\ boot <= Len(sent)
  <2>1. boot \in 0 .. Len(sent)
        BY DEF EndToEndTypeOK
  <2>2. QED
        BY <1>2, <2>1
<1> DEFINE n == Len(sent)
           first == boot + 1
<1>4. /\ Past = SubSeq(sent, first, n)
      /\ first \in Int /\ n \in Int /\ n - first + 1 = n - boot
      /\ (IF first <= n THEN n - first + 1 ELSE 0) = n - boot
      /\ \A i \in Int : first + i - 1 = boot + i
      BY <1>2, <1>3 DEF Past
<1>5. \A i \in first .. n : sent[i] \in Byte
  <2>1. \A i \in first .. n : i \in 1 .. Len(sent)
        BY <1>2, <1>3
  <2>2. QED
        BY <1>1, <2>1, ElementOfSeq
<1> HIDE DEF first, n
<1>6. /\ Past \in Seq(Byte) /\ Len(Past) = IF first <= n THEN n - first + 1 ELSE 0
      /\ \A i \in 1 .. n - first + 1 : Past[i] = sent[first + i - 1]
  <2>1. first \in Int /\ n \in Int
        BY <1>4
  <2>2. /\ SubSeq(sent, first, n) \in Seq(Byte)
        /\ Len(SubSeq(sent, first, n)) = IF first <= n THEN n - first + 1 ELSE 0
        /\ \A i \in 1 .. n - first + 1 :
             SubSeq(sent, first, n)[i] = sent[first + i - 1]
        BY <1>5, <2>1, SubSeqProperties
  <2>3. QED
        BY <1>4, <2>2
<1>7. Len(Past) = n - boot
      BY <1>4, <1>6
<1>8. \A i \in 1 .. n - boot : Past[i] = sent[boot + i]
  <2>1. SUFFICES ASSUME NEW i \in 1 .. n - boot PROVE Past[i] = sent[boot + i]
        OBVIOUS
  <2>2. i \in 1 .. n - first + 1 /\ first + i - 1 = boot + i
        BY <1>4
  <2>3. QED
        BY <1>6, <2>2
<1>9. boot + (n - boot) = n /\ n - boot \in Nat
      BY <1>2, <1>3 DEF n
<1>10. QED
       BY <1>2, <1>3, <1>6, <1>7, <1>8, <1>9 DEF n

LEMMA FlowType ==
  ASSUME EndToEndTypeOK
  PROVE  Unsent \in Seq(Byte) /\ Flow \in Seq(Byte) /\ Flow \in Seq(Cell)
<1>1. Past \in Seq(Byte)
      BY PastIs
<1>2. InFlight \in Seq(Byte)
  <2>1. value \in Byte
        BY DEF EndToEndTypeOK, SessionTypeOK, TypeOK
  <2>2. << >> \in Seq(Byte) /\ <<value>> \in Seq(Byte)
        BY <2>1, EmptySeq
  <2>3. QED
        BY <2>2 DEF InFlight
<1>3. todo \in Seq(Byte)
      BY DEF EndToEndTypeOK
<1>4. Unsent \in Seq(Byte)
      BY <1>2, <1>3, ConcatProperties DEF Unsent
<1>5. Flow \in Seq(Byte)
      BY <1>1, <1>4, ConcatProperties DEF Flow
<1>6. Flow \in Seq(Cell)
      BY <1>5, SeqMonotonic DEF Cell
<1>7. QED
      BY <1>4, <1>5, <1>6

LEMMA BytesJoin ==
  ASSUME NEW s \in Seq(Byte), NEW t \in Seq(Byte), NEW u \in Seq(Byte)
  PROVE  (s \o t) \o u = s \o (t \o u)
BY ConcatAssociative, SMTT(30)

\* A byte stored is not in flight any more.
LEMMA FlowStored ==
  ASSUME EndToEndTypeOK, EndToEndTypeOK', Store, todo' = todo, boot' = boot
  PROVE  Flow' = Flow
<1>1. /\ sent \in Seq(Byte) /\ value \in Byte /\ todo \in Seq(Byte)
      BY DEF EndToEndTypeOK, SessionTypeOK, TypeOK
<1>2. pc # "idle" /\ pc' = "idle" /\ sent' = Append(sent, value)
      BY DEF Store
<1>3. Past' = Past \o <<value>>
  <2> DEFINE now == Past \o <<value>>
             n == Len(Past)
             m == Len(sent)
  <2>1. /\ Past \in Seq(Byte) /\ n \in Nat /\ boot \in Nat /\ m \in Nat
        /\ boot + n = m
        /\ \A i \in 1 .. n : Past[i] = sent[boot + i]
        BY PastIs
  <2>2. /\ Past' \in Seq(Byte) /\ Len(Past') \in Nat
        /\ boot + Len(Past') = Len(sent')
        /\ \A i \in 1 .. Len(Past') : Past'[i] = sent'[boot + i]
    <3>1. /\ Past' \in Seq(Byte) /\ Len(Past') \in Nat
          /\ boot' + Len(Past') = Len(sent')
          /\ \A i \in 1 .. Len(Past') : Past'[i] = sent'[boot' + i]
      <4>1. (EndToEndTypeOK =>
               /\ Past \in Seq(Byte) /\ Len(Past) \in Nat
               /\ boot + Len(Past) = Len(sent)
               /\ \A i \in 1 .. Len(Past) : Past[i] = sent[boot + i])'
            BY PastIs, PTL
      <4>2. QED
            BY <4>1
    <3>2. QED
          BY <3>1
  <2>3. /\ Len(sent') = m + 1 /\ sent'[m + 1] = value
        /\ \A i \in 1 .. m : sent'[i] = sent[i]
        BY <1>1, <1>2, AppendProperties
  <2>4. <<value>> \in Seq(Byte) /\ Len(<<value>>) = 1 /\ <<value>>[1] = value
        BY <1>1
  <2>5. /\ now \in Seq(Byte) /\ Len(now) = n + 1
        /\ \A i \in 1 .. n + 1 : now[i] = IF i <= n THEN Past[i] ELSE <<value>>[i - n]
        BY <2>1, <2>4, ConcatProperties
  <2> HIDE DEF now, n, m
  <2>6. Len(Past') = n + 1
        BY <2>1, <2>2, <2>3
  <2>7. ASSUME NEW i \in 1 .. n + 1 PROVE Past'[i] = now[i]
    <3>1. Past'[i] = sent'[boot + i]
          BY <2>2, <2>6
    <3>2. CASE i <= n
      <4>1. i \in 1 .. n /\ boot + i \in 1 .. m
            BY <2>1, <3>2
      <4>2. now[i] = Past[i] /\ Past[i] = sent[boot + i]
            BY <2>1, <2>5, <3>2, <4>1
      <4>3. QED
            BY <2>3, <3>1, <4>1, <4>2
    <3>3. CASE ~(i <= n)
      <4>1. i = n + 1 /\ i - n = 1 /\ boot + i = m + 1
            BY <2>1, <3>3
      <4>2. now[i] = value
            BY <2>4, <2>5, <3>3, <4>1
      <4>3. QED
            BY <2>3, <3>1, <4>1, <4>2
    <3>4. QED
          BY <3>2, <3>3
  <2>8. Past' = now
        BY <2>2, <2>5, <2>6, <2>7, SeqEqual
  <2>9. QED
        BY <2>8 DEF now
<1>4. Unsent' = todo
  <2>1. Unsent' = << >> \o todo
        BY <1>2 DEF Unsent, InFlight
  <2>2. QED
        BY <1>1, <2>1, ConcatEmptySeq
<1>5. Unsent = <<value>> \o todo
      BY <1>2 DEF Unsent, InFlight
<1>6. (Past \o <<value>>) \o todo = Past \o (<<value>> \o todo)
  <2>1. Past \in Seq(Byte) /\ <<value>> \in Seq(Byte)
        BY <1>1, PastIs
  <2>2. QED
        BY <1>1, <2>1, BytesJoin
<1>7. Flow' = Past' \o Unsent'
      BY DEF Flow
<1>8. QED
      BY <1>3, <1>4, <1>5, <1>6, <1>7 DEF Flow

\* A byte given to the transport is in flight.
LEMMA FlowGiven ==
  ASSUME EndToEndTypeOK, WriteNext, boot' = boot
  PROVE  Flow' = Flow
<1>1. /\ pc = "idle" /\ pc' # "idle" /\ sent' = sent
      /\ value' = Head(todo) /\ todo' = Tail(todo) /\ todo # << >>
      BY DEF WriteNext, WriteByte
<1>2. todo \in Seq(Byte)
      BY DEF EndToEndTypeOK
<1>3. Unsent = todo
  <2>1. Unsent = << >> \o todo
        BY <1>1 DEF Unsent, InFlight
  <2>2. QED
        BY <1>2, <2>1, ConcatEmptySeq
<1>4. Unsent' = <<Head(todo)>> \o Tail(todo)
      BY <1>1 DEF Unsent, InFlight
<1>5. <<Head(todo)>> \o Tail(todo) = todo
  <2> DEFINE h == <<Head(todo)>>
             t == Tail(todo)
             n == Len(todo)
  <2>1. n \in Nat /\ n # 0
        BY <1>1, <1>2, EmptySeq
  <2>2. /\ h \in Seq(Byte) /\ Len(h) = 1 /\ h[1] = todo[1]
        BY <1>1, <1>2
  <2>3. /\ t \in Seq(Byte) /\ Len(t) = n - 1
        /\ \A i \in 1 .. Len(t) : t[i] = todo[i + 1]
        BY <1>1, <1>2, HeadTailProperties
  <2> HIDE DEF h, t, n
  <2>4. /\ h \o t \in Seq(Byte) /\ Len(h \o t) = Len(h) + Len(t)
        /\ \A i \in 1 .. Len(h) + Len(t) :
             (h \o t)[i] = IF i <= Len(h) THEN h[i] ELSE t[i - Len(h)]
    <3>1. h \in Seq(Byte) /\ t \in Seq(Byte)
          BY <2>2, <2>3
    <3>2. QED
          BY <3>1, ConcatProperties
  <2>5. Len(h \o t) = n
        BY <2>1, <2>2, <2>3, <2>4
  <2>6. ASSUME NEW i \in 1 .. n PROVE (h \o t)[i] = todo[i]
    <3>1. i \in 1 .. Len(h) + Len(t)
          BY <2>1, <2>2, <2>3
    <3>2. CASE i = 1
          BY <2>2, <2>4, <3>1, <3>2
    <3>3. CASE i # 1
      <4>1. ~(i <= Len(h)) /\ i - Len(h) \in 1 .. Len(t) /\ (i - Len(h)) + 1 = i
            BY <2>1, <2>2, <2>3, <3>3
      <4>2. QED
            BY <2>3, <2>4, <3>1, <4>1
    <3>4. QED
          BY <3>2, <3>3
  <2>7. h \o t = todo
        BY <1>2, <2>4, <2>5, <2>6, SeqEqual DEF n
  <2>8. QED
        BY <2>7 DEF h, t
<1>6. Unsent' = Unsent
      BY <1>3, <1>4, <1>5
<1>7. Past' = Past
      BY <1>1 DEF Past
<1>8. QED
      BY <1>6, <1>7 DEF Flow

\* A message comes as one more frame.
LEMMA FlowLogged ==
  ASSUME EndToEndTypeOK, FlowInv, NEW m \in Message, LogMessage(m),
         UNCHANGED <<resets, boot>>
  PROVE  \E n \in Nat : LogsFrom(Flow, n)'
<1> DEFINE t == Append(Encode(m), 0)
<1>1. /\ todo = << >> /\ pc = "idle" /\ pc' = "idle" /\ sent' = sent
      /\ todo' = t /\ logged' = Append(logged, m)
      BY DEF LogMessage, FlowInv, sessionVars
<1>2. t \in Seq(Cell) /\ t \in Seq(Byte)
      BY MessageAssumption, MessageIsFrame
<1> HIDE DEF t
<1>3. Past \in Seq(Byte)
      BY PastIs
<1>4. Flow = Past
  <2>1. << >> \o << >> = << >> /\ Past \o << >> = Past
        BY <1>3, ConcatEmptySeq
  <2>2. QED
        BY <1>1, <2>1 DEF Flow, Unsent, InFlight
<1>5. Flow' = Past \o t
  <2>1. << >> \o t = t
        BY <1>2, ConcatEmptySeq
  <2>2. Unsent' = t /\ Past' = Past
        BY <1>1, <2>1 DEF Unsent, InFlight, Past
  <2>3. Flow' = Past' \o Unsent'
        BY DEF Flow
  <2>4. QED
        BY <2>2, <2>3
<1>6. PICK n \in Nat : LogsFrom(Flow, n)
      BY DEF FlowInv
<1> DEFINE frames == Feed(Flow).frames
           count  == Len(frames)
           after  == Append(frames, Encode(m))
<1>7. /\ Feed(Flow).buffer = << >> /\ n + count = Len(logged)
      /\ \A i \in 1 .. count : frames[i] = Encode(logged[n + i])
      /\ resets = 0 => n = 0 /\ boot = 0
      BY <1>6 DEF LogsFrom
<1>8. Feed(Flow') = [frames |-> after, buffer |-> << >>]
  <2>1. Flow \in Seq(Cell)
        BY FlowType
  <2>2. Feed(Flow \o t) = [frames |-> Append(Feed(Flow).frames, Encode(m)),
                          buffer |-> << >>]
        BY <1>7, <2>1, MessageFed DEF t
  <2>3. QED
        BY <1>4, <1>5, <2>2
<1>9. frames \in Seq(Seq(Cell)) /\ Encode(m) \in Seq(Cell)
  <2>1. ASSUME NEW s \in Seq(Cell) PROVE Feed(s) \in DecoderState
    <3>1. Len(s) \in 0 .. Len(s)
          BY DecoderIs
    <3>2. QED
          BY <3>1, DecoderIs DEF Feed
  <2>2. Feed(Flow).frames \in Seq(Seq(Cell))
        BY <2>1, FlowType DEF DecoderState
  <2>3. Feed(t) \in DecoderState
        BY <2>1, <1>2
  <2>4. Feed(t) = [frames |-> <<Encode(m)>>, buffer |-> << >>]
        BY MessageIsFrame DEF t
  <2>5. <<Encode(m)>> \in Seq(Seq(Cell))
        BY <2>3, <2>4 DEF DecoderState
  <2>6. QED
        BY <2>2, <2>5
<1>10. /\ Len(after) = count + 1 /\ after[count + 1] = Encode(m) /\ count \in Nat
       /\ \A i \in 1 .. count : after[i] = frames[i]
  <2> HIDE DEF frames
  <2>1. QED
        BY <1>9, AppendProperties, LenProperties
<1>11. /\ Len(logged') = Len(logged) + 1 /\ logged'[Len(logged) + 1] = m
       /\ \A i \in 1 .. Len(logged) : logged'[i] = logged[i]
  <2>1. logged \in Seq(Message)
        BY DEF FlowInv
  <2>2. QED
        BY <1>1, <2>1, AppendProperties
<1>12. Feed(Flow').frames = after /\ Feed(Flow').buffer = << >>
  <2> HIDE DEF after
  <2>1. QED
        BY <1>8
<1> HIDE DEF frames, count, after
<1>13. n + Len(after) = Len(logged')
       BY <1>7, <1>10, <1>11
<1>14. ASSUME NEW i \in 1 .. Len(after) PROVE after[i] = Encode(logged'[n + i])
  <2>1. CASE i \in 1 .. count
    <3>1. n + i \in 1 .. Len(logged)
          BY <1>7, <1>10, <2>1
    <3>2. QED
          BY <1>7, <1>10, <1>11, <2>1, <3>1
  <2>2. CASE i \notin 1 .. count
    <3>1. i = count + 1 /\ n + i = Len(logged) + 1
          BY <1>7, <1>10, <2>2
    <3>2. QED
          BY <1>10, <1>11, <3>1
  <2>3. QED
        BY <2>1, <2>2
<1>15. LogsFrom(Flow, n)'
       BY <1>7, <1>12, <1>13, <1>14 DEF LogsFrom
<1>16. QED
       BY <1>15

\* A reset cuts off what was under way, and a new stream starts.
LEMMA FlowReset ==
  ASSUME EndToEndTypeOK, FlowInv, Reset
  PROVE  \E n \in Nat : LogsFrom(Flow, n)'
<1>1. /\ todo' = << >> /\ pc' = "idle" /\ sent' = sent /\ boot' = Len(sent)
      /\ logged' = logged /\ resets' = resets + 1 /\ resets \in Nat
      BY DEF Reset, history, EndToEndTypeOK
<1>2. Len(sent) \in Nat
      BY PastIs
<1>3. Past' = << >>
  <2>1. Len(sent) + 1 \in Int /\ Len(sent) \in Int /\ Len(sent) < Len(sent) + 1
        BY <1>2
  <2>2. SubSeq(sent, Len(sent) + 1, Len(sent)) = << >>
        BY <2>1, SubSeqEmpty
  <2>3. QED
        BY <1>1, <2>2 DEF Past
<1>4. Flow' = << >>
  <2>1. << >> \o << >> = << >>
        OBVIOUS
  <2>2. QED
        BY <1>1, <1>3, <2>1 DEF Flow, Unsent, InFlight
<1>5. Feed(<< >>) = NewDecoder /\ Len(<< >>) = 0
  <2>1. << >> \in Seq(Cell) /\ Len(<< >>) = 0
        BY EmptySeq
  <2>2. QED
        BY <2>1, DecoderIs DEF Feed
<1>6. Len(logged) \in Nat
      BY LenProperties DEF FlowInv
<1>7. LogsFrom(Flow, Len(logged))'
      BY <1>1, <1>4, <1>5, <1>6 DEF LogsFrom, NewDecoder
<1>8. QED
      BY <1>6, <1>7

LEMMA FlowInit == EndToEndInit => FlowInv
<1> SUFFICES ASSUME EndToEndInit PROVE FlowInv
    OBVIOUS
<1>1. /\ logged = << >> /\ todo = << >> /\ pc = "idle" /\ sent = << >> /\ boot = 0
      BY DEF EndToEndInit, SessionInit, Init
<1>2. Len(<< >>) = 0 /\ << >> \in Seq(Cell) /\ << >> \in Seq(Message)
      BY EmptySeq
<1>3. Past = << >>
  <2>1. SubSeq(sent, 1, 0) = << >>
        BY SubSeqEmpty
  <2>2. QED
        BY <1>1, <1>2, <2>1 DEF Past
<1>4. Flow = << >>
  <2>1. << >> \o << >> = << >>
        OBVIOUS
  <2>2. QED
        BY <1>1, <1>3, <2>1 DEF Flow, Unsent, InFlight
<1>5. Feed(<< >>) = NewDecoder
      BY <1>2, DecoderIs DEF Feed
<1>6. LogsFrom(Flow, 0)
      BY <1>1, <1>2, <1>4, <1>5 DEF LogsFrom, NewDecoder
<1>7. QED
      BY <1>1, <1>2, <1>6 DEF FlowInv

LEMMA FlowStep ==
  EndToEndTypeOK /\ FlowInv /\ [EndToEndNext]_endToEndVars => FlowInv'
<1> SUFFICES ASSUME EndToEndTypeOK, FlowInv, [EndToEndNext]_endToEndVars PROVE FlowInv'
    OBVIOUS
<1>1. /\ logged \in Seq(Message)
      /\ open \/ (todo = << >> /\ pc = "idle")
      /\ \E n \in Nat : LogsFrom(Flow, n)
      BY DEF FlowInv
<1>2. ASSUME UNCHANGED <<logged, resets, boot>>, Flow' = Flow,
             open' \/ (todo' = << >> /\ pc' = "idle")
      PROVE  FlowInv'
  <2>1. PICK n \in Nat : LogsFrom(Flow, n)
        BY <1>1
  <2>2. LogsFrom(Flow, n)'
        BY <2>1, <1>2 DEF LogsFrom
  <2>3. QED
        BY <1>1, <1>2, <2>2 DEF FlowInv
<1>3. CASE Reset
  <2>1. \E n \in Nat : LogsFrom(Flow, n)'
        BY <1>3, FlowReset
  <2>2. todo' = << >> /\ pc' = "idle" /\ logged' = logged
        BY <1>3 DEF Reset
  <2>3. QED
        BY <1>1, <2>1, <2>2 DEF FlowInv
<1>4. CASE ~Reset
  <2>1. UNCHANGED <<resets, boot>>
        BY <1>4, SessionStep
  <2>2. ASSUME NEW m \in Message, LogMessage(m) PROVE FlowInv'
    <3>1. \E n \in Nat : LogsFrom(Flow, n)'
          BY <2>1, <2>2, FlowLogged
    <3>2. open' /\ logged' = Append(logged, m)
          BY <2>2 DEF LogMessage
    <3>3. logged' \in Seq(Message)
          BY <1>1, <2>2, <3>2, AppendProperties
    <3>4. QED
          BY <3>1, <3>2, <3>3 DEF FlowInv
  <2>3. CASE WriteNext
    <3>1. Flow' = Flow
          BY <2>1, <2>3, FlowGiven
    <3>2. logged' = logged /\ open' = open /\ todo # << >>
          BY <2>3 DEF WriteNext
    <3>3. QED
          BY <1>1, <1>2, <2>1, <3>1, <3>2
  <2>4. CASE CommitMessage
    <3>1. /\ UNCHANGED <<logged, todo, pc, value, sent>> /\ todo = << >> /\ pc = "idle"
          BY <2>4 DEF CommitMessage, Commit, target, history
    <3>2. Flow' = Flow
          BY <2>1, <3>1 DEF Flow, Past, Unsent, InFlight
    <3>3. QED
          BY <1>2, <2>1, <3>1, <3>2
  <2>5. CASE Store /\ UNCHANGED writer
    <3>1. UNCHANGED <<logged, todo, open>> /\ pc' = "idle"
          BY <2>5 DEF Store, writer
    <3>2. EndToEndTypeOK'
          BY EndToEndTypeStep
    <3>3. Flow' = Flow
          BY <2>1, <2>5, <3>1, <3>2, FlowStored
    <3>4. QED
          BY <1>1, <1>2, <2>1, <3>1, <3>3
  <2>6. CASE (CheckFull \/ Publish) /\ UNCHANGED writer
    <3>1. /\ UNCHANGED <<logged, todo, open, value, sent>>
          /\ pc # "idle" /\ pc' # "idle"
          BY <2>6 DEF CheckFull, Publish, writer, history
    <3>2. Flow' = Flow
          BY <2>1, <3>1 DEF Flow, Past, Unsent, InFlight
    <3>3. QED
          BY <1>1, <1>2, <2>1, <3>1, <3>2
  <2>7. CASE HostNext \/ UNCHANGED endToEndVars
    <3>1. UNCHANGED <<logged, todo, open, pc, value, sent>>
      <4>1. CASE UNCHANGED endToEndVars
            BY <4>1 DEF endToEndVars, sessionVars
      <4>2. CASE HostNext
            BY <4>2 DEF HostNext, HostMain, Download, Configure, Attach, RunCore,
               DisableDebug, ReadNothing, ReadBytes, ReadReturns, CheckStop, Restore,
               CtrlC, Fail, Reattach, SetMode, Poll, Copy, Ack, Abandon,
               writer, target, history, vars
      <4>3. QED
            BY <2>7, <4>1, <4>2
    <3>2. Flow' = Flow
          BY <2>1, <3>1 DEF Flow, Past, Unsent, InFlight
    <3>3. QED
          BY <1>1, <1>2, <2>1, <3>1, <3>2
  <2>8. QED
        BY <1>4, <2>2, <2>3, <2>4, <2>5, <2>6, <2>7 DEF EndToEndNext, TargetNext,
           TargetProgress
<1>5. QED
      BY <1>3, <1>4
-----------------------------------------------------------------------------
(* What the host makes of the part of that stream it gets. *)

\* No mark is older than the last reset.
MarkSinceBoot == mark # NoMark => boot <= mark.from

LEMMA MarkSinceBootStep ==
  EndToEndTypeOK /\ StreamInv /\ MarkSinceBoot /\ [EndToEndNext]_endToEndVars
    => MarkSinceBoot'
<1> SUFFICES ASSUME EndToEndTypeOK, StreamInv, MarkSinceBoot,
                    [EndToEndNext]_endToEndVars, mark' # NoMark
             PROVE  boot' <= mark'.from
    BY DEF MarkSinceBoot
<1>1. CASE mark = NoMark
  <2>1. Settled' /\ mark' = Here'
        BY <1>1 DEF EndToEndNext, Follow, endToEndVars
  <2>2. boot' + Dist(read', writePtr') <= Len(sent')
        BY <2>1 DEF Settled
  <2>3. mark'.from = Len(sent') - Dist(read', writePtr')
        BY <2>1 DEF Here
  <2>4. EndToEndTypeOK'
        BY EndToEndTypeStep
  <2>5. Len(sent') \in Nat /\ boot' \in Nat /\ Dist(read', writePtr') \in Nat
    <3>1. TypeOK' /\ boot' \in 0 .. Len(sent')
          BY <2>4 DEF EndToEndTypeOK, SessionTypeOK
    <3>2. Len(sent') \in Nat
          BY <3>1 DEF TypeOK
    <3>3. Dist(read', writePtr') \in Nat
          BY <3>1, DistType DEF TypeOK
    <3>4. QED
          BY <3>1, <3>2, <3>3
  <2>6. QED
        BY <2>2, <2>3, <2>5
<1>2. CASE mark # NoMark
  <2>1. flags = BLOCK_IF_FULL
        BY <1>2 DEF StreamInv
  <2>2. CASE UNCHANGED endToEndVars
        BY <1>2, <2>2 DEF endToEndVars, MarkSinceBoot
  <2>3. CASE Follow
    <3>1. mark' = mark /\ flags' = BLOCK_IF_FULL
          BY <1>2, <2>3 DEF Follow, Settled
    <3>2. ~Reset
          BY <3>1 DEF Reset, NO_BLOCK_TRIM, BLOCK_IF_FULL
    <3>3. boot' = boot
          BY <3>2, SessionStep
    <3>4. QED
          BY <1>2, <3>1, <3>3 DEF MarkSinceBoot
  <2>4. QED
        BY <2>2, <2>3 DEF EndToEndNext
<1>3. QED
      BY <1>1, <1>2

\* The first program of all is one session on one channel.
FirstInv == resets = 0 => RingInv /\ DownloadedSessionInv

LEMMA FirstStep ==
  EndToEndTypeOK /\ FirstInv /\ [EndToEndNext]_endToEndVars => FirstInv'
<1> SUFFICES ASSUME EndToEndTypeOK, FirstInv, [EndToEndNext]_endToEndVars, resets' = 0
             PROVE  RingInv' /\ DownloadedSessionInv'
    BY DEF FirstInv
<1>1. ~Reset
      BY DEF Reset, EndToEndTypeOK
<1>2. [SessionNext]_sessionVars /\ resets = 0
      BY <1>1, SessionStep
<1>3. TypeOK /\ RingInv /\ DownloadedSessionInv
      BY <1>2 DEF FirstInv, EndToEndTypeOK, SessionTypeOK
<1>4. [Next]_vars
      BY <1>2, SessionStepIsTransport
<1>5. QED
      BY <1>2, <1>3, <1>4, RingStep, DownloadedSessionStep

\* Frames of logged messages are decoded to them.
LEMMA FramesShow ==
  ASSUME logged \in Seq(Message), NEW frames \in Seq(Seq(Cell)), NEW n \in Nat,
         n + Len(frames) <= Len(logged),
         \A i \in 1 .. Len(frames) : frames[i] = Encode(logged[n + i])
  PROVE  Show(frames, n)
<1>1. DOMAIN frames = 1 .. Len(frames) /\ Len(frames) \in Nat /\ Len(logged) \in Nat
      BY LenProperties
<1>2. ASSUME NEW i \in 1 .. Len(frames)
      PROVE  WellFormed(frames[i]) /\ Decode(frames[i]) = logged[n + i]
  <2>1. n + i \in 1 .. Len(logged)
        BY <1>1
  <2>2. logged[n + i] \in Message
        BY <2>1, ElementOfSeq
  <2>3. logged[n + i] \in Seq(Nat)
        BY <2>2, MessageAssumption
  <2>4. QED
        BY <2>3, RoundTrip
<1>3. QED
      BY <1>1, <1>2 DEF Show

\* What a decoder finds in a part of a stream, it finds in the whole.
LEMMA PieceFed ==
  ASSUME NEW s \in Seq(Cell), NEW t \in Seq(Cell), NEW a \in Nat,
         a + Len(t) <= Len(s), \A i \in 1 .. Len(t) : t[i] = s[a + i]
  PROVE  /\ Feed(t).frames \in Seq(Seq(Cell)) /\ Len(Feed(s).frames) \in Nat
         /\ \E c \in Nat :
              /\ c + Len(Feed(t).frames) <= Len(Feed(s).frames)
              /\ \A i \in 1 .. Len(Feed(t).frames) : i > 1 =>
                   Feed(s).frames[c + i] = Feed(t).frames[i]
              /\ a = 0 => c = 0 /\ \A i \in 1 .. Len(Feed(t).frames) :
                   Feed(s).frames[i] = Feed(t).frames[i]
<1> DEFINE b == a + Len(t)
           before == Decoder(s)[a]
           after == Decoder(s)[b]
           c == Len(before.frames)
           f == Feed(t).frames
           g == after.frames
           h == Feed(s).frames
<1>1. Len(t) \in Nat /\ Len(s) \in Nat /\ b \in 0 .. Len(s) /\ a \in 0 .. Len(s)
      BY LenProperties
<1>2. /\ before \in DecoderState /\ after \in DecoderState
      /\ Feed(t) \in DecoderState /\ Feed(s) \in DecoderState
      /\ a = 0 => before = NewDecoder
  <2>1. Len(t) \in 0 .. Len(t) /\ Len(s) \in 0 .. Len(s)
        BY <1>1
  <2> HIDE DEF b
  <2>2. QED
        BY <1>1, <2>1, DecoderIs DEF Feed
<1>3. Joins(before, Feed(t), after)
  <2>1. Len(t) \in 0 .. Len(t)
        BY <1>1
  <2>2. \A k \in 0 .. Len(t) : Joins(Decoder(s)[a], Decoder(t)[k], Decoder(s)[a + k])
        BY DecoderJoins
  <2>3. QED
        BY <2>1, <2>2 DEF Feed
<1>4. /\ Len(g) <= Len(h)
      /\ \A i \in 1 .. Len(g) : h[i] = g[i]
  <2> HIDE DEF b
  <2>1. QED
        BY <1>1, FramesKept
<1>5. /\ Len(g) = c + Len(f)
      /\ \A i \in 1 .. Len(f) :
           i > 1 \/ before.buffer = << >> => g[c + i] = f[i]
      BY <1>3 DEF Joins
<1>6. a = 0 => c = 0 /\ before.buffer = << >>
  <2>1. NewDecoder.frames = << >> /\ NewDecoder.buffer = << >> /\ Len(<< >>) = 0
        BY DEF NewDecoder
  <2> HIDE DEF before
  <2>2. QED
        BY <1>2, <2>1
<1>7. /\ f \in Seq(Seq(Cell)) /\ g \in Seq(Seq(Cell)) /\ h \in Seq(Seq(Cell))
      /\ before.frames \in Seq(Seq(Cell))
      BY <1>2 DEF DecoderState
<1>8. Len(f) \in Nat /\ Len(g) \in Nat /\ Len(h) \in Nat /\ c \in Nat
  <2> HIDE DEF f, g, h, before
  <2>1. QED
        BY <1>7, LenProperties
<1> HIDE DEF before, after, c, f, g, h
<1>9. c + Len(f) <= Len(h)
      BY <1>4, <1>5, <1>8
<1>10. ASSUME NEW i \in 1 .. Len(f), i > 1 \/ before.buffer = << >>
       PROVE  h[c + i] = f[i]
  <2>1. c + i \in 1 .. Len(g) /\ g[c + i] = f[i]
        BY <1>5, <1>8, <1>10
  <2>2. QED
        BY <1>4, <2>1
<1>11. a = 0 => c = 0 /\ \A i \in 1 .. Len(f) : h[i] = f[i]
  <2>1. SUFFICES ASSUME a = 0, NEW i \in 1 .. Len(f) PROVE c = 0 /\ h[i] = f[i]
        BY <1>6
  <2>2. c = 0 /\ before.buffer = << >> /\ 0 + i = i
        BY <1>6, <2>1
  <2>3. QED
        BY <1>10, <2>2
<1>12. QED
       BY <1>7, <1>8, <1>9, <1>10, <1>11 DEF f, h

\* The past of the target begins its stream.
LEMMA PastInFlow ==
  ASSUME EndToEndTypeOK
  PROVE  /\ Len(Past) <= Len(Flow)
         /\ \A i \in 1 .. Len(Past) : Flow[i] = sent[boot + i]
<1>1. Past \in Seq(Byte) /\ Unsent \in Seq(Byte)
      BY PastIs, FlowType
<1>2. Len(Past) \in Nat /\ Len(Unsent) \in Nat
      BY <1>1, LenProperties
<1>3. /\ Len(Flow) = Len(Past) + Len(Unsent)
      /\ \A i \in 1 .. Len(Past) + Len(Unsent) :
           Flow[i] = IF i <= Len(Past) THEN Past[i] ELSE Unsent[i - Len(Past)]
      BY <1>1, ConcatProperties DEF Flow
<1>4. \A i \in 1 .. Len(Past) : Past[i] = sent[boot + i]
      BY PastIs
<1>5. QED
      BY <1>2, <1>3, <1>4

\* What the host gets from the mark on is a part of the stream.
LEMMA AttachedFromInv ==
  EndToEndTypeOK /\ StreamInv /\ FlowInv /\ MarkSinceBoot => AttachedLogsAreIntact
<1> DEFINE d == IF joined > mark.at THEN joined ELSE mark.at
           v == Since(d)
           frames == Feed(v).frames
<1>1. SUFFICES ASSUME EndToEndTypeOK, StreamInv, FlowInv, MarkSinceBoot,
                      mark # NoMark, Len(frames) > 1
               PROVE  \E n \in 0 .. Len(logged) : Show(Tail(frames), n)
      BY DEF AttachedLogsAreIntact
<1>2. TypeOK /\ received \in Seq(Cell) /\ Len(received) \in Nat
  <2>1. TypeOK
        BY <1>1 DEF EndToEndTypeOK, SessionTypeOK
  <2>2. received \in Seq(Cell)
        BY <2>1 DEF TypeOK, Cell
  <2>3. QED
        BY <2>1, <2>2, LenProperties
<1>3. PICK at \in Nat, from \in Nat : /\ at = mark.at /\ from = mark.from
                                      /\ at <= Len(received)
  <2>1. mark \in [at : 0 .. Len(received), from : 0 .. Len(sent)]
        BY <1>1 DEF EndToEndTypeOK
  <2>2. mark.at \in 0 .. Len(received) /\ mark.from \in 0 .. Len(sent)
        BY <2>1
  <2>3. mark.from \in Nat
        BY <2>2, PastIs, <1>1
  <2>4. QED
        BY <1>2, <2>2, <2>3
<1>4. d \in Nat /\ at <= d /\ d <= Len(received)
  <2>1. joined \in 0 .. Len(received)
        BY <1>1 DEF EndToEndTypeOK
  <2>2. QED
        BY <1>2, <1>3, <2>1
<1> HIDE DEF d
<1>5. /\ v \in Seq(Cell) /\ Len(v) \in Nat /\ d + Len(v) = Len(received)
      /\ \A i \in 1 .. Len(v) : v[i] = received[d + i]
      BY <1>2, <1>4, SinceIs
<1> HIDE DEF v
<1> DEFINE got == Len(received) - at
           n == Dist(read, writePtr)
<1>6. /\ Len(sent) = from + got + n
      /\ \A i \in 1 .. got : received[at + i] = sent[from + i]
  <2>1. InPlaceFrom(at, from)
        BY <1>1, <1>3 DEF StreamInv
  <2>2. QED
        BY <2>1 DEF InPlaceFrom
<1>7. n \in Nat
      BY <1>2, DistType DEF TypeOK
<1>8. got \in Nat /\ at + got = Len(received)
      BY <1>2, <1>3
<1> HIDE DEF n, got
<1>9. /\ Flow \in Seq(Cell) /\ boot \in Nat /\ Len(sent) \in Nat /\ Len(Past) \in Nat
      /\ boot + Len(Past) = Len(sent) /\ Len(Past) <= Len(Flow)
      /\ \A i \in 1 .. Len(Past) : Flow[i] = sent[boot + i]
      BY <1>1, PastIs, FlowType, PastInFlow
<1>10. boot <= from
       BY <1>1, <1>3 DEF MarkSinceBoot
<1>11. PICK x \in Nat : at + x = d
  <2>1. at \in Nat /\ d \in Nat /\ at <= d
        BY <1>3, <1>4
  <2>2. d - at \in Nat /\ at + (d - at) = d
        BY <2>1
  <2>3. QED
        BY <2>2
<1>12. PICK a \in Nat : boot + a = from + x
  <2>1. from \in Nat /\ boot \in Nat /\ x \in Nat /\ boot <= from
        BY <1>3, <1>9, <1>10, <1>11
  <2>2. from + x - boot \in Nat /\ boot + (from + x - boot) = from + x
        BY <2>1
  <2>3. QED
        BY <2>2
<1>13. x + Len(v) = got /\ a + Len(v) <= Len(Past)
  <2> DEFINE w == Len(v)
             p == Len(Past)
             r == Len(received)
             s == Len(sent)
  <2>1. /\ w \in Nat /\ p \in Nat /\ r \in Nat /\ s \in Nat /\ boot \in Nat
        /\ got \in Nat /\ n \in Nat /\ d \in Nat
        BY <1>2, <1>4, <1>5, <1>7, <1>8, <1>9
  <2>2. d + w = r /\ at + got = r /\ at + x = d
        BY <1>5, <1>8, <1>11
  <2>3. s = from + got + n /\ boot + p = s /\ boot + a = from + x
        BY <1>6, <1>9, <1>12
  <2> HIDE DEF w, p, r, s
  <2>4. x + w = got
        BY <2>1, <2>2
  <2>5. a + w <= p
        BY <2>1, <2>3, <2>4
  <2>6. QED
        BY <2>4, <2>5 DEF w, p
<1>14. a + Len(v) <= Len(Flow)
  <2>1. Len(Flow) \in Nat
        BY <1>9, LenProperties
  <2>2. QED
        BY <1>5, <1>9, <1>13, <2>1
<1>15. ASSUME NEW i \in 1 .. Len(v) PROVE v[i] = Flow[a + i]
  <2>1. v[i] = received[d + i]
        BY <1>5
  <2>2. x + i \in 1 .. got /\ at + (x + i) = d + i
    <3>1. i \in Nat /\ i >= 1 /\ i <= Len(v)
          BY <1>5
    <3>2. x + i >= 1 /\ x + i <= got
          BY <1>5, <1>8, <1>13, <3>1
    <3>3. at + (x + i) = d + i
          BY <1>4, <1>11, <3>1
    <3>4. QED
          BY <1>8, <3>1, <3>2, <3>3
  <2>3. received[d + i] = sent[from + (x + i)]
        BY <1>6, <2>2
  <2>4. a + i \in 1 .. Len(Past) /\ boot + (a + i) = from + (x + i)
    <3>1. i \in Nat /\ i >= 1 /\ i <= Len(v)
          BY <1>5
    <3>2. a + i >= 1 /\ a + i <= Len(Past)
          BY <1>5, <1>9, <1>13, <3>1
    <3>3. boot + (a + i) = from + (x + i)
          BY <1>9, <1>12, <3>1
    <3>4. QED
          BY <1>9, <3>1, <3>2, <3>3
  <2>5. Flow[a + i] = sent[boot + (a + i)]
        BY <1>9, <2>4
  <2>6. QED
        BY <2>1, <2>3, <2>4, <2>5
<1> DEFINE all == Feed(Flow).frames
<1>16. PICK c \in Nat :
         /\ c + Len(frames) <= Len(all)
         /\ \A i \in 1 .. Len(frames) : i > 1 => all[c + i] = frames[i]
         /\ a = 0 => c = 0 /\ \A i \in 1 .. Len(frames) : all[i] = frames[i]
       BY <1>5, <1>9, <1>14, <1>15, PieceFed
<1>17. frames \in Seq(Seq(Cell)) /\ Len(all) \in Nat
       BY <1>5, <1>9, <1>14, <1>15, PieceFed
<1>18. PICK first \in Nat : LogsFrom(Flow, first)
       BY <1>1 DEF FlowInv
<1>19. /\ first + Len(all) = Len(logged)
       /\ \A i \in 1 .. Len(all) : all[i] = Encode(logged[first + i])
       BY <1>18 DEF LogsFrom
<1> HIDE DEF frames, all
<1>20. Len(frames) \in Nat /\ Len(logged) \in Nat
       BY <1>17, <1>1, LenProperties DEF FlowInv
<1> DEFINE rest == Tail(frames)
           m == first + c + 1
<1>21. /\ rest \in Seq(Seq(Cell)) /\ Len(rest) = Len(frames) - 1
       /\ \A i \in 1 .. Len(rest) : rest[i] = frames[i + 1]
  <2>1. frames # << >>
        BY <1>1, EmptySeq
  <2>2. QED
        BY <1>17, <2>1, HeadTailProperties
<1> HIDE DEF rest
<1>22. m \in Nat /\ m + Len(rest) <= Len(logged) /\ m <= Len(logged)
       BY <1>1, <1>16, <1>17, <1>18, <1>19, <1>20, <1>21
<1>23. ASSUME NEW i \in 1 .. Len(rest) PROVE rest[i] = Encode(logged[m + i])
  <2>1. i + 1 \in 1 .. Len(frames) /\ i + 1 > 1 /\ c + (i + 1) \in 1 .. Len(all)
        BY <1>16, <1>17, <1>20, <1>21
  <2>2. rest[i] = all[c + (i + 1)]
        BY <1>16, <1>21, <2>1
  <2>3. first + (c + (i + 1)) = m + i
        BY <1>16, <1>18
  <2>4. QED
        BY <1>19, <2>1, <2>2, <2>3
<1> HIDE DEF m
<1>24. Show(rest, m)
       BY <1>1, <1>21, <1>22, <1>23, FramesShow DEF FlowInv
<1>25. QED
       BY <1>20, <1>22, <1>24 DEF rest

\* What the first host gets is the start of it.
LEMMA DownloadedFromInv ==
  EndToEndTypeOK /\ FirstInv /\ FlowInv => DownloadedLogsAreComplete
<1> SUFFICES ASSUME EndToEndTypeOK, FirstInv, FlowInv,
                    ~attach, phase # "done", resets = 0
             PROVE  Show(Feed(received).frames, 0)
    BY DEF DownloadedLogsAreComplete
<1>1. TypeOK /\ received \in Seq(Cell) /\ Len(received) \in Nat
  <2>1. TypeOK
        BY DEF EndToEndTypeOK, SessionTypeOK
  <2>2. received \in Seq(Cell)
        BY <2>1 DEF TypeOK, Cell
  <2>3. QED
        BY <2>1, <2>2, LenProperties
<1>2. BytesInPlace
  <2>1. RingInv /\ ~trimmed
        BY DEF FirstInv, DownloadedSessionInv
  <2>2. QED
        BY <2>1 DEF RingInv, OverrunNeedsTrim
<1>3. PICK first \in Nat : LogsFrom(Flow, first)
      BY DEF FlowInv
<1> DEFINE all == Feed(Flow).frames
           frames == Feed(received).frames
<1>4. /\ first = 0 /\ boot = 0
      /\ first + Len(all) = Len(logged)
      /\ \A i \in 1 .. Len(all) : all[i] = Encode(logged[first + i])
      BY <1>3 DEF LogsFrom
<1>5. /\ Flow \in Seq(Cell) /\ Len(sent) \in Nat /\ Len(Past) \in Nat
      /\ boot + Len(Past) = Len(sent) /\ Len(Past) <= Len(Flow)
      /\ \A i \in 1 .. Len(Past) : Flow[i] = sent[boot + i]
      BY PastIs, FlowType, PastInFlow
<1>6. Len(received) <= Len(Past)
  <2>1. Len(sent) = Len(received) + Dist(read, writePtr)
        BY <1>2 DEF BytesInPlace
  <2>2. Dist(read, writePtr) \in Nat
        BY <1>1, DistType DEF TypeOK
  <2>3. QED
        BY <1>1, <1>4, <1>5, <2>1, <2>2
<1>7. 0 + Len(received) <= Len(Flow)
  <2>1. Len(Flow) \in Nat
        BY <1>5, LenProperties
  <2>2. QED
        BY <1>1, <1>5, <1>6, <2>1
<1>8. ASSUME NEW i \in 1 .. Len(received) PROVE received[i] = Flow[0 + i]
  <2>1. i \in 1 .. Len(Past) /\ 0 + i = i /\ boot + i = i
        BY <1>1, <1>4, <1>5, <1>6
  <2>2. received[i] = sent[i]
        BY <1>2 DEF BytesInPlace
  <2>3. QED
        BY <1>5, <2>1, <2>2
<1>9. PICK c \in Nat :
        /\ c + Len(frames) <= Len(all)
        /\ 0 = 0 => c = 0 /\ \A i \in 1 .. Len(frames) : all[i] = frames[i]
      BY <1>1, <1>5, <1>7, <1>8, PieceFed
<1>10. frames \in Seq(Seq(Cell)) /\ Len(all) \in Nat
       BY <1>1, <1>5, <1>7, <1>8, PieceFed
<1> HIDE DEF frames, all
<1>11. Len(frames) \in Nat /\ Len(logged) \in Nat
       BY <1>10, LenProperties DEF FlowInv
<1>12. 0 + Len(frames) <= Len(logged)
       BY <1>4, <1>9, <1>10, <1>11
<1>13. ASSUME NEW i \in 1 .. Len(frames) PROVE frames[i] = Encode(logged[0 + i])
  <2>1. i \in 1 .. Len(all)
        BY <1>9, <1>10, <1>11
  <2>2. QED
        BY <1>4, <1>9, <2>1
<1>14. Show(frames, 0)
       BY <1>10, <1>12, <1>13, FramesShow DEF FlowInv
<1>15. QED
       BY <1>14 DEF frames

(* From a LOG call to the printed log: a host that attaches, or comes again
   after a failure, gets intact logs only, in order and with none missing, once
   the first frame is over that ends after the mode took effect - for every
   ring, host buffer, set of messages and run length of the framing, after any
   number of overruns, sessions and resets. *)
THEOREM AttachedLogsCorrect == EndToEndSpec => []AttachedLogsAreIntact
<1>1. EndToEndInit => MarkSinceBoot
      BY DEF EndToEndInit, MarkSinceBoot
<1>2. EndToEndSpec => []MarkSinceBoot
      BY <1>1, MarkSinceBootStep, StreamInit, StreamStep, EndToEndTypeCorrect, PTL
      DEF EndToEndSpec
<1>3. QED
      BY <1>2, AttachedFromInv, StreamInit, StreamStep, FlowInit, FlowStep,
         EndToEndTypeCorrect, PTL DEF EndToEndSpec

(* A host that downloaded the firmware prints every log from the first one on,
   whole and once, until it hands the target back or the target resets. *)
THEOREM DownloadedLogsCorrect == EndToEndSpec => []DownloadedLogsAreComplete
<1>1. EndToEndInit => FirstInv
  <2>1. ASSUME EndToEndInit PROVE RingInv /\ DownloadedSessionInv
    <3>1. Init /\ SessionInit
          BY <2>1 DEF EndToEndInit, SessionInit
    <3>2. DownloadedSessionInv
          BY <3>1 DEF SessionInit, Init, DownloadedSessionInv
    <3>3. QED
          BY <3>1, <3>2, RingInit
  <2>2. QED
        BY <2>1 DEF FirstInv
<1>2. QED
      BY <1>1, FirstStep, DownloadedFromInv, FlowInit, FlowStep,
         EndToEndTypeCorrect, PTL DEF EndToEndSpec
=============================================================================
