---------------------------- MODULE RttTransport ----------------------------
(***************************************************************************)
(* One RTT up-channel: the ring buffer in the target's memory, the target  *)
(* side (Postform::Rtt::Transport, libpostform/src/rtt/transport.cpp) and  *)
(* the host side (a debug probe that reads and writes the target's memory  *)
(* behind its back, as postform_rtt/src/main.rs uses it).                  *)
(*                                                                         *)
(* The two sides share `flags`, `buffer`, `write` and `read` and take no   *)
(* lock: each step below touches shared memory once.  The target side is   *)
(* one sequential thread of calls: SerialLogger serialises its users.      *)
(***************************************************************************)
EXTENDS Naturals, Sequences

CONSTANTS
  Size,      \* Channel::size, the bytes in the ring
  HostBuf,   \* the host's read buffer ([0u8; 1024])
  Byte,      \* the bytes that are logged
  Uninit,    \* what a slot of the buffer holds before the first store to it
  MaxSent    \* bound: bytes written in a behaviour

ASSUME SizeAssumption    == Size \in Nat \ {0}
ASSUME HostBufAssumption == HostBuf \in Nat \ {0}
ASSUME UninitAssumption  == Uninit \notin Byte
ASSUME MaxSentAssumption == MaxSent \in Nat

NO_BLOCK_TRIM == "NO_BLOCK_TRIM"
BLOCK_IF_FULL == "BLOCK_IF_FULL"
Flags == {NO_BLOCK_TRIM, BLOCK_IF_FULL}

VARIABLES
  \* Channel, in the target's memory
  flags, buffer, write, read,
  \* Rtt::Transport: m_write_ptr, where write(uint8_t) is, and its argument
  writePtr, pc, value,
  \* the host's read: where it is, the cursors it read, the bytes copied
  hpc, hWrite, hRead, batch,
  \* history: bytes written, bytes handed to the decoder, whether a store
  \* lapped the reader, whether a byte was let through without blocking
  sent, received, overrun, trimmed

channel == <<flags, buffer, write, read>>
target  == <<writePtr, pc, value>>
host    == <<hpc, hWrite, hRead, batch>>
history == <<sent, received, overrun, trimmed>>
vars    == <<flags, buffer, write, read, writePtr, pc, value,
             hpc, hWrite, hRead, batch, sent, received, overrun, trimmed>>

Slot == 0 .. Size - 1

\* Mutant: `>` for `>=` in getNextWritePtr.
NextPtrLateWrap(p) == IF p + 1 > Size THEN p + 1 - Size ELSE p + 1

\* The cursor after p: getNextWritePtr on the target, the same wrap in the
\* host's read loop.
NextPtr(p) == IF p + 1 >= Size THEN p + 1 - Size ELSE p + 1

\* Bytes from cursor a up to cursor b, going round.
Dist(a, b) == IF a <= b THEN b - a ELSE b + Size - a

\* The slot k places after cursor p.
SlotAt(p, k) == IF p + k >= Size THEN p + k - Size ELSE p + k

\* The bytes in the ring that the host has not acknowledged.
Pending == [k \in 1 .. Dist(read, writePtr) |-> buffer[SlotAt(read, k - 1)]]

Init ==
  /\ flags \in Flags
  /\ buffer = [i \in Slot |-> Uninit]
  /\ write = 0 /\ read = 0
  /\ writePtr = 0 /\ pc = "idle" /\ value \in Byte
  /\ hpc = "idle" /\ hWrite = 0 /\ hRead = 0 /\ batch = << >>
  /\ sent = << >> /\ received = << >>
  /\ overrun = FALSE /\ trimmed = FALSE
-----------------------------------------------------------------------------
(* Target *)

\* Transport::write(b) is called and loads the flags, once for this byte.
WriteByte(b) ==
  /\ pc = "idle"
  /\ Len(sent) < MaxSent
  /\ value' = b
  /\ pc' = IF flags = BLOCK_IF_FULL THEN "wait" ELSE "store"
  /\ trimmed' = (trimmed \/ flags # BLOCK_IF_FULL)
  /\ UNCHANGED <<channel, writePtr, host, sent, received, overrun>>

\* Mutant: the loop compares the reader with the slot to be written.
CheckFullLate ==
  /\ pc = "wait"
  /\ pc' = IF read = writePtr /\ write # writePtr THEN "publish" ELSE "store"
  /\ UNCHANGED <<channel, writePtr, value, host, history>>

\* while (channel.read == next_write_ptr): one evaluation of the condition.
CheckFull ==
  /\ pc = "wait"
  /\ pc' = IF read = NextPtr(writePtr) THEN "publish" ELSE "store"
  /\ UNCHANGED <<channel, writePtr, value, host, history>>

\* Mutants: the loop is empty, or publishes a byte too many.
PublishNothing ==
  /\ pc = "publish"
  /\ pc' = "wait"
  /\ UNCHANGED <<channel, writePtr, value, host, history>>

PublishNext ==
  /\ pc = "publish"
  /\ write' = NextPtr(writePtr)
  /\ pc' = "wait"
  /\ UNCHANGED <<flags, buffer, read, writePtr, value, host, history>>

\* commit() in the body of the wait loop.
Publish ==
  /\ pc = "publish"
  /\ write' = writePtr
  /\ pc' = "wait"
  /\ UNCHANGED <<flags, buffer, read, writePtr, value, host, history>>

\* Mutant: the cursor is advanced before the byte is stored.
StoreAhead ==
  /\ pc = "store"
  /\ buffer' = [buffer EXCEPT ![NextPtr(writePtr)] = value]
  /\ writePtr' = NextPtr(writePtr)
  /\ pc' = "idle"
  /\ sent' = Append(sent, value)
  /\ overrun' = (overrun \/ NextPtr(writePtr) = read)
  /\ UNCHANGED <<flags, write, read, value, host, received, trimmed>>

\* The store of the byte and of m_write_ptr.
Store ==
  /\ pc = "store"
  /\ buffer' = [buffer EXCEPT ![writePtr] = value]
  /\ writePtr' = NextPtr(writePtr)
  /\ pc' = "idle"
  /\ sent' = Append(sent, value)
  /\ overrun' = (overrun \/ NextPtr(writePtr) = read)
  /\ UNCHANGED <<flags, write, read, value, host, received, trimmed>>

\* Mutant: commit() publishes the slot that is written next.
CommitNext ==
  /\ pc = "idle"
  /\ write' = NextPtr(writePtr)
  /\ UNCHANGED <<flags, buffer, read, target, host, history>>

\* Transport::commit(), called by SerialWriter at the end of a message.
Commit ==
  /\ pc = "idle"
  /\ write' = writePtr
  /\ UNCHANGED <<flags, buffer, read, target, host, history>>
-----------------------------------------------------------------------------
(* Host *)

\* The host reads both cursors.  Only the host moves `read`, so the order in
\* which it reads them does not matter.  A poll that finds no data ends here.
Poll ==
  /\ hpc = "idle"
  /\ write # read
  /\ hpc' = "copy" /\ hWrite' = write /\ hRead' = read /\ batch' = << >>
  /\ UNCHANGED <<channel, target, history>>

\* The host reads one more byte of the buffer.
Copy ==
  /\ hpc = "copy"
  /\ hRead # hWrite /\ Len(batch) < HostBuf
  /\ batch' = Append(batch, buffer[hRead])
  /\ hRead' = NextPtr(hRead)
  /\ UNCHANGED <<channel, target, hpc, hWrite, history>>

\* The host writes its read cursor back; the bytes go to the decoder.
Ack ==
  /\ hpc = "copy"
  /\ hRead = hWrite \/ Len(batch) = HostBuf
  /\ read' = hRead
  /\ received' = received \o batch
  /\ hpc' = "idle" /\ batch' = << >>
  /\ UNCHANGED <<flags, buffer, write, target, hWrite, hRead, sent, overrun, trimmed>>

\* The probe fails in the middle of a read: nothing is acknowledged.
Abandon ==
  /\ hpc = "copy"
  /\ hpc' = "idle" /\ batch' = << >>
  /\ UNCHANGED <<channel, target, hWrite, hRead, history>>

\* configure_rtt_mode: the host stores the flags word.
SetMode(m) ==
  /\ flags' = m
  /\ UNCHANGED <<buffer, write, read, target, host, history>>
-----------------------------------------------------------------------------
TargetStep == CheckFull \/ Publish \/ Store
HostStep   == Poll \/ Copy \/ Ack

Transfer ==
  \/ \E b \in Byte : WriteByte(b)
  \/ CheckFull
  \/ Publish
  \/ Store
  \/ Commit
  \/ Poll
  \/ Copy
  \/ Ack

Next ==
  \/ Transfer
  \/ Abandon
  \/ \E m \in Flags : SetMode(m)

Spec == Init /\ [][Next]_vars

\* A channel whose mode is set to blocking before the first byte and stays so:
\* what postform_rtt sets up between download and run.
BlockingInit == Init /\ flags = BLOCK_IF_FULL
BlockingSpec == BlockingInit /\ [][Transfer]_vars

\* The core keeps executing the call it is in and the host keeps polling.
\* Neither new calls to write() nor commit() are promised.
FairBlockingSpec == BlockingSpec /\ WF_vars(TargetStep) /\ WF_vars(HostStep)
-----------------------------------------------------------------------------
(* Type invariant: every cursor stays inside the ring. *)
TypeOK ==
  /\ flags \in Flags
  /\ buffer \in [Slot -> Byte \cup {Uninit}]
  /\ write \in Slot /\ read \in Slot /\ writePtr \in Slot
  /\ pc \in {"idle", "wait", "publish", "store"}
  /\ value \in Byte
  /\ hpc \in {"idle", "copy"}
  /\ hWrite \in Slot /\ hRead \in Slot
  /\ batch \in Seq(Byte \cup {Uninit})
  /\ sent \in Seq(Byte)
  /\ received \in Seq(Byte \cup {Uninit})
  /\ overrun \in BOOLEAN /\ trimmed \in BOOLEAN

(* As long as no store has lapped the reader, the bytes the host got followed
   by the bytes still in the ring are exactly the bytes written: none lost,
   doubled, torn or out of order, whatever the interleaving of write(),
   commit() and the host's unsynchronised read (transport.cpp 17-36). *)
FifoIntact == ~overrun => sent = received \o Pending

(* A store laps the reader only if some byte was let through while the flags
   said NO_BLOCK_TRIM: the wait loop of write() is enough, although the host
   moves `read` and the flags at any moment (transport.cpp 21-31). *)
OverrunNeedsTrim == overrun => trimmed

(* The buffer of the application is uninitialised memory.  In every mode, also
   after an overrun, the host is only ever handed bytes the target wrote. *)
NoUninitRead == \A i \in DOMAIN received : received[i] # Uninit

(* Why the above hold.  Reading the ring from `read`, the cursors come in the
   order the protocol needs (host cursor, what the host saw published, what is
   published, what is written), although each side works on stale copies. *)
CursorsOrdered ==
  /\ Dist(read, write) <= Dist(read, writePtr)
  /\ hpc = "copy" =>
       /\ Dist(read, hRead) <= Dist(read, hWrite)
       /\ Dist(read, hWrite) <= Dist(read, write)

\* Bytes received, bytes in the ring and bytes in the host's hands, by index.
BytesInPlace ==
  /\ Len(sent) = Len(received) + Dist(read, writePtr)
  /\ \A i \in 1 .. Len(received) : received[i] = sent[i]
  /\ \A k \in 1 .. Dist(read, writePtr) :
       buffer[SlotAt(read, k - 1)] = sent[Len(received) + k]
  /\ hpc = "copy" =>
       /\ Len(batch) = Dist(read, hRead)
       /\ \A k \in 1 .. Len(batch) : batch[k] = sent[Len(received) + k]

\* A byte that waited for room has room until it is stored.
RoomToStore == pc = "store" /\ ~trimmed => NextPtr(writePtr) # read

\* Until the target has gone round the ring once, no cursor is past m_write_ptr.
UninitAhead ==
  /\ \A i \in Slot : buffer[i] = Uninit =>
       /\ writePtr <= i
       /\ read <= write /\ write <= writePtr
       /\ hpc = "copy" => read <= hRead /\ hRead <= hWrite /\ hWrite <= write
  /\ hpc = "copy" => \A k \in DOMAIN batch : batch[k] # Uninit

RingInv ==
  /\ OverrunNeedsTrim
  /\ ~overrun => CursorsOrdered /\ BytesInPlace
  /\ RoomToStore
  /\ UninitAhead

(* While blocking the up-channel is a loss-free byte channel that holds at
   most Size - 1 bytes. *)
Abstract == INSTANCE ByteChannel WITH Capacity <- Size - 1
ImplementsByteChannel == Abstract!Spec

(* A blocked write() returns: its wait loop publishes what it has, the host
   reads that and makes room (transport.cpp 24-27). *)
WriteReturns == (pc # "idle") ~> (pc = "idle")

(* Every byte that was published reaches the host. *)
Published(n) == Len(received) + Dist(read, write) >= n
PublishedIsDelivered ==
  \A n \in 1 .. MaxSent : Published(n) ~> (Len(received) >= n)
=============================================================================
