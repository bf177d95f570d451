------------------------------ MODULE EndToEnd ------------------------------
(***************************************************************************)
(* From a LOG call to the printed log, through RTT: messages framed by     *)
(* SerialWriter (serial_logger.h) go byte by byte into the ring of         *)
(* Rtt::Transport while postform_rtt downloads the firmware or attaches to *)
(* a target that has been overwriting the ring, and its SerialDecoder gets *)
(* what the probe reads.  The target may reset at any moment, under an     *)
(* attached host too.  One writer at a time: see SerialLogger; no GDB      *)
(* server: see RttSession.                                                 *)
(***************************************************************************)
EXTENDS RttSession, Rcobs

CONSTANTS
  Message,      \* what is logged: the bytes before framing
  NoMark,       \* no mark
  MaxMessages,  \* bound: messages logged
  MaxResets     \* bound: resets of the target

ASSUME MessageAssumption ==
  \A m \in Message : m \in Seq(Nat) /\ Append(Encode(m), 0) \in Seq(Byte)
ASSUME NoMarkAssumption == NoMark \notin [at : Nat, from : Nat]
ASSUME EndToEndBounds == MaxMessages \in Nat /\ MaxResets \in Nat

VARIABLES
  logged,   \* history: the messages of the LOG calls so far
  todo,     \* the bytes that the SerialWriter has still to write
  open,     \* it is valid: it has not been committed
  joined,   \* Len(received) when this program's SerialDecoder was made
  resets,   \* history: the resets so far
  boot,     \* history: Len(sent) at the last one
  mark      \* history: the bytes received and sent when the mode took effect

writer       == <<logged, todo, open>>
endToEndVars == <<sessionVars, logged, todo, open, joined, resets, boot, mark>>

\* The blocking mode has taken effect: between two reads of the host, no byte
\* that was let through before is about to lap the reader, the published
\* cursor is not one that the target has lapped since, and what lies between
\* the cursors was not left in the memory by a reset.
Settled ==
  /\ flags = BLOCK_IF_FULL /\ hpc = "idle"
  /\ pc = "store" => NextPtr(writePtr) # read
  /\ Dist(read, write) <= Dist(read, writePtr)
  /\ boot + Dist(read, writePtr) <= Len(sent)
Here == [at |-> Len(received), from |-> Len(sent) - Dist(read, writePtr)]

\* The decoder starts where the loop does; the mark stands while the mode does.
Follow ==
  /\ joined' = IF phase = "debug" /\ phase' = "read" THEN Len(received) ELSE joined
  /\ mark' = IF mark # NoMark /\ flags' = BLOCK_IF_FULL THEN mark
             ELSE IF Settled' THEN Here' ELSE NoMark

EndToEndInit ==
  /\ SessionInit /\ ~gdb
  /\ logged = << >> /\ todo = << >> /\ open = FALSE
  /\ joined = 0 /\ resets = 0 /\ boot = 0 /\ mark = NoMark
-----------------------------------------------------------------------------
(* Target *)

\* A LOG call gets the writer.
LogMessage(m) ==
  /\ running
  /\ ~open
  /\ Len(logged) < MaxMessages
  /\ logged' = Append(logged, m)
  /\ todo' = Append(Encode(m), 0)
  /\ open' = TRUE
  /\ UNCHANGED sessionVars

\* It gives the transport its next byte.
WriteNext ==
  /\ running
  /\ todo # << >>
  /\ WriteByte(Head(todo))
  /\ todo' = Tail(todo)
  /\ UNCHANGED <<logged, open, session>>

\* Mutant: m_data is committed before its end marker has been stored.
CommitMessageEarly ==
  /\ running
  /\ open /\ Len(todo) <= 1
  /\ Commit
  /\ open' = FALSE /\ todo' = << >>
  /\ UNCHANGED <<logged, session>>

\* After the 0, commit() of the transport; the logger is given back.
CommitMessage ==
  /\ running
  /\ open /\ todo = << >>
  /\ Commit
  /\ open' = FALSE
  /\ UNCHANGED <<logged, todo, session>>

\* The target resets: ControlBlock and Transport are constructed again, and the
\* logger free.  The ring is in memory that no one initialises, and the host
\* knows nothing of it.
Reset ==
  /\ running
  /\ resets < MaxResets
  /\ flags' = NO_BLOCK_TRIM /\ write' = 0 /\ read' = 0
  /\ writePtr' = 0 /\ pc' = "idle"
  /\ todo' = << >> /\ open' = FALSE
  /\ resets' = resets + 1 /\ boot' = Len(sent)
  /\ UNCHANGED <<buffer, value, host, history, session, logged>>

TargetNext ==
  \/ \E m \in Message : LogMessage(m)
  \/ WriteNext
  \/ CommitMessage
  \/ TargetProgress /\ UNCHANGED writer

HostNext ==
  /\ HostMain \/ CtrlC \/ Fail \/ (Reattach /\ ~gdb')
  /\ UNCHANGED writer

EndToEndNext ==
  /\ Reset \/ ((TargetNext \/ HostNext) /\ UNCHANGED <<resets, boot>>)
  /\ Follow

EndToEndSpec == EndToEndInit /\ [][EndToEndNext]_endToEndVars
-----------------------------------------------------------------------------
\* SerialDecoder::feed_and_do: the frames it decodes, and rcobs_msg_buffer, after
\* one more byte ...
NewDecoder == [frames |-> << >>, buffer |-> << >>]
Fed(decoder, byte) ==
  IF byte = 0 THEN [frames |-> Append(decoder.frames, decoder.buffer), buffer |-> << >>]
  ELSE [decoder EXCEPT !.buffer = Append(@, byte)]

\* ... and after each prefix of these bytes.
Decoder(bytes) ==
  LET after[n \in 0 .. Len(bytes)] ==
        IF n = 0 THEN NewDecoder ELSE Fed(after[n - 1], bytes[n])
  IN  after
Feed(bytes) == Decoder(bytes)[Len(bytes)]

\* These frames are decoded to the messages that follow the n-th logged one.
Show(frames, n) ==
  /\ n + Len(frames) <= Len(logged)
  /\ \A i \in DOMAIN frames :
       WellFormed(frames[i]) /\ Decode(frames[i]) = logged[n + i]

Since(n) == SubSeq(received, n + 1, Len(received))

(* Type invariant. *)
EndToEndTypeOK ==
  /\ SessionTypeOK
  /\ todo \in Seq(Byte) /\ open \in BOOLEAN
  /\ joined \in 0 .. Len(received)
  /\ resets \in 0 .. MaxResets /\ boot \in 0 .. Len(sent)
  /\ mark \in [at : 0 .. Len(received), from : 0 .. Len(sent)] \cup {NoMark}

(* From the moment the blocking mode takes effect, the host gets every byte of
   one piece of the stream, which starts in the ring it finds - although the
   target has been round it many times or has reset under a host that still
   wrote a stale cursor back, was in the middle of a write when the mode was
   set and of a message when the host came (transport.cpp 17-36, rtt.h 16-23,
   main.rs 185-226). *)
StreamIsContiguous ==
  mark # NoMark =>
    Since(mark.at) \o Pending = SubSeq(sent, mark.from + 1, Len(sent))

\* Why: the slots behind m_write_ptr hold the last bytes written since the
\* reset, in every mode, ...
LatestInPlace ==
  \A s \in Slot \ {writePtr} :
    boot + Dist(s, writePtr) <= Len(sent) =>
      buffer[s] = sent[Len(sent) + 1 - Dist(s, writePtr)]

\* ... and once the mode has taken effect, what RttTransport says of a channel
\* that was never lapped (BytesInPlace) holds of the bytes from the mark on.
InPlaceFrom(at, from) ==
  LET got      == Len(received) - at
      piece(k) == sent[from + k]
  IN  /\ at <= Len(received)
      /\ Len(sent) = from + got + Dist(read, writePtr)
      /\ \A i \in 1 .. got : received[at + i] = piece(i)
      /\ \A k \in 1 .. Dist(read, writePtr) :
           buffer[SlotAt(read, k - 1)] = piece(got + k)
      /\ hpc = "copy" =>
           /\ Len(batch) = Dist(read, hRead)
           /\ \A k \in 1 .. Len(batch) : batch[k] = piece(got + k)

StreamInv ==
  /\ boot <= Len(sent)
  /\ LatestInPlace
  /\ mark # NoMark =>
       /\ flags = BLOCK_IF_FULL
       /\ pc = "store" => NextPtr(writePtr) # read
       /\ CursorsOrdered
       /\ InPlaceFrom(mark.at, mark.from)

(* A host that attaches, or comes again after a failure, prints intact logs
   only, in order and with none missing, once the first frame is over that
   ends after the mode took effect (main.rs 218-239, decoder lib.rs 419-445). *)
AttachedLogsAreIntact ==
  mark # NoMark /\ phase \in {"read", "check", "restore"} =>
    LET frames == Feed(Since(IF joined > mark.at THEN joined ELSE mark.at)).frames
    IN  Len(frames) > 1 => \E n \in 0 .. Len(logged) : Show(Tail(frames), n)

(* A host that downloaded the firmware prints every log from the first one on,
   whole and once, as long as the target does not reset (main.rs 181-239). *)
DownloadedLogsAreComplete ==
  ~attach /\ phase # "done" /\ resets = 0 => Show(Feed(received).frames, 0)
=============================================================================
