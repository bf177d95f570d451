------------------------- MODULE SerialLoggerProofs -------------------------
(***************************************************************************)
(* Proofs about SerialLogger for every set of contexts, payloads and       *)
(* levels, every run length and number of calls.                           *)
(***************************************************************************)
EXTENDS SerialLogger, RcobsProofs, FiniteSetTheorems

-----------------------------------------------------------------------------
(* Type correctness. *)

\* A transport that is given b keeps its stream of frames.
LEMMA TransmitType ==
  ASSUME TypeOK, NEW b \in Nat, Transmit(b)
  PROVE  /\ frames' \in Seq(Seq(Nat \ {0}))
         /\ partial' \in Seq(Nat \ {0})
         /\ flushed' \in 0 .. Len(frames')
<1>1. /\ frames \in Seq(Seq(NonZero)) /\ partial \in Seq(NonZero)
      /\ flushed' = flushed /\ flushed \in 0 .. Len(frames)
      BY DEF TypeOK, Transmit, NonZero
<1>2. CASE b = 0
  <2>1. /\ Append(frames, partial) \in Seq(Seq(NonZero))
        /\ Len(Append(frames, partial)) = Len(frames) + 1
        BY <1>1, AppendProperties
  <2>2. << >> \in Seq(NonZero)
        BY EmptySeq
  <2>3. frames' = Append(frames, partial) /\ partial' = << >>
        BY <1>2 DEF Transmit
  <2>4. Len(frames) \in Nat
        BY <1>1, LenProperties
  <2>5. QED
        BY <1>1, <2>1, <2>2, <2>3, <2>4 DEF NonZero
<1>3. CASE b # 0
  <2>1. Append(partial, b) \in Seq(NonZero)
        BY <1>1, <1>3, AppendProperties DEF NonZero
  <2>2. frames' = frames /\ partial' = Append(partial, b)
        BY <1>3 DEF Transmit
  <2>3. QED
        BY <1>1, <2>1, <2>2 DEF NonZero
<1>4. QED
      BY <1>2, <1>3

\* What the encoder sends is a byte that leaves the marker in range.
LEMMA EncoderTypes ==
  ASSUME NEW m \in 1 .. MaxMarker, NEW b \in Nat
  PROVE  /\ WireByte(m, b) \in Nat \ {0}
         /\ m # MaxMarker => NextMarker(m, b) \in 1 .. MaxMarker
BY MaxMarkerAssumption DEF WireByte, NextMarker

LEMMA TypeInit == Init => TypeOK
<1> SUFFICES ASSUME Init PROVE TypeOK
    OBVIOUS
<1>1. 1 \in 1 .. MaxMarker
      BY MaxMarkerAssumption
<1>2. /\ << >> \in Seq(Nat) /\ << >> \in Seq(Nat \ {0})
      /\ << >> \in Seq(Seq(Nat \ {0})) /\ << >> \in Seq(Seq(Nat))
      /\ Len(<< >>) = 0
      OBVIOUS
<1>3. flushed \in 0 .. Len(frames)
      BY <1>2 DEF Init
<1>4. level \in Level /\ taken \in BOOLEAN /\ clock \in Nat /\ calls \in Nat
      BY LevelAssumption DEF Init
<1>5. /\ message \in [Context -> Seq(Nat)]
      /\ frames \in Seq(Seq(Nat \ {0})) /\ partial \in Seq(Nat \ {0})
      /\ accepted \in Seq(Seq(Nat))
      BY <1>2 DEF Init
<1>6. QED
      BY <1>1, <1>3, <1>4, <1>5 DEF Init, TypeOK

LEMMA TypeStep == TypeOK /\ [Next]_vars => TypeOK'
<1> SUFFICES ASSUME TypeOK, [Next]_vars PROVE TypeOK'
    OBVIOUS
<1> USE DEF TypeOK, Goto, wire
<1>1. ASSUME NEW c \in Context, NEW l \in Level, NEW args \in Payload, Log(c, l, args)
      PROVE  TypeOK'
      BY <1>1, PayloadAssumption DEF Log
<1>2. ASSUME NEW c \in Context, Stamp(c) PROVE TypeOK'
  <2>1. <<clock>> \o message[c] \in Seq(Nat)
        BY ConcatProperties
  <2>2. QED
        BY <1>2, <2>1 DEF Stamp
<1>3. ASSUME NEW c \in Context, Take(c) PROVE TypeOK'
      BY <1>3, MaxMarkerAssumption DEF Take
<1>4. ASSUME NEW c \in Context, Drop(c) PROVE TypeOK'
      BY <1>4 DEF Drop
<1>5. ASSUME NEW c \in Context, CloseFullRun(c) PROVE TypeOK'
  <2>1. marker[c] \in Nat
        OBVIOUS
  <2>2. /\ frames' \in Seq(Seq(Nat \ {0})) /\ partial' \in Seq(Nat \ {0})
        /\ flushed' \in 0 .. Len(frames')
        BY <1>5, <2>1, TransmitType DEF CloseFullRun
  <2>3. QED
        BY <1>5, <2>2, MaxMarkerAssumption DEF CloseFullRun
<1>6. ASSUME NEW c \in Context, WriteByte(c) PROVE TypeOK'
  <2> DEFINE b == message[c][pos[c] + 1]
  <2>1. b \in Nat
    <3>1. message[c] \in Seq(Nat) /\ pos[c] + 1 \in 1 .. Len(message[c])
          BY <1>6 DEF WriteByte
    <3>2. QED
          BY <3>1, ElementOfSeq
  <2>2. marker[c] \in 1 .. MaxMarker /\ marker[c] # MaxMarker
        BY <1>6 DEF WriteByte
  <2>3. WireByte(marker[c], b) \in Nat /\ NextMarker(marker[c], b) \in 1 .. MaxMarker
        BY <2>1, <2>2, EncoderTypes
  <2>4. Transmit(WireByte(marker[c], b))
        BY <1>6 DEF WriteByte
  <2>5. /\ frames' \in Seq(Seq(Nat \ {0})) /\ partial' \in Seq(Nat \ {0})
        /\ flushed' \in 0 .. Len(frames')
        BY <2>3, <2>4, TransmitType
  <2>6. marker' = [marker EXCEPT ![c] = NextMarker(marker[c], b)]
        BY <1>6 DEF WriteByte
  <2>7. marker' \in [Context -> 1 .. MaxMarker]
        BY <2>3, <2>6
  <2>8. pos' \in [Context -> Nat]
        BY <1>6 DEF WriteByte
  <2>9. UNCHANGED <<level, taken, clock, pc, message, calls, accepted>>
        BY <1>6 DEF WriteByte
  <2>10. QED
        BY <2>5, <2>7, <2>8, <2>9
<1>7. ASSUME NEW c \in Context, WriteMarker(c) PROVE TypeOK'
  <2>1. marker[c] \in Nat
        OBVIOUS
  <2>2. /\ frames' \in Seq(Seq(Nat \ {0})) /\ partial' \in Seq(Nat \ {0})
        /\ flushed' \in 0 .. Len(frames')
        BY <1>7, <2>1, TransmitType DEF WriteMarker
  <2>3. QED
        BY <1>7, <2>2 DEF WriteMarker
<1>8. ASSUME NEW c \in Context, Terminate(c) PROVE TypeOK'
  <2>1. /\ frames' \in Seq(Seq(Nat \ {0})) /\ partial' \in Seq(Nat \ {0})
        /\ flushed' \in 0 .. Len(frames')
        BY <1>8, TransmitType DEF Terminate
  <2>2. QED
        BY <1>8, <2>1 DEF Terminate
<1>9. ASSUME NEW c \in Context, Flush(c) PROVE TypeOK'
      BY <1>9 DEF Flush
<1>10. ASSUME NEW c \in Context, Release(c) PROVE TypeOK'
      BY <1>10 DEF Release
<1>11. ASSUME NEW l \in Level, SetLevel(l) PROVE TypeOK'
      BY <1>11 DEF SetLevel
<1>12. CASE UNCHANGED vars
      BY <1>12 DEF vars
<1>13. QED
      BY <1>1, <1>2, <1>3, <1>4, <1>5, <1>6, <1>7, <1>8, <1>9, <1>10, <1>11, <1>12
      DEF Next, Continue

(* Every variable stays in its type: no marker is ever 0, which would end the
   frame early, or above the byte that holds it. *)
THEOREM TypeCorrect == Spec => []TypeOK
BY TypeInit, TypeStep, PTL DEF Spec

-----------------------------------------------------------------------------
(* The writer. *)

LEMMA OneWriterStep == TypeOK /\ OneWriter /\ [Next]_vars => OneWriter'
<1> SUFFICES ASSUME TypeOK, OneWriter, [Next]_vars PROVE OneWriter'
    OBVIOUS
<1> USE DEF TypeOK, OneWriter, Holds, Goto
<1>1. ASSUME NEW c \in Context, NEW l \in Level, NEW args \in Payload, Log(c, l, args)
      PROVE  OneWriter'
      BY <1>1 DEF Log
<1>2. ASSUME NEW c \in Context, Stamp(c) PROVE OneWriter'
      BY <1>2 DEF Stamp
<1>3. ASSUME NEW c \in Context, Take(c) PROVE OneWriter'
      BY <1>3 DEF Take
<1>4. ASSUME NEW c \in Context, Drop(c) PROVE OneWriter'
      BY <1>4 DEF Drop
<1>5. ASSUME NEW c \in Context, CloseFullRun(c) \/ WriteByte(c) PROVE OneWriter'
      BY <1>5 DEF CloseFullRun, WriteByte
<1>6. ASSUME NEW c \in Context, WriteMarker(c) PROVE OneWriter'
      BY <1>6 DEF WriteMarker
<1>7. ASSUME NEW c \in Context, Terminate(c) PROVE OneWriter'
      BY <1>7 DEF Terminate
<1>8. ASSUME NEW c \in Context, Flush(c) PROVE OneWriter'
      BY <1>8 DEF Flush
<1>9. ASSUME NEW c \in Context, Release(c) PROVE OneWriter'
      BY <1>9 DEF Release
<1>10. CASE UNCHANGED <<taken, pc>>
      BY <1>10
<1>11. QED
      BY <1>1, <1>2, <1>3, <1>4, <1>5, <1>6, <1>7, <1>8, <1>9, <1>10
      DEF Next, Continue, SetLevel, vars

(* At most one context has a valid writer, and m_taken says whether one has. *)
THEOREM OneWriterCorrect == Spec => []OneWriter
<1>1. Init => OneWriter
      BY DEF Init, OneWriter, Holds
<1>2. TypeOK /\ OneWriter /\ [Next]_vars => OneWriter'
      BY OneWriterStep
<1>3. QED
      BY <1>1, <1>2, TypeCorrect, PTL DEF Spec

-----------------------------------------------------------------------------
(* Messages and frames. *)

\* A step of another context, or one that leaves writer and wire alone.
LEMMA FramesUntouched ==
  ASSUME TypeOK, OneWriter, OneFramePerMessage,
         UNCHANGED <<taken, wire, accepted>>,
         \A c \in Context : Holds(c)' =>
            pc'[c] = pc[c] /\ message'[c] = message[c]
  PROVE  OneFramePerMessage'
BY DEF OneFramePerMessage, Holds, wire

LEMMA FramesStep ==
  TypeOK /\ OneWriter /\ OneFramePerMessage /\ [Next]_vars => OneFramePerMessage'
<1> SUFFICES ASSUME TypeOK, OneWriter, OneFramePerMessage, [Next]_vars
             PROVE  OneFramePerMessage'
    OBVIOUS
<1> USE DEF TypeOK, Goto, wire
<1>1. ASSUME NEW c \in Context, NEW l \in Level, NEW args \in Payload, Log(c, l, args)
      PROVE  OneFramePerMessage'
      BY <1>1, FramesUntouched DEF Log, Holds
<1>2. ASSUME NEW c \in Context, Stamp(c) PROVE OneFramePerMessage'
      BY <1>2, FramesUntouched DEF Stamp, Holds
<1>3. ASSUME NEW c \in Context, Take(c) PROVE OneFramePerMessage'
  <2>1. /\ accepted' # << >> /\ Len(accepted') = Len(accepted) + 1
        /\ accepted'[Len(accepted')] = message[c]
    <3>1. /\ accepted \in Seq(Seq(Nat)) /\ message[c] \in Seq(Nat)
          /\ accepted' = Append(accepted, message[c])
          BY <1>3 DEF Take
    <3>2. Len(accepted) \in Nat
          BY <3>1, LenProperties
    <3> HIDE DEF TypeOK
    <3>3. /\ Len(Append(accepted, message[c])) = Len(accepted) + 1
          /\ Append(accepted, message[c])[Len(accepted) + 1] = message[c]
          BY <3>1, <3>2
    <3>4. Append(accepted, message[c]) # << >>
          BY <3>1, <3>2, <3>3
    <3>5. QED
          BY <3>1, <3>3, <3>4
  <2>2. \A d \in Context : Holds(d)' => d = c
        BY <1>3 DEF Take, OneWriter, Holds
  <2>3. QED
        BY <1>3, <2>1, <2>2 DEF Take, OneFramePerMessage
<1>4. ASSUME NEW c \in Context, Drop(c) PROVE OneFramePerMessage'
      BY <1>4, FramesUntouched DEF Drop, Holds
<1>5. ASSUME NEW c \in Context, CloseFullRun(c) \/ WriteByte(c) \/ WriteMarker(c)
      PROVE  OneFramePerMessage'
  <2>1. /\ Holds(c) /\ taken /\ taken' = taken
        /\ \A d \in Context : Holds(d)' => d = c
        BY <1>5 DEF CloseFullRun, WriteByte, WriteMarker, OneWriter, Holds
  <2>2. frames' = frames /\ flushed' = flushed
    <3>1. PICK b \in Nat \ {0} : Transmit(b)
      <4>1. CASE WriteByte(c)
        <5>1. message[c] \in Seq(Nat) /\ pos[c] + 1 \in 1 .. Len(message[c])
              BY <4>1 DEF WriteByte
        <5>2. message[c][pos[c] + 1] \in Nat
              BY <5>1, ElementOfSeq
        <5>3. WireByte(marker[c], message[c][pos[c] + 1]) \in Nat \ {0}
              BY <5>2, EncoderTypes
        <5>4. QED
              BY <4>1, <5>3 DEF WriteByte
      <4>2. CASE CloseFullRun(c) \/ WriteMarker(c)
        <5>1. marker[c] \in Nat \ {0}
              OBVIOUS
        <5>2. QED
              BY <4>2, <5>1 DEF CloseFullRun, WriteMarker
      <4>3. QED
            BY <1>5, <4>1, <4>2
    <3>2. QED
          BY <3>1 DEF Transmit
  <2>3. /\ accepted' = accepted /\ message' = message
        /\ pc[c] = "write" /\ pc'[c] \in {"write", "terminate"}
        BY <1>5 DEF CloseFullRun, WriteByte, WriteMarker
  <2>4. QED
        BY <2>1, <2>2, <2>3 DEF OneFramePerMessage
<1>6. ASSUME NEW c \in Context, Terminate(c) PROVE OneFramePerMessage'
  <2>1. /\ Holds(c) /\ taken /\ taken' = taken
        /\ \A d \in Context : Holds(d)' => d = c
        BY <1>6 DEF Terminate, OneWriter, Holds
  <2>2. partial' = << >> /\ Len(frames') = Len(frames) + 1
        BY <1>6 DEF Terminate, Transmit
  <2>3. QED
        BY <1>6, <2>1, <2>2 DEF Terminate, OneFramePerMessage
<1>7. ASSUME NEW c \in Context, Flush(c) PROVE OneFramePerMessage'
  <2>1. /\ Holds(c) /\ taken /\ taken' = taken
        /\ \A d \in Context : Holds(d)' => d = c
        BY <1>7 DEF Flush, OneWriter, Holds
  <2>2. QED
        BY <1>7, <2>1 DEF Flush, OneFramePerMessage
<1>8. ASSUME NEW c \in Context, Release(c) PROVE OneFramePerMessage'
  <2>1. Holds(c) /\ \A d \in Context : ~ Holds(d)'
        BY <1>8 DEF Release, OneWriter, Holds
  <2>2. QED
        BY <1>8, <2>1 DEF Release, OneFramePerMessage
<1>9. CASE UNCHANGED <<taken, pc, message, wire, accepted>>
      BY <1>9, FramesUntouched
<1>10. QED
      BY <1>1, <1>2, <1>3, <1>4, <1>5, <1>6, <1>7, <1>8, <1>9
      DEF Next, Continue, SetLevel, vars

(* One frame per accepted message, in order, complete and visible before the
   writer is given back. *)
THEOREM OneFramePerMessageCorrect == Spec => []OneFramePerMessage
<1>1. Init => OneFramePerMessage
      BY DEF Init, OneFramePerMessage, Holds
<1>2. TypeOK /\ OneWriter /\ OneFramePerMessage /\ [Next]_vars => OneFramePerMessage'
      BY FramesStep
<1>3. QED
      BY <1>1, <1>2, TypeCorrect, OneWriterCorrect, PTL DEF Spec

-----------------------------------------------------------------------------
(* What is on the wire. *)

\* The SerialWriter of c as the model spreads it over variables.
WriterOf(c) == [out |-> partial, marker |-> marker[c]]

\* A context that writes has sent what the encoder sends for the bytes it was
\* given so far, and perhaps closed a full run already; one that has sent the
\* last marker has sent the whole frame.
SendsEncoding ==
  \A c \in Context :
    /\ pc[c] = "write" =>
         /\ pos[c] \in 0 .. Len(message[c])
         /\ LET w == Writer(message[c])[pos[c]]
            IN  \/ WriterOf(c) = w
                \/ pos[c] < Len(message[c]) /\ WriterOf(c) = CloseFull(w)
    /\ pc[c] = "terminate" => partial = Encode(message[c])

FramesAreEncodings ==
  \A i \in 1 .. Len(frames) : frames[i] = Encode(accepted[i])

\* A step that touches neither the writers in use nor the frame being sent.
LEMMA SendsUntouched ==
  ASSUME SendsEncoding, partial' = partial,
         \A c \in Context : pc'[c] \in {"write", "terminate"} =>
            /\ pc'[c] = pc[c] /\ message'[c] = message[c]
            /\ pos'[c] = pos[c] /\ marker'[c] = marker[c]
  PROVE  SendsEncoding'
BY DEF SendsEncoding, WriterOf

\* A step of the context that has the writer concerns no other.
LEMMA SendsAlone ==
  ASSUME TypeOK, OneWriter, NEW c \in Context, Holds(c),
         \A d \in Context \ {c} : pc'[d] = pc[d],
         pc'[c] = "write" =>
           /\ pos'[c] \in 0 .. Len(message'[c])
           /\ LET w == Writer(message'[c])[pos'[c]]
              IN  \/ WriterOf(c)' = w
                  \/ pos'[c] < Len(message'[c]) /\ WriterOf(c)' = CloseFull(w),
         pc'[c] = "terminate" => partial' = Encode(message'[c])
  PROVE  SendsEncoding'
<1>1. \A d \in Context \ {c} : pc'[d] \notin {"write", "terminate"}
      BY DEF OneWriter, Holds
<1>2. QED
      BY <1>1 DEF SendsEncoding, WriterOf

\* What is transmitted is never 0 before the end of the frame.
LEMMA TransmitNonZero ==
  ASSUME NEW b \in NonZero, Transmit(b)
  PROVE  frames' = frames /\ partial' = Append(partial, b)
BY DEF Transmit, NonZero

LEMMA SendsStep ==
  TypeOK /\ OneWriter /\ OneFramePerMessage /\ SendsEncoding /\ [Next]_vars
    => SendsEncoding'
<1> SUFFICES ASSUME TypeOK, OneWriter, OneFramePerMessage, SendsEncoding, [Next]_vars
             PROVE  SendsEncoding'
    OBVIOUS
<1>0. /\ pc \in [Context -> {"idle", "stamp", "take", "write", "terminate",
                              "flush", "release"}]
      /\ message \in [Context -> Seq(Nat)] /\ pos \in [Context -> Nat]
      /\ marker \in [Context -> 1 .. MaxMarker] /\ partial \in Seq(NonZero)
      BY DEF TypeOK, NonZero
<1>1. ASSUME NEW c \in Context, NEW l \in Level, NEW args \in Payload, Log(c, l, args)
      PROVE  SendsEncoding'
      BY <1>0, <1>1, SendsUntouched DEF Log, Goto, wire
<1>2. ASSUME NEW c \in Context, Stamp(c) PROVE SendsEncoding'
      BY <1>0, <1>2, SendsUntouched DEF Stamp, Goto, wire
<1>3. ASSUME NEW c \in Context, Take(c) PROVE SendsEncoding'
  <2>1. /\ partial' = << >> /\ message' = message
        /\ pos'[c] = 0 /\ marker'[c] = 1 /\ pc'[c] = "write"
        /\ \A d \in Context \ {c} : pc'[d] = pc[d]
        BY <1>0, <1>3 DEF Take, Goto, wire, OneFramePerMessage
  <2>2. \A d \in Context \ {c} : pc'[d] \notin {"write", "terminate"}
        BY <1>3, <2>1 DEF Take, OneWriter, Holds
  <2>3. Writer(message[c])[0] = NewWriter /\ 0 \in 0 .. Len(message[c])
    <3>1. message[c] \in Seq(Nat)
          BY <1>0
    <3>2. QED
          BY <3>1, WriterIs, LenProperties
  <2>4. WriterOf(c)' = NewWriter
        BY <2>1 DEF WriterOf, NewWriter
  <2>5. QED
        BY <2>1, <2>2, <2>3, <2>4 DEF SendsEncoding, WriterOf
<1>4. ASSUME NEW c \in Context, Drop(c) PROVE SendsEncoding'
      BY <1>0, <1>4, SendsUntouched DEF Drop, Goto, wire
<1>5. ASSUME NEW c \in Context, pc[c] = "write"
      PROVE  /\ message[c] \in Seq(Nat) /\ Len(message[c]) \in Nat
             /\ pos[c] \in 0 .. Len(message[c])
             /\ Writer(message[c])[pos[c]] \in WriterState
  <2>1. message[c] \in Seq(Nat) /\ pos[c] \in 0 .. Len(message[c])
        BY <1>0, <1>5 DEF SendsEncoding
  <2>2. QED
        BY <2>1, WriterIs, LenProperties
<1>6. ASSUME NEW c \in Context, CloseFullRun(c) PROVE SendsEncoding'
  <2>0. /\ pc[c] = "write" /\ Holds(c) /\ marker[c] = MaxMarker
        /\ Transmit(MaxMarker) /\ pos[c] < Len(message[c])
        /\ pc' = pc /\ message' = message /\ pos' = pos /\ marker'[c] = 1
        BY <1>0, <1>6 DEF CloseFullRun, Holds
  <2>1. PICK w \in WriterState : w = Writer(message[c])[pos[c]]
        BY <1>5, <2>0
  <2>2. WriterOf(c) = w
    <3>1. CloseFull(w).marker # MaxMarker
          BY <2>1, AfterByteType
    <3>2. WriterOf(c) # CloseFull(w)
          BY <2>0, <3>1 DEF WriterOf
    <3>3. QED
          BY <2>0, <2>1, <3>2 DEF SendsEncoding
  <2>3. partial' = Append(partial, MaxMarker)
        BY <2>0, MaxMarkerAssumption, TransmitNonZero DEF NonZero
  <2>4. WriterOf(c)' = CloseFull(w)
        BY <2>0, <2>2, <2>3 DEF WriterOf, CloseFull
  <2>5. pos'[c] \in 0 .. Len(message'[c])
        BY <1>5, <2>0
  <2>6. QED
        BY <2>0, <2>1, <2>4, <2>5, SendsAlone
<1>7. ASSUME NEW c \in Context, WriteByte(c) PROVE SendsEncoding'
  <2> DEFINE n == pos[c]
             b == message[c][n + 1]
             byte == WireByte(marker[c], b)
  <2>0. /\ pc[c] = "write" /\ Holds(c) /\ marker[c] # MaxMarker
        /\ Transmit(byte) /\ n < Len(message[c])
        /\ pc' = pc /\ message' = message
        /\ pos'[c] = n + 1 /\ marker'[c] = NextMarker(marker[c], b)
        BY <1>0, <1>7 DEF WriteByte, Holds
  <2>1. PICK w \in WriterState : w = Writer(message[c])[n]
        BY <1>5, <2>0
  <2>2. WriterOf(c) = CloseFull(w)
    <3>1. WriterOf(c) = w => w.marker # MaxMarker
          BY <2>0 DEF WriterOf
    <3>2. WriterOf(c) = w => CloseFull(w) = w
          BY <3>1 DEF CloseFull
    <3>3. QED
          BY <2>0, <2>1, <3>2 DEF SendsEncoding
  <2>3. /\ n + 1 \in 1 .. Len(message[c]) /\ (n + 1) - 1 = n
        /\ n + 1 \in 0 .. Len(message[c])
        BY <1>5, <2>0
  <2>4. b \in Nat
        BY <1>5, <2>0, <2>3, ElementOfSeq
  <2>5. Writer(message[c])[n + 1] = AfterByte(w, b)
        BY <1>5, <2>0, <2>1, <2>3, WriterIs
  <2>6. byte \in NonZero
    <3>1. marker[c] \in 1 .. MaxMarker
          BY <1>0
    <3>2. QED
          BY <2>4, <3>1, EncoderTypes DEF NonZero
  <2> HIDE DEF b, byte
  <2>7. partial' = Append(partial, byte)
        BY <2>0, <2>6, TransmitNonZero
  <2>8. WriterOf(c)' = AfterByte(w, b)
    <3>1. CloseFull(w).out = partial /\ CloseFull(w).marker = marker[c]
          BY <2>2 DEF WriterOf
    <3>2. AfterByte(w, b) = [out |-> Append(partial, byte),
                             marker |-> NextMarker(marker[c], b)]
          BY <3>1 DEF AfterByte, byte
    <3>3. marker'[c] = NextMarker(marker[c], b)
          BY <2>0 DEF b
    <3>4. QED
          BY <2>7, <3>2, <3>3 DEF WriterOf
  <2>9. QED
        BY <2>0, <2>3, <2>5, <2>8, SendsAlone
<1>8. ASSUME NEW c \in Context, WriteMarker(c) PROVE SendsEncoding'
  <2>0. /\ pc[c] = "write" /\ Holds(c) /\ Transmit(marker[c])
        /\ pos[c] = Len(message[c])
        /\ \A d \in Context \ {c} : pc'[d] = pc[d]
        /\ pc'[c] = "terminate" /\ message' = message
        BY <1>0, <1>8 DEF WriteMarker, Goto, Holds
  <2>1. WriterOf(c) = Writer(message[c])[Len(message[c])]
        BY <1>5, <2>0 DEF SendsEncoding
  <2>2. marker[c] \in NonZero
    <3>1. marker[c] \in 1 .. MaxMarker
          BY <1>0
    <3>2. QED
          BY <3>1, MaxMarkerAssumption DEF NonZero
  <2>3. partial' = Append(partial, marker[c])
        BY <2>0, <2>2, TransmitNonZero
  <2>4. partial' = Encode(message[c])
    <3>1. Encode(message[c]) = Append(WriterOf(c).out, WriterOf(c).marker)
          BY <2>1 DEF Encode
    <3>2. QED
          BY <2>3, <3>1 DEF WriterOf
  <2>5. QED
        BY <2>0, <2>4, SendsAlone
<1>9. ASSUME NEW c \in Context, Terminate(c) \/ Flush(c) \/ Release(c)
      PROVE  SendsEncoding'
  <2>1. /\ Holds(c) /\ pc'[c] \in {"flush", "release", "idle"}
        /\ \A d \in Context \ {c} : pc'[d] = pc[d]
        BY <1>0, <1>9 DEF Terminate, Flush, Release, Goto, Holds
  <2>2. QED
        BY <2>1, SendsAlone
<1>10. CASE UNCHANGED <<pc, message, pos, marker, wire>>
       BY <1>10, SendsUntouched DEF wire
<1>11. QED
       BY <1>1, <1>2, <1>3, <1>4, <1>6, <1>7, <1>8, <1>9, <1>10
       DEF Next, Continue, SetLevel, vars, wire

THEOREM SendsEncodingCorrect == Spec => []SendsEncoding
<1>1. Init => SendsEncoding
      BY DEF Init, SendsEncoding
<1>2. TypeOK /\ OneWriter /\ OneFramePerMessage /\ SendsEncoding /\ [Next]_vars
        => SendsEncoding'
      BY SendsStep
<1>3. QED
      BY <1>1, <1>2, TypeCorrect, OneWriterCorrect, OneFramePerMessageCorrect, PTL
      DEF Spec

\* Each frame on the wire is what the encoder sends for the message accepted
\* in its turn.
LEMMA EncodingsStep ==
  TypeOK /\ OneWriter /\ OneFramePerMessage /\ SendsEncoding
    /\ FramesAreEncodings /\ [Next]_vars => FramesAreEncodings'
<1> SUFFICES ASSUME TypeOK, OneWriter, OneFramePerMessage, SendsEncoding,
                    FramesAreEncodings, [Next]_vars
             PROVE  FramesAreEncodings'
    OBVIOUS
<1>1. ASSUME UNCHANGED <<frames, accepted>> PROVE FramesAreEncodings'
      BY <1>1 DEF FramesAreEncodings
<1>2. /\ frames \in Seq(Seq(NonZero)) /\ accepted \in Seq(Seq(Nat))
      /\ partial \in Seq(NonZero) /\ marker \in [Context -> 1 .. MaxMarker]
      /\ message \in [Context -> Seq(Nat)] /\ pos \in [Context -> Nat]
      BY DEF TypeOK, NonZero
<1>3. Len(frames) \in Nat /\ Len(accepted) \in Nat
      BY <1>2, LenProperties
<1>4. ASSUME NEW c \in Context, Take(c) PROVE FramesAreEncodings'
  <2>1. /\ frames' = frames /\ accepted' = Append(accepted, message[c])
        /\ Len(frames) = Len(accepted)
        BY <1>4 DEF Take, wire, OneFramePerMessage
  <2>2. \A i \in 1 .. Len(frames) : accepted'[i] = accepted[i]
        BY <1>2, <2>1, AppendProperties
  <2>3. QED
        BY <2>1, <2>2 DEF FramesAreEncodings
<1>5. ASSUME NEW c \in Context, Terminate(c) PROVE FramesAreEncodings'
  <2>1. /\ frames' = Append(frames, partial) /\ accepted' = accepted
        /\ pc[c] = "terminate" /\ Holds(c)
        BY <1>5 DEF Terminate, Transmit, Holds
  <2>2. /\ Len(accepted) = Len(frames) + 1 /\ message[c] = accepted[Len(accepted)]
        /\ partial = Encode(message[c])
        BY <2>1 DEF OneFramePerMessage, SendsEncoding
  <2>3. /\ Len(frames') = Len(frames) + 1
        /\ \A i \in 1 .. Len(frames) : frames'[i] = frames[i]
        /\ frames'[Len(frames) + 1] = partial
        BY <1>2, <2>1, AppendProperties
  <2>4. ASSUME NEW i \in 1 .. Len(frames) + 1
        PROVE  frames'[i] = Encode(accepted[i])
    <3>1. CASE i = Len(frames) + 1
          BY <2>2, <2>3, <3>1
    <3>2. CASE i # Len(frames) + 1
      <4>1. i \in 1 .. Len(frames)
            BY <1>3, <3>2
      <4>2. QED
            BY <2>3, <4>1 DEF FramesAreEncodings
    <3>3. QED
          BY <3>1, <3>2
  <2>5. QED
        BY <2>1, <2>3, <2>4 DEF FramesAreEncodings
<1>6. ASSUME NEW c \in Context, CloseFullRun(c) \/ WriteByte(c) \/ WriteMarker(c)
      PROVE  FramesAreEncodings'
  <2>1. PICK b \in NonZero : Transmit(b)
    <3>0. marker[c] \in 1 .. MaxMarker
          BY <1>2
    <3>1. CASE WriteByte(c)
      <4>1. message[c] \in Seq(Nat) /\ pos[c] + 1 \in 1 .. Len(message[c])
            BY <1>2, <3>1 DEF WriteByte
      <4>2. WireByte(marker[c], message[c][pos[c] + 1]) \in NonZero
            BY <3>0, <4>1, ElementOfSeq, EncoderTypes DEF NonZero
      <4>3. QED
            BY <3>1, <4>2 DEF WriteByte
    <3>2. CASE CloseFullRun(c) \/ WriteMarker(c)
          BY <3>0, <3>2 DEF CloseFullRun, WriteMarker, NonZero
    <3>3. QED
          BY <1>6, <3>1, <3>2
  <2>2. QED
        BY <1>1, <1>6, <2>1, TransmitNonZero DEF CloseFullRun, WriteByte, WriteMarker
<1>7. QED
      BY <1>1, <1>4, <1>5, <1>6
      DEF Next, Continue, Log, Stamp, Drop, Flush, Release, SetLevel, vars, wire

(* What a host reads of the wire: every frame, decoded, is the message of the
   call that got the writer, byte for byte, for every message, every length of
   a full run and every interleaving of the contexts. *)
THEOREM FramesDecodeCorrect == Spec => []FramesDecode
<1>1. Init => FramesAreEncodings
      BY DEF Init, FramesAreEncodings
<1>2. TypeOK /\ OneWriter /\ OneFramePerMessage /\ SendsEncoding
        /\ FramesAreEncodings /\ [Next]_vars => FramesAreEncodings'
      BY EncodingsStep
<1>3. TypeOK /\ OneFramePerMessage /\ OneWriter /\ FramesAreEncodings => FramesDecode
  <2> SUFFICES ASSUME TypeOK, OneFramePerMessage, OneWriter, FramesAreEncodings,
                      NEW i \in DOMAIN frames
               PROVE  /\ frames[i] = Encode(accepted[i])
                      /\ WellFormed(frames[i]) /\ Decode(frames[i]) = accepted[i]
      BY DEF FramesDecode
  <2>1. /\ frames \in Seq(Seq(Nat \ {0})) /\ accepted \in Seq(Seq(Nat))
        /\ Len(frames) \in Nat /\ Len(accepted) \in Nat /\ i \in 1 .. Len(frames)
        BY LenProperties DEF TypeOK
  <2>2. Len(frames) <= Len(accepted)
    <3>1. CASE ~ taken
          BY <2>1, <3>1 DEF OneFramePerMessage
    <3>2. CASE taken
      <4>1. PICK c \in Context : Holds(c)
            BY <3>2 DEF OneWriter
      <4>2. Len(accepted) = Len(frames) + 1 \/ Len(accepted) = Len(frames)
            BY <4>1 DEF OneFramePerMessage, Holds
      <4>3. QED
            BY <2>1, <4>2
    <3>3. QED
          BY <3>1, <3>2 DEF TypeOK
  <2>3. accepted[i] \in Seq(Nat)
    <3>1. i \in 1 .. Len(accepted)
          BY <2>1, <2>2
    <3>2. QED
          BY <2>1, <3>1, ElementOfSeq
  <2>4. QED
        BY <2>1, <2>3, RoundTrip DEF FramesAreEncodings
<1>4. QED
      BY <1>1, <1>2, <1>3, TypeCorrect, OneWriterCorrect, OneFramePerMessageCorrect,
         SendsEncodingCorrect, PTL DEF Spec

-----------------------------------------------------------------------------
(* A SerialLogger is a LogStream. *)

\* The messages of calls: a timestamp, then the arguments.
Messages == {<<t>> \o args : t \in 0 .. MaxCalls, args \in Payload}

\* The contexts that have passed the filter and not read the clock yet.
Unstamped == {c \in Context : pc[c] = "stamp"}

\* Each call reads the clock once, after it was counted.
ClockCountsCalls ==
  /\ calls <= MaxCalls
  /\ IsFiniteSet(Unstamped)
  /\ clock + Cardinality(Unstamped) = calls

\* What a context is logging is a message, and its frame is made visible by
\* the step that makes it the last visible one.
CallsAreMessages ==
  \A c \in Context :
    /\ pc[c] = "stamp" => message[c] \in Payload
    /\ pc[c] \in {"take", "write", "terminate", "flush", "release"} =>
         message[c] \in Messages
    /\ pc[c] = "flush" => Len(frames) = flushed + 1

LEMMA ClockStep == TypeOK /\ ClockCountsCalls /\ [Next]_vars => ClockCountsCalls'
<1> SUFFICES ASSUME TypeOK, ClockCountsCalls, [Next]_vars PROVE ClockCountsCalls'
    OBVIOUS
<1>0. /\ pc \in [Context -> {"idle", "stamp", "take", "write", "terminate",
                              "flush", "release"}]
      /\ clock \in Nat /\ calls \in Nat
      /\ calls <= MaxCalls /\ MaxCalls \in Nat
      /\ IsFiniteSet(Unstamped) /\ clock + Cardinality(Unstamped) = calls
      /\ Cardinality(Unstamped) \in Nat
      BY MaxCallsAssumption, FS_CardinalityType DEF TypeOK, ClockCountsCalls
<1>1. ASSUME NEW c \in Context, NEW l \in Level, NEW args \in Payload, Log(c, l, args)
      PROVE  ClockCountsCalls'
  <2>1. /\ Unstamped' = Unstamped \cup {c} /\ c \notin Unstamped
        /\ calls < MaxCalls /\ calls' = calls + 1 /\ clock' = clock
        BY <1>0, <1>1 DEF Log, Goto, Unstamped
  <2>2. /\ IsFiniteSet(Unstamped')
        /\ Cardinality(Unstamped') = Cardinality(Unstamped) + 1
        BY <1>0, <2>1, FS_AddElement
  <2>3. QED
        BY <1>0, <2>1, <2>2 DEF ClockCountsCalls
<1>2. ASSUME NEW c \in Context, Stamp(c) PROVE ClockCountsCalls'
  <2>1. /\ Unstamped' = Unstamped \ {c} /\ c \in Unstamped
        /\ calls' = calls /\ clock' = clock + 1
        BY <1>0, <1>2 DEF Stamp, Goto, Unstamped
  <2>2. /\ IsFiniteSet(Unstamped')
        /\ Cardinality(Unstamped') = Cardinality(Unstamped) - 1
        BY <1>0, <2>1, FS_RemoveElement
  <2>3. QED
        BY <1>0, <2>1, <2>2 DEF ClockCountsCalls
<1>3. ASSUME UNCHANGED <<clock, calls>>, Unstamped' = Unstamped
      PROVE  ClockCountsCalls'
      BY <1>3 DEF ClockCountsCalls
<1>4. ASSUME NEW c \in Context,
             \/ Take(c) \/ Drop(c) \/ CloseFullRun(c) \/ WriteByte(c)
             \/ WriteMarker(c) \/ Terminate(c) \/ Flush(c) \/ Release(c)
      PROVE  UNCHANGED <<clock, calls>> /\ Unstamped' = Unstamped
      BY <1>0, <1>4 DEF Take, Drop, CloseFullRun, WriteByte, WriteMarker, Terminate,
         Flush, Release, Goto, Unstamped
<1>5. CASE UNCHANGED <<clock, calls, pc>>
      BY <1>3, <1>5 DEF Unstamped
<1>6. QED
      BY <1>1, <1>2, <1>3, <1>4, <1>5 DEF Next, Continue, SetLevel, vars

LEMMA MessagesStep ==
  TypeOK /\ OneWriter /\ OneFramePerMessage /\ ClockCountsCalls
    /\ CallsAreMessages /\ [Next]_vars => CallsAreMessages'
<1> SUFFICES ASSUME TypeOK, OneWriter, OneFramePerMessage, ClockCountsCalls,
                    CallsAreMessages, [Next]_vars
             PROVE  CallsAreMessages'
    OBVIOUS
<1>0. /\ pc \in [Context -> {"idle", "stamp", "take", "write", "terminate",
                              "flush", "release"}]
      /\ message \in [Context -> Seq(Nat)]
      BY DEF TypeOK
<1>1. ASSUME NEW c \in Context, NEW l \in Level, NEW args \in Payload, Log(c, l, args)
      PROVE  CallsAreMessages'
      BY <1>0, <1>1 DEF Log, Goto, wire, CallsAreMessages
<1>2. ASSUME NEW c \in Context, Stamp(c) PROVE CallsAreMessages'
  <2>1. clock \in 0 .. MaxCalls
    <3>1. c \in Unstamped
          BY <1>2 DEF Stamp, Unstamped
    <3>2. /\ Cardinality(Unstamped) \in Nat /\ Cardinality(Unstamped) # 0
          /\ clock \in Nat /\ calls \in Nat /\ MaxCalls \in Nat
          /\ clock + Cardinality(Unstamped) = calls /\ calls <= MaxCalls
          BY <3>1, FS_CardinalityType, FS_EmptySet, MaxCallsAssumption
          DEF ClockCountsCalls, TypeOK
    <3>3. QED
          BY <3>2
  <2>2. <<clock>> \o message[c] \in Messages
    <3>1. message[c] \in Payload
          BY <1>2 DEF Stamp, CallsAreMessages
    <3>2. \A t \in 0 .. MaxCalls, args \in Payload : <<t>> \o args \in Messages
          BY DEF Messages
    <3>3. QED
          BY <2>1, <3>1, <3>2
  <2>3. QED
        BY <1>0, <1>2, <2>2 DEF Stamp, Goto, wire, CallsAreMessages
<1>3. ASSUME NEW c \in Context, Take(c) \/ Drop(c) \/ Release(c)
      PROVE  CallsAreMessages'
      BY <1>0, <1>3 DEF Take, Drop, Release, Goto, wire, CallsAreMessages
<1>4. ASSUME NEW c \in Context,
             CloseFullRun(c) \/ WriteByte(c) \/ WriteMarker(c) \/ Terminate(c) \/ Flush(c)
      PROVE  CallsAreMessages'
  <2>1. /\ Holds(c) /\ message' = message
        /\ \A d \in Context \ {c} : pc'[d] = pc[d] /\ pc[d] # "flush"
        BY <1>0, <1>4 DEF CloseFullRun, WriteByte, WriteMarker, Terminate, Flush, Goto,
           OneWriter, Holds
  <2>2. pc'[c] \in {"write", "terminate", "flush", "release"}
        BY <1>0, <1>4 DEF CloseFullRun, WriteByte, WriteMarker, Terminate, Flush, Goto
  <2>3. message[c] \in Messages
        BY <2>1 DEF CallsAreMessages, Holds
  <2>4. pc'[c] = "flush" => Len(frames') = flushed' + 1
    <3>1. SUFFICES ASSUME pc'[c] = "flush" PROVE Len(frames') = flushed' + 1
          OBVIOUS
    <3>2. Terminate(c)
          BY <1>0, <1>4, <3>1
          DEF CloseFullRun, WriteByte, WriteMarker, Terminate, Flush, Goto
    <3>3. /\ frames' = Append(frames, partial) /\ flushed' = flushed
          /\ flushed = Len(frames)
          BY <2>1, <3>2 DEF Terminate, Transmit, OneFramePerMessage
    <3>4. frames \in Seq(Seq(NonZero)) /\ partial \in Seq(NonZero)
          BY DEF TypeOK, NonZero
    <3>5. QED
          BY <3>3, <3>4, AppendProperties
  <2>5. QED
        BY <2>1, <2>2, <2>3, <2>4 DEF CallsAreMessages
<1>5. CASE UNCHANGED <<pc, message, wire>>
      BY <1>5 DEF wire, CallsAreMessages
<1>6. QED
      BY <1>1, <1>2, <1>3, <1>4, <1>5 DEF Next, Continue, SetLevel, vars, wire

LEMMA CallsCorrect == Spec => [](ClockCountsCalls /\ CallsAreMessages)
<1>1. Init => ClockCountsCalls /\ CallsAreMessages
  <2> SUFFICES ASSUME Init PROVE ClockCountsCalls /\ CallsAreMessages
      OBVIOUS
  <2>1. Unstamped = {}
        BY DEF Init, Unstamped
  <2>2. IsFiniteSet(Unstamped) /\ Cardinality(Unstamped) = 0
        BY <2>1, FS_EmptySet
  <2>3. QED
        BY <2>2, MaxCallsAssumption DEF Init, ClockCountsCalls, CallsAreMessages
<1>2. TypeOK /\ ClockCountsCalls /\ [Next]_vars => ClockCountsCalls'
      BY ClockStep
<1>3. TypeOK /\ OneWriter /\ OneFramePerMessage /\ ClockCountsCalls
        /\ CallsAreMessages /\ [Next]_vars => CallsAreMessages'
      BY MessagesStep
<1>4. QED
      BY <1>1, <1>2, <1>3, TypeCorrect, OneWriterCorrect, OneFramePerMessageCorrect, PTL
      DEF Spec

LEMMA NoCallIsNoMessage == NoCall \notin Messages
<1>0. SUFFICES ASSUME NoCall \in Messages PROVE FALSE
      OBVIOUS
<1>p. PICK t \in 0 .. MaxCalls, args \in Payload : NoCall = <<t>> \o args
      BY <1>0 DEF Messages
<1>1. args \in Seq(Nat) /\ <<t>> \in Seq(Nat) /\ Len(<<t>>) = 1
      BY PayloadAssumption
<1>2. Len(<<t>> \o args) = 1 + Len(args) /\ Len(args) \in Nat
      BY <1>1, ConcatProperties, LenProperties
<1>3. QED
  <2>1. Len(NoCall) = 0
        BY EmptySeq DEF NoCall
  <2>2. QED
        BY <1>p, <1>2, <2>1

LEMMA StreamInit == Init => Abstract!Init
<1> SUFFICES ASSUME Init PROVE Abstract!Init
    OBVIOUS
<1>1. Stream = << >>
      BY DEF Init, Stream
<1>2. Call = [c \in Context |-> NoCall] /\ Delivered = [c \in Context |-> FALSE]
      BY DEF Init, Call, Delivered
<1>3. QED
      BY <1>1, <1>2 DEF Abstract!Init

\* The frames that are visible stay what they are.
LEMMA StreamKept ==
  ASSUME TypeOK, flushed' = flushed,
         frames' = frames \/ frames' = Append(frames, partial)
  PROVE  Stream' = Stream
<1>1. /\ frames \in Seq(Seq(NonZero)) /\ partial \in Seq(NonZero)
      /\ flushed \in 0 .. Len(frames)
      BY DEF TypeOK, NonZero
<1>2. \A i \in 1 .. flushed : i \in 1 .. Len(frames)
      BY <1>1, LenProperties
<1>3. \A i \in 1 .. flushed : Append(frames, partial)[i] = frames[i]
      BY <1>1, <1>2, AppendProperties
<1>4. QED
  <2>1. \A i \in 1 .. flushed : frames'[i] = frames[i]
        BY <1>3
  <2>2. QED
        BY <2>1 DEF Stream

LEMMA StreamStep ==
  TypeOK /\ OneWriter /\ OneFramePerMessage /\ FramesDecode /\ CallsAreMessages
    /\ CallsAreMessages' /\ [Next]_vars => [Abstract!Next]_(Abstract!streamVars)
<1> SUFFICES ASSUME TypeOK, OneWriter, OneFramePerMessage, FramesDecode,
                    CallsAreMessages, CallsAreMessages', [Next]_vars
             PROVE  [Abstract!Next]_(Abstract!streamVars)
    OBVIOUS
<1>0. /\ pc \in [Context -> {"idle", "stamp", "take", "write", "terminate",
                              "flush", "release"}]
      /\ message \in [Context -> Seq(Nat)]
      BY DEF TypeOK
<1>s. ASSUME Stream' = Stream, Call' = Call, Delivered' = Delivered
      PROVE  [Abstract!Next]_(Abstract!streamVars)
      BY <1>s DEF Abstract!streamVars
<1>n. ASSUME NEW c \in Context,
             Abstract!Deliver(c) \/ Abstract!Drop(c) \/ Abstract!Return(c)
      PROVE  [Abstract!Next]_(Abstract!streamVars)
  <2>1. Abstract!Next
        BY <1>n DEF Abstract!Next
  <2>2. QED
        BY <2>1
<1>b. ASSUME NEW c \in Context, NEW m \in Messages, Abstract!Begin(c, m)
      PROVE  [Abstract!Next]_(Abstract!streamVars)
  <2>1. Abstract!Next
        BY <1>b, SMTT(30) DEF Abstract!Next, Messages
  <2>2. QED
        BY <2>1
<1>1. ASSUME NEW c \in Context, NEW l \in Level, NEW args \in Payload, Log(c, l, args)
      PROVE  [Abstract!Next]_(Abstract!streamVars)
  <2>1. Stream' = Stream
        BY <1>1, StreamKept DEF Log, wire
  <2>2. Call' = Call /\ Delivered' = Delivered
        BY <1>0, <1>1 DEF Log, Goto, Call, Delivered
  <2>3. QED
        BY <1>s, <2>1, <2>2
<1>2. ASSUME NEW c \in Context, Stamp(c) PROVE [Abstract!Next]_(Abstract!streamVars)
  <2> DEFINE m == <<clock>> \o message[c]
  <2>1. Stream' = Stream
        BY <1>2, StreamKept DEF Stamp, wire
  <2>2. m \in Messages
    <3>1. message'[c] = m /\ pc'[c] = "take"
          BY <1>0, <1>2 DEF Stamp, Goto
    <3>2. QED
          BY <3>1 DEF CallsAreMessages
  <2>3. Call[c] = NoCall /\ Call' = [Call EXCEPT ![c] = m] /\ Delivered' = Delivered
        BY <1>0, <1>2 DEF Stamp, Goto, Call, Delivered
  <2> HIDE DEF m
  <2>4. Abstract!Begin(c, m)
        BY <2>1, <2>3 DEF Abstract!Begin
  <2>5. QED
        BY <1>b, <2>2, <2>4
<1>3. ASSUME NEW c \in Context, Take(c) PROVE [Abstract!Next]_(Abstract!streamVars)
  <2>1. Stream' = Stream
        BY <1>3, StreamKept DEF Take, wire
  <2>2. Call' = Call /\ Delivered' = Delivered
        BY <1>0, <1>3 DEF Take, Goto, Call, Delivered
  <2>3. QED
        BY <1>s, <2>1, <2>2
<1>4. ASSUME NEW c \in Context, Drop(c) PROVE [Abstract!Next]_(Abstract!streamVars)
  <2>1. Stream' = Stream
        BY <1>4, StreamKept DEF Drop, wire
  <2>2. Call' = [Call EXCEPT ![c] = NoCall] /\ Delivered' = Delivered
        BY <1>0, <1>4 DEF Drop, Goto, Call, Delivered
  <2>3. Call[c] # NoCall /\ ~ Delivered[c]
    <3>1. message[c] \in Messages /\ pc[c] = "take"
          BY <1>4 DEF Drop, CallsAreMessages
    <3>2. QED
          BY <3>1, NoCallIsNoMessage DEF Call, Delivered
  <2>4. \E d \in Context \ {c} : Call[d] # NoCall
    <3>1. PICK d \in Context : Holds(d)
          BY <1>4 DEF Drop, OneWriter
    <3>2. d # c /\ message[d] \in Messages /\ Call[d] = message[d]
          BY <1>0, <1>4, <3>1 DEF Drop, Holds, CallsAreMessages, Call
    <3>3. QED
          BY <3>2, NoCallIsNoMessage
  <2>5. Abstract!Drop(c)
        BY <2>1, <2>2, <2>3, <2>4 DEF Abstract!Drop
  <2>6. QED
        BY <1>n, <2>5
<1>5. ASSUME NEW c \in Context, CloseFullRun(c) \/ WriteByte(c) \/ WriteMarker(c) \/ Terminate(c)
      PROVE  [Abstract!Next]_(Abstract!streamVars)
  <2>1. flushed' = flushed /\ (frames' = frames \/ frames' = Append(frames, partial))
        BY <1>5 DEF CloseFullRun, WriteByte, WriteMarker, Terminate, Transmit
  <2>2. Stream' = Stream
        BY <2>1, StreamKept
  <2>3. Call' = Call /\ Delivered' = Delivered
        BY <1>0, <1>5
        DEF CloseFullRun, WriteByte, WriteMarker, Terminate, Goto, Call, Delivered
  <2>4. QED
        BY <1>s, <2>2, <2>3
<1>6. ASSUME NEW c \in Context, Flush(c) PROVE [Abstract!Next]_(Abstract!streamVars)
  <2>1. /\ pc[c] = "flush" /\ Holds(c)
        /\ flushed' = Len(frames) /\ frames' = frames /\ message' = message
        BY <1>6 DEF Flush, Holds
  <2>2. /\ Len(accepted) = Len(frames) /\ message[c] = accepted[Len(accepted)]
        /\ Len(frames) = flushed + 1 /\ message[c] \in Messages
        BY <2>1 DEF OneFramePerMessage, CallsAreMessages
  <2>3. /\ frames \in Seq(Seq(NonZero)) /\ flushed \in Nat
        /\ DOMAIN frames = 1 .. Len(frames)
    <3>1. frames \in Seq(Seq(NonZero)) /\ flushed \in 0 .. Len(frames)
          BY DEF TypeOK, NonZero
    <3>2. QED
          BY <3>1, LenProperties
  <2>4. Decode(frames[flushed + 1]) = message[c]
        BY <2>2, <2>3, SMTT(30) DEF FramesDecode
  <2>5. Stream' = Append(Stream, message[c])
    <3> DEFINE decoded(n) == [i \in 1 .. n |-> Decode(frames[i])]
    <3>1. Stream = decoded(flushed) /\ Stream' = decoded(flushed + 1)
          BY <2>1, <2>2 DEF Stream
    <3>2. decoded(flushed + 1) = Append(decoded(flushed), Decode(frames[flushed + 1]))
          BY <2>3
    <3>3. QED
          BY <2>4, <3>1, <3>2
  <2>6. /\ Call' = Call /\ Call[c] = message[c]
        /\ ~ Delivered[c] /\ Delivered' = [Delivered EXCEPT ![c] = TRUE]
        BY <1>0, <1>6 DEF Flush, Goto, Call, Delivered
  <2>7. Abstract!Deliver(c)
        BY <2>2, <2>5, <2>6, NoCallIsNoMessage DEF Abstract!Deliver
  <2>8. QED
        BY <1>n, <2>7
<1>7. ASSUME NEW c \in Context, Release(c) PROVE [Abstract!Next]_(Abstract!streamVars)
  <2>1. Stream' = Stream
        BY <1>7, StreamKept DEF Release, wire
  <2>2. /\ Call' = [Call EXCEPT ![c] = NoCall]
        /\ Delivered[c] /\ Delivered' = [Delivered EXCEPT ![c] = FALSE]
        BY <1>0, <1>7 DEF Release, Goto, Call, Delivered
  <2>3. Abstract!Return(c)
        BY <2>1, <2>2 DEF Abstract!Return
  <2>4. QED
        BY <1>n, <2>3
<1>8. CASE UNCHANGED <<pc, message, wire>>
  <2>1. Stream' = Stream
        BY <1>8, StreamKept DEF wire
  <2>2. Call' = Call /\ Delivered' = Delivered
        BY <1>8 DEF Call, Delivered
  <2>3. QED
        BY <1>s, <2>1, <2>2
<1>9. QED
      BY <1>1, <1>2, <1>3, <1>4, <1>5, <1>6, <1>7, <1>8
      DEF Next, Continue, SetLevel, vars, wire

(* A SerialLogger implements the LogStream: a call's whole message is put on
   the stream exactly once and before the call returns, or it is dropped and
   then only because it overlapped the call of another context. *)
THEOREM IsLogStream == Spec => ImplementsLogStream
<1>1. Init => Abstract!Init
      BY StreamInit
<1>2. TypeOK /\ OneWriter /\ OneFramePerMessage /\ FramesDecode /\ CallsAreMessages
        /\ CallsAreMessages' /\ [Next]_vars => [Abstract!Next]_(Abstract!streamVars)
      BY StreamStep
<1>3. QED
      BY <1>1, <1>2, TypeCorrect, OneWriterCorrect, OneFramePerMessageCorrect,
         FramesDecodeCorrect, CallsCorrect, PTL
      DEF Spec, ImplementsLogStream, Abstract!Spec
=============================================================================
