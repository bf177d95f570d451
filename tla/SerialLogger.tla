----------------------------- MODULE SerialLogger -----------------------------
(***************************************************************************)
(* Logger::log and the SerialLogger/SerialWriter pair below it             *)
(* (libpostform/inc/postform/logger.h, serial_logger.h), called from       *)
(* several contexts: threads and interrupt handlers that preempt each      *)
(* other between any two accesses to shared state.  One action is one such *)
(* access: the level, the clock, the atomic m_taken, one byte given to the *)
(* transport.                                                              *)
(*                                                                         *)
(* The transport is seen as the stream of bytes it was given, cut at the   *)
(* 0 bytes: `frames`, each ended by a 0, and the `partial` one after them. *)
(***************************************************************************)
EXTENDS Rcobs, FiniteSets

CONSTANTS
  Context,    \* the execution contexts that log
  Payload,    \* the encoded arguments a call may have (sequences of bytes)
  Level,      \* log levels, numbers in the order of LogLevel
  MaxCalls    \* bound: calls that pass the level filter

DEBUG == 0   \* LogLevel::DEBUG, the lowest

ASSUME PayloadAssumption == Payload \subseteq Seq(Nat)
ASSUME LevelAssumption   == Level \subseteq Nat /\ DEBUG \in Level
ASSUME MaxCallsAssumption == MaxCalls \in Nat

VARIABLES
  level,      \* Logger::m_level
  taken,      \* SerialLogger::m_taken
  clock,      \* what getGlobalTimestamp() returns next
  pc,         \* where each context is in its call
  message,    \* the bytes the call of each context will write
  pos,        \* how many of them its SerialWriter has been given
  marker,     \* its SerialWriter's m_marker
  frames, partial,  \* the bytes given to the transport
  flushed,    \* how many of the frames commit() has made visible
  calls,      \* history: calls that passed the level filter
  accepted    \* history: messages whose call got the writer, in order

wire == <<frames, partial, flushed>>
vars == <<level, taken, clock, pc, message, pos, marker,
          frames, partial, flushed, calls, accepted>>

Init ==
  /\ level = DEBUG
  /\ taken = FALSE
  /\ clock = 0
  /\ pc = [c \in Context |-> "idle"]
  /\ message = [c \in Context |-> << >>]
  /\ pos = [c \in Context |-> 0]
  /\ marker = [c \in Context |-> 1]
  /\ frames = << >> /\ partial = << >> /\ flushed = 0
  /\ calls = 0 /\ accepted = << >>

Goto(c, label) == pc' = [pc EXCEPT ![c] = label]

\* m_transport->write(b)
Transmit(b) ==
  /\ IF b = 0
       THEN frames' = Append(frames, partial) /\ partial' = << >>
       ELSE frames' = frames /\ partial' = Append(partial, b)
  /\ UNCHANGED flushed
-----------------------------------------------------------------------------
\* log(l, args): a call below the level returns here and changes nothing.
Log(c, l, args) ==
  /\ pc[c] = "idle"
  /\ calls < MaxCalls
  /\ l >= level
  /\ message' = [message EXCEPT ![c] = args]
  /\ calls' = calls + 1
  /\ Goto(c, "stamp")
  /\ UNCHANGED <<level, taken, clock, pos, marker, wire, accepted>>

\* vlog reads the clock before it asks for the writer.  The timestamp goes
\* first; timestamps here are below 128, one leb128 byte.
Stamp(c) ==
  /\ pc[c] = "stamp"
  /\ message' = [message EXCEPT ![c] = <<clock>> \o @]
  /\ clock' = clock + 1
  /\ Goto(c, "take")
  /\ UNCHANGED <<level, taken, pos, marker, wire, calls, accepted>>

\* Mutant: the flag is stored without having been looked at.
TakeUnchecked(c) ==
  /\ pc[c] = "take"
  /\ taken' = TRUE
  /\ pos' = [pos EXCEPT ![c] = 0]
  /\ marker' = [marker EXCEPT ![c] = 1]
  /\ accepted' = Append(accepted, message[c])
  /\ Goto(c, "write")
  /\ UNCHANGED <<level, clock, message, wire, calls>>

\* getWriter: m_taken.exchange(true) found it free.
Take(c) ==
  /\ pc[c] = "take"
  /\ ~taken
  /\ taken' = TRUE
  /\ pos' = [pos EXCEPT ![c] = 0]
  /\ marker' = [marker EXCEPT ![c] = 1]
  /\ accepted' = Append(accepted, message[c])
  /\ Goto(c, "write")
  /\ UNCHANGED <<level, clock, message, wire, calls>>

\* It found it taken: the writer is invalid, each write to it does nothing.
Drop(c) ==
  /\ pc[c] = "take"
  /\ taken
  /\ Goto(c, "idle")
  /\ UNCHANGED <<level, taken, clock, message, pos, marker, wire, calls, accepted>>

\* SerialWriter::write, the run is full: close it with its marker.
CloseFullRun(c) ==
  /\ pc[c] = "write"
  /\ pos[c] < Len(message[c])
  /\ marker[c] = MaxMarker
  /\ Transmit(marker[c])
  /\ marker' = [marker EXCEPT ![c] = 1]
  /\ UNCHANGED <<level, taken, clock, pc, message, pos, calls, accepted>>

\* Mutant: a full run is not looked for.
WriteByteUnchecked(c) ==
  /\ pc[c] = "write"
  /\ pos[c] < Len(message[c])
  /\ LET b == message[c][pos[c] + 1] IN
       /\ Transmit(WireByte(marker[c], b))
       /\ marker' = [marker EXCEPT ![c] = NextMarker(@, b)]
  /\ pos' = [pos EXCEPT ![c] = @ + 1]
  /\ UNCHANGED <<level, taken, clock, pc, message, calls, accepted>>

\* SerialWriter::write, the next byte of the message.
WriteByte(c) ==
  /\ pc[c] = "write"
  /\ pos[c] < Len(message[c])
  /\ marker[c] # MaxMarker
  /\ LET b == message[c][pos[c] + 1] IN
       /\ Transmit(WireByte(marker[c], b))
       /\ marker' = [marker EXCEPT ![c] = NextMarker(@, b)]
  /\ pos' = [pos EXCEPT ![c] = @ + 1]
  /\ UNCHANGED <<level, taken, clock, pc, message, calls, accepted>>

\* ~SerialWriter runs commit(): the last marker, the 0, the transport's
\* commit, the release of the logger.
WriteMarker(c) ==
  /\ pc[c] = "write"
  /\ pos[c] = Len(message[c])
  /\ Transmit(marker[c])
  /\ Goto(c, "terminate")
  /\ UNCHANGED <<level, taken, clock, message, pos, marker, calls, accepted>>

\* Mutant: the logger is released before the transport's commit.
TerminateReleasing(c) ==
  /\ pc[c] = "terminate"
  /\ Transmit(0)
  /\ taken' = FALSE
  /\ Goto(c, "flush")
  /\ UNCHANGED <<level, clock, message, pos, marker, calls, accepted>>

Terminate(c) ==
  /\ pc[c] = "terminate"
  /\ Transmit(0)
  /\ Goto(c, "flush")
  /\ UNCHANGED <<level, taken, clock, message, pos, marker, calls, accepted>>

Flush(c) ==
  /\ pc[c] = "flush"
  /\ flushed' = Len(frames)
  /\ Goto(c, "release")
  /\ UNCHANGED <<level, taken, clock, message, pos, marker, frames, partial,
                 calls, accepted>>

\* Mutant: m_taken stays set.
ReleaseLeaking(c) ==
  /\ pc[c] = "release"
  /\ Goto(c, "idle")
  /\ UNCHANGED <<level, taken, clock, message, pos, marker, wire, calls, accepted>>

Release(c) ==
  /\ pc[c] = "release"
  /\ taken' = FALSE
  /\ Goto(c, "idle")
  /\ UNCHANGED <<level, clock, message, pos, marker, wire, calls, accepted>>

SetLevel(l) ==
  /\ level' = l
  /\ UNCHANGED <<taken, clock, pc, message, pos, marker, wire, calls, accepted>>
-----------------------------------------------------------------------------
\* The rest of a call, once it has begun.
Continue(c) ==
  \/ Stamp(c)
  \/ Take(c)
  \/ Drop(c)
  \/ CloseFullRun(c)
  \/ WriteByte(c)
  \/ WriteMarker(c)
  \/ Terminate(c)
  \/ Flush(c)
  \/ Release(c)

Next ==
  \/ \E c \in Context :
       \/ \E l \in Level, args \in Payload : Log(c, l, args)
       \/ Continue(c)
  \/ \E l \in Level : SetLevel(l)

Spec == Init /\ [][Next]_vars

\* A context that is in a call keeps running: interrupt handlers return.
FairSpec == Spec /\ \A c \in Context : WF_vars(Continue(c))
-----------------------------------------------------------------------------
\* The context has a valid SerialWriter: getWriter has returned it and
\* release() has not happened yet.
Holds(c) == pc[c] \in {"write", "terminate", "flush", "release"}

(* Type invariant.  A marker is never 0 and fits the byte it is sent in. *)
TypeOK ==
  /\ level \in Level
  /\ taken \in BOOLEAN
  /\ clock \in Nat /\ calls \in Nat
  /\ pc \in [Context -> {"idle", "stamp", "take", "write", "terminate",
                         "flush", "release"}]
  /\ message \in [Context -> Seq(Nat)]
  /\ pos \in [Context -> Nat]
  /\ marker \in [Context -> 1 .. MaxMarker]
  /\ frames \in Seq(Seq(Nat \ {0}))
  /\ partial \in Seq(Nat \ {0})
  /\ flushed \in 0 .. Len(frames)
  /\ accepted \in Seq(Seq(Nat))

(* At most one context has a valid writer at any time ("it could scramble the
   serial data", serial_logger.h 120-123), and the flag says whether one has. *)
OneWriter ==
  /\ \A c, d \in Context : Holds(c) /\ Holds(d) => c = d
  /\ taken <=> \E c \in Context : Holds(c)

(* Messages and frames go one to one, in order: a context with a valid writer
   is writing the last accepted message, whose frame is the partial one until
   the 0 ends it; when no one writes, nothing is left half written or not
   made visible (serial_logger.h 192-227). *)
OneFramePerMessage ==
  /\ ~taken => partial = << >> /\ flushed = Len(frames)
               /\ Len(frames) = Len(accepted)
  /\ \A c \in Context :
       Holds(c) =>
         /\ accepted # << >> /\ message[c] = accepted[Len(accepted)]
         /\ pc[c] \in {"write", "terminate"} =>
              flushed = Len(frames) /\ Len(accepted) = Len(frames) + 1
         /\ pc[c] \in {"flush", "release"} =>
              partial = << >> /\ Len(accepted) = Len(frames)
         /\ pc[c] = "release" => flushed = Len(frames)

(* Every frame on the wire decodes to the message of the call that got the
   writer, byte for byte: no interleaving, no marker miscounted at a zero or
   at a full run. *)
FramesDecode ==
  \A i \in DOMAIN frames :
    /\ frames[i] = Encode(accepted[i])
    /\ WellFormed(frames[i]) /\ Decode(frames[i]) = accepted[i]

(* The writer is given back, so that later calls are not all dropped. *)
WriterReleased == taken ~> ~taken

\* How a SerialLogger is a LogStream: the visible frames, decoded.
Stream == [i \in 1 .. flushed |-> Decode(frames[i])]
NoCall == << >>   \* no message is empty: it has a timestamp
Call == [c \in Context |-> IF pc[c] \in {"idle", "stamp"} THEN NoCall ELSE message[c]]
Delivered == [c \in Context |-> pc[c] = "release"]

(* Every call is delivered whole, exactly once and before it returns, or is
   dropped because of a call of another context that overlaps it. *)
Abstract == INSTANCE LogStream WITH
  Message <- {<<t>> \o args : t \in 0 .. MaxCalls, args \in Payload},
  stream <- Stream, call <- Call, delivered <- Delivered
ImplementsLogStream == Abstract!Spec
=============================================================================
