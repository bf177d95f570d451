------------------------------- MODULE FileLog -------------------------------
(***************************************************************************)
(* FileLogger and FileWriter (libpostform/src/file_logger.cpp,             *)
(* inc/postform/file_logger.h) and the program that reads the file back,   *)
(* postform_persist/src/main.rs.                                           *)
(*                                                                         *)
(* The threads of a process log into one file through one descriptor.  A   *)
(* record is the size of a message, four bytes, and the message; it takes  *)
(* two calls of ::write, neither of which looks at how much was written.   *)
(* The process may die anywhere; another one may open the file again.      *)
(***************************************************************************)
EXTENDS Leb128

CONSTANTS
  Context,    \* the threads that log
  Payload,    \* the encoded arguments a call may have (sequences of bytes)
  MaxCalls,   \* bound: calls in the life of one logger; timestamps count them
  MaxRuns     \* bound: loggers created on the file

Byte == 0 .. 255

\* What is logged: the timestamp and the encoded arguments.
Message == {UnsignedBytes(t) \o args : t \in 0 .. MaxCalls, args \in Payload}

ASSUME MaxCallsAssumption == MaxCalls \in Nat
ASSUME MaxRunsAssumption  == MaxRuns \in Nat
ASSUME PayloadAssumption  == Payload \subseteq Seq(Byte)

\* Messages are shorter than 4 GiB, which is as much as a size field can say.
ASSUME MessageAssumption  == \A m \in Message : Len(m) \div 16777216 <= 255

VARIABLES
  up,         \* the process is alive and its FileLogger exists
  taken,      \* FileLogger::m_taken
  clock,      \* what getGlobalTimestamp() returns next
  pc,         \* where each thread is in its call
  message,    \* FileWriter::m_data of its writer
  file,       \* the bytes of the file
  offset,     \* the position of the descriptor m_fd
  runs, calls, \* history: loggers created, calls made to this one
  accepted,   \* history: messages whose call got the writer, in this run
  short       \* history: some ::write of this run wrote less than it was given

vars == <<up, taken, clock, pc, message, file, offset, runs, calls, accepted, short>>

Init ==
  /\ up = FALSE /\ taken = FALSE /\ clock = 0
  /\ pc = [c \in Context |-> "idle"]
  /\ message = [c \in Context |-> << >>]
  /\ file = << >> /\ offset = 0
  /\ runs = 0 /\ calls = 0 /\ accepted = << >> /\ short = FALSE

Goto(c, label) == pc' = [pc EXCEPT ![c] = label]

\* The bytes of uint32_t size = n, lowest first.
SizeBytes(n) ==
  <<n % 256, (n \div 256) % 256, (n \div 65536) % 256, (n \div 16777216) % 256>>

\* ::write(m_fd, data): the first n bytes of data are written over the file at
\* the descriptor's position, which moves past them.
WriteOver(data, n) ==
  /\ file' = [i \in 1 .. (IF offset + n > Len(file) THEN offset + n ELSE Len(file)) |->
                IF i \in offset + 1 .. offset + n THEN data[i - offset] ELSE file[i]]
  /\ offset' = offset + n
  /\ short' = (short \/ n < Len(data))
-----------------------------------------------------------------------------
\* FileLogger(path): open without O_TRUNC and without O_APPEND.  If it fails,
\* every ::write of the run writes nothing.
Open ==
  /\ ~up
  /\ runs < MaxRuns
  /\ up' = TRUE /\ runs' = runs + 1
  /\ taken' = FALSE /\ clock' = 0 /\ calls' = 0
  /\ pc' = [c \in Context |-> "idle"]
  /\ message' = [c \in Context |-> << >>]
  /\ offset' = 0
  /\ accepted' = << >> /\ short' = FALSE
  /\ UNCHANGED file

\* log(): the calls that pass the level filter.  vlog reads the clock, then
\* asks for the writer.
Log(c, args) ==
  /\ up
  /\ pc[c] = "idle"
  /\ calls < MaxCalls
  /\ message' = [message EXCEPT ![c] = UnsignedBytes(clock) \o args]
  /\ clock' = clock + 1
  /\ calls' = calls + 1
  /\ Goto(c, "take")
  /\ UNCHANGED <<up, taken, file, offset, runs, accepted, short>>

\* Mutant: the flag is stored without having been looked at.
TakeUnchecked(c) ==
  /\ up
  /\ pc[c] = "take"
  /\ taken' = TRUE
  /\ accepted' = Append(accepted, message[c])
  /\ Goto(c, "size")
  /\ UNCHANGED <<up, clock, message, file, offset, runs, calls, short>>

\* getWriter finds the logger free; write() gathers the message in m_data.
Take(c) ==
  /\ up
  /\ pc[c] = "take"
  /\ ~taken
  /\ taken' = TRUE
  /\ accepted' = Append(accepted, message[c])
  /\ Goto(c, "size")
  /\ UNCHANGED <<up, clock, message, file, offset, runs, calls, short>>

\* It finds it taken: an invalid writer, whose writes do nothing.
Drop(c) ==
  /\ up
  /\ pc[c] = "take"
  /\ taken
  /\ Goto(c, "idle")
  /\ UNCHANGED <<up, taken, clock, message, file, offset, runs, calls, accepted, short>>

\* Mutant: the writer is given back before the message is written.
WriteSizeReleasing(c) ==
  /\ up
  /\ pc[c] = "size"
  /\ \E n \in 0 .. 4 : WriteOver(SizeBytes(Len(message[c])), n)
  /\ taken' = FALSE
  /\ Goto(c, "data")
  /\ UNCHANGED <<up, clock, message, runs, calls, accepted>>

\* Mutant: the place of the size is left out, to be filled in later.
WriteSizeSeeking(c) ==
  /\ up
  /\ pc[c] = "size"
  /\ offset' = offset + 4
  /\ Goto(c, "data")
  /\ UNCHANGED <<up, taken, clock, message, file, runs, calls, accepted, short>>

\* commit(): the size of the message ...
WriteSize(c) ==
  /\ up
  /\ pc[c] = "size"
  /\ \E n \in 0 .. 4 : WriteOver(SizeBytes(Len(message[c])), n)
  /\ Goto(c, "data")
  /\ UNCHANGED <<up, taken, clock, message, runs, calls, accepted>>

\* ... the message ...
WriteData(c) ==
  /\ up
  /\ pc[c] = "data"
  /\ \E n \in 0 .. Len(message[c]) : WriteOver(message[c], n)
  /\ Goto(c, "release")
  /\ UNCHANGED <<up, taken, clock, message, runs, calls, accepted>>

\* ... and the logger is given back.
Release(c) ==
  /\ up
  /\ pc[c] = "release"
  /\ taken' = FALSE
  /\ Goto(c, "idle")
  /\ UNCHANGED <<up, clock, message, file, offset, runs, calls, accepted, short>>

\* ~FileLogger(), when no call is under way.
Close ==
  /\ up
  /\ \A c \in Context : pc[c] = "idle"
  /\ up' = FALSE
  /\ UNCHANGED <<taken, clock, pc, message, file, offset, runs, calls, accepted, short>>

\* The process dies.  What ::write was given is in the file.
Crash ==
  /\ up
  /\ \E c \in Context : pc[c] # "idle"
  /\ up' = FALSE
  /\ UNCHANGED <<taken, clock, pc, message, file, offset, runs, calls, accepted, short>>

Call(c) ==
  \/ \E args \in Payload : Log(c, args)
  \/ Take(c)
  \/ Drop(c)
  \/ WriteSize(c)
  \/ WriteData(c)
  \/ Release(c)

Next ==
  \/ Open
  \/ \E c \in Context : Call(c)
  \/ Close
  \/ Crash

Spec == Init /\ [][Next]_vars
-----------------------------------------------------------------------------
(* postform_persist *)

\* split_at and from_le_bytes: the size of the record that starts after p bytes.
RecordSize(data, p) ==
  data[p + 1] + 256 * data[p + 2] + 65536 * data[p + 3] + 16777216 * data[p + 4]

\* Mutant: the size of a record is not skipped with it.
NextRecordSizeKept(data, p) ==
  IF RecordSize(data, p) = 0 THEN p + 4 ELSE p + RecordSize(data, p)
NextRecord(data, p) == p + 4 + RecordSize(data, p)

Panic == [records |-> << >>, panics |-> TRUE]

\* What the loop makes of the rest of the file after p bytes: the records handed
\* to the decoder, and whether a slice out of bounds ends the program.
ReadFrom(data) ==
  LET from[p \in 0 .. Len(data)] ==
        IF p = Len(data) THEN [records |-> << >>, panics |-> FALSE]
        ELSE IF p + 4 > Len(data) \/ p + 4 + RecordSize(data, p) > Len(data) THEN Panic
        ELSE [records |-> <<SubSeq(data, p + 5, p + 4 + RecordSize(data, p))>>
                          \o from[NextRecord(data, p)].records,
              panics  |-> from[NextRecord(data, p)].panics]
  IN  from

\* Whether anything is left is only looked at after a record.
PersistRead(data) == IF data = << >> THEN Panic ELSE ReadFrom(data)[0]
-----------------------------------------------------------------------------
(* Type invariant. *)
TypeOK ==
  /\ up \in BOOLEAN /\ taken \in BOOLEAN /\ short \in BOOLEAN
  /\ pc \in [Context -> {"idle", "take", "size", "data", "release"}]
  /\ message \in [Context -> Seq(Byte)]
  /\ file \in Seq(Byte)
  /\ offset \in 0 .. Len(file)
  /\ clock \in 0 .. MaxCalls /\ calls \in 0 .. MaxCalls /\ runs \in 0 .. MaxRuns
  /\ accepted \in Seq(Seq(Byte))

\* The messages of this run that are on the file whole: all that were accepted,
\* but for the last while its record is being written or if the process died.
InRecord == \E c \in Context : pc[c] \in {"size", "data"}
Complete == IF InRecord THEN SubSeq(accepted, 1, Len(accepted) - 1) ELSE accepted

(* After a crash between the two writes of a record, with the file shared by
   several threads, and over what an earlier run left behind: reading the file
   gives the complete messages of the last run first, in order and unchanged
   (file_logger.cpp 17-26, persist main.rs 54-68). *)
RunIsReadFirst ==
  ~short =>
    LET records == PersistRead(file).records
    IN  /\ Len(Complete) <= Len(records)
        /\ SubSeq(records, 1, Len(Complete)) = Complete

(* A file with nothing older behind the descriptor is read to the end, and gives
   the complete messages of the run and nothing else.  The reader panics then if
   the size of a record is all there is of it, or if no run left a record; no
   other moment to stop, or to crash, makes it (file_logger.cpp 17-26, persist
   main.rs 54-68). *)
Torn == \E c \in Context : pc[c] = "data"
WholeFileIsRead ==
  ~short /\ offset = Len(file) =>
    PersistRead(file) = [records |-> Complete, panics |-> Torn \/ file = << >>]

\* How a FileLogger is a LogStream: what is read back of this run.
Stream == PersistRead(SubSeq(file, 1, offset)).records
NoCall == << >>   \* no message is empty: it has a timestamp
CallOf == [c \in Context |-> IF pc[c] = "idle" THEN NoCall ELSE message[c]]
Delivered == [c \in Context |-> pc[c] = "release"]

(* While the process lives and the disk takes what it is given, every call is
   on the file whole and once before it returns, or is dropped because of a call
   that overlaps it - also when the file held the records of an earlier run
   (file_logger.cpp 11-48).  Opening starts a new stream; a crash ends it. *)
Abstract == INSTANCE LogStream WITH
  stream <- Stream, call <- CallOf, delivered <- Delivered
ImplementsLogStream ==
  [][up /\ up' /\ ~short' => Abstract!Next \/ UNCHANGED Abstract!streamVars]_vars
=============================================================================
