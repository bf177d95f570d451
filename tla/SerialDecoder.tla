---------------------------- MODULE SerialDecoder ----------------------------
(***************************************************************************)
(* The host's SerialDecoder (postform_decoder/src/lib.rs), fed from a link *)
(* that may lose bytes: a UART, or an RTT channel that the host joined     *)
(* while the target was overwriting it.  The host program may end and be   *)
(* started again.                                                          *)
(*                                                                         *)
(* What a call logs is bytes below 128: numbers of one leb128 byte each,   *)
(* and ASCII strings.                                                      *)
(***************************************************************************)
EXTENDS Rcobs, ElfMetadata, FiniteSets

CONSTANTS
  Call,       \* the logs of the target: a level, which of its strings, a
              \* timestamp and the bytes of the arguments
  MaxLoss,    \* bound: bytes the link loses, and restarts of the host
  MaxMessages \* bound: messages sent

\* The bytes that arguments of these kinds are encoded as (args.h): a string
\* with its 0, the address of an interned string, a number.
EncodedAs(kinds, bytes) ==
  \E end \in [0 .. Len(kinds) -> 0 .. Len(bytes)] :
    /\ end[0] = 0 /\ end[Len(kinds)] = Len(bytes)
    /\ \A k \in DOMAIN kinds :
         LET arg == end[k - 1] + 1 .. end[k] IN
         IF kinds[k] = "string" THEN {j \in arg : bytes[j] = 0} = {end[k]}
         ELSE /\ end[k] = end[k - 1] + 1
              /\ kinds[k] = "interned" =>
                   \E l \in Linked : l.section = "user" /\ l.address = bytes[end[k]]

ASSUME CallAssumption ==
  /\ Call # {}
  /\ \A c \in Call :
       /\ c.level \in Levels /\ c.nth \in DOMAIN Strings[c.level]
       /\ c.time \in 0 .. 127 /\ c.args \in Seq(0 .. 127)
       /\ EncodedAs(Strings[c.level][c.nth].args, c.args)

ASSUME MaxLossAssumption     == MaxLoss \in Nat
ASSUME MaxMessagesAssumption == MaxMessages \in Nat

VARIABLES
  queue,      \* bytes of the message being sent that are still to come
  current,    \* its call
  count,      \* messages sent
  losses,     \* bytes lost and restarts
  intact,     \* history: no byte was lost since the end of a frame
  msgBuffer,  \* rcobs_msg_buffer
  logs,       \* history: what the caller's action was given
  errors,     \* frames reported as undecodable
  crashed     \* the host program panicked

vars == <<queue, current, count, losses, intact, msgBuffer, logs, errors, crashed>>

Init ==
  /\ queue = << >> /\ current = (CHOOSE c \in Call : TRUE) /\ count = 0 /\ losses = 0
  /\ intact = TRUE
  /\ msgBuffer = << >> /\ logs = << >> /\ errors = 0 /\ crashed = FALSE

\* The entry of a call's string in the ELF file, and the message vlog writes.
StringOf(c) == CHOOSE l \in Linked :
  /\ l.section = c.level
  /\ \E k \in DOMAIN Sections :
       Sections[k] = c.level /\ l.address = Start(k) + Offset(Strings[c.level], c.nth - 1)
Message(c) == <<c.time, StringOf(c).address>> \o c.args
-----------------------------------------------------------------------------
(* Decoder::decode *)

Invalid   == 0    \* it returns an error
Panicking == 1    \* it indexes a slice outside its bounds

\* Where argument `kind` of a message ends, if it starts after byte n.  What a
\* call logs is ASCII, so that the handler of %s finds UTF-8 before the 0.
ArgEnd(kind, message, n) ==
  IF kind = "string" THEN
    LET nuls == {k \in n + 1 .. Len(message) : message[k] = 0}
    IN  IF nuls = {} THEN Panicking
        ELSE CHOOSE k \in nuls : \A j \in nuls : k <= j
  ELSE IF n = Len(message) THEN Invalid
  ELSE IF kind = "interned" /\ OutOfStrings(message[n + 1]) THEN Panicking
  ELSE IF kind = "interned" /\ Unterminated(message[n + 1]) THEN Invalid
  ELSE n + 1

\* How many bytes of the message make up the log; Invalid or Panicking if there
\* is none.  Timestamp, address of the format string, its arguments; bytes
\* after these are ignored.
LogEnd(message) ==
  IF Len(message) < 2 THEN Invalid
  ELSE IF OutOfStrings(message[2]) THEN Panicking
  ELSE IF WithFormat(message[2]) = {} THEN Invalid
  ELSE
    LET args == (CHOOSE l \in WithFormat(message[2]) : TRUE).string.args
        end[k \in 0 .. Len(args)] ==
          IF k = 0 THEN 2
          ELSE IF end[k - 1] \in {Invalid, Panicking} THEN end[k - 1]
          ELSE ArgEnd(args[k], message, end[k - 1])
    IN  end[Len(args)]

\* The Log of a message that has one.
LogOf(message) ==
  [level |-> GetLogSection(message[2]), string |-> message[2],
   time |-> message[1], args |-> SubSeq(message, 3, LogEnd(message))]
-----------------------------------------------------------------------------
\* The target logs: the frame of the message and the 0 that ends it.
Send(c) ==
  /\ queue = << >>
  /\ count < MaxMessages
  /\ queue' = Append(Encode(Message(c)), 0)
  /\ current' = c
  /\ count' = count + 1
  /\ UNCHANGED <<losses, intact, msgBuffer, logs, errors, crashed>>

Lose ==
  /\ queue # << >>
  /\ losses < MaxLoss
  /\ losses' = losses + 1
  /\ queue' = Tail(queue)
  /\ intact' = FALSE
  /\ UNCHANGED <<current, count, msgBuffer, logs, errors, crashed>>

\* Mutant: 0 bytes are gathered too.
FeedAnyByte ==
  /\ ~crashed
  /\ queue # << >>
  /\ msgBuffer' = Append(msgBuffer, Head(queue))
  /\ queue' = Tail(queue)
  /\ UNCHANGED <<current, count, losses, intact, logs, errors, crashed>>

\* feed_and_do, one byte that does not end a frame.
FeedByte ==
  /\ ~crashed
  /\ queue # << >> /\ Head(queue) # 0
  /\ msgBuffer' = Append(msgBuffer, Head(queue))
  /\ queue' = Tail(queue)
  /\ UNCHANGED <<current, count, losses, intact, logs, errors, crashed>>

\* Mutant: the buffer is only cleared after a log.
FeedEndKeeping ==
  /\ ~crashed
  /\ queue # << >> /\ Head(queue) = 0
  /\ LET message == Decode(msgBuffer)
         end     == IF WellFormed(msgBuffer) THEN LogEnd(message) ELSE Invalid
     IN  /\ crashed' = (end = Panicking)
         /\ errors' = IF end = Invalid THEN errors + 1 ELSE errors
         /\ logs' = IF end \in {Invalid, Panicking} THEN logs
                    ELSE Append(logs, LogOf(message))
         /\ msgBuffer' = IF end \in {Invalid, Panicking} THEN msgBuffer ELSE << >>
  /\ queue' = Tail(queue)
  /\ intact' = TRUE
  /\ UNCHANGED <<current, count, losses>>

\* feed_and_do, the end of a frame: decode what was gathered.
FeedEnd ==
  /\ ~crashed
  /\ queue # << >> /\ Head(queue) = 0
  /\ LET message == Decode(msgBuffer)
         end     == IF WellFormed(msgBuffer) THEN LogEnd(message) ELSE Invalid
     IN  /\ crashed' = (end = Panicking)
         /\ errors' = IF end = Invalid THEN errors + 1 ELSE errors
         /\ logs' = IF end \in {Invalid, Panicking} THEN logs
                    ELSE Append(logs, LogOf(message))
  /\ msgBuffer' = << >>
  /\ queue' = Tail(queue)
  /\ intact' = TRUE
  /\ UNCHANGED <<current, count, losses>>

\* The program ends - it panicked, it was stopped, or reading the port failed -
\* and a new one starts with an empty buffer.
Restart ==
  /\ losses < MaxLoss
  /\ losses' = losses + 1
  /\ crashed' = FALSE
  /\ msgBuffer' = << >>
  /\ intact' = (intact /\ msgBuffer = << >>)
  /\ UNCHANGED <<queue, current, count, logs, errors>>

Next ==
  \/ \E c \in Call : Send(c)
  \/ Lose
  \/ FeedByte
  \/ FeedEnd
  \/ Restart

Spec == Init /\ [][Next]_vars
-----------------------------------------------------------------------------
(* Type invariant.  Every log that is printed has a level and lies inside the
   frame it was decoded from. *)
DecodedLog == [level : Levels, string : Nat, time : Nat, args : Seq(Nat)]
TypeOK ==
  /\ queue \in Seq(Nat) /\ msgBuffer \in Seq(Nat \ {0})
  /\ current \in Call
  /\ count \in 0 .. MaxMessages /\ losses \in 0 .. MaxLoss
  /\ logs \in Seq(DecodedLog)
  /\ errors \in Nat
  /\ intact \in BOOLEAN /\ crashed \in BOOLEAN

\* What the host should print of a call.
Logged(c) == [level |-> c.level, string |-> StringOf(c).address,
              time |-> c.time, args |-> c.args]

(* Whatever was lost before: a message none of whose bytes is lost, after the
   0 of a frame arrived, is handed on, with the level of its macro, its string
   and its arguments (feed_and_do, lib.rs 419-445). *)
IntactMessageIsLogged ==
  [][intact /\ queue = <<0>> /\ queue' = << >> /\ losses' = losses
       => logs' = Append(logs, Logged(current))]_vars

(* A lost byte costs at most two messages: the one it belonged to and, when
   it was the 0, the one that follows.  A restart costs no more. *)
Complete == count - (IF queue = << >> THEN 0 ELSE 1)
Correct  == {i \in DOMAIN logs : \E c \in Call : logs[i] = Logged(c)}
LossIsBounded == Cardinality(Correct) + 2 * losses >= Complete

(* "If the buffer is invalid it may return an error" (lib.rs 327-328): it may
   not take the program down. *)
DecodeNeverPanics == ~crashed
=============================================================================
