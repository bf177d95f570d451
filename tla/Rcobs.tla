-------------------------------- MODULE Rcobs --------------------------------
(***************************************************************************)
(* Reverse COBS, the framing of the serial log: a message becomes a string *)
(* of non-zero bytes, so that 0 can end it.  A marker byte n closes a run  *)
(* of n - 1 non-zero bytes; except for the last marker and for a full run, *)
(* it stands for a 0 byte of the message after that run.                   *)
(*                                                                         *)
(* The encoder is the code of SerialWriter (inc/postform/serial_logger.h); *)
(* the decoder is the external crate rcobs, called by                      *)
(* postform_decoder/src/lib.rs, SerialDecoder::feed_and_do.                *)
(***************************************************************************)
EXTENDS Naturals, Sequences

CONSTANT MaxMarker   \* 255 in the code: the marker of a full run

ASSUME MaxMarkerAssumption == MaxMarker \in Nat \ {0, 1}

\* The one byte written for message byte b, and the marker count after it,
\* once a full run has been closed (marker # MaxMarker).
WireByte(marker, b) == IF b = 0 THEN marker ELSE b
\* Mutant: the count goes on after a zero.
NextMarkerNoReset(marker, b) == marker + 1
NextMarker(marker, b) == IF b = 0 THEN 1 ELSE marker + 1

\* A SerialWriter: what it has sent, and its m_marker.
NewWriter == [out |-> << >>, marker |-> 1]
CloseFull(w) ==
  IF w.marker = MaxMarker THEN [out |-> Append(w.out, MaxMarker), marker |-> 1] ELSE w
AfterByte(w, b) ==
  LET open == CloseFull(w)
  IN  [out    |-> Append(open.out, WireByte(open.marker, b)),
       marker |-> NextMarker(open.marker, b)]

\* The writer after each prefix of a message.
Writer(message) ==
  LET after[n \in 0 .. Len(message)] ==
        IF n = 0 THEN NewWriter ELSE AfterByte(after[n - 1], message[n])
  IN  after

\* What it sends for the whole message, without the 0 that ends it.
Encode(message) ==
  LET done == Writer(message)[Len(message)] IN Append(done.out, done.marker)

\* Whether position n of a frame is reached from its start by a chain of
\* markers, each of which closes the bytes since the one before.
Chain(frame) ==
  LET chain[n \in 0 .. Len(frame)] ==
        n = 0 \/ (frame[n] \in 1 .. n /\ chain[n - frame[n]])
  IN  chain

WellFormed(frame) == Len(frame) > 0 /\ Chain(frame)[Len(frame)]

\* The bytes that the marker at n closes.
Run(frame, n) == SubSeq(frame, n - frame[n] + 1, n - 1)

\* What a marker stands for after its run, when it is not the last.
ImpliedZero(marker) == IF marker = MaxMarker THEN << >> ELSE <<0>>

\* What a frame stands for up to its marker at n, which is not the last.
UpTo(frame) ==
  LET upTo[n \in 0 .. Len(frame)] ==
        IF n = 0 \/ frame[n] \notin 1 .. n THEN << >>
        ELSE upTo[n - frame[n]] \o Run(frame, n) \o ImpliedZero(frame[n])
  IN  upTo

\* The message of a well-formed frame.
Decode(frame) ==
  LET last == Len(frame) IN UpTo(frame)[last - frame[last]] \o Run(frame, last)
=============================================================================
