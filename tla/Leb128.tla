------------------------------- MODULE Leb128 -------------------------------
(***************************************************************************)
(* LEB128 numbers: groups of seven bits, lowest first, the top bit of a    *)
(* byte saying that another one follows.  The encoders are the two         *)
(* Logger::writeLeb128 (libpostform/inc/postform/logger.h); the readers    *)
(* are the external crate leb128, called by postform_decoder/src/lib.rs.   *)
(***************************************************************************)
EXTENDS Integers, Sequences

\* Mutant: a full group is not masked.
UnsignedBytesUnmasked(value) ==
  LET from[v \in Nat] ==
        IF v < 128 THEN <<v>> ELSE <<v + 128>> \o from[v \div 128]
  IN  from[value]

\* writeLeb128 of an unsigned number.
UnsignedBytes(value) ==
  LET from[v \in Nat] ==
        IF v < 128 THEN <<v>> ELSE <<(v % 128) + 128>> \o from[v \div 128]
  IN  from[value]

\* Mutant: the sign bit of the last group is not looked at.
SignedBytesUnsigned(value) ==
  LET from[v \in Int] ==
        LET low == v % 128
            rest == v \div 128
        IN  IF rest \in {-1, 0} THEN <<low>> ELSE <<low + 128>> \o from[rest]
  IN  from[value]

\* writeLeb128 of a signed number: `>>` keeps the sign; the last group shows
\* it in its bit 0x40.
SignedBytes(value) ==
  LET from[v \in Int] ==
        LET low == v % 128
            rest == v \div 128
        IN  IF (rest = -1 /\ low >= 64) \/ (rest = 0 /\ low < 64)
              THEN <<low>>
              ELSE <<low + 128>> \o from[rest]
  IN  from[value]

\* The length of the number at the front of the bytes, 0 if it does not end.
NumberLength(bytes) ==
  LET ends == {i \in DOMAIN bytes : bytes[i] < 128}
  IN  IF ends = {} THEN 0 ELSE CHOOSE i \in ends : \A j \in ends : i <= j

\* What leb128::read::unsigned and ::signed make of it: a byte with the top bit
\* is a group below what the bytes after it stand for, one without is the last,
\* whose bit 0x40 is the sign.
UnsignedValue(bytes) ==
  LET from[b \in Seq(0 .. 255)] ==
        IF b = << >> THEN 0
        ELSE IF b[1] < 128 THEN b[1]
        ELSE (b[1] - 128) + 128 * from[Tail(b)]
  IN  from[bytes]

SignedValue(bytes) ==
  LET from[b \in Seq(0 .. 255)] ==
        IF b = << >> THEN 0
        ELSE IF b[1] < 64 THEN b[1]
        ELSE IF b[1] < 128 THEN b[1] - 128
        ELSE (b[1] - 128) + 128 * from[Tail(b)]
  IN  from[bytes]
=============================================================================
