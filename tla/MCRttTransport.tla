--------------------------- MODULE MCRttTransport ---------------------------
(* A ring of a few slots, two distinguishable bytes, and enough writes to go
   round the ring more than once. *)
EXTENDS RttTransport

CONSTANTS a, b

MCByte == {a, b}
=============================================================================
