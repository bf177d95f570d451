---------------------------- MODULE MCRttSession ----------------------------
(* A ring of three slots and a target that fills it more than once. *)
EXTENDS RttSession

CONSTANTS a, b

MCByte == {a, b}
=============================================================================
