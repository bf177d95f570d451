----------------------------- MODULE MCEndToEnd -----------------------------
(* A ring that one frame fills, and messages with and without a zero. *)
EXTENDS EndToEnd

MCMessage == {<<0>>, <<2>>}

\* Neighbours differ, so that a lost or doubled log shows.
Alternating == \A i \in DOMAIN logged \ {1} : logged[i] # logged[i - 1]
=============================================================================
