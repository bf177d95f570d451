--------------------------- MODULE MCSerialLogger ---------------------------
(* Three contexts, and payloads on both sides of a full run. *)
EXTENDS SerialLogger

CONSTANTS c1, c2, c3

AllContexts == {c1, c2, c3}
TwoLevels   == {0, 1}

\* a zero; a run that is full before its end or, after timestamp 0, before a zero
FewPayloads == {<<0>>, <<2, 2, 0>>}

\* What FramesDecode compares frames with is right for every short message.
ASSUME RoundTrip ==
  \A m \in UNION {[1 .. n -> 0 .. 2] : n \in 0 .. 6} :
    WellFormed(Encode(m)) /\ Decode(Encode(m)) = m
=============================================================================
