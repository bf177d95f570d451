----------------------------- MODULE ByteChannel -----------------------------
(***************************************************************************)
(* What the RTT up-channel of libpostform promises while the target blocks *)
(* on a full buffer: a bounded, loss-free, order-preserving byte channel.  *)
(* Nothing here mentions cursors, wrap-around or polling; RttTransport is  *)
(* shown to implement it.                                                  *)
(***************************************************************************)
EXTENDS Naturals, Sequences

CONSTANTS
  Byte,      \* the bytes that travel
  Capacity   \* the most bytes that are sent and not yet received

VARIABLES
  sent,      \* every byte whose write has returned, in order
  received   \* every byte the host has been handed, in order

channelVars == <<sent, received>>

Init == sent = << >> /\ received = << >>

Send(b) ==
  /\ Len(sent) - Len(received) < Capacity
  /\ sent' = Append(sent, b)
  /\ UNCHANGED received

\* The host takes any number of the oldest bytes it does not have yet.
Deliver(n) ==
  /\ received' = SubSeq(sent, 1, n)
  /\ UNCHANGED sent

Next ==
  \/ \E b \in Byte : Send(b)
  \/ \E n \in (Len(received) + 1) .. Len(sent) : Deliver(n)

Spec == Init /\ [][Next]_channelVars
=============================================================================
