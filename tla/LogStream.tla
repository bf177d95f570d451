------------------------------ MODULE LogStream ------------------------------
(***************************************************************************)
(* What a SerialLogger promises to the contexts (threads and interrupt     *)
(* handlers) that log through it: each call puts its whole message on the  *)
(* stream exactly once, before it returns, or puts nothing there, and then *)
(* only because it overlapped a call of another context.                   *)
(***************************************************************************)
EXTENDS Naturals, Sequences

CONSTANTS Context, Message, NoCall

VARIABLES
  stream,     \* the messages a reader of the transport can decode, in order
  call,       \* the message each context is logging, or NoCall
  delivered   \* whether that message is on the stream

streamVars == <<stream, call, delivered>>

Init ==
  /\ stream = << >>
  /\ call = [c \in Context |-> NoCall]
  /\ delivered = [c \in Context |-> FALSE]

Begin(c, m) ==
  /\ call[c] = NoCall
  /\ call' = [call EXCEPT ![c] = m]
  /\ UNCHANGED <<stream, delivered>>

Deliver(c) ==
  /\ call[c] # NoCall /\ ~delivered[c]
  /\ stream' = Append(stream, call[c])
  /\ delivered' = [delivered EXCEPT ![c] = TRUE]
  /\ UNCHANGED call

Drop(c) ==
  /\ call[c] # NoCall /\ ~delivered[c]
  /\ \E d \in Context \ {c} : call[d] # NoCall
  /\ call' = [call EXCEPT ![c] = NoCall]
  /\ UNCHANGED <<stream, delivered>>

Return(c) ==
  /\ delivered[c]
  /\ call' = [call EXCEPT ![c] = NoCall]
  /\ delivered' = [delivered EXCEPT ![c] = FALSE]
  /\ UNCHANGED stream

Next ==
  \E c \in Context :
    \/ \E m \in Message : Begin(c, m)
    \/ Deliver(c)
    \/ Drop(c)
    \/ Return(c)

Spec == Init /\ [][Next]_streamVars
=============================================================================
