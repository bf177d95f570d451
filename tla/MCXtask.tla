------------------------------- MODULE MCXtask -------------------------------
(* Xtask for TLC: the first sources log more than the later ones. *)
EXTENDS Xtask

\* Bound: no host program runs beside what tests leave behind, which it does not
\* look at.
Apart == Idle \/ (app["cxx"] = NotBuilt /\ logs = << >> /\ expected = <<0>>)

SomeAmount == [s \in 0 .. MaxEdits |-> MaxEdits - s]

\* A firmware without Postform, and one of another version.
SomeForeign ==
  {[source |-> 90, version |-> NoVersion, has |-> {"main"}],
   [source |-> 91, version |-> 9, has |-> Contents],
   [source |-> 92, version |-> 1, has |-> Contents \ {".postform_config"}]}
=============================================================================
