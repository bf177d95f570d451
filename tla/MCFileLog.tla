------------------------------ MODULE MCFileLog ------------------------------
(* FileLog for TLC: two threads, short messages. *)
EXTENDS FileLog, TLC

CONSTANTS t1, t2

\* An empty message body, and one that a stale size could be read from.
SmallPayloads == {<< >>, <<1, 0>>}

Threads == Permutations(Context)
=============================================================================
