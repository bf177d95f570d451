----------------------------- MODULE MCLogFormat -----------------------------
(* LogFormat for TLC: every format of up to two items, with the arguments on *)
(* both sides of each boundary of their encoding; and formats with %i, for   *)
(* the run about it.                                                         *)
EXTENDS LogFormat

Item(conv, size) == [conv |-> conv, size |-> size]
UpToTwo(S) == UNION {[1 .. n -> S] : n \in 0 .. 2}

Numbers(convs) == {Item(c, s) : c \in convs, s \in {"none", "l", "ll", "hh", "h"}}
Plain == {Item(c, "none") : c \in {"text", "wide", "at", "percent", "s", "p", "k", "c"}}
\* The last one leaves the host with nothing where it looks for a specifier.
AllFormats ==
  UpToTwo(Plain \cup Numbers({"d", "i", "u", "o", "x"}))
  \cup {<<Item("wide", "none"), Item("wide", "none"), Item("d", "none")>>}

\* ASCII; two bytes that are one character, and their halves; bytes that %p%c
\* would read as a number and half of a surrogate pair.
Strings == {<< >>, <<97, 98>>, <<195, 169>>, <<195>>, <<169>>, <<97, 128, 176, 3>>}

Typed(type, sizes, values) ==
  {[type |-> type, size |-> n, value |-> v] : n \in sizes, v \in values}
AllArgs ==
  Typed("signed", {1, 2, 4, 8}, {-65, -1, 63, 64})
  \cup Typed("signed", {4}, {-8193, 8191, 8192})
  \cup Typed("unsigned", {1, 2, 4, 8}, {0, 127, 128})
  \cup Typed("unsigned", {4}, {16383, 16384})
  \cup Typed("string", {4}, Strings)
  \cup Typed("pointer", {4}, {4096}) \cup Typed("volatile pointer", {4}, {4096})
  \cup Typed("interned", {4}, {300})

FormatsWithI == UpToTwo({Item("text", "none"), Item("i", "none")})
FewArgs == Typed("signed", {1, 4}, {-1, 1})
=============================================================================
