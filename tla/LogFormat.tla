------------------------------ MODULE LogFormat ------------------------------
(***************************************************************************)
(* The two ends of a format string: the compile-time validator of the LOG  *)
(* macros (libpostform/inc/postform/format_validator.h), the encoding of   *)
(* the arguments it accepts (args.h, Logger::vlog) and the host that puts  *)
(* them into the string (Decoder::format_string, postform_decoder).        *)
(*                                                                         *)
(* A behaviour is one call of a LOG macro that compiles, decoded by the    *)
(* host.  A format is a sequence of items: plain text, a character of two  *)
(* bytes, "@", "%%" and conversions [size, conv].                          *)
(***************************************************************************)
EXTENDS Leb128, FiniteSets

CONSTANTS
  LongSize,   \* sizeof(long), on the target
  Format,     \* the formats
  Arg,        \* the arguments: records of a type, a size in bytes, a value
  MaxArgs     \* bound: arguments of a call

\* The items of a format.  Only the conversions of integers have a size.
Items ==
  [size : {"none"}, conv : {"text", "wide", "at", "percent", "s", "p", "k", "c"}]
  \cup [size : {"none", "l", "ll", "hh", "h"}, conv : {"d", "i", "u", "o", "x"}]

\* A string ends at its first 0.
Value(type) ==
  CASE type = "string" -> Seq(1 .. 255)
    [] type = "signed" -> Int
    [] type \in {"unsigned", "pointer", "volatile pointer", "interned"} -> Nat

\* What is left of a number without its lowest n bytes.
Above(number, n) ==
  CASE n = 1 -> number \div 256
    [] n = 2 -> number \div 65536
    [] n = 4 -> (number \div 65536) \div 65536
    [] n = 8 -> (((number \div 65536) \div 65536) \div 65536) \div 65536

\* A number is one of its type.
FitsSize(arg) ==
  /\ arg.size \in {1, 2, 4, 8}
  /\ IF arg.type = "signed" THEN Above(2 * arg.value, arg.size) \in {-1, 0}
                            ELSE Above(arg.value, arg.size) = 0

ASSUME FormatAssumption == Format \subseteq Seq(Items)
ASSUME ArgAssumption == \A arg \in Arg :
  /\ arg.type \in {"string", "signed", "unsigned", "pointer", "volatile pointer", "interned"}
  /\ arg.value \in Value(arg.type)
  /\ arg.type # "string" => FitsSize(arg)
ASSUME LongSizeAssumption == LongSize \in {4, 8}
ASSUME MaxArgsAssumption  == MaxArgs \in Nat

VARIABLES
  items, args,   \* the call: LOG_..(logger, items, args)
  format,        \* what is left of the format string, its characters
  buffer,        \* what is left of the encoded arguments
  out,           \* what format_string has pushed so far
  status         \* where it is

call == <<items, args>>
vars == <<items, args, format, buffer, out, status>>

Conversion(item) == item.conv \notin {"text", "wide", "at", "percent"}
Sizes == [none |-> 4, l |-> LongSize, ll |-> 8, hh |-> 1, h |-> 2]
-----------------------------------------------------------------------------
(* Target *)

\* The handler of a conversion, in formatValidatorSingleArgument: does it take
\* an argument of this type?
Matches(item, arg) ==
  LET sized == arg.size = Sizes[item.size] IN
  CASE item.conv = "s" -> arg.type = "string"
    [] item.conv \in {"d", "i"} -> arg.type = "signed" /\ sized
    [] item.conv = "u" -> arg.type = "unsigned" /\ sized
    [] item.conv \in {"o", "x"} -> arg.type \in {"signed", "unsigned"} /\ sized
    [] item.conv = "p" -> arg.type \in {"string", "pointer", "volatile pointer"}
    [] item.conv = "k" -> arg.type = "interned"
    [] item.conv = "c" -> arg.type \in {"signed", "unsigned"} /\ arg.size = 1

\* How many of the first n items are conversions.
Conversions(fmt, n) == Cardinality({i \in 1 .. n : Conversion(fmt[i])})

\* formatValidator: the conversions take the arguments, one by one and all.
Validated(fmt, arguments) ==
  /\ Len(arguments) = Conversions(fmt, Len(fmt))
  /\ \A i \in DOMAIN fmt :
       Conversion(fmt[i]) => Matches(fmt[i], arguments[Conversions(fmt, i)])

\* make_arg chooses the encoding by the type of the argument, not by the
\* conversion.  It has no overload for a pointer to volatile.
ArgumentType(arg) ==
  CASE arg.type = "signed" -> "SIGNED_INTEGER"
    [] arg.type = "unsigned" -> "UNSIGNED_INTEGER"
    [] arg.type = "string" -> "STRING_POINTER"
    [] arg.type = "pointer" -> "VOID_PTR"
    [] arg.type = "interned" -> "INTERNED_STRING"
    [] OTHER -> "none"

Compiles(fmt, arguments) ==
  /\ Validated(fmt, arguments)
  /\ \A i \in DOMAIN arguments : ArgumentType(arguments[i]) # "none"

\* What vlog writes.
ArgBytes(arg) ==
  CASE ArgumentType(arg) = "STRING_POINTER" -> Append(arg.value, 0)
    [] ArgumentType(arg) = "SIGNED_INTEGER" -> SignedBytes(arg.value)
    [] OTHER -> UnsignedBytes(arg.value)

\* What follows the first n of some parts.
After(parts, n) ==
  LET after[k \in 0 .. Len(parts)] ==
        IF k = Len(parts) THEN << >> ELSE parts[k + 1] \o after[k + 1]
  IN  after[n]

\* The characters of an item.
Chars(item) ==
  CASE item.conv = "text" -> <<"a">>
    [] item.conv = "wide" -> <<"wide">>
    [] item.conv = "at" -> <<"@">>
    [] item.conv = "percent" -> <<"%", "%">>
    [] OTHER -> <<"%">> \o (CASE item.size = "none" -> << >>
                              [] item.size \in {"l", "h"} -> <<item.size>>
                              [] item.size = "ll" -> <<"l", "l">>
                              [] item.size = "hh" -> <<"h", "h">>) \o <<item.conv>>

FormatOf(fmt)       == After([i \in DOMAIN fmt |-> Chars(fmt[i])], 0)
BufferOf(arguments) == After([i \in DOMAIN arguments |-> ArgBytes(arguments[i])], 0)

\* A call that compiles.  The host has the string and the bytes.
Init ==
  /\ items \in Format
  /\ args \in UNION {[1 .. n -> Arg] : n \in 0 .. MaxArgs}
  /\ Compiles(items, args)
  /\ format = FormatOf(items)
  /\ buffer = BufferOf(args)
  /\ out = << >>
  /\ status = "split"
-----------------------------------------------------------------------------
(* Host *)

\* Where the character is, counted from 1, or 0.
Find(char, chars) ==
  LET found == {i \in DOMAIN chars : chars[i] = char}
  IN  IF found = {} THEN 0 ELSE CHOOSE i \in found : \A j \in found : i <= j

Bytes(chars) == Len(chars) + Cardinality({i \in DOMAIN chars : chars[i] = "wide"})

Push(chars) == out' = out \o [i \in DOMAIN chars |-> <<"char", chars[i]>>]
Drop(n, seq) == SubSeq(seq, n + 1, Len(seq))

\* decode_format_string: file "@" line "@" format, whose third part is used.
Split ==
  /\ status = "split"
  /\ format' = IF Find("@", format) = 0 THEN format
               ELSE SubSeq(format, 1, Find("@", format) - 1)
  /\ status' = "text"
  /\ UNCHANGED <<call, buffer, out>>

\* format_string, the text up to a "%": `find` gives a byte position, `take`
\* and `skip` count characters.
Text ==
  /\ status = "text" /\ Find("%", format) # 0
  /\ LET pos  == Bytes(SubSeq(format, 1, Find("%", format) - 1))
         take == IF pos < Len(format) THEN pos ELSE Len(format)
     IN  Push(SubSeq(format, 1, take)) /\ format' = Drop(take, format)
  /\ status' = "spec"
  /\ UNCHANGED <<call, buffer>>

\* No "%" is left.
Finish ==
  /\ status = "text" /\ Find("%", format) = 0
  /\ Push(format)
  /\ format' = << >>
  /\ status' = "done"
  /\ UNCHANGED <<call, buffer>>

\* FORMAT_SPEC_TABLE.  No entry is the beginning of another.
FORMAT_SPEC_TABLE ==
  {[chars |-> <<"%">> \o size \o <<conv>>, conv |-> conv] :
     size \in {<< >>, <<"l">>, <<"l", "l">>, <<"h">>, <<"h", "h">>},
     conv \in {"d", "u", "o", "x"}}
  \cup {[chars |-> <<"%", conv>>, conv |-> conv] : conv \in {"s", "p", "k", "c", "%"}}

StartsWith(chars) ==
  Len(chars) <= Len(format) /\ SubSeq(format, 1, Len(chars)) = chars

\* How many bytes a character has that starts with byte b; 0 if none does.
Width(b) ==
  CASE b < 128 -> 1
    [] b \in 194 .. 223 -> 2
    [] b \in 224 .. 239 -> 3
    [] b \in 240 .. 244 -> 4
    [] OTHER -> 0

\* A character starts at i, in its shortest form and one that Unicode has.
CharacterAt(bytes, i) ==
  /\ Width(bytes[i]) # 0
  /\ i + Width(bytes[i]) - 1 <= Len(bytes)
  /\ \A j \in i + 1 .. i + Width(bytes[i]) - 1 : bytes[j] \in 128 .. 191
  /\ bytes[i] = 224 => bytes[i + 1] >= 160
  /\ bytes[i] = 237 => bytes[i + 1] <= 159
  /\ bytes[i] = 240 => bytes[i + 1] >= 144
  /\ bytes[i] = 244 => bytes[i + 1] <= 143

\* str::from_utf8 takes the bytes: each is the start of a character or in one.
IsUtf8(bytes) ==
  \A i \in DOMAIN bytes :
    \E j \in 1 .. i : CharacterAt(bytes, j) /\ i < j + Width(bytes[j])

\* `as u32`.
Cut32(number) == 65536 * ((number \div 65536) % 65536) + (number % 65536)

\* char::from_u32 takes the number: not half of a pair.
IsChar(number) == Cut32(number) <= 1114111 /\ Cut32(number) \notin 55296 .. 57343

\* A string ends before the first 0, or with the buffer.
CString ==
  SubSeq(buffer, 1, IF Find(0, buffer) = 0 THEN Len(buffer) ELSE Find(0, buffer) - 1)

\* What the handler of conv reads: how many bytes, what it pushes.
Reads(conv) ==
  CASE conv = "%" -> [length |-> 0, value |-> "%"]
    [] conv = "s" -> [length |-> Find(0, buffer), value |-> CString]
    [] conv = "d" -> [length |-> NumberLength(buffer), value |-> SignedValue(buffer)]
    [] OTHER -> [length |-> NumberLength(buffer), value |-> UnsignedValue(buffer)]

\* A number has to end, and for %c be a character.
NumberOutcome(conv) ==
  IF NumberLength(buffer) # 0 /\ (conv = "c" => IsChar(UnsignedValue(buffer)))
  THEN "text" ELSE "error"

\* How the handler ends: bytes that are no text are an error; a string without a
\* 0 panics where the buffer is cut behind it.
Outcome(conv) ==
  CASE conv = "%" -> "text"
    [] conv = "s" -> IF ~IsUtf8(CString) THEN "error"
                     ELSE IF Find(0, buffer) = 0 THEN "panic" ELSE "text"
    [] OTHER -> NumberOutcome(conv)

Handle(spec) ==
  /\ status = "spec"
  /\ StartsWith(spec.chars)
  /\ status' = Outcome(spec.conv)
  /\ IF status' = "text"
       THEN /\ out' = Append(out, <<IF spec.conv = "%" THEN "char" ELSE spec.conv,
                                    Reads(spec.conv).value>>)
            /\ buffer' = Drop(Reads(spec.conv).length, buffer)
            /\ format' = Drop(Len(spec.chars), format)
       ELSE UNCHANGED <<format, buffer, out>>
  /\ UNCHANGED call

\* No entry: an error that names the next character, if there is one.
NoHandler ==
  /\ status = "spec"
  /\ \A spec \in FORMAT_SPEC_TABLE : ~StartsWith(spec.chars)
  /\ status' = IF format = << >> THEN "panic" ELSE "error"
  /\ UNCHANGED <<call, format, buffer, out>>

Next ==
  \/ Split
  \/ Text
  \/ Finish
  \/ \E spec \in FORMAT_SPEC_TABLE : Handle(spec)
  \/ NoHandler

Spec == Init /\ [][Next]_vars
-----------------------------------------------------------------------------
(* Type invariant.  No character is printed twice. *)
Character == {"a", "wide", "@", "%", "l", "h", "d", "i", "u", "o", "x", "s", "p", "k", "c"}
Output ==
  ({"char"} \X Character) \cup ({"s"} \X Seq(0 .. 255))
  \cup ({"d", "u", "o", "x", "p", "k", "c"} \X Int)
TypeOK ==
  /\ status \in {"split", "text", "spec", "done", "error", "panic"}
  /\ format \in Seq(Character) /\ buffer \in Seq(0 .. 255)
  /\ out \in Seq(Output)
  /\ Len(out) + Len(format) <= Len(FormatOf(items))

\* What printf would print for the call.  %o, %x and %c show the bits of a
\* negative argument.
Shown(item, arg) ==
  IF arg.type = "signed" /\ item.conv \in {"o", "x", "c"} /\ arg.value < 0
    THEN arg.value + 256 ^ arg.size
    ELSE arg.value

ArgOf(i) == args[Conversions(items, i)]
Printed ==
  [i \in DOMAIN items |->
     LET item == items[i] IN
     CASE item.conv = "percent" -> <<"char", "%">>
       [] Conversion(item) ->
            <<IF item.conv = "i" THEN "d" ELSE item.conv, Shown(item, ArgOf(i))>>
       [] OTHER -> <<"char", Chars(item)[1]>>]

\* The calls the host gets wrong: no table entry for %i; the format cut at an
\* "@"; a byte position taken for a count of characters; signed numbers read as
\* unsigned ones; a string where %p reads a number; a string that is not UTF-8.
SignLost == \E i \in DOMAIN items :
  /\ items[i].conv \in {"o", "x", "c"}
  /\ ArgOf(i).type = "signed" /\ ArgOf(i).value < 0
StringPrintedAsPointer == \E i \in DOMAIN items :
  items[i].conv = "p" /\ ArgOf(i).type = "string"
NotUtf8 == \E i \in DOMAIN items :
  items[i].conv = "s" /\ ~IsUtf8(ArgOf(i).value)
KnownGap ==
  \/ \E i \in DOMAIN items : items[i].conv \in {"i", "at", "wide"}
  \/ SignLost
  \/ StringPrintedAsPointer
  \/ NotUtf8

(* What compiles is printed: for every other format and arguments that the
   validator accepts, the host finds each argument where the target put it,
   shows its value, and is left with none (format_validator.h, args.h, vlog and
   lib.rs 265-398 agree, though no code is shared between them). *)
PrintsWhatWasLogged ==
  ~KnownGap =>
    /\ status \notin {"error", "panic"}
    /\ status = "done" => out = Printed /\ buffer = << >>

(* "printf-like formatting" (logger.h 236): the same of every call that
   compiles. *)
PrintsLikePrintf ==
  status \in {"done", "error", "panic"} => status = "done" /\ out = Printed
=============================================================================
