---------------------------- MODULE ElfMetadata ----------------------------
(***************************************************************************)
(* The interned strings: where the LOG macros and the linker script        *)
(* (libpostform/postform.ld) put them, and how the host finds a string and *)
(* its level again from an address (ElfMetadata, postform_decoder).        *)
(*                                                                         *)
(* A string is a record: `size` bytes with its terminator, of which the    *)
(* first `file` are the file name before the "@", and `args`, the kinds of *)
(* its conversions.  User strings have no "@" and no `file`.                *)
(***************************************************************************)
EXTENDS Naturals, Sequences

CONSTANT Strings   \* Strings[s]: the strings of input section s, in link order

\* The input sections of .interned_strings, in the order of the linker script;
\* all but the last are those of the log levels.
Sections == <<"debug", "info", "warning", "error", "user">>
Levels   == {"debug", "info", "warning", "error"}

\* What a LOG macro and what _intern put there.
Kinds  == {"number", "string", "interned"}
Format == {f \in [file : Nat \ {0}, size : Nat, args : Seq(Kinds)] : f.file + 3 < f.size}
User   == [size : Nat \ {0}]

ASSUME StringsAssumption ==
  /\ \A s \in Levels : Strings[s] \in Seq(Format)
  /\ Strings["user"] \in Seq(User)

\* The first bytes of the n-th string of a section whose strings these are.
Offset(strings, n) ==
  LET upTo[i \in 0 .. Len(strings)] == IF i = 0 THEN 0 ELSE upTo[i - 1] + strings[i].size
  IN  upTo[n]
Size(strings) == Offset(strings, Len(strings))

\* __Interned<Level>Start and End: the labels around the k-th input section.
End(k) ==
  LET upTo[j \in 0 .. Len(Sections)] ==
        IF j = 0 THEN 0 ELSE upTo[j - 1] + Size(Strings[Sections[j]])
  IN  upTo[k]
Start(k) == End(k - 1)

\* from_elf_file: the bytes of the section, the ranges of the levels.
StringsLen  == End(Len(Sections))
LogSections == {[level |-> Sections[k], start |-> Start(k), end |-> End(k)] :
                  k \in {k \in DOMAIN Sections : Sections[k] \in Levels}}

\* All strings with the address that the linker gives them, which is what a
\* LOG macro sends.
Linked ==
  UNION {{[section |-> Sections[k], string |-> Strings[Sections[k]][n],
           address |-> Start(k) + Offset(Strings[Sections[k]], n - 1)] :
            n \in DOMAIN Strings[Sections[k]]} : k \in DOMAIN Sections}
-----------------------------------------------------------------------------
\* Mutant: the end label taken as the last address.
GetLogSectionClosed(address) ==
  LET found == {s \in LogSections : s.start <= address /\ address <= s.end}
  IN  IF found = {} THEN "unknown"
      ELSE (CHOOSE s \in found : \A t \in found : s.start <= t.start).level

\* get_log_section: the first range with the address.
GetLogSection(address) ==
  LET found == {s \in LogSections : s.start <= address /\ address < s.end}
  IN  IF found = {} THEN "unknown" ELSE (CHOOSE s \in found : TRUE).level

\* recover_interned_string: the slice starts outside of the strings; it
\* starts at their end, where there is no terminator.
OutOfStrings(address) == address > StringsLen
Unterminated(address) == address = StringsLen

\* decode_format_string: what is left of a string from the address on still has
\* its two "@" when no more than the file name is cut off.
WithFormat(address) ==
  {l \in Linked : /\ l.section \in Levels
                  /\ address \in l.address .. l.address + l.string.file}
=============================================================================
