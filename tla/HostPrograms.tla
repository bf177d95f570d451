---------------------------- MODULE HostPrograms ----------------------------
(***************************************************************************)
(* How the host programs come up: the version that is compiled into them   *)
(* (postform_decoder/build.rs) and into a firmware (libpostform's          *)
(* CMakeLists.txt), ElfMetadata::from_elf_file, and main() of postform_rtt *)
(* and postform_serial until logs are read.                                *)
(*                                                                         *)
(* postform_rtt opens the ELF file four times, for the metadata, for       *)
(* _SEGGER_RTT, to flash it and for main; someone else may rebuild it in   *)
(* between.                                                                *)
(***************************************************************************)
EXTENDS Naturals

CONSTANTS
  NoVersion,   \* POSTFORM_COMMIT_ID where `git describe` prints nothing
  PkgVersion,  \* CARGO_PKG_VERSION of postform_decoder
  NotBuilt,    \* what there is before a build
  Profile,     \* cargo's profiles: "debug", "release"
  Foreign      \* ELF files from elsewhere

ASSUME VersionsAssumption ==
  /\ NoVersion \notin Nat /\ PkgVersion \notin Nat /\ NotBuilt \notin Nat
  /\ "debug" \in Profile
  /\ NoVersion # PkgVersion /\ NotBuilt \notin {NoVersion, PkgVersion}

VARIABLES
  described,   \* git describe works here: git, the history and a tag are there
  commit,      \* the commit it describes
  script,      \* POSTFORM_VERSION by cargo profile, when build.rs was last run
  app,         \* the ELF file in each build directory
  at,          \* where main() of the host program is
  opts,        \* its options and the version compiled into it, while it runs
  metadata,    \* the ELF file its ElfMetadata was made from
  firmware,    \* the ELF file it put into the target's flash
  symbols,     \* the ELF file it took the address of _SEGGER_RTT from
  rewritten    \* history: its ELF file was built anew since it started

files       == <<metadata, firmware, symbols>>
programVars == <<at, opts, files, rewritten>>

Sections == {".postform_version", ".interned_strings", ".postform_config"}
Contents == Sections \cup {"_SEGGER_RTT", "main"}
Elf      == [source : Nat, version : Nat \cup {NoVersion}, has : SUBSET Contents]

ASSUME ForeignAssumption == Foreign \subseteq Elf

\* libpostform's CMakeLists.txt asks git describe and takes what it printed;
\* build.rs falls back on the version of the package.
LibVersion  == IF described THEN commit ELSE NoVersion
HostVersion == IF described THEN commit ELSE PkgVersion

\* cargo runs build.rs if it has not yet, or if the package has changed; a
\* commit is no change.
Cargo(profile) ==
  script' = [script EXCEPT ![profile] = IF @ = NotBuilt THEN HostVersion ELSE @]
-----------------------------------------------------------------------------
\* Mutant: -d taken for what asks for the check.
FromElfFileInverted(file, disable, host) ==
  IF file = NotBuilt THEN "IoError"
  ELSE IF file.has \cap Sections # Sections THEN "Missing"
  ELSE IF disable /\ file.version # host THEN "Mismatched"
  ELSE "Ok"

\* from_elf_file: the first thing it does not like.
FromElfFile(file, disable, host) ==
  IF file = NotBuilt THEN "IoError"
  ELSE IF ".postform_version" \notin file.has THEN "Missing"
  ELSE IF ~disable /\ file.version # host THEN "Mismatched"
  ELSE IF file.has \cap Sections # Sections THEN "Missing"
  ELSE "Ok"

\* open_probe(index), or NotBuilt for no index, with this many probes.
ProbeIsChosen(index, probes) ==
  probes > 0 /\ (IF index = NotBuilt THEN probes = 1 ELSE index < probes)

\* What opens under the path on the command line, now.
File == IF opts.path = NotBuilt THEN app["m3"] ELSE opts.path
-----------------------------------------------------------------------------
Idle == at \in {"done", "failed", "mismatch"}
NoOpts == [program |-> "none", path |-> NotBuilt, attach |-> FALSE,
           disable |-> FALSE, host |-> NotBuilt]

ProgramInit ==
  /\ at = "done" /\ opts = NoOpts /\ rewritten = FALSE
  /\ metadata = NotBuilt /\ firmware = NotBuilt /\ symbols = NotBuilt

Goto(place) == at' = place /\ UNCHANGED <<opts, rewritten>>

\* main() returns.
Exit(how) ==
  /\ at' = how /\ opts' = NoOpts /\ rewritten' = FALSE
  /\ metadata' = NotBuilt /\ firmware' = NotBuilt /\ symbols' = NotBuilt

\* main() of `program`, started with these options.
Start(program, profile, path, attach, disable) ==
  /\ Idle
  /\ script[profile] # NotBuilt
  /\ opts' = [program |-> program, path |-> path, attach |-> attach,
              disable |-> disable, host |-> script[profile]]
  /\ at' = "metadata"
  /\ UNCHANGED <<files, rewritten>>

\* An option that only asks for the probes, chips, ports or the version.
OnlyAsked ==
  /\ at = "metadata"
  /\ Exit("done")

\* let elf_metadata = ElfMetadata::from_elf_file(..)?
ReadMetadata ==
  /\ at = "metadata"
  /\ LET result == FromElfFile(File, opts.disable, opts.host)
     IN  CASE result = "Ok" ->
                metadata' = File /\ Goto("open") /\ UNCHANGED <<firmware, symbols>>
           [] result = "Mismatched" -> Exit("mismatch")
           [] OTHER -> Exit("failed")

\* open_probe and attach to the chip, or Probe::open of a selected one.
OpenProbe ==
  /\ at = "open" /\ opts.program = "rtt"
  /\ \E probes \in 0 .. 2, index \in {NotBuilt, 0, 1, 2} :
       IF ProbeIsChosen(index, probes) THEN Goto("symbols") /\ UNCHANGED files
       ELSE Exit("failed")

\* postform_serial opens its port and is ready.
OpenPort ==
  /\ at = "open" /\ opts.program = "serial"
  /\ Goto("session")
  /\ UNCHANGED files

\* fs::read(elf_name), _SEGGER_RTT.
ReadSymbols ==
  /\ at = "symbols"
  /\ IF File # NotBuilt /\ "_SEGGER_RTT" \in File.has
       THEN /\ symbols' = File
            /\ Goto(IF opts.attach THEN "session" ELSE "flash")
            /\ UNCHANGED <<metadata, firmware>>
       ELSE Exit("failed")

\* download_file
Flash ==
  /\ at = "flash"
  /\ IF File = NotBuilt THEN Exit("failed")
     ELSE firmware' = File /\ Goto("break") /\ UNCHANGED <<metadata, symbols>>

\* The breakpoint at main, where the file says it is: in another firmware the
\* core may not come by.
RunToMain ==
  /\ at = "break"
  /\ \/ File # NotBuilt /\ "main" \in File.has /\ Goto("session") /\ UNCHANGED files
     \/ ~(File = firmware /\ "main" \in File.has) /\ Exit("failed")

\* Ctrl-C ends a session.
End ==
  /\ at = "session"
  /\ Exit("done")

\* The probe, the port or a file: `?`.
Fail ==
  /\ ~Idle
  /\ Exit("failed")

ProgramStep ==
  \/ OnlyAsked
  \/ ReadMetadata
  \/ OpenProbe
  \/ OpenPort
  \/ ReadSymbols
  \/ Flash
  \/ RunToMain
  \/ End
  \/ Fail
=============================================================================
