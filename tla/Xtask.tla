------------------------------- MODULE Xtask -------------------------------
(***************************************************************************)
(* `cargo xtask` (xtask/src/main.rs), a developer who edits and commits    *)
(* while it runs, and a host program started by hand.                      *)
(*                                                                         *)
(* A task is a list of steps; each `.unwrap()` or `?` ends it at the first *)
(* one that fails, with what it has done so far left where it is.  A text  *)
(* is the sequence of program runs whose logs it shows, a run named by the *)
(* sources it was built from.                                              *)
(***************************************************************************)
EXTENDS HostPrograms, Sequences

CONSTANTS
  Core,        \* the cores that a firmware is built for: "m3", "m0"
  Amount,      \* Amount[s]: how much the test application of sources s logs
  Torn,        \* in a text: what can be made of half a file
  MaxEdits,    \* bound: edits of the C++ sources
  MaxCommits   \* bound: commits

ASSUME CoreAssumption ==
  "m3" \in Core /\ Core \cap {"cxx", "fw", "root", "target"} = {}
ASSUME AmountAssumption == Amount \in [0 .. MaxEdits -> Nat]
ASSUME BoundsAssumption == MaxEdits \in Nat /\ MaxCommits \in Nat \ {0}

VARIABLES
  edits,       \* the edits so far: which C++ sources the tree holds
  logs,        \* cxx_build/logs.txt, as a text
  expected,    \* expected_log.txt
  text,        \* the local variable of run_system_tests and bless_cxx_tests
  task, steps, \* the task that runs, what it still has to do
  configured,  \* the version that its cmake found
  outcome,     \* how it ended
  begin,       \* history: edits when it began
  cleaned      \* history: no commit since target/ was last empty

taskVars == <<task, steps, outcome, begin, text, configured>>
tree     == <<described, commit, edits>>
texts    == <<logs, expected>>
build    == <<script, app, texts, cleaned>>
vars     == <<tree, build, taskVars, programVars>>

Dir   == {"cxx"} \cup Core
What  == {"rm", "cmake", "make", "cargo", "check", "run", "persist", "diff",
          "write", "rtt", "wait"}
Where == Dir \cup Profile \cup {"fw", "root", "target"}

Do(what, where) == [do |-> what, in |-> where]

\* build_cxx_tests
BuildCxxTests ==
  <<Do("rm", "cxx"), Do("cmake", "cxx"), Do("make", "cxx")>>

When(condition, list) == IF condition THEN list ELSE << >>

\* Mutant: cmake is only run in a directory that is new.
BuildFirmwareAsIs(core, force, withCompdb, dryRun) ==
  When(force, <<Do("rm", core), Do("cmake", core)>>)
  \o When(withCompdb, <<Do("check", core)>>) \o When(~dryRun, <<Do("make", core)>>)

\* build_firmware
BuildFirmware(core, force, withCompdb, dryRun) ==
  When(force, <<Do("rm", core)>>) \o <<Do("cmake", core)>>
  \o When(withCompdb, <<Do("check", core)>>) \o When(~dryRun, <<Do("make", core)>>)

Persist == <<Do("run", "cxx"), Do("persist", "cxx")>>

\* Mutant: what is built last is left from the time before.
RunExampleAppDry ==
  BuildFirmware("m3", FALSE, FALSE, TRUE) \o <<Do("cargo", "debug"), Do("rtt", "m3")>>

\* run_example_app
RunExampleApp ==
  BuildFirmware("m3", FALSE, FALSE, FALSE) \o <<Do("cargo", "debug"), Do("rtt", "m3")>>

\* clean
Clean == <<Do("rm", "fw"), Do("rm", "cxx"), Do("rm", "target")>>

\* bless_cxx_tests
BlessCxxTests == BuildCxxTests \o Persist \o <<Do("write", "root")>>

\* run_tests: the unit, the system and the Rust tests
RunTests ==
  BuildCxxTests \o <<Do("check", "cxx")>> \o Persist
  \o <<Do("diff", "root"), Do("cargo", "debug")>>

\* run_lint
RunLint ==
  <<Do("cargo", "debug")>> \o BuildFirmware("m3", FALSE, TRUE, TRUE)
  \o <<Do("check", "root")>>

Task ==
  {<<"build", <<Do("cargo", p)>> >> : p \in Profile}
  \cup {<<"build_firmware", BuildFirmware(c, f, d, n)>> :
          c \in Core, f \in BOOLEAN, d \in BOOLEAN, n \in BOOLEAN}
  \cup {<<"bless", BlessCxxTests>>, <<"test", RunTests>>, <<"lint", RunLint>>,
        <<"clean", Clean>>,
        <<"run_example_app", RunExampleApp>>}

\* run_in_docker: the same task, behind id and docker.
InDocker(t) == <<t[1], <<Do("check", "root")>> \o t[2]>>
-----------------------------------------------------------------------------
Init ==
  /\ described \in BOOLEAN /\ commit = 1 /\ edits = 0
  /\ script = [p \in Profile |-> NotBuilt]
  /\ configured = NotBuilt /\ app = [d \in Dir |-> NotBuilt]
  /\ logs = << >> /\ expected = <<0>> /\ text = << >>
  /\ ProgramInit
  /\ task = "none" /\ steps = << >> /\ outcome = "passed" /\ begin = 0
  /\ cleaned = TRUE

Running == outcome = "running"

StartTask(t) ==
  /\ ~Running
  /\ task' = t[1] /\ steps' = t[2] /\ begin' = edits
  /\ outcome' = "running"
  /\ UNCHANGED <<tree, build, text, configured, programVars>>

\* The next step is to do `what` in `where`; the task goes on after it.
Doing(what, where) == Running /\ Head(steps) = Do(what, where)

Finish(how) ==
  /\ task' = "none" /\ steps' = << >> /\ outcome' = how
  /\ begin' = 0 /\ text' = << >> /\ configured' = NotBuilt

Continue == steps' = Tail(steps) /\ UNCHANGED <<task, outcome, begin>>

Advance ==
  IF Len(steps) = 1 THEN Finish("passed") ELSE Continue /\ UNCHANGED <<text, configured>>

\* The ELF files of some build directories change, maybe under a program that
\* is about to read one.
Rewrite(dirs, file) ==
  /\ app' = [d \in Dir |-> IF d \in dirs THEN file ELSE app[d]]
  /\ rewritten' = (rewritten \/ (~Idle /\ app'["m3"] # app["m3"]))
  /\ UNCHANGED <<at, opts, files>>

\* What is under a path: fw_build holds the directories of the cores.
Under(where) == IF where = "fw" THEN Core ELSE {where} \cap Dir

\* Mutant: mkdir_p alone.
RemoveNothing(where) ==
  /\ Doing("rm", where)
  /\ Advance
  /\ UNCHANGED <<tree, build, programVars>>

\* rm_rf(build_dir)
Remove(where) ==
  /\ Doing("rm", where)
  /\ Advance
  /\ Rewrite(Under(where), NotBuilt)
  /\ logs' = IF where = "cxx" THEN << >> ELSE logs
  /\ UNCHANGED <<tree, script, expected, cleaned>>

\* Mutant: it is the xtask package that gets cleaned.
CargoCleanXtask ==
  /\ Doing("rm", "target")
  /\ Advance
  /\ cleaned' = TRUE
  /\ UNCHANGED <<tree, script, app, texts, programVars>>

\* cargo clean
CargoClean ==
  /\ Doing("rm", "target")
  /\ Advance
  /\ script' = [p \in Profile |-> NotBuilt]
  /\ cleaned' = TRUE
  /\ UNCHANGED <<tree, app, texts, programVars>>

\* cmake -G Ninja: libpostform's CMakeLists.txt asks for the version.  It may
\* be the last step.
Configure(d) ==
  /\ Doing("cmake", d)
  /\ IF Len(steps) = 1 THEN Finish("passed")
     ELSE configured' = LibVersion /\ Continue /\ UNCHANGED text
  /\ UNCHANGED <<tree, build, programVars>>

\* cmake --build .
Make(d) ==
  /\ Doing("make", d)
  /\ Advance
  /\ Rewrite({d}, [source |-> edits, version |-> configured, has |-> Contents])
  /\ UNCHANGED <<tree, script, texts, cleaned>>

\* cargo build, cargo test, cargo clippy
CargoStep(p) ==
  /\ Doing("cargo", p)
  /\ Advance
  /\ Cargo(p)
  /\ UNCHANGED <<tree, app, texts, cleaned, programVars>>

\* The unit tests, run-clang-tidy and the copy of the compile commands for it,
\* docker: no later step depends on what they do.
Check(d) ==
  /\ Doing("check", d)
  /\ Advance
  /\ UNCHANGED <<tree, build, programVars>>

\* A FileLogger writes over the front of what the file holds.
Over(run, old) ==
  IF old \notin {<< >>, <<Torn>>} /\ Amount[old[1]] > Amount[run]
    THEN <<run, Torn>> ELSE <<run>>

\* postform_test logs.txt
RunTestApp ==
  /\ Doing("run", "cxx")
  /\ app["cxx"] # NotBuilt
  /\ Advance
  /\ logs' = Over(app["cxx"].source, logs)
  /\ UNCHANGED <<tree, script, app, expected, cleaned, programVars>>

\* let text = cargo run --bin=postform_persist
PersistText ==
  /\ Doing("persist", "cxx")
  /\ Cargo("debug")
  /\ LET result == FromElfFile(app["cxx"], FALSE, script'["debug"])
     IN  CASE result = "Ok"         -> text' = logs /\ Continue /\ UNCHANGED configured
           [] result = "Mismatched" -> Finish("mismatch")
           [] OTHER                 -> Finish("failed")
  /\ UNCHANGED <<tree, app, texts, cleaned, programVars>>

\* Mutant: the differences are shown, and that is all.
DiffShown ==
  /\ Doing("diff", "root")
  /\ Advance
  /\ UNCHANGED <<tree, build, programVars>>

\* diff_lines(&blessed, &text)
Diff ==
  /\ Doing("diff", "root")
  /\ IF text = expected THEN Advance ELSE Finish("failed")
  /\ UNCHANGED <<tree, build, programVars>>

\* write_file(&blessed_file, text)
WriteBlessed ==
  /\ Doing("write", "root")
  /\ Advance
  /\ expected' = text
  /\ UNCHANGED <<tree, script, app, logs, cleaned, programVars>>

\* cargo run --bin=postform_rtt: the task waits for it.
RunRtt ==
  /\ Doing("rtt", "m3")
  /\ Start("rtt", "debug", NotBuilt, FALSE, FALSE)
  /\ steps' = <<Do("wait", "m3")>>
  /\ UNCHANGED <<tree, build, task, outcome, begin, text, configured>>

RttReturns ==
  /\ Doing("wait", "m3")
  /\ Idle
  /\ Finish(IF at = "done" THEN "passed" ELSE at)
  /\ UNCHANGED <<tree, build, programVars>>

\* A step fails.  A program that was writing a file has written some of it.
StepFails ==
  /\ Running /\ ~Doing("wait", "m3")
  /\ Finish("failed")
  /\ \/ UNCHANGED <<build, programVars>>
     \/ /\ logs' = <<Torn>> /\ Doing("run", "cxx")
        /\ UNCHANGED <<script, app, expected, cleaned, programVars>>
     \/ /\ expected' = <<Torn>> /\ Doing("write", "root")
        /\ UNCHANGED <<script, app, logs, cleaned, programVars>>
     \/ \E where \in Dir \cup {"fw"} :
          /\ Doing("make", where) \/ Doing("rm", where)
          /\ Rewrite(Under(where), NotBuilt)
          /\ UNCHANGED <<script, texts, cleaned>>
  /\ UNCHANGED tree
-----------------------------------------------------------------------------
TaskStep ==
  \/ \E where \in Dir \cup {"fw"} : Remove(where)
  \/ \E d \in Dir : Configure(d) \/ Make(d)
  \/ CargoClean
  \/ \E p \in Profile : CargoStep(p)
  \/ \E d \in Dir \cup {"root"} : Check(d)
  \/ RunTestApp
  \/ PersistText
  \/ Diff
  \/ WriteBlessed
  \/ RunRtt
  \/ RttReturns
  \/ StepFails

\* Someone starts a host program by hand; there is one at a time.
StartByHand ==
  /\ ~Doing("wait", "m3")
  /\ \E program \in {"rtt", "serial"}, p \in Profile,
        path \in {NotBuilt} \cup Foreign, attach \in BOOLEAN, disable \in BOOLEAN :
       Start(program, p, path, attach, disable)
  /\ UNCHANGED <<tree, build, taskVars>>

Edit ==
  /\ edits < MaxEdits
  /\ edits' = edits + 1
  /\ UNCHANGED <<described, commit, build, taskVars, programVars>>

\* An edit of postform_decoder: cargo will run build.rs again.
EditDecoder ==
  /\ script' = [p \in Profile |-> NotBuilt]
  /\ UNCHANGED <<tree, app, texts, cleaned, taskVars, programVars>>

Commit ==
  /\ described /\ commit < MaxCommits
  /\ commit' = commit + 1
  /\ cleaned' = FALSE
  /\ UNCHANGED <<described, edits, script, app, texts, taskVars, programVars>>

Next ==
  \/ \E t \in Task : StartTask(t) \/ StartTask(InDocker(t))
  \/ TaskStep
  \/ ProgramStep /\ UNCHANGED <<tree, build, taskVars>>
  \/ StartByHand
  \/ Edit
  \/ EditDecoder
  \/ Commit

Spec == Init /\ [][Next]_vars
-----------------------------------------------------------------------------
(* Type invariant. *)
TypeOK ==
  /\ edits \in 0 .. MaxEdits /\ commit \in 1 .. MaxCommits
  /\ script \in [Profile -> Nat \cup {PkgVersion, NotBuilt}]
  /\ configured \in Nat \cup {NoVersion, NotBuilt}
  /\ app \in [Dir -> Elf \cup {NotBuilt}]
  /\ {metadata, firmware, symbols} \subseteq Elf \cup {NotBuilt}
  /\ at \in {"metadata", "open", "symbols", "flash", "break", "session",
             "done", "failed", "mismatch"}
  /\ logs \in Seq(Nat \cup {Torn}) /\ expected \in Seq(Nat \cup {Torn})
  /\ steps \in Seq([do : What, in : Where])
  /\ Running <=> steps # << >>
  /\ outcome \in {"running", "passed", "failed", "mismatch"}

(* What bless writes is the whole output of one build of sources that the tree
   held while it ran, although FileLogger does not truncate logs.txt, earlier
   tasks stopped anywhere, and the sources were edited meanwhile; nothing but
   bless writes it, and only a failing write can spoil it (main.rs 216-241). *)
BlessedIsWhole ==
  [][expected' # expected =>
       /\ task = "bless"
       /\ \/ outcome' = "passed" /\ \E s \in begin .. edits : expected' = <<s>>
          \/ outcome' = "failed" /\ expected' = <<Torn>>]_vars

(* A test that passes has compared the whole output of such a build, and it is
   the blessed one (main.rs 166-214). *)
TestPassedIsCurrent ==
  [][task = "test" /\ outcome' = "passed" => \E s \in begin .. edits : expected = <<s>>]_vars

(* The version check only stops a task where git cannot describe the tree, or
   after a commit since cargo's files were last removed: cargo does not run
   build.rs again for a commit.  The clean task repairs it. *)
CleanRepairsVersions ==
  outcome = "mismatch" => ~described \/ ~cleaned

(* run_example_app shows the logs of a firmware built since it began, with that
   firmware's strings and the program's version, whatever a dry run or an
   earlier, failed build left in fw_build/m3 (main.rs 243-249). *)
ExampleIsCurrent ==
  Doing("wait", "m3") /\ at = "session" =>
    /\ firmware = metadata /\ firmware = symbols
    /\ firmware.source \in begin .. edits
    /\ firmware.version = opts.host

(* Although it opens the ELF file four times, postform_rtt shows the logs of
   the firmware that runs: if no one built it anew between its start and its
   session (postform_rtt main.rs 150-194, lib.rs 41-66). *)
SessionKnowsItsFirmware ==
  [][at = "break" /\ at' = "session" /\ ~rewritten =>
       /\ metadata = firmware /\ symbols = firmware
       /\ opts.disable \/ firmware.version = opts.host]_vars
=============================================================================
