# A TLA+ model of Postform

Postform is a deferred-formatting logger for microcontrollers. A `LOG_*` macro
sends the address of its format string and its arguments as raw bytes; a host
program finds the string in the ELF file and prints the log. This directory
models the parts of it that keep state, checks them with TLC on small instances
and proves the invariants that matter most with TLAPS.

Paths below are relative to the repository. `PROJECT.json` lists the components,
the runs, the theorems, the hazards and, for every definition that stands for
code, the lines it was translated from.

## 1. The system

```
 contexts (threads, interrupt handlers)
   | LOG_x(&logger, fmt, args..)           validator at compile time   [LogFormat]
   v
 Logger::log/vlog -> getWriter, leb128     one writer at a time        [SerialLogger, Leb128]
   |                        \
   v SerialWriter (rcobs)    v FileWriter (records)                    [Rcobs] [FileLog]
 transport: UART, Rtt        file --> postform_persist                 [FileLog]
   | ring in target memory                                             [RttTransport]
   v  read by a debug probe
 postform_rtt / postform_serial                                        [RttSession, HostPrograms]
   v
 SerialDecoder -> Decoder::decode -> format_string                     [SerialDecoder, ElfMetadata, LogFormat]

 LOG call .. ring .. decoder, with resets of the target                [EndToEnd]
 cargo xtask: builds, tests, blesses, starts postform_rtt              [Xtask]
```

| Component | State | Operations | Hard behaviour |
| --- | --- | --- | --- |
| `Rtt::Transport`, `Channel` (`rtt/transport.cpp`, `rtt/rtt.h`) | ring, `write`, `read`, `flags` in target memory; `m_write_ptr` | `write`, `commit` | no lock: the probe reads and writes the same words at any moment; the wait loop; wrap-around; uninitialised ring |
| `postform_rtt` (`main.rs`, `lib.rs`) | its place in `main`, the ELF file it read, the Ctrl-C flag; the mode it leaves on the target | read the ELF file, open the probe, download, configure, attach, run, poll, restore | the ELF file rebuilt between two reads; order of mode and start; errors half-way; exit while the target waits; attaching to a target that overwrites the ring or resets |
| `Logger`, `SerialLogger`, `SerialWriter` (`logger.h`, `serial_logger.h`) | `m_level`, `m_taken`; per call `m_marker`, `m_state` | `log`, `setLevel`, `getWriter`, `write`, `commit`, `release` | preemption between any two steps; dropped calls; marker counting at 255 |
| `FileLogger`, `FileWriter` (`file_logger.cpp/.h`) | `m_taken`, the descriptor and its position; `m_data` per call | open, `getWriter`, `write`, `commit`, `release`, close | two writes per record; crash between them; reopening over an old file; short writes |
| `postform_persist` | position in the file | cut a record, decode it | truncated files |
| `SerialDecoder`, `Decoder` (`postform_decoder/src/lib.rs`) | `rcobs_msg_buffer` | `feed_and_do`, `decode` | resynchronising after lost bytes; input that is well-formed but not a message |
| `format_validator.h`, `args.h`, `Decoder::format_string` | none beyond a call | validate, encode, format | the two ends are written twice, in two languages |
| `ElfMetadata`, `LOG_*` macros, `postform.ld` | the strings and level ranges of a firmware; its version | link, check the version, look up a string, look up a level | an empty level's labels equal its neighbours'; addresses come from the wire; two build systems compute the version |
| `postform_serial` | none but the decoder's | read the ELF file, open and poll the port | started and stopped in the middle of a frame |
| `xtask`, `CMakeLists.txt`, `build.rs` | build directories, `logs.txt`, `expected_log.txt`, the versions cargo and CMake found | build, build_firmware, bless, test, lint, clean, run_example_app | steps that fail with files half-way; edits and commits in between; stale build directories |
| demo application and its HAL | none that steps relate | | |

How they interact: contexts share a logger through `m_taken` only; the logger
calls the transport byte by byte; target and host share four words of the
channel and the ring; the host's poll loop calls the decoder with what it read;
Ctrl-C sets a flag that the loop reads; xtask runs the other programs one after
the other and shares files with them. What makes each part correct:

* transport: no byte lost, doubled or reordered unless the mode allows it; a
  blocked write returns; only written memory is read;
* session: nothing lost from the first log to Ctrl-C; Ctrl-C ends it; a write
  that waits gets room; the target is not left waiting; the strings are those of
  the firmware that runs;
* end to end: whoever downloads prints every log; whoever attaches prints
  nothing but intact logs, in order and without a gap, from the second frame
  after the blocking mode has settled;
* logger: one writer; one whole frame per accepted message; a call dropped only
  when it overlaps another; the writer given back;
* file: reading it gives the complete messages of the last run first, and only a
  torn last record or an empty file ends the reader with a panic;
* decoder: an intact message is logged whatever came before it, at the level
  and with the string of its macro; a loss costs a
  bounded number of messages; bad input is an error, not a panic;
* formats: what the validator lets through is printed;
* tasks: what is blessed, compared or shown is the whole output of one build of
  sources that were there while the task ran.

## 2. The modules

| Module | Models | Checked in | Proofs |
| --- | --- | --- | --- |
| `ByteChannel` | abstract: a bounded, loss-free byte channel | `rtt_blocking` | `RttProofs` |
| `RttTransport` | one up-channel, target side and probe | `rtt_ring`, `rtt_blocking` | `RttProofs` |
| `RttSession` (extends `RttTransport`) | `postform_rtt`'s `main` around it, from the download on | `rtt_session`, `rtt_session_exit` | `RttProofs` |
| `EndToEnd` (extends `RttSession`, `Rcobs`) | framed logs through the ring to the decoder, resets | `end_to_end` | `RttProofs` |
| `Rcobs` | framing, as operators | `serial_logger`, `decoder_resync`, `end_to_end` | `RcobsProofs` |
| `LogStream` | abstract: what a logger promises its callers | `serial_logger`, `file_log` | `SerialLoggerProofs`, `FileLogProofs` |
| `SerialLogger` (extends `Rcobs`) | `Logger` with `SerialLogger`/`SerialWriter` | `serial_logger` | `SerialLoggerProofs` |
| `ElfMetadata` | where the linker puts strings, how the host finds them, as operators | `decoder_resync`, `decoder_panic` | `SerialDecoderProofs` |
| `SerialDecoder` (extends `Rcobs`, `ElfMetadata`) | lossy link, `feed_and_do`, outcome of `decode`, host restarts | `decoder_resync`, `decoder_panic` | `SerialDecoderProofs` |
| `FileLog` (extends `Leb128`) | `FileLogger`, the file, `postform_persist` | `file_log` | `FileLogProofs` |
| `Leb128`, `LogFormat` | arguments from the macro to the printed text | `format_printed`, `format_percent_i` | `LogFormatProofs` |
| `HostPrograms` | `main` of the host programs until logs are read; `from_elf_file`; versions | `xtask` | `XtaskProofs` |
| `Xtask` (extends `HostPrograms`) | the tasks of `cargo xtask` | `xtask` | `XtaskProofs` |
| `Recursion` (extends `Leb128`) | no code: induction and recursive functions, for the proofs; the first use of it, the bytes of a LEB128 number | | itself |

State and actions, and what in the code they are:

* **RttTransport.** `flags`, `buffer`, `write`, `read` are the `Channel`;
  `writePtr` is `m_write_ptr`; `pc` and `value` say where `write(value)` is. One
  action touches shared memory once: `WriteByte` (load of the flags),
  `CheckFull` (one evaluation of the loop condition), `Publish` (the commit in
  the loop), `Store`, `Commit`. The probe is external: `Poll` reads the cursors,
  `Copy` one byte, `Ack` writes `read` back, `Abandon` is a failing access,
  `SetMode` is `configure_rtt_mode`. `sent`, `received`, `overrun` and `trimmed`
  are history.
* **RttSession.** `phase` is the statement `main` is at; `Download` ends with the
  core halted at `main()`, `RunCore` starts it, `DisableDebug` clears C_DEBUGEN
  or spawns the GDB thread, which `GdbHaltsOrResumes` the core between two reads
  (it shares the session's mutex with the loop). `CtrlC` may come at any time,
  `Fail` is any `?`, `Reattach` starts the program again with `--attach` on the
  target as it was left.
* **EndToEnd.** `LogMessage` takes the writer and frames the message, `WriteNext`
  gives the transport one byte, `CommitMessage` is the commit at its end; the
  other actions are those of RttSession, without the GDB server. `Reset` puts
  the `Channel`, `m_write_ptr` and the logger back to what their initialisers
  say and leaves the ring and the host alone, in one step, although start-up
  code clears the variables before the constructors run. `Feed` is what the
  decoder makes of the bytes received, `Show` that it printed logged messages.
  `logged`, `joined`, `boot` and `mark` are history. `mark` is set when the
  blocking mode has taken effect (`Settled`): the flag alone is not enough, as
  a byte let through earlier may still be on its way, the published cursor may
  be behind the ring, and after a reset the ring may hold bytes from before it
  where the host's stale `read` says that there is data.
* **SerialLogger.** One action per access to shared state: the level (`Log`), the
  clock (`Stamp`), `m_taken.exchange` (`Take`, `Drop`), each byte given to the
  transport (`CloseFullRun`, `WriteByte`, `WriteMarker`, `Terminate`), its
  commit (`Flush`), `m_taken.store` (`Release`). The transport is the stream of
  bytes it got, cut at the zeros.
* **SerialDecoder.** `Send` puts a frame on the link, `Lose` takes its next byte
  away, `FeedByte` and `FeedEnd` are the two branches of `feed_and_do`. `LogEnd`
  is what `decode` does with a message: which part of it becomes a log, an error
  or a panic; `LogOf` is the log. `Restart` ends the host program and starts
  another one on the same link, `postform_serial` after an error of the port or
  a panic.
* **ElfMetadata.** A firmware is the strings of each input section; `Start`,
  `End` and `Linked` are the labels and addresses that `postform.ld` makes of
  them, `GetLogSection` and `WithFormat` the way back.
* **FileLog.** Calls as in SerialLogger, but the message is gathered in the
  writer, so that `WriteSize` and `WriteData` are the only steps on the file.
  Each may write less than it was given. `Crash` stops the process anywhere;
  `Open` starts another logger at offset 0 of the same file. `PersistRead` is
  the loop of `postform_persist`.
* **HostPrograms.** One action per read of a file or answer of a probe or port,
  from `Start` to the session, so that the ELF file may change between any two
  of the four times `postform_rtt` opens it. `FromElfFile` gives the outcome of
  `from_elf_file`, `LibVersion` and `HostVersion` are what CMake and `build.rs`
  get from git, `Cargo` runs `build.rs` again only when the package changed.
* **Xtask.** A task is the list of its steps (`BuildFirmware`, `RunTests`,
  `BlessCxxTests`, ...), each step an action, and `StepFails` ends it anywhere
  with a directory gone or a text torn. `Edit`, `EditDecoder`, `Commit` and
  `StartByHand` are the developer. A text is the list of program runs it shows,
  so that `Over` (a logger that does not truncate) leaves a trace. One task and
  one host program run at a time; the copy of the compile commands is not
  followed.
* **LogFormat.** A behaviour is one call that compiles (`Compiles`: the
  validator and an overload of `make_arg` take it), encoded by
  the type of its arguments (`ArgBytes`), and then the host's loop: `Split`,
  `Text`, `Handle`, `NoHandler`, `Finish`. Characters count because the host
  confuses them with bytes.

## 3. The runs

| Run | Question | Bounds |
| --- | --- | --- |
| `rtt_ring` | Is the ring sound under every interleaving, mode change and aborted read? | ring of 3, host buffer 2, 2 byte values, 6 bytes |
| `rtt_blocking` | Is a blocking channel a loss-free FIFO, does every write return and every published byte arrive? | ring of 4, host buffer 2, 6 bytes |
| `rtt_session` | Is a downloaded session lossless, does Ctrl-C end it, does a waiting write return on any ring, is the mode restored? | ring of 3, host buffer 2, 4 bytes, any number of sessions |
| `rtt_session_exit` | *Violation*: is the target freed on exit? | the same |
| `end_to_end` | Are logs printed whole, in order and without a gap: from the first after a download, from the second frame after the blocking mode of a host that attached has settled (`Settled`), also when the target resets? | ring of 3, host buffer 2, 3 messages that alternate, full run at 3, 1 reset, any number of sessions |
| `serial_logger` | One writer, whole frames that decode to their messages, drops only on overlap, the writer given back? | 3 contexts, 3 calls, 2 payloads, full run at 3; `RoundTrip`: every message of up to 6 bytes out of 3 values |
| `decoder_resync` | Does the decoder recover from losses and restarts at any place, and soon, and find level and string? | 4 messages, 3 lost bytes or restarts, 5 strings at 3 levels |
| `decoder_panic` | *Violation*: can input take the host down? | 2 messages, 2 lost bytes, markers as in the code |
| `file_log` | What can be read after crashes, short writes, reopening, and when does the reader panic? Is the file a log stream, in each of its runs, until a write comes up short? | 2 threads, 2 calls per run, 2 runs |
| `format_printed` | Is what compiles printed? | formats of up to 2 items out of all conversions and sizes, numbers at the boundaries of their encoding, strings that are ASCII, wide, cut within a character or too long for one |
| `format_percent_i` | *Violation*: does every accepted conversion print? | formats with `%i` |
| `xtask` | Do tasks that fail anywhere, among edits and commits, bless, compare and show only whole output of current sources? Does `postform_rtt` know the firmware it started? | 1 profile, core m3, 1 edit, 2 commits, 3 ELF files from elsewhere |

Why the bounds are enough: the ring goes round at least once and is full and
empty at every cursor position, the host buffer is smaller than the ring so that
a poll may take only part of it; a third context can come between the two that
compete for the writer; a full run of two bytes puts zeros, full runs and ends
of message in all orders, and nothing in the encoder depends on 255 but the
comparison; with three lost bytes all but one of the frames can be hit, also
neighbours, and the losses may merge frames; one level has no strings, so that
ranges meet; a second run of the file may be shorter, as long or
longer than the first. In `end_to_end` a frame fills the ring, so that each
message laps what is left of the one before; two kinds of messages take turns
(`Alternating`), so that a lost or doubled log shows in what is printed; three
of them leave one whole frame after the reset or the first attach. One edit and
two commits make every file of a task either current or stale; the first
sources log more than the later ones, which leaves a tail behind in `logs.txt`.
`Apart` keeps programs started by hand away from the files of the tests, which
they do not read. `MaxSent`, `MaxCalls`, `MaxMessages`, `MaxLoss`, `MaxResets`,
`MaxRuns`, `MaxArgs`, `MaxEdits`, `MaxCommits` bound the histories and nothing
else; the proofs do not depend on them being small.

Runs that say `CHECK_DEADLOCK FALSE` stop where the system may: the session has
ended, the process has died or used up its calls, the format is printed. The
others never stop (a commit is always possible).

**Fairness.** `FairBlockingSpec` and `FairSession`: a core that runs keeps
executing the call it is in, and the host's loop keeps polling (`main.rs`
221-239 has no other wait in it). `WaitingWriteReturns` says no more than that
either: the wait ends, the program ends, or the core is halted. Nothing is assumed of new log calls, Ctrl-C,
probe errors or restarts. `FairSpec` of SerialLogger: a context in a call keeps
running. An interrupt handler returns, and a thread is scheduled again; the code
relies on it, as it never waits for the writer. A core that GDB has halted owes
nothing, and GDB need not resume it: no property depends on it, and
`TargetIsFreedOnExit` only speaks of a core that runs.

## 4. What is proved

TLAPS proves the theorems below for every value of the constants that meets the
named assumptions next to their declarations: sizes and bounds are naturals,
`Uninit` is not a byte, markers go above 1, what is logged are messages, formats
and arguments as the code can have them, a firmware from elsewhere is an ELF
file (`ForeignAssumption`), the cores include the m3 of the example and have
no name of another directory (`CoreAssumption`). The largest ones are
`CallAssumption` (`SerialDecoder`: a call has the arguments that its format
string announces, which the validator enforces, and logs bytes below 128),
`ArgAssumption` (`LogFormat`: a string has no 0 inside, a number is one of its
type), `MessageAssumption` (`FileLog`: a message is shorter than 4 GiB, which is
what its size field can say) and `StringsAssumption` (`ElfMetadata`: strings are what the macros put into the
sections). TLC evaluates every assumption in the runs.

| Module | Theorems |
| --- | --- |
| `RttProofs` | `TypeCorrect`, `RingInvariant`, `FifoCorrect`, `BlockingNeverOverruns`, `HostReadsWrittenMemory`, `RingImplementsByteChannel`; `SessionIsTransport`, `SessionTypeCorrect`, `DownloadedSessionCorrect`, `NewWritesCorrect`; `EndToEndTypeCorrect`, `StreamCorrect`, `AttachedLogsCorrect`, `DownloadedLogsCorrect` |
| `RcobsProofs` | `RoundTrip` |
| `SerialLoggerProofs` | `TypeCorrect`, `OneWriterCorrect`, `OneFramePerMessageCorrect`, `SendsEncodingCorrect`, `FramesDecodeCorrect`, `IsLogStream` |
| `SerialDecoderProofs` | `StringsAreFound`, `CallIsDecoded`, `TypeCorrect`, `IntactMessageCorrect`, `LossBoundCorrect` |
| `FileLogProofs` | `TypeCorrect`, `OneWriterCorrect`, `RunIsReadFirstCorrect`, `WholeFileIsReadCorrect`, `IsLogStream` |
| `LogFormatProofs` | `NumbersAreReadBack`, `TypeCorrect`, `PrintsCorrect` |
| `XtaskProofs` | `XtaskInvariant`, `TypeCorrect`, `CleanRepairsCorrect`, `ExampleCorrect`, `BlessedIsWholeCorrect`, `TestPassedCorrect`, `SessionKnowsCorrect` |
| `Recursion` | `StrongInduction`, `Induction`, `RecursiveFunction`, `MeasuredFunction` |

*The ring.* `FifoIntact` (sent = received, then what is in the ring) is not
inductive: nothing in it says what the host copied so far, or that the cursors
it works with are still in order. `RingInv` adds that, by distances from `read`
going round (`CursorsOrdered`: host cursor, published cursor the host saw,
published cursor, written cursor), the place of every byte by its index
(`BytesInPlace`, which also covers the bytes in the host's hands), `RoomToStore`
(a byte that has waited keeps its room until it is stored, as only the host
moves `read` and only forwards) and `UninitAhead` (before the target has gone
round, no cursor is past the written one). `RoomToStore` is what makes
`OverrunNeedsTrim` inductive; `UninitAhead` needs no ordering after an overrun,
so that uninitialised memory is never read even then. The cases of the proof are
the actions; the arithmetic of going round is in five lemmas on `NextPtr`,
`Dist` and `SlotAt`. The FIFO follows by comparing the two sequences index by
index. For the refinement `Store` maps to `Send`, `Ack` to `Deliver`, every
other step to a stutter.

*The session.* Lossless means no overrun, hence no byte let through:
`DownloadedSessionInv` says that a core that executes in a downloaded session is
in blocking mode until the mode is restored. `DoneInv` is what is left of a
session that ended well: the mode in which writes do not wait.
`NewWritesDoNotWait` follows, as a write that has not started reads that mode.

*Recursive definitions.* `f[n \in 0 .. N] == e` is a `CHOOSE`: nothing is known
of it until a function with that equation is shown to exist. `Recursion` does it
once for a function that goes back to an earlier index (`RecursiveFunction`) and
once for one on any set with a measure that falls (`MeasuredFunction`: LEB128
numbers, byte strings), by `StrongInduction` over sets of naturals. Each module
then unfolds its functions (`WriterIs`, `DecoderIs`, `AfterIs`, ...) and works
with the equations.

*The framing.* `RoundTrip` goes along the writer: `Sent` says that what it has
sent so far is a chain of markers that stands for all but the last run of what
it was given, and that the run follows; `Closed` what the marker makes of it.
That the decoder, which reads a frame from its end, sees the same chain needs
that `Chain` and `UpTo` of a prefix do not depend on what comes after.

*The logger.* `OneWriter` is inductive together with the types. With it, an
action of a context that holds the writer finds no other one at work, and
`OneFramePerMessage` is kept step by step. `SendsEncoding` ties the steps of the
writer, byte by byte and preempted anywhere, to the function `Writer` of its
message; with `RoundTrip`, every frame decodes to the message that was accepted
with it. For `LogStream`, the clock that counts calls keeps two messages apart.

*The strings and the decoder.* The strings of a section follow each other and
the sections do, so that two strings never share an address (`Before`); that the
level is found although the labels of an empty level coincide with its
neighbour's is `StringsAreFound`. `CallIsDecoded` follows the arguments with the
ends that `EncodedAs` gives them. `IntactInv` says that the buffer and the link
are the two parts of the frame as long as nothing of it is lost. `LossIsBounded`
is not inductive, as a loss costs its messages later: `Balance` is what is still
owed - a loss pays for two messages at once, the damaged message collects one
when its 0 arrives, and if that 0 is lost too, the next message the other.

*The stream.* `StreamIsContiguous` speaks of hosts that come to a ring which was
lapped many times, where `RingInv` says almost nothing. `StreamInv` has two
parts. In every mode, the slots behind `m_write_ptr` hold the last bytes written
since the reset (`LatestInPlace`: by distance to the write cursor, so that going
round does not matter); only `Store` and `Reset` touch it. When the mark is set,
`Settled` bounds the distance from `read` by the bytes written since the reset,
and `LatestInPlace` then says that these bytes lie between the cursors
(`MarkSet`). From there on `InPlaceFrom(at, from)` is `BytesInPlace` shifted to
the mark, and `MarkKept` carries it through each action of the channel: a byte
that was let through before is excluded by `Settled`, a later one has waited.
Other sessions and failures are steps of the channel too (`SessionStep`); a
reset or a change of mode takes the mark away. The equation of sequences follows
index by index as for the FIFO.

*The logs at the end.* `FlowInv` says that the bytes written since the reset,
with the byte in `write` and those still to come of the message at hand, are
whole frames, one for each of the last logged messages. What a host received is
a piece of that by `StreamInv`, and a decoder that starts anywhere in a stream
of frames gives the frames of the stream from the second one on (`Joins`,
`PieceFed`). For a downloaded session the piece begins at 0 (`FirstInv`), and so
do the frames.

*The file.* `FileIsLaidOut`: the file begins with the records of the complete
messages of the run (`Laid`, by the position where each ends) and the descriptor
stands behind them, or 4 bytes further when the size of a record is written and
its message is not. Writing changes nothing before the descriptor, so the
records stay; reading them goes back from the last by `ReadFrom`'s equation,
whatever follows them. `WholeFileIsRead` follows the equation one step further:
at the end of the file nothing is left to read, or four bytes of a record that
is not there (`TornIsPanic`).

*The formats.* `NumbersAreReadBack` is by induction on the size of the number.
`PrintInv` says that between two steps of `format_string` there is a k such that
the items before it are printed, the format left is that of the items after it
and the buffer left is the encoding of the arguments that these take. `Text`
moves k over a run of text (`RunExists`), a handler by one: only one entry of
the table can match (`HandlerIs`), one does (`HandlerExists`), and it reads
exactly the bytes of the argument (`ArgRead`), which `ArgOfIs` finds with the
validator's count of conversions. Both parts of `PrintInv` fail in a
`KnownGap`, for the reasons in section 5.

*The tasks.* A step relies on what an earlier one did: `make` on the versions
that `cmake` found, `run` on a fresh `logs.txt`, `write` and `diff` on the
logs printed. `Sound` says of a plan that what each step relies on comes before
it, and is proved of every task (`TasksAreSound`), with `run_in_docker` around
it or not. `TaskInv` says that while a task goes on, what is left of its plan
is ordered and what a step relies on (`Relies`) is there or still ahead;
`Kept` is what a step may change of what is there already. `VersionInv`: where
git can describe the tree and no commit came since `target/` was empty, each
version that was built in is the commit. `FilesInv`: a program whose ELF file
was left alone has read the same one every time. `WaitInv`: while the example
task waits for `postform_rtt`, no step writes the file it reads.

Only model-checked: liveness (`WriteReturns`, `PublishedIsDelivered`,
`CtrlCEndsSession`, `WaitingWriteReturns`, `WriterReleased`), as TLAPS does
nothing with fairness or ENABLED. Every other property of a passing run is
proved. For a FileLogger the refinement of `LogStream` is stated of the steps
(`ImplementsLogStream`), as opening a file starts another stream and a short
write ends it.

## 5. Disagreements between code and documentation

* `rtt_session_exit`: `lib.rs:70` says of the non-blocking mode "The target does
  not block when the buffer is full". `write` reads the mode once, before its
  wait loop (`transport.cpp:22`). If the host sets the mode and exits while a
  write waits, no one moves `read` any more and the loop does not end.
  `NewWritesDoNotWait` shows that it is only that one write.
* `decoder_panic`: `lib.rs:328` says `decode` "may return an error" for an
  invalid buffer. It slices with an address from the buffer (`lib.rs:203`) and
  skips the terminator of a string that may not be there (`lib.rs:274`): two
  lost bytes can leave a well-formed frame that panics the host.
* `format_percent_i`: `logger.h:236` promises "printf-like formatting", the
  validator accepts `%i` (`format_validator.h:60`), the decoder has no such
  specifier and drops the log.

`KnownGap` in `LogFormat` lists the other calls that compile and are not printed
as `printf` would: a format is cut at its first `@`; a multi-byte character
before a conversion makes the host miss it (and panic if nothing follows);
negative arguments of `%x`, `%o`, `%c` are read as unsigned LEB128; `%p` with a
character pointer is sent as a string; a `%s` string that is not UTF-8 is an
error (`lib.rs:272`) that says the argument is missing, and the log is lost. They break `PrintsLikePrintf` as well.

## 6. Assumptions, and what is left out

* The target logs through one `SerialLogger` per channel, and not before its
  static objects are built; the transport has one user at a time because of
  `OneWriter`.
* Plain stores to the ring are visible to the probe before the store of `write`
  that follows them in another call. One core: `m_taken` is relaxed, so a
  multicore target would need more (`main.rs:224`, "Support multicore").
* The target may reset under an attached host in `EndToEnd` only. There
  `NoUninitRead` does not hold: the host writes a stale `read` back, and the
  ring between it and `write` may be memory no one has written. The properties
  of `EndToEnd` say what is printed nevertheless. `rtt_ring` and
  `HostReadsWrittenMemory` are about a target that does not reset.
* A timestamp of SerialLogger is one symbol, timestamps and addresses of
  SerialDecoder fit one LEB128 byte, those of FileLog are as long as they are; wide numbers are in `Leb128`, whose TLC integers stop at 31 bits.
* Contexts may get the writer in another order than they read the clock
  (`Stamp` and `Take` are two steps); the code promises nothing about it, and no
  property does.
* Messages are shorter than 2^32. Of `str::from_utf8` and `char::from_u32`
  (external) `LogFormat` has which bytes and numbers they take (`IsUtf8`,
  `IsChar`); `SerialDecoder`, whose calls log ASCII, has not. LEB128 numbers of
  more than 64 bits, which only garbled bytes can be, are not errors.
* What the properties leave out, as nothing holds there: what is read of a file
  after a short write, or of older records behind those of the last run
  (`RunIsReadFirst`, `WholeFileIsRead`); what a host prints between attaching and
  the mode settling, when the published cursor may be stale
  (`StreamIsContiguous`, `AttachedLogsAreIntact`); the strings of a session whose
  ELF file was rebuilt since `postform_rtt` started (`SessionKnowsItsFirmware`).
* A task's step is atomic up to its failure: sources are not edited while `make`
  runs. A git tag is there from the start or never (`described`).
* Not modelled: moving a `SerialWriter` or `FileWriter` (no code of the library
  does; the tests do), what a GDB client does to memory, a channel number the target
  does not have, down channels (nothing uses them), printing, the demo
  application and the HAL. `PROJECT.json` gives the reason for each.

## 7. Plan

Done:

1. `RttTransport` with `ByteChannel`; `RttSession`. Types, the ring invariant,
   the refinement and the lossless session proved.
2. `Rcobs`, `SerialLogger` with `LogStream`. One writer, one frame proved.
3. `SerialDecoder` with `ElfMetadata`: resynchronisation.
4. `FileLog`: crashes, short writes and reopening.
5. `LogFormat` with `Leb128`.
6. `EndToEnd`: overruns, late attaches and resets, seen as the logs that are
   printed. The stream invariant proved.
7. `HostPrograms` and `Xtask`: start-up, versions and tasks.
8. The proofs of section 4 about the framing, the decoder, the file, the
   formats, the logs that are printed at the end and the tasks.

Left, in this order:

9. `SerialWriter` moves in `SerialLogger`: a writer that is a value held by a
   context, moved and overwritten.
10. Weak memory: the relaxed `m_taken` and the plain stores to the ring, on a
    target with more than one core.
