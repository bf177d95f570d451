----------------------------- MODULE RttSession -----------------------------
(***************************************************************************)
(* A session of postform_rtt (postform_rtt/src/main.rs) on an RTT channel: *)
(* download the firmware or attach to a running target, set the channel to *)
(* blocking, poll it until Ctrl-C, set it back to non-blocking.  The       *)
(* target runs all the while and may be anywhere in a call.  With          *)
(* --gdb-server a thread of the program halts and resumes the core.        *)
(***************************************************************************)
EXTENDS RttTransport

VARIABLES
  phase,    \* where main() is
  attach,   \* opts.attach: do not download, the target is already running
  gdb,      \* opts.gdb_server
  running,  \* the core executes: it is halted at main() after a download
  stop      \* ~is_app_running: Ctrl-C was pressed

session     == <<phase, attach, gdb, running, stop>>
sessionVars == <<flags, buffer, write, read, writePtr, pc, value,
                 hpc, hWrite, hRead, batch, sent, received, overrun, trimmed,
                 phase, attach, gdb, running, stop>>

Phase == {"download", "configure", "attach", "run", "debug", "read",
          "check", "restore", "done", "failed"}
Exited == phase \in {"done", "failed"}

\* The channel is as Channel's initialisers leave it.  What an earlier
\* firmware did before the download does not matter.
SessionInit ==
  /\ Init /\ flags = NO_BLOCK_TRIM
  /\ attach \in BOOLEAN /\ gdb \in BOOLEAN
  /\ running = attach
  /\ phase = IF attach THEN "configure" ELSE "download"
  /\ stop = FALSE

Goto(next) == phase' = next
-----------------------------------------------------------------------------
\* The target, while its core runs.
TargetCall ==
  /\ running
  /\ (\E b \in Byte : WriteByte(b)) \/ Commit
  /\ UNCHANGED session

TargetProgress ==
  /\ running
  /\ CheckFull \/ Publish \/ Store
  /\ UNCHANGED session

\* Mutant: the core is not halted at main().
DownloadRunning ==
  /\ phase = "download"
  /\ running' = TRUE
  /\ Goto("configure")
  /\ UNCHANGED <<vars, attach, gdb, stop>>

\* download_firmware: flash, reset, run to the breakpoint at main().
Download ==
  /\ phase = "download"
  /\ Goto("configure")
  /\ UNCHANGED <<vars, attach, gdb, running, stop>>

\* configure_rtt_mode(.., Blocking)
Configure ==
  /\ phase = "configure"
  /\ SetMode(BLOCK_IF_FULL)
  /\ Goto("attach")
  /\ UNCHANGED <<attach, gdb, running, stop>>

\* attach_rtt
Attach ==
  /\ phase = "attach"
  /\ Goto(IF attach THEN "debug" ELSE "run")
  /\ UNCHANGED <<vars, attach, gdb, running, stop>>

\* run_core
RunCore ==
  /\ phase = "run"
  /\ running' = TRUE
  /\ Goto("debug")
  /\ UNCHANGED <<vars, attach, gdb, stop>>

\* disable_cdebugen, which clears the halt request too, or else the GDB thread
\* is spawned.
DisableDebug ==
  /\ phase = "debug"
  /\ running' = (running \/ ~gdb)
  /\ Goto("read")
  /\ UNCHANGED <<vars, attach, gdb, stop>>

\* probe_rs_gdb_server::run halts or resumes the core; it shares the session's
\* mutex with the loop, so never within a read(), and it ends with main().
GdbHaltsOrResumes ==
  /\ gdb /\ phase \in {"read", "check", "restore"} /\ hpc = "idle"
  /\ running' = ~running
  /\ UNCHANGED <<vars, phase, attach, gdb, stop>>

\* One log_channel.read() of the loop, which may find nothing.
ReadNothing ==
  /\ phase = "read" /\ hpc = "idle"
  /\ write = read
  /\ Goto("check")
  /\ UNCHANGED <<vars, attach, gdb, running, stop>>

ReadBytes ==
  /\ phase = "read"
  /\ Poll \/ Copy
  /\ UNCHANGED session

ReadReturns ==
  /\ phase = "read"
  /\ Ack
  /\ Goto("check")
  /\ UNCHANGED <<attach, gdb, running, stop>>

\* Mutant: the loop only ends by itself.
CheckStopIgnored ==
  /\ phase = "check"
  /\ Goto("read")
  /\ UNCHANGED <<vars, attach, gdb, running, stop>>

\* if !is_app_running { break; }
CheckStop ==
  /\ phase = "check"
  /\ Goto(IF stop THEN "restore" ELSE "read")
  /\ UNCHANGED <<vars, attach, gdb, running, stop>>

\* Mutant: main returns without it.
RestoreNothing ==
  /\ phase = "restore"
  /\ Goto("done")
  /\ UNCHANGED <<vars, attach, gdb, running, stop>>

\* configure_rtt_mode(.., NonBlocking), the last statement of main.
Restore ==
  /\ phase = "restore"
  /\ SetMode(NO_BLOCK_TRIM)
  /\ Goto("done")
  /\ UNCHANGED <<attach, gdb, running, stop>>

\* The handler installed by ctrlc::set_handler.
CtrlC ==
  /\ ~Exited
  /\ stop' = TRUE
  /\ UNCHANGED <<vars, phase, attach, gdb, running>>

\* A call to the probe fails: `?` leaves main at once, and so does the unwrap
\* of a mutex that a panic of the GDB thread poisoned.
Fail ==
  /\ ~Exited /\ phase # "check"
  /\ IF hpc = "copy" THEN Abandon ELSE UNCHANGED vars
  /\ Goto("failed")
  /\ UNCHANGED <<attach, gdb, running, stop>>

\* The program is started again, with --attach, on the target as it was left.
Reattach ==
  /\ Exited
  /\ Goto("configure")
  /\ attach' = TRUE /\ gdb' \in BOOLEAN /\ stop' = FALSE
  /\ UNCHANGED <<vars, running>>
-----------------------------------------------------------------------------
HostMain ==
  \/ Download
  \/ Configure
  \/ Attach
  \/ RunCore
  \/ DisableDebug
  \/ ReadNothing
  \/ ReadBytes
  \/ ReadReturns
  \/ CheckStop
  \/ Restore

SessionNext ==
  \/ TargetCall
  \/ TargetProgress
  \/ HostMain
  \/ GdbHaltsOrResumes
  \/ CtrlC
  \/ Fail
  \/ Reattach

SessionSpec == SessionInit /\ [][SessionNext]_sessionVars

\* The program runs on and a running core executes; Ctrl-C, failures, new
\* log calls and a new start may or may not come.
FairSession ==
  SessionSpec /\ WF_sessionVars(TargetProgress) /\ WF_sessionVars(HostMain)
-----------------------------------------------------------------------------
(* Type invariant. *)
SessionTypeOK ==
  /\ TypeOK
  /\ phase \in Phase
  /\ attach \in BOOLEAN /\ gdb \in BOOLEAN
  /\ running \in BOOLEAN /\ stop \in BOOLEAN

(* A session that downloads the firmware gets every byte from the first one
   on, until it hands the target back: the mode is set before the core may
   run, and no other order of the steps of main() would do (main.rs 181-194). *)
DownloadedSessionIsLossless ==
  ~attach /\ phase # "done" => sent = received \o Pending

\* Why: an executing core of a downloaded session is in blocking mode.
DownloadedSessionInv ==
  ~attach /\ phase # "done" =>
    /\ ~trimmed
    /\ running \/ phase \in {"attach", "run", "debug", "read", "check",
                             "restore"}
         => flags = BLOCK_IF_FULL

(* The program always ends after Ctrl-C, even while the target keeps the
   channel full (main.rs 218-241). *)
CtrlCEndsSession == stop ~> Exited

(* A write() that waits for room gets it while a host is there, on whatever
   ring that host has found: also when the target had gone round it, and the
   published cursor says that it is empty (transport.cpp 22-27, main.rs 218-232). *)
WaitingWriteReturns ==
  pc \in {"wait", "publish"} ~> (pc \notin {"wait", "publish"} \/ Exited \/ ~running)

(* Once the session has ended well, no new write() waits for a reader that is
   not there any more (main.rs 241). *)
NewWritesDoNotWait ==
  [][phase = "done" /\ pc = "idle" => pc' # "wait"]_sessionVars

(* "The target does not block when the buffer is full" (RttMode::NonBlocking,
   postform_rtt/src/lib.rs 70-71): after the mode is restored the target does
   not stay in the wait loop, if its core runs. *)
TargetIsFreedOnExit ==
  phase = "done" /\ running ~> (phase # "done" \/ pc \notin {"wait", "publish"})
=============================================================================
