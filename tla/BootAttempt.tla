---------------------------- MODULE BootAttempt ----------------------------
(***************************************************************************)
(* run_boot_attempt and _terminate_process of scripts/boot_smoke_runner.py: *)
(* the runner polls a QEMU process and its serial log against a monotonic  *)
(* clock while the guest, on its own, writes markers and may exit at any   *)
(* moment.  Each place where the code looks at the clock, the process or   *)
(* the log is one action, so that QEMU and the clock move in between.      *)
(***************************************************************************)
EXTENDS Integers

CONSTANTS
  GuestMarkers, FirmwareMarkers,  \* what boot_smoke_markers.py looks for
  LaunchGrace, GracePoll,         \* launch grace and its polling period
  PollInterval,                   \* period of the main loop
  Timeouts,                       \* values timeout_seconds may take
  TermGrace, TermPoll, KillWait,  \* SIGTERM grace, its poll, wait after SIGKILL
  MaxLag,      \* bound: ticks the runner may be late for a step it can take
  Horizon      \* bound: the clock saturates here, beyond every deadline

ASSUME TimingAssumption ==
  /\ LaunchGrace \in Nat \ {0}
  /\ GracePoll \in Nat \ {0}
  /\ PollInterval \in Nat \ {0}
  /\ Timeouts \subseteq Nat \ {0}
  /\ TermGrace \in Nat \ {0}
  /\ TermPoll \in Nat \ {0}
  /\ KillWait \in Nat \ {0}
  /\ MaxLag \in Nat
  /\ Horizon \in Nat
  /\ LaunchGrace + MaxLag < Horizon
  /\ \A t \in Timeouts : t < Horizon

VARIABLES
  pc,         \* where the runner is
  qemu,       \* "none", "running", "dead"
  serial,     \* markers in the serial log on disk (no file: {})
  seen,       \* markers in serial_text, the runner's last reading of it
  timeout,    \* timeout_seconds
  elapsed,    \* time.monotonic() - start, saturating at Horizon
  sleepLeft,  \* what is left of the runner's sleep or wait
  termLeft,   \* what is left of _terminate_process's grace
  lag,        \* ticks since the runner could take its next step
  pending,    \* classification returned once _terminate_process is through
  result,     \* the BootAttemptResult, NoResult before
  written,    \* history: markers written by the QEMU of this attempt
  markedAt,   \* history: when its first guest marker was written
  diedAt      \* history: when it exited

runner == <<pc, seen, pending, result, sleepLeft, lag>>
world == <<qemu, serial, written, markedAt, diedAt>>
clock == <<elapsed, termLeft>>
vars == <<runner, world, clock, timeout>>

-----------------------------------------------------------------------------
Markers == GuestMarkers \cup FirmwareMarkers
Classes == {"PASS", "LAUNCH_ERROR", "TIMEOUT", "NO_MARKERS"}
Ended == {"done", "raised"}
Steps == {"prepare", "spawn", "graceCheck", "gracePoll", "mainCheck",
          "mainRead", "mainPoll", "exitRead", "lateRead", "terminate",
          "termCheck", "termPoll", "kill", "wait"}

NoResult == [class |-> "none", guest |-> {}, firmware |-> {}]
Never == Horizon + 1

(* evaluate_serial_log: a firmware marker alone is no PASS. *)
GuestOrFirmware(text) == text  \* mutant: EFI output counts
Guest(text) == text \cap GuestMarkers
Firmware(text) == text \cap FirmwareMarkers
Passed(text) == Guest(text) # {}

(* The grace window and the timeout, as time.monotonic() tells. *)
InGraceShort == elapsed + 1 < LaunchGrace  \* mutant: one tick short
InGrace == elapsed < LaunchGrace
NoDeadline == TRUE  \* mutant: polls for ever
DeadlineAPollEarly ==  \* mutant: gives up a poll early
  elapsed + PollInterval < timeout
BeforeDeadline == elapsed < timeout

TypeOK ==
  /\ pc \in Steps \cup Ended
  /\ qemu \in {"none", "running", "dead"}
  /\ serial \in SUBSET Markers
  /\ seen \in SUBSET Markers
  /\ timeout \in Timeouts
  /\ elapsed \in 0..Horizon
  /\ sleepLeft \in Nat
  /\ termLeft \in Nat
  /\ lag \in 0..MaxLag
  /\ pending \in {"PASS", "TIMEOUT"}
  /\ result \in [class : Classes \cup {"none"}, guest : SUBSET GuestMarkers,
                 firmware : SUBSET FirmwareMarkers]
  /\ written \in SUBSET Markers
  /\ markedAt \in 0..Never
  /\ diedAt \in 0..Never

Init ==
  /\ pc = "prepare"
  /\ qemu = "none"
  /\ serial \in SUBSET Markers     \* left by an earlier run of boot-smoke
  /\ seen = {}
  /\ timeout \in Timeouts
  /\ elapsed = 0
  /\ sleepLeft = 0
  /\ termLeft = 0
  /\ lag = 0
  /\ pending = "TIMEOUT"
  /\ result = NoResult
  /\ written = {}
  /\ markedAt = Never
  /\ diedAt = Never

-----------------------------------------------------------------------------
(* The runner, awake at "from", goes to "to" and sleeps for "duration". *)
StepAndSleep(from, to, duration) ==
  /\ pc = from
  /\ sleepLeft = 0
  /\ pc' = to
  /\ sleepLeft' = duration
  /\ lag' = 0

Step(from, to) == StepAndSleep(from, to, 0)

(* "return BootAttemptResult(...)" of this classification and markers. *)
Return(from, class, guest, firmware) ==
  /\ Step(from, "done")
  /\ result' = [class |-> class, guest |-> guest, firmware |-> firmware]

(* The previous log is removed, so that only this QEMU's output is read. *)
PrepareKeepsLog ==  \* mutant: the old log stays
  /\ Step("prepare", "spawn")
  /\ UNCHANGED <<seen, timeout, clock, pending, result, world>>

Prepare ==
  /\ Step("prepare", "spawn")
  /\ serial' = {}
  /\ UNCHANGED <<qemu, seen, timeout, clock, pending, result, written, markedAt,
                 diedAt>>

(* subprocess.Popen; its failure is one of the exceptions of Raise. *)
Spawn ==
  /\ Step("spawn", "graceCheck")
  /\ qemu' = "running"
  /\ UNCHANGED <<serial, seen, timeout, clock, pending, result, written, markedAt,
                 diedAt>>

GraceCheck ==
  /\ \/ InGrace /\ Step("graceCheck", "gracePoll")
     \/ ~InGrace /\ Step("graceCheck", "mainCheck")
  /\ UNCHANGED <<seen, pending, result, world, clock, timeout>>

(* QEMU is polled in the grace window; the serial log is not looked at. *)
GracePollStep ==
  /\ \/ /\ qemu = "dead"
        /\ Return("gracePoll", "LAUNCH_ERROR", {}, {})
     \/ /\ qemu = "running"
        /\ StepAndSleep("gracePoll", "graceCheck", GracePoll)
        /\ UNCHANGED result
  /\ UNCHANGED <<seen, pending, world, clock, timeout>>

MainCheck ==
  /\ \/ BeforeDeadline /\ Step("mainCheck", "mainRead")
     \/ ~BeforeDeadline /\ Step("mainCheck", "lateRead")
  /\ UNCHANGED <<seen, pending, result, world, clock, timeout>>

MainRead ==
  /\ seen' = serial
  /\ \/ Passed(serial) /\ Step("mainRead", "terminate") /\ pending' = "PASS"
     \/ ~Passed(serial) /\ Step("mainRead", "mainPoll") /\ UNCHANGED pending
  /\ UNCHANGED <<result, world, clock, timeout>>

MainPoll ==
  /\ \/ qemu = "dead" /\ Step("mainPoll", "exitRead")
     \/ qemu = "running" /\ StepAndSleep("mainPoll", "mainCheck", PollInterval)
  /\ UNCHANGED <<seen, pending, result, world, clock, timeout>>

(* QEMU exited between two polls: its log is read once more.  The code would *)
(* still say LAUNCH_ERROR for a lifetime within the launch grace.            *)
ExitWith(text) ==
  /\ seen' = text
  /\ \/ Passed(text) /\ Return("exitRead", "PASS", Guest(text), Firmware(text))
     \/ /\ ~Passed(text)
        /\ Return("exitRead", IF InGrace THEN "LAUNCH_ERROR" ELSE "NO_MARKERS",
                  {}, Firmware(text))
  /\ UNCHANGED <<pending, world, clock, timeout>>

ExitReadStale == ExitWith(seen)  \* mutant: the text read before the exit
ExitRead == ExitWith(serial)

(* Past the deadline: the log is read before QEMU is terminated. *)
LateRead ==
  /\ Step("lateRead", "terminate")
  /\ seen' = serial
  /\ pending' = "TIMEOUT"
  /\ UNCHANGED <<result, world, clock, timeout>>

-----------------------------------------------------------------------------
(* _terminate_process, and the return of its caller. *)
ReturnPending(from) == Return(from, pending, Guest(seen), Firmware(seen))

Terminate ==
  /\ \/ qemu = "dead" /\ ReturnPending("terminate") /\ UNCHANGED termLeft
     \/ /\ qemu = "running"
        /\ Step("terminate", "termCheck")
        /\ termLeft' = TermGrace
        /\ UNCHANGED result
  /\ UNCHANGED <<seen, pending, world, elapsed, timeout>>

TermCheckGivesUp ==  \* mutant: no SIGKILL after the grace
  /\ \/ termLeft > 0 /\ Step("termCheck", "termPoll") /\ UNCHANGED result
     \/ termLeft = 0 /\ ReturnPending("termCheck")
  /\ UNCHANGED <<seen, pending, world, clock, timeout>>

TermCheck ==
  /\ \/ termLeft > 0 /\ Step("termCheck", "termPoll")
     \/ termLeft = 0 /\ Step("termCheck", "kill")
  /\ UNCHANGED <<seen, pending, result, world, clock, timeout>>

TermPollStep ==
  /\ \/ qemu = "dead" /\ ReturnPending("termPoll")
     \/ /\ qemu = "running"
        /\ StepAndSleep("termPoll", "termCheck", TermPoll)
        /\ UNCHANGED result
  /\ UNCHANGED <<seen, pending, world, clock, timeout>>

(* process.kill(), then process.wait(timeout=5) begins. *)
Kill ==
  /\ StepAndSleep("kill", "wait", KillWait)
  /\ UNCHANGED <<seen, pending, result, world, clock, timeout>>

WaitReturns ==
  /\ pc = "wait"
  /\ qemu = "dead"
  /\ pc' = "done"
  /\ result' = [class |-> pending, guest |-> Guest(seen),
                firmware |-> Firmware(seen)]
  /\ sleepLeft' = 0
  /\ lag' = 0
  /\ UNCHANGED <<seen, pending, world, clock, timeout>>

WaitExpiresReturns ==  \* mutant: TimeoutExpired swallowed
  /\ qemu = "running"
  /\ ReturnPending("wait")
  /\ UNCHANGED <<seen, pending, world, clock, timeout>>

(* TimeoutExpired: not even SIGKILL made QEMU exit in time. *)
WaitExpires ==
  /\ qemu = "running"
  /\ Step("wait", "raised")
  /\ UNCHANGED <<seen, pending, result, world, clock, timeout>>

(* Ctrl-C, a signal, a failing Popen or file access: nothing in the function *)
(* catches it, and nothing terminates QEMU.                                  *)
Raise ==
  /\ pc \in Steps
  /\ pc' = "raised"
  /\ sleepLeft' = 0
  /\ lag' = 0
  /\ UNCHANGED <<seen, pending, result, world, clock, timeout>>

-----------------------------------------------------------------------------
(* External: QEMU writes its guest's serial console to the log, and exits,   *)
(* whatever the runner does.                                                 *)
GuestWrites(m) ==
  /\ qemu = "running"
  /\ m \notin written
  /\ serial' = serial \cup {m}
  /\ written' = written \cup {m}
  /\ markedAt' = IF m \in GuestMarkers /\ ~Passed(written) THEN elapsed
                                                           ELSE markedAt
  /\ UNCHANGED <<runner, qemu, diedAt, clock, timeout>>

QemuExits ==
  /\ qemu = "running"
  /\ qemu' = "dead"
  /\ diedAt' = elapsed
  /\ UNCHANGED <<runner, serial, written, markedAt, clock, timeout>>

(* External: the monotonic clock.  A runner that could go on is at most MaxLag *)
(* ticks late.                                                                 *)
Countdown(n) == IF n = 0 THEN 0 ELSE n - 1

Tick ==
  /\ pc \in Steps \ {"prepare"}
  /\ \/ sleepLeft > 0 /\ UNCHANGED lag
     \/ sleepLeft = 0 /\ lag < MaxLag /\ lag' = lag + 1
  /\ elapsed' = IF elapsed = Horizon THEN Horizon ELSE elapsed + 1
  /\ sleepLeft' = Countdown(sleepLeft)
  /\ termLeft' = Countdown(termLeft)
  /\ UNCHANGED <<pc, seen, pending, result, world, timeout>>

-----------------------------------------------------------------------------
RunnerStep ==
  \/ Prepare \/ Spawn
  \/ GraceCheck \/ GracePollStep
  \/ MainCheck \/ MainRead \/ MainPoll \/ ExitRead
  \/ LateRead
  \/ Terminate \/ TermCheck \/ TermPollStep \/ Kill \/ WaitReturns \/ WaitExpires

Next ==
  \/ RunnerStep
  \/ Raise
  \/ \E m \in Markers : GuestWrites(m)
  \/ QemuExits
  \/ Tick

(* The operating system schedules the runner and its clock advances; nothing *)
(* is assumed of QEMU or of the guest.                                       *)
Spec == Init /\ [][Next]_vars /\ WF_vars(RunnerStep) /\ WF_vars(Tick)

-----------------------------------------------------------------------------
(* PASS is returned only when the guest of this attempt wrote a guest-level  *)
(* marker: neither a log left by an earlier run nor firmware output alone    *)
(* makes one (boot_smoke_runner.py:78 and boot_smoke_markers.py:20).         *)
PassMeansThisGuestBooted ==
  result.class = "PASS" => written \cap GuestMarkers # {}

(* Whatever run_boot_attempt returns, the QEMU it started has exited: the    *)
(* next attempt never shares the disk or the log with a previous one.        *)
ReturnReapsQemu ==
  pc = "done" => qemu = "dead"

(* NO_MARKERS, which is not retried, is never said of a guest that wrote a   *)
(* marker, even one written between the last reading and QEMU's exit.        *)
NoMarkerLostOnExit ==
  result.class = "NO_MARKERS" => ~Passed(written)

(* The verdict that is retried goes exactly to a QEMU that exited early: a   *)
(* LAUNCH_ERROR exited in the launch grace (late by at most one lag), and a  *)
(* QEMU that exited a poll before the end of the grace gets no other.        *)
LaunchErrorMeansEarlyExit ==
  /\ result.class = "LAUNCH_ERROR" => diedAt < LaunchGrace + MaxLag
  /\ pc = "done" /\ diedAt + GracePoll + MaxLag < LaunchGrace
       => result.class = "LAUNCH_ERROR"

(* A marker written a poll interval before the deadline is always seen, when *)
(* the timeout leaves the main loop a chance to run.                         *)
TimelyMarkerPasses ==
  /\ timeout >= LaunchGrace + GracePoll + 3 * MaxLag
  /\ markedAt + PollInterval + 2 * MaxLag < timeout
  => result.class # "TIMEOUT"

(* The error boot_smoke.py:213 prints for this classification says that no   *)
(* guest marker was observed.                                                *)
TimeoutWithoutMarkers ==
  result.class = "TIMEOUT" => result.guest = {}

(* Every attempt ends, whatever QEMU does: also when the guest is silent,    *)
(* and when QEMU ignores both signals.                                       *)
AttemptEnds == <>(pc \in Ended)

-----------------------------------------------------------------------------
(* run_boot_attempt keeps the contract boot_smoke.py relies on. *)
Contract ==
  INSTANCE AttemptContract WITH
    launched <- qemu # "none",
    alive <- qemu = "running",
    booted <- Passed(written),
    verdict <- IF pc = "raised" THEN "raised" ELSE result.class

KeepsContract == Contract!ContractSpec
=============================================================================
