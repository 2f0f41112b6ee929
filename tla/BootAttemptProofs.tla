------------------------- MODULE BootAttemptProofs -------------------------
(***************************************************************************)
(* Proofs about BootAttempt for every choice of markers, timeouts, polling *)
(* periods, grace periods and lag: type correctness, the verdict's         *)
(* invariants, and that the attempt implements AttemptContract.            *)
(***************************************************************************)
EXTENDS BootAttempt, TLAPS

(* What every step keeps, from which the properties above follow.            *)
Early == {"prepare", "spawn"}
Terminating == {"terminate", "termCheck", "termPoll", "kill", "wait"}

(* Where the runner is tells what it may rely on: once the old log is gone   *)
(* the log holds what this QEMU wrote and no more; the exit is read after    *)
(* it; PASS is pending only on a marker that was read; a result is final.    *)
VerdictInv ==
  /\ pc \in Early => qemu = "none"
  /\ pc \in (Steps \ Early) \cup {"done"} => qemu # "none"
  /\ qemu = "none" => written = {}
  /\ pc \notin {"prepare", "raised"} => serial = written
  /\ seen \subseteq written
  /\ pc = "exitRead" => qemu = "dead"
  /\ pc \in Terminating /\ pending = "PASS" => Passed(seen)
  /\ pc # "done" => result = NoResult
  /\ pc = "done" =>
       /\ qemu = "dead"
       /\ result.class \in Classes
       /\ result.class = "PASS" => Passed(written)
       /\ result.class = "NO_MARKERS" => ~Passed(written)

(* The grace loop never notices an exit later than a poll and a lag, and     *)
(* ends at most that late; the main loop leaves a marker unread no longer    *)
(* than a poll and two lags.                                                 *)
GraceOverrun == LaunchGrace - 1 + GracePoll + 2 * MaxLag

TimingInv ==
  /\ qemu # "dead" => diedAt = Never
  /\ qemu = "dead" => diedAt <= elapsed
  /\ markedAt = Never \/ markedAt <= elapsed
  /\ Passed(written) \/ markedAt = Never
  /\ pc \in Early => elapsed <= lag /\ sleepLeft = 0
  /\ pc = "prepare" => lag = 0
  /\ pc \in {"gracePoll", "mainRead", "mainPoll", "exitRead"} => sleepLeft = 0
  /\ pc = "graceCheck" =>
       /\ sleepLeft <= GracePoll
       /\ elapsed + sleepLeft <= GraceOverrun - MaxLag + lag
       /\ elapsed + sleepLeft <= diedAt + GracePoll + lag
  /\ pc = "gracePoll" => elapsed < LaunchGrace + lag
  /\ pc \in (Steps \ Early) \ {"graceCheck", "gracePoll"} =>
       /\ elapsed >= LaunchGrace
       /\ LaunchGrace <= diedAt + GracePoll + MaxLag
  /\ pc = "mainCheck" => sleepLeft <= PollInterval
  /\ pc = "mainCheck" =>
       \/ elapsed + sleepLeft <= GraceOverrun + lag
       \/ elapsed + sleepLeft <= markedAt + PollInterval + MaxLag + lag
  /\ pc = "mainPoll" => elapsed <= markedAt + lag
  /\ pc = "lateRead" \/ (pc \in Terminating /\ pending = "TIMEOUT") =>
       elapsed >= timeout
  /\ pc = "lateRead" \/ (pc \in Terminating /\ pending = "TIMEOUT")
        \/ result.class = "TIMEOUT" =>
       \/ timeout <= GraceOverrun + MaxLag
       \/ timeout <= markedAt + PollInterval + 2 * MaxLag
  /\ pc = "done" =>
       /\ result.class = "LAUNCH_ERROR" => diedAt < LaunchGrace + MaxLag
       /\ result.class # "LAUNCH_ERROR" =>
            LaunchGrace <= diedAt + GracePoll + MaxLag

-----------------------------------------------------------------------------
(* Every variable keeps its type: the clock saturates, a marker or a verdict *)
(* is only ever one that boot_smoke_markers.py or the runner defines.        *)
THEOREM TypeCorrect == Spec => []TypeOK
<1>1. Init => TypeOK
  BY TimingAssumption DEF Init, TypeOK, Steps, NoResult, Never, Classes
<1>2. TypeOK /\ [Next]_vars => TypeOK'
  <2> SUFFICES ASSUME TypeOK, [Next]_vars PROVE TypeOK'
    OBVIOUS
  <2> USE TimingAssumption
  <2> USE DEF TypeOK, runner, world, clock, Steps, Ended, Step, StepAndSleep
  <2>1. CASE Prepare
    BY <2>1 DEF Prepare
  <2>2. CASE Spawn
    BY <2>2 DEF Spawn
  <2>3. CASE GraceCheck
    BY <2>3 DEF GraceCheck
  <2>4. CASE GracePollStep
    BY <2>4 DEF GracePollStep, Return, Classes
  <2>5. CASE MainCheck
    BY <2>5 DEF MainCheck
  <2>6. CASE MainRead
    BY <2>6 DEF MainRead
  <2>7. CASE MainPoll
    BY <2>7 DEF MainPoll
  <2>8. CASE ExitRead
    BY <2>8 DEF ExitRead, ExitWith, Return, Classes, Guest, Firmware
  <2>9. CASE LateRead
    BY <2>9 DEF LateRead
  <2>10. CASE Terminate
    BY <2>10 DEF Terminate, ReturnPending, Return, Classes, Guest, Firmware
  <2>11. CASE TermCheck
    BY <2>11 DEF TermCheck
  <2>12. CASE TermPollStep
    BY <2>12 DEF TermPollStep, ReturnPending, Return, Classes, Guest, Firmware
  <2>13. CASE Kill
    BY <2>13 DEF Kill
  <2>14. CASE WaitReturns
    BY <2>14 DEF WaitReturns, Classes, Guest, Firmware
  <2>15. CASE WaitExpires
    BY <2>15 DEF WaitExpires
  <2>16. CASE Raise
    BY <2>16 DEF Raise
  <2>17. ASSUME NEW m \in Markers, GuestWrites(m) PROVE TypeOK'
    BY <2>17 DEF GuestWrites, Never
  <2>18. CASE QemuExits
    BY <2>18 DEF QemuExits, Never
  <2>19. CASE Tick
    BY <2>19 DEF Tick, Countdown
  <2>20. CASE UNCHANGED vars
    BY <2>20 DEF vars
  <2> QED
    BY <2>1, <2>2, <2>3, <2>4, <2>5, <2>6, <2>7, <2>8, <2>9, <2>10, <2>11,
       <2>12, <2>13, <2>14, <2>15, <2>16, <2>17, <2>18, <2>19, <2>20
       DEF Next, RunnerStep
<1> QED
  BY <1>1, <1>2, PTL DEF Spec

-----------------------------------------------------------------------------
(* The verdict part of the inductive invariant. *)
THEOREM VerdictInvariant == Spec => []VerdictInv
<1>1. Init => VerdictInv
  BY DEF Init, VerdictInv, Early, Steps, Terminating, NoResult, Passed, Guest
<1>2. TypeOK /\ VerdictInv /\ [Next]_vars => VerdictInv'
  <2> SUFFICES ASSUME TypeOK, VerdictInv, [Next]_vars PROVE VerdictInv'
    OBVIOUS
  <2> USE DEF TypeOK, VerdictInv, runner, world, clock, Early, Terminating,
              Steps, Ended, Classes, NoResult, Passed, Guest, Firmware, Step,
              StepAndSleep
  <2>1. CASE Prepare
    BY <2>1 DEF Prepare
  <2>2. CASE Spawn
    BY <2>2 DEF Spawn
  <2>3. CASE GraceCheck
    BY <2>3 DEF GraceCheck, InGrace
  <2>4. CASE GracePollStep
    BY <2>4 DEF GracePollStep, Return
  <2>5. CASE MainCheck
    BY <2>5 DEF MainCheck, BeforeDeadline
  <2>6. CASE MainRead
    BY <2>6 DEF MainRead
  <2>7. CASE MainPoll
    BY <2>7 DEF MainPoll
  <2>8. CASE ExitRead
    BY <2>8 DEF ExitRead, ExitWith, Return, InGrace
  <2>9. CASE LateRead
    BY <2>9 DEF LateRead
  <2>10. CASE Terminate
    BY <2>10 DEF Terminate, ReturnPending, Return
  <2>11. CASE TermCheck
    BY <2>11 DEF TermCheck
  <2>12. CASE TermPollStep
    BY <2>12 DEF TermPollStep, ReturnPending, Return
  <2>13. CASE Kill
    BY <2>13 DEF Kill
  <2>14. CASE WaitReturns
    BY <2>14 DEF WaitReturns
  <2>15. CASE WaitExpires
    BY <2>15 DEF WaitExpires
  <2>16. CASE Raise
    BY <2>16 DEF Raise
  <2>17. ASSUME NEW m \in Markers, GuestWrites(m) PROVE VerdictInv'
    BY <2>17 DEF GuestWrites, Markers
  <2>18. CASE QemuExits
    BY <2>18 DEF QemuExits
  <2>19. CASE Tick
    BY <2>19 DEF Tick, Countdown
  <2>20. CASE UNCHANGED vars
    BY <2>20 DEF vars
  <2> QED
    BY <2>1, <2>2, <2>3, <2>4, <2>5, <2>6, <2>7, <2>8, <2>9, <2>10, <2>11,
       <2>12, <2>13, <2>14, <2>15, <2>16, <2>17, <2>18, <2>19, <2>20
       DEF Next, RunnerStep
<1> QED
  BY <1>1, <1>2, TypeCorrect, PTL DEF Spec

(* The timing part of the inductive invariant. *)
THEOREM TimingInvariant == Spec => []TimingInv
<1>1. Init => TimingInv
  BY TimingAssumption
     DEF Init, TimingInv, Early, Steps, Terminating, NoResult, Passed, Guest,
         Never, GraceOverrun
<1>2. TypeOK /\ VerdictInv /\ TimingInv /\ [Next]_vars => TimingInv'
  <2> SUFFICES ASSUME TypeOK, VerdictInv, TimingInv, [Next]_vars
               PROVE TimingInv'
    OBVIOUS
  <2> USE TimingAssumption
  <2> USE DEF TypeOK, VerdictInv, TimingInv, runner, world, clock, Early,
              Terminating, Steps, Ended, Classes, NoResult, Passed, Guest,
              Firmware, Step, StepAndSleep, Never, GraceOverrun
  <2>1. CASE Prepare
    BY <2>1 DEF Prepare
  <2>2. CASE Spawn
    BY <2>2 DEF Spawn
  <2>3. CASE GraceCheck
    BY <2>3 DEF GraceCheck, InGrace
  <2>4. CASE GracePollStep
    BY <2>4 DEF GracePollStep, Return
  <2>5. CASE MainCheck
    BY <2>5 DEF MainCheck, BeforeDeadline
  <2>6. CASE MainRead
    BY <2>6 DEF MainRead
  <2>7. CASE MainPoll
    BY <2>7 DEF MainPoll
  <2>8. CASE ExitRead
    BY <2>8 DEF ExitRead, ExitWith, Return, InGrace
  <2>9. CASE LateRead
    BY <2>9 DEF LateRead
  <2>10. CASE Terminate
    BY <2>10 DEF Terminate, ReturnPending, Return
  <2>11. CASE TermCheck
    BY <2>11 DEF TermCheck
  <2>12. CASE TermPollStep
    BY <2>12 DEF TermPollStep, ReturnPending, Return
  <2>13. CASE Kill
    BY <2>13 DEF Kill
  <2>14. CASE WaitReturns
    BY <2>14 DEF WaitReturns
  <2>15. CASE WaitExpires
    BY <2>15 DEF WaitExpires
  <2>16. CASE Raise
    BY <2>16 DEF Raise
  <2>17. ASSUME NEW m \in Markers, GuestWrites(m) PROVE TimingInv'
    BY <2>17 DEF GuestWrites, Markers
  <2>18. CASE QemuExits
    BY <2>18 DEF QemuExits
  <2>19. CASE Tick
    BY <2>19 DEF Tick, Countdown
  <2>20. CASE UNCHANGED vars
    BY <2>20 DEF vars
  <2> QED
    BY <2>1, <2>2, <2>3, <2>4, <2>5, <2>6, <2>7, <2>8, <2>9, <2>10, <2>11,
       <2>12, <2>13, <2>14, <2>15, <2>16, <2>17, <2>18, <2>19, <2>20
       DEF Next, RunnerStep
<1> QED
  BY <1>1, <1>2, TypeCorrect, VerdictInvariant, PTL DEF Spec

-----------------------------------------------------------------------------
(* PASS is returned only if the guest of this very attempt wrote a guest-level *)
(* marker: not for a log left by an earlier run, not for firmware output.      *)
THEOREM PassIsGenuine == Spec => []PassMeansThisGuestBooted
<1>1. VerdictInv => PassMeansThisGuestBooted
  BY DEF VerdictInv, PassMeansThisGuestBooted, NoResult, Passed, Guest
<1> QED
  BY <1>1, VerdictInvariant, PTL

(* When run_boot_attempt returns, the QEMU process it started has exited. *)
THEOREM NoQemuLeftBehind == Spec => []ReturnReapsQemu
<1>1. VerdictInv => ReturnReapsQemu
  BY DEF VerdictInv, ReturnReapsQemu
<1> QED
  BY <1>1, VerdictInvariant, PTL

(* NO_MARKERS, the verdict that ends boot-smoke without a retry, is never *)
(* returned for a guest that wrote a guest-level marker.                  *)
THEOREM NoMarkersIsGenuine == Spec => []NoMarkerLostOnExit
<1>1. VerdictInv => NoMarkerLostOnExit
  BY DEF VerdictInv, NoMarkerLostOnExit, NoResult
<1> QED
  BY <1>1, VerdictInvariant, PTL

(* LAUNCH_ERROR, the verdict that is retried, means an exit within the launch *)
(* grace (plus a lag), and every exit a poll and a lag before its end gets it. *)
THEOREM RetriedOnlyWhenEarly == Spec => []LaunchErrorMeansEarlyExit
<1>1. TypeOK /\ VerdictInv /\ TimingInv => LaunchErrorMeansEarlyExit
  BY TimingAssumption
     DEF TypeOK, VerdictInv, TimingInv, LaunchErrorMeansEarlyExit, NoResult
<1> QED
  BY <1>1, TypeCorrect, VerdictInvariant, TimingInvariant, PTL

(* A marker written a poll interval and two lags before the deadline is never *)
(* followed by TIMEOUT, provided the timeout outlasts the grace loop.         *)
THEOREM TimelyMarkerIsSeen == Spec => []TimelyMarkerPasses
<1>1. TypeOK /\ VerdictInv /\ TimingInv => TimelyMarkerPasses
  BY TimingAssumption
     DEF TypeOK, VerdictInv, TimingInv, TimelyMarkerPasses, NoResult, GraceOverrun
<1> QED
  BY <1>1, TypeCorrect, VerdictInvariant, TimingInvariant, PTL

-----------------------------------------------------------------------------
(* run_boot_attempt implements the contract boot_smoke.py relies on: each of *)
(* its steps is a step of AttemptContract or changes nothing the contract    *)
(* speaks of.                                                                *)
THEOREM ImplementsContract == Spec => KeepsContract
<1>1. Init => Contract!ContractInit
  BY DEF Init, Contract!ContractInit, Passed, Guest, NoResult
<1>2. TypeOK /\ VerdictInv /\ VerdictInv' /\ [Next]_vars
        => [Contract!ContractNext]_Contract!contractVars
  <2> SUFFICES ASSUME TypeOK, VerdictInv, VerdictInv', [Next]_vars
               PROVE [Contract!ContractNext]_Contract!contractVars
    OBVIOUS
  <2> USE DEF TypeOK, VerdictInv, runner, world, clock, Early, Terminating,
              Steps, Ended, Classes, NoResult, Passed, Guest, Firmware, Step,
              StepAndSleep, Contract!contractVars
  <2>1. CASE Prepare
    BY <2>1 DEF Prepare
  <2>2. CASE Spawn
    BY <2>2 DEF Spawn, Contract!ContractNext, Contract!Launch
  <2>3. CASE GraceCheck
    BY <2>3 DEF GraceCheck
  <2>4. CASE GracePollStep
    BY <2>4 DEF GracePollStep, Return,
        Contract!ContractNext, Contract!Conclude, Contract!Verdicts
  <2>5. CASE MainCheck
    BY <2>5 DEF MainCheck
  <2>6. CASE MainRead
    BY <2>6 DEF MainRead
  <2>7. CASE MainPoll
    BY <2>7 DEF MainPoll
  <2>8. CASE ExitRead
    BY <2>8 DEF ExitRead, ExitWith, Return,
        Contract!ContractNext, Contract!Conclude, Contract!Verdicts
  <2>9. CASE LateRead
    BY <2>9 DEF LateRead
  <2>10. CASE Terminate
    BY <2>10 DEF Terminate, ReturnPending, Return,
        Contract!ContractNext, Contract!Conclude, Contract!Verdicts
  <2>11. CASE TermCheck
    BY <2>11 DEF TermCheck
  <2>12. CASE TermPollStep
    BY <2>12 DEF TermPollStep, ReturnPending, Return,
        Contract!ContractNext, Contract!Conclude, Contract!Verdicts
  <2>13. CASE Kill
    BY <2>13 DEF Kill
  <2>14. CASE WaitReturns
    BY <2>14 DEF WaitReturns,
        Contract!ContractNext, Contract!Conclude, Contract!Verdicts
  <2>15. CASE WaitExpires
    BY <2>15 DEF WaitExpires, Contract!ContractNext, Contract!Abort
  <2>16. CASE Raise
    BY <2>16 DEF Raise, Contract!ContractNext, Contract!Abort
  <2>17. ASSUME NEW m \in Markers, GuestWrites(m)
         PROVE [Contract!ContractNext]_Contract!contractVars
    BY <2>17 DEF GuestWrites, Contract!ContractNext, Contract!Boot
  <2>18. CASE QemuExits
    BY <2>18 DEF QemuExits, Contract!ContractNext, Contract!Die
  <2>19. CASE Tick
    BY <2>19 DEF Tick
  <2>20. CASE UNCHANGED vars
    BY <2>20 DEF vars
  <2> QED
    BY <2>1, <2>2, <2>3, <2>4, <2>5, <2>6, <2>7, <2>8, <2>9, <2>10, <2>11,
       <2>12, <2>13, <2>14, <2>15, <2>16, <2>17, <2>18, <2>19, <2>20
       DEF Next, RunnerStep
<1> QED
  BY <1>1, <1>2, TypeCorrect, VerdictInvariant, PTL
     DEF Spec, KeepsContract, Contract!ContractSpec
=============================================================================
