-------------------------- MODULE AttemptContract --------------------------
(***************************************************************************)
(* What one QEMU boot attempt promises to boot_smoke.py, which runs it and *)
(* decides from its verdict whether to report PASS, to try the next        *)
(* firmware pair or to give up.  BootAttempt.tla, the detailed model of    *)
(* run_boot_attempt, implements it; BootSmoke.tla is built on it.          *)
(***************************************************************************)

VARIABLES
  launched,  \* QEMU was started for this attempt
  alive,     \* that QEMU process is running
  booted,    \* that QEMU's guest has written a guest-level marker
  verdict    \* "none", "raised", or the classification returned

contractVars == <<launched, alive, booted, verdict>>

Verdicts == {"PASS", "LAUNCH_ERROR", "TIMEOUT", "NO_MARKERS"}

ContractTypeOK ==
  /\ launched \in BOOLEAN
  /\ alive \in BOOLEAN
  /\ booted \in BOOLEAN
  /\ verdict \in Verdicts \cup {"none", "raised"}

ContractInit ==
  /\ launched = FALSE
  /\ alive = FALSE
  /\ booted = FALSE
  /\ verdict = "none"

(* One QEMU process per attempt. *)
Launch ==
  /\ ~launched
  /\ verdict = "none"
  /\ launched' = TRUE
  /\ alive' = TRUE
  /\ UNCHANGED <<booted, verdict>>

(* The guest reaches a point where it prints a guest-level marker. *)
Boot ==
  /\ alive
  /\ ~booted
  /\ booted' = TRUE
  /\ UNCHANGED <<launched, alive, verdict>>

(* QEMU exits, on its own or because the attempt signalled it. *)
Die ==
  /\ alive
  /\ alive' = FALSE
  /\ UNCHANGED <<launched, booted, verdict>>

(* A verdict is returned only when no QEMU is left behind; PASS only for a *)
(* guest that booted in this attempt, NO_MARKERS only for one that did not. *)
ConcludeEarly(v) ==  \* mutant: QEMU may still be running
  /\ verdict = "none"
  /\ launched
  /\ v = "PASS" => booted
  /\ v = "NO_MARKERS" => ~booted
  /\ verdict' = v
  /\ UNCHANGED <<launched, alive, booted>>

Conclude(v) ==
  /\ verdict = "none"
  /\ launched
  /\ ~alive
  /\ v = "PASS" => booted
  /\ v = "NO_MARKERS" => ~booted
  /\ verdict' = v
  /\ UNCHANGED <<launched, alive, booted>>

(* The attempt ends in an exception: QEMU may be left running. *)
Abort ==
  /\ verdict = "none"
  /\ verdict' = "raised"
  /\ UNCHANGED <<launched, alive, booted>>

ContractNext ==
  \/ Launch
  \/ Boot
  \/ Die
  \/ \E v \in Verdicts : Conclude(v)
  \/ Abort

ContractSpec == ContractInit /\ [][ContractNext]_contractVars
=============================================================================
