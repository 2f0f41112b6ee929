--------------------------- MODULE SmokeContract ---------------------------
(***************************************************************************)
(* What boot-smoke promises to those who run it (just ci-image, the gates  *)
(* of run_m04_cloud) and to the reader of .build/evidence: the evidence of *)
(* a run is written once, after the serial log it speaks of and before the *)
(* exit code that repeats it, and is left alone until a later run writes   *)
(* its own.  BootSmoke.tla, the detailed model, implements it.             *)
(***************************************************************************)
EXTENDS Integers

VARIABLES
  number,  \* runs so far
  going,   \* whether the last of them is still running
  code,    \* how it ended, "none" before
  guest,   \* whether the guest of its latest QEMU has booted
  log,     \* the run whose serial output is boot-smoke-serial.log, or 0
  report   \* boot-smoke-evidence.json: its run, and final_classification

promiseVars == <<number, going, code, guest, log, report>>

Finals == {"PASS", "LAUNCH_ERROR", "TIMEOUT", "NO_MARKERS"}
Reported == report.run = number

PromiseInit ==
  /\ number = 0
  /\ going = FALSE
  /\ code = "none"
  /\ guest = FALSE
  /\ log = 0
  /\ report = [run |-> 0, final |-> "none"]

(* A run begins, or refuses its arguments or its host. *)
Begin ==
  /\ ~going
  /\ number' = number + 1
  /\ guest' = FALSE
  /\ \/ going' = TRUE /\ code' = "none"
     \/ going' = FALSE /\ code' = "exit2"
  /\ UNCHANGED <<log, report>>

(* The guest of the current QEMU boots, and another QEMU takes its place. *)
GuestBoots ==
  /\ going /\ ~Reported
  /\ guest' = TRUE
  /\ UNCHANGED <<number, going, code, log, report>>

NextQemu ==
  /\ going /\ ~Reported
  /\ guest' = FALSE
  /\ UNCHANGED <<number, going, code, log, report>>

(* Only the output of a guest that has booted becomes the serial log. *)
KeepLog ==
  /\ going /\ ~Reported /\ guest
  /\ log' = number
  /\ UNCHANGED <<number, going, code, guest, report>>

(* Once in a run, and PASS only for a guest that booted, with its log.       *)
Publish(final) ==
  /\ going /\ ~Reported
  /\ final = "PASS" => guest /\ log = number
  /\ report' = [run |-> number, final |-> final]
  /\ UNCHANGED <<number, going, code, guest, log>>

(* Exit 0 repeats a PASS, exit 1 anything else; exit 2 and a denied copy     *)
(* come before any evidence; after an exception nothing is promised.         *)
End(how) ==
  /\ going
  /\ going' = FALSE
  /\ code' = how
  /\ how \in {"exit0", "exit1"} =>
       (how = "exit0" <=> report = [run |-> number, final |-> "PASS"])
  /\ how \in {"exit2", "denied"} => ~Reported
  /\ UNCHANGED <<number, guest, log, report>>

PromiseNext ==
  \/ Begin
  \/ GuestBoots \/ NextQemu
  \/ KeepLog
  \/ \E final \in Finals : Publish(final)
  \/ \E how \in {"exit0", "exit1", "exit2", "denied", "raised"} : End(how)

PromiseSpec == PromiseInit /\ [][PromiseNext]_promiseVars
=============================================================================
