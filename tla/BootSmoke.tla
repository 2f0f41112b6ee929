----------------------------- MODULE BootSmoke -----------------------------
(***************************************************************************)
(* scripts/boot_smoke.py with scripts/uefi_preboot.py and the firmware     *)
(* candidates of scripts/raven_build_config.py: one boot-smoke run checks  *)
(* its host, the QCOW2 and the OVMF pairs, boots QEMU with one pair after  *)
(* another, and leaves evidence and an exit code.  An attempt is what      *)
(* AttemptContract promises of it.  Runs repeat on the same .build         *)
(* directory, whose files survive.                                         *)
(***************************************************************************)
EXTENDS AttemptContract, Integers, SequencesExt

CONSTANTS
  StaticPairs,    \* OVMF_FIRMWARE_CANDIDATES, a sequence of (CODE, VARS) pairs
  FoundListings,  \* what globbing OVMF_SEARCH_DIRS may list
  CodeName,       \* a pair's CODE file name, after which its copy is named
  MAX_BOOT_ATTEMPTS,
  MaxRuns,        \* bound: runs of boot-smoke
  MaxRebuilds     \* bound: times the QCOW2 is (re)built

ASSUME BoundsAssumption ==
  /\ MAX_BOOT_ATTEMPTS \in Nat \ {0, 1}
  /\ MaxRuns \in Nat \ {0}
  /\ MaxRebuilds \in Nat \ {0}

VARIABLES
  found,       \* the listing of this host's OVMF directories
  status,      \* the state of each pair's files on this host
  readOnly,    \* runtime VARS copies in .build/evidence that are read-only
  disk,        \* modification stamp of the QCOW2, 0 when there is none
  mainLog,     \* the run whose serial output is boot-smoke-serial.log, or 0
  evidence,    \* boot-smoke-evidence.json
  run,         \* number of the current run
  phase,       \* where it is
  next,        \* next candidate looked at
  firmware,    \* uefi_result.firmware
  attempts,    \* firmware_candidates: the pairs to boot, in order
  records,     \* attempt_records
  diskBefore,  \* qcow2_stat_before
  disks,       \* history: the QCOW2 stamps QEMU was started on
  rc           \* "none", "raised", "denied" (PermissionError) or its exit code

host == <<found, status>>
files == <<readOnly, disk, mainLog, evidence>>
locals == <<next, firmware, attempts, records, diskBefore, disks>>
vars == <<contractVars, host, files, locals, run, phase, rc>>

-----------------------------------------------------------------------------
NoPair == "no pair"
NoEvidence == [run |-> 0, pair |-> NoPair, attempts |-> <<>>, final |-> "none",
               unmodified |-> FALSE, disks |-> {}]

Pairs == ToSet(StaticPairs) \cup UNION {ToSet(l) : l \in FoundListings}

(* A pair is missing a file, has a file the user cannot read, has VARS whose *)
(* mode (which copy2 copies) forbids writing, or is good.                    *)
Statuses == {"absent", "codeUnreadable", "varsUnreadable", "varsReadOnly",
             "good"}

ASSUME PairsAssumption ==
  /\ StaticPairs \in Seq(Pairs)
  /\ FoundListings \subseteq Seq(Pairs)

(* iter_ovmf_firmware_candidates: static pairs first, then the found ones,   *)
(* each once: one that was already seen is passed over.                      *)
Once(listed) ==
  LET kept[i \in 0..Len(listed)] ==
        IF i = 0 THEN <<>>
        ELSE LET seen == kept[i - 1]
             IN IF Contains(seen, listed[i]) THEN seen
                                             ELSE Append(seen, listed[i])
  IN kept[Len(listed)]

FoundFirst(static, listing) == Once(listing \o static)  \* mutant: found first
CandidatesOf(static, listing) == Once(static \o listing)

Candidates == CandidatesOf(StaticPairs, found)

PrebootCopy(p) == <<"preboot", CodeName[p]>>
AttemptCopy(n) == <<"attempt", n>>

(* shutil.copy2(vars_template, copy): it fails on an unreadable source and   *)
(* on a read-only target, and passes the source's mode on.                   *)
CopyDenied(p, copy) == status[p] = "varsUnreadable" \/ copy \in readOnly
CopyReadOnly(p, copy) == readOnly' = readOnly \cup {copy}  \* mutant: mode 0444
Copy(p, copy) ==
  readOnly' = IF status[p] = "varsReadOnly" THEN readOnly \cup {copy}
                                            ELSE readOnly \ {copy}

TypeOK ==
  /\ ContractTypeOK
  /\ found \in FoundListings
  /\ status \in [Pairs -> Statuses]
  /\ readOnly \subseteq {PrebootCopy(p) : p \in Pairs}
                          \cup {AttemptCopy(n) : n \in 1..MAX_BOOT_ATTEMPTS}
  /\ disk \in 0..MaxRebuilds
  /\ mainLog \in 0..MaxRuns
  /\ evidence.run \in 0..MaxRuns
  /\ run \in 0..MaxRuns
  /\ phase \in {"idle", "disk", "qcow2", "uefi", "list", "boot", "evidence",
                "exit"}
  /\ next \in 1..Len(Candidates) + 1
  /\ firmware \in Pairs \cup {NoPair}
  /\ ToSet(attempts) \subseteq Pairs
  /\ \A r \in ToSet(records) : r.pair \in Pairs /\ r.class \in Verdicts
  /\ diskBefore \in 0..MaxRebuilds
  /\ disks \subseteq 1..MaxRebuilds
  /\ rc \in {"none", "raised", "denied", "exit0", "exit1", "exit2"}

ClearLocals ==
  /\ next' = 1
  /\ firmware' = NoPair
  /\ attempts' = <<>>
  /\ records' = <<>>
  /\ diskBefore' = 0
  /\ disks' = {}

Init ==
  /\ ContractInit
  /\ found \in FoundListings
  /\ status \in [Pairs -> Statuses]
  /\ readOnly = {}
  /\ disk \in {0, 1}
  /\ mainLog = 0
  /\ evidence = NoEvidence
  /\ run = 0
  /\ phase = "idle"
  /\ next = 1
  /\ firmware = NoPair
  /\ attempts = <<>>
  /\ records = <<>>
  /\ diskBefore = 0
  /\ disks = {}
  /\ rc = "none"

-----------------------------------------------------------------------------
Go(from, to) == phase = from /\ phase' = to /\ UNCHANGED rc
Exit(from, code) == phase = from /\ phase' = "idle" /\ rc' = code

(* --timeout-seconds and the host are checked before anything is touched. *)
Start(timeoutValid, fitHost) ==
  /\ phase = "idle"
  /\ run < MaxRuns
  /\ run' = run + 1
  /\ IF timeoutValid /\ fitHost THEN phase' = "disk" /\ rc' = "none"
                                ELSE phase' = "idle" /\ rc' = "exit2"
  /\ launched' = FALSE /\ alive' = FALSE
  /\ booted' = FALSE /\ verdict' = "none"
  /\ ClearLocals
  /\ UNCHANGED <<host, files>>

FindDiskWaits ==  \* mutant: waits for a QCOW2
  /\ disk # 0 /\ Go("disk", "qcow2") /\ diskBefore' = disk
  /\ UNCHANGED <<contractVars, host, files, next, firmware, attempts, records,
                 disks, run>>

FindDisk ==
  /\ \/ disk = 0 /\ Exit("disk", "exit1") /\ UNCHANGED diskBefore
     \/ disk # 0 /\ Go("disk", "qcow2") /\ diskBefore' = disk
  /\ UNCHANGED <<contractVars, host, files, next, firmware, attempts, records,
                 disks, run>>

(* validate_qcow2_preboot, whose verdict comes from qemu-img. *)
Qcow2Preboot(ok) ==
  /\ IF ok THEN Go("qcow2", "uefi") ELSE Exit("qcow2", "exit1")
  /\ UNCHANGED <<contractVars, host, files, locals, run>>

-----------------------------------------------------------------------------
(* validate_uefi_preboot: the first pair with readable files whose copy can  *)
(* be written.                                                               *)
Readable(p) == status[p] \in {"varsReadOnly", "good"}

SkipTwoPairs(p) ==  \* mutant: skips one too many
  /\ ~Readable(p)
  /\ next' = next + 2
  /\ UNCHANGED <<phase, rc, firmware, attempts, readOnly>>

SkipPair(p) ==
  /\ ~Readable(p)
  /\ next' = next + 1
  /\ UNCHANGED <<phase, rc, firmware, attempts, readOnly>>

CopyPairUnchecked(p) ==  \* mutant: the copy need not be writable
  /\ Readable(p)
  /\ ~CopyDenied(p, PrebootCopy(p))
  /\ Copy(p, PrebootCopy(p))
  /\ firmware' = p
  /\ attempts' = <<p>>
  /\ next' = 1
  /\ Go("uefi", "list")

CopyPair(p) ==
  /\ Readable(p)
  /\ ~CopyDenied(p, PrebootCopy(p))
  /\ Copy(p, PrebootCopy(p))
  /\ \/ /\ status[p] = "varsReadOnly"
        /\ next' = next + 1
        /\ UNCHANGED <<phase, rc, firmware, attempts>>
     \/ /\ status[p] = "good"
        /\ firmware' = p
        /\ attempts' = <<p>>
        /\ next' = 1
        /\ Go("uefi", "list")

CopyPairDenied(p) ==
  /\ Readable(p)
  /\ CopyDenied(p, PrebootCopy(p))
  /\ Exit("uefi", "denied")
  /\ UNCHANGED <<next, firmware, attempts, readOnly>>

TryPair ==
  /\ phase = "uefi"
  /\ next <= Len(Candidates)
  /\ LET p == Candidates[next]
     IN SkipPair(p) \/ CopyPair(p) \/ CopyPairDenied(p)
  /\ UNCHANGED <<contractVars, host, disk, mainLog, evidence, records,
                 diskBefore, disks, run>>

NoUsablePair ==
  /\ next > Len(Candidates)
  /\ Exit("uefi", "exit2")
  /\ UNCHANGED <<contractVars, host, files, locals, run>>

-----------------------------------------------------------------------------
(* _firmware_attempts: the pair the preboot chose, then every other pair     *)
(* whose files exist, readable or not, up to MAX_BOOT_ATTEMPTS.              *)
Listing == next <= Len(Candidates) /\ Len(attempts) < MAX_BOOT_ATTEMPTS

SeenButTheFirst(p) == \E i \in 2..Len(attempts) : attempts[i] = p  \* mutant
Seen(p) == Contains(attempts, p)

ListPair ==
  /\ phase = "list"
  /\ Listing
  /\ LET p == Candidates[next]
         copy == AttemptCopy(Len(attempts) + 1)
     IN \/ /\ Seen(p) \/ status[p] = "absent"
           /\ next' = next + 1
           /\ UNCHANGED <<phase, rc, attempts, readOnly>>
        \/ /\ ~(Seen(p) \/ status[p] = "absent")
           /\ ~CopyDenied(p, copy)
           /\ Copy(p, copy)
           /\ attempts' = Append(attempts, p)
           /\ next' = next + 1
           /\ UNCHANGED <<phase, rc>>
        \/ /\ ~(Seen(p) \/ status[p] = "absent")
           /\ CopyDenied(p, copy)
           /\ Exit("list", "denied")
           /\ UNCHANGED <<next, attempts, readOnly>>
  /\ UNCHANGED <<contractVars, host, disk, mainLog, evidence, firmware,
                 records, diskBefore, disks, run>>

FirstAttempt ==
  /\ ~Listing
  /\ Go("list", "boot")
  /\ UNCHANGED <<contractVars, host, files, locals, run>>

-----------------------------------------------------------------------------
(* run_boot_attempt, as its contract allows; no guest boots with firmware    *)
(* that QEMU cannot read, with a read-only copy of VARS one may or may not.  *)
Current == attempts[Len(records) + 1]

AttemptStep ==
  /\ phase = "boot"
  /\ ContractNext
  /\ booted' => Readable(Current)
  /\ disks' = IF launched' /\ ~launched THEN disks \cup {disk} ELSE disks
  /\ UNCHANGED <<host, files, next, firmware, attempts, records, diskBefore,
                 run, phase, rc>>

(* The record of an attempt, and whether there is a next one. *)
RetriedUnlessPass(class) == class # "PASS"  \* mutant: retries a silent guest
Retried(class) == class = "LAUNCH_ERROR"

LogNeverCopied(class) == FALSE  \* mutant: boot-smoke-serial.log is left alone
LogOfAnyGuest(class) == class # "LAUNCH_ERROR"  \* mutant: on timeouts too
LogCopied(class) == class = "PASS"

EndAttempt ==
  /\ phase = "boot"
  /\ verdict \in Verdicts
  /\ records' = Append(records, [pair |-> Current, class |-> verdict])
  /\ mainLog' = IF LogCopied(verdict) THEN run ELSE mainLog
  /\ IF Retried(verdict) /\ Len(records') < Len(attempts)
                         /\ Len(records') < MAX_BOOT_ATTEMPTS
       THEN /\ launched' = FALSE /\ alive' = FALSE /\ booted' = FALSE
            /\ verdict' = "none"
            /\ UNCHANGED <<phase, rc>>
       ELSE Go("boot", "evidence") /\ UNCHANGED contractVars
  /\ UNCHANGED <<host, readOnly, disk, evidence, next, firmware, attempts,
                 diskBefore, disks, run>>

AttemptRaises ==
  /\ verdict = "raised"
  /\ Exit("boot", "raised")
  /\ UNCHANGED <<contractVars, host, files, locals, run>>

(* The evidence names the pair of the preboot, the attempts theirs. *)
Final == IF records = <<>> THEN "LAUNCH_ERROR" ELSE Last(records).class

UnmodifiedSince(stamp) == TRUE  \* mutant: compares the second stat with itself
Unmodified(stamp) == disk = stamp

WriteEvidence ==
  /\ Go("evidence", "exit")
  /\ evidence' = [run |-> run, pair |-> firmware, attempts |-> records,
                  final |-> Final, unmodified |-> Unmodified(diskBefore),
                  disks |-> disks]
  /\ UNCHANGED <<contractVars, host, readOnly, disk, mainLog, locals, run>>

ReportLenient ==  \* mutant: only a launch error fails the run
  /\ Exit("exit", IF Final # "LAUNCH_ERROR" THEN "exit0" ELSE "exit1")
  /\ UNCHANGED <<contractVars, host, files, locals, run>>

Report ==
  /\ Exit("exit", IF Final = "PASS" THEN "exit0" ELSE "exit1")
  /\ UNCHANGED <<contractVars, host, files, locals, run>>

(* An interrupt or an I/O error outside of an attempt. *)
Raise ==
  /\ phase \notin {"idle", "boot"}
  /\ phase' = "idle"
  /\ rc' = "raised"
  /\ UNCHANGED <<contractVars, host, files, locals, run>>

(* build_qcow2, whenever somebody runs it. *)
Rebuild ==
  /\ disk < MaxRebuilds
  /\ disk' = disk + 1
  /\ UNCHANGED <<contractVars, host, readOnly, mainLog, evidence, locals, run,
                 phase, rc>>

-----------------------------------------------------------------------------
SmokeStep ==
  \/ FindDisk
  \/ \E ok \in BOOLEAN : Qcow2Preboot(ok)
  \/ TryPair \/ NoUsablePair
  \/ ListPair \/ FirstAttempt
  \/ AttemptStep \/ EndAttempt \/ AttemptRaises
  \/ WriteEvidence \/ Report

Next ==
  \/ \E timeoutValid, fitHost \in BOOLEAN : Start(timeoutValid, fitHost)
  \/ SmokeStep
  \/ Raise
  \/ Rebuild

(* A run goes on until it exits; that an attempt ends is AttemptEnds of      *)
(* BootAttempt.  Nobody has to start a run or to rebuild the disk.           *)
Spec == Init /\ [][Next]_vars /\ WF_vars(SmokeStep)

-----------------------------------------------------------------------------
Usable(p) == status[p] = "good"

(* The candidates are the static and the found pairs, each once, none lost,  *)
(* in the order they were listed.                                            *)
CandidatesAreListedOnce ==
  LET listed == StaticPairs \o found
      Place(p) == CHOOSE i \in DOMAIN listed :
                    listed[i] = p /\ \A j \in 1..i - 1 : listed[j] # p
  IN /\ ToSet(Candidates) = ToSet(listed)
     /\ \A i, j \in DOMAIN Candidates :
          i < j => Place(Candidates[i]) < Place(Candidates[j])

(* The preboot chooses the first usable pair, and says that there is none    *)
(* (exit 2 of a run that got past the QCOW2) only when there is none.        *)
PrebootChoosesFirstUsable ==
  /\ firmware # NoPair =>
       /\ Usable(firmware)
       /\ \A i \in DOMAIN Candidates :
            Usable(Candidates[i]) =>
              \E j \in 1..i : Candidates[j] = firmware
  /\ rc = "exit2" /\ diskBefore # 0 => ~\E p \in ToSet(Candidates) : Usable(p)

(* A PermissionError ends a run only on a host with a VARS template that is  *)
(* unreadable or read-only, now or when an earlier run copied it.            *)
DeniedOnlyByBadVars ==
  rc = "denied" =>
    \E p \in ToSet(Candidates) :
      status[p] \in {"varsUnreadable", "varsReadOnly"}

(* An attempt is followed by another one only after a launch error and with  *)
(* firmware that was not tried yet, the first one uses the firmware that the *)
(* preboot chose, and at most MAX_BOOT_ATTEMPTS run.                         *)
RetriesAreEarned ==
  /\ Len(records) <= MAX_BOOT_ATTEMPTS
  /\ \A i \in DOMAIN records :
       phase = "boot" \/ i < Len(records) => records[i].class = "LAUNCH_ERROR"
  /\ IsInjective([i \in DOMAIN records |-> records[i].pair])
  /\ records # <<>> => records[1].pair = firmware

(* No QEMU of this run is left when the run has exited with a code or goes   *)
(* on to the next attempt; only an exception may leave one.                  *)
NoQemuBetweenAttempts ==
  alive => (phase = "boot" \/ rc = "raised")

(* Exit 0 means that the last guest booted and that the evidence of this run *)
(* says so; a failing run never leaves PASS evidence of its own.             *)
ExitAgreesWithEvidence ==
  /\ rc = "exit0" => booted /\ evidence.run = run /\ evidence.final = "PASS"
  /\ rc \in {"exit1", "exit2"} /\ evidence.run = run => evidence.final # "PASS"

(* The evidence of a PASS has its serial log beside it, or a later one: the  *)
(* log is copied before the evidence is written, and a run that exits with a *)
(* failure leaves the log alone.  (A later run whose guest booted replaces   *)
(* it even if it then dies before its own evidence.)                         *)
PassEvidenceHasItsLog ==
  /\ evidence.final = "PASS" => mainLog >= evidence.run
  /\ rc \in {"exit1", "exit2", "denied"} => mainLog < run

(* Evidence that calls the base QCOW2 unmodified is about one disk: every    *)
(* attempt booted the one that the preboot looked at.                        *)
UnmodifiedMeansOneDisk ==
  evidence.unmodified /\ evidence.run = run =>
    evidence.disks \subseteq {diskBefore}

(* Every run of boot-smoke exits. *)
RunEnds == phase # "idle" ~> phase = "idle"

(* boot_smoke keeps what SmokeContract promises of it: the evidence of a run *)
(* is written once, between the log of the guest that booted and the exit    *)
(* code that repeats it, and what a run leaves stays until a later run       *)
(* replaces it.                                                              *)
Promise ==
  INSTANCE SmokeContract WITH
    number <- run,
    going <- phase # "idle",
    code <- rc,
    guest <- booted,
    log <- mainLog,
    report <- [run |-> evidence.run, final |-> evidence.final]
KeepsPromise == Promise!PromiseSpec
=============================================================================
