----------------------------- MODULE Preflight -----------------------------
(***************************************************************************)
(* scripts/builder_preflight.py: the base and the image-builder image are  *)
(* pulled (with retries) and inspected, blockers are collected, and a run  *)
(* without blockers writes the digests it saw into os/image-source.toml,   *)
(* three files' worth of writes one after another.  The registry's tags    *)
(* move and the process may die at any point.                              *)
(***************************************************************************)
EXTENDS Integers

CONSTANTS
  Digests,      \* what a tag may resolve to
  None,         \* no digest: an empty field, an image that is not stored
  Faults,       \* other blockers: no uv, no OVMF, little disk, no KVM
  PullAttempts, \* attempts of pull_with_retry
  MaxRuns       \* bound: runs of the preflight

ASSUME PreflightAssumption ==
  /\ None \notin Digests
  /\ PullAttempts \in Nat \ {0}
  /\ MaxRuns \in Nat \ {0}

VARIABLES
  registry,  \* the digest each tag resolves to
  store,     \* the digest of each image in podman's storage
  manifest,  \* os/image-source.toml
  report,    \* builder-preflight.json
  run,       \* number of the current run
  host,      \* what this run finds on its host
  phase,     \* where it is
  image,     \* the image it looks at
  tries,     \* pulls of it so far
  checks,    \* checks["base_image"] and checks["image_builder"]
  rc,        \* "none", "raised", "noPodman" (FileNotFoundError), or exit code
  before,    \* history: the manifest when the run began
  vetted     \* history: digest pairs inspected on hosts with nothing missing

outside == <<registry, store>>
locals == <<image, tries, checks>>
history == <<before, vetted>>
vars == <<outside, manifest, report, run, host, phase, locals, rc, history>>

-----------------------------------------------------------------------------
Images == {"base", "bib"}
Unchecked == [status |-> "none", digest |-> None]
Blocked == [status |-> "blocked", digest |-> None]
Ok(digest) == [status |-> "ok", digest |-> digest]

Manifests == [base : Digests \cup {None}, bib : Digests \cup {None},
              state : {"pending", "verified"}]

NoHost == [linux |-> TRUE, podman |-> TRUE, cloud |-> FALSE, faults |-> {}]
Hosts == [linux : BOOLEAN, podman : BOOLEAN, cloud : BOOLEAN,
          faults : SUBSET Faults]

TypeOK ==
  /\ registry \in [Images -> Digests]
  /\ store \in [Images -> Digests \cup {None}]
  /\ manifest \in Manifests /\ before \in Manifests
  /\ report \in [run : 0..MaxRuns, overall : {"none", "PASS", "BLOCKED"}]
  /\ run \in 0..MaxRuns
  /\ host \in Hosts
  /\ phase \in {"idle", "pull", "inspect", "judge", "writeBase", "writeState",
                "writeBib", "report"}
  /\ image \in Images
  /\ tries \in 0..PullAttempts
  /\ checks \in [Images -> [status : {"none", "ok", "blocked"},
                            digest : Digests \cup {None}]]
  /\ rc \in {"none", "raised", "noPodman", "exit0", "exit2"}
  /\ vetted \subseteq Digests \X Digests

Init ==
  /\ registry \in [Images -> Digests]
  /\ store = [i \in Images |-> None]
  /\ manifest = [base |-> None, bib |-> None, state |-> "pending"]
  /\ report = [run |-> 0, overall |-> "none"]
  /\ run = 0
  /\ host = NoHost
  /\ phase = "idle"
  /\ image = "base"
  /\ tries = 0
  /\ checks = [i \in Images |-> Unchecked]
  /\ rc = "none"
  /\ before = manifest
  /\ vetted = {}

-----------------------------------------------------------------------------
(* Without Linux x86_64 both images are reported as blocked, unseen. *)
Start(h) ==
  /\ phase = "idle"
  /\ run < MaxRuns
  /\ run' = run + 1
  /\ host' = h
  /\ image' = "base"
  /\ tries' = 0
  /\ rc' = "none"
  /\ before' = manifest
  /\ IF h.linux
       THEN phase' = "pull" /\ checks' = [i \in Images |-> Unchecked]
       ELSE phase' = "judge" /\ checks' = [i \in Images |-> Blocked]
  /\ UNCHANGED <<outside, manifest, report, vetted>>

(* The verdict on the current image, and on to the next. *)
Checked(verdict) ==
  /\ checks' = [checks EXCEPT ![image] = verdict]
  /\ tries' = 0
  /\ \/ image = "base" /\ image' = "bib" /\ phase' = "pull"
     \/ image = "bib" /\ UNCHANGED image /\ phase' = "judge"

PullSucceeds ==
  /\ phase = "pull"
  /\ host.podman
  /\ store' = [store EXCEPT ![image] = registry[image]]
  /\ phase' = "inspect"
  /\ tries' = tries + 1
  /\ UNCHANGED <<registry, manifest, report, run, host, image, checks, rc>>
  /\ UNCHANGED history

(* Mutant: one try too many. *)
LastTryLate == tries = PullAttempts

(* On a cloud builder podman runs under sudo, whose failure to find it is an *)
(* exit code like any other.                                                 *)
LastTry == tries + 1 = PullAttempts

PullFails ==
  /\ phase = "pull"
  /\ host.podman \/ host.cloud
  /\ \/ LastTry /\ Checked(Blocked)
     \/ ~LastTry /\ tries' = tries + 1 /\ UNCHANGED <<phase, image, checks>>
  /\ UNCHANGED <<outside, manifest, report, run, host, rc, history>>

(* subprocess.run raises when there is no podman to run. *)
PullRaises ==
  /\ phase = "pull"
  /\ ~host.podman /\ ~host.cloud
  /\ phase' = "idle"
  /\ rc' = "noPodman"
  /\ UNCHANGED <<outside, manifest, report, run, host, locals, history>>

(* Mutant: the tag is resolved once more, at the registry. *)
InspectedRemotely == registry[image]

Inspected == store[image]

(* Mutant: an image that cannot be inspected is pulled again. *)
InspectOrPull(ok) ==
  /\ phase = "inspect"
  /\ IF ok
       THEN Checked(Ok(Inspected))
       ELSE phase' = "pull" /\ tries' = 0 /\ UNCHANGED <<image, checks>>
  /\ UNCHANGED <<outside, manifest, report, run, host, rc, history>>

Inspect(ok) ==
  /\ phase = "inspect"
  /\ Checked(IF ok THEN Ok(Inspected) ELSE Blocked)
  /\ UNCHANGED <<outside, manifest, report, run, host, rc, history>>

-----------------------------------------------------------------------------
BothChecked == \A i \in Images : checks[i].status = "ok"

(* Mutant: only what needs podman counts. *)
HasBlockersButFaults == ~host.linux \/ ~host.podman \/ ~BothChecked

HasBlockers ==
  ~host.linux \/ ~host.podman \/ host.faults # {} \/ ~BothChecked

Vet ==
  vetted' = IF BothChecked /\ host.faults = {}
              THEN vetted \cup {<<checks["base"].digest, checks["bib"].digest>>}
              ELSE vetted

(* Mutant: the digests that were found are kept, blockers or not. *)
JudgeKeepsDigests ==
  /\ phase = "judge"
  /\ Vet
  /\ phase' = IF BothChecked THEN "writeBase" ELSE "report"
  /\ UNCHANGED <<outside, manifest, report, run, host, locals, rc, before>>

Judge ==
  /\ phase = "judge"
  /\ Vet
  /\ phase' = IF HasBlockers THEN "report" ELSE "writeBase"
  /\ UNCHANGED <<outside, manifest, report, run, host, locals, rc, before>>

(* update_manifest_verified_digests rewrites the file once per field. *)
Write(from, field, value, to) ==
  /\ phase = from
  /\ manifest' = [manifest EXCEPT ![field] = value]
  /\ phase' = to
  /\ UNCHANGED <<outside, report, run, host, locals, rc, history>>

WriteBase == Write("writeBase", "base", checks["base"].digest, "writeState")
WriteState == Write("writeState", "state", "verified", "writeBib")
WriteBib == Write("writeBib", "bib", checks["bib"].digest, "report")

Report ==
  /\ phase = "report"
  /\ phase' = "idle"
  /\ report' = [run |-> run,
                overall |-> IF HasBlockers THEN "BLOCKED" ELSE "PASS"]
  /\ rc' = IF HasBlockers THEN "exit2" ELSE "exit0"
  /\ UNCHANGED <<outside, manifest, run, host, locals, history>>

(* An interrupt, or any I/O error: what was written stays. *)
Raise ==
  /\ phase # "idle"
  /\ phase' = "idle"
  /\ rc' = "raised"
  /\ UNCHANGED <<outside, manifest, report, run, host, locals, history>>

(* External: a tag of the registry is moved to another image. *)
TagMoves(i) ==
  /\ \E d \in Digests : registry' = [registry EXCEPT ![i] = d]
  /\ registry' # registry
  /\ UNCHANGED <<store, manifest, report, run, host, phase, locals, rc>>
  /\ UNCHANGED history

-----------------------------------------------------------------------------
(* A podman command returns. *)
PodmanStep ==
  \/ PullSucceeds \/ PullFails
  \/ \E ok \in BOOLEAN : Inspect(ok)

(* What the script does by itself. *)
OwnStep ==
  \/ PullRaises
  \/ Judge
  \/ WriteBase \/ WriteState \/ WriteBib
  \/ Report

Next ==
  \/ \E h \in Hosts : Start(h)
  \/ PodmanStep
  \/ OwnStep
  \/ Raise
  \/ \E i \in Images : TagMoves(i)

(* The script goes on, but run_podman sets no time limit: a podman command   *)
(* need not return.  Nobody has to start a preflight or to move a tag.       *)
Spec == Init /\ [][Next]_vars /\ WF_vars(OwnStep)

-----------------------------------------------------------------------------
(* The manifest never says "verified" of a base that no preflight has seen   *)
(* on a host without faults, and every digest in it comes from such a run:   *)
(* also after a crash between two of the three writes, and after blocked     *)
(* runs.                                                                     *)
VerifiedWasVetted ==
  /\ manifest.state = "verified" => manifest.base # None
  /\ manifest.base # None => \E v \in vetted : v[1] = manifest.base
  /\ manifest.bib # None => \E v \in vetted : v[2] = manifest.bib

(* After a PASS the manifest pins what podman's storage holds, the images    *)
(* that build-image and build-qcow2 will use by tag, wherever the registry's *)
(* tags have moved meanwhile.                                                *)
PassPinsWhatIsStored ==
  rc = "exit0" =>
    /\ manifest = [base |-> store["base"], bib |-> store["bib"],
                   state |-> "verified"]
    /\ report = [run |-> run, overall |-> "PASS"]

(* A blocked preflight reports so and leaves the manifest as it was, although *)
(* it may have replaced the stored images.                                    *)
BlockedLeavesManifest ==
  rc = "exit2" =>
    /\ manifest = before
    /\ report = [run |-> run, overall |-> "BLOCKED"]

(* A registry that answers every pull with an error does not keep a run      *)
(* going: if podman commands return, well or not, every run ends, with its   *)
(* report unless an exception ended it.                                      *)
RunEnds ==
  WF_vars(PodmanStep) =>
    (phase # "idle" ~>
       phase = "idle" /\ (rc \in {"raised", "noPodman"} \/ report.run = run))

(* A host without podman is a blocker, exit 2 (builder_preflight.py:213).    *)
NoPodmanIsBlocked ==
  ~host.podman /\ phase = "idle" /\ rc # "raised" => rc = "exit2"
=============================================================================
