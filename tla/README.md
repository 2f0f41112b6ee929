# Verification of Raven OS's image validation (M04)

Raven OS is, at this commit, the machinery that builds and validates an OS image: Python
scripts driven by a `Justfile` and by one GitHub Actions workflow. This directory holds
TLA+ models of that machinery, the TLC configurations that check them and proofs that
TLAPS checks. Paths below are relative to the repository root (`src/` here).

    tlc -config MCBootAttempt.cfg MCBootAttempt      # model-check one configuration
    tlapm BootAttemptProofs.tla                      # check the proofs

## 1. The system

    workflow m04.yml ── bootstrap ── just run-m04-cloud ── diagnostics ── finalize ── upload
                                        │ runs the gates in order, stops at the first that fails
        ci · builder-preflight · build-image · image-check · build-qcow2 · artifact-metadata · boot-smoke
                                        │ then
        candidate-handoff/ → create_review (.review/*.zip) → run-m04-cloud.json

The components share no memory; they meet in files below `.build/` (`evidence/`, `qcow2/`),
in `.review/`, in `os/image-source.toml`, in podman's storage, and through exit codes
(0, 1, 2 = blocked).

| Component | State it keeps | Operations | What makes it correct |
|---|---|---|---|
| boot attempt (`boot_smoke_runner.py`, `boot_smoke_markers.py`) | a QEMU process, its serial log, a monotonic clock | `run_boot_attempt`, `_terminate_process`, `evaluate_serial_log` | verdict true of *this* guest; QEMU reaped; ends |
| boot smoke (`boot_smoke.py`, `uefi_preboot.py`, `qcow2_preboot.py`, `boot_smoke_qemu.py`) | runtime copies of OVMF VARS, serial logs, `boot-smoke-evidence.json` | preboot checks, list of firmware pairs, attempts, evidence, exit code | right firmware, retries only launch errors, evidence agrees with what ran |
| cloud job (`run_m04_cloud.py`, `finalize_cloud_result.py`, `create_diagnostics.py`, `m04.yml`) | gate logs, handoff, summary, diagnostics ZIP | gates in order, handoff, review, summary, finalize, uploads | no claim of success that was not earned, by this run |
| review packager (`create_review.py`) | `.review/` or another `--out-dir`, its ZIP | clear, gates, collect, zip | a ZIP is of one run and one tree, and the earlier review is gone before it appears |
| builder preflight (`builder_preflight.py`) | `os/image-source.toml`, `builder-preflight.json`, podman storage | pulls with retry, inspection, blockers, three manifest writes | "verified" digests were verified and are those in use |
| build configuration (`raven_build_config.py`) | `storage.conf`, `containers.conf`, the manifest | podman context, OVMF candidates, manifest updates | candidates without repetition; every command on the graphroot of its own mode |
| image pipeline (`build_image.py`, `image_check.py`, `build_qcow2.py`, `artifact_metadata.py`) | image tag in two graphroots, QCOW2 files, image id, check, metadata | build, label check, conversion, hashes | all gates of a plan speak of one image and one disk |
| runner bootstrap (`github_actions_bootstrap.sh`) | the runner's disk | clean caches, block, install | blocked only when cleaning did not help |
| retired drivers (Cirrus, CircleCI, `trigger_m04_pipeline.py`), skeletons in `src/raven_*` | – | – | – |

What is hard here, and which a unit test with a fake process hardly reaches:

* **Interleavings with QEMU.** The runner looks at the clock, the process and the log one
  after the other; the guest writes and QEMU exits in between. A marker can arrive just
  before the exit, just before the deadline, or during SIGTERM's grace.
* **Timing borders.** Launch grace and deadline decide between verdicts with different
  consequences (`LAUNCH_ERROR` is retried, `NO_MARKERS` is not), at polls that may be late.
* **Files that outlive a run.** Logs, evidence, read-only runtime copies, the review ZIP
  and the summary of an earlier run stand where this run's would.
* **Crashes and cancellation** between two writes (manifest: three; orchestrator:
  handoff, review, summary), and an upload that is cancelled after it stored its artifact.
* **Commands without a time limit**: podman, image-builder, the gates, git. What they answer
  is not always looked at either (`podman images`, `git diff`).
* **The world moves**: registry tags, the QCOW2 under a running boot-smoke, the sources under
  a running review.
* **Shared names.** One image tag, one `storage.conf`, one QCOW2 directory and one set of
  evidence files for everybody who works in the tree; nothing locks them.

`PROJECT.json` lists these hazards one by one, with their lines and the properties that
cover them.

## 2. Modules

| Module | Models | Built on |
|---|---|---|
| `AttemptContract` | what one boot attempt promises to its caller (abstract) | – |
| `BootAttempt` | `run_boot_attempt` and `_terminate_process`, one action per look at clock, process or log | implements `AttemptContract` |
| `SmokeContract` | what a boot-smoke promises to the reader of its evidence, log and exit code (abstract) | – |
| `BootSmoke` | `boot_smoke()` over several runs in one tree; each attempt is `AttemptContract`'s | extends `AttemptContract`, implements `SmokeContract` |
| `CloudRun` | the job: orchestrator, review packaging, diagnostics, finalize, uploads | – |
| `Preflight` | `builder_preflight` against a moving registry | – |
| `ImagePipeline` | the commands of `just ci-image` by several people and jobs in one tree, over two podman graphroots | – |
| `ReviewContract` | what `create_review` promises about the ZIPs in its output directories (abstract) | – |
| `ReviewPackage` | `create_review` by hand: gates, `--out-dir`, selection, ZIP | implements `ReviewContract` |
| `BootAttemptProofs`, `BootSmokeProofs`, `CloudRunProofs`, `PreflightProofs`, `ImagePipelineProofs`, `ReviewPackageProofs` | theorems about the module each is named after | extends it |
| `MC*` | constants for TLC | |

Definitions marked "mutant" are faulty variants of the definition that follows. No
specification uses them; putting one in the place of its original makes the named property
fail, which shows that the property does depend on that piece of code.

### BootAttempt

`pc` names the next observable call of the runner:
`graceCheck` is `time.monotonic() < grace_deadline`, `gracePoll` is the `process.poll()`
below it, `mainRead` the reading of the log, and so on. `sleepLeft` is what remains of a
`time.sleep` or of `process.wait(timeout=5)`. `qemu`, `serial` and `elapsed` belong to the
world and change between any two steps (`QemuExits`, `GuestWrites`, `Tick`). `seen` is
`serial_text`; `written`, `markedAt`, `diedAt` are history. QEMU may ignore SIGTERM and even
SIGKILL for a while, so `Terminate` and `Kill` do not change `qemu`: its exit is the world's,
at any time. `Raise` is any exception or interrupt; nothing in the function handles one.
Time is discrete; `MaxLag` bounds how late the runner may take a step that it can take.

One remark from modelling: within the main loop the branch that returns `LAUNCH_ERROR` for
`lifetime < launch_grace_seconds` cannot be reached, the grace loop has passed by then
(`TimingInv` in `BootAttemptProofs` shows it); and the comment "Timeout with QEMU still running"
(line 177) is not always true: QEMU may have exited during the last sleep, and is then reported as
a timeout.

### BootSmoke

`phase` follows `boot_smoke()`: disk, QCOW2 preboot, UEFI preboot (one action per candidate
pair), `_firmware_attempts` (one action per pair), attempts, evidence, exit. A pair has one
of five statuses; `readOnly` holds the runtime copies that `copy2` left without write
permission, because `copy2` carries the mode over and a later `copy2` onto such a file fails.
`Rebuild` replaces the QCOW2 at any time. An attempt is any behaviour of `AttemptContract`,
which `BootAttempt` is proved to implement. `Candidates` is `iter_ovmf_firmware_candidates`: the
static pairs and then the found ones, each where it is met first (`Once`, a recursive function over
the listing).

`SmokeContract` sees of a run its number, whether it goes on, how it ended, whether the guest of
its latest QEMU booted, whose serial log lies there and what the evidence says. Evidence is written
once in a run, says PASS only for a guest that booted and after that guest's log, and the exit
code repeats it.

### CloudRun

`step` is the workflow's step, `at` the place inside `run_m04_cloud`. Every file is a record
that carries the number of the run that wrote it, so that "from an earlier run" can be said.
`StartJob(checkout)` starts a job in a fresh checkout, as the workflow does, or in the tree of the
one before, as the same commands by hand do, without uploads; `fresh` remembers which. `Cancel` is
`timeout-minutes` or a cancelled job, at any step, the upload included, which may have stored its
artifact by then: only `always()` steps follow, and `Kill` cuts these off as well. `UploadReview`
may fail, with the artifact stored or not. The packaging has three
actions: `ClearReview` empties `.review/`, `OpenReview` opens the ZIP, `PackageReview` adds its last
entry, `review.json`, and closes it; whoever sees the file in between sees a ZIP without a review.

### Preflight

`registry` is what a tag resolves to and may move at any time, `store` what podman has
pulled. `PodmanStep` is a podman command that returns, with whatever result, `OwnStep` what the
script does by itself. The three writes of `update_manifest_verified_digests` are three actions with
crashes in between. `vetted` is history: pairs of digests inspected on a host without faults.

### ImagePipeline

A session is `just ci-image` (all six commands, `full`) or one command by hand, in local or cloud
mode (`RAVEN_CLOUD_BUILDER`). `left` is what the session still has to run and `step` the next call
of its current command. Commands of different sessions interleave between their podman calls and
between those accesses to files that relate two commands to one another; two small steps of one
command are one action where nothing can be told from a state in between (`ResolveStorage` writes
`storage.conf` and its note, `WriteMetadata` hashes all disks). An image is a build number and the
base it was built on, a disk an image, a stamp that stands for its mtime, and whether it was
written to its end; what a file *says* is represented by what it was computed from, so a hash is
the disk that was hashed. `storageConf` is the graphroot that `storage.conf` names:
`resolve_podman_context` writes it once per command, podman reads it at every call, and
image-builder is given the graphroot of the mode directly. `podman build` takes the stored base
and may find the whole image in its cache. `WriteImageId` notes what the tag names then, or
nothing: the exit code of `podman images` is not looked at. `Fails` ends a command anywhere.
`builder-preflight` is here what `Preflight` shows of it (pull, then pin what is stored) and
`boot-smoke` what `BootSmoke` shows (newest disk, look its hash up by path, boot the path).
`alone`, `reliable` and `crossed` are history: nobody else was at work, no old QCOW2 could stand
for the session's own, a session of the other mode overlapped.

### ReviewPackage

`phase` follows `create_review`. `tree` gives each file a version; `Edit` changes one at any time,
the preflight gate may change the manifest (`PreflightGate`): one that passes has written its
report, one that dies perhaps not. Every part of the package carries the run that wrote it. Which
files `should_exclude` turns away is a constant. `CollectGit` puts the diff of the tree into the
patch, or what git says instead, or a note when there is no `.git`. Evidence files of commands
that did not run are those already there, which is why the clearing matters (`ZipIsOfOneRun`).
`QualitySpecs` is `quality_specs("INC-002")`; the aggregate `ci` has no command of its own.

`create_zip` writes the entries in the order of their names (`ZipOrder`), one action each
(`AddToZip`), with `review.json` last. An exception leaves a readable ZIP of the entries so far (the
`with` statement closes it), a killed process one without a directory at its end, which nothing can
read: the same as none. `ReviewContract` therefore takes a ZIP for a review once `review.json` is in
it, and says of these: the review of an earlier run is gone before a new one appears, a run leaves
at most one, in the directory it was given, exits 0 only if it is there, and 2 only if there is
none of it: because its directory was refused (`Refuse`, nothing has changed) or because a
`ValueError` of a later step stopped it (`FailLate`, the earlier review is gone as well).

## 3. Runs

| Run | Shows | Bounds |
|---|---|---|
| `boot_attempt` | verdicts true of this guest, QEMU reaped, launch errors and passes exact at the borders of the grace and of the deadline up to poll and lag, the attempt ends, the contract is implemented | grace 5, polls 1 and 2, timeouts below, at, above and well above the grace; lag 1; one guest and one firmware marker; clock to 13, past every deadline. Scaled down from 8 s / 0.25 s / 1 s; the proofs hold for every value |
| `boot_attempt_timeout` | **violated**: a timeout reported as "without guest markers" may carry guest markers | same, with the timeouts 9 and 12, which leave the main loop several readings |
| `boot_smoke` | firmware choice, retries, evidence, logs, exit codes; `SmokeContract` is implemented (`KeepsPromise`) | 3 pairs (two CODE files of one name, one pair listed twice), 2 attempts, 2 runs: enough for a leftover of the first to meet the second; 2 disks |
| `cloud_run` | order of gates, what a candidate shows, what is uploaded, agreement of the three verdicts, finalize passes only on this job's summary in a fresh checkout, every workflow job ends, with finalize's verdict unless it was cancelled | the 7 gates, exit codes 0, 1, 2, 125; 2 jobs, each in a fresh checkout or by hand in the tree of the first; cancellation at every step |
| `cloud_stale_result` | **violated**: in a used tree finalize may pass on an earlier summary | same |
| `cloud_handoff` | **violated**: the handoff is not in the review ZIP | same |
| `preflight` | the manifest's claims survive crashes, blocked runs and moving tags; a run ends if podman's commands return | 2 digests, 1 fault standing for all, 3 pulls, 2 runs |
| `preflight_no_podman` | **violated**: without podman there is no BLOCKED report but an exception | same |
| `image_pipeline` | a plan that passes alone is about one image, one base and one whole disk; commands stay on their graphroot; evidence mixes builds only if there was one in between | 2 builders, 2 sessions, 2 base digests (the tag moves), 2 file names (an old QCOW2 beside a new one), 2 builds, 2 disks; three sessions (9.1 million states) were checked once as well |
| `image_stale_qcow2` | **violated**: a plan passes on a QCOW2 that it did not make | same |
| `review` | a ZIP with its `review.json` is of one run, that of a successful run of one tree; `ReviewContract` is implemented (`KeepsPromise`) | 2 runs, 1 edit, 3 files (manifest, another selected one, an excluded one); 2 fast gates and the preflight; output directories `.review`, a source directory, one outside |
| `review_out_dir` | **violated**: `--out-dir` naming a source directory loses its files | same |

`CHECK_DEADLOCK FALSE` everywhere: an attempt ends, and nobody must start another run.
A second run is where stale state can matter and a third adds no new pairing of an old
file with a new one; the exit codes 1 and 125 are treated alike by the code and are kept
to show it.

Fairness. What runs in a process of ours goes on; what the code waits for without a time limit is
not assumed to end, unless a property says so itself:

* `BootAttempt`: `WF(RunnerStep)` and `WF(Tick)`. The operating system schedules the runner and
  time advances. Nothing is assumed of QEMU or its guest, so `AttemptEnds` covers the silent guest
  and the QEMU that no signal stops.
* `BootSmoke`: `WF(SmokeStep)`. A sequential script goes on; the one command it waits for is the
  attempt, which ends (`AttemptEnds`), and `qemu-img`, one step here, reads a local file.
* `Preflight`: `WF(OwnStep)` only. `run_podman` sets no time limit, so `RunEnds` has
  `WF_vars(PodmanStep)` for its premise: if podman's commands return, also with an error each time,
  the run ends with its report or an exception.
* `CloudRun`: `WF(TimeLimit)` only, which is enabled in jobs of the workflow alone: whatever a gate
  does, `timeout-minutes` cancels the job and what is left of it. `JobEnds` is about these jobs; by
  hand nothing limits a gate.
* `ImagePipeline` and `ReviewPackage` state no liveness: they wait for podman, image-builder or a
  gate as long as they take.

Nobody is obliged to start a run, rebuild a disk, move a tag or crash.

## 4. Findings

1. `boot_smoke_runner.py:178-196` returns the timeout verdict with guest markers found by the
   late reading; `boot_smoke.py:213` reports "without guest markers".
2. `run_m04_cloud.py:148` writes the summary last and never removes the old one;
   `finalize_cloud_result` then tells of an earlier run. Only in a reused working tree.
3. `run_m04_cloud.py:77` says the handoff is part of the review ZIP; `create_review.py:507-509`
   leaves subdirectories of `.build/evidence` out.
4. `builder_preflight.py:213` has a blocker "podman unavailable", but `run_podman` raises first
   on a local Linux host.
5. `build_qcow2.py:134` takes any `*.qcow2` it finds for the artifact of this build, so "QCOW2
artifact not found after build" (136) is not said when an earlier build left one; the plan then
hashes and boots the old disk.
6. `create_review.py:583` removes whatever directory of the repository `--out-dir` names before the
   sources are selected; with a source directory the review lacks its files, and so does the tree.

Noticed, not checked: REVIEW.md of a candidate says handoff BLOCKED and "Verified digest: not
captured on this host" (`create_review.py:327,339,361`) while review.json says REVIEW_CANDIDATE
(429); review.json names `cirrus-cloud` as authority (454) while the preflight says
`github-actions-cloud`; the evidence of a boot-smoke names the preboot's firmware pair even when
another attempt passed (179-183); a blocked preflight has replaced the images in podman's storage;
`podman-storage.json` and `image-check.json` name the repo-local graphroot in cloud mode too,
contrary to the note at `raven_build_config.py:192-195`; the aggregate `ci` lists the command
`just ci`, which did not run; build evidence is copied without `should_exclude`;
`build-image-id.txt` is empty when `podman images` fails (`build_image.py:75-85`); with a git that
fails or is missing `git-diff.patch` holds its error text and the review exits 0 all the same
(`create_review.py:267-279`); a preflight gate that dies leaves the report of an earlier run in
the review; a `ValueError` long after the directory was removed exits 2 like a refused directory
(743-752); a boot-smoke that dies between its log and its evidence (`boot_smoke.py:160,195`)
leaves its log beside an earlier run's evidence.

## 5. Proofs

All theorems hold for every value of the constants that satisfies the assumption of the module
(`TimingAssumption`: positive naturals and a horizon beyond the deadlines; `PlanAssumption`,
`PreflightAssumption`, `PipelineAssumption`: positive bounds, values that are told apart;
`BoundsAssumption`, `PairsAssumption`: at least two boot attempts, listings that are sequences of
pairs; `ReviewAssumption`: the manifest is listed and not excluded, the gates are a sequence with
`builder-preflight` among them and no `ci`). Few of the properties below are inductive; each proof
goes through named invariants, proved first, with one step per action.

### `BootAttemptProofs`

| Theorem | Statement |
|---|---|
| `TypeCorrect` | `Spec => []TypeOK` |
| `VerdictInvariant`, `TimingInvariant` | `Spec => []VerdictInv`, `Spec => []TimingInv` |
| `PassIsGenuine` | `Spec => []PassMeansThisGuestBooted` |
| `NoQemuLeftBehind` | `Spec => []ReturnReapsQemu` |
| `NoMarkersIsGenuine` | `Spec => []NoMarkerLostOnExit` |
| `RetriedOnlyWhenEarly` | `Spec => []LaunchErrorMeansEarlyExit` |
| `TimelyMarkerIsSeen` | `Spec => []TimelyMarkerPasses` |
| `ImplementsContract` | `Spec => KeepsContract` |

Both invariants are defined in this module:

* `VerdictInv`, on what the runner may rely on at each place: after `Prepare` the log holds
  exactly what this QEMU wrote; `exitRead` is reached only with QEMU dead, so that its reading is
  the last word; a pending PASS has been read; a result is final and QEMU dead. Without "the log
  is what was written" nothing relates a reading to this attempt.
* `TimingInv`, on how late the runner can be: every place of the loops has an upper bound on
  `elapsed + sleepLeft` in terms of the grace, of `diedAt` or of `markedAt`, plus lag. The
  tolerances in `LaunchErrorMeansEarlyExit` and `TimelyMarkerPasses` come from there; dropping
  any `MaxLag` from them makes TLC find a counterexample, so they are exact.

`ImplementsContract` maps `launched`, `alive`, `booted` and `verdict` to the detailed state and
shows step by step, with `VerdictInv`, that each action is a contract action or a stutter.

### `BootSmokeProofs`

| Theorem | Statement |
|---|---|
| `TypeCorrect` | `Spec => []TypeOK` |
| `CandidatesListed` | `Spec => []CandidatesAreListedOnce` |
| `FirstUsableIsChosen` | `Spec => []PrebootChoosesFirstUsable` |
| `DenialsHaveACause` | `Spec => []DeniedOnlyByBadVars` |
| `RetriesEarned` | `Spec => []RetriesAreEarned` |
| `NoQemuIsLeft` | `Spec => []NoQemuBetweenAttempts` |
| `ExitsAgree` | `Spec => []ExitAgreesWithEvidence` |
| `PassHasItsLog` | `Spec => []PassEvidenceHasItsLog` |
| `UnmodifiedIsOneDisk` | `Spec => []UnmodifiedMeansOneDisk` |
| `ImplementsPromise` | `Spec => KeepsPromise` |

The statements about candidates need to know of `Once`, for every listing, that it keeps each pair
and keeps it once. `Once` is recursive over the listing, so this is an induction. The induction
theorems of the library cannot be instantiated; `LeastNumber` takes their place (a set of naturals
that is not empty has a least member, because the order of finite sets by inclusion is
well-founded). `KeptExists` uses it to show that the recursive function exists, and `OnceIsRight`
takes the shortest prefix for which the claim fails and refutes it with `KeepStep`, what one more
listed pair does.

* `TypesInv`: attempts and records are sequences of pairs and of verdicts; whoever is past the
  check of the disk has one; a run that boots has an attempt left to record.
* `ChoiceInv`: all candidates before the one looked at, and before the one chosen, are unusable.
* `CopiesInv`: a runtime copy without write permission comes from a template without it.
* `AttemptsInv`: the pairs to boot differ, the first is the chosen one, the records are those of the
  first attempts, and all but the last say LAUNCH_ERROR. A retry is earned by that last line.
* `ProcessInv`: a verdict comes with a dead QEMU and PASS with a booted guest, as the contract
  promises, and both stay true until the evidence is written.
* `EvidenceInv`: which run the evidence and the log are of at each phase. PASS in the evidence means
  a log that is not older, also for evidence that later runs have left in place; and the log is of
  this run only after a guest of it booted, so that a run that fails has left it alone.
* `DisksInv`: stamps only grow, so that equal stamps before and after the attempts mean that all
  of them ran on one disk.

`ImplementsPromise` uses `EvidenceInv` (evidence of this run is not written yet wherever the
contract asks for that) and `ProcessInv` (a PASS that is written is a booted guest's).

### `CloudRunProofs`

| Theorem | Statement |
|---|---|
| `TypeCorrect` | `Spec => []TypeOK` |
| `NoGateAfterAFailure` | `Spec => []StopsAtFirstFailure` |
| `ReviewIsComplete` | `Spec => []CandidateShowsAllGates` |
| `UploadIsEarned` | `Spec => []UploadedReviewIsEarned` |
| `OneStory` | `Spec => []VerdictsAgree` |
| `FinalizeIsSound` | `Spec => []FreshFinalizeTellsThisRun` |

`FilesInv` says for every place of the orchestrator which files are already of this job (run
numbers are compared, so that files of earlier jobs in the tree count as older); `GatesInv` that
the gates that ran are a prefix of the plan, all passed but perhaps the last; `JobInv` that a job
whose status is still success at a later step has been through its orchestrator with a pass, that
the job has an artifact only at its end, and that a fresh one reads no older summary. A cancelled
job keeps the artifact it has stored, so `UploadIsEarned` speaks of every job that has one, not of
the successful ones. `FinalizeIsSound` needs `fresh`: without `fresh`, `summary` may be an older
one, which is finding 2.

### `PreflightProofs`

| Theorem | Statement |
|---|---|
| `TypeCorrect` | `Spec => []TypeOK` |
| `VerifiedIsVetted` | `Spec => []VerifiedWasVetted` |
| `PassPinsTheStore` | `Spec => []PassPinsWhatIsStored` |
| `BlockedChangesNothing` | `Spec => []BlockedLeavesManifest` |

`ChecksInv`: an image with an "ok" check is still the one in podman's storage, since nothing pulls
it again in this run. `WritesInv`: where between the three writes the manifest is, and that the run
that writes has inspected both digests without a blocker; a crash leaves a prefix of the writes.

### `ImagePipelineProofs`

| Theorem | Statement |
|---|---|
| `TypeCorrect` | `Spec => []TypeOK` |
| `GraphrootIsOwn` | `Spec => []OwnGraphroot` |
| `EvidenceIsOfOneTime` | `Spec => []EvidenceMixesOnlyUnderRebuild` |
| `PlanIsAboutOneImage` | `Spec => []PassedPlanIsAboutOneImage` |

`TypesInv` adds to the types what a command has found out on its way (an inspected image, a target
that exists). `OverlapInv` and `LoneInv`: sessions that overlap know of each other, so that in a
session that is `alone` every step of the pipeline is its own. `StampsInv`: a new disk is newer than
all that was hashed. `PlanInv` says gate by gate what a lone plan has shown so far: before
`build-image` the stored base is the pinned one, after it the image rests on it and its id is
noted or none, after `image-check` both of its looks were at that image, after `build-qcow2` the
newest disk holds it, and so on to the boot; the theorem is its last line.

### `ReviewPackageProofs`

| Theorem | Statement |
|---|---|
| `TypeCorrect` | `Spec => []TypeOK` |
| `ZipsAreOfOneRun` | `Spec => []ZipIsOfOneRun` |
| `ReviewsAreOfOneTree` | `Spec => []ReviewIsOfOneTree` |
| `ImplementsPromise` | `Spec => KeepsPromise` |

`CommandsInv` says what the commands of this run have left behind, in particular that a passed `ci`
has all fast gates passed and that a preflight that passed has written the report; `PartsInv`
which parts of the output directory are this run's and what they show, phase by phase; `ZipInv`
that the ZIP holds nothing until zipping begins, then entries as they lie in the directory, in the
end all of them. `ZipsInv` is about all ZIPs, those of earlier runs in other directories included:
their entries are of one run, and consistent once `review.json` is in, which needs the order of
the entries. `TreeInv` follows the sources through the run as long as nobody edits them; the patch
shows that tree or none. Most steps touch one part of one directory or one entry of one ZIP; the
lemmas `WriteIsLocal`, `AddIsLocal` and `ZipsAreLeft` say so once.

### What is only model-checked

Liveness: `AttemptEnds`, `BootSmoke`'s and `Preflight`'s `RunEnds`, `JobEnds`; it is outside of
what the prover handles under fairness. Every invariant and every refinement that a passing run
checks is proved. The runs that expect a violation need no proof: each has a counterexample.

## 6. Not modelled, and why

* Contents of evidence that no property reads: sizes, wording, command lines, git output,
  stdout/stderr logs of QEMU. A hash is the identity of what was hashed.
* `qcow2_preboot`'s single checks and the label and Containerfile checks of `image_check` and
  `build_image`: one verdict from outside, an input or a failure without a cause.
* The gates inside `CloudRun`: exit codes; the commands have modules of their own.
* A container of podman or image-builder that outlives its killed command and goes on writing.
* In `create_review`: the matching of `should_exclude`; `git-status.txt`; a part of the package
  with many files is one entry of the ZIP, and an entry that is cut off in its middle counts as
  missing; output directories of which one is inside another; symbolic links; a review directory
  below a listed path, which the next review would package; `--out-dir` naming the root, which
  removes the whole tree; fixed texts.
* Bootstrap: it measures the disk, deletes a fixed list of caches, measures again, and installs
  packages. It keeps no state that anything later reads; in `CloudRun` it is one step that may fail.
* Platform and KVM probes and `containers.conf`: constants of a host.
* Retired CI drivers, packages in `src/` that hold a version constant, `ui/`, `db/`, `dbus/`,
  `systemd/` placeholders: no behaviour.

## 7. Plan

1. Done: `AttemptContract`, `BootAttempt`, `SmokeContract`, `BootSmoke`, `CloudRun`, `Preflight`,
   `ImagePipeline` (which took in the podman storage of both modes), `ReviewContract`,
   `ReviewPackage`; proofs of every invariant of the six detailed modules and of the three
   refinements.
2. Contracts for the other components, with proofs that they are implemented: a job's uploads
   (`CloudRun`), the pins of the manifest (`Preflight`), the evidence of a plan (`ImagePipeline`).
3. `qcow2_preboot`'s checks as a function of what `qemu-img` says, if a later property needs them.
