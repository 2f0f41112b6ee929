--------------------------- MODULE ImagePipeline ---------------------------
(***************************************************************************)
(* The commands that make a Raven OS image and prove it: builder-preflight *)
(* (as Preflight shows it), build-image, image-check, build-qcow2,         *)
(* artifact-metadata and boot-smoke (as BootSmoke shows it), which meet in *)
(* podman's storage, below .build/ and in os/image-source.toml.  A session *)
(* is the whole plan (just ci-image, run_m04_cloud) or one command by      *)
(* hand; sessions follow one another in a working tree and may overlap.    *)
(* Which storage podman uses is written into one file of the tree,         *)
(* storage.conf, by every command, and read by podman at every call.       *)
(***************************************************************************)
EXTENDS Integers, Sequences, FiniteSets

CONSTANTS
  Builders,     \* people and jobs at work in the tree
  Digests,      \* what the base image's tag may resolve to
  Names,        \* file names image-builder gives its QCOW2
  None,         \* nothing there
  MaxSessions, MaxBuilds, MaxDisks  \* bounds

ASSUME PipelineAssumption ==
  /\ None \notin Digests \cup Names
  /\ {MaxSessions, MaxBuilds, MaxDisks} \subseteq Nat \ {0}

VARIABLES
  storageConf,  \* the graphroot that .build/containers/storage.conf names
  storageNote,  \* the mount source in podman-storage.json
  base,         \* the base image stored in each graphroot
  image,        \* what localhost/raven-os:0.1-dev is in each graphroot
  pinned,       \* base_digest of os/image-source.toml
  disks,        \* .build/qcow2/*.qcow2
  imageId,      \* build-image-id.txt
  checked,      \* image-check.json
  metadata,     \* artifact-metadata.json
  booted,       \* evidence of the last boot-smoke that passed
  builds, writes, sessions,  \* counters
  mode,         \* whether RAVEN_CLOUD_BUILDER is set for a builder's session
  left,         \* the commands it still has to run
  full,         \* whether it is the whole plan
  step,         \* where its current command is
  passed,       \* whether its last session passed
  inspected,    \* image-check: the image it inspected
  target,       \* boot-smoke: the path it boots from
  sha,          \* boot-smoke: the content whose hash the preboot found
  alone,        \* history: no other session overlapped with it or followed
  reliable,     \* history: no old QCOW2 can stand for its own
  crossed       \* history: a session of the other mode overlapped with it

storage == <<storageConf, storageNote, base, image>>
qcow2 == <<disks, writes>>
evidence == <<imageId, checked, metadata, booted>>
session == <<mode, left, full, step, passed, sessions>>
locals == <<inspected, target, sha>>
history == <<alone, reliable, crossed>>
vars == <<storage, builds, pinned, qcow2, evidence, session, locals, history>>

-----------------------------------------------------------------------------
(* A graphroot is named after the mode that uses it: .build/containers/      *)
(* storage or /var/lib/containers/storage.                                   *)
Modes == {"local", "cloud"}
Plan == <<"builder-preflight", "build-image", "image-check", "build-qcow2",
          "artifact-metadata", "boot-smoke">>
Commands == {Plan[i] : i \in 1..Len(Plan)}

(* The first step of a command after it has resolved its podman context. *)
FirstCall == [c \in Commands \ {"artifact-metadata", "boot-smoke"} |->
                CASE c = "builder-preflight" -> "pull"
                  [] c = "build-image" -> "build"
                  [] OTHER -> "exists"]

Images == [n : 1..MaxBuilds, base : Digests]
NoImage == [n |-> 0, base |-> None]
Disks == [image : Images, stamp : 1..MaxDisks, whole : BOOLEAN]
NoDisk == [image |-> NoImage, stamp |-> 0, whole |-> FALSE]
Checks == [digest : Images, version : Images, alone : BOOLEAN]
NoCheck == [digest |-> NoImage, version |-> NoImage, alone |-> TRUE]
Boots == [disk : Disks, sha : Disks \cup {NoDisk}]
NoBoot == [disk |-> NoDisk, sha |-> NoDisk]

TypeOK ==
  /\ storageConf \in Modes \cup {None} /\ storageNote \in Modes \cup {None}
  /\ base \in [Modes -> Digests \cup {None}]
  /\ image \in [Modes -> Images \cup {NoImage}]
  /\ pinned \in Digests \cup {None}
  /\ disks \in [Names -> Disks \cup {NoDisk}]
  /\ imageId \in Images \cup {NoImage}
  /\ checked \in Checks \cup {NoCheck}
  /\ metadata \in [Names -> Disks \cup {NoDisk}]
  /\ booted \in Boots \cup {NoBoot}
  /\ builds \in 0..MaxBuilds /\ writes \in 0..MaxDisks
  /\ sessions \in 0..MaxSessions
  /\ mode \in [Builders -> Modes]
  /\ left \in [Builders -> Seq(Commands)]
  /\ full \in [Builders -> BOOLEAN]
  /\ step \in [Builders -> {"start", "pull", "pin", "build", "id", "exists",
                            "inspect", "version", "convert", "produced",
                            "preboot", "boot"}]
  /\ passed \in [Builders -> BOOLEAN]
  /\ inspected \in [Builders -> Images \cup {NoImage}]
  /\ target \in [Builders -> Names \cup {None}]
  /\ sha \in [Builders -> Disks \cup {NoDisk}]
  /\ alone \in [Builders -> BOOLEAN]
  /\ reliable \in [Builders -> BOOLEAN]
  /\ crossed \in [Builders -> BOOLEAN]

Init ==
  /\ storageConf = None /\ storageNote = None
  /\ base = [m \in Modes |-> None]
  /\ image = [m \in Modes |-> NoImage]
  /\ pinned = None
  /\ disks = [n \in Names |-> NoDisk]
  /\ imageId = NoImage /\ checked = NoCheck
  /\ metadata = [n \in Names |-> NoDisk]
  /\ booted = NoBoot
  /\ builds = 0 /\ writes = 0 /\ sessions = 0
  /\ mode = [b \in Builders |-> "local"]
  /\ left = [b \in Builders |-> <<>>]
  /\ full = [b \in Builders |-> FALSE]
  /\ step = [b \in Builders |-> "start"]
  /\ passed = [b \in Builders |-> FALSE]
  /\ inspected = [b \in Builders |-> NoImage]
  /\ target = [b \in Builders |-> None]
  /\ sha = [b \in Builders |-> NoDisk]
  /\ alone = [b \in Builders |-> FALSE]
  /\ reliable = [b \in Builders |-> FALSE]
  /\ crossed = [b \in Builders |-> FALSE]

-----------------------------------------------------------------------------
Running(b) == left[b] # <<>>
At(b, command, place) == Running(b) /\ Head(left[b]) = command /\ step[b] = place

Present(n) == disks[n] # NoDisk
NoneThere == \A n \in Names : ~Present(n)

(* sorted(qcow2_dir.glob("*.qcow2"), key=mtime)[-1] *)
OldestFirst(n) ==  \* mutant: the sort reversed
  Present(n) /\ \A o \in Names : Present(o) => disks[n].stamp <= disks[o].stamp

Newest(n) ==
  Present(n) /\ \A o \in Names : Present(o) => disks[o].stamp <= disks[n].stamp

(* A session begins: just <command>, just ci-image or the gates of the cloud *)
(* orchestrator.                                                             *)
Begin(b, m, commands) ==
  /\ ~Running(b)
  /\ sessions < MaxSessions
  /\ sessions' = sessions + 1
  /\ mode' = [mode EXCEPT ![b] = m]
  /\ left' = [left EXCEPT ![b] = commands]
  /\ full' = [full EXCEPT ![b] = commands = Plan]
  /\ passed' = [passed EXCEPT ![b] = FALSE]
  /\ alone' = [c \in Builders |-> c = b /\ \A o \in Builders : ~Running(o)]
  /\ reliable' = [reliable EXCEPT ![b] = NoneThere]
  /\ LET Other(c) == Running(c) /\ mode[c] # m
     IN crossed' = [c \in Builders |-> IF c = b THEN \E o \in Builders : Other(o)
                                       ELSE crossed[c] \/ Other(c)]
  /\ UNCHANGED <<storage, builds, pinned, qcow2, evidence, step, locals>>

(* Control of one session. *)
Goes(b, to) ==
  /\ step' = [step EXCEPT ![b] = to]
  /\ UNCHANGED <<mode, left, full, passed, sessions>>

ForgetLocals(b) ==
  /\ inspected' = [inspected EXCEPT ![b] = NoImage]
  /\ target' = [target EXCEPT ![b] = None]
  /\ sha' = [sha EXCEPT ![b] = NoDisk]

(* A command passes: on to the next one of the session, or out of it, which  *)
(* gives its environment up.                                                 *)
Passes(b) ==
  LET last == Len(left[b]) = 1
  IN /\ left' = [left EXCEPT ![b] = Tail(@)]
     /\ passed' = [passed EXCEPT ![b] = last]
     /\ mode' = [mode EXCEPT ![b] = IF last THEN "local" ELSE @]
     /\ crossed' = [crossed EXCEPT ![b] = ~last /\ @]
     /\ step' = [step EXCEPT ![b] = "start"]
     /\ ForgetLocals(b)
     /\ UNCHANGED <<full, sessions, alone, reliable>>

(* A command does not pass: no later one runs, and nothing more is said of   *)
(* the session.                                                              *)
Stops(b) ==
  /\ left' = [left EXCEPT ![b] = <<>>]
  /\ mode' = [mode EXCEPT ![b] = "local"]
  /\ full' = [full EXCEPT ![b] = FALSE]
  /\ alone' = [alone EXCEPT ![b] = FALSE]
  /\ reliable' = [reliable EXCEPT ![b] = FALSE]
  /\ crossed' = [crossed EXCEPT ![b] = FALSE]
  /\ step' = [step EXCEPT ![b] = "start"]
  /\ ForgetLocals(b)
  /\ UNCHANGED <<passed, sessions>>

(* A command fails where it is, by a failing return, an exception or a kill: *)
(* nothing that was written is taken back, no later command runs.            *)
Fails(b) ==
  /\ Running(b)
  /\ Stops(b)
  /\ UNCHANGED <<storage, builds, pinned, qcow2, evidence>>

-----------------------------------------------------------------------------
(* resolve_podman_context: every command that needs podman rewrites          *)
(* storage.conf for its own mode and notes the mount for image-builder.      *)
KeepStorage(b) ==  \* mutant: an existing storage.conf is left alone
  /\ Running(b)
  /\ Head(left[b]) \in DOMAIN FirstCall
  /\ step[b] = "start"
  /\ storageConf' = IF storageConf = None THEN mode[b] ELSE storageConf
  /\ storageNote' = mode[b]
  /\ Goes(b, FirstCall[Head(left[b])])
  /\ UNCHANGED <<base, image, builds, pinned, qcow2, evidence, locals, history>>

ResolveStorage(b) ==
  /\ Running(b)
  /\ Head(left[b]) \in DOMAIN FirstCall
  /\ step[b] = "start"
  /\ storageConf' = mode[b]
  /\ storageNote' = mode[b]
  /\ Goes(b, FirstCall[Head(left[b])])
  /\ UNCHANGED <<base, image, builds, pinned, qcow2, evidence, locals, history>>

(* What podman sees at this moment, whoever asks. *)
Visible == image[storageConf]

(* builder-preflight: the pull moves the stored base to what the tag is now; *)
(* a preflight that passes then pins what is stored.                         *)
PullBase(b, digest) ==
  /\ At(b, "builder-preflight", "pull")
  /\ base' = [base EXCEPT ![storageConf] = digest]
  /\ Goes(b, "pin")
  /\ UNCHANGED <<storageConf, storageNote, image, builds, pinned, qcow2,
                 evidence, locals, history>>

PinBase(b) ==
  /\ At(b, "builder-preflight", "pin")
  /\ base[storageConf] # None
  /\ pinned' = base[storageConf]
  /\ Passes(b)
  /\ UNCHANGED <<storage, builds, qcow2, evidence>>

-----------------------------------------------------------------------------
(* build_image: podman build takes the stored base, pulls one that is        *)
(* missing, and may find all layers of the present image in its cache.       *)
BuildPullsAlways(b, digest) ==  \* mutant: podman build --pull=always
  /\ At(b, "build-image", "build")
  /\ builds < MaxBuilds
  /\ builds' = builds + 1
  /\ base' = [base EXCEPT ![storageConf] = digest]
  /\ image' = [image EXCEPT ![storageConf] = [n |-> builds', base |-> digest]]
  /\ Goes(b, "id")
  /\ UNCHANGED <<storageConf, storageNote, pinned, qcow2, evidence, locals,
                 history>>

BuildImage(b, digest) ==
  /\ At(b, "build-image", "build")
  /\ base[storageConf] \in {None, digest}
  /\ base' = [base EXCEPT ![storageConf] = digest]
  /\ \/ /\ builds < MaxBuilds
        /\ builds' = builds + 1
        /\ image' = [image EXCEPT ![storageConf] =
                                    [n |-> builds', base |-> digest]]
     \/ /\ Visible.base = digest
        /\ UNCHANGED <<image, builds>>
  /\ Goes(b, "id")
  /\ UNCHANGED <<storageConf, storageNote, pinned, qcow2, evidence, locals,
                 history>>

(* The second podman call of build_image, whose exit code nobody looks at:   *)
(* if it fails, the id that is written is empty.                             *)
WriteImageId(b) ==
  /\ At(b, "build-image", "id")
  /\ imageId' \in {Visible, NoImage}
  /\ Passes(b)
  /\ UNCHANGED <<storage, builds, pinned, qcow2, checked, metadata, booted>>

-----------------------------------------------------------------------------
(* image_check asks podman for the tag three times. *)
CheckExists(b) ==
  /\ At(b, "image-check", "exists")
  /\ Visible # NoImage
  /\ Goes(b, "inspect")
  /\ UNCHANGED <<storage, builds, pinned, qcow2, evidence, locals, history>>

InspectLocal(b) ==  \* mutant: looks into paths.podman_graphroot, always local
  /\ At(b, "image-check", "inspect")
  /\ image["local"] # NoImage
  /\ inspected' = [inspected EXCEPT ![b] = image["local"]]
  /\ Goes(b, "version")
  /\ UNCHANGED <<storage, builds, pinned, qcow2, evidence, target, sha, history>>

InspectImage(b) ==
  /\ At(b, "image-check", "inspect")
  /\ Visible # NoImage
  /\ inspected' = [inspected EXCEPT ![b] = Visible]
  /\ Goes(b, "version")
  /\ UNCHANGED <<storage, builds, pinned, qcow2, evidence, target, sha, history>>

WriteCheckAnyway(b) ==  \* mutant: the third call's exit code is ignored
  /\ At(b, "image-check", "version")
  /\ checked' = [digest |-> inspected[b], version |-> Visible,
                 alone |-> alone[b]]
  /\ Passes(b)
  /\ UNCHANGED <<storage, builds, pinned, qcow2, imageId, metadata, booted>>

WriteCheck(b) ==
  /\ At(b, "image-check", "version")
  /\ Visible # NoImage
  /\ checked' = [digest |-> inspected[b], version |-> Visible,
                 alone |-> alone[b]]
  /\ Passes(b)
  /\ UNCHANGED <<storage, builds, pinned, qcow2, imageId, metadata, booted>>

-----------------------------------------------------------------------------
(* build_qcow2: podman says whether the image exists, but image-builder      *)
(* works on the graphroot that is mounted into it, the one of this mode.     *)
FindImage(b) ==
  /\ At(b, "build-qcow2", "exists")
  /\ Visible # NoImage
  /\ Goes(b, "convert")
  /\ UNCHANGED <<storage, builds, pinned, qcow2, evidence, locals, history>>

WriteDisk(n, img, whole) ==
  /\ writes < MaxDisks
  /\ writes' = writes + 1
  /\ disks' = [disks EXCEPT ![n] = [image |-> img, stamp |-> writes',
                                    whole |-> whole]]

(* External: image-builder names the file itself. *)
Convert(b, n) ==
  /\ At(b, "build-qcow2", "convert")
  /\ image[mode[b]] # NoImage
  /\ WriteDisk(n, image[mode[b]], TRUE)
  /\ reliable' = [reliable EXCEPT ![b] = TRUE]
  /\ Goes(b, "produced")
  /\ UNCHANGED <<storage, builds, pinned, evidence, locals, alone, crossed>>

(* It may also exit 0 without a *.qcow2 directly in its output directory, or *)
(* fail, or be killed, in the middle of writing.                             *)
ConvertElsewhere(b) ==
  /\ At(b, "build-qcow2", "convert")
  /\ image[mode[b]] # NoImage
  /\ Goes(b, "produced")
  /\ UNCHANGED <<storage, builds, pinned, qcow2, evidence, locals, history>>

ConvertBreaksOff(b, n) ==
  /\ At(b, "build-qcow2", "convert")
  /\ image[mode[b]] # NoImage
  /\ WriteDisk(n, image[mode[b]], FALSE)
  /\ Stops(b)
  /\ UNCHANGED <<storage, builds, pinned, evidence>>

AcceptArtifact(b) ==
  /\ At(b, "build-qcow2", "produced")
  /\ ~NoneThere
  /\ Passes(b)
  /\ UNCHANGED <<storage, builds, pinned, qcow2, evidence>>

-----------------------------------------------------------------------------
(* artifact_metadata hashes every QCOW2 there is, and passes without any. *)
HashNewNames(n) ==  \* mutant: a path that has an entry is not hashed again
  IF metadata[n] # NoDisk THEN metadata[n] ELSE disks[n]
Hash(n) == disks[n]

WriteMetadata(b) ==
  /\ At(b, "artifact-metadata", "start")
  /\ metadata' = [n \in Names |-> Hash(n)]
  /\ Passes(b)
  /\ UNCHANGED <<storage, builds, pinned, qcow2, imageId, checked, booted>>

(* boot_smoke takes the newest QCOW2; its preboot looks the hash up by path; *)
(* QEMU opens the path later.                                                *)
FindDisk(b) ==
  /\ At(b, "boot-smoke", "start")
  /\ \E n \in Names : Newest(n) /\ target' = [target EXCEPT ![b] = n]
  /\ Goes(b, "preboot")
  /\ UNCHANGED <<storage, builds, pinned, qcow2, evidence, inspected, sha>>
  /\ UNCHANGED history

LookUpHash(b) ==
  /\ At(b, "boot-smoke", "preboot")
  /\ sha' = [sha EXCEPT ![b] = metadata[target[b]]]
  /\ Goes(b, "boot")
  /\ UNCHANGED <<storage, builds, pinned, qcow2, evidence, inspected, target>>
  /\ UNCHANGED history

BootPasses(b) ==
  /\ At(b, "boot-smoke", "boot")
  /\ booted' = [disk |-> disks[target[b]], sha |-> sha[b]]
  /\ Passes(b)
  /\ UNCHANGED <<storage, builds, pinned, qcow2, imageId, checked, metadata>>

-----------------------------------------------------------------------------
Works(b) ==
  \/ Fails(b)
  \/ ResolveStorage(b)
  \/ \E d \in Digests : PullBase(b, d) \/ BuildImage(b, d)
  \/ PinBase(b) \/ WriteImageId(b)
  \/ CheckExists(b) \/ InspectImage(b) \/ WriteCheck(b)
  \/ FindImage(b)
  \/ \E n \in Names : Convert(b, n) \/ ConvertBreaksOff(b, n)
  \/ ConvertElsewhere(b) \/ AcceptArtifact(b)
  \/ WriteMetadata(b)
  \/ FindDisk(b) \/ LookUpHash(b) \/ BootPasses(b)

Next ==
  \E b \in Builders :
    \/ \E m \in Modes, commands \in {Plan} \cup {<<c>> : c \in Commands} :
         Begin(b, m, commands)
    \/ Works(b)

Spec == Init /\ [][Next]_vars

-----------------------------------------------------------------------------
(* When all gates of a plan have passed and nobody else was at work, they    *)
(* spoke of the image that was booted: the manifest's base went into it, its *)
(* labels and version were checked, its id was noted if any was, and the     *)
(* disk that holds it is whole and the one that was hashed.  This holds in a *)
(* tree full of what earlier sessions left, provided image-builder wrote its *)
(* QCOW2, and in a tree without any QCOW2 whatever image-builder does.       *)
PassedPlanIsAboutOneImage ==
  \A b \in Builders :
    full[b] /\ passed[b] /\ alone[b] /\ reliable[b] =>
      /\ booted.disk.whole
      /\ booted.sha = booted.disk
      /\ booted.disk.image.base = pinned
      /\ checked.digest = booted.disk.image
      /\ checked.version = booted.disk.image
      /\ imageId \in {booted.disk.image, NoImage}

(* A storage.conf that an earlier session of the other mode left never sends *)
(* a command to that mode's graphroot, and image-builder is given the one    *)
(* that podman's own commands use.  (A session of the other mode that        *)
(* overlaps does redirect it.)                                               *)
OwnGraphroot ==
  \A b \in Builders :
    Running(b) /\ step[b] # "start" /\ ~crossed[b]
        /\ Head(left[b]) \in DOMAIN FirstCall =>
      storageConf = mode[b] /\ storageNote = mode[b]

(* Evidence that puts two things together puts together what belongs         *)
(* together: image-check.json mixes two images only if another session was   *)
(* at work, and the hash of another disk is recorded for a booted one only   *)
(* if that one was written after the metadata; a disk that was never hashed  *)
(* has none.                                                                 *)
EvidenceMixesOnlyUnderRebuild ==
  /\ checked.alone => checked.digest = checked.version
  /\ booted.sha = booted.disk \/ booted.sha.stamp < booted.disk.stamp
  /\ \A n \in Names : metadata[n].stamp <= disks[n].stamp

(* build_qcow2.py:136 says what a build without an artifact ends in: "error: *)
(* QCOW2 artifact not found after build".  So a plan that passes has made    *)
(* one, also when the disk that it booted is whole and no check of qemu-img  *)
(* could tell.                                                               *)
ArtifactIsOfThisBuild ==
  \A b \in Builders :
    passed[b] /\ full[b] /\ alone[b] /\ booted.disk.whole => reliable[b]
=============================================================================
