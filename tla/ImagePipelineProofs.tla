------------------------ MODULE ImagePipelineProofs ------------------------
(***************************************************************************)
(* Proofs about ImagePipeline for any number of builders, sessions, builds *)
(* and disks: types, podman's storage, what the evidence mixes, and what a *)
(* whole plan that passes shows.                                           *)
(***************************************************************************)
EXTENDS ImagePipeline, SequenceTheorems, TLAPS

UsesPodman(b) ==
  Running(b) /\ Head(left[b]) \in DOMAIN FirstCall /\ step[b] # "start"

Booting(b) == At(b, "boot-smoke", "preboot") \/ At(b, "boot-smoke", "boot")

(* What a command has found out by the time it has reached a step.           *)
ProgressInv ==
  \A b \in Builders :
    /\ ~Running(b) => step[b] = "start"
    /\ UsesPodman(b) => storageConf \in Modes
    /\ At(b, "image-check", "version") => inspected[b] \in Images
    /\ Booting(b) => target[b] \in Names /\ Present(target[b])

TypesInv == TypeOK /\ ProgressInv

(* Sessions that overlap know of each other.                                 *)
OverlapInv ==
  \A b, c \in Builders :
    Running(b) /\ Running(c) =>
      /\ mode[b] # mode[c] => crossed[b]
      /\ b # c => ~alone[b]

(* A stamp is newer than all that was hashed before it.                      *)
StampsInv ==
  /\ \A n \in Names :
       /\ disks[n].stamp <= writes
       /\ metadata[n] = disks[n] \/ metadata[n].stamp < disks[n].stamp
  /\ \A b \in Builders :
       At(b, "boot-smoke", "boot") =>
         \/ sha[b] = disks[target[b]]
         \/ sha[b].stamp < disks[target[b]].stamp

(* What image-check has inspected is still there if nobody else is at work.  *)
InspectedInv ==
  \A b \in Builders :
    alone[b] /\ At(b, "image-check", "version") => inspected[b] = Visible

(* Beside a lone session nobody is at work, even when it is over.            *)
LoneInv ==
  \A b \in Builders :
    /\ passed[b] => ~Running(b)
    /\ alone[b] =>
         /\ ~crossed[b]
         /\ \A c \in Builders \ {b} : ~Running(c)

(* What a plan that is alone has left, and what its gates have shown so far. *)
Rests == {Plan,
          <<"build-image", "image-check", "build-qcow2", "artifact-metadata",
            "boot-smoke">>,
          <<"image-check", "build-qcow2", "artifact-metadata", "boot-smoke">>,
          <<"build-qcow2", "artifact-metadata", "boot-smoke">>,
          <<"artifact-metadata", "boot-smoke">>, <<"boot-smoke">>, <<>>}
Gate(b) == IF Running(b) THEN Head(left[b]) ELSE "done"
Own(b) == image[mode[b]]
LatestIsBuilt ==
  \A n \in Names :
    Newest(n) => disks[n].image = checked.digest /\ disks[n].whole

ImageShown(b) ==
  /\ Gate(b) # "builder-preflight" => pinned \in Digests
  /\ At(b, "build-image", "start") \/ At(b, "build-image", "build") =>
       base[mode[b]] = pinned
  /\ At(b, "build-image", "id") => Own(b).base = pinned
  /\ Gate(b) = "image-check" =>
       Own(b).base = pinned /\ imageId \in {Own(b), NoImage}
  /\ Gate(b) = "build-qcow2" => Own(b) = checked.digest
  /\ Gate(b) \notin {"builder-preflight", "build-image", "image-check"} =>
       /\ checked.digest.base = pinned /\ checked.version = checked.digest
       /\ imageId \in {checked.digest, NoImage}

DiskShown(b) ==
  /\ Gate(b) \in {"builder-preflight", "build-image", "image-check"} =>
       NoneThere
  /\ Gate(b) = "build-qcow2" /\ step[b] # "produced" => NoneThere
  /\ Gate(b) = "build-qcow2" /\ step[b] = "produced" => LatestIsBuilt
  /\ Gate(b) \in {"artifact-metadata", "boot-smoke"} => LatestIsBuilt
  /\ Gate(b) = "boot-smoke" => metadata = disks
  /\ At(b, "boot-smoke", "preboot") \/ At(b, "boot-smoke", "boot") =>
       Newest(target[b])
  /\ At(b, "boot-smoke", "boot") => sha[b] = disks[target[b]]
  /\ Gate(b) = "done" =>
       booted.disk.whole /\ booted.sha = booted.disk
         /\ booted.disk.image = checked.digest

PlanShown(b) ==
  /\ left[b] \in Rests
  /\ ImageShown(b)
  /\ reliable[b] => DiskShown(b)

PlanInv == \A b \in Builders : full[b] /\ alone[b] => PlanShown(b)

-----------------------------------------------------------------------------
(* What is left of a session after its first command. *)
LEMMA Rest ==
  ASSUME NEW S, NEW s \in Seq(S), s # <<>>
  PROVE  /\ Head(s) \in S /\ Tail(s) \in Seq(S)
         /\ Tail(s) = <<>> <=> Len(s) = 1
<1>1. Head(s) \in S /\ Tail(s) \in Seq(S) /\ Len(Tail(s)) = Len(s) - 1
  BY HeadTailProperties
<1>2. Tail(s) = <<>> <=> Len(Tail(s)) = 0
  BY <1>1, EmptySeq
<1>3. Len(s) \in Nat
  BY LenProperties
<1> QED
  BY <1>1, <1>2, <1>3

(* The plan is a sequence of commands, four of which use podman. *)
LEMMA CommandNames ==
  /\ Commands = {"builder-preflight", "build-image", "image-check",
                 "build-qcow2", "artifact-metadata", "boot-smoke"}
  /\ Plan \in Seq(Commands) /\ Plan # <<>>
  /\ \A c \in Commands : <<c>> \in Seq(Commands) /\ <<c>> # <<>>
  /\ DOMAIN FirstCall = {"builder-preflight", "build-image", "image-check",
                         "build-qcow2"}
  /\ FirstCall["builder-preflight"] = "pull"
  /\ FirstCall["build-image"] = "build"
  /\ FirstCall["image-check"] = "exists"
  /\ FirstCall["build-qcow2"] = "exists"
<1>1. Len(Plan) = 6
  BY DEF Plan
<1>2. Commands = {Plan[1], Plan[2], Plan[3], Plan[4], Plan[5], Plan[6]}
  <2>1. 1..6 = {1, 2, 3, 4, 5, 6}
    OBVIOUS
  <2> QED
    BY <1>1, <2>1 DEF Commands
<1>3. Commands = {"builder-preflight", "build-image", "image-check",
                  "build-qcow2", "artifact-metadata", "boot-smoke"}
  BY <1>2 DEF Plan
<1>4. Plan \in Seq(Commands) /\ Plan # <<>>
  BY <1>3 DEF Plan
<1>5. DOMAIN FirstCall = {"builder-preflight", "build-image", "image-check",
                          "build-qcow2"}
  BY <1>3 DEF FirstCall
<1> QED
  BY <1>3, <1>4, <1>5 DEF FirstCall

(* What a command leaves of its session when it passes or does not. *)
LEMMA SessionTypes ==
  ASSUME TypeOK, NEW b \in Builders, Running(b), Passes(b) \/ Stops(b)
  PROVE  /\ left' \in [Builders -> Seq(Commands)]
         /\ mode' \in [Builders -> Modes]
         /\ step' \in [Builders -> {"start", "pull", "pin", "build", "id",
                                    "exists", "inspect", "version", "convert",
                                    "produced", "preboot", "boot"}]
         /\ full' \in [Builders -> BOOLEAN]
         /\ passed' \in [Builders -> BOOLEAN]
         /\ alone' \in [Builders -> BOOLEAN]
         /\ reliable' \in [Builders -> BOOLEAN]
         /\ crossed' \in [Builders -> BOOLEAN]
         /\ sessions' \in 0..MaxSessions
         /\ inspected' \in [Builders -> Images \cup {NoImage}]
         /\ target' \in [Builders -> Names \cup {None}]
         /\ sha' \in [Builders -> Disks \cup {NoDisk}]
<1>1. ForgetLocals(b) =>
        /\ inspected' \in [Builders -> Images \cup {NoImage}]
        /\ target' \in [Builders -> Names \cup {None}]
        /\ sha' \in [Builders -> Disks \cup {NoDisk}]
  BY DEF TypeOK, ForgetLocals
<1>2. CASE Passes(b)
  <2>1. Tail(left[b]) \in Seq(Commands)
    BY Rest DEF TypeOK, Running
  <2>2. left' \in [Builders -> Seq(Commands)]
    BY <1>2, <2>1 DEF TypeOK, Passes
  <2>3. crossed' \in [Builders -> BOOLEAN] /\ passed' \in [Builders -> BOOLEAN]
    BY <1>2 DEF TypeOK, Passes
  <2>4. mode' \in [Builders -> Modes]
    BY <1>2 DEF TypeOK, Passes, Modes
  <2> QED
    BY <1>1, <1>2, <2>2, <2>3, <2>4 DEF TypeOK, Passes
<1>3. CASE Stops(b)
  <2>1. left' \in [Builders -> Seq(Commands)]
    BY <1>3, EmptySeq DEF TypeOK, Stops
  <2> QED
    BY <1>1, <1>3, <2>1 DEF TypeOK, Stops, Modes
<1> QED
  BY <1>2, <1>3

(* Types and progress need each other. *)
LEMMA TypesAndProgress == Spec => []TypesInv
<1>1. Init => TypesInv
  BY PipelineAssumption
     DEF Init, TypesInv, TypeOK, ProgressInv, Modes, Running, At,
     UsesPodman, Booting
<1>2. TypesInv /\ [Next]_vars => TypesInv'
  <2> SUFFICES ASSUME TypesInv, [Next]_vars
               PROVE  TypesInv'
    OBVIOUS
  <2> USE PipelineAssumption, Rest
  <2> USE DEF storage, qcow2, evidence, session, locals, history
  <2> USE DEF TypesInv, TypeOK, ProgressInv, Modes, Running, At, UsesPodman,
              Booting, Present, Visible
  <2>1. ASSUME NEW b \in Builders, NEW m \in Modes,
               NEW commands \in {Plan} \cup {<<c>> : c \in Commands},
               Begin(b, m, commands)
        PROVE  TypesInv'
    <3> USE <2>1 DEF Begin
    <3>1. TypeOK'
      <4>1. commands \in Seq(Commands)
        <5>1. CASE commands = Plan
          BY <5>1, CommandNames
        <5>2. CASE commands \in {<<c>> : c \in Commands}
          <6>1. PICK c \in Commands : commands = <<c>>
            BY <5>2
          <6> QED
            BY <6>1, CommandNames
        <5> QED
          BY <5>1, <5>2
      <4>2. reliable' \in [Builders -> BOOLEAN]
        <5>1. NoneThere \in BOOLEAN
          BY DEF NoneThere
        <5> QED
          BY <5>1
      <4>3. full' \in [Builders -> BOOLEAN]
              /\ passed' \in [Builders -> BOOLEAN]
        OBVIOUS
      <4>4. crossed' \in [Builders -> BOOLEAN]
              /\ alone' \in [Builders -> BOOLEAN]
        OBVIOUS
      <4>5. mode' \in [Builders -> Modes]
              /\ left' \in [Builders -> Seq(Commands)]
        BY <4>1
      <4>6. sessions' \in 0..MaxSessions
        OBVIOUS
      <4> QED
        BY <4>2, <4>3, <4>4, <4>5, <4>6
    <3>2. ProgressInv'
      OBVIOUS
    <3> QED
      BY <3>1, <3>2
  <2>2. ASSUME NEW b \in Builders, Fails(b)
        PROVE  TypesInv'
    <3> USE <2>2 DEF Fails, Stops, ForgetLocals
    <3>1. TypeOK'
      OBVIOUS
    <3>2. ProgressInv'
      OBVIOUS
    <3> QED
      BY <3>1, <3>2
  <2>3. ASSUME NEW b \in Builders, ResolveStorage(b)
        PROVE  TypesInv'
    <3> USE <2>3 DEF ResolveStorage, Goes
    <3>1. FirstCall[Head(left[b])] \in {"pull", "build", "exists"}
      BY CommandNames
    <3>2. TypeOK'
      BY <3>1
    <3>3. ProgressInv'
      BY <3>1
    <3> QED
      BY <3>2, <3>3
  <2>4. ASSUME NEW b \in Builders, NEW d \in Digests, PullBase(b, d)
        PROVE  TypesInv'
    <3> USE <2>4 DEF PullBase, Goes
    <3>1. TypeOK'
      OBVIOUS
    <3>2. ProgressInv'
      OBVIOUS
    <3> QED
      BY <3>1, <3>2
  <2>5. ASSUME NEW b \in Builders, NEW d \in Digests, BuildImage(b, d)
        PROVE  TypesInv'
    <3> USE <2>5 DEF BuildImage, Goes
    <3>1. storageConf \in Modes
      BY CommandNames
    <3>2. image' \in [Modes -> Images \cup {NoImage}]
      <4>1. ASSUME builds < MaxBuilds, builds' = builds + 1
            PROVE  [n |-> builds', base |-> d] \in Images
        BY <4>1 DEF Images
      <4> QED
        BY <4>1, <3>1
    <3>3. TypeOK'
      BY <3>1, <3>2
    <3>4. ProgressInv'
      OBVIOUS
    <3> QED
      BY <3>3, <3>4
  <2>6. ASSUME NEW b \in Builders, PinBase(b)
        PROVE  TypesInv'
    <3> USE <2>6 DEF PinBase, Passes, ForgetLocals
    <3>1. TypeOK'
      <4>1. Running(b)
        OBVIOUS
      <4>2. storageConf \in Modes
        BY CommandNames
      <4> HIDE DEF Passes, Stops
      <4> QED
        BY <4>1, <4>2, SessionTypes
    <3>2. ProgressInv'
      OBVIOUS
    <3> QED
      BY <3>1, <3>2
  <2>7. ASSUME NEW b \in Builders, WriteImageId(b)
        PROVE  TypesInv'
    <3> USE <2>7 DEF WriteImageId, Passes, ForgetLocals
    <3>1. TypeOK'
      <4>1. Running(b)
        OBVIOUS
      <4>2. storageConf \in Modes
        BY CommandNames
      <4> HIDE DEF Passes, Stops
      <4> QED
        BY <4>1, <4>2, SessionTypes
    <3>2. ProgressInv'
      OBVIOUS
    <3> QED
      BY <3>1, <3>2
  <2>8. ASSUME NEW b \in Builders, CheckExists(b)
        PROVE  TypesInv'
    <3> USE <2>8 DEF CheckExists, Goes
    <3>1. TypeOK'
      OBVIOUS
    <3>2. ProgressInv'
      OBVIOUS
    <3> QED
      BY <3>1, <3>2
  <2>9. ASSUME NEW b \in Builders, InspectImage(b)
        PROVE  TypesInv'
    <3> USE <2>9 DEF InspectImage, Goes
    <3>1. Visible \in Images
      BY CommandNames
    <3>2. TypeOK'
      BY <3>1
    <3>3. ProgressInv'
      BY <3>1
    <3> QED
      BY <3>2, <3>3
  <2>10. ASSUME NEW b \in Builders, WriteCheck(b)
        PROVE  TypesInv'
    <3> USE <2>10 DEF WriteCheck, Passes, ForgetLocals
    <3>1. TypeOK'
      <4>1. Running(b)
        OBVIOUS
      <4>2. storageConf \in Modes
        BY CommandNames
      <4>3. checked' \in Checks
        BY <4>2 DEF Checks
      <4> HIDE DEF Passes, Stops
      <4> QED
        BY <4>1, <4>3, SessionTypes
    <3>2. ProgressInv'
      OBVIOUS
    <3> QED
      BY <3>1, <3>2
  <2>11. ASSUME NEW b \in Builders, FindImage(b)
        PROVE  TypesInv'
    <3> USE <2>11 DEF FindImage, Goes
    <3>1. TypeOK'
      OBVIOUS
    <3>2. ProgressInv'
      OBVIOUS
    <3> QED
      BY <3>1, <3>2
  <2>12. ASSUME NEW b \in Builders, NEW n \in Names, Convert(b, n)
        PROVE  TypesInv'
    <3> USE <2>12 DEF Convert, WriteDisk, Goes
    <3>1. image[mode[b]] \in Images
      OBVIOUS
    <3>2. disks' \in [Names -> Disks \cup {NoDisk}] /\ writes' \in 0..MaxDisks
      <4>1. writes' \in 1..MaxDisks
        OBVIOUS
      <4>2. [image |-> image[mode[b]], stamp |-> writes',
              whole |-> TRUE] \in Disks
        BY <3>1, <4>1 DEF Disks
      <4> QED
        BY <4>1, <4>2
    <3>3. \A o \in Names : Present(o) => disks'[o] # NoDisk
      <4>1. writes' # 0
        OBVIOUS
      <4> QED
        BY <3>2, <4>1 DEF NoDisk
    <3>4. TypeOK'
      BY <3>2
    <3>5. ProgressInv'
      BY <3>3
    <3> QED
      BY <3>4, <3>5
  <2>13. ASSUME NEW b \in Builders, NEW n \in Names, ConvertBreaksOff(b, n)
        PROVE  TypesInv'
    <3> USE <2>13 DEF ConvertBreaksOff, WriteDisk, Stops, ForgetLocals
    <3>1. image[mode[b]] \in Images
      OBVIOUS
    <3>2. disks' \in [Names -> Disks \cup {NoDisk}] /\ writes' \in 0..MaxDisks
      <4>1. writes' \in 1..MaxDisks
        OBVIOUS
      <4>2. [image |-> image[mode[b]], stamp |-> writes',
              whole |-> FALSE] \in Disks
        BY <3>1, <4>1 DEF Disks
      <4> QED
        BY <4>1, <4>2
    <3>3. \A o \in Names : Present(o) => disks'[o] # NoDisk
      <4>1. writes' # 0
        OBVIOUS
      <4> QED
        BY <3>2, <4>1 DEF NoDisk
    <3>4. TypeOK'
      <4> HIDE DEF Stops
      <4> QED
        BY <3>2, SessionTypes
    <3>5. ProgressInv'
      BY <3>3
    <3> QED
      BY <3>4, <3>5
  <2>14. ASSUME NEW b \in Builders, ConvertElsewhere(b)
        PROVE  TypesInv'
    <3> USE <2>14 DEF ConvertElsewhere, Goes
    <3>1. TypeOK'
      OBVIOUS
    <3>2. ProgressInv'
      OBVIOUS
    <3> QED
      BY <3>1, <3>2
  <2>15. ASSUME NEW b \in Builders, AcceptArtifact(b)
        PROVE  TypesInv'
    <3> USE <2>15 DEF AcceptArtifact, Passes, ForgetLocals
    <3>1. TypeOK'
      <4>1. Running(b)
        OBVIOUS
      <4> HIDE DEF Passes, Stops
      <4> QED
        BY <4>1, SessionTypes
    <3>2. ProgressInv'
      OBVIOUS
    <3> QED
      BY <3>1, <3>2
  <2>16. ASSUME NEW b \in Builders, WriteMetadata(b)
        PROVE  TypesInv'
    <3> USE <2>16 DEF WriteMetadata, Hash, Passes, ForgetLocals
    <3>1. TypeOK'
      <4>1. Running(b)
        OBVIOUS
      <4> HIDE DEF Passes, Stops
      <4> QED
        BY <4>1, SessionTypes
    <3>2. ProgressInv'
      OBVIOUS
    <3> QED
      BY <3>1, <3>2
  <2>17. ASSUME NEW b \in Builders, FindDisk(b)
        PROVE  TypesInv'
    <3> USE <2>17 DEF FindDisk, Newest, Goes
    <3>1. PICK n \in Names : Present(n) /\ target' = [target EXCEPT ![b] = n]
      OBVIOUS
    <3>2. TypeOK'
      BY <3>1
    <3>3. ASSUME NEW c \in Builders, Booting(c)'
          PROVE  target'[c] \in Names /\ disks'[target'[c]] # NoDisk
      <4>1. CASE c = b
        BY <3>1, <4>1
      <4>2. CASE c # b
        BY <3>1, <3>3, <4>2
      <4> QED
        BY <4>1, <4>2
    <3>4. ASSUME NEW c \in Builders
          PROVE  /\ ~Running(c)' => step'[c] = "start"
                 /\ UsesPodman(c)' => storageConf' \in Modes
                 /\ At(c, "image-check", "version")' =>
                      inspected'[c] \in Images
      <4>1. CASE c = b
        BY <3>1, <4>1, CommandNames
      <4>2. CASE c # b
        BY <4>2
      <4> QED
        BY <4>1, <4>2
    <3>5. ProgressInv'
      BY <3>3, <3>4
    <3> QED
      BY <3>2, <3>5
  <2>18. ASSUME NEW b \in Builders, LookUpHash(b)
        PROVE  TypesInv'
    <3> USE <2>18 DEF LookUpHash, Goes
    <3>1. TypeOK'
      OBVIOUS
    <3>2. ProgressInv'
      OBVIOUS
    <3> QED
      BY <3>1, <3>2
  <2>19. ASSUME NEW b \in Builders, BootPasses(b)
        PROVE  TypesInv'
    <3> USE <2>19 DEF BootPasses, Passes, ForgetLocals
    <3>1. TypeOK'
      <4>1. Running(b)
        OBVIOUS
      <4>2. booted' \in Boots
        BY DEF Boots
      <4> HIDE DEF Passes, Stops
      <4> QED
        BY <4>1, <4>2, SessionTypes
    <3>2. ProgressInv'
      OBVIOUS
    <3> QED
      BY <3>1, <3>2
  <2>20. CASE UNCHANGED vars
    BY <2>20 DEF vars
  <2> HIDE DEF TypesInv, TypeOK, ProgressInv, Modes, Running, At,
             UsesPodman, Booting, Present, Visible
  <2> QED
    BY <2>1, <2>2, <2>3, <2>4, <2>5, <2>6, <2>7, <2>8, <2>9,
       <2>10, <2>11, <2>12, <2>13, <2>14, <2>15, <2>16, <2>17, <2>18, <2>19,
         <2>20
       DEF Next, Works
<1> QED
  BY <1>1, <1>2, PTL DEF Spec

(* Every variable has its type in all states. *)
THEOREM TypeCorrect == Spec => []TypeOK
<1>1. TypesInv => TypeOK
  BY DEF TypesInv
<1> QED
  BY <1>1, TypesAndProgress, PTL

(* Who begins learns of those at work, and they of it. *)
LEMMA OverlapInvariant == Spec => []OverlapInv
<1>1. Init => OverlapInv
  BY DEF Init, OverlapInv, Running
<1>2. TypesInv /\ OverlapInv /\ [Next]_vars => OverlapInv'
  <2> SUFFICES ASSUME TypesInv, OverlapInv, [Next]_vars
               PROVE  OverlapInv'
    OBVIOUS
  <2> USE PipelineAssumption
  <2> USE DEF storage, qcow2, evidence, session, locals, history
  <2> USE Rest DEF TypesInv, TypeOK, OverlapInv, Running, At
  <2>1. ASSUME NEW b \in Builders, NEW m \in Modes,
               NEW commands \in {Plan} \cup {<<c>> : c \in Commands},
               Begin(b, m, commands)
        PROVE  OverlapInv'
    BY <2>1 DEF Begin
  <2>2. ASSUME NEW b \in Builders, Fails(b)
        PROVE  OverlapInv'
    BY <2>2 DEF Fails, Stops, ForgetLocals
  <2>3. ASSUME NEW b \in Builders, ResolveStorage(b)
        PROVE  OverlapInv'
    BY <2>3 DEF ResolveStorage, Goes
  <2>4. ASSUME NEW b \in Builders, NEW d \in Digests, PullBase(b, d)
        PROVE  OverlapInv'
    BY <2>4 DEF PullBase, Goes
  <2>5. ASSUME NEW b \in Builders, NEW d \in Digests, BuildImage(b, d)
        PROVE  OverlapInv'
    BY <2>5 DEF BuildImage, Goes
  <2>6. ASSUME NEW b \in Builders, PinBase(b)
        PROVE  OverlapInv'
    BY <2>6 DEF PinBase, Passes, ForgetLocals
  <2>7. ASSUME NEW b \in Builders, WriteImageId(b)
        PROVE  OverlapInv'
    BY <2>7 DEF WriteImageId, Passes, ForgetLocals
  <2>8. ASSUME NEW b \in Builders, CheckExists(b)
        PROVE  OverlapInv'
    BY <2>8 DEF CheckExists, Goes
  <2>9. ASSUME NEW b \in Builders, InspectImage(b)
        PROVE  OverlapInv'
    BY <2>9 DEF InspectImage, Goes
  <2>10. ASSUME NEW b \in Builders, WriteCheck(b)
        PROVE  OverlapInv'
    BY <2>10 DEF WriteCheck, Passes, ForgetLocals
  <2>11. ASSUME NEW b \in Builders, FindImage(b)
        PROVE  OverlapInv'
    BY <2>11 DEF FindImage, Goes
  <2>12. ASSUME NEW b \in Builders, NEW n \in Names, Convert(b, n)
        PROVE  OverlapInv'
    BY <2>12 DEF Convert, WriteDisk, Goes
  <2>13. ASSUME NEW b \in Builders, NEW n \in Names, ConvertBreaksOff(b, n)
        PROVE  OverlapInv'
    BY <2>13 DEF ConvertBreaksOff, WriteDisk, Stops, ForgetLocals
  <2>14. ASSUME NEW b \in Builders, ConvertElsewhere(b)
        PROVE  OverlapInv'
    BY <2>14 DEF ConvertElsewhere, Goes
  <2>15. ASSUME NEW b \in Builders, AcceptArtifact(b)
        PROVE  OverlapInv'
    BY <2>15 DEF AcceptArtifact, Passes, ForgetLocals
  <2>16. ASSUME NEW b \in Builders, WriteMetadata(b)
        PROVE  OverlapInv'
    BY <2>16 DEF WriteMetadata, Hash, Passes, ForgetLocals
  <2>17. ASSUME NEW b \in Builders, FindDisk(b)
        PROVE  OverlapInv'
    BY <2>17 DEF FindDisk, Newest, Goes
  <2>18. ASSUME NEW b \in Builders, LookUpHash(b)
        PROVE  OverlapInv'
    BY <2>18 DEF LookUpHash, Goes
  <2>19. ASSUME NEW b \in Builders, BootPasses(b)
        PROVE  OverlapInv'
    BY <2>19 DEF BootPasses, Passes, ForgetLocals
  <2>20. CASE UNCHANGED vars
    BY <2>20 DEF vars
  <2> QED
    BY <2>1, <2>2, <2>3, <2>4, <2>5, <2>6, <2>7, <2>8, <2>9,
       <2>10, <2>11, <2>12, <2>13, <2>14, <2>15, <2>16, <2>17, <2>18, <2>19,
         <2>20
       DEF Next, Works
<1> QED
  BY <1>1, <1>2, TypesAndProgress, PTL DEF Spec

(* Podman is used on the graphroot of the session's own mode, image-builder *)
(* too, unless a session of the other mode overlaps.                         *)
THEOREM GraphrootIsOwn == Spec => []OwnGraphroot
<1>1. Init => OwnGraphroot
  BY DEF Init, OwnGraphroot, Running
<1>2. TypesInv /\ OverlapInv /\ OwnGraphroot /\ [Next]_vars
        => OwnGraphroot'
  <2> SUFFICES ASSUME TypesInv, OverlapInv, OwnGraphroot, [Next]_vars
               PROVE  OwnGraphroot'
    OBVIOUS
  <2> USE PipelineAssumption
  <2> USE DEF storage, qcow2, evidence, session, locals, history
  <2> USE Rest
         DEF TypesInv, TypeOK, ProgressInv, OverlapInv, OwnGraphroot, Running,
             At
  <2>1. ASSUME NEW b \in Builders, NEW m \in Modes,
               NEW commands \in {Plan} \cup {<<c>> : c \in Commands},
               Begin(b, m, commands)
        PROVE  OwnGraphroot'
    BY <2>1 DEF Begin
  <2>2. ASSUME NEW b \in Builders, Fails(b)
        PROVE  OwnGraphroot'
    BY <2>2 DEF Fails, Stops, ForgetLocals
  <2>3. ASSUME NEW b \in Builders, ResolveStorage(b)
        PROVE  OwnGraphroot'
    BY <2>3 DEF ResolveStorage, Goes
  <2>4. ASSUME NEW b \in Builders, NEW d \in Digests, PullBase(b, d)
        PROVE  OwnGraphroot'
    BY <2>4 DEF PullBase, Goes
  <2>5. ASSUME NEW b \in Builders, NEW d \in Digests, BuildImage(b, d)
        PROVE  OwnGraphroot'
    BY <2>5 DEF BuildImage, Goes
  <2>6. ASSUME NEW b \in Builders, PinBase(b)
        PROVE  OwnGraphroot'
    BY <2>6 DEF PinBase, Passes, ForgetLocals
  <2>7. ASSUME NEW b \in Builders, WriteImageId(b)
        PROVE  OwnGraphroot'
    BY <2>7 DEF WriteImageId, Passes, ForgetLocals
  <2>8. ASSUME NEW b \in Builders, CheckExists(b)
        PROVE  OwnGraphroot'
    BY <2>8 DEF CheckExists, Goes
  <2>9. ASSUME NEW b \in Builders, InspectImage(b)
        PROVE  OwnGraphroot'
    BY <2>9 DEF InspectImage, Goes
  <2>10. ASSUME NEW b \in Builders, WriteCheck(b)
        PROVE  OwnGraphroot'
    BY <2>10 DEF WriteCheck, Passes, ForgetLocals
  <2>11. ASSUME NEW b \in Builders, FindImage(b)
        PROVE  OwnGraphroot'
    BY <2>11 DEF FindImage, Goes
  <2>12. ASSUME NEW b \in Builders, NEW n \in Names, Convert(b, n)
        PROVE  OwnGraphroot'
    BY <2>12 DEF Convert, WriteDisk, Goes
  <2>13. ASSUME NEW b \in Builders, NEW n \in Names, ConvertBreaksOff(b, n)
        PROVE  OwnGraphroot'
    BY <2>13 DEF ConvertBreaksOff, WriteDisk, Stops, ForgetLocals
  <2>14. ASSUME NEW b \in Builders, ConvertElsewhere(b)
        PROVE  OwnGraphroot'
    BY <2>14 DEF ConvertElsewhere, Goes
  <2>15. ASSUME NEW b \in Builders, AcceptArtifact(b)
        PROVE  OwnGraphroot'
    BY <2>15 DEF AcceptArtifact, Passes, ForgetLocals
  <2>16. ASSUME NEW b \in Builders, WriteMetadata(b)
        PROVE  OwnGraphroot'
    BY <2>16 DEF WriteMetadata, Hash, Passes, ForgetLocals
  <2>17. ASSUME NEW b \in Builders, FindDisk(b)
        PROVE  OwnGraphroot'
    BY <2>17, CommandNames DEF FindDisk, Newest, Goes
  <2>18. ASSUME NEW b \in Builders, LookUpHash(b)
        PROVE  OwnGraphroot'
    BY <2>18 DEF LookUpHash, Goes
  <2>19. ASSUME NEW b \in Builders, BootPasses(b)
        PROVE  OwnGraphroot'
    BY <2>19 DEF BootPasses, Passes, ForgetLocals
  <2>20. CASE UNCHANGED vars
    BY <2>20 DEF vars
  <2> QED
    BY <2>1, <2>2, <2>3, <2>4, <2>5, <2>6, <2>7, <2>8, <2>9,
       <2>10, <2>11, <2>12, <2>13, <2>14, <2>15, <2>16, <2>17, <2>18, <2>19,
         <2>20
       DEF Next, Works
<1> QED
  BY <1>1, <1>2, TypesAndProgress, OverlapInvariant, PTL DEF Spec

(* Every disk gets a new stamp, so what has been hashed is never younger. *)
LEMMA StampsInvariant == Spec => []StampsInv
<1>1. Init => StampsInv
  BY DEF Init, StampsInv, Running, At, NoDisk
<1>2. TypesInv /\ StampsInv /\ [Next]_vars => StampsInv'
  <2> SUFFICES ASSUME TypesInv, StampsInv, [Next]_vars
               PROVE  StampsInv'
    OBVIOUS
  <2> USE PipelineAssumption
  <2> USE DEF storage, qcow2, evidence, session, locals, history
  <2> USE Rest
         DEF TypesInv, TypeOK, ProgressInv, StampsInv, Running, At, Booting,
             Present, UsesPodman
  <2>1. ASSUME NEW b \in Builders, NEW m \in Modes,
               NEW commands \in {Plan} \cup {<<c>> : c \in Commands},
               Begin(b, m, commands)
        PROVE  StampsInv'
    BY <2>1 DEF Begin
  <2>2. ASSUME NEW b \in Builders, Fails(b)
        PROVE  StampsInv'
    BY <2>2 DEF Fails, Stops, ForgetLocals
  <2>3. ASSUME NEW b \in Builders, ResolveStorage(b)
        PROVE  StampsInv'
    BY <2>3, CommandNames DEF ResolveStorage, Goes
  <2>4. ASSUME NEW b \in Builders, NEW d \in Digests, PullBase(b, d)
        PROVE  StampsInv'
    BY <2>4 DEF PullBase, Goes
  <2>5. ASSUME NEW b \in Builders, NEW d \in Digests, BuildImage(b, d)
        PROVE  StampsInv'
    BY <2>5 DEF BuildImage, Goes
  <2>6. ASSUME NEW b \in Builders, PinBase(b)
        PROVE  StampsInv'
    BY <2>6 DEF PinBase, Passes, ForgetLocals
  <2>7. ASSUME NEW b \in Builders, WriteImageId(b)
        PROVE  StampsInv'
    BY <2>7 DEF WriteImageId, Passes, ForgetLocals
  <2>8. ASSUME NEW b \in Builders, CheckExists(b)
        PROVE  StampsInv'
    BY <2>8 DEF CheckExists, Goes
  <2>9. ASSUME NEW b \in Builders, InspectImage(b)
        PROVE  StampsInv'
    BY <2>9 DEF InspectImage, Goes
  <2>10. ASSUME NEW b \in Builders, WriteCheck(b)
        PROVE  StampsInv'
    BY <2>10 DEF WriteCheck, Passes, ForgetLocals
  <2>11. ASSUME NEW b \in Builders, FindImage(b)
        PROVE  StampsInv'
    BY <2>11 DEF FindImage, Goes
  <2>12. ASSUME NEW b \in Builders, NEW n \in Names, Convert(b, n)
        PROVE  StampsInv'
    <3> USE <2>12 DEF Convert, WriteDisk, Goes
    <3>1. /\ writes \in Nat /\ writes' = writes + 1
          /\ disks'[n].stamp = writes'
          /\ \A o \in Names : /\ disks[o].stamp \in Nat
                              /\ metadata[o].stamp \in Nat
                              /\ o # n => disks'[o] = disks[o]
      BY DEF Disks, NoDisk
    <3>2. ASSUME NEW o \in Names
          PROVE  /\ disks'[o].stamp <= writes'
                 /\ metadata'[o] = disks'[o]
                      \/ metadata'[o].stamp < disks'[o].stamp
      BY <3>1
    <3>3. ASSUME NEW c \in Builders, At(c, "boot-smoke", "boot")'
          PROVE  \/ sha'[c] = disks'[target'[c]]
                 \/ sha'[c].stamp < disks'[target'[c]].stamp
      <4>1. /\ c # b /\ At(c, "boot-smoke", "boot")
            /\ sha'[c] = sha[c] /\ target'[c] = target[c]
            /\ target[c] \in Names
        BY <3>3, EmptySeq
      <4>2. \/ sha[c] = disks[target[c]]
            \/ sha[c].stamp < disks[target[c]].stamp
        BY <4>1
      <4>3. CASE target[c] = n
        <5>1. sha[c].stamp \in Nat
          BY DEF Disks, NoDisk
        <5> QED
          BY <3>1, <4>1, <4>2, <4>3, <5>1
      <4>4. CASE target[c] # n
        BY <3>1, <4>1, <4>2, <4>4
      <4> QED
        BY <4>3, <4>4
    <3> QED
      BY <3>2, <3>3
  <2>13. ASSUME NEW b \in Builders, NEW n \in Names, ConvertBreaksOff(b, n)
        PROVE  StampsInv'
    <3> USE <2>13 DEF ConvertBreaksOff, WriteDisk, Stops, ForgetLocals
    <3>1. /\ writes \in Nat /\ writes' = writes + 1
          /\ disks'[n].stamp = writes'
          /\ \A o \in Names : /\ disks[o].stamp \in Nat
                              /\ metadata[o].stamp \in Nat
                              /\ o # n => disks'[o] = disks[o]
      BY DEF Disks, NoDisk
    <3>2. ASSUME NEW o \in Names
          PROVE  /\ disks'[o].stamp <= writes'
                 /\ metadata'[o] = disks'[o]
                      \/ metadata'[o].stamp < disks'[o].stamp
      BY <3>1
    <3>3. ASSUME NEW c \in Builders, At(c, "boot-smoke", "boot")'
          PROVE  \/ sha'[c] = disks'[target'[c]]
                 \/ sha'[c].stamp < disks'[target'[c]].stamp
      <4>1. /\ c # b /\ At(c, "boot-smoke", "boot")
            /\ sha'[c] = sha[c] /\ target'[c] = target[c]
            /\ target[c] \in Names
        BY <3>3, EmptySeq
      <4>2. \/ sha[c] = disks[target[c]]
            \/ sha[c].stamp < disks[target[c]].stamp
        BY <4>1
      <4>3. CASE target[c] = n
        <5>1. sha[c].stamp \in Nat
          BY DEF Disks, NoDisk
        <5> QED
          BY <3>1, <4>1, <4>2, <4>3, <5>1
      <4>4. CASE target[c] # n
        BY <3>1, <4>1, <4>2, <4>4
      <4> QED
        BY <4>3, <4>4
    <3> QED
      BY <3>2, <3>3
  <2>14. ASSUME NEW b \in Builders, ConvertElsewhere(b)
        PROVE  StampsInv'
    BY <2>14 DEF ConvertElsewhere, Goes
  <2>15. ASSUME NEW b \in Builders, AcceptArtifact(b)
        PROVE  StampsInv'
    BY <2>15 DEF AcceptArtifact, Passes, ForgetLocals
  <2>16. ASSUME NEW b \in Builders, WriteMetadata(b)
        PROVE  StampsInv'
    BY <2>16 DEF WriteMetadata, Hash, Passes, ForgetLocals
  <2>17. ASSUME NEW b \in Builders, FindDisk(b)
        PROVE  StampsInv'
    BY <2>17 DEF FindDisk, Newest, Goes
  <2>18. ASSUME NEW b \in Builders, LookUpHash(b)
        PROVE  StampsInv'
    BY <2>18 DEF LookUpHash, Goes
  <2>19. ASSUME NEW b \in Builders, BootPasses(b)
        PROVE  StampsInv'
    BY <2>19 DEF BootPasses, Passes, ForgetLocals
  <2>20. CASE UNCHANGED vars
    BY <2>20 DEF vars
  <2> QED
    BY <2>1, <2>2, <2>3, <2>4, <2>5, <2>6, <2>7, <2>8, <2>9,
       <2>10, <2>11, <2>12, <2>13, <2>14, <2>15, <2>16, <2>17, <2>18, <2>19,
         <2>20
       DEF Next, Works
<1> QED
  BY <1>1, <1>2, TypesAndProgress, PTL DEF Spec

(* Nobody else is at work while a lone image-check looks. *)
LEMMA InspectedInvariant == Spec => []InspectedInv
<1>1. Init => InspectedInv
  BY DEF Init, InspectedInv, Running, At
<1>2. TypesInv /\ OverlapInv /\ InspectedInv /\ [Next]_vars
        => InspectedInv'
  <2> SUFFICES ASSUME TypesInv, OverlapInv, InspectedInv, [Next]_vars
               PROVE  InspectedInv'
    OBVIOUS
  <2> USE PipelineAssumption
  <2> USE DEF storage, qcow2, evidence, session, locals, history
  <2> USE Rest
         DEF TypesInv, TypeOK, ProgressInv, OverlapInv, InspectedInv, Running,
             At, Visible
  <2>1. ASSUME NEW b \in Builders, NEW m \in Modes,
               NEW commands \in {Plan} \cup {<<c>> : c \in Commands},
               Begin(b, m, commands)
        PROVE  InspectedInv'
    BY <2>1 DEF Begin
  <2>2. ASSUME NEW b \in Builders, Fails(b)
        PROVE  InspectedInv'
    BY <2>2 DEF Fails, Stops, ForgetLocals
  <2>3. ASSUME NEW b \in Builders, ResolveStorage(b)
        PROVE  InspectedInv'
    BY <2>3, CommandNames DEF ResolveStorage, Goes
  <2>4. ASSUME NEW b \in Builders, NEW d \in Digests, PullBase(b, d)
        PROVE  InspectedInv'
    BY <2>4 DEF PullBase, Goes
  <2>5. ASSUME NEW b \in Builders, NEW d \in Digests, BuildImage(b, d)
        PROVE  InspectedInv'
    BY <2>5 DEF BuildImage, Goes
  <2>6. ASSUME NEW b \in Builders, PinBase(b)
        PROVE  InspectedInv'
    BY <2>6 DEF PinBase, Passes, ForgetLocals
  <2>7. ASSUME NEW b \in Builders, WriteImageId(b)
        PROVE  InspectedInv'
    BY <2>7 DEF WriteImageId, Passes, ForgetLocals
  <2>8. ASSUME NEW b \in Builders, CheckExists(b)
        PROVE  InspectedInv'
    BY <2>8 DEF CheckExists, Goes
  <2>9. ASSUME NEW b \in Builders, InspectImage(b)
        PROVE  InspectedInv'
    BY <2>9 DEF InspectImage, Goes
  <2>10. ASSUME NEW b \in Builders, WriteCheck(b)
        PROVE  InspectedInv'
    BY <2>10 DEF WriteCheck, Passes, ForgetLocals
  <2>11. ASSUME NEW b \in Builders, FindImage(b)
        PROVE  InspectedInv'
    BY <2>11 DEF FindImage, Goes
  <2>12. ASSUME NEW b \in Builders, NEW n \in Names, Convert(b, n)
        PROVE  InspectedInv'
    BY <2>12 DEF Convert, WriteDisk, Goes
  <2>13. ASSUME NEW b \in Builders, NEW n \in Names, ConvertBreaksOff(b, n)
        PROVE  InspectedInv'
    BY <2>13 DEF ConvertBreaksOff, WriteDisk, Stops, ForgetLocals
  <2>14. ASSUME NEW b \in Builders, ConvertElsewhere(b)
        PROVE  InspectedInv'
    BY <2>14 DEF ConvertElsewhere, Goes
  <2>15. ASSUME NEW b \in Builders, AcceptArtifact(b)
        PROVE  InspectedInv'
    BY <2>15 DEF AcceptArtifact, Passes, ForgetLocals
  <2>16. ASSUME NEW b \in Builders, WriteMetadata(b)
        PROVE  InspectedInv'
    BY <2>16 DEF WriteMetadata, Hash, Passes, ForgetLocals
  <2>17. ASSUME NEW b \in Builders, FindDisk(b)
        PROVE  InspectedInv'
    BY <2>17 DEF FindDisk, Newest, Goes
  <2>18. ASSUME NEW b \in Builders, LookUpHash(b)
        PROVE  InspectedInv'
    BY <2>18 DEF LookUpHash, Goes
  <2>19. ASSUME NEW b \in Builders, BootPasses(b)
        PROVE  InspectedInv'
    BY <2>19 DEF BootPasses, Passes, ForgetLocals
  <2>20. CASE UNCHANGED vars
    BY <2>20 DEF vars
  <2> QED
    BY <2>1, <2>2, <2>3, <2>4, <2>5, <2>6, <2>7, <2>8, <2>9,
       <2>10, <2>11, <2>12, <2>13, <2>14, <2>15, <2>16, <2>17, <2>18, <2>19,
         <2>20
       DEF Next, Works
<1> QED
  BY <1>1, <1>2, TypesAndProgress, OverlapInvariant, PTL DEF Spec

(* image-check.json and the hashes of the disks mix two builds only when *)
(* somebody has built in between.                                            *)
THEOREM EvidenceIsOfOneTime == Spec => []EvidenceMixesOnlyUnderRebuild
<1>1. Init => EvidenceMixesOnlyUnderRebuild
  BY DEF Init, EvidenceMixesOnlyUnderRebuild, NoCheck, NoBoot, NoDisk
<1>2. TypesInv /\ StampsInv /\ InspectedInv
        /\ EvidenceMixesOnlyUnderRebuild /\ [Next]_vars
        => EvidenceMixesOnlyUnderRebuild'
  <2> SUFFICES ASSUME TypesInv, StampsInv, InspectedInv,
                      EvidenceMixesOnlyUnderRebuild, [Next]_vars
               PROVE  EvidenceMixesOnlyUnderRebuild'
    OBVIOUS
  <2> USE PipelineAssumption
  <2> USE DEF storage, qcow2, evidence, session, locals, history
  <2> USE DEF TypesInv, TypeOK, StampsInv, InspectedInv,
              EvidenceMixesOnlyUnderRebuild, At, Running, Visible
  <2>1. ASSUME NEW b \in Builders, NEW m \in Modes,
               NEW commands \in {Plan} \cup {<<c>> : c \in Commands},
               Begin(b, m, commands)
        PROVE  EvidenceMixesOnlyUnderRebuild'
    BY <2>1 DEF Begin
  <2>2. ASSUME NEW b \in Builders, Fails(b)
        PROVE  EvidenceMixesOnlyUnderRebuild'
    BY <2>2 DEF Fails, Stops, ForgetLocals
  <2>3. ASSUME NEW b \in Builders, ResolveStorage(b)
        PROVE  EvidenceMixesOnlyUnderRebuild'
    BY <2>3 DEF ResolveStorage, Goes
  <2>4. ASSUME NEW b \in Builders, NEW d \in Digests, PullBase(b, d)
        PROVE  EvidenceMixesOnlyUnderRebuild'
    BY <2>4 DEF PullBase, Goes
  <2>5. ASSUME NEW b \in Builders, NEW d \in Digests, BuildImage(b, d)
        PROVE  EvidenceMixesOnlyUnderRebuild'
    BY <2>5 DEF BuildImage, Goes
  <2>6. ASSUME NEW b \in Builders, PinBase(b)
        PROVE  EvidenceMixesOnlyUnderRebuild'
    BY <2>6 DEF PinBase, Passes, ForgetLocals
  <2>7. ASSUME NEW b \in Builders, WriteImageId(b)
        PROVE  EvidenceMixesOnlyUnderRebuild'
    BY <2>7 DEF WriteImageId, Passes, ForgetLocals
  <2>8. ASSUME NEW b \in Builders, CheckExists(b)
        PROVE  EvidenceMixesOnlyUnderRebuild'
    BY <2>8 DEF CheckExists, Goes
  <2>9. ASSUME NEW b \in Builders, InspectImage(b)
        PROVE  EvidenceMixesOnlyUnderRebuild'
    BY <2>9 DEF InspectImage, Goes
  <2>10. ASSUME NEW b \in Builders, WriteCheck(b)
        PROVE  EvidenceMixesOnlyUnderRebuild'
    BY <2>10 DEF WriteCheck, Passes, ForgetLocals
  <2>11. ASSUME NEW b \in Builders, FindImage(b)
        PROVE  EvidenceMixesOnlyUnderRebuild'
    BY <2>11 DEF FindImage, Goes
  <2>12. ASSUME NEW b \in Builders, NEW n \in Names, Convert(b, n)
        PROVE  EvidenceMixesOnlyUnderRebuild'
    <3> USE <2>12 DEF Convert, WriteDisk, Goes
    <3>1. /\ writes \in Nat /\ writes' = writes + 1
          /\ disks'[n].stamp = writes'
          /\ \A o \in Names : /\ disks[o].stamp \in Nat
                              /\ metadata[o].stamp \in Nat
                              /\ o # n => disks'[o] = disks[o]
      BY DEF Disks, NoDisk
    <3>2. ASSUME NEW o \in Names
          PROVE  metadata'[o].stamp <= disks'[o].stamp
      BY <3>1
    <3> QED
      BY <3>2
  <2>13. ASSUME NEW b \in Builders, NEW n \in Names, ConvertBreaksOff(b, n)
        PROVE  EvidenceMixesOnlyUnderRebuild'
    <3> USE <2>13 DEF ConvertBreaksOff, WriteDisk, Stops, ForgetLocals
    <3>1. /\ writes \in Nat /\ writes' = writes + 1
          /\ disks'[n].stamp = writes'
          /\ \A o \in Names : /\ disks[o].stamp \in Nat
                              /\ metadata[o].stamp \in Nat
                              /\ o # n => disks'[o] = disks[o]
      BY DEF Disks, NoDisk
    <3>2. ASSUME NEW o \in Names
          PROVE  metadata'[o].stamp <= disks'[o].stamp
      BY <3>1
    <3> QED
      BY <3>2
  <2>14. ASSUME NEW b \in Builders, ConvertElsewhere(b)
        PROVE  EvidenceMixesOnlyUnderRebuild'
    BY <2>14 DEF ConvertElsewhere, Goes
  <2>15. ASSUME NEW b \in Builders, AcceptArtifact(b)
        PROVE  EvidenceMixesOnlyUnderRebuild'
    BY <2>15 DEF AcceptArtifact, Passes, ForgetLocals
  <2>16. ASSUME NEW b \in Builders, WriteMetadata(b)
        PROVE  EvidenceMixesOnlyUnderRebuild'
    <3> USE <2>16 DEF WriteMetadata, Hash, Passes, ForgetLocals
    <3>1. \A o \in Names : metadata'[o] = disks'[o] /\ disks'[o].stamp \in Nat
      BY DEF Disks, NoDisk
    <3> QED
      BY <3>1
  <2>17. ASSUME NEW b \in Builders, FindDisk(b)
        PROVE  EvidenceMixesOnlyUnderRebuild'
    BY <2>17 DEF FindDisk, Newest, Goes
  <2>18. ASSUME NEW b \in Builders, LookUpHash(b)
        PROVE  EvidenceMixesOnlyUnderRebuild'
    BY <2>18 DEF LookUpHash, Goes
  <2>19. ASSUME NEW b \in Builders, BootPasses(b)
        PROVE  EvidenceMixesOnlyUnderRebuild'
    BY <2>19 DEF BootPasses, Passes, ForgetLocals
  <2>20. CASE UNCHANGED vars
    BY <2>20 DEF vars
  <2> QED
    BY <2>1, <2>2, <2>3, <2>4, <2>5, <2>6, <2>7, <2>8, <2>9,
       <2>10, <2>11, <2>12, <2>13, <2>14, <2>15, <2>16, <2>17, <2>18, <2>19,
         <2>20
       DEF Next, Works
<1> QED
  BY <1>1, <1>2, TypesAndProgress, StampsInvariant, InspectedInvariant, PTL
     DEF Spec

(* A session that is alone stays so or is no longer called alone. *)
LEMMA LoneInvariant == Spec => []LoneInv
<1>1. Init => LoneInv
  BY DEF Init, LoneInv, Running
<1>2. TypesInv /\ LoneInv /\ [Next]_vars => LoneInv'
  <2> SUFFICES ASSUME TypesInv, LoneInv, [Next]_vars
               PROVE  LoneInv'
    OBVIOUS
  <2> USE PipelineAssumption
  <2> USE DEF storage, qcow2, evidence, session, locals, history
  <2> USE Rest DEF TypesInv, TypeOK, LoneInv, Running, At
  <2>1. ASSUME NEW b \in Builders, NEW m \in Modes,
               NEW commands \in {Plan} \cup {<<c>> : c \in Commands},
               Begin(b, m, commands)
        PROVE  LoneInv'
    BY <2>1 DEF Begin
  <2>2. ASSUME NEW b \in Builders, Fails(b)
        PROVE  LoneInv'
    BY <2>2 DEF Fails, Stops, ForgetLocals
  <2>3. ASSUME NEW b \in Builders, ResolveStorage(b)
        PROVE  LoneInv'
    BY <2>3 DEF ResolveStorage, Goes
  <2>4. ASSUME NEW b \in Builders, NEW d \in Digests, PullBase(b, d)
        PROVE  LoneInv'
    BY <2>4 DEF PullBase, Goes
  <2>5. ASSUME NEW b \in Builders, NEW d \in Digests, BuildImage(b, d)
        PROVE  LoneInv'
    BY <2>5 DEF BuildImage, Goes
  <2>6. ASSUME NEW b \in Builders, PinBase(b)
        PROVE  LoneInv'
    BY <2>6 DEF PinBase, Passes, ForgetLocals
  <2>7. ASSUME NEW b \in Builders, WriteImageId(b)
        PROVE  LoneInv'
    BY <2>7 DEF WriteImageId, Passes, ForgetLocals
  <2>8. ASSUME NEW b \in Builders, CheckExists(b)
        PROVE  LoneInv'
    BY <2>8 DEF CheckExists, Goes
  <2>9. ASSUME NEW b \in Builders, InspectImage(b)
        PROVE  LoneInv'
    BY <2>9 DEF InspectImage, Goes
  <2>10. ASSUME NEW b \in Builders, WriteCheck(b)
        PROVE  LoneInv'
    BY <2>10 DEF WriteCheck, Passes, ForgetLocals
  <2>11. ASSUME NEW b \in Builders, FindImage(b)
        PROVE  LoneInv'
    BY <2>11 DEF FindImage, Goes
  <2>12. ASSUME NEW b \in Builders, NEW n \in Names, Convert(b, n)
        PROVE  LoneInv'
    BY <2>12 DEF Convert, WriteDisk, Goes
  <2>13. ASSUME NEW b \in Builders, NEW n \in Names, ConvertBreaksOff(b, n)
        PROVE  LoneInv'
    BY <2>13 DEF ConvertBreaksOff, WriteDisk, Stops, ForgetLocals
  <2>14. ASSUME NEW b \in Builders, ConvertElsewhere(b)
        PROVE  LoneInv'
    BY <2>14 DEF ConvertElsewhere, Goes
  <2>15. ASSUME NEW b \in Builders, AcceptArtifact(b)
        PROVE  LoneInv'
    BY <2>15 DEF AcceptArtifact, Passes, ForgetLocals
  <2>16. ASSUME NEW b \in Builders, WriteMetadata(b)
        PROVE  LoneInv'
    BY <2>16 DEF WriteMetadata, Hash, Passes, ForgetLocals
  <2>17. ASSUME NEW b \in Builders, FindDisk(b)
        PROVE  LoneInv'
    BY <2>17 DEF FindDisk, Newest, Goes
  <2>18. ASSUME NEW b \in Builders, LookUpHash(b)
        PROVE  LoneInv'
    BY <2>18 DEF LookUpHash, Goes
  <2>19. ASSUME NEW b \in Builders, BootPasses(b)
        PROVE  LoneInv'
    BY <2>19 DEF BootPasses, Passes, ForgetLocals
  <2>20. CASE UNCHANGED vars
    BY <2>20 DEF vars
  <2> QED
    BY <2>1, <2>2, <2>3, <2>4, <2>5, <2>6, <2>7, <2>8, <2>9,
       <2>10, <2>11, <2>12, <2>13, <2>14, <2>15, <2>16, <2>17, <2>18, <2>19,
         <2>20
       DEF Next, Works
<1> QED
  BY <1>1, <1>2, TypesAndProgress, PTL DEF Spec

(* The order of the plan's gates. *)
LEMMA RestOfPlan ==
  ASSUME NEW s \in Rests, s # <<>>
  PROVE  /\ Tail(s) \in Rests
         /\ Head(s) \in Commands
         /\ Head(s) = "boot-smoke" <=> Tail(s) = <<>>
         /\ Head(s) = "boot-smoke" <=> Len(s) = 1
         /\ Head(s) = "builder-preflight" => Head(Tail(s)) = "build-image"
         /\ Head(s) = "build-image" => Head(Tail(s)) = "image-check"
         /\ Head(s) = "image-check" => Head(Tail(s)) = "build-qcow2"
         /\ Head(s) = "build-qcow2" => Head(Tail(s)) = "artifact-metadata"
         /\ Head(s) = "artifact-metadata" => Head(Tail(s)) = "boot-smoke"
<1>1. CASE s = Plan
  BY <1>1, CommandNames DEF Rests, Plan
<1>2. CASE s = <<"build-image", "image-check", "build-qcow2",
                 "artifact-metadata", "boot-smoke">>
  BY <1>2, CommandNames DEF Rests, Plan
<1>3. CASE s =
        <<"image-check", "build-qcow2", "artifact-metadata", "boot-smoke">>
  BY <1>3, CommandNames DEF Rests, Plan
<1>4. CASE s = <<"build-qcow2", "artifact-metadata", "boot-smoke">>
  BY <1>4, CommandNames DEF Rests, Plan
<1>5. CASE s = <<"artifact-metadata", "boot-smoke">>
  BY <1>5, CommandNames DEF Rests, Plan
<1>6. CASE s = <<"boot-smoke">>
  BY <1>6, CommandNames DEF Rests, Plan
<1> QED
  BY <1>1, <1>2, <1>3, <1>4, <1>5, <1>6 DEF Rests

(* A command of a plan that passes is followed by the next gate. *)
LEMMA NextGate ==
  ASSUME TypesInv, NEW b \in Builders, Running(b), left[b] \in Rests, Passes(b)
  PROVE  /\ left'[b] \in Rests /\ step'[b] = "start"
         /\ Gate(b) # "boot-smoke" => mode'[b] = mode[b]
         /\ Gate(b) = "builder-preflight" => Gate(b)' = "build-image"
         /\ Gate(b) = "build-image" => Gate(b)' = "image-check"
         /\ Gate(b) = "image-check" => Gate(b)' = "build-qcow2"
         /\ Gate(b) = "build-qcow2" => Gate(b)' = "artifact-metadata"
         /\ Gate(b) = "artifact-metadata" => Gate(b)' = "boot-smoke"
         /\ Gate(b) = "boot-smoke" => Gate(b)' = "done"
<1>1. left'[b] = Tail(left[b])
  BY DEF TypesInv, TypeOK, Passes
<1>2. mode'[b] = IF Len(left[b]) = 1 THEN "local" ELSE mode[b]
  BY DEF TypesInv, TypeOK, Passes
<1>3. step'[b] = "start"
  BY DEF TypesInv, TypeOK, Passes
<1> QED
  BY <1>1, <1>2, <1>3, RestOfPlan DEF Running, Gate

(* Of a plan that is alone only its own steps need a look. *)
LEMMA OneAtWork ==
  ASSUME LoneInv, PlanInv, NEW b \in Builders, Running(b),
         UNCHANGED <<full, alone>>,
         full[b] /\ alone[b] /\ PlanShown(b) => PlanShown(b)'
  PROVE  PlanInv'
BY DEF LoneInv, PlanInv

(* What a plan that is alone has shown after each of its gates. *)
LEMMA PlanInvariant == Spec => []PlanInv
<1>1. Init => PlanInv
  BY DEF Init, PlanInv
<1>2. TypesInv /\ LoneInv /\ OwnGraphroot /\ StampsInv /\ InspectedInv
        /\ PlanInv /\ [Next]_vars
        => PlanInv'
  <2> SUFFICES ASSUME TypesInv, LoneInv, OwnGraphroot, StampsInv,
                      InspectedInv, PlanInv, [Next]_vars
               PROVE  PlanInv'
    OBVIOUS
  <2> USE PipelineAssumption
  <2> USE DEF storage, qcow2, evidence, session, locals, history
  <2>1. ASSUME NEW b \in Builders, NEW m \in Modes,
               NEW commands \in {Plan} \cup {<<c>> : c \in Commands},
               Begin(b, m, commands)
        PROVE  PlanInv'
    <3> USE <2>1 DEF Begin
    <3>1. ASSUME NEW c \in Builders, full'[c], alone'[c]
          PROVE  c = b /\ commands = Plan
      BY <3>1 DEF TypesInv, TypeOK
    <3>2. ASSUME commands = Plan
          PROVE  PlanShown(b)'
      <4>1. /\ left'[b] = Plan /\ step'[b] = "start"
            /\ Gate(b)' = "builder-preflight"
            /\ Running(b)' /\ reliable'[b] = NoneThere
            /\ NoneThere' = NoneThere
        BY <3>2, CommandNames
           DEF TypesInv, TypeOK, ProgressInv, Running, Gate, Plan, NoneThere,
               Present
      <4> QED
        BY <4>1 DEF PlanShown, ImageShown, DiskShown, At, Gate, Rests
    <3> QED
      BY <3>1, <3>2 DEF PlanInv
  <2>2. ASSUME NEW b \in Builders, Fails(b)
        PROVE  PlanInv'
    <3>1. \A c \in Builders : full'[c] =>
            c # b /\ full[c] /\ alone'[c] = alone[c]
      BY <2>2 DEF Fails, Stops, ForgetLocals, TypesInv, TypeOK
    <3>2. Running(b)
      BY <2>2 DEF Fails, Stops, ForgetLocals, At
    <3> QED
      BY <3>1, <3>2 DEF PlanInv, LoneInv
  <2>3. ASSUME NEW b \in Builders, ResolveStorage(b)
        PROVE  PlanInv'
    <3> USE <2>3 DEF ResolveStorage, Goes
    <3>1. Running(b) /\ UNCHANGED <<full, alone>>
      BY DEF At
    <3>2. ASSUME full[b], alone[b], PlanShown(b)
          PROVE  PlanShown(b)'
      <4>1. FirstCall[Head(left[b])] \in {"pull", "build", "exists"}
            /\ (Gate(b) = "build-image" => step'[b] = "build")
            /\ (Gate(b) # "build-image" => step'[b] \in {"pull", "exists"})
        BY <3>1, CommandNames DEF TypesInv, TypeOK, Running, Gate
      <4>7. left'[b] = left[b] /\ Gate(b)' = Gate(b)
              /\ UNCHANGED <<mode, reliable>>
        BY <3>1, <3>2, <4>1 DEF TypesInv, TypeOK, PlanShown, Gate, At, Running
      <4>9. ImageShown(b)'
        BY <3>1, <3>2, <4>7, <4>1
           DEF PlanShown, ImageShown, Own, At, Running, NoneThere, Present,
               LatestIsBuilt, Newest
      <4>10. DiskShown(b) => DiskShown(b)'
        BY <3>1, <3>2, <4>7, <4>1
           DEF PlanShown, DiskShown, At, Running, NoneThere, Present,
               LatestIsBuilt, Newest
      <4> QED
        BY <3>1, <3>2, <4>7, <4>9, <4>10 DEF PlanShown
    <3> QED
      BY <3>1, <3>2, OneAtWork
  <2>4. ASSUME NEW b \in Builders, NEW d \in Digests, PullBase(b, d)
        PROVE  PlanInv'
    <3> USE <2>4 DEF PullBase, Goes
    <3>1. Running(b) /\ UNCHANGED <<full, alone>>
      BY DEF At
    <3>2. ASSUME full[b], alone[b], PlanShown(b)
          PROVE  PlanShown(b)'
      <4>1. storageConf = mode[b]
        BY <3>1, <3>2, CommandNames DEF OwnGraphroot, LoneInv, Running, At
      <4> QED
        BY <3>1, <3>2, <4>1
           DEF TypesInv, TypeOK, PlanShown, ImageShown, DiskShown, At,
               Running, Gate, Own, NoneThere, Present, LatestIsBuilt, Newest
    <3> QED
      BY <3>1, <3>2, OneAtWork
  <2>5. ASSUME NEW b \in Builders, NEW d \in Digests, BuildImage(b, d)
        PROVE  PlanInv'
    <3> USE <2>5 DEF BuildImage, Goes
    <3>1. Running(b) /\ UNCHANGED <<full, alone>>
      BY DEF At
    <3>2. ASSUME full[b], alone[b], PlanShown(b)
          PROVE  PlanShown(b)'
      <4>1. storageConf = mode[b]
        BY <3>1, <3>2, CommandNames DEF OwnGraphroot, LoneInv, Running, At
      <4>2. base[mode[b]] = pinned /\ pinned \in Digests
        BY <3>2 DEF PlanShown, ImageShown, DiskShown, At, Running, Gate, Own
      <4>3. d = pinned /\ image'[mode[b]].base = pinned
        BY <4>1, <4>2, PipelineAssumption DEF TypesInv, TypeOK, Visible
      <4>4. Gate(b)' = "build-image" /\ Gate(b) = "build-image"
              /\ step'[b] = "id"
        BY <3>1 DEF TypesInv, TypeOK, Gate, Running, At
      <4> QED
        BY <3>1, <3>2, <4>3, <4>4
           DEF PlanShown, ImageShown, DiskShown, At, Running, Gate, Own,
               NoneThere, Present, LatestIsBuilt, Newest
    <3> QED
      BY <3>1, <3>2, OneAtWork
  <2>6. ASSUME NEW b \in Builders, PinBase(b)
        PROVE  PlanInv'
    <3> USE <2>6 DEF PinBase
    <3>1. Running(b) /\ UNCHANGED <<full, alone>> /\ reliable' = reliable
      BY DEF At, Passes
    <3>2. ASSUME full[b], alone[b], PlanShown(b)
          PROVE  PlanShown(b)'
      <4>0. left[b] \in Rests /\ Running(b) /\ Passes(b)
        BY <3>1, <3>2 DEF PlanShown
      <4>1. storageConf = mode[b]
        BY <3>1, <3>2, CommandNames DEF OwnGraphroot, LoneInv, Running, At
      <4>2. pinned' = base[mode[b]] /\ pinned' \in Digests
        BY <4>1 DEF TypesInv, TypeOK
      <4> QED
        BY <3>1, <3>2, <4>0, NextGate, <4>2
           DEF PlanShown, ImageShown, DiskShown, At, Running, Gate, Own,
               NoneThere, Present, LatestIsBuilt, Newest
    <3> QED
      BY <3>1, <3>2, OneAtWork
  <2>7. ASSUME NEW b \in Builders, WriteImageId(b)
        PROVE  PlanInv'
    <3> USE <2>7 DEF WriteImageId
    <3>1. Running(b) /\ UNCHANGED <<full, alone>> /\ reliable' = reliable
      BY DEF At, Passes
    <3>2. ASSUME full[b], alone[b], PlanShown(b)
          PROVE  PlanShown(b)'
      <4>0. left[b] \in Rests /\ Running(b) /\ Passes(b)
        BY <3>1, <3>2 DEF PlanShown
      <4>1. storageConf = mode[b]
        BY <3>1, <3>2, CommandNames DEF OwnGraphroot, LoneInv, Running, At
      <4> QED
        BY <3>1, <3>2, <4>0, NextGate, <4>1
           DEF PlanShown, ImageShown, DiskShown, At, Running, Gate, Own,
               NoneThere, Present, LatestIsBuilt, Newest, Visible
    <3> QED
      BY <3>1, <3>2, OneAtWork
  <2>8. ASSUME NEW b \in Builders, CheckExists(b)
        PROVE  PlanInv'
    <3> USE <2>8 DEF CheckExists, Goes
    <3>1. Running(b) /\ UNCHANGED <<full, alone>>
      BY DEF At
    <3>2. ASSUME full[b], alone[b], PlanShown(b)
          PROVE  PlanShown(b)'
      BY <3>1, <3>2
         DEF TypesInv, TypeOK, PlanShown, ImageShown, DiskShown, At, Running,
             Gate, Own, NoneThere, Present, LatestIsBuilt, Newest
    <3> QED
      BY <3>1, <3>2, OneAtWork
  <2>9. ASSUME NEW b \in Builders, InspectImage(b)
        PROVE  PlanInv'
    <3> USE <2>9 DEF InspectImage, Goes
    <3>1. Running(b) /\ UNCHANGED <<full, alone>>
      BY DEF At
    <3>2. ASSUME full[b], alone[b], PlanShown(b)
          PROVE  PlanShown(b)'
      BY <3>1, <3>2
         DEF TypesInv, TypeOK, PlanShown, ImageShown, DiskShown, At, Running,
             Gate, Own, NoneThere, Present, LatestIsBuilt, Newest
    <3> QED
      BY <3>1, <3>2, OneAtWork
  <2>10. ASSUME NEW b \in Builders, WriteCheck(b)
        PROVE  PlanInv'
    <3> USE <2>10 DEF WriteCheck
    <3>1. Running(b) /\ UNCHANGED <<full, alone>> /\ reliable' = reliable
      BY DEF At, Passes
    <3>2. ASSUME full[b], alone[b], PlanShown(b)
          PROVE  PlanShown(b)'
      <4>0. left[b] \in Rests /\ Running(b) /\ Passes(b)
        BY <3>1, <3>2 DEF PlanShown
      <4>1. storageConf = mode[b]
        BY <3>1, <3>2, CommandNames DEF OwnGraphroot, LoneInv, Running, At
      <4>2. checked'.digest = Visible /\ checked'.version = Visible
        BY <3>2 DEF InspectedInv
      <4>7. /\ left'[b] \in Rests /\ Gate(b) = "image-check"
            /\ Gate(b)' = "build-qcow2" /\ step'[b] = "start"
            /\ mode'[b] = mode[b]
        BY <3>1, <3>2, <4>0, <4>1, <4>2, NextGate
           DEF TypesInv, TypeOK, PlanShown, Gate, At, Running
      <4>8. /\ ~At(b, "build-image", "start")'
            /\ ~At(b, "build-image", "build")'
            /\ ~At(b, "build-image", "id")'
            /\ ~At(b, "build-qcow2", "produced")'
            /\ ~At(b, "boot-smoke", "preboot")'
            /\ ~At(b, "boot-smoke", "boot")'
        BY <4>7 DEF At, Gate
      <4>11. NoneThere' <=> NoneThere
        BY DEF NoneThere, Present
      <4>9. ImageShown(b)'
        BY <3>1, <3>2, <4>7, <4>8, <4>1, <4>2
           DEF PlanShown, ImageShown, Own, Visible
      <4>10. DiskShown(b) => DiskShown(b)'
        BY <3>1, <3>2, <4>7, <4>8, <4>11 DEF PlanShown, DiskShown
      <4> QED
        BY <3>1, <3>2, <4>7, <4>9, <4>10 DEF PlanShown
    <3> QED
      BY <3>1, <3>2, OneAtWork
  <2>11. ASSUME NEW b \in Builders, FindImage(b)
        PROVE  PlanInv'
    <3> USE <2>11 DEF FindImage, Goes
    <3>1. Running(b) /\ UNCHANGED <<full, alone>>
      BY DEF At
    <3>2. ASSUME full[b], alone[b], PlanShown(b)
          PROVE  PlanShown(b)'
      BY <3>1, <3>2
         DEF TypesInv, TypeOK, PlanShown, ImageShown, DiskShown, At, Running,
             Gate, Own, NoneThere, Present, LatestIsBuilt, Newest
    <3> QED
      BY <3>1, <3>2, OneAtWork
  <2>12. ASSUME NEW b \in Builders, NEW n \in Names, Convert(b, n)
        PROVE  PlanInv'
    <3> USE <2>12 DEF Convert, WriteDisk, Goes
    <3>1. Running(b) /\ UNCHANGED <<full, alone>>
      BY DEF At
    <3>2. ASSUME full[b], alone[b], PlanShown(b)
          PROVE  PlanShown(b)'
      <4>1. /\ writes \in Nat /\ writes' = writes + 1
            /\ disks'[n] =
                 [image |-> Own(b), stamp |-> writes', whole |-> TRUE]
            /\ \A o \in Names : /\ disks[o].stamp \in 0..writes
                                /\ o # n => disks'[o] = disks[o]
        BY DEF TypesInv, TypeOK, StampsInv, Disks, NoDisk, Own
      <4>2. disks'[n].stamp = writes + 1
        BY <4>1
      <4>3. disks'[n] # NoDisk
        BY <4>1, <4>2 DEF NoDisk
      <4>4. ASSUME NEW o \in Names, Newest(o)'
            PROVE  o = n
        BY <4>1, <4>2, <4>3, <4>4 DEF Newest, Present
      <4>5. Own(b) = checked.digest /\ checked' = checked
        BY <3>2 DEF PlanShown, ImageShown, Gate, At
      <4>6. LatestIsBuilt'
        BY <4>1, <4>4, <4>5 DEF LatestIsBuilt
      <4>7. Gate(b)' = "build-qcow2" /\ Gate(b) = "build-qcow2"
              /\ step'[b] = "produced"
        BY <3>1 DEF TypesInv, TypeOK, Gate, Running, At
      <4> QED
        BY <3>1, <3>2, <4>6, <4>7
           DEF PlanShown, ImageShown, DiskShown, At, Running, Gate, Own
    <3> QED
      BY <3>1, <3>2, OneAtWork
  <2>13. ASSUME NEW b \in Builders, NEW n \in Names, ConvertBreaksOff(b, n)
        PROVE  PlanInv'
    <3>1. \A c \in Builders : full'[c] =>
            c # b /\ full[c] /\ alone'[c] = alone[c]
      BY <2>13
         DEF ConvertBreaksOff, WriteDisk, Stops, ForgetLocals, TypesInv, TypeOK
    <3>2. Running(b)
      BY <2>13 DEF ConvertBreaksOff, WriteDisk, Stops, ForgetLocals, At
    <3> QED
      BY <3>1, <3>2 DEF PlanInv, LoneInv
  <2>14. ASSUME NEW b \in Builders, ConvertElsewhere(b)
        PROVE  PlanInv'
    <3> USE <2>14 DEF ConvertElsewhere, Goes
    <3>1. Running(b) /\ UNCHANGED <<full, alone>>
      BY DEF At
    <3>2. ASSUME full[b], alone[b], PlanShown(b)
          PROVE  PlanShown(b)'
      BY <3>1, <3>2
         DEF TypesInv, TypeOK, PlanShown, ImageShown, DiskShown, At, Running,
             Gate, Own, NoneThere, Present, LatestIsBuilt, Newest
    <3> QED
      BY <3>1, <3>2, OneAtWork
  <2>15. ASSUME NEW b \in Builders, AcceptArtifact(b)
        PROVE  PlanInv'
    <3> USE <2>15 DEF AcceptArtifact
    <3>1. Running(b) /\ UNCHANGED <<full, alone>> /\ reliable' = reliable
      BY DEF At, Passes
    <3>2. ASSUME full[b], alone[b], PlanShown(b)
          PROVE  PlanShown(b)'
      <4>0. left[b] \in Rests /\ Running(b) /\ Passes(b)
        BY <3>1, <3>2 DEF PlanShown
      <4>7. /\ left'[b] \in Rests /\ Gate(b) = "build-qcow2"
            /\ Gate(b)' = "artifact-metadata" /\ step'[b] = "start"
            /\ mode'[b] = mode[b]
        BY <3>1, <3>2, <4>0, NextGate
           DEF TypesInv, TypeOK, PlanShown, Gate, At, Running
      <4>8. /\ ~At(b, "build-image", "start")'
            /\ ~At(b, "build-image", "build")'
            /\ ~At(b, "build-image", "id")'
            /\ ~At(b, "build-qcow2", "produced")'
            /\ ~At(b, "boot-smoke", "preboot")'
            /\ ~At(b, "boot-smoke", "boot")'
        BY <4>7 DEF At, Gate
      <4>11. (NoneThere' <=> NoneThere) /\ (LatestIsBuilt' <=> LatestIsBuilt)
        BY DEF NoneThere, Present, LatestIsBuilt, Newest
      <4>9. ImageShown(b)'
        BY <3>1, <3>2, <4>7, <4>8 DEF PlanShown, ImageShown, Own
      <4>10. DiskShown(b) => DiskShown(b)'
        BY <3>1, <3>2, <4>7, <4>8, <4>11 DEF PlanShown, DiskShown
      <4> QED
        BY <3>1, <3>2, <4>7, <4>9, <4>10 DEF PlanShown
    <3> QED
      BY <3>1, <3>2, OneAtWork
  <2>16. ASSUME NEW b \in Builders, WriteMetadata(b)
        PROVE  PlanInv'
    <3> USE <2>16 DEF WriteMetadata, Hash
    <3>1. Running(b) /\ UNCHANGED <<full, alone>> /\ reliable' = reliable
      BY DEF At, Passes
    <3>2. ASSUME full[b], alone[b], PlanShown(b)
          PROVE  PlanShown(b)'
      <4>0. left[b] \in Rests /\ Running(b) /\ Passes(b)
        BY <3>1, <3>2 DEF PlanShown
      <4>1. metadata' = disks'
        BY DEF TypesInv, TypeOK
      <4> QED
        BY <3>1, <3>2, <4>0, NextGate, <4>1
           DEF PlanShown, ImageShown, DiskShown, At, Running, Gate, Own,
               NoneThere, Present, LatestIsBuilt, Newest
    <3> QED
      BY <3>1, <3>2, OneAtWork
  <2>17. ASSUME NEW b \in Builders, FindDisk(b)
        PROVE  PlanInv'
    <3> USE <2>17 DEF FindDisk, Newest, Goes
    <3>1. Running(b) /\ UNCHANGED <<full, alone>>
      BY DEF At
    <3>2. ASSUME full[b], alone[b], PlanShown(b)
          PROVE  PlanShown(b)'
      BY <3>1, <3>2
         DEF TypesInv, TypeOK, PlanShown, ImageShown, DiskShown, At, Running,
             Gate, Own, NoneThere, Present, LatestIsBuilt, Newest
    <3> QED
      BY <3>1, <3>2, OneAtWork
  <2>18. ASSUME NEW b \in Builders, LookUpHash(b)
        PROVE  PlanInv'
    <3> USE <2>18 DEF LookUpHash, Goes
    <3>1. Running(b) /\ UNCHANGED <<full, alone>>
      BY DEF At
    <3>2. ASSUME full[b], alone[b], PlanShown(b)
          PROVE  PlanShown(b)'
      BY <3>1, <3>2
         DEF TypesInv, TypeOK, PlanShown, ImageShown, DiskShown, At, Running,
             Gate, Own, NoneThere, Present, LatestIsBuilt, Newest
    <3> QED
      BY <3>1, <3>2, OneAtWork
  <2>19. ASSUME NEW b \in Builders, BootPasses(b)
        PROVE  PlanInv'
    <3> USE <2>19 DEF BootPasses
    <3>1. Running(b) /\ UNCHANGED <<full, alone>> /\ reliable' = reliable
      BY DEF At, Passes
    <3>2. ASSUME full[b], alone[b], PlanShown(b)
          PROVE  PlanShown(b)'
      <4>0. left[b] \in Rests /\ Running(b) /\ Passes(b)
        BY <3>1, <3>2 DEF PlanShown
      <4>1. target[b] \in Names
        BY DEF TypesInv, ProgressInv, Booting
      <4> QED
        BY <3>1, <3>2, <4>0, NextGate, <4>1
           DEF PlanShown, ImageShown, DiskShown, At, Running, Gate, Own,
               NoneThere, Present, LatestIsBuilt, Newest
    <3> QED
      BY <3>1, <3>2, OneAtWork
  <2>20. CASE UNCHANGED vars
    BY <2>20
       DEF vars, PlanInv, PlanShown, ImageShown, DiskShown, At, Running, Gate,
           Own,
       LatestIsBuilt, Newest, Present, NoneThere
  <2> QED
    BY <2>1, <2>2, <2>3, <2>4, <2>5, <2>6, <2>7, <2>8, <2>9,
       <2>10, <2>11, <2>12, <2>13, <2>14, <2>15, <2>16, <2>17, <2>18, <2>19,
         <2>20
       DEF Next, Works
<1> QED
  BY <1>1, <1>2, TypesAndProgress, LoneInvariant, GraphrootIsOwn,
     StampsInvariant, InspectedInvariant, PTL
     DEF Spec

(* The gates of a plan that ran alone and passed all speak of one image and  *)
(* one disk, whatever earlier sessions left in the tree.                     *)
THEOREM PlanIsAboutOneImage == Spec => []PassedPlanIsAboutOneImage
<1>1. LoneInv /\ PlanInv => PassedPlanIsAboutOneImage
  BY DEF LoneInv, PlanInv, PlanShown, ImageShown, DiskShown, Gate,
         PassedPlanIsAboutOneImage
<1> QED
  BY <1>1, LoneInvariant, PlanInvariant, PTL

============================================================================
