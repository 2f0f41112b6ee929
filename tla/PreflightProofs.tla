-------------------------- MODULE PreflightProofs --------------------------
(***************************************************************************)
(* Proofs about Preflight for every set of digests and host faults, every  *)
(* number of pulls and of runs: what the manifest may claim.               *)
(***************************************************************************)
EXTENDS Preflight, TLAPS

Ready(i) == checks[i].status = "ok"

(* A pull has a try left. *)
TriesInv == phase = "pull" => tries < PullAttempts

(* An image that was inspected is still the stored one: nothing pulls it     *)
(* again before the next run.                                                *)
ChecksInv ==
  /\ phase = "inspect" => store[image] \in Digests
  /\ phase \in {"pull", "inspect"} => ~Ready(image) /\ ~Ready("bib")
  /\ \A i \in Images : Ready(i) =>
       checks[i].digest = store[i] /\ store[i] \in Digests
  /\ phase # "idle" => rc = "none"

TypesInv == TypeOK /\ TriesInv /\ ChecksInv

Writing == {"writeBase", "writeState", "writeBib"}

(* The manifest on its way from what the run found to what it verified.      *)
WritesInv ==
  /\ phase \in {"pull", "inspect", "judge", "writeBase"} => manifest = before
  /\ phase \in Writing =>
       ~HasBlockers
         /\ <<checks["base"].digest, checks["bib"].digest>> \in vetted
  /\ phase \in {"writeState", "writeBib"} =>
       manifest.base = checks["base"].digest
  /\ phase = "writeBib" => manifest.state = "verified"
  /\ phase = "report" =>
       IF HasBlockers THEN manifest = before
       ELSE manifest = [base |-> checks["base"].digest,
                        bib |-> checks["bib"].digest, state |-> "verified"]

-----------------------------------------------------------------------------
(* Types, tries and checks need each other: a verdict is recorded only of a *)
(* digest that a pull has stored.                                            *)
LEMMA TypesAndChecks == Spec => []TypesInv
<1>1. Init => TypesInv
  BY PreflightAssumption
     DEF Init, TypesInv, TypeOK, TriesInv, ChecksInv, Ready, Images, Manifests,
         Unchecked, NoHost, Hosts
<1>2. TypesInv /\ [Next]_vars => TypesInv'
  <2> SUFFICES ASSUME TypesInv, [Next]_vars PROVE TypesInv'
    OBVIOUS
  <2> USE PreflightAssumption
  <2> USE DEF outside, locals, history
  <2> USE DEF TypesInv, TypeOK, TriesInv, ChecksInv, Ready, Images, Manifests,
              Unchecked, Blocked
  <2>1. ASSUME NEW h \in Hosts, Start(h) PROVE TypesInv'
    BY <2>1 DEF Start
  <2>2. CASE PullSucceeds
    BY <2>2 DEF PullSucceeds
  <2>3. CASE PullFails
    BY <2>3 DEF PullFails, Checked, LastTry, Blocked
  <2>4. CASE PullRaises
    BY <2>4 DEF PullRaises
  <2>5. ASSUME NEW ok \in BOOLEAN, Inspect(ok) PROVE TypesInv'
    BY <2>5 DEF Inspect, Checked, Ok, Inspected, Blocked
  <2>6. CASE Judge
    BY <2>6 DEF Judge, Vet, BothChecked
  <2>7. CASE WriteBase
    BY <2>7 DEF WriteBase, Write
  <2>8. CASE WriteState
    BY <2>8 DEF WriteState, Write
  <2>9. CASE WriteBib
    BY <2>9 DEF WriteBib, Write
  <2>10. CASE Report
    BY <2>10 DEF Report
  <2>11. CASE Raise
    BY <2>11 DEF Raise
  <2>12. ASSUME NEW j \in Images, TagMoves(j) PROVE TypesInv'
    BY <2>12 DEF TagMoves
  <2>13. CASE UNCHANGED vars
    BY <2>13 DEF vars
  <2> QED
    BY <2>1, <2>2, <2>3, <2>4, <2>5, <2>6, <2>7, <2>8, <2>9,
       <2>10, <2>11, <2>12, <2>13
       DEF Next, PodmanStep, OwnStep
<1> QED
  BY <1>1, <1>2, PTL DEF Spec

(* Every variable keeps its type, for every number of pulls and of runs. *)
THEOREM TypeCorrect == Spec => []TypeOK
<1>1. TypesInv => TypeOK
  BY DEF TypesInv
<1> QED
  BY <1>1, TypesAndChecks, PTL

(* What was inspected is what is stored. *)
LEMMA ChecksInvariant == Spec => []ChecksInv
<1>1. TypesInv => ChecksInv
  BY DEF TypesInv
<1> QED
  BY <1>1, TypesAndChecks, PTL

(* What the three writes leave in the manifest. *)
LEMMA WritesInvariant == Spec => []WritesInv
<1>1. Init => WritesInv
  BY PreflightAssumption DEF Init, WritesInv, Writing
<1>2. TypeOK /\ ChecksInv /\ WritesInv /\ [Next]_vars => WritesInv'
  <2> SUFFICES ASSUME TypeOK, ChecksInv, WritesInv, [Next]_vars
               PROVE  WritesInv'
    OBVIOUS
  <2> USE PreflightAssumption
  <2> USE DEF outside, locals, history
  <2> USE DEF TypeOK, WritesInv, Writing, HasBlockers, BothChecked, Manifests,
              Images
  <2>1. ASSUME NEW h \in Hosts, Start(h) PROVE WritesInv'
    BY <2>1 DEF Start
  <2>2. CASE PullSucceeds
    BY <2>2 DEF PullSucceeds
  <2>3. CASE PullFails
    BY <2>3 DEF PullFails, Checked, LastTry, Blocked
  <2>4. CASE PullRaises
    BY <2>4 DEF PullRaises
  <2>5. ASSUME NEW ok \in BOOLEAN, Inspect(ok) PROVE WritesInv'
    BY <2>5 DEF Inspect, Checked, Ok, Inspected, Blocked
  <2>6. CASE Judge
    BY <2>6 DEF Judge, Vet
  <2>7. CASE WriteBase
    BY <2>7 DEF WriteBase, Write
  <2>8. CASE WriteState
    BY <2>8 DEF WriteState, Write
  <2>9. CASE WriteBib
    BY <2>9 DEF WriteBib, Write
  <2>10. CASE Report
    BY <2>10 DEF Report
  <2>11. CASE Raise
    BY <2>11 DEF Raise
  <2>12. ASSUME NEW j \in Images, TagMoves(j) PROVE WritesInv'
    BY <2>12 DEF TagMoves
  <2>13. CASE UNCHANGED vars
    BY <2>13 DEF vars
  <2> QED
    BY <2>1, <2>2, <2>3, <2>4, <2>5, <2>6, <2>7, <2>8, <2>9,
       <2>10, <2>11, <2>12, <2>13
       DEF Next, PodmanStep, OwnStep
<1> QED
  BY <1>1, <1>2, TypeCorrect, ChecksInvariant, PTL DEF Spec
-----------------------------------------------------------------------------
(* The manifest says "verified", and names a digest, only of what a preflight *)
(* inspected on a host without faults, also after crashes between its writes. *)
THEOREM VerifiedIsVetted == Spec => []VerifiedWasVetted
<1>1. Init => VerifiedWasVetted
  BY DEF Init, VerifiedWasVetted
<1>2. TypeOK /\ ChecksInv /\ WritesInv /\ VerifiedWasVetted /\ [Next]_vars =>
        VerifiedWasVetted'
  <2> SUFFICES ASSUME TypeOK, ChecksInv, WritesInv, VerifiedWasVetted,
                      [Next]_vars
               PROVE  VerifiedWasVetted'
    OBVIOUS
  <2> USE DEF outside, locals, history
  <2> USE DEF VerifiedWasVetted
  <2>1. ASSUME NEW h \in Hosts, Start(h) PROVE VerifiedWasVetted'
    BY <2>1 DEF Start
  <2>2. CASE PullSucceeds
    BY <2>2 DEF PullSucceeds
  <2>3. CASE PullFails
    BY <2>3 DEF PullFails, Checked, LastTry, Blocked
  <2>4. CASE PullRaises
    BY <2>4 DEF PullRaises
  <2>5. ASSUME NEW ok \in BOOLEAN, Inspect(ok) PROVE VerifiedWasVetted'
    BY <2>5 DEF Inspect, Checked, Ok, Inspected, Blocked
  <2>6. CASE Judge
    BY <2>6 DEF Judge, Vet
  <2>7. CASE WriteBase
    <3>1. <<checks["base"].digest, checks["bib"].digest>> \in vetted
      BY <2>7 DEF WriteBase, Write, WritesInv, Writing
    <3>2. checks["base"].digest # None
      BY <2>7, PreflightAssumption
         DEF WriteBase, Write, ChecksInv, Ready, WritesInv, Writing,
             HasBlockers, BothChecked, Images
    <3>3. manifest' = [manifest EXCEPT !["base"] = checks["base"].digest]
          /\ vetted' = vetted
      BY <2>7 DEF WriteBase, Write
    <3> QED
      BY <3>1, <3>2, <3>3 DEF TypeOK, Manifests
  <2>8. CASE WriteState
    <3>1. manifest' = [manifest EXCEPT !["state"] = "verified"]
          /\ vetted' = vetted
      BY <2>8 DEF WriteState, Write
    <3>2. manifest.base # None
      BY <2>8, PreflightAssumption
         DEF WriteState, Write, ChecksInv, Ready, WritesInv, Writing,
             HasBlockers, BothChecked, Images
    <3> QED
      BY <3>1, <3>2 DEF TypeOK, Manifests
  <2>9. CASE WriteBib
    <3>1. <<checks["base"].digest, checks["bib"].digest>> \in vetted
      BY <2>9 DEF WriteBib, Write, WritesInv, Writing
    <3>2. manifest' = [manifest EXCEPT !["bib"] = checks["bib"].digest]
          /\ vetted' = vetted
      BY <2>9 DEF WriteBib, Write
    <3> QED
      BY <3>1, <3>2 DEF TypeOK, Manifests
  <2>10. CASE Report
    BY <2>10 DEF Report
  <2>11. CASE Raise
    BY <2>11 DEF Raise
  <2>12. ASSUME NEW j \in Images, TagMoves(j) PROVE VerifiedWasVetted'
    BY <2>12 DEF TagMoves
  <2>13. CASE UNCHANGED vars
    BY <2>13 DEF vars
  <2> QED
    BY <2>1, <2>2, <2>3, <2>4, <2>5, <2>6, <2>7, <2>8, <2>9,
       <2>10, <2>11, <2>12, <2>13
       DEF Next, PodmanStep, OwnStep
<1> QED
  BY <1>1, <1>2, TypeCorrect, ChecksInvariant, WritesInvariant, PTL DEF Spec

(* After a PASS manifest and storage agree, wherever the tags have moved. *)
THEOREM PassPinsTheStore == Spec => []PassPinsWhatIsStored
<1>1. Init => PassPinsWhatIsStored
  BY DEF Init, PassPinsWhatIsStored
<1>2. TypeOK /\ ChecksInv /\ WritesInv /\ PassPinsWhatIsStored
        /\ [Next]_vars => PassPinsWhatIsStored'
  <2> SUFFICES ASSUME TypeOK, ChecksInv, WritesInv, PassPinsWhatIsStored,
                      [Next]_vars
               PROVE  PassPinsWhatIsStored'
    OBVIOUS
  <2> USE DEF outside, locals, history
  <2> USE DEF PassPinsWhatIsStored
  <2>1. ASSUME NEW h \in Hosts, Start(h) PROVE PassPinsWhatIsStored'
    BY <2>1 DEF Start
  <2>2. CASE PullSucceeds
    BY <2>2 DEF PullSucceeds, ChecksInv
  <2>3. CASE PullFails
    BY <2>3 DEF PullFails, Checked, LastTry, Blocked
  <2>4. CASE PullRaises
    BY <2>4 DEF PullRaises
  <2>5. ASSUME NEW ok \in BOOLEAN, Inspect(ok) PROVE PassPinsWhatIsStored'
    BY <2>5 DEF Inspect, Checked, Ok, Inspected, Blocked
  <2>6. CASE Judge
    BY <2>6 DEF Judge, Vet
  <2>7. CASE WriteBase
    BY <2>7 DEF WriteBase, Write, ChecksInv
  <2>8. CASE WriteState
    BY <2>8 DEF WriteState, Write, ChecksInv
  <2>9. CASE WriteBib
    BY <2>9 DEF WriteBib, Write, ChecksInv
  <2>10. CASE Report
    <3>1. CASE HasBlockers
      BY <2>10, <3>1 DEF Report
    <3>2. CASE ~HasBlockers
      BY <2>10, <3>2
         DEF Report, ChecksInv, Ready, WritesInv, HasBlockers, BothChecked,
             Images
    <3> QED
      BY <3>1, <3>2
  <2>11. CASE Raise
    BY <2>11 DEF Raise
  <2>12. ASSUME NEW j \in Images, TagMoves(j) PROVE PassPinsWhatIsStored'
    BY <2>12 DEF TagMoves
  <2>13. CASE UNCHANGED vars
    BY <2>13 DEF vars
  <2> QED
    BY <2>1, <2>2, <2>3, <2>4, <2>5, <2>6, <2>7, <2>8, <2>9,
       <2>10, <2>11, <2>12, <2>13
       DEF Next, PodmanStep, OwnStep
<1> QED
  BY <1>1, <1>2, TypeCorrect, ChecksInvariant, WritesInvariant, PTL DEF Spec

(* A blocked preflight leaves the manifest as it found it. *)
THEOREM BlockedChangesNothing == Spec => []BlockedLeavesManifest
<1>1. Init => BlockedLeavesManifest
  BY DEF Init, BlockedLeavesManifest
<1>2. TypeOK /\ ChecksInv /\ WritesInv /\ BlockedLeavesManifest
        /\ [Next]_vars => BlockedLeavesManifest'
  <2> SUFFICES ASSUME TypeOK, ChecksInv, WritesInv, BlockedLeavesManifest,
                      [Next]_vars
               PROVE  BlockedLeavesManifest'
    OBVIOUS
  <2> USE DEF outside, locals, history
  <2> USE DEF BlockedLeavesManifest
  <2>1. ASSUME NEW h \in Hosts, Start(h) PROVE BlockedLeavesManifest'
    BY <2>1 DEF Start
  <2>2. CASE PullSucceeds
    BY <2>2 DEF PullSucceeds
  <2>3. CASE PullFails
    BY <2>3 DEF PullFails, Checked, LastTry, Blocked
  <2>4. CASE PullRaises
    BY <2>4 DEF PullRaises
  <2>5. ASSUME NEW ok \in BOOLEAN, Inspect(ok) PROVE BlockedLeavesManifest'
    BY <2>5 DEF Inspect, Checked, Ok, Inspected, Blocked
  <2>6. CASE Judge
    BY <2>6 DEF Judge, Vet
  <2>7. CASE WriteBase
    BY <2>7 DEF WriteBase, Write, ChecksInv
  <2>8. CASE WriteState
    BY <2>8 DEF WriteState, Write, ChecksInv
  <2>9. CASE WriteBib
    BY <2>9 DEF WriteBib, Write, ChecksInv
  <2>10. CASE Report
    BY <2>10 DEF Report, WritesInv
  <2>11. CASE Raise
    BY <2>11 DEF Raise
  <2>12. ASSUME NEW j \in Images, TagMoves(j) PROVE BlockedLeavesManifest'
    BY <2>12 DEF TagMoves
  <2>13. CASE UNCHANGED vars
    BY <2>13 DEF vars
  <2> QED
    BY <2>1, <2>2, <2>3, <2>4, <2>5, <2>6, <2>7, <2>8, <2>9,
       <2>10, <2>11, <2>12, <2>13
       DEF Next, PodmanStep, OwnStep
<1> QED
  BY <1>1, <1>2, TypeCorrect, ChecksInvariant, WritesInvariant, PTL DEF Spec
============================================================================
