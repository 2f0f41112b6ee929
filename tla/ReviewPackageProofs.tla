------------------------ MODULE ReviewPackageProofs ------------------------
(***************************************************************************)
(* Proofs about ReviewPackage for every set of files, exclusions, output   *)
(* directories and gates, and any number of runs and edits: what the ZIP   *)
(* shows and of which run it is.                                           *)
(***************************************************************************)
EXTENDS ReviewPackage, TLAPS

Dir == package[out].dir
Parts == {"diff", "evidence", "build", "repo", "markdown", "json"}

(* Where the run is, "done" when it has written its ZIP.                     *)
Stage == IF phase = "idle" /\ rc = "exit0" THEN "done" ELSE phase
PastJson == {"zip", "done"}
PastMarkdown == {"json"} \cup PastJson
PastRepo == {"markdown"} \cup PastMarkdown
PastBuild == {"repo"} \cup PastRepo
PastEvidence == {"build"} \cup PastBuild
PastGit == {"evidence"} \cup PastEvidence

(* What the commands of this run have left.                                  *)
CommandsInv ==
  /\ phase # "idle" => rc = "none" /\ run # 0
  /\ \A c \in Gates \cup {"ci"} :
       commands[c] # NotRun => commands[c].run = run /\ run # 0
  /\ phase = "clear" => commands = NoCommands /\ gate = 1
  /\ phase \in {"gates", "ci"} =>
       /\ commands["ci"] = NotRun
       /\ \A i \in 1..gate - 1 :
            commands[QualitySpecs[i]].run = run
  /\ phase = "ci" => gate > Len(QualitySpecs)
  /\ phase # "idle" /\ commands["builder-preflight"].run = run =>
       commands["builder-preflight"].failed \/ preflight = run
  /\ commands["ci"] # NotRun =>
       commands["ci"].failed \/
         \A g \in FastGates : commands[g] = [run |-> run, failed |-> FALSE]

(* The parts that are written are this run's, and hold what it knew.         *)
PartsInv ==
  /\ Stage \in {"gates", "ci", "git", "evidence"} =>
       Dir.evidence.shows = NoCommands
  /\ Stage \in PastGit => Dir.diff.run = run
  /\ Stage \in PastEvidence => Dir.evidence = [run |-> run, shows |-> commands]
  /\ Stage \in PastBuild => Dir.build = [run |-> run, shows |-> preflight]
  /\ Stage \in PastRepo => Dir.repo.run = run
  /\ Stage \in PastMarkdown => Dir.markdown.run = run
  /\ Stage \in PastJson => Dir.json = [run |-> run, shows |-> commands]

(* What is in the ZIP of this run's directory: nothing between clearing and  *)
(* zipping, then entries as they lie in the directory, in the end all.       *)
ZipInv ==
  /\ phase \notin {"idle", "clear", "zip"} => Zip = Nothing
  /\ phase = "zip" => \A p \in Parts : Zip[p] \in {Nothing[p], Dir[p]}
  /\ Stage = "done" => out \in InRoot /\ Zip = Dir

(* Unless somebody edits it, the tree stays as the run cleared and checked   *)
(* it, and the parts show it.                                                *)
TreeInv ==
  ~touched /\ (phase # "idle" \/ rc = "exit0") =>
    /\ \A f \in Files \ ({Manifest} \cup Below[out]) : tree[f] = atStart[f]
    /\ Stage \in PastGit => Dir.diff.shows \in {tree, NoTree}
    /\ Stage \in PastRepo =>
         Dir.repo.shows =
           [f \in Files |-> IF f \in Selected THEN tree[f] ELSE 0]
    /\ Stage \in PastMarkdown => Dir.markdown.shows = tree[Manifest]

-----------------------------------------------------------------------------
(* What the assumptions on the constants come to.                            *)
LEMMA ConstantsTyped ==
  /\ MaxRuns \in Nat /\ MaxRuns > 0
  /\ MaxEdits \in Nat /\ MaxEdits > 0
  /\ Len(QualitySpecs) \in Nat
  /\ Manifest \in Files /\ Manifest \in Selected
  /\ Selected \subseteq Files
  /\ "ci" \notin Gates
  /\ "builder-preflight" \in Gates
  /\ \A i \in 1..Len(QualitySpecs) : QualitySpecs[i] \in Gates
  /\ \A d \in InRoot : d \in OutDirs
BY ReviewAssumption DEF Gates, Selected

(* An empty package is a package.                                            *)
LEMMA NothingTyped ==
  /\ NoTree \in Trees
  /\ NoCommands \in Results
  /\ Nothing \in Packed
  /\ NoPackage \in [dir : Packed, zip : Packed]
<1>1. NoTree \in Trees
  BY ConstantsTyped DEF NoTree, Trees
<1>2. NoCommands \in Results
  BY ConstantsTyped DEF NoCommands, Results, NotRun
<1>3. NoPart(NoTree) \in TreeParts
  BY <1>1, ConstantsTyped DEF NoPart, TreeParts
<1>4. NoPart(NoCommands) \in ResultParts
  BY <1>2, ConstantsTyped DEF NoPart, ResultParts
<1>5. NoPart(0) \in NumberParts
  BY ConstantsTyped DEF NoPart, NumberParts
<1>6. Nothing \in Packed
  BY <1>3, <1>4, <1>5 DEF Nothing, Packed
<1> QED
  BY <1>1, <1>2, <1>6 DEF NoPackage

(* A part that is replaced by one of its type leaves a package.              *)
LEMMA PartReplaced ==
  ASSUME NEW d \in Packed, NEW x
  PROVE  /\ x \in TreeParts => [d EXCEPT !["diff"] = x] \in Packed
         /\ x \in ResultParts => [d EXCEPT !["evidence"] = x] \in Packed
         /\ x \in NumberParts => [d EXCEPT !["build"] = x] \in Packed
         /\ x \in TreeParts => [d EXCEPT !["repo"] = x] \in Packed
         /\ x \in NumberParts => [d EXCEPT !["markdown"] = x] \in Packed
         /\ x \in ResultParts => [d EXCEPT !["json"] = x] \in Packed
BY DEF Packed

(* A package is its parts.                                                   *)
LEMMA SameParts ==
  ASSUME NEW d \in Packed, NEW e \in Packed, \A p \in Parts : d[p] = e[p]
  PROVE  d = e
<1>1. /\ d.diff = e.diff /\ d.evidence = e.evidence /\ d.build = e.build
      /\ d.repo = e.repo /\ d.markdown = e.markdown /\ d.json = e.json
  BY DEF Parts
<1> QED
  BY <1>1 DEF Packed

(* A write changes one part of the directory of this run, and nothing else   *)
(* in any directory.                                                         *)
LEMMA WriteIsLocal ==
  ASSUME TypeOK, out \in InRoot, NEW part \in Parts, NEW content,
         Writes(part, content)
  PROVE  /\ out' = out
         /\ Dir' = [Dir EXCEPT ![part] = [run |-> run, shows |-> content]]
         /\ Dir'[part] = [run |-> run, shows |-> content]
         /\ \A p \in Parts \ {part} : Dir'[p] = Dir[p]
         /\ \A d \in InRoot : package'[d].zip = package[d].zip
         /\ Dir' \in Packed =>
              package' \in [InRoot -> [dir : Packed, zip : Packed]]
<1> USE DEF Writes, Dir, TypeOK, locals
<1>1. package[out] \in [dir : Packed, zip : Packed]
  OBVIOUS
<1>2. out' = out
  OBVIOUS
<1>3. package' = [package EXCEPT ![out] =
          [package[out] EXCEPT !.dir =
             [Dir EXCEPT ![part] = [run |-> run, shows |-> content]]]]
  OBVIOUS
<1>4. package'[out] = [package[out] EXCEPT !.dir =
             [Dir EXCEPT ![part] = [run |-> run, shows |-> content]]]
  BY <1>3
<1>5. Dir' = [Dir EXCEPT ![part] = [run |-> run, shows |-> content]]
  BY <1>1, <1>2, <1>4
<1>6. Dir \in Packed
  BY <1>1
<1>7. /\ Dir'[part] = [run |-> run, shows |-> content]
      /\ \A p \in Parts \ {part} : Dir'[p] = Dir[p]
  BY <1>5, <1>6 DEF Packed, Parts
<1>8. package'[out].zip = package[out].zip
  BY <1>1, <1>4
<1>9. \A d \in InRoot : package'[d].zip = package[d].zip
  BY <1>3, <1>8
<1>10. ASSUME Dir' \in Packed
       PROVE  package' \in [InRoot -> [dir : Packed, zip : Packed]]
  <2>1. package'[out] \in [dir : Packed, zip : Packed]
    BY <1>1, <1>4, <1>5, <1>10
  <2> QED
    BY <1>3, <2>1
<1> QED
  BY <1>2, <1>5, <1>7, <1>9, <1>10

(* The entries of a ZIP are the parts of a package, review.json last.        *)
LEMMA ZipOrderIsOfParts ==
  /\ Len(ZipOrder) = 6
  /\ \A i \in 1..Len(ZipOrder) : ZipOrder[i] \in Parts
  /\ \A p \in Parts : \E i \in 1..Len(ZipOrder) : ZipOrder[i] = p
  /\ ZipOrder[6] = "json"
BY DEF ZipOrder, Parts

(* Adding to the ZIP changes one entry of it, and nothing else anywhere.     *)
LEMMA AddIsLocal ==
  ASSUME TypeOK, NEW i \in 1..Len(ZipOrder), AddToZip(i)
  PROVE  /\ out \in InRoot /\ Dir' = Dir
         /\ ZipOrder[i] \in Parts /\ Zip[ZipOrder[i]].run # run
         /\ \A j \in 1..i - 1 : Zip[ZipOrder[j]].run = run
         /\ Zip'[ZipOrder[i]] = Dir[ZipOrder[i]]
         /\ \A p \in Parts \ {ZipOrder[i]} : Zip'[p] = Zip[p]
         /\ \A d \in InRoot \ {out} : package'[d].zip = package[d].zip
         /\ package' \in [InRoot -> [dir : Packed, zip : Packed]]
<1> DEFINE part == ZipOrder[i]
<1> USE DEF AddToZip, Dir, Zip, TypeOK, locals
<1>1. out \in InRoot /\ package[out] \in [dir : Packed, zip : Packed]
  OBVIOUS
<1>2. part \in Parts
  BY ZipOrderIsOfParts
<1>3. out' = out /\ run' = run
  OBVIOUS
<1>4. package' = [package EXCEPT ![out] =
          [package[out] EXCEPT !.zip = [Zip EXCEPT ![part] = Dir[part]]]]
  OBVIOUS
<1>5. package'[out] =
        [package[out] EXCEPT !.zip = [Zip EXCEPT ![part] = Dir[part]]]
  BY <1>1, <1>4
<1>6. Dir' = Dir /\ Zip' = [Zip EXCEPT ![part] = Dir[part]]
  BY <1>1, <1>3, <1>5
<1>7. Zip \in Packed /\ Dir \in Packed
  BY <1>1
<1>8. /\ Zip'[part] = Dir[part]
      /\ \A p \in Parts \ {part} : Zip'[p] = Zip[p]
  BY <1>2, <1>6, <1>7 DEF Packed, Parts
<1>9. Zip' \in Packed
  <2>1. /\ Dir["diff"] \in TreeParts /\ Dir["evidence"] \in ResultParts
        /\ Dir["build"] \in NumberParts /\ Dir["repo"] \in TreeParts
        /\ Dir["markdown"] \in NumberParts /\ Dir["json"] \in ResultParts
    BY <1>7 DEF Packed
  <2> HIDE DEF part, AddToZip, Dir, Zip, TypeOK
  <2> QED
    BY <1>2, <1>6, <1>7, <2>1, PartReplaced DEF Parts
<1>10. package'[out] \in [dir : Packed, zip : Packed]
  BY <1>1, <1>5, <1>6, <1>9
<1>11. /\ \A d \in InRoot \ {out} : package'[d] = package[d]
       /\ package' \in [InRoot -> [dir : Packed, zip : Packed]]
  BY <1>4, <1>10
<1>12. /\ Zip[part].run # run
       /\ \A j \in 1..i - 1 : Zip[ZipOrder[j]].run = run
  BY ZipOrderIsOfParts DEF Unzipped
<1> QED
  BY <1>1, <1>2, <1>6, <1>8, <1>11, <1>12

(* What may happen to a ZIP: it is removed, an entry is added, or the        *)
(* process is killed meanwhile.                                              *)
LEMMA ZipsAreLeft ==
  ASSUME TypeOK, [Next]_vars
  PROVE  \/ ClearOut
         \/ \E i \in 1..Len(ZipOrder) : AddToZip(i)
         \/ Killed
         \/ \A d \in InRoot : package'[d].zip = package[d].zip
<1> DEFINE Left == \A d \in InRoot : package'[d].zip = package[d].zip
<1>1. CASE \E dir \in OutDirs, gates \in BOOLEAN : Start(dir, gates)
  BY <1>1 DEF Start
<1>2. CASE \E failed \in BOOLEAN : RunGate(failed)
  BY <1>2 DEF RunGate
<1>3. CASE GatesDone
  BY <1>3 DEF GatesDone
<1>4. CASE Aggregate
  BY <1>4 DEF Aggregate
<1>5. CASE phase # "idle" /\ \E part \in Parts : \E content : Writes(part, content)
  BY <1>5, WriteIsLocal DEF TypeOK
<1>6. CASE CollectGit \/ WriteEvidence \/ CopyBuildEvidence
  BY <1>5, <1>6
     DEF CollectGit, WriteEvidence, CopyBuildEvidence, Go, Parts
<1>7. CASE CopyRepo \/ WriteMarkdown \/ WriteJson
  BY <1>5, <1>7 DEF CopyRepo, WriteMarkdown, WriteJson, Go, Parts
<1>8. CASE ZipDone
  BY <1>8 DEF ZipDone
<1>9. CASE Raise
  BY <1>9 DEF Raise
<1>10. CASE \E f \in Files : Edit(f)
  BY <1>10 DEF Edit
<1>11. CASE UNCHANGED vars
  BY <1>11 DEF vars
<1> QED
  BY <1>1, <1>2, <1>3, <1>4, <1>6, <1>7, <1>8, <1>9, <1>10, <1>11
     DEF Next, ReviewStep

-----------------------------------------------------------------------------
(* Every variable keeps its type, for every number of runs and edits. *)
THEOREM TypeCorrect == Spec => []TypeOK
<1>1. Init => TypeOK
  <2> SUFFICES ASSUME Init PROVE TypeOK
    OBVIOUS
  <2>1. tree \in Trees
    BY ConstantsTyped DEF Init, Trees
  <2>2. package \in [InRoot -> [dir : Packed, zip : Packed]]
    BY NothingTyped DEF Init
  <2>3. /\ out \in OutDirs /\ commands \in Results
        /\ phase # "idle" => out \in InRoot
    BY NothingTyped, ConstantsTyped DEF Init
  <2>4. /\ gate \in 1..Len(QualitySpecs) + 1
        /\ edits \in 0..MaxEdits /\ preflight \in 0..MaxRuns
        /\ run \in 0..MaxRuns
    BY ConstantsTyped DEF Init
  <2> QED
    BY <2>1, <2>2, <2>3, <2>4 DEF Init, TypeOK
<1>2. TypeOK /\ [Next]_vars => TypeOK'
  <2> SUFFICES ASSUME TypeOK, [Next]_vars
               PROVE  TypeOK'
    OBVIOUS
  <2> USE ReviewAssumption, ConstantsTyped
  <2> USE DEF world, locals
  <2> USE DEF TypeOK
  <2>1. ASSUME NEW dir \in OutDirs, NEW gates \in BOOLEAN,
               Start(dir, gates)
        PROVE  TypeOK'
    <3>1. run' \in 0..MaxRuns /\ gate' \in 1..Len(QualitySpecs) + 1
      BY <2>1 DEF Start
    <3>2. commands' \in Results /\ atStart' \in Trees
      BY <2>1, NothingTyped DEF Start
    <3>3. out' \in OutDirs /\ quality' \in BOOLEAN /\ touched' \in BOOLEAN
      BY <2>1 DEF Start
    <3>4. /\ phase' \in {"clear", "idle"} /\ rc' \in {"none", "exit2"}
          /\ phase' # "idle" => out' \in InRoot
      BY <2>1 DEF Start
    <3> QED
      BY <2>1, <3>1, <3>2, <3>3, <3>4 DEF Start
  <2>2. CASE ClearOut
    BY <2>2, NothingTyped DEF ClearOut, Go, Trees
  <2>3. ASSUME NEW failed \in BOOLEAN, RunGate(failed)
        PROVE  TypeOK'
    <3>1. QualitySpecs[gate] \in Gates
      BY <2>3 DEF RunGate
    <3>2. [run |-> run, failed |-> failed] \in
            [run : 0..MaxRuns, failed : BOOLEAN]
      BY <2>3
    <3>3. commands' \in Results
      BY <2>3, <3>1, <3>2 DEF RunGate, Results
    <3>4. tree' \in Trees /\ edits' \in 0..MaxEdits
      <4>1. CASE UNCHANGED world
        BY <4>1
      <4>2. CASE ~UNCHANGED world
        <5>1. /\ edits < MaxEdits /\ edits' = edits + 1
              /\ tree' = [tree EXCEPT ![Manifest] = edits' + 1]
          BY <2>3, <4>2 DEF RunGate, PreflightGate
        <5> QED
          BY <5>1 DEF Trees
      <4> QED
        BY <4>1, <4>2
    <3>5. preflight' \in 0..MaxRuns
      BY <2>3 DEF RunGate, PreflightGate
    <3>6. gate' \in 1..Len(QualitySpecs) + 1
      BY <2>3 DEF RunGate
    <3> QED
      BY <2>3, <3>3, <3>4, <3>5, <3>6 DEF RunGate, Go
  <2>4. CASE GatesDone
    BY <2>4 DEF GatesDone, Go
  <2>5. CASE Aggregate
    <3>1. (\E g \in FastGates : commands[g].failed) \in BOOLEAN
      OBVIOUS
    <3>2. [run |-> run, failed |-> \E g \in FastGates : commands[g].failed]
            \in [run : 0..MaxRuns, failed : BOOLEAN]
      BY <3>1
    <3>3. commands' \in Results
      BY <2>5, <3>2 DEF Aggregate, Results
    <3> QED
      BY <2>5, <3>3 DEF Aggregate, Go
  <2>6. CASE CollectGit
    <3> PICK seen \in {tree, NoTree} : Writes("diff", seen)
      BY <2>6 DEF CollectGit
    <3> DEFINE x == [run |-> run, shows |-> seen]
    <3>1. phase = "git" /\ out \in InRoot /\ Writes("diff", seen)
      BY <2>6 DEF CollectGit, Go
    <3>2. x \in TreeParts
      BY NothingTyped DEF TreeParts
    <3>3. Dir' = [Dir EXCEPT !["diff"] = x]
      BY <3>1, WriteIsLocal DEF Parts
    <3>4. Dir \in Packed
      BY <3>1 DEF Dir
    <3>5. Dir' \in Packed
      BY <3>2, <3>3, <3>4, PartReplaced
    <3>6. package' \in [InRoot -> [dir : Packed, zip : Packed]]
      BY <3>1, <3>5, WriteIsLocal DEF Parts
    <3>7. UNCHANGED <<world, preflight, run, locals, rc, atStart, touched>>
          /\ phase' = "evidence"
      BY <2>6 DEF CollectGit, Go, Writes
    <3> QED
      BY <3>1, <3>6, <3>7
  <2>7. CASE WriteEvidence
    <3> DEFINE x == [run |-> run,
                     shows |-> [c \in Gates \cup {"ci"} |->
                                  IF commands[c] # NotRun THEN commands[c]
                                  ELSE package[out].dir.evidence.shows[c]]]
    <3>1. /\ phase = "evidence" /\ out \in InRoot
          /\ Writes("evidence", [c \in Gates \cup {"ci"} |->
                                   IF commands[c] # NotRun THEN commands[c]
                                   ELSE package[out].dir.evidence.shows[c]])
      BY <2>7 DEF WriteEvidence, Go
    <3>2. x \in ResultParts
      <4>1. package[out].dir.evidence.shows \in Results
        BY <3>1 DEF Packed, ResultParts
      <4>2. x.shows \in Results
        BY <4>1 DEF Results
      <4> QED
        BY <4>2 DEF ResultParts
    <3>3. Dir' = [Dir EXCEPT !["evidence"] = x]
      BY <3>1, WriteIsLocal DEF Parts
    <3>4. Dir \in Packed
      BY <3>1 DEF Dir
    <3>5. Dir' \in Packed
      BY <3>2, <3>3, <3>4, PartReplaced
    <3>6. package' \in [InRoot -> [dir : Packed, zip : Packed]]
      BY <3>1, <3>5, WriteIsLocal DEF Parts
    <3> QED
      BY <2>7, <3>6 DEF WriteEvidence, Go, Writes
  <2>8. CASE CopyBuildEvidence
    <3> DEFINE x == [run |-> run, shows |-> preflight]
    <3>1. phase = "build" /\ out \in InRoot /\ Writes("build", preflight)
      BY <2>8 DEF CopyBuildEvidence, Go
    <3>2. x \in NumberParts
      BY DEF NumberParts
    <3>3. Dir' = [Dir EXCEPT !["build"] = x]
      BY <3>1, WriteIsLocal DEF Parts
    <3>4. Dir \in Packed
      BY <3>1 DEF Dir
    <3>5. Dir' \in Packed
      BY <3>2, <3>3, <3>4, PartReplaced
    <3>6. package' \in [InRoot -> [dir : Packed, zip : Packed]]
      BY <3>1, <3>5, WriteIsLocal DEF Parts
    <3> QED
      BY <2>8, <3>6 DEF CopyBuildEvidence, Go, Writes
  <2>9. CASE CopyRepo
    <3> DEFINE x == [run |-> run,
                     shows |-> [f \in Files |->
                                  IF f \in Selected THEN tree[f] ELSE 0]]
    <3>1. /\ phase = "repo" /\ out \in InRoot
          /\ Writes("repo",
                    [f \in Files |-> IF f \in Selected THEN tree[f] ELSE 0])
      BY <2>9 DEF CopyRepo, Go
    <3>2. x \in TreeParts
      BY DEF TreeParts, Trees
    <3>3. Dir' = [Dir EXCEPT !["repo"] = x]
      BY <3>1, WriteIsLocal DEF Parts
    <3>4. Dir \in Packed
      BY <3>1 DEF Dir
    <3>5. Dir' \in Packed
      BY <3>2, <3>3, <3>4, PartReplaced
    <3>6. package' \in [InRoot -> [dir : Packed, zip : Packed]]
      BY <3>1, <3>5, WriteIsLocal DEF Parts
    <3> QED
      BY <2>9, <3>6 DEF CopyRepo, Go, Writes
  <2>10. CASE WriteMarkdown
    <3> DEFINE x == [run |-> run, shows |-> tree[Manifest]]
    <3>1. /\ phase = "markdown" /\ out \in InRoot
          /\ Writes("markdown", tree[Manifest])
      BY <2>10 DEF WriteMarkdown, Go
    <3>2. x \in NumberParts
      BY DEF NumberParts, Trees
    <3>3. Dir' = [Dir EXCEPT !["markdown"] = x]
      BY <3>1, WriteIsLocal DEF Parts
    <3>4. Dir \in Packed
      BY <3>1 DEF Dir
    <3>5. Dir' \in Packed
      BY <3>2, <3>3, <3>4, PartReplaced
    <3>6. package' \in [InRoot -> [dir : Packed, zip : Packed]]
      BY <3>1, <3>5, WriteIsLocal DEF Parts
    <3> QED
      BY <2>10, <3>6 DEF WriteMarkdown, Go, Writes
  <2>11. CASE WriteJson
    <3> DEFINE x == [run |-> run, shows |-> commands]
    <3>1. phase = "json" /\ out \in InRoot /\ Writes("json", commands)
      BY <2>11 DEF WriteJson, Go
    <3>2. x \in ResultParts
      BY DEF ResultParts
    <3>3. Dir' = [Dir EXCEPT !["json"] = x]
      BY <3>1, WriteIsLocal DEF Parts
    <3>4. Dir \in Packed
      BY <3>1 DEF Dir
    <3>5. Dir' \in Packed
      BY <3>2, <3>3, <3>4, PartReplaced
    <3>6. package' \in [InRoot -> [dir : Packed, zip : Packed]]
      BY <3>1, <3>5, WriteIsLocal DEF Parts
    <3> QED
      BY <2>11, <3>6 DEF WriteJson, Go, Writes
  <2>12. ASSUME NEW i \in 1..Len(ZipOrder), AddToZip(i)
         PROVE  TypeOK'
    <3>1. package' \in [InRoot -> [dir : Packed, zip : Packed]]
      BY <2>12, AddIsLocal
    <3> QED
      BY <2>12, <3>1 DEF AddToZip
  <2>13. CASE Raise \/ ZipDone
    <3>1. phase' = "idle" /\ rc' \in {"raised", "exit0", "exit2"}
      BY <2>13 DEF Raise, ZipDone
    <3> QED
      BY <2>13, <3>1 DEF Raise, ZipDone
  <2>14. CASE Killed
    BY <2>14, NothingTyped DEF Killed
  <2>15. ASSUME NEW f \in Files, Edit(f)
        PROVE  TypeOK'
    <3>1. tree' \in Trees /\ edits' \in 0..MaxEdits
      BY <2>15 DEF Edit, Trees
    <3> QED
      BY <2>15, <3>1 DEF Edit
  <2>16. CASE UNCHANGED vars
    BY <2>16 DEF vars
  <2> HIDE DEF TypeOK
  <2> QED
    BY <2>1, <2>2, <2>3, <2>4, <2>5, <2>6, <2>7, <2>8, <2>9,
       <2>10, <2>11, <2>12, <2>13, <2>14, <2>15, <2>16
       DEF Next, ReviewStep
<1> QED
  BY <1>1, <1>2, PTL DEF Spec

-----------------------------------------------------------------------------
(* What the commands of this run have left. *)
LEMMA CommandsInvariant == Spec => []CommandsInv
<1>1. Init => CommandsInv
  BY ReviewAssumption, ConstantsTyped DEF Init, CommandsInv, NoCommands, NotRun
<1>2. TypeOK /\ CommandsInv /\ [Next]_vars => CommandsInv'
  <2> SUFFICES ASSUME TypeOK, CommandsInv, [Next]_vars
               PROVE  CommandsInv'
    OBVIOUS
  <2> USE ReviewAssumption, ConstantsTyped
  <2> USE DEF world, locals
  <2> USE DEF TypeOK, CommandsInv, Results, NotRun, NoCommands
  <2>1. ASSUME NEW dir \in OutDirs, NEW gates \in BOOLEAN,
               Start(dir, gates)
        PROVE  CommandsInv'
    BY <2>1 DEF Start
  <2>2. CASE ClearOut
    BY <2>2 DEF ClearOut, Go
  <2>3. ASSUME NEW failed \in BOOLEAN, RunGate(failed)
        PROVE  CommandsInv'
    BY <2>3 DEF RunGate, PreflightGate, Go
  <2>4. CASE GatesDone
    BY <2>4 DEF GatesDone, Go
  <2>5. CASE Aggregate
    <3> DEFINE someFailed == \E g \in FastGates : commands[g].failed
    <3>1. /\ phase = "ci" /\ phase' = "git" /\ UNCHANGED <<run, rc, preflight>>
          /\ commands' = [commands EXCEPT !["ci"] =
                           [run |-> run, failed |-> someFailed]]
      BY <2>5 DEF Aggregate, Go
    <3>2. commands'["ci"] = [run |-> run, failed |-> someFailed]
      BY <3>1
    <3>3. \A c \in Gates : commands'[c] = commands[c]
      BY <3>1
    <3>4. run # 0
      BY <3>1 DEF Gates
    <3>5. \A g \in Gates : commands[g].run = run
      BY <3>1 DEF Gates
    <3>6. \A g \in FastGates : g \in Gates
      BY DEF FastGates
    <3>7. ASSUME ~commands'["ci"].failed, NEW g \in FastGates
          PROVE  commands'[g] = [run |-> run, failed |-> FALSE]
      <4>1. ~commands[g].failed
        BY <3>2, <3>7
      <4>2. commands[g] \in [run : 0..MaxRuns, failed : BOOLEAN]
        BY <3>6
      <4>3. commands[g].failed = FALSE
        BY <4>1, <4>2
      <4> QED
        BY <3>3, <3>5, <3>6, <4>2, <4>3
    <3>8. \A c \in Gates \cup {"ci"} :
            commands'[c] # NotRun => commands'[c].run = run
      BY <3>2, <3>3
    <3>9. commands'["ci"].failed \/
            \A g \in FastGates : commands'[g] = [run |-> run, failed |-> FALSE]
      BY <3>7
    <3> HIDE DEF someFailed
    <3> QED
      BY <3>1, <3>4, <3>8, <3>9
  <2>6. CASE CollectGit
    BY <2>6 DEF CollectGit, Go, Writes
  <2>7. CASE WriteEvidence
    BY <2>7 DEF WriteEvidence, Go, Writes
  <2>8. CASE CopyBuildEvidence
    BY <2>8 DEF CopyBuildEvidence, Go, Writes
  <2>9. CASE CopyRepo
    BY <2>9 DEF CopyRepo, Go, Writes
  <2>10. CASE WriteMarkdown
    BY <2>10 DEF WriteMarkdown, Go, Writes
  <2>11. CASE WriteJson
    BY <2>11 DEF WriteJson, Go, Writes
  <2>12. CASE \E i \in 1..Len(ZipOrder) : AddToZip(i)
    BY <2>12 DEF AddToZip
  <2>13. CASE Raise \/ ZipDone
    BY <2>13 DEF Raise, ZipDone
  <2>14. CASE Killed
    BY <2>14 DEF Killed
  <2>15. ASSUME NEW f \in Files, Edit(f)
        PROVE  CommandsInv'
    BY <2>15 DEF Edit
  <2>16. CASE UNCHANGED vars
    BY <2>16 DEF vars
  <2> HIDE DEF TypeOK, CommandsInv, Results, NotRun, NoCommands
  <2> QED
    BY <2>1, <2>2, <2>3, <2>4, <2>5, <2>6, <2>7, <2>8, <2>9,
       <2>10, <2>11, <2>12, <2>13, <2>14, <2>15, <2>16
       DEF Next, ReviewStep
<1> QED
  BY <1>1, <1>2, TypeCorrect, PTL DEF Spec

(* The parts of the package are this run's. *)
LEMMA PartsInvariant == Spec => []PartsInv
<1>1. Init => PartsInv
  BY ReviewAssumption, ConstantsTyped
     DEF Init, PartsInv, Stage, PastJson, PastMarkdown, PastRepo, PastBuild,
         PastEvidence, PastGit
<1>2. TypeOK /\ CommandsInv /\ PartsInv /\ [Next]_vars => PartsInv'
  <2> SUFFICES ASSUME TypeOK, CommandsInv, PartsInv, [Next]_vars
               PROVE  PartsInv'
    OBVIOUS
  <2> USE ReviewAssumption, ConstantsTyped
  <2> USE DEF world, locals
  <2> USE DEF TypeOK, PartsInv, Stage, PastJson, PastMarkdown, PastRepo,
              PastBuild, PastEvidence, PastGit
  <2>1. ASSUME NEW dir \in OutDirs, NEW gates \in BOOLEAN,
               Start(dir, gates)
        PROVE  PartsInv'
    BY <2>1 DEF Start
  <2>2. CASE ClearOut
    <3>1. Dir' = Nothing
      BY <2>2 DEF ClearOut, Go, Dir, NoPackage
    <3>2. Nothing.evidence.shows = NoCommands
      BY DEF Nothing, NoPart
    <3> QED
      BY <2>2, <3>1, <3>2 DEF ClearOut, Go
  <2>3. ASSUME NEW failed \in BOOLEAN, RunGate(failed)
        PROVE  PartsInv'
    <3>1. Dir' = Dir
      BY <2>3 DEF RunGate, Dir
    <3> QED
      BY <2>3, <3>1 DEF RunGate, Go
  <2>4. CASE GatesDone
    <3>1. Dir' = Dir
      BY <2>4 DEF GatesDone, Dir
    <3> QED
      BY <2>4, <3>1 DEF GatesDone, Go
  <2>5. CASE Aggregate
    <3>1. Dir' = Dir
      BY <2>5 DEF Aggregate, Dir
    <3> QED
      BY <2>5, <3>1 DEF Aggregate, Go
  <2>6. CASE CollectGit
    <3> PICK content \in {tree, NoTree} : Writes("diff", content)
      BY <2>6 DEF CollectGit
    <3>1. /\ Writes("diff", content) /\ out \in InRoot
          /\ rc' = rc /\ run' = run /\ commands' = commands
          /\ preflight' = preflight
      BY <2>6 DEF CollectGit, Go, Writes, Dir
    <3>2. /\ Dir'["diff"] = [run |-> run, shows |-> content]
          /\ \A p \in Parts \ {"diff"} : Dir'[p] = Dir[p]
      BY <3>1, WriteIsLocal DEF Parts
    <3> QED
      BY <2>6, <3>1, <3>2 DEF CollectGit, Go, Parts
  <2>7. CASE WriteEvidence
    <3> DEFINE content == [c \in Gates \cup {"ci"} |->
                 IF commands[c] # NotRun THEN commands[c]
                 ELSE Dir.evidence.shows[c]]
    <3>1. /\ Writes("evidence", content) /\ out \in InRoot
          /\ rc' = rc /\ run' = run /\ commands' = commands
          /\ preflight' = preflight
      BY <2>7 DEF WriteEvidence, Go, Writes, Dir
    <3>2. /\ Dir'["evidence"] = [run |-> run, shows |-> content]
          /\ \A p \in Parts \ {"evidence"} : Dir'[p] = Dir[p]
      BY <3>1, WriteIsLocal DEF Parts
    <3>3. content = commands
      <4>1. Dir.evidence.shows = NoCommands
        BY <2>7 DEF WriteEvidence, Go
      <4>2. \A c \in Gates \cup {"ci"} : content[c] = commands[c]
        BY <4>1 DEF NoCommands
      <4> QED
        BY <4>2 DEF Results
    <3> HIDE DEF content
    <3> QED
      BY <2>7, <3>1, <3>2, <3>3 DEF WriteEvidence, Go, Parts
  <2>8. CASE CopyBuildEvidence
    <3> DEFINE content == preflight
    <3>1. /\ Writes("build", content) /\ out \in InRoot
          /\ rc' = rc /\ run' = run /\ commands' = commands
          /\ preflight' = preflight
      BY <2>8 DEF CopyBuildEvidence, Go, Writes, Dir
    <3>2. /\ Dir'["build"] = [run |-> run, shows |-> content]
          /\ \A p \in Parts \ {"build"} : Dir'[p] = Dir[p]
      BY <3>1, WriteIsLocal DEF Parts
    <3> HIDE DEF content
    <3> QED
      BY <2>8, <3>1, <3>2 DEF content, CopyBuildEvidence, Go, Parts
  <2>9. CASE CopyRepo
    <3> DEFINE content == [f \in Files |->
                 IF f \in Selected THEN tree[f] ELSE 0]
    <3>1. /\ Writes("repo", content) /\ out \in InRoot
          /\ rc' = rc /\ run' = run /\ commands' = commands
          /\ preflight' = preflight
      BY <2>9 DEF CopyRepo, Go, Writes, Dir
    <3>2. /\ Dir'["repo"] = [run |-> run, shows |-> content]
          /\ \A p \in Parts \ {"repo"} : Dir'[p] = Dir[p]
      BY <3>1, WriteIsLocal DEF Parts
    <3> HIDE DEF content
    <3> QED
      BY <2>9, <3>1, <3>2 DEF content, CopyRepo, Go, Parts
  <2>10. CASE WriteMarkdown
    <3> DEFINE content == tree[Manifest]
    <3>1. /\ Writes("markdown", content) /\ out \in InRoot
          /\ rc' = rc /\ run' = run /\ commands' = commands
          /\ preflight' = preflight
      BY <2>10 DEF WriteMarkdown, Go, Writes, Dir
    <3>2. /\ Dir'["markdown"] = [run |-> run, shows |-> content]
          /\ \A p \in Parts \ {"markdown"} : Dir'[p] = Dir[p]
      BY <3>1, WriteIsLocal DEF Parts
    <3> HIDE DEF content
    <3> QED
      BY <2>10, <3>1, <3>2 DEF content, WriteMarkdown, Go, Parts
  <2>11. CASE WriteJson
    <3> DEFINE content == commands
    <3>1. /\ Writes("json", content) /\ out \in InRoot
          /\ rc' = rc /\ run' = run /\ commands' = commands
          /\ preflight' = preflight
      BY <2>11 DEF WriteJson, Go, Writes, Dir
    <3>2. /\ Dir'["json"] = [run |-> run, shows |-> content]
          /\ \A p \in Parts \ {"json"} : Dir'[p] = Dir[p]
      BY <3>1, WriteIsLocal DEF Parts
    <3> HIDE DEF content
    <3> QED
      BY <2>11, <3>1, <3>2 DEF content, WriteJson, Go, Parts
  <2>12. CASE \E i \in 1..Len(ZipOrder) : AddToZip(i)
    <3>1. Dir' = Dir
      BY <2>12, AddIsLocal
    <3> QED
      BY <2>12, <3>1 DEF AddToZip
  <2>13. CASE Raise \/ ZipDone
    <3>1. Dir' = Dir
      BY <2>13 DEF Raise, ZipDone, Dir
    <3> QED
      BY <2>13, <3>1 DEF Raise, ZipDone
  <2>14. CASE Killed
    <3>1. Dir' = Dir
      BY <2>14 DEF Killed, Dir
    <3> QED
      BY <2>14, <3>1 DEF Killed
  <2>15. ASSUME NEW f \in Files, Edit(f)
        PROVE  PartsInv'
    <3>1. Dir' = Dir
      BY <2>15 DEF Edit, Dir
    <3> QED
      BY <2>15, <3>1 DEF Edit
  <2>16. CASE UNCHANGED vars
    <3>1. Dir' = Dir
      BY <2>16 DEF vars, Dir
    <3> QED
      BY <2>16, <3>1 DEF vars
  <2> HIDE DEF TypeOK, PartsInv, Stage, PastJson, PastMarkdown, PastRepo,
               PastBuild, PastEvidence, PastGit
  <2> QED
    BY <2>1, <2>2, <2>3, <2>4, <2>5, <2>6, <2>7, <2>8, <2>9,
       <2>10, <2>11, <2>12, <2>13, <2>14, <2>15, <2>16
       DEF Next, ReviewStep
<1> QED
  BY <1>1, <1>2, TypeCorrect, CommandsInvariant, PTL DEF Spec

(* The parts show the tree, unless somebody edits it. *)
LEMMA TreeInvariant == Spec => []TreeInv
<1>1. Init => TreeInv
  BY ReviewAssumption, ConstantsTyped
     DEF Init, TreeInv, Stage, PastJson, PastMarkdown, PastRepo, PastBuild,
         PastEvidence, PastGit
<1>2. TypeOK /\ CommandsInv /\ TreeInv /\ [Next]_vars => TreeInv'
  <2> SUFFICES ASSUME TypeOK, CommandsInv, TreeInv, [Next]_vars
               PROVE  TreeInv'
    OBVIOUS
  <2> USE ReviewAssumption, ConstantsTyped
  <2> USE DEF world, locals
  <2> USE DEF TypeOK, TreeInv, Stage, PastJson, PastMarkdown, PastRepo,
              PastBuild, PastEvidence, PastGit
  <2>1. ASSUME NEW dir \in OutDirs, NEW gates \in BOOLEAN,
               Start(dir, gates)
        PROVE  TreeInv'
    BY <2>1 DEF Start
  <2>2. CASE ClearOut
    <3>1. tree' = [f \in Files |-> IF f \in Below[out] THEN 0 ELSE tree[f]]
      BY <2>2 DEF ClearOut
    <3> QED
      BY <2>2, <3>1 DEF ClearOut, Go
  <2>3. ASSUME NEW failed \in BOOLEAN, RunGate(failed)
        PROVE  TreeInv'
    <3>1. \A f \in Files \ {Manifest} : tree'[f] = tree[f]
      BY <2>3 DEF RunGate, PreflightGate, Trees
    <3> QED
      BY <2>3, <3>1 DEF RunGate, Go
  <2>4. CASE GatesDone
    <3>1. Dir' = Dir
      BY <2>4 DEF GatesDone, Dir
    <3> QED
      BY <2>4, <3>1 DEF GatesDone, Go
  <2>5. CASE Aggregate
    <3>1. Dir' = Dir
      BY <2>5 DEF Aggregate, Dir
    <3> QED
      BY <2>5, <3>1 DEF Aggregate, Go
  <2>6. CASE CollectGit
    <3> PICK content \in {tree, NoTree} : Writes("diff", content)
      BY <2>6 DEF CollectGit
    <3>1. /\ Writes("diff", content) /\ out \in InRoot
          /\ rc' = rc /\ out' = out
          /\ UNCHANGED <<tree, atStart, touched>>
      BY <2>6 DEF CollectGit, Go, Writes
    <3>2. /\ Dir'["diff"] = [run |-> run, shows |-> content]
          /\ \A p \in Parts \ {"diff"} : Dir'[p] = Dir[p]
      BY <3>1, WriteIsLocal DEF Parts
    <3>3. Dir'.diff.shows = content
      BY <3>2
    <3>4. Dir'.repo = Dir.repo /\ Dir'.markdown = Dir.markdown
      BY <3>2 DEF Parts
    <3>5. phase = "git" /\ phase' = "evidence"
      BY <2>6 DEF CollectGit, Go
    <3> HIDE DEF TypeOK
    <3> QED
      BY <3>1, <3>3, <3>4, <3>5
  <2>7. CASE WriteEvidence
    <3> DEFINE content == [c \in Gates \cup {"ci"} |->
                 IF commands[c] # NotRun THEN commands[c]
                 ELSE package[out].dir.evidence.shows[c]]
    <3>1. /\ Writes("evidence", content) /\ out \in InRoot
          /\ rc' = rc /\ out' = out
          /\ UNCHANGED <<tree, atStart, touched>>
      BY <2>7 DEF WriteEvidence, Go, Writes
    <3>2. /\ Dir'["evidence"] = [run |-> run, shows |-> content]
          /\ \A p \in Parts \ {"evidence"} : Dir'[p] = Dir[p]
      BY <3>1, WriteIsLocal DEF Parts
    <3>3. /\ Dir'.diff = Dir.diff /\ Dir'.repo = Dir.repo
          /\ Dir'.markdown = Dir.markdown
      BY <3>2 DEF Parts
    <3>4. phase = "evidence" /\ phase' = "build"
      BY <2>7 DEF WriteEvidence, Go
    <3> HIDE DEF TypeOK, content
    <3> QED
      BY <3>1, <3>3, <3>4
  <2>8. CASE CopyBuildEvidence
    <3> DEFINE content == preflight
    <3>1. /\ Writes("build", content) /\ out \in InRoot
          /\ rc' = rc /\ out' = out
          /\ UNCHANGED <<tree, atStart, touched>>
      BY <2>8 DEF CopyBuildEvidence, Go, Writes
    <3>2. /\ Dir'["build"] = [run |-> run, shows |-> content]
          /\ \A p \in Parts \ {"build"} : Dir'[p] = Dir[p]
      BY <3>1, WriteIsLocal DEF Parts
    <3>3. /\ Dir'.diff = Dir.diff /\ Dir'.repo = Dir.repo
          /\ Dir'.markdown = Dir.markdown
      BY <3>2 DEF Parts
    <3>4. phase = "build" /\ phase' = "repo"
      BY <2>8 DEF CopyBuildEvidence, Go
    <3> HIDE DEF TypeOK, content
    <3> QED
      BY <3>1, <3>3, <3>4
  <2>9. CASE CopyRepo
    <3> DEFINE content == [f \in Files |->
                 IF f \in Selected THEN tree[f] ELSE 0]
    <3>1. /\ Writes("repo", content) /\ out \in InRoot
          /\ rc' = rc /\ out' = out
          /\ UNCHANGED <<tree, atStart, touched>>
      BY <2>9 DEF CopyRepo, Go, Writes
    <3>2. /\ Dir'["repo"] = [run |-> run, shows |-> content]
          /\ \A p \in Parts \ {"repo"} : Dir'[p] = Dir[p]
      BY <3>1, WriteIsLocal DEF Parts
    <3>3. Dir'.repo.shows = content
      BY <3>2
    <3>4. Dir'.diff = Dir.diff /\ Dir'.markdown = Dir.markdown
      BY <3>2 DEF Parts
    <3>5. phase = "repo" /\ phase' = "markdown"
      BY <2>9 DEF CopyRepo, Go
    <3> HIDE DEF TypeOK
    <3> QED
      BY <3>1, <3>3, <3>4, <3>5
  <2>10. CASE WriteMarkdown
    <3> DEFINE content == tree[Manifest]
    <3>1. /\ Writes("markdown", content) /\ out \in InRoot
          /\ rc' = rc /\ out' = out
          /\ UNCHANGED <<tree, atStart, touched>>
      BY <2>10 DEF WriteMarkdown, Go, Writes
    <3>2. /\ Dir'["markdown"] = [run |-> run, shows |-> content]
          /\ \A p \in Parts \ {"markdown"} : Dir'[p] = Dir[p]
      BY <3>1, WriteIsLocal DEF Parts
    <3>3. Dir'.markdown.shows = content
      BY <3>2
    <3>4. Dir'.diff = Dir.diff /\ Dir'.repo = Dir.repo
      BY <3>2 DEF Parts
    <3>5. phase = "markdown" /\ phase' = "json"
      BY <2>10 DEF WriteMarkdown, Go
    <3> HIDE DEF TypeOK
    <3> QED
      BY <3>1, <3>3, <3>4, <3>5
  <2>11. CASE WriteJson
    <3> DEFINE content == commands
    <3>1. /\ Writes("json", content) /\ out \in InRoot
          /\ rc' = rc /\ out' = out
          /\ UNCHANGED <<tree, atStart, touched>>
      BY <2>11 DEF WriteJson, Go, Writes
    <3>2. /\ Dir'["json"] = [run |-> run, shows |-> content]
          /\ \A p \in Parts \ {"json"} : Dir'[p] = Dir[p]
      BY <3>1, WriteIsLocal DEF Parts
    <3>3. /\ Dir'.diff = Dir.diff /\ Dir'.repo = Dir.repo
          /\ Dir'.markdown = Dir.markdown
      BY <3>2 DEF Parts
    <3>4. phase = "json" /\ phase' = "zip"
      BY <2>11 DEF WriteJson, Go
    <3> HIDE DEF TypeOK, content
    <3> QED
      BY <3>1, <3>3, <3>4
  <2>12. CASE \E i \in 1..Len(ZipOrder) : AddToZip(i)
    <3>1. Dir' = Dir
      BY <2>12, AddIsLocal
    <3> QED
      BY <2>12, <3>1 DEF AddToZip
  <2>13. CASE Raise \/ ZipDone
    <3>1. Dir' = Dir
      BY <2>13 DEF Raise, ZipDone, Dir
    <3> QED
      BY <2>13, <3>1 DEF Raise, ZipDone
  <2>14. CASE Killed
    <3>1. Dir' = Dir
      BY <2>14 DEF Killed, Dir
    <3> QED
      BY <2>14, <3>1 DEF Killed
  <2>15. ASSUME NEW f \in Files, Edit(f)
        PROVE  TreeInv'
    <3>1. Dir' = Dir
      BY <2>15 DEF Edit, Dir
    <3> QED
      BY <2>15, <3>1 DEF Edit
  <2>16. CASE UNCHANGED vars
    <3>1. Dir' = Dir
      BY <2>16 DEF vars, Dir
    <3> QED
      BY <2>16, <3>1 DEF vars
  <2> HIDE DEF TypeOK, TreeInv, Stage, PastJson, PastMarkdown, PastRepo,
               PastBuild, PastEvidence, PastGit
  <2> QED
    BY <2>1, <2>2, <2>3, <2>4, <2>5, <2>6, <2>7, <2>8, <2>9,
       <2>10, <2>11, <2>12, <2>13, <2>14, <2>15, <2>16
       DEF Next, ReviewStep
<1> QED
  BY <1>1, <1>2, TypeCorrect, CommandsInvariant, PTL DEF Spec

-----------------------------------------------------------------------------
(* What ZipIsOfOneRun says of a ZIP that review.json is in.                  *)
Consistent(zip) ==
  /\ \A part \in DOMAIN zip : zip[part].run = zip.json.run
  /\ zip.evidence.shows = zip.json.shows
  /\ \A c \in Gates \cup {"ci"} : zip.json.shows[c].run \in {0, zip.json.run}
  /\ Passed(zip, "ci") => \A g \in FastGates : Passed(zip, g)
  /\ Passed(zip, "builder-preflight") => zip.build.shows = zip.json.run

(* The entries of a ZIP are one run's, of those so far; it is consistent     *)
(* once review.json is in it; and the run that clears a directory finds no   *)
(* ZIP of its own in it.                                                     *)
ZipsInv ==
  /\ \A d \in InRoot :
       /\ \E r \in 0..run : \A p \in Parts : package[d].zip[p].run \in {0, r}
       /\ package[d].zip.json.run # 0 => Consistent(package[d].zip)
  /\ phase = "clear" => Zip.json.run # run

(* What the ZIP of this run holds, from clearing to the end.                 *)
LEMMA ZipInvariant == Spec => []ZipInv
<1>1. Init => ZipInv
  BY DEF Init, ZipInv, Stage
<1>2. TypeOK /\ CommandsInv /\ PartsInv /\ ZipInv /\ [Next]_vars => ZipInv'
  <2> SUFFICES ASSUME TypeOK, CommandsInv, PartsInv, ZipInv, [Next]_vars
               PROVE  ZipInv'
    OBVIOUS
  <2> USE ReviewAssumption, ConstantsTyped
  <2> USE DEF world, locals, ZipInv, Stage
  <2>1. ASSUME NEW dir \in OutDirs, NEW gates \in BOOLEAN,
               Start(dir, gates)
        PROVE  ZipInv'
    BY <2>1 DEF Start
  <2>2. CASE ClearOut
    <3>1. /\ out \in InRoot
          /\ package \in [InRoot -> [dir : Packed, zip : Packed]]
      BY <2>2 DEF ClearOut, Go, TypeOK
    <3>2. Zip' = Nothing
      BY <2>2, <3>1 DEF ClearOut, Zip, NoPackage
    <3> QED
      BY <2>2, <3>2 DEF ClearOut, Go
  <2>3. ASSUME Zip' = Zip, phase \notin {"idle", "clear", "zip"}, rc' = rc,
               phase' \in {"gates", "ci", "git", "evidence", "build", "repo",
                          "markdown", "json"}
        PROVE  ZipInv'
    BY <2>3
  <2>4. CASE \/ \E failed \in BOOLEAN : RunGate(failed)
             \/ GatesDone \/ Aggregate
    <3>1. Zip' = Zip
      BY <2>4 DEF RunGate, GatesDone, Aggregate, Zip
    <3> QED
      BY <2>3, <2>4, <3>1 DEF RunGate, GatesDone, Aggregate, Go
  <2>5. ASSUME NEW part \in Parts, NEW content, Writes(part, content),
               out \in InRoot
        PROVE  Zip' = Zip
    BY <2>5, WriteIsLocal DEF Zip
  <2>6. CASE CollectGit \/ WriteEvidence \/ CopyBuildEvidence
    <3>1. out \in InRoot
      BY <2>6 DEF CollectGit, WriteEvidence, CopyBuildEvidence, Go, TypeOK
    <3>2. Zip' = Zip
      BY <2>5, <2>6, <3>1
         DEF CollectGit, WriteEvidence, CopyBuildEvidence, Parts
    <3> QED
      BY <2>3, <2>6, <3>2 DEF CollectGit, WriteEvidence, CopyBuildEvidence, Go
  <2>7. CASE CopyRepo \/ WriteMarkdown
    <3>1. out \in InRoot
      BY <2>7 DEF CopyRepo, WriteMarkdown, Go, TypeOK
    <3>2. Zip' = Zip
      BY <2>5, <2>7, <3>1 DEF CopyRepo, WriteMarkdown, Parts
    <3> QED
      BY <2>3, <2>7, <3>2 DEF CopyRepo, WriteMarkdown, Go
  <2>8. CASE WriteJson
    <3>1. out \in InRoot /\ phase = "json" /\ phase' = "zip" /\ rc' = rc
      BY <2>8 DEF WriteJson, Go, TypeOK
    <3>2. Zip' = Nothing
      BY <2>5, <2>8, <3>1 DEF WriteJson, Parts
    <3> QED
      BY <3>1, <3>2
  <2>9. ASSUME NEW i \in 1..Len(ZipOrder), AddToZip(i)
        PROVE  ZipInv'
    <3>1. phase = "zip" /\ phase' = "zip" /\ rc' = rc
      BY <2>9 DEF AddToZip
    <3>2. /\ Dir' = Dir /\ Zip'[ZipOrder[i]] = Dir[ZipOrder[i]]
          /\ \A p \in Parts \ {ZipOrder[i]} : Zip'[p] = Zip[p]
      BY <2>9, AddIsLocal
    <3>3. \A p \in Parts : Zip'[p] \in {Nothing[p], Dir'[p]}
      BY <3>1, <3>2
    <3> QED
      BY <3>1, <3>3
  <2>10. CASE ZipDone
    <3>1. /\ phase = "zip" /\ phase' = "idle" /\ out' = out /\ run # 0
          /\ package' = package /\ out \in InRoot
          /\ Zip \in Packed /\ Dir \in Packed
      BY <2>10 DEF ZipDone, TypeOK, CommandsInv, Zip, Dir
    <3>2. \A p \in Parts : Zip[p].run = run
      BY <2>10, ZipOrderIsOfParts DEF ZipDone, Unzipped, Zip
    <3>3. \A p \in Parts : Nothing[p].run = 0
      BY DEF Nothing, NoPart, Parts
    <3>4. \A p \in Parts : Zip[p] = Dir[p]
      BY <3>1, <3>2, <3>3
    <3>5. Zip = Dir
      BY <3>1, <3>4 DEF Packed, Parts
    <3>6. Zip' = Zip /\ Dir' = Dir
      BY <3>1 DEF Zip, Dir
    <3> QED
      BY <3>1, <3>5, <3>6
  <2>11. CASE Raise \/ Killed
    BY <2>11 DEF Raise, Killed
  <2>12. CASE UNCHANGED <<package, phase, out, rc>>
    <3>1. Zip' = Zip /\ Dir' = Dir
      BY <2>12 DEF Zip, Dir
    <3> QED
      BY <2>12, <3>1
  <2>13. CASE (\E f \in Files : Edit(f)) \/ UNCHANGED vars
    BY <2>12, <2>13 DEF Edit, vars
  <2> QED
    BY <2>1, <2>2, <2>4, <2>6, <2>7, <2>8, <2>9, <2>10, <2>11, <2>13
       DEF Next, ReviewStep
<1> QED
  BY <1>1, <1>2, TypeCorrect, CommandsInvariant, PartsInvariant, PTL DEF Spec

(* Every ZIP that lies about is one run's, whatever the later runs do.       *)
LEMMA ZipsInvariant == Spec => []ZipsInv
<1>0. (\A p \in Parts : Nothing[p].run = 0) /\ Nothing.json.run = 0
  BY DEF Nothing, NoPart, Parts
<1>1. Init => ZipsInv
  BY <1>0 DEF Init, ZipsInv, NoPackage
<1>2. TypeOK /\ CommandsInv /\ PartsInv /\ ZipInv /\ ZipsInv /\ [Next]_vars
        => ZipsInv'
  <2> SUFFICES ASSUME TypeOK, CommandsInv, PartsInv, ZipInv, ZipsInv,
                      [Next]_vars
               PROVE  ZipsInv'
    OBVIOUS
  <2> USE ReviewAssumption, ConstantsTyped
  <2> DEFINE OneRun(zip, n) ==
               \E r \in 0..n : \A p \in Parts : zip[p].run \in {0, r}
  <2>0. run \in Nat /\ package \in [InRoot -> [dir : Packed, zip : Packed]]
    BY DEF TypeOK
  <2>1. /\ run' \in {run, run + 1}
        /\ phase' = "clear" =>
             \/ run' = run + 1 /\ out' \in InRoot
             \/ phase = "clear" /\ UNCHANGED <<run, out>>
    <3> USE DEF world, locals
    <3>1. ASSUME NEW dir \in OutDirs, NEW gates \in BOOLEAN, Start(dir, gates)
          PROVE  run' = run + 1 /\ (phase' = "clear" => out' \in InRoot)
      BY <3>1 DEF Start
    <3>2. CASE ReviewStep
      <4>1. run' = run /\ phase' # "clear"
        BY <3>2
           DEF ReviewStep, ClearOut, RunGate, GatesDone, Aggregate, CollectGit,
               WriteEvidence, CopyBuildEvidence, CopyRepo, WriteMarkdown,
               WriteJson, AddToZip, ZipDone, Go
      <4> QED
        BY <4>1
    <3>3. CASE Raise \/ Killed \/ (\E f \in Files : Edit(f)) \/ UNCHANGED vars
      BY <3>3 DEF Raise, Killed, Edit, vars
    <3> QED
      BY <3>1, <3>2, <3>3 DEF Next
  <2>2. \A zip : OneRun(zip, run) => OneRun(zip, run')
    BY <2>0, <2>1
  <2>3. OneRun(Nothing, run') /\ Nothing.json.run = 0
    BY <1>0, <2>0, <2>1
  <2>4. ASSUME \A d \in InRoot : package'[d].zip \in {Nothing, package[d].zip}
        PROVE  \A d \in InRoot :
                 /\ OneRun(package'[d].zip, run')
                 /\ package'[d].zip.json.run # 0 => Consistent(package'[d].zip)
    BY <2>2, <2>3, <2>4 DEF ZipsInv
  <2>5. CASE ClearOut \/ Killed
    <3>1. /\ phase' # "clear" /\ out \in InRoot
          /\ \A d \in InRoot : package'[d].zip \in {Nothing, package[d].zip}
      <4>1. CASE ClearOut
        BY <2>0, <4>1 DEF ClearOut, Go, NoPackage, TypeOK
      <4>2. CASE Killed
        BY <2>0, <4>2 DEF Killed, TypeOK
      <4> QED
        BY <2>5, <4>1, <4>2
    <3> QED
      BY <2>4, <3>1 DEF ZipsInv
  <2>6. ASSUME NEW i \in 1..Len(ZipOrder), AddToZip(i)
        PROVE  ZipsInv'
    <3>1. phase = "zip" /\ phase' = "zip" /\ out' = out /\ run' = run
      BY <2>6 DEF AddToZip, locals
    <3>2. /\ out \in InRoot /\ Dir' = Dir /\ ZipOrder[i] \in Parts
          /\ Zip[ZipOrder[i]].run # run
          /\ \A j \in 1..i - 1 : Zip[ZipOrder[j]].run = run
          /\ Zip'[ZipOrder[i]] = Dir[ZipOrder[i]]
          /\ \A p \in Parts \ {ZipOrder[i]} : Zip'[p] = Zip[p]
          /\ \A d \in InRoot \ {out} : package'[d].zip = package[d].zip
          /\ package' \in [InRoot -> [dir : Packed, zip : Packed]]
      BY <2>6, AddIsLocal
    <3>3. /\ Zip \in Packed /\ Dir \in Packed /\ Zip' \in Packed
          /\ Zip' = package'[out].zip
      BY <2>0, <3>1, <3>2 DEF Zip, Dir
    <3>4. /\ run # 0 /\ Dir.json = [run |-> run, shows |-> commands]
          /\ Dir.evidence = [run |-> run, shows |-> commands]
          /\ Dir.build = [run |-> run, shows |-> preflight]
          /\ Dir.diff.run = run /\ Dir.repo.run = run /\ Dir.markdown.run = run
      BY <3>1
         DEF CommandsInv, PartsInv, Stage, PastJson, PastMarkdown, PastRepo,
             PastBuild, PastEvidence, PastGit
    <3>5. \A p \in Parts : Dir[p].run = run
      BY <3>4 DEF Parts
    <3>6. \A p \in Parts : Zip[p] \in {Nothing[p], Dir[p]}
      BY <3>1 DEF ZipInv
    <3>7. \A p \in Parts : Zip[p].run \in {0, run}
      BY <1>0, <3>5, <3>6
    <3>8. \A p \in Parts : Zip'[p].run \in {0, run}
      BY <3>2, <3>5, <3>7
    <3>9. OneRun(Zip', run')
      BY <2>0, <3>1, <3>8
    <3>10. Zip.json.run = 0
      <4> SUFFICES ASSUME Zip.json.run # 0
                   PROVE  FALSE
        OBVIOUS
      <4>1. DOMAIN Zip = Parts
        BY <3>3 DEF Packed, Parts
      <4>2. Consistent(Zip)
        BY <3>2 DEF ZipsInv, Zip
      <4>3. Zip.json.run = run
        BY <3>7 DEF Parts
      <4> QED
        BY <3>2, <4>1, <4>2, <4>3 DEF Consistent
    <3>11. ASSUME Zip'.json.run # 0
           PROVE  Consistent(Zip')
      <4>1. ZipOrder[i] = "json"
        BY <3>2, <3>10, <3>11 DEF Parts
      <4>2. i = 6
        BY <4>1, ZipOrderIsOfParts DEF ZipOrder
      <4>3. \A p \in Parts \ {"json"} : Zip[p].run = run
        BY <3>2, <4>2, ZipOrderIsOfParts DEF ZipOrder, Parts
      <4>4. \A p \in Parts : Zip'[p] = Dir[p]
        <5>1. \A p \in Parts \ {"json"} : Zip[p] # Nothing[p]
          BY <1>0, <3>4, <4>3
        <5>2. Zip'["json"] = Dir["json"]
          BY <3>2, <4>1
        <5> QED
          BY <3>2, <3>6, <4>1, <5>1, <5>2
      <4>5. Zip' = Dir
        BY <3>3, <4>4, SameParts
      <4>6. Consistent(Dir)
        <5>1. \A part \in DOMAIN Dir : Dir[part].run = run
          BY <3>3, <3>5 DEF Packed, Parts
        <5>2. \A c \in Gates \cup {"ci"} : commands[c].run \in {0, run}
          BY DEF CommandsInv, NotRun
        <5>3. /\ Dir.json.run = run /\ Dir.json.shows = commands
              /\ Dir.evidence.shows = commands /\ Dir.build.shows = preflight
          BY <3>4
        <5>4. ASSUME Passed(Dir, "ci"), NEW g \in FastGates
              PROVE  Passed(Dir, g)
          <6>1. commands["ci"] # NotRun /\ ~commands["ci"].failed
            BY <5>3, <5>4 DEF NotRun, Passed
          <6>2. commands[g] = [run |-> run, failed |-> FALSE]
            BY <3>1, <6>1 DEF CommandsInv
          <6> QED
            BY <3>4, <5>3, <6>2 DEF Passed
        <5>5. ASSUME Passed(Dir, "builder-preflight")
              PROVE  preflight = run
          <6>1. /\ commands["builder-preflight"].run # 0
                /\ ~commands["builder-preflight"].failed
            BY <5>3, <5>5 DEF Passed
          <6>2. commands["builder-preflight"].run = run
            BY <5>2, <6>1, ConstantsTyped
          <6> QED
            BY <3>1, <6>1, <6>2 DEF CommandsInv
        <5> QED
          BY <5>1, <5>2, <5>3, <5>4, <5>5, Zenon DEF Consistent
      <4> QED
        BY <4>5, <4>6
    <3>12. \A d \in InRoot :
             /\ OneRun(package'[d].zip, run')
             /\ package'[d].zip.json.run # 0 => Consistent(package'[d].zip)
      BY <2>2, <3>2, <3>3, <3>9, <3>11 DEF ZipsInv
    <3> QED
      BY <3>1, <3>12 DEF ZipsInv
  <2>7. CASE \A d \in InRoot : package'[d].zip = package[d].zip
    <3>1. phase' = "clear" => Zip'.json.run # run'
      <4>1. CASE phase = "clear" /\ UNCHANGED <<run, out>>
        <5>1. out \in InRoot
          BY <4>1 DEF TypeOK
        <5> QED
          BY <2>7, <4>1, <5>1 DEF ZipsInv, Zip
      <4>2. CASE run' = run + 1 /\ out' \in InRoot
        <5>1. Zip' = package[out'].zip
          BY <2>7, <4>2 DEF Zip
        <5>2. OneRun(package[out'].zip, run)
          BY <4>2 DEF ZipsInv
        <5>3. Zip'.json.run \in 0..run
          BY <2>0, <5>1, <5>2 DEF Parts
        <5> QED
          BY <2>0, <4>2, <5>3
      <4> QED
        BY <2>1, <4>1, <4>2
    <3> QED
      BY <2>4, <2>7, <3>1 DEF ZipsInv
  <2> QED
    BY <2>5, <2>6, <2>7, ZipsAreLeft
<1> QED
  BY <1>1, <1>2, TypeCorrect, CommandsInvariant, PartsInvariant, ZipInvariant,
     PTL DEF Spec

(* A review ZIP is complete and of one run: no gate's output of an earlier   *)
(* run stands in it, and a "ci" that passed has the output of every fast     *)
(* gate with it, whatever died on the way.                                   *)
THEOREM ZipsAreOfOneRun == Spec => []ZipIsOfOneRun
<1>1. TypeOK /\ ZipsInv => ZipIsOfOneRun
  <2> SUFFICES ASSUME TypeOK, ZipsInv, NEW d \in InRoot, NEW zip,
                      zip = package[d].zip
               PROVE  /\ \A p, q \in DOMAIN zip :
                           zip[p].run # 0 /\ zip[q].run # 0 =>
                             zip[p].run = zip[q].run
                      /\ zip.json.run # 0 => Consistent(zip)
    BY DEF ZipIsOfOneRun, Consistent
  <2>1. DOMAIN zip = Parts
    BY DEF TypeOK, Packed, Parts
  <2> QED
    BY <2>1 DEF ZipsInv
<1> QED
  BY <1>1, TypeCorrect, ZipsInvariant, PTL

(* What a review says and what it holds describe one tree, unless somebody   *)
(* edited it meanwhile; a patch in which git gave no diff says nothing.      *)
THEOREM ReviewsAreOfOneTree == Spec => []ReviewIsOfOneTree
<1>1. TypeOK /\ ZipInv /\ TreeInv => ReviewIsOfOneTree
  <2> SUFFICES ASSUME TypeOK, ZipInv, TreeInv, Untouched
               PROVE  /\ Zip.diff.shows # NoTree =>
                           \A f \in Selected :
                             Zip.repo.shows[f] = Zip.diff.shows[f]
                      /\ Zip.markdown.shows = Zip.repo.shows[Manifest]
                      /\ \A f \in Selected \ ({Manifest} \cup Below[out]) :
                           Zip.repo.shows[f] = atStart[f]
    BY DEF ReviewIsOfOneTree
  <2>1. Stage = "done" /\ Zip = Dir
    BY DEF Untouched, Stage, ZipInv
  <2>2. /\ Dir.diff.shows \in {tree, NoTree}
        /\ Dir.repo.shows =
             [f \in Files |-> IF f \in Selected THEN tree[f] ELSE 0]
        /\ Dir.markdown.shows = tree[Manifest]
        /\ \A f \in Files \ ({Manifest} \cup Below[out]) : tree[f] = atStart[f]
    BY <2>1 DEF Untouched, TreeInv, PastGit, PastEvidence, PastBuild, PastRepo,
                PastMarkdown, PastJson
  <2> QED
    BY <2>1, <2>2, ConstantsTyped
<1> QED
  BY <1>1, TypeCorrect, ZipInvariant, TreeInvariant, PTL

-----------------------------------------------------------------------------
(* create_review keeps what ReviewContract promises: an earlier review is    *)
(* gone before a new one appears, a run leaves at most one review, in its    *)
(* own directory, exits 0 only if it is there, and 2 only without one.       *)
THEOREM ImplementsPromise == Spec => KeepsPromise
<1> DEFINE Shown == [d \in InRoot |-> package[d].zip.json.run]
<1>1. Init => Promise!PromiseInit
  <2>1. Nothing.json.run = 0
    BY DEF Nothing, NoPart
  <2> QED
    BY <2>1 DEF Init, NoPackage, Promise!PromiseInit
<1>2. TypeOK /\ CommandsInv /\ PartsInv /\ ZipInv /\ ZipsInv /\ [Next]_vars
        => [Promise!PromiseNext]_Promise!promiseVars
  <2> SUFFICES ASSUME TypeOK, CommandsInv, PartsInv, ZipInv, ZipsInv,
                      [Next]_vars
               PROVE  [Promise!PromiseNext]_Promise!promiseVars
    OBVIOUS
  <2> USE DEF Promise!promiseVars
  <2>1. ASSUME \A d \in InRoot : package'[d].zip = package[d].zip
        PROVE  Shown' = Shown
    BY <2>1
  <2>2. ASSUME out \in InRoot, NEW n, package'[out].zip.json.run = n,
               \A d \in InRoot \ {out} : package'[d].zip = package[d].zip
        PROVE  Shown' = [Shown EXCEPT ![out] = n]
    BY <2>2
  <2>3. Nothing.json.run = 0
    BY DEF Nothing, NoPart
  <2>4. ASSUME NEW dir \in OutDirs, NEW gates \in BOOLEAN,
               Start(dir, gates)
        PROVE  Promise!PromiseNext
    <3>1. Shown' = Shown
      BY <2>4 DEF Start
    <3>2. CASE dir \in InRoot
      BY <2>4, <3>1, <3>2 DEF Start, Promise!PromiseNext, Promise!Begin
    <3>3. CASE dir \notin InRoot
      BY <2>4, <3>1, <3>3 DEF Start, Promise!PromiseNext, Promise!Refuse
    <3> QED
      BY <3>2, <3>3
  <2>5. CASE ClearOut
    <3>1. /\ phase = "clear" /\ phase' # "idle" /\ out \in InRoot
          /\ UNCHANGED <<run, out, rc>>
          /\ package'[out].zip = Nothing
          /\ \A d \in InRoot \ {out} : package'[d].zip = package[d].zip
      BY <2>5 DEF ClearOut, Go, locals, NoPackage, TypeOK
    <3>2. Shown' = [Shown EXCEPT ![out] = 0] /\ Shown[out] # run
      BY <2>2, <2>3, <3>1 DEF ZipsInv, Zip
    <3> QED
      BY <3>1, <3>2 DEF Promise!PromiseNext, Promise!Withdraw
  <2>6. ASSUME NEW i \in 1..Len(ZipOrder), AddToZip(i)
        PROVE  [Promise!PromiseNext]_Promise!promiseVars
    <3>1. phase = "zip" /\ UNCHANGED <<phase, run, out, rc>>
      BY <2>6 DEF AddToZip, locals
    <3>2. /\ out \in InRoot /\ ZipOrder[i] \in Parts
          /\ Zip[ZipOrder[i]].run # run
          /\ Zip'[ZipOrder[i]] = Dir[ZipOrder[i]]
          /\ \A p \in Parts \ {ZipOrder[i]} : Zip'[p] = Zip[p]
          /\ \A d \in InRoot \ {out} : package'[d].zip = package[d].zip
      BY <2>6, AddIsLocal
    <3>3. CASE ZipOrder[i] = "json"
      <4>1. Zip.json \in {Nothing.json, Dir.json} /\ Dir.json.run = run
        BY <3>1 DEF ZipInv, Parts, PartsInv, Stage, PastJson
      <4>2. Shown[out] = 0 /\ Zip'.json.run = run
        BY <2>3, <3>2, <3>3, <4>1 DEF Zip
      <4>3. Shown' = [Shown EXCEPT ![out] = run]
        BY <2>2, <3>1, <3>2, <4>2 DEF Zip
      <4> QED
        BY <3>1, <4>2, <4>3 DEF Promise!PromiseNext, Promise!Publish
    <3>4. CASE ZipOrder[i] # "json"
      <4>1. Zip'.json = Zip.json
        BY <3>2, <3>4 DEF Parts
      <4>2. Shown' = Shown
        BY <3>1, <3>2, <4>1 DEF Zip
      <4> QED
        BY <3>1, <4>2
    <3> QED
      BY <3>3, <3>4
  <2>7. CASE ZipDone
    <3>1. /\ phase = "zip" /\ phase' = "idle" /\ rc' = "exit0"
          /\ out \in InRoot /\ UNCHANGED <<run, out, package>>
      BY <2>7 DEF ZipDone, locals, TypeOK
    <3>2. Zip.json.run = run
      BY <2>7, ZipOrderIsOfParts DEF ZipDone, Unzipped, Zip
    <3>3. Shown' = Shown /\ Shown[out] = run
      BY <3>1, <3>2 DEF Zip
    <3> QED
      BY <3>1, <3>3 DEF Promise!PromiseNext, Promise!Succeed
  <2>8. CASE Raise
    <3>1. Shown' = Shown
      BY <2>8 DEF Raise
    <3>2. CASE rc' = "raised"
      BY <2>8, <3>1, <3>2 DEF Raise, locals, Promise!PromiseNext, Promise!Abort
    <3>3. CASE rc' = "exit2" /\ ValueErrors
      <4>1. out \in InRoot
        BY <2>8 DEF Raise, TypeOK
      <4>2. Shown[out] = 0
        <5>1. CASE phase \in {"gates", "git"}
          BY <2>3, <4>1, <5>1 DEF ZipInv, Zip
        <5>2. CASE phase = "zip" /\ Unzipped # {}
          <6>1. PICK i \in 1..Len(ZipOrder) : Zip[ZipOrder[i]].run # run
            BY <5>2 DEF Unzipped, Zip
          <6>2. Zip.json.run \in {0, run}
            BY <2>3, <5>2
               DEF ZipInv, Parts, PartsInv, Stage, PastJson
          <6>3. Zip \in Packed /\ ZipOrder[i] \in Parts
            BY <4>1, ZipOrderIsOfParts DEF Zip, TypeOK
          <6>4. DOMAIN Zip = Parts
            BY <6>3 DEF Packed, Parts
          <6>5. Zip.json.run # 0 => Zip[ZipOrder[i]].run = Zip.json.run
            BY <4>1, <6>3, <6>4 DEF ZipsInv, Zip, Consistent
          <6> QED
            BY <4>1, <6>1, <6>2, <6>5 DEF Zip
        <5> QED
          BY <3>3, <5>1, <5>2 DEF ValueErrors
      <4> QED
        BY <2>8, <3>1, <3>3, <4>1, <4>2
           DEF Raise, locals, Promise!PromiseNext, Promise!FailLate
    <3> QED
      BY <2>8, <3>2, <3>3 DEF Raise
  <2>9. CASE Killed
    <3>1. /\ out \in InRoot /\ package'[out].zip = Nothing
          /\ \A d \in InRoot \ {out} : package'[d].zip = package[d].zip
      BY <2>9 DEF Killed, TypeOK
    <3>2. Shown' = [Shown EXCEPT ![out] = 0]
      BY <2>2, <2>3, <3>1
    <3> QED
      BY <2>9, <3>2 DEF Killed, locals, Promise!PromiseNext, Promise!Abort
  <2>10. CASE /\ \A d \in InRoot : package'[d].zip = package[d].zip
              /\ UNCHANGED <<run, out, rc>>
              /\ (phase = "idle") = (phase' = "idle")
    BY <2>1, <2>10
  <2>11. CASE \/ \E failed \in BOOLEAN : RunGate(failed)
              \/ GatesDone \/ Aggregate
    BY <2>10, <2>11 DEF RunGate, GatesDone, Aggregate, Go, locals
  <2>12. CASE CollectGit \/ WriteEvidence \/ CopyBuildEvidence
    <3>1. \A d \in InRoot : package'[d].zip = package[d].zip
      BY <2>12, ZipsAreLeft
         DEF CollectGit, WriteEvidence, CopyBuildEvidence, Go, ClearOut,
             AddToZip, Killed
    <3> QED
      BY <2>10, <2>12, <3>1
         DEF CollectGit, WriteEvidence, CopyBuildEvidence, Go, Writes, locals
  <2>13. CASE CopyRepo \/ WriteMarkdown \/ WriteJson
    <3>1. \A d \in InRoot : package'[d].zip = package[d].zip
      BY <2>13, ZipsAreLeft
         DEF CopyRepo, WriteMarkdown, WriteJson, Go, ClearOut, AddToZip, Killed
    <3> QED
      BY <2>10, <2>13, <3>1
         DEF CopyRepo, WriteMarkdown, WriteJson, Go, Writes, locals
  <2>14. CASE (\E f \in Files : Edit(f)) \/ UNCHANGED vars
    BY <2>10, <2>14 DEF Edit, vars, locals
  <2> QED
    BY <2>4, <2>5, <2>6, <2>7, <2>8, <2>9, <2>11, <2>12, <2>13, <2>14
       DEF Next, ReviewStep
<1> QED
  BY <1>1, <1>2, TypeCorrect, CommandsInvariant, PartsInvariant, ZipInvariant,
     ZipsInvariant, PTL
     DEF Spec, KeepsPromise, Promise!PromiseSpec
=============================================================================
