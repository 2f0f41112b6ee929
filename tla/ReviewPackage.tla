--------------------------- MODULE ReviewPackage ---------------------------
(***************************************************************************)
(* scripts/create_review.py run by hand (just review, with any --out-dir   *)
(* and with or without --skip-quality): the output directory is cleared,   *)
(* the quality gates run, git status and diff, the gates' output, build    *)
(* evidence and the selected files of the repository are collected one     *)
(* after the other, REVIEW.md and review.json are written and everything   *)
(* is zipped.  The tree may be edited and a run may die at any moment;     *)
(* runs follow one another.                                                *)
(***************************************************************************)
EXTENDS Integers, Sequences, FiniteSets

CONSTANTS
  Files,        \* files of the repository
  Manifest,     \* os/image-source.toml, one of them
  Listed,       \* those at or below one of INCLUDE_PATHS
  Excluded,     \* those that should_exclude turns away by path or name
  OutDirs,      \* what --out-dir may name
  InRoot,       \* those of them inside of the repository, none inside another
  Below,        \* the files that are below each of them
  QualitySpecs, \* the commands of quality_specs for INC-002, in order
  MaxRuns, MaxEdits  \* bounds

ASSUME ReviewAssumption ==
  /\ Manifest \in Listed \ Excluded
  /\ Listed \cup Excluded \subseteq Files
  /\ InRoot \subseteq OutDirs
  /\ Below \in [OutDirs -> SUBSET Files]
  /\ QualitySpecs \in Seq(STRING)
  /\ \E i \in 1..Len(QualitySpecs) : QualitySpecs[i] = "builder-preflight"
  /\ \A i \in 1..Len(QualitySpecs) : QualitySpecs[i] # "ci"
  /\ {MaxRuns, MaxEdits} \subseteq Nat \ {0}

VARIABLES
  tree,      \* the version of each file in the working tree, 0 when missing
  edits,     \* changes made so far; a new version is a new number
  preflight, \* the run whose gate wrote .build/evidence/builder-preflight.json
  package,   \* what lies in each output directory
  run,       \* number of the current run
  phase,     \* where it is
  out,       \* its output directory
  quality,   \* whether it runs the gates
  gate,      \* index of the gate it runs next
  commands,  \* ctx.commands: exit codes by name, and when they ran
  rc,        \* "none", "raised", or its exit code
  atStart,   \* history: the tree when the run began
  touched    \* history: somebody edited the tree since the run began

world == <<tree, edits>>
locals == <<out, quality, gate, commands>>
vars == <<world, preflight, package, run, phase, locals, rc, atStart, touched>>

-----------------------------------------------------------------------------
(* The fast gates make up the aggregate that is reported as "ci". *)
Gates == {QualitySpecs[i] : i \in 1..Len(QualitySpecs)}
FastGates == Gates \ {"builder-preflight"}
NotRun == [run |-> 0, failed |-> FALSE]
NoCommands == [g \in Gates \cup {"ci"} |-> NotRun]

Trees == [Files -> 0..MaxEdits + 1]
Results == [Gates \cup {"ci"} -> [run : 0..MaxRuns, failed : BOOLEAN]]
NoTree == [f \in Files |-> 0]

(* A package's parts, each with what it shows and the run that wrote it.     *)
NoPart(content) == [run |-> 0, shows |-> content]
Nothing == [diff |-> NoPart(NoTree), evidence |-> NoPart(NoCommands),
            build |-> NoPart(0), repo |-> NoPart(NoTree),
            markdown |-> NoPart(0), json |-> NoPart(NoCommands)]
NoPackage == [dir |-> Nothing, zip |-> Nothing]

TreeParts == [run : 0..MaxRuns, shows : Trees]
ResultParts == [run : 0..MaxRuns, shows : Results]
NumberParts == [run : 0..MaxRuns, shows : 0..MaxRuns + MaxEdits + 1]
Packed == [diff : TreeParts, evidence : ResultParts, build : NumberParts,
           repo : TreeParts, markdown : NumberParts, json : ResultParts]

TypeOK ==
  /\ tree \in Trees /\ atStart \in Trees
  /\ edits \in 0..MaxEdits
  /\ preflight \in 0..MaxRuns
  /\ package \in [InRoot -> [dir : Packed, zip : Packed]]
  /\ run \in 0..MaxRuns
  /\ phase \in {"idle", "clear", "gates", "ci", "git", "evidence", "build",
                "repo", "markdown", "json", "zip"}
  /\ out \in OutDirs
  /\ phase # "idle" => out \in InRoot
  /\ quality \in BOOLEAN
  /\ gate \in 1..Len(QualitySpecs) + 1
  /\ commands \in Results
  /\ rc \in {"none", "raised", "exit0", "exit2"}
  /\ touched \in BOOLEAN

Init ==
  /\ tree = [f \in Files |-> 1]
  /\ edits = 0
  /\ preflight = 0
  /\ package = [d \in InRoot |-> NoPackage]
  /\ run = 0
  /\ phase = "idle"
  /\ out \in InRoot
  /\ quality = FALSE
  /\ gate = 1
  /\ commands = NoCommands
  /\ rc = "none"
  /\ atStart = tree
  /\ touched = FALSE

-----------------------------------------------------------------------------
Go(from, to) ==
  phase = from /\ phase' = to /\ UNCHANGED <<run, rc, atStart, touched>>

(* A file of the package is written; what else lies there stays. *)
Writes(part, content) ==
  /\ package' = [package EXCEPT ![out].dir[part] =
                                  [run |-> run, shows |-> content]]
  /\ UNCHANGED <<world, preflight, locals>>

(* main and the guard of create_review. *)
StartAnywhere(dir, gates) ==  \* mutant: the guard forgotten
  /\ phase = "idle"
  /\ run < MaxRuns
  /\ run' = run + 1
  /\ out' = dir /\ quality' = gates
  /\ gate' = 1 /\ commands' = NoCommands
  /\ atStart' = tree /\ touched' = FALSE
  /\ phase' = "clear" /\ rc' = "none"
  /\ UNCHANGED <<world, preflight, package>>

Start(dir, gates) ==
  /\ phase = "idle"
  /\ run < MaxRuns
  /\ run' = run + 1
  /\ out' = dir /\ quality' = gates
  /\ gate' = 1 /\ commands' = NoCommands
  /\ atStart' = tree /\ touched' = FALSE
  /\ IF dir \in InRoot THEN phase' = "clear" /\ rc' = "none"
                       ELSE phase' = "idle" /\ rc' = "exit2"
  /\ UNCHANGED <<world, preflight, package>>

(* shutil.rmtree(target): the directory with all that is in it. *)
ClearNothing ==  \* mutant: mkdir(exist_ok=True) alone
  /\ Go("clear", IF quality THEN "gates" ELSE "git")
  /\ UNCHANGED <<world, preflight, package, locals>>

ClearOut ==
  /\ Go("clear", IF quality THEN "gates" ELSE "git")
  /\ tree' = [f \in Files |-> IF f \in Below[out] THEN 0 ELSE tree[f]]
  /\ package' = [package EXCEPT ![out] = NoPackage]
  /\ UNCHANGED <<edits, preflight, locals>>

(* A preflight that passes has read the manifest and written its report.  One *)
(* that fails may have died before the report, with the digests in the       *)
(* manifest or without.                                                      *)
PreflightGate(failed) ==
  /\ failed \/ tree[Manifest] # 0
  /\ preflight' \in IF failed THEN {preflight, run} ELSE {run}
  /\ \/ UNCHANGED world
     \/ /\ tree[Manifest] # 0
        /\ edits < MaxEdits
        /\ edits' = edits + 1
        /\ tree' = [tree EXCEPT ![Manifest] = edits' + 1]

(* A quality gate ends in some way, and the next one runs all the same.      *)
RunGate(failed) ==
  /\ gate <= Len(QualitySpecs)
  /\ Go("gates", "gates")
  /\ commands' = [commands EXCEPT ![QualitySpecs[gate]] =
                                     [run |-> run, failed |-> failed]]
  /\ gate' = gate + 1
  /\ IF QualitySpecs[gate] = "builder-preflight" THEN PreflightGate(failed)
     ELSE UNCHANGED <<world, preflight>>
  /\ UNCHANGED <<package, out, quality>>

GatesDone ==
  /\ gate > Len(QualitySpecs)
  /\ Go("gates", "ci")
  /\ UNCHANGED <<world, preflight, package, locals>>

(* The aggregate: no command is run for it. *)
Aggregate ==
  /\ Go("ci", "git")
  /\ commands' = [commands EXCEPT !["ci"] =
          [run |-> run, failed |-> \E g \in FastGates : commands[g].failed]]
  /\ UNCHANGED <<world, preflight, package, out, quality, gate>>

-----------------------------------------------------------------------------
(* git diff HEAD, taken once, after the gates.  Without a .git directory the *)
(* patch says so, and what a git that fails or is missing says is put into   *)
(* it like a diff, for its exit code is not looked at: both show no tree.    *)
DiffBeforeGates ==  \* mutant: the diff of the tree that was found
  Go("git", "evidence") /\ \E seen \in {atStart, NoTree} : Writes("diff", seen)

CollectGit ==
  Go("git", "evidence") /\ \E seen \in {tree, NoTree} : Writes("diff", seen)

(* One file for each command of this run. *)
WriteEvidence ==
  /\ Go("evidence", "build")
  /\ Writes("evidence", [c \in Gates \cup {"ci"} |->
                           IF commands[c] # NotRun THEN commands[c]
                           ELSE package[out].dir.evidence.shows[c]])

CopyBuildEvidence == Go("build", "repo") /\ Writes("build", preflight)

(* iter_include_files. *)
Selected == Listed \ Excluded

CopyRepo ==
  /\ Go("repo", "markdown")
  /\ Writes("repo", [f \in Files |-> IF f \in Selected THEN tree[f] ELSE 0])

(* build_review_markdown quotes the manifest, read once more. *)
WriteMarkdown == Go("markdown", "json") /\ Writes("markdown", tree[Manifest])

WriteJson == Go("json", "zip") /\ Writes("json", commands)

(* create_zip: all that lies in the directory, in the order of the names     *)
(* (REVIEW.md, build-evidence/, evidence/, git-diff.patch, repo/,            *)
(* review.json), earlier review ZIPs excepted.                               *)
JsonEarly == <<"markdown", "json", "build", "evidence", "diff", "repo">>
  \* mutant: rglob's own order, unsorted
ZipOrder == <<"markdown", "build", "evidence", "diff", "repo", "json">>

Unzipped == {i \in 1..Len(ZipOrder) : package[out].zip[ZipOrder[i]].run # run}

AddToZip(i) ==
  /\ phase = "zip"
  /\ i \in Unzipped
  /\ \A j \in Unzipped : i <= j
  /\ package' = [package EXCEPT ![out].zip[ZipOrder[i]] =
                                  package[out].dir[ZipOrder[i]]]
  /\ UNCHANGED <<world, preflight, run, phase, locals, rc, atStart, touched>>

ZipDone ==
  /\ phase = "zip"
  /\ Unzipped = {}
  /\ phase' = "idle"
  /\ rc' = "exit0"
  /\ UNCHANGED <<world, preflight, package, run, locals, atStart, touched>>

(* A ValueError: output of a gate or of git that cannot be decoded, and a    *)
(* file too old for a ZIP entry.                                             *)
ValueErrors == phase \in {"gates", "git"} \/ (phase = "zip" /\ Unzipped # {})

(* An exception or an interrupt; what was written stays, a ZIP with the      *)
(* entries it has so far: leaving the with statement closes it.  main makes  *)
(* of every ValueError the exit code of a refused directory.                 *)
Raise ==
  /\ phase # "idle"
  /\ phase' = "idle"
  /\ rc' \in {"raised"} \cup (IF ValueErrors THEN {"exit2"} ELSE {})
  /\ UNCHANGED <<world, preflight, package, run, locals, atStart, touched>>

(* A process that is killed meanwhile leaves a ZIP without its list of       *)
(* entries, in which nobody can read anything.                               *)
Killed ==
  /\ phase = "zip"
  /\ phase' = "idle"
  /\ rc' = "raised"
  /\ package' = [package EXCEPT ![out].zip = Nothing]
  /\ UNCHANGED <<world, preflight, run, locals, atStart, touched>>

(* External: somebody edits a file. *)
Edit(f) ==
  /\ edits < MaxEdits
  /\ edits' = edits + 1
  /\ tree' = [tree EXCEPT ![f] = edits' + 1]
  /\ touched' = TRUE
  /\ UNCHANGED <<preflight, package, run, phase, locals, rc, atStart>>

-----------------------------------------------------------------------------
ReviewStep ==
  \/ ClearOut
  \/ \E failed \in BOOLEAN : RunGate(failed)
  \/ GatesDone \/ Aggregate
  \/ CollectGit \/ WriteEvidence \/ CopyBuildEvidence \/ CopyRepo
  \/ WriteMarkdown \/ WriteJson
  \/ (\E i \in 1..Len(ZipOrder) : AddToZip(i)) \/ ZipDone

Next ==
  \/ \E dir \in OutDirs, gates \in BOOLEAN : Start(dir, gates)
  \/ ReviewStep
  \/ Raise \/ Killed
  \/ \E f \in Files : Edit(f)

Spec == Init /\ [][Next]_vars

-----------------------------------------------------------------------------
Untouched == phase = "idle" /\ rc = "exit0" /\ ~touched
Zip == package[out].zip

(* What a review says and what it holds describe one tree, unless somebody   *)
(* edited it meanwhile: a diff that git did give is that of the packaged     *)
(* files, REVIEW.md quotes the packaged manifest, and the gates saw the      *)
(* packaged files, the manifest excepted, which the preflight may rewrite.   *)
ReviewIsOfOneTree ==
  Untouched =>
    /\ Zip.diff.shows # NoTree =>
         \A f \in Selected : Zip.repo.shows[f] = Zip.diff.shows[f]
    /\ Zip.markdown.shows = Zip.repo.shows[Manifest]
    /\ \A f \in Selected \ ({Manifest} \cup Below[out]) :
         Zip.repo.shows[f] = atStart[f]

(* review.json lists the command, and that it passed. *)
Passed(zip, c) ==
  zip.json.shows[c].run # 0 /\ ~zip.json.shows[c].failed

(* A review ZIP is of one run, also when runs died on the way: no entry of   *)
(* it is an earlier run's, and once review.json is in it it is complete.  No *)
(* gate's output of an earlier run stands in it then, the output that is     *)
(* there is the one review.json lists, a "ci" that passed has the output of  *)
(* every fast gate with it, passed as well, and a preflight that passed has  *)
(* its own report with it, which one that died may not have.                 *)
ZipIsOfOneRun ==
  \A d \in InRoot :
    LET zip == package[d].zip
    IN /\ \A p, q \in DOMAIN zip :
            zip[p].run # 0 /\ zip[q].run # 0 => zip[p].run = zip[q].run
       /\ zip.json.run # 0 =>
            /\ \A part \in DOMAIN zip : zip[part].run = zip.json.run
            /\ zip.evidence.shows = zip.json.shows
            /\ \A c \in Gates \cup {"ci"} :
                 zip.json.shows[c].run \in {0, zip.json.run}
            /\ Passed(zip, "ci") => \A g \in FastGates : Passed(zip, g)
            /\ Passed(zip, "builder-preflight") =>
                 zip.build.shows = zip.json.run

(* REVIEW.md says what the package holds, "Selected source/docs under        *)
(* `repo/`" (create_review.py:395): no selected file of the tree that was    *)
(* found is missing in it.                                                   *)
SelectedFilesArePackaged ==
  Untouched => \A f \in Selected : atStart[f] # 0 => Zip.repo.shows[f] # 0

(* create_review keeps what ReviewContract promises: an earlier review is    *)
(* gone before a new one appears, a run leaves at most one review, in its    *)
(* own directory, exits 0 only if it is there, and 2 only without one.       *)
Promise ==
  INSTANCE ReviewContract WITH
    Dirs <- InRoot,
    number <- run,
    going <- phase # "idle",
    place <- out,
    code <- rc,
    shown <- [d \in InRoot |-> package[d].zip.json.run]
KeepsPromise == Promise!PromiseSpec
=============================================================================
