--------------------------- MODULE CloudRunProofs ---------------------------
(***************************************************************************)
(* Proofs about CloudRun for every gate plan, every set of exit codes and  *)
(* any number of jobs: what a review, a summary and an exit code may claim.*)
(***************************************************************************)
EXTENDS CloudRun, TLAPS

(* The part of the types that the arithmetic below rests on. *)
Numbers ==
  /\ run \in Nat /\ gate \in Nat /\ Len(GatePlan) \in Nat
  /\ handoff.run \in Nat /\ review.run \in Nat /\ summary.run \in Nat
  /\ \A g \in Gates : gateLogs[g].run \in Nat

Passing == overall = "PASS_REVIEW_READY"

(* The orchestrator's files are those of its own job from where it wrote     *)
(* them on, and of earlier jobs before.                                      *)
FilesInv ==
  /\ run = 0 => step = "over" /\ at = "gates" /\ gate = 1
  /\ \A g \in Gates : gateLogs[g].run <= run
  /\ handoff.run <= run /\ review.run <= run /\ summary.run <= run
  /\ run # 0 => (handoff.run = run <=> at \notin {"gates", "handoff"})
  /\ run # 0 => (review.run = run <=> at \in {"zip", "summary", "exit"})
  /\ run # 0 => (summary.run = run <=> at = "exit")
  /\ at \notin {"gates", "handoff"} => (handoff.ready <=> Passing)
  /\ at \in {"summary", "exit"} => (review.candidate <=> Passing)
  /\ at = "exit" => summary.result = overall

(* The gates that have run are the first ones of the plan, all but the last  *)
(* of them passed, and the last one as well if the job goes on or passes.    *)
GatesInv ==
  /\ \A i \in 1..Len(GatePlan) :
       i < gate - 1 => gateLogs[GatePlan[i]] = [run |-> run, code |-> 0]
  /\ \A i \in 1..Len(GatePlan) :
       i >= gate /\ run # 0 => gateLogs[GatePlan[i]].run < run
  /\ at = "gates" \/ Passing =>
       \A i \in 1..Len(GatePlan) :
         i < gate => gateLogs[GatePlan[i]] = [run |-> run, code |-> 0]
  /\ at = "gates" => Passing
  /\ at # "gates" /\ Passing => gate = Len(GatePlan) + 1

(* A job that is still called a success has been through its orchestrator; a *)
(* job of the workflow finds no summary to package.                          *)
JobInv ==
  /\ step # "over" => uploaded = NoReview
  /\ step \notin {"over", "setup", "gates"} /\ status = "success" =>
       at = "exit" /\ Passing
  /\ step = "upload" /\ status = "success" => finalCode = 0
  /\ finalCode = 0 => step \in {"upload", "over"}
  /\ finalCode = 0 => summary.run # 0 /\ summary.result = "PASS_REVIEW_READY"
  /\ fresh /\ at # "exit" => summary = NoSummary
  /\ fresh => review.summary = NoSummary

-----------------------------------------------------------------------------
(* What a missing file reads as has the type of the file. *)
LEMMA EmptyFiles ==
  /\ NoLogs \in Logs /\ NoHandoff \in Handoffs /\ NoSummary \in Summaries
  /\ NoReview \in Reviews /\ 0 \in Runs
BY PlanAssumption
   DEF Logs, Handoffs, Summaries, Reviews, Runs, Results, NoLog, NoLogs,
       NoHandoff, NoSummary, NoReview

(* Every variable keeps its type, whatever a gate's command exits with. *)
THEOREM TypeCorrect == Spec => []TypeOK
<1>1. Init => TypeOK
  <2>1. 1 \in 1..Len(GatePlan) + 1
    BY PlanAssumption
  <2> QED
    BY <2>1, EmptyFiles DEF Init, TypeOK, Results
<1>2. TypeOK /\ [Next]_vars => TypeOK'
  <2> SUFFICES ASSUME TypeOK, [Next]_vars
               PROVE TypeOK'
    OBVIOUS
  <2> USE PlanAssumption, EmptyFiles
  <2> USE DEF job, orchestrator, buildFiles, reviewFiles
  <2> USE DEF TypeOK
  <2>1. ASSUME NEW checkout \in BOOLEAN, StartJob(checkout) PROVE TypeOK'
    <3>1. run' \in Runs
      BY <2>1 DEF StartJob, Runs
    <3>2. gateLogs' \in Logs /\ handoff' \in Handoffs /\ summary' \in Summaries
          /\ review' \in Reviews /\ diag' \in Runs
      BY <2>1 DEF StartJob
    <3>3. gate' \in 1..Len(GatePlan) + 1 /\ overall' \in Results
      BY <2>1 DEF StartJob, Results
    <3> QED
      BY <2>1, <3>1, <3>2, <3>3 DEF StartJob
  <2>2. ASSUME NEW ok \in BOOLEAN, Setup(ok) PROVE TypeOK'
    BY <2>2 DEF Setup
  <2>3. ASSUME NEW code \in ExitCodes, RunGate(code) PROVE TypeOK'
    <3>1. GatePlan[gate] \in Gates /\ gate' \in 1..Len(GatePlan) + 1
      BY <2>3 DEF RunGate, Gates
    <3>2. run \in Runs /\ code \in ExitCodes
      BY <2>3
    <3>3. [run |-> run, code |-> code] \in [run : Runs, code : ExitCodes]
      BY <3>2
    <3>4. gateLogs' \in Logs
      BY <2>3, <3>1, <3>3 DEF RunGate, Logs
    <3>5. overall' \in Results
      BY <2>3 DEF RunGate, Overall, Results
    <3> QED
      BY <2>3, <3>1, <3>4, <3>5 DEF RunGate, Continues
  <2>4. CASE GatesDone
    BY <2>4 DEF GatesDone, Orchestrating
  <2>5. CASE WriteHandoff
    <3>1. handoff' \in Handoffs
      BY <2>5 DEF WriteHandoff, Orchestrating, Handoffs
    <3> QED
      BY <2>5, <3>1 DEF WriteHandoff, Orchestrating
  <2>6. CASE ClearReview
    BY <2>6 DEF ClearReview, Orchestrating
  <2>7. CASE OpenReview
    <3>1. review' \in Reviews
      BY <2>7 DEF OpenReview, Orchestrating, NoReview, Reviews
    <3> QED
      BY <2>7, <3>1 DEF OpenReview, Orchestrating
  <2>8. CASE PackageReview
    <3>1. review' \in Reviews
      BY <2>8 DEF PackageReview, Orchestrating, Reviews
    <3> QED
      BY <2>8, <3>1 DEF PackageReview, Orchestrating
  <2>9. CASE WriteSummary
    <3>1. summary' \in Summaries
      BY <2>9 DEF WriteSummary, Orchestrating, Summaries
    <3> QED
      BY <2>9, <3>1 DEF WriteSummary, Orchestrating
  <2>10. CASE OrchestratorExits
    BY <2>10 DEF OrchestratorExits, Orchestrating
  <2>11. ASSUME NEW ok \in BOOLEAN, Diagnostics(ok) PROVE TypeOK'
    BY <2>11 DEF Diagnostics
  <2>12. CASE Finalize
    BY <2>12 DEF Finalize, FinalizeCode
  <2>13. ASSUME NEW ok \in BOOLEAN, UploadReview(ok)
         PROVE  TypeOK'
    BY <2>13 DEF UploadReview, ReviewWanted
  <2>14. CASE OrchestratorDies
    BY <2>14 DEF OrchestratorDies
  <2>15. CASE Cancel
    BY <2>15 DEF Cancel, AfterCancel, ReviewWanted
  <2>16. CASE Kill
    BY <2>16 DEF Kill
  <2>17. CASE UNCHANGED vars
    BY <2>17 DEF vars
  <2> QED
    BY <2>1, <2>2, <2>3, <2>4, <2>5, <2>6, <2>7, <2>8, <2>9, <2>10,
       <2>11, <2>12, <2>13, <2>14, <2>15, <2>16, <2>17
       DEF Next, JobStep, TimeLimit
<1> QED
  BY <1>1, <1>2, PTL DEF Spec

(* Numbers follows from the types. *)
LEMMA AreNumbers == TypeOK => Numbers
<1> SUFFICES ASSUME TypeOK PROVE Numbers
  OBVIOUS
<1>1. run \in Nat /\ gate \in Nat /\ Len(GatePlan) \in Nat
  BY PlanAssumption DEF TypeOK, Runs
<1>2. handoff.run \in Nat /\ review.run \in Nat /\ summary.run \in Nat
  BY DEF TypeOK, Runs, Handoffs, Reviews, Summaries
<1>3. ASSUME NEW g \in Gates PROVE gateLogs[g].run \in Nat
  BY DEF TypeOK, Logs, Runs
<1> QED
  BY <1>1, <1>2, <1>3 DEF Numbers

(* The orchestrator's files and the runs that wrote them. *)
LEMMA FilesInvariant == Spec => []FilesInv
<1>1. Init => FilesInv
  BY DEF Init, FilesInv, NoLogs, NoLog, NoHandoff, NoSummary, NoReview
<1>2. TypeOK /\ FilesInv /\ [Next]_vars => FilesInv'
  <2> SUFFICES ASSUME TypeOK, FilesInv, [Next]_vars
               PROVE FilesInv'
    OBVIOUS
  <2>t. Numbers
    BY AreNumbers
  <2> USE <2>t DEF Numbers
  <2> USE DEF job, orchestrator, buildFiles, reviewFiles
  <2> USE DEF FilesInv, Passing
  <2>1. ASSUME NEW checkout \in BOOLEAN, StartJob(checkout) PROVE FilesInv'
    <3>1. /\ run' = run + 1 /\ step' = "setup" /\ at' = "gates"
          /\ overall' = "PASS_REVIEW_READY"
      BY <2>1 DEF StartJob
    <3>2. /\ \A g \in Gates : gateLogs'[g].run \in 0..run
          /\ handoff'.run \in 0..run /\ review'.run \in 0..run
          /\ summary'.run \in 0..run
      <4>1. CASE checkout
        BY <2>1, <4>1
           DEF StartJob, NoLogs, NoLog, NoHandoff, NoReview, NoSummary
      <4>2. CASE ~checkout
        BY <2>1, <4>2 DEF StartJob
      <4> QED
        BY <4>1, <4>2
    <3> QED
      BY <3>1, <3>2
  <2>2. ASSUME NEW ok \in BOOLEAN, Setup(ok) PROVE FilesInv'
    BY <2>2 DEF Setup
  <2>3. ASSUME NEW code \in ExitCodes, RunGate(code) PROVE FilesInv'
    <3>1. \A g \in Gates : gateLogs'[g].run <= run'
      BY <2>3 DEF RunGate, TypeOK, Logs
    <3>2. /\ step = "gates" /\ at = "gates" /\ at' \in {"gates", "handoff"}
          /\ run' = run /\ handoff' = handoff /\ review' = review
          /\ summary' = summary /\ step' = step
      BY <2>3 DEF RunGate, Orchestrating, Continues
    <3> QED
      BY <3>1, <3>2
  <2>4. CASE GatesDone
    BY <2>4 DEF GatesDone, Orchestrating
  <2>5. CASE WriteHandoff
    <3>1. /\ step = "gates" /\ at = "handoff" /\ at' = "clear" /\ step' = step
          /\ handoff' = [run |-> run, ready |-> Passing] /\ run' = run
          /\ review' = review /\ summary' = summary /\ gateLogs' = gateLogs
          /\ overall' = overall
      BY <2>5 DEF WriteHandoff, Orchestrating
    <3>2. handoff'.run = run /\ (handoff'.ready <=> Passing)
      BY <3>1
    <3>3. Passing' <=> Passing
      BY <3>1
    <3> QED
      BY <3>1, <3>2, <3>3
  <2>6. CASE ClearReview
    BY <2>6 DEF ClearReview, Orchestrating, NoReview
  <2>7. CASE OpenReview
    <3>1. /\ step = "gates" /\ at = "package" /\ at' = "zip" /\ step' = step
          /\ run' = run /\ handoff' = handoff /\ summary' = summary
          /\ gateLogs' = gateLogs /\ overall' = overall
      BY <2>7 DEF OpenReview, Orchestrating
    <3>2. review'.run = run
      BY <2>7 DEF OpenReview, NoReview
    <3> QED
      BY <3>1, <3>2
  <2>8. CASE PackageReview
    <3>1. /\ step = "gates" /\ at = "zip" /\ at' = "summary"
          /\ step' = step
          /\ run' = run /\ handoff' = handoff /\ summary' = summary
          /\ gateLogs' = gateLogs /\ overall' = overall
      BY <2>8 DEF PackageReview, Orchestrating
    <3>2. review'.run = run /\ review'.candidate = Passing
      BY <2>8 DEF PackageReview
    <3> QED
      BY <3>1, <3>2
  <2>9. CASE WriteSummary
    BY <2>9 DEF WriteSummary, Orchestrating
  <2>10. CASE OrchestratorExits
    BY <2>10 DEF OrchestratorExits, Orchestrating
  <2>11. ASSUME NEW ok \in BOOLEAN, Diagnostics(ok) PROVE FilesInv'
    BY <2>11 DEF Diagnostics
  <2>12. CASE Finalize
    BY <2>12 DEF Finalize, FinalizeCode
  <2>13. ASSUME NEW ok \in BOOLEAN, UploadReview(ok)
         PROVE  FilesInv'
    BY <2>13 DEF UploadReview, ReviewWanted
  <2>14. CASE OrchestratorDies
    BY <2>14 DEF OrchestratorDies
  <2>15. CASE Cancel
    BY <2>15 DEF Cancel, AfterCancel, ReviewWanted
  <2>16. CASE Kill
    BY <2>16 DEF Kill
  <2>17. CASE UNCHANGED vars
    BY <2>17 DEF vars
  <2> QED
    BY <2>1, <2>2, <2>3, <2>4, <2>5, <2>6, <2>7, <2>8, <2>9, <2>10,
       <2>11, <2>12, <2>13, <2>14, <2>15, <2>16, <2>17
       DEF Next, JobStep, TimeLimit
<1> QED
  BY <1>1, <1>2, TypeCorrect, PTL DEF Spec

(* The gates that have run, and what their results mean for the job. *)
LEMMA GatesInvariant == Spec => []GatesInv
<1>1. Init => GatesInv
  BY PlanAssumption DEF Init, GatesInv, Passing
<1>2. TypeOK /\ FilesInv /\ GatesInv /\ [Next]_vars => GatesInv'
  <2> SUFFICES ASSUME TypeOK, FilesInv, GatesInv, [Next]_vars
               PROVE GatesInv'
    OBVIOUS
  <2>t. Numbers
    BY AreNumbers
  <2> USE <2>t DEF Numbers
  <2> USE DEF job, orchestrator, buildFiles, reviewFiles
  <2> USE DEF GatesInv, Passing
  <2>1. ASSUME NEW checkout \in BOOLEAN, StartJob(checkout) PROVE GatesInv'
    <3>1. run' = run + 1 /\ gate' = 1 /\ at' = "gates"
            /\ overall' = "PASS_REVIEW_READY"
      BY <2>1 DEF StartJob
    <3>2. \A i \in 1..Len(GatePlan) : gateLogs'[GatePlan[i]].run < run'
      <4>1. \A i \in 1..Len(GatePlan) : GatePlan[i] \in Gates
        BY DEF Gates
      <4>2. CASE checkout
        BY <2>1, <3>1, <4>1, <4>2 DEF StartJob, NoLogs, NoLog
      <4>3. CASE ~checkout
        BY <2>1, <3>1, <4>1, <4>3 DEF StartJob, FilesInv
      <4> QED
        BY <4>2, <4>3
    <3> QED
      BY <3>1, <3>2
  <2>2. ASSUME NEW ok \in BOOLEAN, Setup(ok) PROVE GatesInv'
    BY <2>2 DEF Setup
  <2>3. ASSUME NEW code \in ExitCodes, RunGate(code) PROVE GatesInv'
    <3> DEFINE n == Len(GatePlan)
               ok == [run |-> run, code |-> 0]
    <3>1. /\ at = "gates" /\ gate \in 1..n /\ gate' = gate + 1 /\ run' = run
          /\ run # 0 /\ overall = "PASS_REVIEW_READY" /\ n \in Nat
      BY <2>3 DEF RunGate, Orchestrating, TypeOK, FilesInv
    <3>2. \A i \in 1..n : gateLogs'[GatePlan[i]] =
             IF i = gate THEN [run |-> run, code |-> code]
                         ELSE gateLogs[GatePlan[i]]
      <4>1. \A i \in 1..n : GatePlan[i] \in Gates
                             /\ (GatePlan[i] = GatePlan[gate] => i = gate)
        BY <3>1, PlanAssumption DEF Gates
      <4> QED
        BY <2>3, <3>1, <4>1 DEF RunGate, TypeOK, Logs
    <3>3. \A i \in 1..n : i < gate => gateLogs'[GatePlan[i]] = ok
      <4>1. \A i \in 1..n : i < gate => gateLogs[GatePlan[i]] = ok
        BY <3>1
      <4>2. \A i \in 1..n : i < gate => i # gate
        BY <3>1
      <4> QED
        BY ONLY <3>2, <4>1, <4>2
    <3>4. \A i \in 1..n : i >= gate' => gateLogs'[GatePlan[i]].run < run'
      BY <3>1, <3>2
    <3>5. CASE code = 0
      <4>1. at' = "gates" /\ overall' = "PASS_REVIEW_READY"
        BY <2>3, <3>1, <3>5 DEF RunGate, Overall, Continues
      <4>2. \A i \in 1..n : i < gate' => gateLogs'[GatePlan[i]] = ok
        BY <3>1, <3>2, <3>3, <3>5
      <4> QED
        BY <3>1, <3>3, <3>4, <4>1, <4>2
    <3>6. CASE code # 0
      <4>1. at' = "handoff" /\ overall' # "PASS_REVIEW_READY"
        BY <2>3, <3>6 DEF RunGate, Overall, Continues
      <4> QED
        BY <3>1, <3>3, <3>4, <4>1
    <3> QED
      BY <3>5, <3>6
  <2>4. CASE GatesDone
    BY <2>4 DEF GatesDone, Orchestrating, TypeOK
  <2>5. CASE WriteHandoff
    BY <2>5 DEF WriteHandoff, Orchestrating
  <2>6. CASE ClearReview
    BY <2>6 DEF ClearReview, Orchestrating
  <2>7. CASE OpenReview
    BY <2>7 DEF OpenReview, Orchestrating, NoReview
  <2>8. CASE PackageReview
    BY <2>8 DEF PackageReview, Orchestrating
  <2>9. CASE WriteSummary
    BY <2>9 DEF WriteSummary, Orchestrating
  <2>10. CASE OrchestratorExits
    BY <2>10 DEF OrchestratorExits, Orchestrating
  <2>11. ASSUME NEW ok \in BOOLEAN, Diagnostics(ok) PROVE GatesInv'
    BY <2>11 DEF Diagnostics
  <2>12. CASE Finalize
    BY <2>12 DEF Finalize, FinalizeCode
  <2>13. ASSUME NEW ok \in BOOLEAN, UploadReview(ok)
         PROVE  GatesInv'
    BY <2>13 DEF UploadReview, ReviewWanted
  <2>14. CASE OrchestratorDies
    BY <2>14 DEF OrchestratorDies
  <2>15. CASE Cancel
    BY <2>15 DEF Cancel, AfterCancel, ReviewWanted
  <2>16. CASE Kill
    BY <2>16 DEF Kill
  <2>17. CASE UNCHANGED vars
    BY <2>17 DEF vars
  <2> QED
    BY <2>1, <2>2, <2>3, <2>4, <2>5, <2>6, <2>7, <2>8, <2>9, <2>10,
       <2>11, <2>12, <2>13, <2>14, <2>15, <2>16, <2>17
       DEF Next, JobStep, TimeLimit
<1> QED
  BY <1>1, <1>2, TypeCorrect, FilesInvariant, PTL DEF Spec

(* What the workflow's steps may conclude from the status of the job. *)
LEMMA JobInvariant == Spec => []JobInv
<1>1. Init => JobInv
  BY DEF Init, JobInv, NoSummary
<1>2. TypeOK /\ FilesInv /\ JobInv /\ [Next]_vars => JobInv'
  <2> SUFFICES ASSUME TypeOK, FilesInv, JobInv, [Next]_vars
               PROVE JobInv'
    OBVIOUS
  <2>t. Numbers
    BY AreNumbers
  <2> USE <2>t DEF Numbers
  <2> USE DEF job, orchestrator, buildFiles, reviewFiles
  <2> USE DEF FilesInv, JobInv, Passing, NoSummary
  <2>1. ASSUME NEW checkout \in BOOLEAN, StartJob(checkout) PROVE JobInv'
    <3>1. CASE checkout
      BY <2>1, <3>1 DEF StartJob, NoReview
    <3>2. CASE ~checkout
      BY <2>1, <3>2 DEF StartJob
    <3> QED
      BY <3>1, <3>2
  <2>2. ASSUME NEW ok \in BOOLEAN, Setup(ok) PROVE JobInv'
    BY <2>2 DEF Setup
  <2>3. ASSUME NEW code \in ExitCodes, RunGate(code) PROVE JobInv'
    BY <2>3 DEF RunGate, Orchestrating, Overall, Continues
  <2>4. CASE GatesDone
    BY <2>4 DEF GatesDone, Orchestrating
  <2>5. CASE WriteHandoff
    BY <2>5 DEF WriteHandoff, Orchestrating
  <2>6. CASE ClearReview
    BY <2>6 DEF ClearReview, Orchestrating, NoReview
  <2>7. CASE OpenReview
    <3>1. review'.summary = NoSummary
      BY <2>7 DEF OpenReview, NoReview
    <3>2. /\ step = "gates" /\ at = "package" /\ at' = "zip"
          /\ UNCHANGED <<job, overall, summary>>
      BY <2>7 DEF OpenReview, Orchestrating
    <3> QED
      BY <3>1, <3>2
  <2>8. CASE PackageReview
    <3>1. /\ step = "gates" /\ at = "zip" /\ at' = "summary"
          /\ review'.summary = summary
          /\ UNCHANGED <<job, overall, summary>>
      BY <2>8 DEF PackageReview, Orchestrating
    <3> QED
      BY <3>1
  <2>9. CASE WriteSummary
    BY <2>9 DEF WriteSummary, Orchestrating
  <2>10. CASE OrchestratorExits
    BY <2>10 DEF OrchestratorExits, Orchestrating
  <2>11. ASSUME NEW ok \in BOOLEAN, Diagnostics(ok) PROVE JobInv'
    BY <2>11 DEF Diagnostics
  <2>12. CASE Finalize
    BY <2>12 DEF Finalize, FinalizeCode
  <2>13. ASSUME NEW ok \in BOOLEAN, UploadReview(ok)
         PROVE  JobInv'
    BY <2>13 DEF UploadReview, ReviewWanted
  <2>14. CASE OrchestratorDies
    BY <2>14 DEF OrchestratorDies
  <2>15. CASE Cancel
    BY <2>15 DEF Cancel, AfterCancel, ReviewWanted
  <2>16. CASE Kill
    BY <2>16 DEF Kill
  <2>17. CASE UNCHANGED vars
    BY <2>17 DEF vars
  <2> QED
    BY <2>1, <2>2, <2>3, <2>4, <2>5, <2>6, <2>7, <2>8, <2>9, <2>10,
       <2>11, <2>12, <2>13, <2>14, <2>15, <2>16, <2>17
       DEF Next, JobStep, TimeLimit
<1> QED
  BY <1>1, <1>2, TypeCorrect, FilesInvariant, PTL DEF Spec

-----------------------------------------------------------------------------
(* No review says M04 = REVIEW without the passing log of every gate of the  *)
(* plan, all of one run, however many jobs left files in the working tree.   *)
THEOREM ReviewIsComplete == Spec => []CandidateShowsAllGates
<1>1. Init => CandidateShowsAllGates
  BY DEF Init, CandidateShowsAllGates, NoReview
<1>2. TypeOK /\ FilesInv /\ GatesInv /\ CandidateShowsAllGates
        /\ [Next]_vars => CandidateShowsAllGates'
  <2> SUFFICES ASSUME TypeOK, FilesInv, GatesInv, CandidateShowsAllGates,
                      [Next]_vars
               PROVE CandidateShowsAllGates'
    OBVIOUS
  <2>t. Numbers
    BY AreNumbers
  <2> USE <2>t DEF Numbers
  <2> USE DEF job, orchestrator, buildFiles, reviewFiles
  <2> USE DEF CandidateShowsAllGates, AllPassed
  <2>1. ASSUME NEW checkout \in BOOLEAN, StartJob(checkout)
        PROVE  CandidateShowsAllGates'
    <3>1. CASE checkout
      BY <2>1, <3>1 DEF StartJob, NoReview
    <3>2. CASE ~checkout
      BY <2>1, <3>2 DEF StartJob
    <3> QED
      BY <3>1, <3>2
  <2>2. ASSUME NEW ok \in BOOLEAN, Setup(ok) PROVE CandidateShowsAllGates'
    BY <2>2 DEF Setup
  <2>3. ASSUME NEW code \in ExitCodes, RunGate(code)
        PROVE  CandidateShowsAllGates'
    BY <2>3 DEF RunGate, Orchestrating, Overall, Continues
  <2>4. CASE GatesDone
    BY <2>4 DEF GatesDone, Orchestrating
  <2>5. CASE WriteHandoff
    BY <2>5 DEF WriteHandoff, Orchestrating
  <2>6. CASE ClearReview
    BY <2>6 DEF ClearReview, Orchestrating, NoReview
  <2>7. CASE OpenReview
    <3>1. ~review'.candidate
      BY <2>7 DEF OpenReview, NoReview
    <3> QED
      BY <3>1
  <2>8. CASE PackageReview
    <3>1. /\ run # 0 /\ at = "zip" /\ review'.run = run
          /\ review'.gateLogs = gateLogs
          /\ (review'.candidate => Passing)
      BY <2>8 DEF PackageReview, Orchestrating, FilesInv, Passing
    <3>2. Passing => \A g \in Gates : gateLogs[g] = [run |-> run, code |-> 0]
      BY <3>1 DEF GatesInv, Gates
    <3> QED
      BY <3>1, <3>2
  <2>9. CASE WriteSummary
    BY <2>9 DEF WriteSummary, Orchestrating
  <2>10. CASE OrchestratorExits
    BY <2>10 DEF OrchestratorExits, Orchestrating
  <2>11. ASSUME NEW ok \in BOOLEAN, Diagnostics(ok)
         PROVE  CandidateShowsAllGates'
    BY <2>11 DEF Diagnostics
  <2>12. CASE Finalize
    BY <2>12 DEF Finalize, FinalizeCode
  <2>13. ASSUME NEW ok \in BOOLEAN, UploadReview(ok)
         PROVE  CandidateShowsAllGates'
    BY <2>13 DEF UploadReview, ReviewWanted
  <2>14. CASE OrchestratorDies
    BY <2>14 DEF OrchestratorDies
  <2>15. CASE Cancel
    BY <2>15 DEF Cancel, AfterCancel, ReviewWanted
  <2>16. CASE Kill
    BY <2>16 DEF Kill
  <2>17. CASE UNCHANGED vars
    BY <2>17 DEF vars
  <2> QED
    BY <2>1, <2>2, <2>3, <2>4, <2>5, <2>6, <2>7, <2>8, <2>9, <2>10,
       <2>11, <2>12, <2>13, <2>14, <2>15, <2>16, <2>17
       DEF Next, JobStep, TimeLimit
<1> QED
  BY <1>1, <1>2, TypeCorrect, FilesInvariant, GatesInvariant, PTL DEF Spec

(* What UploadedReviewIsEarned says of a review besides the exit code. *)
Earned(file) ==
  /\ file.run = run /\ file.candidate
  /\ AllPassed(file.gateLogs, run) /\ file.summary = NoSummary

(* Whatever a job of the workflow stored, by an upload that failed or was    *)
(* cancelled as well, is its own candidate, complete and without an older    *)
(* summary; a job that ends in success has stored it.                        *)
THEOREM UploadIsEarned == Spec => []UploadedReviewIsEarned
<1>1. Init => UploadedReviewIsEarned
  BY DEF Init, UploadedReviewIsEarned, NoReview
<1>2. TypeOK /\ FilesInv /\ JobInv /\ CandidateShowsAllGates
        /\ UploadedReviewIsEarned /\ [Next]_vars => UploadedReviewIsEarned'
  <2> SUFFICES ASSUME TypeOK, FilesInv, JobInv, CandidateShowsAllGates,
                      UploadedReviewIsEarned, [Next]_vars
               PROVE UploadedReviewIsEarned'
    OBVIOUS
  <2>t. Numbers
    BY AreNumbers
  <2> USE <2>t DEF Numbers
  <2> USE DEF job, orchestrator, buildFiles, reviewFiles
  <2> USE DEF FilesInv, JobInv, UploadedReviewIsEarned, Passing, NoReview
  <2>1. ASSUME NEW checkout \in BOOLEAN, StartJob(checkout)
        PROVE  UploadedReviewIsEarned'
    BY <2>1 DEF StartJob
  <2>2. ASSUME NEW ok \in BOOLEAN, Setup(ok) PROVE UploadedReviewIsEarned'
    BY <2>2 DEF Setup
  <2>3. ASSUME NEW code \in ExitCodes, RunGate(code)
        PROVE  UploadedReviewIsEarned'
    BY <2>3 DEF RunGate, Orchestrating, Overall, Continues
  <2>4. CASE GatesDone
    BY <2>4 DEF GatesDone, Orchestrating
  <2>5. CASE WriteHandoff
    BY <2>5 DEF WriteHandoff, Orchestrating
  <2>6. CASE ClearReview
    BY <2>6 DEF ClearReview, Orchestrating
  <2>7. CASE OpenReview
    BY <2>7 DEF OpenReview, Orchestrating, NoReview
  <2>8. CASE PackageReview
    BY <2>8 DEF PackageReview, Orchestrating
  <2>9. CASE WriteSummary
    BY <2>9 DEF WriteSummary, Orchestrating
  <2>10. CASE OrchestratorExits
    BY <2>10 DEF OrchestratorExits, Orchestrating
  <2>11. ASSUME NEW ok \in BOOLEAN, Diagnostics(ok)
         PROVE  UploadedReviewIsEarned'
    BY <2>11 DEF Diagnostics
  <2>12. CASE Finalize
    BY <2>12 DEF Finalize, FinalizeCode
  <2>13. ASSUME NEW ok \in BOOLEAN, UploadReview(ok)
         PROVE  UploadedReviewIsEarned'
    <3>1. CASE ReviewWanted
      <4>1. /\ fresh /\ run' = run /\ finalCode' = 0 /\ uploaded = NoReview
            /\ status = "success" /\ step = "upload" /\ at = "exit" /\ Passing
        BY <2>13, <3>1 DEF UploadReview, ReviewWanted
      <4>2. Earned(review)
        BY <4>1 DEF Earned, CandidateShowsAllGates
      <4>3. uploaded' \in {NoReview, review} /\ (status' = "success" => ok)
              /\ (ok => uploaded' = review)
        BY <2>13, <3>1 DEF UploadReview
      <4> QED
        BY <4>1, <4>2, <4>3 DEF Earned
    <3>2. CASE ~ReviewWanted
      BY <2>13, <3>2 DEF UploadReview, ReviewWanted
    <3> QED
      BY <3>1, <3>2
  <2>14. CASE OrchestratorDies
    BY <2>14 DEF OrchestratorDies
  <2>15. CASE Cancel
    <3>1. status' = "cancelled" /\ run' = run /\ finalCode' = finalCode
      BY <2>15 DEF Cancel
    <3>2. CASE step = "upload" /\ ReviewWanted
      <4>1. /\ fresh /\ finalCode = 0
            /\ status = "success" /\ at = "exit" /\ Passing
        BY <3>2 DEF ReviewWanted
      <4>2. Earned(review)
        BY <3>2, <4>1 DEF Earned, CandidateShowsAllGates
      <4>3. uploaded' \in {NoReview, review}
        BY <2>15, <3>2 DEF Cancel
      <4> QED
        BY <3>1, <4>1, <4>2, <4>3 DEF Earned
    <3>3. CASE ~(step = "upload" /\ ReviewWanted)
      BY <2>15, <3>1, <3>3 DEF Cancel
    <3> QED
      BY <3>2, <3>3
  <2>16. CASE Kill
    BY <2>16 DEF Kill
  <2>17. CASE UNCHANGED vars
    BY <2>17 DEF vars
  <2> QED
    BY <2>1, <2>2, <2>3, <2>4, <2>5, <2>6, <2>7, <2>8, <2>9, <2>10,
       <2>11, <2>12, <2>13, <2>14, <2>15, <2>16, <2>17
       DEF Next, JobStep, TimeLimit
<1> QED
  BY <1>1, <1>2, TypeCorrect, FilesInvariant, JobInvariant, ReviewIsComplete,
     PTL DEF Spec

(* Handoff, review and summary of one run agree, also after crashes between  *)
(* them and in a tree that holds those of other runs.                        *)
THEOREM OneStory == Spec => []VerdictsAgree
<1>1. Init => VerdictsAgree
  BY DEF Init, VerdictsAgree, NoReview, NoSummary, NoHandoff
<1>2. TypeOK /\ FilesInv /\ VerdictsAgree /\ [Next]_vars => VerdictsAgree'
  <2> SUFFICES ASSUME TypeOK, FilesInv, VerdictsAgree, [Next]_vars
               PROVE VerdictsAgree'
    OBVIOUS
  <2>t. Numbers
    BY AreNumbers
  <2> USE <2>t DEF Numbers
  <2> USE DEF job, orchestrator, buildFiles, reviewFiles
  <2> USE DEF FilesInv, VerdictsAgree, Passing, NoReview, NoSummary, NoHandoff
  <2>1. ASSUME NEW checkout \in BOOLEAN, StartJob(checkout)
        PROVE  VerdictsAgree'
    <3>1. CASE checkout
      BY <2>1, <3>1 DEF StartJob
    <3>2. CASE ~checkout
      BY <2>1, <3>2 DEF StartJob
    <3> QED
      BY <3>1, <3>2
  <2>2. ASSUME NEW ok \in BOOLEAN, Setup(ok) PROVE VerdictsAgree'
    BY <2>2 DEF Setup
  <2>3. ASSUME NEW code \in ExitCodes, RunGate(code) PROVE VerdictsAgree'
    BY <2>3 DEF RunGate, Orchestrating, Overall, Continues
  <2>4. CASE GatesDone
    BY <2>4 DEF GatesDone, Orchestrating
  <2>5. CASE WriteHandoff
    <3>1. /\ step = "gates" /\ at = "handoff" /\ handoff'.run = run
          /\ review' = review /\ summary' = summary
      BY <2>5 DEF WriteHandoff, Orchestrating
    <3> QED
      BY <3>1
  <2>6. CASE ClearReview
    BY <2>6 DEF ClearReview, Orchestrating
  <2>7. CASE OpenReview
    <3>1. /\ step = "gates" /\ at = "package" /\ review'.run = run
          /\ handoff' = handoff /\ summary' = summary
      BY <2>7 DEF OpenReview, Orchestrating
    <3> QED
      BY <3>1
  <2>8. CASE PackageReview
    <3>1. /\ step = "gates" /\ at = "zip" /\ review'.run = run
          /\ handoff' = handoff /\ summary' = summary
      BY <2>8 DEF PackageReview, Orchestrating
    <3> QED
      BY <3>1
  <2>9. CASE WriteSummary
    <3>1. /\ step = "gates" /\ at = "summary" /\ summary'.run = run
          /\ summary'.result = overall
          /\ handoff' = handoff /\ review' = review
      BY <2>9 DEF WriteSummary, Orchestrating
    <3> QED
      BY <3>1
  <2>10. CASE OrchestratorExits
    BY <2>10 DEF OrchestratorExits, Orchestrating
  <2>11. ASSUME NEW ok \in BOOLEAN, Diagnostics(ok) PROVE VerdictsAgree'
    BY <2>11 DEF Diagnostics
  <2>12. CASE Finalize
    BY <2>12 DEF Finalize, FinalizeCode
  <2>13. ASSUME NEW ok \in BOOLEAN, UploadReview(ok)
         PROVE  VerdictsAgree'
    BY <2>13 DEF UploadReview, ReviewWanted
  <2>14. CASE OrchestratorDies
    BY <2>14 DEF OrchestratorDies
  <2>15. CASE Cancel
    BY <2>15 DEF Cancel, AfterCancel, ReviewWanted
  <2>16. CASE Kill
    BY <2>16 DEF Kill
  <2>17. CASE UNCHANGED vars
    BY <2>17 DEF vars
  <2> QED
    BY <2>1, <2>2, <2>3, <2>4, <2>5, <2>6, <2>7, <2>8, <2>9, <2>10,
       <2>11, <2>12, <2>13, <2>14, <2>15, <2>16, <2>17
       DEF Next, JobStep, TimeLimit
<1> QED
  BY <1>1, <1>2, TypeCorrect, FilesInvariant, PTL DEF Spec

(* No gate runs after one that did not pass, for every plan and whatever the *)
(* commands exit with.                                                       *)
THEOREM NoGateAfterAFailure == Spec => []StopsAtFirstFailure
<1>1. TypeOK /\ FilesInv /\ GatesInv => StopsAtFirstFailure
  <2> SUFFICES ASSUME TypeOK, GatesInv, run # 0,
                      NEW i \in 1..Len(GatePlan), NEW j \in 1..Len(GatePlan),
                      i < j, gateLogs[GatePlan[j]].run = run
               PROVE  gateLogs[GatePlan[i]] = [run |-> run, code |-> 0]
    BY DEF StopsAtFirstFailure
  <2>1. run \in Nat /\ gate \in Nat /\ Len(GatePlan) \in Nat
    BY PlanAssumption DEF TypeOK, Runs
  <2>2. j < gate
    BY <2>1 DEF GatesInv
  <2> QED
    BY <2>1, <2>2 DEF GatesInv
<1> QED
  BY <1>1, TypeCorrect, FilesInvariant, GatesInvariant, PTL

(* In a fresh checkout finalize exits 0 only if all gates of this very job   *)
(* passed and its orchestrator lived to say so.                              *)
THEOREM FinalizeIsSound == Spec => []FreshFinalizeTellsThisRun
<1>1. TypeOK /\ FilesInv /\ GatesInv /\ JobInv => FreshFinalizeTellsThisRun
  BY PlanAssumption
     DEF TypeOK, FilesInv, GatesInv, JobInv, Passing, Gates, AllPassed, Runs,
         FreshFinalizeTellsThisRun, FinalizeTellsThisRun, NoSummary
<1> QED
  BY <1>1, TypeCorrect, FilesInvariant, GatesInvariant, JobInvariant, PTL
=============================================================================
