------------------------------ MODULE CloudRun ------------------------------
(***************************************************************************)
(* An M04 validation job: the steps of .github/workflows/m04.yml around    *)
(* scripts/run_m04_cloud.py, scripts/create_review.py, create_diagnostics  *)
(* and finalize_cloud_result.  The orchestrator runs the gates in order,   *)
(* then hands off, packages the review and writes its summary last; it may *)
(* die between any two of these.  Jobs follow one another, in a fresh      *)
(* checkout (the workflow, which may be cancelled or run out of time at    *)
(* every step) or in the same working tree (somebody running the same      *)
(* commands by hand, without uploads).                                     *)
(***************************************************************************)
EXTENDS Integers, Sequences

CONSTANTS
  GatePlan,       \* gate_plan(): the names of the gates, in order
  ExitCodes,      \* what a gate's command may exit with
  MaxRuns         \* bound: number of jobs

ASSUME PlanAssumption ==
  /\ GatePlan \in Seq(STRING)
  /\ \A i, j \in 1..Len(GatePlan) : GatePlan[i] = GatePlan[j] => i = j
  /\ {0, 2} \subseteq ExitCodes
  /\ ExitCodes \subseteq Nat
  /\ MaxRuns \in Nat \ {0}

VARIABLES
  run,       \* number of the current job
  fresh,     \* whether it is the workflow's, in a fresh checkout
  step,      \* its step
  status,    \* success(), failure() or cancelled() of the workflow
  at,        \* where the orchestrator is, inside the step "gates"
  gate,      \* index of the gate it runs next
  overall,   \* its result so far
  gateLogs,  \* .build/evidence/cloud-gate-<name>.txt
  handoff,   \* .build/evidence/candidate-handoff/
  summary,   \* .build/evidence/run-m04-cloud.json
  review,    \* .review/...-REVIEW.zip
  diag,      \* the run whose .review/...-DIAGNOSTICS.zip exists, or 0
  finalCode, \* exit code of finalize_cloud_result, -1 before
  uploaded   \* the job's raven-review artifact

orchestrator == <<at, gate, overall>>
buildFiles == <<gateLogs, handoff, summary>>
reviewFiles == <<review, diag>>
job == <<run, fresh, step, status, finalCode, uploaded>>
vars == <<job, orchestrator, buildFiles, reviewFiles>>

-----------------------------------------------------------------------------
Gates == {GatePlan[i] : i \in 1..Len(GatePlan)}
Results == {"PASS_REVIEW_READY", "BLOCKED", "FAILED"}

(* What a missing file reads as: run 0 wrote it. *)
NoLog == [run |-> 0, code |-> 0]
NoLogs == [g \in Gates |-> NoLog]
NoHandoff == [run |-> 0, ready |-> FALSE]
NoSummary == [run |-> 0, result |-> "FAILED"]
NoReview == [run |-> 0, candidate |-> FALSE, gateLogs |-> NoLogs,
             summary |-> NoSummary, handoff |-> NoHandoff]

Runs == 0..MaxRuns
Logs == [Gates -> [run : Runs, code : ExitCodes]]
Handoffs == [run : Runs, ready : BOOLEAN]
Summaries == [run : Runs, result : Results]
Reviews == [run : Runs, candidate : BOOLEAN, gateLogs : Logs,
            summary : Summaries, handoff : Handoffs]

TypeOK ==
  /\ run \in Runs
  /\ fresh \in BOOLEAN
  /\ step \in {"over", "setup", "gates", "diagnostics", "finalize", "upload"}
  /\ status \in {"success", "failure", "cancelled"}
  /\ at \in {"gates", "handoff", "clear", "package", "zip", "summary", "exit"}
  /\ gate \in 1..Len(GatePlan) + 1
  /\ overall \in Results
  /\ gateLogs \in Logs
  /\ handoff \in Handoffs
  /\ summary \in Summaries
  /\ review \in Reviews
  /\ diag \in Runs
  /\ finalCode \in {-1, 0, 1}
  /\ uploaded \in Reviews

Init ==
  /\ run = 0 /\ fresh = FALSE /\ step = "over" /\ status = "success"
  /\ at = "gates" /\ gate = 1 /\ overall = "PASS_REVIEW_READY"
  /\ gateLogs = NoLogs /\ handoff = NoHandoff /\ summary = NoSummary
  /\ review = NoReview /\ diag = 0
  /\ finalCode = -1 /\ uploaded = NoReview

-----------------------------------------------------------------------------
(* A dispatched job, in a fresh checkout, or the same commands by hand, in   *)
(* the working tree, .build and .review included, of those before; the       *)
(* concurrency group lets one job run at a time.                             *)
StartJob(checkout) ==
  /\ step = "over"
  /\ run < MaxRuns
  /\ checkout \/ ~fresh
  /\ run' = run + 1
  /\ fresh' = checkout
  /\ step' = "setup"
  /\ status' = "success"
  /\ at' = "gates" /\ gate' = 1 /\ overall' = "PASS_REVIEW_READY"
  /\ finalCode' = -1 /\ uploaded' = NoReview
  /\ IF checkout
       THEN /\ gateLogs' = NoLogs /\ handoff' = NoHandoff
            /\ summary' = NoSummary /\ review' = NoReview /\ diag' = 0
       ELSE UNCHANGED <<buildFiles, reviewFiles>>

(* External: checkout and bootstrap; a failing step ends the success() ones. *)
(* By hand there is nothing to set up.                                       *)
Setup(ok) ==
  /\ step = "setup"
  /\ ok \/ fresh
  /\ IF ok THEN step' = "gates" /\ UNCHANGED status
           ELSE step' = "diagnostics" /\ status' = "failure"
  /\ UNCHANGED <<run, fresh, finalCode, uploaded, orchestrator, buildFiles,
                 reviewFiles>>

-----------------------------------------------------------------------------
(* run_m04_cloud. *)
Orchestrating(place) == step = "gates" /\ at = place

OverallUnknown(code) ==  \* mutant: a code nobody mapped
  CASE code = 0 -> overall
    [] code = 1 -> "FAILED"
    [] code = 2 -> "BLOCKED"
    [] OTHER -> "UNKNOWN"

OverallBlockedPasses(code) ==  \* mutant: a blocked gate is let pass
  IF code \in {0, 2} THEN overall ELSE "FAILED"

Overall(code) ==
  CASE code = 0 -> overall
    [] code = 2 -> "BLOCKED"
    [] OTHER -> "FAILED"

ContinuesUnlessBlocked(code) == code # 2  \* mutant: goes on after a failure
Continues(code) == code = 0

RunGate(code) ==
  /\ Orchestrating("gates")
  /\ gate <= Len(GatePlan)
  /\ gateLogs' = [gateLogs EXCEPT ![GatePlan[gate]] =
                                      [run |-> run, code |-> code]]
  /\ overall' = Overall(code)
  /\ gate' = gate + 1
  /\ at' = IF Continues(code) THEN "gates" ELSE "handoff"
  /\ UNCHANGED <<job, handoff, summary, reviewFiles>>

GatesDone ==
  /\ Orchestrating("gates")
  /\ gate > Len(GatePlan)
  /\ at' = "handoff"
  /\ UNCHANGED <<job, gate, overall, buildFiles, reviewFiles>>

WriteHandoffReady ==  \* mutant: always hands off M04 = REVIEW
  /\ Orchestrating("handoff")
  /\ handoff' = [run |-> run, ready |-> TRUE]
  /\ at' = "clear"
  /\ UNCHANGED <<job, gate, overall, gateLogs, summary, reviewFiles>>

WriteHandoff ==
  /\ Orchestrating("handoff")
  /\ handoff' = [run |-> run, ready |-> overall = "PASS_REVIEW_READY"]
  /\ at' = "clear"
  /\ UNCHANGED <<job, gate, overall, gateLogs, summary, reviewFiles>>

(* create_review removes .review with everything in it, then packages the    *)
(* files of .build/evidence: its subdirectories, the handoff among them, are *)
(* left out.                                                                 *)
ClearReview ==
  /\ Orchestrating("clear")
  /\ review' = NoReview
  /\ diag' = 0
  /\ at' = "package"
  /\ UNCHANGED <<job, gate, overall, buildFiles>>

(* The ZIP is there before all of its entries are; review.json, which says   *)
(* whether M04 = REVIEW, is the last one, and the others say nothing         *)
(* without it.                                                               *)
OpenReview ==
  /\ Orchestrating("package")
  /\ review' = [NoReview EXCEPT !.run = run]
  /\ at' = "zip"
  /\ UNCHANGED <<job, gate, overall, buildFiles, diag>>

PackageReview ==
  /\ Orchestrating("zip")
  /\ review' = [run |-> run, candidate |-> overall = "PASS_REVIEW_READY",
                gateLogs |-> gateLogs, summary |-> summary,
                handoff |-> NoHandoff]
  /\ at' = "summary"
  /\ UNCHANGED <<job, gate, overall, buildFiles, diag>>

WriteSummary ==
  /\ Orchestrating("summary")
  /\ summary' = [run |-> run, result |-> overall]
  /\ at' = "exit"
  /\ UNCHANGED <<job, gate, overall, gateLogs, handoff, reviewFiles>>

OrchestratorExits ==
  /\ Orchestrating("exit")
  /\ step' = "diagnostics"
  /\ status' = IF overall = "PASS_REVIEW_READY" THEN "success" ELSE "failure"
  /\ UNCHANGED <<run, fresh, finalCode, uploaded, orchestrator, buildFiles,
                 reviewFiles>>

(* An exception anywhere in the orchestrator, or its process killed. *)
OrchestratorDies ==
  /\ step = "gates"
  /\ step' = "diagnostics"
  /\ status' = "failure"
  /\ UNCHANGED <<run, fresh, finalCode, uploaded, orchestrator, buildFiles,
                 reviewFiles>>

-----------------------------------------------------------------------------
(* Diagnostics are packaged only if: failure(). *)
Diagnostics(ok) ==
  /\ step = "diagnostics"
  /\ step' = "finalize"
  /\ diag' = IF status = "failure" /\ ok THEN run ELSE diag
  /\ UNCHANGED <<run, fresh, status, finalCode, uploaded, orchestrator,
                 buildFiles, review>>

(* finalize_cloud_result, if: always(). *)
FinalizeLenient(file) ==  \* mutant: blocked is good enough
  IF file.run # 0 /\ file.result # "FAILED" THEN 0 ELSE 1

FinalizeCode(file) ==
  IF file.run # 0 /\ file.result = "PASS_REVIEW_READY" THEN 0 ELSE 1

FinalizeUnlessFailed ==  \* mutant: without if: always()
  /\ step = "finalize"
  /\ step' = "upload"
  /\ finalCode' = IF status = "success" THEN FinalizeCode(summary) ELSE -1
  /\ status' = IF finalCode' # 0 /\ status = "success" THEN "failure"
                                                       ELSE status
  /\ UNCHANGED <<run, fresh, uploaded, orchestrator, buildFiles, reviewFiles>>

Finalize ==
  /\ step = "finalize"
  /\ step' = "upload"
  /\ finalCode' = FinalizeCode(summary)
  /\ status' = IF finalCode' # 0 /\ status = "success" THEN "failure"
                                                       ELSE status
  /\ UNCHANGED <<run, fresh, uploaded, orchestrator, buildFiles, reviewFiles>>

(* The workflow uploads the review, only if: success(). *)
ReviewUnlessCancelled == fresh /\ status # "cancelled"  \* mutant: always
ReviewWanted == fresh /\ status = "success"

(* External: the upload may fail, before or after the artifact is stored. *)
UploadReview(ok) ==
  /\ step = "upload"
  /\ step' = "over"
  /\ IF ReviewWanted
       THEN /\ uploaded' \in IF ok THEN {review} ELSE {NoReview, review}
            /\ status' = IF ok THEN "success" ELSE "failure"
       ELSE UNCHANGED <<uploaded, status>>
  /\ UNCHANGED <<run, fresh, finalCode, orchestrator, buildFiles, reviewFiles>>

(* External: somebody cancels the workflow's job, or its 90 minutes are up.  *)
(* The running step is killed, and only always() steps follow: finalize, if  *)
(* it was not the step killed.  An upload that is killed may have stored the *)
(* artifact.                                                                 *)
AfterCancel ==
  CASE step \in {"setup", "gates", "diagnostics"} -> {"finalize"}
    [] step = "finalize" -> {"finalize", "upload"}
    [] OTHER -> {"over"}

Cancel ==
  /\ fresh /\ step # "over" /\ status # "cancelled"
  /\ step' \in AfterCancel
  /\ status' = "cancelled"
  /\ uploaded' \in IF step = "upload" /\ ReviewWanted THEN {NoReview, review}
                                                      ELSE {uploaded}
  /\ UNCHANGED <<run, fresh, finalCode, orchestrator, buildFiles, reviewFiles>>

(* External: a cancelled job is given a few minutes for its last steps. *)
Kill ==
  /\ fresh /\ step # "over" /\ status = "cancelled"
  /\ step' = "over"
  /\ UNCHANGED <<run, fresh, status, finalCode, uploaded, orchestrator,
                 buildFiles, reviewFiles>>

-----------------------------------------------------------------------------
JobStep ==
  \/ \E ok \in BOOLEAN : Setup(ok)
  \/ \E code \in ExitCodes : RunGate(code)
  \/ GatesDone \/ WriteHandoff \/ ClearReview \/ OpenReview \/ PackageReview
  \/ WriteSummary \/ OrchestratorExits
  \/ \E ok \in BOOLEAN : Diagnostics(ok)
  \/ Finalize
  \/ \E ok \in BOOLEAN : UploadReview(ok)

TimeLimit == Cancel \/ Kill

Next ==
  \/ \E checkout \in BOOLEAN : StartJob(checkout)
  \/ JobStep
  \/ OrchestratorDies
  \/ TimeLimit

(* Neither the orchestrator nor a gate limits the time of what it runs, and  *)
(* nothing is assumed of them: only the time limit of the workflow's jobs is *)
(* sure to come (timeout-minutes).                                           *)
Spec == Init /\ [][Next]_vars /\ WF_vars(TimeLimit)

-----------------------------------------------------------------------------
AllPassed(logs, n) == \A g \in Gates : logs[g] = [run |-> n, code |-> 0]

(* No gate runs in a job in which an earlier gate of the plan did not pass.  *)
StopsAtFirstFailure ==
  \A i, j \in 1..Len(GatePlan) :
    /\ i < j
    /\ gateLogs[GatePlan[j]].run = run
    /\ run # 0
    => gateLogs[GatePlan[i]] = [run |-> run, code |-> 0]

(* A review that says M04 = REVIEW carries, from one and the same run, the   *)
(* log of every gate, each of them passed; also in a working tree that holds *)
(* the files of other runs.                                                  *)
CandidateShowsAllGates ==
  review.candidate => review.run # 0 /\ AllPassed(review.gateLogs, review.run)

(* What is uploaded, even by a job that was cancelled or failed while it     *)
(* stored the artifact, is the candidate that this job made itself, passed   *)
(* by finalize, with the passing log of every gate and no older summary in   *)
(* it; and a workflow job that ends in success has uploaded it.              *)
UploadedReviewIsEarned ==
  /\ uploaded.run # 0 =>
       /\ uploaded.run = run /\ uploaded.candidate /\ finalCode = 0
       /\ AllPassed(uploaded.gateLogs, run) /\ uploaded.summary = NoSummary
  /\ fresh /\ run # 0 /\ step = "over" /\ status = "success" =>
       uploaded.run = run

(* Handoff, review and summary of one run tell the same story, and none of   *)
(* them is older than the one written after it.                              *)
VerdictsAgree ==
  /\ summary.run # 0 /\ summary.run = handoff.run =>
       (summary.result = "PASS_REVIEW_READY" <=> handoff.ready)
  /\ summary.run # 0 /\ summary.run = review.run =>
       (summary.result = "PASS_REVIEW_READY" <=> review.candidate)
  /\ review.run <= handoff.run
  /\ summary.run <= handoff.run

(* A job's finalize step exits 0 only if its own orchestrator got as far as  *)
(* writing that every gate passed.                                           *)
FinalizeTellsThisRun ==
  finalCode = 0 => summary.run = run /\ AllPassed(gateLogs, run)

(* This is so at least for the jobs of the workflow, which start in a fresh  *)
(* checkout.                                                                 *)
FreshFinalizeTellsThisRun == fresh => FinalizeTellsThisRun

(* The note that write_candidate_handoff puts into the handoff says that it  *)
(* is part of the review ZIP (run_m04_cloud.py:77).                          *)
HandoffReachesReview ==
  review.candidate => review.handoff.run = review.run

(* Every job of the workflow ends, also if a gate's command never returns,   *)
(* and with a verdict of finalize unless it was cancelled.                   *)
JobEnds ==
  fresh /\ step # "over" ~>
    step = "over" /\ (finalCode = -1 => status = "cancelled")
=============================================================================
