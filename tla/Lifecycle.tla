----------------------------- MODULE Lifecycle -----------------------------
(***************************************************************************)
(* The three status machines of the control plane - Issue, Job and         *)
(* ActionRun - with the record predicates every component reads them       *)
(* through, and the rule that derives an Issue's status from the work      *)
(* outstanding on it.  The module has no state of its own: the components  *)
(* that keep Issues, Jobs and ActionRuns extend it.                        *)
(*                                                                         *)
(* A Job is a record with fields status, outcome ("None" before a result), *)
(* reviewed, followUp, materialized and latest; an ActionRun is a record   *)
(* with fields status, approval, reviewed, artifact, dryRun and evidence.  *)
(***************************************************************************)

IssueStatus == {"Open", "Investigating", "WaitingForHuman", "Mitigating",
                "Verifying", "Resolved", "Failed", "Cancelled"}

IssueTerminal == {"Resolved", "Failed", "Cancelled"}

\* Where an Issue may go from each status.
IssueNext(from) ==
    CASE from = "Open" ->
           {"Investigating", "WaitingForHuman", "Cancelled", "Failed"}
      [] from = "Investigating" ->
           {"WaitingForHuman", "Mitigating", "Verifying", "Resolved", "Failed", "Cancelled"}
      [] from = "WaitingForHuman" ->
           {"Investigating", "Mitigating", "Resolved", "Failed", "Cancelled"}
      [] from = "Mitigating" ->
           {"Investigating", "WaitingForHuman", "Verifying", "Failed", "Cancelled"}
      [] from = "Verifying" ->
           {"Investigating", "WaitingForHuman", "Resolved", "Mitigating", "Failed", "Cancelled"}
      [] OTHER -> {}

JobStatus == {"Queued", "Running", "WaitingForHuman", "NeedsResnapshot", "Completed",
              "Failed", "Blocked", "Superseded", "Cancelled"}

JobTerminal == {"Completed", "Failed", "Superseded", "Cancelled"}

JobOutcome == {"Solved", "DiagnosisOnly", "NeedsMoreData", "NeedsHuman",
               "OptionsReady", "Blocked", "Failed"}

\* Where a Job may go from each status.
JobNext(from) ==
    CASE from = "Queued" -> {"Running", "Cancelled", "Superseded"}
      [] from = "Running" ->
           {"WaitingForHuman", "NeedsResnapshot", "Completed", "Failed", "Blocked",
            "Cancelled", "Superseded"}
      [] from = "WaitingForHuman" ->
           {"Running", "Completed", "Failed", "Cancelled", "Superseded"}
      [] from = "NeedsResnapshot" -> {"Superseded", "Cancelled"}
      [] from = "Blocked" -> {"Running", "Failed", "Cancelled", "Superseded"}
      [] OTHER -> {}

\* The status a Team's final outcome leaves its Job in.
StatusOfOutcome(outcome) ==
    CASE outcome = "NeedsMoreData" -> "NeedsResnapshot"
      [] outcome \in {"NeedsHuman", "OptionsReady"} -> "WaitingForHuman"
      [] outcome = "Blocked" -> "Blocked"
      [] outcome = "Failed" -> "Failed"
      [] OTHER -> "Completed"

JobNeedsReview(job) == job.status \in {"Failed", "NeedsResnapshot"} /\ ~job.reviewed

RunStatus == {"Proposed", "WaitingForApproval", "WaitingForHuman", "Ready", "Running",
              "Verifying", "Succeeded", "Failed", "VerificationFailed", "Cancelled"}

RunTerminal == {"Succeeded", "Failed", "VerificationFailed", "Cancelled"}

Approval == {"Unevaluated", "NotRequired", "Pending", "Approved", "Rejected"}

Evidence == {"None", "DryRun", "Observation", "Weak", "Strong"}

\* Where an ActionRun may go from each status.
RunNext(from) ==
    CASE from = "Proposed" -> {"WaitingForApproval", "WaitingForHuman", "Ready", "Cancelled"}
      [] from = "WaitingForApproval" -> {"Ready", "WaitingForHuman", "Cancelled"}
      [] from = "WaitingForHuman" -> {"Cancelled"}
      [] from = "Ready" -> {"Running", "WaitingForHuman", "Cancelled"}
      [] from = "Running" -> {"Verifying", "Failed", "WaitingForHuman", "Cancelled"}
      [] from = "Verifying" -> {"Succeeded", "VerificationFailed", "Failed"}
      [] OTHER -> {}

\* Fault: a denial waits for somebody to approve it.
StatusOfDecision(approval) ==
    IF approval \in {"NotRequired", "Approved"} THEN "Ready" ELSE "WaitingForApproval"

\* Status an authority decision (or a human's) puts a run in.
StatusOfApproval(approval) ==
    CASE approval \in {"NotRequired", "Approved"} -> "Ready"
      [] approval = "Pending" -> "WaitingForApproval"
      [] OTHER -> "Cancelled"

\* A denial is recorded exactly when the approval is Rejected.
Denied(run) == run.approval = "Rejected"

\* Execution or verification failed; a cancelled run counts once it has output.
HasFailed(run) ==
    \/ run.status \in {"Failed", "VerificationFailed"}
    \/ run.status = "Cancelled" /\ run.artifact

RunNeedsReview(run) ==
    /\ ~run.reviewed
    /\ Denied(run) \/ HasFailed(run) \/ run.status = "WaitingForHuman"

\* It may yet run, is running, or ran to a verified success.
HoldsClaim(run) ==
    run.status \in RunStatus \ {"Cancelled", "Failed", "VerificationFailed"}

\* Succeeded for real, with evidence of an effect, on a run that could have one.
IsRemediation(run, mutating) ==
    /\ mutating
    /\ run.status = "Succeeded"
    /\ ~run.dryRun
    /\ run.evidence \in {"Weak", "Strong"}

(***************************************************************************)
(* The status an Issue's work implies.  jobs and runs are the Issue's      *)
(* records; remediated says whether a run of the latest Job IsRemediation. *)
(* "None" when no work exists yet.                                         *)
(***************************************************************************)
DerivedIssueStatus(jobs, runs, remediated) ==
    LET busy == \E j \in jobs : j.status \in {"Queued", "Running"}
        acting == \E r \in runs : r.status \in {"Proposed", "Ready", "Running"}
        verifying == \E r \in runs : r.status = "Verifying"
        waiting == \/ \E r \in runs : r.status = "WaitingForApproval" \/ RunNeedsReview(r)
                   \/ \E j \in jobs :
                        \/ JobNeedsReview(j)
                        \/ j.status \in {"WaitingForHuman", "Blocked", "NeedsResnapshot"}
        unprocessed == \E j \in jobs : j.status = "Completed" /\ ~j.materialized
        solved == \E j \in jobs : j.latest /\ j.outcome = "Solved"
        closing == remediated /\ \E j \in jobs : j.latest /\ ~j.followUp
    IN CASE jobs = {} /\ runs = {} -> "None"
         [] busy -> "Investigating"
         [] ~busy /\ acting -> "Mitigating"
         [] ~busy /\ ~acting /\ verifying -> "Verifying"
         [] /\ ~(busy \/ acting \/ verifying \/ waiting \/ unprocessed)
            /\ solved \/ closing -> "Resolved"
         [] OTHER -> "WaitingForHuman"
=============================================================================
