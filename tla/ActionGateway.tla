--------------------------- MODULE ActionGateway ---------------------------
(***************************************************************************)
(* The Top Scheduler as the sole gateway for side effects: how a Team's    *)
(* proposal becomes an ActionRun, is evaluated, approved or refused,       *)
(* executed and verified, while humans decide, freeze and close, other     *)
(* requests run concurrently, and the controller may crash and recover.    *)
(*                                                                         *)
(* Every request the controller serves is a task with a program counter;   *)
(* one step of a task is one store operation, or one critical section of   *)
(* the Scheduler's lifecycle lock in which nothing it reads can change.    *)
(* The store's update_*_if operations compare the whole record; a record   *)
(* whose status is unchanged since it was read is unchanged, because every *)
(* write to a run either moves it along RunNext or sets its review once.   *)
(*                                                                         *)
(* The passes whose proposals become runs are taken as completed without a *)
(* follow-up; the passes themselves are the subject of another module.     *)
(***************************************************************************)
EXTENDS Lifecycle, Naturals

CONSTANTS
    Runs,          \* ActionRun identities, one per proposal
    Jobs,          \* the completed passes that made the proposals
    Issues,        \* the Issues the passes investigated
    Tasks,         \* requests that may be in flight at once
    None,          \* no task, no run, no Issue
    JobOf,         \* the pass behind each run
    IssueOf,       \* the Issue of each pass
    Latest,        \* the latest pass of each Issue
    KeyOf,         \* idempotency key: equal for equal proposals of one Issue
    IntentOf,      \* runbook and target: equal for runs rule 5 counts as a repeat
    Row,           \* what the authority matrix says of each proposal
    Mutating,      \* runs whose runbook classifies as mutating
    Unimplemented, \* runs whose command an operator may have removed from the settings
    Approvable,    \* statuses in which a run is within reach of an approval request
    Rejectable,    \* statuses in which a run is within reach of a rejection request
    Freezes,       \* modes a human freezes the Scheduler to
    Merges,        \* whether triage may merge evidence into an Issue meanwhile
    MaxDrops,      \* bound: requests dropped while in flight
    MaxCrashes     \* bound: crashes of the controller

Rows == {"auto", "approve", "deny", "unclassified"}

ASSUME GatewayConstants ==
    /\ JobOf \in [Runs -> Jobs]
    /\ IssueOf \in [Jobs -> Issues]
    /\ Latest \subseteq Jobs
    /\ Row \in [Runs -> Rows]
    /\ Mutating \subseteq Runs
    /\ Unimplemented \subseteq Runs
    /\ Approvable \subseteq {"Proposed", "WaitingForApproval"}
    /\ Rejectable \subseteq RunStatus
    /\ Freezes \subseteq {"DispatchFrozen", "FullyFrozen"}
    /\ Merges \in BOOLEAN
    /\ MaxDrops \in Nat /\ MaxCrashes \in Nat
    /\ None \notin Runs \cup Issues \cup Tasks

VARIABLES
    run,       \* [Runs -> ActionRun record], persisted
    issue,     \* [Issues -> IssueStatus], persisted
    begun,     \* passes whose proposals a request has begun to process
    logged,    \* the last mode a human set, as the event log tells it, persisted
    mode,      \* the Scheduler's mode in memory
    task,      \* the requests in flight
    lock,      \* the lifecycle lock: who holds it and what is left to do under it
    boot,      \* where the process is between a crash and serving again
    drops, crashes

vars == <<run, issue, begun, logged, mode, task, lock, boot, drops, crashes>>

Modes == {"Running", "DispatchFrozen", "FullyFrozen", "Recovering"}

\* A run that does not exist yet, and one as from_proposal builds it.
Absent == [status |-> "Absent", approval |-> "Unevaluated", reviewed |-> FALSE,
           artifact |-> FALSE, dryRun |-> FALSE, evidence |-> "None"]
FromProposal == [Absent EXCEPT !.status = "Proposed"]

IdleTask == [op |-> "none", pc |-> "idle", run |-> None, issue |-> None, seen |-> "none",
             then |-> "done", exec |-> FALSE, queue |-> {}]
FreeLock == [holder |-> None, next |-> "none", todo |-> {}]
Serving == [phase |-> "up", runs |-> {}, issues |-> {}, verified |-> None]

-----------------------------------------------------------------------------
(* What the store answers. *)

Present == {r \in Runs : run[r].status # "Absent"}
On(r) == IssueOf[JobOf[r]]
RunsOf(i) == {r \in Present : On(r) = i}
Live(i) == issue[i] \notin IssueTerminal

\* Faults: what is queued is forgotten; what is being verified is cancelled as well.
UnstartedButReady == {"Proposed", "WaitingForApproval", "WaitingForHuman"}
UnstartedOrVerifying == UnstartedButReady \cup {"Ready", "Verifying"}

\* Statuses cancel_issue_work cancels: nothing of them has started.
Unstarted == {"Proposed", "Ready", "WaitingForApproval", "WaitingForHuman"}

\* Fault: only a run that is queued or executing counts.
KeyExecuting(r) ==
    \E s \in Present \ {r} : KeyOf[s] = KeyOf[r] /\ run[s].status \in {"Ready", "Running"}

\* Another run with the same key that still holds its claim.
KeyTaken(r) ==
    \E s \in Present \ {r} : KeyOf[s] = KeyOf[r] /\ HoldsClaim(run[s])

\* Rule 5: the same runbook already went automatically to the same target.
RecentAutoRepeat(r) ==
    \E s \in Present \ {r} : IntentOf[s] = IntentOf[r] /\ run[s].approval = "NotRequired"

\* Fault: a pass is settled whatever became of its proposals.
PassUnchecked(j) ==
    [status |-> "Completed", outcome |-> "DiagnosisOnly", reviewed |-> FALSE,
     followUp |-> FALSE, latest |-> j \in Latest, materialized |-> TRUE]

\* A completed pass, once every one of its proposals has its run.
PassOf(j) == [status |-> "Completed", outcome |-> "DiagnosisOnly", reviewed |-> FALSE,
              followUp |-> FALSE, latest |-> j \in Latest,
              materialized |-> \A r \in Runs : JobOf[r] = j => r \in Present]

DerivedStatus(i) ==
    DerivedIssueStatus(
        {PassOf(j) : j \in {k \in Jobs : IssueOf[k] = i}},
        {run[r] : r \in RunsOf(i)},
        \E r \in RunsOf(i) : JobOf[r] \in Latest /\ IsRemediation(run[r], r \in Mutating))

-----------------------------------------------------------------------------
(* Moving a task along. *)

Up == boot.phase = "up"
At(t, pc) == Up /\ task[t].pc = pc

Set(t, rec) == task' = [task EXCEPT ![t] = rec]
Goto(t, pc) == Set(t, [task[t] EXCEPT !.pc = pc])

\* An error ends the request: its `?` propagates to the caller and drops its guards.
Fail(t) == Set(t, IdleTask)

\* Fault: the execution lock outlives the execution.
FinishedHolding(t) ==
    IF task[t].op = "propose" THEN [task[t] EXCEPT !.pc = "propose", !.run = None]
    ELSE IF task[t].op = "resume" THEN [task[t] EXCEPT !.pc = "drain", !.run = None]
    ELSE IdleTask

\* execute_and_verify returned: a batch goes on to its next run, others are done.
Finished(t) ==
    CASE task[t].op = "propose" ->
           [task[t] EXCEPT !.pc = "propose", !.run = None, !.exec = FALSE]
      [] task[t].op = "resume" ->
           [task[t] EXCEPT !.pc = "drain", !.run = None, !.exec = FALSE]
      [] OTHER -> IdleTask

\* What follows a reconciliation.
AfterReconcile(t) ==
    CASE task[t].then = "end" -> IdleTask
      [] task[t].then = "done" -> Finished(t)
      [] OTHER -> [task[t] EXCEPT !.pc = task[t].then, !.then = "done"]

ReconcileThen(t, then) ==
    Set(t, [task[t] EXCEPT !.pc = "reconcile", !.then = then, !.seen = "none"])

\* A compare-and-set of t's run: it applies, or the request ends in Conflict.
Update(t, expected, new, then) ==
    LET r == task[t].run
    IN IF run[r].status = expected
       THEN run' = [run EXCEPT ![r] = new] /\ ReconcileThen(t, then)
       ELSE UNCHANGED run /\ Fail(t)

ActionsAllowed == mode \in {"Running", "DispatchFrozen"}

LockFree == lock.holder = None

\* Fault: a path returns with the lifecycle lock held.
KeepLock == UNCHANGED lock

Unlock == lock' = FreeLock

-----------------------------------------------------------------------------
(* run_proposals: create_action_run for each proposal of a completed pass. *)

BeginPropose(t, j) ==
    /\ At(t, "idle")
    /\ j \notin begun /\ Live(IssueOf[j])
    /\ begun' = begun \cup {j}
    /\ Set(t, [IdleTask EXCEPT !.op = "propose", !.pc = "propose", !.issue = IssueOf[j],
                               !.queue = {r \in Runs : JobOf[r] = j}])
    /\ UNCHANGED <<run, issue, logged, mode, lock, boot, drops, crashes>>

\* The freeze check and the before-Snapshot capture, with nothing locked; when every
\* proposal has been processed, one more reconciliation.
Propose(t) ==
    /\ At(t, "propose")
    /\ \/ /\ task[t].queue = {}
          /\ ReconcileThen(t, "end")
       \/ /\ task[t].queue # {} /\ ~ActionsAllowed
          /\ Fail(t)
       \/ /\ ActionsAllowed
          /\ \E r \in task[t].queue :
               Set(t, [task[t] EXCEPT !.pc = "insert", !.run = r, !.queue = @ \ {r}])
    /\ UNCHANGED <<run, issue, begun, logged, mode, lock, boot, drops, crashes>>

\* Under the lifecycle lock: the Issue must be live, then the run is inserted.
Insert(t) ==
    /\ At(t, "insert") /\ LockFree
    /\ LET r == task[t].run
       IN IF Live(On(r))
          THEN run' = [run EXCEPT ![r] = FromProposal] /\ Goto(t, "claim")
          ELSE UNCHANGED run /\ Fail(t)
    /\ UNCHANGED <<issue, begun, logged, mode, lock, boot, drops, crashes>>

\* claim_idempotency_key, answered under the store's lock.
Claim(t) ==
    /\ At(t, "claim")
    /\ IF KeyTaken(task[t].run)
       THEN Set(t, [task[t] EXCEPT !.pc = "settle", !.seen = "Rejected"])
       ELSE Goto(t, "evaluate")
    /\ UNCHANGED <<run, issue, begun, logged, mode, lock, boot, drops, crashes>>

\* Fault: only the repeat rule asks for approval.
VerdictsOfRepeats(r) ==
    CASE Row[r] = "deny" -> {"Rejected"}
      [] Row[r] = "unclassified" -> {"WaitingForHuman"}
      [] OTHER -> {IF RecentAutoRepeat(r) THEN "Pending" ELSE "NotRequired"}

\* What the authority and the Platform may answer for r.
Verdicts(r) ==
    CASE Row[r] = "deny" -> {"Rejected"}
      [] Row[r] = "unclassified" -> {"WaitingForHuman"}
      [] OTHER ->
           {IF Row[r] = "approve" \/ RecentAutoRepeat(r) THEN "Pending" ELSE "NotRequired"}
             \cup (IF r \in Unimplemented THEN {"WaitingForHuman"} ELSE {})

\* The repeat check reads the store; the decision is written later.
Evaluate(t) ==
    /\ At(t, "evaluate")
    /\ \E verdict \in Verdicts(task[t].run) :
         Set(t, [task[t] EXCEPT !.pc = "settle", !.seen = verdict])
    /\ UNCHANGED <<run, issue, begun, logged, mode, lock, boot, drops, crashes>>

\* deny_action, wait_for_action_implementation or apply_approval, on the record inserted.
Settle(t) ==
    /\ At(t, "settle")
    /\ LET verdict == task[t].seen
           record == run[task[t].run]
       IN IF verdict = "WaitingForHuman"
          THEN Update(t, "Proposed", [record EXCEPT !.status = "WaitingForHuman"], "done")
          ELSE Update(t, "Proposed",
                      [record EXCEPT !.status = StatusOfApproval(verdict), !.approval = verdict],
                      IF verdict = "NotRequired" THEN "execute" ELSE "done")
    /\ UNCHANGED <<issue, begun, logged, mode, lock, boot, drops, crashes>>

-----------------------------------------------------------------------------
(* Human decisions on a run. *)

\* approve_action reads the run and checks its Issue is live ...
BeginApprove(t, r) ==
    /\ At(t, "idle")
    /\ run[r].status \in Approvable
    /\ Live(On(r))
    /\ Set(t, [IdleTask EXCEPT !.op = "approve", !.pc = "approve", !.run = r,
                               !.seen = run[r].status])
    /\ UNCHANGED <<run, issue, begun, logged, mode, lock, boot, drops, crashes>>

\* ... then writes the approval and goes on to execute the run.
Approve(t) ==
    /\ At(t, "approve")
    /\ Update(t, task[t].seen,
              [run[task[t].run] EXCEPT !.status = "Ready", !.approval = "Approved"], "execute")
    /\ UNCHANGED <<issue, begun, logged, mode, lock, boot, drops, crashes>>

Deny(record) == [record EXCEPT !.status = "Cancelled", !.approval = "Rejected"]

\* reject_action: deny whatever may still move to Cancelled.
Reject(t, r) ==
    /\ At(t, "idle")
    /\ run[r].status \in Rejectable
    /\ "Cancelled" \in RunNext(run[r].status)
    /\ run' = [run EXCEPT ![r] = Deny(@)]
    /\ Set(t, [IdleTask EXCEPT !.op = "reject", !.pc = "reconcile", !.run = r])
    /\ UNCHANGED <<issue, begun, logged, mode, lock, boot, drops, crashes>>

\* A review is recorded once; a run blocked on a human ends with it.
Reviewed(record) ==
    [record EXCEPT !.reviewed = TRUE,
                   !.status = IF @ = "WaitingForHuman" THEN "Cancelled" ELSE @]

\* review_action with Acknowledge.
Review(t, r) ==
    /\ At(t, "idle")
    /\ r \in Present
    /\ RunNeedsReview(run[r])
    /\ run' = [run EXCEPT ![r] = Reviewed(@)]
    /\ Set(t, [IdleTask EXCEPT !.op = "review", !.pc = "reconcile", !.run = r])
    /\ UNCHANGED <<issue, begun, logged, mode, lock, boot, drops, crashes>>

-----------------------------------------------------------------------------
(* Freezing, and resuming the durable queue. *)

Freeze(m) ==
    /\ Up
    /\ mode' = m /\ logged' = m
    /\ UNCHANGED <<run, issue, begun, task, lock, boot, drops, crashes>>

\* resume sets the mode; the queue lock admits one drain at a time ...
Resume(t) ==
    /\ At(t, "idle")
    /\ \A u \in Tasks : task[u].op # "resume"
    /\ mode' = "Running" /\ logged' = "Running"
    /\ Set(t, [IdleTask EXCEPT !.op = "resume", !.pc = "list"])
    /\ UNCHANGED <<run, issue, begun, lock, boot, drops, crashes>>

\* ... then lists the Ready runs ...
ListQueue(t) ==
    /\ At(t, "list")
    /\ Set(t, [task[t] EXCEPT !.pc = "drain",
                              !.queue = {r \in Runs : run[r].status = "Ready"}])
    /\ UNCHANGED <<run, issue, begun, logged, mode, lock, boot, drops, crashes>>

\* ... and executes them one after the other.
Drain(t) ==
    /\ At(t, "drain")
    /\ IF task[t].queue = {}
       THEN Fail(t)
       ELSE \E r \in task[t].queue :
              Set(t, [task[t] EXCEPT !.pc = "execute", !.run = r, !.queue = @ \ {r}])
    /\ UNCHANGED <<run, issue, begun, logged, mode, lock, boot, drops, crashes>>

-----------------------------------------------------------------------------
(* execute_and_verify, under the per-run execution lock. *)

Execute(t) ==
    /\ At(t, "execute")
    /\ \A u \in Tasks \ {t} : ~(task[u].exec /\ task[u].run = task[t].run)
    /\ IF run[task[t].run].status = "Ready"
       THEN Set(t, [task[t] EXCEPT !.pc = "admit", !.exec = TRUE])
       ELSE Set(t, Finished(t))
    /\ UNCHANGED <<run, issue, begun, logged, mode, lock, boot, drops, crashes>>

\* execute_action's critical section refuses: frozen, closed, or no longer Ready.
AdmitRefused(t) ==
    /\ At(t, "admit") /\ LockFree
    /\ LET r == task[t].run
       IN \/ /\ ~ActionsAllowed
             /\ Set(t, IF task[t].op = "resume" /\ run[r].status = "Ready"
                       THEN IdleTask ELSE Finished(t))
          \/ /\ ActionsAllowed
             /\ ~Live(On(r)) \/ run[r].status # "Ready"
             /\ Fail(t)
    /\ UNCHANGED <<run, issue, begun, logged, mode, lock, boot, drops, crashes>>

\* The lifecycle lock and a read of the mode are held until Running is persisted.
Admissible(r) ==
    /\ LockFree
    /\ ActionsAllowed
    /\ Live(On(r))
    /\ run[r].status = "Ready"

Admit(t) ==
    /\ At(t, "admit")
    /\ Admissible(task[t].run)
    /\ run' = [run EXCEPT ![task[t].run].status = "Running"]
    /\ Goto(t, "platform")
    /\ UNCHANGED <<issue, begun, logged, mode, lock, boot, drops, crashes>>

\* The command is gone from the settings: both locks are dropped, then the run is parked.
AdmitUnimplemented(t) ==
    /\ At(t, "admit")
    /\ Admissible(task[t].run)
    /\ task[t].run \in Unimplemented
    /\ Goto(t, "park")
    /\ UNCHANGED <<run, issue, begun, logged, mode, lock, boot, drops, crashes>>

Park(t) ==
    /\ At(t, "park")
    /\ Update(t, "Ready", [run[task[t].run] EXCEPT !.status = "WaitingForHuman"], "done")
    /\ UNCHANGED <<issue, begun, logged, mode, lock, boot, drops, crashes>>

\* What the Platform may report; a Platform that errors is recorded as a failure.
PlatformResults == {"succeeded", "dryRun", "failed", "cancelled", "requiresHuman"}

\* Fault: a command stopped half-way leaves nothing to review.
RecordExecutionUnseen(record, result) ==
    [record EXCEPT
        !.status = CASE result = "requiresHuman" -> "WaitingForHuman"
                     [] result = "cancelled" -> "Cancelled"
                     [] result \in {"succeeded", "dryRun"} -> "Verifying"
                     [] OTHER -> "Failed",
        !.dryRun = (result = "dryRun")]

\* The output artifact is only ever looked at on a cancelled run.
RecordExecution(record, result) ==
    [record EXCEPT
        !.status = CASE result = "requiresHuman" -> "WaitingForHuman"
                     [] result = "cancelled" -> "Cancelled"
                     [] result \in {"succeeded", "dryRun"} -> "Verifying"
                     [] OTHER -> "Failed",
        !.artifact = (result = "cancelled"),
        !.dryRun = (result = "dryRun")]

PlatformReturns(t, result) ==
    /\ At(t, "platform")
    /\ LET next == RecordExecution(run[task[t].run], result)
       IN Update(t, "Running", next, IF next.status = "Verifying" THEN "verify" ELSE "done")
    /\ UNCHANGED <<issue, begun, logged, mode, lock, boot, drops, crashes>>

\* The evidence the after-Snapshot may give for r; "None" fails the verification.
Findings(r) ==
    CASE run[r].dryRun -> {"None", "DryRun"}
      [] ~run[r].dryRun /\ r \notin Mutating -> {"None", "Observation"}
      [] OTHER -> {"None", "Weak", "Strong"}

RecordVerification(record, evidence) ==
    [record EXCEPT
        !.status = IF evidence = "None" THEN "VerificationFailed" ELSE "Succeeded",
        !.evidence = evidence]

Verify(t) ==
    /\ At(t, "verify")
    /\ \E evidence \in Findings(task[t].run) :
         Update(t, "Verifying", RecordVerification(run[task[t].run], evidence), "done")
    /\ UNCHANGED <<issue, begun, logged, mode, lock, boot, drops, crashes>>

-----------------------------------------------------------------------------
(* reconcile_issue and close_issue, under the lifecycle lock. *)

Target(t) == IF task[t].run = None THEN task[t].issue ELSE On(task[t].run)

\* Read the Issue, its pass and its runs; decide.
Reconcile(t) ==
    /\ At(t, "reconcile") /\ LockFree
    /\ LET i == Target(t)
       IN CASE ~Live(i) ->
                 /\ lock' = [holder |-> t, next |-> "none", todo |-> RunsOf(i)]
                 /\ Goto(t, "sweep")
            [] Live(i) /\ DerivedStatus(i) \in IssueNext(issue[i]) ->
                 /\ lock' = [holder |-> t, next |-> DerivedStatus(i), todo |-> {}]
                 /\ Goto(t, "apply")
            [] OTHER -> UNCHANGED lock /\ Set(t, AfterReconcile(t))
    /\ UNCHANGED <<run, issue, begun, logged, mode, boot, drops, crashes>>

\* Write the derived status; a terminal one sweeps up what has not started.
Apply(t) ==
    /\ At(t, "apply")
    /\ LET i == Target(t)
       IN /\ issue' = [issue EXCEPT ![i] = lock.next]
          /\ IF lock.next \in IssueTerminal
             THEN lock' = [lock EXCEPT !.todo = RunsOf(i)] /\ Goto(t, "sweep")
             ELSE Unlock /\ Set(t, AfterReconcile(t))
    /\ UNCHANGED <<run, begun, logged, mode, boot, drops, crashes>>

\* Triage changed the Issue record since it was read: Conflict, and the request ends.
ApplyConflict(t) ==
    /\ At(t, "apply") /\ Merges
    /\ Unlock /\ Fail(t)
    /\ UNCHANGED <<run, issue, begun, logged, mode, boot, drops, crashes>>

Close(t, i, closure) ==
    /\ At(t, "idle") /\ LockFree
    /\ closure \in IssueTerminal
    /\ issue[i] = closure \/ closure \in IssueNext(issue[i])
    /\ issue' = [issue EXCEPT ![i] = closure]
    /\ lock' = [holder |-> t, next |-> "none", todo |-> RunsOf(i)]
    /\ Set(t, [IdleTask EXCEPT !.op = "close", !.pc = "sweep", !.issue = i, !.then = "end"])
    /\ UNCHANGED <<run, begun, logged, mode, boot, drops, crashes>>

\* cancel_issue_work visits each run once, re-reading it until its write applies.
CancelUnstarted(r) ==
    IF run[r].status \in Unstarted THEN [run EXCEPT ![r].status = "Cancelled"] ELSE run

Sweep(t, r) ==
    /\ At(t, "sweep") /\ r \in lock.todo
    /\ lock' = [lock EXCEPT !.todo = @ \ {r}]
    /\ run' = CancelUnstarted(r)
    /\ UNCHANGED <<issue, begun, logged, mode, task, boot, drops, crashes>>

Swept(t) ==
    /\ At(t, "sweep") /\ lock.todo = {}
    /\ Unlock /\ Set(t, AfterReconcile(t))
    /\ UNCHANGED <<run, issue, begun, logged, mode, boot, drops, crashes>>

-----------------------------------------------------------------------------
(* Requests that end early, crashes, and startup recovery. *)

\* The caller disconnects: the request's future is dropped where it stands.
Drop(t) ==
    /\ Up /\ task[t].pc # "idle"
    /\ drops < MaxDrops /\ drops' = drops + 1
    /\ Fail(t)
    /\ lock' = IF lock.holder = t THEN FreeLock ELSE lock
    /\ UNCHANGED <<run, issue, begun, logged, mode, boot, crashes>>

Crash ==
    /\ crashes < MaxCrashes /\ crashes' = crashes + 1
    /\ task' = [t \in Tasks |-> IdleTask]
    /\ Unlock
    /\ boot' = [Serving EXCEPT !.phase = "down"]
    /\ UNCHANGED <<run, issue, begun, logged, mode, drops>>

\* Recovery starts: Issues already closed are swept first.
BootStart ==
    /\ boot.phase = "down"
    /\ mode' = "Recovering"
    /\ boot' = [Serving EXCEPT !.phase = "sweep",
                !.runs = {r \in Present : ~Live(On(r))}]
    /\ UNCHANGED <<run, issue, begun, logged, task, lock, drops, crashes>>

BootSweep(r) ==
    /\ boot.phase = "sweep" /\ r \in boot.runs
    /\ run' = CancelUnstarted(r)
    /\ boot' = [boot EXCEPT !.runs = @ \ {r}]
    /\ UNCHANGED <<issue, begun, logged, mode, task, lock, drops, crashes>>

\* Fault: what only awaits its verification is left alone.
InterruptedBefore == {"Proposed", "Running"}

\* Statuses a run does not survive a restart in.
Interrupted == {"Proposed", "Running", "Verifying"}

\* Then the unfinished runs and Issues are listed.
BootList ==
    /\ boot.phase = "sweep" /\ boot.runs = {}
    /\ boot' = [Serving EXCEPT !.phase = "runs",
                !.runs = {r \in Present : run[r].status \in Interrupted},
                !.issues = {i \in Issues : Live(i)}]
    /\ UNCHANGED <<run, issue, begun, logged, mode, task, lock, drops, crashes>>

\* Never evaluated: denied.  Started: its outcome is unknown, so it failed.
BootInterrupt(r) ==
    /\ boot.phase = "runs" /\ boot.verified = None /\ r \in boot.runs
    /\ \/ /\ run[r].status = "Proposed"
          /\ run' = [run EXCEPT ![r] = Deny(@)]
       \/ /\ run[r].status = "Running"
          /\ run' = [run EXCEPT ![r] = RecordExecution(@, "failed")]
    /\ boot' = [boot EXCEPT !.runs = @ \ {r}]
    /\ UNCHANGED <<issue, begun, logged, mode, task, lock, drops, crashes>>

\* Awaiting verification: verified now, and its Issue reconciled next.
BootVerify(r) ==
    /\ boot.phase = "runs" /\ boot.verified = None /\ r \in boot.runs
    /\ run[r].status = "Verifying"
    /\ \E evidence \in Findings(r) :
         run' = [run EXCEPT ![r] = RecordVerification(@, evidence)]
    /\ boot' = [boot EXCEPT !.runs = @ \ {r}, !.verified = r]
    /\ UNCHANGED <<issue, begun, logged, mode, task, lock, drops, crashes>>

\* Fault: recovery does not reconcile.
Unreconciled(i) == issue

\* reconcile_issue with nothing else running: one step, and nothing left to sweep.
Reconciled(i) ==
    IF Live(i) /\ DerivedStatus(i) \in IssueNext(issue[i])
    THEN [issue EXCEPT ![i] = DerivedStatus(i)] ELSE issue

BootVerified ==
    /\ boot.phase = "runs" /\ boot.verified # None
    /\ issue' = Reconciled(On(boot.verified))
    /\ boot' = [boot EXCEPT !.verified = None]
    /\ UNCHANGED <<run, begun, logged, mode, task, lock, drops, crashes>>

BootReconcile(i) ==
    /\ boot.phase = "runs" /\ boot.verified = None /\ boot.runs = {} /\ i \in boot.issues
    /\ issue' = Reconciled(i)
    /\ boot' = [boot EXCEPT !.issues = @ \ {i}]
    /\ UNCHANGED <<run, begun, logged, mode, task, lock, drops, crashes>>

\* Recovery ends frozen; resuming is a request like any other.
BootFinish ==
    /\ boot.phase = "runs" /\ boot.verified = None /\ boot.runs = {} /\ boot.issues = {}
    /\ mode' = IF logged = "FullyFrozen" THEN "FullyFrozen" ELSE "DispatchFrozen"
    /\ boot' = Serving
    /\ UNCHANGED <<run, issue, begun, logged, task, lock, drops, crashes>>

-----------------------------------------------------------------------------
\* The passes have completed: every Issue waits for their proposals to be processed.
Init ==
    /\ run = [r \in Runs |-> Absent]
    /\ issue = [i \in Issues |-> "WaitingForHuman"]
    /\ begun = {}
    /\ logged = "Running" /\ mode = "Running"
    /\ task = [t \in Tasks |-> IdleTask]
    /\ lock = FreeLock
    /\ boot = Serving
    /\ drops = 0 /\ crashes = 0

\* What a request does by itself once it is in flight.
Work(t) ==
    \/ Propose(t) \/ Insert(t) \/ Claim(t) \/ Evaluate(t) \/ Settle(t) \/ Approve(t)
    \/ ListQueue(t) \/ Drain(t) \/ Execute(t)
    \/ AdmitRefused(t) \/ Admit(t) \/ AdmitUnimplemented(t) \/ Park(t)
    \/ \E result \in PlatformResults : PlatformReturns(t, result)
    \/ Verify(t) \/ Reconcile(t) \/ Apply(t) \/ ApplyConflict(t)
    \/ (\E r \in Runs : Sweep(t, r)) \/ Swept(t)

\* Requests that arrive.
Request(t) ==
    \/ \E j \in Jobs : BeginPropose(t, j)
    \/ \E r \in Runs : BeginApprove(t, r) \/ Reject(t, r) \/ Review(t, r)
    \/ \E i \in Issues, closure \in IssueTerminal : Close(t, i, closure)
    \/ Resume(t)

Boot ==
    \/ BootStart \/ BootList \/ BootVerified \/ BootFinish
    \/ \E r \in Runs : BootSweep(r) \/ BootInterrupt(r) \/ BootVerify(r)
    \/ \E i \in Issues : BootReconcile(i)

Next ==
    \/ \E t \in Tasks : Work(t) \/ Request(t) \/ Drop(t)
    \/ \E m \in Freezes : Freeze(m)
    \/ Crash \/ Boot

Spec == Init /\ [][Next]_vars

\* The lifecycle lock and the execution locks are fair queues and commands have a time
\* limit, so a request that can move infinitely often does; so does startup.  Nothing is
\* assumed of humans.
Fairness == (\A t \in Tasks : SF_vars(Work(t))) /\ WF_vars(Boot)

FairSpec == Spec /\ Fairness
-----------------------------------------------------------------------------
(* Types, and what a task's program counter says of the rest of its record. *)

Executing == {"admit", "park", "platform", "verify"}
Reconciling == {"reconcile", "apply", "sweep"}
RunPcs == {"insert", "claim", "evaluate", "settle", "approve", "execute"} \cup Executing

TaskType ==
    [op : {"none", "propose", "approve", "reject", "review", "resume", "close"},
     pc : {"idle", "propose", "list", "drain"} \cup RunPcs \cup Reconciling,
     run : Runs \cup {None}, issue : Issues \cup {None},
     seen : RunStatus \cup Approval \cup {"none"},
     then : {"done", "end", "execute", "verify"},
     exec : BOOLEAN, queue : SUBSET Runs]

RunType ==
    [status : RunStatus \cup {"Absent"}, approval : Approval, reviewed : BOOLEAN,
     artifact : BOOLEAN, dryRun : BOOLEAN, evidence : Evidence]

\* A request's program counter tells what it works on, what it read, and whether it holds
\* the execution lock: from the check that its run is Ready until execute_and_verify returns.
TaskOK(rec) ==
    /\ rec.then \in {"execute", "verify"} => rec.pc \in Reconciling
    /\ rec.pc \in RunPcs \/ rec.then \in {"execute", "verify"} => rec.run # None
    /\ rec.pc \in Reconciling => rec.run # None \/ rec.issue # None
    /\ rec.op = "propose" => rec.issue # None
    /\ rec.pc \in {"propose", "insert", "claim", "evaluate", "settle"} => rec.op = "propose"
    /\ rec.pc \in {"list", "drain"} => rec.op = "resume"
    /\ rec.pc = "settle" => rec.seen \in Approval \cup {"WaitingForHuman"}
    /\ rec.pc = "approve" => rec.seen \in Approvable
    /\ rec.exec => rec.pc \in Executing \cup Reconciling /\ rec.then # "execute"
    /\ rec.pc \in Executing \/ rec.then = "verify" => rec.exec

TaskRec == {rec \in TaskType : TaskOK(rec)}

\* The lifecycle lock is held exactly while a request applies or sweeps.
LockOK ==
    /\ lock \in [holder : Tasks \cup {None}, next : IssueStatus \cup {"none"},
                 todo : SUBSET Runs]
    /\ \A t \in Tasks : task[t].pc \in {"apply", "sweep"} <=> lock.holder = t
    /\ \A t \in Tasks : task[t].pc = "apply" => lock.next # "none"

\* Every record is of its type, and each request and the lock are where they should be.
TypeOK ==
    /\ run \in [Runs -> RunType]
    /\ issue \in [Issues -> IssueStatus]
    /\ begun \subseteq Jobs
    /\ logged \in Modes \ {"Recovering"} /\ mode \in Modes
    /\ task \in [Tasks -> TaskRec]
    /\ LockOK
    /\ boot \in [phase : {"up", "down", "sweep", "runs"}, runs : SUBSET Runs,
                 issues : SUBSET Issues, verified : Runs \cup {None}]
    /\ drops \in 0 .. MaxDrops /\ crashes \in 0 .. MaxCrashes

-----------------------------------------------------------------------------
(* Safety. *)

\* A run past its idempotency claim: it may yet run, is running, or succeeded.
Admitted(r) ==
    /\ HoldsClaim(run[r])
    /\ \/ run[r].status # "Proposed"
       \/ \E t \in Tasks : /\ task[t].op = "propose" /\ task[t].run = r
                           /\ task[t].pc \in {"evaluate", "settle"}
                           /\ task[t].pc = "settle" => task[t].seen # "Rejected"

\* Of the runs with one idempotency key at most one is past its claim, however the
\* insertions and claims of concurrent batches, refusals and restarts interleave.
ClaimExclusion ==
    \A r, s \in Runs : KeyOf[r] = KeyOf[s] /\ Admitted(r) /\ Admitted(s) => r = s

\* The Platform never executes two commands with one key at a time: neither two runs, nor
\* one run for two requests (an approval and a drain of the queue).
ExecutingExclusion ==
    \A t, u \in Tasks :
        /\ task[t].pc = "platform" /\ task[u].pc = "platform"
        /\ KeyOf[task[t].run] = KeyOf[task[u].run]
        => t = u

\* Proposals a request has yet to insert.
Pending(t) ==
    IF task[t].op = "propose"
    THEN task[t].queue \cup (IF task[t].pc = "insert" THEN {task[t].run} ELSE {})
    ELSE {}

\* Each proposal is inserted once, by the one request that processes its pass.
InsertedOnce ==
    /\ \A r \in Present : JobOf[r] \in begun
    /\ \A t \in Tasks : \A r \in Pending(t) : r \notin Present /\ JobOf[r] \in begun
    /\ \A t, u \in Tasks : t # u => Pending(t) \cap Pending(u) = {}
    /\ \A t \in Tasks : task[t].pc = "insert" => task[t].run \notin task[t].queue
    /\ \A t \in Tasks : task[t].pc \in {"claim", "evaluate", "settle"} => task[t].run \in Present

\* One request at a time holds a run's execution lock, and the record of a run whose
\* command is at the Platform says so.  Nothing is in flight while the process is down.
ExecutedOnce ==
    /\ \A t, u \in Tasks : task[t].exec /\ task[u].exec /\ task[t].run = task[u].run => t = u
    /\ \A t \in Tasks : task[t].pc = "platform" => run[task[t].run].status = "Running"
    /\ ~Up => \A t \in Tasks : task[t].pc = "idle"

\* The inductive invariant behind ClaimExclusion and ExecutingExclusion.
Exclusion == InsertedOnce /\ ExecutedOnce /\ ClaimExclusion
ExclusionInv == TypeOK /\ Exclusion

\* Nothing starts without the authority's consent: what the matrix denies or cannot
\* classify never does, what it does not allow automatically only once a human approved it.
Started == {"Running", "Verifying", "Succeeded", "Failed", "VerificationFailed"}

Consent ==
    \A r \in Present : run[r].status \in Started \cup {"Ready"} =>
        \/ run[r].approval = "NotRequired" /\ Row[r] = "auto"
        \/ run[r].approval = "Approved" /\ Row[r] \in {"auto", "approve"}

\* Once a closed Issue is swept nothing of it can start any more; a command that asks for
\* a human only afterwards is swept by the reconciliation its result is followed by.
ClosedQuiet ==
    Up /\ LockFree /\ drops = 0 =>
        \A r \in Present : ~Live(On(r)) =>
            /\ run[r].status \notin {"Proposed", "Ready", "WaitingForApproval"}
            /\ run[r].status = "WaitingForHuman" =>
                 \E t \in Tasks : task[t].pc = "reconcile" /\ task[t].run = r

\* No run ends unseen: a refused, failed or cancelled one waits in an inbox until a human
\* reviewed it, unless its Issue was closed.
EndsInInbox ==
    \A r \in Present : run[r].status \in RunTerminal \ {"Succeeded"} =>
        RunNeedsReview(run[r]) \/ run[r].reviewed \/ ~Live(On(r))

\* No update of an Issue is lost: whenever its work implies a status it may move to, a
\* request that will reconcile it is in flight.
NoReconcileLost ==
    Up /\ drops = 0 =>
        \A i \in Issues : Live(i) /\ DerivedStatus(i) \in IssueNext(issue[i]) =>
            \E t \in Tasks : task[t].pc # "idle" /\ Target(t) = i

-----------------------------------------------------------------------------
(* What a step may never do. *)

\* Every write moves its run and its Issue along their status machines: no code path writes
\* over a status that changed since it was read, and none fails on an illegal transition.
AlongTheMachines ==
    [][/\ \A r \in Present : run'[r].status # run[r].status =>
                               run'[r].status \in RunNext(run[r].status)
       /\ \A i \in Issues : issue'[i] # issue[i] => issue'[i] \in IssueNext(issue[i])]_vars

\* Reconciliation resolves an Issue only while every proposal of every pass of it has its
\* run, and every run ended and was reviewed where it must be, although the decision was
\* made on an earlier read.
ResolvedWhenSettled ==
    [][\A i \in Issues :
         /\ issue'[i] = "Resolved" /\ issue[i] # "Resolved"
         /\ ~\E t \in Tasks : Close(t, i, "Resolved")
         => \A r \in Runs : On(r) = i =>
                run'[r].status \in RunTerminal /\ ~RunNeedsReview(run'[r])]_vars

-----------------------------------------------------------------------------
(* Progress, under FairSpec. *)

\* A started run is settled: no run stays Running or Verifying with nobody responsible.
RunsSettle ==
    \A r \in Runs : run[r].status \in {"Running", "Verifying"}
                      ~> run[r].status \notin {"Running", "Verifying"}

\* Every request ends: none waits for ever for the lifecycle lock, an execution lock or
\* another request.
RequestsEnd == \A t \in Tasks : task[t].pc # "idle" ~> task[t].pc = "idle"
=============================================================================
