----------------------------- MODULE PassChain -----------------------------
(***************************************************************************)
(* The investigation of one Issue as a chain of passes.  A pass is a Job   *)
(* over one Snapshot: it is dispatched, run by a Team, completed by the    *)
(* Team's final callback, and followed - by a superseding pass with more   *)
(* evidence, by a follow-up once its proposals have run, or by a revision  *)
(* a human asked for.  The runner drives the chain, the Scheduler records  *)
(* each step, humans decide, close and freeze meanwhile, requests are      *)
(* dropped and the controller restarts.                                    *)
(*                                                                         *)
(* A request is a task with a program counter.  What the Scheduler does    *)
(* under its lifecycle lock is one step, and what the action gateway does  *)
(* with one proposal is one step too (ActionGateway takes it apart); each  *)
(* has a second form for the case that it is cut off between two of its    *)
(* store operations, by an error, a dropped request or a crash.            *)
(***************************************************************************)
EXTENDS Lifecycle, Naturals, FiniteSets

CONSTANTS
    Tasks,         \* requests that may be in flight at once
    MaxPasses,     \* bound: passes of the Issue
    MaxAuto,       \* max_auto_passes of the pass policy
    MaxProposals,  \* bound: proposals of one pass
    Results,       \* final results a Team may deliver
    Rows,          \* what the authority matrix may say of a proposal
    Effects,       \* how an execution with its verification may end
    Closings,      \* how a human may close the Issue
    Freezes,       \* modes a human freezes the Scheduler to
    MaxFaults,     \* bound: writes cut off, requests dropped or failing, and crashes
    FaultyPasses   \* bound: passes of an Issue that meets one of these

Passes == 1 .. MaxPasses
Proposals == 1 .. MaxProposals
Items == 0 .. MaxProposals  \* what a review is about: a run of the pass, or (0) the pass

ASSUME ChainConstants ==
    /\ MaxPasses \in Nat \ {0} /\ MaxAuto \in Nat \ {0} /\ MaxProposals \in Nat
    /\ Results \subseteq [outcome : JobOutcome, follow : BOOLEAN, proposes : 0 .. MaxProposals]
    /\ Rows \subseteq {"auto", "approve", "deny", "unimplemented"}
    /\ Effects \subseteq {"Strong", "Weak", "DryRun", "Failed", "VerificationFailed"}
    /\ Freezes \subseteq {"DispatchFrozen", "FullyFrozen"}
    /\ Closings \subseteq IssueTerminal
    /\ MaxFaults \in Nat /\ FaultyPasses \in Nat

VARIABLES
    job,       \* [Passes -> Job record] in creation order, persisted
    run,       \* [Passes -> [Proposals -> ActionRun record]], persisted
    issue,     \* IssueStatus, or "Absent" before the report, persisted
    mode,      \* the Scheduler's mode; while down, the mode the log tells
    up,        \* whether the controller serves requests
    task,      \* the requests in flight
    faults,    \* how many of the bounded faults happened
    cut        \* auxiliary: what requests that were cut off left undone

vars == <<job, run, issue, mode, up, task, faults, cut>>

\* A pass that does not exist yet.
NoPass == [status |-> "Absent", outcome |-> "None", follow |-> FALSE, proposes |-> 0,
           budget |-> 0, from |-> 0, why |-> "none", item |-> 0, reviewed |-> FALSE,
           begun |-> FALSE, heard |-> FALSE]

NoRun == [status |-> "Absent", approval |-> "Unevaluated", reviewed |-> FALSE,
          artifact |-> FALSE, dryRun |-> FALSE, evidence |-> "None"]

NoResult == [outcome |-> "None", follow |-> FALSE, proposes |-> 0]
NoBrief == [why |-> "none", from |-> 0, budget |-> 0, item |-> 0]

Idle == [op |-> "none", pc |-> "idle", pass |-> 0, brief |-> NoBrief, result |-> NoResult,
         todo |-> {}, seen |-> {}, queue |-> {}]

\* sweep: the work of a closed Issue is not all cancelled; status: the Issue was not reconciled
\* with what was written; lost: passes whose failure was not recorded.
NothingCut == [sweep |-> FALSE, status |-> FALSE, lost |-> {}]

-----------------------------------------------------------------------------
(* What the store answers. *)

Exist == {p \in Passes : job[p].status # "Absent"}
NextPass == Cardinality(Exist) + 1
LatestPass == Cardinality(Exist)
Room == NextPass \in Passes /\ (faults # 0 => NextPass <= FaultyPasses)

Closed == issue \in IssueTerminal
Ended(p) == job[p].status \in JobTerminal
RunsOf(p) == {x \in Proposals : run[p][x].status # "Absent"}

\* It reached the Platform, and ran well or badly.
WasExecuted(status) == status \in {"Succeeded", "Failed", "VerificationFailed"}

\* Every proposal of the pass has its ActionRun.
Materialized(jobs, runs, p) ==
    \A x \in 1 .. jobs[p].proposes : runs[p][x].status # "Absent"

PassIn(jobs, runs, p) ==
    [status |-> jobs[p].status, outcome |-> jobs[p].outcome, reviewed |-> jobs[p].reviewed,
     followUp |-> jobs[p].follow, materialized |-> Materialized(jobs, runs, p),
     latest |-> \A q \in Passes : jobs[q].status # "Absent" => q <= p]

\* What the Issue's passes and runs imply.
DerivedFrom(jobs, runs) ==
    LET there == {p \in Passes : jobs[p].status # "Absent"}
        acted == {pr \in there \X Proposals : runs[pr[1]][pr[2]].status # "Absent"}
    IN DerivedIssueStatus({PassIn(jobs, runs, p) : p \in there},
                          {runs[pr[1]][pr[2]] : pr \in acted},
                          \E pr \in acted : /\ \A q \in there : q <= pr[1]
                                            /\ IsRemediation(runs[pr[1]][pr[2]], TRUE))

\* cancel_issue_work: of these, owned Jobs and what has not started.
CancelledJobs(jobs, some) ==
    [p \in Passes |->
        IF p \in some /\ jobs[p].status \in JobStatus \ JobTerminal
        THEN [jobs[p] EXCEPT !.status = "Cancelled"] ELSE jobs[p]]

CancelledRuns(runs, some) ==
    [p \in Passes |-> [x \in Proposals |->
        IF /\ <<p, x>> \in some
           /\ runs[p][x].status \in {"Proposed", "Ready", "WaitingForApproval", "WaitingForHuman"}
        THEN [runs[p][x] EXCEPT !.status = "Cancelled"] ELSE runs[p][x]]]

\* The Issue is written, and swept when that ended it: nothing is left undone.
Commit(jobs, runs, status) ==
    /\ issue' = status
    /\ job' = IF status \in IssueTerminal THEN CancelledJobs(jobs, Passes) ELSE jobs
    /\ run' = IF status \in IssueTerminal THEN CancelledRuns(runs, Passes \X Proposals) ELSE runs
    /\ cut' = [cut EXCEPT !.sweep = @ /\ status \notin IssueTerminal,
                          !.status = @ /\ status # DerivedFrom(jobs, runs)]

\* The Issue is written, and its sweep is cut off: Jobs come first, one by one, then runs.
CommitCutOff(jobs, runs, status) ==
    /\ status \in IssueTerminal
    /\ issue' = status
    /\ \E js \in SUBSET Passes, xs \in SUBSET (Passes \X Proposals) :
          /\ xs # {} => js = Passes
          /\ job' = CancelledJobs(jobs, js) /\ run' = CancelledRuns(runs, xs)
    /\ cut' = [cut EXCEPT !.sweep = TRUE]

\* Where reconcile_issue takes an Issue of the given status; out of reach, it stays.
Follows(status, jobs, runs) ==
    LET next == DerivedFrom(jobs, runs)
    IN IF next \in IssueNext(status) THEN next ELSE status

\* Fault: the records are written, and the Issue left as it was.
Unreconciled(jobs, runs) == Commit(jobs, runs, issue)

\* reconcile_issue over the given records, under the lifecycle lock.
Reconciled(jobs, runs) ==
    Commit(jobs, runs, Follows(issue, jobs, runs))

\* Two reconciliations, the first over the records as they are in between.
ReconciledTwice(between, jobs, runs) ==
    Commit(jobs, runs, Follows(Follows(issue, jobs, between), jobs, runs))

\* A handler is cut off with these records written and the Issue in this status, which is not
\* reconciled with them, or not to the end.
CutIn(jobs, runs, status) ==
    \/ /\ job' = jobs /\ run' = runs /\ issue' = status
       /\ cut' = [cut EXCEPT !.status = TRUE]
    \/ CommitCutOff(jobs, runs, Follows(status, jobs, runs))

-----------------------------------------------------------------------------
(* Moving a request along. *)

At(t, pc) == up /\ task[t].pc = pc
Set(t, rec) == task' = [task EXCEPT ![t] = rec]
Goto(t, pc) == Set(t, [task[t] EXCEPT !.pc = pc])

\* An error ends the request; its `?` drops the guards it holds.
Fail(t) == Set(t, Idle)

\* The chain has ended: a drain goes on with its queue, another request is answered.
Finish(t) ==
    IF task[t].op = "resume"
    THEN Set(t, [Idle EXCEPT !.op = "resume", !.pc = "drain", !.queue = task[t].queue])
    ELSE Fail(t)

Busy(ops) == \E t \in Tasks : task[t].op \in ops

\* review_lock is held for the whole request, queue_lock for the whole drain.
ReviewFree == ~Busy({"review", "comment"})
DrainFree == ~Busy({"resume"})

\* follow_up_lock is held from the check until the follow-up is dispatched.
FollowUpFree ==
    ~\E t \in Tasks : /\ task[t].brief.why = "settled"
                      /\ task[t].pc \in {"create"}

Same == UNCHANGED <<mode, up, faults>>

\* One of the bounded faults happens.
Fault == faults < MaxFaults /\ LatestPass <= FaultyPasses /\ faults' = faults + 1

\* The RunningJobGuard is alive: from the registration of the run to the Team's return, which
\* may be before or after what comes next is decided.
Guarded(t) == task[t].pc \in {"team", "apply"}
MayBeGuarded(t) == Guarded(t) \/ task[t].pc = "drive"

\* Somebody is running the pass, or is about to.
Carried(p) == \E t \in Tasks : task[t].pass = p /\ task[t].pc # "idle"

\* What the guard of a dropped run leaves: a small task of its own.
Abandoning(p) == [Idle EXCEPT !.op = "abandon", !.pc = "abandon", !.pass = p]

\* Fault: the future goes away, and nothing is left to clean up.
GuardForgets(t) == {Idle}

\* What is left of a request that goes away where it stands.
GuardDropped(t) ==
    IF Guarded(t) THEN {Abandoning(task[t].pass)}
    ELSE IF MayBeGuarded(t) THEN {Abandoning(task[t].pass), Idle} ELSE {Idle}

Dropped(t) == up' = up /\ \E left \in GuardDropped(t) : Set(t, left)

Dies == up' = FALSE /\ task' = [t \in Tasks |-> Idle]

\* A request is cut off: an error ends it, its caller drops it, or the process dies.
CutOff(t) == Dropped(t) \/ Dies
-----------------------------------------------------------------------------
(* Dispatch: dispatch_job and create_job. *)

Init ==
    /\ job = [p \in Passes |-> NoPass]
    /\ run = [p \in Passes |-> [x \in Proposals |-> NoRun]]
    /\ issue = "Absent" /\ mode = "Running" /\ up = TRUE
    /\ task = [t \in Tasks |-> Idle]
    /\ faults = 0 /\ cut = NothingCut

\* What a pass a human asked for may be followed by.
FreshBudget == MaxAuto - 1

\* A human report becomes an Issue even while dispatch is frozen; its first pass only otherwise.
Report(t) ==
    /\ At(t, "idle") /\ issue = "Absent"
    /\ issue' = "Open"
    /\ IF mode = "Running"
       THEN Set(t, [Idle EXCEPT !.op = "report", !.pc = "create",
                                !.brief = [NoBrief EXCEPT !.why = "report", !.budget = FreshBudget]])
       ELSE UNCHANGED task
    /\ Same /\ UNCHANGED <<job, run, cut>>

\* The task with its new pass: a review is recorded first, any other pass runs.
Dispatched(r, p) ==
    IF r.brief.why = "review" THEN [r EXCEPT !.pc = "record", !.pass = p]
    ELSE [r EXCEPT !.pc = "run", !.pass = p, !.brief = NoBrief]

NewPass(brief) ==
    [NoPass EXCEPT !.status = "Running", !.budget = brief.budget, !.from = brief.from,
                   !.why = brief.why, !.item = brief.item]

Inserted(brief) == [job EXCEPT ![NextPass] = NewPass(brief)]

\* Fault: only the mode is looked at again.
AdmitsAnyIssue == mode = "Running"

\* dispatch_job: whoever asks has seen the Scheduler running; a Snapshot View takes its time
\* to build, and create_job takes the lifecycle lock and looks again.
Admits == mode = "Running" /\ ~Closed

Create(t) ==
    /\ At(t, "create") /\ Room
    /\ IF Admits
       THEN /\ job' = Inserted(task[t].brief)
            /\ issue' = IF "Investigating" \in IssueNext(issue) THEN "Investigating" ELSE issue
            /\ Set(t, Dispatched(task[t], NextPass))
       ELSE Fail(t) /\ UNCHANGED <<job, issue>>
    /\ Same /\ UNCHANGED <<run, cut>>

\* The Job exists and runs before its Issue says so, and triage writes Issues without the
\* lifecycle lock: that write ends in a conflict, or the request is cut off before it.
CreateInterrupted(t) ==
    /\ At(t, "create") /\ Room /\ Admits /\ Fault
    /\ job' = Inserted(task[t].brief)
    /\ CutOff(t)
    /\ UNCHANGED <<run, issue, mode, cut>>

-----------------------------------------------------------------------------
(* One pass: run_team and handle_callback. *)

\* Neither the Issue nor the Job ended since the dispatch.
StillWanted(p) == ~Closed /\ ~Ended(p)

\* The run is registered, then the Issue and the Job are read again.
Run(t) ==
    LET p == task[t].pass IN
    /\ At(t, "run")
    /\ IF StillWanted(p)
       THEN job' = [job EXCEPT ![p].begun = TRUE] /\ Goto(t, "team")
       ELSE /\ job' = IF Ended(p) THEN job ELSE [job EXCEPT ![p].status = "Cancelled"]
            /\ Goto(t, "drive")
    /\ Same /\ UNCHANGED <<run, issue, cut>>

\* The Team delivers the final callback: it is refused for a terminal Job, cancels the Job of
\* a closed Issue, and is logged otherwise.  A refusal is the Team's error, and run_team finds
\* the Job ended.
Deliver(t) ==
    LET p == task[t].pass IN
    /\ At(t, "team")
    /\ \/ /\ StillWanted(p)
          /\ \E r \in Results : Set(t, [task[t] EXCEPT !.pc = "apply", !.result = r])
          /\ job' = [job EXCEPT ![p].heard = TRUE]
       \/ /\ ~StillWanted(p)
          /\ job' = IF Ended(p) THEN job ELSE [job EXCEPT ![p].status = "Cancelled"]
          /\ Goto(t, "drive")
    /\ Same /\ UNCHANGED <<run, issue, cut>>

\* The Team ends in an error, or too long after its cancellation: the guard is finished, and
\* run_team ends the Job itself.
TeamFails(t) ==
    /\ At(t, "team") /\ Goto(t, "fallback")
    /\ Same /\ UNCHANGED <<job, run, issue, cut>>

\* A claim of success stands when something on the Issue was remediated for real (and, not
\* modelled, everything touched is healthy in the pass's Snapshot).
Clamped(r) ==
    IF /\ r.outcome = "Solved"
       /\ ~\E p \in Exist, x \in Proposals : IsRemediation(run[p][x], TRUE)
    THEN [r EXCEPT !.outcome = "DiagnosisOnly"] ELSE r

Completed(j, r) ==
    [j EXCEPT !.status = StatusOfOutcome(r.outcome), !.outcome = r.outcome, !.follow = r.follow,
              !.proposes = r.proposes]

\* Fault: the result is written whatever became of the Job.
Unfinished(p) == TRUE

\* The Job is as the callback read it.
Unchanged(p) == job[p].status = "Running"

WithResult(p, r) == [job EXCEPT ![p] = Completed(@, r)]

\* The result is recorded by compare-and-set; a conflict is the Team's error.
Apply(t) ==
    LET p == task[t].pass IN
    /\ At(t, "apply")
    /\ IF Unchanged(p)
       THEN /\ Reconciled(WithResult(p, Clamped(task[t].result)), run)
            /\ Set(t, [task[t] EXCEPT !.pc = "drive", !.result = NoResult])
       ELSE /\ Set(t, [task[t] EXCEPT !.pc = "fallback", !.result = NoResult])
            /\ UNCHANGED <<job, run, issue, cut>>
    /\ Same

\* Nobody guards the Job any more: run_team looks whether it ended, and delivers a failure in
\* the Team's place, which looks again.
Fallback(t) ==
    LET p == task[t].pass IN
    /\ At(t, "fallback")
    /\ IF Ended(p) THEN (Goto(t, "drive") \/ Fail(t)) /\ UNCHANGED job
       ELSE IF Closed THEN job' = [job EXCEPT ![p].status = "Cancelled"] /\ Fail(t)
       ELSE job' = [job EXCEPT ![p].heard = TRUE] /\ Goto(t, "late")
    /\ Same /\ UNCHANGED <<run, issue, cut>>

Failure == [NoResult EXCEPT !.outcome = "Failed"]

\* The Job may still fail: the Team's result may have been written before its error.
MayFail(p) == "Failed" \in JobNext(job[p].status)

\* The failure is recorded, if the Job is as it was; an error here is the request's.
Late(t) ==
    LET p == task[t].pass IN
    /\ At(t, "late")
    /\ IF MayFail(p) THEN Reconciled(WithResult(p, Failure), run) /\ Goto(t, "drive")
       ELSE Fail(t) /\ UNCHANGED <<job, run, issue, cut>>
    /\ Same
-----------------------------------------------------------------------------
(* The chain: drive_passes. *)

\* No further automatic pass is granted after this one.
Exhausted(p) == job[p].budget = 0

\* What comes after a pass.
Drive(t) ==
    LET p == task[t].pass
        more == job[p].outcome = "NeedsMoreData"
    IN
    /\ At(t, "drive")
    /\ IF Closed
       THEN job' = (IF Ended(p) THEN job ELSE [job EXCEPT ![p].status = "Cancelled"])
       ELSE UNCHANGED job
    /\ CASE ~Closed /\ more /\ ~Exhausted(p) /\ mode = "Running" -> Goto(t, "supersede")
         [] ~Closed /\ job[p].outcome \in {"Solved", "DiagnosisOnly"} ->
                Set(t, [task[t] EXCEPT !.pc = "propose", !.todo = 1 .. job[p].proposes,
                                       !.seen = {}])
         [] OTHER -> Finish(t)
    /\ Same /\ UNCHANGED <<run, issue, cut>>

\* Fault: the successor starts with the budget of its predecessor.
SameBudget(p) == job[p].budget

\* What is left after one more automatic pass.
OneLess(p) == job[p].budget - 1

\* What a superseding pass is told.
Probe(p) == [why |-> "probe", from |-> p, budget |-> OneLess(p), item |-> 0]

Superseded(jobs, p) == [jobs EXCEPT ![p].status = "Superseded"]

\* Once the new Snapshot is captured: under the lock the old Job is superseded, then its
\* successor inserted.
Supersede(t) ==
    LET p == task[t].pass IN
    /\ At(t, "supersede") /\ Room
    /\ IF Admits /\ ~Ended(p)
       THEN /\ job' = Superseded(Inserted(Probe(p)), p)
            /\ Set(t, [task[t] EXCEPT !.pc = "run", !.pass = NextPass])
       ELSE Fail(t) /\ UNCHANGED job
    /\ Same /\ UNCHANGED <<run, issue, cut>>

\* It is cut off between the two.
SupersedeInterrupted(t) ==
    LET p == task[t].pass IN
    /\ At(t, "supersede") /\ Admits /\ ~Ended(p) /\ Fault
    /\ job' = Superseded(job, p)
    /\ CutOff(t)
    /\ UNCHANGED <<run, issue, mode, cut>>

-----------------------------------------------------------------------------
(* The proposals of a pass: run_proposals, and what follows them. *)

NewRun == [NoRun EXCEPT !.status = "Proposed"]

\* What the gateway makes of a proposal before anything executes.
Decided(row) ==
    CASE row = "auto" -> [NewRun EXCEPT !.status = "Ready", !.approval = "NotRequired"]
      [] row = "approve" -> [NewRun EXCEPT !.status = "WaitingForApproval", !.approval = "Pending"]
      [] row = "unimplemented" -> [NewRun EXCEPT !.status = "WaitingForHuman"]
      [] OTHER -> [NewRun EXCEPT !.status = "Cancelled", !.approval = "Rejected"]

\* A run once it was executed ("None": not yet verified) and verified.
Settled(r, effect) ==
    IF effect \in {"Failed", "VerificationFailed"} THEN [r EXCEPT !.status = effect]
    ELSE IF effect = "None" THEN [r EXCEPT !.status = "Verifying"]
    ELSE [r EXCEPT !.status = "Succeeded", !.evidence = effect, !.dryRun = effect = "DryRun"]

First(todo) == CHOOSE x \in todo : \A y \in todo : x <= y

WithRun(p, x, r) == [run EXCEPT ![p][x] = r]

\* create_action_run for the next proposal; refused while frozen and for a closed Issue.
Propose(t) ==
    LET p == task[t].pass
        x == First(task[t].todo)
    IN
    /\ At(t, "propose") /\ task[t].todo # {}
    /\ IF mode = "FullyFrozen" \/ Closed
       THEN Fail(t) /\ UNCHANGED <<job, run, issue, cut>>
       ELSE \E row \in Rows :
              /\ Reconciled(job, WithRun(p, x, Decided(row)))
              /\ IF row = "auto" THEN Goto(t, "execute")
                 ELSE Set(t, [task[t] EXCEPT !.todo = @ \ {x}, !.seen = @ \cup {Decided(row).status}])
    /\ Same

\* follow_up_stop: the pass wants to go on, everything of it has settled, and something ran.
GoesOn(t) ==
    LET p == task[t].pass IN
    /\ task[t].seen \cap {"WaitingForHuman", "Ready", "WaitingForApproval"} = {}
    /\ task[t].seen # {} /\ job[p].follow
    /\ \E s \in task[t].seen : WasExecuted(s)
    /\ ~Exhausted(p) /\ mode = "Running"

\* The proposals are through.
Stop(t) ==
    LET p == task[t].pass IN
    /\ At(t, "propose") /\ task[t].todo = {}
    /\ Reconciled(job, run)
    /\ IF GoesOn(t)
       THEN Set(t, [task[t] EXCEPT !.pc = "create", !.seen = {}, !.brief =
                       [why |-> "follow", from |-> p, budget |-> OneLess(p), item |-> 0]])
       ELSE Finish(t)
    /\ Same

\* A request that executes one given run, rather than the proposals of its pass.
ForOneRun(t) == task[t].op \in {"approve", "resume"} /\ task[t].brief.item # 0

\* The run a request executes: the first proposal left, the approved one, or one of the queue.
Target(t) ==
    IF ForOneRun(t)
    THEN <<task[t].brief.from, task[t].brief.item>>
    ELSE <<task[t].pass, First(task[t].todo)>>

\* With the run's status in hand: the next proposal, the follow-up, or the end of a drain.
Executed(t, status) ==
    IF ~ForOneRun(t)
    THEN Set(t, [task[t] EXCEPT !.pc = "propose", !.todo = @ \ {First(@)}, !.seen = @ \cup {status}])
    ELSE IF task[t].op = "resume" /\ status = "Ready" THEN Fail(t)
    ELSE Goto(t, "settled")

\* The result of the command; a verification follows when it went well.
Returned(r, effect) == Settled(r, IF effect = "Failed" THEN effect ELSE "None")

\* execute_and_verify: only a Ready run, not while frozen, and not for a closed Issue.
Execute(t) ==
    LET p == Target(t)[1]
        x == Target(t)[2]
        r == run[p][x]
    IN
    /\ At(t, "execute")
    /\ IF r.status # "Ready" \/ mode = "FullyFrozen"
       THEN Executed(t, r.status) /\ UNCHANGED <<job, run, issue, cut>>
       ELSE IF Closed THEN Fail(t) /\ UNCHANGED <<job, run, issue, cut>>
       ELSE \E effect \in Effects :
              /\ ReconciledTwice(WithRun(p, x, Returned(r, effect)),
                                 job, WithRun(p, x, Settled(r, effect)))
              /\ Executed(t, Settled(r, effect).status)
    /\ Same

\* Fault: nobody asks whether the pass was continued before.
NotAsked(p) == FALSE

\* A follow-up of the pass exists.
Continued(p) == \E q \in Exist : job[q].from = p /\ job[q].why \in {"follow", "settled"}

\* follow_up_after_approval: every proposal of the pass has its run, each has settled, one
\* was executed, and nobody continued the pass yet.
Resumable(p) ==
    /\ ~Closed /\ job[p].follow /\ ~Exhausted(p)
    /\ Materialized(job, run, p)
    /\ \A x \in RunsOf(p) : run[p][x].status \in RunTerminal
    /\ \E x \in RunsOf(p) : WasExecuted(run[p][x].status)
    /\ ~Continued(p) /\ mode = "Running"

FollowUp(t) ==
    LET p == task[t].brief.from IN
    /\ At(t, "settled") /\ FollowUpFree
    /\ IF Resumable(p)
       THEN Set(t, [task[t] EXCEPT !.pc = "create", !.brief =
                       [why |-> "settled", from |-> p, budget |-> OneLess(p), item |-> 0]])
       ELSE Finish(t)
    /\ Same /\ UNCHANGED <<job, run, issue, cut>>

-----------------------------------------------------------------------------
(* What humans do. *)

Held(p, x) == run[p][x].status = "WaitingForApproval"
WithApproval(p, x) == [run EXCEPT ![p][x].status = "Ready", ![p][x].approval = "Approved"]
WithRejection(p, x) == [run EXCEPT ![p][x].status = "Cancelled", ![p][x].approval = "Rejected"]

\* An approval of a held run: recorded, reconciled, then executed.
Approve(t) ==
    /\ At(t, "idle") /\ ~Closed
    /\ \E p \in Exist : \E x \in RunsOf(p) :
          /\ Held(p, x)
          /\ Reconciled(job, WithApproval(p, x))
          /\ Set(t, [Idle EXCEPT !.op = "approve", !.pc = "execute",
                                 !.brief = [NoBrief EXCEPT !.from = p, !.item = x]])
    /\ Same

Reject ==
    /\ up
    /\ \E p \in Exist : \E x \in RunsOf(p) : Held(p, x) /\ Reconciled(job, WithRejection(p, x))
    /\ UNCHANGED <<mode, up, task, faults>>

\* The item waits for a human's review: a pass, or one of its runs.
NeedsReview(p, item) ==
    IF item = 0 THEN JobNeedsReview(job[p])
    ELSE item \in RunsOf(p) /\ RunNeedsReview(run[p][item])

\* A run that is blocked on a human ends with its review.
AfterReview(r) ==
    [r EXCEPT !.reviewed = TRUE, !.status = IF @ = "WaitingForHuman" THEN "Cancelled" ELSE @]

JobReviewed(p, item) == IF item = 0 THEN [job EXCEPT ![p].reviewed = TRUE] ELSE job
RunReviewed(p, item) == IF item = 0 THEN run ELSE [run EXCEPT ![p][item] = AfterReview(@)]

\* The review is recorded on the item, and the Issue reconciled.
Reviewed(p, item) == Reconciled(JobReviewed(p, item), RunReviewed(p, item))

\* review_lock is taken for an acknowledgement as well.
Acknowledge ==
    /\ up /\ ReviewFree
    /\ \E p \in Exist, item \in Items : NeedsReview(p, item) /\ Reviewed(p, item)
    /\ UNCHANGED <<mode, up, task, faults>>

\* Sent upstream: a fresh Snapshot, a revising Job, and only then the review.
SendUpstream(t) ==
    /\ At(t, "idle") /\ ReviewFree /\ mode = "Running" /\ ~Closed
    /\ \E p \in Exist, item \in Items :
          /\ NeedsReview(p, item)
          /\ Set(t, [Idle EXCEPT !.op = "review", !.pc = "create",
                        !.brief = [why |-> "review", from |-> p, budget |-> FreshBudget,
                                   item |-> item]])
    /\ Same /\ UNCHANGED <<job, run, issue, cut>>

\* The review names the revising Job; the item may have been decided meanwhile.
Record(t) ==
    LET b == task[t].brief IN
    /\ At(t, "record")
    /\ IF NeedsReview(b.from, b.item)
       THEN /\ Reviewed(b.from, b.item)
            /\ Set(t, [task[t] EXCEPT !.pc = "run", !.brief = NoBrief])
       ELSE Fail(t) /\ UNCHANGED <<job, run, issue, cut>>
    /\ Same

\* The inbox holds a decision for a run or a pass.
DecisionPending ==
    \/ \E p \in Exist : JobNeedsReview(job[p])
    \/ \E p \in Exist : \E x \in RunsOf(p) :
          RunNeedsReview(run[p][x]) \/ run[p][x].status \in {"Ready", "WaitingForApproval"}

\* The Issue awaits a comment on its latest pass.
AwaitsInput ==
    /\ issue = "WaitingForHuman" /\ ~DecisionPending
    /\ LatestPass \in Exist /\ job[LatestPass].status = "Completed"

\* A comment on the pass its author saw, which must be the one that waits.
Comment(t) ==
    /\ At(t, "idle") /\ ReviewFree /\ mode = "Running" /\ AwaitsInput
    /\ Set(t, [Idle EXCEPT !.op = "comment", !.pc = "create",
                  !.brief = [why |-> "comment", from |-> LatestPass, budget |-> FreshBudget,
                             item |-> 0]])
    /\ Same /\ UNCHANGED <<job, run, issue, cut>>

\* Closing needs a legal transition and takes the lifecycle lock; a repeat sweeps again.
MayClose(outcome) == issue # "Absent" /\ outcome \in IssueNext(issue) \cup {issue}

Close ==
    /\ up
    /\ \E outcome \in Closings : MayClose(outcome) /\ Commit(job, run, outcome)
    /\ UNCHANGED <<mode, up, task, faults>>

Freeze ==
    /\ up /\ mode' \in Freezes /\ mode' # mode
    /\ UNCHANGED <<job, run, issue, up, task, faults, cut>>

\* Dispatch resumes, and the queue of Ready runs is drained.
Resume(t) ==
    /\ At(t, "idle") /\ DrainFree
    /\ mode' = "Running"
    /\ LET queue == {pr \in Exist \X Proposals : run[pr[1]][pr[2]].status = "Ready"}
       IN Set(t, IF queue = {} THEN Idle
                 ELSE [Idle EXCEPT !.op = "resume", !.pc = "drain", !.queue = queue])
    /\ UNCHANGED <<job, run, issue, up, faults, cut>>

\* The next run of the queue, in order of creation.
Drain(t) ==
    /\ At(t, "drain")
    /\ IF task[t].queue = {} THEN Fail(t)
       ELSE \E pr \in task[t].queue :
              /\ \A o \in task[t].queue : pr[1] < o[1] \/ (pr[1] = o[1] /\ pr[2] <= o[2])
              /\ Set(t, [task[t] EXCEPT !.pc = "execute", !.queue = @ \ {pr},
                                        !.brief = [NoBrief EXCEPT !.from = pr[1], !.item = pr[2]]])
    /\ Same /\ UNCHANGED <<job, run, issue, cut>>
-----------------------------------------------------------------------------
(* Errors, dropped requests, restarts. *)

\* What keeps a started pass from being lost is gone: it ends here, or with its process.
Losing(t) == task[t].pc \in {"fallback", "late", "abandon"}

\* A request is dropped or fails where it stands, and its locks go with it.
Drop(t) ==
    /\ up /\ task[t].pc # "idle" /\ Fault
    /\ Dropped(t)
    /\ cut' = [cut EXCEPT !.lost = IF Losing(t) THEN @ \cup {task[t].pass} ELSE @]
    /\ UNCHANGED <<job, run, issue, mode>>

WithCancel(p) == IF Ended(p) THEN job ELSE [job EXCEPT ![p].status = "Cancelled"]

\* cancel_job_record, then a reconciliation.
Abandon(t) ==
    /\ At(t, "abandon")
    /\ Reconciled(WithCancel(task[t].pass), run)
    /\ Fail(t)
    /\ Same

\* A proposal is inserted, and then decided.
ProposalCutIn(p, x) ==
    \E r \in {NewRun} \cup {Decided(row) : row \in Rows} : CutIn(job, WithRun(p, x, r), issue)

\* A run is started; has its result; and where that went well, the Issue is reconciled with
\* it, and the run verified.
RunCutIn(p, x) ==
    LET r == run[p][x]
        begun == Follows(issue, job, WithRun(p, x, Settled(r, "None")))
    IN \/ CutIn(job, WithRun(p, x, [r EXCEPT !.status = "Running"]), issue)
       \/ \E effect \in Effects : CutIn(job, WithRun(p, x, Returned(r, effect)), issue)
       \/ \E effect \in Effects \ {"Failed"} : \E verdict \in {"None", effect} :
             CutIn(job, WithRun(p, x, Settled(r, verdict)), begun)

\* What a request has written when it is cut off before its reconciliation or in it.
HalfWritten(t) ==
    LET p == task[t].pass
        b == task[t].brief
        p1 == Target(t)[1]
        x1 == Target(t)[2]
    IN \/ /\ task[t].pc = "apply" /\ Unchanged(p)
          /\ CutIn(WithResult(p, Clamped(task[t].result)), run, issue)
       \/ /\ task[t].pc = "late" /\ MayFail(p)
          /\ CutIn(WithResult(p, Failure), run, issue)
       \/ /\ task[t].pc = "propose" /\ task[t].todo # {} /\ mode # "FullyFrozen" /\ ~Closed
          /\ ProposalCutIn(p, First(task[t].todo))
       \/ task[t].pc = "propose" /\ task[t].todo = {} /\ CutIn(job, run, issue)
       \/ /\ task[t].pc = "execute" /\ mode # "FullyFrozen" /\ ~Closed
          /\ run[p1][x1].status = "Ready" /\ RunCutIn(p1, x1)
       \/ /\ task[t].pc = "record" /\ NeedsReview(b.from, b.item)
          /\ CutIn(JobReviewed(b.from, b.item), RunReviewed(b.from, b.item), issue)
       \/ task[t].pc = "abandon" /\ CutIn(WithCancel(p), run, issue)

\* The request is cut off there; where only the Team's call failed, run_team goes on.
WriteInterrupted(t) ==
    /\ up /\ Fault
    /\ HalfWritten(t)
    /\ \/ CutOff(t)
       \/ /\ task[t].pc = "apply" /\ up' = up
          /\ Set(t, [task[t] EXCEPT !.pc = "fallback", !.result = NoResult])
    /\ mode' = mode

\* A decision or a closure for which no task stands is cut off.
DecisionInterrupted ==
    /\ up /\ Fault
    /\ \/ \E p \in Exist : \E x \in RunsOf(p) :
             /\ Held(p, x)
             /\ \/ ~Closed /\ CutIn(job, WithApproval(p, x), issue)
                \/ CutIn(job, WithRejection(p, x), issue)
       \/ /\ ReviewFree
          /\ \E p \in Exist, item \in Items :
                NeedsReview(p, item) /\ CutIn(JobReviewed(p, item), RunReviewed(p, item), issue)
       \/ \E outcome \in Closings : MayClose(outcome) /\ CommitCutOff(job, run, outcome)
    /\ UNCHANGED <<up, task>> \/ Dies
    /\ mode' = mode

Crash ==
    /\ up /\ Fault /\ Dies
    /\ UNCHANGED <<job, run, issue, mode, cut>>

\* Passes a restart finds under way: nobody runs them any more.
Interrupted(jobs) ==
    [p \in Passes |->
        IF jobs[p].status \in {"Queued", "Running"}
        THEN [jobs[p] EXCEPT !.status = "Failed", !.outcome = "Failed"] ELSE jobs[p]]

\* Runs it finds under way: not yet decided, executing, or awaiting verification.
Resettled(r, effect) ==
    CASE r.status = "Proposed" -> [r EXCEPT !.status = "Cancelled", !.approval = "Rejected"]
      [] r.status = "Running" -> Settled(r, "Failed")
      [] r.status = "Verifying" -> Settled(r, effect)
      [] OTHER -> r

InterruptedRuns(runs, effect) ==
    [p \in Passes |-> [x \in Proposals |-> Resettled(runs[p][x], effect[p][x])]]

\* A verification shows an effect or none.
Verdicts == (Effects \ {"Failed"}) \cup {"VerificationFailed"}

\* A revising Job proves its review; one that was not written is written now.
SentBack(jobs, p, item) ==
    \E q \in Passes : jobs[q].why = "review" /\ jobs[q].from = p /\ jobs[q].item = item

WithReviews(jobs) ==
    [p \in Passes |->
        [jobs[p] EXCEPT !.reviewed = @ \/ (JobNeedsReview(jobs[p]) /\ SentBack(jobs, p, 0))]]

RunsWithReviews(jobs, runs) ==
    [p \in Passes |-> [x \in Proposals |->
        IF RunNeedsReview(runs[p][x]) /\ SentBack(jobs, p, x)
        THEN AfterReview(runs[p][x]) ELSE runs[p][x]]]

\* recover_with, before requests are served (ModeRecovery takes it apart).
Recover ==
    /\ ~up
    /\ up' = TRUE
    /\ mode' = IF mode = "FullyFrozen" THEN "FullyFrozen" ELSE "DispatchFrozen"
    /\ \E effect \in [Passes -> [Proposals -> Verdicts]] :
         LET jobs == Interrupted(IF Closed THEN CancelledJobs(job, Passes) ELSE job)
             runs == InterruptedRuns(IF Closed THEN CancelledRuns(run, Passes \X Proposals) ELSE run,
                                     effect)
         IN Reconciled(WithReviews(jobs), RunsWithReviews(jobs, runs))
    /\ UNCHANGED <<task, faults>>

Step(t) ==
    \/ Create(t) \/ CreateInterrupted(t) \/ Run(t) \/ Deliver(t) \/ TeamFails(t) \/ Apply(t)
    \/ Fallback(t) \/ Late(t) \/ WriteInterrupted(t)
    \/ Drive(t) \/ Supersede(t) \/ SupersedeInterrupted(t)
    \/ Propose(t) \/ Execute(t) \/ Stop(t) \/ FollowUp(t)
    \/ Record(t) \/ Drain(t) \/ Abandon(t)

Human(t) == Report(t) \/ Approve(t) \/ SendUpstream(t) \/ Comment(t) \/ Resume(t)

Next ==
    \/ \E t \in Tasks : Step(t) \/ Human(t) \/ Drop(t)
    \/ Reject \/ Acknowledge \/ Close \/ Freeze
    \/ DecisionInterrupted \/ Crash \/ Recover

Spec == Init /\ [][Next]_vars
-----------------------------------------------------------------------------
(* Properties. *)

\* Every record is of its type, and a pass is numbered in order of creation: job.rs, runner.rs.
TypeOK ==
    /\ job \in [Passes -> [status : JobStatus \cup {"Absent"}, outcome : JobOutcome \cup {"None"},
                           follow : BOOLEAN, proposes : 0 .. MaxProposals, budget : 0 .. MaxAuto - 1,
                           from : 0 .. MaxPasses, item : Items, reviewed : BOOLEAN,
                           why : {"none", "report", "probe", "follow", "settled", "review", "comment"},
                           begun : BOOLEAN, heard : BOOLEAN]]
    /\ \A p \in Exist : p <= LatestPass /\ job[p].from < p
    /\ issue \in IssueStatus \cup {"Absent"}
    /\ mode \in {"Running", "DispatchFrozen", "FullyFrozen"} /\ up \in BOOLEAN
    /\ cut \in [sweep : BOOLEAN, status : BOOLEAN, lost : SUBSET Passes]

\* A pass whose Team was started is never left Running with nobody responsible for it: a
\* request carries it, or its guard cancels it, or the controller is down.  Only where a request
\* is dropped or fails while it is recording that very end it is lost until a restart (run_team,
\* RunningJobGuard).
BegunIsCarried ==
    up => \A p \in Exist \ cut.lost : job[p].begun /\ job[p].status = "Running" => Carried(p)

\* What run_team says of itself: a Team that errors out never leaves its Job Running with nobody
\* responsible for it.
NobodyLost ==
    up => \A p \in Exist : job[p].begun /\ job[p].status = "Running" => Carried(p)

\* A closed Issue has no pass that still runs and nothing that could still start, in
\* particular none that was dispatched while it was being closed, and whatever is in flight;
\* unless the closing itself was cut off, until it is repeated or the controller restarts
\* (create_job, supersede_job and cancel_issue_work under the lifecycle lock).
ClosedHasNoWork ==
    Closed /\ up /\ ~cut.sweep =>
        /\ \A p \in Exist : Ended(p)
        /\ \A p \in Exist : \A x \in RunsOf(p) :
              run[p][x].status \in RunTerminal \cup {"Running", "Verifying"}

Automatic == {"probe", "follow", "settled"}

\* The passes a pass was reached through without a human: itself, what it followed, and so on.
Chain(p) ==
    {q \in Exist : q <= p /\ \A r \in q + 1 .. p :
        job[r].why \in Automatic /\ job[r].from = r - 1}

\* No line of automatic passes, each continuing the one before, is longer than
\* max_auto_passes (PassPolicy, drive_passes, follow_up_after_approval).
ChainBound == \A p \in Exist : Cardinality(Chain(p)) <= MaxAuto

\* A pass is superseded by one pass at most, and of the requests that resume a chain after a
\* decision one at most continues it, however many decide at once (follow_up_lock).
OneSuccessorEach ==
    \A p, q \in Exist :
        /\ job[p].from = job[q].from
        /\ job[p].why = job[q].why /\ job[p].why \in {"probe", "settled"}
        => p = q

\* No pass and no run of the Issue is under way, and no request is.
Resting ==
    /\ \A t \in Tasks : task[t].pc = "idle"
    /\ \A p \in Exist : job[p].status # "Running"
    /\ \A p \in Exist, x \in Proposals : run[p][x].status \notin {"Proposed", "Running", "Verifying"}

\* With nothing in flight, a live Issue whose latest pass has a result waits for somebody who
\* can see it: a decision is pending, a comment is asked for, or a human acknowledged what
\* there was.  Excepted are Issues that were never reconciled with what a request wrote that was
\* cut off, and a pass that was cancelled with its result (inbox, reconcile_issue).
Attended ==
    /\ up /\ ~Closed /\ ~cut.status /\ LatestPass \in Exist
    /\ Resting
    /\ job[LatestPass].outcome # "None"
    /\ job[LatestPass].status \notin {"Superseded", "Cancelled"}
    => DecisionPending \/ AwaitsInput \/ job[LatestPass].reviewed

\* A pass that ended keeps its outcome, its proposals and its status whatever arrives later;
\* only a review may still be recorded on it (handle_callback, cancel_job_record).
EndedStaysEnded ==
    [][\A p \in Passes : Ended(p) =>
        [job'[p] EXCEPT !.reviewed = FALSE] = [job[p] EXCEPT !.reviewed = FALSE]]_vars
=============================================================================
