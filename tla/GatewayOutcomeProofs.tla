------------------------ MODULE GatewayOutcomeProofs ------------------------
(***************************************************************************)
(* What becomes of runs and Issues, for every set of runs, passes, Issues  *)
(* and requests: the consent behind whatever starts, the inbox behind      *)
(* whatever ends, the quiet of closed Issues, and the status of live ones. *)
(***************************************************************************)
EXTENDS ActionGatewayProofs

-----------------------------------------------------------------------------
(* The invariants behind the properties. *)

\* While the process is down or starting, no request is in flight.
BootIdle == ~Up => \A t \in Tasks : task[t].pc = "idle"

\* Nothing outdates a derived status between the read and the write but the runs themselves:
\* the Issue is still where it may take it.
ApplyFits == \A t \in Tasks : task[t].pc = "apply" => lock.next \in IssueNext(issue[Target(t)])

\* Only runs of closed Issues are swept.
SweepsClosed ==
    /\ \A t \in Tasks : task[t].pc = "sweep" => \A r \in lock.todo : ~Live(On(r))
    /\ boot.phase = "sweep" => \A r \in boot.runs : ~Live(On(r))

\* A review, a denial and the output of a command that was stopped are found on ended runs only.
EndedMarks(record) ==
    /\ record.reviewed => record.status \in RunTerminal
    /\ record.approval = "Rejected" => record.status = "Cancelled"
    /\ record.artifact => record.status = "Cancelled"

MarksEnded == \A r \in Runs : EndedMarks(run[r])

\* The verdict a request is about to write is one the matrix gives.
Permitted(r, verdict) ==
    /\ verdict \in {"Pending", "NotRequired", "Rejected"}
    /\ verdict = "Pending" => Row[r] \in {"auto", "approve"}
    /\ verdict = "NotRequired" => Row[r] = "auto"

VerdictsPermitted ==
    \A t \in Tasks : task[t].pc = "settle" =>
        task[t].seen = "WaitingForHuman" \/ Permitted(task[t].run, task[t].seen)

OutcomeInv ==
    /\ BootIdle /\ ApplyFits /\ SweepsClosed /\ VerdictsPermitted /\ MarksEnded
    /\ EndsInInbox

\* Nothing waits for an approval that could not allow it.
WaitsForConsent ==
    \A r \in Runs : run[r].status = "WaitingForApproval" => Row[r] \in {"auto", "approve"}

ConsentInv == WaitsForConsent /\ Consent

\* Whatever could start on a closed Issue is about to be swept: by the request that closed
\* it, by the reconciliation of the request that parked it, or by startup.
AboutToBeSwept(r) ==
    \/ Up /\ \E t \in Tasks : task[t].pc = "sweep" /\ r \in lock.todo
    \/ /\ Up /\ run[r].status = "WaitingForHuman"
       /\ \E t \in Tasks : task[t].pc = "reconcile" /\ task[t].run = r
    \/ boot.phase = "down"
    \/ boot.phase = "sweep" /\ r \in boot.runs

ClosedInv ==
    drops = 0 => \A r \in Present :
        ~Live(On(r)) /\ run[r].status \in Unstarted => AboutToBeSwept(r)

\* A request that will reconcile Issue i, whatever it meets first.
Owes(t, i) ==
    /\ Target(t) = i
    /\ \/ task[t].pc \in {"reconcile", "apply"}
       \/ task[t].pc \in {"claim", "evaluate", "settle"} /\ run[task[t].run].status = "Proposed"

\* The Issue is not where its work puts it.
Behind(i) == Live(i) /\ DerivedStatus(i) \in IssueNext(issue[i])

\* Whatever is behind, or about to be written from an outdated read, is owed.
OwedNow ==
    /\ \A i \in Issues : Behind(i) => \E t \in Tasks : Owes(t, i)
    /\ \A t \in Tasks : task[t].pc = "apply" /\ lock.next # DerivedStatus(Target(t)) =>
         \E u \in Tasks \ {t} : Owes(u, Target(t))

\* Startup leaves no live Issue behind that it has reconciled.
OwedInv ==
    /\ Up /\ drops = 0 => OwedNow
    /\ boot.phase = "runs" =>
         \A i \in Issues \ boot.issues : Live(i) =>
            boot.runs = {} /\ boot.verified = None /\ ~Behind(i)

\* Every proposal of the Issue's passes has ended and needs nobody.
AllSettled(i) ==
    \A r \in Runs : On(r) = i => run[r].status \in RunTerminal /\ ~RunNeedsReview(run[r])

ResolvesSettled ==
    \A t \in Tasks : task[t].pc = "apply" /\ lock.next = "Resolved" => AllSettled(Target(t))
-----------------------------------------------------------------------------
(* The shapes of a step.  Which request moves, which run it writes, and that it reconciles *)
(* what it wrote, is shown once for every handler; the properties follow from the shapes.  *)

Window == {"claim", "evaluate", "settle"}

Alone(t) == \A u \in Tasks \ {t} : task'[u] = task[u]
RestKept == Up /\ UNCHANGED <<issue, lock, boot, drops>>

\* A request moves on and writes nothing; it stays responsible for a run it has inserted.
Aside(t) ==
    /\ RestKept /\ UNCHANGED run /\ Alone(t)
    /\ task[t].pc \notin Reconciling /\ task'[t].pc \notin {"apply", "sweep"}
    /\ task[t].pc \in Window /\ run[task[t].run].status = "Proposed" =>
          task'[t].pc \in Window /\ task'[t].run = task[t].run
    /\ task'[t].pc = "settle" =>
          task'[t].seen = "WaitingForHuman" \/ Permitted(task'[t].run, task'[t].seen)

\* What a handler may make of an existing run.
Decides(t, r) ==
    /\ run[r].status = "Proposed" /\ task[t].pc = "settle" /\ task[t].run = r
    /\ task[t].seen \in Approval
    /\ run'[r] = [run[r] EXCEPT !.status = StatusOfApproval(task[t].seen), !.approval = task[t].seen]
Approves(r) ==
    /\ run[r].status \in Approvable
    /\ run'[r] = [run[r] EXCEPT !.status = "Ready", !.approval = "Approved"]
Parks(r) ==
    /\ run[r].status \in {"Proposed", "Ready"}
    /\ run'[r] = [run[r] EXCEPT !.status = "WaitingForHuman"]
Denies(r) == "Cancelled" \in RunNext(run[r].status) /\ run'[r] = Deny(run[r])
Reviews(r) == RunNeedsReview(run[r]) /\ run'[r] = Reviewed(run[r])
Executes(r) ==
    /\ run[r].status = "Running"
    /\ \E result \in PlatformResults : run'[r] = RecordExecution(run[r], result)
Verifies(r) ==
    /\ run[r].status = "Verifying"
    /\ \E evidence \in Evidence : run'[r] = RecordVerification(run[r], evidence)

Handled(r) ==
    Approves(r) \/ Parks(r) \/ Denies(r) \/ Reviews(r) \/ Executes(r) \/ Verifies(r)

Written(t, r) == Decides(t, r) \/ Handled(r)

OnlyRun(r) == \A s \in Runs \ {r} : run'[s] = run[s]

\* A request writes run r and goes on to reconcile its Issue.
Writes(t, r) ==
    /\ RestKept /\ OnlyRun(r) /\ Alone(t)
    /\ task[t].pc \notin Reconciling /\ (task[t].pc \in Window => task[t].run = r)
    /\ task'[t].pc = "reconcile" /\ task'[t].run = r
    /\ r \in Present /\ Written(t, r)

\* A request inserts its run; one starts its command.
Inserts(t) ==
    /\ RestKept /\ OnlyRun(task[t].run) /\ Alone(t)
    /\ task[t].pc = "insert" /\ LockFree /\ Live(On(task[t].run))
    /\ run'[task[t].run] = FromProposal
    /\ task'[t] = [task[t] EXCEPT !.pc = "claim"]

Starts(t) ==
    /\ RestKept /\ OnlyRun(task[t].run) /\ Alone(t)
    /\ task[t].pc = "admit" /\ task'[t].pc = "platform"
    /\ Live(On(task[t].run)) /\ run[task[t].run].status = "Ready"
    /\ run'[task[t].run] = [run[task[t].run] EXCEPT !.status = "Running"]

\* Writing a request leaves every other one where it is.
LEMMA SetAlone ==
    ASSUME TypeOK, NEW t \in Tasks, NEW rec, Set(t, rec)
    PROVE  task'[t] = rec /\ Alone(t)
  BY DEF TypeOK, Set, Alone

\* So does starting one from the idle record.
LEMMA FromIdle ==
    ASSUME TypeOK, NEW t \in Tasks
    PROVE  /\ \A rec : task' = [task EXCEPT ![t] = rec] => task'[t] = rec /\ Alone(t)
           /\ IdleTask \in TaskType
  BY IdleTyped DEF TypeOK, Alone, TaskRec

\* A request that ends in an error writes nothing, and had inserted nothing it still owes.
LEMMA FailAside ==
    ASSUME TypeOK, NEW t \in Tasks, Fail(t), RestKept, UNCHANGED run,
           task[t].pc \notin Reconciling,
           task[t].pc \in Window => run[task[t].run].status # "Proposed"
    PROVE  Aside(t)
  BY SetAlone DEF Fail, Aside, IdleTask

\* A successful compare-and-set is a write, a conflict ends the request.
LEMMA UpdateShape ==
    ASSUME TypeOK, NEW t \in Tasks, NEW expected, NEW new, NEW then,
           Update(t, expected, new, then), RestKept, expected # "Absent",
           task[t].pc \in RunPcs,
           task[t].pc \in Window => expected = "Proposed",
           run[task[t].run].status = expected /\ run'[task[t].run] = new
             => Written(t, task[t].run)
    PROVE  Aside(t) \/ Writes(t, task[t].run)
  <1> DEFINE r == task[t].run
  <1>1. task[t] \in TaskType /\ TaskOK(task[t])
    BY DEF TypeOK, TaskRec
  <1>2. r \in Runs /\ task[t].pc \notin Reconciling
    BY <1>1 DEF TaskType, TaskOK, RunPcs, Executing, Reconciling
  <1>3. CASE run[r].status = expected
    <2> DEFINE rec == [task[t] EXCEPT !.pc = "reconcile", !.then = then, !.seen = "none"]
    <2>1. Set(t, rec) /\ run' = [run EXCEPT ![r] = new]
      BY <1>3 DEF Update, ReconcileThen
    <2>2. rec.pc = "reconcile" /\ rec.run = r
      BY <1>1 DEF TaskType
    <2>3. task'[t].pc = "reconcile" /\ task'[t].run = r /\ Alone(t)
      BY <2>1, <2>2, SetAlone
    <2>4. OnlyRun(r) /\ run'[r] = new /\ r \in Present
      BY <1>2, <1>3, <2>1 DEF TypeOK, OnlyRun, Present
    <2> QED  BY <1>2, <1>3, <2>3, <2>4 DEF Writes
  <1>4. CASE run[r].status # expected
    <2>1. Fail(t) /\ UNCHANGED run
      BY <1>4 DEF Update
    <2> QED  BY <1>2, <1>4, <2>1, FailAside
  <1> QED  BY <1>3, <1>4

\* The next stop of a request that has executed or reconciled is no reconciliation.
LEMMA FinishedAside ==
    ASSUME TypeOK, NEW t \in Tasks, Set(t, Finished(t)), RestKept, UNCHANGED run,
           task[t].pc \notin Reconciling, task[t].pc \notin Window
    PROVE  Aside(t)
  <1>1. task[t] \in TaskType /\ TaskOK(task[t])
    BY DEF TypeOK, TaskRec
  <1>2. task[t].then \notin {"execute", "verify"}
    BY <1>1 DEF TaskOK
  <1>3. Finished(t).pc \notin Reconciling /\ Finished(t).pc # "settle"
    BY <1>1, <1>2, FinishedTyped DEF Finished, IdleTask, TaskType
  <1> QED  BY <1>3, SetAlone DEF Aside, Reconciling

\* Every step a request makes by itself has one of the shapes, or is one under the lock.
LEMMA WorkShape ==
    ASSUME TypeOK, NEW t \in Tasks, Work(t)
    PROVE  \/ Aside(t) \/ (\E r \in Runs : Writes(t, r)) \/ Inserts(t) \/ Starts(t)
           \/ Reconcile(t) \/ Apply(t) \/ ApplyConflict(t) \/ (\E r \in Runs : Sweep(t, r))
           \/ Swept(t)
  <1> USE DEF At
  <1>1. task[t] \in TaskType /\ TaskOK(task[t])
    BY DEF TypeOK, TaskRec
  <1>2. task[t].pc \in RunPcs => task[t].run \in Runs
    BY <1>1 DEF TaskType, TaskOK
  <1>3. CASE Propose(t)
    <2>1. RestKept /\ UNCHANGED run /\ task[t].pc = "propose"
      BY <1>3 DEF Propose, RestKept
    <2>2. Alone(t) /\ task'[t].pc \in {"reconcile", "idle", "insert"}
      <3>1. ASSUME NEW r \in task[t].queue,
                   Set(t, [task[t] EXCEPT !.pc = "insert", !.run = r, !.queue = @ \ {r}])
            PROVE  Alone(t) /\ task'[t].pc = "insert"
        <4> DEFINE rec == [task[t] EXCEPT !.pc = "insert", !.run = r, !.queue = @ \ {r}]
        <4>1. rec.pc = "insert"
          BY <1>1 DEF TaskType
        <4> QED  BY <3>1, <4>1, SetAlone
      <3>2. ASSUME ReconcileThen(t, "end")
            PROVE  Alone(t) /\ task'[t].pc = "reconcile"
        <4> DEFINE rec == [task[t] EXCEPT !.pc = "reconcile", !.then = "end", !.seen = "none"]
        <4>1. rec.pc = "reconcile"
          BY <1>1 DEF TaskType
        <4> QED  BY <3>2, <4>1, SetAlone DEF ReconcileThen
      <3>3. Fail(t) => Alone(t) /\ task'[t].pc = "idle"
        BY SetAlone DEF Fail, IdleTask
      <3> QED  BY <1>3, <3>1, <3>2, <3>3 DEF Propose
    <2> QED  BY <2>1, <2>2 DEF Aside, Window, Reconciling
  <1>4. CASE Insert(t)
    <2>1. RestKept /\ task[t].pc = "insert" /\ LockFree
      BY <1>4 DEF Insert, RestKept
    <2>2. CASE Live(On(task[t].run))
      <3>1. /\ run' = [run EXCEPT ![task[t].run] = FromProposal]
            /\ Set(t, [task[t] EXCEPT !.pc = "claim"])
        BY <1>4, <2>2 DEF Insert, Goto
      <3>2. run'[task[t].run] = FromProposal /\ OnlyRun(task[t].run)
        BY <1>2, <2>1, <3>1 DEF TypeOK, OnlyRun, RunPcs
      <3> QED  BY <2>1, <2>2, <3>1, <3>2, SetAlone DEF Inserts
    <2>3. CASE ~Live(On(task[t].run))
      BY <1>4, <2>1, <2>3, FailAside DEF Insert, Reconciling, Window
    <2> QED  BY <2>2, <2>3
  <1>5. CASE Claim(t)
    <2>1. RestKept /\ UNCHANGED run /\ task[t].pc = "claim"
      BY <1>5 DEF Claim, RestKept
    <2>2. \/ Set(t, [task[t] EXCEPT !.pc = "settle", !.seen = "Rejected"])
          \/ Set(t, [task[t] EXCEPT !.pc = "evaluate"])
      BY <1>5 DEF Claim, Goto
    <2> DEFINE refused == [task[t] EXCEPT !.pc = "settle", !.seen = "Rejected"]
               claimed == [task[t] EXCEPT !.pc = "evaluate"]
    <2>4. /\ refused.pc = "settle" /\ refused.seen = "Rejected" /\ refused.run = task[t].run
          /\ claimed.pc = "evaluate" /\ claimed.run = task[t].run
      BY <1>1 DEF TaskType
    <2>3. /\ Alone(t) /\ task'[t].run = task[t].run
          /\ \/ task'[t].pc = "settle" /\ task'[t].seen = "Rejected"
             \/ task'[t].pc = "evaluate"
      BY <2>2, <2>4, SetAlone
    <2> QED  BY <2>1, <2>3 DEF Aside, Window, Reconciling, Permitted
  <1>6. CASE Evaluate(t)
    <2>1. RestKept /\ UNCHANGED run /\ task[t].pc = "evaluate"
      BY <1>6 DEF Evaluate, RestKept
    <2>2. PICK verdict \in Verdicts(task[t].run) :
            Set(t, [task[t] EXCEPT !.pc = "settle", !.seen = verdict])
      BY <1>6 DEF Evaluate
    <2> DEFINE rec == [task[t] EXCEPT !.pc = "settle", !.seen = verdict]
    <2>6. rec.pc = "settle" /\ rec.seen = verdict /\ rec.run = task[t].run
      BY <1>1 DEF TaskType
    <2>3. Alone(t) /\ task'[t].run = task[t].run /\ task'[t].pc = "settle" /\ task'[t].seen = verdict
      BY <2>2, <2>6, SetAlone
    <2>4. Row[task[t].run] \in Rows
      BY <1>2, <2>1, GatewayConstants DEF RunPcs
    <2>5. verdict = "WaitingForHuman" \/ Permitted(task[t].run, verdict)
      BY <2>2, <2>4 DEF Verdicts, Permitted, Rows
    <2> QED  BY <2>1, <2>3, <2>5 DEF Aside, Window, Reconciling
  <1>7. CASE Settle(t)
    <2> DEFINE record == run[task[t].run]
               parked == [record EXCEPT !.status = "WaitingForHuman"]
               decided == [record EXCEPT !.status = StatusOfApproval(task[t].seen),
                                         !.approval = task[t].seen]
    <2>1. RestKept /\ task[t].pc = "settle" /\ task[t].pc \in RunPcs
      BY <1>7 DEF Settle, RestKept, RunPcs
    <2>2. CASE task[t].seen = "WaitingForHuman"
      <3>1. Update(t, "Proposed", parked, "done")
        BY <1>7, <2>2 DEF Settle
      <3>2. record.status = "Proposed" /\ run'[task[t].run] = parked => Written(t, task[t].run)
        BY DEF Written, Handled, Parks
      <3> QED  BY <1>2, <2>1, <3>1, <3>2, UpdateShape
    <2>3. CASE task[t].seen # "WaitingForHuman"
      <3>1. PICK then : Update(t, "Proposed", decided, then)
        BY <1>7, <2>3 DEF Settle
      <3>2. task[t].seen \in Approval
        BY <1>1, <2>1, <2>3 DEF TaskOK
      <3>3. record.status = "Proposed" /\ run'[task[t].run] = decided => Written(t, task[t].run)
        BY <2>1, <3>2 DEF Written, Decides
      <3> QED  BY <1>2, <2>1, <3>1, <3>3, UpdateShape
    <2> QED  BY <2>2, <2>3
  <1>8. CASE Approve(t)
    <2> DEFINE new == [run[task[t].run] EXCEPT !.status = "Ready", !.approval = "Approved"]
    <2>1. RestKept /\ task[t].pc = "approve" /\ task[t].pc \in RunPcs
      BY <1>8 DEF Approve, RestKept, RunPcs
    <2>2. task[t].seen \in Approvable /\ task[t].seen # "Absent"
      BY <1>1, <2>1, GatewayConstants DEF TaskOK
    <2>3. Update(t, task[t].seen, new, "execute")
      BY <1>8 DEF Approve
    <2>4. run[task[t].run].status = task[t].seen /\ run'[task[t].run] = new
            => Written(t, task[t].run)
      BY <2>2 DEF Written, Handled, Approves
    <2> QED  BY <1>2, <2>1, <2>2, <2>3, <2>4, UpdateShape DEF Window
  <1>9. CASE ListQueue(t)
    <2> DEFINE rec == [task[t] EXCEPT !.pc = "drain",
                                      !.queue = {r \in Runs : run[r].status = "Ready"}]
    <2>1. RestKept /\ UNCHANGED run /\ task[t].pc = "list" /\ Set(t, rec)
      BY <1>9 DEF ListQueue, RestKept
    <2>2. rec.pc = "drain"
      BY <1>1 DEF TaskType
    <2> QED  BY <2>1, <2>2, SetAlone DEF Aside, Window, Reconciling
  <1>10. CASE Drain(t)
    <2>1. RestKept /\ UNCHANGED run /\ task[t].pc = "drain"
      BY <1>10 DEF Drain, RestKept
    <2>2. Alone(t) /\ task'[t].pc \in {"idle", "execute"}
      <3>1. ASSUME NEW r \in task[t].queue,
                   Set(t, [task[t] EXCEPT !.pc = "execute", !.run = r, !.queue = @ \ {r}])
            PROVE  Alone(t) /\ task'[t].pc = "execute"
        <4> DEFINE rec == [task[t] EXCEPT !.pc = "execute", !.run = r, !.queue = @ \ {r}]
        <4>1. rec.pc = "execute"
          BY <1>1 DEF TaskType
        <4> QED  BY <3>1, <4>1, SetAlone
      <3>2. Fail(t) => Alone(t) /\ task'[t].pc = "idle"
        BY SetAlone DEF Fail, IdleTask
      <3> QED  BY <1>10, <3>1, <3>2 DEF Drain
    <2> QED  BY <2>1, <2>2 DEF Aside, Window, Reconciling
  <1>11. CASE Execute(t)
    <2>1. RestKept /\ UNCHANGED run /\ task[t].pc = "execute"
      BY <1>11 DEF Execute, RestKept
    <2>2. CASE Set(t, [task[t] EXCEPT !.pc = "admit", !.exec = TRUE])
      <3> DEFINE rec == [task[t] EXCEPT !.pc = "admit", !.exec = TRUE]
      <3>0. rec.pc = "admit"
        BY <1>1 DEF TaskType
      <3>1. task'[t].pc = "admit" /\ Alone(t)
        BY <2>2, <3>0, SetAlone
      <3> QED  BY <2>1, <3>1 DEF Aside, Window, Reconciling
    <2>3. CASE Set(t, Finished(t))
      BY <2>1, <2>3, FinishedAside DEF Window, Reconciling
    <2> QED  BY <1>11, <2>2, <2>3 DEF Execute
  <1>12. CASE AdmitRefused(t)
    <2>1. RestKept /\ UNCHANGED run /\ task[t].pc = "admit"
      BY <1>12 DEF AdmitRefused, RestKept
    <2>2. Fail(t) \/ Set(t, Finished(t))
      BY <1>12 DEF AdmitRefused, Fail
    <2> QED  BY <2>1, <2>2, FailAside, FinishedAside DEF Window, Reconciling
  <1>13. CASE Admit(t)
    <2>1. /\ RestKept /\ task[t].pc = "admit"
          /\ Live(On(task[t].run)) /\ run[task[t].run].status = "Ready"
          /\ run' = [run EXCEPT ![task[t].run].status = "Running"]
          /\ Set(t, [task[t] EXCEPT !.pc = "platform"])
      BY <1>13 DEF Admit, Admissible, RestKept, Goto
    <2>2. task[t].run \in Runs
      BY <1>2, <2>1 DEF RunPcs, Executing
    <2>3. /\ run'[task[t].run] = [run[task[t].run] EXCEPT !.status = "Running"]
          /\ OnlyRun(task[t].run)
      BY <2>1, <2>2 DEF TypeOK, OnlyRun
    <2>4. task'[t].pc = "platform" /\ Alone(t)
      BY <1>1, <2>1, SetAlone DEF TaskType
    <2> QED  BY <2>1, <2>3, <2>4 DEF Starts
  <1>14. CASE AdmitUnimplemented(t)
    <2>1. RestKept /\ UNCHANGED run /\ task[t].pc = "admit" /\ Set(t, [task[t] EXCEPT !.pc = "park"])
      BY <1>14 DEF AdmitUnimplemented, RestKept, Goto
    <2>2. task'[t].pc = "park" /\ Alone(t)
      BY <1>1, <2>1, SetAlone DEF TaskType
    <2> QED  BY <2>1, <2>2 DEF Aside, Window, Reconciling
  <1>15. CASE Park(t)
    <2> DEFINE new == [run[task[t].run] EXCEPT !.status = "WaitingForHuman"]
    <2>1. RestKept /\ task[t].pc = "park" /\ task[t].pc \in RunPcs /\ Update(t, "Ready", new, "done")
      BY <1>15 DEF Park, RestKept, RunPcs, Executing
    <2>2. run[task[t].run].status = "Ready" /\ run'[task[t].run] = new => Written(t, task[t].run)
      BY DEF Written, Handled, Parks
    <2> QED  BY <1>2, <2>1, <2>2, UpdateShape DEF Window
  <1>16. ASSUME NEW result \in PlatformResults, PlatformReturns(t, result)
         PROVE  Aside(t) \/ \E r \in Runs : Writes(t, r)
    <2> DEFINE new == RecordExecution(run[task[t].run], result)
    <2>1. RestKept /\ task[t].pc = "platform" /\ task[t].pc \in RunPcs
      BY <1>16 DEF PlatformReturns, RestKept, RunPcs, Executing
    <2>2. PICK then : Update(t, "Running", new, then)
      BY <1>16 DEF PlatformReturns
    <2>3. run[task[t].run].status = "Running" /\ run'[task[t].run] = new => Written(t, task[t].run)
      BY DEF Written, Handled, Executes
    <2> QED  BY <1>2, <2>1, <2>2, <2>3, UpdateShape DEF Window
  <1>17. CASE Verify(t)
    <2>1. RestKept /\ task[t].pc = "verify" /\ task[t].pc \in RunPcs
      BY <1>17 DEF Verify, RestKept, RunPcs, Executing
    <2>2. PICK evidence \in Evidence :
            Update(t, "Verifying", RecordVerification(run[task[t].run], evidence), "done")
      BY <1>2, <1>17, <2>1, FindingsTyped DEF Verify
    <2> DEFINE new == RecordVerification(run[task[t].run], evidence)
    <2>3. run[task[t].run].status = "Verifying" /\ run'[task[t].run] = new
            => Written(t, task[t].run)
      BY DEF Written, Handled, Verifies
    <2> HIDE DEF new
    <2>4. Update(t, "Verifying", new, "done")
      BY <2>2 DEF new
    <2> QED  BY <1>2, <2>1, <2>3, <2>4, UpdateShape DEF Window
  <1> QED
    BY <1>3, <1>4, <1>5, <1>6, <1>7, <1>8, <1>9, <1>10, <1>11, <1>12, <1>13, <1>14, <1>15,
       <1>16, <1>17 DEF Work

\* So has every step a request arrives with.
LEMMA RequestShape ==
    ASSUME TypeOK, NEW t \in Tasks, Request(t)
    PROVE  \/ Aside(t) \/ (\E r \in Runs : Writes(t, r))
           \/ \E i \in Issues, closure \in IssueTerminal : Close(t, i, closure)
  <1> USE DEF At
  <1>1. ASSUME NEW j \in Jobs, BeginPropose(t, j) PROVE Aside(t)
    <2> DEFINE rec == [IdleTask EXCEPT !.op = "propose", !.pc = "propose", !.issue = IssueOf[j],
                                       !.queue = {r \in Runs : JobOf[r] = j}]
    <2>0. rec.pc = "propose"
      BY FromIdle DEF TaskType
    <2>1. RestKept /\ UNCHANGED run /\ task[t].pc = "idle"
      BY <1>1 DEF BeginPropose, RestKept
    <2>2. Alone(t) /\ task'[t].pc = "propose"
      BY <1>1, <2>0, SetAlone DEF BeginPropose
    <2> QED  BY <2>1, <2>2 DEF Aside, Window, Reconciling
  <1>2. ASSUME NEW r \in Runs, BeginApprove(t, r) PROVE Aside(t)
    <2> DEFINE rec == [IdleTask EXCEPT !.op = "approve", !.pc = "approve", !.run = r,
                                       !.seen = run[r].status]
    <2>0. rec.pc = "approve"
      BY FromIdle DEF TaskType
    <2>1. RestKept /\ UNCHANGED run /\ task[t].pc = "idle"
      BY <1>2 DEF BeginApprove, RestKept
    <2>2. Alone(t) /\ task'[t].pc = "approve"
      BY <1>2, <2>0, SetAlone DEF BeginApprove
    <2> QED  BY <2>1, <2>2 DEF Aside, Window, Reconciling
  <1>3. ASSUME NEW r \in Runs, Reject(t, r) PROVE Writes(t, r)
    <2> DEFINE rec == [IdleTask EXCEPT !.op = "reject", !.pc = "reconcile", !.run = r]
    <2>0. rec.pc = "reconcile" /\ rec.run = r
      BY FromIdle DEF TaskType
    <2>1. RestKept /\ task[t].pc = "idle" /\ run' = [run EXCEPT ![r] = Deny(@)]
      BY <1>3 DEF Reject, RestKept
    <2>2. Alone(t) /\ task'[t].pc = "reconcile" /\ task'[t].run = r
      BY <1>3, <2>0, SetAlone DEF Reject
    <2>3. run'[r] = Deny(run[r]) /\ OnlyRun(r)
      BY <2>1 DEF TypeOK, OnlyRun
    <2>4. Denies(r) /\ r \in Present
      BY <1>3, <2>3, GatewayConstants DEF Reject, Denies, Present, RunStatus
    <2> QED  BY <2>1, <2>2, <2>3, <2>4 DEF Writes, Written, Handled, Reconciling, Window
  <1>4. ASSUME NEW r \in Runs, Review(t, r) PROVE Writes(t, r)
    <2> DEFINE rec == [IdleTask EXCEPT !.op = "review", !.pc = "reconcile", !.run = r]
    <2>0. rec.pc = "reconcile" /\ rec.run = r
      BY FromIdle DEF TaskType
    <2>1. RestKept /\ task[t].pc = "idle" /\ run' = [run EXCEPT ![r] = Reviewed(@)]
      BY <1>4 DEF Review, RestKept
    <2>2. Alone(t) /\ task'[t].pc = "reconcile" /\ task'[t].run = r
      BY <1>4, <2>0, SetAlone DEF Review
    <2>3. run'[r] = Reviewed(run[r]) /\ OnlyRun(r)
      BY <2>1 DEF TypeOK, OnlyRun
    <2>4. Reviews(r) /\ r \in Present
      BY <1>4, <2>3 DEF Review, Reviews
    <2> QED  BY <2>1, <2>2, <2>3, <2>4 DEF Writes, Written, Handled, Reconciling, Window
  <1>5. ASSUME Resume(t) PROVE Aside(t)
    <2> DEFINE rec == [IdleTask EXCEPT !.op = "resume", !.pc = "list"]
    <2>0. rec.pc = "list"
      BY FromIdle DEF TaskType
    <2>1. RestKept /\ UNCHANGED run /\ task[t].pc = "idle"
      BY <1>5 DEF Resume, RestKept
    <2>2. Alone(t) /\ task'[t].pc = "list"
      BY <1>5, <2>0, SetAlone DEF Resume
    <2> QED  BY <2>1, <2>2 DEF Aside, Window, Reconciling
  <1> QED  BY <1>1, <1>2, <1>3, <1>4, <1>5 DEF Request

-----------------------------------------------------------------------------
(* What a step makes of a run and of an Issue. *)

\* A run whose command starts, and one that is cancelled with its Issue.
Launched(r) ==
    /\ run[r].status = "Ready" /\ Live(On(r))
    /\ run'[r] = [run[r] EXCEPT !.status = "Running"]
Cleared(r) ==
    /\ run[r].status \in Unstarted /\ ~Live(On(r))
    /\ run'[r] = [run[r] EXCEPT !.status = "Cancelled"]

Changed(r) ==
    /\ r \in Present
    /\ (\E t \in Tasks : Decides(t, r)) \/ Handled(r) \/ Launched(r) \/ Cleared(r)

\* What a sweep writes, it writes to one run, which its closed Issue takes with it.
LEMMA CancelShape ==
    ASSUME TypeOK, NEW r \in Runs, run' = CancelUnstarted(r), ~Live(On(r)), NEW s \in Runs
    PROVE  run'[s] = run[s] \/ (s = r /\ Cleared(r) /\ r \in Present)
  BY DEF CancelUnstarted, Cleared, Unstarted, Present, TypeOK

\* Every step changes a run by one of the writes above, or by inserting it.
LEMMA RunSteps ==
    ASSUME TypeOK, OutcomeInv, [Next]_vars, NEW r \in Runs
    PROVE  \/ run'[r] = run[r]
           \/ \E t \in Tasks : Inserts(t) /\ task[t].run = r
           \/ Changed(r)
  <1>1. CASE UNCHANGED vars
    BY <1>1 DEF vars
  <1>2. ASSUME NEW t \in Tasks, Aside(t) PROVE run'[r] = run[r]
    BY <1>2 DEF Aside
  <1>3. ASSUME NEW t \in Tasks, NEW s \in Runs, Writes(t, s)
        PROVE  run'[r] = run[r] \/ Changed(r)
    BY <1>3 DEF Writes, OnlyRun, Written, Changed
  <1>4. ASSUME NEW t \in Tasks, Inserts(t)
        PROVE  run'[r] = run[r] \/ (Inserts(t) /\ task[t].run = r)
    BY <1>4 DEF Inserts, OnlyRun
  <1>5. ASSUME NEW t \in Tasks, Starts(t)
        PROVE  run'[r] = run[r] \/ Changed(r)
    BY <1>5 DEF Starts, OnlyRun, Changed, Launched, Present
  <1>6. ASSUME NEW t \in Tasks, NEW s \in Runs, Sweep(t, s)
        PROVE  run'[r] = run[r] \/ Changed(r)
    <2>1. ~Live(On(s)) /\ run' = CancelUnstarted(s)
      BY <1>6 DEF Sweep, At, OutcomeInv, SweepsClosed
    <2> QED  BY <2>1, CancelShape DEF Changed
  <1>7. ASSUME NEW s \in Runs, BootSweep(s)
        PROVE  run'[r] = run[r] \/ Changed(r)
    <2>1. ~Live(On(s)) /\ run' = CancelUnstarted(s)
      BY <1>7 DEF BootSweep, OutcomeInv, SweepsClosed
    <2> QED  BY <2>1, CancelShape DEF Changed
  <1>8. ASSUME NEW t \in Tasks,
               \/ Reconcile(t) \/ Apply(t) \/ ApplyConflict(t) \/ Swept(t) \/ Drop(t)
               \/ \E i \in Issues, closure \in IssueTerminal : Close(t, i, closure)
        PROVE  UNCHANGED run
    BY <1>8 DEF Reconcile, Apply, ApplyConflict, Swept, Drop, Close
  <1>9. CASE Crash \/ \E m \in Freezes : Freeze(m)
    BY <1>9 DEF Crash, Freeze
  <1>10. CASE \/ BootStart \/ BootList \/ BootVerified \/ BootFinish
              \/ \E i \in Issues : BootReconcile(i)
    BY <1>10 DEF BootStart, BootList, BootVerified, BootFinish, BootReconcile
  <1>11. ASSUME NEW s \in Runs, BootInterrupt(s)
         PROVE  run'[r] = run[r] \/ Changed(r)
    <2>1. CASE run[s].status = "Proposed" /\ run' = [run EXCEPT ![s] = Deny(@)]
      <3>1. r = s => Denies(r) /\ r \in Present
        BY <2>1 DEF TypeOK, Denies, RunNext, Present
      <3>2. r # s => run'[r] = run[r]
        BY <2>1 DEF TypeOK
      <3> QED  BY <3>1, <3>2 DEF Changed, Handled
    <2>2. CASE run[s].status = "Running" /\ run' = [run EXCEPT ![s] = RecordExecution(@, "failed")]
      <3>1. r = s => Executes(r) /\ r \in Present
        BY <2>2 DEF TypeOK, Executes, PlatformResults, Present
      <3>2. r # s => run'[r] = run[r]
        BY <2>2 DEF TypeOK
      <3> QED  BY <3>1, <3>2 DEF Changed, Handled
    <2> QED  BY <1>11, <2>1, <2>2 DEF BootInterrupt
  <1>12. ASSUME NEW s \in Runs, BootVerify(s)
         PROVE  run'[r] = run[r] \/ Changed(r)
    <2>1. PICK evidence \in Evidence : run' = [run EXCEPT ![s] = RecordVerification(@, evidence)]
      BY <1>12, FindingsTyped DEF BootVerify
    <2>2. r = s => run'[r] = RecordVerification(run[r], evidence)
      BY <2>1 DEF TypeOK
    <2>3. r = s => Verifies(r) /\ r \in Present
      BY <1>12, <2>2 DEF BootVerify, Verifies, Present
    <2>4. r # s => run'[r] = run[r]
      BY <2>1 DEF TypeOK
    <2> QED  BY <2>3, <2>4 DEF Changed, Handled
  <1> QED
    BY <1>1, <1>2, <1>3, <1>4, <1>5, <1>6, <1>7, <1>8, <1>9, <1>10, <1>11, <1>12, WorkShape,
       RequestShape DEF Next, Boot

\* A write moves a run along its status machine, marks it as ended only when it ends, and
\* leaves it for a human to look at when it ends badly while its Issue lives.
LEMMA ChangedRuns ==
    ASSUME TypeOK, MarksEnded, VerdictsPermitted, NEW r \in Runs, Changed(r)
    PROVE  /\ run'[r].status # run[r].status => run'[r].status \in RunNext(run[r].status)
           /\ EndedMarks(run'[r])
           /\ run'[r].status \in RunTerminal \ {"Succeeded"} =>
                RunNeedsReview(run'[r]) \/ run'[r].reviewed \/ ~Live(On(r))
  <1> DEFINE old == run[r]
             new == run'[r]
  <1>1. old \in RunType /\ EndedMarks(old) /\ old.status # "Absent"
    BY DEF TypeOK, MarksEnded, Changed, Present
  <1>2. ASSUME NEW t \in Tasks, Decides(t, r)
        PROVE  /\ new.status \in RunNext(old.status) /\ EndedMarks(new)
               /\ new.status \in RunTerminal => RunNeedsReview(new)
    <2>1. task[t].seen \in {"Pending", "NotRequired", "Rejected"}
      BY <1>2 DEF Decides, VerdictsPermitted, Permitted, Approval
    <2>2. /\ new.status = StatusOfApproval(task[t].seen) /\ new.approval = task[t].seen
          /\ new.reviewed = FALSE /\ new.artifact = FALSE
      BY <1>1, <1>2 DEF Decides, RunType, EndedMarks, RunTerminal
    <2> QED
      BY <1>2, <2>1, <2>2 DEF Decides, RunNext, EndedMarks, RunTerminal, RunNeedsReview,
         Denied, StatusOfApproval
  <1>3. ASSUME Approves(r)
        PROVE  new.status \in RunNext(old.status) /\ EndedMarks(new) /\ new.status \notin RunTerminal
    BY <1>1, <1>3, GatewayConstants DEF Approves, RunType, EndedMarks, RunTerminal, RunNext
  <1>4. ASSUME Parks(r)
        PROVE  new.status \in RunNext(old.status) /\ EndedMarks(new) /\ new.status \notin RunTerminal
    BY <1>1, <1>4 DEF Parks, RunType, EndedMarks, RunTerminal, RunNext
  <1>5. ASSUME Denies(r)
        PROVE  /\ new.status \in RunNext(old.status) /\ EndedMarks(new)
               /\ RunNeedsReview(new) \/ new.reviewed
    BY <1>1, <1>5 DEF Denies, Deny, RunType, EndedMarks, RunTerminal, RunNeedsReview, Denied
  <1>6. ASSUME Reviews(r)
        PROVE  /\ new.status # old.status => new.status \in RunNext(old.status)
               /\ EndedMarks(new) /\ new.reviewed
    BY <1>1, <1>6 DEF Reviews, Reviewed, RunType, EndedMarks, RunTerminal, RunNext,
       RunNeedsReview, Denied, HasFailed
  <1>7. ASSUME Executes(r)
        PROVE  /\ new.status \in RunNext(old.status) /\ EndedMarks(new)
               /\ new.status \in RunTerminal => RunNeedsReview(new)
    BY <1>1, <1>7 DEF Executes, RecordExecution, RunType, EndedMarks, RunTerminal, RunNext,
       RunNeedsReview, HasFailed, PlatformResults
  <1>8. ASSUME Verifies(r)
        PROVE  /\ new.status \in RunNext(old.status) /\ EndedMarks(new)
               /\ new.status \in RunTerminal \ {"Succeeded"} => RunNeedsReview(new)
    BY <1>1, <1>8 DEF Verifies, RecordVerification, RunType, EndedMarks, RunTerminal, RunNext,
       RunNeedsReview, HasFailed
  <1>9. ASSUME Launched(r)
        PROVE  new.status \in RunNext(old.status) /\ EndedMarks(new) /\ new.status \notin RunTerminal
    BY <1>1, <1>9 DEF Launched, RunType, EndedMarks, RunTerminal, RunNext
  <1>10. ASSUME Cleared(r)
         PROVE  new.status \in RunNext(old.status) /\ EndedMarks(new) /\ ~Live(On(r))
    BY <1>1, <1>10 DEF Cleared, RunType, EndedMarks, RunTerminal, RunNext, Unstarted
  <1> QED  BY <1>2, <1>3, <1>4, <1>5, <1>6, <1>7, <1>8, <1>9, <1>10 DEF Changed, Handled

\* An Issue is written by a reconciliation, by a closure, and by startup; always along its
\* status machine.
LEMMA IssueSteps ==
    ASSUME TypeOK, ApplyFits, [Next]_vars, NEW i \in Issues
    PROVE  \/ issue'[i] = issue[i]
           \/ /\ issue'[i] \in IssueNext(issue[i])
              /\ \/ \E t \in Tasks : Apply(t) /\ Target(t) = i /\ issue'[i] = lock.next
                 \/ \E t \in Tasks, closure \in IssueTerminal :
                        Close(t, i, closure) /\ issue'[i] = closure
                 \/ ~Up /\ issue'[i] = DerivedStatus(i) /\ UNCHANGED run
  <1>1. CASE UNCHANGED vars
    BY <1>1 DEF vars
  <1>2. ASSUME NEW t \in Tasks,
               \/ Aside(t) \/ (\E r \in Runs : Writes(t, r)) \/ Inserts(t) \/ Starts(t)
        PROVE  issue'[i] = issue[i]
    BY <1>2 DEF Aside, Writes, Inserts, Starts, RestKept
  <1>3. ASSUME NEW t \in Tasks, Apply(t), issue'[i] # issue[i]
        PROVE  Target(t) = i /\ issue'[i] = lock.next /\ issue'[i] \in IssueNext(issue[i])
    <2>1. issue' = [issue EXCEPT ![Target(t)] = lock.next] /\ task[t].pc = "apply"
      BY <1>3 DEF Apply, At
    <2>2. Target(t) = i /\ issue'[i] = lock.next
      BY <1>3, <2>1 DEF TypeOK
    <2> QED  BY <2>1, <2>2 DEF ApplyFits
  <1>4. ASSUME NEW t \in Tasks, NEW k \in Issues, NEW closure \in IssueTerminal,
               Close(t, k, closure), issue'[i] # issue[i]
        PROVE  k = i /\ issue'[i] = closure /\ issue'[i] \in IssueNext(issue[i])
    BY <1>4 DEF Close, TypeOK
  <1>5. ASSUME NEW t \in Tasks,
               \/ Reconcile(t) \/ ApplyConflict(t) \/ (\E r \in Runs : Sweep(t, r))
               \/ Swept(t) \/ Drop(t)
        PROVE  issue'[i] = issue[i]
    BY <1>5 DEF Reconcile, ApplyConflict, Sweep, Swept, Drop
  <1>6. CASE Crash \/ \E m \in Freezes : Freeze(m)
    BY <1>6 DEF Crash, Freeze
  <1>7. CASE \/ BootStart \/ BootList \/ BootFinish
             \/ \E r \in Runs : BootSweep(r) \/ BootInterrupt(r) \/ BootVerify(r)
    BY <1>7 DEF BootStart, BootList, BootFinish, BootSweep, BootInterrupt, BootVerify
  <1>8. ASSUME NEW k, issue' = Reconciled(k), issue'[i] # issue[i]
        PROVE  issue'[i] = DerivedStatus(i) /\ issue'[i] \in IssueNext(issue[i])
    BY <1>8 DEF Reconciled, TypeOK
  <1>9. CASE BootVerified
    BY <1>8, <1>9 DEF BootVerified, Up
  <1>10. CASE \E k \in Issues : BootReconcile(k)
    BY <1>8, <1>10 DEF BootReconcile, Up
  <1> QED
    BY <1>1, <1>2, <1>3, <1>4, <1>5, <1>6, <1>7, <1>9, <1>10, WorkShape, RequestShape
    DEF Next, Boot

\* A closed Issue is never reopened.
LEMMA ClosedForGood ==
    ASSUME TypeOK, ApplyFits, [Next]_vars, NEW i \in Issues, ~Live(i)
    PROVE  issue'[i] = issue[i] /\ ~Live(i)'
  <1>1. IssueNext(issue[i]) = {}
    BY DEF Live, IssueTerminal, IssueNext
  <1> QED  BY <1>1, IssueSteps DEF Live

\* What follows a reconciliation is neither another one nor part of an insertion.
LEMMA AfterReconcileAside ==
    ASSUME TypeOK, NEW t \in Tasks, task[t].pc \in Reconciling
    PROVE  /\ AfterReconcile(t).pc \notin Reconciling \cup Window
           /\ Set(t, AfterReconcile(t)) => task'[t] = AfterReconcile(t) /\ Alone(t)
  <1>1. task[t] \in TaskType /\ TaskOK(task[t])
    BY DEF TypeOK, TaskRec
  <1>2. Finished(t).pc \notin Window
    BY <1>1 DEF Finished, IdleTask, TaskType, Window
  <1>3. task[t].then \in {"execute", "verify"} => AfterReconcile(t).pc \notin Window
    BY <1>1 DEF AfterReconcile, TaskType, Window
  <1>4. AfterReconcile(t).pc \notin Window
    BY <1>1, <1>2, <1>3 DEF AfterReconcile, TaskType, IdleTask, Window
  <1> QED  BY <1>4, AfterReconcileTyped, SetAlone

\* What the steps under the lifecycle lock do to the requests.
LEMMA LockShape ==
    ASSUME TypeOK, NEW t \in Tasks,
           \/ Reconcile(t) \/ Apply(t) \/ ApplyConflict(t) \/ (\E r \in Runs : Sweep(t, r))
           \/ Swept(t) \/ \E i \in Issues, closure \in IssueTerminal : Close(t, i, closure)
    PROVE  /\ Up /\ UNCHANGED <<boot, drops>> /\ Alone(t)
           /\ task[t].pc \notin Window /\ task'[t].pc \notin Window
           /\ \A u \in Tasks \ {t} : task[u].pc \notin {"apply", "sweep"}
           /\ task[t].pc \in Reconciling /\ task'[t].pc \in Reconciling =>
                Target(t)' = Target(t)
  <1> USE DEF At, LockFree
  <1>1. task[t] \in TaskType /\ TaskOK(task[t])
    BY DEF TypeOK, TaskRec
  <1>2. \A u \in Tasks : task[u].pc \in {"apply", "sweep"} <=> lock.holder = u
    BY DEF TypeOK, LockOK
  <1>3. ASSUME NEW pc \in {"apply", "sweep"}, Goto(t, pc)
        PROVE  Alone(t) /\ task'[t].pc = pc /\ Target(t)' = Target(t)
    <2> DEFINE rec == [task[t] EXCEPT !.pc = pc]
    <2>1. rec.pc = pc /\ rec.run = task[t].run /\ rec.issue = task[t].issue
      BY <1>1 DEF TaskType
    <2>2. task'[t] = rec /\ Alone(t)
      BY <1>3, SetAlone DEF Goto
    <2> QED  BY <2>1, <2>2 DEF Target, On
  <1>4. ASSUME Reconcile(t)
        PROVE  /\ Alone(t) /\ task[t].pc = "reconcile" /\ lock.holder = None
               /\ \/ task'[t].pc \in {"apply", "sweep"} /\ Target(t)' = Target(t)
                  \/ task'[t].pc \notin Window \cup Reconciling
    BY <1>3, <1>4, AfterReconcileAside DEF Reconcile, Reconciling
  <1>5. ASSUME Apply(t)
        PROVE  /\ Alone(t) /\ task[t].pc = "apply"
               /\ \/ task'[t].pc \in {"apply", "sweep"} /\ Target(t)' = Target(t)
                  \/ task'[t].pc \notin Window \cup Reconciling
    BY <1>3, <1>5, AfterReconcileAside DEF Apply, Reconciling
  <1>6. ASSUME ApplyConflict(t)
        PROVE  Alone(t) /\ task[t].pc = "apply" /\ task'[t].pc = "idle"
    BY <1>6, SetAlone DEF ApplyConflict, Fail, IdleTask
  <1>7. ASSUME Swept(t)
        PROVE  Alone(t) /\ task[t].pc = "sweep" /\ task'[t].pc \notin Window \cup Reconciling
    BY <1>7, AfterReconcileAside DEF Swept, Reconciling
  <1>8. ASSUME NEW r \in Runs, Sweep(t, r)
        PROVE  Alone(t) /\ task[t].pc = "sweep" /\ task'[t] = task[t] /\ Target(t)' = Target(t)
    BY <1>8 DEF Sweep, Alone, Target, On
  <1>9. ASSUME NEW i \in Issues, NEW closure \in IssueTerminal, Close(t, i, closure)
        PROVE  /\ Alone(t) /\ task[t].pc = "idle" /\ lock.holder = None /\ task'[t].pc = "sweep"
    <2> DEFINE rec == [IdleTask EXCEPT !.op = "close", !.pc = "sweep", !.issue = i, !.then = "end"]
    <2>1. rec.pc = "sweep"
      BY FromIdle DEF TaskType
    <2> QED  BY <1>9, <2>1, SetAlone DEF Close
  <1>10. Up /\ UNCHANGED <<boot, drops>>
    BY DEF Reconcile, Apply, ApplyConflict, Sweep, Swept, Close
  <1> QED
    BY <1>2, <1>4, <1>5, <1>6, <1>7, <1>8, <1>9, <1>10, GatewayConstants
    DEF Reconciling, Window

\* A dropped request and a crash end what was in flight; startup has nothing in flight.
LEMMA DropShape ==
    ASSUME TypeOK, NEW t \in Tasks, Drop(t)
    PROVE  /\ Up /\ UNCHANGED <<run, issue, boot>> /\ Alone(t) /\ task'[t].pc = "idle"
           /\ \A u \in Tasks \ {t} : task[u].pc \in {"apply", "sweep"} => UNCHANGED lock
           /\ drops' = drops + 1
  <1>1. \A u \in Tasks : task[u].pc \in {"apply", "sweep"} <=> lock.holder = u
    BY DEF TypeOK, LockOK
  <1>2. Alone(t) /\ task'[t].pc = "idle"
    BY SetAlone DEF Drop, Fail, IdleTask
  <1> QED  BY <1>1, <1>2 DEF Drop

\* A crash leaves what is persisted.
LEMMA CrashShape ==
    ASSUME Crash
    PROVE  /\ \A t \in Tasks : task'[t].pc = "idle"
           /\ UNCHANGED <<run, issue, drops>> /\ boot'.phase = "down"
  BY DEF Crash, IdleTask, Serving

\* Startup runs alone.
LEMMA BootShape ==
    ASSUME TypeOK, Boot
    PROVE  ~Up /\ UNCHANGED <<task, lock, drops>>
  BY DEF Boot, BootStart, BootList, BootVerified, BootFinish, BootSweep, BootInterrupt,
     BootVerify, BootReconcile, Up

\* Where a step can come from, as the proofs below split it.
LEMMA StepShape ==
    ASSUME TypeOK, [Next]_vars
    PROVE  \/ UNCHANGED <<run, issue, task, lock, boot, drops>>
           \/ \E t \in Tasks : Aside(t) \/ Inserts(t) \/ Starts(t)
           \/ \E t \in Tasks, r \in Runs : Writes(t, r) \/ Sweep(t, r)
           \/ \E t \in Tasks : Reconcile(t) \/ Apply(t) \/ ApplyConflict(t) \/ Swept(t)
           \/ \E t \in Tasks, i \in Issues, closure \in IssueTerminal : Close(t, i, closure)
           \/ \E t \in Tasks : Drop(t)
           \/ Crash \/ Boot
  <1>1. CASE UNCHANGED vars
    BY <1>1 DEF vars
  <1>2. CASE \E m \in Freezes : Freeze(m)
    BY <1>2 DEF Freeze
  <1> QED  BY <1>1, <1>2, WorkShape, RequestShape DEF Next

-----------------------------------------------------------------------------
(* The end of a run. *)

\* Nothing is in flight before the process serves.
LEMMA BootIdleKept ==
    ASSUME TypeOK, BootIdle, [Next]_vars
    PROVE  BootIdle'
  <1>1. ASSUME UNCHANGED boot, Up \/ UNCHANGED task PROVE BootIdle'
    BY <1>1 DEF BootIdle, Up
  <1>2. ASSUME NEW t \in Tasks,
               \/ Aside(t) \/ Inserts(t) \/ Starts(t) \/ (\E r \in Runs : Writes(t, r))
        PROVE  Up /\ UNCHANGED boot
    BY <1>2 DEF Aside, Inserts, Starts, Writes, RestKept
  <1>3. Boot => BootIdle'
    BY BootShape DEF BootIdle
  <1>4. Crash => BootIdle'
    BY CrashShape DEF BootIdle
  <1> QED  BY <1>1, <1>2, <1>3, <1>4, StepShape, LockShape, DropShape

\* No verdict but one of the matrix is ever about to be written.
LEMMA VerdictsKept ==
    ASSUME TypeOK, BootIdle, VerdictsPermitted, [Next]_vars
    PROVE  VerdictsPermitted'
  <1> DEFINE Good(u) == task[u].pc = "settle" =>
                          task[u].seen = "WaitingForHuman" \/ Permitted(task[u].run, task[u].seen)
  <1>1. ASSUME NEW t \in Tasks, Alone(t), Good(t)' PROVE VerdictsPermitted'
    BY <1>1 DEF VerdictsPermitted, Alone, Permitted
  <1>2. ASSUME UNCHANGED task PROVE VerdictsPermitted'
    BY <1>2 DEF VerdictsPermitted, Permitted
  <1>3. ASSUME NEW t \in Tasks, Aside(t) PROVE Good(t)'
    BY <1>3 DEF Aside, Permitted
  <1>4. ASSUME NEW t \in Tasks, Inserts(t) \/ Starts(t) \/ (\E r \in Runs : Writes(t, r))
        PROVE  Good(t)'
    <2>1. task[t] \in TaskType
      BY DEF TypeOK, TaskRec
    <2>2. task'[t].pc # "settle"
      BY <1>4, <2>1 DEF Inserts, Starts, Writes, TaskType
    <2> QED  BY <2>2
  <1>5. ASSUME Crash PROVE VerdictsPermitted'
    BY <1>5, CrashShape DEF VerdictsPermitted
  <1>6. ASSUME NEW t \in Tasks, task'[t].pc \notin Window PROVE Good(t)'
    BY <1>6 DEF Window
  <1>7. ASSUME NEW t \in Tasks, Aside(t) \/ Inserts(t) \/ Starts(t) \/ (\E r \in Runs : Writes(t, r))
        PROVE  Alone(t)
    BY <1>7 DEF Aside, Inserts, Starts, Writes
  <1>8. ASSUME NEW t \in Tasks, Drop(t) PROVE Alone(t) /\ Good(t)'
    BY <1>8, DropShape
  <1> HIDE DEF Good
  <1> QED  BY <1>1, <1>2, <1>3, <1>4, <1>5, <1>6, <1>7, <1>8, StepShape, LockShape, BootShape

\* What a request reconciles, or inserts a run into, is an Issue.
LEMMA TargetIssue ==
    ASSUME TypeOK, NEW t \in Tasks, task[t].pc \in Reconciling \cup Window
    PROVE  Target(t) \in Issues
  BY GatewayConstants DEF TypeOK, TaskRec, TaskType, TaskOK, Target, On, RunPcs, Window

\* A request is about to write an Issue's status because it was, or because it just read it.
LEMMA ApplyEntered ==
    ASSUME TypeOK, BootIdle, [Next]_vars, NEW u \in Tasks, task'[u].pc = "apply"
    PROVE  \/ task'[u] = task[u] /\ UNCHANGED <<issue, lock>>
           \/ /\ Target(u) \in Issues /\ Target(u)' = Target(u) /\ UNCHANGED issue
              /\ lock'.next = DerivedStatus(Target(u))
              /\ lock'.next \in IssueNext(issue[Target(u)])
  <1> USE DEF At
  <1>1. ASSUME NEW t \in Tasks, Aside(t) \/ Inserts(t) \/ Starts(t) \/ (\E r \in Runs : Writes(t, r))
        PROVE  task'[u] = task[u] /\ UNCHANGED <<issue, lock>>
    <2>1. task[t] \in TaskType /\ Alone(t) /\ UNCHANGED <<issue, lock>>
      BY <1>1 DEF TypeOK, TaskRec, Aside, Inserts, Starts, Writes, RestKept
    <2>2. task'[t].pc # "apply"
      BY <1>1, <2>1 DEF Aside, Inserts, Starts, Writes, TaskType
    <2> QED  BY <2>1, <2>2 DEF Alone
  <1>2. ASSUME NEW t \in Tasks,
               \/ Reconcile(t) \/ Apply(t) \/ ApplyConflict(t) \/ (\E r \in Runs : Sweep(t, r))
               \/ Swept(t) \/ \E i \in Issues, closure \in IssueTerminal : Close(t, i, closure)
        PROVE  u = t
    BY <1>2, LockShape DEF Alone, Reconcile, Apply, ApplyConflict, Sweep, Swept, Close
  <1>3. ASSUME Goto(u, "sweep") PROVE FALSE
    BY <1>3 DEF Goto, Set, TypeOK, TaskRec, TaskType
  <1>4. ASSUME Set(u, AfterReconcile(u)), task[u].pc \in Reconciling PROVE FALSE
    BY <1>4, AfterReconcileAside DEF Reconciling
  <1>5. ASSUME Reconcile(u)
        PROVE  /\ Target(u) \in Issues /\ Target(u)' = Target(u) /\ UNCHANGED issue
               /\ lock'.next = DerivedStatus(Target(u))
               /\ lock'.next \in IssueNext(issue[Target(u)])
    <2>1. task[u].pc = "reconcile" /\ UNCHANGED issue
      BY <1>5 DEF Reconcile
    <2>2. Target(u) \in Issues /\ Target(u)' = Target(u)
      BY <1>5, <2>1, LockShape, TargetIssue DEF Reconciling
    <2> QED  BY <1>3, <1>4, <1>5, <2>1, <2>2 DEF Reconcile, Reconciling
  <1>6. ~Apply(u) /\ ~Swept(u)
    BY <1>3, <1>4 DEF Apply, Swept, Reconciling
  <1>7. ~ApplyConflict(u) /\ \A r \in Runs : ~Sweep(u, r)
    BY SetAlone DEF ApplyConflict, Fail, IdleTask, Sweep
  <1>8. ASSUME NEW i \in Issues, NEW closure \in IssueTerminal, Close(u, i, closure) PROVE FALSE
    <2> DEFINE rec == [IdleTask EXCEPT !.op = "close", !.pc = "sweep", !.issue = i, !.then = "end"]
    <2>1. rec.pc = "sweep"
      BY FromIdle DEF TaskType
    <2> QED  BY <1>8, <2>1, SetAlone DEF Close
  <1>9. ASSUME NEW t \in Tasks, Drop(t) PROVE task'[u] = task[u] /\ UNCHANGED <<issue, lock>>
    BY <1>9, DropShape DEF Alone
  <1>10. ~Crash /\ ~Boot
    BY CrashShape, BootShape DEF BootIdle
  <1> QED  BY <1>1, <1>2, <1>5, <1>6, <1>7, <1>8, <1>9, <1>10, StepShape

\* The Issue stays where the status about to be written fits.
LEMMA ApplyFitsKept ==
    ASSUME TypeOK, BootIdle, ApplyFits, [Next]_vars
    PROVE  ApplyFits'
  <1> SUFFICES ASSUME NEW u \in Tasks, task'[u].pc = "apply"
               PROVE  (lock.next \in IssueNext(issue[Target(u)]))'
    BY DEF ApplyFits
  <1>1. CASE task'[u] = task[u] /\ UNCHANGED <<issue, lock>>
    BY <1>1 DEF ApplyFits, Target, On
  <1>2. CASE /\ Target(u)' = Target(u) /\ UNCHANGED issue
             /\ lock'.next \in IssueNext(issue[Target(u)])
    BY <1>2
  <1> QED  BY <1>1, <1>2, ApplyEntered

\* What is about to be swept belongs to closed Issues.
LEMMA SweepsClosedKept ==
    ASSUME TypeOK, BootIdle, ApplyFits, SweepsClosed, [Next]_vars
    PROVE  SweepsClosed'
  <1>1. ASSUME NEW u \in Tasks, task'[u].pc = "sweep", NEW r \in lock'.todo
        PROVE  ~Live(On(r))'
    <2>1. ASSUME task[u].pc = "sweep", r \in lock.todo PROVE ~Live(On(r))'
      <3>1. ~Live(On(r)) /\ On(r) \in Issues
        BY <2>1, GatewayConstants DEF SweepsClosed, TypeOK, LockOK, On
      <3> QED  BY <3>1, ClosedForGood DEF On
    <2>2. ASSUME task'[u] = task[u], UNCHANGED lock PROVE ~Live(On(r))'
      BY <1>1, <2>1, <2>2
    <2>3. ASSUME NEW t \in Tasks, Aside(t) \/ Inserts(t) \/ Starts(t) \/ (\E s \in Runs : Writes(t, s))
          PROVE  task'[u] = task[u] /\ UNCHANGED lock
      <3>1. task[t] \in TaskType /\ Alone(t) /\ UNCHANGED lock
        BY <2>3 DEF TypeOK, TaskRec, Aside, Inserts, Starts, Writes, RestKept
      <3>2. task'[t].pc # "sweep"
        BY <2>3, <3>1 DEF Aside, Inserts, Starts, Writes, TaskType
      <3> QED  BY <1>1, <3>1, <3>2 DEF Alone
    <2>4. ASSUME NEW t \in Tasks,
                 \/ Reconcile(t) \/ Apply(t) \/ ApplyConflict(t) \/ (\E s \in Runs : Sweep(t, s))
                 \/ Swept(t) \/ \E i \in Issues, closure \in IssueTerminal : Close(t, i, closure)
          PROVE  u = t
      BY <1>1, <2>4, LockShape DEF Alone
    <2>5. ASSUME Reconcile(u) PROVE ~Live(On(r))'
      <3>1. task[u] \in TaskType /\ task[u].pc = "reconcile"
        BY <2>5 DEF TypeOK, TaskRec, Reconcile, At
      <3>2. ASSUME Goto(u, "apply") PROVE task'[u].pc = "apply"
        BY <3>1, <3>2 DEF Goto, Set, TypeOK, TaskType
      <3>3. ASSUME Set(u, AfterReconcile(u)) PROVE task'[u].pc # "sweep"
        BY <3>1, <3>3, AfterReconcileAside DEF Reconciling
      <3>4. ~Live(Target(u)) /\ lock'.todo = RunsOf(Target(u)) /\ UNCHANGED issue
        BY <1>1, <2>5, <3>2, <3>3 DEF Reconcile
      <3> QED  BY <1>1, <3>4 DEF RunsOf, Live, On
    <2>6. ASSUME Apply(u) PROVE ~Live(On(r))'
      <3>1. task[u] \in TaskType /\ task[u].pc = "apply"
        BY <2>6 DEF TypeOK, TaskRec, Apply, At
      <3>2. ASSUME Set(u, AfterReconcile(u)) PROVE task'[u].pc # "sweep"
        BY <3>1, <3>2, AfterReconcileAside DEF Reconciling
      <3>3. /\ lock.next \in IssueTerminal /\ lock' = [lock EXCEPT !.todo = RunsOf(Target(u))]
            /\ issue' = [issue EXCEPT ![Target(u)] = lock.next]
        BY <1>1, <2>6, <3>2 DEF Apply
      <3>4. r \in RunsOf(Target(u))
        BY <1>1, <3>3 DEF TypeOK, LockOK
      <3>5. Target(u) = On(r) /\ On(r) \in Issues
        BY <3>4, GatewayConstants DEF RunsOf, Present, On
      <3>6. issue'[On(r)] \in IssueTerminal
        BY <3>3, <3>5 DEF TypeOK
      <3> QED  BY <3>6 DEF Live, On
    <2>7. ~ApplyConflict(u)
      <3>1. ApplyConflict(u) => task'[u].pc = "idle"
        BY SetAlone DEF ApplyConflict, Fail, IdleTask
      <3> QED  BY <1>1, <3>1
    <2>8. ASSUME NEW s \in Runs, Sweep(u, s) PROVE ~Live(On(r))'
      <3>1. r \in lock.todo /\ task[u].pc = "sweep"
        BY <1>1, <2>8 DEF Sweep, At, TypeOK, LockOK
      <3> QED  BY <2>1, <3>1
    <2>9. ~Swept(u)
      <3>1. Swept(u) => task'[u].pc # "sweep"
        BY AfterReconcileAside DEF Swept, At, Reconciling
      <3> QED  BY <1>1, <3>1
    <2>10. ASSUME NEW i \in Issues, NEW closure \in IssueTerminal, Close(u, i, closure)
           PROVE  ~Live(On(r))'
      <3>1. r \in RunsOf(i) /\ issue'[i] \in IssueTerminal
        BY <1>1, <2>10 DEF Close, TypeOK
      <3> QED  BY <3>1 DEF RunsOf, Live, On
    <2>11. ASSUME NEW t \in Tasks, Drop(t) PROVE ~Live(On(r))'
      BY <1>1, <2>2, <2>11, DropShape DEF Alone
    <2>12. ~Crash
      BY <1>1, CrashShape
    <2>13. ~Boot
      BY <1>1, BootShape DEF BootIdle
    <2> QED
      BY <2>2, <2>3, <2>4, <2>5, <2>6, <2>7, <2>8, <2>9, <2>10, <2>11, <2>12, <2>13, StepShape
  <1>2. ASSUME boot'.phase = "sweep", NEW r \in boot'.runs PROVE ~Live(On(r))'
    <2>1. ASSUME boot.phase = "sweep", r \in boot.runs PROVE ~Live(On(r))'
      <3>1. ~Live(On(r)) /\ On(r) \in Issues
        BY <2>1, GatewayConstants DEF SweepsClosed, TypeOK, On
      <3> QED  BY <3>1, ClosedForGood DEF On
    <2>2. UNCHANGED boot => ~Live(On(r))'
      BY <1>2, <2>1
    <2>3. BootStart => ~Live(On(r))'
      BY <1>2 DEF BootStart, Serving, Live, On, Present
    <2>4. ASSUME NEW s \in Runs, BootSweep(s) PROVE ~Live(On(r))'
      <3>1. boot.phase = "sweep" /\ r \in boot.runs
        BY <1>2, <2>4 DEF BootSweep, TypeOK
      <3> QED  BY <2>1, <3>1
    <2>5. boot'.phase \in {"down", "up", "runs"} \/ BootStart \/ (\E s \in Runs : BootSweep(s)) \/ ~Boot
      <3>1. BootList => boot'.phase = "runs"
        BY DEF BootList, Serving
      <3>2. BootFinish => boot'.phase = "up"
        BY DEF BootFinish, Serving
      <3>3. BootVerified => boot'.phase = "runs"
        BY DEF TypeOK, BootVerified
      <3>4. ASSUME NEW s \in Runs, BootInterrupt(s) \/ BootVerify(s) PROVE boot'.phase = "runs"
        BY <3>4 DEF TypeOK, BootInterrupt, BootVerify
      <3>5. ASSUME NEW i \in Issues, BootReconcile(i) PROVE boot'.phase = "runs"
        BY <3>5 DEF TypeOK, BootReconcile
      <3> QED  BY <3>1, <3>2, <3>3, <3>4, <3>5 DEF Boot
    <2>6. ASSUME NEW t \in Tasks, Aside(t) \/ Inserts(t) \/ Starts(t) \/ (\E s \in Runs : Writes(t, s))
          PROVE  UNCHANGED boot
      BY <2>6 DEF Aside, Inserts, Starts, Writes, RestKept
    <2> QED
      BY <1>2, <2>2, <2>3, <2>4, <2>5, <2>6, StepShape, LockShape, DropShape, CrashShape
  <1> QED  BY <1>1, <1>2 DEF SweepsClosed

\* Only ended runs carry the marks of an end.
LEMMA MarksKept ==
    ASSUME TypeOK, OutcomeInv, [Next]_vars
    PROVE  MarksEnded'
  <1> SUFFICES ASSUME NEW r \in Runs PROVE EndedMarks(run'[r])
    BY DEF MarksEnded, EndedMarks
  <1>1. run'[r] = run[r] => EndedMarks(run'[r])
    BY DEF OutcomeInv, MarksEnded
  <1>2. (\E t \in Tasks : Inserts(t) /\ task[t].run = r) => EndedMarks(run'[r])
    BY DEF Inserts, FromProposal, Absent, EndedMarks
  <1>3. Changed(r) => EndedMarks(run'[r])
    BY ChangedRuns DEF OutcomeInv
  <1> QED  BY <1>1, <1>2, <1>3, RunSteps

\* A run that ends badly stays in its inbox.
LEMMA InboxKept ==
    ASSUME TypeOK, OutcomeInv, [Next]_vars
    PROVE  EndsInInbox'
  <1> SUFFICES ASSUME NEW r \in Runs, run'[r].status \in RunTerminal \ {"Succeeded"}
               PROVE  RunNeedsReview(run'[r]) \/ run'[r].reviewed \/ ~Live(On(r))'
    BY DEF EndsInInbox, Present, RunNeedsReview, Denied, HasFailed
  <1>1. ~Live(On(r)) => ~Live(On(r))'
    BY ClosedForGood, GatewayConstants DEF OutcomeInv, On
  <1>2. CASE run'[r] = run[r]
    <2>1. r \in Present
      BY <1>2 DEF Present, RunTerminal
    <2> QED  BY <1>1, <1>2, <2>1 DEF OutcomeInv, EndsInInbox
  <1>3. ~\E t \in Tasks : Inserts(t) /\ task[t].run = r
    BY DEF Inserts, FromProposal, Absent, RunTerminal
  <1>4. CASE Changed(r)
    BY <1>1, <1>4, ChangedRuns DEF OutcomeInv
  <1> QED  BY <1>2, <1>3, <1>4, RunSteps

\* What every step relies on, whatever humans decide and however the controller is deployed.
THEOREM OutcomeHolds == Spec => []OutcomeInv
  <1>1. Init => OutcomeInv
    BY DEF Init, OutcomeInv, BootIdle, ApplyFits, SweepsClosed, VerdictsPermitted, MarksEnded,
           EndedMarks, EndsInInbox, Present, Absent, IdleTask, Serving, Up
  <1>2. TypeOK /\ OutcomeInv /\ [Next]_vars => OutcomeInv'
    <2> SUFFICES ASSUME TypeOK, OutcomeInv, [Next]_vars PROVE OutcomeInv'
      OBVIOUS
    <2>1. BootIdle /\ ApplyFits /\ SweepsClosed /\ VerdictsPermitted
      BY DEF OutcomeInv
    <2> QED
      BY <2>1, BootIdleKept, ApplyFitsKept, SweepsClosedKept, VerdictsKept, MarksKept, InboxKept
      DEF OutcomeInv
  <1> QED  BY <1>1, <1>2, Typing, PTL DEF Spec

\* No run ends unseen: a refused, failed or cancelled one waits in an inbox until a human
\* reviewed it, unless its Issue was closed.
THEOREM EndsSeen == Spec => []EndsInInbox
  <1>1. OutcomeInv => EndsInInbox
    BY DEF OutcomeInv
  <1> QED  BY <1>1, OutcomeHolds, PTL

-----------------------------------------------------------------------------
(* The consent behind whatever starts. *)

\* What a write leaves ready, started or waiting for an approval has its consent.
LEMMA ChangedConsents ==
    ASSUME HandsOff, TypeOK, OutcomeInv, ConsentInv, NEW r \in Runs, Changed(r)
    PROVE  /\ run'[r].status = "WaitingForApproval" => Row[r] \in {"auto", "approve"}
           /\ run'[r].status \in Started \cup {"Ready"} =>
                \/ run'[r].approval = "NotRequired" /\ Row[r] = "auto"
                \/ run'[r].approval = "Approved" /\ Row[r] \in {"auto", "approve"}
  <1> DEFINE old == run[r]
             new == run'[r]
             Consented(record) == \/ record.approval = "NotRequired" /\ Row[r] = "auto"
                                  \/ record.approval = "Approved" /\ Row[r] \in {"auto", "approve"}
  <1>1. old \in RunType /\ r \in Present
    BY DEF TypeOK, Changed
  <1>2. /\ old.status = "WaitingForApproval" => Row[r] \in {"auto", "approve"}
        /\ old.status \in Started \cup {"Ready"} => Consented(old)
    BY <1>1 DEF ConsentInv, WaitsForConsent, Consent
  <1>3. ASSUME NEW t \in Tasks, Decides(t, r)
        PROVE  /\ new.status = "WaitingForApproval" => Row[r] \in {"auto", "approve"}
               /\ new.status \in Started \cup {"Ready"} => Consented(new)
    <2>1. Permitted(r, task[t].seen)
      BY <1>3 DEF Decides, OutcomeInv, VerdictsPermitted, Approval
    <2>2. new.status = StatusOfApproval(task[t].seen) /\ new.approval = task[t].seen
      BY <1>1, <1>3 DEF Decides, RunType
    <2> QED  BY <2>1, <2>2 DEF Permitted, StatusOfApproval, Started
  <1>4. ASSUME Approves(r)
        PROVE  new.status = "Ready" /\ Consented(new)
    <2>1. old.status = "WaitingForApproval"
      BY <1>4, GatewayConstants DEF Approves, HandsOff
    <2> QED  BY <1>1, <1>2, <1>4, <2>1 DEF Approves, RunType
  <1>5. Parks(r) => new.status = "WaitingForHuman"
    BY <1>1 DEF Parks, RunType
  <1>6. Denies(r) => new.status = "Cancelled"
    BY <1>1 DEF Denies, Deny, RunType
  <1>7. Reviews(r) => new.approval = old.approval /\ new.status \in {old.status, "Cancelled"}
    BY <1>1 DEF Reviews, Reviewed, RunType
  <1>8. Executes(r) => new.approval = old.approval /\ old.status \in Started /\ new.status # "WaitingForApproval"
    BY <1>1 DEF Executes, RecordExecution, RunType, Started, PlatformResults
  <1>9. Verifies(r) => new.approval = old.approval /\ old.status \in Started /\ new.status # "WaitingForApproval"
    BY <1>1 DEF Verifies, RecordVerification, RunType, Started
  <1>10. Launched(r) => new.approval = old.approval /\ old.status = "Ready" /\ new.status # "WaitingForApproval"
    BY <1>1 DEF Launched, RunType
  <1>11. Cleared(r) => new.status = "Cancelled"
    BY <1>1 DEF Cleared, RunType
  <1>12. "Cancelled" \notin Started /\ "WaitingForHuman" \notin Started
    BY DEF Started
  <1> QED
    BY <1>2, <1>3, <1>4, <1>5, <1>6, <1>7, <1>8, <1>9, <1>10, <1>11, <1>12
    DEF Changed, Handled

\* Nothing starts without the authority's consent: what the matrix denies or cannot classify
\* never does, what it does not allow by itself only once a human approved it.
THEOREM NothingWithoutConsent == HandsOff => (Spec => []Consent)
  <1> SUFFICES ASSUME HandsOff PROVE Spec => []Consent
    OBVIOUS
  <1>1. Init => ConsentInv
    BY DEF Init, ConsentInv, WaitsForConsent, Consent, Present, Absent
  <1>2. TypeOK /\ OutcomeInv /\ ConsentInv /\ [Next]_vars => ConsentInv'
    <2> SUFFICES ASSUME TypeOK, OutcomeInv, ConsentInv, [Next]_vars, NEW r \in Runs
                 PROVE  /\ run'[r].status = "WaitingForApproval" => Row[r] \in {"auto", "approve"}
                        /\ run'[r].status \in Started \cup {"Ready"} =>
                             \/ run'[r].approval = "NotRequired" /\ Row[r] = "auto"
                             \/ run'[r].approval = "Approved" /\ Row[r] \in {"auto", "approve"}
      BY DEF ConsentInv, WaitsForConsent, Consent, Present
    <2>1. CASE run'[r] = run[r]
      BY <2>1 DEF ConsentInv, WaitsForConsent, Consent, Present, Started
    <2>2. CASE \E t \in Tasks : Inserts(t) /\ task[t].run = r
      BY <2>2 DEF Inserts, FromProposal, Absent, Started
    <2>3. CASE Changed(r)
      BY <2>3, ChangedConsents
    <2> QED  BY <2>1, <2>2, <2>3, RunSteps
  <1>3. ConsentInv => Consent
    BY DEF ConsentInv
  <1> QED  BY <1>1, <1>2, <1>3, Typing, OutcomeHolds, PTL DEF Spec

-----------------------------------------------------------------------------
(* The status an Issue's runs imply. *)

Acting(i) == \E r \in Runs : On(r) = i /\ run[r].status \in {"Proposed", "Ready", "Running"}
BeingVerified(i) == \E r \in Runs : On(r) = i /\ run[r].status = "Verifying"
Waiting(i) ==
    \E r \in Present : On(r) = i /\ (run[r].status = "WaitingForApproval" \/ RunNeedsReview(run[r]))
Materialized(i) == \A r \in Runs : On(r) = i => r \in Present
Remedied(i) ==
    /\ \E r \in Present : On(r) = i /\ JobOf[r] \in Latest /\ IsRemediation(run[r], r \in Mutating)
    /\ \E j \in Latest : IssueOf[j] = i

\* The same rule, once passes are completed and have no follow-ups.
StatusOfRuns(i) ==
    IF ~\E j \in Jobs : IssueOf[j] = i THEN "None"
    ELSE IF Acting(i) THEN "Mitigating"
    ELSE IF BeingVerified(i) THEN "Verifying"
    ELSE IF ~Waiting(i) /\ Materialized(i) /\ Remedied(i) THEN "Resolved"
    ELSE "WaitingForHuman"

\* Completed passes without follow-ups leave an Issue's status to its runs.
LEMMA DerivedForm == \A i \in Issues : DerivedStatus(i) = StatusOfRuns(i)
  <1> SUFFICES ASSUME NEW i \in Issues PROVE DerivedStatus(i) = StatusOfRuns(i)
    OBVIOUS
  <1> DEFINE passes == {j \in Jobs : IssueOf[j] = i}
             jobs == {PassOf(j) : j \in {k \in Jobs : IssueOf[k] = i}}
             runs == {run[r] : r \in RunsOf(i)}
             remediated == \E r \in RunsOf(i) : JobOf[r] \in Latest /\ IsRemediation(run[r], r \in Mutating)
  <1>1. DerivedStatus(i) = DerivedIssueStatus(jobs, runs, remediated)
    BY DEF DerivedStatus
  <1>2. \A r \in Runs : JobOf[r] \in Jobs /\ On(r) = IssueOf[JobOf[r]]
    BY GatewayConstants DEF On
  <1>3. \A r : r \in RunsOf(i) <=> r \in Runs /\ run[r].status # "Absent" /\ On(r) = i
    BY DEF RunsOf, Present
  <1>4. /\ jobs = {} <=> ~\E j \in Jobs : IssueOf[j] = i
        /\ jobs = {} => runs = {}
    BY <1>2, <1>3
  <1>5. \A j \in jobs : j.status = "Completed" /\ j.outcome = "DiagnosisOnly" /\ ~JobNeedsReview(j)
    BY DEF PassOf, JobNeedsReview
  <1>6. (\E r \in runs : r.status \in {"Proposed", "Ready", "Running"}) <=> Acting(i)
    BY <1>3 DEF Acting
  <1>7. (\E r \in runs : r.status = "Verifying") <=> BeingVerified(i)
    BY <1>3 DEF BeingVerified
  <1>8. (\E r \in runs : r.status = "WaitingForApproval" \/ RunNeedsReview(r)) <=> Waiting(i)
    BY <1>3 DEF Waiting, Present
  <1>9. (\E j \in jobs : ~j.materialized) <=> ~Materialized(i)
    <2>1. \A j \in passes : PassOf(j).materialized <=> \A r \in Runs : JobOf[r] = j => r \in Present
      BY DEF PassOf
    <2>2. (\E j \in jobs : ~j.materialized) <=> \E j \in passes : ~PassOf(j).materialized
      OBVIOUS
    <2> QED  BY <1>2, <2>1, <2>2 DEF Materialized
  <1>10. (remediated /\ \E j \in jobs : j.latest /\ ~j.followUp) <=> Remedied(i)
    <2>1. \A j \in passes : (PassOf(j).latest <=> j \in Latest) /\ ~PassOf(j).followUp
      BY DEF PassOf
    <2>2. (\E j \in jobs : j.latest /\ ~j.followUp) <=> \E j \in Latest : IssueOf[j] = i
      BY <2>1, GatewayConstants
    <2>3. remediated <=> \E r \in Present : On(r) = i /\ JobOf[r] \in Latest /\ IsRemediation(run[r], r \in Mutating)
      BY DEF RunsOf
    <2> QED  BY <2>2, <2>3 DEF Remedied
  <1> HIDE DEF jobs, runs, remediated
  <1> QED
    BY <1>1, <1>4, <1>5, <1>6, <1>7, <1>8, <1>9, <1>10 DEF DerivedIssueStatus, StatusOfRuns

\* The same of the next state.
LEMMA DerivedFormNext == (\A i \in Issues : DerivedStatus(i) = StatusOfRuns(i))'
  BY DerivedForm, PTL

\* It depends on the Issue's own runs only.
LEMMA DerivedKept ==
    ASSUME NEW i \in Issues, \A r \in Runs : On(r) = i => run'[r] = run[r]
    PROVE  DerivedStatus(i)' = DerivedStatus(i)
  <1>1. \A r : r \in Present' /\ On(r) = i <=> r \in Present /\ On(r) = i
    BY DEF Present
  <1>2. /\ Acting(i)' <=> Acting(i)
        /\ BeingVerified(i)' <=> BeingVerified(i)
    BY DEF Acting, BeingVerified, On
  <1>3. /\ Waiting(i)' <=> Waiting(i)
        /\ Materialized(i)' <=> Materialized(i)
    BY <1>1 DEF Waiting, Materialized, On, Present, RunNeedsReview, Denied, HasFailed
  <1>4. Remedied(i)' <=> Remedied(i)
    BY <1>1 DEF Remedied, On, Present, IsRemediation
  <1>5. StatusOfRuns(i)' = StatusOfRuns(i)
    BY <1>2, <1>3, <1>4 DEF StatusOfRuns
  <1> QED  BY <1>5, DerivedForm, DerivedFormNext

\* An Issue's work resolves it only once all of it has ended and needs nobody.
LEMMA ResolvedMeansSettled ==
    ASSUME TypeOK, MarksEnded, NEW i \in Issues, DerivedStatus(i) = "Resolved"
    PROVE  AllSettled(i)
  <1>1. ~Acting(i) /\ ~BeingVerified(i) /\ ~Waiting(i) /\ Materialized(i)
    BY DerivedForm DEF StatusOfRuns
  <1> SUFFICES ASSUME NEW r \in Runs, On(r) = i
               PROVE  run[r].status \in RunTerminal /\ ~RunNeedsReview(run[r])
    BY DEF AllSettled
  <1>2. r \in Present /\ run[r] \in RunType /\ EndedMarks(run[r])
    BY <1>1 DEF Materialized, TypeOK, MarksEnded
  <1>3. ~RunNeedsReview(run[r]) /\ run[r].status # "WaitingForApproval"
    BY <1>1, <1>2 DEF Waiting
  <1>4. run[r].status # "WaitingForHuman"
    BY <1>2, <1>3 DEF RunNeedsReview, EndedMarks, RunTerminal, RunType
  <1> QED
    BY <1>1, <1>2, <1>3, <1>4 DEF Acting, BeingVerified, RunType, RunStatus, RunTerminal, Present

-----------------------------------------------------------------------------
(* The quiet of closed Issues. *)

\* A write leaves a run that could still start only if it could before, or parks it with
\* the request that goes on to reconcile.
LEMMA ChangedUnstarted ==
    ASSUME TypeOK, MarksEnded, NEW r \in Runs, Changed(r), run'[r].status \in Unstarted,
           ~Live(On(r))
    PROVE  run[r].status \in {"Proposed", "Ready", "WaitingForApproval"} \/ run'[r].status = "WaitingForHuman"
  <1>1. run[r] \in RunType /\ EndedMarks(run[r])
    BY DEF TypeOK, MarksEnded
  <1>2. ASSUME NEW t \in Tasks, Decides(t, r) PROVE run[r].status = "Proposed"
    BY <1>2 DEF Decides
  <1>3. Approves(r) => run[r].status \in {"Proposed", "WaitingForApproval"}
    BY GatewayConstants DEF Approves
  <1>4. Parks(r) => run[r].status \in {"Proposed", "Ready"}
    BY DEF Parks
  <1>5. ~Denies(r) /\ ~Cleared(r) /\ ~Launched(r)
    BY <1>1 DEF Denies, Deny, Cleared, Launched, RunType, Unstarted
  <1>6. ~Reviews(r)
    BY <1>1 DEF Reviews, Reviewed, RunType, Unstarted, RunNeedsReview, Denied, HasFailed, EndedMarks
  <1>7. Executes(r) => run'[r].status = "WaitingForHuman"
    BY <1>1 DEF Executes, RecordExecution, RunType, Unstarted, PlatformResults
  <1>8. ~Verifies(r)
    BY <1>1 DEF Verifies, RecordVerification, RunType, Unstarted
  <1> QED  BY <1>2, <1>3, <1>4, <1>5, <1>6, <1>7, <1>8 DEF Changed, Handled

\* Every step keeps what a closed Issue still has about to be swept.
LEMMA ClosedKept ==
    ASSUME TypeOK, TypeOK', OutcomeInv, OutcomeInv', ClosedInv, [Next]_vars
    PROVE  ClosedInv'
  <1> SUFFICES ASSUME NEW r \in Runs, drops' = 0, run'[r].status \in Unstarted, ~Live(On(r))'
               PROVE  AboutToBeSwept(r)'
    BY DEF ClosedInv, Present
  <1> USE DEF At
  <1>1. On(r) \in Issues /\ On(r)' = On(r)
    BY GatewayConstants DEF On
  <1>2. ASSUME ~Live(On(r)), run[r].status \in Unstarted, drops = 0 PROVE AboutToBeSwept(r)
    BY <1>2 DEF ClosedInv, Present, Unstarted
  <1>3. \A u \in Tasks : task[u].pc \in {"apply", "sweep"} <=> lock.holder = u
    BY DEF TypeOK, LockOK
  \* Under way: who was about to sweep still is, unless it moves.
  <1>4. ASSUME NEW t \in Tasks, Alone(t), Up, UNCHANGED <<lock, boot>>,
               task[t].pc \notin Reconciling, run'[r].status = run[r].status,
               AboutToBeSwept(r)
        PROVE  AboutToBeSwept(r)'
    BY <1>4 DEF AboutToBeSwept, Alone, Up, Reconciling
  <1>5. ASSUME NEW t \in Tasks, Aside(t) PROVE AboutToBeSwept(r)'
    <2>1. /\ run'[r] = run[r] /\ ~Live(On(r)) /\ drops = 0
          /\ Alone(t) /\ Up /\ UNCHANGED <<lock, boot>> /\ task[t].pc \notin Reconciling
      BY <1>1, <1>5 DEF Aside, RestKept, Live
    <2> QED  BY <1>2, <1>4, <2>1
  <1>6. ASSUME NEW t \in Tasks, NEW s \in Runs, Writes(t, s) PROVE AboutToBeSwept(r)'
    <2>1. /\ ~Live(On(r)) /\ drops = 0
          /\ Alone(t) /\ Up /\ UNCHANGED <<lock, boot>> /\ task[t].pc \notin Reconciling
          /\ task'[t].pc = "reconcile" /\ task'[t].run = s /\ Up'
      BY <1>1, <1>6 DEF Writes, RestKept, Live, Up
    <2>2. CASE s # r
      <3>1. run'[r] = run[r]
        BY <1>6, <2>2 DEF Writes, OnlyRun
      <3> QED  BY <1>2, <1>4, <2>1, <3>1
    <2>3. CASE s = r
      <3>1. Changed(r)
        BY <1>6, <2>3 DEF Writes, Written, Changed
      <3>2. CASE run'[r].status = "WaitingForHuman"
        BY <2>1, <2>3, <3>2 DEF AboutToBeSwept
      <3>3. CASE run[r].status \in {"Proposed", "Ready", "WaitingForApproval"}
        <4>1. AboutToBeSwept(r)
          BY <1>2, <2>1, <3>3 DEF Unstarted
        <4>2. PICK u \in Tasks : task[u].pc = "sweep" /\ r \in lock.todo
          BY <2>1, <3>3, <4>1 DEF AboutToBeSwept, Up
        <4>3. task'[u].pc = "sweep" /\ r \in lock'.todo
          BY <2>1, <4>2 DEF Alone, Reconciling
        <4> QED  BY <2>1, <4>3 DEF AboutToBeSwept
      <3> QED  BY <2>1, <3>1, <3>2, <3>3, ChangedUnstarted DEF OutcomeInv
    <2> QED  BY <2>2, <2>3
  <1>7. ASSUME NEW t \in Tasks, Inserts(t) \/ Starts(t) PROVE AboutToBeSwept(r)'
    <2>1. /\ ~Live(On(r)) /\ drops = 0 /\ Live(On(task[t].run))
          /\ Alone(t) /\ Up /\ UNCHANGED <<lock, boot>> /\ task[t].pc \notin Reconciling
      BY <1>1, <1>7 DEF Inserts, Starts, RestKept, Live, Reconciling
    <2>2. run'[r] = run[r]
      BY <1>7, <2>1 DEF Inserts, Starts, OnlyRun
    <2> QED  BY <1>2, <1>4, <2>1, <2>2
  \* Under the lifecycle lock.
  <1>8. ASSUME NEW t \in Tasks, Reconcile(t) PROVE AboutToBeSwept(r)'
    <2>1. /\ run' = run /\ ~Live(On(r)) /\ drops = 0 /\ Up /\ Up' /\ boot' = boot
          /\ lock.holder = None /\ task[t].pc = "reconcile"
      BY <1>1, <1>8 DEF Reconcile, LockFree, Live, Up
    <2>2. \A u \in Tasks : task[u].pc # "sweep"
      BY <1>3, <2>1, GatewayConstants
    <2>3. PICK u \in Tasks : task[u].pc = "reconcile" /\ task[u].run = r /\ run[r].status = "WaitingForHuman"
      BY <1>2, <2>1, <2>2 DEF AboutToBeSwept, Up
    <2>4. CASE u # t
      BY <1>8, <2>1, <2>3, <2>4, LockShape DEF AboutToBeSwept, Alone
    <2>5. CASE u = t
      <3>1. Target(t) = On(r)
        BY <2>3, <2>5, GatewayConstants DEF Target
      <3>2. lock' = [holder |-> t, next |-> "none", todo |-> RunsOf(On(r))] /\ Goto(t, "sweep")
        BY <1>8, <2>1, <3>1 DEF Reconcile
      <3>3. r \in lock'.todo
        BY <2>3, <3>2 DEF RunsOf, Present
      <3>4. task'[t].pc = "sweep"
        BY <3>2 DEF Goto, Set, TypeOK, TaskRec, TaskType
      <3> QED  BY <2>1, <3>3, <3>4 DEF AboutToBeSwept
    <2> QED  BY <2>4, <2>5
  <1>9. ASSUME NEW t \in Tasks, Apply(t) PROVE AboutToBeSwept(r)'
    <2>1. /\ run' = run /\ drops = 0 /\ Up /\ Up' /\ boot' = boot /\ lock.holder = t
          /\ task[t].pc = "apply" /\ issue' = [issue EXCEPT ![Target(t)] = lock.next]
      BY <1>3, <1>9 DEF Apply, Up
    <2>2. CASE On(r) # Target(t)
      <3>1. ~Live(On(r))
        BY <1>1, <2>1, <2>2 DEF Live, TypeOK
      <3>2. \A u \in Tasks : task[u].pc # "sweep"
        BY <1>3, <2>1
      <3>3. PICK u \in Tasks : task[u].pc = "reconcile" /\ task[u].run = r /\ run[r].status = "WaitingForHuman"
        BY <1>2, <2>1, <3>1, <3>2 DEF AboutToBeSwept, Up
      <3>4. u # t
        BY <2>1, <3>3
      <3> QED  BY <1>9, <2>1, <3>3, <3>4, LockShape DEF AboutToBeSwept, Alone
    <2>3. CASE On(r) = Target(t)
      <3>1. lock.next \in IssueTerminal
        BY <1>1, <2>1, <2>3 DEF Live, TypeOK
      <3>2. lock' = [lock EXCEPT !.todo = RunsOf(On(r))] /\ Goto(t, "sweep")
        BY <1>9, <2>3, <3>1 DEF Apply
      <3>3. r \in lock'.todo
        BY <2>1, <3>2 DEF RunsOf, Present, Unstarted, TypeOK, LockOK
      <3>4. task'[t].pc = "sweep"
        BY <3>2 DEF Goto, Set, TypeOK, TaskRec, TaskType
      <3> QED  BY <2>1, <3>3, <3>4 DEF AboutToBeSwept
    <2> QED  BY <2>2, <2>3
  <1>10. ASSUME NEW t \in Tasks, ApplyConflict(t) \/ Swept(t) PROVE AboutToBeSwept(r)'
    <2>1. /\ run' = run /\ ~Live(On(r)) /\ drops = 0 /\ Up /\ Up' /\ boot' = boot
          /\ task[t].pc \in {"apply", "sweep"}
          /\ task[t].pc = "apply" \/ lock.todo = {}
      BY <1>1, <1>10 DEF ApplyConflict, Swept, Live, Up
    <2>2. PICK u \in Tasks : task[u].pc = "reconcile" /\ task[u].run = r /\ run[r].status = "WaitingForHuman"
      BY <1>2, <1>3, <2>1 DEF AboutToBeSwept, Up
    <2>3. u # t
      BY <2>1, <2>2
    <2> QED  BY <1>10, <2>1, <2>2, <2>3, LockShape DEF AboutToBeSwept, Alone
  <1>11. ASSUME NEW t \in Tasks, NEW s \in Runs, Sweep(t, s) PROVE AboutToBeSwept(r)'
    <2>1. /\ ~Live(On(r)) /\ drops = 0 /\ Up /\ Up' /\ boot' = boot /\ task' = task
          /\ run' = CancelUnstarted(s) /\ lock' = [lock EXCEPT !.todo = @ \ {s}]
      BY <1>1, <1>11 DEF Sweep, Live, Up
    <2>2. s # r /\ run'[r] = run[r]
      BY <2>1 DEF CancelUnstarted, TypeOK, RunType, Unstarted
    <2>3. r \in lock.todo => r \in lock'.todo
      BY <2>1, <2>2 DEF TypeOK, LockOK
    <2> QED  BY <1>2, <2>1, <2>2, <2>3 DEF AboutToBeSwept, Up
  <1>12. ASSUME NEW t \in Tasks, NEW i \in Issues, NEW closure \in IssueTerminal, Close(t, i, closure)
         PROVE  AboutToBeSwept(r)'
    <2>1. /\ run' = run /\ drops = 0 /\ Up /\ Up' /\ boot' = boot /\ lock.holder = None
          /\ task[t].pc = "idle" /\ issue' = [issue EXCEPT ![i] = closure]
          /\ lock' = [holder |-> t, next |-> "none", todo |-> RunsOf(i)]
      BY <1>12 DEF Close, LockFree, Up
    <2>2. CASE On(r) # i
      <3>1. ~Live(On(r))
        BY <1>1, <2>1, <2>2 DEF Live, TypeOK
      <3>2. \A u \in Tasks : task[u].pc # "sweep"
        BY <1>3, <2>1, GatewayConstants
      <3>3. PICK u \in Tasks : task[u].pc = "reconcile" /\ task[u].run = r /\ run[r].status = "WaitingForHuman"
        BY <1>2, <2>1, <3>1, <3>2 DEF AboutToBeSwept, Up
      <3>4. u # t
        BY <2>1, <3>3
      <3> QED  BY <1>12, <2>1, <3>3, <3>4, LockShape DEF AboutToBeSwept, Alone
    <2>3. CASE On(r) = i
      <3>1. r \in lock'.todo
        BY <2>1, <2>3 DEF RunsOf, Present, Unstarted
      <3>2. task'[t].pc = "sweep"
        <4> DEFINE rec == [IdleTask EXCEPT !.op = "close", !.pc = "sweep", !.issue = i, !.then = "end"]
        <4>1. rec.pc = "sweep"
          BY FromIdle DEF TaskType
        <4> QED  BY <1>12, <4>1, SetAlone DEF Close
      <3> QED  BY <2>1, <3>1, <3>2 DEF AboutToBeSwept
    <2> QED  BY <2>2, <2>3
  <1>13. ASSUME NEW t \in Tasks, Drop(t) PROVE FALSE
    BY <1>13, DropShape DEF TypeOK
  <1>14. CASE Crash
    BY <1>14, CrashShape DEF AboutToBeSwept
  \* Startup.
  <1>15. ASSUME Boot, ~Live(On(r)), run[r].status \in Unstarted
         PROVE  \/ boot.phase = "down"
                \/ boot.phase = "sweep" /\ r \in boot.runs
    <2>1. ~Up /\ drops = 0
      BY <1>15, BootShape
    <2> QED  BY <1>2, <1>15, <2>1 DEF AboutToBeSwept
  <1>16. CASE BootStart
    BY <1>1, <1>15, <1>16 DEF BootStart, Boot, AboutToBeSwept, Serving, Live, Present, Unstarted
  <1>17. ASSUME NEW s \in Runs, BootSweep(s) PROVE AboutToBeSwept(r)'
    <2>1. ~Live(On(r)) /\ run' = CancelUnstarted(s) /\ boot' = [boot EXCEPT !.runs = @ \ {s}]
      BY <1>1, <1>17 DEF BootSweep, Live
    <2>2. s # r /\ run'[r] = run[r]
      BY <2>1 DEF CancelUnstarted, TypeOK, RunType, Unstarted
    <2>3. boot.phase = "sweep" /\ r \in boot.runs
      BY <1>15, <1>17, <2>1, <2>2 DEF Boot, BootSweep
    <2> QED  BY <2>1, <2>2, <2>3 DEF AboutToBeSwept, TypeOK
  <1>18. ASSUME BootList \/ BootFinish PROVE FALSE
    <2>1. ~Live(On(r)) /\ run[r].status \in Unstarted
      BY <1>1, <1>18 DEF BootList, BootFinish, Live
    <2> QED  BY <1>15, <1>18, <2>1 DEF Boot, BootList, BootFinish
  <1>19. ASSUME NEW s \in Runs, BootInterrupt(s) \/ BootVerify(s) PROVE FALSE
    <2>1. ~Live(On(r)) /\ boot.phase = "runs" /\ Boot
      BY <1>1, <1>19 DEF BootInterrupt, BootVerify, Live, Boot
    <2>2. run[r].status \notin Unstarted
      BY <1>15, <2>1
    <2>3. Changed(r)
      <3>1. run'[r] # run[r]
        BY <2>2
      <3>2. ~\E t \in Tasks : Inserts(t)
        BY <2>1, BootShape DEF Inserts, RestKept
      <3> QED  BY <3>1, <3>2, RunSteps
    <2>4. run'[r].status = "WaitingForHuman"
      BY <2>1, <2>2, <2>3, ChangedUnstarted DEF OutcomeInv, Unstarted
    <2>5. run'[r].status # "WaitingForHuman"
      <3>1. CASE r # s
        BY <1>19, <2>2, <3>1 DEF BootInterrupt, BootVerify, TypeOK
      <3>2. CASE r = s /\ BootInterrupt(s)
        <4>1. run[r] \in RunType
          BY DEF TypeOK
        <4>2. Deny(run[r]).status = "Cancelled" /\ RecordExecution(run[r], "failed").status = "Failed"
          BY <4>1 DEF Deny, RecordExecution, RunType
        <4> QED  BY <3>2, <4>2 DEF BootInterrupt, TypeOK
      <3>3. CASE r = s /\ BootVerify(s)
        BY <3>3 DEF BootVerify, TypeOK, RunType, RecordVerification
      <3> QED  BY <1>19, <3>1, <3>2, <3>3
    <2> QED  BY <2>4, <2>5
  <1>20. ASSUME NEW k \in Issues, issue' = Reconciled(k), run' = run, boot.phase = "runs", Boot
         PROVE  FALSE
    <2>1. CASE ~Live(On(r))
      BY <1>15, <1>20, <2>1
    <2>2. CASE Live(On(r))
      <3>1. On(r) = k /\ DerivedStatus(k) \in IssueTerminal
        BY <1>1, <1>20, <2>2 DEF Reconciled, Live, TypeOK
      <3>2. DerivedStatus(k) = "Resolved"
        BY <3>1, DerivedForm DEF StatusOfRuns, IssueTerminal
      <3>3. AllSettled(k)
        BY <3>2, ResolvedMeansSettled DEF OutcomeInv
      <3> QED  BY <1>20, <3>1, <3>3 DEF AllSettled, Unstarted, RunTerminal
    <2> QED  BY <2>1, <2>2
  <1>21. ASSUME BootVerified PROVE FALSE
    <2>1. On(boot.verified) \in Issues
      BY <1>21, GatewayConstants DEF BootVerified, TypeOK, On
    <2> QED  BY <1>20, <1>21, <2>1 DEF BootVerified, Boot
  <1>22. ASSUME NEW k \in Issues, BootReconcile(k) PROVE FALSE
    BY <1>20, <1>22 DEF BootReconcile, Boot
  <1>23. CASE UNCHANGED <<run, issue, task, lock, boot, drops>>
    BY <1>1, <1>2, <1>23 DEF AboutToBeSwept, Live, Up
  <1> QED
    BY <1>5, <1>6, <1>7, <1>8, <1>9, <1>10, <1>11, <1>12, <1>13, <1>14, <1>16, <1>17, <1>18,
       <1>19, <1>21, <1>22, <1>23, StepShape DEF Boot

\* Once a closed Issue is swept nothing of it can start any more; what asks for a human only
\* afterwards is swept by the reconciliation its result is followed by.
THEOREM ClosedStaysQuiet == Spec => []ClosedQuiet
  <1>1. Init => ClosedInv
    BY DEF Init, ClosedInv, Present, Absent
  <1>2. TypeOK /\ TypeOK' /\ OutcomeInv /\ OutcomeInv' /\ ClosedInv /\ [Next]_vars => ClosedInv'
    BY ClosedKept
  <1>3. TypeOK /\ OutcomeInv /\ ClosedInv => ClosedQuiet
    <2> SUFFICES ASSUME TypeOK, ClosedInv, Up, LockFree, drops = 0, NEW r \in Present, ~Live(On(r)),
                        run[r].status \in Unstarted
                 PROVE  /\ run[r].status = "WaitingForHuman"
                        /\ \E t \in Tasks : task[t].pc = "reconcile" /\ task[t].run = r
      BY DEF ClosedQuiet, Unstarted
    <2>1. \A u \in Tasks : task[u].pc # "sweep"
      BY GatewayConstants DEF TypeOK, LockOK, LockFree
    <2> QED  BY <2>1 DEF ClosedInv, AboutToBeSwept, Up
  <1> QED  BY <1>1, <1>2, <1>3, Typing, OutcomeHolds, PTL DEF Spec

-----------------------------------------------------------------------------
(* The status of a live Issue. *)

\* A run's command starting leaves what its Issue's work implies as it was.
LEMMA StartKeepsStatus ==
    ASSUME TypeOK, NEW t \in Tasks, Starts(t), NEW i \in Issues
    PROVE  DerivedStatus(i)' = DerivedStatus(i)
  <1> DEFINE r == task[t].run
  <1>1. r \in Runs /\ run[r].status = "Ready" /\ run'[r].status = "Running"
    BY DEF Starts, TypeOK, TaskRec, TaskType, TaskOK, RunPcs, Executing, RunType
  <1>2. CASE On(r) = i
    <2>1. Acting(i) /\ Acting(i)'
      BY <1>1, <1>2 DEF Acting, On
    <2> QED  BY <2>1, DerivedForm, DerivedFormNext DEF StatusOfRuns
  <1>3. CASE On(r) # i
    BY <1>3, DerivedKept DEF Starts, OnlyRun
  <1> QED  BY <1>2, <1>3

\* An Issue whose runs and status a step leaves alone is where it was.
LEMMA BehindKept ==
    ASSUME NEW i \in Issues, issue'[i] = issue[i], DerivedStatus(i)' = DerivedStatus(i)
    PROVE  Behind(i)' <=> Behind(i)
  BY DEF Behind, Live

\* So is a request that owes it a reconciliation, unless that request moves.
LEMMA OwesKept ==
    ASSUME TypeOK, NEW i \in Issues, NEW u \in Tasks, Owes(u, i), task'[u] = task[u],
           \A r \in Runs : On(r) = i /\ run[r].status = "Proposed" => run'[r].status = "Proposed"
    PROVE  Owes(u, i)'
  <1>1. Target(u)' = Target(u)
    BY DEF Target, On
  <1>2. task[u].pc \in {"claim", "evaluate", "settle"} =>
            task[u].run \in Runs /\ On(task[u].run) = Target(u)
    BY GatewayConstants DEF TypeOK, TaskRec, TaskType, TaskOK, RunPcs, Target
  <1> QED  BY <1>1, <1>2 DEF Owes

\* A request that moves outside the lifecycle lock: if it wrote, it owes what it wrote; if it
\* owed an insertion, it still does.
LEMMA OwedByMove ==
    ASSUME TypeOK, OwedNow, NEW t \in Tasks, Alone(t), UNCHANGED <<issue, lock>>,
           task[t].pc \notin Reconciling, task'[t].pc \notin {"apply", "sweep"},
           \A i \in Issues : Owes(t, i)' \/ (~Owes(t, i) /\ DerivedStatus(i)' = DerivedStatus(i)),
           \A i \in Issues : Owes(t, i)' \/
               \A r \in Runs : On(r) = i /\ run[r].status = "Proposed" => run'[r].status = "Proposed"
    PROVE  OwedNow'
  <1>1. ASSUME NEW i \in Issues, Behind(i)' PROVE \E u \in Tasks : Owes(u, i)'
    <2>1. CASE Owes(t, i)'
      BY <2>1
    <2>2. CASE ~Owes(t, i)'
      <3>1. ~Owes(t, i) /\ DerivedStatus(i)' = DerivedStatus(i)
        BY <1>1, <2>2
      <3>2. PICK u \in Tasks : Owes(u, i)
        BY <1>1, <3>1, BehindKept DEF OwedNow
      <3>3. u # t /\ task'[u] = task[u]
        BY <3>1, <3>2 DEF Alone
      <3> QED  BY <2>2, <3>2, <3>3, OwesKept
    <2> QED  BY <2>1, <2>2
  <1>2. ASSUME NEW u \in Tasks, task'[u].pc = "apply", lock'.next # DerivedStatus(Target(u))'
        PROVE  \E v \in Tasks \ {u} : Owes(v, Target(u))'
    <2>0. u # t /\ task'[u] = task[u] /\ task[u].pc = "apply"
      BY <1>2 DEF Alone, Reconciling
    <2>1. PICK i \in Issues : i = Target(u)
      BY <2>0, TargetIssue DEF Reconciling
    <2>2. Target(u)' = i
      BY <2>0, <2>1 DEF Target, On
    <2>3. CASE Owes(t, i)'
      BY <2>0, <2>2, <2>3
    <2>4. CASE ~Owes(t, i)'
      <3>1. ~Owes(t, i) /\ DerivedStatus(i)' = DerivedStatus(i)
        BY <2>1, <2>4
      <3>2. lock.next # DerivedStatus(i)
        BY <1>2, <2>2, <3>1
      <3>3. PICK v \in Tasks \ {u} : Owes(v, i)
        BY <2>0, <2>1, <3>2 DEF OwedNow
      <3>4. v # t /\ task'[v] = task[v]
        BY <3>1, <3>3 DEF Alone
      <3>5. Owes(v, i)'
        BY <2>1, <2>4, <3>3, <3>4, OwesKept
      <3> QED  BY <2>2, <3>5
    <2> QED  BY <2>3, <2>4
  <1> QED  BY <1>1, <1>2 DEF OwedNow

\* A request that moves under the lifecycle lock, where only one Issue's status moves.
LEMMA OwedUnderLock ==
    ASSUME TypeOK, OwedNow, NEW t \in Tasks, Alone(t), NEW k \in Issues,
           Target(t) = k \/ task[t].pc \notin Reconciling \cup Window,
           \A u \in Tasks \ {t} : task[u].pc \notin {"apply", "sweep"},
           \A i \in Issues : issue'[i] = issue[i] \/ i = k,
           \A r \in Runs : On(r) # k => run'[r] = run[r],
           Behind(k)' => \E u \in Tasks : Owes(u, k)',
           task'[t].pc = "apply" => lock'.next = DerivedStatus(Target(t))'
    PROVE  OwedNow'
  <1>1. ASSUME NEW i \in Issues, Behind(i)', i # k PROVE \E u \in Tasks : Owes(u, i)'
    <2>1. DerivedStatus(i)' = DerivedStatus(i) /\ issue'[i] = issue[i]
      BY <1>1, DerivedKept
    <2>2. PICK u \in Tasks : Owes(u, i)
      BY <1>1, <2>1, BehindKept DEF OwedNow
    <2>3. u # t
      BY <1>1, <2>2 DEF Owes, Reconciling, Window
    <2> QED  BY <1>1, <2>2, <2>3, OwesKept DEF Alone
  <1>2. ASSUME NEW u \in Tasks, task'[u].pc = "apply" PROVE lock'.next = DerivedStatus(Target(u))'
    BY <1>2 DEF Alone
  <1> QED  BY <1>1, <1>2 DEF OwedNow

\* Every step keeps what is behind owed.
LEMMA OwedKept ==
    ASSUME ~Merges, TypeOK, TypeOK', OutcomeInv, OutcomeInv', OwedInv, [Next]_vars
    PROVE  OwedInv'
  <1> USE DEF At
  <1>1. \A u \in Tasks : task[u] \in TaskType /\ TaskOK(task[u])
    BY DEF TypeOK, TaskRec
  <1>2. \A r \in Runs : On(r) \in Issues /\ On(r) # None /\ r # None
    BY GatewayConstants DEF On
  \* The requests.
  <1>3. ASSUME Up', drops' = 0, ~Boot PROVE OwedNow'
    <2>1. CASE UNCHANGED <<run, issue, task, lock, boot, drops>>
      <3>1. Up /\ drops = 0
        BY <1>3, <2>1 DEF Up
      <3>2. \A i \in Issues : DerivedStatus(i)' = DerivedStatus(i)
        BY <2>1, DerivedKept
      <3>3. \A i \in Issues, u \in Tasks : Owes(u, i) => Owes(u, i)'
        BY <2>1, OwesKept
      <3>4. \A u \in Tasks : task[u].pc = "apply" => Target(u) \in Issues /\ Target(u)' = Target(u)
        BY <2>1, TargetIssue DEF Target, On, Reconciling
      <3> QED  BY <2>1, <3>1, <3>2, <3>3, <3>4, BehindKept DEF OwedInv, OwedNow
    <2>2. ASSUME NEW t \in Tasks, Aside(t) PROVE OwedNow'
      <3>1. /\ OwedNow /\ Alone(t) /\ UNCHANGED <<issue, lock>> /\ run' = run
            /\ task[t].pc \notin Reconciling /\ task'[t].pc \notin {"apply", "sweep"}
        BY <1>3, <2>2 DEF Aside, RestKept, OwedInv
      <3>2. \A i \in Issues : DerivedStatus(i)' = DerivedStatus(i)
        BY <3>1, DerivedKept
      <3>3. ASSUME NEW i \in Issues, Owes(t, i) PROVE Owes(t, i)'
        <4>1. task[t].pc \in Window /\ run[task[t].run].status = "Proposed"
          BY <3>1, <3>3 DEF Owes, Reconciling, Window
        <4>2. task'[t].pc \in Window /\ task'[t].run = task[t].run /\ task[t].run # None
          BY <1>1, <2>2, <4>1 DEF Aside, TaskOK, Window, RunPcs
        <4>3. Target(t)' = Target(t)
          BY <4>2 DEF Target, On
        <4> QED  BY <3>1, <3>3, <4>1, <4>2, <4>3 DEF Owes, Window
      <3> QED  BY <3>1, <3>2, <3>3, OwedByMove
    <2>3. ASSUME NEW t \in Tasks, NEW r \in Runs, Writes(t, r) PROVE OwedNow'
      <3>1. /\ OwedNow /\ Alone(t) /\ UNCHANGED <<issue, lock>>
            /\ task[t].pc \notin Reconciling /\ task'[t].pc = "reconcile" /\ task'[t].run = r
            /\ task[t].pc \in Window => task[t].run = r
            /\ \A s \in Runs \ {r} : run'[s] = run[s]
        BY <1>3, <2>3 DEF Writes, RestKept, OwedInv, OnlyRun
      <3>2. Owes(t, On(r))'
        BY <1>2, <3>1 DEF Owes, Target, On
      <3>3. \A i \in Issues : i # On(r) => DerivedStatus(i)' = DerivedStatus(i)
        BY <3>1, DerivedKept
      <3>4. \A i \in Issues : i # On(r) => ~Owes(t, i)
        BY <1>2, <3>1 DEF Owes, Target, Window, Reconciling
      <3> QED  BY <3>1, <3>2, <3>3, <3>4, OwedByMove
    <2>4. ASSUME NEW t \in Tasks, Inserts(t) PROVE OwedNow'
      <3>0. PICK r \in Runs : r = task[t].run
        BY <1>1, <2>4 DEF Inserts, TaskType, TaskOK, RunPcs
      <3>1. task'[t].pc = "claim" /\ task'[t].run = r
        BY <1>1, <2>4, <3>0 DEF Inserts, TaskType
      <3>2. /\ OwedNow /\ Alone(t) /\ UNCHANGED <<issue, lock>> /\ task[t].pc = "insert"
            /\ run'[r].status = "Proposed" /\ \A s \in Runs \ {r} : run'[s] = run[s]
        BY <1>3, <2>4, <3>0 DEF Inserts, RestKept, OwedInv, OnlyRun, FromProposal, Absent
      <3>3. Owes(t, On(r))'
        BY <1>2, <3>1, <3>2 DEF Owes, Target, On
      <3>4. \A i \in Issues : i # On(r) => DerivedStatus(i)' = DerivedStatus(i)
        BY <3>2, DerivedKept
      <3>5. \A i \in Issues : ~Owes(t, i)
        BY <3>2 DEF Owes
      <3> QED  BY <1>2, <3>1, <3>2, <3>3, <3>4, <3>5, OwedByMove DEF Reconciling
    <2>5. ASSUME NEW t \in Tasks, Starts(t) PROVE OwedNow'
      <3>1. /\ OwedNow /\ Alone(t) /\ UNCHANGED <<issue, lock>>
            /\ task[t].pc = "admit" /\ task'[t].pc = "platform"
            /\ \A s \in Runs : run[s].status = "Proposed" => run'[s] = run[s]
        BY <1>3, <2>5 DEF Starts, RestKept, OwedInv, OnlyRun
      <3>2. \A i \in Issues : DerivedStatus(i)' = DerivedStatus(i)
        BY <2>5, StartKeepsStatus
      <3>3. \A i \in Issues : ~Owes(t, i)
        BY <3>1 DEF Owes
      <3> QED  BY <3>1, <3>2, <3>3, OwedByMove DEF Reconciling
    <2>6. ASSUME NEW t \in Tasks,
                 Reconcile(t) \/ Apply(t) \/ Swept(t) \/ (\E r \in Runs : Sweep(t, r))
          PROVE  OwedNow'
      <3>1. /\ task[t].pc \in Reconciling /\ OwedNow /\ Alone(t)
            /\ \A u \in Tasks \ {t} : task[u].pc \notin {"apply", "sweep"}
        BY <1>3, <2>6, LockShape DEF Reconcile, Apply, Swept, Sweep, Reconciling, OwedInv
      <3>2. PICK k \in Issues : k = Target(t)
        BY <3>1, TargetIssue
      <3>3. CASE Reconcile(t) /\ Behind(k)
        <4>1. /\ lock' = [holder |-> t, next |-> DerivedStatus(k), todo |-> {}] /\ Goto(t, "apply")
              /\ UNCHANGED <<run, issue>>
          BY <3>2, <3>3 DEF Reconcile, Behind
        <4>2. task'[t].pc = "apply"
          BY <1>1, <4>1 DEF Goto, Set, TypeOK, TaskType
        <4>3. Target(t)' = k
          BY <3>1, <3>2, <3>3, <4>2, LockShape DEF Reconciling
        <4>4. Owes(t, k)'
          BY <4>2, <4>3 DEF Owes
        <4>5. DerivedStatus(k)' = DerivedStatus(k)
          BY <4>1, DerivedKept
        <4>6. lock'.next = DerivedStatus(Target(t))'
          BY <4>1, <4>3, <4>5
        <4> QED  BY <3>1, <3>2, <4>1, <4>4, <4>6, OwedUnderLock
      <3>4. CASE Reconcile(t) /\ ~Behind(k)
        <4>1. UNCHANGED <<run, issue>> /\ (Goto(t, "sweep") \/ Set(t, AfterReconcile(t)))
          BY <3>2, <3>4 DEF Reconcile, Behind
        <4>2. task'[t].pc # "apply"
          BY <1>1, <3>1, <4>1, AfterReconcileAside DEF Goto, Set, TypeOK, TaskType, Reconciling
        <4>3. ~Behind(k)'
          BY <3>4, <4>1, DerivedKept, BehindKept
        <4> QED  BY <3>1, <3>2, <4>1, <4>2, <4>3, OwedUnderLock
      <3>5. CASE Apply(t)
        <4>1. /\ run' = run /\ issue' = [issue EXCEPT ![k] = lock.next]
              /\ Goto(t, "sweep") \/ Set(t, AfterReconcile(t))
              /\ task[t].pc = "apply"
          BY <3>2, <3>5 DEF Apply
        <4>2. task'[t].pc # "apply"
          BY <1>1, <3>1, <4>1, AfterReconcileAside DEF Goto, Set, TypeOK, TaskType, Reconciling
        <4>3. issue'[k] = lock.next /\ \A i \in Issues \ {k} : issue'[i] = issue[i]
          BY <4>1 DEF TypeOK
        <4>4. DerivedStatus(k)' = DerivedStatus(k)
          BY <4>1, DerivedKept
        <4>5. CASE lock.next = DerivedStatus(k)
          <5>1. \A s : s \notin IssueNext(s)
            BY DEF IssueNext
          <5>2. ~Behind(k)'
            BY <4>3, <4>4, <4>5, <5>1 DEF Behind
          <5> QED  BY <3>1, <3>2, <4>1, <4>2, <4>3, <5>2, OwedUnderLock
        <4>6. CASE lock.next # DerivedStatus(k)
          <5>1. PICK u \in Tasks \ {t} : Owes(u, k)
            BY <3>1, <3>2, <4>1, <4>6 DEF OwedNow
          <5>2. Owes(u, k)'
            BY <3>1, <4>1, <5>1, OwesKept DEF Alone
          <5> QED  BY <3>1, <3>2, <4>1, <4>2, <4>3, <5>2, OwedUnderLock
        <4> QED  BY <4>5, <4>6
      <3>6. CASE Swept(t)
        <4>1. UNCHANGED <<run, issue>> /\ task[t].pc = "sweep" /\ Set(t, AfterReconcile(t))
          BY <3>6 DEF Swept
        <4>2. task'[t].pc # "apply"
          BY <3>1, <4>1, AfterReconcileAside DEF Reconciling
        <4>3. ASSUME Behind(k)' PROVE \E u \in Tasks : Owes(u, k)'
          <5>1. PICK u \in Tasks : Owes(u, k)
            BY <3>1, <4>1, <4>3, DerivedKept, BehindKept DEF OwedNow
          <5>2. u # t
            BY <4>1, <5>1 DEF Owes
          <5> QED  BY <3>1, <4>1, <5>1, <5>2, OwesKept DEF Alone
        <4> QED  BY <3>1, <3>2, <4>1, <4>2, <4>3, OwedUnderLock
      <3>7. ASSUME NEW r \in Runs, Sweep(t, r) PROVE OwedNow'
        <4>1. /\ issue' = issue /\ task' = task /\ task[t].pc = "sweep" /\ ~Live(On(r))
              /\ \A s \in Runs \ {r} : run'[s] = run[s]
          BY <3>7 DEF Sweep, CancelUnstarted, OutcomeInv, SweepsClosed, TypeOK
        <4>2. \A i \in Issues : i # On(r) => DerivedStatus(i)' = DerivedStatus(i)
          BY <4>1, DerivedKept
        <4>3. \A i \in Issues : Behind(i)' => Behind(i) /\ i # On(r)
          BY <4>1, <4>2 DEF Behind, Live, On
        <4>4. \A i \in Issues, u \in Tasks : Owes(u, i) /\ i # On(r) => Owes(u, i)'
          BY <4>1, OwesKept
        <4>5. \A u \in Tasks : task'[u].pc # "apply"
          BY <3>1, <4>1
        <4> QED  BY <3>1, <4>3, <4>4, <4>5 DEF OwedNow
      <3> QED  BY <2>6, <3>3, <3>4, <3>5, <3>6, <3>7
    <2>7. ASSUME NEW t \in Tasks, ApplyConflict(t) PROVE FALSE
      BY <2>7 DEF ApplyConflict
    <2>8. ASSUME NEW t \in Tasks, NEW i \in Issues, NEW closure \in IssueTerminal, Close(t, i, closure)
          PROVE  OwedNow'
      <3>1. /\ OwedNow /\ Alone(t) /\ task[t].pc = "idle"
            /\ \A u \in Tasks \ {t} : task[u].pc \notin {"apply", "sweep"}
        BY <1>3, <2>8, LockShape DEF Close, OwedInv
      <3>2. run' = run /\ issue' = [issue EXCEPT ![i] = closure]
        BY <2>8 DEF Close
      <3>3. ~Behind(i)' /\ \A k \in Issues \ {i} : issue'[k] = issue[k]
        BY <3>2 DEF Behind, Live, TypeOK
      <3>4. task'[t].pc = "sweep"
        <4> DEFINE rec == [IdleTask EXCEPT !.op = "close", !.pc = "sweep", !.issue = i, !.then = "end"]
        <4>1. rec.pc = "sweep"
          BY FromIdle DEF TaskType
        <4> QED  BY <2>8, <4>1, SetAlone DEF Close
      <3> QED  BY <3>1, <3>2, <3>3, <3>4, OwedUnderLock DEF Reconciling, Window
    <2>9. ASSUME NEW t \in Tasks, Drop(t) PROVE FALSE
      BY <1>3, <2>9, DropShape DEF TypeOK
    <2>10. ~Crash
      BY <1>3, CrashShape DEF Up
    <2> QED
      BY <1>3, <2>1, <2>2, <2>3, <2>4, <2>5, <2>6, <2>7, <2>8, <2>9, <2>10, StepShape
  \* Startup.
  <1>4. ASSUME boot.phase = "runs", Boot
        PROVE  /\ boot'.phase = "runs" =>
                    \A i \in Issues \ boot'.issues : Live(i)' =>
                        boot'.runs = {} /\ boot'.verified = None /\ ~Behind(i)'
               /\ Up' => OwedNow'
    <2>1. /\ ~Up /\ task' = task
          /\ \A i \in Issues \ boot.issues : Live(i) => boot.runs = {} /\ boot.verified = None /\ ~Behind(i)
      BY <1>4, BootShape DEF OwedInv
    <2>2. \A i \in Issues : Live(i)' => Live(i)
      BY ClosedForGood DEF OutcomeInv
    <2>3. ASSUME boot'.phase = "runs", boot'.issues = boot.issues,
                 boot.runs # {} \/ boot.verified # None
          PROVE  \A i \in Issues \ boot'.issues : ~Live(i)'
      BY <2>1, <2>2, <2>3
    <2>4. ASSUME NEW r \in Runs, BootInterrupt(r) \/ BootVerify(r)
          PROVE  boot'.phase = "runs" /\ boot'.issues = boot.issues /\ boot.runs # {}
      BY <1>4, <2>4 DEF BootInterrupt, BootVerify, TypeOK
    <2>5. ASSUME BootVerified
          PROVE  boot'.phase = "runs" /\ boot'.issues = boot.issues /\ boot.verified # None
      BY <1>4, <2>5 DEF BootVerified, TypeOK
    <2>6. ASSUME NEW k \in Issues, BootReconcile(k)
          PROVE  /\ boot'.phase = "runs"
                 /\ \A i \in Issues \ boot'.issues : Live(i)' =>
                      boot'.runs = {} /\ boot'.verified = None /\ ~Behind(i)'
      <3>1. /\ boot'.phase = "runs" /\ boot'.runs = {} /\ boot'.verified = None
            /\ boot'.issues = boot.issues \ {k} /\ run' = run /\ issue' = Reconciled(k)
        BY <1>4, <2>6 DEF BootReconcile, TypeOK
      <3>2. \A i \in Issues : DerivedStatus(i)' = DerivedStatus(i)
        BY <3>1, DerivedKept
      <3>3. \A i \in Issues \ {k} : issue'[i] = issue[i]
        BY <3>1 DEF Reconciled, TypeOK
      <3>4. \A i \in Issues \ boot.issues : i # k /\ Live(i)' => ~Behind(i)'
        BY <2>1, <2>2, <3>2, <3>3, BehindKept
      <3>5. ~Behind(k)'
        <4>1. CASE Behind(k)
          <5>1. issue'[k] = DerivedStatus(k)
            BY <3>1, <4>1 DEF Reconciled, Behind, TypeOK
          <5>2. \A s : s \notin IssueNext(s)
            BY DEF IssueNext
          <5> QED  BY <3>2, <5>1, <5>2 DEF Behind
        <4>2. CASE ~Behind(k)
          BY <3>1, <3>2, <4>2, BehindKept DEF Reconciled, Behind
        <4> QED  BY <4>1, <4>2
      <3> QED  BY <3>1, <3>4, <3>5
    <2>7. ASSUME BootFinish PROVE boot'.phase = "up" /\ OwedNow'
      <3>1. boot'.phase = "up" /\ UNCHANGED <<run, issue, task>> /\ boot.issues = {}
        BY <2>7 DEF BootFinish, Serving
      <3>2. \A i \in Issues : ~Behind(i)
        BY <2>1, <3>1 DEF Behind
      <3>3. \A i \in Issues : ~Behind(i)'
        BY <3>1, <3>2, DerivedKept, BehindKept
      <3>4. \A u \in Tasks : task'[u].pc = "idle"
        BY <2>1 DEF OutcomeInv, BootIdle
      <3> QED  BY <3>1, <3>3, <3>4 DEF OwedNow
    <2>8. ~BootStart /\ ~BootList /\ \A r \in Runs : ~BootSweep(r)
      BY <1>4 DEF BootStart, BootList, BootSweep
    <2> QED
      BY <1>4, <2>3, <2>4, <2>5, <2>6, <2>7, <2>8 DEF Boot, Up
  <1>5. ASSUME Boot, boot.phase # "runs"
        PROVE  /\ ~Up'
               /\ boot'.phase = "runs" => \A i \in Issues \ boot'.issues : ~Live(i)'
    <2>1. BootStart => boot'.phase = "sweep"
      BY DEF BootStart, Serving
    <2>2. \A r \in Runs : BootSweep(r) => boot'.phase = "sweep"
      BY DEF BootSweep, TypeOK
    <2>3. BootList => boot'.phase = "runs" /\ \A i \in Issues \ boot'.issues : ~Live(i)'
      BY DEF BootList, Serving, Live
    <2> QED
      BY <1>5, <2>1, <2>2, <2>3 DEF Boot, BootVerified, BootFinish, BootInterrupt, BootVerify,
         BootReconcile, Up
  <1>6. ASSUME ~Boot
        PROVE  boot'.phase = "runs" =>
                    \A i \in Issues \ boot'.issues : Live(i)' =>
                        boot'.runs = {} /\ boot'.verified = None /\ ~Behind(i)'
    <2> SUFFICES ASSUME boot'.phase = "runs"
                 PROVE  UNCHANGED <<run, issue, boot>>
      <3>1. ASSUME UNCHANGED <<run, issue, boot>>, NEW i \in Issues
            PROVE  (Behind(i)' <=> Behind(i)) /\ (Live(i)' <=> Live(i))
        BY <3>1, DerivedKept, BehindKept DEF Live
      <3> QED  BY <3>1 DEF OwedInv
    <2>1. ~Crash /\ \A t \in Tasks : ~Drop(t)
      BY CrashShape, DropShape DEF Up
    <2>2. \A t \in Tasks : ~Aside(t) /\ ~Inserts(t) /\ ~Starts(t) /\ \A r \in Runs : ~Writes(t, r)
      BY DEF Aside, Inserts, Starts, Writes, RestKept, Up
    <2> QED  BY <1>6, <2>1, <2>2, StepShape, LockShape DEF Up
  <1> QED  BY <1>3, <1>4, <1>5, <1>6 DEF OwedInv

\* No update of an Issue is lost: whenever its work implies a status it may move to, a
\* request that will reconcile it is in flight - as long as nothing but reconciliations and
\* closures writes the Issue's record.
THEOREM ReconcileNeverLost == ~Merges => (Spec => []NoReconcileLost)
  <1> SUFFICES ASSUME ~Merges PROVE Spec => []NoReconcileLost
    OBVIOUS
  <1>1. Init => OwedInv
    <2> SUFFICES ASSUME Init PROVE OwedInv
      OBVIOUS
    <2>1. \A i \in Issues : ~Behind(i)
      <3> SUFFICES ASSUME NEW i \in Issues PROVE ~Behind(i)
        OBVIOUS
      <3>1. Present = {}
        BY DEF Init, Present, Absent
      <3>2. ~Acting(i) /\ ~BeingVerified(i) /\ ~Remedied(i)
        BY <3>1 DEF Acting, BeingVerified, Remedied, Present
      <3>3. DerivedStatus(i) \in {"None", "WaitingForHuman"}
        BY <3>2, DerivedForm DEF StatusOfRuns
      <3> QED  BY <3>3 DEF Init, Behind, IssueNext
    <2>2. \A t \in Tasks : task[t].pc = "idle"
      BY DEF Init, IdleTask
    <2> QED  BY <2>1, <2>2 DEF Init, OwedInv, OwedNow, Serving
  <1>2. TypeOK /\ TypeOK' /\ OutcomeInv /\ OutcomeInv' /\ OwedInv /\ [Next]_vars => OwedInv'
    BY OwedKept
  <1>3. OwedInv => NoReconcileLost
    BY DEF OwedInv, OwedNow, NoReconcileLost, Behind, Owes
  <1> QED  BY <1>1, <1>2, <1>3, Typing, OutcomeHolds, PTL DEF Spec

-----------------------------------------------------------------------------
(* What a step may never do. *)

\* A request inserts only what is not there yet.
LEMMA InsertsAbsent ==
    ASSUME TypeOK, Exclusion, NEW t \in Tasks, Inserts(t)
    PROVE  task[t].run \notin Present
  <1>1. task[t].op = "propose"
    BY DEF Inserts, TypeOK, TaskRec, TaskOK
  <1> QED  BY <1>1 DEF Inserts, Exclusion, InsertedOnce, Pending

\* Every write moves its run and its Issue along their status machines: no code path writes
\* over a status that changed since it was read, and none fails on an illegal transition.
THEOREM StatusesFollowMachines == HandsOff => (Spec => AlongTheMachines)
  <1> SUFFICES ASSUME HandsOff PROVE Spec => AlongTheMachines
    OBVIOUS
  <1> DEFINE Along == /\ \A r \in Present : run'[r].status # run[r].status =>
                                              run'[r].status \in RunNext(run[r].status)
                      /\ \A i \in Issues : issue'[i] # issue[i] => issue'[i] \in IssueNext(issue[i])
  <1>1. TypeOK /\ OutcomeInv /\ ExclusionInv /\ [Next]_vars => Along
    <2> SUFFICES ASSUME TypeOK, OutcomeInv, ExclusionInv, [Next]_vars PROVE Along
      OBVIOUS
    <2>1. ASSUME NEW r \in Present, run'[r].status # run[r].status
          PROVE  run'[r].status \in RunNext(run[r].status)
      <3>1. r \in Runs /\ run'[r] # run[r]
        BY <2>1 DEF Present
      <3>2. ~\E t \in Tasks : Inserts(t) /\ task[t].run = r
        BY <2>1, InsertsAbsent DEF ExclusionInv
      <3>3. Changed(r)
        BY <3>1, <3>2, RunSteps
      <3> QED  BY <2>1, <3>1, <3>3, ChangedRuns DEF OutcomeInv
    <2>2. \A i \in Issues : issue'[i] # issue[i] => issue'[i] \in IssueNext(issue[i])
      BY IssueSteps DEF OutcomeInv
    <2> QED  BY <2>1, <2>2
  <1>2. TypeOK /\ OutcomeInv /\ ExclusionInv /\ [Next]_vars => [Along]_vars
    BY <1>1
  <1> HIDE DEF Along
  <1>3. Spec => [][Along]_vars
    BY <1>2, Typing, OutcomeHolds, ExclusionHolds, PTL DEF Spec
  <1> QED  BY <1>3 DEF AlongTheMachines, Along

\* What has settled stays as it is.
LEMMA SettledKept ==
    ASSUME TypeOK, OutcomeInv, Exclusion, [Next]_vars, NEW i \in Issues, AllSettled(i),
           NEW r \in Runs, On(r) = i
    PROVE  run'[r] = run[r]
  <1>1. run[r].status \in RunTerminal /\ ~RunNeedsReview(run[r])
    BY DEF AllSettled
  <1>2. ~\E t \in Tasks : Inserts(t) /\ task[t].run = r
    BY <1>1, InsertsAbsent DEF Present, RunTerminal
  <1>3. ~Changed(r)
    BY <1>1, GatewayConstants DEF Changed, Handled, Decides, Approves, Parks, Denies, Reviews,
       Executes, Verifies, Launched, Cleared, RunTerminal, RunNext, Unstarted
  <1> QED  BY <1>2, <1>3, RunSteps

\* The decision to resolve an Issue outlives the read it was made on.
LEMMA ResolvesKept ==
    ASSUME TypeOK, OutcomeInv, Exclusion, ResolvesSettled, [Next]_vars
    PROVE  ResolvesSettled'
  <1> SUFFICES ASSUME NEW u \in Tasks, task'[u].pc = "apply", lock'.next = "Resolved"
               PROVE  AllSettled(Target(u))'
    BY DEF ResolvesSettled
  <1>1. ASSUME NEW i \in Issues, AllSettled(i) PROVE AllSettled(i)'
    <2>1. \A r \in Runs : On(r) = i => run'[r] = run[r]
      BY <1>1, SettledKept
    <2> QED  BY <1>1, <2>1 DEF AllSettled, On, RunNeedsReview, Denied, HasFailed
  <1>2. CASE task'[u] = task[u] /\ UNCHANGED <<issue, lock>>
    <2>1. PICK i \in Issues : i = Target(u)
      BY <1>2, TargetIssue DEF Reconciling
    <2>2. Target(u)' = i
      BY <1>2, <2>1 DEF Target, On
    <2>3. AllSettled(i)
      BY <1>2, <2>1 DEF ResolvesSettled
    <2> QED  BY <1>1, <2>2, <2>3
  <1>3. CASE /\ Target(u) \in Issues /\ Target(u)' = Target(u)
             /\ lock'.next = DerivedStatus(Target(u))
    <2>1. PICK i \in Issues : i = Target(u)
      BY <1>3
    <2>2. AllSettled(i)
      BY <1>3, <2>1, ResolvedMeansSettled DEF OutcomeInv
    <2> QED  BY <1>1, <1>3, <2>1, <2>2
  <1> QED  BY <1>2, <1>3, ApplyEntered DEF OutcomeInv

\* Reconciliation resolves an Issue only while every proposal of every pass of it has its
\* run, and every run ended and was reviewed where it must be, although the decision was
\* made on an earlier read.
THEOREM ResolvedOnlySettled == HandsOff => (Spec => ResolvedWhenSettled)
  <1> SUFFICES ASSUME HandsOff PROVE Spec => ResolvedWhenSettled
    OBVIOUS
  <1> DEFINE Settled == \A i \in Issues :
                 /\ issue'[i] = "Resolved" /\ issue[i] # "Resolved"
                 /\ ~\E t \in Tasks : Close(t, i, "Resolved")
                 => \A r \in Runs : On(r) = i =>
                        run'[r].status \in RunTerminal /\ ~RunNeedsReview(run'[r])
  <1>1. Init => ResolvesSettled
    BY DEF Init, ResolvesSettled, IdleTask
  <1>2. TypeOK /\ OutcomeInv /\ ExclusionInv /\ ResolvesSettled /\ [Next]_vars => ResolvesSettled'
    BY ResolvesKept DEF ExclusionInv
  <1>3. TypeOK /\ OutcomeInv /\ ExclusionInv /\ ResolvesSettled /\ [Next]_vars => Settled
    <2> SUFFICES ASSUME TypeOK, OutcomeInv, ExclusionInv, ResolvesSettled, [Next]_vars, NEW i \in Issues,
                        issue'[i] = "Resolved", issue[i] # "Resolved",
                        ~\E t \in Tasks : Close(t, i, "Resolved"),
                        NEW r \in Runs, On(r) = i
                 PROVE  run'[r].status \in RunTerminal /\ ~RunNeedsReview(run'[r])
      OBVIOUS
    <2>1. AllSettled(i)
      <3>1. ASSUME NEW t \in Tasks, Apply(t), Target(t) = i, issue'[i] = lock.next
            PROVE  AllSettled(i)
        BY <3>1 DEF ResolvesSettled, Apply, At
      <3>2. ASSUME DerivedStatus(i) = issue'[i] PROVE AllSettled(i)
        BY <3>2, ResolvedMeansSettled DEF OutcomeInv
      <3>3. ApplyFits
        BY DEF OutcomeInv
      <3> QED  BY <3>1, <3>2, <3>3, IssueSteps
    <2>2. run'[r] = run[r]
      BY <2>1, SettledKept DEF ExclusionInv
    <2> QED  BY <2>1, <2>2 DEF AllSettled
  <1>4. TypeOK /\ OutcomeInv /\ ExclusionInv /\ ResolvesSettled /\ [Next]_vars => [Settled]_vars
    BY <1>3
  <1> HIDE DEF Settled
  <1>5. Spec => [][Settled]_vars
    BY <1>1, <1>2, <1>4, Typing, OutcomeHolds, ExclusionHolds, PTL DEF Spec
  <1> QED  BY <1>5 DEF ResolvedWhenSettled, Settled
=============================================================================
