------------------------ MODULE ActionGatewayProofs ------------------------
(***************************************************************************)
(* Theorems about ActionGateway, for every set of runs, passes, Issues and *)
(* requests.                                                               *)
(***************************************************************************)
EXTENDS ActionGateway, TLAPS

-----------------------------------------------------------------------------
(* Type correctness. *)

\* The request record a request starts from and ends in is well-formed.
LEMMA IdleTyped == IdleTask \in TaskRec
  BY GatewayConstants DEF IdleTask, TaskRec, TaskType, TaskOK, Executing, Reconciling, RunPcs

\* The two ways the code's status tables are read stay inside the status sets.
LEMMA StatusTyped ==
    /\ \A a : StatusOfApproval(a) \in RunStatus
    /\ \A s : IssueNext(s) \subseteq IssueStatus
  BY DEF StatusOfApproval, RunStatus, IssueNext, IssueStatus

\* Writing a well-formed record into a request keeps all of them well-formed.
LEMMA SetTyped ==
    ASSUME TypeOK, NEW t \in Tasks, NEW rec \in TaskRec, Set(t, rec)
    PROVE  task' \in [Tasks -> TaskRec]
  BY DEF TypeOK, Set

\* A request that neither held nor takes the lifecycle lock leaves it consistent.
LEMMA LockKept ==
    ASSUME TypeOK, NEW t \in Tasks, NEW rec \in TaskRec, Set(t, rec), UNCHANGED lock,
           task[t].pc \notin {"apply", "sweep"}, rec.pc \notin {"apply", "sweep"}
    PROVE  LockOK'
  BY DEF TypeOK, LockOK, Set

\* A request that gives the lifecycle lock back leaves it consistent.
LEMMA LockFreed ==
    ASSUME TypeOK, NEW t \in Tasks, NEW rec \in TaskRec, Set(t, rec), Unlock,
           task[t].pc \in {"apply", "sweep"}, rec.pc \notin {"apply", "sweep"}
    PROVE  LockOK'
  BY GatewayConstants DEF TypeOK, LockOK, Set, Unlock, FreeLock

\* A request that takes the free lifecycle lock leaves it consistent.
LEMMA LockTaken ==
    ASSUME TypeOK, NEW t \in Tasks, NEW rec \in TaskRec, Set(t, rec), LockFree,
           NEW next \in IssueStatus \cup {"none"}, NEW todo \in SUBSET Runs,
           lock' = [holder |-> t, next |-> next, todo |-> todo],
           rec.pc = "sweep" \/ (rec.pc = "apply" /\ next # "none")
    PROVE  LockOK'
  BY GatewayConstants DEF TypeOK, LockOK, Set, LockFree

\* What follows execute_and_verify, and what follows a reconciliation, is well-formed.
LEMMA FinishedTyped ==
    ASSUME TypeOK, NEW t \in Tasks, task[t].then \notin {"execute", "verify"}
    PROVE  Finished(t) \in TaskRec /\ Finished(t).pc \notin Reconciling
  <1> USE DEF Executing, Reconciling, RunPcs
  <1>1. task[t] \in TaskType /\ TaskOK(task[t])
    BY DEF TypeOK, TaskRec
  <1>2. CASE task[t].op = "propose"
    <2>1. Finished(t) = [task[t] EXCEPT !.pc = "propose", !.run = None, !.exec = FALSE]
      BY <1>2 DEF Finished
    <2> QED  BY <1>1, <1>2, <2>1 DEF TaskRec, TaskType, TaskOK
  <1>3. CASE task[t].op = "resume"
    <2>1. Finished(t) = [task[t] EXCEPT !.pc = "drain", !.run = None, !.exec = FALSE]
      BY <1>3 DEF Finished
    <2> QED  BY <1>1, <1>3, <2>1 DEF TaskRec, TaskType, TaskOK
  <1>4. CASE task[t].op \notin {"propose", "resume"}
    <2>1. Finished(t) = IdleTask
      BY <1>4 DEF Finished
    <2> QED  BY <2>1, IdleTyped DEF IdleTask
  <1> QED  BY <1>2, <1>3, <1>4

LEMMA AfterReconcileTyped ==
    ASSUME TypeOK, NEW t \in Tasks, task[t].pc \in Reconciling
    PROVE  AfterReconcile(t) \in TaskRec /\ AfterReconcile(t).pc \notin Reconciling
  <1> USE DEF Executing, Reconciling, RunPcs
  <1>1. task[t] \in TaskType /\ TaskOK(task[t])
    BY DEF TypeOK, TaskRec
  <1>2. CASE task[t].then = "end"
    BY <1>2, IdleTyped DEF AfterReconcile, IdleTask
  <1>3. CASE task[t].then = "done"
    BY <1>3, FinishedTyped DEF AfterReconcile
  <1>4. CASE task[t].then \in {"execute", "verify"}
    <2>1. AfterReconcile(t) = [task[t] EXCEPT !.pc = task[t].then, !.then = "done"]
      BY <1>4 DEF AfterReconcile
    <2> QED  BY <1>1, <1>4, <2>1 DEF TaskRec, TaskType, TaskOK
  <1> QED  BY <1>1, <1>2, <1>3, <1>4 DEF TaskType

\* A request moves to a well-formed record without touching the lifecycle lock.
LEMMA Moved ==
    ASSUME TypeOK, NEW t \in Tasks, NEW rec \in TaskRec, Set(t, rec), UNCHANGED lock,
           task[t].pc \notin {"apply", "sweep"}, rec.pc \notin {"apply", "sweep"}
    PROVE  task' \in [Tasks -> TaskRec] /\ LockOK'
  BY SetTyped, LockKept

\* So does a request that ends in an error.
LEMMA FailTyped ==
    ASSUME TypeOK, NEW t \in Tasks, Fail(t), UNCHANGED lock,
           task[t].pc \notin {"apply", "sweep"}
    PROVE  task' \in [Tasks -> TaskRec] /\ LockOK'
  <1>1. IdleTask.pc = "idle"
    BY DEF IdleTask
  <1> QED  BY <1>1, IdleTyped, Moved DEF Fail

\* So does one that goes on to reconcile the Issue of its run.
LEMMA ReconcileThenTyped ==
    ASSUME TypeOK, NEW t \in Tasks, NEW then \in {"done", "end", "execute", "verify"},
           ReconcileThen(t, then), UNCHANGED lock,
           task[t].pc \notin Reconciling,
           task[t].run # None \/ (then = "end" /\ task[t].issue # None),
           task[t].exec => then # "execute", then = "verify" => task[t].exec
    PROVE  task' \in [Tasks -> TaskRec] /\ LockOK'
  <1> DEFINE rec == [task[t] EXCEPT !.pc = "reconcile", !.then = then, !.seen = "none"]
  <1>1. task[t] \in TaskType /\ TaskOK(task[t])
    BY DEF TypeOK, TaskRec
  <1>2. rec \in TaskType
    BY <1>1 DEF TaskType, Reconciling
  <1>3. /\ rec.pc = "reconcile" /\ rec.then = then /\ rec.run = task[t].run
        /\ rec.op = task[t].op /\ rec.issue = task[t].issue /\ rec.exec = task[t].exec
    BY <1>1 DEF TaskType
  <1>4. TaskOK(rec)
    BY <1>1, <1>3 DEF TaskOK, Executing, Reconciling, RunPcs
  <1> QED  BY <1>2, <1>3, <1>4, Moved DEF ReconcileThen, Reconciling, TaskRec

\* A compare-and-set of a run keeps the runs and the requests well-formed.
LEMMA UpdateTyped ==
    ASSUME TypeOK, NEW t \in Tasks, NEW expected, NEW new \in RunType,
           NEW then \in {"done", "execute", "verify"},
           Update(t, expected, new, then), UNCHANGED lock,
           task[t].pc \in RunPcs,
           task[t].exec => then # "execute", then = "verify" => task[t].exec
    PROVE  /\ run' \in [Runs -> RunType]
           /\ task' \in [Tasks -> TaskRec] /\ LockOK'
  <1>1. task[t] \in TaskType /\ TaskOK(task[t])
    BY DEF TypeOK, TaskRec
  <1>2. task[t].run \in Runs /\ task[t].pc \notin Reconciling
    BY <1>1 DEF TaskType, TaskOK, RunPcs, Executing, Reconciling
  <1>3. CASE run[task[t].run].status = expected
    <2>1. ReconcileThen(t, then) /\ run' = [run EXCEPT ![task[t].run] = new]
      BY <1>3 DEF Update
    <2>2. task[t].run # None
      BY <1>2, GatewayConstants
    <2>3. run' \in [Runs -> RunType]
      BY <1>2, <2>1 DEF TypeOK
    <2>4. task' \in [Tasks -> TaskRec] /\ LockOK'
      BY <1>2, <2>1, <2>2, ReconcileThenTyped
    <2> QED  BY <2>3, <2>4
  <1>4. CASE run[task[t].run].status # expected
    <2>1. Fail(t) /\ UNCHANGED run
      BY <1>4 DEF Update
    <2> QED  BY <1>2, <2>1, FailTyped DEF TypeOK, Reconciling
  <1> QED  BY <1>3, <1>4

\* What an execution, a verification, a review or a denial makes of an ActionRun is one.
LEMMA RecordTyped ==
    ASSUME NEW record \in RunType, NEW result \in PlatformResults, NEW evidence \in Evidence
    PROVE  /\ RecordExecution(record, result) \in RunType
           /\ RecordVerification(record, evidence) \in RunType
           /\ Reviewed(record) \in RunType
           /\ Deny(record) \in RunType
  BY DEF RecordExecution, RecordVerification, Reviewed, Deny, RunType, RunStatus, Approval,
         PlatformResults

LEMMA FindingsTyped == \A r \in Runs : Findings(r) \subseteq Evidence
  BY DEF Findings, Evidence

\* Everything a request does by itself preserves the types.
LEMMA WorkTyped ==
    ASSUME TypeOK, NEW t \in Tasks, Work(t)
    PROVE  TypeOK'
  <1> USE DEF Executing, Reconciling, RunPcs
  <1> DEFINE Requests == task' \in [Tasks -> TaskRec] /\ LockOK'
  <1> DEFINE Records == run' \in [Runs -> RunType] /\ issue' \in [Issues -> IssueStatus]
  <1>1. task[t] \in TaskType /\ TaskOK(task[t])
    BY DEF TypeOK, TaskRec
  <1>2. \A r \in Runs : run[r] \in RunType
    BY DEF TypeOK
  <1>3. Requests /\ Records /\ UNCHANGED <<begun, logged, mode, boot, drops, crashes>> => TypeOK'
    BY DEF TypeOK, LockOK
  <1> USE DEF At
  <1>4. ASSUME Propose(t) PROVE TypeOK'
    <2> USE <1>4 DEF Propose
    <2>1. CASE ReconcileThen(t, "end")
      <3>1. /\ task[t].issue # None /\ task[t].exec = FALSE
            /\ task[t].pc \notin Reconciling
        BY <1>1 DEF TaskOK, TaskType
      <3>2. Requests
        BY <2>1, <3>1, ReconcileThenTyped
      <3> QED  BY <1>3, <3>2 DEF TypeOK
    <2>2. CASE Fail(t)
      BY <1>3, <2>2, FailTyped DEF TypeOK
    <2>3. ASSUME NEW r \in task[t].queue,
                 Set(t, [task[t] EXCEPT !.pc = "insert", !.run = r, !.queue = @ \ {r}])
          PROVE  TypeOK'
      <3> DEFINE rec == [task[t] EXCEPT !.pc = "insert", !.run = r, !.queue = @ \ {r}]
      <3>1. r \in Runs
        BY <1>1 DEF TaskType
      <3>2. rec \in TaskType
        BY <1>1, <3>1 DEF TaskType
      <3>3. /\ rec.pc = "insert" /\ rec.run = r /\ rec.then = task[t].then
            /\ rec.op = task[t].op /\ rec.issue = task[t].issue /\ rec.exec = task[t].exec
        BY <1>1 DEF TaskType
      <3>4. TaskOK(rec)
        BY <1>1, <3>1, <3>3, GatewayConstants DEF TaskOK
      <3> QED  BY <1>3, <2>3, <3>2, <3>3, <3>4, Moved DEF TypeOK, TaskRec
    <2> QED  BY <2>1, <2>2, <2>3
  <1>5. ASSUME Insert(t) PROVE TypeOK'
    <2> USE <1>5 DEF Insert
    <2>1. CASE Fail(t) /\ UNCHANGED run
      BY <1>3, <2>1, FailTyped DEF TypeOK
    <2>2. CASE Goto(t, "claim") /\ run' = [run EXCEPT ![task[t].run] = FromProposal]
      <3> DEFINE rec == [task[t] EXCEPT !.pc = "claim"]
      <3>1. rec \in TaskRec /\ rec.pc = "claim"
        BY <1>1 DEF TaskRec, TaskType, TaskOK
      <3>2. FromProposal \in RunType
        BY DEF FromProposal, Absent, RunType, RunStatus, Approval, Evidence
      <3>3. Records
        BY <2>2, <3>2 DEF TypeOK
      <3> QED  BY <1>3, <2>2, <3>1, <3>3, Moved DEF Goto
    <2> QED  BY <2>1, <2>2
  <1>6. ASSUME Claim(t) PROVE TypeOK'
    <2> USE <1>6 DEF Claim
    <2>1. CASE Set(t, [task[t] EXCEPT !.pc = "settle", !.seen = "Rejected"])
      <3> DEFINE rec == [task[t] EXCEPT !.pc = "settle", !.seen = "Rejected"]
      <3>1. rec \in TaskType
        BY <1>1 DEF TaskType, Approval
      <3>2. rec.pc = "settle" /\ TaskOK(rec)
        BY <1>1 DEF TaskOK, TaskType, Approval
      <3> QED  BY <1>3, <2>1, <3>1, <3>2, Moved DEF TypeOK, TaskRec
    <2>2. CASE Goto(t, "evaluate")
      <3> DEFINE rec == [task[t] EXCEPT !.pc = "evaluate"]
      <3>1. rec \in TaskRec /\ rec.pc = "evaluate"
        BY <1>1 DEF TaskRec, TaskType, TaskOK
      <3> QED  BY <1>3, <2>2, <3>1, Moved DEF Goto, TypeOK
    <2> QED  BY <2>1, <2>2
  <1>7. ASSUME Evaluate(t) PROVE TypeOK'
    <2>1. PICK verdict \in Verdicts(task[t].run) :
            Set(t, [task[t] EXCEPT !.pc = "settle", !.seen = verdict])
      BY <1>7 DEF Evaluate
    <2>2. verdict \in {"Rejected", "WaitingForHuman", "Pending", "NotRequired"}
      BY <2>1 DEF Verdicts
    <2> DEFINE rec == [task[t] EXCEPT !.pc = "settle", !.seen = verdict]
    <2>3. rec \in TaskRec /\ rec.pc = "settle"
      BY <1>1, <1>7, <2>2 DEF TaskRec, TaskType, TaskOK, Approval, RunStatus, Evaluate
    <2> QED  BY <1>3, <1>7, <2>1, <2>3, Moved DEF TypeOK, Evaluate
  <1>8. ASSUME Settle(t) PROVE TypeOK'
    <2> USE <1>8 DEF Settle
    <2> DEFINE record == run[task[t].run]
               parked == [record EXCEPT !.status = "WaitingForHuman"]
               decided == [record EXCEPT !.status = StatusOfApproval(task[t].seen),
                                         !.approval = task[t].seen]
    <2>1. record \in RunType /\ task[t].exec = FALSE
      BY <1>1, <1>2 DEF TaskType, TaskOK
    <2>2. CASE task[t].seen = "WaitingForHuman"
      <3>1. parked \in RunType
        BY <2>1 DEF RunType, RunStatus
      <3>2. Update(t, "Proposed", parked, "done")
        BY <2>2
      <3> QED  BY <1>3, <2>1, <3>1, <3>2, UpdateTyped DEF TypeOK
    <2>3. CASE task[t].seen # "WaitingForHuman"
      <3>1. decided \in RunType
        BY <1>1, <2>1, <2>3, StatusTyped DEF RunType, TaskOK
      <3>2. \/ Update(t, "Proposed", decided, "execute")
            \/ Update(t, "Proposed", decided, "done")
        BY <2>3
      <3> QED  BY <1>3, <2>1, <3>1, <3>2, UpdateTyped DEF TypeOK
    <2> QED  BY <2>2, <2>3
  <1>9. ASSUME Approve(t) PROVE TypeOK'
    <2> DEFINE new == [run[task[t].run] EXCEPT !.status = "Ready", !.approval = "Approved"]
    <2>1. task[t].run \in Runs /\ task[t].exec = FALSE
      BY <1>1, <1>9 DEF Approve, TaskType, TaskOK
    <2>2. Update(t, task[t].seen, new, "execute") /\ UNCHANGED lock /\ task[t].pc = "approve"
      BY <1>9 DEF Approve
    <2>3. new \in RunType
      BY <1>2, <2>1 DEF RunType, RunStatus, Approval
    <2>4. Requests /\ run' \in [Runs -> RunType]
      BY <2>1, <2>2, <2>3, UpdateTyped
    <2> QED  BY <1>3, <1>9, <2>4 DEF Approve, TypeOK
  <1>10. ASSUME ListQueue(t) PROVE TypeOK'
    <2> DEFINE rec == [task[t] EXCEPT !.pc = "drain",
                                      !.queue = {r \in Runs : run[r].status = "Ready"}]
    <2>1. rec \in TaskType
      BY <1>1 DEF TaskType
    <2>2. rec.pc = "drain" /\ TaskOK(rec)
      BY <1>1, <1>10 DEF TaskType, TaskOK, ListQueue
    <2> QED  BY <1>3, <1>10, <2>1, <2>2, Moved DEF TypeOK, TaskRec, ListQueue
  <1>11. ASSUME Drain(t) PROVE TypeOK'
    <2> USE <1>11 DEF Drain
    <2>1. CASE Fail(t)
      BY <1>3, <2>1, FailTyped DEF TypeOK
    <2>2. ASSUME NEW r \in task[t].queue,
                 Set(t, [task[t] EXCEPT !.pc = "execute", !.run = r, !.queue = @ \ {r}])
          PROVE  TypeOK'
      <3> DEFINE rec == [task[t] EXCEPT !.pc = "execute", !.run = r, !.queue = @ \ {r}]
      <3>1. r \in Runs
        BY <1>1 DEF TaskType
      <3>2. rec \in TaskType
        BY <1>1, <3>1 DEF TaskType
      <3>3. rec.pc = "execute" /\ TaskOK(rec)
        BY <1>1, <3>1, GatewayConstants DEF TaskType, TaskOK
      <3> QED  BY <1>3, <2>2, <3>2, <3>3, Moved DEF TypeOK, TaskRec
    <2> QED  BY <2>1, <2>2
  <1>12. ASSUME Execute(t) PROVE TypeOK'
    <2> USE <1>12 DEF Execute
    <2>1. CASE Set(t, [task[t] EXCEPT !.pc = "admit", !.exec = TRUE])
      <3> DEFINE rec == [task[t] EXCEPT !.pc = "admit", !.exec = TRUE]
      <3>1. rec \in TaskType
        BY <1>1 DEF TaskType
      <3>2. rec.pc = "admit" /\ TaskOK(rec)
        BY <1>1 DEF TaskType, TaskOK
      <3> QED  BY <1>3, <2>1, <3>1, <3>2, Moved DEF TypeOK, TaskRec
    <2>2. CASE Set(t, Finished(t))
      <3>1. task[t].then \notin {"execute", "verify"}
        BY <1>1 DEF TaskOK
      <3> QED  BY <1>3, <2>2, <3>1, FinishedTyped, Moved DEF TypeOK
    <2> QED  BY <2>1, <2>2
  <1>13. ASSUME AdmitRefused(t) PROVE TypeOK'
    <2> USE <1>13 DEF AdmitRefused
    <2>1. CASE Fail(t)
      BY <1>3, <2>1, FailTyped DEF TypeOK
    <2>2. CASE Set(t, Finished(t))
      <3>1. task[t].then \notin {"execute", "verify"}
        BY <1>1 DEF TaskOK
      <3> QED  BY <1>3, <2>2, <3>1, FinishedTyped, Moved DEF TypeOK
    <2> QED  BY <2>1, <2>2 DEF Fail
  <1>14. ASSUME NEW pc \in {"platform", "park"}, Goto(t, pc), task[t].pc = "admit"
         PROVE  task' \in [Tasks -> TaskRec] /\ (UNCHANGED lock => LockOK')
    <2> DEFINE rec == [task[t] EXCEPT !.pc = pc]
    <2>1. rec \in TaskType
      BY <1>1 DEF TaskType
    <2>2. rec.pc = pc /\ TaskOK(rec)
      BY <1>1, <1>14 DEF TaskType, TaskOK
    <2> QED  BY <1>14, <2>1, <2>2, SetTyped, LockKept DEF Goto, TaskRec
  <1>15. ASSUME Admit(t) PROVE TypeOK'
    <2> DEFINE new == [run[task[t].run] EXCEPT !.status = "Running"]
    <2>2. task[t].run \in Runs
      BY <1>1, <1>15 DEF Admit, TaskType, TaskOK
    <2>3. new \in RunType
      BY <1>2, <2>2 DEF RunType, RunStatus
    <2>4. run' = [run EXCEPT ![task[t].run] = new]
      BY <1>15 DEF Admit
    <2>1. run' \in [Runs -> RunType]
      BY <2>3, <2>4 DEF TypeOK
    <2> QED  BY <1>3, <1>14, <1>15, <2>1 DEF Admit, TypeOK
  <1>16. ASSUME AdmitUnimplemented(t) PROVE TypeOK'
    BY <1>3, <1>14, <1>16 DEF AdmitUnimplemented, TypeOK
  <1>17. ASSUME Park(t) PROVE TypeOK'
    <2> DEFINE new == [run[task[t].run] EXCEPT !.status = "WaitingForHuman"]
    <2>1. new \in RunType
      BY <1>1, <1>2, <1>17 DEF Park, TaskType, TaskOK, RunType, RunStatus
    <2> QED  BY <1>3, <1>17, <2>1, UpdateTyped DEF Park, TypeOK
  <1>18. ASSUME NEW result \in PlatformResults, PlatformReturns(t, result) PROVE TypeOK'
    <2> DEFINE next == RecordExecution(run[task[t].run], result)
    <2>1. next \in RunType /\ task[t].exec
      BY <1>1, <1>2, <1>18, RecordTyped DEF PlatformReturns, TaskType, TaskOK, Evidence
    <2>2. Update(t, "Running", next, "verify") \/ Update(t, "Running", next, "done")
      BY <1>18 DEF PlatformReturns
    <2> QED  BY <1>3, <1>18, <2>1, <2>2, UpdateTyped DEF PlatformReturns, TypeOK
  <1>19. ASSUME Verify(t) PROVE TypeOK'
    <2>1. task[t].run \in Runs
      BY <1>1, <1>19 DEF Verify, TaskType, TaskOK
    <2>2. PICK evidence \in Evidence :
            Update(t, "Verifying", RecordVerification(run[task[t].run], evidence), "done")
      BY <1>19, <2>1, FindingsTyped DEF Verify
    <2>3. RecordVerification(run[task[t].run], evidence) \in RunType
      BY <1>2, <2>1, RecordTyped DEF PlatformResults
    <2> QED  BY <1>3, <1>19, <2>2, <2>3, UpdateTyped DEF Verify, TypeOK
  <1>20. ASSUME Reconcile(t) PROVE TypeOK'
    <2> USE <1>20 DEF Reconcile
    <2> DEFINE i == Target(t)
    <2>1. RunsOf(i) \in SUBSET Runs
      BY DEF RunsOf, Present
    <2>2. CASE ~Live(i)
      <3> DEFINE rec == [task[t] EXCEPT !.pc = "sweep"]
      <3>1. rec \in TaskType
        BY <1>1 DEF TaskType
      <3>2. rec.pc = "sweep" /\ TaskOK(rec)
        BY <1>1 DEF TaskType, TaskOK
      <3>3. Set(t, rec) /\ lock' = [holder |-> t, next |-> "none", todo |-> RunsOf(i)]
        BY <2>2 DEF Goto
      <3> QED  BY <1>3, <2>1, <3>1, <3>2, <3>3, SetTyped, LockTaken DEF TypeOK, TaskRec
    <2>3. CASE Live(i) /\ DerivedStatus(i) \in IssueNext(issue[i])
      <3> DEFINE rec == [task[t] EXCEPT !.pc = "apply"]
      <3>1. rec \in TaskType
        BY <1>1 DEF TaskType
      <3>2. rec.pc = "apply" /\ TaskOK(rec)
        BY <1>1 DEF TaskType, TaskOK
      <3>3. Set(t, rec) /\ lock' = [holder |-> t, next |-> DerivedStatus(i), todo |-> {}]
        BY <2>3 DEF Goto
      <3>4. DerivedStatus(i) \in IssueStatus /\ DerivedStatus(i) # "none"
        BY <2>3, StatusTyped DEF IssueStatus
      <3>5. rec \in TaskRec /\ {} \in SUBSET Runs
        BY <3>1, <3>2 DEF TaskRec
      <3>6. LockOK'
        BY <3>2, <3>3, <3>4, <3>5, LockTaken
      <3> QED  BY <1>3, <3>3, <3>5, <3>6, SetTyped DEF TypeOK
    <2>4. CASE Live(i) /\ DerivedStatus(i) \notin IssueNext(issue[i])
      <3>1. Set(t, AfterReconcile(t)) /\ UNCHANGED lock
        BY <2>4
      <3> QED  BY <1>3, <3>1, AfterReconcileTyped, Moved DEF TypeOK
    <2> QED  BY <2>2, <2>3, <2>4
  <1>21. ASSUME Apply(t) PROVE TypeOK'
    <2> USE <1>21 DEF Apply
    <2>1. lock.holder = t /\ lock.next \in IssueStatus
      BY DEF TypeOK, LockOK
    <2>2. issue' \in [Issues -> IssueStatus]
      BY <2>1 DEF TypeOK
    <2>3. CASE lock.next \in IssueTerminal
      <3> DEFINE rec == [task[t] EXCEPT !.pc = "sweep"]
      <3>1. rec \in TaskType
        BY <1>1 DEF TaskType
      <3>2. rec.pc = "sweep" /\ TaskOK(rec)
        BY <1>1 DEF TaskType, TaskOK
      <3>3. Set(t, rec) /\ lock' = [lock EXCEPT !.todo = RunsOf(Target(t))]
        BY <2>3 DEF Goto
      <3>4. RunsOf(Target(t)) \in SUBSET Runs
        BY DEF RunsOf, Present
      <3>5. /\ lock' \in [holder : Tasks \cup {None}, next : IssueStatus \cup {"none"},
                           todo : SUBSET Runs]
            /\ lock'.holder = t
        BY <2>1, <3>3, <3>4 DEF TypeOK, LockOK
      <3>6. \A u \in Tasks : task'[u].pc \in {"apply", "sweep"} <=> u = t
        BY <2>1, <3>2, <3>3 DEF TypeOK, LockOK, Set
      <3>7. LockOK'
        BY <3>2, <3>3, <3>5, <3>6 DEF TypeOK, LockOK, Set
      <3> QED  BY <1>3, <2>2, <3>1, <3>2, <3>3, <3>7, SetTyped DEF TypeOK, TaskRec
    <2>4. CASE lock.next \notin IssueTerminal
      <3>1. Unlock /\ Set(t, AfterReconcile(t))
        BY <2>4
      <3> QED  BY <1>3, <2>2, <3>1, AfterReconcileTyped, SetTyped, LockFreed DEF TypeOK
    <2> QED  BY <2>3, <2>4
  <1>22. ASSUME ApplyConflict(t) PROVE TypeOK'
    <2>1. IdleTask.pc = "idle"
      BY DEF IdleTask
    <2> QED  BY <1>3, <1>22, <2>1, IdleTyped, SetTyped, LockFreed DEF ApplyConflict, Fail, TypeOK
  <1>23. ASSUME NEW r \in Runs, Sweep(t, r) PROVE TypeOK'
    <2>1. run' \in [Runs -> RunType]
      BY <1>23 DEF Sweep, CancelUnstarted, TypeOK, RunType, RunStatus
    <2>2. LockOK'
      BY <1>23 DEF Sweep, TypeOK, LockOK
    <2> QED  BY <1>3, <1>23, <2>1, <2>2 DEF Sweep, TypeOK
  <1>24. ASSUME Swept(t) PROVE TypeOK'
    BY <1>3, <1>24, AfterReconcileTyped, SetTyped, LockFreed DEF Swept, TypeOK
  <1> QED
    BY <1>4, <1>5, <1>6, <1>7, <1>8, <1>9, <1>10, <1>11, <1>12, <1>13, <1>15, <1>16, <1>17,
       <1>18, <1>19, <1>20, <1>21, <1>22, <1>23, <1>24 DEF Work

\* So does everything a request arrives with.
LEMMA RequestTyped ==
    ASSUME TypeOK, NEW t \in Tasks, Request(t)
    PROVE  TypeOK'
  <1> USE DEF Executing, Reconciling, RunPcs, At
  <1> DEFINE Requests == task' \in [Tasks -> TaskRec] /\ LockOK'
  <1>1. Requests /\ run' \in [Runs -> RunType] /\ issue' \in [Issues -> IssueStatus]
          /\ begun' \subseteq Jobs /\ logged' \in Modes \ {"Recovering"} /\ mode' \in Modes
          /\ UNCHANGED <<boot, drops, crashes>> => TypeOK'
    BY DEF TypeOK, LockOK
  <1>2. /\ IdleTask \in TaskType /\ TaskOK(IdleTask) /\ IdleTask.then = "done"
        /\ IdleTask.op = "none" /\ IdleTask.exec = FALSE
    BY IdleTyped DEF TaskRec, IdleTask
  <1>3. ASSUME NEW j \in Jobs, BeginPropose(t, j) PROVE TypeOK'
    <2> DEFINE rec == [IdleTask EXCEPT !.op = "propose", !.pc = "propose", !.issue = IssueOf[j],
                                       !.queue = {r \in Runs : JobOf[r] = j}]
    <2>1. IssueOf[j] \in Issues /\ IssueOf[j] # None
      BY GatewayConstants
    <2>2. rec \in TaskType
      BY <1>2, <2>1 DEF TaskType
    <2>3. rec.pc = "propose" /\ TaskOK(rec)
      BY <1>2, <2>1 DEF TaskType, TaskOK
    <2> QED  BY <1>1, <1>3, <2>2, <2>3, Moved DEF BeginPropose, TypeOK, TaskRec
  <1>4. ASSUME NEW r \in Runs, BeginApprove(t, r) PROVE TypeOK'
    <2> DEFINE rec == [IdleTask EXCEPT !.op = "approve", !.pc = "approve", !.run = r,
                                       !.seen = run[r].status]
    <2>1. run[r].status \in Approvable /\ run[r].status \in RunStatus
      BY <1>4, GatewayConstants DEF BeginApprove, RunStatus
    <2>2. rec \in TaskType
      BY <1>2, <2>1 DEF TaskType
    <2>3. rec.pc = "approve" /\ TaskOK(rec)
      BY <1>2, <2>1, GatewayConstants DEF TaskType, TaskOK
    <2> QED  BY <1>1, <1>4, <2>2, <2>3, Moved DEF BeginApprove, TypeOK, TaskRec
  <1>5. ASSUME NEW op \in {"reject", "review"}, NEW r \in Runs, UNCHANGED lock,
               Set(t, [IdleTask EXCEPT !.op = op, !.pc = "reconcile", !.run = r]),
               task[t].pc = "idle"
        PROVE  Requests
    <2> DEFINE rec == [IdleTask EXCEPT !.op = op, !.pc = "reconcile", !.run = r]
    <2>1. rec \in TaskType
      BY <1>2 DEF TaskType
    <2>2. rec.pc = "reconcile" /\ TaskOK(rec)
      BY <1>2, GatewayConstants DEF TaskType, TaskOK
    <2> QED  BY <1>5, <2>1, <2>2, Moved DEF TaskRec
  <1>6. ASSUME NEW r \in Runs, Reject(t, r) PROVE TypeOK'
    <2>1. Deny(run[r]) \in RunType
      BY RecordTyped DEF TypeOK, PlatformResults, Evidence
    <2>2. run' \in [Runs -> RunType]
      BY <1>6, <2>1 DEF Reject, TypeOK
    <2> QED  BY <1>1, <1>5, <1>6, <2>2 DEF Reject, TypeOK
  <1>7. ASSUME NEW r \in Runs, Review(t, r) PROVE TypeOK'
    <2>1. Reviewed(run[r]) \in RunType
      BY RecordTyped DEF TypeOK, PlatformResults, Evidence
    <2>2. run' \in [Runs -> RunType]
      BY <1>7, <2>1 DEF Review, TypeOK
    <2> QED  BY <1>1, <1>5, <1>7, <2>2 DEF Review, TypeOK
  <1>8. ASSUME NEW i \in Issues, NEW closure \in IssueTerminal, Close(t, i, closure)
        PROVE  TypeOK'
    <2> DEFINE rec == [IdleTask EXCEPT !.op = "close", !.pc = "sweep", !.issue = i, !.then = "end"]
    <2>1. rec \in TaskType
      BY <1>2 DEF TaskType
    <2>2. rec.pc = "sweep" /\ TaskOK(rec)
      BY <1>2, GatewayConstants DEF TaskType, TaskOK
    <2>3. issue' \in [Issues -> IssueStatus]
      BY <1>8 DEF Close, TypeOK, IssueStatus, IssueTerminal
    <2>4. RunsOf(i) \in SUBSET Runs
      BY DEF RunsOf, Present
    <2> QED  BY <1>1, <1>8, <2>1, <2>2, <2>3, <2>4, SetTyped, LockTaken DEF Close, TypeOK, TaskRec
  <1>9. ASSUME Resume(t) PROVE TypeOK'
    <2> DEFINE rec == [IdleTask EXCEPT !.op = "resume", !.pc = "list"]
    <2>1. rec \in TaskType
      BY <1>2 DEF TaskType
    <2>2. rec.pc = "list" /\ TaskOK(rec)
      BY <1>2 DEF TaskType, TaskOK
    <2> QED  BY <1>1, <1>9, <2>1, <2>2, Moved DEF Resume, TypeOK, TaskRec, Modes
  <1> QED  BY <1>3, <1>4, <1>6, <1>7, <1>8, <1>9 DEF Request

\* So do a dropped request, a crash, a freeze, and every step of startup recovery.
LEMMA EnvironmentTyped ==
    ASSUME TypeOK,
           \/ \E t \in Tasks : Drop(t)
           \/ \E m \in Freezes : Freeze(m)
           \/ Crash \/ Boot
    PROVE  TypeOK'
  <1> DEFINE Phases == {"up", "down", "sweep", "runs"}
             BootType == [phase : Phases, runs : SUBSET Runs, issues : SUBSET Issues,
                          verified : Runs \cup {None}]
  <1>1. ASSUME NEW t \in Tasks, Drop(t) PROVE TypeOK'
    <2>1. IdleTask \in TaskRec /\ IdleTask.pc = "idle"
      BY IdleTyped DEF IdleTask
    <2>2. task' = [task EXCEPT ![t] = IdleTask]
      BY <1>1 DEF Drop, Fail, Set
    <2>3. CASE lock.holder = t
      <3>1. lock' = FreeLock
        BY <1>1, <2>3 DEF Drop
      <3>2. LockOK'
        BY <2>1, <2>2, <2>3, <3>1, GatewayConstants DEF TypeOK, LockOK, FreeLock
      <3> QED  BY <1>1, <2>1, <2>2, <3>2, GatewayConstants DEF Drop, TypeOK
    <2>4. CASE lock.holder # t
      <3>1. lock' = lock
        BY <1>1, <2>4 DEF Drop
      <3>2. LockOK'
        BY <2>1, <2>2, <2>4, <3>1 DEF TypeOK, LockOK
      <3> QED  BY <1>1, <2>1, <2>2, <3>2, GatewayConstants DEF Drop, TypeOK
    <2> QED  BY <2>3, <2>4
  <1>2. ASSUME NEW m \in Freezes, Freeze(m) PROVE TypeOK'
    BY <1>2, GatewayConstants DEF Freeze, TypeOK, LockOK, Modes
  <1>3. ASSUME Crash PROVE TypeOK'
    <2>1. IdleTask \in TaskRec /\ IdleTask.pc = "idle"
      BY IdleTyped DEF IdleTask
    <2>2. LockOK' /\ task' \in [Tasks -> TaskRec]
      BY <1>3, <2>1, GatewayConstants DEF Crash, Unlock, FreeLock, LockOK
    <2>3. boot' \in BootType
      BY <1>3 DEF Crash, Serving
    <2> QED  BY <1>3, <2>2, <2>3, GatewayConstants DEF Crash, TypeOK
  <1>4. boot \in BootType /\ run \in [Runs -> RunType] /\ issue \in [Issues -> IssueStatus]
    BY DEF TypeOK
  <1>5. run' \in [Runs -> RunType] /\ issue' \in [Issues -> IssueStatus]
          /\ boot' \in BootType /\ mode' \in Modes
          /\ UNCHANGED <<begun, logged, task, lock, drops, crashes>> => TypeOK'
    BY DEF TypeOK, LockOK
  <1>6. ASSUME BootStart PROVE TypeOK'
    <2>1. boot' \in BootType
      BY <1>6 DEF BootStart, Serving, Present
    <2> QED  BY <1>4, <1>5, <1>6, <2>1 DEF BootStart, Modes
  <1>7. ASSUME BootList PROVE TypeOK'
    <2>1. boot' \in BootType
      BY <1>7 DEF BootList, Serving, Present
    <2> QED  BY <1>4, <1>5, <1>7, <2>1 DEF BootList, TypeOK
  <1>8. ASSUME NEW r \in Runs, BootSweep(r) PROVE TypeOK'
    <2>1. boot' \in BootType
      BY <1>4, <1>8 DEF BootSweep
    <2>2. run' \in [Runs -> RunType]
      BY <1>4, <1>8 DEF BootSweep, CancelUnstarted, RunType, RunStatus
    <2> QED  BY <1>4, <1>5, <1>8, <2>1, <2>2 DEF BootSweep, TypeOK
  <1>9. ASSUME NEW r \in Runs, BootInterrupt(r) PROVE TypeOK'
    <2>1. boot' \in BootType
      BY <1>4, <1>9 DEF BootInterrupt
    <2>2. "failed" \in PlatformResults /\ "None" \in Evidence /\ run[r] \in RunType
      BY <1>4 DEF PlatformResults, Evidence
    <2>3. Deny(run[r]) \in RunType /\ RecordExecution(run[r], "failed") \in RunType
      BY <2>2, RecordTyped
    <2>4. run' \in [Runs -> RunType]
      BY <1>4, <1>9, <2>3 DEF BootInterrupt
    <2> QED  BY <1>4, <1>5, <1>9, <2>1, <2>4 DEF BootInterrupt, TypeOK
  <1>10. ASSUME NEW r \in Runs, BootVerify(r) PROVE TypeOK'
    <2>1. boot' \in BootType
      BY <1>4, <1>10 DEF BootVerify
    <2>2. PICK evidence \in Evidence : run' = [run EXCEPT ![r] = RecordVerification(@, evidence)]
      BY <1>10, FindingsTyped DEF BootVerify
    <2>3. run' \in [Runs -> RunType]
      BY <1>4, <2>2, RecordTyped DEF PlatformResults
    <2> QED  BY <1>4, <1>5, <1>10, <2>1, <2>3 DEF BootVerify, TypeOK
  <1>11. \A i \in Issues : Reconciled(i) \in [Issues -> IssueStatus]
    <2> SUFFICES ASSUME NEW i \in Issues PROVE Reconciled(i) \in [Issues -> IssueStatus]
      OBVIOUS
    <2>1. DerivedStatus(i) \in IssueNext(issue[i]) => DerivedStatus(i) \in IssueStatus
      BY StatusTyped
    <2> QED  BY <1>4, <2>1 DEF Reconciled
  <1>12. ASSUME BootVerified PROVE TypeOK'
    <2>1. On(boot.verified) \in Issues
      BY <1>4, <1>12, GatewayConstants DEF BootVerified, On
    <2>2. boot' \in BootType
      BY <1>4, <1>12 DEF BootVerified
    <2> QED  BY <1>4, <1>5, <1>11, <1>12, <2>1, <2>2 DEF BootVerified, TypeOK
  <1>13. ASSUME NEW i \in Issues, BootReconcile(i) PROVE TypeOK'
    <2>1. boot' \in BootType
      BY <1>4, <1>13 DEF BootReconcile
    <2> QED  BY <1>4, <1>5, <1>11, <1>13, <2>1 DEF BootReconcile, TypeOK
  <1>14. ASSUME BootFinish PROVE TypeOK'
    <2>1. boot' \in BootType
      BY <1>14 DEF BootFinish, Serving
    <2> QED  BY <1>4, <1>5, <1>14, <2>1 DEF BootFinish, Modes
  <1> QED
    BY <1>1, <1>2, <1>3, <1>6, <1>7, <1>8, <1>9, <1>10, <1>12, <1>13, <1>14 DEF Boot

\* Every state the gateway reaches is well-typed, whatever the runs, passes, Issues and
\* requests: in particular the lifecycle lock is held by the one request that applies or
\* sweeps, and an execution lock is never kept by a request that has ended.
THEOREM Typing == Spec => []TypeOK
  <1>1. Init => TypeOK
    <2> SUFFICES ASSUME Init PROVE TypeOK
      OBVIOUS
    <2>1. task \in [Tasks -> TaskRec] /\ IdleTask.pc = "idle"
      BY IdleTyped DEF Init, IdleTask
    <2>2. LockOK
      BY <2>1, GatewayConstants DEF Init, LockOK, FreeLock, IdleTask
    <2>3. run \in [Runs -> RunType]
      BY DEF Init, Absent, RunType, Approval, Evidence
    <2> QED  BY <2>1, <2>2, <2>3, GatewayConstants DEF Init, TypeOK, IssueStatus, Modes, Serving
  <1>2. TypeOK /\ [Next]_vars => TypeOK'
    <2> SUFFICES ASSUME TypeOK, [Next]_vars PROVE TypeOK'
      OBVIOUS
    <2>1. CASE UNCHANGED vars
      BY <2>1 DEF vars, TypeOK, LockOK
    <2> QED  BY <2>1, WorkTyped, RequestTyped, EnvironmentTyped DEF Next
  <1> QED  BY <1>1, <1>2, PTL DEF Spec

-----------------------------------------------------------------------------
(* Exclusion.  Most steps only withdraw requests and move runs on that were past their   *)
(* claim already; the steps that insert, claim and admit a run are taken one by one.     *)

\* A request leaves the window between a proposal and its verdict, or stays out of it,
\* takes up no new proposal and no new execution lock, and is not at the Platform.
Withdraws(t) ==
    /\ task'[t].pc \notin {"insert", "claim", "evaluate", "settle", "platform"}
    /\ task'[t].op = "propose" => task[t].op = "propose" /\ task'[t].queue \subseteq task[t].queue
    /\ task'[t].exec => task[t].exec /\ task'[t].run = task[t].run

\* A run moves on: if it may still run it was past its claim already, and if it was
\* executing no request is left at the Platform with it.
Advances(r) ==
    /\ r \in Present
    /\ run'[r].status \notin {"Absent", "Proposed"}
    /\ HoldsClaim(run'[r]) => Admitted(r)
    /\ run[r].status = "Running" =>
         \A t \in Tasks : task'[t].pc = "platform" => task'[t].run # r

\* Steps of that kind keep the exclusion invariant.
LEMMA QuietStep ==
    ASSUME TypeOK, Exclusion, TypeOK', begun' = begun,
           \A t \in Tasks : task'[t] = task[t] \/ Withdraws(t),
           \A r \in Runs : run'[r].status = run[r].status \/ Advances(r),
           ~Up' => \A t \in Tasks : task'[t].pc = "idle"
    PROVE  Exclusion'
  <1>1. \A r \in Runs : r \in Present' <=> r \in Present
    BY DEF Advances, Present
  <1>2. \A t \in Tasks : Pending(t)' \subseteq Pending(t)
    BY DEF Withdraws, Pending
  <1>3. InsertedOnce'
    <2>1. (\A r \in Present : JobOf[r] \in begun)'
      BY <1>1 DEF Exclusion, InsertedOnce, Present
    <2>2. (\A t \in Tasks : \A r \in Pending(t) : r \notin Present /\ JobOf[r] \in begun)'
      <3> SUFFICES ASSUME NEW t \in Tasks, NEW r \in Pending(t)'
                   PROVE  r \notin Present' /\ JobOf[r] \in begun'
        OBVIOUS
      <3>1. r \in Pending(t)
        BY <1>2
      <3>2. Present' \subseteq Runs
        BY DEF Present
      <3> QED  BY <1>1, <3>1, <3>2 DEF Exclusion, InsertedOnce
    <2>3. (\A t, u \in Tasks : t # u => Pending(t) \cap Pending(u) = {})'
      <3> SUFFICES ASSUME NEW t \in Tasks, NEW u \in Tasks, t # u
                   PROVE  Pending(t)' \cap Pending(u)' = {}
        OBVIOUS
      <3>1. Pending(t) \cap Pending(u) = {}
        BY DEF Exclusion, InsertedOnce
      <3>2. Pending(t)' \subseteq Pending(t) /\ Pending(u)' \subseteq Pending(u)
        BY <1>2
      <3> QED  BY <3>1, <3>2
    <2>4. (\A t \in Tasks : task[t].pc = "insert" => task[t].run \notin task[t].queue)'
      BY DEF Exclusion, InsertedOnce, Withdraws
    <2>5. (\A t \in Tasks : task[t].pc \in {"claim", "evaluate", "settle"}
                             => task[t].run \in Present)'
      BY <1>1 DEF Exclusion, InsertedOnce, Withdraws, Present
    <2> QED  BY <2>1, <2>2, <2>3, <2>4, <2>5 DEF InsertedOnce
  <1>4. ExecutedOnce'
    <2>1. (\A t, u \in Tasks : task[t].exec /\ task[u].exec /\ task[t].run = task[u].run => t = u)'
      BY DEF Exclusion, ExecutedOnce, Withdraws
    <2>2. (\A t \in Tasks : task[t].pc = "platform" => run[task[t].run].status = "Running")'
      <3> SUFFICES ASSUME NEW t \in Tasks, task'[t].pc = "platform"
                   PROVE  run'[task'[t].run].status = "Running"
        OBVIOUS
      <3>1. task'[t] = task[t]
        BY DEF Withdraws
      <3>2. run[task[t].run].status = "Running"
        BY <3>1 DEF Exclusion, ExecutedOnce
      <3>3. task[t].run \in Runs
        BY <3>1 DEF TypeOK, TaskRec, TaskType, TaskOK, RunPcs, Executing
      <3> QED  BY <3>1, <3>2, <3>3 DEF Advances
    <2> QED  BY <2>1, <2>2 DEF ExecutedOnce
  <1>5. \A r \in Runs : Admitted(r)' => Admitted(r)
    <2> SUFFICES ASSUME NEW r \in Runs, Admitted(r)' PROVE Admitted(r)
      OBVIOUS
    <2>1. CASE Advances(r)
      BY <2>1 DEF Advances, Admitted
    <2>2. CASE run'[r].status = run[r].status
      BY <2>2 DEF Admitted, HoldsClaim, Withdraws
    <2> QED  BY <2>1, <2>2
  <1>6. ClaimExclusion'
    BY <1>5 DEF Exclusion, ClaimExclusion
  <1> QED  BY <1>3, <1>4, <1>6 DEF Exclusion

\* So does a request that moves to a record that Withdraws, whatever else it moves on.
LEMMA QuietMove ==
    ASSUME TypeOK, Exclusion, TypeOK', UNCHANGED <<begun, boot>>, Up,
           NEW t \in Tasks, NEW rec, Set(t, rec),
           rec.pc \notin {"insert", "claim", "evaluate", "settle", "platform"},
           rec.op = "propose" => task[t].op = "propose" /\ rec.queue \subseteq task[t].queue,
           rec.exec => task[t].exec /\ rec.run = task[t].run,
           \A r \in Runs : run'[r].status = run[r].status \/ Advances(r)
    PROVE  Exclusion'
  <1>1. \A u \in Tasks : task'[u] = IF u = t THEN rec ELSE task[u]
    BY DEF Set, TypeOK
  <1>2. \A u \in Tasks : task'[u] = task[u] \/ Withdraws(u)
    BY <1>1 DEF Withdraws
  <1>3. Up'
    BY DEF Up
  <1> QED  BY <1>2, <1>3, QuietStep

\* So does a compare-and-set of a run that does not let it pass its claim.
LEMMA QuietUpdate ==
    ASSUME TypeOK, Exclusion, TypeOK', UNCHANGED <<begun, boot>>, Up,
           NEW t \in Tasks, task[t].run \in Runs, NEW expected, NEW new,
           NEW then \in {"done", "execute", "verify"},
           Update(t, expected, new, then),
           expected # "Absent", new.status \notin {"Absent", "Proposed"},
           expected = "Running" => task[t].pc = "platform",
           run[task[t].run].status = expected /\ HoldsClaim(new) => Admitted(task[t].run)
    PROVE  Exclusion'
  <1> DEFINE r == task[t].run
  <1>1. CASE run[r].status # expected
    <2>1. UNCHANGED run /\ Set(t, IdleTask)
      BY <1>1 DEF Update, Fail
    <2> QED  BY <2>1, QuietMove DEF IdleTask
  <1>2. CASE run[r].status = expected
    <2> DEFINE rec == [task[t] EXCEPT !.pc = "reconcile", !.then = then, !.seen = "none"]
    <2>1. run' = [run EXCEPT ![r] = new] /\ Set(t, rec)
      BY <1>2 DEF Update, ReconcileThen
    <2>2. /\ rec.pc = "reconcile" /\ rec.run = r /\ rec.op = task[t].op
          /\ rec.queue = task[t].queue /\ rec.exec = task[t].exec
      BY DEF TypeOK, TaskRec, TaskType
    <2>3. \A s \in Runs : s # r => run'[s].status = run[s].status
      BY <2>1 DEF TypeOK
    <2>4. Advances(r)
      <3>1. r \in Present /\ run'[r] = new
        BY <1>2, <2>1 DEF Present, TypeOK
      <3>2. ASSUME expected = "Running", NEW u \in Tasks, task'[u].pc = "platform"
            PROVE  task'[u].run # r
        <4>1. u # t /\ task'[u] = task[u]
          BY <2>1, <2>2, <3>2 DEF Set, TypeOK
        <4>2. task[t].exec /\ task[u].exec
          BY <3>2, <4>1 DEF TypeOK, TaskRec, TaskOK, Executing
        <4> QED  BY <4>1, <4>2 DEF Exclusion, ExecutedOnce
      <3> QED  BY <1>2, <3>1, <3>2 DEF Advances
    <2> QED  BY <2>1, <2>2, <2>3, <2>4, QuietMove
  <1> QED  BY <1>1, <1>2

\* What follows execute_and_verify, and a reconciliation, takes up nothing new.
LEMMA FinishedQuiet ==
    ASSUME TypeOK, NEW t \in Tasks
    PROVE  /\ Finished(t).pc \in {"propose", "drain", "idle"}
           /\ Finished(t).exec = FALSE
           /\ Finished(t).op = "propose" => /\ task[t].op = "propose"
                                            /\ Finished(t).queue \subseteq task[t].queue
  BY DEF Finished, IdleTask, TypeOK, TaskRec, TaskType

LEMMA AfterReconcileQuiet ==
    ASSUME TypeOK, NEW t \in Tasks
    PROVE  LET rec == AfterReconcile(t)
           IN /\ rec.pc \in {"propose", "drain", "idle", "execute", "verify"}
              /\ rec.op = "propose" => task[t].op = "propose" /\ rec.queue \subseteq task[t].queue
              /\ rec.exec => task[t].exec /\ rec.run = task[t].run
  <1>1. task[t] \in TaskType
    BY DEF TypeOK, TaskRec
  <1>2. CASE task[t].then = "end"
    BY <1>2 DEF AfterReconcile, IdleTask
  <1>3. CASE task[t].then = "done"
    <2>1. AfterReconcile(t) = Finished(t)
      BY <1>3 DEF AfterReconcile
    <2> QED  BY <2>1, FinishedQuiet
  <1>4. CASE task[t].then \in {"execute", "verify"}
    <2> DEFINE rec == [task[t] EXCEPT !.pc = task[t].then, !.then = "done"]
    <2>1. AfterReconcile(t) = rec
      BY <1>4 DEF AfterReconcile
    <2>2. /\ rec.pc = task[t].then /\ rec.op = task[t].op /\ rec.queue = task[t].queue
          /\ rec.exec = task[t].exec /\ rec.run = task[t].run
      BY <1>1 DEF TaskType
    <2> QED  BY <1>4, <2>1, <2>2
  <1> QED  BY <1>1, <1>2, <1>3, <1>4 DEF TaskType

\* A run is neither approved nor refused by hand while a request has yet to claim its key
\* or its command is at the Platform: the requests within reach exclude both.
HandsOff == "Proposed" \notin Approvable /\ "Running" \notin Rejectable

\* A request that begins or inserts a proposal takes it from no other request.
LEMMA InsertExcludes ==
    ASSUME TypeOK, Exclusion, TypeOK', NEW t \in Tasks, Insert(t)
    PROVE  Exclusion'
  <1> DEFINE r == task[t].run
  <1>1. Up /\ task[t].pc = "insert" /\ UNCHANGED <<begun, boot>>
    BY DEF Insert, At
  <1>2. CASE Set(t, IdleTask) /\ UNCHANGED run
    BY <1>1, <1>2, QuietMove DEF IdleTask
  <1>3. CASE Set(t, [task[t] EXCEPT !.pc = "claim"]) /\ run' = [run EXCEPT ![r] = FromProposal]
    <2> DEFINE rec == [task[t] EXCEPT !.pc = "claim"]
    <2>1. /\ rec.pc = "claim" /\ rec.run = r /\ rec.op = task[t].op
          /\ rec.queue = task[t].queue /\ rec.exec = task[t].exec
          /\ r \in Runs /\ task[t].op = "propose"
      BY <1>1 DEF TypeOK, TaskRec, TaskType, TaskOK, RunPcs
    <2>2. \A u \in Tasks : task'[u] = IF u = t THEN rec ELSE task[u]
      BY <1>3 DEF Set, TypeOK
    <2>3. \A s \in Runs : run'[s] = IF s = r THEN FromProposal ELSE run[s]
      BY <1>3 DEF TypeOK
    <2>4. r \in Pending(t) /\ r \notin Present /\ JobOf[r] \in begun /\ r \notin task[t].queue
      BY <1>1, <2>1 DEF Pending, Exclusion, InsertedOnce
    <2>5. FromProposal.status = "Proposed"
      BY DEF FromProposal, Absent
    <2>6. \A s \in Runs : s \in Present' <=> s \in Present \/ s = r
      BY <2>1, <2>3, <2>5 DEF Present
    <2>7. Pending(t)' \subseteq Pending(t) \ {r}
      BY <2>1, <2>2, <2>4 DEF Pending
    <2>8. \A u \in Tasks : u # t => Pending(u)' = Pending(u) /\ r \notin Pending(u)
      BY <2>2, <2>4 DEF Pending, Exclusion, InsertedOnce
    <2>9. InsertedOnce'
      <3>1. (\A s \in Present : JobOf[s] \in begun)'
        BY <1>1, <2>4, <2>6 DEF Present, Exclusion, InsertedOnce
      <3>2. (\A u \in Tasks : \A s \in Pending(u) : s \notin Present /\ JobOf[s] \in begun)'
        <4> SUFFICES ASSUME NEW u \in Tasks, NEW s \in Pending(u)'
                     PROVE  s \notin Present' /\ JobOf[s] \in begun'
          OBVIOUS
        <4>1. s \in Pending(u) /\ s # r
          BY <2>7, <2>8
        <4>2. Present' \subseteq Runs
          BY DEF Present
        <4> QED  BY <1>1, <2>6, <4>1, <4>2 DEF Exclusion, InsertedOnce
      <3>3. (\A u, v \in Tasks : u # v => Pending(u) \cap Pending(v) = {})'
        <4> SUFFICES ASSUME NEW u \in Tasks, NEW v \in Tasks, u # v
                     PROVE  Pending(u)' \cap Pending(v)' = {}
          OBVIOUS
        <4>1. Pending(u)' \subseteq Pending(u) /\ Pending(v)' \subseteq Pending(v)
          BY <2>7, <2>8
        <4> QED  BY <4>1 DEF Exclusion, InsertedOnce
      <3>4. (\A u \in Tasks : task[u].pc = "insert" => task[u].run \notin task[u].queue)'
        BY <2>1, <2>2 DEF Exclusion, InsertedOnce
      <3>5. (\A u \in Tasks : task[u].pc \in {"claim", "evaluate", "settle"}
                               => task[u].run \in Present)'
        <4> SUFFICES ASSUME NEW u \in Tasks, task'[u].pc \in {"claim", "evaluate", "settle"}
                     PROVE  task'[u].run \in Present'
          OBVIOUS
        <4>1. CASE u = t
          BY <2>1, <2>2, <2>6, <4>1
        <4>2. CASE u # t
          <5>1. task[u].run \in Present /\ Present \subseteq Runs
            BY <2>2, <4>2 DEF Exclusion, InsertedOnce, Present
          <5> QED  BY <2>2, <2>6, <4>2, <5>1
        <4> QED  BY <4>1, <4>2
      <3> QED  BY <3>1, <3>2, <3>3, <3>4, <3>5 DEF InsertedOnce
    <2>10. ExecutedOnce'
      <3>1. task[t].exec = FALSE
        BY <1>1 DEF TypeOK, TaskRec, TaskType, TaskOK, Executing, Reconciling
      <3>2. \A u \in Tasks : task[u].pc = "platform" => task[u].run # r
        BY <2>1, <2>4 DEF Present, Exclusion, ExecutedOnce
      <3>3. \A u \in Tasks : task[u].pc = "platform" => task[u].run \in Runs
        BY DEF TypeOK, TaskRec, TaskType, TaskOK, RunPcs, Executing
      <3>4. Up'
        BY <1>1 DEF Up
      <3>5. (\A u, v \in Tasks : task[u].exec /\ task[v].exec /\ task[u].run = task[v].run
                                => u = v)'
        BY <2>1, <2>2, <3>1 DEF Exclusion, ExecutedOnce
      <3>6. (\A u \in Tasks : task[u].pc = "platform" => run[task[u].run].status = "Running")'
        <4> SUFFICES ASSUME NEW u \in Tasks, task'[u].pc = "platform"
                     PROVE  run'[task'[u].run].status = "Running"
          OBVIOUS
        <4>1. task'[u] = task[u]
          BY <2>1, <2>2
        <4>2. run[task[u].run].status = "Running" /\ run'[task[u].run] = run[task[u].run]
          BY <2>3, <3>2, <3>3, <4>1 DEF Exclusion, ExecutedOnce
        <4> QED  BY <4>1, <4>2
      <3> QED  BY <3>4, <3>5, <3>6 DEF ExecutedOnce
    <2>11. \A s \in Runs : Admitted(s)' => Admitted(s)
      <3> SUFFICES ASSUME NEW s \in Runs, Admitted(s)' PROVE Admitted(s)
        OBVIOUS
      <3>1. CASE s = r
        <4>1. PICK u \in Tasks : task'[u].run = r /\ task'[u].pc \in {"evaluate", "settle"}
          BY <2>3, <2>5, <3>1 DEF Admitted
        <4>2. u # t /\ task[u].run = r /\ task[u].pc \in {"evaluate", "settle"}
          BY <2>1, <2>2, <4>1
        <4> QED  BY <2>4, <4>2 DEF Exclusion, InsertedOnce
      <3>2. CASE s # r
        BY <2>1, <2>2, <2>3, <3>2 DEF Admitted
      <3> QED  BY <3>1, <3>2
    <2>12. ClaimExclusion'
      BY <2>11 DEF Exclusion, ClaimExclusion
    <2> QED  BY <2>9, <2>10, <2>12 DEF Exclusion
  <1> QED  BY <1>2, <1>3 DEF Insert, Goto, Fail

\* Beginning a pass takes up proposals nobody has taken up before.
LEMMA BeginExcludes ==
    ASSUME TypeOK, Exclusion, TypeOK', NEW t \in Tasks, NEW j \in Jobs, BeginPropose(t, j)
    PROVE  Exclusion'
  <1> DEFINE rec == [IdleTask EXCEPT !.op = "propose", !.pc = "propose", !.issue = IssueOf[j],
                                     !.queue = {r \in Runs : JobOf[r] = j}]
  <1>1. /\ rec.pc = "propose" /\ rec.op = "propose" /\ rec.exec = FALSE
        /\ rec.queue = {r \in Runs : JobOf[r] = j}
    BY DEF IdleTask
  <1>2. \A u \in Tasks : task'[u] = IF u = t THEN rec ELSE task[u]
    BY DEF BeginPropose, Set, TypeOK
  <1>3. UNCHANGED run /\ UNCHANGED boot /\ Up /\ begun' = begun \cup {j} /\ j \notin begun
    BY DEF BeginPropose, At
  <1>4. Pending(t)' = {r \in Runs : JobOf[r] = j}
    BY <1>1, <1>2 DEF Pending
  <1>5. \A u \in Tasks : u # t => Pending(u)' = Pending(u)
    BY <1>2 DEF Pending
  <1>6. \A u \in Tasks : u # t => Pending(t)' \cap Pending(u)' = {}
    BY <1>3, <1>4, <1>5 DEF Exclusion, InsertedOnce
  <1>7. InsertedOnce'
    <2>1. (\A r \in Present : JobOf[r] \in begun)'
      BY <1>3 DEF Present, Exclusion, InsertedOnce
    <2>2. (\A u \in Tasks : \A r \in Pending(u) : r \notin Present /\ JobOf[r] \in begun)'
      BY <1>3, <1>4, <1>5 DEF Present, Exclusion, InsertedOnce
    <2>3. (\A u, v \in Tasks : u # v => Pending(u) \cap Pending(v) = {})'
      BY <1>5, <1>6 DEF Exclusion, InsertedOnce
    <2>4. (\A u \in Tasks : task[u].pc = "insert" => task[u].run \notin task[u].queue)'
      BY <1>1, <1>2 DEF Exclusion, InsertedOnce
    <2>5. (\A u \in Tasks : task[u].pc \in {"claim", "evaluate", "settle"}
                             => task[u].run \in Present)'
      BY <1>1, <1>2, <1>3 DEF Present, Exclusion, InsertedOnce
    <2> QED  BY <2>1, <2>2, <2>3, <2>4, <2>5 DEF InsertedOnce
  <1>8. ExecutedOnce'
    BY <1>1, <1>2, <1>3 DEF Up, Exclusion, ExecutedOnce
  <1>9. ClaimExclusion'
    <2>1. \A r \in Runs : Admitted(r)' => Admitted(r)
      BY <1>1, <1>2, <1>3 DEF Admitted
    <2> QED  BY <2>1 DEF Exclusion, ClaimExclusion
  <1> QED  BY <1>7, <1>8, <1>9 DEF Exclusion

\* A proposal's task moving within its window leaves what it has yet to insert alone.
LEMMA WindowMove ==
    ASSUME TypeOK, Exclusion, TypeOK', UNCHANGED <<begun, boot, run>>, Up,
           NEW t \in Tasks, NEW rec, Set(t, rec), rec.exec = FALSE, rec.pc # "platform",
           rec.op = "propose", task[t].op = "propose",
           \/ /\ rec.pc = "insert" /\ task[t].pc = "propose" /\ rec.run \in task[t].queue
              /\ rec.queue = task[t].queue \ {rec.run}
           \/ /\ rec.pc \in {"evaluate", "settle"} /\ rec.run = task[t].run
              /\ task[t].pc \in {"claim", "evaluate"} /\ rec.queue = task[t].queue,
           ClaimExclusion'
    PROVE  Exclusion'
  <1>1. \A u \in Tasks : task'[u] = IF u = t THEN rec ELSE task[u]
    BY DEF Set, TypeOK
  <1>2. \A u \in Tasks : Pending(u)' \subseteq Pending(u)
    BY <1>1 DEF Pending
  <1>3. Present' = Present /\ Up'
    BY DEF Present, Up
  <1>4. InsertedOnce'
    <2>1. (\A u, v \in Tasks : u # v => Pending(u) \cap Pending(v) = {})'
      <3> SUFFICES ASSUME NEW u \in Tasks, NEW v \in Tasks, u # v
                   PROVE  Pending(u)' \cap Pending(v)' = {}
        OBVIOUS
      <3>1. Pending(u)' \subseteq Pending(u) /\ Pending(v)' \subseteq Pending(v)
        BY <1>2
      <3> QED  BY <3>1 DEF Exclusion, InsertedOnce
    <2>2. (\A u \in Tasks : \A r \in Pending(u) : r \notin Present /\ JobOf[r] \in begun)'
      BY <1>2, <1>3 DEF Exclusion, InsertedOnce
    <2>3. (\A u \in Tasks : task[u].pc = "insert" => task[u].run \notin task[u].queue)'
      BY <1>1 DEF Exclusion, InsertedOnce
    <2>4. (\A u \in Tasks : task[u].pc \in {"claim", "evaluate", "settle"}
                             => task[u].run \in Present)'
      BY <1>1, <1>3 DEF Exclusion, InsertedOnce
    <2> QED  BY <1>3, <2>1, <2>2, <2>3, <2>4 DEF Exclusion, InsertedOnce
  <1>5. ExecutedOnce'
    BY <1>1, <1>3 DEF Exclusion, ExecutedOnce
  <1> QED  BY <1>4, <1>5 DEF Exclusion

\* A request that wins the claim is alone with its key: nobody else held it.
LEMMA ClaimExcludes ==
    ASSUME TypeOK, Exclusion, TypeOK', NEW t \in Tasks, Claim(t)
    PROVE  Exclusion'
  <1> DEFINE r == task[t].run
  <1>1. /\ task[t] \in TaskType /\ task[t].exec = FALSE /\ task[t].op = "propose"
        /\ Up /\ task[t].pc = "claim" /\ UNCHANGED <<begun, boot, run>> /\ r \in Runs
    BY DEF Claim, At, TypeOK, TaskRec, TaskType, TaskOK, RunPcs, Executing, Reconciling
  <1>2. CASE KeyTaken(r) /\ Set(t, [task[t] EXCEPT !.pc = "settle", !.seen = "Rejected"])
    <2> DEFINE rec == [task[t] EXCEPT !.pc = "settle", !.seen = "Rejected"]
    <2>1. /\ rec.pc = "settle" /\ rec.seen = "Rejected" /\ rec.run = r /\ rec.op = "propose"
          /\ rec.exec = FALSE /\ rec.queue = task[t].queue
      BY <1>1 DEF TaskType
    <2>2. \A u \in Tasks : task'[u] = IF u = t THEN rec ELSE task[u]
      BY <1>2 DEF Set, TypeOK
    <2>3. \A s \in Runs : Admitted(s)' => Admitted(s)
      BY <1>1, <2>1, <2>2 DEF Admitted
    <2>4. ClaimExclusion'
      BY <2>3 DEF Exclusion, ClaimExclusion
    <2> QED  BY <1>1, <1>2, <2>1, <2>4, WindowMove
  <1>3. CASE ~KeyTaken(r) /\ Set(t, [task[t] EXCEPT !.pc = "evaluate"])
    <2> DEFINE rec == [task[t] EXCEPT !.pc = "evaluate"]
    <2>1. /\ rec.pc = "evaluate" /\ rec.run = r /\ rec.op = "propose"
          /\ rec.exec = FALSE /\ rec.queue = task[t].queue
      BY <1>1 DEF TaskType
    <2>2. \A u \in Tasks : task'[u] = IF u = t THEN rec ELSE task[u]
      BY <1>3 DEF Set, TypeOK
    <2>3. \A s \in Runs : s # r /\ Admitted(s)' => Admitted(s)
      BY <1>1, <2>1, <2>2 DEF Admitted
    <2>4. \A s \in Runs : s # r /\ KeyOf[s] = KeyOf[r] => ~Admitted(s)
      BY <1>3 DEF KeyTaken, Admitted, Present, HoldsClaim, RunStatus
    <2>5. ClaimExclusion'
      BY <2>3, <2>4 DEF Exclusion, ClaimExclusion
    <2> QED  BY <1>1, <1>3, <2>1, <2>5, WindowMove
  <1> QED  BY <1>2, <1>3 DEF Claim, Goto

\* Everything a request does by itself keeps the exclusion invariant.
LEMMA WorkExcludes ==
    ASSUME HandsOff, TypeOK, Exclusion, TypeOK', NEW t \in Tasks, Work(t)
    PROVE  Exclusion'
  <1> USE DEF At
  <1> DEFINE r == task[t].run
  <1>1. task[t] \in TaskType /\ TaskOK(task[t])
    BY DEF TypeOK, TaskRec
  <1>2. task[t].pc \in RunPcs => r \in Runs
    BY <1>1 DEF TaskType, TaskOK
  <1>3. ASSUME Propose(t) PROVE Exclusion'
    <2> USE <1>3 DEF Propose
    <2>1. CASE ReconcileThen(t, "end")
      <3> DEFINE rec == [task[t] EXCEPT !.pc = "reconcile", !.then = "end", !.seen = "none"]
      <3>1. /\ rec.pc = "reconcile" /\ rec.run = r /\ rec.op = task[t].op
            /\ rec.queue = task[t].queue /\ rec.exec = task[t].exec
        BY <1>1 DEF TaskType
      <3> QED  BY <2>1, <3>1, QuietMove DEF ReconcileThen
    <2>2. CASE Fail(t)
      BY <2>2, QuietMove DEF Fail, IdleTask
    <2>3. ASSUME NEW s \in task[t].queue,
                 Set(t, [task[t] EXCEPT !.pc = "insert", !.run = s, !.queue = @ \ {s}])
          PROVE  Exclusion'
      <3> DEFINE rec == [task[t] EXCEPT !.pc = "insert", !.run = s, !.queue = @ \ {s}]
      <3>1. /\ rec.pc = "insert" /\ rec.run = s /\ rec.op = task[t].op
            /\ rec.queue = task[t].queue \ {s} /\ rec.exec = task[t].exec
        BY <1>1 DEF TaskType
      <3>2. task[t].exec = FALSE /\ task[t].op = "propose"
        BY <1>1 DEF TaskType, TaskOK, Executing, Reconciling
      <3>3. \A u \in Tasks : task'[u] = IF u = t THEN rec ELSE task[u]
        BY <2>3 DEF Set, TypeOK
      <3>4. \A q \in Runs : Admitted(q)' => Admitted(q)
        BY <3>1, <3>3 DEF Admitted
      <3>5. ClaimExclusion'
        BY <3>4 DEF Exclusion, ClaimExclusion
      <3> QED  BY <2>3, <3>1, <3>2, <3>5, WindowMove
    <2> QED  BY <2>1, <2>2, <2>3
  <1>4. ASSUME Evaluate(t) PROVE Exclusion'
    <2>1. PICK verdict \in Verdicts(r) : Set(t, [task[t] EXCEPT !.pc = "settle", !.seen = verdict])
      BY <1>4 DEF Evaluate
    <2> DEFINE rec == [task[t] EXCEPT !.pc = "settle", !.seen = verdict]
    <2>2. /\ rec.pc = "settle" /\ rec.run = r /\ rec.op = task[t].op
          /\ rec.queue = task[t].queue /\ rec.exec = task[t].exec
      BY <1>1 DEF TaskType
    <2>3. task[t].exec = FALSE /\ task[t].op = "propose"
      BY <1>1, <1>4 DEF Evaluate, TaskType, TaskOK, Executing, Reconciling
    <2>4. \A u \in Tasks : task'[u] = IF u = t THEN rec ELSE task[u]
      BY <2>1 DEF Set, TypeOK
    <2>5. \A q \in Runs : Admitted(q)' => Admitted(q)
      <3> SUFFICES ASSUME NEW q \in Runs, Admitted(q)' PROVE Admitted(q)
        OBVIOUS
      <3>1. run' = run /\ task[t].pc = "evaluate"
        BY <1>4 DEF Evaluate
      <3>2. CASE q = r
        BY <2>3, <3>1, <3>2 DEF Admitted
      <3>3. CASE q # r
        BY <2>2, <2>4, <3>1, <3>3 DEF Admitted
      <3> QED  BY <3>2, <3>3
    <2>6. ClaimExclusion'
      BY <2>5 DEF Exclusion, ClaimExclusion
    <2> QED  BY <1>4, <2>1, <2>2, <2>3, <2>6, WindowMove DEF Evaluate
  <1>5. ASSUME Settle(t) PROVE Exclusion'
    <2> USE <1>5 DEF Settle
    <2> DEFINE parked == [run[r] EXCEPT !.status = "WaitingForHuman"]
               decided == [run[r] EXCEPT !.status = StatusOfApproval(task[t].seen),
                                         !.approval = task[t].seen]
    <2>1. run[r] \in RunType /\ task[t].op = "propose" /\ r \in Runs
      BY <1>1, <1>2 DEF TypeOK, TaskOK, RunPcs
    <2>2. CASE task[t].seen = "WaitingForHuman"
      <3>1. Update(t, "Proposed", parked, "done") /\ parked.status = "WaitingForHuman"
        BY <2>1, <2>2 DEF RunType
      <3>2. run[r].status = "Proposed" => Admitted(r)
        BY <2>1, <2>2 DEF Admitted, HoldsClaim, RunStatus
      <3> QED  BY <2>1, <3>1, <3>2, QuietUpdate
    <2>3. CASE task[t].seen # "WaitingForHuman"
      <3>1. decided.status = StatusOfApproval(task[t].seen)
        BY <2>1 DEF RunType
      <3>2. StatusOfApproval(task[t].seen) \in {"Ready", "WaitingForApproval", "Cancelled"}
        BY DEF StatusOfApproval
      <3>3. run[r].status = "Proposed" /\ HoldsClaim(decided) => Admitted(r)
        <4>1. CASE task[t].seen = "Rejected"
          BY <3>1, <4>1 DEF StatusOfApproval, HoldsClaim
        <4>2. CASE task[t].seen # "Rejected"
          BY <2>1, <4>2 DEF Admitted, HoldsClaim, RunStatus
        <4> QED  BY <4>1, <4>2
      <3>4. \/ Update(t, "Proposed", decided, "execute")
            \/ Update(t, "Proposed", decided, "done")
        BY <2>3
      <3> QED  BY <2>1, <3>1, <3>2, <3>3, <3>4, QuietUpdate
    <2> QED  BY <2>2, <2>3
  <1>6. ASSUME Approve(t) PROVE Exclusion'
    <2> DEFINE new == [run[r] EXCEPT !.status = "Ready", !.approval = "Approved"]
    <2>1. r \in Runs /\ run[r] \in RunType
      BY <1>2, <1>6 DEF Approve, TypeOK, RunPcs
    <2>2. Update(t, task[t].seen, new, "execute") /\ new.status = "Ready"
      BY <1>6, <2>1 DEF Approve, RunType
    <2>3. task[t].seen = "WaitingForApproval"
      BY <1>1, <1>6, GatewayConstants DEF Approve, TaskOK, HandsOff
    <2>4. run[r].status = task[t].seen => Admitted(r)
      BY <2>3 DEF Admitted, HoldsClaim, RunStatus
    <2> QED  BY <1>6, <2>1, <2>2, <2>3, <2>4, QuietUpdate DEF Approve
  <1>7. ASSUME ListQueue(t) PROVE Exclusion'
    <2> DEFINE rec == [task[t] EXCEPT !.pc = "drain",
                                      !.queue = {s \in Runs : run[s].status = "Ready"}]
    <2>1. rec.pc = "drain" /\ rec.op = task[t].op /\ rec.run = r /\ rec.exec = task[t].exec
      BY <1>1 DEF TaskType
    <2>2. task[t].op # "propose"
      BY <1>1, <1>7 DEF ListQueue, TaskOK
    <2> QED  BY <1>7, <2>1, <2>2, QuietMove DEF ListQueue
  <1>8. ASSUME Drain(t) PROVE Exclusion'
    <2> USE <1>8 DEF Drain
    <2>1. CASE Fail(t)
      BY <2>1, QuietMove DEF Fail, IdleTask
    <2>2. ASSUME NEW s \in task[t].queue,
                 Set(t, [task[t] EXCEPT !.pc = "execute", !.run = s, !.queue = @ \ {s}])
          PROVE  Exclusion'
      <3> DEFINE rec == [task[t] EXCEPT !.pc = "execute", !.run = s, !.queue = @ \ {s}]
      <3>1. /\ rec.pc = "execute" /\ rec.op = task[t].op
            /\ rec.queue = task[t].queue \ {s} /\ rec.exec = task[t].exec
        BY <1>1 DEF TaskType
      <3>2. task[t].exec = FALSE
        BY <1>1 DEF TaskType, TaskOK, Executing, Reconciling
      <3> QED  BY <2>2, <3>1, <3>2, QuietMove
    <2> QED  BY <2>1, <2>2
  <1>9. ASSUME Execute(t) PROVE Exclusion'
    <2> USE <1>9 DEF Execute
    <2>0. \A u \in Tasks : u # t => ~(task[u].exec /\ task[u].run = r)
      OBVIOUS
    <2>1. CASE Set(t, [task[t] EXCEPT !.pc = "admit", !.exec = TRUE])
      <3> DEFINE rec == [task[t] EXCEPT !.pc = "admit", !.exec = TRUE]
      <3>1. /\ rec.pc = "admit" /\ rec.op = task[t].op /\ rec.run = r
            /\ rec.queue = task[t].queue
        BY <1>1 DEF TaskType
      <3>2. \A u \in Tasks : task'[u] = IF u = t THEN rec ELSE task[u]
        BY <2>1 DEF Set, TypeOK
      <3>3. \A u \in Tasks : Pending(u)' \subseteq Pending(u)
        BY <3>1, <3>2 DEF Pending
      <3>4. InsertedOnce'
        <4>1. (\A u, v \in Tasks : u # v => Pending(u) \cap Pending(v) = {})'
          <5> SUFFICES ASSUME NEW u \in Tasks, NEW v \in Tasks, u # v
                       PROVE  Pending(u)' \cap Pending(v)' = {}
            OBVIOUS
          <5>1. Pending(u)' \subseteq Pending(u) /\ Pending(v)' \subseteq Pending(v)
            BY <3>3
          <5> QED  BY <5>1 DEF Exclusion, InsertedOnce
        <4> QED  BY <3>1, <3>2, <3>3, <4>1 DEF Exclusion, InsertedOnce, Present
      <3>5. (\A u, v \in Tasks : task[u].exec /\ task[v].exec /\ task[u].run = task[v].run
                                => u = v)'
        <4> SUFFICES ASSUME NEW u \in Tasks, NEW v \in Tasks, task'[u].exec, task'[v].exec,
                            task'[u].run = task'[v].run, u # v
                     PROVE  FALSE
          OBVIOUS
        <4>1. CASE u = t
          <5>1. task'[v] = task[v] /\ task'[u].run = r
            BY <3>1, <3>2, <4>1
          <5> QED  BY <2>0, <4>1, <5>1
        <4>2. CASE v = t
          <5>1. task'[u] = task[u] /\ task'[v].run = r
            BY <3>1, <3>2, <4>2
          <5> QED  BY <2>0, <4>2, <5>1
        <4>3. CASE u # t /\ v # t
          BY <3>2, <4>3 DEF Exclusion, ExecutedOnce
        <4> QED  BY <4>1, <4>2, <4>3
      <3>6. ExecutedOnce'
        BY <3>1, <3>2, <3>5 DEF Exclusion, ExecutedOnce, Up
      <3>7. \A s \in Runs : Admitted(s)' => Admitted(s)
        BY <3>1, <3>2 DEF Admitted
      <3>8. ClaimExclusion'
        BY <3>7 DEF Exclusion, ClaimExclusion
      <3> QED  BY <3>4, <3>6, <3>8 DEF Exclusion
    <2>2. CASE Set(t, Finished(t))
      BY <2>2, FinishedQuiet, QuietMove
    <2> QED  BY <2>1, <2>2
  <1>10. ASSUME AdmitRefused(t) PROVE Exclusion'
    <2> USE <1>10 DEF AdmitRefused
    <2>1. CASE Set(t, IdleTask)
      BY <2>1, QuietMove DEF IdleTask
    <2>2. CASE Set(t, Finished(t))
      BY <2>2, FinishedQuiet, QuietMove
    <2> QED  BY <2>1, <2>2 DEF Fail
  <1>11. ASSUME Admit(t) PROVE Exclusion'
    <2> USE <1>11 DEF Admit, Admissible
    <2> DEFINE rec == [task[t] EXCEPT !.pc = "platform"]
    <2>1. /\ rec.pc = "platform" /\ rec.op = task[t].op /\ rec.run = r
          /\ rec.queue = task[t].queue /\ rec.exec = task[t].exec /\ r \in Runs
      BY <1>1, <1>2 DEF TaskType, RunPcs, Executing
    <2>2. \A u \in Tasks : task'[u] = IF u = t THEN rec ELSE task[u]
      BY DEF Goto, Set, TypeOK
    <2>3. \A s \in Runs : run'[s] = IF s = r THEN [run[r] EXCEPT !.status = "Running"] ELSE run[s]
      BY <2>1 DEF TypeOK
    <2>4. run'[r].status = "Running" /\ run[r].status = "Ready"
      BY <2>1, <2>3 DEF TypeOK, RunType
    <2>5. \A s \in Runs : s \in Present' <=> s \in Present
      BY <2>3, <2>4 DEF Present
    <2>6. \A u \in Tasks : Pending(u)' \subseteq Pending(u)
      BY <2>1, <2>2 DEF Pending
    <2>7. InsertedOnce'
      <3>1. (\A u, v \in Tasks : u # v => Pending(u) \cap Pending(v) = {})'
        <4> SUFFICES ASSUME NEW u \in Tasks, NEW v \in Tasks, u # v
                     PROVE  Pending(u)' \cap Pending(v)' = {}
          OBVIOUS
        <4>1. Pending(u)' \subseteq Pending(u) /\ Pending(v)' \subseteq Pending(v)
          BY <2>6
        <4> QED  BY <4>1 DEF Exclusion, InsertedOnce
      <3>2. Present' = Present
        BY <2>5 DEF Present
      <3> QED  BY <2>1, <2>2, <2>6, <3>1, <3>2 DEF Exclusion, InsertedOnce
    <2>8. (\A u \in Tasks : task[u].pc = "platform" => run[task[u].run].status = "Running")'
      <3> SUFFICES ASSUME NEW u \in Tasks, task'[u].pc = "platform"
                   PROVE  run'[task'[u].run].status = "Running"
        OBVIOUS
      <3>1. CASE u = t
        BY <2>1, <2>2, <2>4, <3>1
      <3>2. CASE u # t
        <4>1. task'[u] = task[u] /\ run[task[u].run].status = "Running" /\ task[u].run \in Runs
          BY <2>2, <3>2 DEF Exclusion, ExecutedOnce, TypeOK, TaskRec, TaskType, TaskOK, RunPcs,
                            Executing
        <4> QED  BY <2>3, <2>4, <4>1
      <3> QED  BY <3>1, <3>2
    <2>9. ExecutedOnce'
      <3>1. \A u \in Tasks : task'[u].exec = task[u].exec /\ task'[u].run = task[u].run
        BY <2>1, <2>2
      <3>2. Up /\ Up'
        BY DEF Up
      <3> QED  BY <2>8, <3>1, <3>2 DEF Exclusion, ExecutedOnce
    <2>10. \A s \in Runs : Admitted(s)' => Admitted(s)
      <3> SUFFICES ASSUME NEW s \in Runs, Admitted(s)' PROVE Admitted(s)
        OBVIOUS
      <3>1. CASE s = r
        BY <2>4, <3>1 DEF Admitted, HoldsClaim, RunStatus
      <3>2. CASE s # r
        BY <2>1, <2>2, <2>3, <3>2 DEF Admitted
      <3> QED  BY <3>1, <3>2
    <2>11. ClaimExclusion'
      BY <2>10 DEF Exclusion, ClaimExclusion
    <2> QED  BY <2>7, <2>9, <2>11 DEF Exclusion
  <1>12. ASSUME NEW pc \in {"park", "sweep", "apply"}, Goto(t, pc), Up,
                UNCHANGED <<run, begun, boot>>
         PROVE  Exclusion'
    <2> DEFINE rec == [task[t] EXCEPT !.pc = pc]
    <2>1. /\ rec.pc = pc /\ rec.op = task[t].op /\ rec.run = r
          /\ rec.queue = task[t].queue /\ rec.exec = task[t].exec
      BY <1>1 DEF TaskType
    <2> QED  BY <1>12, <2>1, QuietMove DEF Goto
  <1>13. ASSUME AdmitUnimplemented(t) PROVE Exclusion'
    BY <1>12, <1>13 DEF AdmitUnimplemented
  <1>14. ASSUME Park(t) PROVE Exclusion'
    <2> DEFINE new == [run[r] EXCEPT !.status = "WaitingForHuman"]
    <2>1. r \in Runs /\ run[r] \in RunType
      BY <1>2, <1>14 DEF Park, TypeOK, RunPcs, Executing
    <2>2. Update(t, "Ready", new, "done") /\ new.status = "WaitingForHuman"
      BY <1>14, <2>1 DEF Park, RunType
    <2>3. run[r].status = "Ready" => Admitted(r)
      BY DEF Admitted, HoldsClaim, RunStatus
    <2> QED  BY <1>14, <2>1, <2>2, <2>3, QuietUpdate DEF Park
  <1>15. ASSUME NEW result \in PlatformResults, PlatformReturns(t, result) PROVE Exclusion'
    <2> DEFINE next == RecordExecution(run[r], result)
    <2>1. r \in Runs /\ run[r] \in RunType
      BY <1>2, <1>15 DEF PlatformReturns, TypeOK, RunPcs, Executing
    <2>2. Update(t, "Running", next, "verify") \/ Update(t, "Running", next, "done")
      BY <1>15 DEF PlatformReturns
    <2>3. next.status \notin {"Absent", "Proposed"}
      BY <2>1 DEF RecordExecution, RunType
    <2>4. run[r].status = "Running" => Admitted(r)
      BY DEF Admitted, HoldsClaim, RunStatus
    <2> QED  BY <1>15, <2>1, <2>2, <2>3, <2>4, QuietUpdate DEF PlatformReturns
  <1>16. ASSUME Verify(t) PROVE Exclusion'
    <2>1. PICK evidence \in Findings(r) :
            Update(t, "Verifying", RecordVerification(run[r], evidence), "done")
      BY <1>16 DEF Verify
    <2>2. r \in Runs /\ run[r] \in RunType
      BY <1>2, <1>16 DEF Verify, TypeOK, RunPcs, Executing
    <2>3. RecordVerification(run[r], evidence).status \notin {"Absent", "Proposed"}
      BY <2>2 DEF RecordVerification, RunType
    <2>4. run[r].status = "Verifying" => Admitted(r)
      BY DEF Admitted, HoldsClaim, RunStatus
    <2> QED  BY <1>16, <2>1, <2>2, <2>3, <2>4, QuietUpdate DEF Verify
  <1>17. ASSUME Set(t, AfterReconcile(t)), Up, UNCHANGED <<run, begun, boot>>
         PROVE  Exclusion'
    BY <1>17, AfterReconcileQuiet, QuietMove
  <1>18. ASSUME Reconcile(t) PROVE Exclusion'
    <2> USE <1>18 DEF Reconcile
    <2>1. \/ Goto(t, "sweep") \/ Goto(t, "apply") \/ Set(t, AfterReconcile(t))
      OBVIOUS
    <2> QED  BY <1>12, <1>17, <2>1
  <1>19. ASSUME Apply(t) PROVE Exclusion'
    <2> USE <1>19 DEF Apply
    <2>1. Goto(t, "sweep") \/ Set(t, AfterReconcile(t))
      OBVIOUS
    <2> QED  BY <1>12, <1>17, <2>1
  <1>20. ASSUME ApplyConflict(t) PROVE Exclusion'
    BY <1>20, QuietMove DEF ApplyConflict, Fail, IdleTask
  <1>21. ASSUME NEW s \in Runs, Sweep(t, s) PROVE Exclusion'
    <2>1. UNCHANGED <<task, begun, boot>> /\ Up' /\ Up
      BY <1>21 DEF Sweep, Up
    <2>2. ASSUME run[s].status \in Unstarted, run' = [run EXCEPT ![s].status = "Cancelled"]
          PROVE  Advances(s) /\ \A q \in Runs : q # s => run'[q].status = run[q].status
      BY <2>2 DEF TypeOK, RunType, Unstarted, Advances, Present, HoldsClaim
    <2>3. \A q \in Runs : run'[q].status = run[q].status \/ Advances(q)
      BY <1>21, <2>2 DEF Sweep, CancelUnstarted
    <2> QED  BY <2>1, <2>3, QuietStep
  <1>22. ASSUME Swept(t) PROVE Exclusion'
    BY <1>17, <1>22 DEF Swept
  <1> QED
    BY <1>3, <1>4, <1>5, <1>6, <1>7, <1>8, <1>9, <1>10, <1>11, <1>13, <1>14, <1>15, <1>16,
       <1>18, <1>19, <1>20, <1>21, <1>22, InsertExcludes, ClaimExcludes DEF Work

\* So does everything a request arrives with.
LEMMA RequestExcludes ==
    ASSUME HandsOff, TypeOK, Exclusion, TypeOK', NEW t \in Tasks, Request(t)
    PROVE  Exclusion'
  <1> USE DEF At
  <1>1. /\ IdleTask.op = "none" /\ IdleTask.exec = FALSE /\ IdleTask.pc = "idle"
        /\ IdleTask \in TaskType
    BY IdleTyped DEF IdleTask, TaskRec
  <1>2. ASSUME NEW op \in {"approve", "reject", "review", "resume", "close"},
               NEW rec, Set(t, rec), rec.op = op, rec.exec = FALSE,
               rec.pc \in {"approve", "reconcile", "list", "sweep"},
               Up, UNCHANGED <<begun, boot>>,
               \A r \in Runs : run'[r].status = run[r].status \/ Advances(r)
        PROVE  Exclusion'
    BY <1>2, QuietMove
  <1>3. ASSUME NEW r \in Runs, BeginApprove(t, r) PROVE Exclusion'
    <2> DEFINE rec == [IdleTask EXCEPT !.op = "approve", !.pc = "approve", !.run = r,
                                       !.seen = run[r].status]
    <2>1. rec.op = "approve" /\ rec.pc = "approve" /\ rec.exec = FALSE
      BY <1>1 DEF TaskType
    <2> QED  BY <1>2, <1>3, <2>1 DEF BeginApprove
  <1>4. ASSUME NEW r \in Runs, NEW op \in {"reject", "review"},
               run[r].status \notin {"Absent", "Running"},
               NEW record, run' = [run EXCEPT ![r] = record],
               record.status \notin {"Absent", "Proposed"}
                 \/ record.status = run[r].status,
               record.status # run[r].status => ~HoldsClaim(record),
               Set(t, [IdleTask EXCEPT !.op = op, !.pc = "reconcile", !.run = r]),
               Up, UNCHANGED <<begun, boot>>
        PROVE  Exclusion'
    <2> DEFINE rec == [IdleTask EXCEPT !.op = op, !.pc = "reconcile", !.run = r]
    <2>1. rec.op = op /\ rec.pc = "reconcile" /\ rec.exec = FALSE
      BY <1>1 DEF TaskType
    <2>2. \A s \in Runs : run'[s] = IF s = r THEN record ELSE run[s]
      BY <1>4 DEF TypeOK
    <2>3. \A s \in Runs : run'[s].status = run[s].status \/ Advances(s)
      BY <1>4, <2>2 DEF Advances, Present
    <2> QED  BY <1>2, <1>4, <2>1, <2>3
  <1>5. ASSUME NEW r \in Runs, Reject(t, r) PROVE Exclusion'
    <2>1. run[r].status \notin {"Absent", "Running"}
      BY <1>5, GatewayConstants DEF Reject, HandsOff, RunStatus
    <2>2. Deny(run[r]).status = "Cancelled"
      BY DEF Deny, TypeOK, RunType
    <2>3. ~HoldsClaim(Deny(run[r]))
      BY <2>2 DEF HoldsClaim
    <2> QED  BY <1>4, <1>5, <2>1, <2>2, <2>3 DEF Reject
  <1>6. ASSUME NEW r \in Runs, Review(t, r) PROVE Exclusion'
    <2> DEFINE record == Reviewed(run[r])
    <2>1. run[r] \in RunType /\ run[r].status # "Absent"
      BY <1>6 DEF Review, Present, TypeOK
    <2>2. CASE run[r].status = "WaitingForHuman"
      <3>1. record.status = "Cancelled" /\ ~HoldsClaim(record)
        BY <2>1, <2>2 DEF Reviewed, RunType, HoldsClaim
      <3> QED  BY <1>4, <1>6, <2>1, <2>2, <3>1 DEF Review
    <2>3. CASE run[r].status # "WaitingForHuman"
      <3>1. record.status = run[r].status
        BY <2>1, <2>3 DEF Reviewed, RunType
      <3>2. \A s \in Runs : run'[s].status = run[s].status
        BY <1>6, <3>1 DEF Review, TypeOK
      <3> DEFINE rec == [IdleTask EXCEPT !.op = "review", !.pc = "reconcile", !.run = r]
      <3>3. rec.op = "review" /\ rec.pc = "reconcile" /\ rec.exec = FALSE
        BY <1>1 DEF TaskType
      <3> QED  BY <1>2, <1>6, <3>2, <3>3 DEF Review
    <2> QED  BY <2>2, <2>3
  <1>7. ASSUME NEW i \in Issues, NEW closure \in IssueTerminal, Close(t, i, closure)
        PROVE  Exclusion'
    <2> DEFINE rec == [IdleTask EXCEPT !.op = "close", !.pc = "sweep", !.issue = i, !.then = "end"]
    <2>1. rec.op = "close" /\ rec.pc = "sweep" /\ rec.exec = FALSE
      BY <1>1 DEF TaskType
    <2> QED  BY <1>2, <1>7, <2>1 DEF Close
  <1>8. ASSUME Resume(t) PROVE Exclusion'
    <2> DEFINE rec == [IdleTask EXCEPT !.op = "resume", !.pc = "list"]
    <2>1. rec.op = "resume" /\ rec.pc = "list" /\ rec.exec = FALSE
      BY <1>1 DEF TaskType
    <2> QED  BY <1>2, <1>8, <2>1 DEF Resume
  <1> QED  BY <1>3, <1>5, <1>6, <1>7, <1>8, BeginExcludes DEF Request

\* So do a dropped request, a crash, a freeze, and every step of startup recovery.
LEMMA EnvironmentExcludes ==
    ASSUME TypeOK, Exclusion, TypeOK',
           \/ \E t \in Tasks : Drop(t)
           \/ \E m \in Freezes : Freeze(m)
           \/ Crash \/ Boot
    PROVE  Exclusion'
  <1>1. ASSUME NEW t \in Tasks, Drop(t) PROVE Exclusion'
    BY <1>1, QuietMove DEF Drop, Fail, IdleTask
  <1>2. ASSUME NEW m \in Freezes, Freeze(m) PROVE Exclusion'
    <2>1. Up' /\ UNCHANGED <<run, begun, task>>
      BY <1>2 DEF Freeze, Up
    <2> QED  BY <2>1, QuietStep
  <1>3. ASSUME Crash PROVE Exclusion'
    <2>1. \A t \in Tasks : task'[t] = IdleTask
      BY <1>3 DEF Crash
    <2>2. UNCHANGED <<run, begun>>
      BY <1>3 DEF Crash
    <2> QED  BY <2>1, <2>2, QuietStep DEF Withdraws, IdleTask
  <1>4. ASSUME ~Up, UNCHANGED <<begun, task>>,
               \A r \in Runs : \/ run'[r].status = run[r].status
                               \/ /\ run[r].status \notin {"Absent", "Proposed"}
                                  /\ run'[r].status \notin {"Absent", "Proposed"}
                               \/ run[r].status # "Absent" /\ run'[r].status = "Cancelled",
               \A r \in Runs : HoldsClaim(run'[r]) => HoldsClaim(run[r])
        PROVE  Exclusion'
    <2>1. \A t \in Tasks : task[t].pc = "idle" /\ task'[t].pc = "idle"
      BY <1>4 DEF Exclusion, ExecutedOnce
    <2>2. \A r \in Runs : run'[r].status = run[r].status \/ Advances(r)
      <3> SUFFICES ASSUME NEW r \in Runs, run'[r].status # run[r].status PROVE Advances(r)
        OBVIOUS
      <3>1. run[r].status # "Absent" /\ run'[r].status \notin {"Absent", "Proposed"}
        BY <1>4
      <3>2. HoldsClaim(run'[r]) => run[r].status # "Proposed" /\ HoldsClaim(run[r])
        BY <1>4 DEF HoldsClaim
      <3> QED  BY <2>1, <3>1, <3>2 DEF Advances, Present, Admitted
    <2> QED  BY <1>4, <2>1, <2>2, QuietStep
  <1>5. boot.phase # "up" => ~Up
    BY DEF Up
  <1>6. ASSUME ~Up, UNCHANGED <<run, begun, task>> PROVE Exclusion'
    BY <1>4, <1>6
  <1>7. ASSUME BootStart PROVE Exclusion'
    BY <1>5, <1>6, <1>7 DEF BootStart
  <1>8. ASSUME BootList PROVE Exclusion'
    BY <1>5, <1>6, <1>8 DEF BootList
  <1>9. ASSUME BootVerified PROVE Exclusion'
    BY <1>5, <1>6, <1>9 DEF BootVerified
  <1>10. ASSUME NEW i \in Issues, BootReconcile(i) PROVE Exclusion'
    BY <1>5, <1>6, <1>10 DEF BootReconcile
  <1>11. ASSUME BootFinish PROVE Exclusion'
    BY <1>5, <1>6, <1>11 DEF BootFinish
  <1>12. ASSUME NEW r \in Runs, NEW record, run' = [run EXCEPT ![r] = record],
                ~Up, UNCHANGED <<begun, task>>, run[r].status # "Absent",
                \/ record.status = "Cancelled"
                \/ /\ run[r].status \in {"Running", "Verifying"}
                   /\ record.status \in {"Failed", "Succeeded", "VerificationFailed"}
         PROVE  Exclusion'
    <2>1. \A s \in Runs : run'[s] = IF s = r THEN record ELSE run[s]
      BY <1>12 DEF TypeOK
    <2>2. HoldsClaim(record) => HoldsClaim(run[r])
      BY <1>12 DEF HoldsClaim, RunStatus
    <2>3. \A s \in Runs : HoldsClaim(run'[s]) => HoldsClaim(run[s])
      BY <2>1, <2>2
    <2>4. \A s \in Runs : \/ run'[s].status = run[s].status
                          \/ /\ run[s].status \notin {"Absent", "Proposed"}
                             /\ run'[s].status \notin {"Absent", "Proposed"}
                          \/ run[s].status # "Absent" /\ run'[s].status = "Cancelled"
      BY <1>12, <2>1
    <2> QED  BY <1>4, <1>12, <2>3, <2>4
  <1>13. ASSUME NEW r \in Runs, BootSweep(r) PROVE Exclusion'
    <2> DEFINE record == [run[r] EXCEPT !.status = "Cancelled"]
    <2>1. ~Up /\ UNCHANGED <<begun, task>> /\ run' = CancelUnstarted(r)
      BY <1>5, <1>13 DEF BootSweep
    <2>2. CASE run[r].status \in Unstarted
      <3>1. run' = [run EXCEPT ![r] = record] /\ record.status = "Cancelled"
        BY <2>1, <2>2 DEF CancelUnstarted, TypeOK, RunType
      <3> QED  BY <1>12, <2>1, <2>2, <3>1 DEF Unstarted
    <2>3. CASE run[r].status \notin Unstarted
      BY <1>6, <2>1, <2>3 DEF CancelUnstarted
    <2> QED  BY <2>2, <2>3
  <1>14. ASSUME NEW r \in Runs, BootInterrupt(r) PROVE Exclusion'
    <2>1. ~Up /\ UNCHANGED <<begun, task>>
      BY <1>5, <1>14 DEF BootInterrupt
    <2>2. CASE run[r].status = "Proposed" /\ run' = [run EXCEPT ![r] = Deny(@)]
      <3>1. Deny(run[r]).status = "Cancelled"
        BY DEF Deny, TypeOK, RunType
      <3> QED  BY <1>12, <2>1, <2>2, <3>1
    <2>3. CASE run[r].status = "Running" /\ run' = [run EXCEPT ![r] = RecordExecution(@, "failed")]
      <3>1. RecordExecution(run[r], "failed").status = "Failed"
        BY DEF RecordExecution, TypeOK, RunType
      <3> QED  BY <1>12, <2>1, <2>3, <3>1
    <2> QED  BY <1>14, <2>2, <2>3 DEF BootInterrupt
  <1>15. ASSUME NEW r \in Runs, BootVerify(r) PROVE Exclusion'
    <2>1. PICK evidence \in Findings(r) : run' = [run EXCEPT ![r] = RecordVerification(@, evidence)]
      BY <1>15 DEF BootVerify
    <2>2. RecordVerification(run[r], evidence).status \in {"Succeeded", "VerificationFailed"}
      BY DEF RecordVerification, TypeOK, RunType
    <2>3. ~Up /\ UNCHANGED <<begun, task>> /\ run[r].status = "Verifying"
      BY <1>5, <1>15 DEF BootVerify
    <2> QED  BY <1>12, <2>1, <2>2, <2>3
  <1> QED
    BY <1>1, <1>2, <1>3, <1>7, <1>8, <1>9, <1>10, <1>11, <1>13, <1>14, <1>15 DEF Boot

\* The invariant behind the two exclusion properties holds for every set of runs, passes
\* and requests, as long as no human decides on a run that is not theirs to decide yet.
THEOREM ExclusionHolds == HandsOff => (Spec => []ExclusionInv)
  <1> SUFFICES ASSUME HandsOff PROVE Spec => []ExclusionInv
    OBVIOUS
  <1>1. Init => Exclusion
    BY DEF Init, Exclusion, InsertedOnce, ExecutedOnce, ClaimExclusion, Admitted, HoldsClaim,
           RunStatus, Present, Pending, Absent, IdleTask, Up, Serving
  <1>2. TypeOK /\ TypeOK' /\ Exclusion /\ [Next]_vars => Exclusion'
    <2> SUFFICES ASSUME TypeOK, TypeOK', Exclusion, [Next]_vars PROVE Exclusion'
      OBVIOUS
    <2>1. CASE UNCHANGED vars
      <3>1. UNCHANGED <<run, begun, task, boot>> /\ (Up' <=> Up)
        BY <2>1 DEF vars, Up
      <3>2. Up \/ \A t \in Tasks : task[t].pc = "idle"
        BY DEF Exclusion, ExecutedOnce
      <3> QED  BY <3>1, <3>2, QuietStep
    <2> QED  BY <2>1, WorkExcludes, RequestExcludes, EnvironmentExcludes DEF Next
  <1> QED  BY <1>1, <1>2, Typing, PTL DEF Spec, ExclusionInv

\* Of the runs with one idempotency key at most one is past its claim.
THEOREM OneClaimPerKey == HandsOff => (Spec => []ClaimExclusion)
  <1>1. ExclusionInv => ClaimExclusion
    BY DEF ExclusionInv, Exclusion
  <1> QED  BY <1>1, ExclusionHolds, PTL

\* The Platform never executes two commands with one idempotency key at a time.
THEOREM OneExecutionPerKey == HandsOff => (Spec => []ExecutingExclusion)
  <1>1. ExclusionInv => ExecutingExclusion
    <2> SUFFICES ASSUME ExclusionInv, NEW t \in Tasks, NEW u \in Tasks,
                        task[t].pc = "platform", task[u].pc = "platform",
                        KeyOf[task[t].run] = KeyOf[task[u].run]
                 PROVE  t = u
      BY DEF ExecutingExclusion
    <2>1. /\ task[t].run \in Runs /\ task[u].run \in Runs
          /\ task[t].exec /\ task[u].exec
      BY DEF ExclusionInv, TypeOK, TaskRec, TaskType, TaskOK, RunPcs, Executing
    <2>2. run[task[t].run].status = "Running" /\ run[task[u].run].status = "Running"
      BY DEF ExclusionInv, Exclusion, ExecutedOnce
    <2>3. Admitted(task[t].run) /\ Admitted(task[u].run)
      BY <2>2 DEF Admitted, HoldsClaim, RunStatus
    <2>4. task[t].run = task[u].run
      BY <2>1, <2>3 DEF ExclusionInv, Exclusion, ClaimExclusion
    <2> QED  BY <2>1, <2>4 DEF ExclusionInv, Exclusion, ExecutedOnce
  <1> QED  BY <1>1, ExclusionHolds, PTL
=============================================================================
