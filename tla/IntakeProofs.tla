---------------------------- MODULE IntakeProofs ----------------------------
(***************************************************************************)
(* Triage, proved for any number of captures, reviews, incidents and       *)
(* Issues, whatever the judge finds and the policy answers: an incident    *)
(* has one live Issue, evidence that a review lists stays carried, and no  *)
(* evidence older than a closure reopens an incident.                      *)
(***************************************************************************)
EXTENDS Intake, SequenceTheorems, TLAPS

-----------------------------------------------------------------------------
(* Types, and what the place of a task says of what it holds. *)

IssueType == [key : Keys \cup {NoKey}, status : IssueStatus, priority : Nat,
              opened : Nat, evidence : SUBSET Snapshots, closed : Nat]

Places == {"idle", "captured", "judging", "findings", "screen", "queue", "accept", "merge",
           "write", "capture", "bind", "failed", "hand over", "dispatch", "begin", "pass"}

TaskType == [pc : Places, snap : Snapshots \cup {0}, todo : Seq(Keys), key : Keys \cup {NoKey},
             issue : Nat, copy : IssueType, seen : SUBSET Nat]

ReviewType == [status : {"none", "running", "failed", "completed"}, issues : SUBSET Nat]

\* Reviewing is done under snapshot_review_lock, and deciding about a finding is part of it.
Deciding == {"screen", "queue", "accept", "merge", "write"}
UnderLock == {"judging", "findings"} \cup Deciding
Writing == {"write", "bind", "hand over", "begin"}
ByWorker == {"idle", "capture", "bind", "failed", "hand over", "dispatch", "begin", "pass"}
ByReviewer == {"idle", "captured"} \cup UnderLock

\* What the store holds, and what a task has in hand.
Types ==
    /\ issues \in Seq(IssueType)
    /\ review \in [Snapshots -> ReviewType]
    /\ now \in 0 .. MaxSnapshots /\ up \in BOOLEAN
    /\ jobs \subseteq Ids /\ running \subseteq jobs
    /\ copies \subseteq Tasks /\ reviewing \in Tasks \cup {Nobody}

Fits(t, r, ids, holder) ==
    /\ t \in Reviewers => r.pc \in ByReviewer
    /\ t = Worker => r.pc \in ByWorker
    /\ t \in Reviewers /\ r.pc # "idle" => r.snap \in Snapshots
    /\ r.pc \in UnderLock => holder = t
    /\ r.pc \in Deciding => r.key \in Keys
    /\ r.pc \in {"merge", "write"} => r.issue \in ids
    /\ t = Worker /\ r.pc # "idle" => r.issue \in ids
    /\ r.issue \in ids \cup {0}
TaskInv(t) == Fits(t, task[t], Ids, reviewing)
TasksOK == task \in [Tasks -> TaskType] /\ \A t \in Tasks : TaskInv(t)

\* A copy the store still holds is one, and stays one until somebody writes.
CopyInv ==
    \A t \in copies : task[t].pc \in Writing /\ task[t].copy = issues[task[t].issue]

\* What is written over an Issue nobody touched leaves the live alive and the dead dead.
WorkerInv ==
    /\ task[Worker].pc = "hand over" => task[Worker].copy.status = "Open"
    /\ task[Worker].pc = "begin" => task[Worker].copy.status \notin IssueTerminal

LifeInv ==
    /\ \A i \in running : Live(i)
    /\ \A i \in Ids : Live(i) => issues[i].closed = 0

\* A controller that is down has no tasks.
DownInv == ~up => copies = {} /\ reviewing = Nobody /\ \A t \in Tasks : task[t] = Idle

\* The incident a finding opens has no live Issue, and an Issue that could forbid it was
\* live when the finding was screened.
ScreenedInv ==
    \A r \in Reviewers :
        /\ task[r].pc = "accept" => SameIncident(task[r].key) = {}
        /\ task[r].pc \in {"queue", "accept"} =>
             \A j \in Ids :
                 Live(j) \/ (issues[j].key = task[r].key /\ issues[j].closed >= task[r].snap)
                 => j \in task[r].seen

ListedInv == \A s \in Snapshots : review[s].issues \subseteq Ids

\* What every step relies on.
IntakeInv ==
    /\ Types /\ TasksOK /\ CopyInv /\ WorkerInv /\ LifeInv /\ DownInv
    /\ ScreenedInv /\ OneIssueEach /\ ListedInv /\ EvidenceCarried

-----------------------------------------------------------------------------
(* Types. *)

LEMMA Blank == NoIssue \in IssueType /\ Idle \in TaskType
  BY DEF NoIssue, Idle, IssueType, TaskType, IssueStatus, Places

\* What is written of an Issue is an Issue, and is live as its status says.
LEMMA ToIssue ==
    ASSUME NEW issue \in IssueType, NEW status \in IssueStatus, now \in Nat
    PROVE  /\ To(issue, status) \in IssueType
           /\ To(issue, status).status = status
           /\ To(issue, status).closed = IF status \in IssueTerminal THEN now ELSE 0
           /\ To(issue, status).key = issue.key /\ To(issue, status).opened = issue.opened
           /\ To(issue, status).evidence = issue.evidence
  BY DEF To, IssueType

LEMMA MergedIssue ==
    ASSUME NEW issue \in IssueType, NEW key \in Keys, NEW s \in Snapshots
    PROVE  /\ Merged(issue, key, s) \in IssueType
           /\ Merged(issue, key, s).evidence = issue.evidence \cup {s}
           /\ Merged(issue, key, s).status = issue.status
           /\ Merged(issue, key, s).closed = issue.closed
           /\ Merged(issue, key, s).key = issue.key /\ Merged(issue, key, s).opened = issue.opened
  BY TasksAssumption DEF Merged, IssueType

LEMMA NewIssue ==
    ASSUME NEW key \in Keys, NEW s \in Snapshots
    PROVE  FromCandidate(key, s) \in IssueType
  BY TasksAssumption DEF FromCandidate, IssueType, IssueStatus, Snapshots

\* An Issue written over where it is.
LEMMA Overwritten ==
    ASSUME issues \in Seq(IssueType), NEW i \in Ids, NEW next \in IssueType,
           issues' = [issues EXCEPT ![i] = next]
    PROVE  /\ issues' \in Seq(IssueType) /\ Ids' = Ids /\ issues'[i] = next
           /\ \A j \in Ids \ {i} : issues'[j] = issues[j]
  BY ExceptSeq, LenProperties DEF Ids

\* An Issue added at the end.
LEMMA Added ==
    ASSUME issues \in Seq(IssueType), NEW next \in IssueType, issues' = Append(issues, next)
    PROVE  /\ issues' \in Seq(IssueType) /\ Len(issues) + 1 \notin Ids
           /\ Ids' = Ids \cup {Len(issues) + 1}
           /\ issues'[Len(issues) + 1] = next /\ \A j \in Ids : issues'[j] = issues[j]
  BY AppendProperties, LenProperties DEF Ids

-----------------------------------------------------------------------------
(* How a step writes Issues. *)

\* A conditional write changes an Issue only from what it is.
LEMMA WriteFresh ==
    ASSUME IntakeInv, NEW t \in Tasks, NEW next \in IssueType, UpdateIf(t, task[t].issue, next)
    PROVE  \/ /\ t \notin copies /\ issues' = issues /\ copies' = copies
           \/ /\ t \in copies /\ task[t].issue \in Ids
              /\ issues[task[t].issue] = task[t].copy /\ issues'[task[t].issue] = next
              /\ issues' \in Seq(IssueType) /\ Ids' = Ids
              /\ \A j \in Ids \ {task[t].issue} : issues'[j] = issues[j]
              /\ copies' = {u \in copies : u # t /\ task[u].issue # task[t].issue}
  <1>1. CASE t \in copies
    <2>1. task[t].pc \in Writing /\ task[t].copy = issues[task[t].issue] /\ TaskInv(t)
      BY <1>1 DEF IntakeInv, CopyInv, TasksOK
    <2>2. task[t].issue \in Ids
      BY <2>1 DEF TaskInv, Fits, Writing, ByReviewer, UnderLock, Deciding, ByWorker, Tasks
    <2> QED
      BY <1>1, <2>1, <2>2, Overwritten DEF UpdateIf, Write, IntakeInv, Types
  <1> QED
    BY <1>1 DEF UpdateIf

\* What no step undoes of an Issue: which incident it is, since when, its evidence, and its end.
KeepsIssue(i) ==
    /\ issues'[i].key = issues[i].key /\ issues'[i].opened = issues[i].opened
    /\ issues[i].evidence \subseteq issues'[i].evidence
    /\ Live(i)' => Live(i) /\ issues'[i].closed = 0
    /\ ~Live(i) => issues'[i].closed = issues[i].closed

KeptIssues == issues' \in Seq(IssueType) /\ Ids' = Ids /\ \A i \in Ids : KeepsIssue(i)

LEMMA UntouchedIssues ==
    ASSUME IntakeInv, issues' = issues
    PROVE  KeptIssues
  BY DEF IntakeInv, Types, LifeInv, KeptIssues, KeepsIssue, Live, Ids

\* One Issue written, by what keeps it.
LEMMA OneIssueWritten ==
    ASSUME IntakeInv, NEW i \in Ids, NEW next \in IssueType, issues' = [issues EXCEPT ![i] = next],
           next.key = issues[i].key, next.opened = issues[i].opened,
           issues[i].evidence \subseteq next.evidence,
           next.status \notin IssueTerminal => Live(i) /\ next.closed = 0,
           ~Live(i) => next.closed = issues[i].closed
    PROVE  KeptIssues
  <1>1. /\ issues' \in Seq(IssueType) /\ Ids' = Ids /\ issues'[i] = next
        /\ \A j \in Ids \ {i} : issues'[j] = issues[j]
    BY Overwritten DEF IntakeInv, Types
  <1>2. KeepsIssue(i)
    BY <1>1 DEF KeepsIssue, Live
  <1>3. ASSUME NEW j \in Ids \ {i} PROVE KeepsIssue(j)
    BY <1>1, <1>3 DEF KeepsIssue, Live, IntakeInv, LifeInv
  <1> QED
    BY <1>1, <1>2, <1>3 DEF KeptIssues

\* The same for the copy of a task, written under compare-and-set.
LEMMA CopyWritten ==
    ASSUME IntakeInv, NEW t \in Tasks, NEW next \in IssueType, UpdateIf(t, task[t].issue, next),
           next.key = task[t].copy.key, next.opened = task[t].copy.opened,
           task[t].copy.evidence \subseteq next.evidence,
           next.status \notin IssueTerminal =>
               task[t].copy.status \notin IssueTerminal
               /\ (next.closed = 0 \/ next.closed = task[t].copy.closed),
           task[t].copy.status \in IssueTerminal => next.closed = task[t].copy.closed
    PROVE  KeptIssues
  <1>1. CASE t \notin copies
    BY <1>1, UntouchedIssues DEF UpdateIf
  <1>2. CASE t \in copies
    <2>1. task[t].issue \in Ids /\ issues[task[t].issue] = task[t].copy
      BY <1>2, WriteFresh
    <2>2. issues' = [issues EXCEPT ![task[t].issue] = next]
      BY <1>2 DEF UpdateIf, Write
    <2>3. Live(task[t].issue) <=> task[t].copy.status \notin IssueTerminal
      BY <2>1 DEF Live
    <2>4. Live(task[t].issue) => task[t].copy.closed = 0
      BY <2>1 DEF IntakeInv, LifeInv
    <2> QED
      BY <2>1, <2>2, <2>3, <2>4, OneIssueWritten
  <1> QED
    BY <1>1, <1>2

LEMMA TaskFields ==
    ASSUME IntakeInv, NEW t \in Tasks
    PROVE  /\ task[t] \in TaskType /\ task[t].copy \in IssueType /\ task[t].issue \in Nat
           /\ TaskInv(t)
           /\ task[t].pc \in {"merge", "write"} => task[t].key \in Keys /\ task[t].snap \in Snapshots
           /\ now \in Nat
  <1>1. task[t] \in TaskType /\ TaskInv(t) /\ now \in Nat
    BY TasksAssumption DEF IntakeInv, Types, TasksOK
  <1>2. task[t].copy \in IssueType /\ task[t].issue \in Nat
    BY <1>1 DEF TaskType
  <1>3. ASSUME task[t].pc \in {"merge", "write"} PROVE task[t].key \in Keys /\ task[t].snap \in Snapshots
    <2>1. t # Worker
      BY <1>1, <1>3 DEF TaskInv, Fits, ByWorker
    <2> QED
      BY <1>1, <1>3, <2>1 DEF TaskInv, Fits, Tasks, Deciding
  <1> QED
    BY <1>1, <1>2, <1>3

\* Nothing but the opening of an Issue changes which Issues there are, and no Issue is revived,
\* renamed, or loses evidence.
LEMMA IssuesKept ==
    ASSUME IntakeInv, [Next]_vars
    PROVE  KeptIssues \/ \E r \in Reviewers : Accept(r)
  <1>1. CASE issues' = issues
    BY <1>1, UntouchedIssues
  <1>2. ASSUME NEW r \in Reviewers, MergeWrite(r) PROVE KeptIssues
    <2> DEFINE next == Merged(task[r].copy, task[r].key, task[r].snap)
    <2>1. r \in Tasks /\ task[r].pc = "write" /\ UpdateIf(r, task[r].issue, next)
      BY <1>2 DEF MergeWrite, At, Tasks
    <2>2. task[r].copy \in IssueType /\ task[r].key \in Keys /\ task[r].snap \in Snapshots
      BY <2>1, TaskFields
    <2>3. /\ next \in IssueType /\ next.evidence = task[r].copy.evidence \cup {task[r].snap}
          /\ next.status = task[r].copy.status /\ next.closed = task[r].copy.closed
          /\ next.key = task[r].copy.key /\ next.opened = task[r].copy.opened
      BY <2>2, MergedIssue
    <2> HIDE DEF next
    <2> QED
      BY <2>1, <2>3, CopyWritten
  <1>3. CASE Bind
    BY <1>3, TaskFields, CopyWritten DEF Bind, Tasks
  <1>4. CASE HandedOver
    <2>1. /\ Worker \in Tasks /\ task[Worker].copy.status = "Open"
          /\ UpdateIf(Worker, task[Worker].issue, To(task[Worker].copy, "WaitingForHuman"))
      BY <1>4 DEF HandedOver, At, IntakeInv, WorkerInv, Tasks
    <2> QED
      BY <2>1, TaskFields, ToIssue, CopyWritten DEF IssueStatus, IssueTerminal
  <1>5. CASE BeginJob
    <2>1. /\ Worker \in Tasks /\ task[Worker].copy.status \notin IssueTerminal
          /\ UpdateIf(Worker, task[Worker].issue, To(task[Worker].copy, "Investigating"))
      BY <1>5 DEF BeginJob, At, IntakeInv, WorkerInv, Tasks
    <2> QED
      BY <2>1, TaskFields, ToIssue, CopyWritten DEF IssueStatus, IssueTerminal
  <1>6. ASSUME NEW i \in Ids, NEW t, NEW status \in IssueStatus, Live(i),
               Write(t, i, To(issues[i], status))
        PROVE  KeptIssues
    <2>1. issues[i] \in IssueType /\ now \in Nat
      BY ElementOfSeq, LenProperties, TasksAssumption DEF IntakeInv, Types, Ids
    <2> DEFINE next == To(issues[i], status)
    <2>2. /\ next \in IssueType /\ next.key = issues[i].key /\ next.opened = issues[i].opened
          /\ next.evidence = issues[i].evidence /\ next.status = status
          /\ next.closed = IF status \in IssueTerminal THEN now ELSE 0
      BY <2>1, ToIssue
    <2>3. issues' = [issues EXCEPT ![i] = next]
      BY <1>6 DEF Write
    <2> HIDE DEF next
    <2> QED
      BY <1>6, <2>2, <2>3, OneIssueWritten
  <1>7. CASE EndPass
    <2>1. CASE Live(task[Worker].issue)
      <3>1. task[Worker].issue \in Ids
        BY <1>7 DEF EndPass, At, IntakeInv, TasksOK, TaskInv, Fits, Tasks
      <3>2. PICK status \in {"Resolved", "WaitingForHuman"} :
              Write(Worker, task[Worker].issue, To(issues[task[Worker].issue], status))
        BY <1>7, <2>1 DEF EndPass
      <3> QED
        BY <2>1, <3>1, <3>2, <1>6 DEF IssueStatus
    <2>2. CASE ~Live(task[Worker].issue)
      BY <1>7, <2>2, <1>1 DEF EndPass
    <2> QED  BY <2>1, <2>2
  <1>8. ASSUME NEW i \in Ids, Close(i) PROVE KeptIssues
    BY <1>8, <1>6 DEF Close, IssueStatus
  <1>9. CASE Recover
    <2> DEFINE new(i) == IF i \in running THEN To(issues[i], "WaitingForHuman") ELSE issues[i]
    <2>1. /\ issues' = [i \in Ids |-> new(i)] /\ issues \in Seq(IssueType) /\ running \subseteq Ids
          /\ now \in Nat
      BY <1>9, TasksAssumption DEF Recover, IntakeInv, Types
    <2>2. Ids = 1 .. Len(issues) /\ Len(issues) \in Nat /\ \A i \in Ids : issues[i] \in IssueType
      BY <2>1, LenProperties, ElementOfSeq DEF Ids
    <2>3. \A i \in Ids : new(i) \in IssueType
      BY <2>1, <2>2, ToIssue DEF IssueStatus
    <2>4. \A i \in Ids : /\ issues'[i] = new(i)
                         /\ i \in running => Live(i)
                         /\ Live(i) => issues[i].closed = 0
      BY <2>1 DEF IntakeInv, LifeInv
    <2>5. issues' \in Seq(IssueType) /\ Ids' = Ids
      BY <2>1, <2>2, <2>3, IsASeq DEF Ids
    <2>6. ASSUME NEW i \in Ids PROVE KeepsIssue(i)
      <3>1. CASE i \in running
        BY <2>1, <2>2, <2>4, <3>1, ToIssue DEF KeepsIssue, Live, IssueStatus, IssueTerminal
      <3>2. CASE i \notin running
        BY <2>4, <3>2 DEF KeepsIssue, Live
      <3> QED  BY <3>1, <3>2
    <2> QED
      BY <2>5, <2>6 DEF KeptIssues
  <1> QED
    BY <1>1, <1>2, <1>3, <1>4, <1>5, <1>7, <1>8, <1>9
      DEF Next, Reviewing, Working, vars, world, Capture, StartReview, GiveUp, Judge, JudgeFails,
          EndReview, CompleteReview, BeginTriage, Screen, Queue, MergeRead, Scan, Refresh,
          DispatchFailed, CreateJob, Freeze, Resume, Drop, Crash

-----------------------------------------------------------------------------
(* How a step moves tasks. *)

\* One task moves; nobody else loses the review lock.
LEMMA OneTask ==
    ASSUME IntakeInv, NEW t \in Tasks, NEW r \in TaskType, task' = [task EXCEPT ![t] = r],
           Ids \subseteq Ids', \A u \in Tasks \ {t} : reviewing = u => reviewing' = u,
           Fits(t, r, Ids', reviewing')
    PROVE  TasksOK' /\ task'[t] = r /\ \A u \in Tasks \ {t} : task'[u] = task[u]
  <1>1. task \in [Tasks -> TaskType] /\ \A u \in Tasks : Fits(u, task[u], Ids, reviewing)
    BY DEF IntakeInv, TasksOK, TaskInv
  <1>2. /\ task' \in [Tasks -> TaskType] /\ task'[t] = r
        /\ \A u \in Tasks \ {t} : task'[u] = task[u]
    BY <1>1
  <1>3. ASSUME NEW u \in Tasks \ {t} PROVE Fits(u, task'[u], Ids', reviewing')
    BY <1>1, <1>2, <1>3, TasksAssumption DEF Fits
  <1> QED
    BY <1>2, <1>3 DEF TasksOK, TaskInv

\* Reviewers and the worker are different tasks at different places.
LEMMA Whose ==
    ASSUME IntakeInv, NEW t \in Tasks
    PROVE  /\ task[t].pc \in {"captured"} \cup UnderLock => t \in Reviewers /\ task[t].snap \in Snapshots
           /\ task[t].pc \in UnderLock => reviewing = t
           /\ task[t].pc \in Deciding => task[t].key \in Keys
           /\ task[t].pc \in ByWorker \ {"idle"} => t = Worker /\ task[t].issue \in Ids
  BY DEF IntakeInv, TasksOK, TaskInv, Fits, Tasks, ByWorker, ByReviewer, UnderLock, Deciding

\* A task is done.
LEMMA TaskRests ==
    ASSUME IntakeInv, NEW t \in Tasks, task' = [task EXCEPT ![t] = Idle], Ids \subseteq Ids',
           \A u \in Tasks \ {t} : reviewing = u => reviewing' = u
    PROVE  TasksOK' /\ task'[t] = Idle /\ \A u \in Tasks \ {t} : task'[u] = task[u]
  <1>1. Fits(t, Idle, Ids', reviewing')
    BY DEF Fits, Idle, ByReviewer, ByWorker, UnderLock, Deciding
  <1> QED
    BY <1>1, Blank, OneTask

\* A finding has its outcome.
LEMMA FindingEnds ==
    ASSUME IntakeInv, NEW r \in Reviewers, task[r].pc \in Deciding, EndTriage(r),
           Ids \subseteq Ids', reviewing' = reviewing
    PROVE  TasksOK' /\ task'[r].pc = "findings" /\ \A u \in Tasks \ {r} : task'[u] = task[u]
  <1> DEFINE next == [Idle EXCEPT !.pc = "findings", !.snap = task[r].snap, !.todo = task[r].todo]
  <1>1. r \in Tasks /\ task[r] \in TaskType /\ task[r].snap \in Snapshots /\ reviewing = r
    BY Whose, TaskFields DEF Tasks, UnderLock
  <1>2. /\ next \in TaskType /\ next.pc = "findings" /\ next.snap = task[r].snap /\ next.issue = 0
    BY <1>1, Blank DEF TaskType, Idle, Places
  <1>3. task' = [task EXCEPT ![r] = next]
    BY DEF EndTriage
  <1> HIDE DEF next
  <1>4. Fits(r, next, Ids', reviewing')
    BY <1>1, <1>2, TasksAssumption DEF Fits, ByReviewer, UnderLock, Deciding
  <1> QED
    BY <1>1, <1>2, <1>3, <1>4, OneTask

\* A task goes on with what it has, or reads the Issue it works on first.
LEMMA TaskGoes ==
    ASSUME IntakeInv, NEW t \in Tasks, NEW pc \in Places, NEW copy \in IssueType,
           task' = [task EXCEPT ![t].pc = pc, ![t].copy = copy] \/ Go(t, pc),
           Ids \subseteq Ids', reviewing' = reviewing,
           \/ t \in Reviewers /\ task[t].pc \in Deciding /\ pc \in {"accept", "write"}
              /\ (pc = "write" => task[t].pc = "merge")
           \/ t = Worker /\ task[t].pc # "idle" /\ pc \in ByWorker
    PROVE  /\ TasksOK' /\ task'[t].pc = pc /\ \A u \in Tasks \ {t} : task'[u] = task[u]
           /\ task'[t].issue = task[t].issue /\ task'[t].key = task[t].key
           /\ task'[t].snap = task[t].snap /\ task'[t].seen = task[t].seen
           /\ task' = [task EXCEPT ![t].pc = pc, ![t].copy = copy] => task'[t].copy = copy
  <1>1. task \in [Tasks -> TaskType] /\ task[t] \in TaskType /\ Fits(t, task[t], Ids, reviewing)
    BY DEF IntakeInv, TasksOK, TaskInv
  <1> DEFINE next == task'[t]
  <1>2. /\ next \in TaskType /\ task' = [task EXCEPT ![t] = next] /\ next.pc = pc
        /\ next.issue = task[t].issue /\ next.key = task[t].key /\ next.snap = task[t].snap
        /\ next.seen = task[t].seen
        /\ task' = [task EXCEPT ![t].pc = pc, ![t].copy = copy] => next.copy = copy
    <2>1. CASE task' = [task EXCEPT ![t].pc = pc, ![t].copy = copy]
      BY <1>1, <2>1 DEF TaskType
    <2>2. CASE Go(t, pc) /\ task' # [task EXCEPT ![t].pc = pc, ![t].copy = copy]
      BY <1>1, <2>2 DEF TaskType, Go
    <2> QED  BY <2>1, <2>2
  <1> HIDE DEF next
  <1>3. Fits(t, next, Ids', reviewing')
    BY <1>1, <1>2, TasksAssumption
      DEF Fits, ByReviewer, ByWorker, UnderLock, Deciding
  <1> QED
    BY <1>2, <1>3, OneTask

\* Every step leaves every task where it may be.
LEMMA TasksMove ==
    ASSUME IntakeInv, [Next]_vars
    PROVE  TasksOK'
  <1>1. Ids \subseteq Ids'
    <2>1. ASSUME NEW r \in Reviewers, Accept(r) PROVE Ids \subseteq Ids'
      <3>1. r \in Tasks /\ task[r].key \in Keys /\ task[r].snap \in Snapshots
        BY <2>1, Whose DEF Accept, At, Tasks, UnderLock, Deciding
      <3> QED
        BY <2>1, <3>1, NewIssue, Added DEF Accept, IntakeInv, Types
    <2> QED
      BY <2>1, IssuesKept DEF KeptIssues
  <1>2. task \in [Tasks -> TaskType] /\ \A t \in Tasks : Fits(t, task[t], Ids, reviewing)
    BY DEF IntakeInv, TasksOK, TaskInv
  <1>3. ASSUME task' = task, reviewing' = reviewing PROVE TasksOK'
    BY <1>1, <1>2, <1>3 DEF TasksOK, TaskInv, Fits
  <1>4. ASSUME NEW r \in Reviewers PROVE r \in Tasks /\ r # Worker /\ r # Nobody
    BY TasksAssumption DEF Tasks
  <1>5. ASSUME NEW r \in Reviewers, Capture(r) PROVE TasksOK'
    <2> DEFINE next == [task[r] EXCEPT !.pc = "captured", !.snap = now + 1]
    <2>4. now + 1 \in Snapshots
      BY <1>5, TasksAssumption DEF Capture, Snapshots, IntakeInv, Types
    <2>1. now + 1 \in Snapshots /\ task' = [task EXCEPT ![r] = next]
      BY <1>5, <2>4 DEF Capture
    <2>2. /\ next \in TaskType /\ next.pc = "captured" /\ next.snap = now + 1
          /\ next.issue = task[r].issue
      BY <1>2, <1>4, <1>5, <2>1 DEF TaskType, Places
    <2> HIDE DEF next
    <2>3. Fits(r, next, Ids', reviewing')
      BY <1>1, <1>2, <1>4, <2>1, <2>2 DEF Fits, ByReviewer, UnderLock, Deciding
    <2> QED
      BY <1>1, <1>4, <1>5, <2>1, <2>2, <2>3, OneTask DEF Capture
  <1>6. ASSUME NEW r \in Reviewers, StartReview(r) PROVE TasksOK'
    <2> DEFINE next == [task[r] EXCEPT !.pc = "judging"]
    <2>1. /\ task' = [task EXCEPT ![r] = next] /\ reviewing = Nobody /\ reviewing' = r
          /\ task[r].pc = "captured"
      BY <1>6 DEF StartReview, Go, At
    <2>2. /\ next \in TaskType /\ next.pc = "judging" /\ next.snap = task[r].snap
          /\ next.issue = task[r].issue
      BY <1>2, <1>4 DEF TaskType, Places
    <2> HIDE DEF next
    <2>3. Fits(r, next, Ids', reviewing')
      BY <1>1, <1>2, <1>4, <2>1, <2>2 DEF Fits, ByReviewer, UnderLock, Deciding
    <2> QED
      BY <1>1, <1>4, <2>1, <2>2, <2>3, OneTask, TasksAssumption
  <1>7. ASSUME NEW r \in Reviewers, NEW status, task[r].pc \in {"judging", "findings"},
               EndReview(r, status)
        PROVE  TasksOK'
    <2>1. reviewing = r
      BY <1>4, <1>7, Whose DEF UnderLock
    <2> QED
      BY <1>1, <1>4, <1>7, <2>1, TaskRests DEF EndReview
  <1>8. ASSUME NEW r \in Reviewers, Judge(r) PROVE TasksOK'
    <2>1. PICK found \in Findings[r] : task' = [task EXCEPT ![r].pc = "findings", ![r].todo = found]
      BY <1>8 DEF Judge
    <2> DEFINE next == [task[r] EXCEPT !.pc = "findings", !.todo = found]
    <2>2. task' = [task EXCEPT ![r] = next] /\ task[r].pc = "judging" /\ reviewing' = reviewing
      BY <1>8, <2>1 DEF Judge, At
    <2>3. found \in Seq(Keys)
      BY TasksAssumption
    <2>4. /\ next \in TaskType /\ next.pc = "findings" /\ next.snap = task[r].snap
          /\ next.issue = task[r].issue
      BY <1>2, <1>4, <2>3 DEF TaskType, Places
    <2> HIDE DEF next
    <2>5. Fits(r, next, Ids', reviewing')
      BY <1>1, <1>2, <1>4, <2>2, <2>4 DEF Fits, ByReviewer, UnderLock, Deciding
    <2> QED
      BY <1>1, <1>4, <2>2, <2>4, <2>5, OneTask
  <1>9. ASSUME NEW r \in Reviewers, BeginTriage(r) PROVE TasksOK'
    <2> DEFINE next == [task[r] EXCEPT !.pc = "screen", !.key = Head(task[r].todo), !.todo = Tail(@)]
    <2>1. /\ task' = [task EXCEPT ![r] = next] /\ task[r].pc = "findings" /\ reviewing' = reviewing
          /\ task[r].todo # <<>>
      BY <1>9 DEF BeginTriage, At
    <2>2. task[r].todo \in Seq(Keys) /\ Head(task[r].todo) \in Keys /\ Tail(task[r].todo) \in Seq(Keys)
      BY <1>2, <1>4, <2>1, HeadTailProperties DEF TaskType
    <2>3. /\ next \in TaskType /\ next.pc = "screen" /\ next.snap = task[r].snap
          /\ next.issue = task[r].issue /\ next.key \in Keys
      BY <1>2, <1>4, <2>2 DEF TaskType, Places
    <2> HIDE DEF next
    <2>4. Fits(r, next, Ids', reviewing')
      BY <1>1, <1>2, <1>4, <2>1, <2>3 DEF Fits, ByReviewer, UnderLock, Deciding
    <2> QED
      BY <1>1, <1>4, <2>1, <2>3, <2>4, OneTask
  <1>10. ASSUME NEW r \in Reviewers, task[r].pc \in Deciding, EndTriage(r), reviewing' = reviewing
         PROVE  TasksOK'
    BY <1>1, <1>10, FindingEnds
  <1>11. ASSUME NEW r \in Reviewers, Screen(r) PROVE TasksOK'
    <2>1. CASE EndTriage(r)
      BY <1>10, <1>11, <2>1 DEF Screen, At, Deciding
    <2>2. CASE ~EndTriage(r)
      <3> DEFINE next == [task[r] EXCEPT !.pc = "queue", !.seen = {i \in Ids : Live(i)}]
      <3>1. task' = [task EXCEPT ![r] = next] /\ task[r].pc = "screen" /\ reviewing' = reviewing
        BY <1>11, <2>2 DEF Screen, At
      <3>2. {i \in Ids : Live(i)} \in SUBSET Nat
        BY LenProperties DEF IntakeInv, Types, Ids
      <3>3. /\ next \in TaskType /\ next.pc = "queue" /\ next.snap = task[r].snap
            /\ next.issue = task[r].issue /\ next.key = task[r].key
        BY <1>2, <1>4, <3>2 DEF TaskType, Places
      <3> HIDE DEF next
      <3>4. Fits(r, next, Ids', reviewing')
        BY <1>1, <1>2, <1>4, <3>1, <3>3 DEF Fits, ByReviewer, UnderLock, Deciding
      <3> QED
        BY <1>1, <1>4, <3>1, <3>3, <3>4, OneTask
    <2> QED  BY <2>1, <2>2
  <1>12. ASSUME NEW r \in Reviewers, Queue(r) PROVE TasksOK'
    <2>1. task[r].pc = "queue" /\ reviewing' = reviewing
      BY <1>12 DEF Queue, At
    <2>2. ASSUME NEW i \in Ids, Choose(r, i) PROVE TasksOK'
      <3> DEFINE next == [task[r] EXCEPT !.pc = "merge", !.issue = i, !.seen = {}]
      <3>1. task' = [task EXCEPT ![r] = next]
        BY <2>2 DEF Choose
      <3>2. i \in Nat
        BY LenProperties DEF IntakeInv, Types, Ids
      <3>3. /\ next \in TaskType /\ next.pc = "merge" /\ next.snap = task[r].snap
            /\ next.issue = i /\ next.key = task[r].key
        BY <1>2, <1>4, <3>2 DEF TaskType, Places
      <3> HIDE DEF next
      <3>4. Fits(r, next, Ids', reviewing')
        BY <1>1, <1>2, <1>4, <2>1, <3>3 DEF Fits, ByReviewer, UnderLock, Deciding
      <3> QED
        BY <1>1, <1>4, <2>1, <3>1, <3>3, <3>4, OneTask
    <2>3. CASE Go(r, "accept")
      BY <1>1, <1>4, <2>1, <2>3, Blank, TaskGoes DEF Deciding, Places
    <2>4. CASE EndTriage(r)
      BY <1>10, <2>1, <2>4 DEF Deciding
    <2> QED
      BY <1>12, <2>2, <2>3, <2>4 DEF Queue, Duplicate, SameIncident
  <1>13. ASSUME NEW r \in Reviewers, Accept(r) \/ MergeWrite(r) PROVE TasksOK'
    BY <1>10, <1>13 DEF Accept, MergeWrite, At, Deciding
  \* An Issue that a task works on, as the store holds it.
  <1>14. ASSUME NEW i \in Ids PROVE issues[i] \in IssueType
    BY ElementOfSeq, LenProperties DEF IntakeInv, Types, Ids
  <1>15. ASSUME NEW r \in Reviewers, MergeRead(r) PROVE TasksOK'
    <2>1. task[r].pc = "merge" /\ reviewing' = reviewing /\ task[r].issue \in Ids
      BY <1>2, <1>4, <1>15 DEF MergeRead, At, Fits
    <2>2. CASE Read(r, "write")
      BY <1>1, <1>4, <1>14, <2>1, <2>2, TaskGoes DEF Deciding, Places, Read
    <2>3. CASE EndTriage(r)
      BY <1>10, <2>1, <2>3 DEF Deciding
    <2> QED
      BY <1>15, <2>2, <2>3 DEF MergeRead
  <1>16. Worker \in Tasks /\ Worker \notin Reviewers
    BY TasksAssumption DEF Tasks
  <1>17. ASSUME NEW i \in Ids, Scan(i) PROVE TasksOK'
    <2> DEFINE next == [task[Worker] EXCEPT !.pc = "capture", !.issue = i]
    <2>1. task' = [task EXCEPT ![Worker] = next] /\ reviewing' = reviewing
      BY <1>17 DEF Scan
    <2>2. i \in Nat
      BY LenProperties DEF IntakeInv, Types, Ids
    <2>3. next \in TaskType /\ next.pc = "capture" /\ next.issue = i
      BY <1>2, <1>16, <2>2 DEF TaskType, Places
    <2> HIDE DEF next
    <2>4. Fits(Worker, next, Ids', reviewing')
      BY <1>1, <1>16, <2>3 DEF Fits, ByWorker, UnderLock, Deciding
    <2> QED
      BY <1>1, <1>16, <2>1, <2>3, <2>4, OneTask
  <1>18. ASSUME Rest, reviewing' = reviewing PROVE TasksOK'
    BY <1>1, <1>16, <1>18, TaskRests DEF Rest
  <1>19. ASSUME NEW pc \in ByWorker, task[Worker].pc # "idle", reviewing' = reviewing,
                Go(Worker, pc) \/ Read(Worker, pc) \/ Wrote(Worker, pc)
         PROVE  TasksOK'
    <2>1. task[Worker].issue \in Ids /\ pc \in Places
      BY <1>2, <1>16, <1>19 DEF Fits, ByWorker, Places
    <2>2. CASE Read(Worker, pc)
      BY <1>1, <1>14, <1>16, <1>19, <2>1, <2>2, TaskGoes DEF Read
    <2>3. CASE Wrote(Worker, pc)
      BY <1>1, <1>16, <1>19, <2>1, <2>3, Blank, TaskGoes DEF Wrote
    <2>4. CASE Go(Worker, pc)
      BY <1>1, <1>16, <1>19, <2>1, <2>4, Blank, TaskGoes
    <2> QED
      BY <1>19, <2>2, <2>3, <2>4
  <1>20. ASSUME Refresh \/ Bind \/ DispatchFailed \/ HandedOver \/ CreateJob \/ BeginJob \/ EndPass
         PROVE  TasksOK'
    <2>1. reviewing' = reviewing
      BY <1>20 DEF Refresh, Bind, DispatchFailed, HandedOver, CreateJob, BeginJob, EndPass
    <2>2. /\ task[Worker].pc # "idle"
          /\ \/ Rest
             \/ \E pc \in ByWorker : Go(Worker, pc) \/ Read(Worker, pc) \/ Wrote(Worker, pc)
      <3>1. CASE Refresh
        BY <3>1 DEF Refresh, At, ByWorker
      <3>2. CASE Bind \/ BeginJob
        BY <3>2 DEF Bind, BeginJob, At, ByWorker
      <3>3. CASE DispatchFailed
        BY <3>3 DEF DispatchFailed, HandOver, At, ByWorker
      <3>4. CASE HandedOver \/ EndPass
        BY <3>4 DEF HandedOver, EndPass, At
      <3>5. CASE CreateJob
        BY <3>5 DEF CreateJob, At, ByWorker
      <3> QED
        BY <1>20, <3>1, <3>2, <3>3, <3>4, <3>5
    <2> QED
      BY <1>18, <1>19, <2>1, <2>2
  <1>21. ASSUME NEW r \in Requests, Drop(r) PROVE TasksOK'
    <2>1. r \in Tasks /\ \A u \in Tasks \ {r} : reviewing = u => reviewing' = u
      BY <1>21, TasksAssumption DEF Drop, Tasks
    <2> QED
      BY <1>1, <1>21, <2>1, TaskRests DEF Drop
  <1>22. CASE Crash
    <2>1. task' = [t \in Tasks |-> Idle]
      BY <1>22 DEF Crash
    <2>2. \A t \in Tasks : Fits(t, Idle, Ids', reviewing')
      BY DEF Fits, Idle, ByReviewer, ByWorker, UnderLock, Deciding
    <2> QED
      BY <2>1, <2>2, Blank DEF TasksOK, TaskInv
  <1>23. ASSUME NEW r \in Reviewers, GiveUp(r) PROVE TasksOK'
    BY <1>1, <1>4, <1>23, TaskRests DEF GiveUp
  <1>24. ASSUME NEW r \in Reviewers, JudgeFails(r) \/ CompleteReview(r) PROVE TasksOK'
    BY <1>7, <1>24 DEF JudgeFails, CompleteReview, At
  <1>25. ASSUME \/ Freeze \/ Resume \/ Recover \/ (\E i \in Ids : Close(i)) \/ UNCHANGED vars
         PROVE  TasksOK'
    BY <1>3, <1>25 DEF Freeze, Resume, Recover, Close, vars
  <1> QED
    BY <1>5, <1>6, <1>8, <1>9, <1>11, <1>12, <1>13, <1>15, <1>17, <1>20, <1>21, <1>22, <1>23,
       <1>24, <1>25 DEF Next, Reviewing, Working

Alone(t) == \A u \in Tasks \ {t} : task'[u] = task[u]

\* At most one task moves, and few steps lead to where something is decided or written.
LEMMA WhoMoves ==
    ASSUME IntakeInv, [Next]_vars
    PROVE  \/ task' = task
           \/ Crash /\ \A t \in Tasks : task'[t] = Idle
           \/ \E t \in Tasks : Alone(t) /\ task'[t].pc \notin Writing \cup {"queue", "accept"}
           \/ \E r \in Reviewers : Alone(r) /\ (Screen(r) \/ Queue(r) \/ MergeRead(r))
           \/ Alone(Worker) /\ (Refresh \/ DispatchFailed \/ CreateJob)
  <1> DEFINE Elsewhere == \E t \in Tasks : Alone(t) /\ task'[t].pc \notin Writing \cup {"queue", "accept"}
  <1>1. task \in [Tasks -> TaskType] /\ Worker \in Tasks /\ \A r \in Reviewers : r \in Tasks
    BY DEF IntakeInv, TasksOK, Tasks
  <1>2. ASSUME NEW r \in Tasks, task' = [task EXCEPT ![r] = Idle] PROVE Elsewhere
    BY <1>1, <1>2 DEF Idle, Writing, Alone
  <1>3. ASSUME NEW r \in Reviewers, EndTriage(r) PROVE Elsewhere
    <2> DEFINE next == [Idle EXCEPT !.pc = "findings", !.snap = task[r].snap, !.todo = task[r].todo]
    <2>1. next.pc = "findings"
      BY DEF Idle
    <2>2. task' = [task EXCEPT ![r] = next]
      BY <1>3 DEF EndTriage
    <2> HIDE DEF next
    <2> QED
      BY <1>1, <2>1, <2>2 DEF Writing, Alone
  <1>4. ASSUME NEW r \in Tasks, NEW pc \in Places \ (Writing \cup {"queue", "accept"}),
               Go(r, pc) \/ Wrote(r, pc)
        PROVE  Elsewhere
    <2>1. task'[r].pc = pc /\ Alone(r)
      BY <1>1, <1>4 DEF Go, Wrote, TaskType, Alone
    <2> QED
      BY <1>4, <2>1
  <1>5. ASSUME NEW r \in Reviewers,
               Capture(r) \/ StartReview(r) \/ GiveUp(r) \/ Judge(r) \/ JudgeFails(r) \/ CompleteReview(r)
               \/ BeginTriage(r)
        PROVE  Elsewhere
    <2>1. CASE Capture(r)
      <3>1. task'[r].pc = "captured" /\ Alone(r)
        BY <1>1, <2>1 DEF Capture, TaskType, Alone
      <3> QED
        BY <1>1, <3>1 DEF Writing
    <2>2. CASE StartReview(r)
      BY <1>1, <1>4, <2>2 DEF StartReview, Places, Writing
    <2>3. CASE GiveUp(r) \/ JudgeFails(r) \/ CompleteReview(r)
      BY <1>1, <1>2, <2>3 DEF GiveUp, JudgeFails, CompleteReview, EndReview
    <2>4. CASE Judge(r)
      <3>1. task'[r].pc = "findings" /\ Alone(r)
        BY <1>1, <2>4 DEF Judge, TaskType, Alone
      <3> QED
        BY <1>1, <3>1 DEF Writing
    <2>5. CASE BeginTriage(r)
      <3>1. task'[r].pc = "screen" /\ Alone(r)
        BY <1>1, <2>5 DEF BeginTriage, TaskType, Alone
      <3> QED
        BY <1>1, <3>1 DEF Writing
    <2> QED
      BY <1>5, <2>1, <2>2, <2>3, <2>4, <2>5
  <1>6. ASSUME NEW r \in Reviewers, Screen(r) \/ Queue(r) \/ MergeRead(r) PROVE Alone(r)
    <2>1. CASE Screen(r)
      BY <1>1, <2>1 DEF Screen, EndTriage, Alone
    <2>2. CASE Queue(r)
      <3>1. (\E i \in Ids : Choose(r, i)) \/ Go(r, "accept") \/ EndTriage(r)
        BY <2>2 DEF Queue, Duplicate, SameIncident
      <3> QED
        BY <1>1, <3>1 DEF Choose, Go, EndTriage, Alone
    <2>3. CASE MergeRead(r)
      BY <1>1, <2>3 DEF MergeRead, Read, EndTriage, Alone
    <2> QED  BY <1>6, <2>1, <2>2, <2>3
  <1>7. ASSUME NEW r \in Reviewers, Accept(r) \/ MergeWrite(r) PROVE Elsewhere
    BY <1>3, <1>7 DEF Accept, MergeWrite
  <1>8. ASSUME Refresh \/ DispatchFailed \/ CreateJob PROVE Alone(Worker)
    BY <1>1, <1>8 DEF Refresh, DispatchFailed, CreateJob, HandOver, Read, Go, Rest, Alone
  <1>9. ASSUME NEW i \in Ids, Scan(i) PROVE Elsewhere
    <2>1. task'[Worker].pc = "capture" /\ Alone(Worker)
      BY <1>1, <1>9 DEF Scan, TaskType, Alone
    <2> QED
      BY <1>1, <2>1 DEF Writing
  <1>10. ASSUME Bind \/ HandedOver \/ BeginJob \/ EndPass PROVE Elsewhere
    <2>1. CASE Bind \/ BeginJob
      BY <1>1, <1>4, <2>1 DEF Bind, BeginJob, Places, Writing
    <2>2. CASE HandedOver \/ EndPass
      BY <1>1, <1>2, <2>2 DEF HandedOver, EndPass, Rest
    <2> QED  BY <1>10, <2>1, <2>2
  <1>11. ASSUME NEW r \in Requests, Drop(r) PROVE Elsewhere
    BY <1>1, <1>2, <1>11, TasksAssumption DEF Drop
  <1>12. ASSUME Crash PROVE \A t \in Tasks : task'[t] = Idle
    BY <1>12 DEF Crash
  <1>13. ASSUME Freeze \/ Resume \/ Recover \/ (\E i \in Ids : Close(i)) \/ UNCHANGED vars
         PROVE  task' = task
    BY <1>13 DEF Freeze, Resume, Recover, Close, vars
  <1> HIDE DEF Elsewhere
  <1>14. \/ task' = task \/ Elsewhere \/ (Crash /\ \A t \in Tasks : task'[t] = Idle)
         \/ \E r \in Reviewers : Alone(r) /\ (Screen(r) \/ Queue(r) \/ MergeRead(r))
         \/ Alone(Worker) /\ (Refresh \/ DispatchFailed \/ CreateJob)
    BY <1>5, <1>6, <1>7, <1>8, <1>9, <1>10, <1>11, <1>12, <1>13
       DEF Next, Reviewing, Working
  <1> QED
    BY <1>14 DEF Elsewhere

-----------------------------------------------------------------------------
(* The parts of the invariant, each through every step. *)

LEMMA TypesStep ==
    ASSUME IntakeInv, [Next]_vars
    PROVE  Types'
  <1>1. Types
    BY DEF IntakeInv
  <1>2. /\ issues' \in Seq(IssueType) /\ Ids \subseteq Ids'
    <2>1. ASSUME NEW r \in Reviewers, Accept(r) PROVE issues' \in Seq(IssueType) /\ Ids \subseteq Ids'
      <3>1. r \in Tasks /\ task[r].key \in Keys /\ task[r].snap \in Snapshots
        BY <2>1, Whose DEF Accept, At, Tasks, UnderLock, Deciding
      <3> QED
        BY <1>1, <2>1, <3>1, NewIssue, Added DEF Accept, Types
    <2> QED
      BY <2>1, IssuesKept DEF KeptIssues
  <1>3. now' \in 0 .. MaxSnapshots /\ up' \in BOOLEAN
    <2>1. ASSUME NEW r \in Reviewers, Capture(r) PROVE now' \in 0 .. MaxSnapshots /\ up' = up
      BY <1>1, <2>1, TasksAssumption DEF Types, Capture
    <2>2. ASSUME Crash \/ Recover PROVE now' = now /\ up' \in BOOLEAN
      BY <2>2 DEF Crash, Recover
    <2>3. \/ now' = now /\ up' = up
          \/ Crash \/ Recover \/ \E r \in Reviewers : Capture(r)
      BY DEF Next, vars, world, Reviewing, Working, StartReview, GiveUp, Judge, JudgeFails, EndReview,
             CompleteReview, BeginTriage, Screen, Queue, Accept, MergeRead, MergeWrite, Scan, Refresh,
             Bind, DispatchFailed, HandedOver, CreateJob, BeginJob, EndPass, Close, Freeze, Resume, Drop
    <2> QED
      BY <1>1, <2>1, <2>2, <2>3 DEF Types
  <1>4. jobs' \subseteq Ids' /\ running' \subseteq jobs'
    <2>1. CASE CreateJob
      <3>1. task[Worker].issue \in Ids
        BY <2>1, Whose DEF CreateJob, At, Tasks, ByWorker
      <3> QED
        BY <1>1, <1>2, <2>1, <3>1 DEF CreateJob, Types
    <2>2. CASE EndPass \/ Recover \/ \E i \in Ids : Close(i)
      BY <1>1, <1>2, <2>2 DEF EndPass, Recover, Close, Types
    <2>3. \/ jobs' = jobs /\ running' = running
          \/ CreateJob \/ EndPass \/ Recover \/ \E i \in Ids : Close(i)
      BY DEF Next, vars, world, Reviewing, Working, Capture, StartReview, GiveUp, Judge, JudgeFails,
             EndReview, CompleteReview, BeginTriage, Screen, Queue, Accept, MergeRead, MergeWrite, Scan,
             Refresh, Bind, DispatchFailed, HandedOver, BeginJob, Freeze, Resume, Drop, Crash
    <2> QED
      BY <1>1, <1>2, <2>1, <2>2, <2>3 DEF Types
  <1>5. copies' \subseteq Tasks
    <2>1. \/ copies' \subseteq copies
          \/ copies' \subseteq copies \cup {Worker}
          \/ \E r \in Reviewers : copies' \subseteq copies \cup {r}
      BY DEF Next, vars, world, Reviewing, Working, Capture, StartReview, GiveUp, Judge, JudgeFails,
             EndReview, CompleteReview, BeginTriage, Screen, Queue, Accept, MergeRead, MergeWrite, Scan,
             Refresh, Bind, DispatchFailed, HandedOver, CreateJob, BeginJob, EndPass, Close, Freeze,
             Resume, Drop, Crash, Recover, HandOver, Read, UpdateIf, Write
    <2> QED
      BY <1>1, <2>1 DEF Types, Tasks
  <1>6. reviewing' \in Tasks \cup {Nobody}
    <2>1. \/ reviewing' = reviewing \/ reviewing' = Nobody
          \/ \E r \in Reviewers : reviewing' = r
      BY DEF Next, vars, world, Reviewing, Working, Capture, StartReview, GiveUp, Judge, JudgeFails,
             EndReview, CompleteReview, BeginTriage, Screen, Queue, Accept, MergeRead, MergeWrite, Scan,
             Refresh, Bind, DispatchFailed, HandedOver, CreateJob, BeginJob, EndPass, Close, Freeze,
             Resume, Drop, Crash, Recover
    <2> QED
      BY <1>1, <2>1 DEF Types, Tasks
  <1>7. review' \in [Snapshots -> ReviewType]
    <2>1. ASSUME NEW s \in Snapshots, NEW status \in {"running", "failed", "completed"},
                 review' = [review EXCEPT ![s].status = status]
          PROVE  review' \in [Snapshots -> ReviewType]
      BY <1>1, <2>1 DEF Types, ReviewType
    <2>2. ASSUME NEW r \in Reviewers, NEW i \in Ids', Listed(r, i)
          PROVE  review' \in [Snapshots -> ReviewType]
      <3>1. i \in Nat
        BY <1>2, <2>2, LenProperties DEF Ids
      <3> QED
        BY <1>1, <2>2, <3>1 DEF Types, ReviewType, Listed
    <2>3. ASSUME NEW r \in Reviewers, Accept(r) PROVE review' \in [Snapshots -> ReviewType]
      <3>1. Len(issues) + 1 \in Ids'
        BY <1>1, <1>2, <2>3, AppendProperties, LenProperties DEF Accept, Ids, Types
      <3> QED
        BY <2>2, <2>3, <3>1 DEF Accept
    <2>4. ASSUME NEW r \in Reviewers, MergeWrite(r) PROVE review' \in [Snapshots -> ReviewType]
      <3>1. task[r].issue \in Ids
        BY <2>4 DEF MergeWrite, At, IntakeInv, TasksOK, TaskInv, Fits, Tasks
      <3> QED
        BY <1>1, <1>2, <2>2, <2>4, <3>1 DEF MergeWrite, Types
    <2>5. ASSUME NEW r \in Reviewers,
                 StartReview(r) \/ GiveUp(r) \/ JudgeFails(r) \/ CompleteReview(r)
          PROVE  review' \in [Snapshots -> ReviewType]
      <3>1. task[r].pc \in {"captured", "judging", "findings"}
        BY <2>5 DEF StartReview, GiveUp, JudgeFails, CompleteReview, At
      <3>2. task[r].snap \in Snapshots
        BY <3>1, Whose DEF UnderLock, Tasks
      <3>3. \E status \in {"running", "failed", "completed"} :
              review' = [review EXCEPT ![task[r].snap].status = status]
        BY <2>5 DEF StartReview, GiveUp, JudgeFails, CompleteReview, EndReview
      <3> QED
        BY <2>1, <3>2, <3>3
    <2>6. CASE Recover
      <3>1. \A s \in Snapshots :
               (IF review[s].status = "running" THEN [status |-> "failed", issues |-> {}] ELSE review[s])
               \in ReviewType
        BY <1>1 DEF Types, ReviewType
      <3> QED
        BY <2>6, <3>1 DEF Recover
    <2>7. \/ review' = review \/ Recover
          \/ \E r \in Reviewers : \/ Accept(r) \/ MergeWrite(r) \/ StartReview(r) \/ GiveUp(r)
                                  \/ JudgeFails(r) \/ CompleteReview(r)
      BY DEF Next, vars, world, Reviewing, Working, Capture, Judge, BeginTriage, Screen, Queue,
             MergeRead, Scan, Refresh, Bind, DispatchFailed, HandedOver, CreateJob, BeginJob, EndPass,
             Close, Freeze, Resume, Drop, Crash
    <2> QED
      BY <1>1, <2>3, <2>4, <2>5, <2>6, <2>7 DEF Types
  <1> QED
    BY <1>2, <1>3, <1>4, <1>5, <1>6, <1>7 DEF Types

\* A task that read its Issue, and those that have no reason to doubt their copies.
LEMMA CopyStep ==
    ASSUME IntakeInv, [Next]_vars
    PROVE  CopyInv'
  <1>1. /\ task \in [Tasks -> TaskType] /\ copies \subseteq Tasks
        /\ \A u \in copies : task[u].pc \in Writing /\ task[u].copy = issues[task[u].issue]
    BY DEF IntakeInv, Types, TasksOK, CopyInv
  <1>2. \A u \in copies : task[u].issue \in Ids
    BY <1>1 DEF IntakeInv, TasksOK, TaskInv, Fits, Writing, ByReviewer, UnderLock, Deciding, ByWorker,
                Tasks
  \* Whoever still has a copy stands where it stood, before an Issue nobody wrote.
  <1>3. ASSUME copies' \subseteq copies,
               \A u \in copies' : /\ task'[u] = task[u]
                                  /\ issues'[task[u].issue] = issues[task[u].issue]
        PROVE  CopyInv'
    BY <1>1, <1>3 DEF CopyInv
  <1>4. ASSUME issues' = issues, copies' \subseteq copies, \A u \in copies' : task'[u] = task[u]
        PROVE  CopyInv'
    BY <1>3, <1>4
  <1>5. ASSUME NEW t \in Tasks, NEW pc \in Writing, Read(t, pc), issues' = issues,
               task[t].pc \notin Writing
        PROVE  CopyInv'
    <2>1. /\ task'[t].pc = pc /\ task'[t].copy = issues[task[t].issue]
          /\ task'[t].issue = task[t].issue /\ \A u \in Tasks \ {t} : task'[u] = task[u]
          /\ copies' = copies \cup {t}
      BY <1>1, <1>5 DEF Read, TaskType
    <2> QED
      BY <1>1, <1>5, <2>1 DEF CopyInv
  \* A task that is not about to write has no copy, whatever becomes of it.
  <1>6. ASSUME NEW t \in Tasks, task[t].pc \notin Writing, Alone(t), issues' = issues, copies' = copies
        PROVE  CopyInv'
    BY <1>1, <1>4, <1>6 DEF Alone
  <1>7. ASSUME NEW t \in Tasks, NEW i \in Ids, NEW next, Write(t, i, next), Alone(t)
        PROVE  CopyInv'
    <2>1. /\ copies' = {u \in copies : u # t /\ task[u].issue # i}
          /\ \A j \in Ids \ {i} : issues'[j] = issues[j]
      BY <1>7 DEF Write, Ids
    <2> QED
      BY <1>1, <1>2, <1>3, <1>7, <2>1 DEF Alone
  <1>8. ASSUME NEW t \in Tasks, NEW next, UpdateIf(t, task[t].issue, next), Alone(t)
        PROVE  CopyInv'
    <2>1. CASE t \in copies
      BY <1>2, <1>7, <1>8, <2>1 DEF UpdateIf
    <2>2. CASE t \notin copies
      BY <1>1, <1>4, <1>8, <2>2 DEF UpdateIf, Alone
    <2> QED  BY <2>1, <2>2
  <1>10. Worker \in Tasks /\ \A r \in Reviewers : r \in Tasks
    BY DEF Tasks
  <1>11. ASSUME NEW r \in Reviewers,
                Capture(r) \/ StartReview(r) \/ GiveUp(r) \/ Judge(r) \/ JudgeFails(r) \/ CompleteReview(r)
                \/ BeginTriage(r) \/ Screen(r) \/ Queue(r)
         PROVE  CopyInv'
    <2>1. task[r].pc \notin Writing /\ issues' = issues /\ copies' = copies
      BY <1>11 DEF Capture, StartReview, GiveUp, Judge, JudgeFails, CompleteReview, BeginTriage, Screen,
                   Queue, EndReview, At, Writing
    <2>2. Alone(r)
      <3>1. CASE Queue(r)
        <4>1. (\E i \in Ids : Choose(r, i)) \/ Go(r, "accept") \/ EndTriage(r)
          BY <3>1 DEF Queue, Duplicate, SameIncident
        <4> QED
          BY <1>1, <4>1 DEF Choose, Go, EndTriage, Alone
      <3> QED
        BY <1>1, <1>11, <3>1 DEF Capture, StartReview, GiveUp, Judge, JudgeFails, CompleteReview,
                             BeginTriage, Screen, EndReview, EndTriage, Go, Alone
    <2> QED
      BY <1>6, <1>10, <2>1, <2>2
  <1>12. ASSUME NEW r \in Reviewers, Accept(r) PROVE CopyInv'
    <2>1. task[r].pc = "accept" /\ Alone(r) /\ copies' = copies
      BY <1>1, <1>12 DEF Accept, At, EndTriage, Alone
    <2>2. r \in Tasks /\ task[r].key \in Keys /\ task[r].snap \in Snapshots
      BY <1>10, <2>1, Whose DEF UnderLock, Deciding
    <2>3. \A j \in Ids : issues'[j] = issues[j]
      BY <1>12, <2>2, NewIssue, Added DEF Accept, IntakeInv, Types
    <2> QED
      BY <1>1, <1>2, <1>3, <2>1, <2>2, <2>3 DEF Alone, Writing
  <1>13. ASSUME NEW r \in Reviewers, MergeRead(r) PROVE CopyInv'
    <2>1. task[r].pc = "merge" /\ issues' = issues
      BY <1>13 DEF MergeRead, At
    <2>2. CASE Read(r, "write")
      BY <1>5, <1>10, <2>1, <2>2 DEF Writing
    <2>3. CASE EndTriage(r) /\ copies' = copies
      <3>1. Alone(r)
        BY <1>1, <2>3 DEF EndTriage, Alone
      <3> QED
        BY <1>6, <1>10, <2>1, <2>3, <3>1 DEF Writing
    <2> QED
      BY <1>13, <2>2, <2>3 DEF MergeRead
  <1>14. ASSUME NEW r \in Reviewers, MergeWrite(r) PROVE CopyInv'
    <2>1. Alone(r)
      BY <1>1, <1>14 DEF MergeWrite, EndTriage, Alone
    <2> QED
      BY <1>8, <1>10, <1>14, <2>1 DEF MergeWrite
  <1>15. ASSUME Bind \/ HandedOver \/ BeginJob PROVE CopyInv'
    <2>1. Alone(Worker)
      BY <1>1, <1>15 DEF Bind, HandedOver, BeginJob, Wrote, Rest, Alone
    <2> QED
      BY <1>8, <1>10, <1>15, <2>1 DEF Bind, HandedOver, BeginJob
  <1>16. CASE EndPass
    <2>1. task[Worker].pc = "pass" /\ task[Worker].issue \in Ids /\ Alone(Worker)
      BY <1>1, <1>10, <1>16, Whose DEF EndPass, At, Rest, Alone, ByWorker
    <2>2. CASE issues' = issues /\ copies' = copies
      BY <1>6, <1>10, <2>1, <2>2 DEF Writing
    <2>3. CASE \E status \in {"Resolved", "WaitingForHuman"} :
                 Write(Worker, task[Worker].issue, To(issues[task[Worker].issue], status))
      BY <1>7, <1>10, <2>1, <2>3
    <2> QED
      BY <1>16, <2>2, <2>3 DEF EndPass
  <1>17. ASSUME Refresh \/ DispatchFailed \/ CreateJob PROVE CopyInv'
    <2>1. task[Worker].pc \notin Writing /\ issues' = issues
      BY <1>17 DEF Refresh, DispatchFailed, CreateJob, At, Writing
    <2>2. \/ \E pc \in Writing : Read(Worker, pc)
          \/ copies' = copies /\ (Rest \/ Go(Worker, "failed"))
      BY <1>17 DEF Refresh, DispatchFailed, CreateJob, HandOver, Writing
    <2>3. ASSUME Rest \/ Go(Worker, "failed") PROVE Alone(Worker)
      BY <1>1, <2>3 DEF Rest, Go, Alone
    <2> QED
      BY <1>5, <1>6, <1>10, <2>1, <2>2, <2>3
  <1>18. ASSUME NEW i \in Ids, Scan(i) PROVE CopyInv'
    <2>1. task[Worker].pc \notin Writing /\ issues' = issues /\ copies' = copies /\ Alone(Worker)
      BY <1>1, <1>18 DEF Scan, At, Writing, Alone
    <2> QED
      BY <1>6, <1>10, <2>1
  <1>19. ASSUME NEW i \in Ids, Close(i) PROVE CopyInv'
    <2>1. /\ copies' = {u \in copies : u # Nobody /\ task[u].issue # i} /\ task' = task
          /\ \A j \in Ids \ {i} : issues'[j] = issues[j]
      BY <1>19 DEF Close, Write, Ids
    <2> QED
      BY <1>2, <1>3, <2>1
  <1>20. ASSUME NEW r \in Requests, Drop(r) PROVE CopyInv'
    <2>1. copies' = copies \ {r} /\ issues' = issues /\ Alone(r)
      BY <1>1, <1>20 DEF Drop, Alone
    <2> QED
      BY <1>1, <1>4, <2>1 DEF Alone
  <1>21. CASE Crash
    BY <1>21 DEF Crash, CopyInv
  <1>22. CASE Recover
    BY <1>3, <1>22 DEF Recover, IntakeInv, DownInv
  <1>23. CASE Freeze \/ Resume \/ UNCHANGED vars
    BY <1>4, <1>23 DEF Freeze, Resume, vars
  <1> QED
    BY <1>11, <1>12, <1>13, <1>14, <1>15, <1>16, <1>17, <1>18, <1>19, <1>20, <1>21, <1>22, <1>23
       DEF Next, Reviewing, Working

\* What the worker is about to write was read of an Issue in the state the write is for.
LEMMA WorkerStep ==
    ASSUME IntakeInv, [Next]_vars
    PROVE  WorkerInv'
  <1>1. /\ task \in [Tasks -> TaskType] /\ Worker \in Tasks /\ WorkerInv
        /\ \A r \in Reviewers : r # Worker
    BY TasksAssumption DEF IntakeInv, TasksOK, Tasks
  <1>2. ASSUME task'[Worker] = task[Worker] PROVE WorkerInv'
    BY <1>1, <1>2 DEF WorkerInv
  <1>3. ASSUME task'[Worker].pc \notin {"hand over", "begin"} PROVE WorkerInv'
    BY <1>3 DEF WorkerInv
  <1>4. ASSUME NEW pc \in {"bind", "hand over", "begin"}, Read(Worker, pc)
        PROVE  task'[Worker].pc = pc /\ task'[Worker].copy = issues[task[Worker].issue]
    BY <1>1, <1>4 DEF Read, TaskType
  <1>5. ASSUME Rest \/ Go(Worker, "failed") PROVE WorkerInv'
    <2>1. task'[Worker].pc \in {"idle", "failed"}
      BY <1>1, <1>5 DEF Rest, Go, Idle, TaskType
    <2> QED
      BY <1>3, <2>1
  <1>6. CASE Refresh
    <2>1. CASE Read(Worker, "bind")
      <3>1. task'[Worker].pc = "bind"
        BY <1>4, <2>1
      <3> QED
        BY <1>3, <3>1
    <2> QED
      BY <1>5, <1>6, <2>1 DEF Refresh
  <1>7. CASE DispatchFailed
    <2>1. CASE Rest
      BY <1>5, <2>1
    <2>2. CASE issues[task[Worker].issue].status = "Open" /\ Read(Worker, "hand over")
      <3>1. task'[Worker].pc = "hand over" /\ task'[Worker].copy.status = "Open"
        BY <1>4, <2>2
      <3> QED
        BY <3>1 DEF WorkerInv
    <2> QED
      BY <1>7, <2>1, <2>2 DEF DispatchFailed, HandOver
  <1>8. CASE CreateJob
    <2>1. CASE Rest \/ Go(Worker, "failed")
      BY <1>5, <2>1
    <2>2. CASE Live(task[Worker].issue) /\ Read(Worker, "begin")
      <3>1. task'[Worker].pc = "begin" /\ task'[Worker].copy.status \notin IssueTerminal
        BY <1>4, <2>2 DEF Live
      <3> QED
        BY <3>1 DEF WorkerInv
    <2> QED
      BY <1>8, <2>1, <2>2 DEF CreateJob
  <1>9. ASSUME NEW t \in Tasks, Alone(t), task'[t].pc \notin Writing PROVE WorkerInv'
    BY <1>1, <1>2, <1>3, <1>9 DEF Alone, Writing
  <1>10. ASSUME NEW r \in Reviewers, Alone(r) PROVE WorkerInv'
    BY <1>1, <1>2, <1>10 DEF Alone
  <1>11. ASSUME \A t \in Tasks : task'[t] = Idle PROVE WorkerInv'
    <2>1. task'[Worker].pc = "idle"
      BY <1>1, <1>11 DEF Idle
    <2> QED
      BY <1>3, <2>1
  <1> QED
    BY <1>2, <1>6, <1>7, <1>8, <1>9, <1>10, <1>11, WhoMoves

\* A running Job's Issue is live, and only an ended Issue has a time of closure.
LEMMA LifeStep ==
    ASSUME IntakeInv, [Next]_vars
    PROVE  LifeInv'
  <1>1. /\ LifeInv /\ Types
        /\ \A i \in running : i \in Ids
    BY DEF IntakeInv, Types
  <1>2. ASSUME NEW r \in Reviewers, Accept(r) PROVE LifeInv'
    <2>1. r \in Tasks /\ task[r].key \in Keys /\ task[r].snap \in Snapshots
      BY <1>2, Whose DEF Accept, At, Tasks, UnderLock, Deciding
    <2>2. /\ issues'[Len(issues) + 1] = FromCandidate(task[r].key, task[r].snap)
          /\ Ids' = Ids \cup {Len(issues) + 1} /\ \A j \in Ids : issues'[j] = issues[j]
      BY <1>1, <1>2, <2>1, NewIssue, Added DEF Accept, Types
    <2>3. running' = running
      BY <1>2 DEF Accept, world
    <2> QED
      BY <1>1, <2>2, <2>3 DEF LifeInv, Live, FromCandidate
  <1>3. ASSUME KeptIssues, \A i \in running' : i \in Ids /\ Live(i)' PROVE LifeInv'
    BY <1>3 DEF LifeInv, KeptIssues, KeepsIssue
  <1>4. ASSUME issues' = issues, running' \subseteq running \/ CreateJob PROVE LifeInv'
    <2>1. \A i \in running' : i \in Ids /\ Live(i)
      <3>1. CASE CreateJob
        <4>1. task[Worker].issue \in Ids
          BY <3>1, Whose DEF CreateJob, At, Tasks, ByWorker
        <4> QED
          BY <1>1, <3>1, <4>1 DEF CreateJob, LifeInv
      <3> QED
        BY <1>1, <1>4, <3>1 DEF LifeInv
    <2> QED
      BY <1>1, <1>4, <2>1 DEF LifeInv, Live, Ids
  <1>5. ASSUME NEW t \in Tasks, NEW next \in IssueType, UpdateIf(t, task[t].issue, next),
               running' = running, KeptIssues,
               next.status = task[t].copy.status \/ next.status \notin IssueTerminal
        PROVE  LifeInv'
    <2>1. \A i \in running : Live(i)'
      BY <1>1, <1>5, WriteFresh DEF LifeInv, Live
    <2> QED
      BY <1>1, <1>3, <1>5, <2>1
  <1>6. ASSUME NEW r \in Reviewers, MergeWrite(r), KeptIssues PROVE LifeInv'
    <2>1. r \in Tasks /\ task[r].pc = "write" /\ running' = running
      BY <1>6 DEF MergeWrite, At, Tasks, world
    <2>2. task[r].copy \in IssueType /\ task[r].key \in Keys /\ task[r].snap \in Snapshots
      BY <2>1, TaskFields
    <2> QED
      BY <1>5, <1>6, <2>1, <2>2, MergedIssue DEF MergeWrite
  <1>7. ASSUME Bind \/ HandedOver \/ BeginJob, KeptIssues PROVE LifeInv'
    <2>1. Worker \in Tasks /\ task[Worker].copy \in IssueType /\ now \in Nat /\ running' = running
      BY <1>7, TaskFields DEF Tasks, Bind, HandedOver, BeginJob, world
    <2>2. PICK next \in IssueType : /\ UpdateIf(Worker, task[Worker].issue, next)
                                    /\ \/ next.status = task[Worker].copy.status
                                       \/ next.status \notin IssueTerminal
      BY <1>7, <2>1, ToIssue DEF Bind, HandedOver, BeginJob, IssueStatus, IssueTerminal
    <2> QED
      BY <1>5, <1>7, <2>1, <2>2
  <1>8. ASSUME NEW i \in Ids, NEW t, NEW next, Write(t, i, next), running' = running \ {i}, KeptIssues
        PROVE  LifeInv'
    <2>1. \A j \in Ids \ {i} : issues'[j] = issues[j]
      BY <1>8 DEF Write, Ids
    <2> QED
      BY <1>1, <1>3, <1>8, <2>1 DEF LifeInv, Live
  <1>9. ASSUME EndPass, KeptIssues PROVE LifeInv'
    <2>1. task[Worker].issue \in Ids
      BY <1>9, Whose DEF EndPass, At, Tasks, ByWorker
    <2> QED
      BY <1>4, <1>8, <1>9, <2>1 DEF EndPass
  <1>10. ASSUME NEW i \in Ids, Close(i), KeptIssues PROVE LifeInv'
    BY <1>8, <1>10 DEF Close
  <1>11. ASSUME Recover, KeptIssues PROVE LifeInv'
    BY <1>3, <1>11 DEF Recover
  <1>12. \/ issues' = issues /\ (running' = running \/ CreateJob)
         \/ Bind \/ HandedOver \/ BeginJob \/ EndPass \/ Recover
         \/ \E i \in Ids : Close(i)
         \/ \E r \in Reviewers : Accept(r) \/ MergeWrite(r)
    BY DEF Next, vars, world, Reviewing, Working, Capture, StartReview, GiveUp, Judge, JudgeFails,
           EndReview, CompleteReview, BeginTriage, Screen, Queue, MergeRead, Scan, Refresh,
           DispatchFailed, CreateJob, Freeze, Resume, Drop, Crash
  <1> QED
    BY <1>2, <1>4, <1>6, <1>7, <1>9, <1>10, <1>11, <1>12, IssuesKept

\* A crash leaves nothing of the tasks, and nothing happens until recovery.
LEMMA DownStep ==
    ASSUME IntakeInv, [Next]_vars
    PROVE  DownInv'
  <1>1. CASE Crash
    BY <1>1 DEF Crash, DownInv
  <1>2. CASE Recover
    BY <1>2 DEF Recover, DownInv
  <1>3. CASE UNCHANGED vars
    BY <1>3 DEF IntakeInv, DownInv, vars
  <1>4. CASE Next /\ ~Crash /\ ~Recover
    <2>1. up /\ up' = up
      BY <1>4 DEF Next, world, Reviewing, Working, Capture, StartReview, GiveUp, Judge, JudgeFails,
             EndReview, CompleteReview, BeginTriage, Screen, Queue, Accept, MergeRead, MergeWrite, Scan,
             Refresh, Bind, DispatchFailed, HandedOver, CreateJob, BeginJob, EndPass, Close, Freeze,
             Resume, Drop, At
    <2> QED
      BY <2>1 DEF DownInv
  <1> QED
    BY <1>1, <1>2, <1>3, <1>4

\* What was screened stays so: nobody else opens Issues, and an Issue that is closed meanwhile
\* was live and seen.
LEMMA ScreenedStep ==
    ASSUME IntakeInv, [Next]_vars
    PROVE  ScreenedInv'
  <1>1. /\ task \in [Tasks -> TaskType] /\ \A r \in Reviewers : r \in Tasks
        /\ ScreenedInv /\ LifeInv
    BY DEF IntakeInv, TasksOK, Tasks
  <1> DEFINE Stays(r) == task'[r] = task[r] \/ task'[r].pc \notin {"queue", "accept"}
             Fine(r) == /\ task[r].pc = "accept" => SameIncident(task[r].key) = {}
                        /\ task[r].pc \in {"queue", "accept"} =>
                             \A j \in Ids :
                                 \/ Live(j)
                                 \/ issues[j].key = task[r].key /\ issues[j].closed >= task[r].snap
                                 => j \in task[r].seen
  <1>2. ASSUME NEW r \in Reviewers, Stays(r), KeptIssues PROVE Fine(r)'
    <2>1. CASE task'[r] = task[r]
      <3>1. Fine(r)
        BY <1>1 DEF ScreenedInv
      <3>2. ASSUME task[r].pc = "accept" PROVE SameIncident(task[r].key)' = {}
        BY <1>2, <2>1, <3>1, <3>2 DEF SameIncident, KeptIssues, KeepsIssue
      <3>3. ASSUME task[r].pc \in {"queue", "accept"}, NEW j \in Ids,
                   Live(j)' \/ (issues'[j].key = task[r].key /\ issues'[j].closed >= task[r].snap)
            PROVE  j \in task[r].seen
        BY <1>2, <3>1, <3>3 DEF KeptIssues, KeepsIssue
      <3> QED
        BY <1>2, <2>1, <3>2, <3>3 DEF KeptIssues, SameIncident
    <2>2. CASE task'[r].pc \notin {"queue", "accept"}
      BY <2>2
    <2> QED
      BY <1>2, <2>1, <2>2
  <1>3. ASSUME KeptIssues, \A r \in Reviewers : Stays(r) \/ Fine(r)' PROVE ScreenedInv'
    BY <1>2, <1>3 DEF ScreenedInv
  \* An Issue is opened under the review lock: nobody else is in the midst of a finding.
  <1>4. ASSUME NEW r \in Reviewers, Accept(r) PROVE ScreenedInv'
    <2>1. task[r].pc = "accept" /\ reviewing = r
      BY <1>1, <1>4, Whose DEF Accept, At, UnderLock, Deciding
    <2>2. task'[r].pc = "findings" /\ \A u \in Tasks \ {r} : task'[u] = task[u]
      <3>1. Ids \subseteq Ids' /\ reviewing' = reviewing
        <4>1. task[r].key \in Keys /\ task[r].snap \in Snapshots
          BY <1>1, <2>1, Whose DEF UnderLock, Deciding
        <4> QED
          BY <1>4, <4>1, NewIssue, Added DEF Accept, IntakeInv, Types
      <3> QED
        BY <1>4, <2>1, <3>1, FindingEnds DEF Accept, Deciding
    <2>3. \A u \in Reviewers : task'[u].pc \notin {"queue", "accept"}
      BY <1>1, <2>1, <2>2, Whose DEF UnderLock, Deciding
    <2> QED
      BY <2>3 DEF ScreenedInv
  <1>5. ASSUME NEW r \in Reviewers, EndTriage(r) PROVE task'[r].pc = "findings"
    BY <1>1, <1>5 DEF EndTriage, Idle
  <1>6. ASSUME NEW r \in Reviewers, Screen(r) PROVE Stays(r) \/ Fine(r)'
    <2>1. CASE EndTriage(r)
      BY <1>5, <2>1
    <2>2. CASE ~EndTriage(r)
      <3>1. /\ task' = [task EXCEPT ![r].pc = "queue", ![r].seen = {i \in Ids : Live(i)}]
            /\ \A i \in Ids : ~ClosedSince(i, task[r].key, task[r].snap)
            /\ issues' = issues /\ task[r].pc = "screen"
        BY <1>6, <2>2 DEF Screen, At
      <3>2. /\ task'[r].pc = "queue" /\ task'[r].seen = {i \in Ids : Live(i)}
            /\ task'[r].key = task[r].key /\ task'[r].snap = task[r].snap
        BY <1>1, <3>1 DEF TaskType
      <3>3. \A i \in Ids : issues[i].key = task[r].key /\ issues[i].closed >= task[r].snap => Live(i)
        BY <3>1 DEF ClosedSince
      <3>4. Ids' = Ids
        BY <3>1 DEF Ids
      <3> QED
        BY <3>1, <3>2, <3>3, <3>4 DEF Live
    <2> QED
      BY <2>1, <2>2
  <1>7. ASSUME NEW r \in Reviewers, Queue(r) PROVE Stays(r) \/ Fine(r)'
    <2>1. CASE EndTriage(r)
      BY <1>5, <2>1
    <2>2. CASE \E i \in Ids : Choose(r, i)
      <3>1. task'[r].pc = "merge"
        BY <1>1, <2>2 DEF Choose, TaskType
      <3> QED
        BY <3>1
    <2>3. CASE Duplicate(task[r].key) = {} /\ Go(r, "accept")
      <3>1. /\ task'[r].pc = "accept" /\ task'[r].seen = task[r].seen
            /\ task'[r].key = task[r].key /\ task'[r].snap = task[r].snap
        BY <1>1, <2>3 DEF Go, TaskType
      <3>2. task[r].pc = "queue" /\ issues' = issues /\ SameIncident(task[r].key) = {}
        BY <1>7, <2>3 DEF Queue, At, Duplicate
      <3>3. SameIncident(task[r].key)' = {}
        BY <3>1, <3>2 DEF SameIncident, Live, Ids
      <3>4. Fine(r)
        BY <1>1 DEF ScreenedInv
      <3> QED
        BY <3>1, <3>2, <3>3, <3>4 DEF Live, Ids
    <2> QED
      BY <1>7, <2>1, <2>2, <2>3 DEF Queue, Duplicate, SameIncident
  <1>8. ASSUME NEW r \in Reviewers, MergeRead(r) PROVE Stays(r)
    <2>1. CASE EndTriage(r)
      BY <1>5, <2>1
    <2>2. CASE Read(r, "write")
      <3>1. task'[r].pc = "write"
        BY <1>1, <2>2 DEF Read, TaskType
      <3> QED
        BY <3>1
    <2> QED
      BY <1>8, <2>1, <2>2 DEF MergeRead
  <1>9. \A r \in Reviewers : r # Worker
    BY TasksAssumption
  <1>10. (\E r \in Reviewers : Accept(r)) \/ \A r \in Reviewers : Stays(r) \/ Fine(r)'
    <2>1. CASE task' = task
      BY <2>1
    <2>2. CASE \A t \in Tasks : task'[t] = Idle
      <3>1. Idle.pc = "idle"
        BY DEF Idle
      <3> QED
        BY <1>1, <2>2, <3>1
    <2>3. ASSUME NEW t \in Tasks, Alone(t), task'[t].pc \notin Writing \cup {"queue", "accept"}
          PROVE  \A r \in Reviewers : Stays(r)
      BY <1>1, <2>3 DEF Alone
    <2>4. ASSUME NEW r \in Reviewers, Alone(r), Screen(r) \/ Queue(r) \/ MergeRead(r)
          PROVE  \A q \in Reviewers : Stays(q) \/ Fine(q)'
      <3>1. Stays(r) \/ Fine(r)'
        BY <1>6, <1>7, <1>8, <2>4
      <3>2. ASSUME NEW q \in Reviewers, q # r PROVE Stays(q)
        BY <1>1, <2>4, <3>2 DEF Alone
      <3> HIDE DEF Stays, Fine
      <3> QED
        BY <3>1, <3>2
    <2>5. ASSUME Alone(Worker) PROVE \A r \in Reviewers : Stays(r)
      BY <1>1, <1>9, <2>5 DEF Alone
    <2> HIDE DEF Stays, Fine
    <2> QED
      BY <2>1, <2>2, <2>3, <2>4, <2>5, WhoMoves
  <1> HIDE DEF Stays, Fine
  <1> QED
    BY <1>3, <1>4, <1>10, IssuesKept

\* An incident that a finding opens has no live Issue yet.
LEMMA OneIssueStep ==
    ASSUME IntakeInv, [Next]_vars
    PROVE  OneIssueEach'
  <1>1. OneIssueEach /\ ScreenedInv /\ Types
    BY DEF IntakeInv
  <1>2. CASE KeptIssues
    BY <1>1, <1>2 DEF OneIssueEach, KeptIssues, KeepsIssue
  <1>3. ASSUME NEW r \in Reviewers, Accept(r) PROVE OneIssueEach'
    <2>1. r \in Tasks /\ task[r].key \in Keys /\ task[r].snap \in Snapshots /\ task[r].pc = "accept"
      BY <1>3, Whose DEF Accept, At, Tasks, UnderLock, Deciding
    <2> DEFINE new == Len(issues) + 1
    <2>2. /\ Ids' = Ids \cup {new} /\ \A j \in Ids : issues'[j] = issues[j]
          /\ issues'[new] = FromCandidate(task[r].key, task[r].snap)
      BY <1>1, <1>3, <2>1, NewIssue, Added DEF Accept, Types
    <2>4. issues'[new].key = task[r].key
      BY <2>2 DEF FromCandidate
    <2>3. \A j \in Ids : Live(j) => issues[j].key # task[r].key
      BY <1>1, <2>1 DEF ScreenedInv, SameIncident
    <2> HIDE DEF new
    <2> QED
      BY <1>1, <2>2, <2>3, <2>4 DEF OneIssueEach, Live
  <1> QED
    BY <1>2, <1>3, IssuesKept

\* An Issue is listed by a review in the step that gives it the evidence.
LEMMA EvidenceStep ==
    ASSUME IntakeInv, [Next]_vars
    PROVE  EvidenceCarried' /\ ListedInv'
  <1>1. /\ Types /\ review \in [Snapshots -> ReviewType]
        /\ \A s \in Snapshots : \A i \in review[s].issues : i \in Ids /\ s \in issues[i].evidence
    BY DEF IntakeInv, Types, EvidenceCarried, ListedInv
  \* What was listed stays listed rightly.
  <1>2. ASSUME KeptIssues, \A s \in Snapshots : review'[s].issues \subseteq review[s].issues
        PROVE  EvidenceCarried' /\ ListedInv'
    BY <1>1, <1>2 DEF EvidenceCarried, ListedInv, KeptIssues, KeepsIssue
  \* An Issue is added to a review's list.
  <1>3. ASSUME NEW r \in Reviewers, NEW i \in Ids', Listed(r, i), task[r].snap \in Snapshots,
               task[r].snap \in issues'[i].evidence,
               \A j \in Ids : j \in Ids' /\ issues[j].evidence \subseteq issues'[j].evidence
        PROVE  EvidenceCarried' /\ ListedInv'
    <2>1. /\ review'[task[r].snap].issues = review[task[r].snap].issues \cup {i}
          /\ \A s \in Snapshots \ {task[r].snap} : review'[s] = review[s]
      BY <1>1, <1>3 DEF Listed, ReviewType
    <2> QED
      BY <1>1, <1>3, <2>1 DEF EvidenceCarried, ListedInv
  <1>4. ASSUME NEW r \in Reviewers, Accept(r) PROVE EvidenceCarried' /\ ListedInv'
    <2>1. r \in Tasks /\ task[r].key \in Keys /\ task[r].snap \in Snapshots
      BY <1>4, Whose DEF Accept, At, Tasks, UnderLock, Deciding
    <2> DEFINE new == Len(issues) + 1
    <2>2. /\ Ids' = Ids \cup {new} /\ \A j \in Ids : issues'[j] = issues[j]
          /\ issues'[new] = FromCandidate(task[r].key, task[r].snap) /\ Listed(r, new)
      BY <1>1, <1>4, <2>1, NewIssue, Added DEF Accept, Types
    <2>3. issues'[new].evidence = {task[r].snap}
      BY <2>2 DEF FromCandidate
    <2> HIDE DEF new
    <2> QED
      BY <1>3, <2>1, <2>2, <2>3
  <1>5. ASSUME NEW r \in Reviewers, MergeWrite(r), KeptIssues PROVE EvidenceCarried' /\ ListedInv'
    <2>1. r \in Tasks /\ task[r].pc = "write"
      BY <1>5 DEF MergeWrite, At, Tasks
    <2>2. task[r].copy \in IssueType /\ task[r].key \in Keys /\ task[r].snap \in Snapshots
      BY <2>1, TaskFields
    <2>3. CASE r \in copies
      <3>1. /\ UpdateIf(r, task[r].issue, Merged(task[r].copy, task[r].key, task[r].snap))
            /\ Listed(r, task[r].issue)
        BY <1>5, <2>3 DEF MergeWrite
      <3>2. /\ task[r].issue \in Ids
            /\ issues'[task[r].issue] = Merged(task[r].copy, task[r].key, task[r].snap)
        BY <2>1, <2>2, <2>3, <3>1, MergedIssue, WriteFresh
      <3>3. task[r].snap \in issues'[task[r].issue].evidence
        BY <2>2, <3>2, MergedIssue
      <3> QED
        BY <1>3, <1>5, <2>2, <3>1, <3>2, <3>3 DEF KeptIssues, KeepsIssue
    <2>4. CASE r \notin copies
      BY <1>2, <1>5, <2>4 DEF MergeWrite
    <2> QED
      BY <2>3, <2>4
  <1>6. (\E r \in Reviewers : Accept(r) \/ MergeWrite(r))
        \/ \A s \in Snapshots : review'[s].issues \subseteq review[s].issues
    <2>1. ASSUME NEW x, NEW status, review' = [review EXCEPT ![x].status = status]
          PROVE  \A s \in Snapshots : review'[s].issues \subseteq review[s].issues
      BY <1>1, <2>1 DEF ReviewType
    <2>2. ASSUME NEW r \in Reviewers,
                 StartReview(r) \/ GiveUp(r) \/ JudgeFails(r) \/ CompleteReview(r)
          PROVE  \A s \in Snapshots : review'[s].issues \subseteq review[s].issues
      <3>1. \E status : review' = [review EXCEPT ![task[r].snap].status = status]
        BY <2>2 DEF StartReview, GiveUp, JudgeFails, CompleteReview, EndReview
      <3> QED
        BY <2>1, <3>1
    <2>3. CASE Recover
      <3>1. \A s \in Snapshots : review'[s] = IF review[s].status = "running"
                                              THEN [status |-> "failed", issues |-> {}] ELSE review[s]
        BY <2>3 DEF Recover
      <3> QED
        BY <3>1
    <2>4. \/ review' = review \/ Recover
          \/ \E r \in Reviewers : \/ Accept(r) \/ MergeWrite(r) \/ StartReview(r) \/ GiveUp(r)
                                  \/ JudgeFails(r) \/ CompleteReview(r)
      BY DEF Next, vars, world, Reviewing, Working, Capture, Judge, BeginTriage, Screen, Queue,
             MergeRead, Scan, Refresh, Bind, DispatchFailed, HandedOver, CreateJob, BeginJob, EndPass,
             Close, Freeze, Resume, Drop, Crash
    <2> QED
      BY <2>2, <2>3, <2>4
  <1> QED
    BY <1>2, <1>4, <1>5, <1>6, IssuesKept

-----------------------------------------------------------------------------
(* The theorems. *)

\* The controller starts without Issues, reviews and tasks.
LEMMA IntakeStart == Init => IntakeInv
  <1> SUFFICES ASSUME Init PROVE IntakeInv
    OBVIOUS
  <1>1. issues = <<>> /\ Ids = {} /\ issues \in Seq(IssueType)
    BY EmptySeq DEF Init, Ids
  <1>2. Types
    BY <1>1, TasksAssumption DEF Init, Types, ReviewType, Unreviewed
  <1>3. \A t \in Tasks : task[t] = Idle
    BY DEF Init
  <1>4. TasksOK
    BY <1>1, <1>3, Blank
       DEF Init, TasksOK, TaskInv, Fits, Idle, ByReviewer, ByWorker, UnderLock, Deciding
  <1>5. CopyInv /\ LifeInv /\ DownInv /\ OneIssueEach
    BY <1>1 DEF Init, CopyInv, LifeInv, DownInv, OneIssueEach
  <1>6. WorkerInv /\ ScreenedInv
    <2>1. Idle.pc = "idle" /\ Worker \in Tasks /\ \A r \in Reviewers : r \in Tasks
      BY DEF Idle, Tasks
    <2> QED
      BY <1>3, <2>1 DEF WorkerInv, ScreenedInv
  <1>7. ListedInv /\ EvidenceCarried
    BY DEF Init, ListedInv, EvidenceCarried, Unreviewed
  <1> QED
    BY <1>2, <1>4, <1>5, <1>6, <1>7 DEF IntakeInv

LEMMA IntakeAlways == Spec => []IntakeInv
  <1>1. IntakeInv /\ [Next]_vars => IntakeInv'
    BY TypesStep, TasksMove, CopyStep, WorkerStep, LifeStep, DownStep, ScreenedStep, OneIssueStep,
       EvidenceStep DEF IntakeInv
  <1> QED
    BY <1>1, IntakeStart, PTL DEF Spec

\* An incident has one live Issue at a time, for any number of captures, findings and Issues,
\* whatever reviews, policy answers, closures, disconnections and crashes happen together
\* (triage_candidate).
THEOREM OneLiveIssue == Spec => []OneIssueEach
  <1>1. IntakeInv => OneIssueEach
    BY DEF IntakeInv
  <1> QED
    BY <1>1, IntakeAlways, PTL

\* The Issues a review lists as carrying its findings carry them for good: nobody who read the
\* Issue before undoes a merge (update_issue_if).
THEOREM EvidenceStays == Spec => []EvidenceCarried
  <1>1. IntakeInv => EvidenceCarried
    BY DEF IntakeInv
  <1> QED
    BY <1>1, IntakeAlways, PTL

\* Evidence older than an incident's closure opens no new Issue, unless the closure fell between
\* the two readings of that very triage.
THEOREM NothingReopened == Spec => NoStaleIssue
  <1> DEFINE Body ==
        \A i \in DOMAIN issues' \ Ids : \A j \in Ids :
            (issues'[i].key = issues[j].key /\ issues[j].closed >= issues'[i].opened)
            => \E r \in Reviewers : task[r].pc = "accept" /\ j \in task[r].seen
  <1>1. IntakeInv /\ [Next]_vars => Body
    <2> SUFFICES ASSUME IntakeInv, [Next]_vars PROVE Body
      OBVIOUS
    <2>1. CASE KeptIssues
      BY <2>1 DEF KeptIssues, Ids
    <2>2. ASSUME NEW r \in Reviewers, Accept(r) PROVE Body
      <3>1. /\ r \in Tasks /\ task[r].key \in Keys /\ task[r].snap \in Snapshots
            /\ task[r].pc = "accept"
        BY <2>2, Whose DEF Accept, At, Tasks, UnderLock, Deciding
      <3> DEFINE new == Len(issues) + 1
      <3>2. /\ DOMAIN issues' = Ids \cup {new}
            /\ issues'[new] = FromCandidate(task[r].key, task[r].snap)
        BY <2>2, <3>1, NewIssue, Added DEF Accept, IntakeInv, Types, Ids
      <3>3. issues'[new].key = task[r].key /\ issues'[new].opened = task[r].snap
        BY <3>2 DEF FromCandidate
      <3>4. \A j \in Ids : issues[j].key = task[r].key /\ issues[j].closed >= task[r].snap
                           => j \in task[r].seen
        BY <3>1 DEF IntakeInv, ScreenedInv
      <3> HIDE DEF new
      <3> QED
        BY <3>1, <3>2, <3>3, <3>4
    <2> QED
      BY <2>1, <2>2, IssuesKept
  <1>2. IntakeInv /\ [Next]_vars => [Body]_vars
    BY <1>1
  <1> HIDE DEF Body
  <1>3. Spec => [][Body]_vars
    BY <1>2, IntakeAlways, PTL DEF Spec
  <1> QED
    BY <1>3 DEF NoStaleIssue, Body
=============================================================================
