------------------------------- MODULE Intake -------------------------------
(***************************************************************************)
(* How Issues come to be and get their first pass: captures and their      *)
(* reviews by the Snapshot judge, triage of every finding, and the worker  *)
(* that dispatches automatic Issues.  A finding is the deduplication key   *)
(* of its incident; a Snapshot is its creation time, a number in the order *)
(* of capture.  Human reports, which carry no key, are PassChain's.        *)
(***************************************************************************)
EXTENDS Naturals, Sequences, Lifecycle

CONSTANTS
    Reviewers,    \* captures that are reviewed: the periodic one, an operator's
    Requests,     \* those of them a client waits for
    Worker,       \* the intake worker
    Keys,         \* deduplication keys of incidents
    Findings,     \* [Reviewers -> sets of sequences of findings]
    Urgency,      \* [Keys -> Nat], the priority a finding proposes
    Advised,      \* a Scheduler policy is wired
    MaxSnapshots, \* bound: reviewed captures
    MaxClosures,  \* bound: closures by operators
    MaxFreezes,   \* bound: freezes
    MaxFaults     \* bound: crashes, dropped requests

Tasks == Reviewers \union {Worker}
Snapshots == 1 .. MaxSnapshots
Nobody == "nobody"
NoKey == "no key"

ASSUME TasksAssumption ==
    /\ Worker \notin Reviewers /\ Requests \subseteq Reviewers /\ Nobody \notin Tasks
    /\ Findings \in [Reviewers -> SUBSET Seq(Keys)] /\ Urgency \in [Keys -> Nat]
    /\ MaxSnapshots \in Nat

VARIABLES
    issues,    \* the Issues, in the order they were inserted
    jobs,      \* the Issues that have a Job
    running,   \* the Issues whose Job runs
    review,    \* the review of every Snapshot: its status and the Issues it lists
    task,      \* where every task stands
    copies,    \* the tasks whose copy of an Issue is what the store holds
    reviewing, \* holder of snapshot_review_lock
    now,       \* Snapshots captured so far
    mode, up, closures, freezes, faults

vars == <<issues, jobs, running, review, task, copies, reviewing,
          now, mode, up, closures, freezes, faults>>
world == <<jobs, running, now, mode, up, closures, freezes, faults>>

NoIssue == [key |-> NoKey, status |-> "Open", priority |-> 0, opened |-> 0,
            evidence |-> {}, closed |-> 0]
Idle == [pc |-> "idle", snap |-> 0, todo |-> <<>>, key |-> NoKey, issue |-> 0,
         copy |-> NoIssue, seen |-> {}]
Unreviewed == [status |-> "none", issues |-> {}]

Init ==
    /\ issues = <<>> /\ jobs = {} /\ running = {}
    /\ review = [s \in Snapshots |-> Unreviewed]
    /\ task = [t \in Tasks |-> Idle]
    /\ copies = {}
    /\ reviewing = Nobody
    /\ now = 0 /\ mode = "Running" /\ up = TRUE
    /\ closures = 0 /\ freezes = 0 /\ faults = 0

-----------------------------------------------------------------------------
(* Issues in the store.                                                    *)

Ids == DOMAIN issues
Live(i) == issues[i].status \notin IssueTerminal

FromCandidate(key, s) ==
    [key |-> key, status |-> "Open", priority |-> Urgency[key],
     opened |-> s, evidence |-> {s}, closed |-> 0]

At(t, pc) == up /\ task[t].pc = pc
Go(t, pc) == task' = [task EXCEPT ![t].pc = pc]

Read(t, pc) ==
    /\ task' = [task EXCEPT ![t].pc = pc, ![t].copy = issues[task[t].issue]]
    /\ copies' = copies \union {t}
\* What a task read is of no use once it wrote.
Wrote(t, pc) == task' = [task EXCEPT ![t].pc = pc, ![t].copy = NoIssue]
\* Any write of an Issue leaves the copies others hold of it behind.
Write(t, i, next) ==
    /\ issues' = [issues EXCEPT ![i] = next]
    /\ copies' = {u \in copies : u # t /\ task[u].issue # i}

\* Fault: the last writer wins.
UpdateAnyway(t, i, next) == Write(t, i, next)

\* update_issue_if: the write of a copy somebody else has outrun is a Conflict.
UpdateIf(t, i, next) ==
    IF t \in copies THEN Write(t, i, next) ELSE UNCHANGED <<issues, copies>>

To(issue, status) ==
    [issue EXCEPT !.status = status, !.closed = IF status \in IssueTerminal THEN now ELSE 0]

-----------------------------------------------------------------------------
(* Capture and review.                                                     *)

\* The Snapshot is dated when its collection begins.
Capture(r) ==
    /\ At(r, "idle") /\ now < MaxSnapshots
    /\ now' = now + 1
    /\ task' = [task EXCEPT ![r].pc = "captured", ![r].snap = now + 1]
    /\ UNCHANGED <<issues, jobs, running, review, copies, reviewing, mode, up, closures, freezes, faults>>

StartReview(r) ==
    /\ At(r, "captured") /\ reviewing = Nobody
    /\ reviewing' = r
    /\ review' = [review EXCEPT ![task[r].snap].status = "running"]
    /\ Go(r, "judging")
    /\ UNCHANGED <<issues, copies, world>>

EndReview(r, status) ==
    /\ review' = [review EXCEPT ![task[r].snap].status = status]
    /\ task' = [task EXCEPT ![r] = Idle]
    /\ reviewing' = Nobody
    /\ UNCHANGED <<issues, copies, world>>

\* Rules and model: some incidents, one finding each.
Judge(r) ==
    /\ At(r, "judging")
    /\ \E found \in Findings[r] :
         task' = [task EXCEPT ![r].pc = "findings", ![r].todo = found]
    /\ UNCHANGED <<issues, review, copies, reviewing, world>>

\* The judge fails, or the operation is cancelled before its findings are used.
JudgeFails(r) == At(r, "judging") /\ EndReview(r, "failed")

\* It is cancelled while it waits for the review before it.
GiveUp(r) ==
    /\ At(r, "captured")
    /\ review' = [review EXCEPT ![task[r].snap].status = "failed"]
    /\ task' = [task EXCEPT ![r] = Idle]
    /\ UNCHANGED <<issues, copies, reviewing, world>>

CompleteReview(r) ==
    /\ At(r, "findings") /\ task[r].todo = <<>>
    /\ EndReview(r, "completed")

-----------------------------------------------------------------------------
(* Triage of one finding.  Only a review triages, and reviews are one at a  *)
(* time, so triage_lock is never contended between two findings.           *)

BeginTriage(r) ==
    /\ At(r, "findings")
    /\ task[r].todo # <<>>
    /\ task' = [task EXCEPT ![r].pc = "screen", ![r].key = Head(task[r].todo), ![r].todo = Tail(@)]
    /\ UNCHANGED <<issues, review, copies, reviewing, world>>

EndTriage(r) ==
    task' = [task EXCEPT ![r] = [Idle EXCEPT !.pc = "findings", !.snap = task[r].snap,
                                               !.todo = task[r].todo]]

\* Fault: a closure at the time of the capture does not count.
ClosedBefore(i, key, s) == issues[i].key = key /\ ~Live(i) /\ issues[i].closed > s

\* The incident was closed after this evidence was collected.
ClosedSince(i, key, s) == issues[i].key = key /\ ~Live(i) /\ issues[i].closed >= s

\* First reading of the Issues.
Screen(r) ==
    /\ At(r, "screen")
    /\ IF \E i \in Ids : ClosedSince(i, task[r].key, task[r].snap)
       THEN EndTriage(r)
       ELSE task' = [task EXCEPT ![r].pc = "queue", ![r].seen = {i \in Ids : Live(i)}]
    /\ UNCHANGED <<issues, review, copies, reviewing, world>>

Choose(r, i) == task' = [task EXCEPT ![r].pc = "merge", ![r].issue = i, ![r].seen = {}]
SameIncident(key) == {i \in Ids : Live(i) /\ issues[i].key = key}

\* Fault: a repeated finding is merged only while its Issue waits.
OpenIncident(key) == {i \in SameIncident(key) : issues[i].status = "Open"}

\* The live Issue of the incident, if there is one.
Duplicate(key) == SameIncident(key)

\* Second reading, and the decision: a duplicate is merged, anything else is
\* the policy's to decide, and accepted without one.
Queue(r) ==
    LET key == task[r].key IN
    /\ At(r, "queue")
    /\ \/ \E i \in Duplicate(key) : Choose(r, i)
       \/ Duplicate(key) = {} /\ Go(r, "accept")
       \/ /\ Duplicate(key) = {} /\ Advised
          /\ \/ \E i \in Ids : Live(i) /\ Choose(r, i)
             \/ EndTriage(r)
    /\ UNCHANGED <<issues, review, copies, reviewing, world>>

Listed(r, i) == review' = [review EXCEPT ![task[r].snap].issues = @ \union {i}]

Accept(r) ==
    /\ At(r, "accept")
    /\ issues' = Append(issues, FromCandidate(task[r].key, task[r].snap))
    /\ Listed(r, Len(issues) + 1)
    /\ EndTriage(r)
    /\ UNCHANGED <<copies, reviewing, world>>

\* An Issue closed meanwhile takes no evidence: the finding is an error.
MergeRead(r) ==
    /\ At(r, "merge")
    /\ IF Live(task[r].issue)
       THEN Read(r, "write")
       ELSE EndTriage(r) /\ UNCHANGED copies
    /\ UNCHANGED <<issues, review, reviewing, world>>

Merged(issue, key, s) ==
    [issue EXCEPT !.evidence = @ \union {s},
                  !.priority = IF Urgency[key] > @ THEN Urgency[key] ELSE @]

MergeWrite(r) ==
    LET i == task[r].issue IN
    /\ At(r, "write")
    /\ UpdateIf(r, i, Merged(task[r].copy, task[r].key, task[r].snap))
    /\ IF r \in copies THEN Listed(r, i) ELSE UNCHANGED review
    /\ EndTriage(r)
    /\ UNCHANGED <<reviewing, world>>

-----------------------------------------------------------------------------
(* The intake worker.                                                      *)

Pending(i) == issues[i].status = "Open" /\ i \notin jobs

\* Urgent ones first, then the oldest.
First(i) ==
    /\ Pending(i)
    /\ \A j \in Ids : Pending(j) /\ j # i =>
         \/ issues[j].priority < issues[i].priority
         \/ issues[j].priority = issues[i].priority /\ i < j

Rest == task' = [task EXCEPT ![Worker] = Idle]

\* A round begins when the worker is notified, or after a second, and goes on
\* while the Scheduler runs and an Issue is pending.
Scan(i) ==
    /\ At(Worker, "idle") /\ mode = "Running"
    /\ First(i)
    /\ task' = [task EXCEPT ![Worker].pc = "capture", ![Worker].issue = i]
    /\ UNCHANGED <<issues, review, copies, reviewing, world>>

\* Fresh evidence, and the Issue as it stands after a capture of seconds.
Refresh ==
    /\ At(Worker, "capture")
    /\ \/ Live(task[Worker].issue) /\ Read(Worker, "bind")
       \/ Go(Worker, "failed") /\ UNCHANGED copies
    /\ UNCHANGED <<issues, review, reviewing, world>>

\* The current Snapshot moves; nothing else of the Issue does.
Bind ==
    LET i == task[Worker].issue IN
    /\ At(Worker, "bind")
    /\ UpdateIf(Worker, i, task[Worker].copy)
    /\ Wrote(Worker, IF Worker \in copies THEN "dispatch" ELSE "failed")
    /\ UNCHANGED <<review, reviewing, world>>

\* Fault: the error is recorded and the Issue left as it is.
LeaveOpen == Rest /\ UNCHANGED copies

\* An Issue whose dispatch failed is a human's, unless it moved on.
HandOver ==
    IF issues[task[Worker].issue].status = "Open"
    THEN Read(Worker, "hand over")
    ELSE Rest /\ UNCHANGED copies

DispatchFailed ==
    /\ At(Worker, "failed") /\ HandOver
    /\ UNCHANGED <<issues, review, reviewing, world>>

\* A Conflict ends the round with an error; the next one begins within a second.
HandedOver ==
    LET i == task[Worker].issue IN
    /\ At(Worker, "hand over")
    /\ UpdateIf(Worker, i, To(task[Worker].copy, "WaitingForHuman"))
    /\ Rest
    /\ UNCHANGED <<review, reviewing, world>>

-----------------------------------------------------------------------------
(* The first pass, and the rest of its chain, as far as intake waits for   *)
(* them.                                                                   *)

\* create_job up to the insertion of the Job, under the lifecycle lock; a
\* Scheduler that froze meanwhile ends the round.
CreateJob ==
    LET i == task[Worker].issue IN
    /\ At(Worker, "dispatch")
    /\ IF mode # "Running"
       THEN Rest /\ UNCHANGED <<jobs, running, copies>>
       ELSE IF ~Live(i)
       THEN Go(Worker, "failed") /\ UNCHANGED <<jobs, running, copies>>
       ELSE /\ jobs' = jobs \union {i} /\ running' = running \union {i}
            /\ Read(Worker, "begin")
    /\ UNCHANGED <<issues, review, reviewing, now, mode, up,
                   closures, freezes, faults>>

\* Its Issue follows; a Conflict leaves the Job behind.
BeginJob ==
    LET i == task[Worker].issue IN
    /\ At(Worker, "begin")
    /\ UpdateIf(Worker, i, To(task[Worker].copy, "Investigating"))
    /\ Wrote(Worker, IF Worker \in copies THEN "pass" ELSE "failed")
    /\ UNCHANGED <<review, reviewing, world>>

\* The pass and what follows it, to the end of the chain.
EndPass ==
    LET i == task[Worker].issue IN
    /\ At(Worker, "pass")
    /\ \/ ~Live(i) /\ UNCHANGED <<issues, copies>>
       \/ /\ Live(i)
          /\ \E status \in {"Resolved", "WaitingForHuman"} : Write(Worker, i, To(issues[i], status))
    /\ running' = running \ {i}
    /\ Rest
    /\ UNCHANGED <<jobs, review, reviewing, now, mode, up,
                   closures, freezes, faults>>

-----------------------------------------------------------------------------
(* Operators, and the controller itself.                                   *)

\* create_job holds the lifecycle lock from "begin" on.
Close(i) ==
    /\ up /\ closures < MaxClosures /\ Live(i)
    /\ task[Worker].pc # "begin"
    /\ Write(Nobody, i, To(issues[i], "Resolved"))
    /\ running' = running \ {i}
    /\ closures' = closures + 1
    /\ UNCHANGED <<jobs, review, task, reviewing, now, mode, up,
                   freezes, faults>>

\* An operator's freeze, or the spend ceiling.
Freeze ==
    /\ up /\ mode = "Running" /\ freezes < MaxFreezes
    /\ mode' = "Frozen" /\ freezes' = freezes + 1
    /\ UNCHANGED <<issues, jobs, running, review, task, copies, reviewing,
                   now, up, closures, faults>>

Resume ==
    /\ up /\ mode = "Frozen"
    /\ mode' = "Running"
    /\ UNCHANGED <<issues, jobs, running, review, task, copies, reviewing,
                   now, up, closures, freezes, faults>>

\* The client of an operator's capture disconnects.
Drop(t) ==
    /\ up /\ faults < MaxFaults
    /\ task[t].pc # "idle"
    /\ task' = [task EXCEPT ![t] = Idle]
    /\ copies' = copies \ {t}
    /\ reviewing' = IF reviewing = t THEN Nobody ELSE reviewing
    /\ faults' = faults + 1
    /\ UNCHANGED <<issues, jobs, running, review, now, mode, up, closures, freezes>>

Crash ==
    /\ up /\ faults < MaxFaults
    /\ up' = FALSE /\ faults' = faults + 1
    /\ task' = [t \in Tasks |-> Idle]
    /\ copies' = {} /\ reviewing' = Nobody
    /\ UNCHANGED <<issues, jobs, running, review, now, mode, closures, freezes>>

\* Interrupted Jobs fail and hand their Issues to a human; interrupted reviews
\* are recorded as failed, and are not run again.
Recover ==
    /\ ~up /\ up' = TRUE /\ mode' = "Frozen"
    /\ issues' = [i \in Ids |-> IF i \in running THEN To(issues[i], "WaitingForHuman") ELSE issues[i]]
    /\ running' = {}
    /\ review' = [s \in Snapshots |->
                     IF review[s].status = "running"
                     THEN [status |-> "failed", issues |-> {}] ELSE review[s]]
    /\ UNCHANGED <<jobs, task, copies, reviewing, now, closures,
                   freezes, faults>>

-----------------------------------------------------------------------------
Reviewing(r) ==
    \/ Capture(r) \/ StartReview(r) \/ GiveUp(r)
    \/ Judge(r) \/ JudgeFails(r) \/ CompleteReview(r)
    \/ BeginTriage(r) \/ Screen(r) \/ Queue(r) \/ Accept(r) \/ MergeRead(r) \/ MergeWrite(r)
Working ==
    \/ \E i \in Ids : Scan(i)
    \/ Refresh \/ Bind \/ DispatchFailed \/ HandedOver
    \/ CreateJob \/ BeginJob \/ EndPass

Next ==
    \/ \E r \in Reviewers : Reviewing(r)
    \/ Working
    \/ \E i \in Ids : Close(i)
    \/ Freeze \/ Resume \/ \E r \in Requests : Drop(r)
    \/ Crash \/ Recover

Spec == Init /\ [][Next]_vars

\* The worker is a task of its own that wakes every second.
FairSpec == Spec /\ WF_vars(Working)

-----------------------------------------------------------------------------
(* Properties.                                                             *)

TypeOK ==
    /\ jobs \subseteq Ids /\ running \subseteq jobs
    /\ \A i \in Ids : issues[i].status \in IssueStatus /\ issues[i].evidence \subseteq Snapshots
    /\ \A t \in Tasks : task[t].issue \in Ids \union {0}
    /\ copies \subseteq Tasks
    /\ {reviewing} \subseteq Tasks \union {Nobody}

\* An incident has one live Issue at a time, whatever reviews, closures,
\* policy answers, disconnections and crashes happen together
\* (triage_candidate).
OneIssueEach ==
    \A i, j \in Ids :
        i # j /\ Live(i) /\ Live(j) => issues[i].key # issues[j].key

\* The Issues a review lists as carrying its findings do carry them: no
\* dispatch, closure, reconciliation or other merge that read the Issue
\* before undoes the merge (update_issue_if).
EvidenceCarried ==
    \A s \in Snapshots : \A i \in review[s].issues : s \in issues[i].evidence

\* Evidence older than an incident's closure opens no new Issue, unless the
\* closure fell between the two readings of that very triage.
NoStaleIssue ==
    [][\A i \in DOMAIN issues' \ Ids : \A j \in Ids :
         (issues'[i].key = issues[j].key /\ issues[j].closed >= issues'[i].opened)
         => \E r \in Reviewers : task[r].pc = "accept" /\ j \in task[r].seen]_vars

\* While the Scheduler runs, an automatic Issue does not stay Open without a
\* Job: it is dispatched, handed to a human or closed, whatever its round
\* failed on (dispatch_pending_issues, spawn_intake_dispatch).
Waiting(key) == \E i \in Ids : issues[i].key = key /\ Pending(i)
IntakeDrains ==
    \A key \in Keys : Waiting(key) ~> (~Waiting(key) \/ mode # "Running" \/ ~up)
=============================================================================
